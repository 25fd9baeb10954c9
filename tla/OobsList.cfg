CONSTANTS
    Nodes = {n1, n2, n3}
    Null = Null
    Iters = {i1, i2}
    Objects = {o1, o2}
    Contained = {o1}
    MaxStamp = 2
SPECIFICATION Spec
INVARIANTS TypeOK WellLinked ElementsHeld IterSound
PROPERTY IsSequence
