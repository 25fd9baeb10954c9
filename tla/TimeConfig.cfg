CONSTANTS
    Platforms = {p, q}
    Years = {1969, 2024, 2100}
    Months = {1, 2}
    Days = {0, 29, 31}
    Quarters = {8, 96}
    Zones = {z}
    Winter = 4
    Boot = 2024
    MaxTicks = 1
    MaxSets = 2
    Null = Null
SPECIFICATION Spec
INVARIANTS TypeOK DatesSurvive PlatformAgrees
