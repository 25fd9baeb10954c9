-------------------------- MODULE ServicesConfigProofs --------------------------
(***************************************************************************)
(* Proofs about OobsServicesConfig: types, the addresses of runlevels, and *)
(* what a commit writes.  The invariant adds to the properties that each   *)
(* table, read through the runlevels there are, says what the application  *)
(* wants by their names.                                                   *)
(***************************************************************************)
EXTENDS ServicesConfig, TLAPS

-----------------------------------------------------------------------------
(* The invariant *)

\* The table of a service, read through the runlevels of a list, says w.
Says(table, list, w) ==
    \A c \in DOMAIN list : Configuration(table, c) = w[list[c]]

Inv ==
    /\ TypeOK
    /\ RunlevelsCurrent
    /\ \A s \in Services : Says(lib.table[s], lib.runlevels, want[s])

-----------------------------------------------------------------------------
(* Tables and lists *)

LEMMA OffType == Off \in Entry
  BY PrioritiesAssumption DEF Off, Entry, Statuses

LEMMA TableType ==
    ASSUME NEW t
    PROVE  t \in Tables <=> DOMAIN t \subseteq Cells /\ t \in [DOMAIN t -> Entry]
  BY DEF Tables

LEMMA ListType ==
    ASSUME NEW list
    PROVE  list \in Lists <=>
             /\ DOMAIN list \subseteq Cells
             /\ list \in [DOMAIN list -> Runlevels]
             /\ \A c, d \in DOMAIN list : list[c] = list[d] => c = d
  BY DEF Lists, Injection, IsInjective

LEMMA NoFunctionType == NoFunction \in Tables /\ NoFunction \in Lists /\ DOMAIN NoFunction = {}
  <1>1. DOMAIN NoFunction = {} /\ NoFunction = [c \in DOMAIN NoFunction |-> NoFunction[c]]
    BY DEF NoFunction
  <1> QED BY <1>1, TableType, ListType

LEMMA ConfigurationType ==
    ASSUME NEW t \in Tables, NEW c
    PROVE  Configuration(t, c) \in Entry
  BY OffType, TableType DEF Configuration

\* oobs_service_set_runlevel_configuration changes what the table says of one
\* runlevel, and nothing when the priority is refused.
LEMMA SetProperties ==
    ASSUME NEW t \in Tables, NEW c \in Cells,
           NEW status \in Statuses, NEW priority \in Priorities
    PROVE  /\ Set(t, c, status, priority) \in Tables
           /\ DOMAIN Set(t, c, status, priority) \subseteq DOMAIN t \cup {c}
           /\ \A d : d # c => Configuration(Set(t, c, status, priority), d) = Configuration(t, d)
           /\ priority > 99 => Set(t, c, status, priority) = t
           /\ priority <= 99 =>
                 Configuration(Set(t, c, status, priority), c) =
                     [status |-> status,
                      priority |-> IF priority # 0 THEN priority
                                   ELSE Configuration(t, c).priority]
  <1> DEFINE before == IF c \in DOMAIN t THEN t[c].priority ELSE 0
             new == [status |-> status, priority |-> IF priority # 0 THEN priority ELSE before]
             u == [d \in DOMAIN t \cup {c} |-> IF d = c THEN new ELSE t[d]]
  <1>1. priority \in 0..100 /\ priority \in Int
    BY PrioritiesAssumption
  <1>2. t \in [DOMAIN t -> Entry] /\ DOMAIN t \subseteq Cells
    BY TableType
  <1>3. CASE priority > 99
    BY <1>1, <1>3 DEF Set
  <1>4. CASE priority <= 99
    <2>1. Set(t, c, status, priority) = u
      BY <1>1, <1>4 DEF Set
    <2>2. before \in Priorities \cap 0..99
      BY <1>2, PrioritiesAssumption DEF Entry
    <2>3. new \in Entry
      BY <1>1, <1>4, <2>2 DEF Entry
    <2>4. before = Configuration(t, c).priority
      BY DEF Configuration, Off
    <2> HIDE DEF before, new
    <2>5. u \in Tables
      BY <1>2, <2>3, TableType
    <2>6. \A d : d # c => Configuration(u, d) = Configuration(t, d)
      BY DEF Configuration
    <2>7. Configuration(u, c) = new
      BY DEF Configuration
    <2> QED BY <1>4, <1>1, <2>1, <2>4, <2>5, <2>6, <2>7 DEF new
  <1> QED BY <1>1, <1>3, <1>4

\* A service read from the backend says what the backend has of the runlevels
\* that are known.
LEMMA ParsedProperties ==
    ASSUME NEW list \in Lists, NEW entries \in [Runlevels -> Entry]
    PROVE  /\ Parsed(list, entries) \in Tables
           /\ DOMAIN Parsed(list, entries) \subseteq DOMAIN list
           /\ Says(Parsed(list, entries), list, entries)
  <1> DEFINE D == {d \in DOMAIN list : entries[list[d]] # Off}
             p == Parsed(list, entries)
  <1>1. DOMAIN list \subseteq Cells /\ list \in [DOMAIN list -> Runlevels]
    BY ListType
  <1>2. ASSUME NEW c \in D
        PROVE  Set(NoFunction, c, entries[list[c]].status, entries[list[c]].priority)[c]
                   = entries[list[c]]
    <2> DEFINE e == entries[list[c]]
               t == Set(NoFunction, c, e.status, e.priority)
    <2>1. e \in Entry
      BY <1>1
    <2>2. e.status \in Statuses /\ e.priority \in Priorities /\ e.priority \in 0..99
          /\ e = [status |-> e.status, priority |-> e.priority]
      BY <2>1 DEF Entry
    <2> HIDE DEF e
    <2>3. t[c] = [status |-> e.status, priority |-> e.priority]
      BY <2>2, NoFunctionType DEF Set
    <2> QED BY <2>2, <2>3 DEF e
  <1>3. p = [c \in D |-> entries[list[c]]]
    BY <1>2 DEF Parsed
  <1>4. p \in Tables
    BY <1>1, <1>3, TableType
  <1>5. Says(p, list, entries)
    BY <1>1, <1>3 DEF Says, Configuration
  <1> QED BY <1>3, <1>4, <1>5

\* _oobs_services_config_get_runlevel finds a runlevel of that name, if any.
LEMMA RunlevelProperties ==
    ASSUME NEW list, NEW name
    PROVE  /\ name \in Range(list) =>
                 /\ Runlevel(list, name) \in DOMAIN list
                 /\ list[Runlevel(list, name)] = name
           /\ name \notin Range(list) => Runlevel(list, name) = Null
  BY DEF Runlevel, Range

\* What is sent of a service is what its table says of each known runlevel,
\* unless the service is ignored there.
LEMMA SentProperties ==
    ASSUME NEW list \in Lists, NEW table \in Tables, NEW before, NEW w,
           Says(table, list, w)
    PROVE  Sent(table, list, before) =
             [r \in Runlevels |-> IF r \in Range(list) /\ w[r].status # "ignore"
                                  THEN w[r] ELSE before[r]]
  <1>1. ASSUME NEW r \in Runlevels, r \in Range(list)
        PROVE  /\ Runlevel(list, r) # Null
               /\ Configuration(table, Runlevel(list, r)) = w[r]
    BY <1>1, RunlevelProperties, ListType, NullAssumption DEF Says
  <1>2. ASSUME NEW r \in Runlevels, r \notin Range(list)
        PROVE  Runlevel(list, r) = Null
    BY <1>2, RunlevelProperties
  <1> QED BY <1>1, <1>2 DEF Sent

-----------------------------------------------------------------------------
(* Updates *)

LEMMA AllocatedType ==
    ASSUME NEW names \in SUBSET Runlevels, NEW list \in Allocated(names)
    PROVE  list \in Lists /\ Range(list) = names
  BY ListType DEF Allocated, Injection, IsInjective

\* oobs_services_config_update replaces the runlevels, the default and every
\* table together.
LEMMA LoadedProperties ==
    ASSUME NEW s \in Library, NEW a \in Answer, NEW list \in Lists
    PROVE  /\ Loaded(s, list, a) \in Library
           /\ Loaded(s, list, a).runlevels = list
           /\ Loaded(s, list, a).default = Runlevel(list, a.default)
           /\ Loaded(s, list, a).table = [n \in Services |-> Parsed(list, a.conf[n])]
  <1>1. Runlevel(list, a.default) \in Cells \cup {Null}
    BY RunlevelProperties, ListType
  <1>2. [n \in Services |-> Parsed(list, a.conf[n])] \in [Services -> Tables]
    BY ParsedProperties DEF Answer, Confs
  <1>3. s.keep # Null => [name |-> s.keep, table |-> s.table[s.keep]]
                            \in [name : Services \cup {Null}, table : Tables]
    BY DEF Library
  <1> QED BY <1>1, <1>2, <1>3 DEF Loaded, Library

LEMMA LoadKeeps ==
    ASSUME Inv, NEW a \in Answer, Load(a)
    PROVE  /\ lib' \in Library
           /\ read' \in Runlevels \cup {Null} /\ want' \in Confs
           /\ changes' = changes
           /\ RunlevelsCurrent'
           /\ \A s \in Services : Says(lib'.table[s], lib'.runlevels, want'[s])
  <1>1. PICK list \in Allocated(a.levels) : lib' = Loaded(lib, list, a)
    BY DEF Load
  <1>2. a.levels \in SUBSET Runlevels /\ a.default \in Runlevels \cup {Null} /\ a.conf \in Confs
    BY DEF Answer
  <1>3. list \in Lists /\ Range(list) = a.levels
    BY <1>1, <1>2, AllocatedType
  <1>4. lib \in Library
    BY DEF Inv, TypeOK
  <1>5. /\ lib' \in Library
        /\ lib'.runlevels = list
        /\ lib'.default = Runlevel(list, a.default)
        /\ lib'.table = [n \in Services |-> Parsed(list, a.conf[n])]
    BY <1>1, <1>3, <1>4, LoadedProperties
  <1>6. read' = a.default /\ want' = a.conf /\ changes' = changes
    BY DEF Load
  <1>7. ASSUME NEW s \in Services
        PROVE  /\ DOMAIN lib'.table[s] \subseteq DOMAIN list
               /\ Says(lib'.table[s], lib'.runlevels, want'[s])
    BY <1>2, <1>3, <1>5, <1>6, ParsedProperties DEF Confs
  <1>8. /\ lib'.default # Null => lib'.default \in DOMAIN list /\ list[lib'.default] = read'
        /\ lib'.default = Null => read' \notin Range(list)
    BY <1>3, <1>5, <1>6, RunlevelProperties, ListType, NullAssumption
  <1>9. RunlevelsCurrent'
    BY <1>5, <1>7, <1>8 DEF RunlevelsCurrent
  <1> QED BY <1>2, <1>5, <1>6, <1>7, <1>9

-----------------------------------------------------------------------------
(* The application *)

LEMMA ConfigureKeeps ==
    ASSUME Inv, NEW s \in Services, NEW c \in DOMAIN lib.runlevels,
           NEW status \in Statuses, NEW priority \in Priorities,
           Configure(s, c, status, priority)
    PROVE  Inv'
  <1> DEFINE t == Set(lib.table[s], c, status, priority)
             list == lib.runlevels
             old == want[s][list[c]]
  <1>1. /\ lib \in Library /\ want \in Confs /\ TypeOK
        /\ list \in Lists /\ lib.table \in [Services -> Tables]
    BY DEF Inv, TypeOK, Library
  <1>2. c \in Cells /\ list[c] \in Runlevels
    BY <1>1, ListType
  <1>3. priority \in 0..100
    BY PrioritiesAssumption
  <1>4. /\ t \in Tables
        /\ DOMAIN t \subseteq DOMAIN lib.table[s] \cup {c}
        /\ \A d : d # c => Configuration(t, d) = Configuration(lib.table[s], d)
        /\ priority > 99 => t = lib.table[s]
        /\ priority <= 99 =>
              Configuration(t, c) =
                  [status |-> status,
                   priority |-> IF priority # 0 THEN priority
                                ELSE Configuration(lib.table[s], c).priority]
    BY <1>1, <1>2, SetProperties
  <1>5. lib' = [lib EXCEPT !.table[s] = t]
    BY DEF Configure
  <1> HIDE DEF t
  <1>6. /\ lib' \in Library
        /\ lib'.runlevels = list /\ lib'.default = lib.default
        /\ lib'.table = [lib.table EXCEPT ![s] = t]
    BY <1>1, <1>4, <1>5 DEF Library
  <1>7. Configuration(lib.table[s], c) = old
    BY DEF Inv, Says
  <1>8. old \in Entry
    BY <1>1, <1>2 DEF Confs
  <1>9. /\ want' \in Confs
        /\ \A n \in Services : n # s => want'[n] = want[n]
        /\ \A d \in DOMAIN list : d # c => want'[s][list[d]] = want[s][list[d]]
        /\ Configuration(t, c) = want'[s][list[c]]
    <2>1. CASE priority > 99
      <3>1. want' = want
        BY <2>1 DEF Configure
      <3> QED BY <1>1, <1>4, <1>7, <2>1, <3>1
    <2>2. CASE priority <= 99
      <3> DEFINE new == [status |-> status,
                         priority |-> IF priority = 0 THEN old.priority ELSE priority]
      <3>1. new \in Entry
        BY <1>3, <1>8, <2>2 DEF Entry
      <3>2. want' = [want EXCEPT ![s] = [want[s] EXCEPT ![list[c]] = new]]
        <4>1. want' = [want EXCEPT ![s][list[c]] =
                           [status |-> status,
                            priority |-> IF priority = 0 THEN @.priority ELSE priority]]
          BY <1>3, <2>2 DEF Configure
        <4> QED BY <1>1, <1>2, <4>1 DEF Confs
      <3>3. Configuration(t, c) = new
        BY <1>3, <1>4, <1>7, <2>2
      <3> HIDE DEF new
      <3>4. \A d \in DOMAIN list : d # c => list[d] # list[c]
        BY <1>1, ListType
      <3> QED BY <1>1, <1>2, <3>1, <3>2, <3>3, <3>4, ListType DEF Confs
    <2> QED BY <1>3, <2>1, <2>2
  <1>10. \A n \in Services : Says(lib'.table[n], lib'.runlevels, want'[n])
    <2>1. ASSUME NEW n \in Services, n # s
          PROVE  Says(lib'.table[n], list, want'[n])
      BY <1>1, <1>6, <1>9, <2>1 DEF Inv
    <2>2. ASSUME NEW d \in DOMAIN list
          PROVE  Configuration(t, d) = want'[s][list[d]]
      <3>1. Configuration(lib.table[s], d) = want[s][list[d]]
        BY DEF Inv, Says
      <3>2. CASE d = c
        BY <1>9, <3>2
      <3>3. CASE d # c
        <4>1. Configuration(t, d) = Configuration(lib.table[s], d)
          BY <1>4, <3>3
        <4>2. want'[s][list[d]] = want[s][list[d]]
          BY <1>9, <3>3
        <4> QED BY <3>1, <4>1, <4>2
      <3> QED BY <3>2, <3>3
    <2>3. lib'.table[s] = t
      BY <1>1, <1>6
    <2> QED BY <1>6, <2>1, <2>2, <2>3 DEF Says
  <1>11. RunlevelsCurrent'
    <2>1. read' = read
      BY DEF Configure
    <2>2. \A n \in Services : DOMAIN lib'.table[n] \subseteq DOMAIN list
      BY <1>1, <1>4, <1>6 DEF Inv, RunlevelsCurrent
    <2> QED BY <1>6, <2>1, <2>2 DEF Inv, RunlevelsCurrent
  <1>12. TypeOK'
    BY <1>1, <1>6, <1>9, BoundAssumption DEF Configure, Change, TypeOK, system, Snapshot
  <1> QED BY <1>10, <1>11, <1>12 DEF Inv

\* The application keeps a service, which changes neither list nor tables.
LEMMA KeepKeeps ==
    ASSUME Inv, NEW s \in Services, Keep(s)
    PROVE  Inv'
  <1>1. lib \in Library /\ lib' = [lib EXCEPT !.keep = s]
    BY DEF Inv, TypeOK, Keep
  <1>2. /\ lib' \in Library
        /\ lib'.runlevels = lib.runlevels /\ lib'.default = lib.default
        /\ lib'.table = lib.table
    BY <1>1 DEF Library
  <1>3. read' = read /\ want' = want
    BY DEF Keep
  <1>4. TypeOK'
    BY <1>2, BoundAssumption DEF Inv, Keep, Change, TypeOK, system, Snapshot
  <1>5. RunlevelsCurrent'
    BY <1>2, <1>3 DEF Inv, RunlevelsCurrent
  <1> QED BY <1>2, <1>3, <1>4, <1>5 DEF Inv

-----------------------------------------------------------------------------
(* The system *)

\* What is sent of a service, however old its table is, is a configuration.
LEMMA SentType ==
    ASSUME NEW table \in Tables, NEW list, NEW before \in [Runlevels -> Entry]
    PROVE  Sent(table, list, before) \in [Runlevels -> Entry]
  BY ConfigurationType DEF Sent

LEMMA ConfType ==
    ASSUME Inv,
           \/ Commit
           \/ CommitOld
           \/ \E s \in Services : CommitService(s)
           \/ \E s \in Services, r \in Runlevels : OtherConfigures(s, r)
    PROVE  conf' \in Confs
  <1>1. lib \in Library /\ conf \in Confs
    BY DEF Inv, TypeOK, Snapshot, Answer
  <1>2. CASE Commit
    BY <1>1, <1>2, SentType DEF Commit, Confs, Library
  <1>3. CASE CommitOld
    <2>1. lib.old.name \in Services /\ lib.old.table \in Tables
      BY <1>1, <1>3 DEF CommitOld, Library
    <2> QED BY <1>1, <1>3, <2>1, SentType DEF CommitOld, Confs
  <1>4. ASSUME NEW s \in Services, CommitService(s)
        PROVE  conf' \in Confs
    BY <1>1, <1>4, SentType DEF CommitService, Confs, Library
  <1>5. ASSUME NEW s \in Services, NEW r \in Runlevels, OtherConfigures(s, r)
        PROVE  conf' \in Confs
    BY <1>1, <1>5 DEF OtherConfigures, Confs
  <1> QED BY <1>2, <1>3, <1>4, <1>5

-----------------------------------------------------------------------------
(* The theorems *)

LEMMA Initial == Init => Inv
  <1> SUFFICES ASSUME Init PROVE Inv
    OBVIOUS
  <1>1. lib \in Library
    <2>1. [s \in Services |-> NoFunction] \in [Services -> Tables]
      BY NoFunctionType
    <2> QED BY <2>1, NoFunctionType DEF Init, Library
  <1>2. TypeOK
    <2>1. Snapshot \in Answer
      BY DEF Init, Snapshot, Answer
    <2>2. get = Null /\ crashed = FALSE /\ changes = 0 /\ read = Null /\ want = conf
      BY DEF Init
    <2>3. conf \in Confs
      BY DEF Init
    <2>4. 0 \in 0..MaxChanges
      BY BoundAssumption
    <2> QED BY <1>1, <2>1, <2>2, <2>3, <2>4 DEF TypeOK
  <1>3. /\ lib.runlevels = NoFunction /\ lib.default = Null /\ read = Null
        /\ \A s \in Services : lib.table[s] = NoFunction
    BY DEF Init
  <1>4. Range(NoFunction) = {}
    BY NoFunctionType DEF Range
  <1> QED BY <1>2, <1>3, <1>4, NoFunctionType DEF Inv, RunlevelsCurrent, Says

\* A step that leaves the library, and what is wanted, alone.
LEMMA OtherStep ==
    ASSUME Inv, UNCHANGED <<lib, read, want>>, TypeOK'
    PROVE  Inv'
  BY DEF Inv, RunlevelsCurrent, Says

LEMMA Step == Inv /\ [Next]_vars => Inv'
  <1> SUFFICES ASSUME Inv, [Next]_vars PROVE Inv'
    OBVIOUS
  <1> USE DEF Snapshot, system, history
  <1>0. TypeOK /\ Snapshot \in Answer
    BY DEF Inv, TypeOK
  <1>1. CASE Update
    <2>1. Load(Snapshot)
      BY <1>1 DEF Update
    <2>2. TypeOK'
      BY <1>0, <1>1, <2>1, LoadKeeps DEF Update, TypeOK
    <2> QED BY <1>0, <2>1, <2>2, LoadKeeps DEF Inv
  <1>2. CASE UpdateAsync
    BY <1>0, <1>2, OtherStep DEF UpdateAsync, TypeOK
  <1>3. CASE Dispatch
    <2>1. get \in Answer /\ Load(get)
      BY <1>0, <1>3 DEF Dispatch, TypeOK, pending
    <2>2. TypeOK'
      BY <1>0, <1>3, <2>1, LoadKeeps DEF Dispatch, TypeOK
    <2> QED BY <2>1, <2>2, LoadKeeps DEF Inv
  <1>4. CASE UpdateService
    BY <1>0, <1>4, OtherStep DEF UpdateService, TypeOK
  <1>5. CASE Commit
    BY <1>0, <1>5, ConfType, OtherStep DEF Commit, TypeOK, Answer
  <1>6. CASE CommitOld
    BY <1>0, <1>6, ConfType, OtherStep DEF CommitOld, TypeOK, Answer
  <1>7. ASSUME NEW s \in Services, CommitService(s)
        PROVE  Inv'
    BY <1>0, <1>7, ConfType, OtherStep DEF CommitService, TypeOK, Answer
  <1>8. ASSUME NEW s \in Services, Keep(s)
        PROVE  Inv'
    BY <1>8, KeepKeeps
  <1>9. ASSUME NEW s \in Services, NEW c \in DOMAIN lib.runlevels,
               NEW status \in Statuses, NEW priority \in Priorities,
               Configure(s, c, status, priority)
        PROVE  Inv'
    BY <1>9, ConfigureKeeps
  <1>10. ASSUME NEW s \in Services, NEW r \in Runlevels, OtherConfigures(s, r)
         PROVE  Inv'
    <2>1. changes' \in 0..MaxChanges
      BY <1>0, <1>10, BoundAssumption DEF OtherConfigures, Change, TypeOK
    <2>2. conf' \in Confs
      BY <1>10, ConfType
    <2>3. /\ UNCHANGED <<levels, default, lib, get, crashed>>
          /\ UNCHANGED <<lib, read, want>>
      BY <1>10 DEF OtherConfigures
    <2>4. TypeOK'
      BY <1>0, <2>1, <2>2, <2>3 DEF TypeOK, Answer
    <2> QED BY <2>3, <2>4, OtherStep
  <1>11. CASE SwitchRunlevel
    BY <1>0, <1>11, OtherStep, BoundAssumption DEF SwitchRunlevel, Change, TypeOK, Answer
  <1>12. CASE UNCHANGED vars
    BY <1>0, <1>12, OtherStep DEF vars, TypeOK
  <1> QED BY <1>1, <1>2, <1>3, <1>4, <1>5, <1>6, <1>7, <1>8, <1>9, <1>10, <1>11, <1>12 DEF Next

\* What oobs-servicesconfig.c keeps by addresses of runlevels agrees, read
\* through the runlevels, with what was read and set by their names.
THEOREM Invariance == Spec => []Inv
  BY Initial, Step, PTL DEF Spec

\* Types, of the tables and of their keys above all.
THEOREM TypeCorrect == Spec => []TypeOK
  <1>1. Inv => TypeOK
    BY DEF Inv
  <1> QED BY <1>1, Invariance, PTL

\* No listed service is keyed by a runlevel that has been freed, and the default
\* runlevel is the one the last update named.
THEOREM NoFreedRunlevels == Spec => []RunlevelsCurrent
  <1>1. Inv => RunlevelsCurrent
    BY DEF Inv
  <1> QED BY <1>1, Invariance, PTL

\* Whatever addresses the runlevels have had, a commit of listed services writes
\* what was read by their names and what the application changed since.
THEOREM CommitGivesBack == Spec => ConfigKept
  <1> DEFINE Right == \A s \in Services : Commit \/ CommitService(s) => Kept(s)
  <1>1. Inv /\ [Next]_vars => [Right]_vars
    <2> SUFFICES ASSUME Inv, NEW s \in Services, Commit \/ CommitService(s)
                 PROVE  Kept(s)
      OBVIOUS
    <2>1. lib \in Library /\ conf \in Confs
      BY DEF Inv, TypeOK, Snapshot, Answer
    <2>2. conf'[s] = Sent(lib.table[s], lib.runlevels, conf[s])
      BY <2>1 DEF Commit, CommitService, Confs
    <2>3. lib.table[s] \in Tables /\ lib.runlevels \in Lists
      BY <2>1 DEF Library
    <2>4. Says(lib.table[s], lib.runlevels, want[s])
      BY DEF Inv
    <2> QED BY <2>2, <2>3, <2>4, SentProperties DEF Kept
  <1> QED BY <1>1, Invariance, PTL DEF Spec, ConfigKept

=============================================================================
