---------------------------- MODULE ServicesConfig ----------------------------
(***************************************************************************)
(* OobsServicesConfig and its OobsServices: which services the system      *)
(* starts and stops in each runlevel.  The configuration of a service is a *)
(* hash table whose keys are the addresses of OobsServicesRunlevels, and   *)
(* every update frees the runlevels and allocates others, perhaps at the   *)
(* same addresses.  Everything is right only as long as the tables and the *)
(* runlevels are of the same update.                                       *)
(*                                                                         *)
(* The application takes runlevels and services afresh after each update,  *)
(* but for one service it keeps a reference to.  A call of the public API  *)
(* is one step; every service has a name, so that messages are well        *)
(* formed.                                                                 *)
(***************************************************************************)
EXTENDS Integers, FiniteSets, Functions, TLC

CONSTANTS
    Services,   \* The names of the services
    Runlevels,  \* The names of the runlevels
    Cells,      \* The addresses where a runlevel may be allocated
    Priorities, \* The priorities passed and read: 0, and some of 1..100
    MaxChanges, \* Bound: changes by the application and by other programs
    Null        \* A NULL pointer

ASSUME SetsAssumption ==
    /\ IsFiniteSet(Runlevels) /\ IsFiniteSet(Cells)
    /\ Cardinality(Runlevels) <= Cardinality(Cells)
ASSUME PrioritiesAssumption == Priorities \subseteq 0..100 /\ 0 \in Priorities
ASSUME NullAssumption == Null \notin Services \cup Runlevels \cup Cells
ASSUME BoundAssumption == MaxChanges \in Nat

Statuses == {"start", "stop", "ignore"}

\* A service in a runlevel.  What the backend does not list is Off.
Entry == [status : Statuses, priority : Priorities \cap 0..99]
Off == [status |-> "stop", priority |-> 0]
Confs == [Services -> [Runlevels -> Entry]]

\* The tables of services: partial functions from addresses.
Tables == UNION {[D -> Entry] : D \in SUBSET Cells}
Lists == UNION {Injection(D, Runlevels) : D \in SUBSET Cells}
NoFunction == [c \in {} |-> Null]

VARIABLES
    levels,  \* The runlevels of the system
    default, \* The current one, or Null when the backend cannot tell
    conf,    \* The configuration of the services on the system
    lib,     \* The state of the library, see Library
    get,     \* The answer to an asynchronous update, until it is dispatched
    crashed, \* Whether the process has died
    changes, \* Bound: changes so far
    read,    \* History: the default runlevel of the last update
    want     \* History: what the last update read, with the changes since

system == <<levels, default, conf>>
history == <<changes, read, want>>
vars == <<system, lib, get, crashed, history>>

Library ==
    [runlevels : Lists,                           \* priv->runlevels: live addresses
     default : Cells \cup {Null},                 \* priv->default_runlevel
     listed : BOOLEAN,                            \* whether the services are listed
     table : [Services -> Tables],                \* runlevels_config of each service
     keep : Services \cup {Null},                 \* the service the application keeps
     old : [name : Services \cup {Null}, table : Tables]] \* it, after an update

Answer == [levels : SUBSET Runlevels, default : Runlevels \cup {Null}, conf : Confs]
Snapshot == [levels |-> levels, default |-> default, conf |-> conf]
pending == get # Null

TypeOK ==
    /\ Snapshot \in Answer
    /\ lib \in Library
    /\ get = Null \/ get \in Answer
    /\ crashed \in BOOLEAN
    /\ changes \in 0..MaxChanges
    /\ read \in Runlevels \cup {Null} /\ want \in Confs

Init ==
    /\ levels \in SUBSET Runlevels
    /\ default \in levels \cup {Null}
    /\ conf \in Confs
    /\ lib = [runlevels |-> NoFunction, default |-> Null, listed |-> FALSE,
              table |-> [s \in Services |-> NoFunction],
              keep |-> Null, old |-> [name |-> Null, table |-> NoFunction]]
    /\ get = Null
    /\ crashed = FALSE
    /\ changes = 0
    /\ read = Null /\ want = conf

-----------------------------------------------------------------------------
(* Operations *)

\* _oobs_services_config_get_runlevel: the runlevel of a name, or Null.
Runlevel(list, name) ==
    IF \E c \in DOMAIN list : list[c] = name
    THEN CHOOSE c \in DOMAIN list : list[c] = name ELSE Null

\* Mutant: any priority is taken.
SetUnchecked(table, c, status, priority) ==
    [d \in DOMAIN table \cup {c} |->
        IF d = c THEN [status |-> status, priority |-> priority] ELSE table[d]]

\* oobs_service_set_runlevel_configuration
Set(table, c, status, priority) ==
    LET before == IF c \in DOMAIN table THEN table[c].priority ELSE 0
        new == [status |-> status, priority |-> IF priority # 0 THEN priority ELSE before]
    IN IF priority \notin 0..99 THEN table
       ELSE [d \in DOMAIN table \cup {c} |-> IF d = c THEN new ELSE table[d]]

\* oobs_service_get_runlevel_configuration
Configuration(table, c) == IF c \in DOMAIN table THEN table[c] ELSE Off

\* create_service_runlevels_from_dbus_reply, for a new service: of the entries
\* that are listed, those whose runlevel is known.
Parsed(list, entries) ==
    [c \in {d \in DOMAIN list : entries[list[d]] # Off} |->
        Set(NoFunction, c, entries[list[c]].status, entries[list[c]].priority)[c]]

\* create_runlevels_list_from_dbus_reply: the list is freed before the new one
\* is allocated, so that any address may be used again.
Allocated(names) == UNION {{f \in Injection(D, names) : Range(f) = names} : D \in SUBSET Cells}

\* Mutant: the default is looked up before the runlevels are replaced.
LoadedEarly(s, list, a) ==
    [s EXCEPT !.runlevels = list,
              !.default = Runlevel(s.runlevels, a.default),
              !.listed = TRUE,
              !.table = [n \in Services |-> Parsed(list, a.conf[n])],
              !.old = IF s.keep = Null THEN @ ELSE [name |-> s.keep, table |-> s.table[s.keep]],
              !.keep = Null]

\* oobs_services_config_update: all services are new ones, and the service the
\* application keeps stays as it was, out of the list.
Loaded(s, list, a) ==
    [s EXCEPT !.runlevels = list,
              !.default = Runlevel(list, a.default),
              !.listed = TRUE,
              !.table = [n \in Services |-> Parsed(list, a.conf[n])],
              !.old = IF s.keep = Null THEN @ ELSE [name |-> s.keep, table |-> s.table[s.keep]],
              !.keep = Null]

\* Mutant: a service that does not know of a runlevel says nothing of its own.
SentKnown(table, list, before) ==
    [r \in Runlevels |->
        LET c == Runlevel(list, r) IN
        IF c = Null \/ c \notin DOMAIN table THEN before[r] ELSE table[c]]

\* create_dbus_struct_from_service_runlevels, and what the backend does with
\* it: nothing is said of the runlevels where the service is ignored.
Sent(table, list, before) ==
    [r \in Runlevels |->
        LET c == Runlevel(list, r) IN
        IF c = Null \/ Configuration(table, c).status = "ignore" THEN before[r]
        ELSE Configuration(table, c)]

-----------------------------------------------------------------------------
(* Updates *)

Load(a) ==
    /\ \E list \in Allocated(a.levels) : lib' = Loaded(lib, list, a)
    /\ read' = a.default
    /\ want' = a.conf
    /\ UNCHANGED changes

\* oobs_object_update
Update ==
    /\ ~crashed
    /\ Load(Snapshot)
    /\ UNCHANGED <<system, get, crashed>>

\* oobs_object_update_async
UpdateAsync ==
    /\ ~crashed /\ ~pending
    /\ get' = Snapshot
    /\ UNCHANGED <<system, lib, crashed, history>>

Dispatch ==
    /\ ~crashed /\ pending
    /\ Load(get)
    /\ get' = Null
    /\ UNCHANGED <<system, crashed>>

\* oobs_object_update on one service: the reply is parsed by an iterator that
\* has not been initialised.
UpdateService ==
    /\ ~crashed /\ lib.listed
    /\ crashed' \in BOOLEAN
    /\ UNCHANGED <<system, lib, get, history>>

-----------------------------------------------------------------------------
(* Commits *)

\* oobs_object_commit on the configuration: every service is sent.
Commit ==
    /\ ~crashed /\ lib.listed
    /\ conf' = [s \in Services |-> Sent(lib.table[s], lib.runlevels, conf[s])]
    /\ UNCHANGED <<levels, default, lib, get, crashed, history>>

\* oobs_object_commit on one service, with the runlevels there are now
CommitService(s) ==
    /\ ~crashed /\ lib.listed
    /\ conf' = [conf EXCEPT ![s] = Sent(lib.table[s], lib.runlevels, @)]
    /\ UNCHANGED <<levels, default, lib, get, crashed, history>>

\* The same on the service kept from before an update.
CommitOld ==
    /\ ~crashed /\ lib.old.name # Null
    /\ conf' = [conf EXCEPT ![lib.old.name] = Sent(lib.old.table, lib.runlevels, @)]
    /\ UNCHANGED <<levels, default, lib, get, crashed, history>>

-----------------------------------------------------------------------------
(* The application and other programs *)

\* Bound.
Change == changes < MaxChanges /\ changes' = changes + 1

\* oobs_service_set_runlevel_configuration, with a runlevel of
\* oobs_services_config_get_runlevels
Configure(s, c, status, priority) ==
    /\ ~crashed /\ lib.listed
    /\ Change
    /\ lib' = [lib EXCEPT !.table[s] = Set(@, c, status, priority)]
    /\ want' = IF priority > 99 THEN want
               ELSE [want EXCEPT ![s][lib.runlevels[c]] =
                         [status |-> status,
                          priority |-> IF priority = 0 THEN @.priority ELSE priority]]
    /\ UNCHANGED <<system, get, crashed, read>>

\* The application takes a reference to a listed service.
Keep(s) ==
    /\ ~crashed /\ lib.listed
    /\ Change
    /\ lib' = [lib EXCEPT !.keep = s]
    /\ UNCHANGED <<system, get, crashed, read, want>>

\* Another program changes the configuration of a service, or the runlevel.
OtherConfigures(s, r) ==
    /\ Change
    /\ \E e \in Entry : conf' = [conf EXCEPT ![s][r] = e]
    /\ UNCHANGED <<levels, default, lib, get, crashed, read, want>>

SwitchRunlevel ==
    /\ Change
    /\ default' \in (levels \cup {Null}) \ {default}
    /\ UNCHANGED <<levels, conf, lib, get, crashed, read, want>>

Next ==
    \/ Update \/ UpdateAsync \/ Dispatch \/ UpdateService
    \/ Commit \/ CommitOld
    \/ \E s \in Services : CommitService(s) \/ Keep(s)
    \/ \E s \in Services, c \in DOMAIN lib.runlevels,
          status \in Statuses, priority \in Priorities : Configure(s, c, status, priority)
    \/ \E s \in Services, r \in Runlevels : OtherConfigures(s, r)
    \/ SwitchRunlevel

Spec == Init /\ [][Next]_vars

\* An address is as good as another.
CellSymmetry == Permutations(Cells)

-----------------------------------------------------------------------------
(* Properties *)

\* The tables of the listed services know no address but those of the runlevels
\* of the last update (create_runlevels_list_from_dbus_reply frees the others),
\* and oobs_services_config_get_default_runlevel returns the runlevel that
\* update named, which is alive, or NULL.
RunlevelsCurrent ==
    /\ \A s \in Services : DOMAIN lib.table[s] \subseteq DOMAIN lib.runlevels
    /\ lib.default # Null =>
          lib.default \in DOMAIN lib.runlevels /\ lib.runlevels[lib.default] = read
    /\ lib.default = Null => read \notin Range(lib.runlevels)

\* A commit of listed services writes what was read of each by the name of the
\* runlevel, and what the application changed since ("Use 0 to either keep the
\* previous priority", oobs-service.c:391), whatever the addresses; of a runlevel
\* that update did not list, or where the service is ignored, it writes nothing.
Kept(s) ==
    \A r \in Runlevels :
        conf'[s][r] = IF r \in Range(lib.runlevels) /\ want[s][r].status # "ignore"
                      THEN want[s][r] ELSE conf[s][r]

ConfigKept ==
    [][\A s \in Services : Commit \/ CommitService(s) => Kept(s)]_vars

=============================================================================
