----------------------------- MODULE IfacesConfig -----------------------------
(***************************************************************************)
(* OobsIfacesConfig: the network interfaces of the system, read by updates *)
(* and written by commits, with a second source of news.  A netlink        *)
(* monitor reads the kernel's messages about links in the main loop, finds *)
(* the OobsIface in a hash table of the names, and sets its "active".      *)
(*                                                                         *)
(* The hash table owns no references to the interfaces: the lists do, and  *)
(* the application may change the lists.  A PPP interface of type pppoe    *)
(* refers to an Ethernet interface, found in the same table while the      *)
(* reply of an update is parsed.                                           *)
(*                                                                         *)
(* A call of the public API is one step; the protocol of calls is the      *)
(* subject of OobsObject.  An interface the application keeps from before  *)
(* an update is in no list and not in the table, so that there is at most  *)
(* one object of a name that matters, and objects go by their names.       *)
(***************************************************************************)
EXTENDS Integers, Sequences, FiniteSets, Functions

CONSTANTS
    Ethernets, \* The names of Ethernet interfaces, of which IrLAN ones are like the others
    Wireless,  \* Those that are wireless, which need the name of a network
    Ppps,      \* The names of PPP interfaces
    Tty,       \* The device of a modem
    MaxEvents, \* Bound: netlink messages queued at once
    MaxEdits,  \* Bound: changes by the application between updates
    Overtaking, \* Whether the application changes or commits anything while the
               \* answer to an asynchronous update waits to be dispatched
    Null       \* A NULL pointer, which an empty string is read as

ASSUME NamesAssumption ==
    IsFiniteSet(Ethernets) /\ IsFiniteSet(Ppps) /\ Wireless \subseteq Ethernets
ASSUME Disjoint ==
    /\ Ethernets \cap Ppps = {}
    /\ Tty \notin Ethernets
    /\ Null \notin Ethernets \cup {Tty, "dhcp", "static", "modem", "pppoe"}
ASSUME OvertakingAssumption == Overtaking \in BOOLEAN
ASSUME BoundsAssumption ==
    MaxEvents \in Nat \ {0} /\ MaxEdits \in Nat

Names == Ethernets \cup Ppps

\* Configuration methods and connection types.
EthernetTypes == {"dhcp", "static"}
PppTypes == {"modem", "pppoe"}
Types == EthernetTypes \cup PppTypes \cup {Null}
Devices == Ethernets \cup {Tty, Null}

\* The configuration of an interface as the system keeps it; "complete" stands
\* for the address and netmask of an Ethernet interface, and for the login and
\* phone number of a PPP interface.  Of a wireless interface there may be an
\* "essid", and of an Ethernet interface the addresses of its "network": its own
\* and that of its broadcasts.
Conf == [type : Types, device : Devices, complete : BOOLEAN,
         essid : BOOLEAN, network : BOOLEAN]

\* What the backend answers to a get.
Answer == [link : [Names -> BOOLEAN], present : SUBSET Ethernets, conf : [Names -> Conf]]

VARIABLES
    link,    \* Whether each interface is up, as the kernel knows
    present, \* The Ethernet interfaces plugged in
    conf,    \* The configuration of each interface on the system
    events,  \* Netlink messages not yet read
    lib,     \* The state of the library, see Library
    get,     \* The answer to an asynchronous update, until it is dispatched
    crashed, \* Whether the process has died, and of what
    edits,   \* Bound: changes by the application since the last update
    read,    \* History: what the last update read
    edited,  \* History: interfaces whose "active" the application has set since
    touched, \* History: interfaces whose configuration the application has changed
    removed, \* History: names the application took off the lists since
    missed   \* History: names of messages handled before an answer that did not
             \* know of them was dispatched

system == <<link, present, conf>>
history == <<edits, read, edited, touched, removed, missed>>
vars == <<system, events, lib, get, crashed, history>>

Iface ==
    [active : BOOLEAN,
     type : Types,
     complete : BOOLEAN,
     essid : BOOLEAN,                 \* priv->essid is not NULL
     serial : Devices,                \* priv->serial_port
     ethernet : Ethernets \cup {Null}, \* priv->ethernet, with a reference
     off : BOOLEAN]                   \* priv->explicitly_not_configured

Blank == [active |-> FALSE, type |-> Null, complete |-> FALSE, essid |-> FALSE,
          serial |-> Null, ethernet |-> Null, off |-> FALSE]

Library ==
    [listed : SUBSET Names,                     \* the lists of interfaces
     table : SUBSET Names,                      \* the keys of priv->ifaces
     iface : [Names -> Iface]]

Snapshot == [link |-> link, present |-> present, conf |-> conf]
NoGet == [answer |-> Null, handled |-> {}]
pending == get.answer # Null

TypeOK ==
    /\ Snapshot \in Answer
    /\ events \in Seq([name : Names, active : BOOLEAN])
    /\ lib \in Library
    /\ get \in [answer : Answer \cup {Null}, handled : SUBSET Names]
    /\ crashed \in {"no", "freed", "null"}
    /\ edits \in 0..MaxEdits
    /\ read \in [present : SUBSET Ethernets, conf : [Names -> Conf]]
    /\ edited \subseteq Names /\ touched \subseteq Names
    /\ removed \subseteq Names /\ missed \subseteq Names

\* Every link is down, and every interface has a complete configuration.
Init ==
    /\ link = [n \in Names |-> FALSE]
    /\ present = Ethernets
    /\ conf \in [Names -> Conf]
    /\ \A n \in Names : /\ conf[n].complete
                        /\ conf[n].essid <=> n \in Wireless
                        /\ conf[n].network => n \in Ethernets
    /\ \A n \in Ethernets : conf[n].type \in EthernetTypes /\ conf[n].device = Null
    /\ \A n \in Ppps : \/ conf[n].type = "modem" /\ conf[n].device = Tty
                       \/ conf[n].type = "pppoe" /\ conf[n].device \in Ethernets
    /\ events = <<>>
    /\ lib = [listed |-> {}, table |-> {}, iface |-> [n \in Names |-> Blank]]
    /\ get = NoGet
    /\ crashed = "no"
    /\ edits = 0
    /\ read = [present |-> present, conf |-> conf]
    /\ edited = {} /\ touched = {} /\ removed = {} /\ missed = {}

-----------------------------------------------------------------------------
(* Objects *)

\* The interfaces that have not been finalized: those with a reference.
Live(s) == s.listed \cup ({s.iface[n].ethernet : n \in s.listed} \ {Null})

\* What is finalized is forgotten, but not by the table; of an interface no
\* list holds, nothing matters.
Settle(s) == [s EXCEPT !.iface = [n \in Names |-> IF n \in s.listed THEN @[n] ELSE Blank]]

-----------------------------------------------------------------------------
(* Updates *)

\* Mutant: free_configuration keeps the table.
FreeKeepingTable(s) == Settle([s EXCEPT !.listed = {}])

\* free_configuration
Free(s) == Settle([s EXCEPT !.listed = {}, !.table = {}])

\* The pppoe connection of an answer whose device is the empty string: its
\* hash is taken of a NULL pointer.
HashesNull(a) == \E n \in Ppps : a.conf[n].type = "pppoe" /\ a.conf[n].device = Null

\* Mutant: the device is taken for an Ethernet interface whatever the type.
CreatedEthernet(s, n, a) ==
    [Blank EXCEPT !.active = a.link[n], !.type = a.conf[n].type,
                  !.complete = a.conf[n].complete, !.essid = a.conf[n].essid,
                  !.ethernet = a.conf[n].device]

\* create_iface_from_message: the interface n of the answer a.  The addresses of
\* the network are skipped.  In a pppoe configuration, the device is the name of
\* an Ethernet interface.
Created(s, n, a) ==
    LET base == [Blank EXCEPT !.active = a.link[n],
                              !.type = a.conf[n].type,
                              !.complete = a.conf[n].complete,
                              !.essid = a.conf[n].essid] IN
    IF n \in Ethernets THEN base
    ELSE IF a.conf[n].type = "pppoe"
         THEN [base EXCEPT !.ethernet = IF a.conf[n].device \in s.table
                                        THEN a.conf[n].device ELSE Null]
         ELSE [base EXCEPT !.serial = a.conf[n].device]

\* create_ifaces_list: the interfaces of one list, added to the list and the table.
CreateList(s, names, a) ==
    [s EXCEPT !.listed = @ \cup names,
              !.table = @ \cup names,
              !.iface = [n \in Names |-> IF n \in names THEN Created(s, n, a) ELSE @[n]]]

\* Mutant: the PPP list is read first.
CreatePppFirst(s, a) == CreateList(CreateList(s, Ppps, a), a.present, a)

\* oobs_ifaces_config_update: the Ethernet lists come before the PPP list.
CreateAll(s, a) == CreateList(CreateList(s, a.present, a), Ppps, a)

ApplyUpdate(a) ==
    /\ IF HashesNull(a)
       THEN crashed' = "null" /\ lib' = Free(lib)
       ELSE crashed' = crashed /\ lib' = CreateAll(Free(lib), a)
    /\ read' = [present |-> a.present, conf |-> a.conf]
    /\ edits' = 0
    /\ edited' = {} /\ touched' = {} /\ removed' = {}

\* oobs_object_update
Update ==
    /\ crashed = "no"
    /\ pending => Overtaking
    /\ ApplyUpdate(Snapshot)
    /\ missed' = {}
    /\ UNCHANGED <<system, events, get>>

\* oobs_object_update_async
UpdateAsync ==
    /\ crashed = "no"
    /\ ~pending
    /\ get' = [answer |-> Snapshot, handled |-> {}]
    /\ UNCHANGED <<system, events, lib, crashed, history>>

\* The answer is dispatched by the main loop.
Dispatch ==
    /\ crashed = "no"
    /\ pending
    /\ ApplyUpdate(get.answer)
    /\ get' = NoGet
    /\ missed' = get.handled
    /\ UNCHANGED <<system, events>>

-----------------------------------------------------------------------------
(* The kernel and the monitor *)

\* The kernel tells of a link by a netlink message with its name and flags.
LinkChange(n) ==
    /\ Len(events) < MaxEvents
    /\ n \in present \cup Ppps
    /\ link' = [link EXCEPT ![n] = ~@]
    /\ events' = Append(events, [name |-> n, active |-> link'[n]])
    /\ UNCHANGED <<present, conf, lib, get, crashed, history>>

\* An Ethernet interface is plugged in or unplugged; the kernel tells of that
\* by messages of the same form, and either way the link is down.
Plug(n) ==
    /\ Len(events) < MaxEvents
    /\ present' = IF n \in present THEN present \ {n} ELSE present \cup {n}
    /\ link' = [link EXCEPT ![n] = FALSE]
    /\ events' = Append(events, [name |-> n, active |-> FALSE])
    /\ UNCHANGED <<conf, lib, get, crashed, history>>

\* Mutant: the interface is only ever set up.
MonitorUp(s, n, active) == [s EXCEPT !.iface[n].active = @ \/ active]

\* oobs_ifaces_config_iface_monitor, on an interface that is alive.  An equal
\* "active" is not set again, which comes to the same.
Monitor(s, n, active) == [s EXCEPT !.iface[n].active = active]

\* monitor_data_channel_watch and read_message: the messages are taken in turn.
HandleEvent ==
    LET n == Head(events).name IN
    /\ crashed = "no"
    /\ events # <<>>
    /\ events' = Tail(events)
    /\ IF n \in lib.table \ Live(lib)
       THEN crashed' = "freed" /\ UNCHANGED lib
       ELSE /\ lib' = IF n \in lib.table \cap lib.listed
                      THEN Monitor(lib, n, Head(events).active) ELSE lib
            /\ UNCHANGED crashed
    /\ edited' = edited \ {n}
    /\ get' = [get EXCEPT !.handled = IF pending THEN @ \cup {n} ELSE @]
    /\ missed' = missed \ {n}
    /\ UNCHANGED <<system, edits, read, touched, removed>>

-----------------------------------------------------------------------------
(* Commits *)

\* oobs_iface_get_configured, and is_configured of each class.  Every method
\* is one of the available configuration methods.  A wireless interface asks for
\* an essid before its parent class looks at the method.
IsConfigured(s, n) ==
    LET i == s.iface[n] IN
    /\ ~i.off
    /\ i.type # Null
    /\ n \in Wireless => i.essid
    /\ i.type = "static" => i.complete
    /\ i.type = "modem" => i.complete /\ i.serial # Null
    /\ i.type = "pppoe" => i.complete /\ i.ethernet # Null

\* The device of a pppoe connection is sent even when it is not configured.
SentDevice(s, n) ==
    LET i == s.iface[n] IN
    IF i.type = "pppoe" THEN i.ethernet
    ELSE IF IsConfigured(s, n) THEN i.serial ELSE Null

\* Mutant: the connection type is sent whether configured or not.
SentWithType(s, n) ==
    [type |-> s.iface[n].type,
     complete |-> IsConfigured(s, n) /\ s.iface[n].complete,
     device |-> SentDevice(s, n),
     essid |-> IsConfigured(s, n) /\ s.iface[n].essid,
     network |-> FALSE]

\* create_dbus_struct_from_iface: an interface that is not configured is sent
\* with empty strings, and the addresses of the network always are.
Sent(s, n) ==
    LET configured == IsConfigured(s, n) IN
    [type |-> IF configured THEN s.iface[n].type ELSE Null,
     complete |-> configured /\ s.iface[n].complete,
     device |-> SentDevice(s, n),
     essid |-> configured /\ s.iface[n].essid,
     network |-> FALSE]

\* The names whose link the commit changes: the backend brings interfaces up
\* and down as told, in any order.
Switched == {n \in lib.listed \cap (present \cup Ppps) : lib.iface[n].active # link[n]}

\* oobs_object_commit
Commit ==
    /\ crashed = "no"
    /\ pending => Overtaking
    /\ lib.listed # {}
    /\ Len(events) + Cardinality(Switched) <= MaxEvents
    /\ conf' = [n \in Names |-> IF n \in lib.listed THEN Sent(lib, n) ELSE conf[n]]
    /\ link' = [n \in Names |-> IF n \in Switched THEN ~link[n] ELSE link[n]]
    /\ \E order \in Injection(1..Cardinality(Switched), Switched) :
          events' = events \o [k \in DOMAIN order |->
                                   [name |-> order[k], active |-> link'[order[k]]]]
    /\ edited' = edited \cap (Ethernets \ present)
    /\ UNCHANGED <<present, lib, get, crashed, edits, read, touched, removed, missed>>

-----------------------------------------------------------------------------
(* The application *)

\* Bound.
Edit == (pending => Overtaking) /\ edits < MaxEdits /\ edits' = edits + 1

\* oobs_list_remove
RemoveListed(n) ==
    /\ crashed = "no"
    /\ Edit
    /\ lib' = Settle([lib EXCEPT !.listed = @ \ {n}])
    /\ removed' = removed \cup {n}
    /\ UNCHANGED <<system, events, get, crashed, read, edited, touched, missed>>

\* oobs_iface_set_active
SetActive(n) ==
    /\ crashed = "no"
    /\ Edit
    /\ lib' = [lib EXCEPT !.iface[n].active = ~@]
    /\ edited' = edited \cup {n}
    /\ UNCHANGED <<system, events, get, crashed, read, touched, removed, missed>>

\* A change of the configuration of the interface n.
Touch(n, s) ==
    /\ crashed = "no"
    /\ Edit
    /\ lib' = Settle(s)
    /\ touched' = touched \cup {n}
    /\ UNCHANGED <<system, events, get, crashed, read, edited, removed, missed>>

\* oobs_iface_set_configured
SetConfigured(n) == Touch(n, [lib EXCEPT !.iface[n].off = ~@])

\* oobs_iface_wireless_set_essid, with the name of a network or NULL
SetEssid(n) == Touch(n, [lib EXCEPT !.iface[n].essid = ~@])

\* oobs_iface_ppp_set_connection_type
SetType(n, t) == Touch(n, [lib EXCEPT !.iface[n].type = t])

\* oobs_iface_ppp_set_ethernet
SetEthernet(n, e) == Touch(n, [lib EXCEPT !.iface[n].ethernet = e])

Next ==
    \/ Update
    \/ UpdateAsync
    \/ Dispatch
    \/ HandleEvent
    \/ Commit
    \/ \E n \in Names : LinkChange(n)
    \/ \E n \in Ethernets : Plug(n)
    \/ \E n \in lib.listed : RemoveListed(n) \/ SetActive(n) \/ SetConfigured(n)
    \/ \E n \in lib.listed \cap Wireless : SetEssid(n)
    \/ \E n \in lib.listed \cap Ppps, t \in PppTypes : SetType(n, t)
    \/ \E n \in lib.listed \cap Ppps, e \in (lib.listed \cap Ethernets) \cup {Null} :
          SetEthernet(n, e)

Spec == Init /\ [][Next]_vars

-----------------------------------------------------------------------------
(* Properties *)

\* The table, which owns no references, names every listed interface and,
\* besides what the application took off the lists, nothing else: the monitor
\* (oobs_ifaces_config_iface_monitor) reaches no interface of an earlier update,
\* which that update has finalized.
TableCurrent ==
    /\ lib.listed \subseteq lib.table
    /\ lib.table \subseteq lib.listed \cup removed

\* Once the messages about an interface are read, oobs_iface_get_active says
\* what the kernel does, whatever the order of updates, commits and messages,
\* unless the application has set it, or messages about it were read while an
\* answer older than them waited to be dispatched.
ActiveCurrent ==
    \A n \in lib.listed \ edited :
        \/ lib.iface[n].active = link[n]
        \/ n \in missed
        \/ \E k \in DOMAIN events : events[k].name = n

\* The same without the last exception: "whether the interface is active"
\* (oobs_iface_get_active) is known once the messages about it are read.  The
\* code dispatches an answer older than a message it has handled.
ActiveShown ==
    \A n \in lib.listed \ edited :
        \/ lib.iface[n].active = link[n]
        \/ \E k \in DOMAIN events : events[k].name = n

\* Whether what the last update read of n was a complete configuration, whose
\* Ethernet interface, if it names one, was plugged in; that of a wireless
\* interface has an essid.
WasConfigured(n) ==
    LET c == read.conf[n] IN
    /\ c.type \in {"static", "modem", "pppoe"} => c.complete
    /\ n \in Wireless => c.essid
    /\ c.type \in {"modem", "dhcp", "static"} \/ (c.type = "pppoe" /\ c.device \in read.present)

\* What a step writes to the system of an interface nobody changed is what was
\* read, without the addresses of the network.
GivesBack ==
    \A n \in lib.listed \ touched :
        WasConfigured(n) /\ conf'[n] # conf[n] =>
            conf'[n] = [read.conf[n] EXCEPT !.network = FALSE]

\* A commit writes every interface of the lists.  Of an interface whose
\* configuration was complete and that nobody changed, it gives back what was
\* read but for the addresses of the network, which are erased: the pppoe
\* connection found its Ethernet interface when it was created, although that is
\* known only by a name and a table that is being filled.
ConfigKept == [][GivesBack]_vars

\* A commit writes "all the changes done" (oobs_object_commit) and nothing else:
\* an interface nobody changed is left as it is on the system, or as it was read.
\* The code (create_dbus_struct_from_iface) erases the addresses of its network.
WritesChangesOnly ==
    [][\A n \in lib.listed \ touched :
           WasConfigured(n) => conf'[n] \in {conf[n], read.conf[n]}]_vars

\* No sequence of changes and commits leaves a pppoe connection without a
\* device on the system: the lookup of a NULL name by the next update of any
\* program that uses the library would end it.
NeverNullKey == crashed # "null"

=============================================================================
