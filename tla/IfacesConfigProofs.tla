-------------------------- MODULE IfacesConfigProofs --------------------------
(***************************************************************************)
(* Proofs about OobsIfacesConfig: types, the table of the interfaces, and  *)
(* what a commit gives back.  The invariant adds to the properties what    *)
(* the configuration of each kind of interface looks like, on the system   *)
(* and in the library.  A second one follows the messages about links:     *)
(* the last that waits about a link tells what the link is now.            *)
(***************************************************************************)
EXTENDS IfacesConfig, FiniteSetTheorems, TLAPS

-----------------------------------------------------------------------------
(* The invariant *)

\* A configuration an update can read: of the right kind, and never a PPP
\* connection without its device.
WellFormed(c) ==
    /\ \A n \in Ethernets : c[n].type \in EthernetTypes \cup {Null} /\ c[n].device = Null
    /\ \A n \in Ppps : /\ c[n].type \in PppTypes \cup {Null}
                       /\ c[n].type # Null => c[n].device # Null

Configurations ==
    /\ WellFormed(conf)
    /\ WellFormed(read.conf)
    /\ pending => WellFormed(get.answer.conf)

\* The kind of each listed interface.
Kinds(s) ==
    \A n \in s.listed :
        /\ n \in Ethernets => /\ s.iface[n].type \in EthernetTypes \cup {Null}
                              /\ s.iface[n].serial = Null
        /\ n \in Ppps => s.iface[n].type \in PppTypes \cup {Null}

\* The interface i is as it was created from the configuration c, given the
\* Ethernet interfaces there were.
AsCreated(i, c, there) ==
    /\ ~i.off
    /\ i.type = c.type
    /\ i.complete = c.complete
    /\ i.essid = c.essid
    /\ IF c.type = "pppoe"
       THEN i.ethernet = IF c.device \in there THEN c.device ELSE Null
       ELSE i.serial = c.device

Untouched ==
    \A n \in lib.listed \ touched : AsCreated(lib.iface[n], read.conf[n], read.present)

Inv ==
    /\ TypeOK
    /\ TableCurrent
    /\ NeverNullKey
    /\ Configurations
    /\ Kinds(lib)
    /\ Untouched

-----------------------------------------------------------------------------
(* Objects and updates *)

LEMMA BlankType == Blank \in Iface
  BY DEF Blank, Iface, Types, Devices

\* Finalizing changes neither the lists, nor the table, nor what is listed.
LEMMA SettleProperties ==
    ASSUME NEW s \in Library
    PROVE  /\ Settle(s) \in Library
           /\ Settle(s).listed = s.listed
           /\ Settle(s).table = s.table
           /\ \A n \in s.listed : Settle(s).iface[n] = s.iface[n]
  BY BlankType DEF Settle, Library

\* One interface is changed.
LEMMA FieldProperties ==
    ASSUME NEW s \in Library, NEW n \in Names, NEW i \in Iface
    PROVE  LET t == [s EXCEPT !.iface[n] = i] IN
           /\ t \in Library
           /\ t.listed = s.listed /\ t.table = s.table
           /\ t.iface[n] = i
           /\ \A k \in Names \ {n} : t.iface[k] = s.iface[k]
  BY DEF Library

\* The interfaces of one list are created with the types they should have, if
\* the table so far has Ethernet interfaces only.
LEMMA CreatedProperties ==
    ASSUME NEW a \in Answer, WellFormed(a.conf),
           NEW s \in Library, s.table \subseteq Ethernets,
           NEW n \in Names
    PROVE  /\ Created(s, n, a) \in Iface
           /\ AsCreated(Created(s, n, a), a.conf[n], s.table)
           /\ n \in Ethernets => Created(s, n, a).serial = Null
           /\ Created(s, n, a).type = a.conf[n].type
  <1> DEFINE c == a.conf[n]
             i == Created(s, n, a)
  <1>1. c \in Conf /\ a.link[n] \in BOOLEAN
    BY DEF Answer
  <1>2. /\ c.type \in Types /\ c.device \in Devices
        /\ c.complete \in BOOLEAN /\ c.essid \in BOOLEAN
    BY <1>1 DEF Conf
  <1>3. CASE n \in Ethernets
    <2>1. c.type # "pppoe" /\ c.device = Null
      BY <1>3, Disjoint DEF WellFormed, EthernetTypes
    <2>2. i = [active |-> a.link[n], type |-> c.type, complete |-> c.complete,
               essid |-> c.essid, serial |-> Null, ethernet |-> Null, off |-> FALSE]
      BY <1>3 DEF Created, Blank
    <2> HIDE DEF i, c
    <2> QED BY <1>1, <1>2, <2>1, <2>2 DEF Iface, AsCreated, Devices, i, c
  <1>4. CASE n \notin Ethernets /\ c.type = "pppoe"
    <2> DEFINE e == IF c.device \in s.table THEN c.device ELSE Null
    <2>1. e \in Ethernets \cup {Null}
      OBVIOUS
    <2>2. i = [active |-> a.link[n], type |-> c.type, complete |-> c.complete,
               essid |-> c.essid, serial |-> Null, ethernet |-> e, off |-> FALSE]
      BY <1>4 DEF Created, Blank
    <2> HIDE DEF e, i
    <2> QED BY <1>1, <1>2, <1>4, <2>1, <2>2 DEF Iface, AsCreated, Devices, e, i
  <1>5. CASE n \notin Ethernets /\ c.type # "pppoe"
    <2>1. i = [active |-> a.link[n], type |-> c.type, complete |-> c.complete,
               essid |-> c.essid, serial |-> c.device, ethernet |-> Null, off |-> FALSE]
      BY <1>5 DEF Created, Blank
    <2> HIDE DEF i
    <2> QED BY <1>1, <1>2, <1>5, <2>1 DEF Iface, AsCreated, i
  <1> QED BY <1>3, <1>4, <1>5

\* One list is created: its names are listed and in the table, the others keep
\* what they had.
LEMMA CreateListProperties ==
    ASSUME NEW a \in Answer, WellFormed(a.conf),
           NEW s \in Library, s.table \subseteq Ethernets,
           NEW names, names \subseteq Names
    PROVE  /\ CreateList(s, names, a) \in Library
           /\ CreateList(s, names, a).listed = s.listed \cup names
           /\ CreateList(s, names, a).table = s.table \cup names
           /\ \A n \in names : CreateList(s, names, a).iface[n] = Created(s, n, a)
           /\ \A n \in Names \ names : CreateList(s, names, a).iface[n] = s.iface[n]
  <1>1. \A n \in names : Created(s, n, a) \in Iface
    BY CreatedProperties
  <1> QED BY <1>1 DEF CreateList, Library

\* What an update leaves: the lists and the table name what it read, and every
\* interface is as it was created.
LEMMA CreateAllProperties ==
    ASSUME NEW a \in Answer, WellFormed(a.conf), NEW s \in Library
    PROVE  LET t == CreateAll(Free(s), a) IN
           /\ t \in Library
           /\ t.listed = a.present \cup Ppps
           /\ t.table = a.present \cup Ppps
           /\ Kinds(t)
           /\ \A n \in t.listed : AsCreated(t.iface[n], a.conf[n], a.present)
  <1> DEFINE s0 == Free(s)
             s1 == CreateList(s0, a.present, a)
             s2 == CreateList(s1, Ppps, a)
  <1>1. s0 \in Library /\ s0.listed = {} /\ s0.table = {}
    <2>1. [s EXCEPT !.listed = {}, !.table = {}] \in Library
      BY DEF Library
    <2> QED BY <2>1, SettleProperties DEF Free, Library
  <1>2. a.present \subseteq Ethernets
    BY DEF Answer
  <1>3. /\ s1 \in Library
        /\ s1.listed = a.present /\ s1.table = a.present
        /\ \A n \in a.present : s1.iface[n] = Created(s0, n, a)
    <2> DEFINE there == a.present
    <2>1. s0 \in Library /\ s0.table \subseteq Ethernets /\ there \subseteq Names
      BY <1>1, <1>2 DEF Names
    <2> HIDE DEF s0, there
    <2>2. /\ CreateList(s0, there, a) \in Library
          /\ CreateList(s0, there, a).listed = s0.listed \cup there
          /\ CreateList(s0, there, a).table = s0.table \cup there
          /\ \A n \in there : CreateList(s0, there, a).iface[n] = Created(s0, n, a)
      BY <2>1, CreateListProperties
    <2> QED BY <1>1, <2>2 DEF there
  <1>4. /\ s2 \in Library
        /\ s2.listed = a.present \cup Ppps /\ s2.table = a.present \cup Ppps
        /\ \A n \in Ppps : s2.iface[n] = Created(s1, n, a)
        /\ \A n \in a.present : s2.iface[n] = Created(s0, n, a)
    <2> HIDE DEF s0, s1
    <2> QED BY <1>2, <1>3, CreateListProperties, Disjoint DEF Names
  <1> HIDE DEF s0, s1, s2
  <1>5. ASSUME NEW n \in a.present
        PROVE  /\ AsCreated(s2.iface[n], a.conf[n], a.present)
               /\ s2.iface[n].serial = Null
               /\ s2.iface[n].type \in EthernetTypes \cup {Null}
    <2>1. /\ AsCreated(s2.iface[n], a.conf[n], {})
          /\ s2.iface[n].serial = Null
          /\ s2.iface[n].type = a.conf[n].type
      <3>1. n \in Names /\ s0.table \subseteq Ethernets
        BY <1>1, <1>2 DEF Names
      <3>2. /\ AsCreated(Created(s0, n, a), a.conf[n], s0.table)
            /\ n \in Ethernets => Created(s0, n, a).serial = Null
            /\ Created(s0, n, a).type = a.conf[n].type
        BY <1>1, <3>1, CreatedProperties
      <3> QED BY <1>1, <1>2, <1>4, <3>2
    <2>2. a.conf[n].type \in EthernetTypes \cup {Null} /\ a.conf[n].type # "pppoe"
      BY <1>2, Disjoint DEF WellFormed, EthernetTypes
    <2> QED BY <2>1, <2>2 DEF AsCreated
  <1>6. ASSUME NEW n \in Ppps
        PROVE  /\ AsCreated(s2.iface[n], a.conf[n], a.present)
               /\ s2.iface[n].type \in PppTypes \cup {Null}
    BY <1>2, <1>3, <1>4, CreatedProperties DEF Names, WellFormed
  <1>7. Kinds(s2)
    BY <1>2, <1>4, <1>5, <1>6, Disjoint DEF Kinds
  <1>8. \A n \in s2.listed : AsCreated(s2.iface[n], a.conf[n], a.present)
    BY <1>4, <1>5, <1>6
  <1> QED BY <1>4, <1>7, <1>8 DEF CreateAll, s0, s1, s2

-----------------------------------------------------------------------------
(* What a commit sends *)

\* What is sent of an interface is a configuration of its kind, and a PPP
\* connection has its device.
LEMMA SentProperties ==
    ASSUME NEW s \in Library, Kinds(s), NEW n \in s.listed
    PROVE  /\ Sent(s, n) \in Conf
           /\ n \in Ethernets => /\ Sent(s, n).type \in EthernetTypes \cup {Null}
                                 /\ Sent(s, n).device = Null
           /\ n \in Ppps => /\ Sent(s, n).type \in PppTypes \cup {Null}
                            /\ Sent(s, n).type # Null => Sent(s, n).device # Null
  <1> DEFINE i == s.iface[n]
             d == SentDevice(s, n)
             configured == IsConfigured(s, n)
  <1>1. n \in Names /\ i \in Iface
    BY DEF Library
  <1>2. /\ i.type \in Types /\ i.serial \in Devices
        /\ i.complete \in BOOLEAN /\ i.essid \in BOOLEAN
        /\ i.ethernet \in Ethernets \cup {Null}
    BY <1>1 DEF Iface
  <1>3. d = IF i.type = "pppoe" THEN i.ethernet ELSE IF configured THEN i.serial ELSE Null
    BY DEF SentDevice
  <1>4. configured \in BOOLEAN
    BY DEF IsConfigured
  <1>5. configured => /\ i.type # Null
                      /\ i.type = "modem" => i.serial # Null
                      /\ i.type = "pppoe" => i.ethernet # Null
    BY DEF IsConfigured
  <1>6. Sent(s, n) = [type |-> IF configured THEN i.type ELSE Null,
                      complete |-> configured /\ i.complete,
                      device |-> d,
                      essid |-> configured /\ i.essid,
                      network |-> FALSE]
    BY DEF Sent
  <1>7. /\ n \in Ethernets => i.type \in EthernetTypes \cup {Null} /\ i.serial = Null
        /\ n \in Ppps => i.type \in PppTypes \cup {Null}
    BY DEF Kinds
  <1> HIDE DEF i, d, configured
  <1>8. d \in Devices
    BY <1>2, <1>3 DEF Devices
  <1>9. Sent(s, n) \in Conf
    BY <1>2, <1>4, <1>6, <1>8 DEF Conf, Types
  <1>10. ASSUME n \in Ethernets
         PROVE  /\ Sent(s, n).type \in EthernetTypes \cup {Null}
                /\ Sent(s, n).device = Null
    BY <1>3, <1>6, <1>7, <1>10, Disjoint DEF EthernetTypes
  <1>11. ASSUME n \in Ppps
         PROVE  /\ Sent(s, n).type \in PppTypes \cup {Null}
                /\ Sent(s, n).type # Null => Sent(s, n).device # Null
    BY <1>3, <1>5, <1>6, <1>7, <1>11 DEF PppTypes
  <1> QED BY <1>9, <1>10, <1>11

\* An interface as it was created from a complete configuration, whose Ethernet
\* interface was there, is sent as that configuration without the addresses of
\* its network.
LEMMA SentAsCreated ==
    ASSUME NEW s \in Library, Kinds(s), NEW n \in s.listed,
           NEW c \in Conf, NEW there \in SUBSET Ethernets,
           AsCreated(s.iface[n], c, there),
           n \in Ethernets => c.type \in EthernetTypes \cup {Null} /\ c.device = Null,
           n \in Ppps => /\ c.type \in PppTypes \cup {Null}
                         /\ c.type # Null => c.device # Null,
           c.type \in {"static", "modem", "pppoe"} => c.complete,
           n \in Wireless => c.essid,
           \/ c.type \in {"modem", "dhcp", "static"}
           \/ c.type = "pppoe" /\ c.device \in there
    PROVE  Sent(s, n) = [c EXCEPT !.network = FALSE]
  <1> DEFINE i == s.iface[n]
  <1>1. /\ ~i.off /\ i.type = c.type /\ i.complete = c.complete /\ i.essid = c.essid
        /\ c.type = "pppoe" => i.ethernet = c.device /\ c.device # Null
        /\ c.type # "pppoe" => i.serial = c.device
    BY Disjoint DEF AsCreated
  <1>2. c.type # Null
    BY Disjoint
  <1>3. n \in Names
    BY DEF Library
  <1>4. c.type = "modem" => c.device # Null
    BY <1>2, <1>3 DEF Names, EthernetTypes
  <1>5. IsConfigured(s, n)
    BY <1>1, <1>2, <1>4 DEF IsConfigured
  <1>6. SentDevice(s, n) = c.device
    BY <1>1, <1>5 DEF SentDevice
  <1>7. Sent(s, n) = [type |-> c.type, complete |-> c.complete, device |-> c.device,
                      essid |-> c.essid, network |-> FALSE]
    BY <1>1, <1>5, <1>6, c.complete \in BOOLEAN, c.essid \in BOOLEAN DEF Sent, Conf
  <1>8. c = [type |-> c.type, device |-> c.device, complete |-> c.complete,
             essid |-> c.essid, network |-> c.network]
    BY DEF Conf
  <1>9. ASSUME NEW b \in BOOLEAN
        PROVE  [c EXCEPT !.network = b] =
                   [type |-> c.type, device |-> c.device, complete |-> c.complete,
                    essid |-> c.essid, network |-> b]
    BY <1>8
  <1> QED BY <1>7, <1>9

-----------------------------------------------------------------------------
(* The invariant is inductive *)

LEMMA InitInv == Init => Inv
  <1> SUFFICES ASSUME Init PROVE Inv
    OBVIOUS
  <1>1. Snapshot \in Answer
    BY DEF Init, Snapshot, Answer
  <1>2. lib \in Library /\ lib.listed = {} /\ lib.table = {}
    BY BlankType DEF Init, Library
  <1>3. get \in [answer : Answer \cup {Null}, handled : SUBSET Names] /\ ~pending
    BY DEF Init, NoGet, pending
  <1>4. read \in [present : SUBSET Ethernets, conf : [Names -> Conf]] /\ read.conf = conf
    BY DEF Init
  <1>5. edits \in 0..MaxEdits
    BY BoundsAssumption DEF Init
  <1>6. TypeOK
    BY <1>1, <1>2, <1>3, <1>4, <1>5 DEF TypeOK, Init
  <1>7. WellFormed(conf)
    BY Disjoint DEF Init, WellFormed, EthernetTypes, PppTypes
  <1> QED
    BY <1>2, <1>3, <1>4, <1>6, <1>7
    DEF Inv, Init, TableCurrent, NeverNullKey, Configurations, Kinds, Untouched

\* An update from a well-formed answer; what it does with the get is left open.
LEMMA ApplyUpdateStep ==
    ASSUME Inv, NEW a \in Answer, WellFormed(a.conf), ApplyUpdate(a)
    PROVE  /\ lib' \in Library
           /\ crashed' = crashed
           /\ read' = [present |-> a.present, conf |-> a.conf]
           /\ read' \in [present : SUBSET Ethernets, conf : [Names -> Conf]]
           /\ edits' = 0 /\ edits' \in 0..MaxEdits
           /\ edited' = {} /\ touched' = {} /\ removed' = {}
           /\ TableCurrent' /\ Kinds(lib)' /\ Untouched'
  <1>1. ~HashesNull(a)
    BY Disjoint DEF HashesNull, WellFormed
  <1>2. lib' = CreateAll(Free(lib), a) /\ crashed' = crashed
    BY <1>1 DEF ApplyUpdate
  <1>3. lib \in Library
    BY DEF Inv, TypeOK
  <1>4. /\ lib' \in Library
        /\ lib'.listed = a.present \cup Ppps
        /\ lib'.table = a.present \cup Ppps
        /\ Kinds(lib')
        /\ \A n \in lib'.listed : AsCreated(lib'.iface[n], a.conf[n], a.present)
    BY <1>2, <1>3, CreateAllProperties
  <1>5. /\ read' = [present |-> a.present, conf |-> a.conf]
        /\ edits' = 0 /\ edited' = {} /\ touched' = {} /\ removed' = {}
    BY DEF ApplyUpdate
  <1>6. read' \in [present : SUBSET Ethernets, conf : [Names -> Conf]]
    BY <1>5 DEF Answer
  <1>7. read'.present = a.present /\ read'.conf = a.conf
    BY <1>5
  <1>8. 0 \in 0..MaxEdits
    BY BoundsAssumption
  <1> QED
    BY <1>2, <1>4, <1>5, <1>6, <1>7, <1>8 DEF TableCurrent, Kinds, Untouched

LEMMA UpdateInv ==
    ASSUME Inv, Update PROVE Inv'
  <1>1. Snapshot \in Answer /\ Snapshot.conf = conf
    BY DEF Inv, TypeOK, Snapshot
  <1>2. WellFormed(Snapshot.conf) /\ ApplyUpdate(Snapshot)
    BY <1>1 DEF Inv, Configurations, Update
  <1>3. UNCHANGED <<link, present, conf, events, get>> /\ missed' = {}
    BY DEF Update, system
  <1>4. read'.conf = conf
    BY <1>1, <1>2, ApplyUpdateStep
  <1>5. Configurations'
    BY <1>3, <1>4 DEF Inv, Configurations, pending
  <1>6. TypeOK'
    BY <1>1, <1>2, <1>3, ApplyUpdateStep DEF Inv, TypeOK, Snapshot
  <1>7. NeverNullKey'
    BY <1>1, <1>2, ApplyUpdateStep DEF Inv, NeverNullKey
  <1> QED BY <1>1, <1>2, <1>5, <1>6, <1>7, ApplyUpdateStep DEF Inv

LEMMA DispatchInv ==
    ASSUME Inv, Dispatch PROVE Inv'
  <1>1. get.answer \in Answer /\ WellFormed(get.answer.conf) /\ get.handled \subseteq Names
    BY DEF Inv, TypeOK, Dispatch, pending, Configurations
  <1>2. ApplyUpdate(get.answer) /\ crashed = "no"
    BY DEF Dispatch
  <1>3. /\ UNCHANGED <<link, present, conf, events>>
        /\ missed' = get.handled /\ get' = NoGet
    BY DEF Dispatch, system
  <1>4. read'.conf = get.answer.conf
    BY <1>1, <1>2, ApplyUpdateStep
  <1>5. /\ get' \in [answer : Answer \cup {Null}, handled : SUBSET Names]
        /\ ~pending'
    BY <1>3 DEF NoGet, pending
  <1>6. Configurations'
    BY <1>1, <1>3, <1>4, <1>5 DEF Inv, Configurations
  <1>7. TypeOK'
    BY <1>1, <1>2, <1>3, <1>5, ApplyUpdateStep DEF Inv, TypeOK, Snapshot
  <1>8. NeverNullKey'
    BY <1>1, <1>2, ApplyUpdateStep DEF Inv, NeverNullKey
  <1> QED BY <1>1, <1>2, <1>6, <1>7, <1>8, ApplyUpdateStep DEF Inv

LEMMA UpdateAsyncInv ==
    ASSUME Inv, UpdateAsync PROVE Inv'
  <1>1. Snapshot \in Answer /\ Snapshot.conf = conf
    BY DEF Inv, TypeOK, Snapshot
  <1>2. /\ UNCHANGED <<link, present, conf, events, lib, crashed, edits, read,
                       edited, touched, removed, missed>>
        /\ get' = [answer |-> Snapshot, handled |-> {}]
    BY DEF UpdateAsync, system, history
  <1>3. /\ get' \in [answer : Answer \cup {Null}, handled : SUBSET Names]
        /\ get'.answer.conf = conf
    BY <1>1, <1>2
  <1>4. TypeOK'
    BY <1>2, <1>3 DEF Inv, TypeOK, Snapshot
  <1>5. Configurations'
    BY <1>2, <1>3 DEF Inv, Configurations, pending
  <1> QED
    BY <1>2, <1>4, <1>5 DEF Inv, TableCurrent, NeverNullKey, Kinds, Untouched

-----------------------------------------------------------------------------
(* The kernel and the monitor *)

\* A step of the kernel adds a message and changes no configuration.
LEMMA KernelInv ==
    ASSUME Inv,
           UNCHANGED <<conf, lib, get, crashed, edits, read, edited, touched, removed, missed>>,
           link' \in [Names -> BOOLEAN],
           present' \in SUBSET Ethernets,
           NEW m \in [name : Names, active : BOOLEAN],
           events' = Append(events, m)
    PROVE  Inv'
  <1>1. events' \in Seq([name : Names, active : BOOLEAN])
    BY DEF Inv, TypeOK
  <1>2. TypeOK'
    BY <1>1 DEF Inv, TypeOK, Snapshot, Answer
  <1> QED
    BY <1>2 DEF Inv, TableCurrent, NeverNullKey, Configurations, pending, Kinds, Untouched

LEMMA LinkChangeInv ==
    ASSUME Inv, NEW n \in Names, LinkChange(n) PROVE Inv'
  <1>1. link \in [Names -> BOOLEAN] /\ present \in SUBSET Ethernets
    BY DEF Inv, TypeOK, Snapshot, Answer
  <1>2. link' \in [Names -> BOOLEAN]
    BY <1>1 DEF LinkChange
  <1>3. [name |-> n, active |-> link'[n]] \in [name : Names, active : BOOLEAN]
    BY <1>2
  <1> QED BY <1>1, <1>2, <1>3, KernelInv DEF LinkChange, history

LEMMA PlugInv ==
    ASSUME Inv, NEW n \in Ethernets, Plug(n) PROVE Inv'
  <1>1. link \in [Names -> BOOLEAN] /\ present \in SUBSET Ethernets
    BY DEF Inv, TypeOK, Snapshot, Answer
  <1>2. link' \in [Names -> BOOLEAN] /\ present' \in SUBSET Ethernets
    BY <1>1 DEF Plug
  <1>3. [name |-> n, active |-> FALSE] \in [name : Names, active : BOOLEAN]
    BY DEF Names
  <1> QED BY <1>1, <1>2, <1>3, KernelInv DEF Plug, history

LEMMA HandleEventInv ==
    ASSUME Inv, HandleEvent PROVE Inv'
  <1> DEFINE m == Head(events)
             n == m.name
  <1>1. events # <<>> /\ events' = Tail(events)
    BY DEF HandleEvent
  <1>2. /\ m \in [name : Names, active : BOOLEAN]
        /\ events' \in Seq([name : Names, active : BOOLEAN])
    <2> DEFINE Message == [name : Names, active : BOOLEAN]
    <2>1. events \in Seq(Message)
      BY DEF Inv, TypeOK
    <2> HIDE DEF Message
    <2>2. Head(events) \in Message /\ Tail(events) \in Seq(Message)
      BY <1>1, <2>1
    <2> QED BY <1>1, <2>2 DEF Message
  <1>3. n \in Names /\ m.active \in BOOLEAN
    BY <1>2
  <1>4. /\ UNCHANGED <<link, present, conf, edits, read, touched, removed>>
        /\ edited' = edited \ {n}
        /\ missed' = missed \ {n}
        /\ get' = [get EXCEPT !.handled = IF pending THEN @ \cup {n} ELSE @]
    BY DEF HandleEvent, system
  <1>5. \/ lib' = lib /\ crashed' \in {"freed", crashed}
        \/ /\ n \in lib.listed
           /\ lib' = [lib EXCEPT !.iface[n].active = m.active]
           /\ crashed' = crashed
    BY DEF HandleEvent, Monitor
  <1> HIDE DEF n, m
  <1>6. /\ get' \in [answer : Answer \cup {Null}, handled : SUBSET Names]
        /\ get'.answer = get.answer
    BY <1>3, <1>4 DEF Inv, TypeOK
  <1>7. /\ lib' \in Library
        /\ lib'.listed = lib.listed /\ lib'.table = lib.table
        /\ \A k \in Names : /\ lib'.iface[k].type = lib.iface[k].type
                            /\ lib'.iface[k].complete = lib.iface[k].complete
                            /\ lib'.iface[k].essid = lib.iface[k].essid
                            /\ lib'.iface[k].serial = lib.iface[k].serial
                            /\ lib'.iface[k].ethernet = lib.iface[k].ethernet
                            /\ lib'.iface[k].off = lib.iface[k].off
    <2>1. lib \in Library /\ lib.iface \in [Names -> Iface]
      BY DEF Inv, TypeOK, Library
    <2>2. CASE lib' = lib
      BY <2>1, <2>2
    <2>3. CASE lib' = [lib EXCEPT !.iface[n].active = m.active]
      <3>1. lib.iface[n] \in Iface
        BY <1>3, <2>1
      <3> DEFINE i == [lib.iface[n] EXCEPT !.active = m.active]
      <3>2. i \in Iface
        BY <1>3, <3>1 DEF Iface
      <3>3. lib' = [lib EXCEPT !.iface[n] = i]
        BY <2>3
      <3>4. /\ i.type = lib.iface[n].type /\ i.complete = lib.iface[n].complete
            /\ i.serial = lib.iface[n].serial /\ i.ethernet = lib.iface[n].ethernet
            /\ i.off = lib.iface[n].off /\ i.essid = lib.iface[n].essid
        BY <3>1 DEF Iface
      <3> HIDE DEF i
      <3> QED BY <1>3, <2>1, <3>2, <3>3, <3>4, FieldProperties
    <2> QED BY <1>5, <2>2, <2>3
  <1>8. TypeOK'
    BY <1>2, <1>3, <1>4, <1>5, <1>6, <1>7 DEF Inv, TypeOK, Snapshot
  <1>9. lib.listed \subseteq Names
    BY DEF Inv, TypeOK, Library
  <1>10. TableCurrent' /\ NeverNullKey'
    BY <1>4, <1>5, <1>7 DEF Inv, TableCurrent, NeverNullKey
  <1>11. Configurations'
    BY <1>4, <1>6 DEF Inv, Configurations, pending
  <1>12. Kinds(lib)' /\ Untouched'
    BY <1>4, <1>7, <1>9 DEF Inv, Kinds, Untouched, AsCreated
  <1> QED BY <1>8, <1>10, <1>11, <1>12 DEF Inv

-----------------------------------------------------------------------------
(* Commits *)

\* What follows the configurations a commit writes.
LEMMA CommitWrites ==
    ASSUME Inv, Commit
    PROVE  conf' \in [Names -> Conf] /\ WellFormed(conf')
  <1>1. lib \in Library /\ Kinds(lib) /\ conf \in [Names -> Conf] /\ WellFormed(conf)
    BY DEF Inv, TypeOK, Snapshot, Answer, Configurations
  <1>2. conf' = [n \in Names |-> IF n \in lib.listed THEN Sent(lib, n) ELSE conf[n]]
    BY DEF Commit
  <1>3. ASSUME NEW n \in Names
        PROVE  /\ conf'[n] \in Conf
               /\ n \in Ethernets => /\ conf'[n].type \in EthernetTypes \cup {Null}
                                     /\ conf'[n].device = Null
               /\ n \in Ppps => /\ conf'[n].type \in PppTypes \cup {Null}
                                /\ conf'[n].type # Null => conf'[n].device # Null
    <2>1. CASE n \in lib.listed
      <3>1. conf'[n] = Sent(lib, n)
        BY <1>2, <2>1
      <3> QED BY <1>1, <2>1, <3>1, SentProperties
    <2>2. CASE n \notin lib.listed
      <3>1. conf'[n] = conf[n]
        BY <1>2, <2>2
      <3> QED BY <1>1, <3>1 DEF WellFormed
    <2> QED BY <2>1, <2>2
  <1>4. conf' \in [Names -> Conf]
    BY <1>2, <1>3
  <1>5. WellFormed(conf')
    BY <1>3 DEF WellFormed, Names
  <1> QED BY <1>4, <1>5

\* The messages about the links a commit has changed.
LEMMA CommitMessages ==
    ASSUME Inv, Commit
    PROVE  /\ link' \in [Names -> BOOLEAN]
           /\ events' \in Seq([name : Names, active : BOOLEAN])
  <1> DEFINE Message == [name : Names, active : BOOLEAN]
  <1>1. link \in [Names -> BOOLEAN] /\ events \in Seq(Message)
    BY DEF Inv, TypeOK, Snapshot, Answer
  <1>2. link' \in [Names -> BOOLEAN]
    BY <1>1 DEF Commit
  <1>3. Switched \subseteq Names
    BY DEF Switched, Inv, TypeOK, Library
  <1>4. Cardinality(Switched) \in Nat
    <2>1. IsFiniteSet(Names)
      BY NamesAssumption, FS_Union DEF Names
    <2>2. IsFiniteSet(Switched)
      BY <1>3, <2>1, FS_Subset
    <2> QED BY <2>2, FS_CardinalityType
  <1>5. PICK order \in Injection(1..Cardinality(Switched), Switched) :
               events' = events \o [k \in DOMAIN order |->
                                       [name |-> order[k], active |-> link'[order[k]]]]
    BY DEF Commit
  <1> DEFINE size == Cardinality(Switched)
             sent == [k \in 1..size |-> [name |-> order[k], active |-> link'[order[k]]]]
  <1>6. order \in [1..size -> Switched] /\ DOMAIN order = 1..size
    BY <1>5 DEF Injection
  <1>7. \A k \in 1..size : [name |-> order[k], active |-> link'[order[k]]] \in Message
    BY <1>2, <1>3, <1>6
  <1>8. events' = events \o sent
    BY <1>5, <1>6
  <1> HIDE DEF size, Message
  <1>9. sent \in Seq(Message)
    <2>1. size \in Nat
      BY <1>4 DEF size
    <2>2. sent \in [1..size -> Message]
      BY <1>7
    <2> HIDE DEF sent
    <2> QED BY <2>1, <2>2
  <1> HIDE DEF sent
  <1>10. events' \in Seq(Message)
    BY <1>1, <1>8, <1>9
  <1> QED BY <1>2, <1>10 DEF Message

LEMMA CommitInv ==
    ASSUME Inv, Commit PROVE Inv'
  <1>1. /\ UNCHANGED <<present, lib, get, crashed, edits, read, touched, removed, missed>>
        /\ edited' = edited \cap (Ethernets \ present)
    BY DEF Commit
  <1>2. TypeOK'
    BY <1>1, CommitWrites, CommitMessages DEF Inv, TypeOK, Snapshot, Answer
  <1>3. Configurations'
    BY <1>1, CommitWrites DEF Inv, Configurations, pending
  <1> QED
    BY <1>1, <1>2, <1>3 DEF Inv, TableCurrent, NeverNullKey, Kinds, Untouched

-----------------------------------------------------------------------------
(* The application *)

\* What a change by the application must preserve, when the configurations of
\* the system are none of its business.
LEMMA EditInv ==
    ASSUME Inv, Edit,
           UNCHANGED <<link, present, conf, events, get, crashed, read, missed>>,
           lib' \in Library, Kinds(lib'),
           edited' \subseteq Names, touched' \subseteq Names, removed' \subseteq Names,
           TableCurrent', Untouched'
    PROVE  Inv'
  <1>1. edits' \in 0..MaxEdits
    BY BoundsAssumption DEF Edit, Inv, TypeOK
  <1>2. TypeOK'
    BY <1>1 DEF Inv, TypeOK, Snapshot, Answer
  <1>3. Configurations' /\ NeverNullKey' /\ Kinds(lib)'
    BY DEF Inv, Configurations, pending, NeverNullKey, Kinds
  <1> QED BY <1>2, <1>3 DEF Inv

LEMMA RemoveListedInv ==
    ASSUME Inv, NEW n \in lib.listed, RemoveListed(n) PROVE Inv'
  <1> DEFINE s == [lib EXCEPT !.listed = @ \ {n}]
  <1>1. lib \in Library /\ n \in Names
    BY DEF Inv, TypeOK, Library
  <1>2. /\ s \in Library /\ s.listed = lib.listed \ {n}
        /\ s.table = lib.table /\ s.iface = lib.iface
    BY <1>1 DEF Library
  <1>3. lib' = Settle(s)
    BY DEF RemoveListed
  <1> HIDE DEF s
  <1>4. /\ lib' \in Library /\ lib'.listed = lib.listed \ {n} /\ lib'.table = lib.table
        /\ \A k \in lib'.listed : lib'.iface[k] = lib.iface[k]
    BY <1>2, <1>3, SettleProperties
  <1>5. /\ UNCHANGED <<link, present, conf, events, get, crashed, read, edited, touched, missed>>
        /\ removed' = removed \cup {n}
    BY DEF RemoveListed, system
  <1>6. TableCurrent'
    BY <1>4, <1>5 DEF Inv, TableCurrent
  <1>7. Kinds(lib')
    BY <1>4 DEF Inv, Kinds
  <1>8. Untouched'
    BY <1>4, <1>5 DEF Inv, Untouched
  <1>9. Edit
    BY DEF RemoveListed
  <1>10. edited' \subseteq Names /\ touched' \subseteq Names /\ removed' \subseteq Names
    BY <1>1, <1>5 DEF Inv, TypeOK
  <1> QED BY <1>4, <1>5, <1>6, <1>7, <1>8, <1>9, <1>10, EditInv

LEMMA SetActiveInv ==
    ASSUME Inv, NEW n \in lib.listed, SetActive(n) PROVE Inv'
  <1> DEFINE i == [lib.iface[n] EXCEPT !.active = ~@]
  <1>1. lib \in Library /\ n \in Names /\ lib.iface[n] \in Iface
    BY DEF Inv, TypeOK, Library
  <1>2. /\ i \in Iface
        /\ i.type = lib.iface[n].type /\ i.complete = lib.iface[n].complete
        /\ i.serial = lib.iface[n].serial /\ i.ethernet = lib.iface[n].ethernet
        /\ i.off = lib.iface[n].off /\ i.essid = lib.iface[n].essid
    BY <1>1 DEF Iface
  <1>3. lib' = [lib EXCEPT !.iface[n] = i]
    BY DEF SetActive
  <1> HIDE DEF i
  <1>4. /\ lib' \in Library /\ lib'.listed = lib.listed /\ lib'.table = lib.table
        /\ lib'.iface[n] = i
        /\ \A k \in Names \ {n} : lib'.iface[k] = lib.iface[k]
    BY <1>1, <1>2, <1>3, FieldProperties
  <1>5. /\ UNCHANGED <<link, present, conf, events, get, crashed, read, touched, removed, missed>>
        /\ edited' = edited \cup {n}
    BY DEF SetActive, system
  <1>6. lib.listed \subseteq Names
    BY <1>1 DEF Library
  <1>7. Kinds(lib')
    BY <1>2, <1>4, <1>6 DEF Inv, Kinds
  <1>8. Untouched'
    BY <1>2, <1>4, <1>5, <1>6 DEF Inv, Untouched, AsCreated
  <1>9. TableCurrent'
    BY <1>4, <1>5 DEF Inv, TableCurrent
  <1>10. Edit
    BY DEF SetActive
  <1>11. edited' \subseteq Names /\ touched' \subseteq Names /\ removed' \subseteq Names
    BY <1>1, <1>5 DEF Inv, TypeOK
  <1> QED BY <1>4, <1>5, <1>7, <1>8, <1>9, <1>10, <1>11, EditInv

\* A change of the configuration of one listed interface, to one of its kind.
LEMMA TouchInv ==
    ASSUME Inv, NEW n \in lib.listed, NEW i \in Iface,
           n \in Ethernets => i.type \in EthernetTypes \cup {Null} /\ i.serial = Null,
           n \in Ppps => i.type \in PppTypes \cup {Null},
           Touch(n, [lib EXCEPT !.iface[n] = i])
    PROVE  Inv'
  <1> DEFINE s == [lib EXCEPT !.iface[n] = i]
  <1>1. lib \in Library /\ n \in Names /\ lib.listed \subseteq Names
    BY DEF Inv, TypeOK, Library
  <1>2. /\ s \in Library /\ s.listed = lib.listed /\ s.table = lib.table
        /\ s.iface[n] = i
        /\ \A k \in Names \ {n} : s.iface[k] = lib.iface[k]
    BY <1>1, FieldProperties
  <1>3. lib' = Settle(s)
    BY DEF Touch
  <1> HIDE DEF s
  <1>4. /\ lib' \in Library /\ lib'.listed = lib.listed /\ lib'.table = lib.table
        /\ lib'.iface[n] = i
        /\ \A k \in lib.listed \ {n} : lib'.iface[k] = lib.iface[k]
    BY <1>1, <1>2, <1>3, SettleProperties
  <1>5. /\ UNCHANGED <<link, present, conf, events, get, crashed, read, edited, removed, missed>>
        /\ touched' = touched \cup {n}
    BY DEF Touch, system
  <1>6. Kinds(lib')
    BY <1>4 DEF Inv, Kinds
  <1>7. Untouched'
    BY <1>4, <1>5 DEF Inv, Untouched
  <1>8. TableCurrent'
    BY <1>4, <1>5 DEF Inv, TableCurrent
  <1>9. Edit
    BY DEF Touch
  <1>10. edited' \subseteq Names /\ touched' \subseteq Names /\ removed' \subseteq Names
    BY <1>1, <1>5 DEF Inv, TypeOK
  <1> QED BY <1>4, <1>5, <1>6, <1>7, <1>8, <1>9, <1>10, EditInv

LEMMA SetConfiguredInv ==
    ASSUME Inv, NEW n \in lib.listed, SetConfigured(n) PROVE Inv'
  <1> DEFINE i == [lib.iface[n] EXCEPT !.off = ~@]
  <1>1. n \in Names /\ lib.iface[n] \in Iface
    BY DEF Inv, TypeOK, Library
  <1>2. i \in Iface /\ i.type = lib.iface[n].type /\ i.serial = lib.iface[n].serial
    BY <1>1 DEF Iface
  <1>3. Touch(n, [lib EXCEPT !.iface[n] = i])
    BY DEF SetConfigured
  <1> HIDE DEF i
  <1> QED BY <1>2, <1>3, TouchInv DEF Inv, Kinds

LEMMA SetEssidInv ==
    ASSUME Inv, NEW n \in lib.listed, SetEssid(n) PROVE Inv'
  <1> DEFINE i == [lib.iface[n] EXCEPT !.essid = ~@]
  <1>1. n \in Names /\ lib.iface[n] \in Iface
    BY DEF Inv, TypeOK, Library
  <1>2. i \in Iface /\ i.type = lib.iface[n].type /\ i.serial = lib.iface[n].serial
    BY <1>1 DEF Iface
  <1>3. Touch(n, [lib EXCEPT !.iface[n] = i])
    BY DEF SetEssid
  <1> HIDE DEF i
  <1> QED BY <1>2, <1>3, TouchInv DEF Inv, Kinds

LEMMA SetTypeInv ==
    ASSUME Inv, NEW n \in lib.listed \cap Ppps, NEW t \in PppTypes, SetType(n, t)
    PROVE  Inv'
  <1> DEFINE i == [lib.iface[n] EXCEPT !.type = t]
  <1>1. lib.iface[n] \in Iface
    BY DEF Inv, TypeOK, Library
  <1>2. i \in Iface /\ i.type = t
    BY <1>1 DEF Iface, Types
  <1>3. Touch(n, [lib EXCEPT !.iface[n] = i])
    BY DEF SetType
  <1> HIDE DEF i
  <1> QED BY <1>2, <1>3, TouchInv, Disjoint

LEMMA SetEthernetInv ==
    ASSUME Inv, NEW n \in lib.listed \cap Ppps, NEW e \in Ethernets \cup {Null},
           SetEthernet(n, e)
    PROVE  Inv'
  <1> DEFINE i == [lib.iface[n] EXCEPT !.ethernet = e]
  <1>1. lib.iface[n] \in Iface
    BY DEF Inv, TypeOK, Library
  <1>2. i \in Iface /\ i.type = lib.iface[n].type
    BY <1>1 DEF Iface
  <1>3. Touch(n, [lib EXCEPT !.iface[n] = i])
    BY DEF SetEthernet
  <1> HIDE DEF i
  <1> QED BY <1>2, <1>3, TouchInv, Disjoint DEF Inv, Kinds

LEMMA NextInv == Inv /\ [Next]_vars => Inv'
  <1> SUFFICES ASSUME Inv, [Next]_vars PROVE Inv'
    OBVIOUS
  <1>1. CASE Update
    BY <1>1, UpdateInv
  <1>2. CASE UpdateAsync
    BY <1>2, UpdateAsyncInv
  <1>3. CASE Dispatch
    BY <1>3, DispatchInv
  <1>4. CASE HandleEvent
    BY <1>4, HandleEventInv
  <1>5. CASE Commit
    BY <1>5, CommitInv
  <1>6. CASE \E n \in Names : LinkChange(n)
    BY <1>6, LinkChangeInv
  <1>7. CASE \E n \in Ethernets : Plug(n)
    BY <1>7, PlugInv
  <1>8. CASE \E n \in lib.listed : RemoveListed(n) \/ SetActive(n) \/ SetConfigured(n)
    BY <1>8, RemoveListedInv, SetActiveInv, SetConfiguredInv
  <1>9. CASE \E n \in lib.listed \cap Ppps, t \in PppTypes : SetType(n, t)
    BY <1>9, SetTypeInv
  <1>10. CASE \E n \in lib.listed \cap Ppps, e \in (lib.listed \cap Ethernets) \cup {Null} :
                 SetEthernet(n, e)
    BY <1>10, SetEthernetInv
  <1>11. CASE \E n \in lib.listed \cap Wireless : SetEssid(n)
    BY <1>11, SetEssidInv
  <1>12. CASE UNCHANGED vars
    <2>1. UNCHANGED <<link, present, conf, events, lib, get, crashed, edits, read,
                      edited, touched, removed, missed>>
      BY <1>12 DEF vars, system, history
    <2> QED
      BY <2>1 DEF Inv, TypeOK, Snapshot, TableCurrent, NeverNullKey, Configurations,
                  pending, Kinds, Untouched
  <1> QED
    BY <1>1, <1>2, <1>3, <1>4, <1>5, <1>6, <1>7, <1>8, <1>9, <1>10, <1>11, <1>12
    DEF Next

-----------------------------------------------------------------------------
(* Theorems *)

\* The invariant holds in every reachable state.
THEOREM InvariantHolds == Spec => []Inv
  <1> QED BY InitInv, NextInv, PTL DEF Spec

\* The state of the library and of the system keep their types.
THEOREM TypeCorrect == Spec => []TypeOK
  <1>1. Inv => TypeOK
    BY DEF Inv
  <1> QED BY <1>1, InvariantHolds, PTL

\* For any number of interfaces, the table of the netlink monitor names the
\* interfaces that are listed now, and the removed ones only besides.
THEOREM TableNamesListed == Spec => []TableCurrent
  <1>1. Inv => TableCurrent
    BY DEF Inv
  <1> QED BY <1>1, InvariantHolds, PTL

\* Whatever is changed and committed, no update meets a pppoe connection
\* without a device.
THEOREM NoNullLookup == Spec => []NeverNullKey
  <1>1. Inv => NeverNullKey
    BY DEF Inv
  <1> QED BY <1>1, InvariantHolds, PTL

\* A commit gives back the configuration that was read of every interface whose
\* configuration was complete and that the application did not change, but for
\* the addresses of its network, which it erases.
THEOREM CommitGivesBack == Spec => ConfigKept
  <1>1. ASSUME Inv, [Next]_vars
        PROVE  GivesBack
    <2> SUFFICES ASSUME NEW n \in lib.listed \ touched,
                        WasConfigured(n), conf'[n] # conf[n]
                 PROVE  conf'[n] = [read.conf[n] EXCEPT !.network = FALSE]
      BY DEF GivesBack
    <2>1. Commit
      BY <1>1 DEF Next, vars, system, Update, UpdateAsync, Dispatch, HandleEvent,
                  LinkChange, Plug, RemoveListed, SetActive, SetConfigured, SetType,
                  SetEthernet, SetEssid, Touch
    <2>2. /\ lib \in Library /\ n \in Names /\ Kinds(lib)
          /\ AsCreated(lib.iface[n], read.conf[n], read.present)
          /\ read.conf[n] \in Conf /\ read.present \in SUBSET Ethernets
      BY <1>1 DEF Inv, TypeOK, Library, Untouched
    <2>3. conf'[n] = Sent(lib, n)
      BY <2>1, <2>2 DEF Commit
    <2>4. /\ n \in Ethernets => /\ read.conf[n].type \in EthernetTypes \cup {Null}
                                /\ read.conf[n].device = Null
          /\ n \in Ppps => /\ read.conf[n].type \in PppTypes \cup {Null}
                           /\ read.conf[n].type # Null => read.conf[n].device # Null
      BY <1>1 DEF Inv, Configurations, WellFormed
    <2>5. /\ read.conf[n].type \in {"static", "modem", "pppoe"} => read.conf[n].complete
          /\ n \in Wireless => read.conf[n].essid
          /\ \/ read.conf[n].type \in {"modem", "dhcp", "static"}
             \/ read.conf[n].type = "pppoe" /\ read.conf[n].device \in read.present
      BY DEF WasConfigured
    <2>6. Sent(lib, n) = [read.conf[n] EXCEPT !.network = FALSE]
      BY <2>2, <2>4, <2>5, SentAsCreated
    <2> QED BY <2>3, <2>6
  <1>2. Inv /\ [Next]_vars => [GivesBack]_vars
    BY <1>1
  <1> QED BY <1>2, InvariantHolds, PTL DEF Spec, ConfigKept

-----------------------------------------------------------------------------
(* Links and messages *)

Message == [name : Names, active : BOOLEAN]

\* A message about n is to be read.
Told(n, e) == \E k \in 1..Len(e) : e[k].name = n

\* The last message about a link that is to be read tells what it is now.
LastTells(e, l) ==
    \A k \in 1..Len(e) :
        (\A j \in 1..Len(e) : j > k => e[j].name # e[k].name) => e[k].active = l[e[k].name]

\* What the answer that waits says of a link is so, or messages tell the rest.
AnswerCurrent ==
    pending => \A n \in Names : \/ get.answer.link[n] = link[n]
                                \/ n \in get.handled
                                \/ Told(n, events)

LinkInv ==
    /\ LastTells(events, link)
    /\ ActiveCurrent
    /\ AnswerCurrent

\* The kernel sends messages s about all the links it has changed, from l to new.
LEMMA MessagesSent ==
    ASSUME NEW e \in Seq(Message), NEW s \in Seq(Message), NEW l, NEW new,
           LastTells(e, l),
           \A k \in 1..Len(s) : s[k].active = new[s[k].name],
           \A n \in Names : new[n] # l[n] => Told(n, s)
    PROVE  /\ LastTells(e \o s, new)
           /\ \A n \in Names : Told(n, e) \/ new[n] # l[n] => Told(n, e \o s)
<1> DEFINE t == e \o s
<1>1. /\ Len(e) \in Nat /\ Len(s) \in Nat /\ Len(t) = Len(e) + Len(s)
      /\ \A k \in 1..Len(e) : t[k] = e[k] /\ e[k] \in Message
      /\ \A k \in 1..Len(s) : t[Len(e) + k] = s[k] /\ Len(e) + k \in 1..Len(t)
  OBVIOUS
<1> HIDE DEF t
<1>2. \A n : Told(n, s) => \E k \in 1..Len(t) : k > Len(e) /\ t[k].name = n
  <2> SUFFICES ASSUME NEW k \in 1..Len(s)
               PROVE  Len(e) + k \in 1..Len(t) /\ Len(e) + k > Len(e)
                      /\ t[Len(e) + k].name = s[k].name
    BY DEF Told
  <2> QED BY <1>1
<1>3. \A n : Told(n, e) => Told(n, t)
  BY <1>1 DEF Told
<1>4. ASSUME NEW k \in 1..Len(t), \A j \in 1..Len(t) : j > k => t[j].name # t[k].name
      PROVE  t[k].active = new[t[k].name]
  <2>1. CASE k > Len(e)
    <3>1. k - Len(e) \in 1..Len(s) /\ Len(e) + (k - Len(e)) = k
      BY <1>1, <2>1
    <3>2. t[k] = s[k - Len(e)]
      BY <1>1, <3>1
    <3> QED BY <3>1, <3>2
  <2>2. CASE ~(k > Len(e))
    <3>1. k \in 1..Len(e) /\ t[k] = e[k] /\ e[k].name \in Names
      BY <1>1, <2>2 DEF Message
    <3>2. \A j \in 1..Len(e) : j > k => e[j].name # e[k].name
      BY <1>1, <1>4, <3>1
    <3>3. e[k].active = l[e[k].name]
      BY <3>1, <3>2 DEF LastTells
    <3>4. ~Told(e[k].name, s)
      BY <1>1, <1>2, <1>4, <3>1
    <3> QED BY <3>1, <3>3, <3>4
  <2> QED BY <2>1, <2>2
<1> QED BY <1>2, <1>3, <1>4 DEF LastTells, Told, t

\* A message is read: it tells what its link is, unless there is a later one.
LEMMA MessageRead ==
    ASSUME NEW e \in Seq(Message), e # <<>>, NEW l, LastTells(e, l)
    PROVE  /\ LastTells(Tail(e), l)
           /\ \A n : Told(n, e) => n = Head(e).name \/ Told(n, Tail(e))
           /\ Head(e).active = l[Head(e).name] \/ Told(Head(e).name, Tail(e))
<1> DEFINE t == Tail(e)
<1>1. /\ Len(e) \in Nat /\ Len(e) > 0 /\ Len(t) = Len(e) - 1 /\ Head(e) = e[1]
      /\ \A k \in 1..Len(t) : t[k] = e[k + 1]
  OBVIOUS
<1> HIDE DEF t
<1>2. \A k \in 1..Len(e) : k # 1 => k - 1 \in 1..Len(t) /\ e[k] = t[k - 1]
  <2> SUFFICES ASSUME NEW k \in 1..Len(e), k # 1
               PROVE  k - 1 \in 1..Len(t) /\ e[k] = t[k - 1]
    OBVIOUS
  <2>1. k - 1 \in 1..Len(t) /\ (k - 1) + 1 = k
    BY <1>1
  <2> QED BY <1>1, <2>1
<1>3. ASSUME NEW k \in 1..Len(t), \A j \in 1..Len(t) : j > k => t[j].name # t[k].name
      PROVE  t[k].active = l[t[k].name]
  <2>1. k + 1 \in 1..Len(e) /\ t[k] = e[k + 1]
    BY <1>1
  <2>2. \A j \in 1..Len(e) : j > k + 1 => e[j].name # e[k + 1].name
    <3> SUFFICES ASSUME NEW j \in 1..Len(e), j > k + 1
                 PROVE  e[j].name # e[k + 1].name
      OBVIOUS
    <3>1. j - 1 \in 1..Len(t) /\ e[j] = t[j - 1] /\ j - 1 > k
      BY <1>1, <1>2
    <3> QED BY <1>3, <2>1, <3>1
  <2> QED BY <2>1, <2>2 DEF LastTells
<1>4. ASSUME NEW n, Told(n, e), n # Head(e).name
      PROVE  Told(n, t)
  BY <1>1, <1>2, <1>4 DEF Told
<1>5. ASSUME ~Told(Head(e).name, t)
      PROVE  Head(e).active = l[Head(e).name]
  <2>1. 1 \in 1..Len(e) /\ \A j \in 1..Len(e) : j > 1 => e[j].name # e[1].name
    BY <1>1, <1>2, <1>5 DEF Told
  <2> QED BY <1>1, <2>1 DEF LastTells
<1> QED BY <1>3, <1>4, <1>5 DEF LastTells, t

\* An update creates every interface with the link that the answer tells.
LEMMA CreatedActive ==
    ASSUME NEW a \in Answer, WellFormed(a.conf), NEW s \in Library,
           NEW n \in a.present \cup Ppps
    PROVE  CreateAll(Free(s), a).iface[n].active = a.link[n]
  <1> DEFINE s0 == Free(s)
             s1 == CreateList(s0, a.present, a)
             s2 == CreateList(s1, Ppps, a)
  <1>1. s0 \in Library
    <2>1. [s EXCEPT !.listed = {}, !.table = {}] \in Library
      BY DEF Library
    <2> QED BY <2>1, SettleProperties DEF Free
  <1>2. \A t : \A k \in Names : Created(t, k, a).active = a.link[k]
    BY DEF Created, Blank
  <1>3. a.present \subseteq Names /\ n \in Names
    BY DEF Answer, Names
  <1>4. \A t, names : \A k \in Names :
           CreateList(t, names, a).iface[k] = IF k \in names THEN Created(t, k, a) ELSE t.iface[k]
    BY DEF CreateList
  <1>5. CASE n \in Ppps
    <2>1. s2.iface[n] = Created(s1, n, a)
      BY <1>3, <1>4, <1>5
    <2> QED BY <1>2, <1>3, <2>1 DEF CreateAll
  <1>6. CASE n \notin Ppps
    <2>1. s2.iface[n] = s1.iface[n] /\ s1.iface[n] = Created(s0, n, a)
      BY <1>3, <1>4, <1>6
    <2> QED BY <1>2, <1>3, <2>1 DEF CreateAll
  <1> QED BY <1>5, <1>6

-----------------------------------------------------------------------------
(* The actions and the links *)

\* Whether the library has the link of n right, or is to be told of it.
Right(n) == lib.iface[n].active = link[n] \/ n \in missed \/ Told(n, events)

LEMMA CurrentMeansRight ==
    ASSUME Inv
    PROVE  ActiveCurrent <=> \A n \in lib.listed \ edited : Right(n)
<1>1. DOMAIN events = 1..Len(events)
  BY DEF Inv, TypeOK
<1> QED BY <1>1 DEF ActiveCurrent, Right, Told

LEMMA CurrentMeansRightNext ==
    ASSUME Inv'
    PROVE  ActiveCurrent' <=> \A n \in lib'.listed \ edited' : Right(n)'
<1>1. DOMAIN events' = 1..Len(events')
  BY DEF Inv, TypeOK
<1> QED BY <1>1 DEF ActiveCurrent, Right, Told

\* A step that leaves the kernel and its messages alone.
LEMMA QuietLinks ==
    ASSUME Inv, Inv', LinkInv, UNCHANGED <<link, events>>,
           \A n \in lib'.listed \ edited' : Right(n)',
           AnswerCurrent'
    PROVE  LinkInv'
<1>1. LastTells(events, link)'
  BY DEF LinkInv
<1> QED BY <1>1, CurrentMeansRightNext DEF LinkInv

\* A step in which the kernel sends messages about what it changes.
LEMMA KernelLinks ==
    ASSUME Inv, Inv', LinkInv, UNCHANGED <<lib, get, missed>>,
           NEW s \in Seq(Message), events' = events \o s,
           \A k \in 1..Len(s) : s[k].active = link'[s[k].name],
           \A n \in Names : link'[n] # link[n] => Told(n, s),
           \A n \in lib.listed \ edited' : n \in edited => Right(n)'
    PROVE  LinkInv'
<1>1. events \in Seq(Message) /\ LastTells(events, link)
  BY DEF Inv, TypeOK, Message, LinkInv
<1>2. /\ LastTells(events', link')
      /\ \A n \in Names : Told(n, events) \/ link'[n] # link[n] => Told(n, events')
  BY <1>1, MessagesSent
<1>3. lib.listed \subseteq Names
  BY DEF Inv, TypeOK, Library
<1>4. \A n \in lib.listed \ edited : Right(n)
  BY CurrentMeansRight DEF LinkInv
<1>5. \A n \in lib'.listed \ edited' : Right(n)'
  BY <1>2, <1>3, <1>4 DEF Right
<1>6. AnswerCurrent'
  BY <1>2 DEF AnswerCurrent, LinkInv, pending
<1> QED BY <1>2, <1>5, <1>6, CurrentMeansRightNext DEF LinkInv

LEMMA UpdateLinks == ASSUME Inv, Inv', LinkInv, Update PROVE LinkInv'
<1>1. /\ lib \in Library /\ Snapshot \in Answer /\ WellFormed(Snapshot.conf)
      /\ Snapshot.link = link
  BY DEF Inv, TypeOK, Configurations, Snapshot
<1>2. /\ UNCHANGED <<link, present, conf, events, get>>
      /\ ApplyUpdate(Snapshot)
  BY DEF Update, system
<1>3. ~HashesNull(Snapshot)
  BY <1>1, Disjoint DEF HashesNull, WellFormed
<1>4. lib' = CreateAll(Free(lib), Snapshot)
  BY <1>2, <1>3 DEF ApplyUpdate
<1>5. lib'.listed = Snapshot.present \cup Ppps
  BY <1>1, <1>4, CreateAllProperties
<1>6. \A n \in lib'.listed : lib'.iface[n].active = link[n]
  BY <1>1, <1>4, <1>5, CreatedActive
<1>7. \A n \in lib'.listed \ edited' : Right(n)'
  BY <1>2, <1>6 DEF Right
<1>8. AnswerCurrent'
  BY <1>2 DEF LinkInv, AnswerCurrent, pending
<1> QED BY <1>2, <1>7, <1>8, QuietLinks

LEMMA UpdateAsyncLinks == ASSUME Inv, Inv', LinkInv, UpdateAsync PROVE LinkInv'
<1>1. /\ UNCHANGED <<link, present, conf, events, lib, edited, missed>>
      /\ get' = [answer |-> Snapshot, handled |-> {}]
  BY DEF UpdateAsync, system, history
<1>2. get'.answer.link = link
  BY <1>1 DEF Snapshot
<1>3. AnswerCurrent'
  BY <1>1, <1>2 DEF AnswerCurrent
<1>4. \A n \in lib.listed \ edited : Right(n)
  BY CurrentMeansRight DEF LinkInv
<1>5. \A n \in lib'.listed \ edited' : Right(n)'
  BY <1>1, <1>4 DEF Right
<1> QED BY <1>1, <1>3, <1>5, QuietLinks

LEMMA DispatchLinks == ASSUME Inv, Inv', LinkInv, Dispatch PROVE LinkInv'
<1> DEFINE a == get.answer
<1>1. /\ lib \in Library /\ a \in Answer /\ WellFormed(a.conf)
  BY DEF Inv, TypeOK, Dispatch, pending, Configurations
<1>2. /\ UNCHANGED <<link, present, conf, events>>
      /\ ApplyUpdate(a) /\ missed' = get.handled /\ get' = NoGet /\ pending
  BY DEF Dispatch, system
<1>3. ~HashesNull(a)
  BY <1>1, Disjoint DEF HashesNull, WellFormed
<1>4. lib' = CreateAll(Free(lib), a)
  BY <1>2, <1>3 DEF ApplyUpdate
<1>5. lib'.listed = a.present \cup Ppps /\ lib'.listed \subseteq Names
  <2>1. a.present \subseteq Ethernets
    BY <1>1 DEF Answer
  <2> HIDE DEF a
  <2>2. lib'.listed = a.present \cup Ppps
    BY <1>1, <1>4, CreateAllProperties
  <2> QED BY <2>1, <2>2 DEF Names
<1>6. \A n \in Names : a.link[n] = link[n] \/ n \in get.handled \/ Told(n, events)
  BY <1>2 DEF LinkInv, AnswerCurrent
<1> HIDE DEF a
<1>7. \A n \in lib'.listed : lib'.iface[n].active = a.link[n]
  BY <1>1, <1>4, <1>5, CreatedActive
<1>8. \A n \in lib'.listed \ edited' : Right(n)'
  BY <1>2, <1>5, <1>6, <1>7 DEF Right
<1>9. AnswerCurrent'
  BY <1>2 DEF AnswerCurrent, NoGet, pending
<1> QED BY <1>2, <1>8, <1>9, QuietLinks

LEMMA LinkChangeLinks == ASSUME Inv, Inv', LinkInv, NEW n \in Names, LinkChange(n) PROVE LinkInv'
<1> DEFINE m == [name |-> n, active |-> link'[n]]
<1>1. /\ link \in [Names -> BOOLEAN] /\ events \in Seq(Message)
  BY DEF Inv, TypeOK, Snapshot, Answer, Message
<1>2. /\ link' = [link EXCEPT ![n] = ~@]
      /\ events' = Append(events, m)
      /\ UNCHANGED <<lib, get, missed, edited>>
  BY DEF LinkChange, history
<1>3. m \in Message /\ m.name = n /\ m.active = link'[n]
  BY <1>1, <1>2 DEF Message
<1>4. \A k \in Names : link'[k] # link[k] => k = n
  BY <1>1, <1>2
<1> HIDE DEF m
<1>5. /\ <<m>> \in Seq(Message) /\ events' = events \o <<m>>
      /\ Len(<<m>>) = 1 /\ <<m>>[1] = m
  BY <1>1, <1>2, <1>3
<1>6. \A k \in Names : link'[k] # link[k] => Told(k, <<m>>)
  BY <1>3, <1>4, <1>5 DEF Told
<1>7. \A k \in 1..Len(<<m>>) : <<m>>[k].active = link'[<<m>>[k].name]
  BY <1>3, <1>5
<1> QED BY <1>2, <1>5, <1>6, <1>7, KernelLinks

LEMMA PlugLinks == ASSUME Inv, Inv', LinkInv, NEW n \in Ethernets, Plug(n) PROVE LinkInv'
<1> DEFINE m == [name |-> n, active |-> FALSE]
<1>1. /\ link \in [Names -> BOOLEAN] /\ events \in Seq(Message) /\ n \in Names
  BY DEF Inv, TypeOK, Snapshot, Answer, Message, Names
<1>2. /\ link' = [link EXCEPT ![n] = FALSE]
      /\ events' = Append(events, m)
      /\ UNCHANGED <<lib, get, missed, edited>>
  BY DEF Plug, history
<1>3. m \in Message /\ m.name = n /\ m.active = link'[n]
  BY <1>1, <1>2 DEF Message
<1>4. \A k \in Names : link'[k] # link[k] => k = n
  BY <1>1, <1>2
<1> HIDE DEF m
<1>5. /\ <<m>> \in Seq(Message) /\ events' = events \o <<m>>
      /\ Len(<<m>>) = 1 /\ <<m>>[1] = m
  BY <1>1, <1>2, <1>3
<1>6. \A k \in Names : link'[k] # link[k] => Told(k, <<m>>)
  BY <1>3, <1>4, <1>5 DEF Told
<1>7. \A k \in 1..Len(<<m>>) : <<m>>[k].active = link'[<<m>>[k].name]
  BY <1>3, <1>5
<1> QED BY <1>2, <1>5, <1>6, <1>7, KernelLinks

\* The kernel tells of every link a commit changes, in whatever order.
LEMMA CommitLinks == ASSUME Inv, Inv', LinkInv, Commit PROVE LinkInv'
<1> DEFINE size == Cardinality(Switched)
<1>1. /\ link \in [Names -> BOOLEAN] /\ events \in Seq(Message)
      /\ lib \in Library /\ lib.listed \subseteq Names /\ lib.iface \in [Names -> Iface]
      /\ edited \subseteq Names
  BY DEF Inv, TypeOK, Snapshot, Answer, Message, Library
<1>2. /\ link' = [n \in Names |-> IF n \in Switched THEN ~link[n] ELSE link[n]]
      /\ UNCHANGED <<lib, get, missed, present>>
      /\ edited' = edited \cap (Ethernets \ present)
  BY DEF Commit
<1>3. Switched \subseteq Names /\ IsFiniteSet(Switched) /\ size \in Nat
  <2>1. IsFiniteSet(Names)
    BY NamesAssumption, FS_Union DEF Names
  <2>2. Switched \subseteq Names
    BY <1>1 DEF Switched
  <2>3. IsFiniteSet(Switched)
    BY <2>1, <2>2, FS_Subset
  <2> QED BY <2>2, <2>3, FS_CardinalityType
<1>4. PICK order \in Injection(1..size, Switched) :
               events' = events \o [k \in DOMAIN order |->
                                       [name |-> order[k], active |-> link'[order[k]]]]
  BY DEF Commit
<1> DEFINE s == [k \in 1..size |-> [name |-> order[k], active |-> link'[order[k]]]]
<1> HIDE DEF size
<1>5. order \in [1..size -> Switched] /\ DOMAIN order = 1..size
  BY <1>4 DEF Injection
<1>6. \A n \in Switched : \E k \in 1..size : order[k] = n
  <2>1. Cardinality(1..size) = size
    BY <1>3, FS_Interval
  <2>2. order \in Surjection(1..size, Switched)
    BY <1>3, <1>4, <2>1, FS_Injection DEF size
  <2> QED BY <2>2 DEF Surjection
<1>7. events' = events \o s
  BY <1>4, <1>5
<1>8. link' \in [Names -> BOOLEAN]
  BY <1>1, <1>2
<1>9. s \in Seq(Message) /\ Len(s) = size
  <2>1. \A k \in 1..size : [name |-> order[k], active |-> link'[order[k]]] \in Message
    BY <1>3, <1>5, <1>8 DEF Message
  <2>2. s \in [1..size -> Message]
    BY <2>1
  <2> HIDE DEF s
  <2> QED BY <1>3, <2>2
<1>10. \A k \in 1..Len(s) : s[k].name = order[k] /\ s[k].active = link'[order[k]]
  BY <1>9
<1> HIDE DEF s
<1>11. \A k \in 1..Len(s) : s[k].active = link'[s[k].name]
  BY <1>10
<1>12. \A n \in Switched : Told(n, s)
  BY <1>6, <1>9, <1>10 DEF Told
<1>13. \A n \in Names : link'[n] # link[n] => n \in Switched
  BY <1>2
<1>14. ASSUME NEW n \in lib.listed \ edited', n \in edited
       PROVE  Right(n)'
  <2>1. n \in Names /\ n \in present \cup Ppps
    BY <1>1, <1>2, <1>14 DEF Names
  <2>2. CASE n \in Switched
    <3>1. lib.iface[n].active \in BOOLEAN /\ link[n] \in BOOLEAN
      BY <1>1, <2>1 DEF Iface
    <3>2. lib.iface[n].active # link[n] /\ link'[n] = ~link[n]
      BY <1>2, <2>1, <2>2 DEF Switched
    <3>3. lib'.iface[n].active = link'[n]
      BY <1>2, <3>1, <3>2
    <3> QED BY <3>3 DEF Right
  <2>3. CASE n \notin Switched
    <3>1. lib.iface[n].active = link[n] /\ link'[n] = link[n]
      BY <1>2, <1>14, <2>1, <2>3 DEF Switched
    <3> QED BY <1>2, <3>1 DEF Right
  <2> QED BY <2>2, <2>3
<1>15. \A n \in Names : link'[n] # link[n] => Told(n, s)
  BY <1>12, <1>13
<1> QED BY <1>2, <1>7, <1>9, <1>11, <1>14, <1>15, KernelLinks

\* The monitor sets the link that the message tells, or a later one will.
LEMMA HandleEventLinks == ASSUME Inv, Inv', LinkInv, HandleEvent PROVE LinkInv'
<1> DEFINE m == Head(events)
           n == m.name
<1>1. /\ events \in Seq(Message) /\ events # <<>> /\ lib \in Library
      /\ lib.listed \subseteq Names /\ lib.iface \in [Names -> Iface]
      /\ LastTells(events, link) /\ lib.listed \subseteq lib.table
      /\ lib.listed \subseteq Live(lib)
  BY DEF Inv, TypeOK, Message, Library, LinkInv, HandleEvent, TableCurrent, Live
<1>2. /\ LastTells(Tail(events), link)
      /\ \A k : Told(k, events) => k = n \/ Told(k, Tail(events))
      /\ m.active = link[n] \/ Told(n, Tail(events))
  BY <1>1, MessageRead
<1>3. /\ events' = Tail(events) /\ link' = link
      /\ edited' = edited \ {n} /\ missed' = missed \ {n}
      /\ get' = [get EXCEPT !.handled = IF pending THEN @ \cup {n} ELSE @]
  BY DEF HandleEvent, system
<1>4. /\ lib'.listed = lib.listed
      /\ \A k \in lib.listed \ {n} : lib'.iface[k] = lib.iface[k]
      /\ n \in lib.listed => lib'.iface[n].active = m.active
  <2>1. CASE n \in lib.listed
    <3>1. lib' = Monitor(lib, n, m.active)
      BY <1>1, <2>1 DEF HandleEvent
    <3> DEFINE i == [lib.iface[n] EXCEPT !.active = m.active]
    <3>2. lib' = [lib EXCEPT !.iface[n] = i]
      BY <3>1 DEF Monitor
    <3>3. m.active \in BOOLEAN /\ lib.iface[n] \in Iface
      <4>1. m \in Message
        BY <1>1
      <4> QED BY <1>1, <2>1, <4>1 DEF Message
    <3>4. i \in Iface /\ i.active = m.active
      BY <3>3 DEF Iface
    <3> HIDE DEF i, m
    <3> QED BY <1>1, <2>1, <3>2, <3>4, FieldProperties
  <2>2. CASE n \notin lib.listed
    <3>1. lib' = lib
      BY <2>2 DEF HandleEvent
    <3> QED BY <2>2, <3>1
  <2> QED BY <2>1, <2>2
<1> HIDE DEF n, m
<1>5. \A k \in lib.listed \ edited : Right(k)
  BY CurrentMeansRight DEF LinkInv
<1>6. ASSUME NEW k \in lib'.listed \ edited'
      PROVE  Right(k)'
  <2>1. CASE k = n
    BY <1>2, <1>3, <1>4, <2>1 DEF Right
  <2>2. CASE k # n
    BY <1>2, <1>3, <1>4, <1>5, <2>2 DEF Right
  <2> QED BY <2>1, <2>2
<1>7. AnswerCurrent'
  <2> SUFFICES ASSUME pending', NEW k \in Names
               PROVE  \/ get'.answer.link[k] = link'[k]
                      \/ k \in get'.handled
                      \/ Told(k, events')
    BY DEF AnswerCurrent
  <2>1. /\ get \in [answer : Answer \cup {Null}, handled : SUBSET Names]
    BY DEF Inv, TypeOK
  <2>2. get'.answer = get.answer /\ pending
    BY <1>3, <2>1 DEF pending
  <2>3. get'.handled = get.handled \cup {n}
    BY <1>3, <2>1, <2>2
  <2>4. get.answer.link[k] = link[k] \/ k \in get.handled \/ Told(k, events)
    BY <2>2 DEF LinkInv, AnswerCurrent
  <2> QED BY <1>2, <1>3, <2>2, <2>3, <2>4
<1> QED BY <1>2, <1>3, <1>6, <1>7, CurrentMeansRightNext DEF LinkInv

\* A change by the application, which leaves alone what else is active.
LEMMA EditLinks ==
    ASSUME Inv, Inv', LinkInv, UNCHANGED <<link, events, get, missed>>,
           \A n \in lib'.listed \ edited' :
               n \in lib.listed \ edited /\ lib'.iface[n].active = lib.iface[n].active
    PROVE  LinkInv'
<1>1. \A n \in lib.listed \ edited : Right(n)
  BY CurrentMeansRight DEF LinkInv
<1>2. \A n \in lib'.listed \ edited' : Right(n)'
  BY <1>1 DEF Right
<1>3. AnswerCurrent'
  BY DEF LinkInv, AnswerCurrent, pending
<1> QED BY <1>2, <1>3, QuietLinks

LEMMA RemoveListedLinks ==
    ASSUME Inv, Inv', LinkInv, NEW n \in lib.listed, RemoveListed(n) PROVE LinkInv'
<1> DEFINE s == [lib EXCEPT !.listed = @ \ {n}]
<1>1. lib \in Library
  BY DEF Inv, TypeOK
<1>2. s \in Library /\ s.listed = lib.listed \ {n} /\ s.iface = lib.iface
  BY <1>1 DEF Library
<1>3. lib' = Settle(s) /\ UNCHANGED <<link, events, get, missed, edited>>
  BY DEF RemoveListed, system
<1> HIDE DEF s
<1>4. lib'.listed = lib.listed \ {n} /\ \A k \in lib'.listed : lib'.iface[k] = lib.iface[k]
  BY <1>2, <1>3, SettleProperties
<1> QED BY <1>3, <1>4, EditLinks

LEMMA SetActiveLinks ==
    ASSUME Inv, Inv', LinkInv, NEW n \in lib.listed, SetActive(n) PROVE LinkInv'
<1>1. lib \in Library /\ n \in Names
  BY DEF Inv, TypeOK, Library
<1>2. /\ lib' = [lib EXCEPT !.iface[n].active = ~@]
      /\ edited' = edited \cup {n} /\ UNCHANGED <<link, events, get, missed>>
  BY DEF SetActive, system
<1>3. lib'.listed = lib.listed /\ \A k \in Names \ {n} : lib'.iface[k] = lib.iface[k]
  BY <1>1, <1>2 DEF Library
<1>4. lib.listed \subseteq Names
  BY <1>1 DEF Library
<1> QED BY <1>2, <1>3, <1>4, EditLinks

\* A change of the configuration of an interface leaves its link alone.
LEMMA TouchLinks ==
    ASSUME Inv, Inv', LinkInv, NEW n \in lib.listed, NEW i \in Iface,
           i.active = lib.iface[n].active, Touch(n, [lib EXCEPT !.iface[n] = i])
    PROVE  LinkInv'
<1> DEFINE s == [lib EXCEPT !.iface[n] = i]
<1>1. lib \in Library /\ n \in Names /\ lib.listed \subseteq Names
  BY DEF Inv, TypeOK, Library
<1>2. /\ s \in Library /\ s.listed = lib.listed /\ s.iface[n] = i
      /\ \A k \in Names \ {n} : s.iface[k] = lib.iface[k]
  BY <1>1, FieldProperties
<1>3. lib' = Settle(s) /\ UNCHANGED <<link, events, get, missed, edited>>
  BY DEF Touch, system
<1> HIDE DEF s
<1>4. lib'.listed = lib.listed /\ \A k \in lib'.listed : lib'.iface[k] = s.iface[k]
  BY <1>2, <1>3, SettleProperties
<1> QED BY <1>1, <1>2, <1>3, <1>4, EditLinks

LEMMA ConfigureLinks ==
    ASSUME Inv, Inv', LinkInv, NEW n \in lib.listed, NEW t \in PppTypes,
           NEW e \in Ethernets \cup {Null},
           SetConfigured(n) \/ SetEssid(n) \/ SetType(n, t) \/ SetEthernet(n, e)
    PROVE  LinkInv'
<1>1. lib.iface[n] \in Iface
  BY DEF Inv, TypeOK, Library
<1>2. CASE SetConfigured(n)
  <2> DEFINE i == [lib.iface[n] EXCEPT !.off = ~@]
  <2>1. i \in Iface /\ i.active = lib.iface[n].active
    BY <1>1 DEF Iface
  <2>2. Touch(n, [lib EXCEPT !.iface[n] = i])
    BY <1>2 DEF SetConfigured
  <2> HIDE DEF i
  <2> QED BY <2>1, <2>2, TouchLinks
<1>3. CASE SetType(n, t)
  <2> DEFINE i == [lib.iface[n] EXCEPT !.type = t]
  <2>1. i \in Iface /\ i.active = lib.iface[n].active
    BY <1>1 DEF Iface, Types
  <2>2. Touch(n, [lib EXCEPT !.iface[n] = i])
    BY <1>3 DEF SetType
  <2> HIDE DEF i
  <2> QED BY <2>1, <2>2, TouchLinks
<1>4. CASE SetEthernet(n, e)
  <2> DEFINE i == [lib.iface[n] EXCEPT !.ethernet = e]
  <2>1. i \in Iface /\ i.active = lib.iface[n].active
    BY <1>1 DEF Iface
  <2>2. Touch(n, [lib EXCEPT !.iface[n] = i])
    BY <1>4 DEF SetEthernet
  <2> HIDE DEF i
  <2> QED BY <2>1, <2>2, TouchLinks
<1>5. CASE SetEssid(n)
  <2> DEFINE i == [lib.iface[n] EXCEPT !.essid = ~@]
  <2>1. i \in Iface /\ i.active = lib.iface[n].active
    BY <1>1 DEF Iface
  <2>2. Touch(n, [lib EXCEPT !.iface[n] = i])
    BY <1>5 DEF SetEssid
  <2> HIDE DEF i
  <2> QED BY <2>1, <2>2, TouchLinks
<1> QED BY <1>2, <1>3, <1>4, <1>5

LEMMA LinkInit == Init => LinkInv
  BY DEF Init, LinkInv, LastTells, ActiveCurrent, AnswerCurrent, NoGet, pending

LEMMA LinkStep == Inv /\ Inv' /\ LinkInv /\ [Next]_vars => LinkInv'
<1> SUFFICES ASSUME Inv, Inv', LinkInv, [Next]_vars PROVE LinkInv'
  OBVIOUS
<1>1. CASE Update \/ UpdateAsync \/ Dispatch \/ HandleEvent \/ Commit
  BY <1>1, UpdateLinks, UpdateAsyncLinks, DispatchLinks, HandleEventLinks, CommitLinks
<1>2. CASE \E n \in Names : LinkChange(n)
  BY <1>2, LinkChangeLinks
<1>3. CASE \E n \in Ethernets : Plug(n)
  BY <1>3, PlugLinks
<1>4. CASE \E n \in lib.listed : RemoveListed(n) \/ SetActive(n)
  BY <1>4, RemoveListedLinks, SetActiveLinks
<1>5. CASE \E n \in lib.listed : SetConfigured(n) \/ (n \in Wireless /\ SetEssid(n))
  <2>1. Null \in Ethernets \cup {Null} /\ "modem" \in PppTypes
    BY DEF PppTypes
  <2> QED BY <1>5, <2>1, ConfigureLinks
<1>6. CASE \E n \in lib.listed \cap Ppps, t \in PppTypes : SetType(n, t)
  BY <1>6, Null \in Ethernets \cup {Null}, ConfigureLinks
<1>7. CASE \E n \in lib.listed \cap Ppps, e \in (lib.listed \cap Ethernets) \cup {Null} :
               SetEthernet(n, e)
  <2>1. "modem" \in PppTypes
    BY DEF PppTypes
  <2> QED BY <1>7, <2>1, ConfigureLinks
<1>8. CASE UNCHANGED vars
  <2>1. UNCHANGED <<link, events, lib, get, edited, missed>>
    BY <1>8 DEF vars, system, history
  <2> QED BY <2>1, EditLinks DEF LinkInv, ActiveCurrent
<1> QED BY <1>1, <1>2, <1>3, <1>4, <1>5, <1>6, <1>7, <1>8 DEF Next

\* The shown state of every interface is the kernel's, or will be once the
\* messages on their way are read, whatever the order of updates, commits and
\* messages; but for what the application has set since ("edited"), and for what
\* an answer older than a message has undone ("missed"): of those, the state that
\* is shown may be wrong with nothing on its way.
THEOREM ActiveFollowsKernel == Spec => []ActiveCurrent
<1>1. LinkInv => ActiveCurrent
  BY DEF LinkInv
<1> QED BY <1>1, LinkInit, LinkStep, InvariantHolds, PTL DEF Spec
=============================================================================
