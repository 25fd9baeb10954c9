------------------------------ MODULE ListConfigs ------------------------------
(***************************************************************************)
(* The configuration objects that are read whole and written whole: the    *)
(* NTP servers, the hosts, and the NFS and SMB shares.  Each behaviour is  *)
(* of one of them, with its backend, the application and other programs.   *)
(*                                                                         *)
(* A call of the public API is one step.  A commit that fails changes      *)
(* nothing on either side and is no step; one whose reply is lost is a     *)
(* commit.  The application may read, change and commit at any time, also  *)
(* before the first update and while an asynchronous one is pending.       *)
(***************************************************************************)
EXTENDS NTPConfig, HostsConfig, SharesConfig

CONSTANTS MaxChanges  \* Bound: changes by the application and by other programs

ASSUME ChangesAssumption == MaxChanges \in Nat

VARIABLES
    system,  \* What the backend has
    lib,     \* The private data of the object
    get,     \* The answer to an asynchronous update, until it is dispatched
    heard,   \* What the last commit asked the backend for, if nothing has
             \* changed the system since, or Null
    changes  \* Bound

vars == <<system, lib, get, heard, changes>>

-----------------------------------------------------------------------------
(* The backends *)

\* The system, and what is asked of it.  In place of the table of users the
\* system has passwords, or Null.
SMBBackend(U) ==
    [kind : {"smb"}, shares : Seq(SMBShare(Strings, SUBSET Flags)),
     workgroup : Strings, desc : Strings, wins_server : Strings,
     is_wins_server : {0, 1}, users : U]
SMBRequests == SMBBackend(UNION {[D -> Passwords \cup {""}] : D \in SUBSET Users})
SMBSystems == SMBBackend([Users -> Passwords \cup {Null}])

Systems == NTPMessage \cup Hosts(Strings) \cup NFS(Strings) \cup SMBSystems
Requests == NTPMessage \cup Hosts(Strings) \cup NFS(Strings) \cup SMBRequests

\* The reply of the backend: flags are 0 or 1, and no password is told.
Reply(s) ==
    IF s.kind # "smb" THEN s
    ELSE [s EXCEPT !.shares = Each(LAMBDA share :
                         [share EXCEPT !.flags = [f \in Flags |-> IF f \in @ THEN 1 ELSE 0]], @),
                   !.users = {u \in Users : @[u] # Null}]

\* A message as the backend understands it: a number is true when it is not 0.
Understood(m) ==
    IF m.kind # "smb" THEN m
    ELSE [m EXCEPT !.shares = Each(LAMBDA share :
                         [share EXCEPT !.flags = {f \in Flags : @[f] # 0}], @)]

\* The system after a request.  An SMB user keeps the password when an empty one
\* is sent, and loses it when not listed.
Stored(r, s) ==
    IF s.kind # "smb" THEN r
    ELSE [r EXCEPT !.users = [u \in Users |->
             IF u \notin DOMAIN r.users THEN Null
             ELSE IF r.users[u] = "" THEN s.users[u] ELSE r.users[u]]]

-----------------------------------------------------------------------------
(* The library *)

Blank(kind) ==
    CASE kind = "ntp" -> NTPInit [] kind = "hosts" -> HostsInit
      [] kind = "nfs" -> NFSInit [] kind = "smb" -> SMBInit

\* The update handlers
Read(m) ==
    CASE m.kind = "ntp" -> NTPRead(m) [] m.kind = "hosts" -> HostsRead(m)
      [] m.kind = "nfs" -> NFSRead(m) [] m.kind = "smb" -> SMBRead(m)

\* The commit handlers
Sent(s) ==
    CASE s.kind = "ntp" -> NTPSent(s) [] s.kind = "hosts" -> HostsSent(s)
      [] s.kind = "nfs" -> NFSSent(s) [] s.kind = "smb" -> SMBSent(s)

Edits(s) ==
    CASE s.kind = "ntp" -> NTPEdits(s) [] s.kind = "hosts" -> HostsEdits(s)
      [] s.kind = "nfs" -> NFSEdits(s) [] s.kind = "smb" -> SMBEdits(s)

Request(s) == Understood(Sent(s))

-----------------------------------------------------------------------------
(* The state machine *)

\* Values for one field of a system: what the model starts with, and what other
\* programs change.
SMBSamples == [name : Texts, path : Strings, comment : {""}, flags : {{"enabled"}, {"public"}}]
Samples(s, f) ==
    CASE s.kind = "ntp" -> IF f = "servers" THEN Lists(Strings) ELSE {}
      [] s.kind = "hosts" ->
             CASE f \in {"hostname", "domain"} -> Texts \cup {""}
               [] f = "static_hosts" -> Short([ip_address : Texts \cup {""}, aliases : Short(Names)])
               [] f \in {"dns_list", "search_domains_list"} -> Lists(Names)
               [] OTHER -> {}
      [] s.kind = "nfs" ->
             IF f = "shares" THEN Short([path : Strings, acl : Short(Acl(Strings))]) ELSE {}
      [] s.kind = "smb" ->
             CASE f = "shares" -> {l \in Lists(SMBSamples) :
                      Len(l) = 2 => l[1].path # l[2].path /\ l[1].flags = l[2].flags}
               [] f \in {"workgroup", "desc", "wins_server"} -> Texts \cup {""}
               [] f = "is_wins_server" -> {0, 1}
               [] f = "users" -> [Users -> Passwords \cup {Null}]
               [] OTHER -> {}

Variants(s) == UNION {{[s EXCEPT ![f] = v] : v \in Samples(s, f)} : f \in DOMAIN s}

Plain(kind) ==
    LET s == Understood(Sent(Blank(kind))) IN
    IF kind # "smb" THEN s ELSE [s EXCEPT !.users = [u \in Users |-> Null]]

Kinds == {"ntp", "hosts", "nfs", "smb"}

TypeOK ==
    /\ system \in Systems
    /\ lib \in NTP \cup Hosts(Pointers) \cup NFS(Pointers) \cup SMB
    /\ lib.kind = system.kind
    /\ get = Null \/ get \in Systems
    /\ heard = Null \/ heard \in Requests
    /\ changes \in 0..MaxChanges

Init ==
    /\ \E kind \in Kinds : system \in Variants(Plain(kind)) /\ lib = Blank(kind)
    /\ get = Null /\ heard = Null
    /\ changes = 0

\* oobs_object_update
Update ==
    /\ lib' = Read(Reply(system))
    /\ UNCHANGED <<system, get, heard, changes>>

\* oobs_object_update_async
UpdateAsync ==
    /\ get = Null
    /\ get' = system
    /\ UNCHANGED <<system, lib, heard, changes>>

Dispatch ==
    /\ get # Null
    /\ lib' = Read(Reply(get))
    /\ get' = Null
    /\ UNCHANGED <<system, heard, changes>>

\* oobs_object_commit, oobs_object_commit_async
Commit ==
    /\ heard' = Request(lib)
    /\ system' = Stored(heard', system)
    /\ UNCHANGED <<lib, get, changes>>

\* Bound.
Counted == changes < MaxChanges /\ changes' = changes + 1

\* A setter is called, or an element of a list comes, goes or is changed.
Edit ==
    /\ Counted
    /\ lib' \in Edits(lib)
    /\ UNCHANGED <<system, get, heard>>

\* Another program changes the system.
OtherProgram ==
    /\ Counted
    /\ system' \in Variants(system)
    /\ heard' = Null
    /\ UNCHANGED <<lib, get>>

Next == Update \/ UpdateAsync \/ Dispatch \/ Commit \/ Edit \/ OtherProgram

Spec == Init /\ [][Next]_vars

-----------------------------------------------------------------------------
(* Properties *)

\* What an update shows of a system: all of it, but for SMB shares whose path is
\* not absolute (oobs-share-smb.c:324), and the passwords.
Shown(s) ==
    IF s.kind # "smb" THEN s
    ELSE [s EXCEPT !.shares = AcceptedOf(@),
                   !.users = [u \in {v \in Users : @[v] # Null} |-> ""]]

Promise == INSTANCE ConfigDraft WITH
    draft <- Request(lib),
    Blank <- LAMBDA s : Request(Blank(s.kind)),
    Shown <- Shown,
    Stored <- Stored

\* Each object keeps the promise of ConfigDraft, where the draft is the message
\* that a commit would send now: reading and writing undo each other, whatever
\* strings are empty or NULL, whichever flags are set and in whatever order the
\* elements come; a setter touches no other field; a commit asks for nothing the
\* application has not read or set, and for no password it has not set; and only
\* commits ask for anything.
KeepsPromise == Promise!Spec

===============================================================================
