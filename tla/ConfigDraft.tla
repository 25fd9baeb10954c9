----------------------------- MODULE ConfigDraft -----------------------------
(***************************************************************************)
(* What a configuration object promises its application, whatever it holds:*)
(* a draft of the configuration.  An update makes it what the system has   *)
(* (or had, when an asynchronous one was answered), a change by the        *)
(* application is one of one part of it, and a commit asks the backends    *)
(* for the draft as it is, and leaves it.                                  *)
(***************************************************************************)
CONSTANTS
    Blank(_),     \* The draft before any update, on a system
    Shown(_),     \* The draft that an update makes of a system
    Stored(_, _), \* What a request makes of a system
    Null

VARIABLES
    system, \* The configuration of the system
    draft,  \* What the next commit asks for
    get,    \* An asynchronous answer that is on its way, or Null
    heard   \* The request the backends have carried out last, if it was the
            \* last change to the system, or Null

vars == <<system, draft, get, heard>>

Init == draft = Blank(system) /\ get = Null /\ heard = Null

Update == draft' = Shown(system) /\ UNCHANGED <<system, get, heard>>

Ask == get = Null /\ get' = system /\ UNCHANGED <<system, draft, heard>>

Answer ==
    /\ get # Null
    /\ draft' = Shown(get)
    /\ get' = Null
    /\ UNCHANGED <<system, heard>>

Change ==
    /\ \E f \in DOMAIN draft : draft' = [draft EXCEPT ![f] = draft'[f]]
    /\ UNCHANGED <<system, get, heard>>

Commit ==
    /\ heard' = draft
    /\ system' = Stored(draft, system)
    /\ UNCHANGED <<draft, get>>

OtherChange == heard' = Null /\ UNCHANGED <<draft, get>>

Next == Update \/ Ask \/ Answer \/ Change \/ Commit \/ OtherChange

Spec == Init /\ [][Next]_vars

===============================================================================
