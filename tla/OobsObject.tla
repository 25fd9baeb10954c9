----------------------------- MODULE OobsObject -----------------------------
(***************************************************************************)
(* One OobsObject (oobs/oobs-object.c): synchronous and asynchronous       *)
(* updates and commits over D-Bus, the list of pending calls, the count of *)
(* update requests, the reference count and the "changed" idle source.     *)
(*                                                                         *)
(* The program is single threaded.  Every signal emission and every        *)
(* OobsObjectAsyncFunc runs user code that may call the library again, or  *)
(* run a nested main loop, so control is a stack of frames: its head is    *)
(* the code that runs, and an empty stack is the outermost main loop.      *)
(***************************************************************************)
EXTENDS Integers, Sequences, FiniteSets

CONSTANTS
    Connected,     \* Whether OobsSession got its connection to the bus
    Replies,       \* What the backend may answer to a message: "error" stands for
                   \* AccessDenied too, which only changes the OobsResult returned
    MaxCalls,      \* Bound: asynchronous calls made
    MaxRequests,   \* Bound: value of update_requests
    MaxNest        \* Bound: functions of the user on the stack when one of them
                   \* calls the library or runs a main loop

ASSUME ConstantsAssumption ==
    /\ Connected \in BOOLEAN
    /\ Replies \subseteq {"ok", "error"}
    /\ MaxCalls \in Nat
    /\ MaxRequests \in Nat
    /\ MaxNest \in Nat

\* Asynchronous calls, numbered in the order they are made.
Calls == 1..MaxCalls

NoCall == 0

VARIABLES
    online,           \* That connection, which the bus may close, is still there
    alive,            \* Not finalized
    app_ref,          \* The application owns a reference
    refs,             \* Reference count of the object
    updated,          \* priv->updated
    update_requests,  \* priv->update_requests
    pending_calls,    \* priv->pending_calls: calls are always prepended, so
                      \* the list is this set in decreasing order
    status,           \* Progress of each asynchronous call
    kind,             \* What each call asks: "update" or "commit"
    reply,            \* The backend's reply to each call
    idle,             \* Number of queued object_changed_idle sources
    stack,            \* Frames of the code that runs, innermost first
    derailed,         \* Freed memory has been read: anything may follow
    failed            \* History: update requests that ended without an update

calls == <<status, kind, reply>>
vars == <<online, alive, app_ref, refs, updated, update_requests, pending_calls,
          status, kind, reply, idle, stack, derailed, failed>>

Statuses ==
    {"unsent",     \* not made yet
     "dropped",    \* made without a connection: run_message_async returned
     "stuck",      \* made on a lost connection: a NULL pending call in the list
     "sent", "replied",
     "handled",    \* async_message_cb took the reply and emits a signal
     "notified",   \* its OobsObjectAsyncFunc runs
     "done"}

Pcs == {"handler",   \* user code connected to a signal
        "func",      \* user code, an OobsObjectAsyncFunc
        "finish",    \* async_message_cb, after the reply was handled
        "release",   \* async_message_cb, after func
        "walk",      \* g_list_foreach in oobs_object_process_requests
        "ensured",   \* oobs_object_ensure_update, about to return
        "commit",    \* do_commit, about to emit "committed"
        "return"}    \* do_commit, about to return

\* call: the call served, or the node a walk visits next; since: the calls
\* pending when a walk began.
Frames == [pc : Pcs, call : Calls \cup {NoCall}, since : SUBSET Calls]

Frame(pc, c) == [pc |-> pc, call |-> c, since |-> {}]
WalkFrame(c, s) == [pc |-> "walk", call |-> c, since |-> s]
Handler == Frame("handler", NoCall)

\* The frame f runs on top of the frames s.
Push(f, s) == <<f>> \o s

Running(pc) == stack # <<>> /\ Head(stack).pc = pc
InUserCode == Running("handler") \/ Running("func")
UserDepth == Cardinality({i \in 1..Len(stack) : stack[i].pc \in {"handler", "func"}})

TypeOK ==
    /\ online \in BOOLEAN
    /\ alive \in BOOLEAN
    /\ app_ref \in BOOLEAN
    /\ refs \in Nat
    /\ updated \in BOOLEAN
    /\ update_requests \in Nat
    /\ pending_calls \in SUBSET Calls
    /\ status \in [Calls -> Statuses]
    /\ kind \in [Calls -> {"update", "commit"}]
    /\ reply \in [Calls -> {"ok", "error"}]
    /\ idle \in Nat
    /\ stack \in Seq(Frames)
    /\ derailed \in BOOLEAN
    /\ failed \in Nat

Init ==
    /\ online = Connected
    /\ alive = TRUE
    /\ app_ref = TRUE
    /\ refs = 1
    /\ updated = FALSE
    /\ update_requests = 0
    /\ pending_calls = {}
    /\ status = [c \in Calls |-> "unsent"]
    /\ kind = [c \in Calls |-> "commit"]
    /\ reply = [c \in Calls |-> "error"]
    /\ idle = 0
    /\ stack = <<>>
    /\ derailed = FALSE
    /\ failed = 0

-----------------------------------------------------------------------------
(* References *)

\* Mutant: no test that an idle source was found.
FinalizeAlways ==
    /\ alive' = FALSE
    /\ pending_calls' = {}
    /\ idle' = idle - 1

\* oobs_object_finalize: cancel the pending calls, remove one idle source.
Finalize ==
    /\ alive' = FALSE
    /\ pending_calls' = {}
    /\ idle' = IF idle > 0 THEN idle - 1 ELSE 0

\* g_object_unref
Unref ==
    /\ refs' = refs - 1
    /\ IF refs = 1 THEN Finalize ELSE UNCHANGED <<alive, pending_calls, idle>>

\* g_signal_emit holds a reference until the handlers have returned.
Emit(below) ==
    /\ refs' = refs + 1
    /\ stack' = Push(Handler, below)

-----------------------------------------------------------------------------
(* Where the application may act *)

\* Code that owns a reference, or was given the object, calls the library.
MayCall ==
    /\ alive
    /\ UserDepth <= MaxNest
    /\ (stack = <<>> /\ app_ref) \/ InUserCode

\* The main loop runs, or user code runs a nested one.
MainLoop ==
    /\ alive
    /\ UserDepth <= MaxNest
    /\ stack = <<>> \/ InUserCode

-----------------------------------------------------------------------------
(* Asynchronous calls *)

IsNext(c) == status[c] = "unsent" /\ \A d \in 1..(c - 1) : status[d] # "unsent"

\* Mutant: the callback data does not own a reference to the object.
RunMessageAsyncNoRef(c, k) ==
    /\ IsNext(c)
    /\ kind' = [kind EXCEPT ![c] = k]
    /\ status' = [status EXCEPT ![c] = "sent"]
    /\ pending_calls' = pending_calls \cup {c}
    /\ UNCHANGED <<refs, reply, online, alive, app_ref, updated, idle, stack, derailed>>

\* run_message_async.  oobs_session_get_connected only tests that there was a
\* connection: on one that is lost libdbus sends nothing and gives a NULL
\* pending call, which is put in the list, with a reference, all the same.
RunMessageAsync(c, k) ==
    /\ IsNext(c)
    /\ kind' = [kind EXCEPT ![c] = k]
    /\ IF Connected
       THEN /\ status' = [status EXCEPT ![c] = IF online THEN "sent" ELSE "stuck"]
            /\ pending_calls' = pending_calls \cup {c}
            /\ refs' = refs + 1
       ELSE /\ status' = [status EXCEPT ![c] = "dropped"]
            /\ UNCHANGED <<pending_calls, refs>>
    /\ UNCHANGED <<reply, online, alive, app_ref, updated, idle, stack, derailed>>

UpdateAsync(c) ==
    /\ MayCall
    /\ update_requests < MaxRequests
    /\ update_requests' = update_requests + 1
    /\ failed' = IF online THEN failed ELSE failed + 1
    /\ RunMessageAsync(c, "update")

\* do_commit_async, for "set", "add" and "del"
CommitAsync(c) ==
    /\ MayCall
    /\ RunMessageAsync(c, "commit")
    /\ UNCHANGED <<update_requests, failed>>

\* The backend, or the bus on its behalf, answers; libdbus queues the reply,
\* and makes up an error itself for each call that waits on a lost connection.
BackendReply(c) ==
    /\ status[c] = "sent"
    /\ status' = [status EXCEPT ![c] = "replied"]
    /\ \E r \in (IF online THEN Replies ELSE {"error"}) : reply' = [reply EXCEPT ![c] = r]
    /\ UNCHANGED <<online, alive, app_ref, refs, updated, update_requests,
                   pending_calls, kind, idle, stack, derailed, failed>>

\* Mutant: the request is not counted out.
DecrementForgotten(n) == n

\* update_object_from_message on the count, guarded as in the code.
Decrement(n) == IF n = 0 THEN 0 ELSE n - 1

\* Mutant: an error reply returns early, before func and the release.
HandleReplyEarlyReturn(c, below) ==
    /\ status' = [status EXCEPT ![c] = "handled"]
    /\ IF reply[c] = "ok"
       THEN Emit(Push(Frame("finish", c), below))
       ELSE stack' = below /\ UNCHANGED refs
    /\ IF reply[c] = "ok" /\ kind[c] = "update"
       THEN updated' = TRUE /\ update_requests' = Decrement(update_requests)
       ELSE UNCHANGED <<updated, update_requests>>
    /\ UNCHANGED <<online, alive, app_ref, pending_calls, kind, reply, idle, derailed,
                   failed>>

\* async_message_cb up to the return of the signal handlers it runs.
HandleReply(c, below) ==
    LET frames == Push(Frame("finish", c), below) IN
    /\ status' = [status EXCEPT ![c] = "handled"]
    /\ IF reply[c] = "ok"
       THEN Emit(frames)
       ELSE stack' = frames /\ UNCHANGED refs
    /\ IF reply[c] = "ok" /\ kind[c] = "update"
       THEN updated' = TRUE /\ update_requests' = Decrement(update_requests)
       ELSE UNCHANGED <<updated, update_requests>>
    /\ failed' = IF kind[c] = "update" /\ reply[c] # "ok" THEN failed + 1 ELSE failed
    /\ UNCHANGED <<online, alive, app_ref, pending_calls, kind, reply, idle, derailed>>

\* The main loop dispatches a queued reply.
DispatchReply(c) ==
    /\ MainLoop
    /\ status[c] = "replied"
    /\ HandleReply(c, stack)

\* Mutant: the call stays in pending_calls.
FinishKeepsNode ==
    /\ Running("finish")
    /\ LET c == Head(stack).call IN
        /\ status' = [status EXCEPT ![c] = "notified"]
        /\ stack' = Push(Frame("func", c), Push(Frame("release", c), Tail(stack)))
    /\ UNCHANGED <<online, alive, app_ref, refs, updated, update_requests,
                   pending_calls, kind, reply, idle, derailed, failed>>

\* async_message_cb forgets the call, then runs its func.
Finish ==
    /\ Running("finish")
    /\ LET c == Head(stack).call IN
        /\ pending_calls' = pending_calls \ {c}
        /\ status' = [status EXCEPT ![c] = "notified"]
        /\ stack' = Push(Frame("func", c), Push(Frame("release", c), Tail(stack)))
    /\ UNCHANGED <<online, alive, app_ref, refs, updated, update_requests, kind, reply,
                   idle, derailed, failed>>

\* async_message_cb drops the reference taken by run_message_async.
Release ==
    /\ Running("release")
    /\ status' = [status EXCEPT ![Head(stack).call] = "done"]
    /\ stack' = Tail(stack)
    /\ Unref
    /\ UNCHANGED <<online, app_ref, updated, update_requests, kind, reply, derailed,
                   failed>>

-----------------------------------------------------------------------------
(* Synchronous calls.  run_message blocks in libdbus: no callback runs.    *)

\* oobs_object_update, leaving the frames "below" under its handlers.
RunUpdate(below) ==
    \/ /\ online /\ "ok" \in Replies
       /\ updated' = TRUE
       /\ update_requests' = Decrement(update_requests + 1)
       /\ Emit(below)
       /\ UNCHANGED failed
    \/ /\ ~online \/ "error" \in Replies
       /\ update_requests < MaxRequests
       /\ update_requests' = update_requests + 1
       /\ failed' = failed + 1
       /\ stack' = below
       /\ UNCHANGED <<updated, refs>>

Update ==
    /\ MayCall
    /\ RunUpdate(stack)
    /\ UNCHANGED <<online, alive, app_ref, pending_calls, calls, idle, derailed>>

\* do_commit when the reply is a struct: the object updates itself from it.
CommitStruct ==
    /\ MayCall
    /\ online /\ "ok" \in Replies
    /\ updated' = TRUE
    /\ update_requests' = Decrement(update_requests + 1)
    /\ Emit(Push(Frame("commit", NoCall), stack))
    /\ UNCHANGED <<online, alive, app_ref, pending_calls, calls, idle, derailed, failed>>

\* do_commit otherwise, whether the commit succeeded, failed or was not sent.
CommitPlain ==
    /\ MayCall
    /\ Emit(Push(Frame("return", NoCall), stack))
    /\ UNCHANGED <<online, alive, app_ref, updated, update_requests, pending_calls,
                   calls, idle, derailed, failed>>

\* do_commit emits "committed" once the handlers of "updated" are through.
CommitEmit ==
    /\ Running("commit")
    /\ alive
    /\ Emit(Push(Frame("return", NoCall), Tail(stack)))
    /\ UNCHANGED <<online, alive, app_ref, updated, update_requests, pending_calls,
                   calls, idle, derailed, failed>>

\* It does so even if those handlers have dropped the last reference.
CommitDerail ==
    /\ Running("commit")
    /\ ~alive /\ ~derailed
    /\ derailed' = TRUE
    /\ UNCHANGED <<online, alive, app_ref, refs, updated, update_requests,
                   pending_calls, calls, idle, stack, failed>>

-----------------------------------------------------------------------------
(* Waiting for the pending calls *)

\* The node after c in the list, NoCall at its end.
NodeBelow(c) ==
    LET lower == {d \in pending_calls : d < c} IN
    IF lower = {} THEN NoCall ELSE CHOOSE d \in lower : \A e \in lower : e <= d

\* Mutant: the walk starts at the second node.
ListHeadNext == NodeBelow(NodeBelow(MaxCalls + 1))

ListHead == NodeBelow(MaxCalls + 1)

ProcessRequests ==
    /\ MayCall
    /\ stack' = Push(WalkFrame(ListHead, pending_calls), stack)
    /\ UNCHANGED <<online, alive, app_ref, refs, updated, update_requests,
                   pending_calls, calls, idle, derailed, failed>>

\* g_list_foreach reads node->next, then dbus_pending_call_block waits for the
\* reply and runs async_message_cb, unless the call has completed or is NULL.
WalkBlock ==
    /\ Running("walk")
    /\ LET c == Head(stack).call
           rest == Push(WalkFrame(NodeBelow(c), Head(stack).since), Tail(stack))
       IN /\ c \in pending_calls
          /\ \/ status[c] = "replied" /\ HandleReply(c, rest)
             \/ /\ status[c] \in {"handled", "stuck"}
                /\ stack' = rest
                /\ UNCHANGED <<online, alive, app_ref, refs, updated, update_requests,
                               pending_calls, calls, idle, derailed, failed>>

\* The node saved as next was removed and freed while user code ran.
WalkDerail ==
    /\ Running("walk")
    /\ ~derailed
    /\ Head(stack).call \notin pending_calls \cup {NoCall}
    /\ derailed' = TRUE
    /\ UNCHANGED <<online, alive, app_ref, refs, updated, update_requests,
                   pending_calls, calls, idle, stack, failed>>

\* oobs_object_ensure_update on an object that has not been updated
EnsureUpdate ==
    /\ MayCall
    /\ ~updated
    /\ LET below == Push(Frame("ensured", NoCall), stack) IN
       IF update_requests > 0
       THEN /\ stack' = Push(WalkFrame(ListHead, pending_calls), below)
            /\ UNCHANGED <<updated, update_requests, refs, failed>>
       ELSE RunUpdate(below)
    /\ UNCHANGED <<online, alive, app_ref, pending_calls, calls, idle, derailed>>

-----------------------------------------------------------------------------
(* Returning *)

\* The signal handlers return to g_signal_emit, which drops its reference.
HandlerReturn ==
    /\ Running("handler")
    /\ stack' = Tail(stack)
    /\ Unref
    /\ UNCHANGED <<online, app_ref, updated, update_requests, calls, derailed, failed>>

\* The end of a func, of a walk, of do_commit or of ensure_update.
Return ==
    /\ \/ Running("func") \/ Running("ensured") \/ Running("return")
       \/ Running("walk") /\ Head(stack).call = NoCall
    /\ stack' = Tail(stack)
    /\ UNCHANGED <<online, alive, app_ref, refs, updated, update_requests,
                   pending_calls, calls, idle, derailed, failed>>

-----------------------------------------------------------------------------
(* The "changed" signal and the application's reference *)

\* Mutant: a source is added without removing the one that waits.
RequeueOnly(n) == n + 1

\* changed_signal_filter: g_idle_remove_by_data, then g_idle_add
Requeue(n) == (IF n > 0 THEN n - 1 ELSE 0) + 1

ChangedSignal ==
    /\ MainLoop
    /\ Connected
    /\ idle' = Requeue(idle)
    /\ UNCHANGED <<online, alive, app_ref, refs, updated, update_requests,
                   pending_calls, calls, stack, derailed, failed>>

\* object_changed_idle, removed from the main loop as it returns FALSE
ChangedIdle ==
    /\ MainLoop
    /\ idle > 0
    /\ idle' = idle - 1
    /\ Emit(stack)
    /\ UNCHANGED <<online, alive, app_ref, updated, update_requests, pending_calls,
                   calls, derailed, failed>>

\* User code may drop the application's reference at any time, during a call
\* of the library that this reference has been used for too.
AppUnref ==
    /\ app_ref /\ alive
    /\ stack = <<>> \/ InUserCode
    /\ app_ref' = FALSE
    /\ Unref
    /\ UNCHANGED <<online, updated, update_requests, calls, stack, derailed, failed>>

\* User code that was given the object keeps it.
AppRef ==
    /\ ~app_ref /\ alive
    /\ InUserCode
    /\ app_ref' = TRUE
    /\ refs' = refs + 1
    /\ UNCHANGED <<online, alive, updated, update_requests, pending_calls, calls, idle,
                   stack, derailed, failed>>

\* The bus goes away.  libdbus ends the program once it has been told so, as
\* it does by default for dbus_bus_get; until then the program runs on.
Disconnect ==
    /\ online
    /\ online' = FALSE
    /\ UNCHANGED <<alive, app_ref, refs, updated, update_requests, pending_calls,
                   calls, idle, stack, derailed, failed>>

\* Nothing is left to happen to a finalized object, or after undefined behaviour.
Over ==
    /\ (~alive /\ stack = <<>>) \/ derailed
    /\ UNCHANGED vars

-----------------------------------------------------------------------------
(* Steps of the library that need neither the user, the backend nor the loop *)
LibraryStep ==
    \/ Finish \/ Release \/ CommitEmit \/ CommitDerail
    \/ WalkBlock \/ WalkDerail
    \/ ~InUserCode /\ Return

UserReturn == HandlerReturn \/ (Running("func") /\ Return)

Next ==
    \/ \E c \in Calls :
        UpdateAsync(c) \/ CommitAsync(c) \/ BackendReply(c) \/ DispatchReply(c)
    \/ Update \/ CommitStruct \/ CommitPlain \/ CommitEmit \/ CommitDerail
    \/ Finish \/ Release \/ HandlerReturn \/ Return
    \/ ProcessRequests \/ WalkBlock \/ WalkDerail \/ EnsureUpdate
    \/ ChangedSignal \/ ChangedIdle \/ AppUnref \/ AppRef
    \/ Disconnect \/ Over

Spec == Init /\ [][Next]_vars

\* The library's own code runs on; every function of the user returns; the
\* backend or the bus answers every message; the main loop starves no source.
Fairness ==
    /\ WF_vars(LibraryStep)
    /\ \A d \in 1..(MaxNest + 1) : SF_vars(UserReturn /\ UserDepth = d)
    /\ \A c \in Calls : WF_vars(BackendReply(c)) /\ SF_vars(DispatchReply(c))

FairSpec == Spec /\ Fairness

-----------------------------------------------------------------------------
(* Properties *)

Outstanding == {c \in Calls : kind[c] = "update" /\ status[c] \in {"sent", "replied"}}

\* update_requests counts the update calls not answered yet and, because no
\* error path gives its count back, every update that has failed: it is
\* therefore never 0 when update_object_from_message decrements it, and the
\* g_critical of that function is unreachable.
RequestCount == update_requests = Cardinality(Outstanding) + failed

\* A call is in pending_calls exactly while it waits for its reply or for the
\* signal handlers its reply runs, or if it has no pending call to wait for: no
\* call is lost, and none that was answered is left behind.
PendingExact ==
    pending_calls = {c \in Calls : status[c] \in {"stuck", "sent", "replied", "handled"}}

\* Who holds a reference: the application, each signal emission under way, and
\* each call from run_message_async to the end of its async_message_cb.
Emissions(s) == {i \in 1..Len(s) : s[i].pc = "handler"}
Holders == {c \in Calls : status[c] \in {"stuck", "sent", "replied", "handled", "notified"}}
RefCount ==
    /\ refs = (IF app_ref THEN 1 ELSE 0) + Cardinality(Emissions(stack))
                 + Cardinality(Holders)
    /\ alive <=> refs > 0

\* An activation of async_message_cb is at the stage st its call records, and
\* no call has two of them; func runs right above the activation that called it.
CallbackFrames(s, st) ==
    \A i \in 1..Len(s) :
        /\ s[i].pc = "finish" => s[i].call \in Calls /\ st[s[i].call] = "handled"
        /\ s[i].pc = "release" => s[i].call \in Calls /\ st[s[i].call] = "notified"
        /\ s[i].pc = "func" => i < Len(s) /\ s[i + 1].pc = "release"
        /\ \A j \in 1..Len(s) :
              /\ s[i].pc \in {"finish", "release"} /\ s[j].pc \in {"finish", "release"}
              /\ s[i].call = s[j].call
              => i = j

\* The object is finalized only when no request can touch it any more: all are
\* answered (the cancelling loop of finalize finds nothing) and no activation
\* of async_message_cb nor emission is under way.  What may be left to run is
\* a walk, which reads nodes and not the object, and two functions that return;
\* and do_commit, which does use the object: see CommitEmits.
NoRequestOutlives ==
    ~alive => /\ \A c \in Calls : status[c] \in {"unsent", "dropped", "done"}
              /\ \A i \in 1..Len(stack) :
                    stack[i].pc \in {"ensured", "return", "walk", "commit"}

\* ::committed is emitted "after the object has been updated or committed"
\* (ChangeLog:198), on an object that is still there.
CommitEmits == Running("commit") => alive

\* However many "changed" signals arrive, one idle source at most waits, so
\* that finalize, which removes one, leaves none to run on a freed object.
NoStaleIdle == idle <= 1 /\ (~alive => idle = 0)

\* When oobs_object_process_requests returns, every call that was pending
\* when it was called has had its reply handled, those apart that have none to
\* wait for because the connection was lost.
WalkComplete ==
    Running("walk") /\ Head(stack).call = NoCall =>
        \A c \in Head(stack).since : status[c] \notin {"sent", "replied"}

\* "Blocks until all pending asynchronous requests to this object have been
\* processed" (oobs-object.c:835), whatever user code does meanwhile: a walk
\* neither returns nor runs off the list while one of them waits.
BlocksUntilDone ==
    Running("walk") /\ (Head(stack).call = NoCall \/ derailed) =>
        \A c \in Head(stack).since : status[c] \notin {"sent", "replied"}

\* oobs_object_ensure_update returns on an object that has been updated,
\* unless an update request, this one or an earlier one, has failed.
EnsureWorks == Running("ensured") => updated \/ failed > 0

\* ensure_update takes update_requests > 0 to mean that "it's in the middle of
\* asynchronous update request(s)" (oobs-object.c:889): one of them is among
\* the calls it then waits for.
CountMeansPending ==
    \A i \in 1..(Len(stack) - 1) :
        stack[i].pc = "walk" /\ stack[i + 1].pc = "ensured" =>
            \E c \in stack[i].since : kind[c] = "update"

\* The promises of AsyncRequests: see there.
StageOf(s) ==
    CASE s = "unsent" -> "none"
      [] s \in {"dropped", "stuck", "sent", "replied", "handled"} -> "outstanding"
      [] s = "notified" -> "answering"
      [] s = "done" -> "over"

Promise == INSTANCE AsyncRequests WITH
    Requests <- Calls,
    stage <- [c \in Calls |-> StageOf(status[c])],
    object <- alive

KeepsPromise == Promise!Spec

\* Every asynchronous call that is sent has its func run and is forgotten, as
\* long as the connection lasts and no freed memory has been read before.
FuncRuns ==
    \A c \in Calls : status[c] = "sent" ~> (status[c] = "done" \/ derailed \/ ~online)

\* "@func: An OobsObjectAsyncFunc that will be called when the asynchronous
\* operation has ended" (oobs-object.c:798): for every call that returned
\* OOBS_RESULT_OK, the ones that could not be sent included.
FuncCalled ==
    \A c \in Calls : status[c] # "unsent" ~> (status[c] = "done" \/ derailed)
=============================================================================
