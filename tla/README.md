# Formal models of liboobs

liboobs is a C library, single threaded and built on GObject, through which
desktop tools read and change the configuration of a system: users, groups,
services, network interfaces, time, shares. It talks over D-Bus to the *system
tools backends*, which own the files. This directory holds TLA+ models of it,
their TLC configurations and TLAPS proofs. All code is in `src/oobs/`; file
names below are relative to that directory.

Run everything from this directory: `tlc -config X.cfg M` for a run of the table
below, `tlapm M.tla` for a module of proofs.

## 1. The system

| Part | State | Operations | Correct when |
|---|---|---|---|
| **OobsObject** (`oobs-object.c`), the base class of every configuration object | `updated`, `update_requests`, `pending_calls`, the GObject reference count, a queued "changed" idle source | synchronous `update`, `commit`, `add`, `delete`; their asynchronous forms; `process_requests`, `ensure_update`; reply callback, "changed" filter, finalization | counts, references and the pending list agree; every request is answered once, on a live object; `ensure_update` leaves the object updated |
| **OobsList** (`oobs-list.c`) | a `GList`, a stamp, a lock, a reference per element; iterators live in the caller | append, prepend, insert before/after, remove, set, clear, iterate, lock | links are those of one sequence; references balance; outdated iterators are refused |
| **OobsUsersConfig**, **OobsGroupsConfig**, **OobsUser**, **OobsGroup** | the two lists, the default group, and in each group the member names and the users they stand for | update, commit, add/delete, membership, free IDs, look-ups | each cache follows the other configuration; commits write no user that does not exist and lose nobody |
| **OobsUser**, **OobsSelfConfig** | the fields of an account, a password to be set, whether it is empty; a reference to the user that runs the program | setters, update, commit; following the users configuration | a commit gives back what was read or set, and each password once; the user denoted has the caller's UID |
| **OobsSession** | connection, platform, supported platforms, list of objects | connect, platform calls, commit and process all objects | results and platform agree with the backend |
| **OobsIfacesConfig** and the interfaces | five lists, a hash table by name without references, a netlink watch (and HAL) | update, commit, monitor callback | the table never leads to a freed interface |
| **OobsServicesConfig**, **OobsService** | runlevels, services keyed by pointers to runlevels | update, commit, per-runlevel configuration | services and runlevels are of the same update |
| **OobsTimeConfig** | a time that may be set, a time zone | get/set, commit | a time that was set is committed or kept; dates are checked |
| **NTP**, **hosts**, **NFS**, **SMB** and their servers, static hosts and shares | lists, scalars and a table of passwords, replaced by an update | update, setters, changes of lists, commit | a commit asks for what was read and set, and nothing else |

**How they interact.** There are no threads. Concurrency comes from the main
loop and from re-entrance: an asynchronous call returns at once, and its reply
arrives through `async_message_cb` when the main loop dispatches it, or when
someone blocks on it in `oobs_object_process_requests`. Every signal ("updated",
"committed", "changed") and every `OobsObjectAsyncFunc` runs code of the user,
which may call any function of the library, drop the last reference, or run a
nested main loop. Configurations are joined by signals: the users
configuration refreshes its default group when the groups are updated, each
group refreshes its members when the users are, OobsSelfConfig its user; and by
calls: `oobs_groups_config_get_groups` ensures that the *users* have been
updated, and the other way round. The backend changes files, reports changes by
signals, and may answer any call with an error.

**What is hard.** Replies nested in a walk over the list they remove themselves
from; counts given back on some paths only; objects finalized below frames that
use them; iterators that outlive their nodes; pointers that own no reference;
answers read by the backend before a change and applied after it; unsigned
arithmetic at the ends of its type. `PROJECT.json` lists each hazard at its line,
with the properties that cover it or the reason why none does. The
repository has no tests.

## 2. Modules

| Module | Models | Proofs |
|---|---|---|
| `OobsObject` | one OobsObject and everything that may happen to it | `OobsObjectProofs` |
| `AsyncRequests` | abstract: what asynchronous calls promise | |
| `OobsList` | one OobsList and the iterators on it | `OobsListProofs` |
| `ElementList` | abstract: a lockable sequence | |
| `FreeId` | `oobs_users_config_find_free_uid`, `oobs_groups_config_find_free_gid` | `UsersGroupsProofs` |
| `UsersGroups` | the users and groups configurations, their objects, the backend and the system's files | `UsersGroupsProofs` |
| `IfacesConfig` | the network interfaces, the netlink monitor, the backend and the kernel's links | `IfacesConfigProofs` |
| `ServicesConfig` | the services, the runlevels their tables are keyed by, and the backend | `ServicesConfigProofs` |
| `Session` | the connection and the platform | `TimeConfigProofs` |
| `TimeConfig` | clock and time zone, composed with `Session` | `TimeConfigProofs` |
| `Accounts` | the users one by one, and OobsSelfConfig | `AccountsProofs` |
| `Wire` | strings, numbers and lists in messages; changes of a list | `ListConfigsProofs` |
| `NTPConfig`, `HostsConfig`, `SharesConfig` | the state of these configurations, and each function on it, as operators | `ListConfigsProofs` |
| `ListConfigs` | the state machine over the three, with their backends | `ListConfigsProofs` |
| `ConfigDraft` | abstract: what a configuration object promises | |

### OobsObject

The program is single threaded, so control is a **stack of frames**. The head is
the code that runs; the empty stack is the outermost main loop. A frame is put
on the stack wherever the C code calls something that may run code of the user:

| frame | C code |
|---|---|
| `handler` | handlers of a signal, inside `g_signal_emit` (which owns a reference) |
| `func` | the `OobsObjectAsyncFunc` called by `async_message_cb` |
| `finish`, `release` | `async_message_cb` after the emission, and after the function |
| `walk` | `g_list_foreach` in `oobs_object_process_requests`, with the node it has saved as next |
| `ensured`, `commit`, `return` | `oobs_object_ensure_update` and `do_commit` where they go on after an emission |

Each asynchronous call has a status from `unsent` to `done`. `pending_calls` is a
set of call numbers: calls are always prepended, so the list is that set in
decreasing order. `failed` is history: the updates that ended without one.
`derailed` records undefined behaviour, a read of a freed list node (`WalkDerail`)
or an emission on a finalized object (`CommitDerail`); nothing is said of what
follows. User code may run a nested main loop, drop the application's reference, or begin
a walk in any handler or function, whatever is on the stack below it.

The bus may go away (`Disconnect`): what waits is answered by libdbus with an error, a
synchronous call fails, and an asynchronous one is put in the list with a NULL
pending call (`stuck`), as `oobs_session_get_connected` only knows whether there
ever was a connection. Without one to begin with, the call is `dropped`. libdbus ends the
program when it processes the loss (`dbus_bus_get` sets `exit_on_disconnect`), or on a
NULL pending call that is blocked on: a program that ends shows no more than a
prefix of what the model does.

A synchronous call blocks inside libdbus, where no callback of the library runs,
so it is one step up to its emission. A commit is `CommitStruct` when the reply
is a struct the object updates itself from, and `CommitPlain` otherwise: "committed"
is emitted in every case. `AccessDenied` is one of the errors, since it changes the
result only.

`AsyncRequests` is what a user may rely on: an accepted request is answered
once, and the object lives from the request until its function has returned.
`KeepsPromise` says that OobsObject implements it, under the mapping `StageOf`.

### OobsList

`next`, `prev` and `data` are the fields of the nodes; `Reachable` is what a walk
from the head meets (`g_list_position`, and so `check_iter`). The allocator is
as unfriendly as it may be: any free node is given to a new element, one that an
iterator still points to included. A refused call is a stuttering step. The
loops of `oobs_list_clear` and finalization are single steps, because nothing they call
runs code of the user (a finalized element could; that is left out).
`insert_after` on the last element, `insert_before` on the first (lines 405 and 454) and
`set` with an iterator that `iter_next` or `remove` has left at NULL (543) follow a
NULL pointer: `Crash` ends the behaviour. `order` and `lost` are history: the
sequence the list should be, and what became of the element of an iterator.

### FreeId

The two functions are the same text over two lists. The first loop looks for the
highest ID of the range below its maximum, starting at the minimum minus one;
the ID after it is tried; otherwise a scan starts at the minimum. A minimum above the
maximum is refused (931), but not that of the default range, which is put in
after that test (935) and which nothing validates: `default` is any two IDs. `Pred` and
`Succ` wrap around at `MaxId`, as `uid_t` and `gid_t` do. One step is one iteration.

### UsersGroups

The record `lib` is the state of the library; `sys_*` the files behind the backend;
`get_*` an answer to an asynchronous update that the main loop has not
dispatched. Objects are named by login or group name and a copy number: an
update makes new objects while groups, or leaked references, may keep old ones.
`Settle` finalizes what nobody references and turns a pointer to it into
`Dangling`. Where the code emits "updated", the two handlers run in the same step.
The action of each public function is the whole function: `AddUser` includes the
update of the groups at its end, `DeleteUser` the removal from every group and the
update of the users that `oobs_groups_config_get_groups` may force, `DeleteGroup`
the references it never drops.

Named abstractions:

- Handlers that the application connects to these two objects do not call them
  back (OobsObject has the nesting).
- The application passes objects that are in the lists, not objects it kept across an
  update (see the hazard at `oobs-group.c:585`).
- The backend does what it is asked; a call that fails returns early without
  touching the library, so nothing is lost by leaving it out. The exception is the
  update of the groups in `AddUser` (`oobs-usersconfig.c:468`), a second call, which may
  fail after the first has succeeded.
- `CommitUsers` with a dangling default group reads what was the name of a group (385): any
  name, or none.
- When a user is deleted the backend removes its name from the groups, and when
  one is added it may create a group with it, as `oobs-usersconfig.c:466` says.
- Nobody else changes the files, but for an administrator who may leave the
  default group unset.
- An asynchronous update takes its snapshot when it is sent: taking it later is
  the behaviour in which the call is made later.

### IfacesConfig

Two sources tell the library about interfaces: answers to updates, which replace
every `OobsIface`, and netlink messages (`events`), which the monitor takes in turn
from the main loop and applies through the table `priv->ifaces`. The table owns no
references; `table` is the set of its keys, and a key that is not `Live` is a pointer
to freed memory, where `crashed` ends what the library does (so does the hash of a NULL
name). `Created` is `create_iface_from_message` for Ethernet and PPP interfaces: a pppoe
connection looks its Ethernet interface up in the table that is being filled,
which is why `CreateAll` reads the Ethernet lists first. `Sent` is
`create_dbus_struct_from_iface`, which sends empty strings for what
`oobs_iface_get_configured` denies. A wireless interface (`Wireless`) is an Ethernet one that
needs an ESSID to be configured. The network and broadcast addresses of an Ethernet
interface (one flag, `network`) are skipped by an update and erased by a commit: what the
application sets of them is kept in the object and never sent.

Named abstractions: IrLAN interfaces stand with the Ethernet ones; PLIP interfaces, of two plain
addresses, are left out, as are `isdn` and `gprs` connections, whose tests are like that of a
modem, and the keys of wireless networks, which no test depends on. An ESSID is there or not.
`complete` is one flag for the address and netmask, or the login and phone number. Every method an
update reads is among the available ones. The application adds no interfaces, and an interface it
keeps from before an update is in no list and no table, so objects go by name. The backend writes
the interfaces it is sent, brings links up and down as told, and leaves the others. `read`,
`edited`, `touched`, `removed` and `missed` are history.

### ServicesConfig

A runlevel is the address of an `OobsServicesRunlevel` (`Cells`), and a service is a
partial function from addresses, its hash table. `Allocated` frees the old list before
it makes the new one, so that a new runlevel may lie where an old one was, under
another name. `Loaded` is `oobs_services_config_update`; `Sent` is
`create_dbus_struct_from_service_runlevels` with what the backend does with it. The
application may keep one service across an update (`keep`, then `old`) and commit it:
its table then means whatever lies at these addresses, and nothing is said of what it
writes. `UpdateService` is `oobs_object_update` on a single service, whose parser
uses an uninitialised iterator: it does nothing or ends the process.

Named abstractions: every service has a name; the application takes runlevels and
services, but for the one it keeps, afresh after each update; what the backend does
not list of a service counts as stopped with priority 0.

### Session and TimeConfig

`Session` has the calls about platforms, each with its outcomes on the bus (a reply, one of two
errors the code tells apart, another error); `trusted` is history. TimeConfig EXTENDS it and
shares its connection. A date is set in UTC or in local time, checked (`DateIsSane`), turned into
a time (`UnixTimes`), kept, and turned back when it is read or committed. A time is a number of
quarters of an hour, the unit of the offsets of time zones: minutes and seconds are checked and
converted as hours are. `mktime`, `gmtime` and `localtime` are external, and are modelled over a
calendar defined on its own (`DayNumber`, with the leap days of Gregory), so that the tables of
the code are checked against it. One zone has summer time: a local time is then skipped, and
another comes twice. A commit forgets the time when its message is built (`Built`), whatever
becomes of it.

### Accounts

`accounts` is the password file behind the backend, `list` and `user` the objects the
library has made of it, `self` the OobsSelfConfig singleton. `Load` is an update of the
users followed by the handler of OobsSelfConfig, which looks its user up again.
`Held` finalizes the objects in neither place. `read` and `edited` are history: what a commit
may write is an account as it was read, with the edits. One field stands
for those that OobsSelfConfig may change (GECOS and locale) and one for the others.
A password may be empty. An update reads whether it is (`empty`), and every commit of the
user says so again: an empty string for a password keeps the one there is, unless that
flag is set, which forces the empty one (`PasswordsSaid`; what the backend makes of a
password *and* the flag is left open). A commit that fails has forgotten the
password that was to be sent (`"lost"` in `edited`).

Named abstractions: the groups, whose update `oobs_users_config_get_users` nests in that
handler, are the subject of UsersGroups; replies to asynchronous commits of a user,
which only delay `CommitUser`, are left out; so are accounts with a UID above
`OOBS_MAX_UID`.

### ListConfigs and its parts

NTP servers, hosts, NFS shares and SMB shares are read whole and written whole. Their modules hold
no variables: `NTPRead`, `HostsRead`, ... are the update handlers as functions from messages to
states, `NTPSent`, ... the commit handlers, `NTPEdits`, ... the states one call of the application
leads to. `ListConfigs` is the state machine: a system, the object, an asynchronous answer on its
way, other programs. `Request(lib)` is what a commit would ask for now, and under that mapping
`KeepsPromise` says that the objects implement `ConfigDraft`: an update makes the draft what the
system is, a call of the application changes one part of it, a commit asks for it as it is. It
would break if any string, flag or element were lost, moved or invented between the two
directions.

Named abstractions: who frees the strings of `oobs_static_host_set_aliases` and
`oobs_hosts_config_set_dns_servers` (their callers hand over fresh lists, as the
docs ask); commits that fail, which change nothing on either side. `is_wins_server` is a field of
one bit. Values of fields that are not lists come from `Texts`.

## 3. Runs

| Run | Checks | Bounds | Shows |
|---|---|---|---|
| `object` | type, 6 invariants, refinement, `FuncRuns` | 2 calls, 2 requests, user code nested 1 deep below user code | 330 thousand states, with a bus that may go away, nested main loops and walks anywhere; under fairness every call that is sent has its function run, unless the bus goes away or freed memory has been read before |
| `object_count` | `CountMeansPending` | as `object` | **violated**: failed updates are never counted out |
| `object_walk` | `BlocksUntilDone` | 3 calls, 1 request | **violated**: a walk whose next node has been freed goes on with a call still waiting |
| `list` | type, 3 invariants, refinement of `ElementList` | 3 nodes, 2 iterators, 2 objects (1 of the wrong type), 2 stamps | 559 thousand states |
| `free_id` | type, 2 invariants, termination | IDs 0..4, lists up to 5 | 1.3 million states: every range and every list, full ranges, both ends of the type, default ranges of any two IDs |
| `users` | type, 3 invariants, 1 action property | 1 local and 1 foreign user, 2 groups, 2 copies, 2 leaks | 642 thousand states; changes wait for asynchronous answers |
| `users_ghost` | `NoGhostMember` | as `users`, changes overtake answers | **violated**: a stale answer revives a deleted user |
| `ifaces` | type, 3 invariants, 1 action property | 1 wireless and 1 PPP interface, 2 queued messages, 2 changes between updates | 8 million states; changes and commits wait for asynchronous answers |
| `services` | type, 1 invariant, 1 action property | 1 service, 2 runlevels at 3 addresses, priorities 0, 10 and 100, 2 changes | 1.8 million states, addresses interchangeable |
| `accounts` | type, 1 invariant, 1 action property | 2 logins, 2 UIDs, 3 objects, 2 values, 1 password and the empty one, 2 changes | 881 thousand states |
| `time` | type, 2 invariants | dates around 29 February 2024 and 2100, 31 March 2024 at 2 o'clock, and 1969; 2 dates set, 1 tick; 2 platforms | 195 thousand states: dates refused and kept, at the leap days and the summer time |
| `lists` | type, refinement of `ConfigDraft` | lists of 2, 2 names, 1 SMB user, 2 passwords, 2 changes | 471 thousand states over the four configurations |

**Why the bounds are enough.** Two calls give a walk the one whose reply runs user code and a node
after it, or one that is made or answered meanwhile; the three of `object_walk` add a node that is
never come to, and with three the safety of `object` holds as well (4.6 million states). One level
of user code under user code suffices for a nested main loop to handle a reply inside the function
of another, and so to free the node a walk goes on from. Three nodes are the first, a middle and
the last; two iterators are one that is used and one it outdates; one stamp past the first is one
emptying. Five accounts over five IDs fill any range. Two copies are an old and a new object; the
guard `Room` keeps one free. Two groups are one that is deleted or leaked and one that stays. A
PPP interface uses at most one Ethernet interface, which is as good as any if it is wireless, two
messages about one link can contradict each other, and two changes before a commit make a
connection of either type from the other. Three addresses for two runlevels let an update reuse
both, one or none of the old ones. One service suffices, as services meet only in their runlevels.
Two accounts may share the caller's UID, and three objects are a list of two and one that only
OobsSelfConfig holds. Lists of two show an order; each change of a list configuration is compared
with its draft by itself, so that two in a row add little. Every bound is named in a guard:
`MaxCalls`, `MaxRequests`, `MaxNest`, `MaxStamp`, `Copies`, `MaxLeaked`, `MaxEvents`, `MaxEdits`,
`MaxChanges`, `MaxTicks`, `MaxSets`, `Objects`, `MaxLength`, and `Idle` (one asynchronous update
of users or groups at a time).

**Fairness.** `OobsObject` assumes: the library's own code runs on (weak, it is sequential); user
functions return, per depth of nesting (strong, as a nested call may interrupt them); libdbus
answers every message, with an error if the peer or the bus is gone (weak: the timeout given is
`INT_MAX`, so that a backend that lives and never answers is excluded by this assumption, not by
libdbus); and a main loop that runs again and again dispatches a queued reply (strong). `FreeId`
assumes that a function runs on. Deadlock is checked, as final states stutter in an action of
their own (`Over`), except in `ifaces` and `services`, where the process may die and the changes
outside it are bounded, and in `lists`, whose steps may all leave the state as it is.

**What the violated runs say** is in `findings`, with the lines quoted. Each checks what
the repository says of the program; the passing run of the same module checks, next to it,
what the code does guarantee: `WalkComplete` is about walks that come to their end, `NoGhostMember`
about changes that wait.

**Seen, without a run of its own.** `oobs_list_iter_next` does not set its iterator to invalid on
every path that returns FALSE, as line 230 says it does: it leaves it at NULL, and the run `list`
reaches the crash of `oobs_list_set` with it. An interface that the application takes off its list
stays in the table, and the next message about its name reads freed memory (`crashed = "freed"` in
`IfacesConfig`). A pppoe connection whose Ethernet interface was unplugged when an update read it
counts as not configured, so that any later commit erases it on the system: `WasConfigured` leaves
that case out of `ConfigKept`. A change of "active" that has not been committed is undone by any
netlink message about the link.

**Where the code and its documentation part, and no run says so.** Most of these sentences are
definitions at the end of a module, named here, which no run checks and no theorem states. Made the
INVARIANT or PROPERTY of the module's .cfg, each is violated, in the number of states given.
The properties that hold leave these cases out, and say so.

- `CommitEmits` (`OobsObject`, 4): "::committed" is emitted "after the object has been updated or
  committed" (`ChangeLog:198`). When the backend answers a commit with a struct, `do_commit` emits
  "updated" (`oobs-object.c:615`) and then "committed" (620) without a reference of its own: a
  handler that drops the last one leaves the second emission to a finalized object.
  `NoRequestOutlives` leaves `do_commit` out; the model has the emission (`CommitDerail`).
- `FuncCalled` (`OobsObject` with `Connected = FALSE`, 3): the function "will be called when the
  asynchronous operation has ended" (`oobs-object.c:798`). Without a connection the call is
  dropped (476), and on a lost one (484) it is stuck; either way `oobs_object_update_async`
  reports success. `FuncRuns` is about calls that are sent.
- `AnchorInserts` (`OobsList`, 3): `oobs_list_insert_after` "inserts a new element after @anchor"
  (`oobs-list.c:374`), a valid iterator, but not if it points to the last element.
- `HighestPlusOne`, `FirstFree`, `RangeOrMaximum` (`FreeId`, 4, 5 and 3): "the highest used UID in
  the range plus one if @uid_max is not used" (`oobs-usersconfig.c:910`), but with a minimum of 0
  the first free one; "else, the first free UID" (912), but the code does not look whether
  `uid_max` is used and the rule of the highest comes first; "a free UID in the requested range,
  or @uid_max" (916), but for a default range from 1 to 0 the answer is 1. `FollowsHighest` is
  about ranges above 0 whose maximum is free.
- `DefaultIsGroup` (`UsersGroups`, 6): `oobs_users_config_get_default_group` "returns an
  OobsGroup" (`oobs-usersconfig.c:701`), but a default GID of 0 leaves the pointer as it was
  (300), to a group that the next update of the groups finalizes. `DefaultAlive` is about other
  default GIDs.
- `WritesChangesOnly` (`IfacesConfig`, 3): a commit writes "all the changes done"
  (`oobs-object.c:654`), but it also erases the network and broadcast addresses of every Ethernet
  interface (`oobs-ifacesconfig.c:558`). `ConfigKept` says that it gives back everything else.
- `ActiveShown` (`IfacesConfig`, 5): `oobs_iface_get_active` "returns whether the interface is
  active" (`oobs-iface.c:257`), but an answer that the backend gave before a link changed,
  dispatched after the message about it, undoes the message (118, 361), until the next message.
  `ActiveCurrent` excepts these interfaces (`missed`).
- `PasswordKept` (`Accounts`, 4): an empty string "is used to keep the current password"
  (`oobs-user.c:1119`), but the flag of an empty password that was read with the account is sent
  again (566): a password that another program has set since is emptied. `AccountKept` says so.
- `PasswordSent` (`Accounts`, 5): a password that was to be set is gone after a commit that failed
  (`oobs-user.c:625`); the commit that is tried again succeeds without it.
- `SelfFound` (`Accounts`, 3): `oobs_self_config_get_user` "returns the OobsUser that represents
  the requester user" (`oobs-selfconfig.c:246`), but NULL if the users have not been updated,
  since OobsSelfConfig counts as updated all the same (158).
- `Synchronized` (`TimeConfig`, 3): "we've just synchronized with the system date"
  (`oobs-timeconfig.c:260`) is said when the message has been built: a commit that fails forgets
  the time too.
- `oobs_group_update` builds a new group from the reply and drops it (`oobs-group.c:396`): an
  update of a single group leaves the object as it was.
- `oobs_list_remove` "will not be effective [...] if iter doesn't point to an element contained in
  list" (`oobs-list.c:260`). An iterator whose node was removed and then reused is accepted all
  the same, since `check_iter` (168) knows nodes by their address and a removal leaves the stamp
  alone: it denotes another element.
- `oobs_session_process_requests` "blocks until all pending asynchronous requests have been
  processed" (`oobs-session.c:472`), but `session_objects` is never filled: it returns at once.
- After `oobs_session_set_platform` fails, the session's property "platform" is the one that was
  refused (`oobs-session.c:342`), until `oobs_session_get_platform` succeeds.
- An SMB share with a relative path is dropped by an update with a critical warning, and the next
  commit erases it on the system (`oobs-smbconfig.c:257`).

## 4. Proofs

TLAPS proves the following for every value of the constants, under the
assumptions named in the modules, which say what the constants are: their types, that the
sets are finite where a property counts them, and that names of different things differ. Every
invariant, action property and refinement that a passing run checks is proved; so are the
inductive invariants, each of which TLC was given before it was proved. What the violated
runs refute is not assumed away: the exceptions are in the statements.

**OobsObjectProofs.** None of the properties is inductive: that the pending
list is exact depends on the frames on the stack that will still remove a call from it, and that the
object is alive depends on who owns a reference. `Inv` adds to
the types: `RefCount` (the count equals the application's reference, the
emissions on the stack and the calls not completed) and `CallbackFrames`
(an activation of `async_message_cb` is at the stage its call records, and no call has
two). Nothing keeps a reference for a `do_commit` that will still emit, nor a node in the list for
a walk: both may derail, and the invariant holds all the same. For each
part there is a lemma for pushing and for popping a frame, then a lemma per
action, then the theorems:

| Theorem | Property |
|---|---|
| `TypeCorrect` | `TypeOK` |
| `RequestsCounted` | `RequestCount`, so that the critical of line 363 is unreachable |
| `PendingCallsExact` | `PendingExact` |
| `IdleSourceRemoved` | `NoStaleIdle` |
| `ReferencesBalance` | `RefCount` |
| `RequestsHoldObject` | `NoRequestOutlives`: only walks, returns and `do_commit` are left on the stack of a finalized object |

In the second part of the module `RequestsKept` (`KeepsPromise`) maps each step to one of
`AsyncRequests` or a stutter. It needs a connection to begin with, which may be lost: without one
the call is dropped (`NoneDropped`). `WalksComplete` (`WalkComplete`) and `EnsureUpdateWorks`
(`EnsureWorks`) rest on `WalkInv`: the calls that were pending when a walk began and have not been
handled lie before the place it has come to, and `oobs_object_ensure_update` waits above an update
that is tried or among those walked. `WalksComplete` is about walks that come to their end: a
derailed one does not.

**IfacesConfigProofs.** The properties are not inductive alone: that a commit gives back what was
read depends on every untouched interface still being as it was created (`Untouched`), on the kind
of what is listed (`Kinds`), and on the configurations on the system, in the last answer and in
the one that waits (`Configurations`: a PPP connection with a type has a device). What is given
back is all of an interface that was read, the ESSID of a wireless one included, but for the
addresses of the network (`GivesBack`). Lemmas say what creating one list and then all of them
leaves, and what is sent; then one lemma per action. The theorems, from `NamesAssumption`,
`Disjoint` and `BoundsAssumption` (finitely many names, wireless interfaces among the Ethernet
ones, kinds that do not overlap, a NULL that is none of them): `TypeCorrect`, `TableNamesListed`
(`TableCurrent`), `NoNullLookup` (`NeverNullKey`), `CommitGivesBack` (`ConfigKept`).
`ActiveFollowsKernel` (`ActiveCurrent`) has an invariant of its own, `LinkInv`: the last message
about a link that waits tells what the link is, and the answer that waits is right about every
link of which no message has been read since and none waits. Its exceptions are interfaces whose
flag the application has set (`edited`), and those of which messages were read before an older
answer (`missed`). A commit that changes links tells of each of them, in some order, since the
messages it sends are as many as the links.

**OobsListProofs.** The invariant follows the list along `order`, in which each node occurs once
(`Distinct`): the links are those of that sequence (`Chain`), every object is counted
once per element (`Counted`), and an iterator that was there when the list became empty is older
than any element inserted since (`Dated`). That a walk from the head meets the
nodes of `order` and no others (`ChainReachable`) is shown with a least counterexample.
`ChainInsert` and `ChainDrop` are what rewriting two or four links does to
a list. Then one lemma per function, and `TypeCorrect`, `LinksOfOneList` (`WellLinked`),
`ReferencesCounted` (`ElementsHeld`), `IteratorsSound` (`IterSound`) and
`ListIsSequence` (`IsSequence`, the refinement of `ElementList`).

**UsersGroupsProofs.** Two invariants. `Inv` holds for any application: types, nothing is
remembered of an object that is gone, the default group is alive while there is a default GID. It
gives `TypeCorrect` and `PointerAlive` (`DefaultAlive`). `Agreement` needs an application that
changes nothing while an answer waits (`~Overtaking`; the run `users_ghost` shows why): logins and
names of groups are distinct, the listed users exist on the system, each group caches the users
its names stand for, and the names it holds include its foreign members on the system. It gives
`CachesExact` (`CacheExact`), `NoGhostsWritten` (`NoGhostMember`) and `ForeignMembersKept`
(`ForeignKept`).

The module ends with the free IDs (`FreeId`). `SearchInv` has a part per loop: the first keeps the
highest ID visited (`HighestSoFar`), the second that all IDs below `new_id` are used
(`ScannedUsed`), and that a scan of a range above 0 starts only when the maximum is used. The
theorems are `SearchTypeCorrect`, `AnswerGood` (in the range, or the minimum of an empty one, and
free unless the range is full) and `AnswerFollowsHighest` (for ranges above 0 whose maximum is
free), for every width of the type, every list and every default range.

**ServicesConfigProofs.** Tables are keyed by addresses, which mean other runlevels
after an update; the invariant reads every table through the runlevels there are and
compares it, name by name, with what was read and set (`Says`). Theorems: `TypeCorrect`,
`NoFreedRunlevels` (`RunlevelsCurrent`), `CommitGivesBack` (`ConfigKept`).

**AccountsProofs.** What an object holds differs from the account it was read from only in what
has been set since (`EditsKnown`), and OobsSelfConfig counts as updated only once it has been
made. Objects without references are finalized by every change of the list, so the lemmas are
about the list, the object of OobsSelfConfig and the contents of both at once (`BecomeKnown`), or
about one object (`ObjectChange`). From `SetsAssumption`, `FiniteAssumption` and `NullAssumption`:
`TypeCorrect`, `SelfFollowed` (`SelfCurrent`), `CommitsFaithful` (`AccountKept`: a password that
was neither set nor cleared is kept, or made empty again if that is what was read).

**TimeConfigProofs.** The invariant is short: what the application has set is what the library
holds, the time it gave or a time of the date it gave (`AskedIsHeld`), without which a commit
could hand over another date. That a date survives needs the calendar, for any year, and for zones
from 12 hours behind UTC to 14 ahead in winter, by quarters of an hour, with one hour of summer
time (`ZonesAssumption`). `YearOfLaterDay` finds the year of a day among those that `Gmtime` looks
at, the day before 1970 that a zone behind UTC may show apart (`LastDayOf1969`). `LeapStep` and
`Tables` compare the leap years and the table of month lengths in `date_is_sane` with the days as
they are counted; `YearOfDay` and `MonthOfDay` find the one year and month of a day, so that a
date that is accepted is on the calendar (`SaneIsOnCalendar`); `GmtimeInverse` and `DateBack` make
dates and times inverse of each other. For local time, `MktimeSplit` says which times `mktime` may
choose, `SameSide` that none of them lies before 1970 when another does not, so that they are all
kept or all refused, and `LocalDateBack` that each shows the date again, unless no time shows it
(the hour skipped when summer time begins). Theorems: `TypeCorrect`, `DatesKept` (`DatesSurvive`)
and `PlatformsAgree` (`PlatformAgrees`, the invariant of `Session`).

**ListConfigsProofs.** For each function that reads or writes a part of a message one lemma says
what it makes of it, and one that a part which is read and sent is the part it was: strings
(`StringBack`), lists of them (`GetStringsIs`, built back to front and reversed), servers, static
hosts, clients and shares, then whole configurations (`NTPBack`, `HostsBack`, `NFSBack`,
`SMBBack`). Recursive functions are described by induction on the length of the list (`UpTo`);
`AcceptedBack` walks the shares that are read and those of the system side by side, as some are
refused. `EditShape` says that each setter and each change of a list alters one field
of the message a commit would send. The invariant adds to the types that an answer on its way is
of the object's kind. Theorems: `TypeCorrect` and `PromiseKept` (`KeepsPromise`, the
refinement of `ConfigDraft`), for any strings and for lists of any length on the system.

**Model-checked only.** Liveness (`FuncRuns`, `Returns`) and everything with
ENABLED is out of the prover's reach. The properties of the violated runs are refuted by TLC.

## 5. Not modelled

`PROJECT.json` gives the reason for each component. In short: the accessors of
interfaces, whose fields nothing else reads, PLIP interfaces and the keys of wireless networks;
passwords of groups; the results of calls and
the check of authorisations, which change no state; `oobs_session_commit` and
`oobs_session_process_requests`, which do nothing; the watch of HAL devices, which is
compiled on request. Strings are names, and the layout of messages is left out but for
the conversions of `Wire`.

## 6. Plan

What would come next:

1. Results of calls: the unset result of `do_commit` (`oobs-object.c:605`) as a choice of outcomes.
2. **UsersGroups**, extended by updates of a single group, objects kept across
   updates, and the nested update of OobsSelfConfig, in one machine with `Accounts`.
3. **IfacesConfig**, extended by changes while an answer waits and by netlink messages
   lost when the socket overflows.
4. **Proofs** follow the extensions: each changes an invariant named above.
