----------------------------- MODULE UsersGroups -----------------------------
(***************************************************************************)
(* OobsUsersConfig and OobsGroupsConfig, which mirror the users and groups *)
(* of the system and refer to each other: every OobsGroup caches the       *)
(* OobsUsers its member names stand for, and the users configuration       *)
(* caches the default OobsGroup of new users.  Either cache is refreshed   *)
(* by the "updated" signal of the other configuration, while additions,    *)
(* deletions and commits go to the system at once.                         *)
(*                                                                         *)
(* A call of the public API is one step: the handlers an application       *)
(* connects to these two objects are taken not to call them back, and the  *)
(* order of calls within one object is the subject of OobsObject.          *)
(***************************************************************************)
EXTENDS SequencesExt

CONSTANTS
    Locals,     \* The logins of the users the system may have
    Foreign,    \* Logins of users from elsewhere (LDAP): members of groups, not users
    Names,      \* The names of the groups the system may have, one GID each
    Overtaking, \* Whether the application adds, deletes or commits while the
                \* answer to an asynchronous update waits to be dispatched
    Copies,     \* Bound: objects alive at once for one login or one group name
    MaxLeaked,  \* Bound: groups with a reference nobody drops
    NoGid,      \* A default GID of 0
    Null,       \* A NULL pointer
    Dangling    \* A pointer to a finalized object

ASSUME FiniteAssumption == IsFiniteSet(Locals) /\ IsFiniteSet(Names)
ASSUME Disjoint == Locals \cap Foreign = {} /\ NoGid \notin Names
ASSUME OvertakingAssumption == Overtaking \in BOOLEAN
ASSUME BoundsAssumption ==
    Copies \in Nat \ {0} /\ MaxLeaked \in Nat

Logins == Locals \cup Foreign

\* Objects are named by what never changes in them: a login or a group name.
UserObjs == [login : Locals, copy : 1..Copies]
GroupObjs == [name : Names, copy : 1..Copies]

ASSUME PointersAssumption == Null # Dangling /\ {Null, Dangling} \cap GroupObjs = {}

\* The contents of /etc/group: the members of each group there is.
GroupFiles == UNION {[D -> SUBSET Logins] : D \in SUBSET Names}
IsGroupFile(f) == DOMAIN f \subseteq Names /\ \A n \in DOMAIN f : f[n] \subseteq Logins

\* The file with a new group, which has no members.
WithGroup(f, n) == [m \in DOMAIN f \cup {n} |-> IF m = n THEN {} ELSE f[m]]

VARIABLES
    sys_users,     \* The logins in /etc/passwd
    sys_groups,    \* The members of each group in /etc/group
    sys_default,   \* The group new users get
    lib,           \* The state of the library, see Library
    get_users,     \* The answer to an asynchronous update of the users
    get_groups     \* The answer to an asynchronous update of the groups

vars == <<sys_users, sys_groups, sys_default, lib, get_users, get_groups>>
system == <<sys_users, sys_groups, sys_default>>

Library ==
    [users : Seq(UserObjs),                      \* priv->users_list
     groups : Seq(GroupObjs),                    \* priv->groups_list
     usernames : [GroupObjs -> SUBSET Logins],   \* priv->usernames of each group
     members : [GroupObjs -> SUBSET UserObjs],   \* priv->users of each group
     leaked : SUBSET GroupObjs,                  \* groups with a reference nobody drops
     held : SUBSET UserObjs,                     \* users passed to the call that runs
     users_updated : BOOLEAN,
     groups_updated : BOOLEAN,
     default_gid : Names \cup {NoGid},
     default_group : GroupObjs \cup {Null, Dangling}]

TypeOK ==
    /\ sys_users \in SUBSET Locals
    /\ IsGroupFile(sys_groups)
    /\ sys_default \in Names \cup {NoGid}
    /\ lib \in Library
    /\ get_users \in [pending : BOOLEAN, users : SUBSET Locals, default : Names \cup {NoGid}]
    /\ get_groups.pending \in BOOLEAN /\ IsGroupFile(get_groups.groups)

NoUsersGet == [pending |-> FALSE, users |-> {}, default |-> NoGid]
NoGroupsGet == [pending |-> FALSE, groups |-> <<>>]

Init ==
    /\ sys_users \in SUBSET Locals
    /\ sys_groups \in {f \in GroupFiles :
                          \A n \in DOMAIN f : f[n] \subseteq sys_users \cup Foreign}
    /\ sys_default \in Names \cup {NoGid}
    /\ lib = [users |-> <<>>, groups |-> <<>>,
              usernames |-> [g \in GroupObjs |-> {}],
              members |-> [g \in GroupObjs |-> {}],
              leaked |-> {}, held |-> {},
              users_updated |-> FALSE, groups_updated |-> FALSE,
              default_gid |-> NoGid, default_group |-> Null]
    /\ get_users = NoUsersGet
    /\ get_groups = NoGroupsGet

-----------------------------------------------------------------------------
(* Objects *)

LiveGroups(s) == ToSet(s.groups) \cup s.leaked
LiveUsers(s) == ToSet(s.users) \cup s.held \cup UNION {s.members[g] : g \in LiveGroups(s)}

\* A new object for the login or name x, given those alive.
FreshUser(s, x) == [login |-> x, copy |-> CHOOSE k \in 1..Copies :
    [login |-> x, copy |-> k] \notin LiveUsers(s)]
FreshGroup(s, x) == [name |-> x, copy |-> CHOOSE k \in 1..Copies :
    [name |-> x, copy |-> k] \notin LiveGroups(s)]

\* Bound: there is room for one more object of every login and name.
Room(s) ==
    /\ \A x \in Locals : \E u \in UserObjs \ LiveUsers(s) : u.login = x
    /\ \A x \in Names : \E g \in GroupObjs \ s.leaked : g.name = x

\* Objects without references are finalized; nobody resets a pointer to them.
Settle(s) ==
    LET live == LiveGroups(s) IN
    [s EXCEPT !.usernames = [g \in GroupObjs |-> IF g \in live THEN @[g] ELSE {}],
              !.members = [g \in GroupObjs |-> IF g \in live THEN @[g] ELSE {}],
              !.default_group = IF @ \in live \cup {Null} THEN @ ELSE Dangling]

\* oobs_users_config_get_from_login for each of the logins
Lookup(s, logins) ==
    {u \in ToSet(s.users) :
        /\ u.login \in logins
        /\ s.users[SelectInSeq(s.users, LAMBDA v : v.login = u.login)] = u}

-----------------------------------------------------------------------------
(* The two update handlers and the signals that join them *)

\* oobs_users_config_groups_updated
GroupsUpdated(s) ==
    LET found == SelectInSeq(s.groups, LAMBDA g : g.name = s.default_gid) IN
    IF s.default_gid = NoGid THEN s
    ELSE [s EXCEPT !.default_group = IF found = 0 THEN Null ELSE s.groups[found]]

\* Mutant: only the groups resolved for the first time look their users up.
UsersUpdatedOnce(s) ==
    [s EXCEPT !.members = [g \in GroupObjs |->
        IF g \in LiveGroups(s) /\ @[g] = {} THEN Lookup(s, s.usernames[g]) ELSE @[g]]]

\* oobs_group_users_updated, connected by every group alive
UsersUpdated(s) ==
    [s EXCEPT !.members = [g \in GroupObjs |->
        IF g \in LiveGroups(s) THEN Lookup(s, s.usernames[g]) ELSE @[g]]]

\* oobs_users_config_update and the "updated" signal
ApplyUsers(s, reply) ==
    LET cleared == [s EXCEPT !.users = <<>>, !.users_updated = TRUE]
        filled == [cleared EXCEPT
                      !.users = SetToSeq({FreshUser(cleared, x) : x \in reply.users}),
                      !.default_gid = reply.default]
    IN Settle(UsersUpdated(IF s.groups_updated THEN GroupsUpdated(filled) ELSE filled))

\* oobs_groups_config_update and the "updated" signal
ApplyGroups(s, reply) ==
    LET cleared == Settle([s EXCEPT !.groups = <<>>, !.groups_updated = TRUE])
        new == {FreshGroup(cleared, x) : x \in DOMAIN reply}
        filled == [cleared EXCEPT
                      !.groups = SetToSeq(new),
                      !.usernames = [g \in GroupObjs |->
                          IF g \in new THEN reply[g.name] ELSE @[g]],
                      !.members = [g \in GroupObjs |->
                          IF g \in new /\ s.users_updated
                          THEN Lookup(s, reply[g.name]) ELSE @[g]]]
    IN Settle(GroupsUpdated(filled))

-----------------------------------------------------------------------------
(* Updates *)

\* oobs_object_update
UpdateUsers ==
    /\ Room(lib)
    /\ lib' = ApplyUsers(lib, [users |-> sys_users, default |-> sys_default])
    /\ UNCHANGED <<system, get_users, get_groups>>

UpdateGroups ==
    /\ Room(lib)
    /\ lib' = ApplyGroups(lib, sys_groups)
    /\ UNCHANGED <<system, get_users, get_groups>>

\* Bound: one asynchronous update at a time.
Idle == ~get_users.pending /\ ~get_groups.pending

\* oobs_object_update_async.  The backend reads the system when it gets the
\* message: later than that would be as if the call had been made later.
UpdateUsersAsync ==
    /\ Idle
    /\ get_users' = [pending |-> TRUE, users |-> sys_users, default |-> sys_default]
    /\ UNCHANGED <<system, lib, get_groups>>

UpdateGroupsAsync ==
    /\ Idle
    /\ get_groups' = [pending |-> TRUE, groups |-> sys_groups]
    /\ UNCHANGED <<system, lib, get_users>>

\* The main loop dispatches the answer.
DispatchUsers ==
    /\ Room(lib)
    /\ get_users.pending
    /\ lib' = ApplyUsers(lib, get_users)
    /\ get_users' = NoUsersGet
    /\ UNCHANGED <<system, get_groups>>

DispatchGroups ==
    /\ Room(lib)
    /\ get_groups.pending
    /\ lib' = ApplyGroups(lib, get_groups.groups)
    /\ get_groups' = NoGroupsGet
    /\ UNCHANGED <<system, get_users>>

-----------------------------------------------------------------------------
(* Users *)

\* A call that changes the system is made: perhaps while an answer that the
\* backend has given before is still to be dispatched.
MayChange == Room(lib) /\ (Overtaking \/ Idle)

\* oobs_users_config_add_user with a user made by oobs_user_new: the backend
\* adds it, perhaps with a main group of its own, and the groups are updated,
\* unless that second call fails, which nobody is told.
AddUser(x) ==
    LET appended == [lib EXCEPT !.users = Append(@, FreshUser(lib, x))] IN
    /\ MayChange
    /\ x \notin sys_users
    /\ sys_users' = sys_users \cup {x}
    /\ \/ UNCHANGED sys_groups
       \/ \E n \in Names \ DOMAIN sys_groups : sys_groups' = WithGroup(sys_groups, n)
    /\ lib' = ApplyGroups(appended, sys_groups') \/ lib' = appended
    /\ UNCHANGED <<sys_default, get_users, get_groups>>

\* oobs_group_remove_user
RemoveUser(s, g, u) ==
    [s EXCEPT !.usernames[g] = @ \ {u.login}, !.members[g] = @ \ {u}]

\* Mutant: the loop over the groups of oobs_users_config_delete_user is missing.
RemoveFromGroupsNot(s, u) == s

RemoveFromGroups(s, u) ==
    [s EXCEPT !.usernames = [g \in GroupObjs |->
                  IF g \in ToSet(s.groups) THEN @[g] \ {u.login} ELSE @[g]],
              !.members = [g \in GroupObjs |->
                  IF g \in ToSet(s.groups) THEN @[g] \ {u} ELSE @[g]]]

\* oobs_users_config_delete_user, whose oobs_groups_config_get_groups ensures
\* that the users have been updated, from an answer under way if there is one.
DeleteUser(u) ==
    LET now == [users |-> sys_users', default |-> sys_default]
        held == [lib EXCEPT !.held = {u}]
        ensured == IF lib.users_updated THEN held
                   ELSE ApplyUsers(held, IF get_users.pending THEN get_users ELSE now)
        removed == RemoveFromGroups(ensured, u)
    IN
    /\ MayChange
    /\ u \in ToSet(lib.users)
    /\ u.login \in sys_users
    /\ sys_users' = sys_users \ {u.login}
    /\ sys_groups' = [n \in DOMAIN sys_groups |-> sys_groups[n] \ {u.login}]
    /\ lib' = Settle([removed EXCEPT !.users = RemoveFirst(@, u), !.held = {}])
    /\ get_users' = IF lib.users_updated THEN get_users ELSE NoUsersGet
    /\ UNCHANGED <<sys_default, get_groups>>

\* oobs_object_commit on the users configuration: only the default group is
\* told from the rest.  A NULL group leaves the choice to the system, and a
\* finalized one is read all the same, whatever its memory holds now.
CommitUsers ==
    /\ MayChange
    /\ CASE lib.default_group = Null -> sys_default' = sys_default
         [] lib.default_group = Dangling -> sys_default' \in Names \cup {NoGid}
         [] OTHER -> sys_default' = lib.default_group.name
    /\ UNCHANGED <<sys_users, sys_groups, lib, get_users, get_groups>>

-----------------------------------------------------------------------------
(* Groups *)

\* oobs_groups_config_add_group with a group made by oobs_group_new
AddGroup(n) ==
    /\ MayChange
    /\ n \notin DOMAIN sys_groups
    /\ n \notin {g.name : g \in ToSet(lib.groups)}
    /\ sys_groups' = WithGroup(sys_groups, n)
    /\ lib' = [lib EXCEPT !.groups = Append(@, FreshGroup(lib, n))]
    /\ UNCHANGED <<sys_users, sys_default, get_users, get_groups>>

\* Mutant: the references oobs_list_get gave are dropped.
WalkedNot(s, g) == {}

\* The groups that oobs_groups_config_delete_group gets from the list, up to g.
Walked(s, g) == ToSet(SubSeq(s.groups, 1, SelectInSeq(s.groups, LAMBDA h : h = g)))

DeleteGroup(g) ==
    /\ MayChange
    /\ g \in ToSet(lib.groups)
    /\ Cardinality(lib.leaked \cup Walked(lib, g)) <= MaxLeaked
    /\ g.name \in DOMAIN sys_groups
    /\ sys_groups' = [n \in DOMAIN sys_groups \ {g.name} |-> sys_groups[n]]
    /\ lib' = Settle([lib EXCEPT !.leaked = @ \cup Walked(lib, g), !.groups = RemoveFirst(@, g)])
    /\ UNCHANGED <<sys_users, sys_default, get_users, get_groups>>

\* oobs_group_add_user
GroupAddUser(g, u) ==
    /\ g \in ToSet(lib.groups) /\ u \in ToSet(lib.users)
    /\ lib' = [lib EXCEPT !.usernames[g] = @ \cup {u.login}, !.members[g] = @ \cup {u}]
    /\ UNCHANGED <<system, get_users, get_groups>>

GroupRemoveUser(g, u) ==
    /\ g \in ToSet(lib.groups) /\ u \in ToSet(lib.users)
    /\ lib' = RemoveUser(lib, g, u)
    /\ UNCHANGED <<system, get_users, get_groups>>

\* Mutants: the cached users are sent; or the names of the users known only.
SentMembersObjects(g) == lib.members[g]
SentMembersKnown(g) == {u.login : u \in lib.members[g]}

\* _oobs_create_dbus_struct_from_group
SentMembers(g) == lib.usernames[g]

\* oobs_object_commit on one group
CommitGroup(g) ==
    /\ MayChange
    /\ g \in ToSet(lib.groups)
    /\ g.name \in DOMAIN sys_groups
    /\ sys_groups' = [sys_groups EXCEPT ![g.name] = SentMembers(g)]
    /\ UNCHANGED <<sys_users, sys_default, lib, get_users, get_groups>>

\* oobs_object_commit on the groups configuration: the whole file is replaced,
\* by an empty one if the groups have never been read.
CommitGroups ==
    /\ MayChange
    /\ sys_groups' = [n \in {g.name : g \in ToSet(lib.groups)} |->
                         SentMembers(CHOOSE g \in ToSet(lib.groups) : g.name = n)]
    /\ UNCHANGED <<sys_users, sys_default, lib, get_users, get_groups>>

\* The administrator leaves the default group unset.
UnsetDefault ==
    /\ sys_default' = NoGid
    /\ UNCHANGED <<sys_users, sys_groups, lib, get_users, get_groups>>

-----------------------------------------------------------------------------

Next ==
    \/ UpdateUsers \/ UpdateGroups
    \/ UpdateUsersAsync \/ DispatchUsers
    \/ UpdateGroupsAsync \/ DispatchGroups
    \/ \E x \in Locals : AddUser(x)
    \/ \E u \in UserObjs : DeleteUser(u)
    \/ CommitUsers
    \/ \E n \in Names : AddGroup(n)
    \/ \E g \in GroupObjs : DeleteGroup(g) \/ CommitGroup(g)
    \/ \E g \in GroupObjs, u \in UserObjs : GroupAddUser(g, u) \/ GroupRemoveUser(g, u)
    \/ CommitGroups
    \/ UnsetDefault

Spec == Init /\ [][Next]_vars

-----------------------------------------------------------------------------
(* Properties *)

\* "List of OobsUsers updated from the above" (oobs-group.c:60): the users a
\* listed group caches are those its member names stand for in the users list,
\* whichever configuration was updated, added to or deleted from last.
CacheExact ==
    lib.users_updated =>
        \A g \in ToSet(lib.groups) : lib.members[g] = Lookup(lib, lib.usernames[g])

\* No group of the system has a member that is neither a local user nor a
\* foreign one: deleting a user removes it from all groups "to avoid committing
\* to /etc/group the name of a non-existent user" (oobs-usersconfig.c:508).
NoGhostMember == \A n \in DOMAIN sys_groups : sys_groups[n] \subseteq sys_users \cup Foreign

\* While the default GID is not 0 the pointer to the default group is not
\* dangling, although it is no reference: groups are replaced and deleted under it.
DefaultAlive == lib.default_gid # NoGid => lib.default_group # Dangling

\* "Returns an #OobsGroup defining the default group used for new users"
\* (oobs-usersconfig.c:701): what the application gets is a group, or NULL.
DefaultIsGroup == lib.default_group # Dangling

\* Members of a group that are not known as users are not lost by a commit:
\* "we don't want to remove unknown users from groups" (oobs-group.c:312).
ForeignKept ==
    [][\A n \in DOMAIN sys_groups \cap DOMAIN sys_groups' :
          sys_groups[n] \cap Foreign \subseteq sys_groups'[n]]_vars
=============================================================================
