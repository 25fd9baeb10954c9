------------------------------- MODULE Accounts -------------------------------
(***************************************************************************)
(* OobsUser and OobsSelfConfig: what the library knows of each account, and *)
(* which of the users is the one that runs the program.  OobsSelfConfig    *)
(* holds a reference to that user, found by the UID whenever the users     *)
(* configuration emits "updated"; users are also added, deleted, read and  *)
(* committed one by one, of which it hears nothing.                        *)
(*                                                                         *)
(* The groups are the subject of UsersGroups.  A call of the public API is *)
(* one step.  After an update of the users, the application takes them     *)
(* afresh from the list, or from oobs_self_config_get_user.                *)
(***************************************************************************)
EXTENDS Integers, SequencesExt

CONSTANTS
    Logins,     \* The logins accounts may have
    Uids,       \* The UIDs accounts may have
    SelfUid,    \* The UID of the program, as getuid returns it
    Values,     \* What a field may be
    Passwords,  \* Passwords the application or other programs set
    Objects,    \* Bound: the OobsUsers there may be at once
    MaxChanges, \* Bound: changes by the application and by other programs
    Null        \* A NULL pointer, an empty string, or the empty password

ASSUME SetsAssumption == SelfUid \in Uids /\ Null \notin Objects \cup Passwords
ASSUME FiniteAssumption == IsFiniteSet(Logins) /\ IsFiniteSet(Objects)
ASSUME BoundAssumption == MaxChanges \in Nat

\* The fields a user may change in its own account (the five of GECOS, and the
\* locale), and the others (home, shell, main group, disabled, ...).
SelfFields == {"gecos"}
Fields == SelfFields \cup {"shell"}
Data == [Fields -> Values]

\* The password of an account may be the empty one.
Account == [login : Logins, uid : Uids, data : Data, password : Passwords \cup {Null}]

\* An OobsUser; the password is one the application has set and not yet sent,
\* and "empty" is priv->passwd_empty.
User == [login : Logins, uid : Uids, data : Data, password : Passwords \cup {Null},
         empty : BOOLEAN]

ASSUME NullAssumption == Null \notin User

VARIABLES
    accounts, \* /etc/passwd and /etc/shadow, in their order
    list,     \* The users list, of objects
    user,     \* The contents of each object, or Null
    updated,  \* Whether the users have been updated
    self,     \* OobsSelfConfig, see Self
    get,      \* The answer to an asynchronous update of the users
    changes,  \* Bound
    read,     \* History: the account an object was last read from, or made for
    edited,   \* History: fields, "uid", passwords and "empty" set and not yet
              \* committed, and "lost" if a failed commit had a password
    touched   \* History: whether users came, went or changed their UIDs or
              \* objects since the last update of the users

lib_vars == <<list, user, updated, self>>
history == <<read, edited, touched>>
vars == <<accounts, lib_vars, get, changes, history>>

Self == [made : BOOLEAN, updated : BOOLEAN, user : Objects \cup {Null}]

Edits == Fields \cup {"uid", "password", "empty", "lost"}

IsPasswd(s) ==
    /\ s \in Seq(Account)
    /\ \A i, j \in DOMAIN s : s[i].login = s[j].login => i = j

TypeOK ==
    /\ IsPasswd(accounts)
    /\ list \in Seq(Objects) /\ IsInjective(list)
    /\ user \in [Objects -> User \cup {Null}]
    /\ updated \in BOOLEAN
    /\ self \in Self
    /\ get = Null \/ IsPasswd(get)
    /\ changes \in 0..MaxChanges
    /\ read \in [Objects -> Account \cup {Null}]
    /\ edited \in [Objects -> SUBSET Edits]
    /\ touched \in BOOLEAN
    /\ \A o \in Objects : user[o] # Null <=> o \in ToSet(list) \cup ({self.user} \ {Null})

Init ==
    /\ \E uids \in [Logins -> Uids], data \in Data, p \in Passwords \cup {Null} :
          accounts = SetToSeq({[login |-> l, uid |-> uids[l], data |-> data, password |-> p] :
                                   l \in Logins})
    /\ list = <<>>
    /\ user = [o \in Objects |-> Null]
    /\ updated = FALSE
    /\ self = [made |-> FALSE, updated |-> FALSE, user |-> Null]
    /\ get = Null
    /\ changes = 0
    /\ read = [o \in Objects |-> Null]
    /\ edited = [o \in Objects |-> {}]
    /\ touched = FALSE

-----------------------------------------------------------------------------
(* Operations *)

\* _oobs_user_create_from_dbus_reply: the password in a reply is not used, and
\* one that was set stays; whether the account has the empty one is.
FromReply(a, password) ==
    [login |-> a.login, uid |-> a.uid, data |-> a.data, password |-> password,
     empty |-> a.password = Null]

\* What the password of the account a may become by a struct of u.  The flag
\* "empty" forces the empty password, and an empty string keeps the one there
\* is; which of a password and the flag wins is the backend's affair.
PasswordsSaid(u, a) ==
    IF u.password = Null /\ ~u.empty THEN {a.password}
    ELSE {p \in Passwords \cup {Null} : IF p = Null THEN u.empty ELSE p = u.password}

\* create_dbus_struct_from_user, and what the backend makes of it
Struct(u, a, password) ==
    [a EXCEPT !.uid = u.uid, !.data = u.data, !.password = password]

\* Mutant: the password is kept until the object goes.
ErasedNot(u) == u

\* oobs_user_commit, when the message has been built.
Erased(u) == [u EXCEPT !.password = Null]

\* oobs_self_config_commit, and what the backend does with its own fields
SelfStruct(u, a) ==
    [a EXCEPT !.data = [f \in Fields |-> IF f \in SelfFields THEN u.data[f] ELSE @[f]]]

\* The index of the first account with the UID of the program, or 0.
SelfIndex(s) == SelectInSeq(s, LAMBDA a : a.uid = SelfUid)

\* The first listed user with that UID, or Null.
FirstSelf(objs, us) ==
    LET k == SelectInSeq(objs, LAMBDA o : us[o].uid = SelfUid)
    IN IF k = 0 THEN Null ELSE objs[k]

\* Mutant: a user that was found is kept.
FoundOnce(s, objs, us) ==
    [s EXCEPT !.user = IF @ # Null THEN @ ELSE FirstSelf(objs, us)]

\* oobs_self_config_users_updated
Found(s, objs, us) == [s EXCEPT !.user = FirstSelf(objs, us)]

\* Mutant: OobsSelfConfig holds no reference to its user.
HeldByList(f, blank, objs, s) ==
    [o \in Objects |-> IF o \in ToSet(objs) THEN f[o] ELSE blank]

\* Of a record of objects, those somebody holds.
Held(f, blank, objs, s) ==
    [o \in Objects |-> IF o \in ToSet(objs) \/ o = s.user THEN f[o] ELSE blank]

\* The users list and what hangs on it become objs, us and s; objects without
\* references are finalized.
Become(objs, us, s, newRead, newEdited) ==
    /\ list' = objs
    /\ user' = Held(us, Null, objs, s)
    /\ self' = s
    /\ read' = Held(newRead, Null, objs, s)
    /\ edited' = Held(newEdited, {}, objs, s)

-----------------------------------------------------------------------------
(* Updates *)

\* Objects for the accounts s, made when the list has been cleared but for the
\* user of OobsSelfConfig, which is still referenced.
Fresh(s) == {D \in SUBSET (Objects \ {self.user}) : Cardinality(D) = Len(s)}

\* oobs_users_config_update and the "updated" signal.  Bound: there is room.
Load(s) ==
    LET objs == SetToSeq(CHOOSE D \in Fresh(s) : TRUE)
        at(o) == CHOOSE k \in DOMAIN s : objs[k] = o
        us == [o \in Objects |-> IF o \in ToSet(objs) THEN FromReply(s[at(o)], Null) ELSE user[o]]
    IN
    /\ Fresh(s) # {}
    /\ Become(objs, us, IF self.made THEN Found(self, objs, us) ELSE self,
              [o \in Objects |-> IF o \in ToSet(objs) THEN s[at(o)] ELSE read[o]],
              [o \in Objects |-> IF o \in ToSet(objs) THEN {} ELSE edited[o]])
    /\ updated' = TRUE
    /\ touched' = FALSE

\* oobs_object_update on the users configuration
UpdateUsers ==
    /\ Load(accounts)
    /\ UNCHANGED <<accounts, get, changes>>

\* oobs_object_update_async
UpdateUsersAsync ==
    /\ get = Null
    /\ get' = accounts
    /\ UNCHANGED <<accounts, lib_vars, changes, history>>

DispatchUsers ==
    /\ get # Null
    /\ Load(get)
    /\ get' = Null
    /\ UNCHANGED <<accounts, changes>>

\* oobs_self_config_get: from now on it hears of updates of the users.
MakeSelf ==
    /\ ~self.made
    /\ self' = [self EXCEPT !.made = TRUE]
    /\ UNCHANGED <<accounts, list, user, updated, get, changes, history>>

\* oobs_object_update on OobsSelfConfig, perhaps by oobs_self_config_get_user:
\* nothing of the reply is used.
UpdateSelf ==
    LET s == [self EXCEPT !.updated = TRUE] IN
    /\ self.made
    /\ Become(list, user, IF updated THEN Found(s, list, user) ELSE s, read, edited)
    /\ UNCHANGED <<accounts, updated, get, changes, touched>>

-----------------------------------------------------------------------------
(* Single users *)

\* The objects of the list, and the one of OobsSelfConfig.
Reached == {o \in Objects : user[o] # Null}

\* The account of an object, or 0.
AccountOf(o) == SelectInSeq(accounts, LAMBDA a : a.login = user[o].login)

\* An object after it was read from the account a.
ReadAgain(o, a, password) ==
    /\ user' = [user EXCEPT ![o] = FromReply(a, password)]
    /\ read' = [read EXCEPT ![o] = a]
    /\ edited' = [edited EXCEPT ![o] = IF password = Null THEN {} ELSE {"password"}]
    /\ touched' = (touched \/ a.uid # user[o].uid)

\* oobs_object_update on a user
UpdateUser(o) ==
    /\ AccountOf(o) # 0
    /\ ReadAgain(o, accounts[AccountOf(o)], user[o].password)
    /\ UNCHANGED <<accounts, list, updated, self, get, changes>>

\* oobs_object_commit on a user.  The reply has the account as it has become,
\* which the object is updated from; a commit that fails has erased the password.
CommitUser(o) ==
    LET k == AccountOf(o) IN
    /\ k # 0
    /\ \E p \in PasswordsSaid(user[o], accounts[k]) :
          accounts' = [accounts EXCEPT ![k] = Struct(user[o], @, p)]
    /\ ReadAgain(o, accounts'[k], Erased(user[o]).password)
    /\ UNCHANGED <<list, updated, self, get, changes>>

CommitUserFails(o) ==
    /\ user' = [user EXCEPT ![o] = Erased(@)]
    /\ edited' = [edited EXCEPT ![o] = (@ \ {"password"}) \cup
                                        (IF "password" \in @ THEN {"lost"} ELSE {})]
    /\ UNCHANGED <<accounts, list, updated, self, get, changes, read, touched>>

\* oobs_object_commit on OobsSelfConfig.  Without a user the message is empty,
\* and the backend does nothing.
CommitSelf ==
    LET k == SelfIndex(accounts) IN
    /\ self.user # Null
    /\ k # 0
    /\ accounts' = [accounts EXCEPT ![k] = SelfStruct(user[self.user], @)]
    /\ UNCHANGED <<lib_vars, get, changes, history>>

-----------------------------------------------------------------------------
(* Changes *)

\* Bound.
Change == changes < MaxChanges /\ changes' = changes + 1

\* oobs_user_set_full_name, oobs_user_set_shell, and the others like them
SetField(o, f, v) ==
    /\ Change
    /\ user' = [user EXCEPT ![o].data[f] = v]
    /\ edited' = [edited EXCEPT ![o] = @ \cup {f}]
    /\ UNCHANGED <<accounts, list, updated, self, get, read, touched>>

\* oobs_user_set_uid
SetUid(o, u) ==
    /\ Change
    /\ user' = [user EXCEPT ![o].uid = u]
    /\ edited' = [edited EXCEPT ![o] = @ \cup {"uid"}]
    /\ touched' = TRUE
    /\ UNCHANGED <<accounts, list, updated, self, get, read>>

\* oobs_user_set_password
SetPassword(o, p) ==
    /\ Change
    /\ user' = [user EXCEPT ![o].password = p]
    /\ edited' = [edited EXCEPT ![o] = (@ \cup {"password"}) \ {"lost"}]
    /\ UNCHANGED <<accounts, list, updated, self, get, read, touched>>

\* oobs_user_set_password_empty
SetEmpty(o, empty) ==
    /\ Change
    /\ user' = [user EXCEPT ![o].empty = empty]
    /\ edited' = [edited EXCEPT ![o] = @ \cup {"empty"}]
    /\ UNCHANGED <<accounts, list, updated, self, get, read, touched>>

\* oobs_users_config_delete_user: the account is deleted, and the object leaves
\* the list, unless OobsSelfConfig holds it for good.
DeleteUser(o) ==
    /\ Change
    /\ o \in ToSet(list)
    /\ AccountOf(o) # 0
    /\ accounts' = RemoveAt(accounts, AccountOf(o))
    /\ Become(RemoveFirst(list, o), [user EXCEPT ![o] = Erased(@)], self, read,
              [edited EXCEPT ![o] = @ \ {"password"}])
    /\ touched' = TRUE
    /\ UNCHANGED <<updated, get>>

\* oobs_users_config_add_user with a user made by oobs_user_new, of which the
\* application has set a password or the flag "empty"
AddUser(l, u, d, p) ==
    LET a == [login |-> l, uid |-> u, data |-> d, password |-> p] IN
    /\ Change
    /\ \A k \in DOMAIN accounts : accounts[k].login # l
    /\ accounts' = Append(accounts, a)
    /\ \E o \in Objects \ Reached :
          Become(Append(list, o), [user EXCEPT ![o] = FromReply(a, Null)], self,
                 [read EXCEPT ![o] = a], edited)
    /\ touched' = TRUE
    /\ UNCHANGED <<updated, get>>

\* Another program changes an account.
OtherChanges(k, a) ==
    /\ Change
    /\ a # accounts[k]
    /\ accounts' = [accounts EXCEPT ![k] = a]
    /\ UNCHANGED <<lib_vars, get, history>>

Next ==
    \/ UpdateUsers \/ UpdateUsersAsync \/ DispatchUsers
    \/ MakeSelf \/ UpdateSelf \/ CommitSelf
    \/ \E o \in Reached :
          \/ UpdateUser(o) \/ CommitUser(o) \/ CommitUserFails(o) \/ DeleteUser(o)
          \/ \E f \in Fields, v \in Values : SetField(o, f, v)
          \/ \E u \in Uids : SetUid(o, u)
          \/ \E p \in Passwords : SetPassword(o, p)
          \/ \E empty \in BOOLEAN : SetEmpty(o, empty)
    \/ \E l \in Logins, u \in Uids, d \in Data, p \in Passwords \cup {Null} : AddUser(l, u, d, p)
    \/ \E k \in DOMAIN accounts :
          \/ \E f \in Fields, v \in Values : OtherChanges(k, [accounts[k] EXCEPT !.data[f] = v])
          \/ \E p \in Passwords \cup {Null} : OtherChanges(k, [accounts[k] EXCEPT !.password = p])

Spec == Init /\ [][Next]_vars

-----------------------------------------------------------------------------
(* Properties *)

\* Once both have been updated, in whatever order that and the creation of
\* OobsSelfConfig came, its user is the first of the list that has the UID of the
\* program, or NULL (oobs_self_config_users_updated), as long as no user comes,
\* goes or changes its UID.
SelfCurrent ==
    self.updated /\ updated /\ ~touched => self.user = FirstSelf(list, user)

\* oobs_self_config_get_user "returns the OobsUser that represents the requester
\* user" (oobs-selfconfig.c:246), if the system has one.  The code
\* (oobs_self_config_update) leaves the user NULL if the users are not updated
\* yet, and the object counts as updated.
SelfFound ==
    self.updated /\ (\E k \in DOMAIN accounts : accounts[k].uid = SelfUid) => self.user # Null

\* What a commit of the user o may do to the account a.
Faithful(o, a, b) ==
    /\ b.login = a.login
    /\ \A f \in Fields : b.data[f] = IF f \in edited[o] THEN user[o].data[f] ELSE read[o].data[f]
    /\ "uid" \notin edited[o] => b.uid = read[o].uid
    /\ edited[o] \cap {"password", "empty"} = {} =>
           b.password = IF read[o].password = Null THEN Null ELSE a.password

\* A commit of a user gives back what was read of its account (or what the
\* reply to the last commit said), but for what the application has set since.
\* It writes no password that was not set, or was sent already; if the one that
\* was read was empty it becomes empty again, and otherwise it is kept.  A commit
\* of OobsSelfConfig changes no account but those with the UID of the program,
\* and neither their login nor their password.
AccountKept ==
    [][/\ \A o \in Reached :
             CommitUser(o) => Faithful(o, accounts[AccountOf(o)], accounts'[AccountOf(o)])
       /\ CommitSelf => \A k \in DOMAIN accounts :
             accounts'[k] # accounts[k] =>
                 /\ accounts[k].uid = SelfUid
                 /\ accounts'[k].password = accounts[k].password]_vars

\* "Setting the 'password' property to the empty string is used to keep the
\* current password" (oobs-user.c:1119): a commit of a user of whom neither the
\* password nor the flag has been set keeps it.  The code
\* (create_dbus_struct_from_user) sends the flag it read earlier.
PasswordKept ==
    [][\A o \in Reached :
           CommitUser(o) /\ user[o].password = Null /\ "empty" \notin edited[o] =>
               accounts'[AccountOf(o)].password = accounts[AccountOf(o)].password]_vars

\* A commit writes "all the changes done" (oobs_object_commit): if a password was
\* set since the last one that succeeded, there is one in the message.  The code
\* (oobs_user_commit) erases the password before it knows of a success.
PasswordSent ==
    [][\A o \in Reached :
           CommitUser(o) /\ edited[o] \cap {"password", "lost"} # {} =>
               user[o].password # Null]_vars

=============================================================================
