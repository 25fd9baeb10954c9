----------------------------- MODULE SharesConfig -----------------------------
(***************************************************************************)
(* The directories the system shares: OobsNFSConfig with its OobsShareNFS, *)
(* and OobsSMBConfig with its OobsShareSMB and the table of the passwords  *)
(* of SMB users.  An OobsShare has a path.                                 *)
(***************************************************************************)
EXTENDS Wire

CONSTANTS
    Absolute,  \* Names that begin with a slash
    Users,     \* Logins
    Passwords  \* Passwords of SMB users

ASSUME SharesAssumption == Absolute \subseteq Names /\ "" \notin Passwords

-----------------------------------------------------------------------------
(* NFS *)

\* A client that may use a share, with the number sent for it.
Acl(S) == [element : S, read_only : {0, 1}]
NFSShare(S) == [path : S, acl : Seq(Acl(S))]
NFS(S) == [kind : {"nfs"}, shares : Seq(NFSShare(S))]

\* oobs_nfs_config_init
NFSInit == [kind |-> "nfs", shares |-> <<>>]

\* oobs_share_nfs_new
NewNFSShare(path) == [path |-> path, acl |-> <<>>]

\* oobs_share_nfs_add_acl_element
AddAcl(share, element, read_only) ==
    [share EXCEPT !.acl = Append(@, [element |-> element, read_only |-> read_only])]

\* create_share_from_dbus_reply.  The number is stored as it is, whatever it
\* stands for.
NFSShareRead(m) ==
    LET share[n \in 0..Len(m.acl)] ==
            IF n = 0 THEN NewNFSShare(GetString(m.path))
            ELSE AddAcl(share[n - 1], GetString(m.acl[n].element), m.acl[n].read_only)
    IN share[Len(m.acl)]

\* create_dbus_struct_from_share
NFSShareSent(s) ==
    [path |-> AppendString(s.path),
     acl |-> Each(LAMBDA c : [c EXCEPT !.element = AppendString(@)], s.acl)]

\* oobs_nfs_config_update
NFSRead(m) == [m EXCEPT !.shares = Each(NFSShareRead, @)]

\* oobs_nfs_config_commit
NFSSent(s) == [s EXCEPT !.shares = Each(NFSShareSent, @)]

\* oobs_share_set_path: any path is taken.
SetPath(share, path) == [share EXCEPT !.path = path]

NFSShareEdits(share) ==
    {SetPath(share, p) : p \in Pointers}
    \cup {[share EXCEPT !.acl = l] : l \in Removed(share.acl)}     \* oobs_share_nfs_set_acl
    \cup IF Len(share.acl) >= MaxLength THEN {}
         ELSE {AddAcl(share, e, r) : e \in Texts, r \in {0, 1}}

NFSEdits(s) ==
    {[s EXCEPT !.shares = l] :
        l \in Inserted(s.shares, {NewNFSShare(p) : p \in Names}) \cup Removed(s.shares)
              \cup Changed(s.shares, NFSShareEdits)}

-----------------------------------------------------------------------------
(* SMB *)

\* The flags of a share, with their bits.
Bit == [enabled |-> 1, browsable |-> 2, public |-> 4, writable |-> 8]
Flags == DOMAIN Bit

\* A share; in a message, the flags are numbers: a function from the flags.
SMBShare(S, F) == [name : S, path : S, comment : S, flags : F]

\* The state of the configuration.  The users are those with a password: the
\* password that was set, or an empty string for one that was read.
SMB == [kind : {"smb"}, shares : Seq(SMBShare(Pointers, SUBSET Flags)),
        workgroup : Pointers, desc : Pointers, wins_server : Pointers,
        is_wins_server : {0, 1},
        users : UNION {[D -> Passwords \cup {""}] : D \in SUBSET Users}]

\* oobs_smb_config_init
SMBInit == [kind |-> "smb", shares |-> <<>>, workgroup |-> Null, desc |-> Null,
            wins_server |-> Null, is_wins_server |-> 0, users |-> [u \in {} |-> ""]]

\* Mutant: a flag is taken for another.
FlagsReadShifted(ints) ==
    {f \in Flags : ints[CASE f = "public" -> "writable" [] f = "writable" -> "public" [] OTHER -> f] # 0}

\* The flags, as create_share_from_dbus_reply reads them
FlagsRead(ints) == {f \in Flags : ints[f] # 0}

\* The flags, as create_dbus_struct_from_share sends them
FlagsSent(flags) == [f \in Flags |-> IF f \in flags THEN Bit[f] ELSE 0]

\* create_share_from_dbus_reply
SMBShareRead(m) ==
    [name |-> GetString(m.name), path |-> GetString(m.path),
     comment |-> GetString(m.comment), flags |-> FlagsRead(m.flags)]

\* create_dbus_struct_from_share
SMBShareSent(s) ==
    [name |-> AppendString(s.name), path |-> AppendString(s.path),
     comment |-> AppendString(s.comment), flags |-> FlagsSent(s.flags)]

\* oobs_share_smb_new refuses a path that is not absolute.
Accepted(share) == share.path \in Absolute

\* The list of the shares it makes of an array.
AcceptedOf(s) ==
    LET list[n \in 0..Len(s)] ==
            IF n = 0 THEN <<>>
            ELSE IF Accepted(s[n]) THEN Append(list[n - 1], s[n]) ELSE list[n - 1]
    IN list[Len(s)]

\* oobs_smb_config_update; update_smb_users reads the names alone.
SMBRead(m) ==
    [kind |-> "smb",
     shares |-> AcceptedOf(Each(SMBShareRead, m.shares)),
     workgroup |-> GetString(m.workgroup), desc |-> GetString(m.desc),
     wins_server |-> GetString(m.wins_server),
     is_wins_server |-> m.is_wins_server % 2,
     users |-> [u \in m.users |-> ""]]

\* oobs_smb_config_commit; append_smb_users sends what is in the table.
SMBSent(s) ==
    [s EXCEPT !.shares = Each(SMBShareSent, @),
              !.workgroup = AppendString(@), !.desc = AppendString(@),
              !.wins_server = AppendString(@)]

\* Mutant: the entry stays, without a password.
DeletePasswordOnly(s, u) ==
    [s EXCEPT !.users = [v \in DOMAIN @ |-> IF v = u THEN Null ELSE @[v]]]

\* oobs_smb_config_delete_user_password
DeletePassword(s, u) == [s EXCEPT !.users = [v \in DOMAIN @ \ {u} |-> @[v]]]

\* oobs_smb_config_set_user_password
SetPassword(s, u, p) ==
    [s EXCEPT !.users = [v \in DOMAIN @ \cup {u} |-> IF v = u THEN p ELSE @[v]]]

\* oobs_share_smb_set_name and the like, oobs_share_set_path
SMBShareEdits(share) ==
    {SetPath(share, p) : p \in Pointers}
    \cup {[share EXCEPT !.name = n] : n \in Passed}
    \cup {[share EXCEPT !.comment = n] : n \in Passed}
    \cup {[share EXCEPT !.flags = SymDiff(@, {f})] : f \in Flags}

\* oobs_share_smb_new, for the application
NewSMBShares ==
    {s \in {[name |-> n, path |-> p, comment |-> Null, flags |-> {"enabled"}] :
               n \in Texts, p \in Pointers} : Accepted(s)}

SMBEdits(s) ==
    {[s EXCEPT !.shares = l] :
        l \in Inserted(s.shares, NewSMBShares) \cup Removed(s.shares)
              \cup Changed(s.shares, SMBShareEdits)}
    \cup {[s EXCEPT !.workgroup = n] : n \in Passed}       \* oobs_smb_config_set_workgroup
    \cup {[s EXCEPT !.desc = n] : n \in Passed}
    \cup {[s EXCEPT !.wins_server = n] : n \in Passed}
    \cup {[s EXCEPT !.is_wins_server = b] : b \in {0, 1}}
    \cup {DeletePassword(s, u) : u \in Users}
    \cup {SetPassword(s, u, p) : u \in Users, p \in Passwords}

===============================================================================
