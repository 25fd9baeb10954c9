------------------------------- MODULE Session -------------------------------
(***************************************************************************)
(* OobsSession: the connection with the system bus that all configuration  *)
(* objects share, and the platform the backends have identified the system *)
(* as, or have been told it is.  A program has one session, made on demand. *)
(*                                                                         *)
(* priv->session_objects, the objects that oobs_session_commit and         *)
(* oobs_session_process_requests would walk, is never filled: the two      *)
(* functions do nothing, and no action stands for them.                    *)
(***************************************************************************)
EXTENDS FiniteSets

CONSTANTS
    Platforms,  \* The platforms the backends support
    Null        \* A NULL pointer, which an empty string is read as

ASSUME PlatformsAssumption == Platforms # {} /\ Null \notin Platforms

VARIABLES
    connected,  \* Whether priv->connection is not NULL
    platform,   \* priv->platform
    supported,  \* priv->supported_platforms
    identified, \* The platform, as the backends know
    trusted     \* History: the last call to set or get the platform succeeded,
                \* and no other program has set it since

session_vars == <<connected, platform, supported, identified, trusted>>

SessionTypeOK ==
    /\ connected \in BOOLEAN
    /\ platform \in Platforms \cup {Null}
    /\ supported \in SUBSET Platforms
    /\ identified \in Platforms \cup {Null}
    /\ trusted \in BOOLEAN

\* oobs_session_init: the bus may be out of reach, and stays so.
SessionInit ==
    /\ connected \in BOOLEAN
    /\ platform = Null
    /\ supported = {}
    /\ identified \in Platforms \cup {Null}
    /\ trusted = FALSE

\* How a call on the bus ends: with a reply, or with an error of D-Bus.
Errors == {"AccessDenied", "NoReply", "Other"}
Replies == Errors \cup {"Reply"}

-----------------------------------------------------------------------------

\* oobs_session_get_platform: an error leaves what is known of the platform.
GetPlatform(end) ==
    /\ connected
    /\ platform' = IF end = "Reply" THEN identified ELSE platform
    /\ trusted' = (trusted \/ end = "Reply")
    /\ UNCHANGED <<connected, supported, identified>>

\* Mutant: a call without a reply is a success.
SetResultHopeful(end) ==
    CASE end \in {"Reply", "NoReply"} -> "OK"
      [] end = "AccessDenied" -> "ACCESS_DENIED"
      [] OTHER -> "ERROR"

\* The result of oobs_session_set_platform.  That of a call without a reply is
\* assigned OK, and then ERROR by the test of the next name.
SetResult(end) ==
    CASE end = "Reply" -> "OK"
      [] end = "AccessDenied" -> "ACCESS_DENIED"
      [] OTHER -> "ERROR"

\* oobs_session_set_platform: the platform is stored before it is sent, and
\* kept whatever becomes of it.  Without a reply, it may have been set or not.
SetPlatform(p, end) ==
    /\ connected
    /\ platform' = p
    /\ identified' \in CASE end = "Reply" -> {p}
                         [] end = "NoReply" -> {p, identified}
                         [] OTHER -> {identified}
    /\ trusted' = (SetResult(end) = "OK")
    /\ UNCHANGED <<connected, supported>>

\* oobs_session_get_supported_platforms: the list is asked for once.
GetSupportedPlatforms(end) ==
    /\ supported = {}
    /\ connected
    /\ supported' = IF end = "Reply" THEN Platforms ELSE {}
    /\ UNCHANGED <<connected, platform, identified, trusted>>

\* Another program sets the platform.
OtherSetsPlatform(p) ==
    /\ identified' = p
    /\ trusted' = FALSE
    /\ UNCHANGED <<connected, platform, supported>>

\* The platforms an application sets are those it was told of.
SessionNext ==
    \/ \E end \in Replies : GetPlatform(end) \/ GetSupportedPlatforms(end)
    \/ \E p \in supported, end \in Replies : SetPlatform(p, end)
    \/ \E p \in Platforms : OtherSetsPlatform(p)

-----------------------------------------------------------------------------

\* After a successful oobs_session_get_platform or oobs_session_set_platform,
\* and in spite of failed attempts to read it, the library and the backends
\* agree about the platform: a failed attempt to set it, which leaves the two
\* apart, is never reported as a success.
PlatformAgrees == trusted => platform = identified

=============================================================================
