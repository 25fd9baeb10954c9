------------------------------- MODULE NTPConfig -------------------------------
(***************************************************************************)
(* OobsNTPConfig: a list of time servers, each an OobsNTPServer with a     *)
(* host name.                                                              *)
(***************************************************************************)
EXTENDS Wire

NTPMessage == [kind : {"ntp"}, servers : Seq(Strings)]
NTP == [kind : {"ntp"}, servers : Seq(Pointers)]

\* oobs_ntp_config_init
NTPInit == [kind |-> "ntp", servers |-> <<>>]

\* oobs_ntp_config_update, with oobs_ntp_server_new for each name
NTPRead(m) == [kind |-> "ntp", servers |-> Each(GetString, m.servers)]

\* oobs_ntp_config_commit
NTPSent(s) == [kind |-> "ntp", servers |-> Each(AppendString, s.servers)]

\* oobs_ntp_server_set_hostname: anything is taken.
SetServer(server) == Pointers \ {server}

\* oobs_ntp_config_get_servers, and what is done with the list
NTPEdits(s) ==
    {[s EXCEPT !.servers = l] :
        l \in Inserted(s.servers, Pointers) \cup Removed(s.servers)
              \cup Changed(s.servers, SetServer)}

===============================================================================
