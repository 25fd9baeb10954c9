------------------------------ MODULE HostsConfig ------------------------------
(***************************************************************************)
(* OobsHostsConfig: the names of the machine, the static hosts of          *)
(* /etc/hosts, each an OobsStaticHost, the DNS servers and the domains to  *)
(* search.  Lists of strings are owned by the library once they are set,   *)
(* and the application passes fresh ones, as the setters' docs demand.     *)
(***************************************************************************)
EXTENDS Wire

StaticHost(S) == [ip_address : S, aliases : Seq(Names)]
Hosts(S) == [kind : {"hosts"}, hostname : S, domain : S, static_hosts : Seq(StaticHost(S)),
             dns_list : Seq(Names), search_domains_list : Seq(Names)]

\* oobs_hosts_config_init
HostsInit == [kind |-> "hosts", hostname |-> Null, domain |-> Null, static_hosts |-> <<>>,
              dns_list |-> <<>>, search_domains_list |-> <<>>]

\* create_static_host_from_dbus_reply
HostRead(h) == [ip_address |-> GetString(h.ip_address), aliases |-> GetStrings(h.aliases)]

\* oobs_hosts_config_update: nothing of before is left (free_configuration).
HostsRead(m) ==
    [kind |-> "hosts",
     hostname |-> GetString(m.hostname),
     domain |-> GetString(m.domain),
     static_hosts |-> Each(HostRead, m.static_hosts),
     dns_list |-> GetStrings(m.dns_list),
     search_domains_list |-> GetStrings(m.search_domains_list)]

\* create_dbus_struct_from_static_host
HostSent(h) == [h EXCEPT !.ip_address = AppendString(@)]

\* oobs_hosts_config_commit
HostsSent(s) ==
    [s EXCEPT !.hostname = AppendString(@),
              !.domain = AppendString(@),
              !.static_hosts = Each(HostSent, @)]

\* oobs_hosts_config_set_hostname: NULL and the empty string are refused.
SetHostname(s, name) == IF GetString(name) = Null THEN s ELSE [s EXCEPT !.hostname = name]

\* oobs_hosts_config_set_domainname
SetDomainname(s, name) == [s EXCEPT !.domain = GetString(name)]

\* oobs_hosts_config_set_dns_servers
SetDnsServers(s, l) == [s EXCEPT !.dns_list = l]

\* oobs_hosts_config_set_search_domains
SetSearchDomains(s, l) == [s EXCEPT !.search_domains_list = l]

\* oobs_static_host_new
NewHost(ip, aliases) == [ip_address |-> ip, aliases |-> aliases]

\* oobs_static_host_set_ip_address, oobs_static_host_set_aliases
HostEdits(h) ==
    {[h EXCEPT !.ip_address = ip] : ip \in Passed}
    \cup {[h EXCEPT !.aliases = l] : l \in Short(Names)}

HostsEdits(s) ==
    {SetHostname(s, n) : n \in Passed} \cup {SetDomainname(s, n) : n \in Passed}
    \cup {SetDnsServers(s, l) : l \in Lists(Names)}
    \cup {SetSearchDomains(s, l) : l \in Lists(Names)}
    \cup {[s EXCEPT !.static_hosts = l] :
             l \in Inserted(s.static_hosts, {NewHost(n, <<>>) : n \in Texts})
                   \cup Removed(s.static_hosts) \cup Changed(s.static_hosts, HostEdits)}

===============================================================================
