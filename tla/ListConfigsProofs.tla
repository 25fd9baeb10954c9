--------------------------- MODULE ListConfigsProofs ---------------------------
(***************************************************************************)
(* Proofs about the configurations that are read whole and written whole:  *)
(* that their update and commit handlers undo each other, that every       *)
(* change of the application is one of one field, and so that they         *)
(* implement ConfigDraft, for any names, lists of any length and any       *)
(* number of changes.                                                      *)
(***************************************************************************)
EXTENDS ListConfigs, SequenceTheorems, NaturalsInduction, WellFoundedInduction, TLAPS

-----------------------------------------------------------------------------
(* Sequences *)

\* Induction up to a length, over a set.
LEMMA UpTo ==
    ASSUME NEW n \in Nat, NEW P, 0 \in P,
           \A k \in 1..n : k - 1 \in P => k \in P
    PROVE  \A k \in 0..n : k \in P
<1> DEFINE R == {p \in Nat \X Nat : p[1] < p[2]}
           B == {k \in 0..n : k \notin P}
<1>1. IsWellFoundedOn(R, Nat)
  BY NatLessThanWellFounded DEF OpToRel
<1>2. SUFFICES ASSUME B # {} PROVE FALSE
  OBVIOUS
<1>3. PICK k \in B : \A m \in B : ~ (<<m, k>> \in R)
  <2>1. B \subseteq Nat
    OBVIOUS
  <2> HIDE DEF R, B
  <2> QED BY <1>1, <1>2, <2>1, WFMin
<1>4. k \in 1..n /\ k \notin P
  OBVIOUS
<1>5. k - 1 \in 0..n /\ <<k - 1, k>> \in R
  BY <1>4
<1>6. k - 1 \notin B
  <2> HIDE DEF R, B
  <2> QED BY <1>3, <1>5
<1>7. k - 1 \in P
  BY <1>5, <1>6
<1> QED BY <1>4, <1>7

\* A function on the indices of a sequence is a sequence.
LEMMA SeqMade ==
    ASSUME NEW S, NEW s \in Seq(S), NEW T, NEW t \in [DOMAIN s -> T]
    PROVE  t \in Seq(T) /\ Len(t) = Len(s) /\ DOMAIN t = DOMAIN s
  OBVIOUS

LEMMA ListType ==
    ASSUME NEW S, NEW n \in Nat, NEW l \in SeqOf(S, n)
    PROVE  l \in Seq(S)
  BY DEF SeqOf

LEMMA SeqWider ==
    ASSUME NEW S, NEW s \in Seq(S), NEW T, \A x \in S : x \in T
    PROVE  s \in Seq(T)
<1>1. DOMAIN s = 1..Len(s) /\ Len(s) \in Nat /\ s = [i \in 1..Len(s) |-> s[i]]
  OBVIOUS
<1>2. \A i \in 1..Len(s) : s[i] \in T
  OBVIOUS
<1>3. s \in [DOMAIN s -> T]
  BY <1>1, <1>2
<1> QED BY <1>3, SeqMade

LEMMA InsertType ==
    ASSUME NEW S, NEW s \in Seq(S), NEW new \in SUBSET S, NEW l \in Inserted(s, new)
    PROVE  l \in Seq(S)
<1>1. PICK i \in 1..Len(s) + 1, x \in new : l = InsertAt(s, i, x)
  BY DEF Inserted
<1>2. x \in S /\ Len(s) \in Nat
  OBVIOUS
<1>3. SubSeq(s, 1, i - 1) \in Seq(S) /\ <<x>> \in Seq(S) /\ SubSeq(s, i, Len(s)) \in Seq(S)
  BY <1>2
<1> QED BY <1>1, <1>3 DEF InsertAt

LEMMA RemoveType ==
    ASSUME NEW S, NEW s \in Seq(S), NEW l \in Removed(s)
    PROVE  l \in Seq(S)
<1>1. PICK i \in DOMAIN s : l = RemoveAt(s, i)
  BY DEF Removed
<1>2. SubSeq(s, 1, i - 1) \in Seq(S) /\ SubSeq(s, i + 1, Len(s)) \in Seq(S)
  OBVIOUS
<1> QED BY <1>1, <1>2 DEF RemoveAt

-----------------------------------------------------------------------------
(* Strings *)

LEMMA StringTypes ==
    /\ Null \notin Strings /\ "" \in Strings /\ Strings \subseteq Pointers /\ Null \in Pointers
    /\ Names \subseteq Strings /\ Texts \subseteq Names /\ Passed \subseteq Pointers
  BY NamesAssumption DEF Strings, Pointers, Passed

\* A string that is read is sent as it was.
LEMMA StringBack ==
    ASSUME NEW w \in Strings
    PROVE  GetString(w) \in Pointers /\ AppendString(GetString(w)) = w
  BY StringTypes DEF GetString, AppendString, Pointers

LEMMA AppendType ==
    ASSUME NEW p \in Pointers
    PROVE  AppendString(p) \in Strings
  BY StringTypes DEF AppendString, Pointers

\* A list of strings is read in its order.
LEMMA GetStringsIs ==
    ASSUME NEW S, NEW ws \in Seq(S)
    PROVE  GetStrings(ws) = ws
<1> DEFINE Rec(f) == f = [n \in 0..Len(ws) |-> IF n = 0 THEN <<>> ELSE <<ws[n]>> \o f[n - 1]]
           list == CHOOSE f : Rec(f)
           back == [n \in 0..Len(ws) |-> [i \in 1..n |-> ws[n - i + 1]]]
<1>1. GetStrings(ws) = Reverse(list[Len(ws)])
  BY DEF GetStrings
<1>2. Len(ws) \in Nat /\ DOMAIN ws = 1..Len(ws)
  OBVIOUS
<1>3. back[0] = <<>>
  BY <1>2
<1>4. ASSUME NEW n \in 1..Len(ws)
      PROVE  back[n] = <<ws[n]>> \o back[n - 1]
  <2> DEFINE a == back[n]
             b == back[n - 1]
  <2>1. n - 1 \in Nat /\ n \in Nat
    BY <1>2
  <2>2. a = [i \in 1..n |-> ws[n - i + 1]] /\ b = [i \in 1..(n - 1) |-> ws[n - 1 - i + 1]]
    BY <1>2
  <2> HIDE DEF a, b
  <2>3. a \in [1..n -> S] /\ b \in [1..(n - 1) -> S]
    BY <1>2, <2>2
  <2>4. a \in Seq(S) /\ b \in Seq(S) /\ Len(a) = n /\ Len(b) = n - 1
    BY <2>1, <2>3
  <2>5. ws[n] \in S
    BY <1>2
  <2>6. ASSUME NEW i \in 1..n
        PROVE  a[i] = (<<ws[n]>> \o b)[i]
    <3>1. CASE i = 1
      BY <2>1, <2>2, <2>4, <2>5, <3>1
    <3>2. CASE i # 1
      <4>1. i - 1 \in 1..(n - 1) /\ n - i + 1 = n - 1 - (i - 1) + 1
        BY <2>1, <3>2
      <4>2. (<<ws[n]>> \o b)[i] = b[i - 1]
        BY <2>1, <2>4, <2>5, <4>1, <3>2
      <4> QED BY <2>2, <4>1, <4>2
    <3> QED BY <3>1, <3>2
  <2>7. <<ws[n]>> \o b \in Seq(S) /\ Len(<<ws[n]>> \o b) = n
    BY <2>1, <2>4, <2>5
  <2>8. a = <<ws[n]>> \o b
    BY <2>4, <2>6, <2>7
  <2> QED BY <2>8 DEF a, b
<1>5. Rec(back)
  <2>1. DOMAIN back = 0..Len(ws)
    OBVIOUS
  <2>2. \A n \in 0..Len(ws) : back[n] = IF n = 0 THEN <<>> ELSE <<ws[n]>> \o back[n - 1]
    <3> SUFFICES ASSUME NEW n \in 0..Len(ws)
                 PROVE  back[n] = IF n = 0 THEN <<>> ELSE <<ws[n]>> \o back[n - 1]
      OBVIOUS
    <3> HIDE DEF back
    <3>1. CASE n = 0
      BY <1>3, <3>1
    <3>2. CASE n # 0
      <4>1. n \in 1..Len(ws)
        BY <1>2, <3>2
      <4> QED BY <1>4, <3>2, <4>1
    <3> QED BY <3>1, <3>2
  <2>3. back = [n \in 0..Len(ws) |-> back[n]]
    OBVIOUS
  <2> HIDE DEF back
  <2> QED BY <2>2, <2>3
<1> HIDE DEF back
<1>6. Rec(list)
  BY <1>5
<1> HIDE DEF list
<1>7. list[Len(ws)] = back[Len(ws)]
  <2> DEFINE P == {n \in 0..Len(ws) : list[n] = back[n]}
  <2>1. 0 \in P
    BY <1>2, <1>5, <1>6
  <2>2. ASSUME NEW n \in 1..Len(ws), n - 1 \in P
        PROVE  n \in P
    <3>1. n \in 0..Len(ws) /\ n # 0
      BY <1>2
    <3>2. list[n] = <<ws[n]>> \o list[n - 1]
      BY <1>6, <3>1
    <3>3. back[n] = <<ws[n]>> \o back[n - 1]
      BY <1>4
    <3>4. list[n - 1] = back[n - 1]
      BY <2>2
    <3> QED BY <3>1, <3>2, <3>3, <3>4
  <2> HIDE DEF P
  <2>3. \A n \in 0..Len(ws) : n \in P
    BY <1>2, <2>1, <2>2, UpTo
  <2> QED BY <1>2, <2>3 DEF P
<1>8. Reverse(back[Len(ws)]) = ws
  <2> DEFINE a == back[Len(ws)]
  <2>1. a = [i \in 1..Len(ws) |-> ws[Len(ws) - i + 1]]
    BY <1>2 DEF back
  <2> HIDE DEF a
  <2>2. a \in [1..Len(ws) -> S]
    BY <1>2, <2>1
  <2>3. Len(a) = Len(ws)
    BY <1>2, <2>2
  <2>4. Reverse(a) = [i \in 1..Len(ws) |-> a[(Len(ws) - i) + 1]]
    BY <2>3 DEF Reverse
  <2>5. \A i \in 1..Len(ws) : a[(Len(ws) - i) + 1] = ws[i]
    BY <1>2, <2>1
  <2>6. ws = [i \in 1..Len(ws) |-> ws[i]]
    BY <1>2
  <2> QED BY <2>4, <2>5, <2>6 DEF a
<1> QED BY <1>1, <1>7, <1>8

-----------------------------------------------------------------------------
(* NTP servers *)

LEMMA NTPBack ==
    ASSUME NEW s \in NTPMessage
    PROVE  NTPRead(s) \in NTP /\ NTPSent(NTPRead(s)) = s
<1> DEFINE r == [i \in DOMAIN s.servers |-> GetString(s.servers[i])]
           a == [i \in DOMAIN r |-> AppendString(r[i])]
<1>1. s.servers \in Seq(Strings) /\ s = [kind |-> "ntp", servers |-> s.servers]
  BY DEF NTPMessage
<1>2. NTPRead(s) = [kind |-> "ntp", servers |-> r]
  BY DEF NTPRead, Each
<1>3. \A i \in DOMAIN s.servers : s.servers[i] \in Strings
  BY <1>1
<1>4. r \in [DOMAIN s.servers -> Pointers]
  BY <1>3, StringBack
<1>5. r \in Seq(Pointers) /\ DOMAIN r = DOMAIN s.servers
  BY <1>1, <1>4, SeqMade
<1>6. \A i \in DOMAIN s.servers : AppendString(r[i]) = s.servers[i]
  BY <1>3, StringBack
<1>7. s.servers = [i \in DOMAIN s.servers |-> s.servers[i]]
  BY <1>1
<1> HIDE DEF r
<1>8. a = s.servers
  BY <1>5, <1>6, <1>7
<1>9. NTPSent(NTPRead(s)) = [kind |-> "ntp", servers |-> a]
  BY <1>2 DEF NTPSent, Each
<1> QED BY <1>1, <1>2, <1>5, <1>8, <1>9 DEF NTP

LEMMA NTPSentType ==
    ASSUME NEW s \in NTP
    PROVE  /\ NTPSent(s) \in NTPMessage
           /\ NTPSent(s) = [kind |-> "ntp", servers |-> NTPSent(s).servers]
<1> DEFINE a == [i \in DOMAIN s.servers |-> AppendString(s.servers[i])]
<1>1. s.servers \in Seq(Pointers)
  BY DEF NTP
<1>2. NTPSent(s) = [kind |-> "ntp", servers |-> a]
  BY DEF NTPSent, Each
<1>3. a \in [DOMAIN s.servers -> Strings]
  BY <1>1, AppendType
<1>4. a \in Seq(Strings)
  BY <1>1, <1>3, SeqMade
<1> HIDE DEF a
<1> QED BY <1>2, <1>4 DEF NTPMessage

LEMMA NTPEdit ==
    ASSUME NEW s \in NTP, NEW l \in NTPEdits(s)
    PROVE  l \in NTP
<1>1. s.servers \in Seq(Pointers) /\ s.kind = "ntp"
  BY DEF NTP
<1>2. PICK v \in Inserted(s.servers, Pointers) \cup Removed(s.servers)
                 \cup Changed(s.servers, SetServer) : l = [s EXCEPT !.servers = v]
  BY DEF NTPEdits
<1>3. v \in Seq(Pointers)
  <2>1. CASE v \in Inserted(s.servers, Pointers)
    BY <1>1, <2>1, InsertType
  <2>2. CASE v \in Removed(s.servers)
    BY <1>1, <2>2, RemoveType
  <2>3. CASE v \in Changed(s.servers, SetServer)
    <3>1. PICK i \in DOMAIN s.servers :
            \E x \in SetServer(s.servers[i]) : v = [s.servers EXCEPT ![i] = x]
      BY <2>3 DEF Changed
    <3>2. PICK x \in Pointers : v = [s.servers EXCEPT ![i] = x]
      BY <3>1 DEF SetServer
    <3> QED BY <1>1, <3>2
  <2> QED BY <1>2, <2>1, <2>2, <2>3
<1> QED BY <1>2, <1>3 DEF NTP

-----------------------------------------------------------------------------
(* Hosts *)

LEMMA HostParts ==
    ASSUME NEW S, NEW h \in StaticHost(S)
    PROVE  /\ h = [ip_address |-> h.ip_address, aliases |-> h.aliases]
           /\ h.ip_address \in S /\ h.aliases \in Seq(Names)
  BY DEF StaticHost

LEMMA HostBack ==
    ASSUME NEW h \in StaticHost(Strings)
    PROVE  HostRead(h) \in StaticHost(Pointers) /\ HostSent(HostRead(h)) = h
<1>1. /\ h = [ip_address |-> h.ip_address, aliases |-> h.aliases]
      /\ h.ip_address \in Strings /\ h.aliases \in Seq(Names)
  BY HostParts
<1>2. GetStrings(h.aliases) = h.aliases
  BY <1>1, GetStringsIs
<1>3. HostRead(h) = [ip_address |-> GetString(h.ip_address), aliases |-> h.aliases]
  BY <1>2 DEF HostRead
<1>4. HostSent(HostRead(h)) =
        [ip_address |-> AppendString(GetString(h.ip_address)), aliases |-> h.aliases]
  BY <1>3 DEF HostSent
<1> QED BY <1>1, <1>3, <1>4, StringBack DEF StaticHost

LEMMA HostSentType ==
    ASSUME NEW h \in StaticHost(Pointers)
    PROVE  HostSent(h) \in StaticHost(Strings)
<1>1. /\ h = [ip_address |-> h.ip_address, aliases |-> h.aliases]
      /\ h.ip_address \in Pointers /\ h.aliases \in Seq(Names)
  BY HostParts
<1>2. HostSent(h) = [ip_address |-> AppendString(h.ip_address), aliases |-> h.aliases]
  BY <1>1 DEF HostSent
<1> QED BY <1>1, <1>2, AppendType DEF StaticHost

LEMMA HostsParts ==
    ASSUME NEW S, NEW s \in Hosts(S)
    PROVE  /\ s = [kind |-> "hosts", hostname |-> s.hostname, domain |-> s.domain,
                   static_hosts |-> s.static_hosts, dns_list |-> s.dns_list,
                   search_domains_list |-> s.search_domains_list]
           /\ s.kind = "hosts" /\ s.hostname \in S /\ s.domain \in S
           /\ s.static_hosts \in Seq(StaticHost(S))
           /\ s.dns_list \in Seq(Names) /\ s.search_domains_list \in Seq(Names)
  BY DEF Hosts

LEMMA HostsSentIs ==
    ASSUME NEW S, NEW s \in Hosts(S)
    PROVE  HostsSent(s) =
             [kind |-> "hosts", hostname |-> AppendString(s.hostname),
              domain |-> AppendString(s.domain),
              static_hosts |-> [i \in DOMAIN s.static_hosts |-> HostSent(s.static_hosts[i])],
              dns_list |-> s.dns_list, search_domains_list |-> s.search_domains_list]
<1> DEFINE a == [i \in DOMAIN s.static_hosts |-> HostSent(s.static_hosts[i])]
<1>1. HostsSent(s) = [s EXCEPT !.hostname = AppendString(s.hostname),
                               !.domain = AppendString(s.domain), !.static_hosts = a]
  BY DEF HostsSent, Each
<1> HIDE DEF a
<1>2. HostsSent(s) =
        [kind |-> "hosts", hostname |-> AppendString(s.hostname),
         domain |-> AppendString(s.domain), static_hosts |-> a,
         dns_list |-> s.dns_list, search_domains_list |-> s.search_domains_list]
  BY <1>1 DEF Hosts
<1> QED BY <1>2 DEF a

LEMMA HostsBack ==
    ASSUME NEW s \in Hosts(Strings)
    PROVE  HostsRead(s) \in Hosts(Pointers) /\ HostsSent(HostsRead(s)) = s
<1> DEFINE hosts == s.static_hosts
           r == [i \in DOMAIN hosts |-> HostRead(hosts[i])]
           t == HostsRead(s)
<1>1. /\ s = [kind |-> "hosts", hostname |-> s.hostname, domain |-> s.domain,
              static_hosts |-> s.static_hosts, dns_list |-> s.dns_list,
              search_domains_list |-> s.search_domains_list]
      /\ s.hostname \in Strings /\ s.domain \in Strings
      /\ hosts \in Seq(StaticHost(Strings))
      /\ s.dns_list \in Seq(Names) /\ s.search_domains_list \in Seq(Names)
  BY HostsParts
<1>2. GetStrings(s.dns_list) = s.dns_list
      /\ GetStrings(s.search_domains_list) = s.search_domains_list
  BY <1>1, GetStringsIs
<1>3. t = [kind |-> "hosts", hostname |-> GetString(s.hostname),
           domain |-> GetString(s.domain), static_hosts |-> r, dns_list |-> s.dns_list,
           search_domains_list |-> s.search_domains_list]
  BY <1>2 DEF HostsRead, Each
<1>4. \A i \in DOMAIN hosts : hosts[i] \in StaticHost(Strings)
  BY <1>1
<1>5. r \in [DOMAIN hosts -> StaticHost(Pointers)]
  BY <1>4, HostBack
<1>6. r \in Seq(StaticHost(Pointers)) /\ DOMAIN r = DOMAIN hosts
  BY <1>1, <1>5, SeqMade
<1>7. \A i \in DOMAIN hosts : HostSent(r[i]) = hosts[i]
  BY <1>4, HostBack
<1>8. hosts = [i \in DOMAIN hosts |-> hosts[i]]
  BY <1>1
<1>9. GetString(s.hostname) \in Pointers /\ GetString(s.domain) \in Pointers
      /\ AppendString(GetString(s.hostname)) = s.hostname
      /\ AppendString(GetString(s.domain)) = s.domain
  BY <1>1, StringBack
<1> HIDE DEF r, t
<1>10. t \in Hosts(Pointers)
  BY <1>1, <1>3, <1>6, <1>9 DEF Hosts
<1>11. [i \in DOMAIN t.static_hosts |-> HostSent(t.static_hosts[i])] = hosts
  <2>1. t.static_hosts = r
    BY <1>3
  <2> QED BY <1>6, <1>7, <1>8, <2>1
<1>12. HostsSent(t) =
         [kind |-> "hosts", hostname |-> AppendString(t.hostname),
          domain |-> AppendString(t.domain),
          static_hosts |-> [i \in DOMAIN t.static_hosts |-> HostSent(t.static_hosts[i])],
          dns_list |-> t.dns_list, search_domains_list |-> t.search_domains_list]
  BY <1>10, HostsSentIs
<1>13. HostsSent(t) =
         [kind |-> "hosts", hostname |-> s.hostname, domain |-> s.domain, static_hosts |-> hosts,
          dns_list |-> s.dns_list, search_domains_list |-> s.search_domains_list]
  BY <1>3, <1>9, <1>11, <1>12
<1> QED BY <1>1, <1>10, <1>13 DEF t

LEMMA HostsSentType ==
    ASSUME NEW s \in Hosts(Pointers)
    PROVE  HostsSent(s) \in Hosts(Strings)
<1> DEFINE a == [i \in DOMAIN s.static_hosts |-> HostSent(s.static_hosts[i])]
<1>1. /\ s.hostname \in Pointers /\ s.domain \in Pointers
      /\ s.static_hosts \in Seq(StaticHost(Pointers))
      /\ s.dns_list \in Seq(Names) /\ s.search_domains_list \in Seq(Names)
  BY HostsParts
<1>2. HostsSent(s) =
        [kind |-> "hosts", hostname |-> AppendString(s.hostname),
         domain |-> AppendString(s.domain), static_hosts |-> a,
         dns_list |-> s.dns_list, search_domains_list |-> s.search_domains_list]
  BY HostsSentIs
<1>3. a \in [DOMAIN s.static_hosts -> StaticHost(Strings)]
  BY <1>1, HostSentType
<1>4. a \in Seq(StaticHost(Strings))
  BY <1>1, <1>3, SeqMade
<1>5. AppendString(s.hostname) \in Strings /\ AppendString(s.domain) \in Strings
  BY <1>1, AppendType
<1> HIDE DEF a
<1> QED BY <1>1, <1>2, <1>4, <1>5 DEF Hosts

\* A change of the hosts is one of one field.
LEMMA HostsEdit ==
    ASSUME NEW s \in Hosts(Pointers), NEW l \in HostsEdits(s)
    PROVE  /\ l \in Hosts(Pointers)
           /\ \/ \E v \in Pointers : l = [s EXCEPT !.hostname = v]
              \/ \E v \in Pointers : l = [s EXCEPT !.domain = v]
              \/ \E v \in Seq(Names) : l = [s EXCEPT !.dns_list = v]
              \/ \E v \in Seq(Names) : l = [s EXCEPT !.search_domains_list = v]
              \/ \E v \in Seq(StaticHost(Pointers)) : l = [s EXCEPT !.static_hosts = v]
<1>1. /\ s.hostname \in Pointers /\ s.domain \in Pointers
      /\ s.static_hosts \in Seq(StaticHost(Pointers))
      /\ s.dns_list \in Seq(Names) /\ s.search_domains_list \in Seq(Names)
      /\ s.kind = "hosts"
  BY HostsParts
<1>2. CASE \E n \in Passed : l = SetHostname(s, n)
  <2>1. PICK n \in Passed : l = SetHostname(s, n)
    BY <1>2
  <2>2. l = s \/ l = [s EXCEPT !.hostname = n]
    BY <2>1 DEF SetHostname
  <2>3. l = [s EXCEPT !.hostname = s.hostname] \/ l = [s EXCEPT !.hostname = n]
    BY <2>2 DEF Hosts
  <2>4. \E v \in Pointers : l = [s EXCEPT !.hostname = v]
    BY <1>1, <2>3, StringTypes
  <2> QED BY <2>4 DEF Hosts
<1>3. CASE \E n \in Passed : l = SetDomainname(s, n)
  <2>1. PICK n \in Passed : l = [s EXCEPT !.domain = GetString(n)]
    BY <1>3 DEF SetDomainname
  <2>2. GetString(n) \in Pointers
    BY StringTypes DEF GetString
  <2> QED BY <2>1, <2>2 DEF Hosts
<1>4. CASE \E v \in Lists(Names) : l = SetDnsServers(s, v)
  <2>1. PICK v \in Lists(Names) : l = [s EXCEPT !.dns_list = v]
    BY <1>4 DEF SetDnsServers
  <2>2. v \in Seq(Names)
    BY LengthAssumption, ListType DEF Lists
  <2> QED BY <2>1, <2>2 DEF Hosts
<1>5. CASE \E v \in Lists(Names) : l = SetSearchDomains(s, v)
  <2>1. PICK v \in Lists(Names) : l = [s EXCEPT !.search_domains_list = v]
    BY <1>5 DEF SetSearchDomains
  <2>2. v \in Seq(Names)
    BY LengthAssumption, ListType DEF Lists
  <2> QED BY <2>1, <2>2 DEF Hosts
<1> DEFINE new == {NewHost(n, <<>>) : n \in Texts}
<1>6. CASE \E v \in Inserted(s.static_hosts, new) \cup Removed(s.static_hosts)
                    \cup Changed(s.static_hosts, HostEdits) : l = [s EXCEPT !.static_hosts = v]
  <2>1. PICK v \in Inserted(s.static_hosts, new) \cup Removed(s.static_hosts)
                     \cup Changed(s.static_hosts, HostEdits) : l = [s EXCEPT !.static_hosts = v]
    BY <1>6
  <2>2. v \in Seq(StaticHost(Pointers))
    <3>1. CASE v \in Inserted(s.static_hosts, new)
      <4>1. new \subseteq StaticHost(Pointers)
        <5>1. <<>> \in Seq(Names)
          OBVIOUS
        <5>2. \A n \in Texts : n \in Pointers
          BY StringTypes
        <5>3. \A n \in Texts : NewHost(n, <<>>) \in StaticHost(Pointers)
          BY <5>1, <5>2 DEF NewHost, StaticHost
        <5> QED BY <5>3
      <4> HIDE DEF new
      <4> QED BY <1>1, <3>1, <4>1, InsertType
    <3>2. CASE v \in Removed(s.static_hosts)
      BY <1>1, <3>2, RemoveType
    <3>3. CASE v \in Changed(s.static_hosts, HostEdits)
      <4>1. PICK i \in DOMAIN s.static_hosts :
              \E x \in HostEdits(s.static_hosts[i]) : v = [s.static_hosts EXCEPT ![i] = x]
        BY <3>3 DEF Changed
      <4>2. s.static_hosts[i] \in StaticHost(Pointers)
        BY <1>1
      <4>3. PICK x \in HostEdits(s.static_hosts[i]) : v = [s.static_hosts EXCEPT ![i] = x]
        BY <4>1
      <4> DEFINE h == s.static_hosts[i]
      <4>4. x \in StaticHost(Pointers)
        <5>1. CASE \E p \in Passed : x = [h EXCEPT !.ip_address = p]
          BY <4>2, <5>1, StringTypes DEF StaticHost
        <5>2. CASE \E q \in Short(Names) : x = [h EXCEPT !.aliases = q]
          <6>1. PICK q \in Short(Names) : x = [h EXCEPT !.aliases = q]
            BY <5>2
          <6>2. q \in Seq(Names)
            BY ListType DEF Short
          <6> QED BY <4>2, <6>1, <6>2 DEF StaticHost
        <5> QED BY <4>3, <5>1, <5>2 DEF HostEdits
      <4> QED BY <1>1, <4>3, <4>4
    <3> QED BY <2>1, <3>1, <3>2, <3>3
  <2> QED BY <2>1, <2>2 DEF Hosts
<1> QED BY <1>2, <1>3, <1>4, <1>5, <1>6 DEF HostsEdits

-----------------------------------------------------------------------------
(* NFS shares *)

\* A client of a share, as it is read.
AclRead(c) == [element |-> GetString(c.element), read_only |-> c.read_only]

AclSent(c) == [c EXCEPT !.element = AppendString(c.element)]

LEMMA AclBack ==
    ASSUME NEW c \in Acl(Strings)
    PROVE  AclRead(c) \in Acl(Pointers) /\ AclSent(AclRead(c)) = c
<1>1. c = [element |-> c.element, read_only |-> c.read_only] /\ c.element \in Strings
      /\ c.read_only \in {0, 1}
  BY DEF Acl
<1>2. AclSent(AclRead(c)) =
        [element |-> AppendString(GetString(c.element)), read_only |-> c.read_only]
  BY DEF AclRead, AclSent
<1> QED BY <1>1, <1>2, StringBack DEF AclRead, Acl

LEMMA AclSentType ==
    ASSUME NEW c \in Acl(Pointers)
    PROVE  AclSent(c) \in Acl(Strings)
<1>1. c.element \in Pointers
  BY DEF Acl
<1> QED BY <1>1, AppendType DEF AclSent, Acl

LEMMA NFSShareParts ==
    ASSUME NEW S, NEW m \in NFSShare(S)
    PROVE  /\ m = [path |-> m.path, acl |-> m.acl]
           /\ m.path \in S /\ m.acl \in Seq(Acl(S))
  BY DEF NFSShare

LEMMA AddAclIs ==
    ASSUME NEW p, NEW q, NEW e, NEW r
    PROVE  AddAcl([path |-> p, acl |-> q], e, r) =
             [path |-> p, acl |-> Append(q, [element |-> e, read_only |-> r])]
  BY DEF AddAcl

\* The clients are added one by one, in their order.
LEMMA NFSShareReadIs ==
    ASSUME NEW m \in NFSShare(Strings)
    PROVE  NFSShareRead(m) =
             [path |-> GetString(m.path), acl |-> [i \in DOMAIN m.acl |-> AclRead(m.acl[i])]]
<1> DEFINE N == Len(m.acl)
           First == NewNFSShare(GetString(m.path))
           Added(share, n) == AddAcl(share, GetString(m.acl[n].element), m.acl[n].read_only)
           Rec(f) == f = [n \in 0..N |-> IF n = 0 THEN First ELSE Added(f[n - 1], n)]
           share == CHOOSE f : Rec(f)
           acl(n) == [i \in 1..n |-> AclRead(m.acl[i])]
           made == [n \in 0..N |-> [path |-> GetString(m.path), acl |-> acl(n)]]
<1>1. NFSShareRead(m) = share[N]
  BY DEF NFSShareRead
<1>2. m.acl \in Seq(Acl(Strings)) /\ N \in Nat /\ DOMAIN m.acl = 1..N
  BY NFSShareParts
<1>3. made[0] = First
  <2>1. acl(0) = <<>>
    OBVIOUS
  <2>2. 0 \in 0..N
    BY <1>2
  <2> QED BY <2>1, <2>2 DEF NewNFSShare
<1>4. ASSUME NEW n \in 1..N
      PROVE  made[n] = Added(made[n - 1], n)
  <2>1. n - 1 \in 0..N /\ n \in 0..N /\ n \in Nat /\ n - 1 \in Nat
    BY <1>2
  <2>2. \A i \in 1..n : m.acl[i] \in Acl(Strings)
    BY <1>2, <2>1
  <2>3. acl(n) \in [1..n -> Acl(Pointers)] /\ acl(n - 1) \in [1..(n - 1) -> Acl(Pointers)]
    BY <2>1, <2>2, AclBack
  <2>4. acl(n) = Append(acl(n - 1), AclRead(m.acl[n]))
    <3> DEFINE a == acl(n)
               b == acl(n - 1)
    <3>1. a \in Seq(Acl(Pointers)) /\ b \in Seq(Acl(Pointers)) /\ Len(a) = n /\ Len(b) = n - 1
      BY <2>1, <2>3
    <3>2. \A i \in 1..n : a[i] = AclRead(m.acl[i])
      OBVIOUS
    <3>3. \A i \in 1..(n - 1) : b[i] = AclRead(m.acl[i])
      OBVIOUS
    <3>4. AclRead(m.acl[n]) \in Acl(Pointers)
      BY <2>1, <2>2, AclBack
    <3> HIDE DEF a, b, acl
    <3>5. Append(b, AclRead(m.acl[n])) \in Seq(Acl(Pointers))
          /\ Len(Append(b, AclRead(m.acl[n]))) = n
      BY <2>1, <3>1, <3>4
    <3>6. \A i \in 1..n : a[i] = Append(b, AclRead(m.acl[n]))[i]
      BY <2>1, <3>1, <3>2, <3>3, <3>4
    <3>7. a = Append(b, AclRead(m.acl[n]))
      BY <3>1, <3>5, <3>6
    <3> QED BY <3>7 DEF a, b
  <2>5. made[n - 1] = [path |-> GetString(m.path), acl |-> acl(n - 1)]
        /\ made[n] = [path |-> GetString(m.path), acl |-> acl(n)]
    BY <2>1
  <2> HIDE DEF acl, made
  <2>6. Added(made[n - 1], n) =
          [path |-> GetString(m.path), acl |-> Append(acl(n - 1), AclRead(m.acl[n]))]
    BY <2>5, AddAclIs DEF AclRead
  <2> QED BY <2>4, <2>5, <2>6
<1>5. Rec(made)
  <2>1. \A n \in 0..N : made[n] = IF n = 0 THEN First ELSE Added(made[n - 1], n)
    <3> SUFFICES ASSUME NEW n \in 0..N
                 PROVE  made[n] = IF n = 0 THEN First ELSE Added(made[n - 1], n)
      OBVIOUS
    <3> HIDE DEF made, First, Added
    <3>1. CASE n = 0
      BY <1>3, <3>1
    <3>2. CASE n # 0
      <4>1. n \in 1..N
        BY <1>2, <3>2
      <4> QED BY <1>4, <3>2, <4>1
    <3> QED BY <3>1, <3>2
  <2>2. made = [n \in 0..N |-> made[n]]
    OBVIOUS
  <2> HIDE DEF made, First, Added
  <2> QED BY <2>1, <2>2
<1> HIDE DEF made, First, Added
<1>6. Rec(share)
  BY <1>5
<1> HIDE DEF share
<1>7. share[N] = made[N]
  <2> DEFINE P == {n \in 0..N : share[n] = made[n]}
  <2>1. 0 \in P
    BY <1>2, <1>5, <1>6
  <2>2. ASSUME NEW n \in 1..N, n - 1 \in P
        PROVE  n \in P
    <3>1. n \in 0..N /\ n # 0
      BY <1>2
    <3>2. share[n] = Added(share[n - 1], n)
      BY <1>6, <3>1
    <3>3. made[n] = Added(made[n - 1], n)
      BY <1>4
    <3>4. share[n - 1] = made[n - 1]
      BY <2>2
    <3> QED BY <3>1, <3>2, <3>3, <3>4
  <2> HIDE DEF P
  <2>3. \A n \in 0..N : n \in P
    BY <1>2, <2>1, <2>2, UpTo
  <2> QED BY <1>2, <2>3 DEF P
<1>8. made[N] = [path |-> GetString(m.path), acl |-> [i \in DOMAIN m.acl |-> AclRead(m.acl[i])]]
  BY <1>2 DEF made
<1> QED BY <1>1, <1>7, <1>8

LEMMA NFSShareSentIs ==
    ASSUME NEW S, NEW s \in NFSShare(S)
    PROVE  NFSShareSent(s) =
             [path |-> AppendString(s.path), acl |-> [i \in DOMAIN s.acl |-> AclSent(s.acl[i])]]
  BY DEF NFSShareSent, Each, AclSent

LEMMA NFSShareBack ==
    ASSUME NEW m \in NFSShare(Strings)
    PROVE  NFSShareRead(m) \in NFSShare(Pointers) /\ NFSShareSent(NFSShareRead(m)) = m
<1> DEFINE r == [i \in DOMAIN m.acl |-> AclRead(m.acl[i])]
           t == NFSShareRead(m)
<1>1. /\ m = [path |-> m.path, acl |-> m.acl]
      /\ m.path \in Strings /\ m.acl \in Seq(Acl(Strings))
  BY NFSShareParts
<1>2. t = [path |-> GetString(m.path), acl |-> r]
  BY NFSShareReadIs
<1>3. \A i \in DOMAIN m.acl : m.acl[i] \in Acl(Strings)
  BY <1>1
<1>4. r \in [DOMAIN m.acl -> Acl(Pointers)]
  BY <1>3, AclBack
<1>5. r \in Seq(Acl(Pointers)) /\ DOMAIN r = DOMAIN m.acl
  BY <1>1, <1>4, SeqMade
<1>6. \A i \in DOMAIN m.acl : AclSent(r[i]) = m.acl[i]
  BY <1>3, AclBack
<1>7. m.acl = [i \in DOMAIN m.acl |-> m.acl[i]]
  BY <1>1
<1> HIDE DEF r, t
<1>8. t \in NFSShare(Pointers)
  BY <1>1, <1>2, <1>5, StringBack DEF NFSShare
<1>9. [i \in DOMAIN t.acl |-> AclSent(t.acl[i])] = m.acl
  <2>1. t.acl = r
    BY <1>2
  <2> QED BY <1>5, <1>6, <1>7, <2>1
<1>10. NFSShareSent(t) =
         [path |-> AppendString(t.path), acl |-> [i \in DOMAIN t.acl |-> AclSent(t.acl[i])]]
  BY <1>8, NFSShareSentIs
<1>11. AppendString(t.path) = m.path
  BY <1>1, <1>2, StringBack
<1>12. NFSShareSent(t) = m
  BY <1>1, <1>9, <1>10, <1>11
<1> QED BY <1>8, <1>12 DEF t

LEMMA NFSShareSentType ==
    ASSUME NEW s \in NFSShare(Pointers)
    PROVE  NFSShareSent(s) \in NFSShare(Strings)
<1> DEFINE a == [i \in DOMAIN s.acl |-> AclSent(s.acl[i])]
<1>1. s.path \in Pointers /\ s.acl \in Seq(Acl(Pointers))
  BY NFSShareParts
<1>2. NFSShareSent(s) = [path |-> AppendString(s.path), acl |-> a]
  BY NFSShareSentIs
<1>3. a \in [DOMAIN s.acl -> Acl(Strings)]
  BY <1>1, AclSentType
<1>4. a \in Seq(Acl(Strings))
  BY <1>1, <1>3, SeqMade
<1> HIDE DEF a
<1> QED BY <1>1, <1>2, <1>4, AppendType DEF NFSShare

LEMMA NFSParts ==
    ASSUME NEW S, NEW s \in NFS(S)
    PROVE  /\ s = [kind |-> "nfs", shares |-> s.shares] /\ s.kind = "nfs"
           /\ s.shares \in Seq(NFSShare(S))
  BY DEF NFS

LEMMA NFSSentIs ==
    ASSUME NEW S, NEW s \in NFS(S)
    PROVE  NFSSent(s) =
             [kind |-> "nfs", shares |-> [i \in DOMAIN s.shares |-> NFSShareSent(s.shares[i])]]
<1> DEFINE a == [i \in DOMAIN s.shares |-> NFSShareSent(s.shares[i])]
<1>1. NFSSent(s) = [s EXCEPT !.shares = a]
  BY DEF NFSSent, Each
<1> HIDE DEF a
<1>2. NFSSent(s) = [kind |-> "nfs", shares |-> a]
  BY <1>1 DEF NFS
<1> QED BY <1>2 DEF a

LEMMA NFSBack ==
    ASSUME NEW s \in NFS(Strings)
    PROVE  NFSRead(s) \in NFS(Pointers) /\ NFSSent(NFSRead(s)) = s
<1> DEFINE r == [i \in DOMAIN s.shares |-> NFSShareRead(s.shares[i])]
           t == NFSRead(s)
<1>1. s = [kind |-> "nfs", shares |-> s.shares] /\ s.shares \in Seq(NFSShare(Strings))
  BY NFSParts
<1>2. t = [s EXCEPT !.shares = r]
  BY DEF NFSRead, Each
<1>3. \A i \in DOMAIN s.shares : s.shares[i] \in NFSShare(Strings)
  BY <1>1
<1>4. r \in [DOMAIN s.shares -> NFSShare(Pointers)]
  BY <1>3, NFSShareBack
<1>5. r \in Seq(NFSShare(Pointers)) /\ DOMAIN r = DOMAIN s.shares
  BY <1>1, <1>4, SeqMade
<1>6. \A i \in DOMAIN s.shares : NFSShareSent(r[i]) = s.shares[i]
  BY <1>3, NFSShareBack
<1>7. s.shares = [i \in DOMAIN s.shares |-> s.shares[i]]
  BY <1>1
<1> HIDE DEF r, t
<1>8. t = [kind |-> "nfs", shares |-> r]
  BY <1>2 DEF NFS
<1>9. t \in NFS(Pointers)
  BY <1>5, <1>8 DEF NFS
<1>10. [i \in DOMAIN t.shares |-> NFSShareSent(t.shares[i])] = s.shares
  <2>1. t.shares = r
    BY <1>8
  <2> QED BY <1>5, <1>6, <1>7, <2>1
<1>11. NFSSent(t) =
         [kind |-> "nfs", shares |-> [i \in DOMAIN t.shares |-> NFSShareSent(t.shares[i])]]
  BY <1>9, NFSSentIs
<1>12. NFSSent(t) = s
  BY <1>1, <1>10, <1>11
<1> QED BY <1>9, <1>12 DEF t

LEMMA NFSSentType ==
    ASSUME NEW s \in NFS(Pointers)
    PROVE  /\ NFSSent(s) \in NFS(Strings)
           /\ NFSSent(s) = [kind |-> "nfs", shares |-> NFSSent(s).shares]
<1> DEFINE a == [i \in DOMAIN s.shares |-> NFSShareSent(s.shares[i])]
<1>1. s.shares \in Seq(NFSShare(Pointers))
  BY NFSParts
<1>2. NFSSent(s) = [kind |-> "nfs", shares |-> a]
  BY NFSSentIs
<1>3. a \in [DOMAIN s.shares -> NFSShare(Strings)]
  BY <1>1, NFSShareSentType
<1>4. a \in Seq(NFSShare(Strings))
  BY <1>1, <1>3, SeqMade
<1> HIDE DEF a
<1> QED BY <1>2, <1>4 DEF NFS

LEMMA AddAclType ==
    ASSUME NEW h \in NFSShare(Pointers), NEW e \in Pointers, NEW r \in {0, 1}
    PROVE  AddAcl(h, e, r) \in NFSShare(Pointers)
<1>1. [element |-> e, read_only |-> r] \in Acl(Pointers)
  BY DEF Acl
<1>2. h.acl \in Seq(Acl(Pointers))
  BY NFSShareParts
<1>3. Append(h.acl, [element |-> e, read_only |-> r]) \in Seq(Acl(Pointers))
  BY <1>1, <1>2
<1> QED BY <1>3 DEF AddAcl, NFSShare

LEMMA NFSShareEdit ==
    ASSUME NEW h \in NFSShare(Pointers), NEW x \in NFSShareEdits(h)
    PROVE  x \in NFSShare(Pointers)
<1>1. CASE \E p \in Pointers : x = SetPath(h, p)
  BY <1>1 DEF SetPath, NFSShare
<1>2. CASE \E l \in Removed(h.acl) : x = [h EXCEPT !.acl = l]
  <2>1. PICK l \in Removed(h.acl) : x = [h EXCEPT !.acl = l]
    BY <1>2
  <2>2. l \in Seq(Acl(Pointers))
    BY NFSShareParts, RemoveType
  <2> QED BY <2>1, <2>2 DEF NFSShare
<1>3. CASE \E e \in Texts, r \in {0, 1} : x = AddAcl(h, e, r)
  <2>1. PICK e \in Texts, r \in {0, 1} : x = AddAcl(h, e, r)
    BY <1>3
  <2>2. e \in Pointers
    BY StringTypes
  <2> QED BY <2>1, <2>2, AddAclType
<1> QED BY <1>1, <1>2, <1>3 DEF NFSShareEdits

LEMMA NFSEdit ==
    ASSUME NEW s \in NFS(Pointers), NEW l \in NFSEdits(s)
    PROVE  l \in NFS(Pointers)
<1> DEFINE new == {NewNFSShare(p) : p \in Names}
<1>1. s.shares \in Seq(NFSShare(Pointers))
  BY NFSParts
<1>2. PICK v \in Inserted(s.shares, new) \cup Removed(s.shares)
                 \cup Changed(s.shares, NFSShareEdits) : l = [s EXCEPT !.shares = v]
  BY DEF NFSEdits
<1>3. v \in Seq(NFSShare(Pointers))
  <2>1. CASE v \in Inserted(s.shares, new)
    <3>1. <<>> \in Seq(Acl(Pointers))
      OBVIOUS
    <3>2. \A p \in Names : p \in Pointers
      BY StringTypes
    <3>3. \A p \in Names : NewNFSShare(p) \in NFSShare(Pointers)
      BY <3>1, <3>2 DEF NewNFSShare, NFSShare
    <3>4. new \subseteq NFSShare(Pointers)
      BY <3>3
    <3> HIDE DEF new
    <3> QED BY <1>1, <2>1, <3>4, InsertType
  <2>2. CASE v \in Removed(s.shares)
    BY <1>1, <2>2, RemoveType
  <2>3. CASE v \in Changed(s.shares, NFSShareEdits)
    <3>1. PICK i \in DOMAIN s.shares :
            \E x \in NFSShareEdits(s.shares[i]) : v = [s.shares EXCEPT ![i] = x]
      BY <2>3 DEF Changed
    <3>2. PICK x \in NFSShareEdits(s.shares[i]) : v = [s.shares EXCEPT ![i] = x]
      BY <3>1
    <3>3. s.shares[i] \in NFSShare(Pointers)
      BY <1>1
    <3>4. x \in NFSShare(Pointers)
      BY <3>3, NFSShareEdit
    <3> QED BY <1>1, <3>2, <3>4
  <2> QED BY <1>2, <2>1, <2>2, <2>3
<1> QED BY <1>2, <1>3 DEF NFS

-----------------------------------------------------------------------------
(* SMB shares *)

SystemShares == SMBShare(Strings, SUBSET Flags)
LibShares == SMBShare(Pointers, SUBSET Flags)

\* A share in a reply, and in a request as the backend understands it.
Told(x) == [x EXCEPT !.flags = [f \in Flags |-> IF f \in x.flags THEN 1 ELSE 0]]
Taken(m) == [m EXCEPT !.flags = {f \in Flags : m.flags[f] # 0}]

ShareRead(x) == SMBShareRead(Told(x))
ShareSent(y) == Taken(SMBShareSent(y))

LEMMA SMBShareParts ==
    ASSUME NEW S, NEW F, NEW x \in SMBShare(S, F)
    PROVE  /\ x = [name |-> x.name, path |-> x.path, comment |-> x.comment, flags |-> x.flags]
           /\ x.name \in S /\ x.path \in S /\ x.comment \in S /\ x.flags \in F
  BY DEF SMBShare

LEMMA ShareReadIs ==
    ASSUME NEW x \in SystemShares
    PROVE  ShareRead(x) = [name |-> GetString(x.name), path |-> GetString(x.path),
                           comment |-> GetString(x.comment), flags |-> x.flags]
<1> DEFINE t == [f \in Flags |-> IF f \in x.flags THEN 1 ELSE 0]
<1>1. /\ x = [name |-> x.name, path |-> x.path, comment |-> x.comment, flags |-> x.flags]
      /\ x.flags \in SUBSET Flags
  BY SMBShareParts DEF SystemShares
<1>2. FlagsRead(t) = x.flags
  BY <1>1 DEF FlagsRead
<1>3. Told(x) = [x EXCEPT !.flags = t]
  BY DEF Told
<1> HIDE DEF t
<1>4. Told(x) = [name |-> x.name, path |-> x.path, comment |-> x.comment, flags |-> t]
  BY <1>3 DEF SystemShares, SMBShare
<1> QED BY <1>2, <1>4 DEF ShareRead, SMBShareRead

LEMMA ShareSentIs ==
    ASSUME NEW y, y.flags \in SUBSET Flags
    PROVE  ShareSent(y) = [name |-> AppendString(y.name), path |-> AppendString(y.path),
                           comment |-> AppendString(y.comment), flags |-> y.flags]
<1> DEFINE t == [f \in Flags |-> IF f \in y.flags THEN Bit[f] ELSE 0]
           m == SMBShareSent(y)
<1>1. \A f \in Flags : Bit[f] # 0
  BY DEF Flags, Bit
<1>2. {f \in Flags : t[f] # 0} = y.flags
  BY <1>1
<1>3. m = [name |-> AppendString(y.name), path |-> AppendString(y.path),
           comment |-> AppendString(y.comment), flags |-> t]
  BY DEF SMBShareSent, FlagsSent
<1> HIDE DEF t, m
<1>4. Taken(m) = [name |-> AppendString(y.name), path |-> AppendString(y.path),
                  comment |-> AppendString(y.comment), flags |-> {f \in Flags : t[f] # 0}]
  BY <1>3 DEF Taken
<1> QED BY <1>2, <1>4 DEF ShareSent, m

\* A share comes back as it is, and is refused for the path it has on the system.
LEMMA ShareBack ==
    ASSUME NEW x \in SystemShares
    PROVE  /\ ShareRead(x) \in LibShares
           /\ ShareSent(ShareRead(x)) = x
           /\ Accepted(ShareRead(x)) <=> Accepted(x)
<1> DEFINE y == ShareRead(x)
<1>1. /\ x = [name |-> x.name, path |-> x.path, comment |-> x.comment, flags |-> x.flags]
      /\ x.name \in Strings /\ x.path \in Strings /\ x.comment \in Strings
      /\ x.flags \in SUBSET Flags
  BY SMBShareParts DEF SystemShares
<1>2. y = [name |-> GetString(x.name), path |-> GetString(x.path),
           comment |-> GetString(x.comment), flags |-> x.flags]
  BY ShareReadIs
<1> HIDE DEF y
<1>3. y \in LibShares
  BY <1>1, <1>2, StringBack DEF LibShares, SMBShare
<1>4. ShareSent(y) = [name |-> AppendString(y.name), path |-> AppendString(y.path),
                      comment |-> AppendString(y.comment), flags |-> y.flags]
  BY <1>1, <1>2, ShareSentIs
<1>5. ShareSent(y) = x
  BY <1>1, <1>2, <1>4, StringBack
<1>6. GetString(x.path) \in Absolute <=> x.path \in Absolute
  BY NamesAssumption, SharesAssumption DEF GetString
<1>7. Accepted(y) <=> Accepted(x)
  BY <1>2, <1>6 DEF Accepted
<1> QED BY <1>3, <1>5, <1>7 DEF y

LEMMA ShareSentType ==
    ASSUME NEW y \in LibShares
    PROVE  ShareSent(y) \in SystemShares
<1>1. y.name \in Pointers /\ y.path \in Pointers /\ y.comment \in Pointers
      /\ y.flags \in SUBSET Flags
  BY SMBShareParts DEF LibShares
<1>2. ShareSent(y) = [name |-> AppendString(y.name), path |-> AppendString(y.path),
                      comment |-> AppendString(y.comment), flags |-> y.flags]
  BY <1>1, ShareSentIs
<1> QED BY <1>1, <1>2, AppendType DEF SystemShares, SMBShare

\* The list of the accepted shares, as it grows.
AcceptedSoFar(s, f, n) ==
    f = [k \in 0..n |-> IF k = 0 THEN <<>>
                        ELSE IF Accepted(s[k]) THEN Append(f[k - 1], s[k]) ELSE f[k - 1]]

LEMMA AcceptedExists ==
    ASSUME NEW s, NEW n \in Nat
    PROVE  \E f : AcceptedSoFar(s, f, n)
<1> DEFINE P == {k \in 0..n : \E f : AcceptedSoFar(s, f, k)}
<1>1. 0 \in P
  <2> DEFINE f == [k \in 0..0 |-> <<>>]
  <2>1. f = [k \in 0..0 |-> IF k = 0 THEN <<>>
               ELSE IF Accepted(s[k]) THEN Append(f[k - 1], s[k]) ELSE f[k - 1]]
    OBVIOUS
  <2> HIDE DEF f
  <2>2. AcceptedSoFar(s, f, 0)
    BY <2>1 DEF AcceptedSoFar
  <2> QED BY <2>2
<1>2. ASSUME NEW m \in 1..n, m - 1 \in P
      PROVE  m \in P
  <2>1. PICK f : AcceptedSoFar(s, f, m - 1)
    BY <1>2
  <2> DEFINE last == IF Accepted(s[m]) THEN Append(f[m - 1], s[m]) ELSE f[m - 1]
             g == [k \in 0..m |-> IF k = m THEN last ELSE f[k]]
  <2>2. \A k \in 0..(m - 1) : f[k] = IF k = 0 THEN <<>>
               ELSE IF Accepted(s[k]) THEN Append(f[k - 1], s[k]) ELSE f[k - 1]
    BY <2>1 DEF AcceptedSoFar
  <2>3. g[m] = last /\ \A k \in 0..(m - 1) : g[k] = f[k]
    OBVIOUS
  <2>4. g = [k \in 0..m |-> g[k]]
    OBVIOUS
  <2> HIDE DEF g
  <2>5. ASSUME NEW k \in 0..m
        PROVE  g[k] = IF k = 0 THEN <<>>
                      ELSE IF Accepted(s[k]) THEN Append(g[k - 1], s[k]) ELSE g[k - 1]
    <3>1. CASE k = m
      <4>1. g[m - 1] = f[m - 1] /\ m # 0
        BY <2>3
      <4> QED BY <2>3, <3>1, <4>1
    <3>2. CASE k = 0
      BY <2>2, <2>3, <3>2
    <3>3. CASE k # m /\ k # 0
      <4>1. k \in 0..(m - 1) /\ k - 1 \in 0..(m - 1)
        BY <3>3
      <4>2. g[k] = f[k] /\ g[k - 1] = f[k - 1]
        BY <2>3, <4>1
      <4> QED BY <2>2, <3>3, <4>1, <4>2
    <3> QED BY <3>1, <3>2, <3>3
  <2>6. AcceptedSoFar(s, g, m)
    BY <2>4, <2>5 DEF AcceptedSoFar
  <2> QED BY <2>6
<1> HIDE DEF P
<1>3. n \in P
  BY <1>1, <1>2, UpTo
<1> QED BY <1>3 DEF P

LEMMA AcceptedOfIs ==
    ASSUME NEW s, Len(s) \in Nat
    PROVE  \E f : AcceptedSoFar(s, f, Len(s)) /\ AcceptedOf(s) = f[Len(s)]
<1> DEFINE list == CHOOSE f : AcceptedSoFar(s, f, Len(s))
<1>1. AcceptedOf(s) = list[Len(s)]
  BY DEF AcceptedOf, AcceptedSoFar
<1>2. AcceptedSoFar(s, list, Len(s))
  BY AcceptedExists
<1> QED BY <1>1, <1>2

\* Shares that are read, sorted out and sent are those of the system, sorted out.
LEMMA AcceptedBack ==
    ASSUME NEW s \in Seq(SystemShares), NEW t, t = [i \in DOMAIN s |-> ShareRead(s[i])]
    PROVE  /\ AcceptedOf(s) \in Seq(SystemShares) /\ AcceptedOf(t) \in Seq(LibShares)
           /\ [i \in DOMAIN AcceptedOf(t) |-> ShareSent(AcceptedOf(t)[i])] = AcceptedOf(s)
<1>1. Len(s) \in Nat /\ DOMAIN s = 1..Len(s) /\ \A i \in 1..Len(s) : s[i] \in SystemShares
  OBVIOUS
<1>2. t \in Seq(LibShares) /\ Len(t) = Len(s)
  <2>1. t \in [DOMAIN s -> LibShares]
    BY <1>1, ShareBack
  <2> QED BY <2>1, SeqMade
<1>3. PICK f : AcceptedSoFar(s, f, Len(s)) /\ AcceptedOf(s) = f[Len(s)]
  BY <1>1, AcceptedOfIs
<1>4. PICK g : AcceptedSoFar(t, g, Len(s)) /\ AcceptedOf(t) = g[Len(s)]
  BY <1>1, <1>2, AcceptedOfIs
<1> DEFINE Agrees(a, b) == /\ a \in Seq(SystemShares) /\ b \in Seq(LibShares) /\ Len(a) = Len(b)
                           /\ \A i \in 1..Len(b) : ShareSent(b[i]) = a[i]
           P == {n \in 0..Len(s) : Agrees(f[n], g[n])}
<1>5. 0 \in P
  <2>1. f[0] = <<>> /\ g[0] = <<>>
    BY <1>1, <1>3, <1>4 DEF AcceptedSoFar
  <2>2. Agrees(<<>>, <<>>)
    OBVIOUS
  <2>3. Agrees(f[0], g[0])
    <3> HIDE DEF Agrees
    <3> QED BY <2>1, <2>2
  <2> HIDE DEF Agrees
  <2> QED BY <1>1, <2>3
<1>6. ASSUME NEW n \in 1..Len(s), n - 1 \in P
      PROVE  n \in P
  <2> DEFINE a == f[n - 1]
             b == g[n - 1]
  <2>1. n \in 0..Len(s) /\ n # 0
    BY <1>1
  <2>2. f[n] = IF Accepted(s[n]) THEN Append(a, s[n]) ELSE a
    BY <1>3, <2>1 DEF AcceptedSoFar
  <2>3. g[n] = IF Accepted(t[n]) THEN Append(b, t[n]) ELSE b
    BY <1>4, <2>1 DEF AcceptedSoFar
  <2>4. Agrees(a, b)
    BY <1>6
  <2>5. t[n] = ShareRead(s[n]) /\ s[n] \in SystemShares
    BY <1>1
  <2>6. t[n] \in LibShares /\ ShareSent(t[n]) = s[n] /\ (Accepted(t[n]) <=> Accepted(s[n]))
    BY <2>5, ShareBack
  <2> HIDE DEF a, b
  <2>7. Agrees(Append(a, s[n]), Append(b, t[n]))
    <3>1. /\ Append(a, s[n]) \in Seq(SystemShares) /\ Append(b, t[n]) \in Seq(LibShares)
          /\ Len(Append(a, s[n])) = Len(a) + 1 /\ Len(Append(b, t[n])) = Len(b) + 1
          /\ Len(a) \in Nat /\ Len(b) = Len(a)
      BY <2>4, <2>5, <2>6
    <3>2. ASSUME NEW i \in 1..Len(b) + 1
          PROVE  ShareSent(Append(b, t[n])[i]) = Append(a, s[n])[i]
      <4>1. CASE i = Len(b) + 1
        BY <2>4, <2>5, <2>6, <3>1, <4>1
      <4>2. CASE i # Len(b) + 1
        <5>1. i \in 1..Len(b) /\ i \in 1..Len(a)
          BY <3>1, <4>2
        <5>2. Append(b, t[n])[i] = b[i] /\ Append(a, s[n])[i] = a[i]
          BY <2>4, <2>5, <2>6, <5>1
        <5> QED BY <2>4, <5>1, <5>2
      <4> QED BY <4>1, <4>2
    <3> QED BY <3>1, <3>2
  <2>8. Agrees(f[n], g[n])
    <3> HIDE DEF Agrees
    <3> QED BY <2>2, <2>3, <2>4, <2>6, <2>7
  <2> QED BY <2>1, <2>8
<1>7. Agrees(AcceptedOf(s), AcceptedOf(t))
  <2> HIDE DEF P
  <2>1. Len(s) \in P
    BY <1>1, <1>5, <1>6, UpTo
  <2> QED BY <1>3, <1>4, <2>1 DEF P
<1> DEFINE a == AcceptedOf(s)
           b == AcceptedOf(t)
<1>8. a \in Seq(SystemShares) /\ b \in Seq(LibShares) /\ Len(a) = Len(b)
      /\ \A i \in 1..Len(b) : ShareSent(b[i]) = a[i]
  BY <1>7
<1> HIDE DEF a, b
<1>9. [i \in DOMAIN b |-> ShareSent(b[i])] = a
  <2>1. a = [i \in 1..Len(a) |-> a[i]] /\ DOMAIN b = 1..Len(b)
    BY <1>8
  <2> QED BY <1>8, <2>1
<1> QED BY <1>8, <1>9 DEF a, b

\* The tables of users: of the library, of a request, and of the system.
Tables == UNION {[D -> Passwords \cup {""}] : D \in SUBSET Users}
SystemTables == [Users -> Passwords \cup {Null}]

LEMMA SMBParts ==
    ASSUME NEW s \in SMB
    PROVE  /\ s = [kind |-> "smb", shares |-> s.shares, workgroup |-> s.workgroup,
                   desc |-> s.desc, wins_server |-> s.wins_server,
                   is_wins_server |-> s.is_wins_server, users |-> s.users]
           /\ s.kind = "smb" /\ s.shares \in Seq(LibShares) /\ s.workgroup \in Pointers
           /\ s.desc \in Pointers /\ s.wins_server \in Pointers
           /\ s.is_wins_server \in {0, 1} /\ s.users \in Tables
  BY DEF SMB, LibShares, Tables

LEMMA SMBBackendParts ==
    ASSUME NEW U, NEW s \in SMBBackend(U)
    PROVE  /\ s = [kind |-> "smb", shares |-> s.shares, workgroup |-> s.workgroup,
                   desc |-> s.desc, wins_server |-> s.wins_server,
                   is_wins_server |-> s.is_wins_server, users |-> s.users]
           /\ s.kind = "smb" /\ s.shares \in Seq(SystemShares) /\ s.workgroup \in Strings
           /\ s.desc \in Strings /\ s.wins_server \in Strings
           /\ s.is_wins_server \in {0, 1} /\ s.users \in U
  BY DEF SMBBackend, SystemShares

LEMMA SMBBackendMade ==
    ASSUME NEW U, NEW l \in Seq(SystemShares), NEW w \in Strings, NEW d \in Strings,
           NEW v \in Strings, NEW n \in {0, 1}, NEW u \in U
    PROVE  [kind |-> "smb", shares |-> l, workgroup |-> w, desc |-> d, wins_server |-> v,
            is_wins_server |-> n, users |-> u] \in SMBBackend(U)
  BY DEF SMBBackend, SystemShares

\* A request, as the backend understands it.
LEMMA SMBRequestIs ==
    ASSUME NEW l, NEW w, NEW d, NEW v, NEW n, NEW u, NEW s,
           s = [kind |-> "smb", shares |-> l, workgroup |-> w, desc |-> d, wins_server |-> v,
                is_wins_server |-> n, users |-> u]
    PROVE  Understood(SMBSent(s)) =
             [kind |-> "smb", shares |-> [i \in DOMAIN l |-> ShareSent(l[i])],
              workgroup |-> AppendString(w), desc |-> AppendString(d),
              wins_server |-> AppendString(v), is_wins_server |-> n, users |-> u]
<1> DEFINE a == [i \in DOMAIN l |-> SMBShareSent(l[i])]
           b == [i \in DOMAIN a |-> Taken(a[i])]
           m == SMBSent(s)
<1>1. m = [s EXCEPT !.shares = Each(SMBShareSent, s.shares),
                    !.workgroup = AppendString(s.workgroup), !.desc = AppendString(s.desc),
                    !.wins_server = AppendString(s.wins_server)]
  BY DEF SMBSent
<1>2. Each(SMBShareSent, s.shares) = a
  BY DEF Each
<1> HIDE DEF a
<1>3. m = [kind |-> "smb", shares |-> a, workgroup |-> AppendString(w),
           desc |-> AppendString(d), wins_server |-> AppendString(v),
           is_wins_server |-> n, users |-> u]
  BY <1>1, <1>2
<1> HIDE DEF m
<1>4. Understood(m) = [m EXCEPT !.shares = b]
  BY <1>3 DEF Understood, Each, Taken
<1>5. b = [i \in DOMAIN l |-> ShareSent(l[i])]
  BY DEF a, ShareSent
<1> HIDE DEF b
<1>6. Understood(m) = [kind |-> "smb", shares |-> b, workgroup |-> AppendString(w),
                       desc |-> AppendString(d), wins_server |-> AppendString(v),
                       is_wins_server |-> n, users |-> u]
  BY <1>3, <1>4
<1> QED BY <1>5, <1>6 DEF m

\* What is read of a system.
LEMMA SMBReadIs ==
    ASSUME NEW s \in SMBSystems
    PROVE  SMBRead(Reply(s)) =
             [kind |-> "smb",
              shares |-> AcceptedOf([i \in DOMAIN s.shares |-> ShareRead(s.shares[i])]),
              workgroup |-> GetString(s.workgroup), desc |-> GetString(s.desc),
              wins_server |-> GetString(s.wins_server), is_wins_server |-> s.is_wins_server,
              users |-> [u \in {v \in Users : s.users[v] # Null} |-> ""]]
<1> DEFINE a == [i \in DOMAIN s.shares |-> Told(s.shares[i])]
           b == [i \in DOMAIN a |-> SMBShareRead(a[i])]
           U == {v \in Users : s.users[v] # Null}
           r == Reply(s)
<1>1. s = [kind |-> "smb", shares |-> s.shares, workgroup |-> s.workgroup,
           desc |-> s.desc, wins_server |-> s.wins_server,
           is_wins_server |-> s.is_wins_server, users |-> s.users]
      /\ s.kind = "smb" /\ s.is_wins_server \in {0, 1}
  BY SMBBackendParts DEF SMBSystems
<1>2. r = [s EXCEPT !.shares = a, !.users = U]
  BY <1>1 DEF Reply, Each, Told
<1>3. b = [i \in DOMAIN s.shares |-> ShareRead(s.shares[i])]
  BY DEF ShareRead
<1> HIDE DEF a, U, r
<1>4. /\ r.shares = a /\ r.workgroup = s.workgroup /\ r.desc = s.desc
      /\ r.wins_server = s.wins_server /\ r.is_wins_server = s.is_wins_server /\ r.users = U
  BY <1>2 DEF SMBSystems, SMBBackend
<1>5. SMBRead(r) =
        [kind |-> "smb",
         shares |-> AcceptedOf([i \in DOMAIN r.shares |-> SMBShareRead(r.shares[i])]),
         workgroup |-> GetString(r.workgroup), desc |-> GetString(r.desc),
         wins_server |-> GetString(r.wins_server), is_wins_server |-> r.is_wins_server % 2,
         users |-> [u \in r.users |-> ""]]
  BY DEF SMBRead, Each
<1>6. s.is_wins_server % 2 = s.is_wins_server
  BY <1>1
<1>7. SMBRead(r) =
        [kind |-> "smb", shares |-> AcceptedOf(b), workgroup |-> GetString(s.workgroup),
         desc |-> GetString(s.desc), wins_server |-> GetString(s.wins_server),
         is_wins_server |-> s.is_wins_server, users |-> [u \in U |-> ""]]
  BY <1>4, <1>5, <1>6
<1> QED BY <1>3, <1>7 DEF r, U

LEMMA SMBBack ==
    ASSUME NEW s \in SMBSystems
    PROVE  /\ SMBRead(Reply(s)) \in SMB
           /\ Understood(SMBSent(SMBRead(Reply(s)))) = Shown(s)
<1> DEFINE t == [i \in DOMAIN s.shares |-> ShareRead(s.shares[i])]
           U == {v \in Users : s.users[v] # Null}
           users == [u \in U |-> ""]
           l == AcceptedOf(t)
           q == SMBRead(Reply(s))
<1>1. /\ s = [kind |-> "smb", shares |-> s.shares, workgroup |-> s.workgroup,
              desc |-> s.desc, wins_server |-> s.wins_server,
              is_wins_server |-> s.is_wins_server, users |-> s.users]
      /\ s.kind = "smb" /\ s.shares \in Seq(SystemShares) /\ s.workgroup \in Strings
      /\ s.desc \in Strings /\ s.wins_server \in Strings
      /\ s.is_wins_server \in {0, 1}
  BY SMBBackendParts DEF SMBSystems
<1>2. l \in Seq(LibShares) /\ [i \in DOMAIN l |-> ShareSent(l[i])] = AcceptedOf(s.shares)
  BY <1>1, AcceptedBack
<1>3. users \in Tables
  <2>1. U \in SUBSET Users
    OBVIOUS
  <2>2. users \in [U -> Passwords \cup {""}]
    OBVIOUS
  <2> HIDE DEF U, users
  <2> QED BY <2>1, <2>2 DEF Tables
<1>4. q = [kind |-> "smb", shares |-> l, workgroup |-> GetString(s.workgroup),
           desc |-> GetString(s.desc), wins_server |-> GetString(s.wins_server),
           is_wins_server |-> s.is_wins_server, users |-> users]
  BY SMBReadIs
<1>5. Shown(s) = [s EXCEPT !.shares = AcceptedOf(s.shares), !.users = users]
  BY <1>1 DEF Shown
<1> HIDE DEF l, users, q
<1>6. /\ GetString(s.workgroup) \in Pointers /\ GetString(s.desc) \in Pointers
      /\ GetString(s.wins_server) \in Pointers
      /\ AppendString(GetString(s.workgroup)) = s.workgroup
      /\ AppendString(GetString(s.desc)) = s.desc
      /\ AppendString(GetString(s.wins_server)) = s.wins_server
  BY <1>1, StringBack
<1>7. q \in SMB
  BY <1>1, <1>2, <1>3, <1>4, <1>6 DEF SMB, LibShares, Tables
<1>8. Understood(SMBSent(q)) =
        [kind |-> "smb", shares |-> AcceptedOf(s.shares), workgroup |-> s.workgroup,
         desc |-> s.desc, wins_server |-> s.wins_server,
         is_wins_server |-> s.is_wins_server, users |-> users]
  <2>1. Understood(SMBSent(q)) =
          [kind |-> "smb", shares |-> [i \in DOMAIN l |-> ShareSent(l[i])],
           workgroup |-> AppendString(GetString(s.workgroup)),
           desc |-> AppendString(GetString(s.desc)),
           wins_server |-> AppendString(GetString(s.wins_server)),
           is_wins_server |-> s.is_wins_server, users |-> users]
    BY <1>4, SMBRequestIs
  <2> QED BY <1>2, <1>6, <2>1
<1>9. Shown(s) =
        [kind |-> "smb", shares |-> AcceptedOf(s.shares), workgroup |-> s.workgroup,
         desc |-> s.desc, wins_server |-> s.wins_server,
         is_wins_server |-> s.is_wins_server, users |-> users]
  BY <1>5 DEF SMBSystems, SMBBackend
<1> QED BY <1>7, <1>8, <1>9 DEF q

LEMMA SMBSentType ==
    ASSUME NEW s \in SMB
    PROVE  /\ Understood(SMBSent(s)) \in SMBRequests
           /\ Understood(SMBSent(s)) =
                [kind |-> "smb", shares |-> [i \in DOMAIN s.shares |-> ShareSent(s.shares[i])],
                 workgroup |-> AppendString(s.workgroup), desc |-> AppendString(s.desc),
                 wins_server |-> AppendString(s.wins_server),
                 is_wins_server |-> s.is_wins_server, users |-> s.users]
<1> DEFINE a == [i \in DOMAIN s.shares |-> ShareSent(s.shares[i])]
<1>1. /\ s = [kind |-> "smb", shares |-> s.shares, workgroup |-> s.workgroup,
              desc |-> s.desc, wins_server |-> s.wins_server,
              is_wins_server |-> s.is_wins_server, users |-> s.users]
      /\ s.shares \in Seq(LibShares) /\ s.workgroup \in Pointers
      /\ s.desc \in Pointers /\ s.wins_server \in Pointers
      /\ s.is_wins_server \in {0, 1} /\ s.users \in Tables
  BY SMBParts
<1>2. Understood(SMBSent(s)) =
        [kind |-> "smb", shares |-> a, workgroup |-> AppendString(s.workgroup),
         desc |-> AppendString(s.desc), wins_server |-> AppendString(s.wins_server),
         is_wins_server |-> s.is_wins_server, users |-> s.users]
  BY <1>1, SMBRequestIs
<1>3. a \in [DOMAIN s.shares -> SystemShares]
  BY <1>1, ShareSentType
<1>4. a \in Seq(SystemShares)
  BY <1>1, <1>3, SeqMade
<1>5. /\ AppendString(s.workgroup) \in Strings /\ AppendString(s.desc) \in Strings
      /\ AppendString(s.wins_server) \in Strings
  BY <1>1, AppendType
<1> HIDE DEF a
<1>6. Understood(SMBSent(s)) \in SMBRequests
  <2>1. SMBRequests = SMBBackend(Tables)
    BY DEF SMBRequests, Tables
  <2>2. [kind |-> "smb", shares |-> a, workgroup |-> AppendString(s.workgroup),
         desc |-> AppendString(s.desc), wins_server |-> AppendString(s.wins_server),
         is_wins_server |-> s.is_wins_server, users |-> s.users] \in SMBBackend(Tables)
    BY <1>1, <1>4, <1>5, SMBBackendMade
  <2> QED BY <1>2, <2>1, <2>2
<1> QED BY <1>2, <1>6 DEF a


LEMMA SMBShareEdit ==
    ASSUME NEW h \in LibShares, NEW x \in SMBShareEdits(h)
    PROVE  x \in LibShares
<1>1. CASE \E p \in Pointers : x = SetPath(h, p)
  BY <1>1 DEF SetPath, LibShares, SMBShare
<1>2. CASE \E n \in Passed : x = [h EXCEPT !.name = n]
  BY <1>2, StringTypes DEF LibShares, SMBShare
<1>3. CASE \E n \in Passed : x = [h EXCEPT !.comment = n]
  BY <1>3, StringTypes DEF LibShares, SMBShare
<1>4. CASE \E f \in Flags : x = [h EXCEPT !.flags = SymDiff(h.flags, {f})]
  <2>1. PICK f \in Flags : x = [h EXCEPT !.flags = SymDiff(h.flags, {f})]
    BY <1>4
  <2> DEFINE d == SymDiff(h.flags, {f})
  <2>2. h.flags \in SUBSET Flags
    BY SMBShareParts DEF LibShares
  <2>3. d \in SUBSET Flags
    BY <2>2 DEF SymDiff
  <2>4. x = [h EXCEPT !.flags = d]
    BY <2>1
  <2> HIDE DEF d
  <2> QED BY <2>3, <2>4 DEF LibShares, SMBShare
<1> QED BY <1>1, <1>2, <1>3, <1>4 DEF SMBShareEdits

\* The shares of a configuration, after one of them comes, goes or is changed.
LEMMA SMBSharesEdit ==
    ASSUME NEW s \in Seq(LibShares),
           NEW v \in Inserted(s, NewSMBShares) \cup Removed(s) \cup Changed(s, SMBShareEdits)
    PROVE  v \in Seq(LibShares)
<1>1. CASE v \in Inserted(s, NewSMBShares)
  <2>1. \A n \in Texts : n \in Pointers
    BY StringTypes
  <2>2. {"enabled"} \in SUBSET Flags
    BY DEF Flags, Bit
  <2>3. \A n \in Texts, p \in Pointers :
          [name |-> n, path |-> p, comment |-> Null, flags |-> {"enabled"}] \in LibShares
    BY <2>1, <2>2, StringTypes DEF LibShares, SMBShare
  <2>4. NewSMBShares \in SUBSET LibShares
    BY <2>3 DEF NewSMBShares
  <2> QED BY <1>1, <2>4, InsertType
<1>2. CASE v \in Removed(s)
  BY <1>2, RemoveType
<1>3. CASE v \in Changed(s, SMBShareEdits)
  <2>1. PICK i \in DOMAIN s : \E x \in SMBShareEdits(s[i]) : v = [s EXCEPT ![i] = x]
    BY <1>3 DEF Changed
  <2>2. PICK x \in SMBShareEdits(s[i]) : v = [s EXCEPT ![i] = x]
    BY <2>1
  <2>3. s[i] \in LibShares
    OBVIOUS
  <2>4. x \in LibShares
    BY <2>3, SMBShareEdit
  <2> QED BY <2>2, <2>4
<1> QED BY <1>1, <1>2, <1>3

\* The table of users, after a password is set or deleted.
LEMMA TableEdit ==
    ASSUME NEW t \in Tables, NEW u \in Users
    PROVE  /\ [v \in DOMAIN t \ {u} |-> t[v]] \in Tables
           /\ \A p \in Passwords :
                [v \in DOMAIN t \cup {u} |-> IF v = u THEN p ELSE t[v]] \in Tables
<1>1. PICK D \in SUBSET Users : t \in [D -> Passwords \cup {""}]
  BY DEF Tables
<1>2. [v \in DOMAIN t \ {u} |-> t[v]] \in Tables
  <2>1. D \ {u} \in SUBSET Users
    OBVIOUS
  <2>2. [v \in DOMAIN t \ {u} |-> t[v]] \in [D \ {u} -> Passwords \cup {""}]
    BY <1>1
  <2> QED BY <2>1, <2>2 DEF Tables
<1>3. ASSUME NEW p \in Passwords
      PROVE  [v \in DOMAIN t \cup {u} |-> IF v = u THEN p ELSE t[v]] \in Tables
  <2>1. D \cup {u} \in SUBSET Users
    OBVIOUS
  <2>2. [v \in DOMAIN t \cup {u} |-> IF v = u THEN p ELSE t[v]]
          \in [D \cup {u} -> Passwords \cup {""}]
    BY <1>1
  <2> QED BY <2>1, <2>2 DEF Tables
<1> QED BY <1>2, <1>3

\* A change of the SMB configuration is one of one field.
LEMMA SMBEdit ==
    ASSUME NEW s \in SMB, NEW l \in SMBEdits(s)
    PROVE  \/ \E v \in Seq(LibShares) : l = [s EXCEPT !.shares = v]
           \/ \E v \in Pointers : l = [s EXCEPT !.workgroup = v]
           \/ \E v \in Pointers : l = [s EXCEPT !.desc = v]
           \/ \E v \in Pointers : l = [s EXCEPT !.wins_server = v]
           \/ \E v \in {0, 1} : l = [s EXCEPT !.is_wins_server = v]
           \/ \E v \in Tables : l = [s EXCEPT !.users = v]
<1>1. s.shares \in Seq(LibShares) /\ s.users \in Tables
  BY SMBParts
<1>2. \A v \in Passed : v \in Pointers
  BY StringTypes
<1>3. CASE \E v \in Inserted(s.shares, NewSMBShares) \cup Removed(s.shares)
                    \cup Changed(s.shares, SMBShareEdits) : l = [s EXCEPT !.shares = v]
  BY <1>1, <1>3, SMBSharesEdit
<1>4. CASE \E n \in Passed : l = [s EXCEPT !.workgroup = n]
  BY <1>2, <1>4
<1>5. CASE \E n \in Passed : l = [s EXCEPT !.desc = n]
  BY <1>2, <1>5
<1>6. CASE \E n \in Passed : l = [s EXCEPT !.wins_server = n]
  BY <1>2, <1>6
<1>7. CASE \E b \in {0, 1} : l = [s EXCEPT !.is_wins_server = b]
  BY <1>7
<1>8. CASE \E u \in Users : l = DeletePassword(s, u)
  <2>1. PICK u \in Users : l = [s EXCEPT !.users = [v \in DOMAIN s.users \ {u} |-> s.users[v]]]
    BY <1>8 DEF DeletePassword
  <2>2. [v \in DOMAIN s.users \ {u} |-> s.users[v]] \in Tables
    BY <1>1, TableEdit
  <2> QED BY <2>1, <2>2
<1>9. CASE \E u \in Users, p \in Passwords : l = SetPassword(s, u, p)
  <2>1. PICK u \in Users, p \in Passwords :
          l = [s EXCEPT !.users =
                 [v \in DOMAIN s.users \cup {u} |-> IF v = u THEN p ELSE s.users[v]]]
    BY <1>9 DEF SetPassword
  <2>2. [v \in DOMAIN s.users \cup {u} |-> IF v = u THEN p ELSE s.users[v]] \in Tables
    BY <1>1, TableEdit
  <2> QED BY <2>1, <2>2
<1> QED BY <1>3, <1>4, <1>5, <1>6, <1>7, <1>8, <1>9 DEF SMBEdits

LEMMA SMBEditType ==
    ASSUME NEW s \in SMB, NEW l \in SMBEdits(s)
    PROVE  l \in SMB
<1>1. CASE \E v \in Seq(LibShares) : l = [s EXCEPT !.shares = v]
  BY <1>1 DEF SMB, LibShares
<1>2. CASE \E v \in Pointers : l = [s EXCEPT !.workgroup = v]
  BY <1>2 DEF SMB
<1>3. CASE \E v \in Pointers : l = [s EXCEPT !.desc = v]
  BY <1>3 DEF SMB
<1>4. CASE \E v \in Pointers : l = [s EXCEPT !.wins_server = v]
  BY <1>4 DEF SMB
<1>5. CASE \E v \in {0, 1} : l = [s EXCEPT !.is_wins_server = v]
  BY <1>5 DEF SMB
<1>6. CASE \E v \in Tables : l = [s EXCEPT !.users = v]
  BY <1>6 DEF SMB, Tables
<1> QED BY <1>1, <1>2, <1>3, <1>4, <1>5, <1>6, SMBEdit

\* What is stored of a request is a system.
LEMMA SMBStored ==
    ASSUME NEW r \in SMBRequests, NEW s \in SMBSystems
    PROVE  Stored(r, s) \in SMBSystems
<1> DEFINE t == [u \in Users |-> IF u \notin DOMAIN r.users THEN Null
                                 ELSE IF r.users[u] = "" THEN s.users[u] ELSE r.users[u]]
<1>1. SMBRequests = SMBBackend(Tables) /\ SMBSystems = SMBBackend(SystemTables)
  BY DEF SMBRequests, SMBSystems, Tables, SystemTables
<1>2. s.kind = "smb" /\ s.users \in SystemTables
  BY <1>1, SMBBackendParts
<1>3. /\ r = [kind |-> "smb", shares |-> r.shares, workgroup |-> r.workgroup,
              desc |-> r.desc, wins_server |-> r.wins_server,
              is_wins_server |-> r.is_wins_server, users |-> r.users]
      /\ r.shares \in Seq(SystemShares) /\ r.workgroup \in Strings
      /\ r.desc \in Strings /\ r.wins_server \in Strings
      /\ r.is_wins_server \in {0, 1} /\ r.users \in Tables
  BY <1>1, SMBBackendParts
<1>4. PICK D \in SUBSET Users : r.users \in [D -> Passwords \cup {""}]
  BY <1>3 DEF Tables
<1>5. t \in SystemTables
  BY <1>2, <1>4 DEF SystemTables
<1>6. Stored(r, s) = [r EXCEPT !.users = t]
  BY <1>2 DEF Stored
<1> HIDE DEF t
<1>7. Stored(r, s) = [kind |-> "smb", shares |-> r.shares, workgroup |-> r.workgroup,
                      desc |-> r.desc, wins_server |-> r.wins_server,
                      is_wins_server |-> r.is_wins_server, users |-> t]
  BY <1>3, <1>6
<1> QED BY <1>1, <1>3, <1>5, <1>7, SMBBackendMade

-----------------------------------------------------------------------------
(* The kinds of configurations *)

Library == NTP \cup Hosts(Pointers) \cup NFS(Pointers) \cup SMB

LEMMA SystemKinds ==
    ASSUME NEW s \in Systems
    PROVE  \/ s.kind = "ntp" /\ s \in NTPMessage
           \/ s.kind = "hosts" /\ s \in Hosts(Strings)
           \/ s.kind = "nfs" /\ s \in NFS(Strings)
           \/ s.kind = "smb" /\ s \in SMBSystems
<1>1. s \in NTPMessage => s.kind = "ntp"
  BY DEF NTPMessage
<1>2. s \in Hosts(Strings) => s.kind = "hosts"
  BY HostsParts
<1>3. s \in NFS(Strings) => s.kind = "nfs"
  BY NFSParts
<1>4. s \in SMBSystems => s.kind = "smb"
  BY SMBBackendParts DEF SMBSystems
<1> QED BY <1>1, <1>2, <1>3, <1>4 DEF Systems

LEMMA LibraryKinds ==
    ASSUME NEW l \in Library
    PROVE  \/ l.kind = "ntp" /\ l \in NTP
           \/ l.kind = "hosts" /\ l \in Hosts(Pointers)
           \/ l.kind = "nfs" /\ l \in NFS(Pointers)
           \/ l.kind = "smb" /\ l \in SMB
<1>1. l \in NTP => l.kind = "ntp"
  BY DEF NTP
<1>2. l \in Hosts(Pointers) => l.kind = "hosts"
  BY HostsParts
<1>3. l \in NFS(Pointers) => l.kind = "nfs"
  BY NFSParts
<1>4. l \in SMB => l.kind = "smb"
  BY SMBParts
<1> QED BY <1>1, <1>2, <1>3, <1>4 DEF Library

\* Flags apart, the backend takes a message as it is.
LEMMA UnderstoodIs ==
    ASSUME NEW m, m.kind # "smb"
    PROVE  Understood(m) = m
  BY DEF Understood

\* What a commit sends, for each kind.
LEMMA RequestIs ==
    ASSUME NEW l \in Library
    PROVE  /\ l.kind = "ntp" => Request(l) = NTPSent(l)
           /\ l.kind = "hosts" => Request(l) = HostsSent(l)
           /\ l.kind = "nfs" => Request(l) = NFSSent(l)
           /\ l.kind = "smb" => Request(l) = Understood(SMBSent(l))
<1>1. CASE l.kind = "ntp" /\ l \in NTP
  <2>1. Sent(l) = NTPSent(l)
    BY <1>1 DEF Sent
  <2>2. NTPSent(l).kind = "ntp"
    BY <1>1 DEF NTPSent
  <2> QED BY <1>1, <2>1, <2>2, UnderstoodIs DEF Request
<1>2. CASE l.kind = "hosts" /\ l \in Hosts(Pointers)
  <2>1. Sent(l) = HostsSent(l)
    BY <1>2 DEF Sent
  <2>2. HostsSent(l).kind = "hosts"
    BY <1>2, HostsSentType, HostsParts
  <2> QED BY <1>2, <2>1, <2>2, UnderstoodIs DEF Request
<1>3. CASE l.kind = "nfs" /\ l \in NFS(Pointers)
  <2>1. Sent(l) = NFSSent(l)
    BY <1>3 DEF Sent
  <2>2. NFSSent(l).kind = "nfs"
    BY <1>3, NFSSentType, NFSParts
  <2> QED BY <1>3, <2>1, <2>2, UnderstoodIs DEF Request
<1>4. CASE l.kind = "smb" /\ l \in SMB
  <2>1. Sent(l) = SMBSent(l)
    BY <1>4 DEF Sent
  <2> QED BY <1>4, <2>1 DEF Request
<1> QED BY <1>1, <1>2, <1>3, <1>4, LibraryKinds

LEMMA RequestType ==
    ASSUME NEW l \in Library
    PROVE  Request(l) \in Requests /\ Request(l).kind = l.kind
<1>1. CASE l.kind = "ntp" /\ l \in NTP
  <2>1. NTPSent(l) \in NTPMessage
    BY <1>1, NTPSentType
  <2>2. NTPSent(l).kind = "ntp"
    BY <2>1 DEF NTPMessage
  <2> QED BY <1>1, <2>1, <2>2, RequestIs DEF Requests
<1>2. CASE l.kind = "hosts" /\ l \in Hosts(Pointers)
  <2>1. HostsSent(l) \in Hosts(Strings)
    BY <1>2, HostsSentType
  <2>2. HostsSent(l).kind = "hosts"
    BY <2>1, HostsParts
  <2> QED BY <1>2, <2>1, <2>2, RequestIs DEF Requests
<1>3. CASE l.kind = "nfs" /\ l \in NFS(Pointers)
  <2>1. NFSSent(l) \in NFS(Strings)
    BY <1>3, NFSSentType
  <2>2. NFSSent(l).kind = "nfs"
    BY <2>1, NFSParts
  <2> QED BY <1>3, <2>1, <2>2, RequestIs DEF Requests
<1>4. CASE l.kind = "smb" /\ l \in SMB
  <2>1. Understood(SMBSent(l)) \in SMBRequests
    BY <1>4, SMBSentType
  <2>2. Understood(SMBSent(l)).kind = "smb"
    BY <2>1, SMBBackendParts DEF SMBRequests
  <2> QED BY <1>4, <2>1, <2>2, RequestIs DEF Requests
<1> QED BY <1>1, <1>2, <1>3, <1>4, LibraryKinds

\* What is read of a system would be sent as an update shows the system.
LEMMA ReadBack ==
    ASSUME NEW s \in Systems
    PROVE  /\ Read(Reply(s)) \in Library
           /\ Read(Reply(s)).kind = s.kind
           /\ Request(Read(Reply(s))) = Shown(s)
<1> DEFINE q == Read(Reply(s))
<1>1. CASE s.kind = "ntp" /\ s \in NTPMessage
  <2>1. Reply(s) = s /\ Shown(s) = s
    BY <1>1 DEF Reply, Shown
  <2>2. q = NTPRead(s)
    BY <1>1, <2>1 DEF Read
  <2>3. q \in NTP /\ NTPSent(q) = s
    BY <1>1, <2>2, NTPBack
  <2> HIDE DEF q
  <2>4. q.kind = "ntp" /\ q \in Library
    BY <2>3 DEF NTP, Library
  <2> QED BY <1>1, <2>1, <2>3, <2>4, RequestIs DEF q
<1>2. CASE s.kind = "hosts" /\ s \in Hosts(Strings)
  <2>1. Reply(s) = s /\ Shown(s) = s
    BY <1>2 DEF Reply, Shown
  <2>2. q = HostsRead(s)
    BY <1>2, <2>1 DEF Read
  <2>3. q \in Hosts(Pointers) /\ HostsSent(q) = s
    BY <1>2, <2>2, HostsBack
  <2> HIDE DEF q
  <2>4. q.kind = "hosts" /\ q \in Library
    BY <2>3, HostsParts DEF Library
  <2> QED BY <1>2, <2>1, <2>3, <2>4, RequestIs DEF q
<1>3. CASE s.kind = "nfs" /\ s \in NFS(Strings)
  <2>1. Reply(s) = s /\ Shown(s) = s
    BY <1>3 DEF Reply, Shown
  <2>2. q = NFSRead(s)
    BY <1>3, <2>1 DEF Read
  <2>3. q \in NFS(Pointers) /\ NFSSent(q) = s
    BY <1>3, <2>2, NFSBack
  <2> HIDE DEF q
  <2>4. q.kind = "nfs" /\ q \in Library
    BY <2>3, NFSParts DEF Library
  <2> QED BY <1>3, <2>1, <2>3, <2>4, RequestIs DEF q
<1>4. CASE s.kind = "smb" /\ s \in SMBSystems
  <2>1. Reply(s).kind = "smb"
    BY <1>4, SMBBackendParts DEF Reply, SMBSystems
  <2>2. q = SMBRead(Reply(s))
    BY <2>1 DEF Read
  <2>3. q \in SMB /\ Understood(SMBSent(q)) = Shown(s)
    BY <1>4, <2>2, SMBBack
  <2> HIDE DEF q
  <2>4. q.kind = "smb" /\ q \in Library
    BY <2>3, SMBParts DEF Library
  <2> QED BY <1>4, <2>3, <2>4, RequestIs DEF q
<1> QED BY <1>1, <1>2, <1>3, <1>4, SystemKinds

\* What is stored of a request is a system, of the same kind.
LEMMA StoredType ==
    ASSUME NEW r \in Requests, NEW s \in Systems, r.kind = s.kind
    PROVE  Stored(r, s) \in Systems /\ Stored(r, s).kind = s.kind
<1>1. CASE s.kind # "smb"
  <2>1. r \notin SMBRequests
    BY <1>1, SMBBackendParts DEF SMBRequests
  <2>2. Stored(r, s) = r
    BY <1>1 DEF Stored
  <2> QED BY <2>1, <2>2 DEF Requests, Systems
<1>2. CASE s.kind = "smb"
  <2>1. s \in SMBSystems
    BY <1>2, SystemKinds
  <2>2. r \in SMBRequests
    <3>1. r \notin NTPMessage
      BY <1>2 DEF NTPMessage
    <3>2. r \notin Hosts(Strings) /\ r \notin NFS(Strings)
      BY <1>2, HostsParts, NFSParts
    <3> QED BY <3>1, <3>2 DEF Requests
  <2>3. Stored(r, s) \in SMBSystems
    BY <2>1, <2>2, SMBStored
  <2>4. Stored(r, s).kind = "smb"
    BY <2>3, SMBBackendParts DEF SMBSystems
  <2> QED BY <1>2, <2>3, <2>4 DEF Systems
<1> QED BY <1>1, <1>2

-----------------------------------------------------------------------------
(* What a configuration begins with, and what changes it *)

LEMMA BlankType ==
    ASSUME NEW kind \in Kinds
    PROVE  Blank(kind) \in Library /\ Blank(kind).kind = kind
<1>1. Null \in Pointers
  BY StringTypes
<1>2. CASE kind = "ntp"
  <2>1. Blank(kind) = NTPInit
    BY <1>2 DEF Blank
  <2>2. NTPInit \in NTP /\ NTPInit.kind = "ntp"
    BY DEF NTPInit, NTP
  <2> QED BY <1>2, <2>1, <2>2 DEF Library
<1>3. CASE kind = "hosts"
  <2>1. Blank(kind) = HostsInit
    BY <1>3 DEF Blank
  <2>2. HostsInit \in Hosts(Pointers) /\ HostsInit.kind = "hosts"
    BY <1>1 DEF HostsInit, Hosts
  <2> QED BY <1>3, <2>1, <2>2 DEF Library
<1>4. CASE kind = "nfs"
  <2>1. Blank(kind) = NFSInit
    BY <1>4 DEF Blank
  <2>2. NFSInit \in NFS(Pointers) /\ NFSInit.kind = "nfs"
    BY DEF NFSInit, NFS
  <2> QED BY <1>4, <2>1, <2>2 DEF Library
<1>5. CASE kind = "smb"
  <2>1. Blank(kind) = SMBInit
    BY <1>5 DEF Blank
  <2> DEFINE t == [u \in {} |-> ""]
  <2>2. t \in Tables
    <3>1. t \in [{} -> Passwords \cup {""}] /\ {} \in SUBSET Users
      OBVIOUS
    <3> HIDE DEF t
    <3> QED BY <3>1 DEF Tables
  <2>3. SMBInit = [kind |-> "smb", shares |-> <<>>, workgroup |-> Null, desc |-> Null,
                   wins_server |-> Null, is_wins_server |-> 0, users |-> t]
    BY DEF SMBInit
  <2> HIDE DEF t
  <2>4. SMB = [kind : {"smb"}, shares : Seq(LibShares), workgroup : Pointers, desc : Pointers,
               wins_server : Pointers, is_wins_server : {0, 1}, users : Tables]
    BY DEF SMB, LibShares, Tables
  <2>5. <<>> \in Seq(LibShares)
    OBVIOUS
  <2>6. SMBInit \in SMB
    BY <1>1, <2>2, <2>3, <2>4, <2>5
  <2>7. SMBInit.kind = "smb"
    BY <2>3
  <2> QED BY <1>5, <2>1, <2>6, <2>7 DEF Library
<1> QED BY <1>2, <1>3, <1>4, <1>5 DEF Kinds

LEMMA NoPasswords == [u \in Users |-> Null] \in SystemTables
  BY DEF SystemTables

LEMMA PlainType ==
    ASSUME NEW kind \in Kinds
    PROVE  Plain(kind) \in Systems /\ Plain(kind).kind = kind
<1> DEFINE r == Request(Blank(kind))
           t == [u \in Users |-> Null]
<1>1. r \in Requests /\ r.kind = kind
  BY BlankType, RequestType
<1>2. Plain(kind) = IF kind # "smb" THEN r ELSE [r EXCEPT !.users = t]
  BY DEF Plain, Request
<1>3. t \in SystemTables
  BY NoPasswords
<1> HIDE DEF r, t
<1>4. CASE kind # "smb"
  <2>1. r \notin SMBRequests
    BY <1>1, <1>4, SMBBackendParts DEF SMBRequests
  <2> QED BY <1>1, <1>2, <1>4, <2>1 DEF Requests, Systems
<1>5. CASE kind = "smb"
  <2>1. r \in SMBRequests
    <3>1. r \notin NTPMessage
      BY <1>1, <1>5 DEF NTPMessage
    <3>2. r \notin Hosts(Strings) /\ r \notin NFS(Strings)
      BY <1>1, <1>5, HostsParts, NFSParts
    <3> QED BY <1>1, <3>1, <3>2 DEF Requests
  <2>2. SMBRequests = SMBBackend(Tables) /\ SMBSystems = SMBBackend(SystemTables)
    BY DEF SMBRequests, SMBSystems, Tables, SystemTables
  <2>3. Plain(kind) = [r EXCEPT !.users = t]
    BY <1>2, <1>5
  <2>4. Plain(kind) \in SMBBackend(SystemTables)
    BY <1>3, <2>1, <2>2, <2>3 DEF SMBBackend
  <2>5. Plain(kind).kind = "smb"
    BY <2>4, SMBBackendParts
  <2> QED BY <1>5, <2>2, <2>4, <2>5 DEF Systems
<1> QED BY <1>4, <1>5

\* The shares among the samples are shares.
LEMMA SamplesOfShares ==
    ASSUME NEW v \in Lists(SMBSamples)
    PROVE  v \in Seq(SystemShares)
<1>1. v \in Seq(SMBSamples)
  BY LengthAssumption, ListType DEF Lists
<1>2. SMBSamples \subseteq SystemShares
  <2>1. Texts \subseteq Strings /\ {""} \subseteq Strings
    BY StringTypes
  <2>2. {{"enabled"}, {"public"}} \subseteq SUBSET Flags
    BY DEF Flags, Bit
  <2> QED BY <2>1, <2>2 DEF SMBSamples, SystemShares, SMBShare
<1> QED BY <1>1, <1>2

\* A change of the system, by another program, is one of one field.
LEMMA VariantType ==
    ASSUME NEW s \in Systems, NEW t \in Variants(s)
    PROVE  t \in Systems /\ t.kind = s.kind
<1>1. PICK f \in DOMAIN s : \E v \in Samples(s, f) : t = [s EXCEPT ![f] = v]
  BY DEF Variants
<1>2. PICK v \in Samples(s, f) : t = [s EXCEPT ![f] = v]
  BY <1>1
<1>3. \A x \in Texts \cup {""} : x \in Strings
  BY StringTypes
<1>4. CASE s.kind = "ntp" /\ s \in NTPMessage
  <2>1. f = "servers" /\ v \in Lists(Strings)
    BY <1>2, <1>4 DEF Samples
  <2>2. v \in Seq(Strings)
    BY <2>1, LengthAssumption, ListType DEF Lists
  <2>3. t = [s EXCEPT !.servers = v]
    BY <1>2, <2>1
  <2>4. t \in NTPMessage /\ t.kind = "ntp"
    BY <1>4, <2>2, <2>3 DEF NTPMessage
  <2> QED BY <1>4, <2>4 DEF Systems
<1>5. CASE s.kind = "hosts" /\ s \in Hosts(Strings)
  <2>1. Samples(s, f) =
          CASE f \in {"hostname", "domain"} -> Texts \cup {""}
            [] f = "static_hosts" -> Short([ip_address : Texts \cup {""}, aliases : Short(Names)])
            [] f \in {"dns_list", "search_domains_list"} -> Lists(Names)
            [] OTHER -> {}
    BY <1>5 DEF Samples
  <2>2. \/ f \in {"hostname", "domain"} /\ v \in Texts \cup {""}
        \/ f = "static_hosts"
           /\ v \in Short([ip_address : Texts \cup {""}, aliases : Short(Names)])
        \/ f \in {"dns_list", "search_domains_list"} /\ v \in Lists(Names)
    <3> HIDE DEF Samples
    <3> QED BY <1>2, <2>1
  <2>3. CASE f \in {"hostname", "domain"} /\ v \in Texts \cup {""}
    <3>1. v \in Strings
      BY <1>3, <2>3
    <3> QED BY <1>2, <1>5, <2>3, <3>1 DEF Hosts, Systems
  <2>4. CASE f = "static_hosts"
             /\ v \in Short([ip_address : Texts \cup {""}, aliases : Short(Names)])
    <3>1. v \in Seq([ip_address : Texts \cup {""}, aliases : Short(Names)])
      BY <2>4, ListType DEF Short
    <3>2. \A l \in Short(Names) : l \in Seq(Names)
      BY ListType DEF Short
    <3>3. \A h \in [ip_address : Texts \cup {""}, aliases : Short(Names)] :
            h \in StaticHost(Strings)
      BY <1>3, <3>2 DEF StaticHost
    <3>4. v \in Seq(StaticHost(Strings))
      BY <3>1, <3>3, SeqWider
    <3>5. t = [s EXCEPT !.static_hosts = v]
      BY <1>2, <2>4
    <3>6. t \in Hosts(Strings) /\ t.kind = "hosts"
      BY <1>5, <3>4, <3>5 DEF Hosts
    <3> QED BY <1>5, <3>6 DEF Systems
  <2>5. CASE f \in {"dns_list", "search_domains_list"} /\ v \in Lists(Names)
    <3>1. v \in Seq(Names)
      BY <2>5, LengthAssumption, ListType DEF Lists
    <3> QED BY <1>2, <1>5, <2>5, <3>1 DEF Hosts, Systems
  <2> QED BY <2>2, <2>3, <2>4, <2>5
<1>6. CASE s.kind = "nfs" /\ s \in NFS(Strings)
  <2>1. f = "shares" /\ v \in Short([path : Strings, acl : Short(Acl(Strings))])
    BY <1>2, <1>6 DEF Samples
  <2>2. v \in Seq([path : Strings, acl : Short(Acl(Strings))])
    BY <2>1, ListType DEF Short
  <2>3. \A l \in Short(Acl(Strings)) : l \in Seq(Acl(Strings))
    BY ListType DEF Short
  <2>4. \A h \in [path : Strings, acl : Short(Acl(Strings))] : h \in NFSShare(Strings)
    BY <2>3 DEF NFSShare
  <2>5. v \in Seq(NFSShare(Strings))
    BY <2>2, <2>4, SeqWider
  <2>6. t = [s EXCEPT !.shares = v]
    BY <1>2, <2>1
  <2>7. t \in NFS(Strings) /\ t.kind = "nfs"
    BY <1>6, <2>5, <2>6 DEF NFS
  <2> QED BY <1>6, <2>7 DEF Systems
<1>7. CASE s.kind = "smb" /\ s \in SMBSystems
  <2>1. Samples(s, f) = CASE f = "shares" -> {l \in Lists(SMBSamples) :
                      Len(l) = 2 => l[1].path # l[2].path /\ l[1].flags = l[2].flags}
               [] f \in {"workgroup", "desc", "wins_server"} -> Texts \cup {""}
               [] f = "is_wins_server" -> {0, 1}
               [] f = "users" -> [Users -> Passwords \cup {Null}]
               [] OTHER -> {}
    BY <1>7 DEF Samples
  <2>2. \/ f = "shares" /\ v \in Lists(SMBSamples)
        \/ f \in {"workgroup", "desc", "wins_server"} /\ v \in Texts \cup {""}
        \/ f = "is_wins_server" /\ v \in {0, 1}
        \/ f = "users" /\ v \in SystemTables
    <3> HIDE DEF Samples
    <3> QED BY <1>2, <2>1 DEF SystemTables
  <2>3. CASE f = "shares" /\ v \in Lists(SMBSamples)
    <3>1. v \in Seq(SystemShares)
      BY <2>3, SamplesOfShares
    <3>2. t = [s EXCEPT !.shares = v]
      BY <1>2, <2>3
    <3>3. t \in SMBSystems /\ t.kind = "smb"
      BY <1>7, <3>1, <3>2 DEF SMBSystems, SMBBackend, SystemShares
    <3> QED BY <1>7, <3>3 DEF Systems
  <2>4. CASE f \in {"workgroup", "desc", "wins_server"} /\ v \in Texts \cup {""}
    <3>1. v \in Strings
      BY <1>3, <2>4
    <3>2. t \in SMBSystems /\ t.kind = "smb"
      BY <1>2, <1>7, <2>4, <3>1 DEF SMBSystems, SMBBackend
    <3> QED BY <1>7, <3>2 DEF Systems
  <2>5. CASE f = "is_wins_server" /\ v \in {0, 1}
    <3>1. t \in SMBSystems /\ t.kind = "smb"
      BY <1>2, <1>7, <2>5 DEF SMBSystems, SMBBackend
    <3> QED BY <1>7, <3>1 DEF Systems
  <2>6. CASE f = "users" /\ v \in SystemTables
    <3>1. t = [s EXCEPT !.users = v]
      BY <1>2, <2>6
    <3>2. t \in SMBSystems /\ t.kind = "smb"
      BY <1>7, <2>6, <3>1 DEF SMBSystems, SMBBackend, SystemTables
    <3> QED BY <1>7, <3>2 DEF Systems
  <2> QED BY <2>2, <2>3, <2>4, <2>5, <2>6
<1> QED BY <1>4, <1>5, <1>6, <1>7, SystemKinds

LEMMA EditType ==
    ASSUME NEW s \in Library, NEW l \in Edits(s)
    PROVE  l \in Library /\ l.kind = s.kind
<1>1. CASE s.kind = "ntp" /\ s \in NTP
  <2>1. l \in NTPEdits(s)
    BY <1>1 DEF Edits
  <2>2. l \in NTP
    BY <1>1, <2>1, NTPEdit
  <2>3. l.kind = "ntp"
    BY <2>2 DEF NTP
  <2> QED BY <1>1, <2>2, <2>3 DEF Library
<1>2. CASE s.kind = "hosts" /\ s \in Hosts(Pointers)
  <2>1. l \in HostsEdits(s)
    BY <1>2 DEF Edits
  <2>2. l \in Hosts(Pointers)
    BY <1>2, <2>1, HostsEdit
  <2>3. l.kind = "hosts"
    BY <2>2, HostsParts
  <2> QED BY <1>2, <2>2, <2>3 DEF Library
<1>3. CASE s.kind = "nfs" /\ s \in NFS(Pointers)
  <2>1. l \in NFSEdits(s)
    BY <1>3 DEF Edits
  <2>2. l \in NFS(Pointers)
    BY <1>3, <2>1, NFSEdit
  <2>3. l.kind = "nfs"
    BY <2>2, NFSParts
  <2> QED BY <1>3, <2>2, <2>3 DEF Library
<1>4. CASE s.kind = "smb" /\ s \in SMB
  <2>1. l \in SMBEdits(s)
    BY <1>4 DEF Edits
  <2>2. l \in SMB
    BY <1>4, <2>1, SMBEditType
  <2>3. l.kind = "smb"
    BY <2>2, SMBParts
  <2> QED BY <1>4, <2>2, <2>3 DEF Library
<1> QED BY <1>1, <1>2, <1>3, <1>4, LibraryKinds

\* A change by the application is one of one part of the draft.
LEMMA NTPEditShape ==
    ASSUME NEW s \in NTP, NEW l \in NTP
    PROVE  \E f \in DOMAIN NTPSent(s) :
             NTPSent(l) = [NTPSent(s) EXCEPT ![f] = NTPSent(l)[f]]
<1> DEFINE a == NTPSent(s)
           b == NTPSent(l)
<1>1. a = [kind |-> "ntp", servers |-> a.servers] /\ b = [kind |-> "ntp", servers |-> b.servers]
  BY NTPSentType
<1> HIDE DEF a, b
<1>2. "servers" \in DOMAIN a /\ b = [a EXCEPT !["servers"] = b["servers"]]
  BY <1>1
<1> QED BY <1>2 DEF a, b

LEMMA NFSEditShape ==
    ASSUME NEW s \in NFS(Pointers), NEW l \in NFS(Pointers)
    PROVE  \E f \in DOMAIN NFSSent(s) :
             NFSSent(l) = [NFSSent(s) EXCEPT ![f] = NFSSent(l)[f]]
<1> DEFINE a == NFSSent(s)
           b == NFSSent(l)
<1>1. a = [kind |-> "nfs", shares |-> a.shares] /\ b = [kind |-> "nfs", shares |-> b.shares]
  BY NFSSentType
<1> HIDE DEF a, b
<1>2. "shares" \in DOMAIN a /\ b = [a EXCEPT !["shares"] = b["shares"]]
  BY <1>1
<1> QED BY <1>2 DEF a, b

LEMMA HostsEditShape ==
    ASSUME NEW s \in Hosts(Pointers), NEW l \in HostsEdits(s)
    PROVE  \E f \in DOMAIN HostsSent(s) :
             HostsSent(l) = [HostsSent(s) EXCEPT ![f] = HostsSent(l)[f]]
<1> DEFINE Statics(x) == [i \in DOMAIN x.static_hosts |-> HostSent(x.static_hosts[i])]
           Rec(x) == [kind |-> "hosts", hostname |-> AppendString(x.hostname),
                      domain |-> AppendString(x.domain), static_hosts |-> Statics(x),
                      dns_list |-> x.dns_list, search_domains_list |-> x.search_domains_list]
           a == HostsSent(s)
           b == HostsSent(l)
<1>1. l \in Hosts(Pointers)
  BY HostsEdit
<1>2. a = Rec(s) /\ b = Rec(l)
  BY <1>1, HostsSentIs
<1>3. s.static_hosts = l.static_hosts => Statics(s) = Statics(l)
  OBVIOUS
<1> HIDE DEF Statics, a, b
<1>4. CASE \E v \in Pointers : l = [s EXCEPT !.hostname = v]
  <2>1. l.domain = s.domain /\ l.static_hosts = s.static_hosts /\ l.dns_list = s.dns_list
        /\ l.search_domains_list = s.search_domains_list
    BY <1>4 DEF Hosts
  <2>2. "hostname" \in DOMAIN a /\ b = [a EXCEPT !["hostname"] = b["hostname"]]
    BY <1>2, <1>3, <2>1
  <2> QED BY <2>2 DEF a, b
<1>5. CASE \E v \in Pointers : l = [s EXCEPT !.domain = v]
  <2>1. l.hostname = s.hostname /\ l.static_hosts = s.static_hosts /\ l.dns_list = s.dns_list
        /\ l.search_domains_list = s.search_domains_list
    BY <1>5 DEF Hosts
  <2>2. "domain" \in DOMAIN a /\ b = [a EXCEPT !["domain"] = b["domain"]]
    BY <1>2, <1>3, <2>1
  <2> QED BY <2>2 DEF a, b
<1>6. CASE \E v \in Seq(Names) : l = [s EXCEPT !.dns_list = v]
  <2>1. l.hostname = s.hostname /\ l.domain = s.domain /\ l.static_hosts = s.static_hosts
        /\ l.search_domains_list = s.search_domains_list
    BY <1>6 DEF Hosts
  <2>2. "dns_list" \in DOMAIN a /\ b = [a EXCEPT !["dns_list"] = b["dns_list"]]
    BY <1>2, <1>3, <2>1
  <2> QED BY <2>2 DEF a, b
<1>7. CASE \E v \in Seq(Names) : l = [s EXCEPT !.search_domains_list = v]
  <2>1. l.hostname = s.hostname /\ l.domain = s.domain /\ l.static_hosts = s.static_hosts
        /\ l.dns_list = s.dns_list
    BY <1>7 DEF Hosts
  <2>2. /\ "search_domains_list" \in DOMAIN a
        /\ b = [a EXCEPT !["search_domains_list"] = b["search_domains_list"]]
    BY <1>2, <1>3, <2>1
  <2> QED BY <2>2 DEF a, b
<1>8. CASE \E v \in Seq(StaticHost(Pointers)) : l = [s EXCEPT !.static_hosts = v]
  <2>1. l.hostname = s.hostname /\ l.domain = s.domain /\ l.dns_list = s.dns_list
        /\ l.search_domains_list = s.search_domains_list
    BY <1>8 DEF Hosts
  <2>2. "static_hosts" \in DOMAIN a /\ b = [a EXCEPT !["static_hosts"] = b["static_hosts"]]
    BY <1>2, <2>1
  <2> QED BY <2>2 DEF a, b
<1> QED BY <1>4, <1>5, <1>6, <1>7, <1>8, HostsEdit

LEMMA SMBEditShape ==
    ASSUME NEW s \in SMB, NEW l \in SMBEdits(s)
    PROVE  \E f \in DOMAIN Understood(SMBSent(s)) :
             Understood(SMBSent(l)) =
               [Understood(SMBSent(s)) EXCEPT ![f] = Understood(SMBSent(l))[f]]
<1> DEFINE Shares(x) == [i \in DOMAIN x.shares |-> ShareSent(x.shares[i])]
           Rec(x) == [kind |-> "smb", shares |-> Shares(x),
                      workgroup |-> AppendString(x.workgroup), desc |-> AppendString(x.desc),
                      wins_server |-> AppendString(x.wins_server),
                      is_wins_server |-> x.is_wins_server, users |-> x.users]
           a == Understood(SMBSent(s))
           b == Understood(SMBSent(l))
<1>1. l \in SMB
  BY SMBEditType
<1>2. a = Rec(s) /\ b = Rec(l)
  BY <1>1, SMBSentType
<1>3. s.shares = l.shares => Shares(s) = Shares(l)
  OBVIOUS
<1> HIDE DEF Shares, a, b
<1>4. CASE \E v \in Seq(LibShares) : l = [s EXCEPT !.shares = v]
  <2>1. l.workgroup = s.workgroup /\ l.desc = s.desc /\ l.wins_server = s.wins_server
        /\ l.is_wins_server = s.is_wins_server /\ l.users = s.users
    BY <1>4 DEF SMB
  <2>2. "shares" \in DOMAIN a /\ b = [a EXCEPT !["shares"] = b["shares"]]
    BY <1>2, <2>1
  <2> QED BY <2>2 DEF a, b
<1>5. CASE \E v \in Pointers : l = [s EXCEPT !.workgroup = v]
  <2>1. l.shares = s.shares /\ l.desc = s.desc /\ l.wins_server = s.wins_server
        /\ l.is_wins_server = s.is_wins_server /\ l.users = s.users
    BY <1>5 DEF SMB
  <2>2. "workgroup" \in DOMAIN a /\ b = [a EXCEPT !["workgroup"] = b["workgroup"]]
    BY <1>2, <1>3, <2>1
  <2> QED BY <2>2 DEF a, b
<1>6. CASE \E v \in Pointers : l = [s EXCEPT !.desc = v]
  <2>1. l.shares = s.shares /\ l.workgroup = s.workgroup /\ l.wins_server = s.wins_server
        /\ l.is_wins_server = s.is_wins_server /\ l.users = s.users
    BY <1>6 DEF SMB
  <2>2. "desc" \in DOMAIN a /\ b = [a EXCEPT !["desc"] = b["desc"]]
    BY <1>2, <1>3, <2>1
  <2> QED BY <2>2 DEF a, b
<1>7. CASE \E v \in Pointers : l = [s EXCEPT !.wins_server = v]
  <2>1. l.shares = s.shares /\ l.workgroup = s.workgroup /\ l.desc = s.desc
        /\ l.is_wins_server = s.is_wins_server /\ l.users = s.users
    BY <1>7 DEF SMB
  <2>2. "wins_server" \in DOMAIN a /\ b = [a EXCEPT !["wins_server"] = b["wins_server"]]
    BY <1>2, <1>3, <2>1
  <2> QED BY <2>2 DEF a, b
<1>8. CASE \E v \in {0, 1} : l = [s EXCEPT !.is_wins_server = v]
  <2>1. l.shares = s.shares /\ l.workgroup = s.workgroup /\ l.desc = s.desc
        /\ l.wins_server = s.wins_server /\ l.users = s.users
    BY <1>8 DEF SMB
  <2>2. /\ "is_wins_server" \in DOMAIN a
        /\ b = [a EXCEPT !["is_wins_server"] = b["is_wins_server"]]
    BY <1>2, <1>3, <2>1
  <2> QED BY <2>2 DEF a, b
<1>9. CASE \E v \in Tables : l = [s EXCEPT !.users = v]
  <2>1. l.shares = s.shares /\ l.workgroup = s.workgroup /\ l.desc = s.desc
        /\ l.wins_server = s.wins_server /\ l.is_wins_server = s.is_wins_server
    BY <1>9 DEF SMB
  <2>2. "users" \in DOMAIN a /\ b = [a EXCEPT !["users"] = b["users"]]
    BY <1>2, <1>3, <2>1
  <2> QED BY <2>2 DEF a, b
<1> QED BY <1>4, <1>5, <1>6, <1>7, <1>8, <1>9, SMBEdit

LEMMA EditShape ==
    ASSUME NEW s \in Library, NEW l \in Edits(s)
    PROVE  \E f \in DOMAIN Request(s) : Request(l) = [Request(s) EXCEPT ![f] = Request(l)[f]]
<1>1. l \in Library /\ l.kind = s.kind
  BY EditType
<1>2. CASE s.kind = "ntp" /\ s \in NTP
  <2>1. l \in NTP
    BY <1>1, <1>2, LibraryKinds
  <2>2. Request(s) = NTPSent(s) /\ Request(l) = NTPSent(l)
    BY <1>1, <1>2, RequestIs
  <2> QED BY <1>2, <2>1, <2>2, NTPEditShape
<1>3. CASE s.kind = "hosts" /\ s \in Hosts(Pointers)
  <2>1. l \in HostsEdits(s)
    BY <1>3 DEF Edits
  <2>2. Request(s) = HostsSent(s) /\ Request(l) = HostsSent(l)
    BY <1>1, <1>3, RequestIs
  <2> QED BY <1>3, <2>1, <2>2, HostsEditShape
<1>4. CASE s.kind = "nfs" /\ s \in NFS(Pointers)
  <2>1. l \in NFS(Pointers)
    BY <1>1, <1>4, LibraryKinds
  <2>2. Request(s) = NFSSent(s) /\ Request(l) = NFSSent(l)
    BY <1>1, <1>4, RequestIs
  <2> QED BY <1>4, <2>1, <2>2, NFSEditShape
<1>5. CASE s.kind = "smb" /\ s \in SMB
  <2>1. l \in SMBEdits(s)
    BY <1>5 DEF Edits
  <2>2. Request(s) = Understood(SMBSent(s)) /\ Request(l) = Understood(SMBSent(l))
    BY <1>1, <1>5, RequestIs
  <2> QED BY <1>5, <2>1, <2>2, SMBEditShape
<1> QED BY <1>2, <1>3, <1>4, <1>5, LibraryKinds

-----------------------------------------------------------------------------
(* The state machine *)

\* The answer that is on its way is of the kind of the system: the object asks
\* for nothing else.
ListsInv == TypeOK /\ (get # Null => get.kind = system.kind)

LEMMA ListsInit == Init => ListsInv
<1> SUFFICES ASSUME Init PROVE ListsInv
  OBVIOUS
<1>1. PICK kind \in Kinds : system \in Variants(Plain(kind)) /\ lib = Blank(kind)
  BY DEF Init
<1>2. Plain(kind) \in Systems /\ Plain(kind).kind = kind
  BY PlainType
<1>3. system \in Systems /\ system.kind = kind
  BY <1>1, <1>2, VariantType
<1>4. lib \in Library /\ lib.kind = kind
  BY <1>1, BlankType
<1>5. get = Null /\ heard = Null /\ changes = 0
  BY DEF Init
<1>6. changes \in 0..MaxChanges
  BY <1>5, ChangesAssumption
<1> QED BY <1>3, <1>4, <1>5, <1>6 DEF ListsInv, TypeOK, Library

LEMMA ListsNext == ListsInv /\ [Next]_vars => ListsInv'
<1> SUFFICES ASSUME ListsInv, [Next]_vars PROVE ListsInv'
  OBVIOUS
<1>0. /\ system \in Systems /\ lib \in Library /\ lib.kind = system.kind
      /\ get = Null \/ (get \in Systems /\ get.kind = system.kind)
      /\ heard = Null \/ heard \in Requests
      /\ changes \in 0..MaxChanges
  BY DEF ListsInv, TypeOK, Library
<1> SUFFICES /\ system' \in Systems /\ lib' \in Library /\ lib'.kind = system'.kind
             /\ get' = Null \/ (get' \in Systems /\ get'.kind = system'.kind)
             /\ heard' = Null \/ heard' \in Requests
             /\ changes' \in 0..MaxChanges
  BY DEF ListsInv, TypeOK, Library
<1>1. CASE Update
  BY <1>0, <1>1, ReadBack DEF Update
<1>2. CASE UpdateAsync
  BY <1>0, <1>2 DEF UpdateAsync
<1>3. CASE Dispatch
  BY <1>0, <1>3, ReadBack DEF Dispatch
<1>4. CASE Commit
  <2>1. Request(lib) \in Requests /\ Request(lib).kind = system.kind
    BY <1>0, RequestType
  <2>2. heard' = Request(lib) /\ system' = Stored(Request(lib), system)
        /\ lib' = lib /\ get' = get /\ changes' = changes
    BY <1>4 DEF Commit
  <2>3. system' \in Systems /\ system'.kind = system.kind
    BY <1>0, <2>1, <2>2, StoredType
  <2> QED BY <1>0, <2>1, <2>2, <2>3
<1>5. CASE Edit
  <2>1. lib' \in Library /\ lib'.kind = lib.kind
    BY <1>0, <1>5, EditType DEF Edit
  <2>2. changes' \in 0..MaxChanges
    BY <1>0, <1>5, ChangesAssumption DEF Edit, Counted
  <2> QED BY <1>0, <1>5, <2>1, <2>2 DEF Edit
<1>6. CASE OtherProgram
  <2>1. system' \in Systems /\ system'.kind = system.kind
    BY <1>0, <1>6, VariantType DEF OtherProgram
  <2>2. changes' \in 0..MaxChanges
    BY <1>0, <1>6, ChangesAssumption DEF OtherProgram, Counted
  <2> QED BY <1>0, <1>6, <2>1, <2>2 DEF OtherProgram
<1>7. CASE UNCHANGED vars
  BY <1>0, <1>7 DEF vars
<1> QED BY <1>1, <1>2, <1>3, <1>4, <1>5, <1>6, <1>7 DEF Next

\* The object and what it waits for are always of the kind of its backend: an
\* answer that arrives late is read like one that is waited for.
THEOREM Invariance == Spec => []ListsInv
  BY ListsInit, ListsNext, PTL DEF Spec

\* Whatever the application and other programs do, the object holds pointers that
\* are NULL or a string, flags and numbers it can send, and users with the password
\* that was set, or none: never a configuration of another kind.
THEOREM TypeCorrect == Spec => []TypeOK
<1>1. ListsInv => TypeOK
  BY DEF ListsInv
<1> QED BY <1>1, Invariance, PTL

LEMMA PromiseInit == Init => Promise!Init
<1> SUFFICES ASSUME Init PROVE Promise!Init
  OBVIOUS
<1>1. PICK kind \in Kinds : system \in Variants(Plain(kind)) /\ lib = Blank(kind)
  BY DEF Init
<1>2. Plain(kind) \in Systems /\ Plain(kind).kind = kind
  BY PlainType
<1>3. system.kind = kind
  BY <1>1, <1>2, VariantType
<1>4. Request(lib) = Request(Blank(system.kind))
  BY <1>1, <1>3
<1>5. get = Null /\ heard = Null
  BY DEF Init
<1> QED BY <1>4, <1>5 DEF Promise!Init

LEMMA PromiseStep == ListsInv /\ [Next]_vars => [Promise!Next]_(Promise!vars)
<1> SUFFICES ASSUME ListsInv, [Next]_vars PROVE [Promise!Next]_(Promise!vars)
  OBVIOUS
<1>0. /\ system \in Systems /\ lib \in Library
      /\ get = Null \/ get \in Systems
  BY DEF ListsInv, TypeOK, Library
<1>1. CASE Update
  <2>1. Request(lib') = Shown(system)
    BY <1>0, <1>1, ReadBack DEF Update
  <2>2. Promise!Update
    BY <1>1, <2>1 DEF Update, Promise!Update
  <2> QED BY <2>2 DEF Promise!Next
<1>2. CASE UpdateAsync
  <2>1. Promise!Ask
    BY <1>2 DEF UpdateAsync, Promise!Ask
  <2> QED BY <2>1 DEF Promise!Next
<1>3. CASE Dispatch
  <2>1. Request(lib') = Shown(get)
    BY <1>0, <1>3, ReadBack DEF Dispatch
  <2>2. Promise!Answer
    BY <1>3, <2>1 DEF Dispatch, Promise!Answer
  <2> QED BY <2>2 DEF Promise!Next
<1>4. CASE Commit
  <2>1. Promise!Commit
    BY <1>4 DEF Commit, Promise!Commit
  <2> QED BY <2>1 DEF Promise!Next
<1>5. CASE Edit
  <2>1. \E f \in DOMAIN Request(lib) :
          Request(lib') = [Request(lib) EXCEPT ![f] = Request(lib')[f]]
    BY <1>0, <1>5, EditShape DEF Edit
  <2>2. Promise!Change
    BY <1>5, <2>1 DEF Edit, Promise!Change
  <2> QED BY <2>2 DEF Promise!Next
<1>6. CASE OtherProgram
  <2>1. Promise!OtherChange
    BY <1>6 DEF OtherProgram, Promise!OtherChange
  <2> QED BY <2>1 DEF Promise!Next
<1>7. CASE UNCHANGED vars
  BY <1>7 DEF vars, Promise!vars
<1> QED BY <1>1, <1>2, <1>3, <1>4, <1>5, <1>6, <1>7 DEF Next

\* Every list object implements the draft: reading and writing undo each other,
\* setters touch one field, and commits ask for what was read or set.
THEOREM PromiseKept == Spec => KeepsPromise
<1>1. Init => Promise!Init
  BY PromiseInit
<1>2. ListsInv /\ [Next]_vars => [Promise!Next]_(Promise!vars)
  BY PromiseStep
<1> QED BY <1>1, <1>2, Invariance, PTL DEF Spec, KeepsPromise, Promise!Spec

===============================================================================
