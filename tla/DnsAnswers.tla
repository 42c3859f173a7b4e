----------------------------- MODULE DnsAnswers -----------------------------
(***************************************************************************)
(* What the host resolver answers a query with, from what the host's own   *)
(* resolution gives, how the client in jm asks it, and doctor's check that *)
(* both agree.  The order of addresses is left out.                        *)
(***************************************************************************)
EXTENDS Integers, Sequences, FiniteSets

CONSTANTS
    Ids,        \* what tells addresses of a kind apart
    Alias,      \* the host's address on the guest's network
    AllowIPv6,  \* whether the provider routes IPv6
    MinUDP, MaxUDP, \* the least and the largest datagram, in answers
    StatusName, \* the name that reports how the resolver resolves
    AliasTable, \* the names the resolver answers itself, with their addresses
    ReverseNames,   \* the names that stand for an address
    MaxProbeCandidates  \* how many names of the hosts file doctor looks at

ASSUME DnsAssumption ==
    /\ MinUDP \in Nat /\ MaxUDP \in Nat /\ MinUDP <= MaxUDP /\ MaxProbeCandidates \in Nat
    /\ AllowIPv6 \in BOOLEAN

Classes == {"global", "loopback", "linklocal", "unspecified", "multicast"}

\* A mapped address is an IPv4 one written as IPv6; its class is that of the
\* IPv4 address.
HostAddress == [v: {4, 6}, mapped: BOOLEAN, class: Classes, id: Ids]

\* What the host's resolution gives for a name: its addresses, its alias, and
\* the records of another type, those left out that no reply can hold.
IsResult(found) ==
    /\ found.err \in {"ok", "notfound", "failed"}
    /\ found.ips \subseteq {a \in HostAddress : a.mapped => a.v = 6}

Address(v, class, id) == [v |-> v, mapped |-> FALSE, class |-> class, id |-> id]
alias == Address(4, "global", Alias)
AliasNames == DOMAIN AliasTable

\* Mutant: a mapped address stays IPv6.
unmapNever(a) == a

unmap(a) == IF a.mapped THEN Address(4, a.class, a.id) ELSE a

\* A loopback address of the host is the host alias in the guest.
rewritten(a) == IF a.class = "loopback" THEN alias ELSE a

\* What the guest can route to, the host's IPv4 loopback through the alias.
\* 0.0.0.0 is how a hosts file blocks a name.
reachable(a, six) ==
    a.class \notin {"linklocal", "multicast", "unspecified"} /\ ~(six /\ a.class = "loopback")

\* GuestAddrs: of what the host found, the family asked for.
GuestAddrs(ips, six) ==
    {rewritten(a) : a \in {a \in {unmap(x) : x \in ips} : (a.v = 6) = six /\ reachable(a, six)}}

reply(rcode, answers) == [rcode |-> rcode, answers |-> answers, tc |-> FALSE]

\* fail: only a missing name is one.
fail(err) == IF err = "notfound" THEN "nxdomain" ELSE "servfail"

\* addressAnswer.  A name that does not exist has no address of any family.
addressAnswer(found, six) ==
    IF found.err # "ok" THEN reply(fail(found.err), {})
    ELSE reply("noerror", IF six /\ ~AllowIPv6 THEN {} ELSE GuestAddrs(found.ips, six))

\* statusAnswer: how the resolver resolves, as text only.
statusAnswer(q) == reply("noerror", IF q.type \in {"TXT", "ALL"} THEN {"mode"} ELSE {})

\* aliasAnswer: a name of the table has an IPv4 address and nothing else.
aliasAnswer(q, ip) == reply("noerror", IF q.type \in {"A", "ALL"} /\ ip.v = 4 THEN {ip} ELSE {})

\* The records of another type.  The host's resolution gives a name that has no
\* alias as its own, which is not one.
recordAnswer(found, q) ==
    IF found.err # "ok" THEN reply(fail(found.err), {})
    ELSE reply("noerror", IF q.type = "CNAME" THEN {found.cname} \ {q.name} ELSE found.data)

\* resolve: the status, the alias table, then the host, for the types its
\* resolution can be asked for; a PTR is only asked of a reverse name.  "TXT"
\* stands for TXT, SRV, MX and NS.
resolve(sys, q) ==
    IF q.name = StatusName THEN statusAnswer(q)
    ELSE IF q.name \in AliasNames THEN aliasAnswer(q, AliasTable[q.name])
    ELSE CASE q.type \in {"A", "AAAA"} -> addressAnswer(sys[q.name], q.type = "AAAA")
           [] q.type = "PTR" /\ q.name \notin ReverseNames -> reply("noerror", {})
           [] q.type \in {"CNAME", "TXT"} \/ (q.type = "PTR" /\ q.name \in ReverseNames) ->
                recordAnswer(sys[q.name], q)
           [] OTHER -> reply("notimp", {})

none == reply("none", {})

\* The checks before a question is answered: a reply is never answered.
checked(sys, q) ==
    IF q.form \in {"broken", "response"} THEN none
    ELSE IF q.form \in {"noquestion", "two"} THEN reply("formerr", {})
    ELSE IF q.class \notin {"IN", "ANY"} THEN reply("refused", {})
    ELSE IF q.opcode # 0 THEN reply("notimp", {})
    ELSE resolve(sys, q)

udpSize(q) == IF q.edns < MinUDP THEN MinUDP ELSE IF q.edns > MaxUDP THEN MaxUDP ELSE q.edns

\* build: what does not fit a datagram is dropped and the reply truncated.
build(q, r) ==
    IF Cardinality(r.answers) > udpSize(q) THEN [rcode |-> r.rcode, answers |-> {}, tc |-> TRUE] ELSE r

Answer(sys, q) == build(q, checked(sys, q))
answerTCP(sys, q) == checked(sys, q)

\* askResolver: over UDP, and again over TCP when the reply was truncated.  A
\* response code other than success is an error, and is not retried.
askResolver(sys, name, type) ==
    LET q == [form |-> "query", class |-> "IN", opcode |-> 0, name |-> name, type |-> type,
              edns |-> MaxUDP]
        udp == Answer(sys, q)
    IN  IF udp.rcode = "noerror" /\ udp.tc THEN answerTCP(sys, q) ELSE udp

\* What there is to compare a name's answer with.
comparable(sys, name) == IF sys[name].err = "ok" THEN GuestAddrs(sys[name].ips, FALSE) ELSE {}

\* Mutant: the probe may be a name the alias table holds.
candidatesAll(sys, file, aliases) ==
    {i \in DOMAIN file : i <= MaxProbeCandidates /\ comparable(sys, file[i]) # {}}

\* ParityProbe's candidates: of the names a hosts file starts with, those
\* doctor's own alias table does not hold and the host has an address for.
candidates(sys, file, aliases) ==
    {i \in DOMAIN file :
        i <= MaxProbeCandidates /\ file[i] \notin aliases /\ comparable(sys, file[i]) # {}}

\* The first with an address of its own, else the first.
ParityProbe(sys, file, aliases) ==
    LET c == candidates(sys, file, aliases)
        own == {i \in c : comparable(sys, file[i]) # {alias}}
        pick == IF own # {} THEN own ELSE c
    IN  {file[i] : i \in {i \in pick : \A j \in pick : i <= j}}

\* resolverParityCheck, third part: the resolver's answer is the host's.
inParity(sys, name) ==
    LET got == askResolver(sys, name, "A")
    IN  got.rcode = "noerror" /\ got.answers = GuestAddrs(sys[name].ips, FALSE)

--------------------------------------------------------------------------
(* What the answers promise. *)

\* A query the host's resolution answers.
reachesHost(q) ==
    /\ q.form = "query" /\ q.class \in {"IN", "ANY"} /\ q.opcode = 0
    /\ q.name \notin AliasNames \cup {StatusName}

\* The addresses answered are the host's as the guest can use them, no fewer
\* and no others: each global IPv4 address, also one given as IPv6, the host
\* alias for a loopback one and only for that, and IPv6 only with a route.  So
\* none is one the guest cannot reach, and a blocked name is empty.
AddressesAreTheHosts(sys, q) ==
    LET r == answerTCP(sys, q)
        ips == sys[q.name].ips
        four(x) == x.v = 4 \/ x.mapped
    IN  (reachesHost(q) /\ sys[q.name].err = "ok") =>
            /\ q.type = "A" =>
                /\ \A x \in ips : four(x) /\ x.class = "global" => Address(4, "global", x.id) \in r.answers
                /\ \A x \in ips : four(x) /\ x.class = "loopback" => alias \in r.answers
                /\ \A a \in r.answers : \E x \in ips :
                    /\ four(x)
                    /\ \/ x.class = "global" /\ a = Address(4, "global", x.id)
                       \/ x.class = "loopback" /\ a = alias
            /\ q.type = "AAAA" => r.answers = {x \in ips : AllowIPv6 /\ ~four(x) /\ x.class = "global"}

\* What the host's resolution is asked for, reverse names only by their address.
asksHost(q) == q.type \in {"A", "AAAA", "CNAME", "TXT"} \/ (q.type = "PTR" /\ q.name \in ReverseNames)

\* The host's failures are the guest's and no others: a missing name for every
\* type, a resolver that could not tell for every other error, no answers with
\* either; and a name is never answered as its own alias.
FailureIsTheHosts(sys, q) ==
    LET r == answerTCP(sys, q) IN
    (reachesHost(q) /\ asksHost(q)) =>
        /\ r.rcode = "nxdomain" <=> sys[q.name].err = "notfound"
        /\ r.rcode = "servfail" <=> sys[q.name].err = "failed"
        /\ r.rcode = "noerror" <=> sys[q.name].err = "ok"
        /\ r.rcode # "noerror" => r.answers = {}
        /\ q.type = "CNAME" => q.name \notin r.answers

\* A client that follows a truncated reply over TCP has the whole answer,
\* whatever the datagram size it offered, and never a partial one.
TruncationIsTold(sys, q) ==
    LET udp == Answer(sys, q)
        tcp == answerTCP(sys, q)
    IN  udp.rcode = tcp.rcode /\ (~udp.tc => udp.answers = tcp.answers)

\* doctor's probe finds the resolver in parity with the host whenever the
\* resolver resolves through it, however many addresses the name has, and the
\* probe is no name of the resolver's alias table, unless doctor's own table,
\* made afresh from the host's names, has lost one the resolver still holds.
ProbeIsInParity(sys, file, aliases) ==
    \A n \in ParityProbe(sys, file, aliases) :
        /\ n \notin AliasNames => inParity(sys, n)
        /\ AliasNames \subseteq aliases => n \notin AliasNames

=============================================================================
