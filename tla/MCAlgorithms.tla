---------------------------- MODULE MCAlgorithms ----------------------------
(***************************************************************************)
(* Bounded inputs of the publish plan, the share set and the answer        *)
(* policy for TLC.                                                         *)
(***************************************************************************)
EXTENDS Algorithms

Publishes(hosts, spans) ==
    [c: Containers, running: {TRUE}, proto: {"tcp"}, ip: {"none", "guest", "any", "lan"},
     hp: hosts, cp: {1, 2}, n: spans]

Pubs ==
    LET wide == Publishes({1, MaxPort}, {0, 2})
        narrow == Publishes({1}, {1})
        gone == [c: {"c1"}, running: BOOLEAN, proto: {"tcp", "udp"}, ip: {"any"}, hp: {0, 1},
                 cp: {1}, n: {1}]
    IN  {<<a, b>> : a, b \in wide} \cup {<<a, b, c>> : a, b, c \in narrow}
          \cup {<<a, b>> : a \in gone, b \in narrow \cup gone}

Plans == [kind: {"plan"}, pubs: Pubs, addressed: SUBSET Containers]

Looks == {<<"a">>, <<"a", "b">>, <<"a", "b", "c">>, <<"a", "d">>, <<"e">>}
OneShare == [path: Looks, ro: BOOLEAN]

Requests ==
    [kind: {"normalise"}, shares: UNION {[1 .. n -> OneShare] : n \in 1 .. 3}]

Mounts ==
    [kind: {"mount"}, list: {NormaliseShares(x) : x \in [1 .. 2 -> OneShare]}, add: OneShare,
     remove: {{}} \cup {{p} : p \in Looks}]

Addresses ==
    {Address(4, "global", "x"), Address(4, "loopback", "lo"), Address(4, "linklocal", "ll"),
     Address(4, "unspecified", "any"), Address(6, "global", "x"), Address(6, "loopback", "lo"),
     Address(6, "multicast", "mc"), [Address(6, "global", "y") EXCEPT !.mapped = TRUE],
     [Address(6, "loopback", "lo") EXCEPT !.mapped = TRUE]}

Found ==
    [err: {"ok"}, ips: {s \in SUBSET Addresses : Cardinality(s) <= 3}, data: {{}, {"r1", "r2", "r3"}},
     cname: {"host", "elsewhere"}]
      \cup [err: {"notfound", "failed"}, ips: {{}}, data: {{}}, cname: {"host"}]

Questions ==
    [form: {"query"}, class: {"IN"}, opcode: {0}, name: {"host", "arpa", StatusName, "internal"},
     type: {"A", "AAAA", "CNAME", "PTR", "TXT", "ALL"}, edns: {0, MaxUDP, MaxUDP + 1}]
      \cup [form: {"query", "broken", "response", "noquestion", "two"}, class: {"IN", "ANY", "CH"},
            opcode: {0, 1}, name: {"host"}, type: {"A"}, edns: {0}]

\* The name asked for, another of the host's hosts file, and a name the alias
\* table holds too.
Resolution(f) ==
    [n \in Names |->
        IF n = "other" THEN [f EXCEPT !.err = "ok", !.ips = {Address(4, "loopback", "lo")}] ELSE f]

\* Two names only the resolver answers, one with no IPv4 address.
Internal == [n \in {"internal", "internal6"} |->
                IF n = "internal" THEN alias ELSE Address(6, "global", "x")]

Files == {<<"host", "other">>, <<"other", "host">>, <<"internal", "host">>,
          <<"internal", "other", "host">>, <<"other", "internal6">>}

Lookups ==
    {[kind |-> "dns", sys |-> Resolution(f), q |-> q, file |-> <<>>, aliases |-> {}] :
        f \in Found, q \in Questions}
      \cup [kind: {"dns"}, sys: {Resolution(f) : f \in Found},
            q: [form: {"query"}, class: {"IN"}, opcode: {0}, name: {"internal6"}, type: {"A"}, edns: {0}],
            file: Files, aliases: SUBSET DOMAIN Internal]

=============================================================================
