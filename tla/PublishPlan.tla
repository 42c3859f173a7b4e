----------------------------- MODULE PublishPlan -----------------------------
(***************************************************************************)
(* What the forwarder wants, from what "podman ps" lists: the host         *)
(* mappings, the guest redirects jm must add itself, and the mappings that *)
(* cannot work yet.  A container's publish names a host address:           *)
(*   "none"   no address       "guest"  the guest's own                    *)
(*   "any"    every interface  else     one address of the host            *)
(***************************************************************************)
EXTENDS Integers, Sequences, FiniteSets

CONSTANTS
    HostIP,     \* the machine's publish address
    AnyIP,      \* the address that binds every interface
    MaxPort,    \* the last port there is
    Containers, Protocols, HostAddresses

ASSUME PublishAssumption == MaxPort \in Nat \ {0}

\* One publish of one container: n host ports from hp, to n ports from cp.
Publication ==
    [c: Containers, running: BOOLEAN, proto: Protocols, ip: HostAddresses, hp: Nat, cp: Nat, n: Nat]

\* bindFor: the address the host side binds, and whether the engine left the
\* port unreachable at the guest's own address.
bindFor(ip) ==
    CASE ip \in {"none", "guest"} -> [ip |-> HostIP, rule |-> FALSE]
      [] ip = "any"               -> [ip |-> AnyIP, rule |-> TRUE]
      [] OTHER                    -> [ip |-> ip, rule |-> TRUE]

\* expand: one port each, at least one, and none past the last.
expand(p) ==
    LET n == IF p.n < 1 THEN 1 ELSE p.n
        fits == IF p.hp + n - 1 > MaxPort THEN MaxPort - p.hp + 1 ELSE n
    IN  [i \in 1 .. fits |->
            [c |-> p.c, proto |-> p.proto, hp |-> p.hp + i - 1, cp |-> p.cp + i - 1,
             bind |-> bindFor(p.ip).ip, rule |-> bindFor(p.ip).rule]]

publishedBy(p) == IF p.running /\ p.hp # 0 THEN expand(p) ELSE <<>>

\* The ports of the running containers, in the order ps lists them.  A publish
\* whose host port is not known yet has none.
ports(pubs) ==
    LET upTo[i \in 0 .. Len(pubs)] ==
            IF i = 0 THEN <<>> ELSE upTo[i - 1] \o publishedBy(pubs[i])
    IN  upTo[Len(pubs)]

key(p) == <<p.proto, p.bind, p.hp>>
guestKey(p) == <<p.proto, p.hp>>

\* The guest ports the engine itself redirects.
engineServes(ps) == {guestKey(ps[i]) : i \in {i \in DOMAIN ps : ~ps[i].rule}}

noPlan == [mappings |-> {}, rules |-> {}, pending |-> {}]

\* Mutant: a container that clashes with another's redirect joins it.
clashesNever(plan, p) == FALSE

\* Another container already has jm's redirect at this guest port.
clashes(plan, p) == \E r \in plan.rules : r.at = guestKey(p) /\ r.c # p.c

\* One turn of Compute's loop.  A mapping is taken once.  One that needs a
\* redirect at a port that is taken is pending; a second one of the same
\* container shares its redirect; otherwise it gets one.
plan1(engine, plan, p) ==
    LET k == key(p)
        gk == guestKey(p)
        there == {r \in plan.rules : r.at = gk}
        mapped == [plan EXCEPT !.mappings = @ \cup {k}]
    IN  IF k \in plan.mappings THEN plan
        ELSE IF ~p.rule THEN mapped
        ELSE IF gk \in engine \/ clashes(plan, p) THEN [mapped EXCEPT !.pending = @ \cup {k}]
        ELSE IF there # {} THEN
                [mapped EXCEPT !.rules =
                    (@ \ there) \cup {[r EXCEPT !.keys = @ \cup {k}] : r \in there}]
        ELSE    [mapped EXCEPT !.rules = @ \cup {[at |-> gk, c |-> p.c, cp |-> p.cp, keys |-> {k}]}]

Compute(pubs) ==
    LET ps == ports(pubs)
        after[i \in 0 .. Len(ps)] ==
            IF i = 0 THEN noPlan ELSE plan1(engineServes(ps), after[i - 1], ps[i])
    IN  after[Len(ps)]

\* Resolve: a container with no address yet blocks its mappings.
Resolve(plan, addressed) ==
    LET lost == {r \in plan.rules : r.c \notin addressed}
    IN  [plan EXCEPT !.rules = @ \ lost, !.pending = @ \cup UNION {r.keys : r \in lost}]

--------------------------------------------------------------------------
(* What the plan promises. *)

\* Where the guest delivers a port: the engine's redirects, then jm's anchor.
delivers(pubs, plan, gk) ==
    LET ps == ports(pubs)
        engine == {<<ps[i].c, ps[i].cp>> : i \in {i \in DOMAIN ps : ~ps[i].rule /\ guestKey(ps[i]) = gk}}
    IN  IF engine # {} THEN engine ELSE {<<r.c, r.cp>> : r \in {r \in plan.rules : r.at = gk}}

published(pubs) ==
    UNION {{<<i, d>> : d \in 0 .. (IF pubs[i].n = 0 THEN 0 ELSE pubs[i].n - 1)} :
            i \in {i \in DOMAIN pubs : pubs[i].running /\ pubs[i].hp # 0}}

\* Exactly the ports the running containers publish are mapped, each bound at
\* the address its publish asks for, none past the last port.
MapsWhatIsPublished(pubs, plan) ==
    plan.mappings =
        {<<pubs[x[1]].proto, bindFor(pubs[x[1]].ip).ip, pubs[x[1]].hp + x[2]>> :
            x \in {x \in published(pubs) : pubs[x[1]].hp + x[2] <= MaxPort}}

\* jm writes no redirect over a guest port the engine serves, and at most one
\* per port.
RulesLeaveEngine(pubs, plan) ==
    /\ \A r \in plan.rules : r.at \notin {guestKey(ports(pubs)[i]) :
            i \in {i \in DOMAIN ports(pubs) : ~ports(pubs)[i].rule}}
    /\ \A r, s \in plan.rules : r.at = s.at => r = s

\* A mapping not reported as pending reaches a container that published it,
\* and the container port it named unless the container named two for the
\* one guest port.
MappedIsDelivered(pubs, plan) ==
    LET ps == ports(pubs) IN
    \A k \in plan.mappings \ plan.pending :
        \E i \in DOMAIN ps :
            LET gk == guestKey(ps[i])
                targets == delivers(pubs, plan, gk)
                named == {ps[j].cp : j \in {j \in DOMAIN ps : guestKey(ps[j]) = gk /\ ps[j].c = ps[i].c}}
            IN  /\ key(ps[i]) = k
                /\ \E t \in targets :
                    t[1] = ps[i].c /\ (Cardinality(named) = 1 => t[2] = ps[i].cp)

\* A mapping is reported as pending only where its redirect cannot be made: the
\* engine or another container has the guest port, or the container no address.
PendingIsBlocked(pubs, plan, addressed) ==
    LET ps == ports(pubs) IN
    \A k \in plan.pending :
        \E i \in DOMAIN ps :
            /\ key(ps[i]) = k /\ ps[i].rule
            /\ \/ guestKey(ps[i]) \in engineServes(ps)
               \/ ps[i].c \notin addressed
               \/ \E j \in DOMAIN ps : guestKey(ps[j]) = guestKey(ps[i]) /\ ps[j].c # ps[i].c

=============================================================================
