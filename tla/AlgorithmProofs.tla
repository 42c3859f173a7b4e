-------------------------- MODULE AlgorithmProofs --------------------------
(***************************************************************************)
(* Proofs about the publish plan, the share set and the answer policy, for *)
(* every input.  Where the code loops, the argument is by induction on the *)
(* turns: a set of turns that holds 0 and the turn after each of its own   *)
(* holds them all, since a turn it missed would have a least one.          *)
(***************************************************************************)
EXTENDS Algorithms, FiniteSetTheorems, TLAPS

--------------------------------------------------------------------------
(* Loops. *)

\* Descending from a natural ends.
LEMMA Descent ==
    \E R : /\ IsWellFoundedOn(R, Nat)
           /\ \A i, j \in Nat : i < j => <<i, j>> \in R
<1>1. \A i, j \in Nat : i < j => <<i, j>> \in OpToRel(<, Nat)
  BY Zenon DEF OpToRel
<1> QED BY <1>1, NatLessThanWellFounded, Zenon

\* A set of naturals has a least one.
LEMMA LeastNatural ==
    ASSUME NEW T \in SUBSET Nat, T # {}
    PROVE  \E n \in T : \A k \in T : n <= k
<1>1. PICK R : IsWellFoundedOn(R, Nat) /\ \A i, j \in Nat : i < j => <<i, j>> \in R
  BY Descent
<1>2. T \subseteq Nat
  OBVIOUS
<1>3. \A S, U : IsWellFoundedOn(R, S) /\ U \subseteq S /\ U # {}
                    => \E n \in U : \A k \in U : ~(<<k, n>> \in R)
  BY WFMin, SMT
<1>4. PICK n \in T : \A k \in T : ~(<<k, n>> \in R)
  BY <1>1, <1>2, <1>3
<1>5. ASSUME NEW k \in T PROVE n <= k
  <2>1. n \in Nat /\ k \in Nat
    BY <1>2
  <2>2. ~(k < n)
    BY <1>1, <1>4, <2>1, Zenon
  <2> QED BY <2>1, <2>2
<1> QED BY <1>5

\* Induction over the turns of a loop, 0 to n.
LEMMA UpTo ==
    ASSUME NEW n \in Nat, NEW T, 0 \in T,
           \A i \in 0 .. n - 1 : i \in T => i + 1 \in T
    PROVE  \A i \in 0 .. n : i \in T
<1> DEFINE Missed == {i \in 0 .. n : i \notin T}
<1>1. SUFFICES ASSUME Missed # {} PROVE FALSE
  OBVIOUS
<1>2. Missed \in SUBSET Nat
  OBVIOUS
<1>3. PICK m \in Missed : \A k \in Missed : m <= k
  BY <1>1, <1>2, LeastNatural
<1>4. m \in 1 .. n /\ m \notin T
  BY <1>3
<1>5. m - 1 \in 0 .. n - 1 /\ m - 1 \notin Missed
  BY <1>3, <1>4
<1>6. m - 1 \in T
  BY <1>5
<1> QED BY <1>4, <1>5, <1>6

--------------------------------------------------------------------------
(* The publish plan. *)

\* A port of a running container.
Port ==
    [c: Containers, proto: Protocols, hp: Nat, cp: Nat,
     bind: HostAddresses \cup {HostIP, AnyIP}, rule: BOOLEAN]

\* A function of 1 .. n is a list.
LEMMA IsSequence ==
    ASSUME NEW S, NEW n \in Nat, NEW f \in [1 .. n -> S]
    PROVE  f \in Seq(S) /\ Len(f) = n /\ DOMAIN f = 1 .. n
OBVIOUS

\* The ports of one publish.
LEMMA PublishedPorts ==
    ASSUME NEW p \in Publication
    PROVE  /\ publishedBy(p) \in Seq(Port)
           /\ \A i : i \in DOMAIN publishedBy(p)
                <=> /\ p.running /\ p.hp # 0
                    /\ i \in Nat \ {0} /\ i <= (IF p.n < 1 THEN 1 ELSE p.n) /\ p.hp + i - 1 <= MaxPort
           /\ \A i \in DOMAIN publishedBy(p) :
                /\ publishedBy(p)[i].proto = p.proto /\ publishedBy(p)[i].bind = bindFor(p.ip).ip
                /\ publishedBy(p)[i].hp = p.hp + i - 1
<1>1. p.hp \in Nat /\ p.cp \in Nat /\ p.n \in Nat /\ p.ip \in HostAddresses
        /\ p.c \in Containers /\ p.proto \in Protocols /\ p.running \in BOOLEAN
  BY DEF Publication
<1>2. bindFor(p.ip).ip \in HostAddresses \cup {HostIP, AnyIP} /\ bindFor(p.ip).rule \in BOOLEAN
  BY <1>1 DEF bindFor
<1>3. CASE p.running /\ p.hp # 0
  <2> DEFINE n == IF p.n < 1 THEN 1 ELSE p.n
             fits == IF p.hp + n - 1 > MaxPort THEN MaxPort - p.hp + 1 ELSE n
             at(i) == [c |-> p.c, proto |-> p.proto, hp |-> p.hp + i - 1, cp |-> p.cp + i - 1,
                       bind |-> bindFor(p.ip).ip, rule |-> bindFor(p.ip).rule]
  <2>1. publishedBy(p) = [i \in 1 .. fits |-> at(i)]
    BY <1>3 DEF publishedBy, expand
  <2>2. fits \in Int /\ n \in Nat
    BY <1>1, PublishAssumption
  <2>3. \A i \in 1 .. fits : at(i) \in Port
    BY <1>1, <1>2, <2>2 DEF Port
  <2>4. [i \in 1 .. fits |-> at(i)] \in Seq(Port)
    <3>1. PICK m \in Nat : 1 .. fits = 1 .. m
      <4>1. CASE fits <= 0
        BY <2>2, <4>1, 1 .. fits = 1 .. 0
      <4>2. CASE fits > 0
        BY <2>2, <4>2
      <4> QED BY <2>2, <4>1, <4>2
    <3>2. [i \in 1 .. m |-> at(i)] \in [1 .. m -> Port]
      BY <2>3, <3>1
    <3>3. [i \in 1 .. fits |-> at(i)] \in [1 .. m -> Port]
      BY <3>1, <3>2
    <3> HIDE DEF at, fits
    <3> QED BY <3>3, IsSequence
  <2>5. 1 .. fits = {i \in Nat \ {0} : i <= n /\ p.hp + i - 1 <= MaxPort}
    <3>1. ASSUME NEW i \in Int
          PROVE  1 <= i /\ i <= fits <=> i \in Nat \ {0} /\ i <= n /\ p.hp + i - 1 <= MaxPort
      BY <1>1, <2>2, PublishAssumption
    <3> QED BY <2>2, <3>1
  <2> HIDE DEF n, fits
  <2> QED BY <1>3, <2>1, <2>4, <2>5 DEF n
<1>4. CASE ~(p.running /\ p.hp # 0)
  BY <1>4 DEF publishedBy
<1> QED BY <1>3, <1>4

\* A list put after another has the elements of both.
LEMMA Elements ==
    ASSUME NEW s \in Seq(Port), NEW t \in Seq(Port)
    PROVE  \A x : (\E k \in DOMAIN (s \o t) : (s \o t)[k] = x)
                    <=> (\E k \in DOMAIN s : s[k] = x) \/ (\E k \in DOMAIN t : t[k] = x)
<1> TAKE x
<1>1. /\ Len(s) \in Nat /\ Len(t) \in Nat /\ DOMAIN s = 1 .. Len(s) /\ DOMAIN t = 1 .. Len(t)
      /\ DOMAIN (s \o t) = 1 .. Len(s) + Len(t)
      /\ \A k \in 1 .. Len(s) : (s \o t)[k] = s[k]
      /\ \A k \in Len(s) + 1 .. Len(s) + Len(t) : (s \o t)[k] = t[k - Len(s)]
  OBVIOUS
<1>2. ASSUME NEW k \in DOMAIN (s \o t), (s \o t)[k] = x
      PROVE  (\E j \in DOMAIN s : s[j] = x) \/ (\E j \in DOMAIN t : t[j] = x)
  <2>1. CASE k <= Len(s)
    BY <1>1, <1>2, <2>1
  <2>2. CASE k > Len(s)
    <3>1. k - Len(s) \in DOMAIN t /\ t[k - Len(s)] = x
      BY <1>1, <1>2, <2>2
    <3> QED BY <3>1
  <2> QED BY <1>1, <1>2, <2>1, <2>2
<1>3. ASSUME NEW k \in DOMAIN s, s[k] = x PROVE \E j \in DOMAIN (s \o t) : (s \o t)[j] = x
  BY <1>1, <1>3
<1>4. ASSUME NEW k \in DOMAIN t, t[k] = x PROVE \E j \in DOMAIN (s \o t) : (s \o t)[j] = x
  <2>1. k + Len(s) \in DOMAIN (s \o t) /\ (s \o t)[k + Len(s)] = x
    BY <1>1, <1>4
  <2> QED BY <2>1
<1> QED BY <1>2, <1>3, <1>4

\* The loop that lists the ports ends.
LEMMA PortsLoop ==
    ASSUME NEW pubs, Len(pubs) \in Nat
    PROVE  \E f : /\ ports(pubs) = f[Len(pubs)]
                  /\ f[0] = <<>>
                  /\ \A i \in 1 .. Len(pubs) : f[i] = f[i - 1] \o publishedBy(pubs[i])
<1> DEFINE step(s, i) == s \o publishedBy(pubs[i])
<1>0. ports(pubs) = (CHOOSE f : f = [i \in 0 .. Len(pubs) |->
                                        IF i = 0 THEN <<>> ELSE step(f[i - 1], i)])[Len(pubs)]
  BY Zenon DEF ports
<1>a. Len(pubs) \in Nat
  OBVIOUS
<1> HIDE DEF step
<1> DEFINE T == {m \in Nat : \E f : f = [i \in 0 .. m |->
                            IF i = 0 THEN <<>> ELSE step(f[i - 1], i)]}
<1>1. 0 \in T
  <2> DEFINE f == [i \in 0 .. 0 |-> <<>>]
  <2>1. f = [i \in 0 .. 0 |-> IF i = 0 THEN <<>> ELSE step(f[i - 1], i)]
    OBVIOUS
  <2> HIDE DEF f
  <2> QED BY <2>1
<1>2. ASSUME NEW m \in Nat, m \in T PROVE m + 1 \in T
  <2>1. PICK f : f = [i \in 0 .. m |-> IF i = 0 THEN <<>> ELSE step(f[i - 1], i)]
    BY <1>2
  <2> DEFINE g == [i \in 0 .. m + 1 |-> IF i = 0 THEN <<>> ELSE step(f[i - 1], i)]
  <2>2. \A i \in 0 .. m : g[i] = f[i]
    BY <2>1
  <2>3. \A i \in 1 .. m + 1 : i - 1 \in 0 .. m
    OBVIOUS
  <2>4. \A i \in 0 .. m + 1 : (IF i = 0 THEN <<>> ELSE step(f[i - 1], i))
                                = (IF i = 0 THEN <<>> ELSE step(g[i - 1], i))
    <3> HIDE DEF g
    <3> QED BY <2>2, <2>3
  <2>5. g = [i \in 0 .. m + 1 |-> IF i = 0 THEN <<>> ELSE step(g[i - 1], i)]
    <3>1. g = [i \in 0 .. m + 1 |-> IF i = 0 THEN <<>> ELSE step(f[i - 1], i)]
      OBVIOUS
    <3> HIDE DEF g
    <3> QED BY <2>4, <3>1
  <2> HIDE DEF g
  <2> QED BY <2>5
<1>3. Len(pubs) \in T
  <2> HIDE DEF T
  <2>2. \A i \in 0 .. Len(pubs) - 1 : i \in T => i + 1 \in T
    BY <1>2, <1>a
  <2>3. \A i \in 0 .. Len(pubs) : i \in T
    BY <1>1, <1>a, <2>2, UpTo
  <2> QED BY <1>a, <2>3
<1>4. PICK f : /\ ports(pubs) = f[Len(pubs)]
               /\ f = [i \in 0 .. Len(pubs) |-> IF i = 0 THEN <<>> ELSE step(f[i - 1], i)]
  BY <1>0, <1>3, Zenon
<1>5. \A i \in 0 .. Len(pubs) : f[i] = IF i = 0 THEN <<>> ELSE step(f[i - 1], i)
  <2> DEFINE body(i) == IF i = 0 THEN <<>> ELSE step(f[i - 1], i)
  <2>1. f = [i \in 0 .. Len(pubs) |-> body(i)]
    BY <1>4, Zenon
  <2> HIDE DEF body
  <2>2. \A i \in 0 .. Len(pubs) : f[i] = body(i)
    BY <2>1, Zenon
  <2> USE DEF body
  <2> QED BY <2>2
<1>6. f[0] = <<>> /\ \A i \in 1 .. Len(pubs) : f[i] = step(f[i - 1], i)
  BY <1>a, <1>5
<1> QED BY <1>4, <1>6 DEF step

\* The list of ports holds those of each publish and no others.
LEMMA PortsListed ==
    ASSUME NEW pubs \in Seq(Publication)
    PROVE  /\ ports(pubs) \in Seq(Port)
           /\ \A x : (\E k \in DOMAIN ports(pubs) : ports(pubs)[k] = x)
                       <=> \E i \in DOMAIN pubs : \E k \in DOMAIN publishedBy(pubs[i]) :
                                publishedBy(pubs[i])[k] = x
<1>2. Len(pubs) \in Nat /\ DOMAIN pubs = 1 .. Len(pubs)
         /\ \A i \in DOMAIN pubs : pubs[i] \in Publication
  OBVIOUS
<1>1. PICK f : /\ ports(pubs) = f[Len(pubs)]
               /\ f[0] = <<>>
               /\ \A i \in 1 .. Len(pubs) : f[i] = f[i - 1] \o publishedBy(pubs[i])
  BY <1>2, PortsLoop
<1> DEFINE Lists(i) == \A x : (\E k \in DOMAIN f[i] : f[i][k] = x)
                                <=> \E j \in 1 .. i : \E k \in DOMAIN publishedBy(pubs[j]) :
                                        publishedBy(pubs[j])[k] = x
           T == {i \in 0 .. Len(pubs) : f[i] \in Seq(Port) /\ Lists(i)}
<1>4. 0 \in T
  <2>1. f[0] \in Seq(Port) /\ DOMAIN f[0] = {}
    BY <1>1
  <2>2. Lists(0)
    BY <2>1
  <2> QED BY <1>2, <2>1, <2>2
<1>5. ASSUME NEW i \in 0 .. Len(pubs) - 1, i \in T PROVE i + 1 \in T
  <2>1. f[i] \in Seq(Port) /\ Lists(i)
    BY <1>5
  <2> HIDE DEF T
  <2>2. i \in Nat /\ i + 1 \in 1 .. Len(pubs) /\ pubs[i + 1] \in Publication
    BY <1>2, <1>5
  <2> DEFINE new == publishedBy(pubs[i + 1])
  <2>3. new \in Seq(Port)
    BY <2>2, PublishedPorts
  <2>4. f[i + 1] = f[i] \o new
    <3>1. (i + 1) - 1 = i
      BY <2>2
    <3> HIDE DEF new
    <3>2. f[i + 1] = f[(i + 1) - 1] \o publishedBy(pubs[i + 1])
      BY <1>1, <2>2
    <3> QED BY <3>1, <3>2 DEF new
  <2>5. f[i + 1] \in Seq(Port)
    <3> HIDE DEF new
    <3> QED BY <2>1, <2>3, <2>4
  <2>6. \A x : (\E k \in DOMAIN f[i + 1] : f[i + 1][k] = x)
                 <=> (\E k \in DOMAIN f[i] : f[i][k] = x) \/ (\E k \in DOMAIN new : new[k] = x)
    <3>1. f[i] \in Seq(Port)
      BY <2>1
    <3> HIDE DEF new
    <3>2. \A x : (\E k \in DOMAIN (f[i] \o new) : (f[i] \o new)[k] = x)
                   <=> (\E k \in DOMAIN f[i] : f[i][k] = x) \/ (\E k \in DOMAIN new : new[k] = x)
      BY <2>3, <3>1, Elements
    <3> QED BY <2>4, <3>2, Zenon
  <2>7. \A j : j \in 1 .. i + 1 <=> j \in 1 .. i \/ j = i + 1
    BY <2>2
  <2>8. Lists(i + 1)
    BY <2>1, <2>6, <2>7, Zenon
  <2> QED BY <2>2, <2>5, <2>8 DEF T
<1>6. Len(pubs) \in T
  <2> HIDE DEF T
  <2>1. \A i \in 0 .. Len(pubs) : i \in T
    BY <1>2, <1>4, <1>5, UpTo
  <2> QED BY <1>2, <2>1
<1> QED BY <1>1, <1>2, <1>6

\* Compute's loop ends.
LEMMA ComputeLoop ==
    ASSUME NEW pubs, Len(ports(pubs)) \in Nat
    PROVE  LET ps == ports(pubs) IN
           \E f : /\ Compute(pubs) = f[Len(ps)]
                  /\ f[0] = noPlan
                  /\ \A i \in 1 .. Len(ps) : f[i] = plan1(engineServes(ps), f[i - 1], ps[i])
<1> DEFINE ps == ports(pubs)
           step(plan, i) == plan1(engineServes(ps), plan, ps[i])
<1>0. Compute(pubs) = (CHOOSE f : f = [i \in 0 .. Len(ps) |->
                                        IF i = 0 THEN noPlan ELSE step(f[i - 1], i)])[Len(ps)]
  BY Zenon DEF Compute
<1>a. Len(ps) \in Nat
  OBVIOUS
<1> HIDE DEF ps, step
<1> DEFINE T == {m \in Nat : \E f : f = [i \in 0 .. m |->
                            IF i = 0 THEN noPlan ELSE step(f[i - 1], i)]}
<1>1. 0 \in T
  <2> DEFINE f == [i \in 0 .. 0 |-> noPlan]
  <2>1. f = [i \in 0 .. 0 |-> IF i = 0 THEN noPlan ELSE step(f[i - 1], i)]
    OBVIOUS
  <2> HIDE DEF f
  <2> QED BY <2>1
<1>2. ASSUME NEW m \in Nat, m \in T PROVE m + 1 \in T
  <2>1. PICK f : f = [i \in 0 .. m |-> IF i = 0 THEN noPlan ELSE step(f[i - 1], i)]
    BY <1>2
  <2> DEFINE g == [i \in 0 .. m + 1 |-> IF i = 0 THEN noPlan ELSE step(f[i - 1], i)]
  <2>2. \A i \in 0 .. m : g[i] = f[i]
    BY <2>1
  <2>3. \A i \in 1 .. m + 1 : i - 1 \in 0 .. m
    OBVIOUS
  <2>4. \A i \in 0 .. m + 1 : (IF i = 0 THEN noPlan ELSE step(f[i - 1], i))
                                = (IF i = 0 THEN noPlan ELSE step(g[i - 1], i))
    <3> HIDE DEF g
    <3> QED BY <2>2, <2>3
  <2>5. g = [i \in 0 .. m + 1 |-> IF i = 0 THEN noPlan ELSE step(g[i - 1], i)]
    <3>1. g = [i \in 0 .. m + 1 |-> IF i = 0 THEN noPlan ELSE step(f[i - 1], i)]
      OBVIOUS
    <3> HIDE DEF g
    <3> QED BY <2>4, <3>1
  <2> HIDE DEF g
  <2> QED BY <2>5
<1>3. Len(ps) \in T
  <2> HIDE DEF T
  <2>2. \A i \in 0 .. Len(ps) - 1 : i \in T => i + 1 \in T
    BY <1>2, <1>a
  <2>3. \A i \in 0 .. Len(ps) : i \in T
    BY <1>1, <1>a, <2>2, UpTo
  <2> QED BY <1>a, <2>3
<1>4. PICK f : /\ Compute(pubs) = f[Len(ps)]
               /\ f = [i \in 0 .. Len(ps) |-> IF i = 0 THEN noPlan ELSE step(f[i - 1], i)]
  BY <1>0, <1>3, Zenon
<1>5. \A i \in 0 .. Len(ps) : f[i] = IF i = 0 THEN noPlan ELSE step(f[i - 1], i)
  <2> DEFINE body(i) == IF i = 0 THEN noPlan ELSE step(f[i - 1], i)
  <2>1. f = [i \in 0 .. Len(ps) |-> body(i)]
    BY <1>4, Zenon
  <2> HIDE DEF body
  <2>2. \A i \in 0 .. Len(ps) : f[i] = body(i)
    BY <2>1, Zenon
  <2> USE DEF body
  <2> QED BY <2>2
<1>6. f[0] = noPlan /\ \A i \in 1 .. Len(ps) : f[i] = step(f[i - 1], i)
  BY <1>a, <1>5
<1> QED BY <1>4, <1>6 DEF ps, step

\* A redirect made for one of the first i ports, with the keys of others of
\* its container at its guest port.
MadeFor(ps, i, r) ==
    /\ DOMAIN r = {"at", "c", "cp", "keys"}
    /\ r.at \notin engineServes(ps)
    /\ \E j \in 1 .. i : r.at = guestKey(ps[j]) /\ r.c = ps[j].c /\ r.cp = ps[j].cp
    /\ \A k \in r.keys : \E j \in 1 .. i :
        key(ps[j]) = k /\ ps[j].rule /\ r.at = guestKey(ps[j]) /\ r.c = ps[j].c

\* A mapping the engine delivers, or one of the redirects.
Reached(ps, i, rules, k) ==
    \E j \in 1 .. i :
        /\ key(ps[j]) = k
        /\ ps[j].rule => \E r \in rules : r.at = guestKey(ps[j]) /\ r.c = ps[j].c /\ k \in r.keys

\* A mapping whose guest port somebody else has.
Taken(ps, i, k) ==
    \E j \in 1 .. i :
        /\ key(ps[j]) = k /\ ps[j].rule
        /\ \/ guestKey(ps[j]) \in engineServes(ps)
           \/ \E l \in 1 .. i : guestKey(ps[l]) = guestKey(ps[j]) /\ ps[l].c # ps[j].c

\* What Compute's loop keeps.
PlanInv(ps, i, plan) ==
    /\ DOMAIN plan = {"mappings", "rules", "pending"}
    /\ plan.mappings = {key(ps[j]) : j \in 1 .. i}
    /\ \A r \in plan.rules : MadeFor(ps, i, r)
    /\ \A r, s \in plan.rules : r.at = s.at => r = s
    /\ \A k \in plan.mappings \ plan.pending : Reached(ps, i, plan.rules, k)
    /\ \A k \in plan.pending : Taken(ps, i, k)

\* What is so of the first ports stays so.
LEMMA OneMorePort ==
    ASSUME NEW ps, NEW i \in Nat
    PROVE  /\ i + 1 \in 1 .. i + 1 /\ 1 .. i \subseteq 1 .. i + 1
           /\ \A j \in 1 .. i + 1 : j \in 1 .. i \/ j = i + 1
           /\ \A r : MadeFor(ps, i, r) => MadeFor(ps, i + 1, r)
           /\ \A rules, k : Reached(ps, i, rules, k) => Reached(ps, i + 1, rules, k)
           /\ \A k : Taken(ps, i, k) => Taken(ps, i + 1, k)
<1>1. /\ i + 1 \in 1 .. i + 1 /\ 1 .. i \subseteq 1 .. i + 1
      /\ \A j \in 1 .. i + 1 : j \in 1 .. i \/ j = i + 1
  OBVIOUS
<1>2. \A r : MadeFor(ps, i, r) => MadeFor(ps, i + 1, r)
  BY <1>1 DEF MadeFor
<1>3. \A rules, k : Reached(ps, i, rules, k) => Reached(ps, i + 1, rules, k)
  BY <1>1 DEF Reached
<1>4. \A k : Taken(ps, i, k) => Taken(ps, i + 1, k)
  BY <1>1 DEF Taken
<1> QED BY <1>1, <1>2, <1>3, <1>4

\* One turn of the loop keeps it, whichever way the port goes.
LEMMA PlanStep ==
    ASSUME NEW ps \in Seq(Port), NEW i \in 0 .. Len(ps) - 1, NEW plan, PlanInv(ps, i, plan)
    PROVE  PlanInv(ps, i + 1, plan1(engineServes(ps), plan, ps[i + 1]))
<1> DEFINE p == ps[i + 1]
           k == key(p)
           gk == guestKey(p)
           engine == engineServes(ps)
           there == {r \in plan.rules : r.at = gk}
           mapped == [plan EXCEPT !.mappings = @ \cup {k}]
           new == plan1(engine, plan, p)
<1>1. /\ i \in Nat /\ i + 1 \in 1 .. i + 1 /\ 1 .. i \subseteq 1 .. i + 1
      /\ \A j \in 1 .. i + 1 : j \in 1 .. i \/ j = i + 1
  OBVIOUS
<1>2. /\ \A r \in plan.rules : MadeFor(ps, i + 1, r)
      /\ \A m \in plan.mappings \ plan.pending : Reached(ps, i + 1, plan.rules, m)
      /\ \A m \in plan.pending : Taken(ps, i + 1, m)
  BY <1>1, OneMorePort DEF PlanInv
<1>3. /\ plan.mappings \cup {k} = {key(ps[j]) : j \in 1 .. i + 1}
      /\ \A r, s \in plan.rules : r.at = s.at => r = s
  BY <1>1 DEF PlanInv
<1>4. /\ DOMAIN plan = {"mappings", "rules", "pending"}
      /\ DOMAIN mapped = {"mappings", "rules", "pending"}
      /\ mapped.mappings = plan.mappings \cup {k}
      /\ mapped.rules = plan.rules /\ mapped.pending = plan.pending
  BY DEF PlanInv
<1>5. CASE k \in plan.mappings
  <2>1. new = plan
    BY <1>5 DEF plan1
  <2> HIDE DEF p, k, new
  <2>2. PlanInv(ps, i + 1, plan)
    BY <1>2, <1>3, <1>4, <1>5 DEF PlanInv
  <2> QED BY <2>1, <2>2 DEF new, p
<1>6. CASE k \notin plan.mappings /\ ~p.rule
  <2>1. new = mapped
    BY <1>6 DEF plan1
  <2>2. \A rules : Reached(ps, i + 1, rules, k)
    BY <1>1, <1>6 DEF Reached
  <2> HIDE DEF p, k, new, mapped
  <2>3. PlanInv(ps, i + 1, mapped)
    BY <1>2, <1>3, <1>4, <2>2 DEF PlanInv
  <2> QED BY <2>1, <2>3 DEF new, p
<1>7. CASE k \notin plan.mappings /\ p.rule /\ (gk \in engine \/ clashes(plan, p))
  <2> DEFINE waits == [mapped EXCEPT !.pending = @ \cup {k}]
  <2>1. new = waits
    BY <1>7 DEF plan1
  <2> HIDE DEF mapped
  <2>2. /\ DOMAIN waits = {"mappings", "rules", "pending"}
        /\ waits.mappings = plan.mappings \cup {k}
        /\ waits.rules = plan.rules /\ waits.pending = plan.pending \cup {k}
    BY <1>4
  <2>3. gk \in engine \/ \E l \in 1 .. i : guestKey(ps[l]) = gk /\ ps[l].c # p.c
    BY <1>7 DEF PlanInv, MadeFor, clashes
  <2>4. Taken(ps, i + 1, k)
    BY <1>1, <1>7, <2>3 DEF Taken
  <2> HIDE DEF p, k, new, waits
  <2>5. PlanInv(ps, i + 1, waits)
    BY <1>2, <1>3, <2>2, <2>4 DEF PlanInv
  <2> QED BY <2>1, <2>5 DEF new, p
<1>8. CASE /\ k \notin plan.mappings /\ p.rule /\ gk \notin engine /\ ~clashes(plan, p)
           /\ there # {}
  <2> DEFINE joined == {[r EXCEPT !.keys = @ \cup {k}] : r \in there}
             joins == [mapped EXCEPT !.rules = (@ \ there) \cup joined]
  <2>1. new = joins
    BY <1>8 DEF plan1
  <2>2. PICK r0 : there = {r0} /\ r0 \in plan.rules /\ r0.at = gk /\ r0.c = p.c
    BY <1>3, <1>8 DEF clashes
  <2>3. DOMAIN r0 = {"at", "c", "cp", "keys"} /\ MadeFor(ps, i, r0)
    BY <2>2 DEF PlanInv, MadeFor
  <2> DEFINE r1 == [r0 EXCEPT !.keys = @ \cup {k}]
  <2>4. /\ DOMAIN r1 = {"at", "c", "cp", "keys"}
        /\ r1.at = gk /\ r1.c = p.c /\ r1.cp = r0.cp /\ r1.keys = r0.keys \cup {k}
    BY <2>2, <2>3
  <2>5. joined = {r1}
    <3>1. joined = {[r EXCEPT !.keys = @ \cup {k}] : r \in {r0}}
      BY <2>2, Zenon
    <3> QED BY <3>1
  <2> HIDE DEF mapped, r1, joined
  <2>6. /\ DOMAIN joins = {"mappings", "rules", "pending"}
        /\ joins.mappings = plan.mappings \cup {k}
        /\ joins.rules = (plan.rules \ {r0}) \cup {r1} /\ joins.pending = plan.pending
    BY <1>4, <2>2, <2>5
  <2>7. MadeFor(ps, i + 1, r1)
    <3>1. MadeFor(ps, i + 1, r0)
      BY <1>2, <2>2
    <3>2. /\ i + 1 \in 1 .. i + 1 /\ key(ps[i + 1]) = k /\ ps[i + 1].rule
          /\ guestKey(ps[i + 1]) = gk /\ ps[i + 1].c = p.c
      BY <1>1, <1>8
    <3> HIDE DEF p, k, gk
    <3>3. \A m \in r1.keys : \E j \in 1 .. i + 1 :
            key(ps[j]) = m /\ ps[j].rule /\ r1.at = guestKey(ps[j]) /\ r1.c = ps[j].c
      <4> SUFFICES ASSUME NEW m \in r1.keys
                   PROVE  \E j \in 1 .. i + 1 :
                    key(ps[j]) = m /\ ps[j].rule /\ r1.at = guestKey(ps[j]) /\ r1.c = ps[j].c
        OBVIOUS
      <4>1. CASE m = k
        BY <2>4, <3>2, <4>1
      <4>2. CASE m \in r0.keys
        BY <2>2, <2>4, <3>1, <4>2 DEF MadeFor
      <4> QED BY <2>4, <4>1, <4>2
    <3> QED BY <2>2, <2>4, <3>1, <3>3 DEF MadeFor
  <2>8. Reached(ps, i + 1, joins.rules, k)
    BY <1>1, <2>4, <2>6 DEF Reached
  <2>9. ASSUME NEW m, Reached(ps, i + 1, plan.rules, m)
        PROVE  Reached(ps, i + 1, joins.rules, m)
    <3> HIDE DEF p, k, gk, joins
    <3>1. \A r \in plan.rules : \E s \in joins.rules :
                s.at = r.at /\ s.c = r.c /\ (m \in r.keys => m \in s.keys)
      BY <2>2, <2>4, <2>6
    <3> QED BY <2>9, <3>1 DEF Reached
  <2>10. \A r, s \in joins.rules : r.at = s.at => r = s
    <3> HIDE DEF p, k, gk, joins
    <3>1. \A r \in joins.rules : r # r1 => r \in plan.rules /\ r # r0
      BY <2>6
    <3>2. \A r \in joins.rules : r # r1 => r.at # gk
      BY <1>3, <2>2, <3>1
    <3> QED BY <1>3, <2>4, <3>1, <3>2
  <2> HIDE DEF p, k, gk, there, new, joins
  <2>11. PlanInv(ps, i + 1, joins)
    BY <1>2, <1>3, <2>6, <2>7, <2>8, <2>9, <2>10 DEF PlanInv
  <2> QED BY <2>1, <2>11 DEF new, p
<1>9. CASE /\ k \notin plan.mappings /\ p.rule /\ gk \notin engine /\ ~clashes(plan, p)
           /\ there = {}
  <2> DEFINE r1 == [at |-> gk, c |-> p.c, cp |-> p.cp, keys |-> {k}]
             gets == [mapped EXCEPT !.rules = @ \cup {r1}]
  <2>1. new = gets
    BY <1>9 DEF plan1
  <2>2. /\ DOMAIN r1 = {"at", "c", "cp", "keys"}
        /\ r1.at = gk /\ r1.c = p.c /\ r1.cp = p.cp /\ r1.keys = {k}
    OBVIOUS
  <2>3. \A r \in plan.rules : r.at # gk
    BY <1>9
  <2> HIDE DEF mapped, r1
  <2>4. /\ DOMAIN gets = {"mappings", "rules", "pending"}
        /\ gets.mappings = plan.mappings \cup {k}
        /\ gets.rules = plan.rules \cup {r1} /\ gets.pending = plan.pending
    BY <1>4
  <2>5. MadeFor(ps, i + 1, r1)
    BY <1>1, <1>9, <2>2 DEF MadeFor
  <2>6. Reached(ps, i + 1, gets.rules, k)
    BY <1>1, <2>2, <2>4 DEF Reached
  <2>7. ASSUME NEW m, Reached(ps, i + 1, plan.rules, m)
        PROVE  Reached(ps, i + 1, gets.rules, m)
    BY <2>4, <2>7 DEF Reached
  <2> HIDE DEF p, k, gk, there, new, gets
  <2>8. PlanInv(ps, i + 1, gets)
    BY <1>2, <1>3, <2>2, <2>3, <2>4, <2>5, <2>6, <2>7 DEF PlanInv
  <2> QED BY <2>1, <2>8 DEF new, p
<1> QED BY <1>5, <1>6, <1>7, <1>8, <1>9

\* So it holds of the plan that Compute makes.
LEMMA ComputeInv ==
    ASSUME NEW pubs, ports(pubs) \in Seq(Port)
    PROVE  PlanInv(ports(pubs), Len(ports(pubs)), Compute(pubs))
<1> DEFINE ps == ports(pubs)
<1>1. Len(ps) \in Nat
  OBVIOUS
<1>2. PICK f : /\ Compute(pubs) = f[Len(ps)]
               /\ f[0] = noPlan
               /\ \A i \in 1 .. Len(ps) : f[i] = plan1(engineServes(ps), f[i - 1], ps[i])
  BY <1>1, ComputeLoop
<1> HIDE DEF ps
<1> DEFINE T == {i \in 0 .. Len(ps) : PlanInv(ps, i, f[i])}
<1>3. 0 \in T
  BY <1>1, <1>2 DEF PlanInv, noPlan
<1>4. ASSUME NEW i \in 0 .. Len(ps) - 1, i \in T PROVE i + 1 \in T
  <2>1. i + 1 \in 1 .. Len(ps) /\ (i + 1) - 1 = i
    BY <1>1
  <2>2. f[i + 1] = plan1(engineServes(ps), f[i], ps[i + 1])
    BY <1>2, <2>1
  <2>3. PlanInv(ps, i + 1, plan1(engineServes(ps), f[i], ps[i + 1]))
    BY <1>4, PlanStep DEF ps
  <2> QED BY <1>1, <2>1, <2>2, <2>3
<1>5. Len(ps) \in T
  <2> HIDE DEF T
  <2>1. \A i \in 0 .. Len(ps) : i \in T
    BY <1>1, <1>3, <1>4, UpTo
  <2> QED BY <1>1, <2>1
<1> QED BY <1>2, <1>5 DEF ps

\* What Resolve leaves of a plan.
LEMMA Resolved ==
    ASSUME NEW plan, NEW addressed, DOMAIN plan = {"mappings", "rules", "pending"}
    PROVE  LET new == Resolve(plan, addressed) IN
           /\ new.mappings = plan.mappings
           /\ new.rules = {r \in plan.rules : r.c \in addressed}
           /\ \A k : k \in new.pending
                <=> k \in plan.pending \/ \E r \in plan.rules : r.c \notin addressed /\ k \in r.keys
BY DEF Resolve

\* Exactly the published ports are mapped.
THEOREM PublishedIsMapped ==
    ASSUME NEW pubs \in Seq(Publication), NEW addressed
    PROVE  MapsWhatIsPublished(pubs, Resolve(Compute(pubs), addressed))
<1> DEFINE ps == ports(pubs)
           plan == Resolve(Compute(pubs), addressed)
<1>1. ps \in Seq(Port)
  BY PortsListed
<1>2. plan.mappings = {key(ps[j]) : j \in DOMAIN ps}
  <2>1. PlanInv(ps, Len(ps), Compute(pubs)) /\ DOMAIN ps = 1 .. Len(ps)
    BY <1>1, ComputeInv
  <2> QED BY <2>1, Resolved DEF PlanInv
<1>3. \A i \in DOMAIN pubs : pubs[i] \in Publication
  OBVIOUS
<1>4. ASSUME NEW j \in DOMAIN ps
      PROVE  \E x \in published(pubs) :
                /\ pubs[x[1]].hp + x[2] <= MaxPort
                /\ key(ps[j]) = <<pubs[x[1]].proto, bindFor(pubs[x[1]].ip).ip, pubs[x[1]].hp + x[2]>>
  <2>1. PICK i \in DOMAIN pubs :
            \E k \in DOMAIN publishedBy(pubs[i]) : publishedBy(pubs[i])[k] = ps[j]
    BY PortsListed
  <2>6. PICK k \in DOMAIN publishedBy(pubs[i]) : publishedBy(pubs[i])[k] = ps[j]
    BY <2>1
  <2> DEFINE p == pubs[i]
             d == k - 1
  <2>2. /\ p \in Publication /\ p.hp \in Nat /\ p.n \in Nat
    BY <1>3 DEF Publication
  <2>3. /\ p.running /\ p.hp # 0 /\ k \in Nat \ {0}
        /\ k <= (IF p.n < 1 THEN 1 ELSE p.n) /\ p.hp + k - 1 <= MaxPort
        /\ ps[j].proto = p.proto /\ ps[j].bind = bindFor(p.ip).ip /\ ps[j].hp = p.hp + k - 1
    <3> HIDE DEF p
    <3>1. k \in DOMAIN publishedBy(p) /\ publishedBy(p)[k] = ps[j]
      BY <2>6 DEF p
    <3> HIDE DEF ps
    <3> QED BY <2>2, <3>1, PublishedPorts
  <2>4. d \in 0 .. (IF p.n = 0 THEN 0 ELSE p.n - 1) /\ p.hp + d = p.hp + k - 1
    BY <2>2, <2>3
  <2>5. <<i, d>> \in published(pubs)
    BY <2>3, <2>4 DEF published
  <2> HIDE DEF p, d
  <2> QED BY <2>3, <2>4, <2>5 DEF key, p
<1>5. ASSUME NEW x \in published(pubs), pubs[x[1]].hp + x[2] <= MaxPort
      PROVE  \E j \in DOMAIN ps :
                key(ps[j]) = <<pubs[x[1]].proto, bindFor(pubs[x[1]].ip).ip, pubs[x[1]].hp + x[2]>>
  <2>1. PICK i \in DOMAIN pubs : /\ pubs[i].running /\ pubs[i].hp # 0 /\ x[1] = i
                                 /\ x[2] \in 0 .. (IF pubs[i].n = 0 THEN 0 ELSE pubs[i].n - 1)
    BY <1>5 DEF published
  <2> DEFINE p == pubs[i]
             k == x[2] + 1
  <2>2. p \in Publication /\ p.hp \in Nat /\ p.n \in Nat
    BY <1>3 DEF Publication
  <2>3. /\ k \in Nat \ {0} /\ k <= (IF p.n < 1 THEN 1 ELSE p.n) /\ p.hp + k - 1 = p.hp + x[2]
    <3>1. ASSUME NEW hp \in Nat, NEW n \in Nat, NEW d \in 0 .. (IF n = 0 THEN 0 ELSE n - 1)
          PROVE  /\ d + 1 \in Nat \ {0} /\ d + 1 <= (IF n < 1 THEN 1 ELSE n)
                 /\ hp + (d + 1) - 1 = hp + d
      OBVIOUS
    <3>2. x[2] \in 0 .. (IF p.n = 0 THEN 0 ELSE p.n - 1)
      BY <2>1
    <3> HIDE DEF p
    <3> QED BY <2>2, <3>1, <3>2
  <2>4. k \in DOMAIN publishedBy(p)
    BY <1>5, <2>1, <2>2, <2>3, PublishedPorts
  <2>5. /\ publishedBy(p)[k].proto = p.proto /\ publishedBy(p)[k].bind = bindFor(p.ip).ip
        /\ publishedBy(p)[k].hp = p.hp + k - 1
    <3> HIDE DEF p, k
    <3> QED BY <2>2, <2>4, PublishedPorts
  <2>6. PICK j \in DOMAIN ps : ps[j] = publishedBy(p)[k]
    BY <2>4, PortsListed
  <2> HIDE DEF p, k
  <2> QED BY <2>1, <2>3, <2>5, <2>6 DEF key, p
<1> HIDE DEF ps, plan
<1> QED BY <1>2, <1>4, <1>5 DEF MapsWhatIsPublished, plan

\* No redirect shadows the engine's, and none another.
THEOREM EngineLeftAlone ==
    ASSUME NEW pubs \in Seq(Publication), NEW addressed
    PROVE  RulesLeaveEngine(pubs, Resolve(Compute(pubs), addressed))
<1> DEFINE ps == ports(pubs)
           plan == Compute(pubs)
           new == Resolve(plan, addressed)
<1>1. PlanInv(ps, Len(ps), plan)
  BY PortsListed, ComputeInv
<1>2. new.rules \subseteq plan.rules
  BY <1>1, Resolved DEF PlanInv
<1>3. \A r \in new.rules : r.at \notin engineServes(ps)
  BY <1>1, <1>2 DEF PlanInv, MadeFor
<1>4. \A r, s \in new.rules : r.at = s.at => r = s
  BY <1>1, <1>2 DEF PlanInv
<1> HIDE DEF plan, new
<1> QED BY <1>3, <1>4 DEF RulesLeaveEngine, engineServes, new, plan

\* A mapping that is not pending reaches its container.
THEOREM MappedReaches ==
    ASSUME NEW pubs \in Seq(Publication), NEW addressed
    PROVE  MappedIsDelivered(pubs, Resolve(Compute(pubs), addressed))
<1> DEFINE ps == ports(pubs)
           plan == Compute(pubs)
           new == Resolve(plan, addressed)
<1>1. ps \in Seq(Port) /\ PlanInv(ps, Len(ps), plan) /\ DOMAIN ps = 1 .. Len(ps)
  BY PortsListed, ComputeInv
<1>2. /\ new.mappings = plan.mappings
      /\ new.rules = {r \in plan.rules : r.c \in addressed}
      /\ \A k : k \in new.pending
            <=> k \in plan.pending \/ \E r \in plan.rules : r.c \notin addressed /\ k \in r.keys
  BY <1>1, Resolved DEF PlanInv
<1> HIDE DEF plan, new, ps
<1> SUFFICES ASSUME NEW k \in new.mappings \ new.pending
             PROVE  \E i \in DOMAIN ps :
                        LET gk == guestKey(ps[i])
                            named == {ps[j].cp : j \in {j \in DOMAIN ps :
                                        guestKey(ps[j]) = gk /\ ps[j].c = ps[i].c}}
                        IN  /\ key(ps[i]) = k
                            /\ \E t \in delivers(pubs, new, gk) :
                                t[1] = ps[i].c /\ (Cardinality(named) = 1 => t[2] = ps[i].cp)
  BY DEF MappedIsDelivered, ps, new, plan
<1>3. PICK i \in DOMAIN ps :
            /\ key(ps[i]) = k
            /\ ps[i].rule => \E r \in plan.rules :
                    r.at = guestKey(ps[i]) /\ r.c = ps[i].c /\ k \in r.keys
  BY <1>1, <1>2 DEF PlanInv, Reached
<1> DEFINE gk == guestKey(ps[i])
           named == {ps[j].cp : j \in {j \in DOMAIN ps : guestKey(ps[j]) = gk /\ ps[j].c = ps[i].c}}
           engine == {<<ps[j].c, ps[j].cp>> : j \in {j \in DOMAIN ps : ~ps[j].rule /\ guestKey(ps[j]) = gk}}
<1>4. CASE ~ps[i].rule
  <2>1. <<ps[i].c, ps[i].cp>> \in engine
    BY <1>4
  <2>2. <<ps[i].c, ps[i].cp>> \in delivers(pubs, new, gk)
    BY <2>1 DEF delivers, ps
  <2> QED BY <1>3, <2>2
<1>5. CASE ps[i].rule
  <2>1. PICK r \in plan.rules : r.at = gk /\ r.c = ps[i].c /\ k \in r.keys
    BY <1>3, <1>5
  <2>2. r \in new.rules
    BY <1>2, <2>1
  <2>3. engine = {}
    BY <1>1, <2>1 DEF PlanInv, MadeFor, engineServes
  <2>4. <<r.c, r.cp>> \in delivers(pubs, new, gk)
    BY <2>1, <2>2, <2>3 DEF delivers, ps
  <2>5. r.cp \in named /\ ps[i].cp \in named
    BY <1>1, <2>1 DEF PlanInv, MadeFor
  <2>6. Cardinality(named) = 1 => r.cp = ps[i].cp
    <3>1. IsFiniteSet(named)
      <4>1. Len(ps) \in Nat
        BY <1>1
      <4>2. IsFiniteSet(1 .. Len(ps))
        BY <4>1, FS_Interval
      <4>3. IsFiniteSet({j \in DOMAIN ps : guestKey(ps[j]) = gk /\ ps[j].c = ps[i].c})
        BY <1>1, <4>2, FS_Subset
      <4> DEFINE J == {j \in DOMAIN ps : guestKey(ps[j]) = gk /\ ps[j].c = ps[i].c}
                 g == [j \in J |-> ps[j].cp]
      <4>4. g \in Surjection(J, named)
        BY DEF Surjection
      <4> QED BY <4>3, <4>4, FS_Surjection
    <3> HIDE DEF named
    <3> QED BY <2>5, <3>1, FS_Singleton
  <2> HIDE DEF gk, named
  <2> QED BY <1>3, <2>1, <2>4, <2>6 DEF gk, named
<1> QED BY <1>4, <1>5

\* A mapping is pending only where its redirect cannot be made.
THEOREM PendingIsReal ==
    ASSUME NEW pubs \in Seq(Publication), NEW addressed
    PROVE  PendingIsBlocked(pubs, Resolve(Compute(pubs), addressed), addressed)
<1> DEFINE ps == ports(pubs)
           plan == Compute(pubs)
           new == Resolve(plan, addressed)
<1>1. PlanInv(ps, Len(ps), plan) /\ DOMAIN ps = 1 .. Len(ps)
  BY PortsListed, ComputeInv
<1>2. \A k : k \in new.pending
            <=> k \in plan.pending \/ \E r \in plan.rules : r.c \notin addressed /\ k \in r.keys
  BY <1>1, Resolved DEF PlanInv
<1> HIDE DEF plan, new, ps
<1> SUFFICES ASSUME NEW k \in new.pending
             PROVE  \E i \in DOMAIN ps :
                        /\ key(ps[i]) = k /\ ps[i].rule
                        /\ \/ guestKey(ps[i]) \in engineServes(ps)
                           \/ ps[i].c \notin addressed
                           \/ \E j \in DOMAIN ps : guestKey(ps[j]) = guestKey(ps[i]) /\ ps[j].c # ps[i].c
  BY DEF PendingIsBlocked, ps, new, plan
<1>3. CASE k \in plan.pending
  BY <1>1, <1>3 DEF PlanInv, Taken
<1>4. CASE k \notin plan.pending
  <2>1. PICK r \in plan.rules : r.c \notin addressed /\ k \in r.keys
    BY <1>2, <1>4
  <2> QED BY <1>1, <2>1 DEF PlanInv, MadeFor
<1> QED BY <1>3, <1>4

--------------------------------------------------------------------------
(* The share set. *)

\* The shares above one path are nested in each other.
LEMMA Prefixes ==
    ASSUME NEW s \in Seq(FileNames), NEW t \in Seq(FileNames), NEW path \in Seq(FileNames)
    PROVE  /\ IsPrefix(s, path) /\ IsPrefix(t, path) /\ Len(s) = Len(t) => s = t
           /\ IsPrefix(s, path) /\ IsPrefix(t, path) /\ Len(s) < Len(t) => isUnder(t, s)
           /\ isUnder(t, s) /\ IsPrefix(t, path) => IsPrefix(s, path)
           /\ isUnder(t, s) => Len(s) < Len(t)
           /\ IsPrefix(s, s)
<1>1. Len(s) \in Nat /\ Len(t) \in Nat /\ Len(path) \in Nat /\ DOMAIN s = 1 .. Len(s) /\ DOMAIN t = 1 .. Len(t)
  OBVIOUS
<1>2. ASSUME IsPrefix(s, path), IsPrefix(t, path), Len(s) = Len(t) PROVE s = t
  <2>1. \A i \in 1 .. Len(s) : s[i] = t[i]
    BY <1>2 DEF IsPrefix
  <2> QED BY <1>1, <1>2, <2>1
<1>3. ASSUME IsPrefix(s, path), IsPrefix(t, path), Len(s) < Len(t) PROVE isUnder(t, s)
  BY <1>1, <1>3 DEF IsPrefix, isUnder
<1>4. ASSUME isUnder(t, s), IsPrefix(t, path) PROVE IsPrefix(s, path)
  BY <1>1, <1>4 DEF IsPrefix, isUnder
<1>5. IsPrefix(s, s) /\ (isUnder(t, s) => Len(s) < Len(t))
  BY <1>1 DEF IsPrefix, isUnder
<1> QED BY <1>2, <1>3, <1>4, <1>5

\* Nesting is transitive.
LEMMA NestedTransitive ==
    ASSUME NEW r \in Seq(FileNames), NEW s \in Seq(FileNames), NEW t \in Seq(FileNames),
           isUnder(t, s), isUnder(s, r)
    PROVE  isUnder(t, r)
BY DEF isUnder, IsPrefix

\* The paths of a machine's shares have a longest one.
LEMMA LongestPath ==
    ASSUME NEW all, IsShareSet(all)
    PROVE  \E b \in Nat : \A s \in all : Len(s.path) <= b
<1>1. PICK n \in Nat : \E f : f \in Surjection(1 .. n, all)
  BY FS_NatSurjection DEF IsShareSet, ExistsSurjection
<1>2. PICK f : f \in Surjection(1 .. n, all)
  BY <1>1
<1>3. /\ \A j \in 1 .. n : f[j] \in all
      /\ \A s \in all : \E j \in 1 .. n : f[j] = s
  BY <1>2 DEF Surjection
<1>4. \A j \in 1 .. n : Len(f[j].path) \in Nat
  BY <1>3 DEF IsShareSet, Share
<1> DEFINE T == {i \in 0 .. n : \E b \in Nat : \A j \in 1 .. i : Len(f[j].path) <= b}
<1>5. 0 \in T
  OBVIOUS
<1>6. ASSUME NEW i \in 0 .. n - 1, i \in T PROVE i + 1 \in T
  <2>1. PICK b \in Nat : \A j \in 1 .. i : Len(f[j].path) <= b
    BY <1>6
  <2> DEFINE l == Len(f[i + 1].path)
  <2>2. i + 1 \in 1 .. n /\ l \in Nat /\ \A j \in 1 .. i + 1 : j \in 1 .. n
    BY <1>4
  <2>3. \A j \in 1 .. i + 1 : Len(f[j].path) <= b + l
    <3> SUFFICES ASSUME NEW j \in 1 .. i + 1 PROVE Len(f[j].path) <= b + l
      OBVIOUS
    <3>1. CASE j = i + 1
      BY <2>2, <3>1
    <3>2. CASE j # i + 1
      <4>1. j \in 1 .. i /\ Len(f[j].path) \in Nat
        BY <1>4, <2>2, <3>2
      <4> QED BY <2>1, <2>2, <4>1
    <3> QED BY <3>1, <3>2
  <2>4. b + l \in Nat /\ i + 1 \in 0 .. n
    BY <2>2
  <2>5. \E c \in Nat : \A j \in 1 .. i + 1 : Len(f[j].path) <= c
    <3> HIDE DEF l
    <3> QED BY <2>3, <2>4
  <2> QED BY <2>4, <2>5
<1>7. n \in T
  <2> HIDE DEF T
  <2> QED BY <1>5, <1>6, UpTo
<1> QED BY <1>3, <1>7

\* The loop over the shares ends, parents before children: a share goes if a
\* kept one above it has its mode.
LEMMA KeptLoop ==
    ASSUME NEW all, IsShareSet(all)
    PROVE  /\ kept(all) \subseteq all
           /\ \A s \in all : s \in kept(all)
                <=> ~\E p \in all : isUnder(s.path, p.path) /\ p \in kept(all) /\ p.ro = s.ro
<1> DEFINE goes(k, s) == \E p \in {p \in all : isUnder(s.path, p.path)} : k[p] /\ redundant(s, p)
           upTo(m) == {s \in all : Len(s.path) <= m}
           T == {m \in Nat : \E k : k = [s \in upTo(m) |-> ~goes(k, s)]}
<1>1. /\ \A s \in all : s.path \in Seq(FileNames) /\ Len(s.path) \in Nat
      /\ \A s, p \in all : isUnder(s.path, p.path) => Len(p.path) < Len(s.path)
  BY DEF IsShareSet, Share, isUnder
<1>2. 0 \in T
  <2> DEFINE k == [s \in upTo(0) |-> TRUE]
  <2>1. \A s \in upTo(0) : \A p \in all : ~isUnder(s.path, p.path)
    BY <1>1
  <2>2. \A s \in upTo(0) : TRUE = ~goes(k, s)
    BY <2>1, Zenon
  <2>3. k = [s \in upTo(0) |-> ~goes(k, s)]
    <3>1. k = [s \in upTo(0) |-> TRUE]
      OBVIOUS
    <3> HIDE DEF k, goes, upTo
    <3> QED BY <2>2, <3>1, Zenon
  <2> HIDE DEF k, goes, upTo
  <2> QED BY <2>3
<1>3. ASSUME NEW m \in Nat, m \in T PROVE m + 1 \in T
  <2>1. PICK k : k = [s \in upTo(m) |-> ~goes(k, s)]
    BY <1>3
  <2> DEFINE g == [s \in upTo(m + 1) |-> ~goes(k, s)]
  <2>2. /\ \A s \in upTo(m) : s \in upTo(m + 1)
        /\ \A s \in upTo(m + 1) : \A p \in all : isUnder(s.path, p.path) => p \in upTo(m)
    BY <1>1
  <2>3. \A s \in upTo(m) : g[s] = k[s]
    <3> HIDE DEF goes, upTo
    <3>1. \A s \in upTo(m) : k[s] = ~goes(k, s)
      BY <2>1, Zenon
    <3>2. \A s \in upTo(m + 1) : g[s] = ~goes(k, s)
      BY Zenon
    <3> HIDE DEF g
    <3> QED BY <2>2, <3>1, <3>2, Zenon
  <2>4. \A s \in upTo(m + 1) : goes(k, s) = goes(g, s)
    <3> HIDE DEF g, upTo
    <3> QED BY <2>2, <2>3, Zenon
  <2>5. g = [s \in upTo(m + 1) |-> ~goes(g, s)]
    <3>1. g = [s \in upTo(m + 1) |-> ~goes(k, s)]
      OBVIOUS
    <3> HIDE DEF g, goes, upTo
    <3> QED BY <2>4, <3>1, Zenon
  <2> HIDE DEF g, goes, upTo
  <2> QED BY <2>5
<1>4. PICK b \in Nat : \A s \in all : Len(s.path) <= b
  BY LongestPath
<1>5. b \in T
  <2> HIDE DEF T
  <2> QED BY <1>2, <1>3, UpTo
<1>6. upTo(b) = all
  BY <1>4
<1>7. PICK k : k = [s \in all |-> ~goes(k, s)] /\ kept(all) = {s \in all : k[s]}
  <2>1. \E k : k = [s \in all |-> ~goes(k, s)]
    <3> HIDE DEF goes, upTo
    <3> QED BY <1>5, <1>6
  <2> QED BY <2>1, Zenon DEF kept
<1>8. \A s \in all : k[s] <=> ~goes(k, s)
  <2> HIDE DEF goes
  <2> QED BY <1>7, Zenon
<1>9. \A s \in all : s \in kept(all) <=> k[s]
  BY <1>7, Zenon
<1>10. \A s \in all : goes(k, s)
          <=> \E p \in all : isUnder(s.path, p.path) /\ p \in kept(all) /\ p.ro = s.ro
  BY <1>9, Zenon DEF redundant
<1>11. kept(all) \subseteq all
  BY <1>7
<1> HIDE DEF goes
<1> QED BY <1>8, <1>9, <1>10, <1>11, Zenon

\* Of the shares above a path one is the innermost.
LEMMA HasInnermost ==
    ASSUME NEW all, IsShareSet(all), NEW path \in Seq(FileNames),
           NEW S \in SUBSET all, \E s \in S : IsPrefix(s.path, path)
    PROVE  \E s \in S : /\ IsPrefix(s.path, path)
                        /\ \A t \in S : IsPrefix(t.path, path) => Len(t.path) <= Len(s.path)
<1>1. \A s \in S : Len(s.path) \in Nat
  BY DEF IsShareSet, Share
<1>2. PICK b \in Nat : \A s \in all : Len(s.path) <= b
  BY LongestPath
<1> DEFINE T == {b - Len(s.path) : s \in {s \in S : IsPrefix(s.path, path)}}
<1>3. T \in SUBSET Nat /\ T # {}
  BY <1>1, <1>2
<1>4. PICK n \in T : \A k \in T : n <= k
  <2> HIDE DEF T
  <2> QED BY <1>3, LeastNatural
<1>5. PICK s \in S : IsPrefix(s.path, path) /\ n = b - Len(s.path)
  OBVIOUS
<1>6. ASSUME NEW t \in S, IsPrefix(t.path, path) PROVE Len(t.path) <= Len(s.path)
  <2>1. b - Len(t.path) \in T
    BY <1>6
  <2>2. b - Len(s.path) <= b - Len(t.path)
    <3> HIDE DEF T
    <3> QED BY <1>4, <1>5, <2>1
  <2> QED BY <1>1, <1>2, <2>2
<1> QED BY <1>5, <1>6

\* The mode of a path is that of its innermost share.
LEMMA InnermostDecides ==
    ASSUME NEW all, IsShareSet(all), NEW path \in Seq(FileNames),
           NEW S \in SUBSET all, NEW s \in S, IsPrefix(s.path, path),
           \A t \in S : IsPrefix(t.path, path) => Len(t.path) <= Len(s.path)
    PROVE  access(S, path) = {s.ro}
<1>1. /\ \A t \in all : t.path \in Seq(FileNames) /\ Len(t.path) \in Nat
      /\ \A t, u \in all : t.path = u.path => t = u
  BY DEF IsShareSet, Share
<1> DEFINE above == {t \in S : IsPrefix(t.path, path)}
           inner == {t \in above : \A u \in above : Len(u.path) <= Len(t.path)}
<1>2. s \in inner
  OBVIOUS
<1>3. ASSUME NEW t \in inner PROVE t = s
  <2>1. t \in all /\ s \in all /\ IsPrefix(t.path, path) /\ Len(t.path) = Len(s.path)
    BY <1>1, <1>2
  <2> QED BY <1>1, <2>1, Prefixes
<1>4. inner = {s}
  <2> HIDE DEF inner
  <2> QED BY <1>2, <1>3
<1>5. access(S, path) = {t.ro : t \in inner}
  BY DEF access
<1> HIDE DEF inner
<1> QED BY <1>4, <1>5

\* Dropping the shares that are there through a parent changes the mode of a
\* path in a hole with a share of the outer mode in it, and of no other.  Of
\* the shares above the path the outermost is kept, and the outermost of the
\* other mode; every other one goes.
LEMMA KeptAccess ==
    ASSUME NEW all, IsShareSet(all), NEW path \in Seq(FileNames)
    PROVE  access(kept(all), path) # access(all, path) <=> holed(all, path)
<1> DEFINE K == kept(all)
           A == {s \in all : IsPrefix(s.path, path)}
           outer == {s \in A : \A t \in A : Len(s.path) <= Len(t.path)}
<1>1. /\ K \subseteq all
      /\ \A s \in all : s \in K
            <=> ~\E p \in all : isUnder(s.path, p.path) /\ p \in K /\ p.ro = s.ro
  BY KeptLoop
<1>2. /\ \A s \in all : s.path \in Seq(FileNames) /\ Len(s.path) \in Nat /\ s.ro \in BOOLEAN
      /\ \A s, t \in all : s.path = t.path => s = t
  BY DEF IsShareSet, Share
<1> HIDE DEF K
<1>3. \A s, t \in A : Len(s.path) = Len(t.path) => s = t
  BY <1>2, Prefixes
<1>4. \A s, t \in A : Len(s.path) < Len(t.path) => isUnder(t.path, s.path)
  BY <1>2, Prefixes
<1>5. \A s \in A : \A p \in all : isUnder(s.path, p.path) => p \in A /\ Len(p.path) < Len(s.path)
  BY <1>2, Prefixes
<1>6. holed(all, path) <=> /\ {s.ro : s \in outer} = access(all, path)
                           /\ \E h \in A : h.ro \notin access(all, path)
  BY DEF holed
<1>7. CASE A = {}
  <2>1. \A S \in SUBSET all : access(S, path) = {}
    BY <1>7 DEF access
  <2>2. access(K, path) = {} /\ access(all, path) = {}
    BY <1>1, <2>1
  <2> QED BY <1>6, <1>7, <2>2 DEF K
<1>8. CASE A # {}
  <2>1. PICK s \in A : \A v \in A : Len(v.path) <= Len(s.path)
    BY <1>8, HasInnermost
  <2>2. access(all, path) = {s.ro}
    BY <2>1, InnermostDecides
  <2>3. \A T \in SUBSET A : T # {} => \E t \in T : \A v \in T : Len(t.path) <= Len(v.path)
    <3> SUFFICES ASSUME NEW T \in SUBSET A, T # {}
                 PROVE  \E t \in T : \A v \in T : Len(t.path) <= Len(v.path)
      OBVIOUS
    <3> DEFINE L == {Len(t.path) : t \in T}
    <3>0. \A t \in T : Len(t.path) \in Nat
      BY <1>2
    <3>1. L \in SUBSET Nat /\ L # {}
      BY <3>0
    <3>2. PICK n \in L : \A k \in L : n <= k
      <4> HIDE DEF L
      <4> QED BY <3>1, LeastNatural
    <3> QED BY <3>2
  <2>4. PICK t \in A : \A v \in A : Len(t.path) <= Len(v.path)
    BY <1>8, <2>3
  <2>5. outer = {t}
    <3>1. t \in outer
      BY <2>4
    <3>2. ASSUME NEW v \in outer PROVE v = t
      BY <1>2, <1>3, <2>4
    <3> HIDE DEF outer
    <3> QED BY <3>1, <3>2
  <2>6. {v.ro : v \in outer} = {t.ro}
    <3> HIDE DEF outer
    <3> QED BY <2>5
  <2>7. holed(all, path) <=> t.ro = s.ro /\ \E h \in A : h.ro # s.ro
    BY <1>6, <2>2, <2>6
  <2>8. t \in K
    <3>1. ASSUME NEW p \in all, isUnder(t.path, p.path) PROVE FALSE
      BY <1>2, <1>5, <2>4, <3>1
    <3> QED BY <1>1, <3>1
  <2>9. CASE \A h \in A : h.ro = t.ro
    <3>1. PICK k \in K : /\ IsPrefix(k.path, path)
                         /\ \A v \in K : IsPrefix(v.path, path) => Len(v.path) <= Len(k.path)
      BY <1>1, <2>8, HasInnermost
    <3>2. access(K, path) = {k.ro}
      BY <1>1, <3>1, InnermostDecides
    <3>3. k \in A
      BY <1>1, <3>1
    <3> QED BY <2>2, <2>7, <2>9, <3>2, <3>3 DEF K
  <2>10. CASE \E h \in A : h.ro # t.ro
    <3>1. PICK h \in {h \in A : h.ro # t.ro} :
            \A v \in {v \in A : v.ro # t.ro} : Len(h.path) <= Len(v.path)
      BY <2>3, <2>10
    <3>2. h \in A /\ h.ro # t.ro /\ \A v \in A : Len(v.path) < Len(h.path) => v.ro = t.ro
      BY <1>2, <3>1
    <3>3. h \in K
      <4>1. ASSUME NEW p \in all, isUnder(h.path, p.path), p.ro = h.ro PROVE FALSE
        BY <1>5, <3>2, <4>1
      <4> QED BY <1>1, <3>2, <4>1
    <3>4. ASSUME NEW v \in K, IsPrefix(v.path, path) PROVE Len(v.path) <= Len(h.path)
      <4> SUFFICES ASSUME Len(h.path) < Len(v.path) PROVE FALSE
        BY <1>1, <1>2, <3>2
      <4>1. v \in A /\ isUnder(v.path, h.path)
        BY <1>1, <1>4, <3>2, <3>4
      <4>2. isUnder(v.path, t.path)
        BY <1>2, <1>4, <2>4, <3>2, <4>1
      <4>3. v.ro = h.ro \/ v.ro = t.ro
        BY <1>2, <3>2, <4>1
      <4> QED BY <1>1, <2>8, <3>2, <3>3, <4>1, <4>2, <4>3
    <3>5. access(K, path) = {h.ro}
      BY <1>1, <3>2, <3>3, <3>4, InnermostDecides
    <3>6. h.ro = s.ro \/ t.ro = s.ro
      BY <1>2, <2>1, <2>4, <3>2
    <3> QED BY <2>2, <2>7, <3>2, <3>5, <3>6 DEF K
  <2> QED BY <2>9, <2>10
<1> QED BY <1>7, <1>8

\* A set that was normalised has no such hole.
LEMMA NormalisedHasNoHole ==
    ASSUME NEW all, IsShareSet(all), kept(all) = all, NEW path \in Seq(FileNames)
    PROVE  ~holed(all, path)
BY KeptAccess

\* Normalising a normalised set changes nothing.
LEMMA KeptOnce ==
    ASSUME NEW all, IsShareSet(all)
    PROVE  kept(all) \subseteq all /\ IsShareSet(kept(all)) /\ kept(kept(all)) = kept(all)
<1> DEFINE res == kept(all)
<1>1. /\ res \subseteq all
      /\ \A s \in all : s \in res
            <=> ~\E p \in all : isUnder(s.path, p.path) /\ p \in res /\ p.ro = s.ro
  BY KeptLoop
<1>2. IsShareSet(res)
  <2>1. IsFiniteSet(res)
    BY <1>1, FS_Subset DEF IsShareSet
  <2> HIDE DEF res
  <2> QED BY <1>1, <2>1 DEF IsShareSet
<1> HIDE DEF res
<1>3. /\ kept(res) \subseteq res
      /\ \A s \in res : s \in kept(res)
            <=> ~\E p \in res : isUnder(s.path, p.path) /\ p \in kept(res) /\ p.ro = s.ro
  BY <1>2, KeptLoop
<1>4. \A s \in res : s \in kept(res)
  BY <1>1, <1>3
<1> QED BY <1>1, <1>2, <1>3, <1>4 DEF res

\* What is asked for is one share of a path.
LEMMA FirstIsShareSet ==
    ASSUME NEW list \in Seq(Share)
    PROVE  IsShareSet(firstOf(list))
<1>1. Len(list) \in Nat /\ DOMAIN list = 1 .. Len(list) /\ \A i \in DOMAIN list : list[i] \in Share
  OBVIOUS
<1>2. firstOf(list) \subseteq Share
  BY <1>1 DEF firstOf
<1>3. \A s, t \in firstOf(list) : s.path = t.path => s = t
  <2> SUFFICES ASSUME NEW i \in DOMAIN list, NEW j \in DOMAIN list, list[i].path = list[j].path,
                      i <= j, j <= i
               PROVE  list[i] = list[j]
    BY DEF firstOf
  <2> QED BY <1>1
<1>4. IsFiniteSet(firstOf(list))
  <2> DEFINE J == {i \in DOMAIN list : \A j \in DOMAIN list : list[j].path = list[i].path => i <= j}
             g == [i \in J |-> list[i]]
  <2>1. IsFiniteSet(1 .. Len(list))
    BY <1>1, FS_Interval
  <2>2. IsFiniteSet(J)
    BY <1>1, <2>1, FS_Subset
  <2>3. g \in Surjection(J, firstOf(list))
    BY DEF Surjection, firstOf
  <2> QED BY <2>2, <2>3, FS_Surjection
<1> QED BY <1>2, <1>3, <1>4 DEF IsShareSet

\* An init's shares keep the mode asked for, but for a share in a hole.
THEOREM NormaliseKeeps ==
    ASSUME NEW list \in Seq(Share), NEW paths \in SUBSET Seq(FileNames)
    PROVE  NormaliseKeepsAccess(list, paths)
<1> DEFINE all == firstOf(list)
<1>1. IsShareSet(all)
  BY FirstIsShareSet
<1> HIDE DEF all
<1> SUFFICES ASSUME NormaliseShares(list) # Refused, NEW p \in paths
             PROVE  access(NormaliseShares(list), p) # access(all, p) <=> holed(all, p)
  BY DEF NormaliseKeepsAccess, all
<1>2. NormaliseShares(list) = kept(all)
  BY DEF NormaliseShares, capped, all
<1> QED BY <1>1, <1>2, KeptAccess

\* However shares are nested, one that goes lies in a kept one of its mode.
THEOREM NothingUnshared ==
    ASSUME NEW list \in Seq(Share)
    PROVE  AskedIsShared(list)
<1> DEFINE all == firstOf(list)
           res == kept(all)
<1>1. IsShareSet(all)
  BY FirstIsShareSet
<1>2. NormaliseShares(list) # Refused => NormaliseShares(list) = res
  BY DEF NormaliseShares, capped
<1> HIDE DEF all
<1>3. /\ res \subseteq all
      /\ \A s \in all : s \in res
            <=> ~\E p \in all : isUnder(s.path, p.path) /\ p \in res /\ p.ro = s.ro
  BY <1>1, KeptLoop
<1>5. kept(res) = res
  BY <1>1, KeptOnce
<1> HIDE DEF res
<1>6. \A s \in all \ res : \E p \in res : isUnder(s.path, p.path) /\ p.ro = s.ro
  BY <1>3
<1> QED BY <1>2, <1>3, <1>5, <1>6 DEF AskedIsShared, all

\* What is mounted has its mode, what is unmounted is gone, and the rest stays.
THEOREM MountKeeps ==
    ASSUME NEW list, IsShareSet(list), kept(list) = list, NEW s \in Share, NEW remove,
           NEW paths \in SUBSET Seq(FileNames)
    PROVE  MountTakesEffect(list, s, remove, paths)
<1> DEFINE res == applyMounts(list, <<s>>, remove)
           left == {e \in list : \A p \in remove : e \in RemoveShare(list, p)}
           all == {e \in left : e.path # s.path} \cup {s}
<1>0. all = {e \in list : e.path \notin remove \cup {s.path}} \cup {s}
  BY DEF RemoveShare
<1> SUFFICES ASSUME res # Refused
             PROVE  /\ access(res, s.path) = {s.ro} <=> ~holed(all, s.path)
                    /\ \A p \in remove \ {s.path} : \A e \in res : e.path # p
                    /\ \A p \in paths : (\A x \in remove \cup {s.path} : ~IsPrefix(x, p))
                            => access(res, p) = access(list, p)
  BY <1>0 DEF MountTakesEffect
<1>1. left = {e \in list : e.path \notin remove}
  BY DEF RemoveShare
<1>2. IsShareSet(all)
  <2>1. IsFiniteSet({e \in left : e.path # s.path})
    BY <1>1, FS_Subset DEF IsShareSet
  <2>2. IsFiniteSet(all)
    BY <2>1, FS_AddElement
  <2> QED BY <1>1, <2>2 DEF IsShareSet
<1>3. res = kept(kept(all))
  <2> DEFINE step(after, i) ==
                IF after[i - 1] = Refused THEN Refused ELSE AddShare(after[i - 1], <<s>>[i])
             g == [i \in 0 .. 1 |-> IF i = 0 THEN left ELSE IF left = Refused THEN Refused
                                     ELSE AddShare(left, s)]
  <2>1. g = [i \in 0 .. 1 |-> IF i = 0 THEN left ELSE step(g, i)]
    <3>1. g[0] = left
      OBVIOUS
    <3>2. \A i \in 0 .. 1 : i # 0 => i = 1 /\ i - 1 = 0 /\ <<s>>[i] = s
      OBVIOUS
    <3>3. \A i \in 0 .. 1 : (IF i = 0 THEN left ELSE IF left = Refused THEN Refused
                                ELSE AddShare(left, s)) = IF i = 0 THEN left ELSE step(g, i)
      <4> HIDE DEF g, left
      <4> QED BY <3>1, <3>2
    <3>4. g = [i \in 0 .. 1 |-> IF i = 0 THEN left ELSE IF left = Refused THEN Refused
                                  ELSE AddShare(left, s)]
      OBVIOUS
    <3> HIDE DEF g, left, step
    <3> QED BY <3>3, <3>4
  <2> DEFINE Mounted(f) ==
        IF (\E p \in remove : \A e \in list : e.path # p) \/ f[Len(<<s>>)] = Refused THEN Refused
        ELSE capped(kept(f[Len(<<s>>)]))
  <2>2. Len(<<s>>) = 1
    OBVIOUS
  <2>3. \E f : f = [i \in 0 .. Len(<<s>>) |-> IF i = 0 THEN left ELSE step(f, i)]
                 /\ res = Mounted(f)
    <3>1. \E f : f = [i \in 0 .. Len(<<s>>) |-> IF i = 0 THEN left ELSE step(f, i)]
      <4> HIDE DEF g, left, step
      <4> QED BY <2>1, <2>2
    <3> HIDE DEF g
    <3> QED BY <3>1, Zenon DEF applyMounts
  <2>4. PICK f : f = [i \in 0 .. 1 |-> IF i = 0 THEN left ELSE step(f, i)] /\ res = Mounted(f)
    <3> HIDE DEF g, left, step, Mounted
    <3> QED BY <2>2, <2>3
  <2>5. f[0] = left /\ f[1] = step(f, 1)
    <3> HIDE DEF step, left
    <3> QED BY <2>4
  <2>6. res # Refused => f[1] # Refused /\ res = kept(f[1])
    BY <2>2, <2>4 DEF capped
  <2>7. f[1] # Refused => f[1] = AddShare(left, s)
    <3>1. 1 - 1 = 0 /\ <<s>>[1] = s
      OBVIOUS
    <3> HIDE DEF left
    <3> QED BY <2>5, <3>1
  <2>8. AddShare(left, s) # Refused => AddShare(left, s) = kept(all)
    BY DEF AddShare, capped
  <2> HIDE DEF left, all
  <2> QED BY <2>6, <2>7, <2>8
<1> HIDE DEF res, left
<1>4. res = kept(all)
  <2> HIDE DEF all
  <2> QED BY <1>2, <1>3, KeptOnce
<1>6. res \subseteq all
  <2> HIDE DEF all
  <2> QED BY <1>2, <1>4, KeptOnce
<1>7. \A p \in Seq(FileNames) : access(res, p) # access(all, p) <=> holed(all, p)
  <2> HIDE DEF all
  <2> QED BY <1>2, <1>4, KeptAccess
<1>8. access(res, s.path) = {s.ro} <=> ~holed(all, s.path)
  <2>1. s.path \in Seq(FileNames) /\ Len(s.path) \in Nat /\ IsPrefix(s.path, s.path)
    BY Prefixes DEF Share
  <2>2. \A t \in all : t.path \in Seq(FileNames) /\ Len(t.path) \in Nat
    BY <1>2 DEF IsShareSet, Share
  <2>3. \A t \in all : IsPrefix(t.path, s.path) =>
            Len(t.path) <= Len(s.path) /\ (Len(t.path) = Len(s.path) => t.path = s.path)
    BY <2>1, <2>2, Prefixes DEF IsPrefix
  <2>4. \A t \in all : t.path = s.path => t = s
    OBVIOUS
  <2>5. s \in all
    OBVIOUS
  <2>6. \A t \in all : IsPrefix(t.path, s.path) => Len(t.path) <= Len(s.path)
    BY <2>3
  <2>7. access(all, s.path) = {s.ro}
    <3> HIDE DEF all
    <3> QED BY <1>2, <2>1, <2>5, <2>6, InnermostDecides
  <2> QED BY <1>7, <2>1, <2>7
<1>9. ASSUME NEW p \in remove \ {s.path}, NEW e \in res PROVE e.path # p
  BY <1>1, <1>6
<1>10. ASSUME NEW p \in paths, \A x \in remove \cup {s.path} : ~IsPrefix(x, p)
       PROVE  access(res, p) = access(list, p)
  <2>1. {t \in all : IsPrefix(t.path, p)} = {t \in list : IsPrefix(t.path, p)}
    BY <1>1, <1>10
  <2>2. access(all, p) = access(list, p)
    BY <2>1 DEF access
  <2>3. p \in Seq(FileNames) /\ ~holed(list, p)
    BY NormalisedHasNoHole
  <2>4. holed(all, p) <=> holed(list, p)
    BY <2>1, <2>2 DEF holed
  <2> QED BY <1>7, <2>2, <2>3, <2>4
<1> QED BY <1>8, <1>9, <1>10

--------------------------------------------------------------------------
(* The answers. *)

\* A reply is sent whole over TCP.
LEMMA CheckedIsReply ==
    ASSUME NEW sys, NEW q
    PROVE  /\ checked(sys, q).tc = FALSE
           /\ checked(sys, q) = reply(checked(sys, q).rcode, checked(sys, q).answers)
<1>1. \A rcode, answers : /\ reply(rcode, answers).tc = FALSE
                          /\ reply(rcode, answers).rcode = rcode
                          /\ reply(rcode, answers).answers = answers
  BY DEF reply
<1>2. \E rcode, answers : resolve(sys, q) = reply(rcode, answers)
  <2>1. \A found, six : \E rcode, answers : addressAnswer(found, six) = reply(rcode, answers)
    BY Zenon DEF addressAnswer
  <2>2. CASE q.name = StatusName
    BY <2>2, Zenon DEF resolve, statusAnswer
  <2>3. CASE q.name # StatusName /\ q.name \in AliasNames
    BY <2>3, Zenon DEF resolve, aliasAnswer
  <2>4. CASE q.name # StatusName /\ q.name \notin AliasNames
    <3>1. CASE q.type \in {"A", "AAAA"}
      BY <2>1, <2>4, <3>1 DEF resolve
    <3>2. CASE q.type \in {"CNAME", "TXT", "PTR"}
      <4>1. \E rcode, answers : recordAnswer(sys[q.name], q) = reply(rcode, answers)
        BY Zenon DEF recordAnswer
      <4>2. resolve(sys, q) \in {reply("noerror", {}), recordAnswer(sys[q.name], q)}
        BY <2>4, <3>2 DEF resolve
      <4> QED BY <4>1, <4>2
    <3>3. CASE q.type \notin {"A", "AAAA", "CNAME", "TXT", "PTR"}
      BY <2>4, <3>3 DEF resolve
    <3> QED BY <3>1, <3>2, <3>3
  <2> QED BY <2>2, <2>3, <2>4
<1>3. \E rcode, answers : checked(sys, q) = reply(rcode, answers)
  BY <1>2, Zenon DEF checked, none
<1> QED BY <1>1, <1>3

\* What the guest is handed of the host's addresses: the global IPv4 ones and
\* the alias for a loopback one, or the global IPv6 ones.
LEMMA GuestAddrsMean ==
    ASSUME NEW ips, ips \subseteq {a \in HostAddress : a.mapped => a.v = 6}
    PROVE  LET four(x) == x.v = 4 \/ x.mapped IN
           /\ \A x \in ips : four(x) /\ x.class = "global"
                => Address(4, "global", x.id) \in GuestAddrs(ips, FALSE)
           /\ \A x \in ips : four(x) /\ x.class = "loopback" => alias \in GuestAddrs(ips, FALSE)
           /\ \A a \in GuestAddrs(ips, FALSE) : \E x \in ips :
                /\ four(x)
                /\ \/ x.class = "global" /\ a = Address(4, "global", x.id)
                   \/ x.class = "loopback" /\ a = alias
           /\ GuestAddrs(ips, TRUE) = {x \in ips : ~four(x) /\ x.class = "global"}
<1> DEFINE four(x) == x.v = 4 \/ x.mapped
<1>1. ASSUME NEW x \in ips
      PROVE  /\ x.v \in {4, 6} /\ x.mapped \in BOOLEAN /\ x.class \in Classes
             /\ four(x) => unmap(x) = Address(4, x.class, x.id)
             /\ ~four(x) => unmap(x) = x /\ x.v = 6
  <2>1. x \in HostAddress /\ (x.mapped => x.v = 6)
    OBVIOUS
  <2>2. x.mapped => unmap(x) = Address(4, x.class, x.id)
    BY DEF unmap
  <2>3. ~x.mapped => x = [v |-> x.v, mapped |-> FALSE, class |-> x.class, id |-> x.id]
    BY <2>1 DEF HostAddress
  <2>4. ~x.mapped /\ x.v = 4 => unmap(x) = Address(4, x.class, x.id)
    BY <2>3 DEF unmap, Address
  <2> QED BY <2>1, <2>2, <2>4 DEF HostAddress, unmap
<1>2. \A c, id : /\ Address(4, c, id).v = 4 /\ Address(4, c, id).class = c
                 /\ Address(4, c, id).id = id
  BY DEF Address
<1>3. \A six \in BOOLEAN : \A a : a \in GuestAddrs(ips, six)
        <=> \E x \in ips : /\ (unmap(x).v = 6) = six /\ reachable(unmap(x), six)
                           /\ a = rewritten(unmap(x))
  BY DEF GuestAddrs
<1>4. ASSUME NEW x \in ips
      PROVE  /\ (unmap(x).v = 6) <=> ~four(x)
             /\ unmap(x).class = x.class
             /\ reachable(unmap(x), FALSE) <=> x.class \in {"global", "loopback"}
             /\ reachable(unmap(x), TRUE) <=> x.class = "global"
             /\ four(x) => rewritten(unmap(x))
                            = IF x.class = "loopback" THEN alias ELSE Address(4, x.class, x.id)
             /\ ~four(x) /\ x.class = "global" => rewritten(unmap(x)) = x
  <2>1. /\ x.class \in Classes
        /\ four(x) => unmap(x) = Address(4, x.class, x.id)
        /\ ~four(x) => unmap(x) = x /\ x.v = 6
    BY <1>1
  <2>2. (unmap(x).v = 6 <=> ~four(x)) /\ unmap(x).class = x.class
    <3> HIDE DEF four
    <3> QED BY <1>2, <2>1
  <2> HIDE DEF four
  <2> QED BY <2>1, <2>2 DEF reachable, rewritten, Classes
<1> HIDE DEF four
<1>5. ASSUME NEW x \in ips, four(x), x.class = "global"
      PROVE  Address(4, "global", x.id) \in GuestAddrs(ips, FALSE)
  <2>1. (unmap(x).v = 6) = FALSE /\ reachable(unmap(x), FALSE)
    BY <1>4, <1>5
  <2>2. rewritten(unmap(x)) = Address(4, "global", x.id)
    BY <1>4, <1>5
  <2> QED BY <1>3, <2>1, <2>2
<1>6. ASSUME NEW x \in ips, four(x), x.class = "loopback"
      PROVE  alias \in GuestAddrs(ips, FALSE)
  <2>1. (unmap(x).v = 6) = FALSE /\ reachable(unmap(x), FALSE)
    BY <1>4, <1>6
  <2>2. rewritten(unmap(x)) = alias
    BY <1>4, <1>6
  <2> QED BY <1>3, <2>1, <2>2
<1>7. ASSUME NEW a \in GuestAddrs(ips, FALSE)
      PROVE  \E x \in ips : /\ four(x)
                            /\ \/ x.class = "global" /\ a = Address(4, "global", x.id)
                               \/ x.class = "loopback" /\ a = alias
  <2>1. PICK x \in ips : /\ (unmap(x).v = 6) = FALSE /\ reachable(unmap(x), FALSE)
                         /\ a = rewritten(unmap(x))
    BY <1>3, <1>7
  <2> QED BY <1>4, <2>1
<1>8. ASSUME NEW a
      PROVE  a \in GuestAddrs(ips, TRUE) <=> a \in ips /\ ~four(a) /\ a.class = "global"
  <2>1. ASSUME a \in GuestAddrs(ips, TRUE) PROVE a \in ips /\ ~four(a) /\ a.class = "global"
    <3>1. PICK x \in ips : /\ (unmap(x).v = 6) = TRUE /\ reachable(unmap(x), TRUE)
                           /\ a = rewritten(unmap(x))
      BY <1>3, <2>1
    <3> QED BY <1>4, <3>1
  <2>2. ASSUME a \in ips, ~four(a), a.class = "global" PROVE a \in GuestAddrs(ips, TRUE)
    <3>1. (unmap(a).v = 6) = TRUE /\ reachable(unmap(a), TRUE) /\ a = rewritten(unmap(a))
      BY <1>4, <2>2
    <3> QED BY <1>3, <2>2, <3>1
  <2> QED BY <2>1, <2>2
<1>9. GuestAddrs(ips, TRUE) = {x \in ips : ~four(x) /\ x.class = "global"}
  BY <1>8
<1> QED BY <1>5, <1>6, <1>7, <1>9 DEF four

\* What a question that passes the checks is answered with.
LEMMA HostIsAsked ==
    ASSUME NEW sys, NEW q, reachesHost(q)
    PROVE  /\ q.type \in {"A", "AAAA"} =>
                checked(sys, q) = addressAnswer(sys[q.name], q.type = "AAAA")
           /\ asksHost(q) /\ q.type \notin {"A", "AAAA"} =>
                checked(sys, q) = recordAnswer(sys[q.name], q)
<1>1. checked(sys, q) = resolve(sys, q)
  BY DEF checked, reachesHost
<1>2. q.name # StatusName /\ q.name \notin AliasNames
  BY DEF reachesHost
<1>3. q.type \in {"A", "AAAA"} => resolve(sys, q) = addressAnswer(sys[q.name], q.type = "AAAA")
  BY <1>2 DEF resolve
<1>4. asksHost(q) /\ q.type \notin {"A", "AAAA"} => resolve(sys, q) = recordAnswer(sys[q.name], q)
  BY <1>2 DEF resolve, asksHost
<1> QED BY <1>1, <1>3, <1>4

\* The guest is handed every address of the host's it can reach and no other.
THEOREM AnswersHold ==
    ASSUME NEW sys, NEW q, IsResult(sys[q.name])
    PROVE  AddressesAreTheHosts(sys, q)
<1> DEFINE ips == sys[q.name].ips
           four(x) == x.v = 4 \/ x.mapped
           r == checked(sys, q)
<1> SUFFICES ASSUME reachesHost(q), sys[q.name].err = "ok"
             PROVE  /\ q.type = "A" =>
                        /\ \A x \in ips : four(x) /\ x.class = "global"
                                            => Address(4, "global", x.id) \in r.answers
                        /\ \A x \in ips : four(x) /\ x.class = "loopback" => alias \in r.answers
                        /\ \A a \in r.answers : \E x \in ips :
                            /\ four(x)
                            /\ \/ x.class = "global" /\ a = Address(4, "global", x.id)
                               \/ x.class = "loopback" /\ a = alias
                    /\ q.type = "AAAA" => r.answers
                            = {x \in ips : AllowIPv6 /\ ~four(x) /\ x.class = "global"}
  BY DEF AddressesAreTheHosts, answerTCP
<1>1. ips \subseteq {a \in HostAddress : a.mapped => a.v = 6}
  BY DEF IsResult
<1>2. /\ q.type = "A" => r = addressAnswer(sys[q.name], FALSE)
      /\ q.type = "AAAA" => r = addressAnswer(sys[q.name], TRUE)
  <2>1. q.type \in {"A", "AAAA"} => r = addressAnswer(sys[q.name], q.type = "AAAA")
    BY HostIsAsked
  <2>2. ("A" = "AAAA") = FALSE /\ ("AAAA" = "AAAA") = TRUE
    OBVIOUS
  <2> HIDE DEF r
  <2>3. ASSUME q.type = "A" PROVE r = addressAnswer(sys[q.name], FALSE)
    <3>1. (q.type = "AAAA") = FALSE
      BY <2>2, <2>3
    <3> QED BY <2>1, <2>3, <3>1
  <2>4. ASSUME q.type = "AAAA" PROVE r = addressAnswer(sys[q.name], TRUE)
    <3>1. (q.type = "AAAA") = TRUE
      BY <2>2, <2>4
    <3> QED BY <2>1, <2>4, <3>1
  <2> QED BY <2>3, <2>4
<1>3. \A rcode, answers : reply(rcode, answers).answers = answers
  BY DEF reply
<1>4. /\ addressAnswer(sys[q.name], FALSE).answers = GuestAddrs(ips, FALSE)
      /\ addressAnswer(sys[q.name], TRUE).answers = IF AllowIPv6 THEN GuestAddrs(ips, TRUE) ELSE {}
  BY <1>3 DEF addressAnswer
<1>5. AllowIPv6 \in BOOLEAN
  BY DnsAssumption
<1> HIDE DEF ips, r
<1>6. CASE q.type = "A"
  <2>1. r.answers = GuestAddrs(ips, FALSE)
    BY <1>2, <1>4, <1>6 DEF ips
  <2>2. /\ \A x \in ips : four(x) /\ x.class = "global"
                => Address(4, "global", x.id) \in GuestAddrs(ips, FALSE)
        /\ \A x \in ips : four(x) /\ x.class = "loopback" => alias \in GuestAddrs(ips, FALSE)
        /\ \A a \in GuestAddrs(ips, FALSE) : \E x \in ips :
                /\ four(x)
                /\ \/ x.class = "global" /\ a = Address(4, "global", x.id)
                   \/ x.class = "loopback" /\ a = alias
    BY <1>1, GuestAddrsMean
  <2> HIDE DEF four
  <2>3. q.type # "AAAA"
    BY <1>6
  <2> QED BY <2>1, <2>2, <2>3
<1>7. CASE q.type = "AAAA"
  <2>1. r.answers = IF AllowIPv6 THEN GuestAddrs(ips, TRUE) ELSE {}
    BY <1>2, <1>4, <1>7 DEF ips
  <2>2. GuestAddrs(ips, TRUE) = {x \in ips : ~four(x) /\ x.class = "global"}
    BY <1>1, GuestAddrsMean
  <2> HIDE DEF four
  <2>3. r.answers = {x \in ips : AllowIPv6 /\ ~four(x) /\ x.class = "global"}
    BY <1>5, <2>1, <2>2
  <2> QED BY <1>7, <2>3
<1> QED BY <1>6, <1>7

\* The failures the guest sees are the host's.
THEOREM FailuresPassedOn ==
    ASSUME NEW sys, NEW q, IsResult(sys[q.name])
    PROVE  FailureIsTheHosts(sys, q)
<1> DEFINE found == sys[q.name]
           r == checked(sys, q)
<1> SUFFICES ASSUME reachesHost(q), asksHost(q)
             PROVE  /\ r.rcode = "nxdomain" <=> found.err = "notfound"
                    /\ r.rcode = "servfail" <=> found.err = "failed"
                    /\ r.rcode = "noerror" <=> found.err = "ok"
                    /\ r.rcode # "noerror" => r.answers = {}
                    /\ q.type = "CNAME" => q.name \notin r.answers
  BY DEF FailureIsTheHosts, answerTCP
<1>1. \A rcode, answers : /\ reply(rcode, answers).rcode = rcode
                          /\ reply(rcode, answers).answers = answers
  BY DEF reply
<1>2. \E answers : /\ r = IF found.err # "ok" THEN reply(fail(found.err), {})
                          ELSE reply("noerror", answers)
                   /\ q.type = "CNAME" => q.name \notin answers
  <2>1. CASE q.type \in {"A", "AAAA"}
    <3>1. r = addressAnswer(found, q.type = "AAAA")
      BY <2>1, HostIsAsked
    <3>2. q.type # "CNAME"
      BY <2>1
    <3> HIDE DEF r, found
    <3> QED BY <3>1, <3>2 DEF addressAnswer
  <2>2. CASE q.type \notin {"A", "AAAA"}
    <3>1. r = recordAnswer(found, q)
      BY <2>2, HostIsAsked
    <3> HIDE DEF r, found
    <3> QED BY <3>1 DEF recordAnswer
  <2> QED BY <2>1, <2>2
<1>3. found.err \in {"ok", "notfound", "failed"}
  BY DEF IsResult
<1> HIDE DEF r, found
<1> QED BY <1>1, <1>2, <1>3 DEF fail

\* A reply that lost its answers says so, whatever datagram was offered.
THEOREM TruncationTold ==
    ASSUME NEW sys, NEW q
    PROVE  TruncationIsTold(sys, q)
<1> DEFINE r == checked(sys, q)
<1>1. r.tc = FALSE /\ r = reply(r.rcode, r.answers)
  BY CheckedIsReply
<1>2. build(q, r).rcode = r.rcode /\ (~build(q, r).tc => build(q, r).answers = r.answers)
  <2> HIDE DEF r
  <2> QED BY <1>1 DEF build, reply
<1> QED BY <1>2 DEF TruncationIsTold, Answer, answerTCP

\* doctor's probe, followed over TCP, is the host's own answer.
THEOREM ProbeAgrees ==
    ASSUME NEW sys, NEW file \in Seq(Names \ {StatusName}), NEW aliases
    PROVE  ProbeIsInParity(sys, file, aliases)
<1> SUFFICES ASSUME NEW n \in ParityProbe(sys, file, aliases)
             PROVE  /\ n \notin AliasNames => inParity(sys, n)
                    /\ AliasNames \subseteq aliases => n \notin AliasNames
  BY DEF ProbeIsInParity
<1>1. n \notin aliases /\ n # StatusName /\ comparable(sys, n) # {}
  <2>1. PICK i \in candidates(sys, file, aliases) : n = file[i]
    BY DEF ParityProbe
  <2>2. i \in DOMAIN file /\ file[i] \notin aliases /\ comparable(sys, file[i]) # {}
    BY <2>1 DEF candidates
  <2> QED BY <2>1, <2>2
<1>2. sys[n].err = "ok"
  BY <1>1 DEF comparable
<1>3. SUFFICES ASSUME n \notin AliasNames PROVE inParity(sys, n)
  BY <1>1
<1> DEFINE q == [form |-> "query", class |-> "IN", opcode |-> 0, name |-> n, type |-> "A",
                 edns |-> MaxUDP]
           r == checked(sys, q)
<1>4. r = addressAnswer(sys[n], FALSE)
  <2>1. /\ q.form = "query" /\ q.class = "IN" /\ q.opcode = 0 /\ q.name = n /\ q.type = "A"
    OBVIOUS
  <2> HIDE DEF q
  <2>2. reachesHost(q)
    BY <1>1, <1>3, <2>1 DEF reachesHost
  <2>3. r = addressAnswer(sys[q.name], q.type = "AAAA")
    BY <2>1, <2>2, HostIsAsked
  <2>4. (q.type = "AAAA") = FALSE
    BY <2>1
  <2> QED BY <2>1, <2>3, <2>4
<1>5. r.rcode = "noerror" /\ r.answers = GuestAddrs(sys[n].ips, FALSE)
  <2> HIDE DEF r
  <2>1. r = reply("noerror", GuestAddrs(sys[n].ips, FALSE))
    BY <1>2, <1>4 DEF addressAnswer
  <2> QED BY <2>1 DEF reply
<1>6. TruncationIsTold(sys, q)
  BY TruncationTold
<1> HIDE DEF q
<1>7. askResolver(sys, n, "A") = IF Answer(sys, q).rcode = "noerror" /\ Answer(sys, q).tc
                                  THEN answerTCP(sys, q) ELSE Answer(sys, q)
  BY DEF askResolver, q
<1> QED BY <1>5, <1>6, <1>7 DEF inParity, TruncationIsTold, answerTCP

--------------------------------------------------------------------------
(* The specification. *)

\* What is computed is the plan of the input taken.
ComputedInv ==
    /\ in \in PlanInputs \/ in \in NormaliseInputs \/ in \in MountInputs \/ in \in DnsInputs
    /\ in.kind = "plan" /\ out # <<>> => out = <<Resolve(Compute(in.pubs), in.addressed)>>

\* The step takes nothing but the input and the code's result for it.
THEOREM ComputedInvariant == Spec => []ComputedInv
<1>1. Init => ComputedInv
  BY DEF Init, ComputedInv
<1>2. ComputedInv /\ [Next]_vars => ComputedInv'
  <2> SUFFICES ASSUME ComputedInv, [Next]_vars PROVE ComputedInv'
    OBVIOUS
  <2> USE DEF ComputedInv
  <2>1. CASE ComputePlan
    BY <2>1 DEF ComputePlan
  <2>2. CASE ComputeShares
    BY <2>2 DEF ComputeShares
  <2>3. CASE ComputeAnswer
    BY <2>3 DEF ComputeAnswer
  <2>4. CASE UNCHANGED vars
    BY <2>4 DEF vars
  <2> QED BY <2>1, <2>2, <2>3, <2>4 DEF Next
<1> QED BY <1>1, <1>2, PTL DEF Spec

\* Every plan Compute and Resolve make maps what is published, leaves the engine
\* its ports, calls working only what reaches its container and pending only
\* what cannot.
THEOREM EveryPlanIsFaithful == Spec => []PlanIsFaithful
<1>1. ComputedInv => PlanIsFaithful
  <2> SUFFICES ASSUME ComputedInv, in.kind = "plan", out # <<>>
               PROVE  /\ MapsWhatIsPublished(in.pubs, out[1])
                      /\ RulesLeaveEngine(in.pubs, out[1])
                      /\ MappedIsDelivered(in.pubs, out[1])
                      /\ PendingIsBlocked(in.pubs, out[1], in.addressed)
    BY DEF PlanIsFaithful
  <2>1. in.pubs \in Seq(Publication)
    BY AlgorithmsAssumption DEF ComputedInv, AlgorithmsAssumption
  <2>2. out[1] = Resolve(Compute(in.pubs), in.addressed)
    BY DEF ComputedInv
  <2> QED BY <2>1, <2>2, PublishedIsMapped, EngineLeftAlone, MappedReaches, PendingIsReal
<1> QED BY <1>1, ComputedInvariant, PTL

\* NormaliseShares and applyMounts change what the guest sees of a path in a
\* hole with a share of the outer mode in it, and of no other, and
\* NormaliseShares leaves none unshared.
THEOREM SharesKeepEveryAccess == Spec => []SharesKeepAccess
<1>1. ComputedInv => SharesKeepAccess
  <2> SUFFICES ASSUME ComputedInv PROVE SharesKeepAccess
    OBVIOUS
  <2>1. Paths \in SUBSET Seq(FileNames)
    BY AlgorithmsAssumption DEF AlgorithmsAssumption
  <2>2. ASSUME in.kind = "normalise"
        PROVE  NormaliseKeepsAccess(in.shares, Paths) /\ AskedIsShared(in.shares)
    <3>1. in.shares \in Seq(Share)
      BY <2>2, AlgorithmsAssumption DEF ComputedInv, AlgorithmsAssumption
    <3> QED BY <2>1, <3>1, NormaliseKeeps, NothingUnshared
  <2>3. ASSUME in.kind = "mount" PROVE MountTakesEffect(in.list, in.add, in.remove, Paths)
    <3>1. in.add \in Share /\ IsShareSet(in.list) /\ kept(in.list) = in.list
      BY <2>3, AlgorithmsAssumption DEF ComputedInv, AlgorithmsAssumption
    <3> QED BY <2>1, <3>1, MountKeeps
  <2> QED BY <2>2, <2>3 DEF SharesKeepAccess
<1> QED BY <1>1, ComputedInvariant, PTL

\* Every answer of the resolver is the host's as the guest can use it.
THEOREM EveryAnswerIsTheHosts == Spec => []AnswersAreTheHosts
<1>1. ComputedInv => AnswersAreTheHosts
  <2> SUFFICES ASSUME ComputedInv, in.kind = "dns"
               PROVE  /\ AddressesAreTheHosts(in.sys, in.q)
                      /\ FailureIsTheHosts(in.sys, in.q)
                      /\ TruncationIsTold(in.sys, in.q)
    BY DEF AnswersAreTheHosts
  <2>1. in.q.name \in Names \cup AliasNames \cup {StatusName} /\ \A n \in Names : IsResult(in.sys[n])
    BY AlgorithmsAssumption DEF ComputedInv, AlgorithmsAssumption
  <2>2. CASE in.q.name \in Names
    BY <2>1, <2>2, AnswersHold, FailuresPassedOn, TruncationTold
  <2>3. CASE in.q.name \in AliasNames \cup {StatusName}
    BY <2>3, TruncationTold DEF AddressesAreTheHosts, FailureIsTheHosts, reachesHost
  <2> QED BY <2>1, <2>2, <2>3
<1> QED BY <1>1, ComputedInvariant, PTL

\* doctor's parity check passes of a resolver that answers as the host does.
THEOREM ParityAlwaysAgrees == Spec => []ParityAgrees
<1>1. ComputedInv => ParityAgrees
  <2> SUFFICES ASSUME ComputedInv, in.kind = "dns" PROVE ProbeIsInParity(in.sys, in.file, in.aliases)
    BY DEF ParityAgrees
  <2>1. in.file \in Seq(Names \ {StatusName})
    BY AlgorithmsAssumption DEF ComputedInv, AlgorithmsAssumption
  <2> QED BY <2>1, ProbeAgrees
<1> QED BY <1>1, ComputedInvariant, PTL

=============================================================================
