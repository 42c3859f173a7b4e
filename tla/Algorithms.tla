----------------------------- MODULE Algorithms -----------------------------
(***************************************************************************)
(* The publish plan, the share set and the answer policy: one input of     *)
(* one of them is taken and what the code makes of it computed.            *)
(***************************************************************************)
EXTENDS PublishPlan, Shares, DnsAnswers

CONSTANTS
    PlanInputs,         \* what ps lists, and which containers have an address
    NormaliseInputs,    \* the shares of an init
    MountInputs,        \* a machine's shares, one to mount, paths to unmount
    DnsInputs,          \* how the host resolves, its hosts file, doctor's alias names, a question
    Paths,              \* the paths looked at in the guest
    Names               \* the names asked for

\* A machine's shares were normalised.  No hosts file holds the name the
\* resolver reserves for itself.
AlgorithmsAssumption ==
    /\ \A x \in PlanInputs : x.kind = "plan" /\ x.pubs \in Seq(Publication)
    /\ \A x \in NormaliseInputs : x.kind = "normalise" /\ x.shares \in Seq(Share)
    /\ \A x \in MountInputs :
        /\ x.kind = "mount" /\ x.add \in Share /\ x.remove \subseteq Seq(FileNames)
        /\ IsShareSet(x.list) /\ kept(x.list) = x.list
    /\ \A x \in DnsInputs :
        /\ x.kind = "dns" /\ x.file \in Seq(Names \ {StatusName})
        /\ \A n \in Names : IsResult(x.sys[n])
        /\ x.q.name \in Names \cup AliasNames \cup {StatusName}
    /\ Paths \subseteq Seq(FileNames)

ASSUME AlgorithmsAssumption

VARIABLES in, out

--------------------------------------------------------------------------
Init ==
    /\ out = <<>>
    /\ in \in PlanInputs \/ in \in NormaliseInputs \/ in \in MountInputs \/ in \in DnsInputs

ComputePlan ==
    /\ in.kind = "plan" /\ out = <<>>
    /\ out' = <<Resolve(Compute(in.pubs), in.addressed)>>
    /\ UNCHANGED in

ComputeShares ==
    /\ in.kind \in {"normalise", "mount"} /\ out = <<>>
    /\ out' = <<IF in.kind = "normalise" THEN NormaliseShares(in.shares)
                ELSE applyMounts(in.list, <<in.add>>, in.remove)>>
    /\ UNCHANGED in

ComputeAnswer ==
    /\ in.kind = "dns" /\ out = <<>>
    /\ out' = <<Answer(in.sys, in.q)>>
    /\ UNCHANGED in

Next == ComputePlan \/ ComputeShares \/ ComputeAnswer

vars == <<in, out>>

Spec == Init /\ [][Next]_vars

--------------------------------------------------------------------------
\* Exactly what running containers publish is mapped, jm's redirects neither
\* shadow the engine's nor clash, what the forwarder reports as working reaches
\* the container that published it, and each address and port it reports as
\* pending has a publish that the engine, another container or a missing
\* address stands in the way of (Compute, expand, bindFor, Resolve).
PlanIsFaithful ==
    (in.kind = "plan" /\ out # <<>>) =>
        /\ MapsWhatIsPublished(in.pubs, out[1])
        /\ RulesLeaveEngine(in.pubs, out[1])
        /\ MappedIsDelivered(in.pubs, out[1])
        /\ PendingIsBlocked(in.pubs, out[1], in.addressed)

\* The guest sees each shared path with the mode asked for, except inside a
\* hole where the share that asks for the outer mode again is dropped, and
\* nothing asked for is dropped that is not shared otherwise (NormaliseShares,
\* AddShare, applyMounts).
SharesKeepAccess ==
    /\ in.kind = "normalise" => NormaliseKeepsAccess(in.shares, Paths) /\ AskedIsShared(in.shares)
    /\ in.kind = "mount" => MountTakesEffect(in.list, in.add, in.remove, Paths)

\* An answer is the host's as the guest can use it: every address of the
\* host's it can reach and no other, the host's failures and no others, and a
\* reply that lost its answers says so (GuestAddrs, fail, addressAnswer,
\* resolve, build, answerTCP).
AnswersAreTheHosts ==
    in.kind = "dns" =>
        /\ AddressesAreTheHosts(in.sys, in.q)
        /\ FailureIsTheHosts(in.sys, in.q)
        /\ TruncationIsTold(in.sys, in.q)

\* doctor does not report a resolver that answers as the host does
\* (ParityProbe, resolverParityCheck, askResolver).
ParityAgrees == in.kind = "dns" => ProbeIsInParity(in.sys, in.file, in.aliases)

=============================================================================
