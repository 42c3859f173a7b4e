------------------------------- MODULE Shares -------------------------------
(***************************************************************************)
(* The directories a machine shares.  A path is the sequence of its parts; *)
(* a share is a path and its access mode.                                  *)
(***************************************************************************)
EXTENDS Integers, Sequences, FiniteSets

CONSTANTS
    MaxShares,      \* what a machine exports at most
    FileNames       \* the parts of paths

ASSUME SharesAssumption == MaxShares \in Nat

\* The whole file system is never shared.
Share == [path: Seq(FileNames) \ {<<>>}, ro: BOOLEAN]

\* A machine's shares, one of a path.
IsShareSet(list) ==
    list \subseteq Share /\ IsFiniteSet(list) /\ \A s, t \in list : s.path = t.path => s = t

IsPrefix(s, t) == Len(s) <= Len(t) /\ \A i \in 1 .. Len(s) : s[i] = t[i]

isUnder(child, parent) == Len(parent) < Len(child) /\ IsPrefix(parent, child)

\* Of two requests for a path the first one counts.
firstOf(in) ==
    {in[i] : i \in {i \in DOMAIN in : \A j \in DOMAIN in : in[j].path = in[i].path => i <= j}}

\* Mutant: any share nested in another is dropped.
redundantAlways(s, p) == TRUE

\* A nested share of the same mode is already there through its parent.
redundant(s, p) == p.ro = s.ro

\* The shares kept, parents before children: one nested in a kept share of
\* its mode goes.
kept(all) ==
    LET keep[s \in all] ==
            ~\E p \in {p \in all : isUnder(s.path, p.path)} : keep[p] /\ redundant(s, p)
    IN  {s \in all : keep[s]}

Refused == {[path |-> <<>>, ro |-> FALSE]}

\* A machine does not share more than it exports.
capped(shares) == IF Cardinality(shares) > MaxShares THEN Refused ELSE shares

\* NormaliseShares; the tags it hands out are left out.
NormaliseShares(in) == capped(kept(firstOf(in)))

\* AddShare replaces the share of its path.
AddShare(list, s) == capped(kept({e \in list : e.path # s.path} \cup {s}))

RemoveShare(list, path) == {e \in list : e.path # path}

\* applyMounts: what is unmounted must be there, then each mount in turn.
applyMounts(list, add, remove) ==
    LET left == {e \in list : \A p \in remove : e \in RemoveShare(list, p)}
        after[i \in 0 .. Len(add)] ==
            IF i = 0 THEN left
            ELSE IF after[i - 1] = Refused THEN Refused
            ELSE AddShare(after[i - 1], add[i])
        out == after[Len(add)]
    IN  IF (\E p \in remove : \A e \in list : e.path # p) \/ out = Refused THEN Refused
        ELSE capped(kept(out))

--------------------------------------------------------------------------
(* What the guest sees. *)

\* The mode of a path in the guest is that of the innermost share above it.
access(shares, path) ==
    LET above == {s \in shares : IsPrefix(s.path, path)}
    IN  {s.ro : s \in {s \in above : \A t \in above : Len(t.path) <= Len(s.path)}}

\* A path whose innermost and outermost shares have one mode, and a share in
\* between the other: a read-only hole in a writable tree with a writable
\* directory in it.
holed(shares, path) ==
    LET above == {s \in shares : IsPrefix(s.path, path)}
        outermost == {s \in above : \A t \in above : Len(s.path) <= Len(t.path)}
    IN  /\ {s.ro : s \in outermost} = access(shares, path)
        /\ \E h \in above : h.ro \notin access(shares, path)

\* The share NormaliseShares drops as redundant is there through its parent,
\* but not always with its mode: a path keeps the mode of the innermost share
\* asked for, a read-only hole in a writable tree included, except in a hole
\* that has a share of the tree's mode in it, where it gets the hole's.
NormaliseKeepsAccess(in, paths) ==
    LET out == NormaliseShares(in) IN
    out # Refused =>
        \A p \in paths : access(out, p) # access(firstOf(in), p) <=> holed(firstOf(in), p)

\* A share asked for is kept or lies in a kept one of its mode, whatever lies
\* in between, and a set that was normalised once stays as it is.
AskedIsShared(in) ==
    LET out == NormaliseShares(in) IN
    out # Refused =>
        /\ out \subseteq firstOf(in)
        /\ \A s \in firstOf(in) \ out : \E p \in out : isUnder(s.path, p.path) /\ p.ro = s.ro
        /\ kept(out) = out

\* A path mounted by jm set has the mode asked for, unless it lies in a hole
\* of the other mode in a tree of its own; an unmounted one has no share of its
\* own; and no path outside them changes.
MountTakesEffect(list, s, remove, paths) ==
    LET out == applyMounts(list, <<s>>, remove)
        asked == {e \in list : e.path \notin remove \cup {s.path}} \cup {s}
    IN  out # Refused =>
            /\ access(out, s.path) = {s.ro} <=> ~holed(asked, s.path)
            /\ \A p \in remove \ {s.path} : \A e \in out : e.path # p
            /\ \A p \in paths : (\A x \in remove \cup {s.path} : ~IsPrefix(x, p))
                 => access(out, p) = access(list, p)

=============================================================================
