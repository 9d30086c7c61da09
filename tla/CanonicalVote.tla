----------------------------- MODULE CanonicalVote -----------------------------
(***************************************************************************)
(* The choice of the canonical tip (explorer/telemetry.go: canonical).     *)
(* The polled nodes vote with their (height, hash) pair; the votes are     *)
(* counted in a Go map, and a range over a Go map visits the keys in an    *)
(* order that differs from run to run.  Here every order is a behaviour.   *)
(*                                                                         *)
(* A hash is a natural number: only its order matters, and 0 stands for    *)
(* the empty string, which is smaller than every hash.                     *)
(*                                                                         *)
(* Definitions whose name starts with Slip are wrong variants of the       *)
(* definition that follows them, used to test the properties.              *)
(***************************************************************************)
EXTENDS Integers, FiniteSets

CONSTANTS
    Voter,      \* nodes that are online and not in state ERROR
    Key         \* the (height, hash) pairs a node can report

ASSUME ConstantsAssumption ==
    /\ IsFiniteSet(Voter)
    /\ Key \subseteq [h : Nat, hash : Nat \ {0}]

VARIABLES
    tip,        \* tip[n]: what voter n reported
    left,       \* the keys the range has not visited yet
    best, votes \* the locals of canonical

vars == <<tip, left, best, votes>>

NoKey == [h |-> -1, hash |-> 0]

Count(k) == Cardinality({ n \in Voter : tip[n] = k })
Counted == { tip[n] : n \in Voter }

Init ==
    /\ tip \in [Voter -> Key]
    /\ left = Counted
    /\ best = NoKey
    /\ votes = -1

\* More votes, then the higher tip, then the smaller hash.
SlipBeats(c, k) == c > votes \/ (c = votes /\ k.h > best.h)
Beats(c, k) ==
    \/ c > votes
    \/ c = votes /\ k.h > best.h
    \/ c = votes /\ k.h = best.h /\ k.hash < best.hash

Visit(k) ==
    /\ k \in left
    /\ left' = left \ {k}
    /\ IF Beats(Count(k), k)
       THEN best' = k /\ votes' = Count(k)
       ELSE UNCHANGED <<best, votes>>
    /\ UNCHANGED tip

Next == \E k \in Key : Visit(k)

Spec == Init /\ [][Next]_vars

-------------------------------------------------------------------------------
(* Properties *)

\* What a vote should elect, in no order at all: no other tip has more voters,
\* or as many and a greater height, or as many, the same height and a smaller
\* hash.
Elected(k) ==
    /\ k \in Counted
    /\ \A o \in Counted :
         \/ Count(o) < Count(k)
         \/ Count(o) = Count(k) /\ o.h < k.h
         \/ Count(o) = Count(k) /\ o.h = k.h /\ k.hash <= o.hash

\* canonical returns the elected tip, or (-1, "") when nobody votes.
ReturnsElected ==
    left = {} => IF Voter = {} THEN best = NoKey ELSE Elected(best)

\* "deterministic tie handling": there is one elected tip, so every order of
\* the range returns the same one.
OrderFree ==
    \A k \in Key : left = {} /\ Elected(k) => best = k

\* The loop invariant: best is the winner among the keys visited so far.
Visited == Counted \ left

LoopInv ==
    /\ tip \in [Voter -> Key]
    /\ left \subseteq Counted
    /\ votes \in Int
    /\ Visited = {} => best = NoKey /\ votes = -1
    /\ Visited # {} =>
         /\ best \in Visited
         /\ votes = Count(best)
         /\ \A o \in Visited :
              \/ Count(o) < Count(best)
              \/ Count(o) = Count(best) /\ o.h < best.h
              \/ Count(o) = Count(best) /\ o.h = best.h /\ best.hash <= o.hash
===============================================================================
