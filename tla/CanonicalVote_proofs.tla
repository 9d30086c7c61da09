------------------------- MODULE CanonicalVote_proofs -------------------------
(***************************************************************************)
(* The canonical tip does not depend on the order of Go's range over a     *)
(* map, for every set of nodes and every set of tips.                      *)
(***************************************************************************)
EXTENDS CanonicalVote, FiniteSetTheorems, TLAPS

-------------------------------------------------------------------------------
(* Counting *)

\* The number of votes for a tip is a natural number.
LEMMA CountIsNat ==
    ASSUME NEW k
    PROVE  Count(k) \in Nat
<1>1. { n \in Voter : tip[n] = k } \subseteq Voter
    OBVIOUS
<1>2. IsFiniteSet({ n \in Voter : tip[n] = k })
    BY <1>1, FS_Subset, ConstantsAssumption
<1> QED BY <1>2, FS_CardinalityType DEF Count

\* The step of a range that leaves the nodes' answers alone changes no count.
LEMMA CountUnchanged ==
    ASSUME UNCHANGED tip, NEW k
    PROVE  Count(k)' = Count(k)
BY DEF Count

\* The keys of the map have the two fields that are compared.
LEMMA CountedAreKeys ==
    ASSUME tip \in [Voter -> Key], NEW k \in Counted
    PROVE  k \in Key /\ k.h \in Nat /\ k.hash \in Nat
BY ConstantsAssumption DEF Counted

-------------------------------------------------------------------------------
(* The loop invariant *)

\* Nothing is visited at first.
LEMMA InitLoopInv == Init => LoopInv
BY DEF Init, LoopInv, Visited, NoKey

\* A visited key becomes the best one exactly if it beats all visited before.
LEMMA VisitLoopInv ==
    ASSUME LoopInv, NEW k \in Key, Visit(k)
    PROVE  LoopInv'
<1> USE DEF LoopInv
<1>1. tip' = tip /\ Counted' = Counted
    BY DEF Visit, Counted
<1>2. k \in left /\ left' = left \ {k} /\ k \in Counted
    BY DEF Visit
<1>3. Visited' = Visited \cup {k}
    BY <1>1, <1>2 DEF Visited
<1>4. \A o \in Counted : Count(o)' = Count(o) /\ Count(o) \in Nat /\ o.h \in Nat /\ o.hash \in Nat
    BY <1>1, CountUnchanged, CountIsNat, CountedAreKeys
<1>5. Visited \subseteq Counted
    BY DEF Visited
<1>6. tip' \in [Voter -> Key] /\ left' \subseteq Counted'
    BY <1>1, <1>2
<1>7. CASE Beats(Count(k), k)
    <2>1. best' = k /\ votes' = Count(k)
        BY <1>7 DEF Visit
    <2>2. ASSUME NEW o \in Visited'
          PROVE  \/ Count(o) < Count(k)
                 \/ Count(o) = Count(k) /\ o.h < k.h
                 \/ Count(o) = Count(k) /\ o.h = k.h /\ k.hash <= o.hash
        <3>1. CASE o = k
            BY <3>1, <1>2, <1>4
        <3>2. CASE o # k
            <4>1. o \in Visited /\ best \in Visited /\ votes = Count(best)
                BY <3>2, <1>3
            <4>2. \/ Count(o) < Count(best)
                  \/ Count(o) = Count(best) /\ o.h < best.h
                  \/ Count(o) = Count(best) /\ o.h = best.h /\ best.hash <= o.hash
                BY <4>1
            <4>3. /\ Count(o) \in Nat /\ o.h \in Nat /\ o.hash \in Nat
                  /\ Count(best) \in Nat /\ best.h \in Nat /\ best.hash \in Nat
                  /\ Count(k) \in Nat /\ k.h \in Nat /\ k.hash \in Nat
                BY <4>1, <1>2, <1>4, <1>5
            <4> QED BY <1>7, <4>1, <4>2, <4>3 DEF Beats
        <3> QED BY <3>1, <3>2
    <2>3. Visited' \subseteq Counted /\ k \in Visited'
        BY <1>2, <1>3, <1>5
    <2>4. \A o \in Visited' :
              \/ Count(o)' < Count(best)'
              \/ Count(o)' = Count(best)' /\ o.h < best'.h
              \/ Count(o)' = Count(best)' /\ o.h = best'.h /\ best'.hash <= o.hash
        <3>1. Count(best)' = Count(k)
            BY <1>1, <2>1 DEF Count
        <3>2. \A o \in Visited' : Count(o)' = Count(o)
            BY <1>4, <2>3
        <3> QED BY <2>1, <2>2, <3>1, <3>2
    <2>5. votes' = Count(best)' /\ votes' \in Int
        BY <1>1, <1>2, <1>4, <2>1 DEF Count
    <2> QED BY <1>6, <2>1, <2>3, <2>4, <2>5
<1>8. CASE ~Beats(Count(k), k)
    <2>1. best' = best /\ votes' = votes
        BY <1>8 DEF Visit
    <2>2. Visited # {}
        <3>1. SUFFICES ASSUME Visited = {} PROVE FALSE
            OBVIOUS
        <3>2. votes = -1 /\ Count(k) \in Nat
            BY <3>1, <1>2, <1>4
        <3> QED BY <3>2, <1>8 DEF Beats
    <2>3. best \in Visited /\ votes = Count(best)
        BY <2>2
    <2>4. /\ Count(best) \in Nat /\ best.h \in Nat /\ best.hash \in Nat
          /\ Count(k) \in Nat /\ k.h \in Nat /\ k.hash \in Nat
        BY <2>3, <1>2, <1>4, <1>5
    <2>5. \/ Count(k) < Count(best)
          \/ Count(k) = Count(best) /\ k.h < best.h
          \/ Count(k) = Count(best) /\ k.h = best.h /\ best.hash <= k.hash
        BY <1>8, <2>3, <2>4 DEF Beats
    <2>6. \A o \in Visited' :
              \/ Count(o) < Count(best)
              \/ Count(o) = Count(best) /\ o.h < best.h
              \/ Count(o) = Count(best) /\ o.h = best.h /\ best.hash <= o.hash
        BY <2>2, <2>5, <1>3
    <2>7. /\ Count(best)' = Count(best)
          /\ \A o \in Visited' : Count(o)' = Count(o)
        BY <1>1, <1>2, <1>3, <1>4, <1>5, <2>1, <2>3 DEF Count
    <2>8. best' \in Visited' /\ votes' = Count(best)'
        BY <1>3, <2>1, <2>3, <2>7
    <2>9. \A o \in Visited' :
              \/ Count(o)' < Count(best)'
              \/ Count(o)' = Count(best)' /\ o.h < best'.h
              \/ Count(o)' = Count(best)' /\ o.h = best'.h /\ best'.hash <= o.hash
        BY <2>1, <2>6, <2>7
    <2> QED BY <1>6, <2>1, <2>2, <2>8, <2>9, <1>3
<1> QED BY <1>7, <1>8

\* Stuttering steps change nothing the invariant speaks of.
LEMMA StutterLoopInv ==
    ASSUME LoopInv, UNCHANGED vars
    PROVE  LoopInv'
BY DEF LoopInv, vars, Visited, Counted, Count, NoKey

\* Whatever part of the map has been visited, in whatever order, best is the
\* winner among its keys.
THEOREM LoopInvariant == Spec => []LoopInv
<1>1. LoopInv /\ [Next]_vars => LoopInv'
    BY VisitLoopInv, StutterLoopInv DEF Next
<1> QED BY InitLoopInv, <1>1, PTL DEF Spec

-------------------------------------------------------------------------------
(* The results *)

\* canonical returns the elected tip, for every set of nodes and tips.
THEOREM CanonicalIsElected == Spec => []ReturnsElected
<1>1. LoopInv => ReturnsElected
    <2>1. SUFFICES ASSUME LoopInv, left = {} PROVE ReturnsElected
        BY DEF ReturnsElected
    <2>2. Visited = Counted
        BY <2>1 DEF Visited
    <2>3. Counted = {} <=> Voter = {}
        BY DEF Counted
    <2> QED BY <2>1, <2>2, <2>3 DEF LoopInv, ReturnsElected, Elected
<1> QED BY LoopInvariant, <1>1, PTL

\* There is only one elected tip, so the order of the range cannot show.
THEOREM OrderIrrelevant == Spec => []OrderFree
<1>1. LoopInv => OrderFree
    <2>1. SUFFICES ASSUME LoopInv, left = {}, NEW k \in Key, Elected(k)
                   PROVE  best = k
        BY DEF OrderFree
    <2>2. Visited = Counted /\ k \in Counted
        BY <2>1 DEF Visited, Elected
    <2>3. best \in Counted
        BY <2>1, <2>2 DEF LoopInv
    <2>4. \/ Count(k) < Count(best)
          \/ Count(k) = Count(best) /\ k.h < best.h
          \/ Count(k) = Count(best) /\ k.h = best.h /\ best.hash <= k.hash
        BY <2>1, <2>2 DEF LoopInv
    <2>5. \/ Count(best) < Count(k)
          \/ Count(best) = Count(k) /\ best.h < k.h
          \/ Count(best) = Count(k) /\ best.h = k.h /\ k.hash <= best.hash
        BY <2>1, <2>3 DEF Elected
    <2>6. /\ k \in [h : Nat, hash : Nat \ {0}] /\ best \in [h : Nat, hash : Nat \ {0}]
          /\ Count(k) \in Nat /\ Count(best) \in Nat
        BY <2>1, <2>2, <2>3, CountedAreKeys, CountIsNat, ConstantsAssumption DEF LoopInv
    <2>7. k.h = best.h /\ k.hash = best.hash
        BY <2>4, <2>5, <2>6
    <2> QED BY <2>6, <2>7
<1> QED BY LoopInvariant, <1>1, PTL
===============================================================================
