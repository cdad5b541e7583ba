------------------------------ MODULE MCReducer ------------------------------
(***************************************************************************)
(* Instances of the Reducer for TLC.                                       *)
(***************************************************************************)
EXTENDS ReducerInvariant, TLC

CONSTANTS c1, c2, c3, u1, u2, u3, g1, g2, org, consumer1, consumer2

Symmetric == Permutations(Calls)

\* The aggregator: two consumers of one organization, reduced under its lock.
AggregatorGroupOf == u1 :> g1 @@ u2 :> g1 @@ u3 :> g2
AggregatorKeysOf == g1 :> {org, consumer1} @@ g2 :> {org, consumer2}
AggregatorLockOf == g1 :> org @@ g2 :> org

\* The accumulator: the usages of one resource instance, in one group.
AccumulatorGroupOf == [u \in Usages |-> g1]
AccumulatorKeysOf == g1 :> {consumer1}
AccumulatorLockOf == g1 :> consumer1

\* Two periods of one month; or the last period of a month and two of the next.
OneMonth == 0 :> 0 @@ 1 :> 0
TwoMonths == 0 :> 0 @@ 1 :> 1 @@ 2 :> 1

AllCurrent == [u \in Usages |-> 0]
OneLate == [u \in Usages |-> IF u = u1 THEN 0 ELSE 1]

=============================================================================
