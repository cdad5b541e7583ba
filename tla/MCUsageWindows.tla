---------------------------- MODULE MCUsageWindows ----------------------------
(***************************************************************************)
(* Three instances of one plan, two of them in one space, for TLC.         *)
(***************************************************************************)
EXTENDS UsageWindows, TLC

CONSTANTS i1, i2, i3, s1, s2, lisa, bart, maggie, p1

TwoSpaces == i1 :> s1 @@ i2 :> s2 @@ i3 :> s1
ThreeConsumers == i1 :> lisa @@ i2 :> bart @@ i3 :> maggie
OnePlan == [i \in Instances |-> p1]
=============================================================================
