---------------------------- MODULE MCMeterQueue ----------------------------
(***************************************************************************)
(* Instances of the queue and its meters for TLC.                          *)
(***************************************************************************)
EXTENDS MeterQueue, TLC

CONSTANTS u1, h1, h2, m1, m2

OneEach == <<1, 1>>
TwoMeters == h1 :> m1 @@ h2 :> m2
\* A usage of the next day.
Tomorrow == [u \in Usages |-> 1]

=============================================================================
