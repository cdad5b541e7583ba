------------------------------ MODULE MCPlatform ------------------------------
(***************************************************************************)
(* An instance of the platform for TLC.                                    *)
(***************************************************************************)
EXTENDS MCMeterQueue, Platform

CONSTANTS a, b,                           \* calls
          d1, d2, d3, c1, c2,             \* databases
          broker, meter,                  \* plans
          i1, i2, space, lisa, bart, p1, p2, \* windows
          w1, w2, r1                      \* calls between services

\* Two documents of one partition and one of another.
TwoPartitions == d1 :> 0 @@ d2 :> 1 @@ d3 :> 0
TwoMonths == d1 :> 0 @@ d2 :> 1 @@ d3 :> 0
RequestOf(kind, bulk, docs) == [kind |-> kind, bulk |-> bulk, docs |-> docs]
Asked ==
    c1 :> {RequestOf("upsert", TRUE, <<d1, d2, d3>>), RequestOf("remove", FALSE, <<d2>>)} @@
    c2 :> {RequestOf("get", FALSE, <<d1, d2, d3>>), RequestOf("insert", FALSE, <<d2>>),
           RequestOf("scan", TRUE, <<d1, d3, d2>>)}

\* Two types of plan, and the last item of each kind that is stored.
TwoTypes == <<"metering", "rating">>
PlanOrMapping == {<<"plan", "rating">>, <<"mapping", "rating">>}

\* Two instances of one space, of different consumers and plans.
OneSpace == i1 :> space @@ i2 :> space
TwoConsumers == i1 :> lisa @@ i2 :> bart
TwoPlans == i1 :> p1 @@ i2 :> p2

\* Two calls for one resource.
SameResource == w1 :> r1 @@ w2 :> r1
=============================================================================
