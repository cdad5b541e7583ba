------------------------------ MODULE MCSampler ------------------------------
(***************************************************************************)
(* Instances of the Sampler for TLC: model values, and the events clients  *)
(* send in each of them.                                                   *)
(***************************************************************************)
EXTENDS SamplerInvariant, TLC

CONSTANTS s1, s2, h1, h2, w1, w2, org, a, b, c, d

Symmetric == Permutations(SpanIds) \cup Permutations(Workers) \cup Permutations(Handlers)

Start(time, id) == [kind |-> "start", target |-> org, time |-> time, id |-> id]
Stop(time, id) == [kind |-> "stop", target |-> org, time |-> time, id |-> id]

\* A stop that may arrive long after its timestamp.
LateStop == {Start(1, a), Stop(2, b)}

\* A usage that is updated: stopped, and started again at the same time.
Update == {Start(1, a), Stop(3, b), Start(3, c)}

\* Two clients stop a usage; one of them starts it again later.
TwoStops == {Start(1, a), Stop(2, b), Stop(2, c), Start(3, d)}

\* A usage is stopped and started again later.
Restart == {Start(1, a), Stop(2, b), Start(3, c)}

\* A stop that may arrive before its timestamp.
EarlyStop == {Start(1, a), Stop(5, b)}

=============================================================================
