---------------------------- MODULE ContinuousUsage ----------------------------
(***************************************************************************)
(* What the Sampler promises of a continuous usage (doc/sampler.md),       *)
(* whatever happens to its processes: it runs from one time until another, *)
(* is charged for while it runs and after it has been stopped, and is      *)
(* settled once, when every window has been charged with exactly the part  *)
(* of the usage that lies in it.  From then on its charge does not change. *)
(***************************************************************************)
EXTENDS Sampling

CONSTANT Usages

VARIABLES
    phase,     \* "none", "running", "stopped" or "settled"
    from,      \* when it was started
    until,     \* when it was stopped
    charged,   \* what is charged for it in each window
    excused    \* metering has refused usages of it: no promise is made

vars == <<phase, from, until, charged, excused>>

Init ==
    /\ phase = [u \in Usages |-> "none"]
    /\ from = [u \in Usages |-> None]
    /\ until = [u \in Usages |-> None]
    /\ charged = [u \in Usages |-> [b \in Boundary |-> 0]]
    /\ excused = [u \in Usages |-> FALSE]

Start(u) ==
    /\ phase[u] = "none"
    /\ phase' = [phase EXCEPT ![u] = "running"]
    /\ \E t \in Time : from' = [from EXCEPT ![u] = t]
    /\ UNCHANGED <<until, charged, excused>>

Stop(u) ==
    /\ phase[u] = "running"
    /\ phase' = [phase EXCEPT ![u] = "stopped"]
    /\ \E t \in Time : until' = [until EXCEPT ![u] = t]
    /\ UNCHANGED <<from, charged, excused>>

\* Charging changes one window, and not after the usage was settled.
Charge(u) ==
    /\ phase[u] \in {"running", "stopped"} \/ excused[u]
    /\ \E b \in Boundary, d \in -Horizon .. Horizon :
          charged' = [charged EXCEPT ![u][b] = @ + d]
    /\ UNCHANGED <<phase, from, until, excused>>

Exact(u) == \A b \in Boundary : charged[u][b] = Share(from[u], until[u], b)

Settle(u) ==
    /\ phase[u] = "stopped"
    /\ Exact(u) \/ excused[u]
    /\ phase' = [phase EXCEPT ![u] = "settled"]
    /\ UNCHANGED <<from, until, charged, excused>>

Excuse(u) ==
    /\ excused' = [excused EXCEPT ![u] = TRUE]
    /\ UNCHANGED <<phase, from, until, charged>>

Next == \E u \in Usages : Start(u) \/ Stop(u) \/ Charge(u) \/ Settle(u) \/ Excuse(u)

Spec == Init /\ [][Next]_vars

=============================================================================
