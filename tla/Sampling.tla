------------------------------- MODULE Sampling -------------------------------
(***************************************************************************)
(* The sampling algorithm of the Sampler worker                            *)
(* (lib/sampler/worker/src/lib/sampling.js): how the time line is cut into *)
(* windows of the sampling dimension, and which interval a span is sampled *)
(* over next.                                                              *)
(*                                                                         *)
(* Time is a number of milliseconds since the epoch in the code, a number  *)
(* of ticks up to Horizon here.  A window is named by the time it starts   *)
(* at.  Windows need not have the same length: the dimension may be        *)
(* 'month' as well as 'day'.                                               *)
(***************************************************************************)
EXTENDS Integers

CONSTANTS
    Horizon,   \* no clock and no event goes beyond this time
    Boundary,  \* the times windows start at
    None       \* a field or a parameter that is null or undefined

Time == 0 .. Horizon

\* What a window boundary is: every time is in a window, and every window but
\* the last one before Horizon has a next one.
ASSUME HorizonAssumption == Horizon \in Nat

ASSUME BoundaryAssumption ==
    /\ Boundary \subseteq Time
    /\ \A t \in Time : \E b \in Boundary :
           b <= t /\ \A c \in Boundary : c <= t => c <= b
    /\ \A t \in Time : t < Horizon => \E b \in Boundary :
           t < b /\ \A c \in Boundary : t < c => b <= c

ASSUME NoneAssumption == None \notin Int

-----------------------------------------------------------------------------

\* moment.utc(t).startOf(dimension): the start of the window t lies in.
StartOf(t) == CHOOSE b \in Boundary : b <= t /\ \A c \in Boundary : c <= t => c <= b

\* moment.utc(t).startOf(dimension).add(1, dimension): the start of the next one.
NextStart(t) == CHOOSE b \in Boundary : t < b /\ \A c \in Boundary : t < c => b <= c

\* Mutant: the window need not be over.
NotBefore(t) == t

\* moment.utc(t).subtract(1, dimension): the same place in the window before,
\* or the last tick of that window when it is too short to have that place.
\* Before the first window of the model there is nothing to look up.
OneWindowBefore(t) ==
    LET s == StartOf(t) IN
    IF s = 0
    THEN -1
    ELSE LET moved == StartOf(s - 1) + (t - s)
         IN  IF moved < s THEN moved ELSE s - 1

-----------------------------------------------------------------------------

\* Windows as the algorithm sees them going forward contain their start and not
\* their end, and going backward their end and not their start.
SameWindowGoingForward(last, end) == StartOf(last) = StartOf(end)
SameWindowGoingBackward(last, end) == StartOf(last - 1) = StartOf(end - 1)

\* Mutant: the way is taken in one interval, whatever the windows.
TowardStraight(last, end) == end

\* One step from last in the direction of end, up to the next boundary.
Toward(last, end) ==
    CASE last = end -> last
      [] last < end /\ SameWindowGoingForward(last, end) -> end
      [] last < end /\ ~SameWindowGoingForward(last, end) -> NextStart(last)
      [] last > end /\ SameWindowGoingBackward(last, end) -> end
      [] last > end /\ ~SameWindowGoingBackward(last, end) -> StartOf(last - 1)

\* calculateNextIntervalEnd: the code tests !spanEnd, which is true of null,
\* of undefined and of the time 0.
NextIntervalEnd(last, end) ==
    IF end \in {None, 0} THEN NextStart(last) ELSE Toward(last, end)

\* The timestamp of the usage posted for an interval is its midpoint.
Midpoint(from, to) == (from + to) \div 2

-----------------------------------------------------------------------------

\* The signed length of what lies of the interval from..to within window b:
\* the reference the bill of a continuous usage is measured against.
Clip(t, b) ==
    CASE t <= b -> b
      [] t > b /\ t <= NextStart(b) -> t
      [] t > b /\ t > NextStart(b) -> NextStart(b)
Share(from, to, b) == Clip(to, b) - Clip(from, b)

\* No window boundary lies strictly between two times, in either order.
NoBoundaryBetween(x, y) ==
    \A b \in Boundary : ~(x < b /\ b < y) /\ ~(y < b /\ b < x)

=============================================================================
