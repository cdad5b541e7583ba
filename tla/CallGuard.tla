----------------------------- MODULE CallGuard -----------------------------
(***************************************************************************)
(* The functions that the clients of databases and services are wrapped    *)
(* in, as in throttle(retry(breaker(f))): a limit of calls that run and a  *)
(* queue (utils/throttle), repeated attempts (utils/retry) and a circuit   *)
(* breaker (utils/breaker) with a timeout, which opens by the statistics   *)
(* of the calls of a time window (utils/perf).                             *)
(*                                                                         *)
(* Times are ages in ticks, up to Old, so that the clock has no bound.     *)
(***************************************************************************)
EXTENDS Integers, Sequences, FiniteSets, SequencesExt

CONSTANTS Calls,        \* the calls of the application
          MaxRunning,   \* throttle: the largest limit of calls that run
          MaxRetries,      \* retry: attempts after the first
          Threshold,    \* breaker: calls before the statistics matter
          ErrorPercent, \* breaker: the error rate that trips the circuit
          ResetTicks,   \* breaker: how long an open circuit is left alone
          TimeoutTicks, \* breaker: when an attempt has timed out
          Buckets       \* perf: ticks of the window

ASSUME CallGuardAssumption ==
    /\ MaxRunning \in Nat \ {0}
    /\ MaxRetries \in Nat
    /\ ResetTicks \in Nat /\ TimeoutTicks \in Nat \ {0}
    /\ Buckets \in Nat \ {0}

VARIABLES
    limit,       \* throttle: the limit, from the environment
    running,     \* throttle: the count of running calls
    waiting,     \* throttle: the queue
    call,        \* where each call is
    circuit,     \* breaker: closed, open or half-open
    sinceOpen,   \* breaker: the age of optime
    counts,      \* perf: counts of the last ticks, the newest first
    reported,    \* perf: the circuit as last reported
    late,        \* attempts that have timed out and still run
    sinceProbe   \* history: the age of the last test call

throttleVars == <<limit, running, waiting>>
breakerVars == <<circuit, sinceOpen, counts, reported, late, sinceProbe>>
guardVars == <<throttleVars, call, breakerVars>>

Old == (IF TimeoutTicks > ResetTicks THEN TimeoutTicks ELSE ResetTicks) + 1

Older(age) == IF age < Old THEN age + 1 ELSE Old

NewCall == [at |-> "new", attempts |-> 0, age |-> 0, probe |-> FALSE,
            answers |-> 0]

NoCounts == [ok |-> 0, bad |-> 0]

EmptyWindow == [i \in 1 .. Buckets |-> NoCounts]

GuardInit ==
    /\ limit \in 1 .. MaxRunning
    /\ running = 0
    /\ waiting = <<>>
    /\ call = [c \in Calls |-> NewCall]
    /\ circuit = "closed"
    /\ sinceOpen = Old
    /\ counts = EmptyWindow
    /\ reported = "closed"
    /\ late = [c \in Calls |-> 0]
    /\ sinceProbe = Old

-----------------------------------------------------------------------------
(***************************************************************************)
(* throttle.                                                               *)
(***************************************************************************)
Invoke(c) ==
    /\ call[c].at = "new"
    /\ IF running = limit
       THEN /\ call' = [call EXCEPT ![c].at = "queued"]
            /\ waiting' = Append(waiting, c)
            /\ UNCHANGED running
       ELSE /\ call' = [call EXCEPT ![c].at = "attempt"]
            /\ running' = running + 1
            /\ UNCHANGED waiting
    /\ UNCHANGED <<limit, breakerVars>>

\* The queued call is run in a later turn of the event loop.
RunQueued(c) ==
    /\ call[c].at = "scheduled"
    /\ call' = [call EXCEPT ![c].at = "attempt"]
    /\ UNCHANGED <<throttleVars, breakerVars>>

Answered(c) == [call[c] EXCEPT !.at = "answered", !.answers = @ + 1]

\* A mutant: the slot of an answered call is freed and handed over.
HandOverAndFree(c) ==
    /\ running' = running - 1
    /\ waiting' = IF waiting = <<>> THEN waiting ELSE Tail(waiting)
    /\ call' = [d \in Calls |->
                  CASE d = c -> Answered(c)
                    [] waiting # <<>> /\ d = waiting[1] ->
                         [call[d] EXCEPT !.at = "scheduled"]
                    [] OTHER -> call[d]]

\* A mutant: no queued call is run in its place.
CallBackOnly(c) ==
    /\ call' = [call EXCEPT ![c] = Answered(c)]
    /\ running' = running - 1
    /\ UNCHANGED waiting

\* The caller is called back; the slot of its call passes to the next.
CallBack(c) ==
    IF waiting = <<>>
    THEN /\ call' = [call EXCEPT ![c] = Answered(c)]
         /\ running' = running - 1
         /\ UNCHANGED waiting
    ELSE /\ call' = [call EXCEPT ![c] = Answered(c),
                                 ![Head(waiting)].at = "scheduled"]
         /\ waiting' = Tail(waiting)
         /\ UNCHANGED running

-----------------------------------------------------------------------------
(***************************************************************************)
(* retry.                                                                  *)
(***************************************************************************)
AttemptFailed(c) ==
    IF call[c].attempts < MaxRetries
    THEN /\ call' = [call EXCEPT ![c].at = "backoff", ![c].probe = FALSE,
                                 ![c].age = 0, ![c].attempts = @ + 1]
         /\ UNCHANGED <<running, waiting>>
    ELSE CallBack(c)

BackedOff(c) ==
    /\ call[c].at = "backoff"
    /\ call' = [call EXCEPT ![c].at = "attempt"]
    /\ UNCHANGED <<throttleVars, breakerVars>>

-----------------------------------------------------------------------------
(***************************************************************************)
(* perf: the result of a call is added to the newest bucket, with the      *)
(* circuit as it was when the call was made.                               *)
(***************************************************************************)
CircuitOf(c) == IF call[c].probe THEN "half-open" ELSE "closed"

Count(result) == counts' = [counts EXCEPT ![1][result] = @ + 1]

TotalOf(result) == FoldSeq(LAMBDA bucket, sum : bucket[result] + sum, 0, counts)

UnderErrorRate ==
    LET ok == TotalOf("ok")
        bad == TotalOf("bad")
    IN  ok + bad < Threshold \/ 100 * bad < ErrorPercent * (ok + bad)

(***************************************************************************)
(* breaker.                                                                *)
(***************************************************************************)
StartCall(c, probe) ==
    call' = [call EXCEPT ![c].at = "calling", ![c].age = 0, ![c].probe = probe]

CallThrough(c) ==
    /\ call[c].at = "attempt"
    /\ circuit = "closed"
    /\ UnderErrorRate
    /\ StartCall(c, FALSE)
    /\ UNCHANGED <<throttleVars, breakerVars>>

TestCall(c) ==
    /\ call[c].at = "attempt"
    /\ circuit = "open"
    /\ sinceOpen > ResetTicks
    /\ circuit' = "half-open"
    /\ sinceProbe' = 0
    /\ StartCall(c, TRUE)
    /\ UNCHANGED <<throttleVars, sinceOpen, counts, reported, late>>

\* The circuit trips, is open, or is half-open with its test call under way.
FailFast(c) ==
    /\ call[c].at = "attempt"
    /\ \/ /\ circuit = "closed"
          /\ ~UnderErrorRate
          /\ circuit' = "open"
          /\ sinceOpen' = 0
       \/ /\ circuit = "open" /\ sinceOpen <= ResetTicks
          /\ UNCHANGED <<circuit, sinceOpen>>
       \/ /\ circuit = "half-open"
          /\ UNCHANGED <<circuit, sinceOpen>>
    /\ Count("bad")
    /\ reported' = circuit'
    /\ AttemptFailed(c)
    /\ UNCHANGED <<limit, late, sinceProbe>>

\* A mutant: the circuit opens again as of the time when it tripped.
ReopenedOld(c) ==
    IF call[c].probe
    THEN circuit' = "open" /\ UNCHANGED sinceOpen
    ELSE UNCHANGED <<circuit, sinceOpen>>

\* A failed test call opens the circuit as of the time it was made.
Reopened(c) ==
    IF call[c].probe
    THEN circuit' = "open" /\ sinceOpen' = call[c].age
    ELSE UNCHANGED <<circuit, sinceOpen>>

\* A mutant: the statistics are kept.
ClosedOnly(c) ==
    IF call[c].probe
    THEN /\ circuit' = "closed"
         /\ reported' = "half-open"
         /\ Count("ok")
    ELSE /\ Count("ok")
         /\ reported' = "closed"
         /\ UNCHANGED circuit

\* A test call that succeeds closes the circuit and resets its statistics.
Closed(c) ==
    IF call[c].probe
    THEN /\ circuit' = "closed"
         /\ counts' = EmptyWindow
         /\ reported' = "closed"
    ELSE /\ Count("ok")
         /\ reported' = "closed"
         /\ UNCHANGED circuit

Succeeds(c) ==
    /\ call[c].at = "calling"
    /\ Closed(c)
    /\ CallBack(c)
    /\ UNCHANGED <<limit, sinceOpen, late, sinceProbe>>

FailsWithError(c) ==
    /\ call[c].at = "calling"
    /\ Count("bad")
    /\ reported' = CircuitOf(c)
    /\ Reopened(c)
    /\ AttemptFailed(c)
    /\ UNCHANGED <<limit, late, sinceProbe>>

\* An error that is neither retried nor counted, as that of a conflict.
FailsForGood(c) ==
    /\ call[c].at = "calling"
    /\ Count("ok")
    /\ reported' = CircuitOf(c)
    /\ Reopened(c)
    /\ CallBack(c)
    /\ UNCHANGED <<limit, late, sinceProbe>>

TimesOut(c) ==
    /\ call[c].at = "calling"
    /\ call[c].age >= TimeoutTicks
    /\ Count("bad")
    /\ reported' = CircuitOf(c)
    /\ late' = [late EXCEPT ![c] = @ + 1]
    /\ Reopened(c)
    /\ AttemptFailed(c)
    /\ UNCHANGED <<limit, sinceProbe>>

\* A mutant: the answer is not compared with the timeout.
LateDelivered(c) ==
    /\ late[c] > 0
    /\ late' = [late EXCEPT ![c] = @ - 1]
    /\ CallBack(c)
    /\ UNCHANGED <<limit, circuit, sinceOpen, counts, reported, sinceProbe>>

\* An attempt that had timed out answers: it is ignored.
AnswersLate(c) ==
    /\ late[c] > 0
    /\ late' = [late EXCEPT ![c] = @ - 1]
    /\ UNCHANGED <<throttleVars, call, circuit, sinceOpen, counts, reported,
                   sinceProbe>>

GuardTick ==
    /\ call' = [c \in Calls |-> IF call[c].at = "calling"
                                THEN [call[c] EXCEPT !.age = Older(@)]
                                ELSE call[c]]
    /\ sinceOpen' = Older(sinceOpen)
    /\ sinceProbe' = Older(sinceProbe)
    /\ counts' = <<NoCounts>> \o SubSeq(counts, 1, Buckets - 1)
    /\ UNCHANGED <<limit, running, waiting, circuit, reported, late>>

GuardStep(c) ==
    \/ RunQueued(c) \/ BackedOff(c)
    \/ CallThrough(c) \/ TestCall(c) \/ FailFast(c)

GuardNext ==
    \/ \E c \in Calls :
          \/ Invoke(c) \/ GuardStep(c)
          \/ Succeeds(c) \/ FailsWithError(c) \/ FailsForGood(c)
          \/ TimesOut(c) \/ AnswersLate(c)
    \/ GuardTick

GuardSpec == GuardInit /\ [][GuardNext]_guardVars

\* The event loop runs what is due and time passes; the function that is
\* called may never answer.
GuardFairness ==
    /\ WF_guardVars(GuardTick)
    /\ \A c \in Calls : WF_guardVars(GuardStep(c)) /\ WF_guardVars(TimesOut(c))

-----------------------------------------------------------------------------
Holds(c) == call[c].at \notin {"new", "queued", "answered"}

\* The limit of running calls is kept and its slots are not lost: the counter
\* is the calls that hold a slot, and calls wait only if all slots are taken.
SlotsAreHeld ==
    /\ running = Cardinality({c \in Calls : Holds(c)})
    /\ running <= limit
    /\ waiting # <<>> => running = limit
    /\ ToSet(waiting) = {c \in Calls : call[c].at = "queued"}

\* A caller is called back once, though its attempts time out and answer
\* later, are repeated, or fail fast.
CalledBackOnce == \A c \in Calls : call[c].answers <= 1

\* What perf reports as open is open, and a half-open circuit has one test
\* call: an application whose circuits are closed is not reported unhealthy.
CircuitIsReported ==
    /\ reported # "closed" => circuit # "closed"
    /\ Cardinality({c \in Calls : call[c].at = "calling" /\ call[c].probe})
          = IF circuit = "half-open" THEN 1 ELSE 0

\* An open circuit is left alone: a test call is made only when the last
\* one was made more than the reset time ago, whatever became of it.
TestCallsAreSpaced ==
    [][\A c \in Calls : TestCall(c) => sinceProbe > ResetTicks]_guardVars

\* Every call that is made is called back in the end: each is made once, so no
\* call stays between the two for ever.
EveryCallBack == <>[](\A c \in Calls : call[c].at \in {"new", "answered"})

-----------------------------------------------------------------------------
(***************************************************************************)
(* The inductive invariant of the guarded calls.                           *)
(***************************************************************************)
Circuits == {"closed", "open", "half-open"}

CallSteps ==
    {"new", "queued", "scheduled", "attempt", "calling", "backoff", "answered"}

CallRecord ==
    [at : CallSteps, attempts : 0 .. MaxRetries, age : 0 .. Old, probe : BOOLEAN,
     answers : Nat]

\* The types of throttle, breaker and perf.
GuardTypeOK ==
    /\ limit \in 1 .. MaxRunning /\ running \in Nat /\ waiting \in Seq(Calls)
    /\ call \in [Calls -> CallRecord]
    /\ circuit \in Circuits /\ reported \in Circuits
    /\ sinceOpen \in 0 .. Old /\ sinceProbe \in 0 .. Old
    /\ counts \in [1 .. Buckets -> [ok : Nat, bad : Nat]]
    /\ late \in [Calls -> Nat]

\* The calls that hold a slot, and the call that tests the circuit.
Holding == {c \in Calls : Holds(c)}
IsTest(c) == call[c].at = "calling" /\ call[c].probe

\* A call waits in one place of the queue, and only while all slots are taken.
SlotsInv ==
    /\ IsFiniteSet(Holding) /\ running = Cardinality(Holding)
    /\ running <= limit
    /\ waiting # <<>> => running = limit
    /\ \A i, j \in 1 .. Len(waiting) : waiting[i] = waiting[j] => i = j
    /\ \A c \in Calls :
          call[c].at = "queued" <=> \E i \in 1 .. Len(waiting) : waiting[i] = c

\* A call that has been called back is at its end.
AnswersInv ==
    \A c \in Calls : call[c].answers = IF call[c].at = "answered" THEN 1 ELSE 0

\* A circuit is half-open as long as its test call is under way.
CircuitInv ==
    /\ reported # "closed" => circuit # "closed"
    /\ \A c \in Calls : IsTest(c) => circuit = "half-open"
    /\ circuit = "half-open" => \E c \in Calls : IsTest(c)
    /\ \A c, d \in Calls : IsTest(c) /\ IsTest(d) => c = d

\* An open circuit is not older than its last test call, nor is that call.
AgesInv ==
    /\ circuit = "open" => sinceOpen <= sinceProbe
    /\ \A c \in Calls : IsTest(c) => call[c].age <= sinceProbe

GuardInv == GuardTypeOK /\ SlotsInv /\ AnswersInv /\ CircuitInv /\ AgesInv
=============================================================================
