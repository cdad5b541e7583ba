----------------------------- MODULE CarryOver -----------------------------
(***************************************************************************)
(* What the bridges and the renewer share: the clock, the carry-over       *)
(* database (utils/carryover) with one document for each resource, plan    *)
(* and month, and the usage that Abacus has accumulated from their reports *)
(* (utils/client and all that is behind the collector).                    *)
(*                                                                         *)
(* Cloud Foundry dates events in seconds, Abacus counts milliseconds. A    *)
(* tick of the clock is a second here and Gap milliseconds long; an event  *)
(* is never dated to the first millisecond of a month, which is the time   *)
(* of the usage that the renewer reports.                                  *)
(***************************************************************************)
EXTENDS Integers, FiniteSets, FiniteSetsExt

CONSTANTS Resources,     \* applications and service instances
          Plans,
          Horizon,       \* bound: the last tick
          MonthTicks,    \* ticks of a month
          Gap,           \* milliseconds of a tick, more than are ever added
          NoDoc          \* no document

ASSUME CarryOverAssumption ==
    /\ Horizon \in Nat
    /\ MonthTicks \in Nat \ {0}
    /\ Gap \in Nat \ {0, 1}
    /\ NoDoc \notin Plans
    /\ NoDoc \notin [guid : Nat, state : {"CREATED", "DELETED"}, time : Nat]

MonthLength == MonthTicks * Gap
MonthOf(time) == time \div MonthLength
StartOf(month) == month * MonthLength

VARIABLES now,           \* the tick
          carry,         \* the carry-over database, by key
          ledger,        \* the usage that has been accumulated
          supported      \* the resources whose account has a supported license

carryVars == <<now, carry, ledger, supported>>

Months == 0 .. MonthOf(Horizon * Gap)
Month == MonthOf(now * Gap)

Key == Resources \X Plans \X Months

BuildKey(usage) == <<usage.res, usage.plan, MonthOf(usage.time)>>

ResourceInfo(usage, guid) ==
    [guid |-> guid, state |-> usage.state, time |-> usage.time]

CarryOverInit ==
    /\ now = 0
    /\ carry = [k \in Key |-> NoDoc]
    /\ ledger = {}
    /\ supported \in [Resources -> BOOLEAN]

Tick ==
    /\ now < Horizon
    /\ now' = now + 1

(***************************************************************************)
(* The database: a document that was read is updated whatever became of it *)
(* since; one that was not found is inserted, which fails if it exists by  *)
(* then.                                                                   *)
(***************************************************************************)
\* A mutant: a document that was not found is inserted whatever is there.
PutAnyway(found, key) == FALSE

Stored(key) == IF key \in Key THEN carry[key] ELSE NoDoc

PutConflicts(found, key) == found = NoDoc /\ Stored(key) # NoDoc

Put(key, doc) == carry' = [carry EXCEPT ![key] = doc]

\* A mutant: an event that is repeated is not told from another.
AdjustAlways(usage, guid) ==
    LET stored == Stored(BuildKey(usage))
    IN  IF stored # NoDoc /\ stored.time >= usage.time
        THEN [usage EXCEPT !.time = stored.time + 1]
        ELSE usage

\* Another event of the resource at the same time or later moves a usage
\* one millisecond behind it; an event seen again is not moved.
AdjustTimestamp(usage, guid) ==
    LET stored == Stored(BuildKey(usage))
    IN  IF stored # NoDoc /\ stored.guid # guid /\ stored.time >= usage.time
        THEN [usage EXCEPT !.time = stored.time + 1]
        ELSE usage

(***************************************************************************)
(* A report that is accepted is accumulated, unless the accumulator has    *)
(* usage of the same resource, plan and time: it takes that for a          *)
(* duplicate. What it adds is one instance more or one less.               *)
(***************************************************************************)
Instances(usage) == IF usage.state = "CREATED" THEN 1 ELSE -1

Accumulate(usage) ==
    LET sameTime(u) == /\ u.res = usage.res
                       /\ u.plan = usage.plan
                       /\ u.time = usage.time
    IN  ledger' = IF \E u \in ledger : sameTime(u)
                  THEN ledger
                  ELSE ledger \cup {[res |-> usage.res, plan |-> usage.plan,
                                     time |-> usage.time,
                                     adds |-> Instances(usage)]}

Running(res, plan, month) ==
    LET of == {u \in ledger : /\ u.res = res
                              /\ u.plan = plan
                              /\ MonthOf(u.time) = month}
    IN  MapThenSumSet(LAMBDA u : u.adds, of)

Renewed(res, plan, month) ==
    \E u \in ledger : /\ u.res = res
                      /\ u.plan = plan
                      /\ u.time = StartOf(month)
=============================================================================
