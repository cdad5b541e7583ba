---------------------------- MODULE ReducerTheorems ----------------------------
(***************************************************************************)
(* What the reducer guarantees for any number of calls, usages, groups,    *)
(* keys, locks and periods, and any number of failures.                    *)
(***************************************************************************)
EXTENDS ReducerInvariant, TLAPS, FiniteSetTheorems, SequenceTheorems, WellFoundedInduction

\* Some period of a set is the last one.
LEMMA LatestExists ==
    ASSUME NEW S \in SUBSET Periods, S # {}
    PROVE  \E p \in S : \A q \in S : q <= p
<1> DEFINE Left == {LastPeriod - p : p \in S}
<1>1. LastPeriod \in Nat /\ \A p \in S : p \in Nat /\ LastPeriod - p \in Nat
  BY PeriodsAssumption DEF Periods
<1>2. Left \subseteq Nat /\ Left # {}
  BY <1>1
<1>3. \E x \in Left : \A y \in Left : ~(<<y, x>> \in OpToRel(<, Nat))
  <2> HIDE DEF Left
  <2> QED BY <1>2, NatLessThanWellFounded, WFMin
<1>4. PICK x \in Left : \A y \in Left : ~(y < x)
  BY <1>2, <1>3 DEF OpToRel
<1>5. PICK p \in S : x = LastPeriod - p
  OBVIOUS
<1>6. ASSUME NEW q \in S
      PROVE  q <= p
  <2>1. LastPeriod - q \in Left /\ ~(LastPeriod - q < x)
    BY <1>4
  <2> QED BY <2>1, <1>1, <1>5
<1> QED BY <1>6

\* The last period of a month in which there is one is a period.
LEMMA LastPeriodOfType ==
    ASSUME NEW month \in Months
    PROVE  LastPeriodOf(month) \in Periods
<1> DEFINE S == {p \in Periods : MonthOf[p] = month}
<1>1. S # {} /\ S \in SUBSET Periods
  BY DEF Months
<1>2. PICK p \in S : \A q \in S : q <= p
  BY <1>1, LatestExists
<1> QED BY <1>2 DEF LastPeriodOf

\* The last document of a month is one of those in the database.
LEMMA LastAccumType ==
    ASSUME OutputTypeOK, NEW k \in Keys, NEW month
    PROVE  LastAccum(k, month) \in LastDoc \cup {None}
<1>1. CASE Found(k, month) = {}
  BY <1>1 DEF LastAccum
<1>2. CASE Found(k, month) # {}
  <2> DEFINE last == CHOOSE p \in Found(k, month) : \A q \in Found(k, month) : q <= p
  <2>1. Found(k, month) \in SUBSET Periods
    BY DEF Found
  <2>2. last \in Found(k, month)
    BY <1>2, <2>1, LatestExists
  <2>3. last \in Periods /\ docs[k][last] \in Sum
    BY <2>2 DEF Found, OutputTypeOK
  <2>4. LastAccum(k, month) = [period |-> last, sum |-> docs[k][last]]
    BY <1>2 DEF LastAccum
  <2> QED BY <2>3, <2>4 DEF LastDoc
<1> QED BY <1>1, <1>2

\* Adding the usages of a list to a document gives a sum.
LEMMA ReducedType ==
    ASSUME NEW doc \in LastDoc \cup {None}, NEW n \in Nat, NEW list \in [1 .. n -> Usages]
    PROVE  Reduced(doc, list) \in Sum
<1> SUFFICES ASSUME NEW u \in Usages
             PROVE  (IF doc = None THEN 0 ELSE doc.sum[u])
                        + Cardinality({i \in DOMAIN list : list[i] = u}) \in Nat
  BY DEF Reduced, Sum
<1>1. (IF doc = None THEN 0 ELSE doc.sum[u]) \in Nat
  BY DEF LastDoc, Sum
<1>2. IsFiniteSet(1 .. n)
  BY FS_Interval
<1>3. {i \in DOMAIN list : list[i] = u} \in SUBSET (1 .. n)
  OBVIOUS
<1>4. Cardinality({i \in DOMAIN list : list[i] = u}) \in Nat
  BY <1>2, <1>3, FS_Subset, FS_CardinalityType
<1> QED BY <1>1, <1>4

-----------------------------------------------------------------------------
(* Steps that move one call, or answer a group.                            *)

\* A call that is being reduced is one that was posted.
LEMMA BusyCall ==
    ASSUME TypeOK, NEW c \in Calls, call[c].at # "idle"
    PROVE  /\ call[c].usage \in Usages /\ call[c].period \in Periods
           /\ call[c].client \in BOOLEAN
           /\ GroupOf[call[c].usage] \in Groups
           /\ KeysOf[GroupOf[call[c].usage]] \subseteq Keys
  BY UsagesAssumption DEF TypeOK, Call, Idle

\* The members of a run are calls, and being reduced; they share the run's group.
LEMMA RunMembers ==
    ASSUME Inv, NEW r \in runs
    PROVE  /\ Members(r) \subseteq Calls
           /\ \A c \in Members(r) : call[c].at = "reducing" /\ call[c].usage \in Usages
           /\ UsagesOf(Members(r)) \subseteq Usages
           /\ r.batch \in Seq(Calls) /\ DOMAIN r.batch = 1 .. Len(r.batch) /\ Len(r.batch) \in Nat
           /\ r.batch[1] \in Members(r) /\ GroupOfRun(r) \in Groups
           /\ KeysOf[GroupOfRun(r)] \subseteq Keys
           /\ r.good \in Nat /\ Good(r) \subseteq Members(r)
           /\ r.good = Len(r.batch) => Good(r) = Members(r)
<1>1. r \in Run /\ r.batch \in Seq(Calls) /\ r.batch # <<>> /\ r.good \in Nat
      /\ r.good <= Len(r.batch)
  BY DEF Inv, TypeOK, RunsInv, Run
<1>2. DOMAIN r.batch = 1 .. Len(r.batch) /\ Len(r.batch) \in Nat /\ Len(r.batch) >= 1
      /\ \A i \in 1 .. Len(r.batch) : r.batch[i] \in Calls
  BY <1>1, LenProperties, EmptySeq, ElementOfSeq
<1>3. Members(r) \subseteq Calls /\ r.batch[1] \in Members(r)
  BY <1>2 DEF Members
<1>4. \A c \in Members(r) : call[c].at = "reducing"
  BY DEF Inv, RunsInv
<1>5. \A c \in Members(r) : /\ call[c].usage \in Usages /\ GroupOf[call[c].usage] \in Groups
                            /\ KeysOf[GroupOf[call[c].usage]] \subseteq Keys
  BY <1>3, <1>4, BusyCall DEF Inv
<1>6. Good(r) \subseteq Members(r) /\ (r.good = Len(r.batch) => Good(r) = Members(r))
  BY <1>1, <1>2 DEF Good, Members
<1> QED BY <1>1, <1>2, <1>3, <1>4, <1>5, <1>6 DEF UsagesOf, GroupOfRun

\* A step that changes no call, queue or run.
LEMMA BatchesUnchanged ==
    ASSUME Inv, UNCHANGED <<call, queue, runs>>
    PROVE  /\ QueueInv' /\ RunsInv'
           /\ \A r \in runs : UsagesOf(Members(r))' = UsagesOf(Members(r))
<1>1. QueueInv'
  BY DEF Inv, QueueInv
<1>2. \A r \in runs : Members(r)' = Members(r)
  BY DEF Members
<1>3. RunsInv'
  BY <1>2 DEF Inv, RunsInv
<1>4. \A r \in runs : UsagesOf(Members(r))' = UsagesOf(Members(r))
  BY <1>2 DEF UsagesOf
<1> QED BY <1>1, <1>3, <1>4

\* A step of one call that is in no batch before or after it disturbs no batch.
LEMMA OneCallMoves ==
    ASSUME Inv, NEW c \in Calls, NEW new \in Call,
           call[c].at \notin {"batched", "reducing"},
           call' = [call EXCEPT ![c] = new],
           UNCHANGED <<queue, runs>>
    PROVE  /\ call' \in [Calls -> Call]
           /\ QueueInv' /\ RunsInv'
           /\ \A r \in runs : UsagesOf(Members(r))' = UsagesOf(Members(r))
<1>1. call \in [Calls -> Call]
  BY DEF Inv, TypeOK
<1>2. \A d \in Calls : call[d].at \in {"batched", "reducing"} => call'[d] = call[d]
  BY <1>1
<1>3. \A g \in Groups : \A i \in DOMAIN queue[g] :
          queue[g][i] \in Calls /\ call[queue[g][i]].at = "batched"
  BY ElementOfSeq, LenProperties DEF Inv, TypeOK, QueueInv
<1>4. QueueInv'
  BY <1>2, <1>3 DEF Inv, QueueInv
<1>5. \A r \in runs : \A d \in Members(r) : d \in Calls /\ call'[d] = call[d]
  BY <1>2, RunMembers
<1>6. \A r \in runs : Members(r)' = Members(r)
  BY DEF Members
<1>7. RunsInv'
  BY <1>5, <1>6 DEF Inv, RunsInv
<1>8. \A r \in runs : UsagesOf(Members(r))' = UsagesOf(Members(r))
  BY <1>5, <1>6 DEF UsagesOf
<1> QED BY <1>1, <1>4, <1>7, <1>8

\* No group comes to an end.
LEMMA SettledKept ==
    ASSUME Inv, sink \subseteq sink',
           \A c \in Calls : call'[c].at \in {"succeeded", "conflicting"} =>
               call[c].at \in {"succeeded", "conflicting"} /\ call'[c].usage = call[c].usage
    PROVE  SettledInv'
  BY DEF Inv, SettledInv

\* A run that goes on keeps its calls.
LEMMA RunAdvances ==
    ASSUME Inv, NEW r \in runs, NEW s \in Run, s.batch = r.batch, s.good <= Len(r.batch),
           Advance(r, s), UNCHANGED <<call, queue>>
    PROVE  /\ runs' \subseteq Run
           /\ QueueInv' /\ RunsInv'
           /\ \A q \in runs' : /\ q = s \/ q \in runs
                              /\ UsagesOf(Members(q))' = UsagesOf(Members(q))
           /\ UsagesOf(Members(s)) = UsagesOf(Members(r))
<1>1. runs' = (runs \ {r}) \cup {s} /\ runs' \subseteq Run
  BY DEF Advance, Inv, TypeOK
<1>2. QueueInv'
  BY DEF Inv, QueueInv
<1>3. Members(s) = Members(r)
  BY DEF Members
<1>4. \A q \in runs' : Members(q)' = Members(q)
  BY DEF Members
<1>5. RunsInv'
  <2>1. \A q \in runs' : q.batch # <<>> /\ q.good <= Len(q.batch)
    BY <1>1 DEF Inv, RunsInv
  <2>2. \A q \in runs' : \A c \in Members(q) : call[c].at = "reducing"
    BY <1>1, <1>3 DEF Inv, RunsInv
  <2>3. \A p, q \in runs' : p # q => Members(p) \cap Members(q) = {}
    BY <1>1, <1>3 DEF Inv, RunsInv
  <2> QED BY <2>1, <2>2, <2>3, <1>4 DEF RunsInv
<1>6. \A q \in runs' : UsagesOf(Members(q))' = UsagesOf(Members(q))
  BY <1>4 DEF UsagesOf
<1> QED BY <1>1, <1>2, <1>3, <1>5, <1>6

\* The end of a group says what becomes of its calls, and leaves the others alone.
LEMMA CallsSettle ==
    ASSUME Inv, NEW r \in runs, NEW done, NEW known, Finish(r, done, known)
    PROVE  /\ call' \in [Calls -> Call]
           /\ \A c \in Calls \ Members(r) : call'[c] = call[c]
           /\ \A c \in Members(r) :
                 /\ call'[c].at \in Outcomes /\ call'[c].usage = call[c].usage
                 /\ call[c] # Idle
                 /\ call'[c].at \in {"succeeded", "conflicting"} => c \in done \cup known
<1> DEFINE outcome(c) == IF c \in known THEN "succeeded"
                         ELSE IF c \in done THEN "conflicting" ELSE "failing"
<1>1. call' = [c \in Calls |-> IF c \notin Members(r) THEN call[c]
                                ELSE [call[c] EXCEPT !.at = outcome(c)]]
  BY DEF Finish
<1>2. call \in [Calls -> Call]
  BY DEF Inv, TypeOK
<1>3. \A c : /\ outcome(c) \in Outcomes
             /\ outcome(c) \in {"succeeded", "conflicting"} => c \in done \cup known
  BY DEF Outcomes
<1> HIDE DEF outcome
<1>4. ASSUME NEW c \in Members(r)
      PROVE  /\ c \in Calls /\ call[c] # Idle
             /\ call'[c] \in Call /\ call'[c].at = outcome(c)
             /\ call'[c].usage = call[c].usage
  <2>1. c \in Calls /\ call[c].at = "reducing"
    BY RunMembers
  <2>2. call[c] # Idle /\ call[c] \in Call
    BY <1>2, <2>1 DEF Idle
  <2>3. call'[c] = [call[c] EXCEPT !.at = outcome(c)]
    BY <1>1, <2>1
  <2> QED BY <1>3, <2>1, <2>2, <2>3 DEF Call
<1>5. \A c \in Calls \ Members(r) : call'[c] = call[c] /\ call'[c] \in Call
  BY <1>1, <1>2
<1>6. call' \in [Calls -> Call]
  BY <1>1, <1>4, <1>5
<1> QED BY <1>3, <1>4, <1>5, <1>6

\* The end of a group ends its run, and leaves the other runs alone.
LEMMA GroupEnds ==
    ASSUME Inv, NEW r \in runs, NEW done, NEW known, Finish(r, done, known), UNCHANGED queue
    PROVE  /\ call' \in [Calls -> Call] /\ runs' \subseteq Run
           /\ QueueInv' /\ RunsInv'
           /\ UNCHANGED <<cache, acknowledged, batches>>
           /\ \A q \in runs' : q \in runs /\ UsagesOf(Members(q))' = UsagesOf(Members(q))
<1>1. runs' = runs \ {r} /\ UNCHANGED <<cache, acknowledged, batches>>
  BY DEF Finish
<1>2. runs \subseteq Run
  BY DEF Inv, TypeOK
<1>3. call' \in [Calls -> Call] /\ \A c \in Calls \ Members(r) : call'[c] = call[c]
  BY CallsSettle
<1>4. \A g \in Groups : \A i \in DOMAIN queue[g] :
          queue[g][i] \in Calls /\ queue[g][i] \notin Members(r)
  BY RunMembers, ElementOfSeq, LenProperties DEF Inv, TypeOK, QueueInv
<1>5. QueueInv'
  BY <1>3, <1>4 DEF Inv, QueueInv
<1>6. \A q \in runs' : /\ q \in runs
                       /\ \A c \in Members(q) : c \in Calls /\ call'[c] = call[c]
  BY <1>1, <1>3, RunMembers DEF Inv, RunsInv
<1>7. \A q \in runs : Members(q)' = Members(q)
  BY DEF Members
<1>8. RunsInv'
  BY <1>1, <1>6, <1>7 DEF Inv, RunsInv
<1>9. \A q \in runs' : UsagesOf(Members(q))' = UsagesOf(Members(q))
  BY <1>6, <1>7 DEF UsagesOf
<1> QED BY <1>1, <1>2, <1>3, <1>5, <1>6, <1>8, <1>9

\* Whoever will be answered as done, the sink has the usage.
LEMMA SettledIsKnown ==
    ASSUME Inv, NEW r \in runs, NEW done, NEW known, Finish(r, done, known),
           sink \subseteq sink', done \cup known \subseteq Calls,
           HasSink => UsagesOf(done \cup known) \subseteq sink'
    PROVE  SettledInv'
<1>1. ASSUME HasSink, NEW c \in Calls, call'[c].at \in {"succeeded", "conflicting"}
      PROVE  call'[c].usage \in sink'
  <2>1. CASE c \in Members(r)
    <3>1. call'[c].usage = call[c].usage /\ c \in done \cup known
      BY <1>1, <2>1, CallsSettle
    <3>2. call[c].usage \in UsagesOf(done \cup known)
      BY <3>1 DEF UsagesOf
    <3> QED BY <1>1, <3>1, <3>2
  <2>2. CASE c \notin Members(r)
    BY <1>1, <2>2, CallsSettle DEF Inv, SettledInv
  <2> QED BY <2>1, <2>2
<1> QED BY <1>1 DEF SettledInv

\* Logging some of the outputs of a run gives documents of their types, and markers of
\* usages of the run only.
LEMMA WriteType ==
    ASSUME Inv, NEW r \in runs, NEW written \in SUBSET Puts(r), Write(r, written)
    PROVE  /\ OutputTypeOK' /\ torn' \subseteq Keys
           /\ markers' \subseteq markers \cup UsagesOf(Members(r))
<1>1. \A put \in written : put.index \in DOMAIN r.batch
  BY DEF Puts
<1>2. \A put \in written : /\ put.index \in Nat /\ put.index \in 1 .. Len(r.batch)
                           /\ r.batch[put.index] \in Members(r)
  BY <1>1, RunMembers DEF Members
<1>3. markers' \subseteq markers \cup UsagesOf(Members(r))
  BY <1>2 DEF Write, UsagesOf
<1>4. torn' \subseteq Keys
  BY RunMembers DEF Write, Inv, TypeOK
<1>5. ASSUME NEW k \in Keys, NEW p \in Periods,
             \E put \in written : put.key = k /\ PeriodAt(r, put.index) = p
      PROVE  LET put == CHOOSE x \in written : x.key = k /\ PeriodAt(r, x.index) = p
             IN  Reduced(r.base[k], [i \in 1 .. put.index |-> call[r.batch[i]].usage]) \in Sum
  <2> DEFINE put == CHOOSE x \in written : x.key = k /\ PeriodAt(r, x.index) = p
             list == [i \in 1 .. put.index |-> call[r.batch[i]].usage]
  <2>1. put \in written
    BY <1>5
  <2>2. put.index \in Nat /\ put.index \in 1 .. Len(r.batch)
    BY <1>2, <2>1
  <2>3. \A i \in 1 .. put.index : r.batch[i] \in Members(r)
    BY <2>2, RunMembers DEF Members
  <2>4. list \in [1 .. put.index -> Usages]
    BY <2>3, RunMembers
  <2>5. r.base[k] \in LastDoc \cup {None}
    BY DEF Inv, TypeOK, Run
  <2> QED BY <2>2, <2>4, <2>5, ReducedType
<1>6. docs' \in [Keys -> [Periods -> Sum \cup {None}]]
  BY <1>5 DEF Write, Inv, TypeOK, OutputTypeOK
<1>7. markers' \subseteq Usages
  BY <1>3, RunMembers DEF Inv, TypeOK, OutputTypeOK
<1> QED BY <1>3, <1>4, <1>6, <1>7 DEF OutputTypeOK

\* Failures are counted.
LEMMA FaultType ==
    ASSUME faults \in 0 .. MaxFaults, Fault \/ NoFault
    PROVE  faults' \in 0 .. MaxFaults
  BY ReducerAssumption DEF Fault, NoFault

-----------------------------------------------------------------------------
(* The inductive invariant.                                                *)

\* Nothing has happened yet.
LEMMA InvInit == Init => Inv
<1> SUFFICES ASSUME Init PROVE Inv
  OBVIOUS
<1>1. TypeOK
  BY PeriodsAssumption, ReducerAssumption, EmptySeq
     DEF Init, OutputInit, TypeOK, OutputTypeOK, Periods, Call, Idle
<1>2. QueueInv /\ RunsInv /\ PostedInv /\ KnownInv /\ SettledInv
  BY DEF Init, OutputInit, QueueInv, RunsInv, PostedInv, KnownInv, SettledInv, Idle
<1> QED BY <1>1, <1>2 DEF Inv

\* A call comes in, of a client or of the replay.
LEMMA InvPlay ==
    ASSUME Inv, NEW c \in Calls, NEW u \in Usages, Post(c, u) \/ Replay(c, u)
    PROVE  Inv'
<1>1. UNCHANGED <<docs, markers, cache, inputs, sink, clock, queue, runs, batches, acknowledged,
                  torn, faults>>
  BY DEF Post, Replay, inputVars, outputVars
<1>2. toReplay' \subseteq Usages
  BY DEF Post, Replay, inputVars, Inv, TypeOK
<1>3. PeriodOf(u) \in Periods
  BY LastPeriodOfType, UsagesAssumption DEF PeriodOf, Inv, TypeOK
<1>4. CASE call' = call
  <2>1. TypeOK'
    BY <1>1, <1>2, <1>4 DEF Inv, TypeOK, OutputTypeOK
  <2>2. QueueInv' /\ RunsInv' /\ \A r \in runs : UsagesOf(Members(r))' = UsagesOf(Members(r))
    BY <1>1, <1>4, BatchesUnchanged
  <2>3. PostedInv' /\ KnownInv' /\ SettledInv'
    BY <1>1, <1>4, <2>2 DEF Inv, PostedInv, KnownInv, SettledInv
  <2> QED BY <2>1, <2>2, <2>3 DEF Inv
<1>5. CASE Play(c, u, TRUE) \/ Play(c, u, FALSE)
  <2>1. PICK new \in Call : call' = [call EXCEPT ![c] = new] /\ new.at = "locking"
    <3>1. PICK client \in BOOLEAN : Play(c, u, client)
      BY <1>5
    <3> DEFINE new == [at |-> "locking", usage |-> u, period |-> PeriodOf(u),
                       client |-> client]
    <3>2. new \in Call /\ new.at = "locking"
      BY <1>3 DEF Call
    <3>3. call' = [call EXCEPT ![c] = new]
      BY <3>1 DEF Play
    <3> QED BY <3>2, <3>3
  <2>2. call[c].at = "idle"
    BY <1>5 DEF Play, Idle
  <2>3. /\ call' \in [Calls -> Call] /\ QueueInv' /\ RunsInv'
        /\ \A r \in runs : UsagesOf(Members(r))' = UsagesOf(Members(r))
    BY <1>1, <2>1, <2>2, OneCallMoves
  <2>4. TypeOK'
    BY <1>1, <1>2, <2>3 DEF Inv, TypeOK, OutputTypeOK
  <2>5. PostedInv' /\ KnownInv'
    BY <1>1, <2>3 DEF Inv, PostedInv, KnownInv
  <2>6. SettledInv'
    BY <1>1, <2>1, SettledKept DEF Inv, TypeOK
  <2> QED BY <2>3, <2>4, <2>5, <2>6 DEF Inv
<1> QED BY <1>4, <1>5 DEF Post, Replay

\* A call gets the lock of its usage, and is a duplicate or goes on; or the database fails.
LEMMA InvDetectDup ==
    ASSUME Inv, NEW c \in Calls, DetectDup(c) \/ Fail(c)
    PROVE  Inv'
<1>1. UNCHANGED <<docs, markers, cache, inputs, sink, toReplay, clock, queue, runs, batches,
                  torn>>
  BY DEF DetectDup, Fail, inputVars, outputVars
<1>2. call[c].at \in {"locking", "logging"}
  BY DEF DetectDup, Fail
<1>3. call[c].usage \in Usages /\ [call[c] EXCEPT !.at = "logging"] \in Call /\ Idle \in Call
  <2>1. call[c] \in Call /\ call[c] # Idle
    BY <1>2 DEF Inv, TypeOK, Idle
  <2> QED BY <2>1 DEF Call
<1>4. PICK new \in Call : call' = [call EXCEPT ![c] = new] /\ new.at \in {"idle", "logging"}
  <2>1. call[c] \in Call /\ call[c] # Idle
    BY <1>2 DEF Inv, TypeOK, Idle
  <2>2. [call[c] EXCEPT !.at = "logging"].at = "logging" /\ Idle.at = "idle"
    BY <2>1 DEF Call, Idle
  <2> QED BY <1>3, <2>2 DEF DetectDup, Fail, Answer, Inv, TypeOK
<1>5. /\ call' \in [Calls -> Call] /\ QueueInv' /\ RunsInv'
      /\ \A r \in runs : UsagesOf(Members(r))' = UsagesOf(Members(r))
  BY <1>1, <1>2, <1>4, OneCallMoves
<1>6. \/ acknowledged' = acknowledged
      \/ acknowledged' = acknowledged \cup {call[c].usage} /\ call[c].usage \in cache \cup markers
  BY DEF DetectDup, Fail, Answer
<1>7. faults' \in 0 .. MaxFaults
  BY FaultType DEF DetectDup, Fail, Inv, TypeOK, NoFault
<1>8. TypeOK'
  BY <1>1, <1>3, <1>5, <1>6, <1>7 DEF Inv, TypeOK, OutputTypeOK
<1>9. PostedInv' /\ KnownInv'
  BY <1>1, <1>5, <1>6 DEF Inv, PostedInv, KnownInv
<1>10. SettledInv'
  BY <1>1, <1>4, SettledKept DEF Inv, TypeOK
<1> QED BY <1>5, <1>8, <1>9, <1>10 DEF Inv

\* A call joins the batch of its group.
LEMMA InvLogInput ==
    ASSUME Inv, NEW c \in Calls, LogInput(c)
    PROVE  Inv'
<1> DEFINE group == GroupOf[call[c].usage]
<1>1. UNCHANGED <<docs, markers, cache, sink, toReplay, clock, runs, batches, acknowledged,
                  torn>>
  BY DEF LogInput, outputVars
<1>2. /\ call[c].at = "logging"
      /\ call' = [call EXCEPT ![c].at = "batched"]
      /\ queue' = [queue EXCEPT ![group] = Append(queue[group], c)]
      /\ inputs' \in {inputs, inputs \cup {call[c].usage}}
  BY DEF LogInput
<1>3. call \in [Calls -> Call] /\ queue \in [Groups -> Seq(Calls)] /\ call[c] # Idle
      /\ call[c].usage \in Usages /\ group \in Groups /\ queue[group] \in Seq(Calls)
  BY <1>2, BusyCall DEF Inv, TypeOK, Idle
<1>4. [call[c] EXCEPT !.at = "batched"] \in Call
  <2>1. call[c] \in Call
    BY <1>3
  <2> QED BY <2>1, <1>3 DEF Call
<1>5. call' \in [Calls -> Call] /\ queue' \in [Groups -> Seq(Calls)]
  BY <1>2, <1>3, <1>4, AppendProperties
<1>6. \A g \in Groups : \A i \in DOMAIN queue[g] :
          queue[g][i] \in Calls /\ queue[g][i] # c
  BY <1>2, <1>3, ElementOfSeq, LenProperties DEF Inv, QueueInv
<1>7. QueueInv'
  <2>1. \A d \in Calls \ {c} : call'[d] = call[d]
    BY <1>2, <1>3
  <2>2. call'[c].at = "batched" /\ call'[c].usage = call[c].usage
    BY <1>2, <1>3, <1>4 DEF Call
  <2>3. ASSUME NEW g \in Groups, g # group
        PROVE  queue'[g] = queue[g]
    BY <2>3, <1>2, <1>3
  <2>4. /\ queue'[group] = Append(queue[group], c)
        /\ DOMAIN queue[group] = 1 .. Len(queue[group]) /\ Len(queue[group]) \in Nat
        /\ DOMAIN queue'[group] = 1 .. (Len(queue[group]) + 1)
        /\ \A i \in 1 .. Len(queue[group]) : queue'[group][i] = queue[group][i]
        /\ queue'[group][Len(queue[group]) + 1] = c
    BY <1>2, <1>3, AppendProperties, LenProperties
  <2>5. ASSUME NEW g \in Groups, NEW i \in DOMAIN queue'[g]
        PROVE  call'[queue'[g][i]].at = "batched" /\ GroupOf[call'[queue'[g][i]].usage] = g
    <3>1. CASE g # group
      BY <3>1, <2>1, <2>3, <1>6 DEF Inv, QueueInv
    <3>2. CASE g = group /\ i \in 1 .. Len(queue[group])
      <4>1. queue'[g][i] = queue[group][i] /\ i \in DOMAIN queue[group]
        BY <3>2, <2>4
      <4>2. queue[group][i] \in Calls \ {c}
        BY <4>1, <1>3, <1>6
      <4>3. call[queue[group][i]].at = "batched" /\ GroupOf[call[queue[group][i]].usage] = group
        BY <4>1, <1>3 DEF Inv, QueueInv
      <4> QED BY <3>2, <4>1, <4>2, <4>3, <2>1
    <3>3. CASE g = group /\ i = Len(queue[group]) + 1
      BY <3>3, <2>2, <2>4
    <3> QED BY <3>1, <3>2, <3>3, <2>4
  <2>6. ASSUME NEW g \in Groups, NEW i \in DOMAIN queue'[g], NEW j \in DOMAIN queue'[g],
               queue'[g][i] = queue'[g][j]
        PROVE  i = j
    <3>1. CASE g # group
      BY <3>1, <2>6, <2>3 DEF Inv, QueueInv
    <3>2. CASE g = group
      <4>1. \A m \in DOMAIN queue[group] : queue[group][m] # c
        BY <1>3, <1>6
      <4>2. \A l, m \in DOMAIN queue[group] : queue[group][l] = queue[group][m] => l = m
        BY <1>3 DEF Inv, QueueInv
      <4>3. PICK n \in Nat : n = Len(queue[group])
        BY <2>4
      <4>4. \A m \in DOMAIN queue'[g] :
                \/ m \in DOMAIN queue[group] /\ queue'[g][m] = queue[group][m]
                \/ m = n + 1 /\ queue'[g][m] = c
        BY <4>3, <3>2, <2>4
      <4> QED BY <4>1, <4>2, <4>4, <2>6
    <3> QED BY <3>1, <3>2
  <2> QED BY <2>5, <2>6 DEF QueueInv
<1>8. \A r \in runs : \A d \in Members(r) : call'[d] = call[d]
  BY <1>2, <1>3, RunMembers
<1>9. \A r \in runs : Members(r)' = Members(r)
  BY DEF Members
<1>10. RunsInv'
  BY <1>1, <1>8, <1>9 DEF Inv, RunsInv
<1>11. \A r \in runs : UsagesOf(Members(r))' = UsagesOf(Members(r))
  BY <1>8, <1>9 DEF UsagesOf
<1>12. faults' \in 0 .. MaxFaults
  BY FaultType DEF LogInput, Inv, TypeOK
<1>13. TypeOK'
  BY <1>1, <1>2, <1>3, <1>5, <1>12 DEF Inv, TypeOK, OutputTypeOK
<1>14. PostedInv' /\ KnownInv'
  BY <1>1, <1>11 DEF Inv, PostedInv, KnownInv
<1>15. SettledInv'
  <2>1. call'[c].at = "batched"
    BY <1>2, <1>3, <1>4 DEF Call
  <2> QED BY <1>1, <1>2, <2>1, SettledKept
<1> QED BY <1>7, <1>10, <1>13, <1>14, <1>15 DEF Inv

\* Every queue becomes the batch of a new run.
LEMMA InvFlush == ASSUME Inv, Flush PROVE Inv'
<1> DEFINE waiting == {g \in Groups : queue[g] # <<>>}
           new(g) == [batch |-> queue[g], at |-> "waiting",
                      base |-> [k \in Keys |-> None], good |-> 0]
<1>1. UNCHANGED <<docs, markers, cache, inputs, sink, toReplay, clock, acknowledged, torn, faults>>
  BY DEF Flush, outputVars, inputVars
<1>2. /\ runs' = runs \cup {new(g) : g \in waiting}
      /\ call' = [c \in Calls |-> IF call[c].at = "batched"
                                  THEN [call[c] EXCEPT !.at = "reducing"] ELSE call[c]]
      /\ queue' = [g \in Groups |-> <<>>]
      /\ batches' = batches \cup {{c \in Calls : call[c].at = "batched"}}
  BY DEF Flush
<1>3. call \in [Calls -> Call] /\ queue \in [Groups -> Seq(Calls)] /\ runs \subseteq Run
  BY DEF Inv, TypeOK
<1>4. \A c \in Calls : call[c].at = "batched" => [call[c] EXCEPT !.at = "reducing"] \in Call
  <2> SUFFICES ASSUME NEW c \in Calls, call[c].at = "batched"
               PROVE  [call[c] EXCEPT !.at = "reducing"] \in Call
    OBVIOUS
  <2>1. call[c] \in Call /\ call[c] # Idle
    BY <1>3 DEF Idle
  <2> QED BY <2>1 DEF Call
<1>5. /\ call' \in [Calls -> Call]
      /\ \A c \in Calls : call'[c].usage = call[c].usage
      /\ \A c \in Calls : call[c].at = "reducing" => call'[c] = call[c]
      /\ \A c \in Calls : call[c].at = "batched" => call'[c].at = "reducing"
  <2>1. ASSUME NEW c \in Calls
        PROVE  call'[c] \in Call /\ call'[c].usage = call[c].usage
               /\ (call[c].at = "reducing" => call'[c] = call[c])
               /\ (call[c].at = "batched" => call'[c].at = "reducing")
    <3>1. CASE call[c].at = "batched"
      <4>1. call'[c] = [call[c] EXCEPT !.at = "reducing"] /\ call[c] \in Call /\ call[c] # Idle
        BY <3>1, <1>2, <1>3 DEF Idle
      <4> QED BY <4>1, <3>1, <1>4 DEF Call
    <3>2. CASE call[c].at # "batched"
      BY <3>2, <1>2, <1>3
    <3> QED BY <3>1, <3>2
  <2> QED BY <2>1, <1>2
<1>6. \A g \in waiting : new(g) \in Run /\ new(g).batch = queue[g] /\ new(g).good = 0
                           /\ new(g).at = "waiting"
  BY <1>3 DEF Run
<1>7. queue' \in [Groups -> Seq(Calls)]
  BY <1>2, EmptySeq
<1>8. TypeOK'
  BY <1>1, <1>2, <1>3, <1>5, <1>6, <1>7 DEF Inv, TypeOK, OutputTypeOK
<1>9. QueueInv'
  BY <1>2, EmptySeq DEF QueueInv
<1>10. \A g \in waiting : Members(new(g)) = {queue[g][i] : i \in DOMAIN queue[g]}
  BY <1>6 DEF Members
<1>11. \A g \in waiting : \A c \in Members(new(g)) :
           c \in Calls /\ call[c].at = "batched" /\ GroupOf[call[c].usage] = g
  BY <1>3, <1>10, ElementOfSeq, LenProperties DEF Inv, QueueInv
<1>12. \A r \in runs : \A c \in Members(r) : c \in Calls /\ call[c].at = "reducing"
  BY RunMembers
<1>13. \A r \in runs' : Members(r)' = Members(r)
  BY DEF Members
<1>14. RunsInv'
  <2>1. ASSUME NEW r \in runs'
        PROVE  r.batch # <<>> /\ r.good <= Len(r.batch)
               /\ \A c \in Members(r) : call'[c].at = "reducing"
    <3>1. CASE r \in runs
      BY <3>1, <1>5, <1>12 DEF Inv, RunsInv
    <3>2. CASE \E g \in waiting : r = new(g)
      <4>1. PICK g \in waiting : r = new(g)
        BY <3>2
      <4>2. Len(queue[g]) \in Nat
        BY <1>3, LenProperties
      <4> QED BY <4>1, <4>2, <1>5, <1>6, <1>11
    <3> QED BY <3>1, <3>2, <1>2
  <2>2. ASSUME NEW q \in runs', NEW r \in runs', NEW c \in Members(q) \cap Members(r)
        PROVE  q = r
    <3>1. CASE q \in runs /\ r \in runs
      BY <3>1 DEF Inv, RunsInv
    <3>2. CASE q \in runs /\ r \notin runs
      <4>1. PICK g \in waiting : r = new(g)
        BY <3>2, <1>2
      <4>2. call[c].at = "reducing" /\ call[c].at = "batched"
        BY <4>1, <3>2, <1>11, <1>12
      <4> QED BY <4>2
    <3>3. CASE q \notin runs /\ r \in runs
      <4>1. PICK g \in waiting : q = new(g)
        BY <3>3, <1>2
      <4>2. call[c].at = "reducing" /\ call[c].at = "batched"
        BY <4>1, <3>3, <1>11, <1>12
      <4> QED BY <4>2
    <3>4. CASE q \notin runs /\ r \notin runs
      <4>1. PICK g \in waiting, h \in waiting : q = new(g) /\ r = new(h)
        BY <3>4, <1>2
      <4>2. g = h
        BY <4>1, <1>11
      <4> QED BY <4>1, <4>2
    <3> QED BY <3>1, <3>2, <3>3, <3>4
  <2> QED BY <2>1, <2>2, <1>13 DEF RunsInv
<1>15. PostedInv'
  <2>1. \A r \in runs : UsagesOf(Members(r))' = UsagesOf(Members(r))
    BY <1>2, <1>5, <1>12, <1>13 DEF UsagesOf
  <2>2. \A r \in runs' : r.at = "posted" => r \in runs
    BY <1>2, <1>6
  <2> QED BY <2>1, <2>2, <1>1 DEF Inv, PostedInv
<1>16. KnownInv'
  BY <1>1 DEF Inv, KnownInv
<1>17. SettledInv'
  <2>1. ASSUME NEW c \in Calls, call'[c].at \in {"succeeded", "conflicting"}
        PROVE  call'[c] = call[c]
    BY <1>2, <1>5, <2>1
  <2> QED BY <1>1, <2>1, SettledKept
<1> QED BY <1>8, <1>9, <1>14, <1>15, <1>16, <1>17 DEF Inv

\* A group is refused or fails before anything is posted.
LEMMA InvRefuse ==
    ASSUME Inv, NEW r \in runs, RefuseSlack(r) \/ FailReduce(r)
    PROVE  Inv'
<1>1. Finish(r, {}, {}) /\ UNCHANGED <<docs, markers, inputs, sink, toReplay, clock, queue, torn>>
  BY DEF RefuseSlack, FailReduce, outputVars
<1>2. /\ call' \in [Calls -> Call] /\ runs' \subseteq Run
      /\ QueueInv' /\ RunsInv'
      /\ UNCHANGED <<cache, acknowledged, batches>>
      /\ \A q \in runs' : q \in runs /\ UsagesOf(Members(q))' = UsagesOf(Members(q))
  BY <1>1, GroupEnds
<1>3. SettledInv'
  <2>1. UsagesOf({} \cup {}) = {}
    BY DEF UsagesOf
  <2> QED BY <1>1, <2>1, SettledIsKnown
<1>4. faults' \in 0 .. MaxFaults
  BY FaultType DEF RefuseSlack, FailReduce, Inv, TypeOK, NoFault
<1>5. TypeOK'
  BY <1>1, <1>2, <1>4 DEF Inv, TypeOK, OutputTypeOK
<1>6. PostedInv' /\ KnownInv'
  BY <1>1, <1>2 DEF Inv, PostedInv, KnownInv
<1> QED BY <1>2, <1>3, <1>5, <1>6 DEF Inv

\* A group is reduced.
LEMMA InvReduce ==
    ASSUME Inv, NEW r \in runs, Reduce(r)
    PROVE  Inv'
<1> DEFINE base == [k \in Keys |-> IF k \in KeysOf[GroupOfRun(r)]
                                   THEN LastAccum(k, MonthOf[call[r.batch[1]].period]) ELSE None]
<1>1. UNCHANGED <<docs, markers, cache, inputs, sink, toReplay, clock, call, queue, batches,
                  acknowledged, torn>>
  BY DEF Reduce, outputVars, inputVars
<1>2. base \in [Keys -> LastDoc \cup {None}]
  BY LastAccumType DEF Inv, TypeOK
<1>3. PICK good \in 0 .. Len(r.batch) :
          Advance(r, [r EXCEPT !.at = "reduced", !.good = good, !.base = base])
  BY DEF Reduce
<1> DEFINE s == [r EXCEPT !.at = "reduced", !.good = good, !.base = base]
<1>4. r \in Run /\ good \in Nat /\ good <= Len(r.batch)
  BY RunMembers DEF Inv, TypeOK
<1>5. s \in Run /\ s.batch = r.batch /\ s.good <= Len(r.batch) /\ s.at = "reduced"
  <2> HIDE DEF base
  <2> QED BY <1>2, <1>4 DEF Run
<1> HIDE DEF s
<1>6. /\ runs' \subseteq Run /\ QueueInv' /\ RunsInv'
      /\ \A q \in runs' : /\ q = s \/ q \in runs
                         /\ UsagesOf(Members(q))' = UsagesOf(Members(q))
  <2>1. Advance(r, s)
    BY <1>3 DEF s
  <2> QED BY <2>1, <1>1, <1>5, RunAdvances
<1>7. faults' \in 0 .. MaxFaults
  BY FaultType DEF Reduce, Inv, TypeOK
<1>8. TypeOK'
  BY <1>1, <1>6, <1>7 DEF Inv, TypeOK, OutputTypeOK
<1>9. PostedInv' /\ KnownInv' /\ SettledInv'
  BY <1>1, <1>5, <1>6 DEF Inv, PostedInv, KnownInv, SettledInv
<1> QED BY <1>6, <1>8, <1>9 DEF Inv

\* The outputs of a group are posted: it goes on, or is answered without being logged.
LEMMA InvPostOutputs ==
    ASSUME Inv, NEW r \in runs, PostOutputs(r)
    PROVE  Inv'
<1>1. /\ UNCHANGED <<docs, markers, inputs, toReplay, clock, queue, torn, faults>>
      /\ sink' = IF HasSink THEN sink \cup UsagesOf(Good(r)) ELSE sink
  BY DEF PostOutputs, outputVars
<1>2. sink' \subseteq Usages /\ sink \subseteq sink'
  BY <1>1, RunMembers DEF UsagesOf, Inv, TypeOK
<1>3. CASE r.good = Len(r.batch)
  <2> DEFINE s == [r EXCEPT !.at = "posted"]
  <2>1. Advance(r, s) /\ UNCHANGED <<call, acknowledged, cache, batches>>
    BY <1>3 DEF PostOutputs
  <2>2. r \in Run
    BY DEF Inv, TypeOK
  <2>3. s \in Run /\ s.batch = r.batch /\ s.good <= Len(r.batch)
    BY <2>2, <1>3, RunMembers DEF Run
  <2> HIDE DEF s
  <2>4. /\ runs' \subseteq Run /\ QueueInv' /\ RunsInv'
        /\ \A q \in runs' : /\ q = s \/ q \in runs
                           /\ UsagesOf(Members(q))' = UsagesOf(Members(q))
        /\ UsagesOf(Members(s)) = UsagesOf(Members(r))
    BY <2>1, <2>3, <1>1, RunAdvances
  <2>5. TypeOK'
    BY <1>1, <1>2, <2>1, <2>4 DEF Inv, TypeOK, OutputTypeOK
  <2>6. HasSink => UsagesOf(Members(r)) \subseteq sink'
    BY <1>1, <1>3, RunMembers
  <2>7. PostedInv' /\ KnownInv' /\ SettledInv'
    BY <1>1, <1>2, <2>1, <2>4, <2>6 DEF Inv, PostedInv, KnownInv, SettledInv
  <2> QED BY <2>4, <2>5, <2>7 DEF Inv
<1>4. CASE r.good # Len(r.batch)
  <2>1. Finish(r, Good(r), Good(r))
    BY <1>4 DEF PostOutputs
  <2>2. /\ call' \in [Calls -> Call] /\ runs' \subseteq Run
        /\ QueueInv' /\ RunsInv'
        /\ UNCHANGED <<cache, acknowledged, batches>>
        /\ \A q \in runs' : q \in runs /\ UsagesOf(Members(q))' = UsagesOf(Members(q))
    BY <1>1, <2>1, GroupEnds
  <2>3. TypeOK'
    BY <1>1, <1>2, <2>2 DEF Inv, TypeOK, OutputTypeOK
  <2>4. PostedInv' /\ KnownInv'
    BY <1>1, <1>2, <2>2 DEF Inv, PostedInv, KnownInv
  <2>5. SettledInv'
    <3>1. Good(r) \cup Good(r) = Good(r) /\ Good(r) \subseteq Calls
      BY RunMembers
    <3>2. HasSink => UsagesOf(Good(r) \cup Good(r)) \subseteq sink'
      BY <1>1, <3>1
    <3> QED BY <1>2, <2>1, <3>1, <3>2, SettledIsKnown
  <2> QED BY <2>2, <2>3, <2>4, <2>5 DEF Inv
<1> QED BY <1>3, <1>4

\* Some of the posts of a group fail.
LEMMA InvFailPost ==
    ASSUME Inv, NEW r \in runs, FailPost(r)
    PROVE  Inv'
<1>1. /\ UNCHANGED <<docs, markers, inputs, toReplay, clock, queue, torn>>
      /\ Finish(r, {}, {}) /\ Fault
      /\ \E taken \in SUBSET UsagesOf(Good(r)) : sink' = sink \cup taken
  BY DEF FailPost, outputVars
<1>2. sink' \subseteq Usages /\ sink \subseteq sink'
  BY <1>1, RunMembers DEF UsagesOf, Inv, TypeOK
<1>3. /\ call' \in [Calls -> Call] /\ runs' \subseteq Run
      /\ QueueInv' /\ RunsInv'
      /\ UNCHANGED <<cache, acknowledged, batches>>
      /\ \A q \in runs' : q \in runs /\ UsagesOf(Members(q))' = UsagesOf(Members(q))
  BY <1>1, GroupEnds
<1>4. SettledInv'
  <2>1. UsagesOf({} \cup {}) = {}
    BY DEF UsagesOf
  <2> QED BY <1>1, <1>2, <2>1, SettledIsKnown
<1>5. faults' \in 0 .. MaxFaults
  BY <1>1, FaultType DEF Inv, TypeOK
<1>6. TypeOK'
  BY <1>1, <1>2, <1>3, <1>5 DEF Inv, TypeOK, OutputTypeOK
<1>7. PostedInv' /\ KnownInv'
  BY <1>1, <1>2, <1>3 DEF Inv, PostedInv, KnownInv
<1> QED BY <1>3, <1>4, <1>6, <1>7 DEF Inv

\* The outputs of a group are logged, some of them are, or they meet a conflict: whoever is
\* answered, the sink has the usages.
LEMMA InvLogOutputs ==
    ASSUME Inv, NEW r \in runs, LogOutputs(r) \/ ConflictOutputs(r) \/ FailOutputs(r)
    PROVE  Inv'
<1>1. UNCHANGED <<inputs, sink, toReplay, clock, queue>> /\ r.at = "posted"
  BY DEF LogOutputs, ConflictOutputs, FailOutputs
<1>2. PICK written \in SUBSET Puts(r) : Write(r, written)
  BY DEF LogOutputs, ConflictOutputs, FailOutputs
<1>3. PICK done \in SUBSET Members(r), known \in SUBSET Members(r) : Finish(r, done, known)
  <2>1. {} \in SUBSET Members(r) /\ Members(r) \in SUBSET Members(r)
    OBVIOUS
  <2> QED BY <2>1 DEF LogOutputs, ConflictOutputs, FailOutputs
<1>4. OutputTypeOK' /\ torn' \subseteq Keys /\ markers' \subseteq markers \cup UsagesOf(Members(r))
  BY <1>2, WriteType
<1>5. /\ call' \in [Calls -> Call] /\ runs' \subseteq Run
      /\ QueueInv' /\ RunsInv'
      /\ UNCHANGED <<cache, acknowledged, batches>>
      /\ \A q \in runs' : q \in runs /\ UsagesOf(Members(q))' = UsagesOf(Members(q))
  BY <1>1, <1>3, GroupEnds
<1>6. UsagesOf(done \cup known) \subseteq UsagesOf(Members(r)) /\ done \cup known \subseteq Calls
  BY RunMembers DEF UsagesOf
<1>7. HasSink => UsagesOf(Members(r)) \subseteq sink
  BY <1>1 DEF Inv, PostedInv
<1>8. faults' \in 0 .. MaxFaults
  BY FaultType DEF LogOutputs, ConflictOutputs, FailOutputs, Inv, TypeOK, NoFault
<1>9. TypeOK'
  BY <1>1, <1>4, <1>5, <1>8 DEF Inv, TypeOK
<1>10. PostedInv' /\ KnownInv'
  BY <1>1, <1>4, <1>5, <1>7 DEF Inv, PostedInv, KnownInv
<1>11. SettledInv'
  BY <1>1, <1>3, <1>6, <1>7, SettledIsKnown
<1> QED BY <1>5, <1>9, <1>10, <1>11 DEF Inv

\* All groups of a batch are done, and its calls are answered.
LEMMA InvAnswerBatch ==
    ASSUME Inv, NEW b \in batches, AnswerBatch(b)
    PROVE  Inv'
<1> DEFINE with(outcomes) == {c \in b : call[c].at \in outcomes}
           done == {c \in with({"succeeded", "conflicting"}) : call[c].client}
           known == with({"succeeded"})
<1>1. /\ UNCHANGED <<docs, markers, inputs, sink, toReplay, clock, queue, runs, torn, faults>>
      /\ batches' = batches \ {b}
      /\ call' = [c \in Calls |-> IF c \in b THEN Idle ELSE call[c]]
      /\ acknowledged' = acknowledged \cup UsagesOf(done)
      /\ cache' = cache \cup UsagesOf(known)
      /\ \A c \in b : call[c].at \in Outcomes
  BY DEF AnswerBatch, outputVars
<1>2. /\ call \in [Calls -> Call] /\ Idle \in Call
      /\ b \subseteq Calls /\ batches' \subseteq SUBSET Calls
  BY <1>1 DEF Inv, TypeOK, Call
<1>3. call' \in [Calls -> Call]
  BY <1>1, <1>2
<1>4. \A c \in Calls : call[c].at \in {"batched", "reducing"} => call'[c] = call[c]
  BY <1>1, <1>2 DEF Outcomes
<1>5. \A g \in Groups : \A i \in DOMAIN queue[g] :
          queue[g][i] \in Calls /\ call[queue[g][i]].at = "batched"
  BY ElementOfSeq, LenProperties DEF Inv, TypeOK, QueueInv
<1>6. QueueInv'
  BY <1>1, <1>4, <1>5 DEF Inv, QueueInv
<1>7. \A r \in runs : /\ Members(r)' = Members(r)
                      /\ \A c \in Members(r) : c \in Calls /\ call'[c] = call[c]
  BY <1>4, RunMembers DEF Members
<1>8. RunsInv' /\ \A r \in runs : UsagesOf(Members(r))' = UsagesOf(Members(r))
  BY <1>1, <1>7 DEF Inv, RunsInv, UsagesOf
<1>9. \A c \in done \cup known :
          /\ call[c].usage \in Usages
          /\ HasSink => call[c].usage \in sink
  <2>1. ASSUME NEW c \in done \cup known
        PROVE  call[c].usage \in Usages /\ (HasSink => call[c].usage \in sink)
    <3>1. c \in Calls /\ call[c].at \in {"succeeded", "conflicting"}
      BY <1>2, <2>1
    <3>2. call[c].usage \in Usages
      BY <3>1, BusyCall DEF Inv
    <3> QED BY <3>1, <3>2 DEF Inv, SettledInv
  <2> QED BY <2>1
<1> HIDE DEF done, known
<1>10. /\ UsagesOf(done) \subseteq Usages /\ UsagesOf(known) \subseteq Usages
       /\ HasSink => UsagesOf(done) \subseteq sink /\ UsagesOf(known) \subseteq sink
  BY <1>9 DEF UsagesOf
<1>11. TypeOK'
  BY <1>1, <1>2, <1>3, <1>10 DEF Inv, TypeOK, OutputTypeOK
<1>12. PostedInv' /\ KnownInv'
  BY <1>1, <1>8, <1>10 DEF Inv, PostedInv, KnownInv
<1>13. SettledInv'
  BY <1>1, <1>2, SettledKept DEF Idle
<1> QED BY <1>6, <1>8, <1>11, <1>12, <1>13 DEF Inv

\* The instance restarts.
LEMMA InvCrash == ASSUME Inv, Crash PROVE Inv'
<1>1. /\ UNCHANGED <<docs, markers, inputs, sink, clock, acknowledged, torn>>
      /\ Fault /\ toReplay' \subseteq inputs
      /\ call' = [c \in Calls |-> Idle] /\ queue' = [g \in Groups |-> <<>>]
      /\ runs' = {} /\ batches' = {} /\ cache' = {}
  BY DEF Crash, outputVars
<1>2. faults' \in 0 .. MaxFaults
  BY <1>1, FaultType DEF Inv, TypeOK
<1>3. Idle \in Call /\ queue' \in [Groups -> Seq(Calls)]
  BY <1>1, EmptySeq DEF Call
<1>4. TypeOK'
  BY <1>1, <1>2, <1>3 DEF Inv, TypeOK, OutputTypeOK
<1>5. QueueInv' /\ RunsInv' /\ PostedInv' /\ KnownInv' /\ SettledInv'
  BY <1>1, EmptySeq DEF Inv, QueueInv, RunsInv, PostedInv, KnownInv, SettledInv, Idle
<1> QED BY <1>4, <1>5 DEF Inv

\* A period begins; or nothing changes.
LEMMA InvTick == ASSUME Inv, Tick \/ UNCHANGED vars PROVE Inv'
<1>1. /\ UNCHANGED <<docs, markers, cache, inputs, sink, toReplay, call, queue, runs, batches,
                     acknowledged, torn, faults>>
      /\ clock' = clock \/ (clock < LastPeriod /\ clock' = clock + 1)
  BY DEF Tick, vars, outputVars, inputVars
<1>2. clock' \in Periods
  BY <1>1, PeriodsAssumption DEF Inv, TypeOK, Periods
<1>3. /\ QueueInv' /\ RunsInv'
      /\ \A r \in runs : UsagesOf(Members(r))' = UsagesOf(Members(r))
  BY <1>1, BatchesUnchanged
<1>4. TypeOK'
  BY <1>1, <1>2 DEF Inv, TypeOK, OutputTypeOK
<1>5. PostedInv' /\ KnownInv' /\ SettledInv'
  BY <1>1, <1>3 DEF Inv, PostedInv, KnownInv, SettledInv
<1> QED BY <1>3, <1>4, <1>5 DEF Inv

\* The invariant holds in every reachable state.
THEOREM ReducerInvariantHolds == Spec => []Inv
<1>1. Init => Inv
  BY InvInit
<1>2. Inv /\ [Next]_vars => Inv'
  <2> SUFFICES ASSUME Inv, [Next]_vars
               PROVE  Inv'
    OBVIOUS
  <2>1. ASSUME NEW c \in Calls, CallStep(c)
        PROVE  Inv'
    BY <2>1, InvPlay, InvDetectDup, InvLogInput DEF CallStep
  <2>2. CASE Flush
    BY <2>2, InvFlush
  <2>3. ASSUME NEW r \in runs, RunStep(r)
        PROVE  Inv'
    BY <2>3, InvRefuse, InvReduce, InvPostOutputs, InvFailPost, InvLogOutputs DEF RunStep
  <2>4. CASE Crash
    BY <2>4, InvCrash
  <2>5. CASE Tick \/ UNCHANGED vars
    BY <2>5, InvTick
  <2>6. ASSUME NEW b \in batches, AnswerBatch(b)
        PROVE  Inv'
    BY <2>6, InvAnswerBatch
  <2> QED BY <2>1, <2>2, <2>3, <2>4, <2>5, <2>6 DEF Next
<1> QED BY <1>1, <1>2, PTL DEF Spec

\* Every variable of the reducer has its type, whatever fails.
THEOREM ReducerTypeCorrect == Spec => []TypeOK
<1>1. Inv => TypeOK
  BY DEF Inv
<1> QED BY <1>1, ReducerInvariantHolds, PTL

\* The sink has taken in every usage that was answered with success or as a duplicate, for
\* any number of calls that race, fail, are retried or replayed.
THEOREM AnsweredAreAggregated == Spec => []AnsweredIsAggregated
<1>1. Inv => AnsweredIsAggregated
  BY DEF Inv, KnownInv, AnsweredIsAggregated
<1> QED BY <1>1, ReducerInvariantHolds, PTL

-----------------------------------------------------------------------------
(* Exact sums.  First, what a step leaves as it is.                        *)

\* The last document of a month stays while no document of the month changes.
LEMMA LastAccumKept ==
    ASSUME NEW k, NEW month,
           \A p \in Periods : MonthOf[p] = month => docs'[k][p] = docs[k][p]
    PROVE  LastAccum(k, month)' = LastAccum(k, month)
<1>1. Found(k, month)' = Found(k, month)
  BY DEF Found
<1>2. CASE Found(k, month) = {}
  BY <1>1, <1>2 DEF LastAccum
<1>3. CASE Found(k, month) # {}
  <2>1. Found(k, month) \in SUBSET Periods
    BY DEF Found
  <2>2. PICK last : last = CHOOSE p \in Found(k, month) : \A q \in Found(k, month) : q <= p
    OBVIOUS
  <2>3. last \in Found(k, month)
    BY <1>3, <2>1, <2>2, LatestExists
  <2>4. docs'[k][last] = docs[k][last]
    BY <2>3 DEF Found
  <2>5. LastAccum(k, month) = [period |-> last, sum |-> docs[k][last]]
    BY <1>3, <2>2 DEF LastAccum
  <2>6. LastAccum(k, month)' = [period |-> last, sum |-> docs'[k][last]]
    BY <1>1, <1>3, <2>2 DEF LastAccum
  <2> QED BY <2>4, <2>5, <2>6
<1> QED BY <1>2, <1>3

\* What has been written under the latest period of a month is the last document.
LEMMA LastAccumWritten ==
    ASSUME NEW k, NEW p \in Periods, docs'[k][p] # None,
           \A q \in Periods : MonthOf[q] = MonthOf[p] /\ docs'[k][q] # None => q <= p
    PROVE  LastAccum(k, MonthOf[p])' = [period |-> p, sum |-> docs'[k][p]]
<1> DEFINE S == {q \in Periods : MonthOf[q] = MonthOf[p] /\ docs'[k][q] # None}
<1>1. p \in S /\ \A q \in S : q <= p
  OBVIOUS
<1>2. PICK last : last = CHOOSE x \in S : \A q \in S : q <= x
  OBVIOUS
<1>3. last \in S /\ \A q \in S : q <= last
  BY <1>1, <1>2
<1>4. last = p
  <2>1. last <= p /\ p <= last /\ last \in Periods
    BY <1>1, <1>3
  <2> QED BY <2>1, PeriodsAssumption DEF Periods
<1>5. S # {} /\ Found(k, MonthOf[p])' = S
  BY <1>1 DEF Found
<1>6. LastAccum(k, MonthOf[p])' = [period |-> last, sum |-> docs'[k][last]]
  BY <1>2, <1>5 DEF LastAccum
<1> QED BY <1>4, <1>6

\* The last period of a month in which there is one.
LEMMA LastPeriodOfIs ==
    ASSUME NEW month \in Months
    PROVE  /\ LastPeriodOf(month) \in Periods /\ MonthOf[LastPeriodOf(month)] = month
           /\ \A q \in Periods : MonthOf[q] = month => q <= LastPeriodOf(month)
<1> DEFINE S == {p \in Periods : MonthOf[p] = month}
<1>1. S # {} /\ S \in SUBSET Periods
  BY DEF Months
<1>2. PICK p \in S : \A q \in S : q <= p
  BY <1>1, LatestExists
<1> QED BY <1>2 DEF LastPeriodOf

\* The period of a usage is in its month, and the latest of it that has begun.
LEMMA PeriodOfIs ==
    ASSUME TypeOK, NEW u \in Usages, UsageMonth[u] <= MonthOf[clock]
    PROVE  /\ PeriodOf(u) \in Periods /\ MonthOf[PeriodOf(u)] = UsageMonth[u]
           /\ \A p \in Periods :
                 MonthOf[p] = UsageMonth[u] /\ (MonthOf[p] < MonthOf[clock] \/ p <= clock)
                     => p <= PeriodOf(u)
           /\ MonthOf[PeriodOf(u)] < MonthOf[clock] \/ PeriodOf(u) = clock
<1>1. clock \in Periods /\ UsageMonth[u] \in Months
  BY UsagesAssumption DEF TypeOK
<1>2. MonthOf[clock] \in Nat /\ UsageMonth[u] \in Nat
  BY <1>1, PeriodsAssumption DEF Months
<1>3. CASE UsageMonth[u] = MonthOf[clock]
  <2>1. PeriodOf(u) = clock
    BY <1>3 DEF PeriodOf
  <2> QED BY <2>1, <1>1, <1>2, <1>3
<1>4. CASE UsageMonth[u] # MonthOf[clock]
  <2>1. PeriodOf(u) = LastPeriodOf(UsageMonth[u])
    BY <1>4 DEF PeriodOf
  <2>2. UsageMonth[u] < MonthOf[clock]
    BY <1>2, <1>4
  <2> QED BY <2>1, <2>2, <1>1, LastPeriodOfIs
<1> QED BY <1>3, <1>4

\* No call gets hold of a usage.
LEMMA AloneKept ==
    ASSUME AloneInv, UNCHANGED markers,
           \A c \in Calls : InHand(c)' => InHand(c) /\ call'[c].usage = call[c].usage
    PROVE  AloneInv'
  BY DEF AloneInv

\* No run begins, and those that are left keep their calls and their keys.
LEMMA RunsKept ==
    ASSUME Inv, GroupsInv, BaseInv, runs' \subseteq runs,
           \A r \in runs' : \A c \in Members(r) : call'[c] = call[c],
           \A r \in runs' : r.at # "waiting" =>
               \A k \in KeysOf[GroupOfRun(r)] : docs'[k] = docs[k]
    PROVE  GroupsInv' /\ BaseInv'
<1>1. \A r \in runs' : r \in runs /\ \A i \in DOMAIN r.batch : call'[r.batch[i]] = call[r.batch[i]]
  BY DEF Members
<1>2. \A r \in runs' : call'[r.batch[1]] = call[r.batch[1]]
  BY RunMembers
<1>3. \A r \in runs' : GroupOfRun(r)' = GroupOfRun(r) /\ MonthOfRun(r)' = MonthOfRun(r)
  BY <1>2 DEF GroupOfRun, MonthOfRun
<1>4. GroupsInv'
  BY <1>1, <1>3 DEF GroupsInv
<1>5. ASSUME NEW r \in runs', r.at # "waiting", NEW k \in KeysOf[GroupOfRun(r)]
      PROVE  r.base[k] = LastAccum(k, MonthOfRun(r))'
  <2>1. PICK month : month = MonthOfRun(r)
    OBVIOUS
  <2>2. MonthOfRun(r)' = month
    BY <1>3, <2>1
  <2>3. LastAccum(k, month)' = LastAccum(k, month)
    BY <1>5, LastAccumKept
  <2>4. r.base[k] = LastAccum(k, month)
    BY <1>5, <2>1 DEF BaseInv
  <2>5. LastAccum(k, MonthOfRun(r))' = LastAccum(k, month)'
    BY <2>2 DEF LastAccum, Found
  <2> QED BY <2>3, <2>4, <2>5
<1>6. BaseInv'
  BY <1>3, <1>5 DEF BaseInv
<1> QED BY <1>4, <1>6

\* No output is written.
LEMMA OutputsKept ==
    ASSUME PastInv, AccumulatedExactly, UNCHANGED <<docs, markers, torn, clock>>
    PROVE  PastInv' /\ AccumulatedExactly'
<1>1. PastInv'
  BY DEF PastInv
<1>2. \A k, month : LastAccum(k, month)' = LastAccum(k, month)
  BY LastAccumKept
<1>3. AccumulatedExactly'
  BY <1>2 DEF AccumulatedExactly
<1> QED BY <1>1, <1>3

\* No call comes in.
LEMMA NotAheadKept ==
    ASSUME NotAhead, UNCHANGED clock,
           \A c \in Calls : call'[c] # Idle => call[c] # Idle /\ call'[c].usage = call[c].usage
    PROVE  NotAhead'
  BY DEF NotAhead

\* A run that goes on has what it read, and its lock to itself.
LEMMA RunGoesOn ==
    ASSUME Inv, GroupsInv, BaseInv, NEW r \in runs, NEW s \in Run, s.batch = r.batch,
           Advance(r, s), UNCHANGED <<call, docs>>,
           \A k \in KeysOf[GroupOfRun(r)] : s.base[k] = LastAccum(k, MonthOfRun(r)),
           r.at # "waiting" \/ ~Locked(GroupOfRun(r))
    PROVE  GroupsInv' /\ BaseInv'
<1>1. runs' = (runs \ {r}) \cup {s}
  BY DEF Advance
<1>2. GroupOfRun(s) = GroupOfRun(r) /\ MonthOfRun(s) = MonthOfRun(r)
  BY DEF GroupOfRun, MonthOfRun
<1>3. \A q : GroupOfRun(q)' = GroupOfRun(q) /\ MonthOfRun(q)' = MonthOfRun(q)
  BY DEF GroupOfRun, MonthOfRun
<1>4. \A q \in runs' : \A i, j \in DOMAIN q.batch :
          /\ GroupOf[call[q.batch[i]].usage] = GroupOfRun(q)
          /\ q.batch[i] = q.batch[j] => i = j
  BY <1>1, <1>2 DEF GroupsInv
<1>5. \A q \in runs \ {r} : q.at # "waiting" => LockOf[GroupOfRun(q)] # LockOf[GroupOfRun(r)]
  BY DEF GroupsInv, Locked
<1>6. \A p, q \in runs' :
          p.at # "waiting" /\ q.at # "waiting" /\ LockOf[GroupOfRun(p)] = LockOf[GroupOfRun(q)]
              => p = q
  BY <1>1, <1>2, <1>5 DEF GroupsInv
<1>7. GroupsInv'
  BY <1>3, <1>4, <1>6 DEF GroupsInv
<1>8. \A q \in runs' : q.at # "waiting" =>
          \A k \in KeysOf[GroupOfRun(q)] : q.base[k] = LastAccum(k, MonthOfRun(q))
  BY <1>1, <1>2 DEF BaseInv
<1>9. \A q, k : LastAccum(k, MonthOfRun(q))' = LastAccum(k, MonthOfRun(q))
  BY <1>3 DEF LastAccum, Found
<1>10. BaseInv'
  BY <1>3, <1>8, <1>9 DEF BaseInv
<1> QED BY <1>7, <1>10

-----------------------------------------------------------------------------
(* What logging the outputs of a run does to the sums.                     *)

\* The calls of a run are of one month, and so of one period, the latest of the month.
LEMMA OnePeriod ==
    ASSUME Inv, NotAhead, CurrentCalls, MonthlyBatches, NEW r \in runs
    PROVE  \E p \in Periods :
               /\ MonthOf[p] = MonthOfRun(r)
               /\ MonthOf[p] < MonthOf[clock] \/ p = clock
               /\ \A q \in Periods :
                     MonthOf[q] = MonthOf[p] /\ (MonthOf[q] < MonthOf[clock] \/ q <= clock)
                         => q <= p
               /\ \A i \in DOMAIN r.batch : PeriodAt(r, i) = p
               /\ \A u \in UsagesOf(Members(r)) : UsageMonth[u] = MonthOf[p]
<1> DEFINE u == call[r.batch[1]].usage
           p == PeriodOf(u)
<1>1. r.batch[1] \in Members(r) /\ Members(r) \subseteq Calls /\ TypeOK
      /\ \A c \in Members(r) : call[c].at = "reducing" /\ call[c].usage \in Usages
  BY RunMembers DEF Inv
<1>2. \A c \in Members(r) : call[c] # Idle
  BY <1>1 DEF Idle
<1>3. u \in Usages /\ UsageMonth[u] <= MonthOf[clock] /\ MonthOfRun(r) = UsageMonth[u]
  BY <1>1, <1>2 DEF NotAhead, MonthOfRun
<1>4. \A c \in Members(r) : UsageMonth[call[c].usage] = UsageMonth[u]
  BY <1>1 DEF MonthlyBatches
<1>5. \A c \in Members(r) : call[c].period = p
  <2>1. ASSUME NEW c \in Members(r)
        PROVE  call[c].period = p
    <3>1. call[c].period = PeriodOf(call[c].usage)
      BY <1>1 DEF CurrentCalls, InHand
    <3>2. UsageMonth[call[c].usage] = UsageMonth[u]
      BY <1>4
    <3> QED BY <3>1, <3>2 DEF PeriodOf
  <2> QED BY <2>1
<1>6. \A i \in DOMAIN r.batch : PeriodAt(r, i) = p
  BY <1>5 DEF PeriodAt, Members
<1>7. \A v \in UsagesOf(Members(r)) : UsageMonth[v] = UsageMonth[u]
  BY <1>4 DEF UsagesOf
<1>8. /\ p \in Periods /\ MonthOf[p] = UsageMonth[u]
      /\ \A q \in Periods :
            MonthOf[q] = UsageMonth[u] /\ (MonthOf[q] < MonthOf[clock] \/ q <= clock)
                => q <= p
      /\ MonthOf[p] < MonthOf[clock] \/ p = clock
  BY <1>1, <1>3, PeriodOfIs
<1> HIDE DEF u, p
<1> QED BY <1>3, <1>6, <1>7, <1>8

\* Only the last call of a run puts documents, all of one period; what is put is the sum
\* that was read and the usages of the batch.
LEMMA WriteIs ==
    ASSUME Inv, NEW r \in runs, NEW p \in Periods, \A i \in DOMAIN r.batch : PeriodAt(r, i) = p,
           NEW written \in SUBSET Puts(r), Write(r, written)
    PROVE  /\ \A k \in Keys, q \in Periods :
                 \/ docs'[k][q] = docs[k][q]
                 \/ /\ q = p /\ k \in KeysOf[GroupOfRun(r)]
                    /\ docs'[k][q] = Reduced(r.base[k],
                           [i \in 1 .. Len(r.batch) |-> call[r.batch[i]].usage])
           /\ markers' \subseteq markers \cup UsagesOf(Members(r)) /\ markers \subseteq markers'
           /\ written = {} => docs' = docs /\ markers' = markers
           /\ written = Puts(r) =>
                 /\ markers' = markers \cup UsagesOf(Members(r))
                 /\ \A k \in KeysOf[GroupOfRun(r)] : docs'[k][p] = Reduced(r.base[k],
                        [i \in 1 .. Len(r.batch) |-> call[r.batch[i]].usage])
<1> DEFINE n == Len(r.batch)
           K == KeysOf[GroupOfRun(r)]
           list == [i \in 1 .. n |-> call[r.batch[i]].usage]
<1>1. DOMAIN r.batch = 1 .. n /\ n \in Nat /\ n \in 1 .. n /\ K \subseteq Keys
  <2>1. r.batch # <<>> /\ r.batch \in Seq(Calls)
    BY RunMembers DEF Inv, RunsInv
  <2> QED BY <2>1, RunMembers, EmptySeq, LenProperties
<1>2. \A k \in Keys : k # None
  BY NoneIsNoSum
<1>3. ASSUME NEW put \in Puts(r), put.key # None
      PROVE  put.index = n /\ put.key \in K
  <2>1. put.index \in 1 .. n /\ put.key \in K
    BY <1>1, <1>3 DEF Puts
  <2>2. ~(n > put.index)
    BY <1>1, <1>3, <2>1 DEF Puts
  <2> QED BY <2>1, <2>2, <1>1
<1>4. \A k \in K : [index |-> n, key |-> k] \in Puts(r)
  BY <1>1, <1>2 DEF Puts
<1>5. \A i \in 1 .. n : [index |-> i, key |-> None] \in Puts(r)
  BY <1>1 DEF Puts
<1>6. ASSUME NEW k \in Keys, NEW q \in Periods,
             \E put \in written : put.key = k /\ PeriodAt(r, put.index) = q
      PROVE  q = p /\ k \in K /\ docs'[k][q] = Reduced(r.base[k], list)
  <2>1. PICK put : put = CHOOSE x \in written : x.key = k /\ PeriodAt(r, x.index) = q
    OBVIOUS
  <2>2. put \in written /\ put.key = k /\ PeriodAt(r, put.index) = q
    BY <1>6, <2>1
  <2>3. put.index = n /\ k \in K
    BY <2>2, <1>2, <1>3
  <2>4. q = p
    BY <2>2, <2>3, <1>1
  <2>5. docs'[k][q] = Reduced(r.base[k], [i \in 1 .. put.index |-> call[r.batch[i]].usage])
    BY <1>6, <2>1 DEF Write
  <2> QED BY <2>3, <2>4, <2>5
<1>7. \A k \in Keys, q \in Periods :
          ~(\E put \in written : put.key = k /\ PeriodAt(r, put.index) = q)
              => docs'[k][q] = docs[k][q]
  BY DEF Write
<1>8. \A k \in Keys, q \in Periods :
          \/ docs'[k][q] = docs[k][q]
          \/ q = p /\ k \in K /\ docs'[k][q] = Reduced(r.base[k], list)
  BY <1>6, <1>7
<1>9. markers' = markers \cup
          {call[r.batch[put.index]].usage : put \in {x \in written : x.key = None}}
  BY DEF Write
<1>10. \A put \in written : put.index \in 1 .. n
  BY <1>1 DEF Puts
<1>11. UsagesOf(Members(r)) = {call[r.batch[i]].usage : i \in 1 .. n}
  BY <1>1 DEF UsagesOf, Members
<1>12. markers' \subseteq markers \cup UsagesOf(Members(r)) /\ markers \subseteq markers'
  BY <1>9, <1>10, <1>11
<1>13. ASSUME written = {}
       PROVE  docs' = docs /\ markers' = markers
  <2>1. markers' = markers
    BY <1>9, <1>13
  <2>2. docs' = [k \in Keys |-> [q \in Periods |-> docs[k][q]]]
    BY <1>13 DEF Write
  <2>3. docs \in [Keys -> [Periods -> Sum \cup {None}]]
    BY DEF Inv, TypeOK, OutputTypeOK
  <2>4. \A k \in Keys : docs[k] = [q \in Periods |-> docs[k][q]]
    BY <2>3
  <2> QED BY <2>1, <2>2, <2>3, <2>4
<1>14. ASSUME written = Puts(r)
       PROVE  /\ markers' = markers \cup UsagesOf(Members(r))
              /\ \A k \in K : docs'[k][p] = Reduced(r.base[k], list)
  <2>1. UsagesOf(Members(r)) \subseteq markers'
    <3>1. ASSUME NEW i \in 1 .. n
          PROVE  call[r.batch[i]].usage \in markers'
      <4>1. PICK put \in written : put.index = i /\ put.key = None
        BY <1>5, <1>14
      <4> QED BY <4>1, <1>9
    <3> QED BY <3>1, <1>11
  <2>2. ASSUME NEW k \in K
        PROVE  docs'[k][p] = Reduced(r.base[k], list)
    <3>1. PICK put \in written : put.index = n /\ put.key = k
      BY <1>4, <1>14
    <3>2. PeriodAt(r, put.index) = p
      BY <1>1, <3>1
    <3> QED BY <3>1, <3>2, <1>1, <1>6
  <2> QED BY <2>1, <2>2, <1>12
<1> HIDE DEF n, K, list
<1>15. QED BY <1>8, <1>12, <1>13, <1>14 DEF n, K, list

\* Two runs that have begun share no key.
LEMMA OtherRunsKeys ==
    ASSUME LocksCoverKeys, Inv, GroupsInv, NEW r \in runs, r.at # "waiting",
           NEW q \in runs, q.at # "waiting", q # r
    PROVE  KeysOf[GroupOfRun(q)] \cap KeysOf[GroupOfRun(r)] = {}
<1>1. GroupOfRun(q) \in Groups /\ GroupOfRun(r) \in Groups
  BY RunMembers
<1>2. LockOf[GroupOfRun(q)] # LockOf[GroupOfRun(r)]
  BY DEF GroupsInv
<1> QED BY <1>1, <1>2 DEF LocksCoverKeys

\* The sums that are written in full count the usages of the batch once more, which have
\* not been counted before; nothing else changes.
LEMMA WriteIsExact ==
    ASSUME Inv, AloneInv, GroupsInv, BaseInv, PastInv, AccumulatedExactly,
           NotAhead, CurrentCalls, MonthlyBatches,
           NEW r \in runs, r.at # "waiting",
           NEW written \in SUBSET Puts(r), Write(r, written), UNCHANGED clock
    PROVE  PastInv' /\ AccumulatedExactly'
<1> DEFINE n == Len(r.batch)
           K == KeysOf[GroupOfRun(r)]
           list == [i \in 1 .. n |-> call[r.batch[i]].usage]
           U == UsagesOf(Members(r))
<1>1. PICK p \in Periods :
          /\ MonthOf[p] = MonthOfRun(r)
          /\ MonthOf[p] < MonthOf[clock] \/ p = clock
          /\ \A q \in Periods :
                MonthOf[q] = MonthOf[p] /\ (MonthOf[q] < MonthOf[clock] \/ q <= clock)
                    => q <= p
          /\ \A i \in DOMAIN r.batch : PeriodAt(r, i) = p
          /\ \A u \in U : UsageMonth[u] = MonthOf[p]
  BY OnePeriod
<1>2. /\ \A k \in Keys, q \in Periods :
            \/ docs'[k][q] = docs[k][q]
            \/ q = p /\ k \in K /\ docs'[k][q] = Reduced(r.base[k], list)
      /\ markers' \subseteq markers \cup U /\ markers \subseteq markers'
      /\ written = {} => docs' = docs /\ markers' = markers
      /\ written = Puts(r) =>
            /\ markers' = markers \cup U
            /\ \A k \in K : docs'[k][p] = Reduced(r.base[k], list)
  BY <1>1, WriteIs
<1>3. /\ DOMAIN r.batch = 1 .. n /\ n \in Nat /\ K \subseteq Keys /\ Members(r) \subseteq Calls
      /\ \A i \in 1 .. n : r.batch[i] \in Members(r)
      /\ U = {call[r.batch[i]].usage : i \in 1 .. n}
  BY RunMembers DEF UsagesOf, Members
<1>4. clock \in Periods /\ clock \in Nat /\ p \in Nat /\ MonthOf[clock] \in Nat
      /\ \A q \in Periods : q \in Nat /\ MonthOf[q] \in Nat
  BY PeriodsAssumption DEF Inv, TypeOK, Periods
<1>5. \A c \in Members(r) : InHand(c)
  BY RunMembers DEF InHand
<1>6. \A u \in U : u \in Usages /\ u \notin markers
                   /\ UsageMonth[u] = MonthOf[p] /\ GroupOf[u] = GroupOfRun(r)
  <2>1. \A u \in U : u \notin markers
    BY <1>3, <1>5 DEF UsagesOf, AloneInv
  <2>2. \A u \in U : GroupOf[u] = GroupOfRun(r)
    BY <1>3 DEF GroupsInv
  <2>3. U \subseteq Usages
    BY RunMembers
  <2> QED BY <2>1, <2>2, <2>3, <1>1
<1>7. \A i, j \in 1 .. n : list[i] = list[j] => i = j
  <2>1. \A i, j \in 1 .. n : call[r.batch[i]].usage = call[r.batch[j]].usage
                                 => r.batch[i] = r.batch[j]
    BY <1>3, <1>5 DEF AloneInv
  <2> QED BY <2>1, <1>3 DEF GroupsInv
<1>8. PastInv'
  <2>1. ASSUME NEW k \in Keys, NEW q \in Periods, docs'[k][q] # None
        PROVE  MonthOf[q] < MonthOf[clock] \/ (MonthOf[q] = MonthOf[clock] /\ q <= clock)
    <3>1. CASE docs'[k][q] = docs[k][q]
      BY <2>1, <3>1 DEF PastInv
    <3>2. CASE q = p
      BY <3>2, <1>1, <1>4
    <3> QED BY <3>1, <3>2, <1>2
  <2> QED BY <2>1 DEF PastInv
<1>9. \A k \in K : r.base[k] = LastAccum(k, MonthOf[p])
  BY <1>1 DEF BaseInv
<1> DEFINE Counted(k, month, u) ==
               IF LastAccum(k, month) = None THEN 0 ELSE LastAccum(k, month).sum[u]
           Should(k, month, u) ==
               IF u \in markers /\ UsageMonth[u] = month /\ k \in KeysOf[GroupOf[u]] THEN 1 ELSE 0
<1>10. \A k \in Keys \ torn, month \in Months, u \in Usages :
           Counted(k, month, u) = Should(k, month, u)
  BY DEF AccumulatedExactly
<1>11. torn \subseteq torn'
       /\ (written = {} \/ written = Puts(r) \/ K \subseteq torn')
  BY DEF Write
<1>12. ASSUME NEW k \in Keys \ torn', NEW month \in Months, NEW u \in Usages
       PROVE  (IF LastAccum(k, month)' = None THEN 0 ELSE LastAccum(k, month)'.sum[u])
                  = IF u \in markers' /\ UsageMonth[u] = month /\ k \in KeysOf[GroupOf[u]]
                    THEN 1 ELSE 0
  <2>1. Counted(k, month, u) = Should(k, month, u)
    BY <1>10, <1>11
  <2>2. CASE k \notin K \/ written = {} \/ month # MonthOf[p]
    <3>1. \A q \in Periods : MonthOf[q] = month => docs'[k][q] = docs[k][q]
      BY <2>2, <1>2
    <3>2. LastAccum(k, month)' = LastAccum(k, month)
      BY <3>1, LastAccumKept
    <3>3. (u \in markers' /\ UsageMonth[u] = month /\ k \in KeysOf[GroupOf[u]])
              <=> (u \in markers /\ UsageMonth[u] = month /\ k \in KeysOf[GroupOf[u]])
      BY <2>2, <1>2, <1>6
    <3> QED BY <2>1, <3>2, <3>3
  <2>3. CASE k \in K /\ written = Puts(r) /\ month = MonthOf[p]
    <3>1. docs'[k][p] = Reduced(r.base[k], list) /\ markers' = markers \cup U
      BY <2>3, <1>2
    <3>2. docs'[k][p] # None
      <4>1. docs'[k][p] \in Sum
        <5>1. r.base[k] \in LastDoc \cup {None}
          BY DEF Inv, TypeOK, Run
        <5>2. list \in [1 .. n -> Usages]
          BY <1>3, <1>6
        <5>3. Reduced(r.base[k], list) \in Sum
          BY <5>1, <5>2, <1>3, ReducedType
        <5> QED BY <5>3, <3>1
      <4> QED BY <4>1, NoneIsNoSum
    <3>3. \A q \in Periods : MonthOf[q] = MonthOf[p] /\ docs'[k][q] # None => q <= p
      BY <1>1, <1>4, <1>8 DEF PastInv
    <3>4. LastAccum(k, MonthOf[p])' = [period |-> p, sum |-> docs'[k][p]]
      BY <3>2, <3>3, LastAccumWritten
    <3>5. LastAccum(k, month)' = [period |-> p, sum |-> docs'[k][p]]
      BY <3>4, <2>3 DEF LastAccum, Found
    <3>6. [period |-> p, sum |-> docs'[k][p]] # None
      <4>1. docs'[k][p] \in Sum
        BY <3>2, WriteType DEF OutputTypeOK
      <4> QED BY <4>1, NoneIsNoSum DEF LastDoc
    <3>7. docs'[k][p][u] = Counted(k, month, u) + Cardinality({i \in DOMAIN list : list[i] = u})
      BY <3>1, <1>9, <2>3 DEF Reduced
    <3>8. Cardinality({i \in DOMAIN list : list[i] = u}) = IF u \in U THEN 1 ELSE 0
      <4>1. CASE u \in U
        <5>1. PICK i \in 1 .. n : list[i] = u
          BY <4>1, <1>3
        <5>2. {j \in DOMAIN list : list[j] = u} = {i}
          BY <5>1, <1>7
        <5>3. Cardinality({i}) = 1
          BY FS_Singleton
        <5> QED BY <5>2, <5>3, <4>1
      <4>2. CASE u \notin U
        <5>1. {j \in DOMAIN list : list[j] = u} = {}
          BY <4>2, <1>3
        <5> QED BY <5>1, <4>2, FS_EmptySet
      <4> QED BY <4>1, <4>2
    <3>9. docs'[k][p][u] = Should(k, month, u) + IF u \in U THEN 1 ELSE 0
      BY <3>7, <3>8, <2>1
    <3>10. CASE u \in U
      <4>1. /\ Should(k, month, u) = 0
            /\ u \in markers' /\ UsageMonth[u] = month /\ k \in KeysOf[GroupOf[u]]
        BY <3>10, <3>1, <1>6, <2>3
      <4>2. docs'[k][p][u] = 1
        BY <4>1, <3>9, <3>10
      <4> QED BY <4>1, <4>2, <3>5, <3>6
    <3>11. CASE u \notin U
      <4>1. docs'[k][p][u] = Should(k, month, u)
        BY <3>9, <3>11
      <4>2. u \in markers' <=> u \in markers
        BY <3>1, <3>11
      <4> QED BY <4>1, <4>2, <3>5, <3>6
    <3> QED BY <3>10, <3>11
  <2> QED BY <2>2, <2>3, <1>11
<1>13. AccumulatedExactly'
  BY <1>12 DEF AccumulatedExactly
<1> QED BY <1>8, <1>13

-----------------------------------------------------------------------------
(* The inductive invariant of the sums.                                    *)

\* A call comes in, is a duplicate, or goes on with a usage that no other call has in hand.
LEMMA ExactCall ==
    ASSUME Inv, ExactInv, NEW c \in Calls, CallStep(c)
    PROVE  ExactInv'
<1>1. call \in [Calls -> Call] /\ UNCHANGED <<docs, markers, clock, runs, torn>>
  BY DEF CallStep, DetectDup, LogInput, Fail, Post, Replay, outputVars, inputVars, Inv, TypeOK
<1>2. PastInv' /\ AccumulatedExactly'
  BY <1>1, OutputsKept DEF ExactInv
<1>3. /\ \A d \in Calls \ {c} : call'[d] = call[d]
      /\ call[c].at = "reducing" => call'[c] = call[c]
  <2>1. CASE \E u \in Usages : Post(c, u) \/ Replay(c, u)
    BY <2>1, <1>1 DEF Post, Replay, Play, Idle
  <2>2. CASE DetectDup(c) \/ Fail(c) \/ LogInput(c)
    <3>1. /\ call[c].at \in {"locking", "logging"}
          /\ \/ call' = [call EXCEPT ![c] = Idle]
             \/ call' = [call EXCEPT ![c].at = "logging"]
             \/ call' = [call EXCEPT ![c].at = "batched"]
      BY <2>2 DEF DetectDup, Fail, Answer, LogInput
    <3>2. call[c] \in Call /\ call[c] # Idle
      BY <3>1, <1>1 DEF Idle
    <3>3. /\ call'[c] \in {Idle, [call[c] EXCEPT !.at = "logging"],
                           [call[c] EXCEPT !.at = "batched"]}
          /\ \A d \in Calls \ {c} : call'[d] = call[d]
      BY <3>1, <1>1
    <3> QED BY <3>1, <3>2, <3>3 DEF Call, Idle
  <2> QED BY <2>1, <2>2 DEF CallStep
<1>4. GroupsInv' /\ BaseInv'
  <2>1. \A r \in runs : \A d \in Members(r) : d \in Calls /\ call'[d] = call[d]
    BY <1>3, RunMembers
  <2> QED BY <1>1, <2>1, RunsKept DEF ExactInv
<1>5. NotAhead' /\ AloneInv'
  <2>1. CASE \E u \in Usages : Post(c, u) \/ Replay(c, u)
    <3>1. PICK u \in Usages : Post(c, u) \/ Replay(c, u)
      BY <2>1
    <3>2. CASE call' = call
      BY <3>2, <1>1, AloneKept, NotAheadKept DEF ExactInv, InHand
    <3>3. CASE Play(c, u, TRUE) \/ Play(c, u, FALSE)
      <4>1. call'[c].at = "locking" /\ call'[c].usage = u /\ UsageMonth[u] <= MonthOf[clock]
        BY <3>3, <1>1 DEF Play
      <4>2. NotAhead'
        BY <4>1, <1>1, <1>3 DEF ExactInv, NotAhead
      <4>3. \A d \in Calls : InHand(d)' => InHand(d) /\ call'[d].usage = call[d].usage
        BY <4>1, <1>3 DEF InHand
      <4> QED BY <4>2, <4>3, <1>1, AloneKept DEF ExactInv
    <3> QED BY <3>1, <3>2, <3>3 DEF Post, Replay
  <2>2. CASE DetectDup(c) \/ Fail(c)
    <3>1. CASE call'[c] = Idle
      <4>1. \A d \in Calls : InHand(d)' => InHand(d) /\ call'[d].usage = call[d].usage
        BY <3>1, <1>3 DEF InHand, Idle
      <4>2. \A d \in Calls : call'[d] # Idle => call[d] # Idle /\ call'[d].usage = call[d].usage
        BY <3>1, <1>3
      <4> QED BY <4>1, <4>2, <1>1, AloneKept, NotAheadKept DEF ExactInv
    <3>2. CASE call'[c] # Idle
      <4>1. /\ call[c].at = "locking" /\ call[c].usage \notin markers /\ OidFree(c)
            /\ call' = [call EXCEPT ![c].at = "logging"]
        BY <3>2, <2>2, <1>1 DEF DetectDup, Fail, Answer
      <4>2. call[c] # Idle /\ call'[c].usage = call[c].usage /\ call'[c].at = "logging"
        <5>1. call[c] \in Call /\ call[c] # Idle
          BY <4>1, <1>1 DEF Idle
        <5>2. call'[c] = [call[c] EXCEPT !.at = "logging"]
          BY <4>1, <1>1
        <5> QED BY <5>1, <5>2 DEF Call
      <4>3. NotAhead'
        BY <4>2, <1>1, <1>3 DEF ExactInv, NotAhead
      <4>4. \A d \in Calls \ {c} : call[d].usage = call[c].usage => ~InHand(d)
        BY <4>1 DEF OidFree, InHand
      <4>5. \A d \in Calls \ {c} : InHand(d)' <=> InHand(d)
        BY <1>3 DEF InHand
      <4>6. AloneInv'
        <5>1. ASSUME NEW d \in Calls, InHand(d)'
              PROVE  call'[d].usage \notin markers
          BY <5>1, <4>1, <4>2, <4>5, <1>3 DEF ExactInv, AloneInv
        <5>2. ASSUME NEW d \in Calls, InHand(d)', NEW e \in Calls, InHand(e)',
                     call'[e].usage = call'[d].usage
              PROVE  d = e
          <6>1. CASE d # c /\ e # c
            BY <5>2, <6>1, <4>5, <1>3 DEF ExactInv, AloneInv
          <6>2. CASE d = c \/ e = c
            BY <5>2, <6>2, <4>2, <4>4, <4>5, <1>3
          <6> QED BY <6>1, <6>2
        <5> QED BY <5>1, <5>2, <1>1 DEF AloneInv
      <4> QED BY <4>3, <4>6
    <3> QED BY <3>1, <3>2
  <2>3. CASE LogInput(c)
    <3>1. call'[c] = [call[c] EXCEPT !.at = "batched"] /\ call[c].at = "logging"
      BY <2>3, <1>1 DEF LogInput
    <3>2. call[c] # Idle /\ call'[c].usage = call[c].usage /\ InHand(c)
      <4>1. call[c] \in Call /\ call[c] # Idle
        BY <3>1, <1>1 DEF Idle
      <4> QED BY <4>1, <3>1 DEF Call, InHand
    <3>3. \A d \in Calls : InHand(d)' => InHand(d) /\ call'[d].usage = call[d].usage
      BY <3>2, <1>3 DEF InHand
    <3>4. \A d \in Calls : call'[d] # Idle => call[d] # Idle /\ call'[d].usage = call[d].usage
      BY <3>2, <1>3
    <3> QED BY <3>3, <3>4, <1>1, AloneKept, NotAheadKept DEF ExactInv
  <2> QED BY <2>1, <2>2, <2>3 DEF CallStep
<1> QED BY <1>2, <1>4, <1>5 DEF ExactInv

\* The queues become batches: each is of one group, and has a call once.
LEMMA ExactFlush ==
    ASSUME Inv, ExactInv, Flush
    PROVE  ExactInv'
<1> DEFINE waiting == {g \in Groups : queue[g] # <<>>}
           new(g) == [batch |-> queue[g], at |-> "waiting",
                      base |-> [k \in Keys |-> None], good |-> 0]
<1>1. UNCHANGED <<docs, markers, clock, torn>>
  BY DEF Flush, outputVars
<1>2. /\ runs' = runs \cup {new(g) : g \in waiting}
      /\ call' = [c \in Calls |-> IF call[c].at = "batched"
                                  THEN [call[c] EXCEPT !.at = "reducing"] ELSE call[c]]
  BY DEF Flush
<1>3. call \in [Calls -> Call] /\ queue \in [Groups -> Seq(Calls)]
  BY DEF Inv, TypeOK
<1>4. ASSUME NEW c \in Calls
      PROVE  /\ call'[c].usage = call[c].usage
             /\ InHand(c)' => InHand(c)
             /\ call'[c] # Idle => call[c] # Idle
  <2>1. CASE call[c].at = "batched"
    <3>1. call'[c] = [call[c] EXCEPT !.at = "reducing"] /\ call[c] \in Call /\ call[c] # Idle
      BY <2>1, <1>2, <1>3 DEF Idle
    <3> QED BY <3>1, <2>1 DEF Call, InHand
  <2>2. CASE call[c].at # "batched"
    BY <2>2, <1>2, <1>3 DEF InHand
  <2> QED BY <2>1, <2>2
<1>5. NotAhead' /\ AloneInv'
  BY <1>1, <1>4, AloneKept, NotAheadKept DEF ExactInv
<1>6. PastInv' /\ AccumulatedExactly'
  BY <1>1, OutputsKept DEF ExactInv
<1>7. \A g \in waiting : new(g).batch = queue[g] /\ new(g).at = "waiting"
  OBVIOUS
<1> HIDE DEF new
<1>8. \A r \in runs : \A i \in DOMAIN r.batch : call'[r.batch[i]].usage = call[r.batch[i]].usage
  BY <1>4, RunMembers DEF Members
<1>9. \A r \in runs : GroupOfRun(r)' = GroupOfRun(r) /\ MonthOfRun(r)' = MonthOfRun(r)
  <2>1. \A r \in runs : call'[r.batch[1]].usage = call[r.batch[1]].usage
    BY <1>4, RunMembers
  <2> QED BY <2>1 DEF GroupOfRun, MonthOfRun
<1>10. GroupsInv'
  <2>1. ASSUME NEW r \in runs', NEW i \in DOMAIN r.batch, NEW j \in DOMAIN r.batch
        PROVE  /\ GroupOf[call'[r.batch[i]].usage] = GroupOfRun(r)'
               /\ r.batch[i] = r.batch[j] => i = j
    <3>1. CASE r \in runs
      <4>1. GroupOf[call[r.batch[i]].usage] = GroupOfRun(r) /\ (r.batch[i] = r.batch[j] => i = j)
        BY <3>1 DEF ExactInv, GroupsInv
      <4> QED BY <4>1, <3>1, <1>8, <1>9
    <3>2. CASE r \notin runs
      <4>1. PICK g \in waiting : r = new(g)
        BY <3>2, <1>2
      <4>2. r.batch = queue[g] /\ g \in Groups /\ queue[g] \in Seq(Calls) /\ queue[g] # <<>>
        BY <4>1, <1>3, <1>7
      <4>3. DOMAIN queue[g] = 1 .. Len(queue[g]) /\ 1 \in DOMAIN queue[g]
            /\ \A m \in DOMAIN queue[g] : queue[g][m] \in Calls
        BY <4>2, LenProperties, ElementOfSeq, EmptySeq
      <4>4. \A m \in DOMAIN queue[g] : GroupOf[call'[queue[g][m]].usage] = g
        BY <4>2, <4>3, <1>4 DEF Inv, QueueInv
      <4>5. GroupOfRun(r)' = g
        BY <4>2, <4>3, <4>4 DEF GroupOfRun
      <4>6. \A l, m \in DOMAIN queue[g] : queue[g][l] = queue[g][m] => l = m
        BY <4>2 DEF Inv, QueueInv
      <4> QED BY <4>2, <4>4, <4>5, <4>6
    <3> QED BY <3>1, <3>2
  <2>2. \A q \in runs' : q.at # "waiting" => q \in runs
    BY <1>2, <1>7
  <2>3. \A q, r \in runs' :
            q.at # "waiting" /\ r.at # "waiting"
                /\ LockOf[GroupOfRun(q)'] = LockOf[GroupOfRun(r)'] => q = r
    BY <2>2, <1>9 DEF ExactInv, GroupsInv
  <2> QED BY <2>1, <2>3 DEF GroupsInv
<1>11. BaseInv'
  <2>1. ASSUME NEW r \in runs', r.at # "waiting", NEW k \in KeysOf[GroupOfRun(r)']
        PROVE  r.base[k] = LastAccum(k, MonthOfRun(r))'
    <3>1. r \in runs
      BY <2>1, <1>2, <1>7
    <3>2. PICK month : month = MonthOfRun(r)
      OBVIOUS
    <3>3. MonthOfRun(r)' = month /\ k \in KeysOf[GroupOfRun(r)]
      BY <2>1, <3>1, <3>2, <1>9
    <3>4. LastAccum(k, month)' = LastAccum(k, month)
      BY <1>1, LastAccumKept
    <3>5. r.base[k] = LastAccum(k, month)
      BY <2>1, <3>1, <3>2, <3>3 DEF ExactInv, BaseInv
    <3>6. LastAccum(k, MonthOfRun(r))' = LastAccum(k, month)'
      BY <3>3 DEF LastAccum, Found
    <3> QED BY <3>4, <3>5, <3>6
  <2> QED BY <2>1 DEF BaseInv
<1> QED BY <1>5, <1>6, <1>10, <1>11 DEF ExactInv

\* A group ends, and nothing is written.
LEMMA ExactEnds ==
    ASSUME Inv, ExactInv, NEW r \in runs, NEW done, NEW known, Finish(r, done, known),
           UNCHANGED <<docs, markers, clock, torn>>
    PROVE  ExactInv'
<1>1. /\ \A c \in Calls \ Members(r) : call'[c] = call[c]
      /\ \A c \in Members(r) : call'[c].at \in Outcomes /\ call'[c].usage = call[c].usage
                               /\ call[c] # Idle
  BY CallsSettle
<1>2. runs' = runs \ {r}
  BY DEF Finish
<1>3. \A c \in Calls : InHand(c)' => InHand(c) /\ call'[c].usage = call[c].usage
  BY <1>1 DEF InHand, Outcomes
<1>4. NotAhead' /\ AloneInv'
  BY <1>1, <1>3, AloneKept, NotAheadKept DEF ExactInv
<1>5. PastInv' /\ AccumulatedExactly'
  BY OutputsKept DEF ExactInv
<1>6. \A q \in runs' : \A c \in Members(q) : call'[c] = call[c]
  BY <1>1, <1>2, RunMembers DEF Inv, RunsInv
<1>7. GroupsInv' /\ BaseInv'
  BY <1>2, <1>6, RunsKept DEF ExactInv
<1> QED BY <1>4, <1>5, <1>7 DEF ExactInv

\* The calls of a batch are answered when no run has them any more.
LEMMA ExactAnswerBatch ==
    ASSUME Inv, ExactInv, NEW b \in batches, AnswerBatch(b)
    PROVE  ExactInv'
<1>1. /\ UNCHANGED <<docs, markers, clock, runs, torn>>
      /\ call' = [c \in Calls |-> IF c \in b THEN Idle ELSE call[c]]
      /\ \A c \in b : call[c].at \in Outcomes
  BY DEF AnswerBatch, outputVars
<1>2. \A c \in Calls : call'[c] = Idle \/ call'[c] = call[c]
  BY <1>1
<1>3. \A c \in Calls : InHand(c)' => InHand(c) /\ call'[c].usage = call[c].usage
  BY <1>2 DEF InHand, Idle
<1>4. NotAhead' /\ AloneInv'
  BY <1>1, <1>2, <1>3, AloneKept, NotAheadKept DEF ExactInv
<1>5. PastInv' /\ AccumulatedExactly'
  BY <1>1, OutputsKept DEF ExactInv
<1>6. \A q \in runs' : \A c \in Members(q) : call'[c] = call[c]
  BY <1>1, RunMembers DEF Outcomes
<1>7. GroupsInv' /\ BaseInv'
  BY <1>1, <1>6, RunsKept DEF ExactInv
<1> QED BY <1>4, <1>5, <1>7 DEF ExactInv

\* A run has its lock, and reads the last documents of its month; or its outputs are posted.
LEMMA ExactGoesOn ==
    ASSUME Inv, ExactInv, CurrentCalls, NEW r \in runs,
           Reduce(r) \/ (PostOutputs(r) /\ r.good = Len(r.batch))
    PROVE  ExactInv'
<1>1. UNCHANGED <<docs, markers, clock, torn, call>>
  BY DEF Reduce, PostOutputs, outputVars
<1>2. NotAhead' /\ AloneInv' /\ PastInv' /\ AccumulatedExactly'
  BY <1>1, AloneKept, NotAheadKept, OutputsKept DEF ExactInv, InHand
<1>3. r \in Run
  BY DEF Inv, TypeOK
<1>4. KeysOf[GroupOfRun(r)] \subseteq Keys
  BY RunMembers
<1>5. CASE Reduce(r)
  <2> DEFINE month == MonthOf[call[r.batch[1]].period]
             base == [k \in Keys |-> IF k \in KeysOf[GroupOfRun(r)]
                                     THEN LastAccum(k, month) ELSE None]
  <2>1. month = MonthOfRun(r)
    <3>1. /\ r.batch[1] \in Calls /\ call[r.batch[1]].at = "reducing"
          /\ call[r.batch[1]].usage \in Usages
      BY RunMembers
    <3>2. call[r.batch[1]] # Idle
      BY <3>1 DEF Idle
    <3>3. /\ call[r.batch[1]].period = PeriodOf(call[r.batch[1]].usage)
          /\ UsageMonth[call[r.batch[1]].usage] <= MonthOf[clock]
      BY <3>1, <3>2 DEF CurrentCalls, InHand, ExactInv, NotAhead
    <3> QED BY <3>1, <3>3, PeriodOfIs DEF Inv, MonthOfRun
  <2>2. base \in [Keys -> LastDoc \cup {None}]
    BY LastAccumType DEF Inv, TypeOK
  <2>3. \A k \in KeysOf[GroupOfRun(r)] : base[k] = LastAccum(k, MonthOfRun(r))
    BY <2>1, <1>4
  <2>4. PICK good \in 0 .. Len(r.batch) :
            Advance(r, [r EXCEPT !.at = "reduced", !.good = good, !.base = base])
    BY <1>5 DEF Reduce
  <2> HIDE DEF base
  <2>5. PICK s : s = [r EXCEPT !.at = "reduced", !.good = good, !.base = base]
    OBVIOUS
  <2>6. s \in Run /\ s.batch = r.batch /\ s.base = base
    <3>1. good \in Nat
      BY RunMembers
    <3> QED BY <3>1, <2>2, <2>5, <1>3 DEF Run
  <2>7. ~Locked(GroupOfRun(r)) /\ Advance(r, s)
    BY <1>5, <2>4, <2>5 DEF Reduce
  <2>8. GroupsInv' /\ BaseInv'
    BY <2>3, <2>6, <2>7, <1>1, RunGoesOn DEF ExactInv
  <2> QED BY <2>8, <1>2 DEF ExactInv
<1>6. CASE PostOutputs(r) /\ r.good = Len(r.batch)
  <2>1. PICK s : s = [r EXCEPT !.at = "posted"]
    OBVIOUS
  <2>2. s \in Run /\ s.batch = r.batch /\ s.base = r.base
    BY <2>1, <1>3 DEF Run
  <2>3. r.at = "reduced" /\ Advance(r, s)
    BY <1>6, <2>1 DEF PostOutputs
  <2>4. \A k \in KeysOf[GroupOfRun(r)] : s.base[k] = LastAccum(k, MonthOfRun(r))
    BY <2>2, <2>3 DEF ExactInv, BaseInv
  <2>5. GroupsInv' /\ BaseInv'
    BY <2>2, <2>3, <2>4, <1>1, RunGoesOn DEF ExactInv
  <2> QED BY <2>5, <1>2 DEF ExactInv
<1> QED BY <1>5, <1>6

\* The outputs of a run are written, some of them or all, under keys that no other run has
\* read; its calls, and their usages with them, are in hand no longer.
LEMMA ExactWritten ==
    ASSUME Inv, ExactInv, LocksCoverKeys, CurrentCalls, MonthlyBatches, NEW r \in runs,
           LogOutputs(r) \/ ConflictOutputs(r) \/ FailOutputs(r)
    PROVE  ExactInv'
<1>1. r.at = "posted" /\ UNCHANGED clock
  BY DEF LogOutputs, ConflictOutputs, FailOutputs
<1>2. PICK written \in SUBSET Puts(r) : Write(r, written)
  BY DEF LogOutputs, ConflictOutputs, FailOutputs
<1>3. /\ runs' = runs \ {r}
      /\ \A c \in Calls \ Members(r) : call'[c] = call[c]
      /\ \A c \in Members(r) : call'[c].at \in Outcomes /\ call'[c].usage = call[c].usage
                               /\ call[c] # Idle
  <2>1. PICK done, known : Finish(r, done, known)
    BY DEF LogOutputs, ConflictOutputs, FailOutputs
  <2>2. \A c \in Members(r) : call'[c].at \in Outcomes /\ call'[c].usage = call[c].usage
                             /\ call[c] # Idle
    BY <2>1, CallsSettle
  <2>3. r.batch \in Seq(Calls) /\ runs' = runs \ {r}
    BY <2>1 DEF Finish, Inv, TypeOK, Run
  <2>4. \A c \in Calls \ Members(r) : call'[c] = call[c]
    BY <2>1 DEF Finish
  <2> QED BY ONLY <2>2, <2>3, <2>4
<1>4. PastInv' /\ AccumulatedExactly'
  BY <1>1, <1>2, WriteIsExact DEF ExactInv
<1>5. \A c \in Calls : call'[c] # Idle => call[c] # Idle /\ call'[c].usage = call[c].usage
  BY <1>3
<1>6. NotAhead'
  BY <1>1, <1>5, NotAheadKept DEF ExactInv
<1>7. PICK p \in Periods : \A i \in DOMAIN r.batch : PeriodAt(r, i) = p
  BY OnePeriod DEF ExactInv
<1>8. /\ markers' \subseteq markers \cup UsagesOf(Members(r))
      /\ \A k \in Keys, q \in Periods : k \notin KeysOf[GroupOfRun(r)] => docs'[k][q] = docs[k][q]
  BY <1>2, <1>7, WriteIs
<1>9. AloneInv'
  <2>1. \A c \in Calls : InHand(c)' => c \notin Members(r) /\ InHand(c) /\ call'[c] = call[c]
    BY <1>3 DEF InHand, Outcomes
  <2>2. \A c \in Members(r) : c \in Calls /\ InHand(c)
    BY RunMembers DEF InHand
  <2>3. \A c \in Calls : InHand(c)' => call[c].usage \notin UsagesOf(Members(r))
    BY <2>1, <2>2 DEF ExactInv, AloneInv, UsagesOf
  <2> QED BY <2>1, <2>3, <1>8 DEF ExactInv, AloneInv
<1>10. \A q \in runs' : \A c \in Members(q) : call'[c] = call[c]
  BY <1>3, RunMembers DEF Inv, RunsInv
<1>11. ASSUME NEW q \in runs', q.at # "waiting", NEW k \in KeysOf[GroupOfRun(q)]
       PROVE  docs'[k] = docs[k]
  <2>1. q \in runs /\ q # r
    BY <1>3
  <2>2. k \in Keys /\ k \notin KeysOf[GroupOfRun(r)]
    BY <2>1, <1>1, <1>11, OtherRunsKeys, RunMembers DEF ExactInv
  <2>3. docs'[k] \in [Periods -> Sum \cup {None}] /\ docs[k] \in [Periods -> Sum \cup {None}]
    BY <2>2, <1>2, WriteType DEF OutputTypeOK, Inv, TypeOK
  <2>4. \A p1 \in Periods : docs'[k][p1] = docs[k][p1]
    BY <2>2, <1>8
  <2> QED BY <2>3, <2>4
<1>12. GroupsInv' /\ BaseInv'
  BY <1>3, <1>10, <1>11, RunsKept DEF ExactInv
<1> QED BY <1>4, <1>6, <1>9, <1>12 DEF ExactInv

\* The instance restarts, a period begins, or nothing changes.
LEMMA ExactCrashTick ==
    ASSUME Inv, ExactInv, Crash \/ Tick \/ UNCHANGED vars
    PROVE  ExactInv'
<1>1. CASE Crash
  <2>1. /\ UNCHANGED <<docs, markers, clock, torn>>
        /\ call' = [c \in Calls |-> Idle] /\ runs' = {}
    BY <1>1 DEF Crash, outputVars
  <2>2. PastInv' /\ AccumulatedExactly'
    BY <2>1, OutputsKept DEF ExactInv
  <2>3. \A c \in Calls : call'[c] = Idle /\ call'[c].at = "idle"
    BY <2>1 DEF Idle
  <2>4. NotAhead' /\ AloneInv'
    BY <2>3 DEF NotAhead, AloneInv, InHand
  <2>5. GroupsInv' /\ BaseInv'
    BY <2>1 DEF GroupsInv, BaseInv
  <2> QED BY <2>2, <2>4, <2>5 DEF ExactInv
<1>2. CASE Tick \/ UNCHANGED vars
  <2>1. UNCHANGED <<docs, markers, torn, call, runs>> /\ clock' \in {clock, clock + 1}
        /\ clock' \in Periods
    BY <1>2, InvTick DEF Tick, vars, outputVars, inputVars, Inv, TypeOK
  <2>2. /\ clock \in Nat /\ clock <= clock' /\ MonthOf[clock] <= MonthOf[clock']
        /\ MonthOf[clock] \in Nat /\ MonthOf[clock'] \in Nat
        /\ \A p \in Periods : p \in Nat /\ MonthOf[p] \in Nat
    BY <2>1, PeriodsAssumption DEF Periods, Inv, TypeOK
  <2>3. PastInv'
    <3>1. ASSUME NEW k \in Keys, NEW p \in Periods, docs[k][p] # None
          PROVE  MonthOf[p] < MonthOf[clock'] \/ (MonthOf[p] = MonthOf[clock'] /\ p <= clock')
      <4>1. MonthOf[p] < MonthOf[clock] \/ (MonthOf[p] = MonthOf[clock] /\ p <= clock)
        BY <3>1 DEF ExactInv, PastInv
      <4> QED BY <4>1, <2>1, <2>2
    <3> QED BY <3>1, <2>1 DEF PastInv
  <2>4. NotAhead'
    <3>1. ASSUME NEW c \in Calls, call[c] # Idle
          PROVE  UsageMonth[call[c].usage] <= MonthOf[clock']
      <4>1. call[c] \in Call
        BY DEF Inv, TypeOK
      <4>2. call[c].usage \in Usages
        BY <3>1, <4>1 DEF Call
      <4>3. UsageMonth[call[c].usage] \in Nat
        BY <4>2, UsagesAssumption, PeriodsAssumption DEF Months
      <4>4. UsageMonth[call[c].usage] <= MonthOf[clock]
        BY <3>1 DEF ExactInv, NotAhead
      <4> QED BY <4>3, <4>4, <2>2
    <3> QED BY <3>1, <2>1 DEF NotAhead
  <2>5. AloneInv'
    BY <2>1, AloneKept DEF ExactInv, InHand
  <2>6. GroupsInv' /\ BaseInv'
    BY <2>1, RunsKept DEF ExactInv
  <2>7. AccumulatedExactly'
    <3>1. \A k, month : LastAccum(k, month)' = LastAccum(k, month)
      BY <2>1, LastAccumKept
    <3> QED BY <3>1, <2>1 DEF ExactInv, AccumulatedExactly
  <2> QED BY <2>3, <2>4, <2>5, <2>6, <2>7 DEF ExactInv
<1> QED BY <1>1, <1>2

\* Each step keeps the invariant of the sums.
LEMMA ExactStep ==
    ASSUME LocksCoverKeys, Inv, ExactInv, CurrentCalls, MonthlyBatches, [Next]_vars
    PROVE  ExactInv'
<1>1. ASSUME NEW c \in Calls, CallStep(c)
      PROVE  ExactInv'
  BY <1>1, ExactCall
<1>2. CASE Flush
  BY <1>2, ExactFlush
<1>3. ASSUME NEW r \in runs, RunStep(r)
      PROVE  ExactInv'
  <2>1. CASE RefuseSlack(r) \/ FailReduce(r) \/ FailPost(r)
    <3>1. Finish(r, {}, {}) /\ UNCHANGED <<docs, markers, clock, torn>>
      BY <2>1 DEF RefuseSlack, FailReduce, FailPost, outputVars
    <3> QED BY <3>1, ExactEnds
  <2>2. CASE Reduce(r) \/ (PostOutputs(r) /\ r.good = Len(r.batch))
    BY <2>2, ExactGoesOn
  <2>3. CASE PostOutputs(r) /\ r.good # Len(r.batch)
    <3>1. Finish(r, Good(r), Good(r)) /\ UNCHANGED <<docs, markers, clock, torn>>
      BY <2>3 DEF PostOutputs, outputVars
    <3> QED BY <3>1, ExactEnds
  <2>4. CASE LogOutputs(r) \/ ConflictOutputs(r) \/ FailOutputs(r)
    BY <2>4, ExactWritten
  <2> QED BY <1>3, <2>1, <2>2, <2>3, <2>4 DEF RunStep
<1>4. CASE Crash \/ Tick \/ UNCHANGED vars
  BY <1>4, ExactCrashTick
<1>5. ASSUME NEW b \in batches, AnswerBatch(b)
      PROVE  ExactInv'
  BY <1>5, ExactAnswerBatch
<1> QED BY <1>1, <1>2, <1>3, <1>4, <1>5 DEF Next

\* No update of a sum is lost, and none is made twice, whatever groups are reduced at once,
\* calls retried and inputs replayed: as long as no call is reduced whose period has ended,
\* and no batch is of two months.
THEOREM SumsAreExact ==
    ASSUME LocksCoverKeys
    PROVE  Spec /\ [](CurrentCalls /\ MonthlyBatches) => []AccumulatedExactly
<1>1. Init => ExactInv
  <2> SUFFICES ASSUME Init PROVE ExactInv
    OBVIOUS
  <2>1. NotAhead /\ AloneInv /\ GroupsInv /\ BaseInv /\ PastInv
    BY DEF Init, OutputInit, NotAhead, AloneInv, InHand, Idle, GroupsInv, BaseInv, PastInv
  <2>2. \A month : \A k \in Keys : LastAccum(k, month) = None
    BY DEF Init, OutputInit, LastAccum, Found
  <2>3. AccumulatedExactly
    BY <2>2 DEF Init, OutputInit, AccumulatedExactly
  <2> QED BY <2>1, <2>3 DEF ExactInv
<1>2. Inv /\ ExactInv /\ (CurrentCalls /\ MonthlyBatches) /\ [Next]_vars => ExactInv'
  BY ExactStep
<1>3. ExactInv => AccumulatedExactly
  BY DEF ExactInv
<1> HIDE DEF CurrentCalls, MonthlyBatches
<1> QED BY <1>1, <1>2, <1>3, ReducerInvariantHolds, PTL DEF Spec

=============================================================================
