-------------------------- MODULE PlatformTheorems --------------------------
(***************************************************************************)
(* Theorems about the smaller components of the platform, for any values   *)
(* of their constants, and about the platform as a whole.                  *)
(***************************************************************************)
EXTENDS Platform, WindowsTheorems, DBTheorems, FiniteSetTheorems, SequenceTheorems, TLAPS

-----------------------------------------------------------------------------
(***************************************************************************)
(* The queues of the collector and of the meter.                           *)
(***************************************************************************)

\* The queues that are there admit every message which has not failed too often.
LEMMA FailuresHaveQueue ==
    ASSUME NEW n \in Nat, n < AllowedFails
    PROVE  /\ QueuesFor(n + 1) # {}
           /\ n + 1 \in 0 .. AllowedFails
<1>1. AllowedFails \in Nat BY AttemptsAssumption DEF AllowedFails
<1>2. 2 \in QueuesFor(n + 1) BY <1>1 DEF QueuesFor
<1> QED BY <1>1, <1>2

\* One more copy of an element of a bag, or of nothing.
LEMMA OneMore ==
    ASSUME NEW S, NEW f \in [S -> Nat], NEW x
    PROVE  /\ [f EXCEPT ![x] = @ + 1] \in [S -> Nat]
           /\ \A y \in S : [f EXCEPT ![x] = @ + 1][y] = IF y = x THEN f[y] + 1 ELSE f[y]
<1> DEFINE g == [f EXCEPT ![x] = @ + 1]
<1>1. CASE x \in S
  <2>1. f[x] + 1 \in Nat BY <1>1
  <2> QED BY <1>1, <2>1
<1>2. CASE x \notin S
  <2>1. g = [y \in S |-> f[y]]
    BY <1>2
  <2> HIDE DEF g
  <2>2. g \in [S -> Nat] /\ \A y \in S : g[y] = IF y = x THEN f[y] + 1 ELSE f[y]
    BY <1>2, <2>1
  <2> QED BY <2>2 DEF g
<1> QED BY <1>1, <1>2

\* Publishing adds a copy to a queue, and takes none from any.
LEMMA Published ==
    ASSUME QueuesTypeOK, NEW u \in Usages, NEW n \in Nat, PublishToExchange(u, n)
    PROVE  /\ delayed' \in [1 .. 2 -> [Message -> Nat]]
           /\ \A q \in 1 .. 2, m \in Message : delayed'[q][m] >= delayed[q][m]
           /\ \A q \in 1 .. 2, m \in Message : m.usage # u => delayed'[q][m] = delayed[q][m]
           /\ n \in 0 .. AllowedFails /\ QueuesFor(n) # {} =>
                  \E q \in 1 .. 2, m \in Message : m.usage = u /\ delayed'[q][m] > 0
<1> DEFINE msg == [usage |-> u, retries |-> n]
           first == IF 1 \in QueuesFor(n) THEN 1 ELSE 2
<1>1. CASE QueuesFor(n) = {}
  BY <1>1 DEF PublishToExchange, QueuesTypeOK
<1>2. CASE QueuesFor(n) # {}
  <2>1. delayed' = [delayed EXCEPT ![first][msg] = @ + 1]
    BY <1>2 DEF PublishToExchange
  <2>2. first \in 1 .. 2 OBVIOUS
  <2>3. delayed \in [1 .. 2 -> [Message -> Nat]] BY DEF QueuesTypeOK
  <2> DEFINE more == [delayed[first] EXCEPT ![msg] = @ + 1]
  <2>a. delayed[first] \in [Message -> Nat]
    BY <2>2, <2>3
  <2>b. more \in [Message -> Nat] /\ \A m \in Message :
            more[m] = IF m = msg THEN delayed[first][m] + 1 ELSE delayed[first][m]
    BY <2>a, OneMore
  <2>c. delayed' = [delayed EXCEPT ![first] = more]
    BY <2>1
  <2> HIDE DEF more, msg, first
  <2>4. delayed' \in [1 .. 2 -> [Message -> Nat]]
    BY <2>2, <2>3, <2>b, <2>c
  <2>5. \A q \in 1 .. 2, m \in Message :
            delayed'[q][m] = IF q = first /\ m = msg THEN delayed[q][m] + 1 ELSE delayed[q][m]
    BY <2>2, <2>3, <2>b, <2>c
  <2>6. n \in 0 .. AllowedFails => msg \in Message /\ msg.usage = u
    BY DEF Message, msg
  <2>7. \A q \in 1 .. 2, m \in Message : delayed[q][m] \in Nat
    BY <2>3
  <2>8. msg.usage = u BY DEF msg
  <2>9. n \in 0 .. AllowedFails => delayed'[first][msg] > 0
    BY <2>2, <2>5, <2>6, <2>7
  <2> QED BY <2>2, <2>4, <2>5, <2>6, <2>7, <2>8, <2>9
<1> QED BY <1>1, <1>2

\* The messages a broker has back are those its meter had not acknowledged.
LEMMA Requeued ==
    ASSUME NEW x \in Meters, TypeOK, Requeue(x)
    PROVE  /\ main' \in [Message -> Nat]
           /\ \A m \in Message : main'[m] >= main[m]
           /\ \A h \in Unacked(x) : main'[delivery[h].message] > 0
           /\ \A m \in Message : (\A h \in Unacked(x) : delivery[h].message # m) =>
                                     main'[m] = main[m]
<1> DEFINE Of(m) == {h \in Unacked(x) : delivery[h].message = m}
<1>1. ASSUME NEW m \in Message
      PROVE  /\ Cardinality(Of(m)) \in Nat
             /\ main'[m] = main[m] + Cardinality(Of(m))
             /\ Of(m) = {} => Cardinality(Of(m)) = 0
             /\ Of(m) # {} => Cardinality(Of(m)) > 0
  <2>1. IsFiniteSet(Of(m))
    BY FS_Subset, MeterAssumption DEF Unacked
  <2>2. Cardinality(Of(m)) \in Nat /\ (Cardinality(Of(m)) = 0 <=> Of(m) = {})
    BY <2>1, FS_CardinalityType, FS_EmptySet
  <2> QED BY <2>2 DEF Requeue
<1>2. \A m \in Message : main[m] \in Nat
  BY DEF TypeOK, QueuesTypeOK
<1>3. main' = [m \in Message |-> main[m] + Cardinality(Of(m))]
  BY DEF Requeue
<1>4. \A h \in Unacked(x) : delivery[h].message \in Message
  BY DEF Unacked, TypeOK, Delivery
<1>5. \A h \in Unacked(x) : h \in Of(delivery[h].message)
  OBVIOUS
<1>6. \A m \in Message : (\A h \in Unacked(x) : delivery[h].message # m) => Of(m) = {}
  OBVIOUS
<1> HIDE DEF Of
<1> QED BY <1>1, <1>2, <1>3, <1>4, <1>5, <1>6

\* What the steps of a handler have in common: the message of one handler goes on to its
\* next await, or is forgotten.
LEMMA HandlerGoesOn ==
    ASSUME TypeOK, NEW h \in Handlers, HandlerStep(h)
    PROVE  /\ delivery[h] \in Delivery
           /\ delivery' \in [Handlers -> Delivery \cup {None}]
           /\ \A g \in Handlers : g # h => delivery'[g] = delivery[g]
           /\ delivery'[h] # None => /\ delivery'[h].message = delivery[h].message
                                    /\ delivery'[h].attached = delivery[h].attached
           /\ UNCHANGED <<main, collected, day, faults>>
<1>1. delivery[h] # None
  BY DEF HandlerStep, Check, FailCheck, Post, PostRefused, PostFailed, PostAnswerLost, Store,
         FailStore, Reject, FailReject, Retry, Ack, At
<1>2. delivery[h] \in Delivery /\ delivery \in [Handlers -> Delivery \cup {None}]
  BY <1>1 DEF TypeOK
<1>3. \/ Forget(h)
      \/ \E step \in {"checking", "posting", "storing", "rejecting", "retrying", "acking"} :
            GoTo(h, step)
  BY DEF HandlerStep, Check, FailCheck, Post, PostRefused, PostFailed, PostAnswerLost, Store,
         FailStore, Reject, FailReject, Retry, Ack, Fail
<1>4. UNCHANGED <<main, collected, day, faults>>
  BY DEF HandlerStep, Check, FailCheck, Post, PostRefused, PostFailed, PostAnswerLost, Store,
         FailStore, Reject, FailReject, Retry, Ack, queueVars, storeVars
<1>5. CASE Forget(h)
  BY <1>2, <1>4, <1>5 DEF Forget
<1>6. ASSUME NEW step \in {"checking", "posting", "storing", "rejecting", "retrying", "acking"},
             GoTo(h, step)
      PROVE  /\ delivery' \in [Handlers -> Delivery \cup {None}]
             /\ \A g \in Handlers : g # h => delivery'[g] = delivery[g]
             /\ delivery'[h].message = delivery[h].message
             /\ delivery'[h].attached = delivery[h].attached
  <2>1. [delivery[h] EXCEPT !.at = step] \in Delivery
    BY <1>2 DEF Delivery
  <2>2. delivery' = [delivery EXCEPT ![h] = [delivery[h] EXCEPT !.at = step]]
    BY <1>6 DEF GoTo
  <2> QED BY <1>2, <2>1, <2>2 DEF Delivery
<1> QED BY <1>2, <1>3, <1>4, <1>5, <1>6

\* Every step keeps the types.
LEMMA TypeStep == ASSUME TypeOK, [Next]_vars PROVE TypeOK'
<1> USE MeterAssumption
<1>1. CASE UNCHANGED vars
  BY <1>1 DEF TypeOK, QueuesTypeOK, vars, queueVars, storeVars
<1>2. CASE Tick
  BY <1>2 DEF Tick, TypeOK, QueuesTypeOK, queueVars, storeVars
<1>3. ASSUME NEW u \in Usages, Collect(u) PROVE TypeOK'
  <2> DEFINE msg == [usage |-> u, retries |-> 0]
  <2>1. PICK copies \in 1 .. 2 :
           /\ main' = [main EXCEPT ![msg] = @ + copies]
           /\ IF copies = 2 THEN Fault ELSE NoFault
    BY <1>3 DEF Collect
  <2>2. msg \in Message
    BY AttemptsAssumption DEF Message, AllowedFails
  <2>3. main' \in [Message -> Nat]
    BY <2>1, <2>2 DEF TypeOK, QueuesTypeOK
  <2>4. faults' \in 0 .. MaxFaults
    BY <2>1 DEF Fault, NoFault, TypeOK
  <2> QED BY <1>3, <2>3, <2>4 DEF Collect, TypeOK, QueuesTypeOK
<1>4. ASSUME NEW h \in Handlers, NEW m \in Message, Deliver(h, m) PROVE TypeOK'
  <2>1. main' \in [Message -> Nat]
    BY <1>4 DEF Deliver, TypeOK, QueuesTypeOK
  <2>2. delivery' \in [Handlers -> Delivery \cup {None}]
    BY <1>4 DEF Deliver, TypeOK, Delivery
  <2> QED BY <1>4, <2>1, <2>2 DEF Deliver, TypeOK, QueuesTypeOK, storeVars
<1>5. ASSUME NEW h \in Handlers, HandlerStep(h) PROVE TypeOK'
  <2>1. UsageOf(h) \in Usages /\ Retries(h) \in Nat
    BY <1>5, HandlerGoesOn DEF Delivery, Message, UsageOf, Retries, AllowedFails
  <2>2. delayed' \in [1 .. 2 -> [Message -> Nat]]
    <3>1. CASE Retry(h) /\ delivery[h].attached
      BY <2>1, <3>1, Published DEF Retry, TypeOK
    <3>2. CASE UNCHANGED delayed
      BY <3>2 DEF TypeOK, QueuesTypeOK
    <3> QED BY <1>5, <3>1, <3>2 DEF HandlerStep, Check, FailCheck, Post, PostRefused, PostFailed,
               PostAnswerLost, Store, FailStore, Reject, FailReject, Retry, Ack, queueVars
  <2>3. /\ cache' \in [Meters -> SUBSET Usages]
        /\ accumulated' \subseteq Usages /\ output' \subseteq Usages /\ errors' \subseteq Usages
    <3>1. CASE Check(h)
      BY <2>1, <3>1 DEF Check, TypeOK
    <3>2. CASE Post(h) \/ PostAnswerLost(h)
      BY <2>1, <3>2 DEF Post, PostAnswerLost, TypeOK
    <3>3. CASE Store(h) \/ FailStore(h)
      BY <2>1, <3>3 DEF Store, FailStore, TypeOK
    <3>4. CASE Reject(h)
      BY <2>1, <3>4 DEF Reject, TypeOK
    <3>5. CASE UNCHANGED storeVars
      BY <3>5 DEF TypeOK, storeVars
    <3> QED BY <1>5, <3>1, <3>2, <3>3, <3>4, <3>5 DEF HandlerStep, FailCheck, PostRefused,
               PostFailed, FailReject, Retry, Ack
  <2> QED BY <1>5, <2>2, <2>3, HandlerGoesOn DEF TypeOK, QueuesTypeOK
<1>6. ASSUME NEW q \in 1 .. 2, NEW m \in Message, Return(q, m) PROVE TypeOK'
  <2>1. main' \in [Message -> Nat]
    BY <1>6 DEF Return, Expire, TypeOK, QueuesTypeOK
  <2> DEFINE less == [delayed[q] EXCEPT ![m] = @ - 1]
  <2>2. less \in [Message -> Nat]
    BY <1>6 DEF Return, Expire, TypeOK, QueuesTypeOK
  <2>3. delayed' = [delayed EXCEPT ![q] = less]
    BY <1>6 DEF Return, Expire
  <2> HIDE DEF less
  <2>4. delayed' \in [1 .. 2 -> [Message -> Nat]]
    BY <2>2, <2>3 DEF TypeOK, QueuesTypeOK
  <2> QED BY <1>6, <2>1, <2>4 DEF Return, TypeOK, QueuesTypeOK, storeVars
<1>7. ASSUME NEW x \in Meters, Disconnect(x) PROVE TypeOK'
  <2>1. main' \in [Message -> Nat]
    BY <1>7, Requeued DEF Disconnect
  <2>2. \A h \in Unacked(x) : [delivery[h] EXCEPT !.attached = FALSE] \in Delivery
    BY DEF Unacked, TypeOK, Delivery
  <2>3. delivery' \in [Handlers -> Delivery \cup {None}]
    BY <1>7, <2>2 DEF Disconnect, TypeOK
  <2> QED BY <1>7, <2>1, <2>3 DEF Disconnect, Fault, TypeOK, QueuesTypeOK, storeVars
<1>8. ASSUME NEW x \in Meters, Crash(x) PROVE TypeOK'
  <2>1. main' \in [Message -> Nat]
    BY <1>8, Requeued DEF Crash
  <2>2. delivery' \in [Handlers -> Delivery \cup {None}] /\ cache' \in [Meters -> SUBSET Usages]
    BY <1>8 DEF Crash, TypeOK
  <2> QED BY <1>8, <2>1, <2>2 DEF Crash, Fault, TypeOK, QueuesTypeOK
<1> QED BY <1>1, <1>2, <1>3, <1>4, <1>5, <1>6, <1>7, <1>8 DEF Next

\* A message that is taken moves from its queue to the consumer.
LEMMA TakenTo ==
    ASSUME TypeOK, NEW h \in Handlers, delivery[h] # None,
           NEW step \in {"checking", "posting", "storing", "rejecting", "retrying", "acking"},
           GoTo(h, step)
    PROVE  delivery'[h] # None /\ delivery'[h].at = step
<1>1. delivery[h] \in Delivery /\ delivery \in [Handlers -> Delivery \cup {None}]
  BY DEF TypeOK
<1>2. [delivery[h] EXCEPT !.at = step] \in Delivery /\ [delivery[h] EXCEPT !.at = step].at = step
  BY <1>1 DEF Delivery
<1>3. delivery' = [delivery EXCEPT ![h] = [delivery[h] EXCEPT !.at = step]]
  BY DEF GoTo
<1> QED BY <1>1, <1>2, <1>3, NoneIsNoDelivery

\* What is true of a message at the await its handler has just come to.
LEMMA HandlerAt ==
    ASSUME TypeOK, NEW h \in Handlers, HandlerStep(h), delivery'[h] # None
    PROVE  /\ delivery'[h].at # "checking"
           /\ delivery'[h].at = "posting" => ~IsFuture(UsageOf(h))
           /\ delivery'[h].at = "storing" => UsageOf(h) \in accumulated'
           /\ delivery'[h].at = "retrying" => Retries(h) < AllowedFails \/ LastPutFails
           /\ delivery'[h].at = "acking" =>
                 \/ UsageOf(h) \in cache[MeterOf[h]] \cup output' \cup errors'
                 \/ Retry(h) /\ delivery[h].attached
<1>1. delivery[h] # None
  BY HandlerGoesOn, NoneIsNoDelivery
<1>2. CASE Check(h)
  <2>1. CASE IsFuture(UsageOf(h))
    BY <1>1, <1>2, <2>1, TakenTo DEF Check
  <2>2. CASE ~IsFuture(UsageOf(h)) /\ UsageOf(h) \in cache[MeterOf[h]] \cup output
    <3>1. delivery'[h].at = "acking" /\ output' = output
      BY <1>1, <1>2, <2>2, TakenTo DEF Check
    <3> QED BY <2>2, <3>1
  <2>3. CASE ~IsFuture(UsageOf(h)) /\ UsageOf(h) \notin cache[MeterOf[h]] \cup output
    BY <1>1, <1>2, <2>3, TakenTo DEF Check
  <2> QED BY <2>1, <2>2, <2>3
<1>3. ASSUME Fail(h)
      PROVE  \/ delivery'[h].at = "rejecting"
             \/ delivery'[h].at = "retrying" /\ Retries(h) < AllowedFails
  <2>1. Retries(h) \in Nat /\ AllowedFails \in Nat
    BY <1>1, AttemptsAssumption DEF TypeOK, Delivery, Message, Retries, AllowedFails
  <2>2. CASE Retries(h) >= AllowedFails
    BY <1>1, <1>3, <2>2, TakenTo DEF Fail
  <2>3. CASE ~(Retries(h) >= AllowedFails)
    <3>1. delivery'[h].at = "retrying"
      BY <1>1, <1>3, <2>3, TakenTo DEF Fail
    <3> QED BY <2>1, <2>3, <3>1
  <2> QED BY <2>2, <2>3
<1>4. CASE FailCheck(h) \/ PostFailed(h) \/ PostAnswerLost(h) \/ FailStore(h)
  BY <1>3, <1>4 DEF FailCheck, PostFailed, PostAnswerLost, FailStore
<1>5. CASE Post(h)
  <2>1. delivery'[h].at = "storing"
    BY <1>1, <1>5, TakenTo DEF Post
  <2> QED BY <1>5, <2>1 DEF Post
<1>6. CASE PostRefused(h)
  BY <1>1, <1>6, TakenTo DEF PostRefused
<1>7. CASE Store(h)
  <2>1. delivery'[h].at = "acking"
    BY <1>1, <1>7, TakenTo DEF Store
  <2> QED BY <1>7, <2>1 DEF Store
<1>8. CASE Reject(h)
  <2>1. delivery'[h].at = "acking"
    BY <1>1, <1>8, TakenTo DEF Reject
  <2> QED BY <1>8, <2>1 DEF Reject
<1>9. CASE FailReject(h)
  <2>1. delivery'[h].at = "retrying"
    BY <1>1, <1>9, TakenTo DEF FailReject
  <2> QED BY <1>9, <2>1 DEF FailReject
<1>10. CASE Retry(h)
  <2>1. CASE delivery[h].attached
    BY <1>1, <1>10, <2>1, TakenTo DEF Retry
  <2>2. CASE ~delivery[h].attached
    BY <1>10, <2>2 DEF Retry, Forget, TypeOK
  <2> QED BY <2>1, <2>2
<1>11. CASE Ack(h)
  BY <1>11 DEF Ack, Forget, TypeOK
<1> QED BY <1>2, <1>4, <1>5, <1>6, <1>7, <1>8, <1>9, <1>10, <1>11 DEF HandlerStep

\* A message is not moved on by the steps of others.
LEMMA OthersGoOn ==
    ASSUME TypeOK, [Next]_vars, NEW g \in Handlers, ~HandlerStep(g), delivery'[g] # None
    PROVE  \/ /\ delivery[g] # None
              /\ delivery'[g].message = delivery[g].message
              /\ delivery'[g].at = delivery[g].at
           \/ /\ delivery[g] = None
              /\ delivery'[g].at = "checking"
              /\ delivery'[g].message \in Message /\ main[delivery'[g].message] > 0
              /\ UNCHANGED collected
<1>1. CASE UNCHANGED delivery
  BY <1>1
<1>2. ASSUME NEW h \in Handlers, NEW m \in Message, Deliver(h, m)
      PROVE  IF h = g THEN /\ delivery[g] = None
                           /\ delivery'[g].at = "checking" /\ delivery'[g].message = m
                           /\ main[m] > 0 /\ UNCHANGED collected
             ELSE delivery'[g] = delivery[g]
  BY <1>2 DEF Deliver, TypeOK, storeVars
<1>3. ASSUME NEW h \in Handlers, HandlerStep(h) PROVE delivery'[g] = delivery[g]
  BY <1>3, HandlerGoesOn
<1>4. ASSUME NEW x \in Meters, Disconnect(x)
      PROVE  /\ delivery[g] # None
             /\ delivery'[g].message = delivery[g].message
             /\ delivery'[g].at = delivery[g].at
  <2>1. CASE g \in Unacked(x)
    <3>1. delivery'[g] = [delivery[g] EXCEPT !.attached = FALSE] /\ delivery[g] \in Delivery
      BY <1>4, <2>1 DEF Disconnect, Unacked, TypeOK
    <3> QED BY <2>1, <3>1 DEF Delivery, Unacked
  <2>2. CASE g \notin Unacked(x)
    BY <1>4, <2>2 DEF Disconnect
  <2> QED BY <2>1, <2>2
<1>5. ASSUME NEW x \in Meters, Crash(x) PROVE delivery'[g] = delivery[g]
  BY <1>5 DEF Crash
<1> QED BY <1>1, <1>2, <1>3, <1>4, <1>5 DEF Next, vars, Tick, Collect, Return

\* The count of the retries stays below its limit.
LEMMA RetryStep == ASSUME TypeOK, RetryInv, [Next]_vars PROVE RetryInv'
<1> SUFFICES ASSUME ~LastPutFails, NEW g \in Handlers, At(g, "retrying")'
             PROVE  Retries(g)' < AllowedFails
  BY DEF RetryInv
<1>1. delivery'[g] # None /\ delivery'[g].at = "retrying" /\ Retries(g)' = delivery'[g].message.retries
  BY DEF At, Retries
<1>2. CASE HandlerStep(g)
  BY <1>1, <1>2, HandlerAt, HandlerGoesOn DEF Retries
<1>3. CASE ~HandlerStep(g)
  BY <1>1, <1>3, OthersGoOn DEF RetryInv, At, Retries
<1> QED BY <1>2, <1>3

\* Which step writes which store.
LEMMA StoresGrow ==
    ASSUME TypeOK, [Next]_vars
    PROVE  /\ \/ collected' = collected
              \/ \E u \in Usages : Collect(u) /\ collected' = collected \cup {u}
           /\ \/ accumulated' = accumulated
              \/ \E h \in Handlers : /\ At(h, "posting")
                                     /\ accumulated' = accumulated \cup {UsageOf(h)}
           /\ \/ output' = output
              \/ \E h \in Handlers : At(h, "storing") /\ output' = output \cup {UsageOf(h)}
           /\ \/ errors' = errors
              \/ \E h \in Handlers : At(h, "rejecting") /\ errors' = errors \cup {UsageOf(h)}
           /\ \/ cache' = cache
              \/ \E h \in Handlers :
                    /\ UsageOf(h) \in cache[MeterOf[h]] \cup output
                    /\ cache' = [cache EXCEPT ![MeterOf[h]] = @ \cup {UsageOf(h)}]
              \/ \E x \in Meters : cache' = [cache EXCEPT ![x] = {}]
           /\ day' = day \/ (day' = day + 1 /\ UNCHANGED <<delivery, storeVars>>)
<1>1. CASE UNCHANGED <<storeVars, day>>
  BY <1>1 DEF storeVars
<1>2. CASE Tick
  BY <1>2 DEF Tick, storeVars
<1>3. ASSUME NEW u \in Usages, Collect(u)
      PROVE  collected' = collected \cup {u} /\ UNCHANGED <<cache, accumulated, output, errors, day>>
  BY <1>3 DEF Collect
<1>4. ASSUME NEW h \in Handlers, HandlerStep(h), ~UNCHANGED <<storeVars, day>>
      PROVE  \/ Check(h) \/ Post(h) \/ PostAnswerLost(h) \/ Store(h) \/ FailStore(h) \/ Reject(h)
  BY <1>4 DEF HandlerStep, FailCheck, PostRefused, PostFailed, FailReject, Retry, Ack
<1>5. ASSUME NEW h \in Handlers, Check(h)
      PROVE  /\ UNCHANGED <<collected, accumulated, output, errors, day>>
             /\ \/ cache' = cache
                \/ /\ UsageOf(h) \in cache[MeterOf[h]] \cup output
                   /\ cache' = [cache EXCEPT ![MeterOf[h]] = @ \cup {UsageOf(h)}]
  BY <1>5 DEF Check
<1>6. ASSUME NEW h \in Handlers, Post(h) \/ PostAnswerLost(h)
      PROVE  /\ UNCHANGED <<collected, cache, output, errors, day>>
             /\ At(h, "posting") /\ accumulated' = accumulated \cup {UsageOf(h)}
  BY <1>6 DEF Post, PostAnswerLost
<1>7. ASSUME NEW h \in Handlers, Store(h) \/ FailStore(h)
      PROVE  /\ UNCHANGED <<collected, cache, accumulated, errors, day>>
             /\ At(h, "storing") /\ output' \in {output, output \cup {UsageOf(h)}}
  BY <1>7 DEF Store, FailStore
<1>8. ASSUME NEW h \in Handlers, Reject(h)
      PROVE  /\ UNCHANGED <<collected, cache, accumulated, output, day>>
             /\ At(h, "rejecting") /\ errors' = errors \cup {UsageOf(h)}
  BY <1>8 DEF Reject
<1>9. ASSUME NEW x \in Meters, Crash(x)
      PROVE  /\ UNCHANGED <<collected, accumulated, output, errors, day>>
             /\ cache' = [cache EXCEPT ![x] = {}]
  BY <1>9 DEF Crash
<1>10. \/ UNCHANGED <<storeVars, day>> \/ Tick
       \/ \E u \in Usages : Collect(u)
       \/ \E h \in Handlers : HandlerStep(h)
       \/ \E x \in Meters : Crash(x)
  BY DEF Next, vars, Deliver, Return, Disconnect
<1> QED BY <1>1, <1>2, <1>3, <1>4, <1>5, <1>6, <1>7, <1>8, <1>9, <1>10

\* What is cached has been output.
LEMMA CacheStep == ASSUME TypeOK, CacheInv, [Next]_vars PROVE CacheInv'
<1>1. output \subseteq output'
  BY StoresGrow
<1>2. ASSUME NEW h \in Handlers, UsageOf(h) \in cache[MeterOf[h]] \cup output,
             cache' = [cache EXCEPT ![MeterOf[h]] = @ \cup {UsageOf(h)}]
      PROVE  \A x \in Meters : cache'[x] \subseteq output
  BY <1>2, MeterAssumption DEF TypeOK, CacheInv
<1>3. ASSUME NEW x \in Meters, cache' = [cache EXCEPT ![x] = {}]
      PROVE  \A y \in Meters : cache'[y] \subseteq output
  BY <1>3 DEF TypeOK, CacheInv
<1>4. \A x \in Meters : cache'[x] \subseteq output
  BY <1>2, <1>3, StoresGrow DEF CacheInv
<1> QED BY <1>1, <1>4 DEF CacheInv

\* Every message is of collected usage.
LEMMA MessagesStep == ASSUME TypeOK, MessagesInv, [Next]_vars PROVE MessagesInv'
<1> USE DEF UsageOf
<1>1. ASSUME NEW m \in Message, m.usage \notin collected'
      PROVE  main'[m] = 0 /\ \A q \in 1 .. 2 : delayed'[q][m] = 0
  <2>1. m.usage \notin collected /\ main[m] = 0 /\ \A q \in 1 .. 2 : delayed[q][m] = 0
    BY <1>1, StoresGrow DEF MessagesInv
  <2>2. CASE UNCHANGED queueVars
    BY <2>1, <2>2 DEF queueVars
  <2>3. ASSUME NEW u \in Usages, Collect(u) PROVE main'[m] = main[m] /\ delayed' = delayed
    <3>1. m.usage # u
      BY <1>1, <2>3 DEF Collect
    <3> QED BY <2>3, <3>1 DEF Collect, TypeOK, QueuesTypeOK
  <2>4. ASSUME NEW h \in Handlers, NEW n \in Message, Deliver(h, n)
        PROVE  main'[m] = main[m] /\ delayed' = delayed
    BY <2>1, <2>4 DEF Deliver, TypeOK, QueuesTypeOK
  <2>5. ASSUME NEW h \in Handlers, HandlerStep(h)
        PROVE  main' = main /\ \A q \in 1 .. 2 : delayed'[q][m] = delayed[q][m]
    <3>1. delivery[h] \in Delivery /\ main' = main
      BY <2>5, HandlerGoesOn
    <3>2. UsageOf(h) \in Usages /\ Retries(h) \in Nat /\ UsageOf(h) # m.usage
      BY <2>1, <3>1, NoneIsNoDelivery DEF MessagesInv, Delivery, Message, Retries, AllowedFails
    <3>3. CASE Retry(h) /\ delivery[h].attached
      BY <2>1, <3>1, <3>2, <3>3, Published DEF Retry, TypeOK
    <3>4. CASE UNCHANGED delayed
      BY <3>1, <3>4
    <3> QED BY <2>5, <3>3, <3>4 DEF HandlerStep, Check, FailCheck, Post, PostRefused, PostFailed,
               PostAnswerLost, Store, FailStore, Reject, FailReject, Retry, Ack, queueVars
  <2>6. ASSUME NEW q \in 1 .. 2, NEW n \in Message, Return(q, n)
        PROVE  main'[m] = main[m] /\ \A p \in 1 .. 2 : delayed'[p][m] = delayed[p][m]
    BY <2>1, <2>6 DEF Return, Expire, TypeOK, QueuesTypeOK
  <2>7. ASSUME NEW x \in Meters, Disconnect(x) \/ Crash(x)
        PROVE  main'[m] = main[m] /\ delayed' = delayed
    <3>1. \A h \in Unacked(x) : delivery[h].message # m
      BY <2>1 DEF Unacked, MessagesInv
    <3> QED BY <2>7, <3>1, Requeued DEF Disconnect, Crash
  <2> QED BY <2>1, <2>2, <2>3, <2>4, <2>5, <2>6, <2>7 DEF Next, vars, Tick
<1>2. ASSUME NEW h \in Handlers, delivery'[h] # None PROVE delivery'[h].message.usage \in collected'
  <2>1. collected \subseteq collected'
    BY StoresGrow
  <2>2. CASE HandlerStep(h)
    BY <1>2, <2>1, <2>2, HandlerGoesOn, NoneIsNoDelivery DEF MessagesInv
  <2>3. CASE ~HandlerStep(h)
    BY <1>2, <2>1, <2>3, OthersGoOn DEF MessagesInv
  <2> QED BY <2>2, <2>3
<1> QED BY <1>1, <1>2 DEF MessagesInv

\* No usage of a day to come is accumulated.
LEMMA FutureStep ==
    ASSUME TypeOK, HandlingInv, FutureNotAccumulated, [Next]_vars
    PROVE  FutureNotAccumulated'
<1>1. day \in Nat /\ day' >= day /\ \A u \in Usages : UsageDay[u] \in Nat
  BY StoresGrow, MeterAssumption DEF TypeOK
<1>2. \A u \in accumulated' : u \in Usages /\ UsageDay[u] <= day
  <2>1. \A h \in Handlers : At(h, "posting") => UsageOf(h) \in Usages
    BY DEF At, TypeOK, Delivery, Message, UsageOf
  <2> QED BY <1>1, <2>1, StoresGrow DEF FutureNotAccumulated, HandlingInv, IsFuture, TypeOK
<1>3. day' \in Nat
  BY <1>1, StoresGrow
<1> QED BY <1>1, <1>2, <1>3 DEF FutureNotAccumulated

\* What a handler has learnt stays true.
LEMMA HandlingStep ==
    ASSUME TypeOK, MessagesInv, HandlingInv, [Next]_vars
    PROVE  HandlingInv'
<1>1. accumulated \subseteq accumulated' /\ collected \subseteq collected'
  BY StoresGrow
<1>2. ASSUME NEW h \in Handlers, At(h, "storing")' PROVE UsageOf(h)' \in accumulated'
  <2>1. delivery'[h] # None /\ delivery'[h].at = "storing"
    BY <1>2 DEF At
  <2>2. CASE HandlerStep(h)
    BY <2>1, <2>2, HandlerAt, HandlerGoesOn DEF UsageOf
  <2>3. CASE ~HandlerStep(h)
    BY <1>1, <2>1, <2>3, OthersGoOn DEF HandlingInv, At, UsageOf
  <2> QED BY <2>2, <2>3
<1>3. ASSUME NEW h \in Handlers, At(h, "posting")' PROVE ~IsFuture(UsageOf(h))'
  <2>1. delivery'[h] # None /\ delivery'[h].at = "posting"
    BY <1>3 DEF At
  <2>2. ~IsFuture(UsageOf(h)') /\ UsageOf(h)' \in Usages
    <3>1. CASE HandlerStep(h)
      BY <2>1, <3>1, HandlerAt, HandlerGoesOn DEF UsageOf, Delivery, Message
    <3>2. CASE ~HandlerStep(h)
      BY <2>1, <3>2, OthersGoOn DEF HandlingInv, At, UsageOf, TypeOK, Delivery, Message
    <3> QED BY <3>1, <3>2
  <2>3. UsageDay[UsageOf(h)'] \in Nat
    BY <2>2, MeterAssumption
  <2>4. day' >= day /\ day \in Nat /\ day' \in Nat
    BY StoresGrow DEF TypeOK
  <2> QED BY <2>2, <2>3, <2>4 DEF IsFuture
<1>4. output' \subseteq accumulated'
  BY <1>1, StoresGrow DEF HandlingInv
<1>5. accumulated' \subseteq collected'
  <2>1. \A h \in Handlers : At(h, "posting") => UsageOf(h) \in collected
    BY DEF MessagesInv, At
  <2> QED BY <1>1, <2>1, StoresGrow DEF HandlingInv
<1> QED BY <1>2, <1>3, <1>4, <1>5 DEF HandlingInv

\* No step but a delivery and the end of a delay takes a copy from a queue.
LEMMA QueuedStays ==
    ASSUME NEW u \in Usages, Queued(u), QueuesTypeOK, QueuesTypeOK',
           \A m \in Message : main'[m] >= main[m],
           \A q \in 1 .. 2, m \in Message : delayed'[q][m] >= delayed[q][m]
    PROVE  Queued(u)'
<1>1. PICK m \in Message : m.usage = u /\ (main[m] > 0 \/ \E q \in 1 .. 2 : delayed[q][m] > 0)
  BY DEF Queued
<1>2. main[m] \in Nat /\ main'[m] \in Nat
  BY DEF QueuesTypeOK
<1>3. \A q \in 1 .. 2 : delayed[q][m] \in Nat /\ delayed'[q][m] \in Nat
  BY DEF QueuesTypeOK
<1>4. main'[m] > 0 \/ \E q \in 1 .. 2 : delayed'[q][m] > 0
  BY <1>1, <1>2, <1>3
<1> QED BY <1>1, <1>4 DEF Queued

\* A handler gives its message away when the usage is recorded or published again.
LEMMA KeptByHandler ==
    ASSUME TypeOK, TypeOK', RetryInv, CacheInv, ~LastPutFails,
           NEW h \in Handlers, HandlerStep(h), output \subseteq output',
           NEW u \in Usages, Queued(u) \/ Held(u)
    PROVE  Recorded(u)' \/ Queued(u)' \/ Held(u)'
<1>1. /\ delivery[h] \in Delivery /\ delivery[h] # None /\ main' = main
      /\ UsageOf(h) \in Usages /\ Retries(h) \in Nat
  BY HandlerGoesOn, NoneIsNoDelivery DEF Delivery, Message, UsageOf, Retries, AllowedFails
<1>2. \/ Retry(h) /\ delivery[h].attached
      \/ UNCHANGED delayed
  BY DEF HandlerStep, Check, FailCheck, Post, PostRefused, PostFailed, PostAnswerLost, Store,
         FailStore, Reject, FailReject, Retry, Ack, queueVars
<1>3. CASE Queued(u)
  <2>1. \A m \in Message : main'[m] >= main[m]
    BY <1>1 DEF TypeOK, QueuesTypeOK
  <2>2. CASE Retry(h) /\ delivery[h].attached
    <3>1. \A q \in 1 .. 2, m \in Message : delayed'[q][m] >= delayed[q][m]
      BY <1>1, <2>2, Published DEF Retry, TypeOK
    <3> QED BY <1>3, <2>1, <3>1, QueuedStays DEF TypeOK
  <2>3. CASE UNCHANGED delayed
    BY <1>1, <1>3, <2>3 DEF Queued
  <2> QED BY <1>2, <2>2, <2>3
<1>4. ASSUME NEW g \in Handlers, g # h, delivery[g] # None, delivery[g].attached,
             delivery[g].at # "acking", UsageOf(g) = u
      PROVE  Held(u)'
  BY <1>4, HandlerGoesOn DEF Held, UsageOf
<1>5. CASE delivery[h].attached /\ delivery[h].at # "acking" /\ UsageOf(h) = u
  <2>1. CASE Retry(h)
    <3>1. Retries(h) < AllowedFails
      BY <2>1 DEF Retry, RetryInv
    <3>2. PublishToExchange(u, Retries(h) + 1)
      BY <1>5, <2>1 DEF Retry
    <3>3. \E q \in 1 .. 2, m \in Message : m.usage = u /\ delayed'[q][m] > 0
      BY <1>1, <3>1, <3>2, FailuresHaveQueue, Published DEF TypeOK
    <3> QED BY <3>3 DEF Queued
  <2>2. CASE ~Retry(h)
    <3>1. delivery'[h] # None
      <4>1. \E step \in {"checking", "posting", "storing", "rejecting", "retrying", "acking"} :
               GoTo(h, step)
        BY <1>5, <2>2 DEF HandlerStep, Check, FailCheck, Post, PostRefused, PostFailed,
           PostAnswerLost, Store, FailStore, Reject, FailReject, Ack, At, Fail
      <4> QED BY <1>1, <4>1, TakenTo
    <3>2. delivery'[h].message = delivery[h].message /\ delivery'[h].attached
      BY <1>5, <3>1, HandlerGoesOn
    <3>3. CASE delivery'[h].at = "acking"
      <4>1. MeterOf[h] \in Meters
        BY MeterAssumption
      <4>2. UsageOf(h) \in cache[MeterOf[h]] \cup output' \cup errors'
        BY <2>2, <3>1, <3>3, HandlerAt
      <4> QED BY <1>5, <4>1, <4>2 DEF Recorded, CacheInv
    <3>4. CASE delivery'[h].at # "acking"
      BY <1>5, <3>1, <3>2, <3>4 DEF Held, UsageOf
    <3> QED BY <3>3, <3>4
  <2> QED BY <2>1, <2>2
<1> QED BY <1>3, <1>4, <1>5 DEF Held

\* Usage that is not recorded stays queued or held.
LEMMA KeptStep ==
    ASSUME TypeOK, RetryInv, CacheInv, KeptInv, [Next]_vars
    PROVE  KeptInv'
<1> SUFFICES ASSUME ~LastPutFails, NEW u \in collected'
             PROVE  Recorded(u)' \/ Queued(u)' \/ Held(u)'
  BY DEF KeptInv
<1>1. TypeOK' /\ u \in Usages
  BY TypeStep DEF TypeOK
<1>2. output \subseteq output' /\ errors \subseteq errors'
  BY StoresGrow
<1>3. ASSUME u \notin collected PROVE Queued(u)'
  <2> DEFINE msg == [usage |-> u, retries |-> 0]
  <2>1. Collect(u)
    BY <1>3, StoresGrow DEF Collect
  <2>2. PICK copies \in 1 .. 2 : main' = [main EXCEPT ![msg] = @ + copies]
    BY <2>1 DEF Collect
  <2>3. msg \in Message /\ msg.usage = u
    BY <1>1, AttemptsAssumption DEF Message, AllowedFails
  <2>4. main'[msg] > 0
    BY <2>2, <2>3 DEF TypeOK, QueuesTypeOK
  <2> QED BY <2>3, <2>4 DEF Queued
<1>4. CASE u \in collected /\ Recorded(u)
  BY <1>2, <1>4 DEF Recorded
<1> SUFFICES ASSUME Queued(u) \/ Held(u) PROVE Recorded(u)' \/ Queued(u)' \/ Held(u)'
  BY <1>3, <1>4 DEF KeptInv
<1>5. CASE UNCHANGED <<queueVars, delivery>>
  BY <1>5 DEF queueVars, Queued, Held, UsageOf
<1>6. ASSUME NEW v \in Usages, Collect(v) PROVE Queued(u)' \/ Held(u)'
  <2>1. PICK copies \in 1 .. 2 : main' = [main EXCEPT ![[usage |-> v, retries |-> 0]] = @ + copies]
    BY <1>6 DEF Collect
  <2>2. delayed' = delayed /\ delivery' = delivery
    BY <1>6 DEF Collect
  <2>3. \A m \in Message : main'[m] >= main[m]
    BY <2>1 DEF TypeOK, QueuesTypeOK
  <2>4. \A q \in 1 .. 2, m \in Message : delayed'[q][m] >= delayed[q][m]
    BY <2>2 DEF TypeOK, QueuesTypeOK
  <2> QED BY <1>1, <2>2, <2>3, <2>4, QueuedStays DEF Held, UsageOf, TypeOK
<1>7. ASSUME NEW h \in Handlers, NEW m \in Message, Deliver(h, m) PROVE Queued(u)' \/ Held(u)'
  <2>1. /\ delivery'[h] = [message |-> m, attached |-> TRUE, at |-> "checking"]
        /\ \A g \in Handlers : g # h => delivery'[g] = delivery[g]
        /\ \A n \in Message : n # m => main'[n] = main[n]
        /\ delayed' = delayed /\ delivery[h] = None
    BY <1>7 DEF Deliver, TypeOK, QueuesTypeOK
  <2>2. CASE m.usage = u
    <3>1. delivery'[h] \in Delivery
      BY <2>1 DEF Delivery
    <3> QED BY <2>1, <2>2, <3>1, NoneIsNoDelivery DEF Held, UsageOf
  <2>3. CASE m.usage # u
    BY <2>1, <2>3 DEF Queued, Held, UsageOf
  <2> QED BY <2>2, <2>3
<1>8. ASSUME NEW h \in Handlers, HandlerStep(h) PROVE Recorded(u)' \/ Queued(u)' \/ Held(u)'
  BY <1>1, <1>2, <1>8, KeptByHandler
<1>9. ASSUME NEW q \in 1 .. 2, NEW m \in Message, Return(q, m) PROVE Queued(u)' \/ Held(u)'
  <2>1. /\ main'[m] = main[m] + 1 /\ main[m] \in Nat
        /\ \A n \in Message : n # m => main'[n] = main[n]
        /\ \A p \in 1 .. 2, n \in Message : n # m => delayed'[p][n] = delayed[p][n]
        /\ delivery' = delivery
    BY <1>9 DEF Return, Expire, TypeOK, QueuesTypeOK
  <2>2. main'[m] > 0
    BY <2>1
  <2> QED BY <2>1, <2>2 DEF Queued, Held, UsageOf
<1>10. ASSUME NEW x \in Meters, Disconnect(x) \/ Crash(x) PROVE Queued(u)' \/ Held(u)'
  <2>1. Requeue(x) /\ delayed' = delayed
    BY <1>10 DEF Disconnect, Crash
  <2>2. CASE Queued(u)
    <3>1. \A m \in Message : main'[m] >= main[m]
      BY <2>1, Requeued
    <3>2. \A q \in 1 .. 2, m \in Message : delayed'[q][m] >= delayed[q][m]
      BY <2>1 DEF TypeOK, QueuesTypeOK
    <3> QED BY <1>1, <2>2, <3>1, <3>2, QueuedStays DEF TypeOK
  <2>3. CASE Held(u)
    <3>1. PICK g \in Handlers : /\ delivery[g] # None /\ delivery[g].attached
                                /\ delivery[g].at # "acking" /\ UsageOf(g) = u
      BY <2>3 DEF Held
    <3>2. CASE g \in Unacked(x)
      <4>1. main'[delivery[g].message] > 0
        BY <2>1, <3>2, Requeued
      <4>2. delivery[g].message \in Message
        BY <3>1 DEF TypeOK, Delivery
      <4> QED BY <3>1, <4>1, <4>2 DEF Queued, UsageOf
    <3>3. CASE g \notin Unacked(x)
      <4>1. delivery'[g] = delivery[g]
        BY <1>10, <3>1, <3>3 DEF Disconnect, Crash, Unacked
      <4> QED BY <3>1, <4>1 DEF Held, UsageOf
    <3> QED BY <3>2, <3>3
  <2> QED BY <2>2, <2>3
<1> QED BY <1>5, <1>6, <1>7, <1>8, <1>9, <1>10 DEF Next, vars, Tick

\* The invariant holds at first ...
LEMMA InitInv == Init => Inv
<1> SUFFICES ASSUME Init PROVE Inv
  OBVIOUS
<1> USE DEF Init
<1>1. TypeOK
  BY MeterAssumption DEF QueuesInit, TypeOK, QueuesTypeOK
<1>2. MessagesInv
  BY DEF QueuesInit, MessagesInv
<1> QED BY <1>1, <1>2 DEF Inv, KeptInv, RetryInv, At, CacheInv, HandlingInv, FutureNotAccumulated

\* ... and after every step.
LEMMA InvStep == Inv /\ [Next]_vars => Inv'
BY TypeStep, KeptStep, RetryStep, MessagesStep, CacheStep, HandlingStep, FutureStep DEF Inv

\* The invariant: of every collected usage that is not recorded there is a message that no
\* acknowledgement can remove (consumer.process acknowledges what it has published again).
THEOREM MeterInvariantHolds == Spec => []Inv
BY InitInv, InvStep, PTL DEF Spec

\* No usage the collector has accepted is lost between its queue and the databases of the
\* meter, provided that the error database takes what is out of retries.
THEOREM NothingIsLost ==
    ASSUME ~LastPutFails
    PROVE  Spec => []NothingLost
<1>1. Inv => NothingLost
  <2> SUFFICES ASSUME Inv, NEW u \in collected PROVE u \in output \cup errors \/ InFlight(u)
    BY DEF NothingLost
  <2>1. Recorded(u) \/ Queued(u) \/ Held(u)
    BY DEF Inv, KeptInv
  <2> QED BY <2>1 DEF Recorded, Queued, Held, InFlight
<1> QED BY <1>1, MeterInvariantHolds, PTL

\* What the meter takes as a duplicate (duplicate-detector.isDuplicate) is accumulated.
THEOREM MeteredAreAccumulated == Spec => []MeteredIsAccumulated
<1>1. Inv => MeteredIsAccumulated
  BY DEF Inv, CacheInv, HandlingInv, MeteredIsAccumulated
<1> QED BY <1>1, MeterInvariantHolds, PTL

\* No usage is accumulated before its day (the check of handle), however long it is queued.
THEOREM FutureIsNotAccumulated == Spec => []FutureNotAccumulated
<1>1. Inv => FutureNotAccumulated
  BY DEF Inv
<1> QED BY <1>1, MeterInvariantHolds, PTL

\* The queue and its meters do what a usage document is promised: every step is a step of
\* UsageDelivery or none of its variables changes.
LEMMA DeliveryStep ==
    ASSUME Inv, [Next]_vars
    PROVE  [Promise!Next]_(Promise!vars)
<1> USE DEF Inv
<1>1. ASSUME NEW h \in Handlers, NEW step, At(h, step) PROVE UsageOf(h) \in collected /\ UsageOf(h) \in Usages
  BY <1>1 DEF At, MessagesInv, TypeOK
<1>2. CASE UNCHANGED <<collected, accumulated, output, errors>>
  BY <1>2 DEF Promise!vars
<1>3. ASSUME NEW u \in Usages, Collect(u) PROVE Promise!Next
  BY <1>3 DEF Collect, Promise!Next, Promise!Collect
<1>4. ASSUME NEW h \in Handlers, Post(h) \/ PostAnswerLost(h) PROVE Promise!Next
  BY <1>1, <1>4 DEF Post, PostAnswerLost, Promise!Next, Promise!Count
<1>5. ASSUME NEW h \in Handlers, Store(h) \/ FailStore(h)
      PROVE  Promise!Next \/ UNCHANGED Promise!vars
  <2>1. UsageOf(h) \in accumulated /\ UsageOf(h) \in Usages
    BY <1>1, <1>5 DEF Store, FailStore, HandlingInv
  <2>2. /\ UNCHANGED <<collected, accumulated, errors>>
        /\ output' = output \/ output' = output \cup {UsageOf(h)}
    BY <1>5 DEF Store, FailStore
  <2> QED BY <2>1, <2>2 DEF Promise!Next, Promise!Meter, Promise!vars
<1>6. ASSUME NEW h \in Handlers, Reject(h) PROVE Promise!Next \/ UNCHANGED Promise!vars
  <2>1. UsageOf(h) \in collected /\ UsageOf(h) \in Usages
    BY <1>1, <1>6 DEF Reject
  <2>2. UNCHANGED <<collected, accumulated, output>> /\ errors' = errors \cup {UsageOf(h)}
    BY <1>6 DEF Reject
  <2> QED BY <2>1, <2>2 DEF Promise!Next, Promise!Reject, Promise!vars
<1>7. ASSUME NEW h \in Handlers, HandlerStep(h)
      PROVE  \/ Post(h) \/ PostAnswerLost(h) \/ Store(h) \/ FailStore(h) \/ Reject(h)
             \/ UNCHANGED <<collected, accumulated, output, errors>>
  BY <1>7 DEF HandlerStep, Check, FailCheck, PostRefused, PostFailed, FailReject, Retry, Ack,
     storeVars
<1> QED BY <1>2, <1>3, <1>4, <1>5, <1>6, <1>7 DEF Next, vars, storeVars, Tick, Deliver, Return,
       Disconnect, Crash

\* The queues and the handler implement the delivery of UsageDelivery: what it
\* promises of collected usage is a step of every step of theirs or none.
THEOREM QueueDelivers == Spec => Promise!SafeSpec
<1>1. Init => Promise!Init
  BY DEF Init, Promise!Init
<1>2. Inv /\ [Next]_vars => [Promise!Next]_(Promise!vars)
  BY DeliveryStep
<1> QED BY <1>1, <1>2, MeterInvariantHolds, PTL DEF Spec, Promise!SafeSpec

-----------------------------------------------------------------------------
(***************************************************************************)
(* The calls behind a circuit breaker.                                     *)
(***************************************************************************)

\* What the breaker knows of a call is what is kept of those it is not about.
OthersKept(c) == \A d \in Calls \ {c} : call'[d] = call[d]

\* A call that takes a step is the same call elsewhere.
LEMMA StepTaken ==
    ASSUME NEW r \in CallRecord, NEW at \in CallSteps,
           NEW s, s = [r EXCEPT !.at = at]
    PROVE  /\ s \in CallRecord /\ s.at = at /\ s.age = r.age
           /\ s.probe = r.probe /\ s.answers = r.answers
BY DEF CallRecord

\* A call that is called back has one answer more.
LEMMA AnswerIsCounted ==
    ASSUME NEW c \in Calls, call[c] \in CallRecord
    PROVE  /\ Answered(c) \in CallRecord /\ Answered(c).at = "answered"
           /\ Answered(c).answers = call[c].answers + 1
<1> DEFINE at == "answered"
           more == call[c].answers + 1
<1>1. at \in CallSteps /\ more \in Nat
  BY DEF CallSteps, CallRecord
<1>2. Answered(c) = [call[c] EXCEPT !.at = at, !.answers = more]
  BY DEF Answered
<1>3. at = "answered" /\ more = call[c].answers + 1 OBVIOUS
<1> HIDE DEF at, more
<1>4. Answered(c) \in CallRecord /\ Answered(c).at = at /\ Answered(c).answers = more
  BY <1>1, <1>2 DEF CallRecord
<1> QED BY <1>3, <1>4

\* A call that has a slot and keeps it leaves the throttle as it is.
LEMMA Moved ==
    ASSUME GuardTypeOK, SlotsInv, AnswersInv, NEW c \in Calls,
           Holds(c), Holds(c)', OthersKept(c),
           call'[c].answers = call[c].answers, UNCHANGED throttleVars
    PROVE  SlotsInv' /\ AnswersInv'
<1>1. UNCHANGED <<limit, running, waiting>>
  BY DEF throttleVars
<1>2. Holding' = Holding
  BY DEF Holding, Holds, OthersKept
<1>3. \A d \in Calls : call'[d].at = "queued" <=> call[d].at = "queued"
  BY DEF Holds, OthersKept
<1>4. SlotsInv'
  BY <1>1, <1>2, <1>3 DEF SlotsInv
<1>5. AnswersInv'
  BY DEF AnswersInv, Holds, OthersKept
<1> QED BY <1>4, <1>5

\* What a call back does to the throttle and to the calls: no slot is lost, one
\* call has its answer, and at most one other is taken from the queue.
CalledBack(c) ==
    /\ call' \in [Calls -> CallRecord]
    /\ running' \in Nat /\ waiting' \in Seq(Calls)
    /\ ~ IsTest(c)'
    /\ \A d \in Calls \ {c} : /\ call'[d].age = call[d].age
                              /\ IsTest(d)' <=> IsTest(d)
    /\ SlotsInv' /\ AnswersInv'

\* The slot of a call that is called back is free if no call waits.
LEMMA SlotFreed ==
    ASSUME GuardTypeOK, SlotsInv, AnswersInv, NEW c \in Calls, Holds(c),
           CallBack(c), limit' = limit, waiting = <<>>
    PROVE  CalledBack(c)
<1>1. /\ call' = [call EXCEPT ![c] = Answered(c)]
      /\ running' = running - 1 /\ waiting' = waiting
  BY DEF CallBack
<1>2. Answered(c) \in CallRecord /\ Answered(c).at = "answered"
      /\ Answered(c).answers = call[c].answers + 1
  BY AnswerIsCounted DEF GuardTypeOK
<1>3. call' \in [Calls -> CallRecord] /\ call'[c] = Answered(c) /\ OthersKept(c)
  BY <1>1, <1>2 DEF GuardTypeOK, OthersKept
<1>4. Holding' = Holding \ {c} /\ c \in Holding
  BY <1>2, <1>3 DEF Holding, Holds, OthersKept
<1>5. /\ IsFiniteSet(Holding') /\ running' = Cardinality(Holding')
      /\ running' \in Nat
  <2>1. IsFiniteSet(Holding \ {c}) /\ Cardinality(Holding \ {c}) = Cardinality(Holding) - 1
    BY <1>4, FS_RemoveElement DEF SlotsInv
  <2>2. Cardinality(Holding \ {c}) \in Nat
    BY <2>1, FS_CardinalityType
  <2> QED BY <1>1, <1>4, <2>1, <2>2 DEF SlotsInv
<1>6. running' <= limit'
  BY <1>1 DEF SlotsInv, GuardTypeOK
<1>7. \A d \in Calls : call'[d].at = "queued" <=> call[d].at = "queued"
  BY <1>2, <1>3 DEF OthersKept, Holds
<1>8. SlotsInv'
  BY <1>1, <1>5, <1>6, <1>7 DEF SlotsInv
<1>9. AnswersInv'
  BY <1>2, <1>3 DEF AnswersInv, OthersKept, Holds
<1> QED BY <1>1, <1>2, <1>3, <1>5, <1>8, <1>9 DEF CalledBack, OthersKept, IsTest, GuardTypeOK

\* The slot passes to the call that waits for the longest time.
LEMMA SlotPassed ==
    ASSUME GuardTypeOK, SlotsInv, AnswersInv, NEW c \in Calls, Holds(c),
           CallBack(c), limit' = limit, waiting # <<>>
    PROVE  CalledBack(c)
<1> DEFINE h == Head(waiting)
<1>1. /\ call' = [call EXCEPT ![c] = Answered(c), ![h].at = "scheduled"]
      /\ waiting' = Tail(waiting) /\ running' = running
  BY DEF CallBack
<1>2. /\ Answered(c) \in CallRecord /\ Answered(c).at = "answered"
      /\ Answered(c).answers = call[c].answers + 1
  BY AnswerIsCounted DEF GuardTypeOK
<1>3. /\ waiting \in Seq(Calls) /\ h \in Calls /\ h = waiting[1]
      /\ Len(waiting) \in Nat \ {0}
      /\ waiting' \in Seq(Calls) /\ Len(waiting') = Len(waiting) - 1
      /\ \A i \in 1 .. Len(waiting') : waiting'[i] = waiting[i + 1]
  BY <1>1, HeadTailProperties, EmptySeq DEF GuardTypeOK
<1>4. call[h].at = "queued" /\ h # c
  BY <1>3 DEF SlotsInv, Holds
<1> HIDE DEF h
<1>5. /\ call' \in [Calls -> CallRecord] /\ call'[c] = Answered(c)
      /\ call'[h] = [call[h] EXCEPT !.at = "scheduled"]
      /\ \A d \in Calls \ {c, h} : call'[d] = call[d]
  <2>1. [call[h] EXCEPT !.at = "scheduled"] \in CallRecord
    BY <1>3, StepTaken DEF GuardTypeOK, CallSteps
  <2> QED BY <1>1, <1>2, <1>3, <1>4, <2>1 DEF GuardTypeOK
<1>6. /\ call'[h].at = "scheduled" /\ call'[h].age = call[h].age
      /\ call'[h].answers = call[h].answers
  BY <1>3, <1>5, StepTaken DEF GuardTypeOK, CallSteps
<1>7. /\ Holding' = (Holding \ {c}) \cup {h} /\ c \in Holding /\ h \notin Holding
  <2>1. ASSUME NEW d \in Calls PROVE Holds(d)' <=> (Holds(d) /\ d # c) \/ d = h
    <3>1. CASE d = c BY <1>2, <1>4, <1>5, <3>1 DEF Holds
    <3>2. CASE d = h BY <1>6, <3>2 DEF Holds
    <3>3. CASE d \notin {c, h} BY <1>5, <3>3 DEF Holds
    <3> QED BY <3>1, <3>2, <3>3
  <2>2. ~ Holds(h) BY <1>4 DEF Holds
  <2> QED BY <1>3, <2>1, <2>2 DEF Holding
<1>8. IsFiniteSet(Holding') /\ running' = Cardinality(Holding')
  <2>1. /\ IsFiniteSet(Holding \ {c})
        /\ Cardinality(Holding \ {c}) = Cardinality(Holding) - 1
    BY <1>7, FS_RemoveElement DEF SlotsInv
  <2>2. /\ IsFiniteSet((Holding \ {c}) \cup {h})
        /\ Cardinality((Holding \ {c}) \cup {h}) = Cardinality(Holding \ {c}) + 1
    BY <1>7, <2>1, FS_AddElement
  <2> QED BY <1>1, <1>7, <2>1, <2>2 DEF SlotsInv, GuardTypeOK
<1>9. waiting' # <<>> => running' = limit'
  BY <1>1 DEF SlotsInv
<1>10. \A i, j \in 1 .. Len(waiting') : waiting'[i] = waiting'[j] => i = j
  <2> TAKE i, j \in 1 .. Len(waiting')
  <2>1. i + 1 \in 1 .. Len(waiting) /\ j + 1 \in 1 .. Len(waiting)
    BY <1>3
  <2> QED BY <1>3, <2>1 DEF SlotsInv
<1>11. ASSUME NEW d \in Calls
       PROVE  call'[d].at = "queued" <=> \E i \in 1 .. Len(waiting') : waiting'[i] = d
  <2>1. CASE d = c
    <3>1. \A i \in 1 .. Len(waiting) : waiting[i] # c
      BY DEF SlotsInv, Holds
    <3>2. \A i \in 1 .. Len(waiting') : i + 1 \in 1 .. Len(waiting)
      BY <1>3
    <3> QED BY <1>2, <1>3, <1>5, <2>1, <3>1, <3>2
  <2>2. CASE d = h
    <3>1. ASSUME NEW i \in 1 .. Len(waiting') PROVE waiting'[i] # h
      <4>1. i + 1 \in 1 .. Len(waiting) /\ 1 \in 1 .. Len(waiting) /\ i + 1 # 1
        BY <1>3
      <4> QED BY <1>3, <4>1 DEF SlotsInv
    <3> QED BY <1>6, <2>2, <3>1
  <2>3. CASE d # c /\ d # h
    <3>1. call'[d].at = call[d].at BY <1>5, <2>3
    <3>2. ASSUME NEW i \in 1 .. Len(waiting), waiting[i] = d
          PROVE  \E j \in 1 .. Len(waiting') : waiting'[j] = d
      <4>1. i # 1 BY <1>3, <2>3, <3>2
      <4>2. i - 1 \in 1 .. Len(waiting') BY <1>3, <4>1
      <4>3. waiting'[i - 1] = waiting[i] BY <1>3, <4>2
      <4> QED BY <3>2, <4>2, <4>3
    <3>3. ASSUME NEW i \in 1 .. Len(waiting'), waiting'[i] = d
          PROVE  \E j \in 1 .. Len(waiting) : waiting[j] = d
      BY <1>3, <3>3
    <3> QED BY <3>1, <3>2, <3>3 DEF SlotsInv
  <2> QED BY <2>1, <2>2, <2>3
<1>12. SlotsInv'
  <2>1. running' <= limit' BY <1>1 DEF SlotsInv
  <2> QED BY <1>8, <1>9, <1>10, <1>11, <2>1 DEF SlotsInv
<1>13. AnswersInv'
  <2> SUFFICES ASSUME NEW d \in Calls
               PROVE  call'[d].answers = IF call'[d].at = "answered" THEN 1 ELSE 0
    BY DEF AnswersInv
  <2>1. call[d].answers = IF call[d].at = "answered" THEN 1 ELSE 0
    BY DEF AnswersInv
  <2>2. CASE d = c BY <1>2, <1>5, <2>1, <2>2 DEF Holds
  <2>3. CASE d = h BY <1>4, <1>6, <2>1, <2>3
  <2>4. CASE d \notin {c, h} BY <1>5, <2>1, <2>4
  <2> QED BY <2>2, <2>3, <2>4
<1>14. /\ ~ IsTest(c)'
       /\ \A d \in Calls \ {c} : /\ call'[d].age = call[d].age
                                 /\ IsTest(d)' <=> IsTest(d)
  BY <1>2, <1>4, <1>5, <1>6 DEF IsTest
<1>15. running' \in Nat BY <1>1 DEF GuardTypeOK
<1> QED BY <1>3, <1>5, <1>12, <1>13, <1>14, <1>15 DEF CalledBack

\* A call is called back: its slot passes to the next in the queue or is free.
LEMMA AnswerReachesCaller ==
    ASSUME GuardTypeOK, SlotsInv, AnswersInv, NEW c \in Calls, Holds(c),
           CallBack(c), limit' = limit
    PROVE  CalledBack(c)
BY SlotFreed, SlotPassed

\* A failed attempt is tried again, in its slot, or its caller is called back.
LEMMA FailureIsHandled ==
    ASSUME GuardTypeOK, SlotsInv, AnswersInv, NEW c \in Calls, Holds(c),
           AttemptFailed(c), limit' = limit
    PROVE  CalledBack(c)
<1>1. CASE call[c].attempts < MaxRetries
  <2> DEFINE again == [call[c] EXCEPT !.at = "backoff", !.probe = FALSE,
                                      !.age = 0, !.attempts = @ + 1]
  <2>1. call' = [call EXCEPT ![c] = again] /\ UNCHANGED <<running, waiting>>
    BY <1>1 DEF AttemptFailed, GuardTypeOK
  <2>2. /\ again \in CallRecord /\ again.at = "backoff"
        /\ again.answers = call[c].answers
    <3>1. call[c] \in CallRecord BY DEF GuardTypeOK
    <3>2. /\ "backoff" \in CallSteps /\ 0 \in 0 .. Old
          /\ call[c].attempts + 1 \in 0 .. MaxRetries
      BY <1>1, <3>1, CallGuardAssumption DEF CallRecord, CallSteps, Old
    <3> DEFINE at == "backoff"
               zero == 0
               more == call[c].attempts + 1
    <3>3. /\ at = "backoff" /\ at \in CallSteps /\ zero \in 0 .. Old
          /\ more \in 0 .. MaxRetries /\ FALSE \in BOOLEAN
      BY <3>2
    <3>4. again = [call[c] EXCEPT !.at = at, !.probe = FALSE, !.age = zero,
                                  !.attempts = more]
      OBVIOUS
    <3> HIDE DEF at, zero, more, again
    <3>5. again \in CallRecord /\ again.at = at /\ again.answers = call[c].answers
      BY <3>1, <3>3, <3>4 DEF CallRecord
    <3> QED BY <3>3, <3>5
  <2> HIDE DEF again
  <2>3. call' \in [Calls -> CallRecord] /\ call'[c] = again /\ OthersKept(c)
    BY <2>1, <2>2 DEF GuardTypeOK, OthersKept
  <2>4. SlotsInv' /\ AnswersInv'
    BY <2>1, <2>2, <2>3, Moved DEF Holds, throttleVars
  <2> QED BY <2>1, <2>2, <2>3, <2>4 DEF CalledBack, OthersKept, IsTest, GuardTypeOK
<1>2. CASE ~ (call[c].attempts < MaxRetries)
  BY <1>2, AnswerReachesCaller DEF AttemptFailed
<1> QED BY <1>1, <1>2

-----------------------------------------------------------------------------
\* The statistics stay counts of the ticks of the window.
LEMMA ResultCounted ==
    ASSUME GuardTypeOK, NEW result \in {"ok", "bad"}, Count(result)
    PROVE  counts' \in [1 .. Buckets -> [ok : Nat, bad : Nat]]
<1> DEFINE more == [counts[1] EXCEPT ![result] = @ + 1]
<1>1. 1 \in 1 .. Buckets /\ counts[1] \in [ok : Nat, bad : Nat]
  BY CallGuardAssumption DEF GuardTypeOK
<1>2. more \in [ok : Nat, bad : Nat]
  <2>1. CASE result = "ok"
    BY <1>1, <2>1
  <2>2. CASE result = "bad"
    BY <1>1, <2>2
  <2> QED BY <2>1, <2>2
<1>3. counts' = [counts EXCEPT ![1] = more]
  BY DEF Count
<1> HIDE DEF more
<1> QED BY <1>1, <1>2, <1>3 DEF GuardTypeOK

\* The window of perf is emptied when a circuit is closed.
LEMMA WindowEmptied == EmptyWindow \in [1 .. Buckets -> [ok : Nat, bad : Nat]]
BY DEF EmptyWindow, NoCounts

\* The window of perf moves on with the time.
LEMMA WindowMoved ==
    ASSUME GuardTypeOK, counts' = <<NoCounts>> \o SubSeq(counts, 1, Buckets - 1)
    PROVE  counts' \in [1 .. Buckets -> [ok : Nat, bad : Nat]]
<1> DEFINE Bucket == [ok : Nat, bad : Nat]
           kept == SubSeq(counts, 1, Buckets - 1)
<1>1. Buckets \in Nat \ {0} /\ counts \in [1 .. Buckets -> Bucket]
  BY CallGuardAssumption DEF GuardTypeOK
<1>2. \A i \in 1 .. Buckets - 1 : counts[i] \in Bucket
  BY <1>1
<1> HIDE DEF Bucket
<1>3. kept \in Seq(Bucket) /\ Len(kept) = Buckets - 1
  <2>1. 1 \in Int /\ Buckets - 1 \in Int BY <1>1
  <2> QED BY <1>1, <1>2, <2>1, SubSeqProperties
<1> HIDE DEF kept
<1>4. <<NoCounts>> \in Seq(Bucket) /\ Len(<<NoCounts>>) = 1
  BY DEF NoCounts, Bucket
<1>5. /\ <<NoCounts>> \o kept \in Seq(Bucket)
      /\ Len(<<NoCounts>> \o kept) = Buckets
  BY <1>1, <1>3, <1>4, ConcatProperties
<1>6. counts' \in Seq(Bucket) /\ Len(counts') = Buckets
  BY <1>5 DEF kept
<1> QED BY <1>6, LenProperties DEF Bucket

\* The breaker stays as it is when no test call starts or ends.
LEMMA BreakerKept ==
    ASSUME CircuitInv, AgesInv, UNCHANGED <<circuit, reported, sinceOpen, sinceProbe>>,
           \A d \in Calls : IsTest(d)' <=> IsTest(d),
           \A d \in Calls : IsTest(d) => call'[d].age = call[d].age
    PROVE  CircuitInv' /\ AgesInv'
<1>1. CircuitInv' BY DEF CircuitInv
<1>2. AgesInv' BY DEF AgesInv
<1> QED BY <1>1, <1>2

\* The end of an attempt is the end of the test, when it was one.
LEMMA AttemptFinished ==
    ASSUME GuardTypeOK, CircuitInv, AgesInv, NEW c \in Calls, CalledBack(c),
           call[c].at = "calling", sinceProbe' = sinceProbe,
           \/ /\ call[c].probe
              /\ circuit' # "half-open"
              /\ circuit' = "open" => sinceOpen' = call[c].age
              /\ reported' # "closed" => circuit' # "closed"
           \/ /\ ~ call[c].probe /\ UNCHANGED <<circuit, sinceOpen>>
              /\ reported' = "closed"
    PROVE  CircuitInv' /\ AgesInv'
<1>1. /\ ~ IsTest(c)'
      /\ \A d \in Calls \ {c} : /\ call'[d].age = call[d].age
                                /\ IsTest(d)' <=> IsTest(d)
  BY DEF CalledBack
<1>2. CASE call[c].probe
  <2>1. IsTest(c) BY <1>2 DEF IsTest
  <2>2. \A d \in Calls : ~ IsTest(d)'
    BY <1>1, <2>1 DEF CircuitInv
  <2>3. CircuitInv' BY <1>2, <2>2 DEF CircuitInv
  <2>4. AgesInv' BY <1>2, <2>1, <2>2 DEF AgesInv
  <2> QED BY <2>3, <2>4
<1>3. CASE ~ call[c].probe
  <2>1. ~ IsTest(c) BY <1>3 DEF IsTest
  <2>2. \A d \in Calls : IsTest(d)' <=> IsTest(d)
    BY <1>1, <2>1
  <2>3. CircuitInv' BY <1>3, <2>2 DEF CircuitInv
  <2>4. AgesInv' BY <1>1, <1>3, <2>1, <2>2 DEF AgesInv
  <2> QED BY <2>3, <2>4
<1> QED BY <1>2, <1>3

-----------------------------------------------------------------------------
\* The invariant holds before the first call.
LEMMA GuardStarts == ASSUME GuardInit PROVE GuardInv
<1>1. NewCall \in CallRecord /\ NewCall.at = "new" /\ NewCall.answers = 0
  BY CallGuardAssumption DEF NewCall, CallRecord, CallSteps, Old
<1>2. \A c \in Calls : call[c] = NewCall
  BY DEF GuardInit
<1>3. Old \in 0 .. Old
  BY CallGuardAssumption DEF Old
<1>4. GuardTypeOK
  <2>1. waiting \in Seq(Calls) BY DEF GuardInit
  <2>2. call \in [Calls -> CallRecord] BY <1>1 DEF GuardInit
  <2> QED BY <1>3, <2>1, <2>2, WindowEmptied, CallGuardAssumption
          DEF GuardInit, GuardTypeOK, Circuits
<1>5. SlotsInv
  <2>1. Holding = {} BY <1>1, <1>2 DEF Holding, Holds
  <2>2. Len(waiting) = 0 BY DEF GuardInit
  <2> QED BY <1>1, <1>2, <1>4, <2>1, <2>2, FS_EmptySet
          DEF SlotsInv, GuardInit, GuardTypeOK
<1>6. AnswersInv BY <1>1, <1>2 DEF AnswersInv
<1>7. CircuitInv /\ AgesInv
  BY <1>1, <1>2 DEF CircuitInv, AgesInv, IsTest, GuardInit
<1> QED BY <1>4, <1>5, <1>6, <1>7 DEF GuardInv

-----------------------------------------------------------------------------
\* A call that is made waits only if the slots are all taken.
LEMMA InvokeSteps ==
    ASSUME GuardInv, NEW c \in Calls, Invoke(c)
    PROVE  GuardInv'
<1> USE DEF GuardInv
<1>1. /\ call[c].at = "new" /\ UNCHANGED <<limit, breakerVars>>
      /\ call[c] \in CallRecord
  BY DEF Invoke, GuardTypeOK
<1>2. UNCHANGED <<circuit, sinceOpen, counts, reported, late, sinceProbe>>
  BY <1>1 DEF breakerVars
<1>3. PICK at \in CallSteps : /\ at \in {"queued", "attempt"}
                              /\ call' = [call EXCEPT ![c] = [call[c] EXCEPT !.at = at]]
                              /\ at = "queued" <=> running = limit
  BY DEF Invoke, CallSteps
<1>4. PICK r : r = [call[c] EXCEPT !.at = at] OBVIOUS
<1>5. r \in CallRecord /\ r.at = at /\ r.age = call[c].age /\ r.answers = call[c].answers
  BY <1>1, <1>4, StepTaken
<1>6. call' \in [Calls -> CallRecord] /\ call'[c] = r /\ OthersKept(c)
  BY <1>3, <1>4, <1>5 DEF GuardTypeOK, OthersKept
<1>7. CircuitInv' /\ AgesInv'
  <2>1. \A d \in Calls : IsTest(d)' <=> IsTest(d)
    BY <1>1, <1>3, <1>5, <1>6 DEF IsTest, OthersKept
  <2>2. \A d \in Calls : IsTest(d) => call'[d].age = call[d].age
    BY <1>5, <1>6 DEF OthersKept
  <2> QED BY <1>2, <2>1, <2>2, BreakerKept
<1>8. AnswersInv'
  BY <1>1, <1>3, <1>5, <1>6 DEF AnswersInv, OthersKept
<1>9. CASE running = limit
  <2>1. waiting' = Append(waiting, c) /\ running' = running
    BY <1>9 DEF Invoke
  <2>2. waiting \in Seq(Calls) BY DEF GuardTypeOK
  <2>3. /\ waiting' \in Seq(Calls) /\ Len(waiting') = Len(waiting) + 1
        /\ \A i \in 1 .. Len(waiting) : waiting'[i] = waiting[i]
        /\ waiting'[Len(waiting) + 1] = c
        /\ Len(waiting) \in Nat
    BY <2>1, <2>2, AppendProperties, LenProperties
  <2>4. \A i \in 1 .. Len(waiting) : waiting[i] # c
    BY <1>1 DEF SlotsInv
  <2>5. Holding' = Holding
    BY <1>1, <1>3, <1>5, <1>6, <1>9 DEF Holding, Holds, OthersKept
  <2>6. \A i, j \in 1 .. Len(waiting') : waiting'[i] = waiting'[j] => i = j
    <3> TAKE i, j \in 1 .. Len(waiting')
    <3>1. i \in 1 .. Len(waiting) \/ i = Len(waiting) + 1 BY <2>3
    <3>2. j \in 1 .. Len(waiting) \/ j = Len(waiting) + 1 BY <2>3
    <3> QED BY <2>3, <2>4, <3>1, <3>2 DEF SlotsInv
  <2>7. ASSUME NEW d \in Calls
        PROVE  call'[d].at = "queued" <=> \E i \in 1 .. Len(waiting') : waiting'[i] = d
    <3>1. CASE d = c
      <4>1. Len(waiting) + 1 \in 1 .. Len(waiting') BY <2>3
      <4> QED BY <1>3, <1>5, <1>6, <1>9, <2>3, <3>1, <4>1
    <3>2. CASE d # c
      <4>1. call'[d] = call[d] BY <1>6, <3>2 DEF OthersKept
      <4>2. (\E i \in 1 .. Len(waiting') : waiting'[i] = d)
               <=> \E i \in 1 .. Len(waiting) : waiting[i] = d
        BY <2>3, <3>2
      <4> QED BY <4>1, <4>2 DEF SlotsInv
    <3> QED BY <3>1, <3>2
  <2>8. SlotsInv'
    BY <1>1, <1>9, <2>1, <2>5, <2>6, <2>7 DEF SlotsInv
  <2>9. GuardTypeOK'
    BY <1>1, <1>2, <1>6, <2>1, <2>3 DEF GuardTypeOK
  <2> QED BY <1>7, <1>8, <2>8, <2>9
<1>10. CASE running # limit
  <2>1. UNCHANGED waiting /\ running' = running + 1
    BY <1>10 DEF Invoke
  <2>2. at = "attempt" BY <1>3, <1>10
  <2>3. Holding' = Holding \cup {c} /\ c \notin Holding
    BY <1>1, <1>5, <1>6, <2>2 DEF Holding, Holds, OthersKept
  <2>4. IsFiniteSet(Holding') /\ running' = Cardinality(Holding')
    BY <2>1, <2>3, FS_AddElement DEF SlotsInv
  <2>5. running' <= limit' /\ running' \in Nat
    BY <1>1, <1>10, <2>1 DEF SlotsInv, GuardTypeOK
  <2>6. waiting' = <<>>
    BY <1>10, <2>1 DEF SlotsInv
  <2>7. \A d \in Calls : call'[d].at = "queued" <=> call[d].at = "queued"
    BY <1>1, <1>5, <1>6, <2>2 DEF OthersKept
  <2>8. SlotsInv'
    BY <2>1, <2>4, <2>5, <2>6, <2>7 DEF SlotsInv
  <2>9. GuardTypeOK'
    BY <1>1, <1>2, <1>6, <2>1, <2>5 DEF GuardTypeOK
  <2> QED BY <1>7, <1>8, <2>8, <2>9
<1> QED BY <1>9, <1>10

\* A call that has a slot goes on within the throttle and the retries.
LEMMA StepIsTaken ==
    ASSUME GuardInv, NEW c \in Calls, RunQueued(c) \/ BackedOff(c)
    PROVE  GuardInv'
<1> USE DEF GuardInv
<1>1. /\ call[c].at \in {"scheduled", "backoff"} /\ call[c] \in CallRecord
      /\ call' = [call EXCEPT ![c] = [call[c] EXCEPT !.at = "attempt"]]
      /\ UNCHANGED <<limit, running, waiting, circuit, sinceOpen, counts,
                     reported, late, sinceProbe>>
  BY DEF RunQueued, BackedOff, throttleVars, breakerVars, GuardTypeOK
<1>2. PICK r : r = [call[c] EXCEPT !.at = "attempt"] OBVIOUS
<1>3. /\ r \in CallRecord /\ r.at = "attempt" /\ r.age = call[c].age
      /\ r.answers = call[c].answers
  BY <1>1, <1>2, StepTaken DEF CallSteps
<1>4. call' \in [Calls -> CallRecord] /\ call'[c] = r /\ OthersKept(c)
  BY <1>1, <1>2, <1>3 DEF GuardTypeOK, OthersKept
<1>5. SlotsInv' /\ AnswersInv'
  BY <1>1, <1>3, <1>4, Moved DEF Holds, throttleVars
<1>6. \A d \in Calls : IsTest(d)' <=> IsTest(d)
  BY <1>1, <1>3, <1>4 DEF IsTest, OthersKept
<1>7. CircuitInv' /\ AgesInv'
  BY <1>1, <1>3, <1>4, <1>6, BreakerKept DEF OthersKept
<1>8. GuardTypeOK'
  BY <1>1, <1>4 DEF GuardTypeOK
<1> QED BY <1>5, <1>7, <1>8

\* What the start of an attempt makes of its call.
LEMMA AttemptStarts ==
    ASSUME GuardTypeOK, NEW c \in Calls, NEW probe \in BOOLEAN, StartCall(c, probe)
    PROVE  /\ call' \in [Calls -> CallRecord] /\ OthersKept(c)
           /\ call'[c].at = "calling" /\ call'[c].probe = probe
           /\ call'[c].age = 0 /\ call'[c].answers = call[c].answers
<1> DEFINE at == "calling"
           zero == 0
<1>1. call[c] \in CallRecord BY DEF GuardTypeOK
<1>2. /\ at \in CallSteps /\ zero \in 0 .. Old
      /\ at = "calling" /\ zero = 0
  BY CallGuardAssumption DEF CallSteps, Old
<1>3. call' = [call EXCEPT ![c] = [call[c] EXCEPT !.at = at, !.age = zero, !.probe = probe]]
  BY DEF StartCall, GuardTypeOK
<1> HIDE DEF at, zero
<1>4. PICK r : r = [call[c] EXCEPT !.at = at, !.age = zero, !.probe = probe] OBVIOUS
<1>5. /\ r \in CallRecord /\ r.at = at /\ r.age = zero /\ r.probe = probe
      /\ r.answers = call[c].answers
  BY <1>1, <1>2, <1>4 DEF CallRecord
<1>6. call' \in [Calls -> CallRecord] /\ call'[c] = r /\ OthersKept(c)
  BY <1>3, <1>4, <1>5 DEF GuardTypeOK, OthersKept
<1> QED BY <1>2, <1>5, <1>6

\* A call goes through the breaker.
LEMMA CallThroughSteps ==
    ASSUME GuardInv, NEW c \in Calls, CallThrough(c)
    PROVE  GuardInv'
<1> USE DEF GuardInv
<1>1. /\ call[c].at = "attempt" /\ StartCall(c, FALSE)
      /\ UNCHANGED <<limit, running, waiting, circuit, sinceOpen, counts,
                     reported, late, sinceProbe>>
  BY DEF CallThrough, throttleVars, breakerVars
<1>2. /\ call' \in [Calls -> CallRecord] /\ OthersKept(c)
      /\ call'[c].at = "calling" /\ call'[c].probe = FALSE
      /\ call'[c].answers = call[c].answers
  BY <1>1, AttemptStarts
<1>3. SlotsInv' /\ AnswersInv'
  BY <1>1, <1>2, Moved DEF Holds, throttleVars
<1>4. \A d \in Calls : IsTest(d)' <=> IsTest(d)
  BY <1>1, <1>2 DEF IsTest, OthersKept
<1>5. \A d \in Calls : IsTest(d) => call'[d].age = call[d].age
  BY <1>1, <1>2 DEF IsTest, OthersKept
<1>6. CircuitInv' /\ AgesInv'
  BY <1>1, <1>4, <1>5, BreakerKept
<1>7. GuardTypeOK'
  BY <1>1, <1>2 DEF GuardTypeOK
<1> QED BY <1>3, <1>6, <1>7

\* No test call is under way when one is made.
LEMMA TestCallSteps ==
    ASSUME GuardInv, NEW c \in Calls, TestCall(c)
    PROVE  GuardInv'
<1> USE DEF GuardInv
<1>1. /\ call[c].at = "attempt" /\ StartCall(c, TRUE)
      /\ circuit = "open" /\ circuit' = "half-open" /\ sinceProbe' = 0
      /\ UNCHANGED <<limit, running, waiting, sinceOpen, counts, reported, late>>
  BY DEF TestCall, throttleVars
<1>2. /\ call' \in [Calls -> CallRecord] /\ OthersKept(c)
      /\ call'[c].at = "calling" /\ call'[c].probe = TRUE /\ call'[c].age = 0
      /\ call'[c].answers = call[c].answers
  BY <1>1, AttemptStarts
<1>3. SlotsInv' /\ AnswersInv'
  BY <1>1, <1>2, Moved DEF Holds, throttleVars
<1>4. \A d \in Calls : IsTest(d)' <=> d = c
  BY <1>1, <1>2 DEF IsTest, OthersKept, CircuitInv
<1>5. CircuitInv'
  BY <1>1, <1>4 DEF CircuitInv
<1>6. AgesInv'
  BY <1>1, <1>2, <1>4 DEF AgesInv
<1>7. GuardTypeOK'
  BY <1>1, <1>2, CallGuardAssumption DEF GuardTypeOK, Circuits, Old
<1> QED BY <1>3, <1>5, <1>6, <1>7

\* A call fails fast while the circuit is open.
LEMMA FailFastSteps ==
    ASSUME GuardInv, NEW c \in Calls, FailFast(c)
    PROVE  GuardInv'
<1> USE DEF GuardInv
<1>1. /\ call[c].at = "attempt" /\ AttemptFailed(c) /\ Count("bad")
      /\ reported' = circuit' /\ UNCHANGED <<limit, late, sinceProbe>>
      /\ \/ circuit = "closed" /\ circuit' = "open" /\ sinceOpen' = 0
         \/ UNCHANGED <<circuit, sinceOpen>>
  BY DEF FailFast
<1>2. CalledBack(c)
  BY <1>1, FailureIsHandled DEF Holds
<1>3. \A d \in Calls : /\ IsTest(d)' <=> IsTest(d)
                       /\ IsTest(d) => call'[d].age = call[d].age
  BY <1>1, <1>2 DEF CalledBack, IsTest
<1>4. CircuitInv'
  BY <1>1, <1>3 DEF CircuitInv
<1>5. AgesInv'
  BY <1>1, <1>3 DEF AgesInv, GuardTypeOK
<1>6. counts' \in [1 .. Buckets -> [ok : Nat, bad : Nat]]
  BY <1>1, ResultCounted
<1>7. GuardTypeOK'
  <2>1. 0 \in 0 .. Old BY CallGuardAssumption DEF Old
  <2>2. circuit' \in Circuits /\ reported' \in Circuits /\ sinceOpen' \in 0 .. Old
    BY <1>1, <2>1 DEF GuardTypeOK, Circuits
  <2> QED BY <1>1, <1>2, <1>6, <2>2 DEF CalledBack, GuardTypeOK
<1> QED BY <1>2, <1>4, <1>5, <1>7 DEF CalledBack

\* A call succeeds.
LEMMA SucceedsSteps ==
    ASSUME GuardInv, NEW c \in Calls, Succeeds(c)
    PROVE  GuardInv'
<1> USE DEF GuardInv
<1>1. /\ call[c].at = "calling" /\ Closed(c) /\ CallBack(c)
      /\ UNCHANGED <<limit, sinceOpen, late, sinceProbe>>
  BY DEF Succeeds
<1>2. CalledBack(c)
  BY <1>1, AnswerReachesCaller DEF Holds
<1>3. /\ reported' = "closed"
      /\ \/ call[c].probe /\ circuit' = "closed" /\ counts' = EmptyWindow
         \/ ~ call[c].probe /\ UNCHANGED circuit /\ Count("ok")
  BY <1>1 DEF Closed
<1>4. CircuitInv' /\ AgesInv'
  BY <1>1, <1>2, <1>3, AttemptFinished
<1>5. counts' \in [1 .. Buckets -> [ok : Nat, bad : Nat]]
  BY <1>3, ResultCounted, WindowEmptied
<1>6. GuardTypeOK'
  BY <1>1, <1>2, <1>3, <1>5 DEF CalledBack, GuardTypeOK, Circuits
<1> QED BY <1>2, <1>4, <1>6 DEF CalledBack

\* An attempt that fails, in whatever way.
LEMMA FailureSteps ==
    ASSUME GuardInv, NEW c \in Calls, CalledBack(c),
           call[c].at = "calling", Reopened(c), reported' = CircuitOf(c),
           NEW result \in {"ok", "bad"}, Count(result),
           UNCHANGED <<limit, sinceProbe>>, late' \in [Calls -> Nat]
    PROVE  GuardInv'
<1> USE DEF GuardInv
<1>1. \/ call[c].probe /\ circuit' = "open" /\ sinceOpen' = call[c].age
      \/ ~ call[c].probe /\ UNCHANGED <<circuit, sinceOpen>>
  BY DEF Reopened
<1>2. /\ call[c].probe => reported' = "half-open"
      /\ ~ call[c].probe => reported' = "closed"
  BY DEF CircuitOf
<1>3. CircuitInv' /\ AgesInv'
  BY <1>1, <1>2, AttemptFinished
<1>4. counts' \in [1 .. Buckets -> [ok : Nat, bad : Nat]]
  BY ResultCounted
<1>5. call[c] \in CallRecord
  BY DEF GuardTypeOK
<1>6. circuit' \in Circuits /\ reported' \in Circuits /\ sinceOpen' \in 0 .. Old
  BY <1>1, <1>2, <1>5 DEF GuardTypeOK, Circuits, CallRecord
<1>7. GuardTypeOK'
  BY <1>4, <1>6 DEF CalledBack, GuardTypeOK
<1> QED BY <1>3, <1>7 DEF CalledBack

\* A call fails and may be repeated.
LEMMA FailsWithErrorSteps ==
    ASSUME GuardInv, NEW c \in Calls, FailsWithError(c)
    PROVE  GuardInv'
<1>1. CalledBack(c)
  BY FailureIsHandled DEF FailsWithError, GuardInv, Holds
<1>2. late' \in [Calls -> Nat]
  BY DEF FailsWithError, GuardInv, GuardTypeOK
<1> QED BY <1>1, <1>2, FailureSteps DEF FailsWithError

\* A call fails for good.
LEMMA FailsForGoodSteps ==
    ASSUME GuardInv, NEW c \in Calls, FailsForGood(c)
    PROVE  GuardInv'
<1>1. CalledBack(c)
  BY AnswerReachesCaller DEF FailsForGood, GuardInv, Holds
<1>2. late' \in [Calls -> Nat]
  BY DEF FailsForGood, GuardInv, GuardTypeOK
<1> QED BY <1>1, <1>2, FailureSteps DEF FailsForGood

\* A call times out.
LEMMA TimesOutSteps ==
    ASSUME GuardInv, NEW c \in Calls, TimesOut(c)
    PROVE  GuardInv'
<1>1. CalledBack(c)
  BY FailureIsHandled DEF TimesOut, GuardInv, Holds
<1>2. late' \in [Calls -> Nat]
  BY DEF TimesOut, GuardInv, GuardTypeOK
<1> QED BY <1>1, <1>2, FailureSteps DEF TimesOut

\* A call answers after its timeout.
LEMMA AnswersLateSteps ==
    ASSUME GuardInv, NEW c \in Calls, AnswersLate(c)
    PROVE  GuardInv'
<1> USE DEF GuardInv
<1>1. UNCHANGED <<limit, running, waiting, call, circuit, sinceOpen, counts, reported,
                  sinceProbe>>
  BY DEF AnswersLate, throttleVars
<1>2. late' \in [Calls -> Nat]
  BY DEF AnswersLate, GuardTypeOK
<1>3. GuardTypeOK' BY <1>1, <1>2 DEF GuardTypeOK
<1>4. SlotsInv' /\ AnswersInv'
  BY <1>1 DEF SlotsInv, AnswersInv, Holding, Holds
<1>5. CircuitInv' /\ AgesInv'
  BY <1>1 DEF CircuitInv, AgesInv, IsTest
<1> QED BY <1>3, <1>4, <1>5

\* The open circuit, its test call and the history grow old together.
LEMMA GuardTickSteps ==
    ASSUME GuardInv, GuardTick
    PROVE  GuardInv'
<1> USE DEF GuardInv
<1>1. /\ \A x, y \in 0 .. Old : x <= y => Older(x) <= Older(y)
      /\ \A x \in 0 .. Old : Older(x) \in 0 .. Old
  BY CallGuardAssumption DEF Older, Old
<1>2. ASSUME NEW d \in Calls
      PROVE  /\ call'[d] \in CallRecord /\ call'[d].at = call[d].at
             /\ call'[d].probe = call[d].probe /\ call'[d].answers = call[d].answers
             /\ call[d].at = "calling" => call'[d].age = Older(call[d].age)
  <2>1. call[d] \in CallRecord BY DEF GuardTypeOK
  <2>2. PICK age : age = Older(call[d].age) OBVIOUS
  <2>3. age \in 0 .. Old BY <1>1, <2>1, <2>2 DEF CallRecord
  <2>4. \/ call[d].at = "calling" /\ call'[d] = [call[d] EXCEPT !.age = age]
        \/ call[d].at # "calling" /\ call'[d] = call[d]
    BY <2>2 DEF GuardTick
  <2> QED BY <2>1, <2>2, <2>3, <2>4 DEF CallRecord
<1>3. call' \in [Calls -> CallRecord]
  BY <1>2 DEF GuardTick
<1>4. /\ UNCHANGED <<limit, running, waiting, circuit, reported, late>>
      /\ sinceOpen' = Older(sinceOpen) /\ sinceProbe' = Older(sinceProbe)
  BY DEF GuardTick
<1>5. GuardTypeOK'
  <2>1. counts' \in [1 .. Buckets -> [ok : Nat, bad : Nat]]
    BY WindowMoved DEF GuardTick
  <2>2. sinceOpen' \in 0 .. Old /\ sinceProbe' \in 0 .. Old
    BY <1>1, <1>4 DEF GuardTypeOK
  <2> QED BY <1>3, <1>4, <2>1, <2>2 DEF GuardTypeOK
<1>6. SlotsInv'
  <2>1. Holding' = Holding BY <1>2 DEF Holding, Holds
  <2> QED BY <1>2, <1>4, <2>1 DEF SlotsInv
<1>7. AnswersInv' BY <1>2 DEF AnswersInv
<1>8. \A d \in Calls : IsTest(d)' <=> IsTest(d)
  BY <1>2 DEF IsTest
<1>9. CircuitInv' BY <1>4, <1>8 DEF CircuitInv
<1>10. AgesInv'
  <2>1. circuit' = "open" => sinceOpen' <= sinceProbe'
    BY <1>1, <1>4 DEF AgesInv, GuardTypeOK
  <2>2. ASSUME NEW d \in Calls, IsTest(d) PROVE call'[d].age <= sinceProbe'
    <3>1. call[d].age \in 0 .. Old /\ call[d].age <= sinceProbe /\ sinceProbe \in 0 .. Old
      BY <2>2 DEF AgesInv, GuardTypeOK, CallRecord
    <3> QED BY <1>1, <1>2, <1>4, <2>2, <3>1 DEF IsTest
  <2> QED BY <1>8, <2>1, <2>2 DEF AgesInv
<1> QED BY <1>5, <1>6, <1>7, <1>9, <1>10

\* Every step keeps the invariant.
LEMMA GuardSteps ==
    ASSUME GuardInv, [GuardNext]_guardVars
    PROVE  GuardInv'
<1>1. ASSUME NEW c \in Calls, \/ Invoke(c) \/ GuardStep(c)
                              \/ Succeeds(c) \/ FailsWithError(c) \/ FailsForGood(c)
                              \/ TimesOut(c) \/ AnswersLate(c)
      PROVE  GuardInv'
  BY <1>1, InvokeSteps, StepIsTaken, CallThroughSteps, TestCallSteps, FailFastSteps,
     SucceedsSteps, FailsWithErrorSteps, FailsForGoodSteps, TimesOutSteps,
     AnswersLateSteps DEF GuardStep
<1>2. CASE UNCHANGED guardVars
  BY <1>2 DEF guardVars, throttleVars, breakerVars, GuardInv, GuardTypeOK, SlotsInv,
              AnswersInv, CircuitInv, AgesInv, Holding, Holds, IsTest
<1> QED BY <1>1, <1>2, GuardTickSteps DEF GuardNext

-----------------------------------------------------------------------------
\* The inductive invariant of the guarded calls: utils/throttle, utils/retry and
\* utils/breaker together, for any number of calls and any limits.
THEOREM GuardInvariantHolds == GuardSpec => []GuardInv
<1>1. GuardInit => GuardInv BY GuardStarts
<1>2. GuardInv /\ [GuardNext]_guardVars => GuardInv' BY GuardSteps
<1> QED BY <1>1, <1>2, PTL DEF GuardSpec

\* The counter of the throttle is the calls that run, its limit is kept and no
\* slot is lost: calls wait in the queue only while every slot is taken.
THEOREM SlotsStayHeld == GuardSpec => []SlotsAreHeld
<1>1. GuardInv => SlotsAreHeld
  <2> SUFFICES ASSUME GuardInv PROVE SlotsAreHeld
    OBVIOUS
  <2>1. DOMAIN waiting = 1 .. Len(waiting) /\ \A i \in 1 .. Len(waiting) : waiting[i] \in Calls
    BY LenProperties, ElementOfSeq DEF GuardInv, GuardTypeOK
  <2>2. ToSet(waiting) = {c \in Calls : call[c].at = "queued"}
    BY <2>1 DEF GuardInv, SlotsInv, ToSet
  <2> QED BY <2>2 DEF GuardInv, SlotsInv, SlotsAreHeld, Holding
<1> QED BY <1>1, GuardInvariantHolds, PTL

\* The callback of a guarded call is called once, whatever times out, is
\* repeated, fails fast or answers after its timeout.
THEOREM CallersAreCalledBackOnce == GuardSpec => []CalledBackOnce
<1>1. GuardInv => CalledBackOnce
  BY DEF GuardInv, AnswersInv, CalledBackOnce
<1> QED BY <1>1, GuardInvariantHolds, PTL

\* A half-open circuit has one test call under way, and perf reports no circuit
\* as open that is closed.
THEOREM CircuitStaysReported == GuardSpec => []CircuitIsReported
<1>1. GuardInv => CircuitIsReported
  <2> SUFFICES ASSUME GuardInv PROVE CircuitIsReported
    OBVIOUS
  <2> DEFINE Tests == {c \in Calls : call[c].at = "calling" /\ call[c].probe}
  <2>1. CASE circuit = "half-open"
    <3>1. PICK c \in Calls : IsTest(c)
      BY <2>1 DEF GuardInv, CircuitInv
    <3>2. Tests = {c}
      BY <3>1 DEF GuardInv, CircuitInv, IsTest
    <3> QED BY <2>1, <3>2, FS_Singleton DEF GuardInv, CircuitInv, CircuitIsReported
  <2>2. CASE circuit # "half-open"
    <3>1. Tests = {}
      BY <2>2 DEF GuardInv, CircuitInv, IsTest
    <3> QED BY <2>2, <3>1, FS_EmptySet DEF GuardInv, CircuitInv, CircuitIsReported
  <2> QED BY <2>1, <2>2
<1> QED BY <1>1, GuardInvariantHolds, PTL

\* The circuit is as old as its last test call at the most, so that the next one
\* is made when more than the reset time has passed since.
THEOREM TestCallsStaySpaced == GuardSpec => TestCallsAreSpaced
<1>1. GuardInv /\ [GuardNext]_guardVars
          => [\A c \in Calls : TestCall(c) => sinceProbe > ResetTicks]_guardVars
  <2> SUFFICES ASSUME GuardInv, NEW c \in Calls, TestCall(c)
               PROVE  sinceProbe > ResetTicks
    OBVIOUS
  <2> QED BY CallGuardAssumption DEF GuardInv, AgesInv, GuardTypeOK, TestCall
<1> QED BY <1>1, GuardInvariantHolds, PTL DEF GuardSpec, TestCallsAreSpaced

-----------------------------------------------------------------------------
(***************************************************************************)
(* The housekeeper.                                                        *)
(***************************************************************************)

\* The regular expression selects no month behind the last one to drop.
LEMMA SelectedAreNotLater ==
    ASSUME NEW m \in Nat, NEW last \in Nat, Selected(last, m)
    PROVE  m <= last
<1>1. \A n \in Nat : n = 12 * (n \div 12) + (n % 12) /\ n \div 12 \in Nat /\ n % 12 \in 0 .. 11
  BY SMT
<1>2. \/ m \div 12 = last \div 12 /\ m % 12 <= last % 12
      \/ m \div 12 < last \div 12
      \/ m \div 12 = last \div 12 /\ last % 12 = 11
  <2>1. m \div 12 \in Nat /\ last \div 12 \in Nat /\ m % 12 \in 0 .. 11 /\ last % 12 \in 0 .. 11
    BY <1>1
  <2> QED BY <2>1 DEF Selected, Year, MonthOfYear, December
<1> QED BY <1>1, <1>2

\* A server drops no month of the retention period.
LEMMA DroppedAreOverdue ==
    ASSUME HousekeeperInv, NEW s \in dropping.left, NEW m \in AllMonths,
           Selected(dropping.last, m)
    PROVE  m < month - Retention
<1>1. dropping.last \in Nat /\ dropping.last <= month - (Retention + 1) /\ month \in Nat
      /\ Retention \in Nat
  BY HousekeeperAssumption DEF HousekeeperInv
<1>2. m \in Nat BY HousekeeperAssumption DEF AllMonths
<1>3. m <= dropping.last BY <1>1, <1>2, SelectedAreNotLater
<1> QED BY <1>1, <1>2, <1>3

\* While servers drop partitions, the last month they drop is old enough.
THEOREM HousekeeperInvariantHolds == HousekeeperSpec => []HousekeeperInv
<1>1. HousekeeperInit => HousekeeperInv
  BY HousekeeperAssumption DEF HousekeeperInit, HousekeeperInv, NotRunning
<1>2. ASSUME HousekeeperInv, [HousekeeperNext]_housekeeperVars PROVE HousekeeperInv'
  <2> USE <1>2, HousekeeperAssumption DEF HousekeeperInv
  <2>1. CASE NextMonth BY <2>1 DEF NextMonth, AllMonths
  <2>2. CASE StartHousekeeper BY <2>2 DEF StartHousekeeper, AllMonths
  <2>3. CASE RunTasks
    <3>1. LastToDrop \in 0 .. month - (Retention + 1) BY DEF LastToDrop
    <3> QED BY <2>3, <3>1 DEF RunTasks, AllMonths
  <2>4. ASSUME NEW s \in HostServers, WritePartition(s) PROVE HousekeeperInv'
    BY <2>4 DEF WritePartition, AllMonths
  <2>5. ASSUME NEW s \in HostServers, DropServerPartitions(s) PROVE HousekeeperInv'
    BY <2>5 DEF DropServerPartitions, AllMonths
  <2>6. ASSUME NEW s \in HostServers, DropFails(s) PROVE HousekeeperInv'
    BY <2>6 DEF DropFails, AllMonths
  <2>7. CASE UNCHANGED housekeeperVars BY <2>7 DEF housekeeperVars, AllMonths
  <2> QED BY <1>2, <2>1, <2>2, <2>3, <2>4, <2>5, <2>6, <2>7 DEF HousekeeperNext
<1> QED BY <1>1, <1>2, PTL DEF HousekeeperSpec

\* No month of the retention period is dropped from a server, at any turn of
\* the year and with servers that fail, for any length of the period.
THEOREM RetainedStayKept == HousekeeperSpec => RetainedAreKept
<1>1. ASSUME HousekeeperInv, [HousekeeperNext]_housekeeperVars,
             NEW s \in HostServers, NEW m \in AllMonths,
             m \in partitions[s], m \notin partitions'[s]
      PROVE  m < month - Retention
  <2>1. PICK t \in HostServers : DropServerPartitions(t) \/ DropFails(t)
    BY <1>1 DEF HousekeeperInv, HousekeeperNext, housekeeperVars, NextMonth, StartHousekeeper,
       RunTasks, WritePartition
  <2>2. t \in dropping.left BY <2>1 DEF DropServerPartitions, DropFails
  <2>3. Selected(dropping.last, m)
    BY <1>1, <2>1 DEF HousekeeperInv, DropServerPartitions, DropFails
  <2> QED BY <1>1, <2>2, <2>3, DroppedAreOverdue
<1>2. HousekeeperInv /\ [HousekeeperNext]_housekeeperVars
         => [\A s \in HostServers, m \in AllMonths :
                m \in partitions[s] /\ m \notin partitions'[s] => m < month - Retention
            ]_housekeeperVars
  BY <1>1
<1> QED BY <1>2, HousekeeperInvariantHolds, PTL DEF RetainedAreKept, HousekeeperSpec

-----------------------------------------------------------------------------
(***************************************************************************)
(* The plans and the caches.                                               *)
(***************************************************************************)

\* What is created, updated or mapped are items.
LEMMA CallsAreItems ==
    /\ \A kind \in {"create", "update", "map"} : CallsOf(kind) \in SUBSET Items
    /\ LookedUp \subseteq Items
    /\ PluginAge \in Nat /\ ConfigAge \in Nat
BY PlanCatalogAssumption DEF CallsOf, Items, PlansOf, MappingsOf

\* A request that is answered goes on, ends or has failed.
LEMMA AnsweredChange ==
    ASSUME NEW c \in Change, ChangeInv(c), NEW item \in c.left,
           NEW result \in {"ok", "conflict", "shared", "error"},
           NEW kept \in [Items -> Nat], \A i \in Items : kept[i] >= catalog[i],
           catalog \in [Items -> Nat],
           result = "ok" \/ (result = "conflict" /\ c.kind = "map") => kept[item] > 0
    PROVE  LET d == ChangeAnswered(c, item, result)
           IN  /\ d.kind = c.kind
               /\ d.left # {} => d \in Change /\ (d.kind = "map" => d.answer = "none")
               /\ d.answer # "failed" /\ ~d.shared =>
                     \A i \in CallsOf(d.kind) : i \in d.left \/ kept[i] > 0
<1> DEFINE d == ChangeAnswered(c, item, result)
<1>9. d = IF c.kind = "map" THEN MappingAnswer(c, item, result)
          ELSE BrokerAnswer(c, item, result)
  BY DEF ChangeAnswered
<1> HIDE DEF d
<1>1. /\ c.kind \in {"create", "update", "map"} /\ c.left \in SUBSET Items
      /\ c.answer \in {"none", "failed"} /\ c.mapped \in BOOLEAN
      /\ c.shared \in BOOLEAN
  BY DEF Change
<1>2. item \in Items /\ CallsOf(c.kind) \in SUBSET Items BY <1>1, CallsAreItems
<1>3. c # NoChange
  <2>1. NoChange.kind = "none" BY DEF NoChange
  <2> QED BY <1>1, <2>1
<1> DEFINE left == c.left \ {item}
           mapped == c.mapped \/ result = "ok"
           shared == c.shared \/ result = "shared"
           mappingAnswer == IF c.left # {item} THEN c.answer
                            ELSE IF mapped THEN "created" ELSE "conflict"
           brokerAnswer == IF c.answer # "none" THEN c.answer
                           ELSE IF result # "ok" THEN "failed"
                           ELSE IF c.left = {item} THEN "created" ELSE c.answer
<1>7. \A i \in Items : catalog[i] > 0 => kept[i] > 0
  <2>1. \A i \in Items : catalog[i] \in Nat /\ kept[i] \in Nat OBVIOUS
  <2> QED BY <2>1
<1>8. /\ c.kind = "map" => c.answer = "none"
      /\ c.answer # "failed" /\ ~c.shared =>
            \A i \in CallsOf(c.kind) : i \in c.left \/ kept[i] > 0
  BY <1>2, <1>3, <1>7 DEF ChangeInv
<1>4. CASE c.kind = "map" /\ result = "error"
  <2>1. d = [c EXCEPT !.left = {}, !.answer = "failed"] BY <1>4, <1>9 DEF MappingAnswer
  <2> QED BY <2>1 DEF Change, d
<1>5. CASE c.kind = "map" /\ result # "error"
  <2>1. d = [c EXCEPT !.mapped = mapped, !.shared = shared, !.left = left,
                      !.answer = mappingAnswer]
    BY <1>5, <1>9 DEF MappingAnswer
  <2>2. left \in SUBSET Items /\ mapped \in BOOLEAN /\ shared \in BOOLEAN BY <1>1
  <2>3. left # {} => mappingAnswer = c.answer OBVIOUS
  <2>4. left # {} => mappingAnswer = "none" BY <1>5, <1>8
  <2>7. ~shared => kept[item] > 0 /\ ~c.shared BY <1>1, <1>5
  <2> HIDE DEF mapped, shared, mappingAnswer
  <2>6. /\ d.kind = c.kind /\ d.left = left /\ d.answer = mappingAnswer /\ d.shared = shared
        /\ left # {} => d \in Change
    BY <1>1, <2>1, <2>2, <2>3 DEF Change
  <2> QED BY <1>5, <1>8, <2>4, <2>6, <2>7 DEF d
<1>6. CASE c.kind # "map"
  <2>1. d = [c EXCEPT !.left = left, !.answer = brokerAnswer]
    BY <1>6, <1>9 DEF BrokerAnswer
  <2>2. left \in SUBSET Items BY <1>1
  <2>3. left # {} => brokerAnswer \in {"none", "failed"} BY <1>1
  <2>4. brokerAnswer # "failed" => result = "ok" /\ c.answer # "failed" BY <1>1
  <2>5. result = "ok" => kept[item] > 0 OBVIOUS
  <2> HIDE DEF brokerAnswer
  <2>6. /\ d.kind = c.kind /\ d.left = left /\ d.answer = brokerAnswer
        /\ d.shared = c.shared
        /\ left # {} => d \in Change
    BY <1>1, <2>1, <2>2, <2>3 DEF Change
  <2> QED BY <1>6, <1>8, <2>4, <2>5, <2>6 DEF d
<1> QED BY <1>4, <1>5, <1>6 DEF d

\* Documents are stored and replaced, and never taken away.
LEMMA CatalogGrows ==
    ASSUME CatalogTypeOK, NEW item \in Items
    PROVE  /\ Stored(item) \in [Items -> Nat]
           /\ Replaced(item) \in [Items -> Nat]
           /\ \A i \in Items : /\ catalog[i] >= catalog[i]
                               /\ Stored(item)[i] >= catalog[i]
                               /\ Replaced(item)[i] >= catalog[i]
           /\ Stored(item)[item] > 0 /\ Replaced(item)[item] > 0
<1>1. catalog \in [Items -> Nat] /\ catalog[item] \in Nat BY DEF CatalogTypeOK
<1> DEFINE first == IF catalog[item] = 0 THEN 1 ELSE catalog[item]
           next == catalog[item] + 1
<1>2. Stored(item) = [catalog EXCEPT ![item] = first] BY DEF Stored
<1>3. Replaced(item) = [catalog EXCEPT ![item] = next] BY DEF Replaced
<1>4. /\ first \in Nat /\ first > 0 /\ first >= catalog[item]
      /\ next \in Nat /\ next > 0 /\ next >= catalog[item]
  BY <1>1
<1>5. \A i \in Items : catalog[i] >= catalog[i] BY <1>1
<1> HIDE DEF first, next
<1> QED BY <1>1, <1>2, <1>3, <1>4, <1>5

\* The answer to one request of a change keeps the invariant.
LEMMA AnswerKeeps ==
    ASSUME CatalogInv, NEW e \in Editors, change[e] # NoChange, NEW item \in change[e].left,
           NEW result \in {"ok", "conflict", "shared", "error"}, Answer(e, item, result),
           catalog' \in [Items -> Nat], \A i \in Items : catalog'[i] >= catalog[i],
           result = "ok" \/ (result = "conflict" /\ change[e].kind = "map") => catalog'[item] > 0
    PROVE  CatalogInv'
<1> DEFINE c == change[e]
           d == ChangeAnswered(c, item, result)
           new == IF d.left = {} THEN NoChange ELSE d
           watches == watched \in CallsOf(d.kind)
           all == d.answer \in {"created", "conflict"} /\ ~d.shared
<1>1. /\ catalog \in [Items -> Nat] /\ watched \in Items /\ confirmed \in BOOLEAN
      /\ change \in [Editors -> Change \cup {NoChange}]
  BY DEF CatalogInv, CatalogTypeOK
<1>2. c \in Change /\ ChangeInv(c) BY <1>1 DEF CatalogInv
<1>3. change' = [change EXCEPT ![e] = new]
      /\ confirmed' = (confirmed \/ (all /\ watches))
      /\ UNCHANGED <<watched, pluginCache, configCache, lookup>>
  BY DEF Answer
<1>4. /\ d.kind = c.kind
      /\ d.left # {} => d \in Change /\ (d.kind = "map" => d.answer = "none")
      /\ d.answer # "failed" /\ ~d.shared =>
            \A i \in CallsOf(d.kind) : i \in d.left \/ catalog'[i] > 0
  <2>1. ASSUME NEW kept \in [Items -> Nat], kept = catalog'
        PROVE  /\ d.kind = c.kind
               /\ d.left # {} => d \in Change /\ (d.kind = "map" => d.answer = "none")
               /\ d.answer # "failed" /\ ~d.shared =>
                     \A i \in CallsOf(d.kind) : i \in d.left \/ kept[i] > 0
    <3>1. /\ \A i \in Items : kept[i] >= catalog[i]
          /\ result = "ok" \/ (result = "conflict" /\ c.kind = "map") => kept[item] > 0
      BY <2>1
    <3> HIDE DEF c
    <3> QED BY <1>1, <1>2, <3>1, AnsweredChange DEF c
  <2> QED BY <2>1
<1> HIDE DEF d
<1>5. \A i \in Items : catalog[i] > 0 => catalog'[i] > 0
  <2>1. \A i \in Items : catalog[i] \in Nat /\ catalog'[i] \in Nat BY <1>1
  <2> QED BY <2>1
<1>6. new \in Change \cup {NoChange} BY <1>4
<1>7. CatalogTypeOK'
  BY <1>1, <1>3, <1>6 DEF CatalogInv, CatalogTypeOK, Items, PlansOf, MappingsOf, Entry, Lookup, Change
<1>8. confirmed' => catalog'[watched'] > 0
  <2>1. CASE confirmed BY <1>1, <1>3, <1>5, <2>1 DEF CatalogInv
  <2>2. CASE all /\ watches
    <3>1. d.left = {} BY <1>4, <2>2 DEF Change
    <3> QED BY <1>3, <1>4, <2>2, <3>1
  <2> QED BY <1>3, <2>1, <2>2
<1>9. ASSUME NEW f \in Editors, NEW u, u = change'[f]
      PROVE  ChangeInv(u)'
  <2>1. CASE f # e
    <3>1. u = change[f] /\ ChangeInv(u) BY <1>1, <1>3, <1>9, <2>1 DEF CatalogInv
    <3>2. u # NoChange => CallsOf(u.kind) \in SUBSET Items
      <4>1. u \in Change \cup {NoChange} BY <1>1, <3>1
      <4> QED BY <4>1, CallsAreItems DEF Change
    <3> QED BY <1>5, <3>1, <3>2 DEF ChangeInv
  <2>2. CASE f = e
    <3>1. u = new BY <1>1, <1>3, <1>9, <2>2
    <3> QED BY <1>4, <3>1 DEF ChangeInv
  <2> QED BY <2>1, <2>2
<1>10. /\ EntryInv(pluginCache, PluginAge, 1)'
       /\ \A r \in Readers : /\ EntryInv(configCache[r], ConfigAge, PluginAge + 2)'
                             /\ lookup'[r] # NoLookup => LookupInv(lookup[r])'
  BY <1>3 DEF CatalogInv, EntryInv, LookupInv
<1> QED BY <1>7, <1>8, <1>9, <1>10 DEF CatalogInv

\* A new change, its requests and its answer keep the invariant.
LEMMA ChangesKeep ==
    ASSUME CatalogInv, NEW e \in Editors,
           \/ \E kind \in {"create", "update", "map"} : AskFor(e, kind)
           \/ \E item \in Items : Create(e, item) \/ Update(e, item)
    PROVE  CatalogInv'
<1>1. CatalogTypeOK BY DEF CatalogInv
<1>2. ASSUME NEW kind \in {"create", "update", "map"}, AskFor(e, kind)
      PROVE  CatalogInv'
  <2> DEFINE c == [kind |-> kind, left |-> CallsOf(kind), mapped |-> FALSE,
                   shared |-> FALSE, answer |-> "none"]
  <2>1. c \in Change BY CallsAreItems DEF Change
  <2>2. c.kind = kind /\ c.left = CallsOf(kind) /\ c.answer = "none" OBVIOUS
  <2>3. change' = [change EXCEPT ![e] = c]
        /\ UNCHANGED <<catalog, watched, pluginCache, configCache, lookup, confirmed>>
    BY <1>2 DEF AskFor
  <2> HIDE DEF c
  <2>4. CatalogTypeOK'
    BY <1>1, <2>1, <2>3 DEF CatalogTypeOK, Items, PlansOf, MappingsOf, Entry, Lookup, Change
  <2>5. ASSUME NEW f \in Editors, NEW u, u = change'[f]
        PROVE  ChangeInv(u)'
    BY <1>1, <2>2, <2>3, <2>5 DEF CatalogInv, CatalogTypeOK, ChangeInv
  <2> QED BY <2>3, <2>4, <2>5 DEF CatalogInv, EntryInv, LookupInv
<1>3. ASSUME NEW item \in Items, IsSent(e, item), NEW kept, catalog' = kept,
             kept \in {catalog, Stored(item), Replaced(item)},
             NEW result \in {"ok", "conflict", "shared", "error"}, Answer(e, item, result),
             result = "ok" => kept \in {Stored(item), Replaced(item)},
             result = "conflict" => catalog[item] # 0 \/ kept = Stored(item)
      PROVE  CatalogInv'
  <2>1. change[e] # NoChange /\ item \in change[e].left BY <1>3 DEF IsSent
  <2>2. catalog[item] \in Nat BY <1>1 DEF CatalogTypeOK
  <2>3. catalog \in [Items -> Nat] BY <1>1 DEF CatalogTypeOK
  <2>4. /\ catalog' \in [Items -> Nat] /\ \A i \in Items : catalog'[i] >= catalog[i]
    BY <1>1, <1>3, <2>3, CatalogGrows
  <2>5. result = "ok" => catalog'[item] > 0 BY <1>1, <1>3, CatalogGrows
  <2>6. result = "conflict" => catalog'[item] > 0
    <3>1. catalog'[item] \in Nat /\ catalog'[item] >= catalog[item] BY <2>4
    <3>2. Stored(item)[item] > 0 BY <1>1, CatalogGrows
    <3> QED BY <1>3, <2>2, <3>1, <3>2
  <2> QED BY <1>3, <2>1, <2>4, <2>5, <2>6, AnswerKeeps
<1>4. ASSUME NEW item \in Items, Create(e, item) PROVE CatalogInv'
  <2>1. IsSent(e, item) BY <1>4 DEF Create
  <2>2. CASE catalog[item] = 0 /\ catalog' = Stored(item) /\ Answer(e, item, "ok")
    BY <1>3, <2>1, <2>2
  <2>3. CASE catalog[item] # 0 /\ catalog' = catalog /\ Answer(e, item, "conflict")
    BY <1>3, <2>1, <2>3
  <2>4. CASE catalog' = Stored(item) /\ Answer(e, item, "conflict")
    BY <1>3, <2>1, <2>4
  <2>5. CASE catalog' \in {catalog, Stored(item)} /\ Answer(e, item, "shared")
    BY <1>3, <2>1, <2>5
  <2>6. CASE catalog' \in {catalog, Stored(item)} /\ Answer(e, item, "error")
    BY <1>3, <2>1, <2>6
  <2> QED BY <1>4, <2>2, <2>3, <2>4, <2>5, <2>6 DEF Create
<1>5. ASSUME NEW item \in Items, Update(e, item) PROVE CatalogInv'
  <2>1. IsSent(e, item) BY <1>5 DEF Update
  <2>2. CASE catalog' = Replaced(item) /\ Answer(e, item, "ok")
    BY <1>3, <2>1, <2>2
  <2>3. CASE catalog' \in {catalog, Replaced(item)} /\ Answer(e, item, "error")
    BY <1>3, <2>1, <2>3
  <2> QED BY <1>5, <2>2, <2>3 DEF Update
<1> QED BY <1>2, <1>4, <1>5

\* The lookup of a reader and the caches change, the plans do not.
LEMMA LookupMoves ==
    ASSUME CatalogInv, NEW r \in Readers, NEW l \in Lookup \cup {NoLookup},
           l # NoLookup => LookupInv(l),
           lookup' = [lookup EXCEPT ![r] = l],
           UNCHANGED <<catalog, watched, change, confirmed>>,
           pluginCache' \in Entry, EntryInv(pluginCache', PluginAge, 1),
           NEW entry \in Entry, EntryInv(entry, ConfigAge, PluginAge + 2),
           configCache' = configCache \/ configCache' = [configCache EXCEPT ![r] = entry]
    PROVE  CatalogInv'
<1>1. CatalogTypeOK'
  BY DEF CatalogInv, CatalogTypeOK, Items, PlansOf, MappingsOf, Entry, Lookup, Change
<1>2. \A u : ChangeInv(u)' <=> ChangeInv(u) BY DEF ChangeInv
<1>3. \A u : LookupInv(u)' <=> LookupInv(u) BY DEF LookupInv
<1>4. \A u, n, m : EntryInv(u, n, m)' <=> EntryInv(u, n, m) BY DEF EntryInv
<1>5. ASSUME NEW q \in Readers
      PROVE  /\ lookup'[q] # NoLookup => LookupInv(lookup'[q])
             /\ EntryInv(configCache'[q], ConfigAge, PluginAge + 2)
  BY DEF CatalogInv, CatalogTypeOK
<1>6. \A e \in Editors : ChangeInv(change'[e]) BY DEF CatalogInv
<1> QED BY <1>1, <1>2, <1>3, <1>4, <1>5, <1>6 DEF CatalogInv

\* A lookup as it is.
LEMMA LookupIs ==
    ASSUME CatalogInv, NEW r \in Readers, lookup[r].at # "idle"
    PROVE  /\ lookup[r] \in Lookup /\ LookupInv(lookup[r])
           /\ lookup[r].entry \in Entry
           /\ lookup[r].expected \in BOOLEAN /\ lookup[r].cached \in BOOLEAN
BY DEF CatalogInv, CatalogTypeOK, Lookup, NoLookup

\* The ages of the caches, as numbers.
LEMMA CacheAges ==
    ASSUME CatalogInv
    PROVE  /\ pluginCache \in Entry /\ EntryInv(pluginCache, PluginAge, 1)
           /\ \A r \in Readers : /\ configCache[r] \in Entry
                                 /\ EntryInv(configCache[r], ConfigAge, PluginAge + 2)
           /\ PluginAge \in Nat /\ ConfigAge \in Nat
BY PlanCatalogAssumption DEF CatalogInv, CatalogTypeOK

\* No entry is an entry.
LEMMA NoEntryIs ==
    /\ NoEntry \in Entry /\ NoEntry.version = 0 /\ NoEntry.age = 0 /\ NoEntry.behind = 0
    /\ \A maxAge, behind : EntryInv(NoEntry, maxAge, behind)
BY DEF NoEntry, Entry, EntryInv

\* What is found is cached at age 0.
LEMMA CachedIs ==
    ASSUME NEW entry \in Entry, NEW maxAge \in Nat, NEW behind \in Nat, entry.behind <= behind
    PROVE  Cached(entry) \in Entry /\ EntryInv(Cached(entry), maxAge, behind)
<1>1. CASE entry.version = 0 BY <1>1, NoEntryIs DEF Cached
<1>2. CASE entry.version # 0
  <2>1. Cached(entry) = [entry EXCEPT !.age = 0] BY <1>2 DEF Cached
  <2>2. /\ Cached(entry) \in Entry /\ Cached(entry).age = 0
        /\ Cached(entry).version = entry.version /\ Cached(entry).behind = entry.behind
    BY <2>1 DEF Entry
  <2>3. entry.version \in Nat /\ entry.behind \in Nat BY DEF Entry
  <2> QED BY <1>2, <2>2, <2>3 DEF EntryInv
<1> QED BY <1>1, <1>2

\* A lookup that begins keeps the invariant, whatever the reader's cache holds.
LEMMA NewLookupKeeps ==
    ASSUME CatalogInv, NEW r \in Readers, LookUp(r) \/ Validate(r)
    PROVE  CatalogInv'
<1>1. ASSUME NEW at \in {"asked", "answered"}, NEW entry \in Entry, NEW cached \in BOOLEAN,
             entry.age = 0, at = "asked" => entry.version = 0 /\ entry.behind = 0,
             at = "answered" => entry.version > 0 /\ entry.behind <= MaxOutdated,
             NewLookup(r, at, entry, cached)
      PROVE  CatalogInv'
  <2> DEFINE l == [at |-> at, entry |-> entry, cached |-> cached, expected |-> confirmed]
  <2>1. confirmed \in BOOLEAN BY DEF CatalogInv, CatalogTypeOK
  <2>2. l \in Lookup BY <2>1 DEF Lookup
  <2>3. /\ l.at = at /\ l.entry = entry /\ l.expected = confirmed OBVIOUS
  <2>4. /\ lookup' = [lookup EXCEPT ![r] = l]
        /\ UNCHANGED <<catalog, watched, pluginCache, configCache, change, confirmed>>
    BY <1>1 DEF NewLookup
  <2> HIDE DEF l
  <2>5. LookupInv(l) BY <1>1, <2>3 DEF LookupInv
  <2> QED BY <2>2, <2>4, <2>5, CacheAges, LookupMoves
<1>2. CASE Validate(r) BY <1>1, <1>2, NoEntryIs DEF Validate
<1>3. CASE LookUp(r) /\ configCache[r] = NoEntry
  <2>1. [NoEntry EXCEPT !.age = 0] = NoEntry BY DEF NoEntry
  <2> QED BY <1>1, <1>3, <2>1, NoEntryIs DEF LookUp
<1>4. CASE LookUp(r) /\ configCache[r] # NoEntry
  <2> DEFINE entry == [configCache[r] EXCEPT !.age = 0]
  <2>1. /\ configCache[r] \in Entry /\ configCache[r].version > 0
        /\ configCache[r].age <= ConfigAge
        /\ configCache[r].behind <= configCache[r].age + PluginAge + 2
        /\ configCache[r].age \in Nat /\ configCache[r].behind \in Nat
        /\ PluginAge \in Nat /\ ConfigAge \in Nat
    BY <1>4, CacheAges DEF EntryInv, Entry
  <2>2. /\ entry \in Entry /\ entry.age = 0 /\ entry.version = configCache[r].version
        /\ entry.behind = configCache[r].behind
    BY <2>1 DEF Entry
  <2>3. entry.behind <= MaxOutdated BY <2>1, <2>2 DEF MaxOutdated
  <2>4. NewLookup(r, "answered", entry, TRUE) BY <1>4 DEF LookUp
  <2> HIDE DEF entry
  <2> QED BY <1>1, <2>1, <2>2, <2>3, <2>4
<1> QED BY <1>2, <1>3, <1>4

\* A lookup goes on with an entry that is as old as it.
LEMMA FindsKeep ==
    ASSUME CatalogInv, NEW r \in Readers, FindInCache(r) \/ FindInDB(r)
    PROVE  CatalogInv'
<1> DEFINE l == lookup[r]
<1>1. l.at = "asked" BY DEF FindInCache, FindInDB
<1>2. /\ l \in Lookup /\ LookupInv(l) /\ l.entry \in Entry /\ l.expected \in BOOLEAN
  BY <1>1, LookupIs
<1>3. /\ l.entry.age \in Nat /\ l.entry.age <= 1 /\ l.entry.behind = 0
      /\ l.expected => confirmed
  BY <1>1, <1>2 DEF LookupInv, Entry
<1>4. ASSUME NEW at \in {"reading", "replied"}, NEW entry \in Entry,
             entry.age = l.entry.age, confirmed => entry.version > 0,
             at = "reading" => entry.behind <= entry.age,
             at = "replied" => entry.behind <= entry.age + PluginAge + 1,
             lookup' = [lookup EXCEPT ![r] = [l EXCEPT !.at = at, !.entry = entry]],
             UNCHANGED <<catalog, watched, pluginCache, configCache, change, confirmed>>
      PROVE  CatalogInv'
  <2> DEFINE m == [l EXCEPT !.at = at, !.entry = entry]
  <2> HIDE DEF l
  <2>1. m \in Lookup /\ m.at = at /\ m.entry = entry /\ m.expected = l.expected
    BY <1>2, <1>4 DEF Lookup
  <2> HIDE DEF m
  <2>2. LookupInv(m) BY <1>3, <1>4, <2>1 DEF LookupInv
  <2>3. lookup' = [lookup EXCEPT ![r] = m] BY <1>4 DEF m
  <2> QED BY <1>4, <2>1, <2>2, <2>3, CacheAges, LookupMoves
<1>5. CASE FindInCache(r)
  <2> DEFINE entry == [pluginCache EXCEPT !.age = l.entry.age]
  <2>1. /\ pluginCache \in Entry /\ pluginCache.version > 0
        /\ pluginCache.age <= PluginAge /\ pluginCache.behind <= pluginCache.age + 1
        /\ pluginCache.age \in Nat /\ pluginCache.behind \in Nat /\ PluginAge \in Nat
    BY <1>5, CacheAges DEF FindInCache, EntryInv, Entry
  <2>2. /\ entry \in Entry /\ entry.age = l.entry.age /\ entry.version = pluginCache.version
        /\ entry.behind = pluginCache.behind
    BY <1>3, <2>1 DEF Entry
  <2>3. entry.behind <= entry.age + PluginAge + 1 BY <1>3, <2>1, <2>2
  <2>4. /\ lookup' = [lookup EXCEPT ![r] = [l EXCEPT !.at = "replied", !.entry = entry]]
        /\ UNCHANGED <<catalog, watched, pluginCache, configCache, change, confirmed>>
    BY <1>5 DEF FindInCache
  <2> HIDE DEF entry, l
  <2> QED BY <1>4, <2>1, <2>2, <2>3, <2>4
<1>6. CASE FindInDB(r)
  <2> DEFINE entry == [l.entry EXCEPT !.version = catalog[watched]]
  <2>1. catalog[watched] \in Nat /\ (confirmed => catalog[watched] > 0)
    BY DEF CatalogInv, CatalogTypeOK
  <2>2. /\ entry \in Entry /\ entry.age = l.entry.age /\ entry.version = catalog[watched]
        /\ entry.behind = 0
    BY <1>2, <1>3, <2>1 DEF Entry
  <2>3. entry.behind <= entry.age BY <1>3, <2>2
  <2>4. /\ lookup' = [lookup EXCEPT ![r] = [l EXCEPT !.at = "reading", !.entry = entry]]
        /\ UNCHANGED <<catalog, watched, pluginCache, configCache, change, confirmed>>
    BY <1>6 DEF FindInDB
  <2> HIDE DEF entry, l
  <2> QED BY <1>4, <2>1, <2>2, <2>3, <2>4
<1> QED BY <1>5, <1>6

\* What a lookup found is cached, by the plugin and by the reader.
LEMMA CachingKeeps ==
    ASSUME CatalogInv, NEW r \in Readers, CachedByPlugin(r) \/ CachedByReader(r)
    PROVE  CatalogInv'
<1> DEFINE l == lookup[r]
<1>1. l.at \in {"reading", "replied"} BY DEF CachedByPlugin, CachedByReader
<1>2. /\ l \in Lookup /\ LookupInv(l) /\ l.entry \in Entry /\ l.expected \in BOOLEAN
  BY <1>1, LookupIs
<1>3. /\ l.entry.age \in Nat /\ l.entry.behind \in Nat /\ l.entry.age <= 1
      /\ PluginAge \in Nat /\ ConfigAge \in Nat
      /\ l.expected => confirmed /\ l.entry.version > 0
  BY <1>1, <1>2, CacheAges DEF LookupInv, Entry
<1>4. ASSUME NEW at \in {"replied", "answered"}, NEW m, m = [l EXCEPT !.at = at]
      PROVE  m \in Lookup /\ m.at = at /\ m.entry = l.entry /\ m.expected = l.expected
  BY <1>2, <1>4 DEF Lookup
<1>5. CASE CachedByPlugin(r)
  <2> DEFINE m == [l EXCEPT !.at = "replied"]
  <2>1. l.at = "reading" BY <1>5 DEF CachedByPlugin
  <2>2. l.entry.behind <= l.entry.age BY <1>2, <2>1 DEF LookupInv
  <2>3. l.entry.behind <= 1 BY <1>3, <2>2
  <2>4. l.entry.behind <= l.entry.age + PluginAge + 1 BY <1>3, <2>2
  <2>5. Cached(l.entry) \in Entry /\ EntryInv(Cached(l.entry), PluginAge, 1)
    BY <1>2, <1>3, <2>3, CachedIs
  <2>6. m \in Lookup /\ m.at = "replied" /\ m.entry = l.entry /\ m.expected = l.expected
    BY <1>4
  <2>7. /\ lookup' = [lookup EXCEPT ![r] = m]
        /\ UNCHANGED <<catalog, watched, configCache, change, confirmed>>
        /\ pluginCache' \in {Cached(l.entry), pluginCache}
    BY <1>5 DEF CachedByPlugin
  <2> HIDE DEF m
  <2>8. LookupInv(m) BY <1>3, <2>4, <2>6 DEF LookupInv
  <2>9. pluginCache' \in Entry /\ EntryInv(pluginCache', PluginAge, 1)
    BY <2>5, <2>7, CacheAges
  <2> QED BY <2>6, <2>7, <2>8, <2>9, CacheAges, LookupMoves
<1>6. CASE CachedByReader(r)
  <2> DEFINE m == [l EXCEPT !.at = "answered"]
             entry == Cached(l.entry)
  <2>1. l.at = "replied" BY <1>6 DEF CachedByReader
  <2>2. l.entry.behind <= l.entry.age + PluginAge + 1 BY <1>2, <2>1 DEF LookupInv
  <2>3. PluginAge + 2 \in Nat /\ l.entry.behind <= PluginAge + 2 BY <1>3, <2>2
  <2>4. l.entry.behind <= MaxOutdated BY <1>3, <2>3 DEF MaxOutdated
  <2>5. entry \in Entry /\ EntryInv(entry, ConfigAge, PluginAge + 2)
    BY <1>2, <1>3, <2>3, CachedIs
  <2>6. m \in Lookup /\ m.at = "answered" /\ m.entry = l.entry /\ m.expected = l.expected
    BY <1>4
  <2>7. /\ lookup' = [lookup EXCEPT ![r] = m]
        /\ UNCHANGED <<catalog, watched, pluginCache, change, confirmed>>
        /\ configCache' = configCache \/ configCache' = [configCache EXCEPT ![r] = entry]
    BY <1>6 DEF CachedByReader
  <2> HIDE DEF m, entry
  <2>8. LookupInv(m) BY <1>3, <2>4, <2>6 DEF LookupInv
  <2> QED BY <2>5, <2>6, <2>7, <2>8, CacheAges, LookupMoves
<1> QED BY <1>5, <1>6

\* The answer to a lookup, and its failure, keep the invariant.
LEMMA LookupEnds ==
    ASSUME CatalogInv, NEW r \in Readers, LookupFails(r) \/ UseAnswer(r)
    PROVE  CatalogInv'
<1>1. /\ lookup' = [lookup EXCEPT ![r] = NoLookup]
      /\ UNCHANGED <<catalog, watched, pluginCache, configCache, change, confirmed>>
  BY DEF LookupFails, UseAnswer
<1> QED BY <1>1, CacheAges, LookupMoves

-----------------------------------------------------------------------------
\* An entry a tick later, and what is replaced is one tick more behind.
LEMMA BehindIs ==
    ASSUME NEW entry \in Entry
    PROVE  /\ Behind(entry) \in Entry
           /\ Behind(entry).version = entry.version /\ Behind(entry).age = entry.age
           /\ Behind(entry).behind \in {entry.behind, entry.behind + 1}
           /\ entry.version = 0 => Behind(entry).behind = entry.behind
<1>1. entry.version \in Nat /\ entry.behind \in Nat /\ entry.age \in Nat BY DEF Entry
<1> DEFINE more == entry.behind + 1
<1>2. more \in Nat BY <1>1
<1>3. Behind(entry) = entry \/ (entry.version # 0 /\ Behind(entry) = [entry EXCEPT !.behind = more])
  BY DEF Behind
<1> HIDE DEF more
<1>4. CASE Behind(entry) = entry BY <1>4
<1>5. CASE entry.version # 0 /\ Behind(entry) = [entry EXCEPT !.behind = more]
  <2>1. /\ Behind(entry) \in Entry /\ Behind(entry).version = entry.version
        /\ Behind(entry).age = entry.age /\ Behind(entry).behind = more
    BY <1>2, <1>5 DEF Entry
  <2> QED BY <1>5, <2>1 DEF more
<1> QED BY <1>3, <1>4, <1>5

\* A cached entry a tick later.
LEMMA OlderIs ==
    ASSUME NEW entry \in Entry, NEW maxAge \in Nat, NEW behind \in Nat,
           EntryInv(entry, maxAge, behind)
    PROVE  /\ OlderEntry(entry, maxAge) \in Entry
           /\ EntryInv(OlderEntry(entry, maxAge), maxAge, behind)
<1>1. CASE entry = NoEntry \/ entry.age = maxAge BY <1>1, NoEntryIs DEF OlderEntry
<1>2. CASE ~(entry = NoEntry \/ entry.age = maxAge)
  <2> DEFINE older == entry.age + 1
  <2>1. /\ entry.version > 0 /\ entry.age <= maxAge /\ entry.behind <= entry.age + behind
        /\ entry.version \in Nat /\ entry.age \in Nat /\ entry.behind \in Nat
    BY <1>2 DEF EntryInv, Entry
  <2>2. older \in Nat /\ older <= maxAge BY <1>2, <2>1
  <2>3. /\ Behind(entry) \in Entry /\ Behind(entry).version = entry.version
        /\ Behind(entry).behind \in Nat /\ Behind(entry).behind <= entry.behind + 1
    BY <2>1, BehindIs DEF Entry
  <2>4. OlderEntry(entry, maxAge) = [Behind(entry) EXCEPT !.age = older]
    BY <1>2 DEF OlderEntry
  <2>5. Behind(entry).behind <= older + behind BY <2>1, <2>3
  <2> HIDE DEF older
  <2>6. /\ OlderEntry(entry, maxAge) \in Entry /\ OlderEntry(entry, maxAge).age = older
        /\ OlderEntry(entry, maxAge).version = entry.version
        /\ OlderEntry(entry, maxAge).behind = Behind(entry).behind
    BY <2>2, <2>3, <2>4 DEF Entry
  <2> QED BY <2>1, <2>2, <2>5, <2>6 DEF EntryInv
<1> QED BY <1>1, <1>2

\* Time passes: what is cached is no older than its cache allows.
LEMMA TickKeeps ==
    ASSUME CatalogInv, CatalogTick
    PROVE  CatalogInv'
<1> DEFINE later(r) == [lookup[r] EXCEPT !.entry = [Behind(lookup[r].entry) EXCEPT !.age = 1]]
<1>1. /\ \A r \in Readers : lookup[r] # NoLookup => IsUnderWay(r) /\ lookup[r].entry.age = 0
      /\ lookup' = [r \in Readers |-> IF lookup[r] = NoLookup THEN NoLookup ELSE later(r)]
      /\ pluginCache' = OlderEntry(pluginCache, PluginAge)
      /\ configCache' = [r \in Readers |-> OlderEntry(configCache[r], ConfigAge)]
      /\ UNCHANGED <<catalog, watched, change, confirmed>>
  BY DEF CatalogTick
<1>2. PluginAge \in Nat /\ ConfigAge \in Nat /\ PluginAge + 2 \in Nat BY CacheAges
<1>3. pluginCache' \in Entry /\ EntryInv(pluginCache', PluginAge, 1)
  BY <1>1, <1>2, CacheAges, OlderIs
<1>4. \A r \in Readers : /\ configCache'[r] \in Entry
                         /\ EntryInv(configCache'[r], ConfigAge, PluginAge + 2)
  <2>1. ASSUME NEW r \in Readers
        PROVE  LET entry == OlderEntry(configCache[r], ConfigAge)
               IN  entry \in Entry /\ EntryInv(entry, ConfigAge, PluginAge + 2)
    BY <1>2, CacheAges, OlderIs
  <2> QED BY <1>1, <2>1
<1>5. ASSUME NEW r \in Readers, lookup[r] # NoLookup, NEW m, m = later(r)
      PROVE  m \in Lookup /\ LookupInv(m)
  <2> DEFINE l == lookup[r]
             entry == [Behind(l.entry) EXCEPT !.age = 1]
  <2>1. l.at \in {"asked", "reading", "replied"} /\ l.entry.age = 0
    BY <1>1, <1>5 DEF IsUnderWay
  <2>2. /\ l \in Lookup /\ LookupInv(l) /\ l.entry \in Entry /\ l.expected \in BOOLEAN
    BY <2>1, LookupIs
  <2>3. /\ Behind(l.entry) \in Entry /\ Behind(l.entry).version = l.entry.version
        /\ Behind(l.entry).behind \in {l.entry.behind, l.entry.behind + 1}
        /\ l.entry.version = 0 => Behind(l.entry).behind = l.entry.behind
    BY <2>2, BehindIs
  <2>4. /\ entry \in Entry /\ entry.age = 1 /\ entry.version = l.entry.version
        /\ entry.behind = Behind(l.entry).behind
    BY <2>3 DEF Entry
  <2>5. m = [l EXCEPT !.entry = entry] BY <1>5
  <2>6. l.entry.behind \in Nat /\ l.entry.version \in Nat BY <2>2 DEF Entry
  <2> HIDE DEF l, entry
  <2>7. m \in Lookup /\ m.at = l.at /\ m.entry = entry /\ m.expected = l.expected
    BY <2>2, <2>4, <2>5 DEF Lookup
  <2>8. /\ l.at = "asked" => l.entry.version = 0 /\ l.entry.behind = 0
        /\ l.at = "reading" => l.entry.behind <= 0
        /\ l.at = "replied" => l.entry.behind <= PluginAge + 1
        /\ l.expected => confirmed
        /\ l.expected /\ l.at # "asked" => l.entry.version > 0
    BY <1>2, <2>1, <2>2, <2>6 DEF LookupInv
  <2>9. /\ l.at = "asked" => entry.version = 0 /\ entry.behind = 0
        /\ l.at = "reading" => entry.behind <= 1
        /\ l.at = "replied" => entry.behind <= 1 + PluginAge + 1
        /\ l.expected /\ l.at # "asked" => entry.version > 0
    BY <1>2, <2>3, <2>4, <2>6, <2>8
  <2> QED BY <2>1, <2>4, <2>7, <2>8, <2>9 DEF LookupInv
<1>6. ASSUME NEW r \in Readers
      PROVE  /\ lookup'[r] \in Lookup \cup {NoLookup}
             /\ lookup'[r] # NoLookup => LookupInv(lookup'[r])
  <2>1. CASE lookup[r] = NoLookup BY <1>1, <2>1
  <2>2. CASE lookup[r] # NoLookup
    <3>1. lookup'[r] = later(r) BY <1>1, <2>2
    <3> HIDE DEF later
    <3> QED BY <1>5, <2>2, <3>1
  <2> QED BY <2>1, <2>2
<1>7. lookup' \in [Readers -> Lookup \cup {NoLookup}]
  <2>1. lookup' = [r \in Readers |-> lookup'[r]] BY <1>1
  <2> QED BY <1>6, <2>1
<1>8. configCache' \in [Readers -> Entry]
  <2>1. configCache' = [r \in Readers |-> configCache'[r]] BY <1>1
  <2> QED BY <1>4, <2>1
<1> HIDE DEF later
<1>9. CatalogTypeOK'
  BY <1>1, <1>3, <1>7, <1>8
  DEF CatalogInv, CatalogTypeOK, Items, PlansOf, MappingsOf, Entry, Lookup, Change
<1>10. \A u : ChangeInv(u)' <=> ChangeInv(u) BY <1>1 DEF ChangeInv
<1>11. \A u : LookupInv(u)' <=> LookupInv(u) BY <1>1 DEF LookupInv
<1>12. \A u, n, m : EntryInv(u, n, m)' <=> EntryInv(u, n, m) BY DEF EntryInv
<1>13. (\A e \in Editors : ChangeInv(change'[e])) /\ (confirmed' => catalog'[watched'] > 0)
  BY <1>1 DEF CatalogInv
<1> QED BY <1>3, <1>4, <1>6, <1>9, <1>10, <1>11, <1>12, <1>13 DEF CatalogInv

\* The invariant holds in every reachable state.
THEOREM CatalogInvariantHolds == CatalogSpec => []CatalogInv
<1>1. ASSUME CatalogInit PROVE CatalogInv
  <2>1. \A e \in Editors : change[e] = NoChange BY <1>1 DEF CatalogInit
  <2>2. \A r \in Readers : lookup[r] = NoLookup /\ configCache[r] = NoEntry
    BY <1>1 DEF CatalogInit
  <2>3. CatalogTypeOK BY <1>1, CallsAreItems, NoEntryIs DEF CatalogInit, CatalogTypeOK
  <2>4. pluginCache = NoEntry /\ confirmed = FALSE BY <1>1 DEF CatalogInit
  <2>5. \A e \in Editors : ChangeInv(change[e]) BY <2>1 DEF ChangeInv
  <2> QED BY <2>2, <2>3, <2>4, <2>5, NoEntryIs DEF CatalogInv
<1>2. ASSUME CatalogInv, [CatalogNext]_catalogVars PROVE CatalogInv'
  <2>1. ASSUME NEW e \in Editors,
               \/ \E kind \in {"create", "update", "map"} : AskFor(e, kind)
               \/ \E item \in Items : Create(e, item) \/ Update(e, item)
        PROVE  CatalogInv'
    BY <1>2, <2>1, ChangesKeep
  <2>2. ASSUME NEW r \in Readers,
               \/ LookUp(r) \/ Validate(r)
               \/ FindInCache(r) \/ FindInDB(r) \/ CachedByPlugin(r)
               \/ CachedByReader(r) \/ LookupFails(r) \/ UseAnswer(r)
        PROVE  CatalogInv'
    BY <1>2, <2>2, NewLookupKeeps, FindsKeep, CachingKeeps, LookupEnds
  <2>3. CASE CatalogTick BY <1>2, <2>3, TickKeeps
  <2>4. CASE UNCHANGED catalogVars
    BY <1>2, <2>4 DEF catalogVars, CatalogInv, CatalogTypeOK, ChangeInv, EntryInv, LookupInv
  <2> QED BY <1>2, <2>1, <2>2, <2>3, <2>4 DEF CatalogNext
<1> QED BY <1>1, <1>2, PTL DEF CatalogSpec

\* Once the creation of a service has succeeded no lookup misses its plans,
\* for any types of plans, ages of the caches, editors and readers.
THEOREM CreatedAreFound == CatalogSpec => []CreatedIsFound
<1>1. CatalogInv => CreatedIsFound
  BY LookupIs DEF CreatedIsFound, IsAnswered, LookupInv
<1> QED BY <1>1, CatalogInvariantHolds, PTL

\* A plan is not found longer after it was replaced than the caches keep it.
THEOREM PlansStayRecent == CatalogSpec => []PlansAreRecent
<1>1. CatalogInv => PlansAreRecent
  BY LookupIs DEF PlansAreRecent, IsAnswered, LookupInv
<1> QED BY <1>1, CatalogInvariantHolds, PTL

-----------------------------------------------------------------------------
(***************************************************************************)
(* The calls between services.                                             *)
(***************************************************************************)

\* The first of some places is one of them.
LEMMA FirstPlace ==
    ASSUME NEW S \in SUBSET Nat, S # {}
    PROVE  Min(S) \in S
<1>1. PICK x \in S : \A y \in S : x <= y BY HasLeast
<1> QED BY <1>1 DEF Min

\* The smaller one of two numbers.
LEMMA SmallerOne ==
    ASSUME NEW m \in Int, NEW n \in Int
    PROVE  Min({m, n}) = IF m <= n THEN m ELSE n
<1> DEFINE k == IF m <= n THEN m ELSE n
<1>1. k \in {m, n} /\ \A y \in {m, n} : k <= y OBVIOUS
<1>2. \A x \in {m, n} : (\A y \in {m, n} : x <= y) => x = k OBVIOUS
<1> HIDE DEF k
<1>3. Min({m, n}) = k BY <1>1, <1>2 DEF Min
<1> QED BY <1>3 DEF k

\* What is counted of a post.
LEMMA CountsOfPost ==
    ASSUME NEW p, p.counted \in Nat
    PROVE  IsFiniteSet(CountsOf(p)) /\ Cardinality(CountsOf(p)) = p.counted
<1> DEFINE n == p.counted
           f == [k \in 1 .. n |-> <<p.calls, k>>]
<1>1. f \in Bijection(1 .. n, CountsOf(p))
  <2>1. f \in Injection(1 .. n, CountsOf(p)) BY DEF Injection, IsInjective, CountsOf
  <2>2. f \in Surjection(1 .. n, CountsOf(p)) BY DEF Surjection, CountsOf
  <2> QED BY <2>1, <2>2 DEF Bijection
<1>2. ExistsBijection(1 .. n, CountsOf(p)) BY <1>1 DEF ExistsBijection
<1> QED BY <1>2, FS_CountingElements, FS_NatBijection

\* No post is without calls.
LEMMA PostHasCalls ==
    ASSUME NEW p, PostInv(p)
    PROVE  PostCalls(p) # {}
<1>1. DOMAIN p.calls # {} BY DEF PostInv
<1>2. PICK n \in DOMAIN p.calls : TRUE BY <1>1
<1>3. p.calls[n] \in PostCalls(p) BY DEF PostCalls
<1> QED BY <1>3

\* Two posts share no call, and none is without calls.
LEMMA PostsDiffer ==
    ASSUME NEW bs, BatchesInv(bs), NEW p \in UNION {b.posts : b \in bs},
           NEW q \in UNION {b.posts : b \in bs}, p # q
    PROVE  PostCalls(p) \cap PostCalls(q) = {} /\ p.calls # q.calls
<1>1. PICK b \in bs : p \in b.posts OBVIOUS
<1>2. PICK d \in bs : q \in d.posts OBVIOUS
<1>3. PostCalls(p) \subseteq BatchCalls(b) /\ PostCalls(q) \subseteq BatchCalls(d)
  BY <1>1, <1>2 DEF BatchCalls
<1>4. PostCalls(p) \cap PostCalls(q) = {}
  BY <1>1, <1>2, <1>3 DEF BatchesInv, BatchInv
<1>5. PostCalls(p) # {}
  <2>1. PostInv(p) BY <1>1 DEF BatchesInv, BatchInv
  <2> QED BY <2>1, PostHasCalls
<1>6. p.calls = q.calls => PostCalls(p) = PostCalls(q) BY DEF PostCalls
<1> QED BY <1>4, <1>5, <1>6

\* A post is counted apart from the others.
LEMMA CountsDiffer ==
    ASSUME NEW p, NEW q, p.calls # q.calls
    PROVE  CountsOf(p) \cap CountsOf(q) = {}
BY DEF CountsOf

\* A post that takes the place of another one with the same calls.
LEMMA PostMoves ==
    ASSUME BatchesInv(batches), NEW b \in batches, NEW p \in b.posts, NEW q, PostInv(q),
           q.calls = p.calls
    PROVE  /\ BatchesInv(With(b, p, q))
           /\ Handled(With(b, p, q))
                 = (Handled(batches) \ {p}) \cup (IF q.at = "handling" THEN {q} ELSE {})
<1> DEFINE posts == (b.posts \ {p}) \cup {q}
           d == [b EXCEPT !.posts = posts]
<1>1. BatchInv(b) BY DEF BatchesInv
<1>2. d.cached = b.cached /\ d.posts = posts /\ d \in [cached : {d.cached}, posts : {d.posts}]
  <2> HIDE DEF posts
  <2> QED BY <1>1 DEF BatchInv
<1>3. With(b, p, q) = (batches \ {b}) \cup {d} BY DEF With
<1> HIDE DEF d
<1>4. PostCalls(q) = PostCalls(p) BY DEF PostCalls
<1>5. BatchCalls(d) = BatchCalls(b)
  <2>1. UNION {PostCalls(r) : r \in posts} = UNION {PostCalls(r) : r \in b.posts} BY <1>4
  <2> QED BY <1>2, <2>1 DEF BatchCalls
<1>6. BatchInv(d)
  <2>1. \A c \in DOMAIN d.cached : IsWaiting(c) /\ CachedInv(d.cached[c], c)
    BY <1>1, <1>2 DEF BatchInv
  <2>2. \A r \in posts : PostInv(r) BY <1>1 DEF BatchInv
  <2>3. \A r, s \in posts : r # s => PostCalls(r) \cap PostCalls(s) = {}
    BY <1>1, <1>4 DEF BatchInv
  <2> HIDE DEF posts
  <2> QED BY <1>2, <2>1, <2>2, <2>3 DEF BatchInv
<1>7. BatchesInv((batches \ {b}) \cup {d}) BY <1>5, <1>6 DEF BatchesInv
<1>8. \A e \in batches \ {b} : p \notin e.posts
  <2> SUFFICES ASSUME NEW e \in batches, e # b, p \in e.posts PROVE FALSE OBVIOUS
  <2>1. PostCalls(p) \subseteq BatchCalls(e) /\ PostCalls(p) \subseteq BatchCalls(b)
    BY DEF BatchCalls
  <2>2. PostCalls(p) = {} BY <2>1 DEF BatchesInv
  <2>3. PostInv(p) BY <1>1 DEF BatchInv
  <2> QED BY <2>2, <2>3, PostHasCalls
<1>9. UNION {e.posts : e \in (batches \ {b}) \cup {d}}
        = ((UNION {e.posts : e \in batches}) \ {p}) \cup {q}
  BY <1>2, <1>8
<1>10. Handled((batches \ {b}) \cup {d})
        = (Handled(batches) \ {p}) \cup (IF q.at = "handling" THEN {q} ELSE {})
  BY <1>9 DEF Handled
<1> QED BY <1>3, <1>7, <1>10

\* All of the answers of a post at once.
LEMMA AnsweredAtOnce ==
    ASSUME NEW p, PostInv(p), NEW reply, reply.kind \notin {"ok", "quiet"},
           NEW q, q = AllAre(p, reply)
    PROVE  PostInv(q) /\ q.calls = p.calls /\ q.at = "answered" /\ q.counted = p.counted
<1>1. PICK replies : replies = [n \in DOMAIN p.calls |-> reply] OBVIOUS
<1>2. DOMAIN replies = DOMAIN p.calls /\ \A n \in DOMAIN p.calls : replies[n] = reply
  BY <1>1
<1>3. q = [p EXCEPT !.at = "answered", !.replies = replies] BY <1>1 DEF AllAre
<1>4. /\ q.calls = p.calls /\ q.direct = p.direct /\ q.auth = p.auth /\ q.at = "answered"
      /\ q.counted = p.counted /\ q.replies = replies
      /\ q \in [calls : {q.calls}, direct : BOOLEAN, auth : {q.auth},
                at : {"sent", "handling", "answered"}, counted : Nat, replies : {q.replies}]
  BY <1>3 DEF PostInv
<1>5. PostInv(q) BY <1>2, <1>4 DEF PostInv
<1> QED BY <1>4, <1>5

\* What a server leaves when it exits.
LEMMA LeftBatches ==
    ASSUME NEW bs, BatchesInv(bs), NEW how, how # "ok", how # "quiet" \/ Handled(bs) = {}
    PROVE  BatchesInv(Left(bs, how)) /\ Handled(Left(bs, how)) = {}
<1> DEFINE left(p) == IF p.at = "handling" THEN AllAre(p, Reply(how, "server", p.auth)) ELSE p
           gone(b) == [b EXCEPT !.posts = {left(p) : p \in b.posts}]
<1>1. ASSUME NEW b \in bs, NEW p \in b.posts
      PROVE  PostInv(left(p)) /\ left(p).calls = p.calls /\ left(p).at # "handling"
  <2>1. PostInv(p) BY <1>1 DEF BatchesInv, BatchInv
  <2>2. CASE p.at # "handling" BY <2>1, <2>2
  <2>3. CASE p.at = "handling"
    <3>1. PICK reply : reply = Reply(how, "server", p.auth) OBVIOUS
    <3>2. how # "quiet"
      <4>1. p \in Handled(bs) BY <1>1, <2>3 DEF Handled
      <4> QED BY <4>1
    <3>3. reply.kind \notin {"ok", "quiet"} BY <3>1, <3>2 DEF Reply
    <3>4. PICK q : q = AllAre(p, reply) OBVIOUS
    <3>5. left(p) = q BY <2>3, <3>1, <3>4
    <3> HIDE DEF left
    <3>6. PostInv(q) /\ q.calls = p.calls /\ q.at = "answered"
      BY <2>1, <3>3, <3>4, AnsweredAtOnce
    <3> QED BY <3>5, <3>6
  <2> QED BY <2>2, <2>3
<1> HIDE DEF left
<1>2. ASSUME NEW b \in bs
      PROVE  /\ BatchInv(gone(b)) /\ BatchCalls(gone(b)) = BatchCalls(b)
             /\ \A p \in gone(b).posts : p.at # "handling"
  <2> DEFINE posts == {left(p) : p \in b.posts}
             d == [b EXCEPT !.posts = posts]
  <2>1. BatchInv(b) BY <1>2 DEF BatchesInv
  <2>2. \A p \in posts : PostInv(p) /\ p.at # "handling" BY <1>1, <1>2
  <2>3. \A p \in b.posts : PostCalls(left(p)) = PostCalls(p) BY <1>1, <1>2 DEF PostCalls
  <2>4. \A p, q \in posts : p # q => PostCalls(p) \cap PostCalls(q) = {}
    BY <2>1, <2>3 DEF BatchInv
  <2>5. UNION {PostCalls(p) : p \in posts} = UNION {PostCalls(p) : p \in b.posts} BY <2>3
  <2>6. d = gone(b) OBVIOUS
  <2> HIDE DEF posts
  <2>7. d.cached = b.cached /\ d.posts = posts /\ d \in [cached : {d.cached}, posts : {d.posts}]
    BY <2>1 DEF BatchInv
  <2> HIDE DEF d
  <2>8. BatchInv(d) BY <2>1, <2>2, <2>4, <2>7 DEF BatchInv
  <2>9. BatchCalls(d) = BatchCalls(b) BY <2>5, <2>7 DEF BatchCalls
  <2> QED BY <2>2, <2>6, <2>7, <2>8, <2>9
<1>3. Left(bs, how) = {gone(b) : b \in bs} BY DEF Left, left
<1> HIDE DEF gone
<1>4. BatchesInv({gone(b) : b \in bs}) BY <1>2 DEF BatchesInv
<1>5. Handled({gone(b) : b \in bs}) = {} BY <1>2 DEF Handled
<1> QED BY <1>3, <1>4, <1>5

\* What is counted when one more post is handled.
LEMMA CountsMore ==
    ASSUME NEW bs, NEW cs, NEW q, q.counted \in Nat, IsFiniteSet(Counts(bs)),
           Handled(cs) = Handled(bs) \cup {q}, \A p \in Handled(bs) : p.calls # q.calls
    PROVE  /\ IsFiniteSet(Counts(cs))
           /\ Cardinality(Counts(cs)) = Cardinality(Counts(bs)) + q.counted
<1>1. Counts(cs) = Counts(bs) \cup CountsOf(q) BY DEF Counts
<1>2. IsFiniteSet(CountsOf(q)) /\ Cardinality(CountsOf(q)) = q.counted BY CountsOfPost
<1>3. Counts(bs) \cap CountsOf(q) = {}
  <2>1. \A p \in Handled(bs) : CountsOf(p) \cap CountsOf(q) = {} BY CountsDiffer
  <2> QED BY <2>1 DEF Counts
<1>4. Cardinality(Counts(bs)) \in Nat BY FS_CardinalityType
<1>5. /\ IsFiniteSet(Counts(bs) \cup CountsOf(q))
      /\ Cardinality(Counts(bs) \cup CountsOf(q))
            = Cardinality(Counts(bs)) + Cardinality(CountsOf(q))
                 - Cardinality(Counts(bs) \cap CountsOf(q))
  BY <1>2, FS_Union
<1>6. Cardinality(Counts(bs) \cap CountsOf(q)) = 0 BY <1>3, FS_EmptySet
<1> QED BY <1>1, <1>2, <1>4, <1>5, <1>6

\* A server that counts nothing handles nothing.
LEMMA NothingHandled ==
    ASSUME NEW bs, BatchesInv(bs), Counts(bs) = {}
    PROVE  Handled(bs) = {}
<1> SUFFICES ASSUME NEW p \in Handled(bs) PROVE FALSE OBVIOUS
<1>1. PICK b \in bs : p \in b.posts BY DEF Handled
<1>2. PostInv(p) BY <1>1 DEF BatchesInv, BatchInv
<1>3. p.counted \in Nat /\ p.counted > 0 BY <1>2 DEF PostInv, Handled
<1>4. <<p.calls, 1>> \in CountsOf(p) BY <1>3 DEF CountsOf
<1> QED BY <1>4 DEF Counts

-----------------------------------------------------------------------------
(* The parts of the invariant that a step leaves alone. *)

\* A batch stays as good as it is while the calls in it wait.
LEMMA BatchWaits ==
    ASSUME NEW b, BatchInv(b), \A c \in BatchCalls(b) : caller'[c] = caller[c]
    PROVE  BatchInv(b)'
<1>1. ASSUME NEW p \in b.posts PROVE PostInv(p)'
  <2>1. PostInv(p) BY DEF BatchInv
  <2>2. \A n \in DOMAIN p.calls : p.calls[n] \in BatchCalls(b) BY DEF BatchCalls, PostCalls
  <2>3. \A n \in DOMAIN p.calls : caller'[p.calls[n]] = caller[p.calls[n]] BY <2>2
  <2> QED BY <2>1, <2>3 DEF PostInv, IsWaiting
<1>2. \A c \in DOMAIN b.cached : c \in BatchCalls(b) BY DEF BatchCalls
<1>3. \A c \in DOMAIN b.cached : IsWaiting(c)' /\ CachedInv(b.cached[c], c)
  BY <1>2 DEF BatchInv, IsWaiting
<1> QED BY <1>1, <1>3 DEF BatchInv

\* The calls of a batch wait.
LEMMA BatchedWait ==
    ASSUME NEW b, BatchInv(b), NEW c \in BatchCalls(b)
    PROVE  IsWaiting(c)
<1>1. CASE c \in DOMAIN b.cached BY <1>1 DEF BatchInv
<1>2. CASE c \notin DOMAIN b.cached
  <2>1. PICK p \in b.posts : c \in PostCalls(p) BY <1>2 DEF BatchCalls
  <2>2. PICK n \in DOMAIN p.calls : c = p.calls[n] BY <2>1 DEF PostCalls
  <2>3. PostInv(p) BY DEF BatchInv
  <2> QED BY <2>2, <2>3 DEF PostInv
<1> QED BY <1>1, <1>2

\* Batches stay as good as they are while the callers and the queues in front of them
\* do not change.
LEMMA BatchesWait ==
    ASSUME NEW bs, BatchesInv(bs), UNCHANGED <<caller, recorded, asking>>
    PROVE  BatchesInv(bs)'
<1>1. Unbatched' = Unbatched BY DEF Unbatched
<1>2. \A b \in bs : BatchInv(b)' BY BatchWaits DEF BatchesInv
<1> QED BY <1>1, <1>2 DEF BatchesInv

\* The calls of the client when only its batches change.
LEMMA CallersStay ==
    ASSUME WebInv, UNCHANGED <<caller, recorded, asking, resources>>
    PROVE  (CallersInv /\ ResourcesInv /\ RecordedInv /\ AskingInv)'
<1>1. CallersInv' BY DEF WebInv, CallersInv, ResultIsOwn
<1>2. ResourcesInv' BY DEF WebInv, ResourcesInv
<1>3. RecordedInv' BY DEF WebInv, RecordedInv, IsWaiting
<1>4. AskingInv' BY DEF WebInv, AskingInv, IsWaiting
<1> QED BY <1>1, <1>2, <1>3, <1>4

\* The count of the server stays right while the same requests are on it.
LEMMA CountStays ==
    ASSUME CountInv, UNCHANGED <<server, inflight, maxInflight>>,
           Handled(batches') = Handled(batches)
    PROVE  CountInv'
BY DEF CountInv, Counts

-----------------------------------------------------------------------------
(* The client. *)

\* What a post is made of.
LEMMA NewPost ==
    ASSUME NEW calls, NEW direct \in BOOLEAN, NEW auth, NEW replies, NEW p,
           p = [calls |-> calls, direct |-> direct, auth |-> auth, at |-> "sent",
                counted |-> 0, replies |-> replies],
           DOMAIN replies = DOMAIN calls, \A n \in DOMAIN calls : replies[n] = NoReply,
           DOMAIN calls \in (SUBSET Nat) \ {{}}, IsFiniteSet(DOMAIN calls),
           \A n \in DOMAIN calls :
              /\ calls[n] \in WebCalls /\ caller'[calls[n]].at = "waiting"
              /\ caller'[calls[n]].auth = auth
    PROVE  /\ PostInv(p)' /\ p.at = "sent"
           /\ p.calls = calls /\ PostCalls(p) = {calls[n] : n \in DOMAIN calls}
<1>1. \A n \in DOMAIN calls : replies[n].kind = "none" BY DEF NoReply, Reply
<1>2. /\ p.calls = calls /\ p.auth = auth /\ p.at = "sent" /\ p.replies = replies
      /\ p \in [calls : {p.calls}, direct : BOOLEAN, auth : {p.auth},
                at : {"sent", "handling", "answered"}, counted : Nat, replies : {p.replies}]
  OBVIOUS
<1>3. PostInv(p)' BY <1>1, <1>2 DEF PostInv, IsWaiting
<1> QED BY <1>2, <1>3 DEF PostCalls

\* What a batch is made of.
LEMMA NewBatch ==
    ASSUME ResourcesInv, NEW calls \in Seq(WebCalls), NEW b, b = Batch(calls),
           \A n \in DOMAIN calls :
              IsWaiting(calls[n])' /\ caller[calls[n]].at # "answered"
    PROVE  /\ BatchInv(b)' /\ BatchCalls(b) \subseteq ToSet(calls)
           /\ \A p \in b.posts : p.at = "sent"
<1> DEFINE asked == {c \in ToSet(calls) : ~IsCached(c)}
           places(c) == {n \in DOMAIN calls : calls[n] \in Group(asked, c)}
           cached == [c \in ToSet(calls) \ asked |-> resources[Resource[c]]]
           post(c) == PostOf(Restrict(calls, places(c)), FALSE)
           posts == {post(c) : c \in asked}
<1>1. b = [cached |-> cached, posts |-> posts] BY DEF Batch
<1>2. DOMAIN calls = 1 .. Len(calls) /\ Len(calls) \in Nat /\ ToSet(calls) = {calls[n] : n \in DOMAIN calls}
  BY DEF ToSet
<1>3. ASSUME NEW c \in asked, NEW p, p = post(c)
      PROVE  /\ PostInv(p)' /\ p.at = "sent" /\ PostCalls(p) \subseteq asked
             /\ \A x \in PostCalls(p) : caller'[x].auth = caller'[c].auth
  <2>1. PICK here : here = places(c) OBVIOUS
  <2>2. PICK own : own = Restrict(calls, here) OBVIOUS
  <2>3. PICK auth : auth = caller'[c].auth OBVIOUS
  <2>5. DOMAIN own = here /\ \A n \in here : own[n] = calls[n] BY <2>2 DEF Restrict
  <2>6. here \subseteq DOMAIN calls BY <2>1
  <2>7. DOMAIN own \in (SUBSET Nat) \ {{}}
    <3>1. PICK n \in DOMAIN calls : calls[n] = c BY <1>2
    <3>2. n \in here BY <2>1, <3>1 DEF Group
    <3>3. here \subseteq Nat BY <1>2, <2>6
    <3> QED BY <2>5, <3>2, <3>3
  <2>8. IsFiniteSet(DOMAIN own)
    <3>1. IsFiniteSet(1 .. Len(calls)) BY <1>2, FS_Interval
    <3> QED BY <1>2, <2>5, <2>6, <3>1, FS_Subset
  <2>9. \A n \in here : calls[n] \in asked /\ caller'[calls[n]].auth = auth
    BY <2>1, <2>3 DEF Group
  <2>10. \A n \in DOMAIN own :
            /\ own[n] \in WebCalls /\ caller'[own[n]].at = "waiting"
            /\ caller'[own[n]].auth = auth
    BY <2>5, <2>6, <2>9 DEF IsWaiting
  <2>11. PICK replies : replies = [n \in DOMAIN own |-> NoReply] OBVIOUS
  <2>12. DOMAIN replies = DOMAIN own /\ \A n \in DOMAIN own : replies[n] = NoReply
    BY <2>11
  <2>13. PICK direct \in BOOLEAN : direct = FALSE OBVIOUS
  <2>14. p = [calls |-> own, direct |-> direct, auth |-> auth, at |-> "sent",
              counted |-> 0, replies |-> replies]
    <3>1. p = PostOf(own, FALSE) BY <1>3, <2>1, <2>2
    <3>2. Min(DOMAIN own) \in DOMAIN own BY <2>7, FirstPlace
    <3>3. caller'[own[Min(DOMAIN own)]].auth = auth BY <2>10, <3>2
    <3> QED BY <3>1, <3>3, <2>11, <2>13 DEF PostOf
  <2>15. PostInv(p)' /\ p.at = "sent" /\ PostCalls(p) = {own[n] : n \in DOMAIN own}
    BY <2>7, <2>8, <2>10, <2>12, <2>14, NewPost
  <2> HIDE DEF asked
  <2> QED BY <2>3, <2>5, <2>9, <2>15
<1>4. ASSUME NEW c \in asked, NEW d \in asked, caller'[c].auth = caller'[d].auth
      PROVE  post(c) = post(d)
  BY <1>4 DEF Group
<1>5. ASSUME NEW c \in ToSet(calls) \ asked
      PROVE  IsWaiting(c)' /\ CachedInv(cached[c], c)
  <2>1. PICK n \in DOMAIN calls : calls[n] = c BY <1>2
  <2>2. IsWaiting(c)' /\ caller[c].at # "answered" BY <2>1 DEF IsWaiting
  <2>3. c \in WebCalls BY <2>2 DEF IsWaiting
  <2>4. cached[c] = resources[Resource[c]] OBVIOUS
  <2>5. c \in Cacheable /\ resources[Resource[c]] # NoReply BY DEF IsCached
  <2>6. Resource[c] \in Resources BY <2>3 DEF Resources
  <2> HIDE DEF cached
  <2> QED BY <2>2, <2>3, <2>4, <2>5, <2>6 DEF ResourcesInv, CachedInv
<1> HIDE DEF post
<1>6. ASSUME NEW p \in posts
      PROVE  \E c \in asked : p = post(c)
  OBVIOUS
<1>7. ASSUME NEW p \in posts, NEW q \in posts, p # q
      PROVE  PostCalls(p) \cap PostCalls(q) = {}
  <2>1. PICK c \in asked : p = post(c) BY <1>6
  <2>2. PICK d \in asked : q = post(d) BY <1>6
  <2>3. \A x \in PostCalls(p) : caller'[x].auth = caller'[c].auth BY <1>3, <2>1
  <2>4. \A x \in PostCalls(q) : caller'[x].auth = caller'[d].auth BY <1>3, <2>2
  <2>5. caller'[c].auth # caller'[d].auth BY <1>4, <1>7, <2>1, <2>2
  <2> QED BY <2>3, <2>4, <2>5
<1>8. \A p \in posts : PostInv(p)' /\ p.at = "sent" /\ PostCalls(p) \subseteq asked
  BY <1>3, <1>6
<1>9. DOMAIN cached = ToSet(calls) \ asked /\ asked \subseteq ToSet(calls) OBVIOUS
<1> HIDE DEF posts, cached, asked
<1>10. b.cached = cached /\ b.posts = posts /\ b \in [cached : {b.cached}, posts : {b.posts}]
  BY <1>1
<1>11. \A p \in b.posts : PostInv(p)' BY <1>8, <1>10
<1>12. \A p, q \in b.posts : p # q => PostCalls(p) \cap PostCalls(q) = {} BY <1>7, <1>10
<1>13. \A c \in DOMAIN b.cached : IsWaiting(c)' /\ CachedInv(b.cached[c], c) BY <1>5, <1>9, <1>10
<1>14. BatchInv(b)' BY <1>10, <1>11, <1>12, <1>13 DEF BatchInv
<1>15. BatchCalls(b) \subseteq ToSet(calls)
  <2>1. UNION {PostCalls(p) : p \in posts} \subseteq asked BY <1>8
  <2> QED BY <1>9, <1>10, <2>1 DEF BatchCalls
<1> QED BY <1>8, <1>10, <1>14, <1>15

\* Batches that remain, while the calls in them wait.
LEMMA BatchesKept ==
    ASSUME WebInv, batches' \subseteq batches,
           \A e \in batches' : \A c \in BatchCalls(e) : caller'[c] = caller[c],
           \A e \in batches' : BatchCalls(e) \cap Unbatched' = {}
    PROVE  BatchesInv(batches)'
<1>1. PICK bs : bs = batches' OBVIOUS
<1>2. \A e \in bs : BatchInv(e)' BY <1>1, BatchWaits DEF WebInv, BatchesInv
<1>3. \A e, d \in bs : e # d => BatchCalls(e) \cap BatchCalls(d) = {}
  BY <1>1 DEF WebInv, BatchesInv
<1>4. BatchesInv(bs)' BY <1>1, <1>2, <1>3 DEF BatchesInv
<1> QED BY <1>1, <1>4 DEF BatchesInv

\* What a flush does to the batches, when it takes every recorded call.
LEMMA Flushes ==
    ASSUME WebInv, NEW calls \in Seq(WebCalls), Flush(calls), asking' = asking,
           \A c \in WebCalls : caller[c].at # "new" => caller'[c] = caller[c],
           \A n \in DOMAIN calls :
              /\ IsWaiting(calls[n])' /\ caller[calls[n]].at # "answered"
              /\ \A e \in batches : calls[n] \notin BatchCalls(e)
              /\ \A r \in Resources : calls[n] \notin ToSet(asking[r])
    PROVE  BatchesInv(batches)' /\ Handled(batches') = Handled(batches)
<1>1. PICK b : b = Batch(calls) OBVIOUS
<1>2. batches' = batches \cup {b} /\ recorded' = <<>> BY <1>1 DEF Flush
<1>3. /\ BatchInv(b)' /\ BatchCalls(b) \subseteq ToSet(calls)
      /\ \A p \in b.posts : p.at = "sent"
  BY <1>1, NewBatch DEF WebInv
<1>4. \A e \in batches : BatchInv(e) /\ BatchCalls(e) \cap Unbatched = {}
  BY DEF WebInv, BatchesInv
<1>5. \A e \in batches : \A c \in BatchCalls(e) : IsWaiting(c)
  BY <1>4, BatchedWait
<1>6. \A e \in batches : BatchInv(e)'
  <2> SUFFICES ASSUME NEW e \in batches PROVE BatchInv(e)' OBVIOUS
  <2>1. \A c \in BatchCalls(e) : caller'[c] = caller[c] BY <1>5 DEF IsWaiting
  <2> QED BY <1>4, <2>1, BatchWaits
<1>7. \A c \in BatchCalls(b) : \E n \in DOMAIN calls : calls[n] = c
  BY <1>3 DEF ToSet
<1>8. \A e \in batches : BatchCalls(e) \cap BatchCalls(b) = {} BY <1>7
<1>9. Unbatched' = UNION {ToSet(asking[r]) : r \in Resources}
  BY <1>2 DEF Unbatched, ToSet
<1>10. BatchCalls(b) \cap Unbatched' = {} BY <1>7, <1>9
<1>11. \A e \in batches : BatchCalls(e) \cap Unbatched' = {} BY <1>4, <1>9 DEF Unbatched
<1>12. BatchesInv(batches)'
  <2>1. PICK bs : bs = batches \cup {b} OBVIOUS
  <2>2. \A e \in bs : BatchInv(e)' /\ BatchCalls(e) \cap Unbatched' = {}
    BY <1>3, <1>6, <1>10, <1>11, <2>1
  <2>3. \A e, d \in bs : e # d => BatchCalls(e) \cap BatchCalls(d) = {}
    BY <1>8, <2>1 DEF WebInv, BatchesInv
  <2>4. BatchesInv(bs)' BY <2>2, <2>3 DEF BatchesInv
  <2>5. batches' = bs BY <1>2, <2>1
  <2> QED BY <2>4, <2>5 DEF BatchesInv
<1>13. Handled(batches') = Handled(batches) BY <1>2, <1>3 DEF Handled
<1> QED BY <1>2, <1>12, <1>13

\* A call that is new is in no batch, and waits nowhere.
LEMMA NewIsNowhere ==
    ASSUME WebInv, NEW c \in WebCalls, caller[c] = NotMade
    PROVE  /\ c \notin ToSet(recorded)
           /\ \A r \in Resources : c \notin ToSet(asking[r])
           /\ \A e \in batches : c \notin BatchCalls(e)
<1>1. ~ IsWaiting(c) BY DEF IsWaiting, NotMade
<1>2. \A e \in batches : c \notin BatchCalls(e)
  BY <1>1, BatchedWait DEF WebInv, BatchesInv
<1>3. c \notin ToSet(recorded) BY <1>1 DEF WebInv, RecordedInv, ToSet
<1>4. \A r \in Resources : c \notin ToSet(asking[r]) BY <1>1 DEF WebInv, AskingInv, ToSet
<1> QED BY <1>2, <1>3, <1>4

\* Its call only makes it wait.
LEMMA NewWaits ==
    ASSUME WebInv, NEW c \in WebCalls, caller[c] = NotMade,
           caller' = [caller EXCEPT ![c] = [at |-> "waiting", auth |-> token]]
    PROVE  /\ CallersInv' /\ IsWaiting(c)'
           /\ \A d \in WebCalls : IsWaiting(d) => IsWaiting(d)'
           /\ \A d \in WebCalls : caller[d].at # "new" => caller'[d] = caller[d]
           /\ resources' = resources => ResourcesInv'
<1> DEFINE new == [at |-> "waiting", auth |-> token]
<1>1. new.at = "waiting" OBVIOUS
<1> HIDE DEF new
<1>2. caller[c].at = "new" BY DEF NotMade
<1>3. /\ DOMAIN caller' = WebCalls /\ caller'[c] = new
      /\ \A d \in WebCalls : d # c => caller'[d] = caller[d]
  BY DEF WebInv, CallersInv, new
<1>4. \A d \in WebCalls : caller[d].at # "new" => caller'[d] = caller[d] BY <1>2, <1>3
<1>5. \A d \in WebCalls : IsWaiting(d) => IsWaiting(d)' BY <1>4 DEF IsWaiting
<1>6. CallersInv' BY <1>1, <1>3 DEF WebInv, CallersInv, ResultIsOwn
<1>7. resources' = resources => ResourcesInv' BY <1>4 DEF WebInv, ResourcesInv
<1> QED BY <1>1, <1>3, <1>4, <1>5, <1>6, <1>7 DEF IsWaiting

\* A call that is made is recorded last, or completes a batch.
LEMMA MakeCallStep ==
    ASSUME WebInv, NEW c \in WebCalls, MakeCall(c)
    PROVE  WebInv'
<1>0. PICK calls : calls = Append(recorded, c) OBVIOUS
<1>1. /\ caller[c] = NotMade /\ caller' = [caller EXCEPT ![c] = [at |-> "waiting", auth |-> token]]
      /\ UNCHANGED <<asking, resources, server, inflight, maxInflight>>
      /\ \/ Flush(calls)
         \/ recorded' = calls /\ batches' = batches
  BY <1>0 DEF MakeCall, serverVars
<1>2. /\ CallersInv' /\ IsWaiting(c)' /\ ResourcesInv'
      /\ \A d \in WebCalls : IsWaiting(d) => IsWaiting(d)'
      /\ \A d \in WebCalls : caller[d].at # "new" => caller'[d] = caller[d]
  BY <1>1, NewWaits
<1>3. /\ c \notin ToSet(recorded)
      /\ \A r \in Resources : c \notin ToSet(asking[r])
      /\ \A e \in batches : c \notin BatchCalls(e)
  BY <1>1, NewIsNowhere
<1>4. recorded \in Seq(WebCalls) /\ \A n \in DOMAIN recorded : IsWaiting(recorded[n])
  BY DEF WebInv, RecordedInv
<1>5. /\ calls \in Seq(WebCalls) /\ DOMAIN calls = 1 .. Len(recorded) + 1
      /\ DOMAIN recorded = 1 .. Len(recorded) /\ Len(recorded) \in Nat
      /\ calls[Len(recorded) + 1] = c
      /\ \A n \in DOMAIN recorded : calls[n] = recorded[n]
  BY <1>0, <1>4
<1>6. \A n \in DOMAIN calls :
         \/ calls[n] = c
         \/ n \in DOMAIN recorded /\ calls[n] = recorded[n]
  BY <1>5
<1>7. \A n \in DOMAIN calls : IsWaiting(calls[n])' BY <1>2, <1>4, <1>6 DEF IsWaiting
<1>8. asking \in [Resources -> Seq(WebCalls)] BY DEF WebInv, AskingInv
<1>9. ASSUME NEW r \in Resources, NEW n \in DOMAIN asking[r]
      PROVE  /\ asking[r][n] # c /\ caller'[asking[r][n]].at = "waiting"
             /\ asking[r][n] \in WebCalls /\ asking[r][n] \in Cacheable /\ Resource[asking[r][n]] = r
             /\ asking[r][n] \notin ToSet(recorded)
             /\ \A m \in DOMAIN asking[r] : asking[r][m] = asking[r][n] => m = n
  <2>1. IsWaiting(asking[r][n]) BY DEF WebInv, AskingInv
  <2>2. asking[r][n] \in WebCalls /\ caller'[asking[r][n]].at = "waiting"
    BY <1>2, <2>1 DEF IsWaiting
  <2>3. asking[r][n] \in ToSet(asking[r]) BY DEF ToSet
  <2> QED BY <1>3, <2>2, <2>3 DEF WebInv, AskingInv
<1>10. CASE Flush(calls)
  <2>1. recorded' = <<>> BY <1>10 DEF Flush
  <2>2. ASSUME NEW n \in DOMAIN calls
        PROVE  /\ caller[calls[n]].at # "answered"
               /\ \A e \in batches : calls[n] \notin BatchCalls(e)
               /\ \A r \in Resources : calls[n] \notin ToSet(asking[r])
    <3>1. CASE calls[n] = c BY <1>1, <1>3, <3>1 DEF NotMade
    <3>2. CASE n \in DOMAIN recorded /\ calls[n] = recorded[n]
      <4>1. calls[n] \in ToSet(recorded) BY <3>2 DEF ToSet
      <4>2. calls[n] \in Unbatched BY <4>1 DEF Unbatched
      <4>3. \A r \in Resources : calls[n] \notin ToSet(asking[r])
        BY <1>9, <4>1 DEF ToSet
      <4>4. caller[calls[n]].at = "waiting" BY <1>4, <3>2 DEF IsWaiting
      <4> QED BY <4>2, <4>3, <4>4 DEF WebInv, BatchesInv
    <3> QED BY <1>6, <3>1, <3>2
  <2>3. BatchesInv(batches)' /\ Handled(batches') = Handled(batches)
    BY <1>1, <1>2, <1>5, <1>7, <1>10, <2>2, Flushes
  <2>4. RecordedInv' BY <2>1 DEF RecordedInv
  <2>5. AskingInv'
    BY <1>1, <1>8, <1>9, <2>1 DEF AskingInv, ToSet, IsWaiting
  <2>6. CountInv' BY <1>1, <2>3, CountStays DEF WebInv
  <2> QED BY <1>2, <2>3, <2>4, <2>5, <2>6 DEF WebInv
<1>11. CASE recorded' = calls /\ batches' = batches
  <2>1. RecordedInv' BY <1>5, <1>7, <1>11 DEF RecordedInv, IsWaiting
  <2>2. ToSet(calls) = ToSet(recorded) \cup {c} BY <1>5, <1>6 DEF ToSet
  <2>3. AskingInv' BY <1>1, <1>8, <1>9, <1>11, <2>2 DEF AskingInv, IsWaiting
  <2>4. Unbatched' = Unbatched \cup {c} BY <1>1, <1>11, <2>2 DEF Unbatched
  <2>5. BatchesInv(batches)'
    <3>1. \A e \in batches : \A d \in BatchCalls(e) : IsWaiting(d)
      BY BatchedWait DEF WebInv, BatchesInv
    <3>2. \A e \in batches : \A d \in BatchCalls(e) : caller'[d] = caller[d]
      BY <1>2, <3>1 DEF IsWaiting
    <3>3. \A e \in batches : BatchCalls(e) \cap Unbatched' = {}
      BY <1>3, <2>4 DEF WebInv, BatchesInv
    <3> QED BY <1>11, <3>2, <3>3, BatchesKept
  <2>6. CountInv' BY <1>1, <1>11, CountStays DEF WebInv
  <2> QED BY <1>2, <2>1, <2>3, <2>5, <2>6 DEF WebInv
<1> QED BY <1>1, <1>10, <1>11

\* When the delay is over, the recorded calls are sent as a batch.
LEMMA BatchDelayStep ==
    ASSUME WebInv, BatchDelay
    PROVE  WebInv'
<1>1. UNCHANGED <<caller, asking, resources, server, inflight, maxInflight>> /\ Flush(recorded)
  BY DEF BatchDelay, serverVars
<1>2. PICK calls : calls = recorded OBVIOUS
<1>3. calls \in Seq(WebCalls) /\ \A n \in DOMAIN calls : IsWaiting(calls[n])
  BY <1>2 DEF WebInv, RecordedInv
<1>4. recorded' = <<>> BY <1>1 DEF Flush
<1>5. ASSUME NEW n \in DOMAIN calls
      PROVE  /\ IsWaiting(calls[n])' /\ caller[calls[n]].at # "answered"
             /\ \A e \in batches : calls[n] \notin BatchCalls(e)
             /\ \A r \in Resources : calls[n] \notin ToSet(asking[r])
  <2>1. IsWaiting(calls[n])' BY <1>1, <1>3 DEF IsWaiting
  <2>2. calls[n] \in ToSet(recorded) BY <1>2 DEF ToSet
  <2>3. \A e \in batches : calls[n] \notin BatchCalls(e)
    BY <2>2 DEF WebInv, BatchesInv, Unbatched
  <2>4. \A r \in Resources : calls[n] \notin ToSet(asking[r])
    BY <2>2 DEF WebInv, AskingInv, ToSet
  <2> QED BY <1>3, <2>1, <2>3, <2>4 DEF IsWaiting
<1>6. BatchesInv(batches)' /\ Handled(batches') = Handled(batches)
  <2>1. Flush(calls) BY <1>1, <1>2 DEF Flush
  <2> QED BY <1>1, <1>3, <1>5, <2>1, Flushes
<1>7. CallersInv' BY <1>1 DEF WebInv, CallersInv, ResultIsOwn
<1>8. ResourcesInv' BY <1>1 DEF WebInv, ResourcesInv
<1>9. RecordedInv' BY <1>4 DEF RecordedInv
<1>10. AskingInv' BY <1>1, <1>4 DEF WebInv, AskingInv, IsWaiting, ToSet
<1>11. CountInv' BY <1>1, <1>6, CountStays DEF WebInv
<1> QED BY <1>6, <1>7, <1>8, <1>9, <1>10, <1>11 DEF WebInv

\* A call outside of a batch queues for the lock of its resource.
LEMMA CallDirectlyStep ==
    ASSUME WebInv, NEW c \in WebCalls, CallDirectly(c)
    PROVE  WebInv'
<1>1. /\ caller[c] = NotMade /\ caller' = [caller EXCEPT ![c] = [at |-> "waiting", auth |-> token]]
      /\ c \in Cacheable
      /\ asking' = [asking EXCEPT ![Resource[c]] = Append(asking[Resource[c]], c)]
      /\ UNCHANGED <<recorded, batches, resources, server, inflight, maxInflight>>
  BY DEF CallDirectly, serverVars
<1>2. /\ CallersInv' /\ IsWaiting(c)' /\ ResourcesInv'
      /\ \A d \in WebCalls : IsWaiting(d) => IsWaiting(d)'
      /\ \A d \in WebCalls : caller[d].at # "new" => caller'[d] = caller[d]
  BY <1>1, NewWaits
<1>3. /\ c \notin ToSet(recorded)
      /\ \A r \in Resources : c \notin ToSet(asking[r])
      /\ \A e \in batches : c \notin BatchCalls(e)
  BY <1>1, NewIsNowhere
<1>4. PICK mine : mine = Resource[c] OBVIOUS
<1>5. PICK queue : queue = asking[mine] OBVIOUS
<1>6. PICK longer : longer = Append(queue, c) OBVIOUS
<1>7. mine \in Resources /\ queue \in Seq(WebCalls) BY <1>4, <1>5 DEF WebInv, AskingInv, Resources
<1>8. /\ longer \in Seq(WebCalls) /\ DOMAIN longer = 1 .. Len(queue) + 1
      /\ DOMAIN queue = 1 .. Len(queue) /\ Len(queue) \in Nat
      /\ longer[Len(queue) + 1] = c /\ \A n \in DOMAIN queue : longer[n] = queue[n]
  BY <1>6, <1>7
<1>9. /\ asking' \in [Resources -> Seq(WebCalls)] /\ asking'[mine] = longer
      /\ \A r \in Resources : r # mine => asking'[r] = asking[r]
  BY <1>1, <1>4, <1>5, <1>6, <1>7, <1>8 DEF WebInv, AskingInv
<1>10. ToSet(longer) = ToSet(queue) \cup {c} BY <1>8 DEF ToSet
<1>11. RecordedInv' BY <1>1, <1>2 DEF WebInv, RecordedInv, IsWaiting
<1>12. ASSUME NEW r \in Resources, NEW n \in DOMAIN asking[r]
       PROVE  /\ asking[r][n] # c /\ caller'[asking[r][n]].at = "waiting"
              /\ asking[r][n] \in WebCalls /\ asking[r][n] \in Cacheable
              /\ Resource[asking[r][n]] = r
              /\ asking[r][n] \notin ToSet(recorded)
              /\ \A m \in DOMAIN asking[r] : asking[r][m] = asking[r][n] => m = n
  <2>1. IsWaiting(asking[r][n]) BY DEF WebInv, AskingInv
  <2>2. asking[r][n] \in WebCalls /\ caller'[asking[r][n]].at = "waiting"
    BY <1>2, <2>1 DEF IsWaiting
  <2>3. asking[r][n] \in ToSet(asking[r]) BY DEF ToSet
  <2> QED BY <1>3, <2>2, <2>3 DEF WebInv, AskingInv
<1>13. AskingInv'
  <2>1. ASSUME NEW r \in Resources, NEW n \in DOMAIN asking'[r], NEW d, d = asking'[r][n]
        PROVE  /\ d \in WebCalls /\ caller'[d].at = "waiting" /\ d \in Cacheable
               /\ Resource[d] = r /\ d \notin ToSet(recorded)
               /\ \A m \in DOMAIN asking'[r] : asking'[r][m] = d => m = n
    <3>1. CASE r # mine BY <1>9, <1>12, <2>1, <3>1
    <3>2. CASE r = mine
      <4>1. asking'[r] = longer BY <1>9, <3>2
      <4>2. caller'[c].at = "waiting" BY <1>2 DEF IsWaiting
      <4>3. \A m \in DOMAIN queue : queue[m] # c BY <1>5, <1>7, <1>12
      <4>4. CASE n \in DOMAIN queue
        <5>1. d = queue[n] /\ d # c BY <1>8, <2>1, <4>1, <4>3, <4>4
        <5> QED BY <1>5, <1>8, <1>12, <3>2, <4>1, <4>4, <5>1
      <4>5. CASE n = Len(queue) + 1
        <5>1. d = c BY <1>8, <2>1, <4>1, <4>5
        <5>2. \A m \in DOMAIN longer : longer[m] = c => m = n BY <1>8, <4>3, <4>5
        <5> QED BY <1>1, <1>3, <1>4, <3>2, <4>1, <4>2, <5>1, <5>2
      <4> QED BY <1>8, <4>1, <4>4, <4>5
    <3> QED BY <3>1, <3>2
  <2> QED BY <1>1, <1>9, <2>1 DEF AskingInv, IsWaiting
<1>14. Unbatched' \subseteq Unbatched \cup {c}
  <2>1. \A r \in Resources : ToSet(asking'[r]) = IF r = mine THEN ToSet(asking[r]) \cup {c}
                                                   ELSE ToSet(asking[r])
    BY <1>5, <1>9, <1>10
  <2>2. \A r \in Resources : ToSet(asking'[r]) \subseteq ToSet(asking[r]) \cup {c} BY <2>1
  <2>3. UNION {ToSet(asking'[r]) : r \in Resources}
           \subseteq (UNION {ToSet(asking[r]) : r \in Resources}) \cup {c}
    BY <2>2
  <2> QED BY <1>1, <2>3 DEF Unbatched
<1>15. BatchesInv(batches)'
  <2>1. \A e \in batches : \A d \in BatchCalls(e) : IsWaiting(d)
    BY BatchedWait DEF WebInv, BatchesInv
  <2>2. \A e \in batches : \A d \in BatchCalls(e) : caller'[d] = caller[d]
    BY <1>2, <2>1 DEF IsWaiting
  <2>3. \A e \in batches : BatchCalls(e) \cap Unbatched' = {}
    BY <1>3, <1>14 DEF WebInv, BatchesInv
  <2> QED BY <1>1, <2>2, <2>3, BatchesKept
<1>16. CountInv' BY <1>1, CountStays DEF WebInv
<1> QED BY <1>2, <1>11, <1>13, <1>15, <1>16 DEF WebInv

\* A call that asks for its resource has waited for it, first of all, and
\* nowhere else.
LEMMA FirstAsks ==
    ASSUME WebInv, NEW c \in WebCalls, IsFirst(c),
           asking' = [asking EXCEPT ![Resource[c]] = Tail(asking[Resource[c]])],
           recorded' = recorded
    PROVE  /\ IsWaiting(c) /\ c \in Cacheable
           /\ \A e \in batches : c \notin BatchCalls(e)
           /\ Unbatched' \subseteq Unbatched \ {c}
           /\ RecordedInv /\ c \notin ToSet(recorded)
           /\ asking' \in [Resources -> Seq(WebCalls)]
           /\ \A r \in Resources : \A n \in DOMAIN asking'[r] : \A d :
                 d = asking'[r][n] =>
                    /\ d \in WebCalls /\ caller[d].at = "waiting" /\ d # c
                    /\ d \in Cacheable /\ Resource[d] = r
                    /\ \A m \in DOMAIN asking'[r] : asking'[r][m] = d => m = n
                    /\ d \notin ToSet(recorded)
<1>1. PICK mine : mine = Resource[c] OBVIOUS
<1>2. PICK queue : queue = asking[mine] OBVIOUS
<1>3. PICK rest : rest = Tail(queue) OBVIOUS
<1>4. mine \in Resources /\ queue \in Seq(WebCalls) /\ queue # <<>> /\ Head(queue) = c
  BY <1>1, <1>2 DEF WebInv, AskingInv, Resources, IsFirst
<1>5. /\ rest \in Seq(WebCalls) /\ DOMAIN rest = 1 .. Len(queue) - 1
      /\ DOMAIN queue = 1 .. Len(queue) /\ Len(queue) \in Nat \ {0} /\ queue[1] = c
      /\ \A n \in DOMAIN rest : rest[n] = queue[n + 1]
  BY <1>3, <1>4
<1>6. /\ asking' \in [Resources -> Seq(WebCalls)] /\ asking'[mine] = rest
      /\ \A r \in Resources : r # mine => asking'[r] = asking[r]
  BY <1>1, <1>2, <1>3, <1>4, <1>5 DEF WebInv, AskingInv
<1>7. /\ IsWaiting(c) /\ c \in Cacheable /\ c \notin ToSet(recorded)
      /\ \A n \in DOMAIN queue : queue[n] = c => n = 1
  BY <1>2, <1>4, <1>5 DEF WebInv, AskingInv
<1>8. c \in Unbatched
  <2>1. c \in ToSet(asking[mine]) BY <1>2, <1>5 DEF ToSet
  <2> QED BY <1>4, <2>1 DEF Unbatched
<1>9. \A e \in batches : c \notin BatchCalls(e) BY <1>8 DEF WebInv, BatchesInv
<1>10. ASSUME NEW r \in Resources, NEW n \in DOMAIN asking'[r], NEW d, d = asking'[r][n]
       PROVE  /\ IsWaiting(d) /\ d # c /\ d \in Cacheable /\ Resource[d] = r
              /\ \A m \in DOMAIN asking'[r] : asking'[r][m] = d => m = n
              /\ d \notin ToSet(recorded) /\ d \in ToSet(asking[r])
  <2>1. CASE r # mine
    <3>1. asking'[r] = asking[r] BY <1>6, <2>1
    <3>2. IsWaiting(d) /\ d \in Cacheable /\ Resource[d] = r /\ d \notin ToSet(recorded)
      BY <1>10, <3>1 DEF WebInv, AskingInv
    <3>3. \A m \in DOMAIN asking'[r] : asking'[r][m] = d => m = n
      BY <1>10, <3>1 DEF WebInv, AskingInv
    <3> QED BY <1>1, <1>10, <2>1, <3>1, <3>2, <3>3 DEF ToSet
  <2>2. CASE r = mine
    <3>1. asking'[r] = rest BY <1>6, <2>2
    <3>2. n + 1 \in DOMAIN queue /\ d = queue[n + 1] /\ n + 1 # 1 BY <1>5, <1>10, <3>1
    <3>3. IsWaiting(d) /\ d \in Cacheable /\ Resource[d] = r /\ d \notin ToSet(recorded)
      BY <1>2, <1>4, <2>2, <3>2 DEF WebInv, AskingInv
    <3>4. ASSUME NEW m \in DOMAIN rest, rest[m] = d PROVE m = n
      <4>1. m + 1 \in DOMAIN queue /\ queue[m + 1] = d BY <1>5, <3>4
      <4>2. m + 1 = n + 1 BY <1>2, <1>4, <3>2, <4>1 DEF WebInv, AskingInv
      <4> QED BY <1>5, <1>10, <3>1, <4>2
    <3>5. d \in ToSet(asking[r]) BY <1>2, <2>2, <3>2 DEF ToSet
    <3> QED BY <1>7, <3>1, <3>2, <3>3, <3>4, <3>5
  <2> QED BY <2>1, <2>2
<1>11. Unbatched' \subseteq Unbatched \ {c}
  <2>1. ASSUME NEW r \in Resources PROVE ToSet(asking'[r]) \subseteq ToSet(asking[r]) \ {c}
    BY <1>10 DEF ToSet
  <2>2. UNION {ToSet(asking'[r]) : r \in Resources}
           \subseteq (UNION {ToSet(asking[r]) : r \in Resources}) \ {c}
    BY <2>1
  <2> QED BY <1>7, <2>2 DEF Unbatched
<1>12. RecordedInv BY DEF WebInv
<1> QED BY <1>6, <1>7, <1>9, <1>10, <1>11, <1>12 DEF IsWaiting

\* The first call in a queue is answered from the cache, or sent as a post of its own.
LEMMA AskStep ==
    ASSUME WebInv, NEW c \in WebCalls, Ask(c)
    PROVE  WebInv'
<1>1. /\ IsFirst(c) /\ asking' = [asking EXCEPT ![Resource[c]] = Tail(asking[Resource[c]])]
      /\ UNCHANGED <<recorded, resources, server, inflight, maxInflight>>
  BY DEF Ask, serverVars
<1>2. /\ IsWaiting(c) /\ c \in Cacheable
      /\ \A e \in batches : c \notin BatchCalls(e)
      /\ Unbatched' \subseteq Unbatched \ {c}
      /\ RecordedInv /\ c \notin ToSet(recorded)
      /\ asking' \in [Resources -> Seq(WebCalls)]
      /\ \A r \in Resources : \A n \in DOMAIN asking'[r] : \A d :
            d = asking'[r][n] =>
               /\ d \in WebCalls /\ caller[d].at = "waiting" /\ d # c
               /\ d \in Cacheable /\ Resource[d] = r
               /\ \A m \in DOMAIN asking'[r] : asking'[r][m] = d => m = n
               /\ d \notin ToSet(recorded)
  BY <1>1, FirstAsks
<1>3. ASSUME NEW r \in Resources, NEW n \in DOMAIN asking'[r], NEW d, d = asking'[r][n]
      PROVE  /\ d \in WebCalls /\ caller[d].at = "waiting" /\ d # c
             /\ d \in Cacheable /\ Resource[d] = r
             /\ \A m \in DOMAIN asking'[r] : asking'[r][m] = d => m = n
             /\ d \notin ToSet(recorded)
  BY <1>2, <1>3
<1>4. PICK mine : mine = Resource[c] OBVIOUS
<1>5. mine \in Resources BY <1>4 DEF Resources
<1>6. CASE /\ resources[Resource[c]] # NoReply
           /\ caller' = [caller EXCEPT ![c] =
                            [at |-> "answered", auth |-> caller[c].auth,
                             reply |-> resources[Resource[c]]]]
           /\ batches' = batches
  <2>1. PICK reply : reply = resources[mine] OBVIOUS
  <2>2. PICK auth : auth = caller[c].auth OBVIOUS
  <2>3. PICK done : done = [at |-> "answered", auth |-> auth, reply |-> reply] OBVIOUS
  <2>4. done.at = "answered" /\ done.reply = reply BY <2>3
  <2>5. /\ DOMAIN caller' = WebCalls /\ caller'[c] = done
        /\ \A d \in WebCalls : d # c => caller'[d] = caller[d]
    BY <1>4, <1>6, <2>1, <2>2, <2>3 DEF WebInv, CallersInv
  <2>6. /\ reply.kind = "ok" /\ reply.by \in WebCalls /\ Resource[reply.by] = mine
        /\ caller[reply.by].at = "answered"
    BY <1>4, <1>5, <1>6, <2>1 DEF WebInv, ResourcesInv
  <2>7. reply.by # c BY <1>2, <2>6 DEF IsWaiting
  <2>8. ResultIsOwn(c)' BY <1>2, <1>4, <2>4, <2>5, <2>6, <2>7 DEF ResultIsOwn
  <2>9. CallersInv'
    <3>1. \A d \in WebCalls : d # c => (ResultIsOwn(d) => ResultIsOwn(d)')
      BY <2>5 DEF ResultIsOwn
    <3>2. ASSUME NEW d \in WebCalls
          PROVE  \/ caller'[d] = NotMade
                 \/ caller'[d].at = "waiting"
                 \/ /\ caller'[d].at = "answered" /\ ResultIsOwn(d)'
                    /\ caller'[d].reply.kind # "quiet"
      <4>1. CASE d = c BY <2>4, <2>5, <2>6, <2>8, <4>1
      <4>2. CASE d # c BY <2>5, <3>1, <4>2 DEF WebInv, CallersInv
      <4> QED BY <4>1, <4>2
    <3> QED BY <2>5, <3>2 DEF CallersInv
  <2>10. ResourcesInv'
    <3>1. \A d \in WebCalls : caller[d].at = "answered" => caller'[d].at = "answered"
      BY <2>4, <2>5
    <3> QED BY <1>1, <3>1 DEF WebInv, ResourcesInv
  <2>11. \A d \in WebCalls : IsWaiting(d) /\ d # c => caller'[d].at = "waiting"
    BY <2>5 DEF IsWaiting
  <2>12. RecordedInv' BY <1>1, <1>2, <2>11 DEF RecordedInv, IsWaiting, ToSet
  <2>13. AskingInv'
    <3>1. ASSUME NEW r \in Resources, NEW n \in DOMAIN asking'[r], NEW d, d = asking'[r][n]
          PROVE  /\ d \in WebCalls /\ caller'[d].at = "waiting" /\ d \in Cacheable
                 /\ Resource[d] = r /\ d \notin ToSet(recorded)
                 /\ \A m \in DOMAIN asking'[r] : asking'[r][m] = d => m = n
      BY <1>3, <2>5, <3>1
    <3> QED BY <1>1, <1>2, <3>1 DEF AskingInv, IsWaiting
  <2>14. BatchesInv(batches)'
    <3>1. \A e \in batches : \A d \in BatchCalls(e) : IsWaiting(d)
      BY BatchedWait DEF WebInv, BatchesInv
    <3>2. \A e \in batches : \A d \in BatchCalls(e) : caller'[d] = caller[d]
      BY <1>2, <2>5, <3>1 DEF IsWaiting
    <3>3. \A e \in batches : BatchCalls(e) \cap Unbatched' = {}
      BY <1>2 DEF WebInv, BatchesInv
    <3> QED BY <1>6, <3>2, <3>3, BatchesKept
  <2>15. CountInv' BY <1>1, <1>6, CountStays DEF WebInv
  <2> QED BY <2>9, <2>10, <2>12, <2>13, <2>14, <2>15 DEF WebInv
<1>7. CASE /\ caller' = caller
           /\ batches' = batches \cup {[cached |-> <<>>, posts |-> {PostOf(<<c>>, TRUE)}]}
  <2>1. PICK p : p = PostOf(<<c>>, TRUE) OBVIOUS
  <2>2. PICK own : own = <<c>> OBVIOUS
  <2>3. PICK auth : auth = caller[c].auth OBVIOUS
  <2>4. PICK direct \in BOOLEAN : direct = TRUE OBVIOUS
  <2>5. PICK replies : replies = [n \in DOMAIN own |-> NoReply] OBVIOUS
  <2>6. DOMAIN replies = DOMAIN own /\ \A n \in DOMAIN own : replies[n] = NoReply BY <2>5
  <2>7. DOMAIN own = {1} /\ own[1] = c BY <2>2
  <2>8. DOMAIN own \in (SUBSET Nat) \ {{}} /\ IsFiniteSet(DOMAIN own)
    <3>1. IsFiniteSet({1}) BY FS_Singleton
    <3>2. {1} \in (SUBSET Nat) \ {{}} OBVIOUS
    <3> QED BY <2>7, <3>1, <3>2
  <2>9. \A n \in DOMAIN own : /\ own[n] \in WebCalls /\ caller'[own[n]].at = "waiting"
                              /\ caller'[own[n]].auth = auth
    BY <1>2, <1>7, <2>3, <2>7 DEF IsWaiting
  <2>10. p = [calls |-> own, direct |-> direct, auth |-> auth, at |-> "sent",
              counted |-> 0, replies |-> replies]
    <3>1. Min(DOMAIN own) \in DOMAIN own BY <2>8, FirstPlace
    <3>2. caller'[own[Min(DOMAIN own)]].auth = auth BY <2>9, <3>1
    <3> QED BY <2>1, <2>2, <2>4, <2>5, <3>2 DEF PostOf
  <2>11. /\ PostInv(p)' /\ p.at = "sent"
         /\ PostCalls(p) = {own[n] : n \in DOMAIN own}
    BY <2>6, <2>8, <2>9, <2>10, NewPost
  <2>12. PostCalls(p) = {c} BY <2>7, <2>11
  <2>13. PICK b : b = [cached |-> <<>>, posts |-> {p}] OBVIOUS
  <2>14. /\ b.posts = {p} /\ DOMAIN b.cached = {}
         /\ b \in [cached : {b.cached}, posts : {b.posts}]
    BY <2>13
  <2>15. BatchInv(b)' BY <2>11, <2>14 DEF BatchInv
  <2>16. BatchCalls(b) = {c} BY <2>12, <2>14 DEF BatchCalls
  <2>17. PICK bs : bs = batches \cup {b} OBVIOUS
  <2>18. batches' = bs BY <1>7, <2>1, <2>13, <2>17
  <2>19. \A e \in batches : BatchInv(e)' BY <1>7, BatchWaits DEF WebInv, BatchesInv
  <2>20. \A e \in bs : BatchInv(e)' /\ BatchCalls(e) \cap Unbatched' = {}
    BY <1>2, <2>15, <2>16, <2>17, <2>19 DEF WebInv, BatchesInv
  <2>21. \A e, d \in bs : e # d => BatchCalls(e) \cap BatchCalls(d) = {}
    BY <1>2, <2>16, <2>17 DEF WebInv, BatchesInv
  <2>22. BatchesInv(bs)' BY <2>20, <2>21 DEF BatchesInv
  <2>23. BatchesInv(batches)' BY <2>18, <2>22 DEF BatchesInv
  <2>24. Handled(batches') = Handled(batches)
    BY <2>11, <2>14, <2>17, <2>18 DEF Handled
  <2>25. CallersInv' BY <1>7 DEF WebInv, CallersInv, ResultIsOwn
  <2>26. ResourcesInv' BY <1>1, <1>7 DEF WebInv, ResourcesInv
  <2>27. RecordedInv' BY <1>1, <1>7 DEF WebInv, RecordedInv, IsWaiting
  <2>28. AskingInv' BY <1>1, <1>2, <1>3, <1>7 DEF AskingInv, IsWaiting
  <2>29. CountInv' BY <1>1, <2>24, CountStays DEF WebInv
  <2> QED BY <2>23, <2>25, <2>26, <2>27, <2>28, <2>29 DEF WebInv
<1> QED BY <1>6, <1>7 DEF Ask

\* What a call gets back from its batch is its own.
LEMMA RepliesAreOwn ==
    ASSUME WebInv, NEW b \in batches, NEW replies, replies = RepliesTo(b),
           NEW c \in BatchCalls(b)
    PROVE  /\ replies[c].kind # "quiet"
           /\ c \in DOMAIN b.cached => CachedInv(replies[c], c)
           /\ c \notin DOMAIN b.cached /\ replies[c].kind = "ok" =>
                 replies[c].by = c /\ replies[c].auth = caller[c].auth
<1>1. BatchInv(b) BY DEF WebInv, BatchesInv
<1>2. CASE c \in DOMAIN b.cached
  <2>1. replies[c] = b.cached[c] BY <1>2 DEF RepliesTo
  <2>2. CachedInv(b.cached[c], c) BY <1>1, <1>2 DEF BatchInv
  <2> QED BY <1>2, <2>1, <2>2 DEF CachedInv
<1>3. CASE c \notin DOMAIN b.cached
  <2> DEFINE p == CHOOSE p \in b.posts : c \in PostCalls(p)
             n == CHOOSE n \in DOMAIN p.calls : p.calls[n] = c
  <2>1. \E q \in b.posts : c \in PostCalls(q) BY <1>3 DEF BatchCalls
  <2>2. p \in b.posts /\ c \in PostCalls(p) BY <2>1
  <2>3. PostInv(p) BY <1>1, <2>2 DEF BatchInv
  <2>4. replies[c] = p.replies[n] BY <1>3 DEF RepliesTo
  <2> HIDE DEF p
  <2>5. \E m \in DOMAIN p.calls : p.calls[m] = c BY <2>2 DEF PostCalls
  <2>6. n \in DOMAIN p.calls /\ p.calls[n] = c BY <2>5
  <2> HIDE DEF n
  <2> QED BY <1>3, <2>3, <2>4, <2>6 DEF PostInv
<1> QED BY <1>2, <1>3

\* When all posts of a batch are answered, each of its calls has the reply at its place.
LEMMA CallsBackStep ==
    ASSUME WebInv, NEW b \in batches, CallsBack(b)
    PROVE  WebInv'
<1>1. PICK replies : replies = RepliesTo(b) OBVIOUS
<1>2. PICK mine : mine = BatchCalls(b) OBVIOUS
<1> DEFINE found(r) == {c \in mine \ DOMAIN b.cached :
                           c \in Cacheable /\ Resource[c] = r /\ replies[c].kind = "ok"}
           done(c) == [at |-> "answered", auth |-> caller[c].auth, reply |-> replies[c]]
<1>3. /\ \A p \in b.posts : p.at = "answered"
      /\ batches' = batches \ {b}
      /\ caller' = [c \in WebCalls |-> IF c \notin mine THEN caller[c] ELSE done(c)]
      /\ resources' = [r \in DOMAIN resources |->
                          IF found(r) = {} THEN resources[r]
                          ELSE replies[CHOOSE c \in found(r) : TRUE]]
      /\ UNCHANGED <<recorded, asking, server, inflight, maxInflight>>
  BY <1>1, <1>2 DEF CallsBack, serverVars
<1>4. \A c \in mine : /\ IsWaiting(c) /\ done(c).at = "answered" /\ done(c).reply = replies[c]
                      /\ done(c).auth = caller[c].auth
  BY <1>2, BatchedWait DEF WebInv, BatchesInv
<1>5. \A c \in mine :
         /\ replies[c].kind # "quiet"
         /\ c \in DOMAIN b.cached => CachedInv(replies[c], c)
         /\ c \notin DOMAIN b.cached /\ replies[c].kind = "ok" =>
               replies[c].by = c /\ replies[c].auth = caller[c].auth
  BY <1>1, <1>2, RepliesAreOwn
<1> HIDE DEF done
<1>6. /\ DOMAIN caller' = WebCalls
      /\ \A c \in WebCalls : caller'[c] = IF c \notin mine THEN caller[c] ELSE done(c)
  BY <1>3
<1>7. \A c \in WebCalls : c \notin mine => caller'[c] = caller[c] BY <1>6
<1>8. \A c \in mine : /\ c \in WebCalls /\ caller'[c].at = "answered"
                      /\ caller'[c].reply = replies[c] /\ caller'[c].auth = caller[c].auth
  BY <1>4, <1>6 DEF IsWaiting
<1>9. CallersInv'
  <2>1. \A c \in WebCalls : c \notin mine => (ResultIsOwn(c) => ResultIsOwn(c)')
    BY <1>7 DEF ResultIsOwn
  <2>2. \A c \in mine : ResultIsOwn(c)' BY <1>5, <1>8 DEF ResultIsOwn, CachedInv
  <2>3. ASSUME NEW c \in WebCalls
        PROVE  \/ caller'[c] = NotMade
               \/ caller'[c].at = "waiting"
               \/ /\ caller'[c].at = "answered" /\ ResultIsOwn(c)'
                  /\ caller'[c].reply.kind # "quiet"
    <3>1. CASE c \in mine BY <1>5, <1>8, <2>2, <3>1
    <3>2. CASE c \notin mine BY <1>7, <2>1, <3>2 DEF WebInv, CallersInv
    <3> QED BY <3>1, <3>2
  <2> QED BY <1>6, <2>3 DEF CallersInv
<1>10. \A c \in WebCalls : caller[c].at = "answered" => caller'[c].at = "answered"
  BY <1>7, <1>8
<1>11. ResourcesInv'
  <2>1. DOMAIN resources' = Resources BY <1>3 DEF WebInv, ResourcesInv
  <2>2. ASSUME NEW r \in Resources, resources'[r] # NoReply
        PROVE  /\ resources'[r].kind = "ok" /\ resources'[r].by \in WebCalls
               /\ Resource[resources'[r].by] = r /\ caller'[resources'[r].by].at = "answered"
    <3>1. CASE found(r) = {}
      <4>1. resources'[r] = resources[r] BY <1>3, <2>1, <3>1 DEF WebInv, ResourcesInv
      <4> QED BY <1>10, <2>2, <4>1 DEF WebInv, ResourcesInv
    <3>2. CASE found(r) # {}
      <4>1. PICK c : c = CHOOSE x \in found(r) : TRUE OBVIOUS
      <4>2. c \in found(r) BY <3>2, <4>1
      <4>3. resources'[r] = replies[c] BY <1>3, <2>1, <3>2, <4>1 DEF WebInv, ResourcesInv
      <4>4. c \in mine /\ replies[c].kind = "ok" /\ Resource[c] = r /\ c \notin DOMAIN b.cached
        BY <4>2
      <4> QED BY <1>5, <1>8, <4>3, <4>4
    <3> QED BY <3>1, <3>2
  <2> QED BY <2>1, <2>2 DEF ResourcesInv
<1>12. Unbatched' = Unbatched BY <1>3 DEF Unbatched
<1>13. \A c \in Unbatched : caller'[c] = caller[c]
  <2>1. \A c \in Unbatched : c \in WebCalls
    BY DEF Unbatched, WebInv, RecordedInv, AskingInv, ToSet, IsWaiting
  <2>2. \A c \in Unbatched : c \notin mine BY <1>2 DEF WebInv, BatchesInv
  <2> QED BY <1>7, <2>1, <2>2
<1>14. RecordedInv'
  <2>1. \A n \in DOMAIN recorded : recorded[n] \in Unbatched BY DEF Unbatched, ToSet
  <2> QED BY <1>3, <1>13, <2>1 DEF WebInv, RecordedInv, IsWaiting
<1>15. AskingInv'
  <2>1. ASSUME NEW r \in Resources, NEW n \in DOMAIN asking[r]
        PROVE  caller'[asking[r][n]] = caller[asking[r][n]]
    <3>1. asking[r][n] \in ToSet(asking[r]) BY DEF ToSet
    <3>2. asking[r][n] \in Unbatched BY <3>1 DEF Unbatched
    <3> QED BY <1>13, <3>2
  <2>2. ToSet(recorded)' = ToSet(recorded) BY <1>3 DEF ToSet
  <2>3. asking' = asking BY <1>3
  <2>4. AskingInv BY DEF WebInv
  <2>5. ASSUME NEW r \in Resources, NEW n \in DOMAIN asking[r]
        PROVE  caller'[asking[r][n]].at = "waiting"
    BY <2>1, <2>4 DEF AskingInv, IsWaiting
  <2> QED BY <2>2, <2>3, <2>4, <2>5 DEF AskingInv, IsWaiting
<1>16. BatchesInv(batches)'
  <2>1. \A e \in batches' : \A c \in BatchCalls(e) : IsWaiting(c) /\ c \notin mine
    BY <1>2, <1>3, BatchedWait DEF WebInv, BatchesInv
  <2>2. \A e \in batches' : \A c \in BatchCalls(e) : caller'[c] = caller[c]
    BY <1>7, <2>1 DEF IsWaiting
  <2>3. \A e \in batches' : BatchCalls(e) \cap Unbatched' = {}
    BY <1>3, <1>12 DEF WebInv, BatchesInv
  <2> QED BY <1>3, <2>2, <2>3, BatchesKept
<1>17. Handled(batches') = Handled(batches) BY <1>3 DEF Handled
<1>18. CountInv' BY <1>3, <1>17, CountStays DEF WebInv
<1> QED BY <1>9, <1>11, <1>14, <1>15, <1>16, <1>18 DEF WebInv

-----------------------------------------------------------------------------
(* The server. *)

\* The part of the invariant that the server changes.
LEMMA ServerStep ==
    ASSUME WebInv, UNCHANGED <<caller, recorded, asking, resources>>,
           BatchesInv(batches'), CountInv'
    PROVE  WebInv'
<1>1. PICK bs : bs = batches' OBVIOUS
<1>2. BatchesInv(bs)' BY <1>1, BatchesWait
<1>3. BatchesInv(batches)' BY <1>1, <1>2 DEF BatchesInv
<1> QED BY <1>3, CallersStay DEF WebInv

\* A post that is handled counts, and none else has its calls.
LEMMA HandledApart ==
    ASSUME BatchesInv(batches), NEW b \in batches, NEW p \in b.posts
    PROVE  \A q \in Handled(batches) \ {p} : q.calls # p.calls
<1>1. p \in UNION {e.posts : e \in batches} OBVIOUS
<1>2. \A q \in Handled(batches) : q \in UNION {e.posts : e \in batches} BY DEF Handled
<1> QED BY <1>1, <1>2, PostsDiffer

\* A post that is accepted counts itself, and each of its requests that is.
LEMMA AcceptedPost ==
    ASSUME NEW p, PostInv(p), inflight \in Nat, maxInflight \in Nat, ~IsFull,
           NEW q, q = Accepted(p)
    PROVE  PostInv(q) /\ q.calls = p.calls /\ q.at = "handling" /\ q.counted \in Nat \ {0}
<1>1. Admitted(p) \in Nat
  <2>1. Cardinality(DOMAIN p.calls) \in Nat BY FS_CardinalityType DEF PostInv
  <2>2. maxInflight - inflight - 1 \in Nat BY DEF IsFull
  <2>3. Admitted(p) \in {Cardinality(DOMAIN p.calls), maxInflight - inflight - 1}
    BY <2>1, <2>2, SmallerOne DEF Admitted
  <2> QED BY <2>1, <2>2, <2>3
<1>2. PICK admitted : admitted = Admitted(p) OBVIOUS
<1>3. CASE p.direct
  <2> DEFINE counted == 1
  <2>1. q = [p EXCEPT !.at = "handling", !.counted = counted] /\ counted \in Nat \ {0}
    BY <1>3 DEF Accepted
  <2> HIDE DEF counted
  <2>2. /\ q.calls = p.calls /\ q.direct = p.direct /\ q.auth = p.auth /\ q.at = "handling"
        /\ q.counted = counted /\ q.replies = p.replies
        /\ q \in [calls : {q.calls}, direct : BOOLEAN, auth : {q.auth},
                  at : {"sent", "handling", "answered"}, counted : Nat, replies : {q.replies}]
    BY <2>1 DEF PostInv
  <2>3. PostInv(q) BY <2>1, <2>2 DEF PostInv
  <2> QED BY <2>1, <2>2, <2>3
<1>4. CASE ~p.direct
  <2>1. PICK replies : replies = [n \in DOMAIN p.calls |->
                          IF IsAdmitted(p, n) THEN NoReply ELSE Reply("busy", "server", p.auth)]
    OBVIOUS
  <2>2. /\ DOMAIN replies = DOMAIN p.calls
        /\ \A n \in DOMAIN p.calls : replies[n].kind \in {"none", "busy"}
    BY <2>1 DEF NoReply, Reply
  <2> DEFINE counted == 1 + admitted
  <2>3. /\ q = [p EXCEPT !.at = "handling", !.counted = counted, !.replies = replies]
        /\ counted \in Nat \ {0}
    BY <1>1, <1>2, <1>4, <2>1 DEF Accepted
  <2> HIDE DEF counted
  <2>4. /\ q.calls = p.calls /\ q.direct = p.direct /\ q.auth = p.auth /\ q.at = "handling"
        /\ q.counted = counted /\ q.replies = replies
        /\ q \in [calls : {q.calls}, direct : BOOLEAN, auth : {q.auth},
                  at : {"sent", "handling", "answered"}, counted : Nat, replies : {q.replies}]
    BY <2>3 DEF PostInv
  <2>5. PostInv(q) BY <2>2, <2>3, <2>4 DEF PostInv
  <2> QED BY <2>3, <2>4, <2>5
<1> QED BY <1>3, <1>4

\* A post is counted and handled, or refused as a whole.
LEMMA ReceiveStep ==
    ASSUME WebInv, NEW b \in batches, NEW p \in b.posts, Receive(b, p)
    PROVE  WebInv'
<1>1. /\ p.at = "sent"
      /\ UNCHANGED <<caller, recorded, asking, resources, server, maxInflight>>
  BY DEF Receive
<1>2. BatchesInv(batches) /\ PostInv(p) /\ CountInv BY DEF WebInv, BatchesInv, BatchInv
<1>3. p \notin Handled(batches) BY <1>1 DEF Handled
<1>4. CASE /\ Becomes(b, p, AllAre(p, Reply(Refusal(p), "server", p.auth)))
           /\ UNCHANGED inflight
  <2>1. PICK reply : reply = Reply(Refusal(p), "server", p.auth) OBVIOUS
  <2>2. reply.kind \notin {"ok", "quiet"} BY <2>1 DEF Reply, Refusal
  <2>3. PICK q : q = AllAre(p, reply) OBVIOUS
  <2>4. PostInv(q) /\ q.calls = p.calls /\ q.at = "answered"
    BY <1>2, <2>2, <2>3, AnsweredAtOnce
  <2>5. batches' = With(b, p, q) BY <1>4, <2>1, <2>3 DEF Becomes
  <2>6. BatchesInv(batches') /\ Handled(batches') = Handled(batches) \ {p}
    BY <1>2, <2>4, <2>5, PostMoves
  <2>7. CountInv' BY <1>1, <1>2, <1>3, <1>4, <2>6, CountStays
  <2> QED BY <1>1, <2>6, <2>7, ServerStep
<1>5. CASE /\ server # "exited" /\ ~IsFull
           /\ Becomes(b, p, Accepted(p))
           /\ inflight' = inflight + Accepted(p).counted
  <2>1. PICK q : q = Accepted(p) OBVIOUS
  <2>2. PostInv(q) /\ q.calls = p.calls /\ q.at = "handling" /\ q.counted \in Nat \ {0}
    BY <1>2, <1>5, <2>1, AcceptedPost DEF CountInv
  <2>3. batches' = With(b, p, q) BY <1>5, <2>1 DEF Becomes
  <2>4. BatchesInv(batches') /\ Handled(batches') = Handled(batches) \cup {q}
    BY <1>2, <1>3, <2>2, <2>3, PostMoves
  <2>5. \A r \in Handled(batches) : r.calls # q.calls
    BY <1>2, <1>3, <2>2, HandledApart
  <2>6. /\ IsFiniteSet(Counts(batches'))
        /\ Cardinality(Counts(batches')) = Cardinality(Counts(batches)) + q.counted
    BY <1>2, <2>2, <2>4, <2>5, CountsMore DEF CountInv
  <2>7. CountInv' BY <1>1, <1>2, <1>5, <2>1, <2>2, <2>6 DEF CountInv
  <2> QED BY <1>1, <2>4, <2>7, ServerStep
<1> QED BY <1>4, <1>5 DEF Receive

\* The route answers one call of a post that the server handles.
LEMMA HandleStep ==
    ASSUME WebInv, NEW b \in batches, NEW p \in b.posts, NEW n \in DOMAIN p.calls,
           Handle(b, p, n)
    PROVE  WebInv'
<1>1. /\ p.at = "handling"
      /\ UNCHANGED <<caller, recorded, asking, resources, server, inflight, maxInflight>>
  BY DEF Handle, serverVars
<1>2. BatchesInv(batches) /\ PostInv(p) /\ CountInv BY DEF WebInv, BatchesInv, BatchInv
<1>3. PICK kind \in RouteAnswers :
         Becomes(b, p, [p EXCEPT !.replies[n] = Reply(kind, p.calls[n], p.auth)])
  BY DEF Handle
<1>4. PICK reply : reply = Reply(kind, p.calls[n], p.auth) OBVIOUS
<1>5. reply.kind \in {"ok", "failed"} /\ reply.by = p.calls[n] /\ reply.auth = p.auth
  BY <1>4 DEF Reply, RouteAnswers
<1>6. PICK replies : replies = [p.replies EXCEPT ![n] = reply] OBVIOUS
<1>7. PICK q : q = [p EXCEPT !.replies = replies] OBVIOUS
<1>8. batches' = With(b, p, q) BY <1>3, <1>4, <1>6, <1>7 DEF Becomes
<1>9. /\ DOMAIN replies = DOMAIN p.calls
      /\ \A m \in DOMAIN p.calls : replies[m] = IF m = n THEN reply ELSE p.replies[m]
  BY <1>2, <1>6 DEF PostInv
<1>10. /\ q.calls = p.calls /\ q.direct = p.direct /\ q.auth = p.auth /\ q.at = "handling"
       /\ q.counted = p.counted /\ q.replies = replies
       /\ q \in [calls : {q.calls}, direct : BOOLEAN, auth : {q.auth},
                 at : {"sent", "handling", "answered"}, counted : Nat, replies : {q.replies}]
  BY <1>1, <1>2, <1>7 DEF PostInv
<1>11. PostInv(q)
  <2>1. \A m \in DOMAIN p.calls :
           /\ replies[m].kind # "quiet"
           /\ replies[m].kind = "ok" =>
                 replies[m].by = p.calls[m] /\ replies[m].auth = p.auth
    BY <1>2, <1>5, <1>9 DEF PostInv
  <2> QED BY <1>1, <1>2, <1>9, <1>10, <2>1 DEF PostInv
<1>12. BatchesInv(batches') /\ Handled(batches') = (Handled(batches) \ {p}) \cup {q}
  BY <1>2, <1>8, <1>10, <1>11, PostMoves
<1>13. p \in Handled(batches) BY <1>1 DEF Handled
<1>14. CountsOf(q) = CountsOf(p) BY <1>10 DEF CountsOf
<1>15. Counts(batches') = Counts(batches) BY <1>12, <1>13, <1>14 DEF Counts
<1>16. server # "exited" BY <1>2, <1>13 DEF CountInv
<1>17. CountInv' BY <1>1, <1>2, <1>15, <1>16 DEF CountInv
<1> QED BY <1>1, <1>12, <1>17, ServerStep

\* A post that ends is no longer counted; a server that is stopped exits when
\* nothing is.
LEMMA EndedStep ==
    ASSUME WebInv, UNCHANGED <<caller, recorded, asking, resources, maxInflight>>,
           NEW b \in batches, NEW p \in b.posts, p.at = "handling",
           NEW q, PostInv(q), q.calls = p.calls, q.at = "answered", Ended(b, p, q)
    PROVE  WebInv'
<1>1. BatchesInv(batches) /\ PostInv(p) /\ CountInv BY DEF WebInv, BatchesInv, BatchInv
<1>2. PICK bs : bs = With(b, p, q) OBVIOUS
<1>3. BatchesInv(bs) /\ Handled(bs) = Handled(batches) \ {p} BY <1>1, <1>2, PostMoves
<1>4. p \in Handled(batches) BY DEF Handled
<1>5. p.counted \in Nat BY <1>1 DEF PostInv
<1>6. IsFiniteSet(Counts(bs))
  <2>1. Counts(bs) \subseteq Counts(batches) BY <1>3 DEF Counts
  <2> QED BY <1>1, <2>1, FS_Subset DEF CountInv
<1>7. \A r \in Handled(bs) : r.calls # p.calls BY <1>1, <1>3, HandledApart
<1>8. Cardinality(Counts(batches)) = Cardinality(Counts(bs)) + p.counted
  <2>1. Handled(batches) = Handled(bs) \cup {p} BY <1>3, <1>4
  <2> QED BY <1>5, <1>6, <1>7, <2>1, CountsMore
<1>9. Cardinality(Counts(bs)) \in Nat BY <1>6, FS_CardinalityType
<1>10. server # "exited" /\ inflight = Cardinality(Counts(batches))
  BY <1>1, <1>4 DEF CountInv
<1>11. inflight' = Cardinality(Counts(bs)) BY <1>5, <1>8, <1>9, <1>10 DEF Ended
<1>12. CASE batches' = bs /\ server' = server
  <2>1. CountInv' BY <1>1, <1>6, <1>9, <1>10, <1>11, <1>12 DEF CountInv
  <2> QED BY <1>3, <1>12, <2>1, ServerStep
<1>13. CASE inflight' = 0 /\ server' = "exited" /\ batches' = Left(bs, "quiet")
  <2>1. Counts(bs) = {} BY <1>6, <1>11, <1>13, FS_EmptySet
  <2>2. Handled(bs) = {} BY <1>3, <2>1, NothingHandled
  <2>3. BatchesInv(batches') /\ Handled(batches') = {} BY <1>3, <1>13, <2>2, LeftBatches
  <2>4. Counts(batches') = {} BY <2>3 DEF Counts
  <2>5. IsFiniteSet(Counts(batches')) BY <2>4, FS_EmptySet
  <2>6. CountInv' BY <1>1, <1>13, <2>3, <2>5 DEF CountInv
  <2> QED BY <2>3, <2>6, ServerStep
<1> QED BY <1>2, <1>12, <1>13 DEF Ended, Exit, Becomes

\* The server responds to a post when each of its calls has a reply.
LEMMA RespondStep ==
    ASSUME WebInv, NEW b \in batches, NEW p \in b.posts, Respond(b, p)
    PROVE  WebInv'
<1>1. PostInv(p) BY DEF WebInv, BatchesInv, BatchInv
<1>2. PICK q : q = [p EXCEPT !.at = "answered"] OBVIOUS
<1>3. /\ q.calls = p.calls /\ q.direct = p.direct /\ q.auth = p.auth /\ q.at = "answered"
      /\ q.counted = p.counted /\ q.replies = p.replies
      /\ q \in [calls : {q.calls}, direct : BOOLEAN, auth : {q.auth},
                at : {"sent", "handling", "answered"}, counted : Nat, replies : {q.replies}]
  BY <1>1, <1>2 DEF PostInv
<1>4. PostInv(q) BY <1>1, <1>3 DEF PostInv
<1>5. /\ p.at = "handling" /\ Ended(b, p, q)
      /\ UNCHANGED <<caller, recorded, asking, resources, maxInflight>>
  BY <1>2 DEF Respond
<1> QED BY <1>3, <1>4, <1>5, EndedStep

\* A connection that breaks fails every call of its post, and ends the requests counted
\* for it.
LEMMA ConnectionLostStep ==
    ASSUME WebInv, NEW b \in batches, NEW p \in b.posts, ConnectionLost(b, p)
    PROVE  WebInv'
<1>1. PostInv(p) BY DEF WebInv, BatchesInv, BatchInv
<1>2. PICK reply : reply = Reply("failed", "server", p.auth) OBVIOUS
<1>3. reply.kind \notin {"ok", "quiet"} BY <1>2 DEF Reply
<1>4. PICK q : q = AllAre(p, reply) OBVIOUS
<1>5. PostInv(q) /\ q.calls = p.calls /\ q.at = "answered"
  BY <1>1, <1>3, <1>4, AnsweredAtOnce
<1>6. /\ p.at = "handling" /\ Ended(b, p, q)
      /\ UNCHANGED <<caller, recorded, asking, resources, maxInflight>>
  BY <1>2, <1>4 DEF ConnectionLost
<1> QED BY <1>5, <1>6, EndedStep

\* A server exits when it handles nothing, or after its time of grace.
LEMMA ExitStep ==
    ASSUME WebInv, UNCHANGED <<caller, recorded, asking, resources, inflight, maxInflight>>,
           NEW how, Exit(batches, how), how # "ok", how # "quiet" \/ Handled(batches) = {}
    PROVE  WebInv'
<1>1. BatchesInv(batches) /\ CountInv BY DEF WebInv
<1>2. BatchesInv(batches') /\ Handled(batches') = {} BY <1>1, LeftBatches DEF Exit
<1>3. Counts(batches') = {} BY <1>2 DEF Counts
<1>4. IsFiniteSet(Counts(batches')) BY <1>3, FS_EmptySet
<1>5. CountInv' BY <1>1, <1>2, <1>4 DEF CountInv, Exit
<1> QED BY <1>2, <1>5, ServerStep

\* A server that is stopped waits for what is in flight, if anything is.
LEMMA StopServerStep ==
    ASSUME WebInv, StopServer
    PROVE  WebInv'
<1>1. /\ server = "up"
      /\ UNCHANGED <<caller, recorded, asking, resources, inflight, maxInflight>>
  BY DEF StopServer
<1>2. BatchesInv(batches) /\ CountInv BY DEF WebInv
<1>3. CASE inflight > 0
  <2>1. server' = "closing" /\ batches' = batches BY <1>3 DEF StopServer
  <2>2. CountInv' BY <1>1, <1>2, <2>1 DEF CountInv
  <2> QED BY <1>1, <1>2, <2>1, <2>2, ServerStep
<1>4. CASE ~(inflight > 0)
  <2>1. Exit(batches, "quiet") BY <1>4 DEF StopServer
  <2>2. Cardinality(Counts(batches)) = 0 BY <1>1, <1>2, <1>4 DEF CountInv
  <2>3. Counts(batches) = {} BY <1>2, <2>2, FS_EmptySet DEF CountInv
  <2>4. Handled(batches) = {} BY <1>2, <2>3, NothingHandled
  <2> QED BY <1>1, <2>1, <2>4, ExitStep
<1> QED BY <1>3, <1>4

\* After 30 seconds the server leaves what it still handles.
LEMMA GraceOverStep ==
    ASSUME WebInv, GraceOver
    PROVE  WebInv'
BY ExitStep DEF GraceOver

\* A server that starts counts nothing, and nothing is left on it.
LEMMA NextInstanceStep ==
    ASSUME WebInv, NextInstance
    PROVE  WebInv'
<1>1. /\ server = "exited" /\ server' = "up" /\ inflight' = 0
      /\ UNCHANGED <<caller, recorded, asking, resources, batches, maxInflight>>
  BY DEF NextInstance, clientVars
<1>2. BatchesInv(batches) /\ CountInv BY DEF WebInv
<1>3. Handled(batches) = {} BY <1>1, <1>2 DEF CountInv
<1>4. Counts(batches) = {} BY <1>3 DEF Counts
<1>5. Cardinality(Counts(batches)) = 0 /\ IsFiniteSet(Counts(batches))
  BY <1>4, FS_EmptySet
<1>6. CountInv' BY <1>1, <1>2, <1>5 DEF CountInv
<1> QED BY <1>1, <1>2, <1>6, ServerStep

\* Steps of the token, and steps of others.
LEMMA TokenStep ==
    ASSUME WebInv, UNCHANGED <<clientVars, serverVars>>
    PROVE  WebInv'
<1>1. UNCHANGED <<caller, recorded, asking, resources, batches, server, inflight, maxInflight>>
  BY DEF clientVars, serverVars
<1>2. BatchesInv(batches) /\ CountInv BY DEF WebInv
<1>3. CountInv' BY <1>1, <1>2, CountStays
<1> QED BY <1>1, <1>2, <1>3, ServerStep

\* What holds of the calls before any is made.
LEMMA WebInitially ==
    ASSUME WebInit
    PROVE  WebInv
<1>1. CallersInv BY DEF WebInit, CallersInv
<1>2. ResourcesInv BY DEF WebInit, ResourcesInv
<1>3. RecordedInv BY DEF WebInit, RecordedInv
<1>4. AskingInv BY DEF WebInit, AskingInv
<1>5. BatchesInv(batches) BY DEF WebInit, BatchesInv
<1>6. CountInv
  <2>1. Handled(batches) = {} BY DEF WebInit, Handled
  <2>2. Counts(batches) = {} BY <2>1 DEF Counts
  <2>3. Cardinality(Counts(batches)) = 0 /\ IsFiniteSet(Counts(batches))
    BY <2>2, FS_EmptySet
  <2> QED BY <2>3, WebCallsAssumption DEF WebInit, CountInv
<1> QED BY <1>1, <1>2, <1>3, <1>4, <1>5, <1>6 DEF WebInv

\* The invariant of the calls between services: every call waits at one place,
\* the posts of the batches have the calls of their authorization only, and the
\* server counts every request that it handles (batch/src/index.js,
\* request/src/index.js, router/src/index.js and express/src/index.js).
THEOREM WebInvariantHolds == WebSpec => []WebInv
<1>1. ASSUME WebInv, [WebNext]_webVars PROVE WebInv'
  <2>1. ASSUME NEW c \in WebCalls, MakeCall(c) \/ CallDirectly(c) \/ Ask(c) PROVE WebInv'
    BY <1>1, <2>1, MakeCallStep, CallDirectlyStep, AskStep
  <2>2. ASSUME NEW b \in batches, CallsBack(b) PROVE WebInv'
    BY <1>1, <2>2, CallsBackStep
  <2>3. ASSUME NEW b \in batches, NEW p \in b.posts,
               Receive(b, p) \/ Respond(b, p) \/ ConnectionLost(b, p)
        PROVE  WebInv'
    BY <1>1, <2>3, ReceiveStep, RespondStep, ConnectionLostStep
  <2>4. ASSUME NEW b \in batches, NEW p \in b.posts, NEW n \in DOMAIN p.calls, Handle(b, p, n)
        PROVE  WebInv'
    BY <1>1, <2>4, HandleStep
  <2>5. CASE GotToken \/ TokenExpires BY <1>1, <2>5, TokenStep DEF GotToken, TokenExpires
  <2>6. CASE BatchDelay BY <1>1, <2>6, BatchDelayStep
  <2>7. CASE StopServer \/ GraceOver \/ NextInstance
    BY <1>1, <2>7, StopServerStep, GraceOverStep, NextInstanceStep
  <2>8. CASE UNCHANGED webVars BY <1>1, <2>8, TokenStep DEF webVars
  <2> QED BY <1>1, <2>1, <2>2, <2>3, <2>4, <2>5, <2>6, <2>7, <2>8 DEF WebNext
<1> QED BY <1>1, WebInitially, PTL DEF WebSpec

\* A result is a call's own, and a server that is stopped cuts no answer short but
\* those it has waited 30 seconds for, for any calls, batch size and limit of
\* requests (AnswersAreOwn of the run).
THEOREM AnswersStayOwn == WebSpec => []AnswersAreOwn
<1>1. WebInv => AnswersAreOwn BY DEF WebInv, CallersInv, AnswersAreOwn, NotMade
<1> QED BY <1>1, WebInvariantHolds, PTL
-----------------------------------------------------------------------------
(***************************************************************************)
(* The platform: the component that runs behaves as it does alone.         *)
(***************************************************************************)
\* The component that is chosen at first keeps running, and its steps are its own.
LEMMA PartRuns ==
    ASSUME [PlatformNext]_platformVars
    PROVE  /\ part' = part
           /\ part = "meter" => [Next]_vars
           /\ part = "calls" => [GuardNext]_guardVars
           /\ part = "databases" => [DBNext]_dbVars
           /\ part = "housekeeper" => [HousekeeperNext]_housekeeperVars
           /\ part = "windows" => [WindowsNext]_windowVars
           /\ part = "plans" => [CatalogNext]_catalogVars
           /\ part = "web" => [WebNext]_webVars
BY DEF PlatformNext, platformVars

\* In every state the component that runs keeps its own inductive invariant.
THEOREM PlatformInvariantHolds == PlatformSpec => []PlatformInv
<1>1. PlatformSpec => PlatformInit /\ [][PlatformNext]_platformVars
  BY PTL DEF PlatformSpec
<1>2. PlatformInit => part \in Parts
  BY DEF PlatformInit
<1>3. PlatformSpec /\ part = "meter" => []PlatformInv
  <2> DEFINE Runs == part = "meter"
  <2>1. PlatformInit => Init BY DEF PlatformInit
  <2>2. Runs /\ [PlatformNext]_platformVars => Runs' /\ [Next]_vars
    BY PartRuns
  <2>3. Runs /\ Inv => PlatformInv BY DEF PlatformInv
  <2>4. part = "meter" <=> Runs OBVIOUS
  <2> HIDE DEF Runs
  <2> QED BY <1>1, <2>1, <2>2, <2>3, <2>4, MeterInvariantHolds, PTL DEF Spec
<1>4. PlatformSpec /\ part = "calls" => []PlatformInv
  <2> DEFINE Runs == part = "calls"
  <2>1. PlatformInit => GuardInit BY DEF PlatformInit
  <2>2. Runs /\ [PlatformNext]_platformVars => Runs' /\ [GuardNext]_guardVars
    BY PartRuns
  <2>3. Runs /\ GuardInv => PlatformInv BY DEF PlatformInv
  <2>4. part = "calls" <=> Runs OBVIOUS
  <2> HIDE DEF Runs
  <2> QED BY <1>1, <2>1, <2>2, <2>3, <2>4, GuardInvariantHolds, PTL DEF GuardSpec
<1>5. PlatformSpec /\ part = "databases" => []PlatformInv
  <2> DEFINE Runs == part = "databases"
  <2>1. PlatformInit => DBInit BY DEF PlatformInit
  <2>2. Runs /\ [PlatformNext]_platformVars => Runs' /\ [DBNext]_dbVars
    BY PartRuns
  <2>3. Runs /\ DBInv => PlatformInv BY DEF PlatformInv
  <2>4. part = "databases" <=> Runs OBVIOUS
  <2> HIDE DEF Runs
  <2> QED BY <1>1, <2>1, <2>2, <2>3, <2>4, DBInvariantHolds, PTL DEF DBSpec
<1>6. PlatformSpec /\ part = "housekeeper" => []PlatformInv
  <2> DEFINE Runs == part = "housekeeper"
  <2>1. PlatformInit => HousekeeperInit BY DEF PlatformInit
  <2>2. Runs /\ [PlatformNext]_platformVars => Runs' /\ [HousekeeperNext]_housekeeperVars
    BY PartRuns
  <2>3. Runs /\ HousekeeperInv => PlatformInv BY DEF PlatformInv
  <2>4. part = "housekeeper" <=> Runs OBVIOUS
  <2> HIDE DEF Runs
  <2> QED BY <1>1, <2>1, <2>2, <2>3, <2>4, HousekeeperInvariantHolds, PTL DEF HousekeeperSpec
<1>7. PlatformSpec /\ part = "windows" => []PlatformInv
  <2> DEFINE Runs == part = "windows"
  <2>1. PlatformInit => WindowsInit BY DEF PlatformInit
  <2>2. Runs /\ [PlatformNext]_platformVars => Runs' /\ [WindowsNext]_windowVars
    BY PartRuns
  <2>3. Runs /\ WindowsInv => PlatformInv BY DEF PlatformInv
  <2>4. part = "windows" <=> Runs OBVIOUS
  <2> HIDE DEF Runs
  <2> QED BY <1>1, <2>1, <2>2, <2>3, <2>4, WindowsInvariantHolds, PTL DEF WindowsSpec
<1>8. PlatformSpec /\ part = "plans" => []PlatformInv
  <2> DEFINE Runs == part = "plans"
  <2>1. PlatformInit => CatalogInit BY DEF PlatformInit
  <2>2. Runs /\ [PlatformNext]_platformVars => Runs' /\ [CatalogNext]_catalogVars
    BY PartRuns
  <2>3. Runs /\ CatalogInv => PlatformInv BY DEF PlatformInv
  <2>4. part = "plans" <=> Runs OBVIOUS
  <2> HIDE DEF Runs
  <2> QED BY <1>1, <2>1, <2>2, <2>3, <2>4, CatalogInvariantHolds, PTL DEF CatalogSpec
<1>9. PlatformSpec /\ part = "web" => []PlatformInv
  <2> DEFINE Runs == part = "web"
  <2>1. PlatformInit => WebInit BY DEF PlatformInit
  <2>2. Runs /\ [PlatformNext]_platformVars => Runs' /\ [WebNext]_webVars
    BY PartRuns
  <2>3. Runs /\ WebInv => PlatformInv BY DEF PlatformInv
  <2>4. part = "web" <=> Runs OBVIOUS
  <2> HIDE DEF Runs
  <2> QED BY <1>1, <2>1, <2>2, <2>3, <2>4, WebInvariantHolds, PTL DEF WebSpec
<1>10. part \in Parts => \/ part = "meter" \/ part = "calls" \/ part = "databases"
                          \/ part = "housekeeper" \/ part = "windows" \/ part = "plans"
                          \/ part = "web"
  BY DEF Parts
<1> QED BY <1>1, <1>2, <1>3, <1>4, <1>5, <1>6, <1>7, <1>8, <1>9, <1>10, PTL
=============================================================================
