----------------------------- MODULE MessageQueues -----------------------------
(***************************************************************************)
(* The queues between collector and meter as lib/utils/rabbitmq sets them  *)
(* up: the main queue, and dead letter queues whose messages return to the *)
(* main queue when their time to live is over.  A failed message is        *)
(* published with its number of failures, which selects the queue.         *)
(*                                                                         *)
(* Abstracted: RabbitMQ keeps what it was given (queues are durable and    *)
(* messages persistent) and delivers in any order.  Of a message only the  *)
(* usage it is about and its number of failures are told apart.            *)
(***************************************************************************)
EXTENDS Integers, FiniteSets

CONSTANTS
    Usages,     \* collected usage documents; each has a processed_id of its own
    Attempts    \* retryAttempts of the first and of the second dead letter queue

ASSUME AttemptsAssumption == Attempts \in [1 .. 2 -> Nat]

VARIABLES
    main,      \* how many copies of a message are in the main queue
    delayed    \* ... and in each dead letter queue

queueVars == <<main, delayed>>

\* maxUsageFails
AllowedFails == Attempts[1] + Attempts[2]

Message == [usage : Usages, retries : 0 .. AllowedFails]

QueuesTypeOK ==
    /\ main \in [Message -> Nat]
    /\ delayed \in [1 .. 2 -> [Message -> Nat]]

QueuesInit ==
    /\ main = [m \in Message |-> 0]
    /\ delayed = [q \in 1 .. 2 |-> [m \in Message |-> 0]]

\* A mutant: the attempts of a queue are exceeded by the last of them.
QueueOfLess(failures) ==
    {q \in 1 .. 2 : failures < (IF q = 1 THEN Attempts[1] ELSE AllowedFails)}

\* The queues that admit a message with this number of failures: it must not exceed
\* the attempts of a queue and of those before it.
QueuesFor(failures) ==
    {q \in 1 .. 2 : failures <= (IF q = 1 THEN Attempts[1] ELSE AllowedFails)}

\* publishToExchange: to the first queue that admits the message, and nowhere if none does.
PublishToExchange(u, failures) ==
    LET queues == QueuesFor(failures)
        first == IF 1 \in queues THEN 1 ELSE 2
    IN  delayed' = IF queues = {} THEN delayed
                   ELSE [delayed EXCEPT ![first][[usage |-> u, retries |-> failures]] = @ + 1]

\* The time to live of a delayed message is over.
Expire(q, m) ==
    /\ delayed[q][m] > 0
    /\ delayed' = [delayed EXCEPT ![q][m] = @ - 1]
    /\ main' = [main EXCEPT ![m] = @ + 1]

=============================================================================
