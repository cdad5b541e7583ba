------------------------------- MODULE WebCalls -------------------------------
(***************************************************************************)
(* How the services call each other: the calls of a client are batched     *)
(* (batch), answered from its cache or grouped and posted together         *)
(* (request), with a bearer token that is refreshed while it is used       *)
(* (oauth); the server takes a post through its middleware, and each       *)
(* request in it once more (router, express), counts what is in flight,    *)
(* refuses what is too much, and lets it finish when it is stopped.        *)
(*                                                                         *)
(* One client and one server, whose next instance follows when it exits.   *)
(***************************************************************************)
EXTENDS Integers, Sequences, FiniteSets, SequencesExt

CONSTANTS
    WebCalls,      \* the calls of the client, each made once
    Resource,      \* what a call asks for
    Cacheable,     \* the calls whose response may come from the cache
    BatchSize,     \* BATCH_SIZE
    Limits,        \* values of MAX_INFLIGHT
    LastToken,     \* bounds the tokens
    MaxStops       \* bounds the stops of the server

ASSUME WebCallsAssumption ==
    /\ DOMAIN Resource = WebCalls
    /\ BatchSize \in Nat \ {0} /\ Limits \subseteq Nat \ {0}
    /\ {LastToken, MaxStops} \subseteq Nat

VARIABLES
    token,      \* the number of the client's token, or 0
    expired,    \* the last token that has expired
    caller,     \* the state of each call
    recorded,   \* the calls of the next batch
    asking,     \* for each resource, the direct calls that wait for its lock
    batches,    \* batches under way: their calls, and the posts of their groups
    resources,  \* the client's cache of responses
    server,     \* "up", "closing" or "exited"
    inflight,   \* the server's count of requests
    maxInflight,
    stops

tokenVars == <<token, expired>>
clientVars == <<caller, recorded, asking, batches, resources>>
serverVars == <<server, inflight, maxInflight, stops>>
webVars == <<tokenVars, clientVars, serverVars>>

Resources == {Resource[c] : c \in WebCalls}

NotMade == [at |-> "new"]
Reply(kind, by, auth) == [kind |-> kind, by |-> by, auth |-> auth]
NoReply == Reply("none", "none", 0)

WebInit ==
    /\ token = 0 /\ expired = 0
    /\ caller = [c \in WebCalls |-> NotMade]
    /\ recorded = <<>> /\ asking = [r \in Resources |-> <<>>] /\ batches = {}
    /\ resources = [r \in Resources |-> NoReply]
    /\ server = "up" /\ inflight = 0 /\ maxInflight \in Limits
    /\ stops = 0

-----------------------------------------------------------------------------
(***************************************************************************)
(* The token: a timer gets the next one shortly before it expires, or some *)
(* time after that has failed; the old one is used until the next arrives, *)
(* even when it has expired.                                               *)
(***************************************************************************)
NewToken == token + 1

GotToken ==
    /\ token < LastToken
    /\ token' = NewToken
    /\ UNCHANGED <<expired, clientVars, serverVars>>

TokenExpires ==
    /\ expired < token
    /\ expired' = expired + 1
    /\ UNCHANGED <<token, clientVars, serverVars>>

-----------------------------------------------------------------------------
(***************************************************************************)
(* The client.  A batch is sent when it is full or after a delay, and      *)
(* calls back when all its groups are answered.                            *)
(***************************************************************************)
\* A mutant: one post for all calls to a host.
SamePost(cs, c) == {d \in cs : TRUE}

\* The calls of one host and one authorization are posted together.
Group(cs, c) == {d \in cs : caller'[d].auth = caller'[c].auth}

IsCached(c) == c \in Cacheable /\ resources[Resource[c]] # NoReply

\* A post has the authorization of its first call.  Its calls are in the order
\* of their places in the batch.
PostOf(calls, direct) ==
    [calls |-> calls, direct |-> direct, auth |-> caller'[calls[Min(DOMAIN calls)]].auth,
     at |-> "sent", counted |-> 0, replies |-> [n \in DOMAIN calls |-> NoReply]]

\* What flush makes of the recorded calls.
Batch(calls) ==
    LET asked == {c \in ToSet(calls) : ~IsCached(c)}
        places(c) == {n \in DOMAIN calls : calls[n] \in Group(asked, c)}
    IN  [cached |-> [c \in ToSet(calls) \ asked |-> resources[Resource[c]]],
         posts |-> {PostOf(Restrict(calls, places(c)), FALSE) : c \in asked}]

Flush(calls) == batches' = batches \cup {Batch(calls)} /\ recorded' = <<>>

\* Applications begin when they have a token.
MakeCall(c) ==
    /\ caller[c] = NotMade /\ token > 0
    /\ caller' = [caller EXCEPT ![c] = [at |-> "waiting", auth |-> token]]
    /\ LET calls == Append(recorded, c)
       IN  IF Len(calls) >= BatchSize THEN Flush(calls)
           ELSE recorded' = calls /\ UNCHANGED batches
    /\ UNCHANGED <<asking, resources, tokenVars, serverVars>>

BatchDelay ==
    /\ recorded # <<>>
    /\ caller' = caller
    /\ Flush(recorded)
    /\ UNCHANGED <<asking, resources, tokenVars, serverVars>>

\* A call outside of a batch holds the lock of its resource while it is asked
\* for, so that the next one finds it in the cache.
CallDirectly(c) ==
    /\ caller[c] = NotMade /\ token > 0 /\ c \in Cacheable
    /\ caller' = [caller EXCEPT ![c] = [at |-> "waiting", auth |-> token]]
    /\ asking' = [asking EXCEPT ![Resource[c]] = Append(@, c)]
    /\ UNCHANGED <<recorded, batches, resources, tokenVars, serverVars>>

IsLocked(r) ==
    \E b \in batches : \E p \in b.posts : p.direct /\ Resource[p.calls[1]] = r

IsFirst(c) == LET waiting == asking[Resource[c]] IN waiting # <<>> /\ Head(waiting) = c

Ask(c) ==
    /\ IsFirst(c) /\ ~IsLocked(Resource[c])
    /\ asking' = [asking EXCEPT ![Resource[c]] = Tail(@)]
    /\ \/ /\ resources[Resource[c]] # NoReply
          /\ caller' = [caller EXCEPT ![c] =
                           [at |-> "answered", auth |-> @.auth, reply |-> resources[Resource[c]]]]
          /\ UNCHANGED batches
       \/ /\ resources[Resource[c]] = NoReply
          /\ UNCHANGED caller
          /\ batches' = batches \cup {[cached |-> <<>>, posts |-> {PostOf(<<c>>, TRUE)}]}
    /\ UNCHANGED <<recorded, resources, tokenVars, serverVars>>

\* Each response goes to the call at its place in the group.
PostCalls(p) == {p.calls[n] : n \in DOMAIN p.calls}
BatchCalls(b) == DOMAIN b.cached \cup UNION {PostCalls(p) : p \in b.posts}

RepliesTo(b) ==
    LET post(c) == CHOOSE p \in b.posts : c \in PostCalls(p)
        place(c) == CHOOSE n \in DOMAIN post(c).calls : post(c).calls[n] = c
    IN  [c \in BatchCalls(b) |-> IF c \in DOMAIN b.cached THEN b.cached[c]
                              ELSE post(c).replies[place(c)]]

CallsBack(b) ==
    /\ \A p \in b.posts : p.at = "answered"
    /\ LET replies == RepliesTo(b)
           found(r) == {c \in BatchCalls(b) \ DOMAIN b.cached :
                           c \in Cacheable /\ Resource[c] = r /\ replies[c].kind = "ok"}
       IN  /\ caller' = [c \in WebCalls |-> IF c \notin BatchCalls(b) THEN caller[c]
                            ELSE [at |-> "answered", auth |-> caller[c].auth,
                                  reply |-> replies[c]]]
           /\ resources' = [r \in DOMAIN resources |-> IF found(r) = {} THEN resources[r]
                               ELSE replies[CHOOSE c \in found(r) : TRUE]]
    /\ batches' = batches \ {b}
    /\ UNCHANGED <<recorded, asking, tokenVars, serverVars>>

-----------------------------------------------------------------------------
(***************************************************************************)
(* The server.                                                             *)
(***************************************************************************)
With(b, p, q) == (batches \ {b}) \cup {[b EXCEPT !.posts = (@ \ {p}) \cup {q}]}

Becomes(b, p, q) == batches' = With(b, p, q)

AllAre(p, reply) ==
    [p EXCEPT !.at = "answered", !.replies = [n \in DOMAIN p.calls |-> reply]]

\* Each request of a batch goes through the middleware, too, one after the other.
Admitted(p) == Min({Cardinality(DOMAIN p.calls), maxInflight - inflight - 1})

IsAdmitted(p, n) == Cardinality({m \in DOMAIN p.calls : m <= n}) <= Admitted(p)

Accepted(p) ==
    IF p.direct THEN [p EXCEPT !.at = "handling", !.counted = 1]
    ELSE [p EXCEPT !.at = "handling", !.counted = 1 + Admitted(p),
                   !.replies = [n \in DOMAIN p.calls |->
                       IF IsAdmitted(p, n) THEN NoReply ELSE Reply("busy", "server", p.auth)]]

\* The token is verified first, then what is in flight is counted.
IsDenied(p) == p.auth <= expired
IsFull == inflight >= maxInflight

Refusal(p) ==
    IF server = "exited" THEN "failed" ELSE IF IsDenied(p) THEN "denied" ELSE "busy"

Receive(b, p) ==
    /\ p.at = "sent"
    /\ \/ /\ server = "exited" \/ IsDenied(p) \/ IsFull
          /\ Becomes(b, p, AllAre(p, Reply(Refusal(p), "server", p.auth)))
          /\ UNCHANGED inflight
       \/ /\ server # "exited" /\ ~IsDenied(p) /\ ~IsFull
          /\ Becomes(b, p, Accepted(p))
          /\ inflight' = inflight + Accepted(p).counted
    /\ UNCHANGED <<caller, recorded, asking, resources, tokenVars, server, stops, maxInflight>>

\* The route answers with a result, or with its error, as when the scopes of
\* the token do not authorize the call.
RouteAnswers == {"ok", "failed"}

Handle(b, p, n) ==
    /\ p.at = "handling" /\ p.replies[n] = NoReply
    /\ \E kind \in RouteAnswers :
          Becomes(b, p, [p EXCEPT !.replies[n] = Reply(kind, p.calls[n], p.auth)])
    /\ UNCHANGED <<caller, recorded, asking, resources, tokenVars, serverVars>>

\* A server that exits leaves what it has not answered: after its time of grace,
\* or when it counts nothing any more.
Left(bs, how) ==
    LET left(p) == IF p.at = "handling" THEN AllAre(p, Reply(how, "server", p.auth)) ELSE p
    IN  {[b EXCEPT !.posts = {left(p) : p \in b.posts}] : b \in bs}

Exit(bs, how) == server' = "exited" /\ batches' = Left(bs, how)

\* Listeners of the response, and of what was copied from it for each request;
\* a server that is stopped exits when the last one has ended.
Ended(b, p, q) ==
    /\ inflight' = inflight - p.counted
    /\ IF server = "closing" /\ inflight' = 0 THEN Exit(With(b, p, q), "quiet")
       ELSE Becomes(b, p, q) /\ UNCHANGED server

Respond(b, p) ==
    /\ p.at = "handling" /\ \A n \in DOMAIN p.calls : p.replies[n] # NoReply
    /\ Ended(b, p, [p EXCEPT !.at = "answered"])
    /\ UNCHANGED <<caller, recorded, asking, resources, tokenVars, maxInflight, stops>>

ConnectionLost(b, p) ==
    /\ p.at = "handling"
    /\ Ended(b, p, AllAre(p, Reply("failed", "server", p.auth)))
    /\ UNCHANGED <<caller, recorded, asking, resources, tokenVars, maxInflight, stops>>

\* SIGTERM.
StopServer ==
    /\ server = "up" /\ stops < MaxStops
    /\ stops' = stops + 1
    /\ IF inflight > 0 THEN server' = "closing" /\ UNCHANGED batches ELSE Exit(batches, "quiet")
    /\ UNCHANGED <<caller, recorded, asking, resources, inflight, maxInflight, tokenVars>>

\* 30 seconds later.
GraceOver ==
    /\ server = "closing"
    /\ Exit(batches, "grace")
    /\ UNCHANGED <<caller, recorded, asking, resources, inflight, maxInflight, stops, tokenVars>>

NextInstance ==
    /\ server = "exited"
    /\ server' = "up" /\ inflight' = 0
    /\ UNCHANGED <<clientVars, maxInflight, stops, tokenVars>>

WebNext ==
    \/ GotToken \/ TokenExpires
    \/ \E c \in WebCalls : MakeCall(c) \/ CallDirectly(c) \/ Ask(c)
    \/ BatchDelay
    \/ \E b \in batches :
          \/ CallsBack(b)
          \/ \E p \in b.posts :
                \/ Receive(b, p) \/ Respond(b, p) \/ ConnectionLost(b, p)
                \/ \E n \in DOMAIN p.calls : Handle(b, p, n)
    \/ StopServer \/ GraceOver \/ NextInstance

WebSpec == WebInit /\ [][WebNext]_webVars

-----------------------------------------------------------------------------
\* A result that a call gets was made by the server for that call and with its
\* token, or for the same resource when it is cached, in whatever batch and
\* group it was sent.
ResultIsOwn(c) ==
    caller[c].reply.kind = "ok" =>
        \/ caller[c].reply.by = c /\ caller[c].reply.auth = caller[c].auth
        \/ /\ c \in Cacheable /\ caller[c].reply.by # c
           /\ Resource[caller[c].reply.by] = Resource[c]

\* Answers are a call's own, and a server that is stopped cuts none short but
\* those it has waited 30 seconds for: its count of requests is never behind.
AnswersAreOwn ==
    \A c \in WebCalls : caller[c].at = "answered" =>
        ResultIsOwn(c) /\ caller[c].reply.kind # "quiet"

-----------------------------------------------------------------------------
(***************************************************************************)
(* Why every call gets its own answer: the inductive invariant of the      *)
(* calls between services.                                                 *)
(***************************************************************************)

IsWaiting(c) == c \in WebCalls /\ caller[c].at = "waiting"

\* A call is new, waits or has its own answer.
CallersInv ==
    /\ DOMAIN caller = WebCalls
    /\ \A c \in WebCalls :
          \/ caller[c] = NotMade
          \/ caller[c].at = "waiting"
          \/ caller[c].at = "answered" /\ ResultIsOwn(c) /\ caller[c].reply.kind # "quiet"

\* A response in the cache was made for a call that has been answered.
ResourcesInv ==
    /\ DOMAIN resources = Resources
    /\ \A r \in Resources : resources[r] # NoReply =>
          LET by == resources[r].by
          IN  /\ resources[r].kind = "ok"
              /\ by \in WebCalls /\ Resource[by] = r /\ caller[by].at = "answered"

\* The calls that are not in a batch wait at one place.
RecordedInv ==
    /\ recorded \in Seq(WebCalls)
    /\ \A n \in DOMAIN recorded : IsWaiting(recorded[n])

AskingInv ==
    /\ asking \in [Resources -> Seq(WebCalls)]
    /\ \A r \in Resources : \A n \in DOMAIN asking[r] :
          LET c == asking[r][n]
          IN  /\ IsWaiting(c) /\ c \in Cacheable /\ Resource[c] = r
              /\ \A m \in DOMAIN asking[r] : asking[r][m] = c => m = n
              /\ c \notin ToSet(recorded)

Unbatched == ToSet(recorded) \cup UNION {ToSet(asking[r]) : r \in Resources}

\* What may be answered from the cache.
CachedInv(reply, c) ==
    /\ reply.kind = "ok" /\ c \in Cacheable
    /\ reply.by \in WebCalls \ {c} /\ Resource[reply.by] = Resource[c]

\* The calls of a post wait, with its authorization; each reply is to the call at
\* its place.
PostInv(p) ==
    /\ p \in [calls : {p.calls}, direct : BOOLEAN, auth : {p.auth},
              at : {"sent", "handling", "answered"}, counted : Nat, replies : {p.replies}]
    /\ DOMAIN p.calls \in (SUBSET Nat) \ {{}} /\ IsFiniteSet(DOMAIN p.calls)
    /\ DOMAIN p.replies = DOMAIN p.calls
    /\ \A n \in DOMAIN p.calls :
          /\ IsWaiting(p.calls[n]) /\ caller[p.calls[n]].auth = p.auth
          /\ p.replies[n].kind # "quiet"
          /\ p.replies[n].kind = "ok" => p.replies[n].by = p.calls[n] /\ p.replies[n].auth = p.auth
    /\ p.at = "handling" => p.counted > 0

\* No call is in two posts.
BatchInv(b) ==
    /\ b \in [cached : {b.cached}, posts : {b.posts}]
    /\ \A c \in DOMAIN b.cached : IsWaiting(c) /\ CachedInv(b.cached[c], c)
    /\ \A p \in b.posts : PostInv(p)
    /\ \A p, q \in b.posts : p # q => PostCalls(p) \cap PostCalls(q) = {}

BatchesInv(bs) ==
    /\ \A b \in bs : BatchInv(b) /\ BatchCalls(b) \cap Unbatched = {}
    /\ \A b, d \in bs : b # d => BatchCalls(b) \cap BatchCalls(d) = {}

\* What is counted of the posts that the server handles.
CountsOf(p) == {<<p.calls, k>> : k \in 1 .. p.counted}
Handled(bs) == {p \in UNION {b.posts : b \in bs} : p.at = "handling"}
Counts(bs) == UNION {CountsOf(p) : p \in Handled(bs)}

\* The server counts what it handles.
CountInv ==
    /\ inflight \in Nat /\ maxInflight \in Nat
    /\ IsFiniteSet(Counts(batches))
    /\ IF server = "exited" THEN Handled(batches) = {}
       ELSE inflight = Cardinality(Counts(batches))

WebInv ==
    /\ CallersInv /\ ResourcesInv /\ RecordedInv /\ AskingInv
    /\ BatchesInv(batches) /\ CountInv
=============================================================================
