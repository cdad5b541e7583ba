------------------------------ MODULE DBClient ------------------------------
(***************************************************************************)
(* The database client (utils/dbclient, dbcommons and partition): a        *)
(* document lives in the partition of its key and its month, and each      *)
(* partition on one of the database servers, where every client has to     *)
(* find it, though servers are added from time to time.  A call on several *)
(* documents is split into a group for each partition, and the answers are *)
(* put together again; all documents of a range of time are read in pages. *)
(*                                                                         *)
(* A step on a server is atomic; a call that failed is answered once all   *)
(* its groups are, which no caller can tell from an earlier answer.        *)
(***************************************************************************)
EXTENDS Integers, Sequences, FiniteSets, SequencesExt, FiniteSetsExt

CONSTANTS
    Clients,
    Docs,
    PartitionIndex,  \* of the bucket of the key of a document
    DocMonth,        \* the month of the time of a document
    Requests,        \* what a client may ask for
    PageSize,        \* of the pages in which a range is read
    FirstServers,    \* how many servers there are at first
    MaxServers,
    MaxDBFaults      \* bounds failed calls, lost answers and restarts

Kinds == {"get", "scan", "insert", "upsert", "remove"}

\* A get is a single one or a batch_get, never allDocs with keys: that one pairs the rows it
\* found with the keys by their order.
Request == [kind : Kinds, bulk : BOOLEAN, docs : Seq(Docs)]

ASSUME DBClientAssumption ==
    /\ PartitionIndex \in [Docs -> Nat] /\ DocMonth \in [Docs -> Nat]
    /\ \A c \in Clients : \A request \in Requests[c] :
          request \in Request /\ (request.kind = "get" => ~request.bulk)
    /\ PageSize \in Nat \ {0}
    /\ FirstServers \in Nat \ {0} /\ MaxServers \in Nat /\ FirstServers <= MaxServers

VARIABLES
    servers,      \* how many servers there are
    collections,  \* the partitions of each server
    stored,       \* the documents of each server
    known,        \* partitionServers: the server of a partition, or 0
    op,           \* the call of each client
    acked,        \* history: documents whose put was answered with ok
    dbFaults

dbVars == <<servers, collections, stored, known, op, acked, dbFaults>>

PartitionOf(doc) == <<PartitionIndex[doc], DocMonth[doc]>>
Partitions == {PartitionOf(doc) : doc \in Docs}
AllServers == 1 .. MaxServers

Idle == [at |-> "idle"]
Unresolved == 0
ErrorDB == -1

Busy(c) == op[c] # Idle
Indices(c) == DOMAIN op[c].request.docs
DocAt(c, i) == op[c].request.docs[i]

DBInit ==
    /\ servers = FirstServers
    /\ collections = [s \in AllServers |-> {}]
    /\ stored = [s \in AllServers |-> {}]
    /\ known = [c \in Clients |-> [p \in Partitions |-> 0]]
    /\ op = [c \in Clients |-> Idle]
    /\ acked = {}
    /\ dbFaults = 0

DBFault == dbFaults < MaxDBFaults /\ dbFaults' = dbFaults + 1

-----------------------------------------------------------------------------
\* A document that is being removed is not promised to be there.
Removing(doc) ==
    \E c \in Clients : /\ Busy(c) /\ op[c].request.kind = "remove"
                       /\ \E i \in Indices(c) : DocAt(c, i) = doc

\* A call, with the documents it has to find, or those it must not promise.
NewCallDB(request) ==
    LET docs == ToSet(request.docs)
    IN  [at |-> "resolve",
         request |-> request,
         before |-> IF \/ request.kind = "get"
                       \/ request.kind = "scan" /\ ~\E doc \in docs : Removing(doc)
                    THEN acked \cap docs ELSE {},
         contested |-> IF request.kind \in {"insert", "upsert"}
                       THEN {doc \in docs : Removing(doc)} ELSE {},
         server |-> [i \in DOMAIN request.docs |-> Unresolved],
         rows |-> {},
         skip |-> 0,
         read |-> {},
         answers |-> <<>>]

\* The call of another client, when some documents begin to be removed: what
\* is removed shifts the pages of a scan.
Contested(o, gone) ==
    IF o = Idle THEN o
    ELSE IF o.request.kind = "get" THEN [o EXCEPT !.before = @ \ gone]
    ELSE IF o.request.kind = "scan" /\ gone # {} THEN [o EXCEPT !.before = {}]
    ELSE IF o.request.kind = "remove" THEN o
    ELSE [o EXCEPT !.contested = @ \cup (gone \cap ToSet(o.request.docs))]

CallDB(c, request) ==
    LET gone == IF request.kind = "remove" THEN ToSet(request.docs) ELSE {}
    IN  /\ ~Busy(c)
        /\ op' = [d \in Clients |-> IF d = c THEN NewCallDB(request)
                                   ELSE Contested(op[d], gone)]
        /\ acked' = acked \ gone
        /\ UNCHANGED <<servers, collections, stored, known, dbFaults>>

-----------------------------------------------------------------------------
(***************************************************************************)
(* The server of a partition.                                              *)
(***************************************************************************)
Holders(p) == {s \in 1 .. servers : p \in collections[s]}

AssignedServer(p) == 1 + (p[1] % servers)

\* A mutant: the servers are not searched for the partition.
AssignServer(c, p) ==
    IF servers = 1 THEN 1
    ELSE IF known[c][p] # 0 THEN known[c][p] ELSE AssignedServer(p)

GetServer(c, p) ==
    IF servers = 1 THEN 1
    ELSE IF known[c][p] # 0 THEN known[c][p]
    ELSE IF Holders(p) # {} THEN Min(Holders(p)) ELSE AssignedServer(p)

\* The documents are looked up one after the other: the order tells nothing,
\* each is as independent of the others as of the calls of other clients.
NextToResolve(c, i) ==
    /\ op[c].at = "resolve" /\ op[c].server[i] = Unresolved
    /\ \A j \in Indices(c) : j < i => op[c].server[j] # Unresolved

\* A scan looks each partition up once.
ResolvedWith(c, i) ==
    IF op[c].request.kind # "scan" THEN {i}
    ELSE {j \in Indices(c) : PartitionOf(DocAt(c, j)) = PartitionOf(DocAt(c, i))}

ResolveWith(c, i, server) ==
    LET indices == ResolvedWith(c, i)
    IN  op' = [op EXCEPT ![c] =
           [@ EXCEPT !.server = [j \in Indices(c) |-> IF j \in indices THEN server
                                                      ELSE op[c].server[j]],
                     !.at = IF \A j \in Indices(c) \ indices : op[c].server[j] # Unresolved
                            THEN "execute" ELSE op[c].at]]

Resolve(c, i) ==
    LET p == PartitionOf(DocAt(c, i))
    IN  /\ NextToResolve(c, i)
        /\ ResolveWith(c, i, GetServer(c, p))
        /\ known' = IF servers = 1 THEN known
                    ELSE [known EXCEPT ![c][p] = GetServer(c, p)]
        /\ UNCHANGED <<servers, collections, stored, acked, dbFaults>>

\* The server is known, and cannot be connected to.
ConnectFails(c, i) ==
    LET p == PartitionOf(DocAt(c, i))
    IN  /\ NextToResolve(c, i)
        /\ DBFault
        /\ ResolveWith(c, i, ErrorDB)
        /\ known' = IF servers = 1 THEN known
                    ELSE [known EXCEPT ![c][p] = GetServer(c, p)]
        /\ UNCHANGED <<servers, collections, stored, acked>>

EveryRow(c, outcome) == [i \in Indices(c) |-> outcome]

\* One of the servers to be searched does not answer: the whole call fails.
FindServerFails(c, i) ==
    /\ NextToResolve(c, i)
    /\ servers > 1 /\ known[c][PartitionOf(DocAt(c, i))] = 0
    /\ DBFault
    /\ op' = [op EXCEPT ![c] = [@ EXCEPT !.at = "answered",
                                         !.answers = EveryRow(c, "error")]]
    /\ UNCHANGED <<servers, collections, stored, known, acked>>

-----------------------------------------------------------------------------
(***************************************************************************)
(* The groups of a call, executed on their servers.                        *)
(***************************************************************************)
DocGroup(c, i) ==
    {j \in Indices(c) : /\ PartitionOf(DocAt(c, j)) = PartitionOf(DocAt(c, i))
                        /\ op[c].server[j] = op[c].server[i]}

Executed(c, i) == \E row \in op[c].rows : row[1] = i

\* The months of a scan are read one after the other.
IsNextGroup(c, i) ==
    /\ op[c].at = "execute" /\ ~Executed(c, i)
    /\ op[c].request.kind = "scan" =>
          \A j \in Indices(c) : DocMonth[DocAt(c, j)] < DocMonth[DocAt(c, i)] => Executed(c, j)

\* The documents a bulk of inserts gets to, in order, up to the first conflict.
Inserted(c, group, there) ==
    {j \in group : /\ DocAt(c, j) \notin there
                   /\ ~\E k \in group : /\ k <= j
                                        /\ \/ DocAt(c, k) \in there
                                           \/ \E l \in group : l < k /\ DocAt(c, l) = DocAt(c, k)}

DocsAt(c, indices) == {DocAt(c, j) : j \in indices}

Outcome(c, group, there) ==
    LET kind == op[c].request.kind
    IN  [j \in group |->
           CASE kind \in {"get", "scan"} -> IF DocAt(c, j) \in there THEN "found" ELSE "missing"
             [] kind = "insert" -> IF Inserted(c, group, there) = group
                                   THEN "ok" ELSE "conflict"
             [] OTHER -> "ok"]

After(c, group, there) ==
    LET kind == op[c].request.kind
    IN  CASE kind \in {"get", "scan"} -> there
          [] kind = "insert" -> there \cup DocsAt(c, Inserted(c, group, there))
          [] kind = "upsert" -> there \cup DocsAt(c, group)
          [] kind = "remove" -> there \ DocsAt(c, group)

Answers(c, rows) == op' = [op EXCEPT ![c] = [@ EXCEPT !.rows = op[c].rows \cup rows]]

\* Writing creates the partition; removing what is not there does not.
Execute(c, i) ==
    LET s == op[c].server[i]
        group == DocGroup(c, i)
        writes == op[c].request.kind \in {"insert", "upsert"}
        rows == {<<j, Outcome(c, group, stored[s])[j]>> : j \in group}
    IN  /\ IsNextGroup(c, i) /\ s # ErrorDB
        /\ stored' = [stored EXCEPT ![s] = After(c, group, @)]
        /\ collections' = [collections EXCEPT ![s] =
                             IF writes THEN @ \cup {PartitionOf(DocAt(c, i))} ELSE @]
        /\ \/ Answers(c, rows) /\ UNCHANGED dbFaults
           \/ Answers(c, {<<j, "error">> : j \in group}) /\ DBFault   \* the answer is lost
        /\ UNCHANGED <<servers, known, acked>>

ExecuteFails(c, i) ==
    /\ IsNextGroup(c, i)
    /\ IF op[c].server[i] = ErrorDB THEN UNCHANGED dbFaults ELSE DBFault
    /\ Answers(c, {<<j, "error">> : j \in DocGroup(c, i)})
    /\ UNCHANGED <<servers, collections, stored, known, acked>>

-----------------------------------------------------------------------------
\* A mutant: the rows are merged in the order of the groups.
RowsByGroup(c) ==
    LET first(i) == Min(DocGroup(c, i))
        before(i, j) == first(i) < first(j) \/ (first(i) = first(j) /\ i < j)
        order == SetToSortSeq(Indices(c), before)
    IN  [n \in Indices(c) |-> (CHOOSE row \in op[c].rows : row[1] = order[n])[2]]

\* The rows in the order of the documents: batch_get finds the row of each by its id.
MergedRows(c) ==
    [n \in Indices(c) |-> (CHOOSE row \in op[c].rows : row[1] = n)[2]]

\* A bulk call fails as a whole, a batch answers each of its calls.
RowsOf(c) ==
    LET failed == {row \in op[c].rows : row[2] \in {"error", "conflict"}}
    IN  IF op[c].request.bulk /\ failed # {}
        THEN EveryRow(c, (CHOOSE row \in failed : TRUE)[2])
        ELSE MergedRows(c)

AnswerDB(c) ==
    LET answers == RowsOf(c)
        puts == {DocAt(c, i) : i \in {j \in Indices(c) :
                   answers[j] = "ok" /\ op[c].request.kind # "remove"}}
    IN  /\ op[c].at = "execute"
        /\ \A i \in Indices(c) : Executed(c, i)
        /\ op[c].request.kind = "scan" => \E i \in Indices(c) : answers[i] = "error"
        /\ op' = [op EXCEPT ![c] = [@ EXCEPT !.at = "answered", !.answers = answers,
                                             !.rows = {}, !.contested = {}]]
        /\ acked' = acked \cup (puts \ op[c].contested)
        /\ UNCHANGED <<servers, collections, stored, known, dbFaults>>

-----------------------------------------------------------------------------
(***************************************************************************)
(* Reading a range page by page (rangeOp, readAllPages).                   *)
(***************************************************************************)
Months == {DocMonth[doc] : doc \in Docs}

\* The rows of a range, by the index of their document: in the order of the
\* months, and within each of their ids.
MonthOfRow(o, i) == DocMonth[o.request.docs[i]]

SortsBefore(o, i, j) ==
    \/ MonthOfRow(o, i) < MonthOfRow(o, j)
    \/ MonthOfRow(o, i) = MonthOfRow(o, j) /\ i < j

Place(o, rows, i) == Cardinality({j \in rows : SortsBefore(o, j, i)})

FoundRows(o) == {i \in DOMAIN o.request.docs : <<i, "found">> \in o.rows}

FoundUpTo(o, month) == {i \in FoundRows(o) : MonthOfRow(o, i) <= month}

\* As many rows are asked for as a page has and are skipped.
Limited(o, rows) == {i \in rows : Place(o, rows, i) < PageSize + o.skip}

\* After these months the rows are just as many as a page has: no more are read.
FullAfter(o) == {m \in Months : Cardinality(Limited(o, FoundUpTo(o, m))) = PageSize}

RowsRead(o) ==
    Limited(o, IF FullAfter(o) = {} THEN FoundRows(o) ELSE FoundUpTo(o, Min(FullAfter(o))))

PageRead(o) == {i \in RowsRead(o) : Place(o, RowsRead(o), i) >= o.skip}

\* Skipped rows are counted as if they were in the page: when they fill it at
\* the end of a month, the months behind it are not read.
IsCutShort(o) ==
    /\ o.skip > 0
    /\ FullAfter(o) # {}
    /\ \E i \in FoundRows(o) : MonthOfRow(o, i) > Min(FullAfter(o))

ReadPage(c) ==
    LET page == PageRead(op[c])
        read == op[c].read \cup page
        before == IF IsCutShort(op[c]) THEN {} ELSE op[c].before
    IN  /\ op[c].at = "execute" /\ op[c].request.kind = "scan"
        /\ \A i \in Indices(c) : Executed(c, i)
        /\ ~\E row \in op[c].rows : row[2] = "error"
        /\ op' = [op EXCEPT ![c] =
              IF Cardinality(page) < PageSize
              THEN [@ EXCEPT !.at = "answered", !.rows = {}, !.skip = 0, !.read = {},
                             !.before = before,
                             !.answers = [i \in Indices(c) |->
                                            IF i \in read THEN "found" ELSE "missing"]]
              ELSE [@ EXCEPT !.at = "resolve", !.rows = {}, !.read = read,
                             !.before = before,
                             !.skip = op[c].skip + Cardinality(page),
                             !.server = [i \in Indices(c) |-> Unresolved]]]
        /\ UNCHANGED <<servers, collections, stored, known, acked, dbFaults>>

ReturnFromDB(c) ==
    /\ op[c].at = "answered"
    /\ op' = [op EXCEPT ![c] = Idle]
    /\ UNCHANGED <<servers, collections, stored, known, acked, dbFaults>>

RestartClient(c) ==
    /\ DBFault
    /\ op' = [op EXCEPT ![c] = Idle]
    /\ known' = [known EXCEPT ![c] = [p \in Partitions |-> 0]]
    /\ UNCHANGED <<servers, collections, stored, acked>>

\* The clients are deployed anew with one more server.
AddServer ==
    /\ servers < MaxServers
    /\ servers' = servers + 1
    /\ op' = [c \in Clients |-> Idle]
    /\ known' = [c \in Clients |-> [p \in Partitions |-> 0]]
    /\ UNCHANGED <<collections, stored, acked, dbFaults>>

DBNext ==
    \/ \E c \in Clients :
          \/ \E request \in Requests[c] : CallDB(c, request)
          \/ Busy(c) /\ \E i \in Indices(c) :
                \/ Resolve(c, i) \/ ConnectFails(c, i) \/ FindServerFails(c, i)
                \/ Execute(c, i) \/ ExecuteFails(c, i)
          \/ AnswerDB(c)
          \/ ReadPage(c)
          \/ ReturnFromDB(c)
          \/ RestartClient(c)
    \/ AddServer

DBSpec == DBInit /\ [][DBNext]_dbVars

-----------------------------------------------------------------------------
\* A document that was put is on the server where each client, with what it
\* remembers or finds now, looks for it.
AcknowledgedIsFound ==
    \A doc \in acked, c \in Clients : doc \in stored[GetServer(c, PartitionOf(doc))]

\* A get does not miss a document that was put before: the answers of a call
\* are those to its documents, in their order, whatever groups they were in.
\* Nor does a scan, while nothing is removed and no month ends where rows that
\* are skipped fill a page.
ReadsSeeWrites ==
    \A c \in Clients : Busy(c) =>
        \A i \in DOMAIN op[c].answers :
            op[c].answers[i] = "missing" => DocAt(c, i) \notin op[c].before

-----------------------------------------------------------------------------
(***************************************************************************)
(* Why a document is found that was put: the inductive invariant of the    *)
(* database clients.                                                       *)
(***************************************************************************)

Outcomes == {"found", "missing", "ok", "conflict", "error"}

\* What a call is, but for what is only written or is about scans.
CallOf(o) ==
    [at : {"resolve", "execute", "answered"}, request : Request,
     before : SUBSET Docs, contested : SUBSET Docs,
     server : [DOMAIN o.request.docs -> Int], rows : SUBSET (Int \X Outcomes),
     skip : {o.skip}, read : {o.read}, answers : {o.answers}]

DBTypeOK ==
    /\ servers \in 1 .. MaxServers
    /\ collections \in [AllServers -> SUBSET Partitions]
    /\ stored \in [AllServers -> SUBSET Docs]
    /\ known \in [Clients -> [Partitions -> Int]]
    /\ op \in [Clients -> {op[c] : c \in Clients}]
    /\ \A c \in Clients : Busy(c) => op[c] \in CallOf(op[c])
    /\ acked \subseteq Docs

\* The one server of a partition, or the one where it will be created.
Location(p) == IF Holders(p) # {} THEN Min(Holders(p)) ELSE AssignedServer(p)

\* A partition is on one server, whatever clients create it at the same time.
PartitionsInv ==
    \A p \in Partitions, s \in AllServers : p \in collections[s] =>
        /\ s <= servers
        /\ \A t \in AllServers : p \in collections[t] => t = s

\* A document is in its partition.
StoredInv ==
    \A s \in AllServers : \A doc \in stored[s] : PartitionOf(doc) \in collections[s]

\* What is remembered of a partition is its server.
KnownInv == \A c \in Clients, p \in Partitions : known[c][p] \in {0, Location(p)}

IsStored(doc) == doc \in stored[Location(PartitionOf(doc))]

\* A document that is acknowledged is stored.
AckedInv == \A doc \in acked : IsStored(doc)

IsPut(o) == o.at # "answered" /\ o.request.kind \in {"insert", "upsert"}
IsRead(o) == o.request.kind \in {"get", "scan"}

\* A put that is about to be answered does not promise what is being removed.
RemovalInv ==
    \A doc \in Docs : Removing(doc) =>
        /\ doc \notin acked
        /\ \A c \in Clients : Busy(c) /\ IsPut(op[c]) /\ doc \in ToSet(op[c].request.docs) =>
              doc \in op[c].contested

\* A call has found the servers of the partitions; what it has put is stored,
\* unless it is removed; what is acknowledged still it has read, and a get
\* does not answer that it is missing.
CallInv(o) ==
    /\ \A i \in DOMAIN o.request.docs :
          /\ o.server[i] \in {Unresolved, ErrorDB, Location(PartitionOf(o.request.docs[i]))}
          /\ o.at = "execute" => o.server[i] # Unresolved
    /\ IsPut(o) =>
          \A i \in DOMAIN o.request.docs : <<i, "ok">> \in o.rows =>
              IsStored(o.request.docs[i]) \/ o.request.docs[i] \in o.contested
    /\ IsRead(o) =>
          /\ o.before \subseteq acked
          /\ \A i \in DOMAIN o.request.docs :
                /\ <<i, "missing">> \in o.rows => o.request.docs[i] \notin o.before
                /\ <<i, "ok">> \notin o.rows
    /\ ~IsRead(o) => o.before = {}
    /\ o.request.kind = "get" =>
          \A i \in DOMAIN o.answers :
             o.answers[i] = "missing" => o.request.docs[i] \notin o.before

CallsInv == \A c \in Clients : Busy(c) => CallInv(op[c])

\* The rows of a scan that are, or will be, found when its page is read.
Counted(o) ==
    {i \in DOMAIN o.request.docs : /\ IsStored(o.request.docs[i])
                                   /\ <<i, "missing">> \notin o.rows}

\* While nothing is removed from a range, what a scan has to find and has not
\* read yet comes after the rows that it will skip: others may be inserted
\* before it, and none is taken away.
ScanInv(o) ==
    LET docs == o.request.docs
    IN  o.request.kind = "scan" =>
          /\ o.skip \in Nat
          /\ \A i \in DOMAIN docs : <<i, "conflict">> \notin o.rows
          /\ \A i \in DOMAIN o.answers : o.answers[i] = "missing" => docs[i] \notin o.before
          /\ o.before # {} =>
                \A i \in DOMAIN docs : /\ ~Removing(docs[i])
                                       /\ <<i, "found">> \in o.rows => IsStored(docs[i])
          /\ \A i \in DOMAIN docs : docs[i] \in o.before /\ i \notin o.read =>
                Place(o, Counted(o), i) >= o.skip

ScansInv == \A c \in Clients : Busy(c) => ScanInv(op[c])

DBInv ==
    /\ DBTypeOK /\ PartitionsInv /\ StoredInv /\ KnownInv
    /\ AckedInv /\ RemovalInv /\ CallsInv /\ ScansInv
=============================================================================
