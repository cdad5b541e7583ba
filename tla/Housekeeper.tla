----------------------------- MODULE Housekeeper -----------------------------
(***************************************************************************)
(* The housekeeper drops the partitions of old months from all database    *)
(* servers (extensions/housekeeper, dropPartitions of utils/dbclient).     *)
(* Months are numbered from January 2015, the first month of a partition.  *)
(***************************************************************************)
EXTENDS Integers, FiniteSets

CONSTANTS
    HostServers,  \* the database servers
    Retention,    \* RETENTION_PERIOD, in months
    FirstMonth,   \* the clock starts in this month
    LastMonth,    \* and stops in this one
    MaxDropFaults \* bounds the failures of servers

ASSUME HousekeeperAssumption ==
    /\ Retention \in Nat \ {0}   \* 0 means the default
    /\ FirstMonth \in Nat /\ FirstMonth > Retention   \* nothing is dropped before 2015
    /\ LastMonth \in Nat /\ MaxDropFaults \in Nat

VARIABLES
    month,        \* this month
    partitions,   \* the months of the partitions of each server
    dropping,     \* the timer, the last month to drop, the servers yet to be asked
    dropFaults

housekeeperVars == <<month, partitions, dropping, dropFaults>>

AllMonths == FirstMonth - 1 .. LastMonth
Year(m) == 2015 + (m \div 12)
MonthOfYear(m) == m % 12
December == 11

NotRunning == [started |-> FALSE, last |-> -1, left |-> {}]

HousekeeperInit ==
    /\ month = FirstMonth
    /\ partitions = [s \in HostServers |-> {}]
    /\ dropping = NotRunning
    /\ dropFaults = 0

\* Usage of this month and late usage of the month before is written.
WritePartition(s) ==
    /\ \E m \in {month - 1, month} \cap AllMonths :
          partitions' = [partitions EXCEPT ![s] = @ \cup {m}]
    /\ UNCHANGED <<month, dropping, dropFaults>>

Overdue(s) == {m \in partitions[s] : m < month - Retention}

\* The tasks run every day.  The clock waits as long as a partition of a month
\* before the last one to be dropped is there: a bound of what may pile up.
NextMonth ==
    /\ month < LastMonth
    /\ \A s \in HostServers : Overdue(s) \subseteq {month - Retention - 1}
    /\ month' = month + 1
    /\ UNCHANGED <<partitions, dropping, dropFaults>>

-----------------------------------------------------------------------------
\* A mutant: the months of the year are selected in all years.
SelectedInAnyYear(last, m) ==
    /\ Year(m) <= Year(last)
    /\ MonthOfYear(last) = December \/ MonthOfYear(m) <= MonthOfYear(last)

\* The regular expression: one year, whole years, or whole years and a part.
Selected(last, m) ==
    IF Year(last) = 2015
    THEN Year(m) = 2015 /\ MonthOfYear(m) <= MonthOfYear(last)
    ELSE IF MonthOfYear(last) = December
    THEN Year(m) <= Year(last)
    ELSE \/ Year(m) < Year(last)
         \/ Year(m) = Year(last) /\ MonthOfYear(m) <= MonthOfYear(last)

\* A mutant: one month too many.
LastWithoutThis == month - Retention

LastToDrop == month - (Retention + 1)

StartHousekeeper ==
    /\ ~dropping.started
    /\ dropping' = [dropping EXCEPT !.started = TRUE]
    /\ UNCHANGED <<month, partitions, dropFaults>>

RunTasks ==
    /\ dropping.started
    /\ dropping.left = {}
    /\ dropping' = [started |-> TRUE, last |-> LastToDrop, left |-> HostServers]
    /\ UNCHANGED <<month, partitions, dropFaults>>

DropServerPartitions(s) ==
    /\ s \in dropping.left
    /\ partitions' = [partitions EXCEPT ![s] =
                        {m \in @ : ~Selected(dropping.last, m)}]
    /\ dropping' = [dropping EXCEPT !.left = @ \ {s}]
    /\ UNCHANGED <<month, dropFaults>>

\* A server cannot be reached, or drops some of the partitions only.
DropFails(s) ==
    /\ s \in dropping.left
    /\ dropFaults < MaxDropFaults
    /\ dropFaults' = dropFaults + 1
    /\ \E kept \in SUBSET partitions[s] :
          partitions' = [partitions EXCEPT ![s] =
             {m \in @ : m \in kept \/ ~Selected(dropping.last, m)}]
    /\ dropping' = [dropping EXCEPT !.left = @ \ {s}]
    /\ UNCHANGED month

HousekeeperNext ==
    \/ NextMonth
    \/ StartHousekeeper
    \/ RunTasks
    \/ \E s \in HostServers :
          WritePartition(s) \/ DropServerPartitions(s) \/ DropFails(s)

HousekeeperSpec == HousekeeperInit /\ [][HousekeeperNext]_housekeeperVars

\* The timer runs the tasks every day; a server answers or fails.
HousekeeperFairness ==
    /\ WF_housekeeperVars(RunTasks)
    /\ \A s \in HostServers :
          WF_housekeeperVars(DropServerPartitions(s) \/ DropFails(s))

-----------------------------------------------------------------------------
\* While servers are asked to drop partitions, the last month that is dropped
\* is older than the retention period, whatever has become of the clock.
HousekeeperInv ==
    /\ month \in Nat /\ month >= FirstMonth
    /\ partitions \in [HostServers -> SUBSET AllMonths]
    /\ dropping \in [started : BOOLEAN, last : Int, left : SUBSET HostServers]
    /\ dropping.left # {} => dropping.last \in 0 .. month - (Retention + 1)

\* Only partitions older than the retention period are dropped, at any turn of
\* the year: no step takes away one of the months that are to be kept.
RetainedAreKept ==
    [][\A s \in HostServers, m \in AllMonths :
          m \in partitions[s] /\ m \notin partitions'[s] => m < month - Retention
      ]_housekeeperVars

\* Partitions that have outlived the retention period are dropped in the end,
\* on all servers, although a server may be out of reach when its turn comes.
OldAreDropped ==
    <>[](dropping.started => \A s \in HostServers : Overdue(s) = {})
=============================================================================
