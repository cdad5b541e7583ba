-------------------------- MODULE BridgeInvariant --------------------------
(***************************************************************************)
(* The inductive invariant of a bridge and the renewer.                    *)
(***************************************************************************)
EXTENDS CFBridge

States == {"CREATED", "DELETED"}
Event == [res : Resources, plan : Plans, kind : States \cup {"UPDATED"}, tick : Nat]
Doc == [guid : Nat, state : States, time : Nat]
DocRef == [key : Key, doc : Doc]

\* The steps of a poll in which an event is processed, and those that report a
\* usage of it.
Reporting == {"adjusting", "reporting", "getting", "putting"}
Processing == {"mapping"} \cup Reporting

Poll == [at : Processing \cup {"idle", "reading", "saving", "clearing"},
         event : Nat, todo : Seq(Usages), doc : Doc \cup {NoDoc}]

PageReader == [after : Nat, next : Nat, page : SUBSET Nat, unlisted : SUBSET Nat]

BridgeTypeOK ==
    /\ carry \in [Key -> Doc \cup {NoDoc}]
    /\ events \in Seq(Event) /\ purged \in 0 .. Len(events)
    /\ bridge \in Poll /\ reader \in PageReader
    /\ bridge.at \in Reporting => bridge.todo # <<>>
    /\ bridge.at \in Processing \cup {"saving"} => bridge.event \in DOMAIN events

\* What the renewer has read are documents of events.
Renewing == [at : {"waiting", "getting", "finding", "inserting"},
             read : {renewer.read}, full : BOOLEAN,
             refs : SUBSET DocRef, job : DocRef \cup {NoDoc}]

RenewerInv ==
    /\ renewer \in Renewing
    /\ \A ref \in renewer.refs : ref.doc.guid \in DOMAIN events
    /\ renewer.at \in {"finding", "inserting"} =>
          renewer.job \in DocRef /\ renewer.job.doc.guid \in DOMAIN events

\* The Cloud Controller lists events by their time, and keeps those that have
\* not been passed.
ListInv ==
    /\ \A i, j \in DOMAIN events : i <= j => events[i].tick <= events[j].tick
    /\ \A i \in DOMAIN events : events[i].tick <= now
    /\ Covered(purged)

\* What has been passed, with the event that is being processed.
Pending == IF bridge.at \in Processing THEN {bridge.event} ELSE {}
Behind == settled \cup overlooked \cup Pending

\* The last event that a reader does not ask for, and the one up to which the
\* pages it has read reach at least.
Base(r) == IF r.after > purged THEN r.after ELSE purged
Reach(r) == Base(r) + (r.next - 1) * PageSize

\* All events before the one that is processed have been passed, and all before
\* one of the page have been, or are of the page, or were not listed with it.
PageInv ==
    /\ bridge.at \in Processing =>
          1 .. bridge.event - 1 \subseteq settled \cup overlooked
    /\ bridge.at \in Processing \cup {"saving", "reading"} =>
          /\ reader.page \subseteq DOMAIN events
          /\ \A i \in reader.page :
                1 .. i - 1 \subseteq Behind \cup reader.page \cup reader.unlisted

\* A page that is not the last reaches as far as if no event had been late; when
\* it has been consumed, all of these are old enough for the next one to list.
ReachInv ==
    bridge.at \in Processing \cup {"saving", "reading"} /\ reader.next > 0 =>
        /\ reader.page # {} => \E m \in reader.page : Reach(reader) <= m
        /\ reader.page = {} =>
              /\ Base(reader) <= Reach(reader) /\ Reach(reader) <= Len(events)
              /\ 1 .. Reach(reader) \subseteq Behind
              /\ \A i \in 1 .. Reach(reader) : i > Base(reader) => IsOldEnough(i)

BridgeInv ==
    /\ TypeOK /\ BridgeTypeOK /\ RenewerInv
    /\ ListInv /\ NothingSkipped /\ PageInv /\ ReachInv
=============================================================================
