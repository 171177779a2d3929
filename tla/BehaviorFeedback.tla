---------------------------- MODULE BehaviorFeedback ----------------------------
(***************************************************************************)
(* What InboxLume learns from the label history before a run scans         *)
(* (cli._collect_gmail_behavior_feedback, providers/gmail.py,              *)
(* learning.py): two listings since the cursor, one local transaction per  *)
(* signal, then the cursor.  Each step is one provider call or one SQLite  *)
(* transaction.                                                            *)
(***************************************************************************)
EXTENDS GmailHistory

CONSTANTS NoCursor

VARIABLES cursor,  \* gmail_history_cursor
          known,   \* behavior_message: the messages analysed so far
          events,  \* behavior_event: <<message, signal>>
          sync     \* the collection in progress

feedbackVars == <<cursor, known, events, sync>>

Signals == {"opened", "starred", "restored", "left_unread"}

NoSync == [stage |-> "none", current |-> 0, latest |-> 0, signals |-> {},
           added |-> [m \in Messages |-> {}], removed |-> [m \in Messages |-> {}]]

Syncs == [stage : {"none", "cursor", "labels", "learn"}, current : Nat, latest : Nat,
          signals : SUBSET (Messages \X Signals),
          added : [Messages -> SUBSET Labels], removed : [Messages -> SUBSET Labels]]

FeedbackInit ==
    /\ cursor = NoCursor
    /\ known = {}
    /\ events = {}
    /\ sync = NoSync

\* current_history_id
OpenSync ==
    /\ sync' = [NoSync EXCEPT !.stage = "cursor", !.current = historyId]
    /\ UNCHANGED <<cursor, known, events>>

\* The first run only takes the current id, without inference.
InitCursor ==
    /\ sync.stage = "cursor"
    /\ cursor = NoCursor
    /\ cursor' = sync.current
    /\ sync' = NoSync
    /\ UNCHANGED <<known, events>>

\* GmailHistoryExpired, from either listing.
ResetCursor ==
    /\ \/ sync.stage = "cursor" /\ cursor # NoCursor
       \/ sync.stage = "labels" /\ labelMade
    /\ MayRefuse(cursor)
    /\ cursor' = sync.current
    /\ sync' = NoSync
    /\ UNCHANGED <<known, events>>

AddedIn(changes, relevant, m) ==
    relevant \cap UNION {c.added : c \in {d \in changes : d.message = m}}

RemovedIn(changes, relevant, m) ==
    relevant \cap UNION {c.removed : c \in {d \in changes : d.message = m}}

\* inbox_label_changes_since
ReadInboxHistory ==
    /\ sync.stage = "cursor"
    /\ cursor # NoCursor
    /\ LET changes == Listing("INBOX", cursor)
           relevant == {"INBOX", "UNREAD", "STARRED", "TRASH"}
       IN sync' = [sync EXCEPT
            !.stage = "labels",
            !.latest = historyId,
            !.added = [m \in Messages |-> AddedIn(changes, relevant, m)],
            !.removed = [m \in Messages |-> RemovedIn(changes, relevant, m)]]
    /\ UNCHANGED <<cursor, known, events>>

\* What the merged label changes of one message are taken to say.
SignalsIn(added, removed) ==
    {s \in Signals :
        \/ s = "opened" /\ "UNREAD" \in removed
        \/ s = "starred" /\ "STARRED" \in added
        \/ s = "restored" /\ \/ "INBOX" \in added
                             \/ QuarantineLabel \in removed /\ "TRASH" \notin added}

\* The listing of the quarantine label, when there is one; the results are
\* merged per message and the cursor to come is the larger history id.
ReadLabelHistory ==
    /\ sync.stage = "labels"
    /\ LET changes == IF labelMade THEN Listing(QuarantineLabel, cursor) ELSE {}
           relevant == {QuarantineLabel, "INBOX", "TRASH"}
           added == [m \in Messages |->
                       sync.added[m] \cup AddedIn(changes, relevant, m)]
           removed == [m \in Messages |->
                         sync.removed[m] \cup RemovedIn(changes, relevant, m)]
       IN sync' = [sync EXCEPT
            !.stage = "learn",
            !.latest = IF labelMade THEN historyId ELSE @,
            !.added = NoSync.added,
            !.removed = NoSync.removed,
            !.signals = {ms \in Messages \X Signals :
                           ms[2] \in SignalsIn(added[ms[1]], removed[ms[1]])}]
    /\ UNCHANGED <<cursor, known, events>>

\* record_behavior_event_for_message_id, record_restored_event_for_message_id:
\* eligible tells whether InboxLume has a successful move of m on record.
LearnSignal(m, signal, eligible) ==
    /\ sync.stage = "learn"
    /\ <<m, signal>> \in sync.signals
    /\ events' = IF m \in known /\ (signal = "restored" => eligible)
                 THEN events \cup {<<m, signal>>} ELSE events
    /\ sync' = [sync EXCEPT !.signals = @ \ {<<m, signal>>}]
    /\ UNCHANGED <<cursor, known>>

\* Mutant: the cursor moves before the signals are stored.
SetCursorFirst ==
    /\ sync.stage = "learn"
    /\ cursor' = sync.latest
    /\ sync' = NoSync
    /\ UNCHANGED <<known, events>>

SetCursor ==
    /\ sync.stage = "learn"
    /\ sync.signals = {}
    /\ cursor' = sync.latest
    /\ sync' = NoSync
    /\ UNCHANGED <<known, events>>

\* _record_behavior_message_with_connection, part of recording a scanned batch
Register(batch) ==
    /\ known' = known \cup batch
    /\ events' = events \cup {<<m, "left_unread">> : m \in {n \in batch : box[n].unread}}
    /\ UNCHANGED <<cursor, sync>>

FeedbackTypeOK ==
    /\ cursor \in Nat \cup {NoCursor}
    /\ known \subseteq Messages
    /\ events \subseteq Messages \X Signals
    /\ sync \in Syncs
=============================================================================
