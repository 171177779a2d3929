------------------------------- MODULE Aftercare -------------------------------
(***************************************************************************)
(* What happens to a message after InboxLume decided about it: cleanup     *)
(* sessions that learn from the label history and act, the delayed         *)
(* finalizer beside them, the user in Gmail, and the days that pass.       *)
(* ShadowRun has the inside of a run; here a run is the feedback it        *)
(* collects, its scan, and per message the provider call and the record.   *)
(***************************************************************************)
EXTENDS BehaviorFeedback, MatureFinalization

CONSTANTS
    InitialBoxes,
    UserGestures, \* what the user does
    MaxActs,     \* bound: user acts
    MaxDay       \* bound: days

ASSUME AftercareAssumption ==
    /\ NoCursor \notin Nat
    /\ InitialBoxes \subseteq {b \in Boxes : ~b.label}
    /\ UserGestures \subseteq Gestures
    /\ MaxActs \in Nat /\ MaxDay \in Nat

VARIABLES
    run,     \* the session: how far its current run has come
    owed,    \* history: what the user did that a run has yet to learn
    undone,  \* history: messages whose recorded move the user has undone
    acts

vars == <<gmailVars, feedbackVars, finalizerVars, row, kept, exec, run, owed, undone, acts>>

\* now is taken when the session opens, and every run of the session uses it.
Idle == [stage |-> "idle", now |-> 0, toTrash |-> FALSE, todo |-> {},
         message |-> NoMessage, outcome |-> "none"]

RunStates == [stage : {"idle", "sync", "scan", "act", "record"}, now : Nat,
              toTrash : BOOLEAN, todo : SUBSET Messages,
              message : Messages \cup {NoMessage},
              outcome : ExecutorOutcomes \cup {"none"}]

Debts == [message : Messages, signal : Signals, id : Nat, between : BOOLEAN]

Init ==
    /\ GmailInit(InitialBoxes)
    /\ FeedbackInit
    /\ FinalizationInit
    /\ run = Idle
    /\ owed = {}
    /\ undone = {}
    /\ acts = 0

-----------------------------------------------------------------------------
(***************************************************************************)
(* A session                                                               *)
(***************************************************************************)
OpenSession ==
    /\ run.stage = "idle"
    /\ \E trash \in BOOLEAN :
         run' = [Idle EXCEPT !.stage = "sync", !.now = day, !.toTrash = trash]
    /\ UNCHANGED <<gmailVars, feedbackVars, finalizerVars, row, kept, exec, owed, undone, acts>>

\* What the run learns is no longer owed; a reset forgets what came before it.
Collect ==
    /\ run.stage = "sync"
    /\ \/ sync.stage = "none" /\ OpenSync /\ UNCHANGED <<run, owed>>
       \/ (ReadInboxHistory \/ ReadLabelHistory) /\ UNCHANGED <<run, owed>>
       \/ /\ InitCursor \/ SetCursor
          /\ run' = [run EXCEPT !.stage = "scan"]
          /\ UNCHANGED owed
       \/ /\ ResetCursor
          /\ run' = [run EXCEPT !.stage = "scan"]
          /\ owed' = {o \in owed : o.id > sync.current}
    /\ UNCHANGED <<gmailVars, finalizerVars, row, kept, exec, undone, acts>>

\* Mutant: a scanned message is enough.
EligibleOnceScanned(m) == row[m] # "none"

\* The query in record_restored_event_for_message_id
Eligible(m) ==
    \/ exec[m].outcome \in {"applied", "already_applied", "moved_to_trash"}
    \/ final[m] = "moved_to_trash"

Learn(m, signal) ==
    /\ run.stage = "sync"
    /\ LearnSignal(m, signal, Eligible(m))
    /\ owed' = IF <<m, signal>> \in events'
               THEN {o \in owed : <<o.message, o.signal>> # <<m, signal>>} ELSE owed
    /\ UNCHANGED <<gmailVars, finalizerVars, row, kept, exec, run, undone, acts>>

\* A pending proposal: of this batch, or one the recovery finds in Inbox.
Pending(m, rows) ==
    /\ box[m].place = "inbox"
    /\ rows[m] \in {"unread", "read"}
    /\ ExpectsUnread(rows[m]) = box[m].unread
    /\ exec[m].outcome = "none"
    /\ m \notin kept

Scan ==
    /\ run.stage = "scan"
    /\ \E batch \in SUBSET {m \in Messages : row[m] = "none" /\ box[m].place = "inbox"} :
         /\ \E proposals \in SUBSET {m \in batch : ~box[m].guarded} :
              row' = [m \in Messages |->
                        IF m \in proposals THEN IF box[m].unread THEN "unread" ELSE "read"
                        ELSE IF m \in batch THEN "other" ELSE row[m]]
         /\ Register(batch)
    /\ run' = [run EXCEPT !.stage = "act", !.todo = {m \in Messages : Pending(m, row')}]
    /\ UNCHANGED <<gmailVars, finalizerVars, kept, exec, owed, undone, acts>>

\* What a change to TRASH leaves owed
StillOwed(m, b) ==
    IF b.place = "trash"
    THEN {o \in owed : ~(o.message = m /\ o.signal = "restored")} ELSE owed

\* The executor: GET, decision and POST.
Act(m) ==
    /\ run.stage = "act"
    /\ m \in run.todo
    /\ m \notin kept
    /\ LET verdict == ExecutorVerdict(run.toTrash, box[m], ExpectsUnread(row[m]))
           moved == ExecutorEffect(run.toTrash, box[m])
       IN /\ run' = [run EXCEPT !.stage = "record", !.message = m, !.todo = @ \ {m},
                       !.outcome = IF verdict = "proceed" THEN SuccessOutcome(run.toTrash)
                                   ELSE verdict]
          /\ IF verdict = "proceed"
             THEN Change(m, moved, "run") /\ owed' = StillOwed(m, moved)
             ELSE UNCHANGED <<gmailVars, owed>>
    /\ UNCHANGED <<feedbackVars, finalizerVars, row, kept, exec, undone, acts>>

SkipKept(m) ==
    /\ run.stage = "act"
    /\ m \in run.todo
    /\ m \in kept
    /\ run' = [run EXCEPT !.todo = @ \ {m}]
    /\ UNCHANGED <<gmailVars, feedbackVars, finalizerVars, row, kept, exec, owed, undone, acts>>

\* What quarantine_pilot_execution keeps of an outcome it accepts
Kept(outcome) ==
    IF outcome \in Quarantined \cup {"moved_to_trash"} THEN outcome ELSE "skipped"

\* record_quarantine_pilot_execution, dated with the session's now
RecordExecution ==
    /\ run.stage = "record"
    /\ run.outcome \notin {"already_finalized", "cancelled_not_inbox", "cancelled_protected"}
    /\ exec' = IF exec[run.message].outcome = "none"
               THEN [exec EXCEPT ![run.message] = [outcome |-> Kept(run.outcome), on |-> run.now]]
               ELSE exec
    /\ run' = [run EXCEPT !.stage = "act", !.message = NoMessage, !.outcome = "none"]
    /\ UNCHANGED <<gmailVars, feedbackVars, finalizerVars, row, kept, owed, undone, acts>>

\* The same function raises on an outcome it does not know.
OutcomeRejected ==
    /\ run.stage = "record"
    /\ run.outcome \in {"already_finalized", "cancelled_not_inbox", "cancelled_protected"}
    /\ run' = Idle
    /\ UNCHANGED <<gmailVars, feedbackVars, finalizerVars, row, kept, exec, owed, undone, acts>>

\* The session goes on with another run, or closes.
EndRun ==
    /\ run.stage = "act"
    /\ run.todo = {}
    /\ run' \in {Idle, [run EXCEPT !.stage = "sync"]}
    /\ UNCHANGED <<gmailVars, feedbackVars, finalizerVars, row, kept, exec, owed, undone, acts>>

\* A crash, a cancellation, an exception, at any step
AbortSession ==
    /\ run.stage # "idle"
    /\ run' = Idle
    /\ sync' = NoSync
    /\ UNCHANGED <<gmailVars, finalizerVars, cursor, known, events, row, kept, exec, owed,
                   undone, acts>>

-----------------------------------------------------------------------------
(***************************************************************************)
(* The finalizer, the user and time                                        *)
(***************************************************************************)
Finalizer ==
    /\ FinalizationNext
    /\ owed' = IF box' = box THEN owed ELSE StillOwed(fin.message, box'[fin.message])
    /\ UNCHANGED <<feedbackVars, run, undone, acts>>

\* What a change by the user says: of a message opened or starred in Inbox,
\* or there again or without its label.
Said(b, c) ==
    LET added == LabelsOf(c) \ LabelsOf(b)
        removed == LabelsOf(b) \ LabelsOf(c)
    IN {s \in SignalsIn(added, removed) :
          IF s = "restored" THEN c.place = "inbox"
          ELSE "INBOX" \in LabelsOf(b) \cup LabelsOf(c)}

\* The user takes back a move InboxLume has on record.
TakesBack(m, c) ==
    \/ box[m].label /\ ~c.label /\ exec[m].outcome # "none"
    \/ /\ box[m].place # "inbox" /\ c.place = "inbox"
       /\ exec[m].outcome = "moved_to_trash" \/ final[m] # "none"

\* Between a call's GET and its POST nothing is promised.
Raced(m) == fin.stage = "post" /\ fin.message = m

UserActs(m) ==
    /\ acts < MaxActs
    /\ acts' = acts + 1
    /\ \E c \in {AfterGesture(box[m], g) : g \in UserGestures} \ {box[m]} :
         /\ Change(m, c, "user")
         /\ owed' = StillOwed(m, c) \cup
              {[message |-> m, signal |-> s, id |-> historyId + 1,
                between |-> sync.stage = "labels"] :
                 s \in {t \in Said(box[m], c) :
                          /\ cursor # NoCursor /\ m \in known
                          /\ t = "restored" => Eligible(m)
                          /\ <<m, t>> \notin events}}
         /\ undone' = IF TakesBack(m, c) /\ ~Raced(m) THEN undone \cup {m} ELSE undone
    /\ UNCHANGED <<feedbackVars, finalizerVars, row, kept, exec, run>>

\* A Keep or an Unsure; the other answers change nothing here.
UserAnswers(m) ==
    /\ acts < MaxActs
    /\ acts' = acts + 1
    /\ m \notin kept
    /\ kept' = kept \cup {m}
    /\ UNCHANGED <<gmailVars, feedbackVars, finalizerVars, row, exec, run, owed, undone>>

TimePasses ==
    /\ day < MaxDay
    /\ NextDay
    /\ UNCHANGED <<feedbackVars, finalizerVars, row, kept, exec, run, owed, undone, acts>>

Next ==
    \/ OpenSession \/ Collect \/ Scan \/ RecordExecution \/ OutcomeRejected \/ EndRun
    \/ AbortSession \/ Finalizer \/ TimePasses
    \/ \E m \in Messages :
         \/ Act(m) \/ SkipKept(m) \/ UserActs(m) \/ UserAnswers(m)
         \/ \E signal \in Signals : Learn(m, signal)

Spec == Init /\ [][Next]_vars

-----------------------------------------------------------------------------
\* Type correctness; a run and a finalization hold a message from its call to
\* its record and no longer.
TypeOK ==
    /\ GmailTypeOK /\ FeedbackTypeOK /\ FinalizationTypeOK
    /\ run \in RunStates
    /\ run.stage = "record" <=> run.message # NoMessage
    /\ owed \subseteq Debts
    /\ undone \subseteq Messages
    /\ acts \in 0..MaxActs

\* The cursor never passes what the user did to a known message without its
\* being in behavior_event, whatever crashes, resets and listings come between
\* (_collect_gmail_behavior_feedback); what the user does between the two
\* listings of one collection is excepted, and so is what the user or InboxLume
\* has sent to Trash since.
LearnedBehindCursor ==
    cursor # NoCursor => \A o \in owed : o.between \/ o.id > cursor

By(who) == {c \in history : c.by = who}

Moves == By("run") \cup By("finalizer")

Restores == {c \in By("user") : "restored" \in SignalsIn(c.added, c.removed)}

\* A restore is only ever learned of a message that InboxLume moved and whose
\* labels the user changed back: InboxLume's own changes, which the listings
\* show among the user's, are never taken for one.
RestoreHasCause ==
    \A m \in Messages : <<m, "restored">> \in events =>
        /\ \E c \in Restores : c.message = m
        /\ \E d \in Moves : d.message = m

\* The finalizer moves a message only if the ledger has it quarantined, and
\* Delay days after the date the ledger has for that (is_mature); the date and
\* the outcome do not change under the finalizer's feet.
DelayObserved ==
    \A c \in By("finalizer") :
        /\ exec[c.message].outcome \in Quarantined
        /\ c.on >= exec[c.message].on + Delay

\* Once the user has taken back a move InboxLume has on record, by removing the
\* quarantine label or by putting the message back into Inbox, neither a run nor
\* the finalizer changes that message again ("removing_quarantine_label_cancels").
UndoneStays ==
    [][\A m \in undone : box'[m] # box[m] =>
         \E c \in history' \ history : c.message = m /\ c.by = "user"]_vars
=============================================================================
