---------------------------- MODULE AftercareProofs ----------------------------
(***************************************************************************)
(* What holds of a message after InboxLume has moved it, for any messages, *)
(* delay, limit and bounds.                                                *)
(***************************************************************************)
EXTENDS Aftercare, TLAPS

(***************************************************************************)
(* Types.                                                                  *)
(***************************************************************************)
LEMMA LabelsOfType == \A b : LabelsOf(b) \in SUBSET Labels
    BY DEF LabelsOf

LEMMA GestureType ==
    ASSUME NEW b \in Boxes, NEW g \in Gestures
    PROVE  /\ AfterGesture(b, g) \in Boxes
           /\ AfterGesture(b, g).label => b.label
           /\ b.label /\ ~AfterGesture(b, g).label => AfterGesture(b, g).place = b.place
    BY DEF AfterGesture, Boxes, Places, Gestures

LEMMA ExecutorType ==
    ASSUME NEW b \in Boxes, NEW toTrash \in BOOLEAN, NEW expected \in BOOLEAN
    PROVE  /\ ExecutorEffect(toTrash, b) \in Boxes
           /\ ExecutorVerdict(toTrash, b, expected) \in ExecutorOutcomes \cup {"proceed"}
           /\ SuccessOutcome(toTrash) \in ExecutorOutcomes
    BY DEF ExecutorEffect, ExecutorVerdict, SuccessOutcome, QuarantineVerdict, TrashVerdict,
           ExecutorOutcomes, Successes, Labelled, Trashed, Boxes, Places

LEMMA ChangeType ==
    ASSUME GmailTypeOK, NEW m \in Messages, NEW b \in Boxes, NEW who \in Authors,
           Change(m, b, who)
    PROVE  GmailTypeOK'
<1>1. box' \in [Messages -> Boxes] /\ historyId' \in Nat /\ day' \in Nat
    BY DEF GmailTypeOK, Change
<1>2. labelMade' \in BOOLEAN
    BY DEF GmailTypeOK, Change, Boxes
<1> DEFINE c == [id |-> historyId + 1, message |-> m,
                 added |-> LabelsOf(b) \ LabelsOf(box[m]),
                 removed |-> LabelsOf(box[m]) \ LabelsOf(b),
                 carried |-> LabelsOf(box[m]) \cup LabelsOf(b),
                 by |-> who, on |-> day]
<1>3. history' = history \cup {c}
    BY DEF Change
<1>4. c \in Changes /\ c.id = historyId + 1
    BY LabelsOfType DEF GmailTypeOK, Changes
<1>5. historyId' = historyId + 1
    BY DEF Change
<1>6. history' \subseteq Changes
    BY <1>3, <1>4 DEF GmailTypeOK
<1>7. \A d \in history' : d.id \in 1..historyId'
  <2> HIDE DEF c
  <2> TAKE d \in history'
  <2>1. CASE d \in history
      BY <2>1, <1>5 DEF GmailTypeOK
  <2>2. CASE d = c
      BY <2>2, <1>4, <1>5 DEF GmailTypeOK
  <2> QED
      BY <2>1, <2>2, <1>3
<1> QED
    BY <1>1, <1>2, <1>6, <1>7 DEF GmailTypeOK

LEMMA InitTypes == Init => TypeOK
<1> SUFFICES ASSUME Init PROVE TypeOK
    OBVIOUS
<1> USE AftercareAssumption, FinalizationAssumption
<1>1. GmailTypeOK
    BY DEF Init, GmailInit, GmailTypeOK
<1>2. FeedbackTypeOK
    BY DEF Init, FeedbackInit, FeedbackTypeOK, NoSync, Syncs
<1>3. FinalizationTypeOK
    BY DEF Init, FinalizationInit, FinalizationTypeOK, NoExec, NoFinalization, Finalizations,
           RowKinds, ExecOutcomes, FinalOutcomes
<1>4. run \in RunStates /\ (run.stage = "record" <=> run.message # NoMessage)
    BY DEF Init, Idle, RunStates
<1> QED
    BY <1>1, <1>2, <1>3, <1>4 DEF Init, TypeOK

LEMMA OpenTypes == TypeOK /\ OpenSession => TypeOK'
    BY FinalizationAssumption
    DEF TypeOK, OpenSession, Idle, RunStates, gmailVars, feedbackVars, finalizerVars,
        GmailTypeOK, FeedbackTypeOK, FinalizationTypeOK

LEMMA ListingType ==
    ASSUME GmailTypeOK, NEW changes \in SUBSET history, NEW relevant \in SUBSET Labels,
           NEW m \in Messages
    PROVE  /\ AddedIn(changes, relevant, m) \in SUBSET Labels
           /\ RemovedIn(changes, relevant, m) \in SUBSET Labels
    BY DEF AddedIn, RemovedIn

LEMMA CollectTypes == TypeOK /\ Collect => TypeOK'
<1> SUFFICES ASSUME TypeOK, Collect PROVE TypeOK'
    OBVIOUS
<1> USE DEF TypeOK, gmailVars, finalizerVars
<1>0. GmailTypeOK' /\ FinalizationTypeOK' /\ undone' \subseteq Messages /\ acts' \in 0..MaxActs
    BY DEF Collect, GmailTypeOK, FinalizationTypeOK
<1>1. CASE OpenSync /\ UNCHANGED <<run, owed>>
  <2>1. FeedbackTypeOK'
      BY <1>1 DEF OpenSync, FeedbackTypeOK, NoSync, Syncs, GmailTypeOK
  <2> QED
      BY <1>0, <1>1, <2>1
<1>2. CASE ReadInboxHistory /\ UNCHANGED <<run, owed>>
  <2> DEFINE changes == Listing("INBOX", cursor)
             relevant == {"INBOX", "UNREAD", "STARRED", "TRASH"}
             added == [m \in Messages |-> AddedIn(changes, relevant, m)]
             removed == [m \in Messages |-> RemovedIn(changes, relevant, m)]
  <2>1. changes \in SUBSET history /\ relevant \in SUBSET Labels
      BY DEF Listing, Labels
  <2>2. added \in [Messages -> SUBSET Labels] /\ removed \in [Messages -> SUBSET Labels]
      BY <2>1, ListingType
  <2>3. sync' = [sync EXCEPT !.stage = "labels", !.latest = historyId,
                             !.added = added, !.removed = removed]
      BY <1>2 DEF ReadInboxHistory
  <2> HIDE DEF added, removed
  <2>4. sync' \in Syncs
      BY <2>2, <2>3 DEF FeedbackTypeOK, Syncs, GmailTypeOK
  <2>5. FeedbackTypeOK'
      BY <1>2, <2>4 DEF ReadInboxHistory, FeedbackTypeOK
  <2> QED
      BY <1>0, <1>2, <2>5
<1>3. CASE ReadLabelHistory /\ UNCHANGED <<run, owed>>
  <2>1. PICK signals \in SUBSET (Messages \X Signals), latest \in {historyId, sync.latest} :
           sync' = [sync EXCEPT !.stage = "learn", !.latest = latest,
                      !.added = NoSync.added, !.removed = NoSync.removed,
                      !.signals = signals]
      BY <1>3 DEF ReadLabelHistory
  <2>2. NoSync.added \in [Messages -> SUBSET Labels] /\ NoSync.removed \in [Messages -> SUBSET Labels]
      BY DEF NoSync
  <2>3. sync' \in Syncs
      BY <2>1, <2>2 DEF FeedbackTypeOK, Syncs, GmailTypeOK
  <2>4. FeedbackTypeOK'
      BY <1>3, <2>3 DEF ReadLabelHistory, FeedbackTypeOK
  <2> QED
      BY <1>0, <1>3, <2>4
<1>4. CASE (InitCursor \/ SetCursor \/ ResetCursor)
           /\ run' = [run EXCEPT !.stage = "scan"] /\ owed' \subseteq owed /\ run.stage = "sync"
  <2>1. FeedbackTypeOK'
      BY <1>4 DEF InitCursor, SetCursor, ResetCursor, FeedbackTypeOK, NoSync, Syncs
  <2>2. run' \in RunStates /\ (run'.stage = "record" <=> run'.message # NoMessage)
      BY <1>4 DEF RunStates
  <2> QED
      BY <1>0, <1>4, <2>1, <2>2
<1> QED
    BY <1>1, <1>2, <1>3, <1>4 DEF Collect

LEMMA LearnTypes ==
    ASSUME TypeOK, NEW m \in Messages, NEW signal \in Signals, Learn(m, signal)
    PROVE  TypeOK'
<1> USE DEF TypeOK, gmailVars, finalizerVars
<1>0. /\ GmailTypeOK' /\ FinalizationTypeOK' /\ undone' \subseteq Messages
      /\ acts' \in 0..MaxActs /\ UNCHANGED run
    BY DEF Learn, GmailTypeOK, FinalizationTypeOK
<1>1. owed' \subseteq owed
    BY DEF Learn
<1>2. sync' \in Syncs
    BY DEF Learn, LearnSignal, FeedbackTypeOK, Syncs
<1>3. FeedbackTypeOK'
    BY <1>2 DEF Learn, LearnSignal, FeedbackTypeOK
<1> QED
    BY <1>0, <1>1, <1>3

LEMMA ScanTypes == TypeOK /\ Scan => TypeOK'
<1> SUFFICES ASSUME TypeOK, Scan PROVE TypeOK'
    OBVIOUS
<1> USE DEF TypeOK, gmailVars, finalizerVars
<1>0. /\ GmailTypeOK' /\ undone' \subseteq Messages /\ acts' \in 0..MaxActs /\ owed' \subseteq Debts
    BY DEF Scan, GmailTypeOK
<1>1. row' \in [Messages -> RowKinds] /\ UNCHANGED <<final, fin, kept, exec>>
    BY DEF Scan, FinalizationTypeOK, RowKinds
<1>2. FinalizationTypeOK'
    BY <1>1 DEF FinalizationTypeOK
<1>3. PICK batch \in SUBSET Messages : Register(batch)
    BY DEF Scan
<1>4. FeedbackTypeOK'
    BY <1>3 DEF Register, FeedbackTypeOK, Signals
<1>5. run' \in RunStates /\ (run'.stage = "record" <=> run'.message # NoMessage)
    BY DEF Scan, RunStates
<1> QED
    BY <1>0, <1>2, <1>4, <1>5

LEMMA ActTypes == ASSUME TypeOK, NEW m \in Messages, Act(m) PROVE TypeOK'
<1> USE DEF TypeOK, feedbackVars, finalizerVars
<1>0. /\ FeedbackTypeOK' /\ FinalizationTypeOK' /\ undone' \subseteq Messages
      /\ acts' \in 0..MaxActs
    BY DEF Act, FeedbackTypeOK, FinalizationTypeOK
<1> DEFINE verdict == ExecutorVerdict(run.toTrash, box[m], ExpectsUnread(row[m]))
           moved == ExecutorEffect(run.toTrash, box[m])
<1>1. box[m] \in Boxes /\ run.toTrash \in BOOLEAN /\ ExpectsUnread(row[m]) \in BOOLEAN
    BY DEF GmailTypeOK, RunStates, ExpectsUnread
<1>2. /\ moved \in Boxes /\ SuccessOutcome(run.toTrash) \in ExecutorOutcomes
      /\ verdict \in ExecutorOutcomes \cup {"proceed"}
    BY <1>1, ExecutorType
<1>3. /\ run' = [run EXCEPT !.stage = "record", !.message = m, !.todo = @ \ {m},
                   !.outcome = IF verdict = "proceed" THEN SuccessOutcome(run.toTrash)
                               ELSE verdict]
      /\ \/ Change(m, moved, "run") /\ owed' = StillOwed(m, moved)
         \/ UNCHANGED <<gmailVars, owed>>
    BY DEF Act
<1> HIDE DEF verdict, moved
<1>4. run' \in RunStates /\ (run'.stage = "record" <=> run'.message # NoMessage)
    BY <1>2, <1>3, FinalizationAssumption DEF RunStates
<1>5. GmailTypeOK'
  <2>1. CASE Change(m, moved, "run")
      BY <2>1, <1>2, ChangeType DEF Authors
  <2>2. CASE UNCHANGED gmailVars
      BY <2>2 DEF gmailVars, GmailTypeOK
  <2> QED
      BY <2>1, <2>2, <1>3
<1>6. owed' \subseteq owed
    BY <1>3 DEF StillOwed
<1> QED
    BY <1>0, <1>4, <1>5, <1>6

LEMMA RecordTypes == TypeOK /\ RecordExecution => TypeOK'
<1> SUFFICES ASSUME TypeOK, RecordExecution PROVE TypeOK'
    OBVIOUS
<1> USE DEF TypeOK, gmailVars, feedbackVars, finalizerVars
<1>0. /\ GmailTypeOK' /\ FeedbackTypeOK' /\ undone' \subseteq Messages
      /\ acts' \in 0..MaxActs /\ owed' \subseteq Debts
    BY DEF RecordExecution, GmailTypeOK, FeedbackTypeOK
<1>1. Kept(run.outcome) \in ExecOutcomes
    BY DEF Kept, ExecOutcomes
<1>2. exec' \in [Messages -> [outcome : ExecOutcomes, on : Nat]]
    BY <1>1 DEF RecordExecution, FinalizationTypeOK, RunStates
<1>3. FinalizationTypeOK'
    BY <1>2 DEF RecordExecution, FinalizationTypeOK
<1>4. run' \in RunStates /\ (run'.stage = "record" <=> run'.message # NoMessage)
    BY DEF RecordExecution, RunStates
<1> QED
    BY <1>0, <1>3, <1>4

LEMMA RunTypes ==
    TypeOK /\ (OutcomeRejected \/ EndRun \/ AbortSession \/ \E m \in Messages : SkipKept(m)) => TypeOK'
<1> SUFFICES ASSUME TypeOK,
                    OutcomeRejected \/ EndRun \/ AbortSession \/ \E m \in Messages : SkipKept(m)
             PROVE  TypeOK'
    OBVIOUS
<1> USE FinalizationAssumption
    DEF TypeOK, OutcomeRejected, EndRun, AbortSession, SkipKept, gmailVars, feedbackVars,
        finalizerVars
<1>1. GmailTypeOK' /\ FinalizationTypeOK'
    BY DEF GmailTypeOK, FinalizationTypeOK
<1>2. FeedbackTypeOK'
    BY DEF FeedbackTypeOK, NoSync, Syncs
<1>3. run' \in RunStates /\ (run'.stage = "record" <=> run'.message # NoMessage)
  <2>1. Idle \in RunStates /\ Idle.stage = "idle" /\ Idle.message = NoMessage
      BY DEF RunStates, Idle
  <2>2. CASE \E m \in Messages : SkipKept(m)
      BY <2>2 DEF RunStates
  <2>3. CASE run.stage = "act" /\ run' = [run EXCEPT !.stage = "sync"]
      BY <2>3 DEF RunStates
  <2>4. CASE run' = Idle
      BY <2>1, <2>4
  <2> QED
      BY <2>2, <2>3, <2>4
<1>4. owed' \subseteq Debts /\ undone' \subseteq Messages /\ acts' \in 0..MaxActs
    OBVIOUS
<1> QED
    BY <1>1, <1>2, <1>3, <1>4

LEMMA FinalizerTypes == TypeOK /\ Finalizer => TypeOK'
<1> SUFFICES ASSUME TypeOK, Finalizer PROVE TypeOK'
    OBVIOUS
<1> USE FinalizationAssumption DEF TypeOK, gmailVars, feedbackVars
<1>1. /\ FeedbackTypeOK' /\ UNCHANGED run /\ owed' \subseteq Debts
      /\ undone' \subseteq Messages /\ acts' \in 0..MaxActs
    BY DEF Finalizer, FeedbackTypeOK, StillOwed
<1>2. CASE ListMature
  <2>1. FinalizationTypeOK'
      BY <1>2 DEF ListMature, FinalizationTypeOK, NoFinalization, Finalizations
  <2> QED
      BY <1>1, <1>2, <2>1 DEF ListMature, GmailTypeOK
<1>3. ASSUME NEW m \in Messages, InspectMature(m) PROVE TypeOK'
  <2>1. FinalVerdict(box[m], ExpectsUnread(row[m])) \in FinalOutcomes \cup {"proceed"}
    <3>1. box[m].place \in Places
        BY DEF GmailTypeOK, Boxes
    <3> QED
        BY <3>1 DEF FinalVerdict, FinalOutcomes, Places
  <2>2. fin' \in Finalizations /\ (fin'.stage \in {"post", "record"} <=> fin'.message # NoMessage)
      BY <1>3, <2>1 DEF InspectMature, FinalizationTypeOK, Finalizations
  <2>3. FinalizationTypeOK'
      BY <1>3, <2>2 DEF InspectMature, FinalizationTypeOK
  <2> QED
      BY <1>1, <1>3, <2>3 DEF InspectMature, GmailTypeOK
<1>4. CASE Finalize
  <2>1. fin.message \in Messages
      BY <1>4 DEF Finalize, FinalizationTypeOK, Finalizations
  <2>2. Trashed(box[fin.message]) \in Boxes
      BY <2>1 DEF GmailTypeOK, Trashed, Boxes, Places
  <2>3. GmailTypeOK'
      BY <1>4, <2>1, <2>2, ChangeType DEF Finalize, Authors
  <2>4. FinalizationTypeOK'
      BY <1>4, <2>1 DEF Finalize, FinalizationTypeOK, Finalizations, FinalOutcomes
  <2> QED
      BY <1>1, <2>3, <2>4
<1>5. CASE RecordFinalization
  <2>1. fin' \in Finalizations /\ (fin'.stage \in {"post", "record"} <=> fin'.message # NoMessage)
      BY <1>5 DEF RecordFinalization, FinalizationTypeOK, Finalizations, NoFinalization
  <2>2. final' \in [Messages -> FinalOutcomes \cup {"none"}]
      BY <1>5 DEF RecordFinalization, FinalizationTypeOK, Finalizations
  <2>3. FinalizationTypeOK'
      BY <1>5, <2>1, <2>2 DEF RecordFinalization, FinalizationTypeOK
  <2> QED
      BY <1>1, <1>5, <2>3 DEF RecordFinalization, GmailTypeOK
<1>6. CASE FinalizationEnds
  <2>1. FinalizationTypeOK'
      BY <1>6 DEF FinalizationEnds, FinalizationTypeOK, Finalizations, NoFinalization
  <2> QED
      BY <1>1, <1>6, <2>1 DEF FinalizationEnds, GmailTypeOK
<1> QED
    BY <1>2, <1>3, <1>4, <1>5, <1>6 DEF Finalizer, FinalizationNext

LEMMA UserTypes == ASSUME TypeOK, NEW m \in Messages, UserActs(m) PROVE TypeOK'
<1> USE AftercareAssumption DEF TypeOK, feedbackVars, finalizerVars
<1>0. FeedbackTypeOK' /\ FinalizationTypeOK' /\ UNCHANGED run
    BY DEF UserActs, FeedbackTypeOK, FinalizationTypeOK
<1>1. acts' \in 0..MaxActs /\ undone' \subseteq Messages
    BY DEF UserActs
<1>2. PICK g \in UserGestures : Change(m, AfterGesture(box[m], g), "user")
    BY DEF UserActs
<1>3. AfterGesture(box[m], g) \in Boxes
    BY GestureType DEF GmailTypeOK
<1>4. GmailTypeOK'
    BY <1>2, <1>3, ChangeType DEF Authors
<1>5. owed' \subseteq Debts
  <2> SUFFICES ASSUME NEW o \in owed', o \notin owed PROVE o \in Debts
      OBVIOUS
  <2>1. \A b, c : Said(b, c) \subseteq Signals
      BY DEF Said, SignalsIn
  <2>2. PICK t \in Signals : o = [message |-> m, signal |-> t, id |-> historyId + 1,
                                  between |-> sync.stage = "labels"]
      BY <2>1 DEF UserActs, StillOwed
  <2>3. historyId + 1 \in Nat /\ (sync.stage = "labels") \in BOOLEAN
      BY DEF GmailTypeOK
  <2> QED
      BY <2>2, <2>3 DEF Debts
<1> QED
    BY <1>0, <1>1, <1>4, <1>5

LEMMA OtherTypes ==
    TypeOK /\ (TimePasses \/ \E m \in Messages : UserAnswers(m)) => TypeOK'
<1> SUFFICES ASSUME TypeOK, TimePasses \/ \E m \in Messages : UserAnswers(m) PROVE TypeOK'
    OBVIOUS
<1> USE AftercareAssumption
    DEF TypeOK, TimePasses, NextDay, UserAnswers, gmailVars, feedbackVars, finalizerVars
<1>1. GmailTypeOK' /\ FeedbackTypeOK' /\ FinalizationTypeOK'
    BY DEF GmailTypeOK, FeedbackTypeOK, FinalizationTypeOK
<1> QED
    BY <1>1

LEMMA NextTypes == TypeOK /\ [Next]_vars => TypeOK'
<1>1. TypeOK /\ UNCHANGED vars => TypeOK'
    BY DEF TypeOK, vars, gmailVars, feedbackVars, finalizerVars, GmailTypeOK, FeedbackTypeOK,
           FinalizationTypeOK
<1> QED
    BY <1>1, OpenTypes, CollectTypes, LearnTypes, ScanTypes, ActTypes, RecordTypes, RunTypes,
       FinalizerTypes, UserTypes, OtherTypes DEF Next

(***************************************************************************)
(* The inductive invariant.  An execution is recorded once, and what waits *)
(* to be moved has none (RunFresh); what the finalizer has listed is still *)
(* due, since neither execution nor finalization changes under it, and     *)
(* time only passes (FinalizerStands); a message whose move was taken back *)
(* has what bars every executor from it (UndoneBarred).                    *)
(***************************************************************************)
RunFresh ==
    /\ \A m \in run.todo : exec[m].outcome = "none"
    /\ run.stage = "record" => exec[run.message].outcome = "none" /\ run.message \notin run.todo

Due(m) ==
    /\ exec[m].outcome \in Quarantined
    /\ day >= exec[m].on + Delay
    /\ final[m] = "none"

FinalizerStands ==
    /\ \A m \in fin.todo : Due(m)
    /\ fin.stage = "post" => Due(fin.message)
    /\ fin.stage \in {"post", "record"} =>
         fin.message \notin fin.todo /\ exec[fin.message].outcome \in Quarantined
    /\ \A m \in Messages : final[m] # "none" => exec[m].outcome \in Quarantined

UndoneBarred ==
    \A m \in undone :
        /\ exec[m].outcome # "none"
        /\ ~Raced(m)
        /\ \/ ~box[m].label
           \/ exec[m].outcome = "moved_to_trash"
           \/ final[m] # "none"

IInv == TypeOK /\ RunFresh /\ FinalizerStands /\ UndoneBarred /\ DelayObserved

(***************************************************************************)
(* What each variable is changed by.                                       *)
(***************************************************************************)
LEMMA ExecFrame ==
    ASSUME TypeOK, RunFresh, [Next]_vars, NEW m \in Messages
    PROVE  \/ exec'[m] = exec[m]
           \/ RecordExecution /\ m = run.message /\ exec[m].outcome = "none"
<1>1. CASE RecordExecution
    BY <1>1 DEF RecordExecution, TypeOK, FinalizationTypeOK, RunFresh
<1>2. CASE UNCHANGED exec
    BY <1>2
<1>3. RecordExecution \/ UNCHANGED exec
  <2>1. FinalizationNext => UNCHANGED exec
      BY DEF FinalizationNext, ListMature, InspectMature, Finalize, RecordFinalization,
             FinalizationEnds
  <2> QED
      BY <2>1 DEF Next, vars, OpenSession, Collect, Scan, OutcomeRejected, EndRun, AbortSession,
             Finalizer, TimePasses, Act, SkipKept, UserActs, UserAnswers, Learn
<1> QED
    BY <1>1, <1>2, <1>3

LEMMA FinFrame ==
    ASSUME [Next]_vars
    PROVE  UNCHANGED <<fin, final>> \/ Finalizer
    BY DEF Next, vars, OpenSession, Collect, Scan, RecordExecution, OutcomeRejected, EndRun,
           AbortSession, TimePasses, Act, SkipKept, UserActs, UserAnswers, Learn, finalizerVars

LEMMA DayFrame == ASSUME TypeOK, [Next]_vars PROVE day' \in Nat /\ day' >= day
<1>1. day \in Nat
    BY DEF TypeOK, GmailTypeOK
<1>2. CASE TimePasses
    BY <1>1, <1>2 DEF TimePasses, NextDay
<1>3. CASE UNCHANGED day
    BY <1>1, <1>3
<1>4. TimePasses \/ UNCHANGED day
  <2>1. \A m, b, who : Change(m, b, who) => UNCHANGED day
      BY DEF Change
  <2>2. Finalizer => UNCHANGED day
      BY <2>1 DEF Finalizer, FinalizationNext, ListMature, InspectMature, Finalize,
             RecordFinalization, FinalizationEnds, gmailVars
  <2>3. \A m \in Messages : Act(m) \/ UserActs(m) => UNCHANGED day
      BY <2>1 DEF Act, UserActs, gmailVars
  <2> QED
      BY <2>2, <2>3 DEF Next, vars, OpenSession, Collect, Scan, RecordExecution,
             OutcomeRejected, EndRun, AbortSession, SkipKept, UserAnswers, Learn, gmailVars
<1> QED
    BY <1>2, <1>3, <1>4

LEMMA HistoryFrame ==
    ASSUME [Next]_vars
    PROVE  \/ UNCHANGED <<box, history, historyId, labelMade>>
           \/ \E m \in Messages :
                \/ Act(m) /\ Change(m, ExecutorEffect(run.toTrash, box[m]), "run")
                \/ UserActs(m)
           \/ Finalize
<1>1. Finalizer => UNCHANGED <<box, history, historyId, labelMade>> \/ Finalize
    BY DEF Finalizer, FinalizationNext, ListMature, InspectMature, RecordFinalization,
           FinalizationEnds, gmailVars
<1>2. ASSUME NEW m \in Messages, Act(m)
      PROVE  \/ UNCHANGED <<box, history, historyId, labelMade>>
             \/ Change(m, ExecutorEffect(run.toTrash, box[m]), "run")
    BY <1>2 DEF Act, gmailVars
<1> QED
    BY <1>1, <1>2 DEF Next, vars, OpenSession, Collect, Scan, RecordExecution,
       OutcomeRejected, EndRun, AbortSession, SkipKept, UserAnswers, Learn, TimePasses, NextDay,
       gmailVars

LEMMA InitInductive == Init => IInv
<1> SUFFICES ASSUME Init PROVE IInv
    OBVIOUS
<1>1. RunFresh /\ FinalizerStands /\ UndoneBarred /\ DelayObserved
    BY DEF Init, GmailInit, FinalizationInit, Idle, NoFinalization, RunFresh, FinalizerStands,
           UndoneBarred, DelayObserved, By
<1> QED
    BY <1>1, InitTypes DEF IInv

LEMMA FreshInductive == TypeOK /\ RunFresh /\ [Next]_vars => RunFresh'
<1> SUFFICES ASSUME TypeOK, RunFresh, [Next]_vars PROVE RunFresh'
    OBVIOUS
<1>1. CASE RecordExecution
  <2>1. /\ run.message \in Messages /\ run.todo \subseteq Messages /\ run.message \notin run.todo
        /\ run'.stage = "act" /\ run'.todo = run.todo
      BY <1>1 DEF RecordExecution, TypeOK, RunStates, RunFresh
  <2>2. \A m \in run.todo : exec'[m] = exec[m]
      BY <1>1, <2>1 DEF RecordExecution, TypeOK, FinalizationTypeOK
  <2> QED
      BY <2>1, <2>2 DEF RunFresh
<1>2. CASE UNCHANGED exec /\ run'.todo \subseteq run.todo
           /\ (run'.stage = "record" => run.stage = "record" /\ run'.message = run.message)
    BY <1>2 DEF RunFresh
<1>3. CASE Scan
  <2>1. UNCHANGED exec /\ run'.stage = "act"
        /\ \A m \in run'.todo : exec[m].outcome = "none"
      BY <1>3 DEF Scan, Pending, TypeOK, RunStates
  <2> QED
      BY <2>1 DEF RunFresh
<1>4. ASSUME NEW m \in Messages, Act(m) PROVE RunFresh'
  <2>1. UNCHANGED exec /\ run'.message = m /\ run'.todo = run.todo \ {m} /\ m \in run.todo
      BY <1>4 DEF Act, TypeOK, RunStates
  <2> QED
      BY <2>1 DEF RunFresh
<1>5. ASSUME ~RecordExecution, ~Scan, ~\E m \in Messages : Act(m)
      PROVE  UNCHANGED exec /\ run'.todo \subseteq run.todo
             /\ (run'.stage = "record" => run.stage = "record" /\ run'.message = run.message)
  <2>1. UNCHANGED exec
      BY <1>5, ExecFrame, FinFrame DEF Next, vars, OpenSession, Collect, Scan, OutcomeRejected,
         EndRun, AbortSession, Finalizer, TimePasses, Act, SkipKept, UserActs, UserAnswers, Learn,
         FinalizationNext, ListMature, InspectMature, Finalize, RecordFinalization,
         FinalizationEnds
  <2>2. CASE UNCHANGED run
      BY <2>1, <2>2
  <2>3. CASE OpenSession \/ OutcomeRejected \/ EndRun \/ AbortSession
    <3>1. CASE OpenSession
        BY <2>1, <3>1 DEF OpenSession, Idle
    <3>2. CASE run' = Idle
        BY <2>1, <3>2 DEF Idle
    <3>3. CASE run' = [run EXCEPT !.stage = "sync"]
        BY <2>1, <3>3 DEF TypeOK, RunStates
    <3> QED
        BY <2>3, <3>1, <3>2, <3>3 DEF OutcomeRejected, EndRun, AbortSession
  <2>4. CASE Collect \/ \E m \in Messages : SkipKept(m)
    <3>1. /\ run'.todo \subseteq run.todo /\ run'.message = run.message
          /\ run'.stage \in {run.stage, "scan"}
      <4>1. CASE Collect
          BY <4>1 DEF Collect, TypeOK, RunStates
      <4>2. ASSUME NEW m \in Messages, SkipKept(m)
            PROVE  run' = [run EXCEPT !.todo = run.todo \ {m}]
          BY <4>2 DEF SkipKept
      <4> QED
          BY <2>4, <4>1, <4>2 DEF TypeOK, RunStates
    <3> QED
        BY <2>1, <3>1
  <2> QED
      BY <1>5, <2>2, <2>3, <2>4 DEF Next, vars, Finalizer, TimePasses, UserActs, UserAnswers, Learn
<1> QED
    BY <1>1, <1>2, <1>3, <1>4, <1>5

(***************************************************************************)
(* What is due stays due until the finalizer itself settles it.            *)
(***************************************************************************)
LEMMA DueStays ==
    ASSUME TypeOK, RunFresh, [Next]_vars, NEW m \in Messages, Due(m), final'[m] = "none"
    PROVE  Due(m)'
<1>1. exec'[m] = exec[m]
    BY ExecFrame DEF Due, Quarantined
<1>2. exec[m].on + Delay \in Nat /\ day \in Nat
    BY FinalizationAssumption DEF TypeOK, GmailTypeOK, FinalizationTypeOK
<1> QED
    BY <1>1, <1>2, DayFrame DEF Due

LEMMA FinalizerInductive ==
    TypeOK /\ RunFresh /\ FinalizerStands /\ [Next]_vars => FinalizerStands'
<1> SUFFICES ASSUME TypeOK, RunFresh, FinalizerStands, [Next]_vars PROVE FinalizerStands'
    OBVIOUS
<1>0. /\ fin.todo \subseteq Messages
      /\ fin.stage \in {"post", "record"} => fin.message \in Messages
      /\ fin \in Finalizations /\ final \in [Messages -> FinalOutcomes \cup {"none"}]
    BY DEF TypeOK, FinalizationTypeOK, Finalizations
<1>1. \A m \in Messages :
        exec[m].outcome \in Quarantined => exec'[m].outcome \in Quarantined
    BY ExecFrame DEF Quarantined
<1>2. CASE UNCHANGED <<fin, final>>
    BY <1>0, <1>1, <1>2, DueStays DEF FinalizerStands, Due
<1>3. CASE ListMature
  <2>1. PICK listed \in SUBSET {m \in Messages : Mature(m)} :
           fin' = [NoFinalization EXCEPT !.stage = "list", !.todo = listed]
      BY <1>3 DEF ListMature
  <2>2. /\ UNCHANGED <<final, exec, day>> /\ fin'.stage = "list" /\ fin'.todo = listed
      BY <1>3, <2>1 DEF ListMature, NoFinalization, gmailVars
  <2>3. \A m \in listed : Due(m)
      BY DEF Mature, Due
  <2> QED
      BY <2>2, <2>3 DEF FinalizerStands, Due
<1>4. ASSUME NEW m \in Messages, InspectMature(m) PROVE FinalizerStands'
  <2>1. /\ UNCHANGED <<final, exec, day>> /\ fin'.message = m /\ fin'.todo = fin.todo \ {m}
        /\ m \in fin.todo
      BY <1>0, <1>4 DEF InspectMature, Finalizations, gmailVars
  <2> QED
      BY <2>1 DEF FinalizerStands, Due
<1>5. CASE Finalize
  <2>1. /\ UNCHANGED <<final, exec, day>> /\ fin'.stage = "record" /\ fin.stage = "post"
        /\ fin'.message = fin.message /\ fin'.todo = fin.todo
      BY <1>0, <1>5 DEF Finalize, Finalizations, Change
  <2> QED
      BY <2>1 DEF FinalizerStands, Due
<1>6. CASE RecordFinalization
  <2>1. /\ UNCHANGED <<exec, day>> /\ fin'.todo \subseteq fin.todo /\ fin'.stage \in {"none", "list"}
        /\ \A m \in Messages : m # fin.message => final'[m] = final[m]
        /\ fin.message \in Messages /\ fin.stage = "record"
      BY <1>0, <1>6 DEF RecordFinalization, NoFinalization, gmailVars
  <2> QED
      BY <1>0, <2>1 DEF FinalizerStands, Due
<1>7. CASE FinalizationEnds
    BY <1>7 DEF FinalizationEnds, FinalizerStands, NoFinalization
<1> QED
    BY <1>2, <1>3, <1>4, <1>5, <1>6, <1>7, FinFrame DEF Finalizer, FinalizationNext

(***************************************************************************)
(* A message whose move was taken back cannot get the label again, and the *)
(* finalizer cannot pass it.                                               *)
(***************************************************************************)
LEMMA UndoneLabel ==
    ASSUME TypeOK, RunFresh, UndoneBarred, [Next]_vars, NEW m \in undone
    PROVE  box'[m].label => box[m].label
<1>0. m \in Messages /\ box \in [Messages -> Boxes]
    BY DEF TypeOK, GmailTypeOK
<1>1. CASE UNCHANGED <<box, history>>
    BY <1>1
<1>2. ASSUME NEW n \in Messages, Act(n), Change(n, ExecutorEffect(run.toTrash, box[n]), "run")
      PROVE  box'[m].label => box[m].label
  <2>1. n # m
      BY <1>2 DEF Act, RunFresh, UndoneBarred
  <2> QED
      BY <1>0, <1>2, <2>1 DEF Change
<1>3. ASSUME NEW n \in Messages, UserActs(n) PROVE box'[m].label => box[m].label
  <2>1. PICK g \in Gestures : box' = [box EXCEPT ![n] = AfterGesture(box[n], g)]
      BY <1>3, AftercareAssumption DEF UserActs, Change
  <2> QED
      BY <1>0, <2>1, GestureType
<1>4. CASE Finalize
    BY <1>0, <1>4 DEF Finalize, Change, Trashed, Boxes
<1> QED
    BY <1>1, <1>2, <1>3, <1>4, HistoryFrame

LEMMA FinalStays ==
    ASSUME TypeOK, [Next]_vars, NEW m \in Messages, final[m] # "none"
    PROVE  final'[m] = final[m]
    BY FinFrame
    DEF Finalizer, FinalizationNext, ListMature, InspectMature, Finalize, RecordFinalization,
        FinalizationEnds, TypeOK, FinalizationTypeOK

LEMMA UndoneNotRaced ==
    ASSUME TypeOK, FinalizerStands, UndoneBarred, [Next]_vars, NEW m \in undone
    PROVE  ~Raced(m)'
<1>0. m \in Messages /\ fin \in Finalizations /\ box[m].place \in Places
    BY DEF TypeOK, GmailTypeOK, FinalizationTypeOK, Boxes
<1>1. CASE UNCHANGED <<fin, final>>
    BY <1>1 DEF Raced, UndoneBarred
<1>2. ASSUME NEW n \in Messages, InspectMature(n) PROVE ~Raced(m)'
  <2>1. CASE n # m
      BY <1>0, <1>2, <2>1 DEF InspectMature, Raced, Finalizations
  <2>2. CASE n = m
    <3>1. Due(m)
        BY <1>2, <2>2 DEF InspectMature, FinalizerStands
    <3>2. ~box[m].label
        BY <3>1 DEF Due, UndoneBarred, Quarantined
    <3>3. FinalVerdict(box[m], ExpectsUnread(row[m])) # "proceed"
        BY <1>0, <3>2 DEF FinalVerdict, Places
    <3> QED
        BY <1>0, <1>2, <2>2, <3>3 DEF InspectMature, Raced, Finalizations
  <2> QED
      BY <2>1, <2>2
<1>3. CASE ListMature \/ Finalize \/ RecordFinalization \/ FinalizationEnds
  <2>1. CASE ListMature
      BY <2>1 DEF ListMature, NoFinalization, Raced
  <2>2. CASE Finalize
      BY <1>0, <2>2 DEF Finalize, Raced, Finalizations
  <2>3. CASE RecordFinalization
      BY <2>3 DEF RecordFinalization, NoFinalization, Raced
  <2>4. CASE FinalizationEnds
      BY <2>4 DEF FinalizationEnds, NoFinalization, Raced
  <2> QED
      BY <1>3, <2>1, <2>2, <2>3, <2>4
<1> QED
    BY <1>1, <1>2, <1>3, FinFrame DEF Finalizer, FinalizationNext

LEMMA UndoneInductive ==
    TypeOK /\ RunFresh /\ FinalizerStands /\ UndoneBarred /\ [Next]_vars => UndoneBarred'
<1> SUFFICES ASSUME TypeOK, RunFresh, FinalizerStands, UndoneBarred, [Next]_vars,
                    NEW m \in undone'
             PROVE  (/\ exec[m].outcome # "none"
                     /\ ~Raced(m)
                     /\ \/ ~box[m].label
                        \/ exec[m].outcome = "moved_to_trash"
                        \/ final[m] # "none")'
    BY DEF UndoneBarred
<1>1. CASE m \in undone
  <2>1. m \in Messages /\ exec'[m] = exec[m]
      BY <1>1, ExecFrame DEF UndoneBarred, TypeOK
  <2> QED
      BY <1>1, <2>1, UndoneLabel, FinalStays, UndoneNotRaced DEF UndoneBarred
<1>2. CASE m \notin undone
  <2>1. PICK n \in Messages : UserActs(n)
      BY <1>2 DEF Next, vars, OpenSession, Collect, Scan, RecordExecution, OutcomeRejected,
         EndRun, AbortSession, Finalizer, TimePasses, Act, SkipKept, UserAnswers, Learn
  <2>2. PICK c : /\ Change(n, c, "user")
                 /\ undone' = IF TakesBack(n, c) /\ ~Raced(n) THEN undone \cup {n} ELSE undone
      BY <2>1 DEF UserActs
  <2>3. m = n /\ TakesBack(m, c) /\ ~Raced(m)
      BY <1>2, <2>2
  <2>4. UNCHANGED <<exec, fin, final>> /\ m \in Messages
      BY <2>1, <2>3 DEF UserActs, finalizerVars
  <2>5. box'[m] = c
      BY <2>2, <2>3, <2>4 DEF Change, TypeOK, GmailTypeOK
  <2> QED
      BY <2>3, <2>4, <2>5 DEF TakesBack, Raced, FinalizerStands, Quarantined
<1> QED
    BY <1>1, <1>2

(***************************************************************************)
(* The finalizer's moves keep their dates and their execution.             *)
(***************************************************************************)
LEMMA DelayInductive ==
    TypeOK /\ RunFresh /\ FinalizerStands /\ DelayObserved /\ [Next]_vars => DelayObserved'
<1> SUFFICES ASSUME TypeOK, RunFresh, FinalizerStands, DelayObserved, [Next]_vars,
                    NEW c \in history', c.by = "finalizer"
             PROVE  /\ exec'[c.message].outcome \in Quarantined
                    /\ c.on >= exec'[c.message].on + Delay
    BY DEF DelayObserved, By
<1>1. CASE c \in history
  <2>1. c.message \in Messages /\ exec[c.message].outcome \in Quarantined
      BY <1>1 DEF DelayObserved, By, TypeOK, GmailTypeOK, Changes
  <2>2. exec'[c.message] = exec[c.message]
      BY <2>1, ExecFrame DEF Quarantined
  <2> QED
      BY <1>1, <2>2 DEF DelayObserved, By
<1>2. CASE c \notin history
  <2>1. Finalize
    <3>1. ASSUME NEW m, NEW b, Change(m, b, "run") \/ Change(m, b, "user") PROVE FALSE
        BY <1>2, <3>1 DEF Change
    <3> QED
        BY <1>2, <3>1, HistoryFrame DEF UserActs
  <2>2. c.message = fin.message /\ c.on = day /\ UNCHANGED exec
      BY <1>2, <2>1 DEF Finalize, Change
  <2> QED
      BY <2>1, <2>2 DEF FinalizerStands, Due, Finalize
<1> QED
    BY <1>1, <1>2

(***************************************************************************)
(* The invariant is inductive.                                             *)
(***************************************************************************)
THEOREM AftercareInductive == Spec => []IInv
<1>1. Init => IInv
    BY InitInductive
<1>2. IInv /\ [Next]_vars => IInv'
    BY NextTypes, FreshInductive, FinalizerInductive, UndoneInductive, DelayInductive DEF IInv
<1> QED
    BY <1>1, <1>2, PTL DEF Spec

(***************************************************************************)
(* Type correctness, for any messages and bounds.                          *)
(***************************************************************************)
THEOREM AftercareTypes == Spec => []TypeOK
<1>1. IInv => TypeOK
    BY DEF IInv
<1> QED
    BY <1>1, AftercareInductive, PTL

(***************************************************************************)
(* The finalizer never acts before the ledger's date plus the delay, nor   *)
(* on a message the ledger does not have quarantined.                      *)
(***************************************************************************)
THEOREM AftercareDelay == Spec => []DelayObserved
<1>1. IInv => DelayObserved
    BY DEF IInv
<1> QED
    BY <1>1, AftercareInductive, PTL

(***************************************************************************)
(* What the user has taken back, InboxLume leaves alone.                   *)
(***************************************************************************)
THEOREM AftercareUndone == Spec => UndoneStays
<1>1. ASSUME IInv, [Next]_vars
      PROVE  [\A m \in undone : box'[m] # box[m] =>
                 \E c \in history' \ history : c.message = m /\ c.by = "user"]_vars
  <2> SUFFICES ASSUME NEW m \in undone, box'[m] # box[m]
               PROVE  \E c \in history' \ history : c.message = m /\ c.by = "user"
      OBVIOUS
  <2>0. m \in Messages /\ TypeOK /\ box \in [Messages -> Boxes]
      BY <1>1 DEF IInv, TypeOK, GmailTypeOK
  <2>1. ASSUME NEW n \in Messages, Act(n), Change(n, ExecutorEffect(run.toTrash, box[n]), "run")
        PROVE  FALSE
    <3>1. n # m
        BY <1>1, <2>1 DEF Act, IInv, RunFresh, UndoneBarred
    <3> QED
        BY <2>0, <2>1, <3>1 DEF Change
  <2>2. ASSUME Finalize PROVE FALSE
    <3>1. fin.message # m
        BY <1>1, <2>2 DEF Finalize, IInv, UndoneBarred, Raced
    <3> QED
        BY <2>0, <2>2, <3>1 DEF Finalize, Change
  <2>3. PICK n \in Messages : UserActs(n)
    <3>1. ~UNCHANGED <<box, history>>
        OBVIOUS
    <3>2. \/ \E n \in Messages :
               \/ Act(n) /\ Change(n, ExecutorEffect(run.toTrash, box[n]), "run")
               \/ UserActs(n)
          \/ Finalize
      <4>1. [Next]_vars
          BY <1>1
      <4> QED
          BY <4>1, <3>1, HistoryFrame
    <3> QED
        BY <2>1, <2>2, <3>2
  <2>4. PICK b : Change(n, b, "user")
      BY <2>3 DEF UserActs
  <2>5. n = m
      BY <2>0, <2>4 DEF Change
  <2> DEFINE c == [id |-> historyId + 1, message |-> m,
                   added |-> LabelsOf(b) \ LabelsOf(box[m]),
                   removed |-> LabelsOf(box[m]) \ LabelsOf(b),
                   carried |-> LabelsOf(box[m]) \cup LabelsOf(b),
                   by |-> "user", on |-> day]
  <2>6. c \in history' /\ c.id = historyId + 1 /\ c.message = m /\ c.by = "user"
      BY <2>4, <2>5 DEF Change
  <2>7. c \notin history
      BY <2>0, <2>6 DEF TypeOK, GmailTypeOK
  <2> QED
      BY <2>6, <2>7
<1> QED
    BY <1>1, AftercareInductive, PTL DEF Spec, UndoneStays

-----------------------------------------------------------------------------
(***************************************************************************)
(* What InboxLume learns of a message after it has moved it: no restore    *)
(* that the user did not make.                                             *)
(***************************************************************************)

(***************************************************************************)
(* The label changes a step makes.  InboxLume never puts a message into    *)
(* Inbox or takes its label off, and only a run puts the label on.         *)
(***************************************************************************)
Makes(m, b, who) ==
    /\ Change(m, b, who)
    /\ who # "user" => /\ b.place = "inbox" => box[m].place = "inbox"
                       /\ box[m].label => b.label
    /\ box[m].label /\ ~b.label => b.place = box[m].place
    /\ b.label /\ ~box[m].label => who = "run"

LEMMA ChangesMade ==
    ASSUME TypeOK, [Next]_vars
    PROVE  \/ UNCHANGED <<box, history, historyId, labelMade>>
           \/ \E m \in Messages, b \in Boxes, who \in Authors : Makes(m, b, who)
<1>0. /\ \A m \in Messages : box[m] \in Boxes
      /\ run.toTrash \in BOOLEAN
    BY DEF TypeOK, GmailTypeOK, RunStates
<1>1. ASSUME NEW m \in Messages, Change(m, ExecutorEffect(run.toTrash, box[m]), "run")
      PROVE  \E n \in Messages, b \in Boxes, who \in Authors : Makes(n, b, who)
  <2>1. ExecutorEffect(run.toTrash, box[m]) \in Boxes
      BY <1>0, ExecutorType, TRUE \in BOOLEAN
  <2>2. Makes(m, ExecutorEffect(run.toTrash, box[m]), "run")
      BY <1>0, <1>1 DEF Makes, ExecutorEffect, Labelled, Trashed, Boxes
  <2> QED
      BY <2>1, <2>2 DEF Authors
<1>2. ASSUME NEW m \in Messages, UserActs(m)
      PROVE  \E n \in Messages, b \in Boxes, who \in Authors : Makes(n, b, who)
  <2>1. PICK g \in Gestures : Change(m, AfterGesture(box[m], g), "user")
      BY <1>2, AftercareAssumption DEF UserActs
  <2>2. AfterGesture(box[m], g) \in Boxes /\ Makes(m, AfterGesture(box[m], g), "user")
      BY <1>0, <2>1, GestureType DEF Makes
  <2> QED
      BY <2>2 DEF Authors
<1>3. CASE Finalize
  <2>1. fin.message \in Messages
      BY <1>3 DEF Finalize, TypeOK, FinalizationTypeOK, Finalizations
  <2>2. /\ Trashed(box[fin.message]) \in Boxes
        /\ Makes(fin.message, Trashed(box[fin.message]), "finalizer")
      BY <1>0, <1>3, <2>1 DEF Finalize, Makes, Trashed, Boxes, Places
  <2> QED
      BY <2>1, <2>2 DEF Authors
<1> QED
    BY <1>1, <1>2, <1>3, HistoryFrame

(***************************************************************************)
(* What a new change records.                                              *)
(***************************************************************************)
Entry(m, b, who) ==
    [id |-> historyId + 1, message |-> m,
     added |-> LabelsOf(b) \ LabelsOf(box[m]), removed |-> LabelsOf(box[m]) \ LabelsOf(b),
     carried |-> LabelsOf(box[m]) \cup LabelsOf(b), by |-> who, on |-> day]

LEMMA EntryFacts ==
    ASSUME TypeOK, NEW m \in Messages, NEW b \in Boxes, NEW who \in Authors, Makes(m, b, who),
           NEW e, e = Entry(m, b, who)
    PROVE  /\ history' = history \cup {e} /\ e \notin history
           /\ e.id = historyId + 1 /\ e.message = m /\ e.by = who
           /\ "INBOX" \in e.added <=> b.place = "inbox" /\ box[m].place # "inbox"
           /\ "TRASH" \in e.added <=> b.place = "trash" /\ box[m].place # "trash"
           /\ QuarantineLabel \in e.removed <=> box[m].label /\ ~b.label
           /\ QuarantineLabel \in e.added <=> b.label /\ ~box[m].label
           /\ e.added \subseteq e.carried /\ e.removed \subseteq e.carried
           /\ box' = [box EXCEPT ![m] = b] /\ historyId' = historyId + 1
<1>1. history' = history \cup {e} /\ box' = [box EXCEPT ![m] = b] /\ historyId' = historyId + 1
    BY DEF Makes, Change, Entry
<1>2. /\ e.id = historyId + 1 /\ e.message = m /\ e.by = who
      /\ e.added = LabelsOf(b) \ LabelsOf(box[m])
      /\ e.removed = LabelsOf(box[m]) \ LabelsOf(b)
      /\ e.carried = LabelsOf(box[m]) \cup LabelsOf(b)
    BY DEF Entry
<1>3. e \notin history
    BY <1>2 DEF TypeOK, GmailTypeOK
<1>4. \A c \in {b, box[m]} :
        /\ "INBOX" \in LabelsOf(c) <=> c.place = "inbox"
        /\ "TRASH" \in LabelsOf(c) <=> c.place = "trash"
        /\ QuarantineLabel \in LabelsOf(c) <=> c.label
    BY DEF LabelsOf, Labels, QuarantineLabel
<1> QED
    BY <1>1, <1>2, <1>3, <1>4

(***************************************************************************)
(* Where a restore comes from.                                             *)
(***************************************************************************)
Moved(m) == \E d \in Moves : d.message = m

Restored(m) == \E c \in Restores : c.message = m

HistorySays ==
    /\ \A c \in history : c.by # "user" => "INBOX" \notin c.added /\ QuarantineLabel \notin c.removed
    /\ \A c \in history : QuarantineLabel \in c.removed => "TRASH" \notin c.added
    /\ \A m \in Messages : box[m].label => Moved(m)

MovesSay ==
    /\ run.stage = "record" /\ Kept(run.outcome) # "skipped" => Moved(run.message)
    /\ \A m \in Messages : exec[m].outcome \notin {"none", "skipped"} => Moved(m)
    /\ fin.stage = "record" /\ fin.outcome = "moved_to_trash" => Moved(fin.message)
    /\ \A m \in Messages : final[m] = "moved_to_trash" => Moved(m)

SyncSays ==
    /\ \A m \in Messages :
         "INBOX" \in sync.added[m] \/ QuarantineLabel \in sync.removed[m] => Restored(m)
    /\ \A m \in Messages : <<m, "restored">> \in sync.signals => Restored(m)

CauseInv == HistorySays /\ MovesSay /\ SyncSays /\ RestoreHasCause

LEMMA InitCause == Init => CauseInv
<1> SUFFICES ASSUME Init PROVE CauseInv
    OBVIOUS
<1> USE DEF Init, GmailInit, FeedbackInit, FinalizationInit
<1>1. HistorySays
    BY AftercareAssumption DEF HistorySays
<1>2. MovesSay
    BY DEF MovesSay, Idle, NoExec, NoFinalization
<1>3. SyncSays /\ RestoreHasCause
    BY DEF SyncSays, RestoreHasCause, NoSync
<1> QED
    BY <1>1, <1>2, <1>3 DEF CauseInv

(***************************************************************************)
(* History only grows, and with it what it says.                           *)
(***************************************************************************)
LEMMA HistoryGrows ==
    ASSUME TypeOK, [Next]_vars
    PROVE  /\ history \subseteq history'
           /\ \A m \in Messages : (Moved(m) => Moved(m)') /\ (Restored(m) => Restored(m)')
<1>1. history \subseteq history'
    BY ChangesMade DEF Makes, Change
<1> QED
    BY <1>1 DEF Moved, Restored, Moves, Restores, By

LEMMA ChangeMoves ==
    ASSUME NEW m, NEW b, NEW who \in {"run", "finalizer"}, Change(m, b, who)
    PROVE  Moved(m)'
<1> DEFINE e == Entry(m, b, who)
<1>1. e \in history' /\ e.message = m /\ e.by = who
    BY DEF Change, Entry
<1> HIDE DEF e
<1> QED
    BY <1>1 DEF Moved, Moves, By

LEMMA HistoryCause == TypeOK /\ HistorySays /\ [Next]_vars => HistorySays'
<1> SUFFICES ASSUME TypeOK, HistorySays, [Next]_vars PROVE HistorySays'
    OBVIOUS
<1>1. CASE UNCHANGED <<box, history, historyId, labelMade>>
    BY <1>1 DEF HistorySays, Moved, Moves, By
<1>2. ASSUME NEW m \in Messages, NEW b \in Boxes, NEW who \in Authors, Makes(m, b, who)
      PROVE  HistorySays'
  <2> DEFINE e == Entry(m, b, who)
  <2>1. /\ history' = history \cup {e} /\ e.message = m /\ e.by = who
        /\ "INBOX" \in e.added <=> b.place = "inbox" /\ box[m].place # "inbox"
        /\ "TRASH" \in e.added <=> b.place = "trash" /\ box[m].place # "trash"
        /\ QuarantineLabel \in e.removed <=> box[m].label /\ ~b.label
        /\ box' = [box EXCEPT ![m] = b]
      BY <1>2, EntryFacts
  <2> HIDE DEF e
  <2>2. e.by # "user" => "INBOX" \notin e.added /\ QuarantineLabel \notin e.removed
      BY <1>2, <2>1 DEF Makes
  <2>3. QuarantineLabel \in e.removed => "TRASH" \notin e.added
      BY <1>2, <2>1 DEF Makes
  <2>4. ASSUME NEW n \in Messages, box'[n].label PROVE Moved(n)'
    <3>1. CASE box[n].label
        BY <3>1, HistoryGrows DEF HistorySays
    <3>2. CASE ~box[n].label
      <4>1. n = m /\ who = "run"
          BY <1>2, <2>1, <2>4, <3>2 DEF Makes, TypeOK, GmailTypeOK
      <4> QED
          BY <2>1, <4>1 DEF Moved, Moves, By
    <3> QED
        BY <3>1, <3>2
  <2> QED
      BY <2>1, <2>2, <2>3, <2>4 DEF HistorySays
<1> QED
    BY <1>1, <1>2, ChangesMade

LEMMA MovesCause == TypeOK /\ RunFresh /\ HistorySays /\ MovesSay /\ [Next]_vars => MovesSay'
<1> SUFFICES ASSUME TypeOK, RunFresh, HistorySays, MovesSay, [Next]_vars PROVE MovesSay'
    OBVIOUS
<1>0. \A m \in Messages : Moved(m) => Moved(m)'
    BY HistoryGrows
<1>1. run'.stage = "record" /\ Kept(run'.outcome) # "skipped" => Moved(run.message)'
  <2>1. CASE run'.stage = "record" /\ run' = run
      BY <1>0, <2>1 DEF MovesSay, TypeOK, RunStates
  <2>2. ASSUME NEW m \in Messages, Act(m), Kept(run'.outcome) # "skipped" PROVE Moved(run.message)'
    <3> DEFINE verdict == ExecutorVerdict(run.toTrash, box[m], ExpectsUnread(row[m]))
    <3>1. run'.message = m
          /\ run'.outcome = IF verdict = "proceed" THEN SuccessOutcome(run.toTrash) ELSE verdict
        BY <2>2 DEF Act, TypeOK, RunStates
    <3>2. CASE verdict = "proceed"
      <4>1. Change(m, ExecutorEffect(run.toTrash, box[m]), "run")
          BY <2>2, <3>2 DEF Act
      <4> QED
        <5>1. Moved(m)'
            BY <4>1, ChangeMoves
        <5> QED
            BY <3>1, <5>1 DEF Moved
    <3>3. CASE verdict # "proceed"
      <4>1. box[m].label
          BY <2>2, <3>1, <3>3 DEF ExecutorVerdict, TrashVerdict, QuarantineVerdict, Kept, Quarantined
      <4> QED
          BY <1>0, <3>1, <4>1 DEF HistorySays
    <3> QED
        BY <3>2, <3>3
  <2>3. \/ run' = run \/ run'.stage # "record" \/ \E m \in Messages : Act(m)
    <3>1. CASE OpenSession \/ OutcomeRejected \/ EndRun \/ AbortSession
      <4>1. CASE OpenSession
          BY <4>1 DEF OpenSession, Idle
      <4>2. CASE run' = Idle
          BY <4>2 DEF Idle
      <4>3. CASE run' = [run EXCEPT !.stage = "sync"]
          BY <4>3 DEF TypeOK, RunStates
      <4> QED
          BY <3>1, <4>1, <4>2, <4>3 DEF OutcomeRejected, EndRun, AbortSession
    <3>2. CASE Collect \/ Scan \/ RecordExecution \/ \E m \in Messages : SkipKept(m)
      <4>1. CASE Collect
          BY <4>1 DEF Collect, TypeOK, RunStates
      <4>2. CASE Scan \/ RecordExecution
          BY <4>2 DEF Scan, RecordExecution, TypeOK, RunStates
      <4>3. ASSUME NEW m \in Messages, SkipKept(m)
            PROVE  run.stage = "act" /\ run' = [run EXCEPT !.todo = run.todo \ {m}]
          BY <4>3 DEF SkipKept
      <4> QED
          BY <3>2, <4>1, <4>2, <4>3 DEF TypeOK, RunStates
    <3> QED
        BY <3>1, <3>2 DEF Next, vars, Finalizer, TimePasses, UserActs, UserAnswers, Learn
  <2> QED
      BY <2>1, <2>2, <2>3
<1>2. ASSUME NEW m \in Messages, exec'[m].outcome \notin {"none", "skipped"} PROVE Moved(m)'
  <2>1. CASE exec'[m] = exec[m]
      BY <1>0, <1>2, <2>1 DEF MovesSay
  <2>2. CASE RecordExecution /\ m = run.message
    <3>1. exec'[m].outcome \in {exec[m].outcome, Kept(run.outcome)}
        BY <2>2 DEF RecordExecution, TypeOK, FinalizationTypeOK
    <3> QED
        BY <1>0, <1>2, <2>2, <3>1 DEF MovesSay, RecordExecution
  <2> QED
      BY <2>1, <2>2, ExecFrame
<1>3. fin'.stage = "record" /\ fin'.outcome = "moved_to_trash" => Moved(fin.message)'
  <2>0. fin \in Finalizations
      BY DEF TypeOK, FinalizationTypeOK
  <2>1. CASE UNCHANGED fin
      BY <1>0, <2>0, <2>1 DEF MovesSay, Finalizations, TypeOK, FinalizationTypeOK
  <2>2. CASE Finalize
    <3>1. \E d \in Moves' : d.message = fin.message
        BY <2>2, ChangeMoves DEF Finalize, Moved
    <3>2. fin'.message = fin.message
        BY <2>0, <2>2 DEF Finalize, Finalizations
    <3> QED
        BY <3>1, <3>2 DEF Moved
  <2>3. ASSUME NEW m \in Messages, InspectMature(m)
        PROVE  fin'.outcome # "moved_to_trash"
      BY <2>0, <2>3 DEF InspectMature, Finalizations, FinalVerdict
  <2>4. CASE ListMature \/ RecordFinalization \/ FinalizationEnds
    <3>1. CASE ListMature
        BY <3>1 DEF ListMature, NoFinalization
    <3>2. CASE fin' = NoFinalization
        BY <3>2 DEF NoFinalization
    <3>3. CASE fin' = [NoFinalization EXCEPT !.stage = "list", !.todo = fin.todo]
        BY <3>3 DEF NoFinalization
    <3> QED
        BY <2>4, <3>1, <3>2, <3>3 DEF RecordFinalization, FinalizationEnds
  <2> QED
      BY <2>1, <2>2, <2>3, <2>4, FinFrame DEF Finalizer, FinalizationNext
<1>4. ASSUME NEW m \in Messages, final'[m] = "moved_to_trash" PROVE Moved(m)'
  <2>1. CASE RecordFinalization
      BY <1>0, <1>4, <2>1 DEF RecordFinalization, MovesSay, TypeOK, FinalizationTypeOK
  <2>2. CASE UNCHANGED final
      BY <1>0, <1>4, <2>2 DEF MovesSay
  <2> QED
      BY <2>1, <2>2, FinFrame DEF Finalizer, FinalizationNext, ListMature, InspectMature,
         Finalize, FinalizationEnds
<1> QED
    BY <1>1, <1>2, <1>3, <1>4 DEF MovesSay

(***************************************************************************)
(* What the two listings bring in.                                         *)
(***************************************************************************)
LEMMA ListedChange ==
    ASSUME NEW changes, NEW relevant, NEW m, NEW l
    PROVE  /\ l \in AddedIn(changes, relevant, m) <=>
                l \in relevant /\ \E c \in changes : c.message = m /\ l \in c.added
           /\ l \in RemovedIn(changes, relevant, m) <=>
                l \in relevant /\ \E c \in changes : c.message = m /\ l \in c.removed
    BY DEF AddedIn, RemovedIn

LEMMA RestoringChange ==
    ASSUME TypeOK, HistorySays, NEW c \in history,
           "INBOX" \in c.added \/ QuarantineLabel \in c.removed
    PROVE  Restored(c.message)
<1>1. c.by = "user" /\ "restored" \in SignalsIn(c.added, c.removed)
    BY DEF HistorySays, SignalsIn, Signals
<1> QED
    BY <1>1 DEF Restored, Restores, By

LEMMA LabelSync ==
    ASSUME TypeOK, ReadLabelHistory
    PROVE  LET changes == IF labelMade THEN Listing(QuarantineLabel, cursor) ELSE {}
               relevant == {QuarantineLabel, "INBOX", "TRASH"}
           IN /\ sync' \in Syncs /\ sync'.stage = "learn"
              /\ sync'.added = NoSync.added /\ sync'.removed = NoSync.removed
              /\ sync'.latest = IF labelMade THEN historyId ELSE sync.latest
              /\ \A m \in Messages, s \in Signals :
                   <<m, s>> \in sync'.signals <=>
                     s \in SignalsIn(sync.added[m] \cup AddedIn(changes, relevant, m),
                                     sync.removed[m] \cup RemovedIn(changes, relevant, m))
<1> DEFINE changes == IF labelMade THEN Listing(QuarantineLabel, cursor) ELSE {}
           relevant == {QuarantineLabel, "INBOX", "TRASH"}
           added == [m \in Messages |-> sync.added[m] \cup AddedIn(changes, relevant, m)]
           removed == [m \in Messages |-> sync.removed[m] \cup RemovedIn(changes, relevant, m)]
           signals == {ms \in Messages \X Signals :
                         ms[2] \in SignalsIn(added[ms[1]], removed[ms[1]])}
           latest == IF labelMade THEN historyId ELSE sync.latest
<1>1. sync' = [sync EXCEPT !.stage = "learn", !.latest = latest, !.added = NoSync.added,
                           !.removed = NoSync.removed, !.signals = signals]
    BY DEF ReadLabelHistory
<1>2. \A m \in Messages, s \in Signals :
        <<m, s>> \in signals <=>
          s \in SignalsIn(sync.added[m] \cup AddedIn(changes, relevant, m),
                          sync.removed[m] \cup RemovedIn(changes, relevant, m))
    OBVIOUS
<1>3. /\ NoSync.added \in [Messages -> SUBSET Labels]
      /\ NoSync.removed \in [Messages -> SUBSET Labels]
      /\ signals \in SUBSET (Messages \X Signals)
      /\ latest \in Nat /\ sync \in Syncs
    BY DEF NoSync, TypeOK, FeedbackTypeOK, GmailTypeOK, Syncs
<1> HIDE DEF signals, latest, changes, relevant
<1>4. /\ sync' \in Syncs /\ sync'.stage = "learn" /\ sync'.signals = signals
      /\ sync'.latest = latest
      /\ sync'.added = NoSync.added /\ sync'.removed = NoSync.removed
    BY <1>1, <1>3 DEF Syncs
<1> QED
    BY <1>2, <1>4 DEF latest, changes, relevant

LEMMA InboxSync ==
    ASSUME TypeOK, ReadInboxHistory
    PROVE  LET changes == Listing("INBOX", cursor)
               relevant == {"INBOX", "UNREAD", "STARRED", "TRASH"}
           IN /\ sync'.stage = "labels" /\ sync'.latest = historyId
              /\ sync'.signals = sync.signals
              /\ \A m \in Messages : /\ sync'.added[m] = AddedIn(changes, relevant, m)
                                     /\ sync'.removed[m] = RemovedIn(changes, relevant, m)
<1> DEFINE changes == Listing("INBOX", cursor)
           relevant == {"INBOX", "UNREAD", "STARRED", "TRASH"}
           added == [m \in Messages |-> AddedIn(changes, relevant, m)]
           removed == [m \in Messages |-> RemovedIn(changes, relevant, m)]
<1>1. sync' = [sync EXCEPT !.stage = "labels", !.latest = historyId,
                           !.added = added, !.removed = removed]
    BY DEF ReadInboxHistory
<1>2. \A m \in Messages : /\ added[m] = AddedIn(changes, relevant, m)
                          /\ removed[m] = RemovedIn(changes, relevant, m)
    OBVIOUS
<1>3. sync \in Syncs
    BY DEF TypeOK, FeedbackTypeOK
<1> HIDE DEF added, removed
<1>4. /\ sync'.stage = "labels" /\ sync'.latest = historyId /\ sync'.signals = sync.signals
      /\ sync'.added = added /\ sync'.removed = removed
    BY <1>1, <1>3 DEF Syncs
<1> QED
    BY <1>2, <1>4

LEMMA SyncFrame ==
    ASSUME [Next]_vars
    PROVE  \/ UNCHANGED <<cursor, sync>>
           \/ sync' = NoSync
           \/ OpenSync \/ ReadInboxHistory \/ ReadLabelHistory
           \/ \E m \in Messages, signal \in Signals : Learn(m, signal)
    BY DEF Next, vars, OpenSession, Collect, InitCursor, ResetCursor, SetCursor, Scan, Register,
           RecordExecution, OutcomeRejected, EndRun, AbortSession, TimePasses, Act, SkipKept,
           UserActs, UserAnswers, Finalizer, feedbackVars

LEMMA SyncCause == TypeOK /\ HistorySays /\ SyncSays /\ [Next]_vars => SyncSays'
<1> SUFFICES ASSUME TypeOK, HistorySays, SyncSays, [Next]_vars PROVE SyncSays'
    OBVIOUS
<1>0. \A m \in Messages : Restored(m) => Restored(m)'
    BY HistoryGrows
<1>1. CASE UNCHANGED <<cursor, sync>>
    BY <1>0, <1>1 DEF SyncSays
<1>2. CASE sync' = NoSync \/ OpenSync
  <2>1. sync'.signals = {} /\ sync'.added = NoSync.added /\ sync'.removed = NoSync.removed
    <3>1. NoSync \in Syncs /\ NoSync.signals = {}
        BY DEF NoSync, Syncs
    <3>2. CASE OpenSync
        BY <3>1, <3>2 DEF OpenSync, Syncs
    <3> QED
        BY <1>2, <3>1, <3>2
  <2>2. \A m \in Messages : NoSync.added[m] = {} /\ NoSync.removed[m] = {}
      BY DEF NoSync
  <2> QED
      BY <2>1, <2>2 DEF SyncSays
<1>3. CASE ReadInboxHistory
  <2>1. \A m \in Messages : "INBOX" \in sync'.added[m] => Restored(m)
    <3> TAKE m \in Messages
    <3> HAVE "INBOX" \in sync'.added[m]
    <3>1. PICK c \in Listing("INBOX", cursor) : c.message = m /\ "INBOX" \in c.added
        BY <1>3, InboxSync, ListedChange
    <3> QED
        BY <3>1, RestoringChange DEF Listing
  <2>2. \A m \in Messages : QuarantineLabel \notin sync'.removed[m]
      BY <1>3, InboxSync, ListedChange DEF QuarantineLabel
  <2>3. sync'.signals = sync.signals
      BY <1>3, InboxSync
  <2> QED
      BY <1>0, <2>1, <2>2, <2>3 DEF SyncSays
<1>4. CASE ReadLabelHistory
  <2> DEFINE changes == IF labelMade THEN Listing(QuarantineLabel, cursor) ELSE {}
             relevant == {QuarantineLabel, "INBOX", "TRASH"}
  <2>1. /\ sync'.added = NoSync.added /\ sync'.removed = NoSync.removed
        /\ \A m \in Messages : <<m, "restored">> \in sync'.signals =>
              "restored" \in SignalsIn(sync.added[m] \cup AddedIn(changes, relevant, m),
                                       sync.removed[m] \cup RemovedIn(changes, relevant, m))
      BY <1>4, LabelSync DEF Signals
  <2>2. changes \subseteq history
      BY DEF Listing
  <2> HIDE DEF changes, relevant
  <2>3. ASSUME NEW m \in Messages, <<m, "restored">> \in sync'.signals PROVE Restored(m)
    <3>1. \/ "INBOX" \in sync.added[m] \/ "INBOX" \in AddedIn(changes, relevant, m)
          \/ QuarantineLabel \in sync.removed[m]
          \/ QuarantineLabel \in RemovedIn(changes, relevant, m)
        BY <2>1, <2>3 DEF SignalsIn
    <3> QED
        BY <2>2, <3>1, ListedChange, RestoringChange DEF SyncSays
  <2>4. \A m \in Messages : NoSync.added[m] = {} /\ NoSync.removed[m] = {}
      BY DEF NoSync
  <2> QED
      BY <1>0, <2>1, <2>3, <2>4 DEF SyncSays
<1>5. ASSUME NEW m \in Messages, NEW signal \in Signals, Learn(m, signal) PROVE SyncSays'
  <2>1. /\ sync'.added = sync.added /\ sync'.removed = sync.removed
        /\ sync'.signals \subseteq sync.signals
      BY <1>5 DEF Learn, LearnSignal, TypeOK, FeedbackTypeOK, Syncs
  <2> QED
      BY <1>0, <2>1 DEF SyncSays
<1> QED
    BY <1>1, <1>2, <1>3, <1>4, <1>5, SyncFrame

LEMMA EventCause ==
    TypeOK /\ MovesSay /\ SyncSays /\ RestoreHasCause /\ [Next]_vars => RestoreHasCause'
<1> SUFFICES ASSUME TypeOK, MovesSay, SyncSays, RestoreHasCause, [Next]_vars,
                    NEW m \in Messages, <<m, "restored">> \in events'
             PROVE  Restored(m)' /\ Moved(m)'
    BY DEF RestoreHasCause, Restored, Moved
<1>1. CASE <<m, "restored">> \in events
    BY <1>1, HistoryGrows DEF RestoreHasCause, Restored, Moved
<1>2. CASE <<m, "restored">> \notin events
  <2>1. PICK n \in Messages, signal \in Signals : Learn(n, signal)
    <3>1. Scan => \A x : <<x, "restored">> \in events' => <<x, "restored">> \in events
        BY DEF Scan, Register
    <3> QED
        BY <1>2, <3>1 DEF Next, vars, OpenSession, Collect, InitCursor, ResetCursor, SetCursor,
           OpenSync, ReadInboxHistory, ReadLabelHistory, RecordExecution, OutcomeRejected, EndRun,
           AbortSession, TimePasses, Act, SkipKept, UserActs, UserAnswers, Finalizer, feedbackVars
  <2>2. n = m /\ signal = "restored" /\ Eligible(m) /\ <<m, "restored">> \in sync.signals
      BY <1>2, <2>1 DEF Learn, LearnSignal
  <2>3. Restored(m) /\ Moved(m)
      BY <2>2 DEF SyncSays, MovesSay, Eligible
  <2> QED
      BY <2>3, HistoryGrows
<1> QED
    BY <1>1, <1>2

(***************************************************************************)
(* A restore is learned only of a message InboxLume moved and the user     *)
(* brought back.                                                           *)
(***************************************************************************)
THEOREM RestoresHaveCauses == Spec => []RestoreHasCause
<1>1. IInv /\ CauseInv /\ [Next]_vars => CauseInv'
    BY HistoryCause, MovesCause, SyncCause, EventCause DEF IInv, CauseInv
<1>2. CauseInv => RestoreHasCause
    BY DEF CauseInv
<1> QED
    BY <1>1, <1>2, InitCause, AftercareInductive, PTL DEF Spec

-----------------------------------------------------------------------------
(***************************************************************************)
(* What InboxLume learns of a message after it has moved it: everything    *)
(* that the user does and that lies behind the cursor.  Each act that is   *)
(* owed is followed from the history to the two listings (every change     *)
(* that says something carries INBOX, so the first one shows it), from     *)
(* there to the signals of the collection, and to the cursor.              *)
(***************************************************************************)

(***************************************************************************)
(* The history: a change shows the labels it is about, and a message that  *)
(* is in Inbox now has come back after each time it went to Trash.         *)
(***************************************************************************)
LabelsStand ==
    /\ \A m \in Messages : box[m].label => labelMade
    /\ \A c \in history : /\ c.added \cup c.removed \subseteq c.carried
                          /\ QuarantineLabel \in c.carried => labelMade

BackSince(d, id) ==
    \E f \in history :
        f.message = d.message /\ d.id < f.id /\ f.id <= id /\ "INBOX" \in f.added

InboxAgain ==
    \A d \in history :
        "TRASH" \in d.added /\ box[d.message].place = "inbox" => BackSince(d, historyId)

(***************************************************************************)
(* The collection: its ids are not beyond the history, and after the first *)
(* listing it holds what the history had for it then.                      *)
(***************************************************************************)
IdsBehind ==
    /\ cursor # NoCursor => cursor <= historyId
    /\ sync.current <= historyId /\ sync.latest <= historyId
    /\ sync.stage \in {"labels", "learn"} => cursor # NoCursor

InboxRelevant == {"INBOX", "UNREAD", "STARRED", "TRASH"}

Seen == {c \in Listing("INBOX", cursor) : c.id <= sync.latest}

InboxListed ==
    sync.stage = "labels" => \A m \in Messages :
        /\ sync.added[m] = AddedIn(Seen, InboxRelevant, m)
        /\ sync.removed[m] = RemovedIn(Seen, InboxRelevant, m)

(***************************************************************************)
(* A debt: a change in the history is its cause, it can be learned, the    *)
(* message of a restore was not sent to Trash since, and the collection    *)
(* has it yet to list, or among what it has listed, or among its signals.  *)
(***************************************************************************)
Caused(o) ==
    \E c \in history :
        /\ c.id = o.id /\ c.message = o.message
        /\ "INBOX" \in c.carried
        /\ o.signal \in SignalsIn(c.added, c.removed)

Learnable(o) ==
    /\ cursor # NoCursor /\ o.message \in known
    /\ o.signal = "restored" => Eligible(o.message)
    /\ <<o.message, o.signal>> \notin events

NotTrashed(o) ==
    o.signal = "restored" =>
        \A d \in history :
            d.message = o.message /\ "TRASH" \in d.added => BackSince(d, o.id)

Captured(o) ==
    \/ o.between
    \/ /\ o.id > cursor
       /\ sync.stage = "labels" => o.id <= sync.latest
       /\ sync.stage = "learn" =>
            o.id > sync.latest \/ <<o.message, o.signal>> \in sync.signals

CollectionInv == LabelsStand /\ InboxAgain /\ IdsBehind /\ InboxListed

DebtsStand ==
    \A o \in owed : Caused(o) /\ Learnable(o) /\ NotTrashed(o) /\ Captured(o)

DebtInv == CollectionInv /\ DebtsStand

\* Nothing is owed at first.
LEMMA InitDebts == Init => DebtInv
<1> SUFFICES ASSUME Init PROVE DebtInv
    OBVIOUS
<1>1. /\ history = {} /\ owed = {} /\ sync = NoSync /\ cursor = NoCursor /\ historyId = 0
      /\ \A m \in Messages : ~box[m].label
    BY AftercareAssumption DEF Init, GmailInit, FeedbackInit
<1>2. LabelsStand /\ InboxAgain /\ IdsBehind /\ InboxListed
    BY <1>1 DEF LabelsStand, InboxAgain, IdsBehind, InboxListed, NoSync
<1> QED
    BY <1>1, <1>2 DEF DebtInv, CollectionInv, DebtsStand

(***************************************************************************)
(* The kinds of steps.  A change may leave new debts and forgives those of *)
(* a message it sends to Trash.                                            *)
(***************************************************************************)
Still == UNCHANGED <<box, history, historyId, labelMade>>

Remains(o, m, b) ==
    /\ o \in owed
    /\ ~(b.place = "trash" /\ box[m].place # "trash" /\ o.message = m /\ o.signal = "restored")

Arises(o, m, b) ==
    /\ o.message = m /\ o.id = historyId + 1
    /\ o.between = (sync.stage = "labels")
    /\ o.signal \in Said(box[m], b)
    /\ Learnable(o)

Owes(m, b) == \A o \in owed' : Remains(o, m, b) \/ Arises(o, m, b)

\* A step either changes no message, or changes one and owes what that says.
LEMMA ChangeSteps ==
    ASSUME TypeOK, [Next]_vars
    PROVE  \/ Still
           \/ /\ UNCHANGED feedbackVars
              /\ \E m \in Messages, b \in Boxes, who \in Authors : Makes(m, b, who) /\ Owes(m, b)
<1>0. /\ \A m \in Messages : box[m] \in Boxes
      /\ box \in [Messages -> Boxes]
      /\ run.toTrash \in BOOLEAN
    BY DEF TypeOK, GmailTypeOK, RunStates
<1>1. ASSUME NEW m \in Messages, Act(m), Change(m, ExecutorEffect(run.toTrash, box[m]), "run")
      PROVE  \/ Still
             \/ /\ UNCHANGED feedbackVars
                /\ \E n \in Messages, b \in Boxes, who \in Authors : Makes(n, b, who) /\ Owes(n, b)
  <2> DEFINE b == ExecutorEffect(run.toTrash, box[m])
  <2>1. b \in Boxes
      BY <1>0, ExecutorType, TRUE \in BOOLEAN
  <2>2. Makes(m, b, "run")
      BY <1>0, <1>1 DEF Makes, ExecutorEffect, Labelled, Trashed, Boxes
  <2>3. CASE UNCHANGED gmailVars
      BY <2>3 DEF gmailVars, Still
  <2>4. CASE owed' = StillOwed(m, b)
    <3>1. Owes(m, b)
        BY <2>4 DEF Owes, Remains, StillOwed
    <3> QED
        BY <1>1, <2>1, <2>2, <3>1 DEF Authors, Act
  <2> QED
      BY <1>1, <2>3, <2>4 DEF Act
<1>2. ASSUME NEW m \in Messages, UserActs(m)
      PROVE  /\ UNCHANGED feedbackVars
             /\ \E n \in Messages, b \in Boxes, who \in Authors : Makes(n, b, who) /\ Owes(n, b)
  <2> DEFINE new(c) ==
        {[message |-> m, signal |-> s, id |-> historyId + 1, between |-> sync.stage = "labels"] :
           s \in {t \in Said(box[m], c) : /\ cursor # NoCursor /\ m \in known
                                          /\ t = "restored" => Eligible(m)
                                          /\ <<m, t>> \notin events}}
  <2>1. PICK g \in Gestures : /\ Change(m, AfterGesture(box[m], g), "user")
                              /\ owed' = StillOwed(m, AfterGesture(box[m], g))
                                           \cup new(AfterGesture(box[m], g))
      BY <1>2, AftercareAssumption DEF UserActs
  <2> DEFINE b == AfterGesture(box[m], g)
  <2>2. b \in Boxes /\ Makes(m, b, "user")
      BY <1>0, <2>1, GestureType DEF Makes
  <2>3. ASSUME NEW o \in StillOwed(m, b) PROVE Remains(o, m, b)
      BY <2>3 DEF Remains, StillOwed
  <2>4. ASSUME NEW o \in new(b) PROVE Arises(o, m, b)
    <3> HIDE DEF b
    <3>1. PICK s \in Said(box[m], b) :
             /\ o = [message |-> m, signal |-> s, id |-> historyId + 1,
                     between |-> sync.stage = "labels"]
             /\ cursor # NoCursor /\ m \in known
             /\ s = "restored" => Eligible(m)
             /\ <<m, s>> \notin events
        BY <2>4
    <3>2. o.message = m /\ o.signal = s /\ o.id = historyId + 1
          /\ o.between = (sync.stage = "labels")
        BY <3>1, Zenon
    <3> QED
        BY <3>1, <3>2 DEF Arises, Learnable
  <2>5. Owes(m, b)
    <3> HIDE DEF b, new
    <3> QED
        BY <2>1, <2>3, <2>4 DEF Owes, b
  <2> QED
      BY <1>2, <2>2, <2>5 DEF UserActs, Authors
<1>3. CASE Finalize /\ Finalizer
  <2> DEFINE m == fin.message
             b == Trashed(box[m])
  <2>1. m \in Messages
      BY <1>3 DEF Finalize, TypeOK, FinalizationTypeOK, Finalizations
  <2>2. b \in Boxes /\ Makes(m, b, "finalizer")
      BY <1>0, <1>3, <2>1 DEF Finalize, Makes, Trashed, Boxes, Places
  <2>3. box' = [box EXCEPT ![m] = b] /\ b.place = "trash"
      BY <1>0, <1>3, <2>1 DEF Finalize, Change, Trashed, Boxes
  <2>4. CASE box' = box /\ owed' = owed
    <3>1. box[m].place = "trash"
        BY <1>0, <2>1, <2>3, <2>4
    <3> QED
        BY <1>3, <2>1, <2>2, <2>4, <3>1 DEF Owes, Remains, Finalizer, Authors
  <2>5. CASE owed' = StillOwed(m, b)
    <3>1. Owes(m, b)
        BY <2>5 DEF Owes, Remains, StillOwed
    <3> QED
        BY <1>3, <2>1, <2>2, <3>1 DEF Finalizer, Authors
  <2>6. box'[m] = b
      BY <1>0, <2>1, <2>3
  <2> QED
      BY <1>3, <2>4, <2>5, <2>6 DEF Finalizer
<1>4. Finalize => Finalizer
    BY FinFrame DEF Finalize, TypeOK, FinalizationTypeOK, Finalizations
<1> QED
    BY <1>1, <1>2, <1>3, <1>4, HistoryFrame DEF Still

\* What a step that changes no message does to what is learned.
Quiet ==
    /\ UNCHANGED <<cursor, owed>>
    /\ sync' \in {sync, NoSync}
    /\ known \subseteq known'
    /\ \A e \in events' : e \in events \/ e[2] = "left_unread"

\* The steps of a collection, and the steps that leave what is learned alone.
LEMMA StillSteps ==
    ASSUME TypeOK, [Next]_vars, Still
    PROVE  \/ Quiet
           \/ (OpenSync \/ ReadInboxHistory \/ ReadLabelHistory) /\ UNCHANGED owed
           \/ (InitCursor \/ SetCursor) /\ UNCHANGED owed
           \/ ResetCursor /\ owed' = {o \in owed : o.id > sync.current}
           \/ \E m \in Messages, signal \in Signals : Learn(m, signal)
<1>1. ASSUME NEW m, NEW b, NEW who, Change(m, b, who) PROVE FALSE
    BY <1>1 DEF Change, Still, TypeOK, GmailTypeOK
<1>2. CASE UNCHANGED <<feedbackVars, owed>>
    BY <1>2 DEF Quiet, feedbackVars
<1>3. CASE Collect
    BY <1>3 DEF Collect
<1>4. CASE AbortSession
    BY <1>4 DEF AbortSession, Quiet
<1>5. CASE Scan
  <2>1. PICK batch : Register(batch)
      BY <1>5 DEF Scan
  <2> QED
      BY <1>5, <2>1 DEF Scan, Register, Quiet
<1>6. ASSUME NEW m \in Messages, Act(m) PROVE UNCHANGED <<feedbackVars, owed>>
    BY <1>1, <1>6 DEF Act
<1>7. ASSUME NEW m \in Messages, UserActs(m) PROVE FALSE
    BY <1>1, <1>7 DEF UserActs
<1>8. CASE Finalizer
    BY <1>8 DEF Finalizer, Still, Quiet, feedbackVars
<1> QED
    BY <1>2, <1>3, <1>4, <1>5, <1>6, <1>7, <1>8
    DEF Next, vars, OpenSession, RecordExecution, OutcomeRejected, EndRun, TimePasses, SkipKept,
        UserAnswers

(***************************************************************************)
(* The history keeps standing.                                             *)
(***************************************************************************)
\* What has come back has come back, whatever is added to the history.
LEMMA BackGrows ==
    ASSUME NEW d, NEW id \in Nat, NEW id2 \in Nat, id <= id2, history \subseteq history',
           GmailTypeOK, BackSince(d, id)
    PROVE  BackSince(d, id2)'
<1>1. PICK f \in history :
        f.message = d.message /\ d.id < f.id /\ f.id <= id /\ "INBOX" \in f.added
    BY DEF BackSince
<1>2. f.id <= id2 /\ f \in history'
    BY <1>1 DEF GmailTypeOK
<1> QED
    BY <1>1, <1>2 DEF BackSince

\* A change carries what it adds and removes; a label on mail has been made.
LEMMA LabelsInductive ==
    TypeOK /\ LabelsStand /\ [Next]_vars => LabelsStand'
<1> SUFFICES ASSUME TypeOK, LabelsStand, [Next]_vars PROVE LabelsStand'
    OBVIOUS
<1>1. CASE UNCHANGED <<box, history, historyId, labelMade>>
    BY <1>1 DEF LabelsStand
<1>2. ASSUME NEW m \in Messages, NEW b \in Boxes, NEW who \in Authors, Makes(m, b, who)
      PROVE  LabelsStand'
  <2> DEFINE e == Entry(m, b, who)
  <2>1. /\ history' = history \cup {e}
        /\ e.added \subseteq e.carried /\ e.removed \subseteq e.carried
        /\ box' = [box EXCEPT ![m] = b]
      BY <1>2, EntryFacts
  <2>2. /\ labelMade' = (labelMade \/ b.label)
        /\ e.carried = LabelsOf(box[m]) \cup LabelsOf(b)
      BY <1>2 DEF Makes, Change, Entry
  <2>3. QuarantineLabel \in e.carried => box[m].label \/ b.label
      BY <2>2 DEF LabelsOf, Labels, QuarantineLabel
  <2> HIDE DEF e
  <2>4. \A n \in Messages : box'[n].label => box[n].label \/ b.label
      BY <2>1 DEF TypeOK, GmailTypeOK
  <2>5. \A n \in Messages : box'[n].label => labelMade'
      BY <2>2, <2>4 DEF LabelsStand
  <2>6. QuarantineLabel \in e.carried => labelMade'
      BY <2>2, <2>3 DEF LabelsStand
  <2>7. \A c \in history : QuarantineLabel \in c.carried => labelMade'
      BY <2>2 DEF LabelsStand
  <2>8. \A c \in history' : c.added \cup c.removed \subseteq c.carried
      BY <2>1 DEF LabelsStand
  <2>9. \A c \in history' : QuarantineLabel \in c.carried => labelMade'
      BY <2>1, <2>6, <2>7
  <2> QED
      BY <2>5, <2>8, <2>9 DEF LabelsStand
<1> QED
    BY <1>1, <1>2, ChangesMade

\* A message enters Inbox only by a change that adds INBOX.
LEMMA InboxInductive ==
    TypeOK /\ InboxAgain /\ [Next]_vars => InboxAgain'
<1> SUFFICES ASSUME TypeOK, InboxAgain, [Next]_vars PROVE InboxAgain'
    OBVIOUS
<1>1. CASE UNCHANGED <<box, history, historyId, labelMade>>
    BY <1>1 DEF InboxAgain, BackSince
<1>2. ASSUME NEW m \in Messages, NEW b \in Boxes, NEW who \in Authors, Makes(m, b, who)
      PROVE  InboxAgain'
  <2> DEFINE e == Entry(m, b, who)
  <2>1. /\ history' = history \cup {e}
        /\ e.id = historyId + 1 /\ e.message = m
        /\ "INBOX" \in e.added <=> b.place = "inbox" /\ box[m].place # "inbox"
        /\ "TRASH" \in e.added <=> b.place = "trash" /\ box[m].place # "trash"
        /\ box' = [box EXCEPT ![m] = b] /\ historyId' = historyId + 1
      BY <1>2, EntryFacts
  <2> HIDE DEF e
  <2>2. historyId \in Nat /\ box \in [Messages -> Boxes] /\ history \subseteq Changes
        /\ \A c \in history : c.id \in 1..historyId /\ c.message \in Messages
      BY DEF TypeOK, GmailTypeOK, Changes
  <2> SUFFICES ASSUME NEW d \in history', "TRASH" \in d.added, box'[d.message].place = "inbox"
               PROVE  BackSince(d, historyId)'
      BY DEF InboxAgain
  <2>3. d # e
      BY <2>1, <2>2
  <2>4. d \in history
      BY <2>1, <2>3
  <2>5. CASE box[d.message].place = "inbox"
    <3>1. PICK now \in Nat : now = historyId
        BY <2>2
    <3>2. BackSince(d, now)
        BY <2>4, <2>5, <3>1 DEF InboxAgain
    <3>3. BackSince(d, now + 1)'
        BY <2>1, <3>2, BackGrows DEF TypeOK
    <3> QED
        BY <2>1, <3>1, <3>3 DEF BackSince
  <2>6. CASE box[d.message].place # "inbox"
    <3>1. d.message = m /\ "INBOX" \in e.added /\ d.id < e.id
        BY <2>1, <2>2, <2>4, <2>6
    <3> QED
        BY <2>1, <2>2, <3>1 DEF BackSince
  <2> QED
      BY <2>5, <2>6
<1> QED
    BY <1>1, <1>2, ChangesMade

(***************************************************************************)
(* The collection keeps standing.                                          *)
(***************************************************************************)
\* A collection that is not under way.
LEMMA NoSyncFields ==
    /\ NoSync.stage = "none" /\ NoSync.current = 0 /\ NoSync.latest = 0
    /\ NoSync.signals = {} /\ NoSync \in Syncs
    BY DEF NoSync, Syncs

\* Learning takes one signal off the list and leaves the ids alone.
LEMMA LearnFields ==
    ASSUME TypeOK, NEW m \in Messages, NEW signal \in Signals, Learn(m, signal)
    PROVE  /\ sync.stage = "learn" /\ sync'.stage = "learn" /\ sync'.latest = sync.latest
           /\ sync'.current = sync.current
           /\ sync'.signals = sync.signals \ {<<m, signal>>}
           /\ UNCHANGED <<cursor, known>>
    BY DEF Learn, LearnSignal, TypeOK, FeedbackTypeOK, Syncs

\* The second listing leaves the cursor and the id of the opening alone.
LEMMA LabelFields ==
    ASSUME TypeOK, ReadLabelHistory
    PROVE  /\ sync.stage = "labels" /\ sync'.stage = "learn" /\ sync'.current = sync.current
           /\ UNCHANGED cursor
<1>1. PICK signals, latest : sync' = [sync EXCEPT !.stage = "learn", !.latest = latest,
           !.added = NoSync.added, !.removed = NoSync.removed, !.signals = signals]
    BY DEF ReadLabelHistory
<1> QED
    BY <1>1 DEF ReadLabelHistory, TypeOK, FeedbackTypeOK, Syncs

\* So does the first, which needs a cursor.
LEMMA InboxFields ==
    ASSUME TypeOK, ReadInboxHistory
    PROVE  /\ cursor # NoCursor /\ sync'.current = sync.current /\ UNCHANGED cursor
<1>1. PICK added, removed : sync' = [sync EXCEPT !.stage = "labels", !.latest = historyId,
           !.added = added, !.removed = removed]
    BY DEF ReadInboxHistory
<1> QED
    BY <1>1 DEF ReadInboxHistory, TypeOK, FeedbackTypeOK, Syncs

\* Ids are taken from the history and never go beyond it.
LEMMA IdsInductive ==
    TypeOK /\ IdsBehind /\ [Next]_vars => IdsBehind'
<1> SUFFICES ASSUME TypeOK, IdsBehind, [Next]_vars PROVE IdsBehind'
    OBVIOUS
<1>0. /\ historyId \in Nat /\ sync \in Syncs /\ sync.current \in Nat /\ sync.latest \in Nat
      /\ cursor \in Nat \cup {NoCursor} /\ NoCursor \notin Nat
    BY AftercareAssumption DEF TypeOK, GmailTypeOK, FeedbackTypeOK, Syncs
<1>1. ASSUME UNCHANGED feedbackVars, NEW m \in Messages, NEW b, NEW who, Makes(m, b, who)
      PROVE  IdsBehind'
  <2>1. historyId' = historyId + 1
      BY <1>1 DEF Makes, Change
  <2> QED
      BY <1>0, <1>1, <2>1 DEF IdsBehind, feedbackVars
<1>2. CASE Still
  <2>0. UNCHANGED historyId
      BY <1>2 DEF Still
  <2>1. CASE Quiet
      BY <1>0, <2>0, <2>1, NoSyncFields DEF Quiet, IdsBehind
  <2>2. CASE OpenSync
    <3>1. sync'.stage = "cursor" /\ sync'.current = historyId /\ sync'.latest = 0
        BY <2>2, NoSyncFields DEF OpenSync, Syncs
    <3> QED
        BY <1>0, <2>0, <2>2, <3>1 DEF OpenSync, IdsBehind
  <2>3. CASE ReadInboxHistory
      BY <1>0, <2>0, <2>3, InboxFields, InboxSync DEF IdsBehind
  <2>4. CASE ReadLabelHistory
    <3>1. sync'.latest \in {historyId, sync.latest}
        BY <2>4, LabelSync
    <3> QED
        BY <1>0, <2>0, <2>4, <3>1, LabelFields DEF IdsBehind
  <2>5. CASE InitCursor \/ SetCursor \/ ResetCursor
    <3>1. cursor' \in {sync.current, sync.latest} /\ sync' = NoSync
        BY <2>5 DEF InitCursor, SetCursor, ResetCursor
    <3> QED
        BY <1>0, <2>0, <3>1, NoSyncFields DEF IdsBehind
  <2>6. ASSUME NEW m \in Messages, NEW signal \in Signals, Learn(m, signal) PROVE IdsBehind'
      BY <1>0, <2>0, <2>6, LearnFields DEF IdsBehind
  <2> QED
      BY <1>2, <2>1, <2>2, <2>3, <2>4, <2>5, <2>6, StillSteps
<1> QED
    BY <1>1, <1>2, ChangeSteps

\* What comes into the history after the first listing is not in what it showed.
LEMMA ListedInductive ==
    TypeOK /\ IdsBehind /\ InboxListed /\ [Next]_vars => InboxListed'
<1> SUFFICES ASSUME TypeOK, IdsBehind, InboxListed, [Next]_vars, sync'.stage = "labels"
             PROVE  \A m \in Messages :
                      /\ sync'.added[m] = AddedIn(Seen', InboxRelevant, m)
                      /\ sync'.removed[m] = RemovedIn(Seen', InboxRelevant, m)
    BY DEF InboxListed, AddedIn, RemovedIn
<1>0. /\ historyId \in Nat /\ sync \in Syncs /\ sync.latest \in Nat
      /\ \A c \in history : c.id \in 1..historyId
    BY DEF TypeOK, GmailTypeOK, FeedbackTypeOK, Syncs
<1>1. CASE UNCHANGED <<sync, cursor>> /\ Still
    BY <1>1 DEF InboxListed, Seen, Listing, Still
<1>2. ASSUME UNCHANGED feedbackVars, NEW m \in Messages, NEW b \in Boxes, NEW who \in Authors,
             Makes(m, b, who)
      PROVE  UNCHANGED Seen
  <2> DEFINE e == Entry(m, b, who)
  <2>1. history' = history \cup {e} /\ e.id = historyId + 1
      BY <1>2, EntryFacts
  <2> HIDE DEF e
  <2>2. ~(e.id <= sync.latest)
      BY <1>0, <2>1 DEF IdsBehind
  <2> QED
      BY <1>2, <2>1, <2>2 DEF Seen, Listing, feedbackVars
<1>3. CASE UNCHANGED feedbackVars /\ UNCHANGED Seen
    BY <1>3 DEF InboxListed, feedbackVars
<1>4. CASE Still
  <2>1. CASE ReadInboxHistory
    <3>1. sync'.latest = historyId /\ UNCHANGED <<cursor, history>>
        BY <1>4, <2>1, InboxSync, InboxFields DEF Still
    <3>2. Seen' = Listing("INBOX", cursor)
        BY <1>0, <3>1 DEF Seen, Listing
    <3> QED
        BY <2>1, <3>2, InboxSync DEF InboxRelevant
  <2>2. CASE Quiet
      BY <1>1, <1>4, <2>2, NoSyncFields DEF Quiet
  <2>3. CASE OpenSync
      BY <2>3, NoSyncFields DEF OpenSync, Syncs
  <2>4. CASE InitCursor \/ SetCursor \/ ResetCursor
      BY <2>4, NoSyncFields DEF InitCursor, SetCursor, ResetCursor
  <2>5. CASE ReadLabelHistory
      BY <2>5, LabelFields
  <2>6. ASSUME NEW m \in Messages, NEW signal \in Signals, Learn(m, signal) PROVE FALSE
      BY <2>6, LearnFields
  <2> QED
      BY <1>4, <2>1, <2>2, <2>3, <2>4, <2>5, <2>6, StillSteps
<1> QED
    BY <1>2, <1>3, <1>4, ChangeSteps

\* History and collection keep standing together.
LEMMA CollectionInductive ==
    TypeOK /\ CollectionInv /\ [Next]_vars => CollectionInv'
    BY LabelsInductive, InboxInductive, IdsInductive, ListedInductive DEF CollectionInv

(***************************************************************************)
(* The debts keep standing.                                                *)
(***************************************************************************)
\* A successful move, once on record, stays there.
LEMMA EligibleStays ==
    ASSUME TypeOK, RunFresh, [Next]_vars, NEW m \in Messages, Eligible(m)
    PROVE  Eligible(m)'
    BY ExecFrame, FinalStays DEF Eligible

\* What can be learned stays so until it is.
LEMMA LearnableStays ==
    ASSUME TypeOK, RunFresh, [Next]_vars, NEW o \in Debts, Learnable(o),
           known \subseteq known', cursor' # NoCursor, <<o.message, o.signal>> \notin events'
    PROVE  Learnable(o)'
    BY EligibleStays DEF Learnable, Debts

\* What label changes say.
LEMMA SignalFacts ==
    ASSUME NEW s, NEW added, NEW removed
    PROVE  s \in SignalsIn(added, removed) <=>
             \/ s = "opened" /\ "UNREAD" \in removed
             \/ s = "starred" /\ "STARRED" \in added
             \/ s = "restored" /\ \/ "INBOX" \in added
                                  \/ QuarantineLabel \in removed /\ "TRASH" \notin added
    BY DEF SignalsIn, Signals

\* What a change leaves owed can be learned from it.
LEMMA NewDebt ==
    ASSUME TypeOK, RunFresh, CollectionInv, [Next]_vars, UNCHANGED feedbackVars,
           NEW m \in Messages, NEW b \in Boxes, NEW who \in Authors, Makes(m, b, who),
           NEW o \in Debts, Arises(o, m, b)
    PROVE  Caused(o)' /\ Learnable(o)' /\ NotTrashed(o)' /\ Captured(o)'
<1> DEFINE e == Entry(m, b, who)
<1>0. /\ historyId \in Nat /\ sync.latest \in Nat /\ cursor \in Nat \cup {NoCursor}
      /\ box \in [Messages -> Boxes]
    BY DEF TypeOK, GmailTypeOK, FeedbackTypeOK, Syncs
<1>1. /\ history' = history \cup {e}
      /\ e.id = historyId + 1 /\ e.message = m
      /\ "INBOX" \in e.added <=> b.place = "inbox" /\ box[m].place # "inbox"
      /\ "TRASH" \in e.added <=> b.place = "trash" /\ box[m].place # "trash"
      /\ box' = [box EXCEPT ![m] = b] /\ historyId' = historyId + 1
    BY EntryFacts
<1>2. /\ e.added = LabelsOf(b) \ LabelsOf(box[m])
      /\ e.removed = LabelsOf(box[m]) \ LabelsOf(b)
      /\ e.carried = LabelsOf(box[m]) \cup LabelsOf(b)
    BY DEF Entry
<1> HIDE DEF e
<1>3. /\ o.message = m /\ o.id = historyId + 1 /\ o.signal \in Said(box[m], b)
      /\ o.between = (sync.stage = "labels") /\ Learnable(o)
    BY DEF Arises
<1>4. /\ o.signal \in SignalsIn(e.added, e.removed)
      /\ o.signal = "restored" => b.place = "inbox"
      /\ o.signal # "restored" => "INBOX" \in LabelsOf(box[m]) \cup LabelsOf(b)
    BY <1>2, <1>3 DEF Said
<1>5. b.place = "inbox" => "INBOX" \in LabelsOf(b)
    BY DEF LabelsOf, Labels
<1>6. Caused(o)'
    BY <1>1, <1>2, <1>3, <1>4, <1>5 DEF Caused
<1>7. Learnable(o)'
    BY <1>3, LearnableStays DEF feedbackVars, Learnable
<1>8. NotTrashed(o)'
  <2> SUFFICES ASSUME o.signal = "restored",
                      NEW d \in history', d.message = o.message, "TRASH" \in d.added
               PROVE  BackSince(d, o.id)'
      BY DEF NotTrashed
  <2>1. box'[d.message].place = "inbox"
      BY <1>0, <1>1, <1>3, <1>4
  <2>2. BackSince(d, historyId)'
      BY <2>1, InboxInductive DEF CollectionInv, InboxAgain
  <2> QED
      BY <1>1, <1>3, <2>2 DEF BackSince
<1>9. Captured(o)'
  <2>1. CASE sync.stage = "labels"
    <3>1. o.between
        BY <1>3, <2>1
    <3> QED
        BY <3>1 DEF Captured
  <2>2. CASE sync.stage # "labels"
    <3>1. o.id > cursor /\ o.id > sync.latest
        BY <1>0, <1>3 DEF CollectionInv, IdsBehind, Learnable
    <3> QED
        BY <2>2, <3>1 DEF Captured, feedbackVars
  <2> QED
      BY <2>1, <2>2
<1> QED
    BY <1>6, <1>7, <1>8, <1>9

\* What a change does not forgive is owed as before.
LEMMA OldDebt ==
    ASSUME TypeOK, RunFresh, DebtsStand, [Next]_vars, UNCHANGED feedbackVars,
           NEW m \in Messages, NEW b \in Boxes, NEW who \in Authors, Makes(m, b, who),
           NEW o \in Debts, Remains(o, m, b)
    PROVE  Caused(o)' /\ Learnable(o)' /\ NotTrashed(o)' /\ Captured(o)'
<1> DEFINE e == Entry(m, b, who)
<1>1. /\ history' = history \cup {e} /\ e.message = m
      /\ "TRASH" \in e.added <=> b.place = "trash" /\ box[m].place # "trash"
    BY EntryFacts
<1> HIDE DEF e
<1>2. /\ o \in owed /\ Caused(o) /\ Learnable(o) /\ NotTrashed(o) /\ Captured(o)
      /\ o.id \in Nat
    BY DEF Remains, DebtsStand, Debts
<1>3. Caused(o)' /\ Captured(o)'
    BY <1>1, <1>2 DEF Caused, Captured, feedbackVars
<1>4. Learnable(o)'
    BY <1>2, LearnableStays DEF feedbackVars, Learnable
<1>5. NotTrashed(o)'
  <2> SUFFICES ASSUME o.signal = "restored",
                      NEW d \in history', d.message = o.message, "TRASH" \in d.added
               PROVE  BackSince(d, o.id)'
      BY DEF NotTrashed
  <2>1. d \in history
      BY <1>1 DEF Remains
  <2>2. BackSince(d, o.id)
      BY <1>2, <2>1 DEF NotTrashed
  <2> QED
      BY <1>1, <1>2, <2>2, BackGrows DEF TypeOK
<1> QED
    BY <1>3, <1>4, <1>5

\* The second listing turns every debt that the first has seen into a signal.
LEMMA DebtListed ==
    ASSUME TypeOK, CollectionInv, DebtsStand, ReadLabelHistory, NEW o \in owed, ~o.between
    PROVE  <<o.message, o.signal>> \in sync'.signals
<1> DEFINE changes == IF labelMade THEN Listing(QuarantineLabel, cursor) ELSE {}
           relevant == {QuarantineLabel, "INBOX", "TRASH"}
           m == o.message
           added == AddedIn(changes, relevant, m)
           removed == RemovedIn(changes, relevant, m)
<1>0. /\ sync.stage = "labels" /\ cursor # NoCursor
      /\ o.id > cursor /\ o.id <= sync.latest
      /\ Caused(o) /\ NotTrashed(o)
      /\ m \in Messages /\ o.signal \in Signals
      /\ cursor \in Nat /\ o.id \in Nat /\ sync.latest \in Nat
      /\ \A c \in history : c.id \in Nat
  <2>1. sync.stage = "labels"
      BY LabelFields
  <2>2. Captured(o) /\ Learnable(o) /\ Caused(o) /\ NotTrashed(o)
      BY DEF DebtsStand
  <2>3. o \in Debts /\ sync \in Syncs /\ cursor \in Nat \cup {NoCursor}
        /\ \A c \in history : c.id \in Nat
      BY DEF TypeOK, FeedbackTypeOK, GmailTypeOK
  <2>4. m \in Messages /\ o.signal \in Signals /\ o.id \in Nat /\ sync.latest \in Nat
      BY <2>3 DEF Debts, Syncs
  <2>5. o.id > cursor /\ o.id <= sync.latest /\ cursor # NoCursor
      BY <2>1, <2>2 DEF Captured, Learnable
  <2> QED
      BY <2>1, <2>2, <2>3, <2>4, <2>5
<1>1. PICK c \in history : /\ c.id = o.id /\ c.message = m /\ "INBOX" \in c.carried
                           /\ o.signal \in SignalsIn(c.added, c.removed)
    BY <1>0 DEF Caused
<1>2. c \in Seen
    BY <1>0, <1>1 DEF Seen, Listing
<1>3. \A l \in InboxRelevant, d \in Seen :
        d.message = m => /\ l \in d.added => l \in sync.added[m]
                         /\ l \in d.removed => l \in sync.removed[m]
    BY <1>0, ListedChange DEF CollectionInv, InboxListed
<1>4. ASSUME o.signal = "restored", "INBOX" \notin sync.added[m]
      PROVE  QuarantineLabel \in removed /\ "TRASH" \notin sync.added[m] \cup added
  <2>0. "INBOX" \notin c.added /\ QuarantineLabel \in c.removed
      BY <1>1, <1>2, <1>3, <1>4, SignalFacts DEF InboxRelevant
  <2>1. c \in changes
      BY <1>0, <1>1, <2>0 DEF Listing, CollectionInv, LabelsStand
  <2>2. QuarantineLabel \in removed
      BY <1>1, <2>0, <2>1, ListedChange
  <2>3. ASSUME NEW d \in history, d.message = m, "TRASH" \in d.added, d.id > cursor
        PROVE  FALSE
    <3>1. PICK f \in history :
            f.message = m /\ d.id < f.id /\ f.id <= o.id /\ "INBOX" \in f.added
        BY <1>0, <1>4, <2>3 DEF NotTrashed, BackSince
    <3>2. f.id > cursor /\ f.id <= sync.latest
        BY <1>0, <2>3, <3>1
    <3>3. f \in Seen
        BY <3>1, <3>2 DEF Seen, Listing, CollectionInv, LabelsStand
    <3> QED
        BY <1>3, <1>4, <3>1, <3>3 DEF InboxRelevant
  <2>4. "TRASH" \notin sync.added[m]
    <3>1. "TRASH" \in sync.added[m] => \E d \in Seen : d.message = m /\ "TRASH" \in d.added
        BY <1>0, ListedChange DEF CollectionInv, InboxListed
    <3> QED
        BY <2>3, <3>1 DEF Seen, Listing
  <2>5. "TRASH" \notin added
    <3>1. "TRASH" \in added => \E d \in changes : d.message = m /\ "TRASH" \in d.added
        BY ListedChange
    <3>2. \A d \in changes : d \in history /\ d.id > cursor
        BY DEF Listing
    <3> QED
        BY <2>3, <3>1, <3>2
  <2> QED
      BY <2>2, <2>4, <2>5
<1> HIDE DEF added, removed
<1>5. o.signal \in SignalsIn(sync.added[m] \cup added, sync.removed[m] \cup removed)
  <2>1. CASE o.signal = "restored"
      BY <1>4, <2>1, SignalFacts
  <2>2. CASE o.signal # "restored"
    <3>1. \/ o.signal = "opened" /\ "UNREAD" \in c.removed
          \/ o.signal = "starred" /\ "STARRED" \in c.added
        BY <1>1, <2>2, SignalFacts
    <3>2. \/ o.signal = "opened" /\ "UNREAD" \in sync.removed[m]
          \/ o.signal = "starred" /\ "STARRED" \in sync.added[m]
        BY <1>1, <1>2, <1>3, <3>1 DEF InboxRelevant
    <3> QED
        BY <3>2, SignalFacts
  <2> QED
      BY <2>1, <2>2
<1> QED
    BY <1>0, <1>5, LabelSync DEF added, removed

\* A step that changes no message leaves its debts as they are, and the cursor
\* passes none that is not learned.
LEMMA StillDebts ==
    ASSUME TypeOK, RunFresh, CollectionInv, DebtsStand, [Next]_vars, Still, NEW o \in owed'
    PROVE  Caused(o)' /\ Learnable(o)' /\ NotTrashed(o)' /\ Captured(o)'
<1>1. o \in owed
    BY StillSteps DEF Quiet, Learn
<1>2. Caused(o) /\ Learnable(o) /\ NotTrashed(o) /\ Captured(o)
    BY <1>1 DEF DebtsStand
<1>3. Caused(o)' /\ NotTrashed(o)'
    BY <1>2 DEF Still, Caused, NotTrashed, BackSince
<1>4. /\ o \in Debts /\ o.id \in Nat /\ o.id <= historyId /\ o.signal # "left_unread"
      /\ historyId \in Nat
  <2>1. o \in Debts /\ historyId \in Nat
      BY <1>1 DEF TypeOK, GmailTypeOK
  <2>2. PICK c \in history : c.id = o.id /\ o.signal \in SignalsIn(c.added, c.removed)
      BY <1>2 DEF Caused
  <2>3. c.id \in 1..historyId
      BY DEF TypeOK, GmailTypeOK
  <2>4. o.signal # "left_unread"
      BY <2>2, SignalFacts
  <2> QED
      BY <2>1, <2>2, <2>3, <2>4 DEF Debts
<1>5. ASSUME <<o.message, o.signal>> \notin events', known \subseteq known', cursor' # NoCursor
      PROVE  Learnable(o)'
    BY <1>2, <1>4, <1>5, LearnableStays
<1>6. CASE Quiet
  <2>1. <<o.message, o.signal>> \notin events'
      BY <1>2, <1>4, <1>6 DEF Quiet, Learnable
  <2>2. Learnable(o)'
      BY <1>2, <1>5, <1>6, <2>1 DEF Quiet, Learnable
  <2>3. Captured(o)'
      BY <1>2, <1>6, NoSyncFields DEF Quiet, Captured
  <2> QED
      BY <1>3, <2>2, <2>3
<1>7. CASE OpenSync \/ ReadInboxHistory \/ ReadLabelHistory
  <2>1. UNCHANGED <<cursor, known, events>>
      BY <1>7 DEF OpenSync, ReadInboxHistory, ReadLabelHistory
  <2>2. Learnable(o)'
      BY <1>2, <1>5, <2>1 DEF Learnable
  <2>3. CASE OpenSync
    <3>1. sync'.stage = "cursor"
        BY <2>3, NoSyncFields DEF OpenSync, Syncs
    <3> QED
        BY <1>3, <2>2, <1>2, <2>1, <3>1 DEF Captured
  <2>4. CASE ReadInboxHistory
    <3>1. sync'.stage = "labels" /\ sync'.latest = historyId
        BY <2>4, InboxSync
    <3> QED
        BY <1>3, <2>2, <1>2, <1>4, <2>1, <3>1 DEF Captured
  <2>5. CASE ReadLabelHistory
    <3>1. sync'.stage = "learn"
        BY <2>5, LabelFields
    <3>2. o.between \/ <<o.message, o.signal>> \in sync'.signals
        BY <1>1, <2>5, DebtListed
    <3> QED
        BY <1>3, <2>2, <1>2, <2>1, <3>1, <3>2 DEF Captured
  <2> QED
      BY <1>3, <1>7, <2>2, <2>3, <2>4, <2>5
<1>8. CASE \/ (InitCursor \/ SetCursor) /\ UNCHANGED owed
           \/ ResetCursor /\ owed' = {d \in owed : d.id > sync.current}
  <2>1. /\ UNCHANGED <<known, events>> /\ sync' = NoSync
        /\ cursor' \in {sync.current, sync.latest}
      BY <1>8 DEF InitCursor, SetCursor, ResetCursor
  <2>2. cursor' # NoCursor
      BY <2>1, AftercareAssumption DEF TypeOK, FeedbackTypeOK, Syncs
  <2>3. Learnable(o)'
      BY <1>2, <1>5, <2>1, <2>2 DEF Learnable
  <2>4. o.between \/ o.id > cursor'
    <3>1. CASE InitCursor
        BY <1>2, <3>1 DEF InitCursor, Learnable
    <3>2. CASE SetCursor
        BY <1>2, <3>2 DEF SetCursor, Captured
    <3>3. CASE ResetCursor /\ owed' = {d \in owed : d.id > sync.current}
        BY <3>3 DEF ResetCursor
    <3> QED
        BY <1>8, <3>1, <3>2, <3>3
  <2>5. Captured(o)'
      BY <2>1, <2>4, NoSyncFields DEF Captured
  <2> QED
      BY <1>3, <2>3, <2>5
<1>9. ASSUME NEW m \in Messages, NEW signal \in Signals, Learn(m, signal)
      PROVE  Learnable(o)' /\ Captured(o)'
  <2>1. /\ events' = IF m \in known /\ (signal = "restored" => Eligible(m))
                     THEN events \cup {<<m, signal>>} ELSE events
        /\ owed' = IF <<m, signal>> \in events'
                   THEN {d \in owed : <<d.message, d.signal>> # <<m, signal>>} ELSE owed
      BY <1>9 DEF Learn, LearnSignal
  <2>2. <<o.message, o.signal>> \notin events'
      BY <1>2, <2>1 DEF Learnable
  <2>3. <<o.message, o.signal>> # <<m, signal>>
      BY <1>2, <2>1, <2>2 DEF Learnable
  <2>4. Learnable(o)'
      BY <1>2, <1>5, <1>9, <2>2, LearnFields DEF Learnable
  <2>5. Captured(o)'
      BY <1>2, <1>9, <2>3, LearnFields DEF Captured
  <2> QED
      BY <2>4, <2>5
<1> QED
    BY <1>3, <1>6, <1>7, <1>8, <1>9, StillSteps

\* Every debt stands after every step.
LEMMA DebtsInductive ==
    TypeOK /\ RunFresh /\ CollectionInv /\ DebtsStand /\ [Next]_vars => DebtsStand'
<1> SUFFICES ASSUME TypeOK, RunFresh, CollectionInv, DebtsStand, [Next]_vars, NEW o \in owed'
             PROVE  Caused(o)' /\ Learnable(o)' /\ NotTrashed(o)' /\ Captured(o)'
    BY DEF DebtsStand
<1>1. o \in Debts
    BY NextTypes DEF TypeOK
<1>2. ASSUME UNCHANGED feedbackVars, NEW m \in Messages, NEW b \in Boxes,
             NEW who \in Authors, Makes(m, b, who), Owes(m, b)
      PROVE  Caused(o)' /\ Learnable(o)' /\ NotTrashed(o)' /\ Captured(o)'
  <2>1. Remains(o, m, b) \/ Arises(o, m, b)
      BY <1>2 DEF Owes
  <2> QED
      BY <1>1, <1>2, <2>1, OldDebt, NewDebt
<1> QED
    BY <1>2, StillDebts, ChangeSteps

(***************************************************************************)
(* Whatever crashes, resets and listings come between, the cursor never    *)
(* passes what the user did to a known message without its being learned.  *)
(***************************************************************************)
THEOREM AftercareLearned == Spec => []LearnedBehindCursor
<1>1. IInv /\ DebtInv /\ [Next]_vars => DebtInv'
    BY CollectionInductive, DebtsInductive DEF IInv, DebtInv
<1>2. DebtInv => LearnedBehindCursor
    BY DEF DebtInv, DebtsStand, Captured, LearnedBehindCursor
<1> QED
    BY <1>1, <1>2, InitDebts, AftercareInductive, PTL DEF Spec
=============================================================================
