---------------------------- MODULE ShadowRunProofs ----------------------------
(***************************************************************************)
(* Safety of the cleanup runs for any mailbox, batch size, policies,       *)
(* settings and number of faults and user acts.                            *)
(***************************************************************************)
EXTENDS ShadowRun, FiniteSetTheorems, TLAPS

\* Everything TypeOK says of the variables except the range of room.
Types ==
    /\ box \in [Messages -> Boxes]
    /\ row \in [Messages -> Rows(Policies)]
    /\ assess \in [Messages -> Assessments]
    /\ quiz \in [Messages -> QuizAnswers]
    /\ exec \in [Messages -> PilotOutcomes \cup {"none"}]
    /\ node \in [Messages -> {"none", "open", "hard"}]
    /\ proofs \subseteq Messages
    /\ pc \in Phases
    /\ run \in Settings
    /\ results \in [Messages -> Results]
    /\ todo \subseteq Messages
    /\ blocked \subseteq Families
    /\ call \in Calls
    /\ moves \in [Messages -> Nat]
    /\ lost \in [Messages -> Nat]
    /\ faults \in 0..MaxFaults
    /\ markerFaults \in 0..MaxMarkerFaults
    /\ acts \in 0..MaxActs

(***************************************************************************)
(* The pure operators of ScanLedger and GmailExecutors return what their   *)
(* columns and labels can hold.                                            *)
(***************************************************************************)
LEMMA RowsClosed ==
    ASSUME NEW r \in Rows(Policies), NEW n \in Rows(Policies), NEW policy
    PROVE  /\ NoRow \in Rows(Policies)
           /\ Upserted(r, n) \in Rows(Policies)
           /\ Completed(r, policy) \in Rows(Policies)
           /\ Reopened(r) \in Rows(Policies)
           /\ Protected(r) \in Rows(Policies)
<1>1. NoRow \in Rows(Policies)
    BY DEF Rows, NoRow, NoPolicy
<1>2. Upserted(r, n) \in Rows(Policies)
    BY DEF Upserted
<1>3. Completed(r, policy) \in Rows(Policies) /\ Reopened(r) \in Rows(Policies)
    BY DEF Rows, Completed, Reopened
<1>4. Protected(r) \in Rows(Policies)
    BY DEF Rows, Protected
<1> QED
    BY <1>1, <1>2, <1>3, <1>4

(***************************************************************************)
(* A row made from a decision is well-typed                                *)
(* (_upsert_shadow_scan_with_connection).                                  *)
(***************************************************************************)
LEMMA NewRowTyped ==
    ASSUME NEW reason \in Reasons, NEW policy \in Policies
    PROVE  NewRow(reason, policy) \in Rows(Policies)
    BY DEF Rows, NewRow, ActionOf, Reasons

(***************************************************************************)
(* The phishing label and the user's own acts keep a message well-typed.   *)
(***************************************************************************)
LEMMA BoxesClosed ==
    ASSUME NEW b \in Boxes
    PROVE  /\ Marked(b) \in Boxes
           /\ Touches(b) \subseteq Boxes
    BY DEF Boxes, Places, Marked, Touches

(***************************************************************************)
(* So do the two moves an executor can make.                               *)
(***************************************************************************)
LEMMA EffectTyped ==
    ASSUME NEW b \in Boxes, NEW toTrash \in BOOLEAN
    PROVE  ExecutorEffect(toTrash, b) \in Boxes
    BY DEF Boxes, Places, ExecutorEffect, Labelled, Trashed

(***************************************************************************)
(* A new row is hard exactly when its decision's reason is a hard one      *)
(* (proof_of_obsolescence.has_hard_policy_reason).                         *)
(***************************************************************************)
LEMMA NewRowHard ==
    ASSUME NEW reason, NEW policy
    PROVE  NewRow(reason, policy).hard = (reason \in HardReasons)
<1> DEFINE hard == reason \in HardReasons
<1>1. hard \in BOOLEAN
    OBVIOUS
<1>2. NewRow(reason, policy) =
          [action |-> ActionOf(reason), reason |-> reason, hard |-> hard,
           policy |-> policy, done |-> FALSE]
    BY DEF NewRow
<1> HIDE DEF hard
<1>3. NewRow(reason, policy).hard = hard
    BY <1>1, <1>2
<1> QED
    BY <1>3 DEF hard

(***************************************************************************)
(* A classified message's action and protection are those of its reason    *)
(* (SafetyPolicyEngine.decide).                                            *)
(***************************************************************************)
LEMMA DecisionsTyped ==
    ASSUME NEW b \in Boxes, NEW d \in Classified(b)
    PROVE  /\ d \in Results
           /\ d.action # "none"
           /\ d.reason \in Reasons
           /\ d.hard = (d.reason \in HardReasons)
           /\ d.action = ActionOf(d.reason)
<1>1. PICK r \in Decisions(b), f \in BOOLEAN :
         d = [action |-> ActionOf(r), reason |-> r, hard |-> r \in HardReasons,
              marker |-> FALSE, fallback |-> f, unread |-> b.unread]
    BY DEF Classified
<1>2. r \in Reasons
    BY ShadowRunAssumption DEF Decisions
<1>3. b.unread \in BOOLEAN /\ (r \in HardReasons) \in BOOLEAN
    BY DEF Boxes
<1>4. ActionOf(r) \in {"keep", "review", "quarantine"}
    BY DEF ActionOf
<1> QED
    BY <1>1, <1>2, <1>3, <1>4 DEF Results

(***************************************************************************)
(* An assessment made with the module on is well-typed and is never the    *)
(* attestation of a disabled module, nor is the decision it leaves ill-    *)
(* typed (_apply_threat_protection).                                       *)
(***************************************************************************)
LEMMA AssessmentsTyped ==
    ASSUME NEW signals \in SignalLevels, NEW mode \in ThreatModes, mode # "off",
           NEW found \in AssessmentResults(signals, mode), NEW result \in Results
    PROVE  /\ AssessmentRow(found, result.action) \in Assessments
           /\ AssessmentRow(found, result.action).analyzer \notin {"none", "disabled-by-user"}
           /\ Assessed(result, found) \in Results
<1>1. /\ found.high \in BOOLEAN
      /\ found.analyzer \in Analyzers \ {"none", "disabled-by-user"}
  <2>1. CASE SemanticFollowup(signals, mode)
    <3>1. \E a \in {"local-model", "local-model-failure"}, h \in BOOLEAN :
             found = [analyzer |-> a, high |-> h]
        BY <2>1, (signals = "alert") \in BOOLEAN DEF AssessmentResults
    <3> QED
        BY <3>1 DEF Analyzers
  <2>2. CASE ~SemanticFollowup(signals, mode)
    <3>1. PICK a \in {"technical-only", "technical-screen-clear", "technical-below-alert"} :
             found = [analyzer |-> a, high |-> signals = "alert"]
        BY <2>2 DEF AssessmentResults
    <3>2. (signals = "alert") \in BOOLEAN
        OBVIOUS
    <3> QED
        BY <3>1, <3>2 DEF Analyzers
  <2> QED
      BY <2>1, <2>2
<1> DEFINE protective == ProtectiveReview(found, result.action)
<1>2. protective \in BOOLEAN
    BY DEF ProtectiveReview
<1> HIDE DEF protective
<1>3. (result.hard \/ protective) \in BOOLEAN
    OBVIOUS
<1>4. [result EXCEPT !.action = IF protective THEN "review" ELSE @,
                     !.hard = @ \/ protective,
                     !.marker = found.high] \in Results
    BY <1>1, <1>3 DEF Results
<1> QED
    BY <1>1, <1>2, <1>4 DEF Assessments, AssessmentRow, Assessed, protective

(***************************************************************************)
(* Ending a run resets its memory to well-typed values.                    *)
(***************************************************************************)
LEMMA EndRunTyped ==
    ASSUME EndRun
    PROVE  /\ pc' \in Phases
           /\ results' \in [Messages -> Results]
           /\ todo' \subseteq Messages
           /\ blocked' \subseteq Families
           /\ call' \in Calls
           /\ run' = run
    BY DEF EndRun, Phases, Results, NoResult, Calls, NoCall

(***************************************************************************)
(* Scanning, assessing and completing a batch keep the types.              *)
(***************************************************************************)
LEMMA ScanTyped ==
    ASSUME Types, Scan
    PROVE  Types'
<1>0. PICK batch \in SUBSET Messages :
         /\ IsBatch(batch)
         /\ \E decided \in [batch -> UNION {Classified(box[m]) : m \in batch}] :
              /\ \A m \in batch : decided[m] \in Classified(box[m]) /\ FallbackConsistent(decided[m])
              /\ results' = [m \in Messages |-> IF m \in batch THEN decided[m] ELSE NoResult]
              /\ row' = [m \in Messages |->
                           IF m \in batch
                           THEN Upserted(row[m], NewRow(decided[m].reason, run.policy))
                           ELSE row[m]]
         /\ todo' = batch
    BY DEF Scan
<1>1. PICK decided \in [batch -> UNION {Classified(box[m]) : m \in batch}] :
         /\ \A m \in batch : decided[m] \in Classified(box[m])
         /\ results' = [m \in Messages |-> IF m \in batch THEN decided[m] ELSE NoResult]
         /\ row' = [m \in Messages |->
                      IF m \in batch
                      THEN Upserted(row[m], NewRow(decided[m].reason, run.policy))
                      ELSE row[m]]
    BY <1>0
<1>2. /\ pc' = "threat"
      /\ UNCHANGED <<box, assess, quiz, exec, node, proofs, run, blocked, call,
                     moves, lost, faults, markerFaults, acts>>
    BY DEF Scan, mailbox, history, counters
<1>3. run.policy \in Policies
    BY ShadowRunAssumption DEF Types, RunSettings
<1>4. ASSUME NEW m \in batch
      PROVE  /\ decided[m] \in Results
             /\ Upserted(row[m], NewRow(decided[m].reason, run.policy)) \in Rows(Policies)
  <2>1. box[m] \in Boxes /\ row[m] \in Rows(Policies)
      BY DEF Types
  <2>2. decided[m] \in Results /\ decided[m].reason \in Reasons
      BY <1>1, <2>1, DecisionsTyped
  <2> QED
      BY <1>3, <2>1, <2>2, NewRowTyped, RowsClosed
<1>5. NoResult \in Results
    BY DEF NoResult, Results
<1>6. results' \in [Messages -> Results] /\ row' \in [Messages -> Rows(Policies)]
    BY <1>1, <1>4, <1>5 DEF Types
<1> QED
    BY <1>0, <1>2, <1>6 DEF Types, Phases

(***************************************************************************)
(* Assessing a message keeps the types.                                    *)
(***************************************************************************)
LEMMA AssessThreatTyped ==
    ASSUME Types, NEW m \in Messages, AssessThreat(m)
    PROVE  Types'
<1>1. PICK found \in AssessmentResults(Signals[m], run.threat) :
         /\ assess' = [assess EXCEPT ![m] = AssessmentRow(found, results[m].action)]
         /\ row' = [row EXCEPT ![m] =
                      IF ProtectiveReview(found, results[m].action) THEN Protected(@) ELSE @]
         /\ results' = [results EXCEPT ![m] = Assessed(@, found)]
    BY DEF AssessThreat
<1>2. /\ todo' = todo \ {m}
      /\ UNCHANGED <<box, quiz, exec, node, proofs, pc, run, blocked, call,
                     moves, lost, faults, markerFaults, acts>>
    BY DEF AssessThreat, mailbox, history, counters
<1>3. /\ run.threat \in ThreatModes
      /\ run.threat # "off"
      /\ Signals[m] \in SignalLevels
      /\ results[m] \in Results
    BY ShadowRunAssumption DEF Types, RunSettings, AssessThreat
<1>4. /\ AssessmentRow(found, results[m].action) \in Assessments
      /\ Assessed(results[m], found) \in Results
    BY <1>3, AssessmentsTyped
<1>5. assess' \in [Messages -> Assessments] /\ results' \in [Messages -> Results]
    BY <1>1, <1>4 DEF Types
<1>6. row' \in [Messages -> Rows(Policies)]
    BY <1>1, RowsClosed DEF Types
<1> QED
    BY <1>2, <1>5, <1>6 DEF Types

(***************************************************************************)
(* Promoting and completing the batch keeps the types.                     *)
(***************************************************************************)
LEMMA CompleteBatchTyped ==
    ASSUME Types, CompleteBatch
    PROVE  Types'
<1>1. ASSUME NEW m \in Messages PROVE Promoted(m) \in Results
    BY DEF Types, Promoted, Results
<1>2. results' \in [Messages -> Results]
    BY <1>1 DEF CompleteBatch
<1>3. row' \in [Messages -> Rows(Policies)]
    BY RowsClosed DEF CompleteBatch, Types
<1> QED
    BY <1>2, <1>3 DEF CompleteBatch, Types, Phases, mailbox, history, counters

(***************************************************************************)
(* The move counters stay natural numbers.                                 *)
(***************************************************************************)
LEMMA CountTyped ==
    ASSUME NEW f \in [Messages -> Nat], NEW x
    PROVE  [f EXCEPT ![x] = @ + 1] \in [Messages -> Nat]
<1>1. CASE x \in Messages
    BY <1>1
<1>2. CASE x \notin Messages
    BY <1>2
<1> QED
    BY <1>1, <1>2

(***************************************************************************)
(* The provider call keeps the types.                                      *)
(***************************************************************************)
LEMMA CallTyped ==
    ASSUME Types, Inspect \/ Move \/ RecordOutcome \/ ResponseLost
    PROVE  Types'
<1> USE DEF mailbox, ledger, history, counters
<1> moves \in [Messages -> Nat] /\ lost \in [Messages -> Nat]
    BY DEF Types
<1>1. run.trash \in BOOLEAN
    BY ShadowRunAssumption DEF Types, RunSettings
<1>2. /\ ExecutorVerdict(run.trash, box[call.message], call.expected)
            \in ExecutorOutcomes \cup {"proceed"}
      /\ SuccessOutcome(run.trash) \in ExecutorOutcomes
    BY DEF ExecutorVerdict, TrashVerdict, QuarantineVerdict, SuccessOutcome,
           ExecutorOutcomes, Successes
<1>3. [box EXCEPT ![call.message] = ExecutorEffect(run.trash, @)] \in [Messages -> Boxes]
    BY <1>1, EffectTyped DEF Types
<1>4. CASE Inspect
  <2>1. call' \in Calls
      BY <1>4, <1>2 DEF Inspect, Types, Calls
  <2> QED
      BY <1>4, <2>1 DEF Inspect, Types
<1>5. CASE Move
  <2>1. call' \in Calls
      BY <1>5, <1>2 DEF Move, Types, Calls
  <2>2. moves' \in [Messages -> Nat]
      BY <1>5, CountTyped DEF Move
  <2> QED
      BY <1>5, <1>3, <2>1, <2>2 DEF Move, Types
<1>6. CASE RecordOutcome
    BY <1>6 DEF RecordOutcome, Types, Calls, NoCall
<1>7. CASE ResponseLost
  <2>1. moves' \in [Messages -> Nat] /\ lost' \in [Messages -> Nat]
      BY <1>7, CountTyped DEF ResponseLost
  <2>2. faults' \in 0..MaxFaults
      BY <1>7, ShadowRunAssumption DEF ResponseLost, Types
  <2> QED
      BY <1>7, <1>3, <2>1, <2>2, EndRunTyped DEF ResponseLost, Types
<1> QED
    BY <1>4, <1>5, <1>6, <1>7

(***************************************************************************)
(* Every step keeps the types.                                             *)
(***************************************************************************)
LEMMA StepTyped ==
    ASSUME Types, [Next]_vars
    PROVE  Types'
<1> USE DEF mailbox, ledger, history, counters, program
<1>1. CASE UNCHANGED vars
    BY <1>1 DEF vars, Types
<1>2. ASSUME NEW s \in Settings, OpenRun(s) PROVE Types'
  <2>1. row' \in [Messages -> Rows(Policies)]
      BY <1>2, RowsClosed DEF OpenRun, Types
  <2>2. assess' \in [Messages -> Assessments]
      BY <1>2 DEF OpenRun, Types, NoAssessment, Assessments, Analyzers
  <2> QED
      BY <1>2, <2>1, <2>2 DEF OpenRun, Types, Phases
<1>3. CASE AttestDisabled
    BY <1>3 DEF AttestDisabled, Types, DisabledAssessment, Assessments, Analyzers
<1>4. CASE BuildLumeGraph
    BY <1>4 DEF BuildLumeGraph, Types, Phases, Batch
<1>5. CASE OpenGate
  <2>1. CASE run.apply
      BY <1>5, <2>1 DEF OpenGate, Types, Phases, Batch
  <2>2. CASE ~run.apply
      BY <1>5, <2>2, EndRunTyped DEF OpenGate, Types
  <2> QED
      BY <2>1, <2>2
<1>6. CASE BeginActions
    BY <1>6 DEF BeginActions, Types, Phases, Batch
<1>7. CASE ListPending
    BY <1>7 DEF ListPending, Types, Phases
<1>8. CASE FinishRun \/ OutcomeRejected
    BY <1>8, EndRunTyped DEF FinishRun, OutcomeRejected, Types
<1>9. CASE Abort
  <2>1. lost' \in [Messages -> Nat]
      BY <1>9, CountTyped DEF Abort, Types
  <2>2. faults' \in 0..MaxFaults
      BY <1>9, ShadowRunAssumption DEF Abort, Types
  <2> QED
      BY <1>9, <2>1, <2>2, EndRunTyped DEF Abort, Types
<1>10. ASSUME NEW m \in Messages, MarkThreat(m) PROVE Types'
  <2>1. box' \in [Messages -> Boxes]
      BY <1>10, BoxesClosed DEF MarkThreat, Types
  <2> QED
      BY <1>10, <2>1 DEF MarkThreat, Types
<1>11. ASSUME NEW m \in Messages, MarkThreatFails(m) PROVE Types'
  <2>1. box' \in [Messages -> Boxes]
      BY <1>11, BoxesClosed DEF MarkThreatFails, Types
  <2>2. row' \in [Messages -> Rows(Policies)]
      BY <1>11, RowsClosed DEF MarkThreatFails, Types
  <2>3. markerFaults' \in 0..MaxMarkerFaults
      BY <1>11, ShadowRunAssumption DEF MarkThreatFails, Types
  <2> QED
      BY <1>11, <2>1, <2>2, <2>3 DEF MarkThreatFails, Types
<1>12. ASSUME NEW m \in Messages, SelectResult(m) PROVE Types'
    BY <1>12 DEF SelectResult, Types, Call, Calls, Results
<1>13. ASSUME NEW m \in Messages, SelectCandidate(m) PROVE Types'
    BY <1>13 DEF SelectCandidate, Types, Call, Calls, ExpectedUnread
<1>14. ASSUME NEW m \in Messages, SkipResult(m) \/ SkipCandidate(m) PROVE Types'
    BY <1>14 DEF SkipResult, SkipCandidate, Types
<1>15. ASSUME NEW m \in Messages, UserTouches(m) PROVE Types'
  <2>1. box' \in [Messages -> Boxes]
      BY <1>15, BoxesClosed DEF UserTouches, Types
  <2>2. call' \in Calls
      BY <1>15 DEF UserTouches, Raced, Types, Calls
  <2>3. acts' \in 0..MaxActs
      BY <1>15, ShadowRunAssumption DEF UserTouches, Types
  <2> QED
      BY <1>15, <2>1, <2>2, <2>3 DEF UserTouches, Types
<1>16. ASSUME NEW m \in Messages, UserAnswers(m) PROVE Types'
  <2>1. call' \in Calls
      BY <1>16 DEF UserAnswers, Raced, Types, Calls
  <2>2. quiz' \in [Messages -> QuizAnswers] /\ acts' \in 0..MaxActs
      BY <1>16, ShadowRunAssumption DEF UserAnswers, Types
  <2> QED
      BY <1>16, <2>1, <2>2 DEF UserAnswers, Types
<1> QED
    BY <1>1, <1>2, <1>3, <1>4, <1>5, <1>6, <1>7, <1>8, <1>9, <1>10, <1>11, <1>12, <1>13,
       <1>14, <1>15, <1>16, ScanTyped, AssessThreatTyped, CompleteBatchTyped, CallTyped
    DEF Next, RunStep, Fault, User

-----------------------------------------------------------------------------
(***************************************************************************)
(* How far a provider call has come, and that only the two moving phases   *)
(* make one, for a message they will not meet again.                       *)
(***************************************************************************)
CallShape ==
    /\ call.message = NoMessage => call = NoCall
    /\ call.message # NoMessage =>
         /\ pc \in {"actions", "recovery"}
         /\ call.message \notin todo
         /\ call.stage \in {"get", "post", "record"}
         /\ call.stage = "record" <=> call.outcome # "none"

(***************************************************************************)
(* A call takes its stages in order and ends with its run or its outcome.  *)
(***************************************************************************)
LEMMA CallShapeKept ==
    ASSUME Types, CallShape, [Next]_vars
    PROVE  CallShape'
<1> USE DEF mailbox, ledger, history, counters, program
<1> USE ShadowRunAssumption
<1>1. ASSUME call' = NoCall PROVE CallShape'
    BY <1>1 DEF CallShape, NoCall
<1>2. ASSUME call = NoCall, call' = call PROVE CallShape'
    BY <1>1, <1>2
<1>3. ASSUME pc \notin {"actions", "recovery"}, call' = call PROVE CallShape'
    BY <1>2, <1>3 DEF CallShape
<1>4. CASE UNCHANGED vars
    BY <1>4 DEF vars, CallShape
<1>5. ASSUME NEW s \in Settings, OpenRun(s) PROVE CallShape'
    BY <1>5, <1>3 DEF OpenRun
<1>6. CASE Scan \/ AttestDisabled \/ BuildLumeGraph \/ CompleteBatch \/ BeginActions
    BY <1>6, <1>3 DEF Scan, AttestDisabled, BuildLumeGraph, CompleteBatch, BeginActions
<1>7. CASE OpenGate
    BY <1>7, <1>1, <1>3 DEF OpenGate, EndRun
<1>8. ASSUME NEW m \in Messages, AssessThreat(m) \/ MarkThreat(m) \/ MarkThreatFails(m)
      PROVE  CallShape'
    BY <1>8, <1>3 DEF AssessThreat, MarkThreat, MarkThreatFails
<1>9. CASE ListPending
    BY <1>9, <1>2 DEF ListPending
<1>10. ASSUME NEW m \in Messages, SelectResult(m) \/ SelectCandidate(m)
       PROVE  CallShape'
    BY <1>10 DEF SelectResult, SelectCandidate, Call, CallShape
<1>11. ASSUME NEW m \in Messages, SkipResult(m) \/ SkipCandidate(m)
       PROVE  CallShape'
    BY <1>11, <1>2 DEF SkipResult, SkipCandidate
<1>12. CASE Inspect
  <2>1. call.message # NoMessage
      BY <1>12 DEF Inspect, CallShape, NoCall
  <2>2. ExecutorVerdict(run.trash, box[call.message], call.expected) # "none"
      BY DEF ExecutorVerdict, TrashVerdict, QuarantineVerdict
  <2> QED
      BY <1>12, <2>1, <2>2 DEF Inspect, CallShape, Types, Calls
<1>13. CASE Move
  <2>1. call.message # NoMessage
      BY <1>13 DEF Move, CallShape, NoCall
  <2>2. SuccessOutcome(run.trash) # "none"
      BY DEF SuccessOutcome
  <2> QED
      BY <1>13, <2>1, <2>2 DEF Move, CallShape, Types, Calls
<1>14. CASE RecordOutcome
    BY <1>14, <1>1 DEF RecordOutcome
<1>15. CASE OutcomeRejected \/ FinishRun \/ Abort \/ ResponseLost
    BY <1>15, <1>1 DEF OutcomeRejected, FinishRun, Abort, ResponseLost, EndRun
<1>16. ASSUME NEW m \in Messages, UserTouches(m) \/ UserAnswers(m)
       PROVE  CallShape'
    BY <1>16 DEF UserTouches, UserAnswers, Raced, CallShape, Types, Calls, NoCall
<1> QED
    BY <1>4, <1>5, <1>6, <1>7, <1>8, <1>9, <1>10, <1>11, <1>12, <1>13, <1>14, <1>15, <1>16
    DEF Next, RunStep, Fault, User

(***************************************************************************)
(* CorrectionWins needs no more than itself: the two selections read the   *)
(* answer, and a later answer marks the call.                              *)
(***************************************************************************)
LEMMA CorrectionKept ==
    ASSUME Types, CorrectionWins, [Next]_vars
    PROVE  CorrectionWins'
<1> USE DEF mailbox, ledger, history, counters, program
<1> USE ShadowRunAssumption
<1>1. ASSUME call' = NoCall PROVE CorrectionWins'
    BY <1>1 DEF CorrectionWins, NoCall
<1>2. ASSUME call' = call, quiz' = quiz PROVE CorrectionWins'
    BY <1>2 DEF CorrectionWins
<1>3. CASE UNCHANGED vars
    BY <1>3, <1>2 DEF vars
<1>4. ASSUME NEW s \in Settings, OpenRun(s) PROVE CorrectionWins'
    BY <1>4, <1>2 DEF OpenRun
<1>5. CASE \/ Scan \/ AttestDisabled \/ BuildLumeGraph \/ CompleteBatch
           \/ BeginActions \/ ListPending
    BY <1>5, <1>2
    DEF Scan, AttestDisabled, BuildLumeGraph, CompleteBatch, BeginActions, ListPending
<1>6. CASE OpenGate
    BY <1>6, <1>1, <1>2 DEF OpenGate, EndRun
<1>7. ASSUME NEW m \in Messages,
             \/ AssessThreat(m) \/ MarkThreat(m) \/ MarkThreatFails(m)
             \/ SkipResult(m) \/ SkipCandidate(m)
      PROVE  CorrectionWins'
    BY <1>7, <1>2 DEF AssessThreat, MarkThreat, MarkThreatFails, SkipResult, SkipCandidate
<1>8. ASSUME NEW m \in Messages, SelectResult(m) \/ SelectCandidate(m)
      PROVE  CorrectionWins'
    BY <1>8 DEF SelectResult, SelectCandidate, Selectable, Call, CorrectionWins
<1>9. CASE Inspect \/ Move
    BY <1>9 DEF Inspect, Move, CorrectionWins, Types, Calls
<1>10. CASE RecordOutcome \/ OutcomeRejected \/ FinishRun \/ Abort \/ ResponseLost
    BY <1>10, <1>1 DEF RecordOutcome, OutcomeRejected, FinishRun, Abort, ResponseLost, EndRun
<1>11. ASSUME NEW m \in Messages, UserTouches(m) \/ UserAnswers(m)
       PROVE  CorrectionWins'
    BY <1>11 DEF UserTouches, UserAnswers, Raced, CorrectionWins, Types, Calls
<1> QED
    BY <1>3, <1>4, <1>5, <1>6, <1>7, <1>8, <1>9, <1>10, <1>11
    DEF Next, RunStep, Fault, User

-----------------------------------------------------------------------------
(***************************************************************************)
(* What a run may rely on about the batch it has in memory: the rows on    *)
(* disk are its own and agree with it, everything already assessed has an  *)
(* assessment, and what it would move is proposed by the ledger as well.   *)
(***************************************************************************)
BatchPhases == {"threat", "proofs", "gate", "markers", "actions"}

RowAgrees(m) ==
    /\ row[m].policy = run.policy
    /\ row[m].reason = results[m].reason
    /\ results[m].reason \in HardReasons => results[m].hard
    /\ results[m].reason = "local_model_unavailable" => results[m].fallback
    /\ results[m].action = "quarantine" => Proposed(m)

Screened(m) == HasAssessment(assess[m], run.threat = "off")

BatchStands ==
    /\ pc \in {"idle", "scan"} => Batch = {} /\ todo = {}
    /\ pc \in {"proofs", "gate"} => todo = {}
    /\ pc \in BatchPhases =>
         /\ todo \subseteq Batch
         /\ \A m \in Batch : RowAgrees(m)
         /\ \A m \in Batch : pc # "threat" \/ m \notin todo => Screened(m)
    /\ pc = "actions" => \A m \in todo : results[m].action = "quarantine"

(***************************************************************************)
(* What is on its way to Gmail, or listed for recovery, stands in the      *)
(* ledger.                                                                 *)
(***************************************************************************)
Ready(m) ==
    /\ Recoverable(row[m], run.policy)
    /\ Screened(m)
    /\ ~ThreatProtects(assess[m])
    /\ exec[m] = "none"
    /\ Proposed(m)

RecoveryStands == pc = "recovery" => \A m \in todo : Ready(m)

CallStands == \A m \in Messages : call.message = m => Ready(m)

(***************************************************************************)
(* A proposal survives whatever leaves its row's decision, the proofs, the *)
(* settings and an explicit Don't keep in place.                           *)
(***************************************************************************)
LEMMA ProposedPersists ==
    ASSUME NEW m \in Messages, Proposed(m), run' = run, proofs \subseteq proofs',
           row'[m].action = row[m].action, row'[m].hard = row[m].hard,
           row'[m].reason = row[m].reason,
           quiz[m] # "none" => quiz'[m] = quiz[m]
    PROVE  Proposed(m)'
    BY DEF Proposed, OrdinaryProposal, ReviewedProposal, ProofProposal

(***************************************************************************)
(* Completing a row and reopening it leave its decision and its policy     *)
(* alone.                                                                  *)
(***************************************************************************)
LEMMA ReopenedKeeps ==
    ASSUME NEW r \in Rows(Policies), NEW policy
    PROVE  \A s \in {Reopened(r), Completed(r, policy)} :
             /\ s.action = r.action
             /\ s.hard = r.hard
             /\ s.reason = r.reason
             /\ s.policy = r.policy
    BY DEF Rows, Reopened, Completed

(***************************************************************************)
(* The batch a scan takes: each message was found, and was not processed   *)
(* under this policy, so its row is replaced by the new decision.          *)
(***************************************************************************)
LEMMA ScanStands ==
    ASSUME Types, BatchStands, Scan
    PROVE  BatchStands'
<1>0. PICK batch \in SUBSET Messages :
         /\ IsBatch(batch)
         /\ \E decided \in [batch -> UNION {Classified(box[m]) : m \in batch}] :
              /\ \A m \in batch : decided[m] \in Classified(box[m]) /\ FallbackConsistent(decided[m])
              /\ results' = [m \in Messages |-> IF m \in batch THEN decided[m] ELSE NoResult]
              /\ row' = [m \in Messages |->
                           IF m \in batch
                           THEN Upserted(row[m], NewRow(decided[m].reason, run.policy))
                           ELSE row[m]]
         /\ todo' = batch
    BY DEF Scan
<1>1. PICK decided \in [batch -> UNION {Classified(box[m]) : m \in batch}] :
         /\ \A m \in batch : decided[m] \in Classified(box[m]) /\ FallbackConsistent(decided[m])
         /\ results' = [m \in Messages |-> IF m \in batch THEN decided[m] ELSE NoResult]
         /\ row' = [m \in Messages |->
                      IF m \in batch
                      THEN Upserted(row[m], NewRow(decided[m].reason, run.policy))
                      ELSE row[m]]
    BY <1>0
<1>2. pc' = "threat" /\ run' = run
    BY DEF Scan
<1>3. ASSUME NEW m \in batch
      PROVE  /\ decided[m].action # "none"
             /\ decided[m].action = ActionOf(decided[m].reason)
             /\ decided[m].hard = (decided[m].reason \in HardReasons)
             /\ decided[m].reason = "local_model_unavailable" => decided[m].fallback
    BY <1>1, DecisionsTyped DEF Types, FallbackConsistent
<1>4. Batch' = batch
    BY <1>1, <1>3 DEF Batch, NoResult
<1>5. ASSUME NEW m \in batch PROVE RowAgrees(m)'
  <2>1. ~WasScanned(row[m], run.policy)
      BY <1>0 DEF IsBatch, Found
  <2>2. row'[m] = NewRow(decided[m].reason, run.policy)
      BY <1>1, <2>1 DEF Upserted, WasScanned, NewRow
  <2>3. results'[m] = decided[m]
      BY <1>1
  <2>4. decided[m].action = "quarantine" => decided[m].reason \notin HardReasons
      BY <1>3 DEF ActionOf, KeepReasons, ReviewReasons, HardReasons
  <2>5. /\ row'[m].action = ActionOf(decided[m].reason)
        /\ row'[m].reason = decided[m].reason
        /\ row'[m].policy = run.policy
        /\ row'[m].hard => decided[m].reason \in HardReasons
    <3>1. row'[m].hard => decided[m].reason \in HardReasons
        BY <2>2, NewRowHard
    <3> QED
        BY <2>2, <3>1 DEF NewRow
  <2>6. decided[m].action = "quarantine" => Proposed(m)'
      BY <1>3, <2>4, <2>5 DEF Proposed, OrdinaryProposal
  <2> QED
      BY <1>2, <1>3, <2>3, <2>5, <2>6 DEF RowAgrees
<1> QED
    BY <1>0, <1>2, <1>4, <1>5 DEF BatchStands, BatchPhases

(***************************************************************************)
(* An assessment never contradicts the row: it either leaves the decision  *)
(* alone or turns memory and row into a protected review together.         *)
(***************************************************************************)
LEMMA AssessStands ==
    ASSUME Types, BatchStands, NEW m \in Messages, AssessThreat(m)
    PROVE  BatchStands'
<1>1. PICK found \in AssessmentResults(Signals[m], run.threat) :
         /\ assess' = [assess EXCEPT ![m] = AssessmentRow(found, results[m].action)]
         /\ row' = [row EXCEPT ![m] =
                      IF ProtectiveReview(found, results[m].action) THEN Protected(@) ELSE @]
         /\ results' = [results EXCEPT ![m] = Assessed(@, found)]
    BY DEF AssessThreat
<1>2. /\ pc = "threat" /\ pc' = pc /\ run' = run /\ run.threat # "off"
      /\ todo' = todo \ {m} /\ m \in todo
      /\ UNCHANGED <<quiz, proofs>>
    BY DEF AssessThreat, mailbox, history, counters
<1>3. /\ m \in Batch
      /\ RowAgrees(m)
      /\ results[m] \in Results
      /\ row[m] \in Rows(Policies)
      /\ Signals[m] \in SignalLevels
      /\ run.threat \in ThreatModes
      /\ run.policy \in Policies /\ NoPolicy \notin Policies
    BY <1>2, ShadowRunAssumption DEF BatchStands, BatchPhases, Types, RunSettings
<1>4. Screened(m)'
  <2>1. AssessmentRow(found, results[m].action).analyzer \notin {"none", "disabled-by-user"}
      BY <1>2, <1>3, AssessmentsTyped
  <2> QED
      BY <1>1, <2>1 DEF Screened, HasAssessment, Types
<1>5. /\ results'[m].action # "none"
      /\ RowAgrees(m)'
  <2>1. CASE ProtectiveReview(found, results[m].action)
    <3>1. /\ row'[m].policy = row[m].policy
          /\ row'[m].reason = row[m].reason
        BY <1>1, <1>3, <2>1 DEF Protected, Types, Rows
    <3>2. /\ results'[m].action = "review"
          /\ results'[m].hard
          /\ results'[m].reason = results[m].reason
          /\ results'[m].fallback = results[m].fallback
        BY <1>1, <1>3, <2>1 DEF Assessed, Types, Results
    <3> QED
        BY <1>2, <1>3, <3>1, <3>2 DEF RowAgrees
  <2>2. CASE ~ProtectiveReview(found, results[m].action)
    <3>1. row'[m] = row[m]
        BY <1>1, <2>2 DEF Types
    <3>2. /\ results'[m].action = results[m].action
          /\ results'[m].hard = results[m].hard
          /\ results'[m].reason = results[m].reason
          /\ results'[m].fallback = results[m].fallback
        BY <1>1, <1>3, <2>2 DEF Assessed, Types, Results
    <3>3. Proposed(m) => Proposed(m)'
        BY <1>2, <3>1, ProposedPersists
    <3> QED
        BY <1>2, <1>3, <3>1, <3>2, <3>3 DEF RowAgrees, Batch
  <2> QED
      BY <2>1, <2>2
<1>6. ASSUME NEW n \in Messages \ {m}
      PROVE  /\ results'[n] = results[n]
             /\ RowAgrees(n) => RowAgrees(n)'
             /\ Screened(n) => Screened(n)'
  <2>1. results'[n] = results[n] /\ row'[n] = row[n] /\ assess'[n] = assess[n]
      BY <1>1 DEF Types
  <2>2. Proposed(n) => Proposed(n)'
      BY <1>2, <2>1, ProposedPersists
  <2> QED
      BY <1>2, <2>1, <2>2 DEF RowAgrees, Screened
<1>7. Batch' = Batch
    BY <1>3, <1>5, <1>6 DEF Batch
<1> QED
    BY <1>2, <1>4, <1>5, <1>6, <1>7 DEF BatchStands, BatchPhases, Batch

(***************************************************************************)
(* Completing the batch promotes only what the ledger proposes by proof.   *)
(***************************************************************************)
LEMMA CompleteStands ==
    ASSUME Types, BatchStands, CompleteBatch
    PROVE  BatchStands'
<1>1. /\ pc = "proofs" /\ pc' = "gate" /\ todo = {} /\ todo' = {}
      /\ results' = [m \in Messages |-> Promoted(m)]
      /\ row' = [m \in Messages |->
                   IF m \in Batch /\ ~results[m].fallback
                   THEN Completed(row[m], run.policy) ELSE row[m]]
      /\ UNCHANGED <<run, proofs, quiz, assess>>
    BY DEF CompleteBatch, BatchStands
<1>2. ASSUME NEW m \in Messages
      PROVE  /\ results'[m].action \in {results[m].action, "quarantine"}
             /\ results'[m].action # results[m].action => results[m].action = "review"
             /\ results'[m].reason = results[m].reason
             /\ results'[m].hard = results[m].hard
             /\ results'[m].fallback = results[m].fallback
    BY <1>1 DEF Promoted, Types, Results
<1>3. ASSUME NEW m \in Messages
      PROVE  /\ row'[m].action = row[m].action
             /\ row'[m].hard = row[m].hard
             /\ row'[m].reason = row[m].reason
             /\ row'[m].policy = row[m].policy
    BY <1>1, ReopenedKeeps DEF Types
<1>4. Batch' = Batch
    BY <1>2 DEF Batch
<1>5. ASSUME NEW m \in Batch PROVE RowAgrees(m)' /\ Screened(m)'
  <2>1. m \in Messages /\ RowAgrees(m) /\ Screened(m)
      BY <1>1 DEF BatchStands, BatchPhases, Batch
  <2>2. ASSUME results'[m].action = "quarantine" PROVE Proposed(m)'
    <3>1. CASE results[m].action = "quarantine"
        BY <3>1, <2>1, <1>1, <1>3, ProposedPersists DEF RowAgrees
    <3>2. CASE results[m].action # "quarantine"
      <4>1. run.proof /\ ~run.trash /\ m \in proofs /\ ~results[m].hard
          BY <3>2, <2>1, <2>2, <1>1 DEF Promoted
      <4>2. row'[m].reason \notin HardReasons
          BY <4>1, <2>1, <1>3 DEF RowAgrees
      <4> QED
          BY <4>1, <4>2, <1>1 DEF Proposed, ProofProposal
    <3> QED
        BY <3>1, <3>2
  <2> QED
      BY <2>1, <2>2, <1>1, <1>2, <1>3 DEF RowAgrees, Screened
<1> QED
    BY <1>1, <1>4, <1>5 DEF BatchStands, BatchPhases

(***************************************************************************)
(* A step that leaves the decisions alone, and only shrinks what is left   *)
(* to do, keeps the batch standing.                                        *)
(***************************************************************************)
LEMMA BatchFrame ==
    ASSUME Types, BatchStands, UNCHANGED <<pc, run, results, assess>>,
           todo' \subseteq todo, pc = "threat" => todo' = todo,
           proofs \subseteq proofs',
           \A m \in Messages : /\ row'[m].action = row[m].action
                               /\ row'[m].hard = row[m].hard
                               /\ row'[m].reason = row[m].reason
                               /\ row'[m].policy = row[m].policy,
           \A m \in Messages : quiz[m] # "none" => quiz'[m] = quiz[m]
    PROVE  BatchStands'
<1>1. Batch' = Batch
    BY DEF Batch
<1>2. ASSUME NEW m \in Messages, RowAgrees(m) PROVE RowAgrees(m)'
  <2>1. Proposed(m) => Proposed(m)'
      BY ProposedPersists
  <2> QED
      BY <1>2, <2>1 DEF RowAgrees
<1>3. ASSUME NEW m \in Messages, Screened(m) PROVE Screened(m)'
    BY <1>3 DEF Screened
<1> QED
    BY <1>1, <1>2, <1>3 DEF BatchStands, BatchPhases, Batch

(***************************************************************************)
(* Every step keeps the batch standing.                                    *)
(***************************************************************************)
LEMMA BatchStandsKept ==
    ASSUME Types, BatchStands, [Next]_vars
    PROVE  BatchStands'
<1> USE DEF mailbox, ledger, history, counters, program
<1>1. CASE UNCHANGED vars
    BY <1>1, BatchFrame DEF vars
<1>2. ASSUME NEW s \in Settings, OpenRun(s) PROVE BatchStands'
    BY <1>2 DEF OpenRun, BatchStands, BatchPhases, Batch
<1>3. ASSUME EndRun PROVE BatchStands'
  <2>1. pc' = "idle" /\ todo' = {} /\ results' = [m \in Messages |-> NoResult]
      BY <1>3 DEF EndRun
  <2>2. Batch' = {}
      BY <2>1 DEF Batch, NoResult
  <2> QED
      BY <2>1, <2>2 DEF BatchStands, BatchPhases
<1>4. CASE AttestDisabled
  <2>1. /\ pc = "threat" /\ pc' = pc /\ run.threat = "off" /\ todo' = {}
        /\ UNCHANGED <<run, results, row, proofs, quiz>>
        /\ assess' = [m \in Messages |->
                        IF m \in todo THEN DisabledAssessment ELSE assess[m]]
      BY <1>4 DEF AttestDisabled
  <2>2. Batch' = Batch
      BY <2>1 DEF Batch
  <2>3. ASSUME NEW m \in Batch PROVE RowAgrees(m)' /\ Screened(m)'
    <3>1. m \in Messages /\ RowAgrees(m) /\ (m \notin todo => Screened(m))
        BY <2>1 DEF BatchStands, BatchPhases, Batch
    <3>2. RowAgrees(m)'
        BY <3>1, <2>1, ProposedPersists DEF RowAgrees
    <3>3. Screened(m)'
        BY <3>1, <2>1 DEF Screened, HasAssessment, DisabledAssessment
    <3> QED
        BY <3>2, <3>3
  <2> QED
      BY <2>1, <2>2, <2>3 DEF BatchStands, BatchPhases
<1>5. CASE BuildLumeGraph
  <2>1. /\ pc = "threat" /\ pc' = "proofs" /\ todo = {} /\ todo' = {}
        /\ proofs \subseteq proofs'
        /\ UNCHANGED <<run, results, row, quiz, assess>>
      BY <1>5 DEF BuildLumeGraph
  <2>2. Batch' = Batch
      BY <2>1 DEF Batch
  <2>3. ASSUME NEW m \in Batch PROVE RowAgrees(m)' /\ Screened(m)'
    <3>1. m \in Messages /\ RowAgrees(m) /\ Screened(m)
        BY <2>1 DEF BatchStands, BatchPhases, Batch
    <3>2. RowAgrees(m)'
        BY <3>1, <2>1, ProposedPersists DEF RowAgrees
    <3> QED
        BY <3>1, <3>2, <2>1 DEF Screened
  <2> QED
      BY <2>1, <2>2, <2>3 DEF BatchStands, BatchPhases
<1>6. CASE OpenGate
  <2>1. CASE run.apply
      BY <1>6, <2>1 DEF OpenGate, BatchStands, BatchPhases, Batch, RowAgrees, Screened,
            Proposed, OrdinaryProposal, ReviewedProposal, ProofProposal
  <2>2. CASE ~run.apply
      BY <1>6, <2>2, <1>3 DEF OpenGate
  <2> QED
      BY <2>1, <2>2
<1>7. ASSUME NEW m \in Messages, MarkThreat(m) PROVE BatchStands'
    BY <1>7, BatchFrame DEF MarkThreat
<1>8. ASSUME NEW m \in Messages, MarkThreatFails(m) PROVE BatchStands'
  <2>1. \A n \in Messages : /\ row'[n].action = row[n].action
                            /\ row'[n].hard = row[n].hard
                            /\ row'[n].reason = row[n].reason
                            /\ row'[n].policy = row[n].policy
      BY <1>8, ReopenedKeeps DEF MarkThreatFails, Types
  <2> QED
      BY <1>8, <2>1, BatchFrame DEF MarkThreatFails
<1>9. CASE BeginActions
    BY <1>9 DEF BeginActions, BatchStands, BatchPhases, Batch, RowAgrees, Screened,
          Proposed, OrdinaryProposal, ReviewedProposal, ProofProposal
<1>10. ASSUME NEW m \in Messages,
              SelectResult(m) \/ SkipResult(m) \/ SelectCandidate(m) \/ SkipCandidate(m)
       PROVE  BatchStands'
    BY <1>10, BatchFrame DEF SelectResult, SkipResult, SelectCandidate, SkipCandidate
<1>11. CASE ListPending
    BY <1>11 DEF ListPending, BatchStands, BatchPhases
<1>12. CASE Inspect \/ Move \/ RecordOutcome
    BY <1>12, BatchFrame DEF Inspect, Move, RecordOutcome
<1>13. CASE OutcomeRejected \/ FinishRun \/ Abort \/ ResponseLost
    BY <1>13, <1>3 DEF OutcomeRejected, FinishRun, Abort, ResponseLost
<1>14. ASSUME NEW m \in Messages, UserTouches(m) \/ UserAnswers(m)
       PROVE  BatchStands'
  <2>1. \A n \in Messages : quiz[n] # "none" => quiz'[n] = quiz[n]
      BY <1>14 DEF UserTouches, UserAnswers, Types
  <2> QED
      BY <1>14, <2>1, BatchFrame DEF UserTouches, UserAnswers
<1> QED
    BY <1>1, <1>2, <1>4, <1>5, <1>6, <1>7, <1>8, <1>9, <1>10, <1>11, <1>12, <1>13, <1>14,
       ScanStands, AssessStands, CompleteStands
    DEF Next, RunStep, Fault, User

-----------------------------------------------------------------------------
(***************************************************************************)
(* A message that stands keeps standing while its row's decision, its      *)
(* assessment and its execution do.                                        *)
(***************************************************************************)
LEMMA ReadyFrame ==
    ASSUME Types, NEW m \in Messages, Ready(m),
           run' = run, assess'[m] = assess[m], exec'[m] = exec[m], proofs \subseteq proofs',
           row'[m].action = row[m].action, row'[m].hard = row[m].hard,
           row'[m].reason = row[m].reason, row'[m].policy = row[m].policy,
           quiz[m] # "none" => quiz'[m] = quiz[m]
    PROVE  Ready(m)'
<1>1. Proposed(m)'
    BY ProposedPersists DEF Ready
<1>2. Recoverable(row[m], run.policy)'
  <2>1. run.policy \in Policies
      BY ShadowRunAssumption DEF Types, RunSettings
  <2>2. row'[m].policy # NoRow.policy
      BY <2>1, ShadowRunAssumption DEF Ready, Recoverable, NoRow
  <2> QED
      BY <2>2 DEF Ready, Recoverable
<1> QED
    BY <1>1, <1>2 DEF Ready, Screened

(***************************************************************************)
(* The recovery list stands from the moment it is read to the last         *)
(* candidate: only candidates already taken off it are executed.           *)
(***************************************************************************)
LEMMA RecoveryStandsKept ==
    ASSUME Types, CallShape, RecoveryStands, [Next]_vars
    PROVE  RecoveryStands'
<1> USE DEF mailbox, ledger, history, counters, program
<1>1. ASSUME pc' # "recovery" PROVE RecoveryStands'
    BY <1>1 DEF RecoveryStands
<1>2. ASSUME UNCHANGED <<pc, run, row, assess, exec, proofs>>, todo' \subseteq todo,
             \A n \in Messages : quiz[n] # "none" => quiz'[n] = quiz[n]
      PROVE  RecoveryStands'
  <2> SUFFICES ASSUME pc' = "recovery", NEW n \in todo' PROVE Ready(n)'
      BY DEF RecoveryStands
  <2> QED
      BY <1>2, ReadyFrame DEF RecoveryStands, Types
<1>3. CASE UNCHANGED vars
    BY <1>3, <1>2 DEF vars
<1>4. ASSUME NEW s \in Settings, OpenRun(s) PROVE RecoveryStands'
    BY <1>4, <1>1 DEF OpenRun
<1>5. CASE Scan \/ AttestDisabled \/ BuildLumeGraph \/ CompleteBatch \/ BeginActions
    BY <1>5, <1>1 DEF Scan, AttestDisabled, BuildLumeGraph, CompleteBatch, BeginActions
<1>6. CASE OpenGate \/ OutcomeRejected \/ FinishRun \/ Abort \/ ResponseLost
    BY <1>6, <1>1 DEF OpenGate, OutcomeRejected, FinishRun, Abort, ResponseLost, EndRun
<1>7. ASSUME NEW m \in Messages,
             \/ AssessThreat(m) \/ MarkThreat(m) \/ MarkThreatFails(m)
             \/ SelectResult(m) \/ SkipResult(m)
      PROVE  RecoveryStands'
    BY <1>7, <1>1 DEF AssessThreat, MarkThreat, MarkThreatFails, SelectResult, SkipResult
<1>8. CASE ListPending
  <2> SUFFICES ASSUME NEW n \in todo' PROVE Ready(n)'
      BY DEF RecoveryStands
  <2>1. Pending(n)
      BY <1>8 DEF ListPending
  <2>2. Ready(n)
      BY <2>1 DEF Pending, Ready, Screened
  <2> QED
      BY <1>8, <2>2 DEF ListPending, Ready, Screened, Proposed, OrdinaryProposal,
            ReviewedProposal, ProofProposal
<1>9. ASSUME NEW m \in Messages, SelectCandidate(m) \/ SkipCandidate(m)
      PROVE  RecoveryStands'
    BY <1>9, <1>2 DEF SelectCandidate, SkipCandidate
<1>10. CASE Inspect \/ Move
    BY <1>10, <1>2 DEF Inspect, Move
<1>11. CASE RecordOutcome
  <2> SUFFICES ASSUME pc' = "recovery", NEW n \in todo' PROVE Ready(n)'
      BY DEF RecoveryStands
  <2>1. n \in Messages /\ Ready(n) /\ pc = "recovery"
      BY <1>11 DEF RecordOutcome, RecoveryStands, Types
  <2>2. n # call.message
    <3>1. call # NoCall
        BY <1>11 DEF RecordOutcome, NoCall
    <3> QED
        BY <1>11, <3>1 DEF RecordOutcome, CallShape
  <2>3. exec'[n] = exec[n]
      BY <1>11, <2>1, <2>2 DEF RecordOutcome, Types
  <2> QED
      BY <1>11, <2>1, <2>3, ReadyFrame DEF RecordOutcome
<1>12. ASSUME NEW m \in Messages, UserTouches(m) \/ UserAnswers(m)
       PROVE  RecoveryStands'
  <2>1. \A n \in Messages : quiz[n] # "none" => quiz'[n] = quiz[n]
      BY <1>12 DEF UserTouches, UserAnswers, Types
  <2> QED
      BY <1>12, <2>1, <1>2 DEF UserTouches, UserAnswers
<1> QED
    BY <1>3, <1>4, <1>5, <1>6, <1>7, <1>8, <1>9, <1>10, <1>11, <1>12
    DEF Next, RunStep, Fault, User

(***************************************************************************)
(* A message is sent on its way only when it stands, and nothing withdraws *)
(* that before the call is over.                                           *)
(***************************************************************************)
LEMMA CallStandsKept ==
    ASSUME Types, CallShape, BatchStands, RecoveryStands, CallStands, [Next]_vars
    PROVE  CallStands'
<1> USE DEF mailbox, ledger, history, counters, program
<1> USE ShadowRunAssumption
<1>1. ASSUME call' = NoCall PROVE CallStands'
    BY <1>1 DEF CallStands, NoCall
<1>2. ASSUME pc \notin {"actions", "recovery"}, call' = call PROVE CallStands'
  <2>1. call = NoCall
      BY <1>2 DEF CallShape
  <2> QED
      BY <1>1, <1>2, <2>1
<1>3. ASSUME UNCHANGED <<run, row, assess, exec, proofs>>, call'.message = call.message,
             \A n \in Messages : quiz[n] # "none" => quiz'[n] = quiz[n]
      PROVE  CallStands'
  <2> SUFFICES ASSUME NEW n \in Messages, call'.message = n PROVE Ready(n)'
      BY DEF CallStands
  <2> QED
      BY <1>3, ReadyFrame DEF CallStands
<1>4. CASE UNCHANGED vars
    BY <1>4, <1>3 DEF vars
<1>5. ASSUME NEW s \in Settings, OpenRun(s) PROVE CallStands'
    BY <1>5, <1>2 DEF OpenRun
<1>6. CASE Scan \/ AttestDisabled \/ BuildLumeGraph \/ CompleteBatch \/ BeginActions
    BY <1>6, <1>2 DEF Scan, AttestDisabled, BuildLumeGraph, CompleteBatch, BeginActions
<1>7. CASE OpenGate
    BY <1>7, <1>1, <1>2 DEF OpenGate, EndRun
<1>8. ASSUME NEW m \in Messages, AssessThreat(m) \/ MarkThreat(m) \/ MarkThreatFails(m)
      PROVE  CallStands'
    BY <1>8, <1>2 DEF AssessThreat, MarkThreat, MarkThreatFails
<1>9. ASSUME NEW m \in Messages, SkipResult(m) \/ SkipCandidate(m)
      PROVE  CallStands'
    BY <1>9, <1>1 DEF SkipResult, SkipCandidate
<1>10. CASE ListPending
    BY <1>10, <1>1 DEF ListPending
<1>11. ASSUME NEW m \in Messages, SelectResult(m) PROVE CallStands'
  <2>1. RowAgrees(m) /\ Screened(m) /\ results[m].action = "quarantine"
      BY <1>11 DEF SelectResult, BatchStands, BatchPhases
  <2>2. ~ThreatProtects(assess[m]) /\ exec[m] = "none"
      BY <1>11 DEF SelectResult, Selectable
  <2>3. Recoverable(row[m], run.policy)
    <3>1. run.policy \in Policies
        BY DEF Types, RunSettings
    <3>2. row[m].policy # NoRow.policy
        BY <2>1, <3>1 DEF RowAgrees, NoRow
    <3> QED
        BY <2>1, <3>2 DEF RowAgrees, Recoverable
  <2>4. Ready(m)
      BY <2>1, <2>2, <2>3 DEF Ready, RowAgrees
  <2>5. Ready(m)'
      BY <1>11, <2>4, ReadyFrame DEF SelectResult
  <2> QED
      BY <1>11, <2>5 DEF SelectResult, CallStands, Call
<1>12. ASSUME NEW m \in Messages, SelectCandidate(m) PROVE CallStands'
  <2>1. Ready(m)'
      BY <1>12, ReadyFrame DEF SelectCandidate, RecoveryStands
  <2> QED
      BY <1>12, <2>1 DEF SelectCandidate, CallStands, Call
<1>13. CASE Inspect \/ Move
  <2>1. call'.message = call.message
      BY <1>13 DEF Inspect, Move, Types, Calls
  <2> QED
      BY <1>13, <2>1, <1>3 DEF Inspect, Move
<1>14. CASE RecordOutcome \/ OutcomeRejected \/ FinishRun \/ Abort \/ ResponseLost
    BY <1>14, <1>1 DEF RecordOutcome, OutcomeRejected, FinishRun, Abort, ResponseLost, EndRun
<1>15. ASSUME NEW m \in Messages, UserTouches(m) \/ UserAnswers(m)
       PROVE  CallStands'
  <2>1. \A n \in Messages : quiz[n] # "none" => quiz'[n] = quiz[n]
      BY <1>15 DEF UserTouches, UserAnswers, Types
  <2>2. call'.message = call.message
      BY <1>15 DEF UserTouches, UserAnswers, Raced, Types, Calls
  <2> QED
      BY <1>15, <2>1, <2>2, <1>3 DEF UserTouches, UserAnswers
<1> QED
    BY <1>4, <1>5, <1>6, <1>7, <1>8, <1>9, <1>10, <1>11, <1>12, <1>13, <1>14, <1>15
    DEF Next, RunStep, Fault, User

-----------------------------------------------------------------------------
(***************************************************************************)
(* A row is completed only beside an assessment and a real classification; *)
(* withdrawing an assessment reopens the row.                              *)
(***************************************************************************)
LEMMA CompleteKept ==
    ASSUME Types, BatchStands, CompleteMeansFinished, [Next]_vars
    PROVE  CompleteMeansFinished'
<1> USE DEF mailbox, ledger, history, counters, program
<1>1. ASSUME \A n \in Messages :
                row'[n].done => /\ row[n].done
                                /\ row'[n].reason = row[n].reason
                                /\ assess[n].analyzer # "none" => assess'[n].analyzer # "none"
      PROVE  CompleteMeansFinished'
    BY <1>1 DEF CompleteMeansFinished
<1>2. ASSUME UNCHANGED <<row, assess>> PROVE CompleteMeansFinished'
    BY <1>1, <1>2
<1>3. CASE UNCHANGED vars
    BY <1>3, <1>2 DEF vars
<1>4. ASSUME NEW s \in Settings, OpenRun(s) PROVE CompleteMeansFinished'
  <2> SUFFICES ASSUME NEW n \in Messages, row'[n].done
               PROVE  /\ row[n].done
                      /\ row'[n].reason = row[n].reason
                      /\ assess'[n] = assess[n]
      BY <1>1
  <2>1. row[n] \in Rows(Policies) /\ ~Reopened(row[n]).done
      BY DEF Types, Rows, Reopened
  <2> QED
      BY <1>4, <2>1 DEF OpenRun
<1>5. CASE Scan
  <2>1. PICK batch \in SUBSET Messages :
           \E decided \in [batch -> UNION {Classified(box[m]) : m \in batch}] :
              row' = [m \in Messages |->
                        IF m \in batch
                        THEN Upserted(row[m], NewRow(decided[m].reason, run.policy))
                        ELSE row[m]]
      BY <1>5 DEF Scan
  <2>2. PICK decided \in [batch -> UNION {Classified(box[m]) : m \in batch}] :
              row' = [m \in Messages |->
                        IF m \in batch
                        THEN Upserted(row[m], NewRow(decided[m].reason, run.policy))
                        ELSE row[m]]
      BY <2>1
  <2>3. ASSUME NEW n \in Messages, row'[n].done PROVE row'[n] = row[n]
    <3>1. ~NewRow(decided[n].reason, run.policy).done
        BY DEF NewRow
    <3> QED
        BY <2>2, <2>3, <3>1 DEF Upserted
  <2> QED
      BY <1>5, <1>1, <2>3 DEF Scan
<1>6. ASSUME NEW m \in Messages, AssessThreat(m) PROVE CompleteMeansFinished'
  <2>1. PICK found \in AssessmentResults(Signals[m], run.threat) :
           /\ assess' = [assess EXCEPT ![m] = AssessmentRow(found, results[m].action)]
           /\ row' = [row EXCEPT ![m] =
                        IF ProtectiveReview(found, results[m].action) THEN Protected(@) ELSE @]
      BY <1>6 DEF AssessThreat
  <2>2. AssessmentRow(found, results[m].action).analyzer # "none"
    <3>1. /\ Signals[m] \in SignalLevels
          /\ run.threat \in ThreatModes \ {"off"}
          /\ results[m] \in Results
        BY <1>6, ShadowRunAssumption DEF AssessThreat, Types, RunSettings
    <3> QED
        BY <3>1, AssessmentsTyped
  <2>3. ASSUME NEW n \in Messages
        PROVE  row'[n].done = row[n].done /\ row'[n].reason = row[n].reason
    <3>1. /\ Protected(row[n]).done = row[n].done
          /\ Protected(row[n]).reason = row[n].reason
        BY DEF Protected, Types, Rows
    <3> QED
        BY <2>1, <3>1 DEF Types
  <2> QED
      BY <1>1, <2>1, <2>2, <2>3 DEF Types
<1>7. CASE AttestDisabled
    BY <1>7, <1>1 DEF AttestDisabled, DisabledAssessment
<1>8. CASE CompleteBatch
  <2> SUFFICES ASSUME NEW n \in Messages, row'[n].done
               PROVE  assess'[n].analyzer # "none" /\ row'[n].reason # "local_model_unavailable"
      BY DEF CompleteMeansFinished
  <2>1. row'[n].reason = row[n].reason /\ assess' = assess
      BY <1>8, ReopenedKeeps DEF CompleteBatch, Types
  <2>2. CASE n \in Batch /\ ~results[n].fallback
    <3>1. RowAgrees(n) /\ Screened(n)
        BY <1>8, <2>2 DEF CompleteBatch, BatchStands, BatchPhases
    <3> QED
        BY <2>1, <2>2, <3>1 DEF RowAgrees, Screened, HasAssessment
  <2>3. CASE ~(n \in Batch /\ ~results[n].fallback)
    <3>1. row'[n] = row[n]
        BY <1>8, <2>3 DEF CompleteBatch
    <3> QED
        BY <2>1, <3>1 DEF CompleteMeansFinished
  <2> QED
      BY <2>2, <2>3
<1>9. ASSUME NEW m \in Messages, MarkThreatFails(m) PROVE CompleteMeansFinished'
  <2>1. \A n \in Messages : row'[n].done => row'[n] = row[n]
    <3>1. ~Reopened(row[m]).done
        BY DEF Types, Rows, Reopened
    <3> QED
        BY <1>9, <3>1 DEF MarkThreatFails, Types
  <2> QED
      BY <1>9, <1>1, <2>1 DEF MarkThreatFails
<1>10. CASE \/ BuildLumeGraph \/ OpenGate \/ BeginActions \/ ListPending \/ Inspect \/ Move
            \/ RecordOutcome \/ OutcomeRejected \/ FinishRun \/ Abort \/ ResponseLost
    BY <1>10, <1>2 DEF BuildLumeGraph, OpenGate, BeginActions, ListPending, Inspect, Move,
         RecordOutcome, OutcomeRejected, FinishRun, Abort, ResponseLost
<1>11. ASSUME NEW m \in Messages,
              \/ MarkThreat(m) \/ SelectResult(m) \/ SkipResult(m) \/ SelectCandidate(m)
              \/ SkipCandidate(m) \/ UserTouches(m) \/ UserAnswers(m)
       PROVE  CompleteMeansFinished'
    BY <1>11, <1>2 DEF MarkThreat, SelectResult, SkipResult, SelectCandidate, SkipCandidate,
         UserTouches, UserAnswers
<1> QED
    BY <1>3, <1>4, <1>5, <1>6, <1>7, <1>8, <1>9, <1>10, <1>11
    DEF Next, RunStep, Fault, User

(***************************************************************************)
(* Every move is recorded, still in the call's hands, or lost: a message   *)
(* in flight has no execution yet, so recording it counts it once.         *)
(***************************************************************************)
LEMMA MovesKept ==
    ASSUME Types, CallShape, CallStands, MovesAccounted, [Next]_vars
    PROVE  MovesAccounted'
<1> USE DEF mailbox, ledger, history, counters, program
<1> USE ShadowRunAssumption
<1>1. ASSUME UNCHANGED <<moves, lost, exec>>,
             call'.message = call.message,
             call'.outcome = call.outcome \/ {call.outcome, call'.outcome} \cap Successes = {}
      PROVE  MovesAccounted'
    BY <1>1 DEF MovesAccounted
<1>2. ASSUME UNCHANGED <<moves, lost, exec>>, call'.message = NoMessage,
             call.outcome \notin Successes
      PROVE  MovesAccounted'
    BY <1>2 DEF MovesAccounted
<1>3. NoCall.message = NoMessage /\ NoCall.outcome \notin Successes
    BY DEF NoCall, Successes
<1>4. CASE UNCHANGED vars
    BY <1>4, <1>1 DEF vars
<1>5. ASSUME NEW s \in Settings, OpenRun(s) PROVE MovesAccounted'
    BY <1>5, <1>1 DEF OpenRun
<1>6. CASE \/ Scan \/ AttestDisabled \/ BuildLumeGraph \/ CompleteBatch
           \/ BeginActions \/ ListPending
    BY <1>6, <1>1
    DEF Scan, AttestDisabled, BuildLumeGraph, CompleteBatch, BeginActions, ListPending
<1>7. CASE OpenGate
  <2>1. call = NoCall
      BY <1>7 DEF OpenGate, CallShape
  <2> QED
      BY <1>7, <2>1, <1>1 DEF OpenGate, EndRun
<1>8. ASSUME NEW m \in Messages,
             \/ AssessThreat(m) \/ MarkThreat(m) \/ MarkThreatFails(m)
             \/ SkipResult(m) \/ SkipCandidate(m)
      PROVE  MovesAccounted'
    BY <1>8, <1>1 DEF AssessThreat, MarkThreat, MarkThreatFails, SkipResult, SkipCandidate
<1>9. ASSUME NEW m \in Messages, SelectResult(m) \/ SelectCandidate(m)
      PROVE  MovesAccounted'
    BY <1>9, <1>3 DEF SelectResult, SelectCandidate, Call, MovesAccounted, Successes
<1>10. CASE Inspect
  <2>1. call.outcome = "none"
      BY <1>10 DEF Inspect, CallShape, NoCall
  <2>2. ExecutorVerdict(run.trash, box[call.message], call.expected) \notin Successes
      BY DEF ExecutorVerdict, TrashVerdict, QuarantineVerdict, Successes
  <2>3. call'.outcome \notin Successes /\ call'.message = call.message
      BY <1>10, <2>1, <2>2 DEF Inspect, Types, Calls, Successes
  <2> QED
      BY <1>10, <1>1, <2>1, <2>3 DEF Inspect, Successes
<1>11. CASE Move
  <2>1. call.message \in Messages /\ call.outcome = "none"
      BY <1>11 DEF Move, CallShape, NoCall, Types, Calls
  <2>2. call'.message = call.message /\ call'.outcome \in Successes
      BY <1>11 DEF Move, SuccessOutcome, Successes, Types, Calls
  <2> QED
      BY <1>11, <2>1, <2>2 DEF Move, MovesAccounted, Successes, Types
<1>12. CASE RecordOutcome
  <2>1. call.message \in Messages
      BY <1>12 DEF RecordOutcome, CallShape, NoCall, Types, Calls
  <2>2. exec[call.message] = "none" /\ "none" \notin Successes
      BY <2>1 DEF CallStands, Ready, Successes
  <2>3. exec' = [exec EXCEPT ![call.message] = call.outcome]
      BY <1>12, <2>2 DEF RecordOutcome
  <2> QED
      BY <1>12, <1>3, <2>1, <2>2, <2>3 DEF RecordOutcome, MovesAccounted, Types
<1>13. CASE OutcomeRejected \/ FinishRun
  <2>1. call.outcome \notin Successes
      BY <1>13, <1>3 DEF OutcomeRejected, FinishRun, PilotOutcomes, Successes
  <2> QED
      BY <1>13, <1>2, <1>3, <2>1 DEF OutcomeRejected, FinishRun, EndRun
<1>14. CASE Abort
  <2>1. call.outcome \in Successes => call.stage = "record" /\ call.message \in Messages
      BY DEF CallShape, NoCall, Successes, Types, Calls
  <2>2. CASE call.outcome \in Successes
      BY <1>14, <1>3, <2>1, <2>2 DEF Abort, EndRun, MovesAccounted, Types
  <2>3. CASE call.outcome \notin Successes
      BY <1>14, <1>2, <1>3, <2>3 DEF Abort, EndRun
  <2> QED
      BY <2>2, <2>3
<1>15. CASE ResponseLost
  <2>1. call.message \in Messages /\ call.outcome \notin Successes
      BY <1>15 DEF ResponseLost, CallShape, NoCall, Types, Calls, Successes
  <2>2. call'.message = NoMessage
      BY <1>15, <1>3 DEF ResponseLost, EndRun
  <2> QED
      BY <1>15, <2>1, <2>2 DEF ResponseLost, MovesAccounted, Types
<1>16. ASSUME NEW m \in Messages, UserTouches(m) \/ UserAnswers(m)
       PROVE  MovesAccounted'
  <2>1. call'.message = call.message /\ call'.outcome = call.outcome
      BY <1>16 DEF UserTouches, UserAnswers, Raced, Types, Calls
  <2> QED
      BY <1>16, <1>1, <2>1 DEF UserTouches, UserAnswers
<1> QED
    BY <1>4, <1>5, <1>6, <1>7, <1>8, <1>9, <1>10, <1>11, <1>12, <1>13, <1>14, <1>15, <1>16
    DEF Next, RunStep, Fault, User

-----------------------------------------------------------------------------
(***************************************************************************)
(* A batch holds at most Limit messages, and a run has room for each of    *)
(* its own proposals that is still to be looked at.                        *)
(***************************************************************************)
RoomLeft ==
    /\ room \in 0..Limit
    /\ pc \in BatchPhases => Cardinality(Batch) <= Limit
    /\ pc = "actions" => Cardinality(todo) <= room

(***************************************************************************)
(* The quotas of run_shadow_scan add up: a batch never exceeds the limit.  *)
(***************************************************************************)
LEMMA BatchBound ==
    ASSUME Types, NEW batch \in SUBSET Messages, IsBatch(batch)
    PROVE  Cardinality(batch) <= Limit
<1> DEFINE codes == batch \cap Found("one_time_code")
           alerts == batch \cap Found("access_alert")
           unread == batch \cap Found("unread")
<1>1. /\ batch = (codes \cup alerts) \cup unread
      /\ Cardinality(codes) =
            Smaller(AtLeastOne(Limit \div 5), Cardinality(Found("one_time_code")))
      /\ Cardinality(alerts) =
            Smaller(Smaller(Limit - Cardinality(codes), AtLeastOne(Limit \div 10)),
                    Cardinality(Found("access_alert")))
      /\ Cardinality(unread) =
            Smaller(Limit - Cardinality(codes) - Cardinality(alerts),
                    Cardinality(Found("unread")))
    BY DEF IsBatch
<1>2. /\ IsFiniteSet(codes) /\ IsFiniteSet(alerts) /\ IsFiniteSet(unread)
      /\ IsFiniteSet(Found("one_time_code"))
      /\ IsFiniteSet(Found("access_alert"))
      /\ IsFiniteSet(Found("unread"))
    BY ShadowRunAssumption, FS_Subset DEF Found
<1> HIDE DEF codes, alerts, unread
<1>3. /\ Cardinality(codes) \in Nat /\ Cardinality(alerts) \in Nat
      /\ Cardinality(unread) \in Nat
      /\ Cardinality(Found("one_time_code")) \in Nat
      /\ Cardinality(Found("access_alert")) \in Nat
      /\ Cardinality(Found("unread")) \in Nat
    BY <1>2, FS_CardinalityType
<1>4. Cardinality(codes) + Cardinality(alerts) + Cardinality(unread) <= Limit
    BY <1>1, <1>3, ShadowRunAssumption DEF Smaller, AtLeastOne
<1>5. /\ IsFiniteSet(codes \cup alerts)
      /\ Cardinality(codes \cup alerts) <= Cardinality(codes) + Cardinality(alerts)
      /\ Cardinality(codes \cup alerts) \in Nat
  <2>1. /\ IsFiniteSet(codes \cup alerts) /\ IsFiniteSet(codes \cap alerts)
        /\ Cardinality(codes \cup alerts) =
              Cardinality(codes) + Cardinality(alerts) - Cardinality(codes \cap alerts)
      BY <1>2, FS_Union, FS_Subset
  <2>2. Cardinality(codes \cap alerts) \in Nat /\ Cardinality(codes \cup alerts) \in Nat
      BY <2>1, FS_CardinalityType
  <2> QED
      BY <2>1, <2>2, <1>3
<1>6. Cardinality(batch) <= Cardinality(codes \cup alerts) + Cardinality(unread)
  <2> DEFINE both == (codes \cup alerts) \cap unread
  <2>1. /\ IsFiniteSet(both)
        /\ Cardinality(batch) =
              Cardinality(codes \cup alerts) + Cardinality(unread) - Cardinality(both)
      BY <1>1, <1>2, <1>5, FS_Union, FS_Subset
  <2>2. Cardinality(both) \in Nat
      BY <2>1, FS_CardinalityType
  <2> QED
      BY <2>1, <2>2, <1>3, <1>5
<1>7. IsFiniteSet(batch) /\ Cardinality(batch) \in Nat
    BY ShadowRunAssumption, FS_Subset, FS_CardinalityType
<1> QED
    BY <1>3, <1>4, <1>5, <1>6, <1>7, ShadowRunAssumption

(***************************************************************************)
(* Every step keeps the room: each proposal of the batch takes one place.  *)
(***************************************************************************)
LEMMA RoomKept ==
    ASSUME Types, BatchStands, RoomLeft, [Next]_vars
    PROVE  RoomLeft'
<1> USE DEF mailbox, ledger, history, counters, program
<1> USE ShadowRunAssumption
<1>1. ASSUME pc' \notin BatchPhases, room' \in {0, room} PROVE RoomLeft'
    BY <1>1 DEF RoomLeft, BatchPhases
<1>2. ASSUME EndRun PROVE RoomLeft'
    BY <1>2, <1>1 DEF EndRun, BatchPhases
<1>3. ASSUME UNCHANGED <<pc, room, todo>>, Batch' = Batch PROVE RoomLeft'
    BY <1>3 DEF RoomLeft
<1>4. ASSUME pc \in BatchPhases, pc' \in BatchPhases \ {"actions"}, room' = room,
             Batch' = Batch
      PROVE  RoomLeft'
    BY <1>4 DEF RoomLeft
<1>5. ASSUME results' = results PROVE Batch' = Batch
    BY <1>5 DEF Batch
<1>6. IsFiniteSet(todo) /\ Cardinality(todo) \in Nat
    BY FS_Subset, FS_CardinalityType DEF Types
<1>7. CASE UNCHANGED vars
    BY <1>7, <1>3, <1>5 DEF vars
<1>8. ASSUME NEW s \in Settings, OpenRun(s) PROVE RoomLeft'
    BY <1>8, <1>1 DEF OpenRun, BatchPhases
<1>9. CASE Scan
  <2>1. PICK batch \in SUBSET Messages :
           /\ IsBatch(batch)
           /\ \E decided \in [batch -> UNION {Classified(box[m]) : m \in batch}] :
                results' = [m \in Messages |-> IF m \in batch THEN decided[m] ELSE NoResult]
      BY <1>9 DEF Scan
  <2>2. Batch' \subseteq batch
      BY <2>1 DEF Batch, NoResult
  <2>3. Cardinality(Batch') <= Limit
    <3>1. IsFiniteSet(batch) /\ IsFiniteSet(Batch') /\ Cardinality(Batch') <= Cardinality(batch)
        BY <2>2, FS_Subset
    <3>2. Cardinality(batch) <= Limit
        BY <2>1, BatchBound
    <3> QED
        BY <3>1, <3>2, FS_CardinalityType
  <2> QED
      BY <1>9, <2>3 DEF Scan, RoomLeft
<1>10. ASSUME NEW m \in Messages, AssessThreat(m) PROVE RoomLeft'
  <2>1. PICK found \in AssessmentResults(Signals[m], run.threat) :
           results' = [results EXCEPT ![m] = Assessed(@, found)]
      BY <1>10 DEF AssessThreat
  <2>2. Assessed(results[m], found).action \in {results[m].action, "review"}
      BY DEF Assessed, Types, Results
  <2>3. results[m].action # "none"
      BY <1>10 DEF AssessThreat, BatchStands, BatchPhases, Batch
  <2>4. Batch' = Batch
      BY <2>1, <2>2, <2>3 DEF Batch, Types
  <2> QED
      BY <1>10, <1>4, <2>4 DEF AssessThreat, BatchPhases
<1>11. CASE AttestDisabled \/ BuildLumeGraph
    BY <1>11, <1>4, <1>5 DEF AttestDisabled, BuildLumeGraph, BatchPhases
<1>12. CASE CompleteBatch
  <2>1. Batch' = Batch
      BY <1>12 DEF CompleteBatch, Batch, Promoted, Types, Results
  <2> QED
      BY <1>12, <1>4, <2>1 DEF CompleteBatch, BatchPhases
<1>13. CASE OpenGate
    BY <1>13, <1>2, <1>4, <1>5 DEF OpenGate, BatchPhases
<1>14. ASSUME NEW m \in Messages, MarkThreat(m) \/ MarkThreatFails(m) PROVE RoomLeft'
    BY <1>14, <1>4, <1>5 DEF MarkThreat, MarkThreatFails, BatchPhases
<1>15. CASE BeginActions
  <2>1. todo' \subseteq Batch /\ room' = Limit /\ Batch' = Batch
      BY <1>15, <1>5 DEF BeginActions
  <2>2. IsFiniteSet(Batch) /\ Cardinality(todo') <= Cardinality(Batch)
      BY <2>1, FS_Subset DEF Batch
  <2>3. Cardinality(Batch) <= Limit
      BY <1>15 DEF BeginActions, RoomLeft, BatchPhases
  <2>4. IsFiniteSet(todo') /\ Cardinality(todo') \in Nat /\ Cardinality(Batch) \in Nat
      BY <2>1, <2>2, FS_Subset, FS_CardinalityType
  <2> QED
      BY <2>1, <2>2, <2>3, <2>4 DEF RoomLeft
<1>16. ASSUME NEW m \in Messages, SelectResult(m) PROVE RoomLeft'
  <2>1. /\ pc = "actions" /\ pc' = pc /\ m \in todo /\ todo' = todo \ {m}
        /\ room' = room - 1 /\ Batch' = Batch
      BY <1>16, <1>5 DEF SelectResult
  <2>2. Cardinality(todo') = Cardinality(todo) - 1 /\ Cardinality(todo) >= 1
    <3>1. Cardinality(todo') = Cardinality(todo) - 1 /\ IsFiniteSet(todo')
        BY <1>6, <2>1, FS_RemoveElement
    <3> QED
        BY <1>6, <3>1, FS_CardinalityType
  <2> QED
      BY <1>6, <2>1, <2>2 DEF RoomLeft
<1>17. ASSUME NEW m \in Messages, SkipResult(m) PROVE RoomLeft'
  <2>1. /\ pc = "actions" /\ pc' = pc /\ m \in todo /\ todo' = todo \ {m}
        /\ room' = room /\ Batch' = Batch
      BY <1>17, <1>5 DEF SkipResult
  <2>2. Cardinality(todo') <= Cardinality(todo) /\ Cardinality(todo') \in Nat
      BY <1>6, <2>1, FS_Subset, FS_CardinalityType
  <2> QED
      BY <1>6, <2>1, <2>2 DEF RoomLeft
<1>18. CASE ListPending
    BY <1>18, <1>1 DEF ListPending, BatchPhases
<1>19. ASSUME NEW m \in Messages, SelectCandidate(m) \/ SkipCandidate(m) PROVE RoomLeft'
    BY <1>19, <1>1 DEF SelectCandidate, SkipCandidate, BatchPhases
<1>20. CASE Inspect \/ Move \/ RecordOutcome
    BY <1>20, <1>3, <1>5 DEF Inspect, Move, RecordOutcome
<1>21. CASE OutcomeRejected \/ FinishRun \/ Abort \/ ResponseLost
    BY <1>21, <1>2 DEF OutcomeRejected, FinishRun, Abort, ResponseLost
<1>22. ASSUME NEW m \in Messages, UserTouches(m) \/ UserAnswers(m) PROVE RoomLeft'
    BY <1>22, <1>3, <1>5 DEF UserTouches, UserAnswers
<1> QED
    BY <1>7, <1>8, <1>9, <1>10, <1>11, <1>12, <1>13, <1>14, <1>15, <1>16, <1>17, <1>18,
       <1>19, <1>20, <1>21, <1>22
    DEF Next, RunStep, Fault, User

-----------------------------------------------------------------------------
(***************************************************************************)
(* The inductive invariant of the runs.                                    *)
(***************************************************************************)
IInv ==
    /\ Types
    /\ RoomLeft
    /\ CallShape
    /\ BatchStands
    /\ RecoveryStands
    /\ CallStands
    /\ CompleteMeansFinished
    /\ CorrectionWins
    /\ MovesAccounted

(***************************************************************************)
(* The inductive invariant holds before the first run.                     *)
(***************************************************************************)
LEMMA InitInductive == Init => IInv
<1> SUFFICES ASSUME Init PROVE IInv
    OBVIOUS
<1> USE ShadowRunAssumption DEF Init
<1>1. Types
  <2>1. /\ NoRow \in Rows(Policies)
        /\ NoAssessment \in Assessments
        /\ NoResult \in Results
        /\ NoCall \in Calls
      BY DEF NoRow, Rows, NoPolicy, NoAssessment, Assessments, Analyzers, NoResult, Results,
             NoCall, Calls
  <2>2. box \in [Messages -> Boxes]
      OBVIOUS
  <2> QED
      BY <2>1, <2>2 DEF Types, QuizAnswers, Phases
<1>2. Batch = {}
    BY DEF Batch, NoResult
<1>3. RoomLeft /\ CallShape /\ BatchStands /\ RecoveryStands
    BY <1>2 DEF RoomLeft, CallShape, BatchStands, BatchPhases, RecoveryStands, NoCall
<1>4. CallStands /\ CorrectionWins
    BY DEF CallStands, CorrectionWins, NoCall
<1>5. CompleteMeansFinished /\ MovesAccounted
    BY DEF CompleteMeansFinished, MovesAccounted, NoRow, NoCall, Successes
<1> QED
    BY <1>1, <1>3, <1>4, <1>5 DEF IInv

(***************************************************************************)
(* Every step keeps the inductive invariant.                               *)
(***************************************************************************)
LEMMA StepInductive == IInv /\ [Next]_vars => IInv'
BY StepTyped, RoomKept, CallShapeKept, BatchStandsKept, RecoveryStandsKept, CallStandsKept,
   CompleteKept, CorrectionKept, MovesKept
DEF IInv

(***************************************************************************)
(* The inductive invariant is an invariant of the runs.                    *)
(***************************************************************************)
THEOREM RunInductive == Spec => []IInv
BY InitInductive, StepInductive, PTL DEF Spec

(***************************************************************************)
(* The ledger, the run's memory and the provider call keep their types,    *)
(* and room never goes below zero (gmail_shadow_run, limit - selected).    *)
(***************************************************************************)
THEOREM RunTypes == Spec => []TypeOK
<1>1. IInv => TypeOK
    BY DEF IInv, Types, RoomLeft, TypeOK
<1> QED
    BY <1>1, RunInductive, PTL

(***************************************************************************)
(* A row is out of the scan for good only once its message was assessed    *)
(* and really classified (mark_shadow_batch_complete).                     *)
(***************************************************************************)
THEOREM RunCompletesFinished == Spec => []CompleteMeansFinished
<1>1. IInv => CompleteMeansFinished
    BY DEF IInv
<1> QED
    BY <1>1, RunInductive, PTL

(***************************************************************************)
(* Every message on its way to Gmail is justified by the ledger on disk,   *)
(* whether it comes from the batch or from a crashed run's proposals.      *)
(***************************************************************************)
THEOREM RunJustified == Spec => []InFlightJustified
<1>1. IInv => InFlightJustified
    BY DEF IInv, CallStands, Ready, Screened, InFlightJustified
<1> QED
    BY <1>1, RunInductive, PTL

(***************************************************************************)
(* A Keep or Unsure given before the provider call stops it.               *)
(***************************************************************************)
THEOREM RunCorrectionWins == Spec => []CorrectionWins
<1>1. IInv => CorrectionWins
    BY DEF IInv
<1> QED
    BY <1>1, RunInductive, PTL

(***************************************************************************)
(* Gmail's moves are the recorded ones, the one being recorded, and those  *)
(* whose outcome was lost; without faults no message is moved twice.       *)
(***************************************************************************)
THEOREM RunMovesAccounted == Spec => []MovesAccounted
<1>1. IInv => MovesAccounted
    BY DEF IInv
<1> QED
    BY <1>1, RunInductive, PTL

-----------------------------------------------------------------------------
(***************************************************************************)
(* Before the first run every message stands open and nothing is asked.    *)
(***************************************************************************)
LEMMA InitMaps == Init => Cleanup!Init
<1> SUFFICES ASSUME Init PROVE Cleanup!Init
    OBVIOUS
<1>1. ASSUME NEW m \in Messages PROVE Standing(m) = "open"
    BY DEF Init, Standing, ThreatProtects, NoAssessment, KeptByUser, Recoverable
<1>2. call.message = NoMessage /\ (call.outcome \in Successes) = FALSE
    BY DEF Init, NoCall, Successes
<1>3. moves = [m \in Messages |-> 0]
    BY DEF Init
<1> QED
    BY <1>1, <1>2, <1>3 DEF Cleanup!Init

(***************************************************************************)
(* A step that makes no provider call and executes nothing only            *)
(* reconsiders what stands.                                                *)
(***************************************************************************)
LEMMA ReconsiderMaps ==
    ASSUME exec' = exec, moves' = moves, call'.message = call.message,
           (call'.outcome \in Successes) = (call.outcome \in Successes)
    PROVE  Cleanup!Reconsider
<1>1. ASSUME NEW m \in Messages
      PROVE  /\ Standing(m) \in Cleanup!Standings
             /\ Standing(m)' \in Cleanup!Standings
             /\ Standing(m) = "settled" <=> exec[m] # "none"
             /\ Standing(m)' = "settled" <=> exec'[m] # "none"
    BY DEF Standing, Cleanup!Standings
<1> HIDE DEF Standing
<1> QED
    BY <1>1 DEF Cleanup!Reconsider

(***************************************************************************)
(* Selecting a proposal asks for a message that stands proposed.           *)
(***************************************************************************)
LEMMA AskMaps ==
    ASSUME IInv, NEW m \in Messages, SelectResult(m) \/ SelectCandidate(m)
    PROVE  Cleanup!Ask(m)
<1> USE DEF mailbox, ledger, history, counters
<1>1. /\ call = NoCall
      /\ call'.message = m
      /\ call'.outcome = "none"
      /\ ~KeptByUser(quiz[m])
      /\ UNCHANGED <<exec, assess, quiz, row, run, proofs, moves>>
    BY DEF SelectResult, SelectCandidate, Selectable, Call
<1>2. Ready(m)
  <2>1. CallStands'
      BY CallStandsKept DEF IInv, Next, RunStep
  <2>2. Ready(m)'
      BY <2>1, <1>1 DEF CallStands
  <2> QED
      BY <2>2, <1>1 DEF Ready, Screened, Proposed, OrdinaryProposal, ReviewedProposal,
         ProofProposal
<1>3. Standing(m) = "proposed"
    BY <1>1, <1>2 DEF Standing, Ready, Screened
<1>4. ASSUME NEW n \in Messages PROVE Standing(n)' = Standing(n)
    BY <1>1 DEF Standing, Proposed, OrdinaryProposal, ReviewedProposal, ProofProposal
<1>5. call.message = NoMessage /\ (call.outcome \in Successes) = (call'.outcome \in Successes)
    BY <1>1 DEF NoCall, Successes
<1> HIDE DEF Standing
<1> QED
    BY <1>1, <1>3, <1>4, <1>5 DEF Cleanup!Ask

(***************************************************************************)
(* The executor's POST answers the request.                                *)
(***************************************************************************)
LEMMA AnswerMaps ==
    ASSUME IInv, Move
    PROVE  Cleanup!Answer
<1> USE DEF mailbox, ledger, history, counters
<1>1. call.message # NoMessage /\ call.outcome = "none"
    BY DEF Move, IInv, CallShape, NoCall
<1>2. call'.message = call.message /\ call'.outcome \in Successes
    BY DEF Move, SuccessOutcome, Successes, IInv, Types, Calls
<1>3. ASSUME NEW n \in Messages PROVE Standing(n)' = Standing(n)
    BY DEF Move, Standing, Proposed, OrdinaryProposal, ReviewedProposal, ProofProposal
<1>4. moves' = [moves EXCEPT ![call.message] = @ + 1]
    BY DEF Move
<1>5. (call.outcome \in Successes) = FALSE /\ (call'.outcome \in Successes) = TRUE
    BY <1>1, <1>2 DEF Successes
<1> HIDE DEF Standing
<1> QED
    BY <1>1, <1>2, <1>3, <1>4, <1>5 DEF Cleanup!Answer

(***************************************************************************)
(* Recording an outcome settles the message for good.                      *)
(***************************************************************************)
LEMMA SettleMaps ==
    ASSUME IInv, RecordOutcome
    PROVE  Cleanup!Settle
<1> USE DEF mailbox, ledger, history, counters
<1>1. call.message \in Messages /\ NoMessage \notin Messages
    BY ShadowRunAssumption DEF RecordOutcome, IInv, CallShape, NoCall, Types, Calls
<1>2. exec[call.message] = "none"
    BY <1>1 DEF IInv, CallStands, Ready
<1>3. exec' = [exec EXCEPT ![call.message] = call.outcome] /\ call.outcome # "none"
    BY <1>2 DEF RecordOutcome, PilotOutcomes
<1>4. ASSUME NEW n \in Messages, n = call.message PROVE Standing(n)' = "settled"
  <2>1. exec'[n] # "none"
      BY <1>3, <1>4 DEF IInv, Types
  <2> QED
      BY <2>1 DEF Standing
<1>5. ASSUME NEW n \in Messages, n # call.message PROVE Standing(n)' = Standing(n)
  <2>1. exec'[n] = exec[n]
      BY <1>3, <1>5 DEF IInv, Types
  <2> QED
      BY <2>1 DEF RecordOutcome, Standing, Proposed, OrdinaryProposal, ReviewedProposal,
         ProofProposal
<1>6. call'.message = NoMessage /\ (call'.outcome \in Successes) = FALSE /\ moves' = moves
    BY DEF RecordOutcome, NoCall, Successes
<1> HIDE DEF Standing
<1> QED
    BY <1>1, <1>4, <1>5, <1>6 DEF Cleanup!Settle

(***************************************************************************)
(* A run that ends with a call in its hands abandons the request; Gmail    *)
(* has moved the message only if the response was lost.                    *)
(***************************************************************************)
LEMMA AbandonMaps ==
    ASSUME IInv, Abort \/ OutcomeRejected \/ ResponseLost
    PROVE  [Cleanup!Next]_(Cleanup!vars)
<1> USE DEF mailbox, ledger, history, counters
<1>1. /\ call'.message = NoMessage
      /\ (call'.outcome \in Successes) = FALSE
      /\ UNCHANGED <<exec, assess, quiz, row, run, proofs>>
    BY DEF Abort, OutcomeRejected, ResponseLost, EndRun, NoCall, Successes
<1>2. ASSUME NEW n \in Messages PROVE Standing(n)' = Standing(n)
    BY <1>1 DEF Standing, Proposed, OrdinaryProposal, ReviewedProposal, ProofProposal
<1>3. \/ moves' = moves
      \/ /\ call.message # NoMessage
         /\ call.outcome = "none"
         /\ moves' = [moves EXCEPT ![call.message] = @ + 1]
    BY DEF Abort, OutcomeRejected, ResponseLost, IInv, CallShape, NoCall
<1>4. (call.outcome \in Successes) \in BOOLEAN
    OBVIOUS
<1>5. CASE call.message = NoMessage
  <2>1. (call.outcome \in Successes) = FALSE /\ moves' = moves
      BY <1>3, <1>5 DEF IInv, CallShape, NoCall, Successes
  <2> HIDE DEF Standing
  <2> QED
      BY <1>1, <1>2, <1>5, <2>1 DEF Cleanup!vars
<1>6. CASE call.message # NoMessage
  <2>1. call.outcome = "none" => (call.outcome \in Successes) = FALSE
      BY DEF Successes
  <2> HIDE DEF Standing
  <2>2. Cleanup!Abandon
      BY <1>1, <1>2, <1>3, <1>6, <2>1 DEF Cleanup!Abandon
  <2> QED
      BY <2>2 DEF Cleanup!Next
<1> QED
    BY <1>5, <1>6

(***************************************************************************)
(* Every step is a step of ReversibleCleanup or leaves its state alone.    *)
(***************************************************************************)
LEMMA StepMaps == IInv /\ [Next]_vars => [Cleanup!Next]_(Cleanup!vars)
<1> SUFFICES ASSUME IInv, [Next]_vars PROVE [Cleanup!Next]_(Cleanup!vars)
    OBVIOUS
<1> USE DEF mailbox, ledger, history, counters, program
<1>1. ASSUME exec' = exec, moves' = moves, call'.message = call.message,
             (call'.outcome \in Successes) = (call.outcome \in Successes)
      PROVE  Cleanup!Next
    BY <1>1, ReconsiderMaps DEF Cleanup!Next
<1>2. ASSUME exec' = exec, moves' = moves, call' = call PROVE Cleanup!Next
    BY <1>1, <1>2
<1>3. CASE UNCHANGED vars
    BY <1>3, <1>2 DEF vars
<1>4. ASSUME NEW s \in Settings, OpenRun(s) PROVE Cleanup!Next
    BY <1>4, <1>2 DEF OpenRun
<1>5. CASE \/ Scan \/ AttestDisabled \/ BuildLumeGraph \/ CompleteBatch
           \/ BeginActions \/ ListPending
    BY <1>5, <1>2
    DEF Scan, AttestDisabled, BuildLumeGraph, CompleteBatch, BeginActions, ListPending
<1>6. CASE OpenGate
  <2>1. call = NoCall
      BY <1>6 DEF OpenGate, IInv, CallShape
  <2> QED
      BY <1>6, <2>1, <1>2 DEF OpenGate, EndRun
<1>7. CASE FinishRun
    BY <1>7, <1>2 DEF FinishRun, EndRun
<1>8. ASSUME NEW m \in Messages,
             \/ AssessThreat(m) \/ MarkThreat(m) \/ MarkThreatFails(m)
             \/ SkipResult(m) \/ SkipCandidate(m)
      PROVE  Cleanup!Next
    BY <1>8, <1>2 DEF AssessThreat, MarkThreat, MarkThreatFails, SkipResult, SkipCandidate
<1>9. ASSUME NEW m \in Messages, SelectResult(m) \/ SelectCandidate(m)
      PROVE  Cleanup!Next
    BY <1>9, AskMaps DEF Cleanup!Next
<1>10. CASE Inspect
  <2>1. call.outcome = "none"
      BY <1>10 DEF Inspect, IInv, CallShape, NoCall
  <2>2. ExecutorVerdict(run.trash, box[call.message], call.expected) \notin Successes
      BY DEF ExecutorVerdict, TrashVerdict, QuarantineVerdict, Successes
  <2>3. call'.outcome \notin Successes /\ call'.message = call.message
      BY <1>10, <2>1, <2>2 DEF Inspect, IInv, Types, Calls, Successes
  <2>4. (call'.outcome \in Successes) = (call.outcome \in Successes)
      BY <2>1, <2>3 DEF Successes
  <2> QED
      BY <1>10, <1>1, <2>3, <2>4 DEF Inspect
<1>11. CASE Move
    BY <1>11, AnswerMaps DEF Cleanup!Next
<1>12. CASE RecordOutcome
    BY <1>12, SettleMaps DEF Cleanup!Next
<1>13. CASE Abort \/ OutcomeRejected \/ ResponseLost
    BY <1>13, AbandonMaps
<1>14. ASSUME NEW m \in Messages, UserTouches(m) \/ UserAnswers(m)
       PROVE  Cleanup!Next
  <2>1. call'.message = call.message /\ call'.outcome = call.outcome
      BY <1>14 DEF UserTouches, UserAnswers, Raced, IInv, Types, Calls
  <2> QED
      BY <1>14, <1>1, <2>1 DEF UserTouches, UserAnswers
<1> QED
    BY <1>3, <1>4, <1>5, <1>6, <1>7, <1>8, <1>9, <1>10, <1>11, <1>12, <1>13, <1>14
    DEF Next, RunStep, Fault, User

(***************************************************************************)
(* The cleanup runs implement ReversibleCleanup: whatever scans, models,   *)
(* crashes and users do, a move is asked only for a message that stands    *)
(* proposed, once per request, and never again after it is settled.        *)
(***************************************************************************)
THEOREM RunImplementsCleanup == Spec => ImplementsCleanup
<1>1. Init => Cleanup!Init
    BY InitMaps
<1>2. IInv /\ [Next]_vars => [Cleanup!Next]_(Cleanup!vars)
    BY StepMaps
<1> QED
    BY <1>1, <1>2, RunInductive, PTL DEF Spec, ImplementsCleanup, Cleanup!Spec

-----------------------------------------------------------------------------
(***************************************************************************)
(* Threats.  What a run may rely on until its markers are done: a row of   *)
(* the batch is not completed before the batch is, and is still the        *)
(* scan's while it waits for its assessment; a high assessment has reached *)
(* the memory the markers are taken from; and only the user takes a        *)
(* message out of Inbox meanwhile.                                         *)
(***************************************************************************)
MarkPhases == {"threat", "proofs", "gate", "markers"}

Judged ==
    /\ pc \in {"threat", "proofs"} => \A m \in Batch : ~row[m].done
    /\ pc = "threat" => \A m \in todo : row[m].action = results[m].action
    /\ pc \in {"threat", "proofs", "gate"} =>
         \A m \in Batch :
            assess[m].high => results[m].marker \/ (pc = "threat" /\ m \in todo)
    /\ pc \in MarkPhases => \A m \in Batch : box[m].place = "inbox" \/ acts >= 1

\* A high assessment protects its message, found it kept, or is about to be replaced.
HighKept ==
    faults = 0 =>
        \A m \in Messages :
            assess[m].high => \/ assess[m].protective
                              \/ row[m].action = "keep"
                              \/ pc = "threat" /\ m \in todo

Unmarked(m) == row[m].done /\ assess[m].high /\ ~box[m].marker

\* A missing marker is still to come in this run, or its message is out of Inbox
\* by the user's hand.
MarkerOwed ==
    faults = 0 /\ acts <= 1 /\ (\A s \in Settings : s.apply) =>
        \A m \in Messages :
            Unmarked(m) => \/ pc = "gate" /\ m \in Batch
                           \/ pc = "markers" /\ m \in todo
                           \/ box[m].place # "inbox" /\ acts >= 1

(***************************************************************************)
(* What a scan writes: the messages it takes lie in Inbox, and their rows  *)
(* are new, not completed and of the decision in memory.                   *)
(***************************************************************************)
LEMMA ScanWrites ==
    ASSUME Types, Scan
    PROVE  /\ pc' = "threat"
           /\ Batch' = todo'
           /\ todo' \subseteq Messages
           /\ UNCHANGED <<box, assess, acts, faults>>
           /\ \A m \in todo' : /\ box[m].place = "inbox"
                               /\ ~row'[m].done
                               /\ row'[m].action = results'[m].action
           /\ \A m \in Messages \ todo' : row'[m] = row[m]
<1>0. PICK batch \in SUBSET Messages :
         /\ IsBatch(batch)
         /\ \E decided \in [batch -> UNION {Classified(box[m]) : m \in batch}] :
              /\ \A m \in batch : decided[m] \in Classified(box[m]) /\ FallbackConsistent(decided[m])
              /\ results' = [m \in Messages |-> IF m \in batch THEN decided[m] ELSE NoResult]
              /\ row' = [m \in Messages |->
                           IF m \in batch
                           THEN Upserted(row[m], NewRow(decided[m].reason, run.policy))
                           ELSE row[m]]
         /\ todo' = batch
    BY DEF Scan
<1>1. PICK decided \in [batch -> UNION {Classified(box[m]) : m \in batch}] :
         /\ \A m \in batch : decided[m] \in Classified(box[m])
         /\ results' = [m \in Messages |-> IF m \in batch THEN decided[m] ELSE NoResult]
         /\ row' = [m \in Messages |->
                      IF m \in batch
                      THEN Upserted(row[m], NewRow(decided[m].reason, run.policy))
                      ELSE row[m]]
    BY <1>0
<1>2. pc' = "threat" /\ UNCHANGED <<box, assess, acts, faults>>
    BY DEF Scan, mailbox, counters
<1>3. ASSUME NEW m \in batch
      PROVE  decided[m].action # "none" /\ decided[m].action = ActionOf(decided[m].reason)
    BY <1>1, DecisionsTyped DEF Types
<1>4. Batch' = batch
    BY <1>1, <1>3 DEF Batch, NoResult
<1>5. ASSUME NEW m \in batch
      PROVE  /\ box[m].place = "inbox"
             /\ ~row'[m].done
             /\ row'[m].action = results'[m].action
  <2>1. box[m].place = "inbox" /\ ~WasScanned(row[m], run.policy)
      BY <1>0 DEF IsBatch, Found
  <2>2. row'[m] = NewRow(decided[m].reason, run.policy)
      BY <1>1, <2>1 DEF Upserted, WasScanned, NewRow
  <2> QED
      BY <1>1, <1>3, <2>1, <2>2 DEF NewRow
<1> QED
    BY <1>0, <1>1, <1>2, <1>4, <1>5

(***************************************************************************)
(* What an assessment writes (record_threat_assessment): one message's     *)
(* row, assessment and decision in memory, which is high together with its *)
(* marker, and protects its message unless the decision was a KEEP.        *)
(***************************************************************************)
LEMMA AssessWrites ==
    ASSUME Types, NEW m \in Messages, AssessThreat(m)
    PROVE  /\ pc = "threat" /\ pc' = pc /\ m \in todo /\ todo' = todo \ {m}
           /\ UNCHANGED <<box, acts, faults>>
           /\ row'[m].done = row[m].done
           /\ results'[m].marker = assess'[m].high
           /\ assess'[m].high => assess'[m].protective
                                 \/ (results[m].action = "keep" /\ row'[m] = row[m])
           /\ results[m].action # "none" => results'[m].action # "none"
           /\ \A n \in Messages \ {m} : /\ row'[n] = row[n]
                                        /\ assess'[n] = assess[n]
                                        /\ results'[n] = results[n]
<1>1. PICK found \in AssessmentResults(Signals[m], run.threat) :
         /\ assess' = [assess EXCEPT ![m] = AssessmentRow(found, results[m].action)]
         /\ row' = [row EXCEPT ![m] =
                      IF ProtectiveReview(found, results[m].action) THEN Protected(@) ELSE @]
         /\ results' = [results EXCEPT ![m] = Assessed(@, found)]
    BY DEF AssessThreat
<1>2. /\ pc = "threat" /\ pc' = pc /\ m \in todo /\ todo' = todo \ {m}
      /\ UNCHANGED <<box, acts, faults>>
    BY DEF AssessThreat, mailbox, counters
<1>3. row[m] \in Rows(Policies) /\ results[m] \in Results
    BY DEF Types
<1>4. /\ assess'[m] = AssessmentRow(found, results[m].action)
      /\ results'[m] = Assessed(results[m], found)
      /\ row'[m] = IF ProtectiveReview(found, results[m].action)
                   THEN Protected(row[m]) ELSE row[m]
    BY <1>1 DEF Types
<1>5. row'[m].done = row[m].done
    BY <1>3, <1>4 DEF Protected, Rows
<1>6. results'[m].marker = found.high /\ assess'[m].high = found.high
    BY <1>3, <1>4 DEF Assessed, AssessmentRow, Results
<1>7. results[m].action # "none" => results'[m].action # "none"
    BY <1>3, <1>4 DEF Assessed, Results
<1>8. assess'[m].protective = ProtectiveReview(found, results[m].action)
    BY <1>4 DEF AssessmentRow
<1>9. assess'[m].high => assess'[m].protective
                         \/ (results[m].action = "keep" /\ row'[m] = row[m])
    BY <1>4, <1>6, <1>8 DEF ProtectiveReview
<1>10. \A n \in Messages \ {m} : /\ row'[n] = row[n]
                                 /\ assess'[n] = assess[n]
                                 /\ results'[n] = results[n]
    BY <1>1 DEF Types
<1> QED
    BY <1>2, <1>5, <1>6, <1>7, <1>9, <1>10

(***************************************************************************)
(* Every step keeps what the run relies on about its judged batch.         *)
(***************************************************************************)
LEMMA JudgedKept ==
    ASSUME Types, CallShape, BatchStands, Judged, [Next]_vars
    PROVE  Judged'
<1> USE DEF mailbox, ledger, history, counters, program
<1>a. acts \in Nat
    BY ShadowRunAssumption DEF Types
<1>1. ASSUME pc' \notin MarkPhases PROVE Judged'
    BY <1>1 DEF Judged, MarkPhases
<1>2. ASSUME EndRun PROVE Judged'
    BY <1>2, <1>1 DEF EndRun, MarkPhases
<1>3. ASSUME pc \notin MarkPhases, pc' = pc PROVE Judged'
    BY <1>3, <1>1
<1>4. CASE UNCHANGED vars
    BY <1>4 DEF vars, Judged, Batch
<1>5. ASSUME NEW s \in Settings, OpenRun(s) PROVE Judged'
    BY <1>5, <1>1 DEF OpenRun, MarkPhases
<1>6. CASE Scan
    BY <1>6, ScanWrites DEF Judged, MarkPhases
<1>7. ASSUME NEW m \in Messages, AssessThreat(m) PROVE Judged'
  <2>1. m \in Batch /\ todo \subseteq Batch
      BY <1>7, AssessWrites DEF BatchStands, BatchPhases
  <2>2. Batch' = Batch
      BY <1>7, <2>1, AssessWrites DEF Batch
  <2>3. Batch \subseteq Messages
      BY DEF Batch
  <2> QED
      BY <1>7, <2>1, <2>2, <2>3, AssessWrites DEF Judged, MarkPhases
<1>8. CASE AttestDisabled
  <2>1. /\ pc = "threat" /\ pc' = pc /\ todo' = {}
        /\ UNCHANGED <<results, row, box, acts>>
        /\ assess' = [m \in Messages |->
                        IF m \in todo THEN DisabledAssessment ELSE assess[m]]
      BY <1>8 DEF AttestDisabled
  <2>2. Batch' = Batch /\ Batch \subseteq Messages
      BY <2>1 DEF Batch
  <2>3. ~DisabledAssessment.high
      BY DEF DisabledAssessment
  <2> QED
      BY <2>1, <2>2, <2>3 DEF Judged, MarkPhases
<1>9. CASE BuildLumeGraph
    BY <1>9 DEF BuildLumeGraph, Judged, MarkPhases, Batch
<1>10. CASE CompleteBatch
  <2>1. /\ pc = "proofs" /\ pc' = "gate"
        /\ results' = [m \in Messages |-> Promoted(m)]
        /\ UNCHANGED <<box, assess, acts>>
      BY <1>10 DEF CompleteBatch
  <2>2. ASSUME NEW m \in Messages
        PROVE  /\ results'[m].marker = results[m].marker
               /\ results'[m].action # "none" <=> results[m].action # "none"
      BY <2>1 DEF Promoted, Types, Results
  <2>3. Batch' = Batch /\ Batch \subseteq Messages
      BY <2>2 DEF Batch
  <2> QED
      BY <2>1, <2>2, <2>3 DEF Judged, MarkPhases
<1>11. CASE OpenGate
  <2>1. CASE run.apply
    <3>1. pc' = "markers" /\ pc = "gate" /\ UNCHANGED <<results, box, acts>>
        BY <1>11, <2>1 DEF OpenGate
    <3> QED
        BY <3>1 DEF Judged, MarkPhases, Batch
  <2>2. CASE ~run.apply
      BY <1>11, <2>2, <1>2 DEF OpenGate
  <2> QED
      BY <2>1, <2>2
<1>12. ASSUME NEW m \in Messages, MarkThreat(m) \/ MarkThreatFails(m) PROVE Judged'
  <2>1. pc = "markers" /\ pc' = pc /\ UNCHANGED <<results, acts>>
      BY <1>12 DEF MarkThreat, MarkThreatFails
  <2>2. ASSUME NEW n \in Messages PROVE box'[n].place = box[n].place
    <3>1. box' \in {box, [box EXCEPT ![m] = Marked(@)]}
        BY <1>12 DEF MarkThreat, MarkThreatFails, Types
    <3>2. Marked(box[m]).place = box[m].place
        BY DEF Marked, Types, Boxes
    <3> QED
        BY <3>1, <3>2 DEF Types
  <2> QED
      BY <2>1, <2>2 DEF Judged, MarkPhases, Batch
<1>13. CASE BeginActions
    BY <1>13, <1>1 DEF BeginActions, MarkPhases
<1>14. CASE ListPending
    BY <1>14, <1>1 DEF ListPending, MarkPhases
<1>15. ASSUME NEW m \in Messages,
              SelectResult(m) \/ SkipResult(m) \/ SelectCandidate(m) \/ SkipCandidate(m)
       PROVE  Judged'
    BY <1>15, <1>3
    DEF SelectResult, SkipResult, SelectCandidate, SkipCandidate, MarkPhases
<1>16. CASE Inspect \/ Move \/ RecordOutcome
  <2>1. call.message # NoMessage
      BY <1>16 DEF Inspect, Move, RecordOutcome, CallShape, NoCall
  <2> QED
      BY <1>16, <2>1, <1>3 DEF Inspect, Move, RecordOutcome, CallShape, MarkPhases
<1>17. CASE OutcomeRejected \/ FinishRun \/ Abort \/ ResponseLost
    BY <1>17, <1>2 DEF OutcomeRejected, FinishRun, Abort, ResponseLost
<1>18. ASSUME NEW m \in Messages, UserTouches(m) \/ UserAnswers(m) PROVE Judged'
  <2>1. /\ acts' >= 1
        /\ UNCHANGED <<pc, row, assess, results, todo>>
      BY <1>18, <1>a DEF UserTouches, UserAnswers
  <2> QED
      BY <2>1 DEF Judged, Batch
<1> QED
    BY <1>4, <1>5, <1>6, <1>7, <1>8, <1>9, <1>10, <1>11, <1>12, <1>13, <1>14, <1>15,
       <1>16, <1>17, <1>18
    DEF Next, RunStep, Fault, User

(***************************************************************************)
(* While no run was cut short, every step keeps a high assessment beside a *)
(* protection or a KEEP.                                                   *)
(***************************************************************************)
LEMMA HighHeld ==
    ASSUME Types, CallShape, Judged, HighKept, [Next]_vars
    PROVE  HighKept'
<1> USE DEF mailbox, ledger, history, counters, program
<1>a. faults \in Nat
    BY ShadowRunAssumption DEF Types
<1>1. ASSUME faults' = faults,
             \A n \in Messages :
                assess'[n].high =>
                    /\ assess'[n] = assess[n]
                    /\ row'[n].action = row[n].action
                    /\ pc = "threat" /\ n \in todo => pc' = "threat" /\ n \in todo'
      PROVE  HighKept'
    BY <1>1 DEF HighKept
<1>2. ASSUME UNCHANGED <<assess, row, faults>>, pc # "threat" \/ todo = {} PROVE HighKept'
    BY <1>1, <1>2
<1>3. ASSUME UNCHANGED <<assess, row, faults, pc, todo>> PROVE HighKept'
    BY <1>1, <1>3
<1>4. CASE UNCHANGED vars
    BY <1>4, <1>3 DEF vars
<1>5. ASSUME NEW s \in Settings, OpenRun(s) PROVE HighKept'
  <2>1. \A n \in Messages : Reopened(row[n]).action = row[n].action
      BY ReopenedKeeps DEF Types
  <2>2. ~NoAssessment.high
      BY DEF NoAssessment
  <2> QED
      BY <1>5, <1>1, <2>1, <2>2 DEF OpenRun
<1>6. CASE Scan
    BY <1>6, ScanWrites DEF HighKept, Scan
<1>7. ASSUME NEW m \in Messages, AssessThreat(m) PROVE HighKept'
  <2>1. assess'[m].high => assess'[m].protective \/ row'[m].action = "keep"
      BY <1>7, AssessWrites DEF Judged
  <2> QED
      BY <1>7, <2>1, AssessWrites DEF HighKept
<1>8. CASE AttestDisabled
  <2>1. ~DisabledAssessment.high
      BY DEF DisabledAssessment
  <2> QED
      BY <1>8, <1>1, <2>1 DEF AttestDisabled
<1>9. CASE BuildLumeGraph
    BY <1>9, <1>2 DEF BuildLumeGraph
<1>10. CASE CompleteBatch
  <2>1. \A n \in Messages : row'[n].action = row[n].action
      BY <1>10, ReopenedKeeps DEF CompleteBatch, Types
  <2> QED
      BY <1>10, <1>1, <2>1 DEF CompleteBatch
<1>11. ASSUME NEW m \in Messages, MarkThreatFails(m) PROVE HighKept'
  <2>1. \A n \in Messages : row'[n].action = row[n].action
      BY <1>11, ReopenedKeeps DEF MarkThreatFails, Types
  <2> QED
      BY <1>11, <1>1, <2>1 DEF MarkThreatFails
<1>12. ASSUME NEW m \in Messages, MarkThreat(m) PROVE HighKept'
    BY <1>12, <1>2 DEF MarkThreat
<1>13. CASE OpenGate \/ BeginActions \/ ListPending \/ FinishRun
    BY <1>13, <1>2 DEF OpenGate, BeginActions, ListPending, FinishRun
<1>14. ASSUME NEW m \in Messages,
              SelectResult(m) \/ SkipResult(m) \/ SelectCandidate(m) \/ SkipCandidate(m)
       PROVE  HighKept'
    BY <1>14, <1>2 DEF SelectResult, SkipResult, SelectCandidate, SkipCandidate
<1>15. CASE Inspect \/ Move \/ RecordOutcome
    BY <1>15, <1>3 DEF Inspect, Move, RecordOutcome
<1>16. CASE OutcomeRejected
    BY <1>16, <1>2 DEF OutcomeRejected, CallShape, NoCall
<1>17. CASE Abort \/ ResponseLost
    BY <1>17, <1>a DEF Abort, ResponseLost, HighKept
<1>18. ASSUME NEW m \in Messages, UserTouches(m) \/ UserAnswers(m) PROVE HighKept'
    BY <1>18, <1>3 DEF UserTouches, UserAnswers
<1> QED
    BY <1>4, <1>5, <1>6, <1>7, <1>8, <1>9, <1>10, <1>11, <1>12, <1>13, <1>14, <1>15,
       <1>16, <1>17, <1>18
    DEF Next, RunStep, Fault, User

(***************************************************************************)
(* Every step keeps the account of the markers still owed.                 *)
(***************************************************************************)
LEMMA MarkersKept ==
    ASSUME Types, CallShape, BatchStands, Judged, MarkerOwed, [Next]_vars
    PROVE  MarkerOwed'
<1> USE DEF mailbox, ledger, history, counters, program
<1>a. faults \in Nat /\ acts \in Nat
    BY ShadowRunAssumption DEF Types
<1> DEFINE Quiet == faults = 0 /\ acts <= 1 /\ (\A s \in Settings : s.apply)
           Away(m) == box[m].place # "inbox" /\ acts >= 1
<1>1. ASSUME pc \notin {"gate", "markers"}, UNCHANGED <<acts, faults>>,
             \A n \in Messages :
                Unmarked(n)' => Unmarked(n) /\ (box[n].place # "inbox" => box'[n].place # "inbox")
      PROVE  MarkerOwed'
    BY <1>1 DEF MarkerOwed
<1>2. ASSUME UNCHANGED <<row, assess, box, acts, faults>>, pc \notin {"gate", "markers"}
      PROVE  MarkerOwed'
    BY <1>1, <1>2 DEF Unmarked
<1>3. ASSUME UNCHANGED <<pc, todo, results, row, assess, box, acts, faults>> PROVE MarkerOwed'
    BY <1>3 DEF MarkerOwed, Unmarked, Batch
<1>4. CASE UNCHANGED vars
    BY <1>4, <1>3 DEF vars
<1>5. ASSUME NEW s \in Settings, OpenRun(s) PROVE MarkerOwed'
  <2>1. \A n \in Messages : ~Reopened(row[n]).done
      BY DEF Types, Rows, Reopened
  <2> QED
      BY <1>5, <1>1, <2>1 DEF OpenRun, Unmarked
<1>6. CASE Scan
  <2>1. \A n \in Messages : Unmarked(n)' => Unmarked(n)
      BY <1>6, ScanWrites DEF Unmarked
  <2> QED
      BY <1>6, <1>1, <2>1, ScanWrites DEF Scan
<1>7. ASSUME NEW m \in Messages, AssessThreat(m) PROVE MarkerOwed'
  <2>1. ~row'[m].done
      BY <1>7, AssessWrites DEF Judged, BatchStands, BatchPhases
  <2>2. \A n \in Messages : Unmarked(n)' => Unmarked(n)
      BY <1>7, <2>1, AssessWrites DEF Unmarked
  <2> QED
      BY <1>7, <1>1, <2>2, AssessWrites
<1>8. CASE AttestDisabled
  <2>1. ~DisabledAssessment.high
      BY DEF DisabledAssessment
  <2> QED
      BY <1>8, <1>1, <2>1 DEF AttestDisabled, Unmarked
<1>9. CASE BuildLumeGraph
    BY <1>9, <1>2 DEF BuildLumeGraph
<1>10. CASE CompleteBatch
  <2>1. /\ pc = "proofs" /\ pc' = "gate"
        /\ UNCHANGED <<box, assess, acts, faults>>
      BY <1>10 DEF CompleteBatch
  <2>2. ASSUME NEW n \in Messages \ Batch PROVE Unmarked(n)' => Unmarked(n)
      BY <1>10, <2>1, <2>2 DEF CompleteBatch, Unmarked
  <2>3. ASSUME NEW n \in Batch PROVE n \in Batch'
      BY <1>10, <2>3 DEF CompleteBatch, Batch, Promoted, Types, Results
  <2> QED
      BY <2>1, <2>2, <2>3 DEF MarkerOwed
<1>11. CASE OpenGate
  <2>1. CASE run.apply
    <3>1. /\ pc = "gate" /\ pc' = "markers"
          /\ todo' = {m \in Batch : results[m].marker}
          /\ UNCHANGED <<row, assess, box, acts, faults>>
        BY <1>11, <2>1 DEF OpenGate
    <3>2. \A m \in Batch : assess[m].high => m \in todo'
        BY <3>1 DEF Judged
    <3> QED
        BY <3>1, <3>2 DEF MarkerOwed, Unmarked
  <2>2. CASE ~run.apply
    <3>1. ~Quiet /\ UNCHANGED <<acts, faults>>
        BY <1>11, <2>2 DEF OpenGate, Types
    <3> QED
        BY <3>1 DEF MarkerOwed
  <2> QED
      BY <2>1, <2>2
<1>12. ASSUME NEW m \in Messages, MarkThreat(m) PROVE MarkerOwed'
  <2>1. /\ pc = "markers" /\ pc' = pc /\ m \in todo /\ todo' = todo \ {m}
        /\ UNCHANGED <<row, assess, acts, faults>>
        /\ box' = [box EXCEPT ![m] = IF @.place = "inbox" THEN Marked(@) ELSE @]
      BY <1>12 DEF MarkThreat
  <2>2. m \in Batch
      BY <2>1 DEF BatchStands, BatchPhases
  <2>3. CASE box[m].place = "inbox"
    <3>1. box'[m].marker /\ \A n \in Messages \ {m} : box'[n] = box[n]
        BY <2>1, <2>3 DEF Types, Boxes, Marked
    <3> QED
        BY <2>1, <3>1 DEF MarkerOwed, Unmarked
  <2>4. CASE box[m].place # "inbox"
    <3>1. box' = box /\ acts >= 1
        BY <2>1, <2>2, <2>4 DEF Types, Judged, MarkPhases
    <3> QED
        BY <2>1, <2>4, <3>1 DEF MarkerOwed, Unmarked
  <2> QED
      BY <2>3, <2>4
<1>13. ASSUME NEW m \in Messages, MarkThreatFails(m) PROVE MarkerOwed'
  <2>1. ~Reopened(row[m]).done
      BY DEF Types, Rows, Reopened
  <2>2. /\ pc = "markers" /\ pc' = pc /\ todo' = todo \ {m}
        /\ UNCHANGED <<assess, acts, faults>>
        /\ ~row'[m].done
        /\ \A n \in Messages \ {m} : row'[n] = row[n] /\ box'[n] = box[n]
      BY <1>13, <2>1 DEF MarkThreatFails, Types
  <2> QED
      BY <2>2 DEF MarkerOwed, Unmarked
<1>14. CASE BeginActions
    BY <1>14 DEF BeginActions, MarkerOwed, Unmarked
<1>15. CASE ListPending
    BY <1>15, <1>2 DEF ListPending
<1>16. ASSUME NEW m \in Messages,
              SelectResult(m) \/ SkipResult(m) \/ SelectCandidate(m) \/ SkipCandidate(m)
       PROVE  MarkerOwed'
    BY <1>16, <1>2 DEF SelectResult, SkipResult, SelectCandidate, SkipCandidate
<1>17. CASE Inspect \/ RecordOutcome
    BY <1>17, <1>3 DEF Inspect, RecordOutcome
<1>18. CASE Move
  <2>1. pc \notin {"gate", "markers"}
      BY <1>18 DEF Move, CallShape, NoCall
  <2>2. \A n \in Messages : /\ box'[n].marker = box[n].marker
                            /\ box[n].place # "inbox" => box'[n].place # "inbox"
      BY <1>18 DEF Move, ExecutorEffect, Labelled, Trashed, Types, Boxes
  <2> QED
      BY <1>18, <1>1, <2>1, <2>2 DEF Move, Unmarked
<1>19. CASE OutcomeRejected
  <2>1. pc \notin {"gate", "markers"}
      BY <1>19 DEF OutcomeRejected, CallShape, NoCall
  <2> QED
      BY <1>19, <1>2, <2>1 DEF OutcomeRejected
<1>20. CASE FinishRun
    BY <1>20, <1>2 DEF FinishRun
<1>21. CASE Abort \/ ResponseLost
    BY <1>21, <1>a DEF Abort, ResponseLost, MarkerOwed
<1>22. ASSUME NEW m \in Messages, UserTouches(m) \/ UserAnswers(m) PROVE MarkerOwed'
  <2>1. /\ acts' = acts + 1
        /\ UNCHANGED <<pc, row, assess, results, todo, faults>>
      BY <1>22 DEF UserTouches, UserAnswers
  <2>2. \A n \in Messages : box'[n].marker = box[n].marker
    <3>1. CASE UserTouches(m)
      <4>1. PICK b \in Touches(box[m]) : box' = [box EXCEPT ![m] = b]
          BY <3>1 DEF UserTouches
      <4>2. b.marker = box[m].marker
          BY <4>1 DEF Touches, Types, Boxes
      <4> QED
          BY <4>1, <4>2 DEF Types
    <3>2. CASE UserAnswers(m)
        BY <3>2 DEF UserAnswers
    <3> QED
        BY <1>22, <3>1, <3>2
  <2>3. Quiet' => acts = 0
      BY <1>a, <2>1
  <2>4. Quiet' => Quiet
      BY <1>a, <2>1
  <2> QED
      BY <2>1, <2>2, <2>3, <2>4 DEF MarkerOwed, Unmarked, Batch
<1> QED
    BY <1>4, <1>5, <1>6, <1>7, <1>8, <1>9, <1>10, <1>11, <1>12, <1>13, <1>14, <1>15,
       <1>16, <1>17, <1>18, <1>19, <1>20, <1>21, <1>22
    DEF Next, RunStep, Fault, User

(***************************************************************************)
(* The invariant of the threat protection, on top of that of the runs.     *)
(***************************************************************************)
ThreatInv == Judged /\ HighKept /\ MarkerOwed

(***************************************************************************)
(* The threat invariant holds before the first run, and every step of the  *)
(* runs keeps it.                                                          *)
(***************************************************************************)
THEOREM RunThreatInductive == Spec => [](IInv /\ ThreatInv)
<1>1. Init => ThreatInv
  <2> SUFFICES ASSUME Init PROVE ThreatInv
      OBVIOUS
  <2>1. Judged
      BY DEF Init, Judged, MarkPhases
  <2>2. HighKept /\ MarkerOwed
      BY DEF Init, HighKept, MarkerOwed, Unmarked, NoAssessment
  <2> QED
      BY <2>1, <2>2 DEF ThreatInv
<1>2. IInv /\ ThreatInv /\ [Next]_vars => ThreatInv'
    BY JudgedKept, HighHeld, MarkersKept DEF IInv, ThreatInv
<1> QED
    BY <1>1, <1>2, InitInductive, StepInductive, PTL DEF Spec

(***************************************************************************)
(* The marker of a high threat in Inbox is never forgotten while its row   *)
(* counts as processed, as long as runs may act and none is cut short      *)
(* (_apply_visible_threat_markers, record_threat_marker_execution).        *)
(***************************************************************************)
THEOREM RunMarkers == Spec => []MarkerNotForgotten
<1>1. ThreatInv => MarkerNotForgotten
    BY DEF ThreatInv, MarkerOwed, Unmarked, MarkerNotForgotten
<1> QED
    BY <1>1, RunThreatInductive, PTL

(***************************************************************************)
(* A message whose stored assessment is high goes to Gmail only if it is   *)
(* a KEEP that a proof overrules, as long as no run is cut short           *)
(* (_apply_threat_protection, is_pending).                                 *)
(***************************************************************************)
THEOREM RunHighThreat == Spec => []HighThreatOnlyByProof
<1>1. ASSUME IInv, ThreatInv PROVE HighThreatOnlyByProof
  <2> SUFFICES ASSUME faults = 0, NEW m \in Messages, call.message = m, assess[m].high
               PROVE  row[m].action = "keep" /\ ProofProposal(m)
      BY DEF HighThreatOnlyByProof
  <2>1. Ready(m) /\ pc \in {"actions", "recovery"}
      BY <1>1, ShadowRunAssumption DEF IInv, CallStands, CallShape
  <2>2. row[m].action = "keep"
      BY <1>1, <2>1 DEF ThreatInv, HighKept, Ready, ThreatProtects
  <2>3. ProofProposal(m)
      BY <2>1, <2>2 DEF Ready, Proposed, OrdinaryProposal, ReviewedProposal
  <2> QED
      BY <2>2, <2>3
<1> QED
    BY <1>1, RunThreatInductive, PTL
==============================================================================
