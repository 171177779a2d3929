------------------------------- MODULE ShadowRun -------------------------------
(***************************************************************************)
(* cli.gmail_shadow_run: one progressive cleanup run after another over a  *)
(* Gmail inbox, one SQLite ledger and one scan profile.  A run scans a     *)
(* batch, assesses threats, grows the lifecycle graph, completes the       *)
(* batch, marks threats, acts on the batch's proposals, and recovers       *)
(* proposals earlier runs left behind.  The user acts on the mailbox and   *)
(* answers quiz questions between any two steps; a crash, a cancellation,  *)
(* an exception or a lost response can end a run after any of them.        *)
(*                                                                         *)
(* Each step is one SQLite transaction or one provider call.  The order in *)
(* which a run walks its batch is left open.                               *)
(***************************************************************************)
EXTENDS Naturals, FiniteSets, GmailExecutors, ScanLedger

CONSTANTS
    Messages,        \* old enough for every query of a run
    NoMessage,
    Limit,           \* the batch size asked for
    Family,          \* per message, its category
    CleanupFamilies, \* _CLEANUP_REVIEW_CATEGORIES
    ReadQuery,       \* per message, which query finds it once read
    Signals,         \* per message, its deterministic threat signals
    Policies,        \* policy fingerprints
    Settings,        \* the run settings the user switches between
    Vocabulary,      \* the decision reasons considered
    InitialBoxes,    \* the messages' states before the first run
    MaxFaults,       \* bound: aborted runs
    MaxMarkerFaults, \* bound: failed marker calls
    MaxActs          \* bound: user acts

RunSettings ==
    [policy : Policies, threat : ThreatModes, lumegraph : BOOLEAN,
     proof : BOOLEAN, governed : BOOLEAN, apply : BOOLEAN, trash : BOOLEAN]

ASSUME ShadowRunAssumption ==
    /\ NoMessage \notin Messages
    /\ IsFiniteSet(Messages)
    /\ Limit \in Nat \ {0}
    /\ ReadQuery \in [Messages -> {"one_time_code", "access_alert", "none"}]
    /\ Signals \in [Messages -> SignalLevels]
    /\ Family \in [Messages -> {Family[m] : m \in Messages}]
    /\ NoPolicy \notin Policies
    /\ Settings \subseteq RunSettings
    /\ Vocabulary \subseteq Reasons
    /\ InitialBoxes \subseteq Boxes
    /\ MaxFaults \in Nat
    /\ MaxMarkerFaults \in Nat
    /\ MaxActs \in Nat

VARIABLES
    box,       \* Gmail: the messages
    row,       \* ledger: shadow_scan
    assess,    \* ledger: threat_assessment
    quiz,      \* ledger: quiz_answer
    exec,      \* ledger: quarantine_pilot_execution
    node,      \* ledger: lumegraph_node, and whether hard_protected is frozen in
    proofs,    \* ledger: the messages with a verified obsolescence_proof
    pc, run,   \* the run: how far it has come, and its settings
    results,   \* the run: the batch's decisions, in memory
    todo,      \* the run: what is left of the current phase
    blocked,   \* the run: families the governor gate withholds
    room,      \* the run: limit - selected
    call,      \* the run: the provider call being made
    moves,     \* history: moves Gmail has made for InboxLume
    lost,      \* history: those whose outcome never reached the ledger
    faults, markerFaults, acts

mailbox == <<box>>
ledger == <<row, assess, quiz, exec, node, proofs>>
program == <<pc, run, results, todo, blocked, room, call>>
history == <<moves, lost>>
counters == <<faults, markerFaults, acts>>
vars == <<mailbox, ledger, program, history, counters>>

Families == {Family[m] : m \in Messages}

NoResult == [action |-> "none", reason |-> "none", hard |-> FALSE, marker |-> FALSE,
             fallback |-> FALSE, unread |-> FALSE]

Results == [action : {"none", "keep", "review", "quarantine"},
            reason : Reasons \cup {"none"}, hard : BOOLEAN, marker : BOOLEAN,
            fallback : BOOLEAN, unread : BOOLEAN]

\* stage: the executor has been entered ("get"), has seen labels that allow the
\* move ("post"), or has its outcome ("record").  raced: the user touched the
\* message or answered about it during the call.
NoCall == [message |-> NoMessage, expected |-> FALSE, stage |-> "none",
           outcome |-> "none", raced |-> FALSE]

Calls == [message : Messages \cup {NoMessage}, expected : BOOLEAN,
          stage : {"none", "get", "post", "record"},
          outcome : ExecutorOutcomes \cup {"none"}, raced : BOOLEAN]

Phases == {"idle", "scan", "threat", "proofs", "gate", "markers", "actions", "recovery"}

Batch == {m \in Messages : results[m].action # "none"}

Init ==
    /\ box \in [Messages -> InitialBoxes]
    /\ row = [m \in Messages |-> NoRow]
    /\ assess = [m \in Messages |-> NoAssessment]
    /\ quiz = [m \in Messages |-> "none"]
    /\ exec = [m \in Messages |-> "none"]
    /\ node = [m \in Messages |-> "none"]
    /\ proofs = {}
    /\ pc = "idle"
    /\ run \in Settings
    /\ results = [m \in Messages |-> NoResult]
    /\ todo = {}
    /\ blocked = {}
    /\ room = 0
    /\ call = NoCall
    /\ moves = [m \in Messages |-> 0]
    /\ lost = [m \in Messages |-> 0]
    /\ faults = 0
    /\ markerFaults = 0
    /\ acts = 0

EndRun ==
    /\ pc' = "idle"
    /\ results' = [m \in Messages |-> NoResult]
    /\ todo' = {}
    /\ blocked' = {}
    /\ room' = 0
    /\ call' = NoCall
    /\ UNCHANGED run

-----------------------------------------------------------------------------
(***************************************************************************)
(* Opening a run: reset_stale_threat_assessments, when the module is on.   *)
(***************************************************************************)
OpenRun(s) ==
    /\ pc = "idle"
    /\ run' = s
    /\ LET stale == {m \in Messages : s.threat # "off" /\ StaleFor(assess[m], s.threat)}
       IN /\ row' = [m \in Messages |-> IF m \in stale THEN Reopened(row[m]) ELSE row[m]]
          /\ assess' = [m \in Messages |-> IF m \in stale THEN NoAssessment ELSE assess[m]]
    /\ pc' = "scan"
    /\ UNCHANGED <<mailbox, quiz, exec, node, proofs, results, todo, blocked, room, call,
                   history, counters>>

(***************************************************************************)
(* run_shadow_scan: the read candidates come first, one query after the    *)
(* other and each under its quota, then old unread messages fill the rest. *)
(***************************************************************************)
Found(query) ==
    {m \in Messages :
        /\ box[m].place = "inbox"
        /\ ~WasScanned(row[m], run.policy)
        /\ IF box[m].unread THEN query = "unread" ELSE query = ReadQuery[m]}

AtLeastOne(n) == IF n = 0 THEN 1 ELSE n

Smaller(a, b) == IF a <= b THEN a ELSE b

\* Mutant: the unread part ignores what the read queries already yielded.
IsBatchOverfull(batch) ==
    LET codes == batch \cap Found("one_time_code")
        alerts == batch \cap Found("access_alert")
        unread == batch \cap Found("unread")
        Takes(part, query, quota) ==
            Cardinality(part) = Smaller(quota, Cardinality(Found(query)))
    IN /\ batch = codes \cup alerts \cup unread
       /\ Takes(codes, "one_time_code", AtLeastOne(Limit \div 5))
       /\ Takes(alerts, "access_alert", AtLeastOne(Limit \div 10))
       /\ Takes(unread, "unread", Limit)

IsBatch(batch) ==
    LET codes == batch \cap Found("one_time_code")
        alerts == batch \cap Found("access_alert")
        unread == batch \cap Found("unread")
        Takes(part, query, quota) ==
            Cardinality(part) = Smaller(quota, Cardinality(Found(query)))
        afterCodes == Limit - Cardinality(codes)
    IN /\ batch = codes \cup alerts \cup unread
       /\ Takes(codes, "one_time_code", AtLeastOne(Limit \div 5))
       /\ Takes(alerts, "access_alert", Smaller(afterCodes, AtLeastOne(Limit \div 10)))
       /\ Takes(unread, "unread", afterCodes - Cardinality(alerts))

(***************************************************************************)
(* classifier.classify and SafetyPolicyEngine.decide: what a message in    *)
(* this state can be decided to be.  A fallback classification stands in   *)
(* for an unavailable local model; it keeps or reviews, nothing more.      *)
(***************************************************************************)
Decisions(b) ==
    Vocabulary \cap
    (IF b.guarded THEN {"protected_mailbox_flag"}
     ELSE {"banking_record_or_notice", "attachment_requires_review",
           "local_model_unavailable"} \cup
          IF b.unread
          THEN {"content_or_similarity_not_decisive", "content_specific_discard_candidate"}
          ELSE {"message_is_read", "possible_expired_read_one_time_code",
                "expired_read_one_time_code"})

Classified(b) ==
    {[action |-> ActionOf(r), reason |-> r, hard |-> r \in HardReasons,
      marker |-> FALSE, fallback |-> f, unread |-> b.unread] :
        r \in Decisions(b), f \in BOOLEAN}

FallbackConsistent(result) ==
    /\ result.reason = "local_model_unavailable" => result.fallback
    /\ result.fallback => result.reason \in HardReasons \cup {"local_model_unavailable"}

\* The batch is classified in memory and stored in one transaction.
Scan ==
    /\ pc = "scan"
    /\ \E batch \in SUBSET Messages :
         /\ IsBatch(batch)
         /\ \E decided \in [batch -> UNION {Classified(box[m]) : m \in batch}] :
              /\ \A m \in batch : decided[m] \in Classified(box[m]) /\ FallbackConsistent(decided[m])
              /\ results' = [m \in Messages |-> IF m \in batch THEN decided[m] ELSE NoResult]
              /\ row' = [m \in Messages |->
                           IF m \in batch
                           THEN Upserted(row[m], NewRow(decided[m].reason, run.policy))
                           ELSE row[m]]
         /\ todo' = batch
    /\ pc' = "threat"
    /\ UNCHANGED <<mailbox, assess, quiz, exec, node, proofs, run, blocked, room, call,
                   history, counters>>

(***************************************************************************)
(* _apply_threat_protection, one message at a time: the assessment and the *)
(* protective override of the row are one transaction.                     *)
(***************************************************************************)
Assessed(result, found) ==
    LET protective == ProtectiveReview(found, result.action)
    IN [result EXCEPT !.action = IF protective THEN "review" ELSE @,
                      !.hard = @ \/ protective,
                      !.marker = found.high]

\* Mutant: the override protects a message only in memory.
AssessThreatInMemory(m) ==
    /\ pc = "threat"
    /\ run.threat # "off"
    /\ m \in todo
    /\ \E found \in AssessmentResults(Signals[m], run.threat) :
         /\ assess' = [assess EXCEPT ![m] = AssessmentRow(found, "keep")]
         /\ results' = [results EXCEPT ![m] = Assessed(@, found)]
    /\ todo' = todo \ {m}
    /\ UNCHANGED <<mailbox, row, quiz, exec, node, proofs, pc, run, blocked, room, call,
                   history, counters>>

AssessThreat(m) ==
    /\ pc = "threat"
    /\ run.threat # "off"
    /\ m \in todo
    /\ \E found \in AssessmentResults(Signals[m], run.threat) :
         /\ assess' = [assess EXCEPT ![m] = AssessmentRow(found, results[m].action)]
         /\ row' = [row EXCEPT ![m] =
                       IF ProtectiveReview(found, results[m].action) THEN Protected(@) ELSE @]
         /\ results' = [results EXCEPT ![m] = Assessed(@, found)]
    /\ todo' = todo \ {m}
    /\ UNCHANGED <<mailbox, quiz, exec, node, proofs, pc, run, blocked, room, call,
                   history, counters>>

\* record_disabled_threat_assessment_batch: the module is off for this run.
AttestDisabled ==
    /\ pc = "threat"
    /\ run.threat = "off"
    /\ todo # {}
    /\ assess' = [m \in Messages |-> IF m \in todo THEN DisabledAssessment ELSE assess[m]]
    /\ todo' = {}
    /\ UNCHANGED <<mailbox, row, quiz, exec, node, proofs, pc, run, results, blocked, room,
                   call, history, counters>>

(***************************************************************************)
(* _build_lumegraph_shadow: some messages of the batch become nodes, once, *)
(* with their protection frozen; a verified proof can be recorded for an   *)
(* unprotected message of the batch, or for an earlier node one of its     *)
(* messages supersedes.  Any exception stops the build part way.           *)
(***************************************************************************)
BuildLumeGraph ==
    /\ pc = "threat"
    /\ todo = {}
    /\ IF run.lumegraph
       THEN \E added \in SUBSET {m \in Batch : node[m] = "none"} :
              /\ node' = [m \in Messages |->
                            IF m \notin added THEN node[m]
                            ELSE IF results[m].hard THEN "hard" ELSE "open"]
              /\ \E verified \in SUBSET
                       ({m \in Batch : ~results[m].hard}
                        \cup {m \in Messages : added # {} /\ node'[m] = "open"}) :
                   proofs' = proofs \cup verified
       ELSE UNCHANGED <<node, proofs>>
    /\ pc' = "proofs"
    /\ UNCHANGED <<mailbox, row, assess, quiz, exec, run, results, todo, blocked, room, call,
                   history, counters>>

(***************************************************************************)
(* _apply_obsolescence_proofs and mark_shadow_batch_complete: proofs       *)
(* promote a REVIEW in memory only, and every message the local model      *)
(* really classified is completed in one transaction.                      *)
(***************************************************************************)
Promoted(m) ==
    IF /\ run.proof /\ ~run.trash
       /\ m \in proofs /\ ~results[m].hard /\ results[m].action = "review"
    THEN [results[m] EXCEPT !.action = "quarantine"]
    ELSE results[m]

\* Mutant: fallback decisions are completed like any other.
CompleteBatchAll ==
    /\ pc = "proofs"
    /\ results' = [m \in Messages |-> Promoted(m)]
    /\ row' = [m \in Messages |->
                 IF m \in Batch THEN Completed(row[m], run.policy) ELSE row[m]]
    /\ pc' = "gate"
    /\ UNCHANGED <<mailbox, assess, quiz, exec, node, proofs, run, todo, blocked, room, call,
                   history, counters>>

CompleteBatch ==
    /\ pc = "proofs"
    /\ results' = [m \in Messages |-> Promoted(m)]
    /\ row' = [m \in Messages |->
                 IF m \in Batch /\ ~results[m].fallback
                 THEN Completed(row[m], run.policy) ELSE row[m]]
    /\ pc' = "gate"
    /\ UNCHANGED <<mailbox, assess, quiz, exec, node, proofs, run, todo, blocked, room, call,
                   history, counters>>

(***************************************************************************)
(* operational_quarantine_gate: an enforced governor withholds families,   *)
(* except from a direct-Trash run.  A run without permission to act ends.  *)
(***************************************************************************)
OpenGate ==
    /\ pc = "gate"
    /\ IF run.apply
       THEN /\ blocked' \in IF run.governed /\ ~run.trash THEN SUBSET Families ELSE {{}}
            /\ todo' = {m \in Batch : results[m].marker}
            /\ pc' = "markers"
            /\ UNCHANGED <<run, results, room, call>>
       ELSE EndRun
    /\ UNCHANGED <<mailbox, ledger, history, counters>>

-----------------------------------------------------------------------------
(***************************************************************************)
(* _apply_visible_threat_markers: a failed call is isolated, recorded, and *)
(* reopens the row so that the next scan meets the message again.          *)
(***************************************************************************)
MarkThreat(m) ==
    /\ pc = "markers"
    /\ m \in todo
    /\ box' = [box EXCEPT ![m] = IF @.place = "inbox" THEN Marked(@) ELSE @]
    /\ todo' = todo \ {m}
    /\ UNCHANGED <<ledger, pc, run, results, blocked, room, call, history, counters>>

\* Mutant: the failure is recorded but the row stays completed.
MarkThreatFailsSilently(m) ==
    /\ pc = "markers"
    /\ m \in todo
    /\ markerFaults < MaxMarkerFaults
    /\ markerFaults' = markerFaults + 1
    /\ todo' = todo \ {m}
    /\ UNCHANGED <<mailbox, ledger, pc, run, results, blocked, room, call, history, faults, acts>>

\* The call fails, before Gmail applied the label or after it.
MarkThreatFails(m) ==
    /\ pc = "markers"
    /\ m \in todo
    /\ markerFaults < MaxMarkerFaults
    /\ markerFaults' = markerFaults + 1
    /\ \/ UNCHANGED box
       \/ box[m].place = "inbox" /\ box' = [box EXCEPT ![m] = Marked(@)]
    /\ row' = [row EXCEPT ![m] = Reopened(@)]
    /\ todo' = todo \ {m}
    /\ UNCHANGED <<assess, quiz, exec, node, proofs, pc, run, results, blocked, room, call,
                   history, faults, acts>>

BeginActions ==
    /\ pc = "markers"
    /\ todo = {}
    /\ todo' = {m \in Batch : results[m].action = "quarantine"}
    /\ room' = Limit
    /\ pc' = "actions"
    /\ UNCHANGED <<mailbox, ledger, run, results, blocked, call, history, counters>>

(***************************************************************************)
(* _apply_shadow_quarantine_results: the last local checks before the      *)
(* provider call for one of the batch's own proposals.                     *)
(***************************************************************************)
Call(m, expectedUnread) ==
    [message |-> m, expected |-> expectedUnread, stage |-> "get",
     outcome |-> "none", raced |-> FALSE]

Selectable(m) ==
    /\ Family[m] \notin blocked
    /\ ~ThreatProtects(assess[m])
    /\ exec[m] = "none"
    /\ ~KeptByUser(quiz[m])

SelectResult(m) ==
    /\ pc = "actions"
    /\ call = NoCall
    /\ m \in todo
    /\ Selectable(m)
    /\ call' = Call(m, results[m].unread)
    /\ room' = room - 1
    /\ todo' = todo \ {m}
    /\ UNCHANGED <<mailbox, ledger, pc, run, results, blocked, history, counters>>

SkipResult(m) ==
    /\ pc = "actions"
    /\ call = NoCall
    /\ m \in todo
    /\ ~Selectable(m)
    /\ todo' = todo \ {m}
    /\ UNCHANGED <<mailbox, ledger, pc, run, results, blocked, room, call, history, counters>>

(***************************************************************************)
(* prepare_automatic_quarantine_candidates: what the ledger alone still    *)
(* proposes, matched against the read state Gmail lists the message under. *)
(***************************************************************************)
Listed(m) ==
    /\ box[m].place = "inbox"
    /\ box[m].unread \/ ReadQuery[m] # "none"

OrdinaryProposal(m) == row[m].action = "quarantine" /\ ~row[m].hard

ReviewedProposal(m) ==
    /\ row[m].action = "review"
    /\ ~row[m].hard
    /\ Family[m] \in CleanupFamilies
    /\ quiz[m] = "dont_keep"

ProofProposal(m) ==
    /\ run.proof /\ ~run.trash
    /\ m \in proofs
    /\ row[m].reason \notin HardReasons

Proposed(m) == OrdinaryProposal(m) \/ ReviewedProposal(m) \/ ProofProposal(m)

\* Mutant: the threat ledger's protection is not read.
PendingThoughProtected(m) ==
    /\ Recoverable(row[m], run.policy)
    /\ box[m].unread = ExpectedUnread(row[m])
    /\ HasAssessment(assess[m], run.threat = "off")
    /\ exec[m] = "none"
    /\ Proposed(m)
    /\ Family[m] \notin blocked
    /\ ~KeptByUser(quiz[m])

\* Mutant: an executed proposal is still listed.
PendingThoughExecuted(m) ==
    /\ Recoverable(row[m], run.policy)
    /\ box[m].unread = ExpectedUnread(row[m])
    /\ HasAssessment(assess[m], run.threat = "off")
    /\ ~ThreatProtects(assess[m])
    /\ Proposed(m)
    /\ Family[m] \notin blocked
    /\ ~KeptByUser(quiz[m])

Pending(m) ==
    /\ Recoverable(row[m], run.policy)
    /\ box[m].unread = ExpectedUnread(row[m])
    /\ HasAssessment(assess[m], run.threat = "off")
    /\ ~ThreatProtects(assess[m])
    /\ exec[m] = "none"
    /\ Proposed(m)
    /\ Family[m] \notin blocked
    /\ ~KeptByUser(quiz[m])

ListPending ==
    /\ pc = "actions"
    /\ call = NoCall
    /\ todo = {}
    /\ room > 0
    /\ LET pending == {m \in Messages : Listed(m) /\ Pending(m)}
       IN \E listed \in SUBSET pending :
            /\ Cardinality(listed) = Smaller(room, Cardinality(pending))
            /\ todo' = listed
    /\ pc' = "recovery"
    /\ UNCHANGED <<mailbox, ledger, run, results, blocked, room, call, history, counters>>

(***************************************************************************)
(* _apply_shadow_quarantine_candidates: only the quiz is read again for    *)
(* each recovered candidate.                                               *)
(***************************************************************************)
\* Mutant: the recovered list is trusted as it was read.
SelectCandidateStale(m) ==
    /\ pc = "recovery"
    /\ call = NoCall
    /\ m \in todo
    /\ call' = Call(m, ExpectedUnread(row[m]))
    /\ todo' = todo \ {m}
    /\ UNCHANGED <<mailbox, ledger, pc, run, results, blocked, room, history, counters>>

SelectCandidate(m) ==
    /\ pc = "recovery"
    /\ call = NoCall
    /\ m \in todo
    /\ ~KeptByUser(quiz[m])
    /\ call' = Call(m, ExpectedUnread(row[m]))
    /\ todo' = todo \ {m}
    /\ UNCHANGED <<mailbox, ledger, pc, run, results, blocked, room, history, counters>>

SkipCandidate(m) ==
    /\ pc = "recovery"
    /\ call = NoCall
    /\ m \in todo
    /\ KeptByUser(quiz[m])
    /\ todo' = todo \ {m}
    /\ UNCHANGED <<mailbox, ledger, pc, run, results, blocked, room, call, history, counters>>

FinishRun ==
    /\ pc = "recovery" \/ (pc = "actions" /\ room = 0)
    /\ call = NoCall
    /\ todo = {}
    /\ EndRun
    /\ UNCHANGED <<mailbox, ledger, history, counters>>

-----------------------------------------------------------------------------
(***************************************************************************)
(* The provider call: GET and decide, POST, record.                        *)
(***************************************************************************)
Inspect ==
    /\ call.stage = "get"
    /\ LET verdict == ExecutorVerdict(run.trash, box[call.message], call.expected)
       IN call' = IF verdict = "proceed"
                  THEN [call EXCEPT !.stage = "post"]
                  ELSE [call EXCEPT !.stage = "record", !.outcome = verdict]
    /\ UNCHANGED <<mailbox, ledger, pc, run, results, todo, blocked, room, history, counters>>

Move ==
    /\ call.stage = "post"
    /\ box' = [box EXCEPT ![call.message] = ExecutorEffect(run.trash, @)]
    /\ moves' = [moves EXCEPT ![call.message] = @ + 1]
    /\ call' = [call EXCEPT !.stage = "record", !.outcome = SuccessOutcome(run.trash)]
    /\ UNCHANGED <<ledger, pc, run, results, todo, blocked, room, lost, counters>>

\* Mutant: only a move that happened is recorded.
RecordMovesOnly ==
    /\ call.stage = "record"
    /\ call.outcome \in PilotOutcomes
    /\ exec' = [exec EXCEPT ![call.message] =
                   IF @ = "none" /\ call.outcome \in Successes THEN call.outcome ELSE @]
    /\ call' = NoCall
    /\ UNCHANGED <<mailbox, row, assess, quiz, node, proofs, pc, run, results, todo, blocked,
                   room, history, counters>>

RecordOutcome ==
    /\ call.stage = "record"
    /\ call.outcome \in PilotOutcomes
    /\ exec' = [exec EXCEPT ![call.message] = IF @ = "none" THEN call.outcome ELSE @]
    /\ call' = NoCall
    /\ UNCHANGED <<mailbox, row, assess, quiz, node, proofs, pc, run, results, todo, blocked,
                   room, history, counters>>

\* record_quarantine_pilot_execution raises and the run ends.
OutcomeRejected ==
    /\ call.stage = "record"
    /\ call.outcome \notin PilotOutcomes
    /\ EndRun
    /\ UNCHANGED <<mailbox, ledger, history, counters>>

(***************************************************************************)
(* A crash, a cancellation or an exception ends the run; the ledger keeps  *)
(* what was committed.  If Gmail had already moved a message, the ledger   *)
(* never hears of it.                                                      *)
(***************************************************************************)
Abort ==
    /\ pc # "idle"
    /\ faults < MaxFaults
    /\ faults' = faults + 1
    /\ lost' = IF call.stage = "record" /\ call.outcome \in Successes
               THEN [lost EXCEPT ![call.message] = @ + 1] ELSE lost
    /\ EndRun
    /\ UNCHANGED <<mailbox, ledger, moves, markerFaults, acts>>

\* Gmail applies the POST but the response never arrives.
ResponseLost ==
    /\ call.stage = "post"
    /\ faults < MaxFaults
    /\ faults' = faults + 1
    /\ box' = [box EXCEPT ![call.message] = ExecutorEffect(run.trash, @)]
    /\ moves' = [moves EXCEPT ![call.message] = @ + 1]
    /\ lost' = [lost EXCEPT ![call.message] = @ + 1]
    /\ EndRun
    /\ UNCHANGED <<ledger, markerFaults, acts>>

-----------------------------------------------------------------------------
(***************************************************************************)
(* The user, at any time: reads a message or marks it unread, stars it or  *)
(* takes the star off, puts it back, or archives it.                       *)
(***************************************************************************)
Touches(b) ==
    {[b EXCEPT !.unread = ~@], [b EXCEPT !.guarded = ~@],
     [b EXCEPT !.place = "inbox", !.label = FALSE], [b EXCEPT !.place = "away"]}

Raced(m) == IF call.message = m THEN [call EXCEPT !.raced = TRUE] ELSE call

UserTouches(m) ==
    /\ acts < MaxActs
    /\ acts' = acts + 1
    /\ \E b \in Touches(box[m]) \ {box[m]} : box' = [box EXCEPT ![m] = b]
    /\ call' = Raced(m)
    /\ UNCHANGED <<ledger, pc, run, results, todo, blocked, room, history, faults, markerFaults>>

\* record_quiz_answer: the first answer about a message stands.
UserAnswers(m) ==
    /\ acts < MaxActs
    /\ acts' = acts + 1
    /\ quiz[m] = "none"
    /\ \E answer \in QuizAnswers \ {"none"} : quiz' = [quiz EXCEPT ![m] = answer]
    /\ call' = Raced(m)
    /\ UNCHANGED <<mailbox, row, assess, exec, node, proofs, pc, run, results, todo, blocked,
                   room, history, faults, markerFaults>>

-----------------------------------------------------------------------------
RunStep ==
    \/ Scan
    \/ AttestDisabled
    \/ BuildLumeGraph
    \/ CompleteBatch
    \/ OpenGate
    \/ BeginActions
    \/ ListPending
    \/ Inspect
    \/ Move
    \/ RecordOutcome
    \/ OutcomeRejected
    \/ FinishRun
    \/ \E m \in Messages : \/ AssessThreat(m)
                           \/ MarkThreat(m)
                           \/ SelectResult(m)
                           \/ SkipResult(m)
                           \/ SelectCandidate(m)
                           \/ SkipCandidate(m)

Fault == Abort \/ ResponseLost \/ \E m \in Messages : MarkThreatFails(m)

User == \E m \in Messages : UserTouches(m) \/ UserAnswers(m)

Next == (\E s \in Settings : OpenRun(s)) \/ RunStep \/ Fault \/ User

Spec == Init /\ [][Next]_vars

(***************************************************************************)
(* The scheduler opens a run again and again, and an open run goes on.     *)
(* Faults and user acts are never promised.                                *)
(***************************************************************************)
FairSpec ==
    /\ Spec
    /\ WF_vars(\E s \in Settings : OpenRun(s))
    /\ WF_vars(RunStep)

-----------------------------------------------------------------------------
(***************************************************************************)
(* The type invariant; room counts down from the limit and stays in range  *)
(* because a batch, and a recovery, never hold more than their share.      *)
(***************************************************************************)
TypeOK ==
    /\ box \in [Messages -> Boxes]
    /\ row \in [Messages -> Rows(Policies)]
    /\ assess \in [Messages -> Assessments]
    /\ quiz \in [Messages -> QuizAnswers]
    /\ exec \in [Messages -> PilotOutcomes \cup {"none"}]
    /\ node \in [Messages -> {"none", "open", "hard"}]
    /\ proofs \subseteq Messages
    /\ pc \in Phases
    /\ run \in Settings
    /\ results \in [Messages -> Results]
    /\ todo \subseteq Messages
    /\ blocked \subseteq Families
    /\ room \in 0..Limit
    /\ call \in Calls
    /\ moves \in [Messages -> Nat]
    /\ lost \in [Messages -> Nat]
    /\ faults \in 0..MaxFaults
    /\ markerFaults \in 0..MaxMarkerFaults
    /\ acts \in 0..MaxActs

(***************************************************************************)
(* A row leaves the scan for good (processing_complete) only when a threat *)
(* assessment stands beside it and the local model really classified it,   *)
(* whatever crash, policy change or module switch came in between.         *)
(***************************************************************************)
CompleteMeansFinished ==
    \A m \in Messages :
        row[m].done => /\ assess[m].analyzer # "none"
                       /\ row[m].reason # "local_model_unavailable"

(***************************************************************************)
(* Whenever a message is on its way to Gmail, the ledger on disk justifies *)
(* it by itself: the current policy's row, an assessment the run accepts   *)
(* and that does not protect, no earlier execution, and a proposal.  In    *)
(* memory decisions of the batch and recovered proposals of crashed runs   *)
(* meet the same commit boundary (pipeline.is_pending).                    *)
(***************************************************************************)
InFlightJustified ==
    \A m \in Messages : call.message = m =>
        /\ Recoverable(row[m], run.policy)
        /\ HasAssessment(assess[m], run.threat = "off")
        /\ ~ThreatProtects(assess[m])
        /\ exec[m] = "none"
        /\ Proposed(m)

(***************************************************************************)
(* An explicit Keep or Unsure given before the provider call was entered   *)
(* always stops it; only an answer given during the call can be late.      *)
(***************************************************************************)
CorrectionWins ==
    \A m \in Messages :
        call.message = m /\ KeptByUser(quiz[m]) => call.raced

(***************************************************************************)
(* Gmail moves a message for InboxLume at most once, except for the moves  *)
(* whose outcome a crash or a lost response kept from the ledger.          *)
(***************************************************************************)
MovesAccounted ==
    \A m \in Messages :
        moves[m] = lost[m]
                   + (IF exec[m] \in Successes THEN 1 ELSE 0)
                   + (IF call.message = m /\ call.outcome \in Successes THEN 1 ELSE 0)

(***************************************************************************)
(* The visible marker of a high-threat message in Inbox is never forgotten *)
(* while its row counts as processed (learning.py:2439): a run has it      *)
(* still to do, or has done it.  So it is as long as runs may act and none *)
(* is cut short, and the user has not taken a message out of Inbox and     *)
(* back, which takes two acts.                                             *)
(***************************************************************************)
MarkerNotForgotten ==
    faults = 0 /\ acts <= 1 /\ (\A s \in Settings : s.apply) =>
        \A m \in Messages :
            row[m].done /\ assess[m].high /\ box[m].place = "inbox" /\ ~box[m].marker
            => pc = "gate" \/ (pc = "markers" /\ m \in todo)

(***************************************************************************)
(* A proposal the ledger still carries, for a message a query still lists, *)
(* is settled in the end: moved, skipped or withdrawn, not met forever.    *)
(***************************************************************************)
PendingSettles ==
    \A m \in Messages :
        (Listed(m) /\ Pending(m)) ~> ~(Listed(m) /\ Pending(m))

(***************************************************************************)
(* A message whose stored assessment is high is marked, not moved to       *)
(* Quarantine or Trash (docs/THREAT_DETECTION.md:74), as long as no run    *)
(* was cut short; but the override protects no KEEP, and a KEEP is         *)
(* overruled by a proof.                                                   *)
(***************************************************************************)
HighThreatOnlyByProof ==
    faults = 0 =>
        \A m \in Messages :
            call.message = m /\ assess[m].high => row[m].action = "keep" /\ ProofProposal(m)

-----------------------------------------------------------------------------
(***************************************************************************)
(* The runs implement the abstract promise of ReversibleCleanup, reading   *)
(* each message's standing off the ledger.                                 *)
(***************************************************************************)
Standing(m) ==
    IF exec[m] # "none" THEN "settled"
    ELSE IF ThreatProtects(assess[m]) \/ KeptByUser(quiz[m]) THEN "protected"
    ELSE IF /\ Recoverable(row[m], run.policy)
            /\ HasAssessment(assess[m], run.threat = "off")
            /\ Proposed(m)
         THEN "proposed"
    ELSE "open"

Cleanup == INSTANCE ReversibleCleanup WITH
    Nothing <- NoMessage,
    standing <- [m \in Messages |-> Standing(m)],
    request <- call.message,
    answered <- call.outcome \in Successes,
    moved <- moves

(***************************************************************************)
(* Every behaviour of the runs is a behaviour of ReversibleCleanup.        *)
(***************************************************************************)
ImplementsCleanup == Cleanup!Spec
=============================================================================
