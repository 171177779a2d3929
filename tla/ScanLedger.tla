------------------------------ MODULE ScanLedger ------------------------------
(***************************************************************************)
(* The rows PreferenceStore (src/inboxlume/learning.py) keeps for one      *)
(* message under one scan profile, and the statements that read and change *)
(* them.  A decision is known by its first controlled reason code, which   *)
(* fixes its action (policy.py) and whether it is a hard protection        *)
(* (proof_of_obsolescence.HARD_POLICY_REASONS).                            *)
(***************************************************************************)

KeepReasons == {"protected_mailbox_flag", "banking_record_or_notice", "message_is_read"}

ReviewReasons == {"attachment_requires_review", "local_model_unavailable",
                  "content_or_similarity_not_decisive",
                  "possible_expired_read_one_time_code"}

QuarantineReasons == {"content_specific_discard_candidate",
                      "expired_read_one_time_code"}

Reasons == KeepReasons \cup ReviewReasons \cup QuarantineReasons

HardReasons == {"protected_mailbox_flag", "banking_record_or_notice",
                "attachment_requires_review"}

\* the reasons whose proposal is about a message already read
ReadReasons == {"expired_read_one_time_code"}

ActionOf(reason) ==
    IF reason \in KeepReasons THEN "keep"
    ELSE IF reason \in ReviewReasons THEN "review" ELSE "quarantine"

(***************************************************************************)
(* shadow_scan: a row, or the absence of one.  policy is the fingerprint   *)
(* of the policy that decided it, done is processing_complete.             *)
(***************************************************************************)
NoPolicy == "none"

NoRow == [action |-> "none", reason |-> "none", hard |-> TRUE,
          policy |-> NoPolicy, done |-> FALSE]

Rows(policies) ==
    [action : {"none", "keep", "review", "quarantine"},
     reason : Reasons \cup {"none"}, hard : BOOLEAN,
     policy : policies \cup {NoPolicy}, done : BOOLEAN]

NewRow(reason, policy) ==
    [action |-> ActionOf(reason), reason |-> reason,
     hard |-> reason \in HardReasons, policy |-> policy, done |-> FALSE]

\* _upsert_shadow_scan_with_connection: a completed row of the same policy stays.
Upserted(old, new) ==
    IF old.done /\ old.policy = new.policy THEN old ELSE new

\* shadow_scan_membership_checker
WasScanned(r, policy) == r.done /\ r.policy = policy

\* mark_shadow_batch_complete
Completed(r, policy) == IF r.policy = policy THEN [r EXCEPT !.done = TRUE] ELSE r

\* record_threat_marker_execution "failed", reset_stale_threat_assessments
Reopened(r) == [r EXCEPT !.done = FALSE]

\* the second statement of record_threat_assessment
Protected(r) ==
    IF r = NoRow THEN r ELSE [r EXCEPT !.action = "review", !.hard = TRUE]

\* shadow_recovery_expected_unread: no answer without the current policy's row
Recoverable(r, policy) == r # NoRow /\ r.policy = policy
ExpectedUnread(r) == r.reason \notin ReadReasons

(***************************************************************************)
(* threat_assessment: a row, or the absence of one.                        *)
(***************************************************************************)
ThreatModes == {"off", "technical_only", "confirmed_semantic", "targeted_semantic"}

Analyzers == {"none", "disabled-by-user", "technical-only", "technical-below-alert",
              "technical-screen-clear", "local-model", "local-model-failure"}

Assessments == [analyzer : Analyzers, high : BOOLEAN, protective : BOOLEAN]

NoAssessment == [analyzer |-> "none", high |-> FALSE, protective |-> FALSE]

\* record_disabled_threat_assessment_batch
DisabledAssessment ==
    [analyzer |-> "disabled-by-user", high |-> FALSE, protective |-> FALSE]

\* reset_stale_threat_assessments: the rows a mode cannot stand on
StaleFor(a, mode) ==
    \/ a.analyzer = "disabled-by-user"
    \/ a.analyzer = "technical-only" /\ mode \in {"targeted_semantic", "confirmed_semantic"}
    \/ a.analyzer = "technical-below-alert" /\ mode = "targeted_semantic"

\* has_threat_assessment_id
HasAssessment(a, allowDisabled) ==
    a.analyzer # "none" /\ (allowDisabled \/ a.analyzer # "disabled-by-user")

\* threat_protects_message_id
ThreatProtects(a) == a.protective

(***************************************************************************)
(* threat_signals.py: which messages earn the second, semantic pass, and   *)
(* the assessments that can come out.  signals is what the deterministic   *)
(* layer finds in the message: nothing, a weak anomaly, or an alert.       *)
(***************************************************************************)
SignalLevels == {"clear", "weak", "alert"}

SemanticFollowup(signals, mode) ==
    \/ mode = "targeted_semantic" /\ signals # "clear"
    \/ mode = "confirmed_semantic" /\ signals = "alert"

\* The second pass can raise a weak anomaly to an alert, never clear one.
AssessmentResults(signals, mode) ==
    IF SemanticFollowup(signals, mode)
    THEN {[analyzer |-> "local-model", high |-> h] :
             h \in IF signals = "alert" THEN {TRUE} ELSE BOOLEAN}
         \cup {[analyzer |-> "local-model-failure", high |-> signals = "alert"]}
    ELSE {[analyzer |-> IF mode = "technical_only" THEN "technical-only"
                        ELSE IF signals = "clear" THEN "technical-screen-clear"
                        ELSE "technical-below-alert",
           high |-> signals = "alert"]}

\* _apply_threat_protection: the protective override of anything but a KEEP
ProtectiveReview(result, action) ==
    /\ result.high \/ result.analyzer = "local-model-failure"
    /\ action # "keep"

\* record_threat_assessment: what is stored beside a decision with this action
AssessmentRow(found, action) ==
    [analyzer |-> found.analyzer, high |-> found.high,
     protective |-> ProtectiveReview(found, action)]

(***************************************************************************)
(* quiz_answer and quarantine_pilot_execution                              *)
(***************************************************************************)
QuizAnswers == {"none", "keep", "unsure", "dont_keep"}

KeptByUser(answer) == answer \in {"keep", "unsure"}

\* record_quarantine_pilot_execution raises ValueError outside this set.
PilotOutcomes == {"applied", "already_applied", "moved_to_trash",
                  "skipped_not_inbox", "skipped_protected"}
=============================================================================
