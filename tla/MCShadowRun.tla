------------------------------ MODULE MCShadowRun ------------------------------
(***************************************************************************)
(* Instances of ShadowRun for TLC.                                         *)
(***************************************************************************)
EXTENDS ShadowRun

CONSTANTS m1, m2

OneFamily == [m \in Messages |-> "advertising"]

TwoFamilies == [m \in Messages |-> IF m = m1 THEN "advertising" ELSE "uncertain"]

FoundWhenRead == [m \in Messages |-> IF m = m1 THEN "one_time_code" ELSE "none"]

WeakAndClear == [m \in Messages |-> IF m = m1 THEN "weak" ELSE "clear"]

FreshMail == {NewMail(TRUE, FALSE)}

ReadOrFresh == {NewMail(unread, FALSE) : unread \in BOOLEAN}

Setting(policy, threat, graph, governed, apply, trash) ==
    [policy |-> policy, threat |-> threat, lumegraph |-> graph, proof |-> graph,
     governed |-> governed, apply |-> apply, trash |-> trash]

\* Two policies, with the threat module and direct Trash switched between runs.
SafetySettings ==
    {Setting("p1", "targeted_semantic", FALSE, FALSE, TRUE, FALSE),
     Setting("p2", "off", FALSE, FALSE, TRUE, TRUE)}

SafetyVocabulary ==
    {"content_specific_discard_candidate", "expired_read_one_time_code",
     "local_model_unavailable", "protected_mailbox_flag"}

\* Proofs, an enforced governor and a change of policy, towards the quarantine and
\* towards Trash.
EvidenceSettings ==
    {Setting("p1", "technical_only", TRUE, TRUE, TRUE, FALSE),
     Setting("p2", "confirmed_semantic", TRUE, TRUE, TRUE, TRUE)}

EvidenceVocabulary ==
    {"content_or_similarity_not_decisive", "content_specific_discard_candidate",
     "message_is_read", "protected_mailbox_flag"}

\* One unchanging schedule, for liveness.
QuarantineSchedule == {Setting("p1", "targeted_semantic", FALSE, FALSE, TRUE, FALSE)}

TrashSchedule == {Setting("p1", "targeted_semantic", FALSE, FALSE, TRUE, TRUE)}

AlertAndClear == [m \in Messages |-> IF m = m1 THEN "alert" ELSE "clear"]
=============================================================================
