-------------------------- MODULE MatureFinalization --------------------------
(***************************************************************************)
(* The delayed finalizer (cli.gmail_finalize_quarantine): it lists the     *)
(* quarantined messages that have stood for Delay days, then rechecks each *)
(* with Gmail and moves it to Trash or Spam, and records what it did.  It  *)
(* is a command of its own, which takes no lock.  Each step is one         *)
(* provider call or one SQLite transaction, the listing excepted.          *)
(***************************************************************************)
EXTENDS GmailHistory, FiniteSets

CONSTANTS
    NoMessage,
    Delay,      \* QUARANTINE_DELAY_DAYS
    FinalLimit  \* the messages of one finalization

ASSUME FinalizationAssumption ==
    /\ NoMessage \notin Messages
    /\ IsFiniteSet(Messages)
    /\ Delay \in Nat
    /\ FinalLimit \in 1..5

VARIABLES
    row,    \* shadow_scan: a proposal about mail met unread or read, or another decision
    kept,   \* quiz_answer: the messages answered Keep or Unsure
    exec,   \* quarantine_pilot_execution: its outcome and its date
    final,  \* quarantine_finalization: its outcome
    fin     \* the finalization in progress

finalizerVars == <<final, fin>>

RowKinds == {"none", "unread", "read", "other"}

ExpectsUnread(r) == r = "unread"

Quarantined == {"applied", "already_applied"}

ExecOutcomes == {"none", "moved_to_trash", "skipped"} \cup Quarantined

NoExec == [outcome |-> "none", on |-> 0]

FinalOutcomes ==
    {"moved_to_trash", "already_finalized", "cancelled_not_inbox",
     "cancelled_protected", "cancelled_label_removed"}

NoFinalization == [stage |-> "none", todo |-> {}, message |-> NoMessage,
                   outcome |-> "none"]

Finalizations == [stage : {"none", "list", "post", "record"}, todo : SUBSET Messages,
                  message : Messages \cup {NoMessage},
                  outcome : FinalOutcomes \cup {"none"}]

FinalizationInit ==
    /\ row = [m \in Messages |-> "none"]
    /\ kept = {}
    /\ exec = [m \in Messages |-> NoExec]
    /\ final = [m \in Messages |-> "none"]
    /\ fin = NoFinalization

\* is_mature, for a message the Inbox queries list
Mature(m) ==
    /\ box[m].place = "inbox"
    /\ row[m] \in {"unread", "read"}
    /\ ExpectsUnread(row[m]) = box[m].unread
    /\ final[m] = "none"
    /\ exec[m].outcome \in Quarantined
    /\ day >= exec[m].on + Delay
    /\ m \notin kept

\* prepare_mature_quarantine_candidates: as many as the limit allows
ListMature ==
    /\ fin.stage = "none"
    /\ \E listed \in SUBSET {m \in Messages : Mature(m)} :
         /\ listed # {}
         /\ Cardinality(listed) <= FinalLimit
         /\ fin' = [NoFinalization EXCEPT !.stage = "list", !.todo = listed]
    /\ UNCHANGED <<gmailVars, row, kept, exec, final>>

\* Mutant: the label is not looked at.
FinalVerdictUnlabelled(b, expectedUnread) ==
    CASE b.place = "trash" -> "already_finalized"
      [] b.place = "away" -> "cancelled_not_inbox"
      [] b.place = "inbox" /\ (b.unread # expectedUnread \/ b.guarded) -> "cancelled_protected"
      [] OTHER -> "proceed"

\* GmailQuarantineFinalizer.finalize, up to the POST
FinalVerdict(b, expectedUnread) ==
    CASE b.place = "trash" -> "already_finalized"
      [] b.place = "away" -> "cancelled_not_inbox"
      [] b.place = "inbox" /\ (b.unread # expectedUnread \/ b.guarded) -> "cancelled_protected"
      [] OTHER -> IF b.label THEN "proceed" ELSE "cancelled_label_removed"

InspectMature(m) ==
    /\ fin.stage = "list"
    /\ m \in fin.todo
    /\ LET verdict == FinalVerdict(box[m], ExpectsUnread(row[m]))
       IN fin' = [fin EXCEPT !.message = m, !.todo = @ \ {m},
                    !.stage = IF verdict = "proceed" THEN "post" ELSE "record",
                    !.outcome = IF verdict = "proceed" THEN "none" ELSE verdict]
    /\ UNCHANGED <<gmailVars, row, kept, exec, final>>

\* POST messages/{id}/trash
Finalize ==
    /\ fin.stage = "post"
    /\ Change(fin.message, Trashed(box[fin.message]), "finalizer")
    /\ fin' = [fin EXCEPT !.stage = "record", !.outcome = "moved_to_trash"]
    /\ UNCHANGED <<row, kept, exec, final>>

\* record_quarantine_finalization: INSERT OR IGNORE
RecordFinalization ==
    /\ fin.stage = "record"
    /\ final' = [final EXCEPT ![fin.message] = IF @ = "none" THEN fin.outcome ELSE @]
    /\ fin' = IF fin.todo = {} THEN NoFinalization
              ELSE [NoFinalization EXCEPT !.stage = "list", !.todo = fin.todo]
    /\ UNCHANGED <<gmailVars, row, kept, exec>>

\* A crash, an HTTP error or a refused answer ends the command at any step.
FinalizationEnds ==
    /\ fin.stage # "none"
    /\ fin' = NoFinalization
    /\ UNCHANGED <<gmailVars, row, kept, exec, final>>

FinalizationNext ==
    \/ ListMature \/ (\E m \in Messages : InspectMature(m))
    \/ Finalize \/ RecordFinalization \/ FinalizationEnds

FinalizationTypeOK ==
    /\ row \in [Messages -> RowKinds]
    /\ kept \subseteq Messages
    /\ exec \in [Messages -> [outcome : ExecOutcomes, on : Nat]]
    /\ final \in [Messages -> FinalOutcomes \cup {"none"}]
    /\ fin \in Finalizations
    /\ fin.stage \in {"post", "record"} <=> fin.message # NoMessage
=============================================================================
