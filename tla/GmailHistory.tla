------------------------------ MODULE GmailHistory ------------------------------
(***************************************************************************)
(* A Gmail mailbox and the label history the API keeps of it, as           *)
(* providers/gmail.py uses them: every change gets the next history id,    *)
(* and a listing for one label returns the later changes of messages that  *)
(* carried the label before or after the change.                           *)
(***************************************************************************)
EXTENDS Naturals, GmailExecutors

CONSTANTS Messages

VARIABLES box,        \* the messages
          history,    \* the label changes made so far
          historyId,  \* the id of the latest
          labelMade,  \* the account has a quarantine label
          day         \* the date

gmailVars == <<box, history, historyId, labelMade, day>>

QuarantineLabel == "Label_quarantine"

Labels == {"INBOX", "UNREAD", "STARRED", "TRASH", QuarantineLabel}

LabelsOf(b) ==
    {l \in Labels :
        \/ l = "INBOX" /\ b.place = "inbox"
        \/ l = "TRASH" /\ b.place = "trash"
        \/ l = "UNREAD" /\ b.unread
        \/ l = "STARRED" /\ b.guarded
        \/ l = QuarantineLabel /\ b.label}

\* the user, a cleanup run, or the delayed finalizer
Authors == {"user", "run", "finalizer"}

Changes == [id : Nat, message : Messages, added : SUBSET Labels, removed : SUBSET Labels,
            carried : SUBSET Labels, by : Authors, on : Nat]

\* Message m becomes b, by the hand of who.
Change(m, b, who) ==
    /\ box' = [box EXCEPT ![m] = b]
    /\ historyId' = historyId + 1
    /\ history' = history \cup
         {[id |-> historyId + 1, message |-> m,
           added |-> LabelsOf(b) \ LabelsOf(box[m]),
           removed |-> LabelsOf(box[m]) \ LabelsOf(b),
           carried |-> LabelsOf(box[m]) \cup LabelsOf(b),
           by |-> who, on |-> day]}
    /\ labelMade' = (labelMade \/ b.label)
    /\ UNCHANGED day

\* users.history.list with a labelId
Listing(label, since) ==
    {c \in history : c.id > since /\ label \in c.carried}

\* Gmail drops old history when it likes: a listing that does not start at
\* the latest change may be refused.
MayRefuse(since) == since < historyId

NextDay ==
    /\ day' = day + 1
    /\ UNCHANGED <<box, history, historyId, labelMade>>

GmailInit(boxes) ==
    /\ box \in [Messages -> boxes]
    /\ history = {}
    /\ historyId = 0
    /\ labelMade \in BOOLEAN
    /\ day = 0

\* What a user can do to a message.
Gestures == {"read", "star", "unlabel", "to inbox", "archive", "to trash"}

AfterGesture(b, g) ==
    CASE g = "read" -> [b EXCEPT !.unread = ~@]
      [] g = "star" -> [b EXCEPT !.guarded = ~@]
      [] g = "unlabel" -> [b EXCEPT !.label = FALSE]
      [] g = "to inbox" -> [b EXCEPT !.place = "inbox"]
      [] g = "archive" -> [b EXCEPT !.place = "away"]
      [] g = "to trash" -> [b EXCEPT !.place = "trash"]

GmailTypeOK ==
    /\ box \in [Messages -> Boxes]
    /\ history \subseteq Changes
    /\ historyId \in Nat
    /\ labelMade \in BOOLEAN
    /\ day \in Nat
    /\ \A c \in history : c.id \in 1..historyId
=============================================================================
