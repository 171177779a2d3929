---------------------------- MODULE GmailExecutors ----------------------------
(***************************************************************************)
(* One Gmail message as the mutation executors see it, and what each of    *)
(* them decides and changes (providers/gmail_quarantine.py,                *)
(* providers/gmail_finalizer.py).  An executor first GETs the labels and   *)
(* refuses or proceeds; the POST then acts on whatever the message has     *)
(* become in between.                                                      *)
(***************************************************************************)

\* "trash" stands for Trash and Spam, "away" for every other label set
\* without INBOX.
Places == {"inbox", "trash", "away"}

\* guarded: STARRED or IMPORTANT.  label: the quarantine label.  marker: the
\* visible phishing label.
Boxes == [place : Places, unread : BOOLEAN, guarded : BOOLEAN,
          label : BOOLEAN, marker : BOOLEAN]

NewMail(unread, guarded) ==
    [place |-> "inbox", unread |-> unread, guarded |-> guarded,
     label |-> FALSE, marker |-> FALSE]

\* apply_label_quarantine, up to the POST
QuarantineVerdict(b, expectedUnread) ==
    IF b.place # "inbox" THEN "skipped_not_inbox"
    ELSE IF b.unread # expectedUnread \/ b.guarded THEN "skipped_protected"
    ELSE IF b.label THEN "already_applied"
    ELSE "proceed"

\* GmailDirectTrashExecutor.apply, up to the POST
TrashVerdict(b, expectedUnread) ==
    IF b.place = "trash" THEN "already_finalized"
    ELSE IF b.place # "inbox" THEN "cancelled_not_inbox"
    ELSE IF b.unread # expectedUnread \/ b.guarded THEN "cancelled_protected"
    ELSE "proceed"

\* POST messages/{id}/modify with the quarantine label
Labelled(b) == [b EXCEPT !.label = TRUE]

\* POST messages/{id}/trash
Trashed(b) == [b EXCEPT !.place = "trash"]

\* POST messages/{id}/modify with the phishing label
Marked(b) == [b EXCEPT !.marker = TRUE]

ExecutorVerdict(toTrash, b, expectedUnread) ==
    IF toTrash THEN TrashVerdict(b, expectedUnread)
               ELSE QuarantineVerdict(b, expectedUnread)

ExecutorEffect(toTrash, b) == IF toTrash THEN Trashed(b) ELSE Labelled(b)

SuccessOutcome(toTrash) == IF toTrash THEN "moved_to_trash" ELSE "applied"

Successes == {"applied", "moved_to_trash"}

ExecutorOutcomes ==
    Successes \cup
    {"skipped_not_inbox", "skipped_protected", "already_applied",
     "already_finalized", "cancelled_not_inbox", "cancelled_protected"}
=============================================================================
