-------------------------------- MODULE YahooRun --------------------------------
(***************************************************************************)
(* The run over a Yahoo mailbox (cli.yahoo_shadow_run, providers/yahoo.py, *)
(* providers/yahoo_quarantine.py).  IMAP names a message by the namespace  *)
(* of its folder (UIDVALIDITY) and a UID in it; a message that is moved    *)
(* gets another name, and so does every message when the namespace        *)
(* changes.  What the scan decides is as in ShadowRun; here it is one      *)
(* step, and the names are the subject: what is proposed, moved, put back  *)
(* and reviewed under which of them.                                       *)
(***************************************************************************)
EXTENDS Integers, FiniteSetsExt

CONSTANTS Messages,
          Junk,                \* those the scan proposes for cleanup
          Threats,             \* those it finds a high threat
          Unreadable,          \* those whose FETCH of the Message-ID fails
          Nameless,            \* those without one Message-ID of a usable length
          QuarantineValidity,  \* the namespace of the quarantine folder
          SyncLimit,           \* new UIDs reconciled in one run
          Limit,               \* messages moved in one run
          Destinations,        \* "quarantine", "trash" or both
          MaxEvents            \* bound: arrivals, the user's acts, faults

ASSUME YahooAssumption ==
    /\ IsFiniteSet(Messages)
    /\ Junk \cup Threats \cup Unreadable \cup Nameless \subseteq Messages
    /\ {QuarantineValidity, SyncLimit, Limit} \subseteq Nat \ {0}
    /\ MaxEvents \in Nat
    /\ Destinations \subseteq {"quarantine", "trash"}

VARIABLES box,       \* per message: its folder, UID there and flags
          server,    \* the namespace of Inbox and the next UIDs of both folders
          ledger,    \* by name: what the local database holds
          cursor,    \* yahoo_uid_cursor
          run,       \* the run in progress
          events,    \* events that may still happen
          \* history, written and never read by the actions
          baseline,  \* the last UID when the cursor was last reset
          moves,     \* <<name, message>> of every MOVE asked of the server
          named      \* <<folder, name, message>> of every name the server has given

vars == <<box, server, ledger, cursor, run, events, baseline, moves, named>>

NoCursor == <<0, 0>>

Names == ((1..(MaxEvents + 1)) \cup {QuarantineValidity}) \X (1..(MaxEvents + 1))

NoRun == [pc |-> "idle", session |-> 0, to |-> "quarantine", found |-> {}, latest |-> 0,
          identities |-> {}, markers |-> {}, todo |-> {},
          name |-> <<0, 0>>, outcome |-> "none"]

Event == events > 0 /\ events' = events - 1

Init ==
    /\ box = [m \in Messages |-> [folder |-> "none", uid |-> 0, unread |-> TRUE,
                                  flagged |-> FALSE]]
    /\ server = [validity |-> 1, uid |-> 1, filed |-> 1]
    /\ ledger = <<>>
    /\ cursor = NoCursor
    /\ run = NoRun
    /\ events = MaxEvents
    /\ baseline = 0
    /\ moves = {}
    /\ named = {}

-----------------------------------------------------------------------------
(***************************************************************************)
(* The mailbox.                                                            *)
(***************************************************************************)
Inbox == {m \in Messages : box[m].folder = "inbox"}
InboxUids == {box[m].uid : m \in Inbox}
NameOf(m) == <<server.validity, box[m].uid>>

\* FETCH by UID: what is there in the session's namespace, as a set.
At(uid) == {m \in Inbox : box[m].uid = uid}

LastUid == IF Inbox = {} THEN 0 ELSE Max(InboxUids)

\* Mutant: a reconnected session goes on in whatever namespace it finds.
AnyNamespace == TRUE

\* _reconnect_once: a lost connection is restored only to the same namespace.
SameNamespace == run.session = server.validity

\* A session that cannot be restored fails the run, which keeps nothing.
SessionLost ==
    /\ run.pc \in {"collect", "identify", "scan", "select", "act", "move"}
    /\ ~SameNamespace
    /\ run' = NoRun
    /\ UNCHANGED <<box, server, ledger, cursor, events, baseline, moves, named>>

-----------------------------------------------------------------------------
(***************************************************************************)
(* What the user has put back (_collect_yahoo_restored_feedback).          *)
(***************************************************************************)
OpenReader ==
    /\ run.pc = "idle"
    /\ \E to \in Destinations :
         run' = [NoRun EXCEPT !.pc = "collect", !.session = server.validity, !.to = to]
    /\ UNCHANGED <<box, server, ledger, cursor, events, baseline, moves, named>>

\* current_inbox_uid_cursor: a first run, or a changed namespace, infers nothing.
ResetCursor ==
    /\ run.pc = "collect"
    /\ SameNamespace
    /\ cursor[1] # run.session
    /\ cursor' = <<run.session, LastUid>>
    /\ baseline' = LastUid
    /\ run' = [run EXCEPT !.pc = "scan"]
    /\ UNCHANGED <<box, server, ledger, events, moves, named>>

\* Mutant: off by one, a batch of one less than the limit.
LowestBelow(uids) == {u \in uids : Cardinality({v \in uids : v <= u}) < SyncLimit}

\* The first limit of a set of UIDs, in ascending order.
Lowest(uids) == {u \in uids : Cardinality({v \in uids : v <= u}) <= SyncLimit}

\* inbox_identities_after: the new UIDs, oldest first, up to the limit ...
SearchNew ==
    /\ run.pc = "collect"
    /\ SameNamespace
    /\ cursor[1] = run.session
    /\ LET batch == Lowest({u \in InboxUids : u > cursor[2]})
       IN run' = [run EXCEPT !.pc = "identify", !.found = batch,
                    !.latest = IF batch = {} THEN cursor[2] ELSE Max(batch)]
    /\ UNCHANGED <<box, server, ledger, cursor, events, baseline, moves, named>>

(***************************************************************************)
(* ... and the Message-ID of each.  A header that cannot be fetched, or    *)
(* has gone meanwhile, is a YahooMessageReadError: the collection ends     *)
(* with nothing learned and its cursor as it was.  A header without one    *)
(* usable Message-ID is passed over.                                       *)
(***************************************************************************)
FetchIdentity ==
    /\ run.pc = "identify"
    /\ SameNamespace
    /\ run.found # {}
    /\ LET uid == Min(run.found)
           fetched == At(uid) \ Unreadable
       IN run' = IF fetched # {}
                 THEN [run EXCEPT !.found = @ \ {uid},
                                  !.identities = @ \cup (fetched \ Nameless)]
                 ELSE [run EXCEPT !.pc = "scan", !.found = {}, !.identities = {}]
    /\ UNCHANGED <<box, server, ledger, cursor, events, baseline, moves, named>>

\* record_restored_event_for_provider_identity: names of m that were moved.
Restorable(m) ==
    {n \in DOMAIN ledger : ledger[n].message = m /\ ledger[n].execution = "moved"}

LearnRestored ==
    /\ run.pc = "identify"
    /\ run.found = {}
    /\ \E m \in run.identities :
         /\ run' = [run EXCEPT !.identities = @ \ {m}]
         /\ ledger' = [n \in DOMAIN ledger |->
                IF n \in Restorable(m) THEN [ledger[n] EXCEPT !.restored = TRUE]
                ELSE ledger[n]]
    /\ UNCHANGED <<box, server, cursor, events, baseline, moves, named>>

\* Mutant: the cursor takes the newest UID, not the last one reconciled.
SetCursorNewest ==
    /\ run.pc = "identify"
    /\ run.found = {} /\ run.identities = {}
    /\ cursor' = <<run.session, LastUid>>
    /\ run' = [run EXCEPT !.pc = "scan"]
    /\ UNCHANGED <<box, server, ledger, events, baseline, moves, named>>

\* set_yahoo_uid_cursor, after the last signal is stored.
SetCursor ==
    /\ run.pc = "identify"
    /\ run.found = {} /\ run.identities = {}
    /\ cursor' = <<run.session, run.latest>>
    /\ run' = [run EXCEPT !.pc = "scan"]
    /\ UNCHANGED <<box, server, ledger, events, baseline, moves, named>>

-----------------------------------------------------------------------------
(***************************************************************************)
(* The scan and what it proposes.                                          *)
(***************************************************************************)
Decision(m) ==
    IF box[m].flagged THEN "keep"
    ELSE IF m \in Threats THEN "threat"
    ELSE IF m \in Junk THEN "quarantine" ELSE "keep"

\* A row under a new name; what is on record under that name stays.
Row(m, name) ==
    LET fresh == [message |-> m, decision |-> Decision(m), unread |-> box[m].unread,
                  complete |-> TRUE, execution |-> "none", restored |-> FALSE,
                  answer |-> "none"]
    IN IF name \in DOMAIN ledger
       THEN [fresh EXCEPT !.execution = ledger[name].execution,
               !.restored = ledger[name].restored, !.answer = ledger[name].answer]
       ELSE fresh

\* The upsert of rows: one under each name.
Upserted(rows) == [n \in DOMAIN ledger \cup DOMAIN rows |->
                     IF n \in DOMAIN rows THEN rows[n] ELSE ledger[n]]

Unscanned == {m \in Inbox : NameOf(m) \in DOMAIN ledger => ~ledger[NameOf(m)].complete}

\* Mutant: the batch is recorded once its actions are over.
ScanUnrecorded ==
    /\ run.pc = "scan"
    /\ SameNamespace
    /\ \E batch \in SUBSET Unscanned :
         run' = [run EXCEPT !.pc = "select",
                   !.markers = {NameOf(m) : m \in {b \in batch : Decision(b) = "threat"}}]
    /\ UNCHANGED <<box, server, ledger, cursor, events, baseline, moves, named>>

\* run_shadow_scan to mark_shadow_batch_complete: the batch, decided and recorded.
Scan ==
    /\ run.pc = "scan"
    /\ SameNamespace
    /\ \E batch \in SUBSET Unscanned :
         /\ Unscanned # {} => batch # {}
         /\ LET rows == [n \in {<<run.session, box[m].uid>> : m \in batch} |->
                            LET m == CHOOSE b \in batch : box[b].uid = n[2] IN Row(m, n)]
            IN /\ ledger' = Upserted(rows)
               /\ run' = [run EXCEPT !.pc = "select",
                            !.markers = {n \in DOMAIN rows : rows[n].decision = "threat"}]
    /\ UNCHANGED <<box, server, cursor, events, baseline, moves, named>>

Permitted(name) ==
    /\ ledger[name].decision = "quarantine"
    /\ ledger[name].execution = "none"
    /\ ledger[name].answer # "keep"

\* The batch's proposals and prepare_automatic_quarantine_candidates.
Select ==
    /\ run.pc = "select"
    /\ SameNamespace
    /\ LET pending == {n \in DOMAIN ledger :
                /\ Permitted(n)
                /\ \E m \in Inbox : NameOf(m) = n /\ box[m].unread = ledger[n].unread}
       IN \E todo \in SUBSET pending :
            /\ Cardinality(todo) = IF Cardinality(pending) < Limit
                                   THEN Cardinality(pending) ELSE Limit
            /\ run' = [run EXCEPT !.pc = "mark", !.todo = todo]
    /\ UNCHANGED <<box, server, ledger, cursor, events, baseline, moves, named>>

-----------------------------------------------------------------------------
(***************************************************************************)
(* The markers, each run of them in a session of its own.                  *)
(***************************************************************************)
\* record_threat_marker_execution: a failed marker reopens its row.
Reopened(name) == [ledger EXCEPT ![name].complete = FALSE]

\* YahooThreatMarkerExecutor.apply: UIDVALIDITY, FETCH, STORE +FLAGS.SILENT.
Mark ==
    /\ run.pc = "mark"
    /\ \E n \in run.markers :
         /\ run' = [run EXCEPT !.markers = @ \ {n}]
         /\ box' = [m \in Messages |->
                IF m \in Inbox /\ NameOf(m) = n THEN [box[m] EXCEPT !.flagged = TRUE]
                ELSE box[m]]
    /\ UNCHANGED <<server, ledger, cursor, events, baseline, moves, named>>

\* The session, or one marker, fails; what it did may have been done.
MarkFails ==
    /\ run.pc = "mark"
    /\ Event
    /\ \E n \in run.markers :
         /\ run' = [run EXCEPT !.markers = @ \ {n}]
         /\ ledger' = Reopened(n)
         /\ \/ UNCHANGED box
            \/ box' = [m \in Messages |->
                IF m \in Inbox /\ NameOf(m) = n THEN [box[m] EXCEPT !.flagged = TRUE]
                ELSE box[m]]
    /\ UNCHANGED <<server, cursor, baseline, moves, named>>

-----------------------------------------------------------------------------
(***************************************************************************)
(* The moves, in another session: the reader's is closed by then.          *)
(***************************************************************************)
OpenExecutor ==
    /\ run.pc = "mark"
    /\ run.markers = {}
    /\ run' = IF run.todo = {} THEN NoRun
              ELSE [run EXCEPT !.pc = "act", !.session = server.validity]
    /\ UNCHANGED <<box, server, ledger, cursor, events, baseline, moves, named>>

\* Answers, threats and executions are read once more before each candidate.
SkipCandidate ==
    /\ run.pc = "act"
    /\ \E n \in run.todo :
         ~Permitted(n) /\ run' = [run EXCEPT !.todo = @ \ {n}]
    /\ UNCHANGED <<box, server, ledger, cursor, events, baseline, moves, named>>

\* Mutant: the UID is taken for one of this session's namespace.
VerdictByUid(name) ==
    LET here == At(name[2])
    IN CASE here = {} -> "not_inbox"
         [] \E m \in here : box[m].unread # ledger[name].unread \/ box[m].flagged -> "protected"
         [] OTHER -> "move"

\* apply_quarantine and YahooDirectTrashExecutor.apply, before their MOVE.
Verdict(name) ==
    LET here == IF name[1] = run.session THEN At(name[2]) ELSE {}
    IN CASE here = {} -> "not_inbox"
         [] \E m \in here : box[m].unread # ledger[name].unread \/ box[m].flagged -> "protected"
         [] OTHER -> "move"

Examine ==
    /\ run.pc = "act"
    /\ SameNamespace
    /\ \E n \in run.todo :
         /\ Permitted(n)
         /\ run' = [run EXCEPT !.todo = @ \ {n}, !.name = n, !.outcome = Verdict(n),
                      !.pc = IF Verdict(n) = "move" THEN "move" ELSE "record"]
    /\ UNCHANGED <<box, server, ledger, cursor, events, baseline, moves, named>>

Filed(m, folder) ==
    /\ box' = [box EXCEPT ![m].folder = folder, ![m].uid = server.filed]
    /\ server' = [server EXCEPT !.filed = @ + 1]
    /\ named' = named \cup {<<folder, <<QuarantineValidity, server.filed>>, m>>}

(***************************************************************************)
(* UID MOVE.  The server answers OK for a UID that is no longer there; an  *)
(* answer that is lost is an exception, and the run is over.               *)
(***************************************************************************)
Move ==
    /\ run.pc = "move"
    /\ SameNamespace
    /\ moves' = moves \cup ({run.name} \X At(run.name[2]))
    /\ IF At(run.name[2]) = {} THEN UNCHANGED <<box, server, named>>
       ELSE \E m \in At(run.name[2]) : Filed(m, run.to)
    /\ \/ run' = [run EXCEPT !.pc = "record", !.outcome = "moved"] /\ UNCHANGED events
       \/ Event /\ run' = NoRun
    /\ UNCHANGED <<ledger, cursor, baseline>>

\* record_quarantine_pilot_execution, one transaction per candidate.
RecordOutcome ==
    /\ run.pc = "record"
    /\ ledger' = [ledger EXCEPT ![run.name].execution = run.outcome]
    /\ run' = [run EXCEPT !.pc = "act", !.name = <<0, 0>>, !.outcome = "none"]
    /\ UNCHANGED <<box, server, cursor, events, baseline, moves, named>>

EndRun ==
    /\ run.pc = "act"
    /\ run.todo = {}
    /\ run' = NoRun
    /\ UNCHANGED <<box, server, ledger, cursor, events, baseline, moves, named>>

\* The process ends, or an exception ends the run, between any two steps.
Crash ==
    /\ run.pc # "idle"
    /\ Event
    /\ run' = NoRun
    /\ UNCHANGED <<box, server, ledger, cursor, baseline, moves, named>>

-----------------------------------------------------------------------------
(***************************************************************************)
(* The user and the server.                                                *)
(***************************************************************************)
\* A message arrives, or comes back to Inbox from wherever it was.
ToInbox(m) ==
    /\ Event
    /\ m \notin Inbox
    /\ box' = [box EXCEPT ![m].folder = "inbox", ![m].uid = server.uid]
    /\ server' = [server EXCEPT !.uid = @ + 1]
    /\ named' = named \cup {<<"inbox", <<server.validity, server.uid>>, m>>}

Arrive(m) ==
    /\ box[m].folder = "none"
    /\ ToInbox(m)
    /\ UNCHANGED <<ledger, cursor, run, baseline, moves>>

PutBack(m) ==
    /\ box[m].folder \notin {"none", "inbox"}
    /\ ToInbox(m)
    /\ UNCHANGED <<ledger, cursor, run, baseline, moves>>

\* The user files a message elsewhere, reads it or stars it.
UserActs(m) ==
    /\ Event
    /\ m \in Inbox
    /\ \/ box' = [box EXCEPT ![m].folder = "elsewhere", ![m].uid = 0]
       \/ box' = [box EXCEPT ![m].unread = ~@]
       \/ box' = [box EXCEPT ![m].flagged = ~@]
    /\ UNCHANGED <<server, ledger, cursor, run, baseline, moves, named>>

\* The server gives Inbox a new namespace, in which UIDs start again.
ChangeValidity ==
    /\ Event
    /\ LET rank(m) == Cardinality({k \in Inbox : box[k].uid <= box[m].uid})
       IN box' = [m \in Messages |->
                    IF m \in Inbox THEN [box[m] EXCEPT !.uid = rank(m)] ELSE box[m]]
    /\ server' = [server EXCEPT !.validity = @ + 1, !.uid = Cardinality(Inbox) + 1]
    /\ named' = named \cup {<<"inbox", <<server.validity + 1, box'[m].uid>>, m>> : m \in Inbox}
    /\ UNCHANGED <<ledger, cursor, run, baseline, moves>>

\* A proposal still in Inbox is answered in the review (prepare_shadow_review).
AnswerInInbox(name) ==
    /\ Event
    /\ name \in DOMAIN ledger
    /\ ledger[name].decision \in {"quarantine", "linked"} /\ ledger[name].answer = "none"
    /\ \E m \in Inbox : NameOf(m) = name
    /\ ledger' = [ledger EXCEPT ![name].answer = "keep"]
    /\ UNCHANGED <<box, server, cursor, run, baseline, moves, named>>

(***************************************************************************)
(* prepare_quarantine_shadow_review looks each message of the quarantine   *)
(* folder up by its name there, and a name does not say its folder: where  *)
(* both folders have one UIDVALIDITY, the row it finds may be of a message *)
(* of Inbox.  A name without a row is linked by Message-ID to a row nobody *)
(* has answered, and gets a row of its own, a proposal without a threat    *)
(* assessment.  (Of a doubled Message-ID one is taken here.)               *)
(***************************************************************************)
FiledName(m) == <<QuarantineValidity, box[m].uid>>

LinkInQuarantine(m) ==
    /\ Event
    /\ box[m].folder = "quarantine"
    /\ FiledName(m) \notin DOMAIN ledger
    /\ \E n \in DOMAIN ledger : ledger[n].message = m /\ ledger[n].answer = "none"
    /\ ledger' = Upserted([n \in {FiledName(m)} |-> [Row(m, n) EXCEPT !.decision = "linked"]])
    /\ UNCHANGED <<box, server, cursor, run, baseline, moves, named>>

\* A proposal under that name, of this message or another, is answered or left.
AnswerInQuarantine(m) ==
    /\ Event
    /\ box[m].folder = "quarantine"
    /\ FiledName(m) \in DOMAIN ledger
    /\ ledger[FiledName(m)].decision \in {"quarantine", "linked"}
    /\ ledger[FiledName(m)].answer = "none"
    /\ ledger' = [ledger EXCEPT ![FiledName(m)].answer = "keep"]
    /\ UNCHANGED <<box, server, cursor, run, baseline, moves, named>>

\* The user files a message into that folder without InboxLume.
FileInQuarantine(m) ==
    /\ Event
    /\ m \in Inbox
    /\ Filed(m, "quarantine")
    /\ UNCHANGED <<ledger, cursor, run, baseline, moves>>

-----------------------------------------------------------------------------
RunStep ==
    \/ OpenReader \/ ResetCursor \/ SearchNew \/ FetchIdentity
    \/ LearnRestored \/ SetCursor \/ Scan \/ Select \/ Mark \/ OpenExecutor
    \/ SkipCandidate \/ Examine \/ Move \/ RecordOutcome \/ EndRun \/ SessionLost

Next ==
    \/ RunStep
    \/ MarkFails
    \/ Crash
    \/ \E m \in Messages :
         Arrive(m) \/ PutBack(m) \/ UserActs(m) \/ FileInQuarantine(m)
         \/ LinkInQuarantine(m) \/ AnswerInQuarantine(m)
    \/ ChangeValidity
    \/ \E n \in DOMAIN ledger : AnswerInInbox(n)

Spec == Init /\ [][Next]_vars

\* A schedule keeps starting runs, and a run that nothing ends goes on.
FairSpec == Spec /\ WF_vars(RunStep)

-----------------------------------------------------------------------------
(***************************************************************************)
(* Types; what is to be marked or moved is on record before it is.         *)
(***************************************************************************)
TypeOK ==
    /\ DOMAIN ledger \subseteq Names
    /\ \A m \in Inbox : box[m].uid \in 1..(server.uid - 1)
    /\ \A m, k \in Inbox : box[m].uid = box[k].uid => m = k
    /\ events \in 0..MaxEvents
    /\ run.todo \cup run.markers \subseteq DOMAIN ledger
    /\ Cardinality(run.todo) <= Limit
    /\ run.pc \in {"move", "record"} => run.name \in DOMAIN ledger

(***************************************************************************)
(* Every row of the ledger is about the message the server had given that  *)
(* name, in Inbox or, if the review of the quarantine folder recorded it,  *)
(* there: a session that reconnects never mixes two namespaces.  Where the *)
(* namespaces of two folders coincide, the row is still of one of them.    *)
(***************************************************************************)
NamesAreTrue ==
    \A n \in DOMAIN ledger :
        LET folder == IF ledger[n].decision = "linked" THEN "quarantine" ELSE "inbox"
        IN <<folder, n, ledger[n].message>> \in named

(***************************************************************************)
(* Through moves, restores and changes of namespace between the reader's   *)
(* session and the executor's, what is moved is the very message that was  *)
(* judged, never another one that has its UID by now, nor one of Inbox for *)
(* a message of the quarantine folder that has its name.                   *)
(***************************************************************************)
MoveHitsJudged == \A move \in moves : ledger[move[1]].message = move[2]

\* What was moved and is not on record as put back.
Unlearned(m) ==
    {n \in DOMAIN ledger :
        ledger[n].message = m /\ ledger[n].execution = "moved" /\ ~ledger[n].restored}

(***************************************************************************)
(* The cursor never passes a message the user has put back without its     *)
(* restore being learned, unless it was reset over it or the message has   *)
(* no usable Message-ID: such a one is passed and never learned.           *)
(***************************************************************************)
LearnedBehindCursor ==
    cursor[1] = server.validity =>
        \A m \in Inbox \ Nameless :
            box[m].uid > baseline /\ box[m].uid <= cursor[2] => Unlearned(m) = {}

\* The next UIDs to reconcile include one whose header cannot be fetched: no run
\* gets past them while it stays in Inbox.
Stuck ==
    \E u \in Inbox \cap Unreadable : box[u].uid \in Lowest({v \in InboxUids : v > cursor[2]})

(***************************************************************************)
(* A message put back after InboxLume had moved it, and that has a usable  *)
(* Message-ID, is learned, or leaves Inbox, or the server changes its      *)
(* namespace, or the reconciliation is stuck at a header that cannot be    *)
(* fetched.  (InboxLume moves nothing but what the scan proposes.)         *)
(***************************************************************************)
RestoreIsLearned ==
    \A m \in Junk \ Nameless :
        (/\ m \in Inbox /\ cursor[1] = server.validity
         /\ box[m].uid > cursor[2] /\ Unlearned(m) # {})
        ~> (\/ m \notin Inbox
            \/ cursor[1] # server.validity
            \/ Unlearned(m) = {}
            \/ Stuck)
=============================================================================
