# InboxLume in TLA+

InboxLume reads a Gmail or Yahoo inbox with a local model, keeps an opaque
ledger of what it decided, and moves messages it considers expendable to a
reversible place: a quarantine label or folder, or the provider's Trash. This
directory holds its verification: TLA+ modules translated from `src/inboxlume`,
the TLC instances that check them, and proofs that hold for every value of the
constants.

What matters in this program is not any one decision but that decisions,
crashes, settings and the user's own acts come in any order. A run is a chain of
separate SQLite transactions and network calls; it may stop after any of them,
the settings may be different when the next one opens, another process may work
on the same account, and the user keeps working in the mailbox, in the window
and in the quiz all the while.

## The system

| Component | State it keeps | What is hard | What makes it correct | Module |
|---|---|---|---|---|
| Operation lock (`operation_lock.py`) | one file per account: inode, kernel lock, pid | a waiter on the inode, failure half-way, crash | one locked operation at a time; the file names it; a waiter is served | `OperationLock` |
| Gmail run (`cli.gmail_shadow_run`, `pipeline.py`) | a batch of decisions in memory | a crash between any two transactions; memory against the disk | only what the disk justifies is moved, once, unless the user said Keep | `ShadowRun`, `ReversibleCleanup` |
| Gmail executors (`gmail_quarantine.py`, `gmail_finalizer.py`) | the mailbox | the message changes between GET and POST; the response is lost | a refusal changes nothing; success means the POST was sent | `GmailExecutors` |
| Scan ledger (`learning.py`) | rows, assessments, answers, executions, proofs, cursors | rows of different ages, policies and threat modes side by side | a completed row has been assessed and really classified | `ScanLedger` and each module's own tables |
| Threat protection (`threat_signals.py`, `cli.py`) | assessments, markers | modes switched between runs, a marker call that fails | a protected message is not moved; its marker is retried | `ShadowRun` |
| LumeGraph and proofs (`lumegraph*.py`, `proof_of_obsolescence.py`) | nodes, transitions, proofs | messages in any order, a walk cut short by an exception | a proof stands on its witness; the filter is never widened or interrupted | `ProofLedger`, `OrdinaryFilter` |
| Governor and drift (`safety_governor.py`, `temporal_drift.py`) | none; reads reviews | small samples | narrows authority, never widens it | an arbitrary gate in `ShadowRun` |
| Delayed finalizer (`gmail_finalizer.py`) | the ages of executions | the user changed the message meanwhile | moves only what is still quarantined, after the delay | `MatureFinalization`, `Aftercare` |
| Behaviour feedback (`gmail.py`, `yahoo.py`, `cli.py`) | history or UID cursor, events | two histories and one cursor; expiry; bounded batches | never skipped behind the cursor, never invented | `BehaviorFeedback`, `GmailHistory`, `YahooRun` |
| Yahoo run (`yahoo.py`, `yahoo_quarantine.py`) | ledger rows by UIDVALIDITY and UID | names that change when a message moves or the server renumbers; two sessions; lost answers | what is moved is what was judged | `YahooRun` |
| HMAC key (`learning.py`, `credential_store.py`) | a secret and a binding per database | two processes, a crash, a lost secret, old databases | one key per database, and nobody locked out | `AccountKeys` |
| Desktop worker, scheduled run, diagnostics (`desktop_worker.py`, `scheduled_run.py`, `diagnostics.py`) | phases, summaries, the diagnostics file | cancellation, hangs and crashes after mutations began; two writers of one file | a receipt never understates; no record is lost | `ScanWorker` |
| Quiz and reviews (`gui_bridge.py`, `quiz.py`) | one dialogue over two pipes | an early or repeated click | one click answers one question | `QuizBridge` |
| Window over its process (`desktop_app.py`) | current operation, timers, what it shows | events, timers and exits of one process met by the next | the window unlocks, shows the truth and stops only what it was asked to | `DesktopSession` |
| Accounts, schedules, consents (`desktop_app.py`, `settings.py`, `native_scheduler.py`, `google_oauth.py`) | settings file and drafts, native tasks, credentials | threads, failed commands, unsaved drafts, unattended runs | an unattended run does what was agreed | `Accounts` |
| Policy and classifier (`policy.py`, `classifier.py`, `semantic_guardrails.py`) | none | the local model is unavailable | fallback never proposes a move | outcomes only, in `ScanLedger` |

Desktop operations and scheduled runs enter the lock, call `gmail_shadow_run` or
`yahoo_shadow_run` once or in chunks, and report; those call the pipeline, which
reads the mailbox and the ledger, and then the executors, which change the
mailbox. The user reaches the mailbox through the provider, the ledger through
the quiz, and the schedules and credentials through the window.

The modules meet in three compositions: `ShadowRun` is the inside of one Gmail
run (and is shown to implement `ReversibleCleanup`); `Aftercare` is what follows a
move, with sessions, finalizer, user and days around one mailbox; `DesktopSession`
is the window, the worker, the quiz and the scheduled run around one lock and one
diagnostics file, in which a run is only a chunk that may change the mailbox.
`YahooRun`, `ProofLedger`, `AccountKeys` and `Accounts` each stand alone, with a
scan, or a run, reduced to one step.

## Modules

`OperationLock` has one process per attempt. `path` is the inode the file's name
refers to, `owner` the kernel's lock per inode, `text` the pid in the file, `fd`
the descriptor of each process. `Open`, `Acquire`/`Refuse`, `Truncate`,
`WritePid` are the calls of `__enter__` in order, `EnterFails` its `except`
clause, `Exit` is `__exit__`, `Crash` what the kernel does to a dead process.
Terminal commands take no lock, so the lock's properties say nothing of them. A
lock on an inode is what `flock` gives; the branch for Windows, where a byte
range is locked, and the refusals of symbolic links and irregular files are left
out.

`GmailExecutors` is a message as an executor sees it (`Boxes`) and the two
decisions (`QuarantineVerdict`, `TrashVerdict`) up to the POST, with the effect
of each POST. Labels that no executor or query looks at are not there; Spam is
folded into "trash", and Sent, Drafts and Chats into "away".

`ScanLedger` is the ledger's rows for one message and one scan profile, with the
statements that read and change them as operators. A decision is known by its
first reason code, because that fixes its action and whether it is a hard
protection; of the policy's two dozen codes the module keeps one for every
combination the run can tell apart. `AssessmentResults` says what the threat
layers can conclude from a message's deterministic signals in each mode.

`ShadowRun` composes the two into `gmail_shadow_run`, again and again:

| `pc` | Code | Actions |
|---|---|---|
| idle | the worker opens a run | `OpenRun` (with `reset_stale_threat_assessments`) |
| scan | `run_shadow_scan` | `Scan`: the batch and its rows, one transaction |
| threat | `_apply_threat_protection` | `AssessThreat` per message, or `AttestDisabled`; `BuildLumeGraph` |
| proofs | `_apply_obsolescence_proofs`, `mark_shadow_batch_complete` | `CompleteBatch` |
| gate | `operational_quarantine_gate` | `OpenGate` |
| markers | `_apply_visible_threat_markers` | `MarkThreat`, `MarkThreatFails`, `BeginActions` |
| actions | `_apply_shadow_quarantine_results` | `SelectResult`, `SkipResult`, `ListPending` |
| recovery | `prepare_automatic_quarantine_candidates`, `_apply_shadow_quarantine_candidates` | `SelectCandidate`, `SkipCandidate`, `FinishRun` |
| within a call | the executor and the record | `Inspect`, `Move`, `RecordOutcome`, `OutcomeRejected` |

`Abort` is a crash, a cancellation or an exception at any step; `ResponseLost`
is a POST that Gmail applies and nobody hears of. `UserTouches` and
`UserAnswers` come between any two steps. `moves` and `lost` are history: they
are never read by an action.

Abstractions a reader should know of:

- a message is a model value; its category, the query that finds it once read,
  and its deterministic signals do not change;
- every message is old enough for the queries, so age thresholds are not a state;
- one scan profile and one account; two accounts share nothing;
- the messages of a scan are read at one instant, although the code fetches them
  one after the other; the user cannot change one between its fetch and its
  classification, only before the scan or after its transaction;
- the order in which a run walks its batch is open, so every order is covered;
- the window of the recovery (at least a thousand ids) covers the mailbox;
- the calibration a direct-Trash run requires (`direct_trash_guard.py`) is taken
  as given: leaving the guard out allows more runs, not fewer;
- which families an enforced governor withholds is arbitrary, and so is which
  messages LumeGraph can prove, within what the code allows it (`ProofLedger` is about
  that).

`ReversibleCleanup` is the abstract promise, with no phases, rows or policies:
each message stands open, proposed, protected or settled; a move is asked of
Gmail only for a message that stands proposed, one at a time; an answer moves it
once; a settled message stays settled and is not asked about again. `Standing`
in `ShadowRun` reads a message's standing off the ledger on disk, never off the
run's memory. That is what makes the refinement say something: the run decides
from memory and from lists it read earlier, and the disk has to agree at the
moment of the call.

`MCShadowRun` holds the instances.

`Aftercare` is what happens to a message once InboxLume has decided about it. It
composes two modules over one mailbox:

- `GmailHistory` (external) is the mailbox with the label history the API keeps:
  every change takes the next history id and says which labels it added, removed
  and which the message carried, whose hand it was and on which day. A listing for a
  label returns the later changes of messages that carried it. Gmail may refuse a
  listing whose start is not the latest change, at any time.
- `BehaviorFeedback` is `_collect_gmail_behavior_feedback`: `OpenSync` reads the
  current id, `InitCursor` takes it on the first run, `ReadInboxHistory` and
  `ReadLabelHistory` are the two listings, `LearnSignal` one transaction per signal,
  `SetCursor` the last, `ResetCursor` the expired history. `Register` is what
  recording a scanned batch adds to `behavior_message`.
- `MatureFinalization` is `gmail_finalize_quarantine`: `ListMature`, then per
  message `InspectMature` (the GET and the checks), `Finalize` (the POST) and
  `RecordFinalization`; `FinalizationEnds` is a fault at any of them.

| `run.stage` | Code | Actions |
|---|---|---|
| idle | a session opens and takes `now` | `OpenSession` |
| sync | `_collect_gmail_behavior_feedback` | `Collect`, `Learn` |
| scan | `run_shadow_scan` | `Scan` |
| act | the executor calls | `Act`, `SkipKept`, `EndRun` (another run of the session, or the end) |
| record | `record_quarantine_pilot_execution` | `RecordExecution`, `OutcomeRejected` |

`AbortSession` ends a session at any step. The finalizer, the user in Gmail
(`UserActs`), the quiz (`UserAnswers`) and the days (`TimePasses`) come between any
two steps. `history`, beyond what the listings return, is a record of who did what:
`owed` holds the user's acts a run has yet to learn and `undone` the messages whose
recorded move the user has taken back; no action reads either.

What is abstracted there, beyond what `ShadowRun` abstracts:

- the inside of a run is `ShadowRun`'s. Here a scan decides what it likes about what
  is in Inbox, and a run's GET and POST are one step, while the finalizer's are two;
- one scan profile and one policy, so a row of the ledger does not change once it is
  written: `row` keeps what `is_mature` and the recovery read of it;
- the clock counts days; the finalizer lists at one instant;
- IMPORTANT is folded into STARRED, Spam into Trash; nobody puts the quarantine label
  on by hand, and the label itself is not deleted once it exists.

`ScanWorker` is an operation in a process of its own: `StartJob`, `Boot`,
`EnterLock`, then chunks of `Analyse` and mailbox actions (`Affect`, `LoseAnswer`,
`LoseMarker`) ended by `EndChunk`, then the record (`OpenLog`, `ReplaceLog`), the
terminal event (`Tell`) and the exit (`Leave`). `Terminate` is SIGTERM at any of
these points; `Fail`, `RecordFails`, `Hang` and `Die` are what may happen to it.
`QuizBridge` adds the dialogue of a quiz or a review over two pipes, and
`DesktopSession` the window: it starts one process, handles its events, its exit
and the user's cancel with its three-second force stop, and watches the
diagnostics file for runs of the scheduler. `effects` and `appended` are history.
Progress bars, phases, and the progress a scheduled run publishes are display and
left out, and so are the threat backtest and the estimates.

`YahooRun` is about names. A message in IMAP is a UID in the namespace its folder
has at the moment, so it gets another name whenever it moves, and every message
does when the server changes UIDVALIDITY. The run's steps are `OpenReader`, the
reconciliation of what the user put back (`SearchNew`, `FetchIdentity` by
Message-ID, `LearnRestored`, `SetCursor`, `ResetCursor`), `Scan`, `Select`, `Mark`,
`OpenExecutor` (another session), and per candidate `Examine`, `Move`,
`RecordOutcome`. `SessionLost` is a reconnection that finds another namespace;
`Crash` ends a run anywhere. The user's own acts, the reviews of the quarantine
folder and in Inbox, and `ChangeValidity` come between any two steps. The name the
code writes, `UIDVALIDITY:UID`, has no folder in it (`yahoo.py:173`): the ledger is
keyed by that alone, and the namespace of the quarantine folder may be any, one of
Inbox's included. `Unreadable` messages are those whose FETCH of the Message-ID fails,
which ends the collection; `Nameless` those whose header has none, several or one of
an unusable length, which are passed over (`yahoo.py:498`, `502`).

`ProofLedger` is the walk of a batch that `BuildLumeGraph` of `ShadowRun` leaves
open: `Consensus`, `Observe` (node, links and two proofs in one transaction),
`Close` or `CloseRaises` per message, `WalkFails` a failed transaction, `Apply`
the promotion and completion of the batch, `Die` a killed run, `Reopen` a row that
has to be read again. What a message means (its kind, its week, whether it is
useful) is data: constants, or any outcome its kind allows. `OrdinaryFilter` is
the same run without any graph, allowed one thing more: to put a REVIEW without
protection into the quarantine. `MCProofLedger` is its instance.

`AccountKeys` is the secret that makes a ledger opaque: `load_or_create_hmac_key`
step by step under its lock (`Lock`, `ReadKey`, `CheckDatabase`, `CreateKey`,
`ReadBack`), then the database (`OpenTables`, `Bind`, `Record`), with processes
that stop anywhere (`Stop`), databases of builds that had no binding, and
`LoseKey`.

`Accounts` is the preferences window: the settings file and the drafts over it,
the native task of each account on each of three schedulers, the credentials of a
consent saved item by item, and the buttons that keep these apart. Nothing but a
disabled button keeps a second consent from starting, and a discarded draft or the end
of a native task enables it (`desktop_app.py:3281`), so `window.auths` holds all that
are open, which end in any order. The settings file is fresh, or one whose accounts
were added and connected earlier. `agreed` is history: the rules the user has said may run unattended, by Apply or in the
question that Save asks.

## Runs

| Run | Question | Bounds | Result |
|---|---|---|---|
| `OperationLock` | Does the lock exclude, report and serve? | 3 processes (one waits), 2 inodes | holds |
| `ShadowSafety` | Do policy changes, module switches, a fault and a user act anywhere break the ledger's authority? | 2 messages, limit 1, 2 settings, 1 fault, 1 act | holds |
| `ShadowEvidence` | Proofs, reviewed families, a governor, markers and high threats, when no run is cut short | 2 messages in 2 families, read or unread, 2 settings of 2 policies (towards the quarantine, towards Trash), 1 failed marker call, 1 user act | holds |
| `ShadowProgress` | Is every pending proposal settled in the end? | quarantine schedule, 1 fault, 1 act | holds |
| `ShadowTrashStuck` | The same towards Trash | 1 act | violated |
| `Aftercare` | Is what the user does learned and respected? | 1 message, 2 user acts, 2 days, delay 1 | holds |
| `DesktopSession` | Do window and diagnostics tell the truth, does all that starts end? | 2 operations, 1 mishap, 2 questions, chunk 1, 1 message, file of 2 records | holds |
| `Yahoo` | Is what is moved what was judged, and what is put back learned? | 3 messages (a threat whose header cannot be fetched, junk, junk without a usable Message-ID), 4 events (arrivals, user acts, faults, renumberings), 1 UID per reconciliation, one UIDVALIDITY for both folders at first | holds |
| `Proofs` | Does a proof stand, is a closure found in any order, is the filter left alone? | 3 shipments of one parcel, 2 of the earlier week, and an offer; batches of 2; 1 mishap | holds |
| `GraphGap` | Does every lifecycle message get its node? | as `Proofs`, no mishap | violated |
| `AccountKeys` | One key per database, and nobody locked out? | 2 processes, 2 databases, 2 keys, 1 loss | holds |
| `Accounts` | Does an unattended run do what was agreed, does the window unlock and know its tasks? | 2 accounts, 2 rules, 3 schedulers, 5 clicks, 1 failure | holds |

What each property says is in the comment above its definition; the hazards of
`PROJECT.json` name the line of code each is about.

Two messages are enough for the interesting cases of a run: one is in the batch
while the other is left to recovery, and one call is in flight while the user
touches either. Limit 1 puts the batch quotas on their edge (`max(1, limit // 5)`
and `max(1, limit // 10)` both exceed their share) and makes scanning the second
message take a second run. One fault is one crash at any step of any run: its
effect on the ledger is there for all the runs that follow, which are not bounded.
Messages are not interchangeable in the instances (their signals and queries
differ), so no symmetry is declared. `MaxFaults`, `MaxMarkerFaults`, `MaxActs` and
`MaxDay` bound the counters; `moves` stays finite because nothing is moved twice
without a fault or a user act.

`Aftercare` needs one message, since nothing is shared between two but the cursor
and the finalizer's limit; its proofs cover any number. Two user acts are a restore
and a second change of mind, or a change between the two listings and one after;
faults are not bounded. The delay is scaled from three days to one, which keeps both
sides of its boundary. `UserGestures` takes reading, unlabelling, and moving to Inbox
and to Trash; starring goes through the same steps as reading, and archiving bars
the finalizer as Trash does.

In `DesktopSession` two operations are the one the window shows and the one a stale
timer, event or record belongs to; one of them may be the scheduled run, which then
contends for the lock and the file. With chunk size 1 an unlimited session takes
a full chunk and a short one. The file holds two records and starts with one, so
the second append drops the oldest.

Four events in `Yahoo` are, for instance, an arrival, a move whose answer is lost, a
restore and a renumbering; reconciling one UID per run is the edge of the bound the
code has (`SyncLimit`), where a second put-back message has to wait for the next run.
Runs are not bounded. The quarantine folder's namespace is Inbox's first, so a name may
be of a message of either folder until Inbox is renumbered. The destination is the
quarantine: Trash differs only in that nothing in it is reviewed.

In `Proofs` the three shipments meet in every order of batches. The two of one week
are tied for the later one, which looks at one of them only, while either finds the
later one when it comes second; the offer is what stops a walk. Runs are not
bounded, mishaps are: a killed run, a failed transaction, an answer the model does
not give, or a row opened again. Ties on both sides, and a message between two
others in time, are left to the proof. No one-time code is in the instance; its rule has the shape of the
offer's and never raises.

`AccountKeys` has two keys so that a second could be created, and an old key for the
databases that predate bindings. `Accounts` has five clicks:
four make a second consent beside the first (connect, edit, discard, connect), or two
schedules with a draft between them on either account; the fifth is any other. An
account that was there before is counted as the click that added it. Two consents
beside a native task are in the instance; three at once are left to the proof. Its run never
looks at what is inside a run but for the rules it takes when it starts.

Deadlock is checked, except where the system may stop for good: a window nobody
uses (`DesktopSession`, `Accounts`, whose clicks are bounded), a mailbox with no more
events (`Yahoo`), processes that have ended (`AccountKeys`), and a mailbox that has
been read to its end (`Proofs`, `GraphGap`).

### Fairness

`OperationLock`: a process that has entered goes on and leaves (weak fairness of
the steps of `__enter__` and of `Exit`): they are ordinary system calls, and
operations end. A waiter blocked in `flock` is woken by the kernel in turn, hence
strong fairness of its `Acquire`. Nothing is assumed of failures, crashes or new
attempts.

`ShadowRun`, `YahooRun` and `ProofLedger`: the scheduler opens a run again and again,
and an open run makes steps (`scheduled_run.py`, installed by `native_scheduler.py`).
Nothing is assumed of faults or of the user, nor between settings: in the liveness
instance of `ShadowRun` there is one.

`DesktopSession`: a process that is not hung goes on, and the window's event loop
delivers events, timers and exits. A hang is a mishap after which nothing is assumed
of the process but that a force stop ends it.

### What the violations show

- **A direct-Trash refusal is never settled** (`ShadowTrashStuck`).
  `GmailDirectTrashExecutor.apply` answers `cancelled_protected`,
  `cancelled_not_inbox` or `already_finalized`; the run hands each outcome to
  `record_quarantine_pilot_execution`, which knows five others and raises
  `ValueError`. A message starred after it was proposed ends the run, now and at
  every later run. Towards the quarantine the same history settles
  (`ShadowProgress`).
- **An offer without proof takes the rest of its batch out of the graph**
  (`GraphGap`). The reasons of `deterministic_date_proof` lack a trailing comma
  (`proof_of_obsolescence.py:238`) and are a string, so the proof that should abstain
  raises; `_build_lumegraph_shadow` swallows the exception and the messages after the
  offer are completed without a node, for good. `Proofs` shows what is left standing:
  rows complete, the filter is not changed, and closures are found among the nodes
  there are.

### Observations

Met while modelling, noted here because the properties above had to be stated
around them. None has a run of its own.

- Recovery reads a proof and not the stored action (`pipeline.py:765`): a message
  proved obsolete and later decided KEEP for a reason outside
  `HARD_POLICY_REASONS`, such as `message_is_read`, is moved, where
  `docs/PROOF_OF_OBSOLESCENCE.md:38` says that `Keep` always wins.
- The protective override is not stored beside a KEEP. If the policy changes, a run
  that records a proposal and ends before its threat stage leaves a high-threat
  message to the next recovery (`pipeline.py:708`). Hence the premise of
  `HighThreatOnlyByProof` that no run was cut short.
- Nor does the override protect a KEEP (`cli.py:343`). A read message kept for being
  read, with a high assessment and a proof that holds whatever the decision (an
  expired offer or code), is moved by the recovery once the user marks it unread:
  the first observation, for a message of which `docs/THREAT_DETECTION.md:74` says
  that it is not moved. It is the one exception `HighThreatOnlyByProof` makes, and
  the instance of `ShadowEvidence` reaches it.
- A row is completed before its marker (`cli.py:1142`); a run that ends in between
  leaves a high-threat message unmarked for good, where a failed call would reopen it.
  So does a run without permission to act, and so does a message the user takes out
  of Inbox before the marker's turn and puts back later. They are the premises of
  `MarkerNotForgotten`.
- The Inbox history and the label's are listed one after the other and the cursor
  takes the larger id (`providers/gmail.py:474`): a message taken out of Trash in
  between is never learned. `LearnedBehindCursor` shows that this window is the only
  one.
- A session takes `now` once (`desktop_worker.py:544`) and dates all its moves with
  it, so in a long session the three days can begin before the label.
- An unlimited session stops at a short chunk (`desktop_worker.py:610`), and messages
  the model cannot classify count as processed without being completed
  (`cli.py:1142`, `cli.py:1329`): with as many of them as a chunk holds it has no end.
- A verified proof is not replaced by the blocked proof of a later reading
  (`learning.py:2776`), for instance one that finds the message useful after all,
  which `docs/PROOF_OF_OBSOLESCENCE.md:44` says no proof can authorise.
- A node is linked to one nearest message on each side (`learning.py:2668`, `LIMIT
  1`), so of two open shipments of one week the one that closes them may prove only
  one. `ClosureFound` says so. A stronger form, which promised both, holds only while no
  two are of one week: `Proofs` has two for that reason.
- A review of the Yahoo quarantine folder links by Message-ID to any row of the scan
  (`pipeline.py:511`), so a message the user filed there by hand is counted, against
  the comment at `pipeline.py:518`. A message put back has a new UID, so its earlier
  execution does not keep it from being moved again.
- A Message-ID that is missing, doubled or of an unusable length reads as `None`
  (`yahoo.py:502`) and is dropped (`yahoo.py:619`), and the cursor takes the last UID
  of the batch all the same (`yahoo.py:624`): if the user had put that message back,
  its restore is never learned. `LearnedBehindCursor` and `RestoreIsLearned` except
  these messages (`Nameless`) and no others. A header that cannot be fetched at all
  (`yahoo.py:498`) keeps the cursor where it was, at every run again: nothing behind
  it is lost and nothing behind it is learned while it stays in Inbox, which is the
  exception `Stuck` of `RestoreIsLearned`.
- A name has no folder (`yahoo.py:173`) and IMAP gives each folder its own
  UIDVALIDITY, so two folders may have the same one. The review of the quarantine
  folder then finds, under the name of a message there, the row of a message of Inbox
  (`pipeline.py:503`), and the answer counts for that one; or it links a name that an
  Inbox message has or will have (`pipeline.py:522`), which then counts as scanned and
  is never proposed. `NamesAreTrue` says what is left: a row is of the message that had
  its name in the folder it was recorded from. A linked row has no assessment and is
  never moved, so `MoveHitsJudged` holds all the same.
- While a consent is open in the browser, a refresh of the availability enables
  Remove again (`desktop_app.py:2394`): the credentials saved afterwards belong to
  no account, which the question at line 2424 wants to avoid. Disconnect is likewise
  possible while a native install is in flight.
- The same refresh enables Connect (`desktop_app.py:3281`), so two consents can be
  open, each with a loopback server of its own. Their buttons end up right
  (`WindowUnlocks`); but each saves its client and then its token
  (`google_oauth.py:358`), so the client of one may be stored with the token of the
  other. `Accounts` counts which items there are and not whose they are.
- The lock of a key's creation is a file in the temporary directory
  (`learning.py:168`), which the systemd unit makes private (`native_scheduler.py:492`):
  the window and a scheduled run there do not exclude each other. `AccountKeys` has one
  lock, as between processes that share the directory; a scheduled run follows an
  account that has its key already.
- A threat marker whose answer is lost is counted as a failure, so the receipt of
  such a run may say that nothing changed: the exception in
  `ReceiptsNeverUnderstate`.
- The panel does not notice the first record there ever is (`desktop_app.py:2038`),
  hence `FirstRecords`. The buttons of a new quiz dialog are enabled before its
  first question (`desktop_app.py:947`): an early click answers it, hence "shown or
  next" in `AtMostOneAhead`.
- A scheduled run that is killed leaves no record, and its published progress is
  shown as the next run's until that one publishes its own.
- With rows of an old build, a lost key and a second database, a new key is created
  and the old database is bound to it: `RowsUnderOneKey` holds of rows written since
  tables are bound, and old rows are no longer found.
- A removal takes a verification that times out for a removed task; on macOS, when
  `bootout` fails, a job may stay loaded without its file. Two windows may be open at
  once: nothing prevents it, and the model has one.

## Proofs

`OperationLockProofs` proves the four safety properties of the lock for any set
of processes and inodes. None is inductive by itself. `IInv` adds that all
descriptors, once the path has a name, are of that one inode (`OneInode`: this is
where not unlinking the file counts), that a process between `Acquire` and its
release owns that inode (`OwnersHold`), and that a running process's pid is in it
(`PidWritten`). Mutual exclusion follows because an inode has one owner.

`ShadowRunProofs` proves `TypeOK`, `CompleteMeansFinished`, `InFlightJustified`,
`CorrectionWins`, `MovesAccounted`, `MarkerNotForgotten`, `HighThreatOnlyByProof` and
the refinement `ImplementsCleanup` for any
finite set of messages, any batch limit, categories, signals, policies, settings, vocabulary of reasons, initial mailbox and fault bounds;
`ShadowRunAssumption` is all it assumes. The invariant `IInv` explains why what a
run remembers agrees with what the disk says when it acts:

- `BatchStands`: each in-memory decision of the batch has a row of the run's
  policy on disk, and from the threat stage on an assessment too; a decision still
  to be acted on is one the disk proposes, or is protected;
- `RecoveryStands`: what the recovery has listed is still proposed, assessed, not
  protected and not executed; only a late answer of the user can change it, and
  that is read again;
- `CallStands`: from the call's entry to its record nothing in the ledger
  withdraws what justified it (`InFlightJustified`);
- `CallShape` and `RoomLeft`: which stages a call can be in per phase, and that
  what is left to do fits in what is left of the limit. `RoomLeft` rests on
  `BatchBound`: the three quotas together never exceed the limit;
- `CompleteMeansFinished`, `CorrectionWins` and `MovesAccounted` themselves.

`MarkerNotForgotten` and `HighThreatOnlyByProof` are proved from `IInv` and a second
invariant on top of it (`ThreatInv`, `RunThreatInductive`), which takes faults, acts
and settings into its premises and not into the assumptions:

- `Judged`: until its markers are done a batch is as its threat stage left it. No row
  of it is complete before the batch is, so that an assessment never makes a
  complete row owe a marker; a row still to be assessed has the action the assessment
  will judge; a high assessment is in the memory the markers are taken from, and
  proofs do not take it out; only the user moves a message out of Inbox meanwhile;
- `HighKept`: a high assessment stands beside a protection or a KEEP, except while
  its message waits to be assessed again. A crash at that moment is what makes it
  false, hence `faults = 0`. `InFlightJustified` then leaves a KEEP, which only a
  proof proposes;
- `MarkerOwed`: a missing marker is still to come in this run or its message is out
  of Inbox by the user's hand; with at most one act it is not back there.

The refinement takes one lemma per abstract action: selecting a message is `Ask`,
`Move` is `Answer`, `RecordOutcome` is `Settle`, `OutcomeRejected`, `Abort` and
`ResponseLost` during a call are `Abandon`, everything else is `Reconsider` or a
stutter. `Ask` needs `InFlightJustified` and `CorrectionWins` at the very moment
of the call.

`AftercareProofs` proves `TypeOK`, `DelayObserved` (the finalizer waits for the whole
delay from the date in the ledger), `UndoneStays`, `RestoreHasCause` and
`LearnedBehindCursor`, for any messages (finitely many for the
finalizer's limit), delay, limits, gestures and bounds. `DelayObserved` rests on two
facts about the ledger: an execution, once recorded, is never replaced
(`INSERT OR IGNORE`), and what a finalization holds was quarantined and mature when
it was listed. `UndoneStays` adds that a message whose move was taken back has
an execution on record, which no run acts on again, and for the finalizer either no
label, or an execution that went to Trash, or a finalization on record.
`RestoreHasCause` follows the signals of a collection back to changes in the
history, through both listings and their merge: InboxLume's own changes add no
message to Inbox and take no label off without adding TRASH.
`LearnedBehindCursor` follows each act that is owed the other way, from the history to
the cursor (`DebtInv`): a change that says something carries INBOX, so that the first
listing shows it; what that listing returned is exactly what the history had then
(`InboxListed`); the second turns it into a signal (`DebtListed`). There a TRASH in
the merged changes could hide a label taken off. It does not, because a message in
Inbox has come back since it was in Trash (`InboxAgain`), and coming back is a restore
of its own, in the first listing.

`AccountKeysProofs` proves `TypeOK`, `RowsUnderOneKey` and `NeverLockedOut` for any
processes, databases (one at least), keys and losses. Its `IInv` adds that a process
from `Lock` to the end of the block is the owner (`OwnersInside`), so that no other
can have seen that there is no key when one is created; that a process that writes
rows has the key its database is bound to (`WritersBound`); and, while no key was
lost, that a key in a process's hands is the stored one (`HeldIsStored`) and that a
process that saw none is right (`MissingIsMissing`). A bound database keeps its key
because `Bind` writes only where none is.

`ProofLedgerProofs` proves `TypeOK`, `WitnessStands`, `ClosureFound` and the refinement
`ImplementsFilter` for any finite set of messages, kinds, weeks, verdicts, batch limit
and mishaps. `IInv` is the first three together: they carry each other.

- A node is written once (`Insert` is for a message the graph does not know), so the
  order and the states of a link's ends, and with them `WitnessStands`, stay. A proof
  replaced by a reading again is a proof still, or a verified one that stays
  (`Stronger`).
- `ClosureFound` has one case for each end of a pair: the closing message arrives and
  finds one of the nearest older ones, or an open one arrives and finds one of the
  nearest newer. That there is a nearest one takes that messages are finite; that
  nothing else changed for the rest takes that a node which arrives between two is
  itself nearer, so the premise is about it.
- The refinement has one step per action: a scanned batch is the filter's `Decide`,
  `Apply` its `CarryOut`, `Die` its `Lose`, and the walk, also one given up half-way,
  a stutter. It needs the run to hold, at `Apply`, the decisions the scan made.

`YahooRunProofs` proves `TypeOK`, `NamesAreTrue`, `MoveHitsJudged` and
`LearnedBehindCursor` for any finite set of messages, which of them are junk, threats,
unreadable or nameless, both limits, destinations, number of events and any namespace
of the quarantine folder. The argument is in three layers:

- the mailbox (`MailOK`): a name of Inbox once given is of one message (`NamedOnce`),
  because the numbers to be given next are beyond all given (`NamedBefore`); every
  message in Inbox or in the quarantine folder now has a given name there
  (`PresentNamed`). Nothing keeps a name of one folder from being one of the other;
- the ledger and the run: a row's name was given to its message in its folder, a
  session's namespace is not later than the server's, and what is to be marked or moved
  is a row the scan recorded, never a link (`Judged`), because a link is complete and
  is no proposal (`LedgerOK`, `RunOK`). `MoveHitsJudged` follows: what the move takes
  was given that name in Inbox, and so was what the row was judged from;
- the cursor: what is new when a collection lists is still to be identified,
  identified, or learned (`Collected`); a message that is being moved, or was just
  moved, has not come back behind the cursor before its row says so (`CallStands`).
  Mailbox steps enter only through `MailNext`: a message that enters Inbox takes a
  number not given before, so it is beyond the cursor.

`AccountsProofs` proves `TypeOK`, `RunsAsAgreed`, `SeenIsTrue` and `WindowUnlocks` for
any accounts, rules, schedulers, clicks and failures. `FileOK` is what makes an
unattended run safe: what the file schedules is listed and agreed to, and only rules
are drafted, for which `TaskOK` has the rules a native task installs agreed to before it
starts. `ButtonsOK` says more than `WindowUnlocks` does, of moments when consents are
open too: Save is enabled whenever no native task is at work, and with no consent
either everything else is. It asks nothing of how many consents are open: the end of
any of them enables what the others had disabled; each refresh (`Available`, `Connection`, the status of a
schedule) has a lemma on which buttons it keeps and which it enables, since they come
in any order. `SeenIsTrue` is inductive with `TaskOK`: only a native task changes a
loaded task, and its end asks again or leaves the window blind.

`DesktopSessionProofs` proves `TypeOK`, `ReceiptsNeverUnderstate`, `NoRecordLost`,
`ForcedWasAsked` and `AtMostOneAhead` for any limit, chunk and file sizes, numbers of
messages, questions, runs and mishaps. `SessionInv` has three layers, each proved
above the one before:

- the processes (`WorkerInv`): where a process can be given who holds the two locks
  and which run it is on (`Placed`), what a run at each point knows of the changes it
  made (`Aware`), no run number used twice (`Apart`), every record true of its run
  (`RecordsTrue`), and, while a process holds the file's lock, its draft the file's
  successor (`Drafted`). With `RetainedIsNewest`, that appending to the newest records
  and cutting to size leaves the newest, this carries `NoRecordLost`;
- the window (`WindowInv`): the process it shows is the one it started (`Owns`), a
  timer pending for the present run means that its end was asked for (`Asked`), and
  what it shows, and each event still in the pipe, is true of the run; a scan still at
  work has announced no end (`Shows`, `TrueOf`). `Asked` needs that a run number never
  comes back, for a timer outlives the run it was set for;
- the quiz (`QuizInv`): the questions in the pipe are the last `k` asked (`Unread`),
  and a question shown is answered by one click. `AtMostOneAhead` follows.

A step of a process touches the window only through its pipe, and `Moves`,
`PictureKept` and `QuizStands` say so once for all actions of `ScanWorker`.

Only model-checked: the liveness properties `WaiterServed`, `PendingSettles`,
`RestoreIsLearned`, `EveryRowCompletes`, `ScanEnds`, `CancelEnds` and
`PanelCatchesUp`, which are out of the prover's reach. Not attempted: facts that need
induction over data.

## The plan

Every safety property that a passing run checks, both refinements and both action
properties are proved. Lemmas that several proof modules now state each for itself
(what a listing, a step on one message or an appended record leaves alone) could move
to a module of their own.

To be modelled, if a question asks for it: two overlapping runs of one ledger
(terminal commands take no lock), two scan profiles of one account, the policy's
decision ladder and the governor's counts as operators against reference
definitions.

## Not modelled

- The policy ladder, similarity, signal extraction and the model itself are data
  whose outcome the modules take as arbitrary within what the code accepts.
- Which families the governor or the drift withholds: arithmetic on counts.
- Two overlapping terminal runs, and two windows: `ShadowRun` is at the size TLC can
  check with one run.
- Windows' branch of the lock, the text of the scheduler definitions, the OAuth
  protocol inside a consent (PKCE, token exchange, refresh): library calls whose
  failure is a failed consent or a failed run.
- Widgets, wording, estimates, model download and evaluation, the threat backtest,
  text sanitising and TLS trust: no state the cleanup depends on.
