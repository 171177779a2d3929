------------------------------ MODULE ScanWorker ------------------------------
(***************************************************************************)
(* An operation in a process of its own: the desktop worker                *)
(* (desktop_worker.main) and the scheduled run (scheduled_run.main), which *)
(* share the account lock, the mailbox and the diagnostics file            *)
(* (diagnostics.append_diagnostic).  What one gmail_shadow_run or          *)
(* yahoo_shadow_run does is the subject of ShadowRun and YahooRun; here it *)
(* is a chunk that classifies some messages and may change the mailbox.    *)
(* The lock's own steps are in OperationLock, and the questions of a quiz  *)
(* in QuizBridge.                                                          *)
(***************************************************************************)
EXTENDS Integers, Sequences

CONSTANTS Limit,           \* the batch of a session that has one
          ChunkSize,       \* UNLIMITED_SCAN_CHUNK_SIZE
          Fresh,           \* eligible messages the model can classify
          Unclassifiable,  \* eligible messages the model keeps failing on
          MaxRecords,      \* MAX_DIAGNOSTIC_RECORDS
          Unlimited,       \* bound: the processes that may scan without a limit
          FirstRecords     \* records already in the diagnostics file

ASSUME WorkerAssumption ==
    /\ {Limit, ChunkSize, MaxRecords} \subseteq Nat \ {0}
    /\ {Fresh, Unclassifiable} \subseteq Nat
    /\ FirstRecords \in 0..MaxRecords
    /\ Unlimited \subseteq {"desktop", "scheduled"}

Processes == {"desktop", "scheduled"}
NoProcess == "nobody"

VARIABLES job,      \* per process, the operation it runs
          lock,     \* the process inside the account's operation lock
          fresh,    \* eligible classifiable messages not yet processed
          log,      \* the diagnostics file
          logLock,  \* the process inside the lock of that file
          pipe,     \* the desktop worker's events the window has not read
          \* history, written and never read by the actions
          effects,  \* per run, a number, the most it did to the mailbox
          appended  \* every record ever appended

workerVars == <<job, lock, fresh, log, logLock, pipe, effects, appended>>

NoJob == [pc |-> "none", kind |-> "none", run |-> 0, unlimited |-> FALSE,
          chunk |-> 0, mutating |-> FALSE, applied |-> FALSE,
          changed |-> FALSE, status |-> "none", draft |-> <<>>]

\* Events the window acts on; phases and progress only move its progress bar.
Event(type, outcome, question) ==
    [type |-> type, outcome |-> outcome, question |-> question]

Record(run, status, outcome) == [run |-> run, status |-> status, outcome |-> outcome]

EarlierLog == [i \in 1..FirstRecords |-> Record(0, "completed", "unchanged")]

WorkerInit ==
    /\ job = [p \in Processes |-> NoJob]
    /\ lock = NoProcess
    /\ fresh = Fresh
    /\ log = EarlierLog
    /\ logLock = NoProcess
    /\ pipe = <<>>
    /\ effects = <<>>
    /\ appended = EarlierLog

Runs == 1..Len(effects)

\* From the SIGTERM handler's installation to the last of the work.
Working == {"startup", "classification", "mailbox_actions", "raising",
            "asking", "reading"}
Reporting == {"recording", "replacing", "telling", "leaving"}
Alive == Working \cup Reporting \cup {"booting", "hung"}

-----------------------------------------------------------------------------
(***************************************************************************)
(* What a run says of itself.                                              *)
(***************************************************************************)
\* terminal_scan_receipt, for a scan that did not reach its summary.
TerminalOutcome(j) == IF j.mutating THEN "unknown" ELSE "unchanged"

\* _merged_unlimited_summary: changes_mailbox is any() over the chunks.
Merged(j) == j.changed \/ j.applied

\* diagnostic_from_summary, and the window's reading of the same summary.
CompletedOutcome(j) == IF j.changed THEN "changed" ELSE "unchanged"

Outcome(j) ==
    IF j.kind # "scan" THEN "none"
    ELSE IF j.status = "completed" THEN CompletedOutcome(j) ELSE TerminalOutcome(j)

\* Mutant: prior[-MAX_DIAGNOSTIC_RECORDS:] and the new record.
RetainedOneMore(records, record) ==
    LET first == IF Len(records) < MaxRecords THEN 1 ELSE Len(records) - MaxRecords + 1
    IN Append(SubSeq(records, first, Len(records)), record)

\* prior[-(MAX_DIAGNOSTIC_RECORDS - 1):] and the new record.
Retained(records, record) ==
    LET first == IF Len(records) < MaxRecords THEN 1 ELSE Len(records) - MaxRecords + 2
    IN Append(SubSeq(records, first, Len(records)), record)

-----------------------------------------------------------------------------
(***************************************************************************)
(* The operation.                                                          *)
(***************************************************************************)
Goto(p, pc) == job' = [job EXCEPT ![p].pc = pc]

StartJob(p, kind, unlimited) ==
    /\ job[p].pc = "none"
    /\ job' = [job EXCEPT ![p] = [NoJob EXCEPT !.pc = "booting", !.kind = kind,
                                  !.run = Len(effects) + 1, !.unlimited = unlimited]]
    /\ effects' = Append(effects, "none")
    /\ UNCHANGED <<lock, fresh, log, logLock, pipe, appended>>

\* main: arguments parsed; the desktop worker installs its SIGTERM handler.
Boot(p) ==
    /\ job[p].pc = "booting"
    /\ Goto(p, "startup")
    /\ UNCHANGED <<lock, fresh, log, logLock, pipe, effects, appended>>

\* The lock is granted and the first phase is announced.
EnterLock(p) ==
    /\ job[p].pc = "startup"
    /\ lock = NoProcess
    /\ lock' = p
    /\ Goto(p, IF job[p].kind = "scan" THEN "classification" ELSE "asking")
    /\ UNCHANGED <<fresh, log, logLock, pipe, effects, appended>>

Smaller(a, b) == IF a < b THEN a ELSE b

\* The messages one run takes: its limit, or one chunk of an unlimited session.
Batch(j) == Smaller(IF j.unlimited THEN ChunkSize ELSE Limit, fresh + Unclassifiable)

\* Mutant: the phase callback does not note that mailbox actions begin.
AnalyseSilently(p) ==
    /\ job[p].pc = "classification"
    /\ \E f \in 0..Smaller(fresh, Batch(job[p])) :
         /\ Batch(job[p]) - f <= Unclassifiable
         /\ fresh' = fresh - f
    /\ job' = [job EXCEPT ![p].pc = "mailbox_actions", ![p].chunk = Batch(job[p])]
    /\ UNCHANGED <<lock, log, logLock, pipe, effects, appended>>

(***************************************************************************)
(* A batch is classified, examined and marked complete, except for what    *)
(* the model could not classify, which stays eligible.  Then phase() notes *)
(* that mailbox actions begin, before the first of them.                   *)
(***************************************************************************)
Analyse(p) ==
    /\ job[p].pc = "classification"
    /\ \E f \in 0..Smaller(fresh, Batch(job[p])) :
         /\ Batch(job[p]) - f <= Unclassifiable
         /\ fresh' = fresh - f
    /\ job' = [job EXCEPT ![p].pc = "mailbox_actions", ![p].chunk = Batch(job[p]),
                          ![p].mutating = TRUE]
    /\ UNCHANGED <<lock, log, logLock, pipe, effects, appended>>

\* A provider call changes the mailbox and says so.
Affect(p) ==
    /\ job[p].pc = "mailbox_actions"
    /\ job' = [job EXCEPT ![p].applied = TRUE]
    /\ effects' = [effects EXCEPT ![job[p].run] = "changed"]
    /\ UNCHANGED <<lock, fresh, log, logLock, pipe, appended>>

\* It changes the mailbox and its answer is lost: for a move, an exception.
LoseAnswer(p) ==
    /\ job[p].pc = "mailbox_actions"
    /\ effects' = [effects EXCEPT ![job[p].run] = "changed"]
    /\ Goto(p, "raising")
    /\ UNCHANGED <<lock, fresh, log, logLock, pipe, appended>>

\* _apply_visible_threat_markers counts a lost answer as a failure and goes on.
LoseMarker(p) ==
    /\ job[p].pc = "mailbox_actions"
    /\ effects[job[p].run] = "none"
    /\ effects' = [effects EXCEPT ![job[p].run] = "marked"]
    /\ UNCHANGED <<job, lock, fresh, log, logLock, pipe, appended>>

\* Mutant: the loop stops at a chunk that is short by two.
EndChunkLate(p) ==
    /\ job[p].pc = "mailbox_actions"
    /\ job' = [job EXCEPT ![p].changed = Merged(job[p]),
                 ![p].chunk = 0, ![p].applied = FALSE,
                 ![p].pc = IF job[p].unlimited /\ job[p].chunk >= ChunkSize - 1
                           THEN "classification" ELSE "recording",
                 ![p].status = IF job[p].unlimited /\ job[p].chunk >= ChunkSize - 1
                               THEN "none" ELSE "completed"]
    /\ UNCHANGED <<lock, fresh, log, logLock, pipe, effects, appended>>

(***************************************************************************)
(* The run returns its summary.  An unlimited session takes another chunk  *)
(* unless this one was short, and merges the summaries; newly_processed    *)
(* counts the batch, classified or not.                                    *)
(***************************************************************************)
EndChunk(p) ==
    /\ job[p].pc = "mailbox_actions"
    /\ job' = [job EXCEPT ![p].changed = Merged(job[p]),
                 ![p].chunk = 0, ![p].applied = FALSE,
                 ![p].pc = IF job[p].unlimited /\ job[p].chunk >= ChunkSize
                           THEN "classification" ELSE "recording",
                 ![p].status = IF job[p].unlimited /\ job[p].chunk >= ChunkSize
                               THEN "none" ELSE "completed"]
    /\ UNCHANGED <<lock, fresh, log, logLock, pipe, effects, appended>>

-----------------------------------------------------------------------------
(***************************************************************************)
(* Its end.  Leaving the lock's block, on whatever path, releases the lock *)
(* (the progress a scheduled run publishes for display is left out).       *)
(***************************************************************************)
LeaveLock(p) == lock' = IF lock = p THEN NoProcess ELSE lock

LeaveLogLock(p) ==
    logLock' = IF logLock = p THEN NoProcess ELSE logLock

\* Unwind to the except clause: a status is due; a quiz keeps no record.
Unwind(p, status) ==
    /\ job' = [job EXCEPT ![p].status = status, ![p].draft = <<>>,
                 ![p].pc = IF job[p].kind = "scan" THEN "recording" ELSE "telling"]
    /\ LeaveLock(p)
    /\ LeaveLogLock(p)
    /\ UNCHANGED <<fresh, log, pipe, effects, appended>>

\* Any exception may end the work; a lost answer and a refused lock do.
Fail(p) == job[p].pc \in Working /\ Unwind(p, "failed")

Raise(p) ==
    /\ job[p].pc = "raising" \/ (job[p].pc = "startup" /\ lock # NoProcess)
    /\ Unwind(p, "failed")

Successor(p) == Retained(log, Record(job[p].run, job[p].status, Outcome(job[p])))

\* Mutant: the file is read before its lock is asked for.
OpenLogUnlocked(p) ==
    /\ job[p].pc = "recording"
    /\ logLock' = p
    /\ job' = [job EXCEPT ![p].pc = "replacing", ![p].draft = Successor(p)]
    /\ UNCHANGED <<lock, fresh, log, pipe, effects, appended>>

\* append_diagnostic: under the file's lock, read it and write its successor ...
OpenLog(p) ==
    /\ job[p].pc = "recording"
    /\ logLock = NoProcess
    /\ logLock' = p
    /\ job' = [job EXCEPT ![p].pc = "replacing", ![p].draft = Successor(p)]
    /\ UNCHANGED <<lock, fresh, log, pipe, effects, appended>>

\* ... which then takes its place in one rename.
ReplaceLog(p) ==
    /\ job[p].pc = "replacing"
    /\ log' = job[p].draft
    /\ appended' = Append(appended, job[p].draft[Len(job[p].draft)])
    /\ LeaveLogLock(p)
    /\ job' = [job EXCEPT ![p].pc = "telling", ![p].draft = <<>>]
    /\ UNCHANGED <<lock, fresh, pipe, effects>>

\* A record that cannot be written is given up; the run's outcome is the same.
RecordFails(p) ==
    /\ job[p].pc \in {"recording", "replacing"}
    /\ LeaveLogLock(p)
    /\ job' = [job EXCEPT ![p].pc = "telling", ![p].draft = <<>>]
    /\ UNCHANGED <<lock, fresh, log, pipe, effects, appended>>

\* write_event(summary) or _write_terminal_worker_event.
Tell(p) ==
    /\ job[p].pc = "telling"
    /\ pipe' = IF p = "desktop"
               THEN Append(pipe, Event(job[p].status, Outcome(job[p]), 0))
               ELSE pipe
    /\ Goto(p, "leaving")
    /\ UNCHANGED <<lock, fresh, log, logLock, effects, appended>>

\* The process is no more; the window is still to learn of its own.
End(p, status) ==
    job' = [job EXCEPT ![p] = IF p = "desktop"
                              THEN [NoJob EXCEPT !.pc = "gone", !.status = status]
                              ELSE NoJob]

\* The process returns its exit code; nobody waits for a scheduled run.
Leave(p) ==
    /\ job[p].pc = "leaving"
    /\ LeaveLock(p)
    /\ End(p, job[p].status)
    /\ UNCHANGED <<fresh, log, logLock, pipe, effects, appended>>

\* A call into native code that never returns: Python handles no signal.
Hang(p) ==
    /\ job[p].pc \in {"classification", "asking"}
    /\ Goto(p, "hung")
    /\ UNCHANGED <<lock, fresh, log, logLock, pipe, effects, appended>>

\* The process ends at once; the kernel releases its locks.
Die(p) ==
    /\ job[p].pc \in Alive
    /\ End(p, "killed")
    /\ lock' = IF lock = p THEN NoProcess ELSE lock
    /\ LeaveLogLock(p)
    /\ UNCHANGED <<fresh, log, pipe, effects, appended>>

(***************************************************************************)
(* SIGTERM.  The desktop worker turns it into KeyboardInterrupt, which is  *)
(* handled once: before the handler is installed, or while an end is being *)
(* reported already, it ends the process.                                  *)
(***************************************************************************)
Terminate(p) ==
    \/ /\ job[p].pc \in Working \/ (job[p].pc \in Reporting /\ job[p].status = "completed")
       /\ Unwind(p, "cancelled")
    \/ /\ job[p].pc = "booting" \/ (job[p].pc \in Reporting /\ job[p].status # "completed")
       /\ Die(p)
    \/ /\ job[p].pc \notin Alive \ {"hung"}
       /\ UNCHANGED workerVars

Work(p) ==
    \/ Boot(p) \/ EnterLock(p) \/ Analyse(p) \/ EndChunk(p)
    \/ Raise(p) \/ OpenLog(p) \/ ReplaceLog(p) \/ Tell(p) \/ Leave(p)

\* What may happen to a process and is nobody's wish.
Mishap(p) ==
    LoseAnswer(p) \/ LoseMarker(p) \/ Fail(p) \/ RecordFails(p) \/ Hang(p) \/ Die(p)
=============================================================================
