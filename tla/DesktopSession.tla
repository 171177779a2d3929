---------------------------- MODULE DesktopSession ----------------------------
(***************************************************************************)
(* The desktop window over its worker process, beside the scheduled run of *)
(* the same account (desktop_app.SettingsWindow).  The window starts one   *)
(* local process at a time, reads its events, may cancel it, is told when  *)
(* it ends, and watches the diagnostics file for runs it did not start.    *)
(***************************************************************************)
EXTENDS QuizBridge

CONSTANTS MaxRuns,    \* bound: operations started, by the window or the scheduler
          MaxMishaps  \* bound: lost answers, exceptions, hangs and crashes

ASSUME SessionAssumption == {MaxRuns, MaxMishaps} \subseteq Nat

VARIABLES window,   \* operation, its run, terminal event seen, outcome shown;
                    \* history: the user asked to stop it, a force stop ended it
          timers,   \* runs whose three-second force stop is pending
          panel,    \* the operational panel: file version known, version shown
          mishaps   \* how many have happened

windowVars == <<window, timers, panel>>
vars == <<workerVars, quizVars, windowVars, mishaps>>

\* _ledger_state: what identifies the diagnostics file, 0 when there is none.
Version == Len(appended)

Init ==
    /\ WorkerInit
    /\ QuizInit
    /\ window = [op |-> "none", run |-> 0, receipt |-> FALSE, outcome |-> "none",
                 asked |-> FALSE, forced |-> FALSE]
    /\ timers = {}
    /\ panel = [known |-> Version, shown |-> Version]
    /\ mishaps = 0

\* _refresh_operational_status: any refresh becomes the baseline.
Refreshed == [known |-> Version, shown |-> Version]

\* _start_scan, _start_quiz, _start_shadow_review: one process at a time.
StartLocalProcess(op) ==
    /\ window.op = "none"
    /\ Len(effects) < MaxRuns
    /\ \E unlimited \in {op = "scan" /\ "desktop" \in Unlimited, FALSE} :
           StartJob("desktop", op, unlimited)
    /\ window' = [op |-> op, run |-> Len(effects) + 1, receipt |-> FALSE,
                  outcome |-> IF op = "scan" THEN "Scan in progress" ELSE "No email changed",
                  asked |-> FALSE, forced |-> FALSE]
    /\ IF op = "quiz" THEN OpenDialog ELSE UNCHANGED quizVars
    /\ UNCHANGED <<timers, panel>>

\* _process_error, FailedToStart: the program never ran.
StartFails ==
    /\ window.op # "none"
    /\ job["desktop"].pc = "booting"
    /\ job' = [job EXCEPT !["desktop"] = NoJob]
    /\ window' = [window EXCEPT !.op = "none", !.outcome = "No email changed"]
    /\ EndDialog
    /\ UNCHANGED <<lock, fresh, log, logLock, pipe, effects, appended>>
    /\ UNCHANGED <<timers, panel>>

\* What the window shows for a terminal event of a scan; a quiz changes no mail.
ShownFor(event) ==
    CASE window.op # "scan" -> "No email changed"
      [] event.outcome = "changed" -> "Mailbox actions completed"
      [] event.outcome = "unchanged" -> "No email changed"
      [] event.outcome = "unknown" -> "Outcome to verify"

(***************************************************************************)
(* _consume_process_output and _handle_worker_event, one event at a time.  *)
(***************************************************************************)
HandleEvent ==
    /\ window.op # "none"
    /\ pipe # <<>>
    /\ pipe' = Tail(pipe)
    /\ LET event == Head(pipe) IN
         IF event.type = "candidate"
         THEN ShowCandidate(event.question) /\ UNCHANGED window
         ELSE /\ window' = [window EXCEPT !.receipt = TRUE, !.outcome = ShownFor(event)]
              /\ CASE window.op = "scan" -> UNCHANGED quizVars
                   [] event.type = "completed" -> ShowSummary
                   [] event.type = "failed" -> CloseDialog
                   [] event.type = "cancelled" -> UNCHANGED quizVars
    /\ UNCHANGED <<job, lock, fresh, log, logLock, effects, appended>>
    /\ UNCHANGED <<timers, panel>>

(***************************************************************************)
(* _process_finished: what is left in the pipe is read first.  A scan that *)
(* ended without a terminal event, and not with exit code 130, is shown as *)
(* an outcome to verify.                                                   *)
(***************************************************************************)
Finished ==
    /\ window.op # "none"
    /\ job["desktop"].pc = "gone"
    /\ pipe = <<>>
    /\ window' = [window EXCEPT !.op = "none", !.receipt = FALSE,
                    !.asked = FALSE, !.forced = FALSE,
                    !.outcome = IF ~window.receipt /\ job["desktop"].status # "cancelled"
                                   /\ window.op = "scan"
                                THEN "Outcome to verify" ELSE @]
    /\ job' = [job EXCEPT !["desktop"] = NoJob]
    /\ panel' = Refreshed
    /\ EndDialog
    /\ UNCHANGED <<lock, fresh, log, logLock, pipe, effects, appended>>
    /\ UNCHANGED timers

\* Mutant: the process is only asked to stop.
CancelPolitely ==
    /\ window.op # "none"
    /\ Terminate("desktop")
    /\ window' = [window EXCEPT !.asked = TRUE]
    /\ \/ UNCHANGED quizVars
       \/ dialog.open /\ CloseDialog
    /\ UNCHANGED <<timers, panel>>

(***************************************************************************)
(* _cancel_operation: SIGTERM to the process tree now, and in three        *)
(* seconds a force stop if the same process is still there.  Closing the   *)
(* quiz dialog does the same.                                              *)
(***************************************************************************)
Cancel ==
    /\ window.op # "none"
    /\ Terminate("desktop")
    /\ timers' = timers \cup {window.run}
    /\ window' = [window EXCEPT !.asked = TRUE]
    /\ \/ UNCHANGED quizVars
       \/ dialog.open /\ CloseDialog
    /\ UNCHANGED panel

\* Mutant: the timer stops whatever process the window has by then.
ForceStopAny(run) ==
    /\ run \in timers
    /\ timers' = timers \ {run}
    /\ IF window.op # "none" /\ job["desktop"].pc \in Alive
       THEN Die("desktop") /\ window' = [window EXCEPT !.forced = TRUE]
       ELSE UNCHANGED <<workerVars, window>>
    /\ UNCHANGED quizVars
    /\ UNCHANGED panel

\* _force_stop_process: only if the window still has that very process.
ForceStop(run) ==
    /\ run \in timers
    /\ timers' = timers \ {run}
    /\ IF window.op # "none" /\ window.run = run /\ job["desktop"].pc \in Alive
       THEN Die("desktop") /\ window' = [window EXCEPT !.forced = TRUE]
       ELSE UNCHANGED <<workerVars, window>>
    /\ UNCHANGED quizVars
    /\ UNCHANGED panel

\* Mutant: the watcher does not look while a run of another process goes on.
PollIdle ==
    /\ window.op = "none"
    /\ lock = NoProcess
    /\ Version # panel.known
    /\ panel' = IF panel.known # 0 THEN [panel EXCEPT !.known = Version] ELSE Refreshed
    /\ UNCHANGED workerVars
    /\ UNCHANGED quizVars
    /\ UNCHANGED <<window, timers>>

(***************************************************************************)
(* _poll_finished_background_run: when the diagnostics file has changed    *)
(* since the last look, and there was one before, the panel is refreshed.  *)
(***************************************************************************)
Poll ==
    /\ window.op = "none"
    /\ Version # panel.known
    /\ panel' = IF panel.known = 0 THEN [panel EXCEPT !.known = Version] ELSE Refreshed
    /\ UNCHANGED workerVars
    /\ UNCHANGED quizVars
    /\ UNCHANGED <<window, timers>>

\* The native scheduler starts the account's run, with either kind of batch.
StartScheduledRun ==
    /\ Len(effects) < MaxRuns
    /\ \E unlimited \in {"scheduled" \in Unlimited, FALSE} :
           StartJob("scheduled", "scan", unlimited)
    /\ UNCHANGED quizVars
    /\ UNCHANGED <<window, timers, panel>>

\* The user clicks one of the three buttons of the dialog.
GiveAnswer ==
    /\ window.op = "quiz"
    /\ Answer
    /\ UNCHANGED workerVars
    /\ UNCHANGED windowVars

\* One step of a process, which the window does not see by itself.
ProcessStep(p) == (Work(p) \/ Affect(p)) /\ UNCHANGED <<quizVars, windowVars>>

QuizStep == AskQuestions /\ UNCHANGED windowVars

Step ==
    \/ \E op \in {"scan", "quiz"} : StartLocalProcess(op)
    \/ HandleEvent
    \/ Finished
    \/ Cancel
    \/ \E run \in timers : ForceStop(run)
    \/ Poll
    \/ StartScheduledRun
    \/ GiveAnswer
    \/ \E p \in Processes : ProcessStep(p)
    \/ QuizStep

Unlucky ==
    \/ StartFails
    \/ \E p \in Processes : Mishap(p) /\ UNCHANGED <<quizVars, windowVars>>

Next ==
    \/ Step /\ UNCHANGED mishaps
    \/ Unlucky /\ mishaps < MaxMishaps /\ mishaps' = mishaps + 1

(***************************************************************************)
(* A process that is not stuck goes on, the window's event loop delivers   *)
(* events, timers and the end of its process, and the watch timer fires.   *)
(* Nothing is assumed of the user, of faults or of the scheduler.          *)
(***************************************************************************)
Fairness ==
    /\ \A p \in Processes : WF_vars(Work(p) /\ UNCHANGED <<quizVars, windowVars, mishaps>>)
    /\ WF_vars(QuizStep /\ UNCHANGED mishaps)
    /\ WF_vars(HandleEvent /\ UNCHANGED mishaps)
    /\ WF_vars(Finished /\ UNCHANGED mishaps)
    /\ WF_vars((\E run \in timers : ForceStop(run)) /\ UNCHANGED mishaps)
    /\ WF_vars(Poll /\ UNCHANGED mishaps)

Spec == Init /\ [][Next]_vars
FairSpec == Spec /\ Fairness

-----------------------------------------------------------------------------
(***************************************************************************)
(* The type invariant, with what ties the processes to the lock: an        *)
(* operation is under way only inside it, and the pipe is the window's.    *)
(***************************************************************************)
TypeOK ==
    /\ \A p \in Processes :
         /\ job[p].pc \in Alive \cup {"none", "gone"}
         /\ job[p].pc \in Working \ {"startup"} => lock = p
         /\ job[p].run \in Runs \cup {0}
         /\ job[p].chunk \in 0..(Fresh + Unclassifiable)
    /\ lock \in Processes \cup {NoProcess}
    /\ fresh \in 0..Fresh
    /\ Len(log) <= MaxRecords
    /\ pipe # <<>> => window.op # "none"
    /\ window.op \in {"none", "scan", "quiz"}
    /\ timers \subseteq Runs
    /\ panel.shown <= panel.known /\ panel.known <= Version
    /\ asked \in 0..Questions /\ Len(answers) <= asked

\* Nothing was done to the mailbox that the run could know of.
Untouched(run) == effects[run] # "changed"

(***************************************************************************)
(* Neither the window nor the diagnostics file says that a scan left the   *)
(* mailbox unchanged when it did not, however the run ended: through       *)
(* chunks, exceptions, a cancel, a force stop or a crash at any point.     *)
(* The one exception is a threat marker whose answer was lost.             *)
(***************************************************************************)
ReceiptsNeverUnderstate ==
    /\ window.outcome = "No email changed" /\ window.run # 0 => Untouched(window.run)
    /\ \A i \in DOMAIN appended :
         appended[i].outcome = "unchanged" /\ appended[i].run # 0
             => Untouched(appended[i].run)

(***************************************************************************)
(* Two processes append to one diagnostics file by reading it whole and    *)
(* replacing it: no record of either is lost but by age.                   *)
(***************************************************************************)
NoRecordLost ==
    LET n == Len(appended)
    IN log = SubSeq(appended, IF n < MaxRecords THEN 1 ELSE n - MaxRecords + 1, n)

(***************************************************************************)
(* A force stop ends only a run the user asked to stop, never the next one *)
(* the window has started before the three seconds were over.              *)
(***************************************************************************)
ForcedWasAsked == window.forced => window.asked

(***************************************************************************)
(* An answer is stored for the question the user was shown or for the next *)
(* one, never further off: one click, one answer.                          *)
(***************************************************************************)
AtMostOneAhead ==
    \A i \in DOMAIN answers : answers[i] \in {i - 1, i}

(***************************************************************************)
(* A scan the window started comes to its end, unless the process hangs:   *)
(* an unlimited session too, which goes on until a chunk is short, if the  *)
(* messages the model keeps failing on are fewer than a chunk.             *)
(***************************************************************************)
ScanEnds ==
    window.op = "scan" ~> window.op # "scan" \/ job["desktop"].pc = "hung"

(***************************************************************************)
(* An operation the user stops leaves the window, even if it hangs.        *)
(***************************************************************************)
CancelEnds ==
    window.op # "none" /\ window.asked ~> window.op = "none"

(***************************************************************************)
(* The panel comes to show what a run in another process has recorded,     *)
(* without a restart, whenever the window is not busy itself.              *)
(***************************************************************************)
PanelCatchesUp ==
    panel.shown # Version ~> panel.shown = Version \/ window.op # "none"
=============================================================================
