------------------------------ MODULE QuizBridge ------------------------------
(***************************************************************************)
(* The calibration quiz and the review of filter proposals: the worker's   *)
(* side (gui_bridge.py) and the dialog's (desktop_app.QuizDialog).  The    *)
(* worker writes one question, waits for one answer and stores it; the     *)
(* dialog shows what it reads and writes what the user clicks.  A question *)
(* is its position; an answer is the question the user was looking at.     *)
(***************************************************************************)
EXTENDS ScanWorker

CONSTANT Questions  \* how many candidates prepare_quiz or a review offers

ASSUME QuestionsAssumption == Questions \in Nat

VARIABLES asked,    \* questions the worker has written
          stdin,    \* answers it has not read
          answers,  \* answers it has stored, in order
          dialog    \* open, whether its buttons are enabled, what it shows

quizVars == <<asked, stdin, answers, dialog>>

NoDialog == [open |-> FALSE, enabled |-> FALSE, shown |-> 0]

QuizInit ==
    /\ asked = 0
    /\ stdin = <<>>
    /\ answers = <<>>
    /\ dialog = NoDialog

\* QuizDialog(): three buttons, which Qt creates enabled.
OpenDialog ==
    /\ asked' = 0
    /\ stdin' = <<>>
    /\ answers' = <<>>
    /\ dialog' = [open |-> TRUE, enabled |-> TRUE, shown |-> 0]

\* The worker writes the next candidate and waits.
Ask ==
    /\ job["desktop"].pc = "asking"
    /\ asked < Questions
    /\ asked' = asked + 1
    /\ pipe' = Append(pipe, Event("candidate", "none", asked + 1))
    /\ Goto("desktop", "reading")
    /\ UNCHANGED <<lock, fresh, log, logLock, effects, appended>>
    /\ UNCHANGED <<stdin, answers, dialog>>

\* _read_answer, then quiz.answer(candidate, answer).
StoreAnswer ==
    /\ job["desktop"].pc = "reading"
    /\ stdin # <<>>
    /\ answers' = Append(answers, Head(stdin))
    /\ stdin' = Tail(stdin)
    /\ Goto("desktop", "asking")
    /\ UNCHANGED <<lock, fresh, log, logLock, pipe, effects, appended>>
    /\ UNCHANGED <<asked, dialog>>

EndQuestions ==
    /\ job["desktop"].pc = "asking"
    /\ asked = Questions
    /\ job' = [job EXCEPT !["desktop"].pc = "telling", !["desktop"].status = "completed"]
    /\ UNCHANGED <<lock, fresh, log, logLock, pipe, effects, appended>>
    /\ UNCHANGED quizVars

AskQuestions == Ask \/ StoreAnswer \/ EndQuestions

\* show_candidate: a closed dialog is shown again.
ShowCandidate(question) ==
    /\ dialog' = [open |-> TRUE, enabled |-> TRUE, shown |-> question]
    /\ UNCHANGED <<asked, stdin, answers>>

\* show_summary.
ShowSummary ==
    /\ dialog' = [dialog EXCEPT !.enabled = FALSE]
    /\ UNCHANGED <<asked, stdin, answers>>

\* Mutant: the buttons stay enabled after a click.
AnswerAgain ==
    /\ dialog.open
    /\ dialog.enabled
    /\ Len(stdin) < 3
    /\ stdin' = Append(stdin, dialog.shown)
    /\ UNCHANGED <<asked, answers, dialog>>

\* _answer: the buttons are disabled and the answer is written to the worker.
Answer ==
    /\ dialog.open
    /\ dialog.enabled
    /\ stdin' = Append(stdin, dialog.shown)
    /\ dialog' = [dialog EXCEPT !.enabled = FALSE]
    /\ UNCHANGED <<asked, answers>>

\* The process is over: what the dialog still shows is read by nobody.
EndDialog ==
    /\ asked' = 0
    /\ stdin' = <<>>
    /\ answers' = <<>>
    /\ dialog' = NoDialog

CloseDialog ==
    /\ dialog' = NoDialog
    /\ UNCHANGED <<asked, stdin, answers>>
=============================================================================
