---------------------------- MODULE OrdinaryFilter ----------------------------
(***************************************************************************)
(* The filter as it is without the lifecycle graph: a run decides some     *)
(* messages and carries the decisions out, or is lost.  All the evidence   *)
(* of closure may ever change is a REVIEW it finds no protection for, and  *)
(* only into the reversible quarantine.                                    *)
(***************************************************************************)
CONSTANTS Messages, NoDecision

VARIABLES decision,  \* what the run in progress decided about each message
          final      \* what the last run made of each message

vars == <<decision, final>>

Actions == {"keep", "review", "quarantine"}
Decisions == {d \in [action : Actions, hard : BOOLEAN] : d.hard => d.action # "quarantine"}
Outcomes == {"none", "keep", "review", "quarantine", "trash"}

Init == /\ decision = [m \in Messages |-> NoDecision]
        /\ final = [m \in Messages |-> "none"]

Idle == \A m \in Messages : decision[m] = NoDecision

Decide == /\ Idle
          /\ decision' \in [Messages -> Decisions \cup {NoDecision}]
          /\ final' = [m \in Messages |-> "none"]

\* Where a message goes when closure evidence may lift it, and when not.
Lifted(d, trash) ==
    IF d.action = "review" /\ ~d.hard /\ ~trash THEN {"review", "quarantine"}
    ELSE {IF d.action = "quarantine" /\ trash THEN "trash" ELSE d.action}

CarryOut(trash) ==
            /\ ~Idle
            /\ decision' = [m \in Messages |-> NoDecision]
            /\ \A m \in Messages :
                 final'[m] \in IF decision[m] = NoDecision THEN {"none"} ELSE Lifted(decision[m], trash)
            /\ final' \in [Messages -> Outcomes]

Lose == decision' = [m \in Messages |-> NoDecision] /\ UNCHANGED final

Next == Decide \/ (\E trash \in BOOLEAN : CarryOut(trash)) \/ Lose

Spec == Init /\ [][Next]_vars
=============================================================================
