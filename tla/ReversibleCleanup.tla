--------------------------- MODULE ReversibleCleanup ---------------------------
(***************************************************************************)
(* What the cleanup promises, whatever scans, models, crashes and users    *)
(* do: a move is asked of Gmail only for a message that stands proposed at *)
(* that moment, one message at a time, once per request; a message with a  *)
(* recorded outcome is settled and is never asked about again.             *)
(***************************************************************************)
EXTENDS Naturals

CONSTANTS Messages, Nothing

VARIABLES standing,  \* per message: "open", "proposed", "protected", "settled"
          request,   \* the message being moved, or Nothing
          answered,  \* whether Gmail has moved it for this request
          moved      \* per message, how often Gmail has moved it

vars == <<standing, request, answered, moved>>

Standings == {"open", "proposed", "protected", "settled"}

Init ==
    /\ standing = [m \in Messages |-> "open"]
    /\ request = Nothing
    /\ answered = FALSE
    /\ moved = [m \in Messages |-> 0]

\* Scans, assessments, proofs, policies and answers change what is proposed.
Reconsider ==
    /\ standing' \in [Messages -> Standings]
    /\ \A m \in Messages : standing[m] = "settled" <=> standing'[m] = "settled"
    /\ UNCHANGED <<request, answered, moved>>

Ask(m) ==
    /\ request = Nothing
    /\ standing[m] = "proposed"
    /\ request' = m
    /\ UNCHANGED <<standing, answered, moved>>

Answer ==
    /\ request # Nothing
    /\ ~answered
    /\ answered' = TRUE
    /\ moved' = [moved EXCEPT ![request] = @ + 1]
    /\ UNCHANGED <<standing, request>>

Settle ==
    /\ request # Nothing
    /\ standing' = [standing EXCEPT ![request] = "settled"]
    /\ request' = Nothing
    /\ answered' = FALSE
    /\ UNCHANGED moved

\* The run ends first; Gmail may have moved the message all the same.
Abandon ==
    /\ request # Nothing
    /\ request' = Nothing
    /\ answered' = FALSE
    /\ \/ UNCHANGED moved
       \/ ~answered /\ moved' = [moved EXCEPT ![request] = @ + 1]
    /\ UNCHANGED standing

Next == Reconsider \/ (\E m \in Messages : Ask(m)) \/ Answer \/ Settle \/ Abandon

Spec == Init /\ [][Next]_vars
=============================================================================
