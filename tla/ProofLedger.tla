----------------------------- MODULE ProofLedger -----------------------------
(***************************************************************************)
(* LumeGraph and Proof of Obsolescence (lumegraph_runtime,                 *)
(* proof_of_obsolescence and their tables in learning): a run walks the    *)
(* batch it has just decided, records a node and the proofs of closure of  *)
(* each message, one transaction each, then lifts proven reviews into the  *)
(* quarantine.  A node is written once; messages arrive in any order; a    *)
(* run may end between two transactions; an exception inside the walk is   *)
(* swallowed with what is left of the batch.                               *)
(***************************************************************************)
EXTENDS Integers, FiniteSets

CONSTANTS
    Messages, NoMessage,
    Kind,          \* message -> "shipment", "order", "one_time_code", "promotion", "none"
    Week,          \* message -> the week bucket it was received in
    Related,       \* the orders and shipments that carry the same reference
    Supported,     \* the messages classified as advertising, social or spam
    Verdicts,      \* message -> what the policy may decide about it
    Limit,         \* messages per batch
    Graph,         \* whether runs build the graph: a subset of BOOLEAN
    NoDecision, NoNode,
    MaxMishaps     \* runs that die, errors of the database, answers the model fails to
                   \* give, rows opened again by a change of policy or a failed marker

Kinds == {"shipment", "order", "one_time_code", "promotion", "none"}

ASSUME LedgerAssumption ==
    /\ Kind \in [Messages -> Kinds] /\ Week \in [Messages -> Nat]
    /\ Related \subseteq {m \in Messages : Kind[m] \in {"shipment", "order"}}
    /\ Supported \subseteq Messages
    /\ Verdicts \in [Messages -> SUBSET [action : {"keep", "review", "quarantine"}, hard : BOOLEAN]]
    /\ \A m \in Messages : \A v \in Verdicts[m] : v.hard => v.action # "quarantine"
    /\ Limit \in Nat \ {0} /\ Graph \subseteq BOOLEAN
    /\ MaxMishaps \in Nat
    /\ IsFiniteSet(Messages) /\ NoMessage \notin Messages
    /\ NoDecision \notin [action : {"keep", "review", "quarantine"}, hard : BOOLEAN]
    /\ NoNode \notin {"open", "closed", "other"}

VARIABLES
    node,          \* lumegraph_node: what was observed of each message, once
    links,         \* lumegraph_transition: <<predecessor, successor>>
    proof,         \* obsolescence_proof: one row per message
    scanned,       \* the messages whose row is complete
    decision,      \* the decisions of the run in progress
    final,         \* what the last run made of each message
    stage, todo, at, useful,
    unread,        \* messages of the batch the local model gave no answer for
    mishaps

tables == <<node, links, proof>>
walk == <<stage, todo, at, useful>>
vars == <<tables, scanned, decision, final, walk, unread, mishaps>>

Filter == INSTANCE OrdinaryFilter

Stages == {"idle", "consensus", "node", "closure", "apply"}

\* What a node says to a proof: "open" is operational, active or pending; "closed" is
\* completed or replaced in so many words; "other" is neither, or seen without the
\* confidence a proof needs, or of evidentiary, personal or security utility, or
\* under a hard protection.
Nodes == {"open", "closed", "other"}

\* A row that is not verified reads as no row: NoProof is both.
NoProof == [witness |-> "none", source |-> NoMessage]
Verified(witness, source) == [witness |-> witness, source |-> source]
Proofs == [witness : {"none", "otp", "date", "consensus", "successor"},
           source : Messages \cup {NoMessage}]

Batch == {m \in Messages : decision[m] # NoDecision}
IsProven(m) == proof[m] # NoProof

Init == /\ node = [m \in Messages |-> NoNode]
        /\ links = {}
        /\ proof = [m \in Messages |-> NoProof]
        /\ scanned = {} /\ unread = {} /\ todo = {}
        /\ Filter!Init
        /\ stage = "idle" /\ at = NoMessage /\ useful = FALSE
        /\ mishaps = 0

(***************************************************************************)
(* The run up to the graph: what is read, and what the policy makes of it. *)
(***************************************************************************)
ScanBatch(batch, lost, graph) ==
    /\ stage = "idle"
    /\ batch # {} /\ Cardinality(batch) <= Limit /\ batch \cap scanned = {}
    /\ lost \subseteq batch
    /\ mishaps + Cardinality(lost) <= MaxMishaps
    /\ mishaps' = mishaps + Cardinality(lost)
    /\ \E v \in [batch -> UNION {Verdicts[m] : m \in batch}] :
         /\ \A m \in batch : v[m] \in Verdicts[m]
         /\ \A m \in lost : v[m].action # "quarantine"
         /\ decision' = [m \in Messages |-> IF m \in batch THEN v[m] ELSE NoDecision]
    /\ unread' = lost
    /\ stage' = IF graph THEN "consensus" ELSE "apply"
    /\ todo' = IF graph THEN batch ELSE {}
    /\ final' = [m \in Messages |-> "none"]
    /\ UNCHANGED <<tables, scanned, at, useful>>

\* The upsert's WHERE: a verified proof yields to a verified one only.
Stronger(old, new) ==
    IF old # NoProof /\ new = NoProof THEN old ELSE new

Recorded(m, new) == [proof EXCEPT ![m] = Stronger(@, new)]

\* successor_transition_proof: whether s closes what p left open.
Closes(p, s) == /\ Kind[p] = "shipment" /\ Kind[s] = "shipment"
                /\ node'[p] = "open" /\ node'[s] = "closed"

BySuccessor(p, s) == IF Closes(p, s) THEN Verified("successor", s) ELSE NoProof

(***************************************************************************)
(* The walk.                                                               *)
(***************************************************************************)
Leave(m) == /\ todo' = todo \ {m} /\ at' = NoMessage
            /\ stage' = "consensus" /\ useful' = FALSE

\* Model, corrections and recent behaviour agree about a message of a supported
\* category; protection and KEEP come first, other categories have no row.
Consensus(m, proven) ==
    /\ stage = "consensus" /\ m \in todo
    /\ proven => /\ m \in Supported \ unread
                 /\ ~decision[m].hard /\ decision[m].action # "keep"
    /\ proof' = Recorded(m, IF proven THEN Verified("consensus", NoMessage) ELSE NoProof)
    /\ IF Kind[m] = "none" \/ (Kind[m] = "promotion" /\ m \in unread) THEN Leave(m)
       ELSE at' = m /\ stage' = "node" /\ UNCHANGED <<todo, useful>>
    /\ UNCHANGED <<node, links, scanned, decision, final, unread, mishaps>>

\* Mutant: messages of the same week count as older.
OlderOrEqual(m) == {o \in Related \ {m} : node[o] # NoNode /\ Week[o] <= Week[m]}

Older(m) == {o \in Related : node[o] # NoNode /\ Week[o] < Week[m]}
Newer(m) == {o \in Related : node[o] # NoNode /\ Week[o] > Week[m]}

\* ORDER BY received_week LIMIT 1: the nearest, whichever of those of one week.
NearestOlder(m) == {o \in Older(m) : \A x \in Older(m) : Week[x] <= Week[o]}

\* Mutant: a late predecessor is not linked to the successor already known.
NearestNewerNone(m) == {}

NearestNewer(m) == {o \in Newer(m) : \A x \in Newer(m) : Week[o] <= Week[x]}

OneOf(S) == IF S = {} THEN {NoMessage} ELSE S

\* record_lumegraph_observation: the node, its links and the proofs of its
\* predecessor and of itself are one transaction; a known message changes nothing.
Insert(m, life, use) ==
    /\ node' = [node EXCEPT ![m] = IF use \/ decision[m].hard THEN "other" ELSE life]
    /\ \E older \in IF m \in Related THEN OneOf(NearestOlder(m)) ELSE {NoMessage},
          newer \in IF m \in Related THEN OneOf(NearestNewer(m)) ELSE {NoMessage} :
         /\ links' = links \cup {<<o, m>> : o \in {older} \ {NoMessage}}
                           \cup {<<m, n>> : n \in {newer} \ {NoMessage}}
         /\ proof' = [p \in Messages |->
                        CASE p = older -> Stronger(proof[p], BySuccessor(p, m))
                          [] p = m /\ newer # NoMessage -> Stronger(proof[p], BySuccessor(m, newer))
                          [] OTHER -> proof[p]]

Observe(life, use) ==
    /\ stage = "node"
    /\ life # "other" => at \in Related         \* nothing asks it of the others
    /\ IF node[at] = NoNode THEN Insert(at, life, use) ELSE UNCHANGED tables
    /\ IF Kind[at] \in {"one_time_code", "promotion"}
       THEN stage' = "closure" /\ useful' = use /\ UNCHANGED <<todo, at>>
       ELSE Leave(at)
    /\ UNCHANGED <<scanned, decision, final, unread, mishaps>>

\* deterministic_otp_proof and deterministic_date_proof.
MayClose(elapsed) == elapsed /\ ~useful /\ ~decision[at].hard /\ at \notin unread

Close(elapsed) ==
    /\ stage = "closure"
    /\ Kind[at] = "promotion" => MayClose(elapsed) \/ decision[at].hard
    /\ proof' = Recorded(at, IF ~MayClose(elapsed) THEN NoProof
                             ELSE Verified(IF Kind[at] = "promotion" THEN "date" ELSE "otp",
                                           NoMessage))
    /\ Leave(at)
    /\ UNCHANGED <<node, links, scanned, decision, final, unread, mishaps>>

\* Mutant: the exception leaves _build_lumegraph_shadow and ends the run.
AbandonRun == /\ stage' = "idle" /\ todo' = {} /\ at' = NoMessage /\ useful' = FALSE
              /\ decision' = [m \in Messages |-> NoDecision] /\ unread' = {}

\* Mutant: the messages the walk did not reach are dropped with the graph.
AbandonBatch == /\ stage' = "apply" /\ todo' = {} /\ at' = NoMessage /\ useful' = FALSE
                /\ decision' = [m \in Messages |-> IF m \in todo THEN NoDecision ELSE decision[m]]
                /\ UNCHANGED unread

\* except Exception: the run goes on without the rest of the graph.
AbandonGraph == /\ stage' = "apply" /\ todo' = {} /\ at' = NoMessage /\ useful' = FALSE
                /\ UNCHANGED <<decision, unread>>

\* The reasons of a promotion that is not verified are a string, not a tuple:
\* ObsolescenceProof.__post_init__ counts its characters and raises.
CloseRaises(elapsed) ==
    /\ stage = "closure" /\ Kind[at] = "promotion"
    /\ ~MayClose(elapsed) /\ ~decision[at].hard
    /\ AbandonGraph
    /\ UNCHANGED <<tables, scanned, final, mishaps>>

\* A transaction of the walk fails.
WalkFails ==
    /\ stage \in {"consensus", "node", "closure"} /\ todo # {}
    /\ mishaps < MaxMishaps /\ mishaps' = mishaps + 1
    /\ AbandonGraph
    /\ UNCHANGED <<tables, scanned, final>>

WalkEnds ==
    /\ stage = "consensus" /\ todo = {}
    /\ stage' = "apply"
    /\ UNCHANGED <<tables, scanned, decision, final, todo, at, useful, unread, mishaps>>

(***************************************************************************)
(* The end of the run, and what opens a row again.                         *)
(***************************************************************************)
\* Mutant: a proof lifts whatever was not selected.
LiftedAny(m, enabled, trash) == enabled /\ IsProven(m) /\ decision[m].action # "quarantine"

\* _apply_obsolescence_proofs.
Lifted(m, enabled, trash) == /\ enabled /\ ~trash /\ IsProven(m)
                             /\ decision[m].action = "review" /\ ~decision[m].hard

Carried(m, enabled, trash) ==
    IF Lifted(m, enabled, trash) THEN "quarantine"
    ELSE IF decision[m].action = "quarantine" /\ trash THEN "trash"
    ELSE decision[m].action

\* Mark the batch complete and carry it out.
Apply(enabled, trash) ==
    /\ stage = "apply"
    /\ final' = [m \in Messages |-> IF m \in Batch THEN Carried(m, enabled, trash) ELSE "none"]
    /\ scanned' = scanned \cup (Batch \ unread)
    /\ decision' = [m \in Messages |-> NoDecision]
    /\ unread' = {} /\ stage' = "idle"
    /\ UNCHANGED <<tables, todo, at, useful, mishaps>>

Die ==
    /\ stage # "idle"
    /\ mishaps < MaxMishaps /\ mishaps' = mishaps + 1
    /\ stage' = "idle" /\ todo' = {} /\ at' = NoMessage /\ useful' = FALSE
    /\ decision' = [m \in Messages |-> NoDecision] /\ unread' = {}
    /\ UNCHANGED <<tables, scanned, final>>

Reopen(m) ==
    /\ m \in scanned /\ stage = "idle"
    /\ mishaps < MaxMishaps /\ mishaps' = mishaps + 1
    /\ scanned' = scanned \ {m}
    /\ UNCHANGED <<tables, decision, final, walk, unread>>

Walk == \/ \E m \in Messages, proven \in BOOLEAN : Consensus(m, proven)
        \/ \E life \in Nodes, use \in BOOLEAN : Observe(life, use)
        \/ \E elapsed \in BOOLEAN : Close(elapsed) \/ CloseRaises(elapsed)
        \/ WalkEnds
        \/ \E enabled, trash \in BOOLEAN : Apply(enabled, trash)

Scan == \E batch \in SUBSET Messages : \E lost \in SUBSET batch, graph \in Graph :
            ScanBatch(batch, lost, graph)

Next == Scan \/ Walk \/ WalkFails \/ Die \/ \E m \in Messages : Reopen(m)

Spec == Init /\ [][Next]_vars

\* A schedule opens the next run, and a run that is not killed goes on.
FairSpec == Spec /\ WF_vars(Scan) /\ WF_vars(Walk)

-----------------------------------------------------------------------------
(***************************************************************************)
(* Properties.                                                             *)
(***************************************************************************)
\* Tables and the walk keep their shapes; the walk is at a message of the batch
\* that is still to do, exactly while it has one.
TypeOK ==
    /\ node \in [Messages -> Nodes \cup {NoNode}]
    /\ links \subseteq Messages \X Messages
    /\ proof \in [Messages -> Proofs]
    /\ decision \in [Messages -> Filter!Decisions \cup {NoDecision}]
    /\ final \in [Messages -> Filter!Outcomes]
    /\ stage \in Stages /\ useful \in BOOLEAN /\ scanned \subseteq Messages
    /\ todo \subseteq Batch \ scanned /\ unread \subseteq Batch
    /\ stage \in {"idle", "apply"} => todo = {}
    /\ at \in todo \cup {NoMessage}
    /\ at # NoMessage <=> stage \in {"node", "closure"}
    /\ Batch = {} <=> stage = "idle"
    /\ mishaps \in 0..MaxMishaps

Closing(p, s) == /\ Kind[p] = "shipment" /\ Kind[s] = "shipment"
                 /\ node[p] = "open" /\ node[s] = "closed"

\* A proof by a successor stands on the rows it names for as long as it is on
\* record: the two are linked, strictly ordered in time, the one was open and the
\* other closes it (successor_transition_proof).
WitnessStands ==
    \A m \in Messages : proof[m].witness = "successor" =>
        /\ <<m, proof[m].source>> \in links
        /\ Week[m] < Week[proof[m].source]
        /\ Closing(m, proof[m].source)

\* The related messages on record of p's week.
Twins(p) == {o \in Related : node[o] # NoNode /\ Week[o] = Week[p]}

\* Those nearest after it.
NextOnes(p) == LET later == {o \in Related : node[o] # NoNode /\ Week[o] > Week[p]}
               IN {o \in later : \A x \in later : Week[o] <= Week[x]}

\* In whatever order runs meet the messages, a shipment that every message next to it
\* in time closes is proven; of several such shipments of one week, one at least is
\* (record_lumegraph_observation looks both ways, at one message each way).
ClosureFound ==
    \A p \in Related :
        node[p] # NoNode /\ NextOnes(p) # {}
            /\ (\A o \in Twins(p), s \in NextOnes(p) : Closing(o, s))
        => \E o \in Twins(p) : IsProven(o)

\* The graph never interrupts or broadens the ordinary filter: beside what the
\* filter would do, a run only lifts unprotected reviews into the quarantine.
ImplementsFilter == Filter!Spec

\* However the walk ends, once mishaps are over every message's row
\* is completed and stays so (_build_lumegraph_shadow swallows its errors).
EveryRowCompletes == <>[](scanned = Messages)

\* Every lifecycle message a run completed with the graph on is in the graph.
GraphIsComplete == \A m \in scanned : Kind[m] # "none" => node[m] # NoNode
=============================================================================
