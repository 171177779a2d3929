-------------------------- MODULE ProofLedgerProofs --------------------------
(***************************************************************************)
(* What ProofLedger promises for any messages, kinds, weeks, verdicts,     *)
(* batch limit and mishaps: the witnesses of its proofs stand, closures    *)
(* are found in any order, and the graph implements the ordinary filter.   *)
(***************************************************************************)
EXTENDS ProofLedger, FiniteSetTheorems, TLAPS

IInv == TypeOK /\ WitnessStands /\ ClosureFound

Verdict == [action : {"keep", "review", "quarantine"}, hard : BOOLEAN]

LEMMA DecisionTypes == Filter!Decisions \subseteq Verdict /\ NoDecision \notin Filter!Decisions
  BY LedgerAssumption DEF Filter!Decisions, Filter!Actions, Verdict

\* A proof on record is only ever replaced by a proof.
LEMMA StrongerKeeps ==
    ASSUME NEW old, NEW new
    PROVE  /\ Stronger(old, new) \in {old, new}
           /\ old # NoProof \/ new # NoProof => Stronger(old, new) # NoProof
  BY DEF Stronger

LEMMA RecordedType ==
    ASSUME proof \in [Messages -> Proofs], NEW m \in Messages, NEW new \in Proofs
    PROVE  /\ Recorded(m, new) \in [Messages -> Proofs]
           /\ \A o \in Messages \ {m} : Recorded(m, new)[o] = proof[o]
           /\ Recorded(m, new)[m] = Stronger(proof[m], new)
<1>1. Stronger(proof[m], new) \in Proofs
  BY DEF Stronger
<1> QED
  BY <1>1 DEF Recorded

LEMMA ProofTypes == /\ NoProof \in Proofs
                    /\ \A s \in Messages : Verified("successor", s) \in Proofs
                    /\ Verified("consensus", NoMessage) \in Proofs
                    /\ Verified("otp", NoMessage) \in Proofs
                    /\ Verified("date", NoMessage) \in Proofs
  BY DEF NoProof, Verified, Proofs

\* The tables alone decide WitnessStands and ClosureFound; a row that gains a proof
\* by something else than a successor keeps both.
LEMMA OtherProof ==
    ASSUME IInv, NEW m \in Messages, NEW new \in Proofs, new.witness # "successor",
           proof' = Recorded(m, new), UNCHANGED <<node, links>>
    PROVE  proof' \in [Messages -> Proofs] /\ WitnessStands' /\ ClosureFound'
<1> USE DEF IInv
<1>1. proof \in [Messages -> Proofs]
  BY DEF TypeOK
<1>2. proof' \in [Messages -> Proofs] /\ \A o \in Messages \ {m} : proof'[o] = proof[o]
  BY <1>1, RecordedType
<1>3. proof'[m] = Stronger(proof[m], new)
  BY <1>1, RecordedType
<1>4. proof'[m] \in {proof[m], new}
  BY <1>3, StrongerKeeps
<1>5. \A o \in Messages : IsProven(o) => IsProven(o)'
  BY <1>2, <1>3, StrongerKeeps DEF IsProven
<1>6. WitnessStands'
  BY <1>2, <1>4 DEF WitnessStands, Closing
<1>7. ClosureFound'
  <2>1. \A p : Twins(p)' = Twins(p) /\ NextOnes(p)' = NextOnes(p)
    BY DEF Twins, NextOnes
  <2>2. Related \subseteq Messages
    BY LedgerAssumption
  <2> QED
    BY <1>5, <2>1, <2>2 DEF ClosureFound, Closing, Twins
<1> QED
  BY <1>2, <1>6, <1>7

LEMMA SameTables ==
    ASSUME IInv, UNCHANGED tables
    PROVE  /\ node' \in [Messages -> Nodes \cup {NoNode}]
           /\ links' \subseteq Messages \X Messages
           /\ proof' \in [Messages -> Proofs]
           /\ WitnessStands' /\ ClosureFound'
  BY DEF IInv, TypeOK, tables, WitnessStands, ClosureFound, Closing, Twins, NextOnes, IsProven

\* record_lumegraph_observation of a message the graph does not know.
LEMMA InsertStep ==
    ASSUME IInv, NEW m \in Messages, NEW life \in Nodes, NEW use \in BOOLEAN,
           node[m] = NoNode, Insert(m, life, use)
    PROVE  /\ node' \in [Messages -> Nodes \cup {NoNode}]
           /\ links' \subseteq Messages \X Messages
           /\ proof' \in [Messages -> Proofs]
           /\ WitnessStands' /\ ClosureFound'
<1> USE LedgerAssumption DEF IInv
<1> DEFINE Olds == IF m \in Related THEN OneOf(NearestOlder(m)) ELSE {NoMessage}
           News == IF m \in Related THEN OneOf(NearestNewer(m)) ELSE {NoMessage}
<1>1. PICK older \in Olds, newer \in News :
        /\ links' = links \cup {<<o, m>> : o \in {older} \ {NoMessage}}
                          \cup {<<m, n>> : n \in {newer} \ {NoMessage}}
        /\ proof' = [p \in Messages |->
                       CASE p = older -> Stronger(proof[p], BySuccessor(p, m))
                         [] p = m /\ newer # NoMessage -> Stronger(proof[p], BySuccessor(m, newer))
                         [] OTHER -> proof[p]]
  BY DEF Insert
<1>2. /\ node' = [node EXCEPT ![m] = node'[m]]
      /\ node'[m] \in Nodes
      /\ node' \in [Messages -> Nodes \cup {NoNode}]
      /\ \A o \in Messages \ {m} : node'[o] = node[o]
  BY DEF Insert, TypeOK, Nodes
<1>3. older # NoMessage => /\ m \in Related /\ older \in NearestOlder(m)
                           /\ older \in Messages /\ Week[older] < Week[m]
  BY DEF OneOf, NearestOlder, Older
<1>4. newer # NoMessage => /\ m \in Related /\ newer \in NearestNewer(m)
                           /\ newer \in Messages /\ Week[newer] > Week[m]
  BY DEF OneOf, NearestNewer, Newer
<1>5. Week \in [Messages -> Nat] /\ Related \subseteq Messages /\ older # m /\ newer # m
  BY <1>3, <1>4
<1>6. /\ links \subseteq links'
      /\ older # NoMessage => <<older, m>> \in links'
      /\ newer # NoMessage => <<m, newer>> \in links'
      /\ links' \subseteq Messages \X Messages
  BY <1>1, <1>3, <1>4 DEF TypeOK
<1>7. /\ \A p \in Messages \ {older, m} : proof'[p] = proof[p]
      /\ older # NoMessage => proof'[older] = Stronger(proof[older], BySuccessor(older, m))
      /\ proof'[m] = IF newer # NoMessage THEN Stronger(proof[m], BySuccessor(m, newer))
                     ELSE proof[m]
  BY <1>1, <1>3, <1>5
<1>8. proof' \in [Messages -> Proofs]
  <2>1. \A p, q \in Messages : BySuccessor(p, q) \in Proofs
    BY ProofTypes DEF BySuccessor
  <2>2. \A x, y \in Proofs : Stronger(x, y) \in Proofs
    BY DEF Stronger
  <2>3. \A p \in Messages : proof[p] \in Proofs
    BY DEF TypeOK
  <2>4. \A p \in Messages : proof'[p] \in Proofs
    BY <1>3, <1>4, <1>7, <2>1, <2>2, <2>3
  <2> QED
    BY <1>1, <2>4
<1>9. \A p \in Messages : IsProven(p) => IsProven(p)'
  BY <1>3, <1>7, StrongerKeeps DEF IsProven
<1>10. \A p, q \in Messages : Closing(p, q) => Closes(p, q)
  BY <1>2 DEF Closing, Closes
<1>11. \A p, q \in Messages : BySuccessor(p, q).witness = "successor"
                              => BySuccessor(p, q).source = q /\ Closes(p, q)
  BY DEF BySuccessor, Verified, NoProof
<1>12. WitnessStands'
  <2> SUFFICES ASSUME NEW p \in Messages, proof'[p].witness = "successor"
               PROVE  /\ <<p, proof'[p].source>> \in links'
                      /\ Week[p] < Week[proof'[p].source]
                      /\ Closes(p, proof'[p].source)
    BY DEF WitnessStands, Closing, Closes
  <2>1. CASE proof'[p] = proof[p]
    <3>1. /\ <<p, proof[p].source>> \in links /\ Week[p] < Week[proof[p].source]
          /\ Closing(p, proof[p].source)
      BY <2>1 DEF WitnessStands
    <3>2. proof[p].source \in Messages
      BY <3>1 DEF TypeOK
    <3> QED
      BY <2>1, <3>1, <3>2, <1>6, <1>10
  <2>2. CASE p = older /\ proof'[p] = BySuccessor(older, m)
    BY <2>2, <1>3, <1>6, <1>11
  <2>3. CASE p = m /\ newer # NoMessage /\ proof'[p] = BySuccessor(m, newer)
    BY <2>3, <1>4, <1>6, <1>11
  <2> QED
    <3>1. CASE p = older
      BY <3>1, <1>3, <1>7, <2>1, <2>2, StrongerKeeps
    <3>2. CASE p = m
      BY <3>2, <1>7, <2>1, <2>3, StrongerKeeps
    <3> QED
      BY <3>1, <3>2, <1>7, <2>1
<1>13. ClosureFound'
  <2> DEFINE Later(p) == {o \in Related : node[o] # NoNode /\ Week[o] > Week[p]}
  <2>0. SUFFICES ASSUME NEW p \in Related, node'[p] # NoNode, NextOnes(p)' # {},
                        \A o \in Twins(p)', s \in NextOnes(p)' : Closes(o, s)
                 PROVE  \E o \in Twins(p)' : IsProven(o)'
    BY DEF ClosureFound, Closing, Closes
  <2>1. \A o \in Messages : node'[o] # NoNode <=> node[o] # NoNode \/ o = m
    BY <1>2 DEF Nodes
  <2>2. ASSUME p # m, Twins(p)' = Twins(p), NextOnes(p)' = NextOnes(p)
        PROVE  \E o \in Twins(p)' : IsProven(o)'
    <3>1. \A o \in Twins(p), s \in NextOnes(p) : Closing(o, s)
      <4>1. \A o \in Twins(p) \cup NextOnes(p) : o \in Messages /\ o # m
        BY <1>5 DEF Twins, NextOnes
      <4> QED
        BY <1>2, <2>0, <2>2, <4>1 DEF Closing, Closes
    <3>2. PICK o \in Twins(p) : IsProven(o)
      BY <1>5, <2>0, <2>1, <2>2, <3>1 DEF ClosureFound
    <3> QED
      BY <1>5, <1>9, <2>2, <3>2 DEF Twins
  <2>3. CASE m \notin Related
    <3>1. Twins(p)' = Twins(p) /\ NextOnes(p)' = NextOnes(p)
      BY <1>5, <2>1, <2>3 DEF Twins, NextOnes
    <3> QED
      BY <2>2, <2>3, <3>1
  <2>4. CASE m \in Related /\ Week[m] < Week[p]
    <3>1. Twins(p)' = Twins(p) /\ NextOnes(p)' = NextOnes(p)
      BY <1>5, <2>1, <2>4 DEF Twins, NextOnes
    <3> QED
      BY <1>5, <2>2, <2>4, <3>1
  <2>5. CASE m \in Related /\ Week[m] = Week[p]
    <3>1. m \in Twins(p)'
      BY <1>5, <2>1, <2>5 DEF Twins
    <3>2. NextOnes(p)' = NearestNewer(m)
      BY <1>5, <2>1, <2>5 DEF NextOnes, NearestNewer, Newer
    <3>3. newer \in NearestNewer(m) /\ newer # NoMessage
      BY <1>5, <2>0, <2>5, <3>2 DEF OneOf, NearestNewer, Newer
    <3>4. BySuccessor(m, newer) # NoProof
      BY <2>0, <3>1, <3>2, <3>3 DEF BySuccessor, Verified, NoProof
    <3>5. IsProven(m)'
      BY <1>7, <3>3, <3>4, StrongerKeeps DEF IsProven
    <3> QED
      BY <3>1, <3>5
  <2>6. CASE m \in Related /\ Week[m] > Week[p]
    <3>1. p # m /\ p \in Messages /\ node[p] # NoNode /\ Twins(p)' = Twins(p)
      BY <1>5, <2>0, <2>1, <2>6 DEF Twins
    <3>2. CASE m \in NextOnes(p)'
      <4>1. \A x \in Older(m) : Week[x] <= Week[p]
        BY <1>5, <2>1, <2>6, <3>2 DEF Older, NextOnes
      <4>2. p \in Older(m) /\ p \in NearestOlder(m)
        BY <1>5, <2>6, <3>1, <4>1 DEF Older, NearestOlder
      <4>3. older \in NearestOlder(m) /\ older # NoMessage
        BY <1>5, <2>6, <4>2 DEF OneOf, NearestOlder, Older
      <4>4. older \in Twins(p)'
        BY <1>5, <3>1, <4>1, <4>2, <4>3 DEF NearestOlder, Older, Twins
      <4>5. BySuccessor(older, m) # NoProof
        BY <2>0, <3>2, <4>4 DEF BySuccessor, Verified, NoProof
      <4>6. IsProven(older)'
        BY <1>7, <4>3, <4>5, StrongerKeeps DEF IsProven
      <4> QED
        BY <4>4, <4>6
    <3>3. CASE m \notin NextOnes(p)'
      <4>1. PICK x \in Later(p) : Week[x] < Week[m]
        BY <1>5, <2>1, <2>6, <3>3 DEF NextOnes
      <4>2. \A o \in Related : node'[o] # NoNode /\ Week[o] > Week[p]
                             <=> o \in Later(p) \/ o = m
        BY <1>5, <2>1, <2>6
      <4>3. NextOnes(p)' = {o \in Later(p) : \A y \in Later(p) : Week[o] <= Week[y]}
        BY <1>5, <2>6, <4>1, <4>2 DEF NextOnes
      <4> QED
        BY <2>2, <3>1, <4>3 DEF NextOnes
    <3> QED
      BY <3>2, <3>3
  <2> QED
    BY <1>5, <2>3, <2>4, <2>5, <2>6
<1> QED
  BY <1>2, <1>6, <1>8, <1>12, <1>13

\* The tables and what is proved of them; the run and the walk.
TablesOK == /\ node \in [Messages -> Nodes \cup {NoNode}]
            /\ links \subseteq Messages \X Messages
            /\ proof \in [Messages -> Proofs]
            /\ WitnessStands /\ ClosureFound

RunOK ==
    /\ decision \in [Messages -> Filter!Decisions \cup {NoDecision}]
    /\ final \in [Messages -> Filter!Outcomes]
    /\ stage \in Stages /\ useful \in BOOLEAN /\ scanned \subseteq Messages
    /\ todo \subseteq Batch \ scanned /\ unread \subseteq Batch
    /\ stage \in {"idle", "apply"} => todo = {}
    /\ at \in todo \cup {NoMessage}
    /\ at # NoMessage <=> stage \in {"node", "closure"}
    /\ Batch = {} <=> stage = "idle"
    /\ mishaps \in 0..MaxMishaps

LEMMA InTwoParts == (IInv <=> TablesOK /\ RunOK) /\ (IInv' <=> TablesOK' /\ RunOK')
  BY DEF IInv, TypeOK, TablesOK, RunOK

LEMMA LedgerStart == Init => IInv
<1> SUFFICES ASSUME Init PROVE TablesOK /\ RunOK
  BY InTwoParts
<1> USE LedgerAssumption DEF Init
<1>1. TablesOK
  <2>1. \A p : NextOnes(p) = {}
    BY DEF NextOnes
  <2>2. \A m \in Messages : proof[m].witness # "successor"
    BY DEF NoProof
  <2> QED
    BY <2>1, <2>2, ProofTypes DEF TablesOK, WitnessStands, ClosureFound
<1>2. RunOK
  <2>1. decision = [m \in Messages |-> NoDecision] /\ final = [m \in Messages |-> "none"]
    BY DEF Filter!Init
  <2>2. Batch = {}
    BY <2>1 DEF Batch
  <2>3. mishaps \in 0..MaxMishaps
    OBVIOUS
  <2> QED
    BY <2>1, <2>2, <2>3 DEF RunOK, Filter!Outcomes, Stages
<1> QED
  BY <1>1, <1>2

\* A batch of the size of the limit at most, with a verdict for each message of it.
LEMMA ScanStep ==
    ASSUME IInv, NEW batch \in SUBSET Messages, NEW lost \in SUBSET batch,
           NEW graph \in Graph, ScanBatch(batch, lost, graph)
    PROVE  IInv' /\ Filter!Decide
<1> USE LedgerAssumption DEF ScanBatch
<1>1. PICK v \in [batch -> UNION {Verdicts[m] : m \in batch}] :
        /\ \A m \in batch : v[m] \in Verdicts[m]
        /\ decision' = [m \in Messages |-> IF m \in batch THEN v[m] ELSE NoDecision]
  OBVIOUS
<1>2. \A m \in batch : v[m] \in Filter!Decisions
  BY <1>1 DEF Filter!Decisions, Filter!Actions
<1>3. \A m \in batch : decision'[m] # NoDecision
  BY <1>1, <1>2, DecisionTypes
<1>4. Batch' = batch
  BY <1>1, <1>3 DEF Batch
<1>5. decision' \in [Messages -> Filter!Decisions \cup {NoDecision}]
  BY <1>1, <1>2
<1>6. mishaps' \in 0..MaxMishaps
  <2>1. IsFiniteSet(lost)
    BY FS_Subset
  <2>2. Cardinality(lost) \in Nat
    BY <2>1, FS_CardinalityType
  <2>3. mishaps \in Nat
    BY InTwoParts DEF RunOK
  <2>4. mishaps' = mishaps + Cardinality(lost) /\ mishaps' <= MaxMishaps /\ MaxMishaps \in Nat
    OBVIOUS
  <2> HIDE LedgerAssumption DEF ScanBatch
  <2> QED
    BY <2>2, <2>3, <2>4
<1>7. TablesOK'
  BY SameTables, InTwoParts DEF TablesOK
<1>8. final' \in [Messages -> Filter!Outcomes]
  BY DEF Filter!Outcomes
<1>9. stage' \in Stages /\ (graph => stage' = "consensus") /\ (~graph => stage' = "apply")
  BY DEF Stages
<1>10. RunOK'
  BY <1>4, <1>5, <1>6, <1>8, <1>9, InTwoParts DEF RunOK
<1>11. Filter!Decide
  <2>1. \A m \in Messages : decision[m] = NoDecision
    BY InTwoParts DEF RunOK, Batch
  <2> QED
    BY <1>5, <2>1 DEF Filter!Decide, Filter!Idle
<1> QED
  BY <1>7, <1>10, <1>11, InTwoParts

\* A step of the walk that leaves the message it is at, or goes on with it.
LEMMA LeaveStep ==
    ASSUME RunOK, NEW m \in todo, Leave(m), stage \in {"consensus", "node", "closure"},
           UNCHANGED <<scanned, decision, final, unread, mishaps>>
    PROVE  RunOK'
  BY LedgerAssumption DEF RunOK, Leave, Batch, Stages

LEMMA ConsensusStep ==
    ASSUME IInv, NEW m \in Messages, NEW proven \in BOOLEAN, Consensus(m, proven)
    PROVE  IInv' /\ UNCHANGED <<decision, final>>
<1> USE LedgerAssumption DEF Consensus
<1>1. TablesOK'
  <2> DEFINE new == IF proven THEN Verified("consensus", NoMessage) ELSE NoProof
  <2>1. new \in Proofs /\ new.witness # "successor"
    BY ProofTypes DEF Verified, NoProof
  <2>2. proof' = Recorded(m, new) /\ UNCHANGED <<node, links>>
    OBVIOUS
  <2>3. proof' \in [Messages -> Proofs] /\ WitnessStands' /\ ClosureFound'
    BY <2>1, <2>2, OtherProof
  <2> QED
    BY <2>2, <2>3, InTwoParts DEF TablesOK
<1>2. RunOK'
  <2>1. CASE Leave(m)
    BY <2>1, LeaveStep, InTwoParts
  <2>2. CASE at' = m /\ stage' = "node" /\ UNCHANGED <<todo, useful>>
    BY <2>2, InTwoParts DEF RunOK, Batch, Stages
  <2> QED
    BY <2>1, <2>2
<1> QED
  BY <1>1, <1>2, InTwoParts

LEMMA ObserveStep ==
    ASSUME IInv, NEW life \in Nodes, NEW use \in BOOLEAN, Observe(life, use)
    PROVE  IInv' /\ UNCHANGED <<decision, final>>
<1> USE LedgerAssumption DEF Observe
<1>1. at \in todo /\ at \in Messages
  BY InTwoParts DEF RunOK, Batch
<1>2. TablesOK'
  <2>1. CASE node[at] = NoNode
    BY <1>1, <2>1, InsertStep DEF TablesOK
  <2>2. CASE UNCHANGED tables
    BY <2>2, SameTables DEF TablesOK
  <2> QED
    BY <2>1, <2>2
<1>3. RunOK'
  <2>1. CASE Leave(at)
    BY <1>1, <2>1, LeaveStep, InTwoParts
  <2>2. CASE stage' = "closure" /\ useful' = use /\ UNCHANGED <<todo, at>>
    BY <2>2, InTwoParts DEF RunOK, Batch, Stages
  <2> QED
    BY <2>1, <2>2
<1> QED
  BY <1>2, <1>3, InTwoParts

LEMMA CloseStep ==
    ASSUME IInv, NEW elapsed \in BOOLEAN, Close(elapsed)
    PROVE  IInv' /\ UNCHANGED <<decision, final>>
<1> USE LedgerAssumption DEF Close
<1>1. at \in todo /\ at \in Messages
  BY InTwoParts DEF RunOK, Batch
<1>2. TablesOK'
  <2> DEFINE new == IF ~MayClose(elapsed) THEN NoProof
                    ELSE Verified(IF Kind[at] = "promotion" THEN "date" ELSE "otp", NoMessage)
  <2>1. new \in Proofs /\ new.witness # "successor"
    BY ProofTypes DEF Verified, NoProof
  <2>2. proof' = Recorded(at, new) /\ UNCHANGED <<node, links>>
    OBVIOUS
  <2>3. proof' \in [Messages -> Proofs] /\ WitnessStands' /\ ClosureFound'
    BY <1>1, <2>1, <2>2, OtherProof
  <2> QED
    BY <2>2, <2>3, InTwoParts DEF TablesOK
<1>3. RunOK'
  BY <1>1, LeaveStep, InTwoParts
<1> QED
  BY <1>2, <1>3, InTwoParts

\* The walk is given up, by an exception or at its end.
LEMMA AbandonStep ==
    ASSUME IInv, (\E elapsed \in BOOLEAN : CloseRaises(elapsed)) \/ WalkFails \/ WalkEnds
    PROVE  IInv' /\ UNCHANGED <<decision, final>>
<1> USE LedgerAssumption DEF CloseRaises, WalkFails, WalkEnds, AbandonGraph
<1>1. TablesOK'
  BY SameTables DEF TablesOK
<1>2. RunOK'
  <2>1. mishaps' \in 0..MaxMishaps
    BY InTwoParts DEF RunOK
  <2>2. /\ UNCHANGED <<decision, final, scanned, unread>>
        /\ stage # "idle" /\ stage' = "apply" /\ todo' = {} /\ at' = NoMessage
        /\ useful' \in BOOLEAN
    BY InTwoParts DEF RunOK
  <2>3. Batch' = Batch
    BY <2>2 DEF Batch
  <2> QED
    BY <2>1, <2>2, <2>3, InTwoParts DEF RunOK, Stages
<1> QED
  BY <1>1, <1>2, InTwoParts

\* _apply_obsolescence_proofs: what is lifted was under review and unprotected.
LEMMA ApplyStep ==
    ASSUME IInv, NEW enabled \in BOOLEAN, NEW trash \in BOOLEAN, Apply(enabled, trash)
    PROVE  IInv' /\ Filter!CarryOut(trash)
<1> USE LedgerAssumption DEF Apply
<1>1. TablesOK'
  BY SameTables DEF TablesOK
<1>2. \A m \in Messages :
        final'[m] \in IF decision[m] = NoDecision THEN {"none"} ELSE Filter!Lifted(decision[m], trash)
  <2> SUFFICES ASSUME NEW m \in Messages, decision[m] # NoDecision
               PROVE  final'[m] \in Filter!Lifted(decision[m], trash)
    BY DEF Batch
  <2>1. final'[m] = Carried(m, enabled, trash)
    BY DEF Batch
  <2> QED
    BY <2>1 DEF Carried, Lifted, Filter!Lifted
<1>3. final' \in [Messages -> Filter!Outcomes]
  <2>1. \A m \in Messages : decision[m] # NoDecision => decision[m] \in Filter!Decisions
    BY InTwoParts DEF RunOK
  <2>2. \A m \in Messages : final'[m] \in Filter!Outcomes
    BY <1>2, <2>1 DEF Filter!Lifted, Filter!Decisions, Filter!Actions, Filter!Outcomes
  <2> QED
    BY <2>2
<1>4. Filter!CarryOut(trash)
  <2>1. ~Filter!Idle
    BY InTwoParts DEF Filter!Idle, RunOK, Batch
  <2> QED
    BY <1>2, <1>3, <2>1 DEF Filter!CarryOut
<1>5. RunOK'
  <2>1. Batch' = {} /\ todo' = {}
    BY InTwoParts DEF RunOK, Batch
  <2>2. scanned' \subseteq Messages
    BY InTwoParts DEF RunOK, Batch
  <2>3. decision' \in [Messages -> Filter!Decisions \cup {NoDecision}]
    OBVIOUS
  <2> QED
    BY <1>3, <2>1, <2>2, <2>3, InTwoParts DEF RunOK, Stages
<1> QED
  BY <1>1, <1>4, <1>5, InTwoParts

LEMMA DieStep == ASSUME IInv, Die PROVE IInv' /\ Filter!Lose
<1> USE LedgerAssumption DEF Die
<1>1. TablesOK'
  BY SameTables DEF TablesOK
<1>2. RunOK'
  <2>1. mishaps' \in 0..MaxMishaps
    BY InTwoParts DEF RunOK
  <2>2. Batch' = {} /\ todo' = {} /\ decision' \in [Messages -> Filter!Decisions \cup {NoDecision}]
    BY DEF Batch
  <2> QED
    BY <2>1, <2>2, InTwoParts DEF RunOK, Stages
<1> QED
  BY <1>1, <1>2, InTwoParts DEF Filter!Lose

LEMMA ReopenStep ==
    ASSUME IInv, NEW m \in Messages, Reopen(m)
    PROVE  IInv' /\ UNCHANGED <<decision, final>>
<1> USE LedgerAssumption DEF Reopen, walk
<1>1. TablesOK'
  BY SameTables DEF TablesOK
<1>2. RunOK'
  <2>1. mishaps' \in 0..MaxMishaps
    BY InTwoParts DEF RunOK
  <2>2. Batch' = Batch /\ todo' = {} /\ scanned' \subseteq Messages
    BY InTwoParts DEF RunOK, Batch
  <2> QED
    BY <2>1, <2>2, InTwoParts DEF RunOK
<1> QED
  BY <1>1, <1>2, InTwoParts

LEMMA LedgerStutter == ASSUME IInv, UNCHANGED vars PROVE IInv' /\ UNCHANGED <<decision, final>>
  BY InTwoParts, SameTables DEF vars, tables, walk, TablesOK, RunOK, Batch

\* Every step keeps the invariant, and is a step of the filter or a stutter.
LEMMA LedgerStep == IInv /\ [Next]_vars => IInv' /\ [Filter!Next]_Filter!vars
<1> SUFFICES ASSUME IInv, [Next]_vars PROVE IInv' /\ [Filter!Next]_Filter!vars
  OBVIOUS
<1> USE DEF Filter!Next, Filter!vars
<1>1. CASE Scan
  <2>1. PICK batch \in SUBSET Messages :
            \E lost \in SUBSET batch, graph \in Graph : ScanBatch(batch, lost, graph)
    BY <1>1 DEF Scan
  <2>2. PICK lost \in SUBSET batch, graph \in Graph : ScanBatch(batch, lost, graph)
    BY <2>1
  <2> QED
    BY <2>2, ScanStep
<1>2. ASSUME NEW m \in Messages, NEW proven \in BOOLEAN, Consensus(m, proven)
      PROVE  IInv' /\ [Filter!Next]_Filter!vars
  BY <1>2, ConsensusStep
<1>3. ASSUME NEW life \in Nodes, NEW use \in BOOLEAN, Observe(life, use)
      PROVE  IInv' /\ [Filter!Next]_Filter!vars
  BY <1>3, ObserveStep
<1>4. ASSUME NEW elapsed \in BOOLEAN, Close(elapsed)
      PROVE  IInv' /\ [Filter!Next]_Filter!vars
  BY <1>4, CloseStep
<1>5. CASE (\E elapsed \in BOOLEAN : CloseRaises(elapsed)) \/ WalkFails \/ WalkEnds
  BY <1>5, AbandonStep
<1>6. ASSUME NEW enabled \in BOOLEAN, NEW trash \in BOOLEAN, Apply(enabled, trash)
      PROVE  IInv' /\ [Filter!Next]_Filter!vars
  BY <1>6, ApplyStep
<1>7. CASE Die
  BY <1>7, DieStep
<1>8. ASSUME NEW m \in Messages, Reopen(m)
      PROVE  IInv' /\ [Filter!Next]_Filter!vars
  BY <1>8, ReopenStep
<1>9. CASE UNCHANGED vars
  BY <1>9, LedgerStutter
<1> QED
  BY <1>1, <1>2, <1>3, <1>4, <1>5, <1>6, <1>7, <1>8, <1>9 DEF Next, Walk

\* The inductive invariant: the three together, for the types say where a walk is
\* and that a known node keeps what it says.
THEOREM LedgerInductive == Spec => []IInv
  BY LedgerStart, LedgerStep, PTL DEF Spec

\* Type correctness of tables, run and walk.
THEOREM LedgerTypes == Spec => []TypeOK
  BY LedgerInductive, PTL DEF IInv

\* The rows a proof by a successor names are on record, linked, ordered and closing,
\* as long as the proof is (successor_transition_proof).
THEOREM LedgerWitnesses == Spec => []WitnessStands
  BY LedgerInductive, PTL DEF IInv

\* Closures are found in whatever order messages are met
\* (record_lumegraph_observation).
THEOREM LedgerClosures == Spec => []ClosureFound
  BY LedgerInductive, PTL DEF IInv

\* With the graph a run does what the filter would, but for unprotected reviews
\* lifted into the quarantine (_build_lumegraph_shadow, _apply_obsolescence_proofs).
THEOREM LedgerImplementsFilter == Spec => ImplementsFilter
<1>1. Init => Filter!Init
  BY DEF Init
<1> QED
  BY <1>1, LedgerStart, LedgerStep, PTL DEF Spec, ImplementsFilter, Filter!Spec
=============================================================================
