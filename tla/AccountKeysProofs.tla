-------------------------- MODULE AccountKeysProofs --------------------------
(***************************************************************************)
(* The safety of AccountKeys for any processes, databases, keys and losses.*)
(***************************************************************************)
EXTENDS AccountKeys, TLAPS

Files == [exists : BOOLEAN, tables : BOOLEAN, legacy : BOOLEAN,
          bound : AnyKey, rows : SUBSET (Keys \cup {OldKey})]

\* Where a process can be.
Places == [at : Stages, file : Databases, key : AnyKey]

Inside == {"locked", "missing", "creating", "created"}
Holding == {"loaded", "opened", "bound"}

\* Between Lock and the end of the block a process has the lock.
OwnersInside == \A p \in Procs : proc[p].at \in Inside => owner = p

\* A process that writes rows has the key its database is bound to.
WritersBound == \A p \in Procs : proc[p].at = "bound" => proc[p].key = db[proc[p].file].bound

\* While no key was lost, a key in a process's hands is the stored one.
HeldIsStored == losses = 0 => \A p \in Procs : proc[p].at \in Holding => proc[p].key = stored

\* While no key was lost, a process that saw none is right, until it creates one.
MissingIsMissing ==
    losses = 0 => \A p \in Procs : proc[p].at \in {"missing", "creating"} => stored = NoKey

IInv == /\ TypeOK
        /\ OwnersInside
        /\ WritersBound
        /\ RowsUnderOneKey
        /\ HeldIsStored
        /\ MissingIsMissing
        /\ NeverLockedOut

\* The first key, before any process: none is held, and none binds anything.
LEMMA KeysStart == Init => IInv
<1> SUFFICES ASSUME Init PROVE IInv
    OBVIOUS
<1> USE KeysAssumption DEF Init
<1>1. TypeOK
  <2>1. (CHOOSE d \in Databases : TRUE) \in Databases
    OBVIOUS
  <2>2. proc \in [Procs -> Places]
    BY <2>1 DEF Places, Stages, AnyKey
  <2>3. db \in [Databases -> Files]
    <3>1. NewFile \in Files
      BY DEF Files, NewFile, AnyKey
    <3>2. OldFile \in Files
      BY DEF Files, OldFile, NewFile, AnyKey
    <3> QED
      BY <3>1, <3>2
  <2>4. stored \in AnyKey /\ losses \in Nat /\ owner \in Procs \cup {Nobody}
    BY DEF AnyKey
  <2> QED
    BY <2>2, <2>3, <2>4 DEF TypeOK, Files, Places
<1>2. OwnersInside /\ WritersBound /\ HeldIsStored /\ MissingIsMissing
  <2>1. \A p \in Procs : proc[p].at = "idle"
    OBVIOUS
  <2> QED
    BY <2>1 DEF OwnersInside, WritersBound, HeldIsStored, MissingIsMissing, Inside, Holding
<1>3. RowsUnderOneKey /\ NeverLockedOut
  <2>1. NewFile.rows = {} /\ NewFile.bound = NoKey /\ OldFile.rows = {} /\ OldFile.bound = NoKey
    BY DEF NewFile, OldFile
  <2>2. \A d \in Databases : db[d].rows = {} /\ db[d].bound = NoKey
    BY <2>1
  <2> QED
    BY <2>2 DEF RowsUnderOneKey, NeverLockedOut
<1> QED
  BY <1>1, <1>2, <1>3 DEF IInv

\* What a change of stage leaves alone.
LEMMA GoesOnly ==
    ASSUME TypeOK, NEW p \in Procs, NEW stage \in Stages, Goes(p, stage)
    PROVE  /\ proc' \in [Procs -> Places]
           /\ \A q \in Procs \ {p} : proc'[q] = proc[q]
           /\ proc'[p].at = stage
           /\ proc'[p].file = proc[p].file /\ proc'[p].key = proc[p].key
<1>1. proc[p] \in Places
  BY DEF TypeOK, Places
<1>2. [proc[p] EXCEPT !.at = stage] \in Places
  BY <1>1 DEF Places
<1>3. proc' = [proc EXCEPT ![p] = [proc[p] EXCEPT !.at = stage]]
  BY DEF Goes
<1> QED
  BY <1>1, <1>2, <1>3 DEF TypeOK, Places

\* What a process does up to and in the lock, without a new key.
LEMMA LockedStep ==
    ASSUME IInv, NEW p \in Procs,
           \/ \E d \in Databases : Start(p, d)
           \/ Lock(p) \/ ReadKey(p) \/ CheckDatabase(p) \/ ReadBack(p) \/ Stop(p)
    PROVE  IInv'
<1> USE KeysAssumption DEF IInv, TypeOK
<1> DEFINE Kept == UNCHANGED <<minted, db, losses, stored>>
<1>1. /\ Kept
      /\ proc' \in [Procs -> Places]
      /\ \A q \in Procs \ {p} : proc'[q] = proc[q]
  <2>1. CASE \E d \in Databases : Start(p, d)
    <3>1. PICK d \in Databases : Start(p, d)
      BY <2>1
    <3>2. [at |-> "waiting", file |-> d, key |-> NoKey] \in Places
      BY DEF Places, Stages, AnyKey
    <3> QED
      BY <3>1, <3>2 DEF Start, Places
  <2>2. CASE \E stage \in Stages : Goes(p, stage) /\ Kept
    BY <2>2, GoesOnly
  <2>3. CASE GoesWith(p, "loaded", stored) /\ Kept
    <3>1. [proc[p] EXCEPT !.at = "loaded", !.key = stored] \in Places
      BY DEF Places, Stages
    <3>2. proc' = [proc EXCEPT ![p] = [proc[p] EXCEPT !.at = "loaded", !.key = stored]]
      BY <2>3 DEF GoesWith
    <3> QED
      BY <2>3, <3>1, <3>2 DEF Places
  <2>4. Lock(p) \/ ReadKey(p) \/ CheckDatabase(p) \/ ReadBack(p) \/ Stop(p)
            => (\E stage \in Stages : Goes(p, stage) /\ Kept)
               \/ (GoesWith(p, "loaded", stored) /\ Kept)
    BY DEF Lock, ReadKey, CheckDatabase, ReadBack, Stop, Stages
  <2> QED
    BY <2>1, <2>2, <2>3, <2>4
<1>2. owner' \in Procs \cup {Nobody}
  BY DEF Start, Lock, ReadKey, CheckDatabase, ReadBack, Stop, Unlocked
<1>3. \A q \in Procs \ {p} : owner = q => owner' = q
  BY DEF Start, Lock, MayLock, ReadKey, CheckDatabase, ReadBack, Stop, Unlocked
<1>4. /\ proc'[p].at \in Inside => owner' = p
      /\ proc'[p].at \in Holding => proc'[p].key = stored /\ stored # NoKey
      /\ proc'[p].at \in {"missing", "creating"} => stored = NoKey \/ losses # 0
      /\ proc'[p].at # "bound"
  BY DEF Start, Lock, ReadKey, CheckDatabase, ReadBack, Stop, Goes, GoesWith, Unlocked,
         Inside, Holding, OwnersInside, MissingIsMissing
<1>5. TypeOK'
  BY <1>1, <1>2, <1>4 DEF Holding, Places
<1>6. OwnersInside'
  BY <1>1, <1>3, <1>4 DEF OwnersInside
<1>7. WritersBound'
  BY <1>1, <1>4 DEF WritersBound
<1>8. HeldIsStored' /\ MissingIsMissing'
  BY <1>1, <1>4 DEF HeldIsStored, MissingIsMissing
<1>9. RowsUnderOneKey' /\ NeverLockedOut'
  BY <1>1 DEF RowsUnderOneKey, NeverLockedOut
<1> QED
  BY <1>5, <1>6, <1>7, <1>8, <1>9

\* The owner alone may create a key, and finds no database bound to another.
LEMMA CreateStep ==
    ASSUME IInv, NEW p \in Procs, NEW k \in Keys, CreateKey(p, k)
    PROVE  IInv'
<1> USE KeysAssumption DEF IInv, TypeOK, CreateKey, Goes
<1>1. /\ proc' \in [Procs -> Places]
      /\ proc'[p].at = "created"
      /\ \A q \in Procs \ {p} : proc'[q] = proc[q]
  BY GoesOnly, "created" \in Stages DEF Stages
<1>2. \A q \in Procs \ {p} : proc[q].at \notin Inside
  BY DEF OwnersInside, Inside
<1>3. losses = 0 => stored = NoKey
  BY DEF MissingIsMissing
<1>4. TypeOK'
  BY <1>1 DEF AnyKey, Places
<1>5. OwnersInside' /\ WritersBound' /\ RowsUnderOneKey'
  BY <1>1 DEF OwnersInside, WritersBound, RowsUnderOneKey, Inside
<1>6. MissingIsMissing'
  BY <1>1, <1>2 DEF MissingIsMissing, Inside
<1>7. HeldIsStored'
  BY <1>1, <1>3 DEF HeldIsStored, Holding
<1>8. NeverLockedOut'
  BY <1>3 DEF NeverLockedOut
<1> QED
  BY <1>4, <1>5, <1>6, <1>7, <1>8

\* With a key in hand: open the tables, bind or compare, write rows.
LEMMA DatabaseStep ==
    ASSUME IInv, NEW p \in Procs, OpenTables(p) \/ Bind(p) \/ Record(p)
    PROVE  IInv'
<1> USE KeysAssumption DEF IInv, TypeOK
<1> DEFINE f == proc[p].file
<1>1. /\ UNCHANGED <<stored, minted, owner, losses>>
      /\ proc' \in [Procs -> Places]
      /\ \A q \in Procs \ {p} : proc'[q] = proc[q]
      /\ proc'[p].at \in {"idle", "opened", "bound"}
      /\ proc'[p].key = proc[p].key /\ proc'[p].file = f
      /\ proc[p].at \in Holding /\ proc[p].key # NoKey
  <2>1. CASE OpenTables(p)
    <3>1. Goes(p, "opened") /\ "opened" \in Stages /\ UNCHANGED <<stored, minted, owner, losses>>
      BY <2>1 DEF OpenTables, Stages
    <3>2. proc[p].at = "loaded"
      BY <2>1 DEF OpenTables
    <3> QED
      BY <3>1, <3>2, GoesOnly DEF Holding
  <2>2. CASE Bind(p)
    <3>1. PICK stage \in {"bound", "idle"} : Goes(p, stage)
      BY <2>2 DEF Bind
    <3>2. proc[p].at = "opened" /\ stage \in Stages /\ UNCHANGED <<stored, minted, owner, losses>>
      BY <2>2 DEF Bind, Stages
    <3> QED
      BY <3>1, <3>2, GoesOnly DEF Holding
  <2>3. CASE Record(p)
    BY <2>3 DEF Record, Holding, Places
  <2> QED
    BY <2>1, <2>2, <2>3
<1>2. \A d \in Databases \ {f} : db'[d] = db[d]
  BY DEF OpenTables, Bind, Record
<1>3. /\ db[f].bound # NoKey => db'[f].bound = db[f].bound
      /\ db'[f].bound \in {NoKey, db[f].bound, proc[p].key}
      /\ proc'[p].at = "bound" => db'[f].bound = proc[p].key
      /\ \/ db'[f].rows = db[f].rows
         \/ db'[f].rows = db[f].rows \cup {proc[p].key} /\ db'[f].bound = proc[p].key
      /\ db' \in [Databases -> Files]
  <2> DEFINE file == db[f]
  <2>0. f \in Databases /\ file \in Files /\ proc[p].key \in Keys \cup {OldKey}
    BY <1>1 DEF Files, AnyKey
  <2>1. CASE OpenTables(p)
    <3>1. db' = [db EXCEPT ![f] = [file EXCEPT !.exists = TRUE, !.tables = TRUE]]
      BY <2>1 DEF OpenTables
    <3>2. proc'[p].at = "opened"
      BY <2>1 DEF OpenTables, Goes
    <3>3. [file EXCEPT !.exists = TRUE, !.tables = TRUE] \in Files
      BY <2>0 DEF Files
    <3>4. db'[f].bound = file.bound /\ db'[f].rows = file.rows
      BY <2>0, <3>1 DEF Files
    <3>5. db' \in [Databases -> Files]
      BY <2>0, <3>1, <3>3 DEF Files
    <3> QED
      BY <3>2, <3>4, <3>5
  <2>2. CASE Bind(p)
    <3>1. [file EXCEPT !.bound = proc[p].key] \in Files
      BY <2>0 DEF Files, AnyKey
    <3>2. \/ db' = [db EXCEPT ![f] = [file EXCEPT !.bound = proc[p].key]] /\ file.bound = NoKey
          \/ db' = db /\ (proc'[p].at = "bound" => file.bound = proc[p].key)
      BY <2>2 DEF Bind, Goes
    <3>3. db' \in [Databases -> Files]
      BY <2>0, <3>1, <3>2 DEF Files
    <3>4. db'[f].rows = file.rows
      BY <2>0, <3>2 DEF Files
    <3>5. \/ db'[f].bound = proc[p].key /\ file.bound = NoKey
          \/ db'[f].bound = file.bound /\ (proc'[p].at = "bound" => file.bound = proc[p].key)
      BY <2>0, <3>2 DEF Files
    <3> QED
      BY <3>3, <3>4, <3>5
  <2>3. CASE Record(p)
    <3>1. [file EXCEPT !.rows = @ \cup {proc[p].key}] \in Files
      BY <2>0 DEF Files
    <3>2. db' = [db EXCEPT ![f] = [file EXCEPT !.rows = @ \cup {proc[p].key}]]
      BY <2>3 DEF Record
    <3>3. file.bound = proc[p].key
      BY <2>3 DEF Record, WritersBound
    <3> QED
      BY <2>0, <3>1, <3>2, <3>3 DEF Files
  <2> QED
    BY <2>1, <2>2, <2>3
<1>4. TypeOK'
  BY <1>1, <1>3 DEF Files, Places
<1>5. OwnersInside'
  <2>1. proc'[p].at \notin Inside /\ owner' = owner
    BY <1>1 DEF Inside
  <2> QED
    BY <1>1, <2>1 DEF OwnersInside
<1>6. WritersBound'
  BY <1>1, <1>2, <1>3 DEF WritersBound
<1>7. RowsUnderOneKey'
  BY <1>2, <1>3 DEF RowsUnderOneKey
<1>8. HeldIsStored' /\ MissingIsMissing'
  BY <1>1 DEF HeldIsStored, MissingIsMissing, Holding
<1>9. NeverLockedOut'
  BY <1>1, <1>2, <1>3 DEF NeverLockedOut, HeldIsStored
<1> QED
  BY <1>4, <1>5, <1>6, <1>7, <1>8, <1>9

LEMMA LossStep == ASSUME IInv, LoseKey PROVE IInv'
<1> USE KeysAssumption DEF IInv, LoseKey
<1>1. TypeOK' /\ losses' # 0
  BY DEF TypeOK, AnyKey
<1>2. OwnersInside' /\ WritersBound' /\ RowsUnderOneKey'
  BY DEF OwnersInside, WritersBound, RowsUnderOneKey
<1>3. HeldIsStored' /\ MissingIsMissing' /\ NeverLockedOut'
  BY <1>1 DEF HeldIsStored, MissingIsMissing, NeverLockedOut
<1> QED
  BY <1>1, <1>2, <1>3

LEMMA KeysStutter == ASSUME IInv, UNCHANGED vars PROVE IInv'
  BY DEF vars, IInv, TypeOK, OwnersInside, WritersBound, RowsUnderOneKey, HeldIsStored,
         MissingIsMissing, NeverLockedOut

\* The inductive invariant: a key is created by the one process that has the lock
\* and has seen that there is none (load_or_create_hmac_key).
THEOREM KeysInductive == Spec => []IInv
<1>1. IInv /\ [Next]_vars => IInv'
  <2> SUFFICES ASSUME IInv, [Next]_vars PROVE IInv'
    OBVIOUS
  <2>1. ASSUME NEW p \in Procs, \E d \in Databases : Start(p, d) PROVE IInv'
    BY <2>1, LockedStep
  <2>2. ASSUME NEW p \in Procs, Lock(p) \/ ReadKey(p) \/ CheckDatabase(p) \/ ReadBack(p) \/ Stop(p)
        PROVE IInv'
    BY <2>2, LockedStep
  <2>3. ASSUME NEW p \in Procs, NEW k \in Keys, CreateKey(p, k) PROVE IInv'
    BY <2>3, CreateStep
  <2>4. ASSUME NEW p \in Procs, OpenTables(p) \/ Bind(p) \/ Record(p) PROVE IInv'
    BY <2>4, DatabaseStep
  <2>5. CASE LoseKey
    BY <2>5, LossStep
  <2>6. CASE UNCHANGED vars
    BY <2>6, KeysStutter
  <2> QED
    BY <2>1, <2>2, <2>3, <2>4, <2>5, <2>6 DEF Next, Step
<1> QED
  BY <1>1, KeysStart, PTL DEF Spec

\* Type correctness; a process past the lock always has a key.
THEOREM KeysTypes == Spec => []TypeOK
  BY KeysInductive, PTL DEF IInv

\* Whatever is lost and created again, all rows a database receives are under
\* the one key it is bound to (_ensure_key_binding).
THEOREM KeysRows == Spec => []RowsUnderOneKey
  BY KeysInductive, PTL DEF IInv

\* While no key was lost, no database is bound to another key than the stored one
\* (load_or_create_hmac_key).
THEOREM KeysNobodyLockedOut == Spec => []NeverLockedOut
  BY KeysInductive, PTL DEF IInv
=============================================================================
