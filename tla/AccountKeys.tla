---------------------------- MODULE AccountKeys ----------------------------
(***************************************************************************)
(* The key that makes an account's ledger opaque: one secret per account in *)
(* the system's credential manager, created by whichever process needs it   *)
(* first (learning.load_or_create_hmac_key), and a check of it in every     *)
(* database that was opened with it (PreferenceStore._ensure_key_binding).  *)
(* A lock file named after the secret orders the processes that create it;  *)
(* any of them may die, and the user may lose the secret.                   *)
(***************************************************************************)
EXTENDS Integers

CONSTANTS
    Procs,         \* processes that open a ledger of the account
    Databases,     \* ledger files of the account
    Keys,          \* keys the generator can still produce
    OldKey,        \* the key of the rows a build without bindings wrote
    NoKey, Nobody,
    MaxLosses      \* how often the credential manager may lose the secret

ASSUME KeysAssumption == /\ Databases # {}
                         /\ OldKey \notin Keys /\ NoKey \notin Keys \cup {OldKey}
                         /\ Nobody \notin Procs
                         /\ MaxLosses \in Nat

VARIABLES
    stored,        \* the secret in the credential manager
    minted,        \* the keys generated so far
    db,            \* what each database file holds
    proc,          \* where each process stands
    owner,         \* the process whose descriptor has the creation lock
    losses

vars == <<stored, minted, db, proc, owner, losses>>

AnyKey == Keys \cup {OldKey, NoKey}
Stages == {"idle", "waiting", "locked", "missing", "creating", "created", "loaded",
           "opened", "bound"}

\* A database no process has opened, and one an older build left behind.
NewFile == [exists |-> FALSE, tables |-> FALSE, legacy |-> FALSE, bound |-> NoKey, rows |-> {}]
OldFile == [NewFile EXCEPT !.exists = TRUE, !.legacy = TRUE]

Init == /\ db \in [Databases -> {NewFile, OldFile}]
        /\ stored \in IF \E d \in Databases : db[d].legacy THEN {OldKey, NoKey} ELSE {NoKey}
        /\ losses = IF stored = NoKey /\ \E d \in Databases : db[d].legacy THEN 1 ELSE 0
        /\ minted = {}
        /\ proc = [p \in Procs |-> [at |-> "idle", file |-> CHOOSE d \in Databases : TRUE,
                                    key |-> NoKey]]
        /\ owner = Nobody

Goes(p, stage) == proc' = [proc EXCEPT ![p].at = stage]
GoesWith(p, stage, k) == proc' = [proc EXCEPT ![p].at = stage, ![p].key = k]

\* A database without the binding table cannot tell a new account from lost state.
ContainsAccountState(d) == /\ db[d].exists
                           /\ db[d].tables => db[d].bound # NoKey \/ db[d].rows # {}

Start(p, d) ==
    /\ proc[p].at = "idle"
    /\ proc' = [proc EXCEPT ![p] = [at |-> "waiting", file |-> d, key |-> NoKey]]
    /\ UNCHANGED <<stored, minted, db, owner, losses>>

\* Mutant: the lock is named after the database.
MayLockPerFile(p) == IF owner = Nobody THEN TRUE ELSE proc[owner].file # proc[p].file

\* The lock's file is named after (service, account), whatever the database.
MayLock(p) == owner = Nobody

Lock(p) ==
    /\ proc[p].at = "waiting"
    /\ MayLock(p)
    /\ owner' = p
    /\ Goes(p, "locked")
    /\ UNCHANGED <<stored, minted, db, losses>>

\* Leaving the block unlocks and closes the descriptor.
Unlocked(p) == owner' = IF owner = p THEN Nobody ELSE owner

ReadKey(p) ==
    /\ proc[p].at = "locked"
    /\ IF stored = NoKey
       THEN Goes(p, "missing") /\ UNCHANGED owner
       ELSE GoesWith(p, "loaded", stored) /\ Unlocked(p)
    /\ UNCHANGED <<stored, minted, db, losses>>

CheckDatabase(p) ==
    /\ proc[p].at = "missing"
    /\ IF ContainsAccountState(proc[p].file)
       THEN Goes(p, "idle") /\ Unlocked(p)
       ELSE Goes(p, "creating") /\ UNCHANGED owner
    /\ UNCHANGED <<stored, minted, db, losses>>

CreateKey(p, k) ==
    /\ proc[p].at = "creating"
    /\ k \notin minted
    /\ stored' = k
    /\ minted' = minted \cup {k}
    /\ Goes(p, "created")
    /\ UNCHANGED <<db, owner, losses>>

\* Mutant: the key is taken as saved without being read back.
ReadNothingBack(p) ==
    /\ proc[p].at = "created"
    /\ GoesWith(p, "loaded", stored)
    /\ Unlocked(p)
    /\ UNCHANGED <<stored, minted, db, losses>>

ReadBack(p) ==
    /\ proc[p].at = "created"
    /\ IF stored = NoKey THEN Goes(p, "idle") ELSE GoesWith(p, "loaded", stored)
    /\ Unlocked(p)
    /\ UNCHANGED <<stored, minted, db, losses>>

OpenTables(p) ==
    /\ proc[p].at = "loaded"
    /\ db' = [db EXCEPT ![proc[p].file].exists = TRUE, ![proc[p].file].tables = TRUE]
    /\ Goes(p, "opened")
    /\ UNCHANGED <<stored, minted, owner, losses>>

\* Mutant: the check is written again instead of being compared.
BindAgain(p) ==
    /\ proc[p].at = "opened"
    /\ db' = [db EXCEPT ![proc[p].file].bound = proc[p].key]
    /\ Goes(p, "bound")
    /\ UNCHANGED <<stored, minted, owner, losses>>

Bind(p) ==
    LET d == proc[p].file IN
    /\ proc[p].at = "opened"
    /\ \/ /\ db[d].bound = NoKey
          /\ db' = [db EXCEPT ![d].bound = proc[p].key]
          /\ Goes(p, "bound")
       \/ /\ db[d].bound = proc[p].key
          /\ Goes(p, "bound")
          /\ UNCHANGED db
       \/ /\ db[d].bound \notin {NoKey, proc[p].key}
          /\ Goes(p, "idle")
          /\ UNCHANGED db
    /\ UNCHANGED <<stored, minted, owner, losses>>

Record(p) ==
    /\ proc[p].at = "bound"
    /\ db' = [db EXCEPT ![proc[p].file].rows = @ \cup {proc[p].key}]
    /\ UNCHANGED <<stored, minted, proc, owner, losses>>

\* A process that ends or dies keeps no lock: the kernel closes its descriptor.
Stop(p) ==
    /\ proc[p].at # "idle"
    /\ Goes(p, "idle")
    /\ Unlocked(p)
    /\ UNCHANGED <<stored, minted, db, losses>>

LoseKey ==
    /\ losses < MaxLosses /\ stored # NoKey
    /\ stored' = NoKey
    /\ losses' = losses + 1
    /\ UNCHANGED <<minted, db, proc, owner>>

Step(p) == \/ Lock(p) \/ ReadKey(p) \/ CheckDatabase(p) \/ (\E k \in Keys : CreateKey(p, k))
           \/ ReadBack(p) \/ OpenTables(p) \/ Bind(p)

Next == \/ \E p \in Procs : Step(p) \/ Record(p) \/ Stop(p) \/ (\E d \in Databases : Start(p, d))
        \/ LoseKey

Spec == Init /\ [][Next]_vars

(***************************************************************************)
(* Properties                                                              *)
(***************************************************************************)
TypeOK ==
    /\ stored \in AnyKey
    /\ minted \subseteq Keys
    /\ db \in [Databases -> [exists : BOOLEAN, tables : BOOLEAN, legacy : BOOLEAN,
                             bound : AnyKey, rows : SUBSET (Keys \cup {OldKey})]]
    /\ proc \in [Procs -> [at : Stages, file : Databases, key : AnyKey]]
    /\ \A p \in Procs : proc[p].at \in {"loaded", "opened", "bound"} => proc[p].key # NoKey
    /\ owner \in Procs \cup {Nobody}
    /\ losses \in Nat

\* Whatever is created, lost and created again, the rows a database receives
\* are all hashed with the key it is bound to, so they can be found again
\* (learning._ensure_key_binding).
RowsUnderOneKey == \A d \in Databases : db[d].rows \subseteq {db[d].bound}

\* While no key was lost, no two processes ever make the account two: the stored
\* key is the one every database of it is bound to, and none is locked out
\* (learning.load_or_create_hmac_key).
NeverLockedOut ==
    losses = 0 => \A d \in Databases : db[d].bound # NoKey => stored = db[d].bound
=============================================================================
