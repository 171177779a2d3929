-------------------------- MODULE OperationLockProofs --------------------------
(***************************************************************************)
(* Safety of the account lock for any number of processes and any sequence *)
(* of crashes.  The argument is that the lock's name never changes inode   *)
(* once it has one, so that every descriptor ever opened contends for the  *)
(* same flock.                                                             *)
(***************************************************************************)
EXTENDS OperationLock, TLAPS

\* Every open descriptor is on the inode the path names.
OneInode == \A p \in Locking : fd[p] # NoInode => fd[p] = path

\* The processes inside the lock own it; an owner is inside the lock.
OwnersHold ==
    /\ \A p \in Locking : pc[p] \in Holding => owner[fd[p]] = p
    /\ \A i \in Inodes : owner[i] # NoProc => pc[owner[i]] \in Holding /\ fd[owner[i]] = i

\* The file names the process that is running its operation.
PidWritten == \A p \in Locking : pc[p] = "running" => text[fd[p]] = p

IInv == TypeOK /\ OneInode /\ OwnersHold /\ PidWritten

(***************************************************************************)
(* The inductive invariant holds initially.                                *)
(***************************************************************************)
LEMMA InitInductive == Init => IInv
<1> SUFFICES ASSUME Init PROVE IInv
    OBVIOUS
<1>1. TypeOK
    BY LockAssumption DEF Init, TypeOK, HasDescriptor, Holding
<1>2. OneInode /\ OwnersHold /\ PidWritten
    BY LockAssumption DEF Init, OneInode, OwnersHold, PidWritten, Holding
<1> QED
    BY <1>1, <1>2 DEF IInv

(***************************************************************************)
(* Opening never changes the name once it has an inode: the first opener   *)
(* creates the file and everyone after it opens the same one.              *)
(***************************************************************************)
LEMMA OpenInductive ==
    ASSUME IInv, NEW p \in Locking, Open(p)
    PROVE  IInv'
<1> USE LockAssumption DEF Holding, HasDescriptor
<1>1. PICK i \in Inodes :
         /\ IF path = NoInode THEN owner[i] = NoProc ELSE i = path
         /\ path' = i
         /\ fd' = [fd EXCEPT ![p] = i]
    BY DEF Open
<1>2. /\ pc[p] = "idle"
      /\ pc' = [pc EXCEPT ![p] = "opened"]
      /\ UNCHANGED <<owner, text>>
    BY DEF Open
<1>3. fd[p] = NoInode
    BY <1>2 DEF IInv, TypeOK
<1>4. TypeOK'
    BY <1>1, <1>2 DEF IInv, TypeOK
<1>5. OneInode'
  <2> SUFFICES ASSUME NEW q \in Locking, fd'[q] # NoInode
               PROVE  fd'[q] = path'
      BY DEF OneInode
  <2>1. CASE q = p
      BY <2>1, <1>1 DEF IInv, TypeOK
  <2>2. CASE q # p
      BY <2>2, <1>1 DEF IInv, TypeOK, OneInode
  <2> QED
      BY <2>1, <2>2
<1>6. OwnersHold'
  <2>1. \A q \in Locking : pc'[q] \in Holding => owner'[fd'[q]] = q
      BY <1>1, <1>2 DEF IInv, TypeOK, OwnersHold
  <2>2. ASSUME NEW j \in Inodes, owner'[j] # NoProc
        PROVE  pc'[owner'[j]] \in Holding /\ fd'[owner'[j]] = j
    <3>1. owner[j] # p
        BY <1>2 DEF IInv, OwnersHold
    <3> QED
        BY <3>1, <2>2, <1>1, <1>2 DEF IInv, TypeOK, OwnersHold
  <2> QED
      BY <2>1, <2>2 DEF OwnersHold
<1>7. PidWritten'
    BY <1>1, <1>2 DEF IInv, TypeOK, PidWritten
<1> QED
    BY <1>4, <1>5, <1>6, <1>7 DEF IInv

(***************************************************************************)
(* The kernel gives a free lock to one process.                            *)
(***************************************************************************)
LEMMA AcquireInductive ==
    ASSUME IInv, NEW p \in Locking, Acquire(p)
    PROVE  IInv'
<1> USE LockAssumption DEF Holding, HasDescriptor
<1>1. fd[p] \in Inodes /\ fd[p] = path
    BY DEF Acquire, IInv, TypeOK, OneInode
<1>2. TypeOK'
    BY <1>1 DEF Acquire, IInv, TypeOK
<1>3. OneInode' /\ PidWritten'
    BY DEF Acquire, IInv, TypeOK, OneInode, PidWritten
<1>4. OwnersHold'
  <2>1. ASSUME NEW q \in Locking, pc'[q] \in Holding
        PROVE  owner'[fd'[q]] = q
    <3>1. CASE q = p
        BY <3>1, <1>1 DEF Acquire, IInv, TypeOK
    <3>2. CASE q # p
      <4>1. pc[q] \in Holding /\ owner[fd[q]] = q
          BY <3>2, <2>1 DEF Acquire, IInv, TypeOK, OwnersHold
      <4>2. fd[q] # fd[p]
          BY <4>1 DEF Acquire
      <4> QED
          BY <4>1, <4>2, <1>1 DEF Acquire, IInv, TypeOK
    <3> QED
        BY <3>1, <3>2
  <2>2. ASSUME NEW j \in Inodes, owner'[j] # NoProc
        PROVE  pc'[owner'[j]] \in Holding /\ fd'[owner'[j]] = j
    <3>1. CASE j = fd[p]
        BY <3>1 DEF Acquire, IInv, TypeOK
    <3>2. CASE j # fd[p]
        BY <3>2, <2>2 DEF Acquire, IInv, TypeOK, OwnersHold
    <3> QED
        BY <3>1, <3>2
  <2> QED
      BY <2>1, <2>2 DEF OwnersHold
<1> QED
    BY <1>2, <1>3, <1>4 DEF IInv

(***************************************************************************)
(* Truncating and stamping the file touch the holder's inode only.         *)
(***************************************************************************)
LEMMA StampInductive ==
    ASSUME IInv, NEW p \in Locking, Truncate(p) \/ WritePid(p)
    PROVE  IInv'
<1> USE LockAssumption DEF Holding, HasDescriptor
<1>1. /\ pc[p] \in Holding
      /\ fd[p] \in Inodes
      /\ owner[fd[p]] = p
    BY DEF Truncate, WritePid, IInv, TypeOK, OwnersHold
<1>2. TypeOK' /\ OneInode' /\ OwnersHold'
    BY <1>1 DEF Truncate, WritePid, IInv, TypeOK, OneInode, OwnersHold
<1>3. PidWritten'
  <2> SUFFICES ASSUME NEW q \in Locking, pc'[q] = "running"
               PROVE  text'[fd'[q]] = q
      BY DEF PidWritten
  <2>1. CASE q = p
      BY <2>1, <1>1 DEF Truncate, WritePid, IInv, TypeOK
  <2>2. CASE q # p
    <3>1. pc[q] = "running" /\ text[fd[q]] = q /\ owner[fd[q]] = q
        BY <2>2 DEF Truncate, WritePid, IInv, TypeOK, OwnersHold, PidWritten
    <3>2. fd[q] # fd[p]
        BY <3>1, <2>2, <1>1
    <3> QED
        BY <3>1, <3>2, <1>1 DEF Truncate, WritePid, IInv, TypeOK
  <2> QED
      BY <2>1, <2>2
<1> QED
    BY <1>2, <1>3 DEF IInv

(***************************************************************************)
(* A descriptor that is closed by its holder frees the lock; one that is   *)
(* closed by another process leaves it alone.                              *)
(***************************************************************************)
LEMMA CloseInductive ==
    ASSUME IInv, NEW p \in Locking,
           Refuse(p) \/ EnterFails(p) \/ Exit(p) \/ Crash(p)
    PROVE  IInv'
<1> USE LockAssumption DEF Holding, HasDescriptor
<1> DEFINE closes == /\ fd' = [fd EXCEPT ![p] = NoInode]
                     /\ pc' \in {[pc EXCEPT ![p] = s] : s \in {"idle", "refused", "dead"}}
                     /\ UNCHANGED <<path, text>>
<1>1. fd[p] \in Inodes /\ fd[p] = path
    BY DEF Refuse, EnterFails, Exit, Crash, IInv, TypeOK, OneInode
<1>2. closes /\ \/ owner[fd[p]] # p /\ owner' = owner
                \/ owner[fd[p]] = p /\ owner' = [owner EXCEPT ![fd[p]] = NoProc]
  <2>1. CASE Refuse(p)
    <3>1. owner[fd[p]] # p
        BY <2>1, <1>1 DEF Refuse, IInv, TypeOK, OwnersHold
    <3> QED
        BY <3>1, <2>1 DEF Refuse
  <2>2. CASE EnterFails(p) \/ Exit(p)
    <3>1. owner[fd[p]] = p
        BY <2>2, <1>1 DEF EnterFails, Exit, IInv, TypeOK, OwnersHold
    <3> QED
        BY <3>1, <2>2 DEF EnterFails, Exit, Drop
  <2>3. CASE Crash(p)
      BY <2>3 DEF Crash, Drop
  <2> QED
      BY <2>1, <2>2, <2>3
<1>3. TypeOK'
    BY <1>1, <1>2 DEF IInv, TypeOK
<1>4. OneInode' /\ PidWritten'
    BY <1>1, <1>2 DEF IInv, TypeOK, OneInode, PidWritten
<1>5. OwnersHold'
  <2>1. ASSUME NEW q \in Locking, pc'[q] \in Holding
        PROVE  owner'[fd'[q]] = q
    <3>1. q # p /\ pc[q] \in Holding /\ owner[fd[q]] = q
        BY <2>1, <1>2 DEF IInv, TypeOK, OwnersHold
    <3> QED
        BY <3>1, <1>1, <1>2 DEF IInv, TypeOK
  <2>2. ASSUME NEW j \in Inodes, owner'[j] # NoProc
        PROVE  pc'[owner'[j]] \in Holding /\ fd'[owner'[j]] = j
    <3>1. owner'[j] = owner[j] /\ owner[j] # p
        BY <2>2, <1>1, <1>2 DEF IInv, TypeOK, OwnersHold
    <3> QED
        BY <3>1, <2>2, <1>2 DEF IInv, TypeOK, OwnersHold
  <2> QED
      BY <2>1, <2>2 DEF OwnersHold
<1> QED
    BY <1>3, <1>4, <1>5 DEF IInv

(***************************************************************************)
(* A retry does not touch the lock.                                        *)
(***************************************************************************)
LEMMA AgainInductive ==
    ASSUME IInv, NEW p \in Locking, Again(p)
    PROVE  IInv'
<1> USE LockAssumption DEF Holding, HasDescriptor
<1>1. /\ pc[p] \in {"refused", "dead"}
      /\ pc' = [pc EXCEPT ![p] = "idle"]
      /\ UNCHANGED <<path, owner, text, fd>>
    BY DEF Again
<1>2. TypeOK' /\ OneInode'
    BY <1>1 DEF IInv, TypeOK, OneInode
<1>3. OwnersHold' /\ PidWritten'
    BY <1>1 DEF IInv, TypeOK, OwnersHold, PidWritten
<1> QED
    BY <1>2, <1>3 DEF IInv

(***************************************************************************)
(* Every step keeps the inductive invariant.                               *)
(***************************************************************************)
LEMMA StepInductive == IInv /\ [Next]_vars => IInv'
<1> SUFFICES ASSUME IInv, [Next]_vars PROVE IInv'
    OBVIOUS
<1>1. CASE UNCHANGED vars
    BY <1>1 DEF vars, IInv, TypeOK, OneInode, OwnersHold, PidWritten
<1>2. ASSUME NEW p \in Locking, Open(p) PROVE IInv'
    BY <1>2, OpenInductive
<1>3. ASSUME NEW p \in Locking, Acquire(p) PROVE IInv'
    BY <1>3, AcquireInductive
<1>4. ASSUME NEW p \in Locking, Truncate(p) \/ WritePid(p) PROVE IInv'
    BY <1>4, StampInductive
<1>5. ASSUME NEW p \in Locking, Refuse(p) \/ EnterFails(p) \/ Exit(p) \/ Crash(p)
      PROVE  IInv'
    BY <1>5, CloseInductive
<1>6. ASSUME NEW p \in Locking, Again(p) PROVE IInv'
    BY <1>6, AgainInductive
<1> QED
    BY <1>1, <1>2, <1>3, <1>4, <1>5, <1>6 DEF Next, Enter

(***************************************************************************)
(* The inductive invariant is an invariant of the lock.                    *)
(***************************************************************************)
THEOREM LockInductive == Spec => []IInv
BY InitInductive, StepInductive, PTL DEF Spec

(***************************************************************************)
(* The lock's state keeps its types and its descriptor discipline.         *)
(***************************************************************************)
THEOREM LockTypes == Spec => []TypeOK
<1>1. IInv => TypeOK
    BY DEF IInv
<1> QED
    BY <1>1, LockInductive, PTL

(***************************************************************************)
(* No two operations that take the lock run at once: both descriptors are  *)
(* on the path's inode, which has one owner.                               *)
(***************************************************************************)
THEOREM LockExcludes == Spec => []MutualExclusion
<1>1. IInv => MutualExclusion
  <2> SUFFICES ASSUME IInv, NEW p \in Locking, NEW q \in Locking,
                      pc[p] = "running", pc[q] = "running"
               PROVE  p = q
      BY DEF MutualExclusion
  <2>1. fd[p] = path /\ fd[q] = path
      BY DEF IInv, TypeOK, OneInode, HasDescriptor, Holding
  <2> QED
      BY <2>1 DEF IInv, OwnersHold, Holding
<1> QED
    BY <1>1, LockInductive, PTL

(***************************************************************************)
(* A reader of the lock file is told the running operation and no other.   *)
(***************************************************************************)
THEOREM LockReported == Spec => []RunIsReported
<1>1. IInv => RunIsReported
  <2> SUFFICES ASSUME IInv, NEW p \in Locking, pc[p] = "running"
               PROVE  Holder = p
      BY DEF RunIsReported
  <2>1. fd[p] = path /\ path # NoInode
      BY DEF IInv, TypeOK, OneInode, HasDescriptor, Holding
  <2>2. text[path] = p
      BY <2>1 DEF IInv, PidWritten
  <2> QED
      BY <2>1, <2>2, LockAssumption DEF Holder
<1> QED
    BY <1>1, LockInductive, PTL

(***************************************************************************)
(* No failed entry, exit or crash leaves an inode locked.                  *)
(***************************************************************************)
THEOREM LockNotLeaked == Spec => []NoLeakedLock
<1>1. IInv => NoLeakedLock
    BY DEF IInv, OwnersHold, NoLeakedLock
<1> QED
    BY <1>1, LockInductive, PTL
=============================================================================
