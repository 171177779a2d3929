---------------------------- MODULE OperationLock ----------------------------
(***************************************************************************)
(* The per-account operation lock (src/inboxlume/operation_lock.py): a     *)
(* file taken with flock(2) and then stamped with the holder's pid.        *)
(* Desktop operations and scheduled runs enter it before they touch an     *)
(* account; terminal commands (cli.main) do not, and are not here.         *)
(* The POSIX branch is modelled; a crash closes the descriptor, which      *)
(* makes the kernel drop the lock and leaves the file contents alone.      *)
(***************************************************************************)
EXTENDS Naturals

CONSTANTS Locking,   \* processes that run an operation inside the lock
          Waiting,   \* those of them that pass wait=True (diagnostics)
          Inodes,    \* inodes the lock's path can come to name
          NoInode,
          NoProc

ASSUME LockAssumption ==
    /\ Waiting \subseteq Locking
    /\ NoInode \notin Inodes
    /\ NoProc \notin Locking

VARIABLES path,   \* the inode the lock file's name refers to
          owner,  \* per inode, the process the kernel gave the flock to
          text,   \* per inode, the pid written in the file (NoProc: blank)
          fd,     \* per process, the inode it has open
          pc      \* per process, how far __enter__ has come

vars == <<path, owner, text, fd, pc>>

Holding == {"locked", "truncated", "running"}
HasDescriptor == Holding \cup {"opened"}

Init ==
    /\ path = NoInode
    /\ owner = [i \in Inodes |-> NoProc]
    /\ text = [i \in Inodes |-> NoProc]
    /\ fd = [p \in Locking |-> NoInode]
    /\ pc = [p \in Locking |-> "idle"]

(***************************************************************************)
(* The type invariant, with the descriptor discipline: an attempt has the  *)
(* file open exactly while it asks for the lock or holds it.               *)
(***************************************************************************)
TypeOK ==
    /\ path \in Inodes \cup {NoInode}
    /\ owner \in [Inodes -> Locking \cup {NoProc}]
    /\ text \in [Inodes -> Locking \cup {NoProc}]
    /\ fd \in [Locking -> Inodes \cup {NoInode}]
    /\ pc \in [Locking -> {"idle", "opened", "locked", "truncated", "running",
                           "refused", "dead"}]
    /\ \A p \in Locking : fd[p] # NoInode <=> pc[p] \in HasDescriptor

(***************************************************************************)
(* __enter__: open the file (creating it once), ask for the lock, then     *)
(* truncate it and write the pid.                                          *)
(***************************************************************************)
\* Mutant: the file is opened with O_TRUNC, before the lock is granted.
OpenTruncating(p) ==
    /\ pc[p] = "idle"
    /\ \E i \in Inodes :
         /\ IF path = NoInode THEN owner[i] = NoProc ELSE i = path
         /\ path' = i
         /\ fd' = [fd EXCEPT ![p] = i]
         /\ text' = [text EXCEPT ![i] = NoProc]
    /\ pc' = [pc EXCEPT ![p] = "opened"]
    /\ UNCHANGED owner

Open(p) ==
    /\ pc[p] = "idle"
    /\ \E i \in Inodes :
         /\ IF path = NoInode THEN owner[i] = NoProc ELSE i = path
         /\ path' = i
         /\ fd' = [fd EXCEPT ![p] = i]
    /\ pc' = [pc EXCEPT ![p] = "opened"]
    /\ UNCHANGED <<owner, text>>

Acquire(p) ==
    /\ pc[p] = "opened"
    /\ owner[fd[p]] = NoProc
    /\ owner' = [owner EXCEPT ![fd[p]] = p]
    /\ pc' = [pc EXCEPT ![p] = "locked"]
    /\ UNCHANGED <<path, text, fd>>

\* LOCK_NB: an operation that does not wait is told a run is already going.
Refuse(p) ==
    /\ pc[p] = "opened"
    /\ p \notin Waiting
    /\ owner[fd[p]] # NoProc
    /\ fd' = [fd EXCEPT ![p] = NoInode]
    /\ pc' = [pc EXCEPT ![p] = "refused"]
    /\ UNCHANGED <<path, owner, text>>

Truncate(p) ==
    /\ pc[p] = "locked"
    /\ text' = [text EXCEPT ![fd[p]] = NoProc]
    /\ pc' = [pc EXCEPT ![p] = "truncated"]
    /\ UNCHANGED <<path, owner, fd>>

WritePid(p) ==
    /\ pc[p] = "truncated"
    /\ text' = [text EXCEPT ![fd[p]] = p]
    /\ pc' = [pc EXCEPT ![p] = "running"]
    /\ UNCHANGED <<path, owner, fd>>

\* Closing the last descriptor releases the flock; the name keeps its inode.
Drop(p) ==
    /\ owner' = [owner EXCEPT ![fd[p]] = NoProc]
    /\ fd' = [fd EXCEPT ![p] = NoInode]
    /\ UNCHANGED path

\* Mutant: a failed entry is reported but its descriptor is never closed.
EnterFailsLeaking(p) ==
    /\ pc[p] \in {"locked", "truncated"}
    /\ pc' = [pc EXCEPT ![p] = "refused"]
    /\ UNCHANGED <<path, owner, text, fd>>

\* The except clause of __enter__: ftruncate, write or fsync raised.
EnterFails(p) ==
    /\ pc[p] \in {"locked", "truncated"}
    /\ Drop(p)
    /\ pc' = [pc EXCEPT ![p] = "refused"]
    /\ UNCHANGED text

\* Mutant: __exit__ also unlinks the file.
ExitUnlinking(p) ==
    /\ pc[p] = "running"
    /\ owner' = [owner EXCEPT ![fd[p]] = NoProc]
    /\ fd' = [fd EXCEPT ![p] = NoInode]
    /\ path' = NoInode
    /\ pc' = [pc EXCEPT ![p] = "idle"]
    /\ UNCHANGED text

\* __exit__: unlock and close, leaving the file and the pid in it.
Exit(p) ==
    /\ pc[p] = "running"
    /\ Drop(p)
    /\ pc' = [pc EXCEPT ![p] = "idle"]
    /\ UNCHANGED text

\* The process ends at any point after it opened the file.
Crash(p) ==
    /\ pc[p] \in {"opened", "locked", "truncated", "running"}
    /\ IF owner[fd[p]] = p
       THEN Drop(p)
       ELSE fd' = [fd EXCEPT ![p] = NoInode] /\ UNCHANGED <<path, owner>>
    /\ pc' = [pc EXCEPT ![p] = "dead"]
    /\ UNCHANGED text

\* The user or the scheduler tries again: a refused attempt or a new process.
Again(p) ==
    /\ pc[p] \in {"refused", "dead"}
    /\ pc' = [pc EXCEPT ![p] = "idle"]
    /\ UNCHANGED <<path, owner, text, fd>>

Enter(p) == Open(p) \/ Acquire(p) \/ Refuse(p) \/ Truncate(p) \/ WritePid(p)

Next ==
    \E p \in Locking : Enter(p) \/ EnterFails(p) \/ Exit(p) \/ Crash(p) \/ Again(p)

(***************************************************************************)
(* Every operation ends and __enter__ never idles between its calls.  A    *)
(* blocked flock is queued by the kernel, so a waiter that keeps finding   *)
(* the lock released is granted it in the end (SF); a non-waiting attempt  *)
(* needs no such promise.                                                  *)
(***************************************************************************)
Fairness ==
    /\ \A p \in Locking :
         WF_vars(Refuse(p) \/ Truncate(p) \/ WritePid(p) \/ Exit(p))
    /\ \A p \in Waiting : SF_vars(Acquire(p))

Spec == Init /\ [][Next]_vars
FairSpec == Spec /\ Fairness

-----------------------------------------------------------------------------
\* operation_lock_holder: the pid in the file, if that process is alive.
Holder ==
    IF path = NoInode THEN NoProc
    ELSE IF text[path] = NoProc THEN NoProc
    ELSE IF pc[text[path]] \in {"idle", "dead"} THEN NoProc ELSE text[path]

(***************************************************************************)
(* Two operations that take the account lock never run at the same time,   *)
(* through crashes, failed entries and a waiter queued on the old inode    *)
(* (operation_lock.py, the comment in __exit__ about unlinking).           *)
(***************************************************************************)
MutualExclusion ==
    \A p, q \in Locking : pc[p] = "running" /\ pc[q] = "running" => p = q

(***************************************************************************)
(* While an operation runs inside the lock, a reader of the file is told   *)
(* about that operation and no other (operation_lock_holder), whatever     *)
(* refused or crashed attempts came before it.                             *)
(***************************************************************************)
RunIsReported ==
    \A p \in Locking : pc[p] = "running" => Holder = p

(***************************************************************************)
(* Only an operation that is inside the lock, or entering it, owns it: no  *)
(* failed entry, exit or crash leaves the account locked.                  *)
(***************************************************************************)
NoLeakedLock ==
    \A i \in Inodes : owner[i] # NoProc => pc[owner[i]] \in Holding

(***************************************************************************)
(* A diagnostic that waits for the lock is eventually past the wait: it    *)
(* runs, fails or is killed, but is never parked behind a dead holder.     *)
(***************************************************************************)
WaiterServed ==
    \A p \in Waiting : pc[p] = "opened" ~> pc[p] # "opened"
=============================================================================
