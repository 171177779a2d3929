-------------------------- MODULE DesktopSessionProofs --------------------------
(***************************************************************************)
(* What the window and the diagnostics file say of an operation, for any   *)
(* limits, chunk and file sizes, messages, questions, runs and mishaps.    *)
(***************************************************************************)
EXTENDS DesktopSession, SequenceTheorems, TLAPS

(***************************************************************************)
(* The diagnostics file.  Appending a record to the newest ones that fit   *)
(* leaves the newest ones that fit (diagnostics.append_diagnostic).        *)
(***************************************************************************)
Newest(records) ==
    LET n == Len(records)
    IN SubSeq(records, IF n < MaxRecords THEN 1 ELSE n - MaxRecords + 1, n)

\* A record appended to the tail of a file is the tail of the file it is appended to.
LEMMA AppendToTail ==
    ASSUME NEW S, NEW s \in Seq(S), NEW x \in S, NEW k \in 1..(Len(s) + 1)
    PROVE  Append(SubSeq(s, k, Len(s)), x) = SubSeq(Append(s, x), k, Len(s) + 1)
<1>1. Len(s) \in Nat /\ k \in Nat /\ k >= 1 /\ k <= Len(s) + 1
    OBVIOUS
<1>2. PICK n \in Nat : n = Len(s)
    BY <1>1
<1>3. PICK old : old = SubSeq(s, k, n)
    OBVIOUS
<1>4. /\ old \in Seq(S)
      /\ Len(old) = n - k + 1
      /\ \A i \in 1..(n - k + 1) : old[i] = s[k + i - 1]
  <2>1. \A i \in k..n : s[i] \in S
      BY <1>1, <1>2
  <2> QED
      BY <1>1, <1>2, <1>3, <2>1, SubSeqProperties
<1>5. PICK all : all = Append(s, x)
    OBVIOUS
<1>6. /\ all \in Seq(S)
      /\ Len(all) = n + 1
      /\ \A i \in 1..n : all[i] = s[i]
      /\ all[n + 1] = x
    BY <1>2, <1>5, AppendProperties
<1>7. PICK new : new = SubSeq(all, k, n + 1)
    OBVIOUS
<1>8. /\ new \in Seq(S)
      /\ Len(new) = n - k + 2
      /\ \A i \in 1..(n - k + 2) : new[i] = all[k + i - 1]
  <2>1. \A i \in k..(n + 1) : all[i] \in S
      BY <1>1, <1>2, <1>6
  <2> QED
      BY <1>1, <1>2, <1>7, <2>1, SubSeqProperties
<1>9. PICK t : t = Append(old, x)
    OBVIOUS
<1>10. /\ t \in Seq(S)
       /\ Len(t) = n - k + 2
       /\ \A i \in 1..(n - k + 1) : t[i] = old[i]
       /\ t[n - k + 2] = x
    BY <1>1, <1>2, <1>4, <1>9, AppendProperties
<1>11. ASSUME NEW i \in 1..(n - k + 2) PROVE t[i] = new[i]
  <2>1. new[i] = all[k + i - 1]
      BY <1>8
  <2>2. CASE i = n - k + 2
    <3>1. k + i - 1 = n + 1
        BY <1>1, <1>2, <2>2
    <3> QED
        BY <2>1, <2>2, <3>1, <1>6, <1>10
  <2>3. CASE i # n - k + 2
    <3>1. i \in 1..(n - k + 1) /\ k + i - 1 \in 1..n
        BY <1>1, <1>2, <2>3
    <3>2. t[i] = s[k + i - 1]
        BY <3>1, <1>4, <1>10
    <3>3. all[k + i - 1] = s[k + i - 1]
        BY <3>1, <1>6
    <3> QED
        BY <2>1, <3>2, <3>3
  <2> QED
      BY <2>2, <2>3
<1>12. t = new
    BY <1>8, <1>10, <1>11, SeqEqual
<1> QED
    BY <1>2, <1>3, <1>5, <1>7, <1>9, <1>12

\* What append_diagnostic writes is well-formed, bounded, and ends in the new record.
LEMMA RetainedIsNewest ==
    ASSUME NEW S, NEW records \in Seq(S), NEW record \in S
    PROVE  /\ Retained(Newest(records), record) = Newest(Append(records, record))
           /\ Retained(Newest(records), record) \in Seq(S)
           /\ Len(Retained(Newest(records), record)) \in 1..MaxRecords
           /\ Retained(Newest(records), record)[Len(Retained(Newest(records), record))] = record
<1>1. MaxRecords \in Nat /\ MaxRecords >= 1
    BY WorkerAssumption
<1>2. PICK n \in Nat : n = Len(records)
    OBVIOUS
<1>3. PICK all : all = Append(records, record)
    OBVIOUS
<1>4. all \in Seq(S) /\ Len(all) = n + 1 /\ all[n + 1] = record
    BY <1>2, <1>3, AppendProperties
<1>5. CASE n < MaxRecords
  <2>1. Newest(records) = records
      BY <1>2, <1>5, SubSeqFull DEF Newest
  <2>2. Retained(records, record) = all
      BY <1>2, <1>3, <1>5, SubSeqFull DEF Retained
  <2>3. Newest(all) = SubSeq(all, 1, n + 1)
    <3>1. PICK l \in Nat : l = n + 1
        OBVIOUS
    <3>2. l < MaxRecords \/ l - MaxRecords + 1 = 1
        BY <1>1, <1>5, <3>1
    <3>3. Len(all) = l
        BY <1>4, <3>1
    <3> QED
        BY <3>1, <3>2, <3>3 DEF Newest
  <2>4. Newest(all) = all
      BY <2>3, <1>4, SubSeqFull
  <2> QED
      BY <1>1, <1>2, <1>3, <1>4, <1>5, <2>1, <2>2, <2>4
<1>6. CASE ~(n < MaxRecords)
  <2>1. PICK k \in Nat : k = n - MaxRecords + 1
      BY <1>1, <1>6
  <2>2. k >= 1 /\ k <= n
      BY <1>1, <1>6, <2>1
  <2>3. PICK old : old = SubSeq(records, k, n)
      OBVIOUS
  <2>4. Newest(records) = old
      BY <1>2, <1>6, <2>1, <2>3 DEF Newest
  <2>5. /\ old \in Seq(S)
        /\ Len(old) = MaxRecords
        /\ \A i \in 1..MaxRecords : old[i] = records[k + i - 1]
    <3>1. \A i \in k..n : records[i] \in S
        BY <1>2, <2>2
    <3>2. n - k + 1 = MaxRecords
        BY <1>1, <2>1
    <3> QED
        BY <2>2, <2>3, <3>1, <3>2, SubSeqProperties
  <2>6. Retained(old, record) = Append(SubSeq(old, 2, MaxRecords), record)
      BY <1>1, <2>5 DEF Retained
  <2>7. SubSeq(old, 2, MaxRecords) = SubSeq(records, k + 1, n)
    <3>1. PICK u : u = SubSeq(old, 2, MaxRecords)
        OBVIOUS
    <3>2. PICK v : v = SubSeq(records, k + 1, n)
        OBVIOUS
    <3>3. /\ u \in Seq(S)
          /\ Len(u) = MaxRecords - 1
          /\ \A i \in 1..(MaxRecords - 1) : u[i] = old[i + 1]
      <4>1. \A i \in 2..MaxRecords : old[i] \in S
          BY <1>1, <2>5
      <4> QED
          BY <1>1, <3>1, <4>1, SubSeqProperties
    <3>4. /\ v \in Seq(S)
          /\ Len(v) = MaxRecords - 1
          /\ \A i \in 1..(MaxRecords - 1) : v[i] = records[k + i]
      <4>1. \A i \in (k + 1)..n : records[i] \in S
          BY <1>2, <2>2
      <4>2. n - (k + 1) + 1 = MaxRecords - 1
          BY <1>1, <2>1
      <4> QED
          BY <1>1, <2>2, <3>2, <4>1, <4>2, SubSeqProperties
    <3>5. ASSUME NEW i \in 1..(MaxRecords - 1) PROVE u[i] = v[i]
      <4>1. u[i] = old[i + 1] /\ v[i] = records[k + i]
          BY <3>3, <3>4
      <4>2. i + 1 \in 1..MaxRecords /\ k + (i + 1) - 1 = k + i
          BY <1>1
      <4>3. old[i + 1] = records[k + (i + 1) - 1]
          BY <2>5, <4>2
      <4> QED
          BY <4>1, <4>2, <4>3
    <3>6. u = v
        BY <1>1, <3>3, <3>4, <3>5, SeqEqual
    <3> QED
        BY <3>1, <3>2, <3>6
  <2>8. Append(SubSeq(records, k + 1, n), record) = SubSeq(all, k + 1, n + 1)
    <3>1. k + 1 \in 1..(Len(records) + 1)
        BY <1>2, <2>1, <2>2
    <3> QED
        BY <1>2, <1>3, <3>1, AppendToTail
  <2>9. Newest(all) = SubSeq(all, k + 1, n + 1)
    <3>1. PICK l \in Nat : l = n + 1
        OBVIOUS
    <3>2. ~(l < MaxRecords) /\ l - MaxRecords + 1 = k + 1
        BY <1>1, <1>6, <2>1, <3>1
    <3>3. Len(all) = l
        BY <1>4, <3>1
    <3> QED
        BY <3>1, <3>2, <3>3 DEF Newest
  <2>10. /\ SubSeq(all, k + 1, n + 1) \in Seq(S)
         /\ Len(SubSeq(all, k + 1, n + 1)) = MaxRecords
         /\ SubSeq(all, k + 1, n + 1)[MaxRecords] = record
    <3>1. \A i \in (k + 1)..(n + 1) : all[i] \in S
        BY <1>4, <2>2
    <3>2. n + 1 - (k + 1) + 1 = MaxRecords /\ (k + 1) + MaxRecords - 1 = n + 1
        BY <1>1, <2>1
    <3> QED
        BY <1>1, <1>4, <2>2, <3>1, <3>2, SubSeqProperties
  <2>11. Retained(Newest(records), record) = Newest(all)
      BY <2>4, <2>6, <2>7, <2>8, <2>9
  <2>12. /\ Newest(all) \in Seq(S)
         /\ Len(Newest(all)) = MaxRecords
         /\ Newest(all)[MaxRecords] = record
      BY <2>9, <2>10
  <2> QED
      BY <1>1, <1>3, <2>11, <2>12
<1> QED
    BY <1>5, <1>6

-----------------------------------------------------------------------------
(***************************************************************************)
(* The processes.  What holds of them, the account's lock, the diagnostics *)
(* file and the effects on the mailbox, whatever the window does.          *)
(***************************************************************************)
Ends == {"completed", "failed", "cancelled"}
Statuses == Ends \cup {"none", "killed"}
Outcomes == {"none", "changed", "unchanged", "unknown"}
Records == [run : Nat, status : Statuses, outcome : Outcomes]
Events == [type : Ends \cup {"candidate"}, outcome : Outcomes, question : Nat]

Jobs == [pc : Alive \cup {"none", "gone"}, kind : {"none", "scan", "quiz"}, run : Nat,
         unlimited : BOOLEAN, chunk : Nat, mutating : BOOLEAN, applied : BOOLEAN,
         changed : BOOLEAN, status : Statuses, draft : Seq(Records)]

WorkerTypes ==
    /\ job \in [Processes -> Jobs]
    /\ lock \in Processes \cup {NoProcess}
    /\ logLock \in Processes \cup {NoProcess}
    /\ fresh \in 0..Fresh
    /\ log \in Seq(Records)
    /\ appended \in Seq(Records)
    /\ pipe \in Seq(Events)
    /\ effects \in Seq({"none", "changed", "marked"})

\* An operation that has not come to its end yet.
Before == Working \cup {"booting"}

\* Where it stands: its lock, its batch and its run, of which nothing is recorded
\* before its end.
Placed(p) ==
    /\ job[p].pc \in Working \ {"startup"} => lock = p
    /\ job[p].chunk <= Fresh + Unclassifiable
    /\ job[p].run \in Runs \cup {0}
    /\ job[p].pc \in Alive => job[p].run \in Runs /\ job[p].kind \in {"scan", "quiz"}
    /\ job[p].pc \in {"classification", "mailbox_actions", "raising", "recording", "replacing"}
         => job[p].kind = "scan"
    /\ job[p].pc \in {"asking", "reading"} => job[p].kind = "quiz"
    /\ job[p].pc \in Before =>
         /\ job[p].status = "none"
         /\ \A i \in DOMAIN appended : appended[i].run # job[p].run
    /\ job[p].pc \in Reporting => job[p].status \in Ends

\* What it knows of the changes it has made.
Aware(p) ==
    /\ job[p].pc \in {"mailbox_actions", "raising"} => job[p].mutating
    /\ job[p].pc \in Alive /\ effects[job[p].run] = "changed" =>
         /\ job[p].kind = "scan"
         /\ job[p].mutating
         /\ job[p].status = "completed" => job[p].changed
         /\ job[p].pc \in {"booting", "startup", "classification", "mailbox_actions"}
              => job[p].changed \/ job[p].applied

\* The file it is about to put in place is the one on disk and its own record.
Drafted(p) == job[p].pc = "replacing" => logLock = p /\ job[p].draft = Successor(p)

JobOK(p) == Placed(p) /\ Aware(p) /\ Drafted(p)

Apart ==
    job["desktop"].pc \in Alive /\ job["scheduled"].pc \in Alive
    => job["desktop"].run # job["scheduled"].run

RecordsTrue ==
    \A i \in DOMAIN appended :
        /\ appended[i].run <= Len(effects)
        /\ appended[i].outcome = "unchanged" /\ appended[i].run # 0
             => Untouched(appended[i].run)

WorkerInv ==
    /\ WorkerTypes
    /\ \A p \in Processes : JobOK(p)
    /\ Apart
    /\ RecordsTrue
    /\ NoRecordLost

(***************************************************************************)
(* A process is not concerned by what another does to its own locks and    *)
(* its own run.                                                            *)
(***************************************************************************)
LEMMA Bystander ==
    ASSUME WorkerTypes, NEW q \in Processes, JobOK(q), job'[q] = job[q],
           lock = q => lock' = q,
           logLock = q => logLock' = q /\ log' = log,
           Len(effects') \in Nat, Len(effects) <= Len(effects'),
           job[q].pc \in Alive /\ effects'[job[q].run] = "changed"
              => effects[job[q].run] = "changed",
           \A i \in DOMAIN appended' :
              \/ i \in DOMAIN appended /\ appended'[i] = appended[i]
              \/ appended'[i].run # job[q].run
    PROVE  JobOK(q)'
<1>1. Placed(q)'
    BY DEF JobOK, Placed, Runs, WorkerTypes
<1>2. Aware(q)'
    BY DEF JobOK, Aware
<1>3. Drafted(q)'
    BY DEF JobOK, Drafted, Successor, WorkerTypes
<1> QED
    BY <1>1, <1>2, <1>3 DEF JobOK

(***************************************************************************)
(* A step that moves one process on, and changes neither the mailbox nor   *)
(* the diagnostics file, is right if it is right for that process.         *)
(***************************************************************************)
LEMMA OneMoves ==
    ASSUME WorkerInv, NEW p \in Processes,
           job' \in [Processes -> Jobs], \A q \in Processes \ {p} : job'[q] = job[q],
           UNCHANGED <<log, effects, appended>>,
           lock' \in Processes \cup {NoProcess},
           logLock' \in Processes \cup {NoProcess},
           \A q \in Processes \ {p} : (lock = q => lock' = q) /\ (logLock = q => logLock' = q),
           fresh' \in 0..Fresh, pipe' \in Seq(Events),
           JobOK(p)',
           job'[p].pc \in Alive => job[p].pc \in Alive /\ job'[p].run = job[p].run
    PROVE  WorkerInv'
<1>1. WorkerTypes'
    BY DEF WorkerInv, WorkerTypes
<1>2. ASSUME NEW q \in Processes PROVE JobOK(q)'
  <2>1. CASE q = p
      BY <2>1
  <2>2. CASE q # p
      BY <2>2, Bystander DEF WorkerInv, WorkerTypes
  <2> QED
      BY <2>1, <2>2
<1>3. Apart'
    BY DEF WorkerInv, Apart, Processes
<1>4. RecordsTrue' /\ NoRecordLost'
    BY DEF WorkerInv, RecordsTrue, Untouched, NoRecordLost
<1> QED
    BY <1>1, <1>2, <1>3, <1>4 DEF WorkerInv

(***************************************************************************)
(* A job stays well-typed when one of its fields is set.                   *)
(***************************************************************************)
LEMMA JobSet ==
    ASSUME NEW j \in Jobs
    PROVE  /\ \A x \in Alive \cup {"none", "gone"} : [j EXCEPT !.pc = x] \in Jobs
           /\ \A x \in Nat : [j EXCEPT !.chunk = x] \in Jobs
           /\ \A x \in BOOLEAN : /\ [j EXCEPT !.mutating = x] \in Jobs
                                 /\ [j EXCEPT !.applied = x] \in Jobs
                                 /\ [j EXCEPT !.changed = x] \in Jobs
           /\ \A x \in Statuses : [j EXCEPT !.status = x] \in Jobs
           /\ \A x \in Seq(Records) : [j EXCEPT !.draft = x] \in Jobs
<1> DEFINE Fine == Alive \cup {"none", "gone"}
           Drafts == Seq(Records)
<1>1. Jobs = [pc : Fine, kind : {"none", "scan", "quiz"}, run : Nat,
              unlimited : BOOLEAN, chunk : Nat, mutating : BOOLEAN, applied : BOOLEAN,
              changed : BOOLEAN, status : Statuses, draft : Drafts]
    BY DEF Jobs
<1> HIDE DEF Fine, Drafts
<1>2. /\ \A x \in Fine : [j EXCEPT !.pc = x] \in Jobs
      /\ \A x \in Nat : [j EXCEPT !.chunk = x] \in Jobs
      /\ \A x \in Statuses : [j EXCEPT !.status = x] \in Jobs
      /\ \A x \in Drafts : [j EXCEPT !.draft = x] \in Jobs
    BY <1>1
<1>3. \A x \in BOOLEAN : /\ [j EXCEPT !.mutating = x] \in Jobs
                         /\ [j EXCEPT !.applied = x] \in Jobs
                         /\ [j EXCEPT !.changed = x] \in Jobs
    BY <1>1
<1> QED
    BY <1>2, <1>3 DEF Fine, Drafts

(***************************************************************************)
(* Where a step leaves its process's job.                                  *)
(***************************************************************************)
LEMMA JobBecomes ==
    ASSUME WorkerInv, NEW p \in Processes, NEW j \in Jobs, job' = [job EXCEPT ![p] = j]
    PROVE  /\ job[p] \in Jobs
           /\ job' \in [Processes -> Jobs]
           /\ job'[p] = j
           /\ \A q \in Processes \ {p} : job'[q] = job[q]
    BY DEF WorkerInv, WorkerTypes

(***************************************************************************)
(* A process's own steps that leave the mailbox and the file alone: from   *)
(* its start to the lock, through its batches and questions, to its end.   *)
(***************************************************************************)
LEMMA BootKept == ASSUME WorkerInv, NEW p \in Processes, Boot(p) PROVE WorkerInv'
<1>0. job[p] \in Jobs /\ [job[p] EXCEPT !.pc = "startup"] \in Jobs
    BY JobSet DEF WorkerInv, WorkerTypes, Alive, Working
<1>1. /\ job[p].pc = "booting"
      /\ job' \in [Processes -> Jobs]
      /\ job'[p] = [job[p] EXCEPT !.pc = "startup"]
      /\ \A q \in Processes \ {p} : job'[q] = job[q]
    BY <1>0, JobBecomes DEF Boot, Goto
<1>2. UNCHANGED <<lock, fresh, log, logLock, pipe, effects, appended>>
    BY DEF Boot
<1>3. JobOK(p)'
    BY <1>0, <1>1, <1>2
    DEF WorkerInv, JobOK, Placed, Aware, Drafted, Jobs, Alive, Working, Reporting, Before, Runs
<1> QED
    BY <1>0, <1>1, <1>2, <1>3, OneMoves DEF WorkerInv, WorkerTypes, Alive, Jobs

\* The lock is granted to the process that asked for it.
LEMMA EnterKept == ASSUME WorkerInv, NEW p \in Processes, EnterLock(p) PROVE WorkerInv'
<1>0. PICK next \in {"classification", "asking"} :
         /\ next = IF job[p].kind = "scan" THEN "classification" ELSE "asking"
         /\ job' = [job EXCEPT ![p].pc = next]
    BY DEF EnterLock, Goto
<1>a. job[p] \in Jobs /\ [job[p] EXCEPT !.pc = next] \in Jobs
    BY JobSet DEF WorkerInv, WorkerTypes, Alive, Working
<1>1. /\ job[p] \in Jobs /\ job[p].pc = "startup"
      /\ job' \in [Processes -> Jobs]
      /\ job'[p] = [job[p] EXCEPT !.pc = next]
      /\ \A q \in Processes \ {p} : job'[q] = job[q]
    BY <1>0, <1>a, JobBecomes DEF EnterLock
<1>2. /\ lock = NoProcess /\ lock' = p
      /\ UNCHANGED <<fresh, log, logLock, pipe, effects, appended>>
    BY DEF EnterLock
<1>3. JobOK(p)'
  <2>1. Placed(p)'
      BY <1>0, <1>1, <1>2
      DEF WorkerInv, JobOK, Placed, Jobs, Alive, Working, Reporting, Before, Runs
  <2>2. Aware(p)' /\ Drafted(p)'
      BY <1>0, <1>1, <1>2, <2>1
      DEF WorkerInv, JobOK, Placed, Aware, Drafted, Jobs, Alive, Working, Before
  <2> QED
      BY <2>1, <2>2 DEF JobOK
<1>4. job[p].pc \in Alive /\ job'[p].run = job[p].run
    BY <1>1 DEF Alive, Working, Jobs
<1>5. \A q \in Processes : lock # q
    BY <1>2 DEF Processes, NoProcess
<1>6. fresh \in 0..Fresh /\ pipe \in Seq(Events) /\ logLock \in Processes \cup {NoProcess}
    BY DEF WorkerInv, WorkerTypes
<1> QED
    BY <1>1, <1>2, <1>3, <1>4, <1>5, <1>6, OneMoves

(***************************************************************************)
(* A live process that moves on within its run.                            *)
(***************************************************************************)
LEMMA LiveMoves ==
    ASSUME WorkerInv, NEW p \in Processes, NEW j \in Jobs, job' = [job EXCEPT ![p] = j],
           job[p].pc \in Alive, j.run = job[p].run,
           UNCHANGED <<log, effects, appended>>,
           lock' \in Processes \cup {NoProcess},
           logLock' \in Processes \cup {NoProcess},
           \A q \in Processes \ {p} : (lock = q => lock' = q) /\ (logLock = q => logLock' = q),
           fresh' \in 0..Fresh, pipe' \in Seq(Events),
           JobOK(p)'
    PROVE  WorkerInv'
    BY JobBecomes, OneMoves

(***************************************************************************)
(* What a message count and a lock can become.                             *)
(***************************************************************************)
LEMMA BatchSize ==
    ASSUME WorkerInv, NEW p \in Processes
    PROVE  /\ Batch(job[p]) \in 0..(Fresh + Unclassifiable)
           /\ Smaller(fresh, Batch(job[p])) \in 0..fresh
           /\ fresh \in 0..Fresh
    BY WorkerAssumption DEF WorkerInv, WorkerTypes, Batch, Smaller

\* A lock that is left is free or somebody else's.
LEMMA LocksLeft ==
    ASSUME WorkerInv, NEW p \in Processes
    PROVE  /\ LeaveLock(p) => /\ lock' \in Processes \cup {NoProcess}
                              /\ \A q \in Processes \ {p} : lock = q => lock' = q
           /\ LeaveLogLock(p) => /\ logLock' \in Processes \cup {NoProcess}
                                 /\ \A q \in Processes \ {p} : logLock = q => logLock' = q
           /\ lock \in Processes \cup {NoProcess} /\ logLock \in Processes \cup {NoProcess}
           /\ fresh \in 0..Fresh /\ pipe \in Seq(Events)
    BY DEF WorkerInv, WorkerTypes, LeaveLock, LeaveLogLock

\* A batch is classified, and the run notes that mailbox actions begin.
LEMMA AnalyseKept == ASSUME WorkerInv, NEW p \in Processes, Analyse(p) PROVE WorkerInv'
<1>1. PICK size \in 0..(Fresh + Unclassifiable), f \in 0..fresh :
         /\ size = Batch(job[p])
         /\ fresh' = fresh - f
         /\ job' = [job EXCEPT ![p].pc = "mailbox_actions", ![p].chunk = size,
                               ![p].mutating = TRUE]
  <2>1. PICK f \in 0..Smaller(fresh, Batch(job[p])) : fresh' = fresh - f
      BY DEF Analyse
  <2>2. f \in 0..fresh
      BY <2>1, BatchSize
  <2> QED
      BY <2>1, <2>2, BatchSize DEF Analyse
<1> DEFINE j == [job[p] EXCEPT !.pc = "mailbox_actions", !.chunk = size, !.mutating = TRUE]
<1>2. job[p] \in Jobs /\ job[p].pc = "classification"
    BY DEF WorkerInv, WorkerTypes, Analyse
<1>a. size \in Nat /\ size <= Fresh + Unclassifiable
    BY WorkerAssumption
<1>3. j \in Jobs
    BY <1>a, <1>2, JobSet DEF Alive, Working
<1>4. job' = [job EXCEPT ![p] = j] /\ UNCHANGED <<lock, log, logLock, pipe, effects, appended>>
    BY <1>1 DEF Analyse
<1>5. fresh' \in 0..Fresh
    BY <1>1, BatchSize, WorkerAssumption
<1>6. /\ j.pc = "mailbox_actions" /\ j.chunk = size /\ j.mutating
      /\ j.kind = job[p].kind /\ j.run = job[p].run /\ j.status = job[p].status
      /\ j.changed = job[p].changed /\ j.applied = job[p].applied
    BY <1>2 DEF Jobs
<1> HIDE DEF j
<1>7. JobOK(p)'
  <2>1. job'[p] = j
      BY <1>3, <1>4, JobBecomes
  <2>2. JobOK(p) /\ job[p].pc \in Working /\ job[p].pc \in Alive /\ job[p].pc \in Before
      BY <1>2 DEF WorkerInv, Working, Alive, Before
  <2>3. Placed(p)'
      BY <1>a, <1>2, <1>4, <1>6, <2>1, <2>2
      DEF JobOK, Placed, Working, Reporting, Alive, Before, Runs
  <2>4. Aware(p)' /\ Drafted(p)'
      BY <1>2, <1>4, <1>6, <2>1, <2>2 DEF JobOK, Placed, Aware, Drafted
  <2> QED
      BY <2>3, <2>4 DEF JobOK
<1> QED
    BY <1>2, <1>3, <1>4, <1>5, <1>6, <1>7, LocksLeft, LiveMoves DEF Alive, Working

\* A chunk ends in the next one or in the run's end, with its changes merged.
LEMMA EndChunkKept == ASSUME WorkerInv, NEW p \in Processes, EndChunk(p) PROVE WorkerInv'
<1>1. PICK next \in {"classification", "recording"}, status \in {"none", "completed"} :
         /\ next = "recording" <=> status = "completed"
         /\ job' = [job EXCEPT ![p].changed = Merged(job[p]),
                      ![p].chunk = 0, ![p].applied = FALSE,
                      ![p].pc = next, ![p].status = status]
    BY DEF EndChunk
<1> DEFINE j == [job[p] EXCEPT !.changed = Merged(job[p]), !.chunk = 0, !.applied = FALSE,
                               !.pc = next, !.status = status]
<1>2. job[p] \in Jobs /\ job[p].pc = "mailbox_actions"
    BY DEF WorkerInv, WorkerTypes, EndChunk
<1>3. Merged(job[p]) \in BOOLEAN /\ (Merged(job[p]) <=> job[p].changed \/ job[p].applied)
    BY <1>2 DEF Merged, Jobs
<1>4. j \in Jobs
    BY <1>2, <1>3, JobSet DEF Alive, Working, Reporting, Statuses, Ends
<1>5. job' = [job EXCEPT ![p] = j] /\ UNCHANGED <<lock, fresh, log, logLock, pipe, effects, appended>>
    BY <1>1 DEF EndChunk
<1>6. /\ j.pc = next /\ j.chunk = 0 /\ j.mutating = job[p].mutating
      /\ j.kind = job[p].kind /\ j.run = job[p].run /\ j.status = status
      /\ j.changed = Merged(job[p])
    BY <1>2, <1>3 DEF Jobs
<1> HIDE DEF j
<1>7. JobOK(p)'
  <2>1. job'[p] = j
      BY <1>4, <1>5, JobBecomes
  <2>2. JobOK(p) /\ job[p].pc \in Working \ {"startup"} /\ job[p].pc \in Alive /\ job[p].pc \in Before
      BY <1>2 DEF WorkerInv, Working, Alive, Before
  <2>a. 0 <= Fresh + Unclassifiable
      BY WorkerAssumption
  <2>3. Placed(p)'
      BY <1>1, <1>2, <1>5, <1>6, <2>1, <2>2, <2>a
      DEF JobOK, Placed, Working, Reporting, Alive, Before, Runs, Ends
  <2>4. Aware(p)' /\ Drafted(p)'
      BY <1>1, <1>2, <1>3, <1>5, <1>6, <2>1, <2>2 DEF JobOK, Placed, Aware, Drafted
  <2> QED
      BY <2>3, <2>4 DEF JobOK
<1> QED
    BY <1>2, <1>4, <1>5, <1>6, <1>7, LocksLeft, LiveMoves DEF Alive, Working

\* An exception or a cancel, out of the work or out of its reporting.
LEMMA UnwindKept ==
    ASSUME WorkerInv, NEW p \in Processes, NEW status \in {"failed", "cancelled"},
           job[p].pc \in Working \cup Reporting, Unwind(p, status)
    PROVE  WorkerInv'
<1>1. PICK next \in {"recording", "telling"} :
         /\ next = "recording" <=> job[p].kind = "scan"
         /\ job' = [job EXCEPT ![p].status = status, ![p].draft = <<>>, ![p].pc = next]
    BY DEF Unwind
<1> DEFINE j == [job[p] EXCEPT !.status = status, !.draft = <<>>, !.pc = next]
<1>2. job[p] \in Jobs /\ job[p].pc \in Alive
    BY DEF WorkerInv, WorkerTypes, Alive
<1>3. <<>> \in Seq(Records)
    BY EmptySeq
<1>4. j \in Jobs
    BY <1>2, <1>3, JobSet DEF Alive, Reporting, Statuses, Ends
<1>5. /\ job' = [job EXCEPT ![p] = j] /\ UNCHANGED <<fresh, log, pipe, effects, appended>>
      /\ LeaveLock(p) /\ LeaveLogLock(p)
    BY <1>1 DEF Unwind
<1>6. /\ j.pc = next /\ j.chunk = job[p].chunk /\ j.mutating = job[p].mutating
      /\ j.kind = job[p].kind /\ j.run = job[p].run /\ j.status = status
    BY <1>2 DEF Jobs
<1> HIDE DEF j
<1>7. JobOK(p)'
  <2>1. job'[p] = j
      BY <1>4, <1>5, JobBecomes
  <2>2. JobOK(p)
      BY DEF WorkerInv
  <2>3. Placed(p)'
      BY <1>1, <1>2, <1>5, <1>6, <2>1, <2>2
      DEF JobOK, Placed, Working, Reporting, Alive, Before, Runs, Ends
  <2>4. Aware(p)' /\ Drafted(p)'
      BY <1>1, <1>2, <1>5, <1>6, <2>1, <2>2 DEF JobOK, Placed, Aware, Drafted
  <2> QED
      BY <2>3, <2>4 DEF JobOK
<1> QED
    BY <1>2, <1>4, <1>5, <1>6, <1>7, LocksLeft, LiveMoves

\* The draft of the diagnostics file is written under its lock.
LEMMA OpenLogKept == ASSUME WorkerInv, NEW p \in Processes, OpenLog(p) PROVE WorkerInv'
<1> DEFINE j == [job[p] EXCEPT !.pc = "replacing", !.draft = Successor(p)]
<1>1. job[p] \in Jobs /\ job[p].pc = "recording" /\ JobOK(p)
    BY DEF WorkerInv, WorkerTypes, OpenLog
<1>2. Successor(p) \in Seq(Records)
  <2>1. Record(job[p].run, job[p].status, Outcome(job[p])) \in Records
      BY <1>1 DEF Record, Records, Jobs, Outcome, CompletedOutcome, TerminalOutcome, Outcomes
  <2>2. appended \in Seq(Records) /\ log = Newest(appended)
      BY DEF WorkerInv, WorkerTypes, NoRecordLost, Newest
  <2> QED
      BY <2>1, <2>2, RetainedIsNewest DEF Successor
<1>3. j \in Jobs
    BY <1>1, <1>2, JobSet DEF Alive, Reporting
<1>4. /\ job' = [job EXCEPT ![p] = j]
      /\ UNCHANGED <<lock, fresh, log, pipe, effects, appended>>
      /\ logLock = NoProcess /\ logLock' = p
    BY DEF OpenLog
<1>5. /\ j.pc = "replacing" /\ j.draft = Successor(p)
      /\ j.chunk = job[p].chunk /\ j.mutating = job[p].mutating
      /\ j.kind = job[p].kind /\ j.run = job[p].run /\ j.status = job[p].status
      /\ j.changed = job[p].changed
    BY <1>1 DEF Jobs
<1>6. job'[p] = j
    BY <1>3, <1>4, JobBecomes
<1> HIDE DEF j
<1>7. JobOK(p)'
  <2>1. Placed(p)'
      BY <1>1, <1>4, <1>5, <1>6
      DEF JobOK, Placed, Working, Reporting, Alive, Before, Runs
  <2>2. Aware(p)'
      BY <1>1, <1>4, <1>5, <1>6 DEF JobOK, Aware, Alive, Reporting
  <2>3. Outcome(j) = Outcome(job[p])
      BY <1>5 DEF Outcome, CompletedOutcome, TerminalOutcome
  <2>4. Successor(p)' = Successor(p)
      BY <1>4, <1>5, <1>6, <2>3 DEF Successor
  <2> QED
      BY <1>4, <1>5, <1>6, <2>1, <2>2, <2>4 DEF JobOK, Drafted
<1>8. \A q \in Processes : logLock # q
    BY <1>4 DEF Processes, NoProcess
<1> QED
    BY <1>1, <1>3, <1>4, <1>5, <1>7, <1>8, LocksLeft, LiveMoves DEF Alive, Reporting

\* A record that cannot be written leaves the file as it is.
LEMMA RecordFailsKept == ASSUME WorkerInv, NEW p \in Processes, RecordFails(p) PROVE WorkerInv'
<1> DEFINE j == [job[p] EXCEPT !.pc = "telling", !.draft = <<>>]
<1>1. /\ job[p] \in Jobs /\ job[p].pc \in {"recording", "replacing"} /\ JobOK(p)
      /\ <<>> \in Seq(Records)
    BY EmptySeq DEF WorkerInv, WorkerTypes, RecordFails
<1>2. j \in Jobs
    BY <1>1, JobSet DEF Alive, Reporting
<1>3. /\ job' = [job EXCEPT ![p] = j]
      /\ UNCHANGED <<lock, fresh, log, pipe, effects, appended>>
      /\ LeaveLogLock(p)
    BY DEF RecordFails
<1>4. /\ j.pc = "telling"
      /\ j.chunk = job[p].chunk /\ j.mutating = job[p].mutating
      /\ j.kind = job[p].kind /\ j.run = job[p].run /\ j.status = job[p].status
      /\ j.changed = job[p].changed
    BY <1>1 DEF Jobs
<1>5. job'[p] = j
    BY <1>2, <1>3, JobBecomes
<1> HIDE DEF j
<1>6. JobOK(p)'
  <2>1. Placed(p)'
      BY <1>1, <1>3, <1>4, <1>5
      DEF JobOK, Placed, Working, Reporting, Alive, Before, Runs
  <2>2. Aware(p)' /\ Drafted(p)'
      BY <1>1, <1>3, <1>4, <1>5 DEF JobOK, Aware, Drafted, Alive, Reporting
  <2> QED
      BY <2>1, <2>2 DEF JobOK
<1> QED
    BY <1>1, <1>2, <1>3, <1>4, <1>6, LocksLeft, LiveMoves DEF Alive, Reporting

\* The terminal event is written.
LEMMA TellKept == ASSUME WorkerInv, NEW p \in Processes, Tell(p) PROVE WorkerInv'
<1> DEFINE j == [job[p] EXCEPT !.pc = "leaving"]
<1>1. job[p] \in Jobs /\ job[p].pc = "telling" /\ JobOK(p)
    BY DEF WorkerInv, WorkerTypes, Tell
<1>2. j \in Jobs
    BY <1>1, JobSet DEF Alive, Reporting
<1>3. /\ job' = [job EXCEPT ![p] = j]
      /\ UNCHANGED <<lock, fresh, log, logLock, effects, appended>>
    BY DEF Tell, Goto
<1>4. pipe' \in Seq(Events)
  <2>1. Event(job[p].status, Outcome(job[p]), 0) \in Events
      BY <1>1 DEF Event, Events, JobOK, Placed, Reporting, Outcome, CompletedOutcome,
         TerminalOutcome, Outcomes
  <2> QED
      BY <2>1, LocksLeft, AppendProperties DEF Tell
<1>5. /\ j.pc = "leaving"
      /\ j.chunk = job[p].chunk /\ j.mutating = job[p].mutating
      /\ j.kind = job[p].kind /\ j.run = job[p].run /\ j.status = job[p].status
      /\ j.changed = job[p].changed
    BY <1>1 DEF Jobs
<1>6. job'[p] = j
    BY <1>2, <1>3, JobBecomes
<1> HIDE DEF j
<1>7. JobOK(p)'
  <2>1. Placed(p)'
      BY <1>1, <1>3, <1>5, <1>6
      DEF JobOK, Placed, Working, Reporting, Alive, Before, Runs
  <2>2. Aware(p)' /\ Drafted(p)'
      BY <1>1, <1>3, <1>5, <1>6 DEF JobOK, Aware, Drafted, Alive, Reporting
  <2> QED
      BY <2>1, <2>2 DEF JobOK
<1> QED
    BY <1>1, <1>2, <1>3, <1>4, <1>5, <1>7, LocksLeft, LiveMoves DEF Alive, Reporting

\* A process that hangs keeps what it holds.
LEMMA HangKept == ASSUME WorkerInv, NEW p \in Processes, Hang(p) PROVE WorkerInv'
<1> DEFINE j == [job[p] EXCEPT !.pc = "hung"]
<1>1. job[p] \in Jobs /\ job[p].pc \in {"classification", "asking"} /\ JobOK(p)
    BY DEF WorkerInv, WorkerTypes, Hang
<1>2. j \in Jobs
    BY <1>1, JobSet DEF Alive
<1>3. /\ job' = [job EXCEPT ![p] = j]
      /\ UNCHANGED <<lock, fresh, log, logLock, pipe, effects, appended>>
    BY DEF Hang, Goto
<1>4. /\ j.pc = "hung"
      /\ j.chunk = job[p].chunk /\ j.mutating = job[p].mutating
      /\ j.kind = job[p].kind /\ j.run = job[p].run /\ j.status = job[p].status
      /\ j.changed = job[p].changed
    BY <1>1 DEF Jobs
<1>5. job'[p] = j
    BY <1>2, <1>3, JobBecomes
<1> HIDE DEF j
<1>6. JobOK(p)'
  <2>1. Placed(p)'
      BY <1>1, <1>3, <1>4, <1>5
      DEF JobOK, Placed, Working, Reporting, Alive, Before, Runs
  <2>2. Aware(p)' /\ Drafted(p)'
      BY <1>1, <1>3, <1>4, <1>5 DEF JobOK, Placed, Aware, Drafted, Alive, Working, Before
  <2> QED
      BY <2>1, <2>2 DEF JobOK
<1> QED
    BY <1>1, <1>2, <1>3, <1>4, <1>6, LocksLeft, LiveMoves DEF Alive, Working

(***************************************************************************)
(* A process that is over: nothing is asked of it any more.                *)
(***************************************************************************)
LEMMA OverIsOK ==
    ASSUME WorkerInv, NEW p \in Processes, NEW status \in Statuses, End(p, status)
    PROVE  /\ job' \in [Processes -> Jobs]
           /\ \A q \in Processes \ {p} : job'[q] = job[q]
           /\ job'[p].pc \in {"none", "gone"}
           /\ JobOK(p)'
<1>1. NoJob \in Jobs
    BY EmptySeq DEF NoJob, Jobs, Statuses
<1> DEFINE j == IF p = "desktop" THEN [NoJob EXCEPT !.pc = "gone", !.status = status]
                ELSE NoJob
<1>2. j \in Jobs
  <2>1. [NoJob EXCEPT !.pc = "gone", !.status = status] = [[NoJob EXCEPT !.pc = "gone"] EXCEPT !.status = status]
      BY DEF NoJob
  <2> QED
      BY <1>1, <2>1, JobSet
<1>3. job' = [job EXCEPT ![p] = j]
    BY DEF End
<1>4. j.pc \in {"none", "gone"} /\ j.run = 0 /\ j.chunk = 0
    BY DEF NoJob
<1> HIDE DEF j
<1>5. job'[p] = j
    BY <1>2, <1>3, JobBecomes
<1>6. j.pc \notin Alive \cup Working \cup Reporting \cup Before
    BY <1>4 DEF Alive, Working, Reporting, Before
<1>7. JobOK(p)'
  <2>1. 0 <= Fresh + Unclassifiable
      BY WorkerAssumption
  <2>2. Placed(p)'
      BY <1>4, <1>5, <1>6, <2>1 DEF Placed, Alive, Before, Working
  <2> QED
      BY <1>4, <1>5, <1>6, <2>2 DEF JobOK, Aware, Drafted
<1> QED
    BY <1>2, <1>3, <1>4, <1>5, <1>7, JobBecomes

(***************************************************************************)
(* Its return, a crash or a force stop at any point, and the window's      *)
(* forgetting of it.                                                       *)
(***************************************************************************)
LEMMA LeaveKept == ASSUME WorkerInv, NEW p \in Processes, Leave(p) PROVE WorkerInv'
<1>1. job[p].status \in Statuses
    BY DEF WorkerInv, WorkerTypes, Jobs
<1>2. End(p, job[p].status) /\ LeaveLock(p) /\ UNCHANGED <<fresh, log, logLock, pipe, effects, appended>>
    BY DEF Leave
<1>3. job'[p].pc \notin Alive
    BY <1>1, <1>2, OverIsOK DEF Alive, Working, Reporting
<1> QED
    BY <1>1, <1>2, <1>3, OverIsOK, LocksLeft, OneMoves

\* A process that is killed leaves its locks to others.
LEMMA DieKept == ASSUME WorkerInv, NEW p \in Processes, Die(p) PROVE WorkerInv'
<1>1. "killed" \in Statuses
    BY DEF Statuses
<1>2. /\ End(p, "killed") /\ LeaveLock(p) /\ LeaveLogLock(p)
      /\ UNCHANGED <<fresh, log, pipe, effects, appended>>
    BY DEF Die, LeaveLock
<1>3. job'[p].pc \notin Alive
    BY <1>1, <1>2, OverIsOK DEF Alive, Working, Reporting
<1> QED
    BY <1>1, <1>2, <1>3, OverIsOK, LocksLeft, OneMoves

\* The window has no process any more.
LEMMA ForgottenKept ==
    ASSUME WorkerInv, job' = [job EXCEPT !["desktop"] = NoJob],
           UNCHANGED <<lock, fresh, log, logLock, pipe, effects, appended>>
    PROVE  WorkerInv'
<1>1. NoJob \in Jobs
    BY EmptySeq DEF NoJob, Jobs, Statuses
<1>2. "desktop" \in Processes
    BY DEF Processes
<1>3. /\ job' \in [Processes -> Jobs]
      /\ job'["desktop"] = NoJob
      /\ \A q \in Processes \ {"desktop"} : job'[q] = job[q]
    BY <1>1, <1>2, JobBecomes
<1>4. NoJob.pc \notin Alive \cup Working \cup Reporting \cup Before
    BY DEF NoJob, Alive, Working, Reporting, Before
<1>5. NoJob.pc = "none" /\ NoJob.chunk = 0 /\ NoJob.run = 0
    BY DEF NoJob
<1>6. JobOK("desktop")'
  <2>1. 0 <= Fresh + Unclassifiable
      BY WorkerAssumption
  <2>2. Placed("desktop")'
      BY <1>3, <1>4, <1>5, <2>1 DEF Placed, Alive, Before, Working
  <2> QED
      BY <1>3, <1>4, <1>5, <2>2 DEF JobOK, Aware, Drafted
<1> QED
    BY <1>2, <1>3, <1>4, <1>6, LocksLeft, OneMoves

\* The window has read an event.
LEMMA EventReadKept ==
    ASSUME WorkerInv, pipe # <<>>, pipe' = Tail(pipe),
           UNCHANGED <<job, lock, fresh, log, logLock, effects, appended>>
    PROVE  WorkerInv'
<1>1. pipe' \in Seq(Events)
    BY DEF WorkerInv, WorkerTypes
<1>2. \A p \in Processes : JobOK(p)'
    BY DEF WorkerInv, JobOK, Placed, Aware, Drafted, Successor, Runs
<1> QED
    BY <1>1, <1>2 DEF WorkerInv, WorkerTypes, Apart, RecordsTrue, Untouched, NoRecordLost

\* A refused lock or a lost answer ends the work.
LEMMA RaiseKept == ASSUME WorkerInv, NEW p \in Processes, Raise(p) PROVE WorkerInv'
    BY UnwindKept DEF Raise, Working

\* Any exception may.
LEMMA FailKept == ASSUME WorkerInv, NEW p \in Processes, Fail(p) PROVE WorkerInv'
    BY UnwindKept DEF Fail

\* SIGTERM, in whatever it is doing.
LEMMA TerminateKept == ASSUME WorkerInv, NEW p \in Processes, Terminate(p) PROVE WorkerInv'
<1>1. CASE UNCHANGED workerVars
    BY <1>1 DEF workerVars, WorkerInv, WorkerTypes, JobOK, Placed, Aware, Drafted, Successor,
                Runs, Apart, RecordsTrue, Untouched, NoRecordLost
<1>2. CASE job[p].pc \in Working \cup Reporting /\ Unwind(p, "cancelled")
    BY <1>2, UnwindKept
<1>3. CASE Die(p)
    BY <1>3, DieKept
<1> QED
    BY <1>1, <1>2, <1>3 DEF Terminate

(***************************************************************************)
(* The steps of a quiz, as far as the process and its pipe are concerned.  *)
(***************************************************************************)
LEMMA AskKept == ASSUME WorkerInv, asked \in Nat, Ask PROVE WorkerInv'
<1> DEFINE p == "desktop"
           j == [job[p] EXCEPT !.pc = "reading"]
<1>0. p \in Processes
    BY DEF Processes
<1>1. job[p] \in Jobs /\ job[p].pc = "asking" /\ JobOK(p)
    BY <1>0 DEF WorkerInv, WorkerTypes, Ask
<1>2. j \in Jobs
    BY <1>1, JobSet DEF Alive, Working
<1>3. /\ job' = [job EXCEPT ![p] = j]
      /\ UNCHANGED <<lock, fresh, log, logLock, effects, appended>>
    BY DEF Ask, Goto
<1>4. pipe' \in Seq(Events)
  <2>1. Event("candidate", "none", asked + 1) \in Events
      BY DEF Event, Events, Outcomes
  <2> QED
      BY <1>0, <2>1, LocksLeft, AppendProperties DEF Ask
<1>5. /\ j.pc = "reading"
      /\ j.chunk = job[p].chunk /\ j.mutating = job[p].mutating
      /\ j.kind = job[p].kind /\ j.run = job[p].run /\ j.status = job[p].status
      /\ j.changed = job[p].changed
    BY <1>1 DEF Jobs
<1>6. job'[p] = j
    BY <1>0, <1>2, <1>3, JobBecomes
<1> HIDE DEF j, p
<1>7. JobOK(p)'
  <2>1. Placed(p)'
      BY <1>1, <1>3, <1>5, <1>6
      DEF JobOK, Placed, Working, Reporting, Alive, Before, Runs
  <2>2. Aware(p)' /\ Drafted(p)'
      BY <1>1, <1>3, <1>5, <1>6 DEF JobOK, Placed, Aware, Drafted, Alive, Working, Before
  <2> QED
      BY <2>1, <2>2 DEF JobOK
<1> QED
    BY <1>0, <1>1, <1>2, <1>3, <1>4, <1>5, <1>7, LocksLeft, LiveMoves DEF Alive, Working

\* An answer is stored and the next question may be asked.
LEMMA StoreAnswerKept == ASSUME WorkerInv, StoreAnswer PROVE WorkerInv'
<1> DEFINE p == "desktop"
           j == [job[p] EXCEPT !.pc = "asking"]
<1>0. p \in Processes
    BY DEF Processes
<1>1. job[p] \in Jobs /\ job[p].pc = "reading" /\ JobOK(p)
    BY <1>0 DEF WorkerInv, WorkerTypes, StoreAnswer
<1>2. j \in Jobs
    BY <1>1, JobSet DEF Alive, Working
<1>3. /\ job' = [job EXCEPT ![p] = j]
      /\ UNCHANGED <<lock, fresh, log, logLock, pipe, effects, appended>>
    BY DEF StoreAnswer, Goto
<1>4. /\ j.pc = "asking"
      /\ j.chunk = job[p].chunk /\ j.mutating = job[p].mutating
      /\ j.kind = job[p].kind /\ j.run = job[p].run /\ j.status = job[p].status
      /\ j.changed = job[p].changed
    BY <1>1 DEF Jobs
<1>5. job'[p] = j
    BY <1>0, <1>2, <1>3, JobBecomes
<1> HIDE DEF j, p
<1>6. JobOK(p)'
  <2>1. Placed(p)'
      BY <1>1, <1>3, <1>4, <1>5
      DEF JobOK, Placed, Working, Reporting, Alive, Before, Runs
  <2>2. Aware(p)' /\ Drafted(p)'
      BY <1>1, <1>3, <1>4, <1>5 DEF JobOK, Placed, Aware, Drafted, Alive, Working, Before
  <2> QED
      BY <2>1, <2>2 DEF JobOK
<1> QED
    BY <1>0, <1>1, <1>2, <1>3, <1>4, <1>6, LocksLeft, LiveMoves DEF Alive, Working

\* After the last question the quiz is complete.
LEMMA EndQuestionsKept == ASSUME WorkerInv, EndQuestions PROVE WorkerInv'
<1> DEFINE p == "desktop"
           j == [job[p] EXCEPT !.pc = "telling", !.status = "completed"]
<1>0. p \in Processes
    BY DEF Processes
<1>1. job[p] \in Jobs /\ job[p].pc = "asking" /\ JobOK(p)
    BY <1>0 DEF WorkerInv, WorkerTypes, EndQuestions
<1>2. j \in Jobs
    BY <1>1, JobSet DEF Alive, Reporting, Statuses, Ends
<1>3. /\ job' = [job EXCEPT ![p] = j]
      /\ UNCHANGED <<lock, fresh, log, logLock, pipe, effects, appended>>
    BY DEF EndQuestions
<1>4. /\ j.pc = "telling" /\ j.status = "completed"
      /\ j.chunk = job[p].chunk /\ j.mutating = job[p].mutating
      /\ j.kind = job[p].kind /\ j.run = job[p].run
    BY <1>1 DEF Jobs
<1>5. job'[p] = j
    BY <1>0, <1>2, <1>3, JobBecomes
<1> HIDE DEF j, p
<1>6. JobOK(p)'
  <2>1. Placed(p)'
      BY <1>1, <1>3, <1>4, <1>5
      DEF JobOK, Placed, Working, Reporting, Alive, Before, Runs, Ends
  <2>2. job[p].kind = "quiz" /\ job[p].pc \in Alive
      BY <1>1 DEF JobOK, Placed, Alive, Working
  <2>3. Aware(p)' /\ Drafted(p)'
      BY <1>1, <1>3, <1>4, <1>5, <2>2 DEF JobOK, Aware, Drafted
  <2> QED
      BY <2>1, <2>3 DEF JobOK
<1> QED
    BY <1>0, <1>1, <1>2, <1>3, <1>4, <1>6, LocksLeft, LiveMoves DEF Alive, Working

(***************************************************************************)
(* A new run takes the next number, of which nothing is known anywhere.    *)
(***************************************************************************)
LEMMA StartKept ==
    ASSUME WorkerInv, NEW p \in Processes, NEW kind \in {"scan", "quiz"},
           NEW unlimited \in BOOLEAN, StartJob(p, kind, unlimited)
    PROVE  /\ WorkerInv'
           /\ Len(effects') = Len(effects) + 1
           /\ effects'[Len(effects) + 1] = "none"
           /\ \A i \in Runs : effects'[i] = effects[i]
           /\ job'[p].pc = "booting" /\ job'[p].run = Len(effects) + 1 /\ job'[p].kind = kind
           /\ \A q \in Processes \ {p} : job'[q] = job[q]
<1>1. PICK new \in Nat : new = Len(effects) + 1
    BY DEF WorkerInv, WorkerTypes
<1> DEFINE j == [NoJob EXCEPT !.pc = "booting", !.kind = kind, !.run = new,
                              !.unlimited = unlimited]
<1>2. j \in Jobs
    BY EmptySeq DEF NoJob, Jobs, Statuses, Alive
<1>3. /\ job' = [job EXCEPT ![p] = j] /\ effects' = Append(effects, "none")
      /\ UNCHANGED <<lock, fresh, log, logLock, pipe, appended>>
    BY <1>1 DEF StartJob
<1>4. /\ j.pc = "booting" /\ j.kind = kind /\ j.run = new /\ j.chunk = 0
      /\ j.status = "none"
    BY DEF NoJob
<1> HIDE DEF j
<1>5. /\ job' \in [Processes -> Jobs]
      /\ job'[p] = j
      /\ \A q \in Processes \ {p} : job'[q] = job[q]
    BY <1>2, <1>3, JobBecomes
<1>6. /\ effects' \in Seq({"none", "changed", "marked"})
      /\ Len(effects') = new
      /\ effects'[new] = "none"
      /\ \A i \in Runs : effects'[i] = effects[i]
    BY <1>1, <1>3, AppendProperties DEF WorkerInv, WorkerTypes, Runs
<1>7. Len(effects) \in Nat /\ Len(effects) < new /\ Runs' = 1..new
    BY <1>1, <1>6 DEF WorkerInv, WorkerTypes, Runs
<1>8. WorkerTypes'
    BY <1>3, <1>5, <1>6 DEF WorkerInv, WorkerTypes
<1>9. ASSUME NEW i \in DOMAIN appended PROVE appended[i].run \in Nat /\ appended[i].run < new
  <2>1. appended[i] \in Records /\ appended[i].run <= Len(effects)
      BY DEF WorkerInv, WorkerTypes, RecordsTrue
  <2> QED
      BY <1>1, <1>7, <2>1 DEF Records
<1>10. JobOK(p)'
  <2>1. Placed(p)'
    <3>1. 0 <= Fresh + Unclassifiable
        BY WorkerAssumption
    <3>2. new \in Runs'
        BY <1>7
    <3>3. \A i \in DOMAIN appended' : appended'[i].run # new
        BY <1>3, <1>9
    <3> QED
        BY <1>4, <1>5, <3>1, <3>2, <3>3 DEF Placed, Working, Reporting
  <2>2. Aware(p)' /\ Drafted(p)'
      BY <1>4, <1>5, <1>6 DEF Aware, Drafted
  <2> QED
      BY <2>1, <2>2 DEF JobOK
<1>11. ASSUME NEW q \in Processes \ {p} PROVE JobOK(q)'
  <2>1. JobOK(q) /\ job'[q] = job[q]
      BY <1>5 DEF WorkerInv
  <2>2. job[q].pc \in Alive => job[q].run \in Runs
      BY <2>1 DEF JobOK, Placed
  <2>3. job[q].pc \in Alive /\ effects'[job[q].run] = "changed"
        => effects[job[q].run] = "changed"
      BY <1>6, <2>2
  <2>4. Len(effects') \in Nat /\ Len(effects) <= Len(effects')
      BY <1>6, <1>7
  <2>5. WorkerTypes
      BY DEF WorkerInv
  <2> QED
      BY <1>3, <2>1, <2>3, <2>4, <2>5, Bystander
<1>12. Apart'
  <2>1. ASSUME NEW q \in Processes, job[q].pc \in Alive PROVE job[q].run # new
      BY <1>7, <2>1 DEF WorkerInv, JobOK, Placed, Runs
  <2> QED
      BY <1>4, <1>5, <2>1 DEF WorkerInv, Apart, Processes
<1>13. RecordsTrue'
  <2>1. ASSUME NEW i \in DOMAIN appended, appended[i].run # 0
        PROVE  appended[i].run \in Runs
      BY <1>9, <2>1, <1>7 DEF WorkerInv, RecordsTrue, WorkerTypes, Runs
  <2> QED
      BY <1>3, <1>6, <1>7, <1>9, <2>1 DEF WorkerInv, RecordsTrue, Untouched
<1>14. NoRecordLost'
    BY <1>3 DEF WorkerInv, NoRecordLost
<1>15. WorkerInv'
    BY <1>8, <1>10, <1>11, <1>12, <1>13, <1>14 DEF WorkerInv
<1> QED
    BY <1>1, <1>4, <1>5, <1>6, <1>15

(***************************************************************************)
(* A change to the mailbox is put down to the run that made it: it is the  *)
(* only one at work with that number, and no record names it yet.          *)
(***************************************************************************)
LEMMA EffectKept ==
    ASSUME WorkerInv, NEW p \in Processes, job[p].pc = "mailbox_actions",
           NEW effect \in {"changed", "marked"},
           effects' = [effects EXCEPT ![job[p].run] = effect],
           NEW j \in Jobs, job' = [job EXCEPT ![p] = j], j.run = job[p].run,
           UNCHANGED <<lock, fresh, log, logLock, pipe, appended>>,
           JobOK(p)'
    PROVE  WorkerInv'
<1>1. /\ job' \in [Processes -> Jobs]
      /\ job'[p] = j
      /\ \A q \in Processes \ {p} : job'[q] = job[q]
    BY JobBecomes
<1>2. JobOK(p) /\ job[p].pc \in Alive /\ job[p].pc \in Before
    BY DEF WorkerInv, Alive, Working, Before
<1>3. PICK r \in Runs : r = job[p].run
    BY <1>2 DEF JobOK, Placed
<1>4. effects \in Seq({"none", "changed", "marked"})
    BY DEF WorkerInv, WorkerTypes
<1>5. /\ effects' \in Seq({"none", "changed", "marked"})
      /\ Len(effects') = Len(effects)
      /\ \A i \in Runs \ {r} : effects'[i] = effects[i]
    BY <1>3, <1>4, ExceptSeq DEF Runs
<1>6. WorkerTypes'
    BY <1>1, <1>5 DEF WorkerInv, WorkerTypes
<1>7. ASSUME NEW i \in DOMAIN appended PROVE appended[i] \in Records /\ appended[i].run # r
    BY <1>2, <1>3 DEF WorkerInv, WorkerTypes, JobOK, Placed
<1>8. ASSUME NEW q \in Processes \ {p} PROVE JobOK(q)'
  <2>1. JobOK(q) /\ job'[q] = job[q]
      BY <1>1 DEF WorkerInv
  <2>2. job[q].pc \in Alive => job[q].run \in Runs \ {r}
      BY <1>2, <1>3, <2>1 DEF WorkerInv, Apart, JobOK, Placed, Processes
  <2>3. job[q].pc \in Alive /\ effects'[job[q].run] = "changed"
        => effects[job[q].run] = "changed"
      BY <1>5, <2>2
  <2>4. Len(effects') \in Nat /\ Len(effects) <= Len(effects')
      BY <1>4, <1>5
  <2>5. WorkerTypes
      BY DEF WorkerInv
  <2> QED
      BY <2>1, <2>3, <2>4, <2>5, Bystander
<1>9. Apart'
    BY <1>1, <1>2 DEF WorkerInv, Apart, Processes
<1>10. RecordsTrue'
  <2>1. ASSUME NEW i \in DOMAIN appended, appended[i].run # 0
        PROVE  appended[i].run \in Runs \ {r}
    <3>1. appended[i].run <= Len(effects)
        BY DEF WorkerInv, RecordsTrue
    <3> QED
        BY <1>4, <1>7, <2>1, <3>1 DEF Runs, Records
  <2> QED
      BY <1>5, <2>1 DEF WorkerInv, RecordsTrue, Untouched
<1>11. NoRecordLost'
    BY DEF WorkerInv, NoRecordLost
<1> QED
    BY <1>6, <1>8, <1>9, <1>10, <1>11 DEF WorkerInv

(***************************************************************************)
(* A provider call that is answered, one whose answer is lost, and a       *)
(* marker whose answer is lost.                                            *)
(***************************************************************************)
LEMMA AffectKept == ASSUME WorkerInv, NEW p \in Processes, Affect(p) PROVE WorkerInv'
<1> DEFINE j == [job[p] EXCEPT !.applied = TRUE]
<1>1. job[p] \in Jobs /\ job[p].pc = "mailbox_actions" /\ JobOK(p)
    BY DEF WorkerInv, WorkerTypes, Affect
<1>2. j \in Jobs
    BY <1>1, JobSet
<1>3. /\ job' = [job EXCEPT ![p] = j]
      /\ effects' = [effects EXCEPT ![job[p].run] = "changed"]
      /\ UNCHANGED <<lock, fresh, log, logLock, pipe, appended>>
    BY DEF Affect
<1>4. /\ j.pc = job[p].pc /\ j.applied
      /\ j.chunk = job[p].chunk /\ j.mutating = job[p].mutating
      /\ j.kind = job[p].kind /\ j.run = job[p].run /\ j.status = job[p].status
    BY <1>1 DEF Jobs
<1>5. job'[p] = j
    BY <1>2, <1>3, JobBecomes
<1> HIDE DEF j
<1>6. Runs' = Runs
    BY <1>3 DEF Runs, WorkerInv, WorkerTypes
<1>7. JobOK(p)'
  <2>1. Placed(p)'
      BY <1>1, <1>3, <1>4, <1>5, <1>6 DEF JobOK, Placed
  <2>2. Aware(p)' /\ Drafted(p)'
      BY <1>1, <1>3, <1>4, <1>5
      DEF JobOK, Placed, Aware, Drafted, Alive, Working, Before
  <2> QED
      BY <2>1, <2>2 DEF JobOK
<1> QED
    BY <1>1, <1>2, <1>3, <1>4, <1>7, EffectKept

\* A call that changed the mailbox raises.
LEMMA LoseAnswerKept == ASSUME WorkerInv, NEW p \in Processes, LoseAnswer(p) PROVE WorkerInv'
<1> DEFINE j == [job[p] EXCEPT !.pc = "raising"]
<1>1. job[p] \in Jobs /\ job[p].pc = "mailbox_actions" /\ JobOK(p)
    BY DEF WorkerInv, WorkerTypes, LoseAnswer
<1>2. j \in Jobs
    BY <1>1, JobSet DEF Alive, Working
<1>3. /\ job' = [job EXCEPT ![p] = j]
      /\ effects' = [effects EXCEPT ![job[p].run] = "changed"]
      /\ UNCHANGED <<lock, fresh, log, logLock, pipe, appended>>
    BY DEF LoseAnswer, Goto
<1>4. /\ j.pc = "raising"
      /\ j.chunk = job[p].chunk /\ j.mutating = job[p].mutating
      /\ j.kind = job[p].kind /\ j.run = job[p].run /\ j.status = job[p].status
    BY <1>1 DEF Jobs
<1>5. job'[p] = j
    BY <1>2, <1>3, JobBecomes
<1> HIDE DEF j
<1>6. Runs' = Runs
    BY <1>3 DEF Runs, WorkerInv, WorkerTypes
<1>7. JobOK(p)'
  <2>1. Placed(p)'
      BY <1>1, <1>3, <1>4, <1>5, <1>6
      DEF JobOK, Placed, Working, Reporting, Alive, Before
  <2>2. Aware(p)' /\ Drafted(p)'
      BY <1>1, <1>3, <1>4, <1>5
      DEF JobOK, Placed, Aware, Drafted, Alive, Working, Before
  <2> QED
      BY <2>1, <2>2 DEF JobOK
<1> QED
    BY <1>1, <1>2, <1>3, <1>4, <1>7, EffectKept

\* A marker is put on and nobody knows.
LEMMA LoseMarkerKept == ASSUME WorkerInv, NEW p \in Processes, LoseMarker(p) PROVE WorkerInv'
<1>1. job[p] \in Jobs /\ job[p].pc = "mailbox_actions" /\ JobOK(p) /\ job[p].run \in Runs
    BY DEF WorkerInv, WorkerTypes, LoseMarker, JobOK, Placed, Alive, Working
<1>2. /\ job' = [job EXCEPT ![p] = job[p]]
      /\ effects' = [effects EXCEPT ![job[p].run] = "marked"]
      /\ UNCHANGED <<job, lock, fresh, log, logLock, pipe, appended>>
    BY DEF LoseMarker, WorkerInv, WorkerTypes
<1>3. Runs' = Runs /\ effects'[job[p].run] = "marked"
    BY <1>1, <1>2 DEF Runs, WorkerInv, WorkerTypes
<1>4. JobOK(p)'
  <2>1. Placed(p)'
      BY <1>1, <1>2, <1>3 DEF JobOK, Placed
  <2>2. Aware(p)' /\ Drafted(p)'
      BY <1>1, <1>2, <1>3 DEF JobOK, Aware, Drafted
  <2> QED
      BY <2>1, <2>2 DEF JobOK
<1> QED
    BY <1>1, <1>2, <1>4, EffectKept

(***************************************************************************)
(* The renamed file is the newest records, its own among them, and the     *)
(* record is true: the draft was written under the file's lock, from the   *)
(* file as it still is.                                                    *)
(***************************************************************************)
LEMMA ReplaceLogKept == ASSUME WorkerInv, NEW p \in Processes, ReplaceLog(p) PROVE WorkerInv'
<1> DEFINE j == [job[p] EXCEPT !.pc = "telling", !.draft = <<>>]
<1>1. /\ job[p] \in Jobs /\ job[p].pc = "replacing" /\ JobOK(p)
      /\ job[p].pc \in Alive /\ <<>> \in Seq(Records)
    BY EmptySeq DEF WorkerInv, WorkerTypes, ReplaceLog, Alive, Reporting
<1>2. j \in Jobs
    BY <1>1, JobSet DEF Alive, Reporting
<1>3. /\ job' = [job EXCEPT ![p] = j]
      /\ UNCHANGED <<lock, fresh, pipe, effects>>
      /\ LeaveLogLock(p)
      /\ log' = job[p].draft
      /\ appended' = Append(appended, job[p].draft[Len(job[p].draft)])
    BY DEF ReplaceLog
<1>4. /\ j.pc = "telling"
      /\ j.chunk = job[p].chunk /\ j.mutating = job[p].mutating
      /\ j.kind = job[p].kind /\ j.run = job[p].run /\ j.status = job[p].status
      /\ j.changed = job[p].changed
    BY <1>1 DEF Jobs
<1> HIDE DEF j
<1>5. /\ job' \in [Processes -> Jobs]
      /\ job'[p] = j
      /\ \A q \in Processes \ {p} : job'[q] = job[q]
    BY <1>2, <1>3, JobBecomes
<1>6. PICK record : record = Record(job[p].run, job[p].status, Outcome(job[p]))
    OBVIOUS
<1>7. /\ record \in Records
      /\ record.run = job[p].run
      /\ record.outcome = Outcome(job[p])
    BY <1>1, <1>6
    DEF Record, Records, Jobs, Outcome, CompletedOutcome, TerminalOutcome, Outcomes
<1>8. /\ log' = Newest(appended')
      /\ appended' = Append(appended, record)
      /\ log' \in Seq(Records)
  <2>1. job[p].draft = Retained(log, record) /\ log = Newest(appended)
      BY <1>1, <1>6 DEF WorkerInv, JobOK, Drafted, Successor, NoRecordLost, Newest
  <2>2. appended \in Seq(Records)
      BY DEF WorkerInv, WorkerTypes
  <2>3. PICK draft : draft = Retained(Newest(appended), record)
      OBVIOUS
  <2>4. /\ draft = Newest(Append(appended, record)) /\ draft \in Seq(Records)
        /\ draft[Len(draft)] = record
      BY <1>7, <2>2, <2>3, RetainedIsNewest
  <2>5. job[p].draft = draft
      BY <2>1, <2>3
  <2> QED
      BY <1>3, <2>4, <2>5
<1>9. /\ appended' \in Seq(Records)
      /\ Len(appended') = Len(appended) + 1
      /\ appended'[Len(appended) + 1] = record
      /\ \A i \in DOMAIN appended : appended'[i] = appended[i]
      /\ DOMAIN appended' = DOMAIN appended \cup {Len(appended) + 1}
    BY <1>7, <1>8, AppendProperties DEF WorkerInv, WorkerTypes
<1>10. job[p].run \in Runs /\ Runs' = Runs
    BY <1>1, <1>3 DEF JobOK, Placed, Runs
<1>11. WorkerTypes'
    BY <1>3, <1>5, <1>8, <1>9, LocksLeft DEF WorkerInv, WorkerTypes
<1>12. JobOK(p)'
  <2>1. Placed(p)'
      BY <1>1, <1>3, <1>4, <1>5, <1>10
      DEF JobOK, Placed, Working, Reporting, Alive, Before
  <2>2. Aware(p)' /\ Drafted(p)'
      BY <1>1, <1>3, <1>4, <1>5 DEF JobOK, Aware, Drafted
  <2> QED
      BY <2>1, <2>2 DEF JobOK
<1>13. ASSUME NEW q \in Processes \ {p} PROVE JobOK(q)'
  <2>1. JobOK(q) /\ job'[q] = job[q]
      BY <1>5 DEF WorkerInv
  <2>2. logLock # q
      BY <1>1 DEF JobOK, Drafted
  <2>3. Placed(q)'
    <3>1. job[q].pc \in Before => job[q].run # job[p].run
        BY <1>1 DEF WorkerInv, Apart, Processes, Before, Alive
    <3>2. job[q].pc \in Before => \A i \in DOMAIN appended' : appended'[i].run # job[q].run
        BY <1>7, <1>9, <2>1, <3>1 DEF JobOK, Placed
    <3> QED
        BY <1>3, <1>10, <2>1, <3>2 DEF JobOK, Placed
  <2>4. Aware(q)' /\ Drafted(q)'
      BY <1>3, <2>1, <2>2 DEF JobOK, Aware, Drafted
  <2> QED
      BY <2>3, <2>4 DEF JobOK
<1>14. Apart'
    BY <1>1, <1>4, <1>5 DEF WorkerInv, Apart, Processes
<1>15. RecordsTrue'
  <2>1. record.run <= Len(effects)
      BY <1>7, <1>10 DEF Runs
  <2>2. record.outcome = "unchanged" => Untouched(record.run)
      BY <1>1, <1>7
      DEF JobOK, Aware, Untouched, Outcome, CompletedOutcome, TerminalOutcome
  <2>3. ASSUME NEW i \in DOMAIN appended
        PROVE  /\ appended'[i].run <= Len(effects')
               /\ appended'[i].outcome = "unchanged" /\ appended'[i].run # 0
                    => effects'[appended'[i].run] # "changed"
      BY <1>3, <1>9 DEF WorkerInv, RecordsTrue, Untouched
  <2>4. /\ appended'[Len(appended) + 1].run <= Len(effects')
        /\ appended'[Len(appended) + 1].outcome = "unchanged"
             => effects'[appended'[Len(appended) + 1].run] # "changed"
      BY <1>3, <1>9, <2>1, <2>2 DEF Untouched
  <2> QED
      BY <1>9, <2>3, <2>4 DEF RecordsTrue, Untouched
<1>16. NoRecordLost'
    BY <1>8 DEF NoRecordLost, Newest
<1> QED
    BY <1>11, <1>12, <1>13, <1>14, <1>15, <1>16 DEF WorkerInv

(***************************************************************************)
(* At first nothing runs, and the file holds earlier records of no run.    *)
(***************************************************************************)
LEMMA WorkerStarts == WorkerInit => WorkerInv
<1> SUFFICES ASSUME WorkerInit PROVE WorkerInv
    OBVIOUS
<1>1. NoJob \in Jobs
    BY EmptySeq DEF NoJob, Jobs, Statuses
<1>2. /\ job = [p \in Processes |-> NoJob] /\ lock = NoProcess /\ logLock = NoProcess
      /\ fresh = Fresh /\ log = EarlierLog /\ pipe = <<>> /\ effects = <<>>
      /\ appended = EarlierLog
    BY DEF WorkerInit
<1>3. FirstRecords \in Nat /\ FirstRecords <= MaxRecords /\ MaxRecords \in Nat /\ MaxRecords >= 1
    BY WorkerAssumption
<1>4. /\ EarlierLog \in Seq(Records)
      /\ Len(EarlierLog) = FirstRecords
      /\ \A i \in 1..FirstRecords : EarlierLog[i].run = 0
  <2>1. Record(0, "completed", "unchanged") \in Records
      BY DEF Record, Records, Statuses, Ends, Outcomes
  <2>2. EarlierLog \in Seq(Records)
      BY <1>3, <2>1 DEF EarlierLog
  <2> QED
      BY <1>3, <2>2 DEF EarlierLog, Record
<1>5. WorkerTypes
    BY <1>1, <1>2, <1>4, EmptySeq, WorkerAssumption DEF WorkerTypes
<1>6. ASSUME NEW p \in Processes PROVE JobOK(p)
  <2>1. job[p].pc = "none" /\ job[p].chunk = 0 /\ job[p].run = 0
      BY <1>2 DEF NoJob
  <2>2. "none" \notin Alive \cup Working \cup Reporting \cup Before
      BY DEF Alive, Working, Reporting, Before
  <2>3. 0 <= Fresh + Unclassifiable
      BY WorkerAssumption
  <2> QED
      BY <2>1, <2>2, <2>3 DEF JobOK, Placed, Aware, Drafted, Alive, Before, Working
<1>7. Apart
    BY <1>2 DEF Apart, Processes, NoJob, Alive, Working, Reporting
<1>8. RecordsTrue
    BY <1>2, <1>4 DEF RecordsTrue
<1>9. NoRecordLost
  <2>1. IF FirstRecords < MaxRecords THEN TRUE ELSE FirstRecords - MaxRecords + 1 = 1
      BY <1>3
  <2>2. SubSeq(EarlierLog, 1, Len(EarlierLog)) = EarlierLog
      BY <1>4, SubSeqFull
  <2> QED
      BY <1>2, <1>4, <2>1, <2>2 DEF NoRecordLost
<1> QED
    BY <1>5, <1>6, <1>7, <1>8, <1>9 DEF WorkerInv

(***************************************************************************)
(* What the window and the quiz see of a process's step: it stays in its   *)
(* run, it does not start again, and the desktop's is not forgotten.       *)
(***************************************************************************)
Moves(p) ==
    /\ \A q \in Processes \ {p} : job'[q] = job[q]
    /\ job[p].pc \in Alive
    /\ job'[p].pc \in Alive => job'[p].run = job[p].run /\ job'[p].kind = job[p].kind
    /\ job'[p].pc # "booting"
    /\ job'[p].pc \in Before => job[p].pc \in Before
    /\ p = "desktop" => job'[p].pc # "none"
    /\ Len(effects') = Len(effects)
    /\ job[p].pc # "mailbox_actions" => UNCHANGED effects
    /\ \A i \in Runs : effects'[i] # effects[i] => i = job[p].run
    /\ Len(appended) <= Len(appended')

Questioning == {"booting", "startup", "asking", "reading"}

\* It has told the window how it ended.
Told(p) ==
    /\ p = "desktop"
    /\ job[p].pc = "telling"
    /\ job'[p].pc = "leaving"
    /\ pipe' = Append(pipe, Event(job[p].status, Outcome(job[p]), 0))

\* It has begun, or got the lock, or is not concerned with questions.
NoQuestion(p) ==
    job'[p].pc \in Questioning =>
        \/ job[p].pc = "booting" /\ job'[p].pc = "startup"
        \/ job[p].pc = "startup" /\ job'[p].pc = "asking"

\* An end, seen from the window.
LEMMA EndMoves ==
    ASSUME WorkerInv, NEW p \in Processes, NEW status \in Statuses, End(p, status),
           job[p].pc \in Alive, UNCHANGED <<effects, appended>>
    PROVE  Moves(p) /\ NoQuestion(p)
<1>1. job' = [job EXCEPT ![p] = IF p = "desktop"
                         THEN [NoJob EXCEPT !.pc = "gone", !.status = status] ELSE NoJob]
    BY DEF End
<1>2. /\ job'[p].pc = IF p = "desktop" THEN "gone" ELSE "none"
      /\ \A q \in Processes \ {p} : job'[q] = job[q]
    BY <1>1 DEF NoJob, WorkerInv, WorkerTypes
<1>3. appended \in Seq(Records)
    BY DEF WorkerInv, WorkerTypes
<1>4. job'[p].pc \notin Alive \cup Before \cup Questioning
    BY <1>2 DEF Alive, Before, Working, Reporting, Questioning
<1> QED
    BY <1>2, <1>3, <1>4 DEF Moves, NoQuestion, Questioning

\* A step within the run, seen from the window.
LEMMA WithinMoves ==
    ASSUME WorkerInv, NEW p \in Processes, NEW j, job' = [job EXCEPT ![p] = j],
           job[p].pc \in Alive, j.run = job[p].run, j.kind = job[p].kind,
           j.pc \notin {"booting", "none"}, j.pc \in Before => job[p].pc \in Before,
           UNCHANGED effects,
           UNCHANGED appended \/ Len(appended) <= Len(appended')
    PROVE  Moves(p) /\ job'[p] = j
    BY DEF Moves, WorkerInv, WorkerTypes

\* An exception or a cancel, seen from the window.
LEMMA UnwindMoves ==
    ASSUME WorkerInv, NEW p \in Processes, NEW status \in {"failed", "cancelled"},
           job[p].pc \in Working \cup Reporting, Unwind(p, status)
    PROVE  Moves(p) /\ UNCHANGED pipe /\ NoQuestion(p)
<1>1. PICK next \in {"recording", "telling"} :
         job' = [job EXCEPT ![p].status = status, ![p].draft = <<>>, ![p].pc = next]
    BY DEF Unwind
<1> DEFINE j == [job[p] EXCEPT !.status = status, !.draft = <<>>, !.pc = next]
<1>2. job[p] \in Jobs /\ job[p].pc \in Alive /\ appended \in Seq(Records)
    BY DEF WorkerInv, WorkerTypes, Alive
<1>3. job' = [job EXCEPT ![p] = j] /\ UNCHANGED <<pipe, effects, appended>>
    BY <1>1 DEF Unwind
<1>4. j.pc = next /\ j.kind = job[p].kind /\ j.run = job[p].run
    BY <1>2 DEF Jobs
<1> HIDE DEF j
<1>5. Moves(p) /\ job'[p] = j
    BY <1>2, <1>3, <1>4, WithinMoves DEF Before, Working
<1> QED
    BY <1>3, <1>4, <1>5 DEF NoQuestion, Questioning

\* A kill, seen from the window.
LEMMA DieMoves ==
    ASSUME WorkerInv, NEW p \in Processes, Die(p)
    PROVE  Moves(p) /\ UNCHANGED pipe /\ NoQuestion(p)
    BY EndMoves DEF Die, Statuses

\* SIGTERM, seen from the window: nothing, or one of the two.
LEMMA TerminateMoves ==
    ASSUME WorkerInv, NEW p \in Processes, Terminate(p)
    PROVE  UNCHANGED workerVars \/ (Moves(p) /\ UNCHANGED pipe /\ NoQuestion(p))
    BY UnwindMoves, DieMoves DEF Terminate

\* Every step of a process and every mishap, seen from the window.
LEMMA ProcessMoves ==
    ASSUME WorkerInv, NEW p \in Processes, Work(p) \/ Affect(p) \/ Mishap(p)
    PROVE  Moves(p) /\ NoQuestion(p) /\ (UNCHANGED pipe \/ Told(p))
<1>0. /\ job \in [Processes -> Jobs] /\ job[p] \in Jobs /\ appended \in Seq(Records)
      /\ effects \in Seq({"none", "changed", "marked"})
    BY DEF WorkerInv, WorkerTypes
<1>1. CASE Boot(p)
  <2> DEFINE j == [job[p] EXCEPT !.pc = "startup"]
  <2>1. job' = [job EXCEPT ![p] = j] /\ UNCHANGED <<pipe, effects, appended>> /\ job[p].pc = "booting"
      BY <1>1 DEF Boot, Goto
  <2>2. j.pc = "startup" /\ j.kind = job[p].kind /\ j.run = job[p].run
      BY <1>0 DEF Jobs
  <2> HIDE DEF j
  <2>3. Moves(p) /\ job'[p] = j
      BY <1>0, <2>1, <2>2, WithinMoves DEF Before, Alive
  <2> QED
      BY <2>1, <2>2, <2>3 DEF NoQuestion
<1>2. CASE EnterLock(p)
  <2>1. PICK next \in {"classification", "asking"} : job' = [job EXCEPT ![p].pc = next]
      BY <1>2 DEF EnterLock, Goto
  <2> DEFINE j == [job[p] EXCEPT !.pc = next]
  <2>2. job' = [job EXCEPT ![p] = j] /\ UNCHANGED <<pipe, effects, appended>> /\ job[p].pc = "startup"
      BY <1>2, <2>1 DEF EnterLock
  <2>3. j.pc = next /\ j.kind = job[p].kind /\ j.run = job[p].run
      BY <1>0 DEF Jobs
  <2> HIDE DEF j
  <2>4. Moves(p) /\ job'[p] = j
      BY <1>0, <2>2, <2>3, WithinMoves DEF Before, Alive, Working
  <2> QED
      BY <2>2, <2>3, <2>4 DEF NoQuestion, Questioning
<1>3. CASE Analyse(p)
  <2> DEFINE j == [job[p] EXCEPT !.pc = "mailbox_actions", !.chunk = Batch(job[p]), !.mutating = TRUE]
  <2>1. job' = [job EXCEPT ![p] = j] /\ UNCHANGED <<pipe, effects, appended>> /\ job[p].pc = "classification"
      BY <1>3 DEF Analyse
  <2>2. j.pc = "mailbox_actions" /\ j.kind = job[p].kind /\ j.run = job[p].run
      BY <1>0 DEF Jobs
  <2> HIDE DEF j
  <2>3. Moves(p) /\ job'[p] = j
      BY <1>0, <2>1, <2>2, WithinMoves DEF Before, Alive, Working
  <2> QED
      BY <2>1, <2>2, <2>3 DEF NoQuestion, Questioning
<1>4. CASE EndChunk(p)
  <2>1. PICK next \in {"classification", "recording"}, status \in {"none", "completed"} :
           job' = [job EXCEPT ![p].changed = Merged(job[p]),
                      ![p].chunk = 0, ![p].applied = FALSE,
                      ![p].pc = next, ![p].status = status]
      BY <1>4 DEF EndChunk
  <2> DEFINE j == [job[p] EXCEPT !.changed = Merged(job[p]), !.chunk = 0, !.applied = FALSE,
                                 !.pc = next, !.status = status]
  <2>2. job' = [job EXCEPT ![p] = j] /\ UNCHANGED <<pipe, effects, appended>> /\ job[p].pc = "mailbox_actions"
      BY <1>4, <2>1 DEF EndChunk
  <2>3. j.pc = next /\ j.kind = job[p].kind /\ j.run = job[p].run
      BY <1>0 DEF Jobs
  <2> HIDE DEF j
  <2>4. Moves(p) /\ job'[p] = j
      BY <1>0, <2>2, <2>3, WithinMoves DEF Before, Alive, Working
  <2> QED
      BY <2>2, <2>3, <2>4 DEF NoQuestion, Questioning
<1>5. CASE Raise(p) \/ Fail(p)
    BY <1>5, UnwindMoves DEF Raise, Fail, Working
<1>6. CASE OpenLog(p)
  <2> DEFINE j == [job[p] EXCEPT !.pc = "replacing", !.draft = Successor(p)]
  <2>1. job' = [job EXCEPT ![p] = j] /\ UNCHANGED <<pipe, effects, appended>> /\ job[p].pc = "recording"
      BY <1>6 DEF OpenLog
  <2>2. j.pc = "replacing" /\ j.kind = job[p].kind /\ j.run = job[p].run
      BY <1>0 DEF Jobs
  <2> HIDE DEF j
  <2>3. Moves(p) /\ job'[p] = j
      BY <1>0, <2>1, <2>2, WithinMoves DEF Before, Alive, Working, Reporting
  <2> QED
      BY <2>1, <2>2, <2>3 DEF NoQuestion, Questioning
<1>7. CASE ReplaceLog(p) \/ RecordFails(p)
  <2> DEFINE j == [job[p] EXCEPT !.pc = "telling", !.draft = <<>>]
  <2>1. /\ job' = [job EXCEPT ![p] = j] /\ UNCHANGED <<pipe, effects>>
        /\ job[p].pc \in {"recording", "replacing"}
      BY <1>7 DEF ReplaceLog, RecordFails
  <2>2. Len(appended) <= Len(appended')
    <3>1. CASE UNCHANGED appended
        BY <1>0, <3>1
    <3>2. CASE \E record : appended' = Append(appended, record)
        BY <1>0, <3>2
    <3> QED
        BY <1>7, <3>1, <3>2 DEF ReplaceLog, RecordFails
  <2>3. j.pc = "telling" /\ j.kind = job[p].kind /\ j.run = job[p].run
      BY <1>0 DEF Jobs
  <2> HIDE DEF j
  <2>4. Moves(p) /\ job'[p] = j
      BY <2>1, <2>2, <2>3, WithinMoves DEF Before, Alive, Working, Reporting
  <2> QED
      BY <2>1, <2>3, <2>4 DEF NoQuestion, Questioning
<1>8. CASE Tell(p)
  <2> DEFINE j == [job[p] EXCEPT !.pc = "leaving"]
  <2>1. job' = [job EXCEPT ![p] = j] /\ UNCHANGED <<effects, appended>> /\ job[p].pc = "telling"
      BY <1>8 DEF Tell, Goto
  <2>2. j.pc = "leaving" /\ j.kind = job[p].kind /\ j.run = job[p].run
      BY <1>0 DEF Jobs
  <2> HIDE DEF j
  <2>3. Moves(p) /\ job'[p] = j
      BY <1>0, <2>1, <2>2, WithinMoves DEF Before, Alive, Working, Reporting
  <2> QED
      BY <1>8, <2>1, <2>2, <2>3 DEF NoQuestion, Questioning, Told, Tell
<1>9. CASE Leave(p)
  <2>1. job[p].status \in Statuses
      BY <1>0 DEF Jobs
  <2> QED
      BY <1>9, <2>1, EndMoves DEF Leave, Alive, Reporting
<1>10. CASE Affect(p) \/ LoseAnswer(p) \/ LoseMarker(p)
  <2>1. job[p].pc = "mailbox_actions" /\ UNCHANGED <<pipe, appended>>
      BY <1>10 DEF Affect, LoseAnswer, LoseMarker
  <2>2. /\ job'[p].pc \in {"mailbox_actions", "raising"}
        /\ job'[p].run = job[p].run /\ job'[p].kind = job[p].kind
        /\ \A q \in Processes \ {p} : job'[q] = job[q]
    <3>1. CASE Affect(p)
        BY <1>0, <3>1 DEF Affect, Jobs
    <3>2. CASE LoseAnswer(p)
        BY <1>0, <3>2 DEF LoseAnswer, Goto, Jobs
    <3>3. CASE LoseMarker(p)
        BY <2>1, <3>3 DEF LoseMarker
    <3> QED
        BY <1>10, <3>1, <3>2, <3>3
  <2>3. Len(effects') = Len(effects) /\ \A i \in Runs : effects'[i] # effects[i] => i = job[p].run
    <3>1. PICK e : effects' = [effects EXCEPT ![job[p].run] = e]
        BY <1>10 DEF Affect, LoseAnswer, LoseMarker
    <3> QED
        BY <1>0, <3>1 DEF Runs
  <2> QED
      BY <1>0, <2>1, <2>2, <2>3 DEF Moves, NoQuestion, Questioning, Before, Alive, Working
<1>11. CASE Hang(p)
  <2> DEFINE j == [job[p] EXCEPT !.pc = "hung"]
  <2>1. /\ job' = [job EXCEPT ![p] = j] /\ UNCHANGED <<pipe, effects, appended>>
        /\ job[p].pc \in {"classification", "asking"}
      BY <1>11 DEF Hang, Goto
  <2>2. j.pc = "hung" /\ j.kind = job[p].kind /\ j.run = job[p].run
      BY <1>0 DEF Jobs
  <2> HIDE DEF j
  <2>3. Moves(p) /\ job'[p] = j
      BY <1>0, <2>1, <2>2, WithinMoves DEF Before, Alive, Working
  <2> QED
      BY <2>1, <2>2, <2>3 DEF NoQuestion, Questioning
<1>12. CASE Die(p)
    BY <1>12, DieMoves
<1> QED
    BY <1>1, <1>2, <1>3, <1>4, <1>5, <1>6, <1>7, <1>8, <1>9, <1>10, <1>11, <1>12
    DEF Work, Mishap

-----------------------------------------------------------------------------
(***************************************************************************)
(* The window.  What it has under way, what it has shown of it, and what   *)
(* the events still in the pipe will make it show.                         *)
(***************************************************************************)
Shown == {"none", "Scan in progress", "No email changed", "Mailbox actions completed",
          "Outcome to verify"}
Windows == [op : {"none", "scan", "quiz"}, run : Nat, receipt : BOOLEAN, outcome : Shown,
            asked : BOOLEAN, forced : BOOLEAN]

WindowTypes ==
    /\ window \in Windows
    /\ window.run \in Runs \cup {0}
    /\ timers \subseteq Runs
    /\ panel \in [known : Nat, shown : Nat]
    /\ panel.shown <= panel.known /\ panel.known <= Version

\* Its process is the desktop's and does what the window thinks it does.
Owns ==
    /\ window.op = "none" => job["desktop"].pc = "none" /\ pipe = <<>>
    /\ window.op # "none" => job["desktop"].pc # "none" /\ window.run \in Runs
    /\ job["desktop"].pc \in Alive =>
         job["desktop"].run = window.run /\ job["desktop"].kind = window.op
    /\ job["scheduled"].pc \in Alive =>
         job["scheduled"].run # window.run /\ job["scheduled"].kind = "scan"

\* A pending force stop of the present run is there because the user asked.
Asked ==
    /\ window.op # "none" /\ window.run \in timers => window.asked
    /\ ForcedWasAsked

\* A terminal event of a scan tells the truth, and goes on telling it.
TrueOf(event) ==
    /\ event.type \in Ends
    /\ event.outcome \in {"changed", "unchanged", "unknown"}
    /\ event.outcome = "unchanged" => Untouched(window.run)

Shows ==
    /\ window.outcome = "No email changed" /\ window.run # 0 => Untouched(window.run)
    /\ window.op = "quiz" => Untouched(window.run)
    /\ job["desktop"].pc = "booting" => pipe = <<>> /\ Untouched(window.run)
    /\ window.op = "scan" => \A i \in DOMAIN pipe : TrueOf(pipe[i])
    /\ window.op = "scan" /\ job["desktop"].pc \in Before =>
         pipe = <<>> /\ window.outcome = "Scan in progress"

WindowInv == WindowTypes /\ Owns /\ Asked /\ Shows

(***************************************************************************)
(* The step of a process leaves the window's picture true: a scan that is  *)
(* still at work has said nothing, and what it says at its end it knows.   *)
(***************************************************************************)
LEMMA PictureKept ==
    ASSUME WorkerInv, WindowInv, NEW p \in Processes, Moves(p),
           \/ UNCHANGED pipe
           \/ Told(p)
           \/ p = "desktop" /\ window.op = "quiz" /\ \E event \in Events : pipe' = Append(pipe, event),
           window'.op = window.op, window'.run = window.run, window'.outcome = window.outcome
    PROVE  Owns' /\ Shows'
<1>1. /\ "desktop" \in Processes /\ "scheduled" \in Processes
      /\ p = "desktop" \/ p = "scheduled"
    BY DEF Processes
<1>2. /\ Len(effects') = Len(effects) /\ Runs' = Runs
      /\ window.run \in Runs \cup {0}
    BY DEF Moves, Runs, WindowInv, WindowTypes
<1>3. ASSUME NEW q \in Processes, job'[q].pc \in Alive
      PROVE  job[q].pc \in Alive /\ job'[q].run = job[q].run /\ job'[q].kind = job[q].kind
    BY <1>3 DEF Moves
<1>4. /\ job'["desktop"].pc = "none" <=> job["desktop"].pc = "none"
      /\ job'["desktop"].pc = "booting" =>
           UNCHANGED pipe /\ p = "scheduled" /\ job["desktop"].pc = "booting"
      /\ job'["desktop"].pc \in Before => job["desktop"].pc \in Before
    BY <1>1 DEF Moves, Told, Alive, Working, Reporting
<1>5. pipe' # pipe => job["desktop"].pc # "none"
    BY DEF Told, WindowInv, Owns
<1>6. Owns'
    BY <1>1, <1>2, <1>3, <1>4, <1>5 DEF WindowInv, Owns
<1>7. window.run \in Runs /\ effects'[window.run] # effects[window.run]
        => window.op = "scan" /\ job["desktop"].pc = "mailbox_actions" /\ p = "desktop"
  <2> HAVE window.run \in Runs /\ effects'[window.run] # effects[window.run]
  <2>1. job[p].pc = "mailbox_actions" /\ job[p].run = window.run
      BY DEF Moves
  <2>2. p = "desktop"
      BY <1>1, <2>1 DEF WindowInv, Owns, Alive, Working
  <2>3. job[p].kind = "scan" /\ job[p].kind = window.op
      BY <2>1, <2>2 DEF WorkerInv, JobOK, Placed, WindowInv, Owns, Alive, Working
  <2> QED
      BY <2>1, <2>2, <2>3
<1>8. window.run # 0 /\ effects'[window.run] # effects[window.run]
        => window.op = "scan" /\ job["desktop"].pc \in Before
    BY <1>2, <1>7 DEF Before, Working
<1>9. window.outcome = "No email changed" /\ window.run # 0 => effects'[window.run] # "changed"
    BY <1>8 DEF WindowInv, Shows, Untouched
<1>10. window.op = "quiz" => effects'[window.run] # "changed"
    BY <1>7 DEF WindowInv, Owns, Shows, Untouched
<1>11. job'["desktop"].pc = "booting" => pipe' = <<>> /\ effects'[window.run] # "changed"
  <2> HAVE job'["desktop"].pc = "booting"
  <2>1. job["desktop"].pc = "booting" /\ UNCHANGED pipe
      BY <1>4
  <2>2. window.run \in Runs
      BY <2>1 DEF WindowInv, Owns
  <2> QED
      BY <1>7, <2>1, <2>2 DEF WindowInv, Shows, Untouched
<1>12. ASSUME window.op = "scan", NEW i \in DOMAIN pipe' PROVE TrueOf(pipe[i])'
  <2>1. pipe \in Seq(Events) /\ window.run \in Runs
      BY <1>12 DEF WorkerInv, WorkerTypes, WindowInv, Owns
  <2>2. CASE UNCHANGED pipe
    <3>1. effects'[window.run] = effects[window.run]
      <4>1. pipe # <<>>
          BY <1>12, <2>2
      <4>2. job["desktop"].pc \notin Before
          BY <1>12, <4>1 DEF WindowInv, Shows
      <4> QED
          BY <1>7, <2>1, <4>2 DEF Before, Working
    <3> QED
        BY <1>12, <2>2, <3>1 DEF WindowInv, Shows, TrueOf, Untouched
  <2>3. CASE Told(p)
    <3>1. PICK event : event = Event(job[p].status, Outcome(job[p]), 0)
        OBVIOUS
    <3>2. /\ event.type = job[p].status /\ event.outcome = Outcome(job[p])
          /\ p = "desktop" /\ job[p].pc = "telling" /\ pipe' = Append(pipe, event)
        BY <2>3, <3>1 DEF Told, Event
    <3>3. UNCHANGED effects
        BY <3>2 DEF Moves
    <3>4. job[p].run = window.run /\ job[p].kind = "scan" /\ JobOK(p)
        BY <1>1, <1>12, <3>2 DEF WorkerInv, WindowInv, Owns, Alive, Reporting
    <3>5. event.type \in Ends
        BY <3>2, <3>4 DEF JobOK, Placed, Reporting
    <3>6. /\ event.outcome \in {"changed", "unchanged", "unknown"}
          /\ event.outcome = "unchanged" => effects[window.run] # "changed"
        BY <3>2, <3>4
        DEF JobOK, Aware, Alive, Reporting, Outcome, CompletedOutcome, TerminalOutcome
    <3>7. (i \in DOMAIN pipe /\ pipe'[i] = pipe[i]) \/ pipe'[i] = event
        BY <1>12, <2>1, <3>2
    <3> QED
        BY <1>12, <3>3, <3>5, <3>6, <3>7 DEF WindowInv, Shows, TrueOf, Untouched
  <2> QED
      BY <1>12, <2>2, <2>3
<1>13. window.op = "scan" /\ job'["desktop"].pc \in Before
         => pipe' = <<>> /\ window.outcome = "Scan in progress"
  <2>1. job'["desktop"].pc \in Before => ~Told(p)
      BY DEF Told, Before, Working
  <2> QED
      BY <1>4, <2>1 DEF WindowInv, Shows
<1>14. Shows'
    BY <1>9, <1>10, <1>11, <1>12, <1>13 DEF Shows, Untouched
<1> QED
    BY <1>6, <1>14

-----------------------------------------------------------------------------
(***************************************************************************)
(* The quiz.  The questions in the pipe are the last ones asked, in order; *)
(* each question the dialog has shown was clicked at most once.            *)
(***************************************************************************)
QuizTypes ==
    /\ asked \in 0..Questions
    /\ stdin \in Seq(Nat)
    /\ answers \in Seq(Nat)
    /\ dialog \in [open : BOOLEAN, enabled : BOOLEAN, shown : Nat]

InOrder ==
    /\ Len(answers) <= asked /\ asked <= Len(answers) + 1
    /\ window.op # "quiz" =>
         asked = 0 /\ stdin = <<>> /\ answers = <<>> /\ ~dialog.enabled
    /\ job["desktop"].pc \in {"booting", "startup"} => asked = 0
    /\ job["desktop"].pc = "asking" => Len(answers) = asked
    /\ job["desktop"].pc = "reading" => Len(answers) + 1 = asked
    /\ AtMostOneAhead
    /\ \A i \in DOMAIN stdin : stdin[i] \in {Len(answers) + i - 1, Len(answers) + i}

\* The first k events of the pipe are questions, and the rest are not.
Unread(k) ==
    /\ \A i \in DOMAIN pipe :
         IF i <= k THEN pipe[i].type = "candidate" /\ pipe[i].question = asked - k + i
                   ELSE pipe[i].type \in Ends
    /\ k <= asked
    /\ Len(answers) + Len(stdin) <= asked - k + 1
    /\ dialog.enabled => /\ dialog.shown = asked - k
                         /\ Len(answers) + Len(stdin) <= asked - k
    /\ window.op = "quiz" /\ job["desktop"].pc \in Questioning => k = Len(pipe)

QuizInv ==
    /\ QuizTypes
    /\ InOrder
    /\ \E k \in 0..Len(pipe) : Unread(k)

SessionInv == WorkerInv /\ WindowInv /\ QuizInv

(***************************************************************************)
(* A process's step asks and answers nothing but in a step of the quiz;    *)
(* closing the dialog takes nothing back.                                  *)
(***************************************************************************)
LEMMA QuizStands ==
    ASSUME WorkerInv, QuizInv, NEW p \in Processes, Moves(p), NoQuestion(p),
           UNCHANGED pipe \/ Told(p),
           UNCHANGED <<asked, stdin, answers>>,
           UNCHANGED dialog \/ dialog' = NoDialog,
           window'.op = window.op
    PROVE  QuizInv'
<1>1. p = "desktop" \/ (p = "scheduled" /\ job'["desktop"] = job["desktop"])
    BY DEF Processes, Moves
<1>2. /\ pipe \in Seq(Events)
      /\ job["desktop"].pc = "telling" => job["desktop"].status \in Ends
    BY DEF WorkerInv, WorkerTypes, JobOK, Placed, Processes, Reporting
<1>3. QuizTypes'
  <2>1. NoDialog \in [open : BOOLEAN, enabled : BOOLEAN, shown : Nat]
      BY DEF NoDialog
  <2> QED
      BY <2>1 DEF QuizInv, QuizTypes
<1>4. job'["desktop"].pc \in Questioning =>
         \/ UNCHANGED job["desktop"]
         \/ job["desktop"].pc = "booting" /\ job'["desktop"].pc = "startup"
         \/ job["desktop"].pc = "startup" /\ job'["desktop"].pc = "asking"
    BY <1>1 DEF NoQuestion
<1>5. InOrder'
  <2>1. Len(answers) \in Nat
      BY DEF QuizInv, QuizTypes
  <2>2. ~dialog.enabled => ~dialog'.enabled
      BY DEF NoDialog
  <2> QED
      BY <1>4, <2>1, <2>2 DEF QuizInv, InOrder, AtMostOneAhead, Questioning
<1>6. PICK k \in 0..Len(pipe) : Unread(k)
    BY DEF QuizInv
<1>7. k \in 0..Len(pipe') /\ Unread(k)'
  <2>1. dialog'.enabled => dialog.enabled /\ UNCHANGED dialog
      BY DEF NoDialog
  <2>2. job'["desktop"].pc \in Questioning =>
           UNCHANGED pipe /\ job["desktop"].pc \in Questioning
      BY <1>1, <1>4 DEF Told, Questioning
  <2>3. CASE UNCHANGED pipe
      BY <1>6, <2>1, <2>2, <2>3 DEF Unread
  <2>4. CASE Told(p)
    <3>1. PICK event : event = Event(job[p].status, Outcome(job[p]), 0)
        OBVIOUS
    <3>2. event.type \in Ends /\ pipe' = Append(pipe, event)
        BY <1>2, <2>4, <3>1 DEF Told, Event
    <3>3. /\ Len(pipe') = Len(pipe) + 1 /\ k <= Len(pipe)
          /\ \A i \in DOMAIN pipe' :
               \/ i \in DOMAIN pipe /\ pipe'[i] = pipe[i]
               \/ i = Len(pipe) + 1 /\ pipe'[i] = event
        BY <1>2, <1>6, <3>2
    <3>4. \A i \in DOMAIN pipe' :
             IF i <= k THEN pipe'[i].type = "candidate" /\ pipe'[i].question = asked - k + i
                       ELSE pipe'[i].type \in Ends
        BY <1>2, <1>6, <3>2, <3>3 DEF Unread
    <3> QED
        BY <1>2, <1>6, <2>1, <2>2, <3>3, <3>4 DEF Unread, Told, Questioning
  <2> QED
      BY <2>3, <2>4
<1> QED
    BY <1>3, <1>5, <1>7 DEF QuizInv

(***************************************************************************)
(* The steps of the window and of the processes, one by one.               *)
(***************************************************************************)
LEMMA ProcessStepKept ==
    ASSUME SessionInv, NEW p \in Processes, Work(p) \/ Affect(p) \/ Mishap(p),
           UNCHANGED <<quizVars, windowVars>>
    PROVE  SessionInv'
<1>1. Moves(p) /\ NoQuestion(p) /\ (UNCHANGED pipe \/ Told(p))
    BY ProcessMoves DEF SessionInv
<1>2. WorkerInv'
    BY BootKept, EnterKept, AnalyseKept, EndChunkKept, RaiseKept, OpenLogKept, ReplaceLogKept,
       TellKept, LeaveKept, AffectKept, LoseAnswerKept, LoseMarkerKept, FailKept,
       RecordFailsKept, HangKept, DieKept
    DEF SessionInv, Work, Mishap
<1>3. UNCHANGED <<window, timers, panel, asked, stdin, answers, dialog>>
    BY DEF windowVars, quizVars
<1>4. Owns' /\ Shows'
    BY <1>1, <1>3, PictureKept DEF SessionInv
<1>5. WindowTypes' /\ Asked'
  <2>1. Runs' = Runs /\ Version <= Version'
      BY <1>1 DEF Moves, Runs, Version
  <2>2. Version \in Nat /\ Version' \in Nat
      BY <1>2 DEF SessionInv, WorkerInv, WorkerTypes, Version
  <2> QED
      BY <1>3, <2>1, <2>2 DEF SessionInv, WindowInv, WindowTypes, Asked, ForcedWasAsked
<1>6. QuizInv'
    BY <1>1, <1>3, QuizStands DEF SessionInv
<1> QED
    BY <1>2, <1>4, <1>5, <1>6 DEF SessionInv, WindowInv

\* The user cancels: the process is asked to stop and a timer is set.
LEMMA CancelKept == ASSUME SessionInv, Cancel PROVE SessionInv'
<1>1. "desktop" \in Processes
    BY DEF Processes
<1>2. WorkerInv'
    BY <1>1, TerminateKept DEF Cancel, SessionInv
<1>3. /\ window \in Windows /\ window.run \in Runs
      /\ window' = [window EXCEPT !.asked = TRUE]
      /\ timers' = timers \cup {window.run} /\ UNCHANGED panel
      /\ UNCHANGED <<asked, stdin, answers>> /\ (UNCHANGED dialog \/ dialog' = NoDialog)
    BY DEF Cancel, CloseDialog, quizVars, SessionInv, WindowInv, WindowTypes, Owns
<1>4. /\ window' \in Windows
      /\ window'.op = window.op /\ window'.run = window.run
      /\ window'.outcome = window.outcome /\ window'.asked
    BY <1>3 DEF Windows
<1>5. CASE UNCHANGED workerVars
  <2>1. UNCHANGED <<job, pipe, effects, appended>> /\ UNCHANGED Runs
      BY <1>5 DEF workerVars, Runs
  <2>2. WindowTypes' /\ Asked'
      BY <1>3, <1>4, <2>1
      DEF SessionInv, WindowInv, WindowTypes, Asked, ForcedWasAsked, Version
  <2>3. Owns' /\ Shows'
      BY <1>4, <2>1 DEF SessionInv, WindowInv, Owns, Shows, TrueOf, Untouched
  <2>4. ~dialog.enabled => ~dialog'.enabled
      BY <1>3 DEF NoDialog
  <2>5. dialog'.enabled => UNCHANGED dialog
      BY <1>3 DEF NoDialog
  <2>6. QuizTypes' /\ InOrder'
    <3>1. NoDialog \in [open : BOOLEAN, enabled : BOOLEAN, shown : Nat]
        BY DEF NoDialog
    <3> QED
        BY <1>3, <1>4, <2>1, <2>4, <3>1
        DEF SessionInv, QuizInv, QuizTypes, InOrder, AtMostOneAhead
  <2>7. \A k : Unread(k) => Unread(k)'
      BY <1>3, <1>4, <2>1, <2>5 DEF Unread
  <2> QED
      BY <1>2, <2>1, <2>2, <2>3, <2>6, <2>7 DEF SessionInv, WindowInv, QuizInv
<1>6. CASE Moves("desktop") /\ UNCHANGED pipe /\ NoQuestion("desktop")
  <2>1. Owns' /\ Shows'
      BY <1>1, <1>4, <1>6, PictureKept DEF SessionInv
  <2>2. Runs' = Runs /\ Version <= Version'
      BY <1>6 DEF Moves, Runs, Version
  <2>3. Version \in Nat /\ Version' \in Nat
      BY <1>2 DEF SessionInv, WorkerInv, WorkerTypes, Version
  <2>4. WindowTypes' /\ Asked'
      BY <1>3, <1>4, <2>2, <2>3 DEF SessionInv, WindowInv, WindowTypes, Asked, ForcedWasAsked
  <2>5. QuizInv'
      BY <1>1, <1>3, <1>4, <1>6, QuizStands DEF SessionInv
  <2> QED
      BY <1>2, <2>1, <2>4, <2>5 DEF SessionInv, WindowInv
<1> QED
    BY <1>1, <1>5, <1>6, TerminateMoves DEF Cancel, SessionInv

\* The timer goes off, and stops the run it was set for or nothing.
LEMMA ForceStopKept ==
    ASSUME SessionInv, NEW run \in timers, ForceStop(run)
    PROVE  SessionInv'
<1>1. "desktop" \in Processes
    BY DEF Processes
<1>2. /\ timers' = timers \ {run} /\ UNCHANGED panel
      /\ UNCHANGED <<asked, stdin, answers, dialog>>
    BY DEF ForceStop, quizVars
<1>3. CASE window.op # "none" /\ window.run = run /\ job["desktop"].pc \in Alive
  <2>1. Die("desktop") /\ window' = [window EXCEPT !.forced = TRUE]
      BY <1>3 DEF ForceStop
  <2>2. Moves("desktop") /\ UNCHANGED pipe /\ NoQuestion("desktop")
      BY <1>1, <2>1, DieMoves DEF SessionInv
  <2>3. window \in Windows /\ window.asked
      BY <1>3 DEF SessionInv, WindowInv, WindowTypes, Asked
  <2>4. /\ window' \in Windows
        /\ window'.op = window.op /\ window'.run = window.run
        /\ window'.outcome = window.outcome /\ window'.asked
      BY <2>1, <2>3 DEF Windows
  <2>5. WorkerInv'
      BY <1>1, <2>1, DieKept DEF SessionInv
  <2>6. Owns' /\ Shows'
      BY <1>1, <2>2, <2>4, PictureKept DEF SessionInv
  <2>7. Runs' = Runs /\ Version <= Version'
      BY <2>2 DEF Moves, Runs, Version
  <2>8. Version \in Nat /\ Version' \in Nat
      BY <2>5 DEF SessionInv, WorkerInv, WorkerTypes, Version
  <2>9. WindowTypes' /\ Asked'
      BY <1>2, <2>4, <2>7, <2>8 DEF SessionInv, WindowInv, WindowTypes, Asked, ForcedWasAsked
  <2>10. QuizInv'
      BY <1>1, <1>2, <2>2, <2>4, QuizStands DEF SessionInv
  <2> QED
      BY <2>5, <2>6, <2>9, <2>10 DEF SessionInv, WindowInv
<1>4. CASE ~(window.op # "none" /\ window.run = run /\ job["desktop"].pc \in Alive)
  <2>1. UNCHANGED <<workerVars, window>>
      BY <1>4 DEF ForceStop
  <2>2. WorkerInv'
      BY <2>1 DEF SessionInv, workerVars, WorkerInv, WorkerTypes, JobOK, Placed, Aware, Drafted,
         Successor, Runs, Apart, RecordsTrue, Untouched, NoRecordLost
  <2>3. UNCHANGED <<job, pipe, effects, appended, window>> /\ UNCHANGED Runs
      BY <2>1 DEF workerVars, Runs
  <2>4. WindowInv'
      BY <1>2, <2>3
      DEF SessionInv, WindowInv, WindowTypes, Owns, Asked, ForcedWasAsked, Shows, TrueOf,
          Untouched, Version
  <2>5. QuizInv'
      BY <1>2, <2>3
      DEF SessionInv, QuizInv, QuizTypes, InOrder, AtMostOneAhead, Unread
  <2> QED
      BY <2>2, <2>4, <2>5 DEF SessionInv
<1> QED
    BY <1>3, <1>4

\* The window looks at the diagnostics file.
LEMMA PollKept == ASSUME SessionInv, Poll PROVE SessionInv'
<1>1. /\ UNCHANGED <<job, lock, fresh, log, logLock, pipe, effects, appended>>
      /\ UNCHANGED <<asked, stdin, answers, dialog, window, timers>> /\ UNCHANGED Runs
    BY DEF Poll, workerVars, quizVars, Runs
<1>2. WorkerInv'
    BY <1>1 DEF SessionInv, WorkerInv, WorkerTypes, JobOK, Placed, Aware, Drafted,
       Successor, Apart, RecordsTrue, Untouched, NoRecordLost
<1>3. WindowTypes'
  <2>1. Version \in Nat /\ UNCHANGED Version
      BY <1>1 DEF SessionInv, WorkerInv, WorkerTypes, Version
  <2>2. /\ panel \in [known : Nat, shown : Nat]
        /\ panel.shown <= panel.known /\ panel.known <= Version
      BY DEF SessionInv, WindowInv, WindowTypes
  <2>3. /\ panel' \in [known : Nat, shown : Nat]
        /\ panel'.shown <= panel'.known /\ panel'.known <= Version
      BY <2>1, <2>2 DEF Poll, Refreshed
  <2> QED
      BY <1>1, <2>1, <2>3 DEF SessionInv, WindowInv, WindowTypes
<1>4. Owns' /\ Asked' /\ Shows'
    BY <1>1 DEF SessionInv, WindowInv, Owns, Asked, ForcedWasAsked, Shows, TrueOf, Untouched
<1>5. QuizInv'
    BY <1>1 DEF SessionInv, QuizInv, QuizTypes, InOrder, AtMostOneAhead, Unread
<1> QED
    BY <1>2, <1>3, <1>4, <1>5 DEF SessionInv, WindowInv

(***************************************************************************)
(* A click: whatever the dialog shows is the question after the last       *)
(* answer on its way, or the one before.                                   *)
(***************************************************************************)
LEMMA GiveAnswerKept == ASSUME SessionInv, GiveAnswer PROVE SessionInv'
<1>1. /\ UNCHANGED <<job, lock, fresh, log, logLock, pipe, effects, appended>>
      /\ UNCHANGED <<asked, answers, window, timers, panel>> /\ UNCHANGED Runs
    BY DEF GiveAnswer, Answer, workerVars, windowVars, Runs
<1>2. WorkerInv'
    BY <1>1 DEF SessionInv, WorkerInv, WorkerTypes, JobOK, Placed, Aware, Drafted,
       Successor, Apart, RecordsTrue, Untouched, NoRecordLost
<1>3. WindowInv'
    BY <1>1 DEF SessionInv, WindowInv, WindowTypes, Owns, Asked, ForcedWasAsked, Shows, TrueOf,
       Untouched, Version
<1>4. /\ window.op = "quiz" /\ dialog.enabled /\ dialog.shown \in Nat
      /\ stdin' = Append(stdin, dialog.shown)
      /\ dialog' = [dialog EXCEPT !.enabled = FALSE]
      /\ stdin \in Seq(Nat) /\ answers \in Seq(Nat) /\ asked \in Nat
      /\ dialog \in [open : BOOLEAN, enabled : BOOLEAN, shown : Nat]
    BY QuestionsAssumption DEF GiveAnswer, Answer, SessionInv, QuizInv, QuizTypes
<1>5. /\ Len(stdin') = Len(stdin) + 1
      /\ stdin' \in Seq(Nat)
      /\ \A i \in DOMAIN stdin' :
           \/ i \in DOMAIN stdin /\ stdin'[i] = stdin[i]
           \/ i = Len(stdin) + 1 /\ stdin'[i] = dialog.shown
    BY <1>4, AppendProperties
<1>6. PICK k \in 0..Len(pipe) : Unread(k)
    BY DEF SessionInv, QuizInv
<1>7. Len(answers) <= asked /\ asked <= Len(answers) + 1
    BY DEF SessionInv, QuizInv, InOrder
<1>8. /\ dialog.shown = asked - k /\ k \in Nat
      /\ Len(answers) + Len(stdin) <= asked - k
      /\ k = 0 \/ Len(pipe) # 0
    BY <1>4, <1>6 DEF Unread
<1>9. dialog.shown \in {Len(answers) + Len(stdin), Len(answers) + Len(stdin) + 1}
  <2>0. Len(answers) \in Nat /\ Len(stdin) \in Nat
      BY <1>4
  <2>1. PICK a \in Nat, s \in Nat : a = Len(answers) /\ s = Len(stdin)
      BY <2>0
  <2>2. a + s <= asked - k /\ asked - k <= a + 1
      BY <1>4, <1>7, <1>8, <2>1
  <2>3. asked - k = a + s \/ asked - k = a + s + 1
      BY <1>4, <1>8, <2>1, <2>2
  <2> QED
      BY <1>8, <2>1, <2>3
<1>10. dialog' \in [open : BOOLEAN, enabled : BOOLEAN, shown : Nat] /\ ~dialog'.enabled
    BY <1>4
<1>11. QuizTypes'
    BY <1>1, <1>5, <1>10 DEF SessionInv, QuizInv, QuizTypes
<1>12. \A i \in DOMAIN stdin' : stdin'[i] \in {Len(answers) + i - 1, Len(answers) + i}
  <2> TAKE i \in DOMAIN stdin'
  <2>1. CASE i \in DOMAIN stdin /\ stdin'[i] = stdin[i]
      BY <2>1 DEF SessionInv, QuizInv, InOrder
  <2>2. CASE i = Len(stdin) + 1 /\ stdin'[i] = dialog.shown
    <3>1. Len(answers) + i - 1 = Len(answers) + Len(stdin) /\ Len(answers) + i = Len(answers) + Len(stdin) + 1
        BY <1>4, <2>2
    <3> QED
        BY <1>9, <2>2, <3>1
  <2> QED
      BY <1>5, <2>1, <2>2
<1>13. InOrder'
    BY <1>1, <1>4, <1>12 DEF SessionInv, QuizInv, InOrder, AtMostOneAhead
<1>14. Unread(k)'
  <2>1. Len(answers) + Len(stdin') <= asked - k + 1
      BY <1>4, <1>5, <1>8
  <2> QED
      BY <1>1, <1>6, <1>10, <2>1 DEF Unread
<1> QED
    BY <1>1, <1>2, <1>3, <1>6, <1>11, <1>13, <1>14 DEF SessionInv, QuizInv

(***************************************************************************)
(* The worker's three steps of a quiz.                                     *)
(***************************************************************************)
LEMMA QuizStepMoves ==
    ASSUME SessionInv, AskQuestions
    PROVE  Moves("desktop") /\ job["desktop"].kind = "quiz" /\ window.op = "quiz"
<1> DEFINE p == "desktop"
<1>0. /\ job[p] \in Jobs /\ job[p].pc \in {"asking", "reading"} /\ job[p].pc \in Alive
      /\ p \in Processes /\ appended \in Seq(Records) /\ JobOK(p) /\ WorkerInv
    BY DEF SessionInv, WorkerInv, WorkerTypes, AskQuestions, Ask, StoreAnswer, EndQuestions,
       Alive, Working, Processes
<1>1. PICK next \in {"reading", "asking", "telling"}, status \in Statuses :
         job' = [job EXCEPT ![p].pc = next, ![p].status = status]
  <2>1. job[p].status \in Statuses /\ "completed" \in Statuses
      BY <1>0 DEF Jobs, Statuses, Ends
  <2>2. ASSUME NEW next \in {"reading", "asking", "telling"}, Goto(p, next)
        PROVE  job' = [job EXCEPT ![p].pc = next, ![p].status = job[p].status]
    <3>1. [job[p] EXCEPT !.pc = next] = [job[p] EXCEPT !.pc = next, !.status = job[p].status]
        BY <1>0 DEF Jobs
    <3> QED
        BY <2>2, <3>1 DEF Goto
  <2> QED
      BY <2>1, <2>2 DEF AskQuestions, Ask, StoreAnswer, EndQuestions
<1> DEFINE j == [job[p] EXCEPT !.pc = next, !.status = status]
<1>2. job' = [job EXCEPT ![p] = j] /\ UNCHANGED <<effects, appended>>
    BY <1>1 DEF AskQuestions, Ask, StoreAnswer, EndQuestions
<1>3. j.pc = next /\ j.kind = job[p].kind /\ j.run = job[p].run
    BY <1>0 DEF Jobs
<1> HIDE DEF j
<1>4. Moves(p)
    BY <1>0, <1>2, <1>3, WithinMoves DEF Before, Working
<1>5. job[p].kind = "quiz" /\ window.op = "quiz"
    BY <1>0 DEF JobOK, Placed, SessionInv, WindowInv, Owns
<1> QED
    BY <1>4, <1>5

\* A step of the quiz, seen by the process, the window and the dialog.
LEMMA QuizStepKept == ASSUME SessionInv, QuizStep PROVE SessionInv'
<1>1. AskQuestions /\ UNCHANGED <<window, timers, panel>>
    BY DEF QuizStep, windowVars
<1>2. Moves("desktop") /\ job["desktop"].kind = "quiz" /\ window.op = "quiz"
    BY <1>1, QuizStepMoves
<1>3. /\ "desktop" \in Processes /\ job["desktop"] \in Jobs
      /\ asked \in 0..Questions /\ Questions \in Nat /\ asked \in Nat
      /\ stdin \in Seq(Nat) /\ answers \in Seq(Nat) /\ pipe \in Seq(Events)
    BY QuestionsAssumption DEF Processes, SessionInv, WorkerInv, WorkerTypes, QuizInv, QuizTypes
<1>4. WorkerInv'
    BY <1>1, <1>3, AskKept, StoreAnswerKept, EndQuestionsKept DEF SessionInv, AskQuestions
<1>5. UNCHANGED pipe \/ \E event \in Events : pipe' = Append(pipe, event)
  <2>1. Event("candidate", "none", asked + 1) \in Events
      BY <1>3 DEF Event, Events, Outcomes
  <2> QED
      BY <1>1, <2>1 DEF AskQuestions, Ask, StoreAnswer, EndQuestions
<1>6. Owns' /\ Shows'
    BY <1>1, <1>2, <1>3, <1>5, PictureKept DEF SessionInv
<1>7. WindowTypes' /\ Asked'
  <2>1. Runs' = Runs /\ Version <= Version'
      BY <1>2 DEF Moves, Runs, Version
  <2>2. Version \in Nat /\ Version' \in Nat
      BY <1>4 DEF SessionInv, WorkerInv, WorkerTypes, Version
  <2> QED
      BY <1>1, <2>1, <2>2 DEF SessionInv, WindowInv, WindowTypes, Asked, ForcedWasAsked
<1>8. PICK k \in 0..Len(pipe) : Unread(k)
    BY DEF SessionInv, QuizInv
<1>9. InOrder /\ QuizTypes
    BY DEF SessionInv, QuizInv
<1>10. CASE Ask
  <2>1. PICK event : event = Event("candidate", "none", asked + 1)
      OBVIOUS
  <2>2. /\ event.type = "candidate" /\ event.question = asked + 1 /\ event \in Events
        /\ pipe' = Append(pipe, event) /\ asked' = asked + 1 /\ asked < Questions
        /\ UNCHANGED <<stdin, answers, dialog>>
        /\ job["desktop"].pc = "asking"
      BY <1>3, <1>10, <2>1 DEF Ask, Event, Events, Outcomes
  <2>3. job'["desktop"].pc = "reading"
      BY <1>3, <1>10 DEF Ask, Goto, SessionInv, WorkerInv, WorkerTypes, Jobs
  <2>4. QuizTypes'
      BY <1>3, <1>9, <2>2 DEF QuizTypes
  <2>5. InOrder'
      BY <1>1, <1>2, <1>3, <1>9, <2>2, <2>3 DEF InOrder, AtMostOneAhead
  <2>6. k = Len(pipe) /\ k <= asked /\ k \in Nat
      BY <1>2, <1>3, <1>8, <2>2 DEF Unread, Questioning
  <2>7. /\ Len(pipe') = k + 1
        /\ \A i \in DOMAIN pipe' :
             \/ i \in DOMAIN pipe /\ pipe'[i] = pipe[i]
             \/ i = k + 1 /\ pipe'[i] = event
      BY <1>3, <2>2, <2>6, AppendProperties
  <2>8. \A i \in DOMAIN pipe' :
           /\ i \in Nat /\ i <= k + 1
           /\ pipe'[i].type = "candidate"
           /\ pipe'[i].question = (asked + 1) - (k + 1) + i
    <3> TAKE i \in DOMAIN pipe'
    <3>1. i \in Nat /\ i <= k + 1
        BY <1>3, <2>2, <2>6, <2>7
    <3>2. CASE i \in DOMAIN pipe /\ pipe'[i] = pipe[i]
      <4>1. i <= k
          BY <1>3, <2>6, <3>2
      <4>2. pipe[i].type = "candidate" /\ pipe[i].question = asked - k + i
          BY <1>8, <3>2, <4>1 DEF Unread
      <4>3. asked - k + i = (asked + 1) - (k + 1) + i
          BY <1>3, <2>6, <3>1
      <4> QED
          BY <3>1, <3>2, <4>2, <4>3
    <3>3. CASE i = k + 1 /\ pipe'[i] = event
      <4>1. asked + 1 = (asked + 1) - (k + 1) + (k + 1)
          BY <1>3, <2>6
      <4> QED
          BY <2>2, <3>1, <3>3, <4>1
    <3> QED
        BY <2>7, <3>2, <3>3
  <2>9. asked' - (k + 1) = asked - k /\ k + 1 <= asked'
      BY <1>3, <2>2, <2>6
  <2>10. Unread(k + 1)'
      BY <1>8, <2>2, <2>7, <2>8, <2>9 DEF Unread
  <2>11. k + 1 \in 0..Len(pipe')
      BY <2>6, <2>7
  <2> QED
      BY <2>4, <2>5, <2>10, <2>11, <1>4, <1>6, <1>7 DEF SessionInv, WindowInv, QuizInv
<1>11. CASE StoreAnswer
  <2>1. /\ stdin # <<>> /\ answers' = Append(answers, Head(stdin)) /\ stdin' = Tail(stdin)
        /\ UNCHANGED <<pipe, asked, dialog>> /\ job["desktop"].pc = "reading"
      BY <1>11 DEF StoreAnswer
  <2>2. job'["desktop"].pc = "asking"
      BY <1>3, <1>11 DEF StoreAnswer, Goto, SessionInv, WorkerInv, WorkerTypes, Jobs
  <2>3. PICK n \in Nat, m \in Nat :
           n \in Nat /\ m \in Nat /\ n = Len(answers) /\ m + 1 = Len(stdin)
    <3>1. Len(answers) \in Nat /\ Len(stdin) - 1 \in Nat
        BY <1>3, <2>1
    <3> QED
        BY <3>1
  <2>4. /\ stdin' \in Seq(Nat) /\ Len(stdin') = m
        /\ \A i \in 1..m : stdin'[i] = stdin[i + 1]
        /\ stdin[1] \in Nat /\ Head(stdin) = stdin[1]
      BY <1>3, <2>1, <2>3, HeadTailProperties
  <2>5. /\ answers' \in Seq(Nat) /\ Len(answers') = n + 1
        /\ \A i \in 1..n : answers'[i] = answers[i]
        /\ answers'[n + 1] = stdin[1]
      BY <1>3, <2>1, <2>3, <2>4, AppendProperties
  <2>6. QuizTypes'
      BY <1>9, <2>1, <2>4, <2>5 DEF QuizTypes
  <2>7. /\ n + 1 = asked
        /\ \A i \in 1..(m + 1) : stdin[i] \in {n + i - 1, n + i}
        /\ \A i \in 1..n : answers[i] \in {i - 1, i}
    <3>1. DOMAIN stdin = 1..(m + 1) /\ DOMAIN answers = 1..n
        BY <1>3, <2>3
    <3>2. n + 1 = asked
        BY <1>3, <1>9, <2>1, <2>3 DEF InOrder
    <3>3. \A i \in DOMAIN stdin : stdin[i] \in {n + i - 1, n + i}
        BY <1>9, <2>3 DEF InOrder
    <3> QED
        BY <1>9, <3>1, <3>2, <3>3 DEF InOrder, AtMostOneAhead
  <2>8. \A i \in 1..(n + 1) : answers'[i] \in {i - 1, i}
    <3> TAKE i \in 1..(n + 1)
    <3>1. CASE i = n + 1
      <4>1. stdin[1] \in {n + 1 - 1, n + 1}
          BY <2>7
      <4> QED
          BY <2>5, <3>1, <4>1
    <3>2. CASE i # n + 1
        BY <2>5, <2>7, <3>2
    <3> QED
        BY <3>1, <3>2
  <2>9. \A i \in 1..m : stdin'[i] \in {(n + 1) + i - 1, (n + 1) + i}
    <3> TAKE i \in 1..m
    <3>1. stdin[i + 1] \in {n + (i + 1) - 1, n + (i + 1)}
        BY <2>7
    <3> QED
        BY <2>4, <3>1
  <2>10. DOMAIN answers' = 1..(n + 1) /\ DOMAIN stdin' = 1..m
      BY <2>4, <2>5
  <2>11. InOrder'
    <3>1. Len(answers') = asked' /\ Len(answers') <= asked' /\ asked' <= Len(answers') + 1
        BY <1>3, <2>1, <2>3, <2>5, <2>7
    <3>2. AtMostOneAhead'
        BY <2>8, <2>10 DEF AtMostOneAhead
    <3>3. \A i \in DOMAIN stdin' : stdin'[i] \in {Len(answers') + i - 1, Len(answers') + i}
        BY <2>5, <2>9, <2>10
    <3> QED
        BY <1>1, <1>2, <2>2, <3>1, <3>2, <3>3 DEF InOrder
  <2>12. Len(answers') + Len(stdin') = Len(answers) + Len(stdin)
    <3>1. n + 1 + m = n + (m + 1)
        BY <2>3
    <3> QED
        BY <2>3, <2>4, <2>5, <3>1
  <2>13. Unread(k)'
      BY <1>1, <1>8, <2>1, <2>12 DEF Unread, Questioning
  <2> QED
      BY <1>4, <1>6, <1>7, <1>8, <2>1, <2>6, <2>11, <2>13 DEF SessionInv, WindowInv, QuizInv
<1>12. CASE EndQuestions
  <2>1. UNCHANGED <<pipe, asked, stdin, answers, dialog>>
      BY <1>12 DEF EndQuestions, quizVars
  <2>2. job'["desktop"].pc = "telling"
      BY <1>3, <1>12 DEF EndQuestions, SessionInv, WorkerInv, WorkerTypes, Jobs
  <2>3. QuizTypes' /\ InOrder'
      BY <1>1, <1>9, <2>1, <2>2 DEF QuizTypes, InOrder, AtMostOneAhead
  <2>4. Unread(k)'
      BY <1>1, <1>8, <2>1, <2>2 DEF Unread, Questioning
  <2> QED
      BY <1>4, <1>6, <1>7, <1>8, <2>1, <2>3, <2>4 DEF SessionInv, WindowInv, QuizInv
<1> QED
    BY <1>1, <1>10, <1>11, <1>12 DEF AskQuestions

Nothing == <<>>

(***************************************************************************)
(* What there is in an empty pipe.                                         *)
(***************************************************************************)
LEMMA NothingIn ==
    /\ Nothing \in Seq(Nat)
    /\ Len(Nothing) = 0
    /\ DOMAIN Nothing = {}
    BY EmptySeq DEF Nothing

(***************************************************************************)
(* A new operation of the window, and one of the scheduler beside it.      *)
(***************************************************************************)
LEMMA StartLocalKept ==
    ASSUME SessionInv, NEW op \in {"scan", "quiz"}, StartLocalProcess(op)
    PROVE  SessionInv'
<1>0. PICK unlimited \in BOOLEAN : StartJob("desktop", op, unlimited)
    BY DEF StartLocalProcess
<1>1. "desktop" \in Processes /\ "scheduled" \in Processes \ {"desktop"}
    BY DEF Processes
<1>2. /\ WorkerInv'
      /\ Len(effects') = Len(effects) + 1
      /\ effects'[Len(effects) + 1] = "none"
      /\ job'["desktop"].pc = "booting" /\ job'["desktop"].run = Len(effects) + 1
      /\ job'["desktop"].kind = op
      /\ job'["scheduled"] = job["scheduled"]
    BY <1>0, <1>1, StartKept DEF SessionInv
<1>3. PICK new \in Nat : new \in Nat /\ new = Len(effects) + 1
    BY DEF SessionInv, WorkerInv, WorkerTypes
<1>4. /\ UNCHANGED <<pipe, appended, timers, panel>> /\ window.op = "none" /\ pipe = Nothing
      /\ Runs \subseteq Runs' /\ new \in Runs' /\ new \notin Runs
  <2>1. Runs = 1..Len(effects) /\ Runs' = 1..new
      BY <1>2, <1>3 DEF Runs
  <2>2. UNCHANGED <<pipe, appended>>
      BY <1>0 DEF StartJob
  <2>3. UNCHANGED <<timers, panel>> /\ window.op = "none"
      BY DEF StartLocalProcess
  <2>4. pipe = Nothing
      BY <2>3 DEF SessionInv, WindowInv, Owns, Nothing
  <2> QED
      BY <1>3, <2>1, <2>2, <2>3, <2>4
<1>5. /\ window'.op = op /\ window'.run = new /\ ~window'.asked /\ ~window'.forced
      /\ window'.outcome = IF op = "scan" THEN "Scan in progress" ELSE "No email changed"
      /\ window' \in Windows
    BY <1>3 DEF StartLocalProcess, Windows, Shown
<1>6. WindowTypes'
    BY <1>3, <1>4, <1>5 DEF SessionInv, WindowInv, WindowTypes, Version
<1>7. Owns'
  <2>1. job["scheduled"].pc \in Alive => job["scheduled"].run \in Runs /\ job["scheduled"].kind = "scan"
      BY <1>1 DEF SessionInv, WorkerInv, JobOK, Placed, WindowInv, Owns
  <2> QED
      BY <1>2, <1>3, <1>4, <1>5, <2>1 DEF Owns
<1>8. Asked'
    BY <1>3, <1>4, <1>5 DEF SessionInv, WindowInv, WindowTypes, Asked, ForcedWasAsked
<1>9. Shows'
  <2>1. effects'[window'.run] = "none" /\ pipe' = Nothing /\ \A i \in DOMAIN pipe' : FALSE
      BY <1>2, <1>3, <1>4, <1>5, NothingIn
  <2> QED
      BY <1>2, <1>5, <2>1 DEF Shows, Untouched, Nothing
<1>10. CASE op = "scan"
  <2>1. UNCHANGED <<asked, stdin, answers, dialog>>
      BY <1>10 DEF StartLocalProcess, quizVars
  <2>2. QuizTypes' /\ InOrder'
      BY <1>2, <1>4, <1>5, <1>10, <2>1
      DEF SessionInv, QuizInv, QuizTypes, InOrder, AtMostOneAhead
  <2>3. 0 \in 0..Len(pipe') /\ Unread(0)'
    <3>1. asked = 0 /\ stdin = Nothing /\ answers = Nothing /\ ~dialog.enabled
        BY <1>4 DEF SessionInv, QuizInv, InOrder, Nothing
    <3> QED
      <4>1. pipe' = Nothing /\ window'.op = "scan"
          BY <1>4, <1>5, <1>10
      <4> QED
          BY <2>1, <3>1, <4>1, NothingIn DEF Unread
  <2> QED
      BY <1>2, <1>6, <1>7, <1>8, <1>9, <2>2, <2>3 DEF SessionInv, WindowInv, QuizInv
<1>11. CASE op = "quiz"
  <2>1. /\ asked' = 0 /\ stdin' = Nothing /\ answers' = Nothing
        /\ dialog' = [open |-> TRUE, enabled |-> TRUE, shown |-> 0]
      BY <1>11 DEF StartLocalProcess, OpenDialog, Nothing
  <2>2. QuizTypes'
      BY <2>1, QuestionsAssumption, NothingIn DEF QuizTypes
  <2>3. InOrder'
    <3>1. job'["desktop"].pc = "booting" /\ window'.op = "quiz"
        BY <1>2, <1>5, <1>11
    <3> QED
        BY <2>1, <3>1, NothingIn DEF InOrder, AtMostOneAhead
  <2>4. 0 \in 0..Len(pipe') /\ Unread(0)'
      BY <1>4, <2>1, NothingIn DEF Unread
  <2> QED
      BY <1>2, <1>6, <1>7, <1>8, <1>9, <2>2, <2>3, <2>4 DEF SessionInv, WindowInv, QuizInv
<1> QED
    BY <1>10, <1>11

\* The scheduler starts a run that the window knows nothing of.
LEMMA StartScheduledKept == ASSUME SessionInv, StartScheduledRun PROVE SessionInv'
<1>0. PICK unlimited \in BOOLEAN : StartJob("scheduled", "scan", unlimited)
  <2>1. ("scheduled" \in Unlimited) \in BOOLEAN
      OBVIOUS
  <2>2. PICK u \in {"scheduled" \in Unlimited, FALSE} : StartJob("scheduled", "scan", u)
      BY Zenon DEF StartScheduledRun
  <2>3. u \in BOOLEAN
      BY <2>1, <2>2
  <2> QED
      BY <2>2, <2>3
<1>1. "scheduled" \in Processes /\ "desktop" \in Processes \ {"scheduled"}
    BY DEF Processes
<1>2. /\ WorkerInv'
      /\ Len(effects') = Len(effects) + 1
      /\ \A i \in Runs : effects'[i] = effects[i]
      /\ job'["scheduled"].pc = "booting" /\ job'["scheduled"].run = Len(effects) + 1
      /\ job'["scheduled"].kind = "scan"
      /\ job'["desktop"] = job["desktop"]
    BY <1>0, <1>1, StartKept DEF SessionInv
<1>3. PICK new \in Nat : new \in Nat /\ new = Len(effects) + 1
    BY DEF SessionInv, WorkerInv, WorkerTypes
<1>4. /\ UNCHANGED <<pipe, appended, asked, stdin, answers, dialog, window, timers, panel>>
      /\ Runs = 1..(new - 1) /\ Runs' = 1..new
    BY <1>0, <1>2, <1>3
    DEF StartScheduledRun, StartJob, quizVars, Runs, WorkerInv, WorkerTypes
<1>5. Runs \subseteq Runs' /\ window.run # new /\ window.run \in Runs \cup {0}
    BY <1>3, <1>4 DEF SessionInv, WindowInv, WindowTypes
<1>6. WindowTypes' /\ Asked'
    BY <1>4, <1>5 DEF SessionInv, WindowInv, WindowTypes, Version, Asked, ForcedWasAsked
<1>7. Owns'
    BY <1>2, <1>3, <1>4, <1>5 DEF SessionInv, WindowInv, Owns
<1>8. Shows'
  <2>1. window.run # 0 => effects'[window.run] = effects[window.run]
      BY <1>2, <1>5
  <2>2. window.op # "none" => window.run # 0
      BY <1>3, <1>4 DEF SessionInv, WindowInv, Owns
  <2>3. job["desktop"].pc = "booting" => window.op # "none"
      BY DEF SessionInv, WindowInv, Owns
  <2> QED
      BY <1>2, <1>4, <2>1, <2>2, <2>3 DEF SessionInv, WindowInv, Shows, TrueOf, Untouched
<1>9. QuizInv'
    BY <1>2, <1>4 DEF SessionInv, QuizInv, QuizTypes, InOrder, AtMostOneAhead, Unread
<1> QED
    BY <1>2, <1>6, <1>7, <1>8, <1>9 DEF SessionInv, WindowInv

(***************************************************************************)
(* The end of the window's process, whether it ran or not: the window      *)
(* forgets it and keeps what it has shown, or shows that it cannot tell.   *)
(***************************************************************************)
Forgets ==
    /\ window.op # "none" /\ pipe = <<>>
    /\ job' = [job EXCEPT !["desktop"] = NoJob]
    /\ UNCHANGED <<lock, fresh, log, logLock, pipe, effects, appended, timers>>
    /\ window' \in Windows /\ window'.op = "none" /\ window'.run = window.run
    /\ window'.forced => window'.asked
    /\ window'.outcome = "No email changed" =>
         window.outcome = "No email changed" \/ Untouched(window.run)
    /\ panel' \in {panel, Refreshed}
    /\ EndDialog

\* Whichever way the window came to forget it.
LEMMA ForgottenIsFine == ASSUME SessionInv, Forgets PROVE SessionInv'
<1>1. "desktop" \in Processes /\ "scheduled" \in Processes \ {"desktop"}
    BY DEF Processes
<1>2. WorkerInv'
    BY ForgottenKept DEF SessionInv, Forgets
<1>3. job'["desktop"] = NoJob /\ job'["scheduled"] = job["scheduled"]
    BY <1>1 DEF SessionInv, WorkerInv, WorkerTypes, Forgets
<1>4. NoJob.pc = "none" /\ NoJob.pc \notin Alive \cup Before \cup Questioning
    BY DEF NoJob, Alive, Before, Working, Reporting, Questioning
<1>5. Runs' = Runs /\ Version' = Version /\ Version \in Nat
  <2>1. appended \in Seq(Records) /\ UNCHANGED <<effects, appended>>
      BY DEF SessionInv, WorkerInv, WorkerTypes, Forgets
  <2> QED
      BY <2>1 DEF Runs, Version
<1>6. WindowTypes'
  <2>1. /\ panel \in [known : Nat, shown : Nat]
        /\ panel.shown <= panel.known /\ panel.known <= Version
        /\ panel' \in {panel, Refreshed}
      BY DEF SessionInv, WindowInv, WindowTypes, Forgets
  <2>2. /\ panel' \in [known : Nat, shown : Nat]
        /\ panel'.shown <= panel'.known /\ panel'.known <= Version
      BY <1>5, <2>1 DEF Refreshed
  <2>3. window' \in Windows /\ window'.run = window.run /\ timers' = timers
      BY DEF Forgets
  <2> QED
      BY <1>5, <2>2, <2>3 DEF SessionInv, WindowInv, WindowTypes
<1>7. Owns' /\ Asked'
    BY <1>3, <1>4 DEF SessionInv, WindowInv, Owns, Asked, ForcedWasAsked, Forgets
<1>8. Shows'
    BY <1>3, <1>4 DEF SessionInv, WindowInv, Shows, Untouched, Forgets
<1>9. /\ asked' = 0 /\ stdin' = Nothing /\ answers' = Nothing /\ dialog' = NoDialog
      /\ window'.op = "none" /\ pipe' = Nothing
    BY DEF EndDialog, Nothing, Forgets
<1>10. NoDialog \in [open : BOOLEAN, enabled : BOOLEAN, shown : Nat] /\ ~NoDialog.enabled
    BY DEF NoDialog
<1>11. QuizTypes'
    BY <1>9, <1>10, QuestionsAssumption, NothingIn DEF QuizTypes
<1>12. InOrder'
    BY <1>3, <1>4, <1>9, <1>10, NothingIn DEF InOrder, AtMostOneAhead, Nothing
<1>13. 0 \in 0..Len(pipe') /\ Unread(0)'
    BY <1>9, <1>10, NothingIn DEF Unread
<1> QED
    BY <1>2, <1>6, <1>7, <1>8, <1>11, <1>12, <1>13 DEF SessionInv, WindowInv, QuizInv

\* The program could not be started: nothing was changed.
LEMMA StartFailsKept == ASSUME SessionInv, StartFails PROVE SessionInv'
<1>1. window \in Windows /\ pipe = <<>> /\ Untouched(window.run)
    BY DEF StartFails, SessionInv, WindowInv, WindowTypes, Shows
<1>2. /\ window' \in Windows /\ window'.op = "none" /\ window'.run = window.run
      /\ window'.asked = window.asked /\ window'.forced = window.forced
    BY <1>1 DEF StartFails, Windows, Shown
<1>3. window'.forced => window'.asked
    BY <1>2 DEF SessionInv, WindowInv, Asked, ForcedWasAsked
<1> QED
    BY <1>1, <1>2, <1>3, ForgottenIsFine DEF StartFails, Forgets

\* The process ended, and what it did not say is shown as unknown.
LEMMA FinishedKept == ASSUME SessionInv, Finished PROVE SessionInv'
<1>1. window \in Windows
    BY DEF SessionInv, WindowInv, WindowTypes
<1>2. PICK outcome \in {"Outcome to verify", window.outcome} :
         window' = [window EXCEPT !.op = "none", !.receipt = FALSE,
                      !.asked = FALSE, !.forced = FALSE, !.outcome = outcome]
    BY DEF Finished
<1>3. /\ window' \in Windows /\ window'.op = "none" /\ window'.run = window.run
      /\ ~window'.forced /\ window'.outcome = outcome
    BY <1>1, <1>2 DEF Windows, Shown
<1> QED
    BY <1>2, <1>3, ForgottenIsFine DEF Finished, Forgets

(***************************************************************************)
(* An event that is read: the next question, which the dialog then shows,  *)
(* or the end, whose outcome is the truth about the run.                   *)
(***************************************************************************)
LEMMA HandleEventKept == ASSUME SessionInv, HandleEvent PROVE SessionInv'
<1>1. PICK event : event = Head(pipe)
    OBVIOUS
<1>2. /\ pipe \in Seq(Events) /\ pipe # <<>> /\ window.op # "none"
      /\ pipe' = Tail(pipe)
      /\ UNCHANGED <<job, lock, fresh, log, logLock, effects, appended, timers, panel>>
      /\ UNCHANGED Runs
    BY DEF HandleEvent, SessionInv, WorkerInv, WorkerTypes, Runs
<1>3. /\ event = pipe[1] /\ 1 \in DOMAIN pipe /\ event \in Events
      /\ pipe' \in Seq(Events) /\ Len(pipe) \in Nat /\ Len(pipe) >= 1
      /\ Len(pipe') = Len(pipe) - 1
      /\ \A i \in DOMAIN pipe' : i + 1 \in DOMAIN pipe /\ pipe'[i] = pipe[i + 1]
      /\ DOMAIN pipe = 1..Len(pipe) /\ DOMAIN pipe' = 1..(Len(pipe) - 1)
  <2>1. /\ Len(pipe) \in Nat /\ Len(pipe) >= 1
        /\ Tail(pipe) \in Seq(Events) /\ Len(Tail(pipe)) = Len(pipe) - 1
        /\ \A i \in 1..Len(Tail(pipe)) : Tail(pipe)[i] = pipe[i + 1]
        /\ Head(pipe) \in Events
      BY <1>2, HeadTailProperties
  <2> QED
      BY <1>1, <1>2, <2>1
<1>4. WorkerInv'
    BY <1>2, EventReadKept DEF SessionInv
<1>5. /\ window \in Windows
      /\ event.type = "candidate" => ShowCandidate(event.question) /\ UNCHANGED window
      /\ event.type # "candidate" =>
           window' = [window EXCEPT !.receipt = TRUE, !.outcome = ShownFor(event)]
    BY <1>1 DEF HandleEvent, SessionInv, WindowInv, WindowTypes
<1>6. /\ window.op = "scan" => TrueOf(event)
      /\ window.op # "none" => window.run \in Runs
    BY <1>3 DEF SessionInv, WindowInv, Shows, Owns
<1>7. /\ window' \in Windows
      /\ window'.op = window.op /\ window'.run = window.run
      /\ window'.asked = window.asked /\ window'.forced = window.forced
      /\ window'.outcome = window.outcome \/ window'.outcome = ShownFor(event)
  <2>1. event.type # "candidate" => ShownFor(event) \in Shown
      BY <1>6 DEF ShownFor, Shown, TrueOf
  <2> QED
      BY <1>5, <2>1 DEF Windows
<1>8. WindowTypes' /\ Asked'
    BY <1>2, <1>7 DEF SessionInv, WindowInv, WindowTypes, Version, Asked, ForcedWasAsked
<1>9. Owns'
    BY <1>2, <1>7 DEF SessionInv, WindowInv, Owns
<1>10. Shows'
  <2>1. ~(window.op = "scan" /\ job["desktop"].pc \in Before)
      BY <1>2 DEF SessionInv, WindowInv, Shows
  <2>2. job["desktop"].pc # "booting"
      BY <1>2 DEF SessionInv, WindowInv, Shows
  <2>3. ShownFor(event) = "No email changed" => effects[window.run] # "changed"
      BY <1>6, <1>2 DEF ShownFor, TrueOf, Untouched, SessionInv, WindowInv, Shows, WindowTypes, Windows
  <2>4. window.op = "scan" => \A i \in DOMAIN pipe' : TrueOf(pipe'[i])
      BY <1>3 DEF SessionInv, WindowInv, Shows
  <2> QED
      BY <1>2, <1>7, <2>1, <2>2, <2>3, <2>4 DEF SessionInv, WindowInv, Shows, TrueOf, Untouched
<1>11. PICK k \in 0..Len(pipe) : Unread(k)
    BY DEF SessionInv, QuizInv
<1>12. CASE event.type = "candidate"
  <2>1. k >= 1 /\ event.question = asked - k + 1
      BY <1>3, <1>11, <1>12 DEF Unread, Ends
  <2>2. /\ UNCHANGED <<asked, stdin, answers>>
        /\ dialog' = [open |-> TRUE, enabled |-> TRUE, shown |-> event.question]
        /\ event.question \in Nat
      BY <1>3, <1>5, <1>12 DEF ShowCandidate, Events
  <2>3. asked \in Nat /\ k \in Nat /\ k <= Len(pipe) /\ k <= asked
      BY <1>3, <1>11, QuestionsAssumption DEF SessionInv, QuizInv, QuizTypes, Unread
  <2>4. PICK l \in Nat : l \in Nat /\ l = k - 1
      BY <2>1, <2>3
  <2>5. QuizTypes'
      BY <2>2 DEF SessionInv, QuizInv, QuizTypes
  <2>6. window.op = "quiz"
      BY <1>2, <1>6, <1>7, <1>12 DEF SessionInv, WindowInv, WindowTypes, Windows, TrueOf, Ends
  <2>7. InOrder'
      BY <1>2, <1>7, <2>2, <2>6 DEF SessionInv, QuizInv, InOrder, AtMostOneAhead
  <2>8. /\ asked - l = asked - k + 1 /\ l <= asked /\ l \in 0..Len(pipe')
        /\ k = Len(pipe) => l = Len(pipe')
      BY <1>3, <2>1, <2>3, <2>4
  <2>9. ASSUME NEW i \in DOMAIN pipe'
        PROVE  IF i <= l THEN pipe'[i].type = "candidate" /\ pipe'[i].question = asked - l + i
                         ELSE pipe'[i].type \in Ends
    <3>1. i \in Nat /\ i + 1 \in DOMAIN pipe /\ pipe'[i] = pipe[i + 1]
        BY <1>3
    <3>2. asked - l + i = asked - k + (i + 1)
        BY <2>3, <2>4, <3>1
    <3>3. i <= l => i + 1 <= k
        BY <2>3, <2>4, <3>1
    <3>4. i + 1 <= k => i <= l
        BY <2>3, <2>4, <3>1
    <3> QED
        BY <1>11, <3>1, <3>2, <3>3, <3>4 DEF Unread
  <2>10. Len(answers) + Len(stdin) <= asked - l
      BY <1>11, <2>8 DEF Unread
  <2>11. Len(answers) \in Nat /\ Len(stdin) \in Nat
      BY DEF SessionInv, QuizInv, QuizTypes
  <2>12. Unread(l)'
    <3>1. dialog'.shown = asked - l
        BY <2>1, <2>2, <2>8
    <3>2. Len(answers) + Len(stdin) <= asked - l + 1
        BY <2>3, <2>4, <2>10, <2>11
    <3>3. job["desktop"].pc \in Questioning => l = Len(pipe')
        BY <1>11, <2>6, <2>8 DEF Unread
    <3> QED
        BY <1>2, <1>7, <2>2, <2>8, <2>9, <2>10, <3>1, <3>2, <3>3 DEF Unread
  <2> QED
      BY <1>4, <1>8, <1>9, <1>10, <2>5, <2>7, <2>8, <2>12 DEF SessionInv, WindowInv, QuizInv
<1>13. CASE event.type # "candidate"
  <2>1. k = 0
      BY <1>3, <1>11, <1>13 DEF Unread
  <2>2. UNCHANGED quizVars \/ ShowSummary \/ CloseDialog
    <3>1. event.type \in Ends
        BY <1>3, <1>13 DEF Events
    <3> QED
        BY <1>1, <1>13, <3>1 DEF HandleEvent, Ends
  <2>3. /\ UNCHANGED <<asked, stdin, answers>>
        /\ dialog' \in {dialog, NoDialog, [dialog EXCEPT !.enabled = FALSE]}
      BY <2>2 DEF quizVars, ShowSummary, CloseDialog
  <2>4. /\ dialog \in [open : BOOLEAN, enabled : BOOLEAN, shown : Nat]
        /\ asked \in Nat /\ Len(answers) \in Nat /\ Len(stdin) \in Nat
      BY QuestionsAssumption DEF SessionInv, QuizInv, QuizTypes
  <2>5. /\ dialog' \in [open : BOOLEAN, enabled : BOOLEAN, shown : Nat]
        /\ dialog'.enabled => UNCHANGED dialog
    <3>1. NoDialog \in [open : BOOLEAN, enabled : BOOLEAN, shown : Nat] /\ ~NoDialog.enabled
        BY DEF NoDialog
    <3>2. CASE dialog' = [dialog EXCEPT !.enabled = FALSE]
        BY <2>4, <3>2
    <3> QED
        BY <2>3, <2>4, <3>1, <3>2
  <2>6. QuizTypes'
      BY <2>3, <2>5 DEF SessionInv, QuizInv, QuizTypes
  <2>7. InOrder'
      BY <1>2, <1>7, <2>3, <2>5 DEF SessionInv, QuizInv, InOrder, AtMostOneAhead
  <2>8. Len(pipe) # 0 => ~(window.op = "quiz" /\ job["desktop"].pc \in Questioning)
      BY <1>11, <2>1 DEF Unread
  <2>9. \A i \in DOMAIN pipe' : pipe'[i].type \in Ends /\ ~(i <= 0)
    <3> TAKE i \in DOMAIN pipe'
    <3>1. i \in Nat /\ i >= 1 /\ i + 1 \in DOMAIN pipe /\ pipe'[i] = pipe[i + 1] /\ ~(i + 1 <= 0)
        BY <1>3
    <3> QED
        BY <1>11, <2>1, <3>1 DEF Unread
  <2>10. Unread(0)'
    <3>1. dialog'.enabled => /\ dialog'.shown = asked - 0
                             /\ Len(answers) + Len(stdin) <= asked - 0
        BY <1>11, <2>1, <2>5 DEF Unread
    <3>2. 0 <= asked /\ Len(answers) + Len(stdin) <= asked - 0 + 1
        BY <1>11, <2>1 DEF Unread
    <3>3. ~(window'.op = "quiz" /\ job'["desktop"].pc \in Questioning)
        BY <1>2, <1>3, <1>7, <2>8
    <3> QED
        BY <2>3, <2>9, <3>1, <3>2, <3>3 DEF Unread
  <2>11. 0 \in 0..Len(pipe')
      BY <1>3
  <2> QED
      BY <1>4, <1>8, <1>9, <1>10, <2>6, <2>7, <2>10, <2>11 DEF SessionInv, WindowInv, QuizInv
<1> QED
    BY <1>12, <1>13

-----------------------------------------------------------------------------
(***************************************************************************)
(* The session: SessionInv is inductive, for the desktop operations, the   *)
(* scheduled run, every mishap and every cancel there may be.              *)
(***************************************************************************)
LEMMA SessionStarts == Init => SessionInv
<1> SUFFICES ASSUME Init PROVE SessionInv
    OBVIOUS
<1>1. WorkerInv /\ WorkerInit
    BY WorkerStarts DEF Init
<1>2. /\ job["desktop"].pc = "none" /\ job["scheduled"].pc = "none"
      /\ pipe = Nothing /\ window.op = "none" /\ window.run = 0 /\ timers = {}
      /\ window.outcome = "none" /\ ~window.forced
      /\ panel = [known |-> Version, shown |-> Version]
    BY DEF Init, WorkerInit, NoJob, Processes, Nothing
<1>3. window \in Windows
    BY DEF Init, Windows, Shown
<1>4. Version \in Nat
    BY <1>1 DEF WorkerInv, WorkerTypes, Version
<1>5. WindowTypes
    BY <1>2, <1>3, <1>4 DEF WindowTypes
<1>6. "none" \notin Alive \cup Before \cup Questioning
    BY DEF Alive, Before, Working, Reporting, Questioning
<1>7. Owns /\ Asked /\ Shows
    BY <1>2, <1>6 DEF Owns, Asked, ForcedWasAsked, Shows, Nothing
<1>8. asked = 0 /\ stdin = Nothing /\ answers = Nothing /\ dialog = NoDialog
    BY DEF Init, QuizInit, Nothing
<1>9. NoDialog \in [open : BOOLEAN, enabled : BOOLEAN, shown : Nat] /\ ~NoDialog.enabled
    BY DEF NoDialog
<1>10. QuizTypes
    BY <1>8, <1>9, QuestionsAssumption, NothingIn DEF QuizTypes
<1>11. InOrder
    BY <1>2, <1>8, <1>9, NothingIn DEF InOrder, AtMostOneAhead, Nothing
<1>12. 0 \in 0..Len(pipe) /\ Unread(0)
    BY <1>2, <1>8, <1>9, NothingIn DEF Unread
<1> QED
    BY <1>1, <1>5, <1>7, <1>10, <1>11, <1>12 DEF SessionInv, WindowInv, QuizInv

\* Every step of the window, the processes and the user keeps it.
LEMMA SessionSteps == SessionInv /\ [Next]_vars => SessionInv'
<1> SUFFICES ASSUME SessionInv, [Next]_vars PROVE SessionInv'
    OBVIOUS
<1>1. ASSUME NEW op \in {"scan", "quiz"}, StartLocalProcess(op) PROVE SessionInv'
    BY <1>1, StartLocalKept
<1>2. ASSUME NEW run \in timers, ForceStop(run) PROVE SessionInv'
    BY <1>2, ForceStopKept
<1>3. ASSUME NEW p \in Processes, ProcessStep(p) PROVE SessionInv'
    BY <1>3, ProcessStepKept DEF ProcessStep
<1>4. ASSUME NEW p \in Processes, Mishap(p), UNCHANGED <<quizVars, windowVars>> PROVE SessionInv'
    BY <1>4, ProcessStepKept
<1>5. CASE UNCHANGED vars
  <2>1. /\ UNCHANGED <<job, lock, fresh, log, logLock, pipe, effects, appended>>
        /\ UNCHANGED <<asked, stdin, answers, dialog, window, timers, panel>>
        /\ UNCHANGED Runs
      BY <1>5 DEF vars, workerVars, quizVars, windowVars, Runs
  <2>2. WorkerInv'
      BY <2>1 DEF SessionInv, WorkerInv, WorkerTypes, JobOK, Placed, Aware, Drafted,
         Successor, Apart, RecordsTrue, Untouched, NoRecordLost
  <2>3. WindowInv'
      BY <2>1 DEF SessionInv, WindowInv, WindowTypes, Owns, Asked, ForcedWasAsked, Shows,
         TrueOf, Untouched, Version
  <2>4. QuizInv'
      BY <2>1 DEF SessionInv, QuizInv, QuizTypes, InOrder, AtMostOneAhead, Unread
  <2> QED
      BY <2>2, <2>3, <2>4 DEF SessionInv
<1> QED
    BY <1>1, <1>2, <1>3, <1>4, <1>5, HandleEventKept, FinishedKept, CancelKept, PollKept,
       StartScheduledKept, GiveAnswerKept, QuizStepKept, StartFailsKept
    DEF Next, Step, Unlucky

\* SessionInv holds of the specification.
THEOREM SessionInductive == Spec => []SessionInv
    BY SessionStarts, SessionSteps, PTL DEF Spec

(***************************************************************************)
(* A process is at work only inside the account's lock, on a run of its    *)
(* own, and the diagnostics file keeps to its size.                        *)
(***************************************************************************)
THEOREM SessionTypes == Spec => []TypeOK
<1>1. SessionInv => TypeOK
  <2> SUFFICES ASSUME SessionInv PROVE TypeOK
      OBVIOUS
  <2>1. /\ job \in [Processes -> Jobs] /\ lock \in Processes \cup {NoProcess}
        /\ fresh \in 0..Fresh /\ appended \in Seq(Records)
      BY DEF SessionInv, WorkerInv, WorkerTypes
  <2>2. ASSUME NEW p \in Processes
        PROVE  /\ job[p].pc \in Alive \cup {"none", "gone"}
               /\ job[p].pc \in Working \ {"startup"} => lock = p
               /\ job[p].run \in Runs \cup {0}
               /\ job[p].chunk \in 0..(Fresh + Unclassifiable)
    <3>1. JobOK(p) /\ job[p] \in Jobs
        BY <2>1 DEF SessionInv, WorkerInv
    <3> QED
        BY <3>1, WorkerAssumption DEF JobOK, Placed, Jobs
  <2>3. Len(log) <= MaxRecords
    <3>1. PICK n \in Nat : n \in Nat /\ n = Len(appended)
        BY <2>1
    <3>2. MaxRecords \in Nat /\ MaxRecords >= 1
        BY WorkerAssumption
    <3>a. PICK k : k = IF n < MaxRecords THEN 1 ELSE n - MaxRecords + 1
        OBVIOUS
    <3>3. /\ k = IF n < MaxRecords THEN 1 ELSE n - MaxRecords + 1
          /\ k \in Nat /\ k >= 1 /\ n - k + 1 <= MaxRecords /\ k <= n + 1
        BY <3>1, <3>2, <3>a
    <3>4. log = SubSeq(appended, k, n)
        BY <3>1, <3>3 DEF SessionInv, WorkerInv, NoRecordLost
    <3>5. Len(log) = IF k <= n THEN n - k + 1 ELSE 0
        BY <2>1, <3>1, <3>3, <3>4, SubSeqProperties
    <3> QED
        BY <3>2, <3>3, <3>5
  <2>4. /\ pipe # <<>> => window.op # "none"
        /\ window.op \in {"none", "scan", "quiz"}
        /\ timers \subseteq Runs
        /\ panel.shown <= panel.known /\ panel.known <= Version
      BY DEF SessionInv, WindowInv, WindowTypes, Windows, Owns
  <2>5. asked \in 0..Questions /\ Len(answers) <= asked
      BY DEF SessionInv, QuizInv, QuizTypes, InOrder
  <2> QED
      BY <2>1, <2>2, <2>3, <2>4, <2>5 DEF TypeOK
<1> QED
    BY <1>1, SessionInductive, PTL

(***************************************************************************)
(* However a scan ends, neither the window nor the file says the mailbox   *)
(* is as it was when the scan has changed it.                              *)
(***************************************************************************)
THEOREM SessionReceipts == Spec => []ReceiptsNeverUnderstate
<1>1. SessionInv => ReceiptsNeverUnderstate
    BY DEF SessionInv, WorkerInv, RecordsTrue, WindowInv, Shows, ReceiptsNeverUnderstate
<1> QED
    BY <1>1, SessionInductive, PTL

(***************************************************************************)
(* The diagnostics file is at all times the newest of the records that     *)
(* either process has appended.                                            *)
(***************************************************************************)
THEOREM SessionRecords == Spec => []NoRecordLost
<1>1. SessionInv => NoRecordLost
    BY DEF SessionInv, WorkerInv
<1> QED
    BY <1>1, SessionInductive, PTL

(***************************************************************************)
(* A force stop only ever ends the run whose end the user asked for.       *)
(***************************************************************************)
THEOREM SessionForced == Spec => []ForcedWasAsked
<1>1. SessionInv => ForcedWasAsked
    BY DEF SessionInv, WindowInv, Asked
<1> QED
    BY <1>1, SessionInductive, PTL

(***************************************************************************)
(* The i-th answer of a quiz is for the i-th question or the one before.   *)
(***************************************************************************)
THEOREM SessionAnswers == Spec => []AtMostOneAhead
<1>1. SessionInv => AtMostOneAhead
    BY DEF SessionInv, QuizInv, InOrder
<1> QED
    BY <1>1, SessionInductive, PTL
==============================================================================
