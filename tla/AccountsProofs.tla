---------------------------- MODULE AccountsProofs ----------------------------
(***************************************************************************)
(* The safety of Accounts for any accounts, rules, native schedulers and   *)
(* number of clicks and faults: a scheduled run does what was agreed to,   *)
(* and the window's buttons and status end up right after every overlap of *)
(* a native task and of consents, however many are open.                   *)
(***************************************************************************)
EXTENDS Accounts, SequenceTheorems, TLAPS

States == {"not_configured", "read_only", "ready"}

Stages == {"none", "write", "unload", "load", "verify", "cleanup", "installed", "confirm",
           "removed", "failed"}

Installing == {"write", "load", "verify", "cleanup", "installed"}

Tasks == [kind : {"none", "install", "remove"}, id : Ids, rules : Rules, at : Stages]

ConsentStages == {"consent", "client", "token", "over"}

Consents == [item : {"read", "act"}, id : Ids, at : ConsentStages]

Windows == [open : BOOLEAN, current : Ids, state : States, seen : BOOLEAN, blind : BOOLEAN,
            buttons : SUBSET Buttons, task : Tasks, auths : Seq(Consents), news : BOOLEAN]

\* A native task is of a listed account, and installs rules that were agreed to.
TaskOK ==
    /\ Task = NoTask \/ Task.kind \in {"install", "remove"}
    /\ Task # NoTask => Task.id \in disk.listed
    /\ Task.at \in Installing => Task.kind = "install"
    /\ Task.kind = "install" => Task.rules \in agreed[Task.id]

\* Only the rules are drafted; and what the file schedules is listed and agreed to.
FileOK ==
    /\ mem.on = disk.on
    /\ \A i \in Ids : disk.on[i] => i \in disk.listed /\ disk.rules[i] \in agreed[i]

\* What may be clicked in window w, with the accounts as m has them.
Unlocked(w, m) ==
    /\ {"list", "connect", "remove", "save"} \subseteq w.buttons
    /\ w.state = "ready" => "apply" \in w.buttons
    /\ m.on[w.current] => "unschedule" \in w.buttons

\* With no native task at work Save is enabled; with no consent open either, so is the rest.
ButtonsOK ==
    window.open /\ Task = NoTask =>
        /\ "save" \in window.buttons
        /\ window.auths = <<>> => Unlocked(window, mem)

IInv == /\ TypeOK /\ window \in Windows
        /\ TaskOK /\ FileOK /\ ButtonsOK /\ SeenIsTrue

-----------------------------------------------------------------------------
(***************************************************************************)
(* What each refresh of the window leaves as it was, and what it enables.  *)
(***************************************************************************)
\* Two windows that differ in what a refresh reads and in their buttons.
SameWork(w, v) ==
    /\ v.open = w.open /\ v.current = w.current /\ v.task = w.task /\ v.auths = w.auths
    /\ v.news = w.news

\* A refresh disables none of the buttons it does not decide.
KeepsButtons(w, v) ==
    /\ \A b \in {"list", "connect", "save"} : b \in w.buttons => b \in v.buttons
    /\ "remove" \in v.buttons

\* With no native task at work, a refresh that finds the list enabled unlocks it all.
Unlocks(w, v, m) ==
    w.task = NoTask /\ {"list", "connect", "save"} \subseteq w.buttons => Unlocked(v, m)

LEMMA AvailableWindow ==
    ASSUME NEW w \in Windows, NEW m \in SettingsType
    PROVE  LET v == Available(w, m)
           IN /\ v \in Windows /\ SameWork(w, v) /\ KeepsButtons(w, v)
              /\ v.state = w.state /\ v.seen = w.seen /\ v.blind = w.blind
              /\ Unlocks(w, v, m)
<1> DEFINE v == Available(w, m)
           buttons == (w.buttons \ {"apply", "unschedule"}) \cup {"remove"}
               \cup {b \in {"apply"} : w.task = NoTask /\ w.state = "ready"}
               \cup {b \in {"unschedule"} : w.task = NoTask /\ (w.seen \/ m.on[w.current])}
<1>1. v = [w EXCEPT !.buttons = buttons]
  BY DEF Available
<1>2. w.buttons \subseteq Buttons
  BY DEF Windows
<1>3. buttons \subseteq Buttons
  BY <1>2 DEF Buttons
<1>4. /\ v \in Windows /\ v.buttons = buttons /\ SameWork(w, v)
      /\ v.state = w.state /\ v.seen = w.seen /\ v.blind = w.blind
  <2> HIDE DEF buttons, v
  <2> QED
    BY <1>1, <1>3 DEF Windows, SameWork
<1> HIDE DEF v
<1>5. KeepsButtons(w, v)
  BY <1>4 DEF KeepsButtons
<1>6. Unlocks(w, v, m)
  BY <1>4 DEF Unlocks, Unlocked, SameWork
<1> QED
  BY <1>4, <1>5, <1>6 DEF v

LEMMA StatusIn == \A items, task : Status(items) \in States /\ Installed(task) \in BOOLEAN
  BY DEF Status, States, Installed

LEMMA ConnectionWindow ==
    ASSUME NEW w \in Windows, NEW m \in SettingsType, NEW c
    PROVE  LET v == Connection(w, m, c)
           IN /\ v \in Windows /\ SameWork(w, v) /\ KeepsButtons(w, v)
              /\ v.seen = w.seen /\ v.blind = w.blind
              /\ "connect" \in v.buttons
              /\ w.task = NoTask /\ {"list", "save"} \subseteq w.buttons => Unlocked(v, m)
<1> DEFINE state == Status(c[w.current])
           buttons == (w.buttons \ {"permit", "disconnect"}) \cup {"connect"}
               \cup {b \in {"permit", "disconnect"} : state # "not_configured"}
           u == [w EXCEPT !.state = state, !.buttons = buttons]
<1>1. Connection(w, m, c) = Available(u, m)
  BY DEF Connection
<1>2. w.buttons \subseteq Buttons
  BY DEF Windows
<1>3. buttons \subseteq Buttons
  BY <1>2 DEF Buttons
<1>4. state \in States
  BY StatusIn
<1>5. /\ \A b \in {"list", "connect", "save"} : b \in w.buttons => b \in buttons
      /\ "connect" \in buttons
  OBVIOUS
<1>6. /\ u \in Windows /\ u.buttons = buttons /\ SameWork(w, u)
      /\ u.state = state /\ u.seen = w.seen /\ u.blind = w.blind
  <2> HIDE DEF buttons, state
  <2> QED
    BY <1>3, <1>4 DEF Windows, SameWork
<1> HIDE DEF buttons, state, u
<1> DEFINE v == Available(u, m)
<1>7. /\ v \in Windows /\ SameWork(u, v) /\ KeepsButtons(u, v)
      /\ v.state = u.state /\ v.seen = u.seen /\ v.blind = u.blind
      /\ Unlocks(u, v, m)
  BY <1>6, AvailableWindow
<1> HIDE DEF v
<1>8. SameWork(w, v) /\ KeepsButtons(w, v) /\ "connect" \in v.buttons
  BY <1>5, <1>6, <1>7 DEF SameWork, KeepsButtons
<1>9. w.task = NoTask /\ {"list", "save"} \subseteq w.buttons => Unlocked(v, m)
  BY <1>5, <1>6, <1>7 DEF SameWork, Unlocks
<1> QED
  BY <1>1, <1>6, <1>7, <1>8, <1>9 DEF v

LEMMA ScheduleWindow ==
    ASSUME NEW w \in Windows, NEW m \in SettingsType, NEW n, NEW answered \in BOOLEAN
    PROVE  LET v == Schedule(w, m, n, answered)
           IN /\ v \in Windows /\ SameWork(w, v) /\ KeepsButtons(w, v)
              /\ v.state = w.state
              /\ ~v.blind => v.seen = Installed(n[v.current])
              /\ Unlocks(w, v, m)
<1> DEFINE seen == answered /\ Installed(n[w.current])
           u == [w EXCEPT !.seen = seen, !.blind = ~answered]
<1>1. Schedule(w, m, n, answered) = Available(u, m)
  BY DEF Schedule
<1>2. seen \in BOOLEAN /\ (~answered) \in BOOLEAN
  BY StatusIn
<1>3. /\ u \in Windows /\ u.buttons = w.buttons /\ SameWork(w, u)
      /\ u.state = w.state /\ u.seen = seen /\ u.blind = ~answered
  <2> HIDE DEF seen
  <2> QED
    BY <1>2 DEF Windows, SameWork
<1>4. ~u.blind => u.seen = Installed(n[w.current])
  <2>1. Installed(n[w.current]) \in BOOLEAN
    BY StatusIn
  <2>2. answered => seen = Installed(n[w.current])
    BY <2>1
  <2>3. ~u.blind => answered
    BY <1>3
  <2> HIDE DEF seen, u
  <2> QED
    BY <1>3, <2>2, <2>3
<1> HIDE DEF seen, u
<1> DEFINE v == Available(u, m)
<1>5. /\ v \in Windows /\ SameWork(u, v) /\ KeepsButtons(u, v)
      /\ v.state = u.state /\ v.seen = u.seen /\ v.blind = u.blind
      /\ Unlocks(u, v, m)
  BY <1>3, AvailableWindow
<1> HIDE DEF v
<1>6. SameWork(w, v) /\ KeepsButtons(w, v) /\ Unlocks(w, v, m)
  BY <1>3, <1>5 DEF SameWork, KeepsButtons, Unlocks
<1>7. ~v.blind => v.seen = Installed(n[v.current])
  BY <1>3, <1>4, <1>5 DEF SameWork
<1> QED
  BY <1>1, <1>3, <1>5, <1>6, <1>7 DEF v

LEMMA ShownWindow ==
    ASSUME NEW w \in Windows, NEW i \in Ids, NEW m \in SettingsType, NEW c, NEW n
    PROVE  LET v == Shown(w, i, m, c, n)
           IN /\ v \in Windows /\ KeepsButtons(w, v)
              /\ v.open = w.open /\ v.current = i /\ v.task = w.task /\ v.auths = w.auths
              /\ ~v.blind => v.seen = Installed(n[i])
              /\ w.task = NoTask /\ {"list", "save"} \subseteq w.buttons => Unlocked(v, m)
<1> DEFINE u == [w EXCEPT !.current = i]
           t == Connection(u, m, c)
           v == Schedule(t, m, n, TRUE)
<1>1. Shown(w, i, m, c, n) = v
  BY DEF Shown
<1>2. /\ u \in Windows /\ u.buttons = w.buttons /\ u.current = i
      /\ u.open = w.open /\ u.task = w.task /\ u.auths = w.auths
  BY DEF Windows
<1> HIDE DEF u
<1>3. /\ t \in Windows /\ SameWork(u, t) /\ KeepsButtons(u, t) /\ "connect" \in t.buttons
  BY <1>2, ConnectionWindow
<1> HIDE DEF t
<1>4. /\ v \in Windows /\ SameWork(t, v) /\ KeepsButtons(t, v)
      /\ ~v.blind => v.seen = Installed(n[v.current])
      /\ Unlocks(t, v, m)
  BY <1>3, ScheduleWindow
<1> HIDE DEF v
<1>5. /\ v.open = w.open /\ v.current = i /\ v.task = w.task /\ v.auths = w.auths
      /\ KeepsButtons(w, v)
  BY <1>2, <1>3, <1>4 DEF SameWork, KeepsButtons
<1>6. w.task = NoTask /\ {"list", "save"} \subseteq w.buttons => Unlocked(v, m)
  BY <1>2, <1>3, <1>4 DEF SameWork, KeepsButtons, Unlocks
<1> QED
  BY <1>1, <1>4, <1>5, <1>6

\* Whatever was disabled meanwhile, the end of a native task enables it.
LEMMA FinishedWindow ==
    ASSUME NEW w \in Windows, NEW m \in SettingsType, NEW n, NEW answered \in BOOLEAN
    PROVE  LET v == Finished(w, m, n, answered)
           IN /\ v \in Windows /\ v.open = w.open /\ v.current = w.current
              /\ v.task = NoTask /\ v.auths = w.auths
              /\ ~v.blind => v.seen = Installed(n[v.current])
              /\ Unlocked(v, m)
<1> DEFINE u == [w EXCEPT !.task = NoTask, !.buttons = Buttons]
           v == Schedule(u, m, n, answered)
<1>1. Finished(w, m, n, answered) = v
  BY DEF Finished
<1>2. NoTask \in Tasks
  BY AccountsAssumption DEF NoTask, Tasks, Stages
<1>3. /\ u \in Windows /\ u.buttons = Buttons /\ u.current = w.current
      /\ u.open = w.open /\ u.task = NoTask /\ u.auths = w.auths
  BY <1>2 DEF Windows
<1> HIDE DEF u
<1>4. /\ v \in Windows /\ SameWork(u, v)
      /\ ~v.blind => v.seen = Installed(n[v.current])
      /\ Unlocks(u, v, m)
  BY <1>3, ScheduleWindow
<1> HIDE DEF v
<1>5. Unlocked(v, m)
  BY <1>3, <1>4 DEF Unlocks, Buttons
<1> QED
  BY <1>1, <1>3, <1>4, <1>5 DEF SameWork

\* One consent fewer is open.
LEMMA OneFewer ==
    ASSUME NEW auths \in Seq(Consents), NEW k \in DOMAIN auths
    PROVE  RemoveAt(auths, k) \in Seq(Consents)
<1>1. k \in 1..Len(auths) /\ Len(auths) \in Nat /\ \A j \in 1..Len(auths) : auths[j] \in Consents
  BY LenProperties, ElementOfSeq
<1>2. SubSeq(auths, 1, k - 1) \in Seq(Consents)
  BY <1>1, SubSeqProperties
<1>3. SubSeq(auths, k + 1, Len(auths)) \in Seq(Consents)
  BY <1>1, SubSeqProperties
<1> QED
  BY <1>2, <1>3, ConcatProperties DEF RemoveAt

\* The end of a consent enables the rest, if no native task is at work.
LEMMA AuthOverWindow ==
    ASSUME NEW w \in Windows, NEW k \in DOMAIN w.auths, NEW m \in SettingsType, NEW c
    PROVE  LET v == AuthOver(w, k, m, c)
           IN /\ v \in Windows /\ v.open = w.open /\ v.current = w.current
              /\ v.task = w.task
              /\ v.seen = w.seen /\ v.blind = w.blind
              /\ KeepsButtons(w, v)
              /\ w.task = NoTask /\ "save" \in w.buttons => Unlocked(v, m)
<1> DEFINE enabled == w.buttons \cup {"list", "connect", "permit", "disconnect"}
           rest == RemoveAt(w.auths, k)
           u == [w EXCEPT !.auths = rest, !.buttons = enabled]
           v == Connection(u, m, c)
<1>1. AuthOver(w, k, m, c) = v
  BY DEF AuthOver
<1>2. rest \in Seq(Consents) /\ enabled \subseteq Buttons
  BY OneFewer DEF Windows, Buttons
<1>3. w.buttons \subseteq enabled /\ "list" \in enabled
  OBVIOUS
<1>4. /\ u \in Windows /\ u.buttons = enabled /\ u.current = w.current
      /\ u.open = w.open /\ u.task = w.task
      /\ u.seen = w.seen /\ u.blind = w.blind
  <2> HIDE DEF enabled, rest
  <2> QED
    BY <1>2 DEF Windows
<1> HIDE DEF u, enabled, rest
<1>5. /\ v \in Windows /\ SameWork(u, v) /\ KeepsButtons(u, v)
      /\ v.seen = u.seen /\ v.blind = u.blind
      /\ u.task = NoTask /\ {"list", "save"} \subseteq u.buttons => Unlocked(v, m)
  BY <1>4, ConnectionWindow
<1> HIDE DEF v
<1>6. KeepsButtons(w, v)
  BY <1>3, <1>4, <1>5 DEF KeepsButtons
<1>7. w.task = NoTask /\ "save" \in w.buttons => Unlocked(v, m)
  BY <1>3, <1>4, <1>5
<1> QED
  BY <1>1, <1>4, <1>5, <1>6, <1>7 DEF SameWork

-----------------------------------------------------------------------------
(***************************************************************************)
(* The settings, of the file and of the window.                            *)
(***************************************************************************)
SettingsOK ==
    /\ disk \in SettingsType /\ mem \in SettingsType
    /\ disk.listed # {} /\ mem.listed = disk.listed
    /\ fresh \subseteq Ids \ disk.listed
    /\ agreed \in [Ids -> SUBSET Rules]

\* What a step leaves to the window: the accounts listed, unless the user removes one.
LEMMA SettingsSteps ==
    ASSUME IInv, Next
    PROVE  /\ SettingsOK' /\ FileOK'
           /\ RemoveAccount \/ disk.listed \subseteq disk'.listed
           /\ SaveRemoved \/ \A i \in Ids : agreed[i] \subseteq agreed'[i]
           /\ SaveInstalled \/ SaveRemoved \/ mem'.on = mem.on
<1>1. /\ SettingsOK /\ FileOK /\ TaskOK
      /\ First \in Ids /\ window \in Windows /\ Here \in Ids /\ Task.id \in Ids
      /\ Task.rules \in Rules /\ (window.open => Here \in disk.listed)
  BY AccountsAssumption DEF IInv, TypeOK, SettingsOK, Windows, Tasks, Task, Here
<1>2. /\ disk = [listed |-> disk.listed, on |-> disk.on, rules |-> disk.rules]
      /\ mem = [listed |-> mem.listed, on |-> mem.on, rules |-> mem.rules]
      /\ {disk.on, mem.on} \subseteq [Ids -> BOOLEAN]
      /\ {disk.rules, mem.rules} \subseteq [Ids -> Rules]
      /\ disk.listed \in SUBSET Ids
  BY <1>1 DEF SettingsOK, SettingsType
<1>3. CASE UNCHANGED <<disk, mem, fresh, agreed>>
  BY <1>1, <1>3 DEF SettingsOK, FileOK
<1>4. CASE OpenWindow \/ Discard
  <2>1. mem' = disk /\ UNCHANGED <<disk, fresh, agreed>>
    BY <1>4 DEF OpenWindow, Discard
  <2> QED
    BY <1>1, <2>1 DEF SettingsOK, FileOK
<1>5. ASSUME NEW r \in Rules, Edit(r)
      PROVE  /\ SettingsOK' /\ FileOK' /\ mem'.on = mem.on /\ UNCHANGED <<disk, agreed>>
  <2>1. mem' = [mem EXCEPT !.rules[Here] = r] /\ UNCHANGED <<disk, fresh, agreed>>
    BY <1>5 DEF Edit
  <2>2. /\ mem' = [mem EXCEPT !.rules = [mem.rules EXCEPT ![Here] = r]]
        /\ [mem.rules EXCEPT ![Here] = r] \in [Ids -> Rules]
    BY <1>1, <1>2, <2>1
  <2>3. mem' \in SettingsType /\ mem'.on = mem.on /\ mem'.listed = mem.listed
    BY <1>1, <2>2 DEF SettingsOK, SettingsType
  <2> QED
    BY <1>1, <2>1, <2>3 DEF SettingsOK, FileOK
<1>6. CASE Save
  <2>1. /\ disk' = mem /\ UNCHANGED <<mem, fresh>>
        /\ agreed' = [i \in Ids |-> agreed[i] \cup {r \in {mem.rules[i]} : i \in Changed}]
    BY <1>6 DEF Save
  <2>2. agreed' \in [Ids -> SUBSET Rules] /\ \A i \in Ids : agreed[i] \subseteq agreed'[i]
    BY <1>1, <1>2, <2>1 DEF SettingsOK
  <2>3. ASSUME NEW i \in Ids, disk'.on[i]
        PROVE  i \in disk'.listed /\ disk'.rules[i] \in agreed'[i]
    <3>1. disk.on[i] /\ i \in disk.listed /\ disk.rules[i] \in agreed[i]
      BY <1>1, <2>1, <2>3 DEF FileOK
    <3>2. disk.rules[i] # mem.rules[i] => i \in Changed
      BY <1>1, <3>1 DEF Changed, SettingsOK
    <3> QED
      BY <1>1, <2>1, <3>1, <3>2 DEF SettingsOK
  <2> QED
    BY <1>1, <2>1, <2>2, <2>3 DEF SettingsOK, FileOK
<1>7. ASSUME NEW i \in Ids, AddAccount(i)
      PROVE  /\ SettingsOK' /\ FileOK' /\ mem'.on = mem.on
             /\ disk.listed \subseteq disk'.listed /\ UNCHANGED agreed
  <2>1. /\ disk' = [disk EXCEPT !.listed = disk.listed \cup {i}]
        /\ mem' = [mem EXCEPT !.listed = mem.listed \cup {i}]
        /\ fresh' = fresh \ {i} /\ UNCHANGED agreed
    BY <1>7 DEF AddAccount
  <2>2. /\ disk' \in SettingsType /\ mem' \in SettingsType
        /\ disk'.listed = disk.listed \cup {i} /\ mem'.listed = mem.listed \cup {i}
        /\ disk'.on = disk.on /\ mem'.on = mem.on /\ disk'.rules = disk.rules
    BY <1>1, <2>1 DEF SettingsOK, SettingsType
  <2> QED
    BY <1>1, <2>1, <2>2 DEF SettingsOK, FileOK
<1>8. CASE RemoveAccount
  <2>1. /\ disk' = [disk EXCEPT !.listed = disk.listed \ {Here}]
        /\ mem' = [mem EXCEPT !.listed = mem.listed \ {Here}]
        /\ window.open /\ ~mem.on[Here] /\ mem.listed # {Here} /\ UNCHANGED <<fresh, agreed>>
    BY <1>8 DEF RemoveAccount, Clicks
  <2>2. /\ disk' \in SettingsType /\ mem' \in SettingsType
        /\ disk'.listed = disk.listed \ {Here} /\ mem'.listed = mem.listed \ {Here}
        /\ disk'.on = disk.on /\ mem'.on = mem.on /\ disk'.rules = disk.rules
    BY <1>1, <2>1 DEF SettingsOK, SettingsType
  <2>3. disk'.listed # {}
    BY <1>1, <2>1, <2>2 DEF SettingsOK
  <2> QED
    BY <1>1, <1>8, <2>1, <2>2, <2>3 DEF SettingsOK, FileOK
<1>9. CASE ApplySchedule
  <2>1. /\ agreed' = [agreed EXCEPT ![Here] = agreed[Here] \cup {mem.rules[Here]}]
        /\ UNCHANGED <<disk, mem, fresh>>
    BY <1>9 DEF ApplySchedule
  <2>2. agreed' \in [Ids -> SUBSET Rules] /\ \A i \in Ids : agreed[i] \subseteq agreed'[i]
    BY <1>1, <1>2, <2>1 DEF SettingsOK
  <2> QED
    BY <1>1, <2>1, <2>2 DEF SettingsOK, FileOK
<1>10. CASE SaveInstalled
  <2>1. disk' = Scoped(disk) /\ mem' = Scoped(mem) /\ UNCHANGED <<fresh, agreed>>
        /\ Task.at = "installed"
    BY <1>10 DEF SaveInstalled, TaskAt
  <2>2. Task # NoTask /\ Task.kind = "install"
    BY <1>1, <2>1 DEF TaskOK, NoTask, Installing
  <2>3. Task.id \in disk.listed /\ Task.rules \in agreed[Task.id]
    BY <1>1, <2>2 DEF TaskOK
  <2>4. ASSUME NEW s \in SettingsType
        PROVE  /\ Scoped(s) \in SettingsType /\ Scoped(s).listed = s.listed
               /\ Scoped(s).on = [s.on EXCEPT ![Task.id] = TRUE]
               /\ Scoped(s).rules = [s.rules EXCEPT ![Task.id] = Task.rules]
    BY <1>1 DEF Scoped, SettingsType
  <2>5. /\ disk' \in SettingsType /\ mem' \in SettingsType
        /\ disk'.listed = disk.listed /\ mem'.listed = mem.listed
        /\ disk'.on = [disk.on EXCEPT ![Task.id] = TRUE]
        /\ mem'.on = [mem.on EXCEPT ![Task.id] = TRUE]
        /\ disk'.rules = [disk.rules EXCEPT ![Task.id] = Task.rules]
    BY <1>1, <2>1, <2>4 DEF SettingsOK
  <2>6. ASSUME NEW i \in Ids, disk'.on[i]
        PROVE  i \in disk'.listed /\ disk'.rules[i] \in agreed'[i]
    <3>1. CASE i = Task.id
      BY <1>1, <1>2, <2>1, <2>3, <2>5, <3>1
    <3>2. CASE i # Task.id
      BY <1>1, <1>2, <2>1, <2>5, <2>6, <3>2 DEF FileOK
    <3> QED
      BY <3>1, <3>2
  <2> QED
    BY <1>1, <1>10, <2>1, <2>5, <2>6 DEF SettingsOK, FileOK
<1>11. CASE SaveRemoved
  <2>1. /\ disk' = [disk EXCEPT !.on = [disk.on EXCEPT ![Task.id] = FALSE]]
        /\ mem' = [mem EXCEPT !.on = [mem.on EXCEPT ![Task.id] = FALSE]]
        /\ agreed' = [agreed EXCEPT ![Task.id] = {}] /\ UNCHANGED fresh
    BY <1>11 DEF SaveRemoved
  <2>2. /\ [disk.on EXCEPT ![Task.id] = FALSE] \in [Ids -> BOOLEAN]
        /\ [mem.on EXCEPT ![Task.id] = FALSE] \in [Ids -> BOOLEAN]
    BY <1>2
  <2>3. /\ disk' \in SettingsType /\ mem' \in SettingsType
        /\ disk'.listed = disk.listed /\ mem'.listed = mem.listed
        /\ disk'.on = [disk.on EXCEPT ![Task.id] = FALSE]
        /\ mem'.on = [mem.on EXCEPT ![Task.id] = FALSE]
        /\ disk'.rules = disk.rules
    BY <1>1, <2>1, <2>2 DEF SettingsOK, SettingsType
  <2>4. agreed' \in [Ids -> SUBSET Rules]
    BY <1>1, <2>1 DEF SettingsOK
  <2>5. ASSUME NEW i \in Ids, disk'.on[i]
        PROVE  i \in disk'.listed /\ disk'.rules[i] \in agreed'[i]
    <3>1. i # Task.id /\ disk.on[i]
      BY <1>1, <1>2, <2>3, <2>5
    <3> QED
      BY <1>1, <2>1, <2>3, <3>1 DEF FileOK, SettingsOK
  <2> QED
    BY <1>1, <1>11, <2>1, <2>3, <2>4, <2>5 DEF SettingsOK, FileOK
<1>12. \/ OpenWindow \/ Discard \/ Save \/ RemoveAccount \/ ApplySchedule
       \/ SaveInstalled \/ SaveRemoved \/ (\E r \in Rules : Edit(r))
       \/ (\E i \in Ids : AddAccount(i))
       \/ UNCHANGED <<disk, mem, fresh, agreed>>
  BY DEF Next, Move, CloseWindow, Watch, RemoveSchedule, TaskStep, WriteDefinition, Unload,
         LoadTask, Verify, Cleanup, Confirm, RollBack, TaskFails, Authorise, AuthStep, Consent,
         SaveItem, AuthEnds, Disconnect, RunEnds, Select, Fire
<1> QED
  BY <1>3, <1>4, <1>5, <1>6, <1>7, <1>8, <1>9, <1>10, <1>11, <1>12 DEF FileOK

-----------------------------------------------------------------------------
(***************************************************************************)
(* The native tasks, the credentials, the run and the counts.              *)
(***************************************************************************)
Natives == [Ids -> [file : BOOLEAN, loaded : BOOLEAN]]

RestOK ==
    /\ native \in Natives
    /\ creds \in [Ids -> SUBSET Items]
    /\ run \in [id : Ids, rules : Rules, on : BOOLEAN]
    /\ faults \in 0..MaxFaults /\ clicks \in 0..MaxClicks
    /\ backend \in Backends

\* A native task's file and the loaded task change only while the task is at work.
LEMMA NativeSteps ==
    ASSUME IInv, Next
    PROVE  native' \in Natives /\ (native' = native \/ Task # NoTask)
<1>1. native \in Natives /\ Task.id \in Ids
  BY DEF IInv, TypeOK, Natives, Windows, Tasks, Task
<1>2. CASE UNCHANGED native
  BY <1>1, <1>2
<1>3. ASSUME NEW v \in [file : BOOLEAN, loaded : BOOLEAN], Task.at # "none",
             native' = [native EXCEPT ![Task.id] = v]
      PROVE  native' \in Natives /\ Task # NoTask
  BY <1>1, <1>3 DEF Natives, NoTask
<1>4. native[Task.id] \in [file : BOOLEAN, loaded : BOOLEAN]
  BY <1>1 DEF Natives
<1> DEFINE old == native[Task.id]
<1>5. CASE WriteDefinition
  <2>1. [old EXCEPT !.file = TRUE] \in [file : BOOLEAN, loaded : BOOLEAN]
    BY <1>4
  <2>2. native' = [native EXCEPT ![Task.id] = [old EXCEPT !.file = TRUE]] /\ Task.at # "none"
    BY <1>5 DEF WriteDefinition, TaskAt
  <2> QED
    BY <1>3, <2>1, <2>2
<1>6. CASE Unload
  <2>1. [old EXCEPT !.loaded = FALSE] \in [file : BOOLEAN, loaded : BOOLEAN]
    BY <1>4
  <2>2. \/ native' = [native EXCEPT ![Task.id] = [old EXCEPT !.loaded = FALSE]]
        \/ UNCHANGED native
    BY <1>6 DEF Unload
  <2>3. Task.at # "none"
    BY <1>6 DEF Unload, TaskAt
  <2> QED
    BY <1>2, <1>3, <2>1, <2>2, <2>3
<1>7. CASE LoadTask
  <2>1. [old EXCEPT !.loaded = TRUE] \in [file : BOOLEAN, loaded : BOOLEAN]
    BY <1>4
  <2>2. \/ native' = [native EXCEPT ![Task.id] = [old EXCEPT !.loaded = TRUE]]
        \/ UNCHANGED native
    BY <1>7 DEF LoadTask
  <2>3. Task.at # "none"
    BY <1>7 DEF LoadTask, TaskAt
  <2> QED
    BY <1>2, <1>3, <2>1, <2>2, <2>3
<1>8. CASE Cleanup
  <2>1. PICK unloaded \in BOOLEAN :
          native' = [native EXCEPT ![Task.id] = [file |-> FALSE, loaded |-> old.loaded /\ ~unloaded]]
    BY <1>8 DEF Cleanup
  <2>2. Task.at # "none"
    BY <1>8 DEF Cleanup, TaskAt
  <2>3. (old.loaded /\ ~unloaded) \in BOOLEAN
    OBVIOUS
  <2>4. [file |-> FALSE, loaded |-> old.loaded /\ ~unloaded] \in [file : BOOLEAN, loaded : BOOLEAN]
    BY <2>3
  <2> QED
    BY <1>3, <2>1, <2>2, <2>4
<1>9. CASE Confirm
  <2>1. [old EXCEPT !.file = FALSE] \in [file : BOOLEAN, loaded : BOOLEAN]
    BY <1>4
  <2>2. \/ native' = [native EXCEPT ![Task.id] = [old EXCEPT !.file = FALSE]]
        \/ UNCHANGED native
    BY <1>9 DEF Confirm
  <2>3. Task.at # "none"
    BY <1>9 DEF Confirm, TaskAt
  <2> QED
    BY <1>2, <1>3, <2>1, <2>2, <2>3
<1>10. CASE RollBack
  <2>1. PICK gone \in BOOLEAN :
          native' = [native EXCEPT ![Task.id] =
                       [file |-> old.file /\ ~gone, loaded |-> old.loaded /\ ~gone]]
    BY <1>10 DEF RollBack
  <2>2. Task.at # "none"
    BY <1>10 DEF RollBack, TaskAt
  <2>3. (old.file /\ ~gone) \in BOOLEAN /\ (old.loaded /\ ~gone) \in BOOLEAN
    OBVIOUS
  <2>4. [file |-> old.file /\ ~gone, loaded |-> old.loaded /\ ~gone]
          \in [file : BOOLEAN, loaded : BOOLEAN]
    BY <2>3
  <2> QED
    BY <1>3, <2>1, <2>2, <2>4
<1>11. WriteDefinition \/ Unload \/ LoadTask \/ Cleanup \/ Confirm \/ RollBack \/ UNCHANGED native
  BY DEF Next, Move, OpenWindow, CloseWindow, Discard, Save, RemoveAccount, Watch, ApplySchedule,
         RemoveSchedule, TaskStep, Verify, SaveInstalled, SaveRemoved, TaskFails, Authorise,
         AuthStep, Consent, SaveItem, AuthEnds, Disconnect, RunEnds, Edit, Select, AddAccount, Fire
<1> QED
  BY <1>2, <1>5, <1>6, <1>7, <1>8, <1>9, <1>10, <1>11

LEMMA CredsSteps ==
    ASSUME IInv, Next
    PROVE  creds' \in [Ids -> SUBSET Items]
<1>1. creds \in [Ids -> SUBSET Items] /\ window \in Windows /\ Here \in Ids
  BY DEF IInv, TypeOK, Windows, Here
<1>2. CASE UNCHANGED creds
  BY <1>1, <1>2
<1>3. CASE SaveItem
  <2>1. \/ UNCHANGED creds
        \/ \E k \in DOMAIN window.auths :
              Saves(k, "client") \/ Saves(k, window.auths[k].item)
    BY <1>3 DEF SaveItem, AuthsAt
  <2>2. ASSUME NEW k \in DOMAIN window.auths, NEW item \in Items, Saves(k, item)
        PROVE  creds' \in [Ids -> SUBSET Items]
    BY <1>1, <2>2 DEF Saves
  <2>3. ASSUME NEW k \in DOMAIN window.auths
        PROVE  window.auths[k].item \in Items
    <3>1. window.auths[k] \in Consents
      BY <1>1, LenProperties, ElementOfSeq DEF Windows
    <3> QED
      BY <3>1 DEF Consents, Items
  <2> QED
    BY <1>1, <2>1, <2>2, <2>3 DEF Items
<1>4. CASE Disconnect
  <2>1. \/ creds' = [creds EXCEPT ![Here] = {}]
        \/ \E gone : creds' = [creds EXCEPT ![Here] = creds[Here] \ gone]
    BY <1>4 DEF Disconnect
  <2> QED
    BY <1>1, <2>1
<1>5. SaveItem \/ Disconnect \/ UNCHANGED creds
  BY DEF Next, Move, OpenWindow, CloseWindow, Discard, Save, RemoveAccount, Watch, ApplySchedule,
         RemoveSchedule, TaskStep, WriteDefinition, Unload, LoadTask, Verify, Cleanup, Confirm,
         RollBack, SaveInstalled, SaveRemoved, TaskFails, Authorise,
         AuthStep, Consent, AuthEnds, RunEnds, Edit, Select, AddAccount, Fire
<1> QED
  BY <1>2, <1>3, <1>4, <1>5

LEMMA RestSteps ==
    ASSUME IInv, Next
    PROVE  RestOK'
<1>1. /\ run \in [id : Ids, rules : Rules, on : BOOLEAN]
      /\ faults \in 0..MaxFaults /\ clicks \in 0..MaxClicks /\ backend \in Backends
      /\ MaxFaults \in Nat /\ MaxClicks \in Nat /\ First \in Ids /\ Default \in Rules
      /\ disk \in SettingsType
  BY AccountsAssumption DEF IInv, TypeOK
<1>2. backend' \in Backends
  BY <1>1 DEF Next
<1>3. run' = run \/ run' = NoRun
      \/ \E i \in Ids : run' = [id |-> i, rules |-> disk.rules[i], on |-> TRUE]
  BY DEF Next, Move, OpenWindow, CloseWindow, Discard, Save, RemoveAccount, Watch, ApplySchedule,
         RemoveSchedule, TaskStep, WriteDefinition, Unload, LoadTask, Verify, Cleanup, Confirm,
         RollBack, SaveInstalled, SaveRemoved, TaskFails, Authorise, SaveItem, Disconnect,
         AuthStep, Consent, AuthEnds, RunEnds, Edit, Select, AddAccount, Fire
<1>4. run' \in [id : Ids, rules : Rules, on : BOOLEAN]
  <2>1. \A i \in Ids : disk.rules[i] \in Rules
    BY <1>1 DEF SettingsType
  <2>2. NoRun \in [id : Ids, rules : Rules, on : BOOLEAN]
    BY <1>1 DEF NoRun
  <2>3. ASSUME NEW i \in Ids
        PROVE  [id |-> i, rules |-> disk.rules[i], on |-> TRUE]
                 \in [id : Ids, rules : Rules, on : BOOLEAN]
    BY <2>1
  <2> QED
    BY <1>1, <1>3, <2>2, <2>3
<1>5. faults' = faults \/ (faults' = faults + 1 /\ faults < MaxFaults)
  BY DEF Next, Move, OpenWindow, CloseWindow, Discard, Save, RemoveAccount, Watch, ApplySchedule,
         RemoveSchedule, TaskStep, WriteDefinition, Unload, LoadTask, Verify, Cleanup, Confirm,
         RollBack, SaveInstalled, SaveRemoved, TaskFails, Authorise, SaveItem, Disconnect,
         AuthStep, Consent, AuthEnds, RunEnds, Edit, Select, AddAccount, Fire, Fault, Fine, Ends
<1>6. clicks' = clicks \/ (clicks' = clicks + 1 /\ clicks < MaxClicks)
  BY DEF Next, Move, OpenWindow, CloseWindow, Discard, Save, RemoveAccount, Watch, ApplySchedule,
         RemoveSchedule, TaskStep, WriteDefinition, Unload, LoadTask, Verify, Cleanup, Confirm,
         RollBack, SaveInstalled, SaveRemoved, TaskFails, Authorise, SaveItem, Disconnect,
         AuthStep, Consent, AuthEnds, RunEnds, Edit, Select, AddAccount, Fire, Clicks
<1>7. faults' \in 0..MaxFaults /\ clicks' \in 0..MaxClicks
  BY <1>1, <1>5, <1>6
<1> QED
  BY <1>2, <1>4, <1>7, NativeSteps, CredsSteps DEF RestOK

-----------------------------------------------------------------------------
(***************************************************************************)
(* The window.                                                             *)
(***************************************************************************)
WindowOK ==
    /\ window \in Windows
    /\ window.open => Here \in disk.listed
    /\ TaskOK /\ ButtonsOK /\ SeenIsTrue

LEMMA WindowTyped ==
    ASSUME IInv
    PROVE  /\ WindowOK /\ Task \in Tasks /\ window.auths \in Seq(Consents) /\ Here \in Ids
           /\ mem \in SettingsType /\ disk \in SettingsType /\ agreed \in [Ids -> SUBSET Rules]
           /\ NoTask \in Tasks /\ Closed \in Windows
<1>1. NoTask \in Tasks /\ <<>> \in Seq(Consents)
  BY AccountsAssumption, EmptySeq DEF NoTask, Tasks, Stages
<1>2. Closed \in Windows
  BY <1>1, AccountsAssumption DEF Closed, Windows, States
<1> QED
  BY <1>1, <1>2 DEF IInv, WindowOK, TypeOK, Windows, Task, Here

\* A native task that goes on is of an account that stays listed.
LEMMA SameTask ==
    ASSUME IInv, window'.task = window.task, Task = NoTask \/ disk.listed \subseteq disk'.listed,
           \A i \in Ids : agreed[i] \subseteq agreed'[i]
    PROVE  TaskOK' /\ Task' = Task
<1>1. TaskOK /\ Task' = Task /\ Task.id \in Ids
  BY WindowTyped DEF WindowOK, Tasks, Task
<1>2. Task.kind = "install" => Task # NoTask
  BY DEF NoTask
<1> QED
  BY <1>1, <1>2 DEF TaskOK

\* What leaves the window's work alone, and shows the same account or none of its tasks.
LEMMA SameView ==
    ASSUME IInv, window' \in Windows, window'.open = window.open,
           window'.current = window.current, window'.task = window.task,
           window'.auths = window.auths,
           disk.listed \subseteq disk'.listed, \A i \in Ids : agreed[i] \subseteq agreed'[i],
           window.open /\ Task = NoTask /\ "save" \in window.buttons => "save" \in window'.buttons,
           window.open /\ Task = NoTask /\ Unlocked(window, mem) => Unlocked(window', mem'),
           window.open /\ Task = NoTask =>
               (~window'.blind => window'.seen = Installed(native[Here])')
    PROVE  WindowOK'
<1>1. TaskOK' /\ Task' = Task
  BY SameTask
<1>2. Here' = Here
  BY DEF Here
<1>3. ButtonsOK'
  <2>1. ButtonsOK
    BY WindowTyped DEF WindowOK
  <2>2. window.open /\ Task = NoTask /\ window.auths = <<>> => Unlocked(window', mem')
    BY <2>1 DEF ButtonsOK
  <2>3. window.open /\ Task = NoTask => "save" \in window'.buttons
    BY <2>1 DEF ButtonsOK
  <2> QED
    BY <1>1, <1>2, <2>2, <2>3 DEF ButtonsOK, Unlocked
<1>4. SeenIsTrue'
  BY <1>1 DEF SeenIsTrue, Task
<1>5. window'.open => Here' \in disk'.listed
  BY <1>2, WindowTyped DEF WindowOK
<1> QED
  BY <1>1, <1>2, <1>3, <1>4, <1>5 DEF WindowOK

\* The window shows another account, or the same anew.
LEMMA ShownStep ==
    ASSUME IInv, window.open, NEW i \in Ids, i \in disk'.listed, mem' \in SettingsType,
           window' = Shown(window, i, mem', creds, native),
           Task = NoTask \/ disk.listed \subseteq disk'.listed,
           UNCHANGED <<agreed, native, backend>>
    PROVE  WindowOK'
<1>1. window \in Windows /\ ButtonsOK
  BY WindowTyped DEF WindowOK
<1>2. /\ window' \in Windows /\ KeepsButtons(window, window')
      /\ window'.open = window.open /\ window'.current = i
      /\ window'.task = window.task /\ window'.auths = window.auths
      /\ ~window'.blind => window'.seen = Installed(native[i])
      /\ window.task = NoTask /\ {"list", "save"} \subseteq window.buttons => Unlocked(window', mem')
  <2> DEFINE v == Shown(window, i, mem', creds, native)
  <2>1. /\ v \in Windows /\ KeepsButtons(window, v)
        /\ v.open = window.open /\ v.current = i
        /\ v.task = window.task /\ v.auths = window.auths
        /\ ~v.blind => v.seen = Installed(native[i])
        /\ window.task = NoTask /\ {"list", "save"} \subseteq window.buttons => Unlocked(v, mem')
    <3>1. window \in Windows /\ mem' \in SettingsType
      BY <1>1
    <3> QED
      BY ONLY <3>1, i \in Ids, ShownWindow
  <2> HIDE DEF v
  <2>2. window' = v
    BY DEF v
  <2> QED
    BY <2>1, <2>2
<1>3. TaskOK' /\ Task' = Task
  BY <1>2, SameTask
<1>4. Here' = i
  BY <1>2 DEF Here
<1>5. ButtonsOK'
  BY <1>1, <1>2, <1>3, <1>4 DEF ButtonsOK, KeepsButtons, Unlocked, Task
<1>6. SeenIsTrue'
  <2>1. Installed(native[Here])' = Installed(native[i])
    BY <1>4 DEF Installed
  <2> QED
    BY <1>2, <1>4, <2>1 DEF SeenIsTrue
<1> QED
  BY <1>2, <1>3, <1>4, <1>5, <1>6 DEF WindowOK

\* A native task goes on to another stage.
LEMMA TaskGoesStep ==
    ASSUME IInv, NEW stage \in Stages, TaskGoes(stage), Task.at # "none",
           stage \in Installing => Task.kind = "install",
           UNCHANGED <<disk, agreed>>
    PROVE  WindowOK'
<1>1. WindowOK /\ Task \in Tasks
  BY WindowTyped
<1>2. Task # NoTask /\ Task.kind \in {"install", "remove"}
  BY <1>1 DEF WindowOK, TaskOK, NoTask
<1>3. window' = [window EXCEPT !.task = [window.task EXCEPT !.at = stage]]
  BY <1>1 DEF TaskGoes, WindowOK, Windows
<1>4. /\ [Task EXCEPT !.at = stage] \in Tasks
      /\ [Task EXCEPT !.at = stage].kind = Task.kind /\ [Task EXCEPT !.at = stage].id = Task.id
      /\ [Task EXCEPT !.at = stage].rules = Task.rules /\ [Task EXCEPT !.at = stage].at = stage
  BY <1>1 DEF Tasks
<1>5. /\ window' \in Windows /\ window'.open = window.open /\ window'.auths = window.auths
      /\ window'.current = window.current /\ Task' = [Task EXCEPT !.at = stage]
  <2>1. window \in Windows
    BY <1>1 DEF WindowOK
  <2> QED
    BY <1>3, <1>4, <2>1 DEF Windows, Task
<1>6. TaskOK'
  BY <1>1, <1>2, <1>4, <1>5 DEF WindowOK, TaskOK
<1>7. Task' # NoTask
  BY <1>2, <1>4, <1>5 DEF NoTask
<1>8. Here' = Here
  BY <1>5 DEF Here
<1> QED
  BY <1>1, <1>5, <1>6, <1>7, <1>8 DEF WindowOK, ButtonsOK, SeenIsTrue, Task

\* A native task is over: the buttons come back, and the status is read.
LEMMA FinishedStep ==
    ASSUME IInv, NEW answered \in BOOLEAN, mem' \in SettingsType,
           window' = Finished(window, mem', native', answered),
           disk.listed \subseteq disk'.listed, UNCHANGED backend
    PROVE  WindowOK'
<1>1. WindowOK
  BY WindowTyped
<1>2. window \in Windows
  BY <1>1 DEF WindowOK
<1>3. /\ window' \in Windows /\ window'.open = window.open /\ window'.current = window.current
      /\ window'.task = NoTask /\ window'.auths = window.auths
      /\ ~window'.blind => window'.seen = Installed(native'[window'.current])
      /\ Unlocked(window', mem')
  BY <1>2, FinishedWindow
<1>4. TaskOK'
  BY <1>3 DEF TaskOK, NoTask, Task, Installing
<1>5. Here' = Here
  BY <1>3 DEF Here
<1>6. ButtonsOK'
  BY <1>3 DEF ButtonsOK, Unlocked
<1>7. SeenIsTrue'
  <2>1. Installed(native[Here])' = Installed(native'[window'.current])
    BY DEF Installed, Here
  <2> QED
    BY <1>3, <2>1 DEF SeenIsTrue
<1> QED
  BY <1>1, <1>3, <1>4, <1>5, <1>6, <1>7 DEF WindowOK

\* The user starts a native task, and every button is disabled.
LEMMA BusyStep ==
    ASSUME IInv, NEW kind \in {"install", "remove"}, NEW stage \in Stages \ {"none"},
           window.open, Busy(kind, stage),
           stage \in Installing => kind = "install",
           kind = "install" => mem.rules[Here] \in agreed'[Here],
           UNCHANGED disk
    PROVE  WindowOK'
<1>1. WindowOK /\ Here \in Ids /\ mem \in SettingsType
  BY WindowTyped
<1> DEFINE task == [kind |-> kind, id |-> Here, rules |-> mem.rules[Here], at |-> stage]
<1>2. task \in Tasks /\ task # NoTask
  BY <1>1 DEF Tasks, NoTask, SettingsType
<1>3. /\ window' \in Windows /\ window'.open /\ window'.auths = window.auths
      /\ window'.current = window.current /\ Task' = task
  <2>1. window' = [window EXCEPT !.buttons = {}, !.task = task] /\ window \in Windows
    BY <1>1 DEF Busy, WindowOK
  <2> HIDE DEF task
  <2> QED
    BY <1>2, <2>1 DEF Windows, Task
<1>4. TaskOK'
  <2>1. Here \in disk'.listed
    BY <1>1 DEF WindowOK
  <2> QED
    BY <1>2, <1>3, <2>1 DEF TaskOK
<1>5. Here' = Here
  BY <1>3 DEF Here
<1> QED
  BY <1>1, <1>2, <1>3, <1>4, <1>5 DEF WindowOK, ButtonsOK, SeenIsTrue, Task

\* What a consent changes of the window, if it leaves one open or unlocks the rest.
LEMMA ConsentStep ==
    ASSUME IInv, window' \in Windows, window'.open = window.open,
           window'.current = window.current, window'.task = window.task,
           window'.seen = window.seen, window'.blind = window.blind,
           window.open /\ Task = NoTask /\ "save" \in window.buttons => "save" \in window'.buttons,
           window.open /\ Task = NoTask /\ "save" \in window.buttons =>
               window'.auths # <<>> \/ Unlocked(window', mem),
           UNCHANGED <<disk, mem, agreed, native, backend>>
    PROVE  WindowOK'
<1>1. WindowOK
  BY WindowTyped
<1>2. TaskOK' /\ Task' = Task
  BY SameTask
<1>3. Here' = Here
  BY DEF Here
<1>4. ButtonsOK'
  BY <1>1, <1>2 DEF WindowOK, ButtonsOK
<1>5. SeenIsTrue'
  <2>1. Installed(native[Here])' = Installed(native[Here])
    BY <1>3 DEF Installed
  <2> QED
    BY <1>1, <2>1 DEF WindowOK, SeenIsTrue
<1> QED
  BY <1>1, <1>2, <1>3, <1>4, <1>5 DEF WindowOK

\* A consent goes on, or is over.
LEMMA AuthGoesStep ==
    ASSUME IInv, NEW k \in DOMAIN window.auths, NEW stage \in ConsentStages, AuthGoes(k, stage),
           UNCHANGED <<disk, mem, agreed, native, backend>>
    PROVE  WindowOK'
<1>1. window \in Windows /\ window.auths \in Seq(Consents)
  BY WindowTyped DEF WindowOK
<1> DEFINE auths == [window.auths EXCEPT ![k] = [window.auths[k] EXCEPT !.at = stage]]
<1>2. window' = [window EXCEPT !.auths = auths]
  BY <1>1 DEF AuthGoes, Windows
<1>3. k \in 1..Len(window.auths) /\ Len(window.auths) \in Nat /\ window.auths[k] \in Consents
  BY <1>1, LenProperties, ElementOfSeq
<1>4. [window.auths[k] EXCEPT !.at = stage] \in Consents
  BY <1>3 DEF Consents
<1>5. auths \in Seq(Consents) /\ Len(auths) = Len(window.auths)
  BY <1>1, <1>3, <1>4, ExceptSeq
<1>6. auths # <<>>
  BY <1>3, <1>5
<1> HIDE DEF auths
<1>7. /\ window' \in Windows /\ window'.open = window.open /\ window'.task = window.task
      /\ window'.current = window.current /\ window'.buttons = window.buttons
      /\ window'.seen = window.seen /\ window'.blind = window.blind /\ window'.auths = auths
  BY <1>1, <1>2, <1>5 DEF Windows
<1> QED
  BY <1>6, <1>7, ConsentStep

\* Another consent is open, whatever is already.
LEMMA AuthoriseStep ==
    ASSUME IInv, NEW item \in {"read", "act"}, Authorise(item), UNCHANGED backend
    PROVE  WindowOK'
<1>1. window \in Windows /\ window.auths \in Seq(Consents) /\ Here \in Ids
  BY WindowTyped DEF WindowOK
<1> DEFINE auth == [item |-> item, id |-> Here,
              at |-> IF item = "act" /\ Status(creds[Here]) = "not_configured"
                     THEN "over" ELSE "consent"]
           auths == Append(window.auths, auth)
           buttons == window.buttons \ {"list", "connect", "permit", "disconnect", "remove",
                                        "apply", "unschedule"}
<1>2. auth \in Consents
  BY <1>1 DEF Consents, ConsentStages
<1>3. window' = [[window EXCEPT !.auths = auths] EXCEPT !.buttons = buttons]
  BY <1>1 DEF Authorise, AuthBusy, Windows
<1>4. /\ buttons \subseteq Buttons
      /\ "save" \in window.buttons => "save" \in buttons
  BY <1>1 DEF Windows
<1> HIDE DEF auth, buttons
<1>5. auths \in Seq(Consents) /\ auths # <<>>
  BY <1>1, <1>2, AppendProperties
<1> HIDE DEF auths
<1>6. /\ window' \in Windows /\ window'.open = window.open /\ window'.task = window.task
      /\ window'.current = window.current /\ window'.buttons = buttons
      /\ window'.seen = window.seen /\ window'.blind = window.blind /\ window'.auths = auths
  BY <1>1, <1>3, <1>4, <1>5 DEF Windows
<1>7. UNCHANGED <<disk, mem, agreed, native>>
  BY DEF Authorise
<1> QED
  BY <1>4, <1>5, <1>6, <1>7, ConsentStep

\* A consent is over, and what it enables may again be clicked while others are open.
LEMMA AuthEndsStep ==
    ASSUME IInv, AuthEnds, UNCHANGED backend
    PROVE  WindowOK'
<1>1. window \in Windows /\ mem \in SettingsType
  BY WindowTyped DEF WindowOK
<1>2. PICK k \in DOMAIN window.auths : window' = AuthOver(window, k, mem, creds)
  BY DEF AuthEnds, AuthsAt
<1>3. UNCHANGED <<disk, mem, agreed, native>>
  BY DEF AuthEnds
<1>4. /\ window' \in Windows /\ window'.open = window.open /\ window'.current = window.current
      /\ window'.task = window.task
      /\ window'.seen = window.seen /\ window'.blind = window.blind
      /\ KeepsButtons(window, window')
      /\ window.task = NoTask /\ "save" \in window.buttons => Unlocked(window', mem)
  BY <1>1, <1>2, AuthOverWindow
<1> QED
  BY <1>3, <1>4, ConsentStep DEF KeepsButtons, Task

LEMMA WindowSteps ==
    ASSUME IInv, Next
    PROVE  WindowOK'
<1>0. /\ UNCHANGED backend /\ mem' \in SettingsType
      /\ RemoveAccount \/ disk.listed \subseteq disk'.listed
      /\ SaveRemoved \/ \A i \in Ids : agreed[i] \subseteq agreed'[i]
      /\ SaveInstalled \/ SaveRemoved \/ mem'.on = mem.on
  BY SettingsSteps DEF Next, SettingsOK
<1>1. /\ WindowOK /\ window \in Windows /\ mem \in SettingsType /\ disk \in SettingsType
      /\ Here \in Ids /\ (window.open => Here \in disk.listed)
      /\ mem.listed = disk.listed /\ mem'.listed = disk'.listed /\ disk'.listed \subseteq Ids
      /\ agreed \in [Ids -> SUBSET Rules]
  <2>1. disk' \in SettingsType /\ mem'.listed = disk'.listed
    BY SettingsSteps DEF SettingsOK
  <2> QED
    BY <2>1, WindowTyped DEF WindowOK, IInv, TypeOK, SettingsType
<1>2. \A i : UNCHANGED native => Installed(native[i])' = Installed(native[i])
  BY <1>0 DEF Installed
<1>3. ASSUME window' \in Windows, KeepsButtons(window, window'),
             window'.open = window.open, window'.current = window.current,
             window'.task = window.task, window'.auths = window.auths,
             window'.seen = window.seen, window'.blind = window.blind,
             Task = NoTask /\ Unlocked(window, mem) => Unlocked(window', mem'),
             UNCHANGED <<disk, agreed, native>>
      PROVE  WindowOK'
  <2>1. window.open /\ Task = NoTask =>
            (~window'.blind => window'.seen = Installed(native[Here])')
    <3>1. Here' = Here
      BY <1>3 DEF Here
    <3>2. Installed(native[Here])' = Installed(native[Here])
      BY <1>2, <1>3, <3>1 DEF Installed
    <3> QED
      BY <1>1, <1>3, <3>2 DEF WindowOK, SeenIsTrue, Task
  <2> QED
    BY <1>3, <2>1, SameView DEF KeepsButtons
<1>4. ASSUME UNCHANGED <<window, mem, native>>, disk.listed \subseteq disk'.listed,
             \A i \in Ids : agreed[i] \subseteq agreed'[i]
      PROVE  WindowOK'
  <2>1. Here' = Here
    BY <1>4 DEF Here
  <2>2. Installed(native[Here])' = Installed(native[Here])
    BY <1>2, <1>4, <2>1 DEF Installed
  <2>3. window.open /\ Task = NoTask =>
            (~window'.blind => window'.seen = Installed(native[Here])')
    BY <1>1, <1>4, <2>2 DEF WindowOK, SeenIsTrue, Task
  <2> QED
    BY <1>1, <1>4, <2>3, SameView
<1>5. CASE OpenWindow
  <2> DEFINE w == [Closed EXCEPT !.open = TRUE, !.buttons = Buttons]
  <2>1. PICK i \in disk.listed : window' = Shown(w, i, disk, creds, native)
    BY <1>5 DEF OpenWindow
  <2>2. mem' = disk /\ UNCHANGED <<disk, native>> /\ i \in Ids
    BY <1>1, <1>5 DEF OpenWindow, SettingsType
  <2>3. /\ w \in Windows /\ w.open /\ w.task = NoTask /\ w.buttons = Buttons
    BY WindowTyped DEF Windows, Closed
  <2> HIDE DEF w
  <2>4. /\ window' \in Windows /\ KeepsButtons(w, window')
        /\ window'.current = i /\ window'.task = NoTask
        /\ ~window'.blind => window'.seen = Installed(native[i])
        /\ w.task = NoTask /\ {"list", "save"} \subseteq w.buttons => Unlocked(window', disk)
    BY <1>1, <2>1, <2>2, <2>3, ShownWindow
  <2>5. Unlocked(window', disk) /\ "save" \in window'.buttons
    BY <2>3, <2>4 DEF Buttons, KeepsButtons
  <2>6. Here' = i /\ Installed(native[Here])' = Installed(native[i])
    BY <1>2, <2>2, <2>4 DEF Here, Installed
  <2> QED
    BY <2>2, <2>4, <2>5, <2>6
       DEF WindowOK, TaskOK, ButtonsOK, SeenIsTrue, Task, NoTask, Installing
<1>6. CASE CloseWindow
  <2>1. window' = Closed
    BY <1>6 DEF CloseWindow
  <2> QED
    BY <2>1, WindowTyped
       DEF WindowOK, TaskOK, ButtonsOK, SeenIsTrue, Task, NoTask, Closed, Installing
<1>7. CASE Discard
  <2>1. /\ window.open /\ window' = Shown(window, Here, mem', creds, native)
        /\ UNCHANGED <<disk, agreed, native>>
    BY <1>7 DEF Discard, Clicks
  <2> QED
    BY <1>0, <1>1, <2>1, ShownStep
<1>8. ASSUME NEW i \in Ids, Select(i) \/ AddAccount(i)
      PROVE  WindowOK'
  <2>1. /\ window.open /\ window' = Shown(window, i, mem', creds, native)
        /\ UNCHANGED <<agreed, native>>
    BY <1>8 DEF Select, AddAccount, Clicks
  <2>2. i \in disk'.listed
    <3>1. CASE Select(i)
      BY <1>1, <3>1 DEF Select
    <3>2. CASE AddAccount(i)
      BY <1>1, <3>2 DEF AddAccount, SettingsType
    <3> QED
      BY <1>8, <3>1, <3>2
  <2>3. disk.listed \subseteq disk'.listed
    <3>1. CASE Select(i)
      BY <1>1, <3>1 DEF Select
    <3>2. CASE AddAccount(i)
      BY <1>1, <3>2 DEF AddAccount, SettingsType
    <3> QED
      BY <1>8, <3>1, <3>2
  <2> QED
    BY <1>0, <2>1, <2>2, <2>3, ShownStep
<1>9. CASE RemoveAccount
  <2>1. PICK i \in mem'.listed : window' = Shown(window, i, mem', creds, native)
    BY <1>9 DEF RemoveAccount
  <2>2. window.open /\ Task = NoTask /\ UNCHANGED <<agreed, native>>
    BY <1>9 DEF RemoveAccount, Clicks, Task
  <2> QED
    BY <1>0, <1>1, <2>1, <2>2, ShownStep
<1>10. ASSUME NEW r \in Rules, Edit(r)
       PROVE  WindowOK'
  <2>1. window' = Available(window, mem) /\ UNCHANGED <<disk, agreed, native>>
    BY <1>10 DEF Edit
  <2>2. mem'.on = mem.on
    BY <1>1, <1>10 DEF Edit, SettingsType
  <2>3. /\ window' \in Windows /\ SameWork(window, window') /\ KeepsButtons(window, window')
        /\ window'.seen = window.seen /\ window'.blind = window.blind
        /\ Unlocks(window, window', mem)
    BY <1>1, <2>1, AvailableWindow
  <2>4. Task = NoTask /\ Unlocked(window, mem) => Unlocked(window', mem')
    BY <2>2, <2>3 DEF Unlocks, Unlocked, Task
  <2> QED
    BY <1>3, <2>1, <2>3, <2>4 DEF SameWork
<1>11. CASE Watch
  <2>1. PICK answered \in BOOLEAN :
          window' = [Schedule(window, mem, native, answered) EXCEPT !.news = FALSE]
    BY <1>11 DEF Watch
  <2>2. UNCHANGED <<disk, mem, agreed, native>>
    BY <1>11 DEF Watch
  <2> DEFINE v == Schedule(window, mem, native, answered)
  <2>3. /\ v \in Windows /\ SameWork(window, v) /\ KeepsButtons(window, v)
        /\ ~v.blind => v.seen = Installed(native[v.current])
        /\ Unlocks(window, v, mem)
    BY <1>1, ScheduleWindow
  <2> HIDE DEF v
  <2>4. window' = [v EXCEPT !.news = FALSE]
    BY <2>1 DEF v
  <2>5. /\ window' \in Windows /\ window'.open = v.open /\ window'.current = v.current
        /\ window'.task = v.task /\ window'.auths = v.auths /\ window'.buttons = v.buttons
        /\ window'.seen = v.seen /\ window'.blind = v.blind /\ window'.state = v.state
    BY <2>3, <2>4 DEF Windows
  <2>6. Here' = Here
    BY <2>3, <2>5 DEF Here, SameWork
  <2>7. Installed(native[Here])' = Installed(native[Here])
    BY <1>2, <2>2, <2>6 DEF Installed
  <2>8. ~window'.blind => window'.seen = Installed(native[Here])'
    BY <2>3, <2>5, <2>7 DEF SameWork, Here
  <2>9. Task = NoTask /\ Unlocked(window, mem) => Unlocked(window', mem')
    BY <2>2, <2>3, <2>5 DEF Unlocks, Unlocked, Task
  <2>10. "save" \in window.buttons => "save" \in window'.buttons
    BY <2>3, <2>5 DEF KeepsButtons
  <2> QED
    BY <2>2, <2>3, <2>5, <2>8, <2>9, <2>10, SameView DEF SameWork
<1>12. CASE Disconnect
  <2>1. UNCHANGED <<disk, mem, agreed, native>>
        /\ (window' = window \/ window' = Connection(window, mem, creds'))
    BY <1>12 DEF Disconnect
  <2>2. CASE window' = window
    BY <1>4, <2>1, <2>2
  <2>3. CASE window' = Connection(window, mem, creds')
    <3>1. /\ window' \in Windows /\ SameWork(window, window') /\ KeepsButtons(window, window')
          /\ window'.seen = window.seen /\ window'.blind = window.blind
          /\ window.task = NoTask /\ {"list", "save"} \subseteq window.buttons => Unlocked(window', mem)
      BY <1>1, <2>3, ConnectionWindow
    <3>2. Task = NoTask /\ Unlocked(window, mem) => Unlocked(window', mem')
      BY <2>1, <3>1 DEF Unlocked, Task
    <3> QED
      BY <1>3, <2>1, <3>1, <3>2 DEF SameWork
  <2> QED
    BY <2>1, <2>2, <2>3
<1>13. CASE RunEnds
  <2>1. window' = [window EXCEPT !.news = window.open] /\ UNCHANGED <<disk, mem, agreed, native>>
    BY <1>13 DEF RunEnds
  <2>2. /\ window' \in Windows /\ window'.open = window.open /\ window'.current = window.current
        /\ window'.task = window.task /\ window'.auths = window.auths
        /\ window'.buttons = window.buttons /\ window'.state = window.state
        /\ window'.seen = window.seen /\ window'.blind = window.blind
    BY <1>1, <2>1 DEF Windows
  <2>3. Here' = Here
    BY <2>2 DEF Here
  <2>4. Installed(native[Here])' = Installed(native[Here])
    BY <1>2, <2>1, <2>3 DEF Installed
  <2>5. window.open /\ Task = NoTask => (~window'.blind => window'.seen = Installed(native[Here])')
    BY <1>1, <2>2, <2>4 DEF WindowOK, SeenIsTrue, Task
  <2>6. Unlocked(window, mem) => Unlocked(window', mem')
    BY <2>1, <2>2 DEF Unlocked
  <2> QED
    BY <2>1, <2>2, <2>5, <2>6, SameView
<1>14. CASE ApplySchedule
  <2>1. /\ window.open /\ Busy("install", "write") /\ UNCHANGED disk
        /\ agreed' = [agreed EXCEPT ![Here] = agreed[Here] \cup {mem.rules[Here]}]
    BY <1>14 DEF ApplySchedule, Clicks
  <2>2. mem.rules[Here] \in agreed'[Here]
    BY <1>1, <2>1
  <2> QED
    BY <2>1, <2>2, BusyStep DEF Stages
<1>15. CASE RemoveSchedule
  BY <1>15, BusyStep DEF RemoveSchedule, Clicks, Stages, Installing
<1>16. CASE WriteDefinition \/ Unload \/ LoadTask \/ Verify \/ Cleanup \/ Confirm
  <2>1. /\ Task.at \in {"write", "unload", "load", "verify", "cleanup", "confirm"}
        /\ UNCHANGED <<disk, agreed>>
        /\ Task.at \in Installing => Task.kind = "install"
    BY <1>1, <1>16 DEF WriteDefinition, Unload, LoadTask, Verify, Cleanup, Confirm, TaskAt,
                       WindowOK, TaskOK
  <2>2. \E stage \in Stages : /\ TaskGoes(stage)
                              /\ stage \in Installing => Task.kind = "install"
    <3>1. CASE WriteDefinition
      BY <2>1, <3>1 DEF WriteDefinition, TaskAt, Stages, Installing
    <3>2. CASE Unload
      BY <3>2 DEF Unload, Stages, Installing
    <3>3. CASE LoadTask
      BY <2>1, <3>3 DEF LoadTask, TaskAt, Stages, Installing
    <3>4. CASE Verify
      BY <2>1, <3>4 DEF Verify, TaskAt, Stages, Installing
    <3>5. CASE Cleanup
      BY <3>5 DEF Cleanup, Stages, Installing
    <3>6. CASE Confirm
      BY <3>6 DEF Confirm, Stages, Installing
    <3> QED
      BY <1>16, <3>1, <3>2, <3>3, <3>4, <3>5, <3>6
  <2> QED
    BY <2>1, <2>2, TaskGoesStep
<1>17. CASE SaveInstalled \/ RollBack \/ SaveRemoved \/ TaskFails
  <2>1. ~RemoveAccount
    <3>1. Task.at # "none"
      BY <1>17 DEF SaveInstalled, RollBack, SaveRemoved, TaskFails, TaskAt
    <3> QED
      BY <3>1 DEF RemoveAccount, NoTask, Task
  <2>2. \E answered \in BOOLEAN : window' = Finished(window, mem', native', answered)
    <3>1. CASE SaveInstalled \/ SaveRemoved
      BY <3>1 DEF SaveInstalled, SaveRemoved, Ends
    <3>2. CASE RollBack \/ TaskFails
      BY <3>2 DEF RollBack, TaskFails
    <3> QED
      BY <1>17, <3>1, <3>2
  <2> QED
    BY <1>0, <2>1, <2>2, FinishedStep
<1>18. CASE Consent \/ SaveItem
  <2>1. UNCHANGED <<disk, mem, agreed, native>>
    BY <1>18 DEF Consent, SaveItem
  <2>2. \E k \in DOMAIN window.auths, stage \in ConsentStages : AuthGoes(k, stage)
    BY <1>18 DEF Consent, SaveItem, AuthsAt, ConsentStages
  <2> QED
    BY <1>0, <2>1, <2>2, AuthGoesStep
<1>19. CASE AuthEnds \/ \E item \in {"read", "act"} : Authorise(item)
  BY <1>0, <1>19, AuthEndsStep, AuthoriseStep
<1>20. CASE Save \/ \E i \in Ids : Fire(i)
  <2>1. UNCHANGED <<window, mem, native>>
    BY <1>20 DEF Save, Fire
  <2>2. disk.listed \subseteq disk'.listed /\ \A i \in Ids : agreed[i] \subseteq agreed'[i]
    BY <1>1, <1>20 DEF Save, Fire
  <2> QED
    BY <1>4, <2>1, <2>2
<1> QED
  BY <1>5, <1>6, <1>7, <1>8, <1>9, <1>10, <1>11, <1>12, <1>13, <1>14, <1>15, <1>16, <1>17,
     <1>18, <1>19, <1>20 DEF Next, Move, TaskStep, AuthStep

-----------------------------------------------------------------------------
(***************************************************************************)
(* The invariant, and what follows from it.                                *)
(***************************************************************************)
LEMMA InitInv == Init => IInv
<1> SUFFICES ASSUME Init
             PROVE  IInv
  OBVIOUS
<1> USE AccountsAssumption DEF Init
<1>1. NoTask \in Tasks /\ <<>> \in Seq(Consents)
  BY EmptySeq DEF NoTask, Tasks, Stages
<1>2. window = Closed /\ Closed \in Windows
  BY <1>1 DEF Closed, Windows, States
<1>3. disk \in SettingsType /\ mem = disk /\ disk.listed # {} /\ fresh = Ids \ disk.listed
      /\ \A i \in Ids : ~disk.on[i]
  BY DEF SettingsType
<1>4. TypeOK
  <2>1. creds \in [Ids -> SUBSET Items]
    OBVIOUS
  <2>2. native \in [Ids -> [file : BOOLEAN, loaded : BOOLEAN]] /\ agreed \in [Ids -> SUBSET Rules]
    OBVIOUS
  <2>3. run \in [id : Ids, rules : Rules, on : BOOLEAN]
    BY DEF NoRun
  <2> QED
    BY <1>2, <1>3, <2>1, <2>2, <2>3 DEF TypeOK, Closed, Buttons
<1>5. TaskOK /\ ButtonsOK /\ SeenIsTrue
  BY <1>2 DEF Closed, TaskOK, ButtonsOK, SeenIsTrue, Task, NoTask, Installing
<1>6. FileOK
  BY DEF FileOK
<1> QED
  BY <1>2, <1>4, <1>5, <1>6 DEF IInv

LEMMA NextInv == IInv /\ [Next]_vars => IInv'
<1> SUFFICES ASSUME IInv, [Next]_vars
             PROVE  IInv'
  OBVIOUS
<1>1. CASE Next
  <2>1. SettingsOK' /\ FileOK' /\ RestOK' /\ WindowOK'
    BY <1>1, SettingsSteps, RestSteps, WindowSteps
  <2>2. TypeOK'
    BY <2>1 DEF TypeOK, SettingsOK, RestOK, WindowOK, Windows, Natives, Here
  <2> QED
    BY <2>1, <2>2 DEF IInv, WindowOK
<1>2. CASE UNCHANGED vars
  BY <1>2 DEF vars, IInv, TypeOK, TaskOK, FileOK, ButtonsOK, SeenIsTrue, Unlocked,
              Installed, Task, Here
<1> QED
  BY <1>1, <1>2

\* The inductive invariant: types, the file and what was agreed to, the native task at
\* work, and the buttons between tasks.
THEOREM AccountsInductive == Spec => []IInv
  BY InitInv, NextInv, PTL DEF Spec

\* The types: the window and the file list the same accounts, at least one, and the
\* window shows one of them.
THEOREM AccountsTypes == Spec => []TypeOK
<1>1. IInv => TypeOK
  BY DEF IInv
<1> QED
  BY <1>1, AccountsInductive, PTL

\* A scheduled run starts with rules the user said may run unattended, whatever drafts,
\* saves, failed commands and removals came before.
THEOREM AccountsAgreed == Spec => RunsAsAgreed
<1>1. IInv /\ [Next]_vars => [run'.on /\ ~run.on => run'.rules \in agreed[run'.id]]_vars
  <2> SUFFICES ASSUME IInv, Next, run'.on, ~run.on
               PROVE  run'.rules \in agreed[run'.id]
    OBVIOUS
  <2>1. run' = NoRun \/ run' = run \/ \E i \in Ids : Fire(i)
    BY DEF Next, Move, OpenWindow, CloseWindow, Discard, Save, RemoveAccount, Watch,
           ApplySchedule, RemoveSchedule, TaskStep, WriteDefinition, Unload, LoadTask, Verify,
           Cleanup, Confirm, RollBack, SaveInstalled, SaveRemoved, TaskFails, Authorise,
           SaveItem, Disconnect, AuthStep, Consent, AuthEnds, RunEnds, Edit, Select, AddAccount
  <2>2. PICK i \in Ids : Fire(i)
    BY <2>1 DEF NoRun
  <2>3. run' = [id |-> i, rules |-> disk.rules[i], on |-> TRUE] /\ disk.on[i]
    BY <2>2 DEF Fire, MayRun
  <2> QED
    BY <2>3 DEF IInv, FileOK
<1> QED
  BY <1>1, AccountsInductive, PTL DEF Spec, RunsAsAgreed

\* Between native tasks the window's word on the schedule is the computer's.
THEOREM AccountsSeen == Spec => []SeenIsTrue
<1>1. IInv => SeenIsTrue
  BY DEF IInv
<1> QED
  BY <1>1, AccountsInductive, PTL

\* However a native task and consents overlap, and in whatever order they end, no button
\* stays disabled once all have ended.
THEOREM AccountsUnlocks == Spec => []WindowUnlocks
<1>1. IInv => WindowUnlocks
  BY DEF IInv, ButtonsOK, Unlocked, WindowUnlocks, Task, Here
<1> QED
  BY <1>1, AccountsInductive, PTL
=============================================================================
