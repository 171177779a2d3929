------------------------------ MODULE Accounts ------------------------------
(***************************************************************************)
(* The accounts of the preferences window: the settings file and the drafts *)
(* the window keeps of it, the native task that runs an account unattended, *)
(* the credentials an authorisation saves and a disconnection removes, and  *)
(* the scheduled runs, which are other processes and read all of them when  *)
(* they start.  Handlers run one at a time; a native command or a browser   *)
(* consent runs in a thread, and what keeps the handlers apart meanwhile is *)
(* which buttons are enabled.                                               *)
(***************************************************************************)
EXTENDS Integers, SequencesExt

CONSTANTS
    Ids,           \* account identifiers
    First,         \* the account of a fresh settings file
    Rules,         \* what a run may do (_scheduled_runtime_fingerprint)
    Default,       \* the rules of a new account
    Backends,      \* the native schedulers: "launchd", "systemd", "windows"
    MaxFaults,     \* failed writes and commands
    MaxClicks      \* what the user does at the window

ASSUME AccountsAssumption == /\ First \in Ids /\ Default \in Rules
                             /\ Backends \subseteq {"launchd", "systemd", "windows"}
                             /\ MaxFaults \in Nat /\ MaxClicks \in Nat

VARIABLES
    disk,          \* the settings file
    mem,           \* the window's settings, drafts included
    fresh,         \* identifiers never given to an account
    native,        \* per account, its definition file and the loaded task
    creds,         \* per account, the items in the credential manager
    agreed,        \* per account, the rules the user said may run unattended
    window,
    run,           \* the scheduled run in progress
    faults, clicks,
    backend        \* native_scheduler(): the one of this computer

vars == <<disk, mem, fresh, native, creds, agreed, window, run, faults, clicks,
          backend>>

NoTask == [kind |-> "none", id |-> First, rules |-> Default, at |-> "none"]
NoRun == [id |-> First, rules |-> Default, on |-> FALSE]
Buttons == {"list", "connect", "permit", "disconnect", "remove", "apply", "unschedule", "save"}
Items == {"client", "read", "act"}
Fault == faults' = faults + 1 /\ faults < MaxFaults
Fine == UNCHANGED faults

-----------------------------------------------------------------------------
\* The window's refreshes, as functions of the window w and what they read.

\* _gmail_status: a token without its client counts as no account at all.
Status(items) == IF ~ {"client", "read"} \subseteq items THEN "not_configured"
                 ELSE IF "act" \in items THEN "ready" ELSE "read_only"

\* status(): Windows asks the task alone, the others want its file too.
Installed(task) == task.loaded /\ (backend = "windows" \/ task.file)

\* _refresh_operation_availability.  It knows of native tasks, not of consents.
Available(w, m) ==
    [w EXCEPT !.buttons =
        (@ \ {"apply", "unschedule"}) \cup {"remove"}
        \cup {b \in {"apply"} : w.task = NoTask /\ w.state = "ready"}
        \cup {b \in {"unschedule"} : w.task = NoTask /\ (w.seen \/ m.on[w.current])}]

\* _refresh_connection_status
Connection(w, m, c) ==
    LET state == Status(c[w.current]) IN
    Available([w EXCEPT !.state = state,
                        !.buttons = (@ \ {"permit", "disconnect"}) \cup {"connect"}
                            \cup {b \in {"permit", "disconnect"} : state # "not_configured"}], m)

\* _refresh_schedule_status; a query that fails counts as no task.
Schedule(w, m, n, answered) ==
    Available([w EXCEPT !.seen = answered /\ Installed(n[w.current]),
                        !.blind = ~ answered], m)

\* _load_form of account i
Shown(w, i, m, c, n) == Schedule(Connection([w EXCEPT !.current = i], m, c), m, n, TRUE)

\* Mutant: the status is not read again when the task is over.
FinishedUnread(w, m, n, answered) ==
    Available([w EXCEPT !.task = NoTask, !.buttons = Buttons], m)

\* _set_schedule_busy(False) after a native task, with the status it reads.
Finished(w, m, n, answered) ==
    Schedule([w EXCEPT !.task = NoTask, !.buttons = Buttons], m, n, answered)

\* _set_auth_busy
AuthBusy(w) == [w EXCEPT !.buttons = @ \ {"list", "connect", "permit", "disconnect", "remove",
                                          "apply", "unschedule"}]

\* Mutant: the end of a consent leaves the account list as it was.
AuthOverListOff(w, k, m, c) ==
    Connection([w EXCEPT !.auths = RemoveAt(@, k),
                         !.buttons = @ \cup {"connect", "permit", "disconnect"}], m, c)

\* _set_auth_busy(False) at the end of the consent numbered k, whatever others are open.
AuthOver(w, k, m, c) ==
    Connection([w EXCEPT !.auths = RemoveAt(@, k),
                         !.buttons = @ \cup {"list", "connect", "permit", "disconnect"}], m, c)

Closed == [open |-> FALSE, current |-> First, state |-> "not_configured", seen |-> FALSE,
           blind |-> FALSE, buttons |-> {}, task |-> NoTask, auths |-> <<>>, news |-> FALSE]

\* A fresh settings file, or one whose accounts were added and connected before; of the
\* clicks that took, adding an account is counted.
Init == /\ \E l \in SUBSET Ids : /\ First \in l
                                /\ disk = [listed |-> l, on |-> [i \in Ids |-> FALSE],
                                           rules |-> [i \in Ids |-> Default]]
        /\ mem = disk
        /\ fresh = Ids \ disk.listed
        /\ native = [i \in Ids |-> [file |-> FALSE, loaded |-> FALSE]]
        /\ \/ disk.listed = {First} /\ creds = [i \in Ids |-> {}]
           \/ creds = [i \in Ids |-> IF i \in disk.listed THEN Items ELSE {}]
        /\ agreed = [i \in Ids |-> {}]
        /\ window = Closed
        /\ run = NoRun
        /\ faults = 0
        /\ clicks = Cardinality(disk.listed) - 1 /\ clicks \in 0..MaxClicks
        /\ backend \in Backends

-----------------------------------------------------------------------------
\* The user at the window.

Clicks(b) == /\ window.open /\ b \in window.buttons
             /\ clicks < MaxClicks /\ clicks' = clicks + 1
Here == window.current

OpenWindow == /\ ~ window.open
              /\ mem' = disk
              /\ \E i \in disk.listed :
                    window' = Shown([Closed EXCEPT !.open = TRUE, !.buttons = Buttons],
                                    i, disk, creds, native)
              /\ UNCHANGED <<disk, fresh, native, creds, agreed, run, faults, clicks>>

\* The close event waits for a native task; a kill does not.
CloseWindow == /\ window.open
               /\ window' = Closed
               /\ UNCHANGED <<disk, mem, fresh, native, creds, agreed, run, faults, clicks>>

Select(i) == /\ Clicks("list") /\ i \in mem.listed \ {Here}
             /\ window' = Shown(window, i, mem, creds, native)
             /\ UNCHANGED <<disk, mem, fresh, native, creds, agreed, run, faults>>

\* A draft; choosing another model also refreshes what may be clicked.
Edit(r) == /\ Clicks("save") /\ mem.rules[Here] # r
           /\ mem' = [mem EXCEPT !.rules[Here] = r]
           /\ window' = Available(window, mem)
           /\ UNCHANGED <<disk, fresh, native, creds, agreed, run, faults>>

Discard == /\ Clicks("save") /\ mem # disk
           /\ mem' = disk
           /\ window' = Shown(window, Here, disk, creds, native)
           /\ UNCHANGED <<disk, fresh, native, creds, agreed, run, faults>>

\* The scheduled accounts a save would change, all of which the question names.
Changed == {i \in disk.listed \cap mem.listed : disk.on[i] /\ disk.rules[i] # mem.rules[i]}

Save == /\ Clicks("save") /\ disk # mem
        /\ disk' = mem
        /\ agreed' = [i \in Ids |-> agreed[i] \cup {r \in {mem.rules[i]} : i \in Changed}]
        /\ UNCHANGED <<mem, fresh, native, creds, window, run, faults>>

\* Mutant: the window lists the account and the file does not.
AddAccountUnsaved(i) ==
    /\ Clicks("remove") /\ window.task = NoTask /\ i \in fresh
    /\ mem' = [mem EXCEPT !.listed = @ \cup {i}]
    /\ fresh' = fresh \ {i}
    /\ window' = Shown(window, i, mem', creds, native)
    /\ UNCHANGED <<disk, native, creds, agreed, run, faults>>

\* The file gets the new account and none of the drafts.
AddAccount(i) ==
    /\ Clicks("remove") /\ window.task = NoTask /\ i \in fresh
    /\ disk' = [disk EXCEPT !.listed = @ \cup {i}]
    /\ mem' = [mem EXCEPT !.listed = @ \cup {i}]
    /\ fresh' = fresh \ {i}
    /\ window' = Shown(window, i, mem', creds, native)
    /\ UNCHANGED <<native, creds, agreed, run, faults>>

RemoveAccount ==
    /\ Clicks("remove") /\ window.task = NoTask
    /\ ~ mem.on[Here] /\ ~ window.seen
    /\ Status(creds[Here]) = "not_configured"
    /\ mem.listed # {Here}
    /\ disk' = [disk EXCEPT !.listed = @ \ {Here}]
    /\ mem' = [mem EXCEPT !.listed = @ \ {Here}]
    /\ \E i \in mem'.listed : window' = Shown(window, i, mem', creds, native)
    /\ UNCHANGED <<fresh, native, creds, agreed, run, faults>>

\* The watch on the run journal: some run has ended.
Watch == \E answered \in BOOLEAN :
         /\ window.open /\ window.news
         /\ window' = [Schedule(window, mem, native, answered) EXCEPT !.news = FALSE]
         /\ IF answered THEN Fine ELSE Fault
         /\ UNCHANGED <<disk, mem, fresh, native, creds, agreed, run, clicks>>

-----------------------------------------------------------------------------
\* The native task: a thread of commands, then a handler that saves the outcome.

Task == window.task
TaskAt(stage) == window.open /\ Task.at = stage
TaskGoes(stage) == window' = [window EXCEPT !.task.at = stage]
Busy(kind, stage) ==
    window' = [window EXCEPT !.buttons = {},
                             !.task = [kind |-> kind, id |-> Here, rules |-> mem.rules[Here], at |-> stage]]

ApplySchedule ==
    /\ Clicks("apply") /\ window.task = NoTask /\ window.state = "ready"
    /\ agreed' = [agreed EXCEPT ![Here] = @ \cup {mem.rules[Here]}]
    /\ Busy("install", "write")
    /\ UNCHANGED <<disk, mem, fresh, native, creds, run, faults>>

RemoveSchedule ==
    /\ Clicks("unschedule") /\ window.task = NoTask
    /\ Busy("remove", "unload")
    /\ UNCHANGED <<disk, mem, fresh, native, creds, agreed, run, faults>>

WriteDefinition ==
    /\ TaskAt("write")
    /\ native' = [native EXCEPT ![Task.id].file = TRUE]
    /\ TaskGoes(IF backend = "launchd" THEN "unload" ELSE "load")
    /\ UNCHANGED <<disk, mem, fresh, creds, agreed, run, faults, clicks>>

\* A command may fail or time out; its effect may have happened all the same.
Unload ==
    /\ TaskAt("unload")
    /\ \/ native' = [native EXCEPT ![Task.id].loaded = FALSE] /\ Fine
       \/ UNCHANGED native /\ Fault
    /\ run' = IF backend = "launchd" /\ ~ native'[Task.id].loaded /\ run.id = Task.id
              THEN NoRun ELSE run
    /\ TaskGoes(IF Task.kind = "install" THEN "load" ELSE "confirm")
    /\ UNCHANGED <<disk, mem, fresh, creds, agreed, clicks>>

LoadTask ==
    /\ TaskAt("load")
    /\ \/ /\ native' = [native EXCEPT ![Task.id].loaded = TRUE]
          /\ \/ Fine /\ TaskGoes("verify")
             \/ Fault /\ TaskGoes("cleanup")
       \/ UNCHANGED native /\ Fault /\ TaskGoes("cleanup")
    /\ UNCHANGED <<disk, mem, fresh, creds, agreed, run, clicks>>

Verify ==
    /\ TaskAt("verify")
    /\ \/ Fine /\ TaskGoes("installed")
       \/ Fault /\ TaskGoes("cleanup")
    /\ UNCHANGED <<disk, mem, fresh, native, creds, agreed, run, clicks>>

\* Windows keeps a task it could not verify and loses its file.
Cleanup ==
    /\ TaskAt("cleanup")
    /\ \E unloaded \in BOOLEAN :
        /\ native' = [native EXCEPT ![Task.id] = [file |-> FALSE, loaded |-> @.loaded /\ ~ unloaded]]
        /\ IF unloaded \/ backend = "windows" THEN Fine ELSE Fault
        /\ backend = "windows" => ~ unloaded
    /\ TaskGoes("failed")
    /\ UNCHANGED <<disk, mem, fresh, creds, agreed, run, clicks>>

\* Only an answer that the task is there stops a removal: no answer does not.
Confirm ==
    /\ TaskAt("confirm")
    /\ \/ Fine /\ native[Task.id].loaded /\ TaskGoes("failed") /\ UNCHANGED native
       \/ /\ IF native[Task.id].loaded THEN Fault ELSE Fine
          /\ native' = [native EXCEPT ![Task.id].file = FALSE]
          /\ TaskGoes("removed")
    /\ UNCHANGED <<disk, mem, fresh, creds, agreed, run, clicks>>

Ends(m, n) == \E answered \in BOOLEAN :
    window' = Finished(window, m, n, answered) /\ IF answered THEN Fine ELSE Fault

\* Mutant: what the window has in memory is saved, drafts and all.
SavedWithDrafts(s) ==
    [mem EXCEPT !.on[Task.id] = TRUE, !.rules[Task.id] = Task.rules]

\* scoped_account_replacement: one account's change, in the window's settings or the file's.
Scoped(s) == [s EXCEPT !.on[Task.id] = TRUE, !.rules[Task.id] = Task.rules]

SaveInstalled ==
    /\ TaskAt("installed")
    /\ disk' = Scoped(disk)
    /\ mem' = Scoped(mem)
    /\ Ends(mem', native)
    /\ UNCHANGED <<fresh, native, creds, agreed, run, clicks>>

\* The settings cannot be written: the task is removed again, if it can be.
RollBack ==
    /\ TaskAt("installed") /\ Fault
    /\ \E gone \in BOOLEAN :
        native' = [native EXCEPT ![Task.id] = [file |-> @.file /\ ~ gone, loaded |-> @.loaded /\ ~ gone]]
    /\ window' = Finished(window, mem, native', TRUE)
    /\ UNCHANGED <<disk, mem, fresh, creds, agreed, run, clicks>>

SaveRemoved ==
    /\ TaskAt("removed")
    /\ disk' = [disk EXCEPT !.on[Task.id] = FALSE]
    /\ mem' = [mem EXCEPT !.on[Task.id] = FALSE]
    /\ agreed' = [agreed EXCEPT ![Task.id] = {}]
    /\ Ends(mem', native)
    /\ UNCHANGED <<fresh, native, creds, run, clicks>>

\* The commands or the save failed: the settings stay as they were.
TaskFails ==
    /\ \/ TaskAt("failed") /\ Fine
       \/ TaskAt("removed") /\ Fault
    /\ window' = Finished(window, mem, native, TRUE)
    /\ UNCHANGED <<disk, mem, fresh, native, creds, agreed, run, clicks>>

TaskStep == \/ WriteDefinition \/ Unload \/ LoadTask \/ Verify \/ Cleanup \/ Confirm
            \/ SaveInstalled \/ RollBack \/ SaveRemoved \/ TaskFails

-----------------------------------------------------------------------------
\* Authorisation: a browser consent, then two items saved one after the other.
\* Nothing but its disabled button keeps a second one from starting, and whatever
\* refreshes the connection enables that button: window.auths are those open, the
\* oldest first.

AuthsAt(stage) == {k \in DOMAIN window.auths : window.open /\ window.auths[k].at = stage}
AuthGoes(k, stage) == window' = [window EXCEPT !.auths[k].at = stage]

\* Connect asks for the reading scope; Permit for the acting one, and needs the first.
Authorise(item) ==
    /\ Clicks(IF item = "read" THEN "connect" ELSE "permit")
    /\ window' = AuthBusy([window EXCEPT !.auths = Append(@,
            [item |-> item, id |-> Here,
             at |-> IF item = "act" /\ Status(creds[Here]) = "not_configured" THEN "over" ELSE "consent"])])
    /\ UNCHANGED <<disk, mem, fresh, native, creds, agreed, run, faults>>

\* A loopback server of its own answers one callback that carries its state, or times out.
Consent ==
    /\ \E k \in AuthsAt("consent"), granted \in BOOLEAN :
            AuthGoes(k, IF granted THEN "client" ELSE "over")
    /\ UNCHANGED <<disk, mem, fresh, native, creds, agreed, run, faults, clicks>>

Saves(k, item) == LET i == window.auths[k].id IN creds' = [creds EXCEPT ![i] = @ \cup {item}]

SaveItem ==
    /\ \/ \E k \in AuthsAt("client") : Saves(k, "client") /\ AuthGoes(k, "token") /\ Fine
       \/ \E k \in AuthsAt("token") :
            Saves(k, window.auths[k].item) /\ AuthGoes(k, "over") /\ Fine
       \/ \E k \in AuthsAt("client") \cup AuthsAt("token") :
            UNCHANGED creds /\ AuthGoes(k, "over") /\ Fault
    /\ UNCHANGED <<disk, mem, fresh, native, agreed, run, clicks>>

AuthEnds ==
    /\ \E k \in AuthsAt("over") : window' = AuthOver(window, k, mem, creds)
    /\ UNCHANGED <<disk, mem, fresh, native, creds, agreed, run, faults, clicks>>

AuthStep == Consent \/ SaveItem \/ AuthEnds

\* The items go one by one, the client first; a failure leaves the rest.
Disconnect ==
    /\ Clicks("disconnect") /\ ~ mem.on[Here] /\ ~ window.seen
    /\ \/ /\ creds' = [creds EXCEPT ![Here] = {}] /\ Fine
          /\ window' = Connection(window, mem, creds')
       \/ /\ Fault /\ UNCHANGED window
          /\ \E gone \in {{}, {"client"}, {"client", "read"}} : creds' = [creds EXCEPT ![Here] = @ \ gone]
    /\ UNCHANGED <<disk, mem, fresh, native, agreed, run>>

-----------------------------------------------------------------------------
\* The scheduled process of account i; one at a time is enough to compare it with the file.
\* run_scheduled_scan fails closed on an account it does not find enabled.
MayRun(i) == i \in disk.listed /\ disk.on[i]

Fire(i) ==
    /\ native[i].loaded /\ ~ run.on
    /\ MayRun(i)
    /\ run' = [id |-> i, rules |-> disk.rules[i], on |-> TRUE]
    /\ UNCHANGED <<disk, mem, fresh, native, creds, agreed, window, faults, clicks>>

\* A run ends, at once when it finds no credentials or sooner or later.
RunEnds ==
    /\ run.on
    /\ run' = NoRun
    /\ window' = [window EXCEPT !.news = window.open]
    /\ UNCHANGED <<disk, mem, fresh, native, creds, agreed, faults, clicks>>

-----------------------------------------------------------------------------
Move == \/ OpenWindow \/ CloseWindow \/ Discard \/ Save \/ RemoveAccount \/ Watch
        \/ ApplySchedule \/ RemoveSchedule \/ TaskStep
        \/ (\E item \in {"read", "act"} : Authorise(item)) \/ AuthStep \/ Disconnect \/ RunEnds
        \/ \E r \in Rules : Edit(r)
        \/ \E i \in Ids : Select(i) \/ AddAccount(i) \/ Fire(i)

Next == Move /\ UNCHANGED backend

Spec == Init /\ [][Next]_vars

(***************************************************************************)
(* Properties                                                              *)
(***************************************************************************)
SettingsType == [listed : SUBSET Ids, on : [Ids -> BOOLEAN], rules : [Ids -> Rules]]

TypeOK ==
    /\ disk \in SettingsType /\ mem \in SettingsType
    /\ disk.listed # {} /\ mem.listed = disk.listed
    /\ fresh \subseteq Ids \ disk.listed
    /\ native \in [Ids -> [file : BOOLEAN, loaded : BOOLEAN]]
    /\ creds \in [Ids -> SUBSET Items]
    /\ agreed \in [Ids -> SUBSET Rules]
    /\ window.open => window.current \in mem.listed
    /\ window.buttons \subseteq Buttons
    /\ run \in [id : Ids, rules : Rules, on : BOOLEAN]
    /\ faults \in 0..MaxFaults /\ clicks \in 0..MaxClicks
    /\ backend \in Backends

\* An unattended run does only what the user agreed to, with Apply or in the
\* question Save asks, since the schedule was last removed: not a draft of
\* another account, nor a change nobody was asked about
\* (desktop_app._apply_schedule, save; settings.scoped_account_replacement).
RunsAsAgreed ==
    [][run'.on /\ ~ run.on => run'.rules \in agreed[run'.id]]_vars

\* Between native tasks the window knows whether the account on display has one,
\* unless its last question went unanswered: the removal and the disconnection
\* rely on it (desktop_app._refresh_schedule_status).
SeenIsTrue ==
    window.open /\ window.task = NoTask /\ ~ window.blind =>
        window.seen = Installed(native[Here])

\* A native task and any number of consents disable and enable the same buttons in any
\* order; with none left, nothing stays disabled (desktop_app._set_schedule_busy,
\* _set_auth_busy).
WindowUnlocks ==
    window.open /\ window.task = NoTask /\ window.auths = <<>> =>
        /\ {"list", "connect", "remove", "save"} \subseteq window.buttons
        /\ Status(creds[Here]) = "ready" /\ window.state = "ready" => "apply" \in window.buttons
        /\ mem.on[Here] => "unschedule" \in window.buttons
=============================================================================
