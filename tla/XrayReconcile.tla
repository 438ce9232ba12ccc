--------------------------- MODULE XrayReconcile ---------------------------
(***************************************************************************)
(* Keeping the local Xray core equal to the database.                      *)
(*                                                                         *)
(* The panel holds three descriptions of what Xray serves: the database    *)
(* (want), the configuration snapshot of the process object p (cfg, read   *)
(* by p.GetConfig) and what the core really runs (live).  Client edits     *)
(* commit to the database and then push one user at a time through the     *)
(* core's gRPC API; a push that fails asks for a reconciliation through    *)
(* the flag isNeedXrayRestart (need).  XrayService.RestartXray, under the  *)
(* package lock, rebuilds the configuration and keeps, patches or replaces *)
(* the process.  The parts of a configuration are its users, which the API *)
(* can change, and one part Static that stands for every section without a *)
(* reload API (log, dns, policy, api, ...), which only a restart changes.  *)
(***************************************************************************)
EXTENDS Naturals, FiniteSets

CONSTANTS
  Users,      \* users (inbound tag and email) of the local inbounds
  Keys,       \* credentials of a user
  Sections,   \* values of the static sections
  Absent,     \* a user that is not in the configuration (deleted or disabled)
  Static,     \* the sections that only a restart changes
  Faults,     \* what may fail: a subset of {"api", "start", "config"}
  MaxWaiting  \* bound: callers that wait for the lock at a time

ASSUME ConstantsAssumption ==
  /\ Absent \notin Keys \cup Sections
  /\ Static \notin Users
  /\ Faults \subseteq {"api", "start", "config"}
  /\ MaxWaiting \in Nat

Parts == Users \cup {Static}

Vals == Keys \cup Sections \cup {Absent}

\* a configuration, of the database, of the snapshot or of the core
Configs ==
  {c \in [Parts -> Vals] :
     c[Static] \in Sections /\ \A u \in Users : c[u] \in Keys \cup {Absent}}

\* who calls RestartXray; ForceCallers pass isForce = true
Callers == {"cron", "job", "admin", "setting", "tick", "node"}

ForceCallers == {"admin", "node"}

\* the callers that set the flag again when RestartXray returns an error
AskAgain == {"tick", "node"}

\* the progress of the request that is changing a part
Steps == {"none", "remove", "add", "check"}

VARIABLES
  want,       \* the configuration GetXrayConfig would generate from the database
  cfg,        \* p.GetConfig()
  live,       \* what the running core serves; all Absent when it is down
  running,    \* p.IsRunning()
  need,       \* isNeedXrayRestart
  manual,     \* isManuallyStopped
  checkTime,  \* CheckXrayRunningJob.checkTime
  req,        \* callers of RestartXray waiting for the lock
  phase,      \* where the holder of the lock is in RestartXray
  by,         \* that holder, or "nobody"
  built,      \* its xrayConfig
  edit,       \* edit[p]: the request changing part p, between commit and return
  owed,       \* a request returned needRestart and is about to set the flag
  lapsed,     \* history: since the last GetXrayConfig, a failure was met by a
              \* caller that sets no flag for it
  raced       \* history: the parts that the database changed behind the back of
              \* a restart that had read it, or of an edit being pushed, until
              \* a GetXrayConfig finds the edit over

history == <<lapsed, raced>>
vars == <<want, cfg, live, running, need, manual, checkTime, req, phase,
                 by, built, edit, owed, history>>

Phases == {"idle", "locked", "built", "hot", "start"}

NoEdit == [step |-> "none", val |-> Absent, fail |-> FALSE]

Nothing == [p \in Parts |-> Absent]

TypeOK ==
  /\ want \in Configs
  /\ cfg \in Configs
  /\ live \in [Parts -> Vals]
  /\ running \in BOOLEAN
  /\ need \in BOOLEAN
  /\ manual \in BOOLEAN
  /\ checkTime \in 0 .. 1
  /\ req \subseteq Callers
  /\ phase \in Phases
  /\ by \in Callers \cup {"nobody"}
  /\ built \in Configs
  /\ edit \in [Parts -> [step : Steps, val : Vals, fail : BOOLEAN]]
  /\ owed \in BOOLEAN
  /\ lapsed \in BOOLEAN
  /\ raced \subseteq Parts

\* startTask has restarted the core with RestartXray(true)
Init ==
  /\ want \in Configs
  /\ cfg = want
  /\ live = want
  /\ running = TRUE
  /\ need = FALSE
  /\ manual = FALSE
  /\ checkTime = 0
  /\ req = {}
  /\ phase = "idle"
  /\ by = "nobody"
  /\ built = want
  /\ edit = [p \in Parts |-> NoEdit]
  /\ owed = FALSE
  /\ lapsed = FALSE
  /\ raced = {}

-----------------------------------------------------------------------------
(***************************************************************************)
(* The core's API, as the local runtime and the traffic poll use it.       *)
(* Every call needs a running process (withAPI); a removal of a user that  *)
(* is not there counts as done; an addition of one that is there fails.    *)
(***************************************************************************)
ApiMayFail == ~running \/ "api" \in Faults

RemoveUser(u) == running /\ live' = [live EXCEPT ![u] = Absent]

AddUser(u, k) == running /\ live[u] = Absent /\ live' = [live EXCEPT ![u] = k]

AddUserMayFail(u) == ApiMayFail \/ live[u] # Absent

\* a caller of RestartXray does nothing else until it returns (the cron runs
\* no job twice at a time)
Busy(c) == c \in req \/ by = c

\* c calls RestartXray
Asks(c) == Cardinality(req) < MaxWaiting /\ req' = req \cup {c}

\* the holder of the lock has read the database and is not done with the core
Reloading == phase \in {"built", "hot", "start"}

\* a change of part p that what is under way does not know of
Races(p, hidden) == raced' = IF hidden THEN raced \cup {p} ELSE raced

-----------------------------------------------------------------------------
(***************************************************************************)
(* Changing one client of a local inbound: UpdateInboundClient,            *)
(* AddInboundClient and DelInboundClientByEmail hold the inbound's mutex   *)
(* from before the commit to after the push.                               *)
(***************************************************************************)
CommitClient(u, v) ==
  /\ edit[u].step = "none"
  /\ v # want[u]
  /\ want' = [want EXCEPT ![u] = v]
  /\ edit' = [edit EXCEPT ![u] =
                [step |-> IF want[u] # Absent THEN "remove" ELSE "add",
                 val |-> v, fail |-> FALSE]]
  /\ Races(u, Reloading)
  /\ UNCHANGED <<cfg, live, running, need, manual, checkTime, req, phase,
                 by, built, owed, lapsed>>

\* a failed push that nobody reports
ReturnSilent(u, failed) ==
  /\ edit' = [edit EXCEPT ![u] = NoEdit]
  /\ UNCHANGED owed

\* the request returns; its controller will call SetToNeedRestart if failed
Return(u, failed) ==
  /\ edit' = [edit EXCEPT ![u] = NoEdit]
  /\ owed' = (owed \/ failed)

\* RemoveUser, then AddUser when the new client is enabled
PushRemove(u) ==
  /\ edit[u].step = "remove"
  /\ \E failed \in BOOLEAN :
       /\ IF failed THEN ApiMayFail /\ UNCHANGED live ELSE RemoveUser(u)
       /\ IF edit[u].val = Absent
          THEN Return(u, failed)
          ELSE /\ edit' = [edit EXCEPT ![u] =
                              [step |-> "add", val |-> edit[u].val, fail |-> failed]]
               /\ UNCHANGED owed
  /\ UNCHANGED <<want, cfg, running, need, manual, checkTime, req, phase,
                 by, built, history>>

PushAdd(u) ==
  /\ edit[u].step = "add"
  /\ \/ AddUser(u, edit[u].val) /\ Return(u, edit[u].fail)
     \/ AddUserMayFail(u) /\ UNCHANGED live /\ Return(u, TRUE)
  /\ UNCHANGED <<want, cfg, running, need, manual, checkTime, req, phase,
                 by, built, history>>

\* the controllers call SetToNeedRestart after the service has returned
SetToNeedRestart ==
  /\ owed
  /\ need' = TRUE
  /\ owed' = FALSE
  /\ UNCHANGED <<want, cfg, live, running, manual, checkTime, req, phase,
                 by, built, edit, history>>

\* XraySettingController.updateSetting saves the template ...
SaveXraySetting(v) ==
  /\ edit[Static].step = "none"
  /\ v # want[Static]
  /\ want' = [want EXCEPT ![Static] = v]
  /\ edit' = [edit EXCEPT ![Static] =
                [step |-> "check", val |-> v, fail |-> FALSE]]
  /\ Races(Static, Reloading)
  /\ UNCHANGED <<cfg, live, running, need, manual, checkTime, req, phase,
                 by, built, owed, lapsed>>

\* ... and asks a running core to take it
ApplySetting ==
  /\ edit[Static].step = "check"
  /\ edit' = [edit EXCEPT ![Static] = NoEdit]
  /\ IF running THEN Asks("setting") ELSE UNCHANGED req
  /\ UNCHANGED <<want, cfg, live, running, need, manual, checkTime, phase, by,
                 built, owed, history>>

-----------------------------------------------------------------------------
(***************************************************************************)
(* disableInvalidClients: a depleted client is removed through the API     *)
(* and disabled in the database, in one transaction of the writer.  It     *)
(* runs from the traffic poll, from NodeTrafficSyncJob and inside          *)
(* GetXrayConfig; only the first keeps its needRestart.                    *)
(***************************************************************************)
Deplete(u) ==
  /\ want[u] # Absent
  /\ want' = [want EXCEPT ![u] = Absent]
  /\ Races(u, Reloading \/ edit[u].step # "none")

\* XrayTrafficJob, which may be set to restart when it disabled a client
PollDisables(u) ==
  /\ running
  /\ Deplete(u)
  /\ \/ RemoveUser(u) /\ UNCHANGED owed
     \/ ApiMayFail /\ UNCHANGED live /\ owed' = TRUE
  /\ ~Busy("tick")
  /\ UNCHANGED req \/ Asks("tick")
  /\ UNCHANGED <<cfg, running, need, manual, checkTime, phase, by, built,
                 edit, lapsed>>

\* NodeTrafficSyncJob drops needRestart, and may be set to force a restart
NodePollDisables(u) ==
  /\ Deplete(u)
  /\ \/ RemoveUser(u) /\ UNCHANGED lapsed
     \/ ApiMayFail /\ UNCHANGED live /\ lapsed' = TRUE
  /\ ~Busy("node")
  /\ UNCHANGED req \/ Asks("node")
  /\ UNCHANGED <<cfg, running, need, manual, checkTime, phase, by, built, edit,
                 owed>>

\* GetXrayConfig calls AddTraffic(nil, nil) before it reads the clients
ConfigDisables(u) ==
  /\ phase = "locked"
  /\ Deplete(u)
  /\ RemoveUser(u) \/ (ApiMayFail /\ UNCHANGED live)
  /\ UNCHANGED <<cfg, running, need, manual, checkTime, req, phase, by, built,
                 edit, owed, lapsed>>

-----------------------------------------------------------------------------
(***************************************************************************)
(* Who asks for a restart.                                                 *)
(***************************************************************************)
\* every 30 seconds: IsNeedRestartAndSetFalse, then RestartXray(false)
RestartCron ==
  /\ ~Busy("cron")
  /\ need
  /\ need' = FALSE
  /\ Asks("cron")
  /\ UNCHANGED <<want, cfg, live, running, manual, checkTime, phase, by, built,
                 edit, owed, history>>

DidXrayCrash == ~running /\ ~manual

\* a check that never starts counting again
CheckNoReset ==
  /\ ~Busy("job")
  /\ checkTime' = IF DidXrayCrash THEN checkTime + 1 ELSE 0
  /\ IF DidXrayCrash /\ checkTime >= 1 THEN Asks("job") ELSE UNCHANGED req
  /\ UNCHANGED <<want, cfg, live, running, need, manual, phase, by, built, edit,
                 owed, history>>

\* a check that starts counting again every time
CheckForgets ==
  /\ ~Busy("job")
  /\ checkTime' = 0
  /\ IF DidXrayCrash /\ checkTime = 1 THEN Asks("job") ELSE UNCHANGED req
  /\ UNCHANGED <<want, cfg, live, running, need, manual, phase, by, built, edit,
                 owed, history>>

\* every second: two crashed checks in a row ask for a restart
CheckXrayRunning ==
  /\ ~Busy("job")
  /\ checkTime' = IF DidXrayCrash THEN (checkTime + 1) % 2 ELSE 0
  /\ IF DidXrayCrash /\ checkTime = 1 THEN Asks("job") ELSE UNCHANGED req
  /\ UNCHANGED <<want, cfg, live, running, need, manual, phase, by, built, edit,
                 owed, history>>

\* RestartXrayService, /restart of the bot, SIGUSR1: RestartXray(true)
AdminRestart ==
  /\ ~Busy("admin")
  /\ Asks("admin")
  /\ UNCHANGED <<want, cfg, live, running, need, manual, checkTime, phase, by,
                 built, edit, owed, history>>

StopXray ==
  /\ phase = "idle"
  /\ manual' = TRUE
  /\ running' = FALSE
  /\ live' = Nothing
  /\ UNCHANGED <<want, cfg, need, checkTime, req, phase, by, built,
                 edit, owed, history>>

\* the core exits by itself
Crash ==
  /\ running
  /\ running' = FALSE
  /\ live' = Nothing
  /\ UNCHANGED <<want, cfg, need, manual, checkTime, req, phase, by, built,
                 edit, owed, history>>

-----------------------------------------------------------------------------
(***************************************************************************)
(* RestartXray, one step per stretch between two points where another      *)
(* goroutine's database write or API call can come in.                     *)
(***************************************************************************)
RestartXray(c) ==
  /\ phase = "idle"
  /\ c \in req
  /\ req' = req \ {c}
  /\ by' = c
  /\ phase' = "locked"
  /\ manual' = FALSE
  /\ UNCHANGED <<want, cfg, live, running, need, checkTime, built,
                 edit, owed, history>>

Unlock == phase' = "idle" /\ by' = "nobody"

\* an error reaches the caller; only the polls set the flag again
Fail ==
  /\ Unlock
  /\ owed' = (owed \/ by \in AskAgain)

GetXrayConfig ==
  /\ phase = "locked"
  /\ phase' = "built"
  /\ built' = want
  /\ lapsed' = FALSE
  /\ raced' = {p \in raced : edit[p].step # "none"}
  /\ UNCHANGED <<want, cfg, live, running, need, manual, checkTime, req, by,
                 edit, owed>>

GetXrayConfigFails ==
  /\ "config" \in Faults
  /\ phase = "locked"
  /\ Fail
  /\ lapsed' = (lapsed \/ by \notin AskAgain)
  /\ UNCHANGED <<want, cfg, live, running, need, manual, checkTime, req,
                 built, edit, raced>>

\* "It does not need to restart Xray"
KeepRunning ==
  /\ phase = "built"
  /\ running
  /\ by \notin ForceCallers
  /\ cfg = built
  /\ ~need
  /\ Unlock
  /\ UNCHANGED <<want, cfg, live, running, need, manual, checkTime, req,
                 built, edit, owed, history>>

\* a diff that takes every section for reloadable
HotAlways == by \notin ForceCallers /\ cfg # built

\* ComputeHotDiff: only the users differ
HotApplicable == by \notin ForceCallers /\ cfg # built /\ cfg[Static] = built[Static]

\* diff.RemovedUsers: the users of the old configuration that changed
HotRemove ==
  /\ phase = "built"
  /\ running
  /\ HotApplicable
  /\ phase' = "hot"
  /\ live' = [p \in Parts |-> IF cfg[p] # built[p] /\ cfg[p] # Absent
                              THEN Absent ELSE live[p]]
  /\ UNCHANGED <<want, cfg, running, need, manual, checkTime, req, by, built,
                 edit, owed, history>>

\* diff.AddedUsers through addUserReconciling, then p.SetConfig
HotAdd ==
  /\ phase = "hot"
  /\ running
  /\ Unlock
  /\ live' = [p \in Parts |-> IF cfg[p] # built[p] /\ built[p] # Absent
                              THEN built[p] ELSE live[p]]
  /\ cfg' = built
  /\ UNCHANGED <<want, running, need, manual, checkTime, req, built,
                 edit, owed, history>>

\* p.Stop: after a failed hot apply, or because nothing less will do
StopProcess ==
  /\ \/ phase = "hot" /\ ApiMayFail
     \/ phase = "built" /\ ~running
     \/ phase = "built" /\ running
        /\ \/ by \in ForceCallers
           \/ cfg = built /\ need
           \/ cfg # built /\ cfg[Static] # built[Static]
           \/ HotApplicable /\ ApiMayFail
  /\ phase' = "start"
  /\ running' = FALSE
  /\ live' = Nothing
  /\ UNCHANGED <<want, cfg, need, manual, checkTime, req, by, built,
                 edit, owed, history>>

\* p = NewProcess(xrayConfig); p.Start()
StartProcess ==
  /\ phase = "start"
  /\ Unlock
  /\ cfg' = built
  /\ running' = TRUE
  /\ live' = built
  /\ UNCHANGED <<want, need, manual, checkTime, req,
                 built, edit, owed, history>>

StartProcessFails ==
  /\ "start" \in Faults
  /\ phase = "start"
  /\ Fail
  /\ cfg' = built
  /\ UNCHANGED <<want, live, running, need, manual, checkTime, req,
                 built, edit, history>>

-----------------------------------------------------------------------------
Restart ==
  \/ \E c \in Callers : RestartXray(c)
  \/ GetXrayConfig \/ GetXrayConfigFails
  \/ KeepRunning \/ HotRemove \/ HotAdd
  \/ StopProcess \/ StartProcess \/ StartProcessFails

Next ==
  \/ \E u \in Users, v \in Keys \cup {Absent} : CommitClient(u, v)
  \/ \E u \in Users : PushRemove(u) \/ PushAdd(u)
  \/ SetToNeedRestart
  \/ \E v \in Sections : SaveXraySetting(v)
  \/ ApplySetting
  \/ \E u \in Users : PollDisables(u) \/ NodePollDisables(u) \/ ConfigDisables(u)
  \/ RestartCron \/ CheckXrayRunning \/ AdminRestart
  \/ StopXray \/ Crash
  \/ Restart

Spec == Init /\ [][Next]_vars

(***************************************************************************)
(* The goroutines of a request and of a restart run on, cron runs its jobs *)
(* again and again, and the lock, when free, goes to some waiter.  Nothing *)
(* makes an administrator, a depletion, a crash or a repair happen.        *)
(***************************************************************************)
Fairness ==
  /\ \A u \in Users : WF_vars(PushRemove(u) \/ PushAdd(u))
  /\ WF_vars(SetToNeedRestart)
  /\ WF_vars(ApplySetting)
  /\ WF_vars(RestartCron)
  /\ WF_vars(CheckXrayRunning)
  /\ WF_vars(Restart)

FairSpec == Spec /\ Fairness

-----------------------------------------------------------------------------
(***************************************************************************)
(* Properties                                                              *)
(***************************************************************************)

\* nothing that could still change the core is under way
Quiescent ==
  /\ phase = "idle"
  /\ req = {}
  /\ ~need
  /\ ~owed
  /\ \A p \in Parts : edit[p].step = "none"

\* Whatever calls to the core's API fail and whatever changes while a restart or
\* a push is under way, a part that stays wrong after every request and restart
\* has finished is one for which the snapshot p.config already says what the
\* database says: no other difference escapes RestartXray, unless the database
\* could not be read, the failed call was that of NodeTrafficSyncJob, or that
\* very part changed behind the restart that read the database last, or behind
\* the push of an edit.
OnlyMaskedDrift ==
  running /\ Quiescent /\ ~lapsed =>
    \A p \in Parts : live[p] # want[p] => cfg[p] = want[p] \/ p \in raced

\* The snapshot and the core never disagree on the sections that only a
\* restart changes.
StaticMatches == running => live[Static] = cfg[Static]

\* A crashed core is running again, unless someone stops it.
CrashRecovered == DidXrayCrash ~> running \/ manual

\* part p of the running core is wrong, and the snapshot shows it or a request is
\* about to push what the database says
Noticed(p) ==
  /\ running /\ live[p] # want[p]
  /\ \/ cfg[p] # want[p]
     \/ edit[p].step # "none" /\ edit[p].val = want[p]

\* Such a part is brought into line, unless the core goes down or the database
\* changes it behind a restart or a push.
DriftHeals ==
  \A p \in Parts :
    ~lapsed /\ p \notin raced /\ Noticed(p)
      ~> live[p] = want[p] \/ ~running \/ p \in raced

\* Where no call of the panel fails but those to a core that is down, the
\* reconciliation heals: a crash is answered by a restart, and a drift of a
\* running core that the snapshot shows or an edit is about to push by a reload
\* or by that push, whoever else edits, depletes, stops or restarts.
Recovers == CrashRecovered /\ DriftHeals

=============================================================================
