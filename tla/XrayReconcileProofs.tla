------------------------ MODULE XrayReconcileProofs ------------------------
(***************************************************************************)
(* Proofs about XrayReconcile: its type invariant, the agreement of        *)
(* snapshot and core on the static sections, and what can stay wrong in a  *)
(* running core, for any users, credentials and sections.                  *)
(***************************************************************************)
EXTENDS XrayReconcile, TLAPS

\* Every reachable state has the types of the code's variables.
THEOREM Typing == Spec => []TypeOK
<1>1. Init => TypeOK
  <2> SUFFICES ASSUME Init PROVE TypeOK
    OBVIOUS
  <2>1. NoEdit \in [step : Steps, val : Vals, fail : BOOLEAN]
    BY DEF NoEdit, Steps, Vals
  <2>2. edit \in [Parts -> [step : Steps, val : Vals, fail : BOOLEAN]]
    BY <2>1 DEF Init
  <2>3. want \in Configs /\ cfg \in Configs /\ built \in Configs /\ live \in [Parts -> Vals]
    BY DEF Init, Configs
  <2>4. /\ checkTime \in 0 .. 1 /\ req \subseteq Callers
        /\ phase \in Phases /\ by \in Callers \cup {"nobody"}
    BY DEF Init, Callers, Phases
  <2>5. /\ running \in BOOLEAN /\ need \in BOOLEAN /\ manual \in BOOLEAN
        /\ owed \in BOOLEAN /\ lapsed \in BOOLEAN /\ raced \subseteq Parts
    BY DEF Init
  <2> QED BY <2>2, <2>3, <2>4, <2>5 DEF TypeOK
<1>2. TypeOK /\ [Next]_vars => TypeOK'
  <2> SUFFICES ASSUME TypeOK, [Next]_vars PROVE TypeOK'
    OBVIOUS
  <2>0. UNCHANGED vars => TypeOK'
    BY DEF vars, history, TypeOK
  <2> USE DEF TypeOK, history
  <2>1. ASSUME NEW u \in Users, NEW v \in Keys \cup {Absent}, CommitClient(u, v) PROVE TypeOK'
    <3>1. want' \in Configs
      BY <2>1, ConstantsAssumption DEF CommitClient, Configs, Parts, Vals
    <3>2. edit' \in [Parts -> [step : Steps, val : Vals, fail : BOOLEAN]]
      BY <2>1 DEF CommitClient, Steps, Parts, Vals
    <3>3. raced' \subseteq Parts
      BY <2>1 DEF CommitClient, Races, Parts
    <3> QED BY <2>1, <3>1, <3>2, <3>3 DEF CommitClient
  <2>2. ASSUME NEW u \in Users, PushRemove(u) PROVE TypeOK'
    <3>1. PICK failed \in BOOLEAN :
            /\ IF failed THEN ApiMayFail /\ UNCHANGED live ELSE RemoveUser(u)
            /\ IF edit[u].val = Absent
               THEN Return(u, failed)
               ELSE /\ edit' = [edit EXCEPT ![u] =
                              [step |-> "add", val |-> edit[u].val, fail |-> failed]]
                    /\ UNCHANGED owed
      BY <2>2 DEF PushRemove
    <3>2. live' \in [Parts -> Vals]
      BY <3>1 DEF RemoveUser, Vals
    <3>3. edit' \in [Parts -> [step : Steps, val : Vals, fail : BOOLEAN]]
      <4>1. NoEdit \in [step : Steps, val : Vals, fail : BOOLEAN]
        BY DEF NoEdit, Steps, Vals
      <4>2. [step |-> "add", val |-> edit[u].val, fail |-> failed]
              \in [step : Steps, val : Vals, fail : BOOLEAN]
        BY DEF Steps, Parts
      <4> QED BY <3>1, <4>1, <4>2 DEF Return
    <3>4. owed' \in BOOLEAN
      BY <3>1 DEF Return
    <3> QED BY <2>2, <3>2, <3>3, <3>4 DEF PushRemove
  <2>3. ASSUME NEW u \in Users, PushAdd(u) PROVE TypeOK'
    <3>1. live' \in [Parts -> Vals]
      BY <2>3 DEF PushAdd, AddUser, Parts
    <3>2. edit' \in [Parts -> [step : Steps, val : Vals, fail : BOOLEAN]]
      <4>1. NoEdit \in [step : Steps, val : Vals, fail : BOOLEAN]
        BY DEF NoEdit, Steps, Vals
      <4> QED BY <2>3, <4>1 DEF PushAdd, Return
    <3>3. edit[u].fail \in BOOLEAN
      BY DEF Parts
    <3>4. owed' \in BOOLEAN
      BY <2>3, <3>3 DEF PushAdd, Return
    <3> QED BY <2>3, <3>1, <3>2, <3>4 DEF PushAdd
  <2>4. ASSUME SetToNeedRestart PROVE TypeOK'
    BY <2>4 DEF SetToNeedRestart
  <2>5. ASSUME NEW v \in Sections, SaveXraySetting(v) PROVE TypeOK'
    <3>1. want' \in Configs
      BY <2>5, ConstantsAssumption DEF SaveXraySetting, Configs, Parts, Vals
    <3>2. edit' \in [Parts -> [step : Steps, val : Vals, fail : BOOLEAN]]
      BY <2>5 DEF SaveXraySetting, Steps, Parts, Vals
    <3>3. raced' \subseteq Parts
      BY <2>5 DEF SaveXraySetting, Races, Parts
    <3> QED BY <2>5, <3>1, <3>2, <3>3 DEF SaveXraySetting
  <2>6. ASSUME ApplySetting PROVE TypeOK'
    <3>1. edit' \in [Parts -> [step : Steps, val : Vals, fail : BOOLEAN]]
      BY <2>6 DEF ApplySetting, NoEdit, Steps, Parts, Vals
    <3>2. req' \subseteq Callers
      BY <2>6 DEF ApplySetting, Asks, Callers
    <3> QED BY <2>6, <3>1, <3>2 DEF ApplySetting
  <2>7. ASSUME NEW u \in Users, PollDisables(u) \/ NodePollDisables(u) \/ ConfigDisables(u)
        PROVE TypeOK'
    <3>1. want' \in Configs
      BY <2>7, ConstantsAssumption
         DEF PollDisables, NodePollDisables, ConfigDisables, Deplete, Configs, Parts, Vals
    <3>2. live' \in [Parts -> Vals]
      BY <2>7 DEF PollDisables, NodePollDisables, ConfigDisables, RemoveUser, Vals
    <3>3. req' \subseteq Callers /\ owed' \in BOOLEAN /\ lapsed' \in BOOLEAN
      BY <2>7 DEF PollDisables, NodePollDisables, ConfigDisables, Asks, Callers
    <3>4. raced' \subseteq Parts
      BY <2>7 DEF PollDisables, NodePollDisables, ConfigDisables, Deplete, Races, Parts
    <3> QED BY <2>7, <3>1, <3>2, <3>3, <3>4 DEF PollDisables, NodePollDisables, ConfigDisables
  <2>8. ASSUME RestartCron \/ CheckXrayRunning \/ AdminRestart \/ StopXray \/ Crash
        PROVE TypeOK'
    <3>1. req' \subseteq Callers
      BY <2>8 DEF RestartCron, CheckXrayRunning, AdminRestart, StopXray, Crash, Asks, Callers
    <3>2. live' \in [Parts -> Vals]
      BY <2>8 DEF RestartCron, CheckXrayRunning, AdminRestart, StopXray, Crash, Nothing, Vals
    <3>3. checkTime' \in 0 .. 1
      BY <2>8 DEF RestartCron, CheckXrayRunning, AdminRestart, StopXray, Crash
    <3> QED BY <2>8, <3>1, <3>2, <3>3
            DEF RestartCron, CheckXrayRunning, AdminRestart, StopXray, Crash
  <2>9. ASSUME Restart PROVE TypeOK'
    <3>1. live' \in [Parts -> Vals] /\ cfg' \in Configs /\ built' \in Configs
      BY <2>9 DEF Restart, RestartXray, GetXrayConfig, GetXrayConfigFails, KeepRunning,
                  HotRemove, HotAdd, StopProcess, StartProcess, StartProcessFails,
                  Nothing, Configs, Vals
    <3>2. req' \subseteq Callers /\ by' \in Callers \cup {"nobody"} /\ phase' \in Phases
      BY <2>9 DEF Restart, RestartXray, GetXrayConfig, GetXrayConfigFails, KeepRunning,
                  HotRemove, HotAdd, StopProcess, StartProcess, StartProcessFails,
                  Fail, Unlock, Phases
    <3>3. running' \in BOOLEAN /\ manual' \in BOOLEAN /\ owed' \in BOOLEAN /\ lapsed' \in BOOLEAN
      BY <2>9 DEF Restart, RestartXray, GetXrayConfig, GetXrayConfigFails, KeepRunning,
                  HotRemove, HotAdd, StopProcess, StartProcess, StartProcessFails, Fail, Unlock
    <3>5. raced' \subseteq Parts
      BY <2>9 DEF Restart, RestartXray, GetXrayConfig, GetXrayConfigFails, KeepRunning,
                  HotRemove, HotAdd, StopProcess, StartProcess, StartProcessFails
    <3>4. UNCHANGED <<want, need, checkTime, edit>>
      BY <2>9 DEF Restart, RestartXray, GetXrayConfig, GetXrayConfigFails, KeepRunning,
                  HotRemove, HotAdd, StopProcess, StartProcess, StartProcessFails
    <3> QED BY <3>1, <3>2, <3>3, <3>4, <3>5
  <2> QED BY <2>0, <2>1, <2>2, <2>3, <2>4, <2>5, <2>6, <2>7, <2>8, <2>9 DEF Next
<1> QED BY <1>1, <1>2, PTL DEF Spec

-----------------------------------------------------------------------------
\* HotAdd runs only over a snapshot with the static sections it builds, and
\* NewProcess replaces the snapshot only when the old process is gone
StaticInv ==
  /\ running => live[Static] = cfg[Static]
  /\ phase = "hot" => cfg[Static] = built[Static]
  /\ phase = "start" => ~running

\* The snapshot p.config and the core never disagree on the sections that
\* only a restart changes, whatever fails and whatever overlaps.
THEOREM StaticAgreement == Spec => []StaticMatches
<1>1. Init => StaticInv
  BY DEF Init, StaticInv
<1>2. TypeOK /\ StaticInv /\ [Next]_vars => StaticInv'
  <2> SUFFICES ASSUME TypeOK, StaticInv, [Next]_vars PROVE StaticInv'
    OBVIOUS
  <2> USE DEF StaticInv
  <2>t. live \in [Parts -> Vals] /\ Static \in Parts /\ \A u \in Users : u # Static
    BY ConstantsAssumption DEF TypeOK, Parts
  <2>0. UNCHANGED vars => StaticInv'
    BY DEF vars
  <2>1. ASSUME NEW u \in Users, NEW v \in Keys \cup {Absent}, CommitClient(u, v) PROVE StaticInv'
    BY <2>1 DEF CommitClient
  <2>2. ASSUME NEW u \in Users, PushRemove(u) \/ PushAdd(u) PROVE StaticInv'
    <3>1. live'[Static] = live[Static] /\ UNCHANGED <<running, cfg, built, phase>>
      BY <2>2, <2>t DEF PushRemove, PushAdd, RemoveUser, AddUser
    <3> QED BY <3>1
  <2>3. ASSUME SetToNeedRestart \/ ApplySetting PROVE StaticInv'
    BY <2>3 DEF SetToNeedRestart, ApplySetting
  <2>4. ASSUME NEW v \in Sections, SaveXraySetting(v) PROVE StaticInv'
    BY <2>4 DEF SaveXraySetting
  <2>5. ASSUME NEW u \in Users, PollDisables(u) \/ NodePollDisables(u) \/ ConfigDisables(u)
        PROVE StaticInv'
    <3>1. live'[Static] = live[Static] /\ UNCHANGED <<running, cfg, built, phase>>
      BY <2>5, <2>t DEF PollDisables, NodePollDisables, ConfigDisables, RemoveUser
    <3> QED BY <3>1
  <2>6. ASSUME RestartCron \/ CheckXrayRunning \/ AdminRestart \/ StopXray \/ Crash
        PROVE StaticInv'
    BY <2>6 DEF RestartCron, CheckXrayRunning, AdminRestart, StopXray, Crash
  <2>7. ASSUME Restart PROVE StaticInv'
    <3>1. CASE HotRemove
      BY <3>1, <2>t DEF HotRemove, HotApplicable
    <3>2. CASE HotAdd
      BY <3>2, <2>t DEF HotAdd, Unlock
    <3>3. ASSUME NEW c \in Callers, RestartXray(c) PROVE StaticInv'
      BY <3>3 DEF RestartXray
    <3>4. CASE GetXrayConfig \/ GetXrayConfigFails \/ KeepRunning
      BY <3>4 DEF GetXrayConfig, GetXrayConfigFails, KeepRunning, Fail, Unlock
    <3>5. CASE StopProcess \/ StartProcess
      BY <3>5 DEF StopProcess, StartProcess, Unlock
    <3>6. CASE StartProcessFails
      BY <3>6 DEF StartProcessFails, Fail, Unlock
    <3> QED BY <2>7, <3>1, <3>2, <3>3, <3>4, <3>5, <3>6 DEF Restart
  <2> QED BY <2>0, <2>1, <2>2, <2>3, <2>4, <2>5, <2>6, <2>7 DEF Next
<1>3. StaticInv => StaticMatches
  BY DEF StaticInv, StaticMatches
<1> QED BY <1>1, <1>2, <1>3, Typing, PTL DEF Spec

-----------------------------------------------------------------------------
\* something that could still change part p is under way
Pending(p) ==
  \/ edit[p].step # "none"
  \/ owed
  \/ need
  \/ "cron" \in req
  \/ "setting" \in req
  \/ phase # "idle"

\* a difference that the snapshot does not hide is being dealt with, or was left
\* by a failure that set no flag or by a change behind a restart or a push
MaskInv ==
  running => \A p \in Parts :
    live[p] = want[p] \/ cfg[p] = want[p] \/ Pending(p) \/ lapsed \/ p \in raced

\* the configuration built and the client being pushed are still those of the
\* database, save for the parts that changed behind them
FreshInv ==
  /\ Reloading => \A p \in Parts : built[p] = want[p] \/ p \in raced
  /\ phase = "start" => ~running
  /\ \A u \in Users :
       edit[u].step \in {"remove", "add"} => edit[u].val = want[u] \/ u \in raced

\* a change of part p that is recorded in raced when a restart has read the
\* database leaves what was built right for the other parts
LEMMA BuiltFresh ==
  ASSUME FreshInv, NEW p \in Parts, UNCHANGED <<phase, built>>,
         \A q \in Parts : q # p => want'[q] = want[q],
         raced \subseteq raced', Reloading => p \in raced'
  PROVE  Reloading' => \A q \in Parts : built'[q] = want'[q] \/ q \in raced'
BY DEF FreshInv, Reloading

\* Every step keeps FreshInv.
LEMMA Freshness ==
  ASSUME TypeOK, FreshInv, [Next]_vars
  PROVE  FreshInv'
<1>t. /\ edit \in [Parts -> [step : Steps, val : Vals, fail : BOOLEAN]]
      /\ want \in [Parts -> Vals]
      /\ Static \in Parts /\ Users \subseteq Parts /\ Static \notin Users
  BY ConstantsAssumption DEF TypeOK, Parts, Configs
<1>0. UNCHANGED <<want, running, phase, built, edit, raced>> => FreshInv'
  BY DEF FreshInv, Reloading
<1>1. ASSUME NEW u \in Users, NEW v \in Keys \cup {Absent}, CommitClient(u, v) PROVE FreshInv'
  <2>1. /\ UNCHANGED <<running, phase, built>>
        /\ raced \subseteq raced' /\ (Reloading => u \in raced')
    BY <1>1 DEF CommitClient, Races
  <2>2. \A p \in Parts : p # u => want'[p] = want[p] /\ edit'[p] = edit[p]
    BY <1>1, <1>t DEF CommitClient
  <2>3. edit'[u].val = want'[u]
    BY <1>1, <1>t DEF CommitClient
  <2>4. Reloading' => \A q \in Parts : built'[q] = want'[q] \/ q \in raced'
    BY <2>1, <2>2, <1>t, BuiltFresh
  <2> QED BY <1>t, <2>1, <2>2, <2>3, <2>4 DEF FreshInv
<1>2. ASSUME NEW u \in Users, PushRemove(u) PROVE FreshInv'
  <2>1. UNCHANGED <<want, running, phase, built, raced>>
    BY <1>2 DEF PushRemove, history
  <2>2. edit[u].val = want[u] \/ u \in raced
    BY <1>2 DEF PushRemove, FreshInv
  <2>3. edit'[u].step = "none" \/ edit'[u].val = edit[u].val
    BY <1>2, <1>t DEF PushRemove, Return, NoEdit
  <2>4. \A p \in Parts : p # u => edit'[p] = edit[p]
    BY <1>2, <1>t DEF PushRemove, Return
  <2> QED BY <1>t, <2>1, <2>2, <2>3, <2>4 DEF FreshInv, Reloading
<1>3. ASSUME NEW u \in Users, PushAdd(u) PROVE FreshInv'
  <2>1. UNCHANGED <<want, running, phase, built, raced>>
    BY <1>3 DEF PushAdd, history
  <2>2. edit'[u].step = "none" /\ \A p \in Parts : p # u => edit'[p] = edit[p]
    BY <1>3, <1>t DEF PushAdd, Return, NoEdit
  <2> QED BY <1>t, <2>1, <2>2 DEF FreshInv, Reloading
<1>4. ASSUME NEW v \in Sections, SaveXraySetting(v) PROVE FreshInv'
  <2>1. /\ UNCHANGED <<running, phase, built>>
        /\ raced \subseteq raced' /\ (Reloading => Static \in raced')
    BY <1>4 DEF SaveXraySetting, Races
  <2>2. \A p \in Parts : p # Static => want'[p] = want[p] /\ edit'[p] = edit[p]
    BY <1>4, <1>t DEF SaveXraySetting
  <2>3. Reloading' => \A q \in Parts : built'[q] = want'[q] \/ q \in raced'
    BY <2>1, <2>2, <1>t, BuiltFresh
  <2> QED BY <1>t, <2>1, <2>2, <2>3 DEF FreshInv
<1>5. ASSUME ApplySetting PROVE FreshInv'
  <2>1. UNCHANGED <<want, running, phase, built, raced>>
    BY <1>5 DEF ApplySetting, history
  <2>2. \A p \in Parts : p # Static => edit'[p] = edit[p]
    BY <1>5, <1>t DEF ApplySetting
  <2> QED BY <1>t, <2>1, <2>2 DEF FreshInv, Reloading
<1>6. ASSUME NEW u \in Users, PollDisables(u) \/ NodePollDisables(u) \/ ConfigDisables(u)
      PROVE FreshInv'
  <2>1. /\ UNCHANGED <<running, phase, built, edit>>
        /\ raced \subseteq raced'
        /\ Reloading \/ edit[u].step # "none" => u \in raced'
    BY <1>6 DEF PollDisables, NodePollDisables, ConfigDisables, Deplete, Races
  <2>2. \A p \in Parts : p # u => want'[p] = want[p]
    BY <1>6, <1>t DEF PollDisables, NodePollDisables, ConfigDisables, Deplete
  <2>3. Reloading' => \A q \in Parts : built'[q] = want'[q] \/ q \in raced'
    BY <2>1, <2>2, <1>t, BuiltFresh
  <2> QED BY <1>t, <2>1, <2>2, <2>3 DEF FreshInv
<1>7. ASSUME StopXray \/ Crash PROVE FreshInv'
  BY <1>7 DEF StopXray, Crash, history, FreshInv, Reloading
<1>8. ASSUME Restart PROVE FreshInv'
  <2>1. CASE GetXrayConfig
    BY <2>1, <1>t DEF GetXrayConfig, FreshInv, Reloading
  <2>2. CASE HotRemove \/ StopProcess
    BY <2>2 DEF HotRemove, StopProcess, history, FreshInv, Reloading
  <2>3. CASE KeepRunning \/ HotAdd \/ StartProcess
    BY <2>3 DEF KeepRunning, HotAdd, StartProcess, Unlock, history, FreshInv, Reloading
  <2>4. CASE GetXrayConfigFails \/ StartProcessFails
    BY <2>4 DEF GetXrayConfigFails, StartProcessFails, Fail, Unlock, history, FreshInv, Reloading
  <2>5. ASSUME NEW c \in Callers, RestartXray(c) PROVE FreshInv'
    BY <2>5 DEF RestartXray, history, FreshInv, Reloading
  <2> QED BY <1>8, <2>1, <2>2, <2>3, <2>4, <2>5 DEF Restart
<1>9. SetToNeedRestart \/ RestartCron \/ CheckXrayRunning \/ AdminRestart \/ UNCHANGED vars
      => UNCHANGED <<want, running, phase, built, edit, raced>>
  BY DEF SetToNeedRestart, RestartCron, CheckXrayRunning, AdminRestart, vars, history
<1> QED BY <1>0, <1>1, <1>2, <1>3, <1>4, <1>5, <1>6, <1>7, <1>8, <1>9 DEF Next

\* a step that changes the database or the core in part u only, and leaves
\* something pending if it does not make them agree there
LEMMA MaskOneUser ==
  ASSUME MaskInv, NEW u \in Users,
         UNCHANGED <<cfg, running, need, phase>>,
         req \subseteq req',
         owed => owed',
         lapsed => lapsed',
         raced \subseteq raced',
         \A p \in Parts : p # u => live'[p] = live[p] /\ want'[p] = want[p] /\ edit'[p] = edit[p],
         live'[u] = want'[u] \/ Pending(u)' \/ lapsed' \/ u \in raced' \/ ~running
  PROVE  MaskInv'
BY DEF MaskInv, Pending

\* Every step keeps MaskInv.
LEMMA Masking ==
  ASSUME TypeOK, FreshInv, MaskInv, [Next]_vars
  PROVE  MaskInv'
<1> USE DEF history, Races, Asks
<1>t. /\ edit \in [Parts -> [step : Steps, val : Vals, fail : BOOLEAN]]
      /\ want \in [Parts -> Vals] /\ live \in [Parts -> Vals]
      /\ Static \in Parts /\ Users \subseteq Parts /\ Static \notin Users
  BY ConstantsAssumption DEF TypeOK, Parts, Configs
<1>0. UNCHANGED vars => MaskInv'
  BY DEF vars, history, MaskInv, Pending
<1>1. ASSUME NEW u \in Users, NEW v \in Keys \cup {Absent}, CommitClient(u, v) PROVE MaskInv'
  <2>1. edit'[u].step # "none"
    BY <1>1, <1>t DEF CommitClient
  <2>2. Pending(u)'
    BY <2>1 DEF Pending
  <2>3. \A p \in Parts : p # u => live'[p] = live[p] /\ want'[p] = want[p] /\ edit'[p] = edit[p]
    BY <1>1, <1>t DEF CommitClient
  <2> QED BY <1>1, <2>2, <2>3, MaskOneUser DEF CommitClient
<1>2. ASSUME NEW u \in Users, PushRemove(u) PROVE MaskInv'
  <2>1. PICK failed \in BOOLEAN :
          /\ IF failed THEN ApiMayFail /\ UNCHANGED live ELSE RemoveUser(u)
          /\ IF edit[u].val = Absent
             THEN Return(u, failed)
             ELSE /\ edit' = [edit EXCEPT ![u] =
                              [step |-> "add", val |-> edit[u].val, fail |-> failed]]
                  /\ UNCHANGED owed
    BY <1>2 DEF PushRemove
  <2>2. \A p \in Parts : p # u => live'[p] = live[p] /\ want'[p] = want[p] /\ edit'[p] = edit[p]
    BY <1>2, <2>1, <1>t DEF PushRemove, RemoveUser, Return
  <2>3. CASE edit[u].val # Absent
    <3>1. edit'[u].step # "none"
      BY <2>1, <2>3, <1>t
    <3>2. Pending(u)'
      BY <3>1 DEF Pending
    <3> QED BY <1>2, <2>1, <2>2, <2>3, <3>2, MaskOneUser DEF PushRemove
  <2>4. CASE edit[u].val = Absent /\ failed
    <3>1. Pending(u)'
      BY <2>1, <2>4 DEF Return, Pending
    <3> QED BY <1>2, <2>1, <2>2, <2>4, <3>1, MaskOneUser DEF PushRemove, Return
  <2>5. CASE edit[u].val = Absent /\ ~failed
    <3>1. live'[u] = Absent
      BY <2>1, <2>5, <1>t DEF RemoveUser
    <3>2. want'[u] = Absent \/ u \in raced'
      BY <1>2, <2>5 DEF PushRemove, FreshInv
    <3> QED BY <1>2, <2>1, <2>2, <2>5, <3>1, <3>2, MaskOneUser DEF PushRemove, Return
  <2> QED BY <2>3, <2>4, <2>5
<1>3. ASSUME NEW u \in Users, PushAdd(u) PROVE MaskInv'
  <2>1. \A p \in Parts : p # u => live'[p] = live[p] /\ want'[p] = want[p] /\ edit'[p] = edit[p]
    BY <1>3, <1>t DEF PushAdd, AddUser, Return
  <2>2. CASE AddUser(u, edit[u].val)
    <3>1. live'[u] = want'[u] \/ u \in raced'
      BY <1>3, <2>2, <1>t DEF PushAdd, AddUser, FreshInv
    <3> QED BY <1>3, <2>1, <3>1, MaskOneUser DEF PushAdd, Return
  <2>3. CASE Return(u, TRUE)
    <3>1. Pending(u)'
      BY <2>3 DEF Return, Pending
    <3> QED BY <1>3, <2>1, <2>3, <3>1, MaskOneUser DEF PushAdd, Return
  <2> QED BY <1>3, <2>2, <2>3 DEF PushAdd
<1>4. ASSUME SetToNeedRestart PROVE MaskInv'
  BY <1>4 DEF SetToNeedRestart, MaskInv, Pending
<1>5. ASSUME NEW v \in Sections, SaveXraySetting(v) PROVE MaskInv'
  <2>1. Pending(Static)'
    BY <1>5, <1>t DEF SaveXraySetting, Pending
  <2>2. \A p \in Parts : p # Static => want'[p] = want[p] /\ edit'[p] = edit[p]
    BY <1>5, <1>t DEF SaveXraySetting
  <2> QED BY <1>5, <2>1, <2>2 DEF SaveXraySetting, MaskInv, Pending
<1>6. ASSUME ApplySetting PROVE MaskInv'
  <2>1. \A p \in Parts : p # Static => edit'[p] = edit[p]
    BY <1>6, <1>t DEF ApplySetting
  <2> QED BY <1>6, <2>1 DEF ApplySetting, MaskInv, Pending
<1>7. ASSUME NEW u \in Users, PollDisables(u) \/ NodePollDisables(u) \/ ConfigDisables(u)
      PROVE MaskInv'
  <2>1. \A p \in Parts : p # u => live'[p] = live[p] /\ want'[p] = want[p] /\ edit'[p] = edit[p]
    BY <1>7, <1>t DEF PollDisables, NodePollDisables, ConfigDisables, Deplete, RemoveUser
  <2>2. /\ UNCHANGED <<cfg, running, need, phase>>
        /\ req \subseteq req'
        /\ owed => owed'
        /\ lapsed => lapsed'
        /\ raced \subseteq raced'
        /\ want'[u] = Absent
    BY <1>7, <1>t DEF PollDisables, NodePollDisables, ConfigDisables, Deplete
  <2>3. RemoveUser(u) => live'[u] = Absent
    BY <1>t DEF RemoveUser
  <2>4. RemoveUser(u) \/ owed' \/ lapsed' \/ phase' = "locked" \/ ~running
    BY <1>7 DEF PollDisables, NodePollDisables, ConfigDisables, ApiMayFail
  <2>5. live'[u] = want'[u] \/ Pending(u)' \/ lapsed' \/ ~running
    BY <2>2, <2>3, <2>4 DEF Pending
  <2> QED BY <2>1, <2>2, <2>5, MaskOneUser
<1>8. ASSUME RestartCron \/ CheckXrayRunning \/ AdminRestart \/ StopXray \/ Crash
      PROVE MaskInv'
  <2>1. CASE RestartCron
    BY <2>1 DEF RestartCron, MaskInv, Pending
  <2>2. CASE CheckXrayRunning
    <3>1. req \subseteq req'
      BY <2>2 DEF CheckXrayRunning
    <3>2. UNCHANGED <<want, cfg, live, running, need, phase, edit, owed, lapsed, raced>>
      BY <2>2 DEF CheckXrayRunning
    <3> QED BY <3>1, <3>2 DEF MaskInv, Pending
  <2>3. CASE AdminRestart
    BY <2>3 DEF AdminRestart, MaskInv, Pending
  <2>4. CASE StopXray \/ Crash
    BY <2>4 DEF StopXray, Crash, MaskInv
  <2> QED BY <1>8, <2>1, <2>2, <2>3, <2>4
<1>9. ASSUME Restart PROVE MaskInv'
  <2>1. ASSUME NEW c \in Callers, RestartXray(c) PROVE MaskInv'
    BY <2>1 DEF RestartXray, MaskInv, Pending
  <2>2. CASE GetXrayConfig \/ HotRemove \/ StopProcess
    BY <2>2 DEF GetXrayConfig, HotRemove, StopProcess, MaskInv, Pending
  <2>3. CASE KeepRunning \/ HotAdd
    BY <2>3 DEF KeepRunning, HotAdd, FreshInv, Reloading, MaskInv
  <2>4. CASE StartProcess
    BY <2>4 DEF StartProcess, FreshInv, Reloading, MaskInv
  <2>5. CASE StartProcessFails
    BY <2>5 DEF StartProcessFails, FreshInv, MaskInv
  <2>6. CASE GetXrayConfigFails
    BY <2>6 DEF GetXrayConfigFails, Fail, MaskInv, Pending
  <2> QED BY <1>9, <2>1, <2>2, <2>3, <2>4, <2>5, <2>6 DEF Restart
<1> QED BY <1>0, <1>1, <1>2, <1>3, <1>4, <1>5, <1>6, <1>7, <1>8, <1>9 DEF Next

\* When the panel starts nothing is under way and core and database agree.
LEMMA InitInv == Init => FreshInv /\ MaskInv
<1> SUFFICES ASSUME Init PROVE FreshInv /\ MaskInv
  OBVIOUS
<1>1. \A p \in Parts : edit[p].step = "none"
  BY DEF Init, NoEdit
<1> QED BY <1>1 DEF Init, FreshInv, MaskInv, Parts

\* Whatever fails and in whatever order edits, polls and restarts run, the only
\* lasting difference between the core and the database is one that the snapshot
\* hides, one in a part that the database changed behind a restart or a push, or
\* one that a failure left of which RestartXray is never told.
THEOREM LastingDriftIsMasked == Spec => []OnlyMaskedDrift
<1>1. TypeOK /\ TypeOK' /\ FreshInv /\ MaskInv /\ [Next]_vars => FreshInv' /\ MaskInv'
  BY Freshness, Masking
<1>2. MaskInv => OnlyMaskedDrift
  BY DEF MaskInv, OnlyMaskedDrift, Quiescent, Pending
<1> QED BY <1>1, <1>2, InitInv, Typing, PTL DEF Spec

=============================================================================
