-------------------------- MODULE LifecycleProofs --------------------------
(***************************************************************************)
(* Proofs about Lifecycle for every set of accounts and every bound on     *)
(* launches.  In every environment the control state keeps its types, the  *)
(* registry never holds two objects with one id (IInv) and a sealed account*)
(* stays down; in the environments a theorem names, registered accounts are*)
(* supervised (SInv) and no account has two supervisors.                   *)
(*                                                                         *)
(* UniqueIds is not inductive: inserting a launch's object keeps it only   *)
(* because that object is not in the registry yet (Fresh), and typing needs*)
(* the ids of launches that have begun to be accounts (Named).             *)
(***************************************************************************)
EXTENDS Lifecycle, TLAPS

\* Whatever acts on an account has a launch that has begun, under its id.
Named ==
  /\ \A l \in Launch : run[l].pc # "none" => run[l].id \in Account
  /\ \A l \in Launch :
       run[l].pc \notin {"none", "get", "done"} => run[l].obj \in Object
  /\ \A l \in Launch : proc[l] # "none" => run[l].pc # "none"
  /\ \A l \in Launch : reaper[l] # "off" => run[l].pc # "none"
  /\ \A l \in Launch : health[l].pc # "idle" => run[l].pc # "none"
  /\ \A o \in Object : inst[o].cmd # 0 => proc[inst[o].cmd] # "none"
  /\ \A o \in instances : inst[o].id \in Account
  /\ \A a \in Account : inst[a].id = a

\* An object enters the registry only after it is created.
Fresh ==
  /\ \A l \in Launch : l > started => run[l].pc = "none"
  /\ \A l \in Launch :
       run[l].pc \in {"none", "get", "insert"} => l \notin instances
  /\ toRestore \cap instances = {}

IInv == TypeOK /\ Named /\ Fresh /\ UniqueIds

-----------------------------------------------------------------------------
(***************************************************************************)
(* Typing of the updates the actions make.                                 *)
(***************************************************************************)

\* Moving a launch to another control state keeps the launches typed.
LEMMA RunPcTyped ==
  ASSUME NEW r \in [Launch -> RunType], NEW l \in Launch, NEW p \in RunPc
  PROVE  [r EXCEPT ![l].pc = p] \in [Launch -> RunType]
  BY DEF RunType

\* So does the step of LaunchGet, which also records the object it works on.
LEMMA RunObjTyped ==
  ASSUME NEW r \in [Launch -> RunType], NEW l \in Launch, NEW p \in RunPc,
         NEW o \in Object \cup {None}
  PROVE  [r EXCEPT ![l].pc = p, ![l].obj = o] \in [Launch -> RunType]
  BY DEF RunType

\* So does the step of LaunchSpawn, which records the port of the process.
LEMMA RunPortTyped ==
  ASSUME NEW r \in [Launch -> RunType], NEW l \in Launch, NEW p \in RunPc,
         NEW n \in Launch \cup {0}
  PROVE  [r EXCEPT ![l].pc = p, ![l].port = n] \in [Launch -> RunType]
  BY DEF RunType

\* Beginning a launch for an account keeps the launches typed.
LEMMA BeginTyped ==
  ASSUME NEW r \in [Launch -> RunType], NEW id \in Account, NEW b \in BOOLEAN,
         started \in 0..MaxLaunch, started < MaxLaunch
  PROVE  Begin(r, id, b) \in [Launch -> RunType]
  BY LaunchAssumption DEF Begin, RunType, RunPc, Launch

\* Setting NoRestart keeps the objects typed.
LEMMA InstNoRestart ==
  ASSUME NEW f \in [Object -> InstanceType], NEW o, NEW b \in BOOLEAN
  PROVE  [f EXCEPT ![o].noRestart = b] \in [Object -> InstanceType]
  BY DEF InstanceType

\* Setting NoRestart and Port keeps the objects typed.
LEMMA InstNoRestartPort ==
  ASSUME NEW f \in [Object -> InstanceType], NEW o, NEW b \in BOOLEAN,
         NEW n \in Launch \cup {0}
  PROVE  [f EXCEPT ![o].noRestart = b, ![o].port = n]
           \in [Object -> InstanceType]
  BY DEF InstanceType

\* Setting Id and Port of a new object keeps the objects typed.
LEMMA InstIdPort ==
  ASSUME NEW f \in [Object -> InstanceType], NEW o,
         NEW id \in Account \cup {None}, NEW n \in Launch \cup {0}
  PROVE  [f EXCEPT ![o].id = id, ![o].port = n] \in [Object -> InstanceType]
  BY DEF InstanceType

\* Setting Region keeps the objects typed.
LEMMA InstRegion ==
  ASSUME NEW f \in [Object -> InstanceType], NEW o, NEW b \in BOOLEAN
  PROVE  [f EXCEPT ![o].region = b] \in [Object -> InstanceType]
  BY DEF InstanceType

\* Setting Cmd keeps the objects typed.
LEMMA InstCmd ==
  ASSUME NEW f \in [Object -> InstanceType], NEW o, NEW n \in Launch \cup {0}
  PROVE  [f EXCEPT ![o].cmd = n] \in [Object -> InstanceType]
  BY DEF InstanceType

\* Moving a failure handler to another control state keeps it typed.
LEMMA HealthPcTyped ==
  ASSUME NEW h \in [Launch -> HealthType], NEW l \in Launch, NEW p \in HealthPc
  PROVE  [h EXCEPT ![l].pc = p] \in [Launch -> HealthType]
  BY DEF HealthType

\* Moving a logout to another control state keeps it typed.
LEMMA LogoutPcTyped ==
  ASSUME NEW h \in [Account -> LogoutType], NEW a \in Account, NEW p \in LogoutPc
  PROVE  [h EXCEPT ![a].pc = p] \in [Account -> LogoutType]
  BY DEF LogoutType

\* Starting or ending a logout keeps it typed.
LEMMA LogoutTyped ==
  ASSUME NEW h \in [Account -> LogoutType], NEW a \in Account,
         NEW p \in LogoutPc, NEW o \in Object \cup {None}
  PROVE  [h EXCEPT ![a] = [pc |-> p, obj |-> o]] \in [Account -> LogoutType]
  BY DEF LogoutType

\* A registry lookup returns nil or a registered object.
LEMMA GetInstanceTyped ==
  ASSUME TypeOK, NEW id
  PROVE  GetInstance(id) \in Object \cup {None}
  BY DEF GetInstance, Registered, TypeOK

\* The lookup of a registered id returns a registered object with that id.
LEMMA GetInstanceRegistered ==
  ASSUME NEW id, Registered(id)
  PROVE  GetInstance(id) \in instances /\ inst[GetInstance(id)].id = id
  BY DEF GetInstance, Registered

\* KillWrapper changes process states only.
LEMMA KilledTyped ==
  ASSUME TypeOK, NEW id
  PROVE  Killed(id) \in [Launch -> ProcState]
  BY DEF Killed, TypeOK, ProcState

\* KillWrapper kills a process that was started.
LEMMA KilledStarted ==
  ASSUME TypeOK, Named, NEW id, NEW m \in Launch
  PROVE  (Killed(id)[m] # "none") <=> (proc[m] # "none")
<1>1. CASE CanKill(id)
  <2>1. GetInstance(id) \in Object /\ inst[GetInstance(id)].cmd # 0
    BY <1>1, GetInstanceTyped DEF CanKill
  <2>2. proc[inst[GetInstance(id)].cmd] # "none"
    BY <2>1 DEF Named
  <2> QED
    BY <1>1, <2>2 DEF Killed, TypeOK
<1>2. CASE ~CanKill(id)
  BY <1>2 DEF Killed
<1> QED
  BY <1>1, <1>2

\* The outcome of a login keeps the history typed.
LEMMA ConcludedTyped ==
  ASSUME TypeOK, NEW a, NEW outcome \in ToldStates
  PROVE  Concluded(a, outcome) \in [Account -> ToldStates]
  BY DEF Concluded, TypeOK

\* The list of the registered instances holds accounts only.
LEMMA CopiedTyped ==
  ASSUME IInv, NEW s, CopyInstances(s)
  PROVE  list' \in [Saver -> SUBSET Account]
<1>1. Listed \in SUBSET Account
  BY DEF IInv, Named, Listed
<1> QED
  BY <1>1 DEF IInv, TypeOK, CopyInstances

\* So does the file it is written to.
LEMMA WrittenTyped ==
  ASSUME IInv, NEW s \in Saver, WriteInstances(s)
  PROVE  /\ file' \subseteq Account /\ list' \in [Saver -> SUBSET Account]
         /\ stale' \subseteq Account
  BY DEF IInv, TypeOK, WriteInstances

-----------------------------------------------------------------------------

\* Restore keeps the invariant.
LEMMA RestoreStep == ASSUME IInv, NEW a \in Account, Restore(a) PROVE IInv'
<1> USE DEF registry, launches, children, requests, disk, startup, history
<1>1. PICK b \in BOOLEAN : inst' = [inst EXCEPT ![a].region = b]
  BY DEF Restore
<1>2. inst' \in [Object -> InstanceType]
  BY <1>1, InstRegion DEF IInv, TypeOK, Restore
<1>3. run' \in [Launch -> RunType]
  BY <1>1, BeginTyped DEF IInv, TypeOK, Restore, RunPc
<1>4. started' \in 0..MaxLaunch
  BY LaunchAssumption DEF IInv, TypeOK, Restore
<1>5. instances' \subseteq Object /\ unhealthyOnce' \subseteq Account
  BY DEF IInv, TypeOK, Restore, InsertInstance, Object
<1>6. TypeOK'
  BY <1>1, <1>2, <1>3, <1>4, <1>5 DEF IInv, TypeOK, Restore
<1>7. started + 1 \in Launch /\ started' = started + 1
  BY LaunchAssumption DEF IInv, TypeOK, Restore, Launch
<1>8. \A m \in Launch :
         /\ m = started + 1 => run'[m].pc = "get" /\ run'[m].id = a
         /\ m # started + 1 => run'[m] = run[m]
  BY <1>1, <1>7 DEF IInv, TypeOK, Restore, Begin
<1>9. \A m \in Launch : m \in Nat /\ started \in Nat
  BY LaunchAssumption DEF IInv, TypeOK, Launch
<1>10. Named'
  <2>1. \A m \in Launch : run'[m].pc # "none" => run'[m].id \in Account
    BY <1>1, <1>7, <1>8 DEF IInv, Named
  <2>2. \A m \in Launch :
           run'[m].pc \notin {"none", "get", "done"} => run'[m].obj \in Object
    BY <1>1, <1>7, <1>8 DEF IInv, Named
  <2>3. \A m \in Launch : run[m].pc # "none" => run'[m].pc # "none"
    BY <1>1, <1>7, <1>8 DEF IInv, Named
  <2> QED
    <3>1. \A o \in Object : inst'[o].id = inst[o].id /\ inst'[o].cmd = inst[o].cmd
      BY <1>1 DEF IInv, TypeOK
    <3>2. UNCHANGED <<proc, reaper, health>> /\ instances' \subseteq instances \cup {a}
      BY DEF Restore, InsertInstance
    <3>3. a \in Object /\ instances' \subseteq Object /\ Account \subseteq Object
      BY <1>5 DEF Object
    <3> QED
      BY <2>1, <2>2, <2>3, <3>1, <3>2, <3>3 DEF IInv, Named
<1>11. Fresh'
  <2>1. \A m \in Launch : m > started + 1 => run'[m].pc = "none"
    BY <1>1, <1>7, <1>8, <1>9 DEF IInv, Fresh
  <2>2. \A m \in Launch :
           run'[m].pc \in {"none", "get", "insert"} => m \notin instances
    BY <1>1, <1>7, <1>8, <1>9 DEF IInv, Fresh
  <2> QED
    <3>1. toRestore' = toRestore \ {a} /\ instances' \subseteq instances \cup {a}
      BY DEF Restore, InsertInstance
    <3>2. a \notin Launch
      BY NamesAssumption, LaunchAssumption DEF Launch
    <3> QED
      BY <1>7, <2>1, <2>2, <3>1, <3>2 DEF IInv, Fresh
<1>12. UniqueIds'
  BY <1>1, <1>7, <1>8, <1>9, NamesAssumption
  DEF IInv, Restore, InsertInstance, Registered, Named, Fresh, UniqueIds
<1> QED
  BY <1>6, <1>10, <1>11, <1>12 DEF IInv

\* ManagerRestart keeps the invariant: nothing of the old manager acts.
LEMMA ManagerRestartStep == ASSUME IInv, ManagerRestart PROVE IInv'
<1> USE DEF registry, launches, children, requests, disk, startup, history
<1>1. inst' \in [Object -> InstanceType] /\ (\A a \in Account : inst'[a].id = a)
  BY DEF ManagerRestart, NoObjects, InstanceType, Object
<1>2. \A o \in Object : inst'[o].cmd = 0
  BY DEF ManagerRestart, NoObjects
<1>3. \A l \in Launch :
        IF run[l].pc = "none" THEN run'[l] = run[l]
                              ELSE run'[l] = [run[l] EXCEPT !.pc = "done"]
  BY DEF ManagerRestart
<1>4. run' \in [Launch -> RunType]
  <2>1. \A l \in Launch : run[l] \in RunType
    BY DEF IInv, TypeOK
  <2>2. \A l \in Launch : [run[l] EXCEPT !.pc = "done"] \in RunType
    BY <2>1 DEF RunType, RunPc
  <2> QED
    BY <2>1, <2>2 DEF ManagerRestart
<1>5. \A l \in Launch : /\ run'[l].id = run[l].id
                        /\ run'[l].pc = IF run[l].pc = "none" THEN "none" ELSE "done"
  <2>1. \A l \in Launch : run[l] \in RunType
    BY DEF IInv, TypeOK
  <2> QED
    BY <1>3, <2>1 DEF RunType
<1>6. proc' \in [Launch -> ProcState] /\ (\A l \in Launch : proc'[l] # "none" => proc[l] # "none")
  BY DEF IInv, TypeOK, ManagerRestart, ProcState
<1>7. /\ reaper' \in [Launch -> ReaperState] /\ (\A l \in Launch : reaper'[l] = "off")
      /\ health' \in [Launch -> HealthType] /\ (\A l \in Launch : health'[l].pc = "idle")
      /\ login' \in [Account -> LoginPc] /\ logout' \in [Account -> LogoutType]
  BY DEF ManagerRestart, Unwatched, NoHealth, NoLogin, NoLogout, ReaperState,
         HealthType, HealthPc, LoginPc, LogoutType, LogoutPc
<1>8. told' \in [Account -> ToldStates]
  BY DEF IInv, TypeOK, ManagerRestart, ToldStates
<1>9. /\ instances' = {} /\ unhealthyOnce' = {} /\ ready' \in BOOLEAN
      /\ toStart' = file /\ toRestore' = file /\ UNCHANGED <<started, tokens, file>>
  BY DEF ManagerRestart
<1>10. TypeOK'
  <2>1. list' \in [Saver -> SUBSET Account] /\ UNCHANGED stale
    BY DEF ManagerRestart, NoSaves
  <2> QED
    BY <1>1, <1>4, <1>6, <1>7, <1>8, <1>9, <2>1 DEF IInv, TypeOK
<1>11. Named'
  BY <1>1, <1>2, <1>5, <1>6, <1>7, <1>9 DEF IInv, Named
<1>12. Fresh' /\ UniqueIds'
  BY <1>5, <1>9 DEF IInv, Fresh, UniqueIds
<1> QED
  BY <1>10, <1>11, <1>12 DEF IInv

\* LoginCheck keeps the invariant.
LEMMA LoginCheckStep == ASSUME IInv, NEW a \in Account, LoginCheck(a) PROVE IInv'
<1> USE DEF registry, launches, children, requests, disk, startup, history
<1>1. login' \in [Account -> LoginPc]
  BY DEF IInv, TypeOK, LoginCheck, LoginPc
<1>2. told' \in [Account -> ToldStates]
  BY DEF IInv, TypeOK, LoginCheck, ToldStates
<1>3. TypeOK'
  BY <1>1, <1>2 DEF IInv, TypeOK, LoginCheck
<1>4. Named' /\ Fresh' /\ UniqueIds'
  BY NamesAssumption, LaunchAssumption
  DEF IInv, TypeOK, LoginCheck, Named, Fresh, UniqueIds, Launch, Object, InstanceType, RunType, HealthType
<1> QED
  BY <1>3, <1>4 DEF IInv

\* LoginWipe keeps the invariant.
LEMMA LoginWipeStep == ASSUME IInv, NEW a \in Account, LoginWipe(a) PROVE IInv'
<1> USE DEF registry, launches, children, requests, disk, startup, history
<1>1. login' \in [Account -> LoginPc]
  BY DEF IInv, TypeOK, LoginWipe, LoginPc
<1>2. TypeOK'
  BY <1>1 DEF IInv, TypeOK, LoginWipe
<1>3. Named' /\ Fresh' /\ UniqueIds'
  BY NamesAssumption, LaunchAssumption
  DEF IInv, TypeOK, LoginWipe, Named, Fresh, UniqueIds, Launch, Object, InstanceType, RunType, HealthType
<1> QED
  BY <1>2, <1>3 DEF IInv

\* LoginChildOk keeps the invariant.
LEMMA LoginChildOkStep == ASSUME IInv, NEW a \in Account, LoginChildOk(a) PROVE IInv'
<1> USE DEF registry, launches, children, requests, disk, startup, history
<1>1. run' \in [Launch -> RunType]
  BY BeginTyped DEF IInv, TypeOK, LoginChildOk
<1>2. login' \in [Account -> LoginPc]
  BY DEF IInv, TypeOK, LoginChildOk, LoginPc
<1>3. started' \in 0..MaxLaunch
  BY LaunchAssumption DEF IInv, TypeOK, LoginChildOk
<1>4. TypeOK'
  BY <1>1, <1>2, <1>3 DEF IInv, TypeOK, LoginChildOk
<1>5. started + 1 \in Launch /\ started' = started + 1
  BY LaunchAssumption DEF IInv, TypeOK, LoginChildOk, Launch
<1>6. \A m \in Launch :
         /\ m = started + 1 => run'[m].pc = "get" /\ run'[m].id = a
         /\ m # started + 1 => run'[m] = run[m]
  BY <1>5 DEF IInv, TypeOK, LoginChildOk, Begin
<1>7. \A m \in Launch : m \in Nat /\ started \in Nat
  BY LaunchAssumption DEF IInv, TypeOK, Launch
<1>8. Named'
  <2>1. \A m \in Launch : run'[m].pc # "none" => run'[m].id \in Account
    BY <1>5, <1>6 DEF IInv, Named
  <2>2. \A m \in Launch :
           run'[m].pc \notin {"none", "get", "done"} => run'[m].obj \in Object
    BY <1>5, <1>6 DEF IInv, Named
  <2>3. \A m \in Launch : run[m].pc # "none" => run'[m].pc # "none"
    BY <1>5, <1>6 DEF IInv, Named
  <2> QED
    BY <2>1, <2>2, <2>3 DEF IInv, Named, LoginChildOk
<1>9. Fresh'
  <2>1. \A m \in Launch : m > started + 1 => run'[m].pc = "none"
    BY <1>5, <1>6, <1>7 DEF IInv, Fresh
  <2>2. \A m \in Launch :
           run'[m].pc \in {"none", "get", "insert"} => m \notin instances
    BY <1>5, <1>6, <1>7 DEF IInv, Fresh
  <2> QED
    BY <1>5, <2>1, <2>2 DEF IInv, Fresh, LoginChildOk
<1>10. UniqueIds'
  BY <1>5, <1>6, <1>7
  DEF IInv, LoginChildOk, Named, Fresh, UniqueIds
<1> QED
  BY <1>4, <1>8, <1>9, <1>10 DEF IInv

\* LoginChildFails keeps the invariant.
LEMMA LoginChildFailsStep == ASSUME IInv, NEW a \in Account, LoginChildFails(a) PROVE IInv'
<1> USE DEF registry, launches, children, requests, disk, startup, history
<1>1. login' \in [Account -> LoginPc]
  BY DEF IInv, TypeOK, LoginChildFails, LoginPc
<1>2. told' \in [Account -> ToldStates]
  BY ConcludedTyped DEF IInv, TypeOK, LoginChildFails, ToldStates
<1>3. TypeOK'
  BY <1>1, <1>2 DEF IInv, TypeOK, LoginChildFails
<1>4. Named' /\ Fresh' /\ UniqueIds'
  BY NamesAssumption, LaunchAssumption
  DEF IInv, TypeOK, LoginChildFails, Named, Fresh, UniqueIds, Launch, Object, InstanceType, RunType, HealthType
<1> QED
  BY <1>3, <1>4 DEF IInv

\* LogoutGet keeps the invariant.
LEMMA LogoutGetStep == ASSUME IInv, NEW a \in Account, LogoutGet(a) PROVE IInv'
<1> USE DEF registry, launches, children, requests, disk, startup, history
<1>1. logout' \in [Account -> LogoutType]
  BY GetInstanceTyped, LogoutTyped DEF IInv, TypeOK, LogoutGet, LogoutPc
<1>2. TypeOK'
  BY <1>1 DEF IInv, TypeOK, LogoutGet
<1>3. Named' /\ Fresh' /\ UniqueIds'
  BY NamesAssumption, LaunchAssumption
  DEF IInv, TypeOK, LogoutGet, Named, Fresh, UniqueIds, Launch, Object, InstanceType, RunType, HealthType
<1> QED
  BY <1>2, <1>3 DEF IInv

\* LogoutMark keeps the invariant.
LEMMA LogoutMarkStep == ASSUME IInv, NEW a \in Account, LogoutMark(a) PROVE IInv'
<1> USE DEF registry, launches, children, requests, disk, startup, history
<1>1. inst' \in [Object -> InstanceType]
  BY InstNoRestart DEF IInv, TypeOK, LogoutMark
<1>2. logout' \in [Account -> LogoutType]
  BY LogoutPcTyped DEF IInv, TypeOK, LogoutMark, LogoutPc
<1>3. told' \in [Account -> ToldStates]
  BY DEF IInv, TypeOK, LogoutMark, ToldStates
<1>4. TypeOK'
  BY <1>1, <1>2, <1>3 DEF IInv, TypeOK, LogoutMark
<1>5. Named' /\ Fresh' /\ UniqueIds'
  BY NamesAssumption, LaunchAssumption
  DEF IInv, TypeOK, LogoutMark, Named, Fresh, UniqueIds, Launch, Object, InstanceType, RunType, HealthType
<1> QED
  BY <1>4, <1>5 DEF IInv

\* LogoutKill keeps the invariant.
LEMMA LogoutKillStep == ASSUME IInv, NEW a \in Account, LogoutKill(a) PROVE IInv'
<1> USE DEF registry, launches, children, requests, disk, startup, history
<1>1. proc' \in [Launch -> ProcState]
  BY KilledTyped DEF IInv, TypeOK, LogoutKill
<1>2. logout' \in [Account -> LogoutType]
  BY LogoutPcTyped DEF IInv, TypeOK, LogoutKill, LogoutPc
<1>3. TypeOK'
  BY <1>1, <1>2 DEF IInv, TypeOK, LogoutKill
<1>4. \A m \in Launch : (proc'[m] # "none") <=> (proc[m] # "none")
  BY KilledStarted DEF IInv, LogoutKill
<1>5. Named' /\ Fresh' /\ UniqueIds'
  BY <1>4, NamesAssumption, LaunchAssumption
  DEF IInv, TypeOK, LogoutKill, Named, Fresh, UniqueIds, Launch, Object, InstanceType, RunType, HealthType
<1> QED
  BY <1>3, <1>5 DEF IInv

\* LogoutKillFails keeps the invariant.
LEMMA LogoutKillFailsStep == ASSUME IInv, NEW a \in Account, LogoutKillFails(a) PROVE IInv'
<1> USE DEF registry, launches, children, requests, disk, startup, history
<1>1. logout' \in [Account -> LogoutType]
  BY LogoutTyped DEF IInv, TypeOK, LogoutKillFails, LogoutPc
<1>2. told' \in [Account -> ToldStates]
  BY DEF IInv, TypeOK, LogoutKillFails, ToldStates
<1>3. TypeOK'
  BY <1>1, <1>2 DEF IInv, TypeOK, LogoutKillFails
<1>4. Named' /\ Fresh' /\ UniqueIds'
  BY NamesAssumption, LaunchAssumption
  DEF IInv, TypeOK, LogoutKillFails, Named, Fresh, UniqueIds, Launch, Object, InstanceType, RunType, HealthType
<1> QED
  BY <1>3, <1>4 DEF IInv

\* LogoutWipe keeps the invariant.
LEMMA LogoutWipeStep == ASSUME IInv, NEW a \in Account, LogoutWipe(a) PROVE IInv'
<1> USE DEF registry, launches, children, requests, disk, startup, history
<1>1. logout' \in [Account -> LogoutType]
  BY LogoutPcTyped DEF IInv, TypeOK, LogoutWipe, LogoutPc
<1>2. TypeOK'
  BY <1>1 DEF IInv, TypeOK, LogoutWipe
<1>3. Named' /\ Fresh' /\ UniqueIds'
  BY NamesAssumption, LaunchAssumption
  DEF IInv, TypeOK, LogoutWipe, Named, Fresh, UniqueIds, Launch, Object, InstanceType, RunType, HealthType
<1> QED
  BY <1>2, <1>3 DEF IInv

\* LogoutWipePanics keeps the invariant.
LEMMA LogoutWipePanicsStep == ASSUME IInv, NEW a \in Account, LogoutWipePanics(a) PROVE IInv'
<1> USE DEF registry, launches, children, requests, disk, startup, history
<1>1. logout' \in [Account -> LogoutType]
  BY LogoutTyped DEF IInv, TypeOK, LogoutWipePanics, LogoutPc
<1>2. told' \in [Account -> ToldStates]
  BY DEF IInv, TypeOK, LogoutWipePanics, ToldStates
<1>3. TypeOK'
  BY <1>1, <1>2 DEF IInv, TypeOK, LogoutWipePanics
<1>4. Named' /\ Fresh' /\ UniqueIds'
  BY NamesAssumption, LaunchAssumption
  DEF IInv, TypeOK, LogoutWipePanics, Named, Fresh, UniqueIds, Launch, Object, InstanceType, RunType, HealthType
<1> QED
  BY <1>3, <1>4 DEF IInv

\* LogoutCopy keeps the invariant.
LEMMA LogoutCopyStep == ASSUME IInv, NEW a \in Account, LogoutCopy(a) PROVE IInv'
<1> USE DEF registry, launches, children, requests, disk, startup, history
<1>1. a \in Account
  OBVIOUS
<1>2. list' \in [Saver -> SUBSET Account]
  BY CopiedTyped DEF IInv, LogoutCopy
<1>3. logout' \in [Account -> LogoutType]
  BY LogoutPcTyped DEF IInv, TypeOK, LogoutCopy, LogoutPc
<1>4. TypeOK'
  BY <1>1, <1>2, <1>3 DEF IInv, TypeOK, LogoutCopy
<1>5. Named' /\ Fresh' /\ UniqueIds'
  BY <1>1, NamesAssumption, LaunchAssumption
  DEF IInv, TypeOK, LogoutCopy, Named, Fresh, UniqueIds, Launch, Object, InstanceType, RunType, HealthType
<1> QED
  BY <1>4, <1>5 DEF IInv

\* LogoutWrite keeps the invariant.
LEMMA LogoutWriteStep == ASSUME IInv, NEW a \in Account, LogoutWrite(a) PROVE IInv'
<1> USE DEF registry, launches, children, requests, disk, startup, history
<1>1. a \in Account
  OBVIOUS
<1>2. file' \subseteq Account /\ list' \in [Saver -> SUBSET Account] /\ stale' \subseteq Account
  BY WrittenTyped DEF IInv, LogoutWrite, Saver
<1>3. logout' \in [Account -> LogoutType] /\ told' \in [Account -> ToldStates]
  <2>1. logout' \in [Account -> LogoutType]
    BY LogoutTyped DEF IInv, TypeOK, LogoutWrite, LogoutPc
  <2>2. told' \in [Account -> ToldStates]
    BY DEF IInv, TypeOK, LogoutWrite, ToldStates
  <2> QED
    BY <2>1, <2>2
<1>4. TypeOK'
  BY <1>1, <1>2, <1>3 DEF IInv, TypeOK, LogoutWrite
<1>5. Named' /\ Fresh' /\ UniqueIds'
  BY <1>1, NamesAssumption, LaunchAssumption
  DEF IInv, TypeOK, LogoutWrite, Named, Fresh, UniqueIds, Launch, Object, InstanceType, RunType, HealthType
<1> QED
  BY <1>4, <1>5 DEF IInv

\* LaunchGet keeps the invariant.
LEMMA LaunchGetStep == ASSUME IInv, NEW l \in Launch, LaunchGet(l) PROVE IInv'
<1> USE DEF registry, launches, children, requests, disk, startup, history
<1>1. run[l].id \in Account
  BY DEF IInv, Named, LaunchGet
<1>2. GetInstance(run[l].id) \in Object \cup {None} /\ l \in Object
  BY GetInstanceTyped DEF IInv, Object
<1>3. run' \in [Launch -> RunType]
  <2>1. run \in [Launch -> RunType] /\ {"insert", "reset"} \subseteq RunPc
    BY DEF IInv, TypeOK, RunPc
  <2> QED
    BY <1>2, <2>1, RunObjTyped DEF LaunchGet
<1>4. TypeOK'
  BY <1>1, <1>2, <1>2, <1>3 DEF IInv, TypeOK, LaunchGet
<1>5. Named'
  BY <1>1, <1>2, GetInstanceRegistered, NamesAssumption, LaunchAssumption
  DEF IInv, TypeOK, LaunchGet, Registered, Named, Fresh, UniqueIds, Launch, Object, InstanceType, RunType, HealthType
<1>6. Fresh'
  BY <1>1, <1>2, GetInstanceRegistered, NamesAssumption, LaunchAssumption
  DEF IInv, TypeOK, LaunchGet, Registered, Named, Fresh, UniqueIds, Launch, Object, InstanceType, RunType, HealthType
<1>7. UniqueIds'
  BY <1>1, <1>2, GetInstanceRegistered, NamesAssumption, LaunchAssumption
  DEF IInv, TypeOK, LaunchGet, Registered, Named, Fresh, UniqueIds, Launch, Object, InstanceType, RunType, HealthType
<1> QED
  BY <1>4, <1>5, <1>6, <1>7 DEF IInv

\* LaunchInsert keeps the invariant.
LEMMA LaunchInsertStep == ASSUME IInv, NEW l \in Launch, LaunchInsert(l) PROVE IInv'
<1> USE DEF registry, launches, children, requests, disk, startup, history
<1>1. run[l].id \in Account
  BY DEF IInv, Named, LaunchInsert
<1>2. inst' \in [Object -> InstanceType]
  BY <1>1, InstIdPort DEF IInv, TypeOK, LaunchInsert, RunType, Object, FreshPort
<1>3. run' \in [Launch -> RunType]
  BY <1>1, RunPcTyped DEF IInv, TypeOK, LaunchInsert, RunPc
<1>4. TypeOK'
  <2>1. instances' \subseteq Object /\ unhealthyOnce' \subseteq Account
    BY DEF IInv, TypeOK, LaunchInsert, InsertInstance, Object
  <2> QED
    <3>1. UNCHANGED <<started, children, requests, disk, startup, history>>
      BY DEF LaunchInsert
    <3> QED
      BY <1>2, <1>3, <2>1, <3>1 DEF IInv, TypeOK
<1>5. Named'
  <2>1. \A o \in Object : /\ inst'[o].cmd = inst[o].cmd
                          /\ inst'[o].id = IF o = l THEN run[l].id ELSE inst[o].id
    BY <1>1 DEF IInv, TypeOK, LaunchInsert, InstanceType
  <2>2. \A m \in Launch : run'[m].id = run[m].id /\ run'[m].obj = run[m].obj
    BY DEF IInv, TypeOK, LaunchInsert, RunType
  <2>3. \A m \in Launch : run'[m].pc = IF m # l THEN run[m].pc
                                       ELSE IF run[l].login THEN "reset" ELSE "spawn"
    BY DEF IInv, TypeOK, LaunchInsert, RunType
  <2>4. /\ l \in Object \ Account /\ Account \subseteq Object /\ run[l].pc = "insert"
        /\ instances' \subseteq instances \cup {l} /\ instances \subseteq Object
        /\ UNCHANGED <<proc, reaper, health>>
    BY NamesAssumption, LaunchAssumption
    DEF IInv, TypeOK, LaunchInsert, InsertInstance, Launch, Object
  <2>5. run[l].obj \in Object
    BY <2>4 DEF IInv, Named
  <2> HIDE DEF registry, launches, children, requests, disk, startup, history
  <2> QED
    BY <1>1, <2>1, <2>2, <2>3, <2>4, <2>5 DEF IInv, Named
<1>6. Fresh'
  BY <1>1, NamesAssumption, LaunchAssumption
  DEF IInv, TypeOK, LaunchInsert, InsertInstance, Registered, Named, Fresh, UniqueIds, Launch, Object, InstanceType, RunType, HealthType
<1>7. UniqueIds'
  BY <1>1, NamesAssumption, LaunchAssumption
  DEF IInv, TypeOK, LaunchInsert, InsertInstance, Registered, Named, Fresh, UniqueIds, Launch, Object, InstanceType, RunType, HealthType
<1> QED
  BY <1>4, <1>5, <1>6, <1>7 DEF IInv

\* LaunchReset keeps the invariant.
LEMMA LaunchResetStep == ASSUME IInv, NEW l \in Launch, LaunchReset(l) PROVE IInv'
<1> USE DEF registry, launches, children, requests, disk, startup, history
<1>1. run[l].id \in Account /\ run[l].obj \in Object
  BY DEF IInv, Named, LaunchReset
<1>2. inst[run[l].obj].port \in Launch \cup {0}
  BY <1>1 DEF IInv, TypeOK, InstanceType
<1>3. inst' \in [Object -> InstanceType]
  <2> DEFINE n == IF run[l].login THEN inst[run[l].obj].port ELSE FreshPort(l)
  <2>1. inst \in [Object -> InstanceType]
    BY DEF IInv, TypeOK
  <2>2. n \in Launch \cup {0}
    BY <1>2 DEF FreshPort
  <2>3. inst' = [inst EXCEPT ![run[l].obj].noRestart = FALSE,
                             ![run[l].obj].port = n]
    <3>1. inst[run[l].obj] \in InstanceType
      BY <1>1, <2>1
    <3> QED
      BY <1>1, <2>1, <3>1 DEF LaunchReset, InstanceType
  <2> HIDE DEF n
  <2> QED
    BY <2>1, <2>2, <2>3, InstNoRestartPort
<1>4. run' \in [Launch -> RunType]
  BY <1>1, <1>2, RunPcTyped DEF IInv, TypeOK, LaunchReset, RunPc
<1>5. TypeOK'
  <2>1. UNCHANGED <<instances, unhealthyOnce, started, children, requests, disk, startup, history>>
    BY DEF LaunchReset
  <2> QED
    BY <1>3, <1>4, <2>1 DEF IInv, TypeOK
<1>6. Named' /\ Fresh' /\ UniqueIds'
  <2>1. Named'
    BY <1>1, <1>2, NamesAssumption, LaunchAssumption
    DEF IInv, TypeOK, LaunchReset, Named, Fresh, UniqueIds, Launch, Object, InstanceType, RunType, HealthType
  <2>2. Fresh'
    BY <1>1, <1>2, NamesAssumption, LaunchAssumption
    DEF IInv, TypeOK, LaunchReset, Named, Fresh, UniqueIds, Launch, Object, InstanceType, RunType, HealthType
  <2>3. UniqueIds'
    BY <1>1, <1>2, NamesAssumption, LaunchAssumption
    DEF IInv, TypeOK, LaunchReset, Named, Fresh, UniqueIds, Launch, Object, InstanceType, RunType, HealthType
  <2> QED
    BY <2>1, <2>2, <2>3
<1> QED
  BY <1>5, <1>6 DEF IInv

\* LaunchSpawn keeps the invariant.
LEMMA LaunchSpawnStep == ASSUME IInv, NEW l \in Launch, LaunchSpawn(l) PROVE IInv'
<1> USE DEF registry, launches, children, requests, disk, startup, history
<1>1. run[l].id \in Account /\ run[l].obj \in Object
  BY DEF IInv, Named, LaunchSpawn
<1>2. inst[run[l].obj].port \in Launch \cup {0}
  BY <1>1 DEF IInv, TypeOK, InstanceType
<1>3. inst' \in [Object -> InstanceType]
  BY <1>1, <1>2, InstCmd DEF IInv, TypeOK, LaunchSpawn
<1>4. run' \in [Launch -> RunType]
  <2>1. run' = [run EXCEPT ![l].pc = "poll", ![l].port = inst[run[l].obj].port]
    BY DEF LaunchSpawn
  <2>2. run \in [Launch -> RunType] /\ "poll" \in RunPc
    BY DEF IInv, TypeOK, RunPc
  <2> QED
    BY <1>2, <2>1, <2>2, RunPortTyped
<1>5. TypeOK'
  BY <1>1, <1>2, <1>3, <1>4 DEF IInv, TypeOK, LaunchSpawn, ProcState
<1>6. Named' /\ Fresh' /\ UniqueIds'
  BY <1>1, <1>2, NamesAssumption, LaunchAssumption
  DEF IInv, TypeOK, LaunchSpawn, Named, Fresh, UniqueIds, Launch, Object, InstanceType, RunType, HealthType
<1> QED
  BY <1>5, <1>6 DEF IInv

\* LaunchPollReady keeps the invariant.
LEMMA LaunchPollReadyStep == ASSUME IInv, NEW l \in Launch, LaunchPollReady(l) PROVE IInv'
<1> USE DEF registry, launches, children, requests, disk, startup, history
<1>1. run[l].id \in Account
  BY DEF IInv, Named, LaunchPollReady
<1>2. inst' \in [Object -> InstanceType]
  BY <1>1, InstRegion DEF IInv, TypeOK, LaunchPollReady
<1>3. run' \in [Launch -> RunType]
  BY <1>1, RunPcTyped DEF IInv, TypeOK, LaunchPollReady, RunPc
<1>4. TypeOK'
  BY <1>1, <1>2, <1>3 DEF IInv, TypeOK, LaunchPollReady
<1>5. Named' /\ Fresh' /\ UniqueIds'
  BY <1>1, NamesAssumption, LaunchAssumption
  DEF IInv, TypeOK, LaunchPollReady, Named, Fresh, UniqueIds, Launch, Object, InstanceType, RunType, HealthType
<1> QED
  BY <1>4, <1>5 DEF IInv

\* LaunchFails keeps the invariant.
LEMMA LaunchFailsStep == ASSUME IInv, NEW l \in Launch, LaunchFails(l) PROVE IInv'
<1> USE DEF registry, launches, children, requests, disk, startup, history
<1>1. run[l].id \in Account
  BY DEF IInv, Named, LaunchFails
<1>2. run' \in [Launch -> RunType]
  BY <1>1, RunPcTyped DEF IInv, TypeOK, LaunchFails, RunPc
<1>3. TypeOK'
  BY <1>1, <1>2 DEF IInv, TypeOK, LaunchFails
<1>4. Named' /\ Fresh' /\ UniqueIds'
  BY <1>1, NamesAssumption, LaunchAssumption
  DEF IInv, TypeOK, LaunchFails, Named, Fresh, UniqueIds, Launch, Object, InstanceType, RunType, HealthType
<1> QED
  BY <1>3, <1>4 DEF IInv

\* LaunchArmReaper keeps the invariant.
LEMMA LaunchArmReaperStep == ASSUME IInv, NEW l \in Launch, LaunchArmReaper(l) PROVE IInv'
<1> USE DEF registry, launches, children, requests, disk, startup, history
<1>1. run[l].id \in Account
  BY DEF IInv, Named, LaunchArmReaper
<1>2. run' \in [Launch -> RunType]
  BY <1>1, RunPcTyped DEF IInv, TypeOK, LaunchArmReaper, RunPc
<1>3. TypeOK'
  BY <1>1, <1>2 DEF IInv, TypeOK, LaunchArmReaper, ReaperState
<1>4. Named' /\ Fresh' /\ UniqueIds'
  BY <1>1, NamesAssumption, LaunchAssumption
  DEF IInv, TypeOK, LaunchArmReaper, Named, Fresh, UniqueIds, Launch, Object, InstanceType, RunType, HealthType
<1> QED
  BY <1>3, <1>4 DEF IInv

\* LaunchCount keeps the invariant.
LEMMA LaunchCountStep == ASSUME IInv, NEW l \in Launch, LaunchCount(l) PROVE IInv'
<1> USE DEF registry, launches, children, requests, disk, startup, history
<1>1. run[l].id \in Account
  BY DEF IInv, Named, LaunchCount
<1>2. run' \in [Launch -> RunType]
  BY <1>1, RunPcTyped DEF IInv, TypeOK, LaunchCount, RunPc
<1>3. TypeOK'
  BY <1>1, <1>2 DEF IInv, TypeOK, LaunchCount
<1>4. Named' /\ Fresh' /\ UniqueIds'
  BY <1>1, NamesAssumption, LaunchAssumption
  DEF IInv, TypeOK, LaunchCount, Named, Fresh, UniqueIds, Launch, Object, InstanceType, RunType, HealthType
<1> QED
  BY <1>3, <1>4 DEF IInv

\* LaunchCopy keeps the invariant.
LEMMA LaunchCopyStep == ASSUME IInv, NEW l \in Launch, LaunchCopy(l) PROVE IInv'
<1> USE DEF registry, launches, children, requests, disk, startup, history
<1>1. run[l].id \in Account
  BY DEF IInv, Named, LaunchCopy
<1>2. list' \in [Saver -> SUBSET Account]
  BY CopiedTyped DEF IInv, LaunchCopy
<1>3. run' \in [Launch -> RunType]
  BY RunPcTyped DEF IInv, TypeOK, LaunchCopy, RunPc
<1>4. TypeOK'
  BY <1>1, <1>2, <1>3 DEF IInv, TypeOK, LaunchCopy
<1>5. Named' /\ Fresh' /\ UniqueIds'
  BY <1>1, NamesAssumption, LaunchAssumption
  DEF IInv, TypeOK, LaunchCopy, Named, Fresh, UniqueIds, Launch, Object, InstanceType, RunType, HealthType
<1> QED
  BY <1>4, <1>5 DEF IInv

\* LaunchWrite keeps the invariant.
LEMMA LaunchWriteStep == ASSUME IInv, NEW l \in Launch, LaunchWrite(l) PROVE IInv'
<1> USE DEF registry, launches, children, requests, disk, startup, history
<1>1. run[l].id \in Account
  BY DEF IInv, Named, LaunchWrite
<1>2. file' \subseteq Account /\ list' \in [Saver -> SUBSET Account] /\ stale' \subseteq Account
  BY WrittenTyped DEF IInv, LaunchWrite, Saver
<1>3. /\ run' \in [Launch -> RunType] /\ login' \in [Account -> LoginPc]
      /\ told' \in [Account -> ToldStates]
  <2>1. run' \in [Launch -> RunType]
    BY RunPcTyped DEF IInv, TypeOK, LaunchWrite, RunPc
  <2>2. login' \in [Account -> LoginPc]
    BY <1>1 DEF IInv, TypeOK, LaunchWrite, LoginPc
  <2>3. told' \in [Account -> ToldStates]
    BY ConcludedTyped DEF IInv, LaunchWrite, ToldStates
  <2> QED
    BY <2>1, <2>2, <2>3
<1>4. TypeOK'
  BY <1>1, <1>2, <1>3 DEF IInv, TypeOK, LaunchWrite
<1>5. Named' /\ Fresh' /\ UniqueIds'
  BY <1>1, NamesAssumption, LaunchAssumption
  DEF IInv, TypeOK, LaunchWrite, Named, Fresh, UniqueIds, Launch, Object, InstanceType, RunType, HealthType
<1> QED
  BY <1>4, <1>5 DEF IInv

\* LaunchRetry keeps the invariant.
LEMMA LaunchRetryStep == ASSUME IInv, NEW l \in Launch, LaunchRetry(l) PROVE IInv'
<1> USE DEF registry, launches, children, requests, disk, startup, history
<1>1. run[l].id \in Account /\ run[l].pc = "failed"
  BY DEF IInv, Named, LaunchRetry
<1>2. [run EXCEPT ![l].pc = "done"] \in [Launch -> RunType]
  BY RunPcTyped DEF IInv, TypeOK, RunPc
<1>3. run' \in [Launch -> RunType]
  BY <1>1, <1>2, RunPcTyped, BeginTyped DEF IInv, TypeOK, LaunchRetry, RunPc
<1>4. started' \in 0..MaxLaunch
  BY LaunchAssumption DEF IInv, TypeOK, LaunchRetry
<1>5. TypeOK'
  BY <1>1, <1>2, <1>3, <1>4 DEF IInv, TypeOK, LaunchRetry
<1>6. started + 1 \in Launch /\ started' = started + 1
  BY LaunchAssumption DEF IInv, TypeOK, LaunchRetry, Launch
<1> DEFINE r == [run EXCEPT ![l].pc = "done"]
<1>7. \A m \in Launch : /\ r[m].id = run[m].id /\ r[m].obj = run[m].obj
                         /\ r[m].pc = IF m = l THEN "done" ELSE run[m].pc
  BY DEF IInv, TypeOK, RunType
<1>8. run' = Begin(r, run[l].id, FALSE) /\ r \in [Launch -> RunType]
  BY <1>1, <1>2 DEF LaunchRetry
<1> HIDE DEF r
<1>9. \A m \in Launch :
         /\ m = started + 1 => run'[m].pc = "get" /\ run'[m].id = run[l].id
         /\ m # started + 1 => /\ run'[m].id = run[m].id
                                /\ run'[m].obj = run[m].obj
                                /\ run'[m].pc = IF m = l THEN "done"
                                                         ELSE run[m].pc
  BY <1>1, <1>2, <1>7, <1>8, <1>6 DEF Begin
<1>10. \A m \in Launch : m \in Nat /\ started \in Nat
  BY LaunchAssumption DEF IInv, TypeOK, Launch
<1>11. Named'
  <2>1. \A m \in Launch : run'[m].pc # "none" => run'[m].id \in Account
    BY <1>1, <1>6, <1>9 DEF IInv, Named
  <2>2. \A m \in Launch :
           run'[m].pc \notin {"none", "get", "done"} => run'[m].obj \in Object
    BY <1>1, <1>6, <1>9 DEF IInv, Named
  <2>3. \A m \in Launch : run[m].pc # "none" => run'[m].pc # "none"
    BY <1>1, <1>6, <1>9 DEF IInv, Named
  <2> QED
    BY <2>1, <2>2, <2>3 DEF IInv, Named, LaunchRetry
<1>12. Fresh'
  <2>1. \A m \in Launch : m > started + 1 => run'[m].pc = "none"
    BY <1>1, <1>6, <1>9, <1>10 DEF IInv, Fresh
  <2>2. \A m \in Launch :
           run'[m].pc \in {"none", "get", "insert"} => m \notin instances
    BY <1>1, <1>6, <1>9, <1>10 DEF IInv, Fresh
  <2> QED
    BY <1>6, <2>1, <2>2 DEF IInv, Fresh, LaunchRetry
<1>13. UniqueIds'
  BY <1>1, <1>2, <1>7, <1>8, <1>6, <1>9, <1>10
  DEF IInv, LaunchRetry, TypeOK, Named, Fresh, UniqueIds
<1> QED
  BY <1>5, <1>11, <1>12, <1>13 DEF IInv

\* LaunchGiveUp keeps the invariant.
LEMMA LaunchGiveUpStep == ASSUME IInv, NEW l \in Launch, LaunchGiveUp(l) PROVE IInv'
<1> USE DEF registry, launches, children, requests, disk, startup, history
<1>1. run[l].id \in Account
  BY DEF IInv, Named, LaunchGiveUp
<1>2. run' \in [Launch -> RunType]
  BY <1>1, RunPcTyped DEF IInv, TypeOK, LaunchGiveUp, RunPc
<1>3. TypeOK'
  BY <1>1, <1>2 DEF IInv, TypeOK, LaunchGiveUp
<1>4. Named' /\ Fresh' /\ UniqueIds'
  BY <1>1, NamesAssumption, LaunchAssumption
  DEF IInv, TypeOK, LaunchGiveUp, Named, Fresh, UniqueIds, Launch, Object, InstanceType, RunType, HealthType
<1> QED
  BY <1>3, <1>4 DEF IInv

\* LaunchLoginFailed keeps the invariant.
LEMMA LaunchLoginFailedStep == ASSUME IInv, NEW l \in Launch, LaunchLoginFailed(l) PROVE IInv'
<1> USE DEF registry, launches, children, requests, disk, startup, history
<1>1. run[l].id \in Account
  BY DEF IInv, Named, LaunchLoginFailed
<1>2. run' \in [Launch -> RunType]
  BY <1>1, RunPcTyped DEF IInv, TypeOK, LaunchLoginFailed, RunPc
<1>3. login' \in [Account -> LoginPc]
  BY <1>1 DEF IInv, TypeOK, LaunchLoginFailed, LoginPc
<1>4. told' \in [Account -> ToldStates]
  BY <1>1, ConcludedTyped DEF IInv, TypeOK, LaunchLoginFailed, ToldStates
<1>5. TypeOK'
  BY <1>1, <1>2, <1>3, <1>4 DEF IInv, TypeOK, LaunchLoginFailed
<1>6. Named' /\ Fresh' /\ UniqueIds'
  BY <1>1, NamesAssumption, LaunchAssumption
  DEF IInv, TypeOK, LaunchLoginFailed, Named, Fresh, UniqueIds, Launch, Object, InstanceType, RunType, HealthType
<1> QED
  BY <1>5, <1>6 DEF IInv

\* ReaperRemove keeps the invariant.
LEMMA ReaperRemoveStep == ASSUME IInv, NEW l \in Launch, ReaperRemove(l) PROVE IInv'
<1> USE DEF registry, launches, children, requests, disk, startup, history
<1>1. run[l].id \in Account
  BY DEF IInv, Named, ReaperRemove
<1>2. TypeOK'
  BY <1>1 DEF IInv, TypeOK, ReaperRemove, RemoveInstance, ReaperState
<1>3. Named' /\ Fresh' /\ UniqueIds'
  BY <1>1, NamesAssumption, LaunchAssumption
  DEF IInv, TypeOK, ReaperRemove, RemoveInstance, Named, Fresh, UniqueIds, Launch, Object, InstanceType, RunType, HealthType
<1> QED
  BY <1>2, <1>3 DEF IInv

\* ReaperRestart keeps the invariant.
LEMMA ReaperRestartStep == ASSUME IInv, NEW l \in Launch, ReaperRestart(l) PROVE IInv'
<1> USE DEF registry, launches, children, requests, disk, startup, history
<1>1. run[l].id \in Account
  BY DEF IInv, Named, ReaperRestart
<1>2. run' \in [Launch -> RunType]
  BY <1>1, BeginTyped DEF IInv, TypeOK, ReaperRestart
<1>3. started' \in 0..MaxLaunch
  BY LaunchAssumption DEF IInv, TypeOK, ReaperRestart
<1>4. TypeOK'
  BY <1>1, <1>2, <1>3 DEF IInv, TypeOK, ReaperRestart, ReaperState
<1>5. started + 1 \in Launch /\ started' = started + 1
  BY LaunchAssumption DEF IInv, TypeOK, ReaperRestart, Launch
<1>6. \A m \in Launch :
         /\ m = started + 1 => run'[m].pc = "get" /\ run'[m].id = run[l].id
         /\ m # started + 1 => run'[m] = run[m]
  BY <1>1, <1>5 DEF IInv, TypeOK, ReaperRestart, Begin
<1>7. \A m \in Launch : m \in Nat /\ started \in Nat
  BY LaunchAssumption DEF IInv, TypeOK, Launch
<1>8. Named'
  <2>1. \A m \in Launch : run'[m].pc # "none" => run'[m].id \in Account
    BY <1>1, <1>5, <1>6 DEF IInv, Named
  <2>2. \A m \in Launch :
           run'[m].pc \notin {"none", "get", "done"} => run'[m].obj \in Object
    BY <1>1, <1>5, <1>6 DEF IInv, Named
  <2>3. \A m \in Launch : run[m].pc # "none" => run'[m].pc # "none"
    BY <1>1, <1>5, <1>6 DEF IInv, Named
  <2> QED
    <3>1. \A m \in Launch : reaper'[m] # "off" => reaper[m] # "off"
      BY DEF IInv, TypeOK, ReaperRestart
    <3>2. UNCHANGED <<registry, proc, health>>
      BY DEF ReaperRestart
    <3> QED
      BY <2>1, <2>2, <2>3, <3>1, <3>2 DEF IInv, Named
<1>9. Fresh'
  <2>1. \A m \in Launch : m > started + 1 => run'[m].pc = "none"
    BY <1>1, <1>5, <1>6, <1>7 DEF IInv, Fresh
  <2>2. \A m \in Launch :
           run'[m].pc \in {"none", "get", "insert"} => m \notin instances
    BY <1>1, <1>5, <1>6, <1>7 DEF IInv, Fresh
  <2> QED
    BY <1>5, <2>1, <2>2 DEF IInv, Fresh, ReaperRestart
<1>10. UniqueIds'
  BY <1>1, <1>5, <1>6, <1>7
  DEF IInv, ReaperRestart, Named, Fresh, UniqueIds
<1> QED
  BY <1>4, <1>8, <1>9, <1>10 DEF IInv

\* ReaperCopy keeps the invariant.
LEMMA ReaperCopyStep == ASSUME IInv, NEW l \in Launch, ReaperCopy(l) PROVE IInv'
<1> USE DEF registry, launches, children, requests, disk, startup, history
<1>1. run[l].id \in Account
  BY DEF IInv, Named, ReaperCopy
<1>2. list' \in [Saver -> SUBSET Account]
  BY CopiedTyped DEF IInv, ReaperCopy
<1>3. reaper' \in [Launch -> ReaperState]
  BY DEF IInv, TypeOK, ReaperCopy, ReaperState
<1>4. TypeOK'
  BY <1>1, <1>2, <1>3 DEF IInv, TypeOK, ReaperCopy
<1>5. Named' /\ Fresh' /\ UniqueIds'
  BY <1>1, NamesAssumption, LaunchAssumption
  DEF IInv, TypeOK, ReaperCopy, Named, Fresh, UniqueIds, Launch, Object, InstanceType, RunType, HealthType
<1> QED
  BY <1>4, <1>5 DEF IInv

\* ReaperWrite keeps the invariant.
LEMMA ReaperWriteStep == ASSUME IInv, NEW l \in Launch, ReaperWrite(l) PROVE IInv'
<1> USE DEF registry, launches, children, requests, disk, startup, history
<1>1. run[l].id \in Account
  BY DEF IInv, Named, ReaperWrite
<1>2. file' \subseteq Account /\ list' \in [Saver -> SUBSET Account] /\ stale' \subseteq Account
  BY WrittenTyped DEF IInv, ReaperWrite, Saver
<1>3. reaper' \in [Launch -> ReaperState]
  BY DEF IInv, TypeOK, ReaperWrite, ReaperState
<1>4. TypeOK'
  BY <1>1, <1>2, <1>3 DEF IInv, TypeOK, ReaperWrite
<1>5. Named' /\ Fresh' /\ UniqueIds'
  BY <1>1, NamesAssumption, LaunchAssumption
  DEF IInv, TypeOK, ReaperWrite, Named, Fresh, UniqueIds, Launch, Object, InstanceType, RunType, HealthType
<1> QED
  BY <1>4, <1>5 DEF IInv

\* HealthMark keeps the invariant.
LEMMA HealthMarkStep == ASSUME IInv, NEW l \in Launch, HealthMark(l) PROVE IInv'
<1> USE DEF registry, launches, children, requests, disk, startup, history
<1>1. run[l].id \in Account
  BY DEF IInv, Named, HealthMark
<1>2. inst' \in [Object -> InstanceType]
  BY <1>1, InstNoRestart DEF IInv, TypeOK, HealthMark
<1>3. health' \in [Launch -> HealthType]
  BY <1>1, HealthPcTyped DEF IInv, TypeOK, HealthMark, HealthPc
<1>4. told' \in [Account -> ToldStates]
  BY <1>1 DEF IInv, TypeOK, HealthMark, ToldStates
<1>5. TypeOK'
  BY <1>1, <1>2, <1>3, <1>4 DEF IInv, TypeOK, HealthMark
<1>6. Named' /\ Fresh' /\ UniqueIds'
  BY <1>1, NamesAssumption, LaunchAssumption
  DEF IInv, TypeOK, HealthMark, Named, Fresh, UniqueIds, Launch, Object, InstanceType, RunType, HealthType
<1> QED
  BY <1>5, <1>6 DEF IInv

\* HealthKill keeps the invariant.
LEMMA HealthKillStep == ASSUME IInv, NEW l \in Launch, HealthKill(l) PROVE IInv'
<1> USE DEF registry, launches, children, requests, disk, startup, history
<1>1. run[l].id \in Account
  BY DEF IInv, Named, HealthKill
<1>2. proc' \in [Launch -> ProcState]
  BY <1>1, KilledTyped DEF IInv, TypeOK, HealthKill
<1>3. health' \in [Launch -> HealthType]
  BY <1>1, HealthPcTyped DEF IInv, TypeOK, HealthKill, HealthPc
<1>4. TypeOK'
  BY <1>1, <1>2, <1>3 DEF IInv, TypeOK, HealthKill
<1>5. \A m \in Launch : (proc'[m] # "none") <=> (proc[m] # "none")
  BY <1>1, KilledStarted DEF IInv, HealthKill
<1>6. Named' /\ Fresh' /\ UniqueIds'
  BY <1>1, <1>5, NamesAssumption, LaunchAssumption
  DEF IInv, TypeOK, HealthKill, Named, Fresh, UniqueIds, Launch, Object, InstanceType, RunType, HealthType
<1> QED
  BY <1>4, <1>6 DEF IInv

\* HealthRemove keeps the invariant.
LEMMA HealthRemoveStep == ASSUME IInv, NEW l \in Launch, HealthRemove(l) PROVE IInv'
<1> USE DEF registry, launches, children, requests, disk, startup, history
<1>1. run[l].id \in Account
  BY DEF IInv, Named, HealthRemove
<1>2. health' \in [Launch -> HealthType]
  BY <1>1, HealthPcTyped DEF IInv, TypeOK, HealthRemove, HealthPc
<1>3. TypeOK'
  BY <1>1, <1>2 DEF IInv, TypeOK, HealthRemove, RemoveInstance
<1>4. Named' /\ Fresh' /\ UniqueIds'
  BY <1>1, NamesAssumption, LaunchAssumption
  DEF IInv, TypeOK, HealthRemove, RemoveInstance, Named, Fresh, UniqueIds, Launch, Object, InstanceType, RunType, HealthType
<1> QED
  BY <1>3, <1>4 DEF IInv

\* HealthWipe keeps the invariant.
LEMMA HealthWipeStep == ASSUME IInv, NEW l \in Launch, HealthWipe(l) PROVE IInv'
<1> USE DEF registry, launches, children, requests, disk, startup, history
<1>1. run[l].id \in Account
  BY DEF IInv, Named, HealthWipe
<1>2. health' \in [Launch -> HealthType]
  BY <1>1, HealthPcTyped DEF IInv, TypeOK, HealthWipe, HealthPc
<1>3. TypeOK'
  BY <1>1, <1>2 DEF IInv, TypeOK, HealthWipe
<1>4. Named' /\ Fresh' /\ UniqueIds'
  BY <1>1, NamesAssumption, LaunchAssumption
  DEF IInv, TypeOK, HealthWipe, Named, Fresh, UniqueIds, Launch, Object, InstanceType, RunType, HealthType
<1> QED
  BY <1>3, <1>4 DEF IInv

\* HealthCopy keeps the invariant.
LEMMA HealthCopyStep == ASSUME IInv, NEW l \in Launch, HealthCopy(l) PROVE IInv'
<1> USE DEF registry, launches, children, requests, disk, startup, history
<1>1. run[l].id \in Account
  BY DEF IInv, Named, HealthCopy
<1>2. list' \in [Saver -> SUBSET Account]
  BY CopiedTyped DEF IInv, HealthCopy
<1>3. health' \in [Launch -> HealthType]
  BY HealthPcTyped DEF IInv, TypeOK, HealthCopy, HealthPc
<1>4. TypeOK'
  BY <1>1, <1>2, <1>3 DEF IInv, TypeOK, HealthCopy
<1>5. Named' /\ Fresh' /\ UniqueIds'
  BY <1>1, NamesAssumption, LaunchAssumption
  DEF IInv, TypeOK, HealthCopy, Named, Fresh, UniqueIds, Launch, Object, InstanceType, RunType, HealthType
<1> QED
  BY <1>4, <1>5 DEF IInv

\* HealthWrite keeps the invariant.
LEMMA HealthWriteStep == ASSUME IInv, NEW l \in Launch, HealthWrite(l) PROVE IInv'
<1> USE DEF registry, launches, children, requests, disk, startup, history
<1>1. run[l].id \in Account
  BY DEF IInv, Named, HealthWrite
<1>2. file' \subseteq Account /\ list' \in [Saver -> SUBSET Account] /\ stale' \subseteq Account
  BY WrittenTyped DEF IInv, HealthWrite, Saver
<1>3. health' \in [Launch -> HealthType]
  BY HealthPcTyped DEF IInv, TypeOK, HealthWrite, HealthPc
<1>4. TypeOK'
  BY <1>1, <1>2, <1>3 DEF IInv, TypeOK, HealthWrite
<1>5. Named' /\ Fresh' /\ UniqueIds'
  BY <1>1, NamesAssumption, LaunchAssumption
  DEF IInv, TypeOK, HealthWrite, Named, Fresh, UniqueIds, Launch, Object, InstanceType, RunType, HealthType
<1> QED
  BY <1>4, <1>5 DEF IInv

\* Crash keeps the invariant.
LEMMA CrashStep == ASSUME IInv, NEW l \in Launch, Crash(l) PROVE IInv'
<1> USE DEF registry, launches, children, requests, disk, startup, history
<1>1. run[l].id \in Account
  BY DEF IInv, Named, Crash, Alive
<1>2. TypeOK'
  BY <1>1 DEF IInv, TypeOK, Crash, Alive, ProcState
<1>3. Named' /\ Fresh' /\ UniqueIds'
  BY <1>1, NamesAssumption, LaunchAssumption
  DEF IInv, TypeOK, Crash, Alive, Named, Fresh, UniqueIds, Launch, Object, InstanceType, RunType, HealthType
<1> QED
  BY <1>2, <1>3 DEF IInv

\* HealthSignal keeps the invariant.
LEMMA HealthSignalStep ==
  ASSUME IInv, NEW l \in Launch, NEW s \in BOOLEAN, HealthSignal(l, s)
  PROVE  IInv'
<1> USE DEF registry, launches, children, requests, disk, startup, history
<1>1. run[l].id \in Account /\ run[l].pc # "none"
  BY DEF IInv, Named, HealthSignal
<1>2. health' \in [Launch -> HealthType]
  BY DEF IInv, TypeOK, HealthSignal, HealthType, HealthPc
<1>3. TypeOK'
  BY <1>1, <1>2 DEF IInv, TypeOK, HealthSignal
<1>4. \A m \in Launch : health'[m].pc # "idle" => m = l \/ health[m].pc # "idle"
  BY DEF IInv, TypeOK, HealthSignal
<1>5. UNCHANGED <<instances, inst, launches, proc, reaper, toRestore>>
  BY DEF HealthSignal
<1>6. Named' /\ Fresh' /\ UniqueIds'
  BY <1>1, <1>4, <1>5 DEF IInv, Named, Fresh, UniqueIds
<1> QED
  BY <1>3, <1>6 DEF IInv

-----------------------------------------------------------------------------
\* The invariant holds initially.
LEMMA InitIInv == Init => IInv
<1> SUFFICES ASSUME Init PROVE IInv
  OBVIOUS
<1> USE LaunchAssumption DEF Init, NoObjects, Unwatched, NoHealth, NoLogin, NoLogout
<1>1. inst \in [Object -> InstanceType]
  BY DEF InstanceType
<1>2. run \in [Launch -> RunType]
  BY DEF RunType, RunPc
<1>3. health \in [Launch -> HealthType] /\ logout \in [Account -> LogoutType]
  BY DEF HealthType, HealthPc, LogoutType, LogoutPc
<1>4. /\ proc \in [Launch -> ProcState] /\ reaper \in [Launch -> ReaperState]
      /\ login \in [Account -> LoginPc] /\ told \in [Account -> ToldStates]
  BY DEF ProcState, ReaperState, LoginPc, ToldStates
<1>5. ready \in BOOLEAN /\ started \in 0..MaxLaunch
  OBVIOUS
<1>6. TypeOK
  <2>1. list \in [Saver -> SUBSET Account] /\ stale \subseteq Account
    BY DEF NoSaves
  <2> QED
    BY <1>1, <1>2, <1>3, <1>4, <1>5, <2>1, PersistedAssumption DEF TypeOK
<1>7. Named /\ Fresh /\ UniqueIds
  BY DEF Named, Fresh, UniqueIds, Object
<1> QED
  BY <1>6, <1>7 DEF IInv

\* Every step keeps the invariant.
LEMMA NextIInv == IInv /\ [Next]_vars => IInv'
<1> SUFFICES ASSUME IInv, [Next]_vars PROVE IInv'
  OBVIOUS
<1>1. ASSUME NEW a \in Account, Restore(a) \/ LoginCheck(a) \/ LoginStep(a)
      PROVE  IInv'
  BY <1>1, RestoreStep, LoginCheckStep, LoginWipeStep, LoginChildOkStep,
     LoginChildFailsStep DEF LoginStep
<1>2. ASSUME NEW a \in Account, LogoutGet(a) \/ LogoutStep(a) PROVE IInv'
  BY <1>2, LogoutGetStep, LogoutMarkStep, LogoutKillStep, LogoutKillFailsStep,
     LogoutWipeStep, LogoutWipePanicsStep, LogoutCopyStep, LogoutWriteStep DEF LogoutStep
<1>3. ASSUME NEW l \in Launch, LaunchStep(l) PROVE IInv'
  BY <1>3, LaunchGetStep, LaunchInsertStep, LaunchResetStep, LaunchSpawnStep,
     LaunchPollReadyStep, LaunchFailsStep, LaunchArmReaperStep,
     LaunchCountStep, LaunchCopyStep, LaunchWriteStep, LaunchRetryStep, LaunchGiveUpStep,
     LaunchLoginFailedStep DEF LaunchStep
<1>4. ASSUME NEW l \in Launch, ReaperStep(l) \/ Crash(l) PROVE IInv'
  BY <1>4, ReaperRemoveStep, ReaperRestartStep, ReaperCopyStep, ReaperWriteStep, CrashStep
  DEF ReaperStep
<1>5. ASSUME NEW l \in Launch, HealthStep(l) PROVE IInv'
  BY <1>5, HealthMarkStep, HealthKillStep, HealthRemoveStep, HealthWipeStep,
     HealthCopyStep, HealthWriteStep DEF HealthStep
<1>6. ASSUME NEW l \in Launch, NEW s \in BOOLEAN, HealthSignal(l, s)
      PROVE  IInv'
  BY <1>6, HealthSignalStep
<1>7. CASE ManagerRestart
  BY <1>7, ManagerRestartStep
<1>8. CASE UNCHANGED vars
  BY <1>8
  DEF vars, registry, launches, children, requests, disk, startup, history,
      IInv, TypeOK, Named, Fresh, UniqueIds, Registered
<1> QED
  BY <1>1, <1>2, <1>3, <1>4, <1>5, <1>6, <1>7, <1>8 DEF Next

(***************************************************************************)
(* The control state of the registry, the launches, the processes and the  *)
(* request handlers keeps its types, whatever the environment does.        *)
(***************************************************************************)
THEOREM TypeCorrect == Spec => []TypeOK
<1>1. IInv => TypeOK
  BY DEF IInv
<1> QED
  BY <1>1, InitIInv, NextIInv, PTL DEF Spec

(***************************************************************************)
(* instance.go InsertInstance and RemoveInstance keep one object per id in *)
(* Instances for every interleaving of restarts, logins, logouts and       *)
(* failure handlers, although each caller looks the id up before it        *)
(* inserts and does not hold the lock in between.                          *)
(***************************************************************************)
THEOREM RegistryUnique == Spec => []UniqueIds
<1>1. IInv => UniqueIds
  BY DEF IInv
<1> QED
  BY <1>1, InitIInv, NextIInv, PTL DEF Spec

-----------------------------------------------------------------------------
(***************************************************************************)
(* Supervision.  A login whose start fails leaves its object registered,   *)
(* and so does a launch that finds NoRestart set by a logout that came     *)
(* before it was up: without either, nothing is left behind.               *)
(***************************************************************************)
\* Nobody logs in, and only accounts that are up are logged out.
Calm == Env \cap {"login", "eagerLogin", "eagerLogout"} = {}

\* The object is not in the registry yet.
NotYet(o) ==
  o \in toRestore \/ (o \in Launch /\ run[o].pc \in {"none", "get", "insert"})

\* The launch works on an object, or a process of it has been started.
Holds(l) ==
  \/ run[l].pc \in {"reset", "spawn", "poll", "recheck", "count", "save", "write", "failed"}
  \/ proc[l] \in {"live", "dead"}

\* The launch, or who watches its process, is about to remove its account.
Removing(l) == reaper[l] = "waiting" \/ health[l].pc \in {"kill", "remove"}

NoLogins == (\A l \in Launch : ~run[l].login) /\ (\A a \in Account : login[a] = "idle")

\* An object that is held has the launch's id and has been in the registry.
Holding ==
  \A l \in Launch : Holds(l) =>
    run[l].obj \in Object /\ inst[run[l].obj].id = run[l].id /\ ~NotYet(run[l].obj)

\* A launch creates its own object.  Processes that can be killed, and those
\* whose lines are handled, are this manager's own.
Mine ==
  /\ \A l \in Launch : run[l].pc = "insert" => run[l].obj = l
  /\ \A o \in Object : inst[o].cmd # 0 => proc[inst[o].cmd] \in {"live", "dead"}
  /\ \A l \in Launch : health[l].pc # "idle" => proc[l] \in {"live", "dead"}
  /\ \A l \in Launch : run[l].pc \in {"none", "get", "insert"} => proc[l] = "none"

\* Nobody has marked an object that is not in the registry yet.
Clean == \A o \in Object : NotYet(o) => ~inst[o].noRestart

\* A logout of a registered object leaves the rest to a reaper.
Leaving ==
  \A a \in Account : logout[a].pc # "idle" =>
    /\ logout[a].obj \in Object /\ inst[logout[a].obj].id = a /\ ~NotYet(logout[a].obj)
    /\ logout[a].obj \in instances => \E l \in Launch : reaper[l] = "waiting" /\ run[l].id = a

\* So does whatever sets NoRestart on a registered object.
Marked ==
  \A o \in instances : inst[o].noRestart =>
    \E l \in Launch : run[l].id = inst[o].id /\ Removing(l)

\* A registered object has a launch that works on it or will remove it.
Tends(l, o) ==
  /\ run[l].id = inst[o].id
  /\ \/ Removing(l) \/ run[l].pc = "get"
     \/ run[l].pc \in {"reset", "spawn", "poll", "recheck", "failed"} /\ run[l].obj = o

Tended == \A o \in instances : \E l \in Launch : Tends(l, o)

SInv == IInv /\ NoLogins /\ Holding /\ Mine /\ Clean /\ Leaving /\ Marked /\ Tended

-----------------------------------------------------------------------------
\* One launch moves to another control state.
MovesTo(l, p) ==
  \A m \in Launch :
    /\ run'[m].id = run[m].id /\ run'[m].obj = run[m].obj /\ run'[m].login = run[m].login
    /\ run'[m].pc = IF m = l THEN p ELSE run[m].pc

LEMMA PcFacts ==
  ASSUME IInv, NEW l \in Launch, NEW p \in RunPc, run' = [run EXCEPT ![l].pc = p]
  PROVE  MovesTo(l, p)
  BY DEF IInv, TypeOK, RunType, MovesTo

\* A launch begins; nothing was known of it.
LEMMA BeginFacts ==
  ASSUME SInv, NEW a \in Account, started < MaxLaunch, run' = Begin(run, a, FALSE)
  PROVE  /\ started + 1 \in Launch /\ run[started + 1].pc = "none"
         /\ proc[started + 1] = "none" /\ ~Removing(started + 1)
         /\ run'[started + 1].pc = "get" /\ run'[started + 1].id = a
         /\ ~run'[started + 1].login
         /\ \A m \in Launch \ {started + 1} : run'[m] = run[m]
<1>1. started + 1 \in Launch /\ started + 1 > started
  BY LaunchAssumption DEF SInv, IInv, TypeOK, Launch
<1>2. run[started + 1].pc = "none"
  BY <1>1 DEF SInv, IInv, Fresh
<1>3. proc[started + 1] = "none" /\ ~Removing(started + 1)
  BY <1>1, <1>2 DEF SInv, IInv, Named, Removing
<1> QED
  BY <1>1, <1>2, <1>3 DEF SInv, IInv, TypeOK, Begin

\* Killing an instance leaves every process this manager's or not.
LEMMA KilledMine ==
  ASSUME SInv, NEW id, proc' = Killed(id)
  PROVE  \A m \in Launch :
           /\ proc'[m] \in {"live", "dead"} <=> proc[m] \in {"live", "dead"}
           /\ proc'[m] = "none" <=> proc[m] = "none"
<1>1. CASE CanKill(id)
  <2>1. GetInstance(id) \in Object /\ inst[GetInstance(id)].cmd # 0
    BY <1>1, GetInstanceTyped DEF CanKill, SInv, IInv
  <2>2. proc[inst[GetInstance(id)].cmd] \in {"live", "dead"}
    BY <2>1 DEF SInv, Mine
  <2> QED
    BY <1>1, <2>2 DEF Killed, SInv, IInv, TypeOK
<1>2. CASE ~CanKill(id)
  BY <1>2 DEF Killed
<1> QED
  BY <1>1, <1>2

\* A launch that holds its object moves on, without letting go of an object
\* that only it tends.
LEMMA MovesCalm ==
  ASSUME SInv, IInv', NEW l \in Launch, NEW p \in RunPc,
         MovesTo(l, p),
         run[l].pc \notin {"none", "get", "insert", "done"}, p \notin {"none", "get", "insert"},
         \/ p \in {"reset", "spawn", "poll", "recheck", "failed"}
         \/ run[l].pc \in {"count", "save", "write"}
         \/ run[l].pc = "failed" /\ inst[run[l].obj].noRestart
         \/ reaper'[l] = "waiting",
         \A o \in Object : /\ inst'[o].id = inst[o].id
                           /\ \/ inst'[o].cmd = inst[o].cmd
                              \/ inst'[o].cmd = l /\ proc'[l] = "live"
                           /\ inst'[o].noRestart => inst[o].noRestart,
         \A m \in Launch : /\ proc'[m] = proc[m] \/ (m = l /\ proc'[l] = "live")
                           /\ reaper[m] = "waiting" => reaper'[m] = "waiting",
         \A a \in Account : login'[a] = "idle",
         UNCHANGED <<instances, health, logout, toRestore>>
  PROVE  SInv'
<1> USE DEF MovesTo
<1>1. /\ instances \subseteq Object /\ p # "get" /\ run[l].pc \in RunPc
      /\ \A o \in Object : inst[o].cmd \in Launch \cup {0}
  BY DEF SInv, IInv, TypeOK, RunType, InstanceType
<1>2. \A o : NotYet(o)' <=> NotYet(o)
  BY DEF NotYet
<1>3. \A m \in Launch : (Holds(m)' => Holds(m)) /\ (Removing(m) => Removing(m)')
  BY <1>1 DEF Holds, Removing, RunPc
<1>4. NoLogins' /\ Holding' /\ Clean'
  BY <1>2, <1>3 DEF SInv, NoLogins, Holding, Clean
<1>5. Mine'
  BY <1>1 DEF SInv, Mine
<1>6. Leaving'
  <2> SUFFICES ASSUME NEW a \in Account, logout[a].pc # "idle"
               PROVE  /\ logout[a].obj \in Object /\ inst'[logout[a].obj].id = a
                      /\ ~NotYet(logout[a].obj)'
                      /\ logout[a].obj \in instances =>
                           \E m \in Launch : reaper'[m] = "waiting" /\ run'[m].id = a
    BY DEF Leaving
  <2> QED
    BY <1>2 DEF SInv, Leaving
<1>7. Marked'
  BY <1>1, <1>3 DEF SInv, Marked
<1>8. Tended'
  <2> SUFFICES ASSUME NEW o \in instances PROVE \E m \in Launch : Tends(m, o)'
    BY DEF Tended
  <2>1. PICK m \in Launch : Tends(m, o)
    BY DEF SInv, Tended
  <2>2. CASE m # l \/ p \in {"reset", "spawn", "poll", "recheck", "failed"} \/ Removing(l)'
    BY <1>1, <1>3, <2>1, <2>2 DEF Tends
  <2>3. CASE m = l /\ run[l].pc = "failed" /\ inst[run[l].obj].noRestart
    <3>1. Removing(l) \/ run[l].obj = o
      BY <2>1, <2>3 DEF Tends
    <3>2. CASE Removing(l)
      BY <1>3, <2>2, <3>2
    <3>3. CASE run[l].obj = o
      <4>1. PICK k \in Launch : run[k].id = inst[o].id /\ Removing(k)
        BY <2>3, <3>3 DEF SInv, Marked
      <4> QED
        BY <1>1, <1>3, <4>1 DEF Tends
    <3> QED
      BY <3>1, <3>2, <3>3
  <2>4. CASE m = l /\ run[l].pc \in {"count", "save", "write"}
    <3>1. Removing(l)
      BY <2>1, <2>4 DEF Tends
    <3> QED
      BY <1>3, <2>2, <3>1
  <2>5. CASE reaper'[l] = "waiting"
    BY <2>2, <2>5 DEF Removing
  <2> QED
    BY <2>2, <2>3, <2>4, <2>5
<1> QED
  BY <1>4, <1>5, <1>6, <1>7, <1>8 DEF SInv

\* Nothing but who handles a failure line, and which processes live, changes.
LEMMA HandlerCalm ==
  ASSUME SInv, IInv',
         \A l \in Launch : /\ health[l].pc \in {"kill", "remove"} => health'[l].pc \in {"kill", "remove"}
                           /\ health'[l].pc # "idle" => proc[l] \in {"live", "dead"},
         \A m \in Launch : /\ proc'[m] \in {"live", "dead"} <=> proc[m] \in {"live", "dead"}
                           /\ proc'[m] = "none" <=> proc[m] = "none"
                           /\ reaper'[m] = "waiting" <=> reaper[m] = "waiting",
         UNCHANGED <<instances, inst, run, login, logout, toRestore>>
  PROVE  SInv'
<1>1. instances \subseteq Object /\ \A o \in Object : inst[o].cmd \in Launch \cup {0}
  BY DEF SInv, IInv, TypeOK, InstanceType
<1>2. \A o : NotYet(o)' <=> NotYet(o)
  BY DEF NotYet
<1>3. \A m \in Launch : (Holds(m)' <=> Holds(m)) /\ (Removing(m) => Removing(m)')
  BY DEF Holds, Removing
<1>4. NoLogins' /\ Holding' /\ Clean' /\ Leaving'
  BY <1>2, <1>3 DEF SInv, NoLogins, Holding, Clean, Leaving
<1>5. Mine'
  BY <1>1 DEF SInv, Mine
<1>6. Marked' /\ Tended'
  BY <1>3 DEF SInv, Marked, Tended, Tends
<1> QED
  BY <1>4, <1>5, <1>6 DEF SInv

\* A logout goes on or ends.
LEMMA LogoutCalm ==
  ASSUME SInv, IInv', NEW a \in Account, logout[a].pc # "idle",
         logout'[a].pc = "idle" \/ logout'[a].obj = logout[a].obj,
         \A b \in Account \ {a} : logout'[b] = logout[b],
         \A m \in Launch : /\ proc'[m] \in {"live", "dead"} <=> proc[m] \in {"live", "dead"}
                           /\ proc'[m] = "none" <=> proc[m] = "none",
         UNCHANGED <<instances, inst, run, reaper, health, login, toRestore>>
  PROVE  SInv'
<1>1. instances \subseteq Object /\ \A o \in Object : inst[o].cmd \in Launch \cup {0}
  BY DEF SInv, IInv, TypeOK, InstanceType
<1>2. \A o : NotYet(o)' <=> NotYet(o)
  BY DEF NotYet
<1>3. \A m \in Launch : (Holds(m)' <=> Holds(m)) /\ (Removing(m)' <=> Removing(m))
  BY DEF Holds, Removing
<1>4. NoLogins' /\ Holding' /\ Clean'
  BY <1>2, <1>3 DEF SInv, NoLogins, Holding, Clean
<1>5. Leaving'
  <2> SUFFICES ASSUME NEW b \in Account, logout'[b].pc # "idle"
               PROVE  /\ logout'[b].obj \in Object /\ inst[logout'[b].obj].id = b
                      /\ ~NotYet(logout'[b].obj)
                      /\ logout'[b].obj \in instances =>
                           \E l \in Launch : reaper[l] = "waiting" /\ run[l].id = b
    BY <1>2 DEF Leaving
  <2>1. logout[b].pc # "idle" /\ logout'[b].obj = logout[b].obj
    OBVIOUS
  <2> QED
    BY <2>1 DEF SInv, Leaving
<1>6. Mine'
  BY <1>1 DEF SInv, Mine
<1>7. Marked' /\ Tended'
  BY <1>3 DEF SInv, Marked, Tended, Tends
<1> QED
  BY <1>4, <1>5, <1>6, <1>7 DEF SInv

\* Steps of a launch that has its object, and is not logged in, up to its end.
LEMMA LaunchMovesCalm ==
  ASSUME SInv, NEW l \in Launch,
         \/ LaunchReset(l) \/ LaunchSpawn(l) \/ LaunchPollReady(l) \/ LaunchFails(l)
         \/ LaunchArmReaper(l) \/ LaunchCount(l) \/ LaunchCopy(l) \/ LaunchWrite(l) \/ LaunchGiveUp(l)
  PROVE  SInv'
<1> USE DEF registry, children, requests, startup
<1>1. IInv'
  BY LaunchResetStep, LaunchSpawnStep, LaunchPollReadyStep, LaunchFailsStep,
     LaunchArmReaperStep, LaunchCountStep, LaunchCopyStep, LaunchWriteStep, LaunchGiveUpStep DEF SInv
<1>2. \A a \in Account : login'[a] = "idle"
  BY DEF LaunchReset, LaunchSpawn, LaunchPollReady, LaunchFails, LaunchArmReaper,
         LaunchCount, LaunchCopy, LaunchWrite, LaunchGiveUp, SInv, NoLogins, IInv, TypeOK
<1>11. {"spawn", "poll", "recheck", "count", "save", "write", "failed", "done"} \subseteq RunPc
  BY DEF RunPc
<1>3. CASE LaunchReset(l)
  <2>1. /\ run[l].pc \in {"reset"} /\ UNCHANGED <<instances, proc, reaper, health, logout, toRestore>>
        /\ \A o \in Object : /\ inst'[o].id = inst[o].id /\ inst'[o].cmd = inst[o].cmd
                             /\ inst'[o].noRestart => inst[o].noRestart
    BY <1>3 DEF LaunchReset, SInv, IInv, TypeOK, InstanceType
  <2>2. MovesTo(l, "spawn") /\ "spawn" \in RunPc
    BY <1>3, <1>11, PcFacts DEF LaunchReset, SInv
  <2>3. /\ run[l].pc \notin {"none", "get", "insert", "done"}
        /\ \A m \in Launch : /\ proc'[m] = proc[m] \/ (m = l /\ proc'[l] = "live")
                             /\ reaper[m] = "waiting" => reaper'[m] = "waiting"
    BY <2>1
  <2> QED
    BY <1>1, <1>2, <2>1, <2>2, <2>3, MovesCalm
<1>4. CASE LaunchSpawn(l)
  <2>1. /\ run[l].pc \in {"spawn"} /\ UNCHANGED <<instances, reaper, health, logout, toRestore>>
        /\ \A m \in Launch : proc'[m] = IF m = l THEN "live" ELSE proc[m]
        /\ \A o \in Object : /\ inst'[o].id = inst[o].id
                             /\ inst'[o].cmd = inst[o].cmd \/ inst'[o].cmd = l
                             /\ inst'[o].noRestart = inst[o].noRestart
    BY <1>4 DEF LaunchSpawn, SInv, IInv, TypeOK, InstanceType
  <2>2. MovesTo(l, "poll") /\ "poll" \in RunPc
    BY <1>4, <1>11 DEF LaunchSpawn, SInv, IInv, TypeOK, RunType, MovesTo
  <2>3. /\ run[l].pc \notin {"none", "get", "insert", "done"}
        /\ \A m \in Launch : /\ proc'[m] = proc[m] \/ (m = l /\ proc'[l] = "live")
                             /\ reaper[m] = "waiting" => reaper'[m] = "waiting"
    BY <2>1
  <2> QED
    BY <1>1, <1>2, <2>1, <2>2, <2>3, MovesCalm
<1>5. CASE LaunchPollReady(l)
  <2>1. /\ run[l].pc \in {"poll"} /\ UNCHANGED <<instances, proc, reaper, health, logout, toRestore>>
        /\ \A o \in Object : /\ inst'[o].id = inst[o].id /\ inst'[o].cmd = inst[o].cmd
                             /\ inst'[o].noRestart = inst[o].noRestart
    BY <1>5 DEF LaunchPollReady, SInv, IInv, TypeOK, InstanceType
  <2>2. MovesTo(l, "recheck") /\ "recheck" \in RunPc
    BY <1>5, <1>11, PcFacts DEF LaunchPollReady, SInv
  <2> QED
    BY <1>1, <1>2, <2>1, <2>2, MovesCalm
<1>6. CASE LaunchFails(l)
  <2>1. /\ run[l].pc \in {"spawn", "poll", "recheck"} /\ UNCHANGED <<instances, inst, proc, reaper, health, logout, toRestore>>
    BY <1>6 DEF LaunchFails
  <2>2. MovesTo(l, "failed") /\ "failed" \in RunPc
    BY <1>6, <1>11, PcFacts DEF LaunchFails, SInv
  <2> QED
    BY <1>1, <1>2, <2>1, <2>2, MovesCalm
<1>7. CASE LaunchArmReaper(l)
  <2>1. /\ run[l].pc \in {"recheck"} /\ UNCHANGED <<instances, inst, proc, health, logout, toRestore>>
        /\ \A m \in Launch : reaper[m] = "waiting" => reaper'[m] = "waiting"
        /\ reaper'[l] = "waiting"
    BY <1>7 DEF LaunchArmReaper, SInv, IInv, TypeOK
  <2>2. MovesTo(l, "count") /\ "count" \in RunPc
    BY <1>7, <1>11, PcFacts DEF LaunchArmReaper, SInv
  <2> QED
    BY <1>1, <1>2, <2>1, <2>2, MovesCalm
<1>8. CASE LaunchCount(l)
  <2>1. /\ run[l].pc \in {"count"} /\ UNCHANGED <<instances, inst, proc, reaper, health, logout, toRestore>>
    BY <1>8 DEF LaunchCount
  <2>2. MovesTo(l, "done") /\ "done" \in RunPc
    BY <1>8, <1>11, PcFacts DEF LaunchCount, SInv, NoLogins
  <2> QED
    BY <1>1, <1>2, <2>1, <2>2, MovesCalm
<1>9. CASE LaunchCopy(l) \/ LaunchWrite(l)
  <2> DEFINE p == IF run[l].pc = "save" THEN "write" ELSE "done"
  <2>1. /\ run[l].pc \in {"save", "write"}
        /\ UNCHANGED <<instances, inst, proc, reaper, health, logout, toRestore>>
    BY <1>9 DEF LaunchCopy, LaunchWrite
  <2>2. p \in RunPc /\ p \notin {"none", "get", "insert"}
    BY <1>11
  <2>3. run' = [run EXCEPT ![l].pc = p]
    BY <1>9 DEF LaunchCopy, LaunchWrite
  <2>4. MovesTo(l, p)
    BY <2>2, <2>3, PcFacts DEF SInv
  <2> HIDE DEF p
  <2> QED
    BY <1>1, <1>2, <2>1, <2>2, <2>4, MovesCalm
<1>10. CASE LaunchGiveUp(l)
  <2>1. /\ run[l].pc \in {"failed"} /\ UNCHANGED <<instances, inst, proc, reaper, health, logout, toRestore>>
        /\ inst[run[l].obj].noRestart
    BY <1>10 DEF LaunchGiveUp, RestartWanted
  <2>2. MovesTo(l, "done") /\ "done" \in RunPc
    BY <1>10, <1>11, PcFacts DEF LaunchGiveUp, SInv
  <2> QED
    BY <1>1, <1>2, <2>1, <2>2, MovesCalm
<1> QED
  BY <1>3, <1>4, <1>5, <1>6, <1>7, <1>8, <1>9, <1>10

\* A launch begins: nothing else changes but whom it relieves.
LEMMA BeginCalm ==
  ASSUME SInv, IInv', NEW a \in Account, NEW l \in Launch, run[l].id = a,
         started < MaxLaunch,
         \/ reaper[l] = "removed" /\ reaper' = [reaper EXCEPT ![l] = "off"]
            /\ run' = Begin(run, a, FALSE)
         \/ run[l].pc = "failed" /\ UNCHANGED reaper
            /\ run' = Begin([run EXCEPT ![l].pc = "done"], a, FALSE),
         UNCHANGED <<instances, inst, proc, health, login, logout, toRestore>>
  PROVE  SInv'
<1>0. PICK n \in Launch : n = started + 1
  BY LaunchAssumption DEF SInv, IInv, TypeOK, Launch
<1>1. /\ n \in Launch /\ run[n].pc = "none" /\ proc[n] = "none" /\ ~Removing(n)
      /\ run'[n].pc = "get" /\ run'[n].id = a /\ ~run'[n].login
      /\ \A m \in Launch \ {n} :
           /\ run'[m].id = run[m].id /\ run'[m].obj = run[m].obj /\ run'[m].login = run[m].login
           /\ run'[m].pc = run[m].pc \/ (m = l /\ run[m].pc = "failed" /\ run'[m].pc = "done")
  <2>1. n \in Launch /\ n > started
    BY <1>0, LaunchAssumption DEF SInv, IInv, TypeOK, Launch
  <2>2. run[n].pc = "none"
    BY <2>1 DEF SInv, IInv, Fresh
  <2>3. proc[n] = "none" /\ ~Removing(n)
    BY <2>1, <2>2 DEF SInv, IInv, Named, Removing
  <2>4. CASE run' = Begin(run, a, FALSE)
    BY <1>0, <2>1, <2>2, <2>3, <2>4 DEF SInv, IInv, TypeOK, Begin
  <2>5. CASE run[l].pc = "failed" /\ run' = Begin([run EXCEPT ![l].pc = "done"], a, FALSE)
    <3> DEFINE r == [run EXCEPT ![l].pc = "done"]
    <3>1. r \in [Launch -> RunType]
      BY RunPcTyped DEF SInv, IInv, TypeOK, RunPc
    <3>2. \A m \in Launch : /\ r[m].id = run[m].id /\ r[m].obj = run[m].obj
                            /\ r[m].login = run[m].login
                            /\ r[m].pc = IF m = l THEN "done" ELSE run[m].pc
      BY DEF SInv, IInv, TypeOK, RunType
    <3>3. run' = Begin(r, a, FALSE)
      BY <2>5
    <3> HIDE DEF r
    <3> QED
      BY <1>0, <2>1, <2>2, <2>3, <2>5, <3>1, <3>2, <3>3 DEF Begin
  <2> QED
    BY <2>4, <2>5
<1>2. instances \subseteq Object
  BY DEF SInv, IInv, TypeOK
<1>3. \A o : NotYet(o)' <=> NotYet(o)
  BY <1>1 DEF NotYet
<1>4. /\ \A m \in Launch : (Holds(m)' => Holds(m) /\ m # n) /\ (Removing(m)' <=> Removing(m))
      /\ \A m \in Launch : reaper'[m] = "waiting" <=> reaper[m] = "waiting"
  BY <1>1 DEF Holds, Removing, SInv, IInv, TypeOK
<1>5. NoLogins' /\ Holding' /\ Clean'
  BY <1>1, <1>3, <1>4 DEF SInv, NoLogins, Holding, Clean
<1>6. Mine'
  BY <1>1 DEF SInv, Mine
<1>7. Leaving'
  BY <1>1, <1>3, <1>4 DEF SInv, Leaving, Removing
<1>8. Marked'
  BY <1>1, <1>2, <1>4 DEF SInv, Marked
<1>9. Tended'
  <2> SUFFICES ASSUME NEW o \in instances PROVE \E m \in Launch : Tends(m, o)'
    BY DEF Tended
  <2>1. PICK m \in Launch : Tends(m, o)
    BY DEF SInv, Tended
  <2>2. m # n
    BY <1>1, <2>1 DEF Tends
  <2>3. CASE Removing(m) \/ run'[m].pc = run[m].pc
    BY <1>1, <1>4, <2>1, <2>2, <2>3 DEF Tends
  <2>4. CASE m = l /\ run[m].pc = "failed"
    <3>1. Tends(n, o)'
      BY <1>1, <2>1, <2>4 DEF Tends
    <3> QED
      BY <1>1, <3>1
  <2> QED
    BY <1>1, <2>2, <2>3, <2>4
<1> QED
  BY <1>5, <1>6, <1>7, <1>8, <1>9 DEF SInv

\* A failed launch tries again, and a reaper restarts its account.
LEMMA RetryCalm ==
  ASSUME SInv, NEW l \in Launch, LaunchRetry(l) \/ ReaperRestart(l) PROVE SInv'
<1>1. IInv' /\ run[l].id \in Account
  BY LaunchRetryStep, ReaperRestartStep DEF SInv, IInv, Named, LaunchRetry, ReaperRestart
<1> QED
  BY <1>1, BeginCalm
  DEF LaunchRetry, ReaperRestart, registry, children, requests, startup

\* A restored account and its launch.
LEMMA RestoreCalm == ASSUME SInv, NEW a \in Account, Restore(a) PROVE SInv'
<1> USE DEF registry, children, requests, startup
<1>1. IInv' /\ a \in Object /\ a \notin Launch
  BY RestoreStep, NamesAssumption, LaunchAssumption DEF SInv, Object, Launch
<1>2. PICK n \in Launch : n = started + 1
  BY LaunchAssumption DEF SInv, IInv, TypeOK, Launch, Restore
<1>3. /\ run[n].pc = "none" /\ proc[n] = "none" /\ ~Removing(n)
      /\ run'[n].pc = "get" /\ run'[n].id = a /\ ~run'[n].login
      /\ \A m \in Launch \ {n} : run'[m] = run[m]
  BY <1>2, BeginFacts DEF Restore
<1>4. \A o \in Object : /\ inst'[o].id = inst[o].id /\ inst'[o].cmd = inst[o].cmd
                        /\ inst'[o].noRestart = inst[o].noRestart
  BY DEF Restore, SInv, IInv, TypeOK, InstanceType
<1>5. /\ UNCHANGED <<proc, reaper, health, login, logout>> /\ toRestore' = toRestore \ {a}
      /\ instances' \in {instances, instances \cup {a}} /\ instances \subseteq Object
      /\ inst[a].id = a /\ ~inst[a].noRestart
  BY <1>1 DEF Restore, InsertInstance, SInv, IInv, TypeOK, Named, Clean, NotYet
<1>6. \A o : NotYet(o)' <=> NotYet(o) /\ o # a
  BY <1>1, <1>3, <1>5 DEF NotYet
<1>7. \A m \in Launch : (Holds(m)' => Holds(m) /\ m # n) /\ (Removing(m)' <=> Removing(m))
  BY <1>3, <1>5 DEF Holds, Removing
<1>8. NoLogins' /\ Holding' /\ Clean'
  BY <1>3, <1>4, <1>5, <1>6, <1>7 DEF SInv, NoLogins, Holding, Clean
<1>9. Mine'
  BY <1>3, <1>4, <1>5 DEF SInv, Mine
<1>10. Leaving'
  <2> SUFFICES ASSUME NEW b \in Account, logout[b].pc # "idle"
               PROVE  /\ logout[b].obj \in Object /\ inst'[logout[b].obj].id = b
                      /\ ~NotYet(logout[b].obj)'
                      /\ logout[b].obj \in instances' =>
                           \E l \in Launch : reaper'[l] = "waiting" /\ run'[l].id = b
    BY <1>5 DEF Leaving
  <2>1. /\ logout[b].obj \in Object /\ inst[logout[b].obj].id = b /\ ~NotYet(logout[b].obj)
        /\ logout[b].obj \in instances =>
             \E l \in Launch : reaper[l] = "waiting" /\ run[l].id = b
    BY DEF SInv, Leaving
  <2>2. logout[b].obj # a
    BY <2>1 DEF NotYet, Restore
  <2> QED
    BY <1>3, <1>4, <1>5, <1>6, <2>1, <2>2 DEF Removing
<1>11. Marked'
  BY <1>1, <1>3, <1>4, <1>5, <1>7 DEF SInv, Marked
<1>12. Tended'
  <2> SUFFICES ASSUME NEW o \in instances' PROVE \E m \in Launch : Tends(m, o)'
    BY DEF Tended
  <2>1. CASE o = a
    <3>1. Tends(n, o)'
      BY <1>3, <1>4, <1>5, <1>1, <2>1 DEF Tends
    <3> QED
      BY <3>1
  <2>2. CASE o # a
    <3>1. PICK m \in Launch : Tends(m, o)
      BY <1>5, <2>2 DEF SInv, Tended
    <3>2. m # n
      BY <1>3, <3>1 DEF Tends
    <3> QED
      BY <1>3, <1>4, <1>5, <1>7, <2>2, <3>1, <3>2 DEF Tends
  <2> QED
    BY <2>1, <2>2
<1> QED
  BY <1>1, <1>8, <1>9, <1>10, <1>11, <1>12 DEF SInv

\* After a restart of the manager nothing is registered, held or marked.
LEMMA ManagerRestartCalm == ASSUME SInv, ManagerRestart PROVE SInv'
<1>1. IInv'
  BY ManagerRestartStep DEF SInv
<1>2. \A o \in Object : inst'[o].cmd = 0 /\ ~inst'[o].noRestart
  BY DEF ManagerRestart, NoObjects
<1>3. \A l \in Launch : /\ run'[l].pc \in {"none", "done"} /\ run'[l].login = run[l].login
                        /\ run'[l].pc = "none" => run[l].pc = "none"
                        /\ proc'[l] \notin {"live", "dead"}
                        /\ proc[l] = "none" => proc'[l] = "none"
  BY DEF ManagerRestart, SInv, IInv, TypeOK, RunType, ProcState
<1>4. /\ \A l \in Launch : reaper'[l] = "off" /\ health'[l].pc = "idle"
      /\ \A a \in Account : login'[a] = "idle" /\ logout'[a].pc = "idle"
      /\ instances' = {}
  BY DEF ManagerRestart, Unwatched, NoHealth, NoLogin, NoLogout
<1>5. NoLogins' /\ Holding' /\ Mine' /\ Clean' /\ Leaving' /\ Marked' /\ Tended'
  BY <1>2, <1>3, <1>4
  DEF SInv, NoLogins, Holding, Holds, Mine, Clean, Leaving, Marked, Tended
<1> QED
  BY <1>1, <1>5 DEF SInv

\* A launch looks its account up ...
LEMMA GetCalm == ASSUME SInv, NEW l \in Launch, LaunchGet(l) PROVE SInv'
<1> USE DEF registry, children, requests, startup
<1> DEFINE id == run[l].id
<1>1. /\ IInv' /\ instances \subseteq Object /\ run[l].pc = "get" /\ proc[l] = "none"
      /\ UNCHANGED <<instances, inst, proc, reaper, health, login, logout, toRestore>>
  BY LaunchGetStep DEF LaunchGet, SInv, IInv, TypeOK, Mine
<1>2. \A m \in Launch : /\ run'[m].id = run[m].id /\ run'[m].login = run[m].login
                        /\ m # l => run'[m] = run[m]
  BY DEF LaunchGet, SInv, IInv, TypeOK, RunType
<1>3. \/ run'[l].pc = "insert" /\ run'[l].obj = l /\ ~Registered(id)
      \/ /\ run'[l].pc = "reset" /\ run'[l].obj \in instances
         /\ inst[run'[l].obj].id = id
  BY GetInstanceRegistered DEF LaunchGet, SInv, IInv, TypeOK, RunType
<1>4. \A o \in instances : ~NotYet(o)
  BY DEF NotYet, SInv, IInv, Fresh
<1>5. \A o : NotYet(o)' => NotYet(o)
  BY <1>1, <1>2 DEF NotYet
<1>6. \A m \in Launch : Removing(m)' <=> Removing(m)
  BY <1>1 DEF Removing
<1>7. Holding'
  BY <1>1, <1>2, <1>3, <1>4, <1>5 DEF SInv, Holding, Holds
<1>8. NoLogins' /\ Clean'
  BY <1>1, <1>2, <1>5 DEF SInv, NoLogins, Clean
<1>9. Mine'
  BY <1>1, <1>2, <1>3 DEF SInv, Mine
<1>10. Leaving'
  BY <1>1, <1>2, <1>5 DEF SInv, Leaving
<1>11. Marked'
  BY <1>1, <1>2, <1>6 DEF SInv, Marked
<1>12. Tended'
  <2> SUFFICES ASSUME NEW o \in instances PROVE \E m \in Launch : Tends(m, o)'
    BY <1>1 DEF Tended
  <2>1. PICK m \in Launch : Tends(m, o)
    BY DEF SInv, Tended
  <2>2. CASE m # l \/ Removing(m)
    BY <1>1, <1>2, <1>6, <2>1, <2>2 DEF Tends
  <2>3. CASE m = l /\ ~Removing(m)
    <3>1. inst[o].id = id
      BY <2>1, <2>3 DEF Tends
    <3>2. run'[l].pc = "reset" /\ run'[l].obj = o
      BY <1>1, <1>3, <3>1 DEF Registered, SInv, IInv, UniqueIds
    <3>3. Tends(l, o)'
      BY <1>1, <1>2, <3>1, <3>2 DEF Tends
    <3> QED
      BY <3>3
  <2> QED
    BY <2>2, <2>3
<1> QED
  BY <1>1, <1>7, <1>8, <1>9, <1>10, <1>11, <1>12 DEF SInv

\* ... and registers its object unless the account has got one meanwhile.
LEMMA InsertCalm == ASSUME SInv, NEW l \in Launch, LaunchInsert(l) PROVE SInv'
<1> USE DEF registry, children, requests, startup, MovesTo
<1> DEFINE id == run[l].id
<1>1. /\ IInv' /\ instances \subseteq Object /\ run[l].pc = "insert" /\ proc[l] = "none"
      /\ l \in Object /\ NotYet(l) /\ run[l].obj = l /\ ~run[l].login
      /\ UNCHANGED <<proc, reaper, health, login, logout, toRestore>>
  BY LaunchInsertStep
  DEF LaunchInsert, SInv, IInv, TypeOK, Mine, Object, NotYet, NoLogins
<1>2. MovesTo(l, "spawn")
  <2>1. run' = [run EXCEPT ![l].pc = "spawn"]
    BY <1>1 DEF LaunchInsert
  <2> QED
    <3>1. IInv /\ "spawn" \in RunPc
      BY DEF SInv, RunPc
    <3> QED
      BY <2>1, <3>1, PcFacts
<1>3. \A o \in Object : /\ inst'[o].id = IF o = l THEN id ELSE inst[o].id
                        /\ inst'[o].cmd = inst[o].cmd
                        /\ inst'[o].noRestart = inst[o].noRestart
  BY <1>1 DEF LaunchInsert, SInv, IInv, TypeOK, InstanceType
<1>4. /\ instances' \in {instances, instances \cup {l}} /\ l \notin instances
      /\ ~inst[l].noRestart
  BY <1>1 DEF LaunchInsert, InsertInstance, SInv, IInv, Fresh, Clean
<1>5. \A o : NotYet(o)' <=> NotYet(o) /\ o # l
  <2>1. l \notin toRestore
    <3>1. l \in Nat /\ toRestore \subseteq Account
      BY LaunchAssumption DEF SInv, IInv, TypeOK, Launch
    <3> QED
      BY <3>1, NamesAssumption
  <2> QED
    BY <1>1, <1>2, <2>1 DEF NotYet
<1>6. \A m \in Launch : /\ Holds(m)' => Holds(m) \/ m = l
                        /\ Removing(m)' <=> Removing(m)
  BY <1>1, <1>2 DEF Holds, Removing
<1>7. NoLogins' /\ Clean'
  BY <1>1, <1>2, <1>3, <1>5 DEF SInv, NoLogins, Clean
<1>8. Holding'
  <2> SUFFICES ASSUME NEW m \in Launch, Holds(m)'
               PROVE  /\ run'[m].obj \in Object /\ inst'[run'[m].obj].id = run'[m].id
                      /\ ~NotYet(run[m].obj)'
    BY DEF Holding
  <2>1. CASE m = l
    BY <1>1, <1>2, <1>3, <1>5, <2>1
  <2>2. CASE m # l
    <3>1. run[m].obj \in Object /\ inst[run[m].obj].id = run[m].id /\ ~NotYet(run[m].obj)
      BY <1>6, <2>2 DEF SInv, Holding
    <3>2. run[m].obj # l
      BY <1>1, <3>1
    <3> QED
      BY <1>2, <1>3, <1>5, <3>1, <3>2
  <2> QED
    BY <2>1, <2>2
<1>9. Mine'
  BY <1>1, <1>2, <1>3 DEF SInv, Mine
<1>10. Leaving'
  <2> SUFFICES ASSUME NEW b \in Account, logout[b].pc # "idle"
               PROVE  /\ logout[b].obj \in Object /\ inst'[logout[b].obj].id = b
                      /\ ~NotYet(logout[b].obj)'
                      /\ logout[b].obj \in instances' =>
                           \E m \in Launch : reaper'[m] = "waiting" /\ run'[m].id = b
    BY <1>1 DEF Leaving
  <2>1. /\ logout[b].obj \in Object /\ inst[logout[b].obj].id = b /\ ~NotYet(logout[b].obj)
        /\ logout[b].obj \in instances =>
             \E m \in Launch : reaper[m] = "waiting" /\ run[m].id = b
    BY DEF SInv, Leaving
  <2>2. logout[b].obj # l
    BY <1>1, <2>1
  <2> QED
    BY <1>1, <1>2, <1>3, <1>4, <1>5, <2>1, <2>2
<1>11. Marked'
  BY <1>1, <1>2, <1>3, <1>4, <1>6 DEF SInv, Marked
<1>12. Tended'
  <2> SUFFICES ASSUME NEW o \in instances' PROVE \E m \in Launch : Tends(m, o)'
    BY DEF Tended
  <2>1. CASE o = l
    <3>1. Tends(l, o)'
      BY <1>1, <1>2, <1>3, <2>1 DEF Tends
    <3> QED
      BY <3>1
  <2>2. CASE o # l
    <3>1. PICK m \in Launch : Tends(m, o)
      BY <1>4, <2>2 DEF SInv, Tended
    <3>2. o \in Object
      BY <1>1, <1>4, <2>2
    <3> QED
      BY <1>1, <1>2, <1>3, <1>6, <2>2, <3>1, <3>2 DEF Tends
  <2> QED
    BY <2>1, <2>2
<1> QED
  BY <1>1, <1>7, <1>8, <1>9, <1>10, <1>11, <1>12 DEF SInv

\* RemoveInstance takes the account's only object out of the registry.
LEMMA RemoveCalm ==
  ASSUME SInv, IInv', NEW l \in Launch, RemoveInstance(run[l].id),
         \A m \in Launch \ {l} : reaper'[m] = reaper[m] /\ health'[m] = health[m],
         reaper'[l] = "waiting" => reaper[l] = "waiting",
         health[l].pc = "idle" => health'[l].pc = "idle",
         UNCHANGED <<inst, run, proc, login, logout, toRestore>>
  PROVE  SInv'
<1>1. instances' \subseteq instances /\ instances \subseteq Object
  BY DEF RemoveInstance, SInv, IInv, TypeOK
<1>2. \A o \in instances' : inst[o].id # run[l].id
  BY <1>1, GetInstanceRegistered DEF RemoveInstance, Registered, SInv, IInv, UniqueIds
<1>3. \A o : NotYet(o)' <=> NotYet(o)
  BY DEF NotYet
<1>4. \A m \in Launch : /\ Holds(m)' <=> Holds(m)
                        /\ m # l => (Removing(m)' <=> Removing(m))
  BY DEF Holds, Removing
<1>5. NoLogins' /\ Holding' /\ Clean' /\ Mine'
  BY <1>3, <1>4 DEF SInv, NoLogins, Holding, Clean, Mine
<1>6. Leaving'
  <2> SUFFICES ASSUME NEW a \in Account, logout[a].pc # "idle"
               PROVE  /\ logout[a].obj \in Object /\ inst[logout[a].obj].id = a
                      /\ ~NotYet(logout[a].obj)'
                      /\ logout[a].obj \in instances' =>
                           \E m \in Launch : reaper'[m] = "waiting" /\ run[m].id = a
    BY DEF Leaving
  <2>1. /\ logout[a].obj \in Object /\ inst[logout[a].obj].id = a /\ ~NotYet(logout[a].obj)
        /\ logout[a].obj \in instances =>
             \E m \in Launch : reaper[m] = "waiting" /\ run[m].id = a
    BY DEF SInv, Leaving
  <2> QED
    BY <1>1, <1>2, <1>3, <2>1
<1>7. Marked'
  BY <1>1, <1>2, <1>4 DEF SInv, Marked
<1>8. Tended'
  BY <1>1, <1>2, <1>4 DEF SInv, Tended, Tends
<1> QED
  BY <1>5, <1>6, <1>7, <1>8 DEF SInv

LEMMA ReaperRemoveCalm == ASSUME SInv, NEW l \in Launch, ReaperRemove(l) PROVE SInv'
<1>1. IInv'
  BY ReaperRemoveStep DEF SInv
<1>2. /\ \A m \in Launch \ {l} : reaper'[m] = reaper[m] /\ health'[m] = health[m]
      /\ reaper'[l] = "waiting" => reaper[l] = "waiting"
  BY DEF ReaperRemove
<1> QED
  BY <1>1, <1>2, RemoveCalm DEF ReaperRemove, launches, requests, startup

LEMMA HealthRemoveCalm == ASSUME SInv, NEW l \in Launch, HealthRemove(l) PROVE SInv'
<1>1. IInv'
  BY HealthRemoveStep DEF SInv
<1>2. /\ \A m \in Launch \ {l} : reaper'[m] = reaper[m] /\ health'[m] = health[m]
      /\ health[l].pc # "idle"
  BY DEF HealthRemove, SInv, IInv, TypeOK
<1> QED
  BY <1>1, <1>2, RemoveCalm DEF HealthRemove, launches, requests, startup

\* Setting NoRestart on an object that has been registered and, if it still
\* is, is about to be removed.
LEMMA MarkCalm ==
  ASSUME SInv, IInv', NEW o \in Object, ~NotYet(o), inst' = [inst EXCEPT ![o].noRestart = TRUE],
         o \in instances => \E m \in Launch : run[m].id = inst[o].id /\ Removing(m)',
         \A m \in Launch : /\ Removing(m) => Removing(m)'
                           /\ health[m].pc = "idle" => health'[m].pc = "idle",
         \A a \in Account : /\ logout[a].pc = "idle" => logout'[a].pc = "idle"
                            /\ logout'[a].obj = logout[a].obj,
         UNCHANGED <<instances, run, proc, reaper, login, toRestore>>
  PROVE  SInv'
<1>1. /\ instances \subseteq Object
      /\ \A p \in Object : /\ inst'[p].id = inst[p].id /\ inst'[p].cmd = inst[p].cmd
                           /\ p # o => inst'[p].noRestart = inst[p].noRestart
  BY DEF SInv, IInv, TypeOK, InstanceType
<1>2. \A p : NotYet(p)' <=> NotYet(p)
  BY DEF NotYet
<1>3. \A m \in Launch : Holds(m)' <=> Holds(m)
  BY DEF Holds
<1>4. NoLogins' /\ Clean' /\ Mine'
  BY <1>1, <1>2 DEF SInv, NoLogins, Clean, Mine
<1>5. Holding'
  BY <1>1, <1>2, <1>3 DEF SInv, Holding
<1>6. Leaving'
  <2> SUFFICES ASSUME NEW a \in Account, logout'[a].pc # "idle"
               PROVE  /\ logout[a].obj \in Object /\ inst'[logout[a].obj].id = a
                      /\ ~NotYet(logout[a].obj)
                      /\ logout[a].obj \in instances =>
                           \E m \in Launch : reaper[m] = "waiting" /\ run[m].id = a
    BY <1>2 DEF Leaving
  <2> QED
    BY <1>1 DEF SInv, Leaving
<1>7. Marked'
  <2> SUFFICES ASSUME NEW p \in instances, inst'[p].noRestart
               PROVE  \E m \in Launch : run[m].id = inst[p].id /\ Removing(m)'
    BY <1>1 DEF Marked
  <2> QED
    BY <1>1 DEF SInv, Marked
<1>8. Tended'
  BY <1>1 DEF SInv, Tended, Tends
<1> QED
  BY <1>4, <1>5, <1>6, <1>7, <1>8 DEF SInv

LEMMA HealthMarkCalm == ASSUME SInv, NEW l \in Launch, HealthMark(l) PROVE SInv'
<1> DEFINE o == run[l].obj
<1>1. IInv'
  BY HealthMarkStep DEF SInv
<1>2. o \in Object /\ inst[o].id = run[l].id /\ ~NotYet(o)
  BY DEF HealthMark, SInv, Mine, Holding, Holds
<1>3. \A m \in Launch : health'[m].pc = IF m = l THEN "kill" ELSE health[m].pc
  BY DEF HealthMark, SInv, IInv, TypeOK, HealthType
<1>4. /\ inst' = [inst EXCEPT ![o].noRestart = TRUE] /\ health[l].pc = "mark"
      /\ UNCHANGED <<instances, run, proc, reaper, login, logout, toRestore>>
  BY DEF HealthMark, launches, requests, startup
<1>5. Removing(l)' /\ \A m \in Launch : Removing(m) => Removing(m)'
  BY <1>3, <1>4 DEF Removing
<1>6. \A m \in Launch : health[m].pc = "idle" => health'[m].pc = "idle"
  BY <1>3, <1>4
<1> HIDE DEF o
<1> QED
  BY <1>1, <1>2, <1>4, <1>5, <1>6, MarkCalm

LEMMA LogoutMarkCalm == ASSUME SInv, NEW a \in Account, LogoutMark(a) PROVE SInv'
<1> DEFINE o == logout[a].obj
<1>1. IInv'
  BY LogoutMarkStep DEF SInv
<1>2. /\ inst' = [inst EXCEPT ![o].noRestart = TRUE] /\ logout[a].pc = "mark"
      /\ UNCHANGED <<instances, run, proc, reaper, health, login, toRestore>>
  BY DEF LogoutMark, launches, children, startup
<1>3. /\ o \in Object /\ inst[o].id = a /\ ~NotYet(o)
      /\ o \in instances => \E m \in Launch : reaper[m] = "waiting" /\ run[m].id = a
  BY <1>2 DEF SInv, Leaving
<1>4. \A m \in Launch : Removing(m) <=> Removing(m)'
  BY <1>2 DEF Removing
<1>5. o \in instances => \E m \in Launch : run[m].id = inst[o].id /\ Removing(m)'
  BY <1>3, <1>4 DEF Removing
<1>6. \A b \in Account : /\ logout[b].pc = "idle" => logout'[b].pc = "idle"
                         /\ logout'[b].obj = logout[b].obj
  BY <1>2 DEF LogoutMark, SInv, IInv, TypeOK, LogoutType
<1> HIDE DEF o
<1> QED
  BY <1>1, <1>2, <1>3, <1>4, <1>5, <1>6, MarkCalm

\* An account is logged out while its process is watched.
LEMMA LogoutGetCalm == ASSUME SInv, Calm, NEW a \in Account, LogoutGet(a) PROVE SInv'
<1>1. /\ IInv' /\ GetInstance(a) \in instances /\ inst[GetInstance(a)].id = a
      /\ instances \subseteq Object
  BY LogoutGetStep, GetInstanceRegistered DEF LogoutGet, SInv, IInv, TypeOK
<1>2. PICK l \in Launch : run[l].id = a /\ reaper[l] = "waiting"
  BY DEF LogoutGet, Calm, Up
<1>3. /\ UNCHANGED <<instances, inst, run, proc, reaper, health, login, toRestore>>
      /\ logout'[a].obj = GetInstance(a)
      /\ \A b \in Account \ {a} : logout'[b] = logout[b]
  BY DEF LogoutGet, registry, launches, children, startup, SInv, IInv, TypeOK
<1>4. \A o : NotYet(o)' <=> NotYet(o)
  BY <1>3 DEF NotYet
<1>5. \A m \in Launch : (Holds(m)' <=> Holds(m)) /\ (Removing(m)' <=> Removing(m))
  BY <1>3 DEF Holds, Removing
<1>6. NoLogins' /\ Holding' /\ Clean' /\ Mine'
  BY <1>3, <1>4, <1>5 DEF SInv, NoLogins, Holding, Clean, Mine
<1>7. ~NotYet(GetInstance(a))
  BY <1>1 DEF NotYet, SInv, IInv, Fresh
<1>8. Leaving'
  <2> SUFFICES ASSUME NEW b \in Account, logout'[b].pc # "idle"
               PROVE  /\ logout'[b].obj \in Object /\ inst[logout'[b].obj].id = b
                      /\ ~NotYet(logout'[b].obj)
                      /\ logout'[b].obj \in instances =>
                           \E m \in Launch : reaper[m] = "waiting" /\ run[m].id = b
    BY <1>3, <1>4 DEF Leaving
  <2>1. CASE b = a
    BY <1>1, <1>2, <1>3, <1>7, <2>1
  <2>2. CASE b # a
    BY <1>3, <2>2 DEF SInv, Leaving
  <2> QED
    BY <2>1, <2>2
<1>9. Marked' /\ Tended'
  BY <1>3, <1>5 DEF SInv, Marked, Tended, Tends
<1> QED
  BY <1>1, <1>6, <1>8, <1>9 DEF SInv

\* A logout that kills the process, wipes the data and saves the file.
LEMMA LogoutMovesCalm ==
  ASSUME SInv, NEW a \in Account,
         \/ LogoutKill(a) \/ LogoutKillFails(a) \/ LogoutWipe(a)
         \/ LogoutWipePanics(a) \/ LogoutCopy(a) \/ LogoutWrite(a)
  PROVE  SInv'
<1>1. IInv'
  BY LogoutKillStep, LogoutKillFailsStep, LogoutWipeStep, LogoutWipePanicsStep, LogoutCopyStep, LogoutWriteStep
  DEF SInv
<1>2. \A m \in Launch : /\ proc'[m] \in {"live", "dead"} <=> proc[m] \in {"live", "dead"}
                        /\ proc'[m] = "none" <=> proc[m] = "none"
  BY KilledMine
  DEF LogoutKill, LogoutKillFails, LogoutWipe, LogoutWipePanics, LogoutCopy, LogoutWrite, children
<1>3. /\ logout[a].pc # "idle" /\ \A b \in Account \ {a} : logout'[b] = logout[b]
      /\ UNCHANGED <<instances, inst, run, reaper, health, login, toRestore>>
  BY DEF LogoutKill, LogoutKillFails, LogoutWipe, LogoutWipePanics, LogoutCopy, LogoutWrite,
         registry, launches, children, startup, SInv, IInv, TypeOK
<1>4. logout'[a].pc = "idle" \/ logout'[a].obj = logout[a].obj
  BY DEF LogoutKill, LogoutKillFails, LogoutWipe, LogoutWipePanics, LogoutCopy, LogoutWrite,
         SInv, IInv, TypeOK, LogoutType
<1> QED
  BY <1>1, <1>2, <1>3, <1>4, LogoutCalm

\* A handler begins, kills, wipes or ends, a process exits, a reaper is done.
LEMMA HealthMovesCalm ==
  ASSUME SInv, NEW l \in Launch, NEW s \in BOOLEAN,
         \/ HealthSignal(l, s) \/ HealthKill(l) \/ HealthWipe(l) \/ HealthCopy(l) \/ HealthWrite(l)
         \/ Crash(l) \/ ReaperCopy(l) \/ ReaperWrite(l)
  PROVE  SInv'
<1>1. IInv'
  BY HealthSignalStep, HealthKillStep, HealthWipeStep, HealthCopyStep, HealthWriteStep, CrashStep, ReaperCopyStep, ReaperWriteStep
  DEF SInv
<1>2. \A m \in Launch : /\ proc'[m] \in {"live", "dead"} <=> proc[m] \in {"live", "dead"}
                        /\ proc'[m] = "none" <=> proc[m] = "none"
  <2>1. CASE HealthKill(l)
    BY <2>1, KilledMine DEF HealthKill
  <2>2. CASE Crash(l)
    BY <2>2 DEF Crash, Alive, SInv, IInv, TypeOK
  <2> QED
    BY <2>1, <2>2 DEF HealthSignal, HealthWipe, HealthCopy, HealthWrite, ReaperCopy, ReaperWrite
<1>3. \A m \in Launch : reaper'[m] = "waiting" <=> reaper[m] = "waiting"
  BY DEF HealthSignal, HealthKill, HealthWipe, HealthCopy, HealthWrite, Crash, ReaperCopy, ReaperWrite,
         SInv, IInv, TypeOK
<1>4. \A m \in Launch :
        /\ health[m].pc \in {"kill", "remove"} => health'[m].pc \in {"kill", "remove"}
        /\ health'[m].pc # "idle" => proc[m] \in {"live", "dead"}
  <2>1. \A m \in Launch : health[m].pc # "idle" => proc[m] \in {"live", "dead"}
    BY DEF SInv, Mine
  <2>2. CASE HealthSignal(l, s)
    BY <2>1, <2>2 DEF HealthSignal, SInv, IInv, TypeOK, HealthType
  <2>3. CASE HealthKill(l)
    BY <2>1, <2>3 DEF HealthKill, SInv, IInv, TypeOK, HealthType
  <2>4. CASE HealthWipe(l)
    BY <2>1, <2>4 DEF HealthWipe, SInv, IInv, TypeOK, HealthType
  <2>5. CASE HealthCopy(l) \/ HealthWrite(l)
    BY <2>1, <2>5 DEF HealthCopy, HealthWrite, SInv, IInv, TypeOK, HealthType
  <2>6. CASE Crash(l) \/ ReaperCopy(l) \/ ReaperWrite(l)
    BY <2>1, <2>6 DEF Crash, ReaperCopy, ReaperWrite
  <2> QED
    BY <2>2, <2>3, <2>4, <2>5, <2>6
<1>5. UNCHANGED <<instances, inst, run, login, logout, toRestore>>
  BY DEF HealthSignal, HealthKill, HealthWipe, HealthCopy, HealthWrite, Crash, ReaperCopy, ReaperWrite,
         registry, launches, requests, startup
<1> QED
  BY <1>1, <1>2, <1>3, <1>4, <1>5, HandlerCalm

LEMMA InitSInv == ASSUME Init PROVE SInv
<1>1. IInv
  BY InitIInv
<1>2. /\ instances = {} /\ \A o \in Object : inst[o].cmd = 0 /\ ~inst[o].noRestart
      /\ \A l \in Launch : /\ run[l].pc = "none" /\ ~run[l].login /\ proc[l] = "none"
                           /\ health[l].pc = "idle"
      /\ \A a \in Account : login[a] = "idle" /\ logout[a].pc = "idle"
  BY DEF Init, NoObjects, NoHealth, NoLogin, NoLogout
<1> QED
  BY <1>1, <1>2
  DEF SInv, NoLogins, Holding, Holds, Mine, Clean, Leaving, Marked, Tended

LEMMA NextSInv == ASSUME Calm, SInv, [Next]_vars PROVE SInv'
<1>1. CASE ManagerRestart
  BY <1>1, ManagerRestartCalm
<1>2. ASSUME NEW a \in Account, Restore(a) \/ LogoutGet(a) \/ LogoutStep(a) PROVE SInv'
  BY <1>2, RestoreCalm, LogoutGetCalm, LogoutMarkCalm, LogoutMovesCalm DEF LogoutStep
<1>3. ASSUME NEW a \in Account, LoginCheck(a) \/ LoginStep(a) PROVE SInv'
  BY <1>3 DEF SInv, NoLogins, Calm, LoginCheck, LoginStep, LoginWipe, LoginChildOk,
              LoginChildFails
<1>4. ASSUME NEW l \in Launch, LaunchStep(l) PROVE SInv'
  <2>1. ~LaunchLoginFailed(l)
    BY DEF SInv, NoLogins, LaunchLoginFailed
  <2> QED
    BY <1>4, <2>1, GetCalm, InsertCalm, LaunchMovesCalm, RetryCalm DEF LaunchStep
<1>5. ASSUME NEW l \in Launch, ReaperStep(l) \/ HealthStep(l) \/ Crash(l) PROVE SInv'
  BY <1>5, ReaperRemoveCalm, RetryCalm, HealthMarkCalm, HealthRemoveCalm, HealthMovesCalm
  DEF ReaperStep, HealthStep
<1>6. ASSUME NEW l \in Launch, NEW s \in BOOLEAN, HealthSignal(l, s) PROVE SInv'
  BY <1>6, HealthMovesCalm
<1>7. CASE UNCHANGED vars
  <2> USE <1>7 DEF vars, registry, launches, children, requests, startup
  <2>1. IInv'
    BY NextIInv DEF SInv
  <2>2. \A o : NotYet(o)' <=> NotYet(o)
    BY DEF NotYet
  <2>3. \A m \in Launch : (Holds(m)' <=> Holds(m)) /\ (Removing(m)' <=> Removing(m))
    BY DEF Holds, Removing
  <2>4. NoLogins' /\ Holding' /\ Mine' /\ Clean' /\ Leaving' /\ Marked' /\ Tended'
    BY <2>2, <2>3
    DEF SInv, NoLogins, Holding, Mine, Clean, Leaving, Marked, Tended, Tends
  <2> QED
    BY <2>1, <2>4 DEF SInv
<1> QED
  BY <1>1, <1>2, <1>3, <1>4, <1>5, <1>6, <1>7 DEF Next

(***************************************************************************)
(* wrapper.go WrapperStart, wrapperDown and the account-failure handlers   *)
(* never leave a registered account to nobody, whatever crashes, restarts  *)
(* of the manager, slow starts, failure lines and logouts of accounts that *)
(* are up interleave: a launch works on it, a reaper waits for its process *)
(* or a handler removes it.  Logins are excluded because a failed one does *)
(* leave its object behind (finishLoginSuccess calls loginFailed, which    *)
(* does not remove it), and so are logouts of accounts that are not up: the*)
(* launch they overtake gives up with the object registered.               *)
(***************************************************************************)
THEOREM Supervised == Calm => (Spec => []RegisteredSupervised)
<1>1. SInv => RegisteredSupervised
  <2> SUFFICES ASSUME SInv, NEW o \in instances
               PROVE  \E l \in Launch : /\ run[l].id = inst[o].id
                                        /\ \/ run[l].pc # "done" \/ reaper[l] # "off"
                                           \/ health[l].pc # "idle"
    BY DEF RegisteredSupervised
  <2> QED
    BY DEF SInv, Tended, Tends, Removing
<1>2. Calm /\ SInv /\ [Next]_vars => SInv'
  BY NextSInv
<1>3. Init => SInv
  BY InitSInv
<1>4. CASE Calm
  BY <1>1, <1>2, <1>3, <1>4, PTL DEF Spec
<1> QED
  BY <1>4

-----------------------------------------------------------------------------
(***************************************************************************)
(* Who acts on which object.  A process is watched only after its launch   *)
(* is through with it (Watchful); a launch and a watcher of an account hold*)
(* an object of that account (Owned), because an object gets its id when   *)
(* it is created and GetInstance searches by id.                           *)
(***************************************************************************)
Watchful ==
  \A l \in Launch : reaper[l] # "off" => run[l].pc \in {"count", "save", "write", "done"}

Acts(l) ==
  run[l].pc \in {"reset", "spawn", "poll", "recheck", "failed"} \/ reaper[l] # "off"

Owned ==
  /\ \A l \in Launch : Acts(l) => /\ run[l].obj \in Object
                                  /\ inst[run[l].obj].id = run[l].id
  /\ \A l \in Launch : run[l].pc = "insert" => run[l].obj = l
  /\ \A l \in Launch : run[l].pc \in {"none", "get", "insert"} => inst[l].id = None

OInv == IInv /\ Watchful /\ Owned

Later == {"count", "save", "write", "done"}

\* The steps of a launch that has its object.
Move(l) ==
  \/ LaunchInsert(l) \/ LaunchReset(l) \/ LaunchSpawn(l) \/ LaunchPollReady(l)
  \/ LaunchFails(l) \/ LaunchArmReaper(l) \/ LaunchCount(l) \/ LaunchCopy(l)
  \/ LaunchWrite(l) \/ LaunchGiveUp(l) \/ LaunchLoginFailed(l)

\* The steps of other goroutines, requests and processes.
Aside ==
  \/ \E a \in Account : LogoutGet(a) \/ LogoutStep(a)
  \/ \E l \in Launch : HealthStep(l) \/ Crash(l) \/ \E s \in BOOLEAN : HealthSignal(l, s)
  \/ UNCHANGED vars

\* A launch moves on and keeps its object.
LEMMA MoveFacts ==
  ASSUME IInv, NEW l \in Launch, Move(l)
  PROVE  /\ \A m \in Launch : run'[m].id = run[m].id /\ run'[m].obj = run[m].obj
         /\ \A m \in Launch \ {l} : run'[m].pc = run[m].pc /\ reaper'[m] = reaper[m]
         /\ run[l].pc \notin {"none", "get", "done"} /\ run'[l].pc \notin {"none", "get", "insert"}
         /\ run[l].pc \in Later => run'[l].pc \in Later
         /\ \/ reaper'[l] = reaper[l]
            \/ reaper'[l] = "waiting" /\ run[l].pc = "recheck" /\ run'[l].pc = "count"
         /\ toRestore' = toRestore
         /\ \A a \in Account : login'[a] = login[a] \/ login'[a] = "idle"
<1> USE DEF children, requests, startup, Later, IInv, TypeOK, RunType
<1>1. CASE LaunchInsert(l)  BY <1>1 DEF LaunchInsert
<1>2. CASE LaunchReset(l)  BY <1>2 DEF LaunchReset
<1>3. CASE LaunchSpawn(l)  BY <1>3 DEF LaunchSpawn
<1>4. CASE LaunchPollReady(l)  BY <1>4 DEF LaunchPollReady
<1>5. CASE LaunchFails(l)  BY <1>5 DEF LaunchFails
<1>6. CASE LaunchArmReaper(l)  BY <1>6 DEF LaunchArmReaper
<1>7. CASE LaunchCount(l)  BY <1>7 DEF LaunchCount
<1>8. CASE LaunchCopy(l)  BY <1>8 DEF LaunchCopy
<1>9. CASE LaunchWrite(l)  BY <1>9 DEF LaunchWrite
<1>10. CASE LaunchGiveUp(l)  BY <1>10 DEF LaunchGiveUp
<1>11. CASE LaunchLoginFailed(l)  BY <1>11 DEF LaunchLoginFailed
<1> QED
  BY <1>1, <1>2, <1>3, <1>4, <1>5, <1>6, <1>7, <1>8, <1>9, <1>10, <1>11 DEF Move

\* Only LaunchInsert names an object, and only LaunchReset clears a mark.
LEMMA MoveObjects ==
  ASSUME IInv, NEW l \in Launch, Move(l), NEW o \in Object
  PROVE  /\ inst'[o].id = inst[o].id
              \/ (run[l].pc = "insert" /\ o = l /\ inst'[o].id = run[l].id)
         /\ inst[o].noRestart => inst'[o].noRestart
              \/ (run[l].pc = "reset" /\ o = run[l].obj)
<1> USE DEF registry, IInv, TypeOK, InstanceType
<1>1. CASE LaunchInsert(l)  BY <1>1 DEF LaunchInsert
<1>2. CASE LaunchReset(l)  BY <1>2 DEF LaunchReset
<1>3. CASE LaunchSpawn(l)  BY <1>3 DEF LaunchSpawn
<1>4. CASE LaunchPollReady(l)  BY <1>4 DEF LaunchPollReady
<1>5. CASE UNCHANGED inst  BY <1>5
<1> QED
  BY <1>1, <1>2, <1>3, <1>4, <1>5
  DEF Move, LaunchFails, LaunchArmReaper, LaunchCount, LaunchCopy, LaunchWrite,
      LaunchGiveUp, LaunchLoginFailed

LEMMA MoveInserts ==
  ASSUME IInv, NEW l \in Launch, Move(l), run[l].pc = "insert"
  PROVE  inst'[l].id = run[l].id
<1>1. LaunchInsert(l)
  BY DEF Move, LaunchInsert, LaunchReset, LaunchSpawn, LaunchPollReady, LaunchFails,
         LaunchArmReaper, LaunchCount, LaunchCopy, LaunchWrite, LaunchGiveUp,
         LaunchLoginFailed
<1>2. l \in Object
  BY DEF Object
<1> QED
  BY <1>1, <1>2 DEF LaunchInsert, IInv, TypeOK, InstanceType

LEMMA AsideFacts ==
  ASSUME IInv, Aside
  PROVE  /\ UNCHANGED <<run, reaper, login, toRestore>>
         /\ \A o \in Object : /\ inst'[o].id = inst[o].id
                              /\ inst[o].noRestart => inst'[o].noRestart
<1> USE DEF registry, launches, children, requests, startup
<1>1. UNCHANGED <<run, reaper, login, toRestore>>
  BY DEF Aside, vars, LogoutGet, LogoutStep, LogoutMark, LogoutKill, LogoutKillFails,
         LogoutWipe, LogoutWipePanics, LogoutCopy, LogoutWrite, HealthStep, HealthMark,
         HealthKill, HealthRemove, HealthWipe, HealthCopy, HealthWrite, Crash, HealthSignal
<1>2. ASSUME NEW o \in Object
      PROVE  inst'[o].id = inst[o].id /\ (inst[o].noRestart => inst'[o].noRestart)
  <2>1. ASSUME NEW p, inst' = [inst EXCEPT ![p].noRestart = TRUE]
        PROVE  inst'[o].id = inst[o].id /\ (inst[o].noRestart => inst'[o].noRestart)
    BY <2>1 DEF IInv, TypeOK, InstanceType
  <2>2. CASE UNCHANGED inst
    BY <2>2
  <2>3. UNCHANGED inst \/ \E p : inst' = [inst EXCEPT ![p].noRestart = TRUE]
    BY DEF Aside, vars, LogoutGet, LogoutStep, LogoutMark, LogoutKill, LogoutKillFails,
           LogoutWipe, LogoutWipePanics, LogoutCopy, LogoutWrite, HealthStep, HealthMark,
           HealthKill, HealthRemove, HealthWipe, HealthCopy, HealthWrite, Crash, HealthSignal
  <2> QED
    BY <2>1, <2>2, <2>3
<1> QED
  BY <1>1, <1>2

\* The number of the next launch, of which nothing is known yet.
LEMMA NextLaunch ==
  ASSUME IInv, started < MaxLaunch
  PROVE  started + 1 \in Launch /\ run[started + 1].pc = "none" /\ reaper[started + 1] = "off"
<1>1. started \in 0..MaxLaunch
  BY DEF IInv, TypeOK
<1>2. started + 1 \in Launch /\ started + 1 > started
  BY <1>1, LaunchAssumption DEF Launch
<1>3. run[started + 1].pc = "none"
  BY <1>2 DEF IInv, Fresh
<1> QED
  BY <1>2, <1>3 DEF IInv, Named

\* The launch that a step begins for an account, and the one it relieves.
Begins(n, a, l) ==
  /\ n \in Launch /\ run[n].pc = "none" /\ reaper'[n] = "off" /\ n # l
  /\ run'[n].pc = "get" /\ run'[n].id = a
  /\ \A m \in Launch \ {n} :
       /\ run'[m].id = run[m].id /\ run'[m].obj = run[m].obj
       /\ m # l => run'[m].pc = run[m].pc /\ reaper'[m] = reaper[m]

\* A failed launch or a watcher hands over to the launch it begins.
LEMMA HandOver ==
  ASSUME OInv, NEW l \in Launch, LaunchRetry(l) \/ ReaperRestart(l)
  PROVE  /\ \E n \in Launch : Begins(n, run[l].id, l)
         /\ Chain(l) /\ run'[l].pc \in Later /\ reaper'[l] = "off"
         /\ ~inst[run[l].obj].noRestart
         /\ UNCHANGED <<inst, login, toRestore>>
<1>1. /\ started + 1 \in Launch /\ run[started + 1].pc = "none"
      /\ reaper[started + 1] = "off" /\ started < MaxLaunch
  BY NextLaunch DEF OInv, LaunchRetry, ReaperRestart
<1> DEFINE n == started + 1
<1>2. /\ UNCHANGED <<inst, login, toRestore>> /\ ~inst[run[l].obj].noRestart
  BY DEF LaunchRetry, ReaperRestart, registry, requests, startup, RestartWanted
<1>3. CASE LaunchRetry(l)
  <2>1. /\ run[l].pc = "failed" /\ UNCHANGED reaper
        /\ run' = Begin([run EXCEPT ![l].pc = "done"], run[l].id, FALSE)
    BY <1>3 DEF LaunchRetry, children
  <2>2. reaper[l] = "off"
    BY <2>1 DEF OInv, Watchful
  <2>3. n # l
    BY <1>1, <2>1
  <2>4. Begins(n, run[l].id, l) /\ run'[l].pc = "done"
    BY <1>1, <2>1, <2>3 DEF Begins, Begin, OInv, IInv, TypeOK, RunType
  <2> QED
    BY <1>1, <1>2, <2>1, <2>2, <2>4 DEF Chain, Later
<1>4. CASE ReaperRestart(l)
  <2>1. /\ reaper[l] = "removed" /\ reaper' = [reaper EXCEPT ![l] = "off"]
        /\ run' = Begin(run, run[l].id, FALSE)
    BY <1>4 DEF ReaperRestart
  <2>2. run[l].pc \in Later
    BY <2>1 DEF OInv, Watchful, Later
  <2>3. n # l
    BY <1>1, <2>1
  <2>4. Begins(n, run[l].id, l) /\ run'[l].pc = run[l].pc /\ reaper'[l] = "off"
    BY <1>1, <2>1, <2>3 DEF Begins, Begin, OInv, IInv, TypeOK, RunType
  <2> QED
    BY <1>1, <1>2, <2>1, <2>2, <2>4 DEF Chain
<1> QED
  BY <1>3, <1>4

\* Restoring an account and finishing its login begin a launch for it.
LEMMA Enter ==
  ASSUME IInv, NEW a \in Account, Restore(a) \/ LoginChildOk(a)
  PROVE  /\ \E n \in Launch : Begins(n, a, 0)
         /\ \A o \in Object : /\ inst'[o].id = inst[o].id
                              /\ inst'[o].noRestart = inst[o].noRestart
         /\ \A b \in Account \ {a} : login'[b] = login[b]
         /\ toRestore' = toRestore \ {a} \/ toRestore' = toRestore
         /\ UNCHANGED reaper
<1>1. /\ started + 1 \in Launch /\ run[started + 1].pc = "none"
      /\ reaper[started + 1] = "off" /\ started < MaxLaunch
  BY NextLaunch DEF Restore, LoginChildOk
<1> DEFINE n == started + 1
<1>2. PICK b \in BOOLEAN : run' = Begin(run, a, b)
  BY DEF Restore, LoginChildOk
<1>3. /\ \A o \in Object : inst'[o].id = inst[o].id /\ inst'[o].noRestart = inst[o].noRestart
      /\ \A c \in Account \ {a} : login'[c] = login[c]
      /\ toRestore' = toRestore \ {a} \/ toRestore' = toRestore
      /\ UNCHANGED reaper
  <2>1. CASE Restore(a)
    BY <2>1 DEF Restore, children, requests, IInv, TypeOK, InstanceType
  <2>2. CASE LoginChildOk(a)
    BY <2>2 DEF LoginChildOk, registry, children, startup, IInv, TypeOK
  <2> QED
    BY <2>1, <2>2
<1>4. 0 \notin Launch
  BY DEF Launch
<1>5. Begins(n, a, 0)
  BY <1>1, <1>2, <1>3, <1>4 DEF Begins, Begin, IInv, TypeOK, RunType
<1> QED
  BY <1>1, <1>3, <1>5

-----------------------------------------------------------------------------
LEMMA MoveOwned == ASSUME OInv, NEW l \in Launch, Move(l) PROVE OInv'
<1> USE MoveFacts DEF OInv
<1>1. IInv'
  BY LaunchInsertStep, LaunchResetStep, LaunchSpawnStep, LaunchPollReadyStep,
     LaunchFailsStep, LaunchArmReaperStep, LaunchCountStep, LaunchCopyStep,
     LaunchWriteStep, LaunchGiveUpStep, LaunchLoginFailedStep DEF Move
<1>2. Watchful'
  <2> SUFFICES ASSUME NEW m \in Launch, reaper'[m] # "off" PROVE run'[m].pc \in Later
    BY DEF Watchful, Later
  <2> QED
    BY DEF Watchful, Later
<1>3. \A m \in Launch : m \in Object /\ (run[m].pc # "none" => run[m].id \in Account)
  BY DEF IInv, Named, Object
<1>4. Owned'
  <2>1. ASSUME NEW m \in Launch, Acts(m)'
        PROVE  run'[m].obj \in Object /\ inst'[run'[m].obj].id = run'[m].id
    <3>1. CASE m = l /\ run[l].pc = "insert"
      BY <1>3, <3>1, MoveInserts DEF Owned
    <3>2. CASE ~(m = l /\ run[l].pc = "insert")
      <4>1. Acts(m)
        BY <2>1, <3>2 DEF Acts, Later, IInv, TypeOK, RunType, RunPc
      <4>2. run[m].obj \in Object /\ inst[run[m].obj].id = run[m].id
        BY <4>1 DEF Owned
      <4>3. run[m].pc # "none"
        BY <4>1 DEF Acts, IInv, Named
      <4>4. CASE run[l].pc = "insert" /\ run[m].obj = l
        BY <1>3, <4>2, <4>3, <4>4, NamesAssumption DEF Owned
      <4>5. CASE ~(run[l].pc = "insert" /\ run[m].obj = l)
        BY <4>2, <4>5, MoveObjects
      <4> QED
        BY <4>4, <4>5
    <3> QED
      BY <3>1, <3>2
  <2>2. \A m \in Launch : run'[m].pc = "insert" => run'[m].obj = m
    BY DEF Owned
  <2>3. ASSUME NEW m \in Launch, run'[m].pc \in {"none", "get", "insert"}
        PROVE  inst'[m].id = None
    <3>1. m # l /\ run[m].pc \in {"none", "get", "insert"}
      BY <2>3
    <3> QED
      BY <1>3, <3>1, MoveObjects DEF Owned
  <2> QED
    BY <2>1, <2>2, <2>3 DEF Owned
<1> QED
  BY <1>1, <1>2, <1>4

\* LaunchGet finds an object of its account or creates one.
LEMMA GetOwned == ASSUME OInv, NEW l \in Launch, LaunchGet(l) PROVE OInv'
<1>1. IInv'
  BY LaunchGetStep DEF OInv
<1>2. /\ run[l].pc = "get" /\ UNCHANGED <<instances, inst, reaper>>
      /\ \A m \in Launch \ {l} : run'[m] = run[m]
      /\ run'[l].id = run[l].id
      /\ IF Registered(run[l].id)
           THEN run'[l].pc = "reset" /\ run'[l].obj = GetInstance(run[l].id)
           ELSE run'[l].pc = "insert" /\ run'[l].obj = l
  BY DEF LaunchGet, registry, children, OInv, IInv, TypeOK, RunType
<1>3. reaper[l] = "off"
  BY <1>2 DEF OInv, Watchful
<1>4. Watchful'
  BY <1>2, <1>3 DEF OInv, Watchful
<1>5. Owned'
  <2>1. Registered(run[l].id) =>
          run'[l].obj \in Object /\ inst[run'[l].obj].id = run[l].id
    BY <1>2, GetInstanceRegistered DEF OInv, IInv, TypeOK
  <2> QED
    BY <1>2, <1>3, <2>1 DEF OInv, Owned, Acts
<1> QED
  BY <1>1, <1>4, <1>5 DEF OInv

\* A launch begins and may relieve another one.
LEMMA BeginOwned ==
  ASSUME OInv, IInv', NEW n, NEW a, NEW l, Begins(n, a, l),
         l \in Launch => run'[l].pc \in Later /\ reaper'[l] = "off",
         \A o \in Object : inst'[o].id = inst[o].id
  PROVE  OInv'
<1> USE DEF Begins
<1>1. Watchful'
  BY DEF OInv, Watchful
<1>2. \A m \in Launch : m \in Object
  BY DEF Object
<1>3. Owned'
  BY <1>2 DEF OInv, Owned, Acts, Later
<1> QED
  BY <1>1, <1>3 DEF OInv

\* wrapperDown removes the account, copies the registry and writes the file.
LEMMA ReaperFacts ==
  ASSUME IInv, NEW l \in Launch, ReaperRemove(l) \/ ReaperCopy(l) \/ ReaperWrite(l)
  PROVE  /\ UNCHANGED <<inst, run, login, toRestore>>
         /\ reaper[l] # "off"
         /\ \A m \in Launch \ {l} : reaper'[m] = reaper[m]
BY DEF ReaperRemove, ReaperCopy, ReaperWrite, registry, launches, requests, startup,
       IInv, TypeOK

LEMMA ReaperOwned ==
  ASSUME OInv, NEW l \in Launch, ReaperRemove(l) \/ ReaperCopy(l) \/ ReaperWrite(l)
  PROVE  OInv'
<1>1. IInv'
  BY ReaperRemoveStep, ReaperCopyStep, ReaperWriteStep DEF OInv
<1>2. \A m \in Launch : reaper'[m] # "off" => reaper[m] # "off"
  BY ReaperFacts DEF OInv
<1>3. UNCHANGED <<inst, run>>
  BY ReaperFacts DEF OInv
<1> QED
  BY <1>1, <1>2, <1>3 DEF OInv, Watchful, Owned, Acts

LEMMA AsideOwned == ASSUME OInv, Aside, [Next]_vars PROVE OInv'
<1>1. IInv'
  BY NextIInv DEF OInv
<1>2. /\ UNCHANGED <<run, reaper>>
      /\ \A o \in Object : inst'[o].id = inst[o].id
  BY AsideFacts DEF OInv
<1>3. \A m \in Launch : m \in Object
  BY DEF Object
<1> QED
  BY <1>1, <1>2, <1>3 DEF OInv, Watchful, Owned, Acts

\* Before a launch, a login touches neither.
LEMMA LoginOwned ==
  ASSUME OInv, NEW a \in Account, LoginCheck(a) \/ LoginWipe(a) \/ LoginChildFails(a)
  PROVE  OInv'
<1>1. IInv'
  BY LoginCheckStep, LoginWipeStep, LoginChildFailsStep DEF OInv
<1>2. UNCHANGED <<inst, run, reaper>>
  BY DEF LoginCheck, LoginWipe, LoginChildFails, registry, launches, children
<1> QED
  BY <1>1, <1>2 DEF OInv, Watchful, Owned, Acts

\* A new manager has no launches and no objects but the restored ones.
LEMMA StopFacts ==
  ASSUME IInv, ManagerRestart
  PROVE  /\ \A l \in Launch : /\ run'[l].pc \in {"none", "done"} /\ reaper'[l] = "off"
                              /\ inst'[l].id = None
         /\ \A l \in Launch : proc'[l] # "live"
         /\ \A a \in Account : login'[a] = "idle"
<1>1. \A l \in Launch : run'[l].pc \in {"none", "done"} /\ reaper'[l] = "off"
  BY DEF ManagerRestart, Unwatched, IInv, TypeOK, RunType
<1>2. \A l \in Launch : l \in Object /\ l \notin Account
  BY NamesAssumption, LaunchAssumption DEF Launch, Object
<1>3. \A l \in Launch : inst'[l].id = None
  BY <1>2 DEF ManagerRestart, NoObjects
<1>4. \A l \in Launch : proc'[l] # "live"
  BY DEF ManagerRestart, IInv, TypeOK, ProcState
<1> QED
  BY <1>1, <1>3, <1>4 DEF ManagerRestart, NoLogin

LEMMA StopOwned == ASSUME OInv, ManagerRestart PROVE OInv'
<1>1. IInv'
  BY ManagerRestartStep DEF OInv
<1> QED
  BY <1>1, StopFacts DEF OInv, Watchful, Owned, Acts

LEMMA InitOInv == ASSUME Init PROVE OInv
<1>1. IInv
  BY InitIInv
<1>2. \A l \in Launch : l \in Object /\ l \notin Account
  BY NamesAssumption, LaunchAssumption DEF Launch, Object
<1>3. \A l \in Launch : run[l].pc = "none" /\ reaper[l] = "off" /\ inst[l].id = None
  BY <1>2 DEF Init, NoObjects, Unwatched
<1> QED
  BY <1>1, <1>3 DEF OInv, Watchful, Owned, Acts

\* A step is one of these.
LEMMA StepKinds ==
  ASSUME [Next]_vars
  PROVE  \/ ManagerRestart \/ Aside
         \/ \E a \in Account : \/ Restore(a) \/ LoginChildOk(a)
                               \/ LoginCheck(a) \/ LoginWipe(a) \/ LoginChildFails(a)
         \/ \E l \in Launch : \/ LaunchGet(l) \/ Move(l) \/ LaunchRetry(l) \/ ReaperRestart(l)
                              \/ ReaperRemove(l) \/ ReaperCopy(l) \/ ReaperWrite(l)
BY DEF Next, Aside, Move, LoginStep, LaunchStep, ReaperStep

LEMMA NextOInv == ASSUME OInv, [Next]_vars PROVE OInv'
<1>0. IInv'
  BY NextIInv DEF OInv
<1>1. CASE ManagerRestart
  BY <1>1, StopOwned
<1>2. CASE Aside
  BY <1>2, AsideOwned
<1>3. ASSUME NEW a \in Account, Restore(a) \/ LoginChildOk(a) PROVE OInv'
  <2>1. PICK n \in Launch : Begins(n, a, 0)
    BY <1>3, Enter DEF OInv
  <2>2. \A o \in Object : inst'[o].id = inst[o].id
    BY <1>3, Enter DEF OInv
  <2>3. 0 \notin Launch
    BY DEF Launch
  <2> QED
    BY <1>0, <2>1, <2>2, <2>3, BeginOwned
<1>4. ASSUME NEW a \in Account, LoginCheck(a) \/ LoginWipe(a) \/ LoginChildFails(a)
      PROVE  OInv'
  BY <1>4, LoginOwned
<1>5. ASSUME NEW l \in Launch, LaunchRetry(l) \/ ReaperRestart(l) PROVE OInv'
  <2>1. PICK n \in Launch : Begins(n, run[l].id, l)
    BY <1>5, HandOver
  <2>2. run'[l].pc \in Later /\ reaper'[l] = "off" /\ UNCHANGED inst
    BY <1>5, HandOver
  <2> QED
    BY <1>0, <2>1, <2>2, BeginOwned
<1>6. ASSUME NEW l \in Launch, \/ LaunchGet(l) \/ Move(l)
                               \/ ReaperRemove(l) \/ ReaperCopy(l) \/ ReaperWrite(l)
      PROVE  OInv'
  BY <1>6, GetOwned, MoveOwned, ReaperOwned
<1> QED
  BY <1>1, <1>2, <1>3, <1>4, <1>5, <1>6, StepKinds

LEMMA OwnedAlways == Spec => []OInv
<1>1. Init => OInv
  BY InitOInv
<1>2. OInv /\ [Next]_vars => OInv'
  BY NextOInv
<1> QED
  BY <1>1, <1>2, PTL DEF Spec

-----------------------------------------------------------------------------
(***************************************************************************)
(* Logouts that are final.  In a sealed account everything but the wait    *)
(* for a process is over, and the object that the waiting goroutine holds  *)
(* is marked.  Only LaunchReset clears a mark, and it would need a launch  *)
(* of the account under way.                                               *)
(***************************************************************************)
Over(a) == Sealed(a)' \/ login'[a] # "idle" \/ a \in toRestore'

LEMMA SealedLater ==
  ASSUME OInv, NEW a \in Account, Sealed(a), NEW l \in Launch, Chain(l), run[l].id = a
  PROVE  /\ reaper[l] # "off" /\ run[l].pc \in Later
         /\ run[l].obj \in Object /\ inst[run[l].obj].id = a /\ inst[run[l].obj].noRestart
BY DEF OInv, Watchful, Owned, Acts, Sealed, Later

\* What keeps an account sealed.
LEMMA SealedKeeps ==
  ASSUME OInv, NEW a \in Account, Sealed(a),
         a \notin toRestore', login'[a] = "idle",
         \A l \in Launch : Chain(l)' /\ run'[l].id = a =>
           Chain(l) /\ run[l].id = a /\ run'[l].obj = run[l].obj /\ reaper'[l] # "off",
         \A o \in Object : inst[o].id = a /\ inst[o].noRestart => inst'[o].noRestart
  PROVE  Sealed(a)'
<1>1. ASSUME NEW l \in Launch, Chain(l)', run'[l].id = a
      PROVE  reaper'[l] # "off" /\ inst'[run'[l].obj].noRestart
  BY <1>1, SealedLater
<1> QED
  BY <1>1 DEF Sealed

LEMMA MoveSealed ==
  ASSUME OInv, NEW a \in Account, Sealed(a), NEW l \in Launch, Move(l)
  PROVE  Over(a)
<1> USE MoveFacts DEF OInv
<1>1. a \notin toRestore' /\ login'[a] = "idle"
  BY DEF Sealed
<1>2. ASSUME NEW m \in Launch, Chain(m)', run'[m].id = a
      PROVE  Chain(m) /\ reaper'[m] # "off"
  <2>1. Chain(m)
    BY <1>2 DEF Chain, Later, IInv, TypeOK, RunType, RunPc
  <2>2. reaper[m] # "off" /\ run[m].pc \in Later
    BY <1>2, <2>1, SealedLater
  <2> QED
    BY <2>1, <2>2
<1>3. ASSUME NEW o \in Object, inst[o].id = a, inst[o].noRestart
      PROVE  inst'[o].noRestart
  <2>1. CASE run[l].pc = "reset" /\ o = run[l].obj
    <3>1. Chain(l) /\ run[l].id = a
      BY <1>3, <2>1 DEF Chain, Owned, Acts
    <3> QED
      BY <2>1, <3>1, SealedLater DEF Later
  <2>2. CASE ~(run[l].pc = "reset" /\ o = run[l].obj)
    BY <1>3, <2>2, MoveObjects
  <2> QED
    BY <2>1, <2>2
<1> QED
  BY <1>1, <1>2, <1>3, SealedKeeps DEF Over

\* The step of a launch that no chain of the account can be.
LEMMA GetSealed ==
  ASSUME OInv, NEW a \in Account, Sealed(a), NEW l \in Launch, LaunchGet(l)
  PROVE  Over(a)
<1>1. /\ run[l].pc = "get" /\ UNCHANGED <<inst, reaper, login, toRestore>>
      /\ \A m \in Launch \ {l} : run'[m] = run[m]
      /\ run'[l].id = run[l].id
  BY DEF LaunchGet, registry, children, requests, startup, OInv, IInv, TypeOK, RunType
<1>2. run[l].id # a
  BY <1>1, SealedLater DEF Chain, Later
<1>3. \A m \in Launch : Chain(m)' /\ run'[m].id = a =>
         Chain(m) /\ run[m].id = a /\ run'[m].obj = run[m].obj /\ reaper'[m] # "off"
  BY <1>1, <1>2, SealedLater DEF Chain
<1> QED
  BY <1>1, <1>3, SealedKeeps DEF Sealed, Over

\* A launch of another account begins.
LEMMA BeginSealed ==
  ASSUME OInv, NEW a \in Account, Sealed(a), NEW n, NEW b, b # a, NEW l, Begins(n, b, l),
         l \in Launch => run[l].id # a,
         login'[a] = "idle", a \notin toRestore',
         \A o \in Object : inst[o].noRestart => inst'[o].noRestart
  PROVE  Over(a)
<1>1. \A m \in Launch : Chain(m)' /\ run'[m].id = a =>
         Chain(m) /\ run[m].id = a /\ run'[m].obj = run[m].obj /\ reaper'[m] # "off"
  BY SealedLater DEF Begins, Chain
<1> QED
  BY <1>1, SealedKeeps DEF Over

LEMMA HandOverSealed ==
  ASSUME OInv, NEW a \in Account, Sealed(a), NEW l \in Launch,
         LaunchRetry(l) \/ ReaperRestart(l)
  PROVE  Over(a)
<1>1. /\ Chain(l) /\ ~inst[run[l].obj].noRestart /\ UNCHANGED <<inst, login, toRestore>>
  BY HandOver
<1>2. run[l].id # a
  BY <1>1, SealedLater
<1>3. PICK n \in Launch : Begins(n, run[l].id, l)
  BY HandOver
<1> QED
  BY <1>1, <1>2, <1>3, BeginSealed DEF Sealed

LEMMA EnterSealed ==
  ASSUME OInv, NEW a \in Account, Sealed(a), NEW b \in Account, Restore(b) \/ LoginChildOk(b)
  PROVE  Over(a)
<1>1. b # a
  BY DEF Restore, LoginChildOk, Sealed
<1>2. PICK n \in Launch : Begins(n, b, 0)
  BY Enter DEF OInv
<1>3. /\ login'[a] = "idle" /\ a \notin toRestore'
      /\ \A o \in Object : inst[o].noRestart => inst'[o].noRestart
  BY <1>1, Enter DEF OInv, Sealed
<1>4. 0 \notin Launch
  BY DEF Launch
<1> QED
  BY <1>1, <1>2, <1>3, <1>4, BeginSealed

\* Steps that leave the launches and the watchers to themselves.
LEMMA QuietSealed ==
  ASSUME OInv, NEW a \in Account, Sealed(a),
         UNCHANGED <<run, toRestore>>,
         \A l \in Launch : reaper'[l] # "off" => reaper[l] # "off",
         \A o \in Object : inst[o].noRestart => inst'[o].noRestart
  PROVE  Over(a)
<1>1. \A l \in Launch : Chain(l)' /\ run'[l].id = a => Chain(l) /\ reaper'[l] # "off"
  <2> SUFFICES ASSUME NEW l \in Launch, Chain(l)', run'[l].id = a
               PROVE  Chain(l) /\ reaper'[l] # "off"
    OBVIOUS
  <2>1. Chain(l)
    BY DEF Chain
  <2> QED
    BY <2>1, SealedLater DEF Chain, Later
<1> QED
  BY <1>1, SealedKeeps DEF Over, Sealed

LEMMA NextSealed ==
  ASSUME OInv, NEW a \in Account, Sealed(a), [Next]_vars
  PROVE  Over(a)
<1>1. CASE ManagerRestart
  BY <1>1, StopFacts DEF OInv, Over, Sealed, Chain
<1>2. CASE Aside
  BY <1>2, AsideFacts, QuietSealed DEF OInv
<1>3. ASSUME NEW b \in Account, Restore(b) \/ LoginChildOk(b) PROVE Over(a)
  BY <1>3, EnterSealed
<1>4. ASSUME NEW b \in Account, LoginCheck(b) \/ LoginWipe(b) \/ LoginChildFails(b)
      PROVE  Over(a)
  <2>1. UNCHANGED <<inst, run, reaper, toRestore>>
    BY <1>4 DEF LoginCheck, LoginWipe, LoginChildFails, registry, launches, children, startup
  <2> QED
    BY <2>1, QuietSealed
<1>5. ASSUME NEW l \in Launch, LaunchRetry(l) \/ ReaperRestart(l) PROVE Over(a)
  BY <1>5, HandOverSealed
<1>6. ASSUME NEW l \in Launch, LaunchGet(l) \/ Move(l) PROVE Over(a)
  BY <1>6, GetSealed, MoveSealed
<1>7. ASSUME NEW l \in Launch, ReaperRemove(l) \/ ReaperCopy(l) \/ ReaperWrite(l)
      PROVE  Over(a)
  <2>1. \A m \in Launch : reaper'[m] # "off" => reaper[m] # "off"
    BY <1>7, ReaperFacts DEF OInv
  <2>2. UNCHANGED <<inst, run, toRestore>>
    BY <1>7, ReaperFacts DEF OInv
  <2> QED
    BY <2>1, <2>2, QuietSealed
<1> QED
  BY <1>1, <1>2, <1>3, <1>4, <1>5, <1>6, <1>7, StepKinds

\* Only LaunchSpawn starts a process.
LEMMA SpawnOnly ==
  ASSUME IInv, [Next]_vars, NEW l \in Launch, proc'[l] = "live", proc[l] # "live"
  PROVE  LaunchSpawn(l)
<1> USE DEF registry, launches, children, requests, startup
<1>1. ASSUME NEW id, proc' = Killed(id) PROVE FALSE
  BY <1>1 DEF Killed, IInv, TypeOK
<1>2. CASE ManagerRestart
  BY <1>2, StopFacts
<1>3. CASE Aside
  <2>1. CASE \E a \in Account : LogoutGet(a) \/ LogoutStep(a)
    BY <1>1, <2>1
    DEF LogoutGet, LogoutStep, LogoutMark, LogoutKill, LogoutKillFails, LogoutWipe,
        LogoutWipePanics, LogoutCopy, LogoutWrite
  <2>2. CASE \E m \in Launch : HealthStep(m) \/ \E s \in BOOLEAN : HealthSignal(m, s)
    BY <1>1, <2>2
    DEF HealthSignal, HealthStep, HealthMark, HealthKill, HealthRemove, HealthWipe,
        HealthCopy, HealthWrite
  <2>3. CASE \E m \in Launch : Crash(m)
    BY <2>3 DEF Crash, IInv, TypeOK
  <2>4. CASE UNCHANGED vars
    BY <2>4 DEF vars
  <2> QED
    BY <1>3, <2>1, <2>2, <2>3, <2>4 DEF Aside
<1>4. CASE \E a \in Account : \/ Restore(a) \/ LoginChildOk(a)
                              \/ LoginCheck(a) \/ LoginWipe(a) \/ LoginChildFails(a)
  BY <1>4 DEF Restore, LoginChildOk, LoginCheck, LoginWipe, LoginChildFails
<1>5. ASSUME NEW m \in Launch, \/ LaunchGet(m) \/ LaunchRetry(m) \/ ReaperRestart(m)
                               \/ ReaperRemove(m) \/ ReaperCopy(m) \/ ReaperWrite(m)
      PROVE  FALSE
  BY <1>5 DEF LaunchGet, LaunchRetry, ReaperRestart, ReaperRemove, ReaperCopy, ReaperWrite
<1>6. ASSUME NEW m \in Launch, Move(m) PROVE m = l /\ LaunchSpawn(l)
  <2>1. CASE LaunchSpawn(m)
    BY <2>1 DEF LaunchSpawn, IInv, TypeOK
  <2>2. CASE ~LaunchSpawn(m)
    BY <1>6, <2>2
    DEF Move, LaunchInsert, LaunchReset, LaunchPollReady, LaunchFails, LaunchArmReaper,
        LaunchCount, LaunchCopy, LaunchWrite, LaunchGiveUp, LaunchLoginFailed
  <2> QED
    BY <2>1, <2>2
<1> QED
  BY <1>2, <1>3, <1>4, <1>5, <1>6, StepKinds

(***************************************************************************)
(* wrapper.go WrapperStart and wrapperDown, login.go startLogout: once the *)
(* object of an account is marked while nothing but the wait for its       *)
(* process is under way, the account stays down in every environment:      *)
(* neither crashes, slow starts, failure lines that come late, overlapping *)
(* logouts and saves nor the logins of other accounts clear the mark or    *)
(* start a process, until somebody logs in to it or the manager restarts.  *)
(***************************************************************************)
THEOREM StaysDown == Spec => SealedStaysDown
<1> DEFINE A == \A a \in Account : Sealed(a) =>
                  /\ Sealed(a)' \/ login'[a] # "idle" \/ a \in toRestore'
                  /\ \A l \in Launch : run[l].id = a /\ proc'[l] = "live" => proc[l] = "live"
<1>1. OInv /\ [Next]_vars => A
  <2> SUFFICES ASSUME OInv, [Next]_vars, NEW a \in Account, Sealed(a)
               PROVE  /\ Over(a)
                      /\ \A l \in Launch : run[l].id = a /\ proc'[l] = "live" => proc[l] = "live"
    BY DEF Over
  <2>1. ASSUME NEW l \in Launch, run[l].id = a, proc'[l] = "live", proc[l] # "live"
        PROVE  FALSE
    <3>1. run[l].pc = "spawn"
      BY <2>1, SpawnOnly DEF LaunchSpawn, OInv
    <3> QED
      BY <2>1, <3>1, SealedLater DEF Chain, Later
  <2> QED
    BY <2>1, NextSealed
<1> HIDE DEF A
<1>2. [][A]_vars => SealedStaysDown
  BY PTL DEF SealedStaysDown, A
<1> QED
  BY <1>1, <1>2, OwnedAlways, PTL DEF Spec

-----------------------------------------------------------------------------
(***************************************************************************)
(* One supervisor.  A chain of goroutines begins with a restore or with a  *)
(* login whose child has cached the tokens, and hands over to one launch   *)
(* at a time.  No chain runs where one is about to begin, provided that    *)
(* nobody logs in to an account that something works on: the "already      *)
(* login" check of startLogin does not see a restart under way.            *)
(***************************************************************************)
Entering ==
  \A a \in Account :
    /\ login[a] # "idle" => toRestore = {}
    /\ a \in toRestore \/ login[a] \in {"checked", "child"}
         => \A l \in Launch : Chain(l) => run[l].id # a

CInv == OInv /\ OneSupervisor /\ Entering

\* Chains only end, and accounts only leave the entrance.
LEMMA ChainKeeps ==
  ASSUME CInv, OInv',
         \A m \in Launch : run'[m].id = run[m].id /\ (Chain(m)' => Chain(m)),
         toRestore' = toRestore \/ toRestore' = {},
         \A a \in Account : /\ login'[a] # "idle" => login[a] # "idle"
                            /\ login'[a] \in {"checked", "child"} => login[a] \in {"checked", "child"}
  PROVE  CInv'
<1>1. OneSupervisor'
  BY DEF CInv, OneSupervisor
<1>2. Entering'
  BY DEF CInv, Entering
<1> QED
  BY <1>1, <1>2 DEF CInv

\* A chain begins where there is none, or takes over from the one there is.
LEMMA ChainBegins ==
  ASSUME CInv, OInv', NEW n \in Launch, NEW a \in Account, NEW l, Begins(n, a, l),
         l \in Launch => run'[l].pc \in Later /\ reaper'[l] = "off",
         \A m \in Launch : Chain(m) /\ run[m].id = a => m = l,
         toRestore' \subseteq toRestore, a \notin toRestore',
         \A b \in Account : /\ login'[b] # "idle" => login[b] # "idle"
                            /\ login'[b] \in {"checked", "child"}
                                 => b # a /\ login[b] \in {"checked", "child"}
  PROVE  CInv'
<1>1. ASSUME NEW m \in Launch, Chain(m)', m # n
      PROVE  Chain(m) /\ run'[m].id = run[m].id /\ m # l
  BY <1>1 DEF Begins, Chain, Later
<1>2. run'[n].id = a
  BY DEF Begins
<1>3. OneSupervisor'
  BY <1>1, <1>2 DEF CInv, OneSupervisor
<1>4. Entering'
  BY <1>1, <1>2 DEF CInv, Entering
<1> QED
  BY <1>3, <1>4 DEF CInv

LEMMA InitCInv == ASSUME Init PROVE CInv
<1>1. \A l \in Launch : ~Chain(l)
  BY DEF Init, Unwatched, Chain
<1> QED
  BY <1>1, InitOInv DEF CInv, OneSupervisor, Entering, Init, NoLogin

\* The account of a login that begins has no chain.
LEMMA LoginApart ==
  ASSUME IInv, "eagerLogin" \notin Env, NEW a \in Account, LoginCheck(a)
  PROVE  \A l \in Launch : Chain(l) => run[l].id # a
BY DEF LoginCheck, Busy, Chain

LEMMA NextCInv == ASSUME CInv, "eagerLogin" \notin Env, [Next]_vars PROVE CInv'
<1>0. OInv' /\ OInv /\ IInv
  BY NextOInv DEF CInv, OInv
<1>1. CASE ManagerRestart
  <2>1. \A l \in Launch : ~Chain(l)'
    BY <1>0, <1>1, StopFacts DEF Chain
  <2>2. \A a \in Account : login'[a] = "idle"
    BY <1>0, <1>1, StopFacts
  <2> QED
    BY <1>0, <2>1, <2>2 DEF CInv, OneSupervisor, Entering
<1>2. CASE Aside
  <2>1. UNCHANGED <<run, reaper, login, toRestore>>
    BY <1>0, <1>2, AsideFacts
  <2> QED
    BY <1>0, <2>1, ChainKeeps DEF Chain
<1>3. ASSUME NEW a \in Account, Restore(a) PROVE CInv'
  <2>1. PICK n \in Launch : Begins(n, a, 0)
    BY <1>0, <1>3, Enter
  <2>2. /\ toRestore' = toRestore \ {a} /\ UNCHANGED login /\ a \in toRestore
        /\ 0 \notin Launch
    BY <1>3 DEF Restore, requests, Launch
  <2>3. \A b \in Account : login[b] = "idle"
    BY <2>2 DEF CInv, Entering
  <2>4. \A m \in Launch : Chain(m) => run[m].id # a
    BY <2>2 DEF CInv, Entering
  <2> QED
    BY <1>0, <2>1, <2>2, <2>3, <2>4, ChainBegins
<1>4. ASSUME NEW a \in Account, LoginChildOk(a) PROVE CInv'
  <2>1. PICK n \in Launch : Begins(n, a, 0)
    BY <1>0, <1>4, Enter
  <2>2. /\ UNCHANGED toRestore /\ login[a] = "child" /\ login'[a] = "finishing"
        /\ \A b \in Account \ {a} : login'[b] = login[b]
        /\ 0 \notin Launch
    BY <1>0, <1>4 DEF LoginChildOk, startup, Launch, IInv, TypeOK
  <2>3. toRestore = {}
    BY <2>2 DEF CInv, Entering
  <2>4. \A m \in Launch : Chain(m) => run[m].id # a
    BY <2>2 DEF CInv, Entering
  <2> QED
    BY <1>0, <2>1, <2>2, <2>3, <2>4, ChainBegins
<1>5. ASSUME NEW a \in Account, LoginCheck(a) PROVE CInv'
  <2>1. /\ UNCHANGED <<run, reaper, toRestore>> /\ toRestore = {}
        /\ \A b \in Account \ {a} : login'[b] = login[b]
    BY <1>0, <1>5 DEF LoginCheck, launches, children, startup, IInv, TypeOK
  <2>2. \A l \in Launch : Chain(l) => run[l].id # a
    BY <1>0, <1>5, LoginApart
  <2>3. \A l \in Launch : Chain(l)' <=> Chain(l)
    BY <2>1 DEF Chain
  <2> QED
    BY <1>0, <2>1, <2>2, <2>3 DEF CInv, OneSupervisor, Entering
<1>6. ASSUME NEW a \in Account, LoginWipe(a) \/ LoginChildFails(a) PROVE CInv'
  <2>1. /\ UNCHANGED <<run, reaper, toRestore>> /\ login[a] \in {"checked", "child"}
        /\ \A b \in Account : login'[b] = login[b] \/ b = a
    BY <1>0, <1>6 DEF LoginWipe, LoginChildFails, launches, children, startup, IInv, TypeOK
  <2>2. \A l \in Launch : Chain(l)' <=> Chain(l)
    BY <2>1 DEF Chain
  <2> QED
    BY <1>0, <2>1, <2>2, ChainKeeps
<1>7. ASSUME NEW l \in Launch, LaunchRetry(l) \/ ReaperRestart(l) PROVE CInv'
  <2>1. PICK n \in Launch : Begins(n, run[l].id, l)
    BY <1>0, <1>7, HandOver
  <2>2. /\ Chain(l) /\ run'[l].pc \in Later /\ reaper'[l] = "off"
        /\ UNCHANGED <<login, toRestore>>
    BY <1>0, <1>7, HandOver
  <2>3. run[l].id \in Account
    BY <1>0, <2>2 DEF IInv, Named, Chain
  <2>4. /\ run[l].id \notin toRestore /\ login[run[l].id] \notin {"checked", "child"}
        /\ \A m \in Launch : Chain(m) /\ run[m].id = run[l].id => m = l
    BY <2>2, <2>3 DEF CInv, Entering, OneSupervisor
  <2>5. \A b \in Account : login'[b] \in {"checked", "child"} => b # run[l].id
    BY <2>2, <2>4
  <2> QED
    BY <1>0, <2>1, <2>2, <2>3, <2>4, <2>5, ChainBegins
<1>8. ASSUME NEW l \in Launch, LaunchGet(l) PROVE CInv'
  <2>1. /\ run[l].pc = "get" /\ UNCHANGED <<reaper, login, toRestore>>
        /\ \A m \in Launch : run'[m].id = run[m].id /\ (m # l => run'[m].pc = run[m].pc)
    BY <1>0, <1>8 DEF LaunchGet, children, requests, startup, IInv, TypeOK, RunType
  <2>2. \A m \in Launch : Chain(m)' => Chain(m)
    BY <2>1 DEF Chain
  <2> QED
    BY <1>0, <2>1, <2>2, ChainKeeps
<1>9. ASSUME NEW l \in Launch, Move(l) PROVE CInv'
  <2>1. \A m \in Launch : Chain(m)' => Chain(m)
    BY <1>0, <1>9, MoveFacts DEF Chain, Later, IInv, TypeOK, RunType, RunPc
  <2>2. /\ \A m \in Launch : run'[m].id = run[m].id
        /\ toRestore' = toRestore
        /\ \A a \in Account : login'[a] = login[a] \/ login'[a] = "idle"
    BY <1>0, <1>9, MoveFacts
  <2> QED
    BY <1>0, <2>1, <2>2, ChainKeeps
<1>10. ASSUME NEW l \in Launch, ReaperRemove(l) \/ ReaperCopy(l) \/ ReaperWrite(l)
       PROVE  CInv'
  <2>1. /\ UNCHANGED <<run, login, toRestore>>
        /\ \A m \in Launch : reaper'[m] # "off" => reaper[m] # "off"
    BY <1>0, <1>10, ReaperFacts
  <2> QED
    BY <1>0, <2>1, ChainKeeps DEF Chain
<1> QED
  BY <1>1, <1>2, <1>3, <1>4, <1>5, <1>6, <1>7, <1>8, <1>9, <1>10, StepKinds

(***************************************************************************)
(* wrapper.go: an account has one chain of goroutines that restarts it,    *)
(* and so one process that somebody waits for, whatever crashes, slow and  *)
(* failed starts, restarts of the manager, failure lines and logouts at    *)
(* any time interleave, if nobody logs in to an account that a chain works *)
(* on.                                                                     *)
(***************************************************************************)
THEOREM Supervisor == "eagerLogin" \notin Env => (Spec => []OneSupervisor)
<1>1. CInv => OneSupervisor
  BY DEF CInv
<1>2. "eagerLogin" \notin Env /\ CInv /\ [Next]_vars => CInv'
  BY NextCInv
<1>3. Init => CInv
  BY InitCInv
<1>4. CASE "eagerLogin" \notin Env
  BY <1>1, <1>2, <1>3, <1>4, PTL DEF Spec
<1> QED
  BY <1>4

\* A goroutine waits for the process of the object that the logout has found.
Watched(a) ==
  \E l \in Launch : /\ run[l].id = a /\ reaper[l] \in {"waiting", "removed"}
                    /\ run[l].obj = logout[a].obj

(***************************************************************************)
(* login.go startLogout: a logout that marks the object whose process is   *)
(* watched seals the account, and by StaysDown it stays down: crashes,     *)
(* slow starts and stale lines included, under the same condition.         *)
(***************************************************************************)
THEOREM MarkSeals ==
  "eagerLogin" \notin Env =>
    (Spec => [][\A a \in Account :
                  LogoutMark(a) /\ Watched(a) /\ login[a] = "idle" => Sealed(a)']_vars)
<1> DEFINE A == \A a \in Account :
                  LogoutMark(a) /\ Watched(a) /\ login[a] = "idle" => Sealed(a)'
<1>1. CInv => [A]_vars
  <2> SUFFICES ASSUME CInv, NEW a \in Account, LogoutMark(a), Watched(a), login[a] = "idle"
               PROVE  Sealed(a)'
    OBVIOUS
  <2>1. /\ inst' = [inst EXCEPT ![logout[a].obj].noRestart = TRUE]
        /\ UNCHANGED <<run, reaper, login, toRestore>>
    BY DEF LogoutMark, launches, children, startup
  <2>2. PICK l \in Launch : /\ run[l].id = a /\ reaper[l] # "off" /\ run[l].obj = logout[a].obj
    BY DEF Watched
  <2>3. Chain(l) /\ run[l].obj \in Object
    BY <2>2 DEF Chain, CInv, OInv, Owned, Acts
  <2>4. \A m \in Launch : Chain(m) /\ run[m].id = a => m = l
    BY <2>2, <2>3 DEF CInv, OneSupervisor
  <2>5. inst'[run[l].obj].noRestart
    BY <2>1, <2>2, <2>3 DEF CInv, OInv, IInv, TypeOK, InstanceType
  <2>6. a \notin toRestore
    BY <2>2, <2>3 DEF CInv, Entering
  <2>7. \A m \in Launch : Chain(m)' <=> Chain(m)
    BY <2>1 DEF Chain
  <2> QED
    BY <2>1, <2>2, <2>4, <2>5, <2>6, <2>7 DEF Sealed
<1> HIDE DEF A
<1>2. [][A]_vars => [][\A a \in Account :
                        LogoutMark(a) /\ Watched(a) /\ login[a] = "idle" => Sealed(a)']_vars
  BY PTL DEF A
<1>3. "eagerLogin" \notin Env /\ CInv /\ [Next]_vars => CInv'
  BY NextCInv
<1>4. CASE "eagerLogin" \notin Env
  BY <1>1, <1>2, <1>3, <1>4, InitCInv, PTL DEF Spec
<1> QED
  BY <1>4

=============================================================================
