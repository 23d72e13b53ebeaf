----------------------------- MODULE Lifecycle -----------------------------
(***************************************************************************)
(* The life of the wrapper-lite service processes that wrapper-manager     *)
(* supervises, one per account: restore at start-up (main.go), WrapperStart*)
(* and finishLoginSuccess (one "launch" each), the process exit watcher    *)
(* wrapperDown, the log watcher's account-failure handlers, POST /login and*)
(* POST /logout, and the registry Instances with its file instances.json.  *)
(*                                                                         *)
(* A launch is one invocation of WrapperStart or of finishLoginSuccess's   *)
(* goroutine; launches are numbered in the order in which they begin.  The *)
(* WrapperInstance objects are the restored ones, named by their account,  *)
(* and the ones a launch allocates, named by the launch.  Objects keep     *)
(* their identity after they leave the registry: goroutines still hold     *)
(* pointers to them.  Every access to Instances is one step, because       *)
(* instancesMu covers it; every unlocked field access is a step of its own.*)
(* SaveInstances copies the registry under that mutex and replaces the file*)
(* without it, which are two steps (RegistryFile has the system calls).    *)
(***************************************************************************)
EXTENDS Naturals, FiniteSets

CONSTANTS
  Account,     \* instance ids
  Persisted,   \* the accounts in instances.json when the manager starts
  MaxLaunch,   \* bound: how many launches are explored
  Env,         \* what the environment may do, a subset of EnvKinds
  None         \* nil

EnvKinds ==
  { "crash",        \* a service process exits by itself
    "health",       \* a service process logs an account-failure line
    "staleLine",    \* such a line is handled after the process has exited
    "stop",         \* the manager is stopped or killed, and started again
    "spawnFail",    \* exec of a service process fails
    "slowStart",    \* a healthy service can miss liteReadyTimeout
    "login",        \* POST /login for an account with nothing running
    "eagerLogin",   \* POST /login at any time
    "logout",       \* POST /logout of an account that is up
    "eagerLogout" } \* POST /logout at any time

ASSUME PersistedAssumption == Persisted \subseteq Account
ASSUME LaunchAssumption == MaxLaunch \in Nat
ASSUME EnvAssumption == Env \subseteq EnvKinds
ASSUME NamesAssumption ==
  /\ None \notin Account /\ None \notin Nat
  /\ Account \cap Nat = {}

Launch == 1..MaxLaunch
Object == Account \cup Launch

\* The calls of SaveInstances: in finishLoginSuccess, wrapperDown, the failure
\* handlers and startLogout.
Saver == ({"login", "reaper", "health"} \X Launch) \cup ({"logout"} \X Account)

VARIABLES
  instances,     \* the registry Instances, as the set of its objects
  inst,          \* the fields of every WrapperInstance object
  started,       \* number of launches begun so far
  run,           \* control state of every launch
  proc,          \* the service process that launch l started
  reaper,        \* the goroutine that waits for that process to exit
  health,        \* the account-failure handler run by its log watcher
  unhealthyOnce, \* ids whose sync.Once has fired
  login,         \* the login attempt of every account
  logout,        \* the logout request of every account
  tokens,        \* accounts whose data directory holds the token files
  file,          \* accounts recorded in instances.json
  list,          \* what every SaveInstances under way has copied
  toStart,       \* the accounts main found there: ShouldStartInstances many
  toRestore,     \* those of them it has not restored yet
  ready,         \* the Ready flag
  told,          \* history: what the manager last did about the account
  stale          \* history: accounts that joined or left the registry between
                 \* the copy and the write of what is in the file

registry == <<instances, inst, unhealthyOnce>>
launches == <<started, run>>
children == <<proc, reaper, health>>
requests == <<login, logout>>
disk == <<tokens, file, list>>
startup == <<toStart, toRestore, ready>>
history == <<told, stale>>
vars == <<registry, launches, children, requests, disk, startup, history>>

RunPc == {"none", "get", "insert", "reset", "spawn", "poll", "recheck",
          "count", "save", "write", "failed", "done"}
HealthPc == {"idle", "mark", "kill", "remove", "wipe", "save", "write"}
LogoutPc == {"idle", "mark", "kill", "wipe", "save", "write"}
ToldStates == {"none", "joining", "in", "leaving", "out", "gone", "erred"}
ProcState == {"none", "live", "dead", "orphan", "gone"}
ReaperState == {"off", "waiting", "removed", "write"}
LoginPc == {"idle", "checked", "child", "finishing"}

InstanceType == [id: Account \cup {None}, region: BOOLEAN, noRestart: BOOLEAN,
                 port: Launch \cup {0}, cmd: Launch \cup {0}]
RunType == [pc: RunPc, id: Account \cup {None}, obj: Object \cup {None},
            login: BOOLEAN, port: Launch \cup {0}]
HealthType == [pc: HealthPc, subscription: BOOLEAN]
LogoutType == [pc: LogoutPc, obj: Object \cup {None}]

(***************************************************************************)
(* Type correctness of the registry, the objects and the control states.   *)
(***************************************************************************)
TypeOK ==
  /\ instances \subseteq Object
  /\ inst \in [Object -> InstanceType]
  /\ started \in 0..MaxLaunch
  /\ run \in [Launch -> RunType]
  /\ proc \in [Launch -> ProcState]
  /\ reaper \in [Launch -> ReaperState]
  /\ health \in [Launch -> HealthType]
  /\ unhealthyOnce \subseteq Account
  /\ login \in [Account -> LoginPc]
  /\ logout \in [Account -> LogoutType]
  /\ tokens \subseteq Account
  /\ file \subseteq Account
  /\ list \in [Saver -> SUBSET Account]
  /\ toStart \subseteq Account
  /\ toRestore \subseteq Account
  /\ ready \in BOOLEAN
  /\ told \in [Account -> ToldStates]
  /\ stale \subseteq Account

\* No object has been filled in; the restored ones are named by their account.
NoObjects == [o \in Object |-> [id |-> IF o \in Account THEN o ELSE None,
                                region |-> FALSE, noRestart |-> FALSE,
                                port |-> 0, cmd |-> 0]]

\* No process of this manager is watched, and no request is being served.
Unwatched == [l \in Launch |-> "off"]
NoHealth == [l \in Launch |-> [pc |-> "idle", subscription |-> FALSE]]
NoLogin == [a \in Account |-> "idle"]
NoLogout == [a \in Account |-> [pc |-> "idle", obj |-> None]]
NoSaves == [s \in Saver |-> {}]

Init ==
  /\ instances = {}
  /\ inst = NoObjects
  /\ started = 0
  /\ run = [l \in Launch |-> [pc |-> "none", id |-> None, obj |-> None,
                              login |-> FALSE, port |-> 0]]
  /\ proc = [l \in Launch |-> "none"]
  /\ reaper = Unwatched
  /\ health = NoHealth
  /\ unhealthyOnce = {}
  /\ login = NoLogin
  /\ logout = NoLogout
  /\ tokens = Persisted
  /\ file = Persisted
  /\ list = NoSaves
  /\ toStart = Persisted
  /\ toRestore = Persisted
  /\ ready = (Persisted = {})
  /\ told = [a \in Account |-> IF a \in Persisted THEN "in" ELSE "none"]
  /\ stale = {}

-----------------------------------------------------------------------------
(***************************************************************************)
(* The registry.  Instances is searched by id; the first match is used.    *)
(***************************************************************************)
\* Mutant: the search skips an instance that has no region yet.
RegisteredIfReady(id) == \E o \in instances : inst[o].id = id /\ inst[o].region

Registered(id) == \E o \in instances : inst[o].id = id

GetInstance(id) ==
  IF Registered(id) THEN CHOOSE o \in instances : inst[o].id = id ELSE None

\* InsertInstance of object o for id: a no-op when the id is registered,
\* otherwise it also forgets the unhealthy-once guard of the id.
InsertInstance(o, id) ==
  IF Registered(id)
    THEN UNCHANGED <<instances, unhealthyOnce>>
    ELSE /\ instances' = instances \cup {o}
         /\ unhealthyOnce' = unhealthyOnce \ {id}

\* RemoveInstance compares ids: it removes whatever object has the id.
RemoveInstance(id) == instances' = instances \ {GetInstance(id)}

\* The accounts in Instances.
Listed == {inst[o].id : o \in instances}

\* Mutant: the list leaves out the instances that have a region.
CopyUnready(s) ==
  list' = [list EXCEPT ![s] = {inst[o].id : o \in {p \in instances : ~inst[p].region}}]

\* SaveInstances under instancesMu: the list of the registered instances.
CopyInstances(s) == list' = [list EXCEPT ![s] = Listed]

\* Mutant: the accounts that the file already holds are kept.
WriteMerged(s) ==
  /\ file' = file \cup list[s]
  /\ list' = [list EXCEPT ![s] = {}]
  /\ stale' = {a \in Account : a \in list[s] <=> a \notin Listed}

\* The temporary file is written and renamed, whatever has been registered,
\* removed or saved since the copy.
WriteInstances(s) ==
  /\ file' = list[s]
  /\ list' = [list EXCEPT ![s] = {}]
  /\ stale' = {a \in Account : a \in list[s] <=> a \notin Listed}

countReady == Cardinality({o \in instances : inst[o].region})

\* A new launch for id on top of the launch states r.
Begin(r, id, isLogin) ==
  [r EXCEPT ![started + 1] = [pc |-> "get", id |-> id, obj |-> None,
                              login |-> isLogin, port |-> 0]]

\* Mutant: the allocator hands out the port after the one it reserved.
PastPort(l) == l + 1

\* GenerateUniquePort never hands out a port twice: the port is named after
\* the launch that asked for it.
FreshPort(l) == l

\* Mutant: a process counts as exited as soon as it runs.
ExitedEarly(l) == proc[l] # "none"

\* The channel "exited" of launch l is closed (by cmd.Wait).
Exited(l) == proc[l] = "dead"

\* Mutants: NoRestart is ignored, either way.
AlwaysRestart(l) == TRUE
NeverRestart(l) == FALSE

\* What WrapperStart (failed) and wrapperDown ask of the object they hold.
RestartWanted(l) == ~inst[run[l].obj].noRestart

\* KillWrapper(id): SIGKILL to the process group of the registered object's
\* Cmd.  It fails without a registered object or a Cmd, and may fail when
\* the process is already dead (ESRCH once it has been waited for).
CanKill(id) ==
  LET o == GetInstance(id) IN o # None /\ inst[o].cmd # 0

KillFails(id) ==
  CanKill(id) => proc[inst[GetInstance(id)].cmd] = "dead"

Killed(id) ==
  IF CanKill(id)
    THEN [proc EXCEPT ![inst[GetInstance(id)].cmd] = "dead"]
    ELSE proc

\* The outcome of a login counts unless a logout or a failure handler
\* overtook it.
Concluded(a, outcome) ==
  [told EXCEPT ![a] = IF @ = "joining" THEN outcome ELSE @]

\* Some live process answers GET /status on o's port with a region: lite
\* reports one only when its data directory holds the tokens.
Answering(o) ==
  \E m \in Launch : /\ proc[m] = "live"
                    /\ run[m].port = inst[o].port
                    /\ run[m].id \in tokens

-----------------------------------------------------------------------------
(***************************************************************************)
(* Start-up: main inserts each persisted instance with its saved region    *)
(* and starts it on a goroutine.                                           *)
(***************************************************************************)
Restore(a) ==
  /\ a \in toRestore
  /\ started < MaxLaunch
  /\ toRestore' = toRestore \ {a}
  /\ \E r \in BOOLEAN : inst' = [inst EXCEPT ![a].region = r]
  /\ InsertInstance(a, a)
  /\ started' = started + 1
  /\ run' = Begin(run, a, FALSE)
  /\ UNCHANGED <<children, requests, disk, toStart, ready, history>>

\* The manager stops, on a signal or killed, and is started again.  main does
\* not stop the services: they go on as orphans, watched by nobody, on ports
\* that GenerateUniquePort finds taken.  A --login child ends with its pipes,
\* and a request under way is never answered.
ManagerRestart ==
  /\ "stop" \in Env
  /\ instances' = {} /\ inst' = NoObjects /\ unhealthyOnce' = {}
  /\ run' = [l \in Launch |-> IF run[l].pc = "none" THEN run[l]
                               ELSE [run[l] EXCEPT !.pc = "done"]]
  /\ proc' = [l \in Launch |-> CASE proc[l] = "live" -> "orphan"
                                 [] proc[l] = "dead" -> "gone"
                                 [] OTHER -> proc[l]]
  /\ reaper' = Unwatched /\ health' = NoHealth
  /\ login' = NoLogin /\ logout' = NoLogout
  /\ toStart' = file /\ toRestore' = file /\ ready' = (file = {})
  /\ told' = [a \in Account |-> IF told[a] \in {"joining", "leaving"}
                                THEN "erred" ELSE told[a]]
  /\ list' = NoSaves
  /\ UNCHANGED <<started, tokens, file, stale>>

-----------------------------------------------------------------------------
(***************************************************************************)
(* A launch: WrapperStart (login = FALSE) or the goroutine of              *)
(* finishLoginSuccess (login = TRUE), with startLiteService inlined.       *)
(***************************************************************************)
LaunchGet(l) ==
  /\ run[l].pc = "get"
  /\ run' = IF Registered(run[l].id)
              THEN [run EXCEPT ![l].pc = "reset",
                               ![l].obj = GetInstance(run[l].id)]
              ELSE [run EXCEPT ![l].pc = "insert", ![l].obj = l]
  /\ UNCHANGED <<registry, started, children, requests, disk, startup,
                 history>>

\* The new object gets a fresh port; finishLoginSuccess then clears
\* NoRestart, as it does for an object it found.
LaunchInsert(l) ==
  /\ run[l].pc = "insert"
  /\ inst' = [inst EXCEPT ![l].id = run[l].id, ![l].port = FreshPort(l)]
  /\ InsertInstance(l, run[l].id)
  /\ run' = [run EXCEPT ![l].pc = IF run[l].login THEN "reset" ELSE "spawn"]
  /\ UNCHANGED <<started, children, requests, disk, startup, history>>

\* WrapperStart gives a registered object a fresh port; a login keeps it.
LaunchReset(l) ==
  /\ run[l].pc = "reset"
  /\ inst' = [inst EXCEPT ![run[l].obj].noRestart = FALSE,
                          ![run[l].obj].port = IF run[l].login THEN @
                                                 ELSE FreshPort(l)]
  /\ run' = [run EXCEPT ![l].pc = "spawn"]
  /\ UNCHANGED <<instances, unhealthyOnce, started, children, requests,
                 disk, startup, history>>

LaunchSpawn(l) ==
  /\ run[l].pc = "spawn"
  /\ proc' = [proc EXCEPT ![l] = "live"]
  /\ inst' = [inst EXCEPT ![run[l].obj].cmd = l]
  /\ run' = [run EXCEPT ![l].pc = "poll", ![l].port = inst[run[l].obj].port]
  /\ UNCHANGED <<instances, unhealthyOnce, started, reaper, health,
                 requests, disk, startup, history>>

\* Mutant: the exit of the process is watched as soon as the service answers.
LaunchPollWatched(l) ==
  /\ run[l].pc = "poll"
  /\ Answering(run[l].obj)
  /\ inst' = [inst EXCEPT ![run[l].obj].region = TRUE]
  /\ reaper' = [reaper EXCEPT ![l] = "waiting"]
  /\ run' = [run EXCEPT ![l].pc = "recheck"]
  /\ UNCHANGED <<instances, unhealthyOnce, started, proc, health, requests,
                 disk, startup, history>>

\* The poll reads the object's current port, so any process on it answers.
LaunchPollReady(l) ==
  /\ run[l].pc = "poll"
  /\ Answering(run[l].obj)
  /\ inst' = [inst EXCEPT ![run[l].obj].region = TRUE]
  /\ run' = [run EXCEPT ![l].pc = "recheck"]
  /\ UNCHANGED <<instances, unhealthyOnce, started, children, requests,
                 disk, startup, history>>

\* startLiteService returns an error: the exec failed, the process exited
\* before or right after it reported a region, or liteReadyTimeout passed, in
\* which case the process is left running.  The check after the poll can
\* miss an exit that cmd.Wait has not reported yet (LaunchArmReaper).
LaunchFails(l) ==
  /\ \/ run[l].pc = "spawn" /\ "spawnFail" \in Env
     \/ run[l].pc \in {"poll", "recheck"} /\ Exited(l)
     \/ /\ run[l].pc = "poll" /\ proc[l] = "live"
        /\ "slowStart" \in Env \/ ~Answering(run[l].obj)
  /\ run' = [run EXCEPT ![l].pc = "failed"]
  /\ UNCHANGED <<registry, started, children, requests, disk, startup,
                 history>>

LaunchArmReaper(l) ==
  /\ run[l].pc = "recheck"
  /\ reaper' = [reaper EXCEPT ![l] = "waiting"]
  /\ run' = [run EXCEPT ![l].pc = "count"]
  /\ UNCHANGED <<registry, started, proc, health, requests, disk, startup,
                 history>>

\* Mutant: one instance more than the persisted ones is waited for.
LaunchCountStrict(l) ==
  /\ run[l].pc = "count"
  /\ ready' = (ready \/ countReady > Cardinality(toStart))
  /\ run' = [run EXCEPT ![l].pc = IF run[l].login THEN "save" ELSE "done"]
  /\ UNCHANGED <<registry, started, children, requests, disk, toStart,
                 toRestore, history>>

LaunchCount(l) ==
  /\ run[l].pc = "count"
  /\ ready' = (ready \/ countReady >= Cardinality(toStart))
  /\ run' = [run EXCEPT ![l].pc = IF run[l].login THEN "save" ELSE "done"]
  /\ UNCHANGED <<registry, started, children, requests, disk, toStart,
                 toRestore, history>>

\* finishLoginSuccess: SaveInstances, then the login replies SUCCESS.
LaunchCopy(l) ==
  /\ run[l].pc = "save"
  /\ CopyInstances(<<"login", l>>)
  /\ run' = [run EXCEPT ![l].pc = "write"]
  /\ UNCHANGED <<registry, started, children, requests, tokens, file, startup,
                 history>>

LaunchWrite(l) ==
  /\ run[l].pc = "write"
  /\ WriteInstances(<<"login", l>>)
  /\ run' = [run EXCEPT ![l].pc = "done"]
  /\ login' = [login EXCEPT ![run[l].id] = "idle"]
  /\ told' = Concluded(run[l].id, "in")
  /\ UNCHANGED <<registry, started, children, logout, tokens, startup>>

\* A failed WrapperStart tries again unless NoRestart was set meanwhile;
\* either way the object stays registered.
LaunchRetry(l) ==
  /\ run[l].pc = "failed" /\ ~run[l].login
  /\ RestartWanted(l)
  /\ started < MaxLaunch
  /\ started' = started + 1
  /\ run' = Begin([run EXCEPT ![l].pc = "done"], run[l].id, FALSE)
  /\ UNCHANGED <<registry, children, requests, disk, startup, history>>

LaunchGiveUp(l) ==
  /\ run[l].pc = "failed" /\ ~run[l].login
  /\ ~RestartWanted(l)
  /\ run' = [run EXCEPT ![l].pc = "done"]
  /\ UNCHANGED <<registry, started, children, requests, disk, startup,
                 history>>

\* finishLoginSuccess with a failed start: loginFailed wipes the data.
LaunchLoginFailed(l) ==
  /\ run[l].pc = "failed" /\ run[l].login
  /\ tokens' = tokens \ {run[l].id}
  /\ login' = [login EXCEPT ![run[l].id] = "idle"]
  /\ run' = [run EXCEPT ![l].pc = "done"]
  /\ told' = Concluded(run[l].id, "none")
  /\ UNCHANGED <<registry, started, children, logout, file, list, startup, stale>>

-----------------------------------------------------------------------------
(***************************************************************************)
(* wrapperDown: runs when the process of a launch that came up has exited. *)
(***************************************************************************)
ReaperRemove(l) ==
  /\ reaper[l] = "waiting" /\ Exited(l)
  /\ RemoveInstance(run[l].id)
  /\ reaper' = [reaper EXCEPT ![l] = "removed"]
  /\ UNCHANGED <<inst, unhealthyOnce, launches, proc, health, requests,
                 disk, startup, history>>

ReaperRestart(l) ==
  /\ reaper[l] = "removed"
  /\ RestartWanted(l)
  /\ started < MaxLaunch
  /\ started' = started + 1
  /\ run' = Begin(run, run[l].id, FALSE)
  /\ reaper' = [reaper EXCEPT ![l] = "off"]
  /\ UNCHANGED <<registry, proc, health, requests, disk, startup, history>>

ReaperCopy(l) ==
  /\ reaper[l] = "removed"
  /\ ~RestartWanted(l)
  /\ CopyInstances(<<"reaper", l>>)
  /\ reaper' = [reaper EXCEPT ![l] = "write"]
  /\ UNCHANGED <<registry, launches, proc, health, requests, tokens, file,
                 startup, history>>

ReaperWrite(l) ==
  /\ reaper[l] = "write"
  /\ WriteInstances(<<"reaper", l>>)
  /\ reaper' = [reaper EXCEPT ![l] = "off"]
  /\ UNCHANGED <<registry, launches, proc, health, requests, tokens,
                 startup, told>>

-----------------------------------------------------------------------------
(***************************************************************************)
(* logLiteOutput: an account-failure line of l's process runs the handler  *)
(* once per id.  handleSubscriptionDead also wipes the account data;       *)
(* handleSessionInvalid keeps it.                                          *)
(***************************************************************************)
HealthSignal(l, subscription) ==
  /\ "health" \in Env
  /\ proc[l] = "live" \/ ("staleLine" \in Env /\ proc[l] = "dead")
  /\ health[l].pc = "idle"
  /\ run[l].id \notin unhealthyOnce
  /\ unhealthyOnce' = unhealthyOnce \cup {run[l].id}
  /\ health' = [health EXCEPT ![l] = [pc |-> "mark",
                                      subscription |-> subscription]]
  /\ UNCHANGED <<instances, inst, launches, proc, reaper, requests, disk,
                 startup, history>>

HealthMark(l) ==
  /\ health[l].pc = "mark"
  /\ inst' = [inst EXCEPT ![run[l].obj].noRestart = TRUE]
  /\ health' = [health EXCEPT ![l].pc = "kill"]
  /\ told' = [told EXCEPT ![run[l].id] = "gone"]
  /\ UNCHANGED <<instances, unhealthyOnce, launches, proc, reaper, requests,
                 disk, startup, stale>>

\* The result of KillWrapper is ignored.
HealthKill(l) ==
  /\ health[l].pc = "kill"
  /\ proc' = Killed(run[l].id)
  /\ health' = [health EXCEPT ![l].pc = "remove"]
  /\ UNCHANGED <<registry, launches, reaper, requests, disk, startup,
                 history>>

HealthRemove(l) ==
  /\ health[l].pc = "remove"
  /\ RemoveInstance(run[l].id)
  /\ health' = [health EXCEPT ![l].pc =
                  IF health[l].subscription THEN "wipe" ELSE "save"]
  /\ UNCHANGED <<inst, unhealthyOnce, launches, proc, reaper, requests,
                 disk, startup, history>>

HealthWipe(l) ==
  /\ health[l].pc = "wipe"
  /\ tokens' = tokens \ {run[l].id}
  /\ health' = [health EXCEPT ![l].pc = "save"]
  /\ UNCHANGED <<registry, launches, proc, reaper, requests, file, list,
                 startup, history>>

HealthCopy(l) ==
  /\ health[l].pc = "save"
  /\ CopyInstances(<<"health", l>>)
  /\ health' = [health EXCEPT ![l].pc = "write"]
  /\ UNCHANGED <<registry, launches, proc, reaper, requests, tokens, file,
                 startup, history>>

HealthWrite(l) ==
  /\ health[l].pc = "write"
  /\ WriteInstances(<<"health", l>>)
  /\ health' = [health EXCEPT ![l].pc = "idle"]
  /\ UNCHANGED <<registry, launches, proc, reaper, requests, tokens,
                 startup, told>>

\* A service process runs, under this manager or left behind by another.
Alive(l) == proc[l] \in {"live", "orphan"}

\* A service process exits by itself (external).
Crash(l) ==
  /\ "crash" \in Env
  /\ Alive(l)
  /\ proc' = [proc EXCEPT ![l] = IF @ = "live" THEN "dead" ELSE "gone"]
  /\ UNCHANGED <<registry, launches, reaper, health, requests, disk,
                 startup, history>>

-----------------------------------------------------------------------------
(***************************************************************************)
(* POST /login without 2FA (module Login has the 2FA states and concurrent *)
(* logins): at most one attempt per account is in flight here.  The API is *)
(* served once main has restored the persisted accounts.                   *)
(***************************************************************************)
\* The account has a registered, ready instance with a watched process.
Up(a) ==
  \E l \in Launch : /\ run[l].id = a /\ reaper[l] = "waiting"
                    /\ proc[l] = "live"
                    /\ run[l].obj \in instances /\ inst[run[l].obj].region

\* Some goroutine still works on the account, or a process of it lives.
Busy(a) ==
  \E l \in Launch : /\ run[l].id = a
                    /\ \/ run[l].pc # "done" \/ reaper[l] # "off"
                       \/ Alive(l) \/ health[l].pc # "idle"

\* startLogin's "already login" check.
LoginCheck(a) ==
  /\ toRestore = {}
  /\ \/ "login" \in Env /\ ~Busy(a) /\ logout[a].pc = "idle"
     \/ "eagerLogin" \in Env
  /\ login[a] = "idle"
  /\ ~(Registered(a) /\ inst[GetInstance(a)].region)
  /\ login' = [login EXCEPT ![a] = "checked"]
  /\ told' = [told EXCEPT ![a] = "joining"]
  /\ UNCHANGED <<registry, launches, children, logout, disk, startup, stale>>

\* RemoveWrapperDataQuiet, then the --login child starts.
LoginWipe(a) ==
  /\ login[a] = "checked"
  /\ tokens' = tokens \ {a}
  /\ login' = [login EXCEPT ![a] = "child"]
  /\ UNCHANGED <<registry, launches, children, logout, file, list, startup,
                 history>>

\* The child exits having cached the tokens: finishLoginSuccess.
LoginChildOk(a) ==
  /\ login[a] = "child"
  /\ started < MaxLaunch
  /\ tokens' = tokens \cup {a}
  /\ started' = started + 1
  /\ run' = Begin(run, a, TRUE)
  /\ login' = [login EXCEPT ![a] = "finishing"]
  /\ UNCHANGED <<registry, children, logout, file, list, startup, history>>

\* The child fails to start or exits without tokens: loginFailed.
LoginChildFails(a) ==
  /\ login[a] = "child"
  /\ tokens' = tokens \ {a}
  /\ login' = [login EXCEPT ![a] = "idle"]
  /\ told' = Concluded(a, "none")
  /\ UNCHANGED <<registry, launches, children, logout, file, list, startup, stale>>

-----------------------------------------------------------------------------
(***************************************************************************)
(* POST /logout (startLogout).  An unknown account changes nothing.        *)
(***************************************************************************)
LogoutGet(a) ==
  /\ toRestore = {}
  /\ "eagerLogout" \in Env \/ ("logout" \in Env /\ told[a] = "in" /\ Up(a))
  /\ logout[a].pc = "idle"
  /\ Registered(a)
  /\ logout' = [logout EXCEPT ![a] = [pc |-> "mark", obj |-> GetInstance(a)]]
  /\ UNCHANGED <<registry, launches, children, login, disk, startup,
                 history>>

LogoutMark(a) ==
  /\ logout[a].pc = "mark"
  /\ inst' = [inst EXCEPT ![logout[a].obj].noRestart = TRUE]
  /\ logout' = [logout EXCEPT ![a].pc = "kill"]
  /\ told' = [told EXCEPT ![a] = "leaving"]
  /\ UNCHANGED <<instances, unhealthyOnce, launches, children, login, disk,
                 startup, stale>>

LogoutKill(a) ==
  /\ logout[a].pc = "kill"
  /\ CanKill(a)
  /\ proc' = Killed(a)
  /\ logout' = [logout EXCEPT ![a].pc = "wipe"]
  /\ UNCHANGED <<registry, launches, reaper, health, login, disk, startup,
                 history>>

\* The request fails with NoRestart left set.
LogoutKillFails(a) ==
  /\ logout[a].pc = "kill"
  /\ KillFails(a)
  /\ logout' = [logout EXCEPT ![a] = [pc |-> "idle", obj |-> None]]
  /\ told' = [told EXCEPT ![a] = "erred"]
  /\ UNCHANGED <<registry, launches, children, login, disk, startup, stale>>

LogoutWipe(a) ==
  /\ logout[a].pc = "wipe"
  /\ tokens' = tokens \ {a}
  /\ logout' = [logout EXCEPT ![a].pc = "save"]
  /\ UNCHANGED <<registry, launches, children, login, file, list, startup,
                 history>>

\* RemoveWrapperData panics when the directory cannot be removed: the
\* server recovers and the request ends without SaveInstances.
LogoutWipePanics(a) ==
  /\ logout[a].pc = "wipe"
  /\ logout' = [logout EXCEPT ![a] = [pc |-> "idle", obj |-> None]]
  /\ told' = [told EXCEPT ![a] = "erred"]
  /\ UNCHANGED <<registry, launches, children, login, disk, startup, stale>>

\* SaveInstances, then the reply code 0.
LogoutCopy(a) ==
  /\ logout[a].pc = "save"
  /\ CopyInstances(<<"logout", a>>)
  /\ logout' = [logout EXCEPT ![a].pc = "write"]
  /\ UNCHANGED <<registry, launches, children, login, tokens, file, startup,
                 history>>

LogoutWrite(a) ==
  /\ logout[a].pc = "write"
  /\ WriteInstances(<<"logout", a>>)
  /\ logout' = [logout EXCEPT ![a] = [pc |-> "idle", obj |-> None]]
  /\ told' = [told EXCEPT ![a] = "out"]
  /\ UNCHANGED <<registry, launches, children, login, tokens, startup>>

-----------------------------------------------------------------------------
LaunchStep(l) ==
  \/ LaunchGet(l) \/ LaunchInsert(l) \/ LaunchReset(l)
  \/ LaunchSpawn(l) \/ LaunchPollReady(l) \/ LaunchFails(l)
  \/ LaunchArmReaper(l)
  \/ LaunchCount(l) \/ LaunchCopy(l) \/ LaunchWrite(l)
  \/ LaunchRetry(l) \/ LaunchGiveUp(l) \/ LaunchLoginFailed(l)

ReaperStep(l) ==
  \/ ReaperRemove(l) \/ ReaperRestart(l)
  \/ ReaperCopy(l) \/ ReaperWrite(l)

HealthStep(l) ==
  \/ HealthMark(l) \/ HealthKill(l) \/ HealthRemove(l)
  \/ HealthWipe(l) \/ HealthCopy(l) \/ HealthWrite(l)

LoginStep(a) == LoginWipe(a) \/ LoginChildOk(a) \/ LoginChildFails(a)

LogoutStep(a) ==
  \/ LogoutMark(a) \/ LogoutKill(a) \/ LogoutKillFails(a)
  \/ LogoutWipe(a) \/ LogoutWipePanics(a)
  \/ LogoutCopy(a) \/ LogoutWrite(a)

Next ==
  \/ ManagerRestart
  \/ \E a \in Account : \/ Restore(a) \/ LoginCheck(a) \/ LoginStep(a)
                        \/ LogoutGet(a) \/ LogoutStep(a)
  \/ \E l \in Launch : \/ LaunchStep(l) \/ ReaperStep(l) \/ HealthStep(l)
                       \/ \E s \in BOOLEAN : HealthSignal(l, s)
                       \/ Crash(l)

Spec == Init /\ [][Next]_vars

(***************************************************************************)
(* Fairness: the Go scheduler runs every goroutine that can run, the login *)
(* child exits, and a service with tokens eventually reports its region.   *)
(* Crashes, failure lines and requests are never owed.                     *)
(***************************************************************************)
Fairness ==
  /\ \A a \in Account : /\ WF_vars(Restore(a)) /\ WF_vars(LoginStep(a))
                        /\ WF_vars(LogoutStep(a))
  /\ \A l \in Launch : /\ WF_vars(LaunchStep(l)) /\ WF_vars(ReaperStep(l))
                       /\ WF_vars(HealthStep(l))

FairSpec == Spec /\ Fairness

-----------------------------------------------------------------------------
(***************************************************************************)
(* The registry holds at most one object per account, whatever restarts,   *)
(* logins, logouts and failure handlers interleave: the lookups by id of   *)
(* GetInstance, RemoveInstance and KillWrapper depend on it.               *)
(***************************************************************************)
UniqueIds ==
  \A o, p \in instances : inst[o].id = inst[p].id => o = p

(***************************************************************************)
(* A registered account is being worked on: a launch of it is under way, a *)
(* reaper watches its process or a failure handler is about to remove it.  *)
(* Otherwise /status counts, and selection offers, an instance that no     *)
(* restart will ever repair.                                               *)
(***************************************************************************)
RegisteredSupervised ==
  \A o \in instances :
    \E l \in Launch : /\ run[l].id = inst[o].id
                      /\ \/ run[l].pc # "done" \/ reaper[l] # "off"
                         \/ health[l].pc # "idle"

(***************************************************************************)
(* One account is one service process: two wrapper-lite processes would    *)
(* share a data directory and an Apple session.                            *)
(***************************************************************************)
SingleProcess ==
  \A l, m \in Launch :
    Alive(l) /\ Alive(m) /\ run[l].id = run[m].id => l = m

(***************************************************************************)
(* An account is supervised by one chain of goroutines: the launch that    *)
(* works on it, or the goroutine that waits for its process, or the one    *)
(* that handles the exit.  Two chains restart two processes for ever after,*)
(* on two ports, with one data directory and one Apple session.            *)
(***************************************************************************)
Chain(l) ==
  run[l].pc \notin {"none", "count", "save", "write", "done"} \/ reaper[l] # "off"

OneSupervisor ==
  \A l, m \in Launch :
    Chain(l) /\ Chain(m) /\ run[l].id = run[m].id => l = m

(***************************************************************************)
(* README: "instances.json records id/region/port of logged-in accounts".  *)
(* An account that is logged in and up is in the file.                     *)
(***************************************************************************)
RecordedWhenUp ==
  \A a \in Account : told[a] = "in" /\ Up(a) => a \in file

(***************************************************************************)
(* README: a process that exits is relaunched "unless the account was      *)
(* logged out".  After the reply to /logout no service process is started  *)
(* for the account by a restart; only a new login may start one.           *)
(***************************************************************************)
LoggedOutStaysDown ==
  [][\A l \in Launch :
       proc[l] # "live" /\ proc'[l] = "live" /\ ~run[l].login
         => told[run[l].id] # "out"]_vars

(***************************************************************************)
(* README: a process that exits is relaunched "unless the account was      *)
(* logged out".  A logout or a failure handler that marks the object of an *)
(* account of which nothing is under way but the wait for its process is   *)
(* final: whatever exits, is killed, handled or saved meanwhile, nothing   *)
(* clears the mark and no process of the account starts until somebody     *)
(* logs in or the manager restarts.                                        *)
(***************************************************************************)
Sealed(a) ==
  /\ a \notin toRestore /\ login[a] = "idle"
  /\ \A l \in Launch : Chain(l) /\ run[l].id = a
                        => reaper[l] # "off" /\ inst[run[l].obj].noRestart

SealedStaysDown ==
  [][\A a \in Account : Sealed(a) =>
       /\ Sealed(a)' \/ login'[a] # "idle" \/ a \in toRestore'
       /\ \A l \in Launch : run[l].id = a /\ proc'[l] = "live" => proc[l] = "live"]_vars

(***************************************************************************)
(* After every start of the manager /status reports ready in the end,      *)
(* although services crash while others are being counted: the last launch *)
(* to come up finds every persisted account registered with a region,      *)
(* unless one has left or the bound on launches is used up.                *)
(***************************************************************************)
BecomesReady ==
  []<>(ready \/ started = MaxLaunch \/ \E a \in toStart : told[a] # "in")

(***************************************************************************)
(* Crash auto-restart and restore: a logged-in account that is not up      *)
(* comes up again, after a restart of the manager too, unless it leaves or *)
(* the bound on launches is used up.                                       *)
(***************************************************************************)
CrashRecovery ==
  \A a \in Account :
    told[a] = "in" ~> (Up(a) \/ told[a] # "in" \/ started = MaxLaunch)

(***************************************************************************)
(* An account that was logged out, or whose subscription or session ended, *)
(* leaves the registry, instances.json and the process table, unless it    *)
(* logs in again: the reply to /logout does not wait for wrapperDown.      *)
(***************************************************************************)
RemovalCompletes ==
  \A a \in Account :
    told[a] \in {"out", "gone"}
      ~> \/ ~Registered(a) /\ (a \in file => a \in stale)
            /\ \A l \in Launch : run[l].id = a => proc[l] # "live"
         \/ told[a] \in {"in", "joining"} \/ started = MaxLaunch

=============================================================================
