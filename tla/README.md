# wrapper-manager: verification project

wrapper-manager is a Go program that runs one `wrapper-lite` service process per
Apple Music account, logs accounts in and out, restarts and restores the
processes, and exposes their HTTP API as one. This directory holds TLA+ models of
its core, TLC configurations for small instances, and TLAPS proofs for every
instance. `PROJECT.json` maps every definition to the lines it models.

## 1. Inventory

| Component | State | Operations | Hard behaviour | What makes it correct |
|---|---|---|---|---|
| Instance lifecycle (`wrapper.go`, `instance.go`, `main.go`) | `Instances`, fields of `WrapperInstance`, child processes, `unhealthyOnce`, `Ready` | restore, `WrapperStart`, `startLiteService`, `wrapperDown`, `KillWrapper`, failure handlers | goroutines that hold pointers to objects that have left the registry; lookups by id; unlocked fields; services that outlive their manager | one object per id; a registered account is looked after, by one chain of goroutines; crashed accounts come back, marked and logged-out ones do not |
| Login and logout (`login.go`) | `loginRegistry`, `LoginState`, data directory | `startLogin`, `runLoginChild`, 2FA hand-over, `waitForLoginFinish`, `startLogout` | overlapping logins, late prompts, a one-place `done` channel | 2FA reported once; success told only of one's own login; every login resolves |
| Registry persistence (`instance.go`) | `instances.json`, its `.tmp` | `SaveInstances`, `LoadInstance` | kill between calls, savers that overlap, a registry that changes under them | a save that overlaps no other is atomic and repairs what overlapping ones left; the file follows the registry |
| Request slots (`instance.go`) | `sem` per instance | acquire, release | lazy creation without a lock, timeouts, objects replaced under requests | cap per channel, release never blocks, waiters end |
| FairPlay circuit (`instance.go`) | failures and `openUntil` per id | `circuitOpen`, `recordFairplayFailure`, reset | late lines, boundary instants | excluded for the whole cooldown, then retried |
| Request proxy (`proxy.go`, `httputil.go`) | loop state of one request | `selectAndProxy`, `fetchFromLite`, `proxyToLite` | instances vanish while a request walks them, stacked timeouts | bounded time and attempts; the right answer reaches the client |
| Selection and its caches (`region.go`, `lyrics_probe.go`, `storefront.go`, `token.go`) | two LRU caches, one single-flight group, the language table and its file | `SelectInstances`, `SelectInstanceForLyrics`, `checkAvailableOnRegion`, `hasLyricsCached`, `ensureStorefrontLangs` | bounded parallel probes, flights shared between requests, entries that expire, transient failures, a file written in place | only results are remembered; no instance is chosen or left out by another one's verdict; videos only for want of songs; the language is preferred; selections end |
| Payload install (`wrapper.go`, `main.go`) | archive, payload files | `PrepareWrapper`, `UpdateWrapper`, download, extract | kills while extracting, an updater beside the manager, busy binaries | an install that ran alone to its end leaves one whole build |
| QEMU launcher and guest (`cmd/`, `guest/init`) | data image, QEMU process, captured stderr, caught signal | start-up checks, image creation, `runQemu`, fall-back, mount or format | kills between steps, the stderr reader racing `cmd.Wait`, signals during the fall-back, signals that cannot be delivered, power failures that damage the image | a broken accelerator is replaced; an install that no power failure touched stays whole |
| Ports (`port.go`) | `usedPorts` | `GenerateUniquePort` | exhaustion | fresh port per launch (in Lifecycle) |
| Telemetry and log hook | exporters | export | none that reaches the manager's state | not modelled |

Interaction: HTTP handlers run concurrently. A login ends in a launch of the
lifecycle; a launch registers the instance, which resets its circuit and its
unhealthy guard; each process has a reaper (`wrapperDown`) and log watchers that
feed the circuit and the failure handlers; the proxy reads the registry and the
circuits, probes Apple's catalog through shared caches and flights, then takes a
slot of the chosen instance; an answer may log a failure that opens the circuit
while other requests queue; logins, logouts, failure
handlers and reapers save the registry file without a common lock.

## 2. Modules

| Module | Models | State and actions |
|---|---|---|
| `Lifecycle` | lifecycle, effect of login and logout on it, when the file is saved | A *launch* is one call of `WrapperStart` or of `finishLoginSuccess`'s goroutine. `inst[o]` are the fields of object `o`, `instances` the registry, `run[l]` the program counter of launch `l`, `proc[l]`, `reaper[l]`, `health[l]` the process it started, its exit watcher and its failure handler. One action per locked section or unlocked access. |
| `LifecycleProofs` | | invariants and theorems |
| `Login`, `LoginProofs` | `login.go` for one account | `st[n]` is the n-th `LoginState`, `runner[n]` the goroutine of `runLoginChild`, `child[n]` the `--login` child, `client[c]` a handler. |
| `AtomicRegistry` | what callers of `SaveInstances` rely on | abstract: a save that overlaps no other puts what it copied on disk at once (`Commit`); saves that overlap promise nothing (`Clash`, `Drift`). |
| `RegistryFile`, `RegistryFileProofs`, `MCRegistryFile` | `SaveInstances`, `LoadInstance` | names, inodes and open files; any number of savers, one action per system call; `Change` is an insertion or removal by anybody at any time; `Restart` is a kill at any point followed by a start. Refines `AtomicRegistry` (`SavesAreAtomic`). |
| `InstanceSlots`, `InstanceSlotsProofs` | the semaphores of the objects of one id | `sem[o]` is the field of object `o`, `buf[o][c]` the tokens in the channel that request `c` made for it; a request keeps the object it looked up; `ensureSem`'s test and assignment are two actions. |
| `FairplayCircuit` (proofs in `GateProofs`) | the circuit breaker | `left[i]` is `openUntil - now`; `Tick` lets time pass; `waiting`, `inflight`, `lines` are requests and log lines under way. |
| `Gate`, `GateProofs` | circuit and slots together, for one instance | joint actions: a request selects (circuit), queues (slots), is forwarded (both), is answered (both); `InsertInstance` resets both. |
| `Proxy`, `ProxyProofs` | one request from `handleLiteEndpoint` to its reply | `pc`, `cands`, `i`, `attempts`, `elapsed`, `lastBody`, `reply`; the registry and the circuits change under it (`RegistryChange`). |
| `Selection`, `SelectionProofs`, `MCSelection` | concurrent selections | `wk[q][i]` is the worker of request `q` for instance `i`; `cache`, `mem`, `disk` the memories; `catalog` what Apple has. |
| `Payload` | download and installation | `file[e]` is the build that file `e` holds (or torn, or none); two processes with their own control state. |
| `Launcher` | `wrapper-manager-qemu` and `guest/init` | `lpc` the launcher, `img` the data image, `vm` the guest, `errs` the way of QEMU's message. |
| `Deployment`, `DeploymentProofs`, `MCDeployment` | payload and launcher together | "native" or "guest"; `PowerFailure` and `WriteBack` connect the image with the files on it. |

Abstractions worth knowing:

* A region is only "known or not", a port is the number of the launch that drew
  it, account data is "token files present or not".
* In `Lifecycle` a save is two steps, the copy under `instancesMu` and the write
  without it, and any number of saves may be between the two; `stale` names the
  accounts of which the file is outdated because an older copy was written last.
  `RegistryFile` has the system calls of the write. `sound`, `alone` and `unsaved`
  there are histories: they say which saves overlapped and what was saved since.
* `Proxy` represents contention for slots by the time a slot takes;
  `InstanceSlots` shows that slots behave like that while an object has one channel.
* `NewInstance` registers an object that no request holds: object names are reused,
  objects are not.
* `Proxy` follows the paths `/m3u8`, `/lyrics` and `/license`: `/webplayback` and
  `/key` differ from `/m3u8` only in validation. A body that is not an envelope
  has code 0, as in the code, which ignores the error of `json.Unmarshal`.
* The time of selection (probes to Apple, up to 60 s each) is not part of
  `elapsed`, which starts when the code sets its deadline.
* `Selection` follows one song and one language. Selections for songs and for
  lyrics share no cache key, so a behaviour has requests of one sort. A remembered
  FALSE that stands for a failed probe ("fail") or for an "errors" reply ("miss" when
  the storefront has the item) is told apart from one that Apple answered; the code
  reads them alike. Each instance has one storefront throughout.
* `Payload` takes the archive's order of files as given; writes of installs that
  overlap come out whole or spoiled. `Deployment` has no updater in the guest. `partial` and
  `spoiled` are histories: files were touched and no install has ended alone since; a
  power failure took files and no install has ended since.
* In `Launcher` "kvm" stands for every accelerator but TCG, QEMU's message is
  on its way, read in time, or lost, and an interrupt may fail to reach QEMU. A
  power failure leaves a mounted file system to its journal or damages it; a mount
  that fails is answered by formatting.
* The wrapper-lite processes, QEMU, Apple, and `os.WriteFile` on a shared file are
  external and modelled from how this code uses them.

Operators introduced by a comment "Mutant:" are variants of the definition below
them with a plausible mistake; no specification uses them. They show that the
property they are listed with in `PROJECT.json` would notice the mistake.

## 3. Runs

| Run | Expect | Shows |
|---|---|---|
| `lifecycle_crash` | pass | 2 persisted accounts, 4 launches; services fail to start, start slowly, crash; the manager stops and starts again. Types, `UniqueIds`, `RegisteredSupervised`, `OneSupervisor`, `CrashRecovery`, `BecomesReady`. |
| `lifecycle_accounts` | pass | 1 account, 4 launches; login, logout, failure lines, overlapping saves, no crashes. `SingleProcess`, `RecordedWhenUp`, `LoggedOutStaysDown`, `SealedStaysDown`, `RemovalCompletes`. |
| `lifecycle_recorded` | violation | the save of a login falls into the crash restart of the service that the login started: the account is up and not in the file. |
| `lifecycle_logout` | violation | a logout during a crash restart is answered with success and the account is launched again. |
| `gate` | pass | 2 requests, 1 slot, 2 objects, one circuit: exclusion for the cooldown, threshold, another chance, cap per channel, release, every request ends. |
| `slots_first` | violation | 3 first requests, 2 slots: two requests make a channel each and three are in flight. |
| `registry_file` | pass | 2 accounts, 2 savers in any overlap, a registry that changes under them, kills and failing calls everywhere: the file implements the abstract store. |
| `registry_file_race` | violation | two overlapping saves leave a truncated `instances.json`. |
| `proxy` | pass | 3 instances, 2 attempts, the code's timeouts in seconds. |
| `login` | pass | 2 handlers, 2 logins of one account, overlapping; children ask, finish, or give up without a code. |
| `selection` | pass | 2 requests, 2 instances in 2 storefronts, 1 worker; 3 catalogs; failed probes and "errors" replies. |
| `deployment` | pass | 3 files, 2 builds, 3 kinds of host; native and guest. |

The violation runs are disagreements between the code and one of its comments or
its README; `findings` in `PROJECT.json` quotes the line and describes the
behaviour. The environment of the passing lifecycle runs is restricted (the
constant `Env`) to what the property holds for: `SingleProcess` fails with
`slowStart`, `stop` and `eagerLogin`, `OneSupervisor` with `eagerLogin`,
`RegisteredSupervised` with a login or an early logout beside failing starts, and
`RecordedWhenUp` with two persisted accounts and failure lines; `hazards` says why.
With `stop` the reason is that main does not stop its services: `ManagerRestart`
leaves them as orphans, and `Restore` launches a second process for every account of
the file. What `OneSupervisor` adds is that only one of the processes is waited for
and restarted.

Some properties except by name what the code does not prevent. `RemovalCompletes`
excepts accounts that the file still lists because an older copy was renamed over a
newer one (`stale`); `ReleaseNeverBlocks` and `RequestsEnd` except objects whose first
requests raced in `ensureSem`; `RecordedWhenQuiet` speaks of a last save that
overlapped no other; `InstallWhole` excepts payloads that an unfinished install or a
power failure left (`partial`, `spoiled`), which `wrapperPayloadReady` accepts;
`LaunchServes` excepts the lost message. Each exception is reachable and listed under
`hazards`.

Bounds. `MaxLaunch` = 4 lets two accounts crash and restart twice each, or one
account go through two log-in/log-out cycles; the interleavings that matter
involve two launches of one account. Three candidates with two attempts are the
smallest case in which the attempt limit, the last-candidate rule and the budget
are all distinct; `Waits` and `Delays` hold the extremes of each duration.
`Unstable` instances come, go and open their circuits at any time. Two accounts in
`registry_file` give documents of three lengths, and two savers every way for two
saves to overlap; a third adds overlaps of pairs. Two
logins suffice for one to be abandoned and another to be current. In `gate` two
requests exceed the one slot and can race for the channel, of one object or of two,
and `MaxInflight` exceeds `Cap`, so that only the slots bound what is forwarded;
threshold and cooldown are two, so that counting
and waiting take several steps. In `selection` one worker per pool is the tightest
pool, two requests suffice for a leader and a follower of a flight; the catalogs
have the song in one storefront and its video in the other, and lyrics in both or
only where the language is not spoken. In `deployment` two of the three files are
the ones `wrapperPayloadReady` looks at, and two builds can mix.

Fairness. `Lifecycle`, `Proxy`, `Selection` and `Login` assume weak fairness of
goroutine steps only: the Go scheduler runs every runnable goroutine, and timers
(the HTTP client's timeout among them) fire. No request, crash, exit of a child,
or answer of an instance is assumed. In `Gate` time passes, log lines are read and
requests run; `AnotherChance` needs no call of `circuitOpen`, because an expired
circuit counts as closed. In `Deployment` the launcher and the guest are
scheduled; nobody has to launch, interrupt or kill. `RegistryFile` states
no liveness.

## 4. Proofs

All proofs hold for arbitrary constants that satisfy the named assumptions.

* `LifecycleProofs!TypeCorrect`, `RegistryUnique`: `Spec => []TypeOK` and
  `Spec => []UniqueIds`, for every set of accounts, number of launches and
  environment. `UniqueIds` is not inductive: an insertion is safe because the
  object inserted carries the id that `InsertInstance` searched for, and because
  a launch that has not begun owns an object that is not registered. `IInv` adds
  exactly that (`Named`, `Fresh`). One lemma per action.
* `LifecycleProofs!Supervised`: `Calm => (Spec => []RegisteredSupervised)`, for any
  crashes, failed and slow starts, failure lines, logouts of accounts that are up,
  and stops of the manager. The property only says that *somebody* works on a
  registered account; to keep it one has to know that what that somebody does next
  hands the account on. `Tended` therefore names who it can be: a launch that has
  the very object, a launch about to look it up, or a reaper or failure handler that
  will remove it. A launch lets go of an object when it gives up, which it does only
  if `NoRestart` is set, so `Marked` says that whoever set it on a registered object
  is followed by a removal; that needs to know which object a logout or a handler
  holds (`Leaving`, `Holding`), that a process that can be killed is one of this
  manager's (`Mine`) and that an object not yet registered is unmarked (`Clean`).
  `Calm` excludes what TLC refutes the property with: a login whose service does not
  start (`loginFailed` leaves the object `getInstanceOrNew` registered), and a logout
  of an account that is not up (the launch it overtakes gives up, no reaper exists).
* `LifecycleProofs!Supervisor`: `"eagerLogin" \notin Env => (Spec => []OneSupervisor)`,
  with crashes, failed and slow starts, stops, stale lines and logouts at any time. A
  chain of restarts is one launch and then the goroutine that waits for its process;
  it is handed on in one step (`LaunchRetry`, `ReaperRestart`), and the places where
  one begins, a restore and a login, must find none. The invariant says so for
  accounts not yet restored and for logins under way (`Entering`). The assumption excludes what TLC
  refutes it with: a login that passes the "already login" check during a restart.
* `LifecycleProofs!StaysDown`: `Spec => SealedStaysDown`, for every environment. What
  `LoggedOutStaysDown` states is refuted by `lifecycle_logout`; this says when a mark
  *is* final: when all that is left of the account is the wait for the marked object's
  process. The flag is cleared, and a process started, only by a launch that works on an
  object of the account (`Owned`), and such a launch is a chain whose process nobody
  waits for yet (`Watchful`). `MarkSeals` says that a logout of an account whose process is watched
  brings it there.
* `GateProofs!Excluded`: the exclusion that is owed equals the time
  left on the circuit (`RestIsLeft`). `ThresholdReached` needs `Prompt`, the
  assumption that answers and lines do not outlive the five-minute cooldown (a
  request ends after 12 s), and the invariant that nothing is under way at expiry.
* `InstanceSlotsProofs!Capped`, `ReleaseFree`, without any assumption on how requests
  race. The tokens of an object are as many as the requests that hold a slot of it
  (`Conserved`), whatever channel each was put into or is taken from, and a channel holds
  at most `Cap`; so an object forwards at most `Cap` requests per channel. An object
  with one channel has all its tokens there, so a release finds one. `CappedUnraced`
  adds that the documented bound holds where no object was given two channels.
* `GateProofs!Composition`: every behaviour of `GateSpec` is one of
  `FairplayCircuit!Spec` and of `InstanceSlots!SlotsSpec`, so the theorems of both
  carry over (`GateSafe`, under `Prompt`). `GateTypeCorrect` adds what
  neither part knows: the circuit's numbers of waiting and forwarded requests are
  the cardinalities of the slots' control states. Its steps rest on how the
  cardinality of a set of requests changes when one request moves.
* `RegistryFileProofs!Atomicity` is a refinement, for any number of savers: every step
  of `RegistryFile` is a step of `AtomicRegistry` or leaves it unchanged, with
  `disk <- LoadInstance` and `taken` the copies of the saves under way. The invariant
  follows the save that nothing has overlapped (`alone`): it is the only one under way,
  and when it renames, its inode holds the whole document of what it copied
  (`Undisturbed`).
  After its rename the file changes only by another rename, because the inode it named
  is nobody's open file (`InPlace`). `FileNeverTorn` (`Spec => [](sound => NeverTorn)`)
  and `FileRecords` follow; without `sound`, `registry_file_race` refutes the former.
* `ProxyProofs!Bounded`: at most `maxRetryAttempts` attempts and at most
  budget + slot wait + upstream timeout (20 + 15 + 12 = 47 s, below the server's
  60 s `WriteTimeout`). The invariant bounds `elapsed` by program counter: the
  budget is tested before an attempt, and an attempt adds one wait and one call.
* `ProxyProofs!AnswerDelivered`, `RetriesJustified`: the reply is the last answer there
  was, and a further instance is asked only after an answer that another one could
  better. The invariant
  `HInv` ties `lastBody` to the history of answers and says of each control state
  which answers can have led to it. It assumes only that `None` is not a body.
* `LoginProofs`: `ClaimedOnce`, `SuccessOwned`, `RegisteredActive` for any number of
  handlers and logins. A handler holds a `LoginState` it once looked up, which may
  have been replaced since; the invariant says that every state a handler waits on,
  or the registry names, belongs to a login that began (`Waits`, `Fresh`,
  `OneStarts`), and that `done` holds success, or has given it to a handler, only if
  its goroutine started the service and ended (`Sent`, `Successful`). `Counted`
  links the prompts reported to the flag that `claimPending2FA` tests.
* `SelectionProofs`: `CacheSound` (a remembered verdict is Apple's, a remembered
  failure is one of lyrics only), `ExactlyAvailable`, `LanguageFirst` and
  `SongsBeforeVideos` (the video round begins only when the song probe of every
  instance has ended without a hit), for any
  requests, instances and storefronts. That the result is exact says something only
  at the end; the invariant therefore carries what the workers know: a verdict of the
  round under way is what the catalog says (`Truthful`), workers run only for the
  instances of their round and those of the first tier have failed when the second
  is tried (`Rounds`), and nothing is chosen before its round is over
  (`Undecided`, `Settled`). `CacheSound` is needed for `Truthful`, because a worker
  takes over what another request's flight left in the cache.
* `DeploymentProofs!InstallComplete`. While a single install
  copies, each file it has passed is of its build (`Copying`, `Written`), and an
  install that finds another under way marks the payload (`Overlap`), so that what is
  neither `partial` nor `spoiled` is whole or gone (`Whole`). The launcher makes an
  image only where it found none and nothing runs (`ImageKnown`), and a manager runs in
  the guest only while the machine is up (`Tied`), so that files vanish under no
  install. It assumes that the files looked at by `wrapperPayloadReady` exist and are
  in the archive.

Only model-checked: all liveness properties, because fairness and ENABLED are out of
the prover's reach. So are `SingleProcess`, `RecordedWhenUp` and `LoggedOutStaysDown`,
which hold only in the environment of `lifecycle_accounts`.

## 5. Not modelled

* Telemetry and the log hook, log formatting, the scraping of the token page:
  no control worth checking.
* Port exhaustion: ports are never given back, but it takes tens of thousands of
  launches of one manager to use them up.
* The server's `WriteTimeout` of 60 s against the 150 s of `waitForLoginFinish`: a
  slow login's answer cannot be delivered. The connection is not part of `Login`.
* `Ready`: `BecomesReady` shows one direction. The comment at `wrapper.go:569`
  ("once every persisted instance has come up") is not met: restored objects
  carry their saved region, so `countReady` reaches its goal when the first
  service is up. And if a persisted account leaves before that, it never does.
* In the guest: network, arguments, and a disk whose device node appears after
  init has stopped waiting (it would then format nothing and run without data).
* A registry file that exists and cannot be read: `LoadInstance` would start empty.
* What survives in the guest's image: any failed mount formats it, a power failure may
  damage it, and nothing calls fsync, so that README's "account state and payload
  survive restarts" is not met by the code in general. Nor is anything promised of an
  interrupt: the error of forwarding it is dropped.
* Which replies the edge may cache: a body that is no envelope is marked cacheable
  (`proxy.go:62`), against the comment at `httputil.go:74`. `Proxy` follows the code.
* `refreshStorefrontLangsOnce` and `SelectInstance`, which nothing calls.

## 6. Plan

1. Done: the modules above, the refinement of `RegistryFile`, the composition
   `Gate`, and the proofs of section 4.
2. Prove, if the model is widened: `RemovalCompletes`'s safety part, that a file written
   by a save that overlapped no other lists no account that has left.
3. Model, if ever needed: the exhaustion of ports and the connection of a login.
