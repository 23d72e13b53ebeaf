-------------------------------- MODULE Login --------------------------------
(***************************************************************************)
(* POST /login for one account (login.go): the LoginState registered under *)
(* the account's id, the goroutine runLoginChild that drives a login, the  *)
(* one-shot wrapper-lite --login child, and the HTTP handlers that wait in *)
(* waitForLoginFinish.  Nothing stops a second login of the same account   *)
(* while one is in progress: the new LoginState replaces the old one in    *)
(* loginRegistry, both children share the account's data directory, and    *)
(* the child of an abandoned login is never killed.                        *)
(*                                                                         *)
(* A login is named by the LoginState it made, numbered in order.  What    *)
(* starting the service involves is the subject of Lifecycle.              *)
(***************************************************************************)
EXTENDS Naturals, FiniteSets

CONSTANTS
  Client,     \* HTTP handlers of POST /login
  MaxLogin,   \* bound: how many logins are begun
  None        \* nil

ASSUME LoginAssumption == MaxLogin \in Nat /\ None \notin Nat

LoginId == 1..MaxLogin

VARIABLES
  up,             \* the account's instance is registered and has a region
  loginRegistry,  \* the LoginState under the account's id
  begun,          \* number of LoginStates made
  st,             \* pending2FA, reported2FA and the buffer of done
  runner,         \* control state of every login's goroutine
  child,          \* the child process of every login
  line,           \* logins whose 2FA prompt watchPipe has not handled yet
  client,         \* control state of every handler and the login it waits for
  tokens,         \* the data directory holds the token files
  codeFile,       \* it holds 2fa.txt
  served,         \* history: logins that started the service
  prompted,       \* history: how often code 2 was answered for a login
  told            \* history: logins a client was told the success of

logins == <<loginRegistry, begun, st>>
processes == <<runner, child, line>>
data == <<tokens, codeFile>>
history == <<served, prompted, told>>
vars == <<up, logins, processes, client, data, history>>

RunnerPc == {"none", "start", "wait", "service", "wipe", "resolve", "end"}
ClientPc == {"idle", "checked", "wipe", "code", "feed", "wait"}

(***************************************************************************)
(* Type correctness.                                                       *)
(***************************************************************************)
TypeOK ==
  /\ up \in BOOLEAN
  /\ loginRegistry \in LoginId \cup {None}
  /\ begun \in 0..MaxLogin
  /\ st \in [LoginId -> [pending2FA: BOOLEAN, reported2FA: BOOLEAN,
                         done: {"empty", "success", "failure"}]]
  /\ runner \in [LoginId -> [pc: RunnerPc, cause: {"success", "failure"}]]
  /\ child \in [LoginId -> {"none", "running", "asking", "exited"}]
  /\ line \subseteq LoginId
  /\ client \in [Client -> [pc: ClientPc, login: LoginId \cup {None}]]
  /\ tokens \in BOOLEAN /\ codeFile \in BOOLEAN
  /\ served \subseteq LoginId
  /\ prompted \in [LoginId -> Nat]
  /\ told \subseteq LoginId

Init ==
  /\ up = FALSE
  /\ loginRegistry = None /\ begun = 0
  /\ st = [n \in LoginId |-> [pending2FA |-> FALSE, reported2FA |-> FALSE, done |-> "empty"]]
  /\ runner = [n \in LoginId |-> [pc |-> "none", cause |-> "failure"]]
  /\ child = [n \in LoginId |-> "none"]
  /\ line = {}
  /\ client = [c \in Client |-> [pc |-> "idle", login |-> None]]
  /\ tokens = FALSE /\ codeFile = FALSE
  /\ served = {}
  /\ prompted = [n \in LoginId |-> 0]
  /\ told = {}

-----------------------------------------------------------------------------
(***************************************************************************)
(* The handler: startLogin and waitForLoginFinish.                         *)
(***************************************************************************)
\* The handler returns this answer about login n.
Tell(c, what, n) ==
  /\ told' = IF what = "success" THEN told \cup {n} ELSE told
  /\ client' = [client EXCEPT ![c] = [pc |-> "idle", login |-> None]]

\* A request, without or with a code, meets the "already login" check.
CheckInstance(c, next) ==
  /\ client[c].pc = "idle"
  /\ IF up
     THEN Tell(c, "already", None)
     ELSE client' = [client EXCEPT ![c].pc = next] /\ UNCHANGED told
  /\ UNCHANGED <<up, logins, processes, data, served, prompted>>

startLogin(c) == begun < MaxLogin /\ CheckInstance(c, "checked")

startLoginWithCode(c) == CheckInstance(c, "code")

\* registerLogin replaces whatever login is registered.
registerLogin(c) ==
  /\ client[c].pc = "checked"
  /\ begun < MaxLogin
  /\ begun' = begun + 1
  /\ loginRegistry' = begun'
  /\ client' = [client EXCEPT ![c] = [pc |-> "wipe", login |-> begun']]
  /\ UNCHANGED <<up, st, processes, data, history>>

\* Stale data is removed and runLoginChild started.
WipeAndRun(c) ==
  /\ client[c].pc = "wipe"
  /\ tokens' = FALSE /\ codeFile' = FALSE
  /\ runner' = [runner EXCEPT ![client[c].login].pc = "start"]
  /\ client' = [client EXCEPT ![c].pc = "wait"]
  /\ UNCHANGED <<up, logins, child, line, history>>

\* With a code: the registered login must be waiting for one.
FindPending(c) ==
  /\ client[c].pc = "code"
  /\ IF loginRegistry # None /\ st[loginRegistry].pending2FA
     THEN client' = [client EXCEPT ![c] = [pc |-> "feed", login |-> loginRegistry]]
          /\ UNCHANGED told
     ELSE Tell(c, "refused", None)
  /\ UNCHANGED <<up, logins, processes, data, served, prompted>>

\* The code is written to 2fa.txt, or the write fails.
provide2FACode(c) ==
  /\ client[c].pc = "feed"
  /\ \/ codeFile' = TRUE /\ client' = [client EXCEPT ![c].pc = "wait"] /\ UNCHANGED told
     \/ Tell(c, "refused", None) /\ UNCHANGED codeFile
  /\ UNCHANGED <<up, logins, processes, tokens, served, prompted>>

\* waitForLoginFinish receives the outcome ...
ReceiveDone(c) ==
  LET n == client[c].login IN
  /\ client[c].pc = "wait"
  /\ st[n].done # "empty"
  /\ st' = [st EXCEPT ![n].done = "empty"]
  /\ Tell(c, st[n].done, n)
  /\ UNCHANGED <<up, loginRegistry, begun, processes, data, served, prompted>>

\* Mutant: reported2FA is not set.
ClaimAgain(n) == st[n].pending2FA /\ UNCHANGED st

\* claimPending2FA.
claimPending2FA(n) ==
  /\ st[n].pending2FA /\ ~st[n].reported2FA
  /\ st' = [st EXCEPT ![n].reported2FA = TRUE]

\* ... or reports the 2FA prompt ...
Report2FA(c) ==
  LET n == client[c].login IN
  /\ client[c].pc = "wait"
  /\ claimPending2FA(n)
  /\ prompted' = [prompted EXCEPT ![n] = @ + 1]
  /\ Tell(c, "2fa", n)
  /\ UNCHANGED <<up, loginRegistry, begun, processes, data, served>>

\* ... or gives up after 150 seconds.
LoginTimeout(c) ==
  /\ client[c].pc = "wait"
  /\ Tell(c, "timeout", client[c].login)
  /\ UNCHANGED <<up, logins, processes, data, served, prompted>>

-----------------------------------------------------------------------------
(***************************************************************************)
(* The login child, as the manager uses it: it may ask for a code, takes   *)
(* the code from 2fa.txt, and writes the token files if it succeeds.       *)
(***************************************************************************)
ChildAsks(n) ==
  /\ child[n] = "running"
  /\ child' = [child EXCEPT ![n] = "asking"]
  /\ line' = line \cup {n}
  /\ UNCHANGED <<up, logins, runner, client, data, history>>

\* It has read the code, has given up after 60 seconds, or never asked.
ChildExits(n) ==
  /\ \/ child[n] \in {"running", "asking"} /\ UNCHANGED codeFile
     \/ child[n] = "asking" /\ codeFile /\ codeFile' = FALSE
  /\ child' = [child EXCEPT ![n] = "exited"]
  /\ tokens' \in {tokens, TRUE}
  /\ UNCHANGED <<up, logins, runner, line, client, history>>

\* watchPipe handles the prompt: login2FARequired marks the login that is
\* registered now, whichever child printed it.
login2FARequired(n) ==
  /\ n \in line
  /\ line' = line \ {n}
  /\ st' = IF loginRegistry = None THEN st
           ELSE [st EXCEPT ![loginRegistry].pending2FA = TRUE]
  /\ UNCHANGED <<up, loginRegistry, begun, runner, child, client, data, history>>

-----------------------------------------------------------------------------
(***************************************************************************)
(* runLoginChild and finishLoginSuccess.                                   *)
(***************************************************************************)
Runner(n, next, cause) ==
  runner' = [runner EXCEPT ![n] = [pc |-> next, cause |-> cause]]

\* startLiteLogin starts the child or fails.
runLoginChild(n) ==
  /\ runner[n].pc = "start"
  /\ \/ child' = [child EXCEPT ![n] = "running"] /\ Runner(n, "wait", "failure")
     \/ UNCHANGED child /\ Runner(n, "wipe", "failure")
  /\ UNCHANGED <<up, logins, line, client, data, history>>

\* The child has exited: the token files decide.
ChildExited(n) ==
  /\ runner[n].pc = "wait" /\ child[n] = "exited"
  /\ Runner(n, IF tokens THEN "service" ELSE "wipe", "failure")
  /\ UNCHANGED <<up, logins, child, line, client, data, history>>

\* Mutant: a service that does not start is not reported.
finishLoginSilently(n) ==
  /\ runner[n].pc = "service"
  /\ \/ /\ up' = TRUE
        /\ served' = served \cup {n}
        /\ Runner(n, "resolve", "success")
     \/ UNCHANGED <<up, served>> /\ Runner(n, "none", "failure")
  /\ UNCHANGED <<logins, child, line, client, data, prompted, told>>

\* finishLoginSuccess starts the service, or fails to.
finishLoginSuccess(n) ==
  /\ runner[n].pc = "service"
  /\ \/ /\ up' = TRUE
        /\ served' = served \cup {n}
        /\ Runner(n, "resolve", "success")
     \/ UNCHANGED <<up, served>> /\ Runner(n, "wipe", "failure")
  /\ UNCHANGED <<logins, child, line, client, data, prompted, told>>

\* loginFailed cleans the data directory.
loginFailed(n) ==
  /\ runner[n].pc = "wipe"
  /\ tokens' = FALSE /\ codeFile' = FALSE
  /\ Runner(n, "resolve", "failure")
  /\ UNCHANGED <<up, logins, child, line, client, history>>

\* Mutant: the outcome goes to the login that is registered.
SendRegistered(n, cause) ==
  LET m == IF loginRegistry = None THEN n ELSE loginRegistry
  IN st' = IF st[m].done = "empty" THEN [st EXCEPT ![m].done = cause] ELSE st

\* The send to done does not block: an outcome nobody took stays.
SendDone(n, cause) ==
  st' = IF st[n].done = "empty" THEN [st EXCEPT ![n].done = cause] ELSE st

\* Mutant: the entry is emptied, not deleted.
RegisteredZero(n) == 0

\* Mutant: a failed login stays registered.
RegisteredAfterFailure(n) ==
  IF runner[n].cause = "failure" THEN loginRegistry ELSE None

\* removeLogin deletes by account id.
RegisteredAfter(n) == None

\* resolveLogin.
resolveLogin(n) ==
  /\ runner[n].pc = "resolve"
  /\ loginRegistry' = RegisteredAfter(n)
  /\ SendDone(n, runner[n].cause)
  /\ Runner(n, "end", runner[n].cause)
  /\ UNCHANGED <<up, begun, child, line, client, data, history>>

\* The instance is logged out or lost.
InstanceGone ==
  /\ up
  /\ up' = FALSE
  /\ UNCHANGED <<logins, processes, client, data, history>>

-----------------------------------------------------------------------------
RunnerStep(n) ==
  \/ runLoginChild(n) \/ ChildExited(n) \/ finishLoginSuccess(n)
  \/ loginFailed(n) \/ resolveLogin(n) \/ login2FARequired(n)

HandlerStep(c) ==
  \/ registerLogin(c) \/ WipeAndRun(c) \/ FindPending(c) \/ provide2FACode(c)
  \/ ReceiveDone(c) \/ Report2FA(c)

Next ==
  \/ \E c \in Client :
       startLogin(c) \/ startLoginWithCode(c) \/ HandlerStep(c) \/ LoginTimeout(c)
  \/ \E n \in LoginId : RunnerStep(n) \/ ChildAsks(n) \/ ChildExits(n)
  \/ InstanceGone

Spec == Init /\ [][Next]_vars

\* Goroutines run.  The child is not assumed to exit or to be given a code,
\* and the 150 seconds are not assumed to pass first.
FairSpec == Spec /\ \A n \in LoginId : WF_vars(RunnerStep(n))
                 /\ \A c \in Client : WF_vars(HandlerStep(c))

-----------------------------------------------------------------------------
(***************************************************************************)
(* claimPending2FA: "returns true exactly once per login": however many    *)
(* handlers wait for a login, one of them at most is answered with code 2. *)
(***************************************************************************)
PromptedOnce == \A n \in LoginId : prompted[n] <= 1

(***************************************************************************)
(* A client that is told success is told so of its own login, which has    *)
(* started the service and is over, even when another login of the account *)
(* runs at the same time.                                                  *)
(***************************************************************************)
SuccessIsOwn ==
  \A n \in told : n \in served /\ runner[n].pc = "end"

(***************************************************************************)
(* A login that is over is not registered: neither a code nor a 2FA prompt *)
(* is ever handed to a login that was over when it was looked up.          *)
(***************************************************************************)
RegisteredIsActive ==
  loginRegistry # None => runner[loginRegistry].pc # "end"

(***************************************************************************)
(* Every login whose child has exited is resolved: its outcome, the failed *)
(* start of the service included, is sent without waiting for a handler.   *)
(***************************************************************************)
LoginResolves ==
  \A n \in LoginId : child[n] = "exited" ~> runner[n].pc = "end"

=============================================================================
