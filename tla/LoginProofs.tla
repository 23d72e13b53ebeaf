----------------------------- MODULE LoginProofs -----------------------------
(***************************************************************************)
(* Proofs about Login for every number of handlers and of logins.          *)
(***************************************************************************)
EXTENDS Login, TLAPS

\* A handler that waits for a login, or feeds it a code, has one.
Waits == \A c \in Client : client[c].pc \in {"wipe", "feed", "wait"} => client[c].login \in LoginId

\* A login that is not registered yet has no goroutine.
Fresh == \A n \in LoginId : n > begun => runner[n].pc = "none"

\* The handler that registered a login is the only one that will start its
\* goroutine, and has not done so.
OneStarts ==
  \A c \in Client : client[c].pc = "wipe" =>
    /\ client[c].login <= begun /\ runner[client[c].login].pc = "none"
    /\ \A d \in Client : client[d].pc = "wipe" /\ client[d].login = client[c].login => d = c

\* A goroutine that reports success has started the service, and is about to
\* end.
Successful ==
  \A n \in LoginId : runner[n].cause = "success" =>
    n \in served /\ runner[n].pc \in {"resolve", "end"}

\* What is in the channel done was sent by the login's own goroutine.
Sent ==
  \A n \in LoginId : st[n].done # "empty" =>
    runner[n].pc = "end" /\ (st[n].done = "success" => n \in served)

\* prompted counts what reported2FA says.
Counted == \A n \in LoginId : prompted[n] = IF st[n].reported2FA THEN 1 ELSE 0

IInv ==
  /\ TypeOK /\ Waits /\ Fresh /\ OneStarts /\ Successful /\ Sent /\ Counted
  /\ SuccessIsOwn /\ RegisteredIsActive

-----------------------------------------------------------------------------
\* How the logins and their goroutines are typed, apart from the rest.
LEMMA Typed ==
  ASSUME IInv
  PROVE  /\ st \in [LoginId -> [pending2FA: BOOLEAN, reported2FA: BOOLEAN,
                                done: {"empty", "success", "failure"}]]
         /\ runner \in [LoginId -> [pc: RunnerPc, cause: {"success", "failure"}]]
         /\ prompted \in [LoginId -> Nat]
  BY DEF IInv, TypeOK

LEMMA InitIInv == Init => IInv
<1> SUFFICES ASSUME Init PROVE IInv
  OBVIOUS
<1>1. TypeOK
  <2>1. st \in [LoginId -> [pending2FA: BOOLEAN, reported2FA: BOOLEAN,
                           done: {"empty", "success", "failure"}]]
    BY DEF Init
  <2>2. /\ runner \in [LoginId -> [pc: RunnerPc, cause: {"success", "failure"}]]
        /\ client \in [Client -> [pc: ClientPc, login: LoginId \cup {None}]]
    BY DEF Init, RunnerPc, ClientPc
  <2>3. child \in [LoginId -> {"none", "running", "asking", "exited"}]
        /\ prompted \in [LoginId -> Nat] /\ begun \in 0 .. MaxLogin
    BY LoginAssumption DEF Init
  <2> QED
    BY <2>1, <2>2, <2>3 DEF Init, TypeOK
<1>2. Waits /\ Fresh /\ OneStarts /\ Successful /\ Sent
  BY DEF Init, Waits, Fresh, OneStarts, Successful, Sent
<1>3. Counted /\ SuccessIsOwn /\ RegisteredIsActive
  BY DEF Init, Counted, SuccessIsOwn, RegisteredIsActive
<1> QED
  BY <1>1, <1>2, <1>3 DEF IInv

-----------------------------------------------------------------------------
(***************************************************************************)
(* The handlers.  One that is not about to start a goroutine may go        *)
(* anywhere but there.                                                     *)
(***************************************************************************)
HandlerState(r) ==
  /\ r \in [pc: ClientPc \ {"wipe"}, login: LoginId \cup {None}]
  /\ r.pc \in {"feed", "wait"} => r.login \in LoginId

LEMMA HandlerMoves ==
  ASSUME IInv, NEW c \in Client, NEW r, HandlerState(r),
         client' = [client EXCEPT ![c] = r], UNCHANGED <<begun, runner>>
  PROVE  /\ client' \in [Client -> [pc: ClientPc, login: LoginId \cup {None}]]
         /\ Waits' /\ Fresh' /\ OneStarts'
<1>1. \A d \in Client : client'[d] = IF d = c THEN r ELSE client[d]
  BY DEF IInv, TypeOK
<1>2. client' \in [Client -> [pc: ClientPc, login: LoginId \cup {None}]]
  BY DEF IInv, TypeOK, HandlerState
<1>3. Waits' /\ Fresh'
  BY <1>1 DEF IInv, Waits, Fresh, HandlerState
<1>4. r.pc # "wipe"
  BY DEF HandlerState
<1>5. OneStarts'
  BY <1>1, <1>4 DEF IInv, OneStarts
<1> QED
  BY <1>2, <1>3, <1>5

\* Only the handler changes, and 2fa.txt.
LEMMA HandlerOnly ==
  ASSUME IInv, NEW c \in Client, NEW r, HandlerState(r),
         client' = [client EXCEPT ![c] = r], codeFile' \in BOOLEAN,
         UNCHANGED <<up, logins, processes, tokens, history>>
  PROVE  IInv'
<1> USE DEF logins, processes, history
<1>1. TypeOK' /\ Waits' /\ Fresh' /\ OneStarts'
  BY HandlerMoves DEF IInv, TypeOK
<1>2. Successful' /\ Sent' /\ Counted' /\ SuccessIsOwn' /\ RegisteredIsActive'
  BY DEF IInv, Successful, Sent, Counted, SuccessIsOwn, RegisteredIsActive
<1> QED
  BY <1>1, <1>2 DEF IInv

\* The handler returns and forgets its login.
LEMMA Returned == HandlerState([pc |-> "idle", login |-> None])
  BY DEF HandlerState, ClientPc

LEMMA CheckInstanceStep ==
  ASSUME IInv, NEW c \in Client, NEW next \in {"checked", "code"}, CheckInstance(c, next)
  PROVE  IInv'
<1>1. CASE up
  BY <1>1, HandlerOnly, Returned DEF CheckInstance, Tell, history, data, IInv, TypeOK
<1>2. CASE ~up
  <2> DEFINE r == [client[c] EXCEPT !.pc = next]
  <2>1. client' = [client EXCEPT ![c] = r]
    BY <1>2 DEF CheckInstance
  <2>2. HandlerState(r)
    BY DEF HandlerState, ClientPc, IInv, TypeOK
  <2> QED
    BY <1>2, <2>1, <2>2, HandlerOnly DEF CheckInstance, history, data, IInv, TypeOK
<1> QED
  BY <1>1, <1>2

\* The new login is fresh, and nobody else has it.
LEMMA registerLoginStep ==
  ASSUME IInv, NEW c \in Client, registerLogin(c) PROVE IInv'
<1> USE DEF registerLogin, processes, data, history
<1>1. begun + 1 \in LoginId /\ begun \in Nat /\ runner[begun + 1].pc = "none"
  BY LoginAssumption DEF IInv, TypeOK, LoginId, Fresh
<1>2. \A d \in Client :
        client'[d] = IF d = c THEN [pc |-> "wipe", login |-> begun + 1] ELSE client[d]
  BY DEF IInv, TypeOK
<1>3. TypeOK'
  BY <1>1, LoginAssumption DEF IInv, TypeOK, LoginId, ClientPc
<1>4. Waits' /\ Fresh'
  BY <1>1, <1>2 DEF IInv, Waits, Fresh, LoginId
<1>5. OneStarts'
  <2>1. \A d \in Client : client[d].pc = "wipe" =>
          client[d].login \in LoginId /\ client[d].login <= begun
    BY DEF IInv, Waits, OneStarts
  <2>2. \A d \in Client : client[d].pc = "wipe" => client[d].login # begun + 1
    BY <1>1, <2>1 DEF LoginId
  <2>3. \A d \in Client : client[d].pc = "wipe" => client[d].login <= begun + 1
    BY <1>1, <2>1 DEF LoginId
  <2> QED
    BY <1>1, <1>2, <2>2, <2>3 DEF IInv, OneStarts
<1>6. RegisteredIsActive'
  BY <1>1 DEF RegisteredIsActive
<1>7. Successful' /\ Sent' /\ Counted' /\ SuccessIsOwn'
  BY DEF IInv, Successful, Sent, Counted, SuccessIsOwn
<1> QED
  BY <1>3, <1>4, <1>5, <1>6, <1>7 DEF IInv

\* The handler starts its login's goroutine, once.
LEMMA WipeAndRunStep ==
  ASSUME IInv, NEW c \in Client, WipeAndRun(c) PROVE IInv'
<1> USE DEF WipeAndRun, logins, history
<1> DEFINE n == client[c].login
<1>1. /\ n \in LoginId /\ n <= begun /\ runner[n].pc = "none"
      /\ \A d \in Client : client[d].pc = "wipe" /\ client[d].login = n => d = c
  BY DEF IInv, Waits, OneStarts
<1>2. /\ \A m \in LoginId \ {n} : runner'[m] = runner[m]
      /\ runner'[n].pc = "start" /\ runner'[n].cause = runner[n].cause
  BY <1>1 DEF IInv, TypeOK
<1>3. /\ \A d \in Client \ {c} : client'[d] = client[d]
      /\ client'[c].pc = "wait" /\ client'[c].login = n
  BY DEF IInv, TypeOK
<1>4. TypeOK'
  <2>1. runner' \in [LoginId -> [pc: RunnerPc, cause: {"success", "failure"}]]
    BY <1>1, Typed DEF RunnerPc
  <2>2. client' \in [Client -> [pc: ClientPc, login: LoginId \cup {None}]]
    BY DEF IInv, TypeOK, ClientPc
  <2> QED
    BY <2>1, <2>2 DEF IInv, TypeOK
<1>5. Waits' /\ Fresh'
  BY <1>1, <1>2, <1>3 DEF IInv, TypeOK, LoginId, Waits, Fresh
<1>6. OneStarts'
  BY <1>1, <1>2, <1>3 DEF IInv, Waits, OneStarts
<1>7. runner[n].cause # "success" /\ st[n].done = "empty" /\ n \notin told
  BY <1>1 DEF IInv, Successful, Sent, SuccessIsOwn, TypeOK
<1>8. Successful' /\ Sent' /\ SuccessIsOwn' /\ RegisteredIsActive'
  BY <1>2, <1>7
  DEF IInv, TypeOK, Successful, Sent, SuccessIsOwn, RegisteredIsActive
<1>9. Counted'
  BY DEF IInv, Counted
<1> QED
  BY <1>4, <1>5, <1>6, <1>8, <1>9 DEF IInv

LEMMA CodeStep ==
  ASSUME IInv, NEW c \in Client, FindPending(c) \/ provide2FACode(c) \/ LoginTimeout(c)
  PROVE  IInv'
<1>1. CASE client' = [client EXCEPT ![c] = [pc |-> "idle", login |-> None]]
  BY <1>1, HandlerOnly, Returned
  DEF FindPending, provide2FACode, LoginTimeout, Tell, data, history, IInv, TypeOK
<1>2. CASE FindPending(c) /\ loginRegistry # None
           /\ client' = [client EXCEPT ![c] = [pc |-> "feed", login |-> loginRegistry]]
  <2>1. HandlerState([pc |-> "feed", login |-> loginRegistry])
    BY <1>2 DEF HandlerState, ClientPc, IInv, TypeOK
  <2>2. UNCHANGED <<up, logins, processes, codeFile, tokens, history>>
    BY <1>2, LoginAssumption DEF FindPending, Tell, data, history
  <2> QED
    BY <1>2, <2>1, <2>2, HandlerOnly DEF IInv, TypeOK
<1>3. CASE provide2FACode(c) /\ client' = [client EXCEPT ![c].pc = "wait"]
           /\ codeFile' = TRUE /\ UNCHANGED told
  <2> DEFINE r == [client[c] EXCEPT !.pc = "wait"]
  <2>1. HandlerState(r) /\ client' = [client EXCEPT ![c] = r]
    BY <1>3 DEF HandlerState, ClientPc, IInv, TypeOK, Waits, provide2FACode
  <2> QED
    BY <1>3, <2>1, HandlerOnly DEF provide2FACode, history
<1> QED
  BY <1>1, <1>2, <1>3 DEF FindPending, provide2FACode, LoginTimeout, Tell

\* The outcome a handler takes from done is its login's own.
LEMMA ReceiveDoneStep ==
  ASSUME IInv, NEW c \in Client, ReceiveDone(c) PROVE IInv'
<1> DEFINE n == client[c].login
<1> USE DEF ReceiveDone, Tell, processes, data
<1>1. n \in LoginId /\ st[n].done \in {"success", "failure"}
  BY DEF IInv, TypeOK, Waits
<1>2. /\ client' = [client EXCEPT ![c] = [pc |-> "idle", login |-> None]]
      /\ st' = [st EXCEPT ![n].done = "empty"]
      /\ told' = IF st[n].done = "success" THEN told \cup {n} ELSE told
  OBVIOUS
<1>3. TypeOK' /\ Waits' /\ Fresh' /\ OneStarts'
  <2>1. /\ client' \in [Client -> [pc: ClientPc, login: LoginId \cup {None}]]
        /\ Waits' /\ Fresh' /\ OneStarts'
    BY <1>2, HandlerMoves, Returned
  <2>2. st' \in [LoginId -> [pending2FA: BOOLEAN, reported2FA: BOOLEAN,
                            done: {"empty", "success", "failure"}]]
    <3> HIDE DEF ReceiveDone, Tell, processes, data
    <3> QED
      BY <1>1, <1>2, Typed
  <2> QED
    BY <1>1, <1>2, <2>1, <2>2 DEF IInv, TypeOK
<1>4. \A m \in LoginId : /\ st'[m].done \in {st[m].done, "empty"}
                         /\ st'[m].reported2FA = st[m].reported2FA
  BY <1>1 DEF IInv, TypeOK
<1>5. SuccessIsOwn'
  BY <1>1, <1>2 DEF IInv, Sent, SuccessIsOwn
<1>6. Successful' /\ Sent' /\ Counted' /\ RegisteredIsActive'
  BY <1>4 DEF IInv, Successful, Sent, Counted, RegisteredIsActive
<1> QED
  BY <1>3, <1>5, <1>6 DEF IInv

\* The first handler that finds the prompt unreported is the only one.
LEMMA Report2FAStep ==
  ASSUME IInv, NEW c \in Client, Report2FA(c) PROVE IInv'
<1> DEFINE n == client[c].login
<1>1. n \in LoginId /\ ~st[n].reported2FA
  BY DEF IInv, TypeOK, Waits, Report2FA, claimPending2FA
<1>2. /\ client' = [client EXCEPT ![c] = [pc |-> "idle", login |-> None]]
      /\ st' = [st EXCEPT ![n].reported2FA = TRUE]
      /\ prompted' = [prompted EXCEPT ![n] = @ + 1] 
      /\ UNCHANGED <<up, loginRegistry, begun, processes, data, served, told>>
  BY DEF Report2FA, claimPending2FA, Tell
<1>3. TypeOK' /\ Waits' /\ Fresh' /\ OneStarts'
  <2>1. /\ client' \in [Client -> [pc: ClientPc, login: LoginId \cup {None}]]
        /\ Waits' /\ Fresh' /\ OneStarts'
    BY <1>2, HandlerMoves, Returned DEF processes
  <2>2. st' \in [LoginId -> [pending2FA: BOOLEAN, reported2FA: BOOLEAN,
                            done: {"empty", "success", "failure"}]]
    BY <1>1, <1>2, Typed
  <2>3. prompted' \in [LoginId -> Nat]
    BY <1>1, <1>2 DEF IInv, TypeOK
  <2> QED
    BY <1>2, <2>1, <2>2, <2>3 DEF IInv, TypeOK, processes, data
<1>4. /\ \A m \in LoginId \ {n} : st'[m] = st[m] /\ prompted'[m] = prompted[m]
      /\ st'[n].reported2FA = TRUE /\ st'[n].done = st[n].done
      /\ prompted'[n] = prompted[n] + 1
  <2>1. st \in [LoginId -> [pending2FA: BOOLEAN, reported2FA: BOOLEAN,
                           done: {"empty", "success", "failure"}]]
        /\ prompted \in [LoginId -> Nat]
    BY DEF IInv, TypeOK
  <2>2. \A m \in LoginId \ {n} : st'[m] = st[m] /\ prompted'[m] = prompted[m]
    BY <1>1, <1>2, <2>1
  <2>3. st'[n] = [st[n] EXCEPT !.reported2FA = TRUE] /\ prompted'[n] = prompted[n] + 1
    BY <1>1, <1>2, <2>1
  <2> QED
    BY <1>1, <2>1, <2>2, <2>3
<1>5. Counted'
  <2>1. prompted[n] = 0
    BY <1>1 DEF IInv, Counted
  <2> QED
    BY <1>1, <1>4, <2>1 DEF IInv, Counted
<1>6. Successful' /\ Sent' /\ SuccessIsOwn' /\ RegisteredIsActive'
  BY <1>2, <1>4 DEF IInv, Successful, Sent, SuccessIsOwn, RegisteredIsActive, processes
<1> QED
  BY <1>3, <1>5, <1>6 DEF IInv

-----------------------------------------------------------------------------
(***************************************************************************)
(* The login child and its prompt.                                         *)
(***************************************************************************)
LEMMA ChildStep ==
  ASSUME IInv, NEW n \in LoginId, ChildAsks(n) \/ ChildExits(n) PROVE IInv'
<1> USE DEF ChildAsks, ChildExits, logins, history, data
<1>1. TypeOK'
  BY DEF IInv, TypeOK
<1>2. UNCHANGED <<loginRegistry, begun, st, runner, client, prompted, told, served>>
  OBVIOUS
<1> HIDE DEF ChildAsks, ChildExits, logins, history, data
<1>3. Waits' /\ Fresh' /\ OneStarts'
  BY <1>2 DEF IInv, Waits, Fresh, OneStarts
<1>4. Successful' /\ Sent' /\ Counted' /\ SuccessIsOwn' /\ RegisteredIsActive'
  BY <1>2 DEF IInv, Successful, Sent, Counted, SuccessIsOwn, RegisteredIsActive
<1> QED
  BY <1>1, <1>3, <1>4 DEF IInv

\* The prompt marks the registered login.
LEMMA PromptStep ==
  ASSUME IInv, NEW n \in LoginId, login2FARequired(n) PROVE IInv'
<1> USE DEF login2FARequired, history, data
<1>1. TypeOK'
  <2>1. st' \in [LoginId -> [pending2FA: BOOLEAN, reported2FA: BOOLEAN,
                            done: {"empty", "success", "failure"}]]
    BY Typed
  <2> QED
    BY <2>1 DEF IInv, TypeOK
<1>2. \A m \in LoginId : /\ st'[m].done = st[m].done
                         /\ st'[m].reported2FA = st[m].reported2FA
  BY DEF IInv, TypeOK
<1>3. Waits' /\ Fresh' /\ OneStarts' /\ Successful' /\ Sent' /\ Counted'
  BY <1>2 DEF IInv, Waits, Fresh, OneStarts, Successful, Sent, Counted
<1>4. SuccessIsOwn' /\ RegisteredIsActive'
  BY DEF IInv, SuccessIsOwn, RegisteredIsActive
<1> QED
  BY <1>1, <1>3, <1>4 DEF IInv

-----------------------------------------------------------------------------
(***************************************************************************)
(* runLoginChild and finishLoginSuccess.                                   *)
(***************************************************************************)
\* A goroutine that runs goes on; it says success only of a started service.
LEMMA RunnerMoves ==
  ASSUME IInv, NEW n \in LoginId, runner[n].pc \notin {"none", "end"},
         NEW next \in RunnerPc \ {"none"}, NEW cause \in {"success", "failure"},
         Runner(n, next, cause), UNCHANGED <<begun, client, told>>,
         served \subseteq served',
         cause = "success" => n \in served' /\ next \in {"resolve", "end"}
  PROVE  /\ runner' \in [LoginId -> [pc: RunnerPc, cause: {"success", "failure"}]]
         /\ \A m \in LoginId \ {n} : runner'[m] = runner[m]
         /\ runner'[n].pc = next
         /\ Waits' /\ Fresh' /\ OneStarts' /\ Successful' /\ SuccessIsOwn'
<1>1. /\ runner' \in [LoginId -> [pc: RunnerPc, cause: {"success", "failure"}]]
      /\ \A m \in LoginId \ {n} : runner'[m] = runner[m]
      /\ runner'[n].pc = next /\ runner'[n].cause = cause
  BY DEF IInv, TypeOK, Runner
<1>2. Waits' /\ Fresh'
  BY <1>1 DEF IInv, Waits, Fresh
<1>3. OneStarts'
  BY <1>1 DEF IInv, Waits, OneStarts
<1>4. Successful'
  BY <1>1 DEF IInv, Successful
<1>5. SuccessIsOwn'
  <2>1. \A m \in told : m \in LoginId /\ m \in served /\ runner[m].pc = "end"
    BY DEF IInv, TypeOK, SuccessIsOwn
  <2> QED
    BY <1>1, <2>1 DEF SuccessIsOwn
<1> QED
  BY <1>1, <1>2, <1>3, <1>4, <1>5

\* The goroutine is not over, so nothing is in its channel.
LEMMA RunnerGoesOn ==
  ASSUME IInv, NEW n \in LoginId, runner[n].pc \notin {"none", "end"},
         NEW next \in RunnerPc \ {"none", "end"}, NEW cause \in {"success", "failure"},
         Runner(n, next, cause), UNCHANGED <<logins, line, client, prompted, told>>,
         up' \in BOOLEAN, tokens' \in BOOLEAN, codeFile' \in BOOLEAN,
         child' \in [LoginId -> {"none", "running", "asking", "exited"}],
         served' \in SUBSET LoginId, served \subseteq served',
         cause = "success" => n \in served' /\ next \in {"resolve", "end"}
  PROVE  IInv'
<1> USE DEF logins
<1>1. /\ runner' \in [LoginId -> [pc: RunnerPc, cause: {"success", "failure"}]]
      /\ \A m \in LoginId \ {n} : runner'[m] = runner[m]
      /\ runner'[n].pc = next
      /\ Waits' /\ Fresh' /\ OneStarts' /\ Successful' /\ SuccessIsOwn'
  BY RunnerMoves
<1>2. TypeOK'
  BY <1>1 DEF IInv, TypeOK
<1>3. Sent' /\ RegisteredIsActive'
  BY <1>1 DEF IInv, TypeOK, Sent, RegisteredIsActive
<1>4. Counted'
  BY DEF IInv, Counted
<1> QED
  BY <1>1, <1>2, <1>3, <1>4 DEF IInv

LEMMA RunStep ==
  ASSUME IInv, NEW n \in LoginId,
         runLoginChild(n) \/ ChildExited(n) \/ loginFailed(n)
  PROVE  IInv'
<1>1. /\ runner[n].pc \notin {"none", "end"}
      /\ \E next \in RunnerPc \ {"none", "end"} : Runner(n, next, "failure")
      /\ UNCHANGED <<logins, line, client, prompted, told, served>>
      /\ up' \in BOOLEAN /\ tokens' \in BOOLEAN /\ codeFile' \in BOOLEAN
      /\ child' \in [LoginId -> {"none", "running", "asking", "exited"}]
      /\ served' \in SUBSET LoginId
  BY DEF runLoginChild, ChildExited, loginFailed, RunnerPc, history, data, IInv, TypeOK
<1> QED
  BY <1>1, RunnerGoesOn

LEMMA ServiceStep ==
  ASSUME IInv, NEW n \in LoginId, finishLoginSuccess(n) PROVE IInv'
<1>1. /\ runner[n].pc \notin {"none", "end"}
      /\ UNCHANGED <<logins, line, client, prompted, told>>
      /\ up' \in BOOLEAN /\ tokens' \in BOOLEAN /\ codeFile' \in BOOLEAN
      /\ child' \in [LoginId -> {"none", "running", "asking", "exited"}]
      /\ served' \in SUBSET LoginId /\ served \subseteq served'
      /\ \/ Runner(n, "resolve", "success") /\ n \in served'
         \/ Runner(n, "wipe", "failure")
  BY DEF finishLoginSuccess, data, IInv, TypeOK
<1>2. "resolve" \in RunnerPc \ {"none", "end"} /\ "wipe" \in RunnerPc \ {"none", "end"}
  BY DEF RunnerPc
<1> QED
  BY <1>1, <1>2, RunnerGoesOn

\* The goroutine sends its outcome and ends; no login is registered then.
LEMMA ResolveStep ==
  ASSUME IInv, NEW n \in LoginId, resolveLogin(n) PROVE IInv'
<1> DEFINE cause == runner[n].cause
<1>1. /\ runner[n].pc = "resolve" /\ cause \in {"success", "failure"}
      /\ cause = "success" => n \in served
      /\ Runner(n, "end", cause) /\ loginRegistry' = None
      /\ UNCHANGED <<up, begun, child, line, client, data, history>>
  BY DEF resolveLogin, RegisteredAfter, IInv, TypeOK, Successful
<1>2. /\ runner' \in [LoginId -> [pc: RunnerPc, cause: {"success", "failure"}]]
      /\ \A m \in LoginId \ {n} : runner'[m] = runner[m]
      /\ runner'[n].pc = "end"
      /\ Waits' /\ Fresh' /\ OneStarts' /\ Successful' /\ SuccessIsOwn'
  BY <1>1, RunnerMoves DEF RunnerPc, history
<1>3. /\ st' \in [LoginId -> [pending2FA: BOOLEAN, reported2FA: BOOLEAN,
                             done: {"empty", "success", "failure"}]]
      /\ \A m \in LoginId \ {n} : st'[m] = st[m]
      /\ st'[n].done \in {st[n].done, cause}
      /\ st'[n].reported2FA = st[n].reported2FA
  BY <1>1 DEF resolveLogin, SendDone, IInv, TypeOK
<1>4. TypeOK'
  BY <1>1, <1>2, <1>3 DEF IInv, TypeOK, data, history
<1>5. Sent'
  BY <1>1, <1>2, <1>3 DEF IInv, Sent, history
<1>6. Counted' /\ RegisteredIsActive'
  BY <1>1, <1>3 DEF IInv, Counted, RegisteredIsActive, history
<1> QED
  BY <1>2, <1>4, <1>5, <1>6 DEF IInv

-----------------------------------------------------------------------------
\* Every step keeps the invariant.
LEMMA NextIInv == IInv /\ [Next]_vars => IInv'
<1> SUFFICES ASSUME IInv, [Next]_vars PROVE IInv'
  OBVIOUS
<1>1. CASE InstanceGone \/ UNCHANGED vars
  <2>1. up' \in BOOLEAN /\ UNCHANGED <<logins, processes, client, data, history>>
    BY <1>1 DEF InstanceGone, vars, IInv, TypeOK
  <2>2. TypeOK' /\ Waits' /\ Fresh' /\ OneStarts'
    BY <2>1 DEF IInv, TypeOK, Waits, Fresh, OneStarts, logins, processes, data, history
  <2>3. Successful' /\ Sent' /\ Counted' /\ SuccessIsOwn' /\ RegisteredIsActive'
    BY <2>1 DEF IInv, Successful, Sent, Counted, SuccessIsOwn, RegisteredIsActive,
                logins, processes, history
  <2> QED
    BY <2>2, <2>3 DEF IInv
<1>2. ASSUME NEW c \in Client, startLogin(c) \/ startLoginWithCode(c) PROVE IInv'
  BY <1>2, CheckInstanceStep DEF startLogin, startLoginWithCode
<1>3. ASSUME NEW c \in Client, HandlerStep(c) \/ LoginTimeout(c) PROVE IInv'
  BY <1>3, registerLoginStep, WipeAndRunStep, CodeStep, ReceiveDoneStep, Report2FAStep
  DEF HandlerStep
<1>4. ASSUME NEW n \in LoginId, RunnerStep(n) \/ ChildAsks(n) \/ ChildExits(n)
      PROVE  IInv'
  BY <1>4, RunStep, ServiceStep, ResolveStep, PromptStep, ChildStep DEF RunnerStep
<1> QED
  BY <1>1, <1>2, <1>3, <1>4 DEF Next

LEMMA LoginInvariant == Spec => []IInv
  BY InitIInv, NextIInv, PTL DEF Spec

\* Every reachable state of the logins of an account is well typed: in
\* particular every login that a handler waits for exists.
THEOREM TypeCorrect == Spec => []TypeOK
<1>1. IInv => TypeOK
  BY DEF IInv
<1> QED
  BY LoginInvariant, <1>1, PTL

\* claimPending2FA returns true once per login at most, for any number of
\* waiting handlers and overlapping logins.
THEOREM ClaimedOnce == Spec => []PromptedOnce
<1>1. IInv => PromptedOnce
  BY DEF IInv, Counted, PromptedOnce
<1> QED
  BY LoginInvariant, <1>1, PTL

\* waitForLoginFinish says success only of the login the handler waits for,
\* after runLoginChild has started the service for it.
THEOREM SuccessOwned == Spec => []SuccessIsOwn
<1>1. IInv => SuccessIsOwn
  BY DEF IInv
<1> QED
  BY LoginInvariant, <1>1, PTL

\* removeLogin leaves no login that is over in loginRegistry, although a
\* newer login may have replaced the one that ends.
THEOREM RegisteredActive == Spec => []RegisteredIsActive
<1>1. IInv => RegisteredIsActive
  BY DEF IInv
<1> QED
  BY LoginInvariant, <1>1, PTL

=============================================================================
