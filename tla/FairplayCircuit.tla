--------------------------- MODULE FairplayCircuit ---------------------------
(***************************************************************************)
(* The FairPlay circuit breaker of wrapper-manager (instance.go) with its  *)
(* callers: selection, which skips an instance whose circuit is open; the  *)
(* log watcher, which records a failure line; /status, which counts the    *)
(* open circuits; and InsertInstance, which forgets a circuit.             *)
(*                                                                         *)
(* Time is relative: left[id] is openUntil - now in ticks.  It is kept     *)
(* down to -1, "the deadline has passed".  A missing map entry behaves     *)
(* like a fresh one, so every id has an entry.                             *)
(***************************************************************************)
EXTENDS Integers

CONSTANTS
  Id,           \* instance ids
  Threshold,    \* fairplayFailThreshold
  Cooldown,     \* fairplayCooldown, in ticks
  MaxWaiting,   \* requests that have selected one instance and wait for it
  MaxInflight,  \* requests forwarded to one instance (InstanceSlots caps them)
  Prompt        \* requests end, and their lines are read, within a cooldown

ASSUME ThresholdAssumption == Threshold \in Nat \ {0}
ASSUME CooldownAssumption == Cooldown \in Nat \ {0}
ASSUME InflightAssumption == MaxWaiting \in Nat /\ MaxInflight \in Nat
ASSUME PromptAssumption == Prompt \in BOOLEAN

VARIABLES
  fails,      \* st.fails
  armed,      \* openUntil is not the zero time
  left,       \* openUntil - now while armed
  waiting,    \* /key requests that have selected the instance, not forwarded
  inflight,   \* /key requests forwarded to the instance and not answered
  lines,      \* failure lines written by the instance and not yet handled
  rest,       \* history: ticks of exclusion still owed since the last opening
  strikes     \* history: failures handled while the instance was selectable

vars == <<fails, armed, left, waiting, inflight, lines, rest, strikes>>
circuit == <<fails, armed, left>>

(***************************************************************************)
(* Type correctness; fails stays below the threshold.                      *)
(***************************************************************************)
TypeOK ==
  /\ fails \in [Id -> 0 .. Threshold - 1]
  /\ armed \in [Id -> BOOLEAN]
  /\ left \in [Id -> -1 .. Cooldown]
  /\ waiting \in [Id -> 0 .. MaxWaiting]
  /\ inflight \in [Id -> 0 .. MaxInflight]
  /\ lines \in [Id -> 0 .. MaxInflight]
  /\ rest \in [Id -> 0 .. Cooldown]
  /\ strikes \in [Id -> Nat]

Init ==
  /\ fails = [i \in Id |-> 0]
  /\ armed = [i \in Id |-> FALSE]
  /\ left = [i \in Id |-> -1]
  /\ waiting = [i \in Id |-> 0]
  /\ inflight = [i \in Id |-> 0]
  /\ lines = [i \in Id |-> 0]
  /\ rest = [i \in Id |-> 0]
  /\ strikes = [i \in Id |-> 0]

-----------------------------------------------------------------------------
\* Mutant: the cooldown is over before its deadline.
ExpiredEarly(i) == armed[i] /\ left[i] < 2

\* Mutant: a circuit never expires.
NeverExpired(i) == FALSE

\* time.Now().After(openUntil)
Expired(i) == armed[i] /\ left[i] < 0

\* What circuitOpen(i) answers.
Open(i) == armed[i] /\ ~Expired(i)

\* circuitOpen also closes a circuit whose cooldown has elapsed.
CircuitOpenEffect(i) ==
  IF Expired(i)
    THEN /\ armed' = [armed EXCEPT ![i] = FALSE]
         /\ fails' = [fails EXCEPT ![i] = 0]
         /\ UNCHANGED left
    ELSE UNCHANGED circuit

\* recordFairplayFailure ignores a failure while now is before openUntil.
Counts(i) == ~(armed[i] /\ left[i] > 0)

\* Mutant: the threshold is off by one.
ReachesLate(i) == fails[i] + 1 > Threshold

Reaches(i) == fails[i] + 1 >= Threshold

\* recordFairplayFailure(i)
RecordFairplayFailure(i) ==
  IF ~Counts(i) THEN UNCHANGED circuit
  ELSE IF Reaches(i)
    THEN /\ armed' = [armed EXCEPT ![i] = TRUE]
         /\ left' = [left EXCEPT ![i] = Cooldown]
         /\ fails' = [fails EXCEPT ![i] = 0]
    ELSE /\ fails' = [fails EXCEPT ![i] = @ + 1]
         /\ UNCHANGED <<armed, left>>

-----------------------------------------------------------------------------
\* selectableInstances keeps i for a request, which then probes and queues.
Select(i) ==
  /\ ~Open(i)
  /\ waiting[i] < MaxWaiting
  /\ CircuitOpenEffect(i)
  /\ waiting' = [waiting EXCEPT ![i] = @ + 1]
  /\ UNCHANGED <<inflight, lines, rest, strikes>>

\* The request is forwarded; its circuit is not looked at again.
Forward(i) ==
  /\ waiting[i] > 0 /\ inflight[i] < MaxInflight
  /\ waiting' = [waiting EXCEPT ![i] = @ - 1]
  /\ inflight' = [inflight EXCEPT ![i] = @ + 1]
  /\ UNCHANGED <<circuit, lines, rest, strikes>>

\* The request ends elsewhere: another instance answers, or this one is busy.
Leave(i) ==
  /\ waiting[i] > 0
  /\ waiting' = [waiting EXCEPT ![i] = @ - 1]
  /\ UNCHANGED <<circuit, inflight, lines, rest, strikes>>

\* GET /status calls circuitOpen for every instance (degradedCount), and so
\* does a selection that forwards its request elsewhere.
Probe(i) ==
  /\ CircuitOpenEffect(i)
  /\ UNCHANGED <<waiting, inflight, lines, rest, strikes>>

\* A request ends, with at most one FairPlay failure line (external).
Answer(i) ==
  /\ inflight[i] > 0
  /\ inflight' = [inflight EXCEPT ![i] = @ - 1]
  /\ \/ UNCHANGED lines
     \/ lines[i] < MaxInflight /\ lines' = [lines EXCEPT ![i] = @ + 1]
  /\ UNCHANGED <<circuit, waiting, rest, strikes>>

\* logLiteOutput reads a failure line of the instance.
FailureLine(i) ==
  /\ lines[i] > 0
  /\ lines' = [lines EXCEPT ![i] = @ - 1]
  /\ RecordFairplayFailure(i)
  /\ IF Counts(i) /\ Reaches(i)
       THEN /\ rest' = [rest EXCEPT ![i] = Cooldown]
            /\ strikes' = [strikes EXCEPT ![i] = 0]
       ELSE /\ UNCHANGED rest
            /\ strikes' = IF Open(i) THEN strikes
                                     ELSE [strikes EXCEPT ![i] = @ + 1]
  /\ UNCHANGED <<waiting, inflight>>

\* InsertInstance: a fresh lifecycle.  Requests and lines of the former one may
\* still be under way; they count for the id.
ResetFairplayCircuit(i) ==
  /\ fails' = [fails EXCEPT ![i] = 0]
  /\ armed' = [armed EXCEPT ![i] = FALSE]
  /\ rest' = [rest EXCEPT ![i] = 0]
  /\ strikes' = [strikes EXCEPT ![i] = 0]
  /\ UNCHANGED <<left, waiting, inflight, lines>>

\* slotTimeout (15 s), the retry budget (20 s) and upstreamTimeout (12 s) are far
\* below fairplayCooldown (5 min): with Prompt, no request or line outlives the
\* cooldown that it was there to see begin.
MayPass(i) ==
  Prompt /\ armed[i] /\ left[i] = 0 => waiting[i] = 0 /\ inflight[i] = 0 /\ lines[i] = 0

Tick ==
  /\ \A i \in Id : MayPass(i)
  /\ left' = [i \in Id |-> IF left[i] > -1 THEN left[i] - 1 ELSE -1]
  /\ rest' = [i \in Id |-> IF rest[i] > 0 THEN rest[i] - 1 ELSE 0]
  /\ UNCHANGED <<fails, armed, waiting, inflight, lines, strikes>>

-----------------------------------------------------------------------------
Next ==
  \/ Tick
  \/ \E i \in Id : \/ Select(i) \/ Forward(i) \/ Leave(i) \/ Probe(i)
                   \/ Answer(i) \/ FailureLine(i) \/ ResetFairplayCircuit(i)

Spec == Init /\ [][Next]_vars

-----------------------------------------------------------------------------
(***************************************************************************)
(* An instance is excluded for the whole cooldown once its circuit opened, *)
(* whatever selections, status calls and late failure lines intervene;     *)
(* only a fresh lifecycle ends the exclusion early.                        *)
(***************************************************************************)
ExcludedForCooldown == \A i \in Id : rest[i] > 0 => Open(i)

(***************************************************************************)
(* An instance that fails while it is being selected is excluded at the    *)
(* latest by the threshold-th failure: no count is lost in between.        *)
(***************************************************************************)
ThresholdExcludes == \A i \in Id : strikes[i] < Threshold

(***************************************************************************)
(* Every open circuit gives the instance another chance, even while late   *)
(* failure lines of earlier requests keep arriving.                        *)
(***************************************************************************)
AnotherChance == \A i \in Id : Open(i) ~> ~Open(i)

=============================================================================
