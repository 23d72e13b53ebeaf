----------------------------- MODULE GateProofs -----------------------------
(***************************************************************************)
(* Proofs about FairplayCircuit, for every set of instances, threshold,    *)
(* cooldown and per-instance concurrency, and about its composition with   *)
(* the slots: Gate implements both of its parts, so that what is proved    *)
(* about each holds for requests that go through both, and the parts agree *)
(* on which requests there are.                                            *)
(***************************************************************************)
EXTENDS Gate, InstanceSlotsProofs

-----------------------------------------------------------------------------
(***************************************************************************)
(* The circuit.                                                            *)
(***************************************************************************)
\* The exclusion that is owed is the one the circuit state encodes.
RestIsLeft == \A i \in Id : rest[i] > 0 => armed[i] /\ left[i] = rest[i]

IInv == TypeOK /\ RestIsLeft

\* No request or line of the time before the opening is left at expiry.
Drained ==
  \A i \in Id : Expired(i) => waiting[i] = 0 /\ inflight[i] = 0 /\ lines[i] = 0

\* Strikes are counted in fails, and an armed circuit has none.
StrikesCounted ==
  \A i \in Id : IF armed[i] THEN strikes[i] = 0 ELSE strikes[i] <= fails[i]

PromptInv == TypeOK /\ Drained /\ StrikesCounted

-----------------------------------------------------------------------------
\* The types hold initially.
LEMMA InitType == Init => TypeOK
  BY ThresholdAssumption, CooldownAssumption, InflightAssumption
  DEF Init, TypeOK

\* A call of circuitOpen keeps the circuit typed.
LEMMA EffectType ==
  ASSUME TypeOK, NEW i \in Id, CircuitOpenEffect(i)
  PROVE  /\ fails' \in [Id -> 0 .. Threshold - 1]
         /\ armed' \in [Id -> BOOLEAN]
         /\ left' \in [Id -> -1 .. Cooldown]
<1>1. CASE Expired(i)
  <2>1. 0 \in 0 .. Threshold - 1
    BY ThresholdAssumption
  <2>2. armed' \in [Id -> BOOLEAN]
    BY <1>1 DEF TypeOK, CircuitOpenEffect
  <2>3. fails' \in [Id -> 0 .. Threshold - 1] /\ UNCHANGED left
    BY <1>1, <2>1 DEF TypeOK, CircuitOpenEffect
  <2> QED
    BY <2>2, <2>3 DEF TypeOK
<1>2. CASE ~Expired(i)
  BY <1>2 DEF TypeOK, CircuitOpenEffect, circuit
<1> QED
  BY <1>1, <1>2

\* A recorded failure keeps the circuit typed: fails stays below Threshold.
LEMMA RecordType ==
  ASSUME TypeOK, NEW i \in Id, RecordFairplayFailure(i)
  PROVE  /\ fails' \in [Id -> 0 .. Threshold - 1]
         /\ armed' \in [Id -> BOOLEAN]
         /\ left' \in [Id -> -1 .. Cooldown]
<1>1. CASE ~Counts(i)
  BY <1>1 DEF TypeOK, RecordFairplayFailure, circuit
<1>2. CASE Counts(i) /\ Reaches(i)
  <2>1. 0 \in 0 .. Threshold - 1 /\ Cooldown \in -1 .. Cooldown
    BY ThresholdAssumption, CooldownAssumption
  <2>2. armed' \in [Id -> BOOLEAN]
    BY <1>2 DEF TypeOK, RecordFairplayFailure
  <2>3. fails' \in [Id -> 0 .. Threshold - 1]
    BY <1>2, <2>1 DEF TypeOK, RecordFairplayFailure
  <2>4. left' \in [Id -> -1 .. Cooldown]
    BY <1>2, <2>1 DEF TypeOK, RecordFairplayFailure
  <2> QED
    BY <2>2, <2>3, <2>4
<1>3. CASE Counts(i) /\ ~Reaches(i)
  <2>1. fails[i] + 1 \in 0 .. Threshold - 1
    BY <1>3, ThresholdAssumption DEF TypeOK, Reaches
  <2> QED
    BY <1>3, <2>1 DEF TypeOK, RecordFairplayFailure
<1> QED
  BY <1>1, <1>2, <1>3

\* Every step keeps the types.
LEMMA NextType == TypeOK /\ [Next]_vars => TypeOK'
<1> SUFFICES ASSUME TypeOK, [Next]_vars PROVE TypeOK'
  OBVIOUS
<1>1. CASE Tick
  BY <1>1, CooldownAssumption DEF TypeOK, Tick
<1>2. ASSUME NEW i \in Id, Select(i) PROVE TypeOK'
  <2>1. waiting' \in [Id -> 0 .. MaxWaiting]
    BY <1>2, InflightAssumption DEF TypeOK, Select
  <2> QED
    BY <1>2, <2>1, EffectType DEF TypeOK, Select
<1>8. ASSUME NEW i \in Id, Forward(i) \/ Leave(i) PROVE TypeOK'
  <2>1. waiting' \in [Id -> 0 .. MaxWaiting]
    BY <1>8, InflightAssumption DEF TypeOK, Forward, Leave
  <2>2. inflight' \in [Id -> 0 .. MaxInflight]
    BY <1>8, InflightAssumption DEF TypeOK, Forward, Leave
  <2> QED
    BY <1>8, <2>1, <2>2 DEF TypeOK, Forward, Leave, circuit
<1>3. ASSUME NEW i \in Id, Probe(i) PROVE TypeOK'
  BY <1>3, EffectType DEF TypeOK, Probe
<1>4. ASSUME NEW i \in Id, Answer(i) PROVE TypeOK'
  BY <1>4, InflightAssumption DEF TypeOK, Answer, circuit
<1>5. ASSUME NEW i \in Id, FailureLine(i) PROVE TypeOK'
  <2>1. lines' \in [Id -> 0 .. MaxInflight]
    BY <1>5, InflightAssumption DEF TypeOK, FailureLine
  <2>2. rest' \in [Id -> 0 .. Cooldown]
    BY <1>5, CooldownAssumption DEF TypeOK, FailureLine
  <2>3. strikes' \in [Id -> Nat]
    BY <1>5 DEF TypeOK, FailureLine
  <2> QED
    BY <1>5, <2>1, <2>2, <2>3, RecordType DEF TypeOK, FailureLine
<1>6. ASSUME NEW i \in Id, ResetFairplayCircuit(i) PROVE TypeOK'
  BY <1>6, ThresholdAssumption, CooldownAssumption
  DEF TypeOK, ResetFairplayCircuit
<1>7. CASE UNCHANGED vars
  BY <1>7 DEF TypeOK, vars
<1> QED
  BY <1>1, <1>2, <1>3, <1>4, <1>5, <1>6, <1>7, <1>8 DEF Next

-----------------------------------------------------------------------------
\* Every step keeps the exclusion that is owed in the circuit state.
LEMMA NextRest == IInv /\ [Next]_vars => RestIsLeft'
<1> SUFFICES ASSUME TypeOK, RestIsLeft, [Next]_vars PROVE RestIsLeft'
  BY DEF IInv
<1> USE CooldownAssumption
<1>1. CASE Tick
  BY <1>1 DEF TypeOK, RestIsLeft, Tick
<1>2. ASSUME NEW i \in Id, CircuitOpenEffect(i), UNCHANGED rest
      PROVE  RestIsLeft'
  BY <1>2 DEF TypeOK, RestIsLeft, CircuitOpenEffect, Expired, circuit
<1>3. ASSUME NEW i \in Id, Forward(i) \/ Leave(i) \/ Answer(i) PROVE RestIsLeft'
  BY <1>3 DEF RestIsLeft, Forward, Leave, Answer, circuit
<1>4. ASSUME NEW i \in Id, FailureLine(i) PROVE RestIsLeft'
  <2>1. CASE ~Counts(i)
    BY <1>4, <2>1 DEF RestIsLeft, FailureLine, RecordFairplayFailure, circuit
  <2>2. CASE Counts(i) /\ Reaches(i)
    BY <1>4, <2>2
    DEF TypeOK, RestIsLeft, FailureLine, RecordFairplayFailure
  <2>3. CASE Counts(i) /\ ~Reaches(i)
    BY <1>4, <2>3 DEF RestIsLeft, FailureLine, RecordFairplayFailure
  <2> QED
    BY <2>1, <2>2, <2>3
<1>5. ASSUME NEW i \in Id, ResetFairplayCircuit(i) PROVE RestIsLeft'
  BY <1>5 DEF TypeOK, RestIsLeft, ResetFairplayCircuit
<1>6. CASE UNCHANGED vars
  BY <1>6 DEF RestIsLeft, vars
<1> QED
  BY <1>1, <1>2, <1>3, <1>4, <1>5, <1>6 DEF Next, Select, Probe

(***************************************************************************)
(* instance.go recordFairplayFailure and circuitOpen: the failure count    *)
(* stays below the threshold and the circuit state keeps its types.        *)
(***************************************************************************)
THEOREM TypeCorrect == Spec => []TypeOK
  BY InitType, NextType, PTL DEF Spec

(***************************************************************************)
(* An opened circuit excludes its instance for the whole cooldown, for     *)
(* every threshold and cooldown and without any assumption on how long     *)
(* requests and log lines take.                                            *)
(***************************************************************************)
THEOREM Excluded == Spec => []ExcludedForCooldown
<1>1. Init => IInv
  BY InitType DEF Init, IInv, RestIsLeft
<1>2. IInv /\ [Next]_vars => IInv'
  BY NextType, NextRest DEF IInv
<1>3. IInv => ExcludedForCooldown
  BY DEF IInv, TypeOK, RestIsLeft, ExcludedForCooldown, Open, Expired
<1> QED
  BY <1>1, <1>2, <1>3, PTL DEF Spec

-----------------------------------------------------------------------------
\* When requests and lines are prompt, an expired circuit is drained.
LEMMA NextDrained ==
  ASSUME Prompt, PromptInv, [Next]_vars PROVE Drained'
<1> USE DEF PromptInv
<1> USE CooldownAssumption
<1>1. CASE Tick
  BY <1>1 DEF TypeOK, Drained, Expired, Tick, MayPass
<1>2. ASSUME NEW i \in Id, Select(i) PROVE Drained'
  BY <1>2 DEF TypeOK, Drained, Expired, Open, Select, CircuitOpenEffect, circuit
<1>3. ASSUME NEW i \in Id, Probe(i) PROVE Drained'
  BY <1>3 DEF TypeOK, Drained, Expired, Probe, CircuitOpenEffect, circuit
<1>4. ASSUME NEW i \in Id, Forward(i) \/ Leave(i) \/ Answer(i) PROVE Drained'
  BY <1>4 DEF TypeOK, Drained, Expired, Forward, Leave, Answer, circuit
<1>5. ASSUME NEW i \in Id, FailureLine(i) PROVE Drained'
  BY <1>5 DEF TypeOK, Drained, Expired, FailureLine, RecordFairplayFailure,
              circuit
<1>6. ASSUME NEW i \in Id, ResetFairplayCircuit(i) PROVE Drained'
  BY <1>6 DEF TypeOK, Drained, Expired, ResetFairplayCircuit
<1>7. CASE UNCHANGED vars
  BY <1>7 DEF Drained, Expired, vars
<1> QED
  BY <1>1, <1>2, <1>3, <1>4, <1>5, <1>6, <1>7 DEF Next

\* ... and then every strike is counted in fails.
LEMMA NextStrikes ==
  ASSUME PromptInv, [Next]_vars PROVE StrikesCounted'
<1> USE DEF PromptInv
<1>1. CASE Tick
  BY <1>1 DEF StrikesCounted, Tick
<1>2. ASSUME NEW i \in Id, CircuitOpenEffect(i), UNCHANGED strikes
      PROVE  StrikesCounted'
  BY <1>2 DEF TypeOK, StrikesCounted, CircuitOpenEffect, Expired, circuit
<1>3. ASSUME NEW i \in Id, Forward(i) \/ Leave(i) \/ Answer(i) PROVE StrikesCounted'
  BY <1>3 DEF StrikesCounted, Forward, Leave, Answer, circuit
<1>4. ASSUME NEW i \in Id, FailureLine(i) PROVE StrikesCounted'
  <2>1. armed[i] => Open(i)
    BY <1>4 DEF TypeOK, Drained, FailureLine, Open
  <2>2. ~Open(i) => Counts(i)
    BY <2>1 DEF Counts
  <2>3. CASE ~Counts(i)
    BY <1>4, <2>2, <2>3
    DEF StrikesCounted, FailureLine, RecordFairplayFailure, circuit
  <2>4. CASE Counts(i) /\ Reaches(i)
    BY <1>4, <2>4
    DEF TypeOK, StrikesCounted, FailureLine, RecordFairplayFailure
  <2>5. CASE Counts(i) /\ ~Reaches(i)
    BY <1>4, <2>1, <2>5
    DEF TypeOK, StrikesCounted, FailureLine, RecordFairplayFailure, Open
  <2> QED
    BY <2>3, <2>4, <2>5
<1>5. ASSUME NEW i \in Id, ResetFairplayCircuit(i) PROVE StrikesCounted'
  BY <1>5 DEF TypeOK, StrikesCounted, ResetFairplayCircuit
<1>6. CASE UNCHANGED vars
  BY <1>6 DEF StrikesCounted, vars
<1> QED
  BY <1>1, <1>2, <1>3, <1>4, <1>5, <1>6 DEF Next, Select, Probe

(***************************************************************************)
(* When requests end and their lines are read within a cooldown (the code: *)
(* 12 s against 5 min), the threshold-th failure of a selectable instance  *)
(* always excludes it: circuitOpen's reset never erases a live count.      *)
(***************************************************************************)
THEOREM ThresholdReached ==
  ASSUME Prompt PROVE Spec => []ThresholdExcludes
<1>1. Init => PromptInv
  BY InitType DEF Init, PromptInv, TypeOK, Drained, StrikesCounted, Expired
<1>2. PromptInv /\ [Next]_vars => PromptInv'
  BY NextType, NextDrained, NextStrikes DEF PromptInv
<1>3. PromptInv => ThresholdExcludes
  <2> SUFFICES ASSUME PromptInv, NEW i \in Id PROVE strikes[i] < Threshold
    BY DEF ThresholdExcludes
  <2>1. fails[i] \in 0 .. Threshold - 1 /\ strikes[i] \in Nat
    BY DEF PromptInv, TypeOK
  <2>2. strikes[i] = 0 \/ strikes[i] <= fails[i]
    BY DEF PromptInv, StrikesCounted
  <2> QED
    BY <2>1, <2>2, ThresholdAssumption
<1> QED
  BY <1>1, <1>2, <1>3, PTL DEF Spec

-----------------------------------------------------------------------------
(***************************************************************************)
(* The composition.                                                        *)
(***************************************************************************)
\* Every step is a step of the circuit or leaves it alone.
LEMMA CircuitStep == [GateNext]_gateVars => [Next]_vars
<1> SUFFICES ASSUME [GateNext]_gateVars PROVE [Next]_vars
  OBVIOUS
<1>1. CASE Circuit
  BY <1>1 DEF Circuit, Next
<1>2. CASE Answered
  BY <1>2, SelfAssumption DEF Answered, Next
<1>3. CASE Insert
  BY <1>3, SelfAssumption DEF Insert, Next
<1>4. ASSUME NEW r \in Req, Fetch(r) \/ RequestStep(r) PROVE [Next]_vars
  BY <1>4, SelfAssumption
  DEF Fetch, RequestStep, Queue, Forwarded, Busy, Done, Release, Next
<1>5. CASE UNCHANGED gateVars
  BY <1>5 DEF gateVars
<1> QED
  BY <1>1, <1>2, <1>3, <1>4, <1>5 DEF GateNext

\* Every step is a step of the slots or leaves them alone.
LEMMA SlotsStep == [GateNext]_gateVars => [SlotsNext]_slotVars
<1> SUFFICES ASSUME [GateNext]_gateVars PROVE [SlotsNext]_slotVars
  OBVIOUS
<1>1. CASE Circuit
  BY <1>1 DEF Circuit
<1>2. CASE Answered
  BY <1>2 DEF Answered
<1>3. CASE Insert
  BY <1>3 DEF Insert, SlotsNext
<1>4. ASSUME NEW r \in Req, Fetch(r) \/ RequestStep(r) PROVE [SlotsNext]_slotVars
  BY <1>4
  DEF Fetch, RequestStep, Queue, Forwarded, Busy, Done, Release, SlotsNext
<1>5. CASE UNCHANGED gateVars
  BY <1>5 DEF gateVars
<1> QED
  BY <1>1, <1>2, <1>3, <1>4, <1>5 DEF GateNext

(***************************************************************************)
(* Selection, queueing, forwarding and replacement of an instance (region, *)
(* proxy and instance.go together) behave like the circuit breaker and     *)
(* like the slots, each on its own variables.                              *)
(***************************************************************************)
THEOREM Composition == GateSpec => Spec /\ SlotsSpec
<1>1. GateInit => Init /\ SlotsInit
  BY DEF GateInit
<1> QED
  BY <1>1, CircuitStep, SlotsStep, PTL DEF GateSpec, Spec, SlotsSpec

(***************************************************************************)
(* For requests that go through both, whatever races and is replaced: an   *)
(* opened circuit excludes for the whole cooldown, the threshold-th        *)
(* failure opens it although further requests are queued, and at most      *)
(* instanceConcurrency requests are in flight per channel made.            *)
(***************************************************************************)
THEOREM GateSafe ==
  ASSUME Prompt
  PROVE  GateSpec => /\ []ExcludedForCooldown /\ []ThresholdExcludes
                     /\ []CappedPerChannel /\ []ReleaseNeverBlocks
  BY Composition, Excluded, ThresholdReached, Capped, ReleaseFree, PTL

-----------------------------------------------------------------------------
\* The coupling of the two parts.
Coupled == Upstream \in Nat /\ inflight[Self] = Count({"inflight"})

CoupledInv == TypeOK /\ SlotsInv /\ Coupled

\* What a request's move from label a to label b does to a count.
LEMMA CountMove ==
  ASSUME SlotsTypeOK, NEW L, NEW r \in Req, NEW b,
         pc' = [pc EXCEPT ![r] = b]
  PROVE  /\ Count(L) \in Nat /\ Count(L)' \in Nat
         /\ pc[r] \in L /\ b \notin L => Count(L)' = Count(L) - 1
         /\ pc[r] \notin L /\ b \in L => Count(L)' = Count(L) + 1
         /\ (pc[r] \in L <=> b \in L) => Count(L)' = Count(L)
<1> DEFINE S == {q \in Req : pc[q] \in L}
           T == {q \in Req : pc'[q] \in L}
<1>1. IsFiniteSet(S) /\ IsFiniteSet(T)
  BY ReqAssumption, FS_Subset
<1>2. Cardinality(S) \in Nat /\ Cardinality(T) \in Nat
  BY <1>1, FS_CardinalityType
<1>3. \A q \in Req : q # r => pc'[q] = pc[q]
  BY DEF SlotsTypeOK
<1>4. pc'[r] = b
  BY DEF SlotsTypeOK
<1>5. CASE pc[r] \in L /\ b \notin L
  <2>1. r \in S /\ T = S \ {r}
    BY <1>3, <1>4, <1>5
  <2> QED
    BY <1>1, <1>2, <1>5, <2>1, FS_RemoveElement DEF Count
<1>6. CASE pc[r] \notin L /\ b \in L
  <2>1. r \notin S /\ T = S \cup {r}
    BY <1>3, <1>4, <1>6
  <2> QED
    BY <1>1, <1>2, <1>6, <2>1, FS_AddElement DEF Count
<1>7. CASE pc[r] \in L <=> b \in L
  <2>1. T = S
    BY <1>3, <1>4, <1>7
  <2> QED
    BY <1>2, <1>7, <2>1 DEF Count
<1> QED
  BY <1>5, <1>6, <1>7

LEMMA CoupledInit == GateInit => Coupled
<1> SUFFICES ASSUME GateInit PROVE Coupled
  OBVIOUS
<1>1. {r \in Req : pc[r] \in {"make", "acquire", "send"}} = {}
  BY DEF GateInit, SlotsInit
<1>2. {r \in Req : pc[r] \in {"inflight"}} = {}
  BY DEF GateInit, SlotsInit
<1>3. Cardinality({}) = 0
  BY FS_EmptySet
<1> QED
  <2>1. Count({"make", "acquire", "send"}) = 0 /\ Count({"inflight"}) = 0
    BY <1>1, <1>2, <1>3 DEF Count
  <2>2. waiting[Self] = 0 /\ inflight[Self] = 0
    BY SelfAssumption DEF GateInit, Init
  <2> QED
    BY <2>1, <2>2 DEF Coupled, Upstream

\* Every step moves a request in both parts or in neither.
LEMMA CoupledStep ==
  ASSUME CoupledInv, [GateNext]_gateVars
  PROVE  Coupled'
<1> DEFINE Q == {"make", "acquire", "send"}
           F == {"inflight"}
<1>t. /\ waiting \in [Id -> 0 .. MaxWaiting] /\ inflight \in [Id -> 0 .. MaxInflight]
      /\ Self \in Id /\ MaxWaiting \in Nat /\ MaxInflight \in Nat
  BY SelfAssumption, InflightAssumption DEF CoupledInv, TypeOK
<1>w. waiting[Self] \in Nat /\ inflight[Self] \in Nat
  BY <1>t
<1>c. Count(Q) \in Nat /\ Count(F) \in Nat
  <2>1. IsFiniteSet({r \in Req : pc[r] \in Q}) /\ IsFiniteSet({r \in Req : pc[r] \in F})
    BY ReqAssumption, FS_Subset
  <2> QED
    BY <2>1, FS_CardinalityType DEF Count
<1>u. Upstream = waiting[Self] - Count(Q) /\ Upstream \in Nat /\ inflight[Self] = Count(F)
  BY DEF CoupledInv, Coupled, Upstream
<1>g. ASSUME waiting'[Self] - Count(Q)' \in Nat, inflight'[Self] = Count(F)'
      PROVE  Coupled'
  BY <1>g DEF Coupled, Upstream
<1>k. ASSUME UNCHANGED pc
      PROVE  Count(Q)' = Count(Q) /\ Count(F)' = Count(F)
  BY <1>k DEF Count
<1>1. CASE Circuit
  <2>1. UNCHANGED pc
    BY <1>1 DEF Circuit, slotVars
  <2>2. inflight' = inflight
    BY <1>1 DEF Circuit, Tick, Select, Probe, FailureLine
  <2>3. waiting'[Self] \in Nat /\ waiting'[Self] >= waiting[Self]
    BY <1>1, <1>t, <1>w DEF Circuit, Tick, Select, Probe, FailureLine
  <2> QED
    BY <1>c, <1>g, <1>k, <1>u, <1>w, <2>1, <2>2, <2>3
<1>2. CASE Answered
  <2>1. UNCHANGED pc
    BY <1>2 DEF Answered, slotVars
  <2>2. inflight' = inflight /\ waiting'[Self] = waiting[Self] - 1 /\ Upstream > 0
    BY <1>2, <1>t DEF Answered, Leave
  <2> QED
    BY <1>c, <1>g, <1>k, <1>u, <1>w, <2>1, <2>2
<1>3. CASE Insert
  <2>1. UNCHANGED <<pc, waiting, inflight>>
    BY <1>3 DEF Insert, NewInstance, ResetFairplayCircuit
  <2> QED
    BY <1>g, <1>k, <1>u, <2>1
<1>4. ASSUME NEW r \in Req, Fetch(r) PROVE Coupled'
  <2>1. PICK b \in {"make", "acquire"} : pc' = [pc EXCEPT ![r] = b]
    BY <1>4 DEF Fetch, EnsureSem
  <2>2. pc[r] = "idle" /\ Upstream > 0 /\ UNCHANGED <<waiting, inflight>>
    BY <1>4 DEF Fetch, EnsureSem, vars
  <2>3. Count(Q)' = Count(Q) + 1 /\ Count(F)' = Count(F)
    BY <2>1, <2>2, CountMove DEF CoupledInv, SlotsInv
  <2> QED
    BY <1>c, <1>g, <1>u, <1>w, <2>2, <2>3
<1>5. ASSUME NEW r \in Req, Queue(r) PROVE Coupled'
  <2>1. PICK b \in {"acquire", "send"} : pc' = [pc EXCEPT ![r] = b]
    BY <1>5 DEF Queue, MakeSem, AcquireInstanceSlot
  <2>2. pc[r] \in {"make", "acquire"} /\ UNCHANGED <<waiting, inflight>>
    BY <1>5 DEF Queue, MakeSem, AcquireInstanceSlot, vars
  <2>3. Count(Q)' = Count(Q) /\ Count(F)' = Count(F)
    BY <2>1, <2>2, CountMove DEF CoupledInv, SlotsInv
  <2> QED
    BY <1>g, <1>u, <2>2, <2>3
<1>6. ASSUME NEW r \in Req, Forwarded(r) PROVE Coupled'
  <2>0. pc[r] = "send"
    BY <1>6 DEF Forwarded, SlotAcquired
  <2>1. PICK b \in {"inflight"} : pc' = [pc EXCEPT ![r] = b]
    BY <1>6 DEF Forwarded, SlotAcquired
  <2>4. Count(Q)' = Count(Q) - 1
    BY <2>0, <2>1, CountMove DEF CoupledInv, SlotsInv
  <2>5. Count(F)' = Count(F) + 1
    BY <2>0, <2>1, CountMove DEF CoupledInv, SlotsInv
  <2>3. waiting'[Self] = waiting[Self] - 1 /\ inflight'[Self] = inflight[Self] + 1
    BY <1>6, <1>t DEF Forwarded, Forward
  <2> QED
    BY <1>c, <1>g, <1>u, <1>w, <2>3, <2>4, <2>5
<1>7. ASSUME NEW r \in Req, Busy(r) PROVE Coupled'
  <2>0. pc[r] = "send"
    BY <1>7 DEF Busy, SlotTimeout, End
  <2>1. PICK b \in {"idle"} : pc' = [pc EXCEPT ![r] = b]
    BY <1>7 DEF Busy, SlotTimeout, End
  <2>4. Count(Q)' = Count(Q) - 1
    BY <2>0, <2>1, CountMove DEF CoupledInv, SlotsInv
  <2>5. Count(F)' = Count(F)
    BY <2>0, <2>1, CountMove DEF CoupledInv, SlotsInv
  <2>3. waiting'[Self] = waiting[Self] - 1 /\ inflight' = inflight
    BY <1>7, <1>t DEF Busy, Leave
  <2> QED
    BY <1>c, <1>g, <1>u, <1>w, <2>3, <2>4, <2>5
<1>8. ASSUME NEW r \in Req, Done(r) PROVE Coupled'
  <2>0. pc[r] = "inflight"
    BY <1>8 DEF Done, Finish
  <2>1. PICK b \in {"release"} : pc' = [pc EXCEPT ![r] = b]
    BY <1>8 DEF Done, Finish
  <2>4. Count(Q)' = Count(Q)
    BY <2>0, <2>1, CountMove DEF CoupledInv, SlotsInv
  <2>5. Count(F)' = Count(F) - 1
    BY <2>0, <2>1, CountMove DEF CoupledInv, SlotsInv
  <2>3. waiting' = waiting /\ inflight'[Self] = inflight[Self] - 1
    BY <1>8, <1>t DEF Done, Answer
  <2> QED
    BY <1>c, <1>g, <1>u, <1>w, <2>3, <2>4, <2>5
<1>9. ASSUME NEW r \in Req, Release(r) PROVE Coupled'
  <2>0. pc[r] = "release"
    BY <1>9 DEF Release, ReleaseInstanceSlot, End
  <2>1. PICK b \in {"idle"} : pc' = [pc EXCEPT ![r] = b]
    BY <1>9 DEF Release, ReleaseInstanceSlot, End
  <2>4. Count(Q)' = Count(Q)
    BY <2>0, <2>1, CountMove DEF CoupledInv, SlotsInv
  <2>5. Count(F)' = Count(F)
    BY <2>0, <2>1, CountMove DEF CoupledInv, SlotsInv
  <2>3. UNCHANGED <<waiting, inflight>>
    BY <1>9 DEF Release, vars
  <2> QED
    BY <1>g, <1>u, <2>3, <2>4, <2>5
<1>10. CASE UNCHANGED gateVars
  BY <1>10, <1>g, <1>k, <1>u DEF gateVars, vars, slotVars
<1> QED
  BY <1>1, <1>2, <1>3, <1>4, <1>5, <1>6, <1>7, <1>8, <1>9, <1>10
  DEF GateNext, RequestStep

(***************************************************************************)
(* Types, and the agreement of the two parts: what the circuit counts as   *)
(* in flight are the requests that hold a slot for forwarding, and no      *)
(* request queues that has not selected the instance.                      *)
(***************************************************************************)
THEOREM GateTypeCorrect == GateSpec => []GateTypeOK
<1>1. GateInit => CoupledInv
  BY CoupledInit, InitType, InitSlotsInv DEF GateInit, CoupledInv
<1>2. CoupledInv /\ [GateNext]_gateVars => CoupledInv'
  BY CoupledStep, CircuitStep, SlotsStep, NextType, NextSlotsInv DEF CoupledInv
<1>3. CoupledInv => GateTypeOK
  BY DEF CoupledInv, SlotsInv, Coupled, GateTypeOK
<1> QED
  BY <1>1, <1>2, <1>3, PTL DEF GateSpec

=============================================================================
