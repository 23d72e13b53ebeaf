-------------------------------- MODULE Gate --------------------------------
(***************************************************************************)
(* What stands between requests and one instance: the FairPlay circuit     *)
(* that selection looks at (FairplayCircuit) and the slots that forwarding *)
(* waits for (InstanceSlots).  A request selects the instance, queues for  *)
(* a slot, is forwarded, and its answer may log a failure that opens the   *)
(* circuit while others are queued already.  A new object for the id has   *)
(* neither slots nor a circuit.                                            *)
(***************************************************************************)
EXTENDS FairplayCircuit, InstanceSlots

CONSTANT Self   \* the instance

ASSUME SelfAssumption == Self \in Id

gateVars == <<vars, slotVars>>

Count(labels) == Cardinality({r \in Req : pc[r] \in labels})

\* Requests that have selected the instance and not reached its slots yet.
Upstream == waiting[Self] - Count({"make", "acquire", "send"})

(***************************************************************************)
(* Type correctness of both parts, and their common view of the requests.  *)
(***************************************************************************)
GateTypeOK ==
  /\ TypeOK /\ SlotsTypeOK
  /\ Upstream \in Nat
  /\ inflight[Self] = Count({"inflight"})

GateInit == Init /\ SlotsInit

-----------------------------------------------------------------------------
\* Steps of the circuit alone: selection, /status, log lines and time.
Circuit ==
  /\ \/ Tick
     \/ \E i \in Id : Select(i) \/ Probe(i) \/ FailureLine(i)
  /\ UNCHANGED slotVars

\* fetchFromLite is called for the instance ...
Fetch(r) ==
  /\ Upstream > 0
  /\ EnsureSem(r)
  /\ UNCHANGED vars

\* ... or the request has been answered before its turn comes.
Answered ==
  /\ Upstream > 0
  /\ Leave(Self)
  /\ UNCHANGED slotVars

Queue(r) == (MakeSem(r) \/ AcquireInstanceSlot(r)) /\ UNCHANGED vars

Forwarded(r) == SlotAcquired(r) /\ Forward(Self)

Busy(r) == SlotTimeout(r) /\ Leave(Self)

Done(r) == Finish(r) /\ Answer(Self)

Release(r) == ReleaseInstanceSlot(r) /\ UNCHANGED vars

\* InsertInstance.
Insert == ResetFairplayCircuit(Self) /\ NewInstance

RequestStep(r) == Queue(r) \/ Forwarded(r) \/ Busy(r) \/ Done(r) \/ Release(r)

GateNext ==
  \/ Circuit \/ Answered \/ Insert
  \/ \E r \in Req : Fetch(r) \/ RequestStep(r)

GateSpec == GateInit /\ [][GateNext]_gateVars

\* Time passes, lines are read, goroutines run, slotTimeout and upstreamTimeout
\* fire; a request that has selected the instance is forwarded or ends.
Fairness ==
  /\ WF_gateVars(Tick /\ UNCHANGED slotVars)
  /\ WF_gateVars(FailureLine(Self) /\ UNCHANGED slotVars)
  /\ WF_gateVars(Answered)
  /\ \A r \in Req : WF_gateVars(RequestStep(r))

FairGateSpec == GateSpec /\ Fairness

=============================================================================
