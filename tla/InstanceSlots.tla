---------------------------- MODULE InstanceSlots ----------------------------
(***************************************************************************)
(* The per-instance request slots of wrapper-manager (instance.go): a      *)
(* buffered channel of capacity instanceConcurrency, created on first use  *)
(* without a lock, that fetchFromLite (proxy.go) sends to before it        *)
(* forwards a request and receives from when the request ends.             *)
(*                                                                         *)
(* One instance id, many request goroutines.  A request keeps the object   *)
(* it looked up; InsertInstance may register another one for the id at any *)
(* time.  ensureSem's test and its assignment are separate steps: nothing  *)
(* orders them between goroutines.  A channel is named by the object and   *)
(* the request that made it.                                               *)
(***************************************************************************)
EXTENDS Naturals, FiniteSets

CONSTANTS
  Req,         \* request goroutines
  Obj,         \* WrapperInstance objects of the id
  Cap,         \* instanceConcurrency
  None         \* nil

ASSUME ReqAssumption == IsFiniteSet(Req)
ASSUME ObjAssumption == Obj # {}
ASSUME CapAssumption == Cap \in Nat \ {0}
ASSUME ChanAssumption == None \notin Req \cup Obj

VARIABLES
  cur,   \* the registered object
  obj,   \* the object a request holds
  sem,   \* the field sem of every object
  buf,   \* number of tokens in every channel
  made,  \* history: the requests that made a channel for an object
  pc,    \* control state of every request
  ch     \* the channel of its object that a request sends to or receives from

objects == <<cur, sem, buf, made>>
slotVars == <<objects, obj, pc, ch>>

(***************************************************************************)
(* Type correctness.                                                       *)
(***************************************************************************)
SlotsTypeOK ==
  /\ cur \in Obj
  /\ obj \in [Req -> Obj \cup {None}]
  /\ sem \in [Obj -> Req \cup {None}]
  /\ buf \in [Obj -> [Req -> 0..Cap]]
  /\ made \in [Obj -> SUBSET Req]
  /\ pc \in [Req -> {"idle", "make", "acquire", "send", "inflight", "release"}]
  /\ ch \in [Req -> Req \cup {None}]

SlotsInit ==
  /\ cur \in Obj
  /\ obj = [r \in Req |-> None]
  /\ sem = [o \in Obj |-> None]
  /\ buf = [o \in Obj |-> [c \in Req |-> 0]]
  /\ made = [o \in Obj |-> {}]
  /\ pc = [r \in Req |-> "idle"]
  /\ ch = [r \in Req |-> None]

-----------------------------------------------------------------------------
\* GetInstance, then ensureSem: the test for nil ...
EnsureSem(r) ==
  /\ pc[r] = "idle"
  /\ obj' = [obj EXCEPT ![r] = cur]
  /\ pc' = [pc EXCEPT ![r] = IF sem[cur] = None THEN "make" ELSE "acquire"]
  /\ UNCHANGED <<objects, ch>>

\* ... and the assignment.
MakeSem(r) ==
  /\ pc[r] = "make"
  /\ sem' = [sem EXCEPT ![obj[r]] = r]
  /\ made' = [made EXCEPT ![obj[r]] = @ \cup {r}]
  /\ pc' = [pc EXCEPT ![r] = "acquire"]
  /\ UNCHANGED <<cur, obj, buf, ch>>

\* The select of acquireInstanceSlot evaluates i.sem once.
AcquireInstanceSlot(r) ==
  /\ pc[r] = "acquire"
  /\ ch' = [ch EXCEPT ![r] = sem[obj[r]]]
  /\ pc' = [pc EXCEPT ![r] = "send"]
  /\ UNCHANGED <<objects, obj>>

\* The call returns: the request holds neither object nor channel.
End(r) ==
  /\ pc' = [pc EXCEPT ![r] = "idle"]
  /\ obj' = [obj EXCEPT ![r] = None]
  /\ ch' = [ch EXCEPT ![r] = None]

\* The tokens in the channel that r sends to or receives from.
Tokens(r) == buf[obj[r]][ch[r]]

\* Mutant: an unbounded channel.
SlotAcquiredUnbounded(r) ==
  /\ pc[r] = "send"
  /\ buf' = [buf EXCEPT ![obj[r]][ch[r]] = @ + 1]
  /\ pc' = [pc EXCEPT ![r] = "inflight"]
  /\ ch' = [ch EXCEPT ![r] = None]
  /\ UNCHANGED <<cur, obj, sem, made>>

\* Mutant: the slot is taken without a token.
SlotAcquiredFree(r) ==
  /\ pc[r] = "send"
  /\ pc' = [pc EXCEPT ![r] = "inflight"]
  /\ ch' = [ch EXCEPT ![r] = None]
  /\ UNCHANGED <<objects, obj>>

\* The send goes through: the request is forwarded to the instance.
SlotAcquired(r) ==
  /\ pc[r] = "send"
  /\ Tokens(r) < Cap
  /\ buf' = [buf EXCEPT ![obj[r]][ch[r]] = @ + 1]
  /\ pc' = [pc EXCEPT ![r] = "inflight"]
  /\ ch' = [ch EXCEPT ![r] = None]
  /\ UNCHANGED <<cur, obj, sem, made>>

\* Mutant: a timed-out request releases a slot it never had.
SlotTimeoutReleases(r) ==
  /\ pc[r] = "send"
  /\ pc' = [pc EXCEPT ![r] = "release"]
  /\ UNCHANGED <<objects, obj, ch>>

\* slotTimeout passes: the request fails with "instance busy".
SlotTimeout(r) ==
  /\ pc[r] = "send"
  /\ End(r)
  /\ UNCHANGED objects

\* The forwarded request ends (answer, error or upstreamTimeout) and the
\* deferred releaseInstanceSlot evaluates i.sem.
Finish(r) ==
  /\ pc[r] = "inflight"
  /\ ch' = [ch EXCEPT ![r] = sem[obj[r]]]
  /\ pc' = [pc EXCEPT ![r] = "release"]
  /\ UNCHANGED <<objects, obj>>

\* The receive blocks while the channel is empty.
ReleaseInstanceSlot(r) ==
  /\ pc[r] = "release"
  /\ Tokens(r) > 0
  /\ buf' = [buf EXCEPT ![obj[r]][ch[r]] = @ - 1]
  /\ End(r)
  /\ UNCHANGED <<cur, sem, made>>

\* InsertInstance registers a new object, one that nobody holds, whose sem is
\* nil; requests under way go on with the object they have.
NewInstance ==
  /\ \E o \in Obj \ {cur} :
       /\ \A r \in Req : obj[r] # o
       /\ cur' = o
       /\ sem' = [sem EXCEPT ![o] = None]
       /\ buf' = [buf EXCEPT ![o] = [c \in Req |-> 0]]
       /\ made' = [made EXCEPT ![o] = {}]
  /\ UNCHANGED <<obj, pc, ch>>

-----------------------------------------------------------------------------
SlotsNext ==
  \/ NewInstance
  \/ \E r \in Req : \/ EnsureSem(r) \/ MakeSem(r) \/ AcquireInstanceSlot(r)
                    \/ SlotAcquired(r) \/ SlotTimeout(r)
                    \/ Finish(r) \/ ReleaseInstanceSlot(r)

SlotsSpec == SlotsInit /\ [][SlotsNext]_slotVars

-----------------------------------------------------------------------------
\* The requests that are forwarded to object o and not over.
InFlight(o) == {r \in Req : pc[r] = "inflight" /\ obj[r] = o}

\* ensureSem has not been raced: it made one channel for o at most.
OneChannel(o) == Cardinality(made[o]) <= 1

(***************************************************************************)
(* instance.go: "instanceConcurrency is the maximum number of in-flight    *)
(* requests forwarded to a single wrapper-lite instance".                  *)
(***************************************************************************)
ConcurrencyCapped == \A o \in Obj : Cardinality(InFlight(o)) <= Cap

(***************************************************************************)
(* What the slots guarantee however requests race in ensureSem, time out   *)
(* and release into channels they did not take their slot from: no slot is *)
(* handed out twice, so that an object forwards at most                    *)
(* instanceConcurrency requests for every channel it was ever given.       *)
(***************************************************************************)
CappedPerChannel ==
  \A o \in Obj : Cardinality(InFlight(o)) <= Cap * Cardinality(made[o])

(***************************************************************************)
(* A finished request finds a token in the channel it receives from:       *)
(* releaseInstanceSlot, which runs before the reply is written, does not   *)
(* block, whatever other requests and objects do, unless requests raced in *)
(* ensureSem and their tokens are spread over channels.                    *)
(***************************************************************************)
ReleaseNeverBlocks ==
  \A r \in Req : pc[r] = "release" /\ OneChannel(obj[r]) => Tokens(r) > 0

(***************************************************************************)
(* Every request ends: served or refused as busy, never stuck in the slot  *)
(* channel, even when other requests keep coming and objects are replaced, *)
(* unless requests raced in ensureSem.                                     *)
(***************************************************************************)
RequestsEnd ==
  \A r \in Req : pc[r] # "idle" ~> (pc[r] = "idle" \/ ~OneChannel(obj[r]))

=============================================================================
