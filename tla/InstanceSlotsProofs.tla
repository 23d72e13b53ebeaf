------------------------- MODULE InstanceSlotsProofs -------------------------
(***************************************************************************)
(* Proofs about InstanceSlots for every number of requests, objects and    *)
(* slots, and for every race in ensureSem.  Tokens are never lost: those   *)
(* in the channels of an object are as many as the requests that hold a    *)
(* slot of it, although a request may take back another one's token.       *)
(***************************************************************************)
EXTENDS InstanceSlots, FiniteSetTheorems, TLAPS

\* The requests that have sent a token to o and not received one back.
Holders(o) == {r \in Req : pc[r] \in {"inflight", "release"} /\ obj[r] = o}

\* The occupied places of o's channels.
Places(o) == {p \in made[o] \X (1 .. Cap) : p[2] <= buf[o][p[1]]}

Conserved == \A o \in Obj : Cardinality(Places(o)) = Cardinality(Holders(o))

\* A request under way holds an object; only channels that were made are used.
Linked ==
  /\ \A o \in Obj : /\ sem[o] # None => sem[o] \in made[o]
                    /\ \A c \in Req \ made[o] : buf[o][c] = 0
  /\ \A r \in Req : /\ pc[r] # "idle" => obj[r] \in Obj
                    /\ pc[r] \notin {"idle", "make"} => sem[obj[r]] \in made[obj[r]]
                    /\ pc[r] \in {"send", "release"} => ch[r] \in made[obj[r]]

SlotsInv == SlotsTypeOK /\ Linked /\ Conserved

-----------------------------------------------------------------------------
\* The types hold initially.
LEMMA SlotsInitType == SlotsInit => SlotsTypeOK
<1>1. 0 \in 0 .. Cap
  BY CapAssumption
<1> QED
  BY <1>1 DEF SlotsInit, SlotsTypeOK

\* Every step keeps the types, given that channels in use exist: no channel
\* ever holds more than Cap tokens.
LEMMA SlotsNextType == SlotsTypeOK /\ Linked /\ [SlotsNext]_slotVars => SlotsTypeOK'
<1> SUFFICES ASSUME SlotsTypeOK, Linked, [SlotsNext]_slotVars PROVE SlotsTypeOK'
  OBVIOUS
<1>1. ASSUME NEW r \in Req, EnsureSem(r) PROVE SlotsTypeOK'
  BY <1>1 DEF SlotsTypeOK, EnsureSem, objects
<1>2. ASSUME NEW r \in Req, MakeSem(r) PROVE SlotsTypeOK'
  BY <1>2 DEF SlotsTypeOK, MakeSem
<1>3. ASSUME NEW r \in Req, AcquireInstanceSlot(r) PROVE SlotsTypeOK'
  <2>1. sem[obj[r]] \in Req
    BY <1>3 DEF SlotsTypeOK, Linked, AcquireInstanceSlot
  <2> QED
    BY <1>3, <2>1 DEF SlotsTypeOK, AcquireInstanceSlot, objects
<1>4. ASSUME NEW r \in Req, SlotAcquired(r) PROVE SlotsTypeOK'
  <2>1. ch[r] \in Req /\ obj[r] \in Obj
    BY <1>4 DEF SlotsTypeOK, Linked, SlotAcquired
  <2>2. buf[obj[r]][ch[r]] + 1 \in 0 .. Cap
    BY <1>4, <2>1, CapAssumption DEF SlotsTypeOK, SlotAcquired, Tokens
  <2>3. buf' \in [Obj -> [Req -> 0 .. Cap]]
    BY <1>4, <2>1, <2>2 DEF SlotsTypeOK, SlotAcquired
  <2> QED
    BY <1>4, <2>3 DEF SlotsTypeOK, SlotAcquired
<1>5. ASSUME NEW r \in Req, SlotTimeout(r) PROVE SlotsTypeOK'
  BY <1>5 DEF SlotsTypeOK, SlotTimeout, End, objects
<1>6. ASSUME NEW r \in Req, Finish(r) PROVE SlotsTypeOK'
  <2>1. sem[obj[r]] \in Req
    BY <1>6 DEF SlotsTypeOK, Linked, Finish
  <2> QED
    BY <1>6, <2>1 DEF SlotsTypeOK, Finish, objects
<1>7. ASSUME NEW r \in Req, ReleaseInstanceSlot(r) PROVE SlotsTypeOK'
  <2>1. ch[r] \in Req /\ obj[r] \in Obj
    BY <1>7 DEF SlotsTypeOK, Linked, ReleaseInstanceSlot
  <2>2. buf[obj[r]][ch[r]] - 1 \in 0 .. Cap
    BY <1>7, <2>1, CapAssumption DEF SlotsTypeOK, ReleaseInstanceSlot, Tokens
  <2>3. buf' \in [Obj -> [Req -> 0 .. Cap]]
    BY <1>7, <2>1, <2>2 DEF SlotsTypeOK, ReleaseInstanceSlot
  <2> QED
    BY <1>7, <2>3 DEF SlotsTypeOK, ReleaseInstanceSlot, End
<1>8. CASE NewInstance
  <2>1. 0 \in 0 .. Cap
    BY CapAssumption
  <2> QED
    BY <1>8, <2>1 DEF SlotsTypeOK, NewInstance
<1>9. CASE UNCHANGED slotVars
  BY <1>9 DEF SlotsTypeOK, slotVars, objects
<1> QED
  BY <1>1, <1>2, <1>3, <1>4, <1>5, <1>6, <1>7, <1>8, <1>9 DEF SlotsNext

\* Every step keeps channels and objects linked.
LEMMA SlotsNextLinked == SlotsTypeOK /\ Linked /\ [SlotsNext]_slotVars => Linked'
<1> SUFFICES ASSUME SlotsTypeOK, Linked, [SlotsNext]_slotVars PROVE Linked'
  OBVIOUS
<1> USE DEF SlotsTypeOK, Linked
<1>1. ASSUME NEW r \in Req, EnsureSem(r) PROVE Linked'
  BY <1>1 DEF EnsureSem, objects
<1>2. ASSUME NEW r \in Req, MakeSem(r) PROVE Linked'
  BY <1>2, ChanAssumption DEF MakeSem
<1>3. ASSUME NEW r \in Req, AcquireInstanceSlot(r) PROVE Linked'
  BY <1>3 DEF AcquireInstanceSlot, objects
<1>4. ASSUME NEW r \in Req, SlotAcquired(r) PROVE Linked'
  <2>1. \A o \in Obj : \A c \in Req \ made[o] : buf'[o][c] = buf[o][c]
    BY <1>4 DEF SlotAcquired
  <2> QED
    BY <1>4, <2>1 DEF SlotAcquired
<1>5. ASSUME NEW r \in Req, SlotTimeout(r) PROVE Linked'
  BY <1>5 DEF SlotTimeout, End, objects
<1>6. ASSUME NEW r \in Req, Finish(r) PROVE Linked'
  BY <1>6 DEF Finish, objects
<1>7. ASSUME NEW r \in Req, ReleaseInstanceSlot(r) PROVE Linked'
  <2>1. \A o \in Obj : \A c \in Req \ made[o] : buf'[o][c] = buf[o][c]
    BY <1>7 DEF ReleaseInstanceSlot
  <2> QED
    BY <1>7, <2>1 DEF ReleaseInstanceSlot, End
<1>8. CASE NewInstance
  BY <1>8 DEF NewInstance
<1>9. CASE UNCHANGED slotVars
  BY <1>9 DEF slotVars, objects
<1> QED
  BY <1>1, <1>2, <1>3, <1>4, <1>5, <1>6, <1>7, <1>8, <1>9 DEF SlotsNext

\* The sets that are counted are finite.
LEMMA Countable ==
  ASSUME SlotsTypeOK, NEW o \in Obj
  PROVE  /\ IsFiniteSet(Holders(o)) /\ Cardinality(Holders(o)) \in Nat
         /\ IsFiniteSet(made[o]) /\ Cardinality(made[o]) \in Nat
         /\ IsFiniteSet(Places(o)) /\ Cardinality(Places(o)) \in Nat
         /\ Cardinality(Places(o)) <= Cardinality(made[o]) * Cap
<1>1. IsFiniteSet(Holders(o)) /\ IsFiniteSet(made[o])
  BY ReqAssumption, FS_Subset DEF Holders, SlotsTypeOK
<1>2. IsFiniteSet(1 .. Cap) /\ Cardinality(1 .. Cap) = Cap
  BY CapAssumption, FS_Interval
<1>3. /\ IsFiniteSet(made[o] \X (1 .. Cap))
      /\ Cardinality(made[o] \X (1 .. Cap)) = Cardinality(made[o]) * Cap
  BY <1>1, <1>2, FS_Product
<1>4. Places(o) \subseteq made[o] \X (1 .. Cap)
  BY DEF Places
<1>5. /\ IsFiniteSet(Places(o))
      /\ Cardinality(Places(o)) <= Cardinality(made[o] \X (1 .. Cap))
  BY <1>3, <1>4, FS_Subset
<1> QED
  BY <1>1, <1>3, <1>5, FS_CardinalityType

\* Arithmetic.
LEMMA Below == \A k, n \in Int : k <= n - 1 <=> k <= n /\ k # n
  OBVIOUS

\* A step keeps the count of an object whose holders and places it keeps.
LEMMA ConservedSame ==
  ASSUME Conserved, NEW o \in Obj, Holders(o)' = Holders(o), Places(o)' = Places(o)
  PROVE  Cardinality(Places(o)') = Cardinality(Holders(o)')
  BY DEF Conserved

\* An object keeps its places if its channels keep their tokens.
LEMMA PlacesSame ==
  ASSUME NEW o \in Obj, made'[o] = made[o], buf'[o] = buf[o]
  PROVE  Places(o)' = Places(o)
  BY DEF Places

\* A slot that is taken occupies one more place.
LEMMA AcquiredConserved ==
  ASSUME SlotsInv, NEW r \in Req, SlotAcquired(r), NEW o \in Obj
  PROVE  Cardinality(Places(o)') = Cardinality(Holders(o)')
<1> USE DEF SlotsInv, SlotsTypeOK
<1>1. obj[r] \in Obj /\ ch[r] \in made[obj[r]] /\ ch[r] \in Req
  BY DEF Linked, SlotAcquired
<1>2. CASE o # obj[r]
  <2>1. Holders(o)' = Holders(o)
    BY <1>2 DEF SlotAcquired, Holders
  <2>2. buf'[o] = buf[o] /\ made'[o] = made[o]
    BY <1>1, <1>2 DEF SlotAcquired
  <2> QED
    BY <2>1, <2>2, PlacesSame, ConservedSame
<1>3. CASE o = obj[r]
  <2> DEFINE n == buf[o][ch[r]] + 1
             p == <<ch[r], n>>
  <2>1. r \notin Holders(o) /\ Holders(o)' = Holders(o) \cup {r}
    BY <1>3 DEF SlotAcquired, Holders
  <2>2. n \in 1 .. Cap
    BY <1>1, <1>3, CapAssumption DEF SlotAcquired, Tokens
  <2>3. made' = made /\ buf'[o][ch[r]] = n /\ \A c \in Req \ {ch[r]} : buf'[o][c] = buf[o][c]
    BY <1>1, <1>3 DEF SlotAcquired
  <2>4. made[o] \subseteq Req
    OBVIOUS
  <2>5. p \notin Places(o)
    BY <1>1, <2>2 DEF Places
  <2>6. \A c \in made[o] : \A k \in 1 .. Cap :
          <<c, k>> \in Places(o)' <=> <<c, k>> \in Places(o) \/ <<c, k>> = p
    <3> SUFFICES ASSUME NEW c \in made[o], NEW k \in 1 .. Cap
                 PROVE  k <= buf'[o][c] <=> k <= buf[o][c] \/ (c = ch[r] /\ k = n)
      BY <2>3 DEF Places
    <3>1. CASE c = ch[r]
      <4>1. buf[o][c] \in Nat /\ k \in Nat
        BY <2>4, CapAssumption
      <4>2. buf'[o][c] = buf[o][c] + 1 /\ n = buf[o][c] + 1
        BY <2>3, <3>1
      <4>3. k <= buf[o][c] + 1 <=> k <= buf[o][c] \/ k = buf[o][c] + 1
        BY <4>1
      <4> QED
        BY <3>1, <4>2, <4>3
    <3>2. CASE c # ch[r]
      BY <3>2, <2>3, <2>4
    <3> QED
      BY <3>1, <3>2
  <2>7. Places(o)' = Places(o) \cup {p}
    <3>1. Places(o)' \subseteq made[o] \X (1 .. Cap) /\ Places(o) \subseteq made[o] \X (1 .. Cap)
      BY <2>3 DEF Places
    <3>2. p \in made[o] \X (1 .. Cap)
      BY <1>1, <1>3, <2>2
    <3> QED
      BY <2>6, <3>1, <3>2
  <2>8. Cardinality(Places(o)') = Cardinality(Places(o)) + 1
    BY <2>5, <2>7, Countable, FS_AddElement
  <2>9. Cardinality(Holders(o)') = Cardinality(Holders(o)) + 1
    BY <2>1, Countable, FS_AddElement
  <2> QED
    BY <2>8, <2>9 DEF Conserved
<1> QED
  BY <1>2, <1>3

\* A slot that is released empties one place, in whichever channel.
LEMMA ReleasedConserved ==
  ASSUME SlotsInv, NEW r \in Req, ReleaseInstanceSlot(r), NEW o \in Obj
  PROVE  Cardinality(Places(o)') = Cardinality(Holders(o)')
<1> USE DEF SlotsInv, SlotsTypeOK
<1>1. obj[r] \in Obj /\ ch[r] \in made[obj[r]] /\ ch[r] \in Req
  BY DEF Linked, ReleaseInstanceSlot
<1>2. CASE o # obj[r]
  <2>1. Holders(o)' = Holders(o)
    BY <1>2, ChanAssumption DEF ReleaseInstanceSlot, End, Holders
  <2>2. buf'[o] = buf[o] /\ made'[o] = made[o]
    BY <1>1, <1>2 DEF ReleaseInstanceSlot
  <2> QED
    BY <2>1, <2>2, PlacesSame, ConservedSame
<1>3. CASE o = obj[r]
  <2> DEFINE n == buf[o][ch[r]]
             p == <<ch[r], n>>
  <2>1. r \in Holders(o) /\ Holders(o)' = Holders(o) \ {r}
    BY <1>3, ChanAssumption DEF ReleaseInstanceSlot, End, Holders
  <2>2. n \in 1 .. Cap
    BY <1>1, <1>3, CapAssumption DEF ReleaseInstanceSlot, Tokens
  <2>3. made' = made /\ buf'[o][ch[r]] = n - 1 /\ \A c \in Req \ {ch[r]} : buf'[o][c] = buf[o][c]
    BY <1>1, <1>3 DEF ReleaseInstanceSlot
  <2>4. made[o] \subseteq Req
    OBVIOUS
  <2>5. p \in Places(o)
    BY <1>1, <1>3, <2>2 DEF Places
  <2>6. \A c \in made[o] : \A k \in 1 .. Cap :
          <<c, k>> \in Places(o)' <=> <<c, k>> \in Places(o) /\ <<c, k>> # p
    <3> SUFFICES ASSUME NEW c \in made[o], NEW k \in 1 .. Cap
                 PROVE  k <= buf'[o][c] <=> k <= buf[o][c] /\ ~(c = ch[r] /\ k = n)
      BY <2>3 DEF Places
    <3>1. CASE c = ch[r]
      <4>1. buf[o][c] \in Nat /\ k \in Nat
        BY <2>4, CapAssumption
      <4>2. buf'[o][c] = buf[o][c] - 1 /\ n = buf[o][c]
        BY <2>3, <3>1
      <4>3. k <= buf[o][c] - 1 <=> k <= buf[o][c] /\ k # buf[o][c]
        BY ONLY <4>1, Below
      <4> QED
        BY <3>1, <4>2, <4>3
    <3>2. CASE c # ch[r]
      BY <3>2, <2>3, <2>4
    <3> QED
      BY <3>1, <3>2
  <2>7. Places(o)' = Places(o) \ {p}
    <3>1. Places(o)' \subseteq made[o] \X (1 .. Cap) /\ Places(o) \subseteq made[o] \X (1 .. Cap)
      BY <2>3 DEF Places
    <3> QED
      BY <2>6, <3>1
  <2>8. Cardinality(Places(o)') = Cardinality(Places(o)) - 1
    <3>1. IsFiniteSet(Places(o))
      BY Countable
    <3>2. Cardinality(Places(o) \ {p}) = Cardinality(Places(o)) - 1
      <4> HIDE DEF p
      <4> QED
        BY ONLY <2>5, <3>1, FS_RemoveElement
    <3> QED
      BY <2>7, <3>2
  <2>9. Cardinality(Holders(o)') = Cardinality(Holders(o)) - 1
    BY <2>1, Countable, FS_RemoveElement
  <2> QED
    BY <2>8, <2>9 DEF Conserved
<1> QED
  BY <1>2, <1>3

\* Every step keeps the tokens as many as the requests that hold a slot.
LEMMA SlotsNextConserved == SlotsInv /\ [SlotsNext]_slotVars => Conserved'
<1> SUFFICES ASSUME SlotsInv, [SlotsNext]_slotVars, NEW o \in Obj
             PROVE  Cardinality(Places(o)') = Cardinality(Holders(o)')
  BY DEF Conserved
<1> USE DEF SlotsInv, SlotsTypeOK
<1>1. ASSUME NEW r \in Req, EnsureSem(r) PROVE Holders(o)' = Holders(o)
  BY <1>1 DEF EnsureSem, Holders
<1>2. ASSUME NEW r \in Req, MakeSem(r)
      PROVE  Cardinality(Places(o)') = Cardinality(Holders(o)')
  <2>1. Holders(o)' = Holders(o)
    BY <1>2 DEF MakeSem, Holders
  <2>2. CASE o # obj[r]
    BY <1>2, <2>1, <2>2, PlacesSame, ConservedSame DEF MakeSem
  <2>3. CASE o = obj[r]
    <3>1. made'[o] = made[o] \cup {r} /\ buf' = buf
      BY <1>2, <2>3 DEF MakeSem
    <3>2. r \in made[o] \/ buf[o][r] = 0
      BY DEF Linked
    <3>3. Places(o)' = Places(o)
      BY <3>1, <3>2, CapAssumption DEF Places
    <3> QED
      BY <2>1, <3>3, ConservedSame
  <2> QED
    BY <2>2, <2>3
<1>3. ASSUME NEW r \in Req, AcquireInstanceSlot(r) PROVE Holders(o)' = Holders(o)
  BY <1>3 DEF AcquireInstanceSlot, Holders
<1>5. ASSUME NEW r \in Req, SlotTimeout(r) PROVE Holders(o)' = Holders(o)
  BY <1>5, ChanAssumption DEF SlotTimeout, End, Holders
<1>6. ASSUME NEW r \in Req, Finish(r) PROVE Holders(o)' = Holders(o)
  BY <1>6 DEF Finish, Holders
<1>7. ASSUME UNCHANGED objects, Holders(o)' = Holders(o)
      PROVE  Cardinality(Places(o)') = Cardinality(Holders(o)')
  BY <1>7, PlacesSame, ConservedSame DEF objects
<1>8. CASE NewInstance
  <2>1. PICK q \in Obj \ {cur} :
          /\ \A r \in Req : obj[r] # q
          /\ buf' = [buf EXCEPT ![q] = [c \in Req |-> 0]]
          /\ made' = [made EXCEPT ![q] = {}]
    BY <1>8 DEF NewInstance
  <2>2. Holders(o)' = Holders(o)
    BY <1>8 DEF NewInstance, Holders
  <2>3. CASE o # q
    BY <2>1, <2>2, <2>3, PlacesSame, ConservedSame
  <2>4. CASE o = q
    <3>1. Holders(o)' = {} /\ Places(o)' = {}
      BY <2>1, <2>2, <2>4 DEF Holders, Places
    <3> QED
      BY <3>1
  <2> QED
    BY <2>3, <2>4
<1>9. CASE UNCHANGED slotVars
  BY <1>9, <1>7 DEF slotVars, Holders
<1> QED
  BY <1>1, <1>2, <1>3, <1>5, <1>6, <1>7, <1>8, <1>9, AcquiredConserved, ReleasedConserved
  DEF SlotsNext, EnsureSem, AcquireInstanceSlot, SlotTimeout, Finish

-----------------------------------------------------------------------------
\* An instance starts without a channel.
LEMMA InitSlotsInv == SlotsInit => SlotsInv
<1> SUFFICES ASSUME SlotsInit PROVE SlotsInv
  OBVIOUS
<1>1. Linked
  BY DEF SlotsInit, Linked
<1>2. ASSUME NEW o \in Obj PROVE Places(o) = {} /\ Holders(o) = {}
  BY DEF SlotsInit, Places, Holders
<1>3. Conserved
  BY <1>2 DEF Conserved
<1> QED
  BY <1>1, <1>3, SlotsInitType DEF SlotsInv

\* Every step keeps the invariant.
LEMMA NextSlotsInv == SlotsInv /\ [SlotsNext]_slotVars => SlotsInv'
  BY SlotsNextType, SlotsNextLinked, SlotsNextConserved DEF SlotsInv

\* The occupied places bound the requests in flight.
LEMMA SlotsInvCapped == SlotsInv => CappedPerChannel
<1> SUFFICES ASSUME SlotsInv, NEW o \in Obj
             PROVE  Cardinality(InFlight(o)) <= Cap * Cardinality(made[o])
  BY DEF CappedPerChannel
<1>1. InFlight(o) \subseteq Holders(o)
  BY DEF InFlight, Holders
<1>2. /\ Cardinality(Places(o)) <= Cardinality(made[o]) * Cap
      /\ IsFiniteSet(Holders(o)) /\ Cardinality(Holders(o)) \in Nat
      /\ Cardinality(made[o]) \in Nat
  BY Countable DEF SlotsInv
<1>3. Cardinality(InFlight(o)) <= Cardinality(Holders(o)) /\ Cardinality(InFlight(o)) \in Nat
  BY <1>1, <1>2, FS_Subset, FS_CardinalityType
<1>4. Cardinality(Places(o)) = Cardinality(Holders(o))
  BY DEF SlotsInv, Conserved
<1>5. Cardinality(made[o]) * Cap = Cap * Cardinality(made[o]) /\ Cap * Cardinality(made[o]) \in Nat
  BY <1>2, CapAssumption
<1> QED
  BY <1>2, <1>3, <1>4, <1>5

\* With one channel, the token of whoever releases is in it.
LEMMA SlotsInvRelease == SlotsInv => ReleaseNeverBlocks
<1> SUFFICES ASSUME SlotsInv, NEW r \in Req, pc[r] = "release", OneChannel(obj[r])
             PROVE  Tokens(r) > 0
  BY DEF ReleaseNeverBlocks
<1> DEFINE o == obj[r]
<1>1. o \in Obj /\ ch[r] \in made[o]
  BY DEF SlotsInv, Linked
<1>2. r \in Holders(o)
  BY DEF Holders
<1>3. IsFiniteSet(Holders(o)) /\ IsFiniteSet(made[o])
  BY <1>1, Countable DEF SlotsInv
<1>4. Holders(o) # {} => Cardinality(Holders(o)) # 0
  BY <1>3, FS_EmptySet
<1>5. Places(o) # {}
  BY <1>1, <1>2, <1>4, FS_EmptySet DEF SlotsInv, Conserved
<1>6. made[o] = {ch[r]}
  <2>1. Cardinality(made[o]) \in Nat /\ Cardinality(made[o]) # 0
    BY <1>1, <1>3, FS_EmptySet, FS_CardinalityType
  <2>2. Cardinality(made[o]) = 1
    BY <2>1 DEF OneChannel
  <2> QED
    BY <1>1, <1>3, <2>2, FS_Singleton
<1>7. PICK p \in made[o] \X (1 .. Cap) : p[2] <= buf[o][p[1]]
  BY <1>5 DEF Places
<1>8. p[1] = ch[r] /\ p[2] \in 1 .. Cap
  BY <1>6, <1>7
<1>9. buf[o][ch[r]] \in 0 .. Cap
  BY <1>1 DEF SlotsInv, SlotsTypeOK
<1> QED
  BY <1>7, <1>8, <1>9, CapAssumption DEF Tokens

-----------------------------------------------------------------------------
\* Every reachable state is well typed, however many channels are made: no
\* channel ever holds more than instanceConcurrency tokens.
THEOREM SlotsTypeCorrect == SlotsSpec => []SlotsTypeOK
<1>1. SlotsInv => SlotsTypeOK
  BY DEF SlotsInv
<1> QED
  BY <1>1, InitSlotsInv, NextSlotsInv, PTL DEF SlotsSpec

\* Whatever races, times out and is replaced, an object forwards at most
\* instanceConcurrency requests per channel that it was given.
THEOREM Capped == SlotsSpec => []CappedPerChannel
  BY InitSlotsInv, NextSlotsInv, SlotsInvCapped, PTL DEF SlotsSpec

\* releaseInstanceSlot finds a token in every object that got one channel,
\* whichever objects replace it while its requests are under way.
THEOREM ReleaseFree == SlotsSpec => []ReleaseNeverBlocks
  BY InitSlotsInv, NextSlotsInv, SlotsInvRelease, PTL DEF SlotsSpec

\* The documented bound holds as long as no request races in ensureSem.
THEOREM CappedUnraced ==
  SlotsSpec => []((\A o \in Obj : OneChannel(o)) => ConcurrencyCapped)
<1>1. SlotsInv /\ CappedPerChannel => ((\A o \in Obj : OneChannel(o)) => ConcurrencyCapped)
  <2> SUFFICES ASSUME SlotsInv, NEW o \in Obj, OneChannel(o),
                      Cardinality(InFlight(o)) <= Cap * Cardinality(made[o])
               PROVE  Cardinality(InFlight(o)) <= Cap
    BY DEF CappedPerChannel, ConcurrencyCapped
  <2>1. Cardinality(made[o]) \in {0, 1}
    BY Countable DEF SlotsInv, OneChannel
  <2>2. Cap * Cardinality(made[o]) \in {0, Cap}
    BY <2>1, CapAssumption
  <2>3. Cardinality(InFlight(o)) \in Nat
    BY ReqAssumption, FS_Subset, FS_CardinalityType DEF InFlight
  <2> QED
    BY <2>2, <2>3, CapAssumption
<1> QED
  BY <1>1, InitSlotsInv, NextSlotsInv, SlotsInvCapped, PTL DEF SlotsSpec

=============================================================================
