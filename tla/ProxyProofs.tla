----------------------------- MODULE ProxyProofs -----------------------------
(***************************************************************************)
(* Proofs about Proxy for every set of instances, attempt limit, budget    *)
(* and pair of timeouts.                                                   *)
(***************************************************************************)
EXTENDS Proxy, FiniteSetTheorems, TLAPS

\* Before the loop nothing has been asked and no time has passed.
BeforeWalk ==
  pc \in {"idle", "lyrics", "lyricsGet", "select", "songs", "videos"} =>
    /\ i = 1 /\ attempts = 0 /\ elapsed = 0 /\ direct = FALSE
    /\ cands = <<>> /\ asked = <<>>

\* While an instance is asked the loop is at a candidate, and what is left of
\* the attempt fits after the budget.
InFetch ==
  /\ pc \in {"slot", "upstream"} /\ direct = FALSE => i <= Len(cands)
  /\ pc = "walk" => direct = FALSE
  /\ pc = "slot" => elapsed <= Budget
  /\ pc = "upstream" => elapsed <= Budget + SlotTimeout
  /\ elapsed <= Budget + SlotTimeout + UpstreamTimeout

\* asked is what attempts counts.
AskedCounted == Len(asked) = IF direct THEN 1 ELSE attempts

IInv == TypeOK /\ BeforeWalk /\ InFetch /\ AskedCounted

-----------------------------------------------------------------------------
\* A shuffled set of instances is a sequence of instances.
LEMMA ShuffleType ==
  ASSUME NEW found \in SUBSET Instance, NEW s \in SetToSeqs(found)
  PROVE  s \in Seq(Instance) /\ Len(s) \in Nat
<1>1. IsFiniteSet(found)
  BY InstanceAssumption, FS_Subset
<1>2. Cardinality(found) \in Nat
  BY <1>1, FS_CardinalityType
<1>3. s \in [1 .. Cardinality(found) -> found]
  BY DEF SetToSeqs
<1> QED
  BY <1>2, <1>3

\* A refusal is a well-typed reply.
LEMMA RefusalType ==
  ASSUME NEW msg \in Refusal, WriteLiteError(msg)
  PROVE  /\ pc' = "done"
         /\ reply' \in [body: Body \cup Refusal \cup {None}, cache: {"public", "no-store"}]
  BY DEF WriteLiteError

\* The manager's own messages.
LEMMA Refusals ==
  /\ "no available instance" \in Refusal /\ "upstream error" \in Refusal
  /\ "bad request" \in Refusal /\ "probe error" \in Refusal
  BY DEF Refusal

\* The invariant holds initially.
LEMMA InitIInv == Init => IInv
<1> SUFFICES ASSUME Init PROVE IInv
  OBVIOUS
<1>0. /\ cands \in Seq(Instance) /\ i \in 1 .. Len(cands) + 1
      /\ asked \in Seq(Instance) /\ answers \in Seq(Body \cup {"error"})
  BY DEF Init
<1>3. reply \in [body: Body \cup Refusal \cup {None}, cache: {"public", "no-store"}]
  BY DEF Init
<1>4. /\ live \subseteq Instance /\ degraded \subseteq Instance
      /\ pc \in Pc /\ path \in Path /\ snap \subseteq Instance
  BY DEF Init, Pc, Path
<1>5. /\ picked \in Instance \cup {None} /\ cur \in Instance \cup {None}
      /\ lastBody \in Body \cup {None} /\ direct \in BOOLEAN
  BY DEF Init
<1>1. TypeOK
  BY <1>0, <1>3, <1>4, <1>5, AttemptsAssumption DEF Init, TypeOK
<1>2. BeforeWalk /\ InFetch /\ AskedCounted
  BY TimeAssumption DEF Init, BeforeWalk, InFetch, AskedCounted
<1> QED
  BY <1>1, <1>2 DEF IInv

\* Registry changes, requests that are refused and requests that begin.
LEMMA RegistryChangeIInv == IInv /\ RegistryChange => IInv'
  BY InstanceAssumption
  DEF IInv, TypeOK, BeforeWalk, InFetch, AskedCounted, RegistryChange,
      selection, walk, history

LEMMA RejectIInv ==
  ASSUME IInv, NEW p \in Path, RejectRequest(p) PROVE IInv'
<1>1. TypeOK'
  BY DEF IInv, TypeOK, RejectRequest, WriteLiteError, Pc, Refusal, env,
         selection, walk, history
<1>2. BeforeWalk' /\ InFetch' /\ AskedCounted'
  BY DEF IInv, TypeOK, BeforeWalk, InFetch, AskedCounted, RejectRequest,
         WriteLiteError, selection, walk, history
<1> QED
  BY <1>1, <1>2 DEF IInv

LEMMA AcceptIInv ==
  ASSUME IInv, NEW p \in Path, AcceptRequest(p) PROVE IInv'
<1>1. TypeOK'
  BY DEF IInv, TypeOK, AcceptRequest, selectableInstances, Pc, env, walk, history
<1>2. BeforeWalk' /\ InFetch' /\ AskedCounted'
  BY DEF IInv, TypeOK, BeforeWalk, InFetch, AskedCounted, AcceptRequest,
         walk, history
<1> QED
  BY <1>1, <1>2 DEF IInv

-----------------------------------------------------------------------------
\* Selection: only ProxyLyrics asks an instance, and only once.
LEMMA LyricsIInv == IInv /\ SelectInstanceForLyrics => IInv'
<1> SUFFICES ASSUME IInv, SelectInstanceForLyrics PROVE IInv'
  OBVIOUS
<1>1. TypeOK'
  BY DEF IInv, TypeOK, SelectInstanceForLyrics, Pc, env, walk, history
<1>2. BeforeWalk' /\ InFetch' /\ AskedCounted'
  BY DEF IInv, TypeOK, BeforeWalk, InFetch, AskedCounted,
         SelectInstanceForLyrics, walk, history
<1> QED
  BY <1>1, <1>2 DEF IInv

LEMMA ProxyLyricsIInv == IInv /\ ProxyLyrics => IInv'
<1> SUFFICES ASSUME IInv, ProxyLyrics PROVE IInv'
  OBVIOUS
<1>1. /\ i = 1 /\ attempts = 0 /\ elapsed = 0 /\ direct = FALSE
      /\ cands = <<>> /\ asked = <<>>
  BY DEF IInv, BeforeWalk, ProxyLyrics
<1>2. CASE picked \in live
  <2>1. picked \in Instance
    BY <1>2 DEF IInv, TypeOK
  <2>2. asked' = <<picked>> /\ direct' = TRUE /\ pc' = "slot"
    BY <1>1, <1>2, <2>1 DEF ProxyLyrics
  <2>3. TypeOK'
    BY <1>2, <2>1, <2>2 DEF IInv, TypeOK, ProxyLyrics, Pc, env
  <2>4. BeforeWalk' /\ InFetch' /\ AskedCounted'
    BY <1>1, <2>1, <2>2, TimeAssumption
    DEF BeforeWalk, InFetch, AskedCounted, ProxyLyrics
  <2> QED
    BY <2>3, <2>4 DEF IInv
<1>3. CASE picked \notin live
  <2>1. TypeOK'
    BY <1>3 DEF IInv, TypeOK, ProxyLyrics, Pc, env
  <2>2. BeforeWalk' /\ InFetch' /\ AskedCounted'
    BY <1>3, <1>1 DEF IInv, BeforeWalk, InFetch, AskedCounted, ProxyLyrics
  <2> QED
    BY <2>1, <2>2 DEF IInv
<1> QED
  BY <1>2, <1>3

LEMMA SnapshotIInv == IInv /\ SelectSnapshot => IInv'
<1> SUFFICES ASSUME IInv, SelectSnapshot PROVE IInv'
  OBVIOUS
<1>0. pc' \in Pc /\ reply' \in [body: Body \cup Refusal \cup {None},
                                 cache: {"public", "no-store"}]
  <2>1. CASE WriteLiteError("no available instance")
    BY <2>1, Refusals, RefusalType DEF Pc
  <2>2. CASE pc' = "songs" /\ UNCHANGED reply
    BY <2>2 DEF IInv, TypeOK, Pc
  <2> QED
    BY <2>1, <2>2 DEF SelectSnapshot
<1>1. TypeOK'
  BY <1>0 DEF IInv, TypeOK, SelectSnapshot, selectableInstances, env, walk, history
<1>2. BeforeWalk' /\ InFetch' /\ AskedCounted'
  BY DEF IInv, TypeOK, BeforeWalk, InFetch, AskedCounted, SelectSnapshot,
         WriteLiteError, walk, history
<1> QED
  BY <1>1, <1>2 DEF IInv

\* The loop starts at the first candidate with a full budget.
LEMMA WalkIInv ==
  ASSUME IInv, pc \in {"songs", "videos"}, NEW found \in SUBSET snap, Walk(found),
         UNCHANGED <<env, path, picked, walk, history>>
  PROVE  IInv'
<1>1. found \in SUBSET Instance
  BY DEF IInv, TypeOK
<1>2. cands' \in Seq(Instance) /\ Len(cands') \in Nat
  BY <1>1, ShuffleType DEF Walk
<1>3. /\ i = 1 /\ attempts = 0 /\ elapsed = 0 /\ direct = FALSE
      /\ cands = <<>> /\ asked = <<>>
  BY DEF IInv, BeforeWalk
<1>4. TypeOK'
  BY <1>2, <1>3 DEF IInv, TypeOK, Walk, Pc, env, walk, history
<1>5. BeforeWalk' /\ InFetch' /\ AskedCounted'
  BY <1>3, TimeAssumption
  DEF IInv, BeforeWalk, InFetch, AskedCounted, Walk, walk, history
<1> QED
  BY <1>4, <1>5 DEF IInv

LEMMA SongsIInv == IInv /\ ProbeSongs => IInv'
<1> SUFFICES ASSUME IInv, ProbeSongs PROVE IInv'
  OBVIOUS
<1>1. CASE pc' = "videos" /\ UNCHANGED <<snap, cands, reply>>
  <2>1. TypeOK'
    BY <1>1 DEF IInv, TypeOK, ProbeSongs, Pc, env, walk, history
  <2>2. BeforeWalk' /\ InFetch' /\ AskedCounted'
    BY <1>1 DEF IInv, BeforeWalk, InFetch, AskedCounted, ProbeSongs, walk, history
  <2> QED
    BY <2>1, <2>2 DEF IInv
<1>2. ASSUME NEW found \in SUBSET snap, Walk(found) PROVE IInv'
  BY <1>2, WalkIInv DEF ProbeSongs
<1> QED
  BY <1>1, <1>2 DEF ProbeSongs

LEMMA VideosIInv == IInv /\ ProbeVideos => IInv'
<1> SUFFICES ASSUME IInv, ProbeVideos PROVE IInv'
  OBVIOUS
<1>1. ASSUME NEW m \in Refusal, WriteLiteError(m), UNCHANGED <<snap, cands>>
      PROVE  IInv'
  <2>1. TypeOK'
    BY <1>1 DEF IInv, TypeOK, ProbeVideos, WriteLiteError, Pc, env, walk, history
  <2>2. BeforeWalk' /\ InFetch' /\ AskedCounted'
    BY <1>1 DEF IInv, BeforeWalk, InFetch, AskedCounted, ProbeVideos,
                WriteLiteError, walk, history
  <2> QED
    BY <2>1, <2>2 DEF IInv
<1>2. ASSUME NEW found \in SUBSET snap, Walk(found) PROVE IInv'
  BY <1>2, WalkIInv DEF ProbeVideos
<1> QED
  BY <1>1, <1>2 DEF ProbeVideos, Refusal

-----------------------------------------------------------------------------
\* The loop.
LEMMA WalkEndIInv == IInv /\ WalkEnd => IInv'
<1> SUFFICES ASSUME IInv, WalkEnd PROVE IInv'
  OBVIOUS
<1>1. pc' = "done" /\ reply' \in [body: Body \cup Refusal \cup {None},
                                  cache: {"public", "no-store"}]
  <2>1. CASE lastBody # None
    <3>1. lastBody \in Body
      BY <2>1 DEF IInv, TypeOK
    <3> QED
      BY <2>1, <3>1 DEF WalkEnd, writeLiteBody, CacheControl
  <2>2. CASE lastBody = None
    BY <2>2, Refusals, RefusalType DEF WalkEnd
  <2> QED
    BY <2>1, <2>2
<1>2. TypeOK'
  BY <1>1 DEF IInv, TypeOK, WalkEnd, Pc, env, selection, walk, history
<1>3. BeforeWalk' /\ InFetch' /\ AskedCounted'
  BY <1>1 DEF IInv, BeforeWalk, InFetch, AskedCounted, WalkEnd, selection, walk, history
<1> QED
  BY <1>2, <1>3 DEF IInv

LEMMA WalkSkipIInv == IInv /\ WalkSkip => IInv'
<1> SUFFICES ASSUME IInv, WalkSkip PROVE IInv'
  OBVIOUS
<1>1. TypeOK'
  BY DEF IInv, TypeOK, WalkSkip, env, selection, history
<1>2. BeforeWalk' /\ InFetch' /\ AskedCounted'
  BY DEF IInv, BeforeWalk, InFetch, AskedCounted, WalkSkip, selection, history
<1> QED
  BY <1>1, <1>2 DEF IInv

LEMMA WalkAskIInv == IInv /\ WalkAsk => IInv'
<1> SUFFICES ASSUME IInv, WalkAsk PROVE IInv'
  OBVIOUS
<1>1. cands[i] \in Instance /\ i <= Len(cands) /\ direct = FALSE
  BY DEF IInv, TypeOK, InFetch, WalkAsk
<1>2. attempts + 1 \in 0 .. MaxRetryAttempts /\ elapsed <= Budget
  BY AttemptsAssumption, TimeAssumption DEF IInv, TypeOK, WalkAsk, GiveUp
<1>3. asked' \in Seq(Instance) /\ Len(asked') = Len(asked) + 1
  BY <1>1 DEF IInv, TypeOK, WalkAsk
<1>4. TypeOK'
  BY <1>1, <1>2, <1>3 DEF IInv, TypeOK, WalkAsk, Pc, env, selection
<1>5. BeforeWalk' /\ InFetch' /\ AskedCounted'
  BY <1>1, <1>2, <1>3 DEF IInv, BeforeWalk, InFetch, AskedCounted, WalkAsk, selection
<1> QED
  BY <1>4, <1>5 DEF IInv

\* A failed call leaves the loop at the next candidate.
LEMMA FetchErrorIInv ==
  ASSUME IInv, pc \in {"slot", "upstream"}, NEW d \in Nat, FetchError(d),
         elapsed + d <= Budget + SlotTimeout + UpstreamTimeout
  PROVE  IInv'
<1>0. elapsed' = elapsed + d /\ answers' = Append(answers, "error")
  BY DEF FetchError
<1>1. answers' \in Seq(Body \cup {"error"})
  BY <1>0 DEF IInv, TypeOK
<1>2. elapsed' \in Nat /\ elapsed' <= Budget + SlotTimeout + UpstreamTimeout
  BY <1>0 DEF IInv, TypeOK
<1>3. CASE direct
  <2>0. reply' \in [body: Body \cup Refusal \cup {None}, cache: {"public", "no-store"}]
        /\ pc' = "done" /\ UNCHANGED i
    BY <1>3, Refusals, RefusalType DEF FetchError
  <2>1. TypeOK'
    BY <1>1, <1>2, <2>0 DEF IInv, TypeOK, FetchError, Pc, env, selection
  <2>2. BeforeWalk' /\ InFetch' /\ AskedCounted'
    BY <1>2, <1>3 DEF IInv, BeforeWalk, InFetch, AskedCounted, FetchError,
                      WriteLiteError, selection
  <2> QED
    BY <2>1, <2>2 DEF IInv
<1>4. CASE direct = FALSE
  <2>1. i + 1 \in 1 .. Len(cands) + 1
    BY <1>4 DEF IInv, TypeOK, InFetch
  <2>2. TypeOK'
    BY <1>1, <1>2, <1>4, <2>1 DEF IInv, TypeOK, FetchError, Pc, env, selection
  <2>3. BeforeWalk' /\ InFetch' /\ AskedCounted'
    BY <1>2, <1>4 DEF IInv, BeforeWalk, InFetch, AskedCounted, FetchError, selection
  <2> QED
    BY <2>2, <2>3 DEF IInv
<1> QED
  BY <1>3, <1>4 DEF IInv, TypeOK

\* An answer ends the request or leaves the loop at the next candidate.
LEMMA AnswerIInv ==
  ASSUME IInv, NEW d \in Delays, NEW body \in Body, Answer(d, body)
  PROVE  IInv'
<1>1. d \in Nat /\ d <= UpstreamTimeout
  BY TimeAssumption
<1>2. elapsed' \in Nat /\ elapsed' <= Budget + SlotTimeout + UpstreamTimeout
  BY <1>1, TimeAssumption DEF IInv, TypeOK, InFetch, Answer
<1>3. answers' \in Seq(Body \cup {"error"})
  BY DEF IInv, TypeOK, Answer
<1>4. CASE writeLiteBody(body) /\ UNCHANGED <<i, lastBody>>
  <2>1. pc' = "done" /\ reply' \in [body: Body \cup Refusal \cup {None},
                                    cache: {"public", "no-store"}]
    BY <1>4 DEF writeLiteBody, CacheControl
  <2>2. TypeOK'
    BY <1>2, <1>3, <1>4, <2>1 DEF IInv, TypeOK, Answer, Pc, env, selection
  <2>3. BeforeWalk' /\ InFetch' /\ AskedCounted'
    BY <1>2, <1>4, <2>1 DEF IInv, BeforeWalk, InFetch, AskedCounted, Answer, selection
  <2> QED
    BY <2>2, <2>3 DEF IInv
<1>5. CASE /\ direct = FALSE
           /\ Remember(body) /\ i' = i + 1 /\ pc' = "walk" /\ UNCHANGED reply
  <2>1. i + 1 \in 1 .. Len(cands) + 1
    BY <1>5 DEF IInv, TypeOK, InFetch, Answer
  <2>2. TypeOK'
    BY <1>2, <1>3, <1>5, <2>1 DEF IInv, TypeOK, Answer, Remember, Pc, env, selection
  <2>3. BeforeWalk' /\ InFetch' /\ AskedCounted'
    BY <1>2, <1>5 DEF IInv, BeforeWalk, InFetch, AskedCounted, Answer, selection
  <2> QED
    BY <2>2, <2>3 DEF IInv
<1> QED
  BY <1>4, <1>5 DEF IInv, TypeOK, Answer

LEMMA SlotIInv ==
  ASSUME IInv, NEW w \in Waits, SlotGranted(w) PROVE IInv'
<1>1. w \in Nat /\ w <= SlotTimeout
  BY TimeAssumption
<1>2. elapsed' \in Nat /\ elapsed' <= Budget + SlotTimeout
  BY <1>1, TimeAssumption DEF IInv, TypeOK, InFetch, SlotGranted
<1>3. TypeOK'
  BY <1>2 DEF IInv, TypeOK, SlotGranted, Pc, env, selection, history
<1>4. BeforeWalk' /\ InFetch' /\ AskedCounted'
  BY <1>2, TimeAssumption
  DEF IInv, TypeOK, BeforeWalk, InFetch, AskedCounted, SlotGranted, selection, history
<1> QED
  BY <1>3, <1>4 DEF IInv

LEMMA FetchIInv == IInv /\ Fetch => IInv'
<1> SUFFICES ASSUME IInv, Fetch PROVE IInv'
  OBVIOUS
<1>1. CASE SlotBusy
  <2>1. elapsed + SlotTimeout <= Budget + SlotTimeout + UpstreamTimeout
    BY <1>1, TimeAssumption DEF IInv, TypeOK, InFetch, SlotBusy
  <2> QED
    BY <1>1, <2>1, FetchErrorIInv, TimeAssumption DEF SlotBusy
<1>2. ASSUME NEW d \in Delays, TransportError(d) PROVE IInv'
  <2>1. d \in Nat /\ elapsed + d <= Budget + SlotTimeout + UpstreamTimeout
    BY <1>2, TimeAssumption DEF IInv, TypeOK, InFetch, TransportError
  <2> QED
    BY <1>2, <2>1, FetchErrorIInv DEF TransportError
<1> QED
  BY <1>1, <1>2, SlotIInv, AnswerIInv DEF Fetch

LEMMA ReturnIInv == IInv /\ Return => IInv'
<1> SUFFICES ASSUME IInv, Return PROVE IInv'
  OBVIOUS
<1>0. /\ cands' \in Seq(Instance) /\ i' \in 1 .. Len(cands') + 1
      /\ asked' \in Seq(Instance) /\ answers' \in Seq(Body \cup {"error"})
  BY DEF Return
<1>3. reply' \in [body: Body \cup Refusal \cup {None}, cache: {"public", "no-store"}]
  BY DEF Return
<1>4. /\ live' \subseteq Instance /\ degraded' \subseteq Instance
      /\ pc' \in Pc /\ path' \in Path /\ snap' \subseteq Instance
  BY DEF IInv, TypeOK, Return, Pc, env
<1>5. /\ picked' \in Instance \cup {None} /\ cur' \in Instance \cup {None}
      /\ lastBody' \in Body \cup {None} /\ direct' \in BOOLEAN
  BY DEF Return
<1>1. TypeOK'
  BY <1>0, <1>3, <1>4, <1>5, AttemptsAssumption DEF Return, TypeOK
<1>2. BeforeWalk' /\ InFetch' /\ AskedCounted'
  BY TimeAssumption DEF Return, BeforeWalk, InFetch, AskedCounted
<1> QED
  BY <1>1, <1>2 DEF IInv

\* Every step keeps the invariant.
LEMMA NextIInv == IInv /\ [Next]_vars => IInv'
<1> SUFFICES ASSUME IInv, [Next]_vars PROVE IInv'
  OBVIOUS
<1>1. CASE UNCHANGED vars
  BY <1>1 DEF vars, env, selection, walk, history, IInv, TypeOK, BeforeWalk,
              InFetch, AskedCounted
<1>2. CASE Next
  BY <1>2, RegistryChangeIInv, RejectIInv, AcceptIInv, LyricsIInv, ProxyLyricsIInv,
     SnapshotIInv, SongsIInv, VideosIInv, WalkEndIInv, WalkSkipIInv, WalkAskIInv,
     FetchIInv, ReturnIInv
  DEF Next, RequestStep, Select
<1> QED
  BY <1>1, <1>2

-----------------------------------------------------------------------------
\* Every reachable state of a request is well typed: in particular the loop
\* of selectAndProxy never runs off its candidates and never makes more than
\* maxRetryAttempts attempts.
THEOREM TypeCorrect == Spec => []TypeOK
<1>1. IInv => TypeOK
  BY DEF IInv
<1> QED
  BY InitIInv, NextIInv, <1>1, PTL DEF Spec

\* selectAndProxy asks at most maxRetryAttempts instances and is over after
\* overallRetryBudget + slotTimeout + upstreamTimeout, whatever the instances,
\* the registry and the other requests do.
THEOREM Bounded == Spec => []RetryBounded
<1>1. IInv => RetryBounded
  BY AttemptsAssumption DEF IInv, TypeOK, InFetch, AskedCounted, RetryBounded
<1> QED
  BY InitIInv, NextIInv, <1>1, PTL DEF Spec

-----------------------------------------------------------------------------
(***************************************************************************)
(* What was answered.  The loop goes on only while every answer could be   *)
(* different at another instance, and lastBody is the last of them.        *)
(***************************************************************************)
Selecting == pc \in {"idle", "lyrics", "lyricsGet", "select", "songs", "videos"}

\* Nothing is answered or remembered before the loop.
NothingYet == Selecting => answers = <<>> /\ lastBody = None

\* Every instance asked has answered, but for the one that is being asked.
EachAnswers == Len(asked) = Len(answers) + (IF pc \in {"slot", "upstream"} THEN 1 ELSE 0)

AllFailed == \A n \in DOMAIN answers : answers[n] = "error"

LastIs(body) ==
  \E n \in DOMAIN answers :
    /\ answers[n] = body
    /\ \A m \in DOMAIN answers : m > n => answers[m] = "error"

\* lastBody is the last answer that was not a transport error.
Remembered ==
  pc # "done" => IF lastBody = None THEN AllFailed ELSE LastIs(lastBody)

Retriable(body) ==
  \/ body \in {"error", "500"}
  \/ body = "404" /\ path # "/lyrics"

\* Every answer seen while the request goes on may be followed by another try.
GoesOn == pc # "done" => \A n \in DOMAIN answers : Retriable(answers[n])

\* A direct call remembers nothing: its answer is the reply.
DirectAlone == direct => lastBody = None

HInv ==
  /\ DirectAlone
  /\ NothingYet /\ EachAnswers /\ Remembered /\ GoesOn
  /\ ReplyIsLastAnswer /\ VerdictIsFinal

\* What appending does to a sequence.
LEMMA Appending ==
  ASSUME NEW S, NEW s \in Seq(S), NEW e \in S
  PROVE  /\ Len(s) \in Nat /\ DOMAIN s = 1 .. Len(s)
         /\ Len(Append(s, e)) = Len(s) + 1
         /\ DOMAIN Append(s, e) = 1 .. Len(s) + 1
         /\ \A n \in DOMAIN s : Append(s, e)[n] = s[n]
         /\ Append(s, e)[Len(s) + 1] = e
  OBVIOUS

\* The sequences of the history are sequences.
LEMMA Lengths ==
  ASSUME IInv
  PROVE  /\ Len(answers) \in Nat /\ DOMAIN answers = 1 .. Len(answers)
         /\ Len(asked) \in Nat
  BY DEF IInv, TypeOK

\* The history before the loop is empty, and stays so.
LEMMA SelectingHInv ==
  ASSUME IInv, HInv, Selecting, pc' \in Pc \ {"slot", "upstream", "done"},
         UNCHANGED <<asked, answers, lastBody, reply>>
  PROVE  HInv'
<1>1. answers = <<>> /\ lastBody = None /\ asked = <<>>
  BY DEF HInv, NothingYet, Selecting, IInv, BeforeWalk
<1>2. DirectAlone' /\ NothingYet' /\ EachAnswers' /\ Remembered' /\ GoesOn'
  BY <1>1 DEF DirectAlone, NothingYet, EachAnswers, Remembered, GoesOn, AllFailed,
              Retriable
<1>3. ReplyIsLastAnswer' /\ VerdictIsFinal'
  BY <1>1 DEF ReplyIsLastAnswer, VerdictIsFinal, HInv, Selecting
<1> QED
  BY <1>2, <1>3 DEF HInv

\* The manager answers when no instance has.
LEMMA RefuseHInv ==
  ASSUME IInv, HInv, pc \notin {"slot", "upstream", "done"}, AllFailed,
         NEW msg \in Refusal, WriteLiteError(msg),
         UNCHANGED <<direct, lastBody, asked, answers>>
  PROVE  HInv'
<1>1. Len(asked) = Len(answers) /\ pc' = "done"
  BY DEF HInv, EachAnswers, WriteLiteError
<1>2. DirectAlone' /\ NothingYet' /\ EachAnswers' /\ Remembered' /\ GoesOn'
  BY <1>1 DEF HInv, DirectAlone, NothingYet, Selecting, EachAnswers, Remembered, GoesOn
<1>3. ReplyIsLastAnswer'
  BY DEF ReplyIsLastAnswer, AllFailed, WriteLiteError
<1>4. VerdictIsFinal'
  BY DEF AllFailed, VerdictIsFinal
<1> QED
  BY <1>2, <1>3, <1>4 DEF HInv

LEMMA ChangeHInv ==
  ASSUME IInv, HInv, UNCHANGED <<pc, path, direct, lastBody, reply, asked, answers>>
  PROVE  HInv'
  BY DEF HInv, DirectAlone, NothingYet, Selecting, EachAnswers, Remembered, AllFailed, LastIs,
         GoesOn, Retriable, ReplyIsLastAnswer, VerdictIsFinal

\* Nothing has been answered while an instance is selected.
LEMMA SelectingAllFailed == HInv /\ Selecting => AllFailed
  BY DEF HInv, NothingYet, AllFailed

LEMMA BeginHInv ==
  ASSUME IInv, HInv, NEW p \in Path, RejectRequest(p) \/ AcceptRequest(p)
  PROVE  HInv'
<1>1. CASE RejectRequest(p)
  BY <1>1, RefuseHInv, SelectingAllFailed, Refusals
  DEF RejectRequest, Selecting, walk, history
<1>2. CASE AcceptRequest(p)
  BY <1>2, SelectingHInv DEF AcceptRequest, Selecting, Pc, history, walk
<1> QED
  BY <1>1, <1>2

LEMMA SelectHInv ==
  ASSUME IInv, HInv, Select PROVE HInv'
<1> USE DEF Selecting, history, walk
<1>1. CASE SelectInstanceForLyrics
  BY <1>1, SelectingHInv DEF SelectInstanceForLyrics, Pc
<1>2. CASE ProxyLyrics /\ picked \notin live
  BY <1>2, SelectingHInv DEF ProxyLyrics, Pc
<1>3. CASE ProxyLyrics /\ picked \in live
  <2>1. /\ answers = <<>> /\ answers' = <<>> /\ lastBody = None /\ lastBody' = None
        /\ asked = <<>> /\ asked' = Append(asked, picked) /\ pc' = "slot"
    BY <1>3 DEF ProxyLyrics, HInv, NothingYet, IInv, BeforeWalk
  <2>2. Len(asked') = 1
    BY <2>1
  <2>3. DirectAlone' /\ NothingYet' /\ EachAnswers' /\ Remembered' /\ GoesOn'
    BY <2>1, <2>2 DEF DirectAlone, NothingYet, EachAnswers, Remembered, AllFailed, GoesOn
  <2>4. ReplyIsLastAnswer' /\ VerdictIsFinal'
    BY <2>1, <1>3 DEF ReplyIsLastAnswer, VerdictIsFinal, HInv,
                      ProxyLyrics
  <2> QED
    BY <2>3, <2>4 DEF HInv
<1>4. CASE SelectSnapshot
  BY <1>4, SelectingHInv, RefuseHInv, SelectingAllFailed, Refusals
  DEF SelectSnapshot, Pc
<1>5. CASE ProbeSongs
  BY <1>5, SelectingHInv DEF ProbeSongs, Walk, Pc
<1>6. CASE ProbeVideos
  BY <1>6, SelectingHInv, RefuseHInv, SelectingAllFailed, Refusals
  DEF ProbeVideos, Walk, Pc
<1> QED
  BY <1>1, <1>2, <1>3, <1>4, <1>5, <1>6 DEF Select

-----------------------------------------------------------------------------
\* The loop asks the next instance after answers that allow it.
LEMMA WalkAskHInv == ASSUME IInv, HInv, WalkAsk PROVE HInv'
<1>1. /\ pc = "walk" /\ pc' = "slot" /\ cands[i] \in Instance
      /\ asked' = Append(asked, cands[i])
      /\ UNCHANGED <<path, direct, answers, lastBody, reply>>
  BY DEF WalkAsk, IInv, TypeOK, selection
<1>2. Len(asked') = Len(asked) + 1
  BY <1>1, Appending DEF IInv, TypeOK
<1>3. DirectAlone' /\ NothingYet' /\ EachAnswers'
  BY <1>1, <1>2, Lengths DEF DirectAlone, NothingYet, Selecting, EachAnswers, HInv
<1>4. Remembered' /\ GoesOn'
  BY <1>1 DEF HInv, Remembered, AllFailed, LastIs, GoesOn, Retriable
<1>5. VerdictIsFinal'
  BY <1>1 DEF HInv, GoesOn, Retriable, VerdictIsFinal
<1>6. ReplyIsLastAnswer'
  BY <1>1 DEF HInv, ReplyIsLastAnswer
<1> QED
  BY <1>3, <1>4, <1>5, <1>6 DEF HInv

LEMMA WalkSkipHInv == ASSUME IInv, HInv, WalkSkip PROVE HInv'
  BY ChangeHInv DEF WalkSkip, history

\* The remembered failure is passed on, or the manager refuses.
LEMMA WalkEndHInv == ASSUME IInv, HInv, WalkEnd PROVE HInv'
<1>1. pc = "walk" /\ UNCHANGED <<path, direct, asked, answers, lastBody>>
  BY DEF WalkEnd, walk, history
<1>2. CASE lastBody = None
  BY <1>1, <1>2, RefuseHInv, Refusals DEF WalkEnd, HInv, Remembered
<1>3. CASE lastBody # None
  <2>1. lastBody \in Body /\ LastIs(lastBody) /\ writeLiteBody(lastBody)
    BY <1>1, <1>3 DEF IInv, TypeOK, HInv, Remembered, WalkEnd
  <2>2. pc' = "done" /\ reply'.body = lastBody
    BY <2>1 DEF writeLiteBody
  <2>3. DirectAlone' /\ NothingYet' /\ EachAnswers' /\ Remembered' /\ GoesOn'
    BY <1>1, <2>2 DEF DirectAlone, NothingYet, Selecting, EachAnswers, HInv, Remembered, GoesOn
  <2>4. ReplyIsLastAnswer'
    BY <1>1, <2>1, <2>2 DEF ReplyIsLastAnswer, LastIs
  <2>5. VerdictIsFinal'
    BY <1>1, <2>1 DEF HInv, VerdictIsFinal
  <2> QED
    BY <2>3, <2>4, <2>5 DEF HInv
<1> QED
  BY <1>2, <1>3

\* A slot is granted: the same instance is still being asked.
LEMMA SlotHInv == ASSUME IInv, HInv, NEW w \in Waits, SlotGranted(w) PROVE HInv'
<1>1. /\ pc = "slot" /\ pc' = "upstream"
      /\ UNCHANGED <<path, direct, asked, answers, lastBody, reply>>
  BY DEF SlotGranted, history
<1> QED
  BY <1>1 DEF HInv, DirectAlone, NothingYet, Selecting, EachAnswers, Remembered, AllFailed, LastIs,
              GoesOn, Retriable, ReplyIsLastAnswer, VerdictIsFinal

-----------------------------------------------------------------------------
(***************************************************************************)
(* The instance asked last answers with a, or its call fails.              *)
(***************************************************************************)
Answered(a) ==
  /\ pc \in {"slot", "upstream"} /\ pc' \in {"walk", "done"}
  /\ answers' = Append(answers, a)
  /\ UNCHANGED <<path, asked>>

\* The history after such an answer.
LEMMA AnsweredHistory ==
  ASSUME IInv, HInv, NEW a \in Body \cup {"error"}, Answered(a)
  PROVE  /\ NothingYet' /\ EachAnswers' /\ VerdictIsFinal'
         /\ Retriable(a) => GoesOn'
         /\ (pc' = "done") => Remembered' /\ GoesOn'
<1> DEFINE last == Len(answers) + 1
<1>1. /\ Len(answers') = last /\ DOMAIN answers' = 1 .. last
      /\ answers'[last] = a /\ last \in Nat
      /\ \A n \in 1 .. Len(answers) : answers'[n] = answers[n]
  BY Appending, Lengths DEF IInv, TypeOK, Answered
<1>2. Len(asked') = last
  BY Lengths DEF HInv, EachAnswers, Answered
<1>3. NothingYet' /\ EachAnswers'
  BY <1>1, <1>2 DEF NothingYet, Selecting, EachAnswers, Answered
<1>4. \A n \in 1 .. Len(answers) : Retriable(answers[n])
  BY Lengths DEF HInv, GoesOn, Answered
<1>5. VerdictIsFinal'
  BY <1>1, <1>2, <1>4 DEF VerdictIsFinal, Retriable, Answered
<1>6. Retriable(a) => GoesOn'
  <2>1. SUFFICES ASSUME Retriable(a), NEW n \in 1 .. last PROVE Retriable(answers'[n])
    BY <1>1 DEF GoesOn, Retriable, Answered
  <2>2. n = last \/ n \in 1 .. Len(answers)
    BY Lengths
  <2> QED
    BY <1>1, <1>4, <2>1, <2>2
<1>7. (pc' = "done") => Remembered' /\ GoesOn'
  BY DEF Remembered, GoesOn
<1> QED
  BY <1>3, <1>5, <1>6, <1>7

\* An answer is the last one; a failed call leaves the last one what it was.
LEMMA AnsweredLast ==
  ASSUME IInv, HInv, NEW a \in Body \cup {"error"}, Answered(a)
  PROVE  /\ a # "error" => LastIs(a)'
         /\ a = "error" /\ AllFailed => AllFailed'
         /\ a = "error" => \A b \in Body : LastIs(b) => LastIs(b)'
<1> DEFINE last == Len(answers) + 1
<1>1. /\ DOMAIN answers' = 1 .. last /\ answers'[last] = a /\ last \in Nat
      /\ DOMAIN answers = 1 .. Len(answers) /\ Len(answers) \in Nat
      /\ \A n \in 1 .. Len(answers) : answers'[n] = answers[n]
  BY Appending, Lengths DEF IInv, TypeOK, Answered
<1>2. \A n \in 1 .. last : n = last \/ n \in 1 .. Len(answers)
  BY <1>1
<1>3. LastIs(a)'
  <2>1. last \in DOMAIN answers' /\ \A m \in DOMAIN answers' : ~(m > last)
    BY <1>1
  <2> QED
    BY <1>1, <2>1 DEF LastIs
<1>4. a = "error" /\ AllFailed => AllFailed'
  BY <1>1, <1>2 DEF AllFailed
<1>5. ASSUME a = "error", NEW b \in Body, LastIs(b) PROVE LastIs(b)'
  <2>1. PICK n \in DOMAIN answers :
           answers[n] = b /\ \A m \in DOMAIN answers : m > n => answers[m] = "error"
    BY <1>5 DEF LastIs
  <2>2. n \in DOMAIN answers' /\ answers'[n] = b
    BY <1>1, <2>1
  <2>3. \A m \in DOMAIN answers' : m > n => answers'[m] = "error"
    BY <1>1, <1>2, <1>5, <2>1
  <2> QED
    BY <2>2, <2>3 DEF LastIs
<1> QED
  BY <1>3, <1>4, <1>5

\* A call that fails ends a direct request, or the loop goes on.
LEMMA FetchErrorHInv ==
  ASSUME IInv, HInv, pc \in {"slot", "upstream"}, NEW d \in Nat, FetchError(d)
  PROVE  HInv'
<1>1. Answered("error")
  BY DEF Answered, FetchError, WriteLiteError
<1>2. /\ NothingYet' /\ EachAnswers' /\ VerdictIsFinal' /\ GoesOn'
  BY <1>1, AnsweredHistory DEF Retriable
<1>3. UNCHANGED lastBody /\ DirectAlone'
  BY DEF FetchError, HInv, DirectAlone
<1>4. Remembered'
  <2>1. CASE lastBody = None
    BY <1>1, <1>3, <2>1, AnsweredLast DEF HInv, Remembered
  <2>2. CASE lastBody # None
    <3>1. lastBody \in Body /\ LastIs(lastBody)
      BY <2>2 DEF HInv, Remembered, Answered, IInv, TypeOK
    <3>2. LastIs(lastBody)'
      BY <1>1, <1>3, <3>1, AnsweredLast
    <3> QED
      BY <1>3, <2>2, <3>2 DEF Remembered
  <2> QED
    BY <2>1, <2>2
<1>5. ReplyIsLastAnswer'
  <2>1. CASE direct
    <3>1. AllFailed
      BY <2>1 DEF HInv, Remembered, DirectAlone
    <3>2. AllFailed'
      BY <1>1, <3>1, AnsweredLast
    <3>3. reply' = [body |-> "upstream error", cache |-> "no-store"]
      BY <2>1 DEF FetchError, WriteLiteError
    <3> QED
      BY <3>2, <3>3, Refusals DEF AllFailed, ReplyIsLastAnswer
  <2>2. CASE direct = FALSE
    BY <2>2 DEF FetchError, ReplyIsLastAnswer, HInv
  <2> QED
    BY <2>1, <2>2 DEF IInv, TypeOK
<1> QED
  BY <1>2, <1>3, <1>4, <1>5 DEF HInv

\* An answer is the reply, or is remembered and the loop goes on.
LEMMA AnswerHInv ==
  ASSUME IInv, HInv, NEW d \in Delays, NEW body \in Body, Answer(d, body)
  PROVE  HInv'
<1>1. Answered(body) /\ UNCHANGED direct /\ body # "error" /\ body # None
  BY NoneAssumption DEF Answered, Answer, writeLiteBody, Body
<1>2. NothingYet' /\ EachAnswers' /\ VerdictIsFinal' /\ LastIs(body)'
  BY <1>1, AnsweredHistory, AnsweredLast
<1>3. CASE writeLiteBody(body) /\ UNCHANGED <<i, lastBody>>
  <2>1. pc' = "done" /\ reply'.body = body
    BY <1>3 DEF writeLiteBody
  <2>2. Remembered' /\ GoesOn' /\ DirectAlone'
    BY <1>1, <1>3, <2>1 DEF Remembered, GoesOn, DirectAlone, HInv
  <2>3. ReplyIsLastAnswer'
    BY <1>2, <2>1 DEF ReplyIsLastAnswer, LastIs
  <2> QED
    BY <1>2, <1>3, <2>2, <2>3 DEF HInv
<1>4. CASE /\ direct = FALSE /\ LiteCode(body) # "0"
           /\ shouldRetryLiteFailure(path, LiteCode(body))
           /\ Remember(body) /\ pc' = "walk" /\ UNCHANGED reply
  <2>1. Retriable(body)
    BY <1>4 DEF Retriable, LiteCode, shouldRetryLiteFailure, Body
  <2>2. GoesOn'
    BY <1>1, <2>1, AnsweredHistory
  <2>3. Remembered' /\ DirectAlone'
    BY <1>1, <1>2, <1>4 DEF Remembered, Remember, DirectAlone, LastIs
  <2>4. ReplyIsLastAnswer'
    BY <1>4 DEF ReplyIsLastAnswer, HInv
  <2> QED
    BY <1>2, <2>2, <2>3, <2>4 DEF HInv
<1> QED
  BY <1>3, <1>4 DEF Answer, IInv, TypeOK

LEMMA FetchHInv == ASSUME IInv, HInv, Fetch PROVE HInv'
<1>1. SlotTimeout \in Nat /\ Delays \subseteq Nat
  BY TimeAssumption
<1> QED
  BY <1>1, FetchErrorHInv, SlotHInv, AnswerHInv DEF Fetch, SlotBusy, TransportError

\* The next request starts with an empty history.
LEMMA ReturnHInv == ASSUME IInv, HInv, Return PROVE HInv'
<1>1. /\ pc' = "idle" /\ lastBody' = None /\ asked' = <<>> /\ answers' = <<>>
      /\ reply' = [body |-> None, cache |-> "no-store"]
  BY DEF Return
<1> QED
  BY <1>1 DEF HInv, DirectAlone, NothingYet, EachAnswers, Remembered, AllFailed, GoesOn,
              ReplyIsLastAnswer, VerdictIsFinal

LEMMA InitHInv == Init => HInv
  BY DEF Init, HInv, DirectAlone, NothingYet, EachAnswers, Remembered, AllFailed, GoesOn,
         ReplyIsLastAnswer, VerdictIsFinal

\* Every step keeps the history right.
LEMMA NextHInv == IInv /\ HInv /\ [Next]_vars => HInv'
<1> SUFFICES ASSUME IInv, HInv, [Next]_vars PROVE HInv'
  OBVIOUS
<1>1. CASE RegistryChange \/ UNCHANGED vars
  BY <1>1, ChangeHInv DEF RegistryChange, vars, walk, history
<1> QED
  BY <1>1, BeginHInv, SelectHInv, WalkAskHInv, WalkSkipHInv, WalkEndHInv, FetchHInv,
     ReturnHInv
  DEF Next, RequestStep

\* IInv and HInv hold in every reachable state.
LEMMA RequestInvariant == Spec => [](IInv /\ HInv)
  BY InitIInv, NextIInv, InitHInv, NextHInv, PTL DEF Spec

\* What selectAndProxy and proxyToLite write to the client is the last answer
\* of an instance, whatever came before it, or a refusal if none answered.
THEOREM AnswerDelivered == Spec => []ReplyIsLastAnswer
<1>1. HInv => ReplyIsLastAnswer
  BY DEF HInv
<1> QED
  BY RequestInvariant, <1>1, PTL

\* selectAndProxy tries another instance only after a transport error, a 500,
\* or a 404 for something else than lyrics.
THEOREM RetriesJustified == Spec => []VerdictIsFinal
<1>1. HInv => VerdictIsFinal
  BY DEF HInv
<1> QED
  BY RequestInvariant, <1>1, PTL

=============================================================================
