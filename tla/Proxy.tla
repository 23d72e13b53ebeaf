-------------------------------- MODULE Proxy --------------------------------
(***************************************************************************)
(* A resource request (/m3u8, /webplayback, /key, /license, /lyrics) from  *)
(* handleLiteEndpoint to its reply (proxy.go), with the selection of       *)
(* candidate instances (region.go).  One request at a time is followed;    *)
(* other requests, the supervisor and Apple are its environment: they      *)
(* change the registry and the FairPlay circuits between any two steps and *)
(* decide how long a slot or an answer takes.                              *)
(*                                                                         *)
(* Instances are their ids, unique in the registry (Lifecycle).  elapsed   *)
(* counts from the moment the deadline of selectAndProxy is set.           *)
(***************************************************************************)
EXTENDS Naturals, Sequences, FiniteSets, SequencesExt

CONSTANTS
  Instance,         \* ids of accounts that are logged in at some time
  MaxRetryAttempts, \* maxRetryAttempts
  Budget,           \* overallRetryBudget
  SlotTimeout,      \* slotTimeout
  UpstreamTimeout,  \* upstreamTimeout
  Waits,            \* bound: how long a granted slot takes
  Delays,           \* bound: how long an answer or a transport error takes
  Unstable,         \* bound: the instances whose state changes meanwhile
  None              \* nil, ""

ASSUME AttemptsAssumption == MaxRetryAttempts \in Nat
ASSUME TimeAssumption ==
  /\ Budget \in Nat /\ SlotTimeout \in Nat /\ UpstreamTimeout \in Nat
  /\ Waits \subseteq 0..SlotTimeout /\ Delays \subseteq 0..UpstreamTimeout
ASSUME InstanceAssumption == 
  IsFiniteSet(Instance) /\ None \notin Instance /\ Unstable \subseteq Instance

Path == {"/lyrics", "/m3u8", "/license"}   \* /webplayback and /key act as /m3u8

\* What a lite instance sends: an envelope with this code, or no envelope.
Body == {"0", "400", "404", "500", "garbage"}
Refusal == {"bad request", "probe error", "upstream error", "no available instance"}

ASSUME NoneAssumption == None \notin Body

VARIABLES
  live,      \* ids in the registry
  degraded,  \* ids whose FairPlay circuit is open
  pc,        \* control state of the request
  path,      \* its endpoint
  picked,    \* result of SelectInstanceForLyrics
  snap,      \* selectableInstances()
  cands,     \* candidates
  i,         \* position of the loop in candidates
  attempts,
  elapsed,   \* time since the deadline was set
  cur,       \* the instance asked now
  direct,    \* the call is proxyToLite's
  lastBody,
  reply,     \* what was written to the client, with its Cache-Control
  asked,     \* history: the instances asked
  answers    \* history: the body each sent, or "error"

env == <<live, degraded>>
selection == <<picked, snap, cands>>
walk == <<i, attempts, elapsed, cur, direct, lastBody>>
history == <<asked, answers>>
vars == <<env, pc, path, selection, walk, reply, history>>

Pc == {"idle", "lyrics", "lyricsGet", "select", "songs", "videos", "walk",
       "slot", "upstream", "done"}

(***************************************************************************)
(* Type correctness.                                                       *)
(***************************************************************************)
TypeOK ==
  /\ live \subseteq Instance /\ degraded \subseteq Instance
  /\ pc \in Pc /\ path \in Path
  /\ picked \in Instance \cup {None} /\ snap \subseteq Instance
  /\ cands \in Seq(Instance) /\ i \in 1 .. Len(cands) + 1
  /\ attempts \in 0 .. MaxRetryAttempts /\ elapsed \in Nat
  /\ cur \in Instance \cup {None} /\ direct \in BOOLEAN
  /\ lastBody \in Body \cup {None}
  /\ reply \in [body: Body \cup Refusal \cup {None}, cache: {"public", "no-store"}]
  /\ asked \in Seq(Instance) /\ answers \in Seq(Body \cup {"error"})

Init ==
  /\ live = Instance /\ degraded = {}
  /\ pc = "idle" /\ path = "/m3u8"
  /\ picked = None /\ snap = {} /\ cands = <<>>
  /\ i = 1 /\ attempts = 0 /\ elapsed = 0 /\ cur = None /\ direct = FALSE
  /\ lastBody = None
  /\ reply = [body |-> None, cache |-> "no-store"]
  /\ asked = <<>> /\ answers = <<>>

-----------------------------------------------------------------------------
\* The registry and the circuits change at any time.
RegistryChange ==
  /\ \E a \in Unstable :
       \/ live' = live \cup {a} /\ UNCHANGED degraded
       \/ live' = live \ {a} /\ UNCHANGED degraded
       \/ degraded' = degraded \cup {a} /\ UNCHANGED live
       \/ degraded' = degraded \ {a} /\ UNCHANGED live
  /\ UNCHANGED <<pc, path, selection, walk, reply, history>>

\* json.Unmarshal's error is ignored, which leaves the code 0.
LiteCode(body) == IF body = "garbage" THEN "0" ELSE body

\* Mutant: every failure is retried.
RetryAlways(p, code) == TRUE

shouldRetryLiteFailure(p, code) ==
  /\ code # "400"
  /\ ~(p = "/lyrics" /\ code = "404")

isCacheablePath(p) == p # "/license"

\* setCacheHeader.
CacheControl(p, code) ==
  IF isCacheablePath(p) /\ code = "0" THEN "public" ELSE "no-store"

\* writeLiteBody: the body goes to the client unchanged.
writeLiteBody(body) ==
  /\ reply' = [body |-> body, cache |-> CacheControl(path, LiteCode(body))]
  /\ pc' = "done"

\* WriteLiteError.
WriteLiteError(msg) ==
  /\ reply' = [body |-> msg, cache |-> "no-store"]
  /\ pc' = "done"

-----------------------------------------------------------------------------
(***************************************************************************)
(* Selection.                                                              *)
(***************************************************************************)
selectableInstances == live \ degraded

\* A request that fails validation is answered without an instance.
RejectRequest(p) ==
  /\ pc = "idle"
  /\ path' = p
  /\ WriteLiteError("bad request")
  /\ UNCHANGED <<env, selection, walk, history>>

\* handleLiteEndpoint; SelectInstanceForLyrics starts with its snapshot.
AcceptRequest(p) ==
  /\ pc = "idle"
  /\ path' = p
  /\ IF p = "/lyrics"
     THEN pc' = "lyrics" /\ snap' = selectableInstances
     ELSE pc' = "select" /\ UNCHANGED snap
  /\ UNCHANGED <<env, picked, cands, walk, reply, history>>

\* Any instance of the snapshot that is still registered when it is probed
\* may be found to have the lyrics, or none is.
SelectInstanceForLyrics ==
  /\ pc = "lyrics"
  /\ picked' \in (snap \cap live) \cup {None}
  /\ pc' = "lyricsGet"
  /\ UNCHANGED <<env, path, snap, cands, walk, reply, history>>

\* proxyToLite on the instance found, if it is still there.
ProxyLyrics ==
  /\ pc = "lyricsGet"
  /\ IF picked \in live
     THEN /\ cur' = picked
          /\ direct' = TRUE
          /\ asked' = Append(asked, picked)
          /\ pc' = "slot"
     ELSE pc' = "select" /\ UNCHANGED <<cur, direct, asked>>
  /\ picked' = None /\ snap' = {}
  /\ UNCHANGED <<env, path, cands, i, attempts, elapsed, lastBody, reply, answers>>

\* SelectInstances takes its snapshot.
SelectSnapshot ==
  /\ pc = "select"
  /\ snap' = selectableInstances
  /\ IF snap' = {}
     THEN WriteLiteError("no available instance")
     ELSE pc' = "songs" /\ UNCHANGED reply
  /\ UNCHANGED <<env, path, picked, cands, walk, history>>

\* The candidates are shuffled; then the deadline is set.
Walk(found) ==
  /\ cands' \in SetToSeqs(found)
  /\ snap' = {}
  /\ pc' = "walk"
  /\ UNCHANGED reply

\* Song probes: an error counts as unavailable.
ProbeSongs ==
  /\ pc = "songs"
  /\ \E found \in SUBSET snap :
       IF found = {}
       THEN pc' = "videos" /\ UNCHANGED <<snap, cands, reply>>
       ELSE Walk(found)
  /\ UNCHANGED <<env, path, picked, walk, history>>

\* Music-video probes: an error ends the request.
ProbeVideos ==
  /\ pc = "videos"
  /\ \/ WriteLiteError("probe error") /\ UNCHANGED <<snap, cands>>
     \/ WriteLiteError("no available instance") /\ UNCHANGED <<snap, cands>>
     \/ \E found \in SUBSET snap \ {{}} : Walk(found)
  /\ UNCHANGED <<env, path, picked, walk, history>>

-----------------------------------------------------------------------------
(***************************************************************************)
(* The loop of selectAndProxy.                                             *)
(***************************************************************************)
\* Mutant: the time budget is not looked at.
AttemptsOnly == attempts >= MaxRetryAttempts

\* Mutant: the attempts are not counted.
BudgetOnly == elapsed > Budget

GiveUp == attempts >= MaxRetryAttempts \/ elapsed > Budget

\* The loop ends: the last lite failure is passed on, if there was one.
WalkEnd ==
  /\ pc = "walk"
  /\ i > Len(cands) \/ GiveUp
  /\ IF lastBody # None
     THEN writeLiteBody(lastBody)
     ELSE WriteLiteError("no available instance")
  /\ UNCHANGED <<env, path, selection, walk, history>>

\* Mutant: the loop stays at a candidate that is gone.
WalkSkipStuck ==
  /\ pc = "walk" /\ i <= Len(cands) /\ ~GiveUp
  /\ cands[i] \notin live
  /\ UNCHANGED vars

\* GetInstance returns nil: the candidate has left the registry.
WalkSkip ==
  /\ pc = "walk" /\ i <= Len(cands) /\ ~GiveUp
  /\ cands[i] \notin live
  /\ i' = i + 1
  /\ UNCHANGED <<env, pc, path, selection, attempts, elapsed, cur, direct, lastBody,
                 reply, history>>

\* fetchFromLite is called on the candidate.
WalkAsk ==
  /\ pc = "walk" /\ i <= Len(cands) /\ ~GiveUp
  /\ cands[i] \in live
  /\ attempts' = attempts + 1
  /\ cur' = cands[i]
  /\ asked' = Append(asked, cands[i])
  /\ pc' = "slot"
  /\ UNCHANGED <<env, path, selection, i, elapsed, direct, lastBody, reply, answers>>

\* fetchFromLite returns an error after d seconds.
FetchError(d) ==
  /\ elapsed' = elapsed + d
  /\ IF direct
     THEN WriteLiteError("upstream error") /\ UNCHANGED i
     ELSE i' = i + 1 /\ pc' = "walk" /\ UNCHANGED reply
  /\ answers' = Append(answers, "error")
  /\ UNCHANGED <<env, path, selection, attempts, cur, direct, lastBody, asked>>

\* All slots of the instance stay taken.
SlotBusy ==
  /\ pc = "slot"
  /\ FetchError(SlotTimeout)

\* A slot is free or becomes free after w seconds.
SlotGranted(w) ==
  /\ pc = "slot"
  /\ elapsed' = elapsed + w
  /\ pc' = "upstream"
  /\ UNCHANGED <<env, path, selection, i, attempts, cur, direct, lastBody, reply, history>>

\* The connection fails or upstreamTimeout passes.
TransportError(d) ==
  /\ pc = "upstream"
  /\ FetchError(d)

\* Mutant: the loop forgets the failure it saw.
RememberNothing(body) == UNCHANGED lastBody

Remember(body) == lastBody' = body

\* The instance answers after d seconds.
Answer(d, body) ==
  /\ pc = "upstream"
  /\ elapsed' = elapsed + d
  /\ answers' = Append(answers, body)
  /\ IF direct \/ LiteCode(body) = "0" \/ i = Len(cands)
           \/ ~shouldRetryLiteFailure(path, LiteCode(body))
     THEN writeLiteBody(body) /\ UNCHANGED <<i, lastBody>>
     ELSE /\ Remember(body)
          /\ i' = i + 1
          /\ pc' = "walk"
          /\ UNCHANGED reply
  /\ UNCHANGED <<env, path, selection, attempts, cur, direct, asked>>

\* The handler returns; the next request begins afresh.
Return ==
  /\ pc = "done"
  /\ pc' = "idle"
  /\ picked' = None /\ snap' = {} /\ cands' = <<>>
  /\ i' = 1 /\ attempts' = 0 /\ elapsed' = 0 /\ cur' = None /\ direct' = FALSE
  /\ lastBody' = None
  /\ reply' = [body |-> None, cache |-> "no-store"]
  /\ asked' = <<>> /\ answers' = <<>>
  /\ UNCHANGED <<env, path>>

-----------------------------------------------------------------------------
Select ==
  \/ SelectInstanceForLyrics \/ ProxyLyrics \/ SelectSnapshot
  \/ ProbeSongs \/ ProbeVideos

Fetch ==
  \/ SlotBusy
  \/ \E w \in Waits : SlotGranted(w)
  \/ \E d \in Delays : TransportError(d)
  \/ \E d \in Delays, body \in Body : Answer(d, body)

RequestStep == Select \/ WalkEnd \/ WalkSkip \/ WalkAsk \/ Fetch \/ Return

Next ==
  \/ RegistryChange
  \/ \E p \in Path : RejectRequest(p) \/ AcceptRequest(p)
  \/ RequestStep

Spec == Init /\ [][Next]_vars

\* The handler's goroutine runs and its timeouts fire; no request is owed.
FairSpec == Spec /\ WF_vars(RequestStep)

-----------------------------------------------------------------------------
(***************************************************************************)
(* selectAndProxy: "bounded by both an attempt count and an overall time   *)
(* budget so a single request cannot walk every instance (or stack several *)
(* upstream timeouts)".  The budget is tested before an attempt, so one    *)
(* attempt may overrun it: the loop is over after Budget plus one slot     *)
(* wait plus one upstream timeout, 47 seconds.  The probes of the selection*)
(* come before the deadline is set and are not counted.                    *)
(***************************************************************************)
RetryBounded ==
  /\ elapsed <= Budget + SlotTimeout + UpstreamTimeout
  /\ Len(asked) <= IF direct THEN 1 ELSE MaxRetryAttempts

(***************************************************************************)
(* What the client gets: the answer of the last instance that answered, or *)
(* a refusal of the manager if none did.  A success is never dropped, and  *)
(* "no available instance" is never said after an instance has answered.   *)
(***************************************************************************)
ReplyIsLastAnswer ==
  pc = "done" =>
    \/ /\ \A n \in DOMAIN answers : answers[n] = "error"
       /\ reply.body \in Refusal
    \/ \E n \in DOMAIN answers :
         /\ answers[n] = reply.body
         /\ \A m \in DOMAIN answers : m > n => answers[m] = "error"

(***************************************************************************)
(* A request goes to another instance only after a failure that instance   *)
(* could answer differently: never after a success, a 400, or the 404 that *)
(* says a track has no lyrics in that language.                            *)
(***************************************************************************)
VerdictIsFinal ==
  \A n \in DOMAIN answers :
    n < Len(asked) => \/ answers[n] \in {"error", "500"}
                      \/ answers[n] = "404" /\ path # "/lyrics"

(***************************************************************************)
(* Every request is answered, even when its candidates leave the registry  *)
(* while it walks them.                                                    *)
(***************************************************************************)
RequestAnswered == pc # "idle" ~> pc = "done"

=============================================================================
