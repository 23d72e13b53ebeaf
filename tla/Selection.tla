------------------------------ MODULE Selection ------------------------------
(***************************************************************************)
(* Which instances a request may be sent to (region.go): the concurrent    *)
(* probes of Apple's catalog behind SelectInstances and                    *)
(* SelectInstanceForLyrics, the LRU caches that memoise them, the          *)
(* single-flight group that shares them between requests, and the table of *)
(* storefront languages with its file (storefront.go).                     *)
(*                                                                         *)
(* One song and one language are followed.  Selections for songs and for   *)
(* lyrics share no key, so the requests of a behaviour are of one sort; a  *)
(* lyrics request that falls back to SelectInstances is one of the other   *)
(* sort.  A worker is the goroutine that a request starts for a candidate  *)
(* instance: it reads the cache, then joins or leads the flight of its     *)
(* key.  A FALSE for content that Apple has is written "miss" (or "blank", *)
(* by the reply that caused it), so that properties can tell it from the   *)
(* FALSE that is right, "no"; the code reads all three alike.  "fail" is a *)
(* probe that returned an error, a failure of GetToken included.  A probe  *)
(* for adamId 0 (the prefetch key) asks nobody and is not cached: it is    *)
(* not followed.                                                           *)
(***************************************************************************)
EXTENDS Naturals, FiniteSets

CONSTANTS
  Inst,      \* instances
  Region,    \* storefronts
  RegionOf,  \* the storefront of every instance
  Speaks,    \* storefronts that list the language asked for
  Worlds,    \* what the requests ask for, and the keys Apple's catalog has
  Snapshots, \* the possible results of selectableInstances
  Req,       \* requests
  Workers,   \* probeWorkers, lyricsProbeWorkers
  None       \* no cache entry

Kind == {"song", "mv", "lyrics"}
Key == Kind \X Region   \* the cache keys of one adamId

ASSUME RegionAssumption == RegionOf \in [Inst -> Region] /\ Speaks \subseteq Region
ASSUME WorldAssumption == Worlds \subseteq {"song", "lyrics"} \X SUBSET Key
ASSUME SnapshotAssumption == Snapshots \subseteq SUBSET Inst
ASSUME WorkersAssumption == Workers \in Nat \ {0}
ASSUME InstAssumption == IsFiniteSet(Inst)

VARIABLES
  traffic,  \* what the requests call: SelectInstances or SelectInstanceForLyrics
  catalog,  \* what Apple has
  cache,    \* SongRegionCache and lyricsAvailabilityCache
  mem,      \* storefrontData is loaded
  disk,     \* data/storefront_langs.json
  pc,       \* control state of every request
  insts,    \* its snapshot of the selectable instances
  known,    \* the language table it works with is not nil
  wk,       \* its workers
  chosen    \* what the selection returns, with the kind of content it is for

fixed == <<traffic, catalog>>
shared == <<fixed, cache, mem, disk>>
vars == <<fixed, cache, mem, disk, pc, insts, known, wk, chosen>>

Wrong == {"miss", "blank", "fail"}   \* what a probe says of content it missed
Verdict == {"yes", "no"} \cup Wrong

ASSUME NoneAssumption == None \notin Verdict

(***************************************************************************)
(* Type correctness.  A worker that has ended has a verdict.               *)
(***************************************************************************)
TypeOK ==
  /\ <<traffic, catalog>> \in Worlds
  /\ cache \in [Key -> Verdict \cup {None}]
  /\ mem \in BOOLEAN /\ disk \in {"absent", "torn", "whole"}
  /\ pc \in [Req -> {"idle", "langs", "fetch", "save", "tier1", "tier2",
                     "song", "mv", "done", "error"}]
  /\ insts \in [Req -> SUBSET Inst]
  /\ known \in [Req -> BOOLEAN]
  /\ wk \in [Req -> [Inst -> {"none", "queued", "join", "probe", "wait"} \cup Verdict]]
  /\ chosen \in [Req -> SUBSET (Kind \X Inst)]

Init ==
  /\ \E w \in Worlds : traffic = w[1] /\ catalog = w[2]
  /\ cache = [k \in Key |-> None]
  /\ mem = FALSE /\ disk = "absent"
  /\ pc = [q \in Req |-> "idle"]
  /\ insts = [q \in Req |-> {}]
  /\ known = [q \in Req |-> FALSE]
  /\ wk = [q \in Req |-> [i \in Inst |-> "none"]]
  /\ chosen = [q \in Req |-> {}]

-----------------------------------------------------------------------------
\* Workers S of a request start; the others keep what they have found.
Queued(q, S) == [wk EXCEPT ![q] = [i \in Inst |-> IF i \in S THEN "queued" ELSE @[i]]]

Fresh(q, S) ==
  [wk EXCEPT ![q] = [i \in Inst |-> IF i \in S THEN "queued" ELSE "none"]]

\* SelectInstances takes its snapshot of the instances whose circuit is
\* closed and probes all of them for the song.
SelectInstances(q) ==
  /\ traffic = "song" /\ pc[q] = "idle"
  /\ \E S \in Snapshots :
       /\ insts' = [insts EXCEPT ![q] = S]
       /\ wk' = Fresh(q, S)
       /\ pc' = [pc EXCEPT ![q] = IF S = {} THEN "done" ELSE "song"]
  /\ UNCHANGED <<shared, known, chosen>>

\* SelectInstanceForLyrics returns "" without instances, and the handler goes
\* on with SelectInstances, like a request of the other sort.
SelectInstanceForLyrics(q) ==
  /\ traffic = "lyrics" /\ pc[q] = "idle"
  /\ \E S \in Snapshots :
       /\ insts' = [insts EXCEPT ![q] = S]
       /\ pc' = [pc EXCEPT ![q] = IF S = {} THEN "done" ELSE "langs"]
  /\ UNCHANGED <<shared, known, wk, chosen>>

-----------------------------------------------------------------------------
\* A storefront lists a tag that normalises to the language asked for.
regionSupportsLang(r) == r \in Speaks

\* The instances whose storefront speaks the language; none if the table is
\* not available.
Tier1(q) == {i \in insts[q] : known[q] /\ regionSupportsLang(RegionOf[i])}
Tier(q) == IF pc[q] = "tier1" THEN Tier1(q) ELSE insts[q] \ Tier1(q)

\* The request goes on with the table (k) or without it.
ToTiers(q, k) ==
  LET first == {i \in insts[q] : k /\ regionSupportsLang(RegionOf[i])}
  IN /\ known' = [known EXCEPT ![q] = k]
     /\ pc' = [pc EXCEPT ![q] = IF first = {} THEN "tier2" ELSE "tier1"]
     /\ wk' = Fresh(q, IF first = {} THEN insts[q] ELSE first)

\* ensureStorefrontLangs: the table in memory, else the file if it is a
\* complete document, else the API.
ensureStorefrontLangs(q) ==
  /\ pc[q] = "langs"
  /\ IF mem \/ disk = "whole"
       THEN mem' = TRUE /\ ToTiers(q, TRUE)
       ELSE /\ pc' = [pc EXCEPT ![q] = "fetch"]
            /\ UNCHANGED <<mem, known, wk>>
  /\ UNCHANGED <<fixed, cache, disk, insts, chosen>>

\* fetchStorefrontLangs fails: no tier 1 this time.
FetchFails(q) ==
  /\ pc[q] = "fetch"
  /\ ToTiers(q, FALSE)
  /\ UNCHANGED <<shared, insts, chosen>>

\* It answers, and os.WriteFile truncates the file ...
SaveBegins(q) ==
  /\ pc[q] = "fetch"
  /\ disk' = "torn"
  /\ pc' = [pc EXCEPT ![q] = "save"]
  /\ UNCHANGED <<fixed, cache, mem, insts, known, wk, chosen>>

\* ... and writes it, or fails to, which is ignored; two requests that write
\* at once write the same document.
SaveEnds(q) ==
  /\ pc[q] = "save"
  /\ disk' \in {"torn", "whole"}
  /\ mem' = TRUE
  /\ ToTiers(q, TRUE)
  /\ UNCHANGED <<fixed, cache, insts, chosen>>

-----------------------------------------------------------------------------
\* Mutant: the key of a video lacks its prefix.
KeyOfSong(q, i) == <<IF pc[q] \in {"song", "mv"} THEN "song" ELSE "lyrics", RegionOf[i]>>

\* What a worker of q asks Apple, by the stage of the selection.
KeyOf(q, i) ==
  <<IF pc[q] \in {"song", "mv"} THEN pc[q] ELSE "lyrics", RegionOf[i]>>

Active(q) == {i \in Inst : wk[q][i] \in {"join", "probe", "wait"}}

\* Probes for a song and for lyrics run side by side, those for a music video
\* one after the other until one fails.
MayRun(q) ==
  \/ pc[q] \in {"song", "tier1", "tier2"} /\ Cardinality(Active(q)) < Workers
  \/ pc[q] = "mv" /\ Active(q) = {} /\ \A i \in Inst : wk[q][i] # "fail"

Set(q, i, v) == wk' = [wk EXCEPT ![q][i] = v]

\* The worker looks its key up in the cache, where an entry may have expired
\* (24 h) or been pushed out by others.
Lookup(q, i) ==
  /\ wk[q][i] = "queued" /\ MayRun(q)
  /\ LET k == KeyOf(q, i)
     IN \/ cache[k] # None /\ Set(q, i, cache[k]) /\ UNCHANGED cache
        \/ Set(q, i, "join") /\ cache' = [cache EXCEPT ![k] = None]
  /\ UNCHANGED <<fixed, mem, disk, pc, insts, known, chosen>>

\* A worker for lyrics finds its instance gone or without MUSIC_TOKEN.
NoCandidate(q, i) ==
  /\ wk[q][i] = "queued" /\ pc[q] \in {"tier1", "tier2"} /\ MayRun(q)
  /\ Set(q, i, "miss")
  /\ UNCHANGED <<shared, pc, insts, known, chosen>>

\* pickLyricsInstanceWithSong returns "" when GetToken fails.
NoToken(q) ==
  /\ pc[q] \in {"tier1", "tier2"} /\ \A i \in Tier(q) : wk[q][i] = "queued"
  /\ Tier(q) # {}
  /\ wk' = [wk EXCEPT ![q] = [i \in Inst |-> IF i \in Tier(q) THEN "miss" ELSE @[i]]]
  /\ UNCHANGED <<shared, pc, insts, known, chosen>>

\* singleflight.Do: the first caller of a key probes, the others wait.
Do(q, i) ==
  /\ wk[q][i] = "join"
  /\ LET led == \E r \in Req, j \in Inst : wk[r][j] = "probe" /\ KeyOf(r, j) = KeyOf(q, i)
     IN Set(q, i, IF led THEN "wait" ELSE "probe")
  /\ UNCHANGED <<shared, pc, insts, known, chosen>>

\* Mutant: those who wait for the flight are not told.
LandLeader(k, v) ==
  wk' = [r \in Req |-> [j \in Inst |->
           IF wk[r][j] = "probe" /\ KeyOf(r, j) = k THEN v ELSE wk[r][j]]]

\* The flight of key k ends: its leader and everyone waiting get verdict v.
Land(k, v) ==
  wk' = [r \in Req |-> [j \in Inst |->
           IF wk[r][j] \in {"probe", "wait"} /\ KeyOf(r, j) = k THEN v ELSE wk[r][j]]]

\* FALSE, as a reply without "data" is read; wrong says why if Apple has it.
False(k, wrong) == IF k \in catalog THEN wrong ELSE "no"

\* Mutant: an "errors" reply is remembered like a result.
RememberErrors(k) ==
  \/ k \in catalog /\ Land(k, "yes") /\ cache' = [cache EXCEPT ![k] = "yes"]
  \/ \E w \in {"miss", "blank"} :
       Land(k, False(k, w)) /\ cache' = [cache EXCEPT ![k] = False(k, w)]

\* checkAvailableOnRegion: "data" is remembered as TRUE; an "errors" reply
\* (not found, a stale token, too many requests) is FALSE and not remembered;
\* a reply with neither, whatever its status, is FALSE and remembered.
checkAvailableOnRegion(k) ==
  \/ k \in catalog /\ Land(k, "yes") /\ cache' = [cache EXCEPT ![k] = "yes"]
  \/ Land(k, False(k, "miss")) /\ UNCHANGED cache
  \/ Land(k, False(k, "blank")) /\ cache' = [cache EXCEPT ![k] = False(k, "blank")]

\* Mutant: an error comes without a value.
ErrorWithoutValue(k) == Land(k, None) /\ UNCHANGED cache

\* No token, no connection, or no JSON: an error.
ProbeError(k) == Land(k, "fail") /\ UNCHANGED cache

\* HasLyrics answers whether the status is 200; every other outcome, a lost
\* connection too, is FALSE, and hasLyricsCached remembers it.
hasLyricsCached(k) ==
  \E v \in (IF k \in catalog THEN {"yes", "miss"} ELSE {"no"}) :
    Land(k, v) /\ cache' = [cache EXCEPT ![k] = v]

Probe(q, i) ==
  /\ wk[q][i] = "probe"
  /\ LET k == KeyOf(q, i)
     IN IF k[1] = "lyrics" THEN hasLyricsCached(k)
                           ELSE checkAvailableOnRegion(k) \/ ProbeError(k)
  /\ UNCHANGED <<fixed, mem, disk, pc, insts, known, chosen>>

-----------------------------------------------------------------------------
Answered(q, S) == \A i \in S : wk[q][i] \in Verdict
Hits(q, S) == {i \in S : wk[q][i] = "yes"}
For(kind, S) == {kind} \X S

\* Mutant: the results are read before wg.Wait returns.
SongsNotAwaited(q) ==
  /\ pc[q] = "song"
  /\ chosen' = [chosen EXCEPT ![q] = For("song", Hits(q, insts[q]))]
  /\ IF Hits(q, insts[q]) # {}
       THEN pc' = [pc EXCEPT ![q] = "done"] /\ UNCHANGED wk
       ELSE pc' = [pc EXCEPT ![q] = "mv"] /\ wk' = Fresh(q, insts[q])
  /\ UNCHANGED <<shared, insts, known>>

\* wg.Wait returns: the song's instances, or else a second round for videos.
SongsProbed(q) ==
  /\ pc[q] = "song" /\ Answered(q, insts[q])
  /\ chosen' = [chosen EXCEPT ![q] = For("song", Hits(q, insts[q]))]
  /\ IF Hits(q, insts[q]) # {}
       THEN pc' = [pc EXCEPT ![q] = "done"] /\ UNCHANGED wk
       ELSE pc' = [pc EXCEPT ![q] = "mv"] /\ wk' = Fresh(q, insts[q])
  /\ UNCHANGED <<shared, insts, known>>

\* The second round ends, with an error as soon as a probe fails.
VideosProbed(q) ==
  /\ pc[q] = "mv"
  /\ LET failed == \E i \in insts[q] : wk[q][i] = "fail"
     IN /\ failed \/ Answered(q, insts[q])
        /\ chosen' = [chosen EXCEPT ![q] = IF failed THEN {} ELSE For("mv", Hits(q, insts[q]))]
        /\ pc' = [pc EXCEPT ![q] = IF failed THEN "error" ELSE "done"]
  /\ UNCHANGED <<shared, insts, known, wk>>

\* Mutant: the results are read before wg.Wait returns.
TierNotAwaited(q) ==
  /\ pc[q] \in {"tier1", "tier2"}
  /\ \/ \E i \in Hits(q, Tier(q)) :
          /\ chosen' = [chosen EXCEPT ![q] = For("lyrics", {i})]
          /\ pc' = [pc EXCEPT ![q] = "done"]
          /\ UNCHANGED wk
     \/ /\ Hits(q, Tier(q)) = {}
        /\ pc' = [pc EXCEPT ![q] = IF @ = "tier1" THEN "tier2" ELSE "done"]
        /\ wk' = IF pc[q] = "tier1" THEN Queued(q, insts[q] \ Tier1(q)) ELSE wk
        /\ UNCHANGED chosen
  /\ UNCHANGED <<shared, insts, known>>

\* pickLyricsInstanceWithSong returns one of the hits, or the next tier is
\* tried, or the answer is "".
TierProbed(q) ==
  /\ pc[q] \in {"tier1", "tier2"} /\ Answered(q, Tier(q))
  /\ \/ \E i \in Hits(q, Tier(q)) :
          /\ chosen' = [chosen EXCEPT ![q] = For("lyrics", {i})]
          /\ pc' = [pc EXCEPT ![q] = "done"]
          /\ UNCHANGED wk
     \/ /\ Hits(q, Tier(q)) = {}
        /\ pc' = [pc EXCEPT ![q] = IF @ = "tier1" THEN "tier2" ELSE "done"]
        /\ wk' = IF pc[q] = "tier1" THEN Queued(q, insts[q] \ Tier1(q)) ELSE wk
        /\ UNCHANGED chosen
  /\ UNCHANGED <<shared, insts, known>>

\* The handler has its candidates; the next request of this client begins.
Return(q) ==
  /\ pc[q] \in {"done", "error"}
  /\ pc' = [pc EXCEPT ![q] = "idle"]
  /\ insts' = [insts EXCEPT ![q] = {}]
  /\ known' = [known EXCEPT ![q] = FALSE]
  /\ wk' = [wk EXCEPT ![q] = [i \in Inst |-> "none"]]
  /\ chosen' = [chosen EXCEPT ![q] = {}]
  /\ UNCHANGED shared

\* The manager is killed and started again: the file is all that is left.
Restart ==
  /\ cache' = [k \in Key |-> None]
  /\ mem' = FALSE
  /\ pc' = [q \in Req |-> "idle"]
  /\ insts' = [q \in Req |-> {}]
  /\ known' = [q \in Req |-> FALSE]
  /\ wk' = [q \in Req |-> [i \in Inst |-> "none"]]
  /\ chosen' = [q \in Req |-> {}]
  /\ UNCHANGED <<fixed, disk>>

Step(q) ==
  \/ ensureStorefrontLangs(q) \/ FetchFails(q) \/ SaveBegins(q) \/ SaveEnds(q)
  \/ NoToken(q) \/ SongsProbed(q) \/ VideosProbed(q) \/ TierProbed(q) \/ Return(q)
  \/ \E i \in Inst : Lookup(q, i) \/ NoCandidate(q, i) \/ Do(q, i) \/ Probe(q, i)

Next ==
  \/ \E q \in Req : SelectInstances(q) \/ SelectInstanceForLyrics(q) \/ Step(q)
  \/ Restart

Spec == Init /\ [][Next]_vars
FairSpec == Spec /\ \A q \in Req : WF_vars(Step(q))

-----------------------------------------------------------------------------
(***************************************************************************)
(* checkAvailableOnRegion: "Results are memoized", and only results: a     *)
(* cached verdict on a song or a video is what Apple's catalog says or     *)
(* stands for a reply with neither "data" nor "errors", never for a reply  *)
(* with "errors" or a failed probe; a cached TRUE is always right.         *)
(***************************************************************************)
RememberedIsTrue ==
  \A k \in Key :
    /\ cache[k] = "yes" => k \in catalog
    /\ cache[k] = "no" => k \notin catalog
    /\ cache[k] = "miss" => k[1] = "lyrics"
    /\ cache[k] # "fail"

\* Instance i has content of the kind, and q learnt so or was told otherwise
\* by the probe of i.
Has(kind, i) == <<kind, RegionOf[i]>> \in catalog
Missed(q, i) == wk[q][i] \in Wrong

\* Everything chosen is available.  Every instance that has the kind chosen is
\* chosen, and none has it if nothing is, unless its own probe said otherwise;
\* of the instances that have the lyrics one is enough.
Exact(q) ==
  /\ \A c \in chosen[q] : Has(c[1], c[2])
  /\ \A kind \in {"song", "mv"}, i \in insts[q] :
       Has(kind, i) /\ For(kind, insts[q]) \cap chosen[q] # {}
         => <<kind, i>> \in chosen[q] \/ Missed(q, i)
  /\ chosen[q] = {} => \A i \in insts[q] :
       Has(IF traffic = "song" THEN "mv" ELSE "lyrics", i) => Missed(q, i)

(***************************************************************************)
(* A selection that ends without an error returns instances whose          *)
(* storefront has what was asked for, and leaves one out only because its  *)
(* own probe said otherwise, by a failure or a reply without data, now or  *)
(* remembered: no verdict of another region, kind or request is taken for  *)
(* its own, and an empty answer means that every instance was asked, those *)
(* of the second tier too.                                                 *)
(***************************************************************************)
SelectionExact == \A q \in Req : pc[q] = "done" => Exact(q)

(***************************************************************************)
(* SelectInstances: "fall back to music-videos only when no song hit was   *)
(* found".  The second round begins only when no instance has the song, or *)
(* the probe of each that does said otherwise; a late or shared probe      *)
(* never makes it begin early.                                             *)
(***************************************************************************)
VideosForWantOfSongs ==
  [][\A q \in Req : pc[q] = "song" /\ pc'[q] = "mv" =>
       \A i \in insts[q] : Has("song", i) => Missed(q, i)]_vars

\* An instance outside the language is chosen for want of one inside it.
Preferred(q) ==
  \A i, j \in Inst :
    /\ <<"lyrics", i>> \in chosen[q] /\ known[q] /\ RegionOf[i] \notin Speaks
    /\ j \in insts[q] /\ RegionOf[j] \in Speaks /\ Has("lyrics", j)
    => Missed(q, j)

(***************************************************************************)
(* SelectInstanceForLyrics, "prefer instances whose storefront supports    *)
(* the lyric language": with the table known, an instance outside it is    *)
(* chosen only if no instance inside has the lyrics, or its probe missed   *)
(* them, now or within the last 24 h.                                      *)
(***************************************************************************)
LanguagePreferred == \A q \in Req : pc[q] = "done" => Preferred(q)

(***************************************************************************)
(* Every selection ends: no worker keeps its place, no flight is left      *)
(* without a leader, and a probe ends by the HTTP client's 60 s.           *)
(***************************************************************************)
SelectionEnds == \A q \in Req : pc[q] # "idle" ~> pc[q] = "idle"

=============================================================================
