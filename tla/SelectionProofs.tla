--------------------------- MODULE SelectionProofs ---------------------------
(***************************************************************************)
(* Proofs about Selection for every set of instances, storefronts and      *)
(* requests, every catalog and every number of workers.                    *)
(***************************************************************************)
EXTENDS Selection, TLAPS

Probing == {"song", "mv", "tier1", "tier2"}

\* A worker's verdict, while its round lasts, is what Apple's catalog says.
Truthful(q) ==
  pc[q] \in Probing => \A i \in Inst :
    /\ wk[q][i] = "yes" => KeyOf(q, i) \in catalog
    /\ wk[q][i] = "no" => KeyOf(q, i) \notin catalog

\* Workers are started for the instances of the round only; those of the
\* first tier have failed to find the lyrics when the second one is tried.
Rounds(q) ==
  \A i \in Inst :
    /\ pc[q] \in {"idle", "langs", "fetch", "save"} => wk[q][i] = "none"
    /\ pc[q] \in {"song", "mv", "tier2"} => i \in insts[q] \/ wk[q][i] = "none"
    /\ pc[q] = "tier1" => i \in Tier1(q) \/ wk[q][i] = "none"
    /\ pc[q] = "tier2" /\ i \in Tier1(q) => wk[q][i] \in {"no"} \cup Wrong

\* No worker of a selection that has returned instances is still at work.
Settled(q) ==
  pc[q] = "done" => \A i \in Inst : wk[q][i] \notin {"queued", "join", "probe", "wait"}

\* Nothing is chosen before the end, and a selection is of one sort.
Undecided(q) ==
  /\ pc[q] # "done" => chosen[q] = {}
  /\ pc[q] \in {"song", "mv"} => traffic = "song"
  /\ pc[q] \in {"langs", "fetch", "save", "tier1", "tier2"} => traffic = "lyrics"

\* What holds of every request.
Right(q) ==
  /\ Truthful(q) /\ Rounds(q) /\ Settled(q) /\ Undecided(q)
  /\ pc[q] = "done" => Exact(q) /\ Preferred(q)

IInv == TypeOK /\ RememberedIsTrue /\ \A q \in Req : Right(q)

-----------------------------------------------------------------------------
\* The keys of the workers.
LEMMA KeyType == ASSUME NEW q \in Req, NEW i \in Inst PROVE KeyOf(q, i) \in Key
  BY RegionAssumption DEF KeyOf, Key, Kind

LEMMA InitIInv == Init => IInv
<1> SUFFICES ASSUME Init PROVE IInv
  OBVIOUS
<1>1. TypeOK
  <2>1. <<traffic, catalog>> \in Worlds
    BY WorldAssumption DEF Init
  <2>2. /\ wk \in [Req -> [Inst -> {"none", "queued", "join", "probe", "wait"} \cup Verdict]]
        /\ cache \in [Key -> Verdict \cup {None}]
    BY DEF Init
  <2> QED
    BY <2>1, <2>2 DEF Init, TypeOK
<1>2. RememberedIsTrue
  BY NoneAssumption DEF Init, RememberedIsTrue, Verdict, Wrong
<1>3. \A q \in Req : Right(q)
  BY DEF Init, Right, Truthful, Rounds, Settled, Undecided, Probing, Tier1
<1> QED
  BY <1>1, <1>2, <1>3 DEF IInv

\* A step of request q leaves the other requests alone.
Alone(q) ==
  /\ \A r \in Req \ {q} :
       /\ pc'[r] = pc[r] /\ insts'[r] = insts[r] /\ known'[r] = known[r]
       /\ wk'[r] = wk[r] /\ chosen'[r] = chosen[r]
  /\ UNCHANGED fixed

LEMMA AloneIInv ==
  ASSUME IInv, NEW q \in Req, Alone(q), TypeOK', RememberedIsTrue', Right(q)'
  PROVE  IInv'
<1>1. ASSUME NEW r \in Req \ {q} PROVE Right(r)'
  <2>1. Truthful(r)' /\ Rounds(r)' /\ Settled(r)' /\ Undecided(r)'
    BY DEF IInv, Right, Alone, Truthful, Rounds, Settled, Undecided, KeyOf, Tier1,
           regionSupportsLang, fixed
  <2>2. (pc[r] = "done" => Exact(r) /\ Preferred(r))'
    BY DEF IInv, Right, Alone, Exact, Has, Missed, Preferred, For, fixed
  <2> QED
    BY <2>1, <2>2 DEF Right
<1> QED
  BY <1>1 DEF IInv

\* A step that asks nothing of the cache.
LEMMA QuietIInv ==
  ASSUME IInv, NEW q \in Req, Alone(q), TypeOK', UNCHANGED cache, Right(q)'
  PROVE  IInv'
<1>1. RememberedIsTrue'
  BY DEF IInv, RememberedIsTrue, Alone, fixed
<1> QED
  BY <1>1, AloneIInv

-----------------------------------------------------------------------------
(***************************************************************************)
(* A selection begins, and its rounds.                                     *)
(***************************************************************************)
\* Some workers start afresh.
LEMMA FreshFacts ==
  ASSUME TypeOK, NEW q \in Req, NEW S, wk' = Fresh(q, S)
  PROVE  /\ wk' \in [Req -> [Inst -> {"none", "queued", "join", "probe", "wait"} \cup Verdict]]
         /\ \A r \in Req \ {q} : wk'[r] = wk[r]
         /\ \A i \in Inst : wk'[q][i] = IF i \in S THEN "queued" ELSE "none"
  BY DEF TypeOK, Fresh

LEMMA SelectInstancesStep == ASSUME IInv, NEW q \in Req, SelectInstances(q) PROVE IInv'
<1>1. PICK S \in Snapshots :
        /\ insts' = [insts EXCEPT ![q] = S] /\ wk' = Fresh(q, S)
        /\ pc' = [pc EXCEPT ![q] = IF S = {} THEN "done" ELSE "song"]
  BY DEF SelectInstances
<1>2. /\ TypeOK /\ chosen[q] = {} /\ traffic = "song" /\ S \subseteq Inst
      /\ UNCHANGED <<shared, known, chosen>>
  BY SnapshotAssumption DEF SelectInstances, IInv, Right, Undecided
<1>3. /\ insts'[q] = S /\ pc'[q] \in {"done", "song"} /\ (pc'[q] = "done" => S = {})
      /\ \A i \in Inst : wk'[q][i] = IF i \in S THEN "queued" ELSE "none"
  BY <1>1, <1>2, FreshFacts DEF TypeOK
<1>4. TypeOK' /\ Alone(q)
  BY <1>1, <1>2, FreshFacts DEF TypeOK, Alone, shared, fixed
<1>5. Truthful(q)' /\ Rounds(q)' /\ Settled(q)' /\ Undecided(q)'
  BY <1>2, <1>3 DEF Truthful, Rounds, Settled, Undecided, Probing, shared, fixed
<1>6. (pc[q] = "done" => Exact(q) /\ Preferred(q))'
  BY <1>2, <1>3 DEF Exact, Has, Missed, Preferred
<1> QED
  BY <1>2, <1>4, <1>5, <1>6, QuietIInv DEF Right, shared

LEMMA SelectLyricsStep ==
  ASSUME IInv, NEW q \in Req, SelectInstanceForLyrics(q) PROVE IInv'
<1>1. PICK S \in Snapshots :
        /\ insts' = [insts EXCEPT ![q] = S]
        /\ pc' = [pc EXCEPT ![q] = IF S = {} THEN "done" ELSE "langs"]
  BY DEF SelectInstanceForLyrics
<1>2. /\ TypeOK /\ chosen[q] = {} /\ traffic = "lyrics" /\ S \subseteq Inst
      /\ \A i \in Inst : wk[q][i] = "none"
      /\ UNCHANGED <<shared, known, wk, chosen>>
  BY SnapshotAssumption DEF SelectInstanceForLyrics, IInv, Right, Undecided, Rounds
<1>3. pc'[q] \in {"done", "langs"} /\ (pc'[q] = "done" => insts'[q] = {})
  BY <1>1, <1>2 DEF TypeOK
<1>4. TypeOK' /\ Alone(q)
  BY <1>1, <1>2 DEF TypeOK, Alone, shared, fixed
<1>5. Truthful(q)' /\ Rounds(q)' /\ Settled(q)' /\ Undecided(q)'
  BY <1>2, <1>3 DEF Truthful, Rounds, Settled, Undecided, Probing, shared, fixed
<1>6. (pc[q] = "done" => Exact(q) /\ Preferred(q))'
  BY <1>2, <1>3 DEF Exact, Has, Missed, Preferred
<1> QED
  BY <1>2, <1>4, <1>5, <1>6, QuietIInv DEF Right, shared

\* The first tier is the instances that speak the language, if there are any.
LEMMA ToTiersStep ==
  ASSUME IInv, NEW q \in Req, NEW k \in BOOLEAN, ToTiers(q, k), pc[q] \in {"langs", "fetch", "save"},
         mem' \in BOOLEAN, disk' \in {"absent", "torn", "whole"},
         UNCHANGED <<fixed, cache, insts, chosen>>
  PROVE  IInv'
<1> DEFINE first == {i \in insts[q] : k /\ regionSupportsLang(RegionOf[i])}
<1> DEFINE now == IF first = {} THEN insts[q] ELSE first
<1>1. TypeOK /\ chosen[q] = {} /\ traffic = "lyrics" /\ insts[q] \subseteq Inst
  BY DEF IInv, Right, Undecided, TypeOK
<1>2. /\ known' = [known EXCEPT ![q] = k]
      /\ pc' = [pc EXCEPT ![q] = IF first = {} THEN "tier2" ELSE "tier1"]
      /\ wk' = Fresh(q, now)
  BY DEF ToTiers
<1>3. /\ known'[q] = k /\ pc'[q] = IF first = {} THEN "tier2" ELSE "tier1"
      /\ \A i \in Inst : wk'[q][i] = IF i \in now THEN "queued" ELSE "none"
  <2>1. known'[q] = k /\ pc'[q] = IF first = {} THEN "tier2" ELSE "tier1"
    BY <1>1, <1>2 DEF TypeOK
  <2>2. \A i \in Inst : wk'[q][i] = IF i \in now THEN "queued" ELSE "none"
    <3> HIDE DEF now
    <3> QED
      BY <1>1, <1>2, FreshFacts
  <2> QED
    BY <2>1, <2>2
<1>4. TypeOK' /\ Alone(q)
  <2>1. /\ wk' \in [Req -> [Inst -> {"none", "queued", "join", "probe", "wait"} \cup Verdict]]
        /\ \A m \in Req \ {q} : wk'[m] = wk[m]
    <3> HIDE DEF now
    <3> QED
      BY <1>1, <1>2, FreshFacts
  <2>2. TypeOK'
    BY <1>1, <1>2, <2>1 DEF TypeOK, fixed
  <2>3. Alone(q)
    BY <1>1, <1>2, <2>1 DEF TypeOK, Alone, fixed
  <2> QED
    BY <2>2, <2>3
<1>5. Tier1(q)' = first
  BY <1>3 DEF Tier1, regionSupportsLang
<1>6. Rounds(q)'
  BY <1>3, <1>5 DEF Rounds
<1>7. Truthful(q)' /\ Settled(q)' /\ Undecided(q)' /\ pc'[q] # "done"
  BY <1>1, <1>3 DEF Truthful, Settled, Undecided, fixed
<1> QED
  BY <1>4, <1>6, <1>7, QuietIInv DEF Right

\* The language table is read, fetched and saved.
LEMMA TableStep ==
  ASSUME IInv, NEW q \in Req,
         \/ ensureStorefrontLangs(q) \/ FetchFails(q) \/ SaveBegins(q) \/ SaveEnds(q)
  PROVE  IInv'
<1>1. CASE ToTiers(q, TRUE) \/ ToTiers(q, FALSE)
  BY <1>1, ToTiersStep
  DEF ensureStorefrontLangs, FetchFails, SaveBegins, SaveEnds, IInv, TypeOK, shared, fixed
<1>2. ASSUME NEW l \in {"fetch", "save"}, pc' = [pc EXCEPT ![q] = l],
             pc[q] \in {"langs", "fetch"}, disk' \in {"absent", "torn", "whole"},
             UNCHANGED <<fixed, cache, mem, insts, known, wk, chosen>>
      PROVE  IInv'
  <2>1. TypeOK /\ chosen[q] = {} /\ traffic = "lyrics" /\ pc'[q] = l
        /\ \A i \in Inst : wk[q][i] = "none"
    BY <1>2 DEF IInv, Right, Undecided, Rounds, TypeOK
  <2>2. TypeOK' /\ Alone(q)
    BY <1>2, <2>1 DEF TypeOK, Alone, fixed
  <2>3. Truthful(q)' /\ Rounds(q)' /\ Settled(q)' /\ Undecided(q)' /\ pc'[q] # "done"
    BY <1>2, <2>1 DEF Truthful, Rounds, Settled, Undecided, Probing, fixed
  <2> QED
    BY <1>2, <2>2, <2>3, QuietIInv DEF Right
<1> QED
  BY <1>1, <1>2 DEF ensureStorefrontLangs, FetchFails, SaveBegins, SaveEnds, IInv, TypeOK

\* The results of a round.
LEMMA HitsExact ==
  ASSUME NEW q \in Req, NEW kind \in {"song", "mv"}, insts[q] \subseteq Inst,
         chosen'[q] = For(kind, Hits(q, insts[q])), UNCHANGED <<shared, insts>>, wk'[q] = wk[q],
         \A i \in Inst : wk[q][i] = "yes" => <<kind, RegionOf[i]>> \in catalog,
         \A i \in Inst : wk[q][i] = "no" => <<kind, RegionOf[i]>> \notin catalog,
         \A i \in insts[q] : wk[q][i] \in Verdict,
         Hits(q, insts[q]) # {} \/ kind = "mv", traffic = "song"
  PROVE  Exact(q)'
<1>1. \A c : c \in chosen'[q] <=> \E i \in insts[q] : wk[q][i] = "yes" /\ c = <<kind, i>>
  BY DEF For, Hits
<1>2. \A c \in chosen'[q] : <<c[1], RegionOf[c[2]]>> \in catalog
  <2> SUFFICES ASSUME NEW c \in chosen'[q] PROVE <<c[1], RegionOf[c[2]]>> \in catalog
    OBVIOUS
  <2>1. PICK i \in insts[q] : wk[q][i] = "yes" /\ c = <<kind, i>>
    BY <1>1
  <2>2. <<kind, RegionOf[i]>> \in catalog
    BY <2>1
  <2>3. c[1] = kind /\ c[2] = i
    BY <2>1
  <2> QED
    BY <2>2, <2>3
<1>3. ASSUME NEW l \in {"song", "mv"}, NEW i \in insts[q], <<l, RegionOf[i]>> \in catalog,
             For(l, insts[q]) \cap chosen'[q] # {}
      PROVE  <<l, i>> \in chosen'[q] \/ Missed(q, i)
  <2>1. PICK c \in For(l, insts[q]) : c \in chosen'[q]
    BY <1>3
  <2>2. l = kind
    BY <1>1, <2>1 DEF For
  <2>3. wk[q][i] \in {"yes"} \cup Wrong
    BY <1>3, <2>2 DEF Verdict, Wrong
  <2> QED
    BY <1>1, <2>2, <2>3 DEF Missed
<1>4. ASSUME chosen'[q] = {}, NEW i \in insts[q]
      PROVE  Has("mv", i) => Missed(q, i)
  BY <1>1, <1>4 DEF Hits, Has, Missed, Verdict, Wrong
<1>5. traffic' = traffic /\ catalog' = catalog /\ insts' = insts
  BY DEF shared, fixed
<1> QED
  BY <1>2, <1>3, <1>4, <1>5 DEF Exact, Has, Missed

LEMMA SongsStep == ASSUME IInv, NEW q \in Req, SongsProbed(q) PROVE IInv'
<1> DEFINE hits == Hits(q, insts[q])
<1>1. /\ TypeOK /\ traffic = "song" /\ insts[q] \subseteq Inst /\ pc[q] = "song"
      /\ \A i \in Inst : i \notin insts[q] => wk[q][i] = "none"
      /\ \A i \in Inst : wk[q][i] = "yes" => <<"song", RegionOf[i]>> \in catalog
      /\ \A i \in Inst : wk[q][i] = "no" => <<"song", RegionOf[i]>> \notin catalog
      /\ \A i \in insts[q] : wk[q][i] \in Verdict
  BY DEF SongsProbed, Answered, Verdict, Wrong, IInv, Right, Undecided, Truthful, Rounds, TypeOK,
         KeyOf, Probing
<1>2. chosen' = [chosen EXCEPT ![q] = For("song", hits)] /\ UNCHANGED <<shared, insts, known>>
  BY DEF SongsProbed
<1>3. chosen'[q] = For("song", hits) /\ For("song", hits) \subseteq Kind \X Inst
  BY <1>1, <1>2 DEF TypeOK, For, Kind, Hits
<1>4. CASE hits # {}
  <2>1. pc' = [pc EXCEPT ![q] = "done"] /\ UNCHANGED wk /\ pc'[q] = "done"
    BY <1>1, <1>4 DEF SongsProbed, TypeOK
  <2>2. TypeOK' /\ Alone(q)
    BY <1>1, <1>2, <1>3, <2>1 DEF TypeOK, Alone, shared, fixed
  <2>3. Truthful(q)' /\ Rounds(q)' /\ Settled(q)' /\ Undecided(q)'
    BY <1>1, <2>1 DEF Truthful, Rounds, Settled, Undecided, Probing,
           Verdict, Wrong
  <2>4. Exact(q)'
    BY <1>1, <1>2, <1>3, <1>4, <2>1, HitsExact DEF shared
  <2>5. Preferred(q)'
    BY <1>3 DEF Preferred, For
  <2> QED
    BY <1>2, <2>2, <2>3, <2>4, <2>5, QuietIInv DEF Right, shared
<1>5. CASE hits = {}
  <2>1. pc' = [pc EXCEPT ![q] = "mv"] /\ wk' = Fresh(q, insts[q]) /\ pc'[q] = "mv"
    BY <1>1, <1>5 DEF SongsProbed, TypeOK
  <2>2. \A i \in Inst : wk'[q][i] = IF i \in insts[q] THEN "queued" ELSE "none"
    BY <1>1, <2>1, FreshFacts
  <2>3. TypeOK' /\ Alone(q)
    BY <1>1, <1>2, <1>3, <2>1, FreshFacts DEF TypeOK, Alone, shared, fixed
  <2>4. chosen'[q] = {}
    BY <1>3, <1>5 DEF For
  <2>5. Truthful(q)' /\ Rounds(q)' /\ Settled(q)' /\ Undecided(q)'
    BY <1>1, <1>2, <2>1, <2>2, <2>4 DEF Truthful, Rounds, Settled, Undecided, shared, fixed
  <2> QED
    BY <1>2, <2>1, <2>3, <2>5, QuietIInv DEF Right, shared
<1> QED
  BY <1>4, <1>5

LEMMA VideosStep == ASSUME IInv, NEW q \in Req, VideosProbed(q) PROVE IInv'
<1> DEFINE hits == Hits(q, insts[q])
<1>1. /\ TypeOK /\ traffic = "song" /\ insts[q] \subseteq Inst /\ pc[q] = "mv"
      /\ \A i \in Inst : i \notin insts[q] => wk[q][i] = "none"
      /\ \A i \in Inst : wk[q][i] = "yes" => <<"mv", RegionOf[i]>> \in catalog
      /\ \A i \in Inst : wk[q][i] = "no" => <<"mv", RegionOf[i]>> \notin catalog
      /\ UNCHANGED <<shared, insts, known, wk>>
  BY DEF VideosProbed, IInv, Right, Undecided, Truthful, Rounds, TypeOK, KeyOf, Probing
<1>2. CASE /\ chosen' = [chosen EXCEPT ![q] = {}]
           /\ pc' = [pc EXCEPT ![q] = "error"]
  <2>1. chosen'[q] = {} /\ pc'[q] = "error" /\ TypeOK' /\ Alone(q)
    BY <1>1, <1>2 DEF TypeOK, Alone, shared, fixed
  <2>2. Truthful(q)' /\ Rounds(q)' /\ Settled(q)' /\ Undecided(q)'
    BY <2>1 DEF Truthful, Rounds, Settled, Undecided, Probing
  <2> QED
    BY <1>1, <2>1, <2>2, QuietIInv DEF Right, shared
<1>3. CASE /\ \A i \in insts[q] : wk[q][i] \in Verdict
           /\ chosen' = [chosen EXCEPT ![q] = For("mv", hits)]
           /\ pc' = [pc EXCEPT ![q] = "done"]
  <2>1. chosen'[q] = For("mv", hits) /\ For("mv", hits) \subseteq Kind \X Inst /\ pc'[q] = "done"
    BY <1>1, <1>3 DEF TypeOK, For, Kind, Hits
  <2>2. TypeOK' /\ Alone(q)
    BY <1>1, <1>3, <2>1 DEF TypeOK, Alone, shared, fixed
  <2>3. Truthful(q)' /\ Rounds(q)' /\ Settled(q)' /\ Undecided(q)'
    BY <1>1, <1>3, <2>1 DEF Truthful, Rounds, Settled, Undecided, Probing,
           Verdict, Wrong
  <2>4. Exact(q)'
    BY <1>1, <1>3, <2>1, HitsExact DEF shared
  <2>5. Preferred(q)'
    BY <2>1 DEF Preferred, For
  <2> QED
    BY <1>1, <2>1, <2>2, <2>3, <2>4, <2>5, QuietIInv DEF Right, shared
<1> QED
  BY <1>2, <1>3 DEF VideosProbed, Answered, Verdict, Wrong

\* A lyrics request has its instance, goes on to the second tier, or gives up.
LEMMA TierStep == ASSUME IInv, NEW q \in Req, TierProbed(q) PROVE IInv'
<1>1. /\ TypeOK /\ traffic = "lyrics" /\ insts[q] \subseteq Inst /\ pc[q] \in {"tier1", "tier2"}
      /\ chosen[q] = {} /\ Tier1(q) \subseteq insts[q]
      /\ \A i \in Inst : wk[q][i] = "yes" => <<"lyrics", RegionOf[i]>> \in catalog
      /\ \A i \in Inst : wk[q][i] = "no" => <<"lyrics", RegionOf[i]>> \notin catalog
      /\ \A i \in Tier(q) : wk[q][i] \in Verdict
      /\ Rounds(q) /\ UNCHANGED <<shared, insts, known>>
  BY DEF TierProbed, Answered, Verdict, Wrong, IInv, Right, Undecided, Truthful, TypeOK, KeyOf,
         Probing, Tier1
<1>2. \A i \in Inst : pc[q] = "tier1" /\ i \notin Tier1(q) => wk[q][i] = "none"
  BY <1>1 DEF Rounds
<1>3. \A i \in Inst : wk[q][i] \notin {"queued", "join", "probe", "wait"}
  BY <1>1, <1>2 DEF Rounds, Tier, Verdict, Wrong
<1>4. ASSUME NEW i \in Hits(q, Tier(q)), chosen' = [chosen EXCEPT ![q] = For("lyrics", {i})],
             pc' = [pc EXCEPT ![q] = "done"], UNCHANGED wk
      PROVE  IInv'
  <2>1. i \in Inst /\ i \in Tier(q) /\ <<"lyrics", RegionOf[i]>> \in catalog
    BY <1>1, <1>4 DEF Hits, Tier
  <2>2. chosen'[q] = {<<"lyrics", i>>} /\ pc'[q] = "done"
    BY <1>1, <1>4 DEF TypeOK, For
  <2>3. For("lyrics", {i}) \subseteq Kind \X Inst
    BY <2>1 DEF For, Kind
  <2>4. TypeOK' /\ Alone(q)
    BY <1>1, <1>4, <2>3 DEF TypeOK, Alone, shared, fixed
  <2>5. Truthful(q)' /\ Rounds(q)' /\ Settled(q)' /\ Undecided(q)'
    BY <1>3, <1>4, <2>2 DEF Truthful, Rounds, Settled, Undecided, Probing
  <2>6. Exact(q)'
    <3>1. \A l \in {"song", "mv"} : For(l, insts[q]) \cap chosen'[q] = {}
      BY <2>2 DEF For
    <3>2. \A c \in chosen'[q] : <<c[1], RegionOf[c[2]]>> \in catalog
      BY <2>1, <2>2
    <3> QED
      BY <1>1, <2>2, <3>1, <3>2 DEF Exact, Has, Missed, shared, fixed, For
  <2>7. Preferred(q)'
    <3> SUFFICES ASSUME NEW j \in Inst, known[q], RegionOf[i] \notin Speaks, j \in insts[q],
                        RegionOf[j] \in Speaks
                 PROVE  Has("lyrics", j) => Missed(q, j)
      BY <1>1, <1>4, <2>2 DEF Preferred, Has, Missed, shared, fixed
    <3>1. i \notin Tier1(q) /\ j \in Tier1(q)
      BY DEF Tier1, regionSupportsLang
    <3>2. wk[q][j] \in {"no"} \cup Wrong
      BY <1>1, <2>1, <3>1 DEF Rounds, Tier
    <3> QED
      BY <1>1, <3>2 DEF Has, Missed
  <2> QED
    BY <1>1, <2>4, <2>5, <2>6, <2>7, QuietIInv DEF Right, shared
<1>5. ASSUME Hits(q, Tier(q)) = {}, pc[q] = "tier1", pc' = [pc EXCEPT ![q] = "tier2"],
             wk' = Queued(q, insts[q] \ Tier1(q)), UNCHANGED chosen
      PROVE  IInv'
  <2>1. /\ pc'[q] = "tier2"
        /\ \A j \in Inst : wk'[q][j] = IF j \in insts[q] \ Tier1(q) THEN "queued" ELSE wk[q][j]
    BY <1>1, <1>5 DEF TypeOK, Queued
  <2>2. TypeOK' /\ Alone(q)
    BY <1>1, <1>5 DEF TypeOK, Queued, Alone, shared, fixed
  <2>3. Tier1(q)' = Tier1(q)
    BY <1>1 DEF Tier1, regionSupportsLang
  <2>4. \A j \in Tier1(q) : wk[q][j] \in {"no"} \cup Wrong
    BY <1>1, <1>5 DEF Hits, Tier, Verdict
  <2>5. Rounds(q)'
    BY <1>1, <1>2, <2>1, <2>3, <2>4 DEF Rounds
  <2>6. Truthful(q)' /\ Settled(q)' /\ Undecided(q)'
    BY <1>1, <1>5, <2>1 DEF Truthful, Settled, Undecided, KeyOf, shared, fixed
  <2> QED
    BY <1>1, <2>1, <2>2, <2>5, <2>6, QuietIInv DEF Right, shared
<1>6. ASSUME Hits(q, Tier(q)) = {}, pc[q] = "tier2", pc' = [pc EXCEPT ![q] = "done"],
             UNCHANGED <<wk, chosen>>
      PROVE  IInv'
  <2>1. pc'[q] = "done" /\ TypeOK' /\ Alone(q)
    BY <1>1, <1>6 DEF TypeOK, Alone, shared, fixed
  <2>2. Truthful(q)' /\ Rounds(q)' /\ Settled(q)' /\ Undecided(q)'
    BY <1>3, <1>6, <2>1 DEF Truthful, Rounds, Settled, Undecided, Probing
  <2>3. \A i \in insts[q] : wk[q][i] \in {"no"} \cup Wrong
    BY <1>1, <1>6 DEF Rounds, Hits, Tier, Verdict
  <2>4. Exact(q)' /\ Preferred(q)'
    BY <1>1, <1>6, <2>3 DEF Exact, Has, Missed, Preferred, For, shared, fixed
  <2> QED
    BY <1>1, <2>1, <2>2, <2>4, QuietIInv DEF Right, shared
<1> QED
  BY <1>1, <1>4, <1>5, <1>6 DEF TierProbed, TypeOK

-----------------------------------------------------------------------------
(***************************************************************************)
(* The workers.                                                            *)
(***************************************************************************)
\* A worker that had not begun to probe moves on.
LEMMA WorkerMoves ==
  ASSUME IInv, NEW q \in Req, NEW i \in Inst, NEW v, Set(q, i, v),
         wk[q][i] \in {"queued", "join"}, v \in {"join", "probe", "wait"} \cup Verdict,
         v = "yes" => KeyOf(q, i) \in catalog, v = "no" => KeyOf(q, i) \notin catalog,
         cache' \in [Key -> Verdict \cup {None}], RememberedIsTrue',
         UNCHANGED <<fixed, mem, disk, pc, insts, known, chosen>>
  PROVE  IInv'
<1>1. TypeOK /\ Right(q)
  BY DEF IInv
<1>2. /\ wk'[q][i] = v /\ \A j \in Inst \ {i} : wk'[q][j] = wk[q][j]
      /\ \A r \in Req \ {q} : wk'[r] = wk[r]
      /\ wk' \in [Req -> [Inst -> {"none", "queued", "join", "probe", "wait"} \cup Verdict]]
  BY <1>1 DEF TypeOK, Set
<1>3. TypeOK' /\ Alone(q)
  BY <1>1, <1>2 DEF TypeOK, Alone, fixed
<1>4. pc[q] # "done"
  BY <1>1 DEF Right, Settled
<1>5. Truthful(q)'
  BY <1>1, <1>2 DEF Right, Truthful, KeyOf, fixed
<1>6. Rounds(q)'
  BY <1>1, <1>2 DEF Right, Rounds, Tier1, regionSupportsLang, Wrong
<1>7. Settled(q)' /\ Undecided(q)'
  BY <1>1, <1>4 DEF Right, Settled, Undecided, fixed
<1> QED
  BY <1>3, <1>4, <1>5, <1>6, <1>7, AloneIInv DEF Right

LEMMA LookupStep == ASSUME IInv, NEW q \in Req, NEW i \in Inst, Lookup(q, i) PROVE IInv'
<1> DEFINE k == KeyOf(q, i)
<1>1. /\ TypeOK /\ RememberedIsTrue /\ k \in Key /\ wk[q][i] = "queued"
      /\ UNCHANGED <<fixed, mem, disk, pc, insts, known, chosen>>
  BY KeyType DEF IInv, Lookup
<1>2. CASE cache[k] # None /\ Set(q, i, cache[k]) /\ UNCHANGED cache
  <2>1. /\ cache[k] \in Verdict
        /\ cache[k] = "yes" => k \in catalog
        /\ cache[k] = "no" => k \notin catalog
    BY <1>1, <1>2 DEF TypeOK, RememberedIsTrue
  <2>2. cache' \in [Key -> Verdict \cup {None}] /\ RememberedIsTrue'
    BY <1>1, <1>2 DEF TypeOK, RememberedIsTrue, fixed
  <2> QED
    BY <1>1, <1>2, <2>1, <2>2, WorkerMoves
<1>3. CASE Set(q, i, "join") /\ cache' = [cache EXCEPT ![k] = None]
  <2>1. cache' \in [Key -> Verdict \cup {None}] /\ RememberedIsTrue'
    BY <1>1, <1>3, NoneAssumption DEF TypeOK, RememberedIsTrue, fixed, Verdict, Wrong
  <2> QED
    BY <1>1, <1>3, <2>1, WorkerMoves
<1> QED
  BY <1>2, <1>3 DEF Lookup

LEMMA WorkerStep ==
  ASSUME IInv, NEW q \in Req, NEW i \in Inst, NoCandidate(q, i) \/ Do(q, i)
  PROVE  IInv'
<1>1. /\ wk[q][i] \in {"queued", "join"}
      /\ UNCHANGED <<fixed, cache, mem, disk, pc, insts, known, chosen>>
      /\ \E v \in {"miss", "wait", "probe"} : Set(q, i, v)
  BY DEF NoCandidate, Do, shared
<1>2. cache' \in [Key -> Verdict \cup {None}] /\ RememberedIsTrue'
  BY <1>1 DEF IInv, TypeOK, RememberedIsTrue, fixed
<1> QED
  BY <1>1, <1>2, WorkerMoves DEF Verdict, Wrong

LEMMA NoTokenStep == ASSUME IInv, NEW q \in Req, NoToken(q) PROVE IInv'
<1>1. /\ TypeOK /\ Right(q) /\ pc[q] \in {"tier1", "tier2"}
      /\ \A i \in Tier(q) : wk[q][i] = "queued"
      /\ UNCHANGED <<shared, pc, insts, known, chosen>>
  BY DEF IInv, NoToken
<1>2. /\ \A i \in Inst : wk'[q][i] = IF i \in Tier(q) THEN "miss" ELSE wk[q][i]
      /\ \A r \in Req \ {q} : wk'[r] = wk[r]
      /\ wk' \in [Req -> [Inst -> {"none", "queued", "join", "probe", "wait"} \cup Verdict]]
  BY <1>1 DEF NoToken, TypeOK, Verdict, Wrong
<1>3. TypeOK' /\ Alone(q)
  BY <1>1, <1>2 DEF TypeOK, Alone, shared, fixed
<1>4. Truthful(q)' /\ Settled(q)' /\ Undecided(q)'
  BY <1>1, <1>2 DEF Right, Truthful, Settled, Undecided, KeyOf, shared, fixed
<1>5. Tier1(q)' = Tier1(q)
  BY <1>1 DEF Tier1, regionSupportsLang
<1>6. Rounds(q)'
  BY <1>1, <1>2, <1>5 DEF Right, Rounds, Tier
<1> QED
  BY <1>1, <1>3, <1>4, <1>6, QuietIInv DEF Right, shared

\* A flight lands: its workers learn what the probe found.
LEMMA LandStep ==
  ASSUME IInv, NEW k \in Key, NEW v \in Verdict, Land(k, v),
         v = "yes" => k \in catalog, v = "no" => k \notin catalog,
         UNCHANGED <<fixed, mem, disk, pc, insts, known, chosen>>,
         cache' = cache \/ (cache' = [cache EXCEPT ![k] = v] /\ v # "fail" /\ (v = "miss" => k[1] = "lyrics"))
  PROVE  IInv'
<1>1. TypeOK /\ RememberedIsTrue
  BY DEF IInv
<1>2. /\ \A r \in Req, j \in Inst :
           wk'[r][j] = IF wk[r][j] \in {"probe", "wait"} /\ KeyOf(r, j) = k THEN v ELSE wk[r][j]
      /\ wk' \in [Req -> [Inst -> {"none", "queued", "join", "probe", "wait"} \cup Verdict]]
  BY <1>1 DEF Land, TypeOK
<1>3. cache' \in [Key -> Verdict \cup {None}] /\ RememberedIsTrue'
  BY <1>1 DEF TypeOK, RememberedIsTrue, fixed
<1>4. TypeOK'
  BY <1>1, <1>2, <1>3 DEF TypeOK, fixed
<1>5. ASSUME NEW r \in Req PROVE Right(r)'
  <2>1. Right(r)
    BY DEF IInv
  <2>2. Truthful(r)'
    BY <1>2, <2>1 DEF Right, Truthful, KeyOf, fixed
  <2>3. Tier1(r)' = Tier1(r)
    BY DEF Tier1, regionSupportsLang
  <2>4. Rounds(r)'
    BY <1>2, <2>1, <2>3 DEF Right, Rounds, Wrong
  <2>5. pc[r] = "done" => \A j \in Inst : wk'[r][j] = wk[r][j]
    BY <1>2, <2>1 DEF Right, Settled
  <2>6. Settled(r)' /\ Undecided(r)'
    BY <2>1, <2>5 DEF Right, Settled, Undecided, fixed
  <2>7. (pc[r] = "done" => Exact(r) /\ Preferred(r))'
    <3>1. pc[r] = "done" => \A i \in insts[r] : wk'[r][i] = wk[r][i]
      BY <1>1, <2>5 DEF TypeOK
    <3> QED
      BY <2>1, <2>5, <3>1 DEF Right, Exact, Has, Missed, Preferred, fixed
  <2> QED
    BY <2>2, <2>4, <2>6, <2>7 DEF Right
<1> QED
  BY <1>3, <1>4, <1>5 DEF IInv

LEMMA ProbeStep == ASSUME IInv, NEW q \in Req, NEW i \in Inst, Probe(q, i) PROVE IInv'
<1> DEFINE k == KeyOf(q, i)
<1>1. k \in Key /\ UNCHANGED <<fixed, mem, disk, pc, insts, known, chosen>>
  BY KeyType DEF Probe
<1>2. CASE k[1] = "lyrics" /\ hasLyricsCached(k)
  <2>1. PICK v \in (IF k \in catalog THEN {"yes", "miss"} ELSE {"no"}) :
          Land(k, v) /\ cache' = [cache EXCEPT ![k] = v]
    BY <1>2 DEF hasLyricsCached
  <2> QED
    BY <1>1, <1>2, <2>1, LandStep DEF Verdict, Wrong
<1>3. CASE checkAvailableOnRegion(k)
  BY <1>1, <1>3, LandStep DEF checkAvailableOnRegion, False, Verdict, Wrong
<1>4. CASE ProbeError(k)
  BY <1>1, <1>4, LandStep DEF ProbeError, Verdict, Wrong
<1> QED
  BY <1>2, <1>3, <1>4 DEF Probe

-----------------------------------------------------------------------------
LEMMA ReturnStep == ASSUME IInv, NEW q \in Req, Return(q) PROVE IInv'
<1>1. TypeOK /\ UNCHANGED shared
  BY DEF IInv, Return
<1>2. /\ pc'[q] = "idle" /\ chosen'[q] = {} /\ \A i \in Inst : wk'[q][i] = "none"
      /\ wk' \in [Req -> [Inst -> {"none", "queued", "join", "probe", "wait"} \cup Verdict]]
  BY <1>1 DEF Return, TypeOK
<1>3. TypeOK' /\ Alone(q)
  BY <1>1, <1>2 DEF Return, TypeOK, Alone, shared, fixed
<1>4. Truthful(q)' /\ Rounds(q)' /\ Settled(q)' /\ Undecided(q)'
  BY <1>2 DEF Truthful, Rounds, Settled, Undecided, Probing
<1> QED
  BY <1>1, <1>2, <1>3, <1>4, QuietIInv DEF Right, shared

LEMMA RestartStep == IInv /\ Restart => IInv'
<1> SUFFICES ASSUME IInv, Restart PROVE IInv'
  OBVIOUS
<1>1. /\ wk' \in [Req -> [Inst -> {"none", "queued", "join", "probe", "wait"} \cup Verdict]]
      /\ cache' \in [Key -> Verdict \cup {None}]
  BY DEF Restart
<1>2. TypeOK'
  BY <1>1 DEF IInv, Restart, TypeOK, fixed
<1>3. RememberedIsTrue'
  BY NoneAssumption DEF Restart, RememberedIsTrue, Verdict, Wrong
<1>4. \A q \in Req : Right(q)'
  BY DEF Restart, Right, Truthful, Rounds, Settled, Undecided, Probing
<1> QED
  BY <1>2, <1>3, <1>4 DEF IInv

LEMMA NextIInv == IInv /\ [Next]_vars => IInv'
<1> SUFFICES ASSUME IInv, [Next]_vars PROVE IInv'
  OBVIOUS
<1>1. ASSUME NEW q \in Req, SelectInstances(q) \/ SelectInstanceForLyrics(q) PROVE IInv'
  BY <1>1, SelectInstancesStep, SelectLyricsStep
<1>2. ASSUME NEW q \in Req,
             \/ ensureStorefrontLangs(q) \/ FetchFails(q) \/ SaveBegins(q) \/ SaveEnds(q)
      PROVE  IInv'
  BY <1>2, TableStep
<1>3. ASSUME NEW q \in Req, NoToken(q) PROVE IInv'
  BY <1>3, NoTokenStep
<1>4. ASSUME NEW q \in Req, SongsProbed(q) \/ VideosProbed(q) \/ TierProbed(q) PROVE IInv'
  BY <1>4, SongsStep, VideosStep, TierStep
<1>5. ASSUME NEW q \in Req, Return(q) PROVE IInv'
  BY <1>5, ReturnStep
<1>6. ASSUME NEW q \in Req, NEW i \in Inst,
             Lookup(q, i) \/ NoCandidate(q, i) \/ Do(q, i) \/ Probe(q, i)
      PROVE  IInv'
  BY <1>6, LookupStep, WorkerStep, ProbeStep
<1>7. CASE Restart
  BY <1>7, RestartStep
<1>8. CASE UNCHANGED vars
  <2>1. TypeOK' /\ RememberedIsTrue'
    BY <1>8 DEF vars, fixed, IInv, TypeOK, RememberedIsTrue
  <2>2. ASSUME NEW q \in Req PROVE Right(q)'
    <3>1. Truthful(q)' /\ Rounds(q)' /\ Settled(q)' /\ Undecided(q)'
      BY <1>8 DEF vars, fixed, IInv, Right, Truthful, Rounds, Settled, Undecided, KeyOf, Tier1
    <3>2. (pc[q] = "done" => Exact(q) /\ Preferred(q))'
      BY <1>8 DEF vars, fixed, IInv, Right, Exact, Has, Missed, Preferred
    <3> QED
      BY <3>1, <3>2 DEF Right
  <2> QED
    BY <2>1, <2>2 DEF IInv
<1> QED
  BY <1>1, <1>2, <1>3, <1>4, <1>5, <1>6, <1>7, <1>8 DEF Next, Step

LEMMA SelectionInvariant == Spec => []IInv
BY InitIInv, NextIInv, PTL DEF Spec

(***************************************************************************)
(* The caches, the language table, the requests and their workers are      *)
(* always well formed.                                                     *)
(***************************************************************************)
THEOREM TypeCorrect == Spec => []TypeOK
<1>1. IInv => TypeOK
  BY DEF IInv
<1> QED
  BY <1>1, SelectionInvariant, PTL

(***************************************************************************)
(* checkAvailableOnRegion and hasLyricsCached never remember a failed probe*)
(* of a song or a video, nor an "errors" reply, whichever requests share a *)
(* flight, and whatever they remember as available is.                     *)
(***************************************************************************)
THEOREM CacheSound == Spec => []RememberedIsTrue
<1>1. IInv => RememberedIsTrue
  BY DEF IInv
<1> QED
  BY <1>1, SelectionInvariant, PTL

(***************************************************************************)
(* A selection that ends without an error returns instances that have what *)
(* was asked for, all of them for a song or a video and one for lyrics, and*)
(* leaves one out, or returns none, only because the probe of every        *)
(* instance that has it said otherwise.                                    *)
(***************************************************************************)
THEOREM ExactlyAvailable == Spec => []SelectionExact
<1>1. IInv => SelectionExact
  BY DEF IInv, Right, SelectionExact
<1> QED
  BY <1>1, SelectionInvariant, PTL

(***************************************************************************)
(* SelectInstances goes on to videos only when the song probe of every     *)
(* instance has ended and none of them found the song.                     *)
(***************************************************************************)
THEOREM SongsBeforeVideos == Spec => VideosForWantOfSongs
<1> DEFINE OneRound ==
      \A q \in Req : pc[q] = "song" /\ pc'[q] = "mv" =>
        \A i \in insts[q] : Has("song", i) => Missed(q, i)
<1>1. IInv /\ [Next]_vars => [OneRound]_vars
  <2> SUFFICES ASSUME IInv, Next, NEW q \in Req, pc[q] = "song", pc'[q] = "mv",
                      NEW i \in insts[q], Has("song", i)
               PROVE  Missed(q, i)
    OBVIOUS
  <2>1. SongsProbed(q)
    <3>1. PICK r \in Req : SelectInstances(r) \/ SelectInstanceForLyrics(r) \/ Step(r)
      BY DEF Next, Restart
    <3>2. r = q
      BY <3>1 DEF SelectInstances, SelectInstanceForLyrics, Step, ensureStorefrontLangs,
             FetchFails, SaveBegins, SaveEnds, NoToken, SongsProbed, VideosProbed, TierProbed,
             Return, Lookup, NoCandidate, Do, Probe, ToTiers, IInv, TypeOK, shared
    <3> QED
      BY <3>1, <3>2 DEF SelectInstances, SelectInstanceForLyrics, Step, ensureStorefrontLangs,
             FetchFails, SaveBegins, SaveEnds, NoToken, VideosProbed, TierProbed,
             Return, Lookup, NoCandidate, Do, Probe, shared
  <2>2. wk[q][i] \in Verdict /\ wk[q][i] # "yes"
    BY <2>1 DEF SongsProbed, Answered, Hits, IInv, TypeOK
  <2>3. wk[q][i] # "no"
    BY DEF IInv, Right, Truthful, Probing, KeyOf, Has, TypeOK
  <2> QED
    BY <2>2, <2>3 DEF Verdict, Missed
<1> QED
  BY <1>1, SelectionInvariant, PTL DEF Spec, VideosForWantOfSongs

(***************************************************************************)
(* SelectInstanceForLyrics leaves the storefronts of the language only     *)
(* when none of them has the lyrics, or their probes missed them.          *)
(***************************************************************************)
THEOREM LanguageFirst == Spec => []LanguagePreferred
<1>1. IInv => LanguagePreferred
  BY DEF IInv, Right, LanguagePreferred
<1> QED
  BY <1>1, SelectionInvariant, PTL

=============================================================================
