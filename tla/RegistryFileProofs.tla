-------------------------- MODULE RegistryFileProofs --------------------------
(***************************************************************************)
(* What saves amount to however many goroutines save and change the        *)
(* registry at the same time: RegistryFile implements AtomicRegistry, for  *)
(* every set of accounts and of savers.                                    *)
(***************************************************************************)
EXTENDS RegistryFile, FiniteSetTheorems, FunctionTheorems, TLAPS

-----------------------------------------------------------------------------
(***************************************************************************)
(* The inductive invariant.  A saver has a file open while it writes, and  *)
(* only then; the two names never refer to the same inode.                 *)
(***************************************************************************)
Descriptors ==
  /\ \A s \in Saver : fd[s] = None <=> pc[s] \notin {"write", "close"}
  /\ tmp # None => tmp # json

\* A save that nothing has overlapped is the only one under way, works on the
\* inode the temporary name refers to, and writes there what it has copied.
Undisturbed ==
  \A s \in Saver :
    alone = s =>
      /\ pc[s] # "idle"
      /\ \A t \in Saver \ {s} : pc[t] = "idle"
      /\ pc[s] \in {"write", "close"} => fd[s] = tmp /\ content[tmp].ids = {}
      /\ pc[s] = "rename" =>
           tmp # None /\ content[tmp] = [whole |-> TRUE, ids |-> list[s]]
      /\ ~unsaved => list[s] = registry

\* The file that a save left which nothing overlapped is complete, and no
\* saver has it open.
InPlace ==
  sound /\ json # None => content[json].whole /\ \A s \in Saver : fd[s] # json

IInv == TypeOK /\ Descriptors /\ Undisturbed /\ InPlace /\ RecordedWhenQuiet

-----------------------------------------------------------------------------
Document == [whole: BOOLEAN, ids: SUBSET Account]

\* Writing a document to an inode keeps the type of content.
LEMMA ContentType ==
  ASSUME content \in [Inode -> Document], NEW n \in Inode, NEW d \in Document,
         content' = [content EXCEPT ![n] = d]
  PROVE  content' \in [Inode -> Document]
  OBVIOUS

LEMMA InodeFacts ==
  /\ Cardinality(Saver) \in Nat
  /\ None \notin Inode
  /\ IsFiniteSet(Inode) /\ Cardinality(Inode) = Cardinality(Saver) + 2
  <1>1. Cardinality(Saver) \in Nat  BY FileAssumption, FS_CardinalityType
  <1>2. None \notin Inode  BY <1>1, FileAssumption DEF Inode
  <1>3. 1 \in Int /\ Cardinality(Saver) + 2 \in Int  BY <1>1
  <1>4. IsFiniteSet(Inode)  BY <1>3, FS_Interval DEF Inode
  <1>5. Cardinality(Inode) =
          IF 1 > Cardinality(Saver) + 2 THEN 0 ELSE (Cardinality(Saver) + 2) - 1 + 1
    BY <1>3, FS_Interval DEF Inode
  <1> QED BY <1>1, <1>2, <1>4, <1>5

\* There is a fresh inode for a saver that finds no temporary file: the others
\* and the file in place leave one over.
LEMMA FreshInode ==
  ASSUME TypeOK, NEW s \in Saver, fd[s] = None
  PROVE  \E m \in Inode : m \notin {None, json} \cup {fd[t] : t \in Saver}
  <1> DEFINE open == {fd[t] : t \in Saver}
             used == open \cup {json}
  <1>1. fd \in [Saver -> open]  BY DEF TypeOK
  <1>2. fd \in Surjection(Saver, open)  BY <1>1, Fun_IsSurj
  <1>3. IsFiniteSet(open) /\ Cardinality(open) <= Cardinality(Saver)
    BY <1>2, FS_Surjection, FileAssumption
  <1>4. /\ IsFiniteSet(used)
        /\ Cardinality(used) =
             IF json \in open THEN Cardinality(open) ELSE Cardinality(open) + 1
    BY <1>3, FS_AddElement
  <1>5. Cardinality(open) \in Nat  BY <1>3, FS_CardinalityType
  <1>6. Cardinality(used) <= Cardinality(Saver) + 1  BY <1>3, <1>4, <1>5, InodeFacts
  <1>7. Cardinality(used) \in Nat  BY <1>4, FS_CardinalityType
  <1>8. ~(Inode \subseteq used)
    <2>1. SUFFICES ASSUME Inode \subseteq used PROVE FALSE  OBVIOUS
    <2>2. Cardinality(Inode) <= Cardinality(used)  BY <1>4, <2>1, FS_Subset
    <2> QED BY <1>6, <1>7, <2>2, InodeFacts
  <1>9. PICK m \in Inode : m \notin used  BY <1>8
  <1>10. m # None  BY InodeFacts
  <1> QED BY <1>9, <1>10

\* A document written to an empty file is complete.
LEMMA WrittenWhole ==
  ASSUME NEW n, NEW ids \in SUBSET Account, content[n].ids = {}
  PROVE  Written(n, ids) = [whole |-> TRUE, ids |-> ids]
  <1>1. IsFiniteSet(ids)  BY FS_Subset, FileAssumption
  <1>2. Cardinality(ids) \in Nat /\ Cardinality({}) = 0
    BY <1>1, FS_CardinalityType, FS_EmptySet
  <1>3. ~(Cardinality({}) > Cardinality(ids))  BY <1>2
  <1> QED BY <1>3 DEF Written

LEMMA WrittenType ==
  ASSUME TypeOK, NEW n \in Inode, NEW ids \in SUBSET Account
  PROVE  Written(n, ids) \in Document
  BY DEF TypeOK, Written, Document

LEMMA InitInv == Init => IInv
  <1> SUFFICES ASSUME Init PROVE IInv  OBVIOUS
  <1>1. Empty \in Document  BY DEF Empty, Document
  <1>2. content \in [Inode -> Document]  BY <1>1 DEF Init
  <1>3. TypeOK  BY <1>2 DEF Init, TypeOK, Document
  <1>4. Descriptors /\ InPlace  BY DEF Init, Descriptors, InPlace
  <1>5. Undisturbed  BY FileAssumption DEF Init, Undisturbed
  <1>6. RecordedWhenQuiet  BY DEF Init, RecordedWhenQuiet, LoadInstance
  <1> QED BY <1>3, <1>4, <1>5, <1>6 DEF IInv

-----------------------------------------------------------------------------
LEMMA ChangeInv ==
  ASSUME IInv, Change
  PROVE  IInv'
  <1> USE DEF Change, files, savers
  <1>1. TypeOK'  BY DEF IInv, TypeOK
  <1>2. Descriptors' /\ InPlace'  BY DEF IInv, Descriptors, InPlace
  <1>3. Undisturbed'  BY DEF IInv, Undisturbed
  <1>4. RecordedWhenQuiet'  BY DEF RecordedWhenQuiet
  <1> QED BY <1>1, <1>2, <1>3, <1>4 DEF IInv

LEMMA SnapshotInv ==
  ASSUME IInv, NEW s \in Saver, Snapshot(s)
  PROVE  IInv'
  <1> USE DEF Snapshot, Begin, files
  <1>1. TypeOK'  BY DEF IInv, TypeOK
  <1>2. Descriptors' /\ InPlace'  BY DEF IInv, Descriptors, InPlace, TypeOK
  <1>3. Undisturbed'
    <2>1. alone' = s => \A t \in Saver : pc[t] = "idle"  BY FileAssumption
    <2>2. \A u \in Saver : alone' = u => u = s  BY FileAssumption
    <2>3. pc'[s] = "open" /\ list'[s] = registry'  BY DEF IInv, TypeOK
    <2>4. \A t \in Saver \ {s} : pc'[t] = pc[t]  BY DEF IInv, TypeOK
    <2> QED BY <2>1, <2>2, <2>3, <2>4 DEF Undisturbed
  <1>4. RecordedWhenQuiet'
    <2>1. pc'[s] # "idle"  BY DEF IInv, TypeOK
    <2> QED BY <2>1 DEF RecordedWhenQuiet
  <1> QED BY <1>1, <1>2, <1>3, <1>4 DEF IInv

\* Opening never touches the file in place.
LEMMA OpenFacts ==
  ASSUME IInv, NEW s \in Saver, Open(s)
  PROVE  /\ tmp' \in Inode /\ tmp' # json /\ tmp' # None
         /\ fd' = [fd EXCEPT ![s] = tmp']
         /\ content' = [content EXCEPT ![tmp'] = Empty]
         /\ json' = json /\ registry' = registry /\ list' = list
         /\ alone' = alone /\ sound' = sound /\ unsaved' = unsaved
         /\ pc' = [pc EXCEPT ![s] = "write"]
  <1> DEFINE used == {tmp, json} \cup {fd[t] : t \in Saver}
             fresh == CHOOSE m \in Inode : m \notin used
  <1>1. tmp' = IF tmp # None THEN tmp ELSE fresh  BY DEF Open
  <1>2. None \notin Inode  BY InodeFacts
  <1>3. fd[s] = None  BY DEF IInv, Descriptors, Open
  <1>4. CASE tmp = None
    <2>1. \E m \in Inode : m \notin used  BY <1>3, <1>4, FreshInode DEF IInv
    <2>2. fresh \in Inode /\ fresh \notin used  BY <2>1
    <2> QED BY <1>1, <1>2, <1>4, <2>2 DEF Open, history
  <1>5. CASE tmp # None
    BY <1>1, <1>2, <1>5 DEF Open, history, IInv, TypeOK, Descriptors
  <1> QED BY <1>4, <1>5

LEMMA OpenInv ==
  ASSUME IInv, NEW s \in Saver, Open(s)
  PROVE  IInv'
  <1>0. pc[s] = "open"  BY DEF Open
  <1>1. TypeOK'
    <2>1. Empty \in Document  BY DEF Empty, Document
    <2>2. content' \in [Inode -> Document]
      BY <2>1, OpenFacts, ContentType DEF IInv, TypeOK, Document
    <2> QED BY <2>2, OpenFacts DEF IInv, TypeOK, Document
  <1>2. Descriptors'  BY OpenFacts DEF IInv, Descriptors, TypeOK
  <1>3. InPlace'  BY OpenFacts DEF IInv, InPlace, TypeOK
  <1>4. Undisturbed'
    <2> SUFFICES ASSUME NEW u \in Saver, alone' = u
                 PROVE  Undisturbed!(u)!2'
      BY DEF Undisturbed
    <2>1. alone = u /\ pc[u] # "idle" /\ \A t \in Saver \ {u} : pc[t] = "idle"
      BY OpenFacts DEF IInv, Undisturbed
    <2>2. u = s  BY <1>0, <2>1
    <2>3. pc'[s] = "write" /\ fd'[s] = tmp' /\ content'[tmp'] = Empty
      BY OpenFacts DEF IInv, TypeOK
    <2>4. \A t \in Saver \ {s} : pc'[t] = pc[t]  BY OpenFacts DEF IInv, TypeOK
    <2>5. ~unsaved' => list'[u] = registry'
      <3>1. ~unsaved => list[u] = registry  BY <2>1 DEF IInv, Undisturbed
      <3> QED BY <3>1, OpenFacts
    <2> QED BY <2>1, <2>2, <2>3, <2>4, <2>5 DEF Empty
  <1>5. RecordedWhenQuiet'
    <2>1. pc'[s] # "idle"  BY OpenFacts DEF IInv, TypeOK
    <2> QED BY <2>1 DEF RecordedWhenQuiet
  <1> QED BY <1>1, <1>2, <1>3, <1>4, <1>5 DEF IInv

\* A writer changes no inode but the one it has open.
LEMMA WriterFile ==
  ASSUME IInv, NEW s \in Saver, pc[s] \in {"write", "close"}
  PROVE  /\ fd[s] \in Inode
         /\ sound => fd[s] # json
         /\ \A u \in Saver : alone = u => u = s /\ fd[s] = tmp /\ content[tmp].ids = {}
  <1>1. fd[s] \in Inode  BY DEF IInv, TypeOK, Descriptors
  <1>2. sound => fd[s] # json  BY <1>1, InodeFacts DEF IInv, InPlace
  <1>3. ASSUME NEW u \in Saver, alone = u
        PROVE  u = s /\ fd[s] = tmp /\ content[tmp].ids = {}
    BY <1>3 DEF IInv, Undisturbed
  <1> QED BY <1>1, <1>2, <1>3

LEMMA BeginWriteInv ==
  ASSUME IInv, NEW s \in Saver, BeginWrite(s)
  PROVE  IInv'
  <1> USE DEF BeginWrite, history
  <1>1. TypeOK'
    <2>1. content' = [content EXCEPT ![fd[s]] = [content[fd[s]] EXCEPT !.whole = FALSE]]
      OBVIOUS
    <2>2. [content[fd[s]] EXCEPT !.whole = FALSE] \in Document
      <3>1. fd[s] \in Inode  BY WriterFile
      <3>2. content[fd[s]] \in Document  BY <3>1 DEF IInv, TypeOK, Document
      <3> QED BY <3>2 DEF Document
    <2>3. content' \in [Inode -> Document]
      BY WriterFile, <2>1, <2>2, ContentType DEF IInv, TypeOK, Document
    <2> QED BY <2>3 DEF IInv, TypeOK, Document
  <1>2. Descriptors'  BY DEF IInv, Descriptors, TypeOK
  <1>3. InPlace'  BY WriterFile DEF IInv, InPlace, TypeOK
  <1>4. Undisturbed'  BY WriterFile DEF IInv, Undisturbed, TypeOK
  <1>5. RecordedWhenQuiet'
    <2>1. pc'[s] # "idle"  BY DEF IInv, TypeOK
    <2> QED BY <2>1 DEF RecordedWhenQuiet
  <1> QED BY <1>1, <1>2, <1>3, <1>4, <1>5 DEF IInv

LEMMA EndWriteInv ==
  ASSUME IInv, NEW s \in Saver, EndWrite(s)
  PROVE  IInv'
  <1> USE DEF EndWrite, history
  <1>0. list[s] \in SUBSET Account  BY DEF IInv, TypeOK
  <1>1. TypeOK'
    <2>1. content' \in [Inode -> Document]
      BY <1>0, WriterFile, WrittenType, ContentType DEF IInv, TypeOK, Document
    <2> QED BY <2>1 DEF IInv, TypeOK, Document
  <1>2. Descriptors'  BY DEF IInv, Descriptors, TypeOK
  <1>3. InPlace'  BY WriterFile, InodeFacts DEF IInv, InPlace, TypeOK
  <1>4. Undisturbed'
    <2> SUFFICES ASSUME NEW u \in Saver, alone' = u
                 PROVE  Undisturbed!(u)!2'
      BY DEF Undisturbed
    <2>1. u = s /\ fd[s] = tmp /\ fd[s] \in Inode /\ content[tmp].ids = {}
      BY WriterFile
    <2>2. content'[tmp'] = [whole |-> TRUE, ids |-> list'[s]]
      BY <1>0, <2>1, WrittenWhole DEF IInv, TypeOK
    <2>3. pc'[s] = "rename" /\ tmp' # None
      BY <2>1, InodeFacts DEF IInv, TypeOK
    <2>4. \A t \in Saver \ {s} : pc'[t] = "idle"
      BY <2>1 DEF IInv, TypeOK, Undisturbed
    <2>5. ~unsaved' => list'[u] = registry'  BY DEF IInv, Undisturbed
    <2> QED BY <2>1, <2>2, <2>3, <2>4, <2>5
  <1>5. RecordedWhenQuiet'
    <2>1. pc'[s] # "idle"  BY DEF IInv, TypeOK
    <2> QED BY <2>1 DEF RecordedWhenQuiet
  <1> QED BY <1>1, <1>2, <1>3, <1>4, <1>5 DEF IInv

LEMMA SaveFailsInv ==
  ASSUME IInv, NEW s \in Saver, SaveFails(s)
  PROVE  IInv'
  <1> USE DEF SaveFails, End, files
  <1>1. TypeOK'  BY DEF IInv, TypeOK
  <1>2. Descriptors'  BY DEF IInv, Descriptors, TypeOK
  <1>3. InPlace'  BY InodeFacts DEF IInv, InPlace, TypeOK
  <1>4. Undisturbed'  BY FileAssumption DEF Undisturbed
  <1>5. RecordedWhenQuiet'  BY DEF RecordedWhenQuiet
  <1> QED BY <1>1, <1>2, <1>3, <1>4, <1>5 DEF IInv

\* The rename of a save that nothing overlapped puts what it copied on disk.
LEMMA RenameCommits ==
  ASSUME IInv, NEW s \in Saver, Rename(s), alone = s
  PROVE  /\ content'[json'].whole
         /\ LoadInstance' = list[s]
         /\ ~unsaved => list[s] = registry
         /\ \A t \in Saver \ {s} : pc[t] = "idle"
  <1>1. /\ tmp # None /\ content[tmp] = [whole |-> TRUE, ids |-> list[s]]
        /\ ~unsaved => list[s] = registry
        /\ \A t \in Saver \ {s} : pc[t] = "idle"
    BY DEF IInv, Undisturbed, Rename
  <1>2. json' = tmp /\ content' = content  BY DEF Rename
  <1> QED BY <1>1, <1>2 DEF LoadInstance

LEMMA RenameInv ==
  ASSUME IInv, NEW s \in Saver, Rename(s)
  PROVE  IInv'
  <1> USE DEF Rename, End
  <1>1. TypeOK'  BY DEF IInv, TypeOK
  <1>2. Descriptors'  BY DEF IInv, Descriptors, TypeOK
  <1>3. InPlace'
    <2> SUFFICES ASSUME sound'
                 PROVE  content'[json'].whole /\ \A t \in Saver : fd'[t] # json'
      BY DEF InPlace
    <2>1. alone = s  OBVIOUS
    <2>2. \A t \in Saver : fd'[t] = None
      BY <2>1, RenameCommits DEF IInv, TypeOK, Descriptors
    <2> QED BY <2>1, <2>2, RenameCommits
  <1>4. Undisturbed'  BY FileAssumption DEF Undisturbed
  <1>5. RecordedWhenQuiet'
    <2> SUFFICES ASSUME sound', ~unsaved'
                 PROVE  LoadInstance' = registry'
      BY DEF RecordedWhenQuiet
    <2>1. alone = s /\ ~unsaved /\ registry' = registry  OBVIOUS
    <2>2. LoadInstance' = list[s] /\ list[s] = registry  BY <2>1, RenameCommits
    <2> QED BY <2>1, <2>2
  <1> QED BY <1>1, <1>2, <1>3, <1>4, <1>5 DEF IInv

LEMMA RestartKeeps ==
  ASSUME IInv, Restart
  PROVE  LoadInstance' = LoadInstance
  BY DEF Restart, LoadInstance

LEMMA RestartInv ==
  ASSUME IInv, Restart
  PROVE  IInv'
  <1> USE DEF Restart
  <1>1. LoadInstance \subseteq Account  BY DEF IInv, TypeOK, LoadInstance
  <1>2. TypeOK'  BY <1>1 DEF IInv, TypeOK
  <1>3. Descriptors'  BY DEF IInv, Descriptors
  <1>4. InPlace'  BY DEF IInv, InPlace
  <1>5. Undisturbed'  BY FileAssumption DEF Undisturbed
  <1>6. RecordedWhenQuiet'  BY RestartKeeps DEF RecordedWhenQuiet
  <1> QED BY <1>2, <1>3, <1>4, <1>5, <1>6 DEF IInv

LEMMA NextInv ==
  ASSUME IInv, [Next]_vars
  PROVE  IInv'
  <1>1. CASE Restart  BY <1>1, RestartInv
  <1>2. CASE Change  BY <1>2, ChangeInv
  <1>3. CASE \E s \in Saver : Save(s)
    BY <1>3, SnapshotInv, OpenInv, BeginWriteInv, EndWriteInv, SaveFailsInv, RenameInv
       DEF Save
  <1>4. CASE UNCHANGED vars
    BY <1>4 DEF vars, files, savers, history, IInv, TypeOK, Descriptors, Undisturbed,
         InPlace, RecordedWhenQuiet, LoadInstance
  <1> QED BY <1>1, <1>2, <1>3, <1>4 DEF Next

LEMMA Invariance == Spec => []IInv
  <1>1. Init => IInv  BY InitInv
  <1>2. IInv /\ [Next]_vars => IInv'  BY NextInv
  <1> QED BY <1>1, <1>2, PTL DEF Spec

-----------------------------------------------------------------------------
(***************************************************************************)
(* Type correctness of SaveInstances and LoadInstance, for every number of *)
(* goroutines that save: among others, there is always an inode to create  *)
(* the temporary file with.                                                *)
(***************************************************************************)
THEOREM TypeCorrect == Spec => []TypeOK
  <1>1. IInv => TypeOK  BY DEF IInv
  <1> QED BY <1>1, Invariance, PTL

(***************************************************************************)
(* instances.json is a complete document from the rename of a save that no *)
(* other one overlapped until the next rename, whatever saves begin,       *)
(* overlap, fail or are killed in between: only the rename itself can put  *)
(* a torn file in place.                                                   *)
(***************************************************************************)
THEOREM FileNeverTorn == Spec => [](sound => NeverTorn)
  <1>1. IInv => (sound => NeverTorn)  BY DEF IInv, InPlace, NeverTorn
  <1> QED BY <1>1, Invariance, PTL

(***************************************************************************)
(* When no save is under way and the last change of the registry was       *)
(* followed by a save that overlapped no other and did not fail, the file  *)
(* records the registry.                                                   *)
(***************************************************************************)
THEOREM FileRecords == Spec => []RecordedWhenQuiet
  <1>1. IInv => RecordedWhenQuiet  BY DEF IInv
  <1> QED BY <1>1, Invariance, PTL

-----------------------------------------------------------------------------
taken == {list[s] : s \in {t \in Saver : pc[t] # "idle"}}

LEMMA AbstractInit == Init => Abstract!Init
  BY DEF Init, Abstract!Init, LoadInstance

\* A step that leaves the names and the file in place alone leaves the disk.
LEMMA SameDisk ==
  ASSUME json' = json, json # None => content'[json] = content[json]
  PROVE  LoadInstance' = LoadInstance
  BY DEF LoadInstance

\* Every step is one of the abstract registry's, or invisible there.
LEMMA AbstractStep ==
  ASSUME IInv, [Next]_vars
  PROVE  [Abstract!Next]_<<registry, LoadInstance, taken, sound>>
  <1> DEFINE avars == <<registry, LoadInstance, taken, sound>>
  <1>0. LoadInstance' \subseteq Account
    <2>1. TypeOK'  BY NextInv DEF IInv
    <2> QED BY <2>1 DEF TypeOK, LoadInstance
  <1>1. CASE Restart
    <2>0. \A t \in Saver : pc'[t] = "idle"  BY <1>1 DEF Restart
    <2>1. taken' = {}  BY <2>0 DEF taken
    <2>2. Abstract!Restart
      BY <1>1, <2>1, RestartKeeps DEF Restart, Abstract!Restart, taken
    <2> QED BY <2>2 DEF Abstract!Next
  <1>2. CASE Change
    <2>1. LoadInstance' = LoadInstance /\ taken' = taken
      BY <1>2 DEF Change, files, savers, LoadInstance, taken
    <2>2. Abstract!Change  BY <1>2, <2>1 DEF Change, Abstract!Change, taken
    <2> QED BY <2>2 DEF Abstract!Next
  <1>3. ASSUME NEW s \in Saver, Snapshot(s)
        PROVE  Abstract!Take
    <2>1. LoadInstance' = LoadInstance
      BY <1>3 DEF Snapshot, files, LoadInstance
    <2>2. pc' = [pc EXCEPT ![s] = "open"] /\ list' = [list EXCEPT ![s] = registry]
          /\ pc[s] = "idle"
      BY <1>3 DEF Snapshot, Begin
    <2>3. taken' = taken \cup {registry}
      BY <2>2 DEF taken, IInv, TypeOK
    <2> QED BY <1>3, <2>1, <2>3 DEF Snapshot, Abstract!Take, taken
  <1>4. ASSUME NEW s \in Saver, Open(s)
        PROVE  UNCHANGED avars
    <2>1. LoadInstance' = LoadInstance
      BY <1>4, OpenFacts, SameDisk DEF IInv, TypeOK
    <2>2. taken' = taken
      BY <1>4, OpenFacts DEF taken, Open, IInv, TypeOK
    <2> QED BY <1>4, <2>1, <2>2, OpenFacts
  <1>5. ASSUME NEW s \in Saver, BeginWrite(s) \/ EndWrite(s)
        PROVE  [Abstract!Next]_avars
    <2>1. pc[s] \in {"write", "close"} /\ json' = json
      BY <1>5 DEF BeginWrite, EndWrite
    <2>2. taken' = taken  BY <1>5 DEF taken, BeginWrite, EndWrite, IInv, TypeOK
    <2>3. UNCHANGED <<registry, sound>>  BY <1>5 DEF BeginWrite, EndWrite, history
    <2>4. CASE sound
      <3>1. json # None => content'[json] = content[json]
        BY <1>5, <2>1, <2>4, WriterFile DEF BeginWrite, EndWrite, IInv, TypeOK
      <3> QED BY <2>1, <2>2, <2>3, <3>1, SameDisk
    <2>5. CASE ~sound
      BY <1>0, <2>2, <2>3, <2>5 DEF Abstract!Drift, Abstract!Next, taken
    <2> QED BY <2>4, <2>5
  <1>6. ASSUME NEW s \in Saver, SaveFails(s)
        PROVE  Abstract!Drop
    <2>1. LoadInstance' = LoadInstance
      BY <1>6 DEF SaveFails, files, LoadInstance
    <2>2. taken' \subseteq taken  BY <1>6 DEF taken, SaveFails, End, IInv, TypeOK
    <2> QED BY <1>6, <2>1, <2>2 DEF SaveFails, Abstract!Drop, taken
  <1>7. ASSUME NEW s \in Saver, Rename(s)
        PROVE  Abstract!Commit \/ Abstract!Clash
    <2>1. taken' \subseteq taken  BY <1>7 DEF taken, Rename, End, IInv, TypeOK
    <2>2. registry' = registry  BY <1>7 DEF Rename
    <2>3. CASE alone = s
      <3>1. LoadInstance' = list[s] /\ pc[s] # "idle"
        BY <1>7, <2>3, RenameCommits DEF Rename
      <3>2. LoadInstance' \in taken  BY <3>1 DEF taken
      <3>3. \A t \in Saver : pc'[t] = "idle"
        BY <1>7, <2>3, RenameCommits DEF Rename, End, IInv, TypeOK
      <3>4. taken' = {}  BY <3>3 DEF taken
      <3>5. sound' = TRUE  BY <1>7, <2>3 DEF Rename
      <3> QED BY <2>2, <3>2, <3>4, <3>5 DEF Abstract!Commit, taken
    <2>4. CASE alone # s
      <3>1. sound' = FALSE  BY <1>7, <2>4 DEF Rename
      <3> QED BY <1>0, <2>1, <2>2, <3>1 DEF Abstract!Clash, taken
    <2> QED BY <2>3, <2>4
  <1>8. CASE \E s \in Saver : Save(s)
    BY <1>3, <1>4, <1>5, <1>6, <1>7, <1>8 DEF Save, Abstract!Next
  <1>9. CASE UNCHANGED vars
    BY <1>9 DEF vars, files, savers, history, LoadInstance, taken
  <1> QED BY <1>1, <1>2, <1>8, <1>9 DEF Next

(***************************************************************************)
(* SaveInstances implements its abstract specification for every number of *)
(* goroutines: the steps on the temporary file are invisible, the rename   *)
(* of a save that nothing overlapped puts what it copied on disk, however  *)
(* the registry has changed since, and a restart brings back what is there.*)
(***************************************************************************)
THEOREM Atomicity == Spec => SavesAreAtomic
  <1>1. Init => Abstract!Init  BY AbstractInit
  <1>2. IInv /\ [Next]_vars => [Abstract!Next]_<<registry, LoadInstance, taken, sound>>
    BY AbstractStep
  <1> QED BY <1>1, <1>2, Invariance, PTL
      DEF Spec, SavesAreAtomic, Abstract!Spec, Abstract!vars, taken

=============================================================================
