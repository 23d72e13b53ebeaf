----------------------------- MODULE RegistryFile -----------------------------
(***************************************************************************)
(* SaveInstances and LoadInstance (instance.go) at the level of file       *)
(* system calls.  A saver is a goroutine in SaveInstances: finishing a     *)
(* login, a logout, an account-failure handler, wrapperDown.  instancesMu  *)
(* is held for the copy of the registry only, so that nothing orders       *)
(* savers, and the registry changes at any time, under them and by         *)
(* goroutines that never save (WrapperStart, wrapperDown before a          *)
(* restart).  Names in data/ refer to inodes: os.WriteFile opens the inode *)
(* that instances.json.tmp names at that moment and keeps writing to it    *)
(* when it is renamed.  The manager may be killed between any two calls;   *)
(* the operating system keeps running.                                     *)
(***************************************************************************)
EXTENDS Naturals, FiniteSets

CONSTANTS
  Account,   \* instance ids
  Saver,     \* goroutines that save
  None       \* no inode

ASSUME FileAssumption ==
  IsFiniteSet(Account) /\ IsFiniteSet(Saver) /\ None \notin Nat /\ None \notin Saver

Inode == 1 .. Cardinality(Saver) + 2

VARIABLES
  registry,  \* the accounts in Instances
  tmp,       \* inode named data/instances.json.tmp
  json,      \* inode named data/instances.json
  content,   \* what every inode holds
  pc,        \* control state of every saver
  list,      \* its snapshot of the registry
  fd,        \* its open file
  alone,     \* history: the save under way, if none has overlapped it
  sound,     \* history: the last rename was by a save that none overlapped
  unsaved    \* history: the registry changed, or a save failed, since the last copy

files == <<tmp, json, content>>
savers == <<pc, list, fd>>
history == <<alone, sound, unsaved>>
vars == <<registry, files, savers, history>>

Empty == [whole |-> FALSE, ids |-> {}]   \* truncated, half-written or mixed

(***************************************************************************)
(* Type correctness.                                                       *)
(***************************************************************************)
TypeOK ==
  /\ registry \subseteq Account
  /\ tmp \in Inode \cup {None} /\ json \in Inode \cup {None}
  /\ content \in [Inode -> [whole: BOOLEAN, ids: SUBSET Account]]
  /\ pc \in [Saver -> {"idle", "open", "write", "close", "rename"}]
  /\ list \in [Saver -> SUBSET Account]
  /\ fd \in [Saver -> Inode \cup {None}]
  /\ alone \in Saver \cup {None}
  /\ sound \in BOOLEAN /\ unsaved \in BOOLEAN

\* The first start: there is no registry file.
Init ==
  /\ registry = {}
  /\ tmp = None /\ json = None
  /\ content = [n \in Inode |-> Empty]
  /\ pc = [s \in Saver |-> "idle"]
  /\ list = [s \in Saver |-> {}]
  /\ fd = [s \in Saver |-> None]
  /\ alone = None /\ sound = TRUE /\ unsaved = FALSE

-----------------------------------------------------------------------------
\* InsertInstance or RemoveInstance, by any goroutine.
Change ==
  /\ \E a \in Account : registry' \in {registry \cup {a}, registry \ {a}}
  /\ unsaved' = TRUE
  /\ UNCHANGED <<files, savers, alone, sound>>

\* A save begins: it overlaps the ones that are under way.
Begin(s) ==
  /\ pc[s] = "idle"
  /\ pc' = [pc EXCEPT ![s] = "open"]
  /\ alone' = IF \A t \in Saver : pc[t] = "idle" THEN s ELSE None

\* Mutant: the list is made with a length, not a capacity, and appended to:
\* it starts with zero entries.
SnapshotPadded(s) ==
  /\ Begin(s)
  /\ list' = [list EXCEPT ![s] = registry \cup {None}]
  /\ unsaved' = FALSE
  /\ UNCHANGED <<registry, files, fd, sound>>

\* The copy of the registry, under instancesMu, and its JSON.
Snapshot(s) ==
  /\ Begin(s)
  /\ list' = [list EXCEPT ![s] = registry]
  /\ unsaved' = FALSE
  /\ UNCHANGED <<registry, files, fd, sound>>

\* Mutant: the registry file itself is opened and truncated.
OpenInPlace(s) ==
  /\ pc[s] = "open"
  /\ LET used == {tmp, json} \cup {fd[t] : t \in Saver}
         n == IF json # None THEN json ELSE CHOOSE m \in Inode : m \notin used
     IN /\ tmp' = n
        /\ fd' = [fd EXCEPT ![s] = n]
        /\ content' = [content EXCEPT ![n] = Empty]
  /\ pc' = [pc EXCEPT ![s] = "write"]
  /\ UNCHANGED <<registry, json, list, history>>

\* os.WriteFile opens the temporary file, O_CREATE|O_TRUNC.
Open(s) ==
  /\ pc[s] = "open"
  /\ LET used == {tmp, json} \cup {fd[t] : t \in Saver}
         n == IF tmp # None THEN tmp ELSE CHOOSE m \in Inode : m \notin used
     IN /\ tmp' = n
        /\ fd' = [fd EXCEPT ![s] = n]
        /\ content' = [content EXCEPT ![n] = Empty]
  /\ pc' = [pc EXCEPT ![s] = "write"]
  /\ UNCHANGED <<registry, json, list, history>>

\* It writes from offset 0; until it is through the file is no JSON document.
BeginWrite(s) ==
  /\ pc[s] = "write"
  /\ content' = [content EXCEPT ![fd[s]].whole = FALSE]
  /\ pc' = [pc EXCEPT ![s] = "close"]
  /\ UNCHANGED <<registry, tmp, json, list, fd, history>>

\* The document is complete unless another saver wrote a longer one to the
\* same inode, whose tail then follows it: its length grows with its accounts.
Written(n, ids) ==
  IF Cardinality(content[n].ids) > Cardinality(ids)
  THEN [whole |-> FALSE, ids |-> content[n].ids]
  ELSE [whole |-> TRUE, ids |-> ids]

EndWrite(s) ==
  /\ pc[s] = "close"
  /\ content' = [content EXCEPT ![fd[s]] = Written(fd[s], list[s])]
  /\ fd' = [fd EXCEPT ![s] = None]
  /\ pc' = [pc EXCEPT ![s] = "rename"]
  /\ UNCHANGED <<registry, tmp, json, list, history>>

\* The save ends.
End(s) ==
  /\ fd' = [fd EXCEPT ![s] = None]
  /\ list' = [list EXCEPT ![s] = {}]
  /\ pc' = [pc EXCEPT ![s] = "idle"]
  /\ alone' = None

\* An error of WriteFile or Rename is logged.
SaveFails(s) ==
  /\ pc[s] # "idle"
  /\ End(s)
  /\ unsaved' = TRUE
  /\ UNCHANGED <<registry, files, sound>>

\* Mutant: an existing registry file is kept.
RenameOnce(s) ==
  /\ pc[s] = "rename" /\ tmp # None
  /\ json' = IF json = None THEN tmp ELSE json
  /\ tmp' = None
  /\ sound' = (alone = s)
  /\ End(s)
  /\ UNCHANGED <<registry, content, unsaved>>

\* os.Rename replaces instances.json by whatever the name .tmp refers to; it
\* fails (SaveFails) when another saver has renamed it away.
Rename(s) ==
  /\ pc[s] = "rename" /\ tmp # None
  /\ json' = tmp
  /\ tmp' = None
  /\ sound' = (alone = s)
  /\ End(s)
  /\ UNCHANGED <<registry, content, unsaved>>

-----------------------------------------------------------------------------
\* Mutant: the temporary file of an interrupted save is taken over.
LoadTmp ==
  CASE tmp # None -> content[tmp].ids
    [] tmp = None /\ json # None -> content[json].ids
    [] OTHER -> {}

\* What LoadInstance returns: nothing for a missing or a corrupted file.  An
\* existing file that cannot be read also gives nothing; reads do not fail here.
LoadInstance == IF json # None /\ content[json].whole THEN content[json].ids ELSE {}

\* The manager is killed, starts again and restores what the file holds; a
\* corrupted file is renamed to instances.json.corrupt.
Restart ==
  /\ registry' = LoadInstance
  /\ json' = IF json # None /\ content[json].whole THEN json ELSE None
  /\ pc' = [s \in Saver |-> "idle"]
  /\ fd' = [s \in Saver |-> None]
  /\ list' = [s \in Saver |-> {}]
  /\ alone' = None /\ unsaved' = FALSE
  /\ UNCHANGED <<tmp, content, sound>>

Save(s) ==
  Snapshot(s) \/ Open(s) \/ BeginWrite(s) \/ EndWrite(s) \/ SaveFails(s) \/ Rename(s)

Next == Restart \/ Change \/ \E s \in Saver : Save(s)

Spec == Init /\ [][Next]_vars

-----------------------------------------------------------------------------
(***************************************************************************)
(* instance.go: "Atomic write: temp file + rename avoids a truncated       *)
(* registry on crash": instances.json is a complete document at all times, *)
(* so that LoadInstance never finds it corrupted.                          *)
(***************************************************************************)
NeverTorn == json # None => content[json].whole

(***************************************************************************)
(* Every change reaches the file: when no save is under way and the last   *)
(* change was followed by one that did not fail, the file records the      *)
(* registry, whatever saves overlapped, failed or were cut off before, if  *)
(* that last save overlapped no other.                                     *)
(***************************************************************************)
RecordedWhenQuiet ==
  (\A s \in Saver : pc[s] = "idle") /\ sound /\ ~unsaved => LoadInstance = registry

(***************************************************************************)
(* All or nothing: a save that overlaps no other is atomic, and repairs    *)
(* what overlapping ones left.  Whatever a kill interrupts, whichever call *)
(* fails and however the registry changes meanwhile, the file system's     *)
(* names, inodes and half-written contents amount to one set of accounts   *)
(* on disk, which becomes the set that the save had copied in the step     *)
(* that renames the file.                                                  *)
(***************************************************************************)
Abstract == INSTANCE AtomicRegistry
  WITH disk <- LoadInstance,
       taken <- {list[s] : s \in {t \in Saver : pc[t] # "idle"}}

SavesAreAtomic == Abstract!Spec

=============================================================================
