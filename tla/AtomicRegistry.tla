--------------------------- MODULE AtomicRegistry ---------------------------
(***************************************************************************)
(* What the manager relies on when it calls SaveInstances and LoadInstance *)
(* (instance.go): a save that overlaps no other one puts the accounts it   *)
(* copied on disk all at once, and a start brings back what is on disk.    *)
(* The registry changes at any time, by goroutines that save and by others.*)
(* Saves that overlap promise nothing until the next one that does not.    *)
(***************************************************************************)
CONSTANT Account   \* instance ids

VARIABLES
  registry,  \* the accounts in Instances
  disk,      \* the accounts a start would restore
  taken,     \* what the saves under way have copied
  sound      \* the last save to reach the disk overlapped no other

vars == <<registry, disk, taken, sound>>

Init == registry = {} /\ disk = {} /\ taken = {} /\ sound = TRUE

\* InsertInstance or RemoveInstance.
Change ==
  /\ \E a \in Account : registry' \in {registry \cup {a}, registry \ {a}}
  /\ UNCHANGED <<disk, taken, sound>>

\* A save copies the registry.
Take ==
  /\ taken' = taken \cup {registry}
  /\ UNCHANGED <<registry, disk, sound>>

\* A save ends without effect.
Drop ==
  /\ taken' \subseteq taken
  /\ UNCHANGED <<registry, disk, sound>>

\* A save that overlaps no other takes effect.
Commit ==
  /\ disk' \in taken
  /\ taken' = {}
  /\ sound' = TRUE
  /\ UNCHANGED registry

\* Saves overlap: what they leave on disk is not promised.
Clash ==
  /\ disk' \subseteq Account
  /\ taken' \subseteq taken
  /\ sound' = FALSE
  /\ UNCHANGED registry

Drift ==
  /\ ~sound
  /\ disk' \subseteq Account
  /\ UNCHANGED <<registry, taken, sound>>

\* The manager is killed and starts again.
Restart ==
  /\ registry' = disk
  /\ taken' = {}
  /\ UNCHANGED <<disk, sound>>

Next == Change \/ Take \/ Drop \/ Commit \/ Clash \/ Drift \/ Restart

Spec == Init /\ [][Next]_vars

=============================================================================
