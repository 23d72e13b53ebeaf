------------------------------- MODULE Payload -------------------------------
(***************************************************************************)
(* Download and installation of the wrapper-lite payload (wrapper.go) by   *)
(* the manager at its start (main, PrepareWrapper) and by a second process *)
(* run with -update-wrapper (UpdateWrapper).  Both write the same archive  *)
(* in data/ and the same files; nothing keeps them apart, and each may be  *)
(* killed between any two of its steps.  Writes of two installs that       *)
(* overlap may come out whole or spoiled.  The archive lists Entries files *)
(* in a fixed order and is extracted in that order.                        *)
(***************************************************************************)
EXTENDS Naturals, FiniteSets

CONSTANTS
  Entries,   \* number of files in the archive
  Probed,    \* the launcher and rootfs/system/bin/lite
  Versions,  \* number of nightly builds published
  None       \* no such file

ASSUME EntriesAssumption == Entries \in Nat /\ Versions \in Nat \ {0}
ASSUME ProbedAssumption == Probed \subseteq 1 .. Entries /\ Probed # {}

VARIABLES
  nightly,  \* the build that nightly.link serves
  zip,      \* the archive in data/
  file,     \* what every file of the payload holds
  pc,       \* control state of both processes
  src,      \* the build a process has downloaded or is extracting
  entry,    \* the file it extracts next
  busy,     \* services execute the payload's binaries
  mixed,    \* the installs under way have overlapped
  partial   \* history: files were touched, and no install has completed since
            \* without another one beside it

payloadVars == <<nightly, zip, file, pc, src, entry, busy, mixed, partial>>

Process == {"manager", "updater"}
Entry == 1 .. Entries
Build == 1 .. Versions
Torn == 0             \* no whole file of any build
Content == Build \cup {None, Torn}

PayloadTypeOK ==
  /\ nightly \in Build
  /\ zip \in Content
  /\ file \in [Entry -> Content]
  /\ pc \in [Process -> {"off", "get", "store", "unzip", "entry", "copy", "serve"}]
  /\ pc["updater"] # "serve"
  /\ src \in [Process -> Build]
  /\ entry \in [Process -> 1 .. Entries + 1]
  /\ busy \in BOOLEAN /\ mixed \in BOOLEAN /\ partial \in BOOLEAN

NoFiles == [e \in Entry |-> None]

PayloadInit ==
  /\ nightly = 1
  /\ zip = None /\ file = NoFiles
  /\ pc = [p \in Process |-> "off"]
  /\ src = [p \in Process |-> 1]
  /\ entry = [p \in Process |-> 1]
  /\ busy = FALSE /\ mixed = FALSE /\ partial = FALSE

-----------------------------------------------------------------------------
Installing(p) == pc[p] \notin {"off", "serve"}

wrapperPayloadReady == \A e \in Probed : file[e] # None

\* What a write of build v leaves behind.
Outcome(v) == {v} \cup (IF mixed THEN {Torn} ELSE {})

\* Process p goes on at label l; installs overlap from the moment both run.
GoTo(p, l) ==
  /\ pc' = [pc EXCEPT ![p] = l]
  /\ mixed' = LET now == {q \in Process : pc'[q] \notin {"off", "serve"}}
              IN now = Process \/ (mixed /\ now # {})

\* main: the payload is there, or PrepareWrapper is called; with -prepare the
\* process ends here.
Main ==
  /\ pc["manager"] = "off"
  /\ IF wrapperPayloadReady
     THEN \E l \in {"serve", "off"} : GoTo("manager", l)
     ELSE GoTo("manager", "get")
  /\ UNCHANGED <<nightly, zip, file, src, entry, busy, partial>>

\* main with -update-wrapper: always downloads.
UpdateWrapper ==
  /\ pc["updater"] = "off"
  /\ GoTo("updater", "get")
  /\ UNCHANGED <<nightly, zip, file, src, entry, busy, partial>>

\* downloadWrapperLite has read the body and truncates the archive.
Download(p) ==
  /\ pc[p] = "get"
  /\ src' = [src EXCEPT ![p] = nightly]
  /\ zip' = Torn
  /\ GoTo(p, "store")
  /\ UNCHANGED <<nightly, file, entry, busy, partial>>

StoreZip(p) ==
  /\ pc[p] = "store"
  /\ zip' \in Outcome(src[p])
  /\ GoTo(p, "unzip")
  /\ UNCHANGED <<nightly, file, src, entry, busy, partial>>

\* extractZip opens the archive, which must be one.
OpenZip(p) ==
  /\ pc[p] = "unzip" /\ zip \in Build
  /\ src' = [src EXCEPT ![p] = zip]
  /\ entry' = [entry EXCEPT ![p] = 1]
  /\ GoTo(p, "entry")
  /\ UNCHANGED <<nightly, zip, file, busy, partial>>

\* A binary that is being executed cannot be opened for writing.
Writable(e) == ~(busy /\ e \in Probed)

\* os.OpenFile with O_TRUNC.
OpenEntry(p) ==
  /\ pc[p] = "entry" /\ entry[p] <= Entries
  /\ Writable(entry[p])
  /\ file' = [file EXCEPT ![entry[p]] = Torn]
  /\ partial' = TRUE
  /\ GoTo(p, "copy")
  /\ UNCHANGED <<nightly, zip, src, entry, busy>>

\* Mutant: an error of io.Copy is not looked at.
CopyEntryAnyhow(p) ==
  /\ pc[p] = "copy"
  /\ \E c \in {src[p], Torn} : file' = [file EXCEPT ![entry[p]] = c]
  /\ entry' = [entry EXCEPT ![p] = @ + 1]
  /\ GoTo(p, "entry")
  /\ UNCHANGED <<nightly, zip, src, busy, partial>>

\* io.Copy has written the whole file.
CopyEntry(p) ==
  /\ pc[p] = "copy"
  /\ \E c \in Outcome(src[p]) : file' = [file EXCEPT ![entry[p]] = c]
  /\ entry' = [entry EXCEPT ![p] = @ + 1]
  /\ GoTo(p, "entry")
  /\ UNCHANGED <<nightly, zip, src, busy, partial>>

\* Mutant: main does not exit after the update.
InstalledGoesOn(p) ==
  /\ pc[p] = "entry" /\ entry[p] > Entries
  /\ \E l \in {"serve", "off"} : GoTo(p, l)
  /\ partial' = mixed
  /\ UNCHANGED <<nightly, zip, file, src, entry, busy>>

\* installWrapperLite returns.  The updater exits, the manager goes on.
Installed(p) ==
  /\ pc[p] = "entry" /\ entry[p] > Entries
  /\ \E l \in {"serve", "off"} : (p = "updater" => l = "off") /\ GoTo(p, l)
  /\ partial' = mixed
  /\ UNCHANGED <<nightly, zip, file, src, entry, busy>>

\* Any call fails: PrepareWrapper panics, UpdateWrapper exits with an error.
InstallFails(p) ==
  /\ Installing(p)
  /\ GoTo(p, "off")
  /\ UNCHANGED <<nightly, zip, file, src, entry, busy, partial>>

\* The process is killed, or the manager is stopped: main does not stop the
\* services, which go on executing.
Kill(p) ==
  /\ pc[p] # "off"
  /\ GoTo(p, "off")
  /\ UNCHANGED <<nightly, zip, file, src, entry, busy, partial>>

Install(p) ==
  \/ Download(p) \/ StoreZip(p) \/ OpenZip(p)
  \/ OpenEntry(p) \/ CopyEntry(p) \/ Installed(p) \/ InstallFails(p)

\* Services start (under a manager) and end.
ServicesChange ==
  /\ busy \/ pc["manager"] = "serve"
  /\ busy' = ~busy
  /\ UNCHANGED <<nightly, zip, file, pc, src, entry, mixed, partial>>

\* A new build replaces the artifact.
Publish ==
  /\ nightly < Versions
  /\ nightly' = nightly + 1
  /\ UNCHANGED <<zip, file, pc, src, entry, busy, mixed, partial>>

=============================================================================
