-------------------------- MODULE DeploymentProofs --------------------------
(***************************************************************************)
(* Proofs about Deployment, for every number of files and builds, every    *)
(* pair of probed files and every set of hosts.  The invariant is built    *)
(* from one of the payload's, one of the launcher's and what ties the two. *)
(***************************************************************************)
EXTENDS Deployment, TLAPS

PayloadPc == {"off", "get", "store", "unzip", "entry", "copy", "serve"}

\* Installs that run at the same time are marked as mixed.
Overlap == (\A p \in Process : Installing(p)) => mixed

\* A file is being written only while the payload is partial.
Copying == \A p \in Process : pc[p] = "copy" => entry[p] <= Entries /\ partial

\* An install that is alone has written the files before its entry.
Written ==
  \A p \in Process : pc[p] \in {"entry", "copy"} /\ ~mixed =>
    \A e \in Entry : e < entry[p] => file[e] = src[p]

\* A payload that is neither partial nor spoiled is there as a whole or not at all.
Whole == ~partial /\ ~spoiled => file = NoFiles \/ \E v \in Build : \A e \in Entry : file[e] = v

PayloadInv == PayloadTypeOK /\ Overlap /\ Copying /\ Written /\ Whole

-----------------------------------------------------------------------------
(***************************************************************************)
(* The payload.                                                            *)
(***************************************************************************)
\* A process moves to another label.
LEMMA GoToFacts ==
  ASSUME PayloadTypeOK, NEW p \in Process, NEW l \in PayloadPc, GoTo(p, l),
         p = "updater" => l # "serve"
  PROVE  /\ pc' \in [Process -> PayloadPc] /\ pc'["updater"] # "serve"
         /\ mixed' \in BOOLEAN
         /\ pc'[p] = l /\ \A q \in Process \ {p} : pc'[q] = pc[q]
         /\ (\A q \in Process : Installing(q)') => mixed'
         /\ \A q \in Process : Installing(q)' /\ ~mixed' => ~mixed
<1> DEFINE now == {q \in Process : pc'[q] \notin {"off", "serve"}}
<1>1. pc' = [pc EXCEPT ![p] = l] /\ mixed' = (now = Process \/ (mixed /\ now # {}))
  BY DEF GoTo
<1>2. /\ pc' \in [Process -> PayloadPc] /\ pc'[p] = l
      /\ \A q \in Process \ {p} : pc'[q] = pc[q]
  BY <1>1 DEF PayloadTypeOK, PayloadPc
<1>3. pc'["updater"] # "serve"
  BY <1>2 DEF PayloadTypeOK, Process
<1>4. (\A q \in Process : Installing(q)') => now = Process
  BY DEF Installing
<1>5. \A q \in Process : Installing(q)' => now # {}
  BY DEF Installing
<1>6. mixed' \in BOOLEAN
  BY <1>1
<1> HIDE DEF now
<1>7. mixed' <=> now = Process \/ (mixed /\ now # {})
  BY <1>1
<1> QED
  BY <1>2, <1>3, <1>4, <1>5, <1>6, <1>7

\* A step that writes no file, and moves no process into the extraction.
LEMMA MoveStep ==
  ASSUME PayloadInv, NEW p \in Process, NEW l \in PayloadPc \ {"entry", "copy"}, GoTo(p, l),
         p = "updater" => l # "serve",
         zip' \in Content, src' \in [Process -> Build],
         \A q \in Process \ {p} : src'[q] = src[q],
         UNCHANGED <<nightly, file, entry, busy, partial, spoiled>>
  PROVE  PayloadInv'
<1>1. PayloadTypeOK'
  BY GoToFacts DEF PayloadInv, PayloadTypeOK, PayloadPc
<1>2. Overlap'
  BY GoToFacts DEF PayloadInv, Overlap
<1>3. \A q \in Process : pc'[q] \in {"entry", "copy"} => q # p /\ pc'[q] = pc[q]
  BY GoToFacts DEF PayloadInv
<1>4. \A q \in Process : pc'[q] \in {"entry", "copy"} /\ ~mixed' => ~mixed
  BY GoToFacts DEF PayloadInv, Installing
<1>5. Copying' /\ Written' /\ Whole'
  BY <1>3, <1>4 DEF PayloadInv, Copying, Written, Whole
<1> QED
  BY <1>1, <1>2, <1>5 DEF PayloadInv

\* The steps before the extraction, and the ends of a process.
LEMMA FetchStep ==
  ASSUME PayloadInv, NEW p \in Process,
         Main \/ UpdateWrapper \/ Download(p) \/ StoreZip(p) \/ InstallFails(p) \/ Kill(p),
         UNCHANGED spoiled
  PROVE  PayloadInv'
<1>1. /\ zip \in Content /\ Torn \in Content /\ src \in [Process -> Build] /\ nightly \in Build
      /\ {"manager", "updater"} = Process
  BY DEF PayloadInv, PayloadTypeOK, Content, Process
<1>2. CASE Main
  BY <1>1, <1>2, MoveStep DEF Main, PayloadPc
<1>3. CASE UpdateWrapper
  BY <1>1, <1>3, MoveStep DEF UpdateWrapper, PayloadPc
<1>4. CASE Download(p)
  BY <1>1, <1>4, MoveStep DEF Download, PayloadPc
<1>5. CASE StoreZip(p)
  <2>1. zip' \in Content
    BY <1>1, <1>5 DEF StoreZip, Outcome, Content
  <2> QED
    BY <1>1, <1>5, <2>1, MoveStep DEF StoreZip, PayloadPc
<1>6. CASE InstallFails(p)
  BY <1>1, <1>6, MoveStep DEF InstallFails, PayloadPc
<1>7. CASE Kill(p)
  BY <1>1, <1>7, MoveStep DEF Kill, PayloadPc
<1> QED
  BY <1>2, <1>3, <1>4, <1>5, <1>6, <1>7

LEMMA OpenZipStep ==
  ASSUME PayloadInv, NEW p \in Process, OpenZip(p), UNCHANGED spoiled PROVE PayloadInv'
<1>1. GoTo(p, "entry") /\ "entry" \in PayloadPc
  BY DEF OpenZip, PayloadPc
<1>2. /\ src' \in [Process -> Build] /\ entry' \in [Process -> 1 .. Entries + 1]
      /\ entry'[p] = 1
      /\ \A q \in Process \ {p} : src'[q] = src[q] /\ entry'[q] = entry[q]
  BY EntriesAssumption DEF OpenZip, PayloadInv, PayloadTypeOK
<1>3. PayloadTypeOK'
  BY <1>1, <1>2, GoToFacts DEF OpenZip, PayloadInv, PayloadTypeOK, PayloadPc
<1>4. Overlap'
  BY <1>1, GoToFacts DEF PayloadInv, Overlap
<1>5. \A q \in Process : pc'[q] = "copy" => q # p /\ pc'[q] = pc[q]
  BY <1>1, GoToFacts DEF PayloadInv
<1>6. Copying' /\ Whole'
  BY <1>2, <1>5 DEF OpenZip, PayloadInv, Copying, Whole
<1>7. Written'
  <2> SUFFICES ASSUME NEW q \in Process, pc'[q] \in {"entry", "copy"}, ~mixed',
                      NEW e \in Entry, e < entry'[q]
               PROVE  file'[e] = src'[q]
    BY DEF Written
  <2>1. CASE q = p
    BY <1>2, <2>1 DEF Entry
  <2>2. CASE q # p
    BY <1>1, <1>2, <2>2, GoToFacts DEF OpenZip, PayloadInv, Written, Installing
  <2> QED
    BY <2>1, <2>2
<1> QED
  BY <1>3, <1>4, <1>6, <1>7 DEF PayloadInv

\* A step that writes the file of p's entry leaves the earlier ones alone.
LEMMA WriteStep ==
  ASSUME PayloadInv, NEW p \in Process, NEW l \in {"entry", "copy"}, GoTo(p, l),
         pc[p] \in {"entry", "copy"}, entry[p] <= Entries,
         NEW c \in Content, file' = [file EXCEPT ![entry[p]] = c],
         entry' \in [Process -> 1 .. Entries + 1],
         \A q \in Process \ {p} : entry'[q] = entry[q],
         \/ l = "copy" /\ entry'[p] = entry[p]
         \/ l = "entry" /\ entry'[p] = entry[p] + 1 /\ (~mixed => c = src[p]),
         partial', UNCHANGED <<nightly, zip, src, busy>>
  PROVE  PayloadInv'
<1>1. /\ l \in PayloadPc /\ PayloadTypeOK /\ entry[p] \in Entry
      /\ entry \in [Process -> 1 .. Entries + 1] /\ Entries \in Nat
  BY EntriesAssumption DEF PayloadPc, PayloadInv, PayloadTypeOK, Entry
<1>2. /\ file' \in [Entry -> Content] /\ file'[entry[p]] = c
      /\ \A e \in Entry \ {entry[p]} : file'[e] = file[e]
  BY <1>1 DEF PayloadTypeOK
<1>3. PayloadTypeOK'
  BY <1>1, <1>2, GoToFacts DEF PayloadTypeOK, PayloadPc
<1>4. Overlap'
  BY <1>1, GoToFacts DEF Overlap
<1>5. Copying'
  BY <1>1, GoToFacts DEF PayloadInv, Copying
<1>6. Whole'
  BY DEF Whole
<1>7. Written'
  <2> SUFFICES ASSUME NEW q \in Process, pc'[q] \in {"entry", "copy"}, ~mixed',
                      NEW e \in Entry, e < entry'[q]
               PROVE  file'[e] = src'[q]
    BY DEF Written
  <2>1. q = p
    <3>1. Installing(p)' /\ Installing(q)'
      BY <1>1, GoToFacts DEF Installing
    <3>2. q # p => \A r \in Process : Installing(r)'
      BY <3>1 DEF Process
    <3> QED
      BY <1>1, <3>2, GoToFacts
  <2>2. ~mixed
    BY <1>1, GoToFacts DEF Installing
  <2>3. \A d \in Entry : d < entry[p] => file[d] = src[p]
    BY <2>2 DEF PayloadInv, Written
  <2>4. e < entry[p] \/ (e = entry[p] /\ c = src[p])
    BY <1>1, <2>1, <2>2 DEF Entry
  <2> QED
    BY <1>1, <1>2, <2>1, <2>3, <2>4 DEF Entry
<1> QED
  BY <1>3, <1>4, <1>5, <1>6, <1>7 DEF PayloadInv

LEMMA EntryStep ==
  ASSUME PayloadInv, NEW p \in Process, OpenEntry(p) \/ CopyEntry(p) PROVE PayloadInv'
<1>1. /\ src[p] \in Build /\ Torn \in Content /\ Build \subseteq Content
      /\ entry \in [Process -> 1 .. Entries + 1] /\ Entries \in Nat
  BY EntriesAssumption DEF PayloadInv, PayloadTypeOK, Content
<1>2. CASE OpenEntry(p)
  BY <1>1, <1>2, WriteStep DEF OpenEntry
<1>3. CASE CopyEntry(p)
  <2>1. entry[p] <= Entries /\ partial
    BY <1>3 DEF CopyEntry, PayloadInv, Copying
  <2>2. PICK c \in Outcome(src[p]) : file' = [file EXCEPT ![entry[p]] = c]
    BY <1>3 DEF CopyEntry
  <2>3. c \in Content /\ (~mixed => c = src[p])
    BY <1>1, <2>2 DEF Outcome
  <2>4. /\ entry' \in [Process -> 1 .. Entries + 1] /\ entry'[p] = entry[p] + 1
        /\ \A q \in Process \ {p} : entry'[q] = entry[q]
    BY <1>1, <1>3, <2>1 DEF CopyEntry
  <2> QED
    BY <1>3, <2>1, <2>2, <2>3, <2>4, WriteStep DEF CopyEntry
<1> QED
  BY <1>2, <1>3

\* An install that ends alone has written every file.
LEMMA InstalledStep == ASSUME PayloadInv, NEW p \in Process, Installed(p) PROVE PayloadInv'
<1>1. PICK l \in {"serve", "off"} : (p = "updater" => l = "off") /\ GoTo(p, l)
  BY DEF Installed
<1>2. /\ l \in PayloadPc /\ PayloadTypeOK /\ mixed \in BOOLEAN /\ src[p] \in Build
      /\ pc[p] = "entry" /\ entry[p] > Entries /\ entry[p] \in 1 .. Entries + 1
      /\ partial' = mixed /\ UNCHANGED <<nightly, zip, file, src, entry, busy>>
      /\ Entries \in Nat
  BY EntriesAssumption DEF PayloadPc, PayloadInv, PayloadTypeOK, Installed
<1>3. PayloadTypeOK'
  BY <1>1, <1>2, GoToFacts DEF PayloadTypeOK, PayloadPc
<1>4. Overlap'
  BY <1>1, <1>2, GoToFacts DEF Overlap
<1>5. \A q \in Process : pc'[q] \in {"entry", "copy"} => q # p /\ pc'[q] = pc[q] /\ mixed
  <2> SUFFICES ASSUME NEW q \in Process, pc'[q] \in {"entry", "copy"}
               PROVE  q # p /\ pc'[q] = pc[q] /\ mixed
    OBVIOUS
  <2>1. q # p /\ pc'[q] = pc[q]
    BY <1>1, <1>2, GoToFacts
  <2>2. \A r \in Process : Installing(r)
    BY <1>2, <2>1 DEF Installing, Process
  <2> QED
    BY <2>1, <2>2 DEF PayloadInv, Overlap
<1>6. \A q \in Process : Installing(q)' /\ ~mixed' => ~mixed
  BY <1>1, <1>2, GoToFacts
<1>7. Copying' /\ Written'
  BY <1>2, <1>5, <1>6 DEF PayloadInv, Copying, Written, Installing
<1>8. Whole'
  <2>1. ~mixed => \A e \in Entry : file[e] = src[p]
    BY <1>2 DEF PayloadInv, Written, Entry
  <2> QED
    BY <1>2, <2>1 DEF Whole
<1> QED
  BY <1>3, <1>4, <1>7, <1>8 DEF PayloadInv

\* A service starts or ends, and a build is published.
LEMMA EnvironmentStep ==
  ASSUME PayloadInv, ServicesChange \/ Publish, UNCHANGED spoiled PROVE PayloadInv'
<1>1. PayloadTypeOK'
  <2>1. busy' \in BOOLEAN
    BY DEF PayloadInv, PayloadTypeOK, ServicesChange, Publish
  <2>2. nightly' \in Build
    BY EntriesAssumption DEF PayloadInv, PayloadTypeOK, ServicesChange, Publish, Build
  <2> QED
    BY <2>1, <2>2 DEF PayloadInv, PayloadTypeOK, ServicesChange, Publish
<1>2. Overlap' /\ Copying' /\ Written' /\ Whole'
  BY DEF PayloadInv, Overlap, Copying, Written, Whole, ServicesChange, Publish, Installing
<1> QED
  BY <1>1, <1>2 DEF PayloadInv

\* The files vanish while no process of the payload runs.
LEMMA WipeStep ==
  ASSUME PayloadInv, zip' = None, file' = NoFiles, partial' = FALSE,
         \A p \in Process : pc'[p] = "off", pc' \in [Process -> PayloadPc], mixed' \in BOOLEAN,
         busy' \in BOOLEAN, UNCHANGED <<nightly, src, entry>>
  PROVE  PayloadInv'
<1>1. PayloadTypeOK'
  BY DEF PayloadInv, PayloadTypeOK, NoFiles, Content, PayloadPc, Process
<1>2. Overlap' /\ Copying' /\ Written' /\ Whole'
  BY DEF Overlap, Copying, Written, Whole, Installing, Process, NoFiles
<1> QED
  BY <1>1, <1>2 DEF PayloadInv

\* Some files are lost when the power fails, which spoils the payload.
LEMMA LossStep ==
  ASSUME PayloadInv, NEW lost \in SUBSET Entry, NEW c \in {Torn, None},
         file' = [e \in Entry |-> IF e \in lost THEN c ELSE file[e]],
         spoiled' = (spoiled \/ lost # {}),
         \A p \in Process : pc'[p] = "off", pc' \in [Process -> PayloadPc], mixed' \in BOOLEAN,
         busy' \in BOOLEAN, UNCHANGED <<nightly, zip, src, entry, partial>>
  PROVE  PayloadInv'
<1>1. file' \in [Entry -> Content]
  BY DEF PayloadInv, PayloadTypeOK, Content
<1>2. PayloadTypeOK'
  BY <1>1 DEF PayloadInv, PayloadTypeOK, PayloadPc, Process
<1>3. Overlap' /\ Copying' /\ Written'
  BY DEF Overlap, Copying, Written, Installing, Process
<1>4. Whole'
  <2>1. lost = {} => file' = file
    BY DEF PayloadInv, PayloadTypeOK
  <2>2. ~spoiled' => ~spoiled /\ lost = {}
    OBVIOUS
  <2> QED
    BY <2>1, <2>2 DEF PayloadInv, Whole
<1> QED
  BY <1>2, <1>3, <1>4 DEF PayloadInv

LEMMA PayloadSame == ASSUME PayloadInv, UNCHANGED <<payloadVars, spoiled>> PROVE PayloadInv'
  BY DEF PayloadInv, payloadVars, PayloadTypeOK, Overlap, Copying, Written, Whole, Installing

-----------------------------------------------------------------------------
(***************************************************************************)
(* The launcher.                                                           *)
(***************************************************************************)
\* The image while the launcher makes it, and what runs on it.
ImageKnown ==
  /\ lpc = "create" => img = "absent"
  /\ lpc = "truncate" => img = "empty"
  /\ lpc = "mkfs" => img = "raw"
  /\ lpc \in {"create", "truncate", "mkfs"} => vm = "off"
  /\ lpc \in {"start", "run", "dying"} \/ vm # "off" => img # "absent"
  /\ mounted => vm \in {"manager", "hung"}

LauncherInv == LauncherTypeOK /\ ImageKnown

\* Starting, making the image, and QEMU's attempts.
LEMMA LaunchingStep ==
  ASSUME LauncherInv,
         \/ Launch \/ LaunchRefused \/ guestImagePaths \/ CreateImage \/ TruncateImage
         \/ FormatImage \/ CreateFails \/ QemuStarts \/ QemuRefuses \/ AccelFails
         \/ ScanStderr \/ WaitReturns \/ Interrupt
  PROVE  LauncherInv'
<1>1. CASE Launch
  <2>1. LauncherTypeOK'
    <3>1. sig' \in {"none", "caught", "spent"} /\ owned' = FALSE /\ mounted' \in BOOLEAN
      BY <1>1 DEF LauncherInv, LauncherTypeOK, Launch, NoLauncher
    <3>2. attempt' \in 1 .. 2 /\ errs' = "none" /\ lpc' = "images"
      BY <1>1 DEF Launch
    <3> QED
      BY <1>1, <3>1, <3>2 DEF LauncherInv, LauncherTypeOK, Launch
  <2>2. ImageKnown'
    BY <1>1 DEF LauncherInv, ImageKnown, Launch, NoLauncher
  <2> QED
    BY <2>1, <2>2 DEF LauncherInv
<1>2. CASE LaunchRefused
  BY <1>2 DEF LauncherInv, LauncherTypeOK, ImageKnown, LaunchRefused, NoLauncher
<1>3. CASE guestImagePaths
  BY <1>3 DEF LauncherInv, LauncherTypeOK, ImageKnown, guestImagePaths, ImageMissing
<1>4. CASE CreateImage
  BY <1>4 DEF LauncherInv, LauncherTypeOK, ImageKnown, CreateImage
<1>5. CASE TruncateImage
  BY <1>5 DEF LauncherInv, LauncherTypeOK, ImageKnown, TruncateImage
<1>6. CASE FormatImage
  BY <1>6 DEF LauncherInv, LauncherTypeOK, ImageKnown, FormatImage
<1>7. CASE CreateFails
  BY <1>7 DEF LauncherInv, LauncherTypeOK, ImageKnown, CreateFails, Unformatted
<1>8. CASE QemuStarts
  BY <1>8 DEF LauncherInv, LauncherTypeOK, ImageKnown, QemuStarts
<1>9. CASE QemuRefuses
  BY <1>9 DEF LauncherInv, LauncherTypeOK, ImageKnown, QemuRefuses
<1>10. CASE AccelFails
  BY <1>10 DEF LauncherInv, LauncherTypeOK, ImageKnown, AccelFails
<1>11. CASE ScanStderr
  BY <1>11 DEF LauncherInv, LauncherTypeOK, ImageKnown, ScanStderr
<1>12. CASE WaitReturns
  <2>1. LauncherTypeOK'
    <3>1. sig' \in {"none", "caught", "spent"} /\ owned' = FALSE /\ mounted' \in BOOLEAN
      BY <1>12 DEF LauncherInv, LauncherTypeOK, WaitReturns
    <3>2. attempt' \in 1 .. 2 /\ errs' \in {"none", "read", "lost"} /\ lpc' \in {"start", "failed"}
      BY <1>12 DEF LauncherInv, LauncherTypeOK, WaitReturns
    <3> QED
      BY <1>12, <3>1, <3>2 DEF LauncherInv, LauncherTypeOK, WaitReturns
  <2>2. ImageKnown'
    BY <1>12 DEF LauncherInv, ImageKnown, WaitReturns
  <2> QED
    BY <2>1, <2>2 DEF LauncherInv
<1>13. CASE Interrupt
  BY <1>13 DEF LauncherInv, LauncherTypeOK, ImageKnown, Interrupt
<1> QED
  BY <1>1, <1>2, <1>3, <1>4, <1>5, <1>6, <1>7, <1>8, <1>9, <1>10, <1>11, <1>12, <1>13

\* The guest boots, its manager ends, QEMU or the launcher ends.
LEMMA MachineStep ==
  ASSUME LauncherInv,
         \/ MountData \/ FormatData \/ RunWithoutData \/ GuestPanics
         \/ ForwardInterrupt \/ ForwardFails \/ KillQemu \/ KillLauncher
  PROVE  LauncherInv'
<1>1. CASE MountData
  BY <1>1 DEF LauncherInv, LauncherTypeOK, ImageKnown, MountData, Mountable
<1>2. CASE FormatData
  BY <1>2 DEF LauncherInv, LauncherTypeOK, ImageKnown, FormatData, Mountable
<1>3. CASE RunWithoutData
  BY <1>3 DEF LauncherInv, LauncherTypeOK, ImageKnown, RunWithoutData
<1>4. CASE GuestPanics
  BY <1>4 DEF LauncherInv, LauncherTypeOK, ImageKnown, GuestPanics
<1>5. CASE ForwardInterrupt
  BY <1>5 DEF LauncherInv, LauncherTypeOK, ImageKnown, ForwardInterrupt, PowerOff
<1>6. CASE KillQemu
  BY <1>6 DEF LauncherInv, LauncherTypeOK, ImageKnown, KillQemu, PowerOff
<1>7. CASE KillLauncher
  BY <1>7 DEF LauncherInv, LauncherTypeOK, ImageKnown, KillLauncher, NoLauncher, Unformatted
<1>8. CASE ForwardFails
  BY <1>8 DEF LauncherInv, LauncherTypeOK, ImageKnown, ForwardFails
<1> QED
  BY <1>1, <1>2, <1>3, <1>4, <1>5, <1>6, <1>7, <1>8

LEMMA LauncherSame == ASSUME LauncherInv, UNCHANGED launcherVars PROVE LauncherInv'
  BY DEF LauncherInv, launcherVars, LauncherTypeOK, ImageKnown

-----------------------------------------------------------------------------
(***************************************************************************)
(* The deployment.                                                         *)
(***************************************************************************)
\* Natively there is no machine, and in the guest no updater; the guest's
\* manager runs in a machine that is up.
Tied ==
  /\ mode \in {"native", "guest"} /\ dirty \subseteq Entry /\ spoiled \in BOOLEAN
  /\ mode = "native" => lpc = "off" /\ vm = "off" /\ dirty = {} /\ ~spoiled
  /\ mode = "guest" => pc["updater"] = "off" /\ (pc["manager"] # "off" => vm = "manager")

IInv == PayloadInv /\ LauncherInv /\ Tied

LEMMA InitIInv == Init => IInv
<1> SUFFICES ASSUME Init PROVE IInv
  OBVIOUS
<1>1. PayloadTypeOK
  <2>1. /\ nightly \in Build /\ src \in [Process -> Build]
        /\ entry \in [Process -> 1 .. Entries + 1]
    BY EntriesAssumption DEF Init, PayloadInit, Build
  <2>2. zip \in Content /\ file \in [Entry -> Content]
    BY DEF Init, PayloadInit, NoFiles, Content
  <2>3. busy \in BOOLEAN /\ mixed \in BOOLEAN /\ partial \in BOOLEAN
    BY DEF Init, PayloadInit
  <2>4. pc = [p \in Process |-> "off"]
    BY DEF Init, PayloadInit
  <2> QED
    BY <2>1, <2>2, <2>3, <2>4 DEF PayloadTypeOK, Process
<1>2. Overlap /\ Copying /\ Written /\ Whole
  BY DEF Init, PayloadInit, Overlap, Copying, Written, Whole, Installing, Process
<1>3. LauncherInv
  <2>1. sig \in {"none", "caught", "spent"} /\ owned = FALSE /\ mounted = FALSE
    BY DEF Init, LauncherInit
  <2>2. attempt \in 1 .. 2
    BY DEF Init, LauncherInit
  <2>3. host \in Hosts /\ lpc = "off" /\ errs = "none" /\ img = "absent" /\ vm = "off"
    BY DEF Init, LauncherInit
  <2> QED
    BY <2>1, <2>2, <2>3 DEF LauncherInv, LauncherTypeOK, ImageKnown
<1>4. Tied
  BY DEF Init, PayloadInit, LauncherInit, Tied, Process
<1> QED
  BY <1>1, <1>2, <1>3, <1>4 DEF IInv, PayloadInv

\* The manager and the updater on a host.
LEMMA NativeStep == ASSUME IInv, Native PROVE IInv'
<1>1. mode = "native" /\ UNCHANGED <<launcherVars, ownVars>>
  BY DEF Native
<1>2. PayloadInv'
  <2>1. CASE Main \/ UpdateWrapper
    BY <1>1, <2>1, FetchStep DEF IInv, Process, ownVars
  <2>2. ASSUME NEW p \in Process, Install(p) \/ Kill(p) PROVE PayloadInv'
    BY <1>1, <2>2, FetchStep, OpenZipStep, EntryStep, InstalledStep DEF IInv, Install, ownVars
  <2> QED
    BY <2>1, <2>2 DEF Native
<1>3. Tied'
  BY <1>1 DEF IInv, Tied, launcherVars, ownVars
<1> QED
  BY <1>1, <1>2, <1>3, LauncherSame DEF IInv

\* Steps that leave the payload alone, or the launcher.
LEMMA QuietStep ==
  ASSUME IInv, Environment \/ WriteBack \/ UNCHANGED vars PROVE IInv'
<1>1. PayloadInv'
  BY PayloadSame, EnvironmentStep DEF IInv, Environment, WriteBack, vars, ownVars
<1>2. LauncherInv'
  BY LauncherSame DEF IInv, Environment, WriteBack, vars, ownVars
<1>4. CASE Environment
  <2>1. UNCHANGED <<pc, launcherVars, ownVars>>
    BY <1>4 DEF Environment, ServicesChange, Publish
  <2> QED
    BY <1>1, <1>2, <2>1 DEF IInv, Tied, launcherVars, ownVars
<1>5. CASE WriteBack
  BY <1>1, <1>2, <1>5
  DEF IInv, WriteBack, Tied, payloadVars, launcherVars, LauncherInv, LauncherTypeOK, ImageKnown
<1>6. CASE UNCHANGED vars
  BY <1>1, <1>2, <1>6 DEF IInv, vars, Tied, payloadVars, launcherVars, ownVars
<1> QED
  BY <1>4, <1>5, <1>6

LEMMA LaunchStep == ASSUME IInv, Launching \/ Operator PROVE IInv'
<1>1. PayloadInv' /\ UNCHANGED ownVars /\ pc' = pc
  BY PayloadSame DEF IInv, Launching, Operator, payloadVars, ownVars
<1>2. LauncherInv'
  BY LaunchingStep, MachineStep DEF IInv, Launching, Operator
<1>3. mode = "guest"
  BY DEF IInv, Tied, Launching, Operator, guestImagePaths, TruncateImage, FormatImage, CreateFails,
         QemuStarts, QemuRefuses, AccelFails, ScanStderr, WaitReturns, ForwardFails
<1>4. mounted' = mounted /\ (vm' = vm \/ (vm = "off" /\ vm' = "init"))
  BY DEF Launching, Operator, guestImagePaths, TruncateImage, FormatImage, CreateFails, QemuStarts,
         QemuRefuses, AccelFails, ScanStderr, WaitReturns, ForwardFails, Launch, LaunchRefused,
         Interrupt, KillLauncher
<1>6. Tied'
  BY <1>1, <1>3, <1>4 DEF IInv, Tied, ownVars
<1> QED
  BY <1>1, <1>2, <1>6 DEF IInv

LEMMA BootStep == ASSUME IInv, Boot PROVE IInv'
<1>1. PayloadInv' /\ LauncherInv' /\ UNCHANGED ownVars /\ pc' = pc
  BY PayloadSame, MachineStep DEF IInv, Boot, payloadVars, ownVars
<1>2. Tied'
  BY <1>1 DEF IInv, Boot, MountData, RunWithoutData, Mountable, Tied, ownVars
<1> QED
  BY <1>1, <1>2 DEF IInv

\* An image is made or formatted only while nothing runs in the guest.
LEMMA EraseStep == ASSUME IInv, Erase PROVE IInv'
<1>1. /\ mode = "guest" /\ vm \in {"off", "init"} /\ spoiled' = FALSE /\ dirty' = {}
      /\ UNCHANGED <<nightly, pc, src, entry, busy, mixed, mode>>
      /\ zip' = None /\ file' = NoFiles /\ partial' = FALSE
  BY DEF IInv, Tied, LauncherInv, ImageKnown, Erase, Wiped, CreateImage, FormatData
<1>2. \A p \in Process : pc[p] = "off"
  BY <1>1 DEF IInv, Tied, Process
<1>3. PayloadInv'
  BY <1>1, <1>2, WipeStep DEF IInv, PayloadInv, PayloadTypeOK, PayloadPc
<1>4. LauncherInv'
  BY LaunchingStep, MachineStep DEF IInv, Erase
<1>5. Tied'
  BY <1>1, <1>2 DEF Tied, IInv, Process
<1> QED
  BY <1>3, <1>4, <1>5 DEF IInv

LEMMA GuestManagerStep == ASSUME IInv, GuestManager PROVE IInv'
<1>1. vm = "manager" /\ "manager" \in Process /\ mode = "guest"
      /\ UNCHANGED <<launcherVars, mode>>
  BY DEF GuestManager, IInv, Tied, Process
<1>2. PayloadInv'
  BY <1>1, FetchStep, OpenZipStep, EntryStep, InstalledStep DEF GuestManager, IInv
<1>3. pc'["updater"] = "off"
  BY <1>1 DEF GuestManager, IInv, Tied, PayloadInv, PayloadTypeOK, Process, Main, OpenZip, Download,
              StoreZip, OpenEntry, CopyEntry, Installed, GoTo
<1>4. dirty' \subseteq Entry
  <2>1. OpenEntry("manager") \/ CopyEntry("manager") => entry["manager"] \in Entry
    BY <1>1, EntriesAssumption
    DEF OpenEntry, CopyEntry, IInv, PayloadInv, PayloadTypeOK, Copying, Entry
  <2> QED
    BY <2>1 DEF GuestManager, IInv, Tied
<1>5. spoiled' \in BOOLEAN
  BY DEF GuestManager, IInv, Tied
<1>6. Tied'
  BY <1>1, <1>3, <1>4, <1>5 DEF IInv, Tied, launcherVars
<1> QED
  BY <1>1, <1>2, <1>6, LauncherSame DEF IInv

LEMMA GuestManagerEndsStep == ASSUME IInv, GuestManagerEnds PROVE IInv'
<1>1. /\ vm = "manager" /\ vm' = "hung" /\ "manager" \in Process /\ mode = "guest"
      /\ UNCHANGED <<img, mounted, lpc, ownVars>>
  BY DEF GuestManagerEnds, GuestPanics, IInv, Tied, Process
<1>2. PayloadInv' /\ LauncherInv'
  BY <1>1, FetchStep, MachineStep DEF GuestManagerEnds, IInv, ownVars
<1>3. pc'["updater"] = "off" /\ pc'["manager"] = "off"
  BY <1>1 DEF GuestManagerEnds, IInv, Tied, PayloadInv, PayloadTypeOK, Process, InstallFails, Kill,
              GoTo
<1>4. Tied'
  BY <1>1, <1>3 DEF IInv, Tied, ownVars
<1> QED
  BY <1>2, <1>4 DEF IInv

LEMMA PowerFailureStep == ASSUME IInv, PowerFailure PROVE IInv'
<1>1. /\ mode = "guest" /\ mode' = mode /\ vm # "off" /\ vm' = "off" /\ dirty' = {}
      /\ \A p \in Process : pc'[p] = "off"
      /\ UNCHANGED <<nightly, src, entry>> /\ busy' = FALSE /\ mixed' = FALSE
      /\ pc' \in [Process -> PayloadPc]
  BY DEF PowerFailure, ForwardInterrupt, KillQemu, PowerOff, Wiped, IInv, Tied, LauncherInv,
         LauncherTypeOK, PayloadPc
<1>2. LauncherInv'
  BY MachineStep DEF PowerFailure, IInv
<1>3. CASE vm # "init" /\ ~mounted
  <2>1. Wiped
    BY <1>3 DEF PowerFailure
  <2>2. PayloadInv'
    BY <1>1, <2>1, WipeStep DEF Wiped, IInv
  <2> QED
    BY <1>1, <1>2, <2>1, <2>2 DEF IInv, Tied, Wiped, Process
<1>4. CASE ~(vm # "init" /\ ~mounted)
  <2>1. PICK lost \in SUBSET dirty, c \in {Torn, None} :
          /\ file' = [e \in Entry |-> IF e \in lost THEN c ELSE file[e]]
          /\ spoiled' = (spoiled \/ lost # {})
    BY <1>4 DEF PowerFailure
  <2>2. UNCHANGED <<zip, partial>>
    BY <1>4 DEF PowerFailure
  <2>3. PayloadInv'
    BY <1>1, <2>1, <2>2, LossStep DEF IInv, Tied
  <2> QED
    BY <1>1, <1>2, <2>1, <2>3 DEF IInv, Tied, Process
<1> QED
  BY <1>3, <1>4

LEMMA NextIInv == IInv /\ [Next]_vars => IInv'
  BY NativeStep, QuietStep, LaunchStep, BootStep, EraseStep, GuestManagerStep, GuestManagerEndsStep,
     PowerFailureStep DEF Next

LEMMA DeploymentInvariant == Spec => []IInv
  BY InitIInv, NextIInv, PTL DEF Spec

(***************************************************************************)
(* The payload, the launcher and what ties them are always well formed: in *)
(* particular the manager of a guest runs only in a running machine.       *)
(***************************************************************************)
THEOREM TypeCorrect == Spec => []TypeOK
<1>1. IInv => TypeOK
  BY DEF IInv, PayloadInv, LauncherInv, Tied, TypeOK
<1> QED
  BY <1>1, DeploymentInvariant, PTL

(***************************************************************************)
(* installWrapperLite: what wrapperPayloadReady takes for a payload after  *)
(* an install that ran alone to its end is complete and of one build,      *)
(* whatever was killed, refused or published before and since.  Files that *)
(* an unfinished install left, or that a power failure took afterwards,    *)
(* are excepted by name: the code would take them for a payload.           *)
(***************************************************************************)
THEOREM InstallComplete == Spec => []InstallWhole
<1>1. IInv => InstallWhole
  BY ProbedAssumption DEF IInv, PayloadInv, Whole, InstallWhole, wrapperPayloadReady, NoFiles, Entry
<1> QED
  BY <1>1, DeploymentInvariant, PTL

=============================================================================
