----------------------------- MODULE Deployment -----------------------------
(***************************************************************************)
(* The manager installed on a host ("native"), where it may be updated     *)
(* beside a running copy, or inside the launcher's virtual machine         *)
(* ("guest"), where the manager is process 1, its files are on the data    *)
(* image, and every end of QEMU is a power failure: what the guest has not *)
(* written back (nothing calls fsync) may be lost.                         *)
(***************************************************************************)
EXTENDS Payload, Launcher

VARIABLES
  mode,    \* how the manager is deployed
  dirty,   \* files of the payload that are not written back
  spoiled  \* history: a power failure took files, and no install has completed
           \* since

ownVars == <<mode, dirty, spoiled>>
vars == <<payloadVars, launcherVars, ownVars>>

(***************************************************************************)
(* Type correctness.  Natively the launcher does nothing; a guest's        *)
(* manager runs only in a running virtual machine, and without an updater. *)
(***************************************************************************)
TypeOK ==
  /\ PayloadTypeOK /\ LauncherTypeOK
  /\ mode \in {"native", "guest"}
  /\ dirty \subseteq Entry
  /\ spoiled \in BOOLEAN
  /\ mode = "native" => lpc = "off" /\ vm = "off" /\ dirty = {} /\ ~spoiled
  /\ mode = "guest" => pc["updater"] = "off" /\ (pc["manager"] # "off" => vm = "manager")

Init ==
  /\ PayloadInit /\ LauncherInit
  /\ mode \in {"native", "guest"}
  /\ dirty = {} /\ spoiled = FALSE

-----------------------------------------------------------------------------
Native ==
  /\ mode = "native"
  /\ \/ Main \/ UpdateWrapper
     \/ \E p \in Process : Install(p) \/ Kill(p)
  /\ UNCHANGED <<launcherVars, ownVars>>

Environment ==
  /\ ServicesChange \/ Publish
  /\ UNCHANGED <<launcherVars, ownVars>>

-----------------------------------------------------------------------------
\* Steps of the launcher and of the guest's init that leave the disk alone.
Launching ==
  /\ \/ guestImagePaths \/ TruncateImage \/ FormatImage \/ CreateFails
     \/ QemuStarts \/ QemuRefuses \/ AccelFails \/ ScanStderr \/ WaitReturns
     \/ ForwardFails
  /\ UNCHANGED <<payloadVars, ownVars>>

Operator ==
  /\ mode = "guest"
  /\ Launch \/ LaunchRefused \/ Interrupt \/ KillLauncher
  /\ UNCHANGED <<payloadVars, ownVars>>

Boot ==
  /\ MountData \/ RunWithoutData
  /\ UNCHANGED <<payloadVars, ownVars>>

\* Nothing of the manager's files is left.
Wiped ==
  /\ zip' = None /\ file' = NoFiles /\ partial' = FALSE
  /\ dirty' = {} /\ spoiled' = FALSE

\* The image is truncated, or gets a new file system.
Erase ==
  /\ CreateImage \/ FormatData
  /\ Wiped
  /\ UNCHANGED <<nightly, pc, src, entry, busy, mixed, mode>>

\* The manager is started by init, without -prepare, and installs the payload.
GuestManager ==
  /\ vm = "manager"
  /\ \/ /\ Main \/ OpenZip("manager") \/ Download("manager") \/ StoreZip("manager")
        /\ UNCHANGED <<dirty, spoiled>>
     \/ /\ OpenEntry("manager") \/ CopyEntry("manager")
        /\ dirty' = dirty \cup {entry["manager"]}
        /\ UNCHANGED spoiled
     \/ /\ Installed("manager")
        /\ spoiled' = FALSE
        /\ UNCHANGED dirty
  /\ pc'["manager"] # "off"
  /\ UNCHANGED <<launcherVars, mode>>

\* PrepareWrapper panics, or the manager ends in another way.
GuestManagerEnds ==
  /\ GuestPanics
  /\ InstallFails("manager") \/ Kill("manager")
  /\ UNCHANGED ownVars

WriteBack ==
  /\ mounted
  /\ dirty' = {}
  /\ UNCHANGED <<payloadVars, launcherVars, mode, spoiled>>

\* QEMU ends: what was not written back may be lost, and all that was kept in
\* the initramfs is.
PowerFailure ==
  /\ ForwardInterrupt \/ KillQemu
  /\ IF vm # "init" /\ ~mounted
     THEN Wiped
     ELSE /\ \E lost \in SUBSET dirty, c \in {Torn, None} :
               /\ file' = [e \in Entry |-> IF e \in lost THEN c ELSE file[e]]
               /\ spoiled' = (spoiled \/ lost # {})
          /\ dirty' = {}
          /\ UNCHANGED <<zip, partial>>
  /\ pc' = [p \in Process |-> "off"]
  /\ busy' = FALSE /\ mixed' = FALSE
  /\ UNCHANGED <<nightly, src, entry, mode>>

GuestStep == Boot \/ GuestManager \/ GuestManagerEnds

LauncherStep == Launching \/ Erase \/ (ForwardInterrupt /\ PowerFailure)

Next ==
  \/ Native \/ Environment
  \/ Launching \/ Operator \/ Boot \/ Erase
  \/ GuestManager \/ GuestManagerEnds \/ WriteBack \/ PowerFailure

(***************************************************************************)
(* The launcher and the processes of the guest are scheduled; nothing      *)
(* makes anybody launch, interrupt or kill.                                *)
(***************************************************************************)
Fairness == WF_vars(LauncherStep) /\ WF_vars(GuestStep)

Spec == Init /\ [][Next]_vars /\ Fairness

-----------------------------------------------------------------------------
(***************************************************************************)
(* Whatever was interrupted, refused or overwritten before: after an       *)
(* install that ran from end to end without another one beside it, the     *)
(* files that wrapperPayloadReady takes for a payload are complete and of  *)
(* one build, also after restarts of the manager and failed downloads.  It *)
(* is not so while partial or spoiled holds: the two files it looks at may *)
(* be there without the others, or torn by a power failure that came       *)
(* before the guest had written them back, and are taken for a payload.    *)
(***************************************************************************)
InstallWhole ==
  ~partial /\ ~spoiled /\ wrapperPayloadReady
    => \E v \in Build : \A e \in Entry : file[e] = v

(***************************************************************************)
(* README: "automatic fallback to TCG when the accel is unavailable".  A   *)
(* launch ends with a manager that serves, unless the operator ends it,    *)
(* the manager itself dies, or QEMU is refused for another reason than an  *)
(* accelerator nobody insisted on and whose message was read in time.      *)
(***************************************************************************)
LaunchServes ==
  lpc = "images" ~> \/ pc["manager"] = "serve" \/ vm = "hung"
                    \/ lpc \in {"off", "exited"}
                    \/ lpc = "failed" /\ (errs = "read" => host.forced)

=============================================================================
