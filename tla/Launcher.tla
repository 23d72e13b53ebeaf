------------------------------ MODULE Launcher ------------------------------
(***************************************************************************)
(* wrapper-manager-qemu (cmd/wrapper-manager-qemu/main.go) and the guest's *)
(* init script: the launcher finds QEMU and the guest's images, creates    *)
(* the data image when there is none, runs QEMU, forwards an interrupt to  *)
(* it, and tries again without acceleration when QEMU says that the        *)
(* accelerator does not work.  A launcher may be killed at any point; a    *)
(* QEMU that it has started then goes on without it.                       *)
(***************************************************************************)
EXTENDS Naturals, FiniteSets

CONSTANT Hosts   \* the machines considered

HostType ==
  [accel: {"tcg", "kvm"},  \* what autoAccel or --accel says; kvm stands for whpx too
   forced: BOOLEAN,        \* given by --accel or LITE_QEMU_ACCEL
   works: BOOLEAN,         \* QEMU can initialise that accelerator
   mke2fs: BOOLEAN]        \* the host has mke2fs

ASSUME HostsAssumption == Hosts \subseteq HostType /\ \A h \in Hosts : h.accel = "tcg" => h.works

VARIABLES
  host,     \* the machine
  lpc,      \* control state of the launcher
  attempt,  \* which call of runQemu
  errs,     \* QEMU's message about the accelerator
  sig,      \* an interrupt has been caught; the goroutine that waits for it is spent
  img,      \* data.img
  vm,       \* the running QEMU and its guest
  owned,    \* it was started by the launcher that runs now
  mounted   \* the guest's /data is the image, not the initramfs

launcherVars == <<host, lpc, attempt, errs, sig, img, vm, owned, mounted>>

LauncherTypeOK ==
  /\ host \in Hosts
  /\ lpc \in {"off", "images", "create", "truncate", "mkfs", "start", "run",
              "dying", "failed", "exited"}
  /\ attempt \in 1 .. 2
  /\ errs \in {"none", "written", "read", "lost"}
  /\ sig \in {"none", "caught", "spent"}
  /\ img \in {"absent", "empty", "raw", "half", "fs", "unclean", "damaged"}
  /\ vm \in {"off", "init", "manager", "hung"}
  /\ owned \in BOOLEAN /\ mounted \in BOOLEAN
  /\ mounted => img \in {"fs", "unclean"}
  /\ owned => lpc = "run" /\ vm # "off"

LauncherInit ==
  /\ host \in Hosts
  /\ lpc = "off" /\ attempt = 1 /\ errs = "none" /\ sig = "none"
  /\ img = "absent"
  /\ vm = "off" /\ owned = FALSE /\ mounted = FALSE

-----------------------------------------------------------------------------
(***************************************************************************)
(* main up to runQemu: each failure is reported and the launcher exits.    *)
(***************************************************************************)

NoLauncher == lpc \in {"off", "failed", "exited"}

\* The arguments are good, locateQemu and guestImagePaths find their files.
Launch ==
  /\ NoLauncher
  /\ lpc' = "images"
  /\ attempt' = 1 /\ errs' = "none" /\ sig' = "none"
  /\ UNCHANGED <<host, img, vm, owned, mounted>>

\* They do not.
LaunchRefused ==
  /\ NoLauncher
  /\ lpc' = "failed" /\ attempt' = 1 /\ errs' = "none"
  /\ UNCHANGED <<host, sig, img, vm, owned, mounted>>

\* fileExists(dataImg), whatever the file holds.
ImageMissing == img = "absent"

guestImagePaths ==
  /\ lpc = "images"
  /\ lpc' = IF ImageMissing THEN "create" ELSE "start"
  /\ UNCHANGED <<host, attempt, errs, sig, img, vm, owned, mounted>>

\* createEmptyDataImage: os.Create, which truncates,
CreateImage ==
  /\ lpc = "create"
  /\ img' = "empty"
  /\ lpc' = "truncate"
  /\ UNCHANGED <<host, attempt, errs, sig, vm, owned, mounted>>

\* f.Truncate to 512 MB,
TruncateImage ==
  /\ lpc = "truncate"
  /\ img' = "raw"
  /\ lpc' = IF host.mke2fs THEN "mkfs" ELSE "start"
  /\ UNCHANGED <<host, attempt, errs, sig, vm, owned, mounted>>

\* and mke2fs.
FormatImage ==
  /\ lpc = "mkfs"
  /\ img' = "fs"
  /\ lpc' = "start"
  /\ UNCHANGED <<host, attempt, errs, sig, vm, owned, mounted>>

\* What a mke2fs that fails or is killed leaves behind.
Unformatted == IF lpc = "mkfs" THEN {"raw", "half"} ELSE {img}

\* One of them fails and what was done of the image stays.
CreateFails ==
  /\ lpc \in {"create", "truncate", "mkfs"}
  /\ img' \in Unformatted
  /\ lpc' = "failed"
  /\ UNCHANGED <<host, attempt, errs, sig, vm, owned, mounted>>

-----------------------------------------------------------------------------
(***************************************************************************)
(* runQemu.  QEMU ends at once if the image and the port are taken by      *)
(* another QEMU, or if the accelerator cannot be initialised.              *)
(***************************************************************************)

\* Mutant: the arguments of the second run are built before gAccel is set.
AccelWorksUnchanged == host.works

\* The accelerator of this attempt: buildQemuArgs with gAccel = "tcg" or not.
AccelWorks == attempt = 2 \/ host.works

QemuStarts ==
  /\ lpc = "start" /\ AccelWorks /\ vm = "off"
  /\ lpc' = "run"
  /\ vm' = "init" /\ owned' = TRUE
  /\ UNCHANGED <<host, attempt, errs, sig, img, mounted>>

\* There is one second run, with gAccel = "tcg".
MayFallBack == attempt = 1 /\ ~host.forced /\ host.accel # "tcg"

\* cmd.Start fails, or QEMU exits for another reason than its accelerator;
\* a message that reads like one ("Permission denied") leads to a second run.
QemuRefuses ==
  /\ lpc = "start"
  /\ \/ lpc' = "failed" /\ UNCHANGED attempt
     \/ MayFallBack /\ lpc' = "start" /\ attempt' = 2
  /\ errs' = "none"
  /\ UNCHANGED <<host, sig, img, vm, owned, mounted>>

\* QEMU has written its message to the pipe and ends.
AccelFails ==
  /\ lpc = "start" /\ ~AccelWorks
  /\ lpc' = "dying"
  /\ errs' = "written"
  /\ UNCHANGED <<host, attempt, sig, img, vm, owned, mounted>>

\* The goroutine that reads the pipe.
ScanStderr ==
  /\ lpc = "dying" /\ errs = "written"
  /\ errs' = "read"
  /\ UNCHANGED <<host, lpc, attempt, sig, img, vm, owned, mounted>>

\* cmd.Wait closes the pipe, read or not, and main looks at what was read
\* (isAccelInitError).  An interrupt that was forwarded to the dying QEMU has
\* been consumed; signal.Stop.
WaitReturns ==
  /\ lpc = "dying"
  /\ sig' = "none"
  /\ \/ /\ errs = "read" /\ MayFallBack
        /\ lpc' = "start" /\ attempt' = 2 /\ errs' = "none"
     \/ /\ errs = "read" /\ ~MayFallBack
        /\ lpc' = "failed"
        /\ UNCHANGED <<attempt, errs>>
     \/ /\ errs = "written"
        /\ errs' = "lost"
        /\ lpc' = "failed"
        /\ UNCHANGED attempt
  /\ UNCHANGED <<host, img, vm, owned, mounted>>

-----------------------------------------------------------------------------
(***************************************************************************)
(* Signals and the end of QEMU, which is a power failure for the guest.    *)
(***************************************************************************)

\* SIGINT or SIGTERM while signal.Notify is in effect.  The goroutine takes
\* one signal; nobody receives the next one.
Interrupt ==
  /\ lpc \in {"run", "dying"}
  /\ sig = "none" /\ sig' = "caught"
  /\ UNCHANGED <<host, lpc, attempt, errs, img, vm, owned, mounted>>

\* A file system that was in use is left to its journal, or damaged.
PowerOff ==
  /\ vm' = "off" /\ owned' = FALSE /\ mounted' = FALSE
  /\ img' \in IF mounted THEN {"unclean", "damaged"} ELSE {img}

\* The goroutine of runQemu passes it on; QEMU quits with code 0.
ForwardInterrupt ==
  /\ lpc = "run" /\ owned /\ sig = "caught"
  /\ PowerOff
  /\ lpc' = "exited" /\ sig' = "none"
  /\ UNCHANGED <<host, attempt, errs>>

\* Process.Signal fails, as it does on Windows, and its error is dropped.
ForwardFails ==
  /\ lpc = "run" /\ owned /\ sig = "caught"
  /\ sig' = "spent"
  /\ UNCHANGED <<host, lpc, attempt, errs, img, vm, owned, mounted>>

\* QEMU is killed, with its launcher or after it.
KillQemu ==
  /\ vm # "off"
  /\ PowerOff
  /\ lpc' = IF owned THEN "failed" ELSE lpc
  /\ errs' = IF owned THEN "none" ELSE errs
  /\ UNCHANGED <<host, attempt, sig>>

\* The launcher is killed, by an interrupt too where Notify is not in effect.
KillLauncher ==
  /\ ~NoLauncher
  /\ img' \in Unformatted
  /\ lpc' = "off" /\ owned' = FALSE /\ sig' = "none"
  /\ UNCHANGED <<host, attempt, errs, vm, mounted>>

-----------------------------------------------------------------------------
(***************************************************************************)
(* guest/init.  The disk's device node is there when init looks for it.    *)
(***************************************************************************)

\* mount replays the journal of a file system that was not unmounted; it
\* fails on a damaged one.
Mountable == img \in {"fs", "unclean"}

MountData ==
  /\ vm = "init" /\ Mountable
  /\ img' = "fs" /\ mounted' = TRUE
  /\ vm' = "manager"
  /\ UNCHANGED <<host, lpc, attempt, errs, sig, owned>>

\* The mount fails, for whatever reason: mke2fs, and mount again.  An empty
\* image has no room.
FormatData ==
  /\ vm = "init" /\ ~Mountable /\ img # "empty"
  /\ img' = "fs" /\ mounted' = TRUE
  /\ vm' = "manager"
  /\ UNCHANGED <<host, lpc, attempt, errs, sig, owned>>

\* That fails too, and the manager is started all the same.
RunWithoutData ==
  /\ vm = "init" /\ ~Mountable
  /\ mounted' = FALSE
  /\ vm' = "manager"
  /\ UNCHANGED <<host, lpc, attempt, errs, sig, img, owned>>

\* The manager is process 1: when it ends the kernel panics, and QEMU stays.
GuestPanics ==
  /\ vm = "manager"
  /\ vm' = "hung"
  /\ UNCHANGED <<host, lpc, attempt, errs, sig, img, owned, mounted>>

=============================================================================
