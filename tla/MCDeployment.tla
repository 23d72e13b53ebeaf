---------------------------- MODULE MCDeployment ----------------------------
(***************************************************************************)
(* Three files, of which the first two are looked at by                    *)
(* wrapperPayloadReady, and two builds.  Hosts: without acceleration, with *)
(* one that works or does not, chosen automatically or forced.             *)
(***************************************************************************)
EXTENDS Deployment

MCHosts ==
  {[accel |-> "tcg", forced |-> FALSE, works |-> TRUE, mke2fs |-> FALSE],
   [accel |-> "kvm", forced |-> FALSE, works |-> FALSE, mke2fs |-> TRUE],
   [accel |-> "kvm", forced |-> TRUE, works |-> FALSE, mke2fs |-> TRUE]}

=============================================================================
