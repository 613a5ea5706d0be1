-------------------------- MODULE CommandQueueClaims --------------------------
(***************************************************************************)
(* What the comments and documents of the repository say of the command    *)
(* queues and the registry, and the interleavings of CommandQueue refute.  *)
(***************************************************************************)
EXTENDS CommandQueue

(* History of the sweep in progress, for EvictionSparesActive.              *)
VARIABLES
    late, \* threads in a QueueCommand that found its device after phase 1
    owed  \* the IDs such calls returned

ClaimInit == Init /\ late = {} /\ owed = {}

ClaimNext ==
    /\ Next
    /\ IF evictor = "sweeping" /\ evictor' = "sweeping"
       THEN /\ late' = {t \in Threads :
                          /\ call'[t].at \in {"assign", "append"}
                          /\ t \in late \/ call[t].at = "idle"}
            /\ owed' = owed \cup {a.id : a \in {b \in accepted' \ accepted : b.by \in late}}
       ELSE late' = {} /\ owed' = {}

ClaimSpec == ClaimInit /\ [][ClaimNext]_<<vars, late, owed>>

(* options.go, WithDeviceEvictionTimeout: "When a device is evicted, its   *)
(* pending command queue is also cleaned up." So between two sweeps only   *)
(* registered devices have commands. QueueCommand checks the registry in   *)
(* one critical section and appends in a later one.                        *)
EvictedQueueIsEmpty ==
    evictor # "sweeping" =>
        \A sn \in SerialNumbers \ Registered :
            commandQueue[sn] = <<>> /\ PendingFor(sn) = {}

(* adms.go, evictionWorker: the worker "cleans up pending commands for      *)
(* evicted devices". So it removes no command of a device that is back: one *)
(* for which QueueCommand was called, found the device registered and       *)
(* returned an ID, all after phase 1 removed the device. Phase 2 works on   *)
(* the serial numbers of phase 1 and takes these commands all the same.     *)
EvictionSparesActive == [][owed \cap (discarded' \ discarded) = {}]_vars

(* README.md: "The server updates Device.LastActivity at each request from *)
(* the device"; requireDevice: "registers the device, and updates its      *)
(* activity timestamp". So a request that got past requireDevice leaves    *)
(* its device registered and active. The two halves are two critical       *)
(* sections, and an eviction fits between them.                            *)
RequestKeepsDevice ==
    [][\A t \in Threads :
         (call[t].at = "registered" /\ call'[t] # call[t])
           => devices'[call[t].sn] = "fresh"]_vars
===============================================================================
