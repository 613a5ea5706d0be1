------------------------- MODULE ExampleProgramClaims -------------------------
(***************************************************************************)
(* What the comments of the repository say of shutdown and of time zones,  *)
(* and the steps of ExampleProgram refute.                                 *)
(***************************************************************************)
EXTENDS MCExampleProgram

(* run of the database example: the shutdown goroutine is to "wait for     *)
(* context cancellation, then gracefully stop the HTTP server so in-flight *)
(* requests can finish". So no request is left when the process exits.     *)
(* ListenAndServe returns when Shutdown starts, and nothing waits for the  *)
(* goroutine in which Shutdown waits for them.                             *)
InFlightFinish == run = "exited" => \A t \in Threads : request[t] = Idle

(* options.go, WithDeviceTimezone: "Attendance timestamps from this device *)
(* are interpreted in the given location". The zone goes with the Device   *)
(* when it is evicted, and the next request registers it without one.      *)
ConfiguredZone ==
    \A i \in DOMAIN store : Sender[store[i].upload] \in Configured => store[i].zone = "own"
===============================================================================
