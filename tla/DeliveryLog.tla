----------------------------- MODULE DeliveryLog ------------------------------
(***************************************************************************)
(* What the callback pipeline promises, without its channel, its locks and *)
(* its goroutines: the batches that were accepted form a log, they are     *)
(* delivered one at a time in the order of the log, each exactly once, and *)
(* the pipeline is down only after the last of them, never to accept       *)
(* another.                                                                *)
(***************************************************************************)
EXTENDS Naturals, Sequences

CONSTANT Batches

VARIABLES
    log,      \* the batches accepted so far
    pos,      \* how many of them were taken for delivery
    current,  \* the batch being delivered, as a sequence of length 0 or 1
    down      \* the pipeline is shut down

vars == <<log, pos, current, down>>

Init ==
    /\ log = <<>>
    /\ pos = 0
    /\ current = <<>>
    /\ down = FALSE

Accept(batch) ==
    /\ ~down
    /\ log' = Append(log, batch)
    /\ UNCHANGED <<pos, current, down>>

Start ==
    /\ ~down
    /\ current = <<>>
    /\ pos < Len(log)
    /\ pos' = pos + 1
    /\ current' = <<log[pos + 1]>>
    /\ UNCHANGED <<log, down>>

Finish ==
    /\ current # <<>>
    /\ current' = <<>>
    /\ UNCHANGED <<log, pos, down>>

ShutDown ==
    /\ current = <<>>
    /\ pos = Len(log)
    /\ down' = TRUE
    /\ UNCHANGED <<log, pos, current>>

Next ==
    \/ \E batch \in Batches : Accept(batch)
    \/ Start
    \/ Finish
    \/ ShutDown

Spec == Init /\ [][Next]_vars
===============================================================================
