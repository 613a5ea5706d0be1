---------------------------- MODULE CommandMailbox ----------------------------
(***************************************************************************)
(* What the command half of the server promises, without its threads,      *)
(* locks, counters and HTTP handlers: every device has a bounded mailbox.  *)
(* A command is put in it at most once and under an ID never used before,  *)
(* leaves it for the device with everything else in it, oldest first, and  *)
(* is then outstanding until it is confirmed. A mailbox that is given up   *)
(* loses its waiting and its outstanding commands together.                *)
(***************************************************************************)
EXTENDS Naturals, Sequences, FiniteSets, Functions

CONSTANTS
    SerialNumbers,  \* the devices that may own a mailbox
    CommandIDs,     \* the identities commands may get
    Capacity        \* commands waiting or outstanding per device, 0 = no limit

VARIABLES
    box,            \* sn -> waiting commands, oldest first
    outstanding,    \* sn -> commands taken and not confirmed
    used            \* identities given to a command so far

vars == <<box, outstanding, used>>

Init ==
    /\ box = [sn \in SerialNumbers |-> <<>>]
    /\ outstanding = [sn \in SerialNumbers |-> {}]
    /\ used = {}

Load(sn) == Len(box[sn]) + Cardinality(outstanding[sn])

Put(sn, id) ==
    /\ id \notin used
    /\ Capacity > 0 => Load(sn) < Capacity
    /\ box' = [box EXCEPT ![sn] = Append(@, id)]
    /\ used' = used \cup {id}
    /\ UNCHANGED outstanding

Take(sn) ==
    /\ box' = [box EXCEPT ![sn] = <<>>]
    /\ outstanding' = [outstanding EXCEPT ![sn] = @ \cup Range(box[sn])]
    /\ UNCHANGED used

Confirm(sn, id) ==
    /\ id \in outstanding[sn]
    /\ outstanding' = [outstanding EXCEPT ![sn] = @ \ {id}]
    /\ UNCHANGED <<box, used>>

GiveUp(S) ==
    /\ box' = [sn \in SerialNumbers |-> IF sn \in S THEN <<>> ELSE box[sn]]
    /\ outstanding' = [sn \in SerialNumbers |-> IF sn \in S THEN {} ELSE outstanding[sn]]
    /\ UNCHANGED used

Next ==
    \/ \E S \in SUBSET SerialNumbers : GiveUp(S)
    \/ \E sn \in SerialNumbers : Take(sn)
    \/ \E sn \in SerialNumbers, id \in CommandIDs : Put(sn, id) \/ Confirm(sn, id)

Spec == Init /\ [][Next]_vars
===============================================================================
