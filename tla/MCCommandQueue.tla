---------------------------- MODULE MCCommandQueue ----------------------------
(* TLC instances of CommandQueue. *)
EXTENDS CommandQueue, TLC

Symmetry == Permutations(SerialNumbers) \cup Permutations(Threads)

(* What the steps of a call still look at: a confirmation no longer at its  *)
(* device, nor at why its result counts as answered.                        *)
Ahead(c) ==
    CASE c.at \in {"lookup", "forget"} -> <<c.at, c.results>>
      [] c.at = "dispatch" -> <<c.at, c.results, c.found \/ c.early>>
      [] OTHER -> c

(* Results that reached the callback unexplained.                           *)
Unexplained ==
    {r.id : r \in {q \in reported : ~(q.correlated \/ q.early)}}
      \ (discarded \cup Answered)

(* The state without who queued a command, and of the calls and the results *)
(* only what later steps and the safety properties of this run can tell     *)
(* apart. Only CallerOrder looks at who queued a command; it is checked     *)
(* without this view.                                                       *)
Anonymous == <<devices, queues, [t \in Threads |-> Ahead(call[t])], worker,
               {<<a.id, a.sn>> : a \in accepted}, sent, confirmed, discarded,
               Answered, Unexplained>>

(* Bound: devices confirm the first ID only. A confirmation reads and       *)
(* deletes the entry of its own ID and leaves the others alone.             *)
FirstIDConfirmed ==
    \A t \in Threads :
        call[t].at \in {"lookup", "dispatch", "forget"} => call[t].results = <<1>>
===============================================================================
