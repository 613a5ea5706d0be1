-------------------------------- MODULE Probe ---------------------------------
(***************************************************************************)
(* One run of cmd/probe: a goroutine queues the candidate commands one     *)
(* after the other and then watches for their confirmations, the result    *)
(* callback attributes each confirmation to a candidate, and run prints a  *)
(* last summary once the HTTP server has stopped. The server behind it is  *)
(* reduced to what CommandQueue and CallbackPipeline establish: a command  *)
(* reaches the device at most once, under an ID of its own, and results    *)
(* are called back one at a time in the order they were accepted.          *)
(***************************************************************************)
EXTENDS Naturals, Sequences, FiniteSets, Functions

CONSTANTS
    Candidates,   \* how many candidate commands there are
    Unsafe,       \* the destructive ones, when -destructive is not given
    MaxCommands,  \* maxCommands of probeConfig, 0 = unlimited
    StaleIDs,     \* IDs of an earlier run the device may still confirm
    MaxConfirms   \* bound: confirmations the device sends

ASSUME ProbeAssumption ==
    /\ Candidates \in Nat /\ MaxCommands \in Nat /\ MaxConfirms \in Nat
    /\ Unsafe \subseteq 1..Candidates
    /\ StaleIDs \subseteq Nat

VARIABLES
    results,    \* under mu: [id, cmd, of], and history: was all orderly so far
    queued,     \* under mu: the candidates queued, in order
    idMap,      \* under mu: ID -> candidate
    replied,    \* under mu: how many results came
    prober,     \* the queueing goroutine: where it is and what it remembers
    next,       \* the candidate its loop is at
    main,       \* run: "serving", "snapshot", "print", "close", "drain", "exited"
    last,       \* the snapshot run took for its own summary
    cancelled,  \* ctx is done
    online,     \* IsDeviceOnline
    cmdID,      \* IDs handed out by the server
    waiting,    \* IDs in the server's queue
    held,       \* IDs the device received
    pending,    \* IDs received and not confirmed
    callbacks   \* results accepted and not called back: [id, of, orderly]

(* History. *)
VARIABLES
    issued,       \* ID -> the candidate it stands for
    confirms,     \* the IDs the device confirmed, in order; 0 for a stale one
    interrupted,  \* the user pressed Ctrl+C
    summaries     \* the summaries printed

shared == <<results, queued, idMap, replied>>
server == <<online, cmdID, waiting, held, pending, callbacks, issued, confirms>>
ending == <<main, last, summaries>>
vars   == <<shared, server, ending, prober, next, cancelled, interrupted>>

Init ==
    /\ results = <<>> /\ queued = <<>> /\ idMap = <<>> /\ replied = 0
    /\ prober = [at |-> "waiting"] /\ next = 1
    /\ main = "serving" /\ last = <<>> /\ cancelled = FALSE
    /\ online = TRUE            \* RegisterDevice sets LastActivity
    /\ cmdID = 0 /\ waiting = {} /\ held = {} /\ pending = {} /\ callbacks = <<>>
    /\ issued = <<>> /\ confirms = <<>> /\ interrupted = FALSE /\ summaries = <<>>

Running == main # "exited"
Prober(a, b) == Running /\ prober.at = a /\ prober' = b

-----------------------------------------------------------------------------
(* The queueing goroutine. *)

DeviceOnline ==
    /\ online
    /\ Prober("waiting", [at |-> "check"])
    /\ UNCHANGED <<shared, server, ending, next, cancelled, interrupted>>

(* ctx.Done, in the wait for the device, between candidates, while watching. *)
ProberStops ==
    /\ cancelled
    /\ \E a \in {"waiting", "check", "watch"} : Prober(a, [at |-> "done"])
    /\ UNCHANGED <<shared, server, ending, next, cancelled, interrupted>>

NextCandidate ==
    /\ ~cancelled /\ next <= Candidates
    /\ \/ next \in Unsafe /\ Prober("check", [at |-> "check"]) /\ next' = next + 1
       \/ next \notin Unsafe /\ Prober("check", [at |-> "queue"]) /\ UNCHANGED next
    /\ UNCHANGED <<shared, server, ending, cancelled, interrupted>>

(* QueueCommand; its error is printed and the candidate skipped. *)
Queue ==
    /\ cmdID' = cmdID + 1
    /\ IF MaxCommands > 0 /\ Cardinality(waiting \cup pending) >= MaxCommands
       THEN /\ Prober("queue", [at |-> "check"])
            /\ next' = next + 1
            /\ UNCHANGED <<waiting, issued>>
       ELSE /\ Prober("queue", [at |-> "record", id |-> cmdID + 1])
            /\ waiting' = waiting \cup {cmdID + 1}
            /\ issued' = [id \in DOMAIN issued \cup {cmdID + 1} |->
                            IF id = cmdID + 1 THEN next ELSE issued[id]]
            /\ UNCHANGED next
    /\ UNCHANGED <<shared, ending, cancelled, interrupted,
                   online, held, pending, callbacks, confirms>>

(* Only now, under mu, does the candidate join queued and idMap. *)
Record ==
    /\ Prober("record", [at |-> "check"])
    /\ queued' = Append(queued, next)
    /\ idMap' = [id \in DOMAIN idMap \cup {prober.id} |->
                   IF id = prober.id THEN next ELSE idMap[id]]
    /\ next' = next + 1
    /\ UNCHANGED <<results, replied, server, ending, cancelled, interrupted>>

AllQueued ==
    /\ next > Candidates
    /\ Prober("check", [at |-> "watch"])
    /\ UNCHANGED <<shared, server, ending, next, cancelled, interrupted>>

(* The ticker finds nothing outstanding; otherwise it goes on watching. *)
Tick ==
    /\ Len(queued) <= replied
    /\ Prober("watch", [at |-> "snapshot"])
    /\ UNCHANGED <<shared, server, ending, next, cancelled, interrupted>>

(* Mutant of WatchTimeout: break leaves the select, not the loop. *)
TimeoutBreaksSelect ==
    /\ Prober("watch", [at |-> "watch"])
    /\ UNCHANGED <<shared, server, ending, next, cancelled, interrupted>>

WatchTimeout ==
    /\ Prober("watch", [at |-> "snapshot"])
    /\ UNCHANGED <<shared, server, ending, next, cancelled, interrupted>>

(* What a summary is printed from, copied under mu. *)
Snapshot == [results |-> results, queued |-> queued, replied |-> replied]

(* Mutant of ProberSnapshot: cancelFn is called before the summary. *)
SnapshotCancels ==
    /\ Prober("snapshot", [at |-> "print", summary |-> Snapshot])
    /\ cancelled' = TRUE
    /\ UNCHANGED <<shared, server, ending, next, interrupted>>

ProberSnapshot ==
    /\ Prober("snapshot", [at |-> "print", summary |-> Snapshot])
    /\ UNCHANGED <<shared, server, ending, next, cancelled, interrupted>>

(* printSummary, then cancelFn. *)
ProberPrints ==
    /\ Prober("print", [at |-> "done"])
    /\ summaries' = Append(summaries, prober.summary)
    /\ cancelled' = TRUE
    /\ UNCHANGED <<shared, server, main, last, next, interrupted>>

ProberStep ==
    \/ DeviceOnline \/ ProberStops \/ NextCandidate \/ Queue \/ Record \/ AllQueued
    \/ Tick \/ ProberSnapshot \/ ProberPrints

-----------------------------------------------------------------------------
(* The device and the server. *)

(* The device has been silent beyond the online threshold. *)
Silent ==
    /\ Running /\ online /\ online' = FALSE
    /\ UNCHANGED <<shared, ending, prober, next, cancelled, interrupted,
                   cmdID, waiting, held, pending, callbacks, issued, confirms>>

Poll ==
    /\ Running
    /\ online' = TRUE
    /\ waiting' = {} /\ held' = held \cup waiting /\ pending' = pending \cup waiting
    /\ UNCHANGED <<shared, ending, prober, next, cancelled, interrupted,
                   cmdID, callbacks, issued, confirms>>

(* The device confirmed the commands of this run in the order of their IDs, *)
(* each once, and none of an earlier run.                                   *)
Orderly(seq) ==
    \A i \in DOMAIN seq :
        /\ seq[i] # 0
        /\ {id \in DOMAIN issued : id < seq[i]} \subseteq {seq[j] : j \in 1..i - 1}
        /\ \A j \in 1..i - 1 : seq[j] # seq[i]

(* HandleDeviceCmd accepts a result: any command the device holds, again or *)
(* for the first time, or one of an earlier run. Requests being handled go  *)
(* on after the HTTP server stopped listening, until the process exits.     *)
Confirm(id, of) ==
    LET log == Append(confirms, IF of = 0 THEN 0 ELSE id)
    IN  /\ Running /\ Len(confirms) < MaxConfirms
        /\ confirms' = log
        /\ callbacks' = Append(callbacks, [id |-> id, of |-> of, orderly |-> Orderly(log)])
        /\ pending' = pending \ {id}
        /\ online' = TRUE
        /\ UNCHANGED <<shared, ending, prober, next, cancelled, interrupted,
                       cmdID, waiting, held, issued>>

DeviceConfirms ==
    \/ \E id \in held : Confirm(id, issued[id])
    \/ \E id \in StaleIDs : Confirm(id, 0)

(* Mutant of Attributed: an unknown ID is taken for the newest command.     *)
AttributedNewest(id) ==
    IF id \in DOMAIN idMap THEN idMap[id]
    ELSE IF queued # <<>> THEN queued[Len(queued)] ELSE 0

(* The candidate a result is taken for, 0 when it is "(unknown)". *)
Attributed(id) ==
    IF id \in DOMAIN idMap THEN idMap[id]
    ELSE IF replied < Len(queued) THEN queued[replied + 1] ELSE 0

Result(c) == [id |-> c.id, of |-> c.of, orderly |-> c.orderly, cmd |-> Attributed(c.id)]

(* Mutant of Callback: only results with a known ID are counted.            *)
CallbackCountsKnown ==
    /\ Running /\ callbacks # <<>>
    /\ results' = Append(results, Result(Head(callbacks)))
    /\ replied' = IF Head(callbacks).id \in DOMAIN idMap THEN replied + 1 ELSE replied
    /\ callbacks' = Tail(callbacks)
    /\ UNCHANGED <<queued, idMap, ending, prober, next, cancelled, interrupted,
                   online, cmdID, waiting, held, pending, issued, confirms>>

(* The callback given to WithOnCommandResult, all of it under mu. *)
Callback ==
    /\ Running /\ callbacks # <<>>
    /\ results' = Append(results, Result(Head(callbacks)))
    /\ replied' = replied + 1
    /\ callbacks' = Tail(callbacks)
    /\ UNCHANGED <<queued, idMap, ending, prober, next, cancelled, interrupted,
                   online, cmdID, waiting, held, pending, issued, confirms>>

-----------------------------------------------------------------------------
(* run and its shutdown goroutine. *)

CtrlC ==
    /\ Running /\ ~interrupted
    /\ cancelled' = TRUE /\ interrupted' = TRUE
    /\ UNCHANGED <<shared, server, ending, prober, next>>

(* srv.Shutdown, upon which ListenAndServe returns. *)
StopServing ==
    /\ main = "serving" /\ cancelled /\ main' = "snapshot"
    /\ UNCHANGED <<shared, server, last, summaries, prober, next, cancelled, interrupted>>

(* The address is taken: run returns the error, and no request ever came.   *)
ListenFails ==
    /\ main = "serving" /\ held = {} /\ confirms = <<>> /\ main' = "close"
    /\ UNCHANGED <<shared, server, last, summaries, prober, next, cancelled, interrupted>>

MainSnapshot ==
    /\ main = "snapshot" /\ main' = "print"
    /\ last' = <<Snapshot>>
    /\ UNCHANGED <<shared, server, summaries, prober, next, cancelled, interrupted>>

MainPrints ==
    /\ main = "print" /\ main' = "close"
    /\ summaries' = summaries \o last
    /\ UNCHANGED <<shared, server, last, prober, next, cancelled, interrupted>>

(* The deferred cancelFn and server.Close, which drains the callbacks. *)
Close ==
    /\ main = "close" /\ main' = "drain"
    /\ cancelled' = TRUE
    /\ UNCHANGED <<shared, server, last, summaries, prober, next, interrupted>>

Exit ==
    /\ main = "drain" /\ callbacks = <<>> /\ main' = "exited"
    /\ UNCHANGED <<shared, server, last, summaries, prober, next, cancelled, interrupted>>

MainStep == StopServing \/ MainSnapshot \/ MainPrints \/ Close \/ Exit

Next ==
    \/ ProberStep \/ WatchTimeout \/ MainStep \/ ListenFails
    \/ Silent \/ Poll \/ DeviceConfirms \/ Callback \/ CtrlC

(* Goroutines run, timers fire and callbacks return; nothing is assumed of  *)
(* the device or of the user.                                               *)
Spec ==
    /\ Init /\ [][Next]_vars
    /\ WF_vars(ProberStep) /\ WF_vars(WatchTimeout)
    /\ WF_vars(Callback) /\ WF_vars(MainStep)

-----------------------------------------------------------------------------
(* Properties. *)

TypeOK ==
    /\ replied = Len(results)
    /\ DOMAIN idMap \subseteq DOMAIN issued /\ DOMAIN issued \subseteq 1..cmdID
    /\ Len(queued) = Cardinality(DOMAIN idMap)
    /\ next \in 1..Candidates + 1
    /\ prober.at \in {"waiting", "check", "queue", "record", "watch",
                      "snapshot", "print", "done"}
    /\ waiting \cap held = {} /\ pending \subseteq held
    /\ held \cup waiting = DOMAIN issued

(* A device that confirms in order, once, and nothing of an earlier run has *)
(* each of its results taken for the right candidate, or for none, though   *)
(* a result may overtake the registration of its ID in idMap: the fallback  *)
(* to the order of queued then has no candidate left to mistake it for.     *)
OrderlyAttribution ==
    \A i \in DOMAIN results :
        results[i].orderly => results[i].cmd \in {results[i].of, 0}

NoReply(s) == {s.queued[i] : i \in s.replied + 1..Len(s.queued)}
HasReply(s) == {s.results[i].of : i \in DOMAIN s.results}

(* As long as the device is orderly, a summary lists a queued command as    *)
(* NO REPLY exactly when no result of it is in the summary, whichever       *)
(* goroutine prints it and wherever the other was when it took its copy.    *)
SummaryAccurate ==
    \A n \in DOMAIN summaries :
        LET s == summaries[n]
        IN  (\A i \in DOMAIN s.results : s.results[i].orderly)
              => NoReply(s) = {s.queued[i] : i \in DOMAIN s.queued} \ HasReply(s)

(* Unless the user interrupts the run, the summary run prints at its end is *)
(* the last, and repeats every result of the one the goroutine printed.     *)
SummariesGrow ==
    ~interrupted =>
        \A m, n \in DOMAIN summaries : m < n =>
            /\ Len(summaries[m].results) <= Len(summaries[n].results)
            /\ \A i \in DOMAIN summaries[m].results :
                 summaries[m].results[i] = summaries[n].results[i]

(* Once the device was seen online the run ends, even if it never answers   *)
(* a command: the watch loop times out, cancels the context, and nothing    *)
(* run waits for waits for run.                                             *)
ProbeEnds == (prober.at # "waiting") ~> (main = "exited")
===============================================================================
