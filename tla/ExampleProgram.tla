---------------------------- MODULE ExampleProgram ----------------------------
(***************************************************************************)
(* A program that embeds the server as the examples do together: it        *)
(* registers its devices, with the time zones RegisterDevice is given in   *)
(* device.go, serves the device protocol and a REST API, keeps the         *)
(* attendance records its callback is given in an AttendanceStore, and on  *)
(* Ctrl+C shuts the HTTP server and then the ADMS server down. It composes *)
(* the registry (whose eviction takes a device's time zone and options     *)
(* with it) with the callback pipeline, of which it uses what DeliveryLog  *)
(* says and CallbackPipeline implements; of the callbacks only the         *)
(* attendance batches are followed.                                        *)
(***************************************************************************)
EXTENDS Naturals, Sequences, FiniteSets

CONSTANTS
    SerialNumbers,  \* the devices
    Configured,     \* those registered at the start, with a time zone
    Threads,        \* goroutines that handle requests
    Uploads,        \* the ATTLOG bodies devices upload
    Sender,         \* upload -> serial number
    Times,          \* upload -> the timestamps of its records, in order
    MaxBatches,     \* bound: batches accepted in a behaviour
    Midnights,      \* the instants days begin at, in order
    Hours24         \* the length summaryHandler gives every day

ASSUME ProgramAssumption ==
    /\ Configured \subseteq SerialNumbers
    /\ Sender \in [Uploads -> SerialNumbers]
    /\ Times \in [Uploads -> Seq(Nat)]
    /\ MaxBatches \in Nat /\ Hours24 \in Nat
    /\ Midnights \in Seq(Nat)
    /\ \A d, e \in 1..Len(Midnights) : d < e => Midnights[d] < Midnights[e]

VARIABLES
    devices,    \* sn -> "absent", "fresh", or "stale" for eviction
    zone,       \* sn -> Device.Timezone: "own", or "default" where it is nil
    options,    \* sn -> are the options of the registry body in Device.Options
    request,    \* thread -> the request it handles
    log, pos, current, down,    \* the callback pipeline, as in DeliveryLog
    saved,      \* how many records of the current batch the callback saved
    store,      \* AttendanceStore.records
    cancelled,  \* the context of run
    listening,  \* the HTTP server accepts connections
    run         \* "serving", "closing" (the deferred Close), or "exited"

(* History. *)
VARIABLES
    acked,      \* uploads whose sender got an OK
    told,       \* devices that got an OK for their registry body
    evicted     \* devices evicted so far

registry == <<devices, zone, options>>
pipeline == <<log, pos, current, down>>
program  == <<cancelled, listening, run>>
history  == <<acked, told, evicted>>
vars     == <<registry, request, pipeline, saved, store, program, history>>

Batches  == [upload : Uploads, zone : {"own", "default"}]
Pipeline == INSTANCE DeliveryLog

Idle       == [at |-> "idle"]
Goto(t, r) == request' = [request EXCEPT ![t] = r]
Done(t)    == Goto(t, Idle)
Running    == run # "exited"
At(t, a)   == Running /\ request[t].at = a

(* Before it serves, the program registers the devices it knows, as the     *)
(* examples do, each with WithDeviceTimezone, as the comment of             *)
(* RegisterDevice shows: the examples themselves configure no zone.         *)
Registrations ==
    /\ devices = [sn \in SerialNumbers |-> IF sn \in Configured THEN "fresh" ELSE "absent"]
    /\ zone = [sn \in SerialNumbers |-> IF sn \in Configured THEN "own" ELSE "default"]
    /\ options = [sn \in SerialNumbers |-> FALSE]

Init ==
    /\ Registrations
    /\ request = [t \in Threads |-> Idle]
    /\ Pipeline!Init /\ saved = 0 /\ store = <<>>
    /\ cancelled = FALSE /\ listening = TRUE /\ run = "serving"
    /\ acked = {} /\ told = {} /\ evicted = {}

-----------------------------------------------------------------------------
(* The registry. *)

(* Mutant of RegisterDevice: a device that registers again starts afresh.   *)
RegisterAfresh(sn) ==
    /\ devices' = [devices EXCEPT ![sn] = "fresh"]
    /\ zone' = [zone EXCEPT ![sn] = "default"]
    /\ options' = [options EXCEPT ![sn] = FALSE]

(* RegisterDevice without options, as requireDevice calls it: a new Device  *)
(* has no zone of its own, a known one is left as it is.                    *)
RegisterDevice(sn) ==
    /\ devices' = [devices EXCEPT ![sn] = IF @ = "absent" THEN "fresh" ELSE @]
    /\ UNCHANGED <<zone, options>>

(* The program sets the zone of a device again; unknown devices are an      *)
(* error and nothing changes.                                               *)
SetDeviceTimezone(sn) ==
    /\ Running /\ sn \in Configured /\ devices[sn] # "absent"
    /\ zone' = [zone EXCEPT ![sn] = "own"]
    /\ UNCHANGED <<devices, options, request, pipeline, saved, store, program, history>>

Age(sn) ==
    /\ Running /\ devices[sn] = "fresh"
    /\ devices' = [devices EXCEPT ![sn] = "stale"]
    /\ UNCHANGED <<zone, options, request, pipeline, saved, store, program, history>>

(* Mutant of EvictDevices: zones are kept in a map that is not cleaned up.  *)
EvictKeepsZone ==
    LET stale == {sn \in SerialNumbers : devices[sn] = "stale"}
    IN  /\ Running /\ stale # {}
        /\ devices' = [sn \in SerialNumbers |-> IF sn \in stale THEN "absent" ELSE devices[sn]]
        /\ evicted' = evicted \cup stale
        /\ UNCHANGED <<zone, options, request, pipeline, saved, store, program, acked, told>>

(* Phase 1 of evictStaleDevices: the Device goes, with all it holds. Close  *)
(* waits for the eviction worker, which may be in a last sweep until then.  *)
EvictDevices ==
    LET stale == {sn \in SerialNumbers : devices[sn] = "stale"}
    IN  /\ Running /\ stale # {}
        /\ devices' = [sn \in SerialNumbers |-> IF sn \in stale THEN "absent" ELSE devices[sn]]
        /\ zone' = [sn \in SerialNumbers |-> IF sn \in stale THEN "default" ELSE zone[sn]]
        /\ options' = [sn \in SerialNumbers |-> options[sn] /\ sn \notin stale]
        /\ evicted' = evicted \cup stale
        /\ UNCHANGED <<request, pipeline, saved, store, program, acked, told>>

-----------------------------------------------------------------------------
(* Requests of the devices. requireDevice is two critical sections.         *)

Start(t) == At(t, "idle") /\ listening

(* A device uploads a body until it is told OK. *)
Upload(t, u) ==
    /\ Start(t) /\ u \notin acked
    /\ RegisterDevice(Sender[u])
    /\ Goto(t, [at |-> "activity", sn |-> Sender[u], then |-> [at |-> "zone", upload |-> u]])
    /\ UNCHANGED <<pipeline, saved, store, program, history>>

Registry(t, sn) ==
    /\ Start(t)
    /\ RegisterDevice(sn)
    /\ Goto(t, [at |-> "activity", sn |-> sn, then |-> [at |-> "options", sn |-> sn]])
    /\ UNCHANGED <<pipeline, saved, store, program, history>>

Activity(t) ==
    /\ At(t, "activity")
    /\ devices' = [devices EXCEPT ![request[t].sn] = IF @ = "absent" THEN @ ELSE "fresh"]
    /\ Goto(t, request[t].then)
    /\ UNCHANGED <<zone, options, pipeline, saved, store, program, history>>

(* HandleCData, ATTLOG: deviceLocationLocked in a section of its own, then  *)
(* the records are parsed in that zone.                                     *)
ReadZone(t) ==
    LET u == request[t].upload
    IN  /\ At(t, "zone")
        /\ Goto(t, [at |-> "dispatch", batch |-> [upload |-> u, zone |-> zone[Sender[u]]]])
        /\ UNCHANGED <<registry, pipeline, saved, store, program, history>>

DispatchAccepted(t) ==
    /\ At(t, "dispatch") /\ Len(log) < MaxBatches
    /\ Pipeline!Accept(request[t].batch)
    /\ Goto(t, [at |-> "answer", upload |-> request[t].batch.upload])
    /\ UNCHANGED <<registry, saved, store, program, history>>

(* Mutant of DispatchRefused: the upload is answered OK all the same. *)
RefusedAnswersOK(t) ==
    /\ At(t, "dispatch")
    /\ Goto(t, [at |-> "answer", upload |-> request[t].batch.upload])
    /\ UNCHANGED <<registry, pipeline, saved, store, program, history>>

(* Queue full or server closed: 503. *)
DispatchRefused(t) ==
    /\ At(t, "dispatch")
    /\ Done(t)
    /\ UNCHANGED <<registry, pipeline, saved, store, program, history>>

(* The OK reaches the device or is lost. *)
Answer(t) ==
    /\ At(t, "answer")
    /\ acked' \in {acked, acked \cup {request[t].upload}}
    /\ Done(t)
    /\ UNCHANGED <<registry, pipeline, saved, store, program, told, evicted>>

(* HandleRegistry: the pairs are copied if the device is still there.       *)
CopyOptions(t) ==
    LET sn == request[t].sn
    IN  /\ At(t, "options")
        /\ options' = [options EXCEPT ![sn] = @ \/ devices[sn] # "absent"]
        /\ Goto(t, [at |-> "copied", sn |-> sn])
        /\ UNCHANGED <<devices, zone, pipeline, saved, store, program, history>>

(* Their dispatch is accepted and the OK reaches the device, or neither.    *)
AnswerRegistry(t) ==
    /\ At(t, "copied")
    /\ told' \in {told, told \cup {request[t].sn}}
    /\ Done(t)
    /\ UNCHANGED <<registry, pipeline, saved, store, program, acked, evicted>>

-----------------------------------------------------------------------------
(* Requests of the API. *)

(* Mutant of Find: requireDevice checks the serial number only. *)
FindAny(t, sn) ==
    /\ Start(t)
    /\ Goto(t, [at |-> "found", sn |-> sn])
    /\ UNCHANGED <<registry, pipeline, saved, store, program, history>>

(* requireDevice of the commands example; 404 for an unknown device. *)
Find(t, sn) ==
    /\ Start(t) /\ devices[sn] # "absent"
    /\ Goto(t, [at |-> "found", sn |-> sn])
    /\ UNCHANGED <<registry, pipeline, saved, store, program, history>>

(* The handler looks the device up again. Where it is gone, queueOrFail     *)
(* answers 500 and handleDeviceDetail dereferences nil: the middleware logs *)
(* the panic and panics again, and net/http ends the request.               *)
Fails(t) == At(t, "found") /\ devices[request[t].sn] = "absent"

(* The end of an API request, whatever its answer is: 200, 400, 500, or 503 *)
(* of a full queue. What a command does to the queues is in CommandQueue.   *)
Respond(t) ==
    /\ At(t, "found")
    /\ Done(t)
    /\ UNCHANGED <<registry, pipeline, saved, store, program, history>>

-----------------------------------------------------------------------------
(* The callback worker: SaveAttendance for each record of a batch. *)

TakeBatch ==
    /\ Running /\ Pipeline!Start
    /\ saved' = 0
    /\ UNCHANGED <<registry, request, store, program, history>>

SaveAttendance ==
    LET batch == current[1]
    IN  /\ Running /\ current # <<>> /\ saved < Len(Times[batch.upload])
        /\ store' = Append(store, [upload |-> batch.upload, nr |-> saved + 1,
                                   at |-> Times[batch.upload][saved + 1],
                                   zone |-> batch.zone])
        /\ saved' = saved + 1
        /\ UNCHANGED <<registry, request, pipeline, program, history>>

BatchDone ==
    /\ Running /\ current # <<>> /\ saved = Len(Times[current[1].upload])
    /\ Pipeline!Finish
    /\ UNCHANGED <<registry, request, saved, store, program, history>>

-----------------------------------------------------------------------------
(* run, its shutdown goroutine, and main. *)

Interrupt ==
    /\ Running /\ cancelled' = TRUE
    /\ UNCHANGED <<registry, request, pipeline, saved, store, listening, run, history>>

(* Mutant of Shutdown: it is deferred in run, not called by a goroutine.    *)
ShutdownDeferred ==
    /\ cancelled /\ listening /\ run = "closing" /\ listening' = FALSE
    /\ UNCHANGED <<registry, request, pipeline, saved, store, cancelled, run, history>>

(* srv.Shutdown closes the listener at once, then waits for the requests.   *)
Shutdown ==
    /\ cancelled /\ listening /\ Running /\ listening' = FALSE
    /\ UNCHANGED <<registry, request, pipeline, saved, store, cancelled, run, history>>

(* ListenAndServe returns as soon as Shutdown was called, not when it is    *)
(* done: the deferred server.Close begins.                                  *)
ListenReturns ==
    /\ run = "serving" /\ ~listening /\ run' = "closing"
    /\ UNCHANGED <<registry, request, pipeline, saved, store, cancelled, listening, history>>

(* ListenAndServe finds the address taken, before any request: run returns  *)
(* the error through the same Close.                                        *)
ListenFails ==
    /\ run = "serving" /\ listening /\ log = <<>> /\ request = [t \in Threads |-> Idle]
    /\ listening' = FALSE /\ run' = "closing"
    /\ UNCHANGED <<registry, request, pipeline, saved, store, cancelled, history>>

(* Mutant of CloseReturns: nothing waits for the callback worker.           *)
CloseAtOnce ==
    /\ run = "closing" /\ run' = "exited"
    /\ down' = TRUE
    /\ UNCHANGED <<registry, request, log, pos, current, saved, store,
                   cancelled, listening, history>>

(* Close returns when every accepted batch was called back; then run and    *)
(* main return, and the process ends with whatever request is in progress.  *)
CloseReturns ==
    /\ run = "closing" /\ Pipeline!ShutDown /\ run' = "exited"
    /\ UNCHANGED <<registry, request, saved, store, cancelled, listening, history>>

-----------------------------------------------------------------------------
ThreadStep(t) ==
    \/ Activity(t) \/ ReadZone(t) \/ DispatchAccepted(t) \/ DispatchRefused(t)
    \/ Answer(t) \/ CopyOptions(t) \/ AnswerRegistry(t) \/ Respond(t)

WorkerStep == TakeBatch \/ SaveAttendance \/ BatchDone
MainStep   == Shutdown \/ ListenReturns \/ CloseReturns

Next ==
    \/ \E sn \in SerialNumbers : SetDeviceTimezone(sn) \/ Age(sn)
    \/ EvictDevices
    \/ \E t \in Threads :
         \/ \E u \in Uploads : Upload(t, u)
         \/ \E sn \in SerialNumbers : Registry(t, sn) \/ Find(t, sn)
         \/ ThreadStep(t)
    \/ WorkerStep \/ MainStep \/ Interrupt \/ ListenFails

(* Callbacks return and goroutines run; that requests come, end, or that    *)
(* anyone presses Ctrl+C is not assumed.                                    *)
Spec == Init /\ [][Next]_vars /\ WF_vars(WorkerStep) /\ WF_vars(MainStep)

-----------------------------------------------------------------------------
(* AttendanceStore queries. *)

(* Mutant of InRange: both ends belong to the range.                        *)
InRangeInclusive(r, start, end) == start <= r.at /\ r.at <= end

(* GetRecordsByDateRange: After(start) and Before(end). *)
InRange(r, start, end) == start < r.at /\ r.at < end

(* summaryHandler, asked on day d: from its midnight, 24 hours.             *)
InSummary(r, d) == InRange(r, Midnights[d], Midnights[d] + Hours24)

-----------------------------------------------------------------------------
(* Properties. *)

Stored == [upload : Uploads, nr : Nat, at : Nat, zone : {"own", "default"}]

AfterActivity == [at : {"zone"}, upload : Uploads] \cup [at : {"options"}, sn : SerialNumbers]

Requests ==
    {Idle} \cup AfterActivity
    \cup [at : {"activity"}, sn : SerialNumbers, then : AfterActivity]
    \cup [at : {"dispatch"}, batch : Batches]
    \cup [at : {"answer"}, upload : Uploads]
    \cup [at : {"copied", "found"}, sn : SerialNumbers]

TypeOK ==
    /\ devices \in [SerialNumbers -> {"absent", "fresh", "stale"}]
    /\ zone \in [SerialNumbers -> {"own", "default"}]
    /\ options \in [SerialNumbers -> BOOLEAN]
    /\ \A sn \in SerialNumbers :
         devices[sn] = "absent" => zone[sn] = "default" /\ ~options[sn]
    /\ request \in [Threads -> Requests]
    /\ log \in Seq(Batches) /\ pos \in 0..Len(log)
    /\ current = <<>> \/ (pos > 0 /\ current = <<log[pos]>>)
    /\ saved \in Nat /\ store \in Seq(Stored)
    /\ current # <<>> => saved <= Len(Times[current[1].upload])
    /\ down \in BOOLEAN /\ cancelled \in BOOLEAN /\ listening \in BOOLEAN
    /\ run \in {"serving", "closing", "exited"}
    /\ acked \subseteq Uploads /\ told \subseteq SerialNumbers
    /\ evicted \subseteq SerialNumbers

Saved(u) ==
    \A n \in DOMAIN Times[u] : \E i \in DOMAIN store : store[i].upload = u /\ store[i].nr = n

(* An upload that was answered OK is in the store when the process exits,   *)
(* whatever requests and callbacks were in progress when it was stopped:    *)
(* the answer comes after the dispatch, and run defers a Close that drains. *)
AckedIsSaved == run = "exited" => \A u \in acked : Saved(u)

(* And while the program runs, it gets there without being stopped.         *)
AckedGetsSaved == \A u \in Uploads : u \in acked ~> Saved(u)

(* Ctrl+C ends the program, with requests in progress or devices that go on *)
(* sending: Shutdown, ListenAndServe and Close do not wait for each other.  *)
ProgramExits == cancelled ~> run = "exited"

(* The records of a device that was given a time zone are stored in it,     *)
(* unless the eviction worker removed the device: no request, registration  *)
(* or later upload makes the server forget the zone.                        *)
OwnZone ==
    \A i \in DOMAIN store :
        LET sn == Sender[store[i].upload]
        IN  sn \in Configured /\ sn \notin evicted => store[i].zone = "own"

(* A device that got OK for its registry body has its options in the        *)
(* registry, unless it was evicted, before or after they were copied.       *)
OptionsKept == \A sn \in told : options[sn] \/ sn \in evicted

(* An API request comes to fail (a panic in the device detail, a 500 for a  *)
(* command) after it found its device in one way only: the eviction worker  *)
(* removes the device, silent for too long, between the two looks at it.    *)
FailsOnlyByEviction ==
    [][\A t \in Threads :
         (~Fails(t) /\ Fails(t)')
           => request'[t] = request[t] /\ devices[request[t].sn] = "stale"]_vars

(* No stored record is in the summaries of two days, unless the first of    *)
(* them is shorter than 24 hours; and one that is in none is of a midnight, *)
(* or of the last hours of a day that is longer, or after the last day.     *)
SummariesPartition ==
    \A i \in DOMAIN store :
        LET r    == store[i]
            days == {d \in DOMAIN Midnights : InSummary(r, d)}
        IN  /\ \A d, e \in days : d < e => Midnights[d + 1] < Midnights[d] + Hours24
            /\ days = {} =>
                 \A d \in 1..Len(Midnights) - 1 :
                   Midnights[d] < r.at /\ r.at < Midnights[d + 1]
                     => Midnights[d] + Hours24 <= r.at
===============================================================================
