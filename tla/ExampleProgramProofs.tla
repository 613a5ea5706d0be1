------------------------- MODULE ExampleProgramProofs -------------------------
(***************************************************************************)
(* Theorems about the program as a whole: what was answered OK is saved    *)
(* when the process exits, time zones and options of a device are kept     *)
(* until it is evicted, an API request that found its device fails only by *)
(* an eviction, and which records a day's summary misses. The numbers of   *)
(* devices, requests, uploads, records and batches are arbitrary.          *)
(***************************************************************************)
EXTENDS ExampleProgram, TLAPS

(* What a request remembers, by where it is.                               *)
LEMMA RequestShape ==
  ASSUME NEW r \in Requests
  PROVE  /\ r.at \in {"idle", "activity", "zone", "options", "dispatch", "answer", "copied", "found"}
         /\ r.at = "activity" => r.sn \in SerialNumbers /\ r.then \in AfterActivity
         /\ r.at \in {"zone", "answer"} => r.upload \in Uploads
         /\ r.at \in {"options", "copied", "found"} => r.sn \in SerialNumbers
         /\ r.at = "dispatch" => r.batch \in Batches
         /\ r.at = "idle" => r = Idle
  <1>1. CASE r = Idle
    BY <1>1 DEF Idle
  <1>2. CASE r \in [at : {"zone"}, upload : Uploads]
    BY <1>2
  <1>3. CASE r \in [at : {"options"}, sn : SerialNumbers]
    BY <1>3
  <1>4. CASE r \in [at : {"activity"}, sn : SerialNumbers, then : AfterActivity]
    BY <1>4
  <1>5. CASE r \in [at : {"dispatch"}, batch : Batches]
    BY <1>5
  <1>6. CASE r \in [at : {"answer"}, upload : Uploads]
    BY <1>6
  <1>7. CASE r \in [at : {"copied", "found"}, sn : SerialNumbers]
    BY <1>7
  <1> QED BY <1>1, <1>2, <1>3, <1>4, <1>5, <1>6, <1>7 DEF Requests, AfterActivity

(* The requests that a step can leave behind.                              *)
LEMMA MadeRequests ==
  /\ Idle \in Requests /\ AfterActivity \subseteq Requests
  /\ \A sn \in SerialNumbers, c \in AfterActivity :
       [at |-> "activity", sn |-> sn, then |-> c] \in Requests
  /\ \A u \in Uploads : /\ [at |-> "zone", upload |-> u] \in AfterActivity
                        /\ [at |-> "answer", upload |-> u] \in Requests
  /\ \A sn \in SerialNumbers : /\ [at |-> "options", sn |-> sn] \in AfterActivity
                               /\ [at |-> "copied", sn |-> sn] \in Requests
                               /\ [at |-> "found", sn |-> sn] \in Requests
  /\ \A b \in Batches : [at |-> "dispatch", batch |-> b] \in Requests
  BY DEF Requests, AfterActivity

(* TypeOK in four parts: the registry, the requests, the pipeline with the *)
(* store, and what is left.                                                *)
RegistryOK ==
    /\ devices \in [SerialNumbers -> {"absent", "fresh", "stale"}]
    /\ zone \in [SerialNumbers -> {"own", "default"}]
    /\ options \in [SerialNumbers -> BOOLEAN]
    /\ \A sn \in SerialNumbers :
         devices[sn] = "absent" => zone[sn] = "default" /\ ~options[sn]

PipelineOK ==
    /\ log \in Seq(Batches) /\ pos \in 0..Len(log)
    /\ current = <<>> \/ (pos > 0 /\ current = <<log[pos]>>)
    /\ saved \in Nat /\ store \in Seq(Stored)
    /\ current # <<>> => saved <= Len(Times[current[1].upload])

ProgramOK ==
    /\ down \in BOOLEAN /\ cancelled \in BOOLEAN /\ listening \in BOOLEAN
    /\ run \in {"serving", "closing", "exited"}
    /\ acked \subseteq Uploads /\ told \subseteq SerialNumbers
    /\ evicted \subseteq SerialNumbers

LEMMA TypeParts ==
  TypeOK <=> RegistryOK /\ request \in [Threads -> Requests] /\ PipelineOK /\ ProgramOK
  BY DEF TypeOK, RegistryOK, PipelineOK, ProgramOK

LEMMA TypeInit == Init => TypeOK
  <1> SUFFICES ASSUME Init PROVE TypeOK
    OBVIOUS
  <1>1. RegistryOK
    BY DEF Init, Registrations, RegistryOK
  <1>2. request \in [Threads -> Requests]
    BY MadeRequests DEF Init
  <1>3. PipelineOK
    <2>1. log = <<>> /\ pos = 0 /\ current = <<>> /\ saved = 0 /\ store = <<>>
      BY DEF Init, Pipeline!Init
    <2>2. log \in Seq(Batches) /\ Len(log) = 0 /\ store \in Seq(Stored)
      BY <2>1
    <2> QED BY <2>1, <2>2 DEF PipelineOK
  <1>4. ProgramOK
    BY DEF Init, ProgramOK, Pipeline!Init
  <1> QED BY <1>1, <1>2, <1>3, <1>4, TypeParts

-----------------------------------------------------------------------------
(* How each part changes.                                                  *)

LEMMA RegistryNext == TypeOK /\ [Next]_vars => RegistryOK'
  <1> SUFFICES ASSUME TypeOK, [Next]_vars PROVE RegistryOK'
    OBVIOUS
  <1>1. RegistryOK /\ request \in [Threads -> Requests]
    BY TypeParts
  <1>2. CASE UNCHANGED registry
    BY <1>1, <1>2 DEF RegistryOK, registry
  <1>3. ASSUME NEW sn \in SerialNumbers, SetDeviceTimezone(sn) PROVE RegistryOK'
    BY <1>1, <1>3 DEF RegistryOK, SetDeviceTimezone
  <1>4. ASSUME NEW sn \in SerialNumbers, Age(sn) PROVE RegistryOK'
    BY <1>1, <1>4 DEF RegistryOK, Age
  <1>5. CASE EvictDevices
    BY <1>1, <1>5 DEF RegistryOK, EvictDevices
  <1>6. ASSUME NEW sn \in SerialNumbers, RegisterDevice(sn) PROVE RegistryOK'
    BY <1>1, <1>6 DEF RegistryOK, RegisterDevice
  <1>7. ASSUME NEW t \in Threads, Activity(t) PROVE RegistryOK'
    <2>1. request[t].sn \in SerialNumbers
      BY <1>1, <1>7, RequestShape DEF Activity, At
    <2> QED BY <1>1, <1>7, <2>1 DEF RegistryOK, Activity
  <1>8. ASSUME NEW t \in Threads, CopyOptions(t) PROVE RegistryOK'
    <2>1. request[t].sn \in SerialNumbers
      BY <1>1, <1>8, RequestShape DEF CopyOptions, At
    <2> QED BY <1>1, <1>8, <2>1 DEF RegistryOK, CopyOptions
  <1>9. \A u \in Uploads : Sender[u] \in SerialNumbers
    BY ProgramAssumption
  <1> QED
    BY <1>2, <1>3, <1>4, <1>5, <1>6, <1>7, <1>8, <1>9
       DEF Next, ThreadStep, WorkerStep, MainStep, Upload, Registry, ReadZone, DispatchAccepted,
           DispatchRefused, Answer, AnswerRegistry, Find, Respond, TakeBatch, SaveAttendance,
           BatchDone, Interrupt, Shutdown, ListenReturns, ListenFails, CloseReturns, vars

LEMMA RequestsNext == TypeOK /\ [Next]_vars => request' \in [Threads -> Requests]
  <1> SUFFICES ASSUME TypeOK, [Next]_vars PROVE request' \in [Threads -> Requests]
    OBVIOUS
  <1>1. RegistryOK /\ request \in [Threads -> Requests]
    BY TypeParts
  <1>2. ASSUME NEW t \in Threads, NEW r \in Requests, Goto(t, r)
        PROVE  request' \in [Threads -> Requests]
    BY <1>1, <1>2 DEF Goto
  <1>3. CASE UNCHANGED request
    BY <1>1, <1>3
  <1>4. ASSUME NEW t \in Threads, NEW u \in Uploads, Upload(t, u)
        PROVE  request' \in [Threads -> Requests]
    <2>1. Sender[u] \in SerialNumbers
      BY ProgramAssumption
    <2> QED BY <1>2, <1>4, <2>1, MadeRequests DEF Upload
  <1>5. ASSUME NEW t \in Threads, NEW sn \in SerialNumbers, Registry(t, sn) \/ Find(t, sn)
        PROVE  request' \in [Threads -> Requests]
    BY <1>2, <1>5, MadeRequests DEF Registry, Find
  <1>6. ASSUME NEW t \in Threads, Done(t) PROVE request' \in [Threads -> Requests]
    BY <1>2, <1>6, MadeRequests DEF Done
  <1>7. ASSUME NEW t \in Threads, Activity(t) PROVE request' \in [Threads -> Requests]
    <2>1. request[t].then \in Requests
      BY <1>1, <1>7, RequestShape, MadeRequests DEF Activity, At
    <2> QED BY <1>2, <1>7, <2>1 DEF Activity
  <1>8. ASSUME NEW t \in Threads, ReadZone(t) PROVE request' \in [Threads -> Requests]
    <2>1. request[t].upload \in Uploads
      BY <1>1, <1>8, RequestShape DEF ReadZone, At
    <2>2. Sender[request[t].upload] \in SerialNumbers
      BY <2>1, ProgramAssumption
    <2>3. [upload |-> request[t].upload, zone |-> zone[Sender[request[t].upload]]] \in Batches
      BY <1>1, <2>1, <2>2 DEF RegistryOK, Batches
    <2> QED BY <1>2, <1>8, <2>3, MadeRequests DEF ReadZone
  <1>9. ASSUME NEW t \in Threads, DispatchAccepted(t) PROVE request' \in [Threads -> Requests]
    <2>1. request[t].batch.upload \in Uploads
      BY <1>1, <1>9, RequestShape DEF DispatchAccepted, At, Batches
    <2> QED BY <1>2, <1>9, <2>1, MadeRequests DEF DispatchAccepted
  <1>10. ASSUME NEW t \in Threads, CopyOptions(t) PROVE request' \in [Threads -> Requests]
    <2>1. request[t].sn \in SerialNumbers
      BY <1>1, <1>10, RequestShape DEF CopyOptions, At
    <2> QED BY <1>2, <1>10, <2>1, MadeRequests DEF CopyOptions
  <1> QED
    BY <1>3, <1>4, <1>5, <1>6, <1>7, <1>8, <1>9, <1>10
       DEF Next, ThreadStep, WorkerStep, MainStep, SetDeviceTimezone, Age, EvictDevices,
           DispatchRefused, Answer, AnswerRegistry, Respond, TakeBatch, SaveAttendance,
           BatchDone, Interrupt, Shutdown, ListenReturns, ListenFails, CloseReturns, vars

(* A batch has records, each with a time.                                  *)
LEMMA BatchFacts ==
  ASSUME NEW b \in Batches
  PROVE  /\ b.upload \in Uploads /\ b.zone \in {"own", "default"}
         /\ Times[b.upload] \in Seq(Nat) /\ Len(Times[b.upload]) \in Nat
         /\ DOMAIN Times[b.upload] = 1..Len(Times[b.upload])
  <1>1. b.upload \in Uploads /\ b.zone \in {"own", "default"}
    BY DEF Batches
  <1>2. Times[b.upload] \in Seq(Nat)
    BY <1>1, ProgramAssumption
  <1> QED BY <1>1, <1>2

LEMMA CurrentFacts ==
  ASSUME PipelineOK, current # <<>>
  PROVE  pos \in 1..Len(log) /\ current = <<log[pos]>> /\ current[1] = log[pos] /\ log[pos] \in Batches
  BY DEF PipelineOK

(* What a step does to the log, to the batch being called back, and to the *)
(* store.                                                                  *)
LEMMA PipelineSteps ==
  ASSUME [Next]_vars
  PROVE  \/ \E t \in Threads : DispatchAccepted(t)
         \/ TakeBatch
         \/ SaveAttendance
         \/ BatchDone
         \/ UNCHANGED <<log, pos, current, saved, store>>
  BY DEF Next, ThreadStep, WorkerStep, MainStep, Upload, Registry, Activity, ReadZone,
         DispatchRefused, Answer, CopyOptions, AnswerRegistry, Find, Respond, SetDeviceTimezone,
         Age, EvictDevices, Interrupt, Shutdown, ListenReturns, ListenFails, CloseReturns,
         Pipeline!ShutDown, pipeline, vars

LEMMA PipelineNext == TypeOK /\ [Next]_vars => PipelineOK'
  <1> SUFFICES ASSUME TypeOK, [Next]_vars PROVE PipelineOK'
    OBVIOUS
  <1>1. PipelineOK /\ request \in [Threads -> Requests]
    BY TypeParts
  <1>2. /\ log \in Seq(Batches) /\ pos \in 0..Len(log) /\ Len(log) \in Nat
        /\ saved \in Nat /\ store \in Seq(Stored)
    BY <1>1 DEF PipelineOK
  <1>3. ASSUME NEW t \in Threads, DispatchAccepted(t) PROVE PipelineOK'
    <2>1. PICK b \in Batches : b = request[t].batch
      BY <1>1, <1>3, RequestShape DEF DispatchAccepted, At
    <2>2. /\ log' = Append(log, b) /\ UNCHANGED <<pos, current, saved, store>>
      BY <1>3, <2>1 DEF DispatchAccepted, Pipeline!Accept
    <2>3. /\ log' \in Seq(Batches) /\ Len(log') = Len(log) + 1
          /\ \A k \in 1..Len(log) : log'[k] = log[k]
      BY <1>2, <2>2
    <2>4. current' = <<>> \/ (pos' > 0 /\ current' = <<log'[pos']>>)
      BY <1>1, <1>2, <2>2, <2>3 DEF PipelineOK
    <2> QED BY <1>1, <1>2, <2>2, <2>3, <2>4 DEF PipelineOK
  <1>4. CASE TakeBatch
    <2>1. /\ pos < Len(log) /\ pos' = pos + 1 /\ current' = <<log[pos + 1]>>
          /\ saved' = 0 /\ UNCHANGED <<log, store>>
      BY <1>4 DEF TakeBatch, Pipeline!Start
    <2>2. log[pos + 1] \in Batches
      BY <1>2, <2>1
    <2>3. Len(Times[current'[1].upload]) \in Nat
      BY <2>1, <2>2, BatchFacts
    <2> QED BY <1>2, <2>1, <2>3 DEF PipelineOK
  <1>5. CASE SaveAttendance
    <2>1. /\ current # <<>> /\ saved < Len(Times[current[1].upload]) /\ saved' = saved + 1
          /\ UNCHANGED <<log, pos, current>>
          /\ store' = Append(store, [upload |-> current[1].upload, nr |-> saved + 1,
                                     at |-> Times[current[1].upload][saved + 1],
                                     zone |-> current[1].zone])
      BY <1>5 DEF SaveAttendance, pipeline
    <2>2. current[1] \in Batches
      BY <1>1, <2>1, CurrentFacts
    <2>3. /\ current[1].upload \in Uploads /\ current[1].zone \in {"own", "default"}
          /\ Len(Times[current[1].upload]) \in Nat
          /\ Times[current[1].upload][saved + 1] \in Nat
      <3>1. saved + 1 \in 1..Len(Times[current[1].upload])
        BY <1>2, <2>1, <2>2, BatchFacts
      <3> QED BY <2>2, <3>1, BatchFacts
    <2>4. store' \in Seq(Stored)
      BY <1>2, <2>1, <2>3 DEF Stored
    <2> QED BY <1>1, <1>2, <2>1, <2>3, <2>4 DEF PipelineOK
  <1>6. CASE BatchDone
    BY <1>1, <1>2, <1>6 DEF PipelineOK, BatchDone, Pipeline!Finish
  <1>7. CASE UNCHANGED <<log, pos, current, saved, store>>
    BY <1>1, <1>7 DEF PipelineOK
  <1> QED BY <1>3, <1>4, <1>5, <1>6, <1>7, PipelineSteps

LEMMA ProgramNext == TypeOK /\ [Next]_vars => ProgramOK'
  <1> SUFFICES ASSUME TypeOK, [Next]_vars PROVE ProgramOK'
    OBVIOUS
  <1>1. ProgramOK /\ request \in [Threads -> Requests]
    BY TypeParts
  <1>2. ASSUME NEW t \in Threads, Answer(t) PROVE ProgramOK'
    <2>1. request[t].upload \in Uploads
      BY <1>1, <1>2, RequestShape DEF Answer, At
    <2> QED BY <1>1, <1>2, <2>1 DEF ProgramOK, Answer, program, pipeline
  <1>3. ASSUME NEW t \in Threads, AnswerRegistry(t) PROVE ProgramOK'
    <2>1. request[t].sn \in SerialNumbers
      BY <1>1, <1>3, RequestShape DEF AnswerRegistry, At
    <2> QED BY <1>1, <1>3, <2>1 DEF ProgramOK, AnswerRegistry, program, pipeline
  <1>4. ASSUME NEW t \in Threads, DispatchAccepted(t) PROVE ProgramOK'
    BY <1>1, <1>4 DEF ProgramOK, DispatchAccepted, Pipeline!Accept, program, history
  <1>5. CASE WorkerStep
    BY <1>1, <1>5 DEF ProgramOK, WorkerStep, TakeBatch, SaveAttendance, BatchDone,
                      Pipeline!Start, Pipeline!Finish, program, pipeline, history
  <1>6. CASE EvictDevices
    BY <1>1, <1>6 DEF ProgramOK, EvictDevices, program, pipeline
  <1>7. CASE MainStep \/ Interrupt \/ ListenFails
    BY <1>1, <1>7 DEF ProgramOK, MainStep, Shutdown, ListenReturns, CloseReturns, Interrupt,
                      ListenFails, Pipeline!ShutDown, pipeline, history
  <1>8. CASE UNCHANGED <<down, program, history>>
    BY <1>1, <1>8 DEF ProgramOK, program, history
  <1> QED
    BY <1>2, <1>3, <1>4, <1>5, <1>6, <1>7, <1>8
       DEF Next, ThreadStep, Upload, Registry, Activity, ReadZone, DispatchRefused, CopyOptions,
           Find, Respond, SetDeviceTimezone, Age, pipeline, program, history, vars

(* The state of the program stays in its type, for requests, batches and   *)
(* devices in any number.                                                  *)
THEOREM ProgramTyped == Spec => []TypeOK
  <1>1. TypeOK /\ [Next]_vars => TypeOK'
    <2>1. TypeOK' <=> RegistryOK' /\ (request' \in [Threads -> Requests]) /\ PipelineOK' /\ ProgramOK'
      BY DEF TypeOK, RegistryOK, PipelineOK, ProgramOK
    <2> QED BY <2>1, RegistryNext, RequestsNext, PipelineNext, ProgramNext
  <1> QED BY <1>1, TypeInit, PTL DEF Spec

-----------------------------------------------------------------------------
(* An API request fails only by eviction.                                  *)

(* A device leaves the registry by eviction only, and stale.               *)
LEMMA LeavesStale ==
  ASSUME TypeOK, [Next]_vars, NEW sn \in SerialNumbers, devices'[sn] = "absent"
  PROVE  \/ devices[sn] = "absent"
         \/ EvictDevices /\ devices[sn] = "stale"
  <1>1. RegistryOK /\ request \in [Threads -> Requests]
    BY TypeParts
  <1>2. CASE UNCHANGED devices
    BY <1>2
  <1>3. ASSUME NEW d \in SerialNumbers, RegisterDevice(d) \/ Age(d)
        PROVE  devices[sn] = "absent"
    BY <1>1, <1>3 DEF RegistryOK, RegisterDevice, Age
  <1>4. ASSUME NEW t \in Threads, Activity(t) PROVE devices[sn] = "absent"
    <2>1. request[t].sn \in SerialNumbers
      BY <1>1, <1>4, RequestShape DEF Activity, At
    <2> QED BY <1>1, <1>4, <2>1 DEF RegistryOK, Activity
  <1>5. CASE EvictDevices
    BY <1>1, <1>5 DEF RegistryOK, EvictDevices
  <1>6. \A u \in Uploads : Sender[u] \in SerialNumbers
    BY ProgramAssumption
  <1> QED
    BY <1>2, <1>3, <1>4, <1>5, <1>6
       DEF Next, ThreadStep, WorkerStep, MainStep, Upload, Registry, ReadZone, DispatchAccepted,
           DispatchRefused, Answer, AnswerRegistry, Find, Respond, TakeBatch, SaveAttendance,
           BatchDone, Interrupt, Shutdown, ListenReturns, ListenFails, CloseReturns, CopyOptions,
           SetDeviceTimezone, registry, vars

(* A request is at its second look since Find, or as it was.               *)
LEMMA FoundByFind ==
  ASSUME TypeOK, [Next]_vars, NEW t \in Threads, request'[t].at = "found"
  PROVE  \/ request'[t] = request[t]
         \/ \E sn \in SerialNumbers : Find(t, sn) /\ request'[t].sn = sn
  <1>1. request \in [Threads -> Requests]
    BY TypeParts
  <1>2. ASSUME NEW s \in Threads, NEW r, Goto(s, r)
        PROVE  \/ request'[t] = request[t]
               \/ s = t /\ request'[t] = r /\ r.at = "found"
    BY <1>1, <1>2 DEF Goto
  <1>3. CASE UNCHANGED request
    BY <1>3
  <1>4. ASSUME NEW s \in Threads, NEW sn \in SerialNumbers, Find(s, sn)
        PROVE  \/ request'[t] = request[t]
               \/ \E d \in SerialNumbers : Find(t, d) /\ request'[t].sn = d
    BY <1>2, <1>4 DEF Find
  <1>5. ASSUME NEW s \in Threads, Activity(s) PROVE request'[t] = request[t]
    <2>1. request[s].then \in AfterActivity
      BY <1>1, <1>5, RequestShape DEF Activity, At
    <2>2. request[s].then.at # "found"
      BY <2>1 DEF AfterActivity
    <2> QED BY <1>2, <1>5, <2>2 DEF Activity
  <1>6. ASSUME NEW s \in Threads,
               \/ \E u \in Uploads : Upload(s, u)
               \/ \E sn \in SerialNumbers : Registry(s, sn)
               \/ ReadZone(s) \/ DispatchAccepted(s) \/ CopyOptions(s) \/ Done(s)
        PROVE  request'[t] = request[t]
    <2>1. CASE Done(s)
      BY <1>2, <2>1 DEF Done, Idle
    <2>2. ASSUME NEW u \in Uploads, Upload(s, u) PROVE request'[t] = request[t]
      BY <1>2, <2>2 DEF Upload
    <2>3. ASSUME NEW sn \in SerialNumbers, Registry(s, sn) PROVE request'[t] = request[t]
      BY <1>2, <2>3 DEF Registry
    <2>4. CASE ReadZone(s)
      BY <1>2, <2>4 DEF ReadZone
    <2>5. CASE DispatchAccepted(s)
      BY <1>2, <2>5 DEF DispatchAccepted
    <2>6. CASE CopyOptions(s)
      BY <1>2, <2>6 DEF CopyOptions
    <2> QED BY <1>6, <2>1, <2>2, <2>3, <2>4, <2>5, <2>6
  <1> QED
    BY <1>3, <1>4, <1>5, <1>6
       DEF Next, ThreadStep, WorkerStep, MainStep, SetDeviceTimezone, Age, EvictDevices,
           DispatchRefused, Answer, AnswerRegistry, Respond, TakeBatch, SaveAttendance,
           BatchDone, Interrupt, Shutdown, ListenReturns, ListenFails, CloseReturns, vars

(* An API request that found its device fails afterwards only if the       *)
(* eviction worker removes the device, stale, between its two looks at it. *)
THEOREM FailsByEviction == Spec => FailsOnlyByEviction
  <1>1. ASSUME TypeOK, [Next]_vars, NEW t \in Threads, ~Fails(t), Fails(t)'
        PROVE  request'[t] = request[t] /\ devices[request[t].sn] = "stale"
    <2>1. request' \in [Threads -> Requests] /\ request'[t].at = "found" /\ Running'
          /\ devices'[request'[t].sn] = "absent"
      BY <1>1, RequestsNext DEF Fails, At
    <2>2. request'[t].sn \in SerialNumbers
      BY <2>1, RequestShape
    <2>3. Running
      BY <1>1, <2>1
         DEF Running, Next, ThreadStep, WorkerStep, MainStep, Upload, Registry, Activity, ReadZone,
             DispatchAccepted, DispatchRefused, Answer, CopyOptions, AnswerRegistry, Find, Respond,
             SetDeviceTimezone, Age, EvictDevices, Interrupt, Shutdown, ListenReturns, ListenFails,
             CloseReturns, TakeBatch, SaveAttendance, BatchDone, program, vars
    <2>4. CASE request'[t] = request[t]
      <3>1. devices[request[t].sn] # "absent"
        BY <1>1, <2>1, <2>3, <2>4 DEF Fails, At
      <3> QED BY <1>1, <2>1, <2>2, <2>4, <3>1, LeavesStale
    <2>5. ASSUME NEW sn \in SerialNumbers, Find(t, sn), request'[t].sn = sn PROVE FALSE
      BY <2>1, <2>5 DEF Find, registry
    <2> QED BY <1>1, <2>1, <2>4, <2>5, FoundByFind
  <1>2. TypeOK /\ [Next]_vars =>
          [\A t \in Threads :
             (~Fails(t) /\ Fails(t)')
               => request'[t] = request[t] /\ devices[request[t].sn] = "stale"]_vars
    BY <1>1
  <1> QED BY <1>2, ProgramTyped, PTL DEF Spec, FailsOnlyByEviction

-----------------------------------------------------------------------------
(* What was answered OK is saved.                                          *)

InLog(l, u) == \E i \in 1..Len(l) : l[i].upload = u

SavedUpTo(s, u, n) ==
    \A k \in 1..n : \E j \in 1..Len(s) : s[j].upload = u /\ s[j].nr = k

SavedAll(s, b) == SavedUpTo(s, b.upload, Len(Times[b.upload]))

(* An upload that is about to be answered OK, or was, is in the log; the   *)
(* entries taken are saved, the one that is being called back as far as    *)
(* saved says; and the process exits with nothing left to call back.       *)
AnsweredInLog ==
    /\ \A u \in acked : InLog(log, u)
    /\ \A t \in Threads : request[t].at = "answer" => InLog(log, request[t].upload)

TakenSaved ==
    /\ \A i \in 1..pos : i < pos \/ current = <<>> => SavedAll(store, log[i])
    /\ current # <<>> => SavedUpTo(store, current[1].upload, saved)

ExitedEmpty == run = "exited" => current = <<>> /\ pos = Len(log)

SavedInv == AnsweredInLog /\ TakenSaved /\ ExitedEmpty

(* Log and store only grow.                                                *)
LEMMA LogGrows ==
  ASSUME TypeOK, [Next]_vars
  PROVE  /\ \A i \in 1..Len(log) : i \in 1..Len(log') /\ log'[i] = log[i]
         /\ \A j \in 1..Len(store) : j \in 1..Len(store') /\ store'[j] = store[j]
  <1>1. /\ log \in Seq(Batches) /\ store \in Seq(Stored)
        /\ Len(log) \in Nat /\ Len(store) \in Nat
    BY DEF TypeOK
  <1>2. ASSUME NEW t \in Threads, DispatchAccepted(t)
        PROVE  \E b \in Batches : log' = Append(log, b) /\ store' = store
    <2>1. request[t].batch \in Batches
      BY <1>2, RequestShape DEF TypeOK, DispatchAccepted, At
    <2> QED BY <1>2, <2>1 DEF DispatchAccepted, Pipeline!Accept
  <1>3. ASSUME NEW r, store' = Append(store, r), log' = log
        PROVE  \A j \in 1..Len(store) : j \in 1..Len(store') /\ store'[j] = store[j]
    BY <1>1, <1>3
  <1>4. CASE SaveAttendance
    BY <1>1, <1>3, <1>4 DEF SaveAttendance, pipeline
  <1>5. ASSUME NEW b \in Batches, log' = Append(log, b)
        PROVE  \A i \in 1..Len(log) : i \in 1..Len(log') /\ log'[i] = log[i]
    BY <1>1, <1>5
  <1>6. CASE TakeBatch \/ BatchDone \/ UNCHANGED <<log, pos, current, saved, store>>
    BY <1>1, <1>6 DEF TakeBatch, BatchDone, Pipeline!Start, Pipeline!Finish
  <1> QED BY <1>1, <1>2, <1>4, <1>5, <1>6, PipelineSteps

LEMMA SavedGrows ==
  ASSUME TypeOK, [Next]_vars, NEW u
  PROVE  /\ InLog(log, u) => InLog(log', u)
         /\ \A n \in Nat : SavedUpTo(store, u, n) => SavedUpTo(store', u, n)
  BY LogGrows DEF InLog, SavedUpTo

LEMMA SavedInit == Init => SavedInv
  BY DEF Init, Pipeline!Init, SavedInv, AnsweredInLog, TakenSaved, ExitedEmpty, Idle

(* A batch that was taken is saved record by record.                       *)
LEMMA TakenNext ==
  ASSUME TypeOK, TakenSaved, [Next]_vars
  PROVE  TakenSaved'
  <1>1. PipelineOK /\ pos \in 0..Len(log) /\ Len(log) \in Nat /\ saved \in Nat
    BY TypeParts DEF PipelineOK
  <1>2. \A i \in 1..Len(log) : SavedAll(store, log[i]) => SavedAll(store', log'[i])
    <2> SUFFICES ASSUME NEW i \in 1..Len(log), SavedAll(store, log[i])
                 PROVE  SavedAll(store', log'[i])
      OBVIOUS
    <2>1. log[i] \in Batches /\ log'[i] = log[i]
      BY <1>1, LogGrows DEF PipelineOK
    <2>2. Len(Times[log[i].upload]) \in Nat
      BY <2>1, BatchFacts
    <2> QED BY <2>1, <2>2, SavedGrows DEF SavedAll
  <1>3. CASE UNCHANGED <<pos, current, saved>>
    <2>1. current # <<>> => SavedUpTo(store', current[1].upload, saved)
      BY <1>1, SavedGrows DEF TakenSaved
    <2> QED BY <1>1, <1>2, <1>3, <2>1 DEF TakenSaved
  <1>4. ASSUME NEW t \in Threads, DispatchAccepted(t) PROVE UNCHANGED <<pos, current, saved>>
    BY <1>4 DEF DispatchAccepted, Pipeline!Accept
  <1>5. CASE TakeBatch
    <2>1. /\ current = <<>> /\ pos < Len(log) /\ pos' = pos + 1 /\ current' = <<log[pos + 1]>> /\ saved' = 0
      BY <1>5 DEF TakeBatch, Pipeline!Start
    <2>2. current' # <<>> /\ SavedUpTo(store', current'[1].upload, saved')
      BY <2>1 DEF SavedUpTo
    <2> QED BY <1>1, <1>2, <2>1, <2>2 DEF TakenSaved
  <1>6. CASE SaveAttendance
    <2>1. /\ current # <<>> /\ saved' = saved + 1 /\ UNCHANGED <<log, pos, current>>
          /\ store' = Append(store, [upload |-> current[1].upload, nr |-> saved + 1,
                                     at |-> Times[current[1].upload][saved + 1],
                                     zone |-> current[1].zone])
      BY <1>6 DEF SaveAttendance, pipeline
    <2>2. store \in Seq(Stored) /\ Len(store) \in Nat
      BY <1>1 DEF PipelineOK
    <2>3. /\ Len(store) + 1 \in 1..Len(store')
          /\ store'[Len(store) + 1].upload = current[1].upload
          /\ store'[Len(store) + 1].nr = saved + 1
      BY <2>1, <2>2
    <2>4. SavedUpTo(store', current[1].upload, saved)
      BY <1>1, <2>1, SavedGrows DEF TakenSaved
    <2>5. SavedUpTo(store', current'[1].upload, saved')
      <3> SUFFICES ASSUME NEW k \in 1..saved + 1
                   PROVE  \E j \in 1..Len(store') : store'[j].upload = current[1].upload /\ store'[j].nr = k
        BY <2>1 DEF SavedUpTo
      <3>1. CASE k = saved + 1
        BY <2>3, <3>1
      <3>2. CASE k \in 1..saved
        BY <2>4, <3>2 DEF SavedUpTo
      <3> QED BY <1>1, <3>1, <3>2
    <2> QED BY <1>1, <1>2, <2>1, <2>5 DEF TakenSaved
  <1>7. CASE BatchDone
    <2>1. /\ current # <<>> /\ saved = Len(Times[current[1].upload]) /\ current' = <<>> /\ pos' = pos
      BY <1>7 DEF BatchDone, Pipeline!Finish
    <2>2. pos \in 1..Len(log) /\ current[1] = log[pos]
      BY <1>1, <2>1, CurrentFacts
    <2>3. SavedAll(store, log[pos])
      BY <2>1, <2>2 DEF TakenSaved, SavedAll
    <2>4. \A i \in 1..pos : SavedAll(store, log[i])
      BY <1>1, <2>3 DEF TakenSaved
    <2> QED BY <1>1, <1>2, <2>1, <2>4 DEF TakenSaved
  <1> QED BY <1>3, <1>4, <1>5, <1>6, <1>7, PipelineSteps

(* The answer comes after the dispatch.                                    *)
LEMMA AnsweredNext ==
  ASSUME TypeOK, AnsweredInLog, [Next]_vars
  PROVE  AnsweredInLog'
  <1>1. request \in [Threads -> Requests] /\ log \in Seq(Batches)
    BY TypeParts DEF PipelineOK
  <1>2. \A u : InLog(log, u) => InLog(log', u)
    BY SavedGrows
  <1>3. ASSUME NEW s \in Threads, NEW r \in Requests, Goto(s, r), UNCHANGED acked,
               r.at = "answer" => InLog(log', r.upload)
        PROVE  AnsweredInLog'
    BY <1>1, <1>2, <1>3 DEF AnsweredInLog, Goto
  <1>4. CASE UNCHANGED <<request, acked>>
    BY <1>2, <1>4 DEF AnsweredInLog
  <1>5. ASSUME NEW s \in Threads, Answer(s) PROVE AnsweredInLog'
    <2>1. /\ request[s].at = "answer" /\ Goto(s, Idle) /\ Idle.at # "answer"
          /\ \A u \in acked' : u \in acked \/ u = request[s].upload
      BY <1>5 DEF Answer, At, Done, Idle
    <2> QED BY <1>1, <1>2, <2>1 DEF AnsweredInLog, Goto
  <1>6. ASSUME NEW s \in Threads, DispatchAccepted(s) PROVE AnsweredInLog'
    <2>1. request[s].batch \in Batches
      BY <1>1, <1>6, RequestShape DEF DispatchAccepted, At
    <2>2. log' = Append(log, request[s].batch)
      BY <1>6 DEF DispatchAccepted, Pipeline!Accept
    <2>3. InLog(log', request[s].batch.upload)
      BY <1>1, <2>1, <2>2 DEF InLog
    <2>4. request[s].batch.upload \in Uploads
      BY <2>1 DEF Batches
    <2> QED BY <1>3, <1>6, <2>3, <2>4, MadeRequests DEF DispatchAccepted, history
  <1>7. ASSUME NEW s \in Threads, Activity(s) PROVE AnsweredInLog'
    <2>1. request[s].then \in AfterActivity
      BY <1>1, <1>7, RequestShape DEF Activity, At
    <2>2. request[s].then \in Requests /\ request[s].then.at # "answer"
      BY <2>1, MadeRequests DEF AfterActivity
    <2> QED BY <1>3, <1>7, <2>2 DEF Activity, history
  <1>8. ASSUME NEW s \in Threads, Done(s), UNCHANGED acked PROVE AnsweredInLog'
    BY <1>3, <1>8, MadeRequests DEF Done, Idle
  <1>9. ASSUME NEW s \in Threads, NEW u \in Uploads, Upload(s, u) PROVE AnsweredInLog'
    <2>1. Sender[u] \in SerialNumbers
      BY ProgramAssumption
    <2> QED BY <1>3, <1>9, <2>1, MadeRequests DEF Upload, history
  <1>10. ASSUME NEW s \in Threads, NEW sn \in SerialNumbers, Registry(s, sn) \/ Find(s, sn)
         PROVE  AnsweredInLog'
    BY <1>3, <1>10, MadeRequests DEF Registry, Find, history
  <1>11. ASSUME NEW s \in Threads, ReadZone(s) PROVE AnsweredInLog'
    <2>1. request'[s] \in Requests
      BY RequestsNext
    <2> QED BY <1>1, <1>3, <1>11, <2>1 DEF ReadZone, Goto, history
  <1>12. ASSUME NEW s \in Threads, CopyOptions(s) PROVE AnsweredInLog'
    <2>1. request[s].sn \in SerialNumbers
      BY <1>1, <1>12, RequestShape DEF CopyOptions, At
    <2> QED BY <1>3, <1>12, <2>1, MadeRequests DEF CopyOptions, history
  <1> QED
    BY <1>4, <1>5, <1>6, <1>7, <1>8, <1>9, <1>10, <1>11, <1>12
       DEF Next, ThreadStep, WorkerStep, MainStep, SetDeviceTimezone, Age, EvictDevices,
           DispatchRefused, AnswerRegistry, Respond, TakeBatch, SaveAttendance,
           BatchDone, Interrupt, Shutdown, ListenReturns, ListenFails, CloseReturns, history, vars

LEMMA ExitedNext ==
  ASSUME TypeOK, ExitedEmpty, [Next]_vars
  PROVE  ExitedEmpty'
  <1>1. CASE run = "exited"
    <2>1. UNCHANGED <<log, pos, current, run>>
      BY <1>1 DEF Next, ThreadStep, WorkerStep, MainStep, Running, At, Start, Upload, Registry, Activity,
             ReadZone, DispatchAccepted, DispatchRefused, Answer, CopyOptions, AnswerRegistry, Find,
             Respond, SetDeviceTimezone, Age, EvictDevices, Interrupt, Shutdown, ListenReturns,
             ListenFails, CloseReturns, TakeBatch, SaveAttendance, BatchDone, program, pipeline, vars
    <2> QED BY <1>1, <2>1 DEF ExitedEmpty
  <1>2. CASE run # "exited" /\ run' = "exited"
    <2>1. CloseReturns
      BY <1>2 DEF Next, ThreadStep, WorkerStep, MainStep, Upload, Registry, Activity,
             ReadZone, DispatchAccepted, DispatchRefused, Answer, CopyOptions, AnswerRegistry, Find,
             Respond, SetDeviceTimezone, Age, EvictDevices, Interrupt, Shutdown, ListenReturns,
             ListenFails, TakeBatch, SaveAttendance, BatchDone, program, vars
    <2> QED BY <2>1 DEF ExitedEmpty, CloseReturns, Pipeline!ShutDown
  <1> QED BY <1>1, <1>2 DEF ExitedEmpty

(* Every record of an upload that was answered OK is in the store when the *)
(* process exits: for any uploads, any number of requests in progress, and *)
(* wherever the callback worker was when the program was interrupted.      *)
THEOREM AckedSaved == Spec => []AckedIsSaved
  <1>1. TypeOK /\ SavedInv /\ [Next]_vars => SavedInv'
    BY TakenNext, AnsweredNext, ExitedNext DEF SavedInv
  <1>2. TypeOK /\ SavedInv => AckedIsSaved
    <2> SUFFICES ASSUME TypeOK, SavedInv, run = "exited", NEW u \in acked PROVE Saved(u)
      BY DEF AckedIsSaved
    <2>1. PICK i \in 1..Len(log) : log[i].upload = u
      BY DEF SavedInv, AnsweredInLog, InLog
    <2>2. SavedAll(store, log[i]) /\ log[i] \in Batches /\ store \in Seq(Stored)
      BY TypeParts DEF SavedInv, TakenSaved, ExitedEmpty, PipelineOK
    <2>3. SavedUpTo(store, u, Len(Times[u])) /\ DOMAIN Times[u] = 1..Len(Times[u])
      BY <2>1, <2>2, BatchFacts DEF SavedAll
    <2> QED BY <2>2, <2>3 DEF Saved, SavedUpTo
  <1> QED BY <1>1, <1>2, SavedInit, ProgramTyped, PTL DEF Spec

-----------------------------------------------------------------------------
(* Time zones are kept until the device is evicted.                        *)

Kept(e, sn) == sn \in Configured /\ sn \notin e

OwnZoned(e, b) == Kept(e, Sender[b.upload]) => b.zone = "own"

(* A kept device is in the registry with its zone, and what was read of it *)
(* is in the batch that is about to be dispatched, and in those of the log.*)
ZoneInv ==
    /\ \A sn \in SerialNumbers : Kept(evicted, sn) => devices[sn] # "absent" /\ zone[sn] = "own"
    /\ \A t \in Threads : request[t].at = "dispatch" => OwnZoned(evicted, request[t].batch)
    /\ \A i \in 1..Len(log) : OwnZoned(evicted, log[i])
    /\ \A i \in 1..Len(store) : OwnZoned(evicted, store[i])

LEMMA ZoneInit == Init => ZoneInv
  <1> SUFFICES ASSUME Init PROVE ZoneInv
    OBVIOUS
  <1>1. log = <<>> /\ store = <<>>
    BY DEF Init, Registrations, Pipeline!Init
  <1> QED BY <1>1, ProgramAssumption DEF Init, Registrations, ZoneInv, Kept, Idle

LEMMA EvictedGrows == [Next]_vars => evicted \subseteq evicted'
  BY DEF Next, ThreadStep, WorkerStep, MainStep, Upload, Registry, Activity, ReadZone,
         DispatchAccepted, DispatchRefused, Answer, CopyOptions, AnswerRegistry, Find, Respond,
         SetDeviceTimezone, Age, EvictDevices, Interrupt, Shutdown, ListenReturns, ListenFails,
         CloseReturns, TakeBatch, SaveAttendance, BatchDone, history, vars

(* The zone of a device changes by eviction, or to its own.                *)
LEMMA ZonesKept ==
  ASSUME TypeOK, ZoneInv, [Next]_vars, NEW sn \in SerialNumbers, Kept(evicted', sn)
  PROVE  devices'[sn] # "absent" /\ zone'[sn] = "own"
  <1>1. RegistryOK /\ request \in [Threads -> Requests]
    BY TypeParts
  <1>2. devices[sn] # "absent" /\ zone[sn] = "own"
    BY EvictedGrows DEF ZoneInv, Kept
  <1>3. devices'[sn] # "absent"
    BY <1>1, <1>2, LeavesStale DEF EvictDevices, Kept
  <1>4. CASE UNCHANGED zone
    BY <1>2, <1>3, <1>4
  <1>5. ASSUME NEW d \in SerialNumbers, SetDeviceTimezone(d) PROVE zone'[sn] = "own"
    BY <1>1, <1>2, <1>5 DEF RegistryOK, SetDeviceTimezone
  <1>6. CASE EvictDevices
    BY <1>1, <1>2, <1>3, <1>6 DEF RegistryOK, EvictDevices, Kept
  <1> QED
    BY <1>3, <1>4, <1>5, <1>6
       DEF Next, ThreadStep, WorkerStep, MainStep, Upload, Registry, Activity, ReadZone,
           RegisterDevice, DispatchAccepted, DispatchRefused, Answer, CopyOptions, AnswerRegistry,
           Find, Respond, Age, Interrupt, Shutdown, ListenReturns, ListenFails, CloseReturns,
           TakeBatch, SaveAttendance, BatchDone, registry, vars

(* A request about to dispatch read the zone just now, or before this step.*)
LEMMA DispatchOf ==
  ASSUME TypeOK, [Next]_vars, NEW t \in Threads, request'[t].at = "dispatch"
  PROVE  \/ request'[t] = request[t]
         \/ \E u \in Uploads : /\ request'[t].batch = [upload |-> u, zone |-> zone[Sender[u]]]
                               /\ UNCHANGED evicted
  <1>1. request \in [Threads -> Requests]
    BY TypeParts
  <1>2. ASSUME NEW s \in Threads, NEW r, Goto(s, r), r.at # "dispatch"
        PROVE  request'[t] = request[t]
    BY <1>1, <1>2 DEF Goto
  <1>3. CASE UNCHANGED request
    BY <1>3
  <1>4. ASSUME NEW s \in Threads, ReadZone(s)
        PROVE  \/ request'[t] = request[t]
               \/ \E u \in Uploads : /\ request'[t].batch = [upload |-> u, zone |-> zone[Sender[u]]]
                                     /\ UNCHANGED evicted
    <2>1. request[s].upload \in Uploads
      BY <1>1, <1>4, RequestShape DEF ReadZone, At
    <2> QED BY <1>1, <1>4, <2>1 DEF ReadZone, Goto, history
  <1>5. ASSUME NEW s \in Threads, Activity(s) PROVE request'[t] = request[t]
    <2>1. request[s].then \in AfterActivity
      BY <1>1, <1>5, RequestShape DEF Activity, At
    <2>2. request[s].then.at # "dispatch"
      BY <2>1 DEF AfterActivity
    <2> QED BY <1>2, <1>5, <2>2 DEF Activity
  <1>6. ASSUME NEW s \in Threads, Done(s) PROVE request'[t] = request[t]
    BY <1>2, <1>6 DEF Done, Idle
  <1>7. ASSUME NEW s \in Threads, NEW u \in Uploads, Upload(s, u) PROVE request'[t] = request[t]
    BY <1>2, <1>7 DEF Upload
  <1>8. ASSUME NEW s \in Threads, NEW sn \in SerialNumbers, Registry(s, sn)
        PROVE  request'[t] = request[t]
    BY <1>2, <1>8 DEF Registry
  <1>9. ASSUME NEW s \in Threads, NEW sn \in SerialNumbers, Find(s, sn)
        PROVE  request'[t] = request[t]
    BY <1>2, <1>9 DEF Find
  <1>10. ASSUME NEW s \in Threads, DispatchAccepted(s) PROVE request'[t] = request[t]
    BY <1>2, <1>10 DEF DispatchAccepted
  <1>11. ASSUME NEW s \in Threads, CopyOptions(s) PROVE request'[t] = request[t]
    BY <1>2, <1>11 DEF CopyOptions
  <1> QED
    BY <1>3, <1>4, <1>5, <1>6, <1>7, <1>8, <1>9, <1>10, <1>11
       DEF Next, ThreadStep, WorkerStep, MainStep, SetDeviceTimezone, Age, EvictDevices,
           DispatchRefused, Answer, AnswerRegistry, Respond, TakeBatch, SaveAttendance,
           BatchDone, Interrupt, Shutdown, ListenReturns, ListenFails, CloseReturns, vars

LEMMA ZoneNext ==
  ASSUME TypeOK, ZoneInv, [Next]_vars
  PROVE  ZoneInv'
  <1>1. PipelineOK /\ request \in [Threads -> Requests]
    BY TypeParts
  <1>2. /\ log \in Seq(Batches) /\ pos \in 0..Len(log) /\ Len(log) \in Nat
        /\ store \in Seq(Stored) /\ Len(store) \in Nat
    BY <1>1 DEF PipelineOK
  <1>3. \A b : OwnZoned(evicted, b) => OwnZoned(evicted', b)
    BY EvictedGrows DEF OwnZoned, Kept
  <1>4. ASSUME NEW t \in Threads, request'[t].at = "dispatch"
        PROVE  OwnZoned(evicted', request'[t].batch)
    <2>1. CASE request'[t] = request[t]
      BY <1>3, <1>4, <2>1 DEF ZoneInv
    <2>2. ASSUME NEW u \in Uploads, UNCHANGED evicted,
                 request'[t].batch = [upload |-> u, zone |-> zone[Sender[u]]]
          PROVE  OwnZoned(evicted', request'[t].batch)
      BY <2>2, ProgramAssumption DEF ZoneInv, OwnZoned, Kept
    <2> QED BY <1>4, <2>1, <2>2, DispatchOf
  <1>5. /\ \A i \in 1..Len(log') : OwnZoned(evicted', log'[i])
        /\ \A i \in 1..Len(store') : OwnZoned(evicted', store'[i])
    <2>1. CASE UNCHANGED <<log, store>>
      BY <1>3, <2>1 DEF ZoneInv
    <2>2. ASSUME NEW t \in Threads, DispatchAccepted(t)
          PROVE  /\ \A i \in 1..Len(log') : OwnZoned(evicted', log'[i])
                 /\ \A i \in 1..Len(store') : OwnZoned(evicted', store'[i])
      <3>1. /\ log' = Append(log, request[t].batch) /\ store' = store
            /\ request[t].at = "dispatch" /\ OwnZoned(evicted, request[t].batch)
        BY <2>2 DEF DispatchAccepted, Pipeline!Accept, At, ZoneInv
      <3>2. \A i \in 1..Len(log') : log'[i] = request[t].batch \/ (i \in 1..Len(log) /\ log'[i] = log[i])
        BY <1>2, <3>1
      <3> QED BY <1>3, <3>1, <3>2 DEF ZoneInv
    <2>3. CASE SaveAttendance
      <3>1. /\ current # <<>> /\ UNCHANGED log
            /\ store' = Append(store, [upload |-> current[1].upload, nr |-> saved + 1,
                                       at |-> Times[current[1].upload][saved + 1],
                                       zone |-> current[1].zone])
        BY <2>3 DEF SaveAttendance, pipeline
      <3>2. OwnZoned(evicted, current[1])
        BY <1>1, <3>1, CurrentFacts DEF ZoneInv
      <3>3. \A i \in 1..Len(store') : \/ i \in 1..Len(store) /\ store'[i] = store[i]
                                      \/ /\ store'[i].upload = current[1].upload
                                         /\ store'[i].zone = current[1].zone
        BY <1>2, <3>1
      <3> QED BY <1>3, <3>1, <3>2, <3>3 DEF ZoneInv, OwnZoned
    <2>4. CASE TakeBatch \/ BatchDone
      BY <2>1, <2>4 DEF TakeBatch, BatchDone, Pipeline!Start, Pipeline!Finish
    <2> QED BY <2>1, <2>2, <2>3, <2>4, PipelineSteps
  <1>6. \A sn \in SerialNumbers : Kept(evicted', sn) => devices'[sn] # "absent" /\ zone'[sn] = "own"
    BY ZonesKept
  <1> QED BY <1>4, <1>5, <1>6 DEF ZoneInv

(* The records of a device that was given a time zone are stored in it as  *)
(* long as the eviction worker has never removed the device.               *)
THEOREM ZoneOfRecords == Spec => []OwnZone
  <1>1. TypeOK /\ ZoneInv => OwnZone
    BY DEF TypeOK, ZoneInv, OwnZone, OwnZoned, Kept
  <1>2. TypeOK /\ ZoneInv /\ [Next]_vars => ZoneInv'
    BY ZoneNext
  <1> QED BY <1>1, <1>2, ZoneInit, ProgramTyped, PTL DEF Spec

-----------------------------------------------------------------------------
(* Options that were answered OK are kept until the device is evicted.     *)

Known(d, e, sn)      == d[sn] # "absent" \/ sn \in e
HasOptions(o, e, sn) == o[sn] \/ sn \in e

(* What a registry request has established, by where it is.                *)
Established(d, o, e, r) ==
    /\ r.at = "activity" /\ r.then.at = "options" => r.then.sn = r.sn /\ Known(d, e, r.sn)
    /\ r.at = "options" => Known(d, e, r.sn)
    /\ r.at = "copied" => HasOptions(o, e, r.sn)

KnownInv ==
    /\ \A t \in Threads : Established(devices, options, evicted, request[t])
    /\ \A sn \in told : HasOptions(options, evicted, sn)

LEMMA KnownInit == Init => KnownInv
  BY DEF Init, KnownInv, Established, Idle

(* Nothing but eviction takes options away.                                *)
LEMMA OptionsLast ==
  ASSUME TypeOK, [Next]_vars, NEW sn \in SerialNumbers
  PROVE  /\ Known(devices, evicted, sn) => Known(devices', evicted', sn)
         /\ HasOptions(options, evicted, sn) => HasOptions(options', evicted', sn)
  <1>1. RegistryOK /\ request \in [Threads -> Requests]
    BY TypeParts
  <1>2. Known(devices, evicted, sn) => Known(devices', evicted', sn)
    BY <1>1, LeavesStale, EvictedGrows DEF Known, EvictDevices, RegistryOK
  <1>3. CASE UNCHANGED options
    BY <1>2, <1>3, EvictedGrows DEF HasOptions
  <1>4. CASE EvictDevices
    <2> DEFINE stale == {d \in SerialNumbers : devices[d] = "stale"}
    <2>1. /\ options' = [d \in SerialNumbers |-> options[d] /\ d \notin stale]
          /\ evicted' = evicted \cup stale
      BY <1>4, Zenon DEF EvictDevices
    <2> HIDE DEF stale
    <2>2. options'[sn] = (options[sn] /\ sn \notin stale)
      BY <2>1, Zenon
    <2>3. HasOptions(options, evicted, sn) => HasOptions(options', evicted', sn)
      BY <2>1, <2>2, Zenon DEF HasOptions
    <2> QED BY <1>2, <2>3
  <1>5. ASSUME NEW t \in Threads, CopyOptions(t)
        PROVE  HasOptions(options, evicted, sn) => HasOptions(options', evicted', sn)
    <2>1. options' = [options EXCEPT ![request[t].sn] = @ \/ devices[request[t].sn] # "absent"]
      BY <1>5, Zenon DEF CopyOptions
    <2>2. options[sn] => options'[sn]
      BY <1>1, <2>1, Zenon DEF RegistryOK
    <2> QED BY <2>2, EvictedGrows DEF HasOptions
  <1> QED
    BY <1>2, <1>3, <1>4, <1>5
       DEF Next, ThreadStep, WorkerStep, MainStep, Upload, Registry, Activity, ReadZone,
           RegisterDevice, DispatchAccepted, DispatchRefused, Answer, AnswerRegistry, Find,
           Respond, SetDeviceTimezone, Age, Interrupt, Shutdown, ListenReturns, ListenFails,
           CloseReturns, TakeBatch, SaveAttendance, BatchDone, registry, vars

LEMMA EstablishedLasts ==
  ASSUME TypeOK, [Next]_vars, NEW r \in Requests, Established(devices, options, evicted, r)
  PROVE  Established(devices', options', evicted', r)
  BY OptionsLast, RequestShape DEF Established

LEMMA KnownNext ==
  ASSUME TypeOK, KnownInv, [Next]_vars
  PROVE  KnownInv'
  <1>1. RegistryOK /\ request \in [Threads -> Requests] /\ told \subseteq SerialNumbers
    BY TypeParts DEF ProgramOK
  <1>2. \A sn \in told : HasOptions(options', evicted', sn)
    BY <1>1, OptionsLast DEF KnownInv
  <1>3. ASSUME NEW s \in Threads, NEW r \in Requests, Goto(s, r), UNCHANGED told,
               Established(devices', options', evicted', r)
        PROVE  KnownInv'
    BY <1>1, <1>2, <1>3, EstablishedLasts DEF KnownInv, Goto
  <1>4. CASE UNCHANGED <<request, told>>
    BY <1>1, <1>2, <1>4, EstablishedLasts DEF KnownInv
  <1>5. ASSUME NEW s \in Threads, NEW r \in Requests, Goto(s, r), UNCHANGED told,
               r.at \notin {"activity", "options", "copied"}
        PROVE  KnownInv'
    BY <1>3, <1>5 DEF Established
  <1>6. ASSUME NEW s \in Threads, AnswerRegistry(s) PROVE KnownInv'
    <2>1. /\ request[s].at = "copied" /\ request[s].sn \in SerialNumbers
          /\ HasOptions(options, evicted, request[s].sn)
          /\ \A sn \in told' : sn \in told \/ sn = request[s].sn
          /\ Goto(s, Idle)
      BY <1>1, <1>6, RequestShape DEF AnswerRegistry, At, Done, KnownInv, Established
    <2>2. HasOptions(options', evicted', request[s].sn)
      BY <2>1, OptionsLast
    <2>3. \A sn \in told' : HasOptions(options', evicted', sn)
      BY <1>2, <2>1, <2>2
    <2>4. Established(devices', options', evicted', Idle)
      BY DEF Established, Idle
    <2> QED BY <1>1, <2>1, <2>3, <2>4, EstablishedLasts DEF KnownInv, Goto
  <1>7. ASSUME NEW s \in Threads, NEW sn \in SerialNumbers, Registry(s, sn) PROVE KnownInv'
    <2> DEFINE r == [at |-> "activity", sn |-> sn, then |-> [at |-> "options", sn |-> sn]]
    <2>1. r \in Requests /\ Goto(s, r) /\ UNCHANGED told
      BY <1>7, MadeRequests DEF Registry, history
    <2>2. Established(devices', options', evicted', r)
      BY <1>1, <1>7 DEF Registry, RegisterDevice, RegistryOK, Established, Known
    <2> HIDE DEF r
    <2> QED BY <1>3, <2>1, <2>2
  <1>8. ASSUME NEW s \in Threads, NEW u \in Uploads, Upload(s, u) PROVE KnownInv'
    <2> DEFINE r == [at |-> "activity", sn |-> Sender[u], then |-> [at |-> "zone", upload |-> u]]
    <2>1. r \in Requests /\ Goto(s, r) /\ UNCHANGED told
      BY <1>8, MadeRequests, ProgramAssumption DEF Upload, history
    <2>2. Established(devices', options', evicted', r)
      BY DEF Established
    <2> HIDE DEF r
    <2> QED BY <1>3, <2>1, <2>2
  <1>9. ASSUME NEW s \in Threads, Activity(s) PROVE KnownInv'
    <2>1. /\ request[s].at = "activity" /\ request[s].sn \in SerialNumbers
          /\ request[s].then \in AfterActivity /\ request[s].then \in Requests
          /\ Goto(s, request[s].then) /\ UNCHANGED told
      BY <1>1, <1>9, RequestShape, MadeRequests DEF Activity, At, history
    <2>2. Established(devices', options', evicted', request[s].then)
      <3>1. request[s].then.at \in {"zone", "options"}
        BY <2>1 DEF AfterActivity
      <3> QED BY <2>1, <3>1, OptionsLast DEF KnownInv, Established
    <2> QED BY <1>3, <2>1, <2>2
  <1>10. ASSUME NEW s \in Threads, CopyOptions(s) PROVE KnownInv'
    <2> DEFINE r == [at |-> "copied", sn |-> request[s].sn]
    <2>1. request[s].sn \in SerialNumbers /\ Known(devices, evicted, request[s].sn)
      BY <1>1, <1>10, RequestShape DEF CopyOptions, At, KnownInv, Established
    <2>2. r \in Requests /\ Goto(s, r) /\ UNCHANGED told
      BY <1>10, <2>1, MadeRequests DEF CopyOptions, history
    <2>3. HasOptions(options', evicted', request[s].sn)
      BY <1>1, <1>10, <2>1 DEF CopyOptions, RegistryOK, Known, HasOptions, history
    <2>4. Established(devices', options', evicted', r)
      BY <2>3 DEF Established
    <2> HIDE DEF r
    <2> QED BY <1>3, <2>2, <2>4
  <1>11. ASSUME NEW s \in Threads, ReadZone(s) PROVE KnownInv'
    <2>1. request'[s] \in Requests
      BY RequestsNext
    <2> QED BY <1>1, <1>5, <1>11, <2>1 DEF ReadZone, Goto, history
  <1>12. ASSUME NEW s \in Threads, DispatchAccepted(s) PROVE KnownInv'
    <2>1. request'[s] \in Requests
      BY RequestsNext
    <2> QED BY <1>1, <1>5, <1>12, <2>1 DEF DispatchAccepted, Goto, history
  <1>13. ASSUME NEW s \in Threads, NEW sn \in SerialNumbers, Find(s, sn) PROVE KnownInv'
    BY <1>5, <1>13, MadeRequests DEF Find, history
  <1>14. ASSUME NEW s \in Threads, Done(s), UNCHANGED told PROVE KnownInv'
    BY <1>5, <1>14, MadeRequests DEF Done, Idle
  <1> QED
    BY <1>4, <1>6, <1>7, <1>8, <1>9, <1>10, <1>11, <1>12, <1>13, <1>14
       DEF Next, ThreadStep, WorkerStep, MainStep, SetDeviceTimezone, Age, EvictDevices,
           DispatchRefused, Answer, Respond, TakeBatch, SaveAttendance, BatchDone, Interrupt,
           Shutdown, ListenReturns, ListenFails, CloseReturns, history, vars

(* A device that was told OK for its registry body has its options in the  *)
(* registry, or was evicted at some time.                                  *)
THEOREM OptionsOfDevices == Spec => []OptionsKept
  <1>1. KnownInv => OptionsKept
    BY DEF KnownInv, OptionsKept, HasOptions
  <1>2. TypeOK /\ KnownInv /\ [Next]_vars => KnownInv'
    BY KnownNext
  <1> QED BY <1>1, <1>2, KnownInit, ProgramTyped, PTL DEF Spec

-----------------------------------------------------------------------------
(* Daily summaries.                                                        *)

(* Wherever the midnights lie, no stored record is counted on two days     *)
(* unless the earlier one is shorter than 24 hours, and one that is not    *)
(* counted at all is at a midnight, past 24 hours, or after the last day.  *)
THEOREM DaysOfRecords == Spec => []SummariesPartition
  <1>1. TypeOK => SummariesPartition
    <2> SUFFICES ASSUME TypeOK, NEW i \in DOMAIN store
                 PROVE  LET r    == store[i]
                            days == {d \in DOMAIN Midnights : InSummary(r, d)}
                        IN  /\ \A d, e \in days : d < e => Midnights[d + 1] < Midnights[d] + Hours24
                            /\ days = {} =>
                                 \A d \in 1..Len(Midnights) - 1 :
                                   Midnights[d] < r.at /\ r.at < Midnights[d + 1]
                                     => Midnights[d] + Hours24 <= r.at
      BY DEF SummariesPartition
    <2> DEFINE r == store[i]
               days == {d \in DOMAIN Midnights : InSummary(r, d)}
    <2>1. r.at \in Nat
      <3>1. store \in Seq(Stored) /\ i \in 1..Len(store)
        BY DEF TypeOK
      <3>2. store[i] \in Stored
        BY <3>1
      <3> QED BY <3>2 DEF Stored
    <2>2. /\ Midnights \in Seq(Nat) /\ Len(Midnights) \in Nat /\ Hours24 \in Nat
          /\ DOMAIN Midnights = 1..Len(Midnights)
          /\ \A d \in 1..Len(Midnights) : Midnights[d] \in Nat
      BY ProgramAssumption
    <2>3. ASSUME NEW d \in days, NEW e \in days, d < e
          PROVE  Midnights[d + 1] < Midnights[d] + Hours24
      <3>1. d \in 1..Len(Midnights) /\ e \in 1..Len(Midnights) /\ d + 1 \in 1..Len(Midnights)
        BY <2>2, <2>3
      <3>2. Midnights[d + 1] <= Midnights[e]
        <4>1. CASE e = d + 1
          BY <2>2, <3>1, <4>1
        <4>2. CASE d + 1 < e
          BY <2>2, <3>1, <4>2, ProgramAssumption
        <4> QED BY <2>3, <3>1, <4>1, <4>2
      <3>3. Midnights[e] < r.at /\ r.at < Midnights[d] + Hours24
        BY <2>3 DEF InSummary, InRange
      <3> QED BY <2>1, <2>2, <3>1, <3>2, <3>3
    <2>4. ASSUME days = {}, NEW d \in 1..Len(Midnights) - 1, Midnights[d] < r.at
          PROVE  Midnights[d] + Hours24 <= r.at
      <3>1. d \in DOMAIN Midnights /\ Midnights[d] \in Nat
        BY <2>2
      <3>2. ~InSummary(r, d)
        BY <2>4, <3>1
      <3> QED BY <2>1, <2>2, <2>4, <3>1, <3>2 DEF InSummary, InRange
    <2> QED BY <2>3, <2>4
  <1> QED BY <1>1, ProgramTyped, PTL
===============================================================================
