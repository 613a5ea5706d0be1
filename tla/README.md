# Specifications of zkteco-adms

TLA+ modules, model-checking configurations and machine-checked proofs for the
ADMS server of this repository: a Go library that ZKTeco attendance devices
talk to over HTTP. Paths below are relative to the repository, line numbers are
those of the modelled commit.

Conventions: an action is one critical section of a mutex, or one step a
goroutine makes outside all of them. Actions carry the names of the functions
they come from; a function that releases a lock in the middle is several
actions. Definitions whose comment begins with "Mutant of" are deliberately
wrong variants of a definition, placed beside it; no specification uses them.

## The system

| Part | Source | State | Operations |
| --- | --- | --- | --- |
| Command queues and confirmations | `command.go`, `handler.go:93-107,243-311` | `commandQueue` (serial number to queued commands) and `pendingCommands` (command ID to command sent but not confirmed) under `queueMutex`; the atomic counter `cmdID` | `QueueCommand` and its `Send*` wrappers, `DrainCommands`, `PendingCommandsCount`, the answers of `/iclock/getrequest` and `/iclock/cdata`, the results of `/iclock/devicecmd` |
| Device registry and eviction | `device.go`, `adms.go:190-244` | `devices` under `devicesMutex` | `RegisterDevice`, `GetDevice`, `ListDevices`, `IsDeviceOnline`, `updateDeviceActivity`, `evictStaleDevices` on a ticker |
| Callback pipeline and `Close` | `adms.go:137-188,246-361` | `callbackCh` (buffered), `callbackMu` (RWMutex), `closeCh`, `closeOnce`, `callbackDone`, `evictionDone`, the base context | `dispatchCallback` and six typed wrappers, `callbackWorker`, `safeCall`, `Close` |
| HTTP handlers | `handler.go` | none of their own | `requireDevice`, `HandleCData`, `HandleGetRequest`, `HandleDeviceCmd`, `HandleRegistry`, `HandleInspect`, `ServeHTTP` |
| Protocol parsers | `parser.go` | none | `parseAttendanceRecords`, `parseKVPairs`, `parseCommandResults`, `parseUserRecords` |
| Device options and time zones | `device.go:42-104`, `handler.go:124-200` | `Device.Options`, `Device.Timezone` under `devicesMutex` | `SetDeviceTimezone`, `GetDeviceTimezone`, the zone `HandleCData` reads, `HandleRegistry`'s merge |
| Probe | `cmd/probe/main.go` | `results`, `queued`, `idMap`, `replied` under a mutex of its own; the run's context | queues candidate commands, attributes confirmations to them, prints summaries, ends |
| Example programs | `examples/` | an HTTP server around an `ADMSServer`; `AttendanceStore.records` | serve devices and a REST API, save records, summarise a day, shut down |
| Types | `types.go` | none | declarations |

How they interact. A device sends HTTP requests. Each of them passes
`requireDevice`, which registers the device (one critical section of
`devicesMutex`) and then stamps its activity (another). A poll
(`/iclock/getrequest`), and a `/iclock/cdata` request without a body, then
drains the queue of the device: the commands move to `pendingCommands` under
`queueMutex`, and are written to the response after the lock is released.
Uploads and command results become closures that `dispatchCallback` puts into
`callbackCh`, and one worker goroutine runs them; when the channel stays full
for the dispatch timeout, or the server is closed, the request is answered 503
and the device is expected to send it again. `/iclock/devicecmd` looks each
result up in `pendingCommands`, dispatches it with the command it belongs to,
and deletes the entry only then. A background worker evicts silent devices: it
removes them from `devices` under one lock and their commands under the other.
`Close` stops both workers after the accepted callbacks have run.

What is hard about it:

- every multi-step operation releases its lock between steps: a registry check
  before an append, a registration before an activity stamp, a lookup before a
  dispatch before a delete, two phases of an eviction;
- `pendingCommands` is keyed by the command ID alone, across devices;
- two limits count things that other goroutines move;
- devices retry, repeat and lose messages, and write errors are ignored;
- the shutdown: senders, a full channel, an announced writer, timers, panics, two
  workers and several callers of `Close`, and around it a program that stops its
  HTTP server from another goroutine;
- what a device holds goes with its eviction, while requests read it in critical
  sections of their own;
- the parsers accumulate over lines and parts that come in any order and shape;
- the probe takes a result for a command before or after it recorded the
  command's ID, and two of its goroutines print summaries.

What makes each part correct:

- command queues: the limit; unique IDs; every accepted command in exactly one
  place until it is confirmed or discarded; delivery at most once and only to its
  device; a caller's commands in order; nothing forgotten before it was reported;
- registry: the limit; silent devices leave; active ones and their commands stay
  (they do not always, see the findings);
- pipeline: no send on the closed channel; accepted batches delivered once, in
  order, all of them before `Close` returns; refused ones never; a live context;
  `Close` and every dispatch return;
- parsers: one result per ID with the fields that belong to it, one record per
  complete line, the last pair of each key; nothing of one line in another's record;
- options and time zones: what the program or the device set stays until an
  eviction, and a record is read in the zone of its device;
- probe: results attributed to the right candidate, accurate summaries, an end;
- example programs: what was answered OK is stored before the process exits, and it
  does exit; every record in the summary of one day.

## Modules

| Module | Contents |
| --- | --- |
| `CommandMailbox` | abstract specification: one bounded mailbox per device |
| `CommandQueue` | the command half of the server, in detail, and its properties |
| `MCCommandQueue` | symmetry set, view and state constraint for TLC |
| `CommandQueueClaims` | three statements of the repository that `CommandQueue` refutes |
| `CommandQueueProofs` | theorems: types and limits |
| `CommandTrackingProofs` | theorems: IDs, places, the refinement of `CommandMailbox` |
| `CommandDeliveryProofs` | theorems: sending, confirmation, order |
| `DeliveryLog` | abstract specification: accepted batches are a log delivered in order |
| `CallbackPipeline` | the callback half of the server, in detail, and its properties |
| `CallbackPipelineProofs` | theorems: shutdown, delivery, the refinement of `DeliveryLog` |
| `CallbackPipelineClaims` | one statement of the repository that `CallbackPipeline` refutes |
| `Parsers` | the loops of `parser.go`, a turn of a loop per step, and what they should return |
| `MCParsers` | the bodies TLC runs them on |
| `ParsersProofs` | theorems: what the loops return for any body |
| `Probe` | one run of `cmd/probe`, against a device and a reduced server |
| `ProbeProofs` | theorems: types, attribution of results, the summary |
| `ExampleProgram` | a program around the server: registry contents, uploads, API, store, shutdown; composes with `DeliveryLog` |
| `MCExampleProgram` | its instance for TLC, with a calendar of uneven days |
| `ExampleProgramProofs` | theorems: what is stored, kept, and why requests fail |
| `ExampleProgramClaims` | two statements of the repository that `ExampleProgram` refutes |

### CommandQueue

| Variable | Code |
| --- | --- |
| `devices` | `s.devices`; only presence and whether `LastActivity` is beyond `deviceEvictionTimeout` matter here, hence `absent`, `fresh`, `stale` |
| `commandQueue`, `pendingCommands` | the maps of the same names; a command is its ID, its text is never looked at |
| `cmdID` | `s.cmdID` |
| `call` | for each goroutine, the function it is in and the locals that function keeps across lock releases |
| `evictor`, `swept` | the eviction worker and `evictedSNs` |
| `accepted`, `sent`, `reported`, `confirmed`, `discarded` | history: what `QueueCommand` returned, the commands of the responses to each device in their order, whether the responses arrived or not, what was handed to the callback queue, what was deleted and by whom |

`QueueCommand` is `QueueCheck` (registry check under `devicesMutex`),
`QueueAssign` (the atomic increment) and `QueueAppend` or `QueueReject` (limit
test and append under `queueMutex`). A request is `Request` and `Activity` (the
two critical sections of `requireDevice`), then the steps of its handler:
`DispatchInfo`, `Drain` and `WriteCommands` for the handlers that answer with
commands, `LookupResult`, `DispatchResult` or `DispatchRefused`, and
`ForgetResult` for each result of a `/iclock/devicecmd` body. `EvictDevices` and
`EvictCommands` are the two phases of `evictStaleDevices`. `AppRegister` and
`AppDrain` are the exported methods called by the embedding program. `Age` is
time passing.

The environment: a device confirms any ID, its own or another device's, queued,
pending, done, or never assigned by this server, in any order, repeatedly and in
bodies of any composition (`Bodies`), as `HandleDeviceCmd` takes them; a response
arrives or is lost, which the server cannot tell (`WriteCommands`); the callback
queue accepts or refuses a batch at any time (`CallbackPipeline` says when it really
does). The server is open; nothing but `dispatchCallback` looks at
`closeCh`, so `Close` changes nothing for the other operations except that the
eviction worker ends. Parsing and the text of commands are not in this module.

The stream of a device (`Stream`) is what it was sent followed by what is queued for
it. `SentOnce` says that a command occurs once in all streams together: putting the
commands of a lost response back in the queue would make it occur twice.
`RightDevice` and `CallerOrder` are about streams too. A result is `early` when
`DrainCommands` had not returned its ID at its lookup: the ID is not assigned yet, or
of the server that ran before, or still queued. `UncorrelatedExplained` gives that as
one of three reasons for a result without its `QueuedCommand`; the others are an
eviction and an earlier answer. `ReportedBeforeForgotten` has the same exception: the
lookup of an early ID can miss, a drain make the command pending, and the delete of
`handler.go:305` take the entry.

`CommandMailbox` has four operations: `Put`, `Take`, `Confirm`, `GiveUp`.
Under the mapping `Mailbox` the queue is the box, the pending commands of a
device are its outstanding ones, and `ImplementsMailbox` says that each critical
section is one of those operations or changes nothing.

### CallbackPipeline

| Variable | Code |
| --- | --- |
| `dispatch` | for each handler goroutine, where it is in `dispatchCallback` |
| `callbackCh`, `chClosed`, `closeCh` | the channels |
| `writer` | whether `Close` waits for `callbackMu`; the readers are the dispatchers past `RLock`. Go's RWMutex keeps new readers out while a writer waits, so does `RLock` |
| `closer`, `once` | callers of `Close` and `closeOnce` |
| `evictor`, `worker` | the two goroutines `Close` waits for |
| `baseCtx`, `parentCtx` | the context callbacks get, and the one `WithBaseContext` was given |
| `jobs`, `accepted`, `refused`, `called` | history |

A job is the closure over one batch. Attendance batches call the user's callback
once per record, each call under `safeCall` of its own; the others once.
`SlowSend`, `Timeout` and `SlowClosed` are the cases of the last `select`, any
of which may be taken when several are ready. `CallbackReturns` and
`CallbackPanics` end a callback. Under the mapping `Log` the module implements
`DeliveryLog`.

### Parsers

| Variable | Code |
| --- | --- |
| `parser`, `body`, `at` | the function that runs, its input, and where its loop is |
| `records`, `current`, `hasID` | the locals of the same meaning (`results` in `parseCommandResults`) |
| `info` | the map `parseKVPairs` returns |
| `from` | history: the line or part each record began with |

A body is a sequence of parts, or of lines of fields; a field is a text, a time, a
number, an integer too large, or blank: what `TrimSpace`, `ParseInt`, `Atoi` and
`ParseInLocation` tell apart. `TrimBody` is `strings.TrimSpace` over the whole
body, which reaches into the fields of its first and last line. `StartResult`,
`SetField`, `SkipPart` and `FinishResults` are the cases of the loop of
`parseCommandResults`; `AttLine`, `UserLine` and `KVPair` are one turn of the
other loops. Fields with white space around a value are left out: the parsers
trim some of them and not others, which no property is about.

### Probe

| Variable | Code |
| --- | --- |
| `results`, `queued`, `idMap`, `replied` | the variables of `run` that its `mu` guards |
| `prober`, `next` | the queueing goroutine and the candidate its loop is at |
| `main`, `last` | where `run` is, and the copy its own summary is printed from |
| `cancelled` | the context |
| `online`, `cmdID`, `waiting`, `held`, `pending`, `callbacks` | the server, reduced: whether the device counts as online, the ID counter, queued, received and unconfirmed IDs, results accepted and not called back |
| `issued`, `confirms`, `interrupted`, `summaries` | history: the candidate of each ID, what the device confirmed, Ctrl+C, what was printed |

What the server is reduced to is what the other modules establish: unique IDs,
each sent at most once (`SentOnce`, `OnePlace`), results called back one at a
time in the order they were accepted (`CalledInOrder`). `Queue` and `Record` are
two steps because `QueueCommand` returns before the probe takes its mutex. The
device confirms what it received in any order, repeatedly, and under IDs of an
earlier run of the probe (`StaleIDs`), since a restarted server counts from 1
again.

### ExampleProgram

| Variable | Code |
| --- | --- |
| `devices`, `zone`, `options` | `s.devices`: presence and staleness, `Device.Timezone`, `Device.Options` |
| `request` | for each handler goroutine, the handler it is in and its locals |
| `log`, `pos`, `current`, `down` | the callback pipeline, as `DeliveryLog` has it |
| `saved`, `store` | the callback's progress in its batch; `AttendanceStore.records` |
| `cancelled`, `listening`, `run` | the context of the program, its HTTP server, `run` |
| `acked`, `told`, `evicted` | history: uploads and registry bodies answered OK, devices ever evicted |

The three examples share `run`, the shutdown goroutine and the deferred `Close`;
the module takes the registration of known devices of the first two, the API of
`commands` and the store of `database` into one program. The zones are not theirs:
they register without options, and the module has the program register its devices
with `WithDeviceTimezone`, as the comment of `RegisterDevice` (`device.go:12-15`) shows. Of the API, it follows
what matters to a device that is evicted between two looks at it: `Find` is the
examples' `requireDevice`, `Respond` the end of the request, `Fails` the state in
which its second look finds nothing. An upload is `Upload`, `Activity`,
`ReadZone`, `DispatchAccepted` or `DispatchRefused`, and `Answer`; a registry
request is `Registry`, `Activity`, `CopyOptions` and `AnswerRegistry`. Uploads are
attendance batches. One the parser finds nothing in is a batch without
records here, although `dispatchAttendance` does not queue it: no record, callback
or answer differs. `Shutdown` only closes the listener: nobody waits for the
rest of it. `InRange` is `GetRecordsByDateRange`, `InSummary` what
`summaryHandler` asks of it.

## Runs

All bounds are constants in the `.cfg` files. Deadlock is not checked: the
counters of calls end every bounded behaviour, a closed server stops, and
liveness properties say what must not get stuck.

| Run | Instance | Shows |
| --- | --- | --- |
| `queue_two_devices` | 2 devices, 2 goroutines, 1 registry place, 2 commands, limit 1, bodies of one result, of the first ID | `DeviceLimit`, `CommandLimit`, `OnePlace`, `SentOnce`, `RightDevice`, `Accounted`, `ReportedBeforeForgotten`, `UncorrelatedExplained`, `ImplementsMailbox` |
| `queue_liveness` | 1 device, 2 goroutines, 2 commands, limit 2, no confirmations | `CallerOrder`, `StaleDeviceLeaves`, `PolledQueueDrains` |
| `pipeline` | 2 dispatchers, 2 closers, capacity 1, 2 batches of 2 records | `NoSendAfterClose`, `CalledInOrder`, `DrainedOnReturn`, `RefusedNeverCalled`, `ContextLive`, `ImplementsLog`, `CloseReturns`, `DispatchReturns`, `AcceptedDelivered` |
| `parsers` | every body of up to 5 parts (results), 2 lines of 3 fields or 3 lines (attendance), 2 lines of 3 fields (users), 4 pairs | `ResultsOfBody`, `OnlyFirstLineShifts`, `PairsOfBody` |
| `probe` | 4 candidates, 1 destructive, limit 2, 2 confirmations, 1 stale ID | `OrderlyAttribution`, `SummaryAccurate`, `SummariesGrow`, `ProbeEnds` |
| `example_program` | 1 configured device, 2 requests, 1 upload of 3 records, 1 batch, 4 days | `OwnZone`, `OptionsKept`, `AckedIsSaved`, `FailsOnlyByEviction`, `SummariesPartition`, `AckedGetsSaved`, `ProgramExits` |
| `claim_*` | the smallest instance | the findings below, each a counterexample |

Why the bounds are enough. Every race in the queue half is between two
goroutines, or a goroutine and the eviction worker, around one or two commands.
Two devices competing for one place in the registry let one be evicted and the
other take its place; two commands let both callers meet at every step. A limit
of one is reached by one command that is queued or pending while the other is
being appended. A body of two results takes the steps two requests of one result
take, so bodies of one are enough for what can interleave. They name the first ID only
(`FirstIDConfirmed`): a confirmation reads and deletes the entry of its own ID and
leaves the others alone, and that ID is confirmed before it is assigned, while it is
queued or pending, by either device and twice at once. The theorems hold for bodies
of any length and any IDs. `queue_liveness` needs a limit of two for a queue that has
an order, and no confirmations: they only take pending entries away, and neither
the order of a queue nor its draining looks at those. In the pipeline, capacity
one is full after one batch while the second waits for room or for the worker, and
a batch of two has a record that is its last and one that is not, with a panic
possible between them. Two closers let one wait for the other. In the parsers, five
parts hold two IDs with fields before, between and after them; three lines hold a
first, a middle and a last. In the probe, a limit of two refuses the last candidate
unless a confirmation came before, and two confirmations can be out of order, the
same one twice, early, and stale; `ProbeProofs` has any number of them. In the
program, one device suffices because nothing in it relates two devices; two
requests of it and the eviction meet at every step, and its one upload is a batch
that is being answered, stored or delivered at the shutdown. Its calendar has a
short and a long day, as days with clock changes are, and the upload a record at a
midnight, one in the last hours of the long day, and one within 24 hours of two
midnights.

Devices and goroutines of one kind are interchangeable and symmetric in
`queue_two_devices`, which has no liveness property. That run also leaves out of
its view of a state (`Anonymous`) what no later step and no property of the run looks
at: who queued a command (of the safety properties only `CallerOrder` does, which is
in the other run), the device of a confirmation, and by which of its two reasons a
result counts as answered. The other runs use no symmetry and no view.

Every run checks the type invariant of its module as well, `queue_liveness`
excepted, which is on the module of the first run.

Each property has a mutant, a wrong variant of one definition under which the
same run reports that property violated.

## Fairness

- `FairSpec` of `CommandQueue`: weak fairness of every started call. The Go
  scheduler runs every runnable goroutine and `sync.Mutex`/`sync.RWMutex` starve
  none. The ticker of the eviction worker ticks for as long as the worker runs,
  and the worker is never blocked otherwise, hence weak fairness of both phases.
  No call is assumed to start.
- `Polling`, the premise of `PolledQueueDrains`, is an assumption on the
  environment: a device polls again and again. Strong fairness, because a poll can
  be answered only when a goroutine is free and, for an unregistered device, when
  there is room in the registry.
- `FairSpec` of `CallbackPipeline`: weak fairness of every dispatcher, of the
  callback worker (user callbacks return or panic), and of callers inside
  `Close`. `EvictorExit` is strongly fair: when `closeCh` is closed, the select
  of the worker could still take a tick, but the ticker is not ready each time
  the worker comes back to it. No call of `Close` or of a dispatch is assumed.
- `Spec` of `Probe`: weak fairness of the queueing goroutine, of its timeout (a
  timer that was started fires), of the callbacks and of `run`. Nothing is assumed
  of the device or of the user.
- `Spec` of `ExampleProgram`: weak fairness of the callback worker and of the
  steps of `run` and its shutdown goroutine. Requests need not come or end:
  `ProgramExits` holds although handlers hang.
- `UntilCancelledSpec` (claims) is `FairSpec` with callbacks that return only
  once their context is cancelled.

## Findings

1. `QueueCommand` can queue a command for a device that is fully evicted
   (`EvictedQueueIsEmpty`): it checks the registry and appends in two critical
   sections. `options.go:205` promises that the queue is cleaned up with the
   device.
2. An eviction can remove a command that was accepted after the device came back
   (`EvictionSparesActive`): the device registers again between the two phases, and
   the whole of `QueueCommand`, its registry check included, runs there too. A
   command whose check was before the first phase does not count: its cleanup is what
   `adms.go:190` describes.
3. A request can be answered as usual and leave its device unregistered
   (`RequestKeepsDevice`): `RegisterDevice` does not stamp a known device, the
   eviction worker removes it, and `updateDeviceActivity` finds nothing to stamp.
4. `Close` cancels the base context after the last callback, not when it is
   called (`CloseCancelsContext`), contrary to `README.md:158`; a callback that
   waits for its context, and `Close`, wait for each other. The comment of
   `Close` itself describes the order the code has, and `ContextLive` holds.
5. The examples can exit with requests in progress (`InFlightFinish`):
   `ListenAndServe` returns when `Shutdown` is called, not when it is done, and
   nobody waits for the goroutine that called it. `examples/database/main.go:405`
   says "wait for context cancellation, then gracefully stop the HTTP server so
   in-flight requests can finish." `AckedIsSaved` holds all the same, because
   a request is answered after its records were accepted, and the deferred
   `Close` delivers what was accepted.
6. A device's records can be read in another zone than the one configured for it
   (`ConfiguredZone`): the zone goes with the `Device` an eviction deletes, and the
   device's next request registers it without one. `options.go:16` says its
   timestamps are interpreted in the given location. `OwnZone` says that
   eviction is the only way to lose it.

Smaller disagreements met while modelling, with no run of their own:

- `types.go:133` has `ErrServerClosed`; no operation returns it, and only
  dispatches look at `closeCh`.
- The probe prints "Wait for device to connect first" (`cmd/probe/main.go:264`), but
  `RegisterDevice` (238) has just set `LastActivity`, so the device counts as
  online and the wait ends at once.
- The probe's list of commands without a reply (`cmd/probe/main.go:427`) counts
  replies and assumes they came in the order of the queue; `SummaryAccurate`
  therefore has a premise on the device.
- The first line of an attendance upload with an empty user ID is not skipped as
  others are: trimming the body takes the empty field away and the others shift
  (`OnlyFirstLineShifts`).
- Lines of a Shell result's content that look like fields are read as fields
  (`ResultsOfBody` says which result they go to).
- A restarted server counts command IDs from 1 again, so a late confirmation of an
  old command is taken for a new one that is pending; in the probe, only the results
  of a device that confirms none of the old IDs are attributed reliably
  (`OrderlyAttribution`).
- "Deletion is deferred until dispatch succeeds so that a device retry (after a 503)
  can still correlate the command" (`handler.go:277`), but `HandleDeviceCmd` deletes
  whatever has the ID by then: a result that was looked up before its command was drained takes the entry
  away without the command having been in any result (`ReportedBeforeForgotten`
  excepts it). It takes an ID no device was sent yet, so an ID of an earlier server.
- Any device can confirm another one's command: the `sn` of the pending entry is
  not compared with the device of the request.
- `handleDeviceDetail` of the commands example dereferences nil if the device is
  evicted after `requireDevice` found it; `net/http` ends that request
  (`FailsOnlyByEviction` says nothing else makes it).
- A record whose time is a midnight is in the summary of no day, nor are the last
  hours of a day longer than 24 (`SummariesPartition`).

## Proofs

The theorems hold for every set of devices, goroutines and callers, every limit,
buffer size and bound that satisfies `BoundsAssumption` (the sets are finite, the
numbers natural) or `PipelineAssumption` (the buffer holds at least one batch, as
`WithCallbackBufferSize` and the default ensure); in the parsers for every set of
bodies, of any length, that satisfies `ValuesAssumption` and `BodiesAssumption`;
in the probe for any number of candidates, confirmations and stale IDs and any
limit of `ProbeAssumption`; in the program for any devices, requests, uploads,
records and calendar of `ProgramAssumption` (midnights are in order). Every safety
property of the runs is the statement of one of these theorems.

`CommandQueueProofs`

- `TypeCorrect`: `TypeOK` is inductive. The part that needs an argument is the
  bound on IDs: a call may start only if the counter and the calls that have not
  yet taken their ID leave room (`IDsLeft`), so `cmdID + Cardinality(Assigning)`
  stays within `MaxCmdID`.
- `DeviceLimitHolds`: inductive given `TypeOK`; the limit is tested in the
  critical section that adds the device.
- `CommandLimitHolds`: inductive given `TypeOK`. A drain turns n positions of the
  queue into at most n new pending IDs (`RangeBound`, `DrainKeepsLoad`), an append
  tests the limit in its own critical section, every other step only removes.

`CommandTrackingProofs`

- `OnePlaceHolds`, `AccountedHolds`. Neither is inductive: an ID taken by
  `QueueAssign` is in no container until `QueueAppend`, and only because it is
  still unused then do both hold. The strengthening `FreshIDs` says that accepted
  IDs are at most the counter, and that IDs on their way to an append are at most
  the counter, unused and pairwise different. `Tracking` is the conjunction.
- `MailboxRefinement`: initial states and steps of `CommandQueue` map to those of
  `CommandMailbox` in states of `Tracking`. `FreshIDs` gives the guard of `Put`;
  `OnePlace` shows that a drain overwrites no entry of another device.

`CommandDeliveryProofs`

- `SentOnceHolds`, `RightDeviceHolds`: a step appends a fresh ID to one stream, or
  keeps every stream, or takes queued commands off its end (`StreamSteps`; a drain for
  a response keeps it, since it moves the queue to what was sent). With `SentAccepted`,
  that streams hold only accepted commands, both are inductive given `Tracking`.
- `ReportedBeforeForgottenHolds`, `UncorrelatedHolds`: `LookedUp` describes what a
  handler between its lookup and its delete knows. A lookup that misses a command
  that was drained is of one that was confirmed or discarded (`Accounted`), and such a
  command is never pending again, so it is not its entry that is deleted. Nothing is
  assumed of the IDs in a body.
- `CallerOrderHolds`: `CallerIDs` says that a goroutine about to append has only
  lower IDs behind it; what is taken off a stream leaves a prefix.

`CallbackPipelineProofs`

- `TypeCorrect`, with `InBatch`: the worker stays within its batch.
- `NoSendAfterCloseHolds`, `ContextLiveHolds`: from `Shutdown`, the order in which
  `Close` takes the parts down (`closeCh`, channel, worker, context).
- `LogRefinement`: `RestOfLog` says that the channel is the undelivered end of the
  accepted batches; a send needs an open channel, so the log is not down.
- `RefusedNeverCalledHolds`: `OneFate` says that a batch being dispatched is
  neither accepted nor refused, and no two dispatchers have the same one.
- `DrainedOnReturnHolds`: `Delivered` says what the worker still owes of the batch
  it is in; a call of `Close` has returned only when the worker exited.
- `CalledInOrderHolds`: `Ordered` says which record comes next after the last call:
  the one the worker is at, or, while it is in the callback, the one after it
  (`ComesNext`). It is inductive given `Delivered` and that the worker's batch is the
  one `Pos` points at.

`ParsersProofs`

- `ParsedResults`: `LoopInv` is the invariant of the loop of `parseCommandResults`: what
  `ResultsOfBody` says of the parts before `at`, with the facts about `current` and
  `hasID` that let it go on. One lemma per step; `SameResultKeeps` serves the steps
  that extend the last result by a part, whether or not it sets a field.
- `ParsedMaps`: from `ParsedPairs` (`PairInv`, the map of the pairs before `at`) and
  `ParsedUsers` (`UserInv`: the records are those of the lines before `at` that have a
  PIN, in their order; `HasPIN` relates the last PIN of a line to the map made of it).
- `ParsedAttendance`: `AttInv` says the same of the attendance lines, but of the
  trimmed body, which is what the loop reads. Both loops share `Collected` and its two
  steps, `CollectNext` (a line that counts) and `CollectSkip`. What trimming does is
  `TrimmedLines`: the lines between the first and the last with a field keep their
  fields, the first loses its leading empty ones, the others are not read.
- `ParserTyped`: `TypeOK`, from the invariants of the loops.

`ProbeProofs`

- `ProbeTyped`: with `Registered`, which relates the IDs given out to `idMap` and
  `queued`, and `DeviceTyped`, what the device was given and what waits for it.
- `OrderlyAttributionHolds`: a callback that looks its ID up too early finds no
  candidate, a stale ID one it is not of. `Matched` numbers the confirmations: the
  i-th confirmation of a device that has been orderly is of the i-th ID (`Rank`), so
  it is of the candidate the ID was given to.
- `SummaryAccurateHolds`: also needs `InOrder`, that `queued` has the candidates in the
  order of their IDs: then the replies of an orderly device are those of the first
  candidates, and the others are the ones without a reply (`SnapshotAccurate`). Every
  copy was such a snapshot when it was taken (`CopiedNext`).
- `SummariesGrowHolds`: copies hold beginnings of the results (`Copies`); until the
  user interrupts it, `run` takes its copy after the goroutine is done (`Ended`), so
  the summary it prints repeats all printed before (`Repeats`).

`ExampleProgramProofs`

- `ProgramTyped`: `TypeOK` in four parts (registry, requests, pipeline, program), each
  preserved given all of them.
- `FailsByEviction`: a device becomes absent only by `EvictDevices` and only when stale
  (`LeavesStale`), and a request is past its first look only through `Find`
  (`FoundByFind`).
- `AckedSaved`: `SavedInv` carries an upload from its answer to the store: what is
  answered is in the log (`AnsweredInLog`), what the worker took is saved up to where it
  is (`TakenSaved`), and an exited program has nothing left in the log (`ExitedEmpty`).
- `ZoneOfRecords`: `ZoneInv` says of a configured device never evicted that the
  registry, the requests, the log and the store have its zone.
- `OptionsOfDevices`: `KnownInv` says what a registry request may rely on from where it
  is: its device was registered and is there or was evicted.
- `DaysOfRecords`: `SummariesPartition`, over any calendar, from the order of the midnights.

Only model-checked: what depends on fairness or ENABLED, which is beyond the proof
system. These are `StaleDeviceLeaves`, `PolledQueueDrains`, `CloseReturns`,
`DispatchReturns`, `AcceptedDelivered`, `ProbeEnds`, `AckedGetsSaved` and
`ProgramExits`. The claims of the repository under Findings are refuted by
counterexamples, so there is nothing to prove about them.

## Not modelled, and the plan

Not modelled, with no plan to: the text of commands and their validation
(`command.go:72-221`, formatting and input checks without state), so that the
command handlers of the API are only their two looks at a device;
`ParseQueryParams`, the layouts of timestamps and white space around fields;
logging and the examples' logging middleware, flags, JSON bodies and printed
reports; `HandleInspect`, `ListDevices` and the other read-only copies; Go's HTTP
server. `types.go` and most of `options.go` are declarations and setters: what
has behaviour is in the module where it is used.

Left of the plan:

1. `DeviceLink`: one device, its outbox and a server that restarts, as a module of
   its own. Repeated results of a refused body and IDs this server never assigned are
   in `CommandQueue` (`UncorrelatedExplained`), the IDs of an earlier run in `Probe`;
   what is left is which of its commands a device has carried out.
2. `ServerLifecycle`: both halves composed, with operations on a closed server.
