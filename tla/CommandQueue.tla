----------------------------- MODULE CommandQueue -----------------------------
(***************************************************************************)
(* The command half of an ADMSServer: the device registry, the per-device  *)
(* command queues, the pending (sent but unconfirmed) commands, the        *)
(* eviction worker, and the calls of the embedding program and of the      *)
(* HTTP handlers that touch them (command.go, device.go, handler.go and    *)
(* the eviction worker of adms.go).                                        *)
(*                                                                         *)
(* An action is one critical section of devicesMutex or queueMutex, or one *)
(* step a goroutine makes outside both: everything the code does under one *)
(* lock is one step, and other goroutines may run between two of them.     *)
(***************************************************************************)
EXTENDS Naturals, Sequences, FiniteSets, Functions

CONSTANTS
    SerialNumbers,        \* the serial numbers devices identify themselves with
    Threads,              \* goroutines: HTTP handlers and callers of the API
    MaxDevices,           \* WithMaxDevices, 0 = unlimited
    MaxCommandsPerDevice, \* WithMaxCommandsPerDevice, 0 = unlimited
    MaxCmdID,             \* bound: command IDs handed out in a behaviour
    MaxResults            \* bound: results in one /iclock/devicecmd body

ASSUME BoundsAssumption ==
    /\ IsFiniteSet(SerialNumbers)
    /\ IsFiniteSet(Threads)
    /\ MaxDevices \in Nat
    /\ MaxCommandsPerDevice \in Nat
    /\ MaxCmdID \in Nat
    /\ MaxResults \in Nat

CommandIDs == 1..MaxCmdID

VARIABLES
    devices,         \* sn -> is it registered, and has it been silent too long
    commandQueue,    \* sn -> the IDs of its queued commands, oldest first
    pendingCommands, \* ID -> serial number, for drained, unconfirmed commands
    cmdID,           \* the atomic counter IDs come from
    call,            \* thread -> the call it is in and what that call remembers
    evictor,         \* the eviction worker: "waiting" for a tick, or "sweeping"
    swept            \* the stale serial numbers it collected in phase 1

(* History: what happened to each command, for the properties only. *)
VARIABLES
    accepted,        \* [id, sn, by]: QueueCommand returned id without an error
    sent,            \* sn -> the IDs in the responses to it, in their order
    reported,        \* [id, correlated, early]: results handed to the callback
                     \* queue, whether QueuedCommand was filled in, and whether
                     \* the ID was looked up before DrainCommands returned it
    confirmed,       \* IDs HandleDeviceCmd removed from pendingCommands
    discarded        \* IDs the eviction worker removed

history == <<accepted, sent, reported, confirmed, discarded>>
queues  == <<commandQueue, pendingCommands, cmdID>>
worker  == <<evictor, swept>>
vars    == <<devices, commandQueue, pendingCommands, cmdID, call,
             evictor, swept,
             accepted, sent, reported, confirmed, discarded>>

(***************************************************************************)
(* A device is "absent" from the map, or its LastActivity is within        *)
(* ("fresh") or beyond ("stale") the eviction timeout.                     *)
(***************************************************************************)
Registered == {sn \in SerialNumbers : devices[sn] # "absent"}
Stale      == {sn \in SerialNumbers : devices[sn] = "stale"}

Idle == [at |-> "idle"]
Goto(t, c) == call' = [call EXCEPT ![t] = c]
Return(t)  == Goto(t, Idle)

IDsIn(seq)     == Range(seq)
Queued         == UNION {IDsIn(commandQueue[sn]) : sn \in SerialNumbers}
PendingFor(sn) == {id \in DOMAIN pendingCommands : pendingCommands[id] = sn}
AcceptedIDs    == {a.id : a \in accepted}

Init ==
    /\ devices = [sn \in SerialNumbers |-> "absent"]
    /\ commandQueue = [sn \in SerialNumbers |-> <<>>]
    /\ pendingCommands = <<>>
    /\ cmdID = 0
    /\ call = [t \in Threads |-> Idle]
    /\ evictor = "waiting" /\ swept = {}
    /\ accepted = {} /\ reported = {} /\ confirmed = {} /\ discarded = {}
    /\ sent = [sn \in SerialNumbers |-> <<>>]

-----------------------------------------------------------------------------
(* Device registry. *)

(* Mutant of CanRegister: the limit is tested after counting one too few. *)
CanRegisterOffByOne(sn) ==
    \/ sn \in Registered
    \/ MaxDevices = 0
    \/ Cardinality(Registered) <= MaxDevices

CanRegister(sn) ==
    \/ sn \in Registered
    \/ MaxDevices = 0
    \/ Cardinality(Registered) < MaxDevices

(* RegisterDevice: a known device keeps its LastActivity. *)
RegisterDevice(sn) ==
    /\ CanRegister(sn)
    /\ devices' = [devices EXCEPT ![sn] = IF @ = "absent" THEN "fresh" ELSE @]

(* updateDeviceActivity: does nothing when the device is gone. *)
UpdateDeviceActivity(sn) ==
    devices' = [devices EXCEPT ![sn] = IF @ = "absent" THEN @ ELSE "fresh"]

(* The embedding program registers a device. *)
AppRegister(sn) ==
    /\ RegisterDevice(sn)
    /\ UNCHANGED <<queues, call, worker, history>>

(* Time passes: the device has been silent beyond deviceEvictionTimeout. *)
Age(sn) ==
    /\ devices[sn] = "fresh"
    /\ devices' = [devices EXCEPT ![sn] = "stale"]
    /\ UNCHANGED <<queues, call, worker, history>>

-----------------------------------------------------------------------------
(* QueueCommand: three steps, with no lock held from one to the next. *)

(* The bound on IDs: no call starts that might need one beyond MaxCmdID. *)
Assigning == {t \in Threads : call[t].at = "assign"}
IDsLeft   == cmdID + Cardinality(Assigning) < MaxCmdID

QueueCheck(t, sn) ==
    /\ call[t].at = "idle"
    /\ IDsLeft
    /\ sn \in Registered
    /\ Goto(t, [at |-> "assign", sn |-> sn])
    /\ UNCHANGED <<devices, queues, worker, history>>

(* Mutants of QueueAssign: the counter is read and written back, so callers *)
(* that meet there get one ID; the counter is advanced twice per call.      *)
QueueAssignLostUpdate(t) ==
    /\ call[t].at = "assign"
    /\ cmdID' = IF \E u \in Threads \ {t} : call[u].at = "assign"
                THEN cmdID ELSE cmdID + 1
    /\ Goto(t, [at |-> "append", sn |-> call[t].sn, id |-> cmdID + 1])
    /\ UNCHANGED <<devices, commandQueue, pendingCommands, worker, history>>

QueueAssignTwice(t) ==
    /\ call[t].at = "assign"
    /\ cmdID' = cmdID + 2
    /\ Goto(t, [at |-> "append", sn |-> call[t].sn, id |-> cmdID + 2])
    /\ UNCHANGED <<devices, commandQueue, pendingCommands, worker, history>>

QueueAssign(t) ==
    /\ call[t].at = "assign"
    /\ cmdID' = cmdID + 1
    /\ Goto(t, [at |-> "append", sn |-> call[t].sn, id |-> cmdID + 1])
    /\ UNCHANGED <<devices, commandQueue, pendingCommands, worker, history>>

(* Mutant of AtLimit: only what is still queued counts. *)
AtLimitQueuedOnly(sn) ==
    /\ MaxCommandsPerDevice > 0
    /\ Len(commandQueue[sn]) >= MaxCommandsPerDevice

AtLimit(sn) ==
    /\ MaxCommandsPerDevice > 0
    /\ Len(commandQueue[sn]) + Cardinality(PendingFor(sn))
         >= MaxCommandsPerDevice

(* ErrCommandQueueFull: the ID is consumed, nothing is queued. *)
QueueReject(t) ==
    /\ call[t].at = "append"
    /\ AtLimit(call[t].sn)
    /\ Return(t)
    /\ UNCHANGED <<devices, queues, worker, history>>

(* Mutant of QueueAppend: the newest command goes to the front. *)
QueueAppendInFront(t) ==
    /\ call[t].at = "append"
    /\ ~AtLimit(call[t].sn)
    /\ commandQueue' = [commandQueue EXCEPT ![call[t].sn] = <<call[t].id>> \o @]
    /\ accepted' = accepted \cup {[id |-> call[t].id, sn |-> call[t].sn, by |-> t]}
    /\ Return(t)
    /\ UNCHANGED <<devices, pendingCommands, cmdID, worker,
                   sent, reported, confirmed, discarded>>

QueueAppend(t) ==
    /\ call[t].at = "append"
    /\ ~AtLimit(call[t].sn)
    /\ commandQueue' = [commandQueue EXCEPT ![call[t].sn] = Append(@, call[t].id)]
    /\ accepted' = accepted \cup {[id |-> call[t].id, sn |-> call[t].sn, by |-> t]}
    /\ Return(t)
    /\ UNCHANGED <<devices, pendingCommands, cmdID, worker,
                   sent, reported, confirmed, discarded>>

-----------------------------------------------------------------------------
(* Mutants of DrainCommands: the queue is copied but not deleted; the       *)
(* drained commands are not tracked.                                        *)
DrainWithoutDelete(sn) ==
    /\ pendingCommands' =
         [id \in DOMAIN pendingCommands \cup IDsIn(commandQueue[sn]) |->
            IF id \in IDsIn(commandQueue[sn]) THEN sn ELSE pendingCommands[id]]
    /\ UNCHANGED commandQueue

DrainUntracked(sn) ==
    /\ commandQueue' = [commandQueue EXCEPT ![sn] = <<>>]
    /\ UNCHANGED pendingCommands

(* DrainCommands: every queued command becomes pending. *)
DrainCommands(sn) ==
    /\ commandQueue' = [commandQueue EXCEPT ![sn] = <<>>]
    /\ pendingCommands' =
         [id \in DOMAIN pendingCommands \cup IDsIn(commandQueue[sn]) |->
            IF id \in IDsIn(commandQueue[sn]) THEN sn ELSE pendingCommands[id]]

(* The embedding program drains a queue itself; the commands are not sent. *)
AppDrain(sn) ==
    /\ DrainCommands(sn)
    /\ UNCHANGED <<devices, cmdID, call, worker, history>>

-----------------------------------------------------------------------------
(* HTTP requests. *)

(* A device may confirm any ID, as often as it likes: one it was sent, one  *)
(* of another device, one that is still queued, or one this server has not  *)
(* assigned (yet), such as an ID of the server that ran here before.        *)
Bodies == UNION {[1..n -> CommandIDs] : n \in 1..MaxResults}

(* requireDevice, first critical section. A rejected registration answers *)
(* 503 and changes nothing.                                               *)
Request(t, sn) ==
    /\ call[t].at = "idle"
    /\ RegisterDevice(sn)
    /\ Goto(t, [at |-> "registered", sn |-> sn])
    /\ UNCHANGED <<queues, worker, history>>

(* Where a handler goes on: HandleGetRequest and a HandleCData without a    *)
(* body drain the queue, a HandleCData with an INFO body dispatches it      *)
(* first, HandleDeviceCmd looks its results up. Idle stands for requests    *)
(* that leave commands alone (ATTLOG, OPERLOG, USERINFO, registry) or whose *)
(* body is empty or cannot be read.                                         *)
HandlerStarts(sn) ==
    {Idle}
    \cup [at : {"drain", "info"}, sn : {sn}]
    \cup [at : {"lookup"}, sn : {sn}, results : Bodies]

(* requireDevice, second critical section. *)
Activity(t) ==
    /\ call[t].at = "registered"
    /\ UpdateDeviceActivity(call[t].sn)
    /\ \E c \in HandlerStarts(call[t].sn) : Goto(t, c)
    /\ UNCHANGED <<queues, worker, history>>

(* HandleCData with an INFO body: dispatchDeviceInfo, or a 503 that leaves *)
(* the queue alone.                                                        *)
DispatchInfo(t) ==
    /\ call[t].at = "info"
    /\ \/ Goto(t, [at |-> "drain", sn |-> call[t].sn])
       \/ Return(t)
    /\ UNCHANGED <<devices, queues, worker, history>>

(* Mutant of Drain: nothing is sent while a command awaits its confirmation. *)
DrainUnlessPending(t) ==
    LET sn   == call[t].sn
        wait == PendingFor(sn) # {}
        cmds == IF wait THEN <<>> ELSE commandQueue[sn]
    IN  /\ call[t].at = "drain"
        /\ IF wait THEN UNCHANGED <<commandQueue, pendingCommands>> ELSE DrainCommands(sn)
        /\ Goto(t, [at |-> "write", sn |-> sn, cmds |-> cmds])
        /\ sent' = [sent EXCEPT ![sn] = @ \o cmds]
        /\ UNCHANGED <<devices, cmdID, worker, accepted, reported, confirmed, discarded>>

(* writeCommandsOrOK: drain, then write outside the lock. *)
Drain(t) ==
    /\ call[t].at = "drain"
    /\ DrainCommands(call[t].sn)
    /\ LET cmds == commandQueue[call[t].sn]
       IN  /\ Goto(t, [at |-> "write", sn |-> call[t].sn, cmds |-> cmds])
           /\ sent' = [sent EXCEPT ![call[t].sn] = @ \o cmds]
    /\ UNCHANGED <<devices, cmdID, worker, accepted, reported, confirmed, discarded>>

(* Mutant of WriteCommands: the commands of a response that could not be    *)
(* written go back to the front of the queue.                               *)
WriteRequeues(t) ==
    /\ call[t].at = "write"
    /\ commandQueue' = [commandQueue EXCEPT ![call[t].sn] = call[t].cmds \o @]
    /\ pendingCommands' = [id \in DOMAIN pendingCommands \ IDsIn(call[t].cmds) |->
                             pendingCommands[id]]
    /\ Return(t)
    /\ UNCHANGED <<devices, cmdID, worker, history>>

(* Write errors are ignored: whether the response arrives or is lost, the   *)
(* server goes on as it is.                                                 *)
WriteCommands(t) ==
    /\ call[t].at = "write"
    /\ Return(t)
    /\ UNCHANGED <<devices, queues, worker, history>>

-----------------------------------------------------------------------------
(* HandleDeviceCmd: look up, dispatch, delete, one result after the other. *)

(* DrainCommands has not returned this ID to anybody. *)
Undrained(id) == id \notin AcceptedIDs \/ id \in Queued

(* Mutant of LookupResult: the entry is deleted when it is looked up. *)
LookupAndDelete(t) ==
    LET id == Head(call[t].results)
    IN  /\ call[t].at = "lookup"
        /\ Goto(t, [at |-> "dispatch", sn |-> call[t].sn, results |-> call[t].results,
                    found |-> id \in DOMAIN pendingCommands, early |-> Undrained(id)])
        /\ pendingCommands' =
             [i \in DOMAIN pendingCommands \ {id} |-> pendingCommands[i]]
        /\ confirmed' = confirmed \cup ({id} \cap DOMAIN pendingCommands)
        /\ UNCHANGED <<devices, commandQueue, cmdID, worker,
                       accepted, sent, reported, discarded>>

LookupResult(t) ==
    LET id == Head(call[t].results)
    IN  /\ call[t].at = "lookup"
        /\ Goto(t, [at |-> "dispatch", sn |-> call[t].sn, results |-> call[t].results,
                    found |-> id \in DOMAIN pendingCommands, early |-> Undrained(id)])
        /\ UNCHANGED <<devices, queues, worker, history>>

DispatchResult(t) ==
    /\ call[t].at = "dispatch"
    /\ Goto(t, [at |-> "forget", sn |-> call[t].sn, results |-> call[t].results])
    /\ reported' = reported \cup
         {[id |-> Head(call[t].results), correlated |-> call[t].found,
           early |-> call[t].early]}
    /\ UNCHANGED <<devices, queues, worker, accepted, sent, confirmed, discarded>>

(* The callback queue is full or the server is closed: 503, and the rest of *)
(* the body is not looked at.                                               *)
DispatchRefused(t) ==
    /\ call[t].at = "dispatch"
    /\ Return(t)
    /\ UNCHANGED <<devices, queues, worker, history>>

ForgetResult(t) ==
    LET id   == Head(call[t].results)
        rest == Tail(call[t].results)
    IN  /\ call[t].at = "forget"
        /\ pendingCommands' =
             [i \in DOMAIN pendingCommands \ {id} |-> pendingCommands[i]]
        /\ confirmed' = confirmed \cup ({id} \cap DOMAIN pendingCommands)
        /\ Goto(t, IF rest = <<>> THEN Idle
                   ELSE [at |-> "lookup", sn |-> call[t].sn, results |-> rest])
        /\ UNCHANGED <<devices, commandQueue, cmdID, worker,
                       accepted, sent, reported, discarded>>

-----------------------------------------------------------------------------
(* The eviction worker, while the server is open. (CallbackPipeline shows  *)
(* how Close ends it; without it nothing is evicted any more.)             *)

(* Phase 1 of evictStaleDevices, under devicesMutex. *)
EvictDevices ==
    /\ evictor = "waiting"
    /\ Stale # {}
    /\ devices' = [sn \in SerialNumbers |->
                     IF sn \in Stale THEN "absent" ELSE devices[sn]]
    /\ swept' = Stale
    /\ evictor' = "sweeping"
    /\ UNCHANGED <<queues, call, history>>

(* Mutant of EvictCommands: the worker never comes back from a sweep. *)
EvictOnce ==
    /\ evictor = "sweeping"
    /\ swept' = {}
    /\ evictor' = "sweeping"
    /\ UNCHANGED <<devices, queues, call, history>>

(* Phase 2, under queueMutex. *)
EvictCommands ==
    /\ evictor = "sweeping"
    /\ commandQueue' = [sn \in SerialNumbers |->
                          IF sn \in swept THEN <<>> ELSE commandQueue[sn]]
    /\ pendingCommands' =
         [id \in {i \in DOMAIN pendingCommands : pendingCommands[i] \notin swept} |->
            pendingCommands[id]]
    /\ discarded' = discarded \cup UNION {IDsIn(commandQueue[sn]) \cup PendingFor(sn)
                                            : sn \in swept}
    /\ swept' = {}
    /\ evictor' = "waiting"
    /\ UNCHANGED <<devices, cmdID, call, accepted, sent, reported, confirmed>>

-----------------------------------------------------------------------------
(* Steps a goroutine makes once its call has started. *)
ThreadStep(t) ==
    \/ QueueAssign(t)
    \/ QueueReject(t)
    \/ QueueAppend(t)
    \/ Activity(t)
    \/ DispatchInfo(t)
    \/ Drain(t)
    \/ WriteCommands(t)
    \/ LookupResult(t)
    \/ DispatchResult(t)
    \/ DispatchRefused(t)
    \/ ForgetResult(t)

Next ==
    \/ \E sn \in SerialNumbers : AppRegister(sn) \/ Age(sn) \/ AppDrain(sn)
    \/ \E t \in Threads, sn \in SerialNumbers : QueueCheck(t, sn) \/ Request(t, sn)
    \/ \E t \in Threads : ThreadStep(t)
    \/ EvictDevices
    \/ EvictCommands

Spec == Init /\ [][Next]_vars

-----------------------------------------------------------------------------
(* Properties. *)

(* What a handler of /iclock/devicecmd has left of its body, and the calls. *)
Results == Seq(CommandIDs) \ {<<>>}

Calls ==
    {Idle}
    \cup [at : {"assign", "registered", "drain", "info"}, sn : SerialNumbers]
    \cup [at : {"append"}, sn : SerialNumbers, id : CommandIDs]
    \cup [at : {"write"}, sn : SerialNumbers, cmds : Seq(CommandIDs)]
    \cup [at : {"lookup", "forget"}, sn : SerialNumbers, results : Results]
    \cup [at : {"dispatch"}, sn : SerialNumbers, results : Results,
            found : BOOLEAN, early : BOOLEAN]

TypeOK ==
    /\ devices \in [SerialNumbers -> {"absent", "fresh", "stale"}]
    /\ commandQueue \in [SerialNumbers -> Seq(CommandIDs)]
    /\ DOMAIN pendingCommands \subseteq CommandIDs
    /\ \A id \in DOMAIN pendingCommands : pendingCommands[id] \in SerialNumbers
    /\ cmdID \in Nat /\ cmdID + Cardinality(Assigning) <= MaxCmdID
    /\ call \in [Threads -> Calls]
    /\ evictor \in {"waiting", "sweeping"}
    /\ swept \subseteq SerialNumbers
    /\ accepted \subseteq [id : CommandIDs, sn : SerialNumbers, by : Threads]
    /\ sent \in [SerialNumbers -> Seq(CommandIDs)]
    /\ reported \subseteq [id : CommandIDs, correlated : BOOLEAN, early : BOOLEAN]
    /\ confirmed \subseteq CommandIDs
    /\ discarded \subseteq CommandIDs

(* WithMaxDevices: whatever the interleaving of registrations, requests and *)
(* evictions, the registry never holds more devices than the limit.        *)
DeviceLimit ==
    MaxDevices > 0 => Cardinality(Registered) <= MaxDevices

(* WithMaxCommandsPerDevice: the queued and the unconfirmed commands of a  *)
(* device together never exceed the limit, although QueueCommand counts    *)
(* them one critical section after it checked the device, and draining     *)
(* moves commands from one count to the other.                             *)
CommandLimit ==
    MaxCommandsPerDevice > 0 =>
        \A sn \in SerialNumbers :
            Len(commandQueue[sn]) + Cardinality(PendingFor(sn))
              <= MaxCommandsPerDevice

(* A command ID names one command: it is at one position of one queue, or  *)
(* it is pending, never both. pendingCommands is keyed by ID alone, so two *)
(* commands with one ID would overwrite each other there.                  *)
OnePlace ==
    /\ \A sn \in SerialNumbers : IsInjective(commandQueue[sn])
    /\ \A sn1, sn2 \in SerialNumbers :
         sn1 # sn2 => IDsIn(commandQueue[sn1]) \cap IDsIn(commandQueue[sn2]) = {}
    /\ Queued \cap DOMAIN pendingCommands = {}

(* No accepted command vanishes: it is queued, or awaits its confirmation, *)
(* or HandleDeviceCmd removed it, or the eviction worker did; and what was *)
(* removed never comes back.                                               *)
Accounted ==
    /\ AcceptedIDs = Queued \cup DOMAIN pendingCommands \cup confirmed \cup discarded
    /\ (Queued \cup DOMAIN pendingCommands) \cap (confirmed \cup discarded) = {}
    /\ confirmed \cap discarded = {}

(* What a device was sent and what waits to be sent to it, in that order. *)
Stream(sn) == sent[sn] \o commandQueue[sn]

(* A command is put in at most one response, ever: it occurs once in all    *)
(* that any device was sent or has in its queue. It is not sent again when  *)
(* the response is lost, and two requests of the device answered at once do *)
(* not both take it.                                                        *)
SentOnce ==
    /\ \A sn \in SerialNumbers : IsInjective(Stream(sn))
    /\ \A sn1, sn2 \in SerialNumbers :
         sn1 # sn2 => IDsIn(Stream(sn1)) \cap IDsIn(Stream(sn2)) = {}

(* A command is sent only to the device it was queued for, and its pending  *)
(* entry names that device.                                                 *)
RightDevice ==
    \A a \in accepted :
        /\ a.id \in DOMAIN pendingCommands => pendingCommands[a.id] = a.sn
        /\ \A sn \in SerialNumbers \ {a.sn} : a.id \notin IDsIn(Stream(sn))

(* Commands a goroutine queued for a device one after the other are sent in *)
(* that order, in one response or in several, and wait in that order.       *)
CallerOrder ==
    \A sn \in SerialNumbers : \A i, j \in DOMAIN Stream(sn) :
        (i < j /\ \E t \in Threads :
                    \A k \in {i, j} : [id |-> Stream(sn)[k], sn |-> sn, by |-> t]
                                        \in accepted)
          => Stream(sn)[i] < Stream(sn)[j]

(* The IDs a result of which went to the callback with its QueuedCommand,   *)
(* or that were looked up before DrainCommands returned them.               *)
Answered == {r.id : r \in {q \in reported : q.correlated \/ q.early}}

(* HandleDeviceCmd deletes the pending entry only after the dispatch: a     *)
(* command it forgot was handed to the callback queue with its              *)
(* QueuedCommand at least once, whatever refusals, retries and concurrent   *)
(* confirmations came in between. The exception is an ID named too early,   *)
(* as one of an earlier server can be: the lookup misses it, a drain makes  *)
(* it pending, and the delete takes it.                                     *)
ReportedBeforeForgotten == confirmed \subseteq Answered

(* A result reaches the callback without its QueuedCommand only when        *)
(* DrainCommands had not returned its ID at all (types.go: an ID "never     *)
(* assigned by this server", or still queued), when the eviction worker     *)
(* removed the command, or when it was answered before, by this device, by  *)
(* another one or by a body whose later results were refused: a race of     *)
(* confirmations alone never loses it.                                      *)
UncorrelatedExplained ==
    \A r \in reported : r.correlated \/ r.early \/ r.id \in discarded \cup Answered

(* The mailboxes this module implements. *)
Mailbox == INSTANCE CommandMailbox WITH
    Capacity    <- MaxCommandsPerDevice,
    box         <- commandQueue,
    outstanding <- [sn \in SerialNumbers |-> PendingFor(sn)],
    used        <- AcceptedIDs

(* QueueCommand, DrainCommands, HandleDeviceCmd and the eviction worker,   *)
(* in whatever order their critical sections run, are the operations of a  *)
(* bounded mailbox per device; every other step leaves the mailboxes alone.*)
ImplementsMailbox == Mailbox!Spec

-----------------------------------------------------------------------------
(* Fairness and liveness. *)

(* The Go scheduler runs every goroutine and sync.RWMutex starves none, so *)
(* a started call goes on; the ticker ticks as long as the worker runs.    *)
FairSpec ==
    /\ Spec
    /\ \A t \in Threads : WF_vars(ThreadStep(t))
    /\ WF_vars(EvictDevices) /\ WF_vars(EvictCommands)

(* A device that stays silent leaves the registry: the worker comes back   *)
(* to its ticker after every sweep.                                        *)
StaleDeviceLeaves ==
    \A sn \in SerialNumbers :
        devices[sn] = "stale" ~> devices[sn] # "stale"

(* A device that keeps polling: it is let in again and again, and again and *)
(* again asks for its commands. This is an assumption on the devices.       *)
Polls(sn) ==
    \E t \in Threads :
        call[t] = [at |-> "registered", sn |-> sn] /\ Activity(t) /\ call'[t].at = "drain"

Polling ==
    \A sn \in SerialNumbers :
        /\ SF_vars(\E t \in Threads : Request(t, sn))
        /\ SF_vars(Polls(sn))

(* A command does not stay in the queue of a device that keeps polling,    *)
(* even when the device is evicted in between.                             *)
PolledQueueDrains ==
    Polling =>
        \A sn \in SerialNumbers, id \in CommandIDs :
            id \in IDsIn(commandQueue[sn]) ~> id \notin IDsIn(commandQueue[sn])
===============================================================================
