--------------------------- MODULE CallbackPipeline ---------------------------
(***************************************************************************)
(* The callback half of an ADMSServer: HTTP handlers hand batches of       *)
(* records to dispatchCallback, one worker runs the user's callbacks, and  *)
(* Close shuts the pipeline down (adms.go: dispatchCallback,               *)
(* dispatchAttendance and its siblings, callbackWorker, safeCall,          *)
(* evictionWorker, Close).                                                 *)
(*                                                                         *)
(* callbackMu is a sync.RWMutex: dispatchers hold it for reading from      *)
(* their first look at closeCh until they return, and a waiting writer     *)
(* keeps new readers out.                                                  *)
(***************************************************************************)
EXTENDS Naturals, Sequences, FiniteSets

CONSTANTS
    Dispatchers,   \* goroutines serving requests that dispatch a callback
    Closers,       \* goroutines that call Close
    BufferSize,    \* WithCallbackBufferSize, the capacity of callbackCh
    MaxJobs,       \* bound: batches dispatched in a behaviour
    BatchSizes     \* how many records a batch may hold

ASSUME PipelineAssumption ==
    /\ BufferSize \in Nat \ {0}
    /\ MaxJobs \in Nat
    /\ BatchSizes \subseteq Nat \ {0}

(* One call of dispatchCallback: the closure over a batch of records. Only *)
(* attendance batches hold more than one record.                           *)
Jobs == [id : 1..MaxJobs, size : BatchSizes]

VARIABLES
    dispatch,      \* dispatcher -> where it is in dispatchCallback
    callbackCh,    \* the buffered channel
    chClosed,      \* callbackCh is closed
    closeCh,       \* closeCh is closed
    writer,        \* callbackMu: "none" or a writer "waiting" for the readers
    closer,        \* closer -> where it is in Close
    once,          \* closeOnce: "new", "running", "done"
    evictor,       \* the eviction worker: "select", "sweeping", "exited"
    worker,        \* the callback worker
    baseCtx,       \* "live" or "cancelled"
    parentCtx      \* the context given to WithBaseContext

(* History, for the properties only. *)
VARIABLES
    jobs,          \* batches dispatched so far
    accepted,      \* batches sent to callbackCh, in that order
    refused,       \* IDs of batches dispatchCallback returned false for
    called         \* <<batch, record>> of each callback made, in that order

lifecycle == <<chClosed, closeCh, writer, closer, once, evictor>>
contexts  == <<baseCtx, parentCtx>>
history   == <<jobs, accepted, refused, called>>
vars      == <<dispatch, callbackCh, worker, chClosed, closeCh, writer, closer,
               once, evictor, baseCtx, parentCtx, jobs, accepted, refused, called>>

Idle == [at |-> "idle"]
Move(d, c) == dispatch' = [dispatch EXCEPT ![d] = c]

(* The dispatchers that hold callbackMu for reading. *)
Readers == {d \in Dispatchers : dispatch[d].at \in {"check", "send", "slow", "return"}}

Init ==
    /\ dispatch = [d \in Dispatchers |-> Idle]
    /\ callbackCh = <<>> /\ chClosed = FALSE
    /\ closeCh = FALSE
    /\ writer = "none"
    /\ closer = [c \in Closers |-> "idle"] /\ once = "new"
    /\ evictor = "select"
    /\ worker = [at |-> "receive"]
    /\ baseCtx = "live" /\ parentCtx = "live"
    /\ jobs = 0 /\ accepted = <<>> /\ refused = {} /\ called = <<>>

-----------------------------------------------------------------------------
(* dispatchCallback. *)

(* dispatchAttendance and its siblings, for a batch that is not empty and a *)
(* callback that is set; otherwise they return true without coming here.    *)
Call(d, size) ==
    /\ dispatch[d].at = "idle"
    /\ jobs < MaxJobs
    /\ jobs' = jobs + 1
    /\ Move(d, [at |-> "rlock", job |-> [id |-> jobs + 1, size |-> size]])
    /\ UNCHANGED <<callbackCh, worker, lifecycle, contexts, accepted, refused, called>>

RLock(d) ==
    /\ dispatch[d].at = "rlock"
    /\ writer = "none"
    /\ Move(d, [at |-> "check", job |-> dispatch[d].job])
    /\ UNCHANGED <<callbackCh, worker, lifecycle, contexts, history>>

Refuse(d) ==
    /\ Move(d, [at |-> "return", job |-> dispatch[d].job, ok |-> FALSE])
    /\ refused' = refused \cup {dispatch[d].job.id}
    /\ UNCHANGED <<callbackCh, worker, lifecycle, contexts, jobs, accepted, called>>

Send(d) ==
    /\ Len(callbackCh) < BufferSize
    /\ callbackCh' = Append(callbackCh, dispatch[d].job)
    /\ accepted' = Append(accepted, dispatch[d].job)
    /\ Move(d, [at |-> "return", job |-> dispatch[d].job, ok |-> TRUE])
    /\ UNCHANGED <<worker, lifecycle, contexts, jobs, refused, called>>

(* The server is closing or closed. *)
CheckRefuses(d) ==
    /\ dispatch[d].at = "check"
    /\ closeCh
    /\ Refuse(d)

CheckPasses(d) ==
    /\ dispatch[d].at = "check"
    /\ ~closeCh
    /\ Move(d, [at |-> "send", job |-> dispatch[d].job])
    /\ UNCHANGED <<callbackCh, worker, lifecycle, contexts, history>>

(* The non-blocking send, and the timer when the channel is full. *)
FastSend(d) ==
    /\ dispatch[d].at = "send"
    /\ Send(d)

StartTimer(d) ==
    /\ dispatch[d].at = "send"
    /\ Len(callbackCh) >= BufferSize
    /\ Move(d, [at |-> "slow", job |-> dispatch[d].job])
    /\ UNCHANGED <<callbackCh, worker, lifecycle, contexts, history>>

(* The last select: whichever case is ready, any of them when several are. *)
SlowSend(d) ==
    /\ dispatch[d].at = "slow"
    /\ Send(d)

(* Mutant of Timeout: the send is left behind to complete later. *)
TimeoutSendsLater(d) ==
    /\ dispatch[d].at = "slow"
    /\ Move(d, [at |-> "return", job |-> dispatch[d].job, ok |-> FALSE])
    /\ refused' = refused \cup {dispatch[d].job.id}
    /\ callbackCh' = Append(callbackCh, dispatch[d].job)
    /\ UNCHANGED <<worker, lifecycle, contexts, jobs, accepted, called>>

Timeout(d) ==
    /\ dispatch[d].at = "slow"
    /\ Refuse(d)

SlowClosed(d) ==
    /\ dispatch[d].at = "slow"
    /\ closeCh
    /\ Refuse(d)

(* The deferred RUnlock; the handler answers 200 or 503. *)
RUnlock(d) ==
    /\ dispatch[d].at = "return"
    /\ Move(d, Idle)
    /\ UNCHANGED <<callbackCh, worker, lifecycle, contexts, history>>

-----------------------------------------------------------------------------
(* callbackWorker. *)

Receive ==
    /\ worker.at = "receive"
    /\ callbackCh # <<>>
    /\ worker' = [at |-> "batch", job |-> Head(callbackCh), next |-> 1]
    /\ callbackCh' = Tail(callbackCh)
    /\ UNCHANGED <<dispatch, lifecycle, contexts, history>>

(* The user's callback is called with the next record of the batch. *)
CallBack ==
    /\ worker.at = "batch"
    /\ worker' = [worker EXCEPT !.at = "callback"]
    /\ called' = Append(called, <<worker.job.id, worker.next>>)
    /\ UNCHANGED <<dispatch, callbackCh, lifecycle, contexts, jobs, accepted, refused>>

AfterRecord ==
    IF worker.next = worker.job.size
    THEN [at |-> "receive"]
    ELSE [at |-> "batch", job |-> worker.job, next |-> worker.next + 1]

(* The callback returns. *)
CallbackReturns ==
    /\ worker.at = "callback"
    /\ worker' = AfterRecord
    /\ UNCHANGED <<dispatch, callbackCh, lifecycle, contexts, history>>

(* Mutant of CallbackPanics: only the worker recovers, per batch. *)
PanicEndsBatch ==
    /\ worker.at = "callback"
    /\ worker' = [at |-> "receive"]
    /\ UNCHANGED <<dispatch, callbackCh, lifecycle, contexts, history>>

(* The callback panics: safeCall around each record recovers, and the rest *)
(* of the batch is still delivered.                                        *)
CallbackPanics ==
    /\ worker.at = "callback"
    /\ worker' = AfterRecord
    /\ UNCHANGED <<dispatch, callbackCh, lifecycle, contexts, history>>

(* Mutant of WorkerExit: the worker stops as soon as Close has begun. *)
WorkerExitEarly ==
    /\ worker.at = "receive"
    /\ closeCh
    /\ worker' = [at |-> "exited"]
    /\ UNCHANGED <<dispatch, callbackCh, lifecycle, contexts, history>>

(* range over callbackCh ends when it is closed and empty. *)
WorkerExit ==
    /\ worker.at = "receive"
    /\ callbackCh = <<>>
    /\ chClosed
    /\ worker' = [at |-> "exited"]
    /\ UNCHANGED <<dispatch, callbackCh, lifecycle, contexts, history>>

-----------------------------------------------------------------------------
(* evictionWorker, as far as Close waits for it. *)

EvictorTick ==
    /\ evictor = "select"
    /\ evictor' = "sweeping"
    /\ UNCHANGED <<dispatch, callbackCh, worker, chClosed, closeCh, writer, closer,
                   once, contexts, history>>

EvictorSwept ==
    /\ evictor = "sweeping"
    /\ evictor' = "select"
    /\ UNCHANGED <<dispatch, callbackCh, worker, chClosed, closeCh, writer, closer,
                   once, contexts, history>>

EvictorExit ==
    /\ evictor = "select"
    /\ closeCh
    /\ evictor' = "exited"
    /\ UNCHANGED <<dispatch, callbackCh, worker, chClosed, closeCh, writer, closer,
                   once, contexts, history>>

-----------------------------------------------------------------------------
(* Close. *)

CloseStep(c, from, to) ==
    /\ closer[c] = from
    /\ closer' = [closer EXCEPT ![c] = to]
    /\ UNCHANGED <<dispatch, callbackCh, worker, evictor, parentCtx, history>>

CallClose(c) ==
    /\ CloseStep(c, "idle", "calling")
    /\ UNCHANGED <<chClosed, closeCh, writer, once, baseCtx>>

(* closeOnce: the first caller runs the body, others wait until it is done. *)
EnterOnce(c) ==
    /\ once = "new"
    /\ once' = "running"
    /\ CloseStep(c, "calling", "signal")
    /\ UNCHANGED <<chClosed, closeCh, writer, baseCtx>>

SkipOnce(c) ==
    /\ once = "done"
    /\ CloseStep(c, "calling", "returned")
    /\ UNCHANGED <<chClosed, closeCh, writer, once, baseCtx>>

(* Mutant of Signal: the base context is cancelled first. *)
SignalCancels(c) ==
    /\ closeCh' = TRUE
    /\ baseCtx' = "cancelled"
    /\ CloseStep(c, "signal", "awaitEvictor")
    /\ UNCHANGED <<chClosed, writer, once>>

Signal(c) ==
    /\ closeCh' = TRUE
    /\ CloseStep(c, "signal", "awaitEvictor")
    /\ UNCHANGED <<chClosed, writer, once, baseCtx>>

AwaitEvictor(c) ==
    /\ evictor = "exited"
    /\ CloseStep(c, "awaitEvictor", "lock")
    /\ UNCHANGED <<chClosed, closeCh, writer, once, baseCtx>>

(* callbackMu.Lock announces the writer, which keeps new readers out ... *)
AnnounceWriter(c) ==
    /\ writer' = "waiting"
    /\ CloseStep(c, "lock", "locking")
    /\ UNCHANGED <<chClosed, closeCh, once, baseCtx>>

(* Mutants of CloseChannel: it does not wait for the readers; it forgets to *)
(* close the channel; it forgets to unlock.                                 *)
CloseChannelUnlocked(c) ==
    /\ chClosed' = TRUE
    /\ writer' = "none"
    /\ CloseStep(c, "locking", "awaitWorker")
    /\ UNCHANGED <<closeCh, once, baseCtx>>

CloseChannelNot(c) ==
    /\ Readers = {}
    /\ writer' = "none"
    /\ CloseStep(c, "locking", "awaitWorker")
    /\ UNCHANGED <<chClosed, closeCh, once, baseCtx>>

CloseChannelKeepsLock(c) ==
    /\ Readers = {}
    /\ chClosed' = TRUE
    /\ CloseStep(c, "locking", "awaitWorker")
    /\ UNCHANGED <<writer, closeCh, once, baseCtx>>

(* ... and proceeds when the last reader has left. *)
CloseChannel(c) ==
    /\ Readers = {}
    /\ chClosed' = TRUE
    /\ writer' = "none"
    /\ CloseStep(c, "locking", "awaitWorker")
    /\ UNCHANGED <<closeCh, once, baseCtx>>

(* <-callbackDone, baseCtxCancel, and the return from closeOnce.Do. *)
FinishClose(c) ==
    /\ worker.at = "exited"
    /\ baseCtx' = "cancelled"
    /\ once' = "done"
    /\ CloseStep(c, "awaitWorker", "returned")
    /\ UNCHANGED <<chClosed, closeCh, writer>>

(* The embedding program cancels the parent context. *)
ParentCancel ==
    /\ parentCtx = "live"
    /\ parentCtx' = "cancelled"
    /\ baseCtx' = "cancelled"
    /\ UNCHANGED <<dispatch, callbackCh, worker, lifecycle, history>>

-----------------------------------------------------------------------------
(* Steps of a dispatcher that is in dispatchCallback, of the worker, and of *)
(* a goroutine that is in Close.                                            *)
DispatcherStep(d) ==
    \/ RLock(d)
    \/ CheckRefuses(d)
    \/ CheckPasses(d)
    \/ FastSend(d)
    \/ StartTimer(d)
    \/ SlowSend(d)
    \/ Timeout(d)
    \/ SlowClosed(d)
    \/ RUnlock(d)

WorkerStep ==
    \/ Receive
    \/ CallBack
    \/ CallbackReturns
    \/ CallbackPanics
    \/ WorkerExit

CloserStep(c) ==
    \/ EnterOnce(c)
    \/ SkipOnce(c)
    \/ Signal(c)
    \/ AwaitEvictor(c)
    \/ AnnounceWriter(c)
    \/ CloseChannel(c)
    \/ FinishClose(c)

Next ==
    \/ \E d \in Dispatchers :
         DispatcherStep(d) \/ \E size \in BatchSizes : Call(d, size)
    \/ WorkerStep
    \/ \E c \in Closers : CallClose(c) \/ CloserStep(c)
    \/ EvictorTick \/ EvictorSwept \/ EvictorExit
    \/ ParentCancel

Spec == Init /\ [][Next]_vars

(* The Go scheduler runs every goroutine; the dispatch timer fires; user   *)
(* callbacks return or panic. The select of the eviction worker takes a    *)
(* closed closeCh in the end, because the ticker is not always ready.      *)
FairSpec ==
    /\ Spec
    /\ \A d \in Dispatchers : WF_vars(DispatcherStep(d))
    /\ WF_vars(WorkerStep)
    /\ \A c \in Closers : WF_vars(CloserStep(c))
    /\ WF_vars(EvictorSwept) /\ SF_vars(EvictorExit)

-----------------------------------------------------------------------------
(* Properties. *)

DispatchStates ==
    {Idle}
    \cup [at : {"rlock", "check", "send", "slow"}, job : Jobs]
    \cup [at : {"return"}, job : Jobs, ok : BOOLEAN]

WorkerStates ==
    [at : {"receive", "exited"}]
    \cup [at : {"batch", "callback"}, job : Jobs, next : Nat \ {0}]

CloserStates == {"idle", "calling", "signal", "awaitEvictor", "lock", "locking",
                 "awaitWorker", "returned"}

TypeOK ==
    /\ dispatch \in [Dispatchers -> DispatchStates]
    /\ callbackCh \in Seq(Jobs) /\ Len(callbackCh) <= BufferSize
    /\ chClosed \in BOOLEAN /\ closeCh \in BOOLEAN
    /\ writer \in {"none", "waiting"}
    /\ closer \in [Closers -> CloserStates]
    /\ once \in {"new", "running", "done"}
    /\ evictor \in {"select", "sweeping", "exited"}
    /\ worker \in WorkerStates
    /\ baseCtx \in {"live", "cancelled"} /\ parentCtx \in {"live", "cancelled"}
    /\ jobs \in 0..MaxJobs
    /\ accepted \in Seq(Jobs)
    /\ refused \subseteq 1..MaxJobs
    /\ called \in Seq((1..MaxJobs) \X (Nat \ {0}))

(* A send on a closed channel panics in the handler: once callbackCh is    *)
(* closed no dispatcher is on its way to a send, although several may have *)
(* passed the check of closeCh before Close began.                         *)
NoSendAfterClose ==
    chClosed => \A d \in Dispatchers : dispatch[d].at \notin {"send", "slow"}

(* "It blocks until all pending callbacks have been executed" (Close):     *)
(* when any call of Close has returned, every batch ever accepted has been *)
(* delivered, the last record included, and none can be accepted any more. *)
DrainedOnReturn ==
    (\E c \in Closers : closer[c] = "returned") =>
        /\ callbackCh = <<>>
        /\ \A i \in DOMAIN accepted : \A r \in 1..accepted[i].size :
             \E k \in DOMAIN called : called[k] = <<accepted[i].id, r>>

(* "callbackWorker processes queued callbacks sequentially", and            *)
(* dispatchAttendance recovers from a panic per record: the callbacks made  *)
(* so far are the records of the accepted batches in order. Each follows    *)
(* the record before it in its batch, or the last record of the batch       *)
(* accepted before, and the first is the first record of the first batch.   *)
CalledInOrder ==
    \A k \in DOMAIN called : \E i \in DOMAIN accepted : \E r \in 1..accepted[i].size :
        /\ called[k] = <<accepted[i].id, r>>
        /\ \/ k = 1 /\ i = 1 /\ r = 1
           \/ k > 1 /\ r > 1 /\ called[k - 1] = <<accepted[i].id, r - 1>>
           \/ /\ k > 1 /\ r = 1 /\ i > 1
              /\ called[k - 1] = <<accepted[i - 1].id, accepted[i - 1].size>>

(* A device resends what was answered 503, so a batch that dispatchCallback *)
(* returned false for must never reach the callback, not even later.       *)
RefusedNeverCalled ==
    \A k \in DOMAIN called : called[k][1] \notin refused

(* "in-flight callbacks still have a live context for I/O" (Close): a      *)
(* callback runs with a cancelled context only if the embedding program    *)
(* cancelled the parent, never because of Close.                           *)
ContextLive ==
    (worker.at \in {"batch", "callback"} /\ baseCtx = "cancelled")
        => parentCtx = "cancelled"

(* The delivery log this module implements: accepted batches are delivered *)
(* in order, one at a time, once, all of them before the worker exits.     *)
Current == IF worker.at \in {"batch", "callback"} THEN <<worker.job>> ELSE <<>>

Log == INSTANCE DeliveryLog WITH
    Batches <- Jobs,
    log     <- accepted,
    pos     <- Len(accepted) - Len(callbackCh),
    current <- Current,
    down    <- (worker.at = "exited")

ImplementsLog == Log!Spec

(* Every call of Close returns, whatever the dispatchers, the eviction     *)
(* worker and the other callers of Close are doing.                        *)
CloseReturns ==
    \A c \in Closers : closer[c] = "calling" ~> closer[c] = "returned"

(* Every dispatch returns: behind a full channel, behind a stuck callback, *)
(* behind the writer Close announces, and after Close.                     *)
DispatchReturns ==
    \A d \in Dispatchers : dispatch[d].at # "idle" ~> dispatch[d].at = "idle"

(* What was accepted is delivered, up to its last record and whatever      *)
(* panics, with or without a Close.                                        *)
AcceptedDelivered ==
    \A id \in 1..MaxJobs :
        (\E i \in DOMAIN accepted : accepted[i].id = id)
          ~> (\E i \in DOMAIN accepted, k \in DOMAIN called :
                accepted[i].id = id /\ called[k] = <<id, accepted[i].size>>)
===============================================================================
