------------------------ MODULE CallbackPipelineProofs ------------------------
(***************************************************************************)
(* Theorems about CallbackPipeline, for all goroutines, buffer sizes and   *)
(* bounds.                                                                 *)
(***************************************************************************)
EXTENDS CallbackPipeline, TLAPS

-----------------------------------------------------------------------------
(* Lemmas about the states of a dispatcher. *)

(* What a dispatcher remembers. *)
LEMMA DispatchShape ==
    ASSUME NEW s \in DispatchStates
    PROVE  s.at # "idle" => s.job \in Jobs
  BY DEF DispatchStates, Idle

(* The states the actions put a dispatcher in. *)
LEMMA DispatchBuilt ==
    /\ Idle \in DispatchStates /\ Idle.at = "idle"
    /\ \A at \in {"rlock", "check", "send", "slow"}, job \in Jobs :
         [at |-> at, job |-> job] \in DispatchStates
    /\ \A job \in Jobs, ok \in BOOLEAN :
         [at |-> "return", job |-> job, ok |-> ok] \in DispatchStates
  BY DEF DispatchStates, Idle

(* What a move of one dispatcher leaves of the others. *)
LEMMA Moves ==
    ASSUME dispatch \in [Dispatchers -> DispatchStates],
           NEW d \in Dispatchers, NEW s \in DispatchStates, Move(d, s)
    PROVE  /\ dispatch' \in [Dispatchers -> DispatchStates]
           /\ dispatch'[d] = s
           /\ \A e \in Dispatchers \ {d} : dispatch'[e] = dispatch[e]
  BY DEF Move

(* A batch has an ID and at least one record. *)
LEMMA JobFields ==
    ASSUME NEW job \in Jobs
    PROVE  job.id \in 1..MaxJobs /\ job.size \in Nat \ {0}
  BY PipelineAssumption DEF Jobs, PipelineAssumption

-----------------------------------------------------------------------------
(* Type correctness. *)

(* The worker is within its batch. *)
InBatch ==
    worker.at \in {"batch", "callback"} => worker.next <= worker.job.size

Typed == TypeOK /\ InBatch

(* A dispatcher refuses, or sends. *)
LEMMA RefuseTyped ==
    ASSUME Typed, NEW d \in Dispatchers, dispatch[d].at # "idle", Refuse(d) PROVE Typed'
  <1> USE DEF Typed
  <1>1. dispatch[d].job \in Jobs
    BY DispatchShape DEF TypeOK
  <1>2. dispatch[d].job.id \in 1..MaxJobs
    BY <1>1, JobFields
  <1>3. dispatch' \in [Dispatchers -> DispatchStates]
    BY <1>1, DispatchBuilt, Moves DEF Refuse, TypeOK
  <1> QED BY <1>2, <1>3 DEF Refuse, TypeOK, InBatch, lifecycle, contexts

(* A send fills the channel by one. *)
LEMMA SendTyped ==
    ASSUME Typed, NEW d \in Dispatchers, dispatch[d].at # "idle", Send(d) PROVE Typed'
  <1> USE DEF Typed
  <1>1. dispatch[d].job \in Jobs
    BY DispatchShape DEF TypeOK
  <1>2. dispatch' \in [Dispatchers -> DispatchStates]
    BY <1>1, DispatchBuilt, Moves DEF Send, TypeOK
  <1>3. callbackCh' \in Seq(Jobs) /\ Len(callbackCh') <= BufferSize /\ accepted' \in Seq(Jobs)
    BY <1>1, PipelineAssumption DEF Send, TypeOK, PipelineAssumption
  <1> QED BY <1>2, <1>3 DEF Send, TypeOK, InBatch, lifecycle, contexts

(* A step that changes only where a dispatcher is. *)
LEMMA MoveTyped ==
    ASSUME Typed, dispatch' \in [Dispatchers -> DispatchStates],
           UNCHANGED <<callbackCh, worker, lifecycle, contexts, history>>
    PROVE  Typed'
  BY DEF Typed, TypeOK, InBatch, lifecycle, contexts, history

(* A step of Close that changes flags only. *)
LEMMA CloseTyped ==
    ASSUME Typed, NEW c \in Closers, NEW from, NEW to \in CloserStates,
           CloseStep(c, from, to),
           chClosed' \in BOOLEAN, closeCh' \in BOOLEAN, writer' \in {"none", "waiting"},
           once' \in {"new", "running", "done"}, baseCtx' \in {"live", "cancelled"}
    PROVE  Typed'
  BY DEF Typed, TypeOK, InBatch, CloseStep, history

(* Steps of a dispatcher keep the types. *)
LEMMA DispatcherTyped ==
    ASSUME Typed, NEW d \in Dispatchers,
           DispatcherStep(d) \/ \E size \in BatchSizes : Call(d, size)
    PROVE  Typed'
  <1>0. dispatch \in [Dispatchers -> DispatchStates] /\ jobs \in 0..MaxJobs
    BY DEF Typed, TypeOK
  <1>1. ASSUME NEW size \in BatchSizes, Call(d, size) PROVE Typed'
    <2>1. jobs' \in 0..MaxJobs /\ [id |-> jobs + 1, size |-> size] \in Jobs
      BY <1>0, <1>1, PipelineAssumption DEF Call, Jobs, PipelineAssumption
    <2>2. dispatch' \in [Dispatchers -> DispatchStates]
      BY <1>0, <1>1, <2>1, DispatchBuilt, Moves DEF Call
    <2> QED BY <1>1, <2>1, <2>2 DEF Call, Typed, TypeOK, InBatch, lifecycle, contexts
  <1>2. CASE RLock(d) \/ CheckPasses(d) \/ StartTimer(d)
    <2>1. dispatch[d].job \in Jobs
      BY <1>0, <1>2, DispatchShape DEF RLock, CheckPasses, StartTimer
    <2>2. dispatch' \in [Dispatchers -> DispatchStates]
      BY <1>0, <1>2, <2>1, DispatchBuilt, Moves DEF RLock, CheckPasses, StartTimer
    <2> QED BY <1>2, <2>2, MoveTyped DEF RLock, CheckPasses, StartTimer
  <1>3. CASE CheckRefuses(d) \/ Timeout(d) \/ SlowClosed(d)
    BY <1>3, RefuseTyped DEF CheckRefuses, Timeout, SlowClosed
  <1>4. CASE FastSend(d) \/ SlowSend(d)
    BY <1>4, SendTyped DEF FastSend, SlowSend
  <1>5. CASE RUnlock(d)
    BY <1>0, <1>5, DispatchBuilt, Moves, MoveTyped DEF RUnlock
  <1> QED BY <1>1, <1>2, <1>3, <1>4, <1>5 DEF DispatcherStep

(* Steps of the worker keep the types. *)
LEMMA WorkerTyped ==
    ASSUME Typed, WorkerStep PROVE Typed'
  <1> USE DEF Typed
  <1>0. /\ worker \in WorkerStates /\ callbackCh \in Seq(Jobs)
        /\ Len(callbackCh) <= BufferSize
        /\ called \in Seq((1..MaxJobs) \X (Nat \ {0}))
    BY DEF TypeOK
  <1>1. CASE Receive
    <2>1. Head(callbackCh) \in Jobs /\ Tail(callbackCh) \in Seq(Jobs)
          /\ Len(Tail(callbackCh)) <= BufferSize
      BY <1>0, <1>1, PipelineAssumption DEF Receive, PipelineAssumption
    <2>2. Head(callbackCh).size \in Nat \ {0}
      BY <2>1, JobFields
    <2>3. worker' \in WorkerStates /\ InBatch'
      BY <1>1, <2>1, <2>2, PipelineAssumption
         DEF Receive, WorkerStates, InBatch, PipelineAssumption
    <2> QED BY <1>1, <2>1, <2>3 DEF Receive, TypeOK, lifecycle, contexts, history
  <1>2. CASE CallBack
    <2>1. /\ worker.job \in Jobs /\ worker.next \in Nat \ {0}
          /\ worker' = [at |-> "callback", job |-> worker.job, next |-> worker.next]
      BY <1>0, <1>2 DEF CallBack, WorkerStates
    <2>2. worker' \in WorkerStates /\ InBatch'
      BY <1>2, <2>1 DEF CallBack, WorkerStates, InBatch
    <2>3. worker.job.id \in 1..MaxJobs
      BY <2>1, JobFields
    <2>4. called' \in Seq((1..MaxJobs) \X (Nat \ {0}))
      BY <1>0, <1>2, <2>1, <2>3 DEF CallBack
    <2> QED BY <1>2, <2>2, <2>4 DEF CallBack, TypeOK, lifecycle, contexts
  <1>3. CASE CallbackReturns \/ CallbackPanics
    <2>1. /\ worker.at = "callback" /\ worker.job \in Jobs /\ worker.next \in Nat \ {0}
          /\ worker' = AfterRecord
      BY <1>0, <1>3 DEF CallbackReturns, CallbackPanics, WorkerStates
    <2>2. worker.job.size \in Nat \ {0} /\ worker.next <= worker.job.size
      BY <2>1, JobFields DEF InBatch
    <2>3. CASE worker.next = worker.job.size
      BY <1>3, <2>1, <2>3 DEF CallbackReturns, CallbackPanics, AfterRecord, WorkerStates,
         TypeOK, InBatch, lifecycle, contexts, history
    <2>4. CASE worker.next # worker.job.size
      <3>1. worker.next + 1 \in Nat \ {0} /\ worker.next + 1 <= worker.job.size
        BY <2>1, <2>2, <2>4, PipelineAssumption DEF PipelineAssumption
      <3>2. worker' = [at |-> "batch", job |-> worker.job, next |-> worker.next + 1]
        BY <2>1, <2>4 DEF AfterRecord
      <3>3. worker' \in WorkerStates /\ InBatch'
        BY <2>1, <3>1, <3>2 DEF WorkerStates, InBatch
      <3> QED BY <1>3, <3>3 DEF CallbackReturns, CallbackPanics, TypeOK, lifecycle,
                               contexts, history
    <2> QED BY <2>3, <2>4
  <1>4. CASE WorkerExit
    BY <1>4 DEF WorkerExit, WorkerStates, TypeOK, InBatch, lifecycle, contexts, history
  <1> QED BY <1>1, <1>2, <1>3, <1>4 DEF WorkerStep

(* Steps of Close keep the types. *)
LEMMA CloserTyped ==
    ASSUME Typed, NEW c \in Closers, CallClose(c) \/ CloserStep(c) PROVE Typed'
  <1>0. /\ chClosed \in BOOLEAN /\ closeCh \in BOOLEAN /\ writer \in {"none", "waiting"}
        /\ once \in {"new", "running", "done"} /\ baseCtx \in {"live", "cancelled"}
    BY DEF Typed, TypeOK
  <1>1. CASE CallClose(c) \/ EnterOnce(c) \/ SkipOnce(c) \/ Signal(c)
    BY <1>0, <1>1, CloseTyped DEF CallClose, EnterOnce, SkipOnce, Signal, CloserStates
  <1>2. CASE AwaitEvictor(c) \/ AnnounceWriter(c) \/ CloseChannel(c) \/ FinishClose(c)
    BY <1>0, <1>2, CloseTyped
       DEF AwaitEvictor, AnnounceWriter, CloseChannel, FinishClose, CloserStates
  <1> QED BY <1>1, <1>2 DEF CloserStep

(* Every step keeps the types. *)
LEMMA TypedNext == Typed /\ [Next]_vars => Typed'
  <1> SUFFICES ASSUME Typed, [Next]_vars PROVE Typed'
    OBVIOUS
  <1>1. CASE EvictorTick \/ EvictorSwept \/ EvictorExit \/ ParentCancel
    BY <1>1 DEF EvictorTick, EvictorSwept, EvictorExit, ParentCancel, Typed, TypeOK, InBatch,
       lifecycle, contexts, history
  <1>2. CASE UNCHANGED vars
    BY <1>2 DEF vars, Typed, TypeOK, InBatch
  <1> QED BY <1>1, <1>2, DispatcherTyped, WorkerTyped, CloserTyped DEF Next

(* Types hold, and the worker never steps over the end of a batch. *)
LEMMA TypedHolds == Spec => []Typed
  <1>1. Init => Typed
    <2> SUFFICES ASSUME Init PROVE Typed
      OBVIOUS
    <2>1. dispatch \in [Dispatchers -> DispatchStates]
      BY DispatchBuilt DEF Init
    <2>2. worker \in WorkerStates /\ InBatch
      BY DEF Init, WorkerStates, InBatch
    <2>3. callbackCh \in Seq(Jobs) /\ Len(callbackCh) <= BufferSize /\ jobs \in 0..MaxJobs
      BY PipelineAssumption DEF Init, PipelineAssumption
    <2>4. /\ closer \in [Closers -> CloserStates]
          /\ accepted \in Seq(Jobs) /\ called \in Seq((1..MaxJobs) \X (Nat \ {0}))
      BY DEF Init, CloserStates
    <2> QED BY <2>1, <2>2, <2>3, <2>4 DEF Init, Typed, TypeOK
  <1> QED BY <1>1, TypedNext, PTL DEF Spec

(* The variables keep their types, and callbackCh its capacity.            *)
THEOREM TypeCorrect == Spec => []TypeOK
  BY TypedHolds, PTL DEF Typed

-----------------------------------------------------------------------------
(* The order in which Close takes the pipeline down. *)

Shutdown ==
    /\ \A c \in Closers :
         closer[c] \in {"awaitEvictor", "lock", "locking", "awaitWorker"} => closeCh
    /\ chClosed => closeCh
    /\ NoSendAfterClose
    /\ worker.at = "exited" => chClosed /\ callbackCh = <<>>
    /\ once = "done" => worker.at = "exited"
    /\ \A c \in Closers : closer[c] = "returned" => once = "done"
    /\ baseCtx = "cancelled" => parentCtx = "cancelled" \/ worker.at = "exited"

(* Shutdown is inductive, given the types.                                 *)
LEMMA ShutdownNext == Typed /\ Shutdown /\ [Next]_vars => Shutdown'
  <1> SUFFICES ASSUME Typed, Shutdown, [Next]_vars PROVE Shutdown'
    OBVIOUS
  <1> USE DEF Shutdown, NoSendAfterClose
  <1>0. /\ dispatch \in [Dispatchers -> DispatchStates]
        /\ closer \in [Closers -> CloserStates]
    BY DEF Typed, TypeOK
  <1>1. ASSUME NEW d \in Dispatchers, FastSend(d) \/ SlowSend(d) PROVE Shutdown'
    <2>1. dispatch[d].at \in {"send", "slow"} /\ Send(d)
      BY <1>1 DEF FastSend, SlowSend
    <2>2. ~chClosed
      BY <2>1
    <2> QED BY <2>1, <2>2 DEF Send, lifecycle, contexts
  <1>2. ASSUME NEW d \in Dispatchers, CheckPasses(d) PROVE Shutdown'
    <2>1. ~chClosed
      BY <1>2 DEF CheckPasses
    <2> QED BY <1>2, <2>1 DEF CheckPasses, lifecycle, contexts
  <1>3. ASSUME NEW d \in Dispatchers, StartTimer(d) PROVE Shutdown'
    <2>1. ~chClosed
      BY <1>3 DEF StartTimer
    <2> QED BY <1>3, <2>1 DEF StartTimer, lifecycle, contexts
  <1>4. ASSUME NEW d \in Dispatchers,
               RLock(d) \/ RUnlock(d) \/ \E size \in BatchSizes : Call(d, size)
        PROVE  Shutdown'
    <2>1. /\ \A e \in Dispatchers :
               dispatch'[e] = dispatch[e] \/ dispatch'[e].at \in {"idle", "rlock", "check"}
          /\ UNCHANGED <<callbackCh, worker, lifecycle, contexts>>
      BY <1>0, <1>4 DEF RLock, RUnlock, Call, Move, Idle, history
    <2> QED BY <2>1 DEF lifecycle, contexts
  <1>5. ASSUME NEW d \in Dispatchers, CheckRefuses(d) \/ Timeout(d) \/ SlowClosed(d)
        PROVE  Shutdown'
    <2>1. /\ \A e \in Dispatchers :
               dispatch'[e] = dispatch[e] \/ dispatch'[e].at = "return"
          /\ UNCHANGED <<callbackCh, worker, lifecycle, contexts>>
      BY <1>0, <1>5 DEF CheckRefuses, Timeout, SlowClosed, Refuse, Move
    <2> QED BY <2>1 DEF lifecycle, contexts
  <1>6. CASE WorkerStep
    <2>1. CASE Receive
      BY <2>1 DEF Receive, lifecycle, contexts
    <2>2. CASE CallBack
      BY <2>2 DEF CallBack, lifecycle, contexts, Typed, TypeOK, WorkerStates
    <2>3. CASE CallbackReturns \/ CallbackPanics
      BY <2>3 DEF CallbackReturns, CallbackPanics, AfterRecord, lifecycle, contexts
    <2>4. CASE WorkerExit
      BY <2>4 DEF WorkerExit, lifecycle, contexts
    <2> QED BY <1>6, <2>1, <2>2, <2>3, <2>4 DEF WorkerStep
  <1>7. ASSUME NEW c \in Closers, CallClose(c) \/ EnterOnce(c) \/ SkipOnce(c) PROVE Shutdown'
    BY <1>0, <1>7 DEF CallClose, EnterOnce, SkipOnce, CloseStep
  <1>8. ASSUME NEW c \in Closers, Signal(c) \/ AwaitEvictor(c) \/ AnnounceWriter(c)
        PROVE  Shutdown'
    BY <1>0, <1>8 DEF Signal, AwaitEvictor, AnnounceWriter, CloseStep
  <1>9. ASSUME NEW c \in Closers, CloseChannel(c) PROVE Shutdown'
    BY <1>0, <1>9 DEF CloseChannel, CloseStep, Readers
  <1>10. ASSUME NEW c \in Closers, FinishClose(c) PROVE Shutdown'
    BY <1>0, <1>10 DEF FinishClose, CloseStep
  <1>11. CASE EvictorTick \/ EvictorSwept \/ EvictorExit \/ ParentCancel
    BY <1>11 DEF EvictorTick, EvictorSwept, EvictorExit, ParentCancel, lifecycle, contexts
  <1>12. CASE UNCHANGED vars
    BY <1>12 DEF vars
  <1> QED
    BY <1>1, <1>2, <1>3, <1>4, <1>5, <1>6, <1>7, <1>8, <1>9, <1>10, <1>11, <1>12
       DEF Next, DispatcherStep, CloserStep

(* Shutdown holds in every behaviour.                                      *)
LEMMA ShutdownHolds == Spec => []Shutdown
  <1>1. Init => Shutdown
    BY DEF Init, Shutdown, NoSendAfterClose, Idle
  <1> QED BY <1>1, ShutdownNext, TypedHolds, PTL DEF Spec

(* No handler ever sends on the closed callbackCh: Close closes it under   *)
(* the write lock, after closeCh, which every dispatcher checks under the  *)
(* read lock it still holds when it sends.                                 *)
THEOREM NoSendAfterCloseHolds == Spec => []NoSendAfterClose
  BY ShutdownHolds, PTL DEF Shutdown

(* Close never takes the context away from a callback that still runs.     *)
THEOREM ContextLiveHolds == Spec => []ContextLive
  <1>1. Shutdown => ContextLive
    BY DEF Shutdown, ContextLive
  <1> QED BY <1>1, ShutdownHolds, PTL

-----------------------------------------------------------------------------
(* The channel is the rest of the log. *)

Pos == Len(accepted) - Len(callbackCh)

RestOfLog ==
    /\ Pos \in Nat
    /\ \A i \in 1..Len(callbackCh) : callbackCh[i] = accepted[Pos + i]

(* RestOfLog is inductive: only Send and Receive touch the channel.        *)
LEMMA RestOfLogNext == Typed /\ RestOfLog /\ [Next]_vars => RestOfLog'
  <1> SUFFICES ASSUME Typed, RestOfLog, [Next]_vars PROVE RestOfLog'
    OBVIOUS
  <1>0. /\ callbackCh \in Seq(Jobs) /\ accepted \in Seq(Jobs)
        /\ dispatch \in [Dispatchers -> DispatchStates]
    BY DEF Typed, TypeOK
  <1>1. ASSUME NEW d \in Dispatchers, FastSend(d) \/ SlowSend(d) PROVE RestOfLog'
    <2>1. PICK job \in Jobs : callbackCh' = Append(callbackCh, job)
                              /\ accepted' = Append(accepted, job)
      BY <1>0, <1>1, DispatchShape DEF FastSend, SlowSend, Send
    <2>2. /\ Len(callbackCh') = Len(callbackCh) + 1
          /\ Len(accepted') = Len(accepted) + 1
          /\ Len(accepted) \in Nat /\ Len(callbackCh) \in Nat
      BY <1>0, <2>1
    <2>3. Pos' = Pos /\ Pos \in Nat /\ Pos + Len(callbackCh) = Len(accepted)
      BY <2>2 DEF Pos, RestOfLog
    <2>4. ASSUME NEW i \in 1..Len(callbackCh') PROVE callbackCh'[i] = accepted'[Pos + i]
      <3>1. CASE i \in 1..Len(callbackCh)
        <4>1. Pos + i \in 1..Len(accepted)
          BY <2>2, <2>3, <3>1
        <4> QED BY <1>0, <2>1, <3>1, <4>1 DEF RestOfLog
      <3>2. CASE i = Len(callbackCh) + 1
        <4>1. Pos + i = Len(accepted) + 1
          BY <2>2, <2>3, <3>2
        <4> QED BY <1>0, <2>1, <3>2, <4>1
      <3> QED BY <2>2, <3>1, <3>2
    <2> QED BY <2>3, <2>4 DEF RestOfLog
  <1>2. CASE Receive
    <2>1. callbackCh # <<>> /\ callbackCh' = Tail(callbackCh) /\ accepted' = accepted
      BY <1>2 DEF Receive, history
    <2>2. /\ Len(callbackCh') = Len(callbackCh) - 1
          /\ \A i \in 1..Len(callbackCh') : callbackCh'[i] = callbackCh[i + 1]
      BY <1>0, <2>1
    <2>3. Pos' = Pos + 1
      BY <1>0, <2>1, <2>2 DEF Pos
    <2>4. ASSUME NEW i \in 1..Len(callbackCh') PROVE callbackCh'[i] = accepted'[Pos' + i]
      <3>1. i + 1 \in 1..Len(callbackCh)
        BY <1>0, <2>2
      <3>2. callbackCh[i + 1] = accepted[Pos + (i + 1)]
        BY <3>1 DEF RestOfLog
      <3>3. Pos + (i + 1) = Pos' + i
        BY <2>3 DEF RestOfLog
      <3> QED BY <2>1, <2>2, <3>2, <3>3
    <2> QED BY <2>3, <2>4 DEF RestOfLog
  <1>3. CASE UNCHANGED <<callbackCh, accepted>>
    BY <1>3 DEF RestOfLog, Pos
  <1> QED
    BY <1>1, <1>2, <1>3 DEF Next, DispatcherStep, Call, RLock, CheckRefuses, CheckPasses,
       StartTimer, Timeout, SlowClosed, Refuse, RUnlock, WorkerStep, CallBack, CallbackReturns,
       CallbackPanics, WorkerExit, CallClose, CloserStep, EnterOnce, SkipOnce, Signal,
       AwaitEvictor, AnnounceWriter, CloseChannel, FinishClose, CloseStep, EvictorTick,
       EvictorSwept, EvictorExit, ParentCancel, history, vars

Delivering == Typed /\ Shutdown /\ RestOfLog

(* Delivering holds in every behaviour.                                    *)
LEMMA DeliveringHolds == Spec => []Delivering
  <1>1. Init => RestOfLog
    BY DEF Init, RestOfLog, Pos
  <1> QED BY <1>1, RestOfLogNext, TypedHolds, ShutdownHolds, PTL DEF Spec, Delivering

-----------------------------------------------------------------------------
(* The pipeline is a delivery log. *)

(* The actions that touch neither the channel, nor the log, nor the worker. *)
LEMMA LogSteps ==
    ASSUME [Next]_vars
    PROVE  \/ \E d \in Dispatchers : FastSend(d) \/ SlowSend(d)
           \/ WorkerStep
           \/ UNCHANGED <<accepted, callbackCh, worker, called>>
  BY DEF Next, DispatcherStep, Call, RLock, CheckRefuses, CheckPasses,
     StartTimer, Timeout, SlowClosed, Refuse, RUnlock, CallClose, CloserStep,
     EnterOnce, SkipOnce, Signal, AwaitEvictor, AnnounceWriter, CloseChannel, FinishClose,
     CloseStep, EvictorTick, EvictorSwept, EvictorExit, ParentCancel, history, vars

(* A dispatcher sends to an open pipeline.                                 *)
LEMMA SendAccepts ==
    ASSUME Delivering, NEW d \in Dispatchers, FastSend(d) \/ SlowSend(d)
    PROVE  \E job \in Jobs :
             /\ callbackCh' = Append(callbackCh, job)
             /\ accepted' = Append(accepted, job)
             /\ job = dispatch[d].job
             /\ worker.at # "exited"
             /\ UNCHANGED <<worker, called>>
             /\ Pos' = Pos
  <1>0. /\ callbackCh \in Seq(Jobs) /\ accepted \in Seq(Jobs)
        /\ dispatch \in [Dispatchers -> DispatchStates]
    BY DEF Delivering, Typed, TypeOK
  <1>1. dispatch[d].at \in {"send", "slow"} /\ Send(d)
    BY DEF FastSend, SlowSend
  <1>2. dispatch[d].job \in Jobs
    BY <1>0, <1>1, DispatchShape
  <1>3. worker.at # "exited"
    BY <1>1 DEF Delivering, Shutdown, NoSendAfterClose
  <1>4. /\ callbackCh' = Append(callbackCh, dispatch[d].job)
        /\ accepted' = Append(accepted, dispatch[d].job)
        /\ UNCHANGED <<worker, called>>
    BY <1>1 DEF Send
  <1>5. Pos' = Pos
    BY <1>0, <1>2, <1>4 DEF Pos
  <1> QED BY <1>2, <1>3, <1>4, <1>5

(* The worker takes the next batch of the log.                             *)
LEMMA ReceiveStarts ==
    ASSUME Delivering, Receive
    PROVE  /\ Pos \in Nat /\ Pos < Len(accepted) /\ Pos' = Pos + 1
           /\ worker.at = "receive"
           /\ worker' = [at |-> "batch", job |-> accepted[Pos + 1], next |-> 1]
           /\ UNCHANGED <<accepted, called>>
  <1>0. callbackCh \in Seq(Jobs) /\ accepted \in Seq(Jobs) /\ Pos \in Nat
    BY DEF Delivering, Typed, TypeOK, RestOfLog
  <1>1. /\ callbackCh # <<>> /\ callbackCh' = Tail(callbackCh)
        /\ worker' = [at |-> "batch", job |-> Head(callbackCh), next |-> 1]
        /\ UNCHANGED <<accepted, called>> /\ worker.at = "receive"
    BY DEF Receive, history
  <1>2. 1 \in 1..Len(callbackCh) /\ Head(callbackCh) = callbackCh[1]
        /\ Len(callbackCh') = Len(callbackCh) - 1
    BY <1>0, <1>1
  <1>3. Head(callbackCh) = accepted[Pos + 1]
    BY <1>2 DEF Delivering, RestOfLog
  <1>4. Pos < Len(accepted) /\ Pos' = Pos + 1
    BY <1>0, <1>1, <1>2 DEF Pos
  <1> QED BY <1>0, <1>1, <1>3, <1>4

(* Every step is a step of the delivery log or leaves it alone.            *)
LEMMA LogNext == Delivering /\ [Next]_vars => [Log!Next]_(Log!vars)
  <1> SUFFICES ASSUME Delivering, [Next]_vars PROVE [Log!Next]_(Log!vars)
    OBVIOUS
  <1>0. worker \in WorkerStates
    BY DEF Delivering, Typed, TypeOK
  <1>1. CASE \E d \in Dispatchers : FastSend(d) \/ SlowSend(d)
    <2>1. PICK job \in Jobs :
            /\ accepted' = Append(accepted, job)
            /\ worker.at # "exited"
            /\ UNCHANGED worker
            /\ Pos' = Pos
      BY <1>1, SendAccepts
    <2>2. Log!Accept(job)
      BY <2>1 DEF Log!Accept, Pos, Current
    <2> QED BY <2>2 DEF Log!Next
  <1>2. CASE Receive
    <2>1. Log!Start
      BY <1>2, ReceiveStarts DEF Log!Start, Pos, Current
    <2> QED BY <2>1 DEF Log!Next
  <1>3. CASE CallBack
    <2>1. /\ UNCHANGED <<accepted, callbackCh>>
          /\ worker.at = "batch" /\ worker'.at = "callback" /\ worker'.job = worker.job
      BY <1>0, <1>3 DEF CallBack, WorkerStates
    <2> QED BY <2>1 DEF Log!vars, Current
  <1>4. CASE CallbackReturns \/ CallbackPanics
    <2>1. /\ UNCHANGED <<accepted, callbackCh>>
          /\ worker.at = "callback" /\ worker' = AfterRecord
      BY <1>4 DEF CallbackReturns, CallbackPanics, history
    <2>2. CASE worker.next = worker.job.size
      <3>1. Log!Finish
        BY <2>1, <2>2 DEF Log!Finish, AfterRecord, Current
      <3> QED BY <3>1 DEF Log!Next
    <2>3. CASE worker.next # worker.job.size
      BY <2>1, <2>3 DEF Log!vars, AfterRecord, Current
    <2> QED BY <2>2, <2>3
  <1>5. CASE WorkerExit
    <2>1. /\ UNCHANGED <<accepted, callbackCh>> /\ callbackCh = <<>>
          /\ worker.at = "receive" /\ worker'.at = "exited"
      BY <1>5 DEF WorkerExit, history
    <2>2. accepted \in Seq(Jobs)
      BY DEF Delivering, Typed, TypeOK
    <2>3. Len(accepted) - Len(callbackCh) = Len(accepted)
      BY <2>1, <2>2
    <2>4. Log!ShutDown
      BY <2>1, <2>3 DEF Log!ShutDown, Current
    <2> QED BY <2>4 DEF Log!Next
  <1>6. CASE UNCHANGED <<accepted, callbackCh, worker, called>>
    BY <1>6 DEF Log!vars, Current
  <1> QED BY <1>1, <1>2, <1>3, <1>4, <1>5, <1>6, LogSteps DEF WorkerStep

(* Whatever dispatchers, the worker and callers of Close do, what callbackCh *)
(* and the worker make of the accepted batches is a log delivered in order. *)
THEOREM LogRefinement == Spec => ImplementsLog
  <1>1. Init => Log!Init
    BY DEF Init, Log!Init, Current
  <1> QED BY <1>1, LogNext, DeliveringHolds, PTL DEF Spec, ImplementsLog, Log!Spec

-----------------------------------------------------------------------------
(* Refused batches. *)

InFlight(d) == dispatch[d].at \in {"rlock", "check", "send", "slow"}

(* A batch that is being dispatched was neither accepted nor refused, no two *)
(* dispatchers have the same one, and only accepted batches are called.      *)
OneFate ==
    /\ \A id \in refused : id <= jobs
    /\ \A i \in 1..Len(accepted) : accepted[i].id <= jobs /\ accepted[i].id \notin refused
    /\ \A d \in Dispatchers : InFlight(d) =>
         /\ dispatch[d].job.id <= jobs /\ dispatch[d].job.id \notin refused
         /\ \A i \in 1..Len(accepted) : accepted[i].id # dispatch[d].job.id
         /\ \A e \in Dispatchers \ {d} :
              InFlight(e) => dispatch[e].job.id # dispatch[d].job.id
    /\ worker.at \in {"batch", "callback"} =>
         \E i \in 1..Len(accepted) : accepted[i] = worker.job
    /\ \A k \in DOMAIN called : \E i \in 1..Len(accepted) : accepted[i].id = called[k][1]

(* OneFate is inductive.                                                   *)
LEMMA OneFateNext == Delivering /\ OneFate /\ [Next]_vars => OneFate'
  <1> SUFFICES ASSUME Delivering, OneFate, [Next]_vars PROVE OneFate'
    OBVIOUS
  <1>0. /\ accepted \in Seq(Jobs) /\ jobs \in Nat /\ refused \subseteq Nat
        /\ dispatch \in [Dispatchers -> DispatchStates]
        /\ called \in Seq((1..MaxJobs) \X (Nat \ {0}))
        /\ worker \in WorkerStates
    BY PipelineAssumption DEF Delivering, Typed, TypeOK, PipelineAssumption
  <1>1. ASSUME NEW d \in Dispatchers, NEW size \in BatchSizes, Call(d, size)
        PROVE  OneFate'
    <2>1. /\ jobs' = jobs + 1 /\ UNCHANGED <<accepted, refused, called, worker>>
          /\ dispatch'[d].job.id = jobs + 1
          /\ \A e \in Dispatchers \ {d} : dispatch'[e] = dispatch[e]
      BY <1>0, <1>1 DEF Call, Move
    <2>2. ASSUME NEW i \in 1..Len(accepted) PROVE accepted[i].id \in Nat
      <3>1. accepted[i] \in Jobs
        BY <1>0
      <3> QED BY <3>1, JobFields
    <2>3. \A e \in Dispatchers : InFlight(e) => dispatch[e].job.id \in Nat
      BY <1>0, DispatchShape DEF InFlight, Jobs
    <2>4. /\ \A id \in refused : id <= jobs + 1 /\ id # jobs + 1
          /\ \A i \in 1..Len(accepted) : /\ accepted[i].id <= jobs + 1
                                         /\ accepted[i].id # jobs + 1
          /\ \A e \in Dispatchers : InFlight(e) =>
               dispatch[e].job.id <= jobs + 1 /\ dispatch[e].job.id # jobs + 1
      <3>1. \A n \in Nat : n <= jobs => n <= jobs + 1 /\ n # jobs + 1
        BY <1>0
      <3>2. \A id \in refused : id \in Nat /\ id <= jobs
        BY <1>0 DEF OneFate
      <3>3. \A i \in 1..Len(accepted) : accepted[i].id <= jobs
        BY DEF OneFate
      <3>4. \A e \in Dispatchers : InFlight(e) => dispatch[e].job.id <= jobs
        BY DEF OneFate
      <3> QED BY <2>2, <2>3, <3>1, <3>2, <3>3, <3>4
    <2>5. ASSUME NEW e \in Dispatchers, InFlight(e)'
          PROVE  /\ dispatch'[e].job.id <= jobs' /\ dispatch'[e].job.id \notin refused'
                 /\ \A i \in 1..Len(accepted') : accepted'[i].id # dispatch'[e].job.id
                 /\ \A f \in Dispatchers \ {e} :
                      InFlight(f)' => dispatch'[f].job.id # dispatch'[e].job.id
      <3>1. CASE e = d
        BY <1>0, <2>1, <2>4, <3>1 DEF InFlight
      <3>2. CASE e # d
        <4>1. InFlight(e) /\ dispatch'[e] = dispatch[e]
          BY <2>1, <2>5, <3>2 DEF InFlight
        <4> QED BY <2>1, <2>4, <3>2, <4>1 DEF OneFate, InFlight
      <3> QED BY <3>1, <3>2
    <2>6. /\ \A id \in refused' : id <= jobs'
          /\ \A i \in 1..Len(accepted') :
               accepted'[i].id <= jobs' /\ accepted'[i].id \notin refused'
      BY <2>1, <2>4 DEF OneFate
    <2> QED BY <2>1, <2>5, <2>6 DEF OneFate
  <1>2. ASSUME NEW d \in Dispatchers, CheckRefuses(d) \/ Timeout(d) \/ SlowClosed(d)
        PROVE  OneFate'
    <2>1. /\ InFlight(d) /\ dispatch'[d].at = "return"
          /\ refused' = refused \cup {dispatch[d].job.id}
          /\ UNCHANGED <<accepted, called, worker, jobs>>
          /\ \A e \in Dispatchers \ {d} : dispatch'[e] = dispatch[e]
      BY <1>0, <1>2 DEF CheckRefuses, Timeout, SlowClosed, Refuse, Move, InFlight
    <2> QED BY <2>1 DEF OneFate, InFlight
  <1>3. ASSUME NEW d \in Dispatchers, FastSend(d) \/ SlowSend(d) PROVE OneFate'
    <2>1. PICK job \in Jobs : job = dispatch[d].job /\ accepted' = Append(accepted, job)
      BY <1>3, SendAccepts
    <2>2. /\ InFlight(d) /\ dispatch'[d].at = "return"
          /\ UNCHANGED <<refused, called, worker, jobs>>
          /\ \A e \in Dispatchers \ {d} : dispatch'[e] = dispatch[e]
      BY <1>0, <1>3 DEF FastSend, SlowSend, Send, Move, InFlight
    <2>3. /\ Len(accepted') = Len(accepted) + 1 /\ Len(accepted) \in Nat
          /\ \A i \in 1..Len(accepted) : accepted'[i] = accepted[i]
          /\ accepted'[Len(accepted) + 1] = job
      BY <1>0, <2>1
    <2>4. \A i \in 1..Len(accepted') : i \in 1..Len(accepted) \/ accepted'[i] = job
      BY <2>3
    <2>5. 1..Len(accepted) \subseteq 1..Len(accepted')
      BY <2>3
    <2>6. job = dispatch[d].job
      BY <2>1
    <2> QED BY <2>2, <2>3, <2>4, <2>5, <2>6 DEF OneFate, InFlight
  <1>4. ASSUME NEW d \in Dispatchers,
               RLock(d) \/ CheckPasses(d) \/ StartTimer(d) \/ RUnlock(d)
        PROVE  OneFate'
    <2>1. /\ UNCHANGED <<accepted, refused, called, worker, jobs>>
          /\ \A e \in Dispatchers \ {d} : dispatch'[e] = dispatch[e]
          /\ \/ dispatch'[d].at = "idle"
             \/ InFlight(d) /\ dispatch'[d].job = dispatch[d].job
      BY <1>0, <1>4 DEF RLock, CheckPasses, StartTimer, RUnlock, Move, Idle, InFlight, history
    <2> QED BY <2>1 DEF OneFate, InFlight
  <1>5. CASE Receive
    <2>1. /\ UNCHANGED <<accepted, refused, called, jobs, dispatch>>
          /\ Pos + 1 \in 1..Len(accepted) /\ worker'.job = accepted[Pos + 1]
      BY <1>0, <1>5, ReceiveStarts DEF Receive, history
    <2> QED BY <2>1 DEF OneFate, InFlight
  <1>6. CASE CallBack
    <2>1. /\ UNCHANGED <<accepted, refused, jobs, dispatch>>
          /\ called' = Append(called, <<worker.job.id, worker.next>>)
          /\ worker.at = "batch" /\ worker'.job = worker.job
      BY <1>0, <1>6 DEF CallBack, WorkerStates
    <2>2. <<worker.job.id, worker.next>> \in (1..MaxJobs) \X (Nat \ {0})
      BY <1>0, <2>1, JobFields DEF WorkerStates
    <2>3. /\ DOMAIN called' = 1..(Len(called) + 1) /\ DOMAIN called = 1..Len(called)
          /\ \A k \in 1..Len(called) : called'[k] = called[k]
          /\ called'[Len(called) + 1][1] = worker.job.id
      BY <1>0, <2>1, <2>2
    <2>4. \A k \in DOMAIN called' : k \in DOMAIN called \/ called'[k][1] = worker.job.id
      BY <1>0, <2>3
    <2> QED BY <2>1, <2>3, <2>4 DEF OneFate, InFlight
  <1>7. CASE CallbackReturns \/ CallbackPanics
    <2>1. /\ UNCHANGED <<accepted, refused, jobs, called, dispatch>>
          /\ worker.at = "callback" /\ (worker'.at = "receive" \/ worker'.job = worker.job)
      BY <1>7 DEF CallbackReturns, CallbackPanics, AfterRecord, history
    <2> QED BY <2>1 DEF OneFate, InFlight
  <1>8. CASE WorkerExit
    BY <1>8 DEF WorkerExit, OneFate, InFlight, history
  <1>9. CASE UNCHANGED <<dispatch, worker, history>>
    BY <1>9 DEF OneFate, InFlight, history
  <1> QED
    BY <1>1, <1>2, <1>3, <1>4, <1>5, <1>6, <1>7, <1>8, <1>9 DEF Next, DispatcherStep,
       WorkerStep, CallClose, CloserStep, EnterOnce, SkipOnce, Signal, AwaitEvictor,
       AnnounceWriter, CloseChannel, FinishClose, CloseStep, EvictorTick, EvictorSwept,
       EvictorExit, ParentCancel, history, vars

(* A batch answered 503 never reaches the callback: a dispatcher that gives *)
(* up leaves nothing behind that could still be sent.                       *)
THEOREM RefusedNeverCalledHolds == Spec => []RefusedNeverCalled
  <1>1. Init => OneFate
    BY DEF Init, OneFate, InFlight, Idle
  <1>2. OneFate => RefusedNeverCalled
    BY DEF OneFate, RefusedNeverCalled
  <1> QED BY <1>1, <1>2, OneFateNext, DeliveringHolds, PTL DEF Spec

-----------------------------------------------------------------------------
(* Complete delivery. *)

(* The callback was called with record r of the i-th accepted batch.        *)
Done(i, r) == \E k \in DOMAIN called : called[k] = <<accepted[i].id, r>>

(* The batches taken from the channel are delivered, except for what the    *)
(* worker still has to do of the last one.                                  *)
Delivered ==
    /\ worker.at \in {"batch", "callback"} => Pos > 0 /\ worker.job = accepted[Pos]
    /\ \A i \in 1..Pos : \A r \in 1..accepted[i].size :
         \/ Done(i, r)
         \/ i = Pos /\ worker.at = "batch" /\ r >= worker.next
         \/ i = Pos /\ worker.at = "callback" /\ r > worker.next

(* Delivered is inductive.                                                 *)
LEMMA DeliveredNext == Delivering /\ Delivered /\ [Next]_vars => Delivered'
  <1> SUFFICES ASSUME Delivering, Delivered, [Next]_vars PROVE Delivered'
    OBVIOUS
  <1>0. /\ accepted \in Seq(Jobs) /\ worker \in WorkerStates /\ InBatch
        /\ Pos \in Nat /\ Pos <= Len(accepted)
        /\ called \in Seq((1..MaxJobs) \X (Nat \ {0}))
    <2>1. callbackCh \in Seq(Jobs) /\ accepted \in Seq(Jobs) /\ Pos \in Nat
      BY DEF Delivering, Typed, TypeOK, RestOfLog
    <2>2. Pos <= Len(accepted)
      BY <2>1 DEF Pos
    <2>3. worker \in WorkerStates /\ InBatch /\ called \in Seq((1..MaxJobs) \X (Nat \ {0}))
      BY DEF Delivering, Typed, TypeOK
    <2> QED BY <2>1, <2>2, <2>3
  <1>1. ASSUME NEW d \in Dispatchers, FastSend(d) \/ SlowSend(d) PROVE Delivered'
    <2>1. PICK job \in Jobs : /\ accepted' = Append(accepted, job)
                              /\ UNCHANGED <<worker, called>> /\ Pos' = Pos
      BY <1>1, SendAccepts
    <2>2. \A i \in 1..Pos : accepted'[i] = accepted[i]
      BY <1>0, <2>1
    <2>3. ASSUME worker.at \in {"batch", "callback"}
          PROVE  Pos > 0 /\ worker.job = accepted'[Pos]
      <3>1. Pos > 0 /\ worker.job = accepted[Pos]
        BY <2>3 DEF Delivered
      <3>2. Pos \in 1..Pos
        BY <1>0, <3>1
      <3> QED BY <2>2, <3>1, <3>2
    <2>4. ASSUME NEW i \in 1..Pos, NEW r \in 1..accepted'[i].size
          PROVE  \/ \E k \in DOMAIN called : called[k] = <<accepted'[i].id, r>>
                 \/ i = Pos /\ worker.at = "batch" /\ r >= worker.next
                 \/ i = Pos /\ worker.at = "callback" /\ r > worker.next
      BY <2>2 DEF Delivered, Done
    <2> QED BY <2>1, <2>3, <2>4 DEF Delivered, Done
  <1>2. CASE Receive
    <2>1. /\ Pos' = Pos + 1 /\ worker.at = "receive"
          /\ worker' = [at |-> "batch", job |-> accepted[Pos + 1], next |-> 1]
          /\ UNCHANGED <<accepted, called>>
      BY <1>2, ReceiveStarts
    <2>2. \A i \in 1..Pos' : i \in 1..Pos \/ i = Pos'
      BY <1>0, <2>1
    <2>3. Pos' > 0 /\ worker'.at = "batch" /\ worker'.job = accepted'[Pos'] /\ worker'.next = 1
      BY <1>0, <2>1
    <2>4. ASSUME NEW i \in 1..Pos', NEW r \in 1..accepted'[i].size
          PROVE  \/ \E k \in DOMAIN called' : called'[k] = <<accepted'[i].id, r>>
                 \/ i = Pos' /\ r >= worker'.next
      <3>1. CASE i \in 1..Pos
        BY <2>1, <3>1 DEF Delivered, Done
      <3>2. CASE i = Pos'
        BY <2>3, <3>2
      <3> QED BY <2>2, <3>1, <3>2
    <2> QED BY <2>3, <2>4 DEF Delivered, Done
  <1>3. CASE CallBack
    <2>1. /\ UNCHANGED <<accepted, callbackCh>> /\ worker.at = "batch"
          /\ worker.job \in Jobs /\ worker.next \in Nat \ {0}
          /\ worker' = [at |-> "callback", job |-> worker.job, next |-> worker.next]
          /\ called' = Append(called, <<worker.job.id, worker.next>>)
      BY <1>0, <1>3 DEF CallBack, WorkerStates
    <2>2. <<worker.job.id, worker.next>> \in (1..MaxJobs) \X (Nat \ {0})
      BY <2>1, JobFields
    <2>3. /\ \A k \in DOMAIN called : k \in DOMAIN called' /\ called'[k] = called[k]
          /\ \E k \in DOMAIN called' : called'[k] = <<worker.job.id, worker.next>>
      <3>1. /\ DOMAIN called = 1..Len(called) /\ Len(called) \in Nat
            /\ DOMAIN called' = 1..(Len(called) + 1)
            /\ \A k \in 1..Len(called) : called'[k] = called[k]
            /\ called'[Len(called) + 1] = <<worker.job.id, worker.next>>
        BY <1>0, <2>1, <2>2
      <3>2. Len(called) + 1 \in DOMAIN called'
        BY <3>1
      <3> QED BY <3>1, <3>2
    <2>4. Pos' = Pos /\ Pos > 0 /\ worker.job = accepted[Pos]
      BY <2>1 DEF Pos, Delivered
    <2>5. ASSUME NEW i \in 1..Pos, NEW r \in 1..accepted[i].size
          PROVE  Done(i, r)' \/ (i = Pos /\ r > worker.next)
      <3>1. CASE Done(i, r)
        BY <2>1, <2>3, <3>1 DEF Done
      <3>2. CASE i = Pos /\ r >= worker.next
        <4>1. CASE r = worker.next
          BY <2>1, <2>3, <2>4, <3>2, <4>1 DEF Done
        <4>2. CASE r # worker.next
          BY <2>1, <3>2, <4>2
        <4> QED BY <4>1, <4>2
      <3> QED BY <2>1, <3>1, <3>2 DEF Delivered
    <2> QED BY <2>1, <2>4, <2>5 DEF Delivered
  <1>4. CASE CallbackReturns \/ CallbackPanics
    <2>1. /\ UNCHANGED <<accepted, called, callbackCh>>
          /\ worker.at = "callback" /\ worker' = AfterRecord
          /\ worker.next \in Nat \ {0} /\ worker.next <= worker.job.size
          /\ worker.job \in Jobs
      BY <1>0, <1>4 DEF CallbackReturns, CallbackPanics, WorkerStates, InBatch, history
    <2>2. /\ Pos' = Pos /\ Pos > 0 /\ worker.job = accepted[Pos]
          /\ worker.job.size \in Nat \ {0}
      BY <2>1, JobFields DEF Pos, Delivered
    <2>3. \A i \in 1..Pos : \A r \in 1..accepted[i].size :
            Done(i, r) \/ (i = Pos /\ r > worker.next)
      BY <2>1 DEF Delivered
    <2>4. CASE worker.next = worker.job.size
      <3>1. worker' = [at |-> "receive"]
        BY <2>1, <2>4 DEF AfterRecord
      <3>2. \A i \in 1..Pos : \A r \in 1..accepted[i].size : Done(i, r)
        BY <2>2, <2>3, <2>4
      <3> QED BY <2>1, <2>2, <3>1, <3>2 DEF Delivered, Done
    <2>5. CASE worker.next # worker.job.size
      <3>1. worker' = [at |-> "batch", job |-> worker.job, next |-> worker.next + 1]
        BY <2>1, <2>5 DEF AfterRecord
      <3>2. \A i \in 1..Pos : \A r \in 1..accepted[i].size :
              Done(i, r) \/ (i = Pos /\ r >= worker.next + 1)
        BY <2>1, <2>3
      <3> QED BY <2>1, <2>2, <3>1, <3>2 DEF Delivered, Done
    <2> QED BY <2>4, <2>5
  <1>5. CASE WorkerExit
    BY <1>5 DEF WorkerExit, Delivered, Done, Pos, history
  <1>6. CASE UNCHANGED <<accepted, callbackCh, worker, called>>
    BY <1>6 DEF Delivered, Done, Pos
  <1> QED BY <1>1, <1>2, <1>3, <1>4, <1>5, <1>6, LogSteps DEF WorkerStep

(* Delivered holds in every behaviour.                                     *)
LEMMA DeliveredHolds == Spec => []Delivered
  <1>1. Init => Delivered
    <2> SUFFICES ASSUME Init PROVE Delivered
      OBVIOUS
    <2>1. Pos = 0 /\ worker.at = "receive"
      BY DEF Init, Pos
    <2> QED BY <2>1 DEF Delivered
  <1> QED BY <1>1, DeliveredNext, DeliveringHolds, PTL DEF Spec

(* "It blocks until all pending callbacks have been executed": when a call  *)
(* of Close has returned, every record of every accepted batch was handed   *)
(* to the callback.                                                         *)
THEOREM DrainedOnReturnHolds == Spec => []DrainedOnReturn
  <1>1. Delivering /\ Delivered => DrainedOnReturn
    <2> SUFFICES ASSUME Delivering, Delivered,
                        NEW c \in Closers, closer[c] = "returned"
                 PROVE  /\ callbackCh = <<>>
                        /\ \A i \in DOMAIN accepted : \A r \in 1..accepted[i].size :
                             \E k \in DOMAIN called : called[k] = <<accepted[i].id, r>>
      BY DEF DrainedOnReturn
    <2>1. worker.at = "exited" /\ callbackCh = <<>>
      BY DEF Delivering, Shutdown
    <2>2. accepted \in Seq(Jobs)
      BY DEF Delivering, Typed, TypeOK
    <2>3. Pos = Len(accepted) /\ DOMAIN accepted = 1..Len(accepted)
      BY <2>1, <2>2 DEF Pos
    <2> QED BY <2>1, <2>3 DEF Delivered, Done
  <1> QED BY <1>1, DeliveredHolds, DeliveringHolds, PTL
-----------------------------------------------------------------------------
(* Order of delivery. *)

(* Record r of the i-th accepted batch comes next, after the calls made.    *)
ComesNext(i, r) ==
    \/ called = <<>> /\ i = 1 /\ r = 1
    \/ called # <<>> /\ r > 1 /\ called[Len(called)] = <<accepted[i].id, r - 1>>
    \/ /\ called # <<>> /\ r = 1 /\ i > 1
       /\ called[Len(called)] = <<accepted[i - 1].id, accepted[i - 1].size>>

(* The last call was for the record the worker is at, or for the one before *)
(* it: of the same batch, or the last one of the batch before.              *)
Ordered ==
    /\ CalledInOrder
    /\ worker.at \in {"receive", "exited"} => ComesNext(Pos + 1, 1)
    /\ worker.at = "batch" => ComesNext(Pos, worker.next)
    /\ worker.at = "callback" => ComesNext(Pos, worker.next + 1)

(* Ordered is inductive, given that the worker is at the batch of Pos.      *)
LEMMA OrderedNext == Delivering /\ Delivered /\ Ordered /\ [Next]_vars => Ordered'
  <1> SUFFICES ASSUME Delivering, Delivered, Ordered, [Next]_vars PROVE Ordered'
    OBVIOUS
  <1>0. /\ accepted \in Seq(Jobs) /\ worker \in WorkerStates /\ InBatch
        /\ Pos \in Nat /\ Pos <= Len(accepted)
        /\ called \in Seq((1..MaxJobs) \X (Nat \ {0}))
    <2>1. callbackCh \in Seq(Jobs) /\ accepted \in Seq(Jobs) /\ Pos \in Nat
      BY DEF Delivering, Typed, TypeOK, RestOfLog
    <2>2. Pos <= Len(accepted)
      BY <2>1 DEF Pos
    <2>3. /\ worker \in WorkerStates /\ InBatch
          /\ called \in Seq((1..MaxJobs) \X (Nat \ {0}))
      BY DEF Delivering, Typed, TypeOK
    <2> QED BY <2>1, <2>2, <2>3
  <1>1. ASSUME NEW d \in Dispatchers, FastSend(d) \/ SlowSend(d) PROVE Ordered'
    <2>1. PICK job \in Jobs : /\ accepted' = Append(accepted, job)
                              /\ UNCHANGED <<worker, called>> /\ Pos' = Pos
      BY <1>1, SendAccepts
    <2>2. /\ DOMAIN accepted = 1..Len(accepted) /\ DOMAIN accepted' = 1..(Len(accepted) + 1)
          /\ \A i \in 1..Len(accepted) : accepted'[i] = accepted[i]
          /\ Len(accepted) \in Nat
      BY <1>0, <2>1
    <2>3. CalledInOrder'
      <3>1. \A i \in DOMAIN accepted : i \in DOMAIN accepted' /\ accepted'[i] = accepted[i]
        BY <2>2
      <3>2. \A i \in DOMAIN accepted : i > 1 => i - 1 \in DOMAIN accepted
        BY <2>2
      <3> QED BY <2>1, <3>1, <3>2 DEF Ordered, CalledInOrder
    <2>4. ASSUME NEW r \in Nat, NEW i \in {Pos, Pos + 1}, i = Pos + 1 => r = 1,
                 i > 0, ComesNext(i, r)
          PROVE  ComesNext(i, r)'
      <3>1. CASE called # <<>> /\ r > 1
        <4>1. i = Pos /\ i \in 1..Len(accepted)
          BY <1>0, <2>4, <3>1
        <4> QED BY <2>1, <2>2, <2>4, <3>1, <4>1 DEF ComesNext
      <3>2. CASE called # <<>> /\ i > 1 /\ r = 1
        <4>1. i - 1 \in 1..Len(accepted)
          BY <1>0, <3>2
        <4>2. accepted'[i - 1] = accepted[i - 1]
          BY <2>2, <4>1
        <4> QED BY <2>1, <2>4, <3>2, <4>2 DEF ComesNext
      <3> QED BY <2>1, <2>4, <3>1, <3>2 DEF ComesNext
    <2>5. worker.at \in {"batch", "callback"} => Pos > 0 /\ worker.next \in Nat \ {0}
      BY <1>0 DEF Delivered, WorkerStates
    <2> QED BY <1>0, <2>1, <2>3, <2>4, <2>5 DEF Ordered
  <1>2. CASE Receive
    <2>1. /\ Pos' = Pos + 1 /\ worker.at = "receive"
          /\ worker' = [at |-> "batch", job |-> accepted[Pos + 1], next |-> 1]
          /\ UNCHANGED <<accepted, called>>
      BY <1>2, ReceiveStarts
    <2>2. ComesNext(Pos + 1, 1)
      BY <2>1 DEF Ordered
    <2>3. ComesNext(Pos, worker.next)'
      <3>1. Pos' = Pos + 1 /\ worker'.next = 1
        BY <2>1
      <3> QED BY <2>1, <2>2, <3>1 DEF ComesNext
    <2>4. CalledInOrder'
      BY <2>1 DEF Ordered, CalledInOrder
    <2>5. worker'.at = "batch"
      BY <2>1
    <2> QED BY <2>3, <2>4, <2>5 DEF Ordered
  <1>3. CASE CallBack
    <2>1. /\ UNCHANGED <<accepted, callbackCh>> /\ worker.at = "batch"
          /\ worker.job \in Jobs /\ worker.next \in Nat \ {0}
          /\ worker.next <= worker.job.size
          /\ worker' = [at |-> "callback", job |-> worker.job, next |-> worker.next]
          /\ called' = Append(called, <<worker.job.id, worker.next>>)
      BY <1>0, <1>3 DEF CallBack, WorkerStates, InBatch
    <2>2. Pos' = Pos /\ Pos > 0 /\ worker.job = accepted[Pos]
      BY <2>1 DEF Pos, Delivered
    <2>3. <<worker.job.id, worker.next>> \in (1..MaxJobs) \X (Nat \ {0})
      BY <2>1, JobFields
    <2>4. /\ DOMAIN called = 1..Len(called) /\ Len(called) \in Nat
          /\ DOMAIN called' = 1..(Len(called) + 1) /\ Len(called') = Len(called) + 1
          /\ \A k \in 1..Len(called) : called'[k] = called[k]
          /\ called'[Len(called) + 1] = <<accepted[Pos].id, worker.next>>
      BY <1>0, <2>1, <2>2, <2>3
    <2>5. ComesNext(Pos, worker.next) /\ (called = <<>> <=> Len(called) = 0)
      BY <1>0, <2>1 DEF Ordered
    <2>6. Pos \in DOMAIN accepted /\ worker.next \in 1..accepted[Pos].size
      <3>1. accepted[Pos].size \in Nat
        BY <2>1, <2>2, JobFields
      <3> QED BY <1>0, <2>1, <2>2, <3>1
    <2>7. CalledInOrder'
      <3> SUFFICES ASSUME NEW k \in DOMAIN called'
                   PROVE  \E i \in DOMAIN accepted : \E r \in 1..accepted[i].size :
                            /\ called'[k] = <<accepted[i].id, r>>
                            /\ \/ k = 1 /\ i = 1 /\ r = 1
                               \/ /\ k > 1 /\ r > 1
                                  /\ called'[k - 1] = <<accepted[i].id, r - 1>>
                               \/ /\ k > 1 /\ r = 1 /\ i > 1
                                  /\ called'[k - 1]
                                       = <<accepted[i - 1].id, accepted[i - 1].size>>
        <4>1. accepted' = accepted
          BY <2>1
        <4> QED BY <4>1, Zenon DEF CalledInOrder
      <3>1. CASE k \in DOMAIN called
        <4>1. called'[k] = called[k] /\ (k > 1 => called'[k - 1] = called[k - 1])
          BY <2>4, <3>1
        <4> QED BY <3>1, <4>1 DEF Ordered, CalledInOrder
      <3>2. CASE k = Len(called) + 1
        <4>1. CASE called = <<>>
          BY <2>4, <2>5, <2>6, <3>2, <4>1 DEF ComesNext
        <4>2. CASE called # <<>>
          <5>1. k > 1 /\ called'[k - 1] = called[Len(called)]
            BY <2>4, <2>5, <3>2, <4>2
          <5> QED BY <2>4, <2>5, <2>6, <3>2, <4>2, <5>1 DEF ComesNext
        <4> QED BY <4>1, <4>2
      <3>3. k \in DOMAIN called \/ k = Len(called) + 1
        BY <2>4
      <3> QED BY <3>1, <3>2, <3>3
    <2>8. ComesNext(Pos, worker.next + 1)'
      <3>1. called' # <<>> /\ called'[Len(called')] = <<accepted[Pos].id, worker.next>>
        BY <2>4
      <3>2. worker.next + 1 > 1 /\ (worker.next + 1) - 1 = worker.next /\ worker'.next = worker.next
        BY <2>1
      <3> QED BY <2>1, <2>2, <3>1, <3>2 DEF ComesNext
    <2> QED BY <2>1, <2>2, <2>7, <2>8 DEF Ordered
  <1>4. CASE CallbackReturns \/ CallbackPanics
    <2>1. /\ UNCHANGED <<accepted, called, callbackCh>>
          /\ worker.at = "callback" /\ worker' = AfterRecord
          /\ worker.next \in Nat \ {0} /\ worker.next <= worker.job.size
          /\ worker.job \in Jobs
      BY <1>0, <1>4 DEF CallbackReturns, CallbackPanics, WorkerStates, InBatch, history
    <2>2. Pos' = Pos /\ Pos > 0 /\ worker.job = accepted[Pos]
      BY <2>1 DEF Pos, Delivered
    <2>3. /\ called # <<>>
          /\ called[Len(called)] = <<accepted[Pos].id, worker.next>>
      BY <2>1 DEF Ordered, ComesNext
    <2>4. CalledInOrder'
      BY <2>1 DEF Ordered, CalledInOrder
    <2>5. CASE worker.next = worker.job.size
      <3>1. worker'.at = "receive"
        BY <2>1, <2>5 DEF AfterRecord
      <3>2. Pos + 1 > 1 /\ (Pos + 1) - 1 = Pos
        BY <1>0, <2>2
      <3>3. ComesNext(Pos + 1, 1)'
        BY <2>1, <2>2, <2>3, <2>5, <3>2 DEF ComesNext
      <3> QED BY <2>4, <3>1, <3>3 DEF Ordered
    <2>6. CASE worker.next # worker.job.size
      <3>1. worker' = [at |-> "batch", job |-> worker.job, next |-> worker.next + 1]
        BY <2>1, <2>6 DEF AfterRecord
      <3>2. ComesNext(Pos, worker.next + 1)
        BY <2>1 DEF Ordered
      <3>3. worker'.at = "batch" /\ worker'.next = worker.next + 1
        BY <3>1
      <3>4. ComesNext(Pos, worker.next)'
        BY <2>1, <2>2, <3>2, <3>3 DEF ComesNext
      <3> QED BY <2>4, <3>3, <3>4 DEF Ordered
    <2> QED BY <2>5, <2>6
  <1>5. CASE WorkerExit
    <2>1. /\ worker.at = "receive" /\ worker'.at = "exited"
          /\ UNCHANGED <<accepted, callbackCh, called>>
      BY <1>5 DEF WorkerExit, history
    <2>2. CalledInOrder'
      BY <2>1 DEF Ordered, CalledInOrder
    <2>3. Pos' = Pos /\ ComesNext(Pos + 1, 1)
      BY <2>1 DEF Ordered, Pos
    <2>4. ComesNext(Pos + 1, 1)'
      BY <2>1, <2>3 DEF ComesNext
    <2> QED BY <2>1, <2>2, <2>4 DEF Ordered
  <1>6. CASE UNCHANGED <<accepted, callbackCh, worker, called>>
    <2>1. CalledInOrder'
      BY <1>6 DEF Ordered, CalledInOrder
    <2>2. Pos' = Pos
      BY <1>6 DEF Pos
    <2>3. ComesNext(Pos + 1, 1) => ComesNext(Pos + 1, 1)'
      BY <1>6, <2>2 DEF ComesNext
    <2>4. ComesNext(Pos, worker.next) => ComesNext(Pos, worker.next)'
      BY <1>6, <2>2 DEF ComesNext
    <2>5. ComesNext(Pos, worker.next + 1) => ComesNext(Pos, worker.next + 1)'
      BY <1>6, <2>2 DEF ComesNext
    <2> QED BY <1>6, <2>1, <2>3, <2>4, <2>5 DEF Ordered
  <1> QED BY <1>1, <1>2, <1>3, <1>4, <1>5, <1>6, LogSteps DEF WorkerStep

(* "callbackWorker processes queued callbacks sequentially": the callbacks  *)
(* made are the records of the accepted batches in order, none left out and *)
(* none repeated, whichever of them panic.                                  *)
THEOREM CalledInOrderHolds == Spec => []CalledInOrder
  <1>1. Init => Ordered
    <2> SUFFICES ASSUME Init PROVE Ordered
      OBVIOUS
    <2>1. Pos = 0 /\ worker.at = "receive" /\ called = <<>>
      BY DEF Init, Pos
    <2> QED BY <2>1 DEF Ordered, CalledInOrder, ComesNext
  <1>2. Ordered => CalledInOrder
    BY DEF Ordered
  <1> QED BY <1>1, <1>2, OrderedNext, DeliveredHolds, DeliveringHolds, PTL DEF Spec
===============================================================================
