------------------------ MODULE CommandTrackingProofs ------------------------
(***************************************************************************)
(* Theorems about what becomes of a command: its ID is its own, it is in   *)
(* one place, it is never lost, and the queues are bounded mailboxes.      *)
(***************************************************************************)
EXTENDS CommandQueueProofs

-----------------------------------------------------------------------------
(* The steps that matter. *)

(* What a step does to the queues and to the fate of the commands. *)
LEMMA QueueSteps ==
    ASSUME TypeOK, [Next]_vars
    PROVE  \/ \E t \in Threads : QueueAppend(t)
           \/ \E sn \in SerialNumbers :
                DrainCommands(sn) /\ UNCHANGED <<accepted, confirmed, discarded>>
           \/ \E t \in Threads : ForgetResult(t)
           \/ EvictCommands
           \/ UNCHANGED <<commandQueue, pendingCommands, accepted, confirmed, discarded>>
  <1>1. ASSUME NEW t \in Threads, Drain(t)
        PROVE  \E sn \in SerialNumbers :
                 DrainCommands(sn) /\ UNCHANGED <<accepted, confirmed, discarded>>
    BY <1>1, CallShape DEF Drain, TypeOK
  <1>2. ASSUME NEW sn \in SerialNumbers, AppDrain(sn)
        PROVE  DrainCommands(sn) /\ UNCHANGED <<accepted, confirmed, discarded>>
    BY <1>2 DEF AppDrain, history
  <1> QED
    BY <1>1, <1>2 DEF Next, ThreadStep, AppRegister, Age, QueueCheck, Request,
       QueueAssign, QueueReject, Activity, DispatchInfo, WriteCommands, LookupResult,
       DispatchResult, DispatchRefused, EvictDevices, queues, history, vars

(* A goroutine is moved by its own steps only. *)
LEMMA CallKept ==
    ASSUME TypeOK, [Next]_vars, NEW u \in Threads
    PROVE  \/ call'[u] = call[u]
           \/ ThreadStep(u)
           \/ \E sn \in SerialNumbers : QueueCheck(u, sn) \/ Request(u, sn)
  <1> SUFFICES ASSUME call'[u] # call[u],
                      ~ThreadStep(u),
                      ~\E sn \in SerialNumbers : QueueCheck(u, sn) \/ Request(u, sn)
               PROVE  FALSE
    OBVIOUS
  <1>1. call \in [Threads -> Calls] /\ call' # call
    BY DEF TypeOK
  <1>2. ASSUME NEW t \in Threads, t # u, NEW c, Goto(t, c) PROVE FALSE
    BY <1>1, <1>2 DEF Goto
  <1>3. ASSUME NEW t \in Threads, t # u, Return(t) PROVE FALSE
    BY <1>2, <1>3 DEF Return
  <1>4. ASSUME NEW t \in Threads, t # u, ThreadStep(t) PROVE FALSE
    <2>1. ~QueueAssign(t) /\ ~Activity(t) /\ ~DispatchInfo(t) /\ ~Drain(t)
      BY <1>2, <1>3, <1>4 DEF QueueAssign, Activity, DispatchInfo, Drain
    <2>2. ~LookupResult(t) /\ ~DispatchResult(t) /\ ~ForgetResult(t)
      BY <1>2, <1>4 DEF LookupResult, DispatchResult, ForgetResult
    <2>3. ~QueueReject(t) /\ ~QueueAppend(t) /\ ~WriteCommands(t) /\ ~DispatchRefused(t)
      BY <1>3, <1>4 DEF QueueReject, QueueAppend, WriteCommands, DispatchRefused
    <2> QED BY <1>4, <2>1, <2>2, <2>3 DEF ThreadStep
  <1>5. ASSUME NEW t \in Threads, t # u, NEW sn \in SerialNumbers
        PROVE  ~QueueCheck(t, sn) /\ ~Request(t, sn)
    BY <1>2, <1>5 DEF QueueCheck, Request
  <1>6. ASSUME NEW sn \in SerialNumbers PROVE ~AppRegister(sn) /\ ~Age(sn) /\ ~AppDrain(sn)
    BY <1>1 DEF AppRegister, Age, AppDrain
  <1>7. ~EvictDevices /\ ~EvictCommands /\ ~UNCHANGED vars
    BY <1>1 DEF EvictDevices, EvictCommands, vars
  <1> QED BY <1>4, <1>5, <1>6, <1>7 DEF Next

(* Where each step of a goroutine takes it. *)
LEMMA CallGoes ==
    ASSUME TypeOK, NEW u \in Threads
    PROVE  /\ QueueAssign(u) => call'[u].at = "append"
           /\ QueueReject(u) \/ QueueAppend(u) \/ WriteCommands(u) \/ DispatchRefused(u)
                => call'[u].at = "idle"
           /\ Activity(u) => call'[u].at \in {"idle", "drain", "info", "lookup"}
           /\ DispatchInfo(u) => call'[u].at \in {"idle", "drain"}
           /\ Drain(u) => call'[u].at = "write"
           /\ LookupResult(u) => call'[u].at = "dispatch"
           /\ DispatchResult(u) => call'[u].at = "forget"
           /\ ForgetResult(u) => call'[u].at \in {"idle", "lookup"}
           /\ \A sn \in SerialNumbers :
                /\ QueueCheck(u, sn) => call'[u].at = "assign"
                /\ Request(u, sn) => call'[u].at = "registered"
  <1> USE DEF Goto, Return, Idle
  <1>1. call \in [Threads -> Calls]
    BY DEF TypeOK
  <1>2. /\ QueueAssign(u) => call'[u].at = "append"
        /\ QueueReject(u) \/ QueueAppend(u) \/ WriteCommands(u) \/ DispatchRefused(u)
             => call'[u].at = "idle"
    BY <1>1 DEF QueueAssign, QueueReject, QueueAppend, WriteCommands, DispatchRefused
  <1>3. Activity(u) => call'[u].at \in {"idle", "drain", "info", "lookup"}
    BY <1>1 DEF Activity, HandlerStarts
  <1>4. /\ DispatchInfo(u) => call'[u].at \in {"idle", "drain"}
        /\ Drain(u) => call'[u].at = "write"
    <2>1. Drain(u) => call' = [call EXCEPT ![u] = [at |-> "write", sn |-> call[u].sn,
                                                   cmds |-> commandQueue[call[u].sn]]]
      BY DEF Drain
    <2> QED BY <1>1, <2>1 DEF DispatchInfo
  <1>5. /\ LookupResult(u) => call'[u].at = "dispatch"
        /\ DispatchResult(u) => call'[u].at = "forget"
        /\ ForgetResult(u) => call'[u].at \in {"idle", "lookup"}
    BY <1>1 DEF LookupResult, DispatchResult, ForgetResult
  <1>6. \A sn \in SerialNumbers :
          /\ QueueCheck(u, sn) => call'[u].at = "assign"
          /\ Request(u, sn) => call'[u].at = "registered"
    BY <1>1 DEF QueueCheck, Request
  <1> QED BY <1>2, <1>3, <1>4, <1>5, <1>6

(* How a goroutine comes to an append, a write or a result. *)
LEMMA CallCameFrom ==
    ASSUME TypeOK, [Next]_vars, NEW u \in Threads, call'[u] # call[u]
    PROVE  /\ call'[u].at = "append" => QueueAssign(u)
           /\ call'[u].at = "write" => Drain(u)
           /\ call'[u].at = "lookup" => Activity(u) \/ ForgetResult(u)
           /\ call'[u].at = "dispatch" => LookupResult(u)
           /\ call'[u].at = "forget" => DispatchResult(u)
  BY CallKept, CallGoes DEF ThreadStep

(* The IDs of the accepted commands, when one more is accepted. *)
LEMMA AcceptedGrows ==
    ASSUME NEW t, QueueAppend(t)
    PROVE  AcceptedIDs' = AcceptedIDs \cup {call[t].id}
  <1> DEFINE new == [id |-> call[t].id, sn |-> call[t].sn, by |-> t]
  <1>1. accepted' = accepted \cup {new} /\ new.id = call[t].id
    BY DEF QueueAppend
  <1> HIDE DEF new
  <1> QED BY <1>1 DEF AcceptedIDs

-----------------------------------------------------------------------------
(* IDs. *)

(* Every ID comes from the counter, an ID on its way to a queue is not used *)
(* yet, and two calls never have the same one.                              *)
FreshIDs ==
    /\ AcceptedIDs \subseteq 1..cmdID
    /\ \A t \in Threads : call[t].at = "append" =>
         call[t].id \in 1..cmdID /\ call[t].id \notin AcceptedIDs
    /\ \A t, u \in Threads :
         (t # u /\ call[t].at = "append" /\ call[u].at = "append")
           => call[t].id # call[u].id

(* FreshIDs is inductive. *)
LEMMA FreshIDsNext == TypeOK /\ FreshIDs /\ [Next]_vars => FreshIDs'
  <1> SUFFICES ASSUME TypeOK, FreshIDs, [Next]_vars PROVE FreshIDs'
    OBVIOUS
  <1>0. cmdID \in Nat /\ call \in [Threads -> Calls]
    BY DEF TypeOK
  <1>1. CASE \E t \in Threads : QueueAssign(t)
    <2>1. PICK t \in Threads : QueueAssign(t)
      BY <1>1
    <2>2. /\ cmdID' = cmdID + 1 /\ AcceptedIDs' = AcceptedIDs
          /\ call'[t].id = cmdID + 1
          /\ \A u \in Threads \ {t} : call'[u] = call[u]
      BY <1>0, <2>1 DEF QueueAssign, Goto, AcceptedIDs, history
    <2> QED BY <1>0, <2>2 DEF FreshIDs
  <1>2. CASE \E t \in Threads : QueueAppend(t)
    <2>1. PICK t \in Threads : QueueAppend(t)
      BY <1>2
    <2>2. /\ AcceptedIDs' = AcceptedIDs \cup {call[t].id}
          /\ UNCHANGED cmdID
          /\ call[t].at = "append" /\ call'[t].at # "append"
          /\ \A u \in Threads \ {t} : call'[u] = call[u]
      BY <1>0, <2>1, CallReturns, IdleIsCall, AcceptedGrows DEF QueueAppend
    <2>3. AcceptedIDs' \subseteq 1..cmdID'
      BY <2>2 DEF FreshIDs
    <2>4. ASSUME NEW u \in Threads, call'[u].at = "append"
          PROVE  /\ call[u].at = "append" /\ call'[u].id = call[u].id
                 /\ call'[u].id \in 1..cmdID' /\ call'[u].id \notin AcceptedIDs'
      <3>1. u # t /\ call'[u] = call[u]
        BY <2>2, <2>4
      <3> QED BY <2>2, <2>4, <3>1 DEF FreshIDs
    <2> QED BY <2>3, <2>4 DEF FreshIDs
  <1>3. CASE /\ \A t \in Threads : ~QueueAssign(t)
             /\ \A t \in Threads : ~QueueAppend(t)
    <2>1. UNCHANGED <<cmdID, accepted>>
      BY <1>3 DEF Next, ThreadStep, AppRegister, Age, AppDrain, QueueCheck, Request,
         QueueReject, Activity, DispatchInfo, Drain, WriteCommands, LookupResult,
         DispatchResult, DispatchRefused, ForgetResult, EvictDevices, EvictCommands,
         queues, history, vars
    <2>2. \A u \in Threads : call'[u].at = "append" => call'[u] = call[u]
      BY <1>3, CallCameFrom
    <2> QED BY <2>1, <2>2 DEF FreshIDs, AcceptedIDs
  <1> QED BY <1>1, <1>2, <1>3

-----------------------------------------------------------------------------
(* Places. *)

(* Appending a new element keeps a sequence without repetitions. *)
LEMMA InjectiveAppend ==
    ASSUME NEW S, NEW s \in Seq(S), NEW e \in S, IsInjective(s), e \notin Range(s)
    PROVE  IsInjective(Append(s, e))
  BY DEF IsInjective, Range

(* A queue is empty, or grows, or stays: what that does to its IDs. *)
LEMMA EmptyQueue == IDsIn(<<>>) = {} /\ IsInjective(<<>>)
  BY DEF IDsIn, Range, IsInjective

(* OnePlace and Accounted are inductive, given that new IDs are new. *)
LEMMA TrackingNext ==
    TypeOK /\ FreshIDs /\ OnePlace /\ Accounted /\ [Next]_vars => OnePlace' /\ Accounted'
  <1> SUFFICES ASSUME TypeOK, FreshIDs, OnePlace, Accounted, [Next]_vars
               PROVE  OnePlace' /\ Accounted'
    OBVIOUS
  <1>0. commandQueue \in [SerialNumbers -> Seq(CommandIDs)]
    BY DEF TypeOK
  <1>1. CASE \E t \in Threads : QueueAppend(t)
    <2>1. PICK t \in Threads : QueueAppend(t)
      BY <1>1
    <2>2. PICK sn \in SerialNumbers, id \in CommandIDs : sn = call[t].sn /\ id = call[t].id
      BY <2>1, CallShape DEF QueueAppend, TypeOK
    <2>3. id \notin AcceptedIDs
      BY <2>1, <2>2 DEF QueueAppend, FreshIDs
    <2>4. id \notin Queued \cup DOMAIN pendingCommands \cup confirmed \cup discarded
      BY <2>3 DEF Accounted
    <2>5. id \notin IDsIn(commandQueue[sn])
      BY <2>4 DEF Queued
    <2>6. /\ commandQueue' = [commandQueue EXCEPT ![sn] = Append(@, id)]
          /\ AcceptedIDs' = AcceptedIDs \cup {id}
          /\ UNCHANGED <<pendingCommands, confirmed, discarded>>
      BY <2>1, <2>2, AcceptedGrows DEF QueueAppend
    <2>7. /\ IDsIn(commandQueue'[sn]) = IDsIn(commandQueue[sn]) \cup {id}
          /\ IsInjective(commandQueue'[sn])
      BY <1>0, <2>5, <2>6, RangeFacts, InjectiveAppend DEF IDsIn, OnePlace
    <2>8. \A s \in SerialNumbers \ {sn} : commandQueue'[s] = commandQueue[s]
      BY <1>0, <2>6
    <2>9. Queued' = Queued \cup {id}
      BY <2>7, <2>8 DEF Queued
    <2>10. \A s \in SerialNumbers : id \notin IDsIn(commandQueue[s])
      BY <2>4 DEF Queued
    <2>11. OnePlace'
      <3>1. \A s \in SerialNumbers : IsInjective(commandQueue'[s])
        BY <2>7, <2>8 DEF OnePlace
      <3>2. \A s \in SerialNumbers \ {sn} :
              IDsIn(commandQueue'[s]) \cap IDsIn(commandQueue'[sn]) = {}
        BY <2>7, <2>8, <2>10 DEF OnePlace
      <3>3. \A s1, s2 \in SerialNumbers :
              s1 # s2 => IDsIn(commandQueue'[s1]) \cap IDsIn(commandQueue'[s2]) = {}
        BY <2>8, <3>2 DEF OnePlace
      <3>4. Queued' \cap DOMAIN pendingCommands' = {}
        BY <2>4, <2>6, <2>9 DEF OnePlace
      <3> QED BY <3>1, <3>3, <3>4 DEF OnePlace
    <2>12. Accounted'
      BY <2>4, <2>6, <2>9 DEF Accounted
    <2> QED BY <2>11, <2>12
  <1>2. CASE \E sn \in SerialNumbers :
               DrainCommands(sn) /\ UNCHANGED <<accepted, confirmed, discarded>>
    <2>1. PICK sn \in SerialNumbers :
            DrainCommands(sn) /\ UNCHANGED <<accepted, confirmed, discarded>>
      BY <1>2
    <2>2. /\ commandQueue'[sn] = <<>>
          /\ \A s \in SerialNumbers \ {sn} : commandQueue'[s] = commandQueue[s]
          /\ DOMAIN pendingCommands' = DOMAIN pendingCommands \cup IDsIn(commandQueue[sn])
      BY <1>0, <2>1 DEF DrainCommands
    <2>3. Queued' = Queued \ IDsIn(commandQueue[sn]) /\ IDsIn(commandQueue[sn]) \subseteq Queued
      BY <2>2, EmptyQueue DEF Queued, OnePlace
    <2>4. OnePlace'
      BY <2>2, <2>3, EmptyQueue DEF OnePlace
    <2>5. Accounted'
      BY <2>1, <2>2, <2>3 DEF Accounted, AcceptedIDs
    <2> QED BY <2>4, <2>5
  <1>3. CASE \E t \in Threads : ForgetResult(t)
    <2>1. PICK id : /\ DOMAIN pendingCommands' = DOMAIN pendingCommands \ {id}
                    /\ confirmed' = confirmed \cup ({id} \cap DOMAIN pendingCommands)
                    /\ UNCHANGED <<commandQueue, accepted, discarded>>
      BY <1>3 DEF ForgetResult
    <2> QED BY <2>1 DEF OnePlace, Accounted, Queued, AcceptedIDs
  <1>4. CASE EvictCommands
    <2> DEFINE gone == UNION {IDsIn(commandQueue[sn]) \cup PendingFor(sn) : sn \in swept}
    <2>0. swept \subseteq SerialNumbers
          /\ \A id \in DOMAIN pendingCommands : pendingCommands[id] \in SerialNumbers
      BY DEF TypeOK
    <2>1. /\ \A s \in SerialNumbers :
               commandQueue'[s] = IF s \in swept THEN <<>> ELSE commandQueue[s]
          /\ DOMAIN pendingCommands' =
               {i \in DOMAIN pendingCommands : pendingCommands[i] \notin swept}
          /\ discarded' = discarded \cup gone
          /\ UNCHANGED <<accepted, confirmed>>
      BY <1>4 DEF EvictCommands
    <2>2. DOMAIN pendingCommands' = DOMAIN pendingCommands \ gone
      BY <2>0, <2>1 DEF OnePlace, Queued, PendingFor
    <2>3. Queued' = Queued \ gone
      BY <2>0, <2>1, EmptyQueue DEF OnePlace, Queued, PendingFor
    <2>4. gone \subseteq Queued \cup DOMAIN pendingCommands
      BY <2>0 DEF Queued, PendingFor
    <2>5. OnePlace'
      BY <2>1, <2>2, <2>3, EmptyQueue DEF OnePlace
    <2> HIDE DEF gone
    <2>6. Accounted'
      BY <2>1, <2>2, <2>3, <2>4 DEF Accounted, AcceptedIDs
    <2> QED BY <2>5, <2>6
  <1>5. CASE UNCHANGED <<commandQueue, pendingCommands, accepted, confirmed, discarded>>
    <2>1. Queued' = Queued /\ AcceptedIDs' = AcceptedIDs
      BY <1>5 DEF Queued, AcceptedIDs
    <2>2. OnePlace'
      BY <1>5, <2>1 DEF OnePlace
    <2>3. Accounted'
      BY <1>5, <2>1 DEF Accounted
    <2> QED BY <2>2, <2>3
  <1> QED BY <1>1, <1>2, <1>3, <1>4, <1>5, QueueSteps

(* The invariant the theorems below rest on. *)
Tracking == TypeOK /\ CommandLimit /\ FreshIDs /\ OnePlace /\ Accounted

(* It holds in every behaviour. *)
LEMMA TrackingHolds == Spec => []Tracking
  <1>1. Init => FreshIDs
    BY DEF Init, FreshIDs, AcceptedIDs, Idle
  <1>2. Init => OnePlace /\ Accounted
    <2> SUFFICES ASSUME Init PROVE OnePlace /\ Accounted
      OBVIOUS
    <2>1. /\ \A sn \in SerialNumbers : commandQueue[sn] = <<>>
          /\ DOMAIN pendingCommands = {} /\ AcceptedIDs = {}
          /\ confirmed = {} /\ discarded = {}
      BY DEF Init, AcceptedIDs
    <2>2. Queued = {}
      BY <2>1, EmptyQueue DEF Queued
    <2> QED BY <2>1, <2>2, EmptyQueue DEF OnePlace, Accounted
  <1> QED
    BY <1>1, <1>2, FreshIDsNext, TrackingNext, TypeCorrect, CommandLimitHolds, PTL
       DEF Spec, Tracking

(* A command ID names one command, in one place: atomic.AddInt64 hands every *)
(* ID out once, and draining moves commands under one lock.                  *)
THEOREM OnePlaceHolds == Spec => []OnePlace
  BY TrackingHolds, PTL DEF Tracking

(* No accepted command is lost, and none comes back.                         *)
THEOREM AccountedHolds == Spec => []Accounted
  BY TrackingHolds, PTL DEF Tracking

-----------------------------------------------------------------------------
(* The queues are bounded mailboxes. *)

(* Sizes and ranges mean the same in CommandMailbox. *)
LEMMA SameOperators ==
    /\ \A S : Mailbox!Cardinality(S) = Cardinality(S)
    /\ \A f : Mailbox!Range(f) = Range(f)
  BY DEF Mailbox!Cardinality, Cardinality, Mailbox!Range, Range

(* Initially every mailbox is empty. *)
LEMMA MailboxInit == Init => Mailbox!Init
  <1> SUFFICES ASSUME Init PROVE Mailbox!Init
    OBVIOUS
  <1>1. \A sn \in SerialNumbers : PendingFor(sn) = {}
    BY DEF Init, PendingFor
  <1>2. AcceptedIDs = {}
    BY DEF Init, AcceptedIDs
  <1> QED BY <1>1, <1>2 DEF Init, Mailbox!Init

(* Every step is a step of the mailboxes or leaves them alone. *)
LEMMA MailboxNext == Tracking /\ [Next]_vars => [Mailbox!Next]_(Mailbox!vars)
  <1> SUFFICES ASSUME Tracking, [Next]_vars PROVE [Mailbox!Next]_(Mailbox!vars)
    OBVIOUS
  <1>0. /\ TypeOK /\ FreshIDs /\ OnePlace
        /\ commandQueue \in [SerialNumbers -> Seq(CommandIDs)]
        /\ \A id \in DOMAIN pendingCommands : pendingCommands[id] \in SerialNumbers
        /\ DOMAIN pendingCommands \subseteq CommandIDs
    BY DEF Tracking, TypeOK
  <1>1. CASE \E t \in Threads : QueueAppend(t)
    <2>1. PICK t \in Threads : QueueAppend(t)
      BY <1>1
    <2>2. PICK sn \in SerialNumbers, id \in CommandIDs : sn = call[t].sn /\ id = call[t].id
      BY <1>0, <2>1, CallShape DEF QueueAppend, TypeOK
    <2>3. id \notin AcceptedIDs
      BY <1>0, <2>1, <2>2 DEF QueueAppend, FreshIDs
    <2>4. MaxCommandsPerDevice > 0 =>
            Len(commandQueue[sn]) + Cardinality(PendingFor(sn)) < MaxCommandsPerDevice
      <3>1. ~AtLimit(sn)
        BY <2>1, <2>2 DEF QueueAppend
      <3>2. Len(commandQueue[sn]) \in Nat /\ Cardinality(PendingFor(sn)) \in Nat
        BY <1>0, PendingFinite
      <3> QED BY <3>1, <3>2, BoundsAssumption DEF AtLimit, BoundsAssumption
    <2>5. /\ commandQueue' = [commandQueue EXCEPT ![sn] = Append(@, id)]
          /\ AcceptedIDs' = AcceptedIDs \cup {id}
          /\ pendingCommands' = pendingCommands
      BY <2>1, <2>2, AcceptedGrows DEF QueueAppend
    <2>6. \A s \in SerialNumbers : PendingFor(s)' = PendingFor(s)
      BY <2>5 DEF PendingFor
    <2>7. Mailbox!Put(sn, id)
      BY <2>3, <2>4, <2>5, <2>6, SameOperators DEF Mailbox!Put, Mailbox!Load
    <2> QED BY <2>7 DEF Mailbox!Next
  <1>2. CASE \E sn \in SerialNumbers :
               DrainCommands(sn) /\ UNCHANGED <<accepted, confirmed, discarded>>
    <2>1. PICK sn \in SerialNumbers : DrainCommands(sn) /\ UNCHANGED accepted
      BY <1>2
    <2>2. AcceptedIDs' = AcceptedIDs
      BY <2>1 DEF AcceptedIDs
    <2>3. PendingFor(sn)' = PendingFor(sn) \cup Range(commandQueue[sn])
      BY <2>1 DEF DrainCommands, PendingFor, IDsIn
    <2>4. ASSUME NEW s \in SerialNumbers \ {sn}
          PROVE  PendingFor(s)' = PendingFor(s)
      BY <1>0, <2>1 DEF DrainCommands, PendingFor, OnePlace, Queued
    <2>5. Mailbox!Take(sn)
      BY <2>1, <2>2, <2>3, <2>4, SameOperators DEF Mailbox!Take, DrainCommands
    <2> QED BY <2>5 DEF Mailbox!Next
  <1>3. CASE \E t \in Threads : ForgetResult(t)
    <2>1. PICK t \in Threads : ForgetResult(t)
      BY <1>3
    <2> DEFINE id == Head(call[t].results)
    <2>2. /\ pendingCommands' = [i \in DOMAIN pendingCommands \ {id} |-> pendingCommands[i]]
          /\ UNCHANGED <<commandQueue, accepted>>
      BY <2>1 DEF ForgetResult
    <2>3. AcceptedIDs' = AcceptedIDs
      BY <2>2 DEF AcceptedIDs
    <2>4. CASE id \in DOMAIN pendingCommands
      <3>1. PICK sn \in SerialNumbers : sn = pendingCommands[id]
        BY <1>0, <2>4
      <3>2. PICK i \in CommandIDs : i = id
        BY <1>0, <2>4
      <3> HIDE DEF id
      <3>3. i \in PendingFor(sn) /\ PendingFor(sn)' = PendingFor(sn) \ {i}
        BY <2>2, <2>4, <3>1, <3>2 DEF PendingFor
      <3>4. \A s \in SerialNumbers \ {sn} : PendingFor(s)' = PendingFor(s)
        BY <2>2, <2>4, <3>1, <3>2 DEF PendingFor
      <3>5. Mailbox!Confirm(sn, i)
        BY <2>2, <2>3, <3>3, <3>4 DEF Mailbox!Confirm
      <3> QED BY <3>5 DEF Mailbox!Next
    <2>5. CASE id \notin DOMAIN pendingCommands
      <3> HIDE DEF id
      <3>1. \A s \in SerialNumbers : PendingFor(s)' = PendingFor(s)
        BY <2>2, <2>5 DEF PendingFor
      <3> QED BY <2>2, <2>3, <3>1 DEF Mailbox!vars
    <2> QED BY <2>4, <2>5
  <1>4. CASE EvictCommands
    <2>1. swept \in SUBSET SerialNumbers
      BY <1>0 DEF TypeOK
    <2>2. AcceptedIDs' = AcceptedIDs
      BY <1>4 DEF EvictCommands, AcceptedIDs
    <2>3. \A s \in SerialNumbers :
            PendingFor(s)' = IF s \in swept THEN {} ELSE PendingFor(s)
      BY <1>4 DEF EvictCommands, PendingFor
    <2>4. commandQueue' = [sn \in SerialNumbers |->
                             IF sn \in swept THEN <<>> ELSE commandQueue[sn]]
      BY <1>4 DEF EvictCommands
    <2>5. Mailbox!GiveUp(swept)
      BY <2>2, <2>3, <2>4 DEF Mailbox!GiveUp
    <2> QED BY <2>1, <2>5 DEF Mailbox!Next
  <1>5. CASE UNCHANGED <<commandQueue, pendingCommands, accepted, confirmed, discarded>>
    BY <1>5 DEF Mailbox!vars, PendingFor, AcceptedIDs
  <1> QED BY <1>0, <1>1, <1>2, <1>3, <1>4, <1>5, QueueSteps

(* Whatever the interleaving of QueueCommand, DrainCommands, HandleDeviceCmd *)
(* and the eviction worker, the queues behave as one bounded mailbox per     *)
(* device.                                                                   *)
THEOREM MailboxRefinement == Spec => ImplementsMailbox
  BY MailboxInit, MailboxNext, TrackingHolds, PTL DEF Spec, ImplementsMailbox, Mailbox!Spec
===============================================================================
