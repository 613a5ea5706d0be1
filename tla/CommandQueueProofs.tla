-------------------------- MODULE CommandQueueProofs --------------------------
(***************************************************************************)
(* Theorems about CommandQueue, for all serial numbers, threads, limits    *)
(* and bounds.                                                             *)
(***************************************************************************)
EXTENDS CommandQueue, FiniteSetTheorems, TLAPS

-----------------------------------------------------------------------------
(* Lemmas about sequences and calls. *)

(* Range of the sequences that queues are made of. *)
LEMMA RangeFacts ==
    ASSUME NEW S, NEW s \in Seq(S)
    PROVE  /\ Range(s) \subseteq S
           /\ Range(<<>>) = {}
           /\ \A e \in S : Range(Append(s, e)) = Range(s) \cup {e}
  <1>1. Range(s) \subseteq S
    BY DEF Range
  <1>2. Range(<<>>) = {}
    BY DEF Range
  <1>3. ASSUME NEW e \in S PROVE Range(Append(s, e)) = Range(s) \cup {e}
    <2>1. /\ Len(s) \in Nat
          /\ DOMAIN s = 1..Len(s) /\ DOMAIN Append(s, e) = 1..Len(s) + 1
          /\ \A i \in 1..Len(s) : Append(s, e)[i] = s[i]
          /\ Append(s, e)[Len(s) + 1] = e
      OBVIOUS
    <2>2. 1..Len(s) + 1 = 1..Len(s) \cup {Len(s) + 1}
      BY <2>1
    <2>3. /\ Range(s) = {s[i] : i \in 1..Len(s)}
          /\ Range(Append(s, e)) = {Append(s, e)[i] : i \in 1..Len(s) \cup {Len(s) + 1}}
      BY <2>1, <2>2 DEF Range
    <2> QED BY <2>1, <2>3, Zenon
  <1> QED BY <1>1, <1>2, <1>3

(* What a call remembers, by where it is. *)
LEMMA CallShape ==
    ASSUME NEW c \in Calls
    PROVE  /\ c.at \in {"assign", "registered", "drain", "info", "append", "write",
                        "lookup", "forget", "dispatch"} => c.sn \in SerialNumbers
           /\ c.at = "append" => c.id \in CommandIDs
           /\ c.at = "write" => c.cmds \in Seq(CommandIDs)
           /\ c.at \in {"lookup", "forget", "dispatch"} => c.results \in Results
           /\ c.at = "dispatch" => c.found \in BOOLEAN /\ c.early \in BOOLEAN
  BY DEF Calls, Idle

(* Every call an action starts or continues is one of Calls. *)
LEMMA CallBuilt ==
    ASSUME NEW sn \in SerialNumbers
    PROVE  /\ \A at \in {"assign", "registered", "drain", "info"} :
                [at |-> at, sn |-> sn] \in Calls
           /\ \A id \in CommandIDs : [at |-> "append", sn |-> sn, id |-> id] \in Calls
           /\ \A cmds \in Seq(CommandIDs) :
                [at |-> "write", sn |-> sn, cmds |-> cmds] \in Calls
           /\ \A results \in Results, at \in {"lookup", "forget"} :
                [at |-> at, sn |-> sn, results |-> results] \in Calls
           /\ \A results \in Results, found, early \in BOOLEAN :
                [at |-> "dispatch", sn |-> sn, results |-> results, found |-> found,
                 early |-> early] \in Calls
  BY DEF Calls, Idle

(* The first result, and the rest, of a body that has results left. *)
LEMMA ResultsFacts ==
    ASSUME NEW results \in Results
    PROVE  /\ Head(results) \in CommandIDs
           /\ Tail(results) # <<>> => Tail(results) \in Results
  BY DEF Results

(* A goroutine between two calls. *)
LEMMA IdleIsCall == Idle \in Calls /\ Idle.at = "idle"
  BY DEF Calls, Idle

(* What remains of the other calls, and of the set of threads about to take *)
(* an ID, when one call goes on.                                            *)
LEMMA CallMoves ==
    ASSUME call \in [Threads -> Calls], NEW t \in Threads, NEW c \in Calls,
           Goto(t, c)
    PROVE  /\ call' \in [Threads -> Calls]
           /\ call'[t] = c
           /\ \A u \in Threads \ {t} : call'[u] = call[u]
           /\ (call[t].at # "assign" /\ c.at = "assign")
                => Cardinality(Assigning') = Cardinality(Assigning) + 1
           /\ (call[t].at = "assign" /\ c.at # "assign")
                => Cardinality(Assigning') = Cardinality(Assigning) - 1
           /\ (call[t].at # "assign" /\ c.at # "assign") => Assigning' = Assigning
  <1>1. /\ IsFiniteSet(Assigning) /\ Cardinality(Assigning) \in Nat
        /\ IsFiniteSet(Assigning') /\ Cardinality(Assigning') \in Nat
    BY BoundsAssumption, FS_Subset, FS_CardinalityType DEF BoundsAssumption, Assigning
  <1>2. /\ call' \in [Threads -> Calls]
        /\ call'[t] = c
        /\ \A u \in Threads \ {t} : call'[u] = call[u]
    BY DEF Goto
  <1>3. ASSUME call[t].at # "assign", c.at = "assign"
        PROVE  Cardinality(Assigning') = Cardinality(Assigning) + 1
    <2>1. Assigning' = Assigning \cup {t} /\ t \notin Assigning
      BY <1>2, <1>3 DEF Assigning
    <2> QED BY <2>1, <1>1, FS_AddElement
  <1>4. ASSUME call[t].at = "assign", c.at # "assign"
        PROVE  Cardinality(Assigning') = Cardinality(Assigning) - 1
    <2>1. Assigning' = Assigning \ {t} /\ t \in Assigning
      BY <1>2, <1>4 DEF Assigning
    <2> QED BY <2>1, <1>1, FS_RemoveElement
  <1>5. ASSUME call[t].at # "assign", c.at # "assign"
        PROVE  Assigning' = Assigning
    BY <1>2, <1>5 DEF Assigning
  <1> QED BY <1>2, <1>3, <1>4, <1>5

(* A call that returns: Idle is the call it leaves behind. *)
LEMMA CallReturns ==
    ASSUME call \in [Threads -> Calls], NEW t \in Threads, Return(t),
           call[t].at # "assign"
    PROVE  /\ call' \in [Threads -> Calls]
           /\ call'[t] = Idle
           /\ \A u \in Threads \ {t} : call'[u] = call[u]
           /\ Assigning' = Assigning
  BY CallMoves, IdleIsCall DEF Return

-----------------------------------------------------------------------------
(* Type correctness. *)

(* The threads about to take an ID are finitely many. *)
LEMMA AssigningFinite == IsFiniteSet(Assigning) /\ Cardinality(Assigning) \in Nat
  BY BoundsAssumption, FS_Subset, FS_CardinalityType DEF BoundsAssumption, Assigning

(* Where a handler goes on after requireDevice is a call, and takes no ID. *)
LEMMA HandlerStartsAreCalls ==
    ASSUME TypeOK, NEW sn \in SerialNumbers, NEW c \in HandlerStarts(sn)
    PROVE  c \in Calls /\ c.at # "assign"
  <1>1. Bodies \subseteq Results
    <2> SUFFICES ASSUME NEW n \in 1..MaxResults, NEW f \in [1..n -> CommandIDs]
                 PROVE  f \in Results
      BY DEF Bodies
    <2>1. n \in Nat \ {0}
      BY BoundsAssumption DEF BoundsAssumption
    <2>2. f \in Seq(CommandIDs) /\ f # <<>>
      BY <2>1
    <2> QED BY <2>2 DEF Results
  <1> QED BY <1>1 DEF HandlerStarts, Calls, Idle

(* Draining keeps the types of the queues and of pendingCommands. *)
LEMMA DrainTypes ==
    ASSUME TypeOK, NEW sn \in SerialNumbers, DrainCommands(sn)
    PROVE  /\ DOMAIN pendingCommands' \subseteq CommandIDs
           /\ \A id \in DOMAIN pendingCommands' : pendingCommands'[id] \in SerialNumbers
           /\ commandQueue' \in [SerialNumbers -> Seq(CommandIDs)]
  <1>1. IDsIn(commandQueue[sn]) \subseteq CommandIDs
    BY RangeFacts DEF TypeOK, IDsIn
  <1> QED BY <1>1 DEF DrainCommands, TypeOK

(* Every variable has its type to begin with. *)
LEMMA TypeInit == Init => TypeOK
  <1> SUFFICES ASSUME Init PROVE TypeOK
    OBVIOUS
  <1>1. Assigning = {} /\ Cardinality(Assigning) = 0
    BY FS_EmptySet DEF Init, Assigning, Idle
  <1>2. call \in [Threads -> Calls]
    BY DEF Init, Calls
  <1>3. DOMAIN pendingCommands = {}
    BY DEF Init
  <1> QED BY <1>1, <1>2, <1>3, BoundsAssumption DEF Init, TypeOK, BoundsAssumption

(* Every step keeps the types. *)
LEMMA TypeNext == TypeOK /\ [Next]_vars => TypeOK'
  <1> SUFFICES ASSUME TypeOK, [Next]_vars PROVE TypeOK'
    OBVIOUS
  <1> USE DEF TypeOK
  <1>1. ASSUME NEW sn \in SerialNumbers, AppRegister(sn) PROVE TypeOK'
    BY <1>1 DEF AppRegister, RegisterDevice, queues, worker, history, Assigning
  <1>2. ASSUME NEW sn \in SerialNumbers, Age(sn) PROVE TypeOK'
    BY <1>2 DEF Age, queues, worker, history, Assigning
  <1>3. ASSUME NEW sn \in SerialNumbers, AppDrain(sn) PROVE TypeOK'
    BY <1>3, DrainTypes DEF AppDrain, DrainCommands, worker, history, Assigning
  <1>4. ASSUME NEW t \in Threads, NEW sn \in SerialNumbers, QueueCheck(t, sn) PROVE TypeOK'
    <2> DEFINE c == [at |-> "assign", sn |-> sn]
    <2>1. c \in Calls /\ c.at = "assign"
      BY CallBuilt
    <2>2. Goto(t, c) /\ call[t].at # "assign"
      BY <1>4 DEF QueueCheck
    <2> HIDE DEF c
    <2>3. /\ call' \in [Threads -> Calls]
          /\ Cardinality(Assigning') = Cardinality(Assigning) + 1
      BY <2>1, <2>2, CallMoves
    <2>4. (cmdID + Cardinality(Assigning) <= MaxCmdID)'
      BY <1>4, <2>3, BoundsAssumption, AssigningFinite
         DEF QueueCheck, IDsLeft, queues, BoundsAssumption
    <2> QED BY <1>4, <2>3, <2>4 DEF QueueCheck, queues, worker, history
  <1>5. ASSUME NEW t \in Threads, NEW sn \in SerialNumbers, Request(t, sn) PROVE TypeOK'
    <2> DEFINE c == [at |-> "registered", sn |-> sn]
    <2>1. c \in Calls /\ c.at # "assign"
      BY CallBuilt
    <2>2. Goto(t, c) /\ call[t].at # "assign"
      BY <1>5 DEF Request
    <2> HIDE DEF c
    <2>3. call' \in [Threads -> Calls] /\ Assigning' = Assigning
      BY <2>1, <2>2, CallMoves
    <2> QED BY <1>5, <2>3 DEF Request, RegisterDevice, queues, worker, history
  <1>6. ASSUME NEW t \in Threads, QueueAssign(t) PROVE TypeOK'
    <2> DEFINE c == [at |-> "append", sn |-> call[t].sn, id |-> cmdID + 1]
    <2>1. call[t].sn \in SerialNumbers
      BY <1>6, CallShape DEF QueueAssign
    <2>2. Cardinality(Assigning) \in Nat \ {0}
      <3>1. t \in Assigning
        BY <1>6 DEF QueueAssign, Assigning
      <3> QED BY <3>1, AssigningFinite, FS_EmptySet
    <2>3. cmdID + 1 \in CommandIDs
      BY <2>2, BoundsAssumption DEF CommandIDs, BoundsAssumption
    <2>4. c \in Calls /\ c.at # "assign"
      BY <2>1, <2>3, CallBuilt
    <2>5. Goto(t, c) /\ call[t].at = "assign"
      BY <1>6 DEF QueueAssign
    <2> HIDE DEF c
    <2>6. /\ call' \in [Threads -> Calls]
          /\ Cardinality(Assigning') = Cardinality(Assigning) - 1
      BY <2>4, <2>5, CallMoves
    <2>7. (cmdID \in Nat /\ cmdID + Cardinality(Assigning) <= MaxCmdID)'
      BY <1>6, <2>2, <2>6, BoundsAssumption DEF QueueAssign, BoundsAssumption
    <2> QED BY <1>6, <2>6, <2>7 DEF QueueAssign, worker, history
  <1>7. ASSUME NEW t \in Threads, QueueReject(t) PROVE TypeOK'
    <2>1. call' \in [Threads -> Calls] /\ Assigning' = Assigning
      BY <1>7, CallReturns DEF QueueReject
    <2> QED BY <1>7, <2>1 DEF QueueReject, queues, worker, history
  <1>8. ASSUME NEW t \in Threads, QueueAppend(t) PROVE TypeOK'
    <2>1. call' \in [Threads -> Calls] /\ Assigning' = Assigning
      BY <1>8, CallReturns DEF QueueAppend
    <2>2. call[t].sn \in SerialNumbers /\ call[t].id \in CommandIDs
      BY <1>8, CallShape DEF QueueAppend
    <2>3. /\ commandQueue' \in [SerialNumbers -> Seq(CommandIDs)]
          /\ accepted' \subseteq [id : CommandIDs, sn : SerialNumbers, by : Threads]
      BY <1>8, <2>2 DEF QueueAppend
    <2> QED BY <1>8, <2>1, <2>3 DEF QueueAppend, worker
  <1>9. ASSUME NEW t \in Threads, Activity(t) PROVE TypeOK'
    <2> DEFINE sn == call[t].sn
    <2>1. sn \in SerialNumbers
      BY <1>9, CallShape DEF Activity
    <2>2. PICK c \in HandlerStarts(sn) : Goto(t, c)
      BY <1>9 DEF Activity
    <2>3. c \in Calls /\ c.at # "assign"
      BY <2>1, HandlerStartsAreCalls
    <2>4. call' \in [Threads -> Calls] /\ Assigning' = Assigning
      BY <1>9, <2>2, <2>3, CallMoves DEF Activity
    <2> QED BY <1>9, <2>1, <2>4 DEF Activity, UpdateDeviceActivity, queues, worker, history
  <1>10. ASSUME NEW t \in Threads, DispatchInfo(t) PROVE TypeOK'
    <2> DEFINE c == [at |-> "drain", sn |-> call[t].sn]
    <2>1. c \in Calls /\ c.at # "assign" /\ call[t].at # "assign"
      BY <1>10, CallShape, CallBuilt DEF DispatchInfo
    <2>2. Goto(t, c) \/ Return(t)
      BY <1>10 DEF DispatchInfo
    <2> HIDE DEF c
    <2>3. call' \in [Threads -> Calls] /\ Assigning' = Assigning
      BY <2>1, <2>2, CallMoves, CallReturns
    <2> QED BY <1>10, <2>3 DEF DispatchInfo, queues, worker, history
  <1>11. ASSUME NEW t \in Threads, Drain(t) PROVE TypeOK'
    <2> DEFINE sn == call[t].sn
               c == [at |-> "write", sn |-> sn, cmds |-> commandQueue[sn]]
    <2>1. sn \in SerialNumbers
      BY <1>11, CallShape DEF Drain
    <2>2. c \in Calls /\ c.at # "assign"
      BY <2>1, CallBuilt
    <2>3. Goto(t, c) /\ call[t].at # "assign"
      BY <1>11 DEF Drain
    <2> HIDE DEF c
    <2>4. call' \in [Threads -> Calls] /\ Assigning' = Assigning
      BY <2>2, <2>3, CallMoves
    <2>5. DrainCommands(sn)
      BY <1>11 DEF Drain
    <2> HIDE DEF sn
    <2>6. /\ DOMAIN pendingCommands' \subseteq CommandIDs
          /\ \A id \in DOMAIN pendingCommands' : pendingCommands'[id] \in SerialNumbers
          /\ commandQueue' \in [SerialNumbers -> Seq(CommandIDs)]
      BY <2>1, <2>5, DrainTypes
    <2>7. sent' \in [SerialNumbers -> Seq(CommandIDs)]
      <3>1. sent[sn] \in Seq(CommandIDs) /\ commandQueue[sn] \in Seq(CommandIDs)
        BY <2>1
      <3>2. sent[sn] \o commandQueue[sn] \in Seq(CommandIDs)
        BY <3>1
      <3>3. sent' = [sent EXCEPT ![sn] = sent[sn] \o commandQueue[sn]]
        BY <1>11 DEF Drain, sn
      <3> QED BY <2>1, <3>2, <3>3
    <2> QED BY <1>11, <2>4, <2>6, <2>7 DEF Drain, worker
  <1>12. ASSUME NEW t \in Threads, WriteCommands(t) PROVE TypeOK'
    <2>1. call' \in [Threads -> Calls] /\ Assigning' = Assigning
      BY <1>12, CallReturns DEF WriteCommands
    <2> QED BY <1>12, <2>1 DEF WriteCommands, queues, worker, history
  <1>13. ASSUME NEW t \in Threads, LookupResult(t) PROVE TypeOK'
    <2> DEFINE found == Head(call[t].results) \in DOMAIN pendingCommands
               early == Undrained(Head(call[t].results))
               c == [at |-> "dispatch", sn |-> call[t].sn, results |-> call[t].results,
                     found |-> found, early |-> early]
    <2>1. call[t].sn \in SerialNumbers /\ call[t].results \in Results
      BY <1>13, CallShape DEF LookupResult
    <2>2. Goto(t, c) /\ call[t].at # "assign"
      BY <1>13 DEF LookupResult
    <2>3. found \in BOOLEAN /\ early \in BOOLEAN
      BY DEF Undrained
    <2> HIDE DEF found, early
    <2>4. c \in Calls /\ c.at # "assign"
      BY <2>1, <2>3, CallBuilt
    <2> HIDE DEF c
    <2>5. call' \in [Threads -> Calls] /\ Assigning' = Assigning
      BY <2>2, <2>4, CallMoves
    <2> QED BY <1>13, <2>5 DEF LookupResult, queues, worker, history
  <1>14. ASSUME NEW t \in Threads, DispatchResult(t) PROVE TypeOK'
    <2> DEFINE c == [at |-> "forget", sn |-> call[t].sn, results |-> call[t].results]
    <2>1. /\ call[t].sn \in SerialNumbers /\ call[t].results \in Results
          /\ call[t].found \in BOOLEAN /\ call[t].early \in BOOLEAN
      BY <1>14, CallShape DEF DispatchResult
    <2>2. c \in Calls /\ c.at # "assign"
      BY <2>1, CallBuilt
    <2>3. Goto(t, c) /\ call[t].at # "assign"
      BY <1>14 DEF DispatchResult
    <2> HIDE DEF c
    <2>4. call' \in [Threads -> Calls] /\ Assigning' = Assigning
      BY <2>2, <2>3, CallMoves
    <2>5. reported' \subseteq [id : CommandIDs, correlated : BOOLEAN, early : BOOLEAN]
      BY <1>14, <2>1, ResultsFacts DEF DispatchResult
    <2> QED BY <1>14, <2>4, <2>5 DEF DispatchResult, queues, worker
  <1>15. ASSUME NEW t \in Threads, DispatchRefused(t) PROVE TypeOK'
    <2>1. call' \in [Threads -> Calls] /\ Assigning' = Assigning
      BY <1>15, CallReturns DEF DispatchRefused
    <2> QED BY <1>15, <2>1 DEF DispatchRefused, queues, worker, history
  <1>16. ASSUME NEW t \in Threads, ForgetResult(t) PROVE TypeOK'
    <2> DEFINE rest == Tail(call[t].results)
               c == IF rest = <<>> THEN Idle
                    ELSE [at |-> "lookup", sn |-> call[t].sn, results |-> rest]
    <2>1. call[t].sn \in SerialNumbers /\ call[t].results \in Results
      BY <1>16, CallShape DEF ForgetResult
    <2>2. c \in Calls /\ c.at # "assign"
      BY <2>1, ResultsFacts, CallBuilt, IdleIsCall
    <2>3. Goto(t, c) /\ call[t].at # "assign"
      BY <1>16 DEF ForgetResult
    <2> HIDE DEF c
    <2>4. call' \in [Threads -> Calls] /\ Assigning' = Assigning
      BY <2>2, <2>3, CallMoves
    <2>5. Head(call[t].results) \in CommandIDs
      BY <2>1, ResultsFacts
    <2> QED BY <1>16, <2>4, <2>5 DEF ForgetResult, worker
  <1>17. CASE EvictDevices
    BY <1>17 DEF EvictDevices, Stale, queues, history, Assigning
  <1>18. CASE EvictCommands
    BY <1>18, RangeFacts DEF EvictCommands, IDsIn, PendingFor, Assigning
  <1>19. CASE UNCHANGED vars
    BY <1>19 DEF vars, Assigning
  <1> QED
    BY <1>1, <1>2, <1>3, <1>4, <1>5, <1>6, <1>7, <1>8, <1>9, <1>10, <1>11, <1>12,
       <1>13, <1>14, <1>15, <1>16, <1>17, <1>18, <1>19 DEF Next, ThreadStep

(* The variables keep the types their declarations give them, and no       *)
(* behaviour needs an ID beyond the bound.                                 *)
THEOREM TypeCorrect == Spec => []TypeOK
  BY TypeInit, TypeNext, PTL DEF Spec

-----------------------------------------------------------------------------
(* The limit on devices. *)

(* Registering a device keeps the registry within its limit. *)
LEMMA RegisterKeepsLimit ==
    ASSUME TypeOK, DeviceLimit, NEW sn \in SerialNumbers, RegisterDevice(sn)
    PROVE  DeviceLimit'
  <1> SUFFICES ASSUME MaxDevices > 0 PROVE Cardinality(Registered') <= MaxDevices
    BY DEF DeviceLimit
  <1>1. IsFiniteSet(Registered) /\ Cardinality(Registered) \in Nat
    BY BoundsAssumption, FS_Subset, FS_CardinalityType DEF BoundsAssumption, Registered
  <1>2. Registered' = Registered \cup {sn}
    BY DEF RegisterDevice, Registered, TypeOK
  <1>3. sn \in Registered \/ Cardinality(Registered) < MaxDevices
    BY BoundsAssumption DEF RegisterDevice, CanRegister, BoundsAssumption
  <1>4. Cardinality(Registered') =
          IF sn \in Registered THEN Cardinality(Registered) ELSE Cardinality(Registered) + 1
    BY <1>1, <1>2, FS_AddElement
  <1> QED BY <1>1, <1>3, <1>4, BoundsAssumption DEF DeviceLimit, BoundsAssumption

(* A step that registers no device keeps the registry within its limit. *)
LEMMA FewerDevices ==
    ASSUME DeviceLimit, Registered' \subseteq Registered
    PROVE  DeviceLimit'
  <1>1. IsFiniteSet(Registered) /\ IsFiniteSet(Registered')
    BY BoundsAssumption, FS_Subset DEF BoundsAssumption, Registered
  <1>2. /\ Cardinality(Registered') <= Cardinality(Registered)
        /\ Cardinality(Registered') \in Nat /\ Cardinality(Registered) \in Nat
    BY <1>1, FS_Subset, FS_CardinalityType
  <1> QED BY <1>2, BoundsAssumption DEF DeviceLimit, BoundsAssumption

(* Every step keeps the registry within its limit: AppRegister and Request  *)
(* test the limit in the critical section that adds the device, no other    *)
(* step adds one.                                                           *)
LEMMA DeviceLimitNext == TypeOK /\ DeviceLimit /\ [Next]_vars => DeviceLimit'
  <1> SUFFICES ASSUME TypeOK, DeviceLimit, [Next]_vars PROVE DeviceLimit'
    OBVIOUS
  <1>1. CASE \E sn \in SerialNumbers : AppRegister(sn)
    BY <1>1, RegisterKeepsLimit DEF AppRegister
  <1>2. CASE \E t \in Threads, sn \in SerialNumbers : Request(t, sn)
    BY <1>2, RegisterKeepsLimit DEF Request
  <1>3. CASE \E sn \in SerialNumbers : Age(sn)
    <2>1. Registered' = Registered
      BY <1>3 DEF Age, Registered, TypeOK
    <2> QED BY <2>1, FewerDevices
  <1>4. CASE \E t \in Threads : Activity(t)
    <2>1. Registered' = Registered
      BY <1>4 DEF Activity, UpdateDeviceActivity, Registered, TypeOK
    <2> QED BY <2>1, FewerDevices
  <1>5. CASE EvictDevices
    <2>1. Registered' \subseteq Registered
      BY <1>5 DEF EvictDevices, Registered, Stale, TypeOK
    <2> QED BY <2>1, FewerDevices
  <1>6. CASE UNCHANGED devices
    <2>1. Registered' = Registered
      BY <1>6 DEF Registered
    <2> QED BY <2>1, FewerDevices
  <1>7. \/ \E sn \in SerialNumbers : AppRegister(sn)
        \/ \E t \in Threads, sn \in SerialNumbers : Request(t, sn)
        \/ \E sn \in SerialNumbers : Age(sn)
        \/ \E t \in Threads : Activity(t)
        \/ EvictDevices
        \/ UNCHANGED devices
    BY DEF Next, ThreadStep, AppDrain, QueueCheck, QueueAssign, QueueReject, QueueAppend,
           DispatchInfo, Drain, WriteCommands, LookupResult, DispatchResult,
           DispatchRefused, ForgetResult, EvictCommands, vars
  <1> QED BY <1>1, <1>2, <1>3, <1>4, <1>5, <1>6, <1>7

(* WithMaxDevices: requests, calls and evictions of any number of goroutines *)
(* never put more devices in the registry than it may hold.                  *)
THEOREM DeviceLimitHolds == Spec => []DeviceLimit
  <1>1. Init => DeviceLimit
    <2>1. Init => Registered = {}
      BY DEF Init, Registered
    <2> QED BY <2>1, FS_EmptySet, BoundsAssumption DEF DeviceLimit, BoundsAssumption
  <1> QED BY <1>1, DeviceLimitNext, TypeCorrect, PTL DEF Spec

-----------------------------------------------------------------------------
(* The limit on the commands of a device. *)

(* What AtLimit compares with the limit. *)
Load(sn) == Len(commandQueue[sn]) + Cardinality(PendingFor(sn))

(* A sequence has at most as many elements as positions. *)
LEMMA RangeBound ==
    ASSUME NEW S, NEW s \in Seq(S)
    PROVE  /\ IsFiniteSet(Range(s))
           /\ Cardinality(Range(s)) \in Nat
           /\ Cardinality(Range(s)) <= Len(s)
  <1>1. Len(s) \in Nat /\ IsFiniteSet(1..Len(s)) /\ Cardinality(1..Len(s)) = Len(s)
    <2>1. Len(s) \in Nat
      OBVIOUS
    <2> QED BY <2>1, FS_Interval
  <1>2. s \in Surjection(1..Len(s), Range(s))
    BY DEF Surjection, Range
  <1>3. IsFiniteSet(Range(s)) /\ Cardinality(Range(s)) <= Len(s)
    BY <1>1, <1>2, FS_Surjection
  <1> QED BY <1>3, FS_CardinalityType

(* The pending commands of a device are finitely many, now and after a step. *)
LEMMA PendingFinite ==
    ASSUME DOMAIN pendingCommands \subseteq CommandIDs, NEW sn
    PROVE  IsFiniteSet(PendingFor(sn)) /\ Cardinality(PendingFor(sn)) \in Nat
  <1>1. IsFiniteSet(CommandIDs)
    BY BoundsAssumption, FS_Interval DEF BoundsAssumption, CommandIDs
  <1>2. PendingFor(sn) \in SUBSET CommandIDs
    BY DEF PendingFor
  <1> QED BY <1>1, <1>2, FS_Subset, FS_CardinalityType

(* Draining a queue moves its commands from one count to the other. *)
LEMMA DrainKeepsLoad ==
    ASSUME TypeOK, NEW sn \in SerialNumbers, DrainCommands(sn), NEW s \in SerialNumbers
    PROVE  Load(s)' <= Load(s) /\ Load(s) \in Nat /\ Load(s)' \in Nat
  <1> DEFINE moved == IDsIn(commandQueue[sn])
  <1>1. /\ IsFiniteSet(PendingFor(s)) /\ Cardinality(PendingFor(s)) \in Nat
        /\ Len(commandQueue[s]) \in Nat
    BY PendingFinite DEF TypeOK
  <1>2. /\ IsFiniteSet(moved) /\ Cardinality(moved) \in Nat
        /\ Cardinality(moved) <= Len(commandQueue[sn])
    BY RangeBound DEF TypeOK, IDsIn
  <1>3. CASE s = sn
    <2>1. PendingFor(s)' = PendingFor(s) \cup moved /\ Len(commandQueue'[s]) = 0
      BY <1>3 DEF DrainCommands, PendingFor, TypeOK
    <2> HIDE DEF moved
    <2>2. /\ Cardinality(PendingFor(s)') = Cardinality(PendingFor(s)) + Cardinality(moved)
                                            - Cardinality(PendingFor(s) \cap moved)
          /\ Cardinality(PendingFor(s) \cap moved) \in Nat
          /\ Cardinality(PendingFor(s)') \in Nat
      BY <1>1, <1>2, <2>1, FS_Union, FS_Intersection, FS_CardinalityType
    <2> QED BY <1>1, <1>2, <1>3, <2>1, <2>2 DEF Load
  <1>4. CASE s # sn
    <2>1. PendingFor(s)' \subseteq PendingFor(s) /\ commandQueue'[s] = commandQueue[s]
      BY <1>4 DEF DrainCommands, PendingFor, TypeOK
    <2>2. /\ Cardinality(PendingFor(s)') <= Cardinality(PendingFor(s))
          /\ Cardinality(PendingFor(s)') \in Nat
      BY <1>1, <2>1, FS_Subset, FS_CardinalityType
    <2> QED BY <1>1, <2>1, <2>2 DEF Load
  <1> QED BY <1>3, <1>4

(* A step that queues nothing, and makes nothing pending, adds no load. *)
LEMMA LoadShrinks ==
    ASSUME TypeOK, NEW s \in SerialNumbers,
           PendingFor(s)' \subseteq PendingFor(s),
           commandQueue'[s] \in {commandQueue[s], <<>>}
    PROVE  Load(s)' <= Load(s) /\ Load(s) \in Nat /\ Load(s)' \in Nat
  <1>1. IsFiniteSet(PendingFor(s)) /\ Cardinality(PendingFor(s)) \in Nat
    BY PendingFinite DEF TypeOK
  <1>2. /\ Cardinality(PendingFor(s)') <= Cardinality(PendingFor(s))
        /\ Cardinality(PendingFor(s)') \in Nat
    BY <1>1, FS_Subset, FS_CardinalityType
  <1>3. Len(commandQueue[s]) \in Nat /\ Len(<<>>) = 0
    BY DEF TypeOK
  <1> QED BY <1>1, <1>2, <1>3 DEF Load

(* Every step keeps every device within its limit. *)
LEMMA CommandLimitNext == TypeOK /\ CommandLimit /\ [Next]_vars => CommandLimit'
  <1> SUFFICES ASSUME TypeOK, CommandLimit, [Next]_vars,
                      MaxCommandsPerDevice > 0, NEW s \in SerialNumbers
               PROVE  Load(s)' <= MaxCommandsPerDevice
    BY DEF CommandLimit, Load
  <1>1. Load(s) <= MaxCommandsPerDevice /\ MaxCommandsPerDevice \in Nat
    BY BoundsAssumption DEF CommandLimit, Load, BoundsAssumption
  <1>2. CASE \E sn \in SerialNumbers : DrainCommands(sn)
    BY <1>1, <1>2, DrainKeepsLoad
  <1>3. ASSUME NEW t \in Threads, QueueAppend(t)
        PROVE  Load(s)' <= MaxCommandsPerDevice
    <2>1. PICK sn \in SerialNumbers, id \in CommandIDs :
            sn = call[t].sn /\ id = call[t].id
      BY <1>3, CallShape DEF QueueAppend, TypeOK
    <2>2. /\ PendingFor(s)' = PendingFor(s)
          /\ commandQueue' = [commandQueue EXCEPT ![sn] = Append(@, id)]
      BY <1>3, <2>1 DEF QueueAppend, PendingFor
    <2>3. Load(sn) < MaxCommandsPerDevice /\ Load(sn) \in Nat
      <3>1. Load(sn) \in Nat
        BY <2>1, PendingFinite DEF Load, TypeOK
      <3>2. ~AtLimit(sn)
        BY <1>3, <2>1 DEF QueueAppend
      <3> QED BY <1>1, <3>1, <3>2 DEF AtLimit, Load
    <2>4. CASE s = sn
      <3>1. Len(commandQueue'[s]) = Len(commandQueue[s]) + 1 /\ Len(commandQueue[s]) \in Nat
        BY <2>1, <2>2, <2>4 DEF TypeOK
      <3>2. Cardinality(PendingFor(s)) \in Nat
        BY PendingFinite DEF TypeOK
      <3>3. Load(s)' = Load(s) + 1
        BY <2>2, <3>1, <3>2 DEF Load
      <3> QED BY <1>1, <2>3, <2>4, <3>3
    <2>5. CASE s # sn
      <3>1. commandQueue'[s] = commandQueue[s]
        BY <2>1, <2>2, <2>5 DEF TypeOK
      <3> QED BY <1>1, <2>2, <3>1 DEF Load
    <2> QED BY <2>4, <2>5
  <1>4. CASE /\ PendingFor(s)' \subseteq PendingFor(s)
             /\ commandQueue'[s] \in {commandQueue[s], <<>>}
    BY <1>1, <1>4, LoadShrinks
  <1>5. \/ \E sn \in SerialNumbers : DrainCommands(sn)
        \/ \E t \in Threads : QueueAppend(t)
        \/ UNCHANGED <<commandQueue, pendingCommands>>
        \/ \E t \in Threads : ForgetResult(t)
        \/ EvictCommands
    <2>1. ASSUME NEW t \in Threads, Drain(t) PROVE \E sn \in SerialNumbers : DrainCommands(sn)
      BY <2>1, CallShape DEF Drain, TypeOK
    <2> QED
      BY <2>1 DEF Next, ThreadStep, AppRegister, Age, AppDrain, QueueCheck, Request,
         QueueAssign, QueueReject, Activity, DispatchInfo, WriteCommands, LookupResult,
         DispatchResult, DispatchRefused, EvictDevices, queues, vars
  <1>6. CASE UNCHANGED <<commandQueue, pendingCommands>>
    BY <1>4, <1>6 DEF PendingFor
  <1>7. CASE \E t \in Threads : ForgetResult(t)
    BY <1>4, <1>7 DEF ForgetResult, PendingFor
  <1>8. CASE EvictCommands
    BY <1>4, <1>8 DEF EvictCommands, PendingFor
  <1> QED BY <1>2, <1>3, <1>5, <1>6, <1>7, <1>8

(* WithMaxCommandsPerDevice: the limit is tested in the critical section that *)
(* appends, so no interleaving of callers, drains and confirmations exceeds   *)
(* it.                                                                        *)
THEOREM CommandLimitHolds == Spec => []CommandLimit
  <1>1. Init => CommandLimit
    <2> SUFFICES ASSUME Init, NEW sn \in SerialNumbers
                 PROVE  Len(commandQueue[sn]) + Cardinality(PendingFor(sn)) = 0
      BY BoundsAssumption DEF CommandLimit, BoundsAssumption
    <2>1. PendingFor(sn) = {} /\ commandQueue[sn] = <<>>
      BY DEF Init, PendingFor
    <2> QED BY <2>1, FS_EmptySet
  <1> QED BY <1>1, CommandLimitNext, TypeCorrect, PTL DEF Spec

===============================================================================
