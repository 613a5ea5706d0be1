------------------------------ MODULE ProbeProofs -----------------------------
(***************************************************************************)
(* Theorems about a run of cmd/probe, for any number of candidates, any    *)
(* limit of the queue, any IDs of earlier runs, and any number of          *)
(* confirmations in any order.                                             *)
(***************************************************************************)
EXTENDS Probe, FiniteSetTheorems, TLAPS

-----------------------------------------------------------------------------
(* Types. *)

ResultRecords == [id : Nat, of : 0..Candidates, orderly : BOOLEAN, cmd : 0..Candidates]
Callbacks     == [id : Nat, of : 0..Candidates, orderly : BOOLEAN]
Summaries     == [results : Seq(ResultRecords), queued : Seq(1..Candidates), replied : Nat]

ProberStates ==
    [at : {"waiting", "check", "queue", "watch", "snapshot", "done"}]
    \cup [at : {"record"}, id : Nat]
    \cup [at : {"print"}, summary : Summaries]

(* What the goroutine remembers, by where it is. *)
LEMMA ProberShape ==
    ASSUME NEW p \in ProberStates
    PROVE  /\ p.at \in {"waiting", "check", "queue", "record", "watch",
                        "snapshot", "print", "done"}
           /\ p.at = "record" => p.id \in Nat
           /\ p.at = "print" => p.summary \in Summaries
  BY DEF ProberStates

LEMMA ProberBuilt ==
    /\ \A a \in {"waiting", "check", "queue", "watch", "snapshot", "done"} :
         [at |-> a] \in ProberStates /\ [at |-> a].at = a
    /\ \A n \in Nat : /\ [at |-> "record", id |-> n] \in ProberStates
                      /\ [at |-> "record", id |-> n].at = "record"
                      /\ [at |-> "record", id |-> n].id = n
    /\ \A s \in Summaries : /\ [at |-> "print", summary |-> s] \in ProberStates
                            /\ [at |-> "print", summary |-> s].at = "print"
                            /\ [at |-> "print", summary |-> s].summary = s
  BY DEF ProberStates

(* The ID the goroutine was given and has not put into idMap yet.          *)
Recording == IF prober.at = "record" THEN {prober.id} ELSE {}

(* IDs are given out in order, to one candidate each, and all of them but   *)
(* the newest are in idMap.                                                 *)
Registered ==
    /\ cmdID \in Nat
    /\ DOMAIN issued \subseteq 1..cmdID
    /\ \A id \in DOMAIN issued : issued[id] \in 1..Candidates
    /\ DOMAIN issued = DOMAIN idMap \cup Recording
    /\ Recording \cap DOMAIN idMap = {}
    /\ \A id \in DOMAIN idMap : idMap[id] = issued[id]
    /\ prober.at = "record" => prober.id = cmdID /\ issued[cmdID] = next
    /\ Len(queued) = Cardinality(DOMAIN idMap)

ProberTyped ==
    /\ prober \in ProberStates
    /\ next \in 1..Candidates + 1
    /\ prober.at \in {"queue", "record"} => next \in 1..Candidates

LogsTyped ==
    /\ results \in Seq(ResultRecords) /\ replied = Len(results)
    /\ queued \in Seq(1..Candidates)
    /\ callbacks \in Seq(Callbacks)
    /\ confirms \in Seq(Nat)
    /\ last \in Seq(Summaries) /\ summaries \in Seq(Summaries)

(* What the device was given and what waits for it. *)
DeviceTyped ==
    /\ waiting \cap held = {} /\ pending \subseteq held
    /\ held \cup waiting = DOMAIN issued

Typed == ProberTyped /\ LogsTyped /\ Registered /\ DeviceTyped

(* ProberTyped is inductive, given the logs.                               *)
LEMMA ProberTypedNext ==
    LogsTyped /\ cmdID \in Nat /\ ProberTyped /\ [Next]_vars => ProberTyped'
  <1> SUFFICES ASSUME LogsTyped, cmdID \in Nat, ProberTyped, [Next]_vars PROVE ProberTyped'
    OBVIOUS
  <1> USE ProbeAssumption DEF ProbeAssumption
  <1>0. Snapshot \in Summaries
    BY DEF Snapshot, Summaries, LogsTyped
  <1>1. CASE NextCandidate
    BY <1>1, ProberBuilt DEF NextCandidate, Prober, ProberTyped
  <1>2. CASE Queue
    BY <1>2, ProberBuilt DEF Queue, Prober, ProberTyped
  <1>3. CASE Record
    BY <1>3, ProberBuilt DEF Record, Prober, ProberTyped
  <1>4. CASE DeviceOnline \/ AllQueued \/ Tick \/ WatchTimeout \/ ProberPrints \/ ProberStops
    BY <1>4, ProberBuilt DEF DeviceOnline, AllQueued, Tick, WatchTimeout, ProberPrints,
       ProberStops, Prober, ProberTyped
  <1>5. CASE ProberSnapshot
    BY <1>0, <1>5, ProberBuilt DEF ProberSnapshot, Prober, ProberTyped
  <1>6. CASE UNCHANGED <<prober, next>>
    BY <1>6 DEF ProberTyped
  <1>7. CASE MainStep \/ ListenFails \/ Silent \/ Poll \/ DeviceConfirms \/ Callback \/ CtrlC
    BY <1>6, <1>7 DEF MainStep, StopServing, MainSnapshot, MainPrints, Close, Exit,
       ListenFails, Silent, Poll, DeviceConfirms, Confirm, Callback, CtrlC
  <1> QED BY <1>1, <1>2, <1>3, <1>4, <1>5, <1>6, <1>7 DEF Next, ProberStep, vars

(* A result is taken for a candidate or for none.                          *)
LEMMA AttributedTyped ==
    ASSUME Typed, NEW id
    PROVE  Attributed(id) \in 0..Candidates
  <1> USE ProbeAssumption DEF ProbeAssumption
  <1>1. CASE id \in DOMAIN idMap
    BY <1>1 DEF Attributed, Typed, Registered
  <1>2. CASE id \notin DOMAIN idMap /\ replied < Len(queued)
    <2>1. replied + 1 \in 1..Len(queued)
      BY <1>2 DEF Typed, LogsTyped
    <2> QED BY <1>2, <2>1 DEF Attributed, Typed, LogsTyped
  <1>3. CASE id \notin DOMAIN idMap /\ ~(replied < Len(queued))
    BY <1>3 DEF Attributed
  <1> QED BY <1>1, <1>2, <1>3

(* What HandleDeviceCmd accepts.                                           *)
LEMMA ConfirmSteps ==
    ASSUME Typed, DeviceConfirms
    PROVE  \E id \in Nat, of \in 0..Candidates :
             /\ Confirm(id, of)
             /\ of # 0 => id \in DOMAIN issued /\ of = issued[id]
  <1>1. ASSUME NEW id \in held, Confirm(id, issued[id])
        PROVE  id \in Nat /\ issued[id] \in 0..Candidates /\ id \in DOMAIN issued
    BY <1>1, ProbeAssumption DEF Typed, DeviceTyped, Registered, ProbeAssumption
  <1>2. ASSUME NEW id \in StaleIDs, Confirm(id, 0)
        PROVE  id \in Nat /\ 0 \in 0..Candidates
    BY <1>2, ProbeAssumption DEF ProbeAssumption
  <1> QED BY <1>1, <1>2 DEF DeviceConfirms

(* A callback takes the oldest result.                                     *)
LEMMA CallbackTakes ==
    ASSUME Typed, Callback
    PROVE  /\ Head(callbacks) \in Callbacks /\ callbacks # <<>>
           /\ Tail(callbacks) \in Seq(Callbacks)
           /\ Result(Head(callbacks)) \in ResultRecords
           /\ Result(Head(callbacks)).id = Head(callbacks).id
           /\ Result(Head(callbacks)).of = Head(callbacks).of
           /\ Result(Head(callbacks)).orderly = Head(callbacks).orderly
           /\ Result(Head(callbacks)).cmd = Attributed(Head(callbacks).id)
  <1>1. callbacks # <<>> /\ callbacks \in Seq(Callbacks)
    BY DEF Callback, Typed, LogsTyped
  <1>2. Head(callbacks) \in Callbacks /\ Tail(callbacks) \in Seq(Callbacks)
    BY <1>1
  <1>3. Attributed(Head(callbacks).id) \in 0..Candidates
    BY AttributedTyped
  <1> QED BY <1>1, <1>2, <1>3 DEF Result, Callbacks, ResultRecords

(* LogsTyped is inductive, given the rest of Typed.                        *)
LEMMA LogsTypedNext == Typed /\ [Next]_vars => LogsTyped'
  <1> SUFFICES ASSUME Typed, [Next]_vars PROVE LogsTyped'
    OBVIOUS
  <1>0. LogsTyped
    BY DEF Typed
  <1>1. CASE Record
    <2>1. next \in 1..Candidates
      BY <1>1 DEF Record, Prober, Typed, ProberTyped
    <2> QED BY <1>0, <1>1, <2>1 DEF Record, server, ending, LogsTyped
  <1>2. CASE ProberPrints
    <2>1. prober.summary \in Summaries
      BY <1>2, ProberShape DEF ProberPrints, Prober, Typed, ProberTyped
    <2> QED BY <1>0, <1>2, <2>1 DEF ProberPrints, shared, server, LogsTyped
  <1>3. CASE DeviceConfirms
    <2>1. PICK id \in Nat, of \in 0..Candidates : Confirm(id, of)
      BY <1>3, ConfirmSteps
    <2> DEFINE log == Append(confirms, IF of = 0 THEN 0 ELSE id)
    <2>2. /\ confirms' = log
          /\ callbacks' = Append(callbacks, [id |-> id, of |-> of, orderly |-> Orderly(log)])
          /\ UNCHANGED <<shared, ending>>
      BY <2>1 DEF Confirm
    <2>3. log \in Seq(Nat)
      BY <1>0 DEF LogsTyped
    <2>4. [id |-> id, of |-> of, orderly |-> Orderly(log)] \in Callbacks
      BY DEF Callbacks, Orderly
    <2> HIDE DEF log
    <2> QED BY <1>0, <2>2, <2>3, <2>4 DEF shared, ending, LogsTyped
  <1>4. CASE Callback
    <2>1. /\ results' = Append(results, Result(Head(callbacks)))
          /\ replied' = replied + 1 /\ callbacks' = Tail(callbacks)
          /\ UNCHANGED <<queued, ending, confirms>>
      BY <1>4 DEF Callback
    <2> QED BY <1>0, <1>4, <2>1, CallbackTakes DEF ending, LogsTyped
  <1>5. CASE MainSnapshot
    <2>1. Snapshot \in Summaries
      BY <1>0 DEF Snapshot, Summaries, LogsTyped
    <2> QED BY <1>0, <1>5, <2>1 DEF MainSnapshot, shared, server, LogsTyped
  <1>6. CASE MainPrints
    BY <1>0, <1>6 DEF MainPrints, shared, server, LogsTyped
  <1>7. CASE UNCHANGED <<shared, callbacks, confirms, last, summaries>>
    BY <1>0, <1>7 DEF shared, LogsTyped
  <1>8. CASE \/ DeviceOnline \/ ProberStops \/ NextCandidate \/ Queue \/ AllQueued \/ Tick
             \/ ProberSnapshot \/ WatchTimeout \/ StopServing \/ Close \/ Exit \/ ListenFails
             \/ Silent \/ Poll \/ CtrlC
    BY <1>7, <1>8 DEF DeviceOnline, ProberStops, NextCandidate, Queue, AllQueued, Tick,
       ProberSnapshot, WatchTimeout, StopServing, Close, Exit, ListenFails, Silent, Poll,
       CtrlC, server, ending
  <1> QED BY <1>1, <1>2, <1>3, <1>4, <1>5, <1>6, <1>7, <1>8
          DEF Next, ProberStep, MainStep, vars, server, ending

(* Finite sets of IDs. *)
LEMMA IssuedFinite ==
    ASSUME Registered
    PROVE  /\ IsFiniteSet(DOMAIN issued) /\ IsFiniteSet(DOMAIN idMap)
           /\ \A S \in SUBSET DOMAIN issued : IsFiniteSet(S) /\ Cardinality(S) \in Nat
  <1>1. IsFiniteSet(1..cmdID)
    BY FS_Interval DEF Registered
  <1>2. IsFiniteSet(DOMAIN issued)
    BY <1>1, FS_Subset DEF Registered
  <1>3. DOMAIN idMap \subseteq DOMAIN issued
    BY DEF Registered
  <1> QED BY <1>2, <1>3, FS_Subset, FS_CardinalityType

(* Registered is inductive, given the rest of Typed.                       *)
LEMMA RegisteredNext == Typed /\ [Next]_vars => Registered'
  <1> SUFFICES ASSUME Typed, [Next]_vars PROVE Registered'
    OBVIOUS
  <1>0. Registered /\ ProberTyped
    BY DEF Typed
  <1>1. CASE Queue
    <2>0. /\ prober.at = "queue" /\ next \in 1..Candidates /\ cmdID' = cmdID + 1
          /\ UNCHANGED <<idMap, queued>>
      BY <1>0, <1>1 DEF Queue, Prober, ProberTyped, shared
    <2>1. DOMAIN issued = DOMAIN idMap /\ cmdID \in Nat /\ cmdID + 1 \notin DOMAIN issued
      BY <1>0, <2>0 DEF Registered, Recording
    <2>2. CASE UNCHANGED issued /\ prober' = [at |-> "check"]
      BY <1>0, <2>0, <2>1, <2>2 DEF Registered, Recording
    <2>3. CASE /\ prober' = [at |-> "record", id |-> cmdID + 1] /\ UNCHANGED next
               /\ issued' = [id \in DOMAIN issued \cup {cmdID + 1} |->
                               IF id = cmdID + 1 THEN next ELSE issued[id]]
      <3>1. /\ prober'.at = "record" /\ prober'.id = cmdID + 1
            /\ DOMAIN issued' = DOMAIN issued \cup {cmdID + 1}
            /\ issued'[cmdID + 1] = next
            /\ \A id \in DOMAIN issued : issued'[id] = issued[id]
        BY <2>1, <2>3
      <3> QED BY <1>0, <2>0, <2>1, <2>3, <3>1 DEF Registered, Recording
    <2> QED BY <1>1, <2>2, <2>3 DEF Queue, Prober
  <1>2. CASE Record
    <2>1. /\ prober.at = "record" /\ prober'.at = "check"
          /\ queued' = Append(queued, next)
          /\ idMap' = [id \in DOMAIN idMap \cup {prober.id} |->
                         IF id = prober.id THEN next ELSE idMap[id]]
          /\ UNCHANGED <<issued, cmdID>>
      BY <1>2 DEF Record, Prober, server
    <2>2. prober.id = cmdID /\ issued[cmdID] = next /\ cmdID \notin DOMAIN idMap
      BY <1>0, <2>1 DEF Registered, Recording
    <2>3. Len(queued') = Len(queued) + 1
      BY <2>1 DEF Typed, LogsTyped
    <2>4. Cardinality(DOMAIN idMap') = Cardinality(DOMAIN idMap) + 1
      BY <1>0, <2>1, <2>2, IssuedFinite, FS_AddElement
    <2> QED BY <1>0, <2>1, <2>2, <2>3, <2>4 DEF Registered, Recording
  <1>3. CASE /\ UNCHANGED <<cmdID, issued, idMap, queued>>
             /\ UNCHANGED <<prober, next>> \/ (prober.at # "record" /\ prober'.at # "record")
    BY <1>0, <1>3 DEF Registered, Recording
  <1>4. CASE DeviceOnline \/ NextCandidate \/ AllQueued \/ Tick \/ WatchTimeout
             \/ ProberSnapshot \/ ProberPrints \/ ProberStops
    <2>1. prober.at # "record" /\ prober'.at # "record"
      BY <1>4 DEF DeviceOnline, NextCandidate, AllQueued, Tick, WatchTimeout,
         ProberSnapshot, ProberPrints, ProberStops, Prober
    <2>2. UNCHANGED <<shared, server>>
      BY <1>4 DEF DeviceOnline, NextCandidate, AllQueued, Tick, WatchTimeout,
         ProberSnapshot, ProberPrints, ProberStops
    <2> QED BY <1>3, <2>1, <2>2 DEF shared, server
  <1>5. CASE MainStep \/ ListenFails \/ Silent \/ Poll \/ DeviceConfirms \/ Callback \/ CtrlC
    BY <1>3, <1>5 DEF MainStep, StopServing, MainSnapshot, MainPrints, Close, Exit,
       ListenFails, Silent, Poll, DeviceConfirms, Confirm, Callback, CtrlC, shared, server
  <1>6. CASE UNCHANGED vars
    BY <1>3, <1>6 DEF vars, shared, server
  <1> QED BY <1>1, <1>2, <1>4, <1>5, <1>6 DEF Next, ProberStep

(* DeviceTyped is inductive, given the rest of Typed.                      *)
LEMMA DeviceTypedNext == Typed /\ [Next]_vars => DeviceTyped'
  <1> SUFFICES ASSUME Typed, [Next]_vars PROVE DeviceTyped'
    OBVIOUS
  <1>0. DeviceTyped /\ Registered
    BY DEF Typed
  <1>1. CASE Queue
    <2>1. cmdID + 1 \notin DOMAIN issued
      BY <1>0 DEF Registered
    <2> QED BY <1>0, <1>1, <2>1 DEF Queue, Prober, DeviceTyped
  <1>2. CASE Poll
    BY <1>0, <1>2 DEF Poll, DeviceTyped
  <1>3. CASE DeviceConfirms
    BY <1>0, <1>3 DEF DeviceConfirms, Confirm, DeviceTyped
  <1>4. CASE UNCHANGED <<waiting, held, pending, issued>>
    BY <1>0, <1>4 DEF DeviceTyped
  <1>5. CASE Record \/ DeviceOnline \/ NextCandidate \/ AllQueued \/ Tick \/ WatchTimeout
             \/ ProberSnapshot \/ ProberPrints \/ ProberStops
    BY <1>4, <1>5 DEF Record, DeviceOnline, NextCandidate, AllQueued, Tick, WatchTimeout,
       ProberSnapshot, ProberPrints, ProberStops, server
  <1>6. CASE MainStep \/ ListenFails \/ Silent \/ Callback \/ CtrlC
    BY <1>4, <1>6 DEF MainStep, StopServing, MainSnapshot, MainPrints, Close, Exit,
       ListenFails, Silent, Callback, CtrlC, server
  <1>7. CASE UNCHANGED vars
    BY <1>4, <1>7 DEF vars, server
  <1> QED BY <1>1, <1>2, <1>3, <1>5, <1>6, <1>7 DEF Next, ProberStep

(* Typed holds in every behaviour.                                         *)
LEMMA TypedHolds == Spec => []Typed
  <1>1. Init => Typed
    <2> SUFFICES ASSUME Init PROVE Typed
      OBVIOUS
    <2> USE ProbeAssumption DEF ProbeAssumption, Init
    <2>1. ProberTyped
      BY ProberBuilt DEF ProberTyped
    <2>2. LogsTyped
      BY DEF LogsTyped
    <2>3. Registered
      BY FS_EmptySet DEF Registered, Recording
    <2>4. DeviceTyped
      BY DEF DeviceTyped
    <2> QED BY <2>1, <2>2, <2>3, <2>4 DEF Typed
  <1>2. Typed /\ [Next]_vars => Typed'
    <2>1. Typed => LogsTyped /\ cmdID \in Nat /\ ProberTyped
      BY DEF Typed, Registered
    <2> QED BY <2>1, ProberTypedNext, LogsTypedNext, RegisteredNext, DeviceTypedNext DEF Typed
  <1> QED BY <1>1, <1>2, PTL DEF Spec

(* Every result is counted, every queued candidate has one ID, and what was *)
(* given an ID is waiting on the server or was received by the device.      *)
THEOREM ProbeTyped == Spec => []TypeOK
  <1>1. Typed => TypeOK
    <2> SUFFICES ASSUME Typed PROVE TypeOK
      OBVIOUS
    <2>1. DOMAIN idMap \subseteq DOMAIN issued /\ DOMAIN issued \subseteq 1..cmdID
      BY DEF Typed, Registered
    <2>2. prober.at \in {"waiting", "check", "queue", "record", "watch",
                         "snapshot", "print", "done"}
      BY ProberShape DEF Typed, ProberTyped
    <2> QED BY <2>1, <2>2 DEF Typed, LogsTyped, Registered, ProberTyped, DeviceTyped, TypeOK
  <1> QED BY <1>1, TypedHolds, PTL

-----------------------------------------------------------------------------
(* Which candidate a result is of. *)

(* The i-th result the server accepted, called back or not yet.            *)
Confirmed(i) == IF i <= Len(results) THEN results[i] ELSE callbacks[i - Len(results)]

(* The place of an ID among those given to a candidate.                    *)
Below(id) == {x \in DOMAIN issued : x < id}
Rank(id)  == Cardinality(Below(id)) + 1

(* The results are the confirmations, in their order; one that is not of an *)
(* earlier run is of the candidate its ID stands for; and the i-th          *)
(* confirmation of an orderly device is of the i-th ID.                     *)
Matches(r, i) ==
    /\ confirms[i] = IF r.of = 0 THEN 0 ELSE r.id
    /\ r.of # 0 => r.id \in DOMAIN issued /\ r.of = issued[r.id]
    /\ r.orderly => r.of # 0 /\ Rank(r.id) = i

Matched ==
    /\ Len(confirms) = Len(results) + Len(callbacks)
    /\ \A i \in 1..Len(confirms) : Matches(Confirmed(i), i)

(* queued has the candidates in the order of their IDs, and each once.     *)
InOrder ==
    /\ \A id \in DOMAIN idMap : Rank(id) <= Len(queued) /\ queued[Rank(id)] = idMap[id]
    /\ \A i, j \in 1..Len(queued) : i < j => queued[i] < queued[j]
    /\ \A i \in 1..Len(queued) : queued[i] < next

(* An ID that is given out next has all others below it.                   *)
LEMMA RankFacts ==
    ASSUME Registered
    PROVE  /\ \A id \in Nat : Rank(id) \in Nat \ {0}
           /\ \A id \in DOMAIN issued \ DOMAIN idMap : Rank(id) = Len(queued) + 1
  <1>1. \A id \in Nat : Below(id) \in SUBSET DOMAIN issued
    BY DEF Below
  <1>2. ASSUME NEW id \in Nat PROVE Rank(id) \in Nat \ {0}
    BY <1>1, <1>2, IssuedFinite DEF Rank
  <1>3. ASSUME NEW id \in DOMAIN issued \ DOMAIN idMap PROVE Below(id) = DOMAIN idMap
    BY <1>3 DEF Registered, Recording, Below
  <1>4. ASSUME NEW id \in DOMAIN issued \ DOMAIN idMap PROVE Rank(id) = Len(queued) + 1
    BY <1>3, <1>4 DEF Registered, Rank
  <1> QED BY <1>2, <1>4

(* What a step does to the IDs, and to the places of those given out.      *)
LEMMA IDSteps ==
    ASSUME Typed, [Next]_vars
    PROVE  /\ UNCHANGED issued \/ Queue
           /\ UNCHANGED <<idMap, queued>> \/ Record
           /\ \A id \in DOMAIN issued : /\ id \in DOMAIN issued' /\ issued'[id] = issued[id]
                                        /\ Rank(id)' = Rank(id)
  <1>0. Registered
    BY DEF Typed
  <1>1. UNCHANGED issued \/ Queue
    BY DEF Next, ProberStep, Record, DeviceOnline, NextCandidate, AllQueued, Tick, WatchTimeout,
       ProberSnapshot, ProberPrints, ProberStops, MainStep, StopServing, MainSnapshot,
       MainPrints, Close, Exit, ListenFails, Silent, Poll, DeviceConfirms, Confirm,
       Callback, CtrlC, server, vars
  <1>2. UNCHANGED <<idMap, queued>> \/ Record
    BY DEF Next, ProberStep, Queue, DeviceOnline, NextCandidate, AllQueued, Tick, WatchTimeout,
       ProberSnapshot, ProberPrints, ProberStops, MainStep, StopServing, MainSnapshot,
       MainPrints, Close, Exit, ListenFails, Silent, Poll, DeviceConfirms, Confirm,
       Callback, CtrlC, shared, vars
  <1>3. ASSUME NEW id \in DOMAIN issued
        PROVE  /\ id \in DOMAIN issued' /\ issued'[id] = issued[id]
               /\ Below(id)' = Below(id)
    <2>1. CASE UNCHANGED issued
      BY <1>3, <2>1 DEF Below
    <2>2. CASE /\ issued' = [x \in DOMAIN issued \cup {cmdID + 1} |->
                               IF x = cmdID + 1 THEN next ELSE issued[x]]
      <3>1. id < cmdID + 1 /\ id # cmdID + 1 /\ ~(cmdID + 1 < id)
        BY <1>0, <1>3 DEF Registered
      <3>2. DOMAIN issued' = DOMAIN issued \cup {cmdID + 1}
        BY <2>2
      <3> QED BY <1>3, <2>2, <3>1, <3>2 DEF Below
    <2> QED BY <1>1, <2>1, <2>2 DEF Queue
  <1> QED BY <1>1, <1>2, <1>3 DEF Rank

(* InOrder is inductive.                                                   *)
LEMMA InOrderNext == Typed /\ InOrder /\ [Next]_vars => InOrder'
  <1> SUFFICES ASSUME Typed, InOrder, [Next]_vars PROVE InOrder'
    OBVIOUS
  <1>0. /\ Registered /\ queued \in Seq(1..Candidates) /\ next \in Nat
        /\ DOMAIN idMap \subseteq DOMAIN issued
        /\ \A i \in 1..Len(queued) : queued[i] \in Nat
    BY ProbeAssumption DEF Typed, LogsTyped, ProberTyped, Registered, ProbeAssumption
  <1>1. CASE Record
    <2>1. /\ prober.at = "record" /\ queued' = Append(queued, next) /\ next' = next + 1
          /\ idMap' = [id \in DOMAIN idMap \cup {prober.id} |->
                         IF id = prober.id THEN next ELSE idMap[id]]
          /\ next \in 1..Candidates
      BY <1>1 DEF Record, Prober, Typed, ProberTyped
    <2>2. prober.id \in DOMAIN issued \ DOMAIN idMap
      BY <1>0, <2>1 DEF Registered, Recording
    <2>3. Rank(prober.id) = Len(queued) + 1
      BY <1>0, <2>2, RankFacts
    <2>4. /\ Len(queued') = Len(queued) + 1 /\ Len(queued) \in Nat
          /\ \A i \in 1..Len(queued) : queued'[i] = queued[i]
          /\ queued'[Len(queued) + 1] = next
      BY <1>0, <2>1
    <2>5. ASSUME NEW id \in DOMAIN idMap'
          PROVE  Rank(id)' <= Len(queued') /\ queued'[Rank(id)'] = idMap'[id]
      <3>1. Rank(id)' = Rank(id) /\ Rank(id) \in Nat \ {0}
        BY <1>0, <2>1, <2>2, <2>5, IDSteps, RankFacts DEF Registered
      <3>2. CASE id = prober.id
        BY <2>1, <2>3, <2>4, <3>1, <3>2
      <3>3. CASE id # prober.id
        <4>1. id \in DOMAIN idMap /\ idMap'[id] = idMap[id]
          BY <2>1, <2>5, <3>3
        <4>2. Rank(id) \in 1..Len(queued) /\ queued[Rank(id)] = idMap[id]
          BY <2>4, <3>1, <4>1 DEF InOrder
        <4> QED BY <2>4, <3>1, <4>1, <4>2
      <3> QED BY <3>2, <3>3
    <2>6. \A i \in 1..Len(queued') : i \in 1..Len(queued) \/ i = Len(queued) + 1
      BY <2>4
    <2>7. \A i \in 1..Len(queued') : queued'[i] < next'
      BY <1>0, <2>1, <2>4, <2>6 DEF InOrder
    <2>8. \A i, j \in 1..Len(queued') : i < j => queued'[i] < queued'[j]
      BY <1>0, <2>4, <2>6 DEF InOrder
    <2> QED BY <2>5, <2>7, <2>8 DEF InOrder
  <1>2. CASE UNCHANGED <<idMap, queued>>
    <2>1. next' = next \/ next' = next + 1
      BY DEF Next, ProberStep, Queue, Record, DeviceOnline, NextCandidate, AllQueued,
         Tick, WatchTimeout, ProberSnapshot, ProberPrints, ProberStops, MainStep,
         StopServing, MainSnapshot, MainPrints, Close, Exit, ListenFails, Silent, Poll,
         DeviceConfirms, Confirm, Callback, CtrlC, vars
    <2>2. \A i \in 1..Len(queued) : queued[i] < next'
      BY <1>0, <2>1 DEF InOrder
    <2>3. \A id \in DOMAIN idMap : Rank(id)' = Rank(id)
      BY <1>0, IDSteps
    <2> QED BY <1>2, <2>2, <2>3 DEF InOrder
  <1> QED BY <1>1, <1>2, IDSteps

(* The last confirmation of an orderly device is of the ID whose place is   *)
(* its own: those below it were confirmed before, and nothing else was.     *)
LEMMA OrderlyRank ==
    ASSUME Registered, NEW log \in Seq(Nat), NEW n \in Nat \ {0}, Len(log) = n, Orderly(log),
           \A i \in 1..n : log[i] \in DOMAIN issued
    PROVE  Rank(log[n]) = n
  <1>0. n \in 1..n /\ n - 1 \in Nat /\ 1..n - 1 \subseteq 1..n /\ DOMAIN log = 1..n
    OBVIOUS
  <1>1. \A i \in 1..n : {x \in DOMAIN issued : x < log[i]} \subseteq {log[j] : j \in 1..i - 1}
    BY <1>0 DEF Orderly
  <1>2. \A i \in 1..n : \A j \in 1..i - 1 : log[j] # log[i]
    BY <1>0 DEF Orderly
  <1> DEFINE f == [i \in 1..n - 1 |-> log[i]]
  <1>3. ASSUME NEW i \in 1..n - 1 PROVE log[i] \in Below(log[n])
    <2>1. log[i] # log[n] /\ i \in 1..n /\ log[i] \in Nat /\ log[n] \in Nat
      BY <1>0, <1>2, <1>3
    <2>2. CASE log[n] < log[i]
      <3>1. PICK j \in 1..i - 1 : log[j] = log[n]
        BY <1>0, <1>1, <2>1, <2>2
      <3>2. j \in 1..n - 1
        BY <2>1, <3>1
      <3> QED BY <1>0, <1>2, <3>1, <3>2
    <2> QED BY <2>1, <2>2 DEF Below
  <1>4. f \in [1..n - 1 -> Below(log[n])]
    BY <1>3
  <1>5. ASSUME NEW i \in 1..n - 1, NEW j \in 1..n - 1, f[i] = f[j] PROVE i = j
    <2>1. log[i] = log[j] /\ i \in 1..n /\ j \in 1..n
      BY <1>0, <1>5
    <2>2. ~(i < j) /\ ~(j < i)
      BY <1>2, <2>1
    <2> QED BY <2>1, <2>2
  <1>6. ASSUME NEW x \in Below(log[n]) PROVE \E i \in 1..n - 1 : f[i] = x
    <2>1. \E i \in 1..n - 1 : log[i] = x
      BY <1>0, <1>1, <1>6 DEF Below
    <2> QED BY <2>1
  <1>7. f \in Bijection(1..n - 1, Below(log[n]))
    BY <1>4, <1>5, <1>6 DEF Bijection, Injection, Surjection, IsInjective
  <1>8. IsFiniteSet(1..n - 1) /\ Cardinality(1..n - 1) = n - 1
    <2>1. Cardinality(1..n - 1) = IF 1 > n - 1 THEN 0 ELSE n - 1 - 1 + 1
      BY <1>0, FS_Interval
    <2> QED BY <1>0, <2>1, FS_Interval
  <1>9. ExistsBijection(1..n - 1, Below(log[n]))
    BY <1>7 DEF ExistsBijection
  <1>10. Cardinality(Below(log[n])) = n - 1
    BY <1>8, <1>9, FS_Bijection
  <1> QED BY <1>10 DEF Rank

(* What a step does to the results and the confirmations.                  *)
LEMMA ResultSteps ==
    ASSUME [Next]_vars
    PROVE  \/ DeviceConfirms \/ Callback
           \/ UNCHANGED <<results, callbacks, confirms>>
  BY DEF Next, ProberStep, Queue, Record, DeviceOnline, NextCandidate, AllQueued, Tick,
     WatchTimeout, ProberSnapshot, ProberPrints, ProberStops, MainStep, StopServing,
     MainSnapshot, MainPrints, Close, Exit, ListenFails, Silent, Poll, CtrlC, shared,
     server, vars

(* Matched is inductive.                                                   *)
LEMMA MatchedNext == Typed /\ Matched /\ [Next]_vars => Matched'
  <1> SUFFICES ASSUME Typed, Matched, [Next]_vars PROVE Matched'
    OBVIOUS
  <1>0. /\ Registered /\ results \in Seq(ResultRecords) /\ callbacks \in Seq(Callbacks)
        /\ confirms \in Seq(Nat) /\ Len(confirms) = Len(results) + Len(callbacks)
        /\ Len(results) \in Nat /\ Len(callbacks) \in Nat /\ Len(confirms) \in Nat
    BY DEF Typed, LogsTyped, Matched
  <1>1. CASE DeviceConfirms
    <2>1. PICK id \in Nat, of \in 0..Candidates :
            Confirm(id, of) /\ (of # 0 => id \in DOMAIN issued /\ of = issued[id])
      BY <1>1, ConfirmSteps
    <2> PICK n \in Nat \ {0} : n = Len(confirms) + 1
      BY <1>0
    <2> PICK x \in Nat : x = IF of = 0 THEN 0 ELSE id
      OBVIOUS
    <2> PICK log : log = Append(confirms, x)
      OBVIOUS
    <2> PICK c : c = [id |-> id, of |-> of, orderly |-> Orderly(log)]
      OBVIOUS
    <2>2. /\ confirms' = log /\ callbacks' = Append(callbacks, c)
          /\ UNCHANGED <<results, issued>>
      BY <2>1 DEF Confirm, shared
    <2>3. /\ log \in Seq(Nat) /\ Len(log) = n /\ log[n] = x
          /\ \A i \in 1..Len(confirms) : log[i] = confirms[i]
      BY <1>0
    <2>4. c \in Callbacks
      BY DEF Callbacks, Orderly
    <2>5. /\ Len(callbacks') = Len(callbacks) + 1 /\ callbacks'[Len(callbacks) + 1] = c
          /\ \A k \in 1..Len(callbacks) : callbacks'[k] = callbacks[k]
      BY <1>0, <2>2, <2>4
    <2>6. c.id = id /\ c.of = of /\ c.orderly = Orderly(log)
      OBVIOUS
    <2>7. ASSUME NEW i \in 1..Len(confirms) PROVE Matches(Confirmed(i), i)'
      <3>1. Confirmed(i)' = Confirmed(i)
        <4>1. CASE i <= Len(results)
          BY <2>2, <4>1 DEF Confirmed
        <4>2. CASE ~(i <= Len(results))
          <5>1. i - Len(results) \in 1..Len(callbacks)
            BY <1>0, <4>2
          <5> QED BY <2>2, <2>5, <4>2, <5>1 DEF Confirmed
        <4> QED BY <4>1, <4>2
      <3>2. Matches(Confirmed(i), i)
        BY DEF Matched
      <3> QED BY <2>2, <2>3, <3>1, <3>2, IDSteps DEF Matches
    <2>8. Confirmed(n)' = c
      <3>1. ~(n <= Len(results)) /\ n - Len(results) = Len(callbacks) + 1
        BY <1>0
      <3> QED BY <2>2, <2>5, <3>1 DEF Confirmed
    <2>9. ASSUME Orderly(log) PROVE of # 0 /\ Rank(id) = n
      <3>1. \A i \in 1..n : log[i] # 0
        <4>1. DOMAIN log = 1..n
          BY <2>3
        <4> QED BY <2>9, <4>1 DEF Orderly
      <3>2. of # 0
        BY <2>3, <3>1
      <3>3. ASSUME NEW i \in 1..Len(confirms) PROVE log[i] \in DOMAIN issued
        <4>1. Matches(Confirmed(i), i) /\ log[i] = confirms[i] /\ log[i] # 0
          BY <1>0, <2>3, <3>1 DEF Matched
        <4> QED BY <4>1 DEF Matches
      <3>4. \A i \in 1..n : i \in 1..Len(confirms) \/ i = n
        BY <1>0
      <3>5. \A i \in 1..n : log[i] \in DOMAIN issued
        BY <2>1, <2>3, <3>2, <3>3, <3>4
      <3>6. Rank(log[n]) = n
        BY <1>0, <2>3, <2>9, <3>5, OrderlyRank
      <3> QED BY <2>3, <3>2, <3>6
    <2>10. Matches(c, n)'
      <3>1. id \in DOMAIN issued => Rank(id)' = Rank(id)
        BY IDSteps
      <3> QED BY <2>1, <2>2, <2>3, <2>6, <2>9, <3>1 DEF Matches
    <2>11. \A i \in 1..Len(confirms') : i \in 1..Len(confirms) \/ i = n
      BY <1>0, <2>2, <2>3
    <2>12. \A i \in 1..Len(confirms') : Matches(Confirmed(i), i)'
      <3> SUFFICES ASSUME NEW i \in 1..Len(confirms') PROVE Matches(Confirmed(i), i)'
        OBVIOUS
      <3>1. CASE i = n
        BY <2>8, <2>10, <3>1 DEF Matches
      <3> QED BY <2>7, <2>11, <3>1
    <2> QED BY <1>0, <2>2, <2>3, <2>5, <2>12 DEF Matched
  <1>2. CASE Callback
    <2> DEFINE c == Head(callbacks)
               r == Result(c)
    <2>1. /\ results' = Append(results, r) /\ callbacks' = Tail(callbacks)
          /\ UNCHANGED <<confirms, issued>>
      BY <1>2 DEF Callback
    <2>2. /\ r \in ResultRecords /\ callbacks # <<>>
          /\ r.id = c.id /\ r.of = c.of /\ r.orderly = c.orderly
      BY <1>2, CallbackTakes
    <2> HIDE DEF r
    <2>3. /\ Len(results') = Len(results) + 1 /\ results'[Len(results) + 1] = r
          /\ \A i \in 1..Len(results) : results'[i] = results[i]
      BY <1>0, <2>1, <2>2
    <2>4. /\ Len(callbacks') = Len(callbacks) - 1 /\ Len(callbacks) > 0
          /\ \A k \in 1..Len(callbacks) - 1 : callbacks'[k] = callbacks[k + 1]
          /\ c = callbacks[1]
      BY <1>0, <2>1, <2>2
    <2>5. ASSUME NEW i \in 1..Len(confirms) PROVE Matches(Confirmed(i), i)'
      <3>1. Matches(Confirmed(i), i)
        BY DEF Matched
      <3>2. CASE i <= Len(results)
        <4>1. Confirmed(i)' = Confirmed(i)
          <5>1. i <= Len(results') /\ results'[i] = results[i]
            BY <1>0, <2>3, <3>2
          <5> QED BY <3>2, <5>1 DEF Confirmed
        <4> QED BY <2>1, <3>1, <4>1, IDSteps DEF Matches
      <3>3. CASE i = Len(results) + 1
        <4>1. Confirmed(i) = c /\ Confirmed(i)' = r
          <5>1. ~(i <= Len(results)) /\ i - Len(results) = 1 /\ i <= Len(results')
            BY <1>0, <2>3, <3>3
          <5> QED BY <2>3, <2>4, <3>3, <5>1 DEF Confirmed
        <4>2. Matches(c, i)
          BY <3>1, <4>1
        <4>3. Matches(r, i)
          BY <2>2, <4>2 DEF Matches
        <4> QED BY <2>1, <4>1, <4>3, IDSteps DEF Matches
      <3>4. CASE i > Len(results) + 1
        <4>1. Confirmed(i)' = Confirmed(i)
          <5>1. /\ ~(i <= Len(results)) /\ ~(i <= Len(results'))
                /\ i - Len(results') \in 1..Len(callbacks) - 1
                /\ i - Len(results') + 1 = i - Len(results)
            BY <1>0, <2>3, <2>4, <3>4
          <5> QED BY <2>4, <5>1 DEF Confirmed
        <4> QED BY <2>1, <3>1, <4>1, IDSteps DEF Matches
      <3> QED BY <1>0, <3>2, <3>3, <3>4
    <2> PICK a \in Nat, b \in Nat : a = Len(results) /\ b = Len(callbacks)
      BY <1>0
    <2>6. Len(confirms') = a + b /\ Len(results') = a + 1 /\ Len(callbacks') = b - 1
      BY <1>0, <2>1, <2>3, <2>4
    <2>7. Len(confirms') = Len(results') + Len(callbacks')
      <3>1. a + b = a + 1 + (b - 1)
        OBVIOUS
      <3> QED BY <2>6, <3>1
    <2> QED BY <2>1, <2>5, <2>7 DEF Matched
  <1>3. CASE UNCHANGED <<results, callbacks, confirms>>
    <2>1. ASSUME NEW i \in 1..Len(confirms) PROVE Matches(Confirmed(i), i)'
      <3>1. Matches(Confirmed(i), i) /\ Confirmed(i)' = Confirmed(i)
        BY <1>3 DEF Matched, Confirmed
      <3> QED BY <1>3, <3>1, IDSteps DEF Matches
    <2> QED BY <1>0, <1>3, <2>1 DEF Matched
  <1> QED BY <1>1, <1>2, <1>3, ResultSteps

(* Matched and InOrder hold in every behaviour.                            *)
LEMMA MatchedHolds == Spec => [](Matched /\ InOrder)
  <1>1. Init => Matched /\ InOrder
    BY DEF Init, Matched, InOrder
  <1>2. Typed /\ Matched /\ InOrder /\ [Next]_vars => (Matched /\ InOrder)'
    BY MatchedNext, InOrderNext
  <1> QED BY <1>1, <1>2, TypedHolds, PTL DEF Spec

-----------------------------------------------------------------------------
(* The fallback of the callback. *)

(* An orderly result without an entry in idMap is of the newest ID, whose   *)
(* candidate is not in queued: the fallback finds none left.               *)
LEMMA OrderlyCallback ==
    ASSUME Typed, Matched, InOrder, Callback, Head(callbacks).orderly
    PROVE  Attributed(Head(callbacks).id) \in {Head(callbacks).of, 0}
  <1> PICK c : c = Head(callbacks)
    OBVIOUS
  <1>0. /\ Registered /\ results \in Seq(ResultRecords) /\ callbacks \in Seq(Callbacks)
        /\ replied = Len(results) /\ callbacks # <<>> /\ queued \in Seq(1..Candidates)
    BY DEF Typed, LogsTyped, Callback
  <1> PICK n \in Nat : n = Len(results) + 1
    BY <1>0
  <1>1. n \in 1..Len(confirms) /\ Confirmed(n) = c
    <2>1. Len(callbacks) \in Nat \ {0} /\ callbacks[1] = c
      BY <1>0
    <2>2. ~(n <= Len(results)) /\ n - Len(results) = 1
      BY <1>0
    <2> QED BY <1>0, <2>1, <2>2 DEF Confirmed, Matched
  <1>2. Matches(c, n)
    BY <1>1 DEF Matched
  <1>3. c.id \in DOMAIN issued /\ c.of = issued[c.id] /\ Rank(c.id) = n
    BY <1>2 DEF Matches
  <1>4. CASE c.id \in DOMAIN idMap
    BY <1>0, <1>3, <1>4 DEF Attributed, Registered
  <1>5. CASE c.id \notin DOMAIN idMap
    <2>1. n = Len(queued) + 1
      BY <1>0, <1>3, <1>5, RankFacts
    <2>2. ~(replied < Len(queued))
      BY <1>0, <2>1
    <2> QED BY <1>5, <2>2 DEF Attributed
  <1> QED BY <1>4, <1>5

(* OrderlyAttribution: a device that confirms in order has each result      *)
(* taken for its own candidate or for none, whatever overtakes what.       *)
THEOREM OrderlyAttributionHolds == Spec => []OrderlyAttribution
  <1>1. Init => OrderlyAttribution
    BY DEF Init, OrderlyAttribution
  <1>2. Typed /\ Matched /\ InOrder /\ OrderlyAttribution /\ [Next]_vars => OrderlyAttribution'
    <2> SUFFICES ASSUME Typed, Matched, InOrder, OrderlyAttribution, [Next]_vars
                 PROVE  OrderlyAttribution'
      OBVIOUS
    <2>1. CASE Callback
      <3> PICK c : c = Head(callbacks)
        OBVIOUS
      <3> PICK r : r = Result(c)
        OBVIOUS
      <3>1. /\ r \in ResultRecords /\ r.of = c.of /\ r.orderly = c.orderly
            /\ r.cmd = Attributed(c.id) /\ results' = Append(results, r)
        BY <2>1, CallbackTakes DEF Callback
      <3>2. r.orderly => r.cmd \in {r.of, 0}
        BY <2>1, <3>1, OrderlyCallback
      <3>3. results \in Seq(ResultRecords)
        BY DEF Typed, LogsTyped
      <3>4. /\ DOMAIN results' = 1..Len(results) + 1
            /\ results'[Len(results) + 1] = r
            /\ \A i \in 1..Len(results) : results'[i] = results[i]
            /\ DOMAIN results = 1..Len(results) /\ Len(results) \in Nat
        BY <3>1, <3>3
      <3>5. \A i \in 1..Len(results) + 1 : i \in 1..Len(results) \/ i = Len(results) + 1
        BY <3>4
      <3> QED BY <3>2, <3>4, <3>5 DEF OrderlyAttribution
    <2>2. CASE UNCHANGED results
      BY <2>2 DEF OrderlyAttribution
    <2>3. CASE DeviceConfirms
      BY <2>2, <2>3 DEF DeviceConfirms, Confirm, shared
    <2> QED BY <2>1, <2>2, <2>3, ResultSteps
  <1> QED BY <1>1, <1>2, TypedHolds, MatchedHolds, PTL DEF Spec

-----------------------------------------------------------------------------
(* The summaries. *)

(* Those taken so far: to be printed by the goroutine or by run, or printed. *)
Copied ==
    {s \in Summaries : \/ prober.at = "print" /\ s = prober.summary
                       \/ \E n \in DOMAIN last : s = last[n]
                       \/ \E n \in DOMAIN summaries : s = summaries[n]}

(* A step takes at most one, of the results, queued and replied it finds.  *)
LEMMA CopiedNext ==
    ASSUME Typed, [Next]_vars
    PROVE  \A s \in Copied' : s \in Copied \/ s = Snapshot
  <1>0. /\ ProberTyped /\ last \in Seq(Summaries) /\ summaries \in Seq(Summaries)
        /\ prober.at = "print" => prober.summary \in Summaries
    BY ProberShape DEF Typed, LogsTyped, ProberTyped
  <1> SUFFICES ASSUME NEW s \in Summaries, s \in Copied' PROVE s \in Copied \/ s = Snapshot
    BY DEF Copied
  <1>1. CASE ProberSnapshot
    <2>1. /\ prober' = [at |-> "print", summary |-> Snapshot]
          /\ UNCHANGED <<last, summaries>>
      BY <1>1 DEF ProberSnapshot, Prober, ending
    <2>2. prober'.summary = Snapshot
      BY <2>1
    <2> QED BY <2>1, <2>2 DEF Copied
  <1>2. CASE ProberPrints
    <2>1. /\ prober.at = "print" /\ prober'.at = "done"
          /\ summaries' = Append(summaries, prober.summary) /\ UNCHANGED last
      BY <1>2 DEF ProberPrints, Prober
    <2>2. \A n \in DOMAIN summaries' :
            \/ n \in DOMAIN summaries /\ summaries'[n] = summaries[n]
            \/ summaries'[n] = prober.summary
      BY <1>0, <2>1
    <2> QED BY <2>1, <2>2 DEF Copied
  <1>3. CASE MainSnapshot
    <2>1. last' = <<Snapshot>> /\ UNCHANGED <<prober, summaries>>
      BY <1>3 DEF MainSnapshot
    <2>2. \A n \in DOMAIN last' : last'[n] = Snapshot
      BY <2>1
    <2> QED BY <2>1, <2>2 DEF Copied
  <1>4. CASE MainPrints
    <2>1. summaries' = summaries \o last /\ UNCHANGED <<prober, last>>
      BY <1>4 DEF MainPrints
    <2>2. \A n \in DOMAIN summaries' :
            \/ n \in DOMAIN summaries /\ summaries'[n] = summaries[n]
            \/ \E k \in DOMAIN last : summaries'[n] = last[k]
      <3> SUFFICES ASSUME NEW n \in DOMAIN summaries'
                   PROVE  \/ n \in DOMAIN summaries /\ summaries'[n] = summaries[n]
                          \/ \E k \in DOMAIN last : summaries'[n] = last[k]
        OBVIOUS
      <3>1. n \in 1..Len(summaries) + Len(last)
        BY <1>0, <2>1
      <3>2. CASE n <= Len(summaries)
        BY <1>0, <2>1, <3>1, <3>2
      <3>3. CASE n > Len(summaries)
        <4>1. n - Len(summaries) \in DOMAIN last /\ summaries'[n] = last[n - Len(summaries)]
          BY <1>0, <2>1, <3>1, <3>3
        <4> QED BY <4>1
      <3> QED BY <1>0, <3>1, <3>2, <3>3
    <2> QED BY <2>1, <2>2 DEF Copied
  <1>5. CASE UNCHANGED <<last, summaries>> /\ (prober'.at # "print" \/ UNCHANGED prober)
    BY <1>5 DEF Copied
  <1>6. CASE \/ DeviceOnline \/ ProberStops \/ NextCandidate \/ Queue \/ Record
             \/ AllQueued \/ Tick \/ WatchTimeout
    <2>1. prober'.at # "print" /\ UNCHANGED ending
      BY <1>6 DEF DeviceOnline, ProberStops, NextCandidate, Queue, Record, AllQueued, Tick,
         WatchTimeout, Prober
    <2> QED BY <1>5, <2>1 DEF ending
  <1>7. CASE \/ StopServing \/ Close \/ Exit \/ ListenFails \/ Silent \/ Poll
             \/ DeviceConfirms \/ Callback \/ CtrlC
    BY <1>5, <1>7 DEF StopServing, Close, Exit, ListenFails, Silent, Poll, DeviceConfirms,
       Confirm, Callback, CtrlC, ending
  <1>8. CASE UNCHANGED vars
    BY <1>5, <1>8 DEF vars, ending
  <1> QED BY <1>1, <1>2, <1>3, <1>4, <1>6, <1>7, <1>8 DEF Next, ProberStep, MainStep

(* NO REPLY is printed where it belongs.                                   *)
Accurate(s) ==
    (\A i \in DOMAIN s.results : s.results[i].orderly)
      => NoReply(s) = {s.queued[i] : i \in DOMAIN s.queued} \ HasReply(s)

(* The i-th result of an orderly device is of the i-th candidate queued, as *)
(* far as the goroutine has put it into queued.                            *)
LEMMA OrderlyResults ==
    ASSUME Typed, Matched, InOrder, NEW i \in 1..Len(results), results[i].orderly,
           i <= Len(queued)
    PROVE  results[i].of = queued[i]
  <1>0. /\ Registered /\ results \in Seq(ResultRecords) /\ callbacks \in Seq(Callbacks)
        /\ queued \in Seq(1..Candidates)
    BY DEF Typed, LogsTyped
  <1>1. i \in 1..Len(confirms) /\ Confirmed(i) = results[i]
    <2>1. Len(callbacks) \in Nat /\ Len(results) \in Nat
      BY <1>0
    <2> QED BY <2>1 DEF Confirmed, Matched
  <1> PICK id : id = results[i].id
    OBVIOUS
  <1>2. id \in DOMAIN issued /\ results[i].of = issued[id] /\ Rank(id) = i
    BY <1>1 DEF Matched, Matches
  <1>3. id \in DOMAIN idMap
    BY <1>0, <1>2, RankFacts
  <1> QED BY <1>0, <1>2, <1>3 DEF InOrder, Registered

(* A copy taken under mu is accurate.                                      *)
LEMMA SnapshotAccurate ==
    ASSUME Typed, Matched, InOrder
    PROVE  Accurate(Snapshot)
  <1> PICK s : s = Snapshot
    OBVIOUS
  <1>0. /\ results \in Seq(ResultRecords) /\ queued \in Seq(1..Candidates)
        /\ Len(results) \in Nat /\ Len(queued) \in Nat
        /\ DOMAIN results = 1..Len(results) /\ DOMAIN queued = 1..Len(queued)
    BY DEF Typed, LogsTyped
  <1>1. s.results = results /\ s.queued = queued /\ s.replied = Len(results)
    BY DEF Snapshot, Typed, LogsTyped
  <1> SUFFICES ASSUME \A i \in DOMAIN results : results[i].orderly
               PROVE  NoReply(s) = {s.queued[i] : i \in DOMAIN s.queued} \ HasReply(s)
    BY <1>1 DEF Accurate
  <1>2. \A i \in 1..Len(results) : i <= Len(queued) => results[i].of = queued[i]
    BY <1>0, OrderlyResults
  <1>3. \A i \in 1..Len(queued) : queued[i] \in Nat
    BY <1>0, ProbeAssumption DEF ProbeAssumption
  <1>4. ASSUME NEW i \in Len(results) + 1..Len(queued)
        PROVE  i \in 1..Len(queued) /\ queued[i] \notin {results[j].of : j \in 1..Len(results)}
    <2>1. i \in 1..Len(queued)
      BY <1>0
    <2>2. ASSUME NEW j \in 1..Len(results) PROVE results[j].of # queued[i]
      <3>1. j \in 1..Len(queued) /\ j < i
        BY <1>0
      <3>2. results[j].of = queued[j] /\ queued[j] < queued[i]
        BY <1>2, <2>1, <3>1 DEF InOrder
      <3> QED BY <1>3, <2>1, <3>1, <3>2
    <2> QED BY <2>1, <2>2
  <1>5. ASSUME NEW i \in 1..Len(queued),
               queued[i] \notin {results[j].of : j \in 1..Len(results)}
        PROVE  i \in Len(results) + 1..Len(queued)
    <2>1. ~(i <= Len(results))
      BY <1>0, <1>2, <1>5
    <2> QED BY <1>0, <2>1
  <1>6. /\ NoReply(s) = {queued[i] : i \in Len(results) + 1..Len(queued)}
        /\ HasReply(s) = {results[i].of : i \in 1..Len(results)}
    BY <1>0, <1>1 DEF NoReply, HasReply
  <1> QED BY <1>0, <1>1, <1>4, <1>5, <1>6

(* SummaryAccurate: as long as the device is orderly, a summary lists a     *)
(* command as NO REPLY exactly when no result of it had come, whichever of  *)
(* printSummary's callers took the copy and whatever was under way.        *)
THEOREM SummaryAccurateHolds == Spec => []SummaryAccurate
  <1> DEFINE I == \A s \in Copied : Accurate(s)
  <1>1. Init => I
    BY DEF Init, Copied
  <1>2. Typed /\ Matched /\ InOrder /\ I /\ [Next]_vars => I'
    <2> SUFFICES ASSUME Typed, Matched, InOrder, I, [Next]_vars, NEW s \in Copied'
                 PROVE  Accurate(s)
      OBVIOUS
    <2> QED BY CopiedNext, SnapshotAccurate
  <1>3. Typed /\ I => SummaryAccurate
    <2> SUFFICES ASSUME Typed, I, NEW n \in DOMAIN summaries PROVE Accurate(summaries[n])
      BY DEF SummaryAccurate, Accurate
    <2>1. summaries[n] \in Copied
      BY DEF Typed, LogsTyped, Copied
    <2> QED BY <2>1
  <1> HIDE DEF I
  <1> QED BY <1>1, <1>2, <1>3, TypedHolds, MatchedHolds, PTL DEF Spec

-----------------------------------------------------------------------------
(* The order of the summaries. *)

IsBefore(r, s) == Len(r) <= Len(s) /\ \A i \in DOMAIN r : r[i] = s[i]

LEMMA IsBeforeTransitive ==
    ASSUME NEW r \in Seq(ResultRecords), NEW s \in Seq(ResultRecords),
           NEW t \in Seq(ResultRecords), IsBefore(r, s), IsBefore(s, t)
    PROVE  IsBefore(r, t)
  <1>1. Len(r) \in Nat /\ Len(s) \in Nat /\ Len(t) \in Nat
    OBVIOUS
  <1>2. \A i \in DOMAIN r : i \in DOMAIN s
    BY <1>1 DEF IsBefore
  <1> QED BY <1>1, <1>2 DEF IsBefore

(* Every copy is of what the results now begin with.                       *)
Copies == \A s \in Copied : IsBefore(s.results, results)

LEMMA CopiesNext == Typed /\ Copies /\ [Next]_vars => Copies'
  <1> SUFFICES ASSUME Typed, Copies, [Next]_vars PROVE Copies'
    OBVIOUS
  <1>0. results \in Seq(ResultRecords) /\ results' \in Seq(ResultRecords)
    BY LogsTypedNext DEF Typed, LogsTyped
  <1>1. IsBefore(results, results')
    <2>1. CASE Callback
      <3>1. PICK r \in ResultRecords : results' = Append(results, r)
        BY <2>1, CallbackTakes DEF Callback
      <3> QED BY <1>0, <3>1 DEF IsBefore
    <2>2. CASE UNCHANGED results
      BY <1>0, <2>2 DEF IsBefore
    <2>3. CASE DeviceConfirms
      BY <2>2, <2>3 DEF DeviceConfirms, Confirm, shared
    <2> QED BY <2>1, <2>2, <2>3, ResultSteps
  <1>2. ASSUME NEW s \in Copied' PROVE IsBefore(s.results, results')
    <2>1. s \in Summaries /\ s.results \in Seq(ResultRecords)
      BY DEF Copied, Summaries
    <2>2. CASE s \in Copied
      <3>1. IsBefore(s.results, results)
        BY <2>2 DEF Copies
      <3> QED BY <1>0, <1>1, <2>1, <3>1, IsBeforeTransitive
    <2>3. CASE s = Snapshot
      <3>1. s.results = results
        BY <2>3 DEF Snapshot
      <3> QED BY <1>1, <3>1
    <2> QED BY <2>2, <2>3, CopiedNext
  <1> QED BY <1>2 DEF Copies

(* Until the user interrupts it, run stops serving only when the goroutine  *)
(* is done: what the goroutine printed comes first.                        *)
Ended ==
    /\ main \in {"serving", "snapshot"} => last = <<>>
    /\ main = "print" => Len(last) = 1
    /\ ~interrupted =>
         /\ main = "serving" /\ cancelled => prober.at = "done"
         /\ main \in {"snapshot", "print"} => prober.at = "done"
         /\ last # <<>> => prober.at = "done"
         /\ prober.at # "done" => summaries = <<>>

LEMMA EndedNext == Typed /\ Ended /\ [Next]_vars => Ended'
  <1> SUFFICES ASSUME Typed, Ended, [Next]_vars PROVE Ended'
    OBVIOUS
  <1>0. last \in Seq(Summaries) /\ summaries \in Seq(Summaries)
    BY DEF Typed, LogsTyped
  <1>1. CASE ProberPrints
    <2>1. /\ prober.at = "print" /\ prober'.at = "done"
          /\ UNCHANGED <<main, last, interrupted>>
      BY <1>1 DEF ProberPrints, Prober
    <2> QED BY <2>1 DEF Ended
  <1>2. CASE ProberStops
    <2>1. prober.at # "done" /\ prober'.at = "done" /\ UNCHANGED <<ending, interrupted>>
      BY <1>2 DEF ProberStops, Prober
    <2> QED BY <2>1 DEF Ended, ending
  <1>3. CASE \/ DeviceOnline \/ NextCandidate \/ Queue \/ Record \/ AllQueued \/ Tick
             \/ WatchTimeout \/ ProberSnapshot
    <2>1. /\ prober.at # "done"
          /\ UNCHANGED <<ending, cancelled, interrupted>>
      BY <1>3 DEF DeviceOnline, NextCandidate, Queue, Record, AllQueued, Tick,
         WatchTimeout, ProberSnapshot, Prober
    <2> QED BY <2>1 DEF Ended, ending
  <1>4. CASE StopServing
    BY <1>4 DEF StopServing, Ended
  <1>5. CASE MainSnapshot
    <2>1. Len(<<Snapshot>>) = 1
      OBVIOUS
    <2> QED BY <1>5, <2>1 DEF MainSnapshot, Ended
  <1>6. CASE MainPrints
    BY <1>6 DEF MainPrints, Ended
  <1>7. CASE Close \/ Exit \/ ListenFails
    BY <1>7 DEF Close, Exit, ListenFails, Ended
  <1>8. CASE CtrlC
    BY <1>8 DEF CtrlC, ending, Ended
  <1>9. CASE UNCHANGED <<ending, prober, cancelled, interrupted>>
    BY <1>9 DEF ending, Ended
  <1>10. CASE Silent \/ Poll \/ DeviceConfirms \/ Callback
    BY <1>9, <1>10 DEF Silent, Poll, DeviceConfirms, Confirm, Callback
  <1>11. CASE UNCHANGED vars
    BY <1>9, <1>11 DEF vars
  <1> QED BY <1>1, <1>2, <1>3, <1>4, <1>5, <1>6, <1>7, <1>8, <1>10, <1>11
          DEF Next, ProberStep, MainStep

(* What a step does to the summaries.                                      *)
LEMMA SummarySteps ==
    ASSUME [Next]_vars
    PROVE  /\ interrupted => interrupted'
           /\ UNCHANGED summaries \/ ProberPrints \/ MainPrints
  <1>1. UNCHANGED interrupted \/ CtrlC
    BY DEF Next, ProberStep, Queue, Record, DeviceOnline, NextCandidate, AllQueued, Tick,
       WatchTimeout, ProberSnapshot, ProberPrints, ProberStops, MainStep, StopServing,
       MainSnapshot, MainPrints, Close, Exit, ListenFails, Silent, Poll, DeviceConfirms,
       Confirm, Callback, vars
  <1>2. UNCHANGED summaries \/ ProberPrints \/ MainPrints
    BY DEF Next, ProberStep, Queue, Record, DeviceOnline, NextCandidate, AllQueued, Tick,
       WatchTimeout, ProberSnapshot, ProberStops, MainStep, StopServing, MainSnapshot,
       Close, Exit, ListenFails, Silent, Poll, DeviceConfirms, Confirm, Callback, CtrlC,
       ending, vars
  <1> QED BY <1>1, <1>2 DEF CtrlC

(* The summary run is about to print repeats all that is printed. *)
Repeats ==
    ~interrupted /\ main = "print" =>
        \A n \in DOMAIN summaries : IsBefore(summaries[n].results, last[1].results)

LEMMA RepeatsNext == Typed /\ Copies /\ Ended /\ Repeats /\ [Next]_vars => Repeats'
  <1> SUFFICES ASSUME Typed, Copies, Ended, Repeats, [Next]_vars,
                      ~interrupted', main' = "print", NEW n \in DOMAIN summaries'
               PROVE  IsBefore(summaries'[n].results, last'[1].results)
    BY DEF Repeats
  <1>0. last \in Seq(Summaries) /\ summaries \in Seq(Summaries) /\ ~interrupted
    BY SummarySteps DEF Typed, LogsTyped
  <1>1. CASE MainSnapshot
    <2>1. UNCHANGED summaries /\ last'[1] = Snapshot /\ Snapshot.results = results
      BY <1>1 DEF MainSnapshot, Snapshot
    <2>2. summaries[n] \in Copied
      BY <1>0, <2>1 DEF Copied
    <2> QED BY <2>1, <2>2 DEF Copies
  <1>2. CASE main = "print" /\ UNCHANGED <<last, summaries>>
    BY <1>0, <1>2 DEF Repeats
  <1>3. CASE main = "print" /\ ~UNCHANGED <<last, summaries>>
    <2>1. prober.at = "done"
      BY <1>0, <1>3 DEF Ended
    <2> QED BY <1>3, <2>1 DEF Next, ProberStep, Queue, Record, DeviceOnline, NextCandidate,
       AllQueued, Tick, WatchTimeout, ProberSnapshot, ProberPrints, ProberStops, Prober,
       MainStep, StopServing, MainSnapshot, MainPrints, Close, Exit, ListenFails, Silent,
       Poll, DeviceConfirms, Confirm, Callback, CtrlC, ending, vars
  <1>4. CASE main # "print" /\ ~MainSnapshot
    BY <1>4 DEF Next, ProberStep, Queue, Record, DeviceOnline, NextCandidate,
       AllQueued, Tick, WatchTimeout, ProberSnapshot, ProberPrints, ProberStops,
       MainStep, StopServing, MainPrints, Close, Exit, ListenFails, Silent,
       Poll, DeviceConfirms, Confirm, Callback, CtrlC, ending, vars
  <1> QED BY <1>1, <1>2, <1>3, <1>4

(* SummariesGrow: unless the user interrupts the run, the summary of run    *)
(* comes last and repeats each result of the one the goroutine printed.    *)
THEOREM SummariesGrowHolds == Spec => []SummariesGrow
  <1>1. Init => Copies /\ Ended /\ Repeats /\ SummariesGrow
    BY DEF Init, Copies, Copied, Ended, Repeats, SummariesGrow
  <1>2. Typed /\ Ended /\ Repeats /\ SummariesGrow /\ [Next]_vars => SummariesGrow'
    <2> SUFFICES ASSUME Typed, Ended, Repeats, SummariesGrow, [Next]_vars, ~interrupted',
                        NEW m \in DOMAIN summaries', NEW n \in DOMAIN summaries', m < n
                 PROVE  IsBefore(summaries'[m].results, summaries'[n].results)
      BY DEF SummariesGrow, IsBefore
    <2>0. /\ last \in Seq(Summaries) /\ summaries \in Seq(Summaries) /\ ~interrupted
          /\ UNCHANGED summaries \/ ProberPrints \/ MainPrints
      BY SummarySteps DEF Typed, LogsTyped
    <2>1. CASE UNCHANGED summaries
      BY <2>0, <2>1 DEF SummariesGrow, IsBefore
    <2>2. CASE ProberPrints
      <3>1. summaries = <<>> /\ summaries' = Append(summaries, prober.summary)
        BY <2>0, <2>2 DEF ProberPrints, Prober, Ended
      <3>2. m = 1 /\ n = 1
        BY <3>1
      <3> QED BY <3>2
    <2>3. CASE MainPrints
      <3>0. Len(last) = 1
        BY <2>3 DEF MainPrints, Ended
      <3>1. main = "print" /\ summaries' = summaries \o last
        BY <2>3 DEF MainPrints
      <3>2. /\ Len(summaries) \in Nat /\ DOMAIN summaries = 1..Len(summaries)
            /\ DOMAIN summaries' = 1..Len(summaries) + 1
            /\ \A k \in 1..Len(summaries) : summaries'[k] = summaries[k]
            /\ summaries'[Len(summaries) + 1] = last[1]
        <4>1. /\ Len(summaries) \in Nat /\ DOMAIN summaries = 1..Len(summaries)
              /\ last \in Seq(Summaries)
          BY <2>0
        <4> PICK both : both = summaries \o last
          OBVIOUS
        <4>2. Len(both) = Len(summaries) + Len(last)
          BY <2>0
        <4>3. \A k \in 1..Len(summaries) : both[k] = summaries[k]
          BY <2>0
        <4>4. both[Len(summaries) + 1] = last[1]
          <5>1. \A k \in 1..Len(last) : both[Len(summaries) + k] = last[k]
            BY <2>0
          <5>2. 1 \in 1..Len(last)
            BY <3>0
          <5> QED BY <5>1, <5>2
        <4>5. DOMAIN both = 1..Len(summaries) + 1
          BY <3>0, <4>1, <4>2
        <4> QED BY <3>1, <4>1, <4>3, <4>4, <4>5
      <3>3. m \in DOMAIN summaries /\ summaries'[m] = summaries[m]
        BY <3>2
      <3>4. CASE n \in DOMAIN summaries
        BY <2>0, <3>2, <3>3, <3>4 DEF SummariesGrow, IsBefore
      <3>5. CASE n \notin DOMAIN summaries
        <4>1. n = Len(summaries) + 1
          BY <3>2, <3>5
        <4> QED BY <2>0, <3>1, <3>2, <3>3, <4>1 DEF Repeats
      <3> QED BY <3>4, <3>5
    <2> QED BY <2>0, <2>1, <2>2, <2>3
  <1> QED BY <1>1, <1>2, TypedHolds, CopiesNext, EndedNext, RepeatsNext, PTL DEF Spec

===============================================================================
