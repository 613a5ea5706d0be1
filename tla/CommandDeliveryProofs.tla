------------------------ MODULE CommandDeliveryProofs ------------------------
(***************************************************************************)
(* Theorems about commands on their way: they reach the right device, at   *)
(* most once, in their caller's order, and are forgotten only when their   *)
(* result was reported.                                                    *)
(***************************************************************************)
EXTENDS CommandTrackingProofs, SequenceTheorems

-----------------------------------------------------------------------------
(* Streams: what a device was sent, then what waits for it. *)

(* A concatenation begins with its first part; the second part may grow. *)
LEMMA ConcatFacts ==
    ASSUME NEW S, NEW s1 \in Seq(S), NEW s2 \in Seq(S)
    PROVE  /\ s1 \o s2 \in Seq(S)
           /\ DOMAIN s1 \subseteq DOMAIN (s1 \o s2)
           /\ \A i \in DOMAIN s1 : (s1 \o s2)[i] = s1[i]
           /\ Range(s1) \subseteq Range(s1 \o s2)
           /\ Range(s2) \subseteq Range(s1 \o s2)
  <1>1. /\ s1 \o s2 \in Seq(S)
        /\ DOMAIN s1 = 1..Len(s1) /\ DOMAIN s2 = 1..Len(s2)
        /\ DOMAIN (s1 \o s2) = 1..Len(s1) + Len(s2)
        /\ Len(s1) \in Nat /\ Len(s2) \in Nat
        /\ \A i \in 1..Len(s1) + Len(s2) :
             (s1 \o s2)[i] = IF i <= Len(s1) THEN s1[i] ELSE s2[i - Len(s1)]
    BY ConcatProperties, LenProperties
  <1>2. DOMAIN s1 \subseteq DOMAIN (s1 \o s2) /\ \A i \in DOMAIN s1 : (s1 \o s2)[i] = s1[i]
    BY <1>1
  <1>3. Range(s1) \subseteq Range(s1 \o s2)
    BY <1>2 DEF Range
  <1>4. Range(s2) \subseteq Range(s1 \o s2)
    <2>1. \A i \in DOMAIN s2 :
            Len(s1) + i \in DOMAIN (s1 \o s2) /\ (s1 \o s2)[Len(s1) + i] = s2[i]
      BY <1>1
    <2> QED BY <2>1 DEF Range
  <1> QED BY <1>1, <1>2, <1>3, <1>4

(* To append to the second part is to append to the concatenation. *)
LEMMA ConcatAppend ==
    ASSUME NEW s1 \in Seq(CommandIDs), NEW s2 \in Seq(CommandIDs), NEW e \in CommandIDs
    PROVE  s1 \o Append(s2, e) = Append(s1 \o s2, e)
  <1>1. <<e>> \in Seq(CommandIDs) /\ Append(s2, e) = s2 \o <<e>>
    BY AppendIsConcat
  <1>2. Append(s1 \o s2, e) = (s1 \o s2) \o <<e>>
    BY ConcatFacts, AppendIsConcat
  <1> QED BY <1>1, <1>2, ConcatAssociative

(* The streams are sequences of IDs; they hold what was sent and is queued. *)
LEMMA StreamFacts ==
    ASSUME TypeOK, NEW sn \in SerialNumbers
    PROVE  /\ sent[sn] \in Seq(CommandIDs) /\ commandQueue[sn] \in Seq(CommandIDs)
           /\ Stream(sn) \in Seq(CommandIDs)
           /\ IDsIn(Stream(sn)) \subseteq CommandIDs
           /\ IDsIn(commandQueue[sn]) \subseteq IDsIn(Stream(sn))
  <1>1. sent[sn] \in Seq(CommandIDs) /\ commandQueue[sn] \in Seq(CommandIDs)
    BY DEF TypeOK
  <1> QED BY <1>1, ConcatFacts, RangeFacts DEF Stream, IDsIn

(* A step appends a new command to one stream, or keeps every stream, or    *)
(* takes the queued part off it: AppDrain and the eviction worker do.       *)
LEMMA StreamSteps ==
    ASSUME TypeOK, [Next]_vars
    PROVE  \/ \E t \in Threads : QueueAppend(t)
           \/ /\ UNCHANGED accepted
              /\ \A sn \in SerialNumbers : Stream(sn)' \in {Stream(sn), sent[sn]}
              /\ \A id \in DOMAIN pendingCommands' :
                   \/ id \in DOMAIN pendingCommands /\ pendingCommands'[id] = pendingCommands[id]
                   \/ /\ pendingCommands'[id] \in SerialNumbers
                      /\ id \in IDsIn(commandQueue[pendingCommands'[id]])
  <1> DEFINE Keeps ==
        /\ UNCHANGED accepted
        /\ \A sn \in SerialNumbers : Stream(sn)' \in {Stream(sn), sent[sn]}
        /\ \A id \in DOMAIN pendingCommands' :
             \/ id \in DOMAIN pendingCommands /\ pendingCommands'[id] = pendingCommands[id]
             \/ /\ pendingCommands'[id] \in SerialNumbers
                /\ id \in IDsIn(commandQueue[pendingCommands'[id]])
  <1>0. /\ commandQueue \in [SerialNumbers -> Seq(CommandIDs)]
        /\ sent \in [SerialNumbers -> Seq(CommandIDs)]
        /\ call \in [Threads -> Calls]
    BY DEF TypeOK
  <1>1. ASSUME NEW s \in Seq(CommandIDs) PROVE s \o <<>> = s
    BY ConcatEmptySeq
  <1>2. ASSUME NEW sn \in SerialNumbers, DrainCommands(sn)
        PROVE  /\ commandQueue'[sn] = <<>>
               /\ \A s \in SerialNumbers \ {sn} : commandQueue'[s] = commandQueue[s]
               /\ \A id \in DOMAIN pendingCommands' :
                    \/ id \in DOMAIN pendingCommands /\ pendingCommands'[id] = pendingCommands[id]
                    \/ pendingCommands'[id] = sn /\ id \in IDsIn(commandQueue[sn])
    BY <1>0, <1>2 DEF DrainCommands
  <1>3. ASSUME NEW sn \in SerialNumbers, AppDrain(sn) PROVE Keeps
    <2>1. DrainCommands(sn) /\ UNCHANGED <<accepted, sent>>
      BY <1>3 DEF AppDrain, history
    <2>2. Stream(sn)' = sent[sn]
      BY <1>0, <1>1, <1>2, <2>1 DEF Stream
    <2>3. \A s \in SerialNumbers \ {sn} : Stream(s)' = Stream(s)
      BY <1>2, <2>1 DEF Stream
    <2> QED BY <1>2, <2>1, <2>2, <2>3
  <1>4. ASSUME NEW t \in Threads, Drain(t) PROVE Keeps
    <2>1. PICK sn \in SerialNumbers : sn = call[t].sn
      BY <1>0, <1>4, CallShape DEF Drain
    <2>2. DrainCommands(sn) /\ UNCHANGED accepted
      BY <1>4, <2>1 DEF Drain
    <2>3. sent' = [sent EXCEPT ![sn] = sent[sn] \o commandQueue[sn]]
      BY <1>4, <2>1 DEF Drain
    <2>4. Stream(sn)' = Stream(sn)
      <3>1. sent[sn] \o commandQueue[sn] \in Seq(CommandIDs)
        BY <1>0, ConcatFacts
      <3>2. sent'[sn] = sent[sn] \o commandQueue[sn] /\ commandQueue'[sn] = <<>>
        BY <1>0, <1>2, <2>2, <2>3
      <3>3. Stream(sn)' = (sent[sn] \o commandQueue[sn]) \o <<>>
        BY <3>2 DEF Stream
      <3> QED BY <1>1, <3>1, <3>3 DEF Stream
    <2>5. \A s \in SerialNumbers \ {sn} : Stream(s)' = Stream(s)
      BY <1>0, <1>2, <2>2, <2>3 DEF Stream
    <2> QED BY <1>2, <2>2, <2>4, <2>5
  <1>5. ASSUME NEW t \in Threads, ForgetResult(t) PROVE Keeps
    BY <1>5 DEF ForgetResult, Stream
  <1>6. ASSUME EvictCommands PROVE Keeps
    <2>1. /\ \A s \in SerialNumbers :
               commandQueue'[s] = IF s \in swept THEN <<>> ELSE commandQueue[s]
          /\ UNCHANGED <<accepted, sent>>
          /\ \A id \in DOMAIN pendingCommands' :
               id \in DOMAIN pendingCommands /\ pendingCommands'[id] = pendingCommands[id]
      BY <1>6 DEF EvictCommands
    <2>2. ASSUME NEW s \in SerialNumbers
          PROVE  Stream(s)' = IF s \in swept THEN sent[s] ELSE Stream(s)
      BY <1>0, <1>1, <2>1 DEF Stream
    <2> QED BY <2>1, <2>2
  <1>7. ASSUME UNCHANGED <<commandQueue, pendingCommands, accepted, sent>> PROVE Keeps
    BY <1>7 DEF Stream
  <1> HIDE DEF Keeps
  <1>8. \/ \E t \in Threads : QueueAppend(t)
        \/ \E t \in Threads : Drain(t)
        \/ \E t \in Threads : ForgetResult(t)
        \/ \E sn \in SerialNumbers : AppDrain(sn)
        \/ EvictCommands
        \/ UNCHANGED <<commandQueue, pendingCommands, accepted, sent>>
    BY DEF Next, ThreadStep, AppRegister, Age, QueueCheck, Request, QueueAssign,
       QueueReject, Activity, DispatchInfo, WriteCommands, LookupResult, DispatchResult,
       DispatchRefused, EvictDevices, queues, history, vars
  <1>9. Keeps \/ \E t \in Threads : QueueAppend(t)
    BY <1>3, <1>4, <1>5, <1>6, <1>7, <1>8
  <1> QED BY <1>9 DEF Keeps

(* What QueueAppend does to the streams.                                    *)
LEMMA StreamGrows ==
    ASSUME TypeOK, NEW t \in Threads, QueueAppend(t),
           NEW sn \in SerialNumbers, NEW id \in CommandIDs, sn = call[t].sn, id = call[t].id
    PROVE  /\ Stream(sn)' = Append(Stream(sn), id)
           /\ \A s \in SerialNumbers \ {sn} : Stream(s)' = Stream(s)
           /\ accepted' = accepted \cup {[id |-> id, sn |-> sn, by |-> t]}
           /\ UNCHANGED pendingCommands
  <1>1. /\ commandQueue \in [SerialNumbers -> Seq(CommandIDs)]
        /\ sent[sn] \in Seq(CommandIDs)
    BY DEF TypeOK
  <1>2. /\ commandQueue' = [commandQueue EXCEPT ![sn] = Append(@, id)]
        /\ accepted' = accepted \cup {[id |-> id, sn |-> sn, by |-> t]}
        /\ UNCHANGED <<sent, pendingCommands>>
    BY DEF QueueAppend
  <1>3. Stream(sn)' = sent[sn] \o Append(commandQueue[sn], id)
    <2>1. commandQueue'[sn] = Append(commandQueue[sn], id) /\ sent'[sn] = sent[sn]
      BY <1>1, <1>2
    <2> QED BY <2>1 DEF Stream
  <1>4. sent[sn] \o Append(commandQueue[sn], id) = Append(sent[sn] \o commandQueue[sn], id)
    <2>1. sent[sn] \in Seq(CommandIDs) /\ commandQueue[sn] \in Seq(CommandIDs)
      BY <1>1
    <2> QED BY <2>1, ConcatAppend
  <1> QED BY <1>1, <1>2, <1>3, <1>4 DEF Stream

-----------------------------------------------------------------------------
(* Sending. *)

(* Only accepted commands are in a stream. *)
SentAccepted == \A sn \in SerialNumbers : IDsIn(Stream(sn)) \subseteq AcceptedIDs

Sending == SentAccepted /\ SentOnce /\ RightDevice

(* Taking the queued part off streams keeps what was sent as it was.        *)
LEMMA ShorterStream ==
    ASSUME TypeOK, NEW sn \in SerialNumbers, Stream(sn)' \in {Stream(sn), sent[sn]}
    PROVE  /\ IDsIn(Stream(sn)') \subseteq IDsIn(Stream(sn))
           /\ IsInjective(Stream(sn)) => IsInjective(Stream(sn)')
           /\ \A i \in DOMAIN Stream(sn)' :
                i \in DOMAIN Stream(sn) /\ Stream(sn)'[i] = Stream(sn)[i]
  <1>1. sent[sn] \in Seq(CommandIDs) /\ commandQueue[sn] \in Seq(CommandIDs)
    BY StreamFacts
  <1>2. /\ DOMAIN sent[sn] \subseteq DOMAIN Stream(sn)
        /\ \A i \in DOMAIN sent[sn] : Stream(sn)[i] = sent[sn][i]
        /\ Range(sent[sn]) \subseteq Range(Stream(sn))
    BY <1>1, ConcatFacts DEF Stream
  <1>3. CASE Stream(sn)' = Stream(sn)
    BY <1>3
  <1>4. CASE Stream(sn)' = sent[sn]
    BY <1>2, <1>4 DEF IsInjective, IDsIn
  <1> QED BY <1>3, <1>4

(* Sending is inductive, given Tracking. *)
LEMMA SendingNext == Tracking /\ Sending /\ [Next]_vars => Sending'
  <1> SUFFICES ASSUME Tracking, Sending, [Next]_vars PROVE Sending'
    OBVIOUS
  <1>0. TypeOK /\ DOMAIN pendingCommands \subseteq AcceptedIDs
    BY DEF Tracking, Accounted
  <1>1. ASSUME NEW t \in Threads, QueueAppend(t) PROVE Sending'
    <2>1. PICK sn \in SerialNumbers, id \in CommandIDs : sn = call[t].sn /\ id = call[t].id
      BY <1>0, <1>1, CallShape DEF QueueAppend, TypeOK
    <2>2. id \notin AcceptedIDs
      BY <1>1, <2>1 DEF QueueAppend, Tracking, FreshIDs
    <2>3. /\ Stream(sn)' = Append(Stream(sn), id)
          /\ \A s \in SerialNumbers \ {sn} : Stream(s)' = Stream(s)
          /\ accepted' = accepted \cup {[id |-> id, sn |-> sn, by |-> t]}
          /\ UNCHANGED pendingCommands
          /\ AcceptedIDs' = AcceptedIDs \cup {id}
      BY <1>0, <1>1, <2>1, StreamGrows, AcceptedGrows
    <2>4. /\ Stream(sn) \in Seq(CommandIDs)
          /\ \A s \in SerialNumbers : id \notin IDsIn(Stream(s))
      BY <1>0, <2>2, StreamFacts DEF Sending, SentAccepted
    <2>5. /\ IDsIn(Stream(sn)') = IDsIn(Stream(sn)) \cup {id}
          /\ IsInjective(Stream(sn)')
      BY <2>3, <2>4, RangeFacts, InjectiveAppend DEF IDsIn, Sending, SentOnce
    <2>6. SentAccepted'
      BY <2>3, <2>5 DEF Sending, SentAccepted
    <2>7. SentOnce'
      <3>1. ASSUME NEW s \in SerialNumbers PROVE IsInjective(Stream(s)')
        BY <2>3, <2>5 DEF Sending, SentOnce
      <3>2. ASSUME NEW s \in SerialNumbers \ {sn}
            PROVE  IDsIn(Stream(s)') \cap IDsIn(Stream(sn)') = {}
        BY <2>3, <2>4, <2>5 DEF Sending, SentOnce
      <3>3. ASSUME NEW s1 \in SerialNumbers, NEW s2 \in SerialNumbers, s1 # s2
            PROVE  IDsIn(Stream(s1)') \cap IDsIn(Stream(s2)') = {}
        BY <2>3, <3>2, <3>3 DEF Sending, SentOnce
      <3> QED BY <3>1, <3>3 DEF SentOnce
    <2>8. RightDevice'
      <3>1. ASSUME NEW a \in accepted
            PROVE  /\ a.id \in DOMAIN pendingCommands' => pendingCommands'[a.id] = a.sn
                   /\ \A s \in SerialNumbers \ {a.sn} : a.id \notin IDsIn(Stream(s)')
        <4>1. a.id # id
          BY <2>2 DEF AcceptedIDs
        <4> QED BY <2>3, <2>5, <4>1 DEF Sending, RightDevice
      <3>2. /\ id \notin DOMAIN pendingCommands'
            /\ \A s \in SerialNumbers \ {sn} : id \notin IDsIn(Stream(s)')
        BY <1>0, <2>2, <2>3, <2>4
      <3> QED BY <2>3, <3>1, <3>2 DEF RightDevice
    <2> QED BY <2>6, <2>7, <2>8 DEF Sending
  <1>2. CASE /\ UNCHANGED accepted
             /\ \A sn \in SerialNumbers : Stream(sn)' \in {Stream(sn), sent[sn]}
             /\ \A id \in DOMAIN pendingCommands' :
                  \/ id \in DOMAIN pendingCommands /\ pendingCommands'[id] = pendingCommands[id]
                  \/ /\ pendingCommands'[id] \in SerialNumbers
                     /\ id \in IDsIn(commandQueue[pendingCommands'[id]])
    <2>1. \A sn \in SerialNumbers :
            /\ IDsIn(Stream(sn)') \subseteq IDsIn(Stream(sn))
            /\ IsInjective(Stream(sn)')
            /\ IDsIn(commandQueue[sn]) \subseteq IDsIn(Stream(sn))
      BY <1>0, <1>2, ShorterStream, StreamFacts DEF Sending, SentOnce
    <2>2. SentAccepted'
      BY <1>2, <2>1 DEF Sending, SentAccepted, AcceptedIDs
    <2>3. SentOnce'
      BY <2>1 DEF Sending, SentOnce
    <2>4. RightDevice'
      BY <1>2, <2>1 DEF Sending, RightDevice
    <2> QED BY <2>2, <2>3, <2>4 DEF Sending
  <1> QED BY <1>0, <1>1, <1>2, StreamSteps

(* Sending holds in every behaviour. *)
LEMMA SendingHolds == Spec => []Sending
  <1>1. Init => Sending
    <2> SUFFICES ASSUME Init PROVE Sending
      OBVIOUS
    <2>1. accepted = {} /\ \A sn \in SerialNumbers : Stream(sn) = <<>>
      BY ConcatEmptySeq, EmptySeq DEF Init, Stream
    <2> QED BY <2>1, EmptyQueue DEF Sending, SentAccepted, SentOnce, RightDevice
  <1> QED BY <1>1, SendingNext, TrackingHolds, PTL DEF Spec

(* A command is put in one response at most: two requests of one device,    *)
(* answered at once, do not both take it, and it is not sent again when the *)
(* response that held it is lost.                                           *)
THEOREM SentOnceHolds == Spec => []SentOnce
  BY SendingHolds, PTL DEF Sending

(* A command goes to the device it was queued for, and its pending entry     *)
(* says so, although pendingCommands is shared by all devices.               *)
THEOREM RightDeviceHolds == Spec => []RightDevice
  BY SendingHolds, PTL DEF Sending

-----------------------------------------------------------------------------
(* Confirmations. *)

(* A result whose lookup missed a command that had been drained is of one    *)
(* that was confirmed or discarded; one about to be deleted was answered, or *)
(* is of such a command. Neither changes any more: Accounted says that what  *)
(* was confirmed or discarded is never pending again.                        *)
LookedUp ==
    \A t \in Threads :
        /\ call[t].at = "dispatch" /\ ~call[t].found /\ ~call[t].early
             => Head(call[t].results) \in confirmed \cup discarded
        /\ call[t].at = "forget"
             => Head(call[t].results) \in Answered \cup confirmed \cup discarded

Reporting == LookedUp /\ ReportedBeforeForgotten /\ UncorrelatedExplained

(* What was reported, confirmed or discarded stays so.                      *)
LEMMA HistoryGrows ==
    ASSUME [Next]_vars
    PROVE  /\ reported \subseteq reported'
           /\ confirmed \subseteq confirmed'
           /\ discarded \subseteq discarded'
           /\ Answered \subseteq Answered'
  <1>1. reported \subseteq reported'
    <2>1. CASE \E t \in Threads : DispatchResult(t)
      BY <2>1 DEF DispatchResult
    <2>2. CASE UNCHANGED reported
      BY <2>2
    <2> QED
      BY <2>1, <2>2 DEF Next, ThreadStep, AppRegister, Age, AppDrain, QueueCheck, Request,
         QueueAssign, QueueReject, QueueAppend, Activity, DispatchInfo, Drain, WriteCommands,
         LookupResult, DispatchRefused, ForgetResult, EvictDevices, EvictCommands, queues,
         history, vars
  <1>2. confirmed \subseteq confirmed' /\ discarded \subseteq discarded'
    <2>1. CASE \E t \in Threads : ForgetResult(t)
      BY <2>1 DEF ForgetResult
    <2>2. CASE EvictCommands
      BY <2>2 DEF EvictCommands
    <2>3. CASE UNCHANGED <<confirmed, discarded>>
      BY <2>3
    <2> QED
      BY <2>1, <2>2, <2>3 DEF Next, ThreadStep, AppRegister, Age, AppDrain, QueueCheck, Request,
         QueueAssign, QueueReject, QueueAppend, Activity, DispatchInfo, Drain, WriteCommands,
         LookupResult, DispatchResult, DispatchRefused, EvictDevices, queues, history, vars
  <1>3. Answered \subseteq Answered'
    BY <1>1 DEF Answered
  <1> QED BY <1>1, <1>2, <1>3

(* What DispatchResult reports: the result of a lookup that found the       *)
(* command, or came too early, or missed one confirmed or discarded.        *)
LEMMA DispatchAnswers ==
    ASSUME TypeOK, LookedUp, NEW t \in Threads, DispatchResult(t)
    PROVE  LET id == Head(call[t].results)
           IN  /\ reported' = reported \cup {[id |-> id, correlated |-> call[t].found,
                                              early |-> call[t].early]}
               /\ call[t].found \in BOOLEAN /\ call[t].early \in BOOLEAN
               /\ id \in Answered' \cup confirmed \cup discarded
  <1> DEFINE id == Head(call[t].results)
  <1>1. /\ call[t].at = "dispatch"
        /\ reported' = reported \cup {[id |-> id, correlated |-> call[t].found,
                                       early |-> call[t].early]}
    BY DEF DispatchResult
  <1>2. call[t].found \in BOOLEAN /\ call[t].early \in BOOLEAN
    BY <1>1, CallShape DEF TypeOK
  <1>3. ~call[t].found /\ ~call[t].early => id \in confirmed \cup discarded
    BY <1>1 DEF LookedUp
  <1>4. ASSUME call[t].found \/ call[t].early PROVE id \in Answered'
    <2> DEFINE new == [id |-> id, correlated |-> call[t].found, early |-> call[t].early]
    <2>1. new \in reported' /\ (new.correlated \/ new.early) /\ new.id = id
      BY <1>1, <1>4
    <2> HIDE DEF new, id
    <2> QED BY <2>1 DEF Answered
  <1> QED BY <1>1, <1>2, <1>3, <1>4

(* Every step keeps LookedUp.                                               *)
LEMMA LookedUpNext == Tracking /\ LookedUp /\ [Next]_vars => LookedUp'
  <1> SUFFICES ASSUME Tracking, LookedUp, [Next]_vars, NEW u \in Threads
               PROVE  /\ call'[u].at = "dispatch" /\ ~call'[u].found /\ ~call'[u].early
                           => Head(call'[u].results) \in confirmed' \cup discarded'
                      /\ call'[u].at = "forget"
                           => Head(call'[u].results) \in Answered' \cup confirmed' \cup discarded'
    BY DEF LookedUp
  <1>0. TypeOK /\ Accounted /\ call \in [Threads -> Calls]
    BY DEF Tracking, TypeOK
  <1>1. CASE call'[u] = call[u]
    BY <1>1, HistoryGrows DEF LookedUp
  <1>2. ASSUME call'[u] # call[u], call'[u].at = "dispatch", ~call'[u].found, ~call'[u].early
        PROVE  Head(call'[u].results) \in confirmed' \cup discarded'
    <2>1. LookupResult(u)
      BY <1>0, <1>2, CallCameFrom
    <2>2. /\ call'[u].results = call[u].results
          /\ call'[u].found = (Head(call[u].results) \in DOMAIN pendingCommands)
          /\ call'[u].early = Undrained(Head(call[u].results))
      BY <1>0, <2>1 DEF LookupResult, Goto
    <2>3. /\ Head(call[u].results) \notin DOMAIN pendingCommands
          /\ Head(call[u].results) \in AcceptedIDs \ Queued
      BY <1>2, <2>2 DEF Undrained
    <2> QED BY <1>0, <2>2, <2>3, HistoryGrows DEF Accounted
  <1>3. ASSUME call'[u] # call[u], call'[u].at = "forget"
        PROVE  Head(call'[u].results) \in Answered' \cup confirmed' \cup discarded'
    <2>1. DispatchResult(u)
      BY <1>0, <1>3, CallCameFrom
    <2>2. call'[u].results = call[u].results
      BY <1>0, <2>1 DEF DispatchResult, Goto
    <2>3. Head(call[u].results) \in Answered' \cup confirmed \cup discarded
      BY <1>0, <2>1, DispatchAnswers
    <2> QED BY <2>2, <2>3, HistoryGrows
  <1> QED BY <1>1, <1>2, <1>3

(* Reporting is inductive, given Tracking.                                  *)
LEMMA ReportingNext == Tracking /\ Reporting /\ [Next]_vars => Reporting'
  <1> SUFFICES ASSUME Tracking, Reporting, [Next]_vars PROVE Reporting'
    OBVIOUS
  <1>0. /\ TypeOK /\ Accounted
        /\ LookedUp /\ ReportedBeforeForgotten /\ UncorrelatedExplained
    BY DEF Tracking, Reporting
  <1>1. ReportedBeforeForgotten'
    <2>1. CASE \E t \in Threads : ForgetResult(t)
      <3>1. PICK t \in Threads : ForgetResult(t)
        BY <2>1
      <3>2. PICK id : id = Head(call[t].results)
        OBVIOUS
      <3>3. call[t].at = "forget" /\ confirmed' = confirmed \cup ({id} \cap DOMAIN pendingCommands)
        BY <3>1, <3>2 DEF ForgetResult
      <3>4. id \in DOMAIN pendingCommands => id \in Answered
        BY <1>0, <3>2, <3>3 DEF LookedUp, Accounted
      <3> QED BY <1>0, <3>3, <3>4, HistoryGrows DEF ReportedBeforeForgotten
    <2>2. CASE UNCHANGED confirmed
      BY <1>0, <2>2, HistoryGrows DEF ReportedBeforeForgotten
    <2> QED
      BY <2>1, <2>2 DEF Next, ThreadStep, AppRegister, Age, AppDrain, QueueCheck, Request,
         QueueAssign, QueueReject, QueueAppend, Activity, DispatchInfo, Drain,
         WriteCommands, LookupResult, DispatchResult, DispatchRefused, EvictDevices,
         EvictCommands, queues, history, vars
  <1>2. UncorrelatedExplained'
    <2>1. ASSUME NEW r \in reported
          PROVE  r.correlated \/ r.early \/ r.id \in discarded' \cup Answered'
      BY <1>0, HistoryGrows DEF UncorrelatedExplained
    <2>2. CASE \E t \in Threads : DispatchResult(t)
      <3>1. PICK t \in Threads : DispatchResult(t)
        BY <2>2
      <3> DEFINE new == [id |-> Head(call[t].results), correlated |-> call[t].found,
                         early |-> call[t].early]
      <3>2. /\ reported' = reported \cup {new}
            /\ new.id \in Answered' \cup confirmed \cup discarded
        BY <1>0, <3>1, DispatchAnswers
      <3> HIDE DEF new
      <3>3. new.id \in Answered' \cup discarded'
        BY <1>0, <3>2, HistoryGrows DEF ReportedBeforeForgotten
      <3> QED BY <2>1, <3>2, <3>3 DEF UncorrelatedExplained
    <2>3. CASE UNCHANGED reported
      BY <2>1, <2>3 DEF UncorrelatedExplained
    <2> QED
      BY <2>2, <2>3 DEF Next, ThreadStep, AppRegister, Age, AppDrain, QueueCheck, Request,
         QueueAssign, QueueReject, QueueAppend, Activity, DispatchInfo, Drain, WriteCommands,
         LookupResult, DispatchRefused, ForgetResult, EvictDevices, EvictCommands, queues,
         history, vars
  <1>3. LookedUp'
    BY <1>0, LookedUpNext
  <1> QED BY <1>1, <1>2, <1>3 DEF Reporting

(* Reporting holds in every behaviour.                                      *)
LEMMA ReportingHolds == Spec => []Reporting
  <1>1. Init => Reporting
    BY DEF Init, Reporting, LookedUp, ReportedBeforeForgotten, UncorrelatedExplained, Idle
  <1> QED BY <1>1, ReportingNext, TrackingHolds, PTL DEF Spec

(* HandleDeviceCmd forgets a command only after its result went to the      *)
(* callback queue together with it, or was named before it was drained,     *)
(* however confirmations of it interleave, are refused and come again.      *)
THEOREM ReportedBeforeForgottenHolds == Spec => []ReportedBeforeForgotten
  BY ReportingHolds, PTL DEF Reporting

(* HandleDeviceCmd hands a result to the callback without its command only  *)
(* for an ID that was not drained yet, or was never assigned, for a command *)
(* an eviction took, and for one answered before.                           *)
THEOREM UncorrelatedHolds == Spec => []UncorrelatedExplained
  BY ReportingHolds, PTL DEF Reporting

-----------------------------------------------------------------------------
(* The order of a caller's commands. *)

(* A goroutine about to append has appended only lower IDs before.          *)
CallerIDs ==
    \A t \in Threads, a \in accepted :
        call[t].at = "append" /\ a.by = t => a.id < call[t].id

(* CallerIDs is inductive: the counter is beyond every accepted ID.         *)
LEMMA CallerIDsNext == TypeOK /\ FreshIDs /\ CallerIDs /\ [Next]_vars => CallerIDs'
  <1> SUFFICES ASSUME TypeOK, FreshIDs, CallerIDs, [Next]_vars PROVE CallerIDs'
    OBVIOUS
  <1>0. /\ call \in [Threads -> Calls] /\ cmdID \in Nat
        /\ \A a \in accepted : a.id \in Nat /\ a.id <= cmdID
    <2>1. call \in [Threads -> Calls] /\ cmdID \in Nat
      BY DEF TypeOK
    <2>2. ASSUME NEW a \in accepted PROVE a.id \in Nat /\ a.id <= cmdID
      <3>1. a.id \in AcceptedIDs
        BY DEF AcceptedIDs
      <3>2. AcceptedIDs \subseteq 1..cmdID
        BY DEF FreshIDs
      <3>3. a.id \in 1..cmdID
        BY <3>1, <3>2
      <3> QED BY <2>1, <3>3
    <2> QED BY <2>1, <2>2
  <1>1. ASSUME NEW t \in Threads, QueueAssign(t) PROVE CallerIDs'
    <2>1. /\ call'[t].id = cmdID + 1 /\ UNCHANGED accepted
          /\ \A u \in Threads \ {t} : call'[u] = call[u]
      BY <1>0, <1>1 DEF QueueAssign, Goto, history
    <2> QED BY <1>0, <2>1 DEF CallerIDs
  <1>2. ASSUME NEW t \in Threads, QueueAppend(t) PROVE CallerIDs'
    <2>1. /\ accepted' = accepted \cup {[id |-> call[t].id, sn |-> call[t].sn, by |-> t]}
          /\ call'[t].at # "append"
          /\ \A u \in Threads \ {t} : call'[u] = call[u]
      BY <1>0, <1>2 DEF QueueAppend, Return, Goto, Idle
    <2> QED BY <2>1 DEF CallerIDs
  <1>3. CASE /\ \A t \in Threads : ~QueueAssign(t)
             /\ \A t \in Threads : ~QueueAppend(t)
    <2>1. UNCHANGED accepted
      BY <1>3 DEF Next, ThreadStep, AppRegister, Age, AppDrain, QueueCheck, Request,
         QueueReject, Activity, DispatchInfo, Drain, WriteCommands, LookupResult,
         DispatchResult, DispatchRefused, ForgetResult, EvictDevices, EvictCommands,
         queues, history, vars
    <2>2. \A u \in Threads : call'[u].at = "append" => call'[u] = call[u]
      BY <1>3, CallCameFrom
    <2> QED BY <2>1, <2>2 DEF CallerIDs
  <1> QED BY <1>1, <1>2, <1>3

(* CallerOrder is inductive, given Tracking, SentAccepted and CallerIDs.    *)
LEMMA CallerOrderNext ==
    Tracking /\ Sending /\ CallerIDs /\ CallerOrder /\ [Next]_vars => CallerOrder'
  <1> SUFFICES ASSUME Tracking, Sending, CallerIDs, CallerOrder, [Next]_vars
               PROVE  CallerOrder'
    OBVIOUS
  <1>0. TypeOK
    BY DEF Tracking
  <1>1. ASSUME NEW t \in Threads, QueueAppend(t) PROVE CallerOrder'
    <2>1. PICK sn \in SerialNumbers, id \in CommandIDs : sn = call[t].sn /\ id = call[t].id
      BY <1>0, <1>1, CallShape DEF QueueAppend, TypeOK
    <2>2. id \notin AcceptedIDs /\ call[t].at = "append"
      BY <1>1, <2>1 DEF QueueAppend, Tracking, FreshIDs
    <2>3. /\ Stream(sn)' = Append(Stream(sn), id)
          /\ \A s \in SerialNumbers \ {sn} : Stream(s)' = Stream(s)
          /\ accepted' = accepted \cup {[id |-> id, sn |-> sn, by |-> t]}
      BY <1>0, <1>1, <2>1, StreamGrows
    <2>4. /\ \A s \in SerialNumbers : Stream(s) \in Seq(CommandIDs)
          /\ \A s \in SerialNumbers : Range(Stream(s)) \subseteq AcceptedIDs
      BY <1>0, StreamFacts DEF Sending, SentAccepted, IDsIn
    <2>5. ASSUME NEW s \in SerialNumbers, NEW k \in DOMAIN Stream(s)
          PROVE  Stream(s)[k] # id /\ Stream(s)'[k] = Stream(s)[k]
      <3>1. Stream(s)[k] # id
        BY <2>2, <2>4 DEF Range
      <3>2. CASE s = sn
        <4>1. Append(Stream(sn), id)[k] = Stream(sn)[k]
          BY <2>4, <3>2
        <4> QED BY <2>3, <3>1, <3>2, <4>1
      <3>3. CASE s # sn
        BY <2>3, <3>1, <3>3
      <3> QED BY <3>2, <3>3
    <2> SUFFICES ASSUME NEW s \in SerialNumbers,
                        NEW i \in DOMAIN Stream(s)', NEW j \in DOMAIN Stream(s)',
                        i < j, NEW u \in Threads,
                        [id |-> Stream(s)'[i], sn |-> s, by |-> u] \in accepted',
                        [id |-> Stream(s)'[j], sn |-> s, by |-> u] \in accepted'
                 PROVE  Stream(s)'[i] < Stream(s)'[j]
      BY DEF CallerOrder
    <2>6. /\ DOMAIN Stream(s) = 1..Len(Stream(s)) /\ Len(Stream(s)) \in Nat
          /\ s = sn => DOMAIN Stream(s)' = 1..Len(Stream(s)) + 1
          /\ s = sn => Stream(s)'[Len(Stream(s)) + 1] = id
          /\ s # sn => DOMAIN Stream(s)' = DOMAIN Stream(s)
      <3>1. DOMAIN Stream(s) = 1..Len(Stream(s)) /\ Len(Stream(s)) \in Nat
        BY <2>4
      <3>2. CASE s = sn
        <4>1. /\ DOMAIN Append(Stream(sn), id) = 1..Len(Stream(sn)) + 1
              /\ Append(Stream(sn), id)[Len(Stream(sn)) + 1] = id
          BY <2>4
        <4> QED BY <2>3, <3>1, <3>2, <4>1
      <3>3. CASE s # sn
        BY <2>3, <3>1, <3>3
      <3> QED BY <3>2, <3>3
    <2>7. CASE j \in DOMAIN Stream(s)
      <3>1. i \in DOMAIN Stream(s)
        BY <2>6, <2>7
      <3>2. /\ [id |-> Stream(s)[i], sn |-> s, by |-> u] \in accepted
            /\ [id |-> Stream(s)[j], sn |-> s, by |-> u] \in accepted
        BY <2>3, <2>5, <2>7, <3>1
      <3>3. Stream(s)[i] < Stream(s)[j]
        BY <2>7, <3>1, <3>2 DEF CallerOrder
      <3> QED BY <2>5, <2>7, <3>1, <3>3
    <2>8. CASE j \notin DOMAIN Stream(s)
      <3>1. s = sn /\ i \in DOMAIN Stream(s) /\ Stream(s)'[j] = id
        BY <2>6, <2>8
      <3>2. u = t
        <4>1. [id |-> id, sn |-> s, by |-> u] \notin accepted
          BY <2>2 DEF AcceptedIDs
        <4> QED BY <2>3, <3>1, <4>1
      <3>3. [id |-> Stream(s)[i], sn |-> s, by |-> t] \in accepted
        BY <2>3, <2>5, <3>1, <3>2
      <3>4. Stream(s)[i] < id
        BY <2>1, <2>2, <3>3 DEF CallerIDs
      <3> QED BY <2>5, <3>1, <3>4
    <2> QED BY <2>7, <2>8
  <1>2. CASE /\ UNCHANGED accepted
             /\ \A s \in SerialNumbers : Stream(s)' \in {Stream(s), sent[s]}
    <2>1. ASSUME NEW s \in SerialNumbers, NEW i \in DOMAIN Stream(s)'
          PROVE  i \in DOMAIN Stream(s) /\ Stream(s)'[i] = Stream(s)[i]
      BY <1>0, <1>2, ShorterStream
    <2> QED BY <1>2, <2>1 DEF CallerOrder
  <1> QED BY <1>0, <1>1, <1>2, StreamSteps

(* Commands one goroutine queues for a device are sent in that order, in one  *)
(* response or in several, although IDs are taken before the lock under which *)
(* they are appended.                                                         *)
THEOREM CallerOrderHolds == Spec => []CallerOrder
  <1>1. Init => CallerIDs /\ CallerOrder
    BY DEF Init, CallerIDs, CallerOrder
  <1>2. Tracking => TypeOK /\ FreshIDs
    BY DEF Tracking
  <1> QED BY <1>1, <1>2, CallerIDsNext, CallerOrderNext, TrackingHolds, SendingHolds, PTL DEF Spec
===============================================================================
