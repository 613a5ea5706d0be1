---------------------------- MODULE ParsersProofs -----------------------------
(***************************************************************************)
(* What parseCommandResults and parseKVPairs return, for every body: the   *)
(* invariants of their loops.                                              *)
(***************************************************************************)
EXTENDS Parsers, WellFoundedInduction, TLAPS

Parts   == [key : {"ID", "RETURN", "CMD", "none"}, value : Values]
Partial == [id : Numbers \cup {0}, ret : Numbers \cup {0}, cmd : Values]

(* The loop of parseCommandResults. Until the first ID the current result  *)
(* holds what the whole beginning of the body sets; once the loop is over  *)
(* it is in records.                                                       *)
LoopShape ==
    /\ body \in Seq(Parts)
    /\ at \in 1..Len(body) + 1
    /\ records \in Seq(Results)
    /\ current \in Partial
    /\ hasID \in BOOLEAN
    /\ from \in Seq(Nat)
    /\ Len(from) = Len(records) + (IF hasID THEN 1 ELSE 0)
    /\ \A k \in DOMAIN from : from[k] \in 1..at - 1
    /\ (~hasID /\ records # <<>>) => at = Len(body) + 1

LoopStarts ==
    /\ \A k \in DOMAIN from : IsID(body[from[k]])
    /\ \A i \in 1..at - 1 : IsID(body[i]) => \E k \in DOMAIN from : from[k] = i
    /\ \A k \in DOMAIN from : \A l \in DOMAIN from : k < l => from[k] < from[l]

LoopFields ==
    /\ \A k \in DOMAIN from :
         /\ ResultAt(k).id = body[from[k]].value
         /\ IsLast(IsReturn, FirstPart(k), LastPart(k), ResultAt(k).ret, 0)
         /\ IsLast(IsCMD, FirstPart(k), LastPart(k), ResultAt(k).cmd, Blank)
    /\ (~hasID /\ records = <<>>) =>
         /\ IsLast(IsReturn, 1, at - 1, current.ret, 0)
         /\ IsLast(IsCMD, 1, at - 1, current.cmd, Blank)

LoopInv == parser = "devicecmd" => LoopShape /\ LoopStarts /\ LoopFields

LEMMA ValuesFacts ==
    /\ Blank \in Values /\ Numbers \subseteq Values
    /\ Numbers \subseteq Int
  BY ValuesAssumption DEF Values

LEMMA LoopInit == Init => LoopInv
  <1> SUFFICES ASSUME Init, parser = "devicecmd"
               PROVE  LoopShape /\ LoopStarts /\ LoopFields
    BY DEF LoopInv
  <1>1. body \in Seq(Parts)
    BY BodiesAssumption DEF Init, Parts
  <1>2. LoopShape
    <2>1. Len(body) \in Nat
      BY <1>1
    <2>2. at = 1 /\ records = <<>> /\ from = <<>> /\ current = EmptyResult /\ hasID = FALSE
      BY DEF Init
    <2>3. records \in Seq(Results) /\ from \in Seq(Nat) /\ Len(from) = 0 /\ Len(records) = 0
      BY <2>2
    <2>4. current \in Partial
      BY <2>2, ValuesFacts DEF Partial, EmptyResult
    <2>5. \A k \in DOMAIN from : from[k] \in 1..at - 1
      BY <2>2
    <2>6. Len(from) = Len(records) + (IF hasID THEN 1 ELSE 0)
      BY <2>2, <2>3
    <2>7. at \in 1..Len(body) + 1
      BY <2>1, <2>2
    <2>8. hasID \in BOOLEAN /\ ~(~hasID /\ records # <<>>)
      BY <2>2
    <2> QED BY <1>1, <2>3, <2>4, <2>5, <2>6, <2>7, <2>8 DEF LoopShape
  <1>3. LoopStarts
    BY DEF Init, LoopStarts
  <1>4. LoopFields
    BY DEF Init, LoopFields, IsLast, EmptyResult
  <1> QED BY <1>2, <1>3, <1>4

-----------------------------------------------------------------------------
(* One more part: it sets the field, or leaves what was last.              *)

LEMMA ReturnStays ==
  ASSUME NEW lo \in Nat, NEW hi \in Nat, NEW v, IsLast(IsReturn, lo, hi, v, 0),
         ~IsReturn(body[hi + 1])
  PROVE  IsLast(IsReturn, lo, hi + 1, v, 0)
  BY DEF IsLast

LEMMA ReturnSets ==
  ASSUME NEW lo \in Nat, NEW hi \in Nat, lo <= hi + 1, IsReturn(body[hi + 1])
  PROVE  IsLast(IsReturn, lo, hi + 1, body[hi + 1].value, 0)
  BY DEF IsLast

LEMMA CMDStays ==
  ASSUME NEW lo \in Nat, NEW hi \in Nat, NEW v, IsLast(IsCMD, lo, hi, v, Blank),
         ~IsCMD(body[hi + 1])
  PROVE  IsLast(IsCMD, lo, hi + 1, v, Blank)
  BY DEF IsLast

LEMMA CMDSets ==
  ASSUME NEW lo \in Nat, NEW hi \in Nat, lo <= hi + 1, IsCMD(body[hi + 1])
  PROVE  IsLast(IsCMD, lo, hi + 1, body[hi + 1].value, Blank)
  BY DEF IsLast

(* A part is of one kind. *)
LEMMA OneKind ==
  ASSUME NEW p
  PROVE  /\ IsID(p) => ~IsReturn(p) /\ ~IsCMD(p)
         /\ IsReturn(p) => ~IsCMD(p)
  BY DEF IsID, IsReturn, IsCMD

(* Where the loop stands when it makes a turn. *)
LEMMA Turn ==
  ASSUME LoopShape, parser = "devicecmd", More, NextItem
  PROVE  /\ at \in 1..Len(body) /\ at \in Nat /\ at - 1 \in Nat /\ (at - 1) + 1 = at
         /\ at' = at + 1 /\ at' - 1 = at /\ at' \in 1..Len(body) + 1
         /\ body' = body /\ parser' = parser
         /\ Item = body[at] /\ Item \in Parts
         /\ ~hasID => records = <<>> /\ from = <<>>
  <1>1. Len(body) \in Nat /\ at \in 1..Len(body) + 1 /\ body \in Seq(Parts)
    BY DEF LoopShape
  <1>2. Input = body
    BY DEF Input
  <1>3. at \in 1..Len(body)
    BY <1>1, <1>2 DEF More
  <1>4. at' = at + 1 /\ body' = body /\ parser' = parser
    BY DEF NextItem
  <1>5. Item = body[at] /\ Item \in Parts
    BY <1>1, <1>2, <1>3 DEF Item
  <1>6. ASSUME ~hasID PROVE records = <<>> /\ from = <<>>
    <2>1. records = <<>>
      BY <1>1, <1>3, <1>6 DEF LoopShape
    <2>2. Len(from) = 0 /\ from \in Seq(Nat)
      BY <2>1, <1>6 DEF LoopShape
    <2> QED BY <2>1, <2>2
  <1> QED BY <1>1, <1>3, <1>4, <1>5, <1>6

(* The last result is the current one, and has the number its ID gave.     *)
LEMMA CurrentIsResult ==
  ASSUME LoopShape, LoopStarts, LoopFields, hasID
  PROVE  current \in Results /\ ResultAt(Len(from)) = current /\ Len(from) = Len(records) + 1
         /\ Len(from) \in DOMAIN from
  <1>1. Len(records) \in Nat /\ Len(from) = Len(records) + 1 /\ from \in Seq(Nat)
    BY DEF LoopShape
  <1>2. ResultAt(Len(from)) = current
    BY <1>1 DEF ResultAt
  <1>3. Len(from) \in DOMAIN from
    BY <1>1
  <1>4. current.id \in Numbers
    BY <1>2, <1>3 DEF LoopStarts, LoopFields, IsID
  <1>5. current \in Partial
    BY DEF LoopShape
  <1>6. current \in Results
    BY <1>4, <1>5 DEF Partial, Results
  <1> QED BY <1>1, <1>2, <1>3, <1>6

-----------------------------------------------------------------------------
(* The turns of parseCommandResults.                                       *)

(* A number after ID=: what was current is flushed, and stays the result   *)
(* it was; the new one has its ID only.                                    *)
LEMMA StartResultKeeps ==
  ASSUME LoopShape, LoopStarts, LoopFields, parser = "devicecmd", StartResult
  PROVE  LoopShape' /\ LoopStarts' /\ LoopFields'
  <1>1. /\ More /\ NextItem /\ IsID(Item)
        /\ records' = Flushed /\ hasID' = TRUE /\ from' = Append(from, at)
        /\ current' = [(IF hasID THEN EmptyResult ELSE current) EXCEPT !.id = Item.value]
    BY DEF StartResult
  <1>2. /\ at \in 1..Len(body) /\ at \in Nat /\ at - 1 \in Nat /\ (at - 1) + 1 = at
        /\ at' = at + 1 /\ at' - 1 = at /\ at' \in 1..Len(body) + 1
        /\ body' = body /\ parser' = parser
        /\ Item = body[at] /\ Item \in Parts
        /\ ~hasID => records = <<>> /\ from = <<>>
    BY <1>1, Turn
  <1>3. /\ body \in Seq(Parts) /\ records \in Seq(Results) /\ current \in Partial
        /\ from \in Seq(Nat) /\ Len(from) \in Nat /\ Len(records) \in Nat
        /\ Len(from) = Len(records) + (IF hasID THEN 1 ELSE 0)
        /\ \A k \in DOMAIN from : from[k] \in 1..at - 1
    BY DEF LoopShape
  <1>4. /\ Len(from) \in Nat /\ DOMAIN from = 1..Len(from)
        /\ \A k \in 1..Len(from) : from[k] \in Nat /\ from[k] \in 1..at - 1
    <2>1. from \in Seq(Nat)
      BY <1>3
    <2> QED BY <1>3, <2>1
  <1>5. /\ from' \in Seq(Nat) /\ Len(from') = Len(from) + 1
        /\ DOMAIN from' = 1..Len(from) + 1
        /\ from'[Len(from) + 1] = at
        /\ \A k \in 1..Len(from) : from'[k] = from[k]
    BY <1>1, <1>2, <1>3
  <1>6. Item.value \in Numbers /\ ~IsReturn(Item) /\ ~IsCMD(Item)
    BY <1>1, OneKind DEF IsID
  <1>7. /\ current'.id = Item.value /\ current' \in Partial
        /\ hasID => current'.ret = 0 /\ current'.cmd = Blank
        /\ ~hasID => current'.ret = current.ret /\ current'.cmd = current.cmd
    <2>1. CASE hasID
      BY <1>1, <1>6, <2>1, ValuesFacts DEF EmptyResult, Partial
    <2>2. CASE ~hasID
      BY <1>1, <1>3, <1>6, <2>2 DEF Partial
    <2> QED BY <2>1, <2>2
  <1>8. /\ records' \in Seq(Results) /\ Len(records') = Len(from)
        /\ \A k \in 1..Len(from) : records'[k] = ResultAt(k)
    <2>1. CASE hasID
      <3>1. current \in Results /\ ResultAt(Len(from)) = current /\ Len(from) = Len(records) + 1
        BY <2>1, CurrentIsResult
      <3>2. records' = Append(records, current)
        BY <1>1, <2>1 DEF Flushed
      <3> QED BY <1>3, <3>1, <3>2 DEF ResultAt
    <2>2. CASE ~hasID
      <3>1. records' = <<>> /\ from = <<>>
        BY <1>1, <1>2, <2>2 DEF Flushed
      <3> QED BY <3>1
    <2> QED BY <2>1, <2>2
  <1>9. LoopShape'
    <2>1. \A k \in DOMAIN from' : from'[k] \in 1..at' - 1
      BY <1>2, <1>4, <1>5
    <2>2. Len(from') = Len(records') + (IF hasID' THEN 1 ELSE 0)
      BY <1>1, <1>5, <1>8
    <2>3. hasID' \in BOOLEAN /\ ~(~hasID' /\ records' # <<>>)
      BY <1>1
    <2>4. body' \in Seq(Parts) /\ at' \in 1..Len(body') + 1
      BY <1>2, <1>3
    <2> QED BY <1>5, <1>7, <1>8, <2>1, <2>2, <2>3, <2>4 DEF LoopShape
  <1>10. LoopStarts'
    <2>1. \A k \in DOMAIN from' : IsID(body'[from'[k]])
      BY <1>1, <1>2, <1>4, <1>5 DEF LoopStarts
    <2>2. ASSUME NEW i \in 1..at' - 1, IsID(body'[i])
          PROVE  \E k \in DOMAIN from' : from'[k] = i
      <3>1. CASE i = at
        BY <1>5, <3>1, <1>3
      <3>2. CASE i # at
        <4>1. i \in 1..at - 1 /\ IsID(body[i])
          BY <1>2, <2>2, <3>2
        <4>2. PICK k \in DOMAIN from : from[k] = i
          BY <4>1 DEF LoopStarts
        <4>3. k \in DOMAIN from' /\ from'[k] = i
          BY <1>4, <1>5, <4>2
        <4> QED BY <4>3
      <3> QED BY <3>1, <3>2
    <2>3. ASSUME NEW k \in DOMAIN from', NEW l \in DOMAIN from', k < l
          PROVE  from'[k] < from'[l]
      <3>1. k \in DOMAIN from /\ k \in 1..Len(from) /\ from'[k] = from[k]
        BY <1>4, <1>5, <2>3
      <3>2. CASE l = Len(from) + 1
        BY <1>2, <1>4, <1>5, <3>1, <3>2
      <3>3. CASE l # Len(from) + 1
        BY <1>4, <1>5, <2>3, <3>1, <3>3 DEF LoopStarts
      <3> QED BY <3>2, <3>3
    <2> QED BY <2>1, <2>2, <2>3 DEF LoopStarts
  <1>11. LoopFields'
    <2>1. ASSUME NEW k \in DOMAIN from'
          PROVE  (/\ ResultAt(k).id = body[from[k]].value
                  /\ IsLast(IsReturn, FirstPart(k), LastPart(k), ResultAt(k).ret, 0)
                  /\ IsLast(IsCMD, FirstPart(k), LastPart(k), ResultAt(k).cmd, Blank))'
      <3>1. CASE k \in 1..Len(from)
        <4>1. k \in DOMAIN from /\ k # Len(from')
          BY <1>4, <1>5, <3>1
        <4>2. ResultAt(k)' = ResultAt(k)
          BY <1>8, <3>1 DEF ResultAt
        <4>3. FirstPart(k)' = FirstPart(k) /\ LastPart(k)' = LastPart(k) /\ from'[k] = from[k]
          <5>1. CASE k = Len(from)
            BY <1>4, <1>5, <3>1, <4>1, <5>1 DEF FirstPart, LastPart
          <5>2. CASE k # Len(from)
            BY <1>4, <1>5, <3>1, <4>1, <5>2 DEF FirstPart, LastPart
          <5> QED BY <5>1, <5>2
        <4> QED BY <1>2, <4>1, <4>2, <4>3 DEF LoopFields, IsLast, IsReturn, IsCMD
      <3>2. CASE k = Len(from) + 1
        <4>1. ResultAt(k)' = current' /\ LastPart(k)' = at /\ from'[k] = at
          BY <1>2, <1>3, <1>5, <1>8, <3>2 DEF ResultAt, LastPart
        <4>2. CASE hasID
          <5>1. FirstPart(k)' = at
            BY <1>3, <1>5, <3>2, <4>2 DEF FirstPart
          <5> QED BY <1>2, <1>6, <1>7, <4>1, <4>2, <5>1 DEF IsLast, IsReturn, IsCMD
        <4>3. CASE ~hasID
          <5>1. FirstPart(k)' = 1
            BY <1>2, <3>2, <4>3 DEF FirstPart
          <5>2. IsLast(IsReturn, 1, at - 1, current.ret, 0) /\ IsLast(IsCMD, 1, at - 1, current.cmd, Blank)
            BY <1>2, <4>3 DEF LoopFields
          <5>3. IsLast(IsReturn, 1, at, current.ret, 0) /\ IsLast(IsCMD, 1, at, current.cmd, Blank)
            BY <1>2, <1>6, <5>2, ReturnStays, CMDStays
          <5> QED BY <1>2, <1>7, <4>1, <4>3, <5>1, <5>3 DEF IsLast, IsReturn, IsCMD
        <4> QED BY <4>2, <4>3
      <3> QED BY <1>5, <1>3, <3>1, <3>2
    <2> QED BY <1>1, <2>1 DEF LoopFields
  <1> QED BY <1>9, <1>10, <1>11

(* Any other part: it belongs to the current result, or to what stands     *)
(* before the first.                                                       *)
LEMMA SameResultKeeps ==
  ASSUME LoopShape, LoopStarts, LoopFields, parser = "devicecmd",
         More, NextItem, ~IsID(Item), UNCHANGED <<records, hasID, from>>,
         current' \in Partial, current'.id = current.id,
         \A lo \in Nat : lo <= at /\ IsLast(IsReturn, lo, at - 1, current.ret, 0)
                           => IsLast(IsReturn, lo, at, current'.ret, 0),
         \A lo \in Nat : lo <= at /\ IsLast(IsCMD, lo, at - 1, current.cmd, Blank)
                           => IsLast(IsCMD, lo, at, current'.cmd, Blank)
  PROVE  LoopShape' /\ LoopStarts' /\ LoopFields'
  <1>1. /\ at \in 1..Len(body) /\ at \in Nat /\ at - 1 \in Nat
        /\ at' = at + 1 /\ at' - 1 = at /\ at' \in 1..Len(body) + 1
        /\ body' = body /\ Item = body[at]
        /\ ~hasID => records = <<>> /\ from = <<>>
    BY Turn
  <1>2. records' = records /\ hasID' = hasID /\ from' = from
    OBVIOUS
  <1>3. /\ Len(from) \in Nat /\ DOMAIN from = 1..Len(from)
        /\ \A k \in 1..Len(from) : from[k] \in Nat /\ from[k] \in 1..at - 1
    <2>1. from \in Seq(Nat)
      BY DEF LoopShape
    <2> QED BY <2>1 DEF LoopShape
  <1>4. LoopShape'
    <2>1. \A k \in DOMAIN from' : from'[k] \in 1..at' - 1
      BY <1>1, <1>2, <1>3
    <2>2. ~(~hasID' /\ records' # <<>>)
      BY <1>1, <1>2
    <2>3. body' \in Seq(Parts) /\ at' \in 1..Len(body') + 1
      BY <1>1 DEF LoopShape
    <2> QED BY <1>2, <2>1, <2>2, <2>3 DEF LoopShape
  <1>5. LoopStarts'
    <2>1. ASSUME NEW i \in 1..at' - 1, IsID(body'[i])
          PROVE  \E k \in DOMAIN from' : from'[k] = i
      <3>1. i # at
        BY <1>1, <2>1
      <3>2. i \in 1..at - 1 /\ IsID(body[i])
        BY <1>1, <2>1, <3>1
      <3> QED BY <1>2, <3>2 DEF LoopStarts
    <2> QED BY <1>1, <1>2, <2>1 DEF LoopStarts, IsID
  <1>6. LoopFields'
    <2>1. ASSUME NEW k \in DOMAIN from'
          PROVE  (/\ ResultAt(k).id = body[from[k]].value
                  /\ IsLast(IsReturn, FirstPart(k), LastPart(k), ResultAt(k).ret, 0)
                  /\ IsLast(IsCMD, FirstPart(k), LastPart(k), ResultAt(k).cmd, Blank))'
      <3>1. k \in DOMAIN from /\ k \in 1..Len(from) /\ hasID
        BY <1>1, <1>2, <1>3
      <3>2. /\ Len(from) = Len(records) + 1 /\ ResultAt(Len(from)) = current
        BY <3>1, CurrentIsResult
      <3>3. FirstPart(k)' = FirstPart(k) /\ FirstPart(k) \in Nat /\ FirstPart(k) <= at
        BY <1>1, <1>2, <1>3, <3>1 DEF FirstPart
      <3>4. CASE k = Len(from)
        <4>1. LastPart(k) = at - 1 /\ LastPart(k)' = at
          BY <1>1, <1>2, <3>4 DEF LastPart
        <4>2. ResultAt(k)' = current' /\ ResultAt(k) = current
          BY <1>2, <1>3, <3>2, <3>4 DEF ResultAt
        <4>3. /\ current.id = body[from[k]].value
              /\ IsLast(IsReturn, FirstPart(k), at - 1, current.ret, 0)
              /\ IsLast(IsCMD, FirstPart(k), at - 1, current.cmd, Blank)
          BY <3>1, <4>1, <4>2 DEF LoopFields
        <4>4. /\ IsLast(IsReturn, FirstPart(k), at, current'.ret, 0)
              /\ IsLast(IsCMD, FirstPart(k), at, current'.cmd, Blank)
          BY <3>3, <4>3
        <4> QED BY <1>1, <1>2, <3>3, <4>1, <4>2, <4>3, <4>4 DEF IsLast, IsReturn, IsCMD
      <3>5. CASE k # Len(from)
        <4>1. LastPart(k)' = LastPart(k)
          BY <1>2, <3>5 DEF LastPart
        <4>2. ResultAt(k)' = ResultAt(k)
          BY <1>2, <1>3, <3>1, <3>2, <3>5 DEF ResultAt, LoopShape
        <4> QED BY <1>1, <1>2, <3>1, <3>3, <4>1, <4>2 DEF LoopFields, IsLast, IsReturn, IsCMD
      <3> QED BY <3>4, <3>5
    <2>2. ASSUME ~hasID
          PROVE  (/\ IsLast(IsReturn, 1, at - 1, current.ret, 0)
                  /\ IsLast(IsCMD, 1, at - 1, current.cmd, Blank))'
      <3>1. IsLast(IsReturn, 1, at - 1, current.ret, 0) /\ IsLast(IsCMD, 1, at - 1, current.cmd, Blank)
        BY <1>1, <2>2 DEF LoopFields
      <3>2. IsLast(IsReturn, 1, at, current'.ret, 0) /\ IsLast(IsCMD, 1, at, current'.cmd, Blank)
        BY <1>1, <3>1
      <3> QED BY <1>1, <3>2 DEF IsLast, IsReturn, IsCMD
    <2> QED BY <1>2, <2>1, <2>2 DEF LoopFields
  <1> QED BY <1>4, <1>5, <1>6

LEMMA SetFieldKeeps ==
  ASSUME LoopShape, LoopStarts, LoopFields, parser = "devicecmd", SetField
  PROVE  LoopShape' /\ LoopStarts' /\ LoopFields'
  <1>1. /\ More /\ NextItem /\ UNCHANGED <<records, hasID, from>>
    BY DEF SetField
  <1>2. /\ at \in Nat /\ at - 1 \in Nat /\ (at - 1) + 1 = at
        /\ Item = body[at] /\ Item \in Parts
    BY <1>1, Turn
  <1>3. current \in Partial
    BY DEF LoopShape
  <1>4. CASE IsReturn(Item) /\ current' = [current EXCEPT !.ret = Item.value]
    <2>1. /\ current' \in Partial /\ current'.id = current.id /\ current'.cmd = current.cmd
          /\ current'.ret = body[at].value /\ ~IsID(Item) /\ ~IsCMD(Item)
      BY <1>2, <1>3, <1>4, OneKind DEF Partial, IsReturn
    <2>2. \A lo \in Nat : lo <= at => IsLast(IsReturn, lo, at, current'.ret, 0)
      BY <1>2, <1>4, <2>1, ReturnSets
    <2>3. \A lo \in Nat : lo <= at /\ IsLast(IsCMD, lo, at - 1, current.cmd, Blank)
                           => IsLast(IsCMD, lo, at, current'.cmd, Blank)
      BY <1>2, <2>1, CMDStays
    <2> QED BY <1>1, <2>1, <2>2, <2>3, SameResultKeeps
  <1>5. CASE IsCMD(Item) /\ current' = [current EXCEPT !.cmd = Item.value]
    <2>1. /\ current' \in Partial /\ current'.id = current.id /\ current'.ret = current.ret
          /\ current'.cmd = body[at].value /\ ~IsID(Item) /\ ~IsReturn(Item)
      BY <1>2, <1>3, <1>5, OneKind DEF Partial, Parts
    <2>2. \A lo \in Nat : lo <= at => IsLast(IsCMD, lo, at, current'.cmd, Blank)
      BY <1>2, <1>5, <2>1, CMDSets
    <2>3. \A lo \in Nat : lo <= at /\ IsLast(IsReturn, lo, at - 1, current.ret, 0)
                           => IsLast(IsReturn, lo, at, current'.ret, 0)
      BY <1>2, <2>1, ReturnStays
    <2> QED BY <1>1, <2>1, <2>2, <2>3, SameResultKeeps
  <1> QED BY <1>4, <1>5 DEF SetField

LEMMA SkipPartKeeps ==
  ASSUME LoopShape, LoopStarts, LoopFields, parser = "devicecmd", SkipPart
  PROVE  LoopShape' /\ LoopStarts' /\ LoopFields'
  <1>1. /\ More /\ NextItem /\ UNCHANGED <<records, hasID, from>> /\ current' = current
        /\ ~IsID(Item) /\ ~IsReturn(Item) /\ ~IsCMD(Item)
    BY DEF SkipPart
  <1>2. /\ at \in Nat /\ at - 1 \in Nat /\ (at - 1) + 1 = at /\ Item = body[at]
    BY <1>1, Turn
  <1>3. current' \in Partial /\ current'.id = current.id
    BY <1>1 DEF LoopShape
  <1>4. /\ \A lo \in Nat : lo <= at /\ IsLast(IsReturn, lo, at - 1, current.ret, 0)
                             => IsLast(IsReturn, lo, at, current'.ret, 0)
        /\ \A lo \in Nat : lo <= at /\ IsLast(IsCMD, lo, at - 1, current.cmd, Blank)
                             => IsLast(IsCMD, lo, at, current'.cmd, Blank)
    BY <1>1, <1>2, ReturnStays, CMDStays
  <1> QED BY <1>1, <1>3, <1>4, SameResultKeeps

(* After the loop the current result joins the others. *)
LEMMA FinishResultsKeeps ==
  ASSUME LoopShape, LoopStarts, LoopFields, parser = "devicecmd", FinishResults
  PROVE  LoopShape' /\ LoopStarts' /\ LoopFields'
  <1>1. /\ ~More /\ hasID /\ records' = Append(records, current)
        /\ current' = EmptyResult /\ hasID' = FALSE
        /\ body' = body /\ at' = at /\ from' = from
    BY DEF FinishResults, Flushed
  <1>2. /\ current \in Results /\ ResultAt(Len(from)) = current /\ Len(from) = Len(records) + 1
        /\ Len(from) \in DOMAIN from
    BY <1>1, CurrentIsResult
  <1>3. /\ Len(records) \in Nat /\ records \in Seq(Results)
        /\ Len(from) \in Nat /\ DOMAIN from = 1..Len(from)
    BY DEF LoopShape
  <1>4. /\ records' \in Seq(Results) /\ Len(records') = Len(from)
        /\ \A k \in 1..Len(from) : records'[k] = ResultAt(k)
    BY <1>1, <1>2, <1>3 DEF ResultAt
  <1>5. at = Len(body) + 1
    <2>1. Input = body /\ Len(body) \in Nat /\ at \in 1..Len(body) + 1
      BY DEF Input, LoopShape
    <2> QED BY <1>1, <2>1 DEF More
  <1>6. LoopShape'
    <2>1. current' \in Partial
      BY <1>1, ValuesFacts DEF EmptyResult, Partial
    <2>2. Len(from') = Len(records') + (IF hasID' THEN 1 ELSE 0)
      BY <1>1, <1>3, <1>4
    <2>3. hasID' \in BOOLEAN
      BY <1>1
    <2>4. at' = Len(body') + 1
      BY <1>1, <1>5
    <2>5. /\ body' \in Seq(Parts) /\ at' \in 1..Len(body') + 1 /\ from' \in Seq(Nat)
          /\ \A k \in DOMAIN from' : from'[k] \in 1..at' - 1
      BY <1>1 DEF LoopShape
    <2> QED BY <1>4, <2>1, <2>2, <2>3, <2>4, <2>5 DEF LoopShape
  <1>7. LoopStarts'
    BY <1>1 DEF LoopStarts, IsID
  <1>8. LoopFields'
    <2>1. records' # <<>>
      BY <1>2, <1>3, <1>4
    <2>2. \A k \in DOMAIN from :
             ResultAt(k)' = ResultAt(k) /\ FirstPart(k)' = FirstPart(k) /\ LastPart(k)' = LastPart(k)
      BY <1>1, <1>3, <1>4 DEF ResultAt, FirstPart, LastPart
    <2> QED BY <1>1, <2>1, <2>2 DEF LoopFields, IsLast, IsReturn, IsCMD
  <1> QED BY <1>6, <1>7, <1>8

LEMMA LoopNext == LoopInv /\ [Next]_vars => LoopInv'
  <1> SUFFICES ASSUME LoopInv, [Next]_vars, parser' = "devicecmd"
               PROVE  (LoopShape /\ LoopStarts /\ LoopFields)'
    BY DEF LoopInv
  <1>1. parser = "devicecmd"
    BY DEF Next, vars, StartResult, SetField, SkipPart, FinishResults, AttLine, UserLine,
           KVPair, AppendRecord, SkipLine, NextItem
  <1>2. LoopShape /\ LoopStarts /\ LoopFields
    BY <1>1 DEF LoopInv
  <1>3. CASE StartResult
    BY <1>1, <1>2, <1>3, StartResultKeeps
  <1>4. CASE SetField
    BY <1>1, <1>2, <1>4, SetFieldKeeps
  <1>5. CASE SkipPart
    BY <1>1, <1>2, <1>5, SkipPartKeeps
  <1>6. CASE FinishResults
    BY <1>1, <1>2, <1>6, FinishResultsKeeps
  <1>7. CASE AttLine \/ UserLine \/ KVPair
    BY <1>1, <1>7 DEF AttLine, UserLine, KVPair
  <1>8. CASE UNCHANGED vars
    <2>1. LoopShape' /\ LoopStarts'
      BY <1>2, <1>8 DEF vars, LoopShape, LoopStarts, IsID
    <2>2. LoopFields'
      BY <1>2, <1>8 DEF vars, LoopFields, ResultAt, FirstPart, LastPart, IsLast, IsReturn, IsCMD
    <2> QED BY <2>1, <2>2
  <1> QED BY <1>3, <1>4, <1>5, <1>6, <1>7, <1>8 DEF Next

LEMMA LoopInvResults == LoopInv => ResultsOfBody
  <1> SUFFICES ASSUME LoopShape, LoopStarts, LoopFields, parser = "devicecmd"
               PROVE  ResultsOfBody
    BY DEF LoopInv, ResultsOfBody
  <1>1. {from[k] : k \in DOMAIN from} = {i \in 1..at - 1 : IsID(body[i])}
    BY DEF LoopShape, LoopStarts
  <1> QED BY <1>1 DEF ResultsOfBody, LoopStarts, LoopFields

(* parseCommandResults (parser.go) gives one result for each ID= that holds *)
(* a number, whatever the body: with that number, and with the last Return  *)
(* and CMD of its own part of the body.                                     *)
THEOREM ParsedResults == Spec => []ResultsOfBody
  BY LoopInit, LoopNext, LoopInvResults, PTL DEF Spec

-----------------------------------------------------------------------------
(* parseKVPairs: the loop has seen the parts before at.                    *)
PairInv == at \in Nat \ {0} /\ LastPairWins

LEMMA PairNext == PairInv /\ [Next]_vars => PairInv'
  <1> SUFFICES ASSUME at \in Nat \ {0}, LastPairWins, [Next]_vars
               PROVE  at' \in Nat \ {0} /\ LastPairWins'
    BY DEF PairInv
  <1>1. CASE KVPair
    <2>1. /\ parser \in {"info", "registry"} /\ parser' = parser /\ body' = body
          /\ at' = at + 1 /\ Item = body[at]
          /\ info' = IF body[at].key = "none" THEN info
                     ELSE [k \in DOMAIN info \cup {KeyOf(body[at])} |->
                             IF k = KeyOf(body[at]) THEN body[at].value ELSE info[k]]
      BY <1>1 DEF KVPair, NextItem, Item, Input
    <2>2. \A p : KeyOf(p)' = KeyOf(p)
      BY <2>1 DEF KeyOf
    <2>3. at' \in Nat \ {0} /\ at' - 1 = at /\ \A i : i \in 1..at <=> i \in 1..at - 1 \/ i = at
      BY <2>1
    <2>4. /\ DOMAIN info = {KeyOf(body[i]) : i \in {j \in 1..at - 1 : body[j].key # "none"}}
          /\ \A k \in DOMAIN info : \E i \in 1..at - 1 :
               /\ body[i].key # "none" /\ KeyOf(body[i]) = k /\ info[k] = body[i].value
               /\ \A j \in i + 1..at - 1 : body[j].key # "none" => KeyOf(body[j]) # k
      BY <2>1 DEF LastPairWins
    <2>5. /\ DOMAIN info' = {KeyOf(body[i]) : i \in {j \in 1..at : body[j].key # "none"}}
          /\ \A k \in DOMAIN info' : \E i \in 1..at :
               /\ body[i].key # "none" /\ KeyOf(body[i]) = k /\ info'[k] = body[i].value
               /\ \A j \in i + 1..at : body[j].key # "none" => KeyOf(body[j]) # k
      <3>1. CASE body[at].key = "none"
        BY <2>1, <2>3, <2>4, <3>1
      <3>2. CASE body[at].key # "none"
        <4>1. DOMAIN info' = DOMAIN info \cup {KeyOf(body[at])}
          BY <2>1, <3>2
        <4>2. ASSUME NEW k \in DOMAIN info'
              PROVE  \E i \in 1..at :
                       /\ body[i].key # "none" /\ KeyOf(body[i]) = k /\ info'[k] = body[i].value
                       /\ \A j \in i + 1..at : body[j].key # "none" => KeyOf(body[j]) # k
          <5>1. CASE k = KeyOf(body[at])
            <6>1. info'[k] = body[at].value
              BY <2>1, <3>2, <4>1, <4>2, <5>1
            <6>2. at \in 1..at /\ at + 1..at = {}
              BY <2>3
            <6> QED BY <3>2, <5>1, <6>1, <6>2
          <5>2. CASE k # KeyOf(body[at])
            <6>1. k \in DOMAIN info /\ info'[k] = info[k]
              BY <2>1, <3>2, <4>1, <4>2, <5>2
            <6>2. PICK i \in 1..at - 1 :
                    /\ body[i].key # "none" /\ KeyOf(body[i]) = k /\ info[k] = body[i].value
                    /\ \A j \in i + 1..at - 1 : body[j].key # "none" => KeyOf(body[j]) # k
              BY <2>4, <6>1
            <6>3. i \in 1..at /\ \A j \in i + 1..at : j \in i + 1..at - 1 \/ j = at
              BY <2>3
            <6> QED BY <5>2, <6>1, <6>2, <6>3
          <5> QED BY <5>1, <5>2
        <4>3. DOMAIN info' = {KeyOf(body[i]) : i \in {j \in 1..at : body[j].key # "none"}}
          BY <2>3, <2>4, <3>2, <4>1
        <4> QED BY <4>2, <4>3
      <3> QED BY <3>1, <3>2
    <2> QED BY <2>1, <2>2, <2>3, <2>5 DEF LastPairWins
  <1>2. CASE UNCHANGED vars
    BY <1>2 DEF vars, LastPairWins, KeyOf
  <1>3. CASE StartResult \/ SetField \/ SkipPart \/ FinishResults \/ AttLine \/ UserLine
    BY <1>3 DEF StartResult, SetField, SkipPart, FinishResults, AttLine, UserLine,
                AppendRecord, SkipLine, NextItem, LastPairWins
  <1> QED BY <1>1, <1>2, <1>3 DEF Next

(* parseKVPairs (parser.go) maps each key of a body, under the name the     *)
(* caller looks it up by, to the last value the body gives it.              *)
THEOREM ParsedPairs == Spec => []LastPairWins
  <1>1. Init => PairInv
    BY DEF Init, PairInv, LastPairWins
  <1>2. PairInv => LastPairWins
    BY DEF PairInv
  <1> QED BY <1>1, <1>2, PairNext, PTL DEF Spec

-----------------------------------------------------------------------------
(* What the loops over the lines of a body collect.                        *)

(* f lists the numbers of 1..n that are good, in their order, and r what    *)
(* rec has for them.                                                       *)
Collected(f, r, n, good, rec) ==
    /\ \A x \in 1..n : x \in good <=> \E k \in 1..Len(f) : f[k] = x
    /\ \A k \in 1..Len(f) : f[k] \in 1..n /\ r[k] = rec[f[k]]
    /\ \A k, l \in 1..Len(f) : k < l => f[k] < f[l]

LEMMA CollectNext ==
  ASSUME NEW V, NEW f \in Seq(Nat), NEW r \in Seq(V), Len(f) = Len(r), NEW n \in Nat,
         NEW good, NEW rec, Collected(f, r, n, good, rec), n + 1 \in good, rec[n + 1] \in V
  PROVE  Collected(Append(f, n + 1), Append(r, rec[n + 1]), n + 1, good, rec)
  <1> PICK v \in V : v = rec[n + 1]
    OBVIOUS
  <1> PICK m \in Nat : m = n + 1
    OBVIOUS
  <1> PICK g : g = Append(f, m)
    OBVIOUS
  <1> PICK q : q = Append(r, v)
    OBVIOUS
  <1> PICK len \in Nat : len = Len(f)
    OBVIOUS
  <1>1. /\ Len(g) = len + 1 /\ g[len + 1] = m /\ q[len + 1] = v
        /\ \A k \in 1..len : g[k] = f[k] /\ q[k] = r[k]
    OBVIOUS
  <1>2. /\ \A x \in 1..n : x \in good <=> \E k \in 1..len : f[k] = x
        /\ \A k \in 1..len : f[k] \in 1..n /\ r[k] = rec[f[k]]
        /\ \A k, l \in 1..len : k < l => f[k] < f[l]
    BY DEF Collected
  <1>3. /\ \A k \in 1..len + 1 : k \in 1..len \/ k = len + 1
        /\ \A x \in 1..m : x \in 1..n \/ x = m
        /\ \A x \in 1..n : x \in 1..m /\ x < m
        /\ len + 1 \in 1..len + 1 /\ m \in 1..m
        /\ \A k \in 1..len : k \in 1..len + 1 /\ k < len + 1
    OBVIOUS
  <1>4. ASSUME NEW x \in 1..m PROVE x \in good <=> \E k \in 1..Len(g) : g[k] = x
    <2>1. CASE x = m
      BY <1>1, <1>3, <2>1
    <2>2. CASE x \in 1..n
      <3>1. ASSUME NEW k \in 1..len, f[k] = x PROVE \E l \in 1..Len(g) : g[l] = x
        BY <1>1, <1>3, <3>1
      <3>2. ASSUME NEW k \in 1..Len(g), g[k] = x PROVE \E l \in 1..len : f[l] = x
        <4>1. k # len + 1
          BY <1>1, <2>2, <3>2
        <4> QED BY <1>1, <1>3, <3>2, <4>1
      <3> QED BY <1>2, <2>2, <3>1, <3>2
    <2> QED BY <1>3, <2>1, <2>2
  <1>5. ASSUME NEW k \in 1..Len(g) PROVE g[k] \in 1..m /\ q[k] = rec[g[k]]
    BY <1>1, <1>2, <1>3
  <1>6. ASSUME NEW k \in 1..Len(g), NEW l \in 1..Len(g), k < l PROVE g[k] < g[l]
    <2>1. k \in 1..len
      BY <1>1, <1>3, <1>6
    <2>2. CASE l = len + 1
      BY <1>1, <1>2, <1>3, <2>1, <2>2
    <2>3. CASE l \in 1..len
      BY <1>1, <1>2, <1>6, <2>1, <2>3
    <2> QED BY <1>1, <1>3, <2>2, <2>3
  <1>7. Collected(g, q, m, good, rec)
    BY <1>4, <1>5, <1>6 DEF Collected
  <1> QED BY <1>7

LEMMA CollectSkip ==
  ASSUME NEW f \in Seq(Nat), NEW r, NEW n \in Nat, NEW good, NEW rec,
         Collected(f, r, n, good, rec), n + 1 \notin good
  PROVE  Collected(f, r, n + 1, good, rec)
  <1>1. \A x \in 1..n + 1 : x \in 1..n \/ x = n + 1
    OBVIOUS
  <1>2. \A k \in 1..Len(f) : f[k] \in 1..n /\ f[k] \in 1..n + 1 /\ f[k] # n + 1
    BY DEF Collected
  <1> QED BY <1>1, <1>2 DEF Collected

-----------------------------------------------------------------------------
(* parseUserRecords. Its map holds the last value of each key of a line.   *)

(* A bounded set of numbers that is not empty has a greatest.              *)
LEMMA MaxExists ==
  ASSUME NEW n \in Nat, NEW S \in SUBSET (1..n), S # {}
  PROVE  Max(S) \in S /\ \A x \in S : Max(S) >= x
  <1> DEFINE Bounds == {m \in Nat : \A x \in S : x <= m}
             Less   == OpToRel(<, Nat)
  <1>1. n \in Bounds
    OBVIOUS
  <1>2. \E m \in Bounds : \A y \in Bounds : ~(<<y, m>> \in Less)
    <2>1. IsWellFoundedOn(Less, Nat)
      BY NatLessThanWellFounded, Zenon
    <2> HIDE DEF Less
    <2>2. Bounds \subseteq Nat /\ Bounds # {}
      BY <1>1
    <2> HIDE DEF Bounds
    <2> QED BY <2>1, <2>2, WFMin
  <1>3. PICK m \in Bounds : \A y \in Bounds : ~(<<y, m>> \in Less)
    BY <1>2
  <1>4. \A y \in Bounds : ~(y < m)
    BY <1>3 DEF OpToRel
  <1>5. m \in S
    <2>1. SUFFICES ASSUME m \notin S PROVE FALSE
      OBVIOUS
    <2>2. PICK x \in S : x \in 1..n /\ x <= m
      OBVIOUS
    <2>3. m - 1 \in Bounds
      BY <2>1, <2>2
    <2> QED BY <1>4, <2>3
  <1>6. \E x \in S : \A y \in S : x >= y
    BY <1>5
  <1> QED BY <1>6 DEF Max

LEMMA HasPIN ==
  ASSUME NEW line, Len(line) \in Nat, DOMAIN line = 1..Len(line)
  PROVE  Field(line, "PIN") # Blank
           <=> \E i \in DOMAIN line :
                 /\ line[i].key = "PIN" /\ line[i].value # Blank
                 /\ \A j \in i + 1..Len(line) : line[j].key # "PIN"
  <1> DEFINE S == Positions(line, "PIN")
  <1>1. S \in SUBSET (1..Len(line))
    BY DEF Positions
  <1>2. CASE S = {}
    BY <1>2 DEF Field, Positions
  <1>3. CASE S # {}
    <2>1. Max(S) \in S /\ \A x \in S : Max(S) >= x
      <3> HIDE DEF S
      <3> QED BY <1>1, <1>3, MaxExists
    <2>2. PICK m : m = Max(S)
      OBVIOUS
    <2>3. Field(line, "PIN") = line[m].value
      BY <1>3, <2>2 DEF Field
    <2>4. /\ m \in 1..Len(line) /\ line[m].key = "PIN"
          /\ \A j \in 1..Len(line) : line[j].key = "PIN" => m >= j
      BY <2>1, <2>2 DEF Positions
    <2>5. ASSUME NEW i \in 1..Len(line), line[i].key = "PIN",
                 \A j \in i + 1..Len(line) : line[j].key # "PIN"
          PROVE  i = m
      BY <2>4, <2>5
    <2>6. \A j \in m + 1..Len(line) : line[j].key # "PIN"
      BY <2>4
    <2> QED BY <2>3, <2>4, <2>5, <2>6
  <1> QED BY <1>2, <1>3

UserFields == [key : {"PIN", "Privilege", "Name", "none"}, value : Values]

UserRecords == {UserRecord(body[n]) : n \in 1..Len(body)}
UserLines   == {n \in 1..Len(body) : Field(body[n], "PIN") # Blank}
UserOf      == [n \in 1..Len(body) |-> UserRecord(body[n])]

UserShape ==
    /\ body \in Seq(Seq(UserFields)) /\ at \in 1..Len(body) + 1
    /\ from \in Seq(Nat) /\ records \in Seq(UserRecords) /\ Len(from) = Len(records)

UserInv ==
    parser = "USERINFO" => UserShape /\ Collected(from, records, at - 1, UserLines, UserOf)

LEMMA UserNext == UserInv /\ [Next]_vars => UserInv'
  <1> SUFFICES ASSUME UserInv, [Next]_vars, parser' = "USERINFO"
               PROVE  (UserShape /\ Collected(from, records, at - 1, UserLines, UserOf))'
    BY DEF UserInv
  <1>1. parser = "USERINFO" /\ body' = body
    BY DEF Next, vars, StartResult, SetField, SkipPart, FinishResults, AttLine, UserLine,
           KVPair, AppendRecord, SkipLine, NextItem
  <1>2. UserShape /\ Collected(from, records, at - 1, UserLines, UserOf)
    BY <1>1 DEF UserInv
  <1> PICK good : good = UserLines
    OBVIOUS
  <1> PICK rec : rec = UserOf
    OBVIOUS
  <1> PICK V : V = UserRecords
    OBVIOUS
  <1>3. UserLines' = good /\ UserOf' = rec /\ UserRecords' = V
    BY <1>1 DEF UserLines, UserOf, UserRecords
  <1>4. CASE UserLine
    <2>1. at \in 1..Len(body) /\ at' = at + 1 /\ Item = body[at] /\ Len(body) \in Nat
      <3>1. Input = body /\ Len(body) \in Nat /\ at \in 1..Len(body) + 1
        BY <1>1, <1>2 DEF Input, UserShape
      <3> QED BY <1>4, <3>1 DEF UserLine, More, AppendRecord, SkipLine, NextItem, Item
    <2> PICK n \in Nat : n = at - 1
      BY <2>1
    <2>2. at = n + 1 /\ at' - 1 = n + 1
      BY <2>1
    <2>3. Collected(from, records, n, good, rec)
      BY <1>2
    <2>4. from \in Seq(Nat) /\ records \in Seq(V) /\ Len(from) = Len(records)
      BY <1>2 DEF UserShape
    <2>5. /\ rec[at] = UserRecord(body[at]) /\ rec[at] \in V
          /\ at \in good <=> Field(body[at], "PIN") # Blank
      BY <2>1 DEF UserLines, UserOf, UserRecords
    <2>6. CASE Field(Item, "PIN") # Blank /\ AppendRecord(UserRecord(Item))
      <3>1. from' = Append(from, n + 1) /\ records' = Append(records, rec[n + 1])
        BY <2>1, <2>2, <2>5, <2>6 DEF AppendRecord
      <3>2. n + 1 \in good /\ rec[n + 1] \in V
        BY <2>1, <2>2, <2>5, <2>6
      <3>3. Collected(from', records', n + 1, good, rec)
        BY <2>3, <2>4, <3>1, <3>2, CollectNext
      <3>4. from' \in Seq(Nat) /\ records' \in Seq(V) /\ Len(from') = Len(records')
        BY <2>4, <3>1, <3>2
      <3>5. UserShape'
        BY <1>1, <1>2, <1>3, <2>1, <3>4 DEF UserShape
      <3> QED BY <1>3, <2>2, <3>3, <3>5
    <2>7. CASE Field(Item, "PIN") = Blank /\ SkipLine
      <3>1. from' = from /\ records' = records
        BY <2>7 DEF SkipLine
      <3>2. Collected(from, records, n + 1, good, rec)
        BY <2>1, <2>2, <2>3, <2>4, <2>5, <2>7, CollectSkip
      <3>3. UserShape'
        BY <1>1, <1>2, <1>3, <2>1, <2>4, <3>1 DEF UserShape
      <3> QED BY <1>3, <2>2, <3>1, <3>2, <3>3
    <2> QED BY <1>4, <2>6, <2>7 DEF UserLine
  <1>5. CASE UNCHANGED vars
    BY <1>1, <1>2, <1>3, <1>5 DEF vars, UserShape
  <1>6. CASE StartResult \/ SetField \/ SkipPart \/ FinishResults \/ AttLine \/ KVPair
    BY <1>1, <1>6 DEF StartResult, SetField, SkipPart, FinishResults, AttLine, KVPair
  <1> QED BY <1>4, <1>5, <1>6 DEF Next

LEMMA UserInvRecords == UserInv => UserOwnLine
  <1> SUFFICES ASSUME UserShape, Collected(from, records, at - 1, UserLines, UserOf),
                      parser = "USERINFO"
               PROVE  UserOwnLine
    BY DEF UserInv, UserOwnLine
  <1>0. /\ DOMAIN from = 1..Len(from) /\ Len(body) \in Nat /\ at \in 1..Len(body) + 1
        /\ \A n \in 1..Len(body) : body[n] \in Seq(UserFields)
    BY DEF UserShape
  <1>1. ASSUME NEW n \in 1..Len(body)
        PROVE  n \in UserLines
                 <=> \E i \in DOMAIN body[n] :
                       /\ body[n][i].key = "PIN" /\ body[n][i].value # Blank
                       /\ \A j \in i + 1..Len(body[n]) : body[n][j].key # "PIN"
    <2>1. body[n] \in Seq(UserFields)
      BY <1>0
    <2>2. Len(body[n]) \in Nat /\ DOMAIN body[n] = 1..Len(body[n])
      BY <2>1
    <2> QED BY <2>2, HasPIN DEF UserLines
  <1>2. /\ \A n \in 1..at - 1 : n \in UserLines <=> \E k \in 1..Len(from) : from[k] = n
        /\ \A k \in 1..Len(from) : from[k] \in 1..at - 1 /\ records[k] = UserOf[from[k]]
        /\ \A k, l \in 1..Len(from) : k < l => from[k] < from[l]
    BY DEF Collected
  <1>3. \A n \in 1..at - 1 : n \in 1..Len(body)
    BY <1>0
  <1>4. {from[k] : k \in DOMAIN from} = {n \in 1..at - 1 : n \in UserLines}
    <2> PICK m, L : m = at - 1 /\ L = UserLines
      OBVIOUS
    <2>1. /\ \A n \in 1..m : n \in L <=> \E k \in DOMAIN from : from[k] = n
          /\ \A k \in DOMAIN from : from[k] \in 1..m
      BY <1>0, <1>2
    <2> QED BY <2>1
  <1>5. {from[k] : k \in DOMAIN from}
          = {n \in 1..at - 1 : \E i \in DOMAIN body[n] :
               /\ body[n][i].key = "PIN" /\ body[n][i].value # Blank
               /\ \A j \in i + 1..Len(body[n]) : body[n][j].key # "PIN"}
    BY <1>1, <1>3, <1>4
  <1>6. \A k \in DOMAIN from : records[k] = UserRecord(body[from[k]])
    BY <1>0, <1>2, <1>3 DEF UserOf
  <1> QED BY <1>0, <1>2, <1>5, <1>6 DEF UserOwnLine

LEMMA UserInit == Init => UserInv
  <1> SUFFICES ASSUME Init, parser = "USERINFO"
               PROVE  UserShape /\ Collected(from, records, at - 1, UserLines, UserOf)
    BY DEF UserInv
  <1>1. body \in Seq(Seq(UserFields))
    BY BodiesAssumption DEF Init, UserFields
  <1>2. at = 1 /\ records = <<>> /\ from = <<>>
    BY DEF Init
  <1>3. Len(body) \in Nat
    BY <1>1
  <1>4. at \in 1..Len(body) + 1
    BY <1>2, <1>3
  <1>5. UserShape
    BY <1>1, <1>2, <1>4 DEF UserShape
  <1>6. Collected(from, records, at - 1, UserLines, UserOf)
    BY <1>2 DEF Collected
  <1> QED BY <1>5, <1>6

(* parseUserRecords (parser.go) gives each line whose last PIN is not blank *)
(* one record, of the fields of that line alone, and the other lines none.  *)
THEOREM ParsedUsers == Spec => []UserOwnLine
  BY UserInit, UserNext, UserInvRecords, PTL DEF Spec

(* The two maps of key=value pairs (parser.go), of any body.               *)
THEOREM ParsedMaps == Spec => []PairsOfBody
  <1>1. UserOwnLine /\ LastPairWins => PairsOfBody
    BY DEF PairsOfBody
  <1> QED BY <1>1, ParsedUsers, ParsedPairs, PTL

-----------------------------------------------------------------------------
(* parseAttendanceRecords. Its lines are those of the trimmed body.        *)
AttRecords == {AttRecord(Input[n]) : n \in 1..Len(Input)}
AttLines   == {n \in 1..Len(Input) : IsAttLine(Input[n])}
AttOf      == [n \in 1..Len(Input) |-> AttRecord(Input[n])]

AttShape ==
    /\ body \in Seq(Seq(Values))
    /\ Len(Input) \in Nat /\ at \in 1..Len(Input) + 1
    /\ from \in Seq(Nat) /\ records \in Seq(AttRecords) /\ Len(from) = Len(records)

AttInv ==
    parser = "ATTLOG" => AttShape /\ Collected(from, records, at - 1, AttLines, AttOf)

LEMMA AttNext == AttInv /\ [Next]_vars => AttInv'
  <1> SUFFICES ASSUME AttInv, [Next]_vars, parser' = "ATTLOG"
               PROVE  (AttShape /\ Collected(from, records, at - 1, AttLines, AttOf))'
    BY DEF AttInv
  <1>1. parser = "ATTLOG"
    BY DEF Next, vars, StartResult, SetField, SkipPart, FinishResults, AttLine, UserLine,
           KVPair, AppendRecord, SkipLine, NextItem
  <1>2. AttShape /\ Collected(from, records, at - 1, AttLines, AttOf)
    BY <1>1 DEF AttInv
  <1>3. body' = body
    BY DEF Next, vars, StartResult, SetField, SkipPart, FinishResults, AttLine, UserLine,
           KVPair, AppendRecord, SkipLine, NextItem
  <1>4. Input' = Input
    BY <1>1, <1>3 DEF Input
  <1> PICK input : input = Input
    OBVIOUS
  <1> PICK good : good = AttLines
    OBVIOUS
  <1> PICK rec : rec = AttOf
    OBVIOUS
  <1> PICK V : V = AttRecords
    OBVIOUS
  <1>5. /\ AttLines' = good /\ AttOf' = rec /\ AttRecords' = V
    BY <1>4 DEF AttLines, AttOf, AttRecords
  <1>6. CASE AttLine
    <2>1. /\ at \in 1..Len(input) /\ at' = at + 1 /\ Item = input[at] /\ Len(input) \in Nat
      BY <1>2, <1>6 DEF AttLine, More, AppendRecord, SkipLine, NextItem, Item, AttShape
    <2> PICK n \in Nat : n = at - 1
      BY <2>1
    <2>2. at = n + 1 /\ at' - 1 = n + 1
      BY <2>1
    <2>3. Collected(from, records, n, good, rec)
      BY <1>2
    <2>4. from \in Seq(Nat) /\ records \in Seq(V) /\ Len(from) = Len(records)
      BY <1>2 DEF AttShape
    <2>5. rec[at] = AttRecord(input[at]) /\ rec[at] \in V /\ (at \in good <=> IsAttLine(input[at]))
      BY <2>1 DEF AttLines, AttOf, AttRecords
    <2>6. CASE IsAttLine(Item) /\ AppendRecord(AttRecord(Item))
      <3>1. from' = Append(from, n + 1) /\ records' = Append(records, rec[n + 1])
        BY <2>1, <2>2, <2>5, <2>6 DEF AppendRecord
      <3>2. n + 1 \in good /\ rec[n + 1] \in V
        BY <2>1, <2>2, <2>5, <2>6
      <3>3. Collected(from', records', n + 1, good, rec)
        BY <2>3, <2>4, <3>1, <3>2, CollectNext
      <3>4. from' \in Seq(Nat) /\ records' \in Seq(V) /\ Len(from') = Len(records')
        BY <2>4, <3>1, <3>2
      <3>5. AttShape'
        BY <1>2, <1>3, <1>4, <1>5, <2>1, <3>4 DEF AttShape
      <3> QED BY <1>5, <2>2, <3>3, <3>5
    <2>7. CASE ~IsAttLine(Item) /\ SkipLine
      <3>1. from' = from /\ records' = records
        BY <2>7 DEF SkipLine
      <3>2. Collected(from, records, n + 1, good, rec)
        BY <2>1, <2>2, <2>3, <2>4, <2>5, <2>7, CollectSkip
      <3>3. AttShape'
        BY <1>2, <1>3, <1>4, <1>5, <2>1, <2>4, <3>1 DEF AttShape
      <3> QED BY <1>5, <2>2, <3>1, <3>2, <3>3
    <2> QED BY <1>6, <2>6, <2>7 DEF AttLine
  <1>7. CASE UNCHANGED vars
    BY <1>2, <1>4, <1>5, <1>7 DEF vars, AttShape
  <1>8. CASE StartResult \/ SetField \/ SkipPart \/ FinishResults \/ UserLine \/ KVPair
    BY <1>1, <1>8 DEF StartResult, SetField, SkipPart, FinishResults, UserLine, KVPair
  <1> QED BY <1>6, <1>7, <1>8 DEF Next

(* A set of numbers that is not empty has a least.                         *)
LEMMA MinExists ==
  ASSUME NEW n \in Nat, NEW S \in SUBSET (1..n), S # {}
  PROVE  Min(S) \in S /\ \A x \in S : Min(S) <= x
  <1> DEFINE Less == OpToRel(<, Nat)
  <1>1. \E m \in S : \A y \in S : ~(<<y, m>> \in Less)
    <2>1. IsWellFoundedOn(Less, Nat)
      BY NatLessThanWellFounded, Zenon
    <2> HIDE DEF Less
    <2>2. S \subseteq Nat /\ S # {}
      OBVIOUS
    <2> QED BY <2>1, <2>2, WFMin
  <1>2. PICK m \in S : \A y \in S : ~(<<y, m>> \in Less)
    BY <1>1
  <1>3. \A y \in S : ~(y < m)
    <2>1. S \subseteq Nat /\ m \in Nat
      OBVIOUS
    <2>2. \A y \in Nat : y < m => <<y, m>> \in Less
      BY <2>1 DEF OpToRel
    <2> QED BY <1>2, <2>1, <2>2
  <1>4. \E x \in S : \A y \in S : x <= y
    BY <1>3
  <1> QED BY <1>4 DEF Min

(* A line and one that gives the same record, or like it none.             *)
SameRecord(t, line) ==
    /\ IsAttLine(t) <=> IsAttLine(line)
    /\ IsAttLine(line) => AttRecord(t) = AttRecord(line)

(* Blank fields at the end of a line change nothing.                       *)
LEMMA TrailingBlanks ==
  ASSUME NEW line \in Seq(Values), NEW b \in 0..Len(line),
         \A j \in b + 1..Len(line) : line[j] = Blank
  PROVE  SameRecord(SubSeq(line, 1, b), line)
  <1> PICK t : t = SubSeq(line, 1, b)
    OBVIOUS
  <1>1. Len(t) = b /\ \A j \in 1..b : t[j] = line[j]
    OBVIOUS
  <1>2. Blank \notin LocalTimes \cup Numbers
    BY ValuesAssumption
  <1>3. Len(line) \in Nat /\ b \in Nat /\ b <= Len(line)
    OBVIOUS
  <1>4. IsAttLine(t) <=> IsAttLine(line)
    <2>1. CASE b >= 2
      BY <1>1, <1>3, <2>1 DEF IsAttLine
    <2>2. CASE b < 2
      <3>1. ~IsAttLine(t)
        BY <1>1, <1>3, <2>2 DEF IsAttLine
      <3>2. ~IsAttLine(line)
        <4>1. Len(line) >= 2 => line[2] = Blank
          BY <1>3, <2>2
        <4> QED BY <1>2, <4>1 DEF IsAttLine
      <3> QED BY <3>1, <3>2
    <2> QED BY <1>3, <2>1, <2>2
  <1>5. ASSUME IsAttLine(line) PROVE AttRecord(t) = AttRecord(line)
    <2>1. b >= 2
      BY <1>1, <1>3, <1>4, <1>5 DEF IsAttLine
    <2>2. t[1] = line[1] /\ t[2] = line[2]
      BY <1>1, <2>1
    <2>3. \A n \in {3, 4} : IntField(t, n) = IntField(line, n)
      BY <1>1, <1>2, <1>3 DEF IntField
    <2>4. (IF Len(t) >= 5 THEN t[5] ELSE Blank) = (IF Len(line) >= 5 THEN line[5] ELSE Blank)
      BY <1>1, <1>3
    <2> QED BY <2>2, <2>3, <2>4 DEF AttRecord
  <1> QED BY <1>4, <1>5 DEF SameRecord

(* What TrimSpace does to the lines: those between the first and the last   *)
(* filled one keep their records, except that the first one may lose blank  *)
(* fields in front.                                                        *)
LEMMA FilledFacts ==
  ASSUME NEW line \in Seq(Values), Filled(line) # {}
  PROVE  /\ Min(Filled(line)) \in 1..Len(line) /\ Max(Filled(line)) \in 1..Len(line)
         /\ line[1] # Blank => Min(Filled(line)) = 1
         /\ \A j \in Max(Filled(line)) + 1..Len(line) : line[j] = Blank
  <1> PICK S : S = Filled(line)
    OBVIOUS
  <1>1. /\ S \in SUBSET (1..Len(line)) /\ S # {} /\ Len(line) \in Nat
        /\ \A j \in 1..Len(line) : j \in S <=> line[j] # Blank
    BY DEF Filled
  <1>2. Min(S) \in S /\ \A x \in S : Min(S) <= x
    BY <1>1, MinExists
  <1>3. Max(S) \in S /\ \A x \in S : Max(S) >= x
    BY <1>1, MaxExists
  <1> PICK a \in 1..Len(line), b \in 1..Len(line) : a = Min(S) /\ b = Max(S)
    BY <1>1, <1>2, <1>3
  <1>4. line[1] # Blank => a = 1
    <2>1. 1 \in 1..Len(line)
      BY <1>1
    <2> QED BY <1>1, <1>2, <2>1
  <1>5. \A j \in b + 1..Len(line) : line[j] = Blank
    <2>1. \A j \in b + 1..Len(line) : j \in 1..Len(line) /\ ~(b >= j)
      BY <1>1
    <2> QED BY <1>1, <1>3, <2>1
  <1> QED BY <1>4, <1>5

LEMMA TrimmedLine ==
  ASSUME NEW line \in Seq(Values), NEW isFirst \in BOOLEAN, NEW isLast \in BOOLEAN,
         isFirst \/ isLast => Filled(line) # {}
  PROVE  \/ SameRecord(SubSeq(line, IF isFirst THEN Min(Filled(line)) ELSE 1,
                                    IF isLast THEN Max(Filled(line)) ELSE Len(line)), line)
         \/ isFirst /\ line[1] = Blank
  <1>1. Len(line) \in Nat
    OBVIOUS
  <1> PICK b : b = IF isLast THEN Max(Filled(line)) ELSE Len(line)
    OBVIOUS
  <1>2. b \in 0..Len(line) /\ \A j \in b + 1..Len(line) : line[j] = Blank
    <2>1. CASE isLast
      <3>1. b \in 1..Len(line) /\ \A j \in b + 1..Len(line) : line[j] = Blank
        BY <2>1, FilledFacts
      <3> QED BY <1>1, <3>1
    <2>2. CASE ~isLast
      <3>1. b = Len(line)
        BY <2>2
      <3>2. \A j \in Len(line) + 1..Len(line) : FALSE
        BY <1>1
      <3>3. Len(line) \in 0..Len(line)
        BY <1>1
      <3> QED BY <3>1, <3>2, <3>3
    <2> QED BY <2>1, <2>2
  <1>3. SameRecord(SubSeq(line, 1, b), line)
    BY <1>2, TrailingBlanks
  <1>4. line[1] # Blank /\ isFirst => Min(Filled(line)) = 1
    BY FilledFacts
  <1> QED BY <1>3, <1>4

LEMMA AttLineFilled ==
  ASSUME NEW line \in Seq(Values), IsAttLine(line)
  PROVE  Filled(line) # {} /\ line[1] # Blank
  <1>1. 1 \in DOMAIN line /\ line[1] # Blank
    BY DEF IsAttLine
  <1> QED BY <1>1 DEF Filled

LEMMA TrimmedLines ==
  ASSUME body \in Seq(Seq(Values)), parser = "ATTLOG"
  PROVE  /\ Len(Input) \in Nat
         /\ FilledLines(body) = {} => Len(Input) = 0
         /\ FilledLines(body) # {} =>
              \E first \in 1..Len(body) :
                /\ first = Min(FilledLines(body))
                /\ \A n \in 1..Len(Input) :
                     /\ first + n - 1 \in 1..Len(body)
                     /\ \/ SameRecord(Input[n], body[first + n - 1])
                        \/ n = 1 /\ body[first][1] = Blank
                /\ \A n \in 1..Len(body) : IsAttLine(body[n]) => n - first + 1 \in 1..Len(Input)
  <1>0. Len(body) \in Nat /\ DOMAIN body = 1..Len(body)
    OBVIOUS
  <1>1. Input = TrimBody(body) /\ \A n \in 1..Len(body) : body[n] \in Seq(Values)
    BY DEF Input
  <1>2. CASE FilledLines(body) = {}
    BY <1>1, <1>2 DEF TrimBody
  <1>3. CASE FilledLines(body) # {}
    <2>1. PICK S : S = FilledLines(body)
      OBVIOUS
    <2>2. /\ S \in SUBSET (1..Len(body)) /\ S # {}
          /\ \A n \in 1..Len(body) : n \in S <=> Filled(body[n]) # {}
      BY <1>0, <1>3, <2>1 DEF FilledLines
    <2>3. PICK first \in 1..Len(body), last \in 1..Len(body) : first = Min(S) /\ last = Max(S)
      BY <1>0, <2>2, MinExists, MaxExists
    <2>4. /\ first \in S /\ last \in S /\ \A n \in S : first <= n /\ n <= last
      BY <1>0, <2>2, <2>3, MinExists, MaxExists
    <2>5. PICK len \in Nat : len = last - first + 1
      BY <1>0, <2>4
    <2>6. Input = [n \in 1..len |->
                     SubSeq(body[first + n - 1],
                            IF n = 1 THEN Min(Filled(body[first + n - 1])) ELSE 1,
                            IF first + n - 1 = last THEN Max(Filled(body[first + n - 1]))
                                                    ELSE Len(body[first + n - 1]))]
      BY <1>1, <1>3, <2>1, <2>3, <2>5 DEF TrimBody
    <2>7. Len(Input) = len
      BY <2>6
    <2>8. ASSUME NEW n \in 1..len
          PROVE  /\ first + n - 1 \in 1..Len(body)
                 /\ \/ SameRecord(Input[n], body[first + n - 1])
                    \/ n = 1 /\ body[first][1] = Blank
      <3>1. first + n - 1 \in 1..Len(body) /\ (n = 1 <=> first + n - 1 = first)
        BY <1>0, <2>5
      <3>2. PICK k \in 1..Len(body) : k = first + n - 1
        BY <3>1
      <3>3. n = 1 \/ k = last => Filled(body[k]) # {}
        BY <2>2, <2>4, <3>1, <3>2
      <3>4. Input[n] = SubSeq(body[k], IF n = 1 THEN Min(Filled(body[k])) ELSE 1,
                                       IF k = last THEN Max(Filled(body[k])) ELSE Len(body[k]))
        BY <2>6, <3>2
      <3>5. \/ SameRecord(Input[n], body[k])
            \/ n = 1 /\ body[k][1] = Blank
        <4>1. body[k] \in Seq(Values)
          BY <1>1
        <4>2. PICK p \in BOOLEAN, q \in BOOLEAN : p = (n = 1) /\ q = (k = last)
          OBVIOUS
        <4> QED BY <3>3, <3>4, <4>1, <4>2, TrimmedLine
      <3> QED BY <3>1, <3>2, <3>5
    <2>9. ASSUME NEW n \in 1..Len(body), IsAttLine(body[n])
          PROVE  n - first + 1 \in 1..len
      <3>1. body[n] \in Seq(Values)
        BY <1>1
      <3>2. n \in S
        BY <2>2, <2>9, <3>1, AttLineFilled
      <3>3. first <= n /\ n <= last
        BY <2>4, <3>2
      <3> QED BY <1>0, <2>5, <3>3
    <2> QED BY <1>3, <2>1, <2>3, <2>7, <2>8, <2>9
  <1> QED BY <1>2, <1>3

(* The records are those of the lines, but for the first.                  *)
LEMMA AttInvRecords == AttInv => OnlyFirstLineShifts
  <1> SUFFICES ASSUME AttShape, Collected(from, records, at - 1, AttLines, AttOf), parser = "ATTLOG"
               PROVE  OnlyFirstLineShifts
    BY DEF AttInv, OnlyFirstLineShifts
  <1>1. /\ body \in Seq(Seq(Values)) /\ DOMAIN from = 1..Len(from) /\ Len(Input) \in Nat
        /\ at \in 1..Len(Input) + 1 /\ DOMAIN body = 1..Len(body)
    BY DEF AttShape
  <1>2. /\ \A n \in 1..at - 1 : n \in AttLines <=> \E k \in 1..Len(from) : from[k] = n
        /\ \A k \in 1..Len(from) : from[k] \in 1..at - 1 /\ records[k] = AttOf[from[k]]
        /\ \A k, l \in 1..Len(from) : k < l => from[k] < from[l]
    BY DEF Collected
  <1>3. ASSUME NEW k \in 1..Len(from)
        PROVE  /\ from[k] \in 1..Len(Input) /\ IsAttLine(Input[from[k]])
               /\ records[k] = AttRecord(Input[from[k]])
    <2>1. from[k] \in 1..Len(Input)
      BY <1>1, <1>2
    <2>2. from[k] \in AttLines
      BY <1>2
    <2> QED BY <1>2, <2>1, <2>2 DEF AttLines, AttOf
  <1>4. ASSUME NEW k \in 1..Len(from)
        PROVE  \/ IsAttLine(body[LineOf(k)]) /\ records[k] = AttRecord(body[LineOf(k)])
               \/ from[k] = 1 /\ body[LineOf(k)][1] = Blank
    <2>1. FilledLines(body) # {}
      BY <1>1, <1>3, TrimmedLines
    <2>2. PICK first \in 1..Len(body) :
            /\ first = Min(FilledLines(body))
            /\ \A n \in 1..Len(Input) :
                 \/ SameRecord(Input[n], body[first + n - 1])
                 \/ n = 1 /\ body[first][1] = Blank
      BY <1>1, <2>1, TrimmedLines
    <2>3. LineOf(k) = first + from[k] - 1 /\ (from[k] = 1 => LineOf(k) = first)
      BY <1>3, <2>2 DEF LineOf
    <2> QED BY <1>3, <2>2, <2>3 DEF SameRecord
  <1>5. ASSUME ~More, NEW n \in 1..Len(body), IsAttLine(body[n])
        PROVE  \E k \in 1..Len(from) : LineOf(k) = n
    <2>0. body[n] \in Seq(Values)
      BY <1>1
    <2>1. FilledLines(body) # {}
      <3>1. 1 \in Filled(body[n])
        BY <1>5, <2>0 DEF IsAttLine, Filled
      <3> QED BY <1>1, <3>1 DEF FilledLines
    <2>2. PICK first \in 1..Len(body) :
            /\ first = Min(FilledLines(body))
            /\ \A m \in 1..Len(Input) :
                 \/ SameRecord(Input[m], body[first + m - 1])
                 \/ m = 1 /\ body[first][1] = Blank
            /\ n - first + 1 \in 1..Len(Input)
      BY <1>1, <1>5, <2>1, TrimmedLines
    <2> PICK m \in 1..Len(Input) : m = n - first + 1
      BY <2>2
    <2>3. first + m - 1 = n /\ (m = 1 => n = first)
      OBVIOUS
    <2>4. IsAttLine(Input[m])
      <3>1. body[n][1] # Blank
        BY <1>5 DEF IsAttLine
      <3> QED BY <1>5, <2>2, <2>3, <3>1 DEF SameRecord
    <2>5. m \in 1..at - 1
      BY <1>1, <1>5 DEF More
    <2>6. PICK k \in 1..Len(from) : from[k] = m
      BY <1>2, <2>4, <2>5 DEF AttLines
    <2>7. LineOf(k) = n
      BY <2>2, <2>3, <2>6 DEF LineOf
    <2> QED BY <2>7
  <1> QED BY <1>1, <1>2, <1>4, <1>5 DEF OnlyFirstLineShifts

LEMMA AttInit == Init => AttInv
  <1> SUFFICES ASSUME Init, parser = "ATTLOG"
               PROVE  AttShape /\ Collected(from, records, at - 1, AttLines, AttOf)
    BY DEF AttInv
  <1>1. body \in Seq(Seq(Values)) /\ at = 1 /\ records = <<>> /\ from = <<>>
    BY BodiesAssumption DEF Init
  <1>2. Len(Input) \in Nat
    BY <1>1, TrimmedLines
  <1>3. AttShape
    BY <1>1, <1>2 DEF AttShape
  <1>4. Collected(from, records, at - 1, AttLines, AttOf)
    BY <1>1 DEF Collected
  <1> QED BY <1>3, <1>4

(* parseAttendanceRecords (parser.go) gives each line with a user ID and a  *)
(* time one record, in the order of the lines, and no other line one,       *)
(* unless the trim of the body took the blank user ID of the first.        *)
THEOREM ParsedAttendance == Spec => []OnlyFirstLineShifts
  BY AttInit, AttNext, AttInvRecords, PTL DEF Spec

-----------------------------------------------------------------------------
(* Types. *)

(* What the other parsers leave alone. *)
OthersShape ==
    /\ parser \in {"devicecmd", "ATTLOG", "USERINFO", "info", "registry"}
    /\ parser # "devicecmd" => hasID = FALSE
    /\ parser \in {"info", "registry"} =>
         /\ Len(body) \in Nat /\ at \in 1..Len(body) + 1
         /\ records = <<>> /\ from = <<>>

LEMMA OthersNext == OthersShape /\ [Next]_vars => OthersShape'
  <1> SUFFICES ASSUME OthersShape, [Next]_vars PROVE OthersShape'
    OBVIOUS
  <1>1. CASE StartResult \/ SetField \/ SkipPart \/ FinishResults
    BY <1>1 DEF StartResult, SetField, SkipPart, FinishResults, NextItem, OthersShape
  <1>2. CASE AttLine \/ UserLine
    BY <1>2 DEF AttLine, UserLine, AppendRecord, SkipLine, NextItem, OthersShape
  <1>3. CASE KVPair
    <2>1. /\ parser \in {"info", "registry"} /\ at <= Len(body) /\ at' = at + 1
          /\ UNCHANGED <<parser, body, hasID, records, from>>
      BY <1>3 DEF KVPair, More, Input, NextItem
    <2>2. Len(body) \in Nat /\ at + 1 \in 1..Len(body) + 1
      BY <2>1 DEF OthersShape
    <2> QED BY <2>1, <2>2 DEF OthersShape
  <1>4. CASE UNCHANGED vars
    BY <1>4 DEF vars, OthersShape
  <1> QED BY <1>1, <1>2, <1>3, <1>4 DEF Next

LEMMA OthersInit == Init => OthersShape
  <1> SUFFICES ASSUME Init PROVE OthersShape
    OBVIOUS
  <1>1. ASSUME parser \in {"info", "registry"} PROVE Len(body) \in Nat
    BY <1>1, BodiesAssumption DEF Init
  <1> QED BY <1>1 DEF Init, OthersShape

(* Each record begins at a part or line of its own that the loop has seen,  *)
(* and one more does as long as parseCommandResults accumulates a result.  *)
THEOREM ParserTyped == Spec => []TypeOK
  <1>1. OthersShape /\ LoopInv /\ AttInv /\ UserInv => TypeOK
    <2> SUFFICES ASSUME OthersShape, LoopInv, AttInv, UserInv PROVE TypeOK
      OBVIOUS
    <2>1. CASE parser = "devicecmd"
      <3>1. LoopShape /\ LoopStarts /\ LoopFields /\ Input = body
        BY <2>1 DEF LoopInv, Input
      <3>2. hasID => current \in Results
        BY <2>1, <3>1, CurrentIsResult
      <3> QED BY <2>1, <3>1, <3>2 DEF LoopShape, TypeOK
    <2>2. CASE parser = "ATTLOG"
      <3>1. AttShape /\ Collected(from, records, at - 1, AttLines, AttOf) /\ hasID = FALSE
        BY <2>2 DEF AttInv, OthersShape
      <3>2. at \in 1..Len(Input) + 1 /\ Len(from) = Len(records) + 0 /\ DOMAIN from = 1..Len(from)
        BY <3>1 DEF AttShape
      <3>3. \A i \in DOMAIN from : from[i] \in 1..at - 1
        BY <3>1, <3>2 DEF Collected
      <3> QED BY <2>2, <3>1, <3>2, <3>3 DEF TypeOK
    <2>3. CASE parser = "USERINFO"
      <3>1. /\ UserShape /\ Collected(from, records, at - 1, UserLines, UserOf)
            /\ Input = body /\ hasID = FALSE
        BY <2>3 DEF UserInv, OthersShape, Input
      <3>2. at \in 1..Len(Input) + 1 /\ Len(from) = Len(records) + 0 /\ DOMAIN from = 1..Len(from)
        BY <3>1 DEF UserShape
      <3>3. \A i \in DOMAIN from : from[i] \in 1..at - 1
        BY <3>1, <3>2 DEF Collected
      <3> QED BY <2>3, <3>1, <3>2, <3>3 DEF TypeOK
    <2>4. CASE parser \in {"info", "registry"}
      <3>1. Input = body /\ hasID = FALSE /\ at \in 1..Len(body) + 1 /\ records = <<>> /\ from = <<>>
        BY <2>4 DEF OthersShape, Input
      <3> QED BY <2>4, <3>1 DEF TypeOK
    <2> QED BY <2>1, <2>2, <2>3, <2>4 DEF OthersShape
  <1> QED BY <1>1, OthersInit, OthersNext, LoopInit, LoopNext, AttInit, AttNext,
             UserInit, UserNext, PTL DEF Spec
===============================================================================
