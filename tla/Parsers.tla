------------------------------- MODULE Parsers --------------------------------
(***************************************************************************)
(* The loops of parser.go that turn a request body into command results,   *)
(* attendance records, user records or key=value pairs. A behaviour parses *)
(* one body, chosen in the initial state, and a step is one turn of the    *)
(* loop. Characters are abstracted: a body is a sequence of parts, or of   *)
(* lines of fields, and a field is what TrimSpace, ParseInt, Atoi and      *)
(* ParseInLocation tell apart. A field is blank or begins and ends with a  *)
(* character that is no white space.                                       *)
(***************************************************************************)
EXTENDS Integers, SequencesExt

CONSTANTS
    Texts,        \* field values that are neither blank, a number nor a time
    LocalTimes,   \* values ParseInLocation accepts
    Numbers,      \* values ParseInt and Atoi accept, as the integers they are
    Huge,         \* an integer that does not fit into 64 bits
    Blank,        \* the empty value, or one of white space only
    MaxInt,       \* the largest int, what Atoi returns next to a range error
    CmdBodies,    \* the bodies each parser is given
    AttBodies,
    UserBodies,
    PairBodies

Values == Texts \cup LocalTimes \cup Numbers \cup {Huge, Blank}

ASSUME ValuesAssumption ==
    /\ Numbers \subseteq Int /\ MaxInt \in Int \ Numbers
    /\ Huge \notin Int /\ Blank \notin Int /\ Huge # Blank
    /\ \A v \in Texts \cup LocalTimes : v \notin Int \cup {Huge, Blank}
    /\ Texts \cap LocalTimes = {}

(* A part has a key and a value; the key of a part without "=" is "none".  *)
ASSUME BodiesAssumption ==
    /\ \A b \in CmdBodies :
         b \in Seq([key : {"ID", "RETURN", "CMD", "none"}, value : Values])
    /\ \A b \in AttBodies : b \in Seq(Seq(Values))
    /\ \A b \in UserBodies :
         b \in Seq(Seq([key : {"PIN", "Privilege", "Name", "none"}, value : Values]))
    /\ \A b \in PairBodies :
         b \in Seq([key : {"none", "Name", "Model"}, tilde : BOOLEAN, value : Values])

VARIABLES
    parser,   \* which of the parsers runs
    body,     \* its input
    at,       \* the part or line the loop is at
    records,  \* the records, or results, appended so far
    current,  \* parseCommandResults: the result being accumulated
    hasID,    \* parseCommandResults: current has its ID
    info,     \* parseKVPairs: the map
    from      \* history: the part or line each record, and current, began with

vars == <<parser, body, at, records, current, hasID, info, from>>

EmptyResult == [id |-> 0, ret |-> 0, cmd |-> Blank]

-----------------------------------------------------------------------------
(* strings.TrimSpace over the whole body: blank lines before the first and *)
(* after the last filled one go, and so do the blank fields the first one  *)
(* begins with and the last one ends with.                                 *)
Filled(line)     == {i \in DOMAIN line : line[i] # Blank}
FilledLines(b)   == {n \in DOMAIN b : Filled(b[n]) # {}}

(* Mutant of TrimBody: every line is trimmed by itself.                    *)
TrimEveryLine(b) ==
    [n \in DOMAIN b |->
       IF Filled(b[n]) = {} THEN <<Blank>>
       ELSE SubSeq(b[n], Min(Filled(b[n])), Max(Filled(b[n])))]

TrimBody(b) ==
    IF FilledLines(b) = {} THEN <<>>
    ELSE LET first == Min(FilledLines(b))
             last  == Max(FilledLines(b))
         IN  [n \in 1..(last - first + 1) |->
                LET line == b[first + n - 1]
                IN  SubSeq(line, IF n = 1 THEN Min(Filled(line)) ELSE 1,
                                 IF first + n - 1 = last THEN Max(Filled(line))
                                                         ELSE Len(line))]

Init ==
    /\ \/ parser = "devicecmd" /\ body \in CmdBodies
       \/ parser = "ATTLOG" /\ body \in AttBodies
       \/ parser = "USERINFO" /\ body \in UserBodies
       \/ parser \in {"info", "registry"} /\ body \in PairBodies
    /\ at = 1
    /\ records = <<>> /\ from = <<>>
    /\ current = EmptyResult /\ hasID = FALSE
    /\ info = <<>>

(* What the loop runs over. *)
Input == IF parser = "ATTLOG" THEN TrimBody(body) ELSE body
More  == at <= Len(Input)
Item  == Input[at]

(* The rest of a turn of the loop. *)
NextItem == at' = at + 1 /\ UNCHANGED <<parser, body>>

-----------------------------------------------------------------------------
(* parseCommandResults *)

IsID(p)     == p.key = "ID" /\ p.value \in Numbers
IsReturn(p) == p.key = "RETURN" /\ p.value \in Numbers
IsCMD(p)    == p.key = "CMD"

Flushed == IF hasID THEN Append(records, current) ELSE records

(* Mutant of StartResult: the flushed result is not cleared. *)
StartResultUncleared ==
    /\ parser = "devicecmd" /\ More /\ IsID(Item)
    /\ records' = Flushed
    /\ current' = [current EXCEPT !.id = Item.value]
    /\ hasID' = TRUE
    /\ from' = Append(from, at)
    /\ NextItem /\ UNCHANGED info

(* An ID flushes the result before it. What stood before the first ID of   *)
(* the body stays in the current result.                                   *)
StartResult ==
    /\ parser = "devicecmd" /\ More /\ IsID(Item)
    /\ records' = Flushed
    /\ current' = [(IF hasID THEN EmptyResult ELSE current) EXCEPT !.id = Item.value]
    /\ hasID' = TRUE
    /\ from' = Append(from, at)
    /\ NextItem /\ UNCHANGED info

SetField ==
    /\ parser = "devicecmd" /\ More
    /\ \/ IsReturn(Item) /\ current' = [current EXCEPT !.ret = Item.value]
       \/ IsCMD(Item) /\ current' = [current EXCEPT !.cmd = Item.value]
    /\ NextItem /\ UNCHANGED <<records, hasID, info, from>>

(* Parts without "=", other keys, and an ID or Return that is no number:   *)
(* such an ID does not end the current result.                             *)
SkipPart ==
    /\ parser = "devicecmd" /\ More
    /\ ~IsID(Item) /\ ~IsReturn(Item) /\ ~IsCMD(Item)
    /\ NextItem /\ UNCHANGED <<records, current, hasID, info, from>>

(* Mutant of FinishResults: what is left is appended, with an ID or not.    *)
FinishAlways ==
    /\ parser = "devicecmd" /\ ~More /\ current # EmptyResult
    /\ records' = Append(records, current)
    /\ current' = EmptyResult /\ hasID' = FALSE
    /\ UNCHANGED <<parser, body, at, info, from>>

FinishResults ==
    /\ parser = "devicecmd" /\ ~More /\ hasID
    /\ records' = Flushed
    /\ current' = EmptyResult /\ hasID' = FALSE
    /\ UNCHANGED <<parser, body, at, info, from>>

-----------------------------------------------------------------------------
(* parseAttendanceRecords *)

IntField(line, n) ==
    IF n <= Len(line) /\ line[n] \in Numbers THEN line[n] ELSE 0

(* A local time is read in the zone of the device, a number as an epoch.   *)
AttRecord(line) ==
    [user |-> line[1], time |-> line[2],
     status |-> IntField(line, 3), verify |-> IntField(line, 4),
     work |-> IF Len(line) >= 5 THEN line[5] ELSE Blank]

IsAttLine(line) ==
    Len(line) >= 2 /\ line[1] # Blank /\ line[2] \in LocalTimes \cup Numbers

AppendRecord(r) ==
    /\ records' = Append(records, r)
    /\ from' = Append(from, at)
    /\ NextItem /\ UNCHANGED <<current, hasID, info>>

SkipLine == NextItem /\ UNCHANGED <<records, current, hasID, info, from>>

AttLine ==
    /\ parser = "ATTLOG" /\ More
    /\ \/ IsAttLine(Item) /\ AppendRecord(AttRecord(Item))
       \/ ~IsAttLine(Item) /\ SkipLine

-----------------------------------------------------------------------------
(* parseUserRecords *)

Positions(line, key) == {i \in DOMAIN line : line[i].key = key}

(* The map of a line: its last value for the key, or the empty string.     *)
Field(line, key) ==
    IF Positions(line, key) = {} THEN Blank ELSE line[Max(Positions(line, key))].value

(* Atoi with its error ignored. *)
Atoi(v) == IF v \in Numbers THEN v ELSE IF v = Huge THEN MaxInt ELSE 0

UserRecord(line) ==
    [pin |-> Field(line, "PIN"), name |-> Field(line, "Name"),
     privilege |-> Atoi(Field(line, "Privilege"))]

(* Mutant of UserLine: the map is made once, before the loop.              *)
Before(n) == FlattenSeq(SubSeq(body, 1, n))

UserLineSharedMap ==
    /\ parser = "USERINFO" /\ More
    /\ \/ Field(Before(at), "PIN") # Blank /\ AppendRecord(UserRecord(Before(at)))
       \/ Field(Before(at), "PIN") = Blank /\ SkipLine

UserLine ==
    /\ parser = "USERINFO" /\ More
    /\ \/ Field(Item, "PIN") # Blank /\ AppendRecord(UserRecord(Item))
       \/ Field(Item, "PIN") = Blank /\ SkipLine

-----------------------------------------------------------------------------
(* parseKVPairs, for device info (lines, keys as they are) and for the     *)
(* registry (comma separated, "~" trimmed from the keys).                  *)
KeyOf(p) == [name |-> p.key, tilde |-> p.tilde /\ parser = "info"]

(* Mutant of KVPair: the first value of a key stays.                       *)
KVPairKeepFirst ==
    /\ parser \in {"info", "registry"} /\ More
    /\ info' = IF Item.key = "none" THEN info
               ELSE [k \in DOMAIN info \cup {KeyOf(Item)} |->
                       IF k \in DOMAIN info THEN info[k] ELSE Item.value]
    /\ NextItem /\ UNCHANGED <<records, current, hasID, from>>

KVPair ==
    /\ parser \in {"info", "registry"} /\ More
    /\ info' = IF Item.key = "none" THEN info
               ELSE [k \in DOMAIN info \cup {KeyOf(Item)} |->
                       IF k = KeyOf(Item) THEN Item.value ELSE info[k]]
    /\ NextItem /\ UNCHANGED <<records, current, hasID, from>>

Next == StartResult \/ SetField \/ SkipPart \/ FinishResults
        \/ AttLine \/ UserLine \/ KVPair

Spec == Init /\ [][Next]_vars

-----------------------------------------------------------------------------
(* Properties. *)

Results == [id : Numbers, ret : Numbers \cup {0}, cmd : Values]

TypeOK ==
    /\ parser \in {"devicecmd", "ATTLOG", "USERINFO", "info", "registry"}
    /\ at \in 1..Len(Input) + 1
    /\ Len(from) = Len(records) + (IF hasID THEN 1 ELSE 0)
    /\ parser = "devicecmd" => records \in Seq(Results)
    /\ hasID => current \in Results
    /\ \A i \in DOMAIN from : from[i] \in 1..at - 1

(* Of the parts lo to hi of the body, v is the value of the last that      *)
(* satisfies Sets, or the default when none does.                          *)
IsLast(Sets(_), lo, hi, v, default) ==
    \/ \E i \in lo..hi : /\ Sets(body[i]) /\ body[i].value = v
                         /\ \A j \in i + 1..hi : ~Sets(body[j])
    \/ v = default /\ \A i \in lo..hi : ~Sets(body[i])

(* parseCommandResults finds one result for each number an ID= gives, in   *)
(* their order, and a result has the last Return and CMD that stand after  *)
(* its ID and before the next number: nothing of another result, except    *)
(* that the first result also takes what stands before its ID. An ID that  *)
(* is no number ends nothing: what follows it goes to the result before.   *)
ResultAt(k) == IF k <= Len(records) THEN records[k] ELSE current
FirstPart(k) == IF k = 1 THEN 1 ELSE from[k]
LastPart(k)  == IF k = Len(from) THEN at - 1 ELSE from[k + 1] - 1

ResultsOfBody ==
    parser = "devicecmd" =>
      /\ {from[k] : k \in DOMAIN from} = {i \in 1..at - 1 : IsID(body[i])}
      /\ \A k \in DOMAIN from : \A l \in DOMAIN from : k < l => from[k] < from[l]
      /\ \A k \in DOMAIN from :
           /\ ResultAt(k).id = body[from[k]].value
           /\ IsLast(IsReturn, FirstPart(k), LastPart(k), ResultAt(k).ret, 0)
           /\ IsLast(IsCMD, FirstPart(k), LastPart(k), ResultAt(k).cmd, Blank)

(* parseAttendanceRecords trims the whole body before it looks at lines.   *)
(* That changes no record, except that the first line with anything in it  *)
(* loses the empty user ID that should have it skipped: every line that is *)
(* a record by itself gives that record, in the order of the lines, and    *)
(* there may be one record too many, of the first line.                    *)
LineOf(k) == Min(FilledLines(body)) + from[k] - 1

OnlyFirstLineShifts ==
    parser = "ATTLOG" =>
      /\ \A k \in DOMAIN from : \A l \in DOMAIN from : k < l => from[k] < from[l]
      /\ \A k \in DOMAIN from :
           \/ IsAttLine(body[LineOf(k)]) /\ records[k] = AttRecord(body[LineOf(k)])
           \/ from[k] = 1 /\ body[LineOf(k)][1] = Blank
      /\ ~More => \A n \in DOMAIN body :
                    IsAttLine(body[n]) => \E k \in DOMAIN from : LineOf(k) = n

(* parseUserRecords gives each line with a PIN a record of its own fields, *)
(* the last of each key, in the order of the lines, and the others none: a *)
(* field a line lacks is not taken over from the line before.              *)
UserOwnLine ==
    parser = "USERINFO" =>
      /\ {from[k] : k \in DOMAIN from}
           = {n \in 1..at - 1 : \E i \in DOMAIN body[n] :
                /\ body[n][i].key = "PIN" /\ body[n][i].value # Blank
                /\ \A j \in i + 1..Len(body[n]) : body[n][j].key # "PIN"}
      /\ \A k \in DOMAIN from : \A l \in DOMAIN from : k < l => from[k] < from[l]
      /\ \A k \in DOMAIN from : records[k] = UserRecord(body[from[k]])

(* parseKVPairs maps each key to the value that came last, under the key   *)
(* the caller looks it up by: "~Name" and "Name" are one entry of a        *)
(* registry and two of device info.                                        *)
LastPairWins ==
    parser \in {"info", "registry"} =>
      /\ DOMAIN info = {KeyOf(body[i]) : i \in {j \in 1..at - 1 : body[j].key # "none"}}
      /\ \A k \in DOMAIN info : \E i \in 1..at - 1 :
           /\ body[i].key # "none" /\ KeyOf(body[i]) = k /\ info[k] = body[i].value
           /\ \A j \in i + 1..at - 1 : body[j].key # "none" => KeyOf(body[j]) # k

(* Both maps of key=value pairs: last pair wins, within its own line or     *)
(* body.                                                                   *)
PairsOfBody == UserOwnLine /\ LastPairWins
===============================================================================
