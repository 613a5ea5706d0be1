------------------------------ MODULE MCParsers -------------------------------
(* TLC instances of Parsers. *)
EXTENDS Parsers, TLC

CONSTANTS u1, u2, t1   \* texts and a local time

UpTo(n, S) == UNION {[1..k -> S] : k \in 0..n}

(* Every body of up to five parts: two IDs and one that is no number, a    *)
(* Return of 0, of 3 and of no number, two commands, and another part.     *)
MCCmdBodies ==
    UpTo(5, [key : {"ID"}, value : {1, 2, u1}] \cup [key : {"RETURN"}, value : {0, 3, Huge}]
            \cup [key : {"CMD"}, value : {u1, u2}] \cup [key : {"none"}, value : {u1}])

(* Two lines of up to three fields, or up to three short or long ones.     *)
Fields == {Blank, u1, t1, 1}
LongLines == {<<u1, t1, 1, 2, u2>>, <<Blank, t1, 1, 2, u2>>, <<u1, 2, Huge, u1, Blank>>}
MCAttBodies ==
    UpTo(2, UpTo(3, Fields) \ {<<>>})
    \cup UpTo(3, LongLines \cup (UpTo(2, {Blank, u1, t1}) \ {<<>>}))

(* Two lines of up to three fields. *)
MCUserBodies ==
    UpTo(2, UpTo(3, [key : {"PIN"}, value : {1, u1, Blank}]
                    \cup [key : {"Privilege"}, value : {1, u1, Huge}]
                    \cup [key : {"Name"}, value : {u2}] ))

(* Four parts. *)
MCPairBodies ==
    UpTo(4, [key : {"Name", "Model"}, tilde : BOOLEAN, value : {u1, u2}]
            \cup [key : {"none"}, tilde : {FALSE}, value : {u1}])
===============================================================================
