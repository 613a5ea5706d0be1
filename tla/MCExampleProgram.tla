--------------------------- MODULE MCExampleProgram ---------------------------
(* TLC instances of ExampleProgram. *)
EXTENDS ExampleProgram, TLC

CONSTANTS sn1, u1

MCSender == u1 :> sn1

(* Days of 4, 6, 2 and 4 units where 4 are meant to be 24 hours: a clock    *)
(* set back on the second day and forward on the third.                     *)
MCMidnights == <<0, 4, 10, 12>>

(* A midnight, the lost hours of the long day, and a time within 24 hours   *)
(* of the midnight before last.                                             *)
MCTimes == u1 :> <<4, 9, 13>>
===============================================================================
