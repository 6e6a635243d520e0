---------------------------- MODULE MCEvaluation ----------------------------
(* An instance of Evaluation for TLC: two days in a month and one after    *)
(* it, in summer time.                                                     *)
EXTENDS Evaluation

CalendarOf == <<1, 1, 2>>
BehindOf == <<300, 300, 240>>

=============================================================================
