----------------------------- MODULE MCRoutines -----------------------------
(* Model-checking instance of Routines: a slot at every instant, or one slot that expires. *)
EXTENDS Routines
SomeTriggers == { [kind |-> "recurring", slots |-> 0..(MaxTime + 2), expires |-> Never],
                  [kind |-> "one_shot", slots |-> {1}, expires |-> 2] }
=============================================================================
