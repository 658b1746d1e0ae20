------------------------------ MODULE MCWorkIntents ------------------------------
(* Model-checking instances of WorkIntents. *)
EXTENDS WorkIntents, TLC

Interchangeable ==
    Permutations(Callers) \cup Permutations(Requests) \cup Permutations(Attempts)
=================================================================================
