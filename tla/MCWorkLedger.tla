---------------------------- MODULE MCWorkLedger ----------------------------
(***************************************************************************)
(* Small instances of WorkLedger for TLC.                                  *)
(***************************************************************************)
EXTENDS WorkLedger

CONSTANTS a, b

\* One item without dependencies.
NoDeps == [w \in Work |-> << >>]

\* b waits for a to succeed.
Chain == [w \in Work |->
            IF w = b THEN << [work |-> a, required |-> "Succeeded"] >> ELSE << >>]

=============================================================================
