--------------------------- MODULE MCRunLifecycle ---------------------------
(***************************************************************************)
(* Small instances of RunLifecycle for TLC.                                *)
(***************************************************************************)
EXTENDS RunLifecycle

CONSTANTS r1, r2, r3, d, l1, l2, a

\* Two sessions share one Agent; the desktop works in the first.
TwoLanes == [r \in Runs |-> IF r = r2 THEN l2 ELSE l1]
OneLane == [r \in Runs |-> l1]
OneAgent == [r \in Runs |-> a]

=============================================================================
