-------------------------- MODULE MCHostAuthority --------------------------
(* The host authority on small instances.                                  *)
EXTENDS HostAuthority, TLC

\* Attempt and capability identities are random, request digests are only compared.
Identities == Permutations(Attempts) \cup Permutations(Caps) \cup Permutations(Requests)

=============================================================================
