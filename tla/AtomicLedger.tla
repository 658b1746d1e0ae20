------------------------------ MODULE AtomicLedger ------------------------------
(***************************************************************************)
(* What the write-ahead intents of the orchestration store promise: a      *)
(* ledger whose every mutation happens in one step, together with the      *)
(* answer recorded for the request that asked for it.                      *)
(*                                                                         *)
(* WorkIntents.tla is the store as it is written, one file at a time, and  *)
(* is shown to implement this specification as long as the process may     *)
(* crash anywhere but the file system itself reports no errors.            *)
(***************************************************************************)
EXTENDS Naturals

CONSTANTS Items, Attempts, Requests

VARIABLES
    ledger,     \* ledger[w]: the committed snapshot of item w and its attempts
    outcome,    \* outcome[r]: what is on record for request r
    log         \* log[r]: the effects that request r has had

vars == <<ledger, outcome, log>>

Unclaimed == [status |-> "none", effect |-> 0, created |-> 0]

Settled(r) == outcome[r].status \in {"complete", "failed"}

Init ==
    /\ \A w \in Items : ledger[w].rev = 1
    /\ outcome = [r \in Requests |-> Unclaimed]
    /\ log = [r \in Requests |-> {}]

\* A request is taken up; to make room the record of one settled request
\* may be forgotten.
Admit(r) ==
    /\ outcome[r].status = "none"
    /\ outcome'[r].status = "pending"
    /\ \E gone \in SUBSET (Requests \ {r}) :
          /\ \A p \in gone : Settled(p) /\ outcome'[p] = Unclaimed
          /\ \A p, q \in gone : p = q
          /\ \A p \in Requests \ (gone \cup {r}) : outcome'[p] = outcome[p]
    /\ UNCHANGED <<ledger, log>>

\* The contents of the files of one item.
Contents(s) == {s.stamp} \cup {s.att[a] : a \in Attempts}

\* One mutation of item w, built on what was last committed for it, that
\* brings the new content e.  The files that do not get it are as they were:
\* the item itself too, when a worker renews its lease or links a Run;
\* otherwise its revision grows.
Advance(w, e) ==
    LET old == ledger[w]
        new == ledger'[w] IN
    /\ e \in Contents(new) \ Contents(old)
    /\ \A a \in Attempts : new.att[a] \in {old.att[a], e}
    /\ \/ new.stamp = old.stamp /\ new.rev = old.rev /\ new.dec = old.dec
       \/ new.stamp = e /\ new.rev > old.rev /\ new.dec \in {old.dec, e}
    /\ \A v \in Items \ {w} : ledger'[v] = ledger[v]

\* A mutation asked for by request r: effect and answer are one step.
Perform(w, r) ==
    /\ outcome[r].status = "pending"
    /\ \E e \in Contents(ledger'[w]) :
          /\ Advance(w, e)
          /\ outcome' = [outcome EXCEPT ![r].status = "complete", ![r].effect = e]
          /\ log' = [log EXCEPT ![r] = @ \cup {e}]

\* A mutation that no request asked for.
Maintain(w) ==
    /\ \E e \in Contents(ledger'[w]) : Advance(w, e)
    /\ UNCHANGED <<outcome, log>>

\* A request is turned down; it has had no effect.
Reject(r) ==
    /\ outcome[r].status = "pending"
    /\ outcome' = [outcome EXCEPT ![r].status = "failed"]
    /\ UNCHANGED <<ledger, log>>

\* A request whose earlier record was forgotten is answered with the effect
\* it already had.
Recall(r) ==
    /\ outcome[r].status = "pending"
    /\ \E e \in log[r] :
          outcome' = [outcome EXCEPT ![r].status = "complete", ![r].effect = e]
    /\ UNCHANGED <<ledger, log>>

\* Settled records are forgotten.
Forget ==
    /\ \A r \in Requests :
          outcome'[r] = outcome[r] \/ (Settled(r) /\ outcome'[r] = Unclaimed)
    /\ UNCHANGED <<ledger, log>>

Next ==
    \/ \E w \in Items : Maintain(w) \/ \E r \in Requests : Perform(w, r)
    \/ \E r \in Requests : Admit(r) \/ Reject(r) \/ Recall(r)
    \/ Forget

Spec == Init /\ [][Next]_vars
=================================================================================
