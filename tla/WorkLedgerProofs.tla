-------------------------- MODULE WorkLedgerProofs --------------------------
(***************************************************************************)
(* Theorems about WorkLedger, for every set of items, agents and           *)
(* observers, every policy, every dependency graph and every bound.        *)
(*                                                                         *)
(* The properties of the ledger are not inductive by themselves.  What     *)
(* makes them so is a relation between an item and its attempts that does  *)
(* not mention any other item: Coherent.  Every operation rewrites one     *)
(* item, so a step preserves the invariant when it leaves that item        *)
(* coherent (CommitKeepsIInv).                                             *)
(***************************************************************************)
EXTENDS WorkLedger, TLAPS

Coherent(w, item, tries) ==
  /\ item.state = "Absent" => item = NoItem
  /\ \A n \in Number : tries[n].state # "Absent" <=> n <= item.count
  /\ \A n \in Number :
       tries[n].lease > 0 => n = item.count /\ tries[n].state \in Active
  /\ \A n \in Number : tries[n].state \in Heartbeat => n = item.count
  /\ item.state \in ReviewGate \cup {"Succeeded", "Cancelled"} =>
       \A n \in Number : tries[n].state \notin Heartbeat
  /\ item.state = "AwaitingApproval" =>
       /\ w \in RequiresApproval
       /\ item.count \in Number
       /\ tries[item.count].state = "AwaitingApproval"
  /\ w \notin RequiresApproval => item.approval = Nobody
  /\ item.state = "Succeeded" =>
       /\ \A n \in Number : tries[n].lease = 0
       /\ item.count \in Number
       /\ tries[item.count].state = "Succeeded"
       /\ IF w \in RequiresApproval THEN item.approval # Nobody
                                    ELSE tries[item.count].linked
  /\ item.state = "Cancelled" =>
       \A n \in Number : tries[n].state \notin Active

IInv == TypeOK /\ \A w \in Work : Coherent(w, items[w], attempts[w])

-----------------------------------------------------------------------------
(***************************************************************************)
(* What the operators of the ledger return.                                *)
(***************************************************************************)

\* The dependency evaluation answers one of its three waits or none.
LEMMA DependencyWaitType ==
  ASSUME NEW w \in Work
  PROVE  DependencyWait(w) \in Waits \cup {"None"}
BY DEF DependencyWait, Waits

\* A refresh changes nothing but the state, the hold and its reason; it moves
\* only items that are neither settled nor at a human gate, and only to
\* Queued, Blocked or Failed (refresh_work_item_at).
LEMMA RefreshedType ==
  ASSUME TypeOK, NEW w \in Work
  PROVE  /\ Refreshed(w) \in Item
         /\ Refreshed(w).count = items[w].count
         /\ Refreshed(w).approval = items[w].approval
         /\ \/ Refreshed(w).state = items[w].state
            \/ /\ items[w].state \notin Terminal \cup ReviewGate \cup {"Absent"}
               /\ Refreshed(w).state \in {"Queued", "Blocked", "Failed"}
         /\ items[w].state = "Absent" => Refreshed(w) = items[w]
<1>1. items[w] \in Item
  BY DEF TypeOK
<1>2. /\ Reblocked(w, items[w]) \in Item
      /\ Reblocked(w, items[w]).count = items[w].count
      /\ Reblocked(w, items[w]).approval = items[w].approval
      /\ \/ Reblocked(w, items[w]).state = items[w].state
         \/ /\ items[w].state \in {"Queued", "Blocked"}
            /\ Reblocked(w, items[w]).state \in {"Queued", "Blocked"}
      /\ items[w].state \notin {"Queued", "Blocked"} =>
           Reblocked(w, items[w]) = items[w]
  <2> DEFINE it == items[w]
  <2> HIDE DEF it
  <2>0. it \in Item
    BY <1>1 DEF it
  <2>1. CASE it.state \in {"Queued", "Blocked"} /\ Waiting(w, it)
    <3>1. Reblocked(w, it) = [it EXCEPT !.state = "Blocked", !.block = "Derived",
                                        !.reason = DependencyWait(w)]
      BY <2>1 DEF Reblocked
    <3> QED
      BY <2>0, <2>1, <3>1, DependencyWaitType
      DEF it, Item, WorkState, BlockProvenance, BlockedReason
  <2>2. CASE it.state = "Blocked" /\ ~Waiting(w, it) /\ ~ManuallyHeld(w, it)
    <3>1. Reblocked(w, it) = [it EXCEPT !.state = "Queued", !.block = "None",
                                        !.reason = "None"]
      BY <2>2 DEF Reblocked
    <3> QED
      BY <2>0, <2>2, <3>1
      DEF it, Item, WorkState, BlockProvenance, BlockedReason
  <2>3. CASE /\ ~(it.state \in {"Queued", "Blocked"} /\ Waiting(w, it))
             /\ ~(it.state = "Blocked" /\ ~Waiting(w, it) /\ ~ManuallyHeld(w, it))
    <3>1. Reblocked(w, it) = it
      BY <2>3 DEF Reblocked
    <3> QED
      BY <2>0, <3>1 DEF it
  <2> QED
    BY <2>1, <2>2, <2>3
<1> DEFINE r == Reblocked(w, items[w])
<1> HIDE DEF r
<1>3. \/ Refreshed(w) = r
      \/ /\ Refreshed(w) = [r EXCEPT !.state = "Failed", !.block = "None"]
         /\ r.state \notin Terminal \cup ReviewGate \cup {"Absent"}
  BY DEF Refreshed, r
<1> QED
  BY <1>1, <1>2, <1>3
  DEF r, Item, WorkState, BlockProvenance, Terminal, ReviewGate

\* Expiring the lapsed attempts settles the item to Queued or Failed and
\* changes no other field (expire_attempt).
LEMMA ExpiredItemType ==
  ASSUME NEW w \in Work, NEW item \in Item
  PROVE  /\ ExpiredItem(w, item) \in Item
         /\ ExpiredItem(w, item).count = item.count
         /\ ExpiredItem(w, item).approval = item.approval
         /\ Lapsed(w) = {} => ExpiredItem(w, item) = item
         /\ Lapsed(w) # {} => ExpiredItem(w, item).state \in {"Queued", "Failed"}
<1>1. CASE Lapsed(w) = {}
  BY <1>1 DEF ExpiredItem
<1>2. CASE Lapsed(w) # {}
  <2>1. \/ ExpiredItem(w, item) = [item EXCEPT !.state = "Queued"]
        \/ ExpiredItem(w, item) = [item EXCEPT !.state = "Failed"]
    BY <1>2 DEF ExpiredItem
  <2> QED
    BY <1>2, <2>1 DEF Item, WorkState
<1> QED
  BY <1>1, <1>2

\* Expiring closes exactly the lapsed attempts and leaves leases and links.
LEMMA ExpiredTriesType ==
  ASSUME TypeOK, NEW w \in Work
  PROVE  /\ ExpiredTries(w) \in [Number -> Attempt]
         /\ \A n \in Number :
              /\ ExpiredTries(w)[n].lease = attempts[w][n].lease
              /\ ExpiredTries(w)[n].linked = attempts[w][n].linked
              /\ n \in Lapsed(w) => ExpiredTries(w)[n].state = "Expired"
              /\ n \notin Lapsed(w) => ExpiredTries(w)[n] = attempts[w][n]
<1>1. attempts[w] \in [Number -> Attempt]
  BY DEF TypeOK
<1> QED
  BY <1>1 DEF ExpiredTries, Attempt, AttemptState

\* A bump keeps observations well-typed.
LEMMA BumpType ==
  ASSUME TypeOK, NEW w \in Work, Bump(w)
  PROVE  observed' \in [Observers -> [Work -> Item \cup {Nobody}]]
BY DEF TypeOK, Bump

-----------------------------------------------------------------------------
(***************************************************************************)
(* The inductive invariant.                                                *)
(***************************************************************************)

\* A commit that leaves its own item coherent keeps the invariant.
LEMMA CommitKeepsIInv ==
  ASSUME IInv, NEW w \in Work,
         NEW item \in Item, NEW tries \in [Number -> Attempt],
         items' = [items EXCEPT ![w] = item],
         attempts' = [attempts EXCEPT ![w] = tries],
         Coherent(w, item, tries),
         overdue' = overdue, sweep' \subseteq Work,
         observed' = observed \/ Bump(w)
  PROVE  IInv'
<1>1. TypeOK
  BY DEF IInv
<1>2. observed' \in [Observers -> [Work -> Item \cup {Nobody}]]
  <2>1. CASE observed' = observed
    BY <1>1, <2>1 DEF TypeOK
  <2>2. CASE Bump(w)
    BY <1>1, <2>2, BumpType
  <2> QED
    BY <2>1, <2>2
<1>3. TypeOK'
  BY <1>1, <1>2 DEF TypeOK
<1>4. ASSUME NEW v \in Work
      PROVE  Coherent(v, items'[v], attempts'[v])
  <2>1. CASE v = w
    <3>1. items'[v] = item /\ attempts'[v] = tries
      BY <1>1, <2>1 DEF TypeOK
    <3> QED
      BY <2>1, <3>1
  <2>2. CASE v # w
    <3>1. items'[v] = items[v] /\ attempts'[v] = attempts[v]
      BY <1>1, <2>2 DEF TypeOK
    <3> QED
      BY <3>1 DEF IInv
  <2> QED
    BY <2>1, <2>2
<1> QED
  BY <1>3, <1>4 DEF IInv, Coherent

\* A decision that keeps count, and approval where it matters, and moves to a
\* state that promises nothing about the attempts keeps the invariant.
LEMMA DecideKeepsIInv ==
  ASSUME IInv, NEW w \in Work, NEW item \in Item, Decide(w, item),
         item.state # "Absent",
         item.count = items[w].count,
         item.approval \in {items[w].approval, Nobody},
         \/ item.state = items[w].state /\ item.approval = items[w].approval
         \/ item.state \in {"Queued", "Blocked"}
         \/ item.state = "Review" /\ items[w].state \in ReviewGate \cup {"Succeeded"}
  PROVE  IInv'
<1>1. TypeOK /\ Coherent(w, items[w], attempts[w])
  BY DEF IInv
<1>2. attempts[w] \in [Number -> Attempt]
  BY <1>1 DEF TypeOK
<1>3. Coherent(w, item, attempts[w])
  BY <1>1 DEF Coherent, ReviewGate, Decide, Exists
<1>4. attempts' = [attempts EXCEPT ![w] = attempts[w]]
  BY <1>1 DEF Decide, TypeOK
<1> QED
  BY <1>1, <1>2, <1>3, <1>4, CommitKeepsIInv DEF Decide, TypeOK

\* Whoever holds a live lease holds the newest attempt, so a worker's write
\* rewrites that attempt and no other (load_active_attempt_for_token).
LEMMA WorkerKeepsIInv ==
  ASSUME IInv, NEW w \in Work, NEW n \in Number, HeldBy(w, n),
         NEW item \in Item, NEW try \in Attempt,
         items' = [items EXCEPT ![w] = item],
         attempts' = [attempts EXCEPT ![w] = [attempts[w] EXCEPT ![n] = try]],
         overdue' = overdue, sweep' = sweep,
         observed' = observed \/ Bump(w),
         item.state \notin {"Absent", "Cancelled"},
         item.count = items[w].count,
         item.approval = items[w].approval,
         try.state # "Absent",
         try.lease > 0 => try.state \in Active,
         item.state \in ReviewGate \cup {"Succeeded"} =>
           try.state \notin Heartbeat,
         item.state = "AwaitingApproval" =>
           w \in RequiresApproval /\ try.state = "AwaitingApproval",
         item.state = "Succeeded" =>
           /\ try.lease = 0 /\ try.state = "Succeeded"
           /\ w \notin RequiresApproval /\ try.linked
  PROVE  IInv'
<1>1. TypeOK /\ Coherent(w, items[w], attempts[w])
  BY DEF IInv
<1>2. attempts[w] \in [Number -> Attempt] /\ items[w] \in Item /\ sweep \subseteq Work
  BY <1>1 DEF TypeOK
<1>3. attempts[w][n].lease > 0 /\ items[w].state # "Absent"
  BY DEF HeldBy, Live, Exists
<1>4. n = items[w].count
  BY <1>1, <1>3 DEF Coherent
<1> DEFINE tries == [attempts[w] EXCEPT ![n] = try]
<1>5. /\ tries \in [Number -> Attempt]
      /\ tries[n] = try
      /\ \A m \in Number : m # n => tries[m] = attempts[w][m]
  BY <1>2
<1> HIDE DEF tries
<1>6. \A m \in Number : m # n => attempts[w][m].lease = 0
  BY <1>1, <1>2, <1>4 DEF Coherent, Attempt
<1>7. Coherent(w, item, tries)
  BY <1>1, <1>3, <1>4, <1>5, <1>6, <1>2 DEF Coherent, Number, Heartbeat
<1> QED
  BY <1>2, <1>5, <1>7, CommitKeepsIInv DEF tries

\* What a live lease says about its item: it is on record and neither
\* cancelled nor succeeded.
LEMMA HeldFacts ==
  ASSUME IInv, NEW w \in Work, NEW n \in Number, HeldBy(w, n)
  PROVE  /\ items[w] \in Item
         /\ attempts[w] \in [Number -> Attempt]
         /\ attempts[w][n] \in Attempt
         /\ attempts[w][n].state \in Active
         /\ n = items[w].count
         /\ items[w].state \notin {"Absent", "Cancelled", "Succeeded"}
         /\ Coherent(w, items[w], attempts[w])
<1>1. TypeOK /\ Coherent(w, items[w], attempts[w])
  BY DEF IInv
<1>2. /\ items[w] \in Item
      /\ attempts[w] \in [Number -> Attempt]
      /\ attempts[w][n] \in Attempt
  BY <1>1 DEF TypeOK
<1>3. attempts[w][n].lease > 0 /\ items[w].state # "Absent"
  BY DEF HeldBy, Live, Exists
<1>4. attempts[w][n].state \in Active /\ n = items[w].count
  BY <1>1, <1>3 DEF Coherent
<1>5. items[w].state \notin {"Cancelled", "Succeeded"}
  BY <1>1, <1>2, <1>3, <1>4 DEF Coherent
<1> QED
  BY <1>1, <1>2, <1>3, <1>4, <1>5

\* Renewing, linking and the passing of time touch one attempt and no item.
LEMMA LeaseStepsKeepIInv ==
  ASSUME IInv, NEW w \in Work, NEW n \in Number,
         \/ LeaseElapses(w, n)
         \/ \E ticks \in 1 .. MaxLease : RenewLease(w, n, ticks)
         \/ LinkRun(w, n)
  PROVE  IInv'
<1>1. HeldBy(w, n)
  BY DEF LeaseElapses, RenewLease, LinkRun
<1>2. /\ items[w] \in Item
      /\ attempts[w] \in [Number -> Attempt]
      /\ attempts[w][n] \in Attempt
      /\ attempts[w][n].state \in Active
      /\ n = items[w].count
      /\ items[w].state \notin {"Absent", "Cancelled", "Succeeded"}
      /\ Coherent(w, items[w], attempts[w])
  BY <1>1, HeldFacts
<1>3. attempts \in [Work -> [Number -> Attempt]] /\ items \in [Work -> Item]
  BY DEF IInv, TypeOK
<1>4. items' = [items EXCEPT ![w] = items[w]]
  BY <1>3 DEF LeaseElapses, RenewLease, LinkRun
<1>5. overdue' = overdue /\ sweep' = sweep /\ observed' = observed
  BY DEF LeaseElapses, RenewLease, LinkRun
<1>6. PICK try \in Attempt :
        /\ attempts' = [attempts EXCEPT ![w] = [attempts[w] EXCEPT ![n] = try]]
        /\ \/ try.state = attempts[w][n].state
           \/ attempts[w][n].state = "Leased" /\ try.state = "Running"
  <2>1. CASE LeaseElapses(w, n)
    <3> DEFINE try == [attempts[w][n] EXCEPT !.lease = @ - 1]
    <3>1. attempts[w][n].lease > 0
      BY <1>1 DEF HeldBy, Live
    <3>2. attempts[w][n].lease \in 0 .. MaxLease /\ MaxLease \in Nat
      BY <1>2, WorkLedgerAssumption DEF Attempt
    <3>3. attempts[w][n].lease - 1 \in 0 .. MaxLease
      BY <3>1, <3>2
    <3>4. try \in Attempt /\ try.state = attempts[w][n].state
      BY <1>2, <3>3 DEF Attempt
    <3>5. attempts' = [attempts EXCEPT ![w] = [attempts[w] EXCEPT ![n] = try]]
      BY <2>1, <1>3 DEF LeaseElapses
    <3> QED
      BY <3>4, <3>5
  <2>2. CASE \E ticks \in 1 .. MaxLease : RenewLease(w, n, ticks)
    <3>1. PICK ticks \in 1 .. MaxLease : RenewLease(w, n, ticks)
      BY <2>2
    <3> DEFINE try == [attempts[w][n] EXCEPT !.lease = ticks]
    <3>2. try \in Attempt /\ try.state = attempts[w][n].state
      BY <1>2, WorkLedgerAssumption DEF Attempt
    <3>3. attempts' = [attempts EXCEPT ![w] = [attempts[w] EXCEPT ![n] = try]]
      BY <3>1, <1>3 DEF RenewLease
    <3> QED
      BY <3>2, <3>3
  <2>3. CASE LinkRun(w, n)
    <3> DEFINE try == [attempts[w][n] EXCEPT
                         !.linked = TRUE,
                         !.state = IF @ = "Leased" THEN "Running" ELSE @]
    <3>1. /\ try \in Attempt
          /\ \/ try.state = attempts[w][n].state
             \/ attempts[w][n].state = "Leased" /\ try.state = "Running"
      BY <1>2 DEF Attempt, AttemptState
    <3>2. attempts' = [attempts EXCEPT ![w] = [attempts[w] EXCEPT ![n] = try]]
      BY <2>3, <1>3 DEF LinkRun
    <3> QED
      BY <3>1, <3>2
  <2> QED
    BY <2>1, <2>2, <2>3
<1>7. try.state \in Active /\ try.state # "Absent"
  BY <1>2, <1>6 DEF Active
<1>8. items[w].state \in ReviewGate => try.state \notin Heartbeat
  BY <1>2, <1>6 DEF Coherent, Heartbeat
<1>9. items[w].state = "AwaitingApproval" =>
        w \in RequiresApproval /\ try.state = "AwaitingApproval"
  BY <1>2, <1>6 DEF Coherent
<1> QED
  BY <1>1, <1>2, <1>4, <1>5, <1>6, <1>7, <1>8, <1>9, WorkerKeepsIInv

\* Settling the newest attempt and its item together.
LEMMA SettleKeepsIInv ==
  ASSUME IInv, NEW w \in Work, NEW n \in Number, HeldBy(w, n),
         NEW itemState \in WorkState \ {"Cancelled"},
         NEW attemptState \in AttemptState,
         Settle(w, n, itemState, attemptState),
         itemState \in ReviewGate \cup {"Succeeded"} =>
           attemptState = itemState,
         itemState = "AwaitingApproval" => w \in RequiresApproval,
         itemState = "Succeeded" =>
           w \notin RequiresApproval /\ attempts[w][n].linked
  PROVE  IInv'
<1>1. /\ items[w] \in Item
      /\ attempts[w] \in [Number -> Attempt]
      /\ attempts[w][n] \in Attempt
  BY HeldFacts
<1>2. attempts \in [Work -> [Number -> Attempt]] /\ items \in [Work -> Item]
  BY DEF IInv, TypeOK
<1>3. PICK item \in Item :
        /\ items' = [items EXCEPT ![w] = item]
        /\ item = [items[w] EXCEPT !.state = itemState]
  <2>1. [items[w] EXCEPT !.state = itemState] \in Item
    BY <1>1 DEF Item
  <2> QED
    BY <1>2, <2>1 DEF Settle
<1>4. PICK try \in Attempt :
        /\ attempts' = [attempts EXCEPT ![w] = [attempts[w] EXCEPT ![n] = try]]
        /\ try = [attempts[w][n] EXCEPT
                    !.state = attemptState,
                    !.lease = IF attemptState \in Active THEN @ ELSE 0]
  <2> DEFINE try == [attempts[w][n] EXCEPT
                       !.state = attemptState,
                       !.lease = IF attemptState \in Active THEN @ ELSE 0]
  <2>1. 0 \in 0 .. MaxLease
    BY WorkLedgerAssumption
  <2>2. try \in Attempt
    BY <1>1, <2>1 DEF Attempt
  <2>3. attempts' = [attempts EXCEPT ![w] = [attempts[w] EXCEPT ![n] = try]]
    BY <1>2 DEF Settle
  <2> QED
    BY <2>2, <2>3
<1>5. /\ item.state = itemState
      /\ item.count = items[w].count
      /\ item.approval = items[w].approval
  BY <1>1, <1>3 DEF Item
<1>6. /\ try.state = attemptState
      /\ try.linked = attempts[w][n].linked
      /\ attemptState \notin Active => try.lease = 0
  BY <1>1, <1>4 DEF Attempt
<1>7. item.state \in ReviewGate \cup {"Succeeded"} => try.state \notin Heartbeat
  BY <1>5, <1>6 DEF ReviewGate, Heartbeat
<1>8. item.state = "Succeeded" =>
           /\ try.lease = 0 /\ try.state = "Succeeded"
           /\ w \notin RequiresApproval /\ try.linked
  BY <1>5, <1>6 DEF Active
<1>9. try.lease > 0 => try.state \in Active
  BY <1>6
<1>10. try.state # "Absent" /\ item.state \notin {"Absent", "Cancelled"}
  BY <1>5, <1>6 DEF AttemptState, WorkState
<1>11. item.state = "AwaitingApproval" =>
           w \in RequiresApproval /\ try.state = "AwaitingApproval"
  BY <1>5, <1>6 DEF ReviewGate
<1>12. overdue' = overdue /\ sweep' = sweep /\ Bump(w)
  BY DEF Settle
<1> QED
  BY <1>3, <1>4, <1>5, <1>7, <1>8, <1>9, <1>10, <1>11, <1>12, WorkerKeepsIInv

\* Everything the holder of a lease token may do.
LEMMA WorkerStepsKeepIInv ==
  ASSUME IInv, NEW w \in Work, NEW n \in Number, Worker(w, n)
  PROVE  IInv'
<1>1. CASE \/ \E ticks \in 1 .. MaxLease : RenewLease(w, n, ticks)
           \/ LinkRun(w, n)
  BY <1>1, LeaseStepsKeepIInv
<1>2. CASE ReportProgress(w, n)
  <2>1. HeldBy(w, n) /\ Settle(w, n, "Running", "Running")
    BY <1>2 DEF ReportProgress
  <2> QED
    BY <2>1, SettleKeepsIInv DEF WorkState, AttemptState, ReviewGate
<1>3. CASE ReleaseWork(w, n)
  <2>1. HeldBy(w, n) /\ Settle(w, n, "Queued", "Released")
    BY <1>3 DEF ReleaseWork
  <2> QED
    BY <2>1, SettleKeepsIInv DEF WorkState, AttemptState, ReviewGate
<1>4. CASE FailWork(w, n)
  <2>1. HeldBy(w, n)
    BY <1>4 DEF FailWork
  <2>2. PICK s \in {"Queued", "Failed"} : Settle(w, n, s, "Failed")
    BY <1>4 DEF FailWork
  <2> QED
    BY <2>1, <2>2, SettleKeepsIInv DEF WorkState, AttemptState, ReviewGate
<1>5. CASE \E verified \in BOOLEAN : CompleteWork(w, n, verified)
  <2>1. PICK verified \in BOOLEAN : CompleteWork(w, n, verified)
    BY <1>5
  <2>2. HeldBy(w, n)
    BY <2>1 DEF CompleteWork
  <2>3. CASE SuccessAuthorized(w, n, verified) /\ w \notin RequiresApproval
    <3>1. Settle(w, n, "Succeeded", "Succeeded")
      BY <2>1, <2>3 DEF CompleteWork
    <3>2. items[w].approval = Nobody
      BY <2>2, <2>3, HeldFacts DEF Coherent
    <3>3. attempts[w][n].linked
      BY <2>3, <3>2 DEF SuccessAuthorized
    <3> QED
      BY <2>2, <2>3, <3>1, <3>3, SettleKeepsIInv
      DEF WorkState, AttemptState, ReviewGate
  <2>4. CASE ~(SuccessAuthorized(w, n, verified) /\ w \notin RequiresApproval)
    <3>1. PICK gate \in ReviewGate :
            /\ Settle(w, n, gate, gate)
            /\ gate = "AwaitingApproval" => w \in RequiresApproval
      BY <2>1, <2>4 DEF CompleteWork, ReviewGate
    <3> QED
      BY <2>2, <3>1, SettleKeepsIInv DEF WorkState, AttemptState, ReviewGate
  <2> QED
    BY <2>3, <2>4
<1>6. CASE ParkInput(w, n)
  <2>1. HeldBy(w, n)
    BY <1>6 DEF ParkInput
  <2>2. /\ items[w] \in Item
        /\ attempts[w] \in [Number -> Attempt]
        /\ attempts[w][n] \in Attempt
    BY <2>1, HeldFacts
  <2>3. attempts \in [Work -> [Number -> Attempt]] /\ items \in [Work -> Item]
    BY DEF IInv, TypeOK
  <2>4. PICK item \in Item :
          /\ items' = [items EXCEPT ![w] = item]
          /\ item.state = "AwaitingInput"
          /\ item.count = items[w].count
          /\ item.approval = items[w].approval
    <3> DEFINE item == [items[w] EXCEPT !.state = "AwaitingInput", !.reason = "text"]
    <3>1. /\ item \in Item
          /\ item.state = "AwaitingInput"
          /\ item.count = items[w].count
          /\ item.approval = items[w].approval
      BY <2>2 DEF Item, WorkState, BlockedReason
    <3>2. items' = [items EXCEPT ![w] = item]
      BY <1>6, <2>3 DEF ParkInput
    <3> QED
      BY <3>1, <3>2
  <2>5. PICK try \in Attempt :
          /\ attempts' = [attempts EXCEPT ![w] = [attempts[w] EXCEPT ![n] = try]]
          /\ try.state = "AwaitingInput"
    <3> DEFINE try == [attempts[w][n] EXCEPT !.state = "AwaitingInput"]
    <3>1. try \in Attempt /\ try.state = "AwaitingInput"
      BY <2>2 DEF Attempt, AttemptState
    <3>2. attempts' = [attempts EXCEPT ![w] = [attempts[w] EXCEPT ![n] = try]]
      BY <1>6, <2>3 DEF ParkInput
    <3> QED
      BY <3>1, <3>2
  <2>6. overdue' = overdue /\ sweep' = sweep /\ Bump(w)
    BY <1>6 DEF ParkInput
  <2> QED
    BY <2>1, <2>4, <2>5, <2>6, WorkerKeepsIInv DEF Active, ReviewGate
<1> QED
  BY <1>1, <1>2, <1>3, <1>4, <1>5, <1>6 DEF Worker

\* Approval closes the gated attempt, which is the newest one.
LEMMA ApprovalKeepsIInv ==
  ASSUME IInv, NEW w \in Work, NEW r \in Reviewers, ApproveWork(w, r)
  PROVE  IInv'
<1>1. TypeOK /\ Coherent(w, items[w], attempts[w])
  BY DEF IInv
<1>2. attempts[w] \in [Number -> Attempt] /\ items[w] \in Item
  BY <1>1 DEF TypeOK
<1> DEFINE c == items[w].count
<1> DEFINE Gated == {m \in Number : attempts[w][m].state = "AwaitingApproval"}
<1> DEFINE last == CHOOSE m \in Gated : \A k \in Gated : k <= m
<1>3. items[w].state = "AwaitingApproval"
  BY DEF ApproveWork
<1>4. /\ w \in RequiresApproval
      /\ c \in Number
      /\ attempts[w][c].state = "AwaitingApproval"
      /\ \A n \in Number : attempts[w][n].state # "Absent" <=> n <= c
      /\ \A n \in Number : attempts[w][n].lease > 0 => n = c
      /\ \A n \in Number : attempts[w][n].state \notin Heartbeat
  BY <1>1, <1>3 DEF Coherent, ReviewGate
<1>5. last = c
  <2>1. c \in Gated /\ \A k \in Gated : k <= c
    BY <1>4
  <2>2. last \in Gated /\ \A k \in Gated : k <= last
    BY <2>1
  <2>3. Gated \subseteq Nat
    BY DEF Number
  <2> HIDE DEF last, c, Gated
  <2>4. c <= last /\ last <= c /\ c \in Nat /\ last \in Nat
    BY <2>1, <2>2, <2>3
  <2> QED
    BY <2>4
<1> DEFINE item == [items[w] EXCEPT !.state = "Succeeded", !.approval = r]
<1> DEFINE tries == [attempts[w] EXCEPT ![c].state = "Succeeded", ![c].lease = 0]
<1>6. /\ items' = [items EXCEPT ![w] = item]
      /\ attempts' = [attempts EXCEPT ![w] = tries]
      /\ Bump(w) /\ overdue' = overdue /\ sweep' = sweep
  <2>1. Commit(w, item, [attempts[w] EXCEPT ![last].state = "Succeeded",
                                            ![last].lease = 0])
    BY DEF ApproveWork
  <2> HIDE DEF last, c
  <2> QED
    BY <1>5, <2>1 DEF ApproveWork, Commit
<1>7. /\ item \in Item /\ item.state = "Succeeded" /\ item.approval = r
      /\ item.count = c
  BY <1>2 DEF Item, WorkState
<1>8. /\ tries \in [Number -> Attempt]
      /\ tries[c].state = "Succeeded" /\ tries[c].lease = 0
      /\ \A n \in Number : n # c => tries[n] = attempts[w][n]
  <2>1. 0 \in 0 .. MaxLease
    BY WorkLedgerAssumption
  <2> QED
    BY <1>2, <1>4, <2>1 DEF Attempt, AttemptState
<1>9. \A n \in Number : tries[n].lease = 0
  <2>1. \A n \in Number : attempts[w][n].lease \in Nat
    BY <1>2 DEF Attempt
  <2> QED
    BY <1>4, <1>8, <2>1
<1>10. r # Nobody
  BY WorkLedgerAssumption
<1> HIDE DEF item, tries, c
<1>11. Coherent(w, item, tries)
  BY <1>4, <1>7, <1>8, <1>9, <1>10 DEF Coherent, Heartbeat, ReviewGate
<1> QED
  BY <1>1, <1>6, <1>7, <1>8, <1>11, CommitKeepsIInv DEF TypeOK

\* Cancellation closes every active attempt.
LEMMA CancellationKeepsIInv ==
  ASSUME IInv, NEW w \in Work, CancelWork(w)
  PROVE  IInv'
<1>1. TypeOK /\ Coherent(w, items[w], attempts[w])
  BY DEF IInv
<1>2. attempts[w] \in [Number -> Attempt] /\ items[w] \in Item
  BY <1>1 DEF TypeOK
<1> DEFINE item == [items[w] EXCEPT !.state = "Cancelled"]
<1> DEFINE closed(n) == [attempts[w][n] EXCEPT !.state = "Cancelled", !.lease = 0]
<1> DEFINE tries == [n \in Number |-> IF attempts[w][n].state \in Active
                                      THEN closed(n) ELSE attempts[w][n]]
<1>3. /\ items' = [items EXCEPT ![w] = item]
      /\ attempts' = [attempts EXCEPT ![w] = tries]
      /\ Bump(w) /\ overdue' = overdue /\ sweep' = sweep
  BY DEF CancelWork, Commit
<1>4. /\ item \in Item /\ item.state = "Cancelled" /\ item.count = items[w].count
      /\ item.approval = items[w].approval
  BY <1>2 DEF Item, WorkState
<1>5. ASSUME NEW n \in Number
      PROVE  /\ closed(n) \in Attempt
             /\ closed(n).state = "Cancelled" /\ closed(n).lease = 0
  <2>1. 0 \in 0 .. MaxLease
    BY WorkLedgerAssumption
  <2>2. attempts[w][n] \in Attempt
    BY <1>2
  <2> QED
    BY <2>1, <2>2 DEF Attempt, AttemptState
<1> HIDE DEF closed
<1>6. tries \in [Number -> Attempt]
  BY <1>2, <1>5
<1>7. \A n \in Number :
        \/ /\ attempts[w][n].state \in Active
           /\ tries[n].state = "Cancelled" /\ tries[n].lease = 0
        \/ /\ attempts[w][n].state \notin Active
           /\ tries[n] = attempts[w][n]
  BY <1>5
<1> HIDE DEF item, tries
<1>8. Coherent(w, item, tries)
  BY <1>1, <1>4, <1>7 DEF Coherent, Active, Heartbeat, ReviewGate
<1> QED
  BY <1>1, <1>3, <1>4, <1>6, <1>8, CommitKeepsIInv DEF TypeOK

\* Everything an operator or coordinator may decide.
LEMMA OperatorStepsKeepIInv ==
  ASSUME IInv, NEW w \in Work, Operator(w)
  PROVE  IInv'
<1>1. items[w] \in Item
  BY DEF IInv, TypeOK
<1>2. ASSUME NEW a \in Agents \cup {Nobody}, AssignWork(w, a)
      PROVE  IInv'
  <2> DEFINE item == [items[w] EXCEPT
       !.assignee = a, !.status = IF a = Nobody THEN "Unassigned" ELSE "Accepted"]
  <2>1. /\ item \in Item /\ item.state = items[w].state
        /\ item.count = items[w].count /\ item.approval = items[w].approval
    BY <1>1 DEF Item, AssignmentStatus
  <2>2. Decide(w, item) /\ items[w].state # "Absent"
    BY <1>2 DEF AssignWork, Decide, Exists
  <2> HIDE DEF item
  <2> QED
    BY <2>1, <2>2, DecideKeepsIInv
<1>3. ASSUME NEW a \in Agents, OfferWork(w, a) \/ ReassignWork(w, a)
      PROVE  IInv'
  <2>1. PICK s \in {"Offered", "Accepted"} :
          Decide(w, [items[w] EXCEPT !.assignee = a, !.status = s])
    BY <1>3 DEF OfferWork, ReassignWork
  <2> DEFINE item == [items[w] EXCEPT !.assignee = a, !.status = s]
  <2>2. /\ item \in Item /\ item.state = items[w].state
        /\ item.count = items[w].count /\ item.approval = items[w].approval
    BY <1>1 DEF Item, AssignmentStatus
  <2>3. items[w].state # "Absent"
    BY <2>1 DEF Decide, Exists
  <2> HIDE DEF item
  <2> QED
    BY <2>1, <2>2, <2>3, DecideKeepsIInv DEF item
<1>4. ASSUME NEW a \in Agents, AcceptWork(w, a) \/ DeclineWork(w, a)
      PROVE  IInv'
  <2>1. PICK item \in { [items[w] EXCEPT !.status = "Accepted"],
                        [items[w] EXCEPT !.assignee = Nobody, !.status = "Declined"] } :
          Decide(w, item)
    BY <1>4 DEF AcceptWork, DeclineWork
  <2>2. /\ item \in Item /\ item.state = items[w].state
        /\ item.count = items[w].count /\ item.approval = items[w].approval
    BY <1>1 DEF Item, AssignmentStatus
  <2>3. items[w].state # "Absent"
    BY <2>1 DEF Decide, Exists
  <2> QED
    BY <2>1, <2>2, <2>3, DecideKeepsIInv
<1>5. ASSUME ReprioritizeWork(w) \/ AuthorizeExecution(w)
      PROVE  IInv'
  <2>1. Decide(w, items[w]) /\ items[w].state # "Absent"
    BY <1>5 DEF ReprioritizeWork, AuthorizeExecution, Decide, Exists
  <2> QED
    BY <1>1, <2>1, DecideKeepsIInv
<1>6. ASSUME BlockWork(w) \/ UnblockWork(w) \/ RetryWork(w)
      PROVE  IInv'
  <2>1. PICK item \in
          { [items[w] EXCEPT !.state = "Blocked", !.block = "Manual", !.reason = "text"],
            [items[w] EXCEPT !.state = "Queued", !.block = "None", !.reason = "None"],
            [items[w] EXCEPT !.state = "Queued", !.approval = Nobody] } :
          Decide(w, item)
    BY <1>6 DEF BlockWork, UnblockWork, RetryWork
  <2>2. /\ item \in Item /\ item.state \in {"Queued", "Blocked"}
        /\ item.count = items[w].count
        /\ item.approval \in {items[w].approval, Nobody}
    BY <1>1 DEF Item, WorkState, BlockProvenance, BlockedReason
  <2> QED
    BY <2>1, <2>2, DecideKeepsIInv
<1>7. ASSUME RequestReview(w)
      PROVE  IInv'
  <2> DEFINE item == [items[w] EXCEPT !.state = "Review"]
  <2>1. /\ item \in Item /\ item.state = "Review"
        /\ item.count = items[w].count /\ item.approval = items[w].approval
    BY <1>1 DEF Item, WorkState
  <2>2. Decide(w, item) /\ items[w].state \in ReviewGate \cup {"Succeeded"}
    BY <1>7 DEF RequestReview
  <2> HIDE DEF item
  <2> QED
    BY <2>1, <2>2, DecideKeepsIInv
<1> QED
  BY <1>2, <1>3, <1>4, <1>5, <1>6, <1>7, ApprovalKeepsIInv, CancellationKeepsIInv
  DEF Operator

\* The item after a refresh, and after the expiry that may follow, is
\* coherent with the attempts after that expiry.  A settled item is not
\* touched by the expiry when it comes from the reconciliation pass.
LEMMA SweepIsCoherent ==
  ASSUME IInv, NEW w \in Work
  PROVE  /\ Coherent(w, Refreshed(w), attempts[w])
         /\ Refreshed(w).state \in Terminal =>
              Coherent(w, Refreshed(w), ExpiredTries(w))
         /\ Coherent(w, Swept(w), ExpiredTries(w))
         /\ Refreshed(w) \in Item /\ Swept(w) \in Item
         /\ ExpiredTries(w) \in [Number -> Attempt]
         /\ Swept(w).count = items[w].count
         /\ Swept(w).approval = items[w].approval
<1>1. TypeOK /\ Coherent(w, items[w], attempts[w])
  BY DEF IInv
<1>2. attempts[w] \in [Number -> Attempt] /\ items[w] \in Item
  BY <1>1 DEF TypeOK
<1>3. /\ Refreshed(w) \in Item
      /\ Refreshed(w).count = items[w].count
      /\ Refreshed(w).approval = items[w].approval
      /\ \/ Refreshed(w).state = items[w].state
         \/ /\ items[w].state \notin Terminal \cup ReviewGate \cup {"Absent"}
            /\ Refreshed(w).state \in {"Queued", "Blocked", "Failed"}
      /\ items[w].state = "Absent" => Refreshed(w) = items[w]
  BY <1>1, RefreshedType
<1>4. /\ Swept(w) \in Item
      /\ Swept(w).count = Refreshed(w).count
      /\ Swept(w).approval = Refreshed(w).approval
      /\ Lapsed(w) = {} => Swept(w) = Refreshed(w)
      /\ Lapsed(w) # {} => Swept(w).state \in {"Queued", "Failed"}
  BY <1>3, ExpiredItemType DEF Swept
<1>5. /\ ExpiredTries(w) \in [Number -> Attempt]
      /\ \A n \in Number :
           /\ ExpiredTries(w)[n].lease = attempts[w][n].lease
           /\ ExpiredTries(w)[n].linked = attempts[w][n].linked
           /\ n \in Lapsed(w) => ExpiredTries(w)[n].state = "Expired"
           /\ n \notin Lapsed(w) => ExpiredTries(w)[n] = attempts[w][n]
  BY <1>1, ExpiredTriesType
<1>6. \A n \in Number : n \in Lapsed(w) =>
        attempts[w][n].state \in Heartbeat /\ ~(attempts[w][n].lease > 0)
  BY DEF Lapsed, Live
<1>7. Coherent(w, Refreshed(w), attempts[w])
  BY <1>1, <1>3 DEF Coherent, Terminal, ReviewGate
<1> DEFINE tries == ExpiredTries(w)
<1> DEFINE Stale == Lapsed(w)
<1>8. ASSUME NEW item \in Item, Coherent(w, item, attempts[w])
      PROVE  Coherent(w, item, tries)
  <2> HIDE DEF tries, Stale
  <2>1. \A n \in Number :
          \/ /\ attempts[w][n].state \in Heartbeat /\ tries[n].state = "Expired"
             /\ tries[n].lease = attempts[w][n].lease
             /\ ~(attempts[w][n].lease > 0)
          \/ tries[n] = attempts[w][n]
    BY <1>5, <1>6 DEF tries
  <2>2. item.state \in {"Succeeded", "AwaitingApproval"} =>
          item.count \in Number /\ tries[item.count] = attempts[w][item.count]
    BY <1>8, <2>1 DEF Coherent, Heartbeat
  <2> QED
    BY <1>8, <2>1, <2>2 DEF Coherent, Heartbeat, ReviewGate, Active
<1>9. Coherent(w, Refreshed(w), ExpiredTries(w))
  BY <1>3, <1>7, <1>8
<1>10. Coherent(w, Swept(w), ExpiredTries(w))
  <2>1. CASE Lapsed(w) = {}
    BY <2>1, <1>4, <1>9
  <2>2. CASE Lapsed(w) # {}
    BY <2>2, <1>4, <1>9 DEF Coherent, ReviewGate
  <2> QED
    BY <2>1, <2>2
<1> QED
  BY <1>3, <1>4, <1>5, <1>7, <1>9, <1>10

\* A granted claim numbers its attempt one past the newest and finds no other
\* lease; a refused one leaves only what it swept on the way.
LEMMA ClaimStepsKeepIInv ==
  ASSUME IInv, NEW w \in Work, Claimant(w)
  PROVE  IInv'
<1>1. TypeOK /\ Coherent(w, items[w], attempts[w])
  BY DEF IInv
<1>2. attempts[w] \in [Number -> Attempt] /\ items[w] \in Item /\ sweep \subseteq Work
  BY <1>1 DEF TypeOK
<1>3. /\ Coherent(w, Refreshed(w), attempts[w])
      /\ Coherent(w, Swept(w), ExpiredTries(w))
      /\ Refreshed(w) \in Item /\ Swept(w) \in Item
      /\ ExpiredTries(w) \in [Number -> Attempt]
      /\ Swept(w).count = items[w].count
      /\ Swept(w).approval = items[w].approval
  BY SweepIsCoherent
<1>4. ASSUME NEW c \in Claimants, NEW ticks \in 1 .. MaxLease, ClaimWork(w, c, ticks)
      PROVE  IInv'
  <2> DEFINE n == items[w].count + 1
  <2> DEFINE item == [Swept(w) EXCEPT !.state = "Leased", !.count = n]
  <2> DEFINE try == [state |-> "Leased", lease |-> ticks, linked |-> FALSE]
  <2> DEFINE tries == [ExpiredTries(w) EXCEPT ![n] = try]
  <2>1. /\ items' = [items EXCEPT ![w] = item]
        /\ attempts' = [attempts EXCEPT ![w] = tries]
        /\ Bump(w) /\ overdue' = overdue /\ sweep' = sweep
        /\ Grantable(w, c)
    BY <1>4 DEF ClaimWork, Commit
  <2>2. items[w].count \in 0 .. MaxAttempts /\ MaxAttempts \in Nat
    BY <1>2, WorkLedgerAssumption DEF Item
  <2>3. items[w].count < MaxAttempts
    BY <1>3, <2>1 DEF Grantable, Admissible
  <2>4. /\ n \in Number /\ n \in 0 .. MaxAttempts
        /\ \A m \in Number : m # n => (m <= n <=> m <= items[w].count)
        /\ ~(n <= items[w].count)
    BY <2>2, <2>3 DEF Number
  <2>5. /\ item \in Item /\ item.state = "Leased" /\ item.count = n
        /\ item.approval = items[w].approval
    BY <1>3, <2>4 DEF Item, WorkState
  <2>6. try \in Attempt /\ try.state = "Leased"
    <3>1. ticks \in 0 .. MaxLease
      BY WorkLedgerAssumption
    <3> QED
      BY <3>1 DEF Attempt, AttemptState
  <2> HIDE DEF try
  <2>7. /\ tries \in [Number -> Attempt]
        /\ tries[n] = try
        /\ \A m \in Number : m # n => tries[m] = ExpiredTries(w)[m]
    BY <1>3, <2>4, <2>6
  <2>8. \A m \in Number : ~(attempts[w][m].lease > 0)
    BY <2>1 DEF Grantable, Live
  <2>9. \A m \in Number : /\ ~(ExpiredTries(w)[m].lease > 0)
                          /\ ExpiredTries(w)[m].state \notin Heartbeat
    <3>1. \A m \in Number :
              /\ ExpiredTries(w)[m].lease = attempts[w][m].lease
              /\ m \in Lapsed(w) => ExpiredTries(w)[m].state = "Expired"
              /\ m \notin Lapsed(w) => ExpiredTries(w)[m] = attempts[w][m]
      BY <1>1, ExpiredTriesType
    <3>2. \A m \in Number : m \notin Lapsed(w) => attempts[w][m].state \notin Heartbeat
      BY <2>8 DEF Lapsed, Live
    <3> QED
      BY <2>8, <3>1, <3>2 DEF Heartbeat
  <2> HIDE DEF item, tries, n
  <2>10. Coherent(w, item, tries)
    <3>1. /\ \A m \in Number : ExpiredTries(w)[m].state # "Absent" <=> m <= items[w].count
          /\ w \notin RequiresApproval => items[w].approval = Nobody
      BY <1>3 DEF Coherent
    <3>2. n <= n
      BY <2>4 DEF Number
    <3>3. \A m \in Number : tries[m].state # "Absent" <=> m <= n
      BY <2>4, <2>6, <2>7, <3>1, <3>2
    <3> QED
      BY <2>5, <2>6, <2>7, <2>9, <3>1, <3>3 DEF Coherent, Active, Heartbeat, ReviewGate
  <2> QED
    BY <1>2, <2>1, <2>5, <2>7, <2>10, CommitKeepsIInv
<1>5. ASSUME NEW c \in Claimants, RefuseClaim(w, c)
      PROVE  IInv'
  <2>1. /\ overdue' = overdue /\ sweep' = sweep
        /\ observed' = observed \/ Bump(w)
        /\ \/ Commit(w, Refreshed(w), attempts[w])
           \/ Commit(w, Swept(w), ExpiredTries(w))
    BY <1>5 DEF RefuseClaim
  <2> QED
    BY <1>2, <1>3, <2>1, CommitKeepsIInv DEF Commit
<1> QED
  BY <1>4, <1>5 DEF Claimant

\* One item of a reconciliation pass.
LEMMA ReconcileKeepsIInv ==
  ASSUME IInv, NEW w \in Work, ReconcileItem(w)
  PROVE  IInv'
<1>1. attempts[w] \in [Number -> Attempt] /\ sweep \subseteq Work
  BY DEF IInv, TypeOK
<1>2. /\ Refreshed(w).state \in Terminal =>
           Coherent(w, Refreshed(w), ExpiredTries(w))
      /\ Coherent(w, Swept(w), ExpiredTries(w))
      /\ Refreshed(w) \in Item /\ Swept(w) \in Item
      /\ ExpiredTries(w) \in [Number -> Attempt]
  BY SweepIsCoherent
<1>3. /\ overdue' = overdue /\ sweep' \subseteq Work
      /\ observed' = observed \/ Bump(w)
  BY <1>1 DEF ReconcileItem
<1>4. CASE Refreshed(w).state \in Terminal
  <2>1. Commit(w, Refreshed(w), ExpiredTries(w))
    BY <1>4 DEF ReconcileItem
  <2> QED
    BY <1>2, <1>3, <1>4, <2>1, CommitKeepsIInv DEF Commit
<1>5. CASE Refreshed(w).state \notin Terminal
  <2>1. Commit(w, Swept(w), ExpiredTries(w))
    BY <1>5 DEF ReconcileItem
  <2> QED
    BY <1>2, <1>3, <2>1, CommitKeepsIInv DEF Commit
<1> QED
  BY <1>4, <1>5

\* Initial states, the records of older builds included, are coherent.
LEMMA InitIInv ==
  ASSUME Init
  PROVE  IInv
<1>1. NoItem \in Item /\ NoItem.count = 0 /\ NoItem.approval = Nobody
  <2>1. 0 \in 0 .. MaxAttempts
    BY WorkLedgerAssumption
  <2> QED
    BY <2>1 DEF NoItem, Item, BlockProvenance, BlockedReason, AssignmentStatus
<1>2. ASSUME NEW reason \in {"None", "text"}
      PROVE  /\ LegacyItem(reason) \in Item /\ LegacyItem(reason).count = 0
             /\ LegacyItem(reason).approval = Nobody
             /\ LegacyItem(reason).state = "Blocked"
  <2>1. LegacyItem(reason) = [NoItem EXCEPT !.state = "Blocked", !.reason = reason]
    BY DEF LegacyItem
  <2> QED
    BY <1>1, <2>1 DEF Item, WorkState, BlockedReason
<1>3. NoAttempt \in Attempt /\ NoAttempt.state = "Absent" /\ NoAttempt.lease = 0
  <2>1. 0 \in 0 .. MaxLease
    BY WorkLedgerAssumption
  <2> QED
    BY <2>1 DEF NoAttempt, Attempt
<1>4. items \in [Work -> {NoItem, LegacyItem("None"), LegacyItem("text")}]
  BY DEF Init
<1>5. attempts = [w \in Work |-> [n \in Number |-> NoAttempt]]
  BY DEF Init
<1>6. TypeOK
  <2>1. items \in [Work -> Item]
    BY <1>1, <1>2, <1>4
  <2>2. attempts \in [Work -> [Number -> Attempt]]
    BY <1>3, <1>5
  <2> QED
    BY <2>1, <2>2 DEF TypeOK, Init
<1>7. ASSUME NEW w \in Work
      PROVE  Coherent(w, items[w], attempts[w])
  <2>1. /\ items[w] = NoItem \/ items[w].state = "Blocked"
        /\ items[w].count = 0 /\ items[w].approval = Nobody
    BY <1>1, <1>2, <1>4
  <2>2. \A n \in Number : attempts[w][n] = NoAttempt
    BY <1>5
  <2>3. \A n \in Number : ~(n <= 0)
    BY DEF Number
  <2>4. NoItem.state = "Absent"
    BY DEF NoItem
  <2> QED
    BY <1>3, <2>1, <2>2, <2>3, <2>4 DEF Coherent, Heartbeat, ReviewGate
<1> QED
  BY <1>6, <1>7 DEF IInv

\* Every step keeps the invariant.
LEMMA NextIInv ==
  ASSUME IInv, [Next]_vars
  PROVE  IInv'
<1>1. TypeOK
  BY DEF IInv
<1>2. ASSUME NEW w \in Work, CreateWork(w)
      PROVE  IInv'
  <2>1. items[w] = NoItem /\ Coherent(w, items[w], attempts[w])
    BY <1>2 DEF CreateWork, Exists, IInv, Coherent
  <2>2. /\ NewItem \in Item /\ NewItem.state = "Queued"
        /\ NewItem.count = items[w].count /\ NewItem.approval = items[w].approval
    <3>1. items[w] \in Item
      BY <1>1 DEF TypeOK
    <3> QED
      BY <2>1, <3>1 DEF NewItem, Item, WorkState
  <2>3. Coherent(w, NewItem, attempts[w])
    BY <2>1, <2>2 DEF Coherent, ReviewGate
  <2>4. attempts[w] \in [Number -> Attempt]
    BY <1>1 DEF TypeOK
  <2>5. attempts' = [attempts EXCEPT ![w] = attempts[w]]
    BY <1>1, <1>2 DEF CreateWork, TypeOK
  <2> QED
    BY <1>1, <1>2, <2>2, <2>3, <2>4, <2>5, CommitKeepsIInv DEF CreateWork, TypeOK
<1>3. ASSUME NEW w \in Work, DeadlinePasses(w)
      PROVE  IInv'
  BY <1>3 DEF DeadlinePasses, IInv, TypeOK, Coherent
<1>4. ASSUME NEW w \in Work, NEW o \in Observers, ReadRevision(o, w)
      PROVE  IInv'
  <2>1. items[w] \in Item
    BY <1>1 DEF TypeOK
  <2>2. observed' \in [Observers -> [Work -> Item \cup {Nobody}]]
    BY <1>1, <1>4, <2>1 DEF ReadRevision, TypeOK
  <2> QED
    BY <1>4, <2>2 DEF ReadRevision, IInv, TypeOK, Coherent
<1>5. ASSUME StartSweep \/ AbandonSweep
      PROVE  IInv'
  BY <1>5 DEF StartSweep, AbandonSweep, IInv, TypeOK, Coherent
<1>6. ASSUME UNCHANGED vars
      PROVE  IInv'
  BY <1>6 DEF vars, IInv, TypeOK, Coherent
<1>7. ASSUME NEW w \in Work, NEW n \in Number, LeaseElapses(w, n) \/ Worker(w, n)
      PROVE  IInv'
  BY <1>7, LeaseStepsKeepIInv, WorkerStepsKeepIInv
<1>8. ASSUME NEW w \in Work, Claimant(w) \/ Operator(w) \/ ReconcileItem(w)
      PROVE  IInv'
  BY <1>8, ClaimStepsKeepIInv, OperatorStepsKeepIInv, ReconcileKeepsIInv
<1> QED
  BY <1>2, <1>3, <1>4, <1>5, <1>6, <1>7, <1>8 DEF Next

\* IInv is an invariant of the ledger.
THEOREM Coherence == Spec => []IInv
<1>1. Init => IInv
  BY InitIInv
<1>2. IInv /\ [Next]_vars => IInv'
  BY NextIInv
<1> QED
  BY <1>1, <1>2, PTL DEF Spec

-----------------------------------------------------------------------------
(***************************************************************************)
(* The state invariants of the ledger.                                     *)
(***************************************************************************)

\* Every record keeps the shape its struct declares, whatever the calls.
THEOREM TypeCorrectness == Spec => []TypeOK
<1>1. IInv => TypeOK
  BY DEF IInv
<1> QED
  BY <1>1, Coherence, PTL

\* No two workers ever hold a live lease on one item: claim_work_inner refuses
\* while any lease lives, and no other operation opens one.
THEOREM LeasesAreExclusive == Spec => []LeaseExclusion
<1>1. IInv => LeaseExclusion
  BY DEF IInv, LeaseExclusion, Coherent, Live
<1> QED
  BY <1>1, Coherence, PTL

\* The attempts on record are exactly the ones counted, so no attempt number
\* is issued twice and the budget cannot be overspent.
THEOREM AttemptHistoryIsComplete == Spec => []AttemptsCounted
<1>1. IInv => AttemptsCounted
  BY DEF IInv, AttemptsCounted, Coherent
<1> QED
  BY <1>1, Coherence, PTL

\* Nothing executes behind a gate, a success or a cancellation.
THEOREM OutcomesStopExecution == Spec => []NoExecutionBehindOutcome
<1>1. IInv => NoExecutionBehindOutcome
  BY DEF IInv, NoExecutionBehindOutcome, Coherent
<1> QED
  BY <1>1, Coherence, PTL

\* Succeeded is reached only with an approval where one is required and with
\* a linked Run where none is.
THEOREM SuccessesAreEarned == Spec => []SuccessIsEarned
<1>1. IInv => SuccessIsEarned
  BY DEF IInv, SuccessIsEarned, Coherent
<1> QED
  BY <1>1, Coherence, PTL

-----------------------------------------------------------------------------
(***************************************************************************)
(* Action properties.                                                      *)
(***************************************************************************)

\* Sweeping an item without lapsed attempts is refreshing it, and a refresh
\* does not move a settled item.
LEMMA SettledItemsAreNotSwept ==
  ASSUME IInv, NEW v \in Work, items[v].state \in {"Cancelled", "Succeeded"}
  PROVE  /\ Refreshed(v).state = items[v].state
         /\ Swept(v) = Refreshed(v)
         /\ \A n \in Number : ~Live(v, n)
<1>1. TypeOK /\ Coherent(v, items[v], attempts[v])
  BY DEF IInv
<1>2. Refreshed(v).state = items[v].state
  BY <1>1, RefreshedType DEF Terminal
<1>3. \A n \in Number : attempts[v][n].state \notin Heartbeat /\ ~Live(v, n)
  <2>1. \A n \in Number : attempts[v][n].lease \in Nat
    BY <1>1 DEF TypeOK, Attempt
  <2> QED
    BY <1>1, <2>1 DEF Coherent, Live
<1>4. Lapsed(v) = {}
  BY <1>3 DEF Lapsed
<1> QED
  BY <1>2, <1>3, <1>4 DEF Swept, ExpiredItem

\* Only a review request moves an item that is cancelled or has succeeded.
LEMMA SettledItemsStay ==
  ASSUME IInv, [Next]_vars, NEW v \in Work,
         items[v].state \in {"Cancelled", "Succeeded"}
  PROVE  items'[v].state = items[v].state \/ RequestReview(v)
<1>1. TypeOK
  BY DEF IInv
<1>2. items \in [Work -> Item] /\ \A w \in Work : items[w] \in Item
  BY <1>1 DEF TypeOK
<1>3. /\ Refreshed(v).state = items[v].state
      /\ Swept(v) = Refreshed(v)
      /\ \A n \in Number : ~Live(v, n)
  BY SettledItemsAreNotSwept
<1>4. ASSUME NEW w \in Work, CreateWork(w)
      PROVE  items'[v].state = items[v].state
  BY <1>2, <1>4 DEF CreateWork, Exists
<1>5. ASSUME NEW w \in Work, NEW n \in Number, LeaseElapses(w, n) \/ Worker(w, n)
      PROVE  items'[v].state = items[v].state
  <2>1. HeldBy(w, n)
    BY <1>5 DEF LeaseElapses, Worker, RenewLease, LinkRun, ReportProgress, ParkInput,
         ReleaseWork, CompleteWork, FailWork
  <2>2. w # v
    BY <1>3, <2>1 DEF HeldBy
  <2>3. \/ items' = items
        \/ \E item : items' = [items EXCEPT ![w] = item]
    BY <1>5 DEF LeaseElapses, Worker, RenewLease, LinkRun, ReportProgress, ParkInput,
         ReleaseWork, CompleteWork, FailWork, Settle
  <2> QED
    BY <1>2, <2>2, <2>3
<1>6. ASSUME NEW w \in Work, Claimant(w)
      PROVE  items'[v].state = items[v].state
  <2>1. CASE w # v
    <3>1. \E item : items' = [items EXCEPT ![w] = item]
      BY <1>6 DEF Claimant, ClaimWork, RefuseClaim, Commit
    <3> QED
      BY <1>2, <2>1, <3>1
  <2>2. CASE w = v
    <3>1. \A c \in Claimants : ~Grantable(v, c)
      BY <1>3 DEF Grantable
    <3>2. Commit(v, Refreshed(v), attempts[v]) \/ Commit(v, Swept(v), ExpiredTries(v))
      BY <1>6, <2>2, <3>1 DEF Claimant, ClaimWork, RefuseClaim
    <3> QED
      BY <1>2, <1>3, <3>2 DEF Commit
  <2> QED
    BY <2>1, <2>2
<1>7. ASSUME NEW w \in Work, ReconcileItem(w)
      PROVE  items'[v].state = items[v].state
  <2>1. CASE w # v
    BY <1>2, <1>7, <2>1 DEF ReconcileItem, Commit
  <2>2. CASE w = v
    <3>1. Commit(v, Refreshed(v), ExpiredTries(v))
      BY <1>3, <1>7, <2>2 DEF ReconcileItem
    <3> QED
      BY <1>2, <1>3, <3>1 DEF Commit
  <2> QED
    BY <2>1, <2>2
<1>8. ASSUME NEW w \in Work, Operator(w)
      PROVE  items'[v].state = items[v].state \/ RequestReview(v)
  <2>1. CASE w # v
    <3>1. \E item : items' = [items EXCEPT ![w] = item]
      BY <1>8 DEF Operator, AssignWork, OfferWork, AcceptWork, DeclineWork, ReassignWork,
           ReprioritizeWork, AuthorizeExecution, BlockWork, UnblockWork, RequestReview,
           RetryWork, ApproveWork, CancelWork, Decide, Commit
    <3> QED
      BY <1>2, <2>1, <3>1
  <2>2. CASE w = v
    <3>1. \/ RequestReview(v)
          \/ AuthorizeExecution(v)
          \/ \E a \in Agents : AcceptWork(v, a) \/ DeclineWork(v, a)
      BY <1>8, <2>2 DEF Operator, AssignWork, OfferWork, ReassignWork, ReprioritizeWork,
           BlockWork, UnblockWork, RetryWork, ApproveWork, CancelWork, Terminal
    <3>2. \/ RequestReview(v)
          \/ \E item \in {items[v], [items[v] EXCEPT !.status = "Accepted"],
                          [items[v] EXCEPT !.assignee = Nobody, !.status = "Declined"]} :
               items' = [items EXCEPT ![v] = item]
      BY <3>1 DEF AuthorizeExecution, AcceptWork, DeclineWork, Decide
    <3>3. \A item \in {items[v], [items[v] EXCEPT !.status = "Accepted"],
                       [items[v] EXCEPT !.assignee = Nobody, !.status = "Declined"]} :
            item.state = items[v].state
      <4>1. items[v] \in Item
        BY <1>2
      <4> QED
        BY <4>1 DEF Item
    <3>4. \A item : items' = [items EXCEPT ![v] = item] => items'[v] = item
      BY <1>2
    <3> QED
      BY <3>2, <3>3, <3>4
  <2> QED
    BY <2>1, <2>2
<1>9. ASSUME \/ UNCHANGED vars \/ StartSweep \/ AbandonSweep
             \/ \E w \in Work : DeadlinePasses(w)
             \/ \E w \in Work, o \in Observers : ReadRevision(o, w)
      PROVE  items' = items
  BY <1>9 DEF vars, StartSweep, AbandonSweep, DeadlinePasses, ReadRevision
<1> QED
  BY <1>4, <1>5, <1>6, <1>7, <1>8, <1>9 DEF Next

\* Cancellation is terminal: no lease, tick, claim or decision moves a
\* cancelled item.
THEOREM CancellationIsTerminal == Spec => CancellationIsFinal
<1>1. IInv /\ [Next]_vars =>
        [\A w \in Work :
           items[w].state = "Cancelled" => items'[w].state = "Cancelled"]_vars
  <2> SUFFICES ASSUME IInv, [Next]_vars, NEW w \in Work, items[w].state = "Cancelled"
               PROVE  items'[w].state = "Cancelled"
    OBVIOUS
  <2>1. items'[w].state = items[w].state \/ RequestReview(w)
    BY SettledItemsStay
  <2> QED
    BY <2>1 DEF RequestReview, ReviewGate
<1> QED
  BY <1>1, Coherence, PTL DEF Spec, CancellationIsFinal

\* A success stands until a review is requested.
THEOREM SuccessStandsUntilReview == Spec => SuccessWithdrawnOnlyByReview
<1>1. IInv /\ [Next]_vars =>
        [\A w \in Work :
           items[w].state = "Succeeded" /\ items'[w].state # "Succeeded" =>
             RequestReview(w)]_vars
  BY SettledItemsStay
<1> QED
  BY <1>1, Coherence, PTL DEF Spec, SuccessWithdrawnOnlyByReview

\* Only active attempts, and numbers not issued yet, are ever written.
LEMMA ClosedAttemptsAreNotWritten ==
  ASSUME IInv, [Next]_vars, NEW v \in Work, NEW m \in Number,
         attempts[v][m].state \notin Active \cup {"Absent"}
  PROVE  attempts'[v][m].state = attempts[v][m].state
<1>1. TypeOK /\ Coherent(v, items[v], attempts[v])
  BY DEF IInv
<1>2. attempts \in [Work -> [Number -> Attempt]]
  BY <1>1 DEF TypeOK
<1>3. ExpiredTries(v)[m] = attempts[v][m]
  <2>1. m \notin Lapsed(v)
    BY DEF Lapsed, Heartbeat, Active
  <2> QED
    BY <1>1, <2>1, ExpiredTriesType
<1>4. ASSUME NEW w \in Work, NEW n \in Number, LeaseElapses(w, n) \/ Worker(w, n)
      PROVE  attempts'[v][m].state = attempts[v][m].state
  <2>1. HeldBy(w, n)
    BY <1>4 DEF LeaseElapses, Worker, RenewLease, LinkRun, ReportProgress, ParkInput,
         ReleaseWork, CompleteWork, FailWork
  <2>2. ~(w = v /\ n = m)
    <3>1. attempts[w][n].state \in Active
      BY <2>1, HeldFacts
    <3> QED
      BY <3>1
  <2>3. \/ \E l : attempts' = [attempts EXCEPT ![w][n].lease = l]
        \/ \E s : attempts' = [attempts EXCEPT ![w][n].state = s]
        \/ LinkRun(w, n)
        \/ \E i, s : Settle(w, n, i, s)
    BY <1>4 DEF LeaseElapses, Worker, RenewLease, ReportProgress, ParkInput,
         ReleaseWork, CompleteWork, FailWork
  <2>4. CASE \E l : attempts' = [attempts EXCEPT ![w][n].lease = l]
    BY <1>2, <2>2, <2>4
  <2>5. CASE \E s : attempts' = [attempts EXCEPT ![w][n].state = s]
    BY <1>2, <2>2, <2>5
  <2>6. CASE LinkRun(w, n)
    BY <1>2, <2>2, <2>6 DEF LinkRun
  <2>7. CASE \E i, s : Settle(w, n, i, s)
    BY <1>2, <2>2, <2>7 DEF Settle
  <2> QED
    BY <2>3, <2>4, <2>5, <2>6, <2>7
<1>5. ASSUME NEW w \in Work, Claimant(w) \/ ReconcileItem(w)
      PROVE  attempts'[v][m].state = attempts[v][m].state
  <2>1. CASE w # v
    <3>1. \E tries : attempts' = [attempts EXCEPT ![w] = tries]
      BY <1>5 DEF Claimant, ClaimWork, RefuseClaim, ReconcileItem, Commit
    <3> QED
      BY <1>2, <2>1, <3>1
  <2>2. CASE w = v
    <3>1. m # items[v].count + 1
      <4>1. m <= items[v].count /\ items[v].count \in Nat /\ m \in Nat
        BY <1>1 DEF Coherent, TypeOK, Item, Number
      <4> QED
        BY <4>1
    <3>2. ExpiredTries(v) \in [Number -> Attempt]
      BY <1>1, ExpiredTriesType
    <3>3. CASE \E c \in Claimants, ticks \in 1 .. MaxLease : ClaimWork(v, c, ticks)
      <4>1. PICK try : attempts' = [attempts EXCEPT ![v] =
                          [ExpiredTries(v) EXCEPT ![items[v].count + 1] = try]]
        BY <3>3 DEF ClaimWork, Commit
      <4>2. [ExpiredTries(v) EXCEPT ![items[v].count + 1] = try][m] = ExpiredTries(v)[m]
        BY <3>1, <3>2
      <4> QED
        BY <1>2, <1>3, <4>1, <4>2
    <3>4. CASE (\E c \in Claimants : RefuseClaim(v, c)) \/ ReconcileItem(v)
      <4>1. \/ attempts' = [attempts EXCEPT ![v] = attempts[v]]
            \/ attempts' = [attempts EXCEPT ![v] = ExpiredTries(v)]
        BY <3>4 DEF RefuseClaim, ReconcileItem, Commit
      <4> QED
        BY <1>2, <1>3, <4>1
    <3> QED
      BY <1>5, <2>2, <3>3, <3>4 DEF Claimant
  <2> QED
    BY <2>1, <2>2
<1>6. ASSUME NEW w \in Work, CancelWork(w)
      PROVE  attempts'[v][m].state = attempts[v][m].state
  <2>1. CASE w # v
    BY <1>2, <1>6, <2>1 DEF CancelWork, Commit
  <2>2. CASE w = v
    <3>1. attempts'[v][m] = attempts[v][m]
      BY <1>2, <1>6, <2>2 DEF CancelWork, Commit
    <3> QED
      BY <3>1
  <2> QED
    BY <2>1, <2>2
<1>7. ASSUME NEW w \in Work, NEW r \in Reviewers, ApproveWork(w, r)
      PROVE  attempts'[v][m].state = attempts[v][m].state
  <2> DEFINE Gated == {k \in Number : attempts[w][k].state = "AwaitingApproval"}
  <2> DEFINE last == CHOOSE k \in Gated : \A j \in Gated : j <= k
  <2>1. \E try : attempts' = [attempts EXCEPT ![w] = [attempts[w] EXCEPT ![last] = try]]
    <3>1. attempts' = [attempts EXCEPT ![w] =
                         [attempts[w] EXCEPT ![last].state = "Succeeded", ![last].lease = 0]]
      BY <1>7 DEF ApproveWork, Commit
    <3> HIDE DEF last
    <3> QED
      BY <3>1
  <2>2. last \in Gated
    <3>1. Coherent(w, items[w], attempts[w]) /\ items[w].state = "AwaitingApproval"
      BY <1>7 DEF IInv, ApproveWork
    <3> DEFINE c == items[w].count
    <3>2. c \in Gated /\ \A k \in Gated : k <= c
      BY <3>1 DEF Coherent
    <3> HIDE DEF Gated, c
    <3> QED
      BY <3>2
  <2>3. ~(w = v /\ last = m)
    <3> HIDE DEF last
    <3> QED
      BY <2>2 DEF Active
  <2> HIDE DEF last
  <2> QED
    BY <1>2, <2>1, <2>3
<1>8. ASSUME NEW w \in Work, Operator(w)
      PROVE  attempts'[v][m].state = attempts[v][m].state
  <2>1. \/ attempts' = attempts
        \/ CancelWork(w)
        \/ \E r \in Reviewers : ApproveWork(w, r)
    BY <1>8 DEF Operator, AssignWork, OfferWork, AcceptWork, DeclineWork, ReassignWork,
         ReprioritizeWork, AuthorizeExecution, BlockWork, UnblockWork, RequestReview,
         RetryWork, Decide
  <2> QED
    BY <1>6, <1>7, <2>1
<1>9. ASSUME \/ UNCHANGED vars \/ StartSweep \/ AbandonSweep
             \/ \E w \in Work : CreateWork(w) \/ DeadlinePasses(w)
             \/ \E w \in Work, o \in Observers : ReadRevision(o, w)
      PROVE  attempts' = attempts
  BY <1>9 DEF vars, StartSweep, AbandonSweep, CreateWork, DeadlinePasses, ReadRevision
<1> QED
  BY <1>4, <1>5, <1>8, <1>9 DEF Next

\* A closed attempt keeps its outcome: no late worker, tick or decision
\* rewrites it.
THEOREM ClosedAttemptsKeepTheirOutcome == Spec => ClosedAttemptsStay
<1>1. IInv /\ [Next]_vars =>
        [\A w \in Work, n \in Number :
           attempts[w][n].state \notin Active \cup {"Absent"} =>
             attempts'[w][n].state = attempts[w][n].state]_vars
  BY ClosedAttemptsAreNotWritten
<1> QED
  BY <1>1, Coherence, PTL DEF Spec, ClosedAttemptsStay

\* Outcomes stand: of cancelled and successful items and of closed attempts.
THEOREM OutcomesAreFinal == Spec => OutcomesStand
BY CancellationIsTerminal, SuccessStandsUntilReview, ClosedAttemptsKeepTheirOutcome, PTL
   DEF OutcomesStand

\* An admission without a dependency wait means every dependency is met.
LEMMA NoWaitMeansMet ==
  ASSUME NEW w \in Work, DependencyWait(w) = "None"
  PROVE  \A i \in DOMAIN Deps[w] : Met(Deps[w][i])
BY DEF DependencyWait

\* No attempt is opened on an item before its dependencies are met.
THEOREM ClaimsWaitForDependencies == Spec => NoClaimBeforeDependencies
<1>1. IInv /\ [Next]_vars =>
        [\A w \in Work :
           items'[w].count # items[w].count =>
             \A i \in DOMAIN Deps[w] : Met(Deps[w][i])]_vars
  <2> SUFFICES ASSUME IInv, [Next]_vars, NEW v \in Work,
                      items'[v].count # items[v].count
               PROVE  \A i \in DOMAIN Deps[v] : Met(Deps[v][i])
    OBVIOUS
  <2>1. TypeOK
    BY DEF IInv
  <2>2. items \in [Work -> Item] /\ items[v] \in Item
    BY <2>1 DEF TypeOK
  <2>3. Refreshed(v).count = items[v].count /\ Refreshed(v) \in Item
    BY <2>1, RefreshedType
  <2>4. Swept(v).count = items[v].count
    BY SweepIsCoherent
  <2>5. ASSUME NEW w \in Work, ReconcileItem(w)
        PROVE  FALSE
    <3>1. \E item : items' = [items EXCEPT ![w] = item]
                    /\ (w = v => item.count = items[v].count)
      BY <2>5, <2>3, <2>4 DEF ReconcileItem, Commit
    <3> QED
      BY <2>2, <3>1
  <2>6. ASSUME NEW w \in Work, NEW c \in Claimants, RefuseClaim(w, c)
        PROVE  FALSE
    <3>1. \E item : items' = [items EXCEPT ![w] = item]
                    /\ (w = v => item.count = items[v].count)
      BY <2>6, <2>3, <2>4 DEF RefuseClaim, Commit
    <3> QED
      BY <2>2, <3>1
  <2>7. ASSUME NEW w \in Work, NEW n \in Number, LeaseElapses(w, n) \/ Worker(w, n)
        PROVE  FALSE
    <3>1. \/ items' = items
          \/ \E i, s : Settle(w, n, i, s)
          \/ ParkInput(w, n)
      BY <2>7 DEF LeaseElapses, Worker, RenewLease, LinkRun, ReportProgress,
           ReleaseWork, CompleteWork, FailWork
    <3>2. CASE \E i, s : Settle(w, n, i, s)
      BY <2>2, <3>2 DEF Settle, Item
    <3>3. CASE ParkInput(w, n)
      BY <2>2, <3>3 DEF ParkInput, Item
    <3> QED
      BY <3>1, <3>2, <3>3
  <2>8. ASSUME NEW w \in Work, Operator(w)
        PROVE  FALSE
    <3>1. items[w] \in Item
      BY <2>2
    <3>2. ASSUME NEW item, item.count = items[w].count,
                 items' = [items EXCEPT ![w] = item]
          PROVE  FALSE
      BY <2>2, <3>2
    <3>3. \A a : ~(AssignWork(w, a) \/ OfferWork(w, a) \/ ReassignWork(w, a))
      BY <3>1, <3>2 DEF AssignWork, OfferWork, ReassignWork, Decide, Item
    <3>4. \A a : ~(AcceptWork(w, a) \/ DeclineWork(w, a))
      BY <3>1, <3>2 DEF AcceptWork, DeclineWork, Decide, Item
    <3>5. ~(ReprioritizeWork(w) \/ AuthorizeExecution(w) \/ BlockWork(w) \/ UnblockWork(w))
      BY <3>1, <3>2 DEF ReprioritizeWork, AuthorizeExecution, BlockWork, UnblockWork,
           Decide, Item
    <3>6. ~(RequestReview(w) \/ RetryWork(w) \/ CancelWork(w))
      BY <3>1, <3>2 DEF RequestReview, RetryWork, CancelWork, Decide, Commit, Item
    <3>7. \A r : ~ApproveWork(w, r)
      BY <3>1, <3>2 DEF ApproveWork, Commit, Item
    <3> QED
      BY <2>8, <3>3, <3>4, <3>5, <3>6, <3>7 DEF Operator
  <2>9. ASSUME NEW w \in Work, CreateWork(w)
        PROVE  FALSE
    <3>1. w = v => items[v] = NoItem
      BY <2>9 DEF CreateWork, Exists, IInv, Coherent
    <3>2. w = v => NewItem.count = items[v].count
      BY <3>1 DEF NewItem, NoItem
    <3> QED
      BY <2>2, <2>9, <3>2 DEF CreateWork
  <2>10. ASSUME \/ UNCHANGED vars \/ StartSweep \/ AbandonSweep
                \/ \E w \in Work : DeadlinePasses(w)
                \/ \E w \in Work, o \in Observers : ReadRevision(o, w)
         PROVE  FALSE
    BY <2>10 DEF vars, StartSweep, AbandonSweep, DeadlinePasses, ReadRevision
  <2>11. PICK w \in Work, c \in Claimants, ticks \in 1 .. MaxLease : ClaimWork(w, c, ticks)
    BY <2>5, <2>6, <2>7, <2>8, <2>9, <2>10 DEF Next, Claimant
  <2>12. w = v
    BY <2>2, <2>11 DEF ClaimWork, Commit
  <2> QED
    BY <2>11, <2>12, NoWaitMeansMet DEF ClaimWork, Grantable, Admissible
<1> QED
  BY <1>1, Coherence, PTL DEF Spec, NoClaimBeforeDependencies

-----------------------------------------------------------------------------
(***************************************************************************)
(* The revision fence.                                                     *)
(***************************************************************************)

\* RevisionFence is inductive once it also says that what was observed was on
\* record: otherwise creation, which bumps nothing, could break it.
Fence ==
  \A o \in Observers, w \in Work :
    observed[o][w] # Nobody => observed[o][w] = items[w] /\ items[w].state # "Absent"

\* A step that bumps the one item it rewrites keeps the fence.
LEMMA BumpKeepsFence ==
  ASSUME TypeOK, Fence, NEW w \in Work, Bump(w),
         \A v \in Work : v # w => items'[v] = items[v]
  PROVE  Fence'
<1> SUFFICES ASSUME NEW o \in Observers, NEW v \in Work, observed'[o][v] # Nobody
             PROVE  observed'[o][v] = items'[v] /\ items'[v].state # "Absent"
  BY DEF Fence
<1>1. observed[o] \in [Work -> Item \cup {Nobody}]
  BY DEF TypeOK
<1>2. observed'[o] = [observed[o] EXCEPT ![w] = Nobody]
  BY DEF Bump
<1>3. v # w /\ observed'[o][v] = observed[o][v]
  BY <1>1, <1>2
<1> QED
  BY <1>3 DEF Fence

\* So does one that rewrites nothing.
LEMMA UnchangedKeepsFence ==
  ASSUME Fence, items' = items, observed' = observed
  PROVE  Fence'
BY DEF Fence

\* Every step keeps the fence: the writes without a bump change no item.
LEMMA NextFence ==
  ASSUME IInv, Fence, [Next]_vars
  PROVE  Fence'
<1>1. TypeOK
  BY DEF IInv
<1>2. items \in [Work -> Item]
  BY <1>1 DEF TypeOK
<1>3. ASSUME NEW w \in Work, Operator(w)
      PROVE  Fence'
  <2>1. Bump(w) /\ \E item : items' = [items EXCEPT ![w] = item]
    BY <1>3 DEF Operator, AssignWork, OfferWork, AcceptWork, DeclineWork, ReassignWork,
         ReprioritizeWork, AuthorizeExecution, BlockWork, UnblockWork, RequestReview,
         RetryWork, ApproveWork, CancelWork, Decide, Commit
  <2>2. \A v \in Work : v # w => items'[v] = items[v]
    BY <1>2, <2>1
  <2> QED
    BY <1>1, <2>1, <2>2, BumpKeepsFence
<1>4. ASSUME NEW w \in Work, NEW n \in Number, LeaseElapses(w, n) \/ Worker(w, n)
      PROVE  Fence'
  <2>1. \/ items' = items /\ observed' = observed
        \/ \E i, s : Settle(w, n, i, s)
        \/ ParkInput(w, n)
    BY <1>4 DEF LeaseElapses, Worker, RenewLease, LinkRun, ReportProgress,
         ReleaseWork, CompleteWork, FailWork
  <2>2. CASE (\E i, s : Settle(w, n, i, s)) \/ ParkInput(w, n)
    <3>1. Bump(w) /\ \A v \in Work : v # w => items'[v] = items[v]
      BY <1>2, <2>2 DEF Settle, ParkInput
    <3> QED
      BY <1>1, <3>1, BumpKeepsFence
  <2> QED
    BY <2>1, <2>2, UnchangedKeepsFence
<1>5. ASSUME NEW w \in Work
      PROVE  /\ Lapsed(w) = {} => Swept(w) = Refreshed(w)
             /\ items = [items EXCEPT ![w] = items[w]]
  BY <1>2 DEF Swept, ExpiredItem
<1>6. ASSUME NEW w \in Work, Claimant(w) \/ ReconcileItem(w)
      PROVE  Fence'
  <2>1. \E item : items' = [items EXCEPT ![w] = item]
    BY <1>6 DEF Claimant, ClaimWork, RefuseClaim, ReconcileItem, Commit
  <2>2. CASE Bump(w)
    <3>1. \A v \in Work : v # w => items'[v] = items[v]
      BY <1>2, <2>1
    <3> QED
      BY <1>1, <2>2, <3>1, BumpKeepsFence
  <2>3. CASE ~Bump(w)
    <3>1. CASE ReconcileItem(w)
      <4>1. items' = items /\ observed' = observed
        BY <1>5, <2>3, <3>1 DEF ReconcileItem, Commit
      <4> QED
        BY <4>1, UnchangedKeepsFence
    <3>2. CASE \E c \in Claimants : RefuseClaim(w, c)
      <4>1. items' = items /\ observed' = observed
        BY <1>5, <2>3, <3>2 DEF RefuseClaim, Commit
      <4> QED
        BY <4>1, UnchangedKeepsFence
    <3> QED
      BY <1>6, <2>3, <3>1, <3>2 DEF Claimant, ClaimWork
  <2> QED
    BY <2>2, <2>3
<1>7. ASSUME NEW w \in Work, CreateWork(w)
      PROVE  Fence'
  <2> SUFFICES ASSUME NEW o \in Observers, NEW v \in Work, observed'[o][v] # Nobody
               PROVE  observed'[o][v] = items'[v] /\ items'[v].state # "Absent"
    BY DEF Fence
  <2>1. observed'[o][v] = items[v] /\ items[v].state # "Absent"
    BY <1>7 DEF CreateWork, Fence
  <2> QED
    BY <1>2, <1>7, <2>1 DEF CreateWork, Exists
<1>8. ASSUME NEW w \in Work, NEW p \in Observers, ReadRevision(p, w)
      PROVE  Fence'
  <2> SUFFICES ASSUME NEW o \in Observers, NEW v \in Work, observed'[o][v] # Nobody
               PROVE  observed'[o][v] = items'[v] /\ items'[v].state # "Absent"
    BY DEF Fence
  <2>1. observed \in [Observers -> [Work -> Item \cup {Nobody}]]
    BY <1>1 DEF TypeOK
  <2>2. CASE o = p /\ v = w
    BY <1>8, <2>1, <2>2 DEF ReadRevision, Exists
  <2>3. CASE ~(o = p /\ v = w)
    <3>1. observed'[o][v] = observed[o][v]
      BY <1>8, <2>1, <2>3 DEF ReadRevision
    <3> QED
      BY <1>8, <3>1 DEF ReadRevision, Fence
  <2> QED
    BY <2>2, <2>3
<1>9. ASSUME \/ UNCHANGED vars \/ StartSweep \/ AbandonSweep
             \/ \E w \in Work : DeadlinePasses(w)
      PROVE  items' = items /\ observed' = observed
  BY <1>9 DEF vars, StartSweep, AbandonSweep, DeadlinePasses
<1> QED
  BY <1>3, <1>4, <1>6, <1>7, <1>8, <1>9, UnchangedKeepsFence DEF Next

\* While the revision a client read still matches, the item is the one the
\* client saw: no write, refresh or expiry escapes the compare-and-set.
THEOREM RevisionsFence == Spec => []RevisionFence
<1>1. Init => Fence
  BY DEF Init, Fence
<1>2. IInv /\ Fence /\ [Next]_vars => Fence'
  BY NextFence
<1>3. Fence => RevisionFence
  BY DEF Fence, RevisionFence
<1> QED
  BY <1>1, <1>2, <1>3, Coherence, PTL DEF Spec

-----------------------------------------------------------------------------
(***************************************************************************)
(* Operator holds.                                                         *)
(***************************************************************************)

\* A sweep leaves a held, idle item alone until its deadline passes.
LEMMA HeldItemsAreNotSwept ==
  ASSUME TypeOK, NEW v \in Work, Held(v), Idle(v), v \notin overdue
  PROVE  Refreshed(v) = items[v] /\ Swept(v) = items[v]
<1>1. ManuallyHeld(v, items[v])
  BY DEF Held, ManuallyHeld, LegacyDerivedWait
<1>2. Reblocked(v, items[v]) = items[v]
  BY <1>1 DEF Reblocked, Waiting
<1>3. Refreshed(v) = items[v]
  BY <1>2 DEF Refreshed
<1>4. Lapsed(v) = {}
  BY DEF Lapsed, Idle
<1> QED
  BY <1>3, <1>4 DEF Swept, ExpiredItem

\* A hold on work nobody holds a lease on stands until an operator unblocks or
\* cancels the item, or its deadline passes: no claim and no tick lifts it.
THEOREM HoldsOnIdleWorkStand == Spec => HoldOnIdleWorkStands
<1>1. IInv /\ [Next]_vars =>
        [\A w \in Work :
           Held(w) /\ Idle(w) /\ ~Held(w)' =>
             UnblockWork(w) \/ CancelWork(w) \/ w \in overdue]_vars
  <2> SUFFICES ASSUME IInv, [Next]_vars, NEW v \in Work,
                      Held(v), Idle(v), ~Held(v)', v \notin overdue
               PROVE  UnblockWork(v) \/ CancelWork(v)
    OBVIOUS
  <2>1. TypeOK
    BY DEF IInv
  <2>2. items \in [Work -> Item] /\ items[v] \in Item
    BY <2>1 DEF TypeOK
  <2>3. Refreshed(v) = items[v] /\ Swept(v) = items[v]
    BY <2>1, HeldItemsAreNotSwept
  <2>4. items[v].state = "Blocked"
    BY DEF Held
  <2>5. items'[v] # items[v]
    BY DEF Held
  <2>6. ASSUME NEW w \in Work, CreateWork(w)
        PROVE  FALSE
    BY <2>2, <2>4, <2>5, <2>6 DEF CreateWork, Exists
  <2>7. ASSUME NEW w \in Work, NEW n \in Number, LeaseElapses(w, n) \/ Worker(w, n)
        PROVE  FALSE
    <3>1. HeldBy(w, n)
      BY <2>7 DEF LeaseElapses, Worker, RenewLease, LinkRun, ReportProgress, ParkInput,
           ReleaseWork, CompleteWork, FailWork
    <3>2. w # v
      BY <3>1 DEF HeldBy, Idle
    <3>3. \/ items' = items
          \/ \E item : items' = [items EXCEPT ![w] = item]
      BY <2>7 DEF LeaseElapses, Worker, RenewLease, LinkRun, ReportProgress, ParkInput,
           ReleaseWork, CompleteWork, FailWork, Settle
    <3> QED
      BY <2>2, <2>5, <3>2, <3>3
  <2>8. ASSUME NEW w \in Work, Claimant(w) \/ ReconcileItem(w)
        PROVE  FALSE
    <3>1. \E item : items' = [items EXCEPT ![w] = item]
      BY <2>8 DEF Claimant, ClaimWork, RefuseClaim, ReconcileItem, Commit
    <3>2. w = v
      BY <2>2, <2>5, <3>1
    <3>3. \A c \in Claimants : ~Grantable(v, c)
      BY <2>3, <2>4 DEF Grantable
    <3>4. items' = [items EXCEPT ![v] = items[v]]
      BY <2>3, <2>8, <3>2, <3>3 DEF Claimant, ClaimWork, RefuseClaim, ReconcileItem, Commit
    <3> QED
      BY <2>2, <2>5, <3>4
  <2>9. ASSUME NEW w \in Work, Operator(w)
        PROVE  UnblockWork(v) \/ CancelWork(v)
    <3>1. \E item : items' = [items EXCEPT ![w] = item]
      BY <2>9 DEF Operator, AssignWork, OfferWork, AcceptWork, DeclineWork, ReassignWork,
           ReprioritizeWork, AuthorizeExecution, BlockWork, UnblockWork, RequestReview,
           RetryWork, ApproveWork, CancelWork, Decide, Commit
    <3>2. w = v
      BY <2>2, <2>5, <3>1
    <3>3. ASSUME NEW item, items' = [items EXCEPT ![v] = item], item.state = "Blocked",
                 \/ item.block = "Manual"
                 \/ item.block = items[v].block /\ item.reason = items[v].reason
          PROVE  FALSE
      <4>1. items'[v] = item
        BY <2>2, <3>3
      <4> QED
        BY <3>3, <4>1 DEF Held
    <3>4. \A a : ~(AssignWork(v, a) \/ OfferWork(v, a) \/ ReassignWork(v, a))
      BY <2>2, <2>4, <3>3 DEF AssignWork, OfferWork, ReassignWork, Decide, Item
    <3>5. \A a : ~(AcceptWork(v, a) \/ DeclineWork(v, a))
      BY <2>2, <2>4, <3>3 DEF AcceptWork, DeclineWork, Decide, Item
    <3>6. ~(ReprioritizeWork(v) \/ AuthorizeExecution(v) \/ BlockWork(v))
      BY <2>2, <2>4, <3>3 DEF ReprioritizeWork, AuthorizeExecution, BlockWork, Decide, Item
    <3>7. ~(RequestReview(v) \/ RetryWork(v)) /\ \A r : ~ApproveWork(v, r)
      BY <2>4 DEF RequestReview, RetryWork, ApproveWork, ReviewGate
    <3> QED
      BY <2>9, <3>2, <3>4, <3>5, <3>6, <3>7 DEF Operator
  <2>10. ASSUME \/ UNCHANGED vars \/ StartSweep \/ AbandonSweep
                \/ \E w \in Work : DeadlinePasses(w)
                \/ \E w \in Work, o \in Observers : ReadRevision(o, w)
         PROVE  FALSE
    BY <2>5, <2>10 DEF vars, StartSweep, AbandonSweep, DeadlinePasses, ReadRevision
  <2> QED
    BY <2>6, <2>7, <2>8, <2>9, <2>10 DEF Next
<1> QED
  BY <1>1, Coherence, PTL DEF Spec, HoldOnIdleWorkStands

=============================================================================
