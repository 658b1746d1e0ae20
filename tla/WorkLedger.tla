----------------------------- MODULE WorkLedger -----------------------------
(***************************************************************************)
(* The durable work ledger of the GrokPtah orchestrator: WorkItems, the    *)
(* leased WorkAttempts made at them, and the operations of OrchStore that  *)
(* move both (orchestration/store.rs, workload.rs, graph.rs).              *)
(*                                                                         *)
(* Every operation of OrchStore runs under the store's lock, so it is one  *)
(* action.  The reconciliation pass is the exception: it keeps the lock    *)
(* while it commits one item after the other, and an I/O error or the end  *)
(* of the process may stop it after any of them.  `sweep' holds the items  *)
(* the pass still has to visit; a non-empty sweep is the held lock.        *)
(*                                                                         *)
(* Time.  The code compares instants with `now'.  The model keeps, for     *)
(* each attempt, the number of ticks its lease still runs (0 = not         *)
(* lease_active_at(now), which is also the value of a closed attempt), and *)
(* the set of items whose deadline is past.  Timers elapse independently:  *)
(* lease durations and deadlines are chosen freely by their callers.       *)
(***************************************************************************)
EXTENDS Naturals, FiniteSets, Sequences

CONSTANTS
  Work,              \* work ids of one lane (session and workspace)
  Agents,            \* durable agents work can be assigned to
  Reviewers,         \* operators that may approve
  Observers,         \* clients that fence a decision with a revision they read
  Nobody,            \* Option::None for an agent, a reviewer or an observation
  MaxAttempts,       \* policy.retry.max_attempts
  MaxLease,          \* longest lease, in ticks (the code: 3600000 ms)
  RetryFailed,       \* items with policy.retry.retry_failed
  RetryExpired,      \* items with policy.retry.retry_expired
  RequiresApproval,  \* items with policy.requires_approval
  Deadlines,         \* items created with a deadline
  Containers,        \* items with is_container
  Deps,              \* declared dependencies, in order, of each item
  Legacy             \* items a build without block provenance left Blocked

WorkState == {"Queued", "Blocked", "Leased", "Running", "AwaitingInput",
              "AwaitingApproval", "Review", "Succeeded", "Failed", "Cancelled"}

Terminal   == {"Succeeded", "Failed", "Cancelled"}
ReviewGate == {"AwaitingApproval", "Review"}

AttemptState == {"Leased", "Running", "AwaitingInput", "AwaitingApproval",
                 "Review", "Released", "Expired", "Succeeded", "Failed",
                 "Cancelled"}

\* AttemptState::is_active and AttemptState::requires_lease_heartbeat.
Active    == {"Leased", "Running", "AwaitingInput", "AwaitingApproval", "Review"}
Heartbeat == {"Leased", "Running", "AwaitingInput"}

AssignmentStatus == {"Unassigned", "Offered", "Accepted", "Declined"}
BlockProvenance  == {"None", "Derived", "Manual"}

\* blocked_reason: absent, free text, or the admission a derived wait records.
Waits         == {"dependencies_pending", "dependency_unsatisfiable",
                  "dependency_unresolved"}
BlockedReason == {"None", "text"} \cup Waits

Number == 1 .. MaxAttempts

ASSUME WorkLedgerAssumption ==
  /\ MaxAttempts \in Nat \ {0}
  /\ MaxLease \in Nat \ {0}
  /\ RetryFailed \subseteq Work
  /\ RetryExpired \subseteq Work
  /\ RequiresApproval \subseteq Work
  /\ Deadlines \subseteq Work
  /\ Containers \subseteq Work
  /\ Legacy \subseteq Work
  /\ Deps \in [Work -> Seq([work : Work, required : WorkState])]
  /\ Nobody \notin Agents
  /\ Nobody \notin Reviewers

VARIABLES
  items,      \* work-items/*.json
  attempts,   \* work-attempts/*.json, by item and attempt_number
  overdue,    \* items whose deadline is <= now
  sweep,      \* items the running reconciliation pass has not visited
  observed    \* the item each observer holds a still-current revision of

vars == <<items, attempts, overdue, sweep, observed>>

Item == [state    : WorkState \cup {"Absent"},
         block    : BlockProvenance,
         reason   : BlockedReason,
         status   : AssignmentStatus,
         assignee : Agents \cup {Nobody},
         count    : 0 .. MaxAttempts,
         approval : Reviewers \cup {Nobody}]

Attempt == [state  : AttemptState \cup {"Absent"},
            lease  : 0 .. MaxLease,
            linked : BOOLEAN]

\* The one type invariant: every record has the shape its struct declares.
TypeOK ==
  /\ items \in [Work -> Item]
  /\ attempts \in [Work -> [Number -> Attempt]]
  /\ overdue \subseteq Deadlines
  /\ sweep \subseteq Work
  /\ observed \in [Observers -> [Work -> Item \cup {Nobody}]]

-----------------------------------------------------------------------------

NoItem == [state |-> "Absent", block |-> "None", reason |-> "None",
           status |-> "Unassigned", assignee |-> Nobody, count |-> 0,
           approval |-> Nobody]

NoAttempt == [state |-> "Absent", lease |-> 0, linked |-> FALSE]

\* WorkItem::new.
NewItem == [NoItem EXCEPT !.state = "Queued"]

\* What a build without typed provenance left behind: a dependency wait with
\* neither provenance nor reason, or an operator hold with a reason.
LegacyItem(reason) == [NoItem EXCEPT !.state = "Blocked", !.reason = reason]

Init ==
  /\ items \in {f \in [Work -> {NoItem, LegacyItem("None"), LegacyItem("text")}] :
                  \A w \in Work : f[w] # NoItem => w \in Legacy}
  /\ attempts = [w \in Work |-> [n \in Number |-> NoAttempt]]
  /\ overdue = {}
  /\ sweep = {}
  /\ observed = [o \in Observers |-> [w \in Work |-> Nobody]]

Exists(w) == items[w].state # "Absent"
Unlocked  == sweep = {}

\* A lease a worker can still act under: lease_active_at(now).
Live(w, n)   == attempts[w][n].lease > 0
HeldBy(w, n) == Unlocked /\ Exists(w) /\ Live(w, n)

\* WorkItem::bump: a revision read before it no longer matches.
Bump(w) ==
  observed' = [o \in Observers |-> [observed[o] EXCEPT ![w] = Nobody]]

\* One lifecycle commit: the item, then its attempts.
Commit(w, item, tries) ==
  /\ items' = [items EXCEPT ![w] = item]
  /\ attempts' = [attempts EXCEPT ![w] = tries]

-----------------------------------------------------------------------------
(***************************************************************************)
(* Admission (graph.rs) and refresh (store.rs).                            *)
(***************************************************************************)

LegacyDerivedWait(w, item) ==
  /\ item.state = "Blocked"
  /\ item.block = "None"
  /\ item.reason = "None"
  /\ Deps[w] # << >>
  /\ w \notin Containers

\* Mutant: an operator hold is taken for a dependency wait.
ManuallyHeldIgnoringProvenance(w, item) ==
  item.state = "Blocked" /\ item.block = "None" /\ item.reason = "text"

ManuallyHeld(w, item) ==
  /\ item.state = "Blocked"
  /\ item.block # "Derived"
  /\ ~LegacyDerivedWait(w, item)

Met(d) == items[d.work].state = d.required

\* Mutant: a completion that waits at a review gate is taken for a success.
DependencyWaitUntilGate(w) ==
  IF \A i \in DOMAIN Deps[w] :
       Met(Deps[w][i]) \/ items[Deps[w][i].work].state \in ReviewGate
  THEN "None"
  ELSE "dependencies_pending"

\* The dependency evaluation of evaluate_admission: the first dependency, in
\* declared order, that is unresolved or settled otherwise decides; failing
\* that, one that is not yet met.
DependencyWait(w) ==
  LET at(i)     == Deps[w][i]
      Stuck     == {i \in DOMAIN Deps[w] :
                      /\ ~Met(at(i))
                      /\ items[at(i).work].state \in Terminal \cup {"Absent"}}
      first     == CHOOSE i \in Stuck : \A j \in Stuck : i <= j
  IN CASE Stuck # {} /\ items[at(first).work].state = "Absent" ->
            "dependency_unresolved"
       [] Stuck # {} /\ items[at(first).work].state # "Absent" ->
            "dependency_unsatisfiable"
       [] Stuck = {} /\ \E i \in DOMAIN Deps[w] : ~Met(at(i)) ->
            "dependencies_pending"
       [] OTHER -> "None"

\* Whether evaluate_admission answers one of the three dependency waits.
Waiting(w, item) ==
  /\ item.state \in {"Queued", "Blocked"}
  /\ ~ManuallyHeld(w, item)
  /\ w \notin Containers
  /\ w \notin overdue
  /\ DependencyWait(w) # "None"

\* Whether evaluate_admission answers Admissible.
Admissible(w, item) ==
  /\ item.state \in {"Queued", "Blocked"}
  /\ ~ManuallyHeld(w, item)
  /\ w \notin Containers
  /\ w \notin overdue
  /\ DependencyWait(w) = "None"
  /\ item.count < MaxAttempts

\* Mutant: a dependency wait, once entered, is only ever refreshed.
ReblockedForGood(w, item) ==
  IF Waiting(w, item)
  THEN [item EXCEPT !.state = "Blocked", !.block = "Derived",
                    !.reason = DependencyWait(w)]
  ELSE item

\* The first half of refresh_work_item_at: enter, keep or leave a derived wait.
Reblocked(w, item) ==
  CASE item.state \in {"Queued", "Blocked"} /\ Waiting(w, item) ->
         [item EXCEPT !.state = "Blocked", !.block = "Derived",
                      !.reason = DependencyWait(w)]
    [] item.state = "Blocked" /\ ~Waiting(w, item) /\ ~ManuallyHeld(w, item) ->
         [item EXCEPT !.state = "Queued", !.block = "None", !.reason = "None"]
    [] OTHER -> item

\* Mutant: an operator hold suspends the deadline.
RefreshedUnlessHeld(w) ==
  LET item == Reblocked(w, items[w])
  IN IF /\ w \in overdue
        /\ w \notin Containers
        /\ ~ManuallyHeld(w, item)
        /\ item.state \notin Terminal \cup ReviewGate \cup {"Absent"}
     THEN [item EXCEPT !.state = "Failed", !.block = "None"]
     ELSE item

\* refresh_work_item_at: the derived wait, then the deadline.
Refreshed(w) ==
  LET item == Reblocked(w, items[w])
  IN IF /\ w \in overdue
        /\ w \notin Containers
        /\ item.state \notin Terminal \cup ReviewGate \cup {"Absent"}
     THEN [item EXCEPT !.state = "Failed", !.block = "None"]
     ELSE item

\* Attempts whose lease ran out while a worker was meant to be executing.
Lapsed(w) == {n \in Number : attempts[w][n].state \in Heartbeat /\ ~Live(w, n)}

ExpiredTries(w) ==
  [n \in Number |-> IF n \in Lapsed(w)
                    THEN [attempts[w][n] EXCEPT !.state = "Expired"]
                    ELSE attempts[w][n]]

\* expire_attempt, for each lapsed attempt in turn: the last one decides.
ExpiredItem(w, item) ==
  LET last == CHOOSE n \in Lapsed(w) : \A m \in Lapsed(w) : m <= n
  IN IF Lapsed(w) = {} THEN item
     ELSE [item EXCEPT !.state = IF w \in RetryExpired /\ last < MaxAttempts
                                 THEN "Queued" ELSE "Failed"]

-----------------------------------------------------------------------------
(***************************************************************************)
(* The environment: creation, time, revision reads.                        *)
(***************************************************************************)

\* create_work and save_work_item: every declared dependency must resolve.
CreateWork(w) ==
  /\ Unlocked
  /\ ~Exists(w)
  /\ \A i \in DOMAIN Deps[w] : Exists(Deps[w][i].work)
  /\ items' = [items EXCEPT ![w] = NewItem]
  /\ UNCHANGED <<attempts, overdue, sweep, observed>>

DeadlinePasses(w) ==
  /\ Unlocked
  /\ w \in Deadlines \ overdue
  /\ overdue' = overdue \cup {w}
  /\ UNCHANGED <<items, attempts, sweep, observed>>

LeaseElapses(w, n) ==
  /\ HeldBy(w, n)
  /\ attempts' = [attempts EXCEPT ![w][n].lease = @ - 1]
  /\ UNCHANGED <<items, overdue, sweep, observed>>

ReadRevision(o, w) ==
  /\ Unlocked
  /\ Exists(w)
  /\ observed[o][w] = Nobody
  /\ observed' = [observed EXCEPT ![o][w] = items[w]]
  /\ UNCHANGED <<items, attempts, overdue, sweep>>

-----------------------------------------------------------------------------
(***************************************************************************)
(* Claiming.                                                               *)
(***************************************************************************)

\* AssignmentStatus::is_claimable_by.  A claimant may be a bare token.
ClaimableBy(item, c) ==
  \/ item.status \in {"Unassigned", "Declined"}
  \/ item.status = "Accepted" /\ item.assignee \in {Nobody, c}

\* The item after the refresh and the lease expiry a claim commits on its way.
Swept(w) == ExpiredItem(w, Refreshed(w))

\* Mutant: a claim does not look for a live attempt.
GrantableOverALease(w, c) ==
  /\ Swept(w).state = "Queued"
  /\ Admissible(w, Swept(w))
  /\ ClaimableBy(Swept(w), c)

Grantable(w, c) ==
  /\ \A n \in Number : ~Live(w, n)
  /\ Swept(w).state = "Queued"
  /\ Admissible(w, Swept(w))
  /\ ClaimableBy(Swept(w), c)

ClaimWork(w, c, ticks) ==
  /\ Unlocked
  /\ Exists(w)
  /\ w \notin Containers
  /\ Grantable(w, c)
  /\ LET n == items[w].count + 1
     IN Commit(w, [Swept(w) EXCEPT !.state = "Leased", !.count = n],
               [ExpiredTries(w) EXCEPT
                  ![n] = [state |-> "Leased", lease |-> ticks, linked |-> FALSE]])
  /\ Bump(w)
  /\ UNCHANGED <<overdue, sweep>>

\* A refused claim still leaves its refresh and its expirations committed.
RefuseClaim(w, c) ==
  /\ Unlocked
  /\ Exists(w)
  /\ w \notin Containers
  /\ ~Grantable(w, c)
  /\ IF \E n \in Number : Live(w, n)
     THEN Commit(w, Refreshed(w), attempts[w])
     ELSE Commit(w, Swept(w), ExpiredTries(w))
  /\ IF \/ Refreshed(w) # items[w]
        \/ Lapsed(w) # {} /\ \A n \in Number : ~Live(w, n)
     THEN Bump(w)
     ELSE UNCHANGED observed
  /\ UNCHANGED <<overdue, sweep>>

-----------------------------------------------------------------------------
(***************************************************************************)
(* What the holder of a lease token may do.  The token, not the state of   *)
(* the item, is what these operations check.                               *)
(***************************************************************************)

RenewLease(w, n, ticks) ==
  /\ HeldBy(w, n)
  /\ attempts' = [attempts EXCEPT ![w][n].lease = ticks]
  /\ UNCHANGED <<items, overdue, sweep, observed>>

\* Mutant: linking a run restarts an attempt that waits at a gate.
LinkRunRestarts(w, n) ==
  /\ HeldBy(w, n)
  /\ attempts' = [attempts EXCEPT ![w][n].linked = TRUE, ![w][n].state = "Running"]
  /\ UNCHANGED <<items, overdue, sweep, observed>>

LinkRun(w, n) ==
  /\ HeldBy(w, n)
  /\ attempts' = [attempts EXCEPT
       ![w][n].linked = TRUE,
       ![w][n].state = IF @ = "Leased" THEN "Running" ELSE @]
  /\ UNCHANGED <<items, overdue, sweep, observed>>

\* Item and attempt take a new state together; a closed attempt has no lease.
Settle(w, n, itemState, attemptState) ==
  /\ items' = [items EXCEPT ![w].state = itemState]
  /\ attempts' = [attempts EXCEPT
       ![w][n].state = attemptState,
       ![w][n].lease = IF attemptState \in Active THEN @ ELSE 0]
  /\ Bump(w)
  /\ UNCHANGED <<overdue, sweep>>

ReportProgress(w, n) ==
  /\ HeldBy(w, n)
  /\ Settle(w, n, "Running", "Running")

ParkInput(w, n) ==
  /\ HeldBy(w, n)
  /\ items' = [items EXCEPT ![w].state = "AwaitingInput", ![w].reason = "text"]
  /\ attempts' = [attempts EXCEPT ![w][n].state = "AwaitingInput"]
  /\ Bump(w)
  /\ UNCHANGED <<overdue, sweep>>

ReleaseWork(w, n) ==
  /\ HeldBy(w, n)
  /\ Settle(w, n, "Queued", "Released")

\* A second completion of a completed attempt replays or conflicts; neither
\* changes anything.
AlreadyCompleted(w, n) ==
  /\ attempts[w][n].state \in ReviewGate \cup {"Succeeded"}
  /\ items[w].state \in ReviewGate \cup {"Succeeded"}

\* success_is_authorized: a durable approval, or evidence bound to this work,
\* this attempt and a run linked to it, that the durable Run confirms.
SuccessAuthorized(w, n, verified) ==
  items[w].approval # Nobody \/ (verified /\ attempts[w][n].linked)

\* Mutant: verified evidence outranks the approval the policy requires.
CompleteWorkSkippingApproval(w, n, verified) ==
  /\ HeldBy(w, n)
  /\ ~AlreadyCompleted(w, n)
  /\ IF SuccessAuthorized(w, n, verified)
     THEN Settle(w, n, "Succeeded", "Succeeded")
     ELSE Settle(w, n, "Review", "Review")

CompleteWork(w, n, verified) ==
  /\ HeldBy(w, n)
  /\ ~AlreadyCompleted(w, n)
  /\ IF SuccessAuthorized(w, n, verified) /\ w \notin RequiresApproval
     THEN Settle(w, n, "Succeeded", "Succeeded")
     ELSE LET gate == IF w \in RequiresApproval THEN "AwaitingApproval"
                                                ELSE "Review"
          IN Settle(w, n, gate, gate)

FailWork(w, n) ==
  /\ HeldBy(w, n)
  /\ Settle(w, n, IF w \in RetryFailed /\ n < MaxAttempts THEN "Queued"
                                                          ELSE "Failed",
            "Failed")

-----------------------------------------------------------------------------
(***************************************************************************)
(* What operators and coordinators may decide.                             *)
(***************************************************************************)

\* A decision rewrites the item, never its attempts, and bumps the revision.
Decide(w, item) ==
  /\ Unlocked
  /\ Exists(w)
  /\ items' = [items EXCEPT ![w] = item]
  /\ Bump(w)
  /\ UNCHANGED <<attempts, overdue, sweep>>

AssignWork(w, a) ==
  /\ items[w].state \notin Terminal
  /\ Decide(w, [items[w] EXCEPT
       !.assignee = a,
       !.status = IF a = Nobody THEN "Unassigned" ELSE "Accepted"])

OfferWork(w, a) ==
  /\ items[w].state \notin Terminal
  /\ Decide(w, [items[w] EXCEPT !.assignee = a, !.status = "Offered"])

Offered(w, a) == items[w].status = "Offered" /\ items[w].assignee = a

AcceptWork(w, a) ==
  /\ Offered(w, a)
  /\ Decide(w, [items[w] EXCEPT !.status = "Accepted"])

DeclineWork(w, a) ==
  /\ Offered(w, a)
  /\ Decide(w, [items[w] EXCEPT !.assignee = Nobody, !.status = "Declined"])

ReassignWork(w, a) ==
  /\ items[w].state \notin Terminal \cup {"Leased", "Running"}
  /\ Decide(w, [items[w] EXCEPT !.assignee = a, !.status = "Accepted"])

\* reprioritize_work; the priority itself orders lists only.
ReprioritizeWork(w) ==
  /\ items[w].state \notin Terminal
  /\ Decide(w, items[w])

\* authorize_work_execution records a decision whatever the state.
AuthorizeExecution(w) == Decide(w, items[w])

BlockWork(w) ==
  /\ items[w].state \notin Terminal \cup {"Leased", "Running"}
  /\ Decide(w, [items[w] EXCEPT !.state = "Blocked", !.block = "Manual",
                                !.reason = "text"])

UnblockWork(w) ==
  /\ items[w].state = "Blocked"
  /\ items[w].block # "Derived"
  /\ ~LegacyDerivedWait(w, items[w])
  /\ Decide(w, [items[w] EXCEPT !.state = "Queued", !.block = "None",
                                !.reason = "None"])

RequestReview(w) ==
  /\ items[w].state \in ReviewGate \cup {"Succeeded"}
  /\ Decide(w, [items[w] EXCEPT !.state = "Review"])

\* Mutant: a retry gives the whole budget back.
RetryWorkResetsBudget(w) ==
  /\ items[w].state = "Failed"
  /\ Decide(w, [items[w] EXCEPT !.state = "Queued", !.approval = Nobody, !.count = 0])

RetryWork(w) ==
  /\ items[w].state = "Failed"
  /\ items[w].count < MaxAttempts
  /\ Decide(w, [items[w] EXCEPT !.state = "Queued", !.approval = Nobody])

ApproveWork(w, r) ==
  LET Gated == {n \in Number : attempts[w][n].state = "AwaitingApproval"}
      n     == CHOOSE m \in Gated : \A k \in Gated : k <= m
  IN /\ Unlocked
     /\ items[w].state = "AwaitingApproval"
     /\ items[w].approval \in {Nobody, r}
     /\ Gated # {}
     /\ Commit(w, [items[w] EXCEPT !.state = "Succeeded", !.approval = r],
               [attempts[w] EXCEPT ![n].state = "Succeeded", ![n].lease = 0])
     /\ Bump(w)
     /\ UNCHANGED <<overdue, sweep>>

\* Mutant: a cancellation forgets the attempts.
CancelWorkKeepsAttempts(w) ==
  /\ items[w].state \notin Terminal
  /\ Decide(w, [items[w] EXCEPT !.state = "Cancelled"])

CancelWork(w) ==
  /\ Unlocked
  /\ Exists(w)
  /\ items[w].state \notin Terminal
  /\ Commit(w, [items[w] EXCEPT !.state = "Cancelled"],
            [n \in Number |->
               IF attempts[w][n].state \in Active
               THEN [attempts[w][n] EXCEPT !.state = "Cancelled", !.lease = 0]
               ELSE attempts[w][n]])
  /\ Bump(w)
  /\ UNCHANGED <<overdue, sweep>>

-----------------------------------------------------------------------------
(***************************************************************************)
(* The reconciliation pass of the supervisor and of store open.            *)
(***************************************************************************)

StartSweep ==
  /\ Unlocked
  /\ sweep' = {w \in Work : Exists(w)}
  /\ UNCHANGED <<items, attempts, overdue, observed>>

\* Mutant: the pass forgets to bump what it rewrites.
ReconcileItemWithoutBump(w) ==
  /\ w \in sweep
  /\ sweep' = sweep \ {w}
  /\ Commit(w, IF Refreshed(w).state \in Terminal THEN Refreshed(w) ELSE Swept(w),
            ExpiredTries(w))
  /\ UNCHANGED <<overdue, observed>>

\* Mutant: the pass skips the attempts of an item.
ReconcileItemWithoutExpiry(w) ==
  /\ w \in sweep
  /\ sweep' = sweep \ {w}
  /\ Commit(w, Refreshed(w), attempts[w])
  /\ IF Refreshed(w) # items[w] THEN Bump(w) ELSE UNCHANGED observed
  /\ UNCHANGED overdue

\* One item of the pass: refresh, then close every lapsed attempt.  A
\* terminal item keeps its state.
ReconcileItem(w) ==
  /\ w \in sweep
  /\ sweep' = sweep \ {w}
  /\ Commit(w, IF Refreshed(w).state \in Terminal THEN Refreshed(w) ELSE Swept(w),
            ExpiredTries(w))
  /\ IF \/ Refreshed(w) # items[w]
        \/ Refreshed(w).state \notin Terminal /\ Lapsed(w) # {}
     THEN Bump(w)
     ELSE UNCHANGED observed
  /\ UNCHANGED overdue

\* An I/O error or a crash ends the pass early.
AbandonSweep ==
  /\ ~Unlocked
  /\ sweep' = {}
  /\ UNCHANGED <<items, attempts, overdue, observed>>

-----------------------------------------------------------------------------

Claimants == Agents \cup {"token"}

Worker(w, n) ==
  \/ \E ticks \in 1 .. MaxLease : RenewLease(w, n, ticks)
  \/ LinkRun(w, n)
  \/ ReportProgress(w, n)
  \/ ParkInput(w, n)
  \/ ReleaseWork(w, n)
  \/ \E verified \in BOOLEAN : CompleteWork(w, n, verified)
  \/ FailWork(w, n)

Operator(w) ==
  \/ \E a \in Agents \cup {Nobody} : AssignWork(w, a)
  \/ \E a \in Agents : \/ OfferWork(w, a)
                       \/ AcceptWork(w, a)
                       \/ DeclineWork(w, a)
                       \/ ReassignWork(w, a)
  \/ ReprioritizeWork(w)
  \/ AuthorizeExecution(w)
  \/ BlockWork(w)
  \/ UnblockWork(w)
  \/ RequestReview(w)
  \/ RetryWork(w)
  \/ \E r \in Reviewers : ApproveWork(w, r)
  \/ CancelWork(w)

Claimant(w) ==
  \E c \in Claimants : \/ \E ticks \in 1 .. MaxLease : ClaimWork(w, c, ticks)
                       \/ RefuseClaim(w, c)

Next ==
  \/ \E w \in Work : \/ CreateWork(w)
                     \/ DeadlinePasses(w)
                     \/ \E o \in Observers : ReadRevision(o, w)
                     \/ \E n \in Number : LeaseElapses(w, n) \/ Worker(w, n)
                     \/ Claimant(w)
                     \/ Operator(w)
                     \/ ReconcileItem(w)
  \/ StartSweep
  \/ AbandonSweep

Spec == Init /\ [][Next]_vars

\* The supervisor thread starts a pass every interval for as long as the
\* process lives, and a pass does not fail at the same item for ever.
FairSpec == Spec /\ WF_vars(StartSweep)
                 /\ \A w \in Work : SF_vars(ReconcileItem(w))

-----------------------------------------------------------------------------
(***************************************************************************)
(* Safety.                                                                 *)
(***************************************************************************)

\* At most one attempt of an item holds a lease a worker can act under,
\* whatever holds, reviews, retries and refused claims came in between
\* (claim_work_inner and load_active_attempt_for_token).
LeaseExclusion ==
  \A w \in Work : \A n, m \in Number : Live(w, n) /\ Live(w, m) => n = m

\* Attempt history is complete and never overwritten: the attempts on record
\* are exactly those numbered up to attempt_count, so the retry budget cannot
\* be spent twice on one number (claim_work_inner, retry_work).
AttemptsCounted ==
  \A w \in Work, n \in Number :
    attempts[w][n].state # "Absent" <=> n <= items[w].count

\* No attempt is executing (leased, running, waiting for input) under an item
\* that has moved on to a human gate, to success or to cancellation.
NoExecutionBehindOutcome ==
  \A w \in Work, n \in Number :
    items[w].state \in ReviewGate \cup {"Succeeded", "Cancelled"} =>
      attempts[w][n].state \notin Heartbeat

\* Success is earned by the newest attempt: approved by a reviewer where the
\* policy asks for it, otherwise evidenced by a Run linked to that attempt
\* (assign_work_succeeded, "the only production writer").
SuccessIsEarned ==
  \A w \in Work : items[w].state = "Succeeded" =>
    \E n \in Number :
      /\ n = items[w].count
      /\ attempts[w][n].state = "Succeeded"
      /\ IF w \in RequiresApproval THEN items[w].approval # Nobody
                                   ELSE attempts[w][n].linked

\* The revision fence is sound: while the revision an observer read still
\* matches, the item is the very item the observer saw (require_work_revision
\* with the bump of every write, refresh and expiry included).
RevisionFence ==
  \A o \in Observers, w \in Work :
    observed[o][w] # Nobody => observed[o][w] = items[w]

\* "cancel remains terminal": no late worker, tick, claim or retry moves a
\* cancelled item (cancel_work_checked closes every active attempt).
CancellationIsFinal ==
  [][\A w \in Work :
       items[w].state = "Cancelled" => items'[w].state = "Cancelled"]_vars

\* A closed attempt is never reopened or rewritten to another outcome.
ClosedAttemptsStay ==
  [][\A w \in Work, n \in Number :
       attempts[w][n].state \notin Active \cup {"Absent"} =>
         attempts'[w][n].state = attempts[w][n].state]_vars

\* A success is withdrawn by an explicit review request and by nothing else.
SuccessWithdrawnOnlyByReview ==
  [][\A w \in Work :
       items[w].state = "Succeeded" /\ items'[w].state # "Succeeded" =>
         RequestReview(w)]_vars

\* Outcomes stand, of items and of attempts, whoever comes late.
OutcomesStand == CancellationIsFinal /\ SuccessWithdrawnOnlyByReview /\ ClosedAttemptsStay

\* A hold an operator placed, or one of unknown provenance with a reason.
Held(w) ==
  /\ items[w].state = "Blocked"
  /\ items[w].block = "Manual" \/ (items[w].block = "None" /\ items[w].reason = "text")

Idle(w) == \A n \in Number : attempts[w][n].state \notin Heartbeat /\ ~Live(w, n)

\* An operator hold on an item nobody is working on ends by unblocking, by
\* cancelling or by the deadline: no tick and no claim lifts it.
HoldOnIdleWorkStands ==
  [][\A w \in Work :
       Held(w) /\ Idle(w) /\ ~Held(w)' =>
         UnblockWork(w) \/ CancelWork(w) \/ w \in overdue]_vars

\* No item is handed to a worker before its dependencies are met, although a
\* dependency may be withdrawn (Succeeded to Review) at any time and a hold
\* followed by a release clears the derived block (claim_work_inner,
\* evaluate_admission).
NoClaimBeforeDependencies ==
  [][\A w \in Work :
       items'[w].count # items[w].count =>
         \A i \in DOMAIN Deps[w] : Met(Deps[w][i])]_vars

(***************************************************************************)
(* Liveness.                                                               *)
(***************************************************************************)

\* A worker that dies does not keep its attempt: once its lease has run out,
\* the attempt is closed (reconcile_workloads_at or the next claim).
LapsedAttemptIsClosed ==
  \A w \in Work, n \in Number :
    (n \in Lapsed(w)) ~> (attempts[w][n].state \notin Heartbeat)

\* A dependency wait ends once the dependencies are met: the item is requeued
\* by a tick unless a dependency is withdrawn first.
DerivedWaitIsLifted ==
  \A w \in Work :
    (items[w].state = "Blocked" /\ items[w].block = "Derived"
       /\ DependencyWait(w) = "None")
      ~> (items[w].state # "Blocked" \/ DependencyWait(w) # "None"
            \/ items[w].block = "Manual")

\* A passed deadline takes effect on work that is not at a human gate.
DeadlineTakesEffect ==
  \A w \in Work \ Containers :
    (Exists(w) /\ w \in overdue) ~> (items[w].state \in Terminal \cup ReviewGate)

=============================================================================
