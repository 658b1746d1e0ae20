------------------------------- MODULE WorkIntents -------------------------------
(***************************************************************************)
(* How the orchestration store makes one work mutation durable             *)
(* (orchestration/store.rs), and the request receipts that make a retried  *)
(* call safe (store.rs and orchestration/service.rs).                      *)
(*                                                                         *)
(* A mutation touches several files: the WorkItem, its WorkAttempts, a     *)
(* WorkDecision, the idempotency receipt of the service request.  The      *)
(* store first writes an intent file that holds both sides of the change,  *)
(* then the files one by one, then the receipt, and removes the intent     *)
(* last.  `OrchStore::open` replays what it finds.  Every file write here  *)
(* is a step of its own, and the process may die between any two of them.  *)
(*                                                                         *)
(* What a mutation means is the business of WorkLedger; here it is a new   *)
(* content for some of the files of one item.  A content is named by the   *)
(* tick of `clock` that made it, which stands for its digest.              *)
(***************************************************************************)
EXTENDS Naturals, FiniteSets

CONSTANTS
    Items,          \* work ids
    Attempts,       \* attempt ids an item can have
    Requests,       \* request ids, all of one principal, session and workspace
    Callers,        \* service calls in flight
    MaxReceipts,    \* MAX_IDEMPOTENCY_RECEIPTS_PER_OWNER
    MaxClock,       \* bound on claims and mutations together
    MaxCrashes,     \* bound on crashes
    MaxFaults       \* bound on file system errors

ASSUME ReceiptBoundAssumption == MaxReceipts \in Nat \ {0}
ASSUME BoundsAssumption == MaxClock \in Nat /\ MaxCrashes \in Nat /\ MaxFaults \in Nat

NoRequest == "no request"
NoCaller  == "no caller"
ASSUME NoRequestAssumption == NoRequest \notin Requests
ASSUME NoCallerAssumption == NoCaller \notin Callers

VARIABLES
    (* on disk *)
    files,      \* work-items/ and work-attempts/ of each item
    decisions,  \* work-decisions/
    intents,    \* work-intents/ and work-lifecycle-intents/
    receipt,    \* idempotency/v2/
    (* in the process *)
    store,      \* "open", "replay" while OrchStore::open runs, "down", "refused"
    job,        \* the commit run by the holder of the store's lock
    lease,      \* lease[c]: the IdempotencyLease and progress of service call c
    closed,     \* ledger_admission_closed
    (* auxiliary *)
    clock,      \* names contents and dates receipts
    log,        \* log[r]: contents committed for request r
    crashes,
    faults

disk == <<files, decisions, intents, receipt>>
vars == <<files, decisions, intents, receipt, store, job, lease, closed, clock, log,
          crashes, faults>>

-----------------------------------------------------------------------------
(* The records *)

\* The files of one item: its revision, the content of the WorkItem file, the
\* decision the item names last (0: none), and the content of each attempt
\* file (0: the file does not exist).
Snapshot == [rev : Nat, stamp : Nat, dec : Nat, att : [Attempts -> Nat]]

\* WorkMutationIntent and WorkLifecycleIntent; id is the intent_id, and names
\* the contents the intent brings.
Kinds == {"mutation", "lifecycle"}
Intent == [id : Nat, kind : Kinds, work : Items, prior : Snapshot, next : Snapshot,
           req : Requests \cup {NoRequest}]

\* IdempotencyReceipt; effect is the commit that the stored response describes
Receipt == [status : {"none", "pending", "complete", "failed"}, effect : Nat, created : Nat]
NoReceipt == [status |-> "none", effect |-> 0, created |-> 0]

Stages == {"check", "records", "item", "receipt", "clear"}
Job == [intent : Intent, stage : Stages, caller : Callers \cup {NoCaller}]
NoJob == [stage |-> "none"]

\* Progress of a service call: none in flight; holding a claimed receipt;
\* inside a work claim, past its look at the admission; committing; back from
\* a successful store call; failing the receipt; dropping the lease.
Phases == {"idle", "perform", "admitted", "commit", "committed", "fail", "drop"}
Lease == [phase : Phases, req : Requests \cup {NoRequest}, effect : Nat]
Idle == [phase |-> "idle", req |-> NoRequest, effect |-> 0]

TypeOK ==
    /\ files \in [Items -> Snapshot]
    /\ decisions \subseteq Nat
    /\ intents \subseteq Intent
    /\ receipt \in [Requests -> Receipt]
    /\ store \in {"open", "replay", "down", "refused"}
    /\ job \in Job \cup {NoJob}
    /\ lease \in [Callers -> Lease]
    /\ closed \in BOOLEAN
    /\ clock \in Nat
    /\ log \in [Requests -> SUBSET Nat]
    /\ crashes \in Nat
    /\ faults \in Nat

Init ==
    /\ files = [w \in Items |->
                  [rev |-> 1, stamp |-> 0, dec |-> 0, att |-> [a \in Attempts |-> 0]]]
    /\ decisions = {}
    /\ intents = {}
    /\ receipt = [r \in Requests |-> NoReceipt]
    /\ store = "open"
    /\ job = NoJob
    /\ lease = [c \in Callers |-> Idle]
    /\ closed = FALSE
    /\ clock = 0
    /\ log = [r \in Requests |-> {}]
    /\ crashes = 0
    /\ faults = 0

\* The store's mutex is free in a store that finished opening.
LockFree == store = "open" /\ job = NoJob

-----------------------------------------------------------------------------
(* Request receipts *)

Terminal(r) == receipt[r].status \in {"complete", "failed"}

\* prune_one_owner_receipt_unlocked: the oldest settled receipt, if any.
OldestTerminal ==
    {r \in Requests : Terminal(r) /\ \A q \in Requests :
                          Terminal(q) => receipt[r].created <= receipt[q].created}

Held == {r \in Requests : receipt[r].status # "none"}

Displaced == IF Cardinality(Held) >= MaxReceipts THEN OldestTerminal ELSE {}

\* claim_idempotency with no receipt on disk: make room if the principal is at
\* capacity, refuse if nothing could be removed, then create a pending claim.
PendingClaim(r) ==
    /\ LockFree
    /\ receipt[r].status = "none"
    /\ clock < MaxClock
    /\ Cardinality(Held \ Displaced) < MaxReceipts
    /\ receipt' = [q \in Requests |->
                     IF q = r THEN [status |-> "pending", effect |-> 0, created |-> clock + 1]
                     ELSE IF q \in Displaced THEN NoReceipt ELSE receipt[q]]
    /\ clock' = clock + 1
    /\ UNCHANGED <<files, decisions, intents, store, job, closed, log, crashes>>

\* begin_idempotency answered with Perform.  A claim that finds the receipt of
\* another call waits or replays, and changes nothing.
Claim(c, r) ==
    /\ lease[c] = Idle
    /\ PendingClaim(r)
    /\ lease' = [lease EXCEPT ![c] = [phase |-> "perform", req |-> r, effect |-> 0]]
    /\ UNCHANGED faults

\* finish_idempotency_unlocked with status "complete"
CanComplete(r, e) ==
    \/ receipt[r].status = "pending"
    \/ receipt[r].status = "complete" /\ receipt[r].effect = e
Completed(r, e) == [receipt EXCEPT ![r].status = "complete", ![r].effect = e]

\* The call is back from the store and completes its lease; the commit has
\* normally settled the receipt already and the same answer is accepted again.
Settle(c) ==
    /\ LockFree
    /\ lease[c].phase = "committed"
    /\ IF CanComplete(lease[c].req, lease[c].effect)
       THEN /\ receipt' = Completed(lease[c].req, lease[c].effect)
            /\ lease' = [lease EXCEPT ![c] = Idle]
       ELSE /\ lease' = [lease EXCEPT ![c].phase = "fail"]
            /\ UNCHANGED receipt
    /\ UNCHANGED <<files, decisions, intents, store, job, closed, clock, log, crashes, faults>>

\* fail_idempotency: only a pending receipt can be failed.
Failed(r) == [receipt EXCEPT ![r].status = "failed"]

\* fail_claim after any error of the store; a lease whose receipt could not be
\* failed is still unsettled when it is dropped.
FailClaim(c) ==
    /\ LockFree
    /\ lease[c].phase = "fail"
    /\ IF receipt[lease[c].req].status = "pending"
       THEN /\ receipt' = Failed(lease[c].req)
            /\ lease' = [lease EXCEPT ![c] = Idle]
       ELSE /\ lease' = [lease EXCEPT ![c].phase = "drop"]
            /\ UNCHANGED receipt
    /\ UNCHANGED <<files, decisions, intents, store, job, closed, clock, log, crashes, faults>>

\* Mutant of DropLease: an unsettled lease leaves its receipt behind.
DropLeaseSilently(c) ==
    /\ LockFree
    /\ lease[c].phase = "drop"
    /\ lease' = [lease EXCEPT ![c] = Idle]
    /\ UNCHANGED <<files, decisions, intents, receipt, store, job, closed, clock, log,
                   crashes, faults>>

\* Drop of an unsettled IdempotencyLease.
DropLease(c) ==
    /\ LockFree
    /\ lease[c].phase = "drop"
    /\ receipt' = IF receipt[lease[c].req].status = "pending" THEN Failed(lease[c].req)
                  ELSE receipt
    /\ lease' = [lease EXCEPT ![c] = Idle]
    /\ UNCHANGED <<files, decisions, intents, store, job, closed, clock, log, crashes, faults>>

\* The call is cancelled at an await before it reached the store.
Abandon(c) ==
    /\ store = "open"
    /\ lease[c].phase = "perform"
    /\ lease' = [lease EXCEPT ![c].phase = "drop"]
    /\ UNCHANGED <<files, decisions, intents, receipt, store, job, closed, clock, log,
                   crashes, faults>>

-----------------------------------------------------------------------------
(* Committing a mutation *)

\* The successor that an operation computes under the lock from what it read:
\* the attempts in T get new content.  The item is bumped and gets new
\* content, too, unless the operation only touches an attempt.
Successor(w, kind, T, bump) ==
    LET now == clock + 1 IN
    [rev   |-> IF bump THEN files[w].rev + 1 ELSE files[w].rev,
     stamp |-> IF bump THEN now ELSE files[w].stamp,
     dec   |-> IF kind = "mutation" THEN now ELSE files[w].dec,
     att   |-> [a \in Attempts |-> IF a \in T THEN now ELSE files[w].att[a]]]

\* renew_work_lease, link_work_run and expire_terminal_attempt_unlocked commit
\* the item as it was, with one of its attempts changed.
AttemptOnly(w, kind, T) ==
    kind = "lifecycle" /\ \E a \in Attempts : T = {a} /\ files[w].att[a] # 0

\* The files a transition writes: a work claim creates an attempt, any other
\* lifecycle transition updates existing ones, a decision touches none.
Claims(w, kind, T, bump) ==
    kind = "lifecycle" /\ bump /\ \E a \in Attempts : T = {a} /\ files[w].att[a] = 0
Updates(w, kind, T, bump) ==
    /\ IF kind = "mutation" THEN T = {} ELSE \A a \in T : files[w].att[a] # 0
    /\ ~bump => AttemptOnly(w, kind, T)

\* claim_work_inner looks at the admission before it takes the lock.  No
\* other operation modelled here does.
EnterClaim(c) ==
    /\ store = "open"
    /\ lease[c].phase = "perform"
    /\ ~closed
    /\ lease' = [lease EXCEPT ![c].phase = "admitted"]
    /\ UNCHANGED <<files, decisions, intents, receipt, store, job, closed, clock, log,
                   crashes, faults>>

IntentFor(w, kind, T, bump, r) ==
    [id |-> clock + 1, kind |-> kind, work |-> w, prior |-> files[w],
     next |-> Successor(w, kind, T, bump), req |-> r]

Logged(i) == IF i.req = NoRequest THEN log ELSE [log EXCEPT ![i.req] = @ \cup {i.id}]

\* Mutant of PersistIntent: the receipt is completed when the intent is sealed.
PersistIntentAnswered(c, w, kind, T, bump) ==
    LET i == IntentFor(w, kind, T, bump, lease[c].req) IN
    /\ LockFree
    /\ \/ lease[c].phase = "admitted" /\ Claims(w, kind, T, bump)
       \/ lease[c].phase = "perform" /\ Updates(w, kind, T, bump)
    /\ clock < MaxClock
    /\ receipt[lease[c].req].status = "pending"
    /\ receipt' = Completed(lease[c].req, clock + 1)
    /\ intents' = intents \cup {i}
    /\ job' = [intent |-> i, stage |-> "check", caller |-> c]
    /\ lease' = [lease EXCEPT ![c].phase = "commit"]
    /\ clock' = clock + 1
    /\ log' = Logged(i)
    /\ UNCHANGED <<files, decisions, store, closed, crashes, faults>>

\* commit_lifecycle_with_request_unlocked and mutate_assignment, up to the
\* durable intent: the bound receipt must still be pending.
PersistIntent(c, w, kind, T, bump) ==
    LET i == IntentFor(w, kind, T, bump, lease[c].req) IN
    /\ LockFree
    /\ \/ lease[c].phase = "admitted" /\ Claims(w, kind, T, bump)
       \/ lease[c].phase = "perform" /\ Updates(w, kind, T, bump)
    /\ clock < MaxClock
    /\ receipt[lease[c].req].status = "pending"
    /\ intents' = intents \cup {i}
    /\ job' = [intent |-> i, stage |-> "check", caller |-> c]
    /\ lease' = [lease EXCEPT ![c].phase = "commit"]
    /\ clock' = clock + 1
    /\ log' = Logged(i)
    /\ UNCHANGED <<files, decisions, receipt, store, closed, crashes, faults>>

\* The store refuses the operation before writing anything: the operation's
\* own conditions, a stale revision, a closed admission, or a receipt that is
\* no longer pending.
Refuse(c) ==
    /\ LockFree
    /\ lease[c].phase \in {"perform", "admitted"}
    /\ lease' = [lease EXCEPT ![c].phase = "fail"]
    /\ UNCHANGED <<files, decisions, intents, receipt, store, job, closed, clock, log,
                   crashes, faults>>

\* The supervisor's reconciliation, and every other caller without a request.
PersistUnbound(w, kind, T, bump) ==
    LET i == IntentFor(w, kind, T, bump, NoRequest) IN
    /\ LockFree
    /\ clock < MaxClock
    /\ Updates(w, kind, T, bump)
    /\ intents' = intents \cup {i}
    /\ job' = [intent |-> i, stage |-> "check", caller |-> NoCaller]
    /\ clock' = clock + 1
    /\ UNCHANGED <<files, decisions, receipt, store, lease, closed, log, crashes, faults>>

\* Mutant of Matches: a file the interrupted commit already wrote is refused.
MatchesPriorOnly(i) ==
    LET now == files[i.work] IN
    /\ now.stamp = i.prior.stamp
    /\ i.kind = "lifecycle" => now.att = i.prior.att

\* Mutant of Matches: the item's own revision is not looked at.
MatchesAnyRevision(i) ==
    LET now == files[i.work] IN
    i.kind = "lifecycle" =>
       \A a \in Attempts :
          IF i.prior.att[a] # 0 THEN now.att[a] \in {i.prior.att[a], i.next.att[a]}
          ELSE now.att[a] \in {0, i.next.att[a]}

\* preflight_work_lifecycle_intent_unlocked, the checks that open
\* commit_work_mutation_intent_unlocked, and the one of
\* work_lifecycle_attempt_updates: every file must hold the content from
\* before or after the intent.
Matches(i) ==
    LET now == files[i.work] IN
    /\ now.stamp \in {i.prior.stamp, i.next.stamp}
    /\ i.kind = "lifecycle" =>
          \A a \in Attempts :
             IF i.prior.att[a] # 0 THEN now.att[a] \in {i.prior.att[a], i.next.att[a]}
             ELSE now.att[a] \in {0, i.next.att[a]}

AtStage(s) == job.stage = s

Goto(s) == job' = [job EXCEPT !.stage = s]

Preflight ==
    /\ AtStage("check")
    /\ Matches(job.intent)
    /\ Goto("records")
    /\ UNCHANGED <<files, decisions, intents, receipt, store, lease, closed, clock, log,
                   crashes, faults>>

\* What is still to be written before the item: attempt files that differ.
StaleAttempts(i) ==
    IF i.kind = "lifecycle"
    THEN {a \in Attempts : files[i.work].att[a] # i.next.att[a]} ELSE {}

AttemptWritten(i) ==
    \E a \in StaleAttempts(i) :
       files' = [files EXCEPT ![i.work].att[a] = i.next.att[a]]

\* write_work_lifecycle_attempt_updates_unlocked, one file
WriteAttempt ==
    /\ AtStage("records")
    /\ AttemptWritten(job.intent)
    /\ UNCHANGED <<decisions, intents, receipt, store, job, lease, closed, clock, log,
                   crashes, faults>>

\* Mutant of DecisionWritten: the decision is taken to be on disk already.
DecisionSkipped(i) == decisions' = decisions

\* The decision file of a mutation; a lifecycle intent has none.
DecisionWritten(i) ==
    decisions' = IF i.kind = "mutation" THEN decisions \cup {i.next.dec} ELSE decisions

\* Mutant of WriteDecision: the item may overtake the attempts.
WriteDecisionEarly ==
    /\ AtStage("records")
    /\ DecisionWritten(job.intent)
    /\ Goto("item")
    /\ UNCHANGED <<files, intents, receipt, store, lease, closed, clock, log, crashes, faults>>

WriteDecision ==
    /\ AtStage("records")
    /\ StaleAttempts(job.intent) = {}
    /\ DecisionWritten(job.intent)
    /\ Goto("item")
    /\ UNCHANGED <<files, intents, receipt, store, lease, closed, clock, log, crashes, faults>>

\* The item file is written if it differs; otherwise there is no write that
\* could fail, and the step changes nothing.
StaleItem(i) == files[i.work].stamp # i.next.stamp

ItemWritten(i) ==
    files' = [files EXCEPT ![i.work].rev = i.next.rev, ![i.work].stamp = i.next.stamp,
                           ![i.work].dec = i.next.dec]

WriteItem ==
    /\ AtStage("item")
    /\ ItemWritten(job.intent)
    /\ Goto("receipt")
    /\ UNCHANGED <<decisions, intents, receipt, store, lease, closed, clock, log, crashes, faults>>

\* complete_bound_request_unlocked
Answerable(i) == i.req # NoRequest => CanComplete(i.req, i.id)
Answered(i) ==
    receipt' = IF i.req = NoRequest THEN receipt ELSE Completed(i.req, i.id)

CompleteReceipt ==
    /\ AtStage("receipt")
    /\ Answerable(job.intent)
    /\ Answered(job.intent)
    /\ Goto("clear")
    /\ UNCHANGED <<files, decisions, intents, store, lease, closed, clock, log, crashes, faults>>

\* How the call that ran the commit goes on, with the given phase.
Return(phase) ==
    /\ job' = NoJob
    /\ lease' = IF job.caller = NoCaller THEN lease
                ELSE [lease EXCEPT ![job.caller].phase = phase,
                                   ![job.caller].effect = job.intent.id]

ClearIntent ==
    /\ AtStage("clear")
    /\ intents' = intents \ {job.intent}
    /\ Return("committed")
    /\ UNCHANGED <<files, decisions, receipt, store, closed, clock, log, crashes, faults>>

\* A file or a receipt is not what the intent allows.  The commit stops with
\* a Conflict and leaves its intent; OrchStore::open fails with it.
CommitConflict ==
    /\ \/ AtStage("check") /\ ~Matches(job.intent)
       \/ AtStage("receipt") /\ ~Answerable(job.intent)
    /\ Return("fail")
    /\ store' = IF store = "replay" THEN "refused" ELSE store
    /\ UNCHANGED <<files, decisions, intents, receipt, closed, clock, log, crashes, faults>>

-----------------------------------------------------------------------------
(* Crash and recovery *)

\* The process ends, at any point and for any reason.
Crash ==
    /\ store \in {"open", "replay"}
    /\ crashes < MaxCrashes
    /\ crashes' = crashes + 1
    /\ store' = "down"
    /\ job' = NoJob
    /\ lease' = [c \in Callers |-> Idle]
    /\ closed' = FALSE
    /\ UNCHANGED <<files, decisions, intents, receipt, clock, log, faults>>

\* OrchStore::open on a home that no process holds.
Reopen ==
    /\ store \in {"down", "refused"}
    /\ store' = "replay"
    /\ UNCHANGED <<files, decisions, intents, receipt, job, lease, closed, clock, log,
                   crashes, faults>>

\* recover_work_mutation_intents runs before recover_work_lifecycle_intents,
\* which replays in the order of the revisions the intents start from.
Before(i, j) ==
    \/ i.kind = "mutation" /\ j.kind = "lifecycle"
    \/ i.kind = "lifecycle" /\ j.kind = "lifecycle" /\ i.prior.rev < j.prior.rev

ReplayIntent(i) ==
    /\ store = "replay"
    /\ job = NoJob
    /\ \A j \in intents : ~Before(j, i)
    /\ job' = [intent |-> i, stage |-> "check", caller |-> NoCaller]
    /\ UNCHANGED <<files, decisions, intents, receipt, store, lease, closed, clock, log,
                   crashes, faults>>

\* Mutant of Replayed: orphaned claims are failed before the intents are replayed.
ReplayedTooSoon == store = "replay" /\ job = NoJob

Replayed == store = "replay" /\ job = NoJob /\ intents = {}

\* fail_orphaned_idempotency_claims, one receipt
FailOrphan(r) ==
    /\ Replayed
    /\ receipt[r].status = "pending"
    /\ receipt' = Failed(r)
    /\ UNCHANGED <<files, decisions, intents, store, job, lease, closed, clock, log,
                   crashes, faults>>

\* prune_retention expires the settled receipts made before a cutoff, and the
\* store is open.
FinishOpen(cutoff) ==
    /\ Replayed
    /\ \A r \in Requests : receipt[r].status # "pending"
    /\ receipt' = [r \in Requests |-> IF receipt[r].created <= cutoff THEN NoReceipt
                                      ELSE receipt[r]]
    /\ store' = "open"
    /\ UNCHANGED <<files, decisions, intents, job, lease, closed, clock, log, crashes, faults>>

-----------------------------------------------------------------------------
CommitStep ==
    Preflight \/ WriteAttempt \/ WriteDecision \/ WriteItem \/ CompleteReceipt
    \/ ClearIntent \/ CommitConflict

OpenStep ==
    \/ \E i \in intents : ReplayIntent(i)
    \/ \E r \in Requests : FailOrphan(r)
    \/ \E cutoff \in 0 .. clock : FinishOpen(cutoff)

CallStep(c) ==
    \/ \E w \in Items, kind \in Kinds, T \in SUBSET Attempts, bump \in BOOLEAN :
          PersistIntent(c, w, kind, T, bump)
    \/ EnterClaim(c)
    \/ Refuse(c)
    \/ Abandon(c)
    \/ Settle(c)
    \/ FailClaim(c)
    \/ DropLease(c)

Next ==
    \/ CommitStep
    \/ OpenStep
    \/ \E c \in Callers : CallStep(c)
    \/ \E c \in Callers, r \in Requests : Claim(c, r)
    \/ \E w \in Items, kind \in Kinds, T \in SUBSET Attempts, bump \in BOOLEAN :
          PersistUnbound(w, kind, T, bump)
    \/ Crash
    \/ Reopen

\* The process may crash, the file system is sound.
Spec == Init /\ [][Next]_vars

\* A thread that holds the lock, an open in progress and a service call in
\* flight run on unless the process dies.
Fairness ==
    /\ WF_vars(CommitStep)
    /\ WF_vars(OpenStep)
    /\ \A c \in Callers : SF_vars(CallStep(c))

FairSpec == Spec /\ Fairness

-----------------------------------------------------------------------------
(* File system errors.  atomic_write_json and remove_file_durable can fail  *)
(* before they change the file, or after it when the directory cannot be    *)
(* synced.  While the store opens, an error ends the open and is no         *)
(* different from a crash.                                                   *)

Fault == faults < MaxFaults /\ faults' = faults + 1

\* The claim's error hides a receipt that may exist all the same.
ClaimError(r) ==
    /\ Fault
    /\ PendingClaim(r)
    /\ UNCHANGED lease

\* A write of the receipt fails in the lease's complete, fail or drop.
LeaseError(c) ==
    /\ Fault
    /\ LockFree
    /\ lease[c].phase # "idle" /\ receipt[lease[c].req].status = "pending"
    /\ \/ lease[c].phase = "committed" /\ lease' = [lease EXCEPT ![c].phase = "fail"]
       \/ lease[c].phase = "fail" /\ lease' = [lease EXCEPT ![c].phase = "drop"]
       \/ lease[c].phase = "drop" /\ lease' = [lease EXCEPT ![c] = Idle]
    /\ UNCHANGED <<files, decisions, intents, receipt, store, job, closed, clock, log, crashes>>

\* persist_work_lifecycle_intent_unlocked or its counterpart reports an error
\* with the intent already in place; nothing closes the admission.
PersistError ==
    /\ Fault
    /\ store = "open" /\ AtStage("check")
    /\ Return("fail")
    /\ UNCHANGED <<files, decisions, intents, receipt, store, closed, clock, log, crashes>>

\* An error of a write after the intent: note_partial_commit closes the
\* admission, and the call ends with the intent left on disk.
WriteError ==
    /\ Fault
    /\ store = "open"
    /\ \/ /\ AtStage("records") /\ StaleAttempts(job.intent) # {}
          /\ AttemptWritten(job.intent) \/ UNCHANGED files
          /\ UNCHANGED <<decisions, receipt>>
       \/ /\ AtStage("records") /\ job.intent.kind = "mutation"
          /\ DecisionWritten(job.intent) \/ UNCHANGED decisions
          /\ UNCHANGED <<files, receipt>>
       \/ /\ AtStage("item") /\ StaleItem(job.intent)
          /\ ItemWritten(job.intent) \/ UNCHANGED files
          /\ UNCHANGED <<decisions, receipt>>
       \/ /\ AtStage("receipt") /\ Answerable(job.intent) /\ job.intent.req # NoRequest
          /\ Answered(job.intent) \/ UNCHANGED receipt
          /\ UNCHANGED <<files, decisions>>
    /\ Return("fail")
    /\ closed' = TRUE
    /\ UNCHANGED <<intents, store, clock, log, crashes>>

\* An error of the last step is returned without closing the admission.
ClearError ==
    /\ Fault
    /\ store = "open" /\ AtStage("clear")
    /\ intents' \in {intents, intents \ {job.intent}}
    /\ Return("fail")
    /\ UNCHANGED <<files, decisions, receipt, store, closed, clock, log, crashes>>

FaultStep ==
    \/ \E r \in Requests : ClaimError(r)
    \/ \E c \in Callers : LeaseError(c)
    \/ PersistError
    \/ WriteError
    \/ ClearError

FaultyNext == Next \/ FaultStep

\* Only the steps that follow a durable intent fail.
LateFaultSpec == Init /\ [][Next \/ WriteError \/ ClearError]_vars

\* Crashes and file system errors.
FaultySpec == Init /\ [][FaultyNext]_vars

-----------------------------------------------------------------------------
(* Properties *)

\* The store as its readers and a later open will see it: an intent on disk
\* stands for the change it describes.
Committed(w) ==
    IF \E i \in intents : i.work = w
    THEN (CHOOSE i \in intents : i.work = w).next
    ELSE files[w]

Outcome(r) ==
    IF \E i \in intents : i.req = r
    THEN [receipt[r] EXCEPT !.status = "complete",
                            !.effect = (CHOOSE i \in intents : i.req = r).id]
    ELSE receipt[r]

CommittedLedger == [w \in Items |-> Committed(w)]
Outcomes == [r \in Requests |-> Outcome(r)]

Atomic == INSTANCE AtomicLedger WITH ledger <- CommittedLedger, outcome <- Outcomes

\* Writing a mutation file by file, with crashes anywhere and replay at open,
\* implements a ledger that makes each mutation and its receipt in one step.
AtomicMutations == Atomic!Spec

\* OrchStore::open never meets a file or receipt that its intents do not
\* expect, so a crash cannot leave a ledger that no longer opens
\* (preflight_work_lifecycle_intent_unlocked, finish_idempotency_unlocked).
ReopenRecovers == store # "refused"

\* The commits made for a request since its present receipt was claimed.
Effects(r) == {e \in log[r] : e > receipt[r].created}

\* A receipt that answers "failed" to every retry belongs to a request that
\* changed nothing (fail_idempotency, fail_orphaned_idempotency_claims).
FailedMeansNoEffect ==
    \A r \in Requests : receipt[r].status = "failed" => Effects(r) = {}

\* A file of the item, its own or an attempt's, has come as far as content e.
Reached(w, e) == files[w].stamp >= e \/ \E a \in Attempts : files[w].att[a] >= e

\* The answer kept for a request describes a commit made for that request,
\* and the files have come at least that far (complete_bound_request_unlocked
\* runs after the files are written).
AnswersAreCommits ==
    \A r \in Requests :
       receipt[r].status = "complete" =>
          /\ receipt[r].effect \in log[r]
          /\ \E w \in Items : Reached(w, receipt[r].effect)

\* An item on disk never names a decision whose file is missing
\* (commit_work_mutation_intent_unlocked writes the decision first).
DecisionsPrecedeItems ==
    \A w \in Items : files[w].dec # 0 => files[w].dec \in decisions

\* Recovery and commits only move files forward: no step puts an older
\* content in the place of a newer one (the refusal to overwrite an
\* unexpected revision).
NothingRollsBack ==
    [][\A w \in Items :
          /\ files'[w].stamp >= files[w].stamp
          /\ \A a \in Attempts : files'[w].att[a] >= files[w].att[a]]_vars

\* A claimed request is settled, complete or failed, unless the process dies
\* first; an open that follows settles it, too.
ClaimsSettle ==
    \A r \in Requests :
       (receipt[r].status = "pending") ~> (receipt[r].status # "pending" \/ store = "down")

=================================================================================
