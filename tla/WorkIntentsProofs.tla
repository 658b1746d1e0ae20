---------------------------- MODULE WorkIntentsProofs ----------------------------
(***************************************************************************)
(* Proofs about WorkIntents: with crashes anywhere and a sound file        *)
(* system, the store always reopens, a failed receipt belongs to a request *)
(* without effect, and the file-by-file commit implements AtomicLedger.    *)
(***************************************************************************)
EXTENDS WorkIntents, TLAPS

\* The three parts of a snapshot that live in the WorkItem file.
SameItem(s, t) == s.rev = t.rev /\ s.stamp = t.stamp /\ s.dec = t.dec

\* Every file of the item holds the content from before or after the intent.
Between(i) ==
    /\ SameItem(files[i.work], i.prior) \/ SameItem(files[i.work], i.next)
    /\ \A a \in Attempts :
          files[i.work].att[a] \in {i.prior.att[a], i.next.att[a]}
    /\ i.kind = "mutation" => files[i.work].att = i.next.att

\* The receipt of the request an intent is bound to: not settled otherwise.
Bound(i) ==
    i.req # NoRequest =>
       /\ i.id \in log[i.req]
       /\ \/ receipt[i.req].status = "pending"
          \/ receipt[i.req].status = "complete" /\ receipt[i.req].effect = i.id

\* What the commit in progress has already written at each stage.
Progress(i, stage) ==
    /\ stage \in {"item", "receipt", "clear"} => files[i.work].att = i.next.att
    /\ stage \in {"receipt", "clear"} => SameItem(files[i.work], i.next)
    /\ stage = "clear" /\ i.req # NoRequest =>
          receipt[i.req].status = "complete" /\ receipt[i.req].effect = i.id

\* There is one intent at most; it belongs to the running commit or waits
\* for the next open.
OneIntent ==
    /\ \A i, j \in intents : i = j
    /\ \A i \in intents : Between(i) /\ Bound(i)
    /\ LockFree => intents = {}

JobCoherent ==
    /\ store # "refused"
    /\ job # NoJob =>
          /\ store \in {"open", "replay"}
          /\ job.intent \in intents
          /\ Progress(job.intent, job.stage)
          /\ job.caller # NoCaller =>
                /\ store = "open"
                /\ lease[job.caller].phase = "commit"
                /\ lease[job.caller].req = job.intent.req

\* A call in flight holds a request; past its commit it knows an effect.
LeasesCoherent ==
    /\ store # "open" => \A c \in Callers : lease[c] = Idle
    /\ \A c \in Callers :
          /\ lease[c].phase # "idle" => lease[c].req \in Requests
          /\ lease[c].phase = "committed" => lease[c].effect \in log[lease[c].req]

\* A request that is not answered, and has no intent, has had no effect since
\* its receipt was claimed.
ReceiptsCoherent ==
    /\ \A r \in Requests :
          /\ receipt[r].created <= clock
          /\ \A e \in log[r] : e <= clock
          /\ receipt[r].status # "none" => receipt[r].created > 0
          /\ receipt[r].status = "none" => receipt[r] = NoReceipt
          /\ receipt[r].status = "pending" /\ (\A i \in intents : i.req # r)
                => Effects(r) = {}
    /\ \A p, q \in Requests :
          receipt[p].status # "none" /\ receipt[p].created = receipt[q].created => p = q

IInv ==
    TypeOK /\ OneIntent /\ JobCoherent /\ LeasesCoherent /\ ReceiptsCoherent
    /\ FailedMeansNoEffect

-----------------------------------------------------------------------------
(* Types *)

\* An intent built under the lock is an intent.
LEMMA SuccessorType ==
    ASSUME TypeOK, NEW w \in Items, NEW kind \in Kinds, NEW T \in SUBSET Attempts,
                   NEW bump \in BOOLEAN,
           NEW r \in Requests \cup {NoRequest}
    PROVE  IntentFor(w, kind, T, bump, r) \in Intent
BY DEF TypeOK, IntentFor, Successor, Intent, Snapshot, Kinds

\* The parts of a running commit.
LEMMA JobType ==
    ASSUME TypeOK, job # NoJob
    PROVE  /\ job \in Job /\ job.intent \in Intent
           /\ job.caller \in Callers \cup {NoCaller}
           /\ job.intent.work \in Items
           /\ job.intent.next \in Snapshot /\ job.intent.id \in Nat
           /\ job.intent.req \in Requests \cup {NoRequest}
BY DEF TypeOK, Job, Intent, Snapshot

\* A commit that is at some stage exists.
LEMMA StageJob ==
    ASSUME NEW s \in Stages, AtStage(s)
    PROVE  job # NoJob
BY DEF AtStage, Stages, NoJob

\* A call that moves on, and a receipt that is answered.
LEMMA CallTypes ==
    ASSUME TypeOK, NEW c \in Callers
    PROVE  /\ \A p \in Phases : [lease EXCEPT ![c].phase = p] \in [Callers -> Lease]
           /\ [lease EXCEPT ![c] = Idle] \in [Callers -> Lease]
           /\ Failed(lease[c].req) \in [Requests -> Receipt]
           /\ Completed(lease[c].req, lease[c].effect) \in [Requests -> Receipt]
<1>0. lease \in [Callers -> Lease] /\ receipt \in [Requests -> Receipt]
  BY DEF TypeOK
<1>1. \A p \in Phases : [lease EXCEPT ![c].phase = p] \in [Callers -> Lease]
  BY <1>0 DEF Lease
<1>2. [lease EXCEPT ![c] = Idle] \in [Callers -> Lease]
  BY <1>0 DEF Lease, Idle, Phases
<1>3. Failed(lease[c].req) \in [Requests -> Receipt]
  BY <1>0 DEF Failed, Receipt
<1>4. lease[c].effect \in Nat
  BY <1>0 DEF Lease
<1>5. Completed(lease[c].req, lease[c].effect) \in [Requests -> Receipt]
  BY <1>0, <1>4 DEF Completed, Receipt
<1> QED
  BY <1>1, <1>2, <1>3, <1>5

\* Every step keeps the types.
LEMMA TypeStep == TypeOK /\ [Next]_vars => TypeOK'
<1> SUFFICES ASSUME TypeOK, [Next]_vars PROVE TypeOK'
  OBVIOUS
<1> USE DEF TypeOK
<1>1. CASE Preflight
  BY <1>1, StageJob, JobType DEF Preflight, Goto, Job, Stages
<1>2. CASE WriteAttempt
  <2>1. job # NoJob
    BY <1>2, StageJob DEF WriteAttempt, Stages
  <2>2. PICK a \in Attempts : files' = [files EXCEPT ![job.intent.work].att[a] = job.intent.next.att[a]]
    BY <1>2 DEF WriteAttempt, AttemptWritten, StaleAttempts
  <2>3. files' \in [Items -> Snapshot]
    BY <2>1, <2>2, JobType DEF Snapshot
  <2> QED
    BY <1>2, <2>3 DEF WriteAttempt
<1>3. CASE WriteDecision
  <2>1. job # NoJob
    BY <1>3, StageJob DEF WriteDecision, Stages
  <2> QED
    BY <1>3, <2>1, JobType DEF WriteDecision, DecisionWritten, Goto, Job, Stages, Snapshot
<1>4. CASE WriteItem
  <2>1. job # NoJob
    BY <1>4, StageJob DEF WriteItem, Stages
  <2>2. files' \in [Items -> Snapshot]
    BY <1>4, <2>1, JobType DEF WriteItem, ItemWritten, Snapshot
  <2> QED
    BY <1>4, <2>1, <2>2, JobType DEF WriteItem, Goto, Job, Stages
<1>5. CASE CompleteReceipt
  <2>1. job # NoJob
    BY <1>5, StageJob DEF CompleteReceipt, Stages
  <2>2. receipt' \in [Requests -> Receipt]
    BY <1>5, <2>1, JobType DEF CompleteReceipt, Answered, Completed, Receipt
  <2> QED
    BY <1>5, <2>1, <2>2, JobType DEF CompleteReceipt, Goto, Job, Stages
<1>6. CASE ClearIntent
  <2>1. job # NoJob
    BY <1>6, StageJob DEF ClearIntent, Stages
  <2>2. lease' \in [Callers -> Lease]
    BY <1>6, <2>1, JobType DEF ClearIntent, Return, Lease, Phases
  <2> QED
    BY <1>6, <2>2 DEF ClearIntent, Return
<1>7. CASE CommitConflict
  <2>1. job # NoJob
    BY <1>7, StageJob DEF CommitConflict, Stages
  <2>2. lease' \in [Callers -> Lease]
    BY <1>7, <2>1, JobType DEF CommitConflict, Return, Lease, Phases
  <2> QED
    BY <1>7, <2>2 DEF CommitConflict, Return
<1>8. ASSUME NEW i \in intents, ReplayIntent(i) PROVE TypeOK'
  BY <1>8 DEF ReplayIntent, Job, Stages
<1>9. ASSUME NEW r \in Requests, FailOrphan(r) PROVE TypeOK'
  BY <1>9 DEF FailOrphan, Failed, Receipt
<1>10. ASSUME NEW cutoff \in 0 .. clock, FinishOpen(cutoff) PROVE TypeOK'
  BY <1>10 DEF FinishOpen, Receipt, NoReceipt
<1>11. ASSUME NEW c \in Callers, NEW w \in Items, NEW kind \in Kinds, NEW T \in SUBSET Attempts,
              NEW bump \in BOOLEAN,
              PersistIntent(c, w, kind, T, bump)
       PROVE  TypeOK'
  <2> DEFINE i == IntentFor(w, kind, T, bump, lease[c].req)
  <2>1. i \in Intent
    BY SuccessorType DEF Lease
  <2>2. log' \in [Requests -> SUBSET Nat]
    BY <1>11, <2>1 DEF PersistIntent, Logged, Intent, Snapshot
  <2>3. lease' \in [Callers -> Lease]
    BY <1>11 DEF PersistIntent, Lease, Phases
  <2>4. job' \in Job
    BY <1>11, <2>1 DEF PersistIntent, Job, Stages
  <2> QED
    BY <1>11, <2>1, <2>2, <2>3, <2>4 DEF PersistIntent
<1>12. ASSUME NEW c \in Callers, Refuse(c) PROVE TypeOK'
  BY <1>12 DEF Refuse, Lease, Phases
<1>13. ASSUME NEW c \in Callers, Abandon(c) PROVE TypeOK'
  BY <1>13 DEF Abandon, Lease, Phases
<1>14. ASSUME NEW c \in Callers, Settle(c) PROVE TypeOK'
  <2>1. /\ receipt' = receipt \/ receipt' = Completed(lease[c].req, lease[c].effect)
        /\ lease' = [lease EXCEPT ![c] = Idle] \/ lease' = [lease EXCEPT ![c].phase = "fail"]
        /\ UNCHANGED <<files, decisions, intents, store, job, closed, clock, log, crashes, faults>>
    BY <1>14, Zenon DEF Settle
  <2>a. "fail" \in Phases /\ "drop" \in Phases /\ receipt \in [Requests -> Receipt]
    BY DEF Phases
  <2>b. /\ [lease EXCEPT ![c] = Idle] \in [Callers -> Lease]
        /\ [lease EXCEPT ![c].phase = "fail"] \in [Callers -> Lease]
    BY <2>a, CallTypes
  <2>c. receipt' \in [Requests -> Receipt]
    BY <2>1, <2>a, CallTypes
  <2>2. receipt' \in [Requests -> Receipt] /\ lease' \in [Callers -> Lease]
    BY <2>1, <2>b, <2>c, Zenon
  <2> QED
    BY <2>1, <2>2
<1>15. ASSUME NEW c \in Callers, FailClaim(c) PROVE TypeOK'
  <2>1. /\ receipt' = receipt \/ receipt' = Failed(lease[c].req)
        /\ lease' = [lease EXCEPT ![c] = Idle] \/ lease' = [lease EXCEPT ![c].phase = "drop"]
        /\ UNCHANGED <<files, decisions, intents, store, job, closed, clock, log, crashes, faults>>
    BY <1>15, Zenon DEF FailClaim
  <2>a. "fail" \in Phases /\ "drop" \in Phases /\ receipt \in [Requests -> Receipt]
    BY DEF Phases
  <2>b. /\ [lease EXCEPT ![c] = Idle] \in [Callers -> Lease]
        /\ [lease EXCEPT ![c].phase = "drop"] \in [Callers -> Lease]
    BY <2>a, CallTypes
  <2>c. receipt' \in [Requests -> Receipt]
    BY <2>1, <2>a, CallTypes
  <2>2. receipt' \in [Requests -> Receipt] /\ lease' \in [Callers -> Lease]
    BY <2>1, <2>b, <2>c, Zenon
  <2> QED
    BY <2>1, <2>2
<1>16. ASSUME NEW c \in Callers, DropLease(c) PROVE TypeOK'
  <2>1. /\ receipt' = receipt \/ receipt' = Failed(lease[c].req)
        /\ lease' = [lease EXCEPT ![c] = Idle]
        /\ UNCHANGED <<files, decisions, intents, store, job, closed, clock, log, crashes, faults>>
    BY <1>16, Zenon DEF DropLease
  <2>a. "fail" \in Phases /\ "drop" \in Phases /\ receipt \in [Requests -> Receipt]
    BY DEF Phases
  <2>2. receipt' \in [Requests -> Receipt] /\ lease' \in [Callers -> Lease]
    BY <2>1, <2>a, CallTypes, Zenon
  <2> QED
    BY <2>1, <2>2
<1>17. ASSUME NEW c \in Callers, EnterClaim(c) PROVE TypeOK'
  BY <1>17 DEF EnterClaim, Lease, Phases
<1>18. ASSUME NEW c \in Callers, NEW r \in Requests, Claim(c, r) PROVE TypeOK'
  BY <1>18 DEF Claim, PendingClaim, Receipt, NoReceipt, Lease, Phases
<1>19. ASSUME NEW w \in Items, NEW kind \in Kinds, NEW T \in SUBSET Attempts, NEW bump \in BOOLEAN,
              PersistUnbound(w, kind, T, bump)
       PROVE  TypeOK'
  <2>1. IntentFor(w, kind, T, bump, NoRequest) \in Intent
    BY SuccessorType
  <2> QED
    BY <1>19, <2>1 DEF PersistUnbound, Job, Stages
<1>20. CASE Crash
  <2>1. lease' \in [Callers -> Lease]
    BY <1>20 DEF Crash, Lease, Phases, Idle
  <2>2. closed' \in BOOLEAN
    BY <1>20 DEF Crash
  <2> QED
    BY <1>20, <2>1, <2>2 DEF Crash
<1>21. CASE Reopen
  BY <1>21 DEF Reopen
<1>22. CASE UNCHANGED vars
  BY <1>22 DEF vars
<1> HIDE DEF TypeOK
<1>23. CASE CommitStep
  BY <1>1, <1>2, <1>3, <1>4, <1>5, <1>6, <1>7, <1>23 DEF CommitStep
<1>24. CASE OpenStep
  BY <1>8, <1>9, <1>10, <1>24 DEF OpenStep
<1>25. ASSUME NEW c \in Callers, CallStep(c) PROVE TypeOK'
  BY <1>11, <1>12, <1>13, <1>14, <1>15, <1>16, <1>17, <1>25 DEF CallStep
<1> QED
  BY <1>18, <1>19, <1>20, <1>21, <1>22, <1>23, <1>24, <1>25 DEF Next

-----------------------------------------------------------------------------
(* The inductive invariant *)

\* The parts of an intent on disk.
LEMMA IntentType ==
    ASSUME TypeOK, NEW i \in intents
    PROVE  /\ i \in Intent /\ i.work \in Items /\ i.req \in Requests \cup {NoRequest}
           /\ i.kind \in Kinds /\ i.prior \in Snapshot /\ i.next \in Snapshot
           /\ i.id \in Nat
BY DEF TypeOK, Intent, Snapshot

\* A decision touches no attempt.
LEMMA DecisionKeepsAttempts ==
    ASSUME TypeOK, NEW w \in Items, NEW kind, NEW bump, NEW r, kind = "mutation"
    PROVE  IntentFor(w, kind, {}, bump, r).next.att = files[w].att
<1>1. files[w].att \in [Attempts -> Nat]
  BY DEF TypeOK, Snapshot
<1>2. IntentFor(w, kind, {}, bump, r).next.att = [a \in Attempts |-> files[w].att[a]]
  BY DEF IntentFor, Successor
<1> QED
  BY <1>1, <1>2

\* What Preflight asks of an intent is what the invariant says of it.
LEMMA BetweenMatches ==
    ASSUME TypeOK, NEW i \in intents, Between(i)
    PROVE  Matches(i)
BY IntentType DEF Between, Matches, SameItem, TypeOK, Snapshot

\* Under the invariant a commit never meets what it does not expect.
LEMMA NoConflict ==
    ASSUME IInv
    PROVE  ~CommitConflict
<1> SUFFICES ASSUME CommitConflict PROVE FALSE
  OBVIOUS
<1>1. job # NoJob
  BY StageJob DEF CommitConflict, Stages
<1>2. job.intent \in intents /\ Between(job.intent) /\ Bound(job.intent)
  BY <1>1 DEF IInv, JobCoherent, OneIntent
<1>3. Matches(job.intent)
  BY <1>2, BetweenMatches DEF IInv
<1>4. Answerable(job.intent)
  BY <1>2 DEF Bound, Answerable, CanComplete
<1> QED
  BY <1>3, <1>4 DEF CommitConflict

\* Every step keeps the inductive invariant.
LEMMA InvStep == IInv /\ [Next]_vars => IInv'
<1> SUFFICES ASSUME IInv, [Next]_vars PROVE IInv'
  OBVIOUS
<1>0. TypeOK /\ TypeOK'
  BY TypeStep DEF IInv
<1>1. CASE Preflight
  <2>1. job # NoJob /\ job \in Job
    BY <1>0, <1>1, StageJob, JobType DEF Preflight, Stages
  <2>2. /\ job'.intent = job.intent /\ job'.caller = job.caller /\ job'.stage = "records"
        /\ job' # NoJob
    BY <1>1, <2>1 DEF Preflight, Goto, Job, NoJob
  <2> QED
    BY <1>0, <1>1, <2>1, <2>2
       DEF IInv, Preflight, OneIntent, Between, Bound, SameItem, LockFree, JobCoherent, Progress,
           LeasesCoherent, ReceiptsCoherent, FailedMeansNoEffect, Effects
<1>2. CASE WriteAttempt
  <2>1. /\ job # NoJob /\ job.stage = "records" /\ job.intent \in intents
        /\ job.intent.work \in Items
    BY <1>0, <1>2, StageJob, JobType DEF WriteAttempt, AtStage, Stages, IInv, JobCoherent
  <2>2. PICK a \in Attempts :
           /\ job.intent.kind = "lifecycle"
           /\ files' = [files EXCEPT ![job.intent.work].att[a] = job.intent.next.att[a]]
    BY <1>2 DEF WriteAttempt, AttemptWritten, StaleAttempts
  <2>3. \A i \in intents : i = job.intent
    BY <2>1 DEF IInv, OneIntent
  <2>4. Between(job.intent)'
    <3>1. Between(job.intent)
      BY <2>1 DEF IInv, OneIntent
    <3>2. SameItem(files'[job.intent.work], files[job.intent.work])
      BY <1>0, <2>1, <2>2 DEF TypeOK, Snapshot, SameItem
    <3>3. \A b \in Attempts : files'[job.intent.work].att[b] =
             IF b = a THEN job.intent.next.att[b] ELSE files[job.intent.work].att[b]
      BY <1>0, <2>1, <2>2 DEF TypeOK, Snapshot
    <3>4. job'.intent = job.intent
      BY <1>2 DEF WriteAttempt
    <3>5. SameItem(files'[job.intent.work], job.intent.prior)
          \/ SameItem(files'[job.intent.work], job.intent.next)
      BY <3>1, <3>2 DEF Between, SameItem
    <3>6. \A b \in Attempts :
             files'[job.intent.work].att[b] \in {job.intent.prior.att[b], job.intent.next.att[b]}
      BY <3>1, <3>3 DEF Between
    <3>7. job.intent.kind # "mutation"
      BY <2>2
    <3> QED
      BY <3>4, <3>5, <3>6, <3>7, Zenon DEF Between
  <2> QED
    BY <1>0, <1>2, <2>1, <2>3, <2>4
       DEF IInv, WriteAttempt, OneIntent, Bound, LockFree, JobCoherent, Progress,
           LeasesCoherent, ReceiptsCoherent, FailedMeansNoEffect, Effects
<1>3. CASE WriteDecision
  <2>1. /\ job # NoJob /\ job \in Job /\ job.intent \in intents /\ Between(job.intent)
        /\ job.intent.work \in Items
    BY <1>0, <1>3, StageJob, JobType DEF WriteDecision, Stages, IInv, JobCoherent, OneIntent
  <2>2. /\ job'.intent = job.intent /\ job'.caller = job.caller /\ job'.stage = "item"
        /\ job' # NoJob
    BY <1>3, <2>1 DEF WriteDecision, Goto, Job, NoJob
  <2>3. files[job.intent.work].att = job.intent.next.att
    <3>1. CASE job.intent.kind = "mutation"
      BY <2>1, <3>1 DEF Between
    <3>2. CASE job.intent.kind = "lifecycle"
      BY <1>0, <1>3, <2>1, <3>2, IntentType DEF WriteDecision, StaleAttempts, TypeOK, Snapshot
    <3> QED
      BY <1>0, <2>1, <3>1, <3>2, IntentType DEF Kinds
  <2> QED
    BY <1>0, <1>3, <2>1, <2>2, <2>3
       DEF IInv, WriteDecision, OneIntent, Between, Bound, SameItem, LockFree, JobCoherent,
           Progress, LeasesCoherent, ReceiptsCoherent, FailedMeansNoEffect, Effects
<1>4. CASE WriteItem
  <2>1. /\ job # NoJob /\ job \in Job /\ job.intent \in intents /\ Between(job.intent)
        /\ job.intent.work \in Items /\ job.stage = "item"
    BY <1>0, <1>4, StageJob, JobType DEF WriteItem, AtStage, Stages, IInv, JobCoherent, OneIntent
  <2>2. /\ job'.intent = job.intent /\ job'.caller = job.caller /\ job'.stage = "receipt"
        /\ job' # NoJob
    BY <1>4, <2>1 DEF WriteItem, Goto, Job, NoJob
  <2>3. /\ SameItem(files'[job.intent.work], job.intent.next)
        /\ files'[job.intent.work].att = files[job.intent.work].att
    BY <1>0, <1>4, <2>1 DEF WriteItem, ItemWritten, TypeOK, Snapshot, SameItem
  <2>4. files[job.intent.work].att = job.intent.next.att
    BY <2>1 DEF IInv, JobCoherent, Progress
  <2>5. \A i \in intents : i = job.intent
    BY <2>1 DEF IInv, OneIntent
  <2>6. Between(job.intent)'
    BY <2>1, <2>2, <2>3, <2>4 DEF Between
  <2> QED
    BY <1>0, <1>4, <2>1, <2>2, <2>3, <2>4, <2>5, <2>6
       DEF IInv, WriteItem, OneIntent, Bound, LockFree, JobCoherent,
           Progress, LeasesCoherent, ReceiptsCoherent, FailedMeansNoEffect, Effects
<1>5. CASE CompleteReceipt
  <2>1. /\ job # NoJob /\ job \in Job /\ job.intent \in intents /\ job.stage = "receipt"
        /\ job.intent.req \in Requests \cup {NoRequest}
    BY <1>0, <1>5, StageJob, JobType DEF CompleteReceipt, AtStage, Stages, IInv, JobCoherent
  <2>2. /\ job'.intent = job.intent /\ job'.caller = job.caller /\ job'.stage = "clear"
        /\ job' # NoJob
    BY <1>5, <2>1 DEF CompleteReceipt, Goto, Job, NoJob
  <2>3. \A i \in intents : i = job.intent
    BY <2>1 DEF IInv, OneIntent
  <2>4. \A r \in Requests :
           /\ r # job.intent.req => receipt'[r] = receipt[r]
           /\ r = job.intent.req => /\ receipt'[r].status = "complete"
                                    /\ receipt'[r].effect = job.intent.id
                                    /\ receipt'[r].created = receipt[r].created
                                    /\ receipt[r].status # "none"
    BY <1>0, <1>5, <2>1, NoRequestAssumption
       DEF CompleteReceipt, Answered, Answerable, CanComplete, Completed, TypeOK, Receipt
  <2>5. OneIntent'
    BY <1>5, <2>1, <2>2, <2>3, <2>4
       DEF IInv, CompleteReceipt, OneIntent, Between, Bound, SameItem, LockFree
  <2>6. JobCoherent'
    BY <1>5, <2>1, <2>2, <2>3, <2>4 DEF IInv, CompleteReceipt, JobCoherent, Progress, SameItem
  <2>7. LeasesCoherent'
    BY <1>5 DEF IInv, CompleteReceipt, LeasesCoherent
  <2>8. ReceiptsCoherent' /\ FailedMeansNoEffect'
    BY <1>5, <2>3, <2>4
       DEF IInv, CompleteReceipt, ReceiptsCoherent, FailedMeansNoEffect, Effects
  <2> QED
    BY <1>0, <2>5, <2>6, <2>7, <2>8 DEF IInv
<1>6. CASE ClearIntent
  <2>1. /\ job # NoJob /\ job \in Job /\ job.intent \in intents /\ job.stage = "clear"
        /\ job.intent.req \in Requests \cup {NoRequest}
    BY <1>0, <1>6, StageJob, JobType DEF ClearIntent, AtStage, Stages, IInv, JobCoherent
  <2>2. job' = NoJob /\ intents' = {}
    BY <1>6, <2>1 DEF ClearIntent, Return, IInv, OneIntent
  <2>3. OneIntent' /\ JobCoherent'
    BY <1>6, <2>1, <2>2 DEF IInv, ClearIntent, OneIntent, JobCoherent
  <2>4. LeasesCoherent'
    <3>1. CASE job.caller = NoCaller
      BY <1>6, <3>1 DEF ClearIntent, Return, IInv, LeasesCoherent
    <3>2. CASE job.caller # NoCaller
      <4>1. /\ job.caller \in Callers /\ lease[job.caller].req = job.intent.req
            /\ lease[job.caller].req \in Requests /\ store = "open"
            /\ job.intent.id \in log[job.intent.req]
        BY <2>1, <3>2, NoRequestAssumption
           DEF IInv, JobCoherent, LeasesCoherent, OneIntent, Bound, Job
      <4>2. \A c \in Callers :
               /\ c # job.caller => lease'[c] = lease[c]
               /\ c = job.caller => /\ lease'[c].req = lease[c].req
                                    /\ lease'[c].effect = job.intent.id
        BY <1>0, <1>6, <3>2 DEF ClearIntent, Return, TypeOK, Lease
      <4> QED
        BY <1>6, <4>1, <4>2 DEF ClearIntent, IInv, LeasesCoherent
    <3> QED
      BY <3>1, <3>2
  <2>5. ReceiptsCoherent' /\ FailedMeansNoEffect'
    <3>1. \A i \in intents : i = job.intent
      BY <2>1 DEF IInv, OneIntent
    <3>2. job.intent.req # NoRequest => receipt[job.intent.req].status = "complete"
      BY <2>1 DEF IInv, JobCoherent, Progress
    <3> QED
      BY <1>6, <2>2, <3>1, <3>2, NoRequestAssumption
         DEF ClearIntent, IInv, ReceiptsCoherent, FailedMeansNoEffect, Effects
  <2> QED
    BY <1>0, <2>3, <2>4, <2>5 DEF IInv
<1>7. CASE CommitConflict
  BY <1>7, NoConflict
<1>8. ASSUME NEW i \in intents, ReplayIntent(i) PROVE IInv'
  <2>1. /\ job'.intent = i /\ job'.stage = "check" /\ job'.caller = NoCaller
        /\ job' # NoJob
    BY <1>8 DEF ReplayIntent, NoJob
  <2> QED
    BY <1>0, <1>8, <2>1
       DEF IInv, ReplayIntent, OneIntent, Between, Bound, SameItem, LockFree, JobCoherent, Progress,
           LeasesCoherent, ReceiptsCoherent, FailedMeansNoEffect, Effects
<1>9. ASSUME NEW r \in Requests, FailOrphan(r) PROVE IInv'
  <2>1. \A q \in Requests :
           /\ q # r => receipt'[q] = receipt[q]
           /\ q = r => receipt'[q].status = "failed" /\ receipt'[q].created = receipt[q].created
    BY <1>0, <1>9 DEF FailOrphan, Failed, TypeOK, Receipt
  <2> QED
    BY <1>0, <1>9, <2>1
       DEF IInv, FailOrphan, Replayed, OneIntent, Between, Bound, SameItem, LockFree, JobCoherent, Progress,
           LeasesCoherent, ReceiptsCoherent, FailedMeansNoEffect, Effects
<1>10. ASSUME NEW cutoff \in 0 .. clock, FinishOpen(cutoff) PROVE IInv'
  <2>1. \A r \in Requests :
           \/ receipt'[r] = receipt[r] /\ receipt[r].created > cutoff
           \/ receipt'[r] = NoReceipt
    BY <1>0, <1>10 DEF FinishOpen, TypeOK, Receipt
  <2>2. ReceiptsCoherent' /\ FailedMeansNoEffect'
    BY <1>0, <1>10, <2>1
       DEF IInv, FinishOpen, ReceiptsCoherent, FailedMeansNoEffect, Effects, NoReceipt, TypeOK
  <2>3. OneIntent' /\ JobCoherent' /\ LeasesCoherent'
    BY <1>10 DEF IInv, FinishOpen, Replayed, OneIntent, JobCoherent, LeasesCoherent
  <2> QED
    BY <1>0, <2>2, <2>3 DEF IInv
<1>11. ASSUME NEW c \in Callers, NEW w \in Items, NEW kind \in Kinds, NEW T \in SUBSET Attempts,
              NEW bump \in BOOLEAN,
              PersistIntent(c, w, kind, T, bump)
       PROVE  IInv'
  <2>0. PICK r, i : r = lease[c].req /\ i = IntentFor(w, kind, T, bump, lease[c].req)
    OBVIOUS
  <2>1. /\ LockFree /\ intents = {} /\ intents' = {i} /\ r \in Requests /\ r # NoRequest
        /\ receipt[r].status = "pending"
        /\ kind = "mutation" => T = {}
    BY <1>11, <2>0, NoRequestAssumption
       DEF PersistIntent, IInv, OneIntent, LeasesCoherent, Claims, Updates
  <2>2. /\ job' # NoJob /\ job'.intent = i /\ job'.stage = "check" /\ job'.caller = c
        /\ i.work = w /\ i.kind = kind /\ i.req = r /\ i.prior = files[w]
        /\ i.id = clock + 1
    BY <1>11, <2>0 DEF PersistIntent, NoJob, IntentFor, Successor
  <2>3. /\ clock' = clock + 1 /\ UNCHANGED <<files, receipt, store>>
        /\ \A q \in Requests : log'[q] = IF q = r THEN log[q] \cup {clock + 1} ELSE log[q]
    <3>1. clock' = clock + 1 /\ UNCHANGED <<files, receipt, store>> /\ log' = Logged(i)
      BY <1>11, <2>0 DEF PersistIntent
    <3>2. log' = [log EXCEPT ![r] = @ \cup {clock + 1}]
      BY <3>1, <2>1, <2>2 DEF Logged
    <3>3. log \in [Requests -> SUBSET Nat]
      BY <1>0 DEF TypeOK
    <3> QED
      BY <3>1, <3>2, <3>3
  <2>4. \A d \in Callers :
           /\ d # c => lease'[d] = lease[d]
           /\ d = c => lease'[d].phase = "commit" /\ lease'[d].req = r
    BY <1>0, <1>11, <2>0 DEF PersistIntent, TypeOK, Lease
  <2>5. Between(i)'
    <3>1. kind = "mutation" => i.next.att = files[w].att
      BY <1>0, <2>0, <2>1, DecisionKeepsAttempts
    <3>2. Between(i)' <=>
            /\ SameItem(files[w], i.prior) \/ SameItem(files[w], i.next)
            /\ \A a \in Attempts : files[w].att[a] \in {i.prior.att[a], i.next.att[a]}
            /\ kind = "mutation" => files[w].att = i.next.att
      BY <2>2, <2>3 DEF Between
    <3> QED
      BY <3>1, <3>2, <2>2 DEF SameItem
  <2>6. Bound(i)'
    BY <2>1, <2>2, <2>3 DEF Bound
  <2>7. OneIntent' /\ JobCoherent'
    BY <2>1, <2>2, <2>3, <2>4, <2>5, <2>6 DEF IInv, OneIntent, LockFree, JobCoherent, Progress
  <2>8. LeasesCoherent'
    <3>1. \A q \in Requests : log[q] \subseteq log'[q]
      BY <2>3
    <3>2. store' = "open"
      BY <2>1, <2>3 DEF LockFree
    <3>3. \A d \in Callers :
             /\ lease'[d].phase # "idle" => lease'[d].req \in Requests
             /\ lease'[d].phase = "committed" => lease'[d].effect \in log'[lease'[d].req]
      <4> TAKE d \in Callers
      <4>1. CASE d = c
        BY <2>1, <2>4, <4>1
      <4>2. CASE d # c
        BY <2>4, <3>1, <4>2 DEF IInv, LeasesCoherent
      <4> QED
        BY <4>1, <4>2
    <3> QED
      BY <3>2, <3>3 DEF LeasesCoherent
  <2>9. FailedMeansNoEffect'
    BY <2>1, <2>3 DEF IInv, FailedMeansNoEffect, Effects
  <2>10. ReceiptsCoherent'
    <3>1. /\ clock \in Nat /\ \A q \in Requests : receipt[q].created \in Nat
          /\ \A q \in Requests : \A e \in log[q] : e \in Nat
      BY <1>0 DEF TypeOK, Receipt
    <3>2. \A q \in Requests :
             /\ receipt[q].created <= clock + 1
             /\ \A e \in log'[q] : e <= clock + 1
      <4> TAKE q \in Requests
      <4>1. receipt[q].created <= clock /\ \A e \in log[q] : e <= clock
        BY DEF IInv, ReceiptsCoherent
      <4>2. receipt[q].created <= clock + 1 /\ \A e \in log[q] : e <= clock + 1
        BY <3>1, <4>1
      <4>3. \A e \in log'[q] : e \in log[q] \/ e = clock + 1
        BY <2>3
      <4>4. clock + 1 <= clock + 1
        BY <3>1
      <4> QED
        BY <4>2, <4>3, <4>4
    <3>3. ASSUME NEW q \in Requests, receipt'[q].status = "pending",
                 \A j \in intents' : j.req # q
          PROVE  Effects(q)' = {}
      <4>1. q # r
        BY <2>1, <2>2, <3>3
      <4> QED
        BY <2>1, <2>3, <3>3, <4>1 DEF IInv, ReceiptsCoherent, Effects
    <3> QED
      BY <2>3, <3>2, <3>3 DEF IInv, ReceiptsCoherent
  <2> QED
    BY <1>0, <2>7, <2>8, <2>9, <2>10 DEF IInv
<1>12. ASSUME NEW c \in Callers, Refuse(c) PROVE IInv'
  <2>1. \A d \in Callers : lease'[d] \in {lease[d], [lease[d] EXCEPT !.phase = "fail"]}
    BY <1>0, <1>12 DEF Refuse, TypeOK
  <2>2. intents = {} /\ job = NoJob
    BY <1>12 DEF IInv, Refuse, OneIntent, LockFree
  <2>3. LeasesCoherent'
    BY <1>0, <1>12, <2>1 DEF IInv, Refuse, LockFree, LeasesCoherent, Idle, TypeOK, Lease
  <2>4. ReceiptsCoherent' /\ FailedMeansNoEffect'
    BY <1>12 DEF IInv, Refuse, ReceiptsCoherent, FailedMeansNoEffect, Effects
  <2> QED
    BY <1>0, <1>12, <2>2, <2>3, <2>4 DEF IInv, Refuse, OneIntent, JobCoherent
<1>13. ASSUME NEW c \in Callers, Abandon(c) PROVE IInv'
  <2>1. /\ store = "open" /\ lease[c].phase = "perform"
        /\ lease' = [lease EXCEPT ![c].phase = "drop"]
        /\ UNCHANGED <<files, decisions, intents, receipt, store, job, closed, clock, log>>
    BY <1>13 DEF Abandon
  <2>2. /\ lease'[c].phase = "drop" /\ lease'[c].req = lease[c].req
        /\ \A d \in Callers \ {c} : lease'[d] = lease[d]
    BY <1>0, <2>1 DEF TypeOK, Lease
  <2>3. OneIntent' /\ ReceiptsCoherent' /\ FailedMeansNoEffect'
    BY <2>1 DEF IInv, OneIntent, Between, Bound, SameItem, LockFree, ReceiptsCoherent,
       FailedMeansNoEffect, Effects
  <2>4. JobCoherent'
    <3>1. job # NoJob /\ job.caller # NoCaller => job.caller \in Callers \ {c}
      BY <1>0, <2>1, JobType DEF IInv, JobCoherent
    <3> QED
      BY <2>1, <2>2, <3>1 DEF IInv, JobCoherent, Progress, Between, SameItem
  <2>5. LeasesCoherent'
    BY <2>1, <2>2 DEF IInv, LeasesCoherent
  <2> QED
    BY <1>0, <2>3, <2>4, <2>5 DEF IInv
<1>14. ASSUME NEW c \in Callers, Settle(c) PROVE IInv'
  <2>1. \A q \in Requests :
           \/ receipt'[q] = receipt[q]
           \/ /\ receipt'[q].status = "complete" /\ receipt'[q].created = receipt[q].created
              /\ receipt[q].status # "none"
    BY <1>0, <1>14 DEF Settle, CanComplete, Completed, TypeOK, Receipt
  <2>2. \A d \in Callers : lease'[d] \in {lease[d], Idle, [lease[d] EXCEPT !.phase = "fail"]}
    BY <1>0, <1>14 DEF Settle, TypeOK
  <2>3. LeasesCoherent'
    BY <1>0, <1>14, <2>2 DEF IInv, Settle, LockFree, LeasesCoherent, Idle, TypeOK, Lease
  <2>4. intents = {} /\ job = NoJob
    BY <1>14 DEF IInv, Settle, OneIntent, LockFree
  <2>5. ReceiptsCoherent' /\ FailedMeansNoEffect'
    BY <1>14, <2>1, <2>4 DEF IInv, Settle, ReceiptsCoherent, FailedMeansNoEffect, Effects
  <2> QED
    BY <1>0, <1>14, <2>3, <2>4, <2>5 DEF IInv, Settle, OneIntent, JobCoherent
<1>15. ASSUME NEW c \in Callers, FailClaim(c) PROVE IInv'
  <2>1. \A q \in Requests :
           \/ receipt'[q] = receipt[q]
           \/ /\ receipt'[q].status = "failed" /\ receipt'[q].created = receipt[q].created
              /\ receipt[q].status = "pending"
    BY <1>0, <1>15 DEF FailClaim, Failed, TypeOK, Receipt
  <2>2. \A d \in Callers : lease'[d] \in {lease[d], Idle, [lease[d] EXCEPT !.phase = "drop"]}
    BY <1>0, <1>15 DEF FailClaim, TypeOK
  <2>3. LeasesCoherent'
    BY <1>0, <1>15, <2>2 DEF IInv, FailClaim, LockFree, LeasesCoherent, Idle, TypeOK, Lease
  <2>4. intents = {} /\ job = NoJob
    BY <1>15 DEF IInv, FailClaim, OneIntent, LockFree
  <2>5. ReceiptsCoherent' /\ FailedMeansNoEffect'
    BY <1>15, <2>1, <2>4 DEF IInv, FailClaim, ReceiptsCoherent, FailedMeansNoEffect, Effects
  <2> QED
    BY <1>0, <1>15, <2>3, <2>4, <2>5 DEF IInv, FailClaim, OneIntent, JobCoherent
<1>16. ASSUME NEW c \in Callers, DropLease(c) PROVE IInv'
  <2>1. \A q \in Requests :
           \/ receipt'[q] = receipt[q]
           \/ /\ receipt'[q].status = "failed" /\ receipt'[q].created = receipt[q].created
              /\ receipt[q].status = "pending"
    BY <1>0, <1>16 DEF DropLease, Failed, TypeOK, Receipt
  <2>2. \A d \in Callers : lease'[d] \in {lease[d], Idle}
    BY <1>0, <1>16 DEF DropLease, TypeOK
  <2>3. LeasesCoherent'
    BY <1>0, <1>16, <2>2 DEF IInv, DropLease, LockFree, LeasesCoherent, Idle
  <2>4. intents = {} /\ job = NoJob
    BY <1>16 DEF IInv, DropLease, OneIntent, LockFree
  <2>5. ReceiptsCoherent' /\ FailedMeansNoEffect'
    BY <1>16, <2>1, <2>4 DEF IInv, DropLease, ReceiptsCoherent, FailedMeansNoEffect, Effects
  <2> QED
    BY <1>0, <1>16, <2>3, <2>4, <2>5 DEF IInv, DropLease, OneIntent, JobCoherent
<1>17. ASSUME NEW c \in Callers, EnterClaim(c) PROVE IInv'
  <2>1. /\ store = "open" /\ lease[c].phase = "perform"
        /\ lease' = [lease EXCEPT ![c].phase = "admitted"]
        /\ UNCHANGED <<files, decisions, intents, receipt, store, job, closed, clock, log>>
    BY <1>17 DEF EnterClaim
  <2>2. /\ lease'[c].phase = "admitted" /\ lease'[c].req = lease[c].req
        /\ \A d \in Callers \ {c} : lease'[d] = lease[d]
    BY <1>0, <2>1 DEF TypeOK, Lease
  <2>3. OneIntent' /\ ReceiptsCoherent' /\ FailedMeansNoEffect'
    BY <2>1 DEF IInv, OneIntent, Between, Bound, SameItem, LockFree, ReceiptsCoherent,
       FailedMeansNoEffect, Effects
  <2>4. JobCoherent'
    <3>1. job # NoJob /\ job.caller # NoCaller => job.caller \in Callers \ {c}
      BY <1>0, <2>1, JobType DEF IInv, JobCoherent
    <3> QED
      BY <2>1, <2>2, <3>1 DEF IInv, JobCoherent, Progress, Between, SameItem
  <2>5. LeasesCoherent'
    BY <2>1, <2>2 DEF IInv, LeasesCoherent
  <2> QED
    BY <1>0, <2>3, <2>4, <2>5 DEF IInv
<1>18. ASSUME NEW c \in Callers, NEW r \in Requests, Claim(c, r) PROVE IInv'
  <2>1. \A q \in Requests :
           \/ receipt'[q] = receipt[q] /\ q # r
           \/ receipt'[q] = NoReceipt /\ q # r
           \/ q = r /\ receipt'[q].status = "pending" /\ receipt'[q].created = clock + 1
    BY <1>0, <1>18 DEF Claim, PendingClaim, TypeOK
  <2>2. LeasesCoherent'
    BY <1>0, <1>18 DEF IInv, Claim, PendingClaim, LockFree, LeasesCoherent, TypeOK
  <2>3. intents = {} /\ job = NoJob
    BY <1>18 DEF IInv, Claim, PendingClaim, OneIntent, LockFree
  <2>4. ReceiptsCoherent' /\ FailedMeansNoEffect'
    BY <1>0, <1>18, <2>1, <2>3
       DEF IInv, Claim, PendingClaim, ReceiptsCoherent, FailedMeansNoEffect, Effects, NoReceipt,
           TypeOK, Receipt
  <2> QED
    BY <1>0, <1>18, <2>2, <2>3, <2>4 DEF IInv, Claim, PendingClaim, OneIntent, JobCoherent
<1>19. ASSUME NEW w \in Items, NEW kind \in Kinds, NEW T \in SUBSET Attempts, NEW bump \in BOOLEAN,
              PersistUnbound(w, kind, T, bump)
       PROVE  IInv'
  <2>0. PICK i : i = IntentFor(w, kind, T, bump, NoRequest)
    OBVIOUS
  <2>1. /\ LockFree /\ intents = {} /\ intents' = {i}
        /\ kind = "mutation" => T = {}
    BY <1>19, <2>0 DEF PersistUnbound, IInv, OneIntent, Updates
  <2>2. /\ job' # NoJob /\ job'.intent = i /\ job'.stage = "check" /\ job'.caller = NoCaller
        /\ i.work = w /\ i.kind = kind /\ i.req = NoRequest /\ i.prior = files[w]
    BY <1>19, <2>0 DEF PersistUnbound, NoJob, IntentFor, Successor
  <2>3. clock' = clock + 1 /\ UNCHANGED <<files, receipt, store, log, lease>>
    BY <1>19 DEF PersistUnbound
  <2>4. Between(i)'
    <3>1. kind = "mutation" => i.next.att = files[w].att
      BY <1>0, <2>0, <2>1, DecisionKeepsAttempts
    <3>2. Between(i)' <=>
            /\ SameItem(files[w], i.prior) \/ SameItem(files[w], i.next)
            /\ \A a \in Attempts : files[w].att[a] \in {i.prior.att[a], i.next.att[a]}
            /\ kind = "mutation" => files[w].att = i.next.att
      BY <2>2, <2>3 DEF Between
    <3> QED
      BY <3>1, <3>2, <2>2 DEF SameItem
  <2>5. OneIntent' /\ JobCoherent'
    BY <2>1, <2>2, <2>3, <2>4 DEF IInv, OneIntent, Bound, LockFree, JobCoherent, Progress
  <2>6. LeasesCoherent'
    BY <2>3 DEF IInv, LeasesCoherent
  <2>7. ReceiptsCoherent' /\ FailedMeansNoEffect'
    BY <1>0, <2>1, <2>2, <2>3, NoRequestAssumption
       DEF IInv, ReceiptsCoherent, FailedMeansNoEffect, Effects, TypeOK, Receipt
  <2> QED
    BY <1>0, <2>5, <2>6, <2>7 DEF IInv
<1>20. CASE Crash
  BY <1>0, <1>20
     DEF IInv, Crash, Idle, OneIntent, Between, Bound, SameItem, LockFree, JobCoherent, Progress,
           LeasesCoherent, ReceiptsCoherent, FailedMeansNoEffect, Effects
<1>21. CASE Reopen
  BY <1>0, <1>21
     DEF IInv, Reopen, OneIntent, Between, Bound, SameItem, LockFree, JobCoherent, Progress,
           LeasesCoherent, ReceiptsCoherent, FailedMeansNoEffect, Effects
<1>22. CASE UNCHANGED vars
  BY <1>0, <1>22
     DEF IInv, vars, OneIntent, Between, Bound, SameItem, LockFree, JobCoherent, Progress,
           LeasesCoherent, ReceiptsCoherent, FailedMeansNoEffect, Effects
<1>23. CASE CommitStep
  BY <1>1, <1>2, <1>3, <1>4, <1>5, <1>6, <1>7, <1>23 DEF CommitStep
<1>24. CASE OpenStep
  BY <1>8, <1>9, <1>10, <1>24 DEF OpenStep
<1>25. ASSUME NEW c \in Callers, CallStep(c) PROVE IInv'
  BY <1>11, <1>12, <1>13, <1>14, <1>15, <1>16, <1>17, <1>25 DEF CallStep
<1> QED
  BY <1>18, <1>19, <1>20, <1>21, <1>22, <1>23, <1>24, <1>25 DEF Next

\* A new home satisfies the inductive invariant.
LEMMA InitInv == Init => IInv
<1> SUFFICES ASSUME Init PROVE IInv
  OBVIOUS
<1>1. TypeOK
  <2>1. files \in [Items -> Snapshot]
    BY DEF Init, Snapshot
  <2>2. receipt \in [Requests -> Receipt]
    BY DEF Init, Receipt, NoReceipt
  <2>3. lease \in [Callers -> Lease]
    BY DEF Init, Lease, Phases, Idle
  <2>4. closed \in BOOLEAN
    BY DEF Init
  <2> QED
    BY <2>1, <2>2, <2>3, <2>4 DEF Init, TypeOK
<1>2. OneIntent /\ JobCoherent
  BY DEF Init, OneIntent, JobCoherent
<1>3. LeasesCoherent
  BY DEF Init, LeasesCoherent, Idle
<1>4. ReceiptsCoherent /\ FailedMeansNoEffect
  BY DEF Init, ReceiptsCoherent, FailedMeansNoEffect, Effects, NoReceipt
<1> QED
  BY <1>1, <1>2, <1>3, <1>4 DEF IInv

\* With crashes anywhere, the files always hold what the one intent allows.
THEOREM Recoverable == Spec => []IInv
<1>1. Init => IInv
  BY InitInv
<1>2. IInv /\ [Next]_vars => IInv'
  BY InvStep
<1> QED
  BY <1>1, <1>2, PTL DEF Spec

\* Every variable of the store keeps its type, for any number of items,
\* attempts, requests and calls.
THEOREM TypeCorrectness == Spec => []TypeOK
<1>1. IInv => TypeOK
  BY DEF IInv
<1> QED
  BY <1>1, Recoverable, PTL

\* OrchStore::open never refuses a ledger that a crash has left behind.
THEOREM CrashesAreRecoverable == Spec => []ReopenRecovers
<1>1. IInv => ReopenRecovers
  BY DEF IInv, JobCoherent, ReopenRecovers
<1> QED
  BY <1>1, Recoverable, PTL

\* A receipt that says "failed" was not preceded by an effect of its request:
\* neither a failing call nor fail_orphaned_idempotency_claims lies.
THEOREM FailuresAreHonest == Spec => []FailedMeansNoEffect
<1>1. IInv => FailedMeansNoEffect
  BY DEF IInv
<1> QED
  BY <1>1, Recoverable, PTL

-----------------------------------------------------------------------------
(* Contents are named by the clock, so none is from the future and the one  *)
(* that a commit brings is new.                                             *)

FilesDated ==
    \A w \in Items : files[w].stamp <= clock /\ \A a \in Attempts : files[w].att[a] <= clock

IntentsDated ==
    \A i \in intents :
       i.next.stamp <= clock /\ \A a \in Attempts : i.next.att[a] <= clock

Dated == FilesDated /\ IntentsDated

\* A step that writes no file and no intent leaves them dated.
LEMMA DatedStays ==
    ASSUME TypeOK, Dated, UNCHANGED files, intents' \subseteq intents,
           clock' \in Nat, clock' >= clock
    PROVE  Dated'
<1>1. files \in [Items -> Snapshot] /\ intents \subseteq Intent /\ clock \in Nat
  BY DEF TypeOK
<1>2. FilesDated'
  BY <1>1 DEF Dated, FilesDated, Snapshot
<1>3. IntentsDated'
  BY <1>1 DEF Dated, IntentsDated, Intent, Snapshot
<1> QED
  BY <1>2, <1>3 DEF Dated

\* An intent built from dated files is dated.
LEMMA NewIntentDated ==
    ASSUME TypeOK, Dated, NEW w \in Items, NEW kind \in Kinds, NEW T \in SUBSET Attempts,
           NEW bump \in BOOLEAN, NEW r, UNCHANGED files, clock' = clock + 1,
           intents' = intents \cup {IntentFor(w, kind, T, bump, r)}
    PROVE  Dated'
<1>1. files \in [Items -> Snapshot] /\ intents \subseteq Intent /\ clock \in Nat
  BY DEF TypeOK
<1>2. FilesDated'
  BY <1>1 DEF Dated, FilesDated, Snapshot
<1>3. ASSUME NEW i \in intents'
      PROVE  i.next.stamp <= clock' /\ \A a \in Attempts : i.next.att[a] <= clock'
  <2>1. CASE i \in intents
    BY <1>1, <2>1 DEF Dated, IntentsDated, Intent, Snapshot
  <2>2. CASE i = IntentFor(w, kind, T, bump, r)
    <3>1. /\ i.next.stamp \in {clock + 1, files[w].stamp}
          /\ \A a \in Attempts : i.next.att[a] \in {clock + 1, files[w].att[a]}
      BY <2>2 DEF IntentFor, Successor
    <3> QED
      BY <1>1, <3>1 DEF Dated, FilesDated, Snapshot
  <2> QED
    BY <2>1, <2>2
<1> QED
  BY <1>2, <1>3 DEF Dated, IntentsDated

\* Every step keeps the contents dated.
LEMMA DatedStep == IInv /\ Dated /\ [Next]_vars => Dated'
<1> SUFFICES ASSUME IInv, Dated, [Next]_vars PROVE Dated'
  OBVIOUS
<1>0. /\ TypeOK /\ files \in [Items -> Snapshot] /\ intents \subseteq Intent /\ clock \in Nat
      /\ clock + 1 \in Nat /\ clock >= clock /\ clock + 1 >= clock
  BY DEF IInv, TypeOK
<1>1. CASE Preflight \/ WriteDecision \/ CompleteReceipt \/ ClearIntent \/ CommitConflict
  BY <1>0, <1>1, DatedStays
     DEF Preflight, WriteDecision, CompleteReceipt, ClearIntent, CommitConflict
<1>2. CASE OpenStep \/ Crash \/ Reopen \/ UNCHANGED vars
  BY <1>0, <1>2, DatedStays DEF OpenStep, ReplayIntent, FailOrphan, FinishOpen, Crash, Reopen, vars
<1>3. ASSUME NEW c \in Callers,
             \/ EnterClaim(c) \/ Refuse(c) \/ Abandon(c) \/ Settle(c) \/ FailClaim(c) \/ DropLease(c)
      PROVE  Dated'
  BY <1>0, <1>3, DatedStays DEF EnterClaim, Refuse, Abandon, Settle, FailClaim, DropLease
<1>4. ASSUME NEW c \in Callers, NEW r \in Requests, Claim(c, r) PROVE Dated'
  BY <1>0, <1>4, DatedStays DEF Claim, PendingClaim
<1>5. CASE WriteAttempt
  <2>1. PICK i \in intents : i = job.intent
    BY <1>5, StageJob DEF WriteAttempt, Stages, IInv, JobCoherent
  <2>2. PICK a \in Attempts : files' = [files EXCEPT ![i.work].att[a] = i.next.att[a]]
    BY <1>5, <2>1 DEF WriteAttempt, AttemptWritten, StaleAttempts
  <2>3. UNCHANGED <<intents, clock>>
    BY <1>5 DEF WriteAttempt
  <2>4. \A w \in Items :
           /\ files'[w].stamp = files[w].stamp
           /\ \A b \in Attempts : files'[w].att[b] \in {files[w].att[b], i.next.att[b]}
    BY <1>0, <2>2 DEF Snapshot
  <2> QED
    BY <2>1, <2>3, <2>4 DEF Dated, FilesDated, IntentsDated
<1>6. CASE WriteItem
  <2>1. PICK i \in intents : i = job.intent
    BY <1>6, StageJob DEF WriteItem, Stages, IInv, JobCoherent
  <2>2. UNCHANGED <<intents, clock>> /\ ItemWritten(i)
    BY <1>6, <2>1 DEF WriteItem
  <2>3. \A w \in Items : /\ files'[w].stamp \in {files[w].stamp, i.next.stamp}
                         /\ files'[w].att = files[w].att
    BY <1>0, <2>2 DEF ItemWritten, Snapshot
  <2> QED
    BY <2>1, <2>2, <2>3 DEF Dated, FilesDated, IntentsDated
<1>7. ASSUME NEW c \in Callers, NEW w \in Items, NEW kind \in Kinds, NEW T \in SUBSET Attempts,
             NEW bump \in BOOLEAN, PersistIntent(c, w, kind, T, bump)
      PROVE  Dated'
  BY <1>0, <1>7, NewIntentDated DEF PersistIntent
<1>8. ASSUME NEW w \in Items, NEW kind \in Kinds, NEW T \in SUBSET Attempts,
             NEW bump \in BOOLEAN, PersistUnbound(w, kind, T, bump)
      PROVE  Dated'
  BY <1>0, <1>8, NewIntentDated DEF PersistUnbound
<1> QED
  BY <1>1, <1>2, <1>3, <1>4, <1>5, <1>6, <1>7, <1>8 DEF Next, CommitStep, CallStep

\* No content on disk is from the future, with crashes anywhere.
LEMMA ContentsDated == Spec => []Dated
<1>1. Init => Dated
  BY DEF Init, Dated, FilesDated, IntentsDated
<1> QED
  BY <1>1, DatedStep, Recoverable, PTL DEF Spec

-----------------------------------------------------------------------------
(* The store implements AtomicLedger.  Without an intent the committed      *)
(* ledger is what the files say; with one, the intent speaks for its item   *)
(* and for its request.                                                     *)

Overlay(i, F) == [w \in Items |-> IF w = i.work THEN i.next ELSE F[w]]
Credit(i, R) ==
    [r \in Requests |->
       IF r = i.req THEN [R[r] EXCEPT !.status = "complete", !.effect = i.id] ELSE R[r]]

\* Without an intent the files and receipts speak for themselves.
LEMMA MapNone ==
    ASSUME TypeOK, intents = {}
    PROVE  CommittedLedger = files /\ Outcomes = receipt
BY DEF TypeOK, CommittedLedger, Committed, Outcomes, Outcome

\* The same after a step.
LEMMA MapNoneNext ==
    ASSUME TypeOK', intents' = {}
    PROVE  CommittedLedger' = files' /\ Outcomes' = receipt'
BY DEF TypeOK, CommittedLedger, Committed, Outcomes, Outcome

\* The intent chosen from a singleton.
LEMMA ChooseOne ==
    ASSUME NEW i, NEW I, I = {i}
    PROVE  /\ \A w : (\E j \in I : j.work = w) <=> w = i.work
           /\ \A r : (\E j \in I : j.req = r) <=> r = i.req
           /\ (CHOOSE j \in I : j.work = i.work) = i
           /\ (CHOOSE j \in I : j.req = i.req) = i
OBVIOUS

\* With one intent the ledger and the outcomes are overlaid by it.
LEMMA MapOne ==
    ASSUME NEW i, intents = {i}
    PROVE  CommittedLedger = Overlay(i, files) /\ Outcomes = Credit(i, receipt)
<1>1. ASSUME NEW w PROVE Committed(w) = IF w = i.work THEN i.next ELSE files[w]
  BY ChooseOne DEF Committed
<1>2. ASSUME NEW r
      PROVE  Outcome(r) = IF r = i.req
                          THEN [receipt[r] EXCEPT !.status = "complete", !.effect = i.id]
                          ELSE receipt[r]
  BY ChooseOne DEF Outcome
<1> QED
  BY <1>1, <1>2 DEF CommittedLedger, Outcomes, Overlay, Credit

\* The same after a step.
LEMMA MapOneNext ==
    ASSUME NEW i, intents' = {i}
    PROVE  CommittedLedger' = Overlay(i, files') /\ Outcomes' = Credit(i, receipt')
<1>1. ASSUME NEW w PROVE Committed(w)' = IF w = i.work THEN i.next ELSE files'[w]
  BY ChooseOne DEF Committed
<1>2. ASSUME NEW r
      PROVE  Outcome(r)' = IF r = i.req
                           THEN [receipt'[r] EXCEPT !.status = "complete", !.effect = i.id]
                           ELSE receipt'[r]
  BY ChooseOne DEF Outcome
<1> QED
  BY <1>1, <1>2 DEF CommittedLedger, Outcomes, Overlay, Credit

\* A step that leaves the intents, the items other than the intent's and the
\* receipts other than the intent's alone is invisible.
LEMMA Hidden ==
    ASSUME TypeOK, TypeOK', NEW i, intents = {i}, intents' = {i}, log' = log,
           \A w \in Items : w # i.work => files'[w] = files[w],
           \A r \in Requests : Credit(i, receipt')[r] = Credit(i, receipt)[r]
    PROVE  UNCHANGED Atomic!vars
<1>1. Overlay(i, files') = Overlay(i, files)
  BY DEF Overlay
<1>2. Credit(i, receipt') = Credit(i, receipt)
  BY DEF Credit
<1> QED
  BY <1>1, <1>2, MapOne, MapOneNext DEF Atomic!vars

\* A snapshot is its item and its attempts.
LEMMA SameSnapshot ==
    ASSUME NEW s \in Snapshot, NEW t \in Snapshot, SameItem(s, t), s.att = t.att
    PROVE  s = t
<1>1. s = [rev |-> s.rev, stamp |-> s.stamp, dec |-> s.dec, att |-> s.att]
  BY DEF Snapshot
<1>2. t = [rev |-> t.rev, stamp |-> t.stamp, dec |-> t.dec, att |-> t.att]
  BY DEF Snapshot
<1> QED
  BY <1>1, <1>2 DEF SameItem

\* Giving a receipt the answer that it has changes nothing.
LEMMA SameAnswer ==
    ASSUME NEW x \in Receipt, NEW e, x.status = "complete", x.effect = e
    PROVE  [x EXCEPT !.status = "complete", !.effect = e] = x
<1>1. x = [status |-> x.status, effect |-> x.effect, created |-> x.created]
  BY DEF Receipt
<1> QED
  BY <1>1

\* A step that writes neither files nor intents nor receipts is invisible.
LEMMA SameStep ==
    ASSUME UNCHANGED <<files, intents, receipt, log>>
    PROVE  UNCHANGED Atomic!vars
BY DEF Atomic!vars, CommittedLedger, Committed, Outcomes, Outcome

\* Making an intent durable advances its item: by a content that none of its
\* files had, in the item, in attempts, or in both.
LEMMA IntentAdvances ==
    ASSUME TypeOK, Dated, NEW w \in Items, NEW kind \in Kinds, NEW T \in SUBSET Attempts,
           NEW bump \in BOOLEAN, NEW r, NEW i, i = IntentFor(w, kind, T, bump, r),
           Claims(w, kind, T, bump) \/ Updates(w, kind, T, bump),
           CommittedLedger = files, CommittedLedger' = Overlay(i, files)
    PROVE  Atomic!Advance(w, i.id) /\ i.id \in Atomic!Contents(CommittedLedger'[w])
<1> DEFINE now == clock + 1
<1>0. files \in [Items -> Snapshot] /\ files[w] \in Snapshot /\ clock \in Nat
  BY DEF TypeOK
<1>1. /\ i.work = w /\ i.id = now
      /\ i.next.rev = IF bump THEN files[w].rev + 1 ELSE files[w].rev
      /\ i.next.stamp = IF bump THEN now ELSE files[w].stamp
      /\ i.next.dec = IF kind = "mutation" THEN now ELSE files[w].dec
      /\ \A a \in Attempts : i.next.att[a] = IF a \in T THEN now ELSE files[w].att[a]
  BY DEF IntentFor, Successor
<1>2. CommittedLedger[w] = files[w] /\ CommittedLedger'[w] = i.next
  BY <1>1 DEF Overlay
<1>3. ~bump => kind # "mutation" /\ \E a \in Attempts : a \in T
  BY DEF Claims, Updates, AttemptOnly
<1>4. now \in Atomic!Contents(i.next)
  <2>1. CASE bump
    BY <1>1, <2>1 DEF Atomic!Contents
  <2>2. CASE ~bump
    BY <1>1, <1>3, <2>2 DEF Atomic!Contents
  <2> QED
    BY <2>1, <2>2
<1>5. now \notin Atomic!Contents(files[w])
  <2>1. files[w].stamp <= clock /\ \A a \in Attempts : files[w].att[a] <= clock
    BY DEF Dated, FilesDated
  <2>2. files[w].stamp \in Nat /\ \A a \in Attempts : files[w].att[a] \in Nat
    BY <1>0 DEF Snapshot
  <2>3. files[w].stamp # now /\ \A a \in Attempts : files[w].att[a] # now
    BY <1>0, <2>1, <2>2
  <2> QED
    BY <2>3 DEF Atomic!Contents
<1>6. \A a \in Attempts : i.next.att[a] \in {files[w].att[a], now}
  BY <1>1
<1>7. files[w].rev \in Nat
  BY <1>0 DEF Snapshot
<1>8. \/ /\ i.next.stamp = files[w].stamp /\ i.next.rev = files[w].rev
         /\ i.next.dec = files[w].dec
      \/ /\ i.next.stamp = now /\ i.next.rev > files[w].rev
         /\ i.next.dec \in {files[w].dec, now}
  BY <1>1, <1>3, <1>7
<1>9. \A v \in Items \ {w} : CommittedLedger'[v] = CommittedLedger[v]
  BY <1>1 DEF Overlay
<1> HIDE DEF now
<1> QED
  BY <1>1, <1>2, <1>4, <1>5, <1>6, <1>8, <1>9 DEF Atomic!Advance

\* Every step of the store is a step of AtomicLedger or invisible to it.
LEMMA RefineStep == IInv /\ IInv' /\ Dated /\ [Next]_vars => [Atomic!Next]_(Atomic!vars)
<1> SUFFICES ASSUME IInv, IInv', Dated, [Next]_vars, ~UNCHANGED Atomic!vars PROVE Atomic!Next
  BY DEF Atomic!vars
<1>0. TypeOK /\ TypeOK'
  BY DEF IInv
<1>1. CASE Preflight
  BY <1>1, SameStep DEF Preflight
<1>2. CASE WriteAttempt
  <2>1. PICK i \in intents : i = job.intent
    BY <1>2, StageJob DEF WriteAttempt, Stages, IInv, JobCoherent
  <2>2. PICK a \in Attempts : files' = [files EXCEPT ![i.work].att[a] = i.next.att[a]]
    BY <1>2, <2>1 DEF WriteAttempt, AttemptWritten, StaleAttempts
  <2>3. intents = {i} /\ intents' = {i} /\ log' = log /\ receipt' = receipt
    BY <1>2, <2>1 DEF WriteAttempt, IInv, OneIntent
  <2>4. \A w \in Items : w # i.work => files'[w] = files[w]
    BY <1>0, <2>2 DEF TypeOK
  <2>5. \A r \in Requests : Credit(i, receipt')[r] = Credit(i, receipt)[r]
    BY <2>3
  <2> QED
    BY <1>0, <2>3, <2>4, <2>5, Hidden
<1>3. CASE WriteDecision
  BY <1>3, SameStep DEF WriteDecision
<1>4. CASE WriteItem
  <2>1. PICK i \in intents : i = job.intent
    BY <1>4, StageJob DEF WriteItem, Stages, IInv, JobCoherent
  <2>3. intents = {i} /\ intents' = {i} /\ log' = log /\ receipt' = receipt
    BY <1>4, <2>1 DEF WriteItem, IInv, OneIntent
  <2>4. \A w \in Items : w # i.work => files'[w] = files[w]
    BY <1>0, <1>4, <2>1 DEF TypeOK, WriteItem, ItemWritten
  <2>5. \A r \in Requests : Credit(i, receipt')[r] = Credit(i, receipt)[r]
    BY <2>3
  <2> QED
    BY <1>0, <2>3, <2>4, <2>5, Hidden
<1>5. CASE CompleteReceipt
  <2>1. PICK i \in intents : i = job.intent
    BY <1>5, StageJob DEF CompleteReceipt, Stages, IInv, JobCoherent
  <2>2. i.req \in Requests \cup {NoRequest}
    BY <1>0, <2>1, IntentType
  <2>3. intents = {i} /\ intents' = {i} /\ log' = log /\ files' = files
    BY <1>5, <2>1 DEF CompleteReceipt, IInv, OneIntent
  <2>4. receipt' = IF i.req = NoRequest THEN receipt ELSE Completed(i.req, i.id)
    BY <1>5, <2>1 DEF CompleteReceipt, Answered
  <2>5. ASSUME NEW r \in Requests PROVE Credit(i, receipt')[r] = Credit(i, receipt)[r]
    <3>1. CASE r # i.req
      BY <1>0, <2>2, <2>4, <3>1 DEF Credit, Completed, TypeOK
    <3>2. CASE r = i.req
      BY <1>0, <2>2, <2>4, <3>2, NoRequestAssumption DEF Credit, Completed, TypeOK, Receipt
    <3> QED
      BY <3>1, <3>2
  <2> QED
    BY <1>0, <2>3, <2>5, Hidden
<1>6. CASE ClearIntent
  <2>1. PICK i \in intents : i = job.intent
    BY <1>6, StageJob DEF ClearIntent, Stages, IInv, JobCoherent
  <2>2. /\ i.work \in Items /\ i.next \in Snapshot /\ i.req \in Requests \cup {NoRequest}
    BY <1>0, <2>1, IntentType
  <2>3. intents = {i} /\ intents' = {} /\ UNCHANGED <<files, receipt, log>>
    BY <1>6, <2>1 DEF ClearIntent, IInv, OneIntent
  <2>4. Progress(i, "clear")
    BY <1>6, <2>1, StageJob DEF ClearIntent, AtStage, Stages, IInv, JobCoherent
  <2>5. files[i.work] = i.next
    <3>1. files[i.work] \in Snapshot
      BY <1>0, <2>2 DEF TypeOK
    <3> QED
      BY <2>2, <2>4, <3>1, SameSnapshot DEF Progress
  <2>6. Overlay(i, files) = files
    BY <1>0, <2>5 DEF Overlay, TypeOK
  <2>7. ASSUME NEW r \in Requests PROVE Credit(i, receipt)[r] = receipt[r]
    <3>1. CASE r # i.req
      BY <3>1 DEF Credit
    <3>2. CASE r = i.req
      <4>1. receipt[r].status = "complete" /\ receipt[r].effect = i.id
        BY <2>4, <3>2, NoRequestAssumption DEF Progress
      <4>2. receipt[r] \in Receipt
        BY <1>0 DEF TypeOK
      <4>3. [receipt[r] EXCEPT !.status = "complete", !.effect = i.id] = receipt[r]
        BY <4>1, <4>2, SameAnswer
      <4> QED
        BY <3>2, <4>3 DEF Credit
    <3> QED
      BY <3>1, <3>2
  <2>8. Credit(i, receipt) = receipt
    BY <1>0, <2>7 DEF Credit, TypeOK
  <2> QED
    BY <1>0, <2>3, <2>6, <2>8, MapOne, MapNoneNext DEF Atomic!vars
<1>7. CASE CommitConflict
  BY <1>7, NoConflict
<1>8. ASSUME NEW i \in intents, ReplayIntent(i) PROVE Atomic!Next
  BY <1>8, SameStep DEF ReplayIntent
<1>9. ASSUME NEW r \in Requests, FailOrphan(r) PROVE Atomic!Next
  <2>1. intents = {} /\ intents' = {} /\ UNCHANGED <<files, log>>
    BY <1>9 DEF FailOrphan, Replayed
  <2>2. /\ CommittedLedger = files /\ Outcomes = receipt
        /\ CommittedLedger' = files' /\ Outcomes' = receipt'
    BY <1>0, <2>1, MapNone, MapNoneNext
  <2>3. Atomic!Reject(r)
    BY <1>9, <2>1, <2>2 DEF FailOrphan, Failed, Atomic!Reject
  <2> QED
    BY <2>3 DEF Atomic!Next
<1>10. ASSUME NEW cutoff \in 0 .. clock, FinishOpen(cutoff) PROVE Atomic!Next
  <2>1. intents = {} /\ intents' = {} /\ UNCHANGED <<files, log>>
    BY <1>10 DEF FinishOpen, Replayed
  <2>2. /\ CommittedLedger = files /\ Outcomes = receipt
        /\ CommittedLedger' = files' /\ Outcomes' = receipt'
    BY <1>0, <2>1, MapNone, MapNoneNext
  <2>3. ASSUME NEW r \in Requests
        PROVE  \/ receipt'[r] = receipt[r]
               \/ receipt[r].status \in {"complete", "failed"} /\ receipt'[r] = NoReceipt
    BY <1>0, <1>10 DEF FinishOpen, TypeOK, Receipt, IInv, ReceiptsCoherent
  <2>4. Atomic!Forget
    BY <2>1, <2>2, <2>3 DEF Atomic!Forget, Atomic!Settled, Atomic!Unclaimed, NoReceipt
  <2> QED
    BY <2>4 DEF Atomic!Next
<1>11. ASSUME NEW c \in Callers, NEW w \in Items, NEW kind \in Kinds, NEW T \in SUBSET Attempts,
              NEW bump \in BOOLEAN,
              PersistIntent(c, w, kind, T, bump)
       PROVE  Atomic!Next
  <2>1. PICK r, i : r = lease[c].req /\ i = IntentFor(w, kind, T, bump, lease[c].req)
    OBVIOUS
  <2>2. /\ intents = {} /\ intents' = {i} /\ r \in Requests /\ receipt[r].status = "pending"
        /\ UNCHANGED <<files, receipt>>
    BY <1>11, <2>1 DEF PersistIntent, IInv, OneIntent, LeasesCoherent
  <2>3. /\ i.work = w /\ i.req = r
        /\ log' = [log EXCEPT ![r] = @ \cup {i.id}]
    BY <1>11, <2>1, <2>2, NoRequestAssumption DEF PersistIntent, IntentFor, Successor, Logged
  <2>4. /\ CommittedLedger = files /\ Outcomes = receipt
        /\ CommittedLedger' = Overlay(i, files) /\ Outcomes' = Credit(i, receipt)
    BY <1>0, <2>2, MapNone, MapOneNext
  <2>5. CommittedLedger'[w] = i.next
    BY <2>3, <2>4 DEF Overlay
  <2>6. Credit(i, receipt) = [receipt EXCEPT ![r].status = "complete", ![r].effect = i.id]
    BY <1>0, <2>2, <2>3 DEF Credit, TypeOK, Receipt
  <2>7. Atomic!Advance(w, i.id) /\ i.id \in Atomic!Contents(CommittedLedger'[w])
    BY <1>0, <1>11, <2>1, <2>4, IntentAdvances DEF PersistIntent
  <2>8. Atomic!Perform(w, r)
    BY <2>2, <2>3, <2>4, <2>5, <2>6, <2>7 DEF Atomic!Perform
  <2> QED
    BY <2>2, <2>8 DEF Atomic!Next
<1>12. ASSUME NEW c \in Callers, Refuse(c) PROVE Atomic!Next
  BY <1>12, SameStep DEF Refuse
<1>13. ASSUME NEW c \in Callers, Abandon(c) PROVE Atomic!Next
  BY <1>13, SameStep DEF Abandon
<1>14. ASSUME NEW c \in Callers, Settle(c) PROVE Atomic!Next
  <2>1. PICK r, e : r = lease[c].req /\ e = lease[c].effect
    OBVIOUS
  <2>2. /\ intents = {} /\ intents' = {} /\ UNCHANGED <<files, log>>
        /\ r \in Requests /\ e \in log[r]
    BY <1>14, <2>1 DEF Settle, IInv, OneIntent, LeasesCoherent
  <2>3. /\ CommittedLedger = files /\ Outcomes = receipt
        /\ CommittedLedger' = files' /\ Outcomes' = receipt'
    BY <1>0, <2>2, MapNone, MapNoneNext
  <2>4. receipt' # receipt
    BY <2>2, <2>3 DEF Atomic!vars
  <2>5. /\ CanComplete(r, e)
        /\ receipt' = [receipt EXCEPT ![r].status = "complete", ![r].effect = e]
    BY <1>14, <2>1, <2>4 DEF Settle, Completed
  <2>6. receipt[r].status = "pending"
    <3>1. SUFFICES ASSUME receipt[r].status = "complete" /\ receipt[r].effect = e PROVE FALSE
      BY <2>5 DEF CanComplete
    <3>2. receipt \in [Requests -> Receipt]
      BY <1>0 DEF TypeOK
    <3>3. [receipt[r] EXCEPT !.status = "complete", !.effect = e] = receipt[r]
      BY <2>2, <3>1, <3>2, SameAnswer
    <3>4. receipt' = [receipt EXCEPT ![r] = [receipt[r] EXCEPT !.status = "complete", !.effect = e]]
      BY <2>2, <2>5, <3>2
    <3> QED
      BY <2>2, <2>4, <3>2, <3>3, <3>4
  <2>7. Atomic!Recall(r)
    BY <2>2, <2>3, <2>5, <2>6 DEF Atomic!Recall
  <2> QED
    BY <2>2, <2>7 DEF Atomic!Next
<1>15. ASSUME NEW c \in Callers, FailClaim(c) PROVE Atomic!Next
  <2>1. PICK r : r = lease[c].req
    OBVIOUS
  <2>2. /\ intents = {} /\ intents' = {} /\ UNCHANGED <<files, log>> /\ r \in Requests
    BY <1>15, <2>1 DEF FailClaim, IInv, OneIntent, LeasesCoherent
  <2>3. /\ CommittedLedger = files /\ Outcomes = receipt
        /\ CommittedLedger' = files' /\ Outcomes' = receipt'
    BY <1>0, <2>2, MapNone, MapNoneNext
  <2>4. receipt' # receipt
    BY <2>2, <2>3 DEF Atomic!vars
  <2>5. Atomic!Reject(r)
    BY <1>15, <2>1, <2>2, <2>3, <2>4 DEF FailClaim, Failed, Atomic!Reject
  <2> QED
    BY <2>2, <2>5 DEF Atomic!Next
<1>16. ASSUME NEW c \in Callers, DropLease(c) PROVE Atomic!Next
  <2>1. PICK r : r = lease[c].req
    OBVIOUS
  <2>2. /\ intents = {} /\ intents' = {} /\ UNCHANGED <<files, log>> /\ r \in Requests
    BY <1>16, <2>1 DEF DropLease, IInv, OneIntent, LeasesCoherent
  <2>3. /\ CommittedLedger = files /\ Outcomes = receipt
        /\ CommittedLedger' = files' /\ Outcomes' = receipt'
    BY <1>0, <2>2, MapNone, MapNoneNext
  <2>4. receipt' # receipt
    BY <2>2, <2>3 DEF Atomic!vars
  <2>5. Atomic!Reject(r)
    BY <1>16, <2>1, <2>2, <2>3, <2>4 DEF DropLease, Failed, Atomic!Reject
  <2> QED
    BY <2>2, <2>5 DEF Atomic!Next
<1>17. ASSUME NEW c \in Callers, EnterClaim(c) PROVE Atomic!Next
  BY <1>17, SameStep DEF EnterClaim
<1>18. ASSUME NEW c \in Callers, NEW r \in Requests, Claim(c, r) PROVE Atomic!Next
  <2>1. /\ intents = {} /\ intents' = {} /\ UNCHANGED <<files, log>>
        /\ receipt[r].status = "none"
    BY <1>18 DEF Claim, PendingClaim, IInv, OneIntent
  <2>2. /\ CommittedLedger = files /\ Outcomes = receipt
        /\ CommittedLedger' = files' /\ Outcomes' = receipt'
    BY <1>0, <2>1, MapNone, MapNoneNext
  <2>3. PICK gone \in SUBSET Requests : gone = Displaced
    BY DEF Displaced, OldestTerminal
  <2>4. \A p \in gone : receipt[p].status \in {"complete", "failed"}
    BY <2>3 DEF Displaced, OldestTerminal, Terminal
  <2>5. \A p, q \in gone : p = q
    <3>1. SUFFICES ASSUME NEW p \in gone, NEW q \in gone PROVE p = q
      OBVIOUS
    <3>2. receipt[p].created <= receipt[q].created /\ receipt[q].created <= receipt[p].created
      BY <2>3, <2>4 DEF Displaced, OldestTerminal, Terminal
    <3>3. receipt[p].created \in Nat /\ receipt[q].created \in Nat
      BY <1>0, <2>3 DEF TypeOK, Receipt
    <3>4. receipt[p].created = receipt[q].created
      BY <3>2, <3>3
    <3> QED
      BY <2>4, <3>4 DEF IInv, ReceiptsCoherent
  <2>6. \A q \in Requests :
           receipt'[q] = IF q = r THEN [status |-> "pending", effect |-> 0, created |-> clock + 1]
                         ELSE IF q \in gone THEN NoReceipt ELSE receipt[q]
    BY <1>18, <2>3 DEF Claim, PendingClaim
  <2>7. gone \in SUBSET (Requests \ {r})
    BY <2>1, <2>4
  <2>8. Atomic!Admit(r)
    BY <2>1, <2>2, <2>4, <2>5, <2>6, <2>7
       DEF Atomic!Admit, Atomic!Settled, Atomic!Unclaimed, NoReceipt
  <2> QED
    BY <2>8 DEF Atomic!Next
<1>19. ASSUME NEW w \in Items, NEW kind \in Kinds, NEW T \in SUBSET Attempts, NEW bump \in BOOLEAN,
              PersistUnbound(w, kind, T, bump)
       PROVE  Atomic!Next
  <2>1. PICK i : i = IntentFor(w, kind, T, bump, NoRequest)
    OBVIOUS
  <2>2. intents = {} /\ intents' = {i} /\ UNCHANGED <<files, receipt, log>>
    BY <1>19, <2>1 DEF PersistUnbound, IInv, OneIntent
  <2>3. i.work = w /\ i.req = NoRequest
    BY <2>1 DEF IntentFor, Successor
  <2>4. /\ CommittedLedger = files /\ Outcomes = receipt
        /\ CommittedLedger' = Overlay(i, files) /\ Outcomes' = Credit(i, receipt)
    BY <1>0, <2>2, MapNone, MapOneNext
  <2>5. Credit(i, receipt) = receipt
    BY <1>0, <2>3, NoRequestAssumption DEF Credit, TypeOK
  <2>6. Atomic!Advance(w, i.id) /\ i.id \in Atomic!Contents(CommittedLedger'[w])
    BY <1>0, <1>19, <2>1, <2>4, IntentAdvances DEF PersistUnbound
  <2>7. Atomic!Maintain(w)
    BY <2>2, <2>4, <2>5, <2>6 DEF Atomic!Maintain
  <2> QED
    BY <2>7 DEF Atomic!Next
<1>20. CASE Crash
  BY <1>20, SameStep DEF Crash
<1>21. CASE Reopen
  BY <1>21, SameStep DEF Reopen
<1>22. CASE UNCHANGED vars
  BY <1>22, SameStep DEF vars
<1>23. CASE CommitStep
  BY <1>1, <1>2, <1>3, <1>4, <1>5, <1>6, <1>7, <1>23 DEF CommitStep
<1>24. CASE OpenStep
  BY <1>8, <1>9, <1>10, <1>24 DEF OpenStep
<1>25. ASSUME NEW c \in Callers, CallStep(c) PROVE Atomic!Next
  BY <1>11, <1>12, <1>13, <1>14, <1>15, <1>16, <1>17, <1>25 DEF CallStep
<1> QED
  BY <1>18, <1>19, <1>20, <1>21, <1>22, <1>23, <1>24, <1>25 DEF Next

\* Writing a mutation file by file, with a crash possible at every write and
\* replay in OrchStore::open, implements the ledger of AtomicLedger.
THEOREM CommitsAreAtomic == Spec => AtomicMutations
<1>1. Init => Atomic!Init
  <2> SUFFICES ASSUME Init PROVE Atomic!Init
    OBVIOUS
  <2>1. CommittedLedger = files /\ Outcomes = receipt
    BY InitInv, MapNone DEF Init, IInv
  <2> QED
    BY <2>1 DEF Init, Atomic!Init, Atomic!Unclaimed, NoReceipt
<1>2. IInv /\ IInv' /\ Dated /\ [Next]_vars => [Atomic!Next]_(Atomic!vars)
  BY RefineStep
<1> QED
  BY <1>1, <1>2, Recoverable, ContentsDated, PTL DEF Spec, AtomicMutations, Atomic!Spec
=================================================================================
