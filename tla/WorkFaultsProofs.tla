------------------------- MODULE WorkFaultsProofs -------------------------
(***************************************************************************)
(* Proofs about WorkIntents with a file system that fails: every write of  *)
(* a commit may report an error, before or after it took effect, intents   *)
(* pile up on disk, and the process may die anywhere.  A failing store may *)
(* then refuse to open, but it never lies: an answer describes a commit    *)
(* whose files are in place, an item names no missing decision, and no     *)
(* file goes back to an older content.                                     *)
(*                                                                         *)
(* The argument does not need to know which intents are left over.  An     *)
(* intent leads from an older content to a newer one, and the preflight    *)
(* has made sure that the files are on one of the two sides before any of  *)
(* them is written.                                                        *)
(***************************************************************************)
EXTENDS WorkIntentsProofs

\* The content an intent brings is the item's, or that of an attempt it writes.
Brings(i) ==
    i.next.stamp = i.id \/ (i.kind = "lifecycle" /\ \E a \in Attempts : i.next.att[a] = i.id)

\* Every intent on disk leads forward, is known to its request, and a lifecycle intent names
\* the decision its item already had.
Forward(i) ==
    /\ i.prior.stamp <= i.next.stamp /\ i.next.stamp <= clock
    /\ \A a \in Attempts : i.prior.att[a] <= i.next.att[a] /\ i.next.att[a] <= clock
    /\ Brings(i)
    /\ i.req # NoRequest => i.id \in log[i.req]
    /\ i.kind = "lifecycle" /\ i.next.dec # 0 => i.next.dec \in decisions

IntentsForward == \A i \in intents : Forward(i)

\* What the commit in progress has checked and written at each stage.
JobForward ==
    job # NoJob =>
        LET i == job.intent
            now == files[i.work] IN
        /\ i \in intents
        /\ job.stage \in {"records", "item"} => now.stamp \in {i.prior.stamp, i.next.stamp}
        /\ job.stage = "records" /\ i.kind = "lifecycle" =>
              \A a \in Attempts : now.att[a] \in {i.prior.att[a], i.next.att[a]}
        /\ job.stage \in {"item", "receipt", "clear"} /\ i.kind = "lifecycle" =>
              \A a \in Attempts : now.att[a] = i.next.att[a]
        /\ job.stage \in {"item", "receipt", "clear"} /\ i.kind = "mutation" =>
              i.next.dec \in decisions
        /\ job.stage \in {"receipt", "clear"} => now.stamp = i.next.stamp

\* A commit that was made for r, and whose content is on disk.
InPlace(r, e) == e \in log[r] /\ \E w \in Items : Reached(w, e)

\* The call that runs the commit waits for it; one that is back from it knows its effect.
CallersForward ==
    /\ \A c \in Callers :
          /\ lease[c].phase # "idle" => lease[c].req \in Requests
          /\ lease[c].phase = "committed" => InPlace(lease[c].req, lease[c].effect)
    /\ job # NoJob /\ job.caller # NoCaller =>
          lease[job.caller].phase = "commit" /\ lease[job.caller].req = job.intent.req

FInv ==
    /\ TypeOK /\ FilesDated /\ IntentsForward /\ JobForward /\ CallersForward
    /\ AnswersAreCommits /\ DecisionsPrecedeItems

-----------------------------------------------------------------------------
(* What a step does to the files, the decisions and the log *)

\* The records of the file a commit is writing.
LEMMA WritingJob ==
    ASSUME TypeOK, JobForward, NEW s \in Stages, AtStage(s)
    PROVE  /\ job # NoJob /\ job \in Job /\ job.stage = s
           /\ job.intent \in intents /\ job.intent \in Intent /\ job.intent.work \in Items
           /\ job.intent.kind \in Kinds /\ job.intent.req \in Requests \cup {NoRequest}
           /\ job.intent.next \in Snapshot /\ job.intent.prior \in Snapshot
           /\ files[job.intent.work] \in Snapshot /\ files \in [Items -> Snapshot]
           /\ job.caller \in Callers \cup {NoCaller}
BY StageJob, JobType DEF AtStage, JobForward, TypeOK, Intent, Job

\* Files are written by a commit only: an attempt first, the item later.
FileStep ==
    \/ UNCHANGED files
    \/ AtStage("records") /\ AttemptWritten(job.intent)
    \/ AtStage("item") /\ ItemWritten(job.intent)

\* No other step writes a file of an item.
LEMMA FilesChange ==
    ASSUME [FaultyNext]_vars
    PROVE  FileStep
<1>1. CASE CommitStep
  BY <1>1 DEF CommitStep, Preflight, WriteAttempt, WriteDecision, WriteItem, CompleteReceipt,
     ClearIntent, CommitConflict, FileStep
<1>2. CASE OpenStep \/ Crash \/ Reopen
  BY <1>2 DEF OpenStep, ReplayIntent, FailOrphan, FinishOpen, Crash, Reopen, FileStep
<1>3. CASE \E c \in Callers : CallStep(c)
  BY <1>3 DEF CallStep, PersistIntent, EnterClaim, Refuse, Abandon, Settle, FailClaim, DropLease,
     FileStep
<1>4. CASE \/ \E c \in Callers, r \in Requests : Claim(c, r)
           \/ \E w \in Items, kind \in Kinds, T \in SUBSET Attempts, bump \in BOOLEAN :
                 PersistUnbound(w, kind, T, bump)
  BY <1>4 DEF Claim, PendingClaim, PersistUnbound, FileStep
<1>5. CASE FaultStep
  BY <1>5 DEF FaultStep, ClaimError, PendingClaim, LeaseError, PersistError, WriteError, ClearError,
     FileStep
<1>6. CASE UNCHANGED vars
  BY <1>6 DEF vars, FileStep
<1> QED
  BY <1>1, <1>2, <1>3, <1>4, <1>5, <1>6 DEF FaultyNext, Next

\* The one item a commit writes, in the step that writes it: its contents move forward, and
\* the decision it then names exists.
LEMMA FilesForward ==
    ASSUME FInv, FileStep
    PROVE  \A w \in Items :
              /\ files'[w].stamp >= files[w].stamp /\ files'[w].stamp <= clock
              /\ \A a \in Attempts :
                    files'[w].att[a] >= files[w].att[a] /\ files'[w].att[a] <= clock
              /\ files'[w].dec # 0 => files'[w].dec \in decisions
<1>0. files \in [Items -> Snapshot] /\ FilesDated /\ DecisionsPrecedeItems /\ clock \in Nat
  BY DEF FInv, TypeOK
<1>1. CASE UNCHANGED files
  BY <1>0, <1>1 DEF FilesDated, DecisionsPrecedeItems, Snapshot
<1>2. CASE AtStage("records") /\ AttemptWritten(job.intent)
  <2> DEFINE i == job.intent
  <2>1. /\ i \in intents /\ i.work \in Items /\ i.next \in Snapshot /\ i.prior \in Snapshot
        /\ job # NoJob /\ job.stage = "records"
    BY <1>2, WritingJob DEF FInv, Stages
  <2>2. PICK a \in Attempts :
           i.kind = "lifecycle" /\ files' = [files EXCEPT ![i.work].att[a] = i.next.att[a]]
    BY <1>2 DEF AttemptWritten, StaleAttempts
  <2>3. /\ files[i.work].att[a] \in {i.prior.att[a], i.next.att[a]}
        /\ i.prior.att[a] <= i.next.att[a] /\ i.next.att[a] <= clock
    BY <2>1, <2>2 DEF FInv, JobForward, IntentsForward, Forward
  <2>4. i.next.att[a] \in Nat /\ i.prior.att[a] \in Nat /\ files[i.work].att[a] \in Nat
    BY <1>0, <2>1 DEF Snapshot
  <2> HIDE DEF i
  <2>5. ASSUME NEW w \in Items
        PROVE  /\ files'[w].stamp = files[w].stamp /\ files'[w].dec = files[w].dec
               /\ \A b \in Attempts : files'[w].att[b] =
                     IF w = i.work /\ b = a THEN i.next.att[a] ELSE files[w].att[b]
    BY <1>0, <2>1, <2>2 DEF Snapshot
  <2> QED
    BY <1>0, <2>3, <2>4, <2>5 DEF FilesDated, DecisionsPrecedeItems, Snapshot
<1>3. CASE AtStage("item") /\ ItemWritten(job.intent)
  <2> DEFINE i == job.intent
  <2>1. /\ i \in intents /\ i.work \in Items /\ i.next \in Snapshot /\ i.prior \in Snapshot
        /\ job # NoJob /\ job.stage = "item" /\ i.kind \in Kinds
    BY <1>3, WritingJob DEF FInv, Stages
  <2>2. files' = [files EXCEPT ![i.work].rev = i.next.rev, ![i.work].stamp = i.next.stamp,
                               ![i.work].dec = i.next.dec]
    BY <1>3 DEF ItemWritten
  <2>3. /\ files[i.work].stamp \in {i.prior.stamp, i.next.stamp}
        /\ i.prior.stamp <= i.next.stamp /\ i.next.stamp <= clock
        /\ i.next.dec # 0 => i.next.dec \in decisions
    BY <2>1 DEF FInv, JobForward, IntentsForward, Forward, Kinds
  <2>4. i.next.stamp \in Nat /\ i.prior.stamp \in Nat
    BY <2>1 DEF Snapshot
  <2> HIDE DEF i
  <2>5. ASSUME NEW w \in Items
        PROVE  /\ files'[w].att = files[w].att
               /\ w = i.work => files'[w].stamp = i.next.stamp /\ files'[w].dec = i.next.dec
               /\ w # i.work => files'[w].stamp = files[w].stamp /\ files'[w].dec = files[w].dec
    BY <1>0, <2>1, <2>2 DEF Snapshot
  <2> QED
    BY <1>0, <2>3, <2>4, <2>5 DEF FilesDated, DecisionsPrecedeItems, Snapshot
<1> QED
  BY <1>1, <1>2, <1>3 DEF FileStep

\* The clock, the decisions and the log only grow.
LEMMA Growth ==
    ASSUME TypeOK, [FaultyNext]_vars
    PROVE  /\ clock' \in Nat /\ clock' >= clock
           /\ decisions \subseteq decisions'
           /\ \A r \in Requests : log[r] \subseteq log'[r]
<1> USE DEF TypeOK
<1>1. CASE CommitStep
  BY <1>1 DEF CommitStep, Preflight, WriteAttempt, WriteDecision, WriteItem, CompleteReceipt,
     ClearIntent, CommitConflict, DecisionWritten
<1>2. CASE OpenStep \/ Crash \/ Reopen
  BY <1>2 DEF OpenStep, ReplayIntent, FailOrphan, FinishOpen, Crash, Reopen
<1>3. ASSUME NEW c \in Callers, NEW w \in Items, NEW kind \in Kinds, NEW T \in SUBSET Attempts,
             NEW bump \in BOOLEAN,
             PersistIntent(c, w, kind, T, bump)
      PROVE  /\ clock' \in Nat /\ clock' >= clock /\ decisions \subseteq decisions'
             /\ \A r \in Requests : log[r] \subseteq log'[r]
  <2>1. \A r \in Requests : log[r] \subseteq log'[r]
    BY <1>3 DEF PersistIntent, Logged
  <2> QED
    BY <1>3, <2>1 DEF PersistIntent
<1>4. ASSUME NEW c \in Callers,
             \/ EnterClaim(c) \/ Refuse(c) \/ Abandon(c) \/ Settle(c) \/ FailClaim(c) \/ DropLease(c)
      PROVE  UNCHANGED <<clock, decisions, log>>
  BY <1>4 DEF EnterClaim, Refuse, Abandon, Settle, FailClaim, DropLease
<1>5. CASE \/ \E c \in Callers, r \in Requests : Claim(c, r)
           \/ \E w \in Items, kind \in Kinds, T \in SUBSET Attempts, bump \in BOOLEAN :
                 PersistUnbound(w, kind, T, bump)
  BY <1>5 DEF Claim, PendingClaim, PersistUnbound
<1>6. CASE FaultStep
  BY <1>6 DEF FaultStep, ClaimError, PendingClaim, LeaseError, PersistError, WriteError, ClearError,
     DecisionWritten
<1>7. CASE UNCHANGED vars
  BY <1>7 DEF vars
<1>8. ASSUME NEW c \in Callers, CallStep(c)
      PROVE  /\ clock' \in Nat /\ clock' >= clock /\ decisions \subseteq decisions'
             /\ \A r \in Requests : log[r] \subseteq log'[r]
  <2>1. CASE UNCHANGED <<clock, decisions, log>>
    BY <2>1
  <2> QED
    BY <1>3, <1>4, <1>8, <2>1 DEF CallStep
<1> HIDE DEF TypeOK
<1> QED
  BY <1>1, <1>2, <1>5, <1>6, <1>7, <1>8 DEF FaultyNext, Next

-----------------------------------------------------------------------------
(* Types *)

\* How a commit that ends leaves its caller.
LEMMA ReturnType ==
    ASSUME TypeOK, job # NoJob, NEW phase \in Phases, Return(phase)
    PROVE  job' = NoJob /\ lease' \in [Callers -> Lease]
BY JobType DEF TypeOK, Return, Lease

\* A step of the failing file system keeps the types.
LEMMA FaultTypeStep == TypeOK /\ [FaultyNext]_vars => TypeOK'
<1> SUFFICES ASSUME TypeOK, [FaultyNext]_vars PROVE TypeOK'
  OBVIOUS
<1>1. CASE [Next]_vars
  BY <1>1, TypeStep
<1>2. ASSUME NEW r \in Requests, ClaimError(r) PROVE TypeOK'
  BY <1>2 DEF TypeOK, ClaimError, Fault, PendingClaim, Receipt, NoReceipt
<1>3. ASSUME NEW c \in Callers, LeaseError(c) PROVE TypeOK'
  BY <1>3 DEF TypeOK, LeaseError, Fault, Lease, Phases, Idle
<1>4. CASE PersistError
  <2>1. job # NoJob
    BY <1>4, StageJob DEF PersistError, Stages
  <2>2. job' = NoJob /\ lease' \in [Callers -> Lease]
    BY <1>4, <2>1, ReturnType DEF PersistError, Phases
  <2> QED
    BY <1>4, <2>2 DEF TypeOK, PersistError, Fault
<1>5. CASE WriteError
  <2>1. job # NoJob
    BY <1>5, StageJob DEF WriteError, Stages
  <2>2. job' = NoJob /\ lease' \in [Callers -> Lease]
    BY <1>5, <2>1, ReturnType DEF WriteError, Phases
  <2>3. files' \in [Items -> Snapshot]
    <3>1. CASE UNCHANGED files
      BY <3>1 DEF TypeOK
    <3>2. CASE AttemptWritten(job.intent)
      <4>1. PICK a \in Attempts :
               files' = [files EXCEPT ![job.intent.work].att[a] = job.intent.next.att[a]]
        BY <3>2 DEF AttemptWritten, StaleAttempts
      <4> QED
        BY <2>1, <4>1, JobType DEF Snapshot, TypeOK
    <3>3. CASE ItemWritten(job.intent)
      BY <2>1, <3>3, JobType DEF ItemWritten, Snapshot, TypeOK
    <3> QED
      BY <1>5, <3>1, <3>2, <3>3 DEF WriteError
  <2>4. decisions' \subseteq Nat
    BY <1>5, <2>1, JobType DEF WriteError, DecisionWritten, Snapshot, TypeOK
  <2>5. receipt' \in [Requests -> Receipt]
    BY <1>5, <2>1, JobType DEF WriteError, Answered, Completed, Receipt, TypeOK
  <2>6. closed' \in BOOLEAN
    BY <1>5 DEF WriteError
  <2>7. faults' \in Nat
    BY <1>5 DEF WriteError, Fault, TypeOK
  <2> QED
    BY <1>5, <2>2, <2>3, <2>4, <2>5, <2>6, <2>7 DEF TypeOK, WriteError
<1>6. CASE ClearError
  <2>1. job # NoJob
    BY <1>6, StageJob DEF ClearError, Stages
  <2>2. job' = NoJob /\ lease' \in [Callers -> Lease]
    BY <1>6, <2>1, ReturnType DEF ClearError, Phases
  <2>3. intents' \subseteq Intent
    BY <1>6 DEF ClearError, TypeOK
  <2> QED
    BY <1>6, <2>2, <2>3 DEF TypeOK, ClearError, Fault
<1> QED
  BY <1>1, <1>2, <1>3, <1>4, <1>5, <1>6 DEF FaultyNext, FaultStep

-----------------------------------------------------------------------------
(* The intents *)

\* Intents are removed, or one is made under the lock from what the files hold.
IntentStep ==
    \/ intents' \subseteq intents
    \/ \E w \in Items, kind \in Kinds, T \in SUBSET Attempts, bump \in BOOLEAN,
          r \in Requests \cup {NoRequest} :
          /\ intents' = intents \cup {IntentFor(w, kind, T, bump, r)}
          /\ clock' = clock + 1
          /\ log' = Logged(IntentFor(w, kind, T, bump, r))
          /\ Claims(w, kind, T, bump) \/ Updates(w, kind, T, bump)
          /\ UNCHANGED <<files, decisions>>

\* No other step changes the intents.
LEMMA IntentsChange ==
    ASSUME TypeOK, [FaultyNext]_vars
    PROVE  IntentStep
<1>1. CASE CommitStep
  BY <1>1 DEF CommitStep, Preflight, WriteAttempt, WriteDecision, WriteItem, CompleteReceipt,
     ClearIntent, CommitConflict, IntentStep
<1>2. CASE OpenStep \/ Crash \/ Reopen
  BY <1>2 DEF OpenStep, ReplayIntent, FailOrphan, FinishOpen, Crash, Reopen, IntentStep
<1>3. ASSUME NEW c \in Callers, NEW w \in Items, NEW kind \in Kinds, NEW T \in SUBSET Attempts,
             NEW bump \in BOOLEAN,
             PersistIntent(c, w, kind, T, bump)
      PROVE  IntentStep
  <2>1. lease[c].req \in Requests \cup {NoRequest}
    BY DEF TypeOK, Lease
  <2> QED
    BY <1>3, <2>1, Zenon DEF PersistIntent, IntentStep
<1>4. ASSUME NEW c \in Callers,
             \/ EnterClaim(c) \/ Refuse(c) \/ Abandon(c) \/ Settle(c) \/ FailClaim(c) \/ DropLease(c)
      PROVE  IntentStep
  BY <1>4 DEF EnterClaim, Refuse, Abandon, Settle, FailClaim, DropLease, IntentStep
<1>5. ASSUME NEW c \in Callers, NEW r \in Requests, Claim(c, r) PROVE IntentStep
  BY <1>5 DEF Claim, PendingClaim, IntentStep
<1>6. ASSUME NEW w \in Items, NEW kind \in Kinds, NEW T \in SUBSET Attempts, NEW bump \in BOOLEAN,
             PersistUnbound(w, kind, T, bump)
      PROVE  IntentStep
  <2>1. IntentFor(w, kind, T, bump, NoRequest).req = NoRequest
    BY DEF IntentFor
  <2>2. Logged(IntentFor(w, kind, T, bump, NoRequest)) = log
    BY <2>1 DEF Logged
  <2> QED
    BY <1>6, <2>2, Zenon DEF PersistUnbound, IntentStep
<1>7. CASE FaultStep
  BY <1>7 DEF FaultStep, ClaimError, PendingClaim, LeaseError, PersistError, WriteError, ClearError,
     IntentStep
<1>8. CASE UNCHANGED vars
  BY <1>8 DEF vars, IntentStep
<1> QED
  BY <1>1, <1>2, <1>3, <1>4, <1>5, <1>6, <1>7, <1>8 DEF FaultyNext, Next, CallStep

\* The parts of an intent made from what the files hold.
LEMMA NewIntent ==
    ASSUME TypeOK, FilesDated, DecisionsPrecedeItems, clock' = clock + 1, UNCHANGED decisions,
           NEW w \in Items, NEW kind \in Kinds, NEW T \in SUBSET Attempts, NEW bump \in BOOLEAN,
           NEW r \in Requests \cup {NoRequest}, log' = Logged(IntentFor(w, kind, T, bump, r)),
           Claims(w, kind, T, bump) \/ Updates(w, kind, T, bump),
           NEW i, i = IntentFor(w, kind, T, bump, r)
    PROVE  Forward(i)'
<1> DEFINE now == clock + 1
<1>0. files \in [Items -> Snapshot] /\ clock \in Nat
  BY DEF TypeOK
<1>1. /\ i.kind = kind /\ i.req = r /\ i.prior = files[w] /\ i.id = now
      /\ i.next.stamp = (IF bump THEN now ELSE files[w].stamp)
      /\ i.next.dec = (IF kind = "mutation" THEN now ELSE files[w].dec)
      /\ \A a \in Attempts : i.next.att[a] = IF a \in T THEN now ELSE files[w].att[a]
  BY DEF IntentFor, Successor
<1>2. r # NoRequest => i.id \in log'[r]
  BY <1>1 DEF TypeOK, Logged
<1>3. i.kind = "lifecycle" /\ i.next.dec # 0 => i.next.dec \in decisions'
  BY <1>1 DEF DecisionsPrecedeItems, Kinds
<1>4. /\ i.prior.stamp <= i.next.stamp /\ i.next.stamp <= clock'
      /\ \A a \in Attempts : i.prior.att[a] <= i.next.att[a] /\ i.next.att[a] <= clock'
  BY <1>0, <1>1 DEF FilesDated, Snapshot
<1>5. ~bump => kind = "lifecycle" /\ \E a \in Attempts : a \in T
  BY DEF Claims, Updates, AttemptOnly
<1>6. Brings(i)
  BY <1>1, <1>5 DEF Brings
<1> QED
  BY <1>1, <1>2, <1>3, <1>4, <1>6 DEF Forward, Brings

\* What is known of an intent stays known.
LEMMA ForwardStays ==
    ASSUME TypeOK, [FaultyNext]_vars, NEW i \in Intent, Forward(i)
    PROVE  Forward(i)'
<1>1. clock \in Nat /\ clock' \in Nat /\ clock <= clock' /\ decisions \subseteq decisions'
  BY Growth DEF TypeOK
<1>2. i.req # NoRequest => log[i.req] \subseteq log'[i.req]
  BY Growth DEF Intent
<1>3. /\ i.next.stamp \in Nat /\ i.prior.stamp \in Nat
      /\ \A a \in Attempts : i.next.att[a] \in Nat /\ i.prior.att[a] \in Nat
  BY DEF Intent, Snapshot
<1> QED
  BY <1>1, <1>2, <1>3 DEF Forward

\* The intents on disk keep leading forward.
LEMMA IntentsForwardStep ==
    ASSUME FInv, [FaultyNext]_vars
    PROVE  IntentsForward'
<1>1. TypeOK /\ FilesDated /\ DecisionsPrecedeItems /\ IntentsForward
  BY DEF FInv
<1>2. ASSUME NEW i \in intents PROVE Forward(i)'
  BY <1>1, ForwardStays DEF IntentsForward, TypeOK
<1>3. CASE intents' \subseteq intents
  BY <1>2, <1>3 DEF IntentsForward
<1>4. ASSUME NEW w \in Items, NEW kind \in Kinds, NEW T \in SUBSET Attempts, NEW bump \in BOOLEAN,
             NEW r \in Requests \cup {NoRequest},
             /\ intents' = intents \cup {IntentFor(w, kind, T, bump, r)}
             /\ clock' = clock + 1
             /\ log' = Logged(IntentFor(w, kind, T, bump, r))
             /\ Claims(w, kind, T, bump) \/ Updates(w, kind, T, bump)
             /\ UNCHANGED <<files, decisions>>
      PROVE  IntentsForward'
  <2> SUFFICES ASSUME NEW i \in intents' PROVE Forward(i)'
    BY DEF IntentsForward
  <2>1. CASE i \in intents
    BY <1>2, <2>1
  <2>2. CASE i = IntentFor(w, kind, T, bump, r)
    BY <1>1, <1>4, <2>2, NewIntent
  <2> QED
    BY <1>4, <2>1, <2>2
<1> QED
  BY <1>1, <1>3, <1>4, IntentsChange DEF IntentStep

-----------------------------------------------------------------------------
(* The commit in progress *)

\* A commit that has only moved to its first stage has nothing to show for it.
LEMMA FreshJob ==
    ASSUME NEW i \in intents', NEW c, job' = [intent |-> i, stage |-> "check", caller |-> c]
    PROVE  JobForward'
BY DEF JobForward

\* Steps outside the commit leave it alone, start it, or end it.
QuietJob ==
    \/ job' = NoJob
    \/ \E i \in intents', c \in Callers \cup {NoCaller} :
          job' = [intent |-> i, stage |-> "check", caller |-> c]
    \/ UNCHANGED <<job, files>> /\ intents \subseteq intents'

\* The steps of the commit itself are the others.
LEMMA JobsChange ==
    ASSUME TypeOK, [FaultyNext]_vars
    PROVE  QuietJob \/ Preflight \/ WriteAttempt \/ WriteDecision \/ WriteItem \/ CompleteReceipt
<1>1. CASE ClearIntent \/ CommitConflict
  BY <1>1 DEF ClearIntent, CommitConflict, Return, QuietJob
<1>2. CASE OpenStep
  BY <1>2 DEF OpenStep, ReplayIntent, FailOrphan, FinishOpen, QuietJob
<1>3. CASE Crash \/ Reopen
  BY <1>3 DEF Crash, Reopen, QuietJob
<1>4. ASSUME NEW c \in Callers, NEW w \in Items, NEW kind \in Kinds, NEW T \in SUBSET Attempts,
             NEW bump \in BOOLEAN,
             PersistIntent(c, w, kind, T, bump)
      PROVE  QuietJob
  BY <1>4, Zenon DEF PersistIntent, QuietJob
<1>5. ASSUME NEW c \in Callers,
             \/ EnterClaim(c) \/ Refuse(c) \/ Abandon(c) \/ Settle(c) \/ FailClaim(c) \/ DropLease(c)
      PROVE  QuietJob
  BY <1>5 DEF EnterClaim, Refuse, Abandon, Settle, FailClaim, DropLease, QuietJob
<1>6. ASSUME NEW c \in Callers, NEW r \in Requests, Claim(c, r) PROVE QuietJob
  BY <1>6 DEF Claim, PendingClaim, QuietJob
<1>7. ASSUME NEW w \in Items, NEW kind \in Kinds, NEW T \in SUBSET Attempts, NEW bump \in BOOLEAN,
             PersistUnbound(w, kind, T, bump)
      PROVE  QuietJob
  BY <1>7, Zenon DEF PersistUnbound, QuietJob
<1>8. CASE FaultStep
  BY <1>8 DEF FaultStep, ClaimError, PendingClaim, LeaseError, PersistError, WriteError, ClearError,
     Return, QuietJob
<1>9. CASE UNCHANGED vars
  BY <1>9 DEF vars, QuietJob
<1> QED
  BY <1>1, <1>2, <1>3, <1>4, <1>5, <1>6, <1>7, <1>8, <1>9
     DEF FaultyNext, Next, CallStep, CommitStep

\* The commit in progress keeps what it has checked and written.
LEMMA JobForwardStep ==
    ASSUME FInv, [FaultyNext]_vars
    PROVE  JobForward'
<1>0. TypeOK /\ JobForward /\ IntentsForward /\ decisions \subseteq decisions'
  BY Growth DEF FInv
<1> DEFINE i == job.intent
<1> DEFINE now == files[i.work]
<1>1. CASE QuietJob
  <2>1. CASE job' = NoJob
    BY <2>1 DEF JobForward
  <2>2. CASE \E j \in intents', c \in Callers \cup {NoCaller} :
                job' = [intent |-> j, stage |-> "check", caller |-> c]
    BY <2>2, FreshJob
  <2>3. CASE UNCHANGED <<job, files>> /\ intents \subseteq intents'
    BY <1>0, <2>3 DEF JobForward
  <2> QED
    BY <1>1, <2>1, <2>2, <2>3 DEF QuietJob
<1>2. CASE Preflight
  <2>1. /\ job \in Job /\ job # NoJob /\ i \in intents /\ i \in Intent /\ i.prior \in Snapshot
        /\ i.next \in Snapshot /\ now \in Snapshot
    BY <1>0, <1>2, WritingJob DEF Preflight, Stages
  <2>2. job' = [job EXCEPT !.stage = "records"] /\ UNCHANGED <<files, decisions, intents>>
    BY <1>2 DEF Preflight, Goto
  <2>3. job'.intent = i /\ job'.stage = "records"
    BY <2>1, <2>2 DEF Job
  <2>4. /\ now.stamp \in {i.prior.stamp, i.next.stamp}
        /\ i.kind = "lifecycle" =>
              \A a \in Attempts :
                 IF i.prior.att[a] # 0 THEN now.att[a] \in {i.prior.att[a], i.next.att[a]}
                 ELSE now.att[a] \in {0, i.next.att[a]}
    BY <1>2 DEF Preflight, Matches
  <2> HIDE DEF i
  <2>5. i.kind = "lifecycle" => \A a \in Attempts : now.att[a] \in {i.prior.att[a], i.next.att[a]}
    BY <2>4
  <2> QED
    BY <2>1, <2>2, <2>3, <2>4, <2>5 DEF JobForward
<1>3. CASE WriteAttempt
  <2>1. /\ job # NoJob /\ i \in intents /\ i.work \in Items /\ i.next \in Snapshot
        /\ job.stage = "records" /\ files \in [Items -> Snapshot]
    BY <1>0, <1>3, WritingJob DEF WriteAttempt, Stages
  <2>2. PICK a \in Attempts :
           i.kind = "lifecycle" /\ files' = [files EXCEPT ![i.work].att[a] = i.next.att[a]]
    BY <1>3 DEF WriteAttempt, AttemptWritten, StaleAttempts
  <2>3. UNCHANGED <<job, intents>>
    BY <1>3 DEF WriteAttempt
  <2>4. /\ now.stamp \in {i.prior.stamp, i.next.stamp}
        /\ \A b \in Attempts : now.att[b] \in {i.prior.att[b], i.next.att[b]}
    BY <1>0, <2>1, <2>2 DEF JobForward
  <2>5. /\ files'[i.work].stamp = now.stamp
        /\ \A b \in Attempts : files'[i.work].att[b] = IF b = a THEN i.next.att[b] ELSE now.att[b]
    BY <2>1, <2>2 DEF Snapshot
  <2> QED
    BY <2>1, <2>2, <2>3, <2>4, <2>5 DEF JobForward
<1>4. CASE WriteDecision
  <2>1. /\ job \in Job /\ job # NoJob /\ i \in intents /\ job.stage = "records"
    BY <1>0, <1>4, WritingJob DEF WriteDecision, Stages
  <2>2. /\ job' = [job EXCEPT !.stage = "item"] /\ UNCHANGED <<files, intents>>
        /\ i.kind = "mutation" => i.next.dec \in decisions'
        /\ i.kind = "lifecycle" => \A a \in Attempts : now.att[a] = i.next.att[a]
    BY <1>4 DEF WriteDecision, DecisionWritten, StaleAttempts, Goto
  <2>3. job'.intent = i /\ job'.stage = "item"
    BY <2>1, <2>2 DEF Job
  <2> QED
    BY <1>0, <2>1, <2>2, <2>3 DEF JobForward
<1>5. CASE WriteItem
  <2>1. /\ job \in Job /\ job # NoJob /\ i \in intents /\ job.stage = "item" /\ i.work \in Items
        /\ files \in [Items -> Snapshot]
    BY <1>0, <1>5, WritingJob DEF WriteItem, Stages
  <2>2. /\ job' = [job EXCEPT !.stage = "receipt"] /\ UNCHANGED <<decisions, intents>>
        /\ ItemWritten(i)
    BY <1>5 DEF WriteItem, Goto
  <2>3. job'.intent = i /\ job'.stage = "receipt"
    BY <2>1, <2>2 DEF Job
  <2>4. files'[i.work].stamp = i.next.stamp /\ files'[i.work].att = now.att
    BY <2>1, <2>2 DEF ItemWritten, Snapshot
  <2> QED
    BY <1>0, <2>1, <2>2, <2>3, <2>4 DEF JobForward
<1>6. CASE CompleteReceipt
  <2>1. /\ job \in Job /\ job # NoJob /\ i \in intents /\ job.stage = "receipt"
    BY <1>0, <1>6, WritingJob DEF CompleteReceipt, Stages
  <2>2. job' = [job EXCEPT !.stage = "clear"] /\ UNCHANGED <<files, decisions, intents>>
    BY <1>6 DEF CompleteReceipt, Goto
  <2>3. job'.intent = i /\ job'.stage = "clear"
    BY <2>1, <2>2 DEF Job
  <2> QED
    BY <1>0, <2>1, <2>2, <2>3 DEF JobForward
<1> QED
  BY <1>0, <1>1, <1>2, <1>3, <1>4, <1>5, <1>6, JobsChange

-----------------------------------------------------------------------------
(* The calls and their answers *)

\* A commit that is in place stays in place.
LEMMA InPlaceStays ==
    ASSUME FInv, [FaultyNext]_vars, NEW r \in Requests, NEW e \in Nat, InPlace(r, e)
    PROVE  InPlace(r, e)'
<1>1. e \in log'[r]
  BY Growth DEF FInv, InPlace
<1>2. PICK w \in Items : Reached(w, e)
  BY DEF InPlace
<1>3. /\ files[w].stamp \in Nat /\ files'[w].stamp \in Nat
      /\ \A a \in Attempts : files[w].att[a] \in Nat /\ files'[w].att[a] \in Nat
  BY FaultTypeStep DEF FInv, TypeOK, Snapshot
<1>4. /\ files'[w].stamp >= files[w].stamp
      /\ \A a \in Attempts : files'[w].att[a] >= files[w].att[a]
  BY FilesChange, FilesForward
<1>5. Reached(w, e)'
  <2>1. CASE files[w].stamp >= e
    BY <1>3, <1>4, <2>1 DEF Reached
  <2>2. CASE \E a \in Attempts : files[w].att[a] >= e
    BY <1>3, <1>4, <2>2 DEF Reached
  <2> QED
    BY <1>2, <2>1, <2>2 DEF Reached
<1> QED
  BY <1>1, <1>5 DEF InPlace

\* A commit that has written its files is in place.
LEMMA WrittenInPlace ==
    ASSUME FInv, job # NoJob, job.stage \in {"receipt", "clear"}, job.intent.req # NoRequest
    PROVE  InPlace(job.intent.req, job.intent.id)
<1> DEFINE i == job.intent
<1>1. /\ i \in intents /\ files[i.work].stamp = i.next.stamp
      /\ i.kind = "lifecycle" => \A a \in Attempts : files[i.work].att[a] = i.next.att[a]
  BY DEF FInv, JobForward
<1>2. i.work \in Items /\ i.id \in Nat /\ i.id >= i.id
  BY JobType DEF FInv
<1>3. i.id \in log[i.req] /\ Brings(i)
  BY <1>1 DEF FInv, IntentsForward, Forward
<1> HIDE DEF i
<1>4. Reached(i.work, i.id)
  BY <1>1, <1>2, <1>3 DEF Brings, Reached
<1> QED
  BY <1>2, <1>3, <1>4 DEF InPlace, i

\* What a step may do to one call, short of telling it that its commit was made.
Ordinary(d) ==
    \/ lease'[d] = lease[d]
    \/ lease'[d] = Idle
    \/ /\ lease'[d].phase \in {"perform", "admitted", "commit", "fail", "drop"}
       /\ lease'[d].req \in Requests

\* A call that a commit fails goes on to fail its receipt.
LEMMA ReturnFails ==
    ASSUME TypeOK, CallersForward, job # NoJob, Return("fail"), NEW d \in Callers
    PROVE  Ordinary(d)
<1>1. CASE job.caller # NoCaller /\ d = job.caller
  <2>1. lease[d].req \in Requests /\ lease \in [Callers -> Lease]
    BY <1>1 DEF CallersForward, TypeOK
  <2>2. lease'[d].phase = "fail" /\ lease'[d].req = lease[d].req
    BY <1>1, <2>1 DEF Return, Lease
  <2> QED
    BY <2>1, <2>2 DEF Ordinary
<1>2. CASE ~(job.caller # NoCaller /\ d = job.caller)
  BY <1>2 DEF Return, Ordinary, TypeOK
<1> QED
  BY <1>1, <1>2

\* Only the end of a commit tells its call that it was made.
LEMMA LeasesChange ==
    ASSUME TypeOK, CallersForward, [FaultyNext]_vars, NEW d \in Callers
    PROVE  Ordinary(d) \/ ClearIntent
<1>0. /\ lease \in [Callers -> Lease]
      /\ \A c \in Callers : lease[c].phase # "idle" => lease[c].req \in Requests
  BY DEF TypeOK, CallersForward
<1>1. CASE Preflight \/ WriteAttempt \/ WriteDecision \/ WriteItem \/ CompleteReceipt
  BY <1>1 DEF Preflight, WriteAttempt, WriteDecision, WriteItem, CompleteReceipt, Ordinary
<1>2. CASE CommitConflict
  <2>1. job # NoJob
    BY <1>2, StageJob DEF CommitConflict, Stages
  <2> QED
    BY <1>2, <2>1, ReturnFails DEF CommitConflict
<1>3. CASE OpenStep \/ Crash \/ Reopen
  BY <1>3 DEF OpenStep, ReplayIntent, FailOrphan, FinishOpen, Crash, Reopen, Ordinary
<1>4. ASSUME NEW c \in Callers, NEW w \in Items, NEW kind \in Kinds, NEW T \in SUBSET Attempts,
             NEW bump \in BOOLEAN,
             PersistIntent(c, w, kind, T, bump)
      PROVE  Ordinary(d)
  <2>1. lease' = [lease EXCEPT ![c].phase = "commit"] /\ lease[c].phase \in {"admitted", "perform"}
    BY <1>4 DEF PersistIntent
  <2> QED
    BY <1>0, <2>1 DEF Ordinary, Lease
<1>5. ASSUME NEW c \in Callers, EnterClaim(c) \/ Refuse(c) \/ Abandon(c) PROVE Ordinary(d)
  BY <1>0, <1>5 DEF EnterClaim, Refuse, Abandon, Ordinary, Lease
<1>6. ASSUME NEW c \in Callers, Settle(c) \/ FailClaim(c) \/ DropLease(c) PROVE Ordinary(d)
  BY <1>0, <1>6 DEF Settle, FailClaim, DropLease, Ordinary, Lease
<1>7. ASSUME NEW c \in Callers, NEW r \in Requests, Claim(c, r) PROVE Ordinary(d)
  BY <1>0, <1>7 DEF Claim, Ordinary
<1>8. ASSUME NEW w \in Items, NEW kind \in Kinds, NEW T \in SUBSET Attempts, NEW bump \in BOOLEAN,
             PersistUnbound(w, kind, T, bump)
      PROVE  Ordinary(d)
  BY <1>8 DEF PersistUnbound, Ordinary
<1>9. ASSUME NEW r \in Requests, ClaimError(r) PROVE Ordinary(d)
  BY <1>9 DEF ClaimError, Ordinary
<1>10. ASSUME NEW c \in Callers, LeaseError(c) PROVE Ordinary(d)
  BY <1>0, <1>10 DEF LeaseError, Ordinary, Lease
<1>11. CASE PersistError \/ WriteError \/ ClearError
  <2>1. job # NoJob
    BY <1>11, StageJob DEF PersistError, WriteError, ClearError, Stages
  <2> QED
    BY <1>11, <2>1, ReturnFails DEF PersistError, WriteError, ClearError
<1>12. CASE UNCHANGED vars
  BY <1>12 DEF vars, Ordinary
<1> QED
  BY <1>1, <1>2, <1>3, <1>4, <1>5, <1>6, <1>7, <1>8, <1>9, <1>10, <1>11, <1>12
     DEF FaultyNext, FaultStep, Next, CallStep, CommitStep

\* A call that is told of its commit finds it in place.
LEMMA CallersInPlace ==
    ASSUME FInv, [FaultyNext]_vars, NEW d \in Callers
    PROVE  /\ lease'[d].phase # "idle" => lease'[d].req \in Requests
           /\ lease'[d].phase = "committed" => InPlace(lease[d].req, lease[d].effect)'
<1>0. /\ TypeOK /\ TypeOK' /\ CallersForward
      /\ lease[d].phase # "idle" => lease[d].req \in Requests
      /\ lease[d].phase = "committed" => InPlace(lease[d].req, lease[d].effect)
      /\ lease[d].effect \in Nat /\ lease \in [Callers -> Lease]
  BY FaultTypeStep DEF FInv, CallersForward, TypeOK, Lease
<1>1. CASE lease'[d] = lease[d]
  <2>1. ASSUME lease[d].phase = "committed" PROVE InPlace(lease[d].req, lease[d].effect)'
    <3> DEFINE r == lease[d].req
    <3> DEFINE e == lease[d].effect
    <3>1. r \in Requests /\ e \in Nat /\ InPlace(r, e)
      BY <1>0, <2>1
    <3>2. /\ e \in log'[r]
          /\ \E w \in Items :
                files'[w].stamp >= e \/ \E a \in Attempts : files'[w].att[a] >= e
      <4> HIDE DEF r, e
      <4> QED
        BY <3>1, InPlaceStays DEF InPlace, Reached
    <3> QED
      BY <1>1, <3>2 DEF InPlace, Reached
  <2> QED
    BY <1>0, <1>1, <2>1 DEF InPlace
<1>2. CASE lease'[d] = Idle
  BY <1>2 DEF Idle
<1>3. CASE /\ lease'[d].phase \in {"perform", "admitted", "commit", "fail", "drop"}
           /\ lease'[d].req \in Requests
  BY <1>3
<1>4. CASE ClearIntent /\ ~Ordinary(d)
  <2>1. job # NoJob /\ job.stage = "clear" /\ UNCHANGED <<files, log>> /\ Return("committed")
    BY <1>4, StageJob DEF ClearIntent, AtStage, Stages
  <2>2. job.caller # NoCaller /\ d = job.caller
    BY <1>0, <1>4, <2>1, JobType DEF Return, Ordinary
  <2>3. lease'[d].req = lease[d].req /\ lease'[d].effect = job.intent.id
    BY <1>0, <2>1, <2>2 DEF Return, Lease
  <2>4. lease[d].req = job.intent.req /\ lease[d].req \in Requests
    BY <1>0, <2>1, <2>2 DEF CallersForward
  <2>5. InPlace(job.intent.req, job.intent.id)
    BY <2>1, <2>4, WrittenInPlace, NoRequestAssumption
  <2> QED
    BY <2>1, <2>3, <2>4, <2>5 DEF InPlace, Reached
<1> QED
  BY <1>0, <1>1, <1>2, <1>3, <1>4, LeasesChange DEF Ordinary

\* The call whose commit is running waits for it.
LEMMA WaitingCaller ==
    ASSUME FInv, [FaultyNext]_vars, job' # NoJob, job'.caller # NoCaller
    PROVE  lease'[job'.caller].phase = "commit" /\ lease'[job'.caller].req = job'.intent.req
<1>0. /\ TypeOK /\ lease \in [Callers -> Lease]
      /\ job # NoJob /\ job.caller # NoCaller =>
            lease[job.caller].phase = "commit" /\ lease[job.caller].req = job.intent.req
      /\ job # NoJob => job \in Job /\ job.caller \in Callers \cup {NoCaller}
  BY JobType DEF FInv, CallersForward, TypeOK
<1>1. CASE job' = job /\ lease' = lease
  BY <1>0, <1>1
<1>2. CASE Preflight \/ WriteDecision \/ WriteItem \/ CompleteReceipt
  <2>1. job # NoJob /\ lease' = lease
    BY <1>2, StageJob
       DEF Preflight, WriteDecision, WriteItem, CompleteReceipt, Stages
  <2>2. job'.caller = job.caller /\ job'.intent = job.intent
    BY <1>0, <1>2, <2>1 DEF Preflight, WriteDecision, WriteItem, CompleteReceipt, Goto, Job
  <2> QED
    BY <1>0, <2>1, <2>2
<1>3. CASE WriteAttempt
  BY <1>1, <1>3 DEF WriteAttempt
<1>4. CASE ClearIntent \/ CommitConflict \/ PersistError \/ WriteError \/ ClearError \/ Crash
  BY <1>4 DEF ClearIntent, CommitConflict, PersistError, WriteError, ClearError, Crash, Return
<1>5. CASE Reopen \/ OpenStep
  BY <1>1, <1>5 DEF Reopen, OpenStep, ReplayIntent, FailOrphan, FinishOpen
<1>6. ASSUME NEW c \in Callers, NEW w \in Items, NEW kind \in Kinds, NEW T \in SUBSET Attempts,
             NEW bump \in BOOLEAN,
             PersistIntent(c, w, kind, T, bump)
      PROVE  lease'[job'.caller].phase = "commit" /\ lease'[job'.caller].req = job'.intent.req
  <2>1. /\ job' = [intent |-> IntentFor(w, kind, T, bump, lease[c].req), stage |-> "check", caller |-> c]
        /\ lease' = [lease EXCEPT ![c].phase = "commit"]
    BY <1>6 DEF PersistIntent
  <2>2. job'.caller = c /\ job'.intent.req = lease[c].req
    BY <2>1 DEF IntentFor
  <2> QED
    BY <1>0, <2>1, <2>2 DEF Lease
<1>7. ASSUME NEW c \in Callers, EnterClaim(c) \/ Abandon(c)
      PROVE  lease'[job'.caller].phase = "commit" /\ lease'[job'.caller].req = job'.intent.req
  <2>1. job' = job /\ lease[c].phase = "perform" /\ \A d \in Callers \ {c} : lease'[d] = lease[d]
    BY <1>0, <1>7 DEF EnterClaim, Abandon
  <2>2. job.caller \in Callers \ {c}
    BY <1>0, <2>1
  <2> QED
    BY <1>0, <2>1, <2>2
<1>8. ASSUME NEW c \in Callers,
             \/ Refuse(c) \/ Settle(c) \/ FailClaim(c) \/ DropLease(c) \/ LeaseError(c)
             \/ \E r \in Requests : Claim(c, r)
      PROVE  FALSE
  BY <1>8 DEF Refuse, Settle, FailClaim, DropLease, LeaseError, Claim, PendingClaim, LockFree
<1>9. ASSUME NEW r \in Requests, ClaimError(r) PROVE FALSE
  BY <1>9 DEF ClaimError, PendingClaim, LockFree
<1>10. ASSUME NEW w \in Items, NEW kind \in Kinds, NEW T \in SUBSET Attempts, NEW bump \in BOOLEAN,
              PersistUnbound(w, kind, T, bump)
       PROVE  FALSE
  BY <1>10 DEF PersistUnbound
<1>11. CASE UNCHANGED vars
  BY <1>1, <1>11 DEF vars
<1> QED
  BY <1>2, <1>3, <1>4, <1>5, <1>6, <1>7, <1>8, <1>9, <1>10, <1>11
     DEF FaultyNext, FaultStep, Next, CallStep, CommitStep

\* A receipt is completed by the commit itself, or by the call that is back from it.
ByCommit(r) ==
    /\ AtStage("receipt") /\ job.intent.req = r
    /\ receipt'[r].effect = job.intent.id

ByCaller(r) ==
    \E c \in Callers :
       lease[c].phase = "committed" /\ lease[c].req = r /\ receipt'[r].effect = lease[c].effect

\* No other step leaves a completed receipt that was not there.
LEMMA AnswersChange ==
    ASSUME TypeOK, [FaultyNext]_vars, NEW r \in Requests, receipt'[r].status = "complete"
    PROVE  receipt'[r] = receipt[r] \/ ByCommit(r) \/ ByCaller(r)
<1>0. receipt \in [Requests -> Receipt] /\ lease \in [Callers -> Lease]
  BY DEF TypeOK
<1>1. ASSUME AtStage("receipt"), Answered(job.intent)
      PROVE  receipt'[r] = receipt[r] \/ ByCommit(r)
  BY <1>0, <1>1 DEF Answered, Completed, Receipt, ByCommit
<1>2. CASE Preflight \/ WriteAttempt \/ WriteDecision \/ WriteItem \/ ClearIntent \/ CommitConflict
  BY <1>2 DEF Preflight, WriteAttempt, WriteDecision, WriteItem, ClearIntent, CommitConflict
<1>3. CASE CompleteReceipt
  BY <1>1, <1>3 DEF CompleteReceipt
<1>4. CASE Crash \/ Reopen \/ \E i \in intents : ReplayIntent(i)
  BY <1>4 DEF Crash, Reopen, ReplayIntent
<1>5. ASSUME NEW q \in Requests, FailOrphan(q) PROVE receipt'[r] = receipt[r]
  BY <1>0, <1>5 DEF FailOrphan, Failed, Receipt
<1>6. ASSUME NEW cutoff \in 0 .. clock, FinishOpen(cutoff) PROVE receipt'[r] = receipt[r]
  BY <1>0, <1>6 DEF FinishOpen, NoReceipt
<1>7. ASSUME NEW c \in Callers, Settle(c)
      PROVE  receipt'[r] = receipt[r] \/ ByCaller(r)
  <2>1. CASE receipt' = Completed(lease[c].req, lease[c].effect)
    <3>1. CASE r = lease[c].req
      <4>1. receipt'[r].effect = lease[c].effect
        BY <1>0, <2>1, <3>1 DEF Completed, Receipt
      <4> QED
        BY <1>7, <3>1, <4>1 DEF ByCaller, Settle
    <3>2. CASE r # lease[c].req
      BY <1>0, <2>1, <3>2 DEF Completed, Receipt
    <3> QED
      BY <3>1, <3>2
  <2> QED
    BY <1>7, <2>1 DEF Settle
<1>8. ASSUME NEW c \in Callers, FailClaim(c) \/ DropLease(c) PROVE receipt'[r] = receipt[r]
  BY <1>0, <1>8 DEF FailClaim, DropLease, Failed, Receipt
<1>9. ASSUME NEW c \in Callers, EnterClaim(c) \/ Refuse(c) \/ Abandon(c) \/ LeaseError(c)
      PROVE  receipt'[r] = receipt[r]
  BY <1>9 DEF EnterClaim, Refuse, Abandon, LeaseError
<1>10. ASSUME NEW c \in Callers, NEW w \in Items, NEW kind \in Kinds, NEW T \in SUBSET Attempts,
              NEW bump \in BOOLEAN,
              PersistIntent(c, w, kind, T, bump)
       PROVE  receipt'[r] = receipt[r]
  BY <1>10 DEF PersistIntent
<1>11. ASSUME NEW w \in Items, NEW kind \in Kinds, NEW T \in SUBSET Attempts, NEW bump \in BOOLEAN,
              PersistUnbound(w, kind, T, bump)
       PROVE  receipt'[r] = receipt[r]
  BY <1>11 DEF PersistUnbound
<1>12. ASSUME NEW q \in Requests, PendingClaim(q) PROVE receipt'[r] = receipt[r]
  BY <1>0, <1>12 DEF PendingClaim, NoReceipt
<1>13. CASE PersistError \/ ClearError
  BY <1>13 DEF PersistError, ClearError
<1>14. CASE WriteError
  BY <1>1, <1>14 DEF WriteError
<1>15. CASE UNCHANGED vars
  BY <1>15 DEF vars
<1> QED
  BY <1>2, <1>3, <1>4, <1>5, <1>6, <1>7, <1>8, <1>9, <1>10, <1>11, <1>12, <1>13, <1>14, <1>15
     DEF FaultyNext, FaultStep, Next, CallStep, CommitStep, OpenStep, Claim, ClaimError

\* Every answer, old or new, describes a commit that is in place.
LEMMA AnswersStep ==
    ASSUME FInv, [FaultyNext]_vars
    PROVE  AnswersAreCommits'
<1> SUFFICES ASSUME NEW r \in Requests, receipt'[r].status = "complete"
             PROVE  /\ receipt'[r].effect \in log'[r]
                    /\ \E w \in Items : Reached(w, receipt[r].effect)'
  BY DEF AnswersAreCommits
<1>0. TypeOK /\ receipt \in [Requests -> Receipt] /\ lease \in [Callers -> Lease]
  BY DEF FInv, TypeOK
<1>1. \E e \in Nat : receipt'[r].effect = e /\ InPlace(r, e)
  <2>1. CASE receipt'[r] = receipt[r]
    BY <1>0, <2>1 DEF FInv, AnswersAreCommits, InPlace, Receipt
  <2>2. CASE ByCommit(r)
    <3>1. job # NoJob /\ job.stage = "receipt" /\ job.intent.req = r
      BY <2>2, StageJob DEF ByCommit, AtStage, Stages
    <3>2. InPlace(r, job.intent.id) /\ job.intent.id \in Nat
      BY <1>0, <3>1, WrittenInPlace, JobType, NoRequestAssumption
    <3> QED
      BY <2>2, <3>2 DEF ByCommit
  <2>3. CASE ByCaller(r)
    BY <1>0, <2>3 DEF ByCaller, FInv, CallersForward, Lease
  <2> QED
    BY <1>0, <2>1, <2>2, <2>3, AnswersChange
<1>2. PICK e \in Nat : receipt'[r].effect = e /\ InPlace(r, e)
  BY <1>1
<1>3. InPlace(r, e)'
  BY <1>2, InPlaceStays
<1> QED
  BY <1>2, <1>3 DEF InPlace

-----------------------------------------------------------------------------
\* Every step, failing or not, keeps the inductive invariant.
LEMMA FaultStepInv == FInv /\ [FaultyNext]_vars => FInv'
<1> SUFFICES ASSUME FInv, [FaultyNext]_vars PROVE FInv'
  OBVIOUS
<1>1. TypeOK /\ TypeOK'
  BY FaultTypeStep DEF FInv
<1>2. /\ clock \in Nat /\ clock' \in Nat /\ clock' >= clock /\ decisions \subseteq decisions'
      /\ files' \in [Items -> Snapshot]
  BY <1>1, Growth DEF TypeOK
<1>3. \A w \in Items :
         /\ files'[w].stamp <= clock /\ files'[w].stamp \in Nat
         /\ \A a \in Attempts : files'[w].att[a] <= clock /\ files'[w].att[a] \in Nat
         /\ files'[w].dec # 0 => files'[w].dec \in decisions
  BY <1>2, FilesChange, FilesForward DEF Snapshot
<1>4. FilesDated'
  BY <1>2, <1>3 DEF FilesDated
<1>5. DecisionsPrecedeItems'
  BY <1>2, <1>3 DEF DecisionsPrecedeItems
<1>6. CallersForward'
  BY CallersInPlace, WaitingCaller DEF CallersForward
<1> QED
  BY <1>1, <1>4, <1>5, <1>6, IntentsForwardStep, JobForwardStep, AnswersStep DEF FInv

\* An empty home satisfies it.
LEMMA FaultInit == Init => FInv
<1> SUFFICES ASSUME Init PROVE FInv
  OBVIOUS
<1>1. TypeOK
  BY InitInv DEF IInv
<1>2. FilesDated /\ IntentsForward /\ JobForward
  BY DEF Init, FilesDated, IntentsForward, JobForward
<1>3. CallersForward
  BY DEF Init, CallersForward, Idle
<1>4. AnswersAreCommits /\ DecisionsPrecedeItems
  BY DEF Init, AnswersAreCommits, DecisionsPrecedeItems, NoReceipt
<1> QED
  BY <1>1, <1>2, <1>3, <1>4 DEF FInv

\* The inductive invariant holds with file system errors and crashes anywhere: every intent
\* leads forward, and the commit in progress has checked what it is about to overwrite.
THEOREM FaultsAreContained == FaultySpec => []FInv
BY FaultInit, FaultStepInv, PTL DEF FaultySpec

\* An answer kept for a request describes a commit made for it whose item is on disk, however the
\* file system fails and whenever the process dies: complete_bound_request_unlocked runs after
\* the files are written, and a lease completes its receipt only with the effect it was told of.
THEOREM AnswersStayTrue == FaultySpec => []AnswersAreCommits
<1>1. FInv => AnswersAreCommits
  BY DEF FInv
<1> QED
  BY <1>1, FaultsAreContained, PTL

\* No item on disk names a decision whose file is missing, with failing writes and crashes
\* anywhere (commit_work_mutation_intent_unlocked writes the decision before the item).
THEOREM DecisionsComeFirst == FaultySpec => []DecisionsPrecedeItems
<1>1. FInv => DecisionsPrecedeItems
  BY DEF FInv
<1> QED
  BY <1>1, FaultsAreContained, PTL

\* No step puts an older content of an item or an attempt in the place of a newer one, though
\* intents of failed commits pile up and are replayed at a later open: the preflight refuses a
\* file that is on neither side of the intent.
THEOREM FilesMoveForward == FaultySpec => NothingRollsBack
<1> DEFINE Step == \A w \in Items :
                      /\ files'[w].stamp >= files[w].stamp
                      /\ \A a \in Attempts : files'[w].att[a] >= files[w].att[a]
<1>1. FInv /\ [FaultyNext]_vars => [Step]_vars
  BY FilesChange, FilesForward
<1> QED
  BY <1>1, FaultsAreContained, PTL DEF FaultySpec, NothingRollsBack

=============================================================================
