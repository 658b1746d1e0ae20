--------------------------- MODULE HostAuthority ---------------------------
(***************************************************************************)
(* The host authority: who may make one physical send to a provider, and   *)
(* what the host may later say became of it.                               *)
(*                                                                         *)
(* A capability is sealed, leases are minted from it, and a lease is spent *)
(* on one attempt, which is admitted to the wire, dispatched and settled.  *)
(* The state of the attempts is one file, replaced atomically.  The audit  *)
(* log is another, and every lifecycle operation touches both, one after   *)
(* the other, under the in-process mutex attempt_lifecycle: `op` is the    *)
(* operation between its two writes.  Rotations, minting and crashes do    *)
(* not wait for that mutex.  After a crash the log is replayed over the    *)
(* state, and what was in flight is classified before the host serves.     *)
(*                                                                         *)
(* One principal.  Expiry and a moved observation only refuse a lease, and *)
(* a refusal changes nothing: the step is then not taken.                  *)
(***************************************************************************)
EXTENDS Naturals, FiniteSets

CONSTANTS
    Attempts,    \* attempt identities
    Requests,    \* request digests
    Caps,        \* capability identities
    MaxChanges,  \* bound on the openings and the rotations
    MaxGrants    \* bound on the reconciliation grants in memory

ASSUME BoundsAssumption == MaxChanges \in Nat /\ MaxGrants \in Nat

VARIABLES
    host,        \* "down", "recovering" (opened, not serving), "up"
    epoch,       \* control_epoch
    opened,      \* the control epoch of the last opening
    gen,         \* capability_generation and policy_revision
    caps,        \* the sealed capabilities
    leases,      \* the leases callers hold, by capability and request
    attempts,    \* the attempt records of authority.json
    audit,       \* what the audit log says of each attempt
    logOk,       \* the log matches its durable head: readable and appendable
    permits,     \* the physical-send permits callers hold
    dispatched,  \* attempts whose bytes may have reached the provider
    grants,      \* the reconciliation grants operators hold
    op           \* the lifecycle operation between its two writes

authority == <<host, epoch, opened, gen>>
vars == <<authority, caps, leases, attempts, audit, logOk, permits, dispatched, grants, op>>

None == "-"
State == {"none", "preparing", "sending", "settled", "failed", "uncertain", "discarded"}
InFlight == {"preparing", "sending"}
Unresolved == InFlight \cup {"uncertain"}
Truth == {"took_effect", "no_effect", "discarded"}
\* Without Review, which is audit-only: it leaves the record as it is.
Disposition == {"mark_not_sent", "mark_settled", "discard"}

\* What the settlement text tells apart: starts with "reconciled", contains
\* "AbandonedBeforeWireAdmission", or any other detail.
Settlement == {"none", "abandoned", "detail", "reconciled"}

Attempt == [req : Requests \cup {None}, cap : Caps \cup {None}, epoch : 0..MaxChanges,
            gen : 0..MaxChanges, state : State, by : Settlement]

NoAttempt == [req |-> None, cap |-> None, epoch |-> 0, gen |-> 0, state |-> "none", by |-> "none"]

\* The typed events of one attempt: SendIntent, SendWireAdmission, the last SendOutcome, and
\* the truths of the AttemptReconciled.
Evidence == [intent : BOOLEAN, wire : BOOLEAN, outcome : State, by : Settlement,
             truths : SUBSET Truth]

NoEvidence == [intent |-> FALSE, wire |-> FALSE, outcome |-> "none", by |-> "none", truths |-> {}]

\* A grant is bound to the attempt's revision; `stored` says that its lease still exists.
Grant == [attempt : Attempts, disposition : Disposition, state : State, by : Settlement,
          stored : BOOLEAN]

Op == [kind : {"idle", "begin", "admit", "settle", "apply", "recover"},
       on : SUBSET Attempts, state : State, by : Settlement, live : BOOLEAN]

NoOp == [kind |-> "idle", on |-> {}, state |-> "none", by |-> "none", live |-> FALSE]

Init ==
    /\ host = "down" /\ epoch = 0 /\ opened = 0 /\ gen = 0
    /\ caps = [c \in Caps |-> "none"] /\ leases = {}
    /\ attempts = [a \in Attempts |-> NoAttempt]
    /\ audit = [a \in Attempts |-> NoEvidence] /\ logOk = TRUE
    /\ permits = [a \in Attempts |-> "none"] /\ dispatched = {}
    /\ grants = {} /\ op = NoOp

-----------------------------------------------------------------------------
(* Opening, recovery and crash.                                             *)

TruthState(truth) ==
    CASE truth = "took_effect" -> "settled"
      [] truth = "no_effect"   -> "failed"
      [] OTHER                 -> "discarded"

\* replay_attempt_settlements: the last outcome, outranked by a reconciled truth whether the
\* outcome comes before it in the log or after.
Replayed(a) ==
    LET e == audit[a] IN
    IF e.truths # {}
      THEN [attempts[a] EXCEPT !.state = TruthState(CHOOSE t \in e.truths : TRUE),
                               !.by = "reconciled"]
      ELSE IF e.outcome # "none"
             THEN [attempts[a] EXCEPT !.state = e.outcome, !.by = e.by]
             ELSE attempts[a]

\* Two truths for one attempt are corrupt state: the root does not open any more.
Conflicting == \E a \in Attempts : Cardinality(audit[a].truths) > 1

\* HostAuthority::open: advance the epoch, then replay an undamaged log over the state.
\* A conflict or a failing state write ends the opening after the epoch was advanced.
Open(written) ==
    /\ host = "down" /\ epoch + gen < MaxChanges
    /\ epoch' = epoch + 1 /\ opened' = epoch + 1
    /\ IF logOk /\ (Conflicting \/ ~written)
         THEN UNCHANGED <<host, attempts>>
         ELSE /\ host' = "recovering"
              /\ attempts' = IF logOk THEN [a \in Attempts |-> Replayed(a)] ELSE attempts
    /\ UNCHANGED <<gen, caps, leases, audit, logOk, permits, dispatched, grants, op>>

\* The SendOutcome that is appended is from now on the last one.
WithOutcome(e, state, by) == [e EXCEPT !.outcome = state, !.by = by]

\* Mutant of Classified: whatever was in flight is reported as not sent.
ClassifiedAsFailed(a) == [attempts[a] EXCEPT !.state = "failed", !.by = "abandoned"]

\* recover_incomplete: never admitted to the wire, or perhaps sent.
Classified(a) ==
    IF attempts[a].state = "preparing"
      THEN [attempts[a] EXCEPT !.state = "failed", !.by = "abandoned"]
      ELSE [attempts[a] EXCEPT !.state = "uncertain", !.by = "detail"]

\* A capability that is cleared unspent leaves no trace: its identity may stand for a new one.
ClearedCaps == [c \in Caps |-> IF caps[c] = "sealed" THEN "none" ELSE caps[c]]

Incomplete == {a \in Attempts : attempts[a].state \in InFlight}

\* recover_incomplete appends one outcome per attempt in flight,
RecoverAudit(a) ==
    /\ host = "recovering" /\ logOk
    /\ a \in Incomplete \ op.on
    /\ audit' = [audit EXCEPT ![a] = WithOutcome(@, Classified(a).state, Classified(a).by)]
    /\ op' = [NoOp EXCEPT !.kind = "recover", !.on = op.on \cup {a}]
    /\ UNCHANGED <<authority, caps, leases, attempts, logOk, permits, dispatched, grants>>

\* then classifies them all in one state write; only then are credentials set and the host
\* serves.
RecoverState ==
    /\ host = "recovering" /\ Incomplete = op.on
    /\ attempts' = [a \in Attempts |-> IF a \in op.on THEN Classified(a) ELSE attempts[a]]
    /\ host' = "up" /\ op' = NoOp
    /\ UNCHANGED <<epoch, opened, gen, caps, leases, audit, logOk, permits, dispatched, grants>>

\* The process ends, or its opening fails in recover_incomplete: what was in memory is gone,
\* sealed capabilities and minted leases among it.
Crash ==
    /\ host # "down"
    /\ host' = "down" /\ op' = NoOp
    /\ caps' = ClearedCaps
    /\ leases' = {} /\ grants' = {}
    /\ permits' = [a \in Attempts |-> "none"]
    /\ UNCHANGED <<epoch, opened, gen, attempts, audit, logOk, dispatched>>

\* An append stops between the record and its durable head: the log is damaged for good,
\* and the operation that appended returns an error.
LogTears ==
    /\ host # "down" /\ logOk
    /\ logOk' = FALSE
    /\ UNCHANGED <<authority, caps, leases, attempts, audit, permits, dispatched, grants, op>>

-----------------------------------------------------------------------------
(* Capabilities, leases and rotations.                                      *)

SealCapability(c) ==
    /\ host = "up" /\ logOk /\ caps[c] = "none"
    /\ caps' = [caps EXCEPT ![c] = "sealed"]
    /\ UNCHANGED <<authority, leases, attempts, audit, logOk, permits, dispatched, grants, op>>

MintLease(c, r) ==
    /\ host = "up" /\ logOk /\ caps[c] = "sealed"
    /\ leases' = leases \cup {<<c, r>>}
    /\ UNCHANGED <<authority, caps, attempts, audit, logOk, permits, dispatched, grants, op>>

\* rotate_control_epoch, and rotate_capability_generation with its like for the policy and
\* the credentials, clear the stored capabilities and leases, those of grants too.
Rotate(which) ==
    /\ host = "up" /\ epoch + gen < MaxChanges
    /\ IF which = "epoch" THEN epoch' = epoch + 1 /\ UNCHANGED gen
                          ELSE gen' = gen + 1 /\ UNCHANGED epoch
    /\ caps' = ClearedCaps
    /\ leases' = {}
    /\ grants' = {[g EXCEPT !.stored = FALSE] : g \in grants}
    /\ op' = [op EXCEPT !.live = FALSE]
    /\ UNCHANGED <<host, opened, attempts, audit, logOk, permits, dispatched>>

-----------------------------------------------------------------------------
(* One attempt: begin_send, admit_sending, the send itself, settle.         *)

Idle == host = "up" /\ op = NoOp

Spent(a, c, r) ==
    /\ caps' = [caps EXCEPT ![c] = "consumed"]
    /\ leases' = leases \ {<<c, r>>}
    /\ attempts' = [attempts EXCEPT ![a] = [req |-> r, cap |-> c, epoch |-> epoch, gen |-> gen,
                                            state |-> "preparing", by |-> "none"]]
    /\ op' = [NoOp EXCEPT !.kind = "begin", !.on = {a}]
    /\ UNCHANGED <<authority, audit, logOk, permits, dispatched, grants>>

Ambiguous(r) == \E b \in Attempts : attempts[b].req = r /\ attempts[b].state \in Unresolved

\* Mutant of BeginSend: an uncertain attempt does not count as a prior one.
BeginSendOverUncertain(a, c, r) ==
    /\ Idle /\ attempts[a].state = "none"
    /\ <<c, r>> \in leases /\ caps[c] = "sealed"
    /\ ~\E b \in Attempts : attempts[b].req = r /\ attempts[b].state \in InFlight
    /\ Spent(a, c, r)

\* begin_send: one transaction refuses a request with an unresolved attempt, spends the lease
\* and its parent capability, and records the attempt.
BeginSend(a, c, r) ==
    /\ Idle /\ attempts[a].state = "none"
    /\ <<c, r>> \in leases /\ caps[c] = "sealed"
    /\ ~Ambiguous(r)
    /\ Spent(a, c, r)

\* The SendIntent must be durable before the permit exists.
BeginIntent(a, appended) ==
    /\ op.kind = "begin" /\ a \in op.on
    /\ appended => logOk
    /\ IF appended
         THEN /\ audit' = [audit EXCEPT ![a].intent = TRUE]
              /\ permits' = [permits EXCEPT ![a] = "held"]
         ELSE UNCHANGED <<audit, permits>>
    /\ op' = NoOp
    /\ UNCHANGED <<authority, caps, leases, attempts, logOk, dispatched, grants>>

\* admit_sending moves the record first; the permit it takes is lost if it returns an error.
AdmitSending(a) ==
    /\ Idle /\ permits[a] = "held"
    /\ attempts[a].epoch = epoch /\ attempts[a].gen = gen
    /\ attempts[a].state = "preparing"
    /\ attempts' = [attempts EXCEPT ![a].state = "sending"]
    /\ permits' = [permits EXCEPT ![a] = "none"]
    /\ op' = [NoOp EXCEPT !.kind = "admit", !.on = {a}]
    /\ UNCHANGED <<authority, caps, leases, audit, logOk, dispatched, grants>>

\* Mutant of AdmitWire: the permit is returned whatever became of the append.
AdmitWireRegardless(a, appended) ==
    /\ op.kind = "admit" /\ a \in op.on
    /\ appended => logOk
    /\ audit' = [audit EXCEPT ![a].wire = appended]
    /\ permits' = [permits EXCEPT ![a] = "admitted"]
    /\ op' = NoOp
    /\ UNCHANGED <<authority, caps, leases, attempts, logOk, dispatched, grants>>

AdmitWire(a, appended) ==
    /\ op.kind = "admit" /\ a \in op.on
    /\ appended => logOk
    /\ IF appended
         THEN /\ audit' = [audit EXCEPT ![a].wire = TRUE]
              /\ permits' = [permits EXCEPT ![a] = "admitted"]
         ELSE UNCHANGED <<audit, permits>>
    /\ op' = NoOp
    /\ UNCHANGED <<authority, caps, leases, attempts, logOk, dispatched, grants>>

\* The transport hands the request to the client.
Dispatch(a) ==
    /\ host = "up" /\ permits[a] = "admitted" /\ a \notin dispatched
    /\ dispatched' = dispatched \cup {a}
    /\ UNCHANGED <<authority, caps, leases, attempts, audit, logOk, permits, grants, op>>

\* A permit ends without an effect on the record: its owner is dropped, admit_sending refuses
\* it, or its settlement is absorbed, refused or cannot be appended.
DropPermit(a) ==
    /\ host = "up" /\ permits[a] # "none"
    /\ permits' = [permits EXCEPT ![a] = "none"]
    /\ UNCHANGED <<authority, caps, leases, attempts, audit, logOk, dispatched, grants, op>>

\* What the transport may report: a response, a refusal before anything was written, or
\* that it does not know.
Reportable(a, outcome) ==
    \/ outcome = "settled" /\ permits[a] = "admitted" /\ a \in dispatched
    \/ outcome = "failed" /\ a \notin dispatched
    \/ outcome = "uncertain" /\ permits[a] = "admitted"

SettleWrites(a, outcome) ==
    /\ audit' = [audit EXCEPT ![a] = WithOutcome(@, outcome, "detail")]
    /\ permits' = [permits EXCEPT ![a] = "none"]
    /\ op' = [NoOp EXCEPT !.kind = "settle", !.on = {a}, !.state = outcome, !.by = "detail"]
    /\ UNCHANGED <<authority, caps, leases, attempts, logOk, dispatched, grants>>

\* Mutant of SettleAudit: a decision of the operator is not looked for.
SettleAuditUnabsorbed(a, outcome) ==
    /\ Idle /\ logOk /\ permits[a] # "none"
    /\ Reportable(a, outcome)
    /\ SettleWrites(a, outcome)

\* Mutant of SettleAudit: an append that failed does not stop the state write.
SettleAuditUnappended(a, outcome) ==
    /\ Idle /\ permits[a] # "none"
    /\ Reportable(a, outcome)
    /\ attempts[a].by # "reconciled"
    /\ permits' = [permits EXCEPT ![a] = "none"]
    /\ op' = [NoOp EXCEPT !.kind = "settle", !.on = {a}, !.state = outcome, !.by = "detail"]
    /\ UNCHANGED <<authority, caps, leases, attempts, audit, logOk, dispatched, grants>>

\* settle: unless an operator has decided, append the outcome first,
SettleAudit(a, outcome) ==
    /\ Idle /\ logOk /\ permits[a] # "none"
    /\ Reportable(a, outcome)
    /\ attempts[a].by # "reconciled"
    /\ SettleWrites(a, outcome)

\* and write the state second; if that fails, the next opening replays the outcome.
SettleState(a, written) ==
    /\ op.kind = "settle" /\ a \in op.on
    /\ attempts' = IF written THEN [attempts EXCEPT ![a].state = op.state, ![a].by = op.by]
                              ELSE attempts
    /\ op' = NoOp
    /\ UNCHANGED <<authority, caps, leases, audit, logOk, permits, dispatched, grants>>

-----------------------------------------------------------------------------
(* Reconciliation by an operator.                                           *)

\* host_has_pre_wire_evidence
PreWire(a) ==
    \/ attempts[a].state = "preparing"
    \/ attempts[a].state = "failed" /\ attempts[a].by = "abandoned"
    \/ attempts[a].state \in {"sending", "uncertain"} /\ logOk /\ ~audit[a].wire

AlreadyMatches(a, d) ==
    \/ d = "mark_not_sent" /\ attempts[a].state = "failed"
    \/ d = "mark_settled" /\ attempts[a].state = "settled"
    \/ d = "discard" /\ attempts[a].state = "discarded"

\* mint_reconciliation_grant, for a record of the current generations.
MintGrant(a, d) ==
    /\ host = "up" /\ logOk /\ Cardinality(grants) < MaxGrants
    /\ attempts[a].state # "none" /\ attempts[a].gen = gen
    /\ attempts[a].state # "sending"
    /\ d = "mark_not_sent" => PreWire(a)
    /\ d \in {"mark_settled", "discard"} =>
           attempts[a].state = "uncertain" \/ AlreadyMatches(a, d)
    /\ grants' = grants \cup {[attempt |-> a, disposition |-> d, state |-> attempts[a].state,
                               by |-> attempts[a].by, stored |-> TRUE]}
    /\ UNCHANGED <<authority, caps, leases, attempts, audit, logOk, permits, dispatched, op>>

\* An application of a grant that changes nothing: refused, stale, a repetition of what is
\* already so, or one whose append fails.  The grant is taken by value.
DropGrant(g) ==
    /\ host = "up"
    /\ grants' = grants \ {g}
    /\ UNCHANGED <<authority, caps, leases, attempts, audit, logOk, permits, dispatched, op>>

DispositionTruth(d) ==
    CASE d = "mark_not_sent" -> "no_effect"
      [] d = "mark_settled"  -> "took_effect"
      [] OTHER               -> "discarded"

\* The revision has not moved and the disposition still holds for the record.
Applicable(g) ==
    LET a == g.attempt IN
    /\ attempts[a].gen = gen
    /\ g.state = attempts[a].state /\ g.by = attempts[a].by
    /\ ~AlreadyMatches(a, g.disposition)
    /\ attempts[a].state # "sending"
    /\ IF g.disposition = "mark_not_sent" THEN PreWire(a) ELSE attempts[a].state = "uncertain"

Decided(g) ==
    LET a == g.attempt
        truth == DispositionTruth(g.disposition) IN
    /\ audit' = [audit EXCEPT ![a].truths = @ \cup {truth}]
    /\ grants' = grants \ {g}
    /\ op' = [kind |-> "apply", on |-> {a}, state |-> TruthState(truth), by |-> "reconciled",
              live |-> g.stored]
    /\ UNCHANGED <<authority, caps, leases, attempts, logOk, permits, dispatched>>

\* apply_reconciliation: refuse another truth than the audited one, append the truth first,
ApplyAudit(g) ==
    /\ Idle /\ logOk /\ Applicable(g)
    /\ audit[g.attempt].truths \subseteq {DispositionTruth(g.disposition)}
    /\ Decided(g)

\* and decide the record second, in the transaction that consumes the stored lease; a
\* rotation in between, or before for the epoch, has removed that lease.
ApplyState(a, written) ==
    /\ op.kind = "apply" /\ a \in op.on
    /\ attempts' = IF op.live /\ written
                     THEN [attempts EXCEPT ![a].state = op.state, ![a].by = op.by]
                     ELSE attempts
    /\ op' = NoOp
    /\ UNCHANGED <<authority, caps, leases, audit, logOk, permits, dispatched, grants>>

-----------------------------------------------------------------------------
Next ==
    \/ \E written \in BOOLEAN : Open(written)
    \/ \E a \in Attempts : RecoverAudit(a)
    \/ RecoverState \/ Crash \/ LogTears
    \/ \E c \in Caps : SealCapability(c)
    \/ \E c \in Caps, r \in Requests : MintLease(c, r)
    \/ \E which \in {"epoch", "generation"} : Rotate(which)
    \/ \E a \in Attempts, c \in Caps, r \in Requests : BeginSend(a, c, r)
    \/ \E a \in Attempts, appended \in BOOLEAN : BeginIntent(a, appended) \/ AdmitWire(a, appended)
    \/ \E a \in Attempts : AdmitSending(a) \/ Dispatch(a) \/ DropPermit(a)
    \/ \E a \in Attempts, outcome \in {"settled", "failed", "uncertain"} : SettleAudit(a, outcome)
    \/ \E a \in Attempts, written \in BOOLEAN : SettleState(a, written) \/ ApplyState(a, written)
    \/ \E a \in Attempts, d \in Disposition : MintGrant(a, d)
    \/ \E g \in grants : DropGrant(g) \/ ApplyAudit(g)

Spec == Init /\ [][Next]_vars

-----------------------------------------------------------------------------
(* Properties *)

\* Every record, permit, grant and piece of evidence keeps its shape; a replayed state is one
\* of the states of the lattice.
TypeOK ==
    /\ host \in {"down", "recovering", "up"}
    /\ epoch \in 0..MaxChanges /\ opened \in 0..MaxChanges /\ gen \in 0..MaxChanges
    /\ caps \in [Caps -> {"none", "sealed", "consumed"}]
    /\ leases \subseteq Caps \X Requests
    /\ attempts \in [Attempts -> Attempt]
    /\ audit \in [Attempts -> Evidence] /\ logOk \in BOOLEAN
    /\ permits \in [Attempts -> {"none", "held", "admitted"}]
    /\ dispatched \subseteq Attempts
    /\ grants \subseteq Grant
    /\ op \in Op

\* Bytes move only for an attempt whose intent and whose wire admission are in the audit log,
\* whichever of the two files failed and whenever the process ended.
WireHasEvidence == \A a \in dispatched : audit[a].intent /\ audit[a].wire

\* A request is never sent again behind an unresolved attempt: at most one attempt of a
\* request is preparing, sending or uncertain.
OneUnresolvedAttempt ==
    \A a, b \in Attempts :
        /\ attempts[a].req = attempts[b].req
        /\ attempts[a].state \in Unresolved /\ attempts[b].state \in Unresolved
        => a = b

\* An attempt the host itself reports as failed was not sent: recovery and settlement never
\* downgrade a possible effect, over crashes, lost appends and lost state writes.
FailedWasNotSent ==
    \A a \in Attempts :
        attempts[a].state = "failed" /\ audit[a].truths = {} => a \notin dispatched

\* No outcome without evidence: a classified record has the SendOutcome or the
\* AttemptReconciled that says so in the log, whatever the order of failures.
OutcomeHasEvidence ==
    \A a \in Attempts :
        attempts[a].state \notin InFlight \cup {"none"} =>
            \/ audit[a].outcome = attempts[a].state
            \/ \E t \in audit[a].truths : TruthState(t) = attempts[a].state

\* An operator's decision is final: no late settlement, recovery, replay or second decision
\* changes a reconciled record.
DecisionIsFinal ==
    [][\A a \in Attempts :
          attempts[a].by = "reconciled" => attempts'[a] = attempts[a]]_vars

=============================================================================
