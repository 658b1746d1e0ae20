------------------------ MODULE HostAuthorityProofs ------------------------
(***************************************************************************)
(* Proofs about HostAuthority: for any number of attempts, requests,       *)
(* rotations and crashes, bytes move only behind durable evidence, what    *)
(* the host calls failed was not sent, a request has one unresolved        *)
(* attempt, and an operator's decision is final.                           *)
(*                                                                         *)
(* Two files are written one after the other, so each of them is behind    *)
(* the other at times.  The inductive invariant says by how much: which    *)
(* evidence a record, a permit and the operation in progress have, and     *)
(* that replaying the log over the records never reopens a closed one.     *)
(***************************************************************************)
EXTENDS HostAuthority, TLAPS

\* Permits, grants and the operation in progress live in the memory of a serving host.
HostCoherent ==
    /\ host # "up" => \A a \in Attempts : permits[a] = "none"
    /\ host = "down" => op = NoOp
    /\ host = "recovering" => op.kind \in {"idle", "recover"}
    /\ op.kind = "recover" => host = "recovering"
    /\ op.kind = "idle" => op = NoOp

\* What a record says, against the log, the permit and the wire.
RecordSound(r, e, p, sent) ==
    /\ r.state = "none" => r = NoAttempt /\ e = NoEvidence /\ p = "none" /\ ~sent
    /\ r.state \in InFlight => r.by = "none"
    /\ r.state = "preparing" => p # "admitted" /\ ~sent
    /\ r.by = "reconciled" => \E t \in e.truths : r.state = TruthState(t)
    /\ r.state \notin InFlight \cup {"none"} =>
          e.outcome = r.state \/ \E t \in e.truths : TruthState(t) = r.state

\* What the log says of an attempt, against the wire: one truth at most, and an outcome
\* "failed" only for what was not sent and cannot be sent any more.
LogSound(e, p, sent) ==
    /\ e.outcome \in {"none", "settled", "failed", "uncertain"}
    /\ e.by # "reconciled"
    /\ e.outcome = "failed" => ~sent /\ p = "none"
    /\ \A t, u \in e.truths : t = u
    /\ sent => e.intent /\ e.wire

\* What a permit was given for.
PermitSound(r, e, p) ==
    /\ p # "none" => /\ e.intent /\ e.outcome = "none"
                     /\ r.state \in InFlight \/ r.by = "reconciled"
    /\ p = "admitted" => e.wire

Sound(r, e, p, sent) == RecordSound(r, e, p, sent) /\ LogSound(e, p, sent) /\ PermitSound(r, e, p)

AttemptsSound ==
    \A a \in Attempts : Sound(attempts[a], audit[a], permits[a], a \in dispatched)

\* The operation between its two writes: one file is ahead of the other.
OpSound(o, r, e, p) ==
    /\ o.kind = "begin"  => r.state = "preparing" /\ e.outcome = "none"
    /\ o.kind = "admit"  => r.state = "sending" /\ e.intent /\ e.outcome = "none"
    /\ o.kind = "settle" => /\ r.state \in InFlight
                            /\ e.outcome = o.state /\ o.state # "none"
                            /\ o.by = "detail" /\ p = "none"
    /\ o.kind = "apply"  => /\ r.state # "none" /\ r.by # "reconciled"
                            /\ o.by = "reconciled"
                            /\ \E t \in e.truths : o.state = TruthState(t)
    /\ o.kind = "recover" =>
          r.state \in InFlight
          /\ e.outcome = IF r.state = "preparing" THEN "failed" ELSE "uncertain"

OpCoherent == \A a \in op.on : OpSound(op, attempts[a], audit[a], permits[a])

IInv == TypeOK /\ HostCoherent /\ AttemptsSound /\ OpCoherent /\ OneUnresolvedAttempt

-----------------------------------------------------------------------------
(* Types *)

\* The epochs and generations are numbers of a common bound.
LEMMA BoundNat == MaxChanges \in Nat /\ 0 \in 0..MaxChanges
BY BoundsAssumption

\* The state a truth stands for is decided: neither unresolved nor empty.
LEMMA TruthDecides ==
    ASSUME NEW t \in Truth
    PROVE  TruthState(t) \in {"settled", "failed", "discarded"}
BY DEF Truth, TruthState

\* A replayed record is a record.
LEMMA ReplayedType ==
    ASSUME TypeOK, NEW a \in Attempts
    PROVE  Replayed(a) \in Attempt
<1>0. attempts[a] \in Attempt /\ audit[a] \in Evidence
  BY DEF TypeOK
<1>1. CASE audit[a].truths # {}
  <2>1. (CHOOSE t \in audit[a].truths : TRUE) \in Truth
    BY <1>0, <1>1 DEF Evidence
  <2>2. TruthState(CHOOSE t \in audit[a].truths : TRUE) \in State
    BY <2>1, TruthDecides DEF State
  <2> QED
    BY <1>0, <1>1, <2>2 DEF Replayed, Attempt, Settlement
<1>2. CASE audit[a].truths = {}
  BY <1>0, <1>2 DEF Replayed, Attempt, Evidence
<1> QED
  BY <1>1, <1>2

\* Classification gives a record, and an outcome the log can hold.
LEMMA ClassifiedType ==
    ASSUME TypeOK, NEW a \in Attempts
    PROVE  /\ Classified(a) \in Attempt
           /\ Classified(a).state =
                 IF attempts[a].state = "preparing" THEN "failed" ELSE "uncertain"
           /\ Classified(a).by \in {"abandoned", "detail"}
           /\ Classified(a).req = attempts[a].req
<1> DEFINE With(s, by) == [attempts[a] EXCEPT !.state = s, !.by = by]
<1>1. attempts[a] \in Attempt
  BY DEF TypeOK
<1>2. ASSUME NEW s \in State, NEW by \in Settlement
      PROVE  /\ With(s, by) \in Attempt /\ With(s, by).state = s /\ With(s, by).by = by
             /\ With(s, by).req = attempts[a].req
  BY <1>1 DEF Attempt
<1>3. {"failed", "uncertain"} \subseteq State /\ {"abandoned", "detail"} \subseteq Settlement
  BY DEF State, Settlement
<1>4. Classified(a) = IF attempts[a].state = "preparing" THEN With("failed", "abandoned")
                      ELSE With("uncertain", "detail")
  BY DEF Classified
<1> HIDE DEF With
<1> QED
  BY <1>2, <1>3, <1>4

\* An outcome that is appended is evidence, and the rest of the evidence stays.
LEMMA OutcomeType ==
    ASSUME NEW e \in Evidence, NEW state \in State, NEW by \in Settlement
    PROVE  /\ WithOutcome(e, state, by) \in Evidence
           /\ WithOutcome(e, state, by).outcome = state /\ WithOutcome(e, state, by).by = by
           /\ WithOutcome(e, state, by).intent = e.intent
           /\ WithOutcome(e, state, by).wire = e.wire
           /\ WithOutcome(e, state, by).truths = e.truths
BY DEF WithOutcome, Evidence

\* One attempt, or its evidence, replaced.
LEMMA Replacements ==
    ASSUME TypeOK, NEW a \in Attempts
    PROVE  /\ \A x \in Attempt : [attempts EXCEPT ![a] = x] \in [Attempts -> Attempt]
           /\ \A e \in Evidence : [audit EXCEPT ![a] = e] \in [Attempts -> Evidence]
BY DEF TypeOK

\* An operation under way, as its first step leaves it.
LEMMA OpTypes ==
    ASSUME NEW a \in Attempts, NEW k \in {"begin", "admit", "settle"}, NEW s \in State,
           NEW by \in Settlement
    PROVE  /\ [NoOp EXCEPT !.kind = k, !.on = {a}] \in Op
           /\ [NoOp EXCEPT !.kind = k, !.on = {a}, !.state = s, !.by = by] \in Op
BY DEF NoOp, Op, State, Settlement

\* Every step keeps the types.
LEMMA TypeStep ==
    ASSUME TypeOK, [Next]_vars
    PROVE  TypeOK'
<1> USE DEF TypeOK
<1>0. NoOp \in Op /\ op \in Op
  BY DEF NoOp, Op, State, Settlement
<1>1. ASSUME NEW written \in BOOLEAN, Open(written) PROVE TypeOK'
  <2>1. epoch' \in 0..MaxChanges /\ opened' \in 0..MaxChanges /\ gen' \in 0..MaxChanges
    BY <1>1, BoundNat DEF Open
  <2>2. attempts' \in [Attempts -> Attempt]
    BY <1>1, ReplayedType DEF Open
  <2>3. host' \in {"down", "recovering", "up"}
    BY <1>1 DEF Open
  <2> QED
    BY <1>1, <2>1, <2>2, <2>3 DEF Open
<1>2. ASSUME NEW a \in Attempts, RecoverAudit(a) PROVE TypeOK'
  <2>1. audit' \in [Attempts -> Evidence]
    <3>1. Classified(a).state \in State /\ Classified(a).by \in Settlement
      BY ClassifiedType DEF Attempt
    <3> QED
      BY <1>2, <3>1, OutcomeType DEF RecoverAudit
  <2>2. op' \in Op
    BY <1>0, <1>2 DEF RecoverAudit, NoOp, Op
  <2> QED
    BY <1>2, <2>1, <2>2 DEF RecoverAudit, authority
<1>3. CASE RecoverState
  BY <1>0, <1>3, ClassifiedType DEF RecoverState
<1>4. CASE Crash
  BY <1>0, <1>4 DEF Crash, ClearedCaps
<1>5. CASE LogTears
  BY <1>5 DEF LogTears, authority
<1>6. ASSUME NEW c \in Caps, SealCapability(c) PROVE TypeOK'
  BY <1>6 DEF SealCapability, authority
<1>7. ASSUME NEW c \in Caps, NEW r \in Requests, MintLease(c, r) PROVE TypeOK'
  BY <1>7 DEF MintLease, authority
<1>8. ASSUME NEW which \in {"epoch", "generation"}, Rotate(which) PROVE TypeOK'
  <2>1. epoch' \in 0..MaxChanges /\ gen' \in 0..MaxChanges
    BY <1>8, BoundNat DEF Rotate
  <2>2. grants' \subseteq Grant
    <3>1. \A g \in Grant : [g EXCEPT !.stored = FALSE] \in Grant
      BY DEF Grant
    <3> QED
      BY <1>8, <3>1 DEF Rotate
  <2>3. op' \in Op
    BY <1>0, <1>8 DEF Rotate, Op
  <2> QED
    BY <1>8, <2>1, <2>2, <2>3 DEF Rotate, ClearedCaps
<1>9. ASSUME NEW a \in Attempts, NEW c \in Caps, NEW r \in Requests, BeginSend(a, c, r)
      PROVE  TypeOK'
  <2> DEFINE x == [req |-> r, cap |-> c, epoch |-> epoch, gen |-> gen, state |-> "preparing",
                   by |-> "none"]
  <2>a. x \in Attempt
    BY DEF Attempt, State, Settlement
  <2>b. /\ attempts' = [attempts EXCEPT ![a] = x]
        /\ op' = [NoOp EXCEPT !.kind = "begin", !.on = {a}]
    BY <1>9 DEF BeginSend, Spent
  <2> HIDE DEF x
  <2>1. attempts' \in [Attempts -> Attempt]
    BY <2>a, <2>b, Replacements
  <2>2. op' \in Op
    BY <2>b, OpTypes DEF State, Settlement
  <2> QED
    BY <1>9, <2>1, <2>2 DEF BeginSend, Spent, authority
<1>10. ASSUME NEW a \in Attempts, NEW appended \in BOOLEAN,
              BeginIntent(a, appended) \/ AdmitWire(a, appended)
       PROVE  TypeOK'
  <2>1. audit' \in [Attempts -> Evidence] /\ permits' \in [Attempts -> {"none", "held", "admitted"}]
    <3>1. /\ [audit[a] EXCEPT !.intent = TRUE] \in Evidence
          /\ [audit[a] EXCEPT !.wire = TRUE] \in Evidence
      BY DEF Evidence
    <3>2. CASE BeginIntent(a, appended)
      BY <3>1, <3>2 DEF BeginIntent
    <3>3. CASE AdmitWire(a, appended)
      BY <3>1, <3>3 DEF AdmitWire
    <3> QED
      BY <1>10, <3>2, <3>3
  <2> QED
    BY <1>0, <1>10, <2>1 DEF BeginIntent, AdmitWire, authority
<1>11. ASSUME NEW a \in Attempts, AdmitSending(a) PROVE TypeOK'
  <2>a. [attempts[a] EXCEPT !.state = "sending"] \in Attempt
    BY DEF Attempt, State
  <2>b. /\ attempts' = [attempts EXCEPT ![a] = [attempts[a] EXCEPT !.state = "sending"]]
        /\ op' = [NoOp EXCEPT !.kind = "admit", !.on = {a}]
    BY <1>11 DEF AdmitSending
  <2>1. attempts' \in [Attempts -> Attempt]
    BY <2>a, <2>b, Replacements
  <2>2. op' \in Op
    BY <2>b, OpTypes DEF State, Settlement
  <2> QED
    BY <1>11, <2>1, <2>2 DEF AdmitSending, authority
<1>12. ASSUME NEW a \in Attempts, Dispatch(a) \/ DropPermit(a) PROVE TypeOK'
  BY <1>12 DEF Dispatch, DropPermit, authority
<1>13. ASSUME NEW a \in Attempts, NEW outcome \in {"settled", "failed", "uncertain"},
              SettleAudit(a, outcome)
       PROVE  TypeOK'
  <2>1. audit' \in [Attempts -> Evidence]
    <3>1. outcome \in State /\ "detail" \in Settlement
      BY DEF State, Settlement
    <3> QED
      BY <1>13, <3>1, OutcomeType DEF SettleAudit, SettleWrites
  <2>a. op' = [NoOp EXCEPT !.kind = "settle", !.on = {a}, !.state = outcome, !.by = "detail"]
    BY <1>13 DEF SettleAudit, SettleWrites
  <2>2. op' \in Op
    BY <2>a, OpTypes DEF State, Settlement
  <2> QED
    BY <1>13, <2>1, <2>2 DEF SettleAudit, SettleWrites, authority
<1>14. ASSUME NEW a \in Attempts, NEW written \in BOOLEAN,
              SettleState(a, written) \/ ApplyState(a, written)
       PROVE  TypeOK'
  <2>a. op.state \in State /\ op.by \in Settlement
    BY <1>0 DEF Op
  <2>b. ASSUME NEW s \in State, NEW by \in Settlement
        PROVE  [attempts EXCEPT ![a].state = s, ![a].by = by] \in [Attempts -> Attempt]
    <3>1. [attempts[a] EXCEPT !.state = s, !.by = by] \in Attempt
      BY DEF Attempt
    <3>2. [attempts EXCEPT ![a].state = s, ![a].by = by]
             = [attempts EXCEPT ![a] = [attempts[a] EXCEPT !.state = s, !.by = by]]
      OBVIOUS
    <3> QED
      BY <3>1, <3>2, Replacements
  <2>c. \/ attempts' = attempts
        \/ attempts' = [attempts EXCEPT ![a].state = op.state, ![a].by = op.by]
    BY <1>14, Zenon DEF SettleState, ApplyState
  <2>1. attempts' \in [Attempts -> Attempt]
    <3>1. attempts \in [Attempts -> Attempt]
      OBVIOUS
    <3>2. [attempts EXCEPT ![a].state = op.state, ![a].by = op.by] \in [Attempts -> Attempt]
      BY <2>a, <2>b, Zenon
    <3> QED
      BY <2>c, <3>1, <3>2, Zenon
  <2> QED
    BY <1>0, <1>14, <2>1 DEF SettleState, ApplyState, authority
<1>15. ASSUME NEW a \in Attempts, NEW d \in Disposition, MintGrant(a, d) PROVE TypeOK'
  <2>1. attempts[a].state \in State /\ attempts[a].by \in Settlement
    BY DEF Attempt
  <2>2. [attempt |-> a, disposition |-> d, state |-> attempts[a].state,
         by |-> attempts[a].by, stored |-> TRUE] \in Grant
    BY <2>1 DEF Grant
  <2>3. grants' \subseteq Grant
    BY <1>15, <2>2 DEF MintGrant
  <2> QED
    BY <1>15, <2>3 DEF MintGrant, authority
<1>16. ASSUME NEW g \in grants, DropGrant(g) PROVE TypeOK'
  BY <1>16 DEF DropGrant, authority
<1>17. ASSUME NEW g \in grants, ApplyAudit(g) PROVE TypeOK'
  <2>1. g.attempt \in Attempts /\ DispositionTruth(g.disposition) \in Truth
    BY DEF Grant, DispositionTruth, Truth
  <2>2. audit' \in [Attempts -> Evidence]
    BY <1>17, <2>1 DEF ApplyAudit, Decided, Evidence
  <2>3. TruthState(DispositionTruth(g.disposition)) \in State
    BY <2>1, TruthDecides DEF State
  <2>4. op' \in Op
    BY <1>17, <2>1, <2>3 DEF ApplyAudit, Decided, Op, Settlement, Grant
  <2> QED
    BY <1>17, <2>2, <2>4 DEF ApplyAudit, Decided, authority
<1>18. CASE UNCHANGED vars
  BY <1>18 DEF vars, authority
<1> QED
  BY <1>1, <1>2, <1>3, <1>4, <1>5, <1>6, <1>7, <1>8, <1>9, <1>10, <1>11, <1>12, <1>13, <1>14,
     <1>15, <1>16, <1>17, <1>18 DEF Next

-----------------------------------------------------------------------------
(* Records, log and permits *)

\* The parts of one attempt have their types.
LEMMA PartTypes ==
    ASSUME TypeOK, NEW a \in Attempts
    PROVE  /\ attempts[a] \in Attempt /\ audit[a] \in Evidence
           /\ permits[a] \in {"none", "held", "admitted"}
           /\ audit[a].truths \subseteq Truth
BY DEF TypeOK, Evidence

\* It is enough to look at the one attempt a step is about.
LEMMA OneAttempt ==
    ASSUME AttemptsSound, NEW a \in Attempts,
           \A b \in Attempts \ {a} :
               /\ attempts'[b] = attempts[b] /\ audit'[b] = audit[b]
               /\ permits'[b] = permits[b] /\ (b \in dispatched' <=> b \in dispatched),
           Sound(attempts'[a], audit'[a], permits'[a], a \in dispatched')
    PROVE  AttemptsSound'
<1> SUFFICES ASSUME NEW b \in Attempts
             PROVE  Sound(attempts'[b], audit'[b], permits'[b], b \in dispatched')
  BY DEF AttemptsSound
<1>1. CASE b = a
  BY <1>1
<1>2. CASE b # a
  BY <1>2 DEF AttemptsSound, Sound, RecordSound, LogSound, PermitSound
<1> QED
  BY <1>1, <1>2

\* A sound attempt loses its permit.
LEMMA PermitEnds ==
    ASSUME NEW r, NEW e, NEW p, NEW sent, Sound(r, e, p, sent)
    PROVE  Sound(r, e, "none", sent)
BY DEF Sound, RecordSound, LogSound, PermitSound

\* Replaying the log over a sound record gives a sound record, which is unresolved only if
\* it was before, and changes no decided one.
LEMMA ReplaySound ==
    ASSUME TypeOK, AttemptsSound, NEW a \in Attempts, permits[a] = "none"
    PROVE  /\ Sound(Replayed(a), audit[a], permits[a], a \in dispatched)
           /\ Replayed(a).req = attempts[a].req
           /\ Replayed(a).state \in Unresolved => attempts[a].state \in Unresolved
           /\ attempts[a].by = "reconciled" => Replayed(a) = attempts[a]
<1> DEFINE r == attempts[a]
           e == audit[a]
<1>0. /\ r \in Attempt /\ e \in Evidence /\ e.truths \subseteq Truth
      /\ Sound(r, e, "none", a \in dispatched)
  BY PartTypes DEF AttemptsSound
<1>1. CASE e.truths # {}
  <2> DEFINE t == CHOOSE u \in e.truths : TRUE
  <2>1. t \in e.truths /\ t \in Truth
    BY <1>0, <1>1
  <2>2. Replayed(a) = [r EXCEPT !.state = TruthState(t), !.by = "reconciled"]
    BY <1>1 DEF Replayed
  <2> HIDE DEF t, r, e
  <2>3. TruthState(t) \in {"settled", "failed", "discarded"}
    BY <2>1, TruthDecides
  <2>4. /\ Replayed(a).state = TruthState(t) /\ Replayed(a).by = "reconciled"
        /\ Replayed(a).req = r.req
    BY <1>0, <2>2 DEF Attempt
  <2>5. Sound(Replayed(a), e, "none", a \in dispatched)
    BY <1>0, <2>1, <2>3, <2>4 DEF Sound, RecordSound, LogSound, PermitSound, InFlight
  <2>6. ASSUME r.by = "reconciled" PROVE Replayed(a) = r
    <3>1. r.state = TruthState(t)
      BY <1>0, <2>1, <2>6 DEF Sound, RecordSound, LogSound
    <3>2. [r EXCEPT !.state = r.state, !.by = r.by] = r
      BY <1>0 DEF Attempt
    <3> QED
      BY <2>2, <2>6, <3>1, <3>2
  <2> QED
    BY <2>3, <2>4, <2>5, <2>6 DEF Unresolved, InFlight, r, e
<1>2. CASE e.truths = {} /\ e.outcome # "none"
  <2>1. Replayed(a) = [r EXCEPT !.state = e.outcome, !.by = e.by]
    BY <1>2 DEF Replayed
  <2> HIDE DEF r, e
  <2>2. Replayed(a).state = e.outcome /\ Replayed(a).by = e.by /\ Replayed(a).req = r.req
    BY <1>0, <2>1 DEF Attempt
  <2>3. e.outcome \in {"settled", "failed", "uncertain"} /\ e.by # "reconciled"
    BY <1>0, <1>2 DEF Sound, LogSound
  <2>4. Sound(Replayed(a), e, "none", a \in dispatched)
    BY <1>0, <1>2, <2>2, <2>3 DEF Sound, RecordSound, LogSound, PermitSound, InFlight
  <2>5. r.by # "reconciled"
    BY <1>0, <1>2 DEF Sound, RecordSound
  <2>6. r.state \in Unresolved \/ r.state = e.outcome
    BY <1>0, <1>2 DEF Sound, RecordSound, Unresolved, NoEvidence
  <2> QED
    BY <2>2, <2>4, <2>5, <2>6 DEF r, e
<1>3. CASE e.truths = {} /\ e.outcome = "none"
  BY <1>0, <1>3 DEF Replayed
<1> QED
  BY <1>1, <1>2, <1>3

\* Every step keeps every attempt sound.
LEMMA AttemptsStep ==
    ASSUME IInv, [Next]_vars
    PROVE  AttemptsSound'
<1> USE DEF Sound, RecordSound, LogSound, PermitSound, InFlight
<1>0. TypeOK /\ AttemptsSound /\ HostCoherent /\ OpCoherent
  BY DEF IInv
<1>a. ASSUME NEW a \in Attempts
      PROVE  /\ attempts[a] \in Attempt /\ audit[a] \in Evidence
             /\ permits[a] \in {"none", "held", "admitted"} /\ audit[a].truths \subseteq Truth
             /\ Sound(attempts[a], audit[a], permits[a], a \in dispatched)
  BY <1>0, PartTypes DEF AttemptsSound
<1>b. ASSUME UNCHANGED <<attempts, audit, permits, dispatched>> PROVE AttemptsSound'
  BY <1>0, <1>b DEF AttemptsSound
<1>c. /\ attempts \in [Attempts -> Attempt] /\ audit \in [Attempts -> Evidence]
      /\ permits \in [Attempts -> {"none", "held", "admitted"}]
  BY <1>0 DEF TypeOK
<1>1. ASSUME NEW written \in BOOLEAN, Open(written) PROVE AttemptsSound'
  <2>1. UNCHANGED <<audit, permits, dispatched>> /\ host = "down"
    BY <1>1 DEF Open
  <2>2. CASE UNCHANGED attempts
    BY <1>b, <2>1, <2>2
  <2>3. CASE attempts' = [a \in Attempts |-> Replayed(a)]
    <3>1. ASSUME NEW a \in Attempts
          PROVE  Sound(attempts'[a], audit'[a], permits'[a], a \in dispatched')
      <4>1. permits[a] = "none"
        BY <1>0, <2>1 DEF HostCoherent
      <4>2. Sound(Replayed(a), audit[a], permits[a], a \in dispatched)
        BY <1>0, <4>1, ReplaySound
      <4>3. attempts'[a] = Replayed(a)
        BY <2>3
      <4> QED
        BY <2>1, <4>2, <4>3
    <3> QED
      BY <3>1 DEF AttemptsSound
  <2> QED
    BY <1>1, <2>2, <2>3 DEF Open
<1>2. ASSUME NEW a \in Attempts, RecoverAudit(a) PROVE AttemptsSound'
  <2> DEFINE e == WithOutcome(audit[a], Classified(a).state, Classified(a).by)
  <2>1. UNCHANGED <<attempts, permits, dispatched>> /\ audit' = [audit EXCEPT ![a] = e]
    BY <1>2 DEF RecoverAudit
  <2>2. permits[a] = "none" /\ attempts[a].state \in InFlight
    BY <1>0, <1>2 DEF RecoverAudit, HostCoherent, Incomplete
  <2>3. /\ Classified(a).state = IF attempts[a].state = "preparing" THEN "failed" ELSE "uncertain"
        /\ Classified(a).by \in {"abandoned", "detail"}
    BY <1>0, ClassifiedType
  <2>4. Classified(a).state \in State /\ Classified(a).by \in Settlement
    BY <2>3 DEF State, Settlement
  <2>5. /\ e.outcome = Classified(a).state /\ e.by = Classified(a).by
        /\ e.intent = audit[a].intent /\ e.wire = audit[a].wire /\ e.truths = audit[a].truths
    BY <1>a, <2>4, OutcomeType
  <2> HIDE DEF e
  <2>6. Sound(attempts[a], e, permits[a], a \in dispatched)
    BY <1>a, <2>2, <2>3, <2>5
  <2>7. audit'[a] = e /\ \A b \in Attempts \ {a} : audit'[b] = audit[b]
    BY <1>c, <2>1
  <2> QED
    BY <1>0, <2>1, <2>6, <2>7, OneAttempt
<1>3. CASE RecoverState
  <2>1. UNCHANGED <<audit, permits, dispatched>> /\ host = "recovering" /\ Incomplete = op.on
    BY <1>3 DEF RecoverState
  <2>2. ASSUME NEW a \in Attempts
        PROVE  Sound(attempts'[a], audit'[a], permits'[a], a \in dispatched')
    <3>1. CASE a \in op.on
      <4>1. attempts'[a] = Classified(a)
        BY <1>3, <3>1 DEF RecoverState
      <4>2. op.kind = "recover"
        BY <1>0, <2>1, <3>1 DEF HostCoherent, NoOp
      <4>3. /\ attempts[a].state \in InFlight /\ permits[a] = "none"
            /\ audit[a].outcome = IF attempts[a].state = "preparing" THEN "failed" ELSE "uncertain"
        BY <1>0, <2>1, <3>1, <4>2 DEF OpCoherent, OpSound, HostCoherent
      <4>4. /\ Classified(a).state = IF attempts[a].state = "preparing" THEN "failed" ELSE "uncertain"
            /\ Classified(a).by \in {"abandoned", "detail"}
        BY <1>0, ClassifiedType
      <4> QED
        BY <1>a, <2>1, <4>1, <4>3, <4>4
    <3>2. CASE a \notin op.on
      BY <1>3, <1>a, <2>1, <3>2 DEF RecoverState
    <3> QED
      BY <3>1, <3>2
  <2> QED
    BY <2>2 DEF AttemptsSound
<1>4. CASE Crash
  <2>1. UNCHANGED <<attempts, audit, dispatched>> /\ \A a \in Attempts : permits'[a] = "none"
    BY <1>4 DEF Crash
  <2> QED
    BY <1>a, <2>1, PermitEnds DEF AttemptsSound
<1>5. ASSUME NEW a \in Attempts, NEW c \in Caps, NEW r \in Requests, BeginSend(a, c, r)
      PROVE  AttemptsSound'
  <2>1. /\ UNCHANGED <<audit, permits, dispatched>> /\ attempts[a].state = "none"
        /\ attempts' = [attempts EXCEPT ![a] = [req |-> r, cap |-> c, epoch |-> epoch, gen |-> gen,
                                                state |-> "preparing", by |-> "none"]]
    BY <1>5 DEF BeginSend, Spent
  <2>2. /\ attempts'[a].state = "preparing" /\ attempts'[a].by = "none"
        /\ \A b \in Attempts \ {a} : attempts'[b] = attempts[b]
    BY <1>c, <2>1
  <2>3. audit[a] = NoEvidence /\ permits[a] = "none" /\ a \notin dispatched
    BY <1>a, <2>1
  <2>4. Sound(attempts'[a], audit'[a], permits'[a], a \in dispatched')
    BY <2>1, <2>2, <2>3 DEF NoEvidence
  <2> QED
    BY <1>0, <2>1, <2>2, <2>4, OneAttempt
<1>6. ASSUME NEW a \in Attempts, NEW appended \in BOOLEAN, BeginIntent(a, appended)
      PROVE  AttemptsSound'
  <2>1. attempts[a].state = "preparing" /\ audit[a].outcome = "none"
    BY <1>0, <1>6 DEF BeginIntent, OpCoherent, OpSound
  <2>2. CASE appended
    <3>1. /\ UNCHANGED <<attempts, dispatched>>
          /\ audit' = [audit EXCEPT ![a].intent = TRUE] /\ permits' = [permits EXCEPT ![a] = "held"]
      BY <1>6, <2>2 DEF BeginIntent
    <3>2. /\ audit'[a].intent /\ audit'[a].outcome = audit[a].outcome /\ audit'[a].by = audit[a].by
          /\ audit'[a].truths = audit[a].truths /\ audit'[a].wire = audit[a].wire
          /\ permits'[a] = "held"
      BY <1>a, <1>c, <3>1 DEF Evidence
    <3>3. \A b \in Attempts \ {a} : audit'[b] = audit[b] /\ permits'[b] = permits[b]
      BY <1>c, <3>1
    <3>4. Sound(attempts'[a], audit'[a], permits'[a], a \in dispatched')
      BY <1>a, <2>1, <3>1, <3>2
    <3> QED
      BY <1>0, <3>1, <3>3, <3>4, OneAttempt
  <2>3. CASE ~appended
    BY <1>6, <1>b, <2>3 DEF BeginIntent
  <2> QED
    BY <2>2, <2>3
<1>7. ASSUME NEW a \in Attempts, AdmitSending(a) PROVE AttemptsSound'
  <2>1. /\ UNCHANGED <<audit, dispatched>> /\ attempts[a].state = "preparing"
        /\ attempts' = [attempts EXCEPT ![a].state = "sending"]
        /\ permits' = [permits EXCEPT ![a] = "none"]
    BY <1>7 DEF AdmitSending
  <2>2. /\ attempts'[a].state = "sending" /\ attempts'[a].by = attempts[a].by
        /\ permits'[a] = "none"
    BY <1>a, <1>c, <2>1 DEF Attempt
  <2>3. \A b \in Attempts \ {a} : attempts'[b] = attempts[b] /\ permits'[b] = permits[b]
    BY <1>c, <2>1
  <2>4. Sound(attempts'[a], audit'[a], permits'[a], a \in dispatched')
    BY <1>a, <2>1, <2>2
  <2> QED
    BY <1>0, <2>1, <2>3, <2>4, OneAttempt
<1>8. ASSUME NEW a \in Attempts, NEW appended \in BOOLEAN, AdmitWire(a, appended)
      PROVE  AttemptsSound'
  <2>1. attempts[a].state = "sending" /\ audit[a].outcome = "none" /\ audit[a].intent
    BY <1>0, <1>8 DEF AdmitWire, OpCoherent, OpSound
  <2>2. CASE appended
    <3>1. /\ UNCHANGED <<attempts, dispatched>>
          /\ audit' = [audit EXCEPT ![a].wire = TRUE] /\ permits' = [permits EXCEPT ![a] = "admitted"]
      BY <1>8, <2>2 DEF AdmitWire
    <3>2. /\ audit'[a].intent = audit[a].intent /\ audit'[a].outcome = audit[a].outcome
          /\ audit'[a].by = audit[a].by /\ audit'[a].truths = audit[a].truths /\ audit'[a].wire
          /\ permits'[a] = "admitted"
      BY <1>a, <1>c, <3>1 DEF Evidence
    <3>3. \A b \in Attempts \ {a} : audit'[b] = audit[b] /\ permits'[b] = permits[b]
      BY <1>c, <3>1
    <3>4. Sound(attempts'[a], audit'[a], permits'[a], a \in dispatched')
      BY <1>a, <2>1, <3>1, <3>2
    <3> QED
      BY <1>0, <3>1, <3>3, <3>4, OneAttempt
  <2>3. CASE ~appended
    BY <1>8, <1>b, <2>3 DEF AdmitWire
  <2> QED
    BY <2>2, <2>3
<1>9. ASSUME NEW a \in Attempts, Dispatch(a) PROVE AttemptsSound'
  <2>1. /\ UNCHANGED <<attempts, audit, permits>> /\ permits[a] = "admitted"
        /\ dispatched' = dispatched \cup {a}
    BY <1>9 DEF Dispatch
  <2>2. Sound(attempts'[a], audit'[a], permits'[a], a \in dispatched')
    BY <1>a, <2>1
  <2> QED
    BY <1>0, <2>1, <2>2, OneAttempt
<1>10. ASSUME NEW a \in Attempts, DropPermit(a) PROVE AttemptsSound'
  <2>1. UNCHANGED <<attempts, audit, dispatched>> /\ permits' = [permits EXCEPT ![a] = "none"]
    BY <1>10 DEF DropPermit
  <2>2. permits'[a] = "none" /\ \A b \in Attempts \ {a} : permits'[b] = permits[b]
    BY <1>c, <2>1
  <2>3. Sound(attempts'[a], audit'[a], permits'[a], a \in dispatched')
    BY <1>a, <2>1, <2>2, PermitEnds
  <2> QED
    BY <1>0, <2>1, <2>2, <2>3, OneAttempt
<1>11. ASSUME NEW a \in Attempts, NEW outcome \in {"settled", "failed", "uncertain"},
              SettleAudit(a, outcome)
       PROVE  AttemptsSound'
  <2> DEFINE e == WithOutcome(audit[a], outcome, "detail")
  <2>1. /\ UNCHANGED <<attempts, dispatched>> /\ audit' = [audit EXCEPT ![a] = e]
        /\ permits' = [permits EXCEPT ![a] = "none"] /\ permits[a] # "none"
        /\ attempts[a].by # "reconciled"
    BY <1>11 DEF SettleAudit, SettleWrites
  <2>2. outcome = "failed" => a \notin dispatched
    BY <1>11 DEF SettleAudit, Reportable
  <2>3. outcome \in State /\ "detail" \in Settlement
    BY DEF State, Settlement
  <2>4. /\ e.outcome = outcome /\ e.by = "detail"
        /\ e.intent = audit[a].intent /\ e.wire = audit[a].wire /\ e.truths = audit[a].truths
    BY <1>a, <2>3, OutcomeType
  <2> HIDE DEF e
  <2>5. attempts[a].state \in InFlight
    BY <1>a, <2>1
  <2>6. Sound(attempts[a], e, "none", a \in dispatched)
    BY <1>a, <2>2, <2>4, <2>5
  <2>7. /\ audit'[a] = e /\ permits'[a] = "none"
        /\ \A b \in Attempts \ {a} : audit'[b] = audit[b] /\ permits'[b] = permits[b]
    BY <1>c, <2>1
  <2> QED
    BY <1>0, <2>1, <2>6, <2>7, OneAttempt
<1>12. ASSUME NEW a \in Attempts, NEW written \in BOOLEAN, SettleState(a, written)
       PROVE  AttemptsSound'
  <2>1. /\ UNCHANGED <<audit, permits, dispatched>> /\ attempts[a].state \in InFlight
        /\ audit[a].outcome = op.state /\ op.state # "none"
        /\ op.by = "detail" /\ permits[a] = "none"
    BY <1>0, <1>12 DEF SettleState, OpCoherent, OpSound
  <2>2. CASE written
    <3>1. attempts' = [attempts EXCEPT ![a].state = op.state, ![a].by = op.by]
      BY <1>12, <2>2 DEF SettleState
    <3>2. attempts'[a].state = op.state /\ attempts'[a].by = op.by
      BY <1>a, <1>c, <3>1 DEF Attempt
    <3>3. \A b \in Attempts \ {a} : attempts'[b] = attempts[b]
      BY <1>c, <3>1
    <3>4. op.state # "none" /\ op.state \notin InFlight
      BY <1>a, <2>1
    <3>5. Sound(attempts'[a], audit'[a], permits'[a], a \in dispatched')
      BY <1>a, <2>1, <3>2, <3>4
    <3> QED
      BY <1>0, <2>1, <3>3, <3>5, OneAttempt
  <2>3. CASE ~written
    BY <1>12, <1>b, <2>1, <2>3 DEF SettleState
  <2> QED
    BY <2>2, <2>3
<1>13. ASSUME NEW g \in grants, ApplyAudit(g) PROVE AttemptsSound'
  <2> DEFINE a == g.attempt
             truth == DispositionTruth(g.disposition)
  <2>1. a \in Attempts
    BY <1>0 DEF TypeOK, Grant
  <2>2. /\ UNCHANGED <<attempts, permits, dispatched>> /\ audit[a].truths \subseteq {truth}
        /\ audit' = [audit EXCEPT ![a].truths = @ \cup {truth}] /\ Applicable(g)
    BY <1>13 DEF ApplyAudit, Decided
  <2>3. attempts[a].state # "none"
    BY <2>2 DEF Applicable, PreWire
  <2> HIDE DEF a, truth
  <2>4. /\ audit'[a].outcome = audit[a].outcome /\ audit'[a].by = audit[a].by
        /\ audit'[a].intent = audit[a].intent /\ audit'[a].wire = audit[a].wire
        /\ audit'[a].truths = audit[a].truths \cup {truth}
    BY <1>a, <1>c, <2>1, <2>2 DEF Evidence
  <2>5. \A b \in Attempts \ {a} : audit'[b] = audit[b]
    BY <1>c, <2>1, <2>2
  <2>6. Sound(attempts'[a], audit'[a], permits'[a], a \in dispatched')
    BY <1>a, <2>1, <2>2, <2>3, <2>4
  <2> QED
    BY <1>0, <2>1, <2>2, <2>5, <2>6, OneAttempt
<1>14. ASSUME NEW a \in Attempts, NEW written \in BOOLEAN, ApplyState(a, written)
       PROVE  AttemptsSound'
  <2>1. /\ UNCHANGED <<audit, permits, dispatched>> /\ attempts[a].state # "none"
        /\ op.by = "reconciled" /\ \E t \in audit[a].truths : op.state = TruthState(t)
    BY <1>0, <1>14 DEF ApplyState, OpCoherent, OpSound
  <2>2. CASE op.live /\ written
    <3>1. attempts' = [attempts EXCEPT ![a].state = op.state, ![a].by = op.by]
      BY <1>14, <2>2 DEF ApplyState
    <3>2. attempts'[a].state = op.state /\ attempts'[a].by = op.by
      BY <1>a, <1>c, <3>1 DEF Attempt
    <3>3. \A b \in Attempts \ {a} : attempts'[b] = attempts[b]
      BY <1>c, <3>1
    <3>4. op.state \in {"settled", "failed", "discarded"}
      BY <1>a, <2>1, TruthDecides
    <3>5. Sound(attempts'[a], audit'[a], permits'[a], a \in dispatched')
      BY <1>a, <2>1, <3>2, <3>4
    <3> QED
      BY <1>0, <2>1, <3>3, <3>5, OneAttempt
  <2>3. CASE ~(op.live /\ written)
    BY <1>14, <1>b, <2>1, <2>3 DEF ApplyState
  <2> QED
    BY <2>2, <2>3
<1>15. ASSUME \/ LogTears
              \/ \E c \in Caps : SealCapability(c)
              \/ \E c \in Caps, r \in Requests : MintLease(c, r)
              \/ \E which \in {"epoch", "generation"} : Rotate(which)
              \/ \E a \in Attempts, d \in Disposition : MintGrant(a, d)
              \/ \E g \in grants : DropGrant(g)
       PROVE  UNCHANGED <<attempts, audit, permits, dispatched>>
  BY <1>15 DEF LogTears, SealCapability, MintLease, Rotate, MintGrant, DropGrant
<1>16. CASE UNCHANGED vars
  BY <1>16, <1>b DEF vars
<1> HIDE DEF Sound, RecordSound, LogSound, PermitSound, InFlight
<1> QED
  BY <1>1, <1>2, <1>3, <1>4, <1>5, <1>6, <1>7, <1>8, <1>9, <1>10, <1>11, <1>12, <1>13, <1>14,
     <1>15, <1>16, <1>b, Zenon DEF Next

-----------------------------------------------------------------------------
(* The operation in progress *)

\* What is in memory belongs to the running host.
LEMMA HostStep ==
    ASSUME TypeOK, HostCoherent, [Next]_vars
    PROVE  HostCoherent'
<1> USE DEF HostCoherent
<1>0. /\ NoOp.kind = "idle" /\ permits \in [Attempts -> {"none", "held", "admitted"}]
      /\ op \in Op
  BY DEF NoOp, TypeOK
<1>1. ASSUME NEW written \in BOOLEAN, Open(written) PROVE HostCoherent'
  BY <1>1, <1>0 DEF Open
<1>2. ASSUME NEW a \in Attempts, RecoverAudit(a) PROVE HostCoherent'
  BY <1>2 DEF RecoverAudit, NoOp, authority
<1>3. CASE RecoverState
  BY <1>3, <1>0 DEF RecoverState
<1>4. CASE Crash
  BY <1>4, <1>0 DEF Crash
<1>5. ASSUME UNCHANGED <<host, permits, op>> PROVE HostCoherent'
  BY <1>5
<1>6. CASE \/ LogTears
           \/ \E c \in Caps : SealCapability(c)
           \/ \E c \in Caps, r \in Requests : MintLease(c, r)
           \/ \E a \in Attempts, d \in Disposition : MintGrant(a, d)
           \/ \E g \in grants : DropGrant(g)
           \/ \E a \in Attempts : Dispatch(a)
           \/ UNCHANGED vars
  BY <1>5, <1>6 DEF LogTears, SealCapability, MintLease, MintGrant, DropGrant, Dispatch, authority, vars
<1>7. ASSUME NEW which \in {"epoch", "generation"}, Rotate(which) PROVE HostCoherent'
  <2>1. UNCHANGED <<host, permits>> /\ host = "up" /\ op'.kind = op.kind
    BY <1>0, <1>7 DEF Rotate, Op
  <2>2. op.kind = "idle" => op' = NoOp
    <3>1. op = NoOp => ~op.live
      BY DEF NoOp
    <3>2. ~op.live => [op EXCEPT !.live = FALSE] = op
      BY <1>0 DEF Op
    <3> QED
      BY <1>7, <3>1, <3>2 DEF Rotate
  <2> QED
    BY <2>1, <2>2
<1>8. ASSUME host = "up" \/ op.kind \notin {"idle", "recover"}, UNCHANGED host,
             op' = NoOp \/ op'.kind \in {"begin", "admit", "settle", "apply"}
      PROVE  HostCoherent'
  <2>1. host = "up"
    BY <1>8, <1>0 DEF TypeOK
  <2> QED
    BY <1>8, <1>0, <2>1
<1>9. ASSUME NEW a \in Attempts, NEW c \in Caps, NEW r \in Requests, BeginSend(a, c, r)
      PROVE  HostCoherent'
  BY <1>8, <1>9 DEF BeginSend, Spent, Idle, NoOp, authority
<1>10. ASSUME NEW a \in Attempts, NEW appended \in BOOLEAN,
              BeginIntent(a, appended) \/ AdmitWire(a, appended)
       PROVE  HostCoherent'
  BY <1>8, <1>10 DEF BeginIntent, AdmitWire, authority
<1>11. ASSUME NEW a \in Attempts, AdmitSending(a) PROVE HostCoherent'
  BY <1>8, <1>11 DEF AdmitSending, Idle, NoOp, authority
<1>12. ASSUME NEW a \in Attempts, DropPermit(a) PROVE HostCoherent'
  BY <1>12 DEF DropPermit, authority
<1>13. ASSUME NEW a \in Attempts, NEW outcome \in {"settled", "failed", "uncertain"},
              SettleAudit(a, outcome)
       PROVE  HostCoherent'
  BY <1>8, <1>13 DEF SettleAudit, SettleWrites, Idle, NoOp, authority
<1>14. ASSUME NEW a \in Attempts, NEW written \in BOOLEAN,
              SettleState(a, written) \/ ApplyState(a, written)
       PROVE  HostCoherent'
  BY <1>8, <1>14 DEF SettleState, ApplyState, authority
<1>15. ASSUME NEW g \in grants, ApplyAudit(g) PROVE HostCoherent'
  BY <1>8, <1>15 DEF ApplyAudit, Decided, Idle, authority
<1> HIDE DEF HostCoherent
<1> QED
  BY <1>1, <1>2, <1>3, <1>4, <1>6, <1>7, <1>9, <1>10, <1>11, <1>12, <1>13, <1>14, <1>15, Zenon
     DEF Next

\* One file stays ahead of the other until the operation is over.
LEMMA OpStep ==
    ASSUME IInv, [Next]_vars
    PROVE  OpCoherent'
<1>0. TypeOK /\ AttemptsSound /\ HostCoherent /\ OpCoherent
  BY DEF IInv
<1>a. ASSUME NEW a \in Attempts
      PROVE  /\ attempts[a] \in Attempt /\ audit[a] \in Evidence
             /\ permits[a] \in {"none", "held", "admitted"}
             /\ Sound(attempts[a], audit[a], permits[a], a \in dispatched)
  BY <1>0, PartTypes DEF AttemptsSound
<1>b. /\ attempts \in [Attempts -> Attempt] /\ audit \in [Attempts -> Evidence]
      /\ permits \in [Attempts -> {"none", "held", "admitted"}] /\ op.on \subseteq Attempts
  BY <1>0 DEF TypeOK, Op
<1>c. NoOp.on = {} /\ NoOp.kind = "idle"
  BY DEF NoOp
<1>1. ASSUME op' = NoOp PROVE OpCoherent'
  BY <1>1, <1>c DEF OpCoherent
<1>2. CASE \/ RecoverState \/ Crash
           \/ \E a \in Attempts, appended \in BOOLEAN : BeginIntent(a, appended) \/ AdmitWire(a, appended)
           \/ \E a \in Attempts, written \in BOOLEAN : SettleState(a, written) \/ ApplyState(a, written)
  BY <1>1, <1>2 DEF RecoverState, Crash, BeginIntent, AdmitWire, SettleState, ApplyState
<1>3. CASE \E written \in BOOLEAN : Open(written)
  BY <1>0, <1>1, <1>3 DEF Open, HostCoherent
<1>4. ASSUME UNCHANGED <<attempts, audit>>,
             op'.kind = op.kind, op'.on = op.on, op'.state = op.state, op'.by = op.by,
             \A a \in Attempts : permits'[a] \in {permits[a], "none"}
      PROVE  OpCoherent'
  BY <1>0, <1>4, <1>b DEF OpCoherent, OpSound
<1>5. CASE \/ LogTears
           \/ \E c \in Caps : SealCapability(c)
           \/ \E c \in Caps, r \in Requests : MintLease(c, r)
           \/ \E a \in Attempts, d \in Disposition : MintGrant(a, d)
           \/ \E g \in grants : DropGrant(g)
           \/ \E a \in Attempts : Dispatch(a)
           \/ UNCHANGED vars
  BY <1>4, <1>5 DEF LogTears, SealCapability, MintLease, MintGrant, DropGrant, Dispatch, vars
<1>6. ASSUME NEW which \in {"epoch", "generation"}, Rotate(which) PROVE OpCoherent'
  BY <1>0, <1>4, <1>6 DEF Rotate, Op, TypeOK
<1>7. ASSUME NEW a \in Attempts, DropPermit(a) PROVE OpCoherent'
  BY <1>4, <1>7, <1>b DEF DropPermit
<1>8. ASSUME NEW a \in Attempts, RecoverAudit(a) PROVE OpCoherent'
  <2> DEFINE e == WithOutcome(audit[a], Classified(a).state, Classified(a).by)
  <2>1. /\ UNCHANGED <<attempts, permits>> /\ audit' = [audit EXCEPT ![a] = e]
        /\ op' = [NoOp EXCEPT !.kind = "recover", !.on = op.on \cup {a}]
        /\ host = "recovering" /\ attempts[a].state \in InFlight
    BY <1>8 DEF RecoverAudit, Incomplete
  <2>2. op'.kind = "recover" /\ op'.on = op.on \cup {a}
    BY <2>1 DEF NoOp
  <2>3. Classified(a).state = IF attempts[a].state = "preparing" THEN "failed" ELSE "uncertain"
    BY <1>0, ClassifiedType
  <2>4. Classified(a).state \in State /\ Classified(a).by \in Settlement
    BY <1>0, ClassifiedType DEF Attempt
  <2>5. e.outcome = Classified(a).state
    BY <1>a, <2>4, OutcomeType
  <2> HIDE DEF e
  <2>6. audit'[a] = e /\ \A b \in Attempts \ {a} : audit'[b] = audit[b]
    BY <1>b, <2>1
  <2>7. op.on # {} => op.kind = "recover"
    BY <1>0, <1>c, <2>1 DEF HostCoherent
  <2>8. ASSUME NEW b \in op'.on PROVE OpSound(op', attempts'[b], audit'[b], permits'[b])
    <3>1. CASE b = a
      BY <2>1, <2>2, <2>3, <2>5, <2>6, <3>1 DEF OpSound
    <3>2. CASE b # a
      BY <1>0, <1>b, <2>1, <2>2, <2>6, <2>7, <2>8, <3>2 DEF OpCoherent, OpSound
    <3> QED
      BY <3>1, <3>2
  <2> QED
    BY <2>8 DEF OpCoherent
<1>9. ASSUME NEW a \in Attempts, NEW c \in Caps, NEW r \in Requests, BeginSend(a, c, r)
      PROVE  OpCoherent'
  <2>1. /\ attempts'[a].state = "preparing" /\ UNCHANGED audit /\ attempts[a].state = "none"
        /\ op'.kind = "begin" /\ op'.on = {a}
    BY <1>9, <1>b DEF BeginSend, Spent, NoOp
  <2>2. audit[a] = NoEvidence
    BY <1>a, <2>1 DEF Sound, RecordSound
  <2> QED
    BY <2>1, <2>2 DEF OpCoherent, OpSound, NoEvidence
<1>10. ASSUME NEW a \in Attempts, AdmitSending(a) PROVE OpCoherent'
  <2>1. /\ attempts'[a].state = "sending" /\ UNCHANGED audit /\ permits[a] = "held"
        /\ op'.kind = "admit" /\ op'.on = {a}
    BY <1>10, <1>a, <1>b DEF AdmitSending, NoOp, Attempt
  <2>2. audit[a].intent /\ audit[a].outcome = "none"
    BY <1>a, <2>1 DEF Sound, PermitSound
  <2> QED
    BY <2>1, <2>2 DEF OpCoherent, OpSound
<1>11. ASSUME NEW a \in Attempts, NEW outcome \in {"settled", "failed", "uncertain"},
              SettleAudit(a, outcome)
       PROVE  OpCoherent'
  <2> DEFINE e == WithOutcome(audit[a], outcome, "detail")
  <2>1. /\ UNCHANGED attempts /\ audit' = [audit EXCEPT ![a] = e]
        /\ permits' = [permits EXCEPT ![a] = "none"] /\ permits[a] # "none"
        /\ attempts[a].by # "reconciled"
        /\ op' = [NoOp EXCEPT !.kind = "settle", !.on = {a}, !.state = outcome, !.by = "detail"]
    BY <1>11 DEF SettleAudit, SettleWrites
  <2>2. outcome \in State /\ "detail" \in Settlement
    BY DEF State, Settlement
  <2>3. e.outcome = outcome
    BY <1>a, <2>2, OutcomeType
  <2> HIDE DEF e
  <2>4. attempts[a].state \in InFlight
    BY <1>a, <2>1 DEF Sound, PermitSound
  <2>5. /\ op'.kind = "settle" /\ op'.on = {a} /\ op'.state = outcome /\ op'.by = "detail"
        /\ audit'[a] = e /\ permits'[a] = "none"
    BY <1>b, <2>1 DEF NoOp
  <2> QED
    BY <2>1, <2>3, <2>4, <2>5 DEF OpCoherent, OpSound
<1>12. ASSUME NEW g \in grants, ApplyAudit(g) PROVE OpCoherent'
  <2> DEFINE a == g.attempt
             truth == DispositionTruth(g.disposition)
  <2>1. a \in Attempts /\ truth \in Truth
    BY <1>0 DEF TypeOK, Grant, DispositionTruth, Truth
  <2>2. /\ UNCHANGED attempts /\ Applicable(g) /\ audit' = [audit EXCEPT ![a].truths = @ \cup {truth}]
        /\ op'.kind = "apply" /\ op'.on = {a} /\ op'.by = "reconciled"
        /\ op'.state = TruthState(truth)
    BY <1>12 DEF ApplyAudit, Decided
  <2>3. attempts[a].state \in {"preparing", "uncertain"}
    BY <2>2 DEF Applicable, PreWire, AlreadyMatches
  <2> HIDE DEF a, truth
  <2>4. truth \in audit'[a].truths
    BY <1>a, <1>b, <2>1, <2>2 DEF Evidence
  <2>5. attempts[a].by # "reconciled"
    <3>1. ASSUME NEW t \in audit[a].truths PROVE TruthState(t) \notin {"preparing", "uncertain"}
      BY <1>a, <2>1, TruthDecides DEF Evidence
    <3> QED
      BY <1>a, <2>1, <2>3, <3>1 DEF Sound, RecordSound
  <2> QED
    BY <2>2, <2>3, <2>4, <2>5 DEF OpCoherent, OpSound
<1> QED
  BY <1>2, <1>3, <1>5, <1>6, <1>7, <1>8, <1>9, <1>10, <1>11, <1>12, Zenon DEF Next

-----------------------------------------------------------------------------
(* Theorems *)

\* What a step may do to a record: a decided one is left alone, and only begin_send makes a
\* record unresolved that was not, for a request that has none.
RecordKept(a) ==
    /\ attempts[a].by = "reconciled" => attempts'[a] = attempts[a]
    /\ attempts'[a].state \in Unresolved =>
          attempts[a].state \in Unresolved /\ attempts'[a].req = attempts[a].req

RecordBegins(a) ==
    /\ attempts[a].by # "reconciled"
    /\ ~Ambiguous(attempts'[a].req)
    /\ \A b \in Attempts \ {a} : attempts'[b] = attempts[b]

\* Every step keeps the records that are closed, or begins one attempt of a request that had
\* none unresolved.
LEMMA RecordStep ==
    ASSUME IInv, [Next]_vars
    PROVE  (\A a \in Attempts : RecordKept(a)) \/ (\E a \in Attempts : RecordBegins(a))
<1>0. TypeOK /\ AttemptsSound /\ HostCoherent /\ OpCoherent
  BY DEF IInv
<1>a. ASSUME NEW a \in Attempts
      PROVE  /\ attempts[a] \in Attempt /\ audit[a].truths \subseteq Truth
             /\ Sound(attempts[a], audit[a], permits[a], a \in dispatched)
  BY <1>0, PartTypes DEF AttemptsSound
<1>b. attempts \in [Attempts -> Attempt] /\ op.on \subseteq Attempts
  BY <1>0 DEF TypeOK, Op
<1>c. ASSUME UNCHANGED attempts PROVE \A a \in Attempts : RecordKept(a)
  BY <1>c DEF RecordKept
<1>d. ASSUME NEW a \in Attempts, RecordKept(a),
             \A b \in Attempts \ {a} : attempts'[b] = attempts[b]
      PROVE  \A b \in Attempts : RecordKept(b)
  BY <1>d DEF RecordKept
<1>e. ASSUME NEW a \in Attempts, attempts[a].state \in InFlight
      PROVE  attempts[a].by # "reconciled"
  BY <1>a, <1>e DEF Sound, RecordSound
<1>1. ASSUME NEW written \in BOOLEAN, Open(written) PROVE \A a \in Attempts : RecordKept(a)
  <2>1. CASE UNCHANGED attempts
    BY <1>c, <2>1
  <2>2. CASE attempts' = [a \in Attempts |-> Replayed(a)]
    <3>1. \A a \in Attempts : permits[a] = "none"
      BY <1>0, <1>1 DEF Open, HostCoherent
    <3> QED
      BY <1>0, <2>2, <3>1, ReplaySound DEF RecordKept
  <2> QED
    BY <1>1, <2>1, <2>2 DEF Open
<1>2. ASSUME RecoverState PROVE \A a \in Attempts : RecordKept(a)
  <2> SUFFICES ASSUME NEW a \in Attempts PROVE RecordKept(a)
    OBVIOUS
  <2>1. CASE a \in op.on
    <3>1. attempts[a].state \in InFlight
      BY <1>2, <2>1 DEF RecoverState, Incomplete
    <3>2. attempts'[a] = Classified(a)
      BY <1>2, <2>1 DEF RecoverState
    <3> QED
      BY <1>0, <1>e, <3>1, <3>2, ClassifiedType DEF RecordKept, Unresolved
  <2>2. CASE a \notin op.on
    BY <1>2, <2>2 DEF RecoverState, RecordKept
  <2> QED
    BY <2>1, <2>2
<1>3. ASSUME NEW a \in Attempts, NEW c \in Caps, NEW r \in Requests, BeginSend(a, c, r)
      PROVE  RecordBegins(a)
  <2>1. /\ attempts[a].state = "none" /\ ~Ambiguous(r) /\ attempts'[a].req = r
        /\ \A b \in Attempts \ {a} : attempts'[b] = attempts[b]
    BY <1>3, <1>b DEF BeginSend, Spent
  <2>2. attempts[a].by # "reconciled"
    BY <1>a, <2>1 DEF Sound, RecordSound, NoAttempt
  <2> QED
    BY <2>1, <2>2 DEF RecordBegins
<1>4. ASSUME NEW a \in Attempts, AdmitSending(a) PROVE \A b \in Attempts : RecordKept(b)
  <2>1. /\ attempts[a].state = "preparing" /\ attempts'[a].req = attempts[a].req
        /\ \A b \in Attempts \ {a} : attempts'[b] = attempts[b]
    BY <1>4, <1>a, <1>b DEF AdmitSending, Attempt
  <2>2. RecordKept(a)
    BY <1>e, <2>1 DEF RecordKept, Unresolved, InFlight
  <2> QED
    BY <1>d, <2>1, <2>2
<1>5. ASSUME NEW a \in Attempts, NEW written \in BOOLEAN, SettleState(a, written)
      PROVE  \A b \in Attempts : RecordKept(b)
  <2>1. attempts[a].state \in InFlight
    BY <1>0, <1>5 DEF SettleState, OpCoherent, OpSound
  <2>2. /\ attempts'[a].req = attempts[a].req
        /\ \A b \in Attempts \ {a} : attempts'[b] = attempts[b]
    BY <1>5, <1>a, <1>b DEF SettleState, Attempt
  <2>3. RecordKept(a)
    BY <1>e, <2>1, <2>2 DEF RecordKept, Unresolved
  <2> QED
    BY <1>d, <2>2, <2>3
<1>6. ASSUME NEW a \in Attempts, NEW written \in BOOLEAN, ApplyState(a, written)
      PROVE  \A b \in Attempts : RecordKept(b)
  <2>1. /\ attempts[a].by # "reconciled"
        /\ \E t \in audit[a].truths : op.state = TruthState(t)
    BY <1>0, <1>6 DEF ApplyState, OpCoherent, OpSound
  <2>2. op.state \in {"settled", "failed", "discarded"}
    BY <1>a, <2>1, TruthDecides
  <2>3. CASE op.live /\ written
    <3>1. /\ attempts'[a].state = op.state
          /\ \A b \in Attempts \ {a} : attempts'[b] = attempts[b]
      BY <1>6, <1>a, <1>b, <2>3 DEF ApplyState, Attempt
    <3>2. RecordKept(a)
      BY <2>1, <2>2, <3>1 DEF RecordKept, Unresolved, InFlight
    <3> QED
      BY <1>d, <3>1, <3>2
  <2>4. CASE ~(op.live /\ written)
    BY <1>6, <1>c, <2>4 DEF ApplyState
  <2> QED
    BY <2>3, <2>4
<1>7. ASSUME \/ Crash \/ LogTears
             \/ \E a \in Attempts : RecoverAudit(a) \/ Dispatch(a) \/ DropPermit(a)
             \/ \E c \in Caps : SealCapability(c)
             \/ \E c \in Caps, r \in Requests : MintLease(c, r)
             \/ \E which \in {"epoch", "generation"} : Rotate(which)
             \/ \E a \in Attempts, appended \in BOOLEAN : BeginIntent(a, appended) \/ AdmitWire(a, appended)
             \/ \E a \in Attempts, d \in Disposition : MintGrant(a, d)
             \/ \E g \in grants : DropGrant(g)
             \/ UNCHANGED vars
      PROVE  UNCHANGED attempts
  BY <1>7 DEF Crash, LogTears, RecoverAudit, Dispatch, DropPermit, SealCapability, MintLease,
     Rotate, BeginIntent, AdmitWire, MintGrant, DropGrant, vars
<1>8. ASSUME \/ \E a \in Attempts, outcome \in {"settled", "failed", "uncertain"} : SettleAudit(a, outcome)
             \/ \E g \in grants : ApplyAudit(g)
      PROVE  UNCHANGED attempts
  BY <1>8 DEF SettleAudit, SettleWrites, ApplyAudit, Decided
<1> QED
  BY <1>1, <1>2, <1>3, <1>4, <1>5, <1>6, <1>7, <1>8, <1>c, Zenon DEF Next

\* The unresolved attempts of one request stay one.
LEMMA UnresolvedStep ==
    ASSUME IInv, [Next]_vars
    PROVE  OneUnresolvedAttempt'
<1>1. CASE \A a \in Attempts : RecordKept(a)
  BY <1>1 DEF IInv, OneUnresolvedAttempt, RecordKept
<1>2. ASSUME NEW a \in Attempts, RecordBegins(a) PROVE OneUnresolvedAttempt'
  BY <1>2 DEF IInv, OneUnresolvedAttempt, RecordBegins, Ambiguous
<1> QED
  BY <1>1, <1>2, RecordStep

\* A home without attempts is coherent.
LEMMA InitInv == Init => IInv
<1> SUFFICES ASSUME Init PROVE IInv
  OBVIOUS
<1>1. TypeOK
  <2>1. NoAttempt \in Attempt
    BY BoundNat DEF NoAttempt, Attempt, State, Settlement
  <2>2. NoEvidence \in Evidence /\ NoOp \in Op
    BY DEF NoEvidence, Evidence, NoOp, Op, State, Settlement
  <2> QED
    BY <2>1, <2>2, BoundNat DEF Init, TypeOK
<1>2. AttemptsSound
  BY DEF Init, AttemptsSound, Sound, RecordSound, LogSound, PermitSound, NoAttempt, NoEvidence, InFlight
<1>3. HostCoherent /\ OpCoherent
  BY DEF Init, HostCoherent, OpCoherent, NoOp
<1>4. OneUnresolvedAttempt
  BY DEF Init, OneUnresolvedAttempt, NoAttempt, Unresolved, InFlight
<1> QED
  BY <1>1, <1>2, <1>3, <1>4 DEF IInv

\* The invariant holds of every state of the authority.
LEMMA Invariant == Spec => []IInv
<1>1. IInv /\ [Next]_vars => IInv'
  BY TypeStep, HostStep, AttemptsStep, OpStep, UnresolvedStep DEF IInv
<1> QED
  BY <1>1, InitInv, PTL DEF Spec

\* Every record, permit, grant and piece of evidence keeps its shape; a replayed record is a
\* record of the same lattice.
THEOREM TypeCorrectness == Spec => []TypeOK
BY Invariant, PTL DEF IInv

\* No byte leaves without its intent and its wire admission in the log, for any number of
\* attempts and whichever write fails or process ends between the two files.
THEOREM SendsHaveEvidence == Spec => []WireHasEvidence
<1>1. IInv => WireHasEvidence
  BY DEF IInv, TypeOK, AttemptsSound, Sound, LogSound, WireHasEvidence
<1> QED
  BY <1>1, Invariant, PTL

\* A request has at most one attempt that is preparing, sending or uncertain: recovery and
\* replay never reopen an attempt behind which the request was sent again.
THEOREM NoSecondSend == Spec => []OneUnresolvedAttempt
BY Invariant, PTL DEF IInv

\* Unless an operator said so, an attempt is reported as failed only if it was never handed to
\* the transport.
THEOREM FailedIsHonest == Spec => []FailedWasNotSent
<1>1. IInv => FailedWasNotSent
  BY DEF IInv, AttemptsSound, Sound, RecordSound, LogSound, FailedWasNotSent, InFlight
<1> QED
  BY <1>1, Invariant, PTL

\* Whatever a classified record says is in the audit log: as its last outcome or as a truth.
THEOREM OutcomesAreAudited == Spec => []OutcomeHasEvidence
<1>1. IInv => OutcomeHasEvidence
  BY DEF IInv, AttemptsSound, Sound, RecordSound, OutcomeHasEvidence
<1> QED
  BY <1>1, Invariant, PTL

\* No settlement, recovery, replay or second decision changes a reconciled record.
THEOREM DecisionsAreFinal == Spec => DecisionIsFinal
<1>1. IInv /\ [Next]_vars =>
        [\A a \in Attempts : attempts[a].by = "reconciled" => attempts'[a] = attempts[a]]_vars
  BY RecordStep DEF RecordKept, RecordBegins
<1> QED
  BY <1>1, Invariant, PTL DEF Spec, DecisionIsFinal

=============================================================================
