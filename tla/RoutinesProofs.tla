--------------------------- MODULE RoutinesProofs ---------------------------
(***************************************************************************)
(* Proofs about Routines: with crashes between any two files and intents   *)
(* that could not be committed, an occurrence makes at most one Work item, *)
(* no commit takes back what happened to an item since, and the schedule   *)
(* moves past no slot that its policy owes a receipt.                      *)
(*                                                                         *)
(* Most of the argument is about the intents that are left.  In a running  *)
(* store such an intent exists only because the lane was full when its     *)
(* item was to be written; items are never removed, so the lane stays full *)
(* and a second intent for the same occurrence cannot make an item either. *)
(***************************************************************************)
EXTENDS Routines, FiniteSetTheorems, WellFoundedInduction, TLAPS

Items == {a \in Activations : Exists(a)}
Full == Cardinality(Items) >= Capacity

\* The failures that are counted have not opened the circuit yet.
CircuitCoherent == ~routine.circuit => routine.fails < CircuitFailures

Writing == {"work", "activation", "dedupe", "clear"}
JobIntent == [act |-> job.act, key |-> job.key, disp |-> job.disp]

\* What the holder of the lock has written at each stage.
JobCoherent ==
    /\ job # NoJob => store \in {"up", "opening"}
    /\ job.stage = "idle" => job = NoJob
    /\ job.stage = "pass" => job.pass
    /\ job.pass \/ job.stage \in {"pass", "record", "prune"} => store = "up"
    /\ job.stage = "record" =>
          /\ issued < MaxActivations /\ job.key \in Keys
          /\ job.disp \in Disposition \ {"created_work"}
    /\ job.stage \in Writing => JobIntent \in intents
    /\ job.stage = "work" => job.disp = "created_work"
    /\ job.stage \in {"activation", "dedupe", "clear"} /\ job.disp = "created_work" =>
          Exists(job.act)
    /\ job.stage = "clear" => dedupe[job.key] # NoReceipt

\* Activation ids are given out once.
IdsCoherent ==
    /\ \A i \in intents : i.act <= issued
    /\ \A i, j \in intents : i.act = j.act => i = j
    /\ \A a \in Activations : Exists(a) => a <= issued

\* In a running store, every intent but the one being committed was refused: its item does
\* not exist, and the lane is full.
LeftOver(i) == i.disp = "created_work" /\ ~Exists(i.act) /\ Full

LeftOversRefused ==
    store = "up" =>
       \A i \in intents : (job.stage \in Writing /\ i.act = job.act) \/ LeftOver(i)

\* The item of an occurrence has a receipt, or an intent that will write one.
ItemsAnswered ==
    \A a \in Activations : Exists(a) =>
       \/ dedupe[works[a].key] # NoReceipt
       \/ \E i \in intents : i.act = a /\ i.key = works[a].key

\* An item that an intent has made is as the intent made it.
ItemsUntouched ==
    \A i \in intents : Exists(i.act) =>
       works[i.act] = [state |-> "queued", key |-> i.key] /\ i.disp = "created_work"

\* Only one intent may still make an item, for an occurrence that has none, unless the lane
\* is full and none can.
OneMaker ==
    \A i \in intents : i.disp = "created_work" =>
       \/ Full
       \/ /\ \A j \in intents : j.disp = "created_work" => j = i
          /\ ~Exists(i.act) => \A a \in Activations : Exists(a) => works[a].key # i.key

\* During a pass, the slots it was to activate are still to come or have been answered.
PassCovers ==
    job.pass /\ IsDue => \A s \in DueOccurrences : s \in job.due \/ Answered(s)

IInv ==
    /\ TypeOK /\ CircuitCoherent /\ JobCoherent /\ IdsCoherent /\ LeftOversRefused
    /\ ItemsAnswered /\ ItemsUntouched /\ OneMaker /\ OneWorkPerOccurrence /\ PassCovers

-----------------------------------------------------------------------------
(* Numbers and instants *)

\* The library states that the natural numbers are well ordered for a relation it builds from
\* an operator; this is that relation.
LEMMA LessThan == \A x, y \in Nat : (<<y, x>> \in OpToRel(<, Nat)) <=> y < x
<1>1. OpToRel(<, Nat) = {p \in Nat \X Nat : p[1] < p[2]}
  BY Zenon DEF OpToRel
<1> QED
  BY <1>1

\* A set of instants that is not empty has an earliest one.
LEMMA LeastExists ==
    ASSUME NEW S \in SUBSET Nat, S # {}
    PROVE  \E s \in S : \A t \in S : s <= t
<1>1. \E R : IsWellFoundedOn(R, Nat) /\ \A x, y \in Nat : (<<y, x>> \in R) <=> y < x
  BY NatLessThanWellFounded, LessThan, Zenon
<1>2. PICK R : IsWellFoundedOn(R, Nat) /\ \A x, y \in Nat : (<<y, x>> \in R) <=> y < x
  BY <1>1
<1>3. \E x \in S : \A y \in S : ~(<<y, x>> \in R)
  BY <1>2, WFMin
<1>4. PICK x \in S : \A y \in S : ~(<<y, x>> \in R)
  BY <1>3
<1>5. \A y \in S : ~(y < x)
  BY <1>2, <1>4, Zenon
<1> QED
  BY <1>5

\* Least finds it.
LEMMA LeastIsLeast ==
    ASSUME NEW S \in SUBSET Nat
    PROVE  /\ Least(S) \in Nat \cup {Never}
           /\ S # {} => Least(S) \in S /\ \A t \in S : Least(S) <= t
           /\ S = {} => Least(S) = Never
<1>1. CASE S = {}
  BY <1>1 DEF Least
<1>2. CASE S # {}
  <2>1. \E s \in S : \A t \in S : s <= t
    BY <1>2, LeastExists
  <2>2. Least(S) \in S /\ \A t \in S : Least(S) <= t
    BY <1>2, <2>1 DEF Least
  <2> QED
    BY <1>2, <2>2
<1> QED
  BY <1>1, <1>2

\* The factors of the backoff.
LEMMA PowersOfTwo == \A n \in 0..10 : 2 ^ n \in Nat \ {0}
<1> SUFFICES ASSUME NEW n \in 0..10 PROVE 2 ^ n \in Nat \ {0}
  OBVIOUS
<1> DEFINE P(k) == 2 ^ k \in Nat \ {0}
<1>1. \/ n = 0 \/ n = 1 \/ n = 2 \/ n = 3 \/ n = 4 \/ n = 5 \/ n = 6 \/ n = 7 \/ n = 8
      \/ n = 9 \/ n = 10
  OBVIOUS
<1>2. P(0) /\ P(1) /\ P(2) /\ P(3) /\ P(4) /\ P(5) /\ P(6) /\ P(7) /\ P(8) /\ P(9) /\ P(10)
  OBVIOUS
<1> QED
  BY <1>1, <1>2, Zenon

\* The backoff base times a positive factor is positive.
LEMMA Product == ASSUME NEW m \in Nat \ {0}, NEW n \in Nat \ {0} PROVE m * n \in Nat \ {0}
OBVIOUS

\* A backoff is never empty: a failed activation moves the schedule past the present.
LEMMA DelayIsPositive ==
    ASSUME NEW fails \in Nat \ {0}
    PROVE  DelayAfter(fails) \in Nat \ {0}
<1> DEFINE shift == IF fails - 1 < 10 THEN fails - 1 ELSE 10
<1> DEFINE power == 2 ^ shift
<1> DEFINE scaled == Backoff * power
<1>1. shift \in 0..10
  OBVIOUS
<1>2. power \in Nat \ {0}
  <2> HIDE DEF shift
  <2> QED
    BY <1>1, PowersOfTwo, Zenon
<1>3. Backoff \in Nat \ {0} /\ MaxBackoff \in Nat \ {0}
  BY BoundsAssumption
<1>4. scaled \in Nat \ {0}
  <2> HIDE DEF power
  <2> QED
    BY <1>2, <1>3, Product
<1>5. DelayAfter(fails) = IF scaled < MaxBackoff THEN scaled ELSE MaxBackoff
  BY Zenon DEF DelayAfter
<1> HIDE DEF scaled
<1> QED
  BY <1>3, <1>4, <1>5

\* The parts of a trigger.
LEMMA TriggerType ==
    ASSUME NEW t \in Triggers
    PROVE  /\ t.kind \in {"recurring", "one_shot"} /\ t.slots \in SUBSET Nat
           /\ t.expires \in Nat \cup {Never}
           /\ t.kind = "one_shot" => Cardinality(t.slots) = 1
BY TriggersAssumption DEF Trigger

\* The next slot, and the first one.
LEMMA NextAfterType ==
    ASSUME trigger \in Triggers, now \in Nat
    PROVE  NextAfter(now) \in Nat \cup {Never}
<1> DEFINE S == {s \in trigger.slots : s > now}
<1>1. S \in SUBSET Nat
  BY TriggerType
<1> QED
  BY <1>1, LeastIsLeast DEF NextAfter

\* The first fire time of a routine is an instant, or never.
LEMMA InitialNextFireType ==
    ASSUME NEW t \in Triggers, NEW time \in Nat
    PROVE  InitialNextFire(t, time) \in Nat \cup {Never}
<1>1. t.slots \in SUBSET Nat /\ {s \in t.slots : s >= time} \in SUBSET Nat
  BY TriggerType
<1>2. /\ Least(t.slots) \in Nat \cup {Never}
      /\ Least({s \in t.slots : s >= time}) \in Nat \cup {Never}
  BY <1>1, LeastIsLeast
<1> QED
  BY <1>2 DEF InitialNextFire

\* The slots a pass activates lie in the past.
LEMMA DueType ==
    ASSUME trigger \in Triggers, missed \in MissedRunPolicy, routine \in RoutineRecord,
           now \in Instant, IsDue
    PROVE  DueOccurrences \in SUBSET Instant
<1> DEFINE slots == OccurrencesThrough(routine.next, now, CatchUpLimit + 1)
<1>1. MaxTime \in Nat /\ now \in 0..MaxTime /\ trigger.slots \in SUBSET Nat
  BY BoundsAssumption, TriggerType DEF Instant
<1>2. routine.next \in Instant
  BY <1>1 DEF IsDue, RoutineRecord, Instant
<1>3. slots \in SUBSET Instant
  BY <1>1 DEF OccurrencesThrough, Earliest, Instant
<1>4. \A n : Latest(slots, n) \in SUBSET Instant
  <2> HIDE DEF slots
  <2> QED
    BY <1>3 DEF Latest
<1>5. DueOccurrences \in {{}, {routine.next}, slots, Latest(slots, 1), Latest(slots, CatchUpLimit)}
  <2>1. \/ trigger.kind = "one_shot" /\ trigger.expires # Never /\ trigger.expires < now
        \/ trigger.kind = "one_shot" \/ slots = {}
        \/ missed = "skip" /\ Cardinality(slots) = 1
        \/ missed = "skip" /\ Cardinality(slots) # 1
        \/ missed = "coalesce"
        \/ missed = "catch_up"
    BY Zenon DEF MissedRunPolicy
  <2> QED
    BY <2>1 DEF DueOccurrences
<1> QED
  BY <1>2, <1>3, <1>4, <1>5

-----------------------------------------------------------------------------
(* Types *)

\* The bounds are numbers.
LEMMA BoundsType ==
    /\ MaxTime \in Nat /\ MaxActivations \in Nat /\ MaxCrashes \in Nat /\ Capacity \in Nat
    /\ CircuitFailures \in Nat \ {0} /\ CatchUpLimit \in Nat \ {0}
    /\ Activations = 1..MaxActivations /\ Instant = 0..MaxTime
BY BoundsAssumption DEF Activations, Instant

\* A free lock.
LEMMA NoJobType == NoJob \in Job
BY DEF NoJob, Job, Stage

\* What an intent and the job that commits it look like.
LEMMA PersistType ==
    ASSUME TypeOK, NEW key \in Keys, NEW disp \in Disposition, NEW due \in SUBSET Instant,
           NEW pass \in BOOLEAN, issued < MaxActivations, PersistIntent(key, disp, due, pass)
    PROVE  /\ issued' \in 0..MaxActivations /\ intents' \subseteq Intent /\ job' \in Job
           /\ issued + 1 \in Activations
<1>1. issued \in Nat /\ issued + 1 \in Activations
  BY BoundsType DEF TypeOK
<1>2. issued' \in 0..MaxActivations
  BY <1>1, BoundsType DEF PersistIntent
<1>3. intents' \subseteq Intent
  BY <1>1 DEF PersistIntent, TypeOK, Intent
<1>4. job' \in Job
  BY <1>1 DEF PersistIntent, Job, Stage
<1> QED
  BY <1>1, <1>2, <1>3, <1>4

\* A failure is counted, and moves the schedule or opens the circuit.
LEMMA FailedType ==
    ASSUME TypeOK, CircuitCoherent, ~routine.circuit
    PROVE  /\ Failed \in RoutineRecord /\ Failed.fails <= CircuitFailures
           /\ ~Failed.circuit => Failed.fails < CircuitFailures
           /\ Failed.next # Never => Failed.next > now
           /\ Failed.fails # routine.fails
<1> DEFINE fails == routine.fails + 1
<1>1. routine \in RoutineRecord /\ routine.fails \in Nat /\ now \in Nat
  BY BoundsType DEF TypeOK, RoutineRecord
<1>2. fails \in Nat \ {0} /\ fails <= CircuitFailures /\ fails # routine.fails
  BY <1>1, BoundsType DEF CircuitCoherent
<1>3. DelayAfter(fails) \in Nat \ {0}
  BY <1>2, DelayIsPositive
<1>4. CASE fails >= CircuitFailures
  <2>1. Failed = [life |-> "paused", next |-> Never, fails |-> fails, circuit |-> TRUE]
    BY <1>4 DEF Failed
  <2> HIDE DEF fails
  <2> QED
    BY <1>2, <2>1 DEF RoutineRecord, Lifecycle
<1>5. CASE ~(fails >= CircuitFailures)
  <2> DEFINE delay == DelayAfter(fails)
  <2>1. Failed = [routine EXCEPT !.fails = fails, !.next = now + delay]
    BY <1>5 DEF Failed
  <2>2. now + delay \in Nat /\ now + delay > now
    BY <1>1, <1>3
  <2>3. fails < CircuitFailures
    BY <1>2, <1>5, BoundsType
  <2> HIDE DEF fails, delay
  <2> QED
    BY <1>1, <1>2, <2>1, <2>2, <2>3 DEF RoutineRecord
<1> QED
  BY <1>4, <1>5

\* An activation fails only while the circuit is closed.
LEMMA DecideType ==
    ASSUME NEW cause, NEW ready \in BOOLEAN
    PROVE  /\ Decide(cause, ready) \in Disposition \cup {"failed"}
           /\ Decide(cause, ready) = "failed" => ~routine.circuit
BY DEF Decide, Disposition

\* One activation keeps the types.
LEMMA ActivateType ==
    ASSUME TypeOK, CircuitCoherent, NEW cause, NEW key \in Keys, NEW ready \in BOOLEAN,
           NEW due \in SUBSET Instant, NEW pass \in BOOLEAN,
           Activate(cause, key, ready, due, pass)
    PROVE  TypeOK' /\ CircuitCoherent'
<1> DEFINE disp == Decide(cause, ready)
<1>0. issued < MaxActivations
  BY DEF Activate
<1>1. CASE disp = "failed"
  <2>1. ~routine.circuit
    BY <1>1, DecideType
  <2>2. /\ routine' = Failed /\ UNCHANGED <<intents, issued>>
        /\ UNCHANGED <<plan, works, history, dedupe, store, now, crashes>>
    BY <1>1 DEF Activate
  <2>3. job' = [NoJob EXCEPT !.stage = "record", !.pass = pass, !.due = due, !.key = key,
                             !.disp = IF Failed.circuit THEN "circuit_open" ELSE "backoff"]
    BY <1>1 DEF Activate
  <2>4. job' \in Job
    BY <2>3 DEF NoJob, Job, Stage, Disposition
  <2>5. /\ routine' \in RoutineRecord /\ routine'.fails <= CircuitFailures
        /\ ~routine'.circuit => routine'.fails < CircuitFailures
    BY <2>1, <2>2, FailedType
  <2> QED
    BY <2>2, <2>4, <2>5 DEF TypeOK, CircuitCoherent, plan
<1>2. CASE disp # "failed"
  <2>1. disp \in Disposition
    BY <1>2, DecideType
  <2>2. /\ PersistIntent(key, disp, due, pass)
        /\ UNCHANGED <<routine, plan, works, history, dedupe, store, now, crashes>>
    BY <1>2 DEF Activate
  <2> HIDE DEF disp
  <2>3. issued' \in 0..MaxActivations /\ intents' \subseteq Intent /\ job' \in Job
    BY <1>0, <2>1, <2>2, PersistType
  <2> QED
    BY <2>2, <2>3 DEF TypeOK, CircuitCoherent, plan
<1> QED
  BY <1>1, <1>2

\* The slot a pass activates next is one of those it has still to activate.
LEMMA SlotType ==
    ASSUME TypeOK, job.due # {}
    PROVE  /\ Least(job.due) \in job.due /\ Least(job.due) \in Instant
           /\ Least(job.due) \in Keys /\ job.due \ {Least(job.due)} \in SUBSET Instant
<1>1. job.due \in SUBSET Instant /\ Instant \subseteq Nat
  BY BoundsType DEF TypeOK, Job
<1>2. job.due \in SUBSET Nat
  BY <1>1
<1>3. Least(job.due) \in job.due
  BY <1>2, LeastIsLeast
<1> QED
  BY <1>1, <1>3 DEF Keys

\* Every step keeps the types.
LEMMA TypeStep ==
    ASSUME TypeOK, CircuitCoherent, JobCoherent, [Next]_vars
    PROVE  TypeOK' /\ CircuitCoherent'
<1>0. /\ job \in Job /\ issued \in 0..MaxActivations /\ routine \in RoutineRecord
      /\ works \in [Activations -> Work] /\ dedupe \in [Keys -> Receipt] /\ NoJob \in Job
      /\ intents \subseteq Intent /\ history \subseteq Activations
      /\ \A t \in intents : t.act \in Activations /\ t.key \in Keys /\ t.disp \in Disposition
  BY NoJobType DEF TypeOK, Intent
<1>1. CASE RecordFailure
  <2>1. /\ job.key \in Keys /\ job.disp \in Disposition /\ job.due \in SUBSET Instant
        /\ job.pass \in BOOLEAN /\ issued < MaxActivations
    BY <1>0, <1>1 DEF RecordFailure, JobCoherent, Job
  <2>2. issued' \in 0..MaxActivations /\ intents' \subseteq Intent /\ job' \in Job
    BY <1>1, <2>1, PersistType DEF RecordFailure
  <2> QED
    BY <1>1, <2>2 DEF RecordFailure, TypeOK, CircuitCoherent, plan
<1>2. job.stage \in Writing => job.act \in Activations /\ job.key \in Keys /\ job.disp \in Disposition
  BY <1>0 DEF JobCoherent, JobIntent
<1>3. CASE WriteWork
  <2>1. works' \in [Activations -> Work]
    BY <1>0, <1>2, <1>3 DEF WriteWork, Writing, Work, WorkState
  <2>2. job' \in Job
    BY <1>0, <1>3 DEF WriteWork, Job, Stage
  <2> QED
    BY <1>3, <2>1, <2>2 DEF WriteWork, TypeOK, CircuitCoherent, plan
<1>4. Rest \in Job
  BY <1>0 DEF Rest, NoJob, Job, Stage
<1>5. CASE RefuseWork
  BY <1>4, <1>5 DEF RefuseWork, TypeOK, CircuitCoherent, plan, files
<1>6. CASE WriteActivation
  <2>1. job' \in Job /\ history' \subseteq Activations
    BY <1>0, <1>2, <1>6 DEF WriteActivation, Job, Stage, Writing
  <2> QED
    BY <1>6, <2>1 DEF WriteActivation, TypeOK, CircuitCoherent, plan
<1>7. CASE WriteDedupe
  <2>1. job' \in Job
    BY <1>0, <1>7 DEF WriteDedupe, Job, Stage
  <2>2. dedupe' \in [Keys -> Receipt]
    BY <1>0, <1>2, <1>7 DEF WriteDedupe, Writing, Receipt
  <2> QED
    BY <1>7, <2>1, <2>2 DEF WriteDedupe, TypeOK, CircuitCoherent, plan
<1>8. CASE ClearIntent
  <2>1. job' \in Job /\ intents' \subseteq Intent
    BY <1>0, <1>8 DEF ClearIntent, Job, Stage
  <2> QED
    BY <1>8, <2>1 DEF ClearIntent, TypeOK, CircuitCoherent, plan
<1>9. CASE PruneActivations
  <2>1. history' \subseteq Activations
    BY <1>0, <1>9 DEF PruneActivations, Latest
  <2> QED
    BY <1>4, <1>9, <2>1 DEF PruneActivations, TypeOK, CircuitCoherent, plan
<1>10. ASSUME NEW ready \in BOOLEAN, FireSlot(ready) PROVE TypeOK' /\ CircuitCoherent'
  <2> DEFINE slot == Least(job.due)
  <2>1. slot \in Keys /\ job.due \ {slot} \in SUBSET Instant
    BY <1>10, SlotType DEF FireSlot
  <2>2. CASE Activate("scheduled", slot, ready, job.due \ {slot}, TRUE)
    <3> HIDE DEF slot
    <3> QED
      BY <2>1, <2>2, ActivateType
  <2>3. CASE /\ job' = [job EXCEPT !.due = job.due \ {slot}]
             /\ UNCHANGED <<plan, files, issued, store, now, crashes>>
    <3>1. job' \in Job
      BY <1>0, <2>1, <2>3 DEF Job
    <3> QED
      BY <2>3, <3>1 DEF TypeOK, CircuitCoherent, plan, files
  <2> QED
    BY <1>10, <2>2, <2>3 DEF FireSlot
<1>11. NextAfter(now) \in Nat \cup {Never}
  BY NextAfterType, BoundsType DEF TypeOK
<1>12. CASE EndPass
  <2>1. /\ routine' \in RoutineRecord /\ routine'.fails = routine.fails
        /\ routine'.circuit = routine.circuit
    BY <1>0, <1>11, <1>12 DEF EndPass, RoutineRecord
  <2> QED
    BY <1>0, <1>12, <2>1 DEF EndPass, TypeOK, CircuitCoherent, plan
<1>13. CASE FireDue
  <2>1. CASE DueOccurrences = {}
    <3>1. /\ routine' \in RoutineRecord /\ routine'.fails = routine.fails
          /\ routine'.circuit = routine.circuit
      BY <1>0, <1>11, <1>13, <2>1 DEF FireDue, RoutineRecord
    <3> QED
      BY <1>0, <1>13, <2>1, <3>1 DEF FireDue, TypeOK, CircuitCoherent, plan
  <2>2. CASE DueOccurrences # {}
    <3>1. DueOccurrences \in SUBSET Instant
      BY <1>13, DueType DEF FireDue, TypeOK
    <3>2. job' = [NoJob EXCEPT !.stage = "pass", !.pass = TRUE, !.due = DueOccurrences]
      BY <1>13, <2>2 DEF FireDue
    <3>3. job' \in Job
      BY <3>1, <3>2 DEF NoJob, Job, Stage
    <3> QED
      BY <1>13, <2>2, <3>3 DEF FireDue, TypeOK, CircuitCoherent, plan
  <2> QED
    BY <2>1, <2>2
<1>14. CASE Reopen \/ Opened
  BY <1>14 DEF Reopen, Opened, TypeOK, CircuitCoherent, plan, files
<1>15. ASSUME NEW i \in intents, RecoverIntent(i) PROVE TypeOK' /\ CircuitCoherent'
  <2>1. job' \in Job
    BY <1>0, <1>15 DEF RecoverIntent, Job, Stage
  <2> QED
    BY <1>15, <2>1 DEF RecoverIntent, TypeOK, CircuitCoherent, plan, files
<1>16. ASSUME NEW r \in Requests, NEW ready \in BOOLEAN, FireRoutine(r, ready)
       PROVE  TypeOK' /\ CircuitCoherent'
  <2>1. r \in Keys /\ {} \in SUBSET Instant
    BY DEF Keys
  <2> QED
    BY <1>16, <2>1, ActivateType DEF FireRoutine
<1>17. ASSUME NEW life \in Lifecycle, SetLifecycle(life) PROVE TypeOK' /\ CircuitCoherent'
  <2>1. InitialNextFire(trigger, now) \in Nat \cup {Never}
    BY InitialNextFireType, BoundsType DEF TypeOK
  <2>2. /\ routine' \in RoutineRecord /\ routine'.fails <= CircuitFailures
        /\ ~routine'.circuit => routine'.fails < CircuitFailures
    <3>0. routine.fails <= CircuitFailures /\ routine.next \in Nat \cup {Never}
      BY <1>0 DEF TypeOK, RoutineRecord
    <3>1. CASE life = "enabled"
      <4> DEFINE next == IF routine.next = Never THEN InitialNextFire(trigger, now) ELSE routine.next
      <4>1. next \in Nat \cup {Never}
        BY <2>1, <3>0
      <4>2. routine' = [life |-> life, circuit |-> FALSE, fails |-> 0, next |-> next]
        BY <1>17, <3>1 DEF SetLifecycle
      <4> HIDE DEF next
      <4> QED
        BY <4>1, <4>2, BoundsType DEF RoutineRecord
    <3>2. CASE life = "disabled"
      <4>1. routine' = [routine EXCEPT !.life = life, !.next = Never]
        BY <1>17, <3>2 DEF SetLifecycle
      <4> QED
        BY <1>0, <3>0, <4>1 DEF RoutineRecord, CircuitCoherent
    <3>3. CASE life = "paused"
      <4>1. routine' = [routine EXCEPT !.life = life]
        BY <1>17, <3>3 DEF SetLifecycle
      <4> QED
        BY <1>0, <3>0, <4>1 DEF RoutineRecord, CircuitCoherent
    <3> QED
      BY <3>1, <3>2, <3>3 DEF Lifecycle
  <2> QED
    BY <1>17, <2>2 DEF SetLifecycle, TypeOK, CircuitCoherent, plan
<1>18. ASSUME NEW a \in Activations, NEW to \in WorkState \ {"absent"}, MoveWork(a, to)
       PROVE  TypeOK' /\ CircuitCoherent'
  <2>1. works' \in [Activations -> Work]
    BY <1>0, <1>18 DEF MoveWork, Work, WorkState
  <2> QED
    BY <1>18, <2>1 DEF MoveWork, TypeOK, CircuitCoherent, plan
<1>19. CASE Tick
  BY <1>19, BoundsType DEF Tick, TypeOK, CircuitCoherent, plan, files
<1>20. CASE Crash
  BY <1>0, <1>20, BoundsType DEF Crash, TypeOK, CircuitCoherent, plan, files
<1>21. CASE UNCHANGED vars
  BY <1>21 DEF vars, TypeOK, CircuitCoherent, plan, files
<1> QED
  BY <1>1, <1>3, <1>5, <1>6, <1>7, <1>8, <1>9, <1>10, <1>12, <1>13, <1>14, <1>15, <1>16, <1>17,
     <1>18, <1>19, <1>20, <1>21 DEF Next, CommitStep, PassStep, OpenStep

-----------------------------------------------------------------------------
(* The intents and the items *)

Core == IdsCoherent /\ ItemsAnswered /\ ItemsUntouched /\ OneMaker /\ OneWorkPerOccurrence

\* Items are never removed, so a full lane stays full.
LEMMA FullStays ==
    ASSUME TypeOK, \A a \in Activations : Exists(a) => Exists(a)'
    PROVE  Full => Full'
<1>1. Items \subseteq Items' /\ Items' \subseteq 1..MaxActivations
  BY BoundsType DEF Items
<1>2. IsFiniteSet(1..MaxActivations)
  BY FS_Interval, BoundsType
<1>3. IsFiniteSet(Items')
  BY <1>1, <1>2, FS_Subset
<1>4. IsFiniteSet(Items) /\ Cardinality(Items) <= Cardinality(Items')
  BY <1>1, <1>3, FS_Subset
<1>5. Cardinality(Items) \in Nat /\ Cardinality(Items') \in Nat
  BY <1>3, <1>4, FS_CardinalityType
<1> QED
  BY <1>4, <1>5, BoundsType DEF Full

\* The activation being committed is one of the intents.
LEMMA WritingIntent ==
    ASSUME TypeOK, JobCoherent, job.stage \in Writing
    PROVE  /\ JobIntent \in intents /\ JobIntent.act = job.act /\ JobIntent.key = job.key
           /\ JobIntent.disp = job.disp
           /\ job.act \in Activations /\ job.key \in Keys /\ job.disp \in Disposition
BY DEF JobCoherent, JobIntent, TypeOK, Intent

\* Steps that write no item, intent or receipt.
LEMMA QuietCore ==
    ASSUME Core, UNCHANGED <<works, intents, dedupe, issued>>
    PROVE  Core'
BY DEF Core, IdsCoherent, ItemsAnswered, ItemsUntouched, OneMaker, OneWorkPerOccurrence, Exists,
   Full, Items

\* What of LeftOversRefused such a step can disturb is which intent is being committed.
LEMMA QuietLeftOvers ==
    ASSUME LeftOversRefused, UNCHANGED <<works, intents>>, store' = "up" => store = "up",
           job.stage \in Writing => job'.stage \in Writing /\ job'.act = job.act
    PROVE  LeftOversRefused'
BY DEF LeftOversRefused, LeftOver, Exists, Full, Items

\* A new intent: the occurrence has no item, for its item would have left a receipt or be
\* among the intents that were refused; and if another intent is left, the lane is full.
LEMMA NewIntent ==
    ASSUME TypeOK, Core, JobCoherent, LeftOversRefused, store = "up", job.stage \notin Writing,
           NEW key \in Keys, NEW disp \in Disposition, NEW due \in SUBSET Instant,
           NEW pass \in BOOLEAN, issued < MaxActivations,
           disp = "created_work" => dedupe[key] = NoReceipt,
           PersistIntent(key, disp, due, pass), UNCHANGED <<works, dedupe, store>>
    PROVE  Core' /\ JobCoherent' /\ LeftOversRefused'
<1> DEFINE new == [act |-> issued + 1, key |-> key, disp |-> disp]
<1>0. /\ issued \in Nat /\ issued + 1 \in Activations /\ intents \subseteq Intent
      /\ \A i \in intents : i.act \in Activations /\ i.act \in Nat
  BY PersistType, BoundsType DEF TypeOK, Intent
<1>1. /\ issued' = issued + 1 /\ intents' = intents \cup {new}
      /\ job' = [stage |-> IF disp = "created_work" THEN "work" ELSE "activation",
                 pass |-> pass, due |-> due, act |-> issued + 1, key |-> key, disp |-> disp]
  BY DEF PersistIntent
<1>2. new.act = issued + 1 /\ new.key = key /\ new.disp = disp
  OBVIOUS
<1>3. JobIntent' = new
  BY <1>1 DEF JobIntent
<1>4. \A i \in intents : LeftOver(i)
  BY DEF LeftOversRefused
<1>5. \A a \in Activations : Exists(a) => a <= issued
  BY DEF Core, IdsCoherent
<1>6. ~Exists(issued + 1)
  BY <1>0, <1>5
<1>7. /\ job'.stage = IF disp = "created_work" THEN "work" ELSE "activation"
      /\ job'.pass = pass /\ job'.act = issued + 1 /\ job'.disp = disp /\ job'.key = key
  BY <1>1
<1> HIDE DEF new
<1>8. IdsCoherent'
  <2>1. \A i \in intents : i.act <= issued
    BY DEF Core, IdsCoherent
  <2>2. \A i \in intents' : i.act <= issued'
    BY <1>0, <1>1, <1>2, <2>1
  <2>3. \A i, j \in intents' : i.act = j.act => i = j
    BY <1>0, <1>1, <1>2, <2>1 DEF Core, IdsCoherent
  <2>4. \A a \in Activations : Exists(a)' => a <= issued'
    BY <1>0, <1>1, <1>5, BoundsType DEF Exists
  <2> QED
    BY <2>2, <2>3, <2>4 DEF IdsCoherent
<1>9. ItemsAnswered'
  BY <1>1 DEF Core, ItemsAnswered, Exists
<1>10. ItemsUntouched'
  BY <1>1, <1>2, <1>6 DEF Core, ItemsUntouched, Exists
<1>11. OneMaker'
  <2> SUFFICES ASSUME NEW i \in intents', i.disp = "created_work", ~Full
               PROVE  /\ \A j \in intents' : j.disp = "created_work" => j = i
                      /\ ~Exists(i.act) =>
                            \A a \in Activations : Exists(a) => works[a].key # i.key
    BY DEF OneMaker, Exists, Full, Items
  <2>1. intents = {}
    BY <1>4 DEF LeftOver
  <2>2. i = new /\ intents' = {new}
    BY <1>1, <2>1
  <2>3. \A a \in Activations : Exists(a) => dedupe[works[a].key] # NoReceipt
    BY <2>1 DEF Core, ItemsAnswered
  <2> QED
    BY <1>2, <2>2, <2>3
<1>12. OneWorkPerOccurrence'
  BY DEF Core, OneWorkPerOccurrence, Exists
<1>13. LeftOversRefused'
  BY <1>1, <1>2, <1>4, <1>7 DEF LeftOversRefused, LeftOver, Exists, Full, Items, Writing
<1>14. JobCoherent'
  BY <1>1, <1>3, <1>7 DEF JobCoherent, Writing
<1> QED
  BY <1>8, <1>9, <1>10, <1>11, <1>12, <1>13, <1>14 DEF Core

\* The item of an occurrence is written, or written again as it is.
LEMMA WriteWorkCore ==
    ASSUME TypeOK, Core, JobCoherent, LeftOversRefused, WriteWork
    PROVE  /\ Core' /\ JobCoherent' /\ LeftOversRefused'
           /\ \A a \in Activations : Exists(a) => works'[a] = works[a]
<1> DEFINE item == [state |-> "queued", key |-> job.key]
<1>0. /\ job.stage = "work" /\ job.disp = "created_work" /\ JobIntent \in intents
      /\ JobIntent.act = job.act /\ JobIntent.key = job.key /\ JobIntent.disp = "created_work"
      /\ job.act \in Activations /\ job.key \in Keys /\ job \in Job
      /\ intents \subseteq Intent /\ \A i \in intents : i.act \in Activations
  BY WritingIntent DEF WriteWork, Writing, JobCoherent, TypeOK, Intent
<1>1. /\ works' = [works EXCEPT ![job.act] = item] /\ job' = [job EXCEPT !.stage = "activation"]
      /\ UNCHANGED <<intents, dedupe, issued, store>>
  BY DEF WriteWork
<1>2. \A a \in Activations : works'[a] = IF a = job.act THEN item ELSE works[a]
  BY <1>0, <1>1 DEF TypeOK
<1>3. item.state = "queued" /\ item.key = job.key
  OBVIOUS
<1>4. Exists(job.act) => works[job.act] = item
  BY <1>0 DEF Core, ItemsUntouched
<1>5. ~Exists(job.act) => ~Full
  <2>1. ~Exists(job.act) => Cardinality(Items) < Capacity
    BY DEF WriteWork, Items
  <2>2. Cardinality(Items) \in Nat
    <3>1. Items \subseteq 1..MaxActivations /\ IsFiniteSet(1..MaxActivations)
      BY BoundsType, FS_Interval DEF Items
    <3> QED
      BY <3>1, FS_Subset, FS_CardinalityType
  <2> QED
    BY <2>1, <2>2, BoundsType DEF Full
<1> HIDE DEF item
<1>6. /\ \A a \in Activations : Exists(a)' <=> a = job.act \/ Exists(a)
      /\ \A a \in Activations : Exists(a) => works'[a] = works[a]
  BY <1>0, <1>2, <1>3, <1>4 DEF Exists
<1>7. Full => Full'
  BY <1>6, FullStays
<1>8. \A i \in intents : i.act = job.act => i = JobIntent
  BY <1>0 DEF Core, IdsCoherent
<1>9. ~Exists(job.act) =>
         /\ \A j \in intents : j.disp = "created_work" => j = JobIntent
         /\ \A a \in Activations : Exists(a) => works[a].key # job.key
  BY <1>0, <1>5 DEF Core, OneMaker
<1>10. IdsCoherent'
  <2>1. job.act <= issued
    BY <1>0 DEF Core, IdsCoherent
  <2> QED
    BY <1>1, <1>6, <2>1 DEF Core, IdsCoherent
<1>11. ItemsAnswered'
  <2> SUFFICES ASSUME NEW a \in Activations, Exists(a)'
               PROVE  \/ dedupe[works'[a].key] # NoReceipt
                      \/ \E i \in intents : i.act = a /\ i.key = works'[a].key
    BY <1>1 DEF ItemsAnswered
  <2>1. CASE a = job.act
    BY <1>0, <1>2, <1>3, <2>1
  <2>2. CASE a # job.act
    BY <1>2, <1>6, <2>2 DEF Core, ItemsAnswered
  <2> QED
    BY <2>1, <2>2
<1>12. ItemsUntouched'
  <2> SUFFICES ASSUME NEW i \in intents, Exists(i.act)'
               PROVE  /\ works'[i.act] = [state |-> "queued", key |-> i.key]
                      /\ i.disp = "created_work"
    BY <1>1 DEF ItemsUntouched
  <2>1. CASE i.act = job.act
    BY <1>0, <1>2, <1>8, <2>1 DEF item
  <2>2. CASE i.act # job.act
    BY <1>0, <1>6, <2>2 DEF Core, ItemsUntouched
  <2> QED
    BY <2>1, <2>2
<1>13. OneMaker'
  <2> SUFFICES ASSUME NEW i \in intents, i.disp = "created_work", ~Full'
               PROVE  /\ \A j \in intents : j.disp = "created_work" => j = i
                      /\ ~Exists(i.act)' =>
                            \A a \in Activations : Exists(a)' => works'[a].key # i.key
    BY <1>1 DEF OneMaker
  <2>1. ~Full
    BY <1>7
  <2>2. \A j \in intents : j.disp = "created_work" => j = i
    BY <2>1 DEF Core, OneMaker
  <2>3. i = JobIntent
    BY <1>0, <2>2
  <2> QED
    BY <1>0, <1>6, <2>2, <2>3
<1>14. OneWorkPerOccurrence'
  <2> SUFFICES ASSUME NEW a \in Activations, NEW b \in Activations, Exists(a)', Exists(b)',
                      works'[a].key = works'[b].key
               PROVE  a = b
    BY DEF OneWorkPerOccurrence
  <2>1. CASE Exists(job.act)
    BY <1>6, <2>1 DEF Core, OneWorkPerOccurrence
  <2>2. CASE ~Exists(job.act)
    BY <1>2, <1>3, <1>6, <1>9, <2>2 DEF Core, OneWorkPerOccurrence
  <2> QED
    BY <2>1, <2>2
<1>15. /\ job'.stage = "activation" /\ job'.act = job.act /\ job'.key = job.key
       /\ job'.disp = job.disp /\ job'.pass = job.pass
  BY <1>0, <1>1 DEF Job
<1>16. LeftOversRefused'
  <2> SUFFICES ASSUME store = "up", NEW i \in intents, i.act # job.act PROVE LeftOver(i)'
    BY <1>1, <1>15 DEF LeftOversRefused, Writing
  <2>1. LeftOver(i)
    BY DEF LeftOversRefused
  <2> QED
    BY <1>0, <1>6, <1>7, <2>1 DEF LeftOver
<1>17. JobCoherent'
  <2>1. JobIntent' = JobIntent
    BY <1>15 DEF JobIntent
  <2>2. Exists(job.act)'
    BY <1>0, <1>6, <1>15 DEF Exists
  <2>3. store \in {"up", "opening"} /\ (job.pass => store = "up")
    BY <1>0 DEF JobCoherent, NoJob
  <2> QED
    BY <1>0, <1>1, <1>15, <2>1, <2>2, <2>3 DEF JobCoherent, Writing
<1> QED
  BY <1>6, <1>10, <1>11, <1>12, <1>13, <1>14, <1>16, <1>17 DEF Core

\* The receipt is written and the intent removed.
LEMMA WriteDedupeCore ==
    ASSUME TypeOK, Core, JobCoherent, LeftOversRefused, WriteDedupe
    PROVE  Core' /\ JobCoherent' /\ LeftOversRefused'
<1>0. /\ job.stage = "dedupe" /\ job \in Job /\ job.act \in Activations /\ job.key \in Keys
      /\ store \in {"up", "opening"} /\ (job.pass => store = "up")
      /\ job.disp = "created_work" => Exists(job.act)
  BY WritingIntent DEF WriteDedupe, Writing, JobCoherent, NoJob, TypeOK
<1>1. /\ dedupe' = [dedupe EXCEPT ![job.key] = [act |-> job.act, disp |-> job.disp]]
      /\ job' = [job EXCEPT !.stage = "clear"] /\ UNCHANGED <<works, intents, issued, store>>
  BY DEF WriteDedupe
<1>2. /\ job'.stage = "clear" /\ job'.act = job.act /\ job'.key = job.key
      /\ job'.disp = job.disp /\ job'.pass = job.pass
  BY <1>0, <1>1 DEF Job
<1>3. [act |-> job.act, disp |-> job.disp] # NoReceipt
  BY <1>0, BoundsType DEF NoReceipt
<1>4. /\ \A k \in Keys : dedupe[k] # NoReceipt => dedupe'[k] # NoReceipt
      /\ dedupe'[job.key] # NoReceipt
  BY <1>0, <1>1, <1>3 DEF TypeOK
<1>5. ItemsAnswered'
  <2> SUFFICES ASSUME NEW a \in Activations, Exists(a)
               PROVE  \/ dedupe'[works[a].key] # NoReceipt
                      \/ \E i \in intents : i.act = a /\ i.key = works[a].key
    BY <1>1 DEF ItemsAnswered, Exists
  <2>1. CASE dedupe[works[a].key] # NoReceipt
    <3>1. CASE works[a].key \in Keys
      BY <1>4, <2>1, <3>1
    <3>2. CASE works[a].key \notin Keys
      BY <1>0, <1>1, <2>1, <3>2 DEF TypeOK
    <3> QED
      BY <3>1, <3>2
  <2> QED
    BY <2>1 DEF Core, ItemsAnswered
<1>6. IdsCoherent' /\ ItemsUntouched' /\ OneMaker' /\ OneWorkPerOccurrence'
  BY <1>1 DEF Core, IdsCoherent, ItemsUntouched, OneMaker, OneWorkPerOccurrence, Exists, Full, Items
<1>7. LeftOversRefused'
  BY <1>0, <1>1, <1>2, QuietLeftOvers DEF Writing
<1>8. JobCoherent'
  <2>1. JobIntent' = JobIntent /\ JobIntent \in intents
    BY <1>0, <1>2, WritingIntent DEF JobIntent, Writing
  <2> QED
    BY <1>0, <1>1, <1>2, <1>4, <2>1 DEF JobCoherent, Writing, Exists
<1> QED
  BY <1>5, <1>6, <1>7, <1>8 DEF Core

\* The intent is removed; what it made has its receipt.
LEMMA ClearIntentCore ==
    ASSUME TypeOK, Core, JobCoherent, LeftOversRefused, ClearIntent
    PROVE  Core' /\ JobCoherent' /\ LeftOversRefused'
<1>0. /\ job.stage = "clear" /\ job \in Job /\ JobIntent \in intents
      /\ JobIntent.act = job.act /\ JobIntent.key = job.key
      /\ store \in {"up", "opening"} /\ (job.pass => store = "up") /\ dedupe[job.key] # NoReceipt
  BY WritingIntent DEF ClearIntent, Writing, JobCoherent, NoJob, TypeOK
<1>1. /\ intents' = {i \in intents : i.act # job.act}
      /\ job' = IF store = "opening" THEN NoJob ELSE [job EXCEPT !.stage = "prune"]
      /\ UNCHANGED <<works, dedupe, issued, store>>
  BY DEF ClearIntent
<1>2. \A i \in intents : i.act = job.act => i = JobIntent
  BY <1>0 DEF Core, IdsCoherent
<1>3. ItemsAnswered'
  BY <1>0, <1>1, <1>2 DEF Core, ItemsAnswered, Exists
<1>4. IdsCoherent' /\ ItemsUntouched' /\ OneMaker' /\ OneWorkPerOccurrence'
  BY <1>1 DEF Core, IdsCoherent, ItemsUntouched, OneMaker, OneWorkPerOccurrence, Exists, Full, Items
<1>5. LeftOversRefused'
  BY <1>1 DEF LeftOversRefused, LeftOver, Exists, Full, Items
<1>6. JobCoherent'
  <2>1. CASE store = "opening"
    BY <1>1, <2>1 DEF JobCoherent, NoJob, Writing
  <2>2. CASE store = "up"
    <3>1. job'.stage = "prune"
      BY <1>0, <1>1, <2>2 DEF Job
    <3> QED
      BY <1>1, <2>2, <3>1 DEF JobCoherent, Writing
  <2> QED
    BY <1>0, <2>1, <2>2
<1> QED
  BY <1>3, <1>4, <1>5, <1>6 DEF Core

\* The lane is full: the intent stays behind.
LEMMA RefuseWorkCore ==
    ASSUME TypeOK, Core, JobCoherent, LeftOversRefused, RefuseWork
    PROVE  Core' /\ JobCoherent' /\ LeftOversRefused'
<1>0. /\ job.stage = "work" /\ job \in Job /\ JobIntent \in intents /\ JobIntent.act = job.act
      /\ JobIntent.disp = "created_work"
      /\ store \in {"up", "opening"} /\ (job.pass => store = "up")
  BY WritingIntent DEF RefuseWork, Writing, JobCoherent, NoJob, TypeOK
<1>1. /\ ~Exists(job.act) /\ Full /\ store' = IF store = "opening" THEN "refused" ELSE store
      /\ job' = Rest /\ UNCHANGED <<works, intents, dedupe, issued>>
  BY DEF RefuseWork, files, Full, Items
<1>2. Core'
  BY <1>1, QuietCore
<1>3. \A i \in intents : i.act = job.act => i = JobIntent
  BY <1>0 DEF Core, IdsCoherent
<1>4. LeftOversRefused'
  BY <1>0, <1>1, <1>3 DEF LeftOversRefused, LeftOver, Exists, Full, Items
<1>5. job.pass => job'.stage = "pass" /\ job'.pass
  BY <1>1 DEF Rest, NoJob
<1>6. ~job.pass => job' = NoJob
  BY <1>1 DEF Rest
<1>7. JobCoherent'
  <2>1. CASE job.pass
    BY <1>0, <1>1, <1>5, <2>1 DEF JobCoherent, Writing
  <2>2. CASE ~job.pass
    BY <1>0, <1>1, <1>6, <2>2 DEF JobCoherent, NoJob, Writing
  <2> QED
    BY <2>1, <2>2
<1> QED
  BY <1>2, <1>4, <1>7

\* One activation, up to its first write.
LEMMA ActivateCore ==
    ASSUME TypeOK, Core, JobCoherent, LeftOversRefused, store = "up", job.stage \in {"idle", "pass"},
           NEW cause, NEW key \in Keys, NEW ready \in BOOLEAN, NEW due \in SUBSET Instant,
           NEW pass \in BOOLEAN, Activate(cause, key, ready, due, pass)
    PROVE  Core' /\ JobCoherent' /\ LeftOversRefused'
<1> DEFINE disp == Decide(cause, ready)
<1>0. /\ issued < MaxActivations /\ dedupe[key] = NoReceipt /\ job.stage \notin Writing
      /\ UNCHANGED <<works, dedupe, store>>
  BY DEF Activate, Writing
<1>1. CASE disp = "failed"
  <2>1. UNCHANGED <<intents, issued>>
    BY <1>1 DEF Activate
  <2>2. job' = [NoJob EXCEPT !.stage = "record", !.pass = pass, !.due = due, !.key = key,
                             !.disp = IF Failed.circuit THEN "circuit_open" ELSE "backoff"]
    BY <1>1 DEF Activate
  <2>3. /\ job'.stage = "record" /\ job'.pass = pass /\ job'.key = key
        /\ job'.disp \in {"circuit_open", "backoff"}
    BY <2>2 DEF NoJob
  <2>4. Core'
    BY <1>0, <2>1, QuietCore
  <2>5. LeftOversRefused'
    BY <1>0, <2>1, QuietLeftOvers
  <2>6. JobCoherent'
    BY <1>0, <2>1, <2>3 DEF JobCoherent, Writing, Disposition
  <2> QED
    BY <2>4, <2>5, <2>6
<1>2. CASE disp # "failed"
  <2>1. disp \in Disposition
    BY <1>2, DecideType
  <2>2. PersistIntent(key, disp, due, pass)
    BY <1>2 DEF Activate
  <2> HIDE DEF disp
  <2> QED
    BY <1>0, <2>1, <2>2, NewIntent
<1> QED
  BY <1>1, <1>2

\* Every step keeps what is known of the intents, the items and the job.
LEMMA CoreStep ==
    ASSUME IInv, [Next]_vars
    PROVE  Core' /\ JobCoherent' /\ LeftOversRefused'
<1>0. TypeOK /\ Core /\ JobCoherent /\ LeftOversRefused /\ CircuitCoherent /\ job \in Job
  BY DEF IInv, Core, TypeOK
<1>1. CASE RecordFailure
  <2>1. /\ job.key \in Keys /\ job.disp \in Disposition /\ job.disp # "created_work"
        /\ job.due \in SUBSET Instant /\ job.pass \in BOOLEAN /\ issued < MaxActivations
        /\ store = "up" /\ job.stage \notin Writing
    BY <1>0, <1>1 DEF RecordFailure, JobCoherent, Job, Writing
  <2> QED
    BY <1>0, <1>1, <2>1, NewIntent DEF RecordFailure
<1>2. CASE WriteWork
  BY <1>0, <1>2, WriteWorkCore
<1>3. CASE RefuseWork
  BY <1>0, <1>3, RefuseWorkCore
<1>4. CASE WriteActivation
  <2>1. /\ job' = [job EXCEPT !.stage = "dedupe"] /\ job.stage = "activation"
        /\ UNCHANGED <<works, intents, dedupe, issued, store>>
    BY <1>4 DEF WriteActivation
  <2>2. /\ job'.stage = "dedupe" /\ job'.act = job.act /\ job'.key = job.key
        /\ job'.disp = job.disp /\ job'.pass = job.pass
    BY <1>0, <2>1 DEF Job
  <2>3. JobIntent' = JobIntent
    BY <2>2 DEF JobIntent
  <2>4. Core' /\ LeftOversRefused'
    BY <1>0, <2>1, <2>2, QuietCore, QuietLeftOvers DEF Writing
  <2>5. JobCoherent'
    BY <1>0, <2>1, <2>2, <2>3 DEF JobCoherent, Writing, Exists, NoJob
  <2> QED
    BY <2>4, <2>5
<1>5. CASE WriteDedupe
  BY <1>0, <1>5, WriteDedupeCore
<1>6. CASE ClearIntent
  BY <1>0, <1>6, ClearIntentCore
<1>7. CASE PruneActivations
  <2>1. job.stage = "prune" /\ job' = Rest /\ UNCHANGED <<works, intents, dedupe, issued, store>>
    BY <1>7 DEF PruneActivations
  <2>2. Core' /\ LeftOversRefused'
    BY <1>0, <2>1, QuietCore, QuietLeftOvers DEF Writing
  <2>3. store = "up"
    BY <1>0, <2>1 DEF JobCoherent
  <2>4. /\ job'.stage \in {"idle", "pass"} /\ (job'.stage = "idle" => job' = NoJob)
        /\ job'.stage = "pass" => job'.pass
    BY <2>1 DEF Rest, NoJob
  <2>5. JobCoherent'
    BY <2>1, <2>3, <2>4 DEF JobCoherent, Writing
  <2> QED
    BY <2>2, <2>5
<1>8. ASSUME NEW ready \in BOOLEAN, FireSlot(ready) PROVE Core' /\ JobCoherent' /\ LeftOversRefused'
  <2> DEFINE slot == Least(job.due)
  <2>1. job.stage = "pass" /\ slot \in Keys /\ job.due \ {slot} \in SUBSET Instant /\ store = "up"
    BY <1>0, <1>8, SlotType DEF FireSlot, JobCoherent
  <2>2. CASE Activate("scheduled", slot, ready, job.due \ {slot}, TRUE)
    <3> HIDE DEF slot
    <3> QED
      BY <1>0, <2>1, <2>2, ActivateCore
  <2>3. CASE /\ job' = [job EXCEPT !.due = job.due \ {slot}]
             /\ UNCHANGED <<plan, files, issued, store, now, crashes>>
    <3>1. /\ job'.stage = "pass" /\ job'.pass
          /\ UNCHANGED <<works, intents, dedupe, issued, store>>
      BY <1>0, <2>1, <2>3 DEF Job, files, JobCoherent
    <3>2. Core' /\ LeftOversRefused'
      BY <1>0, <2>1, <3>1, QuietCore, QuietLeftOvers DEF Writing
    <3>3. JobCoherent'
      BY <2>1, <3>1 DEF JobCoherent, Writing
    <3> QED
      BY <3>2, <3>3
  <2> QED
    BY <1>8, <2>2, <2>3 DEF FireSlot
<1>9. CASE EndPass
  <2>1. job.stage = "pass" /\ job' = NoJob /\ UNCHANGED <<works, intents, dedupe, issued, store>>
    BY <1>9 DEF EndPass
  <2>2. Core' /\ LeftOversRefused'
    BY <1>0, <2>1, QuietCore, QuietLeftOvers DEF Writing
  <2>3. JobCoherent'
    BY <2>1 DEF JobCoherent, Writing, NoJob
  <2> QED
    BY <2>2, <2>3
<1>10. CASE FireDue
  <2>1. /\ job = NoJob /\ store = "up" /\ UNCHANGED <<works, intents, dedupe, issued, store>>
        /\ \/ job' = NoJob
           \/ job' = [NoJob EXCEPT !.stage = "pass", !.pass = TRUE, !.due = DueOccurrences]
    BY <1>10 DEF FireDue, Idle
  <2>2. /\ job.stage = "idle" /\ job'.stage \in {"idle", "pass"}
        /\ (job'.stage = "idle" => job' = NoJob) /\ (job'.stage = "pass" => job'.pass)
    <3>1. CASE job' = NoJob
      BY <2>1, <3>1 DEF NoJob
    <3>2. CASE job' = [NoJob EXCEPT !.stage = "pass", !.pass = TRUE, !.due = DueOccurrences]
      BY <2>1, <3>2 DEF NoJob
    <3> QED
      BY <2>1, <3>1, <3>2
  <2>3. Core' /\ LeftOversRefused'
    BY <1>0, <2>1, <2>2, QuietCore, QuietLeftOvers DEF Writing
  <2>4. JobCoherent'
    BY <2>1, <2>2 DEF JobCoherent, Writing
  <2> QED
    BY <2>3, <2>4
<1>11. CASE Reopen
  <2>1. /\ store = "down" /\ store' = "opening" /\ UNCHANGED <<works, intents, dedupe, issued, job>>
        /\ job = NoJob
    BY <1>0, <1>11 DEF Reopen, files, JobCoherent
  <2>2. Core' /\ LeftOversRefused'
    BY <1>0, <2>1, QuietCore, QuietLeftOvers
  <2>3. JobCoherent'
    BY <2>1 DEF JobCoherent, NoJob, Writing
  <2> QED
    BY <2>2, <2>3
<1>12. CASE Opened
  <2>1. /\ job = NoJob /\ intents = {} /\ store' = "up"
        /\ UNCHANGED <<works, intents, dedupe, issued, job>>
    BY <1>12 DEF Opened, files
  <2>2. LeftOversRefused'
    BY <2>1 DEF LeftOversRefused
  <2>3. JobCoherent'
    BY <2>1 DEF JobCoherent, NoJob, Writing
  <2> QED
    BY <1>0, <2>1, <2>2, <2>3, QuietCore
<1>13. ASSUME NEW i \in intents, RecoverIntent(i) PROVE Core' /\ JobCoherent' /\ LeftOversRefused'
  <2>1. /\ store = "opening" /\ UNCHANGED <<works, intents, dedupe, issued, store>>
        /\ job' = [stage |-> IF i.disp = "created_work" THEN "work" ELSE "activation",
                   pass |-> FALSE, due |-> {}, act |-> i.act, key |-> i.key, disp |-> i.disp]
    BY <1>13 DEF RecoverIntent, files
  <2>2. LeftOversRefused'
    BY <2>1 DEF LeftOversRefused
  <2>3. i = [act |-> i.act, key |-> i.key, disp |-> i.disp]
    BY <1>0 DEF TypeOK, Intent
  <2>4. JobIntent' = i /\ job'.disp = i.disp /\ job'.pass = FALSE
        /\ job'.stage = IF i.disp = "created_work" THEN "work" ELSE "activation"
    BY <2>1, <2>3 DEF JobIntent
  <2>5. JobCoherent'
    BY <2>1, <2>4 DEF JobCoherent, Writing
  <2> QED
    BY <1>0, <2>1, <2>2, <2>5, QuietCore
<1>14. ASSUME NEW r \in Requests, NEW ready \in BOOLEAN, FireRoutine(r, ready)
       PROVE  Core' /\ JobCoherent' /\ LeftOversRefused'
  <2>1. r \in Keys /\ {} \in SUBSET Instant /\ store = "up" /\ job.stage = "idle"
    BY <1>14 DEF Keys, FireRoutine, Idle, NoJob
  <2> QED
    BY <1>0, <1>14, <2>1, ActivateCore DEF FireRoutine
<1>15. ASSUME NEW life \in Lifecycle, SetLifecycle(life)
       PROVE  Core' /\ JobCoherent' /\ LeftOversRefused'
  <2>1. UNCHANGED <<works, intents, dedupe, issued, store, job>> /\ job = NoJob
    BY <1>15 DEF SetLifecycle, Idle
  <2>2. Core' /\ LeftOversRefused'
    BY <1>0, <2>1, QuietCore, QuietLeftOvers
  <2>3. JobCoherent'
    BY <2>1 DEF JobCoherent, NoJob, Writing
  <2> QED
    BY <2>2, <2>3
<1>16. ASSUME NEW a \in Activations, NEW to \in WorkState \ {"absent"}, MoveWork(a, to)
       PROVE  Core' /\ JobCoherent' /\ LeftOversRefused'
  <2>1. /\ works' = [works EXCEPT ![a].state = to] /\ Exists(a) /\ store = "up" /\ job = NoJob
        /\ UNCHANGED <<intents, dedupe, issued, store, job>>
    BY <1>16 DEF MoveWork, Idle
  <2>2. /\ \A b \in Activations : works'[b].key = works[b].key
        /\ \A b \in Activations : b # a => works'[b] = works[b]
        /\ \A b \in Activations : Exists(b)' <=> Exists(b)
    BY <1>0, <2>1 DEF TypeOK, Work, Exists
  <2>3. Items' = Items
    BY <2>2 DEF Items
  <2>4. \A i \in intents : LeftOver(i) /\ i.act \in Activations
    BY <1>0, <2>1 DEF LeftOversRefused, NoJob, Writing, TypeOK, Intent
  <2>5. \A i \in intents : ~Exists(i.act)'
    BY <2>2, <2>4 DEF LeftOver
  <2>6. IdsCoherent' /\ ItemsAnswered' /\ ItemsUntouched' /\ OneWorkPerOccurrence'
    BY <1>0, <2>1, <2>2, <2>5
       DEF Core, IdsCoherent, ItemsAnswered, ItemsUntouched, OneWorkPerOccurrence
  <2>7. OneMaker' /\ LeftOversRefused'
    BY <1>0, <2>1, <2>3, <2>4, <2>5 DEF OneMaker, LeftOversRefused, LeftOver, Full
  <2>8. JobCoherent'
    BY <2>1 DEF JobCoherent, NoJob, Writing
  <2> QED
    BY <2>6, <2>7, <2>8 DEF Core
<1>17. CASE Tick
  <2>1. UNCHANGED <<works, intents, dedupe, issued, store, job>>
    BY <1>17 DEF Tick, files
  <2>2. JobIntent' = JobIntent /\ job = NoJob
    BY <1>17 DEF Tick, JobIntent
  <2> QED
    BY <1>0, <2>1, <2>2, QuietCore, QuietLeftOvers DEF JobCoherent, NoJob, Writing
<1>18. CASE Crash
  <2>1. UNCHANGED <<works, intents, dedupe, issued>> /\ job' = NoJob /\ store' = "down"
    BY <1>18 DEF Crash, files
  <2> QED
    BY <1>0, <2>1, QuietCore DEF JobCoherent, NoJob, Writing, LeftOversRefused
<1>19. CASE UNCHANGED vars
  <2>1. UNCHANGED <<works, intents, dedupe, issued, store, job>>
    BY <1>19 DEF vars, files
  <2>2. Core' /\ LeftOversRefused'
    BY <1>0, <2>1, QuietCore, QuietLeftOvers
  <2>3. JobCoherent'
    BY <1>0, <2>1 DEF JobCoherent, JobIntent, Exists
  <2> QED
    BY <2>2, <2>3
<1> QED
  BY <1>1, <1>2, <1>3, <1>4, <1>5, <1>6, <1>7, <1>8, <1>9, <1>10, <1>11, <1>12, <1>13, <1>14,
     <1>15, <1>16, <1>17, <1>18, <1>19 DEF Next, CommitStep, PassStep, OpenStep

-----------------------------------------------------------------------------
(* The schedule *)

\* A slot that is answered stays answered: an intent is removed only after its receipt.
LEMMA AnsweredStays ==
    ASSUME IInv, [Next]_vars, NEW s \in Keys, Answered(s)
    PROVE  Answered(s)'
<1>0. TypeOK /\ JobCoherent /\ IdsCoherent /\ dedupe \in [Keys -> Receipt]
  BY DEF IInv, TypeOK
<1>1. CASE UNCHANGED <<dedupe, intents>>
  BY <1>1 DEF Answered
<1>2. CASE UNCHANGED dedupe /\ intents \subseteq intents'
  BY <1>2 DEF Answered
<1>3. CASE WriteDedupe
  <2>1. job.act # 0 /\ job.key \in Keys
    BY <1>0, <1>3, WritingIntent, BoundsType DEF WriteDedupe, Writing
  <2>2. UNCHANGED intents /\ dedupe' = [dedupe EXCEPT ![job.key] = [act |-> job.act, disp |-> job.disp]]
    BY <1>3 DEF WriteDedupe
  <2>3. [act |-> job.act, disp |-> job.disp] # NoReceipt
    BY <2>1 DEF NoReceipt
  <2>4. dedupe[s] # NoReceipt => dedupe'[s] # NoReceipt
    BY <1>0, <2>1, <2>2, <2>3
  <2> QED
    BY <2>2, <2>4 DEF Answered
<1>4. CASE ClearIntent
  <2>1. /\ JobIntent \in intents /\ JobIntent.act = job.act /\ JobIntent.key = job.key
        /\ dedupe[job.key] # NoReceipt
    BY <1>0, <1>4, WritingIntent DEF ClearIntent, Writing, JobCoherent
  <2>2. UNCHANGED dedupe /\ intents' = {i \in intents : i.act # job.act}
    BY <1>4 DEF ClearIntent
  <2>3. \A i \in intents : i.act = job.act => i = JobIntent
    BY <1>0, <2>1 DEF IdsCoherent
  <2> QED
    BY <2>1, <2>2, <2>3 DEF Answered
<1>5. CASE RecordFailure
  BY <1>2, <1>5 DEF RecordFailure, PersistIntent
<1>6. CASE WriteWork \/ RefuseWork \/ WriteActivation \/ PruneActivations
  BY <1>1, <1>6 DEF WriteWork, RefuseWork, WriteActivation, PruneActivations, files
<1>7. ASSUME NEW cause, NEW key, NEW ready, NEW due, NEW pass, Activate(cause, key, ready, due, pass)
      PROVE  Answered(s)'
  <2>1. UNCHANGED dedupe /\ intents \subseteq intents'
    BY <1>7 DEF Activate, PersistIntent
  <2> QED
    BY <1>2, <2>1
<1>8. CASE \E ready \in BOOLEAN : FireSlot(ready)
  BY <1>1, <1>7, <1>8 DEF FireSlot, files
<1>9. CASE \E r \in Requests, ready \in BOOLEAN : FireRoutine(r, ready)
  BY <1>7, <1>9 DEF FireRoutine
<1>10. CASE EndPass \/ FireDue \/ OpenStep
  BY <1>1, <1>10 DEF EndPass, FireDue, OpenStep, Reopen, RecoverIntent, Opened, files
<1>11. CASE \/ \E life \in Lifecycle : SetLifecycle(life)
            \/ \E a \in Activations, to \in WorkState \ {"absent"} : MoveWork(a, to)
  BY <1>1, <1>11 DEF SetLifecycle, MoveWork
<1>12. CASE Tick \/ Crash \/ UNCHANGED vars
  BY <1>1, <1>12 DEF Tick, Crash, vars, files
<1> QED
  BY <1>3, <1>4, <1>5, <1>6, <1>8, <1>9, <1>10, <1>11, <1>12 DEF Next, CommitStep, PassStep

\* While a pass goes on, what is due does not change, and no slot of it is forgotten.
SameSchedule == UNCHANGED <<trigger, missed, routine, now>>

\* A step that keeps the schedule, and answers each slot it takes from the pass, keeps PassCovers.
LEMMA PassGoesOn ==
    ASSUME IInv, [Next]_vars, SameSchedule, job'.pass => job.pass,
           \A s \in job.due : s \in Instant => s \in job'.due \/ Answered(s)'
    PROVE  PassCovers'
<1> SUFFICES ASSUME job.pass, IsDue, NEW s \in DueOccurrences
             PROVE  s \in job'.due \/ Answered(s)'
  BY Zenon DEF PassCovers, SameSchedule, IsDue, DueOccurrences, OccurrencesThrough
<1>1. DueOccurrences \in SUBSET Instant
  BY DueType DEF IInv, TypeOK
<1>2. s \in Instant /\ s \in Keys
  BY <1>1 DEF Keys
<1>3. s \in job.due \/ Answered(s)
  BY DEF IInv, PassCovers
<1> QED
  BY <1>2, <1>3, AnsweredStays

\* An activation answers its slot, or its failure moves the schedule.
LEMMA ActivatedSlot ==
    ASSUME IInv, [Next]_vars, NEW cause, NEW key \in Keys, NEW ready \in BOOLEAN,
           NEW due \in SUBSET Instant, NEW pass \in BOOLEAN,
           Activate(cause, key, ready, due, pass)
    PROVE  \/ SameSchedule /\ Answered(key)' /\ job'.due = due /\ job'.pass = pass
           \/ ~IsDue'
<1>0. TypeOK /\ CircuitCoherent /\ UNCHANGED <<trigger, missed, now>>
  BY DEF IInv, Activate, plan
<1>1. CASE Decide(cause, ready) = "failed"
  <2>1. routine' = Failed /\ ~routine.circuit
    BY <1>1, DecideType DEF Activate
  <2>2. routine'.next # Never => routine'.next > now
    BY <1>0, <2>1, FailedType
  <2>3. routine'.next \in Nat \cup {Never} /\ now \in Nat
    BY <1>0, <2>1, FailedType, BoundsType DEF RoutineRecord, TypeOK
  <2> QED
    BY <1>0, <2>2, <2>3 DEF IsDue
<1>2. CASE Decide(cause, ready) # "failed"
  <2> DEFINE disp == Decide(cause, ready)
  <2>1. PersistIntent(key, disp, due, pass) /\ UNCHANGED routine
    BY <1>2 DEF Activate
  <2> HIDE DEF disp
  <2>2. job'.due = due /\ job'.pass = pass
    BY <2>1 DEF PersistIntent
  <2>3. [act |-> issued + 1, key |-> key, disp |-> disp] \in intents'
    BY <2>1 DEF PersistIntent
  <2>4. Answered(key)'
    BY <2>3 DEF Answered
  <2> QED
    BY <1>0, <2>1, <2>2, <2>4 DEF SameSchedule
<1> QED
  BY <1>1, <1>2

\* Every step keeps the slots of a pass covered.
LEMMA PassStepCovers ==
    ASSUME IInv, [Next]_vars
    PROVE  PassCovers'
<1>0. TypeOK /\ JobCoherent /\ PassCovers /\ job \in Job
  BY DEF IInv, TypeOK
<1>1. ASSUME SameSchedule, job'.pass => job.pass, job.pass => job'.due = job.due
      PROVE  PassCovers'
  <2>1. CASE job.pass
    BY <1>1, <2>1, PassGoesOn
  <2>2. CASE ~job.pass
    BY <1>1, <2>2 DEF PassCovers
  <2> QED
    BY <2>1, <2>2
<1>2. ASSUME job' = NoJob PROVE PassCovers'
  BY <1>2 DEF PassCovers, NoJob
<1>3. CASE RecordFailure
  <2>1. SameSchedule /\ PersistIntent(job.key, job.disp, job.due, job.pass)
    BY <1>3 DEF RecordFailure, SameSchedule, plan
  <2>2. job'.pass = job.pass /\ job'.due = job.due
    BY <2>1 DEF PersistIntent
  <2> QED
    BY <1>1, <2>1, <2>2
<1>4. CASE WriteWork \/ WriteActivation \/ WriteDedupe
  <2>1. SameSchedule /\ job'.pass = job.pass /\ job'.due = job.due
    BY <1>0, <1>4 DEF WriteWork, WriteActivation, WriteDedupe, SameSchedule, plan, Job
  <2> QED
    BY <1>1, <2>1
<1>5. CASE RefuseWork \/ PruneActivations
  <2>1. SameSchedule /\ job' = Rest
    BY <1>5 DEF RefuseWork, PruneActivations, SameSchedule, plan, files
  <2>2. (job'.pass => job.pass) /\ (job.pass => job'.due = job.due)
    BY <2>1 DEF Rest, NoJob
  <2> QED
    BY <1>1, <2>1, <2>2
<1>6. CASE ClearIntent
  <2>1. SameSchedule /\ job' = IF store = "opening" THEN NoJob ELSE [job EXCEPT !.stage = "prune"]
    BY <1>6 DEF ClearIntent, SameSchedule, plan
  <2>2. CASE job' = NoJob
    BY <1>2, <2>2
  <2>3. CASE job' = [job EXCEPT !.stage = "prune"]
    <3>1. job'.pass = job.pass /\ job'.due = job.due
      BY <1>0, <2>3 DEF Job
    <3> QED
      BY <1>1, <2>1, <3>1
  <2> QED
    BY <2>1, <2>2, <2>3
<1>7. ASSUME NEW ready \in BOOLEAN, FireSlot(ready) PROVE PassCovers'
  <2>0. PICK slot \in Keys : slot = Least(job.due)
    BY <1>0, <1>7, SlotType DEF FireSlot
  <2>1. job.pass /\ job.due \ {slot} \in SUBSET Instant
    BY <1>0, <1>7, <2>0, SlotType DEF FireSlot, JobCoherent
  <2>2. CASE Activate("scheduled", slot, ready, job.due \ {slot}, TRUE)
    <3> DEFINE rest == job.due \ {slot}
    <3>1. \/ SameSchedule /\ Answered(slot)' /\ job'.due = rest /\ job'.pass = TRUE
          \/ ~IsDue'
      BY <2>1, <2>2, ActivatedSlot
    <3>2. CASE ~IsDue'
      BY <3>2 DEF PassCovers
    <3>3. CASE SameSchedule /\ Answered(slot)' /\ job'.due = rest /\ job'.pass = TRUE
      <4>1. \A s \in job.due : s \in job'.due \/ Answered(s)'
        BY <3>3
      <4> QED
        BY <2>1, <3>3, <4>1, PassGoesOn
    <3> QED
      BY <3>1, <3>2, <3>3
  <2>3. CASE /\ dedupe[slot] # NoReceipt
             /\ job' = [job EXCEPT !.due = job.due \ {slot}]
             /\ UNCHANGED <<plan, files, issued, store, now, crashes>>
    <3>1. SameSchedule /\ UNCHANGED dedupe /\ job'.due = job.due \ {slot}
      BY <1>0, <2>3 DEF SameSchedule, plan, files, Job
    <3>2. \A s \in job.due : s \in job'.due \/ Answered(s)'
      <4> SUFFICES ASSUME NEW s \in job.due, s \notin job'.due PROVE Answered(s)'
        OBVIOUS
      <4>1. s = slot
        BY <3>1
      <4>2. dedupe'[s] # NoReceipt
        BY <2>3, <3>1, <4>1
      <4> QED
        BY <4>2 DEF Answered
    <3> QED
      BY <2>1, <3>1, <3>2, PassGoesOn
  <2> QED
    BY <1>7, <2>0, <2>2, <2>3 DEF FireSlot
<1>8. CASE EndPass \/ Crash
  BY <1>2, <1>8 DEF EndPass, Crash
<1>9. CASE FireDue
  <2>1. CASE DueOccurrences = {}
    <3>1. job' = NoJob
      BY <1>9, <2>1 DEF FireDue, Idle
    <3> QED
      BY <1>2, <3>1
  <2>2. CASE DueOccurrences # {}
    <3>1. job' = [NoJob EXCEPT !.stage = "pass", !.pass = TRUE, !.due = DueOccurrences]
      BY <1>9, <2>2 DEF FireDue
    <3>2. job'.due = DueOccurrences
      BY <3>1 DEF NoJob
    <3>3. UNCHANGED <<trigger, missed, routine, now>>
      BY <1>9, <2>2 DEF FireDue, plan
    <3>4. DueOccurrences' = DueOccurrences
      BY <3>3, Zenon DEF DueOccurrences, OccurrencesThrough
    <3> QED
      BY <3>2, <3>4 DEF PassCovers
  <2> QED
    BY <2>1, <2>2
<1>10. CASE Reopen \/ Opened \/ Tick \/ \E life \in Lifecycle : SetLifecycle(life)
  <2>1. job' = NoJob
    BY <1>0, <1>10 DEF Reopen, Opened, Tick, SetLifecycle, Idle, JobCoherent
  <2> QED
    BY <1>2, <2>1
<1>11. ASSUME NEW i \in intents, RecoverIntent(i) PROVE PassCovers'
  <2>1. job'.pass = FALSE
    BY <1>11 DEF RecoverIntent
  <2> QED
    BY <2>1 DEF PassCovers
<1>12. ASSUME NEW r \in Requests, NEW ready \in BOOLEAN, FireRoutine(r, ready) PROVE PassCovers'
  <2>1. r \in Keys /\ {} \in SUBSET Instant
    BY DEF Keys
  <2>2. ~job'.pass \/ ~IsDue'
    BY <1>12, <2>1, ActivatedSlot DEF FireRoutine
  <2> QED
    BY <2>2 DEF PassCovers
<1>13. CASE \E a \in Activations, to \in WorkState \ {"absent"} : MoveWork(a, to)
  BY <1>2, <1>13 DEF MoveWork, Idle
<1>14. CASE UNCHANGED vars
  BY <1>1, <1>14 DEF vars, SameSchedule, plan, files
<1> QED
  BY <1>3, <1>4, <1>5, <1>6, <1>7, <1>8, <1>9, <1>10, <1>11, <1>12, <1>13, <1>14
     DEF Next, CommitStep, PassStep, OpenStep

\* The slots that due_occurrences lists.
Listed == Earliest(Passed, CatchUpLimit + 1)

\* No slot, nothing owed.
LEMMA NothingOwed == Owed({}) = {}
<1>1. \A n : Latest({}, n) = {}
  BY DEF Latest
<1> QED
  BY <1>1 DEF Owed

\* A recurring routine that is due activates every listed slot its policy owes.
LEMMA OwedIsDue ==
    ASSUME TypeOK, IsDue, trigger.kind = "recurring"
    PROVE  Owed(Listed) \subseteq DueOccurrences
<1>0. missed \in MissedRunPolicy
  BY DEF TypeOK
<1>1. OccurrencesThrough(routine.next, now, CatchUpLimit + 1) = Listed
  BY DEF OccurrencesThrough, Passed, Listed
<1>2. CASE Listed = {}
  BY <1>2, NothingOwed
<1>3. CASE Listed # {}
  <2>1. DueOccurrences = CASE missed = "skip" /\ Cardinality(Listed) = 1 -> Listed
                           [] missed = "skip" /\ Cardinality(Listed) # 1 -> {}
                           [] missed = "coalesce" -> Latest(Listed, 1)
                           [] missed = "catch_up" -> Latest(Listed, CatchUpLimit)
    BY <1>0, <1>1, <1>3 DEF DueOccurrences, MissedRunPolicy
  <2>2. Owed(Listed) = CASE missed = "catch_up" -> Latest(Listed, CatchUpLimit)
                         [] missed = "coalesce" -> Latest(Listed, 1)
                         [] missed = "skip" /\ Cardinality(Listed) = 1 -> Listed
                         [] OTHER -> {}
    BY DEF Owed
  <2>3. CASE missed = "skip"
    BY <2>1, <2>2, <2>3
  <2>4. CASE missed = "coalesce"
    BY <2>1, <2>2, <2>4
  <2>5. CASE missed = "catch_up"
    BY <2>1, <2>2, <2>5
  <2> QED
    BY <1>0, <2>3, <2>4, <2>5 DEF MissedRunPolicy
<1> QED
  BY <1>2, <1>3

\* Only a pass, or a look at the schedule that finds nothing to activate, moves it.
LEMMA ScheduleMovers ==
    ASSUME IInv, [Next]_vars, routine.next # Never, routine'.next # routine.next,
           routine'.life = "enabled", routine'.fails = routine.fails
    PROVE  EndPass \/ (FireDue /\ DueOccurrences = {})
<1>0. TypeOK /\ CircuitCoherent
  BY DEF IInv
<1>1. CASE CommitStep
  BY <1>1 DEF CommitStep, RecordFailure, WriteWork, RefuseWork, WriteActivation, WriteDedupe,
     ClearIntent, PruneActivations, files
<1>2. ASSUME NEW cause, NEW key, NEW ready \in BOOLEAN, NEW due, NEW pass,
             Activate(cause, key, ready, due, pass)
      PROVE  FALSE
  <2>1. CASE Decide(cause, ready) = "failed"
    <3>1. routine' = Failed /\ ~routine.circuit
      BY <1>2, <2>1, DecideType DEF Activate
    <3> QED
      BY <1>0, <3>1, FailedType
  <2>2. CASE Decide(cause, ready) # "failed"
    BY <1>2, <2>2 DEF Activate
  <2> QED
    BY <2>1, <2>2
<1>3. CASE PassStep
  BY <1>2, <1>3 DEF PassStep, FireSlot, files
<1>4. CASE OpenStep
  BY <1>4 DEF OpenStep, Reopen, RecoverIntent, Opened, files
<1>5. CASE FireDue
  BY <1>5 DEF FireDue
<1>6. CASE \E r \in Requests, ready \in BOOLEAN : FireRoutine(r, ready)
  BY <1>2, <1>6 DEF FireRoutine
<1>7. ASSUME NEW life \in Lifecycle, SetLifecycle(life) PROVE FALSE
  <2>1. routine \in RoutineRecord
    BY <1>0 DEF TypeOK
  <2>2. CASE life = "enabled"
    <3>1. routine'.next = routine.next
      BY <1>7, <2>2 DEF SetLifecycle
    <3> QED
      BY <3>1
  <2>3. CASE life = "disabled"
    <3>1. routine' = [routine EXCEPT !.life = life, !.next = Never]
      BY <1>7, <2>3 DEF SetLifecycle
    <3>2. routine'.life = "disabled"
      BY <2>1, <2>3, <3>1 DEF RoutineRecord
    <3> QED
      BY <3>2
  <2>4. CASE life = "paused"
    <3>1. routine' = [routine EXCEPT !.life = life]
      BY <1>7, <2>4 DEF SetLifecycle
    <3>2. routine'.life = "paused"
      BY <2>1, <2>4, <3>1 DEF RoutineRecord
    <3> QED
      BY <3>2
  <2> QED
    BY <2>2, <2>3, <2>4 DEF Lifecycle
<1>8. CASE \E a \in Activations, to \in WorkState \ {"absent"} : MoveWork(a, to)
  BY <1>8 DEF MoveWork
<1>9. CASE Tick \/ Crash \/ UNCHANGED vars
  BY <1>9 DEF Tick, Crash, vars, files
<1> QED
  BY <1>1, <1>3, <1>4, <1>5, <1>6, <1>7, <1>8, <1>9 DEF Next

\* So every listed slot that is owed is answered when the schedule moves past it.
LEMMA OwedAnswered ==
    ASSUME IInv, [Next]_vars, ScheduleMoves
    PROVE  \A s \in Owed(Listed) : Answered(s)
<1>0. /\ TypeOK /\ PassCovers /\ JobCoherent /\ routine.next \in Nat /\ now \in Nat
      /\ trigger.kind = "recurring"
  BY BoundsType DEF IInv, TypeOK, RoutineRecord, ScheduleMoves
<1>1. CASE FireDue /\ DueOccurrences = {}
  BY <1>0, <1>1, OwedIsDue DEF FireDue
<1>2. CASE EndPass
  <2>1. job.pass /\ job.due = {}
    BY <1>0, <1>2 DEF EndPass, JobCoherent
  <2>2. CASE IsDue
    <3>1. \A s \in DueOccurrences : Answered(s)
      BY <1>0, <2>1, <2>2 DEF PassCovers
    <3> QED
      BY <1>0, <2>2, <3>1, OwedIsDue
  <2>3. CASE ~IsDue
    <3>1. routine.next > now
      BY <1>0, <2>3 DEF IsDue, ScheduleMoves
    <3>2. trigger.slots \subseteq Nat
      BY <1>0, TriggerType DEF TypeOK
    <3>3. Passed = {}
      BY <1>0, <3>1, <3>2 DEF Passed
    <3>4. Listed = {}
      BY <3>3 DEF Listed, Earliest
    <3> QED
      BY <3>4, NothingOwed
  <2> QED
    BY <2>2, <2>3
<1> QED
  BY <1>1, <1>2, ScheduleMovers DEF ScheduleMoves

-----------------------------------------------------------------------------
\* Every step keeps the inductive invariant.
LEMMA InvStep == IInv /\ [Next]_vars => IInv'
<1> SUFFICES ASSUME IInv, [Next]_vars PROVE IInv'
  OBVIOUS
<1>1. TypeOK' /\ CircuitCoherent'
  BY TypeStep DEF IInv
<1>2. Core' /\ JobCoherent' /\ LeftOversRefused'
  BY CoreStep
<1>3. PassCovers'
  BY PassStepCovers
<1> QED
  BY <1>1, <1>2, <1>3 DEF IInv, Core

\* A new routine satisfies it.
LEMMA InitInv == Init => IInv
<1> SUFFICES ASSUME Init PROVE IInv
  OBVIOUS
<1>1. /\ trigger \in Triggers /\ missed \in MissedRunPolicy /\ intents = {} /\ issued = 0
      /\ works = [a \in Activations |-> NoWork] /\ history = {}
      /\ dedupe = [k \in Keys |-> NoReceipt]
      /\ store = "up" /\ job = NoJob /\ now = 0 /\ crashes = 0
      /\ routine = [life |-> "enabled", next |-> InitialNextFire(trigger, 0), fails |-> 0,
                    circuit |-> FALSE]
  BY DEF Init
<1>2. InitialNextFire(trigger, 0) \in Nat \cup {Never}
  BY <1>1, InitialNextFireType
<1>3. routine \in RoutineRecord /\ routine.fails = 0
  BY <1>1, <1>2 DEF RoutineRecord, Lifecycle
<1>4. works \in [Activations -> Work] /\ \A a \in Activations : ~Exists(a)
  BY <1>1 DEF NoWork, Work, WorkState, Exists
<1>5. dedupe \in [Keys -> Receipt]
  BY <1>1 DEF NoReceipt, Receipt
<1>6. TypeOK /\ CircuitCoherent
  BY <1>1, <1>3, <1>4, <1>5, NoJobType, BoundsType DEF TypeOK, CircuitCoherent
<1>7. JobCoherent /\ PassCovers
  BY <1>1 DEF JobCoherent, PassCovers, NoJob, Writing
<1>8. IdsCoherent /\ LeftOversRefused /\ ItemsAnswered /\ ItemsUntouched /\ OneMaker
  BY <1>1, <1>4 DEF IdsCoherent, LeftOversRefused, ItemsAnswered, ItemsUntouched, OneMaker
<1>9. OneWorkPerOccurrence
  BY <1>4 DEF OneWorkPerOccurrence
<1> QED
  BY <1>6, <1>7, <1>8, <1>9 DEF IInv

\* The inductive invariant: an intent that is left in a running store was refused by a full
\* lane, an item that its intent made has not been touched, and a pass covers its slots.
THEOREM Inductive == Spec => []IInv
BY InitInv, InvStep, PTL DEF Spec

\* Every variable keeps its type: the failures counted stay within the circuit's limit, the
\* slots of a pass lie in the past, and activation ids within those issued.
THEOREM TypeCorrectness == Spec => []TypeOK
<1>1. IInv => TypeOK
  BY DEF IInv
<1> QED
  BY <1>1, Inductive, PTL

\* An occurrence makes at most one Work item, for every schedule, lane capacity and number of
\* crashes: activate_routine_unlocked asks for the dedupe receipt before it writes an intent,
\* and an intent that is left in a running store can no longer make an item.
THEOREM OccurrencesAreUnique == Spec => []OneWorkPerOccurrence
<1>1. IInv => OneWorkPerOccurrence
  BY DEF IInv
<1> QED
  BY <1>1, Inductive, PTL

\* Committing or replaying an intent (commit_routine_intent_unlocked writes the item whatever
\* is there) never takes back what a worker or an operator did: the items they can reach have
\* no intent.
THEOREM CommitsKeepProgress == Spec => ProgressIsKept
<1> DEFINE Step == \A a \in Activations : Exists(a) /\ works'[a] # works[a] => Idle
<1>1. ASSUME IInv, [Next]_vars PROVE Step
  <2>1. CASE UNCHANGED works
    BY <2>1
  <2>2. CASE WriteWork
    <3>1. \A a \in Activations : Exists(a) => works'[a] = works[a]
      <4>1. TypeOK /\ Core /\ JobCoherent /\ LeftOversRefused
        BY <1>1 DEF IInv, Core
      <4> QED
        BY <2>2, <4>1, WriteWorkCore
    <3> QED
      BY <3>1
  <2>3. CASE \E a \in Activations, to \in WorkState \ {"absent"} : MoveWork(a, to)
    BY <2>3 DEF MoveWork
  <2>4. CASE RecordFailure \/ RefuseWork \/ WriteActivation \/ WriteDedupe \/ ClearIntent
             \/ PruneActivations
    BY <2>1, <2>4 DEF RecordFailure, RefuseWork, WriteActivation, WriteDedupe, ClearIntent,
       PruneActivations, files
  <2>5. CASE PassStep \/ FireDue
    BY <2>1, <2>5 DEF PassStep, FireSlot, Activate, EndPass, FireDue, files
  <2>6. CASE OpenStep \/ Tick \/ Crash
    BY <2>1, <2>6 DEF OpenStep, Reopen, RecoverIntent, Opened, Tick, Crash, files
  <2>7. CASE \/ \E r \in Requests, ready \in BOOLEAN : FireRoutine(r, ready)
             \/ \E life \in Lifecycle : SetLifecycle(life)
    BY <2>1, <2>7 DEF FireRoutine, Activate, SetLifecycle
  <2>8. CASE UNCHANGED vars
    BY <2>1, <2>8 DEF vars, files
  <2> HIDE DEF Step
  <2> QED
    BY <1>1, <2>2, <2>3, <2>4, <2>5, <2>6, <2>7, <2>8 DEF Next, CommitStep
<1>2. IInv /\ [Next]_vars => [Step]_vars
  BY <1>1
<1> QED
  BY <1>2, Inductive, PTL DEF Spec, ProgressIsKept

\* Of the CatchUpLimit + 1 earliest missed slots, which are all that due_occurrences lists, the
\* schedule moves past none that its policy owes an answer (fire_due_routines_at), for every
\* trigger, limit and backoff: within a pass each of the slots it was to activate is still to
\* come or has been answered.  Of the slots after these it says nothing: they are passed
\* unanswered, the latest missed slot among them, and NoSlotIsLost does not hold.
THEOREM SlotsAreAnswered == Spec => ListedSlotsAreAnswered
<1> DEFINE Step == ScheduleMoves => \A s \in Owed(Listed) : Answered(s)
<1>1. IInv /\ [Next]_vars => [Step]_vars
  BY OwedAnswered
<1>2. ListedSlotsAreAnswered <=> [][Step]_vars
  BY DEF ListedSlotsAreAnswered, Listed
<1> QED
  BY <1>1, <1>2, Inductive, PTL DEF Spec

\* Only the refusal of an item makes an opening fail (commit_routine_intent_unlocked with
\* validate_work_item_for_save_unlocked), and then the lane is full and an intent for an item
\* that is not there is left, for every capacity and number of crashes.
THEOREM OnlyFullLanesRefuse == Spec => []RefusalNeedsFullLane
<1>1. Init => RefusalNeedsFullLane
  BY DEF Init, RefusalNeedsFullLane
<1>2. IInv /\ RefusalNeedsFullLane /\ [Next]_vars => RefusalNeedsFullLane'
  <2> SUFFICES ASSUME IInv, RefusalNeedsFullLane, [Next]_vars, store' = "refused"
               PROVE  RefusalNeedsFullLane'
    BY DEF RefusalNeedsFullLane
  <2>1. CASE RefuseWork
    <3>1. /\ Cardinality({a \in Activations : Exists(a)}) >= Capacity /\ ~Exists(job.act)
          /\ UNCHANGED <<works, intents>> /\ job.stage = "work"
      BY <2>1 DEF RefuseWork, files
    <3>2. JobIntent \in intents /\ JobIntent.act = job.act /\ JobIntent.disp = "created_work"
      BY <3>1 DEF IInv, JobCoherent, JobIntent, Writing
    <3> QED
      BY <3>1, <3>2 DEF RefusalNeedsFullLane, Exists
  <2>2. CASE store = "refused"
    <3>1. job = NoJob
      BY <2>2 DEF IInv, JobCoherent
    <3>2. UNCHANGED <<works, intents>>
      BY <2>2, <3>1 DEF Next, CommitStep, RecordFailure, WriteWork, RefuseWork, WriteActivation,
         WriteDedupe, ClearIntent, PruneActivations, PassStep, FireSlot, EndPass, OpenStep, Reopen,
         RecoverIntent, Opened, FireDue, FireRoutine, SetLifecycle, MoveWork, Tick, Crash, Idle,
         NoJob, vars, files
    <3> QED
      BY <2>2, <3>2 DEF RefusalNeedsFullLane, Exists
  <2>3. CASE store # "refused" /\ ~RefuseWork
    BY <2>3 DEF Next, CommitStep, RecordFailure, WriteWork, WriteActivation,
       WriteDedupe, ClearIntent, PruneActivations, PassStep, FireSlot, EndPass, OpenStep, Reopen,
       RecoverIntent, Opened, FireDue, FireRoutine, SetLifecycle, MoveWork, Tick, Crash, Activate, vars
  <2> QED
    BY <2>1, <2>2, <2>3
<1> QED
  BY <1>1, <1>2, Inductive, PTL DEF Spec

=============================================================================
