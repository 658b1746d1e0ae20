------------------------------ MODULE Routines ------------------------------
(***************************************************************************)
(* A durable routine: a schedule that turns occurrences into Work items.   *)
(*                                                                         *)
(* Every occurrence has a dedupe key: the instant of its slot, or the      *)
(* request id of a manual fire.  An activation writes an intent, then the  *)
(* Work item, the activation record and the dedupe receipt, one file after *)
(* the other, removes the intent and prunes the history.  The store lock   *)
(* is held throughout, by a pass of the supervisor for all the slots that  *)
(* are due; the process may die between any two writes, and opening the    *)
(* store commits the intents that are left.                                *)
(*                                                                         *)
(* A pass works with the time at which it began, so the clock stands still *)
(* while the lock is held: what passes meanwhile passes afterwards.  Texts,*)
(* payloads and captured policies are left out, and so is the revision     *)
(* check of set_routine_lifecycle, which can only refuse.  The external    *)
(* triggers are reserved and change nothing.                               *)
(***************************************************************************)
EXTENDS Integers, FiniteSets

CONSTANTS
    Triggers,         \* the schedules a routine may have
    Requests,         \* request ids of manual fires
    MaxTime,          \* bound on the clock
    MaxActivations,   \* bound on the activations
    MaxCrashes,       \* bound on the crashes
    MaxInFlight,      \* concurrency.max_in_flight
    CatchUpLimit,     \* MAX_CATCH_UP_OCCURRENCES
    History,          \* MAX_ACTIVATION_HISTORY
    Capacity,         \* MAX_GRAPH_SCOPE_ITEMS
    CircuitFailures,  \* retry.circuit_failures
    Backoff,          \* retry.backoff_ms
    MaxBackoff        \* retry.max_backoff_ms

\* Never stands for an Option of an instant that is None.
Never == -1
Instant == 0..MaxTime

\* slots are the instants at which the trigger fires; a one-shot has one, a manual trigger none.
Trigger == [kind : {"recurring", "one_shot"}, slots : SUBSET Nat, expires : Nat \cup {Never}]

ASSUME BoundsAssumption ==
    /\ {MaxTime, MaxActivations, MaxCrashes, Capacity} \subseteq Nat
    /\ {MaxInFlight, CatchUpLimit, History, CircuitFailures, Backoff} \subseteq Nat \ {0}
    /\ MaxBackoff \in Nat /\ Backoff <= MaxBackoff

ASSUME TriggersAssumption ==
    /\ Triggers \subseteq Trigger
    /\ \A t \in Triggers : t.kind = "one_shot" => Cardinality(t.slots) = 1

VARIABLES
    trigger,   \* RoutineRecord.trigger
    missed,    \* RoutineRecord.missed_run_policy
    routine,   \* the fields of the RoutineRecord that change
    intents,   \* the files of routine-intents/
    works,     \* the Work item of each activation
    history,   \* the activation records
    dedupe,    \* the dedupe receipts by key
    issued,    \* activation ids in use are 1..issued
    store,     \* "down", "opening", "up", "refused"
    job,       \* what the holder of the store lock is doing
    now,       \* the clock
    crashes    \* crashes so far

plan == <<trigger, missed>>
files == <<routine, intents, works, history, dedupe>>
vars == <<plan, files, issued, store, job, now, crashes>>

Lifecycle == {"enabled", "paused", "disabled"}
MissedRunPolicy == {"skip", "coalesce", "catch_up"}
Activations == 1..MaxActivations
Keys == Instant \cup Requests
Disposition == {"created_work", "skipped_paused", "skipped_disabled", "skipped_overlap",
                "backoff", "circuit_open"}

RoutineRecord == [life : Lifecycle, next : Nat \cup {Never}, fails : Nat, circuit : BOOLEAN]

\* "absent" is a file that does not exist.  Of the states of the ledger it matters whether the
\* item is as the activation made it or terminal.  The key is not on the item itself.
WorkState == {"absent", "queued", "terminal"}
Work == [state : WorkState, key : Keys \cup {Never}]
NoWork == [state |-> "absent", key |-> Never]

Intent == [act : Activations, key : Keys, disp : Disposition]
Receipt == [act : Activations \cup {0}, disp : Disposition \cup {"none"}]
NoReceipt == [act |-> 0, disp |-> "none"]

\* The stages of the holder of the lock; `due` are the slots a pass has still to activate.
Stage == {"idle", "pass", "record", "work", "activation", "dedupe", "clear", "prune"}
Job == [stage : Stage, pass : BOOLEAN, due : SUBSET Instant,
        act : Activations \cup {0}, key : Keys \cup {Never}, disp : Disposition \cup {"none"}]
NoJob == [stage |-> "idle", pass |-> FALSE, due |-> {}, act |-> 0, key |-> Never, disp |-> "none"]

-----------------------------------------------------------------------------
(* The schedule.                                                            *)

Least(S) == IF S = {} THEN Never ELSE CHOOSE s \in S : \A t \in S : s <= t

NextAfter(after) == Least({s \in trigger.slots : s > after})

InitialNextFire(t, time) ==
    CASE t.kind = "one_shot" /\ t.expires # Never /\ t.expires < time -> Never
      [] t.kind = "one_shot" -> Least(t.slots)
      [] OTHER -> Least({s \in t.slots : s >= time})

Earliest(S, n) == {s \in S : Cardinality({t \in S : t < s}) < n}
Latest(S, n) == {s \in S : Cardinality({t \in S : t > s}) < n}

\* Mutant of OccurrencesThrough: the slot at which the range begins is taken for handled.
OccurrencesThroughExclusive(from, through, limit) ==
    Earliest({s \in trigger.slots : from < s /\ s <= through}, limit)

OccurrencesThrough(from, through, limit) ==
    Earliest({s \in trigger.slots : from <= s /\ s <= through}, limit)

\* due_occurrences.  An instant that is no slot of the trigger is a backoff that has elapsed.
DueOccurrences ==
    LET slots == OccurrencesThrough(routine.next, now, CatchUpLimit + 1)
    IN  CASE trigger.kind = "one_shot" /\ trigger.expires # Never /\ trigger.expires < now -> {}
          [] trigger.kind = "one_shot" \/ slots = {} -> {routine.next}
          [] missed = "skip" /\ Cardinality(slots) = 1 -> slots
          [] missed = "skip" /\ Cardinality(slots) # 1 -> {}
          [] missed = "coalesce" -> Latest(slots, 1)
          [] missed = "catch_up" -> Latest(slots, CatchUpLimit)

IsDue == routine.next # Never /\ routine.next <= now

\* delay_after: doubled with every failure, the exponent and the result are capped.
DelayAfter(fails) ==
    LET shift == IF fails - 1 < 10 THEN fails - 1 ELSE 10
        scaled == Backoff * 2 ^ shift
    IN  IF scaled < MaxBackoff THEN scaled ELSE MaxBackoff

-----------------------------------------------------------------------------
Init ==
    /\ trigger \in Triggers /\ missed \in MissedRunPolicy
    /\ routine = [life |-> "enabled", next |-> InitialNextFire(trigger, 0), fails |-> 0,
                  circuit |-> FALSE]
    /\ intents = {} /\ issued = 0
    /\ works = [a \in Activations |-> NoWork]
    /\ history = {}
    /\ dedupe = [k \in Keys |-> NoReceipt]
    /\ store = "up" /\ job = NoJob /\ now = 0 /\ crashes = 0

\* Nobody holds the store lock.
Idle == store = "up" /\ job = NoJob

Exists(a) == works[a].state # "absent"

InFlight == Cardinality({a \in Activations : works[a].state = "queued"})

-----------------------------------------------------------------------------
(* One activation.                                                          *)

\* The checks of activate_routine_unlocked in their order; `ready` says that the agent is
\* known, in this workspace, and its bounds can be captured.
Decide(cause, ready) ==
    CASE routine.circuit -> "circuit_open"
      [] routine.life = "disabled" -> "skipped_disabled"
      [] routine.life = "paused" /\ cause = "scheduled" -> "skipped_paused"
      [] InFlight >= MaxInFlight -> "skipped_overlap"
      [] ready -> "created_work"
      [] OTHER -> "failed"

\* fail_activation_unlocked: back off, or open the circuit.
Failed ==
    LET fails == routine.fails + 1
    IN  IF fails >= CircuitFailures
          THEN [life |-> "paused", next |-> Never, fails |-> fails, circuit |-> TRUE]
          ELSE [routine EXCEPT !.fails = fails, !.next = now + DelayAfter(fails)]

\* The intent is durable; a Work item is only written when there is one.
PersistIntent(key, disp, due, pass) ==
    /\ issued' = issued + 1
    /\ intents' = intents \cup {[act |-> issued + 1, key |-> key, disp |-> disp]}
    /\ job' = [stage |-> IF disp = "created_work" THEN "work" ELSE "activation",
               pass |-> pass, due |-> due, act |-> issued + 1, key |-> key, disp |-> disp]

\* activate_routine_unlocked up to its first write.
Activate(cause, key, ready, due, pass) ==
    LET disp == Decide(cause, ready) IN
    /\ dedupe[key] = NoReceipt /\ issued < MaxActivations
    /\ IF disp = "failed"
         THEN /\ routine' = Failed
              /\ job' = [NoJob EXCEPT !.stage = "record", !.pass = pass, !.due = due, !.key = key,
                                      !.disp = IF Failed.circuit THEN "circuit_open" ELSE "backoff"]
              /\ UNCHANGED <<intents, issued>>
         ELSE PersistIntent(key, disp, due, pass) /\ UNCHANGED routine
    /\ UNCHANGED <<plan, works, history, dedupe, store, now, crashes>>

\* ptah_fire_routine.  A key that has a receipt is answered from it and changes nothing.
FireRoutine(r, ready) == Idle /\ Activate("manual", r, ready, {}, FALSE)

\* record_non_work_activation, after the failure was saved with the routine.
RecordFailure ==
    /\ job.stage = "record"
    /\ PersistIntent(job.key, job.disp, job.due, job.pass)
    /\ UNCHANGED <<plan, routine, works, history, dedupe, store, now, crashes>>

\* Where the holder of the lock goes on: with the pass, or not at all.
Rest == IF job.pass THEN [NoJob EXCEPT !.stage = "pass", !.pass = TRUE, !.due = job.due]
                    ELSE NoJob

\* commit_routine_intent_unlocked: the Work item, whatever is there already,
WriteWork ==
    /\ job.stage = "work"
    /\ Exists(job.act) \/ Cardinality({a \in Activations : Exists(a)}) < Capacity
    /\ works' = [works EXCEPT ![job.act] = [state |-> "queued", key |-> job.key]]
    /\ job' = [job EXCEPT !.stage = "activation"]
    /\ UNCHANGED <<plan, routine, intents, history, dedupe, issued, store, now, crashes>>

\* Mutant of RefuseWork: an item that is there already counts as a new one.
RefuseWorkAgain ==
    /\ job.stage = "work"
    /\ Cardinality({a \in Activations : Exists(a)}) >= Capacity
    /\ store' = IF store = "opening" THEN "refused" ELSE store
    /\ job' = Rest
    /\ UNCHANGED <<plan, files, issued, now, crashes>>

\* unless the lane is full: the intent stays, and an opening that meets it fails.
RefuseWork ==
    /\ job.stage = "work"
    /\ ~Exists(job.act) /\ Cardinality({a \in Activations : Exists(a)}) >= Capacity
    /\ store' = IF store = "opening" THEN "refused" ELSE store
    /\ job' = Rest
    /\ UNCHANGED <<plan, files, issued, now, crashes>>

WriteActivation ==
    /\ job.stage = "activation"
    /\ history' = history \cup {job.act}
    /\ job' = [job EXCEPT !.stage = "dedupe"]
    /\ UNCHANGED <<plan, routine, intents, works, dedupe, issued, store, now, crashes>>

WriteDedupe ==
    /\ job.stage = "dedupe"
    /\ dedupe' = [dedupe EXCEPT ![job.key] = [act |-> job.act, disp |-> job.disp]]
    /\ job' = [job EXCEPT !.stage = "clear"]
    /\ UNCHANGED <<plan, routine, intents, works, history, issued, store, now, crashes>>

\* Mutant of ClearIntent: the intent is left to the next opening.
ClearIntentLater ==
    /\ job.stage = "clear"
    /\ job' = IF store = "opening" THEN NoJob ELSE [job EXCEPT !.stage = "prune"]
    /\ intents' = IF store = "opening" THEN intents \ {i \in intents : i.act = job.act} ELSE intents
    /\ UNCHANGED <<plan, routine, works, history, dedupe, issued, store, now, crashes>>

\* remove_file_durable; an opening does not prune.
ClearIntent ==
    /\ job.stage = "clear"
    /\ intents' = {i \in intents : i.act # job.act}
    /\ job' = IF store = "opening" THEN NoJob ELSE [job EXCEPT !.stage = "prune"]
    /\ UNCHANGED <<plan, routine, works, history, dedupe, issued, store, now, crashes>>

\* prune_activations_unlocked keeps the newest records and every dedupe receipt.
PruneActivations ==
    /\ job.stage = "prune"
    /\ history' = Latest(history, History)
    /\ job' = Rest
    /\ UNCHANGED <<plan, routine, intents, works, dedupe, issued, store, now, crashes>>

CommitStep == RecordFailure \/ WriteWork \/ RefuseWork \/ WriteActivation \/ WriteDedupe
              \/ ClearIntent \/ PruneActivations

-----------------------------------------------------------------------------
(* The pass of the routine supervisor.                                      *)

\* Mutant of FireDue: slots the policy discards do not move the schedule.
FireDueOrWait ==
    /\ Idle /\ IsDue
    /\ DueOccurrences # {}
    /\ job' = [NoJob EXCEPT !.stage = "pass", !.pass = TRUE, !.due = DueOccurrences]
    /\ UNCHANGED <<plan, files, issued, store, now, crashes>>

\* fire_due_routines_at: slots that the policy discards only move the schedule, whatever the
\* lifecycle; the others are activated one by one.
FireDue ==
    /\ Idle /\ IsDue
    /\ IF DueOccurrences = {}
         THEN routine' = [routine EXCEPT !.next = NextAfter(now)] /\ UNCHANGED job
         ELSE /\ job' = [NoJob EXCEPT !.stage = "pass", !.pass = TRUE, !.due = DueOccurrences]
              /\ UNCHANGED routine
    /\ UNCHANGED <<plan, intents, works, history, dedupe, issued, store, now, crashes>>

\* The oldest of the slots that are left is activated, or answered from its receipt.
FireSlot(ready) ==
    /\ job.stage = "pass" /\ job.due # {}
    /\ LET slot == Least(job.due)
           rest == job.due \ {slot}
       IN  \/ Activate("scheduled", slot, ready, rest, TRUE)
           \/ /\ dedupe[slot] # NoReceipt
              /\ job' = [job EXCEPT !.due = rest]
              /\ UNCHANGED <<plan, files, issued, store, now, crashes>>

\* The pass ends with the next slot after now (every slot it fired is not later than now).
EndPass ==
    /\ job.stage = "pass" /\ job.due = {}
    /\ routine' = IF routine.life = "enabled" /\ ~routine.circuit
                    THEN [routine EXCEPT !.next = NextAfter(now)] ELSE routine
    /\ job' = NoJob
    /\ UNCHANGED <<plan, intents, works, history, dedupe, issued, store, now, crashes>>

-----------------------------------------------------------------------------
(* Operators, the ledger, time, crash and reopening.                        *)

SetLifecycle(life) ==
    /\ Idle
    /\ routine' =
         CASE life = "enabled"  -> [life |-> life, circuit |-> FALSE, fails |-> 0,
                                    next |-> IF routine.next = Never
                                               THEN InitialNextFire(trigger, now) ELSE routine.next]
           [] life = "disabled" -> [routine EXCEPT !.life = life, !.next = Never]
           [] OTHER             -> [routine EXCEPT !.life = life]
    /\ UNCHANGED <<plan, intents, works, history, dedupe, issued, store, job, now, crashes>>

\* A worker, an operator or a tick writes the item, under the same lock.  Items are never
\* removed.
MoveWork(a, to) ==
    /\ Idle /\ Exists(a) /\ to # works[a].state
    /\ works' = [works EXCEPT ![a].state = to]
    /\ UNCHANGED <<plan, routine, intents, history, dedupe, issued, store, job, now, crashes>>

Tick ==
    /\ job = NoJob /\ now < MaxTime
    /\ now' = now + 1
    /\ UNCHANGED <<plan, files, issued, store, job, crashes>>

Crash ==
    /\ store \in {"up", "opening"} /\ crashes < MaxCrashes
    /\ store' = "down" /\ job' = NoJob /\ crashes' = crashes + 1
    /\ UNCHANGED <<plan, files, issued, now>>

Reopen ==
    /\ store = "down"
    /\ store' = "opening"
    /\ UNCHANGED <<plan, files, issued, job, now, crashes>>

\* recover_routine_intents commits one intent after the other.
RecoverIntent(i) ==
    /\ store = "opening" /\ job = NoJob /\ i \in intents
    /\ job' = [stage |-> IF i.disp = "created_work" THEN "work" ELSE "activation",
               pass |-> FALSE, due |-> {}, act |-> i.act, key |-> i.key, disp |-> i.disp]
    /\ UNCHANGED <<plan, files, issued, store, now, crashes>>

\* Mutant of Opened: what a crash has left behind is dropped.
OpenedAfresh ==
    /\ store = "opening" /\ job = NoJob
    /\ store' = "up" /\ intents' = {}
    /\ UNCHANGED <<plan, routine, works, history, dedupe, issued, job, now, crashes>>

Opened ==
    /\ store = "opening" /\ job = NoJob /\ intents = {}
    /\ store' = "up"
    /\ UNCHANGED <<plan, files, issued, job, now, crashes>>

OpenStep == Reopen \/ (\E i \in intents : RecoverIntent(i)) \/ Opened

PassStep == (\E ready \in BOOLEAN : FireSlot(ready)) \/ EndPass

Next ==
    \/ CommitStep \/ PassStep \/ OpenStep \/ FireDue
    \/ \E r \in Requests, ready \in BOOLEAN : FireRoutine(r, ready)
    \/ \E life \in Lifecycle : SetLifecycle(life)
    \/ \E a \in Activations, to \in WorkState \ {"absent"} : MoveWork(a, to)
    \/ Tick \/ Crash

Spec == Init /\ [][Next]_vars

\* The holder of the lock runs on, the supervisor ticks, and a process that died is started
\* again.
FairSpec == Spec /\ WF_vars(CommitStep \/ PassStep) /\ WF_vars(OpenStep) /\ WF_vars(FireDue)

-----------------------------------------------------------------------------
(* Properties.                                                              *)

TypeOK ==
    /\ trigger \in Triggers /\ missed \in MissedRunPolicy
    /\ routine \in RoutineRecord /\ routine.fails <= CircuitFailures
    /\ intents \subseteq Intent
    /\ works \in [Activations -> Work]
    /\ history \subseteq Activations
    /\ dedupe \in [Keys -> Receipt]
    /\ issued \in 0..MaxActivations
    /\ store \in {"down", "opening", "up", "refused"}
    /\ job \in Job /\ now \in Instant /\ crashes \in 0..MaxCrashes

\* An occurrence makes at most one Work item, however often its slot is due again, its
\* request is repeated, the routine is enabled anew or the process dies between two files.
OneWorkPerOccurrence ==
    \A a, b \in Activations :
        Exists(a) /\ Exists(b) /\ works[a].key = works[b].key => a = b

\* Committing or replaying an intent never takes back what a worker or an operator did to the
\* item since: only they change an item that exists.
ProgressIsKept ==
    [][\A a \in Activations : Exists(a) /\ works'[a] # works[a] => Idle]_vars

Passed == {s \in trigger.slots : routine.next <= s /\ s <= now}

Answered(s) == dedupe[s] # NoReceipt \/ \E i \in intents : i.key = s

\* Of the slots in S, those the missed-run policy answers: with catch-up the most recent
\* CatchUpLimit, with coalesce the latest, with skip the only one.
Owed(S) ==
    CASE missed = "catch_up" -> Latest(S, CatchUpLimit)
      [] missed = "coalesce" -> Latest(S, 1)
      [] missed = "skip" /\ Cardinality(S) = 1 -> S
      [] OTHER -> {}

\* The routine stays enabled and its schedule is moved, other than by the backoff of a failed
\* activation.
ScheduleMoves ==
    /\ trigger.kind = "recurring" /\ routine.next # Never /\ routine'.next # routine.next
    /\ routine'.life = "enabled" /\ routine'.fails = routine.fails

\* What the documentation says of the missed-run policies: the schedule moves past now only
\* when each of the missed slots that its policy answers has a receipt, or an intent for one.
NoSlotIsLost == [][ScheduleMoves => \A s \in Owed(Passed) : Answered(s)]_vars

\* What due_occurrences keeps of it, for any number of missed slots: it lists the earliest
\* CatchUpLimit + 1 of them, and of those every one that the policy answers has a receipt, or
\* an intent for one, before the schedule moves.  The slots after these are passed unanswered.
ListedSlotsAreAnswered ==
    [][ScheduleMoves =>
         \A s \in Owed(Earliest(Passed, CatchUpLimit + 1)) : Answered(s)]_vars

\* The schedule does not get stuck: while the routine is enabled, a due time does not stay in
\* the past, also when all its slots are discarded or answered already.
ScheduleMovesOn ==
    (IsDue /\ routine.life = "enabled")
      ~> (~IsDue \/ routine.life # "enabled" \/ store = "refused" \/ issued = MaxActivations)

\* A crash alone never makes the store unopenable: an opening is refused only when the lane is
\* full and an intent is left whose item is not there.  In particular the replay of an item
\* that had itself filled the lane before the crash goes through.
RefusalNeedsFullLane ==
    store = "refused" =>
        /\ Cardinality({a \in Activations : Exists(a)}) >= Capacity
        /\ \E i \in intents : i.disp = "created_work" /\ ~Exists(i.act)

=============================================================================
