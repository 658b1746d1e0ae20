---------------------------- MODULE RunLifecycle ----------------------------
(***************************************************************************)
(* The life of a Run: admission to a lane, the queue and its scheduler,    *)
(* the activation of the Run's Agent, the turn, cancellation, finalization *)
(* and the recovery of all of it when the store opens again                *)
(* (orchestration/store.rs, orchestration/service.rs, host.rs).            *)
(*                                                                         *)
(* The store lock is held over the files of an activation or a             *)
(* finalization; `job` says which of them is being written.  Everything    *)
(* else that takes the lock is one step.  Observations of a Run (changes,  *)
(* tests, usage) are a count; a captured specification is its revision.    *)
(* A pump of the queue may start at any time: a turn that completes in any *)
(* session starts one.                                                     *)
(***************************************************************************)
EXTENDS Naturals, FiniteSets, Sequences, SequencesExt

CONSTANTS
    Runs,        \* Runs a coordinator submits and turns the desktop starts
    Desktop,     \* those started by the desktop
    Lanes,       \* sessions
    Agents,      \* persistent Agents
    LaneOf, AgentOf,
    None,
    Results,     \* outcomes a turn ends with
    Watched,     \* Runs whose observations are followed
    Unwanted,    \* Runs that may be cancelled
    Limit,       \* orchestration_admission_limit
    MaxQueue,    \* MAX_PENDING_ADMISSIONS
    MaxObs,      \* bound: observations of a Run
    MaxEdits,    \* bound: revisions of an Agent's specification
    MaxCrashes,  \* bound: crashes of the process
    MaxFaults    \* bound: intents whose removal fails

ASSUME RunsAssumption ==
    /\ Desktop \subseteq Runs /\ Watched \subseteq Runs /\ Unwanted \subseteq Runs
    /\ LaneOf \in [Runs -> Lanes] /\ AgentOf \in [Runs -> Agents]
    /\ None \notin Runs \cup Lanes
    /\ Results \subseteq {"Completed", "Failed", "LimitReached", "Interrupted"}
    /\ Limit \in Nat \ {0} /\ MaxQueue \in Nat \ {0}
    /\ MaxObs \in Nat /\ MaxEdits \in Nat /\ MaxCrashes \in Nat /\ MaxFaults \in Nat

VARIABLES
    runs,      \* the Run files
    agents,    \* the Agent files
    intent,    \* the file of agent-activation/, at most one
    final,     \* the file of finalization/, at most one
    job,       \* what the holder of the store lock is writing
    queue,     \* the service's pending_admissions
    slots,     \* the host's pending admissions, by sequence number
    admitted,  \* the host's orchestration_admissions
    lanes,     \* turn_reservations and turn_cancels of each session
    last,      \* orchestration_last_started_session
    claimed,   \* Runs a pump has claimed and not yet taken from the queue
    phase,     \* where the task that drives a Run is
    cand,      \* the terminal record it is about to persist
    cancel,    \* how far a ptah_cancel of a Run has come
    store,     \* "up", "opening" or "refused"
    crashes, faults

memory == <<queue, slots, admitted, lanes, last, claimed>>
files == <<runs, agents, intent, final>>
vars == <<files, job, memory, phase, cand, cancel, store, crashes, faults>>

(***************************************************************************)
(* Records.                                                                *)
(***************************************************************************)

Terminal == {"Completed", "Cancelled", "Failed", "LimitReached", "Interrupted"}

Run == [state : {"absent", "Queued", "Running"} \cup Terminal,
        obs : 0..MaxObs, spec : 0..MaxEdits]

Agent == [current : Runs \cup {None}, spec : 0..MaxEdits]

\* AgentActivationIntent: the Run and the Agent to install, and the Run before.
Intent == [run : Runs, to : Run, prior : Run, agent : Agent]
NoIntent == [run |-> None]

Candidate == [run : Runs, state : Terminal, obs : 0..MaxObs]
NoCandidate == [run |-> None]

NoJob == [kind |-> "none"]
Job == [kind : {"activate"}, run : Runs, step : {"run", "agent", "clear"}]
         \cup [kind : {"finalize"}, run : Runs, step : {"seal", "run", "clear"}]

Lane == [at : {"reserved", "busy"}, by : Runs]
Free == [at |-> "free"]

Phase == {"new", "asked", "toqueue", "saved", "waiting", "taken", "loaded", "checked", "refused",
          "reregister", "requeue", "reserved", "begun", "activating", "spawned", "ready",
          "turn", "unrecorded", "final", "finalizing", "finalized", "checkpointed",
          "closing", "over"}

TypeOK ==
    /\ runs \in [Runs -> Run] /\ agents \in [Agents -> Agent]
    /\ intent \in Intent \cup {NoIntent} /\ final \in Candidate \cup {NoCandidate}
    /\ job \in Job \cup {NoJob}
    /\ queue \in Seq(Runs) /\ slots \in Seq(Runs) /\ Len(slots) <= MaxQueue
    /\ admitted \subseteq Runs /\ Cardinality(admitted) <= Limit
    /\ lanes \in [Lanes -> Lane \cup {Free}] /\ last \in Lanes \cup {None}
    /\ claimed \subseteq Runs /\ phase \in [Runs -> Phase]
    /\ cand \in [Runs -> Candidate \cup {NoCandidate}]
    /\ cancel \in [Runs -> {"none", "marked", "unslot", "release", "dequeued", "released", "over"}]
    /\ store \in {"up", "opening", "refused"}
    /\ crashes \in 0..MaxCrashes /\ faults \in 0..MaxFaults

Init ==
    /\ runs = [r \in Runs |-> [state |-> "absent", obs |-> 0, spec |-> 0]]
    /\ agents = [a \in Agents |-> [current |-> None, spec |-> 0]]
    /\ intent = NoIntent /\ final = NoCandidate /\ job = NoJob
    /\ queue = << >> /\ slots = << >> /\ admitted = {}
    /\ lanes = [l \in Lanes |-> Free] /\ last = None /\ claimed = {}
    /\ phase = [r \in Runs |-> "new"] /\ cand = [r \in Runs |-> NoCandidate]
    /\ cancel = [r \in Runs |-> "none"]
    /\ store = "up" /\ crashes = 0 /\ faults = 0

LockFree == store = "up" /\ job = NoJob

Goes(r, from, to) == phase[r] = from /\ phase' = [phase EXCEPT ![r] = to]

LaneFree(r) == lanes[LaneOf[r]] = Free
Reserved(r) == lanes[LaneOf[r]] = [at |-> "reserved", by |-> r]
Busy(r) == lanes[LaneOf[r]] = [at |-> "busy", by |-> r]

\* The lanes after a reservation of r is dropped, and after its turn is.
Unreserved(r) == IF Reserved(r) THEN [lanes EXCEPT ![LaneOf[r]] = Free] ELSE lanes
Idle(r) == IF Busy(r) THEN [lanes EXCEPT ![LaneOf[r]] = Free] ELSE lanes

\* A Run id is in a queue at most once: the host's ledger is a map by Run id.
Position(s, r) == CHOOSE i \in DOMAIN s : s[i] = r
Without(s, r) == IF r \in ToSet(s) THEN RemoveAt(s, Position(s, r)) ELSE s

SetState(r, state) == runs' = [runs EXCEPT ![r].state = state]

\* release_orchestration_turn: the admission and the reservation, if they are still held.
ReleaseTurn(r) ==
    /\ admitted' = admitted \ {r}
    /\ lanes' = IF r \in admitted THEN Unreserved(r) ELSE lanes

(***************************************************************************)
(* Submission.                                                             *)
(***************************************************************************)

\* submit looks whether anything is queued and captures the Agent's specification.
Submit(r) ==
    /\ LockFree /\ r \notin Desktop
    /\ Goes(r, "new", IF slots = << >> THEN "asked" ELSE "toqueue")
    /\ runs' = [runs EXCEPT ![r].spec = agents[AgentOf[r]].spec]
    /\ UNCHANGED <<agents, intent, final, job, memory, cand, cancel, store, crashes, faults>>

\* reserve_orchestration_turn: a busy session or an exhausted host sends the Run to the queue.
Reserve(r) ==
    /\ store = "up"
    /\ IF LaneFree(r) /\ Cardinality(admitted) < Limit
       THEN /\ Goes(r, "asked", "reserved")
            /\ admitted' = admitted \cup {r}
            /\ lanes' = [lanes EXCEPT ![LaneOf[r]] = [at |-> "reserved", by |-> r]]
       ELSE /\ Goes(r, "asked", "toqueue")
            /\ UNCHANGED <<admitted, lanes>>
    /\ UNCHANGED <<files, job, queue, slots, last, claimed, cand, cancel, store, crashes, faults>>

SaveQueued(r) ==
    /\ LockFree /\ Goes(r, "toqueue", "saved")
    /\ SetState(r, "Queued")
    /\ UNCHANGED <<agents, intent, final, job, memory, cand, cancel, store, crashes, faults>>

\* enqueue_pending: a full queue fails the Run, whatever its record says by now.
Enqueue(r) ==
    /\ LockFree
    /\ IF Len(queue) < MaxQueue /\ Len(slots) < MaxQueue
       THEN /\ Goes(r, "saved", "waiting")
            /\ queue' = Append(queue, r) /\ slots' = Append(slots, r)
            /\ UNCHANGED runs
       ELSE /\ Goes(r, "saved", "over")
            /\ SetState(r, "Failed")
            /\ UNCHANGED <<queue, slots>>
    /\ UNCHANGED <<agents, intent, final, job, admitted, lanes, last, claimed, cand, cancel,
                   store, crashes, faults>>

(***************************************************************************)
(* The pump.                                                               *)
(***************************************************************************)

\* The oldest Run of each session whose lane is free.
Eligible ==
    {r \in ToSet(slots) : LaneFree(r)
        /\ \A q \in ToSet(slots) :
              LaneOf[q] = LaneOf[r] => Position(slots, r) <= Position(slots, q)}

\* claim_orchestration_pending prefers another session than the one started last.
Selected ==
    LET others == {r \in Eligible : LaneOf[r] # last}
        choice == IF last # None /\ others # {} THEN others ELSE Eligible
    IN  {r \in choice : \A q \in choice : Position(slots, r) <= Position(slots, q)}

\* The pump works on a copy of the queue, so r may have left the queue since.
Claim(r) ==
    /\ store = "up" /\ Cardinality(admitted) < Limit
    /\ r \in Selected
    /\ slots' = Without(slots, r)
    /\ admitted' = admitted \cup {r}
    /\ lanes' = [lanes EXCEPT ![LaneOf[r]] = [at |-> "reserved", by |-> r]]
    /\ last' = LaneOf[r] /\ claimed' = claimed \cup {r}
    /\ UNCHANGED <<files, job, queue, phase, cand, cancel, store, crashes, faults>>

\* The claimed Run is taken from the queue, or let go when it is no longer there.
Take(r) ==
    /\ r \in claimed /\ claimed' = claimed \ {r}
    /\ IF r \in ToSet(queue)
       THEN /\ queue' = Without(queue, r)
            /\ phase' = [phase EXCEPT ![r] = "taken"]
            /\ UNCHANGED <<admitted, lanes>>
       ELSE ReleaseTurn(r) /\ UNCHANGED <<queue, phase>>
    /\ UNCHANGED <<files, job, slots, last, cand, cancel, store, crashes, faults>>

\* Cancellation may have won after the Run left the queue.
Load(r) ==
    /\ LockFree
    /\ IF runs[r].state = "Queued"
       THEN Goes(r, "taken", "loaded") /\ UNCHANGED <<admitted, lanes>>
       ELSE Goes(r, "taken", "over") /\ ReleaseTurn(r)
    /\ UNCHANGED <<files, job, queue, slots, last, claimed, cand, cancel, store, crashes, faults>>

\* A Run that captured an older specification is failed, whatever its record says by now.
CheckSpec(r) ==
    /\ LockFree
    /\ IF runs[r].spec = agents[AgentOf[r]].spec
       THEN Goes(r, "loaded", "checked") /\ UNCHANGED <<runs, admitted, lanes>>
       ELSE /\ Goes(r, "loaded", "over")
            /\ SetState(r, "Failed") /\ ReleaseTurn(r)
    /\ UNCHANGED <<agents, intent, final, job, queue, slots, last, claimed, cand, cancel, store,
                   crashes, faults>>

\* Mutant of GiveBack: the turn stays with the Run that is queued again.
GiveBackKeepingTurn(r) ==
    /\ Goes(r, "refused", "reregister")
    /\ UNCHANGED <<files, job, memory, cand, cancel, store, crashes, faults>>

\* After a refused promotion the turn is given back and the Run queued again: in the host's
\* ledger as the newest, in the service's queue in front.
GiveBack(r) ==
    /\ Goes(r, "refused", "reregister") /\ ReleaseTurn(r)
    /\ UNCHANGED <<files, job, queue, slots, last, claimed, cand, cancel, store, crashes, faults>>

Reregister(r) ==
    /\ IF r \in ToSet(slots) \/ Len(slots) < MaxQueue
       THEN /\ Goes(r, "reregister", "requeue")
            /\ slots' = IF r \in ToSet(slots) THEN slots ELSE Append(slots, r)
       ELSE Goes(r, "reregister", "over") /\ UNCHANGED slots
    /\ UNCHANGED <<files, job, queue, admitted, lanes, last, claimed, cand, cancel, store,
                   crashes, faults>>

Requeue(r) ==
    /\ Goes(r, "requeue", "waiting") /\ queue' = <<r>> \o queue
    /\ UNCHANGED <<files, job, slots, admitted, lanes, last, claimed, cand, cancel, store,
                   crashes, faults>>

(***************************************************************************)
(* Activation of the Agent.                                                *)
(***************************************************************************)

\* The desktop starts a turn in a session that is neither busy nor reserved.
BeginDesktop(r) ==
    /\ LockFree /\ r \in Desktop /\ LaneFree(r)
    /\ Goes(r, "new", "begun")
    /\ lanes' = [lanes EXCEPT ![LaneOf[r]] = [at |-> "busy", by |-> r]]
    /\ runs' = [runs EXCEPT ![r].spec = agents[AgentOf[r]].spec]
    /\ UNCHANGED <<agents, intent, final, job, queue, slots, admitted, last, claimed, cand,
                   cancel, store, crashes, faults>>

\* Mutant of Activatable: the Agent's active Run is not looked at.
ActivatableAnyway(r) ==
    intent = NoIntent /\ runs[r].spec = agents[AgentOf[r]].spec

\* What both activations ask for under the lock.
Activatable(r) ==
    /\ intent = NoIntent
    /\ agents[AgentOf[r]].current = None
    /\ runs[r].spec = agents[AgentOf[r]].spec

\* The intent is written first.
WriteIntent(r) ==
    /\ intent' = [run |-> r, to |-> [runs[r] EXCEPT !.state = "Running"], prior |-> runs[r],
                  agent |-> [agents[AgentOf[r]] EXCEPT !.current = r]]
    /\ job' = [kind |-> "activate", run |-> r, step |-> "run"]

\* save_run_and_activate_agent: a refusal ends the submission; a desktop turn goes on without
\* a Run.
Activate(r) ==
    /\ LockFree
    /\ \/ /\ Activatable(r) /\ WriteIntent(r)
          /\ \/ Goes(r, "reserved", "activating")
             \/ Goes(r, "begun", "activating")
          /\ UNCHANGED <<admitted, lanes>>
       \/ /\ ~Activatable(r) /\ Goes(r, "reserved", "over")
          /\ ReleaseTurn(r) /\ UNCHANGED <<intent, job>>
       \/ /\ ~Activatable(r) /\ Goes(r, "begun", "unrecorded")
          /\ UNCHANGED <<intent, job, admitted, lanes>>
    /\ UNCHANGED <<runs, agents, final, queue, slots, last, claimed, cand, cancel, store, crashes,
                   faults>>

\* promote_queued_run_and_activate_agent
Promote(r) ==
    /\ LockFree
    /\ \/ /\ Activatable(r) /\ runs[r].state = "Queued"
          /\ Goes(r, "checked", "activating") /\ WriteIntent(r)
       \/ /\ ~(Activatable(r) /\ runs[r].state = "Queued")
          /\ Goes(r, "checked", "refused") /\ UNCHANGED <<intent, job>>
    /\ UNCHANGED <<runs, agents, final, memory, cand, cancel, store, crashes, faults>>

At(kind, step) == job.kind = kind /\ job.step = step

InstallRun ==
    /\ At("activate", "run") /\ job' = [job EXCEPT !.step = "agent"]
    /\ runs' = [runs EXCEPT ![job.run] = intent.to]
    /\ UNCHANGED <<agents, intent, final, memory, phase, cand, cancel, store, crashes, faults>>

InstallAgent ==
    /\ At("activate", "agent") /\ job' = [job EXCEPT !.step = "clear"]
    /\ agents' = [agents EXCEPT ![AgentOf[job.run]] = intent.agent]
    /\ UNCHANGED <<runs, intent, final, memory, phase, cand, cancel, store, crashes, faults>>

\* The Run goes on when the intent cannot be removed; recovery, which runs without the
\* driver of a Run, does not.
ClearIntent ==
    /\ At("activate", "clear") /\ job' = NoJob
    /\ \/ intent' = NoIntent /\ UNCHANGED faults
       \/ /\ store = "up" /\ faults < MaxFaults
          /\ faults' = faults + 1 /\ UNCHANGED intent
    /\ phase' = IF phase[job.run] # "activating" THEN phase
                ELSE [phase EXCEPT ![job.run] = IF job.run \in Desktop THEN "turn" ELSE "spawned"]
    /\ UNCHANGED <<runs, agents, final, memory, cand, cancel, store, crashes>>

(***************************************************************************)
(* The turn.                                                               *)
(***************************************************************************)

Outcome(r, state) == cand' = [cand EXCEPT ![r] = [run |-> r, state |-> state, obs |-> runs[r].obs]]

\* The candidate is the record as loaded, with an outcome when it has none.
Ends(r, from, state) ==
    /\ Goes(r, from, "final")
    /\ Outcome(r, IF runs[r].state \in Terminal THEN runs[r].state ELSE state)

\* A turn for a Run starts only if the Run is still the active one of its Agent.
CheckTurn(r) ==
    /\ LockFree
    /\ IF /\ runs[r].state = "Running" /\ agents[AgentOf[r]].current = r
          /\ agents[AgentOf[r]].spec = runs[r].spec
       THEN Goes(r, "spawned", "ready") /\ UNCHANGED cand
       ELSE Ends(r, "spawned", "Failed")
    /\ UNCHANGED <<files, job, memory, cancel, store, crashes, faults>>

\* Mutant of EnterTurn: a lane nobody holds is taken without a reservation.
EnterTurnUnreserved(r) ==
    /\ IF Reserved(r) \/ LaneFree(r)
       THEN /\ Goes(r, "ready", "turn") /\ UNCHANGED cand
            /\ lanes' = [lanes EXCEPT ![LaneOf[r]] = [at |-> "busy", by |-> r]]
       ELSE LockFree /\ Ends(r, "ready", "Failed") /\ UNCHANGED lanes
    /\ UNCHANGED <<files, job, queue, slots, admitted, last, claimed, cancel, store, crashes, faults>>

\* The reservation is consumed under the lock that registers the turn.
EnterTurn(r) ==
    /\ IF Reserved(r)
       THEN /\ Goes(r, "ready", "turn") /\ UNCHANGED cand
            /\ lanes' = [lanes EXCEPT ![LaneOf[r]] = [at |-> "busy", by |-> r]]
       ELSE LockFree /\ Ends(r, "ready", "Failed") /\ UNCHANGED lanes
    /\ UNCHANGED <<files, job, queue, slots, admitted, last, claimed, cancel, store, crashes, faults>>

\* apply_run_aggregate and the usage tracker, also for a late response after the deadline.
Observe(r) ==
    /\ LockFree /\ r \in Watched /\ Busy(r) /\ runs[r].state # "absent"
    /\ runs[r].obs < MaxObs
    /\ runs' = [runs EXCEPT ![r].obs = @ + 1]
    /\ UNCHANGED <<agents, intent, final, job, memory, phase, cand, cancel, store, crashes, faults>>

\* The turn of a submitted Run frees its lane and leaves the rest to the Run's task.
EndTurn(r) ==
    /\ LockFree /\ r \notin Desktop
    /\ \E state \in Results : Ends(r, "turn", state)
    /\ lanes' = Idle(r)
    /\ UNCHANGED <<files, job, queue, slots, admitted, last, claimed, cancel, store, crashes, faults>>

\* The duration limit: the teardown is bounded, so the turn may outlive it.
Timeout(r) ==
    /\ LockFree /\ r \notin Desktop
    /\ Ends(r, "turn", "LimitReached")
    /\ lanes' \in {lanes, Idle(r)}
    /\ UNCHANGED <<files, job, queue, slots, admitted, last, claimed, cancel, store, crashes, faults>>

\* finalize_desktop_run counts its own evidence and states its own outcome.
EndDesktop(r) ==
    /\ LockFree /\ r \in Desktop
    /\ Goes(r, "turn", "final")
    /\ \E state \in Results \cup {"Cancelled"}, n \in 0..runs[r].obs :
         cand' = [cand EXCEPT ![r] = [run |-> r, state |-> state, obs |-> n]]
    /\ UNCHANGED <<files, job, memory, cancel, store, crashes, faults>>

EndUnrecorded(r) ==
    /\ Goes(r, "unrecorded", "closing")
    /\ UNCHANGED <<files, job, memory, cand, cancel, store, crashes, faults>>

(***************************************************************************)
(* Finalization.                                                           *)
(***************************************************************************)

\* merge_run_observations, and the outcome that is already there.
Merged(c) ==
    LET now == runs[c.run] IN
    [c EXCEPT !.state = IF now.state \in Terminal THEN now.state ELSE c.state,
              !.obs = IF c.obs < now.obs THEN now.obs ELSE c.obs]

\* persist_finalization retires the activation of the Run before anything else.
Retire(c) ==
    /\ intent' = IF intent.run = c.run THEN NoIntent ELSE intent
    /\ job' = [kind |-> "finalize", run |-> c.run, step |-> "seal"]

Finalize(r) ==
    /\ LockFree /\ Goes(r, "final", "finalizing")
    /\ Retire(cand[r])
    /\ UNCHANGED <<runs, agents, final, memory, cand, cancel, store, crashes, faults>>

Seal ==
    /\ At("finalize", "seal") /\ job' = [job EXCEPT !.step = "run"]
    /\ final' = Merged(cand[job.run])
    /\ UNCHANGED <<runs, agents, intent, memory, phase, cand, cancel, store, crashes, faults>>

InstallFinal ==
    /\ At("finalize", "run") /\ job' = [job EXCEPT !.step = "clear"]
    /\ runs' = [runs EXCEPT ![job.run].state = final.state, ![job.run].obs = final.obs]
    /\ UNCHANGED <<agents, intent, final, memory, phase, cand, cancel, store, crashes, faults>>

ClearFinal ==
    /\ At("finalize", "clear") /\ job' = NoJob
    /\ final' = NoCandidate /\ cand' = [cand EXCEPT ![job.run] = NoCandidate]
    /\ phase' = IF phase[job.run] # "finalizing" THEN phase
                ELSE [phase EXCEPT ![job.run] = "finalized"]
    /\ UNCHANGED <<runs, agents, intent, memory, cancel, store, crashes, faults>>

\* Mutants of Checkpoint: only a completed Run gives its Agent back; the Agent is written with
\* the specification the Run had captured.
CheckpointWhenCompleted(r) ==
    /\ LockFree /\ Goes(r, "finalized", "checkpointed")
    /\ agents' = IF runs[r].state # "Completed" THEN agents
                 ELSE [agents EXCEPT ![AgentOf[r]].current = None]
    /\ UNCHANGED <<runs, intent, final, job, memory, cand, cancel, store, crashes, faults>>

CheckpointOfRun(r) ==
    /\ LockFree /\ Goes(r, "finalized", "checkpointed")
    /\ agents' = [agents EXCEPT ![AgentOf[r]] = [current |-> None, spec |-> runs[r].spec]]
    /\ UNCHANGED <<runs, intent, final, job, memory, cand, cancel, store, crashes, faults>>

\* persist_agent_checkpoint clears the Agent's Run without comparing it.
Checkpoint(r) ==
    /\ LockFree /\ Goes(r, "finalized", "checkpointed")
    /\ agents' = [agents EXCEPT ![AgentOf[r]].current = None]
    /\ UNCHANGED <<runs, intent, final, job, memory, cand, cancel, store, crashes, faults>>

\* The AdmissionGuard is dropped; a desktop turn holds none.
Release(r) ==
    /\ Goes(r, "checkpointed", "closing") /\ ReleaseTurn(r)
    /\ UNCHANGED <<files, job, queue, slots, last, claimed, cand, cancel, store, crashes, faults>>

\* The end of a desktop turn, and the TurnBusyGuard of a turn that outlived its deadline.
Close(r) ==
    /\ Goes(r, "closing", "over") /\ lanes' = Idle(r)
    /\ UNCHANGED <<files, job, queue, slots, admitted, last, claimed, cand, cancel, store, crashes,
                   faults>>

(***************************************************************************)
(* ptah_cancel.                                                            *)
(***************************************************************************)

Cancels(r, from, to) == cancel[r] = from /\ cancel' = [cancel EXCEPT ![r] = to]

\* Mutant of MarkCancelled: the state is not looked at again under the lock.
MarkCancelledAnyway(r) ==
    /\ LockFree /\ r \in Unwanted /\ Cancels(r, "none", "marked")
    /\ runs[r].state # "absent"
    /\ SetState(r, "Cancelled")
    /\ UNCHANGED <<agents, intent, final, job, memory, phase, cand, store, crashes, faults>>

\* The record is cancelled first, unless it is terminal by now.
MarkCancelled(r) ==
    /\ LockFree /\ r \in Unwanted /\ Cancels(r, "none", "marked")
    /\ runs[r].state \in {"Queued", "Running"}
    /\ SetState(r, "Cancelled")
    /\ UNCHANGED <<agents, intent, final, job, memory, phase, cand, store, crashes, faults>>

\* remove_pending takes the Run from the queue, then its slot from the host.
RemovePending(r) ==
    /\ store = "up"
    /\ Cancels(r, "marked", IF r \in ToSet(queue) THEN "unslot" ELSE "release")
    /\ queue' = Without(queue, r)
    /\ UNCHANGED <<files, job, slots, admitted, lanes, last, claimed, phase, cand, store, crashes,
                   faults>>

ReleaseSlot(r) ==
    /\ store = "up" /\ Cancels(r, "unslot", "dequeued")
    /\ slots' = Without(slots, r) /\ lanes' = Unreserved(r)
    /\ UNCHANGED <<files, job, queue, admitted, last, claimed, phase, cand, store, crashes, faults>>

\* release_turn_reservation: without one to release, the turn of the session is stopped, which
\* here may end at any time anyway.
ReleaseReservation(r) ==
    /\ store = "up" /\ Cancels(r, "release", IF Reserved(r) THEN "released" ELSE "over")
    /\ lanes' = Unreserved(r)
    /\ UNCHANGED <<files, job, queue, slots, admitted, last, claimed, phase, cand, store, crashes,
                   faults>>

(***************************************************************************)
(* Specifications, crashes and recovery.                                   *)
(***************************************************************************)

\* revise_agent_spec does not ask whether the Agent has an active Run.
ReviseSpec(a) ==
    /\ LockFree /\ agents[a].spec < MaxEdits
    /\ agents' = [agents EXCEPT ![a].spec = @ + 1]
    /\ UNCHANGED <<runs, intent, final, job, memory, phase, cand, cancel, store, crashes, faults>>

\* The files stay; the store opens again.
Crash ==
    /\ store # "refused" /\ crashes < MaxCrashes /\ crashes' = crashes + 1
    /\ store' = "opening" /\ job' = NoJob
    /\ queue' = << >> /\ slots' = << >> /\ admitted' = {}
    /\ lanes' = [l \in Lanes |-> Free] /\ last' = None /\ claimed' = {}
    /\ phase' = [r \in Runs |-> IF phase[r] = "new" THEN "new" ELSE "over"]
    /\ cand' = [r \in Runs |-> NoCandidate]
    /\ cancel' = [r \in Runs |-> IF cancel[r] = "none" THEN "none" ELSE "over"]
    /\ UNCHANGED <<files, faults>>

Opening == store = "opening" /\ job = NoJob

\* Mutant of Consistent: only an activation that reached the Run is replayed.
ConsistentOnceInstalled(i) ==
    runs[i.run] = i.to /\ agents[AgentOf[i.run]].current \in {None, i.run}

\* The Run must be as the activation found it or as it left it, and the Agent idle or its own.
Consistent(i) ==
    /\ runs[i.run] \in {i.to, i.prior}
    /\ agents[AgentOf[i.run]].current \in {None, i.run}

RecoverActivation ==
    /\ Opening /\ intent # NoIntent
    /\ IF Consistent(intent)
       THEN job' = [kind |-> "activate", run |-> intent.run, step |-> "run"] /\ UNCHANGED store
       ELSE store' = "refused" /\ UNCHANGED job
    /\ UNCHANGED <<files, memory, phase, cand, cancel, crashes, faults>>

RecoverFinal ==
    /\ Opening /\ intent = NoIntent /\ final # NoCandidate
    /\ cand' = [cand EXCEPT ![final.run] = final]
    /\ Retire(final)
    /\ UNCHANGED <<runs, agents, final, memory, phase, cancel, store, crashes, faults>>

Unfinished == {r \in Runs : runs[r].state \in {"Queued", "Running"}}

\* mark_unfinished_interrupted: first the Runs, then the Agents.
Recovered == Opening /\ intent = NoIntent /\ final = NoCandidate

Interrupt(r) ==
    /\ Recovered /\ r \in Unfinished /\ SetState(r, "Interrupted")
    /\ UNCHANGED <<agents, intent, final, job, memory, phase, cand, cancel, store, crashes, faults>>

\* Mutant of FreeAgent: Agents do not wait for the Runs.
FreeAgentFirst(a) ==
    /\ Recovered /\ agents[a].current # None
    /\ agents' = [agents EXCEPT ![a].current = None]
    /\ UNCHANGED <<runs, intent, final, job, memory, phase, cand, cancel, store, crashes, faults>>

FreeAgent(a) ==
    /\ Recovered /\ Unfinished = {} /\ agents[a].current # None
    /\ agents' = [agents EXCEPT ![a].current = None]
    /\ UNCHANGED <<runs, intent, final, job, memory, phase, cand, cancel, store, crashes, faults>>

Opened ==
    /\ Recovered /\ Unfinished = {} /\ \A a \in Agents : agents[a].current = None
    /\ store' = "up"
    /\ UNCHANGED <<files, job, memory, phase, cand, cancel, crashes, faults>>

(***************************************************************************)
(* Specification.                                                          *)
(***************************************************************************)

\* What the task of a submitted Run, or the pump that claimed it, does next.
Drive(r) ==
    \/ Reserve(r) \/ SaveQueued(r) \/ Enqueue(r)
    \/ Take(r) \/ Load(r) \/ CheckSpec(r) \/ Promote(r)
    \/ GiveBack(r) \/ Reregister(r) \/ Requeue(r)
    \/ Activate(r) \/ CheckTurn(r) \/ EnterTurn(r)
    \/ EndTurn(r) \/ Timeout(r)
    \/ Finalize(r) \/ Checkpoint(r) \/ Release(r) \/ Close(r)

DesktopTurn(r) == BeginDesktop(r) \/ EndDesktop(r) \/ EndUnrecorded(r)

CancelRun(r) == MarkCancelled(r) \/ RemovePending(r) \/ ReleaseSlot(r) \/ ReleaseReservation(r)

WriteJob == InstallRun \/ InstallAgent \/ ClearIntent \/ Seal \/ InstallFinal \/ ClearFinal

Recover ==
    \/ RecoverActivation \/ RecoverFinal \/ Opened
    \/ \E r \in Runs : Interrupt(r)
    \/ \E a \in Agents : FreeAgent(a)

Next ==
    \/ \E r \in Runs : Submit(r) \/ Claim(r) \/ Observe(r) \/ Drive(r) \/ DesktopTurn(r)
                         \/ CancelRun(r)
    \/ \E a \in Agents : ReviseSpec(a)
    \/ WriteJob \/ Recover \/ Crash

Spec == Init /\ [][Next]_vars

\* The runtime polls the task of a Run, a pump runs to its end, a turn has a duration limit,
\* and the lock is held over file writes only.  Nobody has to submit, pump or cancel.
FairSpec ==
    /\ Spec /\ WF_vars(WriteJob) /\ WF_vars(Recover)
    /\ \A r \in Runs : WF_vars(Drive(r))

(***************************************************************************)
(* Properties.                                                             *)
(***************************************************************************)

\* A Run that is Running, or whose turn is under way, is the active Run of its Agent: two
\* lanes never execute under one identity (save_run_and_activate_agent, persist_agent_checkpoint).
OneActiveRun ==
    LockFree => \A r \in Runs :
        runs[r].state = "Running" \/ phase[r] \in {"ready", "turn"} => agents[AgentOf[r]].current = r

\* An Agent is released only from a Run that has its outcome: its checkpoint and its next Run
\* never overtake the finalization (spawn_run, finalize_desktop_run, mark_unfinished_interrupted).
ReleasedWhenOver ==
    [][\A a \in Agents :
          agents[a].current # None /\ agents'[a].current # agents[a].current
            => runs[agents[a].current].state \in Terminal]_vars

\* An outcome is final: no finalization, late cancellation, recovery or second turn replaces
\* it.  Only a Run that is cancelled on its way through the queue may still be reported failed.
OutcomeIsFinal ==
    [][\A r \in Runs :
          runs[r].state \in Terminal /\ runs'[r].state # runs[r].state
            => /\ runs[r].state = "Cancelled" /\ runs'[r].state = "Failed"
               /\ phase[r] \in {"saved", "loaded"}]_vars

\* Nothing that was recorded is lost: not the observations of a Run, which the candidate of a
\* finalization may not know, nor a revision of an Agent, unless an activation intent could
\* not be removed (merge_run_observations, update_agent, recover_agent_activation_intents).
NothingIsLost ==
    [][/\ \A r \in Runs : runs'[r].obs >= runs[r].obs
       /\ faults = 0 => \A a \in Agents : agents'[a].spec >= agents[a].spec]_vars

\* A crash at any file of an activation or a finalization, or in the recovery from one, leaves
\* a store that opens; only a removal that failed can make it refuse.
CrashesAreRecovered == store = "refused" => faults > 0

\* What ptah_cancel answers is true: a Run it took from the queue, or whose reservation it
\* released, never has a turn.
CancelledBeforeStart ==
    \A r \in Runs : cancel[r] \in {"dequeued", "released"} => phase[r] # "turn" /\ ~Busy(r)

\* Capacity is not leaked: every admission is given back, whatever the activation, the turn,
\* the duration limit and the cancellation do (AdmissionGuard, pump_pending, submit).
CapacityReturns == \A r \in Runs \ Desktop : r \in admitted ~> r \notin admitted

\* An Agent does not stay active for a submitted Run, crash or not, if the store opens.
AgentIsFreed ==
    \A r \in Runs \ Desktop :
      agents[AgentOf[r]].current = r ~> (agents[AgentOf[r]].current # r \/ store = "refused")

\* What the documentation says of the queue: earlier work of a session is not overtaken by
\* later work of that session.
SessionOrderIsKept ==
    [][\A i, j \in DOMAIN queue :
          i < j /\ LaneOf[queue[i]] = LaneOf[queue[j]]
            => queue[j] \notin claimed' \ claimed]_vars

=============================================================================
