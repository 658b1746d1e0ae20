------------------------- MODULE RunLifecycleProofs -------------------------
(***************************************************************************)
(* Proofs about RunLifecycle: for any number of Runs, lanes, Agents,       *)
(* crashes and failed removals, one Run is active under an Agent, an       *)
(* outcome is final, a finalization loses nothing, a store whose removals  *)
(* succeed always opens again, and a cancellation that answers for a Run   *)
(* has kept it from its turn.                                              *)
(*                                                                         *)
(* The inductive invariant ties four views of a Run together: where its    *)
(* task is, what its file and its Agent's file say, which lane and queue   *)
(* hold it, and how far its cancellation has come.  A multi-file write is  *)
(* followed by its intent: the files are as it found or as it left them.   *)
(***************************************************************************)
EXTENDS RunLifecycle, FiniteSetTheorems, SequenceTheorems, TLAPS

\* The phases in which a Run owns its Agent, in which its record has not been written, and in
\* which it is on its way through the queue.
Active == {"spawned", "ready", "turn", "final", "finalizing", "finalized"}
Unwritten == {"new", "asked", "toqueue", "reserved", "begun", "unrecorded"}
Queueing == {"saved", "waiting", "taken", "loaded", "checked", "refused", "reregister", "requeue"}
Executing == {"activating"} \cup (Active \ {"finalized"})
Holding == {"begun", "activating", "unrecorded", "checkpointed", "closing"} \cup Active
Activated == {"activating", "checkpointed", "closing", "over"} \cup Active
Submitted == {"asked", "toqueue", "reserved", "spawned", "ready"} \cup Queueing

\* Where the task of a Run is, against the Run's record.
StateFits(p, s) ==
    /\ p \in Unwritten => s = "absent"
    /\ p \in Queueing => s \in {"Queued", "Cancelled"}
    /\ p = "finalized" => s \in Terminal

RecordsFit ==
    /\ \A r \in Runs : StateFits(phase[r], runs[r].state)
    /\ store = "up" => \A r \in Runs : runs[r].state = "Running" => phase[r] \in Executing
    /\ store # "up" => \A r \in Runs : phase[r] \in {"new", "over"}

\* Who owns an Agent.
AgentsFit ==
    /\ \A r \in Runs : phase[r] \in Active => agents[AgentOf[r]].current = r
    /\ \A a \in Agents : agents[a].current # None =>
          LET q == agents[a].current IN
          /\ AgentOf[q] = a /\ runs[q].state # "absent"
          /\ store = "up" => \/ phase[q] \in Active
                             \/ job = [kind |-> "activate", run |-> q, step |-> "clear"]

\* An activation intent is what WriteIntent makes, of a Run whose task got that far.
IntentFits ==
    intent # NoIntent =>
        /\ intent.prior.state \in {"absent", "Queued"}
        /\ intent.to = [intent.prior EXCEPT !.state = "Running"]
        /\ intent.agent.current = intent.run
        /\ phase[intent.run] \in Activated
        /\ faults = 0 =>
              /\ Consistent(intent)
              /\ intent.agent.spec = agents[AgentOf[intent.run]].spec
              /\ job.kind = "activate" \/ (store # "up" /\ job = NoJob)

\* The activation under the lock.
ActivationFits ==
    /\ job.kind = "activate" =>
          /\ intent # NoIntent /\ intent.run = job.run /\ Consistent(intent)
          /\ job.step \in {"agent", "clear"} => runs[job.run] = intent.to
          /\ job.step = "clear" => agents[AgentOf[job.run]].current = job.run
          /\ store = "up" => phase[job.run] = "activating"
    /\ \A r \in Runs : phase[r] = "activating" => job.kind = "activate" /\ job.run = r

\* What a candidate says of a Run whose outcome and observations it may not take back.
Covers(c, r) ==
    /\ r.state \in Terminal => c.state = r.state
    /\ c.obs >= r.obs

\* The finalization under the lock, and the one on disk.
FinalizationFits ==
    /\ final # NoCandidate => phase[final.run] \in {"finalizing", "over"}
    /\ job.kind = "finalize" =>
          /\ phase[job.run] \in {"finalizing", "over"}
          /\ job.step \in {"run", "clear"} =>
                final # NoCandidate /\ final.run = job.run /\ Covers(final, runs[job.run])
          /\ job.step = "clear" => runs[job.run].state = final.state

\* A task that finalizes has a candidate, of its own Run.
CandidatesFit ==
    /\ \A r \in Runs : phase[r] \in {"final", "finalizing"} => cand[r] # NoCandidate
    /\ \A r \in Runs : cand[r] # NoCandidate => cand[r].run = r
    /\ job.kind = "finalize" => cand[job.run] # NoCandidate

\* A turn is in its lane, and only a Run that got to a turn keeps a lane busy.  The desktop's
\* turns have their lane from the start and do not pass through the queue.
LaneFits(r) ==
    /\ phase[r] \in {"begun", "turn"} => Busy(r)
    /\ r \in Desktop /\ phase[r] = "activating" => Busy(r)
    /\ r \in Desktop => phase[r] \notin Submitted
    /\ Busy(r) => phase[r] \in Holding

LanesFit == \A r \in Runs : LaneFits(r)

Simple(s) == \A i, j \in DOMAIN s : s[i] = s[j] => i = j

\* Which Runs are in the queue, in the host's ledger, and between the two.
QueuesFit ==
    /\ Simple(queue) /\ Simple(slots)
    /\ \A r \in ToSet(queue) : phase[r] = "waiting"
    /\ \A r \in ToSet(slots) : phase[r] \in {"waiting", "requeue"}
    /\ \A r \in claimed : phase[r] \in {"waiting", "requeue"} /\ r \notin ToSet(slots)
    /\ IsFiniteSet(admitted)

\* How far a cancellation has come: the record comes first, and what it took away stays away.
CancelFits(r) ==
    /\ cancel[r] # "none" => runs[r].state \in Terminal
    /\ cancel[r] \in {"unslot", "dequeued"} => phase[r] = "waiting" /\ r \notin ToSet(queue)
    /\ cancel[r] = "released" =>
          /\ phase[r] # "turn" /\ ~Busy(r)
          /\ phase[r] = "ready" => ~Reserved(r)

CancelsFit == \A r \in Runs : CancelFits(r)

IInv ==
    /\ TypeOK /\ RecordsFit /\ AgentsFit /\ IntentFits /\ ActivationFits /\ FinalizationFits
    /\ CandidatesFit /\ LanesFit /\ QueuesFit /\ CancelsFit /\ CrashesAreRecovered

-----------------------------------------------------------------------------
(* Sequences without repetition *)

\* A sequence without one of its elements is simple, no longer, and has the others.
LEMMA WithoutProperties ==
    ASSUME NEW S, NEW s \in Seq(S), NEW r, Simple(s)
    PROVE  /\ Without(s, r) \in Seq(S) /\ Len(Without(s, r)) <= Len(s)
           /\ Simple(Without(s, r))
           /\ ToSet(Without(s, r)) = ToSet(s) \ {r}
<1>1. CASE r \notin ToSet(s)
  BY <1>1 DEF Without
<1>2. CASE r \in ToSet(s)
  <2>1. PICK p \in 1..Len(s) : s[p] = r /\ p = Position(s, r)
    BY <1>2 DEF ToSet, Position
  <2> DEFINE t == SubSeq(s, 1, p - 1) \o SubSeq(s, p + 1, Len(s))
  <2>2. Without(s, r) = t
    BY <1>2, <2>1 DEF Without, RemoveAt
  <2>3. /\ t \in Seq(S) /\ Len(t) = Len(s) - 1
        /\ \A i \in 1..Len(s) - 1 : t[i] = IF i < p THEN s[i] ELSE s[i + 1]
    <3> DEFINE left == SubSeq(s, 1, p - 1)
               right == SubSeq(s, p + 1, Len(s))
    <3>1. \A i \in 1..Len(s) : s[i] \in S
      BY ElementOfSeq
    <3>2. /\ left \in Seq(S) /\ Len(left) = p - 1
          /\ \A i \in 1..p - 1 : left[i] = s[i]
      BY <2>1, <3>1, SubSeqProperties
    <3>3. /\ right \in Seq(S) /\ Len(right) = Len(s) - p
          /\ \A i \in 1..Len(s) - p : right[i] = s[p + i]
      BY <2>1, <3>1, SubSeqProperties
    <3> HIDE DEF left, right
    <3>4. /\ left \o right \in Seq(S) /\ Len(left \o right) = Len(s) - 1
          /\ \A i \in 1..Len(s) - 1 :
                (left \o right)[i] = IF i <= p - 1 THEN left[i] ELSE right[i - (p - 1)]
      <4>1. /\ left \o right \in Seq(S) /\ Len(left \o right) = Len(left) + Len(right)
            /\ \A i \in 1..Len(left) + Len(right) : (left \o right)[i] =
                  IF i <= Len(left) THEN left[i] ELSE right[i - Len(left)]
        BY <3>2, <3>3, ConcatProperties, Zenon
      <4>2. (p - 1) + (Len(s) - p) = Len(s) - 1
        BY <2>1
      <4> QED
        BY <3>2, <3>3, <4>1, <4>2
    <3>5. ASSUME NEW i \in 1..Len(s) - 1
          PROVE  (left \o right)[i] = IF i < p THEN s[i] ELSE s[i + 1]
      <4>1. CASE i < p
        BY <2>1, <3>2, <3>4, <4>1
      <4>2. CASE ~(i < p)
        <5>1. i - (p - 1) \in 1..Len(s) - p /\ p + (i - (p - 1)) = i + 1
          BY <2>1, <4>2
        <5>2. (left \o right)[i] = right[i - (p - 1)]
          BY <2>1, <3>4, <4>2
        <5>3. right[i - (p - 1)] = s[i + 1]
          BY <3>3, <5>1
        <5> QED
          BY <4>2, <5>2, <5>3
      <4> QED
        BY <4>1, <4>2
    <3> QED
      BY <3>4, <3>5 DEF t, left, right
  <2> HIDE DEF t
  <2>4. DOMAIN t = 1..Len(s) - 1 /\ DOMAIN s = 1..Len(s)
    BY <2>3
  <2> DEFINE from(i) == IF i < p THEN i ELSE i + 1
  <2>a. \A i \in 1..Len(s) - 1 : from(i) \in 1..Len(s) /\ from(i) # p /\ t[i] = s[from(i)]
    BY <2>1, <2>3
  <2>b. \A i, j \in 1..Len(s) - 1 : from(i) = from(j) => i = j
    BY <2>1
  <2>c. \A i, j \in 1..Len(s) : s[i] = s[j] => i = j
    BY <2>4 DEF Simple
  <2> HIDE DEF from
  <2>5. Simple(t)
    BY <2>4, <2>a, <2>b, <2>c DEF Simple
  <2>6. ASSUME NEW x \in ToSet(t) PROVE x \in ToSet(s) \ {r}
    <3>1. PICK i \in 1..Len(s) - 1 : t[i] = x
      BY <2>4 DEF ToSet
    <3>2. x = s[from(i)] /\ from(i) \in 1..Len(s) /\ from(i) # p
      BY <2>a, <3>1
    <3> QED
      BY <2>1, <2>4, <2>c, <3>2 DEF ToSet
  <2>7. ASSUME NEW x \in ToSet(s) \ {r} PROVE x \in ToSet(t)
    <3>1. PICK i \in 1..Len(s) : s[i] = x /\ i # p
      BY <2>1, <2>4 DEF ToSet
    <3>2. CASE i < p
      <4>1. i \in 1..Len(s) - 1 /\ t[i] = x
        BY <2>1, <2>3, <3>1, <3>2
      <4> QED
        BY <2>4, <4>1 DEF ToSet
    <3>3. CASE i > p
      <4>1. i - 1 \in 1..Len(s) - 1 /\ t[i - 1] = x
        BY <2>1, <2>3, <3>1, <3>3
      <4> QED
        BY <2>4, <4>1 DEF ToSet
    <3> QED
      BY <2>1, <3>1, <3>2, <3>3
  <2> QED
    BY <2>2, <2>3, <2>5, <2>6, <2>7
<1> QED
  BY <1>1, <1>2

\* A sequence with one more element, at its end or in front.
LEMMA Appended ==
    ASSUME NEW S, NEW s \in Seq(S), NEW r \in S, Simple(s), r \notin ToSet(s)
    PROVE  /\ Append(s, r) \in Seq(S) /\ Simple(Append(s, r))
           /\ ToSet(Append(s, r)) = ToSet(s) \cup {r}
<1> DEFINE t == Append(s, r)
<1>1. /\ t \in Seq(S) /\ DOMAIN t = 1..Len(s) + 1 /\ DOMAIN s = 1..Len(s)
      /\ \A i \in 1..Len(s) : t[i] = s[i]
      /\ t[Len(s) + 1] = r
  OBVIOUS
<1> HIDE DEF t
<1>2. ToSet(t) = ToSet(s) \cup {r}
  BY <1>1 DEF ToSet
<1>3. Simple(t)
  <2>1. \A i \in 1..Len(s) : s[i] # r
    BY <1>1 DEF ToSet
  <2> QED
    BY <1>1, <2>1 DEF Simple
<1> QED
  BY <1>1, <1>2, <1>3 DEF t

\* The same in front, where Requeue puts a Run.
LEMMA Prepended ==
    ASSUME NEW S, NEW s \in Seq(S), NEW r \in S, Simple(s), r \notin ToSet(s)
    PROVE  /\ <<r>> \o s \in Seq(S) /\ Simple(<<r>> \o s)
           /\ ToSet(<<r>> \o s) = ToSet(s) \cup {r}
<1> DEFINE t == <<r>> \o s
<1>1. /\ t \in Seq(S) /\ DOMAIN t = 1..Len(s) + 1 /\ DOMAIN s = 1..Len(s)
      /\ \A i \in 1..Len(s) : t[i + 1] = s[i]
      /\ t[1] = r
  OBVIOUS
<1> HIDE DEF t
<1>2. ToSet(t) = ToSet(s) \cup {r}
  <2>1. ASSUME NEW x \in ToSet(s) PROVE x \in ToSet(t)
    <3>1. PICK i \in 1..Len(s) : s[i] = x
      BY <1>1 DEF ToSet
    <3>2. i + 1 \in DOMAIN t /\ t[i + 1] = x
      BY <1>1, <3>1
    <3> QED
      BY <3>2 DEF ToSet
  <2>2. ASSUME NEW x \in ToSet(t) PROVE x \in ToSet(s) \cup {r}
    <3>1. PICK i \in 1..Len(s) + 1 : t[i] = x
      BY <1>1 DEF ToSet
    <3>2. CASE i > 1
      <4>1. i - 1 \in 1..Len(s) /\ t[i] = s[i - 1]
        BY <1>1, <3>1, <3>2
      <4> QED
        BY <1>1, <3>1, <4>1 DEF ToSet
    <3> QED
      BY <1>1, <3>1, <3>2
  <2>3. r \in ToSet(t)
    BY <1>1 DEF ToSet
  <2> QED
    BY <2>1, <2>2, <2>3
<1>3. Simple(t)
  <2>1. \A i \in 2..Len(s) + 1 : t[i] = s[i - 1] /\ t[i] # r
    BY <1>1 DEF ToSet
  <2>2. t[1] = r /\ \A i, j \in 1..Len(s) : s[i] = s[j] => i = j
    BY <1>1 DEF Simple
  <2>3. ASSUME NEW i \in 1..Len(s) + 1, NEW j \in 1..Len(s) + 1, t[i] = t[j] PROVE i = j
    <3>1. CASE i = 1 \/ j = 1
      BY <2>1, <2>2, <2>3, <3>1
    <3>2. CASE i > 1 /\ j > 1
      <4>1. i - 1 \in 1..Len(s) /\ j - 1 \in 1..Len(s) /\ s[i - 1] = s[j - 1]
        BY <2>1, <2>3, <3>2
      <4> QED
        BY <2>2, <4>1
    <3> QED
      BY <3>1, <3>2
  <2> QED
    BY <1>1, <2>3 DEF Simple
<1> QED
  BY <1>1, <1>2, <1>3 DEF t


-----------------------------------------------------------------------------
(* Types *)

\* The shapes of the small records.
LEMMA Shapes ==
    /\ NoIntent \notin Intent /\ NoCandidate \notin Candidate /\ Free \notin Lane
    /\ NoJob \notin Job /\ NoIntent.run = None /\ NoCandidate.run = None /\ NoJob.kind = "none"
    /\ \A j \in Job : j.run \in Runs /\ j.kind \in {"activate", "finalize"}
BY RunsAssumption DEF Intent, NoIntent, Candidate, NoCandidate, Lane, Free, Job, NoJob

\* Every job in a type-correct state, by kind.
LEMMA JobCases ==
    ASSUME TypeOK
    PROVE  /\ job.kind = "none" <=> job = NoJob
           /\ job.kind # "none" => job \in Job
           /\ job.kind = "activate" =>
                 job.run \in Runs /\ job.step \in {"run", "agent", "clear"}
           /\ job.kind = "finalize" =>
                 job.run \in Runs /\ job.step \in {"seal", "run", "clear"}
BY DEF TypeOK, Job, NoJob

\* What is on disk or in memory as a record is one.
LEMMA RecordCases ==
    ASSUME TypeOK
    PROVE  /\ intent # NoIntent => intent \in Intent /\ intent.run \in Runs
           /\ intent.run \in Runs => intent # NoIntent
           /\ final # NoCandidate => final \in Candidate /\ final.run \in Runs
           /\ \A r \in Runs : cand[r] # NoCandidate => cand[r] \in Candidate
BY RunsAssumption DEF TypeOK, Intent, NoIntent, Candidate, NoCandidate

\* A job on its next step.
LEMMA JobMoves ==
    ASSUME TypeOK
    PROVE  /\ At("activate", "run") => [job EXCEPT !.step = "agent"] \in Job
           /\ At("activate", "agent") => [job EXCEPT !.step = "clear"] \in Job
           /\ At("finalize", "seal") => [job EXCEPT !.step = "run"] \in Job
           /\ At("finalize", "run") => [job EXCEPT !.step = "clear"] \in Job
BY JobCases DEF At, Job

\* A Run with one field changed.
LEMMA RunUpdates ==
    ASSUME TypeOK, NEW r \in Runs
    PROVE  /\ \A s \in {"absent", "Queued", "Running"} \cup Terminal :
                 [runs EXCEPT ![r].state = s] \in [Runs -> Run]
           /\ [runs EXCEPT ![r].spec = agents[AgentOf[r]].spec] \in [Runs -> Run]
           /\ runs[r].obs < MaxObs => [runs EXCEPT ![r].obs = @ + 1] \in [Runs -> Run]
<1>1. /\ runs \in [Runs -> Run] /\ runs[r] \in Run /\ agents[AgentOf[r]].spec \in 0..MaxEdits
      /\ runs[r].obs \in 0..MaxObs /\ MaxObs \in Nat
  BY RunsAssumption DEF TypeOK, Run, Agent
<1>2. \A s \in {"absent", "Queued", "Running"} \cup Terminal :
         [runs EXCEPT ![r].state = s] \in [Runs -> Run]
  BY <1>1 DEF Run
<1>3. [runs EXCEPT ![r].spec = agents[AgentOf[r]].spec] \in [Runs -> Run]
  BY <1>1 DEF Run
<1>4. ASSUME runs[r].obs < MaxObs PROVE [runs EXCEPT ![r].obs = @ + 1] \in [Runs -> Run]
  <2>1. runs[r].obs + 1 \in 0..MaxObs
    BY <1>1, <1>4
  <2>2. \A n \in 0..MaxObs : [runs EXCEPT ![r].obs = n] \in [Runs -> Run]
    BY <1>1 DEF Run
  <2>3. [runs EXCEPT ![r].obs = @ + 1] = [runs EXCEPT ![r].obs = runs[r].obs + 1]
    BY <1>1
  <2> QED
    BY <2>1, <2>2, <2>3
<1> QED
  BY <1>2, <1>3, <1>4

\* A lane that is taken or given back.
LEMMA LaneUpdates ==
    ASSUME TypeOK, NEW r \in Runs
    PROVE  /\ [lanes EXCEPT ![LaneOf[r]] = [at |-> "busy", by |-> r]] \in [Lanes -> Lane \cup {Free}]
           /\ [lanes EXCEPT ![LaneOf[r]] = [at |-> "reserved", by |-> r]]
                 \in [Lanes -> Lane \cup {Free}]
           /\ Unreserved(r) \in [Lanes -> Lane \cup {Free}]
           /\ Idle(r) \in [Lanes -> Lane \cup {Free}]
<1>1. LaneOf[r] \in Lanes /\ lanes \in [Lanes -> Lane \cup {Free}]
  BY RunsAssumption DEF TypeOK
<1>2. ASSUME NEW x \in Lane \cup {Free}
      PROVE  [lanes EXCEPT ![LaneOf[r]] = x] \in [Lanes -> Lane \cup {Free}]
  BY <1>1
<1>3. [at |-> "busy", by |-> r] \in Lane /\ [at |-> "reserved", by |-> r] \in Lane
  BY DEF Lane
<1>4. Unreserved(r) = lanes \/ Unreserved(r) = [lanes EXCEPT ![LaneOf[r]] = Free]
  BY Zenon DEF Unreserved
<1>5. Idle(r) = lanes \/ Idle(r) = [lanes EXCEPT ![LaneOf[r]] = Free]
  BY Zenon DEF Idle
<1> QED
  BY <1>1, <1>2, <1>3, <1>4, <1>5

\* A candidate is a terminal record, before and after it is merged with the Run.
LEMMA CandidateTypes ==
    ASSUME TypeOK, NEW r \in Runs
    PROVE  /\ \A s \in Terminal, n \in 0..runs[r].obs :
                 [run |-> r, state |-> s, obs |-> n] \in Candidate
           /\ [run |-> r, state |-> IF runs[r].state \in Terminal THEN runs[r].state ELSE "Failed",
               obs |-> runs[r].obs] \in Candidate
           /\ runs[r].obs \in 0..runs[r].obs /\ runs[r].obs \in Nat
BY RunsAssumption DEF TypeOK, Run, Candidate, Terminal

\* merge_run_observations keeps the shape, and covers the record it is merged with.
LEMMA MergedTypes ==
    ASSUME TypeOK, NEW c \in Candidate
    PROVE  /\ Merged(c) \in Candidate /\ Merged(c).run = c.run
           /\ Covers(Merged(c), runs[c.run])
<1> DEFINE n == runs[c.run]
           x == IF n.state \in Terminal THEN n.state ELSE c.state
           y == IF c.obs < n.obs THEN n.obs ELSE c.obs
<1>1. /\ c.run \in Runs /\ c.state \in Terminal /\ c.obs \in 0..MaxObs
      /\ n.obs \in 0..MaxObs
  BY DEF Candidate, TypeOK, Run
<1>2. x \in Terminal /\ y \in 0..MaxObs /\ y >= n.obs
  BY <1>1, RunsAssumption
<1>3. n.state \in Terminal => x = n.state
  OBVIOUS
<1>4. Merged(c) = [c EXCEPT !.state = x, !.obs = y]
  BY Zenon DEF Merged
<1> HIDE DEF x, y
<1>5. LET m == [c EXCEPT !.state = x, !.obs = y] IN
      m \in Candidate /\ m.run = c.run /\ m.state = x /\ m.obs = y
  BY <1>2 DEF Candidate
<1> QED
  BY <1>2, <1>3, <1>4, <1>5 DEF Covers

\* An admission that is given back or taken.
LEMMA Admissions ==
    ASSUME TypeOK, QueuesFit, NEW r \in Runs
    PROVE  /\ admitted \ {r} \subseteq Runs /\ Cardinality(admitted \ {r}) <= Limit
           /\ IsFiniteSet(admitted \ {r})
           /\ Cardinality(admitted) < Limit =>
                 /\ admitted \cup {r} \subseteq Runs /\ Cardinality(admitted \cup {r}) <= Limit
           /\ IsFiniteSet(admitted \cup {r})
<1>1. IsFiniteSet(admitted) /\ Cardinality(admitted) \in Nat /\ Cardinality(admitted) <= Limit
  BY FS_CardinalityType DEF TypeOK, QueuesFit
<1>2. Limit \in Nat /\ admitted \subseteq Runs
  BY RunsAssumption DEF TypeOK
<1>3. /\ IsFiniteSet(admitted \ {r})
      /\ Cardinality(admitted \ {r}) \in {Cardinality(admitted), Cardinality(admitted) - 1}
  BY <1>1, FS_RemoveElement
<1>4. /\ IsFiniteSet(admitted \cup {r})
      /\ Cardinality(admitted \cup {r}) \in {Cardinality(admitted), Cardinality(admitted) + 1}
  BY <1>1, FS_AddElement
<1> QED
  BY <1>1, <1>2, <1>3, <1>4

\* What a released turn does to the types.
LEMMA ReleaseTypes ==
    ASSUME TypeOK, QueuesFit, NEW r \in Runs, ReleaseTurn(r)
    PROVE  /\ admitted' \subseteq Runs /\ Cardinality(admitted') <= Limit
           /\ IsFiniteSet(admitted')
           /\ lanes' \in [Lanes -> Lane \cup {Free}]
<1>1. lanes' = lanes \/ lanes' = Unreserved(r)
  BY Zenon DEF ReleaseTurn
<1>2. admitted' = admitted \ {r}
  BY DEF ReleaseTurn
<1> QED
  BY <1>1, <1>2, Admissions, LaneUpdates DEF TypeOK

\* The part of the type that is about memory, and the part about the records.
MemoryTyped ==
    /\ queue \in Seq(Runs) /\ slots \in Seq(Runs) /\ Len(slots) <= MaxQueue
    /\ admitted \subseteq Runs /\ Cardinality(admitted) <= Limit
    /\ lanes \in [Lanes -> Lane \cup {Free}] /\ last \in Lanes \cup {None}
    /\ claimed \subseteq Runs

FilesTyped ==
    /\ runs \in [Runs -> Run] /\ agents \in [Agents -> Agent]
    /\ intent \in Intent \cup {NoIntent} /\ final \in Candidate \cup {NoCandidate}
    /\ job \in Job \cup {NoJob}
    /\ cand \in [Runs -> Candidate \cup {NoCandidate}]

\* Memory keeps its type.
LEMMA MemoryTypes ==
    ASSUME IInv, [Next]_vars
    PROVE  MemoryTyped'
<1> USE DEF IInv
<1>0. /\ TypeOK /\ QueuesFit /\ MemoryTyped
      /\ \A r \in Runs : LaneOf[r] \in Lanes
      /\ MaxQueue \in Nat /\ Len(slots) \in Nat /\ Len(queue) \in Nat
  BY RunsAssumption DEF TypeOK, MemoryTyped
<1>1. CASE UNCHANGED memory
  BY <1>0, <1>1 DEF memory, MemoryTyped
<1>2. ASSUME NEW r \in Runs, Reserve(r) PROVE MemoryTyped'
  <2>1. CASE LaneFree(r) /\ Cardinality(admitted) < Limit
    <3>1. /\ admitted' = admitted \cup {r} /\ UNCHANGED <<queue, slots, last, claimed>>
          /\ lanes' = [lanes EXCEPT ![LaneOf[r]] = [at |-> "reserved", by |-> r]]
      BY <1>2, <2>1 DEF Reserve
    <3>2. lanes' \in [Lanes -> Lane \cup {Free}]
      BY <1>0, <3>1, LaneUpdates
    <3>3. admitted' \subseteq Runs /\ Cardinality(admitted') <= Limit
      BY <1>0, <2>1, <3>1, Admissions
    <3> QED
      BY <1>0, <3>1, <3>2, <3>3 DEF MemoryTyped
  <2>2. CASE ~(LaneFree(r) /\ Cardinality(admitted) < Limit)
    BY <1>0, <1>2, <2>2 DEF Reserve, MemoryTyped
  <2> QED
    BY <2>1, <2>2
<1>3. ASSUME NEW r \in Runs, Enqueue(r) PROVE MemoryTyped'
  <2>1. \/ queue' = Append(queue, r) /\ slots' = Append(slots, r) /\ Len(slots) < MaxQueue
        \/ UNCHANGED <<queue, slots>>
    BY <1>3, Zenon DEF Enqueue
  <2>2. UNCHANGED <<admitted, lanes, last, claimed>>
    BY <1>3 DEF Enqueue
  <2>3. Len(Append(slots, r)) = Len(slots) + 1 /\ Append(slots, r) \in Seq(Runs)
        /\ Append(queue, r) \in Seq(Runs)
    BY <1>0 DEF MemoryTyped
  <2>4. queue' \in Seq(Runs) /\ slots' \in Seq(Runs) /\ Len(slots') <= MaxQueue
    <3>1. Len(slots) < MaxQueue => Len(slots) + 1 <= MaxQueue
      BY <1>0
    <3>2. queue \in Seq(Runs) /\ slots \in Seq(Runs) /\ Len(slots) <= MaxQueue
      BY <1>0 DEF MemoryTyped
    <3> QED
      BY <2>1, <2>3, <3>1, <3>2, Zenon
  <2> QED
    BY <1>0, <2>2, <2>4 DEF MemoryTyped
<1>4. ASSUME NEW r \in Runs, Claim(r) PROVE MemoryTyped'
  <2>1. Without(slots, r) \in Seq(Runs) /\ Len(Without(slots, r)) <= Len(slots)
    BY <1>0, WithoutProperties DEF MemoryTyped, QueuesFit
  <2>2. /\ slots' = Without(slots, r) /\ admitted' = admitted \cup {r}
        /\ last' = LaneOf[r] /\ claimed' = claimed \cup {r} /\ queue' = queue
        /\ lanes' = [lanes EXCEPT ![LaneOf[r]] = [at |-> "reserved", by |-> r]]
        /\ Cardinality(admitted) < Limit
    BY <1>4 DEF Claim
  <2>3. Len(slots') <= MaxQueue
    BY <1>0, <2>1, <2>2 DEF MemoryTyped
  <2> QED
    BY <1>0, <2>1, <2>2, <2>3, Admissions, LaneUpdates DEF MemoryTyped
<1>5. ASSUME NEW r \in Runs, Take(r) PROVE MemoryTyped'
  <2>1. Without(queue, r) \in Seq(Runs)
    BY <1>0, WithoutProperties DEF MemoryTyped, QueuesFit
  <2>2. CASE r \in ToSet(queue)
    BY <1>0, <1>5, <2>1, <2>2 DEF Take, MemoryTyped
  <2>3. CASE r \notin ToSet(queue)
    <3>1. ReleaseTurn(r) /\ UNCHANGED <<queue, slots, last>> /\ claimed' = claimed \ {r}
      BY <1>5, <2>3 DEF Take
    <3> QED
      BY <1>0, <3>1, ReleaseTypes DEF MemoryTyped
  <2> QED
    BY <2>2, <2>3
<1>6. ASSUME NEW r \in Runs, ReleaseTurn(r), UNCHANGED <<queue, slots, last, claimed>>
      PROVE  MemoryTyped'
  BY <1>0, <1>6, ReleaseTypes DEF MemoryTyped
<1>7. ASSUME NEW r \in Runs, Reregister(r) PROVE MemoryTyped'
  <2>1. (slots' = Append(slots, r) /\ Len(slots) < MaxQueue) \/ UNCHANGED slots
    BY <1>7, Zenon DEF Reregister
  <2>2. UNCHANGED <<queue, admitted, lanes, last, claimed>>
    BY <1>7 DEF Reregister
  <2>3. Len(Append(slots, r)) = Len(slots) + 1 /\ Append(slots, r) \in Seq(Runs)
    BY <1>0 DEF MemoryTyped
  <2>4. slots' \in Seq(Runs) /\ Len(slots') <= MaxQueue
    BY <1>0, <2>1, <2>3 DEF MemoryTyped
  <2> QED
    BY <1>0, <2>2, <2>4 DEF MemoryTyped
<1>8. ASSUME NEW r \in Runs, Requeue(r) PROVE MemoryTyped'
  BY <1>0, <1>8 DEF Requeue, MemoryTyped
<1>9. ASSUME NEW r \in Runs, UNCHANGED <<queue, slots, admitted, last, claimed>>,
             \/ lanes' = lanes \/ lanes' = Unreserved(r) \/ lanes' = Idle(r)
             \/ lanes' = [lanes EXCEPT ![LaneOf[r]] = [at |-> "busy", by |-> r]]
      PROVE  MemoryTyped'
  <2>1. lanes' \in [Lanes -> Lane \cup {Free}]
    <3>1. lanes \in [Lanes -> Lane \cup {Free}]
      BY <1>0 DEF MemoryTyped
    <3>2. /\ Unreserved(r) \in [Lanes -> Lane \cup {Free}]
          /\ Idle(r) \in [Lanes -> Lane \cup {Free}]
          /\ [lanes EXCEPT ![LaneOf[r]] = [at |-> "busy", by |-> r]] \in [Lanes -> Lane \cup {Free}]
      BY <1>0, LaneUpdates
    <3> QED
      BY <1>9, <3>1, <3>2
  <2> QED
    BY <1>0, <1>9, <2>1 DEF MemoryTyped
<1>10. ASSUME NEW r \in Runs, RemovePending(r) PROVE MemoryTyped'
  <2>1. Without(queue, r) \in Seq(Runs)
    BY <1>0, WithoutProperties DEF MemoryTyped, QueuesFit
  <2> QED
    BY <1>0, <1>10, <2>1 DEF RemovePending, MemoryTyped
<1>11. ASSUME NEW r \in Runs, ReleaseSlot(r) PROVE MemoryTyped'
  <2>1. Without(slots, r) \in Seq(Runs) /\ Len(Without(slots, r)) <= Len(slots)
    BY <1>0, WithoutProperties DEF MemoryTyped, QueuesFit
  <2>2. Len(Without(slots, r)) <= MaxQueue
    BY <1>0, <2>1 DEF MemoryTyped
  <2>3. slots' = Without(slots, r) /\ lanes' = Unreserved(r)
        /\ UNCHANGED <<queue, admitted, last, claimed>>
    BY <1>11 DEF ReleaseSlot
  <2> QED
    BY <1>0, <2>1, <2>2, <2>3, LaneUpdates DEF MemoryTyped
<1>12. CASE Crash
  <2>1. Cardinality({}) = 0 /\ Limit \in Nat
    BY FS_EmptySet, RunsAssumption
  <2> QED
    BY <1>0, <1>12, <2>1 DEF Crash, MemoryTyped
<1>13. ASSUME NEW r \in Runs, Load(r) \/ CheckSpec(r) \/ GiveBack(r) \/ Activate(r) \/ Release(r)
       PROVE  MemoryTyped'
  <2>1. /\ UNCHANGED <<queue, slots, last, claimed>>
        /\ ReleaseTurn(r) \/ UNCHANGED <<admitted, lanes>>
    BY <1>13, Zenon DEF Load, CheckSpec, GiveBack, Activate, Release
  <2> QED
    BY <1>6, <1>9, <2>1
<1>14. ASSUME NEW r \in Runs, BeginDesktop(r) \/ EnterTurn(r) \/ EndTurn(r) \/ Timeout(r)
                              \/ Close(r) \/ ReleaseReservation(r)
       PROVE  MemoryTyped'
  <2>1. /\ UNCHANGED <<queue, slots, admitted, last, claimed>>
        /\ \/ lanes' = lanes \/ lanes' = Unreserved(r) \/ lanes' = Idle(r)
           \/ lanes' = [lanes EXCEPT ![LaneOf[r]] = [at |-> "busy", by |-> r]]
    BY <1>14, Zenon DEF BeginDesktop, EnterTurn, EndTurn, Timeout, Close, ReleaseReservation
  <2> QED
    BY <1>9, <2>1
<1>15. ASSUME NEW r \in Runs,
              \/ Submit(r) \/ SaveQueued(r) \/ Promote(r) \/ CheckTurn(r) \/ Observe(r)
              \/ EndDesktop(r) \/ EndUnrecorded(r) \/ Finalize(r) \/ Checkpoint(r)
              \/ MarkCancelled(r) \/ Interrupt(r)
       PROVE  MemoryTyped'
  BY <1>1, <1>15, Zenon DEF Submit, SaveQueued, Promote, CheckTurn, Observe, EndDesktop,
     EndUnrecorded, Finalize, Checkpoint, MarkCancelled, Interrupt
<1>16. CASE WriteJob \/ RecoverActivation \/ RecoverFinal \/ Opened \/ UNCHANGED vars
  <2>1. UNCHANGED memory
    BY <1>16 DEF WriteJob, InstallRun, InstallAgent, ClearIntent, Seal, InstallFinal, ClearFinal,
       RecoverActivation, RecoverFinal, Opened, vars
  <2> QED
    BY <1>1, <2>1
<1>17. ASSUME NEW a \in Agents, ReviseSpec(a) \/ FreeAgent(a) PROVE MemoryTyped'
  BY <1>1, <1>17, Zenon DEF ReviseSpec, FreeAgent
<1> QED
  BY <1>2, <1>3, <1>4, <1>5, <1>7, <1>8, <1>10, <1>11, <1>12, <1>13, <1>14, <1>15, <1>16, <1>17
     DEF Next, Drive, DesktopTurn, CancelRun, Recover

\* Phases and cancellations keep their type.
LEMMA PhaseTypes ==
    ASSUME IInv, [Next]_vars
    PROVE  /\ phase' \in [Runs -> Phase]
           /\ cancel' \in [Runs -> {"none", "marked", "unslot", "release", "dequeued", "released",
                                    "over"}]
           /\ store' \in {"up", "opening", "refused"}
           /\ crashes' \in 0..MaxCrashes /\ faults' \in 0..MaxFaults
<1> DEFINE C == {"none", "marked", "unslot", "release", "dequeued", "released", "over"}
           T == /\ phase' \in [Runs -> Phase] /\ cancel' \in [Runs -> C]
                /\ store' \in {"up", "opening", "refused"}
                /\ crashes' \in 0..MaxCrashes /\ faults' \in 0..MaxFaults
<1>0. /\ phase \in [Runs -> Phase] /\ cancel \in [Runs -> C]
      /\ store \in {"up", "opening", "refused"}
      /\ crashes \in 0..MaxCrashes /\ faults \in 0..MaxFaults
      /\ MaxCrashes \in Nat /\ MaxFaults \in Nat
  BY RunsAssumption DEF IInv, TypeOK
<1>a. ASSUME NEW r \in Runs, NEW p \in Phase PROVE [phase EXCEPT ![r] = p] \in [Runs -> Phase]
  BY <1>0
<1>b. ASSUME NEW r \in Runs, NEW x \in C PROVE [cancel EXCEPT ![r] = x] \in [Runs -> C]
  BY <1>0
<1>1. ASSUME NEW r \in Runs, NEW p \in Phase, phase' = phase \/ phase' = [phase EXCEPT ![r] = p],
             UNCHANGED <<cancel, store, crashes, faults>>
      PROVE  T
  BY <1>0, <1>a, <1>1
<1>c. {"asked", "toqueue", "saved", "waiting", "taken", "loaded", "checked", "refused",
       "reregister", "requeue", "reserved", "begun", "activating", "spawned", "ready", "turn",
       "unrecorded", "final", "finalizing", "finalized", "checkpointed", "closing", "over"}
         \subseteq Phase
  BY DEF Phase
<1>2. ASSUME NEW r \in Runs, Submit(r) \/ Claim(r) \/ Observe(r) \/ Drive(r) \/ DesktopTurn(r)
                             \/ Interrupt(r)
      PROVE  T
  <2>1. UNCHANGED <<cancel, store, crashes, faults>>
    BY <1>2, Zenon DEF Submit, Claim, Observe, Drive, DesktopTurn, Interrupt, Reserve, SaveQueued,
       Enqueue, Take, Load, CheckSpec, Promote, GiveBack, Reregister, Requeue, Activate, CheckTurn,
       EnterTurn, EndTurn, Timeout, Finalize, Checkpoint, Release, Close, BeginDesktop, EndDesktop,
       EndUnrecorded
  <2>2. ASSUME Submit(r) \/ Reserve(r) \/ SaveQueued(r) \/ Enqueue(r) \/ Take(r) \/ Load(r)
               \/ CheckSpec(r) \/ Promote(r) \/ GiveBack(r) \/ Reregister(r) \/ Requeue(r)
        PROVE  \E p \in Phase : phase' = phase \/ phase' = [phase EXCEPT ![r] = p]
    <3>1. CASE Submit(r) \/ Reserve(r) \/ SaveQueued(r) \/ Enqueue(r)
      BY <3>1, <1>c DEF Submit, Reserve, SaveQueued, Enqueue, Goes
    <3>2. CASE Take(r) \/ Load(r) \/ CheckSpec(r) \/ Promote(r)
      BY <3>2, <1>c DEF Take, Load, CheckSpec, Promote, Goes
    <3>3. CASE GiveBack(r) \/ Reregister(r) \/ Requeue(r)
      BY <3>3, <1>c DEF GiveBack, Reregister, Requeue, Goes
    <3> QED
      BY <2>2, <3>1, <3>2, <3>3
  <2>3. ASSUME Activate(r) \/ CheckTurn(r) \/ EnterTurn(r) \/ EndTurn(r) \/ Timeout(r)
               \/ Finalize(r) \/ Checkpoint(r) \/ Release(r) \/ Close(r) \/ DesktopTurn(r)
        PROVE  \E p \in Phase : phase' = [phase EXCEPT ![r] = p]
    <3>1. CASE Activate(r) \/ CheckTurn(r) \/ EnterTurn(r)
      BY <3>1, <1>c DEF Activate, CheckTurn, EnterTurn, Goes, Ends
    <3>2. CASE EndTurn(r) \/ Timeout(r) \/ Finalize(r) \/ Checkpoint(r) \/ Release(r) \/ Close(r)
      BY <3>2, <1>c DEF EndTurn, Timeout, Finalize, Checkpoint, Release, Close, Goes, Ends
    <3>3. CASE DesktopTurn(r)
      BY <3>3, <1>c DEF DesktopTurn, BeginDesktop, EndDesktop, EndUnrecorded, Goes
    <3> QED
      BY <2>3, <3>1, <3>2, <3>3
  <2>4. CASE Claim(r) \/ Observe(r) \/ Interrupt(r)
    <3>1. phase' = phase
      BY <2>4 DEF Claim, Observe, Interrupt
    <3> QED
      BY <1>0, <2>1, <3>1
  <2> QED
    BY <1>1, <1>2, <2>1, <2>2, <2>3, <2>4, Zenon DEF Drive
<1>3. ASSUME NEW r \in Runs, CancelRun(r) PROVE T
  <2>1. UNCHANGED <<phase, store, crashes, faults>>
    BY <1>3 DEF CancelRun, MarkCancelled, RemovePending, ReleaseSlot, ReleaseReservation
  <2>2. \E x \in C : cancel' = [cancel EXCEPT ![r] = x]
    BY <1>3 DEF CancelRun, MarkCancelled, RemovePending, ReleaseSlot, ReleaseReservation, Cancels
  <2> QED
    BY <1>0, <1>b, <2>1, <2>2
<1>4. CASE WriteJob
  <2>1. ASSUME At("activate", "clear") \/ At("finalize", "clear") PROVE job.run \in Runs
    BY <2>1, JobCases DEF IInv, At
  <2>2. CASE InstallRun \/ InstallAgent \/ Seal \/ InstallFinal
    BY <1>0, <2>2 DEF InstallRun, InstallAgent, Seal, InstallFinal
  <2>3. CASE ClearIntent
    <3>1. phase' = phase \/ \E p \in Phase : phase' = [phase EXCEPT ![job.run] = p]
      BY <1>c, <2>3 DEF ClearIntent
    <3>2. phase' \in [Runs -> Phase]
      BY <1>0, <1>a, <2>1, <2>3, <3>1 DEF ClearIntent
    <3>3. faults' \in 0..MaxFaults /\ UNCHANGED <<cancel, store, crashes>>
      BY <1>0, <2>3 DEF ClearIntent
    <3> QED
      BY <1>0, <3>2, <3>3
  <2>4. CASE ClearFinal
    <3>1. phase' = phase \/ phase' = [phase EXCEPT ![job.run] = "finalized"]
      BY <2>4, Zenon DEF ClearFinal
    <3>2. phase' \in [Runs -> Phase]
      BY <1>0, <1>a, <1>c, <2>1, <2>4, <3>1 DEF ClearFinal
    <3> QED
      BY <1>0, <2>4, <3>2 DEF ClearFinal
  <2> QED
    BY <1>4, <2>2, <2>3, <2>4 DEF WriteJob
<1>5. CASE RecoverActivation \/ RecoverFinal \/ Opened
  BY <1>0, <1>5 DEF RecoverActivation, RecoverFinal, Opened
<1>6. CASE Crash
  <2>1. phase' \in [Runs -> Phase]
    BY <1>6, <1>c DEF Crash, Phase
  <2>2. cancel' \in [Runs -> C]
    BY <1>6 DEF Crash
  <2> QED
    BY <1>0, <1>6, <2>1, <2>2 DEF Crash
<1>7. CASE UNCHANGED vars
  BY <1>0, <1>7 DEF vars
<1>8. ASSUME NEW a \in Agents, ReviseSpec(a) \/ FreeAgent(a) PROVE T
  BY <1>0, <1>8 DEF ReviseSpec, FreeAgent
<1> QED
  BY <1>2, <1>3, <1>4, <1>5, <1>6, <1>7, <1>8, Zenon DEF Next, Recover

\* An outcome is recorded as a candidate.
LEMMA EndTypes ==
    ASSUME TypeOK, NEW r \in Runs, NEW from, NEW state \in Terminal, Ends(r, from, state)
    PROVE  /\ cand' \in [Runs -> Candidate \cup {NoCandidate}]
           /\ cand'[r] # NoCandidate /\ cand'[r].run = r
           /\ \A q \in Runs \ {r} : cand'[q] = cand[q]
           /\ phase[r] = from /\ phase' = [phase EXCEPT ![r] = "final"]
<1> DEFINE s == IF runs[r].state \in Terminal THEN runs[r].state ELSE state
           c == [run |-> r, state |-> s, obs |-> runs[r].obs]
<1>1. cand' = [cand EXCEPT ![r] = c]
  BY Zenon DEF Ends, Outcome
<1>2. s \in Terminal
  OBVIOUS
<1>3. c \in Candidate /\ c.run = r
  <2> HIDE DEF s
  <2> QED
    BY <1>2, CandidateTypes
<1>4. phase[r] = from /\ phase' = [phase EXCEPT ![r] = "final"]
  BY DEF Ends, Goes
<1> HIDE DEF c
<1>5. cand \in [Runs -> Candidate \cup {NoCandidate}]
  BY DEF TypeOK
<1> QED
  BY <1>1, <1>3, <1>4, <1>5, Shapes

\* An activation intent has its shape.
LEMMA IntentTypes ==
    ASSUME TypeOK, NEW r \in Runs, WriteIntent(r)
    PROVE  /\ intent' \in Intent /\ job' \in Job /\ intent'.run = r
           /\ intent'.prior = runs[r]
           /\ intent'.to = [runs[r] EXCEPT !.state = "Running"]
           /\ intent'.agent.current = r
           /\ intent'.agent.spec = agents[AgentOf[r]].spec
           /\ job'.kind = "activate" /\ job'.run = r /\ job'.step = "run"
<1>1. runs[r] \in Run /\ agents[AgentOf[r]] \in Agent
  BY RunsAssumption DEF TypeOK
<1>2. [runs[r] EXCEPT !.state = "Running"] \in Run
  BY <1>1 DEF Run
<1>3. /\ [agents[AgentOf[r]] EXCEPT !.current = r] \in Agent
      /\ [agents[AgentOf[r]] EXCEPT !.current = r].current = r
      /\ [agents[AgentOf[r]] EXCEPT !.current = r].spec = agents[AgentOf[r]].spec
  BY <1>1 DEF Agent
<1> QED
  BY <1>1, <1>2, <1>3 DEF WriteIntent, Intent, Job

\* Records keep their type.
LEMMA FileTypes ==
    ASSUME IInv, [Next]_vars
    PROVE  FilesTyped'
<1>0. /\ TypeOK /\ FilesTyped /\ \A r \in Runs : AgentOf[r] \in Agents
      /\ Results \subseteq Terminal /\ "Failed" \in Terminal /\ "LimitReached" \in Terminal
      /\ "Cancelled" \in Terminal /\ "Interrupted" \in Terminal
      /\ {"Queued", "Running"} \subseteq {"absent", "Queued", "Running"} \cup Terminal
      /\ Terminal \subseteq {"absent", "Queued", "Running"} \cup Terminal
  BY RunsAssumption DEF IInv, TypeOK, FilesTyped, Terminal
<1>1. CASE UNCHANGED <<files, job, cand>>
  BY <1>0, <1>1 DEF files, FilesTyped
<1>2. ASSUME NEW r \in Runs, runs' \in [Runs -> Run], UNCHANGED <<agents, intent, final, job, cand>>
      PROVE  FilesTyped'
  BY <1>0, <1>2 DEF FilesTyped
<1>3. ASSUME NEW r \in Runs, Submit(r) \/ BeginDesktop(r) \/ SaveQueued(r) \/ Enqueue(r)
                             \/ CheckSpec(r) \/ Observe(r) \/ MarkCancelled(r) \/ Interrupt(r)
      PROVE  FilesTyped'
  <2>1. UNCHANGED <<agents, intent, final, job, cand>>
    BY <1>3, Zenon DEF Submit, BeginDesktop, SaveQueued, Enqueue, CheckSpec, Observe, MarkCancelled,
       Interrupt
  <2>2. \/ runs' = runs
        \/ \E s \in {"absent", "Queued", "Running"} \cup Terminal :
              runs' = [runs EXCEPT ![r].state = s]
        \/ runs' = [runs EXCEPT ![r].spec = agents[AgentOf[r]].spec]
        \/ runs[r].obs < MaxObs /\ runs' = [runs EXCEPT ![r].obs = @ + 1]
    BY <1>0, <1>3, Zenon DEF Submit, BeginDesktop, SaveQueued, Enqueue, CheckSpec, Observe,
       MarkCancelled, Interrupt, SetState
  <2>3. runs' \in [Runs -> Run]
    <3>1. runs \in [Runs -> Run]
      BY <1>0 DEF FilesTyped
    <3>2. /\ \A s \in {"absent", "Queued", "Running"} \cup Terminal :
                [runs EXCEPT ![r].state = s] \in [Runs -> Run]
          /\ [runs EXCEPT ![r].spec = agents[AgentOf[r]].spec] \in [Runs -> Run]
          /\ runs[r].obs < MaxObs => [runs EXCEPT ![r].obs = @ + 1] \in [Runs -> Run]
      BY <1>0, RunUpdates
    <3> QED
      BY <2>2, <3>1, <3>2, Zenon
  <2> QED
    BY <1>2, <2>1, <2>3
<1>4. ASSUME NEW r \in Runs, Activate(r) \/ Promote(r) PROVE FilesTyped'
  <2>1. UNCHANGED <<runs, agents, final, cand>>
    BY <1>4, Zenon DEF Activate, Promote
  <2>2. WriteIntent(r) \/ UNCHANGED <<intent, job>>
    BY <1>4, Zenon DEF Activate, Promote
  <2> QED
    BY <1>0, <2>1, <2>2, IntentTypes DEF FilesTyped
<1>5. ASSUME NEW r \in Runs, CheckTurn(r) \/ EnterTurn(r) \/ EndTurn(r) \/ Timeout(r)
      PROVE  FilesTyped'
  <2>1. UNCHANGED <<files, job>>
    BY <1>5, Zenon DEF CheckTurn, EnterTurn, EndTurn, Timeout
  <2>2. UNCHANGED cand \/ \E from \in Phase, state \in Terminal : Ends(r, from, state)
    <3>1. {"spawned", "ready", "turn"} \subseteq Phase
      BY DEF Phase
    <3> QED
      BY <1>0, <1>5, <3>1, Zenon DEF CheckTurn, EnterTurn, EndTurn, Timeout
  <2> QED
    BY <1>0, <2>1, <2>2, EndTypes DEF FilesTyped, files
<1>6. ASSUME NEW r \in Runs, EndDesktop(r) PROVE FilesTyped'
  <2>1. PICK s \in Results \cup {"Cancelled"}, n \in 0..runs[r].obs :
           cand' = [cand EXCEPT ![r] = [run |-> r, state |-> s, obs |-> n]]
    BY <1>6 DEF EndDesktop
  <2>2. [run |-> r, state |-> s, obs |-> n] \in Candidate
    BY <1>0, CandidateTypes
  <2> QED
    BY <1>0, <1>6, <2>1, <2>2 DEF EndDesktop, files, FilesTyped
<1>7. ASSUME NEW r \in Runs, Finalize(r) PROVE FilesTyped'
  <2>1. cand[r] # NoCandidate /\ cand[r].run = r
    BY <1>7 DEF IInv, CandidatesFit, Finalize, Goes
  <2>2. job' = [kind |-> "finalize", run |-> r, step |-> "seal"]
    BY <1>7, <2>1 DEF Finalize, Retire
  <2>3. job' \in Job
    BY <2>2 DEF Job
  <2>4. intent' = intent \/ intent' = NoIntent
    BY <1>7, Zenon DEF Finalize, Retire
  <2> QED
    BY <1>0, <1>7, <2>3, <2>4 DEF Finalize, FilesTyped
<1>8. ASSUME NEW r \in Runs, Checkpoint(r) PROVE FilesTyped'
  <2>1. agents' \in [Agents -> Agent]
    BY <1>0, <1>8 DEF Checkpoint, FilesTyped, Agent
  <2> QED
    BY <1>0, <1>8, <2>1 DEF Checkpoint, FilesTyped
<1>9. ASSUME NEW a \in Agents, ReviseSpec(a) \/ FreeAgent(a) PROVE FilesTyped'
  <2>1. MaxEdits \in Nat /\ agents[a] \in Agent /\ agents[a].spec \in 0..MaxEdits
    BY <1>0, RunsAssumption DEF FilesTyped, Agent
  <2>2. ASSUME NEW n \in 0..MaxEdits
        PROVE  [agents EXCEPT ![a].spec = n] \in [Agents -> Agent]
    BY <1>0 DEF FilesTyped, Agent
  <2>3. [agents EXCEPT ![a].current = None] \in [Agents -> Agent]
    BY <1>0 DEF FilesTyped, Agent
  <2>4. ReviseSpec(a) => agents[a].spec + 1 \in 0..MaxEdits
    BY <2>1 DEF ReviseSpec
  <2>5. ReviseSpec(a) => agents' = [agents EXCEPT ![a].spec = agents[a].spec + 1]
    BY <1>0 DEF ReviseSpec, FilesTyped
  <2>6. agents' \in [Agents -> Agent]
    BY <1>9, <2>2, <2>3, <2>4, <2>5 DEF FreeAgent
  <2> QED
    BY <1>0, <1>9, <2>6 DEF ReviseSpec, FreeAgent, FilesTyped
<1>10. CASE InstallRun \/ InstallAgent \/ ClearIntent
  <2>1. job.kind = "activate" /\ job.run \in Runs /\ intent \in Intent
    BY <1>10, JobCases, RecordCases
       DEF InstallRun, InstallAgent, ClearIntent, At, IInv, ActivationFits
  <2>2. intent.to \in Run /\ intent.agent \in Agent
    BY <2>1 DEF Intent
  <2>3. CASE InstallRun
    BY <1>0, <2>1, <2>2, <2>3, JobMoves DEF InstallRun, FilesTyped
  <2>4. CASE InstallAgent
    BY <1>0, <2>1, <2>2, <2>4, JobMoves DEF InstallAgent, FilesTyped
  <2>5. CASE ClearIntent
    BY <1>0, <2>5 DEF ClearIntent, FilesTyped
  <2> QED
    BY <1>10, <2>3, <2>4, <2>5
<1>11. CASE Seal \/ InstallFinal \/ ClearFinal
  <2>1. job.kind = "finalize" /\ job.run \in Runs /\ cand[job.run] \in Candidate
    BY <1>11, JobCases, RecordCases
       DEF Seal, InstallFinal, ClearFinal, At, IInv, CandidatesFit
  <2>2. CASE Seal
    BY <1>0, <2>1, <2>2, JobMoves, MergedTypes DEF Seal, FilesTyped
  <2>3. CASE InstallFinal
    <3>1. final \in Candidate
      BY <2>1, <2>3, RecordCases DEF InstallFinal, At, IInv, FinalizationFits
    <3>2. final.state \in Terminal /\ final.obs \in 0..MaxObs
      BY <3>1 DEF Candidate
    <3>3. ASSUME NEW s \in Terminal, NEW n \in 0..MaxObs
          PROVE  [runs EXCEPT ![job.run].state = s, ![job.run].obs = n] \in [Runs -> Run]
      BY <1>0, <2>1 DEF FilesTyped, Run
    <3>4. runs' \in [Runs -> Run]
      BY <2>3, <3>2, <3>3 DEF InstallFinal
    <3> QED
      BY <1>0, <2>3, <3>4, JobMoves DEF InstallFinal, FilesTyped
  <2>4. CASE ClearFinal
    BY <1>0, <2>1, <2>4 DEF ClearFinal, FilesTyped
  <2> QED
    BY <1>11, <2>2, <2>3, <2>4
<1>12. CASE RecoverActivation
  <2>1. intent.run \in Runs /\ [kind |-> "activate", run |-> intent.run, step |-> "run"] \in Job
    BY <1>0, <1>12, RecordCases DEF RecoverActivation, Job
  <2>2. job' \in Job \cup {NoJob}
    BY <1>0, <1>12, <2>1, Zenon DEF RecoverActivation, FilesTyped
  <2> QED
    BY <1>0, <1>12, <2>2 DEF RecoverActivation, FilesTyped, files
<1>13. CASE RecoverFinal
  <2>1. final \in Candidate /\ final.run \in Runs
    BY <1>0, <1>13, RecordCases DEF RecoverFinal
  <2>2. job' \in Job
    BY <1>13, <2>1 DEF RecoverFinal, Retire, Job
  <2>3. intent' = intent \/ intent' = NoIntent
    BY <1>13, Zenon DEF RecoverFinal, Retire
  <2>4. cand' \in [Runs -> Candidate \cup {NoCandidate}]
    BY <1>0, <1>13, <2>1 DEF RecoverFinal, FilesTyped
  <2> QED
    BY <1>0, <1>13, <2>2, <2>3, <2>4 DEF RecoverFinal, FilesTyped
<1>14. CASE Crash
  BY <1>0, <1>14 DEF Crash, FilesTyped, files
<1>15. CASE Opened \/ UNCHANGED vars
  BY <1>1, <1>15, Zenon DEF Opened, vars
<1>16. ASSUME NEW r \in Runs,
              \/ Reserve(r) \/ Claim(r) \/ Take(r) \/ Load(r) \/ GiveBack(r) \/ Reregister(r)
              \/ Requeue(r) \/ EndUnrecorded(r) \/ Release(r) \/ Close(r) \/ RemovePending(r)
              \/ ReleaseSlot(r) \/ ReleaseReservation(r)
       PROVE  FilesTyped'
  <2>1. UNCHANGED <<files, job, cand>>
    BY <1>16, Zenon DEF Reserve, Claim, Take, Load, GiveBack, Reregister, Requeue, EndUnrecorded,
       Release, Close, RemovePending, ReleaseSlot, ReleaseReservation
  <2> QED
    BY <1>1, <2>1
<1> QED
  BY <1>3, <1>4, <1>5, <1>6, <1>7, <1>8, <1>9, <1>10, <1>11, <1>12, <1>13, <1>14, <1>15, <1>16
     DEF Next, Drive, DesktopTurn, CancelRun, WriteJob, Recover

\* Every step keeps the types.
LEMMA TypeStep ==
    ASSUME IInv, [Next]_vars
    PROVE  TypeOK'
BY MemoryTypes, PhaseTypes, FileTypes DEF TypeOK, MemoryTyped, FilesTyped


-----------------------------------------------------------------------------
(* Steps of one task *)

\* The files, the write under the lock and the phases.
Core == RecordsFit /\ AgentsFit /\ IntentFits /\ ActivationFits /\ FinalizationFits

\* A move of a task that fits into the core: from phase p with a record in state s to phase p2
\* with a record in state s2.
Fits(p, s, p2, s2) ==
    /\ StateFits(p2, s2)
    /\ s2 = "Running" => p2 \in Executing
    /\ p2 \in Active <=> p \in Active
    /\ s2 = "absent" => s = "absent"
    /\ p \in Activated => p2 \in Activated
    /\ p2 = "activating" <=> p = "activating"
    /\ p \in {"finalizing", "over"} => p2 \in {"finalizing", "over"}

\* A step of the task of r in a running store, which may write the record of r under the lock.
RunStep(r) ==
    /\ store = "up" /\ UNCHANGED <<agents, intent, final, job, store, faults>>
    /\ UNCHANGED runs \/ LockFree
    /\ \A q \in Runs \ {r} : runs'[q] = runs[q] /\ phase'[q] = phase[q]
    /\ Fits(phase[r], runs[r].state, phase'[r], runs'[r].state)

\* Such a step keeps the core.
LEMMA RunStepCore ==
    ASSUME TypeOK, Core, NEW r \in Runs, RunStep(r)
    PROVE  Core'
<1>0. /\ store = "up" /\ store' = "up"
      /\ UNCHANGED <<agents, intent, final, job, faults>>
      /\ \A q \in Runs \ {r} : runs'[q] = runs[q] /\ phase'[q] = phase[q]
      /\ Fits(phase[r], runs[r].state, phase'[r], runs'[r].state)
  BY DEF RunStep
<1>1. RecordsFit'
  BY <1>0 DEF Core, RecordsFit, Fits
<1>2. AgentsFit'
  <2>1. /\ \A q \in Runs : phase'[q] \in Active <=> phase[q] \in Active
        /\ \A q \in Runs : runs[q].state # "absent" => runs'[q].state # "absent"
    BY <1>0 DEF Fits
  <2>2. \A q \in Runs : phase[q] \in Active => agents[AgentOf[q]].current = q
    BY DEF Core, AgentsFit
  <2>3. ASSUME NEW a \in Agents, agents[a].current # None
        PROVE  /\ agents[a].current \in Runs
               /\ AgentOf[agents[a].current] = a /\ runs[agents[a].current].state # "absent"
               /\ \/ phase[agents[a].current] \in Active
                  \/ job = [kind |-> "activate", run |-> agents[a].current, step |-> "clear"]
    BY <1>0, <2>3 DEF Core, AgentsFit, TypeOK, Agent
  <2> QED
    BY <1>0, <2>1, <2>2, <2>3 DEF AgentsFit
<1>3. job.kind # "none" => UNCHANGED runs
  BY JobCases DEF RunStep, LockFree
<1>4. IntentFits'
  <2>1. intent # NoIntent => phase'[intent.run] \in Activated
    BY <1>0, RecordCases DEF Core, IntentFits, Fits
  <2>2. intent # NoIntent /\ faults = 0 => UNCHANGED runs
    BY <1>0, <1>3 DEF Core, IntentFits
  <2> QED
    BY <1>0, <2>1, <2>2 DEF Core, IntentFits, Consistent
<1>5. ActivationFits'
  <2>1. \A q \in Runs : phase'[q] = "activating" <=> phase[q] = "activating"
    BY <1>0 DEF Fits
  <2> QED
    BY <1>0, <1>3, <2>1, JobCases DEF Core, ActivationFits, Consistent
<1>6. FinalizationFits'
  <2>1. \A q \in Runs : phase[q] \in {"finalizing", "over"} => phase'[q] \in {"finalizing", "over"}
    BY <1>0 DEF Fits
  <2> QED
    BY <1>0, <1>3, <2>1, JobCases, RecordCases DEF Core, FinalizationFits
<1> QED
  BY <1>1, <1>2, <1>4, <1>5, <1>6 DEF Core

\* A step that moves the task and leaves the files.
LEMMA QuietMove ==
    ASSUME IInv, NEW r \in Runs, NEW to \in Phase, UNCHANGED <<files, job, store, faults>>,
           phase' = [phase EXCEPT ![r] = to], phase[r] \notin {"new", "over"},
           Fits(phase[r], runs[r].state, to, runs[r].state)
    PROVE  Core'
<1>1. store = "up"
  BY DEF IInv, RecordsFit
<1>2. RunStep(r)
  BY <1>1 DEF RunStep, files, IInv, TypeOK
<1> QED
  BY <1>2, RunStepCore DEF IInv, Core

\* A step that leaves files and phases.
LEMMA QuietCore ==
    ASSUME IInv, UNCHANGED <<files, job, store, faults, phase>>
    PROVE  Core'
BY DEF IInv, Core, files, RecordsFit, AgentsFit, IntentFits, ActivationFits, FinalizationFits,
   Consistent

\* The steps of a task that write no file keep the core.
LEMMA TaskCore ==
    ASSUME IInv, NEW r \in Runs,
           \/ Reserve(r) \/ Claim(r) \/ Take(r) \/ Load(r) \/ GiveBack(r) \/ Reregister(r)
           \/ Requeue(r) \/ CheckTurn(r) \/ EnterTurn(r) \/ EndTurn(r) \/ Timeout(r)
           \/ EndDesktop(r) \/ EndUnrecorded(r) \/ Release(r) \/ Close(r)
           \/ RemovePending(r) \/ ReleaseSlot(r) \/ ReleaseReservation(r)
    PROVE  Core'
<1> DEFINE P == phase[r]
           S == runs[r].state
<1>0. /\ StateFits(P, S) /\ phase \in [Runs -> Phase]
      /\ store = "up" => (S = "Running" => P \in Executing)
      /\ store # "up" => P \in {"new", "over"}
      /\ r \in claimed => P \in {"waiting", "requeue"}
      /\ r \in ToSet(queue) => P = "waiting"
  BY DEF IInv, RecordsFit, TypeOK, QueuesFit
<1> USE DEF Active, Unwritten, Queueing, Executing, Activated, StateFits, Fits
<1>1. ASSUME NEW to \in Phase, UNCHANGED <<files, job, store, faults>>,
             phase' = [phase EXCEPT ![r] = to], P \notin {"new", "over"}, Fits(P, S, to, S)
      PROVE  Core'
  BY <1>1, QuietMove
<1>2. CASE Claim(r) \/ RemovePending(r) \/ ReleaseSlot(r) \/ ReleaseReservation(r)
  <2>1. UNCHANGED <<files, job, store, faults, phase>>
    BY <1>2 DEF Claim, RemovePending, ReleaseSlot, ReleaseReservation
  <2> QED
    BY <2>1, QuietCore
<1>3. CASE Reserve(r) \/ Requeue(r) \/ GiveBack(r) \/ Reregister(r) \/ Load(r)
  <2>1. UNCHANGED <<files, job, store, faults>>
    BY <1>3, Zenon DEF Reserve, Requeue, GiveBack, Reregister, Load
  <2>2. \E to \in {"reserved", "toqueue", "waiting", "reregister", "requeue", "over", "loaded"} :
           /\ phase' = [phase EXCEPT ![r] = to]
           /\ \/ P = "asked" /\ to \in {"reserved", "toqueue"}
              \/ P = "requeue" /\ to = "waiting"
              \/ P = "refused" /\ to = "reregister"
              \/ P = "reregister" /\ to \in {"requeue", "over"}
              \/ P = "taken" /\ to \in {"loaded", "over"}
    BY <1>3 DEF Reserve, Requeue, GiveBack, Reregister, Load, Goes
  <2> QED
    BY <1>0, <1>1, <2>1, <2>2 DEF Phase
<1>4. CASE Take(r)
  <2>1. UNCHANGED <<files, job, store, faults>>
    BY <1>4 DEF Take
  <2>2. CASE r \in ToSet(queue)
    <3>1. P = "waiting" /\ phase' = [phase EXCEPT ![r] = "taken"]
      BY <1>0, <1>4, <2>2 DEF Take
    <3> QED
      BY <1>0, <1>1, <2>1, <3>1 DEF Phase
  <2>3. CASE r \notin ToSet(queue)
    BY <1>4, <2>1, <2>3, QuietCore DEF Take
  <2> QED
    BY <2>2, <2>3
<1>5. CASE CheckTurn(r) \/ EnterTurn(r) \/ EndTurn(r) \/ Timeout(r) \/ EndDesktop(r)
  <2>1. UNCHANGED <<files, job, store, faults>>
    BY <1>5, Zenon DEF CheckTurn, EnterTurn, EndTurn, Timeout, EndDesktop
  <2>2. \E to \in {"ready", "turn", "final"} :
           /\ phase' = [phase EXCEPT ![r] = to]
           /\ P \in {"spawned", "ready", "turn"}
    BY <1>5 DEF CheckTurn, EnterTurn, EndTurn, Timeout, EndDesktop, Goes, Ends
  <2> QED
    BY <1>0, <1>1, <2>1, <2>2 DEF Phase
<1>6. CASE EndUnrecorded(r) \/ Release(r) \/ Close(r)
  <2>1. UNCHANGED <<files, job, store, faults>>
    BY <1>6 DEF EndUnrecorded, Release, Close
  <2>2. \/ P = "unrecorded" /\ phase' = [phase EXCEPT ![r] = "closing"]
        \/ P = "checkpointed" /\ phase' = [phase EXCEPT ![r] = "closing"]
        \/ P = "closing" /\ phase' = [phase EXCEPT ![r] = "over"]
    BY <1>6 DEF EndUnrecorded, Release, Close, Goes
  <2> QED
    BY <1>0, <1>1, <2>1, <2>2 DEF Phase
<1> QED
  BY <1>2, <1>3, <1>4, <1>5, <1>6

\* So do the steps that write the record of one Run under the lock.
LEMMA RecordCore ==
    ASSUME IInv, NEW r \in Runs,
           \/ Submit(r) \/ SaveQueued(r) \/ Enqueue(r) \/ CheckSpec(r) \/ BeginDesktop(r)
           \/ Observe(r) \/ MarkCancelled(r)
    PROVE  Core'
<1> DEFINE P == phase[r]
           S == runs[r].state
<1>0. /\ StateFits(P, S) /\ phase \in [Runs -> Phase] /\ runs \in [Runs -> Run]
      /\ store = "up" => (S = "Running" => P \in Executing)
      /\ phase[r] \in Phase
  BY DEF IInv, RecordsFit, TypeOK
<1>1. /\ LockFree /\ store = "up" /\ UNCHANGED <<agents, intent, final, job, store, faults>>
  BY Zenon DEF Submit, SaveQueued, Enqueue, CheckSpec, BeginDesktop, Observe, MarkCancelled, LockFree
<1>2. ASSUME NEW to \in Phase, phase' = [phase EXCEPT ![r] = to],
             runs' = runs \/ (\E x : runs' = [runs EXCEPT ![r] = x]),
             Fits(P, S, to, runs'[r].state)
      PROVE  Core'
  <2>1. RunStep(r)
    BY <1>0, <1>1, <1>2 DEF RunStep
  <2> QED
    BY <2>1, RunStepCore DEF IInv, Core
<1>3. phase = [phase EXCEPT ![r] = phase[r]]
  BY <1>0
<1> USE DEF Active, Unwritten, Queueing, Executing, Activated, StateFits, Fits
<1>4. CASE Submit(r) \/ BeginDesktop(r)
  <2>1. runs' = [runs EXCEPT ![r].spec = agents[AgentOf[r]].spec]
    BY <1>4 DEF Submit, BeginDesktop
  <2>2. \E x : runs' = [runs EXCEPT ![r] = x]
    BY <2>1
  <2>3. runs'[r].state = S
    BY <1>0, <2>1 DEF Run
  <2>4. \E to \in {"asked", "toqueue", "begun"} : P = "new" /\ phase' = [phase EXCEPT ![r] = to]
    BY <1>4 DEF Submit, BeginDesktop, Goes
  <2> QED
    BY <1>0, <1>2, <2>2, <2>3, <2>4 DEF Phase
<1>5. CASE SaveQueued(r) \/ MarkCancelled(r)
  <2>1. \E s \in {"Queued", "Cancelled"} :
           /\ runs' = [runs EXCEPT ![r].state = s]
           /\ \/ s = "Queued" /\ P = "toqueue" /\ phase' = [phase EXCEPT ![r] = "saved"]
              \/ s = "Cancelled" /\ S \in {"Queued", "Running"} /\ phase' = phase
    BY <1>5 DEF SaveQueued, MarkCancelled, SetState, Goes
  <2>2. \E x : runs' = [runs EXCEPT ![r] = x]
    BY <2>1
  <2>3. runs'[r].state \in {"Queued", "Cancelled"}
    BY <1>0, <2>1 DEF Run
  <2>4. CASE SaveQueued(r)
    <3>1. P = "toqueue" /\ phase' = [phase EXCEPT ![r] = "saved"]
      BY <2>4 DEF SaveQueued, Goes
    <3> QED
      BY <1>0, <1>2, <2>2, <2>3, <3>1 DEF Phase
  <2>5. CASE MarkCancelled(r)
    <3>1. S \in {"Queued", "Running"} /\ phase' = phase /\ runs'[r].state = "Cancelled"
      BY <1>0, <2>5 DEF MarkCancelled, SetState, Run
    <3> QED
      BY <1>0, <1>1, <1>2, <1>3, <2>2, <3>1 DEF Terminal
  <2> QED
    BY <1>5, <2>4, <2>5
<1>6. CASE Enqueue(r) \/ CheckSpec(r)
  <2>1. \/ runs' = runs
        \/ runs' = [runs EXCEPT ![r].state = "Failed"]
    BY <1>6, Zenon DEF Enqueue, CheckSpec, SetState
  <2>2. runs' = runs \/ \E x : runs' = [runs EXCEPT ![r] = x]
    BY <2>1
  <2>3. \/ runs' = runs /\ P = "saved" /\ phase' = [phase EXCEPT ![r] = "waiting"]
        \/ runs' = runs /\ P = "loaded" /\ phase' = [phase EXCEPT ![r] = "checked"]
        \/ /\ runs' = [runs EXCEPT ![r].state = "Failed"] /\ P \in {"saved", "loaded"}
           /\ phase' = [phase EXCEPT ![r] = "over"]
    BY <1>6 DEF Enqueue, CheckSpec, SetState, Goes
  <2>4. runs' = [runs EXCEPT ![r].state = "Failed"] => runs'[r].state = "Failed"
    BY <1>0 DEF Run
  <2> QED
    BY <1>0, <1>2, <2>2, <2>3, <2>4 DEF Phase
<1>7. CASE Observe(r)
  <2>1. \E x : runs' = [runs EXCEPT ![r] = x]
    BY <1>7 DEF Observe
  <2>2. runs'[r].state = S /\ phase' = phase
    BY <1>0, <1>7 DEF Observe, Run
  <2> QED
    BY <1>0, <1>1, <1>2, <1>3, <2>1, <2>2
<1> QED
  BY <1>4, <1>5, <1>6, <1>7


\* Without the lock held, an intent on disk is one whose removal failed.
LEMMA UnlockedIntent ==
    ASSUME IInv, LockFree, intent # NoIntent
    PROVE  faults # 0
BY JobCases DEF IInv, IntentFits, LockFree

\* Where the task is whose activation is under the lock.
LEMMA ActivationPhase ==
    ASSUME IInv, job.kind = "activate"
    PROVE  /\ job.run \in Runs /\ intent \in Intent /\ intent.run = job.run
           /\ phase[job.run] \in {"activating", "over"}
           /\ store = "up" <=> phase[job.run] = "activating"
           /\ intent.to.state = "Running" /\ intent.to.obs = intent.prior.obs
           /\ intent.prior.state \in {"absent", "Queued"}
           /\ intent.to \in Run /\ intent.agent \in Agent /\ intent.agent.current = job.run
           /\ AgentOf[job.run] \in Agents
<1>1. job.run \in Runs /\ intent \in Intent /\ intent.run = job.run
  BY JobCases, RecordCases DEF IInv, ActivationFits
<1>2. phase[job.run] \in Activated
  BY <1>1, RecordCases DEF IInv, IntentFits
<1>3. store = "up" => phase[job.run] = "activating"
  BY DEF IInv, ActivationFits
<1>4. store # "up" => phase[job.run] = "over"
  BY <1>1, <1>2 DEF IInv, RecordsFit, Activated, Active
<1>5. /\ intent.prior.state \in {"absent", "Queued"}
      /\ intent.to = [intent.prior EXCEPT !.state = "Running"]
      /\ intent.agent.current = intent.run
  BY <1>1, RecordCases DEF IInv, IntentFits
<1>6. intent.to \in Run /\ intent.prior \in Run /\ intent.agent \in Agent
  BY <1>1 DEF Intent
<1>7. intent.to.state = "Running" /\ intent.to.obs = intent.prior.obs
  BY <1>5, <1>6 DEF Run
<1> QED
  BY <1>1, <1>3, <1>4, <1>5, <1>6, <1>7, RunsAssumption

\* An activation that is refused, or that begins with its intent.
LEMMA BeginCore ==
    ASSUME IInv, NEW r \in Runs, Activate(r) \/ Promote(r)
    PROVE  Core'
<1>0. /\ LockFree /\ store = "up" /\ job.kind = "none" /\ TypeOK
      /\ UNCHANGED <<runs, agents, final, store, faults>>
  BY Shapes, Zenon DEF Activate, Promote, LockFree, IInv
<1>1. CASE UNCHANGED <<intent, job>>
  <2>1. UNCHANGED <<files, job, store, faults>>
    BY <1>0, <1>1 DEF files
  <2>2. \E to \in {"over", "unrecorded", "refused"} :
           /\ phase' = [phase EXCEPT ![r] = to]
           /\ \/ phase[r] = "reserved" /\ to = "over"
              \/ phase[r] = "begun" /\ to = "unrecorded"
              \/ phase[r] = "checked" /\ to = "refused"
    <3>1. ~WriteIntent(r)
      BY <1>0, <1>1, IntentTypes
    <3> QED
      BY <3>1 DEF Activate, Promote, Goes
  <2>3. runs[r].state = "Running" => phase[r] \in Executing
    BY <1>0 DEF IInv, RecordsFit
  <2>4. StateFits(phase[r], runs[r].state)
    BY DEF IInv, RecordsFit
  <2> QED
    BY <2>1, <2>2, <2>3, <2>4, QuietMove
       DEF Phase, Fits, StateFits, Active, Unwritten, Queueing, Executing, Activated
<1>2. CASE WriteIntent(r)
  <2>1. /\ phase[r] \in {"reserved", "begun", "checked"}
        /\ phase' = [phase EXCEPT ![r] = "activating"]
        /\ phase[r] = "checked" => runs[r].state = "Queued"
    <3>1. ~UNCHANGED <<intent, job>>
      BY <1>0, <1>2, IntentTypes
    <3> QED
      BY <3>1 DEF Activate, Promote, Goes
  <2>2. runs[r].state \in {"absent", "Queued"} /\ runs[r] \in Run
    <3>1. StateFits(phase[r], runs[r].state) /\ runs[r] \in Run
      BY DEF IInv, RecordsFit, TypeOK
    <3>2. CASE Activate(r)
      BY <3>1, <3>2, <1>0, <1>2, IntentTypes DEF Activate, Goes, StateFits, Unwritten
    <3>3. CASE Promote(r)
      BY <3>1, <3>3, <1>0, <1>2, IntentTypes DEF Promote
    <3> QED
      BY <3>1, <3>2, <3>3
  <2>3. Activatable(r)
    <3>1. ~UNCHANGED <<intent, job>>
      BY <1>0, <1>2, IntentTypes
    <3> QED
      BY <3>1 DEF Activate, Promote
  <2>4. phase \in [Runs -> Phase]
    BY <1>0 DEF TypeOK
  <2>5. RecordsFit'
    BY <1>0, <2>1, <2>2, <2>4
       DEF IInv, RecordsFit, StateFits, Unwritten, Queueing, Executing
  <2>6. AgentsFit'
    <3>1. \A q \in Runs : phase'[q] \in Active <=> phase[q] \in Active
      BY <2>1, <2>4 DEF Active
    <3>2. \A a \in Agents : agents[a].current # None => agents[a].current \in Runs
      BY <1>0 DEF TypeOK, Agent
    <3>3. ASSUME NEW q PROVE job # [kind |-> "activate", run |-> q, step |-> "clear"]
      BY <1>0
    <3> QED
      BY <1>0, <3>1, <3>2, <3>3 DEF IInv, AgentsFit
  <2>7. IntentFits'
    <3>1. phase'[r] = "activating" /\ "activating" \in Activated
      BY <2>1, <2>4 DEF Activated
    <3>2. Consistent(intent')
      BY <1>0, <1>2, <2>3, IntentTypes DEF Consistent, Activatable
    <3>3. Consistent(intent)'
      BY <1>0, <3>2 DEF Consistent
    <3> QED
      BY <1>0, <1>2, <2>2, <3>1, <3>3, IntentTypes DEF IntentFits
  <2>8. ActivationFits'
    <3>1. Consistent(intent)'
      BY <1>0, <1>2, <2>3, IntentTypes DEF Consistent, Activatable
    <3>2. \A q \in Runs : phase[q] # "activating"
      BY <1>0 DEF IInv, ActivationFits
    <3>3. intent' # NoIntent
      BY <1>0, <1>2, IntentTypes, Shapes
    <3> QED
      BY <1>0, <1>2, <2>1, <2>4, <3>1, <3>2, <3>3, IntentTypes DEF ActivationFits
  <2>9. FinalizationFits'
    BY <1>0, <1>2, <2>1, <2>4, IntentTypes, RecordCases DEF IInv, FinalizationFits
  <2> QED
    BY <2>5, <2>6, <2>7, <2>8, <2>9 DEF Core
<1> QED
  BY <1>1, <1>2, Zenon DEF Activate, Promote


\* The three writes of an activation, in a running store and in recovery.
LEMMA ActivationCore ==
    ASSUME IInv, InstallRun \/ InstallAgent \/ ClearIntent
    PROVE  Core'
<1> DEFINE R == job.run
<1>0. /\ job.kind = "activate" /\ R \in Runs /\ intent \in Intent /\ intent.run = R
      /\ phase[R] \in {"activating", "over"}
      /\ store = "up" <=> phase[R] = "activating"
      /\ intent # NoIntent /\ Consistent(intent)
  BY ActivationPhase DEF InstallRun, InstallAgent, ClearIntent, At, IInv, ActivationFits
<1>1. /\ intent.to.state = "Running" /\ intent.prior.state \in {"absent", "Queued"}
      /\ intent.to \in Run /\ intent.agent \in Agent /\ intent.agent.current = R
      /\ AgentOf[R] \in Agents
  BY <1>0, ActivationPhase
<1>2. /\ runs \in [Runs -> Run] /\ agents \in [Agents -> Agent] /\ phase \in [Runs -> Phase]
      /\ job \in Job /\ faults \in Nat /\ TypeOK
      /\ \A a \in Agents : agents[a].current \in Runs \cup {None}
  BY <1>0, JobCases, RunsAssumption DEF IInv, TypeOK, Agent
<1>3. CASE InstallRun
  <2>1. /\ runs' = [runs EXCEPT ![R] = intent.to] /\ job.step = "run"
        /\ job' = [job EXCEPT !.step = "agent"]
        /\ UNCHANGED <<agents, intent, final, phase, store, faults>>
    BY <1>3 DEF InstallRun, At
  <2>2. job'.kind = "activate" /\ job'.run = R /\ job'.step = "agent"
    BY <1>0, <1>2, <2>1 DEF Job
  <2>3. RecordsFit'
    BY <1>0, <1>1, <1>2, <2>1
       DEF IInv, RecordsFit, StateFits, Unwritten, Queueing, Executing
  <2>4. AgentsFit'
    <3>1. ASSUME NEW q PROVE job # [kind |-> "activate", run |-> q, step |-> "clear"]
      BY <2>1
    <3>2. \A q \in Runs : runs[q].state # "absent" => runs'[q].state # "absent"
      BY <1>1, <1>2, <2>1
    <3> QED
      BY <1>2, <2>1, <3>1, <3>2 DEF IInv, AgentsFit
  <2>5. Consistent(intent)' /\ runs'[R] = intent.to
    BY <1>0, <1>2, <2>1 DEF Consistent
  <2>6. IntentFits'
    BY <1>0, <2>1, <2>2, <2>5 DEF IInv, IntentFits
  <2>7. ActivationFits'
    BY <1>0, <2>1, <2>2, <2>5 DEF IInv, ActivationFits
  <2>8. FinalizationFits'
    BY <2>1, <2>2 DEF IInv, FinalizationFits
  <2> QED
    BY <2>3, <2>4, <2>6, <2>7, <2>8 DEF Core
<1>4. CASE InstallAgent
  <2>1. /\ agents' = [agents EXCEPT ![AgentOf[R]] = intent.agent] /\ job.step = "agent"
        /\ job' = [job EXCEPT !.step = "clear"]
        /\ UNCHANGED <<runs, intent, final, phase, store, faults>>
    BY <1>4 DEF InstallAgent, At
  <2>2. /\ job' = [kind |-> "activate", run |-> R, step |-> "clear"]
    BY <1>0, <1>2, <2>1 DEF Job
  <2>3. runs[R] = intent.to /\ agents[AgentOf[R]].current \in {None, R}
    BY <1>0, <2>1 DEF IInv, ActivationFits, Consistent
  <2>4. RecordsFit'
    BY <2>1 DEF IInv, RecordsFit
  <2>5. AgentsFit'
    <3>1. ASSUME NEW q PROVE job # [kind |-> "activate", run |-> q, step |-> "clear"]
      BY <2>1
    <3>2. ASSUME NEW q \in Runs, phase[q] \in Active PROVE agents'[AgentOf[q]].current = q
      <4>1. agents[AgentOf[q]].current = q /\ q # None /\ q # R
        BY <1>0, <3>2, RunsAssumption DEF IInv, AgentsFit, Active
      <4>2. AgentOf[q] # AgentOf[R]
        BY <2>3, <4>1
      <4> QED
        BY <1>2, <2>1, <4>1, <4>2, RunsAssumption
    <3>3. ASSUME NEW a \in Agents, a # AgentOf[R], agents'[a].current # None
          PROVE  LET q == agents'[a].current IN
                 /\ AgentOf[q] = a /\ runs'[q].state # "absent"
                 /\ store' = "up" => phase'[q] \in Active
      BY <1>2, <2>1, <3>1, <3>3 DEF IInv, AgentsFit
    <3>4. agents'[AgentOf[R]].current = R
      BY <1>1, <1>2, <2>1
    <3>5. ASSUME NEW a \in Agents, agents'[a].current # None
          PROVE  LET q == agents'[a].current IN
                 /\ AgentOf[q] = a /\ runs'[q].state # "absent"
                 /\ store' = "up" =>
                       \/ phase'[q] \in Active
                       \/ job' = [kind |-> "activate", run |-> q, step |-> "clear"]
      <4>1. CASE a = AgentOf[R]
        <5>1. agents'[a].current = R
          BY <3>4, <4>1
        <5>2. AgentOf[R] = a /\ runs'[R].state # "absent"
          BY <1>1, <2>1, <2>3, <4>1
        <5> QED
          BY <2>2, <5>1, <5>2
      <4> QED
        BY <3>3, <3>5, <4>1
    <3> QED
      BY <2>1, <3>2, <3>5, Zenon DEF AgentsFit
  <2>6. Consistent(intent)' /\ agents'[AgentOf[R]] = intent.agent
    BY <1>0, <1>1, <1>2, <2>1, <2>3 DEF Consistent
  <2>7. IntentFits'
    BY <1>0, <2>1, <2>2, <2>6 DEF IInv, IntentFits
  <2>8. ActivationFits'
    BY <1>0, <1>1, <2>1, <2>2, <2>3, <2>6 DEF IInv, ActivationFits
  <2>9. FinalizationFits'
    BY <2>1, <2>2 DEF IInv, FinalizationFits
  <2> QED
    BY <2>4, <2>5, <2>7, <2>8, <2>9 DEF Core
<1>5. CASE ClearIntent
  <2>1. /\ job.step = "clear" /\ job' = NoJob /\ UNCHANGED <<runs, agents, final, store>>
        /\ \/ intent' = NoIntent /\ faults' = faults
           \/ intent' = intent /\ faults' = faults + 1 /\ store = "up"
    BY <1>5 DEF ClearIntent, At
  <2>2. runs[R] = intent.to /\ agents[AgentOf[R]].current = R
    BY <1>0, <2>1 DEF IInv, ActivationFits
  <2>3. /\ store = "up" => \E to \in {"turn", "spawned"} : phase' = [phase EXCEPT ![R] = to]
        /\ store # "up" => phase' = phase
    BY <1>0, <1>5 DEF ClearIntent
  <2>4. /\ \A q \in Runs \ {R} : phase'[q] = phase[q]
        /\ store = "up" => phase'[R] \in {"turn", "spawned"}
        /\ store # "up" => phase'[R] = "over"
    BY <1>0, <1>2, <2>3
  <2>5. RecordsFit'
    BY <1>1, <2>1, <2>2, <2>4
       DEF IInv, RecordsFit, StateFits, Unwritten, Queueing, Executing, Active
  <2>6. AgentsFit'
    <3>1. \A q \in Runs : phase'[q] \in Active => phase[q] \in Active \/ q = R
      BY <2>4
    <3>2. ASSUME NEW q \in Runs, store = "up",
                 phase[q] \in Active \/ job = [kind |-> "activate", run |-> q, step |-> "clear"]
          PROVE  phase'[q] \in Active
      <4>1. q = R \/ phase[q] \in Active
        BY <3>2
      <4> QED
        BY <2>4, <3>2, <4>1 DEF Active
    <3> QED
      BY <1>2, <2>1, <2>2, <3>1, <3>2 DEF IInv, AgentsFit
  <2>7. IntentFits'
    <3>1. CASE intent' = NoIntent
      BY <3>1 DEF IntentFits
    <3>2. CASE intent' = intent /\ faults' = faults + 1 /\ store = "up"
      <4>1. phase'[intent.run] \in Activated
        BY <1>0, <2>4, <3>2 DEF Activated, Active
      <4>2. faults' # 0
        BY <1>2, <3>2
      <4> QED
        BY <1>0, <3>2, <4>1, <4>2 DEF IInv, IntentFits
    <3> QED
      BY <2>1, <3>1, <3>2
  <2>8. ActivationFits'
    <3>1. \A q \in Runs : phase'[q] # "activating"
      BY <2>4 DEF IInv, ActivationFits
    <3> QED
      BY <2>1, <3>1, Shapes DEF ActivationFits
  <2>9. FinalizationFits'
    <3>1. final # NoCandidate => phase'[final.run] \in {"finalizing", "over"}
      BY <1>0, <1>2, <2>4, RecordCases DEF IInv, FinalizationFits
    <3> QED
      BY <2>1, <3>1, Shapes DEF FinalizationFits
  <2> QED
    BY <2>5, <2>6, <2>7, <2>8, <2>9 DEF Core
<1> QED
  BY <1>3, <1>4, <1>5


\* A finalization under the lock: its Run, its candidate and where its task is.
LEMMA FinalizationPhase ==
    ASSUME IInv, job.kind = "finalize"
    PROVE  /\ job.run \in Runs /\ cand[job.run] \in Candidate /\ cand[job.run].run = job.run
           /\ phase[job.run] \in {"finalizing", "over"}
           /\ job.step \in {"run", "clear"} =>
                 /\ final \in Candidate /\ final # NoCandidate /\ final.run = job.run
                 /\ final.state \in Terminal /\ final.obs \in Nat
                 /\ Covers(final, runs[job.run])
<1>1. job.run \in Runs /\ cand[job.run] \in Candidate /\ cand[job.run].run = job.run
  BY JobCases, RecordCases DEF IInv, CandidatesFit
<1>2. phase[job.run] \in {"finalizing", "over"}
  BY DEF IInv, FinalizationFits
<1>3. ASSUME job.step \in {"run", "clear"}
      PROVE  /\ final \in Candidate /\ final # NoCandidate /\ final.run = job.run
             /\ Covers(final, runs[job.run])
  BY <1>3, RecordCases DEF IInv, FinalizationFits
<1>4. ASSUME job.step \in {"run", "clear"} PROVE final.state \in Terminal /\ final.obs \in Nat
  BY <1>3, <1>4, RunsAssumption DEF Candidate
<1> QED
  BY <1>1, <1>2, <1>3, <1>4

\* The start of a finalization, which retires the activation of its Run.
LEMMA FinalizeCore ==
    ASSUME IInv, NEW r \in Runs, Finalize(r)
    PROVE  Core'
<1>0. /\ LockFree /\ store = "up" /\ job.kind = "none" /\ TypeOK /\ phase \in [Runs -> Phase]
      /\ phase[r] = "final" /\ phase' = [phase EXCEPT ![r] = "finalizing"]
      /\ UNCHANGED <<runs, agents, final, store, faults>>
      /\ intent' = intent \/ intent' = NoIntent
      /\ cand[r].run = r
  <2>1. cand[r] # NoCandidate
    BY DEF Finalize, Goes, IInv, CandidatesFit
  <2>2. intent' = intent \/ intent' = NoIntent
    BY Zenon DEF Finalize, Retire
  <2> QED
    BY <2>1, <2>2, Shapes DEF Finalize, Goes, LockFree, IInv, CandidatesFit, TypeOK
<1>1. job' = [kind |-> "finalize", run |-> r, step |-> "seal"]
  BY <1>0 DEF Finalize, Retire
<1>2. RecordsFit'
  BY <1>0 DEF IInv, RecordsFit, StateFits, Unwritten, Queueing, Executing, Active
<1>3. AgentsFit'
  <2>1. \A q \in Runs : phase'[q] \in Active <=> phase[q] \in Active
    BY <1>0 DEF Active
  <2>2. \A a \in Agents : agents[a].current # None => agents[a].current \in Runs
    BY <1>0 DEF TypeOK, Agent
  <2>3. ASSUME NEW q PROVE job # [kind |-> "activate", run |-> q, step |-> "clear"]
    BY <1>0
  <2> QED
    BY <1>0, <2>1, <2>2, <2>3 DEF IInv, AgentsFit
<1>4. IntentFits'
  <2>1. ASSUME intent # NoIntent PROVE faults # 0 /\ phase'[intent.run] \in Activated
    <3>1. intent.run \in Runs /\ faults # 0
      BY <1>0, <2>1, RecordCases, UnlockedIntent
    <3> QED
      BY <1>0, <2>1, <3>1 DEF IInv, IntentFits, Activated, Active
  <2> QED
    BY <1>0, <2>1 DEF IInv, IntentFits
<1>5. ActivationFits'
  BY <1>0, <1>1 DEF IInv, ActivationFits
<1>6. FinalizationFits'
  BY <1>0, <1>1, RecordCases DEF IInv, FinalizationFits
<1> QED
  BY <1>2, <1>3, <1>4, <1>5, <1>6 DEF Core

\* The three writes of a finalization, in a running store and in recovery.
LEMMA FinalizationCore ==
    ASSUME IInv, Seal \/ InstallFinal \/ ClearFinal
    PROVE  Core'
<1> DEFINE R == job.run
<1>0. /\ job.kind = "finalize" /\ R \in Runs /\ cand[R] \in Candidate /\ cand[R].run = R
      /\ phase[R] \in {"finalizing", "over"} /\ TypeOK /\ job \in Job
      /\ runs \in [Runs -> Run] /\ phase \in [Runs -> Phase]
      /\ \A a \in Agents : agents[a].current \in Runs \cup {None}
  BY FinalizationPhase, JobCases
     DEF Seal, InstallFinal, ClearFinal, At, IInv, TypeOK, Agent
<1>1. UNCHANGED <<agents, intent, store, faults>>
  BY DEF Seal, InstallFinal, ClearFinal
<1>2. ASSUME NEW q PROVE job # [kind |-> "activate", run |-> q, step |-> "clear"]
  BY <1>0
<1>3. intent # NoIntent => faults # 0
  BY <1>0, Shapes DEF IInv, IntentFits
<1>4. \A q \in Runs : phase[q] # "activating"
  BY <1>0 DEF IInv, ActivationFits
<1>5. CASE Seal
  <2>1. /\ job.step = "seal" /\ job' = [job EXCEPT !.step = "run"] /\ final' = Merged(cand[R])
        /\ UNCHANGED <<runs, phase>>
    BY <1>5 DEF Seal, At
  <2>2. job'.kind = "finalize" /\ job'.run = R /\ job'.step = "run"
    BY <1>0, <2>1 DEF Job
  <2>3. final' # NoCandidate /\ final'.run = R /\ Covers(final', runs[R])
    BY <1>0, <2>1, MergedTypes, Shapes
  <2>4. RecordsFit'
    BY <1>1, <2>1 DEF IInv, RecordsFit
  <2>5. AgentsFit'
    BY <1>0, <1>1, <1>2, <2>1 DEF IInv, AgentsFit
  <2>6. IntentFits'
    BY <1>1, <1>3, <2>1 DEF IInv, IntentFits
  <2>7. ActivationFits'
    BY <1>4, <2>1, <2>2 DEF ActivationFits
  <2>8. FinalizationFits'
    BY <1>0, <2>1, <2>2, <2>3 DEF FinalizationFits
  <2> QED
    BY <2>4, <2>5, <2>6, <2>7, <2>8 DEF Core
<1>6. CASE InstallFinal
  <2>1. /\ job.step = "run" /\ job' = [job EXCEPT !.step = "clear"]
        /\ runs' = [runs EXCEPT ![R].state = final.state, ![R].obs = final.obs]
        /\ UNCHANGED <<final, phase>>
    BY <1>6 DEF InstallFinal, At
  <2>2. job'.kind = "finalize" /\ job'.run = R /\ job'.step = "clear"
    BY <1>0, <2>1 DEF Job
  <2>3. /\ final # NoCandidate /\ final.run = R /\ final.state \in Terminal /\ final.obs \in Nat
    BY <1>0, <2>1, FinalizationPhase
  <2>4. /\ \A q \in Runs \ {R} : runs'[q] = runs[q]
        /\ runs'[R].state = final.state /\ runs'[R].obs = final.obs
    BY <1>0, <2>1 DEF Run
  <2>5. RecordsFit'
    BY <1>0, <1>1, <2>1, <2>3, <2>4
       DEF IInv, RecordsFit, StateFits, Unwritten, Queueing, Terminal
  <2>6. AgentsFit'
    <3>1. \A q \in Runs : runs[q].state # "absent" => runs'[q].state # "absent"
      BY <2>3, <2>4 DEF Terminal
    <3> QED
      BY <1>0, <1>1, <1>2, <2>1, <3>1 DEF IInv, AgentsFit
  <2>7. IntentFits'
    BY <1>1, <1>3, <2>1 DEF IInv, IntentFits
  <2>8. ActivationFits'
    BY <1>4, <2>1, <2>2 DEF ActivationFits
  <2>9. FinalizationFits'
    <3>1. Covers(final, runs'[R])
      BY <2>3, <2>4 DEF Covers
    <3> QED
      BY <1>0, <2>1, <2>2, <2>3, <2>4, <3>1 DEF FinalizationFits
  <2> QED
    BY <2>5, <2>6, <2>7, <2>8, <2>9 DEF Core
<1>7. CASE ClearFinal
  <2>1. /\ job.step = "clear" /\ job' = NoJob /\ final' = NoCandidate /\ UNCHANGED runs
        /\ \/ phase[R] = "finalizing" /\ phase' = [phase EXCEPT ![R] = "finalized"]
           \/ phase[R] = "over" /\ phase' = phase
    BY <1>0, <1>7 DEF ClearFinal, At
  <2>2. runs[R].state \in Terminal
    BY <1>0, <2>1, FinalizationPhase DEF IInv, FinalizationFits
  <2>3. /\ \A q \in Runs \ {R} : phase'[q] = phase[q]
        /\ phase'[R] \in {"finalized", "over"}
        /\ phase'[R] = "over" <=> phase[R] = "over"
    BY <1>0, <2>1
  <2>4. RecordsFit'
    BY <1>1, <2>1, <2>2, <2>3
       DEF IInv, RecordsFit, StateFits, Unwritten, Queueing, Terminal
  <2>5. AgentsFit'
    <3>1. \A q \in Runs : phase'[q] \in Active <=> phase[q] \in Active
      BY <1>0, <2>1, <2>3 DEF Active
    <3> QED
      BY <1>0, <1>1, <1>2, <2>1, <3>1 DEF IInv, AgentsFit
  <2>6. IntentFits'
    <3>1. intent # NoIntent => phase'[intent.run] \in Activated
      BY <1>0, <2>1, <2>3, RecordCases DEF IInv, IntentFits, Activated, Active
    <3> QED
      BY <1>1, <1>3, <3>1 DEF IInv, IntentFits
  <2>7. ActivationFits'
    BY <1>4, <2>1, <2>3, Shapes DEF ActivationFits
  <2>8. FinalizationFits'
    BY <2>1, Shapes DEF FinalizationFits
  <2> QED
    BY <2>4, <2>5, <2>6, <2>7, <2>8 DEF Core
<1> QED
  BY <1>5, <1>6, <1>7

\* The steps that write an Agent: its checkpoint, a revision, and the release in recovery.
LEMMA AgentCore ==
    ASSUME IInv,
           \/ \E r \in Runs : Checkpoint(r)
           \/ \E a \in Agents : ReviseSpec(a) \/ FreeAgent(a)
    PROVE  Core'
<1>0. /\ TypeOK /\ agents \in [Agents -> Agent] /\ phase \in [Runs -> Phase]
      /\ \A r \in Runs : AgentOf[r] \in Agents /\ r # None
      /\ \A a \in Agents : agents[a] \in Agent /\ agents[a].current \in Runs \cup {None}
      /\ UNCHANGED <<runs, intent, final, job, store, faults>> /\ job.kind = "none" /\ job = NoJob
  BY RunsAssumption, Shapes
     DEF IInv, TypeOK, Agent, Checkpoint, ReviseSpec, FreeAgent, LockFree, Recovered, Opening
<1>1. /\ \A q \in Runs : phase[q] # "activating"
      /\ \A q : job # [kind |-> "activate", run |-> q, step |-> "clear"]
  BY <1>0 DEF IInv, ActivationFits
<1>2. intent # NoIntent => faults # 0
  BY <1>0, UnlockedIntent DEF Checkpoint, ReviseSpec, FreeAgent, Recovered
<1>3. ASSUME NEW r \in Runs, Checkpoint(r) PROVE Core'
  <2>1. /\ phase[r] = "finalized" /\ phase' = [phase EXCEPT ![r] = "checkpointed"]
        /\ agents' = [agents EXCEPT ![AgentOf[r]].current = None] /\ store = "up"
    BY <1>3 DEF Checkpoint, Goes, LockFree
  <2>2. RecordsFit'
    BY <1>0, <2>1 DEF IInv, RecordsFit, StateFits, Unwritten, Queueing, Executing, Active, Terminal
  <2>3. /\ \A a \in Agents : a # AgentOf[r] => agents'[a] = agents[a]
        /\ agents'[AgentOf[r]].current = None
    BY <1>0, <2>1 DEF Agent
  <2>4. agents[AgentOf[r]].current = r
    BY <2>1 DEF IInv, AgentsFit, Active
  <2>5. AgentsFit'
    <3>1. ASSUME NEW q \in Runs, phase'[q] \in Active PROVE agents'[AgentOf[q]].current = q
      <4>1. q # r /\ phase[q] \in Active
        BY <1>0, <2>1, <3>1 DEF Active
      <4>2. agents[AgentOf[q]].current = q
        BY <4>1 DEF IInv, AgentsFit
      <4> QED
        BY <1>0, <2>3, <2>4, <4>1, <4>2
    <3>2. ASSUME NEW a \in Agents, agents'[a].current # None
          PROVE  /\ AgentOf[agents'[a].current] = a /\ runs'[agents'[a].current].state # "absent"
                 /\ phase'[agents'[a].current] \in Active
      <4>1. a # AgentOf[r] /\ agents'[a] = agents[a]
        BY <2>3, <3>2
      <4>2. /\ AgentOf[agents[a].current] = a /\ runs[agents[a].current].state # "absent"
            /\ phase[agents[a].current] \in Active /\ agents[a].current \in Runs
        BY <1>0, <1>1, <2>1, <3>2, <4>1 DEF IInv, AgentsFit
      <4> QED
        BY <1>0, <2>1, <4>1, <4>2
    <3> QED
      BY <3>1, <3>2, Zenon DEF AgentsFit
  <2>6. IntentFits'
    <3>1. intent # NoIntent => phase'[intent.run] \in Activated
      BY <1>0, <2>1, RecordCases DEF IInv, IntentFits, Activated
    <3> QED
      BY <1>0, <1>2, <3>1 DEF IInv, IntentFits
  <2>7. ActivationFits'
    BY <1>0, <1>1, <2>1 DEF ActivationFits
  <2>8. FinalizationFits'
    BY <1>0, <2>1, RecordCases DEF IInv, FinalizationFits
  <2> QED
    BY <2>2, <2>5, <2>6, <2>7, <2>8 DEF Core
<1>4. ASSUME NEW a \in Agents, ReviseSpec(a) \/ FreeAgent(a) PROVE Core'
  <2>1. /\ UNCHANGED phase
        /\ \A b \in Agents : agents'[b].current \in {agents[b].current, None}
        /\ ReviseSpec(a) => \A b \in Agents : agents'[b].current = agents[b].current
        /\ ReviseSpec(a) => store = "up"
        /\ FreeAgent(a) => store # "up"
    BY <1>0, <1>4 DEF ReviseSpec, FreeAgent, LockFree, Recovered, Opening, Agent
  <2>2. FreeAgent(a) => \A q \in Runs : phase[q] \notin Active
    BY <2>1 DEF IInv, RecordsFit, Active
  <2>3. RecordsFit'
    BY <1>0, <2>1 DEF IInv, RecordsFit
  <2>4. AgentsFit'
    <3>1. ASSUME NEW q \in Runs, phase'[q] \in Active PROVE agents'[AgentOf[q]].current = q
      BY <1>0, <1>4, <2>1, <2>2, <3>1 DEF IInv, AgentsFit
    <3>2. ASSUME NEW b \in Agents, agents'[b].current # None
          PROVE  agents'[b].current = agents[b].current /\ agents[b].current # None
      BY <2>1, <3>2
    <3> QED
      BY <1>0, <2>1, <3>1, <3>2 DEF IInv, AgentsFit
  <2>5. IntentFits'
    BY <1>0, <1>2, <2>1 DEF IInv, IntentFits
  <2>6. ActivationFits'
    BY <1>0, <1>1, <2>1 DEF ActivationFits
  <2>7. FinalizationFits'
    BY <1>0, <2>1 DEF IInv, FinalizationFits
  <2> QED
    BY <2>3, <2>4, <2>5, <2>6, <2>7 DEF Core
<1> QED
  BY <1>3, <1>4


\* A crash, and the recovery that follows it.
LEMMA RecoveryCore ==
    ASSUME IInv,
           \/ Crash \/ RecoverActivation \/ RecoverFinal \/ Opened
           \/ \E r \in Runs : Interrupt(r)
    PROVE  Core'
<1>0. /\ TypeOK /\ phase \in [Runs -> Phase] /\ runs \in [Runs -> Run]
      /\ \A a \in Agents : agents[a].current \in Runs \cup {None}
  BY DEF IInv, TypeOK, Agent
<1>1. CASE Crash
  <2>1. /\ store' = "opening" /\ job' = NoJob /\ UNCHANGED <<runs, agents, intent, final, faults>>
        /\ \A q \in Runs : phase'[q] = IF phase[q] = "new" THEN "new" ELSE "over"
    BY <1>1 DEF Crash, files
  <2>2. RecordsFit'
    BY <2>1 DEF IInv, RecordsFit, StateFits, Unwritten, Queueing
  <2>3. AgentsFit'
    BY <2>1 DEF IInv, AgentsFit, Active
  <2>4. IntentFits'
    <3>1. intent # NoIntent => phase'[intent.run] \in Activated
      BY <1>0, <2>1, RecordCases DEF IInv, IntentFits, Activated, Active
    <3>2. Consistent(intent)' = Consistent(intent)
      BY <2>1 DEF Consistent
    <3> QED
      BY <2>1, <3>1, <3>2 DEF IInv, IntentFits
  <2>5. ActivationFits'
    BY <2>1, Shapes DEF ActivationFits
  <2>6. FinalizationFits'
    BY <1>0, <2>1, Shapes, RecordCases DEF IInv, FinalizationFits
  <2> QED
    BY <2>2, <2>3, <2>4, <2>5, <2>6 DEF Core
<1>2. ASSUME Opening PROVE /\ store # "up" /\ job = NoJob /\ job.kind = "none"
                           /\ \A q \in Runs : phase[q] \in {"new", "over"}
  BY <1>2, Shapes DEF Opening, IInv, RecordsFit
<1>3. CASE RecoverActivation
  <2>1. /\ Opening /\ intent # NoIntent /\ intent.run \in Runs
        /\ UNCHANGED <<runs, agents, intent, final, phase, faults>>
        /\ \/ /\ Consistent(intent) /\ store' = store
              /\ job' = [kind |-> "activate", run |-> intent.run, step |-> "run"]
           \/ store' = "refused" /\ job' = job
    BY <1>0, <1>3, RecordCases DEF RecoverActivation, files
  <2>2. store' # "up" /\ Consistent(intent)' = Consistent(intent)
    BY <1>2, <2>1 DEF Consistent
  <2>3. RecordsFit'
    BY <1>2, <2>1, <2>2 DEF IInv, RecordsFit
  <2>4. AgentsFit'
    BY <1>2, <2>1, <2>2 DEF IInv, AgentsFit
  <2>5. IntentFits'
    BY <1>2, <2>1, <2>2 DEF IInv, IntentFits
  <2>6. ActivationFits'
    BY <1>2, <2>1, <2>2 DEF ActivationFits
  <2>7. FinalizationFits'
    BY <1>2, <2>1 DEF IInv, FinalizationFits
  <2> QED
    BY <2>3, <2>4, <2>5, <2>6, <2>7 DEF Core
<1>4. CASE RecoverFinal
  <2>1. /\ Opening /\ intent = NoIntent /\ intent' = NoIntent /\ final # NoCandidate
        /\ UNCHANGED <<runs, agents, final, phase, store, faults>>
        /\ job' = [kind |-> "finalize", run |-> final.run, step |-> "seal"]
    <3>1. intent' = NoIntent
      BY <1>4, Zenon DEF RecoverFinal, Retire
    <3> QED
      BY <1>4, <3>1 DEF RecoverFinal, Retire
  <2>2. RecordsFit'
    BY <2>1 DEF IInv, RecordsFit
  <2>3. AgentsFit'
    BY <1>2, <2>1 DEF IInv, AgentsFit
  <2>4. IntentFits'
    BY <2>1 DEF IntentFits
  <2>5. ActivationFits'
    BY <1>2, <2>1 DEF ActivationFits
  <2>6. FinalizationFits'
    BY <2>1 DEF IInv, FinalizationFits
  <2> QED
    BY <2>2, <2>3, <2>4, <2>5, <2>6 DEF Core
<1>5. CASE Opened
  <2>1. /\ Opening /\ intent = NoIntent /\ final = NoCandidate /\ store' = "up"
        /\ UNCHANGED <<runs, agents, intent, final, job, phase, faults>>
        /\ \A r \in Runs : runs[r].state \notin {"Queued", "Running"}
        /\ \A a \in Agents : agents[a].current = None
    BY <1>5 DEF Opened, Recovered, Unfinished, files
  <2>2. RecordsFit'
    BY <2>1 DEF IInv, RecordsFit
  <2>3. AgentsFit'
    BY <1>2, <2>1 DEF AgentsFit, Active
  <2> QED
    BY <1>2, <2>1, <2>2, <2>3 DEF Core, IntentFits, ActivationFits, FinalizationFits
<1>6. ASSUME NEW r \in Runs, Interrupt(r) PROVE Core'
  <2>1. /\ Opening /\ intent = NoIntent /\ final = NoCandidate
        /\ UNCHANGED <<agents, intent, final, job, phase, store, faults>>
        /\ runs[r].state \in {"Queued", "Running"}
        /\ runs' = [runs EXCEPT ![r].state = "Interrupted"]
    BY <1>6 DEF Interrupt, Recovered, Unfinished, SetState
  <2>2. /\ \A q \in Runs \ {r} : runs'[q] = runs[q]
        /\ runs'[r].state = "Interrupted"
    BY <1>0, <2>1 DEF Run
  <2>3. RecordsFit'
    BY <1>2, <2>1, <2>2 DEF IInv, RecordsFit, StateFits, Unwritten, Queueing
  <2>4. AgentsFit'
    <3>1. \A q \in Runs : runs[q].state # "absent" => runs'[q].state # "absent"
      BY <2>2
    <3> QED
      BY <1>0, <1>2, <2>1, <3>1 DEF IInv, AgentsFit
  <2> QED
    BY <1>2, <2>1, <2>3, <2>4 DEF Core, IntentFits, ActivationFits, FinalizationFits
<1> QED
  BY <1>1, <1>3, <1>4, <1>5, <1>6

\* Every step keeps the core.
LEMMA CoreStep ==
    ASSUME IInv, [Next]_vars
    PROVE  Core'
<1>1. CASE UNCHANGED vars
  BY <1>1, QuietCore DEF vars, files
<1>2. ASSUME NEW r \in Runs, Submit(r) \/ Claim(r) \/ Observe(r) \/ Drive(r) \/ DesktopTurn(r)
                             \/ CancelRun(r)
      PROVE  Core'
  BY <1>2, TaskCore, RecordCore, BeginCore, FinalizeCore, AgentCore, Zenon
     DEF Drive, DesktopTurn, CancelRun
<1>3. CASE WriteJob
  BY <1>3, ActivationCore, FinalizationCore, Zenon DEF WriteJob
<1>4. CASE Recover \/ Crash
  BY <1>4, RecoveryCore, AgentCore, Zenon DEF Recover
<1>5. ASSUME NEW a \in Agents, ReviseSpec(a) PROVE Core'
  BY <1>5, AgentCore, Zenon
<1> QED
  BY <1>1, <1>2, <1>3, <1>4, <1>5, Zenon DEF Next

\* A store whose removals succeed is never refused.
LEMMA RefusalStep ==
    ASSUME IInv, [Next]_vars
    PROVE  CrashesAreRecovered'
<1>0. faults \in Nat /\ TypeOK
  BY RunsAssumption DEF IInv, TypeOK
<1>1. ASSUME store' = store \/ store' # "refused", faults' = faults \/ faults' = faults + 1
      PROVE  CrashesAreRecovered'
  BY <1>0, <1>1 DEF IInv, CrashesAreRecovered
<1>2. CASE RecoverActivation
  <2>1. faults = 0 => Consistent(intent)
    BY <1>2 DEF RecoverActivation, IInv, IntentFits
  <2>2. faults = 0 => store' = store
    BY <1>2, <2>1, Zenon DEF RecoverActivation
  <2>3. faults' = faults
    BY <1>2 DEF RecoverActivation
  <2> QED
    BY <1>0, <2>2, <2>3 DEF IInv, CrashesAreRecovered
<1>3. CASE ~RecoverActivation
  <2>1. ASSUME NEW r \in Runs, Submit(r) \/ Claim(r) \/ Observe(r) \/ Drive(r) \/ DesktopTurn(r)
                               \/ CancelRun(r) \/ Interrupt(r)
        PROVE  UNCHANGED <<store, faults>>
    BY <2>1, Zenon DEF Submit, Claim, Observe, Drive, DesktopTurn, Interrupt, Reserve, SaveQueued,
       Enqueue, Take, Load, CheckSpec, Promote, GiveBack, Reregister, Requeue, Activate, CheckTurn,
       EnterTurn, EndTurn, Timeout, Finalize, Checkpoint, Release, Close, BeginDesktop, EndDesktop,
       EndUnrecorded, CancelRun, MarkCancelled, RemovePending, ReleaseSlot, ReleaseReservation
  <2>2. ASSUME NEW a \in Agents, ReviseSpec(a) \/ FreeAgent(a) PROVE UNCHANGED <<store, faults>>
    BY <2>2 DEF ReviseSpec, FreeAgent
  <2>3. CASE WriteJob
    <3>1. store' = store /\ (faults' = faults \/ faults' = faults + 1)
      BY <2>3 DEF WriteJob, InstallRun, InstallAgent, ClearIntent, Seal, InstallFinal, ClearFinal
    <3> QED
      BY <1>1, <3>1
  <2>4. CASE RecoverFinal \/ Opened \/ Crash \/ UNCHANGED vars
    <3>1. (store' = store \/ store' # "refused") /\ faults' = faults
      BY <2>4 DEF RecoverFinal, Opened, Crash, vars
    <3> QED
      BY <1>1, <3>1
  <2>5. CASE UNCHANGED <<store, faults>>
    BY <1>1, <2>5
  <2> QED
    BY <1>3, <2>1, <2>2, <2>3, <2>4, <2>5, Zenon DEF Next, Recover
<1> QED
  BY <1>2, <1>3

-----------------------------------------------------------------------------
(* What a step may do to a record *)

\* A record and what a step makes of it, with the phase of its task before the step.
Kept(n, m, p) ==
    /\ m.obs >= n.obs
    /\ n.state \in Terminal /\ m.state # n.state =>
          n.state = "Cancelled" /\ m.state = "Failed" /\ p \in {"saved", "loaded"}

\* Every step keeps the observations and the outcome of every Run.
LEMMA RecordsKept ==
    ASSUME IInv, [Next]_vars
    PROVE  \A r \in Runs : Kept(runs[r], runs'[r], phase[r])
<1>0. /\ TypeOK /\ runs \in [Runs -> Run]
      /\ \A r \in Runs : runs[r] \in Run /\ runs[r].obs \in Nat
  BY RunsAssumption DEF IInv, TypeOK, Run
<1>a. \A r \in Runs : \A p : Kept(runs[r], runs[r], p)
  BY <1>0 DEF Kept
<1>1. CASE UNCHANGED runs
  BY <1>1, <1>a
<1>2. ASSUME NEW r \in Runs, NEW x, runs' = [runs EXCEPT ![r] = x], Kept(runs[r], x, phase[r])
      PROVE  \A q \in Runs : Kept(runs[q], runs'[q], phase[q])
  BY <1>0, <1>a, <1>2
<1>3. ASSUME NEW r \in Runs, NEW s, runs' = [runs EXCEPT ![r].state = s],
             \/ runs[r].state \notin Terminal
             \/ runs[r].state = "Cancelled" /\ s = "Failed" /\ phase[r] \in {"saved", "loaded"}
             \/ runs[r].state = s
      PROVE  \A q \in Runs : Kept(runs[q], runs'[q], phase[q])
  <2> DEFINE x == [runs[r] EXCEPT !.state = s]
  <2>1. x.state = s /\ x.obs = runs[r].obs
    BY <1>0 DEF Run
  <2>2. runs' = [runs EXCEPT ![r] = x]
    BY <1>3
  <2> HIDE DEF x
  <2>3. Kept(runs[r], x, phase[r])
    BY <1>0, <1>3, <2>1 DEF Kept
  <2> QED
    BY <1>2, <2>2, <2>3
<1>4. ASSUME NEW r \in Runs, Submit(r) \/ BeginDesktop(r)
      PROVE  \A q \in Runs : Kept(runs[q], runs'[q], phase[q])
  <2> DEFINE x == [runs[r] EXCEPT !.spec = agents[AgentOf[r]].spec]
  <2>1. x.state = runs[r].state /\ x.obs = runs[r].obs
    BY <1>0 DEF Run
  <2>2. runs' = [runs EXCEPT ![r] = x]
    BY <1>4 DEF Submit, BeginDesktop
  <2> HIDE DEF x
  <2>3. Kept(runs[r], x, phase[r])
    BY <1>0, <2>1 DEF Kept
  <2> QED
    BY <1>2, <2>2, <2>3
<1>5. ASSUME NEW r \in Runs, Observe(r)
      PROVE  \A q \in Runs : Kept(runs[q], runs'[q], phase[q])
  <2> DEFINE x == [runs[r] EXCEPT !.obs = @ + 1]
  <2>1. x.state = runs[r].state /\ x.obs = runs[r].obs + 1
    BY <1>0 DEF Run
  <2>2. runs' = [runs EXCEPT ![r] = x]
    BY <1>5 DEF Observe
  <2> HIDE DEF x
  <2>3. Kept(runs[r], x, phase[r])
    BY <1>0, <2>1 DEF Kept
  <2> QED
    BY <1>2, <2>2, <2>3
<1>6. ASSUME NEW r \in Runs, SaveQueued(r) \/ MarkCancelled(r) \/ Interrupt(r)
      PROVE  \A q \in Runs : Kept(runs[q], runs'[q], phase[q])
  <2>1. \E s : runs' = [runs EXCEPT ![r].state = s]
    BY <1>6 DEF SaveQueued, MarkCancelled, Interrupt, SetState
  <2>2. SaveQueued(r) => runs[r].state = "absent"
    BY DEF SaveQueued, Goes, IInv, RecordsFit, StateFits, Unwritten
  <2>3. MarkCancelled(r) \/ Interrupt(r) => runs[r].state \in {"Queued", "Running"}
    BY DEF MarkCancelled, Interrupt, Unfinished
  <2>4. runs[r].state \notin Terminal
    BY <1>6, <2>2, <2>3 DEF Terminal
  <2> QED
    BY <1>3, <2>1, <2>4
<1>7. ASSUME NEW r \in Runs, Enqueue(r) \/ CheckSpec(r)
      PROVE  \A q \in Runs : Kept(runs[q], runs'[q], phase[q])
  <2>1. \/ runs' = runs
        \/ runs' = [runs EXCEPT ![r].state = "Failed"] /\ phase[r] \in {"saved", "loaded"}
    BY <1>7, Zenon DEF Enqueue, CheckSpec, SetState, Goes
  <2>2. phase[r] \in {"saved", "loaded"} => runs[r].state \in {"Queued", "Cancelled"}
    BY DEF IInv, RecordsFit, StateFits, Queueing
  <2>3. CASE runs' = runs
    BY <1>1, <2>3
  <2>4. CASE runs' = [runs EXCEPT ![r].state = "Failed"] /\ phase[r] \in {"saved", "loaded"}
    <3>1. runs[r].state \notin Terminal \/ runs[r].state = "Cancelled"
      BY <2>2, <2>4 DEF Terminal
    <3> QED
      BY <1>3, <2>4, <3>1
  <2> QED
    BY <2>1, <2>3, <2>4
<1>8. CASE InstallRun
  <2>1. job.kind = "activate" /\ runs' = [runs EXCEPT ![job.run] = intent.to]
    BY <1>8 DEF InstallRun, At
  <2>2. /\ job.run \in Runs /\ intent.to.obs = intent.prior.obs /\ intent.to.state = "Running"
        /\ intent.prior.state \in {"absent", "Queued"} /\ intent.run = job.run
    BY <2>1, ActivationPhase
  <2>3. runs[job.run] \in {intent.to, intent.prior}
    BY <2>1, <2>2 DEF IInv, ActivationFits, Consistent
  <2>4. Kept(runs[job.run], intent.to, phase[job.run])
    BY <1>0, <2>2, <2>3 DEF Kept, Terminal
  <2> QED
    BY <1>2, <2>1, <2>2, <2>4
<1>9. CASE InstallFinal
  <2>1. /\ job.kind = "finalize" /\ job.step = "run"
        /\ runs' = [runs EXCEPT ![job.run].state = final.state, ![job.run].obs = final.obs]
    BY <1>9 DEF InstallFinal, At
  <2>2. job.run \in Runs
    BY <1>0, <2>1, JobCases
  <2>3. Covers(final, runs[job.run])
    BY <2>1 DEF IInv, FinalizationFits
  <2> DEFINE x == [runs[job.run] EXCEPT !.state = final.state, !.obs = final.obs]
  <2>4. x.state = final.state /\ x.obs = final.obs
    BY <1>0, <2>2 DEF Run
  <2>5. runs' = [runs EXCEPT ![job.run] = x]
    BY <1>0, <2>1, <2>2
  <2> HIDE DEF x
  <2>6. Kept(runs[job.run], x, phase[job.run])
    BY <2>3, <2>4 DEF Kept, Covers
  <2> QED
    BY <1>2, <2>2, <2>5, <2>6
<1>10. ASSUME NEW r \in Runs,
              \/ Claim(r) \/ Reserve(r) \/ Take(r) \/ Load(r) \/ Promote(r) \/ GiveBack(r)
              \/ Reregister(r) \/ Requeue(r) \/ Activate(r) \/ CheckTurn(r) \/ EnterTurn(r)
              \/ EndTurn(r) \/ Timeout(r) \/ Finalize(r) \/ Checkpoint(r) \/ Release(r) \/ Close(r)
              \/ EndDesktop(r) \/ EndUnrecorded(r) \/ RemovePending(r) \/ ReleaseSlot(r)
              \/ ReleaseReservation(r)
       PROVE  UNCHANGED runs
  BY <1>10, Zenon DEF files, Claim, Reserve, Take, Load, Promote, GiveBack, Reregister, Requeue,
     Activate, CheckTurn, EnterTurn, EndTurn, Timeout, Finalize, Checkpoint, Release, Close,
     EndDesktop, EndUnrecorded, RemovePending, ReleaseSlot, ReleaseReservation
<1>11. CASE \/ InstallAgent \/ ClearIntent \/ Seal \/ ClearFinal \/ RecoverActivation \/ RecoverFinal
            \/ Opened \/ Crash \/ UNCHANGED vars
  <2>1. UNCHANGED runs
    BY <1>11 DEF files, vars, InstallAgent, ClearIntent, Seal, ClearFinal, RecoverActivation,
       RecoverFinal, Opened, Crash
  <2> QED
    BY <1>1, <2>1
<1>12. ASSUME NEW a \in Agents, ReviseSpec(a) \/ FreeAgent(a) PROVE UNCHANGED runs
  BY <1>12 DEF ReviseSpec, FreeAgent
<1> QED
  BY <1>1, <1>4, <1>5, <1>6, <1>7, <1>8, <1>9, <1>10, <1>11, <1>12, Zenon
     DEF Next, Drive, DesktopTurn, CancelRun, WriteJob, Recover

-----------------------------------------------------------------------------
(* Candidates *)

\* Every step keeps the candidates with their Runs.
LEMMA CandidateStep ==
    ASSUME IInv, [Next]_vars
    PROVE  CandidatesFit'
<1>0. /\ TypeOK /\ CandidatesFit /\ phase \in [Runs -> Phase]
      /\ cand \in [Runs -> Candidate \cup {NoCandidate}]
  BY DEF IInv, TypeOK
<1>1. ASSUME NEW r \in Runs, phase' = [phase EXCEPT ![r] = "final"], job' = job,
             job.kind # "finalize" \/ job.run # r \/ cand'[r] # NoCandidate,
             cand'[r] # NoCandidate, cand'[r].run = r, \A q \in Runs \ {r} : cand'[q] = cand[q]
      PROVE  CandidatesFit'
  <2>1. job.kind = "finalize" => job.run \in Runs
    BY <1>0, JobCases
  <2> QED
    BY <1>0, <1>1, <2>1 DEF CandidatesFit
<1>2. ASSUME NEW r \in Runs, NEW to, phase' = phase \/ phase' = [phase EXCEPT ![r] = to],
             to \notin {"final", "finalizing"}, cand' = cand,
             job' = job \/ job'.kind # "finalize"
      PROVE  CandidatesFit'
  BY <1>0, <1>2 DEF CandidatesFit
<1>3. CASE UNCHANGED <<phase, cand>> /\ (job' = job \/ job'.kind # "finalize")
  BY <1>0, <1>3 DEF CandidatesFit
<1>4. ASSUME NEW r \in Runs, CheckTurn(r) \/ EnterTurn(r) \/ EndTurn(r) \/ Timeout(r)
      PROVE  CandidatesFit'
  <2>1. job' = job
    BY <1>4, Zenon DEF CheckTurn, EnterTurn, EndTurn, Timeout
  <2>2. \/ \E to \in {"ready", "turn"} : phase' = [phase EXCEPT ![r] = to] /\ cand' = cand
        \/ \E from : \E state \in Terminal : Ends(r, from, state)
    <3>1. {"Failed", "LimitReached"} \cup Results \subseteq Terminal
      BY RunsAssumption DEF Terminal
    <3>2. CASE CheckTurn(r)
      BY <3>1, <3>2 DEF CheckTurn, Goes
    <3>3. CASE EnterTurn(r)
      BY <3>1, <3>3 DEF EnterTurn, Goes
    <3>4. CASE EndTurn(r) \/ Timeout(r)
      BY <3>1, <3>4 DEF EndTurn, Timeout
    <3> QED
      BY <1>4, <3>2, <3>3, <3>4
  <2>3. CASE \E to \in {"ready", "turn"} : phase' = [phase EXCEPT ![r] = to] /\ cand' = cand
    BY <1>2, <2>1, <2>3
  <2>4. ASSUME NEW from, NEW state \in Terminal, Ends(r, from, state) PROVE CandidatesFit'
    BY <1>0, <1>1, <2>1, <2>4, EndTypes
  <2> QED
    BY <2>2, <2>3, <2>4
<1>5. ASSUME NEW r \in Runs, EndDesktop(r) PROVE CandidatesFit'
  <2>1. PICK state \in Results \cup {"Cancelled"}, n \in 0..runs[r].obs :
           cand' = [cand EXCEPT ![r] = [run |-> r, state |-> state, obs |-> n]]
    BY <1>5 DEF EndDesktop
  <2> DEFINE c == [run |-> r, state |-> state, obs |-> n]
  <2>a. state \in Terminal
    BY RunsAssumption DEF Terminal
  <2>2. c \in Candidate /\ c.run = r /\ c # NoCandidate
    <3>1. c \in Candidate
      BY <1>0, <2>1, <2>a, CandidateTypes, Zenon
    <3> QED
      BY <3>1, Shapes
  <2>3. phase' = [phase EXCEPT ![r] = "final"] /\ job' = job /\ cand' = [cand EXCEPT ![r] = c]
    BY <1>5, <2>1 DEF EndDesktop, Goes
  <2> HIDE DEF c
  <2> QED
    BY <1>0, <1>1, <2>2, <2>3
<1>6. ASSUME NEW r \in Runs, Finalize(r) PROVE CandidatesFit'
  <2>1. /\ phase[r] = "final" /\ phase' = [phase EXCEPT ![r] = "finalizing"] /\ cand' = cand
        /\ job' = [kind |-> "finalize", run |-> cand[r].run, step |-> "seal"]
    BY <1>6 DEF Finalize, Goes, Retire
  <2>2. cand[r] # NoCandidate /\ cand[r].run = r
    BY <1>0, <2>1 DEF CandidatesFit
  <2>3. job'.run = r
    BY <2>1, <2>2
  <2> QED
    BY <1>0, <2>1, <2>2, <2>3 DEF CandidatesFit
<1>7. ASSUME NEW r \in Runs, Submit(r) \/ Reserve(r) \/ SaveQueued(r) \/ Enqueue(r) \/ Take(r)
             \/ Load(r) \/ CheckSpec(r) \/ GiveBack(r) \/ Reregister(r) \/ Requeue(r)
             \/ Checkpoint(r) \/ Release(r) \/ Close(r) \/ BeginDesktop(r) \/ EndUnrecorded(r)
      PROVE  CandidatesFit'
  <2>1. job' = job /\ cand' = cand
    BY <1>7, Zenon DEF Submit, Reserve, SaveQueued, Enqueue, Take, Load, CheckSpec, GiveBack,
       Reregister, Requeue, Checkpoint, Release, Close, BeginDesktop, EndUnrecorded
  <2>2. \E to : /\ to \notin {"final", "finalizing"}
                /\ phase' = phase \/ phase' = [phase EXCEPT ![r] = to]
    <3>1. CASE Reserve(r) \/ SaveQueued(r) \/ Enqueue(r)
      BY <3>1 DEF Reserve, SaveQueued, Enqueue, Goes
    <3>b. CASE Take(r)
      BY <3>b DEF Take
    <3>a. CASE Submit(r)
      <4>1. \E to \in {"asked", "toqueue"} : phase' = [phase EXCEPT ![r] = to]
        BY <3>a DEF Submit, Goes
      <4> QED
        BY <4>1
    <3>2. CASE Load(r) \/ CheckSpec(r) \/ GiveBack(r) \/ Reregister(r) \/ Requeue(r)
      BY <3>2 DEF Load, CheckSpec, GiveBack, Reregister, Requeue, Goes
    <3>3. CASE Checkpoint(r) \/ Release(r) \/ Close(r) \/ BeginDesktop(r) \/ EndUnrecorded(r)
      BY <3>3 DEF Checkpoint, Release, Close, BeginDesktop, EndUnrecorded, Goes
    <3> QED
      BY <1>7, <3>1, <3>a, <3>b, <3>2, <3>3
  <2> QED
    BY <1>2, <2>1, <2>2
<1>8. ASSUME NEW r \in Runs, Activate(r) \/ Promote(r) PROVE CandidatesFit'
  <2>1. cand' = cand /\ (job' = job \/ job'.kind # "finalize")
    BY <1>8 DEF Activate, Promote, WriteIntent
  <2>2. \E to \in {"activating", "over", "unrecorded", "refused"} : phase' = [phase EXCEPT ![r] = to]
    BY <1>8 DEF Activate, Promote, Goes
  <2> QED
    BY <1>2, <2>1, <2>2
<1>9. ASSUME NEW r \in Runs, \/ Claim(r) \/ Observe(r) \/ MarkCancelled(r) \/ RemovePending(r)
                             \/ ReleaseSlot(r) \/ ReleaseReservation(r) \/ Interrupt(r)
      PROVE  CandidatesFit'
  BY <1>3, <1>9, Zenon DEF Claim, Observe, MarkCancelled, RemovePending, ReleaseSlot,
     ReleaseReservation, Interrupt
<1>10. CASE ClearIntent
  <2>1. job.run \in Runs
    BY <1>0, <1>10, JobCases DEF ClearIntent, At
  <2>2. job'.kind # "finalize" /\ cand' = cand
    BY <1>10, Shapes DEF ClearIntent
  <2>3. \E to \in {"turn", "spawned"} : phase' = phase \/ phase' = [phase EXCEPT ![job.run] = to]
    BY <1>10 DEF ClearIntent
  <2> QED
    BY <1>2, <2>1, <2>2, <2>3
<1>11. CASE ClearFinal
  <2>1. /\ job.run \in Runs /\ phase[job.run] \in {"finalizing", "over"}
    BY <1>0, <1>11, JobCases DEF ClearFinal, At, IInv, FinalizationFits
  <2>2. job'.kind # "finalize" /\ cand' = [cand EXCEPT ![job.run] = NoCandidate]
    BY <1>11, Shapes DEF ClearFinal
  <2>3. /\ phase'[job.run] \notin {"final", "finalizing"}
        /\ \A q \in Runs \ {job.run} : phase'[q] = phase[q]
    BY <1>0, <1>11, <2>1 DEF ClearFinal
  <2> QED
    BY <1>0, <2>1, <2>2, <2>3 DEF CandidatesFit
<1>12. CASE RecoverFinal
  <2>1. /\ final # NoCandidate /\ final.run \in Runs
        /\ cand' = [cand EXCEPT ![final.run] = final] /\ phase' = phase
        /\ job' = [kind |-> "finalize", run |-> final.run, step |-> "seal"]
    BY <1>0, <1>12, RecordCases DEF RecoverFinal, Retire
  <2>2. job'.run = final.run
    BY <2>1
  <2> QED
    BY <1>0, <2>1, <2>2 DEF CandidatesFit
<1>13. CASE InstallRun \/ InstallAgent \/ Seal \/ InstallFinal
  <2>1. /\ UNCHANGED <<phase, cand>> /\ job.kind # "none"
        /\ \E x : job' = [job EXCEPT !.step = x]
    BY <1>13 DEF InstallRun, InstallAgent, Seal, InstallFinal, At
  <2>2. job'.kind = job.kind /\ job'.run = job.run
    BY <1>0, <2>1, JobCases DEF Job
  <2> QED
    BY <1>0, <2>1, <2>2 DEF CandidatesFit
<1>14. CASE RecoverActivation \/ Opened \/ UNCHANGED vars
  <2>1. UNCHANGED <<phase, cand>> /\ (job' = job \/ job'.kind # "finalize")
    BY <1>14 DEF RecoverActivation, Opened, vars
  <2> QED
    BY <1>3, <2>1
<1>15. CASE Crash
  <2>1. /\ \A q \in Runs : phase'[q] \in {"new", "over"} /\ cand'[q] = NoCandidate
        /\ job'.kind # "finalize"
    BY <1>15, Shapes DEF Crash
  <2> QED
    BY <2>1 DEF CandidatesFit
<1>16. ASSUME NEW a \in Agents, ReviseSpec(a) \/ FreeAgent(a) PROVE CandidatesFit'
  BY <1>3, <1>16 DEF ReviseSpec, FreeAgent
<1> QED
  BY <1>4, <1>5, <1>6, <1>7, <1>8, <1>9, <1>10, <1>11, <1>12, <1>13, <1>14, <1>15, <1>16, Zenon
     DEF Next, Drive, DesktopTurn, CancelRun, WriteJob, Recover

-----------------------------------------------------------------------------
(* Lanes *)

\* A lane that is taken by r or given back by it is the lane of r.
OtherLanes(r) ==
    \A q \in Runs \ {r} : (Busy(q)' <=> Busy(q)) /\ (Reserved(q)' <=> Reserved(q))

\* What happens to a lane is between the lane and the Run that holds it.
LEMMA LaneEffects ==
    ASSUME TypeOK, NEW r \in Runs
    PROVE  /\ lanes' = lanes =>
                 OtherLanes(r) /\ (Busy(r)' <=> Busy(r)) /\ (Reserved(r)' <=> Reserved(r))
           /\ lanes' = Unreserved(r) =>
                 OtherLanes(r) /\ (Busy(r)' <=> Busy(r)) /\ ~Reserved(r)'
           /\ lanes' = Idle(r) =>
                 OtherLanes(r) /\ ~Busy(r)' /\ (Reserved(r)' <=> Reserved(r))
           /\ /\ LaneFree(r) \/ Reserved(r)
              /\ lanes' = [lanes EXCEPT ![LaneOf[r]] = [at |-> "busy", by |-> r]]
              => OtherLanes(r) /\ Busy(r)' /\ ~Reserved(r)'
           /\ /\ LaneFree(r)
              /\ lanes' = [lanes EXCEPT ![LaneOf[r]] = [at |-> "reserved", by |-> r]]
              => OtherLanes(r) /\ ~Busy(r)' /\ Reserved(r)' /\ ~Busy(r)
<1> DEFINE B(q) == [at |-> "busy", by |-> q]
           R(q) == [at |-> "reserved", by |-> q]
<1>1. lanes \in [Lanes -> Lane \cup {Free}] /\ \A q \in Runs : LaneOf[q] \in Lanes
  BY RunsAssumption DEF TypeOK
<1>2. /\ \A q \in Runs : B(q) # Free /\ R(q) # Free
      /\ \A q, p \in Runs : B(q) # R(p) /\ (B(q) = B(p) => q = p) /\ (R(q) = R(p) => q = p)
  <2>1. \A q \in Runs : B(q).at = "busy" /\ B(q).by = q /\ R(q).at = "reserved" /\ R(q).by = q
    OBVIOUS
  <2>2. Free.at = "free"
    BY DEF Free
  <2> HIDE DEF B, R
  <2> QED
    BY <2>1, <2>2
<1>3. \A q \in Runs : /\ Busy(q) <=> lanes[LaneOf[q]] = B(q)
                      /\ Reserved(q) <=> lanes[LaneOf[q]] = R(q)
  BY Zenon DEF Busy, Reserved
<1>4. \A q \in Runs : /\ Busy(q)' <=> lanes'[LaneOf[q]] = B(q)
                      /\ Reserved(q)' <=> lanes'[LaneOf[q]] = R(q)
  BY Zenon DEF Busy, Reserved
<1>5. ASSUME NEW x, lanes' = [lanes EXCEPT ![LaneOf[r]] = x]
      PROVE  /\ lanes'[LaneOf[r]] = x
             /\ \A q \in Runs : LaneOf[q] # LaneOf[r] => lanes'[LaneOf[q]] = lanes[LaneOf[q]]
  BY <1>1, <1>5
<1> HIDE DEF B, R
<1>6. ASSUME lanes' = lanes
      PROVE  OtherLanes(r) /\ (Busy(r)' <=> Busy(r)) /\ (Reserved(r)' <=> Reserved(r))
  BY <1>3, <1>4, <1>6 DEF OtherLanes
<1>7. ASSUME NEW x, lanes' = [lanes EXCEPT ![LaneOf[r]] = x],
             x \in {Free, B(r), R(r)}, lanes[LaneOf[r]] \in {Free, B(r), R(r)}
      PROVE  OtherLanes(r)
  <2> SUFFICES ASSUME NEW q \in Runs \ {r}
               PROVE  (Busy(q)' <=> Busy(q)) /\ (Reserved(q)' <=> Reserved(q))
    BY DEF OtherLanes
  <2>1. CASE LaneOf[q] = LaneOf[r]
    BY <1>2, <1>3, <1>4, <1>5, <1>7, <2>1
  <2>2. CASE LaneOf[q] # LaneOf[r]
    BY <1>3, <1>4, <1>5, <1>7, <2>2
  <2> QED
    BY <2>1, <2>2
<1>8. ASSUME lanes' = Unreserved(r)
      PROVE  OtherLanes(r) /\ (Busy(r)' <=> Busy(r)) /\ ~Reserved(r)'
  <2>1. CASE Reserved(r)
    <3>1. lanes' = [lanes EXCEPT ![LaneOf[r]] = Free]
      BY <1>8, <2>1 DEF Unreserved
    <3> QED
      BY <1>2, <1>3, <1>4, <1>5, <1>7, <2>1, <3>1
  <2>2. CASE ~Reserved(r)
    <3>1. lanes' = lanes
      BY <1>8, <2>2 DEF Unreserved
    <3> QED
      BY <1>3, <1>4, <1>6, <2>2, <3>1
  <2> QED
    BY <2>1, <2>2
<1>9. ASSUME lanes' = Idle(r)
      PROVE  OtherLanes(r) /\ ~Busy(r)' /\ (Reserved(r)' <=> Reserved(r))
  <2>1. CASE Busy(r)
    <3>1. lanes' = [lanes EXCEPT ![LaneOf[r]] = Free]
      BY <1>9, <2>1 DEF Idle
    <3> QED
      BY <1>2, <1>3, <1>4, <1>5, <1>7, <2>1, <3>1
  <2>2. CASE ~Busy(r)
    <3>1. lanes' = lanes
      BY <1>9, <2>2 DEF Idle
    <3> QED
      BY <1>3, <1>4, <1>6, <2>2, <3>1
  <2> QED
    BY <2>1, <2>2
<1>10. ASSUME LaneFree(r) \/ Reserved(r), lanes' = [lanes EXCEPT ![LaneOf[r]] = B(r)]
       PROVE  OtherLanes(r) /\ Busy(r)' /\ ~Reserved(r)'
  <2>1. lanes[LaneOf[r]] \in {Free, R(r)}
    BY <1>3, <1>10 DEF LaneFree
  <2> QED
    BY <1>2, <1>4, <1>5, <1>7, <1>10, <2>1
<1>11. ASSUME LaneFree(r), lanes' = [lanes EXCEPT ![LaneOf[r]] = R(r)]
       PROVE  OtherLanes(r) /\ ~Busy(r)' /\ Reserved(r)' /\ ~Busy(r)
  <2>1. lanes[LaneOf[r]] = Free
    BY <1>11 DEF LaneFree
  <2> QED
    BY <1>2, <1>3, <1>4, <1>5, <1>7, <1>11, <2>1
<1> QED
  BY <1>3, <1>4, <1>6, <1>8, <1>9, <1>10, <1>11, Zenon DEF B, R

\* A move of the task of r that may leave its lane alone.
LaneMove(r, p, to) ==
    /\ to \notin {"begun", "turn"}
    /\ p \in Holding => to \in Holding
    /\ r \in Desktop /\ to \in Submitted => p \in Submitted
    /\ to = "activating" => p \in Submitted \cup {"begun"}

\* Every step keeps the turns in their lanes.
LEMMA LaneStep ==
    ASSUME IInv, [Next]_vars
    PROVE  LanesFit'
<1>0. /\ TypeOK /\ \A r \in Runs : LaneFits(r)
      /\ phase \in [Runs -> Phase]
  BY DEF IInv, TypeOK, LanesFit
<1>1. ASSUME NEW r \in Runs, \A q \in Runs \ {r} : phase'[q] = phase[q], OtherLanes(r), LaneFits(r)'
      PROVE  LanesFit'
  <2>1. ASSUME NEW q \in Runs \ {r} PROVE LaneFits(q)'
    BY <1>0, <1>1, <2>1 DEF LaneFits, OtherLanes
  <2> QED
    BY <1>1, <2>1 DEF LanesFit
<1>2. ASSUME NEW r \in Runs, phase' = phase, OtherLanes(r), Busy(r)' <=> Busy(r)
      PROVE  LanesFit'
  BY <1>0, <1>1, <1>2 DEF LaneFits
<1>3. ASSUME NEW r \in Runs, NEW to, phase' = [phase EXCEPT ![r] = to],
             LaneMove(r, phase[r], to), OtherLanes(r), Busy(r)' <=> Busy(r)
      PROVE  LanesFit'
  <2>1. phase'[r] = to /\ \A q \in Runs \ {r} : phase'[q] = phase[q]
    BY <1>0, <1>3
  <2>2. LaneFits(r) /\ LaneMove(r, phase[r], to)
    BY <1>0, <1>3
  <2>3. LaneFits(r)'
    BY <1>3, <2>1, <2>2 DEF LaneFits, LaneMove
  <2> QED
    BY <1>1, <1>3, <2>1, <2>3
<1>4. ASSUME NEW r \in Runs, lanes' = lanes \/ lanes' = Unreserved(r)
      PROVE  OtherLanes(r) /\ (Busy(r)' <=> Busy(r))
  BY <1>0, <1>4, LaneEffects
<1> USE DEF LaneMove, Holding, Submitted, Active, Queueing
<1>5. ASSUME NEW r \in Runs, Submit(r) \/ SaveQueued(r) \/ Enqueue(r) \/ Load(r) \/ CheckSpec(r)
                             \/ Promote(r) \/ GiveBack(r) \/ Reregister(r) \/ Requeue(r)
      PROVE  LanesFit'
  <2>1. lanes' = lanes \/ lanes' = Unreserved(r)
    BY <1>5, Zenon DEF Submit, SaveQueued, Enqueue, Load, CheckSpec, Promote, GiveBack, Reregister,
       Requeue, ReleaseTurn, memory
  <2>2. CASE Submit(r)
    <3>1. \E to \in {"asked", "toqueue"} : /\ phase' = [phase EXCEPT ![r] = to]
                                           /\ phase[r] = "new" /\ r \notin Desktop
      BY <2>2 DEF Submit, Goes
    <3> QED
      BY <1>3, <1>4, <2>1, <3>1
  <2>3. CASE SaveQueued(r) \/ Enqueue(r) \/ Load(r) \/ CheckSpec(r)
    <3>1. \E to \in {"saved", "waiting", "loaded", "checked", "over"} :
             /\ phase' = [phase EXCEPT ![r] = to]
             /\ phase[r] \in {"toqueue", "saved", "taken", "loaded"}
      BY <2>3 DEF SaveQueued, Enqueue, Load, CheckSpec, Goes
    <3> QED
      BY <1>3, <1>4, <2>1, <3>1
  <2>4. CASE Promote(r) \/ GiveBack(r) \/ Reregister(r) \/ Requeue(r)
    <3>1. \E to \in {"activating", "refused", "reregister", "requeue", "over", "waiting"} :
             /\ phase' = [phase EXCEPT ![r] = to]
             /\ phase[r] \in {"checked", "refused", "reregister", "requeue"}
      BY <2>4 DEF Promote, GiveBack, Reregister, Requeue, Goes
    <3> QED
      BY <1>3, <1>4, <2>1, <3>1
  <2> QED
    BY <1>5, <2>2, <2>3, <2>4
<1>6. ASSUME NEW r \in Runs, Activate(r) \/ CheckTurn(r) \/ EndDesktop(r) \/ EndUnrecorded(r)
                             \/ Finalize(r) \/ Checkpoint(r) \/ Release(r)
      PROVE  LanesFit'
  <2>1. lanes' = lanes \/ lanes' = Unreserved(r)
    BY <1>6, Zenon DEF Activate, CheckTurn, EndDesktop, EndUnrecorded, Finalize, Checkpoint, Release,
       ReleaseTurn, memory
  <2>2. CASE Activate(r)
    <3>1. \/ phase[r] \in {"reserved", "begun"} /\ phase' = [phase EXCEPT ![r] = "activating"]
          \/ phase[r] = "reserved" /\ phase' = [phase EXCEPT ![r] = "over"]
          \/ phase[r] = "begun" /\ phase' = [phase EXCEPT ![r] = "unrecorded"]
      BY <2>2 DEF Activate, Goes
    <3> QED
      BY <1>3, <1>4, <2>1, <3>1
  <2>3. CASE CheckTurn(r)
    <3>1. \E to \in {"ready", "final"} : /\ phase' = [phase EXCEPT ![r] = to]
                                         /\ phase[r] = "spawned"
      BY <2>3 DEF CheckTurn, Goes, Ends
    <3> QED
      BY <1>3, <1>4, <2>1, <3>1
  <2>4. CASE EndDesktop(r) \/ EndUnrecorded(r) \/ Finalize(r) \/ Checkpoint(r) \/ Release(r)
    <3>1. \E to \in {"final", "closing", "finalizing", "checkpointed"} :
             phase' = [phase EXCEPT ![r] = to]
      BY <2>4 DEF EndDesktop, EndUnrecorded, Finalize, Checkpoint, Release, Goes
    <3> QED
      BY <1>3, <1>4, <2>1, <3>1
  <2> QED
    BY <1>6, <2>2, <2>3, <2>4
<1>7. ASSUME NEW r \in Runs, Observe(r) \/ MarkCancelled(r) \/ RemovePending(r) \/ ReleaseSlot(r)
                             \/ ReleaseReservation(r) \/ Interrupt(r)
      PROVE  LanesFit'
  <2>1. phase' = phase /\ (lanes' = lanes \/ lanes' = Unreserved(r))
    BY <1>7, Zenon DEF Observe, MarkCancelled, RemovePending, ReleaseSlot, ReleaseReservation,
       Interrupt, memory
  <2> QED
    BY <1>2, <1>4, <2>1
<1>8. ASSUME NEW r \in Runs, Reserve(r) PROVE LanesFit'
  <2>1. CASE LaneFree(r) /\ Cardinality(admitted) < Limit
    <3>1. /\ phase[r] = "asked" /\ phase' = [phase EXCEPT ![r] = "reserved"] /\ LaneFree(r)
          /\ lanes' = [lanes EXCEPT ![LaneOf[r]] = [at |-> "reserved", by |-> r]]
      BY <1>8, <2>1 DEF Reserve, Goes
    <3>2. OtherLanes(r) /\ ~Busy(r)' /\ ~Busy(r)
      BY <1>0, <3>1, LaneEffects
    <3>3. LaneMove(r, phase[r], "reserved") /\ (Busy(r)' <=> Busy(r))
      BY <3>1, <3>2
    <3> QED
      BY <1>3, <3>1, <3>2, <3>3, Zenon
  <2>2. CASE ~(LaneFree(r) /\ Cardinality(admitted) < Limit)
    <3>1. /\ phase[r] = "asked" /\ phase' = [phase EXCEPT ![r] = "toqueue"] /\ lanes' = lanes
      BY <1>8, <2>2 DEF Reserve, Goes
    <3> QED
      BY <1>3, <1>4, <3>1
  <2> QED
    BY <2>1, <2>2
<1>9. ASSUME NEW r \in Runs, Claim(r) PROVE LanesFit'
  <2>1. /\ phase' = phase /\ LaneFree(r)
        /\ lanes' = [lanes EXCEPT ![LaneOf[r]] = [at |-> "reserved", by |-> r]]
    BY <1>9, Zenon DEF Claim, Selected, Eligible
  <2>2. OtherLanes(r) /\ ~Busy(r)' /\ ~Busy(r)
    BY <1>0, <2>1, LaneEffects
  <2> QED
    BY <1>2, <2>1, <2>2
<1>10. ASSUME NEW r \in Runs, Take(r) PROVE LanesFit'
  <2>1. phase[r] \in {"waiting", "requeue"}
    BY <1>10 DEF Take, IInv, QueuesFit
  <2>2. phase' = phase \/ phase' = [phase EXCEPT ![r] = "taken"]
    BY <1>10, Zenon DEF Take
  <2>3. lanes' = lanes \/ lanes' = Unreserved(r)
    BY <1>10, Zenon DEF Take, ReleaseTurn
  <2> QED
    BY <1>2, <1>3, <1>4, <2>1, <2>2, <2>3
<1>11. ASSUME NEW r \in Runs, BeginDesktop(r) PROVE LanesFit'
  <2>1. /\ phase' = [phase EXCEPT ![r] = "begun"] /\ LaneFree(r)
        /\ lanes' = [lanes EXCEPT ![LaneOf[r]] = [at |-> "busy", by |-> r]]
    BY <1>11 DEF BeginDesktop, Goes
  <2>2. OtherLanes(r) /\ Busy(r)'
    BY <1>0, <2>1, LaneEffects
  <2>3. phase'[r] = "begun" /\ \A q \in Runs \ {r} : phase'[q] = phase[q]
    BY <1>0, <2>1
  <2>4. LaneFits(r)'
    BY <2>2, <2>3 DEF LaneFits
  <2> QED
    BY <1>1, <2>2, <2>3, <2>4
<1>12. ASSUME NEW r \in Runs, EnterTurn(r) PROVE LanesFit'
  <2>1. CASE Reserved(r)
    <3>1. /\ phase[r] = "ready" /\ phase' = [phase EXCEPT ![r] = "turn"]
          /\ lanes' = [lanes EXCEPT ![LaneOf[r]] = [at |-> "busy", by |-> r]]
      BY <1>12, <2>1 DEF EnterTurn, Goes
    <3>2. OtherLanes(r) /\ Busy(r)'
      BY <1>0, <2>1, <3>1, LaneEffects
    <3>3. phase'[r] = "turn" /\ \A q \in Runs \ {r} : phase'[q] = phase[q]
      BY <1>0, <3>1
    <3>4. LaneFits(r)'
      BY <3>2, <3>3 DEF LaneFits
    <3> QED
      BY <1>1, <3>2, <3>3, <3>4
  <2>2. CASE ~Reserved(r)
    <3>1. phase[r] = "ready" /\ phase' = [phase EXCEPT ![r] = "final"] /\ lanes' = lanes
      BY <1>12, <2>2 DEF EnterTurn, Goes, Ends
    <3> QED
      BY <1>3, <1>4, <3>1
  <2> QED
    BY <2>1, <2>2
<1>13. ASSUME NEW r \in Runs, EndTurn(r) \/ Timeout(r) \/ Close(r) PROVE LanesFit'
  <2>1. \/ phase' = [phase EXCEPT ![r] = "final"] /\ (lanes' = lanes \/ lanes' = Idle(r))
        \/ phase' = [phase EXCEPT ![r] = "over"] /\ lanes' = Idle(r)
    BY <1>13 DEF EndTurn, Timeout, Close, Goes, Ends
  <2>2. OtherLanes(r) /\ (lanes' = Idle(r) => ~Busy(r)')
    BY <1>0, <2>1, LaneEffects
  <2>3. /\ phase'[r] = "final" \/ (phase'[r] = "over" /\ lanes' = Idle(r))
        /\ \A q \in Runs \ {r} : phase'[q] = phase[q]
    BY <1>0, <2>1
  <2>4. LaneFits(r)'
    BY <2>2, <2>3 DEF LaneFits
  <2> QED
    BY <1>1, <2>2, <2>3, <2>4
<1>14. CASE ClearIntent
  <2>1. job.run \in Runs /\ lanes' = lanes
    BY <1>0, <1>14, JobCases DEF ClearIntent, At, memory
  <2>2. CASE phase' = phase
    BY <1>2, <1>4, <2>1, <2>2
  <2>3. CASE phase' # phase
    <3>1. /\ phase[job.run] = "activating"
          /\ job.run \in Desktop => phase' = [phase EXCEPT ![job.run] = "turn"]
          /\ job.run \notin Desktop => phase' = [phase EXCEPT ![job.run] = "spawned"]
      BY <1>14, <2>3 DEF ClearIntent
    <3>2. CASE job.run \in Desktop
      <4>1. Busy(job.run)
        BY <1>0, <2>1, <3>1, <3>2 DEF LaneFits
      <4>3. phase'[job.run] = "turn" /\ \A q \in Runs \ {job.run} : phase'[q] = phase[q]
        BY <1>0, <2>1, <3>1, <3>2
      <4>4. ASSUME NEW r \in Runs, r = job.run PROVE LanesFit'
        <5>1. Busy(r)' /\ phase'[r] = "turn" /\ OtherLanes(r)
              /\ \A q \in Runs \ {r} : phase'[q] = phase[q]
          BY <1>4, <2>1, <4>1, <4>3, <4>4
        <5>2. LaneFits(r)'
          BY <5>1 DEF LaneFits
        <5> QED
          BY <1>1, <5>1, <5>2
      <4> QED
        BY <2>1, <4>4
    <3>3. CASE job.run \notin Desktop
      BY <1>3, <1>4, <2>1, <3>1, <3>3
    <3> QED
      BY <3>2, <3>3
  <2> QED
    BY <2>2, <2>3
<1>15. CASE ClearFinal
  <2>1. job.run \in Runs /\ lanes' = lanes
    BY <1>0, <1>15, JobCases DEF ClearFinal, At, memory
  <2>2. \/ phase' = phase
        \/ phase[job.run] = "finalizing" /\ phase' = [phase EXCEPT ![job.run] = "finalized"]
    BY <1>15, Zenon DEF ClearFinal
  <2> QED
    BY <1>2, <1>3, <1>4, <2>1, <2>2
<1>16. CASE lanes' = lanes /\ phase' = phase
  BY <1>0, <1>16 DEF LanesFit, LaneFits, Busy
<1>17. CASE \/ InstallRun \/ InstallAgent \/ Seal \/ InstallFinal \/ RecoverActivation \/ RecoverFinal
            \/ Opened \/ UNCHANGED vars
  <2>1. UNCHANGED <<lanes, phase>>
    BY <1>17 DEF memory, vars, InstallRun, InstallAgent, Seal, InstallFinal, RecoverActivation,
       RecoverFinal, Opened
  <2> QED
    BY <1>16, <2>1
<1>18. CASE Crash
  <2>1. \A r \in Runs : phase'[r] \in {"new", "over"} /\ lanes'[LaneOf[r]] = Free
    BY <1>18, RunsAssumption DEF Crash
  <2>2. \A r \in Runs : ~Busy(r)'
    BY <2>1 DEF Busy, Free
  <2> QED
    BY <2>1, <2>2 DEF LanesFit, LaneFits
<1>19. ASSUME NEW a \in Agents, ReviseSpec(a) \/ FreeAgent(a) PROVE LanesFit'
  <2>1. UNCHANGED <<lanes, phase>>
    BY <1>19 DEF ReviseSpec, FreeAgent, memory
  <2> QED
    BY <1>16, <2>1
<1> QED
  BY <1>5, <1>6, <1>7, <1>8, <1>9, <1>10, <1>11, <1>12, <1>13, <1>14, <1>15, <1>17, <1>18, <1>19,
     Zenon DEF Next, Drive, DesktopTurn, CancelRun, WriteJob, Recover

-----------------------------------------------------------------------------
(* Queues *)

\* Every step keeps the queue, the host's ledger and the claims of a pump apart.
LEMMA QueueStep ==
    ASSUME IInv, [Next]_vars
    PROVE  QueuesFit'
<1>0. /\ TypeOK /\ QueuesFit /\ phase \in [Runs -> Phase]
      /\ queue \in Seq(Runs) /\ slots \in Seq(Runs) /\ Simple(queue) /\ Simple(slots)
      /\ IsFiniteSet(admitted) /\ claimed \subseteq Runs
  BY DEF IInv, TypeOK, QueuesFit
<1>a. ASSUME NEW r \in Runs, phase[r] \notin {"waiting", "requeue"}
      PROVE  r \notin ToSet(queue) /\ r \notin ToSet(slots) /\ r \notin claimed
  BY <1>0, <1>a DEF QueuesFit
<1>b. ToSet(queue) \subseteq Runs /\ ToSet(slots) \subseteq Runs
  BY <1>0 DEF ToSet
<1>1. ASSUME NEW r \in Runs, NEW to, UNCHANGED <<queue, slots, claimed>>,
             phase' = [phase EXCEPT ![r] = to], phase[r] \notin {"waiting", "requeue"},
             IsFiniteSet(admitted')
      PROVE  QueuesFit'
  <2>1. r \notin ToSet(queue) /\ r \notin ToSet(slots) /\ r \notin claimed
    BY <1>a, <1>1
  <2>2. \A q \in Runs \ {r} : phase'[q] = phase[q]
    BY <1>0, <1>1
  <2> QED
    BY <1>0, <1>b, <1>1, <2>1, <2>2 DEF QueuesFit
<1>2. CASE UNCHANGED <<queue, slots, claimed, phase>> /\ IsFiniteSet(admitted')
  BY <1>0, <1>2 DEF QueuesFit
<1>3. ASSUME NEW r \in Runs, \A q \in Runs \ {r} : phase'[q] = phase[q],
             Simple(queue'), Simple(slots'), IsFiniteSet(admitted'),
             ToSet(queue') \subseteq ToSet(queue) \cup {r},
             ToSet(slots') \subseteq ToSet(slots) \cup {r}, claimed' \subseteq claimed \cup {r},
             r \in ToSet(queue') => phase'[r] = "waiting",
             r \in ToSet(slots') => phase'[r] \in {"waiting", "requeue"},
             r \in claimed' => phase'[r] \in {"waiting", "requeue"} /\ r \notin ToSet(slots')
      PROVE  QueuesFit'
  <2>1. \A q \in ToSet(queue) : q \in Runs /\ phase[q] = "waiting"
    BY <1>0, <1>b DEF QueuesFit
  <2>2. \A q \in ToSet(slots) : q \in Runs /\ phase[q] \in {"waiting", "requeue"}
    BY <1>0, <1>b DEF QueuesFit
  <2>3. \A q \in claimed : q \in Runs /\ phase[q] \in {"waiting", "requeue"} /\ q \notin ToSet(slots)
    BY <1>0 DEF QueuesFit
  <2>4. \A q \in ToSet(queue') : phase'[q] = "waiting"
    BY <1>3, <2>1
  <2>5. \A q \in ToSet(slots') : phase'[q] \in {"waiting", "requeue"}
    BY <1>3, <2>2
  <2>6. \A q \in claimed' : phase'[q] \in {"waiting", "requeue"} /\ q \notin ToSet(slots')
    BY <1>3, <2>3
  <2> QED
    BY <1>3, <2>4, <2>5, <2>6 DEF QueuesFit
<1>4. ASSUME NEW r \in Runs
      PROVE  IsFiniteSet(admitted \ {r}) /\ IsFiniteSet(admitted \cup {r})
  BY <1>0, Admissions
<1>5. ASSUME NEW r \in Runs,
             \/ Submit(r) \/ Reserve(r) \/ SaveQueued(r) \/ Load(r) \/ CheckSpec(r) \/ Promote(r)
             \/ GiveBack(r) \/ Activate(r) \/ CheckTurn(r) \/ EnterTurn(r) \/ EndTurn(r)
             \/ Timeout(r) \/ Finalize(r) \/ Checkpoint(r) \/ Release(r) \/ Close(r)
             \/ BeginDesktop(r) \/ EndDesktop(r) \/ EndUnrecorded(r)
      PROVE  QueuesFit'
  <2>1. UNCHANGED <<queue, slots, claimed>>
    BY <1>5, Zenon DEF Submit, Reserve, SaveQueued, Load, CheckSpec, Promote, GiveBack, Activate,
       CheckTurn, EnterTurn, EndTurn, Timeout, Finalize, Checkpoint, Release, Close, BeginDesktop,
       EndDesktop, EndUnrecorded, memory
  <2>2. admitted' = admitted \/ admitted' = admitted \ {r} \/ admitted' = admitted \cup {r}
    BY <1>5, Zenon DEF Submit, Reserve, SaveQueued, Load, CheckSpec, Promote, GiveBack, Activate,
       CheckTurn, EnterTurn, EndTurn, Timeout, Finalize, Checkpoint, Release, Close, BeginDesktop,
       EndDesktop, EndUnrecorded, memory, ReleaseTurn
  <2>3. IsFiniteSet(admitted')
    BY <1>0, <1>4, <2>2
  <2>4. CASE Submit(r)
    <3>1. phase[r] = "new" /\ \E to : phase' = [phase EXCEPT ![r] = to]
      BY <2>4, Zenon DEF Submit, Goes
    <3> QED
      BY <1>1, <2>1, <2>3, <3>1
  <2>5. CASE Reserve(r) \/ SaveQueued(r) \/ Load(r) \/ CheckSpec(r) \/ Promote(r) \/ GiveBack(r)
    <3>1. /\ phase[r] \in {"asked", "toqueue", "taken", "loaded", "checked", "refused"}
          /\ \E to : phase' = [phase EXCEPT ![r] = to]
      BY <2>5, Zenon DEF Reserve, SaveQueued, Load, CheckSpec, Promote, GiveBack, Goes
    <3> QED
      BY <1>1, <2>1, <2>3, <3>1
  <2>6. CASE Activate(r) \/ CheckTurn(r) \/ EnterTurn(r) \/ EndTurn(r) \/ Timeout(r)
    <3>1. /\ phase[r] \in {"reserved", "begun", "spawned", "ready", "turn"}
          /\ \E to : phase' = [phase EXCEPT ![r] = to]
      BY <2>6, Zenon DEF Activate, CheckTurn, EnterTurn, EndTurn, Timeout, Goes, Ends
    <3> QED
      BY <1>1, <2>1, <2>3, <3>1
  <2>7. CASE \/ Finalize(r) \/ Checkpoint(r) \/ Release(r) \/ Close(r) \/ BeginDesktop(r)
             \/ EndDesktop(r) \/ EndUnrecorded(r)
    <3>1. /\ phase[r] \in {"final", "finalized", "checkpointed", "closing", "new", "turn", "unrecorded"}
          /\ \E to : phase' = [phase EXCEPT ![r] = to]
      BY <2>7, Zenon DEF Finalize, Checkpoint, Release, Close, BeginDesktop, EndDesktop,
         EndUnrecorded, Goes
    <3> QED
      BY <1>1, <2>1, <2>3, <3>1
  <2> QED
    BY <1>5, <2>4, <2>5, <2>6, <2>7, Zenon
<1>6. ASSUME NEW r \in Runs, Enqueue(r) PROVE QueuesFit'
  <2>1. phase[r] = "saved" /\ UNCHANGED <<claimed, admitted>>
    BY <1>6, Zenon DEF Enqueue, Goes
  <2>2. r \notin ToSet(queue) /\ r \notin ToSet(slots) /\ r \notin claimed
    BY <1>a, <2>1
  <2>3. CASE Len(queue) < MaxQueue /\ Len(slots) < MaxQueue
    <3>1. /\ phase' = [phase EXCEPT ![r] = "waiting"]
          /\ queue' = Append(queue, r) /\ slots' = Append(slots, r)
      BY <1>6, <2>3 DEF Enqueue, Goes
    <3>2. /\ Simple(queue') /\ ToSet(queue') = ToSet(queue) \cup {r}
          /\ Simple(slots') /\ ToSet(slots') = ToSet(slots) \cup {r}
      BY <1>0, <2>2, <3>1, Appended
    <3>3. phase'[r] = "waiting" /\ \A q \in Runs \ {r} : phase'[q] = phase[q]
      BY <1>0, <3>1
    <3> QED
      BY <1>0, <1>3, <2>1, <2>2, <3>2, <3>3
  <2>4. CASE ~(Len(queue) < MaxQueue /\ Len(slots) < MaxQueue)
    <3>1. phase' = [phase EXCEPT ![r] = "over"] /\ UNCHANGED <<queue, slots>>
      BY <1>6, <2>4 DEF Enqueue, Goes
    <3> QED
      BY <1>0, <1>1, <2>1, <3>1
  <2> QED
    BY <2>3, <2>4
<1>7. ASSUME NEW r \in Runs, Claim(r) PROVE QueuesFit'
  <2>1. /\ slots' = Without(slots, r) /\ claimed' = claimed \cup {r} /\ UNCHANGED <<queue, phase>>
        /\ admitted' = admitted \cup {r} /\ r \in ToSet(slots)
    BY <1>7, Zenon DEF Claim, Selected, Eligible
  <2>2. Simple(slots') /\ ToSet(slots') = ToSet(slots) \ {r}
    BY <1>0, <2>1, WithoutProperties
  <2>3. phase[r] \in {"waiting", "requeue"} /\ (r \in ToSet(queue) => phase[r] = "waiting")
    BY <1>0, <2>1 DEF QueuesFit
  <2>4. IsFiniteSet(admitted')
    BY <1>4, <2>1
  <2> QED
    BY <1>0, <1>3, <2>1, <2>2, <2>3, <2>4
<1>8. ASSUME NEW r \in Runs, Take(r) PROVE QueuesFit'
  <2>1. r \in claimed /\ claimed' = claimed \ {r} /\ slots' = slots
    BY <1>8, Zenon DEF Take
  <2>2. r \notin ToSet(slots) /\ (r \in ToSet(queue) => phase[r] = "waiting")
    BY <1>0, <2>1 DEF QueuesFit
  <2>3. CASE r \in ToSet(queue)
    <3>1. /\ queue' = Without(queue, r) /\ phase' = [phase EXCEPT ![r] = "taken"]
          /\ admitted' = admitted
      BY <1>8, <2>3 DEF Take
    <3>2. Simple(queue') /\ ToSet(queue') = ToSet(queue) \ {r}
      BY <1>0, <3>1, WithoutProperties
    <3>3. \A q \in Runs \ {r} : phase'[q] = phase[q]
      BY <1>0, <3>1
    <3> QED
      BY <1>0, <1>3, <2>1, <2>2, <3>1, <3>2, <3>3
  <2>4. CASE r \notin ToSet(queue)
    <3>1. UNCHANGED <<queue, phase>> /\ admitted' = admitted \ {r}
      BY <1>8, <2>4 DEF Take, ReleaseTurn
    <3>2. IsFiniteSet(admitted')
      BY <1>4, <3>1
    <3> QED
      BY <1>0, <1>3, <2>1, <2>2, <2>4, <3>1, <3>2
  <2> QED
    BY <2>3, <2>4
<1>9. ASSUME NEW r \in Runs, Reregister(r) PROVE QueuesFit'
  <2>1. phase[r] = "reregister" /\ UNCHANGED <<queue, claimed, admitted>>
    BY <1>9, Zenon DEF Reregister, Goes
  <2>2. r \notin ToSet(queue) /\ r \notin ToSet(slots) /\ r \notin claimed
    BY <1>a, <2>1
  <2>3. CASE Len(slots) < MaxQueue
    <3>1. phase' = [phase EXCEPT ![r] = "requeue"] /\ slots' = Append(slots, r)
      BY <1>9, <2>2, <2>3 DEF Reregister, Goes
    <3>2. Simple(slots') /\ ToSet(slots') = ToSet(slots) \cup {r}
      BY <1>0, <2>2, <3>1, Appended
    <3>3. phase'[r] = "requeue" /\ \A q \in Runs \ {r} : phase'[q] = phase[q]
      BY <1>0, <3>1
    <3> QED
      BY <1>0, <1>3, <2>1, <2>2, <3>2, <3>3
  <2>4. CASE ~(Len(slots) < MaxQueue)
    <3>1. phase' = [phase EXCEPT ![r] = "over"] /\ UNCHANGED slots
      BY <1>9, <2>2, <2>4 DEF Reregister, Goes
    <3> QED
      BY <1>0, <1>1, <2>1, <3>1
  <2> QED
    BY <2>3, <2>4
<1>10. ASSUME NEW r \in Runs, Requeue(r) PROVE QueuesFit'
  <2>1. /\ phase[r] = "requeue" /\ phase' = [phase EXCEPT ![r] = "waiting"]
        /\ queue' = <<r>> \o queue /\ UNCHANGED <<slots, claimed, admitted>>
    BY <1>10 DEF Requeue, Goes
  <2>2. r \notin ToSet(queue) /\ (r \in claimed => r \notin ToSet(slots))
    BY <1>0, <2>1 DEF QueuesFit
  <2>3. Simple(queue') /\ ToSet(queue') = ToSet(queue) \cup {r}
    BY <1>0, <2>1, <2>2, Prepended
  <2>4. phase'[r] = "waiting" /\ \A q \in Runs \ {r} : phase'[q] = phase[q]
    BY <1>0, <2>1
  <2> QED
    BY <1>0, <1>3, <2>1, <2>2, <2>3, <2>4
<1>11. ASSUME NEW r \in Runs, RemovePending(r) PROVE QueuesFit'
  <2>1. queue' = Without(queue, r) /\ UNCHANGED <<slots, claimed, admitted, phase>>
    BY <1>11 DEF RemovePending
  <2>2. Simple(queue') /\ ToSet(queue') = ToSet(queue) \ {r}
    BY <1>0, <2>1, WithoutProperties
  <2> QED
    BY <1>0, <2>1, <2>2 DEF QueuesFit
<1>12. ASSUME NEW r \in Runs, ReleaseSlot(r) PROVE QueuesFit'
  <2>1. slots' = Without(slots, r) /\ UNCHANGED <<queue, claimed, admitted, phase>>
    BY <1>12 DEF ReleaseSlot
  <2>2. Simple(slots') /\ ToSet(slots') = ToSet(slots) \ {r}
    BY <1>0, <2>1, WithoutProperties
  <2> QED
    BY <1>0, <2>1, <2>2 DEF QueuesFit
<1>13. ASSUME NEW r \in Runs, Observe(r) \/ MarkCancelled(r) \/ ReleaseReservation(r) \/ Interrupt(r)
       PROVE  QueuesFit'
  <2>1. UNCHANGED <<queue, slots, claimed, admitted, phase>>
    BY <1>13, Zenon DEF Observe, MarkCancelled, ReleaseReservation, Interrupt, memory
  <2> QED
    BY <1>0, <1>2, <2>1
<1>14. CASE ClearIntent \/ ClearFinal
  <2>1. /\ job.run \in Runs /\ UNCHANGED <<queue, slots, claimed, admitted>>
    BY <1>0, <1>14, JobCases DEF ClearIntent, ClearFinal, At, memory
  <2>2. \/ phase' = phase
        \/ /\ phase[job.run] \in {"activating", "finalizing"}
           /\ \E to : phase' = [phase EXCEPT ![job.run] = to]
    BY <1>14, Zenon DEF ClearIntent, ClearFinal
  <2> QED
    BY <1>0, <1>1, <1>2, <2>1, <2>2
<1>15. CASE \/ InstallRun \/ InstallAgent \/ Seal \/ InstallFinal \/ RecoverActivation \/ RecoverFinal
            \/ Opened \/ UNCHANGED vars
  <2>1. UNCHANGED <<queue, slots, claimed, admitted, phase>>
    BY <1>15 DEF memory, vars, InstallRun, InstallAgent, Seal, InstallFinal, RecoverActivation,
       RecoverFinal, Opened
  <2> QED
    BY <1>0, <1>2, <2>1
<1>16. CASE Crash
  <2>1. queue' = << >> /\ slots' = << >> /\ claimed' = {} /\ admitted' = {}
    BY <1>16 DEF Crash
  <2>2. ToSet(<< >>) = {} /\ Simple(<< >>) /\ IsFiniteSet({})
    BY FS_EmptySet DEF ToSet, Simple
  <2> QED
    BY <2>1, <2>2 DEF QueuesFit
<1>17. ASSUME NEW a \in Agents, ReviseSpec(a) \/ FreeAgent(a) PROVE QueuesFit'
  <2>1. UNCHANGED <<queue, slots, claimed, admitted, phase>>
    BY <1>17 DEF ReviseSpec, FreeAgent, memory
  <2> QED
    BY <1>0, <1>2, <2>1
<1> QED
  BY <1>5, <1>6, <1>7, <1>8, <1>9, <1>10, <1>11, <1>12, <1>13, <1>14, <1>15, <1>16, <1>17, Zenon
     DEF Next, Drive, DesktopTurn, CancelRun, WriteJob, Recover

-----------------------------------------------------------------------------
(* Cancellations *)

\* Every step keeps what a cancellation took away.
LEMMA CancelStep ==
    ASSUME IInv, [Next]_vars
    PROVE  CancelsFit'
<1>0. /\ TypeOK /\ QueuesFit /\ \A q \in Runs : CancelFits(q) /\ LaneFits(q)
      /\ phase \in [Runs -> Phase]
      /\ cancel \in [Runs -> {"none", "marked", "unslot", "release", "dequeued", "released", "over"}]
      /\ queue \in Seq(Runs) /\ slots \in Seq(Runs) /\ Simple(queue) /\ Simple(slots)
  BY DEF IInv, TypeOK, CancelsFit, LanesFit, QueuesFit
<1>a. \A q \in Runs : runs[q].state \in Terminal => runs'[q].state \in Terminal
  BY RecordsKept DEF Kept, Terminal
\* A Run whose cancellation stays where it is.
<1>1. ASSUME NEW q \in Runs, cancel'[q] = cancel[q],
             phase[q] = "waiting" /\ q \notin ToSet(queue)
               => phase'[q] = "waiting" /\ q \notin ToSet(queue'),
             phase'[q] = "turn" => phase[q] = "turn" \/ cancel[q] # "released",
             Busy(q)' => Busy(q) \/ cancel[q] # "released",
             phase'[q] = "ready" /\ Reserved(q)'
               => (phase[q] = "ready" /\ Reserved(q)) \/ cancel[q] # "released"
      PROVE  CancelFits(q)'
  BY <1>0, <1>a, <1>1 DEF CancelFits
\* All but one Run.
<1>2. ASSUME NEW r \in Runs, NEW q \in Runs \ {r}, cancel'[q] = cancel[q], phase'[q] = phase[q],
             OtherLanes(r), q \in ToSet(queue') => q \in ToSet(queue)
      PROVE  CancelFits(q)'
  BY <1>1, <1>2 DEF OtherLanes
\* A task that moves on, outside the queue and not into a turn.
<1>3. ASSUME NEW r \in Runs, NEW to, phase' = [phase EXCEPT ![r] = to], to \notin {"turn", "ready"},
             phase[r] # "waiting", OtherLanes(r), Busy(r)' => Busy(r), cancel' = cancel,
             \A q \in Runs \ {r} : q \in ToSet(queue') => q \in ToSet(queue)
      PROVE  CancelsFit'
  <2>1. phase'[r] = to /\ \A q \in Runs \ {r} : phase'[q] = phase[q]
    BY <1>0, <1>3
  <2>2. CancelFits(r)'
    BY <1>1, <1>3, <2>1
  <2>3. ASSUME NEW q \in Runs \ {r} PROVE CancelFits(q)'
    BY <1>2, <1>3, <2>1
  <2> QED
    BY <2>2, <2>3 DEF CancelsFit
<1>4. ASSUME NEW r \in Runs, lanes' = lanes \/ lanes' = Unreserved(r) \/ lanes' = Idle(r)
      PROVE  OtherLanes(r) /\ (Busy(r)' => Busy(r)) /\ (Reserved(r)' => Reserved(r))
  BY <1>0, <1>4, LaneEffects
<1>5. ASSUME NEW r \in Runs,
             \/ Submit(r) \/ SaveQueued(r) \/ Load(r) \/ CheckSpec(r) \/ Promote(r)
             \/ GiveBack(r) \/ Reregister(r) \/ Activate(r) \/ EndTurn(r) \/ Timeout(r)
             \/ EndDesktop(r) \/ EndUnrecorded(r) \/ Finalize(r) \/ Checkpoint(r) \/ Release(r)
             \/ Close(r)
      PROVE  CancelsFit'
  <2>1. UNCHANGED <<queue, cancel>>
    BY <1>5, Zenon DEF Submit, SaveQueued, Load, CheckSpec, Promote, GiveBack, Reregister, Activate,
       EndTurn, Timeout, EndDesktop, EndUnrecorded, Finalize, Checkpoint, Release, Close, memory
  <2>2. lanes' = lanes \/ lanes' = Unreserved(r) \/ lanes' = Idle(r)
    <3>1. CASE Timeout(r)
      BY <3>1 DEF Timeout
    <3>2. CASE ~Timeout(r)
      BY <1>5, <3>2, Zenon DEF Submit, SaveQueued, Load, CheckSpec, Promote, GiveBack, Reregister,
         Activate, EndTurn, EndDesktop, EndUnrecorded, Finalize, Checkpoint, Release, Close,
         memory, ReleaseTurn
    <3> QED
      BY <3>1, <3>2
  <2>3. \E to : /\ to \notin {"turn", "ready"} /\ phase' = [phase EXCEPT ![r] = to]
                /\ phase[r] # "waiting"
    <3>1. CASE Submit(r)
      <4>1. phase[r] = "new" /\ \E to \in {"asked", "toqueue"} : phase' = [phase EXCEPT ![r] = to]
        BY <3>1 DEF Submit, Goes
      <4> QED
        BY <4>1
    <3>2. CASE SaveQueued(r) \/ Load(r) \/ CheckSpec(r) \/ Promote(r)
      <4>1. /\ phase[r] \in {"toqueue", "taken", "loaded", "checked"}
            /\ \E to \in {"saved", "loaded", "over", "checked", "activating", "refused"} :
                  phase' = [phase EXCEPT ![r] = to]
        BY <3>2 DEF SaveQueued, Load, CheckSpec, Promote, Goes
      <4> QED
        BY <4>1
    <3>3. CASE GiveBack(r) \/ Reregister(r) \/ Activate(r)
      <4>1. /\ phase[r] \in {"refused", "reregister", "reserved", "begun"}
            /\ \E to \in {"reregister", "requeue", "over", "activating", "unrecorded"} :
                  phase' = [phase EXCEPT ![r] = to]
        BY <3>3 DEF GiveBack, Reregister, Activate, Goes
      <4> QED
        BY <4>1
    <3>4. CASE EndTurn(r) \/ Timeout(r) \/ EndDesktop(r)
      <4>1. phase[r] = "turn" /\ phase' = [phase EXCEPT ![r] = "final"]
        BY <3>4 DEF EndTurn, Timeout, EndDesktop, Goes, Ends
      <4> QED
        BY <4>1
    <3>5. CASE EndUnrecorded(r) \/ Finalize(r) \/ Checkpoint(r) \/ Release(r) \/ Close(r)
      <4>1. /\ phase[r] \in {"unrecorded", "final", "finalized", "checkpointed", "closing"}
            /\ \E to \in {"closing", "finalizing", "checkpointed", "over"} :
                  phase' = [phase EXCEPT ![r] = to]
        BY <3>5 DEF EndUnrecorded, Finalize, Checkpoint, Release, Close, Goes
      <4> QED
        BY <4>1
    <3> QED
      BY <1>5, <3>1, <3>2, <3>3, <3>4, <3>5
  <2> QED
    BY <1>3, <1>4, <2>1, <2>2, <2>3
<1>6. ASSUME NEW r \in Runs, Reserve(r) PROVE CancelsFit'
  <2>1. phase[r] = "asked" /\ UNCHANGED <<queue, cancel>>
    BY <1>6, Zenon DEF Reserve, Goes
  <2>2. CASE LaneFree(r) /\ Cardinality(admitted) < Limit
    <3>1. /\ phase' = [phase EXCEPT ![r] = "reserved"] /\ LaneFree(r)
          /\ lanes' = [lanes EXCEPT ![LaneOf[r]] = [at |-> "reserved", by |-> r]]
      BY <1>6, <2>2 DEF Reserve, Goes
    <3>2. OtherLanes(r) /\ ~Busy(r)'
      BY <1>0, <3>1, LaneEffects
    <3>3. phase[r] # "waiting" /\ "reserved" \notin {"turn", "ready"}
      BY <2>1
    <3> QED
      BY <1>3, <2>1, <3>1, <3>2, <3>3, Zenon
  <2>3. CASE ~(LaneFree(r) /\ Cardinality(admitted) < Limit)
    <3>1. phase' = [phase EXCEPT ![r] = "toqueue"] /\ lanes' = lanes
      BY <1>6, <2>3 DEF Reserve, Goes
    <3>2. OtherLanes(r) /\ (Busy(r)' => Busy(r))
      BY <1>4, <3>1
    <3>3. phase[r] # "waiting" /\ "toqueue" \notin {"turn", "ready"}
      BY <2>1
    <3> QED
      BY <1>3, <2>1, <3>1, <3>2, <3>3, Zenon
  <2> QED
    BY <2>2, <2>3
<1>7. ASSUME NEW r \in Runs, Enqueue(r) \/ Requeue(r) PROVE CancelsFit'
  <2>1. /\ UNCHANGED <<lanes, cancel>> /\ phase[r] \in {"saved", "requeue"}
        /\ \E to : to \in {"waiting", "over"} /\ phase' = [phase EXCEPT ![r] = to]
        /\ queue' = queue \/ queue' = Append(queue, r) \/ queue' = <<r>> \o queue
    BY <1>7 DEF Enqueue, Requeue, Goes
  <2>2. r \notin ToSet(queue)
    BY <1>0, <2>1 DEF QueuesFit
  <2>3. ToSet(queue') \subseteq ToSet(queue) \cup {r}
    <3>1. ToSet(Append(queue, r)) = ToSet(queue) \cup {r}
      BY <1>0, <2>2, Appended
    <3>2. ToSet(<<r>> \o queue) = ToSet(queue) \cup {r}
      BY <1>0, <2>2, Prepended
    <3> QED
      BY <2>1, <3>1, <3>2, Zenon
  <2> QED
    BY <1>3, <1>4, <2>1, <2>3
<1>8. ASSUME NEW r \in Runs, Claim(r) PROVE CancelsFit'
  <2>1. /\ UNCHANGED <<phase, queue, cancel>> /\ LaneFree(r) /\ r \in ToSet(slots)
        /\ lanes' = [lanes EXCEPT ![LaneOf[r]] = [at |-> "reserved", by |-> r]]
    BY <1>8, Zenon DEF Claim, Selected, Eligible
  <2>2. OtherLanes(r) /\ ~Busy(r)'
    BY <1>0, <2>1, LaneEffects
  <2>3. phase[r] \in {"waiting", "requeue"}
    BY <1>0, <2>1 DEF QueuesFit
  <2>4. CancelFits(r)'
    BY <1>1, <2>1, <2>2, <2>3
  <2>5. ASSUME NEW q \in Runs \ {r} PROVE CancelFits(q)'
    BY <1>2, <2>1, <2>2
  <2> QED
    BY <2>4, <2>5 DEF CancelsFit
<1>9. ASSUME NEW r \in Runs, Take(r) PROVE CancelsFit'
  <2>1. cancel' = cancel /\ (lanes' = lanes \/ lanes' = Unreserved(r))
    BY <1>9, Zenon DEF Take, ReleaseTurn
  <2>2. OtherLanes(r) /\ (Busy(r)' => Busy(r)) /\ (Reserved(r)' => Reserved(r))
    BY <1>4, <2>1
  <2>3. /\ ToSet(queue') \subseteq ToSet(queue)
        /\ \A q \in Runs \ {r} : phase'[q] = phase[q]
        /\ \/ phase'[r] = phase[r]
           \/ r \in ToSet(queue) /\ phase'[r] = "taken"
    <3>1. CASE r \in ToSet(queue)
      <4>1. queue' = Without(queue, r) /\ phase' = [phase EXCEPT ![r] = "taken"]
        BY <1>9, <3>1 DEF Take
      <4> QED
        BY <1>0, <3>1, <4>1, WithoutProperties
    <3>2. CASE r \notin ToSet(queue)
      BY <1>9, <3>2 DEF Take
    <3> QED
      BY <3>1, <3>2
  <2>4. CancelFits(r)'
    BY <1>1, <2>1, <2>2, <2>3
  <2>5. ASSUME NEW q \in Runs \ {r} PROVE CancelFits(q)'
    BY <1>2, <2>1, <2>2, <2>3
  <2> QED
    BY <2>4, <2>5 DEF CancelsFit
<1>10. ASSUME NEW r \in Runs, CheckTurn(r) PROVE CancelsFit'
  <2>1. /\ UNCHANGED <<queue, lanes, cancel>> /\ phase[r] = "spawned"
    BY <1>10, Zenon DEF CheckTurn, memory, Goes, Ends
  <2>2. CASE phase' = [phase EXCEPT ![r] = "final"]
    <3>1. OtherLanes(r) /\ (Busy(r)' => Busy(r))
      BY <1>4, <2>1
    <3>2. phase[r] # "waiting" /\ "final" \notin {"turn", "ready"}
      BY <2>1
    <3> QED
      BY <1>3, <2>1, <2>2, <3>1, <3>2, Zenon
  <2>3. CASE phase' = [phase EXCEPT ![r] = "ready"] /\ runs[r].state = "Running"
    <3>1. cancel[r] = "none"
      BY <1>0, <2>3 DEF CancelFits, Terminal
    <3>2. phase'[r] = "ready" /\ \A q \in Runs \ {r} : phase'[q] = phase[q]
      BY <1>0, <2>3
    <3>3. CancelFits(r)'
      BY <1>1, <2>1, <3>1, <3>2
    <3>4. ASSUME NEW q \in Runs \ {r} PROVE CancelFits(q)'
      BY <1>2, <1>4, <2>1, <3>2
    <3> QED
      BY <3>3, <3>4 DEF CancelsFit
  <2> QED
    BY <1>10, <2>2, <2>3 DEF CheckTurn, Goes, Ends
<1>11. ASSUME NEW r \in Runs, EnterTurn(r) PROVE CancelsFit'
  <2>1. /\ UNCHANGED <<queue, cancel>> /\ phase[r] = "ready"
    BY <1>11, Zenon DEF EnterTurn, Goes, Ends
  <2>2. CASE ~Reserved(r)
    <3>1. phase' = [phase EXCEPT ![r] = "final"] /\ lanes' = lanes
      BY <1>11, <2>2 DEF EnterTurn, Goes, Ends
    <3> QED
      BY <1>3, <1>4, <2>1, <3>1
  <2>3. CASE Reserved(r)
    <3>1. /\ phase' = [phase EXCEPT ![r] = "turn"]
          /\ lanes' = [lanes EXCEPT ![LaneOf[r]] = [at |-> "busy", by |-> r]]
      BY <1>11, <2>3 DEF EnterTurn, Goes
    <3>2. OtherLanes(r)
      BY <1>0, <2>3, <3>1, LaneEffects
    <3>3. cancel[r] # "released"
      BY <1>0, <2>1, <2>3 DEF CancelFits
    <3>4. phase'[r] = "turn" /\ \A q \in Runs \ {r} : phase'[q] = phase[q]
      BY <1>0, <3>1
    <3>5. CancelFits(r)'
      BY <1>1, <2>1, <3>3, <3>4
    <3>6. ASSUME NEW q \in Runs \ {r} PROVE CancelFits(q)'
      BY <1>2, <2>1, <3>2, <3>4
    <3> QED
      BY <3>5, <3>6 DEF CancelsFit
  <2> QED
    BY <2>2, <2>3
<1>12. ASSUME NEW r \in Runs, BeginDesktop(r) PROVE CancelsFit'
  <2>1. /\ UNCHANGED <<queue, cancel>> /\ phase[r] = "new" /\ LaneFree(r)
        /\ phase' = [phase EXCEPT ![r] = "begun"]
        /\ lanes' = [lanes EXCEPT ![LaneOf[r]] = [at |-> "busy", by |-> r]]
    BY <1>12 DEF BeginDesktop, Goes
  <2>2. OtherLanes(r)
    BY <1>0, <2>1, LaneEffects
  <2>3. runs[r].state = "absent"
    BY <2>1 DEF IInv, RecordsFit, StateFits, Unwritten
  <2>4. cancel[r] = "none"
    BY <1>0, <2>3 DEF CancelFits, Terminal
  <2>5. phase'[r] = "begun" /\ \A q \in Runs \ {r} : phase'[q] = phase[q]
    BY <1>0, <2>1
  <2>6. CancelFits(r)'
    BY <1>1, <2>1, <2>4, <2>5
  <2>7. ASSUME NEW q \in Runs \ {r} PROVE CancelFits(q)'
    BY <1>2, <2>1, <2>2, <2>5
  <2> QED
    BY <2>6, <2>7 DEF CancelsFit
<1>13. CASE UNCHANGED <<phase, queue, lanes, cancel>>
  <2>1. ASSUME NEW q \in Runs PROVE CancelFits(q)'
    <3>1. (Busy(q)' <=> Busy(q)) /\ (Reserved(q)' <=> Reserved(q))
      BY <1>13, Zenon DEF Busy, Reserved
    <3> QED
      BY <1>1, <1>13, <3>1
  <2> QED
    BY <2>1 DEF CancelsFit
<1>14. ASSUME NEW r \in Runs, MarkCancelled(r) PROVE CancelsFit'
  <2>1. /\ UNCHANGED <<phase, queue, lanes>> /\ cancel' = [cancel EXCEPT ![r] = "marked"]
        /\ runs' = [runs EXCEPT ![r].state = "Cancelled"]
    BY <1>14 DEF MarkCancelled, Cancels, SetState, memory
  <2>2. cancel'[r] = "marked" /\ runs'[r].state \in Terminal
    BY <1>0, <2>1 DEF TypeOK, Run, Terminal
  <2>3. CancelFits(r)'
    BY <2>2 DEF CancelFits
  <2>4. ASSUME NEW q \in Runs \ {r} PROVE CancelFits(q)'
    BY <1>0, <1>2, <1>4, <2>1
  <2> QED
    BY <2>3, <2>4 DEF CancelsFit
<1>15. ASSUME NEW r \in Runs, RemovePending(r) PROVE CancelsFit'
  <2>1. /\ UNCHANGED <<phase, lanes>> /\ queue' = Without(queue, r) /\ cancel[r] = "marked"
        /\ cancel' = [cancel EXCEPT ![r] = IF r \in ToSet(queue) THEN "unslot" ELSE "release"]
    BY <1>15 DEF RemovePending, Cancels
  <2>2. ToSet(queue') = ToSet(queue) \ {r}
    BY <1>0, <2>1, WithoutProperties
  <2>3. /\ (r \in ToSet(queue) /\ cancel'[r] = "unslot") \/ cancel'[r] = "release"
        /\ \A q \in Runs \ {r} : cancel'[q] = cancel[q]
    BY <1>0, <2>1
  <2>4. r \in ToSet(queue) => phase[r] = "waiting"
    BY <1>0 DEF QueuesFit
  <2>5. runs'[r].state \in Terminal
    BY <1>0, <1>a, <2>1 DEF CancelFits
  <2>6. CancelFits(r)'
    BY <2>1, <2>2, <2>3, <2>4, <2>5 DEF CancelFits
  <2>7. ASSUME NEW q \in Runs \ {r} PROVE CancelFits(q)'
    BY <1>2, <1>4, <2>1, <2>2, <2>3
  <2> QED
    BY <2>6, <2>7 DEF CancelsFit
<1>16. ASSUME NEW r \in Runs, ReleaseSlot(r) \/ ReleaseReservation(r) PROVE CancelsFit'
  <2>1. /\ UNCHANGED <<phase, queue>> /\ lanes' = Unreserved(r)
        /\ \/ cancel[r] = "unslot" /\ cancel' = [cancel EXCEPT ![r] = "dequeued"]
           \/ /\ cancel[r] = "release" /\ Reserved(r)
              /\ cancel' = [cancel EXCEPT ![r] = "released"]
           \/ cancel[r] = "release" /\ cancel' = [cancel EXCEPT ![r] = "over"]
    BY <1>16 DEF ReleaseSlot, ReleaseReservation, Cancels
  <2>2. OtherLanes(r) /\ (Busy(r)' <=> Busy(r)) /\ ~Reserved(r)'
    BY <1>0, <2>1, LaneEffects
  <2>3. runs'[r].state \in Terminal
    BY <1>0, <1>a, <2>1 DEF CancelFits
  <2>4. Reserved(r) => ~Busy(r) /\ phase[r] # "turn"
    <3>1. Reserved(r) => ~Busy(r)
      BY DEF Reserved, Busy
    <3>2. phase[r] = "turn" => Busy(r)
      BY <1>0 DEF LaneFits
    <3> QED
      BY <3>1, <3>2
  <2>5. /\ \/ cancel[r] = "unslot" /\ cancel'[r] = "dequeued"
           \/ Reserved(r) /\ cancel'[r] = "released"
           \/ cancel'[r] = "over"
        /\ \A q \in Runs \ {r} : cancel'[q] = cancel[q]
    BY <1>0, <2>1
  <2>6. CancelFits(r)'
    BY <1>0, <2>1, <2>2, <2>3, <2>4, <2>5 DEF CancelFits
  <2>7. ASSUME NEW q \in Runs \ {r} PROVE CancelFits(q)'
    BY <1>2, <2>1, <2>2, <2>5
  <2> QED
    BY <2>6, <2>7 DEF CancelsFit
<1>17. CASE ClearIntent
  <2>1. /\ job.kind = "activate" /\ job.step = "clear" /\ UNCHANGED <<queue, lanes, cancel>>
    BY <1>17 DEF ClearIntent, At, memory
  <2>2. job.run \in Runs /\ runs[job.run].state = "Running"
    BY <2>1, ActivationPhase DEF IInv, ActivationFits
  <2>3. cancel[job.run] = "none"
    BY <1>0, <2>2 DEF CancelFits, Terminal
  <2>4. /\ \A q \in Runs \ {job.run} : phase'[q] = phase[q]
        /\ phase[job.run] = "waiting" => phase' = phase
    BY <1>0, <1>17, <2>2 DEF ClearIntent
  <2>5. ASSUME NEW q \in Runs PROVE CancelFits(q)'
    <3>1. (Busy(q)' <=> Busy(q)) /\ (Reserved(q)' <=> Reserved(q))
      BY <2>1, Zenon DEF Busy, Reserved
    <3> QED
      BY <1>1, <2>1, <2>3, <2>4, <3>1
  <2> QED
    BY <2>5 DEF CancelsFit
<1>18. CASE ClearFinal
  <2>1. /\ job.run \in Runs /\ UNCHANGED <<queue, lanes, cancel>>
    BY <1>0, <1>18, JobCases DEF ClearFinal, At, memory
  <2>2. \/ phase' = phase
        \/ phase[job.run] = "finalizing" /\ phase' = [phase EXCEPT ![job.run] = "finalized"]
    BY <1>18, Zenon DEF ClearFinal
  <2> QED
    BY <1>3, <1>4, <1>13, <2>1, <2>2
<1>19. CASE \/ InstallRun \/ InstallAgent \/ Seal \/ InstallFinal \/ RecoverActivation \/ RecoverFinal
            \/ Opened \/ UNCHANGED vars
  <2>1. UNCHANGED <<phase, queue, lanes, cancel>>
    BY <1>19 DEF memory, vars, InstallRun, InstallAgent, Seal, InstallFinal, RecoverActivation,
       RecoverFinal, Opened
  <2> QED
    BY <1>13, <2>1
<1>20. CASE Crash
  <2>1. /\ \A q \in Runs : cancel'[q] \in {"none", "over"} /\ (cancel'[q] # "none" => cancel[q] # "none")
        /\ runs' = runs
    BY <1>20 DEF Crash, files
  <2> QED
    BY <1>0, <2>1 DEF CancelsFit, CancelFits
<1>21. ASSUME NEW a \in Agents, ReviseSpec(a) \/ FreeAgent(a) PROVE CancelsFit'
  <2>1. UNCHANGED <<phase, queue, lanes, cancel>>
    BY <1>21 DEF ReviseSpec, FreeAgent, memory
  <2> QED
    BY <1>13, <2>1
<1>22. ASSUME NEW r \in Runs, Observe(r) \/ Interrupt(r) PROVE CancelsFit'
  <2>1. UNCHANGED <<phase, queue, lanes, cancel>>
    BY <1>22 DEF Observe, Interrupt, memory
  <2> QED
    BY <1>13, <2>1
<1> QED
  BY <1>5, <1>6, <1>7, <1>8, <1>9, <1>10, <1>11, <1>12, <1>14, <1>15, <1>16, <1>17, <1>18, <1>19,
     <1>20, <1>21, <1>22, Zenon DEF Next, Drive, DesktopTurn, CancelRun, WriteJob, Recover

-----------------------------------------------------------------------------
(* The inductive invariant and what follows from it *)

\* The invariant holds at first.
LEMMA InitHolds ==
    ASSUME Init
    PROVE  IInv
<1>1. TypeOK
  <2>1. Cardinality({}) = 0 /\ Limit \in Nat /\ MaxQueue \in Nat
    BY FS_EmptySet, RunsAssumption
  <2>2. /\ queue \in Seq(Runs) /\ slots \in Seq(Runs) /\ Len(slots) <= MaxQueue
        /\ admitted \subseteq Runs /\ Cardinality(admitted) <= Limit /\ claimed \subseteq Runs
    BY <2>1 DEF Init
  <2>3. runs \in [Runs -> Run] /\ agents \in [Agents -> Agent]
    BY RunsAssumption DEF Init, Run, Agent
  <2> QED
    BY <2>2, <2>3, RunsAssumption DEF TypeOK, Init, Phase
<1>2. /\ \A r \in Runs : phase[r] = "new" /\ runs[r].state = "absent" /\ cancel[r] = "none"
      /\ \A r \in Runs : cand[r] = NoCandidate /\ lanes[LaneOf[r]] = Free
      /\ \A a \in Agents : agents[a].current = None
      /\ intent = NoIntent /\ final = NoCandidate /\ job.kind = "none" /\ store = "up"
      /\ queue = << >> /\ slots = << >> /\ claimed = {} /\ admitted = {}
  BY RunsAssumption, Shapes DEF Init
<1>3. RecordsFit /\ AgentsFit /\ IntentFits /\ ActivationFits /\ FinalizationFits
  BY <1>2 DEF RecordsFit, StateFits, AgentsFit, IntentFits, ActivationFits, FinalizationFits, Active,
     Unwritten, Queueing, Executing
<1>4. CandidatesFit /\ CancelsFit /\ CrashesAreRecovered
  BY <1>2 DEF CandidatesFit, CancelsFit, CancelFits, CrashesAreRecovered
<1>5. LanesFit
  <2>1. \A r \in Runs : ~Busy(r)
    BY <1>2 DEF Busy, Free
  <2> QED
    BY <1>2, <2>1 DEF LanesFit, LaneFits, Submitted, Queueing
<1>6. QueuesFit
  <2>1. ToSet(<< >>) = {} /\ Simple(<< >>) /\ IsFiniteSet({})
    BY FS_EmptySet DEF ToSet, Simple
  <2> QED
    BY <1>2, <2>1 DEF QueuesFit
<1> QED
  BY <1>1, <1>3, <1>4, <1>5, <1>6 DEF IInv

\* Every behaviour keeps the inductive invariant: files, tasks, lanes, queues and cancellations
\* stay in step, with a crash or a failed removal at any point.
THEOREM Inductive == Spec => []IInv
<1>1. Init => IInv
  BY InitHolds
<1>2. IInv /\ [Next]_vars => IInv'
  BY TypeStep, CoreStep, CandidateStep, LaneStep, QueueStep, CancelStep, RefusalStep DEF IInv, Core
<1> QED
  BY <1>1, <1>2, PTL DEF Spec

\* Every record keeps its shape, the ledger of the host its length and the admissions their limit.
THEOREM TypeCorrect == Spec => []TypeOK
<1>1. IInv => TypeOK
  BY DEF IInv
<1> QED
  BY <1>1, Inductive, PTL

\* Two lanes never execute under one Agent, whichever activation of them came first and wherever
\* the one before it was interrupted (save_run_and_activate_agent, persist_agent_checkpoint).
THEOREM OneRunPerAgent == Spec => []OneActiveRun
<1>1. ASSUME IInv PROVE OneActiveRun
  <2> SUFFICES ASSUME LockFree, NEW r \in Runs,
                      runs[r].state = "Running" \/ phase[r] \in {"ready", "turn"}
               PROVE  agents[AgentOf[r]].current = r
    BY DEF OneActiveRun
  <2>1. job.kind = "none" /\ store = "up"
    BY Shapes DEF LockFree
  <2>2. phase[r] # "activating"
    BY <1>1, <2>1 DEF IInv, ActivationFits
  <2>3. phase[r] \in Active
    BY <1>1, <2>1, <2>2 DEF IInv, RecordsFit, Executing, Active
  <2> QED
    BY <1>1, <2>3 DEF IInv, AgentsFit
<1> QED
  BY <1>1, Inductive, PTL

\* A store whose intents can be removed always opens again (recover_agent_activation_intents,
\* recover_finalization_intents).
THEOREM StoreOpensAgain == Spec => []CrashesAreRecovered
<1>1. IInv => CrashesAreRecovered
  BY DEF IInv
<1> QED
  BY <1>1, Inductive, PTL

\* A Run that ptah_cancel took from the queue, or whose reservation it released, has no turn.
THEOREM CancellationHolds == Spec => []CancelledBeforeStart
<1>1. ASSUME IInv PROVE CancelledBeforeStart
  <2> SUFFICES ASSUME NEW r \in Runs, cancel[r] \in {"dequeued", "released"}
               PROVE  phase[r] # "turn" /\ ~Busy(r)
    BY DEF CancelledBeforeStart
  <2>1. CancelFits(r) /\ LaneFits(r)
    BY <1>1 DEF IInv, CancelsFit, LanesFit
  <2>2. phase[r] = "waiting" => ~Busy(r)
    BY <2>1 DEF LaneFits, Holding, Active
  <2> QED
    BY <2>1, <2>2 DEF CancelFits
<1> QED
  BY <1>1, Inductive, PTL

\* A finalization, a late cancellation, a recovery or a second turn never replaces an outcome
\* (persist_finalization, ptah_cancel, mark_unfinished_interrupted).
THEOREM OutcomesStay == Spec => OutcomeIsFinal
<1>1. ASSUME IInv, [Next]_vars
      PROVE  \A r \in Runs :
                runs[r].state \in Terminal /\ runs'[r].state # runs[r].state
                  => /\ runs[r].state = "Cancelled" /\ runs'[r].state = "Failed"
                     /\ phase[r] \in {"saved", "loaded"}
  BY <1>1, RecordsKept DEF Kept
<1> QED
  BY <1>1, Inductive, PTL DEF Spec, OutcomeIsFinal

\* What a step does to the file of an Agent.
LEMMA AgentsKept ==
    ASSUME IInv, [Next]_vars, NEW a \in Agents
    PROVE  /\ agents[a].current # None /\ agents'[a].current # agents[a].current
                => runs[agents[a].current].state \in Terminal
           /\ faults = 0 => agents'[a].spec >= agents[a].spec
<1>0. /\ TypeOK /\ agents \in [Agents -> Agent] /\ agents[a] \in Agent
      /\ agents[a].spec \in Nat /\ runs \in [Runs -> Run] /\ AgentOf \in [Runs -> Agents]
  BY RunsAssumption DEF IInv, TypeOK, Agent
<1>1. CASE agents'[a] = agents[a]
  BY <1>0, <1>1
<1>2. ASSUME NEW r \in Runs, Checkpoint(r), agents'[a] # agents[a]
      PROVE  /\ agents'[a].spec = agents[a].spec /\ runs[agents[a].current].state \in Terminal
  <2>1. phase[r] = "finalized" /\ agents' = [agents EXCEPT ![AgentOf[r]].current = None]
    BY <1>2 DEF Checkpoint, Goes
  <2>2. a = AgentOf[r]
    BY <1>0, <1>2, <2>1
  <2>3. agents[a].current = r
    BY <2>1, <2>2 DEF IInv, AgentsFit, Active
  <2>4. runs[r].state \in Terminal
    BY <2>1 DEF IInv, RecordsFit, StateFits
  <2> QED
    BY <1>0, <2>1, <2>2, <2>3, <2>4 DEF Agent
<1>3. ASSUME NEW b \in Agents, FreeAgent(b), agents'[a] # agents[a]
      PROVE  /\ agents'[a].spec = agents[a].spec /\ runs[agents[a].current].state \in Terminal
  <2>1. /\ Unfinished = {} /\ agents[b].current # None
        /\ agents' = [agents EXCEPT ![b].current = None]
    BY <1>3 DEF FreeAgent
  <2>2. a = b
    BY <1>0, <1>3, <2>1
  <2>3. agents[a].current \in Runs /\ runs[agents[a].current].state # "absent"
    BY <1>0, <2>1, <2>2 DEF IInv, AgentsFit, Agent
  <2>4. \A q \in Runs : runs[q].state \notin {"Queued", "Running"}
    BY <2>1 DEF Unfinished
  <2>5. runs[agents[a].current].state \in {"absent", "Queued", "Running"} \cup Terminal
    BY <1>0, <2>3 DEF Run
  <2>6. agents'[a].spec = agents[a].spec
    BY <1>0, <2>1, <2>2 DEF Agent
  <2> QED
    BY <2>3, <2>4, <2>5, <2>6
<1>4. ASSUME NEW b \in Agents, ReviseSpec(b)
      PROVE  agents'[a].current = agents[a].current /\ agents'[a].spec >= agents[a].spec
  <2>1. agents' = [agents EXCEPT ![b].spec = @ + 1]
    BY <1>4 DEF ReviseSpec
  <2>2. CASE a = b
    <3>1. agents'[a] = [agents[a] EXCEPT !.spec = @ + 1]
      BY <1>0, <2>1, <2>2
    <3> QED
      BY <1>0, <3>1 DEF Agent
  <2>3. CASE a # b
    BY <1>0, <2>1, <2>3
  <2> QED
    BY <2>2, <2>3
<1>5. ASSUME InstallAgent, agents'[a] # agents[a]
      PROVE  /\ agents[a].current # None => agents'[a].current = agents[a].current
             /\ faults = 0 => agents'[a].spec = agents[a].spec
  <2>1. job.kind = "activate" /\ agents' = [agents EXCEPT ![AgentOf[job.run]] = intent.agent]
    BY <1>5 DEF InstallAgent, At
  <2>2. /\ job.run \in Runs /\ intent.run = job.run /\ intent.agent.current = job.run
        /\ intent # NoIntent
    BY <2>1, ActivationPhase, Shapes
  <2>3. a = AgentOf[job.run] /\ agents'[a] = intent.agent
    BY <1>0, <1>5, <2>1, <2>2
  <2>4. agents[a].current \in {None, job.run}
    BY <2>1, <2>2, <2>3 DEF IInv, ActivationFits, Consistent
  <2>5. faults = 0 => intent.agent.spec = agents[a].spec
    BY <2>2, <2>3 DEF IInv, IntentFits
  <2> QED
    BY <2>2, <2>3, <2>4, <2>5
<1>6. ASSUME NEW r \in Runs,
             \/ Submit(r) \/ Claim(r) \/ Observe(r) \/ DesktopTurn(r) \/ CancelRun(r) \/ Interrupt(r)
             \/ Drive(r) /\ ~Checkpoint(r)
      PROVE  agents' = agents
  BY <1>6, Zenon DEF files, Submit, Claim, Observe, Drive, DesktopTurn, Interrupt, Reserve, SaveQueued,
     Enqueue, Take, Load, CheckSpec, Promote, GiveBack, Reregister, Requeue, Activate, CheckTurn,
     EnterTurn, EndTurn, Timeout, Finalize, Release, Close, BeginDesktop, EndDesktop,
     EndUnrecorded, CancelRun, MarkCancelled, RemovePending, ReleaseSlot, ReleaseReservation
<1>7. CASE \/ InstallRun \/ ClearIntent \/ Seal \/ InstallFinal \/ ClearFinal \/ RecoverActivation
           \/ RecoverFinal \/ Opened \/ Crash \/ UNCHANGED vars
  <2>1. agents' = agents
    BY <1>7 DEF files, vars, InstallRun, ClearIntent, Seal, InstallFinal, ClearFinal,
       RecoverActivation, RecoverFinal, Opened, Crash
  <2> QED
    BY <1>1, <2>1
<1>8. ASSUME agents'[a] # agents[a]
      PROVE  \/ \E r \in Runs : Checkpoint(r)
             \/ \E b \in Agents : FreeAgent(b) \/ ReviseSpec(b)
             \/ InstallAgent
             \/ \/ InstallRun \/ ClearIntent \/ Seal \/ InstallFinal \/ ClearFinal
                \/ RecoverActivation \/ RecoverFinal \/ Opened \/ Crash \/ UNCHANGED vars
  BY <1>6, <1>8, Zenon DEF Next, WriteJob, Recover
<1>9. CASE agents'[a] # agents[a]
  BY <1>0, <1>2, <1>3, <1>4, <1>5, <1>7, <1>8, <1>9
<1> QED
  BY <1>1, <1>9

\* An Agent leaves a Run only when the Run has its outcome (spawn_run, finalize_desktop_run,
\* mark_unfinished_interrupted).
THEOREM AgentsWait == Spec => ReleasedWhenOver
<1>1. ASSUME IInv, [Next]_vars
      PROVE  \A a \in Agents :
                agents[a].current # None /\ agents'[a].current # agents[a].current
                  => runs[agents[a].current].state \in Terminal
  BY <1>1, AgentsKept
<1> QED
  BY <1>1, Inductive, PTL DEF Spec, ReleasedWhenOver

\* No observation of a Run is lost, and no revision of an Agent while removals succeed
\* (merge_run_observations, update_agent, recover_agent_activation_intents).
THEOREM RecordsGrow == Spec => NothingIsLost
<1>1. ASSUME IInv, [Next]_vars
      PROVE  /\ \A r \in Runs : runs'[r].obs >= runs[r].obs
             /\ faults = 0 => \A a \in Agents : agents'[a].spec >= agents[a].spec
  BY <1>1, RecordsKept, AgentsKept DEF Kept
<1> QED
  BY <1>1, Inductive, PTL DEF Spec, NothingIsLost

=============================================================================
