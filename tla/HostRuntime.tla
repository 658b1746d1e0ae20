---------------------------- MODULE HostRuntime ----------------------------
(***************************************************************************)
(* The host runtime of the agent bridge: who may write a GrokPtah home.    *)
(*                                                                         *)
(* One HostRuntime holds the advisory lock of the home.  Its lifecycle     *)
(* admits supervised tasks, control servers and shutdown hooks, hands out  *)
(* guards for durable writes, and owns two writer threads, the event       *)
(* journal and the orchestration audit.  An ordered shutdown stops all of  *)
(* them and then either releases the lock or moves it into quarantine for  *)
(* the life of the process.  The shutdown is an async function: its caller *)
(* may drop it at any await and call it again, and the runtime itself may  *)
(* be dropped without it.  Time is not modelled: a bounded wait that is    *)
(* not over may give up at any moment.                                     *)
(***************************************************************************)
EXTENDS Naturals, FiniteSets

CONSTANTS
    Tasks,          \* supervised tasks and tracked futures
    ExpectedAbort,  \* the tasks whose owner stops them with JoinHandle::abort
    Servers,        \* control servers
    Hooks,          \* shutdown hooks
    Handles,        \* clones of request and store handles that write the home
    MaxQueued,      \* capacity of a writer thread's channel
    MaxCalls        \* bound on the number of calls of shutdown

ASSUME LimitsAssumption == MaxQueued \in Nat \ {0} /\ MaxCalls \in Nat

ASSUME SetsAssumption ==
    /\ IsFiniteSet(Tasks) /\ IsFiniteSet(Servers)
    /\ IsFiniteSet(Hooks) /\ IsFiniteSet(Handles)
    /\ ExpectedAbort \subseteq Tasks
    /\ Tasks \cap Servers = {} /\ Tasks \cap Hooks = {} /\ Servers \cap Hooks = {}
    /\ Handles \cap {"journal", "audit"} = {}

VARIABLES
    phase,      \* HostPhase of the lifecycle
    gate,       \* admissions that hold the spawn gate for reading
    running,    \* supervised tasks that have not ended
    failures,   \* whether supervised_failures is not empty
    cancelled,  \* the lifecycle's cancellation token
    listed,     \* control servers attached to the runtime
    live,       \* control servers that still serve
    stopping,   \* control_servers_stopping, which outlives a dropped shutdown
    hooks,      \* hooks registered and not run
    writing,    \* handles and threads in the middle of a durable write
    inFlight,   \* in_flight_writes
    sealed,     \* writes_sealed
    chan,       \* the two writer threads with their channels
    lock,       \* the runtime's hold on the advisory lock
    rival,      \* another process, runtime or offline handle has the lock
    call,       \* the shutdown in progress: where it is and its locals
    calls       \* calls of shutdown so far

admission == <<gate, running, failures, listed, live, hooks>>
writes    == <<writing, inFlight>>
vars == <<phase, gate, running, failures, cancelled, listed, live,
          stopping, hooks, writing, inFlight, sealed, chan, lock, rival, call, calls>>

Work     == Tasks \cup Servers \cup Hooks
Channels == {"journal", "audit"}
HostPhase == {"running", "quiescing", "closed"}

Channel == [open : BOOLEAN, detached : BOOLEAN, queue : 0..MaxQueued,
            thread : {"running", "stopped", "panicked"},
            fault : BOOLEAN,      \* persistence_error, last_audit_error
            missing : BOOLEAN]    \* an entry was taken and never written

\* The points of shutdown at which another actor can see it.
ShutdownPoint == {"idle", "admission", "servers", "join", "close_journal", "await_journal",
                  "close_audit", "await_audit", "seal", "await_seal", "flush", "decide"}

\* The points where the shutdown future awaits and can be dropped by its caller.
AwaitPoint == {"servers", "join", "await_journal", "await_audit", "await_seal"}

\* `doubt` stands for a non-empty join_errors or flush_errors, or join_timed_out.
Call == [pc : ShutdownPoint, servers : SUBSET Servers, doubt : BOOLEAN, sealHeld : BOOLEAN]

NoCall == [pc |-> "idle", servers |-> {}, doubt |-> FALSE, sealHeld |-> FALSE]

Init ==
    /\ phase = "running" /\ gate = {} /\ running = {}
    /\ failures = FALSE /\ cancelled = FALSE
    /\ listed = {} /\ live = {} /\ stopping = 0
    /\ hooks = {}
    /\ writing = {} /\ inFlight = 0 /\ sealed = FALSE
    /\ chan = [c \in Channels |-> [open |-> TRUE, detached |-> FALSE, queue |-> 0,
                                   thread |-> "running", fault |-> FALSE, missing |-> FALSE]]
    /\ lock = "held" /\ rival = FALSE
    /\ call = NoCall /\ calls = 0

-----------------------------------------------------------------------------
(* Admission: every registration takes the spawn gate for reading and       *)
(* checks the phase under it.                                               *)

EnterGate(x) ==
    /\ x \notin gate \cup running \cup listed \cup live \cup hooks
    /\ phase = "running"
    /\ gate' = gate \cup {x}
    /\ UNCHANGED <<phase, running, failures, cancelled, listed, live,
                   stopping, hooks, writes, sealed, chan, lock, rival, call, calls>>

\* spawn_supervised and track_future, attach_control_server, register_shutdown_hook.
Register(x) ==
    /\ x \in gate
    /\ gate' = gate \ {x}
    /\ running' = running \cup ({x} \cap Tasks)
    /\ listed' = listed \cup ({x} \cap Servers)
    /\ live' = live \cup ({x} \cap Servers)
    /\ hooks' = hooks \cup ({x} \cap Hooks)
    /\ UNCHANGED <<phase, failures, cancelled, stopping, writes, sealed, chan,
                   lock, rival, call, calls>>

\* A supervised task completes, panics, or its future is dropped before that.
TaskEnds(t, how) ==
    /\ t \in running
    /\ running' = running \ {t}
    /\ failures' = (\/ failures
                    \/ how = "panic"
                    \/ how = "abort" /\ ~cancelled /\ t \notin ExpectedAbort)
    /\ UNCHANGED <<phase, gate, cancelled, listed, live, stopping, hooks, writes, sealed, chan, lock, rival, call, calls>>

\* The serving task of a control server ends, when told to or by itself.
ServerExits(s) ==
    /\ s \in live
    /\ live' = live \ {s}
    /\ UNCHANGED <<phase, gate, running, failures, cancelled, listed, stopping,
                   hooks, writes, sealed, chan, lock, rival, call, calls>>

-----------------------------------------------------------------------------
(* Durable writes.                                                          *)

\* Mutant of MayBegin: only the phase is looked at.
MayBeginUntilClosed == phase # "closed"

MayBegin == ~sealed /\ phase # "closed"

BeginDurableWrite(h) ==
    /\ h \notin writing
    /\ MayBegin
    /\ writing' = writing \cup {h}
    /\ inFlight' = inFlight + 1
    /\ UNCHANGED <<phase, admission, cancelled, stopping, sealed, chan, lock, rival,
                   call, calls>>

EndDurableWrite(h) ==
    /\ h \in writing
    /\ writing' = writing \ {h}
    /\ inFlight' = inFlight - 1
    /\ UNCHANGED <<phase, admission, cancelled, stopping, sealed, chan, lock, rival,
                   call, calls>>

-----------------------------------------------------------------------------
(* The event journal and the orchestration audit: a bounded channel, a       *)
(* thread that writes what it receives, and an error slot nobody clears.     *)

ChannelStep(c, new) ==
    /\ chan' = [chan EXCEPT ![c] = new]
    /\ UNCHANGED <<phase, admission, cancelled, stopping, sealed, lock, rival, call,
                   calls>>

\* EventBus::publish and OrchStore::enqueue_audit.  A publication that finds the channel
\* full or its thread gone is only missing from the journal; the audit returns an error.
Publish(c) ==
    LET ch == chan[c] IN
    /\ ChannelStep(c,
         IF ch.open /\ ch.thread = "running" /\ ch.queue < MaxQueued
           THEN [ch EXCEPT !.queue = @ + 1]
           ELSE [ch EXCEPT !.fault = TRUE,
                           !.missing = @ \/ (c = "journal" /\ (ch.open \/ ch.detached))])
    /\ UNCHANGED writes

\* publish cannot reserve the next range of sequence numbers and gives up the writer.
DetachJournal ==
    /\ chan["journal"].open
    /\ ChannelStep("journal", [chan["journal"] EXCEPT !.open = FALSE, !.detached = TRUE,
                                                      !.fault = TRUE, !.missing = TRUE])
    /\ UNCHANGED writes

\* The thread receives an entry and asks for a guard; refused, the entry is a gap.
ThreadTakes(c) ==
    LET ch == chan[c] IN
    /\ ch.thread = "running" /\ c \notin writing /\ ch.queue > 0
    /\ IF MayBegin
         THEN /\ ChannelStep(c, [ch EXCEPT !.queue = @ - 1])
              /\ writing' = writing \cup {c} /\ inFlight' = inFlight + 1
         ELSE /\ ChannelStep(c, [ch EXCEPT !.queue = @ - 1, !.fault = TRUE, !.missing = TRUE])
              /\ UNCHANGED writes

ThreadWrites(c, ok) ==
    /\ c \in writing
    /\ writing' = writing \ {c} /\ inFlight' = inFlight - 1
    /\ ChannelStep(c, IF ok THEN chan[c]
                            ELSE [chan[c] EXCEPT !.fault = TRUE, !.missing = TRUE])

\* The thread ends when its channel is closed and empty.
ThreadStops(c) ==
    /\ chan[c].thread = "running" /\ c \notin writing
    /\ ~chan[c].open /\ chan[c].queue = 0
    /\ ChannelStep(c, [chan[c] EXCEPT !.thread = "stopped"])
    /\ UNCHANGED writes

\* A panic unwinds the guard of the write in progress; what is queued is never written.
ThreadPanics(c) ==
    /\ chan[c].thread = "running"
    /\ ChannelStep(c, [chan[c] EXCEPT !.thread = "panicked", !.queue = 0,
                         !.missing = @ \/ c \in writing \/ chan[c].queue > 0])
    /\ writing' = writing \ {c}
    /\ inFlight' = IF c \in writing THEN inFlight - 1 ELSE inFlight

-----------------------------------------------------------------------------
(* The ordered shutdown.  `completed` is held across a call, so there is    *)
(* one at a time; the value of a dropped call's locals is gone.             *)

At(p) == call.pc = p

\* What an ordinary step of shutdown leaves alone.
Bystanders == <<gate, running, failures, writes, rival, calls>>

BeginShutdown ==
    /\ At("idle") /\ phase # "closed" /\ calls < MaxCalls
    /\ phase' = "quiescing"
    /\ call' = [NoCall EXCEPT !.pc = "admission"]
    /\ calls' = calls + 1
    /\ UNCHANGED <<admission, cancelled, stopping, writes, sealed, chan, lock, rival>>

\* Mutant of DrainServers: the servers are known to this call only.
DrainServersUncounted ==
    /\ At("admission") /\ gate = {}
    /\ call' = [call EXCEPT !.pc = "servers", !.servers = listed]
    /\ listed' = {}
    /\ UNCHANGED <<Bystanders, phase, cancelled, live, stopping, hooks, sealed, chan, lock>>

\* seal_task_admission takes the gate for writing, which waits for its readers; then the
\* attached servers are drained into the call and counted where a later call finds them.
DrainServers ==
    /\ At("admission") /\ gate = {}
    /\ call' = [call EXCEPT !.pc = "servers", !.servers = listed]
    /\ listed' = {}
    /\ stopping' = stopping + Cardinality(listed)
    /\ UNCHANGED <<Bystanders, phase, cancelled, live, hooks, sealed, chan, lock>>

\* stop_and_wait_bounded of one server: it has stopped, perhaps in an error, or the
\* deadline passes first.
StopServer(s, failed) ==
    /\ At("servers") /\ s \in call.servers
    /\ call' = [call EXCEPT !.servers = @ \ {s},
                            !.doubt = @ \/ s \in live \/ failed]
    /\ stopping' = IF s \in live THEN stopping ELSE stopping - 1
    /\ UNCHANGED <<Bystanders, phase, cancelled, listed, live, hooks, sealed, chan,
                   lock>>

ServersStopped ==
    /\ At("servers") /\ call.servers = {}
    /\ call' = [call EXCEPT !.pc = "join", !.doubt = @ \/ stopping > 0]
    /\ cancelled' = TRUE
    /\ UNCHANGED <<Bystanders, phase, listed, live, stopping, hooks, sealed, chan, lock>>

\* Mutant of JoinTasks: the join has no deadline.
JoinTasksUnbounded ==
    /\ At("join") /\ running = {}
    /\ call' = [call EXCEPT !.pc = "close_journal", !.doubt = @ \/ failures]
    /\ UNCHANGED <<Bystanders, phase, cancelled, listed, live, stopping, hooks, sealed,
                   chan, lock>>

\* tasks().wait() under the deadline: it may give up on the tasks that are left.
JoinTasks ==
    /\ At("join")
    /\ call' = [call EXCEPT !.pc = "close_journal", !.doubt = @ \/ failures \/ running # {}]
    /\ UNCHANGED <<Bystanders, phase, cancelled, listed, live, stopping, hooks, sealed,
                   chan, lock>>

\* Close the channel, which its thread then drains, and start the monitor that joins it.
CloseWriter(c) ==
    /\ At(IF c = "journal" THEN "close_journal" ELSE "close_audit")
    /\ call' = [call EXCEPT !.pc = IF c = "journal" THEN "await_journal" ELSE "await_audit"]
    /\ chan' = [chan EXCEPT ![c].open = FALSE]
    /\ UNCHANGED <<Bystanders, phase, cancelled, listed, live, stopping, hooks, sealed,
                   lock>>

\* Mutant of AwaitWriter: giving up on a thread is not held against the shutdown.
AwaitWriterLeniently(c) ==
    /\ At(IF c = "journal" THEN "await_journal" ELSE "await_audit")
    /\ call' = [call EXCEPT !.pc = IF c = "journal" THEN "close_audit" ELSE "seal",
                            !.doubt = @ \/ chan[c].fault \/ chan[c].thread = "panicked"]
    /\ UNCHANGED <<Bystanders, phase, cancelled, listed, live, stopping, hooks, sealed,
                   chan, lock>>

\* Wait for the monitor's outcome under the deadline.  A detached journal has no writer to
\* wait for; its error slot says so.
AwaitWriter(c) ==
    LET unjoined == chan[c].thread = "running" /\ ~chan[c].detached IN
    /\ At(IF c = "journal" THEN "await_journal" ELSE "await_audit")
    /\ call' = [call EXCEPT !.pc = IF c = "journal" THEN "close_audit" ELSE "seal",
                            !.doubt = @ \/ unjoined \/ chan[c].fault
                                        \/ chan[c].thread = "panicked"]
    /\ UNCHANGED <<Bystanders, phase, cancelled, listed, live, stopping, hooks, sealed,
                   chan, lock>>

\* seal_durable_writes refuses further guards at once,
SealWrites ==
    /\ At("seal")
    /\ call' = [call EXCEPT !.pc = "await_seal"]
    /\ sealed' = TRUE
    /\ UNCHANGED <<Bystanders, phase, cancelled, listed, live, stopping, hooks, chan,
                   lock>>

\* and waits, bounded, for those handed out.
AwaitSeal ==
    /\ At("await_seal")
    /\ call' = [call EXCEPT !.pc = "flush", !.sealHeld = inFlight = 0,
                            !.doubt = @ \/ inFlight > 0 \/ chan["journal"].fault]
    /\ UNCHANGED <<Bystanders, phase, cancelled, listed, live, stopping, hooks, sealed,
                   chan, lock>>

\* Under a seal that holds, flush the durable state and run every hook; one may fail.
Flush(failed) ==
    /\ At("flush")
    /\ call' = [call EXCEPT !.pc = "decide", !.doubt = @ \/ failed \/ ~call.sealHeld]
    /\ hooks' = IF call.sealHeld THEN {} ELSE hooks
    /\ UNCHANGED <<Bystanders, phase, cancelled, listed, live, stopping, sealed, chan, lock>>

Quarantine == IF lock = "held" THEN "quarantined" ELSE lock

ReleaseIsSafe ==
    /\ call.sealHeld
    /\ ~call.doubt
    /\ ~chan["journal"].fault

\* Behind the publication barrier: read the journal's health, close, give up the lock.
Decide ==
    /\ At("decide")
    /\ phase' = "closed"
    /\ lock' = IF ReleaseIsSafe /\ lock = "held" THEN "released" ELSE Quarantine
    /\ call' = NoCall
    /\ UNCHANGED <<Bystanders, cancelled, listed, live, stopping, hooks, sealed, chan>>

\* The caller drops the shutdown future while it awaits.
AbandonShutdown ==
    /\ call.pc \in AwaitPoint
    /\ At("servers") => call.servers # {}
    /\ call' = NoCall
    /\ UNCHANGED <<Bystanders, phase, cancelled, listed, live, stopping, hooks, sealed,
                   chan, lock>>

\* Drop for HostRuntime before a shutdown has decided: it cannot join anything, so the lock
\* goes to quarantine.  After the decision it does nothing.
DropRuntime ==
    /\ At("idle") /\ phase # "closed"
    /\ gate = {}
    /\ phase' = "closed" /\ cancelled' = TRUE /\ sealed' = TRUE
    /\ listed' = {}
    /\ lock' = Quarantine
    /\ UNCHANGED <<Bystanders, live, stopping, hooks, chan, call>>

\* A second runtime, another process or an offline store handle takes the free lock.
RivalAcquires ==
    /\ lock = "released" /\ ~rival
    /\ rival' = TRUE
    /\ UNCHANGED <<phase, admission, cancelled, stopping, writes, sealed, chan, lock,
                   call, calls>>

ShutdownStep ==
    \/ DrainServers \/ ServersStopped \/ JoinTasks \/ SealWrites \/ AwaitSeal \/ Decide
    \/ \E s \in Servers, failed \in BOOLEAN : StopServer(s, failed)
    \/ \E c \in Channels : CloseWriter(c) \/ AwaitWriter(c)
    \/ \E failed \in BOOLEAN : Flush(failed)

Next ==
    \/ \E x \in Work : EnterGate(x) \/ Register(x)
    \/ \E t \in Tasks, how \in {"completed", "panic", "abort"} : TaskEnds(t, how)
    \/ \E s \in Servers : ServerExits(s)
    \/ \E h \in Handles : BeginDurableWrite(h) \/ EndDurableWrite(h)
    \/ \E c \in Channels : Publish(c) \/ ThreadTakes(c) \/ ThreadStops(c) \/ ThreadPanics(c)
    \/ \E c \in Channels, ok \in BOOLEAN : ThreadWrites(c, ok)
    \/ DetachJournal
    \/ BeginShutdown \/ ShutdownStep \/ AbandonShutdown \/ DropRuntime
    \/ RivalAcquires

Spec == Init /\ [][Next]_vars

\* The executor polls a shutdown whose await is over or whose deadline has passed, and a
\* thread that holds the gate lets go of it.  Nothing is assumed of tasks, servers and writers.
FairSpec ==
    /\ Spec
    /\ WF_vars(ShutdownStep \/ \E x \in Work : Register(x))

-----------------------------------------------------------------------------
(* Properties *)

\* Every variable of the lifecycle keeps its shape; the counts never go below zero.
TypeOK ==
    /\ phase \in HostPhase
    /\ gate \subseteq Work /\ running \subseteq Tasks
    /\ failures \in BOOLEAN /\ cancelled \in BOOLEAN
    /\ listed \subseteq Servers /\ live \subseteq Servers
    /\ stopping \in Nat
    /\ hooks \subseteq Hooks
    /\ writing \subseteq Handles \cup Channels /\ inFlight \in Nat
    /\ sealed \in BOOLEAN
    /\ chan \in [Channels -> Channel]
    /\ lock \in {"held", "released", "quarantined"} /\ rival \in BOOLEAN
    /\ call \in Call /\ calls \in 0..MaxCalls

\* The home has one writer: once another owner has the lock, no handle, writer thread or
\* final flush of this runtime is writing the home (begin_durable_write against the seal).
SingleWriter ==
    rival => /\ lock = "released"
             /\ writing = {}
             /\ ~At("flush")

\* A released lock means that everything shutdown joins is really gone: no supervised task,
\* no serving control server, no admission under way, no writer thread or queued entry,
\* also when an earlier shutdown was dropped half way.
ReleaseMeansQuiet ==
    lock = "released" =>
        /\ gate = {} /\ running = {} /\ listed = {} /\ live = {}
        /\ \A c \in Channels : chan[c].thread # "running" /\ chan[c].queue = 0

\* A shutdown that releases the lock keeps what was promised to callers: every registered
\* hook ran, every entry the journal or the audit took was written, and no supervised task
\* had failed.
ReleaseMeansComplete ==
    lock = "released" =>
        /\ hooks = {}
        /\ \A c \in Channels : ~chan[c].missing
        /\ ~failures

\* A shutdown always ends: unless it is dropped it reaches its decision, whatever its tasks,
\* servers, writer threads and durable writes do: every wait is bounded.
ShutdownConcludes == []<>At("idle")

=============================================================================
