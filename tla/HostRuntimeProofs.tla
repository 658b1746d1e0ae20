------------------------- MODULE HostRuntimeProofs -------------------------
(***************************************************************************)
(* Proofs about HostRuntime: the lock of a home is given up only when the  *)
(* runtime is quiet and has kept its promises, and whoever takes it next   *)
(* is the only writer, for any number of tasks, servers, hooks, handles    *)
(* and dropped or repeated shutdowns.                                      *)
(*                                                                         *)
(* The inductive invariant follows the shutdown from point to point: what  *)
(* a call that has met no doubt already knows at each of them, and why     *)
(* nothing that runs beside it can undo that.  What a dropped call leaves  *)
(* behind is the count of the servers it was stopping.                     *)
(***************************************************************************)
EXTENDS HostRuntime, TLAPS, FiniteSetTheorems

\* The points of shutdown after each of its stages.
PastAdmission == ShutdownPoint \ {"idle", "admission"}
PastServers   == PastAdmission \ {"servers"}
PastJoin      == PastServers \ {"join"}
PastAwait(c)  == PastJoin \ ({"close_journal", "await_journal"}
                             \cup IF c = "audit" THEN {"close_audit", "await_audit"} ELSE {})
PastSeal      == {"await_seal", "flush", "decide"}

\* The counter of guards is the number of guards.
WritesCounted == inFlight = Cardinality(writing)

\* A writer thread and its channel: an entry is lost only with a mark of it, and a thread
\* that has ended leaves nothing behind.  `busy` says that the thread is writing.
Coherent(ch, busy) ==
    /\ ch.detached => ch.fault /\ ~ch.open
    /\ ch.missing => ch.fault \/ ch.thread = "panicked"
    /\ ch.thread # "running" => ch.queue = 0 /\ ~busy
    /\ ch.thread = "stopped" => ~ch.open

ChannelsCoherent == \A c \in Channels : Coherent(chan[c], c \in writing)

\* A writer that has drained its closed channel and lost nothing.
Drained(ch) ==
    /\ ch.thread = "stopped" /\ ch.queue = 0
    /\ ~ch.open /\ ~ch.detached /\ ~ch.missing

\* The call and the phase agree, and only an idle runtime has decided about its lock.
CallCoherent ==
    /\ At("idle") => call = NoCall
    /\ ~At("idle") => phase = "quiescing"
    /\ phase # "closed" => lock = "held"
    /\ phase # "running" /\ ~At("admission") => gate = {}
    /\ ~At("servers") => call.servers = {}
    /\ call.pc \in PastAdmission => listed = {}
    /\ call.pc \in PastSeal => sealed
    /\ call.sealHeld => call.pc \in {"flush", "decide"} /\ writing = {}

\* Until the runtime is closed, a server that still serves is attached, is being stopped by
\* this call, or is counted as left over from an earlier one.
ServersCounted ==
    phase # "closed" =>
        /\ stopping >= Cardinality(call.servers)
        /\ ~(live \subseteq listed \cup call.servers) => stopping > Cardinality(call.servers)

\* What a call without doubt has established so far.
CallKnows ==
    ~call.doubt =>
        /\ call.pc \in PastServers => live = {}
        /\ call.pc \in PastJoin => running = {} /\ ~failures
        /\ \A c \in Channels : call.pc \in PastAwait(c) => Drained(chan[c])
        /\ At("decide") => hooks = {}

\* A lock that was released, and who may have it now.
ReleasedForGood ==
    /\ lock = "released" =>
          /\ phase = "closed" /\ sealed
          /\ gate = {} /\ running = {} /\ listed = {} /\ live = {} /\ hooks = {}
          /\ ~failures /\ writing = {}
          /\ \A c \in Channels : Drained(chan[c])
    /\ rival => lock = "released"

IInv ==
    /\ TypeOK /\ WritesCounted /\ ChannelsCoherent
    /\ CallCoherent /\ ServersCounted /\ CallKnows /\ ReleasedForGood

-----------------------------------------------------------------------------
(* Types and counts *)

\* The sets that are counted are finite.
LEMMA Finite ==
    ASSUME TypeOK
    PROVE  /\ IsFiniteSet(writing) /\ Cardinality(writing) \in Nat
           /\ IsFiniteSet(listed) /\ Cardinality(listed) \in Nat
           /\ IsFiniteSet(call.servers) /\ Cardinality(call.servers) \in Nat
<1>1. IsFiniteSet(Channels)
  <2>1. IsFiniteSet({"journal"}) /\ IsFiniteSet({"audit"})
    BY FS_Singleton
  <2>2. Channels = {"journal"} \cup {"audit"}
    BY DEF Channels
  <2> QED
    BY <2>1, <2>2, FS_Union
<1>2. IsFiniteSet(Handles \cup Channels)
  BY <1>1, SetsAssumption, FS_Union
<1>3. IsFiniteSet(writing) /\ IsFiniteSet(listed) /\ IsFiniteSet(call.servers)
  BY <1>2, SetsAssumption, FS_Subset DEF TypeOK, Call
<1> QED
  BY <1>3, FS_CardinalityType

\* A guard that is handed out or returned moves the count by one.
LEMMA GuardCount ==
    ASSUME TypeOK, WritesCounted, NEW h
    PROVE  /\ h \notin writing => Cardinality(writing \cup {h}) = inFlight + 1
           /\ h \in writing => /\ Cardinality(writing \ {h}) = inFlight - 1
                              /\ inFlight - 1 \in Nat
<1>1. IsFiniteSet(writing) /\ Cardinality(writing) \in Nat
  BY Finite
<1>2. h \notin writing => Cardinality(writing \cup {h}) = inFlight + 1
  BY <1>1, FS_AddElement DEF WritesCounted
<1>3. h \in writing => IsFiniteSet(writing \ {h}) /\ Cardinality(writing \ {h}) = inFlight - 1
  BY <1>1, FS_RemoveElement DEF WritesCounted
<1> QED
  BY <1>2, <1>3, FS_CardinalityType DEF TypeOK

\* The guard of h is handed out or returned.
GuardMoves(h) ==
    \/ h \notin writing /\ writing' = writing \cup {h} /\ inFlight' = inFlight + 1
    \/ h \in writing /\ writing' = writing \ {h} /\ inFlight' = inFlight - 1

\* A step moves at most one guard: a new one is handed out only while MayBegin holds.
LEMMA GuardsChange ==
    ASSUME TypeOK, [Next]_vars
    PROVE  \/ UNCHANGED writes
           \/ \E h \in Handles \cup Channels : GuardMoves(h) /\ (h \in writing \/ MayBegin)
<1>1. CASE ShutdownStep
  BY <1>1 DEF ShutdownStep, DrainServers, ServersStopped, JoinTasks, SealWrites, AwaitSeal,
     Decide, StopServer, CloseWriter, AwaitWriter, Flush, Bystanders, writes
<1>2. CASE \E h \in Handles : BeginDurableWrite(h) \/ EndDurableWrite(h)
  BY <1>2 DEF BeginDurableWrite, EndDurableWrite, GuardMoves
<1>3. ASSUME NEW c \in Channels, ThreadTakes(c)
      PROVE  UNCHANGED writes \/ (GuardMoves(c) /\ (c \in writing \/ MayBegin))
  BY <1>3, Zenon DEF ThreadTakes, GuardMoves
<1>4. ASSUME NEW c \in Channels, ThreadPanics(c)
      PROVE  UNCHANGED writes \/ (GuardMoves(c) /\ (c \in writing \/ MayBegin))
  <2>1. CASE c \in writing
    BY <1>4, <2>1, Zenon DEF ThreadPanics, GuardMoves
  <2>2. CASE c \notin writing
    <3>1. writing \ {c} = writing
      BY <2>2
    <3> QED
      BY <1>4, <2>2, <3>1, Zenon DEF ThreadPanics, writes
  <2> QED
    BY <2>1, <2>2
<1>5. ASSUME NEW c \in Channels, NEW ok \in BOOLEAN, ThreadWrites(c, ok)
      PROVE  GuardMoves(c) /\ c \in writing
  BY <1>5, Zenon DEF ThreadWrites, GuardMoves
<1>6. CASE \/ \E x \in Work : EnterGate(x) \/ Register(x)
           \/ \E t \in Tasks, how \in {"completed", "panic", "abort"} : TaskEnds(t, how)
           \/ \E s \in Servers : ServerExits(s)
           \/ \E c \in Channels : Publish(c) \/ ThreadStops(c)
           \/ DetachJournal \/ BeginShutdown \/ AbandonShutdown \/ DropRuntime
           \/ RivalAcquires
  BY <1>6 DEF EnterGate, Register, TaskEnds, ServerExits, Publish, ThreadStops, DetachJournal,
     BeginShutdown, AbandonShutdown, DropRuntime, RivalAcquires, Bystanders, writes
<1>7. CASE UNCHANGED vars
  BY <1>7 DEF vars, writes
<1> QED
  BY <1>1, <1>2, <1>3, <1>4, <1>5, <1>6, <1>7, Zenon DEF Next

\* The count of guards stays the number of guards, and both stay within their types.
LEMMA WritesStep ==
    ASSUME TypeOK, WritesCounted, [Next]_vars
    PROVE  WritesCounted' /\ inFlight' \in Nat /\ writing' \subseteq Handles \cup Channels
<1>1. CASE UNCHANGED writes
  BY <1>1 DEF writes, WritesCounted, TypeOK
<1>2. ASSUME NEW h \in Handles \cup Channels, GuardMoves(h)
      PROVE  WritesCounted' /\ inFlight' \in Nat /\ writing' \subseteq Handles \cup Channels
  BY <1>2, GuardCount DEF GuardMoves, WritesCounted, TypeOK
<1> QED
  BY <1>1, <1>2, GuardsChange

-----------------------------------------------------------------------------
(* The writer threads and their channels *)

\* What every step does with the channels: they stay coherent, and a drained one stays so.
ChannelsKept ==
    /\ chan' \in [Channels -> Channel]
    /\ ChannelsCoherent'
    /\ \A c \in Channels : Drained(chan[c]) => Drained(chan[c])'

\* An entry enters the queue of a running thread, or leaves it.
LEMMA QueueMoves ==
    ASSUME NEW ch \in Channel, NEW busy, NEW busy2, Coherent(ch, busy),
           ch.thread = "running", NEW n \in 0..MaxQueued
    PROVE  LET new == [ch EXCEPT !.queue = n]
           IN  new \in Channel /\ Coherent(new, busy2) /\ ~Drained(ch)
BY DEF Channel, Coherent, Drained

\* An error is noted, and with it the entry that is lost.
LEMMA FaultNoted ==
    ASSUME NEW ch \in Channel, NEW busy, NEW busy2, Coherent(ch, busy), busy2 => busy,
           NEW lost \in BOOLEAN
    PROVE  LET new == [ch EXCEPT !.fault = TRUE, !.missing = @ \/ lost]
           IN  /\ new \in Channel /\ Coherent(new, busy2)
               /\ ~lost /\ Drained(ch) => Drained(new)
<1> DEFINE new == [ch EXCEPT !.fault = TRUE, !.missing = @ \/ lost]
<1>1. new \in Channel
  BY DEF Channel
<1>2. /\ new.fault /\ new.open = ch.open /\ new.detached = ch.detached
      /\ new.thread = ch.thread /\ new.queue = ch.queue
      /\ ~lost => new.missing = ch.missing
  BY DEF Channel
<1> HIDE DEF new
<1>3. Coherent(new, busy2)
  BY <1>2 DEF Coherent
<1>4. ~lost /\ Drained(ch) => Drained(new)
  BY <1>2 DEF Drained
<1> QED
  BY <1>1, <1>3, <1>4 DEF new

\* A thread that panics leaves an empty queue.
LEMMA PanicNoted ==
    ASSUME NEW ch \in Channel, NEW busy, Coherent(ch, busy), NEW lost \in BOOLEAN
    PROVE  LET new == [ch EXCEPT !.thread = "panicked", !.queue = 0, !.missing = @ \/ lost]
           IN  new \in Channel /\ Coherent(new, FALSE)
<1> DEFINE new == [ch EXCEPT !.thread = "panicked", !.queue = 0, !.missing = @ \/ lost]
<1>0. 0 \in 0..MaxQueued
  BY LimitsAssumption
<1>1. new \in Channel
  BY <1>0 DEF Channel
<1>2. /\ new.fault = ch.fault /\ new.open = ch.open /\ new.detached = ch.detached
      /\ new.thread = "panicked" /\ new.queue = 0
  BY DEF Channel
<1> HIDE DEF new
<1>3. Coherent(new, FALSE)
  BY <1>2 DEF Coherent
<1> QED
  BY <1>1, <1>3 DEF new

\* It is enough to look at the one channel a step changes.
LEMMA OneChannel ==
    ASSUME TypeOK, ChannelsCoherent, NEW c \in Channels, NEW new \in Channel,
           chan' = [chan EXCEPT ![c] = new], writing' \ {c} \subseteq writing,
           Coherent(new, c \in writing'), Drained(chan[c]) => Drained(new)
    PROVE  ChannelsKept
<1>1. chan' \in [Channels -> Channel]
  BY DEF TypeOK
<1>2. ASSUME NEW d \in Channels, d # c
      PROVE  chan'[d] = chan[d] /\ (d \in writing' => d \in writing)
  BY <1>2 DEF TypeOK
<1>3. chan'[c] = new
  BY DEF TypeOK
<1>4. ASSUME NEW d \in Channels PROVE Coherent(chan'[d], d \in writing')
  <2>1. CASE d = c
    BY <1>3, <2>1
  <2>2. CASE d # c
    BY <1>2, <2>2 DEF ChannelsCoherent, Coherent
  <2> QED
    BY <2>1, <2>2
<1>5. ASSUME NEW d \in Channels, Drained(chan[d]) PROVE Drained(chan'[d])
  BY <1>2, <1>3, <1>5
<1> QED
  BY <1>1, <1>4, <1>5 DEF ChannelsKept, ChannelsCoherent

\* A step that leaves the channels alone and starts no thread's write.
LEMMA NoChannel ==
    ASSUME TypeOK, ChannelsCoherent, UNCHANGED chan,
           \A c \in Channels : c \in writing' => c \in writing
    PROVE  ChannelsKept
BY DEF TypeOK, ChannelsKept, ChannelsCoherent, Coherent

\* Every step keeps the channels coherent and the drained ones drained.
LEMMA ChannelsStep ==
    ASSUME TypeOK, ChannelsCoherent, [Next]_vars
    PROVE  ChannelsKept
<1>0. ASSUME NEW c \in Channels
      PROVE  chan[c] \in Channel /\ Coherent(chan[c], c \in writing)
  BY DEF TypeOK, ChannelsCoherent
<1>1. ASSUME NEW c \in Channels, Publish(c) PROVE ChannelsKept
  <2>0. chan[c] \in Channel /\ Coherent(chan[c], c \in writing)
    BY <1>0
  <2>1. CASE chan[c].open /\ chan[c].thread = "running" /\ chan[c].queue < MaxQueued
    <3> DEFINE new == [chan[c] EXCEPT !.queue = chan[c].queue + 1]
    <3>1. chan[c].queue + 1 \in 0..MaxQueued
      BY <2>0, <2>1, LimitsAssumption DEF Channel
    <3>2. new \in Channel /\ Coherent(new, c \in writing) /\ ~Drained(chan[c])
      BY <2>0, <2>1, <3>1, QueueMoves
    <3>3. chan' = [chan EXCEPT ![c] = new] /\ UNCHANGED writing
      BY <1>1, <2>1 DEF Publish, ChannelStep, writes
    <3> HIDE DEF new
    <3> QED
      BY <3>2, <3>3, OneChannel
  <2>2. CASE ~(chan[c].open /\ chan[c].thread = "running" /\ chan[c].queue < MaxQueued)
    <3> DEFINE lost == c = "journal" /\ (chan[c].open \/ chan[c].detached)
               new == [chan[c] EXCEPT !.fault = TRUE, !.missing = @ \/ lost]
    <3>1. lost \in BOOLEAN /\ (lost => ~Drained(chan[c]))
      BY DEF Drained
    <3>2. chan' = [chan EXCEPT ![c] = new] /\ UNCHANGED writing
      BY <1>1, <2>2 DEF Publish, ChannelStep, writes
    <3> HIDE DEF lost
    <3>3. new \in Channel /\ Coherent(new, c \in writing) /\ (Drained(chan[c]) => Drained(new))
      BY <2>0, <3>1, FaultNoted
    <3> HIDE DEF new
    <3> QED
      BY <3>2, <3>3, OneChannel
  <2> QED
    BY <2>1, <2>2
<1>2. ASSUME NEW c \in Channels, ThreadTakes(c) PROVE ChannelsKept
  <2>0. chan[c] \in Channel /\ Coherent(chan[c], c \in writing)
    BY <1>0
  <2> DEFINE new == [chan[c] EXCEPT !.queue = chan[c].queue - 1]
  <2>1. chan[c].thread = "running" /\ chan[c].queue - 1 \in 0..MaxQueued
    BY <1>2, <2>0, LimitsAssumption DEF ThreadTakes, Channel
  <2>2. /\ new \in Channel /\ Coherent(new, c \in writing) /\ Coherent(new, TRUE)
        /\ ~Drained(chan[c])
    BY <2>0, <2>1, QueueMoves
  <2>3. CASE MayBegin
    <3>1. chan' = [chan EXCEPT ![c] = new] /\ writing' = writing \cup {c}
      BY <1>2, <2>3 DEF ThreadTakes, ChannelStep
    <3> HIDE DEF new
    <3> QED
      BY <2>2, <3>1, OneChannel
  <2>4. CASE ~MayBegin
    <3> DEFINE gap == [new EXCEPT !.fault = TRUE, !.missing = @ \/ TRUE]
    <3>1. chan' = [chan EXCEPT ![c] = gap] /\ UNCHANGED writing
      BY <1>2, <2>0, <2>4 DEF ThreadTakes, ChannelStep, writes, Channel
    <3> HIDE DEF new
    <3>2. gap \in Channel /\ Coherent(gap, c \in writing)
      BY <2>2, FaultNoted
    <3> HIDE DEF gap
    <3> QED
      BY <2>2, <3>1, <3>2, OneChannel
  <2> QED
    BY <2>3, <2>4
<1>3. ASSUME NEW c \in Channels, NEW ok \in BOOLEAN, ThreadWrites(c, ok) PROVE ChannelsKept
  <2>0. chan[c] \in Channel /\ Coherent(chan[c], TRUE) /\ ~Drained(chan[c])
    BY <1>0, <1>3 DEF ThreadWrites, Coherent, Drained
  <2>1. writing' = writing \ {c}
    BY <1>3, Zenon DEF ThreadWrites
  <2>2. CASE ok
    BY <1>3, <2>0, <2>1, <2>2, OneChannel DEF ThreadWrites, ChannelStep, Coherent
  <2>3. CASE ~ok
    <3> DEFINE new == [chan[c] EXCEPT !.fault = TRUE, !.missing = @ \/ TRUE]
    <3>1. chan' = [chan EXCEPT ![c] = new]
      BY <1>3, <2>3 DEF ThreadWrites, ChannelStep
    <3>2. new \in Channel /\ Coherent(new, FALSE)
      BY <2>0, FaultNoted
    <3> HIDE DEF new
    <3>3. Coherent(new, c \in writing')
      BY <2>1, <3>2 DEF Coherent
    <3> QED
      BY <2>0, <2>1, <3>1, <3>2, <3>3, OneChannel
  <2> QED
    BY <2>2, <2>3
<1> USE DEF Channel, Coherent, Drained, ChannelStep
<1>4. ASSUME NEW c \in Channels, ThreadStops(c) PROVE ChannelsKept
  <2> DEFINE new == [chan[c] EXCEPT !.thread = "stopped"]
  <2>1. chan' = [chan EXCEPT ![c] = new] /\ UNCHANGED writing
    BY <1>4 DEF ThreadStops, writes
  <2>2. new \in Channel /\ Coherent(new, c \in writing) /\ ~Drained(chan[c])
    BY <1>0, <1>4 DEF ThreadStops
  <2> HIDE DEF new
  <2> QED
    BY <2>1, <2>2, OneChannel
<1>5. ASSUME NEW c \in Channels, ThreadPanics(c) PROVE ChannelsKept
  <2> DEFINE lost == c \in writing \/ chan[c].queue > 0
             new == [chan[c] EXCEPT !.thread = "panicked", !.queue = 0, !.missing = @ \/ lost]
  <2>1. chan' = [chan EXCEPT ![c] = new] /\ writing' = writing \ {c}
    BY <1>5, Zenon DEF ThreadPanics
  <2>2. lost \in BOOLEAN /\ chan[c].thread = "running"
    BY <1>5 DEF ThreadPanics
  <2> HIDE DEF lost, Coherent, Drained, Channel
  <2>3. new \in Channel /\ Coherent(new, FALSE)
    BY <1>0, <2>2, PanicNoted
  <2>4. ~Drained(chan[c])
    BY <2>2 DEF Drained
  <2> HIDE DEF new
  <2>5. Coherent(new, c \in writing')
    BY <2>1, <2>3 DEF Coherent
  <2> QED
    BY <2>1, <2>3, <2>4, <2>5, OneChannel
<1>6. ASSUME DetachJournal PROVE ChannelsKept
  <2> DEFINE new == [chan["journal"] EXCEPT !.open = FALSE, !.detached = TRUE,
                                            !.fault = TRUE, !.missing = TRUE]
  <2>0. "journal" \in Channels
    BY DEF Channels
  <2>1. chan' = [chan EXCEPT !["journal"] = new] /\ UNCHANGED writing
    BY <1>6 DEF DetachJournal, writes
  <2>2. new \in Channel /\ Coherent(new, "journal" \in writing) /\ ~Drained(chan["journal"])
    BY <1>0, <1>6, <2>0 DEF DetachJournal
  <2> HIDE DEF new
  <2> QED
    BY <2>0, <2>1, <2>2, OneChannel
<1>7. ASSUME NEW c \in Channels, CloseWriter(c) PROVE ChannelsKept
  <2> DEFINE new == [chan[c] EXCEPT !.open = FALSE]
  <2>1. chan' = [chan EXCEPT ![c] = new] /\ UNCHANGED writing
    BY <1>7, <1>0 DEF CloseWriter, Bystanders, writes, TypeOK
  <2>2. new \in Channel /\ Coherent(new, c \in writing) /\ (Drained(chan[c]) => Drained(new))
    BY <1>0
  <2> HIDE DEF new
  <2> QED
    BY <2>1, <2>2, OneChannel
<1>8. ASSUME NEW h \in Handles, BeginDurableWrite(h) \/ EndDurableWrite(h) PROVE ChannelsKept
  BY <1>8, NoChannel, SetsAssumption DEF BeginDurableWrite, EndDurableWrite, Channels
<1>9. ASSUME \/ \E x \in Work : EnterGate(x) \/ Register(x)
             \/ \E t \in Tasks, how \in {"completed", "panic", "abort"} : TaskEnds(t, how)
             \/ \E s \in Servers : ServerExits(s)
             \/ BeginShutdown \/ AbandonShutdown \/ DropRuntime \/ RivalAcquires
      PROVE  UNCHANGED <<chan, writing>>
  BY <1>9 DEF EnterGate, Register, TaskEnds, ServerExits, BeginShutdown, AbandonShutdown,
     DropRuntime, RivalAcquires, Bystanders, writes
<1>10. ASSUME ShutdownStep, ~\E c \in Channels : CloseWriter(c)
       PROVE  UNCHANGED <<chan, writing>>
  BY <1>10 DEF ShutdownStep, DrainServers, ServersStopped, JoinTasks, SealWrites, AwaitSeal,
     Decide, StopServer, AwaitWriter, Flush, Bystanders, writes
<1>11. ASSUME UNCHANGED <<chan, writing>> PROVE ChannelsKept
  BY <1>11, NoChannel
<1>12. CASE UNCHANGED vars
  BY <1>11, <1>12 DEF vars
<1>13. CASE ShutdownStep
  BY <1>7, <1>10, <1>11, <1>13
<1> QED
  BY <1>1, <1>2, <1>3, <1>4, <1>5, <1>6, <1>8, <1>9, <1>11, <1>12, <1>13, Zenon DEF Next

-----------------------------------------------------------------------------
(* What runs beside the shutdown *)

OutsideStep ==
    \/ \E x \in Work : EnterGate(x) \/ Register(x)
    \/ \E t \in Tasks, how \in {"completed", "panic", "abort"} : TaskEnds(t, how)
    \/ \E s \in Servers : ServerExits(s)
    \/ \E h \in Handles : BeginDurableWrite(h) \/ EndDurableWrite(h)
    \/ \E c \in Channels : Publish(c) \/ ThreadTakes(c) \/ ThreadStops(c) \/ ThreadPanics(c)
    \/ \E c \in Channels, ok \in BOOLEAN : ThreadWrites(c, ok)
    \/ DetachJournal

\* The steps of the lifecycle itself, and of whoever wants its lock.
LifecycleStep ==
    BeginShutdown \/ ShutdownStep \/ AbandonShutdown \/ DropRuntime \/ RivalAcquires

\* Nothing beside the shutdown moves its phase, its call, its counts or the lock.
LEMMA OutsideFrame ==
    ASSUME OutsideStep
    PROVE  UNCHANGED <<phase, cancelled, stopping, sealed, lock, rival, call, calls>>
<1>1. CASE \/ \E x \in Work : EnterGate(x) \/ Register(x)
           \/ \E t \in Tasks, how \in {"completed", "panic", "abort"} : TaskEnds(t, how)
           \/ \E s \in Servers : ServerExits(s)
           \/ \E h \in Handles : BeginDurableWrite(h) \/ EndDurableWrite(h)
  BY <1>1 DEF EnterGate, Register, TaskEnds, ServerExits, BeginDurableWrite, EndDurableWrite
<1>2. ASSUME NEW c, NEW new, ChannelStep(c, new)
      PROVE  UNCHANGED <<phase, cancelled, stopping, sealed, lock, rival, call, calls>>
  BY <1>2, Zenon DEF ChannelStep
<1>3. ASSUME NEW c \in Channels, Publish(c) \/ ThreadTakes(c) \/ ThreadStops(c) \/ ThreadPanics(c)
      PROVE  \E new : ChannelStep(c, new)
  BY <1>3, Zenon DEF Publish, ThreadTakes, ThreadStops, ThreadPanics
<1>4. ASSUME NEW c \in Channels, NEW ok \in BOOLEAN, ThreadWrites(c, ok)
      PROVE  \E new : ChannelStep(c, new)
  BY <1>4, Zenon DEF ThreadWrites
<1>5. ASSUME DetachJournal PROVE \E new : ChannelStep("journal", new)
  BY <1>5, Zenon DEF DetachJournal
<1> QED
  BY <1>1, <1>2, <1>3, <1>4, <1>5, Zenon DEF OutsideStep

\* With the gate empty nothing new is registered: tasks, servers and hooks only go away.
\* An empty gate is left empty once the phase has moved on.
LEMMA OutsideAdmission ==
    ASSUME TypeOK, OutsideStep
    PROVE  /\ phase # "running" => gate' \subseteq gate
           /\ gate = {} => /\ running' \subseteq running /\ live' \subseteq live
                           /\ listed' = listed /\ hooks' = hooks
                           /\ running = {} => failures' = failures
           /\ ~(live \subseteq listed \cup call.servers)
                 \/ live' \subseteq listed' \cup call.servers
<1>1. CASE \E x \in Work : EnterGate(x)
  BY <1>1 DEF EnterGate
<1>2. CASE \E x \in Work : Register(x)
  BY <1>2 DEF Register
<1>3. CASE \E t \in Tasks, how \in {"completed", "panic", "abort"} : TaskEnds(t, how)
  BY <1>3 DEF TaskEnds
<1>4. CASE \E s \in Servers : ServerExits(s)
  BY <1>4 DEF ServerExits
<1>5. ASSUME UNCHANGED admission
      PROVE  UNCHANGED <<gate, running, failures, listed, live, hooks>>
  BY <1>5 DEF admission
<1>6. CASE \E h \in Handles : BeginDurableWrite(h) \/ EndDurableWrite(h)
  BY <1>5, <1>6 DEF BeginDurableWrite, EndDurableWrite
<1>7. CASE \/ \E c \in Channels : Publish(c) \/ ThreadTakes(c) \/ ThreadStops(c) \/ ThreadPanics(c)
           \/ \E c \in Channels, ok \in BOOLEAN : ThreadWrites(c, ok)
           \/ DetachJournal
  <2>1. ASSUME NEW c, NEW new, ChannelStep(c, new) PROVE UNCHANGED admission
    BY <2>1, Zenon DEF ChannelStep
  <2>2. UNCHANGED admission
    BY <1>7, <2>1, Zenon DEF Publish, ThreadTakes, ThreadStops, ThreadPanics, ThreadWrites,
       DetachJournal
  <2> QED
    BY <1>5, <2>2
<1> QED
  BY <1>1, <1>2, <1>3, <1>4, <1>6, <1>7 DEF OutsideStep

\* Behind the seal no guard is handed out any more.
LEMMA SealedStaysQuiet ==
    ASSUME TypeOK, [Next]_vars, sealed, writing = {}
    PROVE  writing' = {}
BY GuardsChange DEF GuardMoves, MayBegin, writes

-----------------------------------------------------------------------------
(* The shutdown *)

\* A server that is taken off the list of the call leaves one fewer to count.
LEMMA ServerCount ==
    ASSUME TypeOK, NEW s \in call.servers
    PROVE  /\ Cardinality(call.servers \ {s}) = Cardinality(call.servers) - 1
           /\ Cardinality(call.servers) >= 1
<1>1. Cardinality(call.servers \ {s}) = Cardinality(call.servers) - 1
  BY Finite, FS_RemoveElement
<1>2. Cardinality(call.servers \ {s}) \in Nat
  BY Finite, FS_RemoveElement, FS_CardinalityType
<1> QED
  BY <1>1, <1>2, Finite

\* The variables of admission keep their types.
LEMMA AdmissionType ==
    ASSUME TypeOK, [Next]_vars
    PROVE  /\ gate' \subseteq Work /\ running' \subseteq Tasks /\ failures' \in BOOLEAN
           /\ listed' \subseteq Servers /\ live' \subseteq Servers /\ hooks' \subseteq Hooks
<1> USE DEF TypeOK
<1>1. CASE \/ \E x \in Work : EnterGate(x) \/ Register(x)
           \/ \E s \in Servers : ServerExits(s)
  BY <1>1 DEF EnterGate, Register, ServerExits
<1>2. CASE \E t \in Tasks, how \in {"completed", "panic", "abort"} : TaskEnds(t, how)
  BY <1>2 DEF TaskEnds
<1>3. ASSUME UNCHANGED admission
      PROVE  UNCHANGED <<gate, running, failures, listed, live, hooks>>
  BY <1>3 DEF admission
<1>4. CASE \/ \E h \in Handles : BeginDurableWrite(h) \/ EndDurableWrite(h)
           \/ BeginShutdown \/ RivalAcquires
  BY <1>3, <1>4 DEF BeginDurableWrite, EndDurableWrite, BeginShutdown, RivalAcquires
<1>5. CASE \/ \E c \in Channels : Publish(c) \/ ThreadTakes(c) \/ ThreadStops(c) \/ ThreadPanics(c)
           \/ \E c \in Channels, ok \in BOOLEAN : ThreadWrites(c, ok)
           \/ DetachJournal
  <2>1. ASSUME NEW c, NEW new, ChannelStep(c, new) PROVE UNCHANGED admission
    BY <2>1, Zenon DEF ChannelStep
  <2>2. UNCHANGED admission
    BY <1>5, <2>1, Zenon DEF Publish, ThreadTakes, ThreadStops, ThreadPanics, ThreadWrites,
       DetachJournal
  <2> QED
    BY <1>3, <2>2
<1>6. CASE ShutdownStep \/ AbandonShutdown \/ DropRuntime
  BY <1>6 DEF ShutdownStep, DrainServers, ServersStopped, JoinTasks, SealWrites, AwaitSeal,
     Decide, StopServer, CloseWriter, AwaitWriter, Flush, AbandonShutdown, DropRuntime,
     Bystanders
<1>7. CASE UNCHANGED vars
  BY <1>7 DEF vars
<1> QED
  BY <1>1, <1>2, <1>4, <1>5, <1>6, <1>7, Zenon DEF Next

\* The variables of the lifecycle keep their types.
LEMMA LifecycleType ==
    ASSUME TypeOK, CallCoherent, ServersCounted, LifecycleStep
    PROVE  /\ phase' \in HostPhase /\ cancelled' \in BOOLEAN /\ stopping' \in Nat
           /\ sealed' \in BOOLEAN /\ lock' \in {"held", "released", "quarantined"}
           /\ rival' \in BOOLEAN /\ call' \in Call /\ calls' \in 0..MaxCalls
<1>a. Cardinality(listed) \in Nat /\ Cardinality(call.servers) \in Nat
  BY Finite
<1>b. \A s \in call.servers : Cardinality(call.servers) >= 1
  BY ServerCount
<1>c. NoCall \in Call /\ [NoCall EXCEPT !.pc = "admission"] \in Call
  BY DEF NoCall, Call, ShutdownPoint
<1> USE DEF TypeOK, HostPhase
<1>1. CASE BeginShutdown
  BY <1>1, <1>c, LimitsAssumption DEF BeginShutdown
<1>2. CASE DrainServers
  <2>1. [call EXCEPT !.pc = "servers", !.servers = listed] \in Call
    BY DEF Call, ShutdownPoint
  <2> QED
    BY <1>2, <1>a, <2>1 DEF DrainServers, Bystanders
<1> USE DEF Call, ShutdownPoint
<1>3. ASSUME NEW s \in Servers, NEW failed \in BOOLEAN, StopServer(s, failed)
      PROVE  /\ stopping' \in Nat /\ call' \in Call
             /\ UNCHANGED <<phase, cancelled, sealed, lock, rival, calls>>
  <2>1. stopping' \in Nat
    <3>1. s \in call.servers /\ At("servers")
      BY <1>3 DEF StopServer
    <3>2. phase # "closed"
      BY <3>1 DEF CallCoherent, At
    <3>3. stopping >= 1
      BY <3>1, <3>2, <1>a, <1>b DEF ServersCounted
    <3> QED
      BY <1>3, <3>3 DEF StopServer
  <2>2. (call.doubt \/ s \in live \/ failed) \in BOOLEAN
    OBVIOUS
  <2> QED
    BY <1>3, <2>1, <2>2 DEF StopServer, Bystanders
<1>4. CASE ServersStopped
  BY <1>4 DEF ServersStopped, Bystanders
<1>5. CASE JoinTasks \/ SealWrites \/ AwaitSeal
  BY <1>5 DEF JoinTasks, SealWrites, AwaitSeal, Bystanders
<1>6. ASSUME NEW c \in Channels, CloseWriter(c)
      PROVE  call' \in Call /\ UNCHANGED <<phase, cancelled, stopping, sealed, lock, rival, calls>>
  BY <1>6 DEF CloseWriter, Bystanders
<1>7. ASSUME NEW c \in Channels, AwaitWriter(c)
      PROVE  call' \in Call /\ UNCHANGED <<phase, cancelled, stopping, sealed, lock, rival, calls>>
  BY <1>7 DEF AwaitWriter, Bystanders
<1>8. CASE \E failed \in BOOLEAN : Flush(failed)
  BY <1>8 DEF Flush, Bystanders
<1>9. CASE Decide
  BY <1>9, <1>c DEF Decide, Bystanders, Quarantine
<1>10. CASE AbandonShutdown
  BY <1>10, <1>c DEF AbandonShutdown, Bystanders
<1>11. CASE DropRuntime \/ RivalAcquires
  BY <1>11 DEF DropRuntime, RivalAcquires, Bystanders, Quarantine
<1> QED
  BY <1>1, <1>2, <1>3, <1>4, <1>5, <1>6, <1>7, <1>8, <1>9, <1>10, <1>11 DEF LifecycleStep, ShutdownStep

\* Every step keeps the types.
LEMMA TypeStep ==
    ASSUME TypeOK, WritesCounted, ChannelsCoherent, CallCoherent, ServersCounted, [Next]_vars
    PROVE  TypeOK'
<1>1. OutsideStep \/ LifecycleStep \/ UNCHANGED vars
  BY DEF Next, OutsideStep, LifecycleStep
<1>2. /\ phase' \in HostPhase /\ cancelled' \in BOOLEAN /\ stopping' \in Nat
      /\ sealed' \in BOOLEAN /\ lock' \in {"held", "released", "quarantined"}
      /\ rival' \in BOOLEAN /\ call' \in Call /\ calls' \in 0..MaxCalls
  <2>1. CASE LifecycleStep
    BY <2>1, LifecycleType
  <2>2. CASE UNCHANGED <<phase, cancelled, stopping, sealed, lock, rival, call, calls>>
    BY <2>2 DEF TypeOK
  <2> QED
    BY <1>1, <2>1, <2>2, OutsideFrame DEF vars
<1> QED
  BY <1>2, WritesStep, ChannelsStep, AdmissionType DEF TypeOK, ChannelsKept

\* The call and the phase stay in agreement.
LEMMA CallStep ==
    ASSUME TypeOK, WritesCounted, CallCoherent, [Next]_vars
    PROVE  CallCoherent'
<1> USE DEF PastAdmission, PastSeal, ShutdownPoint, At
<1>0. call \in Call /\ NoCall.pc = "idle" /\ NoCall.servers = {} /\ ~NoCall.sealHeld
  BY DEF TypeOK, NoCall
<1>1. CASE OutsideStep
  <2>1. UNCHANGED <<phase, sealed, lock, call>>
    BY <1>1, OutsideFrame
  <2>2. /\ phase # "running" => gate' \subseteq gate
        /\ gate = {} => listed' = listed
    BY <1>1, OutsideAdmission
  <2>3. sealed /\ writing = {} => writing' = {}
    BY SealedStaysQuiet
  <2>4. call.pc \in PastAdmission => gate = {}
    BY DEF CallCoherent
  <2> QED
    BY <2>1, <2>2, <2>3, <2>4 DEF CallCoherent
<1>2. CASE BeginShutdown
  BY <1>2 DEF BeginShutdown, CallCoherent, NoCall, writes, admission
<1>3. CASE DrainServers
  BY <1>0, <1>3 DEF DrainServers, CallCoherent, Bystanders, writes, Call
<1>4. CASE \E s \in Servers, failed \in BOOLEAN : StopServer(s, failed)
  BY <1>0, <1>4 DEF StopServer, CallCoherent, Bystanders, writes, Call
<1>5. CASE ServersStopped \/ JoinTasks \/ SealWrites
  BY <1>0, <1>5 DEF ServersStopped, JoinTasks, SealWrites, CallCoherent, Bystanders, writes, Call
<1>6. ASSUME NEW c \in Channels, CloseWriter(c) \/ AwaitWriter(c)
      PROVE  CallCoherent'
  BY <1>0, <1>6 DEF CloseWriter, AwaitWriter, CallCoherent, Bystanders, writes, Call, Channels
<1>7. CASE AwaitSeal
  <2>1. inFlight = 0 => writing = {}
    BY Finite, FS_EmptySet DEF WritesCounted
  <2> QED
    BY <1>0, <1>7, <2>1 DEF AwaitSeal, CallCoherent, Bystanders, writes, Call
<1>8. CASE \E failed \in BOOLEAN : Flush(failed)
  BY <1>0, <1>8 DEF Flush, CallCoherent, Bystanders, writes, Call
<1>9. CASE Decide
  BY <1>0, <1>9 DEF Decide, CallCoherent, Bystanders, writes
<1>10. CASE AbandonShutdown
  BY <1>0, <1>10 DEF AbandonShutdown, CallCoherent, Bystanders, writes, AwaitPoint
<1>11. CASE DropRuntime
  BY <1>0, <1>11 DEF DropRuntime, CallCoherent, Bystanders, writes
<1>12. CASE RivalAcquires
  BY <1>12 DEF RivalAcquires, CallCoherent, writes, admission
<1>13. CASE UNCHANGED vars
  BY <1>13 DEF vars, CallCoherent
<1> QED
  BY <1>1, <1>2, <1>3, <1>4, <1>5, <1>6, <1>7, <1>8, <1>9, <1>10, <1>11, <1>12, <1>13
     DEF Next, OutsideStep, ShutdownStep

\* The servers that are left over stay counted, also when a call is dropped among them.
LEMMA ServersStep ==
    ASSUME TypeOK, CallCoherent, ServersCounted, [Next]_vars
    PROVE  ServersCounted'
<1>0. /\ call \in Call /\ call.servers \subseteq Servers /\ stopping \in Nat
      /\ Cardinality(call.servers) \in Nat /\ Cardinality(listed) \in Nat
      /\ NoCall.servers = {} /\ Cardinality({}) = 0
  BY Finite, FS_EmptySet DEF TypeOK, Call, NoCall
<1>1. CASE OutsideStep
  <2>1. UNCHANGED <<phase, stopping, call>>
    BY <1>1, OutsideFrame
  <2> QED
    BY <1>1, <2>1, OutsideAdmission DEF ServersCounted
<1>2. CASE BeginShutdown
  <2>1. call.servers = {} /\ call'.servers = {} /\ phase # "closed"
    BY <1>2 DEF BeginShutdown, CallCoherent, NoCall, At
  <2> QED
    BY <1>2, <2>1 DEF BeginShutdown, ServersCounted, admission
<1>3. CASE DrainServers
  <2>1. call.servers = {} /\ call'.servers = listed
    BY <1>0, <1>3 DEF DrainServers, CallCoherent, At, Call
  <2>2. phase # "closed"
    BY <1>3 DEF DrainServers, CallCoherent, At
  <2> QED
    BY <1>0, <1>3, <2>1, <2>2 DEF DrainServers, Bystanders, ServersCounted
<1>4. ASSUME NEW s \in Servers, NEW failed \in BOOLEAN, StopServer(s, failed)
      PROVE  ServersCounted'
  <2>1. /\ s \in call.servers /\ call'.servers = call.servers \ {s}
        /\ phase # "closed" /\ UNCHANGED <<phase, live, listed>>
        /\ stopping' = IF s \in live THEN stopping ELSE stopping - 1
    BY <1>0, <1>4 DEF StopServer, CallCoherent, At, Bystanders, Call
  <2>2. /\ Cardinality(call'.servers) = Cardinality(call.servers) - 1
        /\ Cardinality(call.servers) >= 1
    BY <2>1, ServerCount
  <2>3. CASE s \in live
    BY <1>0, <2>1, <2>2, <2>3 DEF ServersCounted
  <2>4. CASE s \notin live
    <3>1. ~(live \subseteq listed \cup call'.servers) => ~(live \subseteq listed \cup call.servers)
      BY <2>1, <2>4
    <3> QED
      BY <1>0, <2>1, <2>2, <2>4, <3>1 DEF ServersCounted
  <2> QED
    BY <2>3, <2>4
<1>5. ASSUME UNCHANGED <<phase, listed, live, stopping>>, call'.servers = call.servers
      PROVE  ServersCounted'
  BY <1>5 DEF ServersCounted
<1>6. CASE ServersStopped \/ JoinTasks \/ SealWrites \/ AwaitSeal
  BY <1>0, <1>5, <1>6
     DEF ServersStopped, JoinTasks, SealWrites, AwaitSeal, Bystanders, Call
<1>7. ASSUME NEW c \in Channels, CloseWriter(c) \/ AwaitWriter(c)
      PROVE  ServersCounted'
  BY <1>0, <1>5, <1>7 DEF CloseWriter, AwaitWriter, Bystanders, Call
<1>8. CASE \E failed \in BOOLEAN : Flush(failed)
  BY <1>0, <1>5, <1>8 DEF Flush, Bystanders, Call
<1>9. CASE Decide \/ DropRuntime
  BY <1>9 DEF Decide, DropRuntime, ServersCounted
<1>10. CASE AbandonShutdown
  <2>1. CASE At("servers")
    <3>1. PICK s \in call.servers : TRUE
      BY <1>10, <2>1 DEF AbandonShutdown
    <3>2. Cardinality(call.servers) >= 1
      BY <3>1, ServerCount
    <3>3. phase # "closed" /\ UNCHANGED <<phase, stopping>> /\ call'.servers = {}
      BY <1>0, <1>10, <2>1 DEF AbandonShutdown, CallCoherent, At, Bystanders
    <3> QED
      BY <1>0, <3>2, <3>3 DEF ServersCounted
  <2>2. CASE ~At("servers")
    BY <1>0, <1>5, <1>10, <2>2 DEF AbandonShutdown, CallCoherent, Bystanders
  <2> QED
    BY <2>1, <2>2
<1>11. CASE RivalAcquires
  BY <1>5, <1>11 DEF RivalAcquires, admission
<1>12. CASE UNCHANGED vars
  BY <1>5, <1>12 DEF vars
<1> QED
  BY <1>1, <1>2, <1>3, <1>4, <1>6, <1>7, <1>8, <1>9, <1>10, <1>11, <1>12
     DEF Next, OutsideStep, ShutdownStep

\* What a call without doubt has found out stays true, and each stage adds its part.
LEMMA KnowsStep ==
    ASSUME IInv, [Next]_vars
    PROVE  CallKnows'
<1> USE DEF PastAdmission, PastServers, PastJoin, PastAwait, ShutdownPoint, At, Channels
<1>0. call \in Call /\ ~NoCall.doubt /\ NoCall.pc = "idle"
  BY DEF IInv, TypeOK, NoCall
<1>a. ChannelsKept
  BY ChannelsStep DEF IInv
<1>b. ASSUME NEW c \in Channels, Drained(chan[c]) PROVE Drained(chan'[c])
  BY <1>a, <1>b DEF ChannelsKept
<1>c. call.pc \in PastAdmission => gate = {} /\ listed = {}
  BY DEF IInv, CallCoherent
<1>1. CASE OutsideStep
  <2>1. UNCHANGED call
    BY <1>1, OutsideFrame
  <2>2. gate = {} => /\ running' \subseteq running /\ live' \subseteq live /\ hooks' = hooks
                     /\ running = {} => failures' = failures
    BY <1>1, OutsideAdmission DEF IInv
  <2> QED
    BY <1>b, <1>c, <2>1, <2>2 DEF IInv, CallKnows
<1>2. CASE BeginShutdown
  BY <1>2 DEF BeginShutdown, CallKnows, NoCall
<1>3. CASE DrainServers \/ \E s \in Servers, failed \in BOOLEAN : StopServer(s, failed)
  BY <1>0, <1>3 DEF DrainServers, StopServer, CallKnows, Call
<1>4. CASE ServersStopped
  <2>1. live # {} => stopping > 0
    BY <1>0, <1>4, <1>c, Finite, FS_EmptySet
       DEF ServersStopped, IInv, CallCoherent, ServersCounted
  <2> QED
    BY <1>0, <1>4, <2>1 DEF ServersStopped, CallKnows, Bystanders, Call, IInv, TypeOK
<1>5. CASE JoinTasks
  BY <1>0, <1>5 DEF JoinTasks, CallKnows, Bystanders, Call, IInv, TypeOK
<1>6. ASSUME NEW c \in Channels, CloseWriter(c) PROVE CallKnows'
  BY <1>0, <1>6, <1>b DEF CloseWriter, CallKnows, Bystanders, Call, IInv
<1>7. ASSUME NEW c \in Channels, AwaitWriter(c) PROVE CallKnows'
  <2>1. chan[c] \in Channel /\ Coherent(chan[c], c \in writing)
    BY DEF IInv, TypeOK, ChannelsCoherent
  <2>2. ~call'.doubt => Drained(chan[c])
    BY <1>0, <1>7, <2>1 DEF AwaitWriter, Call, Channel, Coherent, Drained
  <2>3. UNCHANGED <<chan, live, running, failures>> /\ (~call'.doubt => ~call.doubt)
    BY <1>0, <1>7 DEF AwaitWriter, Call, Bystanders
  <2>4. CASE c = "journal"
    BY <1>0, <1>7, <2>2, <2>3, <2>4 DEF AwaitWriter, CallKnows, Call, IInv
  <2>5. CASE c = "audit"
    BY <1>0, <1>7, <2>2, <2>3, <2>5 DEF AwaitWriter, CallKnows, Call, IInv
  <2> QED
    BY <2>4, <2>5
<1>8. CASE SealWrites \/ AwaitSeal
  BY <1>0, <1>8 DEF SealWrites, AwaitSeal, CallKnows, Bystanders, Call, IInv
<1>9. ASSUME NEW failed \in BOOLEAN, Flush(failed) PROVE CallKnows'
  <2>1. ~call'.doubt => ~call.doubt /\ hooks' = {}
    BY <1>0, <1>9 DEF Flush, Call
  <2>2. UNCHANGED <<chan, live, running, failures>> /\ call.pc = "flush" /\ call'.pc = "decide"
    BY <1>0, <1>9 DEF Flush, Call, Bystanders
  <2> QED
    BY <2>1, <2>2 DEF CallKnows, IInv
<1>10. CASE Decide \/ AbandonShutdown
  BY <1>0, <1>10 DEF Decide, AbandonShutdown, CallKnows
<1>11. CASE DropRuntime
  BY <1>0, <1>11 DEF DropRuntime, CallKnows, Bystanders
<1>12. CASE RivalAcquires
  BY <1>12 DEF RivalAcquires, CallKnows, admission, IInv
<1>13. CASE UNCHANGED vars
  BY <1>13 DEF vars, CallKnows, IInv
<1> QED
  BY <1>1, <1>2, <1>3, <1>4, <1>5, <1>6, <1>7, <1>8, <1>9, <1>10, <1>11, <1>12, <1>13
     DEF Next, OutsideStep, ShutdownStep

\* The lock is released only by a decision without doubt, and nothing stirs afterwards.
LEMMA ReleaseStep ==
    ASSUME IInv, [Next]_vars
    PROVE  ReleasedForGood'
<1> USE DEF At
<1>a. ChannelsKept
  BY ChannelsStep DEF IInv
<1>b. ASSUME NEW c \in Channels, Drained(chan[c]) PROVE Drained(chan'[c])
  BY <1>a, <1>b DEF ChannelsKept
<1>c. lock = "released" =>
          /\ phase = "closed" /\ sealed /\ writing' = {} /\ At("idle")
          /\ \A c \in Channels : Drained(chan'[c])
  BY <1>b, SealedStaysQuiet DEF IInv, ReleasedForGood, CallCoherent
<1>1. CASE OutsideStep
  <2>1. UNCHANGED <<phase, sealed, lock, rival>>
    BY <1>1, OutsideFrame
  <2>2. /\ phase # "running" => gate' \subseteq gate
        /\ gate = {} => /\ running' \subseteq running /\ live' \subseteq live
                        /\ listed' = listed /\ hooks' = hooks
                        /\ running = {} => failures' = failures
    BY <1>1, OutsideAdmission DEF IInv
  <2> QED
    BY <1>c, <2>1, <2>2 DEF IInv, ReleasedForGood
<1>2. CASE Decide
  <2>1. CASE ReleaseIsSafe /\ lock = "held"
    <3>1. call.pc = "decide" /\ ~call.doubt /\ call.sealHeld
      BY <1>2, <2>1 DEF Decide, ReleaseIsSafe
    <3>2. /\ live = {} /\ running = {} /\ ~failures /\ hooks = {}
          /\ \A c \in Channels : Drained(chan[c])
      BY <3>1 DEF IInv, CallKnows, PastServers, PastJoin, PastAwait, PastAdmission, ShutdownPoint
    <3>3. gate = {} /\ listed = {} /\ sealed /\ writing = {}
      BY <3>1 DEF IInv, CallCoherent, PastAdmission, PastSeal, ShutdownPoint
    <3>4. /\ phase' = "closed"
          /\ UNCHANGED <<gate, running, failures, listed, live, hooks, writing, sealed, chan>>
      BY <1>2 DEF Decide, Bystanders, writes
    <3>5. lock' = "released"
      BY <1>2, <2>1 DEF Decide
    <3> QED
      BY <3>2, <3>3, <3>4, <3>5 DEF ReleasedForGood
  <2>2. CASE ~(ReleaseIsSafe /\ lock = "held")
    BY <1>2, <1>c, <2>2 DEF Decide, Quarantine, IInv, ReleasedForGood, CallCoherent, Bystanders
  <2> QED
    BY <2>1, <2>2
<1>3. CASE DropRuntime
  BY <1>3, <1>c DEF DropRuntime, Quarantine, IInv, ReleasedForGood, CallCoherent, Bystanders
<1>4. CASE RivalAcquires
  BY <1>4, <1>c DEF RivalAcquires, IInv, ReleasedForGood, admission
<1>5. ASSUME lock # "released", UNCHANGED <<lock, rival>> PROVE ReleasedForGood'
  BY <1>5 DEF IInv, ReleasedForGood
<1>6. CASE BeginShutdown
  BY <1>5, <1>6, <1>c DEF BeginShutdown
<1>7. CASE AbandonShutdown
  BY <1>5, <1>7, <1>c DEF AbandonShutdown, AwaitPoint, Bystanders
<1>8. ASSUME ShutdownStep, ~Decide
      PROVE  ~At("idle") /\ UNCHANGED <<lock, rival>>
  BY <1>8 DEF ShutdownStep, DrainServers, ServersStopped, JoinTasks, SealWrites, AwaitSeal,
     StopServer, CloseWriter, AwaitWriter, Flush, Bystanders
<1>9. CASE UNCHANGED vars
  BY <1>9, <1>c DEF vars, IInv, ReleasedForGood
<1> QED
  BY <1>1, <1>2, <1>3, <1>4, <1>5, <1>6, <1>7, <1>8, <1>9, <1>c, Zenon DEF Next, OutsideStep

-----------------------------------------------------------------------------
(* Theorems *)

\* A fresh runtime is coherent.
LEMMA InitInv == Init => IInv
<1> SUFFICES ASSUME Init PROVE IInv
  OBVIOUS
<1>1. TypeOK
  <2>1. 0 \in 0..MaxQueued /\ 0 \in 0..MaxCalls
    BY LimitsAssumption
  <2>2. chan \in [Channels -> Channel]
    BY <2>1 DEF Init, Channel
  <2>3. call \in Call
    BY DEF Init, Call, NoCall, ShutdownPoint
  <2> QED
    BY <2>1, <2>2, <2>3 DEF Init, TypeOK, HostPhase
<1>2. WritesCounted /\ ServersCounted
  BY FS_EmptySet DEF Init, WritesCounted, ServersCounted, NoCall
<1>3. ChannelsCoherent
  BY DEF Init, ChannelsCoherent, Coherent
<1>4. CallCoherent /\ CallKnows /\ ReleasedForGood
  BY DEF Init, CallCoherent, CallKnows, ReleasedForGood, NoCall, At, PastAdmission, PastServers,
     PastJoin, PastAwait, PastSeal
<1> QED
  BY <1>1, <1>2, <1>3, <1>4 DEF IInv

\* The invariant holds of every state of the runtime.
LEMMA Invariant == Spec => []IInv
<1>1. IInv /\ [Next]_vars => IInv'
  <2> SUFFICES ASSUME IInv, [Next]_vars PROVE IInv'
    OBVIOUS
  <2>1. TypeOK' /\ WritesCounted' /\ ChannelsCoherent'
    BY TypeStep, WritesStep, ChannelsStep DEF IInv, ChannelsKept
  <2>2. CallCoherent' /\ ServersCounted'
    BY CallStep, ServersStep DEF IInv
  <2>3. CallKnows' /\ ReleasedForGood'
    BY KnowsStep, ReleaseStep
  <2> QED
    BY <2>1, <2>2, <2>3 DEF IInv
<1> QED
  BY <1>1, InitInv, PTL DEF Spec

\* Every variable of the lifecycle keeps its shape: neither the count of guards nor the count
\* of servers that are still stopping is ever taken below zero.
THEOREM TypeCorrectness == Spec => []TypeOK
BY Invariant, PTL DEF IInv

\* Once another owner has the lock of the home, no handle, writer thread or final flush of
\* this runtime writes it, however often shutdown was dropped and called again.
THEOREM OneWriterPerHome == Spec => []SingleWriter
<1>1. IInv => SingleWriter
  BY DEF IInv, ReleasedForGood, SingleWriter, CallCoherent, At
<1> QED
  BY <1>1, Invariant, PTL

\* The lock is released only when no task, server, admission or writer thread is left, also
\* the servers that an earlier, dropped shutdown was stopping.
THEOREM ReleaseIsQuiet == Spec => []ReleaseMeansQuiet
<1>1. IInv => ReleaseMeansQuiet
  BY DEF IInv, ReleasedForGood, ReleaseMeansQuiet, Drained
<1> QED
  BY <1>1, Invariant, PTL

\* The lock is released only when every hook ran, every accepted entry was written and no
\* supervised task had failed.
THEOREM ReleaseIsComplete == Spec => []ReleaseMeansComplete
<1>1. IInv => ReleaseMeansComplete
  BY DEF IInv, ReleasedForGood, ReleaseMeansComplete, Drained
<1> QED
  BY <1>1, Invariant, PTL

=============================================================================
