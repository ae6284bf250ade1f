# Galadriel in TLA+

Galadriel watches the sensor fusion of an autonomous vehicle. A producer publishes two
routes: a *monitor* route with one event per association decision, frame summaries and
heartbeats, and an *observation* route with the frozen observations the decisions were
made on. Galadriel reassembles both into exact frames, decides which frames may extend a
statistical window, and reports on each track. It is advisory: what makes it correct is
not that it detects everything but that it never measures evidence that is incomplete,
out of order, replayed or mixed across a discontinuity, and that it stops, visibly and
for good, at the first thing it cannot account for.

This directory models that discipline. Paths below are relative to `src/`.

| module | what it is | code |
|---|---|---|
| `StreamAdmission` | what the lifecycle boundary promises about stream positions | (abstract) |
| `Lifecycle` | the typed lifecycle detector | `crates/galadriel-ncp/src/lifecycle.rs`, positions of `crates/galadriel-core/src/domain.rs` |
| `LifecycleProofs` | theorems about `Lifecycle`, among them that it implements `StreamAdmission` | |
| `FrameLedger` | the ledger one frame must balance | `validate_frame_ledger` of `assembler.rs`, `ModalityOutcome::validate` of `monitor.rs` |
| `RouteJoin` | what cross-route assembly promises | (abstract) |
| `Assembler` | the cross-route assembler | `crates/galadriel-ncp/src/assembler.rs` |
| `AssemblerFrames`, `AssemblerProofs` | lemmas about its functions; theorems about `Assembler`, among them that it implements `RouteJoin` | |
| `FoldFacts` | induction, loops, folds and sums, for the proofs | |
| `OperationalReceiver` | the live receiver: callbacks, queue, owning task, around the assembler | `crates/galadriel-ncp/src/operational_live.rs` |
| `OperationalReceiverProofs` | theorems about `OperationalReceiver` | |
| `FailStopChannel` | what the consumer of one monitor epoch is promised | (abstract) |
| `MonitorIngress` | one subscription of the monitor route: callbacks, gap timer, consumer | `crates/galadriel-ncp/src/monitor_live.rs` |
| `MonitorTap` | subscribing to and closing a tap that owns its bus | `monitor_live.rs` |
| `MonitorProofs` | theorems about `MonitorIngress` and `MonitorTap` | |
| `ObservationTap` | one bounded handoff of the observation route, its boundary and its resets | `crates/galadriel-ncp/src/live.rs` |
| `ObservationTapProofs` | theorems about `ObservationTap` | |
| `Mirror` | the window detector | `decision.rs`, `window.rs`, `cusum.rs` of `crates/galadriel-core/src` |
| `ScalarMonitor` | the scalar adapter around it | `crates/galadriel-local-adapter/src/lib.rs` |
| `DetectorOwners` | a detector held bare, behind the adapter, or by the local owner | `crates/galadriel-local-adapter/src/ncp_local.rs` |
| `ConsistencyChannels` | alignment of the channels that are compared | `crates/galadriel-core/src/lib.rs` |
| `Fusion` | consensus of correlated channels, and its fusion with the report | `correlation.rs`, `fusion.rs` of `crates/galadriel-core/src` |
| `DetectorProofs` | theorems about `Fusion` and `DetectorOwners` | |
| `MCLifecycle`, `MCFrameLedger`, `MCAssembler`, `MCOperationalReceiver`, `MCMonitorIngress`, `MCObservationTap`, `MCDetectorOwners` | small instances for TLC | |

## 1. Inventory

### Cross-route assembler (`galadriel-ncp/src/assembler.rs`)
*State*: the next monitor sequence, a reorder table of later events, the partial frames,
the frozen priors seen, a high-water mark per observation stream, the byte budget, the
last monitor, summary and heartbeat positions, the receipt time of the last heartbeat,
the last local time, the first fault.
*Operations*: ingest a monitor event or an observation (bytes or decoded), advance the
local time. Every call first looks at the deadlines.
*Hard*: events of either route in any order, one call that drains many events, a fault
in the middle of a drain, four deadlines, tables at their limits.
*Correct when*: what comes out is the sequence-order join of both routes, oldest first,
each frame exact; nothing complete is held back without a reason; every buffered byte is
accounted for; nothing outlives its deadline; a failing call releases nothing.

### Lifecycle detector (`galadriel-ncp/src/lifecycle.rs`)
*State*: per logical stream a lane (active position, epochs used, retained windows per
track, last continuity context, a ring of fingerprints); one chain of receipts with its
anchor; the latched first terminal error.
*Operations*: assess a positioned frame or a version 1 frame, explicit and timeout resets,
epoch rollover, clearing histories.
*Hard*: long sequences of legal calls (reset, rollover, clear and frames mixed), limits of
every retained collection, an error after the lane has moved.
*Correct when*: a window holds consecutive frames under one continuity context; positions
move one at a time and never twice to the same place; the log is a chain and tells each
stream's story; the first error empties every window and stops everything.

### Operational receiver (`galadriel-ncp/src/operational_live.rs`)
*State*: under one mutex a phase, the first fault, a bounded queue of stamped payloads,
a count of callbacks in the startup window; the assembler and staged events of the
owning task; health counters.
*Operations*: transport callbacks on both routes, opening (subscribe, drain the startup
window, activate), receive, close, drop; futures may be cancelled at their awaits.
*Hard*: callbacks against activation, closing and latching; a queued receipt against a
deadline; a staged event against a later fault; cancellation.
*Correct when*: every payload is counted once, nothing is assembled out of receipt order,
no event is delivered once a fault precedes it, the first fault reaches the caller.

### Monitor live ingress (`galadriel-ncp/src/monitor_live.rs`)
*State*: per subscription one mutex over the next sequence, the pending receipts, the open
gap with its generation and deadline, the first fault and the cancellation; a bounded
channel to the consumer; a watch that commands the gap timer task and one that tells the
consumer of the fault. Per tap a mutex over the number of leases and how far closing is.
*Operations*: a callback per payload; the timer task; `recv`, `try_recv`, `close` and drop
of the receiver; subscribing to the tap and closing it.
*Hard*: the timer against a gap that was filled and replaced, a batch half handed over, a
fault latched between dequeue and delivery, a panic under the mutex, the death of the timer
task, close against a subscription in progress.
*Correct when*: the consumer receives numbers 1, 2, 3... each once, and nothing after the
first fault; a gap is timed from the first receipt that proved it, and only a receipt that
waited its whole deadline ends the epoch; every receipt is counted once; a `recv` behind a
gap returns; no receiver is left behind on a closed bus.

### Observation live tap (`galadriel-ncp/src/live.rs`)
*State*: the delivery boundary (a mutex with a condition variable: who delivers, who
resets, how many resets wait), its generation, the replay tracker, a bounded channel, a
mirror of it for measuring, the counters and a fault latch all subscriptions of the tap share.
*Operations*: a callback per payload; `recv`, `try_recv`, `close` and drop of the
receiver; resetting the replay state; measuring the handoff.
*Hard*: a reset between dequeue and delivery, three kinds of waiter on one condition
variable, a stamp taken before the queue lock, a fault of a sibling at any step.
*Correct when*: nothing admitted before a reset is delivered after it, nothing twice between
two resets, every observation is counted once, a measurement shows the queue as it is, no
one waits for ever.

### Core detector (`galadriel-core`)
*State*: per track and modality a window of the newest NIS samples, two cumulative sums
and the last position. Without state: the alignment of the channels that are compared, the
consensus among them, and the fusion of both detectors' findings.
*Operations*: ingest, assess, remove a track, clear; align a stream; assess a stream.
*Hard*: an anomaly in one channel while others are stale, missing or of another time;
alignment across gaps, late samples and evicted frames; axes that contradict one another
or the report, or say nothing.
*Correct when*: windows and sums are those of an unbroken history; an anomaly cannot be
hidden by what peers send or fail to send; compared rows are consecutive; fusion hides no
evidence and attributes nothing another source contradicts.

### Scalar adapter and local owner (`galadriel-local-adapter`)
*State*: a prepared roster with its next position and its detector; for the owner one such
monitor per entity and the number of completed steps.
*Operations*: `assess_frame`; prepare, assess, finish and abort of a run.
*Hard*: a channel of a frame refused after others were ingested; the second entity of a
step failing after the first has moved.
*Correct when*: all channels hold the same consecutive positions, a window refused half
way is never continued, and no window gets ahead of a step that was not completed.

### Registry and monitor envelopes (`galadriel-ncp/src/registry.rs`, `monitor.rs`)
Pure validation of one message or configuration.

### The others
Configuration and identities (pure), secure transport configuration (one file, then a
bus), advisory authority (a pure function), dependence evidence, studies and simulator,
command line, release tooling, fuzz targets. They keep no state whose order matters.

### How they interact
Transport callbacks hand payloads to the operational receiver, whose task feeds them to
the assembler in receipt order and sleeps until the assembler's next deadline. The frames
the assembler releases are handed by the owner to the lifecycle detector, which decides
whether the pure detector of `galadriel-core` may see them. The monitor ingress and the
observation tap are the two single-route receivers for consumers that do not need the
join. The scalar adapter and the local owner bring a detector to callers without a bus.
The receivers share one convention: the first terminal fault latches, everything retained
is dropped, and every later call answers with that fault or nothing.

## 2. Plan

1. **Done.** `StreamAdmission`, `Lifecycle` and its first theorems: what may reach the
   detector matters most.
2. **Done.** `FrameLedger`, `RouteJoin`, `Assembler`: what may reach the lifecycle.
3. **Done.** `OperationalReceiver`, composing `Assembler` with callbacks, the queue and
   the owning task: what decides the order in which the assembler is called.
4. **Done.** `MonitorIngress` with its gap timer, shown to implement `FailStopChannel`, and
   `MonitorTap`: the receiver of the monitor route by itself.
5. **Done.** `ObservationTap`: the receiver of the observation route by itself.
6. **Done.** `Mirror`, `ScalarMonitor`, `DetectorOwners`, `ConsistencyChannels`, `Fusion`:
   what the evidence is turned into, and how far a caller may rely on it.
7. Proofs. **Done**: all that is checked of `Lifecycle`, its refinement of
   `StreamAdmission` included; the safety of `Assembler` with its refinement of `RouteJoin`, which
   includes that frames come out in order and share no prior; the safety of
   `OperationalReceiver`, and that it drives its assembler as `Assembler` allows, so that
   what is proved of one holds inside the other; all that is checked of `MonitorIngress`
   but its liveness, the refinement included; `MonitorTap`; the safety of
   `ObservationTap`; `Fusion`; all that is checked of the owners of a detector; the
   alignment.
8. Models left: inline subscriptions of the observation tap, and the verdicts of registry
   and envelope validation, now inputs of the assembler.

## 3. The lifecycle detector

`Lifecycle` has one action per public call.

| action | code |
|---|---|
| `AssessPositionedFrame` | `assess_positioned_frame` |
| `AssessFrame` | `assess_frame` and `assess_frame_transition`, with the position they derive |
| `ResetAt` | `reset_at` and `timeout_at` |
| `RolloverAt` | `rollover_at` |
| `ClearHistories` | `clear_histories` |

`lanes` is the map of lanes, `receipts`, `anchor`, `lastDigest`, `nextIndex`, `evicted`
the receipt log, `fault` the latched error, `outcome` what the last call returned.
`admitted` is auxiliary: every coordinate a stream has ever taken. A digest of a frame is
the frame, a digest of a receipt its index plus one, since both tell apart exactly what
the hash does; a retained vector is remembered by the position and continuity context it
was taken under, because that is what the properties tell apart. The pure detector's
refusal is a free choice; its report is left out except for whether it is there.

`MCLifecycle` asks three questions of three instances, since one instance that mixes all
inputs says less in more states.

| run | instance | shows |
|---|---|---|
| `lifecycle_windows` | two tracks, histories of two, frames up to sequence 3, on time or too late, whole, with a modality or a track missing, or under another context or suite | `WindowsContinuous`, `ReportsMatchWindows`, `LegacyAsksRightGeneration` |
| `lifecycle_replay` | two epochs, a ring of two fingerprints, a log of two receipts, four receipt indices, every structural defect | `ReceiptChain`, `FailsClosed`, `ReplaysNamedRightly`, refinement of `StreamAdmission` |
| `lifecycle_streams` | two producers (interchangeable), two streams each, room for two streams and two of three epochs | `LogReplaysLanes`, `NeverTwice` |

*Why the bounds are enough.* Every ceiling of the code (streams, epochs, fingerprints,
receipts, tracks, history length, counters) is a constant and some instance exceeds it:
the ring of two forgets one of three sequences, the log of two evicts, four indices run
out within a call, the third epoch and the third stream meet full tables, a window of two
drops its head at the third frame. Sequence 3 leaves room for a discontinuity with a full
window on either side.

### What is proved
`LifecycleProofs` proves, for every value of the constants that meets `BoundsAssumption`
and `DataAssumption` (bounds are naturals, ceilings are positive, inputs have their types,
the three absent values are not values):

* `TypeCorrect` - `Spec => []TypeOK`, which is left to the proof
* `WindowsAlwaysContinuous` - `Spec => []WindowsContinuous`
* `LogIsAlwaysAChain` - `Spec => []ReceiptChain`
* `AlwaysFailsClosed` - `Spec => []FailsClosed`

*The argument.* Neither invariant about windows is inductive alone: that a window remains
contiguous when a sample is appended needs that its last sample was at the active
position, that no abstaining track kept one, and that the recorded continuity context is
the one the samples were taken under. `IInv` is `TypeOK` with `Sound(lanes)`, which states
this for every lane. `Sound` is a statement about a value, so each handler is first shown
to compute a sound lane from a sound one (`AppliedLaneSound` for an admission,
`AssessedLaneContinuous` for the windows it extends, `ClearedSound` for clearing them
all), and the step lemmas only combine these. The log needs `LogInv`, `ReceiptChain` with `FailsClosed`: that the chain ends at `lastDigest` is what
`Commit` extends, and that nothing commits after the fault is what makes the latch final.
`Cardinality` enters these four only as a guard, so no fact about it is needed.

Its second part proves, from the same assumptions (which include that tracks are
finitely many and that an absent lane is no lane and no position):

* `ImplementsAdmission` - `Spec => ImplementsStreamAdmission`, the refinement
* `NeverTakenTwice` - `Spec => NeverTwice`
* `CoordinatesAlwaysAccounted`, `RetentionAlwaysBounded` - `CoordinatesAccounted` and
  `RetentionBounded`, which are left to the proof
* `LegacyAlwaysAsksRight` - `Spec => []LegacyAsksRightGeneration`

*The argument.* A handler first prepares lanes in which at most one stream has taken a
legal position (`Prepared`); every ending of a call takes the prepared lanes and notes the
coordinate. So one lemma about each handler yields `Steps`: a step leaves every stream
where it is, or moves one to a place `LegalMove` allows. The rest follows from that, and
not from the handlers: `AInv` says that a stream's used epochs and its place bear out all
it ever took, so a legal move is a new coordinate, and a refused one changes nothing the
abstract boundary sees. The record of the past is needed because a single state does not
tell that an epoch of many rollovers ago is closed.

Its third part is about what the detector says of itself:

* `LogAlwaysReplaysLanes` - `Spec => []LogReplaysLanes`
* `ReplaysAlwaysNamedRightly` - `Spec => []ReplaysNamedRightly`
* `ReportsAlwaysMatchWindows` - `Spec => []ReportsMatchWindows`

*The argument.* The log tells each stream's story because in it every accepted receipt is
followed by the next one of its stream through a legal transition (`Linked`), and the last
accepted one carries the place where the lane stands (`Tracked`): a step appends one
receipt, perhaps dropping the oldest, and neither part looks at what was dropped. For the
names of refusals the ring of fingerprints has to be tied to the past: it holds the newest
frames assessed in the epoch in rising order of sequence, and a frame it has forgotten lies
below a full ring (`Ring`); so a sequence that is in the ring is there with the frame that
was assessed, and a sequence missing from it that was taken was forgotten or was never
measured. A report is compared with the windows it left, in the state the call leaves
behind; what is needed beyond that is that no call answers after a fault (`ReportInv`).

`ReportsMatchWindows` rests on `HistoryFrames >= 2`, which `BoundsAssumption` states and
the code guarantees: the history is at least as long as the correlation window, which is
at least `MIN_CORRELATION_WINDOW` = 4 (`correlation.rs`, and the constructor in
`lifecycle.rs`). With a history of one frame a window that goes on could not be told from
one that began again.

Nothing that the runs check of this component is left to them alone.

## 4. The ledger of a frame

`FrameLedger` is `validate_frame_ledger`, the one pass over a frame's events with its
running totals, and its verdict: the first error, and the observations the frame owes.
`MCFrameLedger` writes the rule of `docs/PRODUCER-CONTRACT.md` a second time as a
statement about the whole ledger (`Lawful`, `WithinPolicy`), and grows every ledger of up
to three events of small data. `frame_ledger` shows that the pass accepts exactly the
lawful ones and owes exactly the observations of the terminal outcomes
(`LedgerMatchesContract`). Three events are two attempts and a miss or
terminal, two pairs and a birth, or a pair for each of two tracks, which is every way a
running total relates to another. The run stops at three events, so deadlock is not
checked.

## 5. The cross-route assembler

`Assembler` has one action per call: `IngestMonitor`, `IngestObservation`, `AdvanceTime`,
and `AfterFault` for every call after the latch. A call is a function from the fields to
the fields, written as the code is: the deadlines (`Begin`), then the envelope, the drain
of the reorder table, readiness and release, each step passing on an error as `?` does.
`self` holds the fields, `told` the events returned. `log`, `seen`, `out` and `beats` are
auxiliary: what calls that did not fault have taken, and what was released.
The verdicts of decoding, envelope validation and registry lookups are inputs (`defect`,
`trouble`), because they are pure and what matters is when they strike.

| run | instance | shows |
|---|---|---|
| `assembler_join` | three frames with one, two and no owed observations, in every order on both routes, with duplicates, contradictions, a used prior, a false count, a degraded summary, an unreadable payload; tables of two or three, seven bytes; from instant 2 on the deadlines do not fit the clock | refinement of `RouteJoin`, `NothingWithheld`, `BuffersAccounted` |
| `assembler_clock` | two heartbeats, a frame and one nobody closes, calls at any of six instants or in the past | `DeadlinesKept`, `NextDeadlineTight`, `FramesResolve` |
| `assembler_silence` | that of `assembler_clock` | the finding of section 10 |

*Why the bounds are enough.* Three frames are what blocking needs (an older one that
blocks, one that is ready, one between); every table limit is reached by some order and
exceeded by another; six instants let each deadline (2, 3, 3 and 4) pass before, with and
after the others.

*Fairness.* Only `FramesResolve` uses any: weak fairness of `AdvanceTime` with a later
time. The owner in `operational_live.rs` (`recv`) sleeps until `next_deadline_at` and then
calls `advance_time`, and monotonic time goes on whatever the producer does. No fairness
is assumed of the producer or of either route.

*What is proved.* `AssemblerProofs`, for every value of the constants that meets
`LimitsAssumption` (every limit is a positive number, the initial heartbeat deadline is no
shorter than the later ones), `EnvelopeAssumption` (numbers are naturals, an absent value is
none of the values, every event of a frame says which observation it owes or that it owes
none) and `VerdictAssumption` (only `begin_call` concludes that time went back: no verdict
on an envelope says so):

* `JoinsRoutes` - `EpochSpec => ImplementsRouteJoin`, the refinement: what comes out is the join
  of what both routes delivered, in fusion order, no two frames with one prior, and a
  failing call releases nothing
* `CompleteReleased` - `EpochSpec => []NothingWithheld`
* `BudgetExact` - `EpochSpec => []BuffersAccounted`
* `NothingOverdue`, `DeadlineTold` - `EpochSpec => []DeadlinesKept`,
  `EpochSpec => []NextDeadlineTight`
* `Invariant` - `EpochSpec => []EpochInv`, from which the five follow

*The argument.* `EpochInv` says what a live epoch keeps between calls (`Kept`), and that nothing
is kept after a fault (`Lost`). `Kept` has these parts. `Ordered` and `Waiting`: positions
lie behind the next number, what is buffered lies ahead of it. `Tables`, `Budget` and
`Timely`: every table, byte and receipt time. `Foreseen`: a frame that a buffered event
belongs to is open already. `Joined`, which ties the buffers to the history: an open frame
holds exactly the events, the summary and the observations of its fusion sequence that the
log and the other route brought (`Gathered`), and once closed it owes what its ledger says
(`Balances`); of a frame not seen yet there is no trace (`Untouched`); what was released
was releasable then and nothing was added since (`Done`). `SettledBut`, `Quiet` and
`Gapped`: readiness is up to date, the oldest frame is not ready, a gap is open when
something waits.

Why these: that nothing is withheld needs that the readiness flag is what the history says
at every open frame, not only at the oldest; that a released frame never changes needs
that a late event or observation of it is refused or waits; that no prior is shared needs
that the table of priors remembers frames already released. Inside a call only a part of
`Kept` holds: `Running`, while an error can still strike, and `Steady`, once a drain has
returned to rest. So each function of the call (`EnsureFrame`, `EstablishIdentity`,
`AddEvent`, `CloseFrame`, `ProcessHeartbeat`, `Store`, ...) has a lemma from `Running` to
`Running`, the loops preserve it turn by turn, `Finish` leads from it back to `EpochInv`,
and each step of the specification is such a `Call` or leaves everything as it is
(`StepIsCall`).

The same lemmas carry what the receiver of section 6 needs to know about time (`OnClock`):
a call at an instant that is not in the past reports no clock that went back, and, if the
reorder deadline is no longer than the heartbeat deadline (`Prompt`), leaves a heartbeat
deadline that lies ahead (`BeatHeard`), whatever heartbeats it drained. With `EpochInv` it
follows that every deadline lies ahead between calls (`DeadlineAhead`).

A frame is released on a count: it has as many observations as it owes. That the counts
suffice is the ledger's work (`PassLists`, `OwedSize`): the pass lists each owing pair once, with the
projection it was born with, every stored observation answers a pair that is owed, and so
equal numbers mean equal sets (`MatchedWhenFull`).

*Loops and folds.* The drain, the release, the ledger and the definitions of `RouteJoin`
are folds and loops. Induction over them is possible without a theorem that takes an
operator: `FoldFacts` has the body of the loop as a constant operator `Step`, proves what
is known of every loop and fold from it, and the proofs instantiate it once for
each body.

Two notes on reading. The guards of a `CASE` overlap where the code returns early; TLC
takes the first that is true, the proofs hold whichever true one is taken. The refinement is
proved for the action as a whole, so a call that drains many events is one step of
`RouteJoin`.

*Only model-checked.* `FramesResolve`, which is liveness. `LedgerMatchesContract` compares
two definitions and is checked on every small ledger.

## 6. The operational receiver

`OperationalReceiver` interleaves transport threads (`Callbacks`) with the one task that
owns the receiver. The unit of interleaving is a critical section of the ingress mutex, or
what a thread does between two of them; a callback keeps the mutex over two actions, since
the copy of its payload can take time and can panic.

| actions | code |
|---|---|
| `EnterCallback`, `AcceptPayload`, `EnqueuePayload`, `PanicInCallback`, `LeaveCallback` | `enter_callback`, `accept_payload`, a panic in it and the recovery in `lock_state`, `StartupCallbackPermit::drop` |
| `SubscribeObservation`, `SubscribeMonitor`, `BeginActivation`, `Drain`, `DrainWake`, `Activate`, `AbandonOpening` | `from_prepared` and its activation guard |
| `StartRecv`, `LookForFault`, `LookAtClock`, `ReachDeadline`, `TakePriority`, `TakePendingEvent`, `ArmSelect`, `WakeFor...`, `ProcessOrExpire`, `StageEvents`, `CancelRecv` | `recv`, in the order of its loop; the branches of `select`, any ready one of which may win |
| `StartClose`, `Seal`, `UndeclareObservation`, `UndeclareMonitor`, `CloseBus` | `close`, which may be cancelled or fail at each await and be called again |
| `DropReceiver`, `FinishDrop` | dropping the receiver |
| `Tick` | the monotonic clock, counted from activation |

`shared` is what the mutex and the atomics next to it protect, `cb` the threads' positions,
`owner` the task's position with its queue snapshot, the payload in hand and the staged
events; `health` holds the counters of the health snapshot that count payloads and events.

*Composition.* `OperationalReceiver` extends `Assembler`, whose variables (`epoch`) are its
own: `ProcessOrExpire` and `ReachDeadline` are steps of the assembler (`IngestMonitor`,
`IngestObservation`, `AdvanceTime`) and of the receiver at once, with the receipt time of
the payload or the deadline as their time, and every other step leaves `epoch` alone. Hence
the names in `Assembler`: `New`, `EpochNext`, `EpochSpec` and `EpochFairSpec` are its
initial states, next-state relation and specifications, beside the receiver's `Init`,
`Next`, `Spec` and `FairSpec`. The envelopes come from the samples. What `Assembler`
promises of single calls is checked in section 5; here the question is which calls it gets,
and `EpochDriven` below is the answer: only those it allows.

| run | instance | shows |
|---|---|---|
| `operational_safety` | two interchangeable threads, three messages out of two heartbeats, an observation of a frame nobody closes and a misaddressed one, queue of two, deadlines of one and two, clock to two | `EverythingAccounted`, `SealedStaysEmpty`, `ReadyMeansClean`, `EarlierEvidenceFirst`, `AssemblerTimeOrdered`, `DeliveredIsCurrent` |
| `operational_liveness` | two threads, two heartbeats, queue of one | `OpeningEnds`, `FaultReachesCaller` |

*Why the bounds are enough.* Every hazard of this component is between two threads, or one
thread and the task. Two threads and three messages put a callback at each of its
positions while another one has filled the queue, latched a fault or panicked and the task
is at any of its own; a queue of two with three messages overflows, a queue of two is
drained in parts by the deadline and by the snapshot. The clock to two passes the reorder
and frame deadlines (one) and the heartbeat deadline (two), with receipts before, at and
after each. A receiver is opened once, so nothing is gained by more rounds; `recv` and
`close` are called any number of times. The receiver may be closed or dropped for good,
and the transport stops after `MaxSamples`, so these runs do not check deadlock.

*Fairness.* A thread inside a callback is scheduled again (`WF` of `CallbackStep`), and so
is the task inside opening or `recv` (`OpeningStep`, `ReceivingStep`, assembling): that is
what the operating system and the async runtime do, the latter because the notifications
in the model wake the task. Nothing obliges the transport to deliver, a caller to call, or
the clock to move, so `FaultReachesCaller` says that the stored notification alone is
enough. `OpeningEnds` needs a transport that falls silent, which `MaxSamples` provides:
while messages keep arriving before activation has begun, the code lets opening wait.
Fairness of the assembling steps is stated on how they leave the task (`LeavesAssembling`),
which is enabled exactly when they are and spares TLC computing the assembler's call to
find that out.

*What is proved.* `OperationalReceiverProofs` proves, from `ReceiverAssumption` (positive
capacity, finitely many threads, an absent value that is none of the names used, samples
that decode to envelopes of their route, and a range of instants that holds what the clock
can show) and the assumptions of the assembler, for any number of threads, samples,
capacity and limits:

* `SealedStaysEmptyAlways` - `Spec => []SealedStaysEmpty`
* `ReadyAlwaysClean` - `Spec => []ReadyMeansClean`
* `EverythingAlwaysAccounted` - `Spec => []EverythingAccounted`, with
  `PayloadsAlwaysAccounted` for its half about payloads
* `AlwaysDeliversCurrent` - `Spec => DeliveredIsCurrent`
* `EpochDriven` - `Spec => EpochSpec`, and from it and `JoinsRoutes`
  `ReceiverJoinsRoutes` - `Spec => ImplementsRouteJoin`: the frames a receiver is told of
  are the joins of both routes, whatever the transport threads do
* `EarlierAlwaysFirst` - `Spec => []EarlierEvidenceFirst`
* `TimeAlwaysOrdered` - `Spec => []AssemblerTimeOrdered`, for a configuration whose reorder
  deadline is no longer than its heartbeat deadline. The code does not require that of a
  configuration, and without it the property fails (section 10); the default limits meet it.

*The argument.* `Inv` has three parts. `Shapes` says who holds the mutex when, and that
the startup count is the number of callbacks that entered before activation and have not
left. `Window` says that while activation waits for that count nobody can enter, so once
it is zero a callback that could still report early evidence does not exist. `Sealing`
says where the task may be once it closed, and that a sealed receiver has a free mutex and
a closed phase: that is why no callback can add to the queue afterwards. `Books` are the
two balances; each step moves one payload from one place to another, and a panic moves it
to the panicked. `Snapshot` says that what was queued when `recv` began is done with, in
the hand, or within the budget left; when the task takes a staged event the budget is
spent and the hand is empty.

`OnTime` adds the instants. `Stamped`: what is in the hand was received no later than what
is queued, and that no later than what is being copied, because a callback stamps and
enqueues under one lock; a task that looks at a deadline does so when the clock has reached
it. `Timed`: nothing received and not yet given to the assembler precedes the last instant
the assembler was told of (`Punctually`), as long as no fault of the ingress has emptied the
queue; what was dropped unread when a deadline ended the epoch does not precede it either.
`OnTime` contains `EpochInv`, since that an expired deadline really ends the epoch
(`DeadlineEnds`), and so no payload is dropped while it goes on, is the assembler's doing.
From it every step of the receiver is a step of `EpochNext` or leaves `epoch` alone.

`EventBooks` is the balance of the events: a call returns a sequence, it stands between the
assembler and `stage_assembly_events` in one place only (`Staged`), and the fault it may end
with is the one that becomes the receiver's own (`Own`). It needs `OnTime` for the fact that
no call is made after a fault of the assembler. `Forward` is the induction for
`TimeAlwaysOrdered`: while the epoch runs, the heartbeat deadline lies ahead, so the earliest
of the deadlines does and neither a payload (`Punctually`) nor an expiry (`DeadlineAhead`)
brings an earlier instant.

*Only model-checked.* Liveness.

## 7. The monitor ingress

`MonitorIngress` is one subscription: callbacks on transport threads, the gap timer task
and the task that owns the receiver. One action is one critical section of the ingress
mutex, or what a thread does between two of them; a callback keeps the mutex while it hands
a contiguous batch over, receipt by receipt, so the consumer and the timer see every state
of a batch and a panic can leave it half handed over.

| actions | code |
|---|---|
| `ProcessPayload`, `HandOver`, `PanicUnderLock` | `process_payload` up to, and inside, its loop over the contiguous batch; a panic under the mutex, recovered by the next `lock_state` |
| `WakeForCommand`, `WakeForDeadline`, `ExpireGap`, `TimerDies` | `run_gap_timer` and `expire_gap`; the task ends on its own |
| `StartRecv`, `LookForFault`, `WakeForFault`, `TakeReceipt`, `WakeForTimer`, `FindNothing`, `Settle`, `CancelRecv` | `recv` and `try_recv`, in the order of their loop; the branches of `select` |
| `Close` | `close` and drop |
| `Tick` | the monotonic clock |

`ingress` is `IngressState` with a flag for the poison of its mutex; `command` and
`consumer.faultUnseen` are the two watches; `channel` the bounded handoff; `timer` and
`consumer` where the two tasks are. `delivered` is auxiliary. An event is its number; a
payload that is refused for itself is the fault it latches (`Defects`).

`MonitorTap` is the tap around the subscriptions: `Reserve`, `Declared`, `NotDeclared`,
`Undeclare` and `ReturnLease` are the steps of `subscribe_channel` and of giving a receiver
up, `StartClose`, `CloseBus`, `CloseFails` and `CompleteClose` those of `close`. Both may
fail or be dropped at their one await. It shares no state with the epochs of its
subscriptions, so the two are checked side by side in one run, never both in one behaviour.

Run `monitor_ingress` shows, for four numbers that arrive in any order, more than once or
malformed, in up to four payloads until instant 2, with a table of two, a distance of
three, a handoff of three, a deadline of two and a clock to four:

* `ImplementsFailStop`: the consumer is served by `FailStopChannel`, contiguous, in order,
  at local times that do not go back, and nothing after the first fault, not even a receipt
  already taken from the channel;
* `GapMatchesEvidence`: a gap is timed from the first receipt that proved it;
* `EndsForItsReason`: an epoch ends by a gap only when a receipt waited its whole deadline
  behind it, and by the loss of the timer task only when that died;
* `ReceiptsAccounted`: no receipt is lost or counted twice;
* `RecvReturns`: behind an open gap or a fault, a waiting `recv` returns;
* `NoneStranded`, for three subscribers and two closers: from the moment a close starts no
  one has, or will get, a receiver of that tap.

*Why the bounds are enough.* Four payloads fill the table of two and ask for a third, make
one gap and close it into the next one, and fill a handoff of three while a batch is being
handed over. A deadline of two within a clock of four lets a gap be proved, replaced and
proved again before the wake that was meant for the first. The transport stops delivering,
an epoch ends and a tap is closed for good, so deadlock is not checked.

*Fairness.* `HandOver`, the timer task, the task inside `recv` and the clock go on (`WF`):
a thread inside a critical section is scheduled again, the runtime polls woken tasks,
monotonic time passes. No payload is obliged to come and no call to be made. `RecvReturns`
excludes a poisoned mutex: a panic in a callback notifies nobody, and the consumer learns
of it when the next thread enters the mutex.

*What is proved.* `MonitorProofs`, for all constants that meet `IngressAssumption`
(positive bounds, a handoff larger than the table, as `validate_capacity_relationship`
demands): `TypeCorrect`, `GapIsTimedFromFirstProof`, `ReceiptsAreAccounted`,
`EpochEndsForItsReason` and `ServesFailStop`, the refinement. `GapMatchesEvidence` is not
inductive: that an admission leaves a gap with the right deadline needs that everything
pending is ahead of the next number, within the distance, and not of the future (`WellPlaced`);
that the timer is not called failed needs that it returns, and is told to stop, only when
the epoch has ended, and wakes no earlier than its deadline (`Stopping`). `Inv` collects
these. For
the refinement, `InOrder` adds that, while nothing is broken, what was delivered, what the
owner holds, what is queued and what the callback has in hand are, in this order, one run
of numbers up to the next one, at times that do not go back (`Numbering`, `Ordering`); five
kinds of step (`Stays`, `Grows`, `Queues`, `Takes`, `Hands`) keep it, and each action is
shown to be one of them before it is shown to map to a step of the abstract channel.
`CloseStrandsNobody` holds for any sets of tasks: the number of leases
is the number of subscribers that hold one (`LeasesCounted`), and whoever is on the way to
the bus has started a close (`ClosesStarted`). Only `RecvReturns` rests on TLC.

## 8. The observation tap

`ObservationTap` is one bounded handoff: threads that call back, the task that receives,
and operators who reset the replay state or measure. They meet at `DeliveryBoundary`, so
one action is one critical section of it, of the queue or of the tracker.

| actions | code |
|---|---|
| `Arrive`, `ResumeArrival`, `AdmitObservation`, `StampObservation`, `Enqueue`, `LeaveDelivery` | a callback: `begin_delivery`, the tracker, `ObservationHandoff::enqueue`, the guard's drop |
| `StartRecv`, `ResumeRecv`, `BeginFinish`, `FinishDequeue`, `ClearMirror`, `CancelRecv`, `CloseReceiver`, `StartDrop`, `DropReceiver` | `recv` and `try_recv` with `finish_dequeue` and quarantine; `close`; drop |
| `RequestReset`, `AcquireReset`, `AdvanceGeneration`, `ClearSequences`, `ReleaseReset` | `reset_sequence_state` |
| `BeginMeasure`, `ResumeMeasure`, `EndMeasure` | `handoff_metrics` |
| `LatchFault` | another subscription of the tap latches the shared fault, at any time |

`waiting` holds the threads in the condition variable and is emptied by every
`notify_all`. `aux` is auxiliary: what was admitted and lost, and what was delivered since
the replay state was last cleared.

Run `observation_tap` (one transport thread, two payloads of one stream, a queue of one, two
operators with three requests among them, a fault at any step) shows `BoundaryExclusive`,
`OncePerEpoch` (what is delivered was admitted since the last reset, each number once),
`HandoffAccounted`, `MeasuredIsReal` and `BoundaryComesToRest`.

*Why the bounds are enough.* A reset is refused while a delivery is active, so the hazards
lie between a callback, a receiver and two operators, one of whom waits for the other; a
second transport thread would be one more waiter for the same guard. Two payloads leave one
in the queue, or in the receiver's hand, while the other is refused by the full queue or
waits. Three requests are two overlapping resets and a measurement.

*Fairness.* A thread inside a call is scheduled again and a woken task polled (`WF` of
`CallbackStep`, `ReceiverStep`, `OperatorStep`). Nobody is obliged to begin a call, and no
wake-up comes for no reason. Since payloads and requests are bounded, coming to rest means
that every one of them is through.

*What is proved.* `ObservationTapProofs`, for any numbers of threads, operators, streams,
payloads and requests and any capacity: `TypeCorrect`, `BoundaryIsExclusive`,
`MeasurementIsReal`, `HandoffIsAccounted`, `DeliveredOncePerEpoch`. Everything rests on
`Holding`: who is where in the code is who holds the boundary, and the pending count is the
number of waiting resets. From it follow `Aligned` (the mirror is the channel outside a
quarantine), `Accounted` (the counters add up), `Epochs` (what is stamped carries the epoch
that admitted it, for no reset gets in between, so an entry of the current generation is
one of the current epoch) and `InOrder` (what is queued of one stream and epoch has rising numbers, above those
delivered and at most the tracker's). `BoundaryComesToRest` rests on TLC.

## 9. The detector and its owners

`Mirror` writes `Mirror::ingest` and `Mirror::assess` as functions of the tracks: what is
refused, what a window and its two sums become, and which verdict a report gives. NIS
values are small naturals, and the chi-square test is the constant `Elevated`; sums, slack
and thresholds are the constants `Slack` and `Threshold`. `ScalarMonitor` is the adapter as
functions on a prepared monitor. `DetectorOwners` turns both into actions: `Ingest`,
`RemoveTrack`, `Clear` for a bare detector of a release suite or a subset of one,
`AssessFrame` for the adapter, and `PrepareRun`, `AssessStep`, `EndRun` for the local owner,
in which any call may find no storage for a first sample, or fail to form its report, and
the owner may fail to write a report out when the window has moved already (`Failures`,
`Faults`). `accepted` is auxiliary: all that a live channel was ever given.

`ConsistencyChannels` is the alignment, two folds over one stream, `Read` and `Extracted`;
its one action, `Observe`, records an observation more, so that the alignment is asked for
after every prefix of every stream. `Fusion` takes the graph
of channel pairs whose correlation reaches the threshold as an input and models what
`analyze` makes of it (largest cliques, strict majority, bridged outsiders), what
`axis_consistency_evidence` makes of all axes, and the table of `combine_validated`.

One run, `core_detector`, has three disjoint parts, one of which moves in a behaviour:

* the owners, with windows of two, two tracks, two modalities, positions to two, a roster
  of two, a plan of three steps and two entities: `WindowsMatchHistory` (window, sums and
  position are those of the whole unbroken history, computed from its definition),
  `RunsUnbroken` (behind the adapter all channels hold the same consecutive positions; in
  the local owner those of consecutive completed steps of one sensor) and `AnomalyHeld`
  (under a release suite an anomaly at a sequence cannot be cleared by what the other
  channels send);
* streams of up to five observations, and of one too many, with two retained frames, in and out of order, late,
  with repeated priors, other contexts, foreign channels and tracks: `RowsAreLongestRun`,
  against a definition over the whole stream;
* a suite of four channels, each quiet, inflated or missing and one also shifted down,
  stale or of another time, with every graph as a single axis and with pairs of axes of
  five kinds: `FusionHidesNothing`, against a definition that knows neither cliques nor
  the table.

*Why the bounds are enough.* A window of two drops its head at the third sample; three
positions hold a gap, a repetition and a regression; three steps and two entities put a
half-way failure before, between and after completed ones; a step ends at the first fault
that takes effect, so one per step is enough. Five observations give two
channels two whole frames and one more, so that the eviction of a third frame takes a break
along. Four channels have majorities of three and four, even splits, chains and bridges.

*What is proved.* `DetectorProofs`, for every finite suite, every roster and plan, all
limits and all inputs.

* Fusion. `AnalyzeSetsApart`: the search for cliques finds exactly a strict majority joined
  to its members and nobody else, which is unique because two majorities intersect; and from
  it `AssessmentHidesNothing`, `FusionSpec => []FusionHidesNothing`, through the family of
  axes, the report and the table, one lemma each. A consequence: an attributed inconsistency
  is never `MagnitudeEvidence::Mixed`. The branch that gives it (`fusion.rs:293`) is not
  reached, since a report that names some of the channels has already led to
  `UnclassifiedAnomaly`.
* `AnomalyAlwaysHeld`. It needs `Suited`, that a release suite never holds a channel outside
  the suite. Then the number of channels that share a report, on which every row's threshold
  depends, is fixed, and a peer's sample leaves the row of an anomalous channel as it was.
* `RunsAlwaysUnbroken`, from `RunInv`: the positions behind the adapter end at the last
  assessed frame, and those in the local owner at the last completed step. The interesting
  step is a result that fails half-way: channels assessed before the failure are one step
  ahead of the rest, and the theorem rests on the fact that nothing reads them again, because
  the track that failed refuses the same result again: it is retired, or it failed after its
  window had moved and that position is taken (`Stuck`).
* `WindowsAlwaysMatch`, from `WindowInv`: which channels exist, that each is `Kept` from what
  it was given, and that the owner's two other parts are idle. Two lemmas carry it. A sum
  follows Page's recursion, `max(0, sum + value - slack)`, while the property defines it as
  the largest run that ends now; that these agree is `Rises`: the runs of a history with one
  more sample are the old ones and the empty one, each longer by that sample. A frame is
  ingested by a fold that may refuse half-way; its invariant says that the channels already
  visited have the sample, that the rest are as before, and that a refusal leaves the
  monitor retired.

* `RowsAlwaysLongestRun`, from `ReadInv`: as long as a stream is in order, the first pass
  holds the newest frames and no other, what was said in each, and a break for exactly those
  in which some channel speaks after too long a silence, evicted frames included in that
  silence; and it refuses the first observation that is out of order. `RowsUpTo` is the
  second pass after `k` frames: the rows are frames `a` to `k`, all usable and each linked to
  the next, and frame `a - 1` is not usable or not linked. The two passes see different
  things, breaks of single channels in the one and pairs of neighbouring frames in the other;
  `BreakIs` shows that for neighbours whose first is usable they are the same, because a
  channel that spoke in a frame in between would have made that frame a neighbour.

The assumptions are `FusionAssumption` and `DetectorAssumption` on the limits,
`OwnersAssumption` (entities and roster are sequences, no modality is installed twice),
`ValuesAssumption` (what is summed are integers: the code rounds the scaled sample and both
sums at every update, which is not modelled),
`AlignmentAssumption` (finitely many distinct channels and at least one, room for a frame,
sequences and times are naturals; a repeated channel or a limit out of range is refused
before the stream is looked at, and without a channel nothing is read) and
`AbsenceAssumption` (the absent value is none of the values it is compared with).

## 10. Findings

**A heartbeat can bring the deadline forward** (`assembler_silence`, `SilenceMeansSilence`).
Heartbeats that arrive in the wrong order are processed in sequence order and the last one
processed, which arrived first, sets the receipt time. The epoch may then fault as
`HeartbeatDeadlineExpired` within the deadline of an accepted heartbeat, against the
comment on that fault.

Its effect reaches `recv` of the operational receiver when the configuration lets a gap be
waited for longer than a heartbeat: a drained heartbeat then sets a deadline that lies
before a receipt already processed, the assembler is advanced to it, and the epoch ends as
`MonotonicClockRegressed` although no clock went back. With the default limits (1 s and 3 s)
it cannot happen: `TimeAlwaysOrdered` proves so for all limits ordered like them.

## 11. What is not modelled

* Inline subscriptions of the observation tap, which hand observations to a foreign
  callback instead of a channel. A fault of theirs is an input of `ObservationTap`.
* The poison of mutexes under which nothing of the program can panic (counters, the tap's
  lifecycle, the handoff queue), and the exhaustion of 64-bit counters.
* That a `recv` of the observation tap returns: a parked one is not woken by a fault, and
  no document promises that it is. `ObservationTap` models the wait.
* Floating-point statistics: Pearson correlation, thresholds, the chi-square test and
  saturation. Their verdicts are inputs or constants.
* The binding, plan and integrity checks of the external `ncp-local` protocol: they decide
  whether a body result reaches the local owner.
* Parsing, size checks, hashing and validation of registry, envelopes and configuration:
  pure; where their verdict decides a step it is an input of the model.
* Advisory authority (a pure function), dependence estimation, studies and simulator
  (offline numerics), command line, transport configuration, tooling, fuzz targets (I/O and
  harnesses). They make up most of the repository's lines, and have no states to explore.

Liveness is checked by TLC only.

## 12. Reading and running

Definitions named `Mutant...` are plausible slips of the definition that follows them;
`PROJECT.json` pairs each property with one that it must notice. Nothing else uses them.

    tlc -config MCLifecycle_windows.cfg MCLifecycle
    tlc -config MCFrameLedger.cfg MCFrameLedger
    tlc -config MCAssembler_join.cfg MCAssembler
    tlc -config MCOperationalReceiver_safety.cfg MCOperationalReceiver
    tlc -config MCMonitorIngress.cfg MCMonitorIngress
    tlc -config MCObservationTap.cfg MCObservationTap
    tlc -config MCDetectorOwners.cfg MCDetectorOwners
    tlapm LifecycleProofs.tla
    tlapm FoldFacts.tla
    tlapm AssemblerFrames.tla
    tlapm AssemblerProofs.tla
    tlapm OperationalReceiverProofs.tla
    tlapm MonitorProofs.tla
    tlapm ObservationTapProofs.tla
    tlapm DetectorProofs.tla
