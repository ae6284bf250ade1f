--------------------------- MODULE MonitorIngress ----------------------------
(***************************************************************************)
(* One subscription of crates/galadriel-ncp/src/monitor_live.rs: transport *)
(* threads call back with payloads, a spawned task times the open gap, and *)
(* one task receives contiguous receipts.  All share IngressState under a  *)
(* mutex, a bounded channel and two watches.  One action is one critical   *)
(* section, or what a thread does between two of them; a callback keeps    *)
(* the mutex while it hands a contiguous batch over, receipt by receipt.   *)
(*                                                                         *)
(* An event is its number.  What makes a payload unusable before that (its *)
(* size, its JSON, its envelope) is the kind of fault it latches.  Left    *)
(* out: the poison of the counters' and of the tap's own mutex, and the    *)
(* ends of the number and time domains (InternalSequenceFailure).          *)
(***************************************************************************)
EXTENDS Integers, Sequences, FiniteSets, Functions, SequencesExt

CONSTANTS
  None,
  EventSeqs,         \* numbers the producer may use
  Defects,           \* faults a payload may have by itself
  ReorderCapacity, MaxReorderDistance, HandoffCapacity, ReorderDeadline,
  MaxPayloads,       \* bound: payloads the transport delivers
  LastPayloadAt,     \* bound: and the last instant it delivers one
  MaxClock           \* bound: the last instant

VARIABLES
  clock,
  ingress,    \* IngressState, and whether a panic poisoned its mutex
  handing,    \* receipts left to the callback that is inside the mutex
  channel,    \* the bounded handoff: its queue, whether the receiver is open
  command,    \* the gap_timer watch, and whether the task has seen it
  timer,      \* the gap timer task
  consumer,   \* LiveMonitorReceiver and the call its owner is in
  counts,     \* payloads_received, events_enqueued, events_discarded
  delivered   \* auxiliary: the receipts returned to the owner

vars == <<clock, ingress, handing, channel, command, timer, consumer, counts, delivered>>

Receipts == [seq : Nat, ordered : Nat]
Gaps     == [expected : Nat, generation : Nat, deadline : Nat]

(* The faults of the ingress itself, whatever a payload says.               *)
IngressFaults ==
  {"DuplicateOrRegressedSequence", "ReorderDistanceExceeded", "ReorderCapacityExceeded",
   "SequenceGapDeadlineExceeded", "HandoffFull", "TimerTaskFailed", "InternalStatePoisoned"}

(* validate_capacity_relationship and the positive bounds of MonitorLiveConfig. *)
ASSUME IngressAssumption ==
  /\ EventSeqs \subseteq Nat \ {0}
  /\ ReorderCapacity \in Nat \ {0} /\ MaxReorderDistance \in Nat \ {0}
  /\ HandoffCapacity \in Nat /\ HandoffCapacity > ReorderCapacity
  /\ ReorderDeadline \in Nat \ {0}
  /\ MaxPayloads \in Nat /\ MaxClock \in Nat /\ LastPayloadAt \in Nat
  /\ Defects \cap IngressFaults = {}
  /\ None \notin Defects \cup IngressFaults \cup Gaps \cup Receipts

Nothing == [q \in {} |-> 0]

Init ==
  /\ clock = 0
  /\ ingress = [cancelled |-> FALSE, fault |-> None, next |-> 1, pending |-> Nothing,
                gap |-> None, generation |-> 0, lastOrdered |-> 0, poisoned |-> FALSE]
  /\ handing = <<>>
  /\ channel = [queue |-> <<>>, open |-> TRUE]
  /\ command = [name |-> "Idle", generation |-> 0, deadline |-> 0, unseen |-> FALSE]
  /\ timer = [pc |-> "idle", generation |-> 0, deadline |-> 0]
  /\ consumer = [pc |-> "idle", waits |-> FALSE, hand |-> None, faultUnseen |-> FALSE,
                 timed |-> TRUE, told |-> None]
  /\ counts = [received |-> 0, enqueued |-> 0, discarded |-> 0]
  /\ delivered = <<>>

-----------------------------------------------------------------------------
(* The mutex.                                                               *)

(* latch_fault_locked: the first fault is kept, what was pending is gone.   *)
Latched(s, kind) ==
  IF s.fault # None THEN s
  ELSE [s EXCEPT !.fault = kind, !.pending = Nothing, !.gap = None]

(* lock_state: what a thread finds, once a panic under the lock is recovered.*)
Locked ==
  IF ingress.poisoned
  THEN Latched([ingress EXCEPT !.poisoned = FALSE], "InternalStatePoisoned")
  ELSE ingress

Order(name, gap) ==
  [name |-> name, generation |-> IF gap = None THEN 0 ELSE gap.generation,
   deadline |-> IF gap = None THEN 0 ELSE gap.deadline, unseen |-> TRUE]

MutantCommanded(s) ==
  IF s.fault # ingress.fault \/ s.cancelled # ingress.cancelled THEN Order("Stop", None)
  ELSE IF s.gap = ingress.gap \/ None \notin {s.gap, ingress.gap} THEN command
  ELSE IF s.gap = None THEN Order("Idle", None)
  ELSE Order("Arm", s.gap)

(* What the gap timer is sent when the state becomes s.                     *)
Commanded(s) ==
  IF s.fault # ingress.fault \/ s.cancelled # ingress.cancelled THEN Order("Stop", None)
  ELSE IF s.gap = ingress.gap THEN command
  ELSE IF s.gap = None THEN Order("Idle", None)
  ELSE Order("Arm", s.gap)

(* The owner's side of the fault watch, once the state becomes s.           *)
Notified(c, s) == IF s.fault # ingress.fault THEN [c EXCEPT !.faultUnseen = TRUE] ELSE c

(* Leave the mutex with s behind, the owner being c.                        *)
Unlock(s, c) ==
  /\ ingress' = s
  /\ command' = Commanded(s)
  /\ consumer' = Notified(c, s)

Overdue(s, now) == s.gap # None /\ now >= s.gap.deadline

-----------------------------------------------------------------------------
(* A callback: process_payload.                                             *)

(* ReorderState::admit: the first check that fails decides.                 *)
AdmissionFault(s, q) ==
  IF q < s.next \/ q \in DOMAIN s.pending THEN "DuplicateOrRegressedSequence"
  ELSE IF q - s.next > MaxReorderDistance THEN "ReorderDistanceExceeded"
  ELSE IF q > s.next /\ Cardinality(DOMAIN s.pending) >= ReorderCapacity
  THEN "ReorderCapacityExceeded"
  ELSE None

Inserted(s, q) ==
  [s EXCEPT !.pending = [p \in DOMAIN @ \cup {q} |-> IF p = q THEN clock ELSE @[p]]]

(* The run that number q completes ends here.                               *)
LastOfRun(s, q) ==
  CHOOSE n \in {q} \cup DOMAIN s.pending :
    q + 1 .. n \subseteq DOMAIN s.pending /\ n + 1 \notin DOMAIN s.pending /\ n >= q

Drained(s, q) ==
  [s EXCEPT !.next = LastOfRun(s, q) + 1,
            !.pending = [p \in {p \in DOMAIN @ : p > LastOfRun(s, q)} |-> @[p]]]

ReceivedAt(s, q, p) == IF p = q THEN clock ELSE s.pending[p]

(* The time a receipt is ordered at: that of the latest one up to it.       *)
OrderedAt(s, q, p) == Max({s.lastOrdered} \cup {ReceivedAt(s, q, r) : r \in q .. p})

Contiguous(s, q) ==
  [i \in 1 .. LastOfRun(s, q) - q + 1 |->
     [seq |-> q + i - 1, ordered |-> OrderedAt(s, q, q + i - 1)]]

MutantOldestProof(pending) == pending[Min(DOMAIN pending)]

(* Arrival order, not number order: every pending receipt proves the gap.   *)
OldestProof(pending) == Min(Range(pending))

(* refresh_gap_deadline_locked without its last line.                       *)
Refreshed(s) ==
  IF s.pending = Nothing THEN [s EXCEPT !.gap = None]
  ELSE IF s.gap # None /\ s.gap.expected = s.next THEN s
  ELSE [s EXCEPT !.generation = @ + 1,
                 !.gap = [expected |-> s.next, generation |-> s.generation + 1,
                          deadline |-> OldestProof(s.pending) + ReorderDeadline]]

(* An admitted event: the state it leaves and the batch it sets free.       *)
Admitted(s, q) == Refreshed(IF q = s.next THEN Drained(s, q) ELSE Inserted(s, q))
Freed(s, q)    == IF q = s.next THEN Contiguous(s, q) ELSE <<>>

MayArrive == counts.received < MaxPayloads /\ clock <= LastPayloadAt

Counted == counts' = [counts EXCEPT !.received = @ + 1]

(* A payload that ends without a receipt, because of fault kind.            *)
Refuse(kind) ==
  /\ Unlock(Latched(Locked, kind), consumer)
  /\ Counted /\ UNCHANGED handing

(* Event q, or a payload with a defect, whose number nobody reads.          *)
ProcessPayload(q, defect) ==
  LET s == Locked
      why == IF defect # None THEN defect ELSE AdmissionFault(s, q)
      next == Admitted(s, q)
  IN
  /\ handing = <<>> /\ MayArrive
  /\ \/ /\ s.cancelled
        /\ Unlock(s, consumer) /\ UNCHANGED <<handing, counts>>
     \/ /\ ~s.cancelled /\ s.fault # None
        /\ Unlock(s, consumer) /\ Counted /\ UNCHANGED handing
     \/ /\ ~s.cancelled /\ s.fault = None /\ Overdue(s, clock)
        /\ Refuse("SequenceGapDeadlineExceeded")
     \/ /\ ~s.cancelled /\ s.fault = None /\ ~Overdue(s, clock) /\ why # None
        /\ Refuse(why)
     \/ /\ ~s.cancelled /\ s.fault = None /\ ~Overdue(s, clock) /\ why = None
        /\ Overdue(next, clock)
        /\ Refuse("SequenceGapDeadlineExceeded")
     \/ /\ ~s.cancelled /\ s.fault = None /\ ~Overdue(s, clock) /\ why = None
        /\ ~Overdue(next, clock)
        /\ Unlock([next EXCEPT !.lastOrdered =
                     IF Freed(s, q) = <<>> THEN @ ELSE Last(Freed(s, q)).ordered], consumer)
        /\ handing' = Freed(s, q) /\ Counted
  /\ UNCHANGED <<clock, channel, timer, delivered>>

(* One try_send; the first that fails leaves the rest of the batch behind.  *)
HandOver ==
  /\ handing # <<>>
  /\ \/ /\ Len(channel.queue) < HandoffCapacity
        /\ channel' = [channel EXCEPT !.queue = Append(@, Head(handing))]
        /\ counts' = [counts EXCEPT !.enqueued = @ + 1]
        /\ handing' = Tail(handing)
        /\ UNCHANGED <<ingress, command, consumer>>
     \/ /\ Len(channel.queue) >= HandoffCapacity
        /\ Unlock(Latched(ingress, "HandoffFull"), consumer)
        /\ handing' = <<>>
        /\ UNCHANGED <<channel, counts>>
  /\ UNCHANGED <<clock, timer, delivered>>

(* The callback panics while it decodes, or between two receipts.           *)
PanicUnderLock ==
  /\ ~Locked.cancelled /\ Locked.fault = None
  /\ \/ handing # <<>> /\ UNCHANGED counts
     \/ handing = <<>> /\ MayArrive /\ Counted
  /\ ingress' = [ingress EXCEPT !.poisoned = TRUE]
  /\ handing' = <<>>
  /\ UNCHANGED <<clock, channel, command, timer, consumer, delivered>>

-----------------------------------------------------------------------------
(* The gap timer task: run_gap_timer.                                       *)

Ended(how) == [pc |-> how, generation |-> 0, deadline |-> 0]

(* borrow_and_update, and the select the command leads to.                  *)
Follow ==
  /\ timer' = CASE command.name = "Idle" -> Ended("idle")
                [] command.name = "Arm"  -> [pc |-> "armed", generation |-> command.generation,
                                             deadline |-> command.deadline]
                [] command.name = "Stop" -> Ended("returned")
  /\ command' = [command EXCEPT !.unseen = FALSE]

WakeForCommand ==
  /\ timer.pc \in {"idle", "armed"} /\ command.unseen
  /\ Follow
  /\ UNCHANGED <<clock, ingress, handing, channel, consumer, counts, delivered>>

(* The sleep ends.  A newer command may have come after the select looked   *)
(* for one: the wake is stale then.                                         *)
WakeForDeadline ==
  /\ timer.pc = "armed" /\ clock >= timer.deadline
  /\ timer' = [timer EXCEPT !.pc = "expiring"]
  /\ UNCHANGED <<clock, ingress, handing, channel, command, consumer, counts, delivered>>

MutantDue(s) == s.gap # None

(* The gap this wake was armed for is still open, and its time has come.    *)
Due(s) ==
  /\ s.gap # None
  /\ s.gap.generation = timer.generation /\ timer.deadline >= s.gap.deadline

(* expire_gap returned false: the task looks for its next command.          *)
AfterStaleWake == Follow

(* expire_gap.                                                              *)
ExpireGap ==
  LET s == Locked IN
  /\ timer.pc = "expiring" /\ handing = <<>>
  /\ \/ /\ s.cancelled \/ s.fault # None
        /\ Unlock(s, consumer) /\ timer' = Ended("returned")
     \/ /\ ~s.cancelled /\ s.fault = None /\ ~Due(s)
        /\ AfterStaleWake /\ UNCHANGED <<ingress, consumer>>
     \/ /\ ~s.cancelled /\ s.fault = None /\ Due(s)
        /\ Unlock(Latched(s, "SequenceGapDeadlineExceeded"), consumer)
        /\ timer' = Ended("returned")
  /\ UNCHANGED <<clock, handing, channel, counts, delivered>>

(* The task panics or its runtime drops it.                                 *)
TimerDies ==
  /\ timer.pc \in {"idle", "armed", "expiring"}
  /\ timer' = Ended("died")
  /\ UNCHANGED <<clock, ingress, handing, channel, command, consumer, counts, delivered>>

-----------------------------------------------------------------------------
(* The owner of the receiver: recv, try_recv, close.  Dropping the receiver *)
(* is close with no later call.                                             *)

Returned == [consumer EXCEPT !.pc = "idle", !.waits = FALSE, !.hand = None]

(* supervise_finished_gap_timer and latch_timer_task_failure: the handle of *)
(* a task that has finished is taken, and its end is a fault.               *)
TimerGone == consumer.timed /\ timer.pc \in {"returned", "died"}
Supervised ==
  IF TimerGone /\ ~Locked.cancelled THEN Latched(Locked, "TimerTaskFailed") ELSE Locked
Awaited == consumer.timed /\ ~TimerGone

StartRecv(waits) ==
  /\ consumer.pc = "idle"
  /\ consumer' = [consumer EXCEPT !.pc = "loop", !.waits = waits]
  /\ UNCHANGED <<clock, ingress, handing, channel, command, timer, counts, delivered>>

(* quarantine_receipts: the channel is closed and emptied, and what was     *)
(* already taken from it counts with the rest.                              *)
Quarantine(s, taken, timed) ==
  /\ Unlock(s, [Returned EXCEPT !.told = s.fault, !.timed = timed])
  /\ channel' = [queue |-> <<>>, open |-> FALSE]
  /\ counts' = [counts EXCEPT !.discarded = @ + taken + Len(channel.queue)]
  /\ UNCHANGED delivered

(* The head of the loop of recv, and of try_recv.                           *)
LookForFault ==
  LET s == Supervised IN
  /\ consumer.pc = "loop" /\ handing = <<>>
  /\ \/ /\ s.fault # None
        /\ Quarantine(s, 0, Awaited)
     \/ /\ s.fault = None
        /\ Unlock(s, [consumer EXCEPT !.pc = "select", !.timed = Awaited])
        /\ UNCHANGED <<channel, counts, delivered>>
  /\ UNCHANGED <<clock, handing, timer>>

(* The branches of select are looked at one after the other, so each may    *)
(* win although an earlier one became ready meanwhile.                      *)
WakeForFault ==
  /\ consumer.pc = "select" /\ consumer.waits /\ consumer.faultUnseen
  /\ consumer' = [consumer EXCEPT !.pc = "loop", !.faultUnseen = FALSE]
  /\ UNCHANGED <<clock, ingress, handing, channel, command, timer, counts, delivered>>

TakeReceipt ==
  /\ consumer.pc = "select" /\ channel.queue # <<>>
  /\ consumer' = [consumer EXCEPT !.pc = "taken", !.hand = Head(channel.queue)]
  /\ channel' = [channel EXCEPT !.queue = Tail(@)]
  /\ UNCHANGED <<clock, ingress, handing, command, timer, counts, delivered>>

(* The handle of the task is awaited in select too.                         *)
WakeForTimer ==
  /\ consumer.pc = "select" /\ consumer.waits /\ TimerGone /\ handing = <<>>
  /\ Unlock(Supervised, [consumer EXCEPT !.pc = "loop", !.timed = FALSE])
  /\ UNCHANGED <<clock, handing, channel, timer, counts, delivered>>

(* Nothing to take: try_recv answers Empty; once closed both answer the end *)
(* of the channel, for only close leaves it closed and no fault behind.     *)
FindNothing ==
  /\ consumer.pc = "select" /\ channel.queue = <<>>
  /\ ~channel.open \/ ~consumer.waits
  /\ consumer' = Returned
  /\ UNCHANGED <<clock, ingress, handing, channel, command, timer, counts, delivered>>

MutantPastBoundary(s) == FALSE

(* The last look, with the receipt already out of the channel.              *)
PastBoundary(s) == s.fault # None

MutantInHand == 0

InHand == 1

Settle ==
  /\ consumer.pc = "taken" /\ handing = <<>>
  /\ \/ /\ PastBoundary(Locked)
        /\ Quarantine(Locked, InHand, consumer.timed)
     \/ /\ ~PastBoundary(Locked)
        /\ Unlock(Locked, Returned)
        /\ delivered' = Append(delivered, consumer.hand)
        /\ UNCHANGED <<channel, counts>>
  /\ UNCHANGED <<clock, handing, timer>>

(* The recv future is dropped while it waits.                               *)
CancelRecv ==
  /\ consumer.pc = "select" /\ consumer.waits
  /\ consumer' = Returned
  /\ UNCHANGED <<clock, ingress, handing, channel, command, timer, counts, delivered>>

(* close: IngressEpoch::cancel; the task is aborted and the subscriber      *)
(* undeclared; the channel stays readable, so that what is queued drains.   *)
Close ==
  /\ consumer.pc = "idle" /\ ~ingress.cancelled /\ handing = <<>>
  /\ Unlock([Supervised EXCEPT !.cancelled = TRUE, !.pending = Nothing, !.gap = None],
            [consumer EXCEPT !.timed = FALSE])
  /\ timer' = IF Awaited THEN Ended("returned") ELSE timer
  /\ channel' = [channel EXCEPT !.open = FALSE]
  /\ UNCHANGED <<clock, handing, counts, delivered>>

-----------------------------------------------------------------------------
Healthy == ingress.fault = None /\ ~ingress.cancelled

(* The clock stops where nothing reads it any more.                         *)
Tick ==
  /\ clock < MaxClock /\ Healthy
  /\ clock' = clock + 1
  /\ UNCHANGED <<ingress, handing, channel, command, timer, consumer, counts, delivered>>

TimerStep == WakeForCommand \/ WakeForDeadline \/ ExpireGap

ReceivingStep ==
  LookForFault \/ WakeForFault \/ TakeReceipt \/ WakeForTimer \/ FindNothing \/ Settle

Next ==
  \/ \E q \in EventSeqs : ProcessPayload(q, None)
  \/ \E defect \in Defects : ProcessPayload(0, defect)
  \/ HandOver \/ PanicUnderLock
  \/ TimerStep \/ TimerDies
  \/ \E waits \in BOOLEAN : StartRecv(waits)
  \/ ReceivingStep \/ CancelRecv \/ Close
  \/ Tick

Spec == Init /\ [][Next]_vars

(* A callback inside the mutex, the timer task and the task inside a call   *)
(* are scheduled again, and time passes; no payload has to come, and nobody *)
(* has to begin a call.                                                     *)
Fairness ==
  /\ WF_vars(HandOver) /\ WF_vars(TimerStep) /\ WF_vars(ReceivingStep) /\ WF_vars(Tick)

FairSpec == Spec /\ Fairness
-----------------------------------------------------------------------------
(* Properties.                                                              *)

Receiving == {"loop", "select", "taken"}

(* An open gap is exactly what the pending receipts prove: the missing      *)
(* number is the next one, and it is waited for until ReorderDeadline after *)
(* the first receipt that proved it missing, however many nearer ones came  *)
(* since.                                                                   *)
GapMatchesEvidence ==
  Healthy =>
    IF ingress.pending = Nothing THEN ingress.gap = None
    ELSE /\ ingress.gap # None
         /\ ingress.gap.expected = ingress.next
         /\ ingress.next \notin DOMAIN ingress.pending
         /\ \A q \in DOMAIN ingress.pending :
              ingress.gap.deadline <= ingress.pending[q] + ReorderDeadline
         /\ \E q \in DOMAIN ingress.pending :
              ingress.gap.deadline = ingress.pending[q] + ReorderDeadline

(* A gap ends the epoch only after some receipt has really waited its whole *)
(* ReorderDeadline behind it: a wake that was meant for an earlier gap      *)
(* expires nothing.  And the timer task is called failed only when it did   *)
(* fail: it returns by itself only after a fault or a cancellation that the *)
(* owner can see.                                                           *)
EndsForItsReason ==
  [][ingress.fault = None =>
       /\ ingress'.fault = "SequenceGapDeadlineExceeded" =>
            \E q \in DOMAIN ingress.pending : ingress.pending[q] + ReorderDeadline <= clock
       /\ ingress'.fault = "TimerTaskFailed" => timer.pc = "died"]_vars

(* Every receipt that entered the handoff is in it, in the owner's hand,    *)
(* delivered or counted as discarded.                                       *)
ReceiptsAccounted ==
  counts.enqueued = Len(delivered) + counts.discarded + Len(channel.queue)
                    + (IF consumer.hand = None THEN 0 ELSE 1)

(* While a gap is open, or once there is a fault, a waiting recv returns:   *)
(* the gap is filled, or its timer or the loss of the timer ends the epoch. *)
(* Not so if a callback panics: nothing wakes the owner for that before     *)
(* another thread enters the mutex.                                         *)
RecvReturns ==
  consumer.pc \in Receiving /\ (ingress.gap # None \/ ingress.fault # None)
    ~> consumer.pc \notin Receiving \/ ingress.poisoned

FailStop == INSTANCE FailStopChannel WITH
  Instants <- 0 .. MaxClock, broken <- ingress.fault, told <- consumer.told

(* The consumer is served by a fail-stop channel: contiguous from one, in   *)
(* order, and nothing after the fault.                                      *)
ImplementsFailStop == FailStop!Spec
=============================================================================
