--------------------------- MODULE ObservationTap ----------------------------
(***************************************************************************)
(* One bounded-handoff subscription of crates/galadriel-ncp/src/live.rs:   *)
(* transport threads admit observations and enqueue them, one task takes   *)
(* them out, and operators reset the replay state or measure the queue.    *)
(* They meet at DeliveryBoundary, a mutex with a condition variable, and   *)
(* one action is one critical section or what a thread does between two.   *)
(*                                                                         *)
(* An observation is its stream and number; a payload that cannot be       *)
(* decoded is its defect.  The internal fault is the one every counter     *)
(* pair shares: another subscription of the tap may latch it at any time,  *)
(* when its inline callback panics.  Left out: the poison of the mutexes   *)
(* of this subscription, under which no foreign code runs, the limits of   *)
(* u64 and usize counters, and a wake-up for no reason, after which a      *)
(* thread finds the boundary as blocked as it left it.                     *)
(***************************************************************************)
EXTENDS Integers, Sequences, FiniteSets

CONSTANTS
  None,
  Callbacks,        \* transport threads
  Operators,        \* threads that hold a SubscriptionHealth
  Receiver,         \* the task that owns the LiveObservationReceiver
  Streams,          \* (track, modality) pairs
  MaxSequence,      \* numbers the producer uses
  MaxStreams, MaxAdvance, Capacity,
  MaxPayloads,      \* bound: payloads the transport delivers
  MaxRequests       \* bound: resets and measurements that begin

VARIABLES
  boundary,    \* DeliveryBoundaryState, with the holders by name
  waiting,     \* threads blocked in the condition variable
  generation,  \* of the boundary
  fault,       \* an internal fault is latched
  sequences,   \* LiveSequenceTracker: the last number of every retained stream
  channel,     \* the bounded channel: its queue, whether the receiver is open
  mirror,      \* HandoffQueueState::entries
  cb,          \* per callback: where it is and what it carries
  op,          \* per operator: where it is
  receiver,    \* where the receiver's task is, and what it took
  counts,      \* the handoff counters
  aux          \* auxiliary: payloads and requests begun, times the replay state was
               \* cleared, observations accepted and lost, and the last number
               \* delivered of every stream since the replay state was cleared

vars == <<boundary, waiting, generation, fault, sequences, channel, mirror, cb, op,
          receiver, counts, aux>>

Threads == Callbacks \cup Operators \cup {Receiver}

Observations == [stream : Streams, seq : 0 .. MaxSequence]

(* QueuedObservation, with the epoch of the replay state that admitted it.  *)
Entries == [obs : Observations, generation : Nat, epoch : Nat]

ASSUME TapAssumption ==
  /\ IsFiniteSet(Threads) /\ Callbacks \cap Operators = {}
  /\ Receiver \notin Callbacks \cup Operators
  /\ None \notin Threads \cup Streams \cup Entries
  /\ MaxSequence \in Nat /\ MaxPayloads \in Nat /\ MaxRequests \in Nat
  /\ MaxStreams \in Nat \ {0} /\ MaxAdvance \in Nat \ {0} /\ Capacity \in Nat \ {0}

Outside == [pc |-> "idle", obs |-> None, epoch |-> 0, stamp |-> 0]
EmptyHanded(pc, waits) == [pc |-> pc, waits |-> waits, hand |-> None]
Idle == EmptyHanded("idle", FALSE)

Init ==
  /\ boundary = [delivering |-> None, resetting |-> None, pending |-> 0]
  /\ waiting = {} /\ generation = 0 /\ fault = FALSE
  /\ sequences = [k \in {} |-> 0]
  /\ channel = [queue |-> <<>>, open |-> TRUE] /\ mirror = <<>>
  /\ cb = [c \in Callbacks |-> Outside]
  /\ op = [o \in Operators |-> "idle"]
  /\ receiver = Idle
  /\ counts = [enqueued |-> 0, full |-> 0, closed |-> 0, delivered |-> 0, stale |-> 0,
               abandoned |-> 0]
  /\ aux = [payloads |-> 0, requests |-> 0, cleared |-> 0, accepted |-> 0, lost |-> 0,
            delivered |-> [k \in Streams |-> -1]]

-----------------------------------------------------------------------------
(* The delivery boundary.                                                   *)

MutantBlocked == boundary.delivering # None \/ boundary.resetting # None

(* blocks_delivery.                                                         *)
Blocked == boundary.delivering # None \/ boundary.resetting # None \/ boundary.pending # 0

(* begin_delivery past its look at the fault, which comes once, before the  *)
(* wait: the thread takes the boundary and enters, or waits.                *)
BeginDelivery(t, enters, waits) ==
  \/ /\ ~Blocked /\ enters
     /\ boundary' = [boundary EXCEPT !.delivering = t] /\ UNCHANGED waiting
  \/ /\ Blocked /\ waits
     /\ waiting' = waiting \cup {t} /\ UNCHANGED boundary

MutantWoken == UNCHANGED waiting

(* notify_all.                                                              *)
Woken == waiting' = {}

(* DeliveryGuard::drop.                                                     *)
DropDelivery == boundary' = [boundary EXCEPT !.delivering = None] /\ Woken

-----------------------------------------------------------------------------
(* A callback: process_payload around ObservationHandoff::enqueue.          *)

CallbackFrame == UNCHANGED <<op, receiver>>

Goes(c, pc) == cb' = [cb EXCEPT ![c].pc = pc]
Leaves(c)   == cb' = [cb EXCEPT ![c] = [Outside EXCEPT !.pc = "leaving"]]

(* A payload arrives.  A fault that was latched before refuses it, and it   *)
(* leaves no trace here; so it is with the calls of operators below.        *)
Arrive(c, obs) ==
  /\ cb[c].pc = "idle" /\ aux.payloads < MaxPayloads /\ ~fault
  /\ BeginDelivery(c, cb' = [cb EXCEPT ![c].pc = "inside", ![c].obs = obs],
                      cb' = [cb EXCEPT ![c].pc = "waiting", ![c].obs = obs])
  /\ aux' = [aux EXCEPT !.payloads = @ + 1]
  /\ UNCHANGED <<generation, fault, sequences, channel, mirror, counts>>
  /\ CallbackFrame

ResumeArrival(c) ==
  /\ cb[c].pc = "waiting" /\ c \notin waiting
  /\ BeginDelivery(c, Goes(c, "inside"), UNCHANGED cb)
  /\ UNCHANGED <<generation, fault, sequences, channel, mirror, counts, aux>>
  /\ CallbackFrame

(* LiveSequenceTracker::accept.                                             *)
Acceptable(obs) ==
  IF obs.stream \in DOMAIN sequences
  THEN obs.seq > sequences[obs.stream] /\ obs.seq - sequences[obs.stream] <= MaxAdvance
  ELSE Cardinality(DOMAIN sequences) < MaxStreams

Advanced(obs) ==
  [k \in DOMAIN sequences \cup {obs.stream} |->
     IF k = obs.stream THEN obs.seq ELSE sequences[k]]

(* The high-water mark advances before anything is handed over.             *)
AdmitObservation(c) ==
  LET obs == cb[c].obs
      admissible == ~fault /\ obs \in Observations /\ Acceptable(obs)
  IN
  /\ cb[c].pc = "inside"
  /\ \/ /\ admissible
        /\ sequences' = Advanced(obs)
        /\ cb' = [cb EXCEPT ![c].pc = "admitted", ![c].epoch = aux.cleared]
        /\ aux' = [aux EXCEPT !.accepted = @ + 1]
     \/ /\ ~admissible
        /\ Leaves(c)
        /\ UNCHANGED <<sequences, aux>>
  /\ UNCHANGED <<boundary, waiting, generation, fault, channel, mirror, counts>>
  /\ CallbackFrame

(* enqueue reads the generation, then looks at the fault before the lock: a *)
(* fault ends it there, and the observation is in no counter.               *)
StampObservation(c) ==
  /\ cb[c].pc = "admitted"
  /\ \/ /\ fault
        /\ Leaves(c) /\ aux' = [aux EXCEPT !.lost = @ + 1]
     \/ /\ ~fault
        /\ cb' = [cb EXCEPT ![c].pc = "enqueuing", ![c].stamp = generation]
        /\ UNCHANGED aux
  /\ UNCHANGED <<boundary, waiting, generation, fault, sequences, channel, mirror, counts>>
  /\ CallbackFrame

Entry(c) == [obs |-> cb[c].obs, generation |-> cb[c].stamp, epoch |-> cb[c].epoch]

(* try_send and push_back under the queue's mutex.                          *)
Enqueue(c) ==
  /\ cb[c].pc = "enqueuing"
  /\ \/ /\ ~channel.open
        /\ counts' = [counts EXCEPT !.closed = @ + 1] /\ UNCHANGED <<channel, mirror>>
     \/ /\ channel.open /\ Len(channel.queue) >= Capacity
        /\ counts' = [counts EXCEPT !.full = @ + 1] /\ UNCHANGED <<channel, mirror>>
     \/ /\ channel.open /\ Len(channel.queue) < Capacity
        /\ channel' = [channel EXCEPT !.queue = Append(@, Entry(c))]
        /\ mirror' = Append(mirror, Entry(c))
        /\ counts' = [counts EXCEPT !.enqueued = @ + 1]
  /\ Leaves(c)
  /\ UNCHANGED <<boundary, waiting, generation, fault, sequences, aux>>
  /\ CallbackFrame

LeaveDelivery(c) ==
  /\ cb[c].pc = "leaving"
  /\ DropDelivery
  /\ cb' = [cb EXCEPT ![c] = Outside]
  /\ UNCHANGED <<generation, fault, sequences, channel, mirror, counts, aux>>
  /\ CallbackFrame

-----------------------------------------------------------------------------
(* The receiver.                                                            *)

ReceiverFrame == UNCHANGED <<generation, fault, sequences, cb, op>>

Stands(pc) == receiver' = [receiver EXCEPT !.pc = pc]

(* The first half of quarantine_receiver: the channel is closed and drained;*)
(* the mirror is cleared under its mutex afterwards.                        *)
DrainChannel(next) ==
  /\ channel' = [queue |-> <<>>, open |-> FALSE]
  /\ counts' = [counts EXCEPT !.abandoned = @ + Len(channel.queue)]
  /\ Stands(next)
  /\ UNCHANGED mirror

(* poll_dequeue and try_dequeue, for recv or for try_recv.                  *)
Dequeue(waits) ==
  /\ \/ /\ fault
        /\ DrainChannel("quarantined")
     \/ /\ ~fault /\ channel.queue # <<>>
        /\ receiver' = [pc |-> "dequeued", waits |-> waits, hand |-> Head(channel.queue)]
        /\ channel' = [channel EXCEPT !.queue = Tail(@)]
        /\ mirror' = Tail(mirror)
        /\ UNCHANGED counts
     \/ /\ ~fault /\ channel.queue = <<>>
        /\ receiver' = IF waits /\ channel.open THEN EmptyHanded("parked", TRUE) ELSE Idle
        /\ UNCHANGED <<channel, mirror, counts>>
  /\ UNCHANGED <<boundary, waiting, aux>> /\ ReceiverFrame

StartRecv(waits) == receiver.pc = "idle" /\ Dequeue(waits)

(* After a stale observation the loop goes on; a parked recv is woken by an *)
(* enqueue and by nothing else, an internal fault included.                 *)
ResumeRecv ==
  /\ receiver.pc = "polling" \/ (receiver.pc = "parked" /\ channel.queue # <<>>)
  /\ Dequeue(receiver.waits)

ClearMirror ==
  /\ receiver.pc = "quarantined"
  /\ mirror' = <<>> /\ receiver' = Idle
  /\ UNCHANGED <<boundary, waiting, channel, counts, aux>> /\ ReceiverFrame

MutantInHand == 0

InHand == 1

(* finish_dequeue begins a delivery of its own; a fault abandons what was   *)
(* taken, and the next poll finds the fault too.                            *)
BeginFinish ==
  /\ \/ /\ receiver.pc = "dequeued" /\ fault
        /\ receiver' = EmptyHanded("polling", receiver.waits)
        /\ counts' = [counts EXCEPT !.abandoned = @ + InHand]
        /\ UNCHANGED <<boundary, waiting>>
     \/ /\ \/ receiver.pc = "dequeued" /\ ~fault
           \/ receiver.pc = "waiting" /\ Receiver \notin waiting
        /\ BeginDelivery(Receiver, Stands("finishing"), Stands("waiting"))
        /\ UNCHANGED counts
  /\ UNCHANGED <<channel, mirror, aux>> /\ ReceiverFrame

MutantCurrent == TRUE

(* Under the guard the generation decides.                                  *)
Current == receiver.hand.generation = generation

FinishDequeue ==
  LET obs == receiver.hand.obs IN
  /\ receiver.pc = "finishing"
  /\ \/ /\ Current
        /\ receiver' = Idle
        /\ counts' = [counts EXCEPT !.delivered = @ + 1]
        /\ aux' = [aux EXCEPT !.delivered[obs.stream] = obs.seq]
     \/ /\ ~Current
        /\ receiver' = EmptyHanded("polling", receiver.waits)
        /\ counts' = [counts EXCEPT !.stale = @ + 1]
        /\ UNCHANGED aux
  /\ DropDelivery
  /\ UNCHANGED <<channel, mirror>> /\ ReceiverFrame

(* The recv future is dropped while it is parked.                           *)
CancelRecv ==
  /\ receiver.pc = "parked" /\ receiver' = Idle
  /\ UNCHANGED <<boundary, waiting, channel, mirror, counts, aux>> /\ ReceiverFrame

CloseReceiver ==
  /\ receiver.pc = "idle" /\ channel.open
  /\ channel' = [channel EXCEPT !.open = FALSE]
  /\ UNCHANGED <<boundary, waiting, mirror, receiver, counts, aux>> /\ ReceiverFrame

MutantStartDrop ==
  /\ receiver.pc = "idle"
  /\ Stands("draining")
  /\ UNCHANGED <<boundary, waiting, channel, mirror, counts, aux>> /\ ReceiverFrame

(* Drop: the guard is held over the quarantine, unless there is a fault.    *)
StartDrop ==
  /\ receiver.pc = "idle"
  /\ \/ fault /\ Stands("draining") /\ UNCHANGED <<boundary, waiting>>
     \/ ~fault /\ BeginDelivery(Receiver, Stands("draining"), Stands("dropping"))
  /\ UNCHANGED <<channel, mirror, counts, aux>> /\ ReceiverFrame

DropReceiver ==
  \/ /\ receiver.pc = "dropping" /\ Receiver \notin waiting
     /\ BeginDelivery(Receiver, Stands("draining"), UNCHANGED receiver)
     /\ UNCHANGED <<channel, mirror, counts, aux>> /\ ReceiverFrame
  \/ /\ receiver.pc = "draining"
     /\ DrainChannel("dropped")
     /\ UNCHANGED <<boundary, waiting, aux>> /\ ReceiverFrame
  \/ /\ receiver.pc = "dropped"
     /\ mirror' = <<>> /\ Stands("gone")
     /\ IF boundary.delivering = Receiver THEN DropDelivery ELSE UNCHANGED <<boundary, waiting>>
     /\ UNCHANGED <<channel, counts, aux>> /\ ReceiverFrame

-----------------------------------------------------------------------------
(* An operator: reset_sequence_state and handoff_metrics.                   *)

OperatorFrame == UNCHANGED <<fault, channel, mirror, cb, receiver, counts>>

Does(o, pc) == op' = [op EXCEPT ![o] = pc]

MayRequest(o) ==
  /\ op[o] = "idle" /\ aux.requests < MaxRequests /\ ~fault
  /\ aux' = [aux EXCEPT !.requests = @ + 1]

(* begin_reset: refused while a delivery is active; from then on deliveries *)
(* are barred until this reset is done.                                     *)
RequestReset(o) ==
  /\ MayRequest(o) /\ boundary.delivering = None
  /\ \/ /\ boundary.resetting = None
        /\ boundary' = [boundary EXCEPT !.resetting = o]
        /\ Woken /\ Does(o, "advancing")
     \/ /\ boundary.resetting # None
        /\ boundary' = [boundary EXCEPT !.pending = @ + 1]
        /\ waiting' = {o} /\ Does(o, "resetWaiting")
  /\ UNCHANGED <<generation, sequences>> /\ OperatorFrame

(* Woken in begin_reset: the fault is not looked at again.                  *)
AcquireReset(o) ==
  /\ op[o] = "resetWaiting" /\ o \notin waiting
  /\ IF boundary.resetting # None
     THEN waiting' = waiting \cup {o} /\ UNCHANGED <<boundary, op>>
     ELSE /\ boundary' = [boundary EXCEPT !.pending = @ - 1, !.resetting = o]
          /\ Does(o, "advancing") /\ UNCHANGED waiting
  /\ UNCHANGED <<generation, sequences, aux>> /\ OperatorFrame

AdvanceGeneration(o) ==
  /\ op[o] = "advancing"
  /\ IF fault THEN Does(o, "releasing") /\ UNCHANGED generation
     ELSE Does(o, "clearing") /\ generation' = generation + 1
  /\ UNCHANGED <<boundary, waiting, sequences, aux>> /\ OperatorFrame

ClearSequences(o) ==
  /\ op[o] = "clearing"
  /\ IF fault THEN UNCHANGED <<sequences, aux>>
     ELSE /\ sequences' = [k \in {} |-> 0]
          /\ aux' = [aux EXCEPT !.cleared = @ + 1, !.delivered = [k \in Streams |-> -1]]
  /\ Does(o, "releasing")
  /\ UNCHANGED <<boundary, waiting, generation>> /\ OperatorFrame

(* ResetGuard::drop.                                                        *)
ReleaseReset(o) ==
  /\ op[o] = "releasing"
  /\ boundary' = [boundary EXCEPT !.resetting = None]
  /\ Woken /\ Does(o, "idle")
  /\ UNCHANGED <<generation, sequences, aux>> /\ OperatorFrame

(* handoff_metrics begins a delivery too.                                   *)
BeginMeasure(o) ==
  /\ MayRequest(o)
  /\ BeginDelivery(o, Does(o, "measured"), Does(o, "measureWaiting"))
  /\ UNCHANGED <<generation, sequences>> /\ OperatorFrame

ResumeMeasure(o) ==
  /\ op[o] = "measureWaiting" /\ o \notin waiting
  /\ BeginDelivery(o, Does(o, "measured"), UNCHANGED op)
  /\ UNCHANGED <<generation, sequences, aux>> /\ OperatorFrame

(* The snapshot is taken under the guard, which is dropped after it.        *)
EndMeasure(o) ==
  /\ op[o] = "measured"
  /\ DropDelivery /\ Does(o, "idle")
  /\ UNCHANGED <<generation, sequences, aux>> /\ OperatorFrame

-----------------------------------------------------------------------------
(* Another subscription of the tap latches a fault: its callback panicked.  *)
LatchFault ==
  /\ ~fault /\ fault' = TRUE
  /\ UNCHANGED <<boundary, waiting, generation, sequences, channel, mirror, cb, op, receiver,
                 counts, aux>>

CallbackStep(c) ==
  \/ ResumeArrival(c) \/ AdmitObservation(c) \/ StampObservation(c)
  \/ Enqueue(c) \/ LeaveDelivery(c)

ReceiverStep == ResumeRecv \/ ClearMirror \/ BeginFinish \/ FinishDequeue \/ DropReceiver

OperatorStep(o) ==
  \/ AcquireReset(o) \/ AdvanceGeneration(o) \/ ClearSequences(o) \/ ReleaseReset(o)
  \/ ResumeMeasure(o) \/ EndMeasure(o)

Next ==
  \/ \E c \in Callbacks, obs \in Observations \cup {None} : Arrive(c, obs)
  \/ \E c \in Callbacks : CallbackStep(c)
  \/ \E waits \in BOOLEAN : StartRecv(waits)
  \/ ReceiverStep \/ CancelRecv \/ CloseReceiver \/ StartDrop
  \/ \E o \in Operators : RequestReset(o) \/ BeginMeasure(o) \/ OperatorStep(o)
  \/ LatchFault

Spec == Init /\ [][Next]_vars

(* A thread inside a call is scheduled again; nobody has to begin one, and  *)
(* no wake-up comes for no reason.                                          *)
Fairness ==
  /\ \A c \in Callbacks : WF_vars(CallbackStep(c))
  /\ WF_vars(ReceiverStep)
  /\ \A o \in Operators : WF_vars(OperatorStep(o))

FairSpec == Spec /\ Fairness
-----------------------------------------------------------------------------
(* Properties.                                                              *)

(* What is delivered was admitted since the replay state was last cleared,  *)
(* and no observation of its stream with the same or a later number was     *)
(* delivered since: a reset makes numbers eligible again, never observations *)
(* of the epoch before it.                                                  *)
OncePerEpoch ==
  [][counts'.delivered # counts.delivered =>
       LET entry == receiver.hand IN
       /\ entry.epoch = aux.cleared
       /\ entry.obs.seq > aux.delivered[entry.obs.stream]]_vars

(* A reset and a delivery never overlap, and the replay state is cleared    *)
(* only while no observation is between its admission and its place in the  *)
(* queue.                                                                   *)
BoundaryExclusive ==
  /\ boundary.delivering = None \/ boundary.resetting = None
  /\ \A c \in Callbacks :
       cb[c].pc \in {"inside", "admitted", "enqueuing", "leaving"} => boundary.delivering = c
  /\ \A o \in Operators :
       op[o] \in {"advancing", "clearing", "releasing"} => boundary.resetting = o

(* Every accepted observation is enqueued, refused by a full or a closed    *)
(* queue or on its way there, and only an internal fault can lose one; every*)
(* enqueued one is delivered, dropped as stale, abandoned, in the queue or  *)
(* in the receiver's hand.                                                  *)
HandoffAccounted ==
  /\ aux.accepted = counts.enqueued + counts.full + counts.closed + aux.lost
                    + Cardinality({c \in Callbacks : cb[c].pc \in {"admitted", "enqueuing"}})
  /\ aux.lost # 0 => fault
  /\ counts.enqueued = counts.delivered + counts.stale + counts.abandoned
                       + Len(channel.queue) + (IF receiver.hand = None THEN 0 ELSE 1)

(* A measurement shows the queue as it is: the mirror differs from the      *)
(* channel only inside a quarantine, which a measurement cannot overlap     *)
(* without finding a fault.                                                 *)
MeasuredIsReal ==
  (\E o \in Operators : op[o] = "measured") /\ ~fault => mirror = channel.queue

(* The boundary always comes to rest: whoever holds it lets go and wakes    *)
(* the others, every requested reset gets its turn, and no thread is left   *)
(* in the condition variable, whether or not a fault is latched meanwhile.  *)
BoundaryComesToRest ==
  []<>(waiting = {} /\ boundary = [delivering |-> None, resetting |-> None, pending |-> 0])
=============================================================================
