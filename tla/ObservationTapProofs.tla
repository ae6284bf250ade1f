------------------------ MODULE ObservationTapProofs -------------------------
(***************************************************************************)
(* Theorems about ObservationTap, for any number of threads, streams,      *)
(* payloads and requests and any capacity.                                 *)
(*                                                                         *)
(* Who holds the boundary is settled first (Holding), for every other fact *)
(* rests on it: the mirror follows the channel (Aligned), the counters add *)
(* up (Accounted), and what is in the queue belongs to the epoch of its    *)
(* stamp, in the order of its numbers (Epochs).                            *)
(***************************************************************************)
EXTENDS ObservationTap, FiniteSetTheorems, TLAPS

InsidePcs  == {"inside", "admitted", "enqueuing", "leaving"}
ResetPcs   == {"advancing", "clearing", "releasing"}
TakenPcs   == {"dequeued", "waiting", "finishing"}
DrainedPcs == {"quarantined", "dropped"}

BoundaryT == [delivering : Threads \cup {None}, resetting : Operators \cup {None}, pending : Int]
CallbackT == [pc : InsidePcs \cup {"idle", "waiting"}, obs : Observations \cup {None},
              epoch : Nat, stamp : Nat]
OperatorT == ResetPcs \cup {"idle", "resetWaiting", "measureWaiting", "measured"}
ReceiverT == [pc : TakenPcs \cup DrainedPcs
                   \cup {"idle", "parked", "polling", "dropping", "draining", "gone"},
              waits : BOOLEAN, hand : Entries \cup {None}]
CountsT   == [enqueued : Nat, full : Nat, closed : Nat, delivered : Nat, stale : Nat,
              abandoned : Nat]
AuxT      == [payloads : Nat, requests : Nat, cleared : Nat, accepted : Nat, lost : Nat,
              delivered : [Streams -> Int]]

SequencesT == DOMAIN sequences \subseteq Streams /\ sequences \in [DOMAIN sequences -> 0 .. MaxSequence]

(* Only an observation of the producer's numbers is admitted; the receiver  *)
(* has something in its hand exactly while it finishes a dequeue.           *)
AdmittedT == \A c \in Callbacks : cb[c].pc \in {"admitted", "enqueuing"} => cb[c].obs \in Observations
HandT     == receiver.hand # None <=> receiver.pc \in TakenPcs

TypeInv ==
  /\ boundary \in BoundaryT
  /\ generation \in Nat
  /\ SequencesT
  /\ cb \in [Callbacks -> CallbackT] /\ AdmittedT
  /\ op \in [Operators -> OperatorT]
  /\ receiver \in ReceiverT /\ HandT
  /\ counts \in CountsT
  /\ aux \in AuxT

(* Apart from TypeInv: the axioms of sequences slow every other proof down. *)
Queued == channel \in [queue : Seq(Entries), open : BOOLEAN]

Waiters == {o \in Operators : op[o] = "resetWaiting"}

(* Who holds the boundary is where it shows.                                *)
Guarded       == boundary.delivering # None => boundary.resetting = None /\ boundary.pending = 0
CallbackHolds == \A c \in Callbacks : cb[c].pc \in InsidePcs <=> boundary.delivering = c
MeasureHolds  == \A o \in Operators : op[o] = "measured" <=> boundary.delivering = o
ResetHolds    == \A o \in Operators : op[o] \in ResetPcs <=> boundary.resetting = o
WaitCounted   == boundary.pending = Cardinality(Waiters)
ReceiverHolds ==
  /\ receiver.pc = "finishing" => boundary.delivering = Receiver
  /\ boundary.delivering = Receiver => receiver.pc \in {"finishing", "draining", "dropped"}
  /\ receiver.pc \in {"draining", "dropped"} => fault \/ boundary.delivering = Receiver

Holding ==
  /\ Guarded /\ CallbackHolds /\ MeasureHolds /\ ResetHolds /\ WaitCounted /\ ReceiverHolds

Aligned ==
  /\ receiver.pc \in DrainedPcs => channel.queue = <<>> /\ ~channel.open
  /\ receiver.pc \notin DrainedPcs => mirror = channel.queue
  /\ receiver.pc = "quarantined" => fault

Inflight == {c \in Callbacks : cb[c].pc \in {"admitted", "enqueuing"}}
InHands  == IF receiver.hand = None THEN 0 ELSE 1

AdmissionsAccounted ==
  /\ aux.accepted = counts.enqueued + counts.full + counts.closed + aux.lost + Cardinality(Inflight)
  /\ aux.lost # 0 => fault

QueueAccounted ==
  counts.enqueued = counts.delivered + counts.stale + counts.abandoned
                    + Len(channel.queue) + InHands

Accounted == AdmissionsAccounted /\ QueueAccounted

(* The epochs an observation is judged by: the generation runs ahead of the *)
(* cleared replay state while a reset is between the two, and for good once *)
(* a fault has come between them.                                           *)
Epochs ==
  /\ generation \in {aux.cleared, aux.cleared + 1}
  /\ generation # aux.cleared => fault \/ \E o \in Operators : op[o] = "clearing"
  /\ \A o \in Operators : op[o] = "clearing" => generation = aux.cleared + 1
  /\ \A c \in Inflight : cb[c].epoch = aux.cleared
  /\ \A c \in Inflight : cb[c].pc = "enqueuing" => cb[c].stamp = aux.cleared

Judged(e) == e.generation = e.epoch /\ e.epoch <= aux.cleared

(* An observation of this epoch is later than all that was delivered of its *)
(* stream, and no later than the last one admitted.                         *)
Standing(e) ==
  e.epoch = aux.cleared =>
    /\ e.obs.stream \in DOMAIN sequences
    /\ aux.delivered[e.obs.stream] < e.obs.seq /\ e.obs.seq <= sequences[e.obs.stream]

(* Of two observations of this epoch and of one stream, the first is the    *)
(* earlier one.                                                             *)
Earlier(e, obs) == e.epoch = aux.cleared /\ e.obs.stream = obs.stream => e.obs.seq < obs.seq
Before(d, e)    == e.epoch = aux.cleared => Earlier(d, e.obs)

Places == 1 .. Len(channel.queue)

InOrder ==
  /\ \A i \in Places : Judged(channel.queue[i]) /\ Standing(channel.queue[i])
  /\ \A i, j \in Places : i < j => Before(channel.queue[i], channel.queue[j])
  /\ receiver.hand # None =>
       /\ Judged(receiver.hand) /\ Standing(receiver.hand)
       /\ \A i \in Places : Before(receiver.hand, channel.queue[i])
  /\ \A c \in Inflight :
       LET obs == cb[c].obs IN
       /\ obs.stream \in DOMAIN sequences /\ sequences[obs.stream] = obs.seq
       /\ aux.delivered[obs.stream] < obs.seq
       /\ \A i \in Places : Earlier(channel.queue[i], obs)
       /\ receiver.hand # None => Earlier(receiver.hand, obs)
  /\ \A k \in Streams : \/ aux.delivered[k] = -1
                        \/ /\ k \in DOMAIN sequences
                           /\ aux.delivered[k] <= sequences[k]

-----------------------------------------------------------------------------
(* Types.                                                                   *)

LEMMA ReceiverApart ==
  /\ Receiver \notin Callbacks /\ Receiver \notin Operators
  /\ Receiver # None /\ None \notin Callbacks /\ None \notin Operators
  /\ \A c \in Callbacks : c \notin Operators
  BY TapAssumption DEF Threads

LEMMA EntryApart == \A e \in Entries : e # None
  BY TapAssumption

LEMMA EntryType ==
  ASSUME TypeInv, NEW c \in Callbacks, cb[c].pc = "enqueuing"
  PROVE  Entry(c) \in Entries
  BY DEF TypeInv, AdmittedT, CallbackT, Entry, Entries

(* The receiver with empty hands.                                           *)
LEMMA EmptyHandType ==
  ASSUME NEW pc \in {"idle", "parked", "polling"}, NEW waits \in BOOLEAN,
         receiver' = EmptyHanded(pc, waits)
  PROVE  receiver' \in ReceiverT /\ HandT'
<1>1. receiver'.pc = pc /\ receiver'.hand = None  BY DEF EmptyHanded
<1>2. HandT'  BY <1>1 DEF HandT, TakenPcs
<1>3. receiver' \in ReceiverT  BY DEF ReceiverT, EmptyHanded
<1> QED  BY <1>2, <1>3

LEMMA TypeInit == Init => TypeInv /\ Queued
  BY ReceiverApart DEF Init, TypeInv, EmptyHanded, BoundaryT, SequencesT, CallbackT, AdmittedT, OperatorT,
     ReceiverT, HandT, CountsT, AuxT, Queued, Outside, Idle, InsidePcs, ResetPcs, TakenPcs, DrainedPcs

LEMMA AdvancedType ==
  ASSUME SequencesT, NEW obs \in Observations, sequences' = Advanced(obs)
  PROVE  SequencesT'
<1>1. obs.stream \in Streams /\ obs.seq \in 0 .. MaxSequence  BY DEF Observations
<1>2. DOMAIN sequences' = DOMAIN sequences \cup {obs.stream}  BY DEF Advanced
<1>3. \A k \in DOMAIN sequences' : sequences'[k] \in 0 .. MaxSequence
  BY <1>1 DEF Advanced, SequencesT
<1>4. sequences' = [k \in DOMAIN sequences' |-> sequences'[k]]  BY <1>2 DEF Advanced
<1> QED  BY <1>1, <1>2, <1>3, <1>4 DEF SequencesT

LEMMA GuardType ==
  ASSUME boundary \in BoundaryT, DropDelivery
  PROVE  boundary' \in BoundaryT
  BY DEF BoundaryT, DropDelivery

LEMMA TypeCallback ==
  ASSUME TypeInv, NEW c \in Callbacks,
         CallbackStep(c) \/ \E obs \in Observations \cup {None} : Arrive(c, obs)
  PROVE  TypeInv'
<1> USE DEF InsidePcs, CallbackFrame
<1>t. c \in Threads  BY DEF Threads
<1>1. ASSUME NEW obs \in Observations \cup {None}, Arrive(c, obs) PROVE TypeInv'
  <2>1. boundary' \in BoundaryT  BY <1>1, <1>t DEF TypeInv, Arrive, BeginDelivery, BoundaryT
  <2>2. cb' \in [Callbacks -> CallbackT] /\ AdmittedT'
    BY <1>1 DEF TypeInv, Arrive, BeginDelivery, CallbackT, AdmittedT
  <2>3. aux' \in AuxT  BY <1>1 DEF TypeInv, Arrive, AuxT
  <2> QED  BY <1>1, <2>1, <2>2, <2>3 DEF TypeInv, Arrive, SequencesT, HandT
<1>2. CASE ResumeArrival(c)
  <2>1. boundary' \in BoundaryT  BY <1>2, <1>t DEF TypeInv, ResumeArrival, BeginDelivery, BoundaryT
  <2>2. cb' \in [Callbacks -> CallbackT] /\ AdmittedT'
    BY <1>2 DEF TypeInv, ResumeArrival, BeginDelivery, CallbackT, AdmittedT, Goes
  <2> QED  BY <1>2, <2>1, <2>2 DEF TypeInv, ResumeArrival, SequencesT, HandT
<1>3. CASE AdmitObservation(c)
  <2>1. SequencesT'  BY <1>3, AdvancedType DEF TypeInv, AdmitObservation, SequencesT
  <2>2. cb' \in [Callbacks -> CallbackT] /\ AdmittedT'
    BY <1>3, SMTT(30) DEF TypeInv, AdmitObservation, CallbackT, AuxT, AdmittedT, Leaves, Outside
  <2>3. aux' \in AuxT  BY <1>3 DEF TypeInv, AdmitObservation, AuxT
  <2> QED  BY <1>3, <2>1, <2>2, <2>3 DEF TypeInv, AdmitObservation, HandT
<1>4. CASE StampObservation(c)
  <2>2. cb' \in [Callbacks -> CallbackT] /\ AdmittedT'
    BY <1>4 DEF TypeInv, StampObservation, CallbackT, AdmittedT, Leaves, Outside
  <2>3. aux' \in AuxT  BY <1>4 DEF TypeInv, StampObservation, AuxT
  <2> QED  BY <1>4, <2>2, <2>3 DEF TypeInv, StampObservation, SequencesT, HandT
<1>5. CASE Enqueue(c)
  <2>2. cb' \in [Callbacks -> CallbackT] /\ AdmittedT'
    BY <1>5 DEF TypeInv, Enqueue, CallbackT, AdmittedT, Leaves, Outside
  <2>3. counts' \in CountsT  BY <1>5, SMTT(30) DEF TypeInv, Enqueue, CountsT
  <2> QED  BY <1>5, <2>2, <2>3 DEF TypeInv, Enqueue, SequencesT, HandT
<1>6. CASE LeaveDelivery(c)
  <2>1. boundary' \in BoundaryT  BY <1>6, GuardType DEF TypeInv, LeaveDelivery
  <2>2. cb' \in [Callbacks -> CallbackT] /\ AdmittedT'
    BY <1>6 DEF TypeInv, LeaveDelivery, CallbackT, AdmittedT, Outside
  <2> QED  BY <1>6, <2>1, <2>2 DEF TypeInv, LeaveDelivery, SequencesT, HandT
<1> QED  BY <1>1, <1>2, <1>3, <1>4, <1>5, <1>6 DEF CallbackStep

LEMMA QueuedCallback ==
  ASSUME TypeInv, Queued, NEW c \in Callbacks,
         CallbackStep(c) \/ \E obs \in Observations \cup {None} : Arrive(c, obs)
  PROVE  Queued'
<1>1. CASE Enqueue(c)
  <2>1. Entry(c) \in Entries  BY <1>1, EntryType DEF Enqueue
  <2>2. Append(channel.queue, Entry(c)) \in Seq(Entries)  BY <2>1 DEF Queued
  <2>3. channel' \in {channel, [channel EXCEPT !.queue = Append(@, Entry(c))]}  BY <1>1 DEF Enqueue
  <2> QED  BY <2>2, <2>3 DEF Queued
<1>2. CASE ~Enqueue(c)
  BY <1>2 DEF Queued, CallbackStep, Arrive, ResumeArrival, AdmitObservation, StampObservation,
     LeaveDelivery
<1> QED  BY <1>1, <1>2

LEMMA DrainType ==
  ASSUME Queued, receiver \in ReceiverT, HandT, receiver.pc \notin TakenPcs,
         counts \in CountsT, NEW next \in DrainedPcs, DrainChannel(next)
  PROVE  Queued' /\ counts' \in CountsT /\ receiver' \in ReceiverT /\ HandT'
<1>1. Queued'  BY DEF DrainChannel, Queued
<1>2. Len(channel.queue) \in Nat  BY DEF Queued
<1>3. /\ counts' = [counts EXCEPT !.abandoned = @ + Len(channel.queue)]
      /\ receiver' = [receiver EXCEPT !.pc = next]
  BY DEF DrainChannel, Stands
<1>4. counts' \in CountsT  BY <1>2, <1>3 DEF CountsT
<1>5. receiver' \in ReceiverT /\ HandT'
  BY <1>3 DEF ReceiverT, HandT, TakenPcs, DrainedPcs
<1> QED  BY <1>1, <1>4, <1>5

LEMMA DequeueType ==
  ASSUME TypeInv, Queued, receiver.pc \notin TakenPcs, NEW waits \in BOOLEAN, Dequeue(waits)
  PROVE  TypeInv' /\ Queued'
<1>r. receiver \in ReceiverT /\ HandT  BY DEF TypeInv
<1>1. /\ UNCHANGED <<boundary, generation, sequences, cb, op, aux>>
      /\ counts' \in CountsT /\ receiver' \in ReceiverT /\ HandT' /\ Queued'
  <2>1. CASE fault
    <3>1. DrainChannel("quarantined")  BY <2>1 DEF Dequeue
    <3>2. "quarantined" \in DrainedPcs  BY DEF DrainedPcs
    <3> QED  BY <1>r, <3>1, <3>2, DrainType DEF TypeInv, Dequeue, ReceiverFrame
  <2>2. CASE ~fault /\ channel.queue # <<>>
    <3> DEFINE head == Head(channel.queue)
    <3>1. head \in Entries /\ Tail(channel.queue) \in Seq(Entries)  BY <2>2 DEF Queued
    <3>2. /\ receiver' = [pc |-> "dequeued", waits |-> waits, hand |-> head]
          /\ channel' = [channel EXCEPT !.queue = Tail(channel.queue)]
          /\ counts' = counts
      BY <2>2 DEF Dequeue
    <3>3. Queued'  BY <3>1, <3>2 DEF Queued
    <3> HIDE DEF head
    <3>4. receiver' \in ReceiverT /\ HandT'
      BY <3>1, <3>2, EntryApart DEF ReceiverT, HandT, TakenPcs
    <3> QED  BY <3>2, <3>3, <3>4 DEF Dequeue, ReceiverFrame, TypeInv
  <2>3. CASE ~fault /\ channel.queue = <<>>
    <3>1. UNCHANGED <<channel, counts>>  BY <2>3 DEF Dequeue
    <3>3. receiver' \in ReceiverT /\ HandT'
      <4>1. receiver' = EmptyHanded("parked", TRUE) \/ receiver' = EmptyHanded("idle", FALSE)
        BY <2>3 DEF Dequeue, Idle
      <4> QED  BY <4>1, EmptyHandType
    <3> QED  BY <3>1, <3>3 DEF Dequeue, ReceiverFrame, TypeInv, Queued
  <2> QED  BY <2>1, <2>2, <2>3
<1> QED  BY <1>1 DEF TypeInv, SequencesT, AdmittedT

LEMMA TypeReceiver ==
  ASSUME TypeInv, Queued,
         (\E waits \in BOOLEAN : StartRecv(waits)) \/ ReceiverStep
         \/ CancelRecv \/ CloseReceiver \/ StartDrop
  PROVE  TypeInv' /\ Queued'
<1>r. receiver \in ReceiverT /\ HandT /\ Receiver \in Threads  BY DEF TypeInv, Threads
<1>1. CASE \E waits \in BOOLEAN : StartRecv(waits)
  BY <1>1, DequeueType DEF StartRecv, TakenPcs
<1>2. CASE ResumeRecv
  <2>1. receiver.waits \in BOOLEAN  BY <1>r DEF ReceiverT
  <2> QED  BY <1>2, <2>1, DequeueType DEF ResumeRecv, TakenPcs
<1> SUFFICES ASSUME \/ ClearMirror \/ BeginFinish \/ FinishDequeue \/ DropReceiver
                    \/ CancelRecv \/ CloseReceiver \/ StartDrop
             PROVE  /\ UNCHANGED <<generation, sequences, cb, op>>
                    /\ boundary' \in BoundaryT /\ receiver' \in ReceiverT /\ HandT'
                    /\ counts' \in CountsT /\ aux' \in AuxT /\ Queued'
  BY <1>1, <1>2 DEF ReceiverStep, TypeInv, SequencesT, AdmittedT
<1> USE DEF ReceiverFrame
<1>3. CASE ClearMirror
  <2>1. receiver' \in ReceiverT /\ HandT'
    BY <1>3 DEF ClearMirror, Idle, EmptyHanded, ReceiverT, HandT, TakenPcs
  <2> QED  BY <1>3, <2>1 DEF ClearMirror, TypeInv, Queued
<1>4. CASE BeginFinish
  <2>1. boundary' \in BoundaryT
    BY <1>4, <1>r DEF TypeInv, BoundaryT, BeginFinish, BeginDelivery
  <2>2. receiver' \in ReceiverT /\ HandT'
    <3>1. receiver.waits \in BOOLEAN  BY <1>r DEF ReceiverT
    <3>2. CASE receiver' = EmptyHanded("polling", receiver.waits)  BY <3>1, <3>2, EmptyHandType
    <3>3. CASE receiver' # EmptyHanded("polling", receiver.waits)
      BY <1>4, <1>r, <3>3 DEF BeginFinish, BeginDelivery, Stands, ReceiverT, HandT, TakenPcs
    <3> QED  BY <3>2, <3>3
  <2>3. counts' \in CountsT  BY <1>4 DEF TypeInv, CountsT, BeginFinish, InHand
  <2> QED  BY <1>4, <2>1, <2>2, <2>3 DEF BeginFinish, TypeInv, Queued
<1>5. CASE FinishDequeue
  <2>1. boundary' \in BoundaryT  BY <1>5, GuardType DEF FinishDequeue, TypeInv
  <2>2. receiver' \in ReceiverT /\ HandT'
    <3>1. \/ receiver' = EmptyHanded("idle", FALSE)
          \/ receiver' = EmptyHanded("polling", receiver.waits)
      BY <1>5 DEF FinishDequeue, Idle, EmptyHanded
    <3>2. receiver.waits \in BOOLEAN  BY <1>r DEF ReceiverT
    <3> QED  BY <3>1, <3>2, EmptyHandType
  <2>3. counts' \in CountsT  BY <1>5 DEF TypeInv, CountsT, FinishDequeue
  <2>4. receiver.hand \in Entries
    BY <1>5, <1>r DEF FinishDequeue, ReceiverT, HandT, TakenPcs
  <2>5. receiver.hand.obs.seq \in Int  BY <2>4 DEF Entries, Observations
  <2>6. aux' \in AuxT  BY <1>5, <2>5 DEF FinishDequeue, TypeInv, AuxT
  <2> QED  BY <1>5, <2>1, <2>2, <2>3, <2>6 DEF FinishDequeue, Queued
<1>6. CASE DropReceiver
  <2>1. CASE receiver.pc = "dropping"
    <3>1. boundary' \in BoundaryT
      BY <1>6, <1>r, <2>1 DEF TypeInv, BoundaryT, DropReceiver, BeginDelivery
    <3>2. receiver' \in ReceiverT /\ HandT'
      BY <1>6, <1>r, <2>1 DEF DropReceiver, BeginDelivery, Stands, ReceiverT, HandT, TakenPcs
    <3> QED  BY <1>6, <2>1, <3>1, <3>2 DEF DropReceiver, TypeInv, Queued
  <2>2. CASE receiver.pc = "draining"
    <3>1. DrainChannel("dropped") /\ "dropped" \in DrainedPcs /\ receiver.pc \notin TakenPcs
      BY <1>6, <2>2 DEF DropReceiver, DrainedPcs, TakenPcs
    <3> QED  BY <1>6, <1>r, <2>2, <3>1, DrainType DEF DropReceiver, TypeInv
  <2>3. CASE receiver.pc = "dropped"
    <3>1. boundary' \in BoundaryT  BY <1>6, <2>3, GuardType DEF TypeInv, DropReceiver
    <3>2. receiver' \in ReceiverT /\ HandT'
      BY <1>6, <1>r, <2>3 DEF DropReceiver, Stands, ReceiverT, HandT, TakenPcs
    <3> QED  BY <1>6, <2>3, <3>1, <3>2 DEF DropReceiver, TypeInv, Queued
  <2> QED  BY <1>6, <2>1, <2>2, <2>3 DEF DropReceiver
<1>7. CASE CancelRecv
  <2>1. receiver' \in ReceiverT /\ HandT'
    BY <1>7 DEF CancelRecv, Idle, EmptyHanded, ReceiverT, HandT, TakenPcs
  <2> QED  BY <1>7, <2>1 DEF CancelRecv, TypeInv, Queued
<1>8. CASE CloseReceiver
  <2>1. Queued'  BY <1>8 DEF CloseReceiver, Queued
  <2> QED  BY <1>8, <1>r, <2>1 DEF CloseReceiver, TypeInv, HandT
<1>9. CASE StartDrop
  <2>1. boundary' \in BoundaryT
    BY <1>9, <1>r DEF TypeInv, BoundaryT, StartDrop, BeginDelivery
  <2>2. receiver' \in ReceiverT /\ HandT'
    BY <1>9, <1>r DEF StartDrop, BeginDelivery, Stands, ReceiverT, HandT, TakenPcs
  <2> QED  BY <1>9, <2>1, <2>2 DEF StartDrop, TypeInv, Queued
<1> QED  BY <1>3, <1>4, <1>5, <1>6, <1>7, <1>8, <1>9

LEMMA TypeOperator ==
  ASSUME TypeInv, Queued, NEW o \in Operators,
         RequestReset(o) \/ BeginMeasure(o) \/ OperatorStep(o)
  PROVE  TypeInv' /\ Queued'
<1>t. o \in Threads  BY DEF Threads
<1> USE DEF OperatorFrame
<1> SUFFICES /\ boundary' \in BoundaryT /\ generation' \in Nat /\ SequencesT'
             /\ op' \in [Operators -> OperatorT] /\ aux' \in AuxT
             /\ UNCHANGED <<channel, cb, receiver, counts>>
  BY DEF TypeInv, AdmittedT, HandT, Queued
<1>1. UNCHANGED <<channel, cb, receiver, counts>>
  BY DEF OperatorStep, RequestReset, BeginMeasure, AcquireReset, AdvanceGeneration,
     ClearSequences, ReleaseReset, ResumeMeasure, EndMeasure
<1>2. op' \in [Operators -> OperatorT]
  BY DEF OperatorStep, RequestReset, BeginMeasure, AcquireReset, AdvanceGeneration, TypeInv,
     ClearSequences, ReleaseReset, ResumeMeasure, EndMeasure, Does, OperatorT, ResetPcs, BeginDelivery
<1>3. boundary' \in BoundaryT
  <2>1. CASE RequestReset(o) BY <2>1 DEF RequestReset, TypeInv, BoundaryT
  <2>2. CASE AcquireReset(o)
    <3>1. boundary \in BoundaryT  BY DEF TypeInv
    <3>2. CASE boundary' # boundary
      <4>1. boundary' = [boundary EXCEPT !.pending = @ - 1, !.resetting = o]
        BY <2>2, <3>2 DEF AcquireReset
      <4>2. boundary' = [delivering |-> boundary.delivering, resetting |-> o,
                         pending |-> boundary.pending - 1]
        BY <3>1, <4>1 DEF BoundaryT
      <4> QED  BY <3>1, <4>2 DEF BoundaryT
    <3> QED  BY <3>1, <3>2
  <2>3. CASE ReleaseReset(o) BY <2>3 DEF ReleaseReset, TypeInv, BoundaryT
  <2>4. CASE BeginMeasure(o) BY <2>4, <1>t DEF BeginMeasure, BeginDelivery, TypeInv, BoundaryT
  <2>5. CASE ResumeMeasure(o) BY <2>5, <1>t DEF ResumeMeasure, BeginDelivery, TypeInv, BoundaryT
  <2>6. CASE EndMeasure(o) BY <2>6, GuardType DEF EndMeasure, TypeInv
  <2>7. CASE AdvanceGeneration(o) \/ ClearSequences(o)
    BY <2>7 DEF AdvanceGeneration, ClearSequences, TypeInv
  <2> QED BY <2>1, <2>2, <2>3, <2>4, <2>5, <2>6, <2>7 DEF OperatorStep
<1>4. aux' \in AuxT
  <2>1. CASE ClearSequences(o)
    <3> DEFINE none == [k \in Streams |-> -1]
    <3>1. none \in [Streams -> Int]  OBVIOUS
    <3>2. aux \in AuxT  BY DEF TypeInv
    <3>3. aux' = aux \/ aux' = [aux EXCEPT !.cleared = @ + 1, !.delivered = none]
      BY <2>1 DEF ClearSequences
    <3> HIDE DEF none
    <3>4. CASE aux' # aux
      <4>1. aux' = [aux EXCEPT !.cleared = @ + 1, !.delivered = none]  BY <3>3, <3>4
      <4>2. aux' = [payloads |-> aux.payloads, requests |-> aux.requests,
                    cleared |-> aux.cleared + 1, accepted |-> aux.accepted, lost |-> aux.lost,
                    delivered |-> none]
        BY <3>2, <4>1 DEF AuxT
      <4> QED  BY <3>1, <3>2, <4>2 DEF AuxT
    <3> QED  BY <3>2, <3>4
  <2>2. CASE ~ClearSequences(o)
    BY <2>2 DEF OperatorStep, RequestReset, BeginMeasure, AcquireReset, AdvanceGeneration, TypeInv,
       ReleaseReset, ResumeMeasure, EndMeasure, MayRequest, AuxT
  <2> QED BY <2>1, <2>2
<1>5. generation' \in Nat /\ SequencesT'
  <2>1. generation \in Nat /\ SequencesT  BY DEF TypeInv
  <2>2. generation' \in {generation, generation + 1}
    BY DEF OperatorStep, RequestReset, BeginMeasure, AcquireReset, AdvanceGeneration,
       ClearSequences, ReleaseReset, ResumeMeasure, EndMeasure
  <2>3. sequences' = sequences \/ sequences' = [k \in {} |-> 0]
    BY DEF OperatorStep, RequestReset, BeginMeasure, AcquireReset, AdvanceGeneration,
       ClearSequences, ReleaseReset, ResumeMeasure, EndMeasure
  <2>4. CASE sequences' = [k \in {} |-> 0]  BY <2>1, <2>2, <2>4 DEF SequencesT
  <2>5. CASE sequences' = sequences  BY <2>1, <2>2, <2>5 DEF SequencesT
  <2> QED  BY <2>3, <2>4, <2>5
<1> QED  BY <1>1, <1>2, <1>3, <1>4, <1>5

LEMMA TypeNext ==
  ASSUME TypeInv, Queued, [Next]_vars
  PROVE  TypeInv' /\ Queued'
<1>1. CASE LatchFault \/ UNCHANGED vars
  BY <1>1 DEF LatchFault, vars, TypeInv, Queued, SequencesT, AdmittedT, HandT
<1> QED  BY <1>1, TypeCallback, QueuedCallback, TypeReceiver, TypeOperator DEF Next

-----------------------------------------------------------------------------
(* Who holds the boundary.                                                  *)

LEMMA HoldingInit == Init => Holding
<1> SUFFICES ASSUME Init PROVE Holding  OBVIOUS
<1>1. Waiters = {}  BY DEF Init, Waiters
<1>2. WaitCounted  BY <1>1, FS_EmptySet DEF Init, WaitCounted
<1> QED
  BY <1>2, ReceiverApart DEF Init, Holding, Guarded, CallbackHolds, MeasureHolds,
     ResetHolds, ReceiverHolds, Outside, Idle, EmptyHanded, InsidePcs, ResetPcs

LEMMA WaitersFinite == IsFiniteSet(Waiters) /\ Cardinality(Waiters) \in Nat
<1>1. IsFiniteSet(Threads)  BY TapAssumption
<1>2. Waiters \subseteq Threads  BY DEF Waiters, Threads
<1> QED  BY <1>1, <1>2, FS_Subset, FS_CardinalityType

(* A callback takes the boundary, keeps to what it has, or lets it go.      *)
LEMMA CallbackMoves ==
  ASSUME TypeInv, NEW c \in Callbacks,
         CallbackStep(c) \/ \E obs \in Observations \cup {None} : Arrive(c, obs)
  PROVE  /\ UNCHANGED <<op, receiver, fault>> /\ \A d \in Callbacks \ {c} : cb'[d] = cb[d]
         /\ \/ /\ ~Blocked /\ boundary' = [boundary EXCEPT !.delivering = c]
               /\ cb[c].pc \notin InsidePcs /\ cb'[c].pc = "inside"
            \/ /\ boundary' = [boundary EXCEPT !.delivering = None]
               /\ cb[c].pc = "leaving" /\ cb'[c].pc = "idle"
            \/ /\ boundary' = boundary
               /\ cb'[c].pc \in InsidePcs <=> cb[c].pc \in InsidePcs
<1> USE DEF CallbackFrame, InsidePcs
<1>t. cb \in [Callbacks -> CallbackT]  BY DEF TypeInv
<1>1. ASSUME NEW obs \in Observations \cup {None}, Arrive(c, obs)
      PROVE  /\ UNCHANGED <<op, receiver, fault>> /\ \A d \in Callbacks \ {c} : cb'[d] = cb[d]
             /\ \/ /\ ~Blocked /\ boundary' = [boundary EXCEPT !.delivering = c]
                   /\ cb[c].pc \notin InsidePcs /\ cb'[c].pc = "inside"
                \/ /\ boundary' = boundary
                   /\ cb'[c].pc \in InsidePcs <=> cb[c].pc \in InsidePcs
  BY <1>1, <1>t DEF Arrive, BeginDelivery, CallbackT
<1>2. CASE ResumeArrival(c)  BY <1>2, <1>t DEF ResumeArrival, BeginDelivery, Goes, CallbackT
<1>3. CASE AdmitObservation(c)
  BY <1>3, <1>t DEF AdmitObservation, Leaves, Outside, CallbackT
<1>4. CASE StampObservation(c)
  BY <1>4, <1>t DEF StampObservation, Leaves, Outside, CallbackT
<1>5. CASE Enqueue(c)  BY <1>5, <1>t DEF Enqueue, Leaves, Outside, CallbackT
<1>6. CASE LeaveDelivery(c)
  BY <1>6, <1>t DEF LeaveDelivery, DropDelivery, Outside, CallbackT
<1> QED  BY <1>1, <1>2, <1>3, <1>4, <1>5, <1>6 DEF CallbackStep

LEMMA HoldingCallback ==
  ASSUME TypeInv, Holding, NEW c \in Callbacks,
         CallbackStep(c) \/ \E obs \in Observations \cup {None} : Arrive(c, obs)
  PROVE  Holding'
<1> SUFFICES Guarded' /\ CallbackHolds' /\ MeasureHolds' /\ ResetHolds' /\ WaitCounted'
             /\ ReceiverHolds'
  BY DEF Holding
<1>t. boundary \in BoundaryT  BY DEF TypeInv
<1>u. UNCHANGED <<op, receiver, fault>> /\ \A d \in Callbacks \ {c} : cb'[d] = cb[d]
  BY CallbackMoves
<1>w. Waiters' = Waiters  BY <1>u DEF Waiters
<1> USE ReceiverApart DEF Holding, Guarded, CallbackHolds, MeasureHolds, ResetHolds, WaitCounted,
        ReceiverHolds, InsidePcs, BoundaryT
<1>1. CASE /\ ~Blocked /\ boundary' = [boundary EXCEPT !.delivering = c] /\ cb'[c].pc = "inside"
  BY <1>1, <1>t, <1>u, <1>w DEF Blocked
<1>2. CASE /\ boundary' = [boundary EXCEPT !.delivering = None]
           /\ cb[c].pc = "leaving" /\ cb'[c].pc = "idle"
  BY <1>2, <1>t, <1>u, <1>w
<1>3. CASE boundary' = boundary /\ (cb'[c].pc \in InsidePcs <=> cb[c].pc \in InsidePcs)
  BY <1>3, <1>t, <1>u, <1>w
<1> QED  BY <1>1, <1>2, <1>3, CallbackMoves

(* What the receiver's steps leave alone, and how they stand to the boundary.*)
LEMMA HoldingReceiver ==
  ASSUME TypeInv, Holding,
         (\E waits \in BOOLEAN : StartRecv(waits)) \/ ReceiverStep
         \/ CancelRecv \/ CloseReceiver \/ StartDrop
  PROVE  Holding'
<1> SUFFICES Guarded' /\ CallbackHolds' /\ MeasureHolds' /\ ResetHolds' /\ WaitCounted'
             /\ ReceiverHolds'
  BY DEF Holding
<1>t. boundary \in BoundaryT /\ receiver \in ReceiverT  BY DEF TypeInv
<1>u. UNCHANGED <<op, cb, fault>>
  BY DEF ReceiverStep, StartRecv, ResumeRecv, Dequeue, ClearMirror, BeginFinish, FinishDequeue,
     DropReceiver, CancelRecv, CloseReceiver, StartDrop, ReceiverFrame
<1>w. Waiters' = Waiters  BY <1>u DEF Waiters
<1> USE ReceiverApart DEF Holding, Guarded, CallbackHolds, MeasureHolds, ResetHolds, WaitCounted,
        ReceiverHolds, BoundaryT
<1> DEFINE Loose == {"idle", "parked", "polling", "dequeued", "waiting", "quarantined", "gone",
                     "dropping"}
<1>1. \/ /\ ~Blocked /\ boundary' = [boundary EXCEPT !.delivering = Receiver]
         /\ receiver'.pc \in {"finishing", "draining"}
      \/ /\ boundary.delivering = Receiver
         /\ boundary' = [boundary EXCEPT !.delivering = None]
         /\ receiver'.pc \in Loose
      \/ /\ boundary' = boundary
         /\ \/ receiver'.pc \in Loose /\ boundary.delivering # Receiver
            \/ receiver'.pc = "dropped" /\ receiver.pc = "draining"
            \/ receiver'.pc = "draining" /\ fault /\ receiver.pc = "idle"
            \/ receiver'.pc = receiver.pc
  <2>1. ASSUME NEW waits \in BOOLEAN, Dequeue(waits), receiver.pc \in {"idle", "polling", "parked"}
        PROVE  boundary' = boundary /\ receiver'.pc \in Loose /\ boundary.delivering # Receiver
    <3>1. boundary' = boundary /\ boundary.delivering # Receiver  BY <2>1 DEF Dequeue
    <3>2. receiver'.pc \in {"quarantined", "dequeued", "parked", "idle"}
      <4>1. CASE DrainChannel("quarantined")
        BY <4>1, <1>t DEF DrainChannel, Stands, ReceiverT
      <4>2. CASE receiver' \in {EmptyHanded("parked", TRUE), EmptyHanded("idle", FALSE)}
        BY <4>2 DEF EmptyHanded
      <4>3. CASE \E head : receiver' = [pc |-> "dequeued", waits |-> waits, hand |-> head]
        BY <4>3
      <4> QED  BY <2>1, <4>1, <4>2, <4>3 DEF Dequeue, Idle
    <3> QED  BY <3>1, <3>2
  <2>2. CASE (\E waits \in BOOLEAN : StartRecv(waits)) \/ ResumeRecv
    BY <2>1, <2>2, <1>t DEF StartRecv, ResumeRecv, ReceiverT
  <2>3. CASE BeginFinish
    <3>1. CASE receiver' = EmptyHanded("polling", receiver.waits)
      BY <2>3, <1>t, <3>1 DEF BeginFinish, BeginDelivery, Stands, EmptyHanded, ReceiverT
    <3>2. CASE receiver' # EmptyHanded("polling", receiver.waits)
      BY <2>3, <1>t, <3>2 DEF BeginFinish, BeginDelivery, Stands, ReceiverT
    <3> QED  BY <3>1, <3>2
  <2>4. CASE FinishDequeue
    <3>1. receiver'.pc \in {"idle", "polling"}
      BY <2>4 DEF FinishDequeue, Idle, EmptyHanded
    <3>2. boundary' = [boundary EXCEPT !.delivering = None] /\ boundary.delivering = Receiver
      BY <2>4 DEF FinishDequeue, DropDelivery
    <3> QED  BY <3>1, <3>2
  <2>5. CASE DropReceiver
    BY <2>5, <1>t DEF DropReceiver, BeginDelivery, DrainChannel, Stands, DropDelivery, ReceiverT
  <2>6. CASE ClearMirror \/ CancelRecv \/ CloseReceiver
    BY <2>6, <1>t DEF ClearMirror, CancelRecv, CloseReceiver, Idle, EmptyHanded, ReceiverT
  <2>7. CASE StartDrop  BY <2>7, <1>t DEF StartDrop, BeginDelivery, Stands, ReceiverT
  <2> QED  BY <2>2, <2>3, <2>4, <2>5, <2>6, <2>7 DEF ReceiverStep
<1>2. CASE /\ ~Blocked /\ boundary' = [boundary EXCEPT !.delivering = Receiver]
           /\ receiver'.pc \in {"finishing", "draining"}
  BY <1>2, <1>t, <1>u, <1>w DEF Blocked
<1>3. CASE /\ boundary.delivering = Receiver /\ receiver'.pc \in Loose
           /\ boundary' = [boundary EXCEPT !.delivering = None]
  BY <1>3, <1>t, <1>u, <1>w
<1>4. CASE /\ boundary' = boundary
           /\ \/ receiver'.pc \in Loose /\ boundary.delivering # Receiver
              \/ receiver'.pc = "dropped" /\ receiver.pc = "draining"
              \/ receiver'.pc = "draining" /\ fault /\ receiver.pc = "idle"
              \/ receiver'.pc = receiver.pc
  BY <1>4, <1>t, <1>u, <1>w
<1> QED  BY <1>1, <1>2, <1>3, <1>4

LEMMA HoldingOperator ==
  ASSUME TypeInv, Holding, NEW o \in Operators,
         RequestReset(o) \/ BeginMeasure(o) \/ OperatorStep(o)
  PROVE  Holding'
<1> SUFFICES Guarded' /\ CallbackHolds' /\ MeasureHolds' /\ ResetHolds' /\ WaitCounted'
             /\ ReceiverHolds'
  BY DEF Holding
<1>t. boundary \in BoundaryT /\ op \in [Operators -> OperatorT]  BY DEF TypeInv
<1>o. o # None /\ o # Receiver /\ o \notin Callbacks  BY ReceiverApart
<1>f. IsFiniteSet(Waiters) /\ Cardinality(Waiters) \in Nat  BY WaitersFinite
<1> USE DEF Holding, Guarded, CallbackHolds, MeasureHolds, ResetHolds, WaitCounted, ReceiverHolds,
        BoundaryT, Does, OperatorFrame, ResetPcs
<1>0. ASSUME op'[o] # "resetWaiting", op[o] # "resetWaiting", op' = [op EXCEPT ![o] = op'[o]]
      PROVE  Waiters' = Waiters
  BY <1>0, <1>t DEF Waiters
<1>1. CASE RequestReset(o)
  <2>1. CASE boundary.resetting = None
    <3>1. /\ op' = [op EXCEPT ![o] = "advancing"] /\ op[o] = "idle"
          /\ boundary' = [boundary EXCEPT !.resetting = o] /\ boundary.delivering = None
          /\ UNCHANGED <<cb, receiver, fault>>
      BY <1>1, <2>1 DEF RequestReset, MayRequest
    <3>2. Waiters' = Waiters  BY <1>t, <3>1, <1>0
    <3> QED  BY <1>t, <1>o, <2>1, <3>1, <3>2
  <2>2. CASE boundary.resetting # None
    <3>1. /\ op' = [op EXCEPT ![o] = "resetWaiting"] /\ op[o] = "idle"
          /\ boundary' = [boundary EXCEPT !.pending = @ + 1] /\ boundary.delivering = None
          /\ UNCHANGED <<cb, receiver, fault>>
      BY <1>1, <2>2 DEF RequestReset, MayRequest
    <3>2. Waiters' = Waiters \cup {o} /\ o \notin Waiters  BY <1>t, <3>1 DEF Waiters
    <3>3. Cardinality(Waiters') = Cardinality(Waiters) + 1  BY <1>f, <3>2, FS_AddElement
    <3> QED  BY <1>t, <1>o, <2>2, <3>1, <3>3
  <2> QED  BY <2>1, <2>2
<1>2. CASE AcquireReset(o)
  <2>1. CASE boundary.resetting # None
    BY <1>2, <1>t, <2>1 DEF AcquireReset, Waiters
  <2>2. CASE boundary.resetting = None
    <3>1. /\ op' = [op EXCEPT ![o] = "advancing"] /\ op[o] = "resetWaiting"
          /\ boundary' = [boundary EXCEPT !.pending = @ - 1, !.resetting = o]
          /\ UNCHANGED <<cb, receiver, fault>>
      BY <1>2, <2>2 DEF AcquireReset
    <3>2. Waiters' = Waiters \ {o} /\ o \in Waiters  BY <1>t, <3>1 DEF Waiters
    <3>3. Cardinality(Waiters') = Cardinality(Waiters) - 1  BY <1>f, <3>2, FS_RemoveElement
    <3>4. Cardinality(Waiters) # 0  BY <1>f, <3>2, FS_EmptySet
    <3>5. boundary.delivering = None  BY <3>4
    <3>6. boundary' = [delivering |-> None, resetting |-> o, pending |-> boundary.pending - 1]
      BY <1>t, <3>1, <3>5
    <3>7. WaitCounted'  BY <3>3, <3>6
    <3> QED  BY <1>t, <1>o, <2>2, <3>1, <3>5, <3>6, <3>7
  <2> QED  BY <2>1, <2>2
<1>3. CASE AdvanceGeneration(o) \/ ClearSequences(o)
  <2>1. /\ op' = [op EXCEPT ![o] = op'[o]] /\ op[o] \in ResetPcs /\ op'[o] \in ResetPcs
        /\ UNCHANGED <<boundary, cb, receiver, fault>>
    BY <1>3, <1>t DEF AdvanceGeneration, ClearSequences
  <2>2. Waiters' = Waiters  BY <1>t, <2>1, <1>0
  <2> QED  BY <1>t, <1>o, <2>1, <2>2
<1>4. CASE ReleaseReset(o)
  <2>1. /\ op' = [op EXCEPT ![o] = "idle"] /\ op[o] = "releasing"
        /\ boundary' = [boundary EXCEPT !.resetting = None]
        /\ UNCHANGED <<cb, receiver, fault>>
    BY <1>4 DEF ReleaseReset
  <2>2. Waiters' = Waiters  BY <1>t, <2>1, <1>0
  <2>3. op'[o] = "idle" /\ \A p \in Operators \ {o} : op'[p] = op[p]  BY <1>t, <2>1
  <2>4. boundary.resetting = o /\ boundary.delivering = None  BY <1>o, <2>1
  <2>5. /\ boundary'.resetting = None /\ boundary'.delivering = None
        /\ boundary'.pending = boundary.pending
    BY <1>t, <2>1, <2>4
  <2>6. WaitCounted' /\ Guarded' /\ CallbackHolds' /\ ReceiverHolds'  BY <2>1, <2>2, <2>4, <2>5
  <2>7. ResetHolds'  BY <1>o, <2>3, <2>4, <2>5, ReceiverApart
  <2>8. MeasureHolds'  BY <1>o, <2>1, <2>3, <2>4, <2>5
  <2> QED  BY <2>6, <2>7, <2>8
<1>5. CASE BeginMeasure(o) \/ ResumeMeasure(o)
  <2>1. /\ UNCHANGED <<cb, receiver, fault>> /\ op[o] \in {"idle", "measureWaiting"}
        /\ \/ /\ op' = [op EXCEPT ![o] = "measured"] /\ ~Blocked
              /\ boundary' = [boundary EXCEPT !.delivering = o]
           \/ /\ op' \in {op, [op EXCEPT ![o] = "measureWaiting"]} /\ boundary' = boundary
    BY <1>5 DEF BeginMeasure, ResumeMeasure, MayRequest, BeginDelivery
  <2>2. Waiters' = Waiters  BY <1>t, <2>1 DEF Waiters
  <2>3. \A p \in Operators \ {o} : op'[p] = op[p]  BY <1>t, <2>1
  <2>4. CASE boundary' = boundary
    <3>1. op'[o] \notin ResetPcs /\ (op'[o] = "measured" <=> op[o] = "measured")
      BY <1>t, <1>o, <2>1, <2>4 DEF Blocked
    <3>2. WaitCounted' /\ Guarded' /\ CallbackHolds' /\ ReceiverHolds'  BY <2>1, <2>2, <2>4
    <3> QED  BY <2>1, <2>3, <2>4, <3>1, <3>2
  <2>5. CASE boundary' # boundary
    <3>1. /\ boundary.delivering = None /\ boundary.resetting = None /\ boundary.pending = 0
          /\ boundary' = [boundary EXCEPT !.delivering = o] /\ op'[o] = "measured"
      BY <1>t, <2>1, <2>5 DEF Blocked
    <3>2. /\ boundary'.resetting = None /\ boundary'.delivering = o /\ boundary'.pending = 0
      BY <1>t, <3>1
    <3>3. WaitCounted' /\ Guarded'  BY <2>1, <2>2, <3>1, <3>2
    <3>4. CallbackHolds' /\ ReceiverHolds'  BY <1>o, <2>1, <3>1, <3>2, ReceiverApart
    <3>5. ResetHolds' /\ MeasureHolds'  BY <1>o, <2>3, <3>1, <3>2, ReceiverApart
    <3> QED  BY <3>3, <3>4, <3>5
  <2> QED  BY <2>4, <2>5
<1>6. CASE EndMeasure(o)
  <2>1. /\ op' = [op EXCEPT ![o] = "idle"] /\ op[o] = "measured"
        /\ boundary' = [boundary EXCEPT !.delivering = None]
        /\ UNCHANGED <<cb, receiver, fault>>
    BY <1>6 DEF EndMeasure, DropDelivery
  <2>2. Waiters' = Waiters  BY <1>t, <2>1, <1>0
  <2>3. op'[o] = "idle" /\ \A p \in Operators \ {o} : op'[p] = op[p]  BY <1>t, <2>1
  <2>4. boundary.delivering = o /\ boundary.resetting = None  BY <1>o, <2>1
  <2>5. /\ boundary'.resetting = None /\ boundary'.delivering = None
        /\ boundary'.pending = boundary.pending
    BY <1>t, <2>1, <2>4
  <2>6. WaitCounted' /\ Guarded'  BY <2>2, <2>5
  <2>7. CallbackHolds' /\ ReceiverHolds'  BY <1>o, <2>1, <2>4, <2>5, ReceiverApart
  <2>8. ResetHolds' /\ MeasureHolds'  BY <1>o, <2>3, <2>4, <2>5, ReceiverApart
  <2> QED  BY <2>6, <2>7, <2>8
<1> QED  BY <1>1, <1>2, <1>3, <1>4, <1>5, <1>6 DEF OperatorStep

LEMMA HoldingNext == TypeInv /\ Holding /\ [Next]_vars => Holding'
<1> SUFFICES ASSUME TypeInv, Holding, [Next]_vars PROVE Holding'  OBVIOUS
<1>1. CASE LatchFault \/ UNCHANGED vars
  <2>1. UNCHANGED <<boundary, cb, op, receiver>> /\ (fault => fault')
    BY <1>1 DEF LatchFault, vars
  <2>2. Waiters' = Waiters  BY <2>1 DEF Waiters
  <2> QED
    BY <2>1, <2>2 DEF Holding, Guarded, CallbackHolds, MeasureHolds, ResetHolds, WaitCounted,
       ReceiverHolds
<1> QED  BY <1>1, HoldingCallback, HoldingReceiver, HoldingOperator DEF Next

THEOREM TypeCorrect == Spec => [](TypeInv /\ Queued /\ Holding)
<1>1. Init => TypeInv /\ Queued /\ Holding  BY TypeInit, HoldingInit
<1>2. TypeInv /\ Queued /\ Holding /\ [Next]_vars => (TypeInv /\ Queued /\ Holding)'
  BY TypeNext, HoldingNext
<1> QED  BY <1>1, <1>2, PTL DEF Spec

(* A reset and a delivery never overlap, and whatever touches the replay    *)
(* state or the queue on its behalf holds the boundary.                     *)
THEOREM BoundaryIsExclusive == Spec => []BoundaryExclusive
<1>1. Holding => BoundaryExclusive
  BY DEF Holding, Guarded, CallbackHolds, ResetHolds, BoundaryExclusive, InsidePcs, ResetPcs
<1> QED  BY <1>1, TypeCorrect, PTL

-----------------------------------------------------------------------------
(* The mirror and the channel.                                              *)

LEMMA ChannelShape ==
  ASSUME Queued
  PROVE  /\ channel = [queue |-> channel.queue, open |-> channel.open]
         /\ channel.queue \in Seq(Entries) /\ Len(channel.queue) \in Nat
  BY DEF Queued

(* An observation is put into the queue and the mirror, or counted as lost. *)
LEMMA EnqueueCases ==
  ASSUME Queued, NEW c \in Callbacks, Enqueue(c)
  PROVE  \/ /\ channel.open /\ channel'.open = channel.open
            /\ channel'.queue = Append(channel.queue, Entry(c)) /\ mirror' = Append(mirror, Entry(c))
            /\ counts' = [counts EXCEPT !.enqueued = @ + 1]
         \/ /\ UNCHANGED <<channel, mirror>>
            /\ \/ counts' = [counts EXCEPT !.closed = @ + 1]
               \/ counts' = [counts EXCEPT !.full = @ + 1]
<1>1. \/ /\ channel.open /\ channel' = [channel EXCEPT !.queue = Append(channel.queue, Entry(c))]
         /\ mirror' = Append(mirror, Entry(c))
         /\ counts' = [counts EXCEPT !.enqueued = @ + 1]
      \/ /\ UNCHANGED <<channel, mirror>>
         /\ \/ counts' = [counts EXCEPT !.closed = @ + 1]
            \/ counts' = [counts EXCEPT !.full = @ + 1]
  BY DEF Enqueue
<1> QED  BY <1>1 DEF Queued

LEMMA AlignedReceiver ==
  ASSUME TypeInv, Queued, Aligned,
         (\E waits \in BOOLEAN : StartRecv(waits)) \/ ReceiverStep
         \/ CancelRecv \/ CloseReceiver \/ StartDrop
  PROVE  Aligned'
<1>t. receiver \in ReceiverT  BY DEF TypeInv
<1> USE DEF Aligned, DrainedPcs, ReceiverFrame
<1>0. ASSUME NEW waits, Dequeue(waits), receiver.pc \notin DrainedPcs PROVE Aligned'
  <2>1. CASE fault
    BY <1>0, <1>t, <2>1 DEF Dequeue, DrainChannel, Stands, ReceiverT
  <2>2. CASE ~fault /\ channel.queue # <<>>
    <3>0. /\ channel' = [channel EXCEPT !.queue = Tail(channel.queue)] /\ mirror' = Tail(mirror)
          /\ receiver' = [pc |-> "dequeued", waits |-> waits, hand |-> Head(channel.queue)]
      BY <1>0, <2>2 DEF Dequeue
    <3>1. channel'.queue = Tail(channel.queue)  BY <3>0 DEF Queued
    <3>2. mirror' = Tail(channel.queue) /\ receiver'.pc = "dequeued"  BY <1>0, <3>0
    <3> QED  BY <3>1, <3>2
  <2>3. CASE ~fault /\ channel.queue = <<>>
    <3>1. UNCHANGED <<channel, mirror>> /\ receiver'.pc \in {"parked", "idle"}
      BY <1>0, <2>3 DEF Dequeue, Idle, EmptyHanded
    <3> QED  BY <1>0, <3>1
  <2> QED  BY <2>1, <2>2, <2>3
<1>1. CASE (\E waits \in BOOLEAN : StartRecv(waits)) \/ ResumeRecv
  BY <1>0, <1>1 DEF StartRecv, ResumeRecv
<1>2. CASE ClearMirror  BY <1>2 DEF ClearMirror, Idle, EmptyHanded
<1>3. CASE BeginFinish \/ FinishDequeue \/ CancelRecv \/ StartDrop
  <2>1. /\ UNCHANGED <<channel, mirror>> /\ receiver.pc \notin DrainedPcs
        /\ receiver'.pc \in {"polling", "finishing", "waiting", "idle", "draining", "dropping"}
    BY <1>3, <1>t DEF BeginFinish, FinishDequeue, CancelRecv, StartDrop, BeginDelivery, Stands,
       Idle, EmptyHanded, ReceiverT
  <2> QED  BY <2>1
<1>4. CASE CloseReceiver
  <2>1. channel'.queue = channel.queue /\ UNCHANGED <<mirror, receiver>> /\ receiver.pc = "idle"
    BY <1>4 DEF CloseReceiver
  <2> QED  BY <2>1
<1>5. CASE DropReceiver
  <2>1. CASE receiver.pc = "dropping"
    <3>1. UNCHANGED <<channel, mirror>> /\ receiver'.pc \in {"dropping", "draining"}
      BY <1>5, <1>t, <2>1 DEF DropReceiver, BeginDelivery, Stands, ReceiverT
    <3> QED  BY <2>1, <3>1
  <2>2. CASE receiver.pc = "draining"
    BY <1>5, <1>t, <2>2 DEF DropReceiver, DrainChannel, Stands, ReceiverT
  <2>3. CASE receiver.pc = "dropped"
    BY <1>5, <1>t, <2>3 DEF DropReceiver, Stands, ReceiverT
  <2> QED  BY <1>5, <2>1, <2>2, <2>3 DEF DropReceiver
<1> QED  BY <1>1, <1>2, <1>3, <1>4, <1>5 DEF ReceiverStep

LEMMA AlignedNext == TypeInv /\ Queued /\ Aligned /\ [Next]_vars => Aligned'
<1> SUFFICES ASSUME TypeInv, Queued, Aligned, [Next]_vars PROVE Aligned'  OBVIOUS
<1> USE DEF Aligned, DrainedPcs
<1>1. ASSUME UNCHANGED <<channel, mirror, receiver>>, fault => fault' PROVE Aligned'  BY <1>1
<1>2. ASSUME NEW c \in Callbacks, CallbackStep(c) \/ \E obs \in Observations \cup {None} : Arrive(c, obs)
      PROVE  Aligned'
  <2>1. CASE Enqueue(c)
    <3>1. UNCHANGED <<receiver, fault>>  BY <2>1 DEF Enqueue, CallbackFrame
    <3>2. CASE channel'.queue = Append(channel.queue, Entry(c)) /\ channel.open
               /\ mirror' = Append(mirror, Entry(c))
      BY <3>1, <3>2
    <3>3. CASE UNCHANGED <<channel, mirror>>  BY <1>1, <3>1, <3>3
    <3> QED  BY <2>1, <3>2, <3>3, EnqueueCases
  <2>3. CASE ~Enqueue(c)
    BY <1>1, <1>2, <2>3 DEF CallbackStep, Arrive, ResumeArrival, AdmitObservation, StampObservation,
       LeaveDelivery, CallbackFrame
  <2> QED  BY <2>1, <2>3
<1>3. ASSUME NEW o \in Operators, RequestReset(o) \/ BeginMeasure(o) \/ OperatorStep(o)
      PROVE  Aligned'
  BY <1>1, <1>3 DEF RequestReset, BeginMeasure, OperatorStep, AcquireReset, AdvanceGeneration,
     ClearSequences, ReleaseReset, ResumeMeasure, EndMeasure, OperatorFrame
<1>4. CASE LatchFault \/ UNCHANGED vars  BY <1>1, <1>4 DEF LatchFault, vars
<1> QED  BY <1>2, <1>3, <1>4, AlignedReceiver DEF Next

(* A measurement shows the queue as it is: the mirror differs from the      *)
(* channel only inside a quarantine.                                        *)
THEOREM MeasurementIsReal == Spec => []MeasuredIsReal
<1>1. Init => Aligned  BY DEF Init, Aligned, DrainedPcs, Idle, EmptyHanded
<1>2. TypeInv /\ Holding /\ Aligned => MeasuredIsReal
  BY ReceiverApart DEF Holding, MeasureHolds, ReceiverHolds, Aligned, DrainedPcs, MeasuredIsReal
<1> QED  BY <1>1, <1>2, AlignedNext, TypeCorrect, PTL DEF Spec

-----------------------------------------------------------------------------
(* The handoff counters.                                                    *)

LEMMA InflightFinite == IsFiniteSet(Inflight) /\ Cardinality(Inflight) \in Nat
<1>1. IsFiniteSet(Threads)  BY TapAssumption
<1>2. Inflight \subseteq Threads  BY DEF Inflight, Threads
<1> QED  BY <1>1, <1>2, FS_Subset, FS_CardinalityType

LEMMA CountsSame ==
  ASSUME Accounted, UNCHANGED <<cb, receiver, channel, counts, aux.accepted, aux.lost>>,
         fault => fault'
  PROVE  Accounted'
<1>1. Inflight' = Inflight  BY DEF Inflight
<1> QED  BY <1>1 DEF Accounted, AdmissionsAccounted, QueueAccounted, InHands

LEMMA AccountedCallback ==
  ASSUME TypeInv, Queued, Accounted, NEW c \in Callbacks,
         CallbackStep(c) \/ \E obs \in Observations \cup {None} : Arrive(c, obs)
  PROVE  Accounted'
<1>t. cb \in [Callbacks -> CallbackT] /\ counts \in CountsT /\ aux \in AuxT  BY DEF TypeInv
<1>f. IsFiniteSet(Inflight) /\ Cardinality(Inflight) \in Nat  BY InflightFinite
<1>l. Len(channel.queue) \in Nat /\ InHands \in Nat  BY ChannelShape DEF InHands
<1>a. AdmissionsAccounted /\ QueueAccounted  BY DEF Accounted
<1> USE DEF CallbackFrame
<1>j. ASSUME c \notin Inflight, Inflight' = Inflight \cup {c}
      PROVE  Cardinality(Inflight') = Cardinality(Inflight) + 1
  BY <1>f, <1>j, FS_AddElement
<1>k. ASSUME c \in Inflight, Inflight' = Inflight \ {c}
      PROVE  Cardinality(Inflight') = Cardinality(Inflight) - 1
  BY <1>f, <1>k, FS_RemoveElement
<1>1. ASSUME NEW obs \in Observations \cup {None}, Arrive(c, obs) PROVE Accounted'
  <2>1. Inflight' = Inflight  BY <1>1, <1>t DEF Arrive, BeginDelivery, Inflight, CallbackT
  <2>2. UNCHANGED <<receiver, channel, counts, fault, aux.accepted, aux.lost>>
    BY <1>1, <1>t DEF Arrive, AuxT
  <2> QED  BY <1>a, <2>1, <2>2 DEF Accounted, AdmissionsAccounted, QueueAccounted, InHands
<1>2. CASE ResumeArrival(c) \/ LeaveDelivery(c)
  <2>1. Inflight' = Inflight
    BY <1>2, <1>t DEF ResumeArrival, LeaveDelivery, BeginDelivery, Goes, Outside, Inflight, CallbackT
  <2>2. UNCHANGED <<receiver, channel, counts, fault, aux>>  BY <1>2 DEF ResumeArrival, LeaveDelivery
  <2> QED  BY <1>a, <2>1, <2>2 DEF Accounted, AdmissionsAccounted, QueueAccounted, InHands
<1>3. CASE AdmitObservation(c)
  <2>1. UNCHANGED <<receiver, channel, counts, fault>>  BY <1>3 DEF AdmitObservation
  <2>2. CASE aux' = aux
    <3>1. cb' = [cb EXCEPT ![c] = [Outside EXCEPT !.pc = "leaving"]] \/ cb'[c].pc = "admitted"
      BY <1>3, <1>t DEF AdmitObservation, Leaves, CallbackT
    <3>2. aux.accepted # aux.accepted + 1  BY <1>t DEF AuxT
    <3>3. aux' # [aux EXCEPT !.accepted = @ + 1]  BY <1>t, <2>2, <3>2 DEF AuxT
    <3>4. Inflight' = Inflight
      BY <1>3, <1>t, <3>3 DEF AdmitObservation, Leaves, Outside, Inflight, CallbackT
    <3> QED  BY <1>a, <2>1, <2>2, <3>4 DEF Accounted, AdmissionsAccounted, QueueAccounted, InHands
  <2>3. CASE aux' # aux
    <3>1. /\ aux' = [aux EXCEPT !.accepted = @ + 1] /\ cb[c].pc = "inside"
          /\ cb' = [cb EXCEPT ![c].pc = "admitted", ![c].epoch = aux.cleared]
      BY <1>3, <2>3 DEF AdmitObservation
    <3>2. Inflight' = Inflight \cup {c} /\ c \notin Inflight
      BY <1>t, <3>1 DEF Inflight, CallbackT
    <3>3. aux'.accepted = aux.accepted + 1 /\ aux'.lost = aux.lost  BY <1>t, <3>1 DEF AuxT
    <3>4. aux.accepted \in Nat /\ aux.lost \in Nat  BY <1>t DEF AuxT
    <3>5. counts.enqueued \in Nat /\ counts.full \in Nat /\ counts.closed \in Nat
      BY <1>t DEF CountsT
    <3>6. AdmissionsAccounted'
      BY <1>a, <1>f, <1>j, <2>1, <3>2, <3>3, <3>4, <3>5 DEF AdmissionsAccounted
    <3> QED  BY <1>a, <2>1, <3>6 DEF Accounted, QueueAccounted, InHands
  <2> QED  BY <2>2, <2>3
<1>4. CASE StampObservation(c)
  <2>1. UNCHANGED <<receiver, channel, counts, fault>> /\ cb[c].pc = "admitted"
    BY <1>4 DEF StampObservation
  <2>2. CASE ~fault
    <3>1. aux' = aux /\ cb' = [cb EXCEPT ![c].pc = "enqueuing", ![c].stamp = generation]
      BY <1>4, <2>2 DEF StampObservation
    <3>2. Inflight' = Inflight  BY <1>t, <2>1, <3>1 DEF Inflight, CallbackT
    <3> QED  BY <1>a, <2>1, <3>1, <3>2 DEF Accounted, AdmissionsAccounted, QueueAccounted, InHands
  <2>3. CASE fault
    <3>1. /\ aux' = [aux EXCEPT !.lost = @ + 1]
          /\ cb' = [cb EXCEPT ![c] = [Outside EXCEPT !.pc = "leaving"]]
      BY <1>4, <2>3 DEF StampObservation, Leaves
    <3>2. Inflight' = Inflight \ {c} /\ c \in Inflight
      BY <1>t, <2>1, <3>1 DEF Inflight, CallbackT, Outside
    <3>3. aux'.accepted = aux.accepted /\ aux'.lost = aux.lost + 1  BY <1>t, <3>1 DEF AuxT
    <3>4. aux.accepted \in Nat /\ aux.lost \in Nat  BY <1>t DEF AuxT
    <3>5. counts.enqueued \in Nat /\ counts.full \in Nat /\ counts.closed \in Nat
      BY <1>t DEF CountsT
    <3>6. AdmissionsAccounted'
      BY <1>a, <1>f, <1>k, <2>1, <2>3, <3>2, <3>3, <3>4, <3>5 DEF AdmissionsAccounted
    <3> QED  BY <1>a, <2>1, <3>6 DEF Accounted, QueueAccounted, InHands
  <2> QED  BY <2>2, <2>3
<1>5. CASE Enqueue(c)
  <2>1. /\ UNCHANGED <<receiver, aux, fault>> /\ cb[c].pc = "enqueuing"
        /\ cb' = [cb EXCEPT ![c] = [Outside EXCEPT !.pc = "leaving"]]
    BY <1>5 DEF Enqueue, Leaves
  <2>2. Inflight' = Inflight \ {c} /\ c \in Inflight
    BY <1>t, <2>1 DEF Inflight, CallbackT, Outside
  <2>3. /\ counts.enqueued \in Nat /\ counts.full \in Nat /\ counts.closed \in Nat
        /\ counts.delivered \in Nat /\ counts.stale \in Nat /\ counts.abandoned \in Nat
    BY <1>t DEF CountsT
  <2>4. aux.accepted \in Nat /\ aux.lost \in Nat  BY <1>t DEF AuxT
  <2>5. CASE /\ counts' = [counts EXCEPT !.enqueued = @ + 1]
             /\ channel'.queue = Append(channel.queue, Entry(c))
    <3>1. /\ counts'.enqueued = counts.enqueued + 1
          /\ UNCHANGED <<counts.full, counts.closed, counts.delivered, counts.stale, counts.abandoned>>
      BY <1>t, <2>5 DEF CountsT
    <3>2. Len(channel'.queue) = Len(channel.queue) + 1
      BY <2>1, <2>5, EntryType, ChannelShape
    <3>3. AdmissionsAccounted'
      BY <1>a, <1>f, <1>k, <2>1, <2>2, <2>3, <2>4, <3>1 DEF AdmissionsAccounted
    <3>4. InHands' = InHands  BY <2>1 DEF InHands
    <3>5. QueueAccounted'  BY <1>a, <1>l, <2>3, <3>1, <3>2, <3>4, SMTT(60) DEF QueueAccounted
    <3> QED  BY <3>3, <3>5 DEF Accounted
  <2>6. CASE /\ UNCHANGED channel
             /\ \/ counts' = [counts EXCEPT !.closed = @ + 1]
                \/ counts' = [counts EXCEPT !.full = @ + 1]
    <3>1. /\ UNCHANGED <<counts.enqueued, counts.delivered, counts.stale, counts.abandoned>>
          /\ \/ counts'.closed = counts.closed + 1 /\ counts'.full = counts.full
             \/ counts'.full = counts.full + 1 /\ counts'.closed = counts.closed
      BY <1>t, <2>6 DEF CountsT
    <3>3. AdmissionsAccounted'
      BY <1>a, <1>f, <1>k, <2>1, <2>2, <2>3, <2>4, <3>1 DEF AdmissionsAccounted
    <3>4. QueueAccounted'  BY <1>a, <2>1, <2>6, <3>1 DEF QueueAccounted, InHands
    <3> QED  BY <3>3, <3>4 DEF Accounted
  <2> QED  BY <1>5, <2>5, <2>6, EnqueueCases
<1> QED  BY <1>1, <1>2, <1>3, <1>4, <1>5 DEF CallbackStep

LEMMA AccountedReceiver ==
  ASSUME TypeInv, Queued, Accounted,
         (\E waits \in BOOLEAN : StartRecv(waits)) \/ ReceiverStep
         \/ CancelRecv \/ CloseReceiver \/ StartDrop
  PROVE  Accounted'
<1>t. counts \in CountsT /\ receiver \in ReceiverT /\ HandT  BY DEF TypeInv
<1>n. /\ counts.enqueued \in Nat /\ counts.full \in Nat /\ counts.closed \in Nat
      /\ counts.delivered \in Nat /\ counts.stale \in Nat /\ counts.abandoned \in Nat
  BY <1>t DEF CountsT
<1>l. Len(channel.queue) \in Nat  BY ChannelShape
<1>a. AdmissionsAccounted /\ QueueAccounted  BY DEF Accounted
<1> USE DEF ReceiverFrame
<1>1. UNCHANGED <<cb, fault, aux.accepted, aux.lost>> /\ Inflight' = Inflight
  <2>1. UNCHANGED <<cb, fault>>
    BY DEF ReceiverStep, StartRecv, ResumeRecv, Dequeue, ClearMirror, BeginFinish, FinishDequeue,
       DropReceiver, CancelRecv, CloseReceiver, StartDrop
  <2>2. aux \in AuxT  BY DEF TypeInv
  <2>3. aux' = aux \/ \E k, n : aux' = [aux EXCEPT !.delivered[k] = n]
    BY DEF ReceiverStep, StartRecv, ResumeRecv, Dequeue, ClearMirror, BeginFinish, FinishDequeue,
       DropReceiver, CancelRecv, CloseReceiver, StartDrop
  <2>4. UNCHANGED <<aux.accepted, aux.lost>>  BY <2>2, <2>3 DEF AuxT
  <2> QED  BY <2>1, <2>4 DEF Inflight
<1>s. ASSUME UNCHANGED <<counts.enqueued, counts.full, counts.closed>>, QueueAccounted'
      PROVE  Accounted'
  BY <1>a, <1>1, <1>s DEF Accounted, AdmissionsAccounted
<1>z. ASSUME UNCHANGED counts, Len(channel'.queue) = Len(channel.queue),
             receiver'.hand = receiver.hand
      PROVE  Accounted'
  BY <1>s, <1>a, <1>z DEF QueueAccounted, InHands
(* The queue is drained into the abandoned ones.                            *)
<1>d. ASSUME NEW next, DrainChannel(next) PROVE Accounted'
  <2>1. /\ counts' = [counts EXCEPT !.abandoned = @ + Len(channel.queue)]
        /\ channel'.queue = <<>> /\ receiver' = [receiver EXCEPT !.pc = next]
    BY <1>d DEF DrainChannel, Stands
  <2>2. /\ counts'.abandoned = counts.abandoned + Len(channel.queue)
        /\ UNCHANGED <<counts.enqueued, counts.full, counts.closed, counts.delivered, counts.stale>>
    BY <1>t, <2>1 DEF CountsT
  <2>3. Len(channel'.queue) = 0  BY <2>1
  <2>4. receiver'.hand = receiver.hand  BY <1>t, <2>1 DEF ReceiverT
  <2>5. InHands' = InHands /\ InHands \in Nat  BY <2>4 DEF InHands
  <2>6. QueueAccounted'  BY <1>a, <1>n, <1>l, <2>2, <2>3, <2>5 DEF QueueAccounted
  <2> QED  BY <1>s, <2>2, <2>6
<1>2. ASSUME NEW waits \in BOOLEAN, Dequeue(waits), receiver.pc \notin TakenPcs PROVE Accounted'
  <2>h. receiver.hand = None  BY <1>2, <1>t DEF HandT
  <2>1. CASE DrainChannel("quarantined")  BY <1>d, <2>1
  <2>2. CASE ~fault /\ channel.queue # <<>>
    <3>1. /\ channel' = [channel EXCEPT !.queue = Tail(channel.queue)] /\ counts' = counts
          /\ receiver' = [pc |-> "dequeued", waits |-> waits, hand |-> Head(channel.queue)]
      BY <1>2, <2>2 DEF Dequeue
    <3>2. channel'.queue = Tail(channel.queue)  BY <3>1, ChannelShape
    <3>3. Len(channel'.queue) = Len(channel.queue) - 1  BY <2>2, <3>2, ChannelShape
    <3>4. Head(channel.queue) \in Entries  BY <2>2, ChannelShape
    <3>5. InHands' = 1 /\ InHands = 0  BY <2>h, <3>1, <3>4, EntryApart DEF InHands
    <3>6. counts' = counts  BY <3>1
    <3>7. QueueAccounted'
      <4>1. counts.enqueued = counts.delivered + counts.stale + counts.abandoned
                              + Len(channel.queue) + 0
        BY <1>a, <3>5, Zenon DEF QueueAccounted
      <4>2. counts.enqueued = counts.delivered + counts.stale + counts.abandoned
                              + (Len(channel.queue) - 1) + 1
        BY <1>n, <1>l, <4>1, SMTT(30)
      <4> QED  BY <3>3, <3>5, <3>6, <4>2, Zenon DEF QueueAccounted
    <3> QED  BY <1>s, <3>1, <3>7
  <2>3. CASE ~fault /\ channel.queue = <<>>
    <3>1. UNCHANGED <<channel, counts>> /\ receiver'.hand = None
      BY <1>2, <2>3 DEF Dequeue, Idle, EmptyHanded
    <3> QED  BY <1>z, <2>h, <3>1
  <2> QED  BY <1>2, <2>1, <2>2, <2>3 DEF Dequeue
<1>3. CASE (\E waits \in BOOLEAN : StartRecv(waits)) \/ ResumeRecv
  BY <1>2, <1>3, <1>t DEF StartRecv, ResumeRecv, ReceiverT, TakenPcs
<1>4. CASE ClearMirror \/ CancelRecv
  <2>1. UNCHANGED <<channel, counts>> /\ receiver'.hand = None /\ receiver.hand = None
    BY <1>4, <1>t DEF ClearMirror, CancelRecv, Idle, EmptyHanded, HandT, TakenPcs
  <2> QED  BY <1>z, <2>1
<1>5. CASE BeginFinish
  <2>1. CASE receiver.pc = "dequeued" /\ fault
    <3>1. /\ receiver' = EmptyHanded("polling", receiver.waits) /\ UNCHANGED channel
          /\ counts' = [counts EXCEPT !.abandoned = @ + InHand]
      BY <1>5, <2>1 DEF BeginFinish
    <3>2. /\ counts'.abandoned = counts.abandoned + 1
          /\ UNCHANGED <<counts.enqueued, counts.full, counts.closed, counts.delivered, counts.stale>>
      BY <1>t, <3>1 DEF CountsT, InHand
    <3>3. receiver.hand # None  BY <1>t, <2>1 DEF HandT, TakenPcs
    <3>4. InHands' = 0 /\ InHands = 1  BY <3>1, <3>3 DEF InHands, EmptyHanded
    <3>5. channel'.queue = channel.queue  BY <3>1
    <3>6. QueueAccounted'
      <4>1. counts.enqueued = counts.delivered + counts.stale + counts.abandoned
                              + Len(channel.queue) + 1
        BY <1>a, <3>4, Zenon DEF QueueAccounted
      <4>2. counts.enqueued = counts.delivered + counts.stale + (counts.abandoned + 1)
                              + Len(channel.queue) + 0
        BY <1>n, <1>l, <4>1, SMTT(30)
      <4> QED  BY <3>2, <3>4, <3>5, <4>2, Zenon DEF QueueAccounted
    <3> QED  BY <1>s, <3>2, <3>6
  <2>2. CASE ~(receiver.pc = "dequeued" /\ fault)
    <3>1. /\ UNCHANGED <<channel, counts>>
          /\ \E pc : receiver' = [receiver EXCEPT !.pc = pc]
      BY <1>5, <2>2 DEF BeginFinish, BeginDelivery, Stands
    <3>2. receiver'.hand = receiver.hand  BY <1>t, <3>1 DEF ReceiverT
    <3> QED  BY <1>z, <3>1, <3>2
  <2> QED  BY <2>1, <2>2
<1>6. CASE FinishDequeue
  <2>1. /\ receiver'.hand = None /\ UNCHANGED channel
        /\ \/ counts' = [counts EXCEPT !.delivered = @ + 1]
           \/ counts' = [counts EXCEPT !.stale = @ + 1]
    BY <1>6 DEF FinishDequeue, Idle, EmptyHanded
  <2>2. receiver.hand # None  BY <1>6, <1>t DEF FinishDequeue, HandT, TakenPcs
  <2>3. InHands' = 0 /\ InHands = 1  BY <2>1, <2>2 DEF InHands
  <2>4. /\ UNCHANGED <<counts.enqueued, counts.full, counts.closed, counts.abandoned>>
        /\ \/ counts'.delivered = counts.delivered + 1 /\ counts'.stale = counts.stale
           \/ counts'.stale = counts.stale + 1 /\ counts'.delivered = counts.delivered
    BY <1>t, <2>1 DEF CountsT
  <2>5. channel'.queue = channel.queue  BY <2>1
  <2>6. QueueAccounted'
    <3>1. counts.enqueued = counts.delivered + counts.stale + counts.abandoned
                            + Len(channel.queue) + 1
      BY <1>a, <2>3, Zenon DEF QueueAccounted
    <3>2. /\ counts.enqueued = (counts.delivered + 1) + counts.stale + counts.abandoned
                               + Len(channel.queue) + 0
          /\ counts.enqueued = counts.delivered + (counts.stale + 1) + counts.abandoned
                               + Len(channel.queue) + 0
      BY <1>n, <1>l, <3>1, SMTT(30)
    <3> QED  BY <2>3, <2>4, <2>5, <3>2, Zenon DEF QueueAccounted
  <2> QED  BY <1>s, <2>4, <2>6
<1>7. CASE CloseReceiver
  <2>1. channel'.queue = channel.queue /\ UNCHANGED <<receiver, counts>>
    BY <1>7, ChannelShape DEF CloseReceiver
  <2> QED  BY <1>z, <2>1
<1>8. CASE DropReceiver \/ StartDrop
  <2>1. CASE DropReceiver /\ receiver.pc = "draining"  BY <1>d, <2>1 DEF DropReceiver
  <2>2. CASE ~(DropReceiver /\ receiver.pc = "draining")
    <3>1. /\ UNCHANGED <<channel, counts>>
          /\ receiver' = receiver \/ \E pc : receiver' = [receiver EXCEPT !.pc = pc]
      BY <1>8, <2>2 DEF DropReceiver, StartDrop, BeginDelivery, Stands
    <3>2. receiver'.hand = receiver.hand  BY <1>t, <3>1 DEF ReceiverT
    <3> QED  BY <1>z, <3>1, <3>2
  <2> QED  BY <2>1, <2>2
<1> QED  BY <1>3, <1>4, <1>5, <1>6, <1>7, <1>8 DEF ReceiverStep

LEMMA AccountedNext == TypeInv /\ Queued /\ Accounted /\ [Next]_vars => Accounted'
<1> SUFFICES ASSUME TypeInv, Queued, Accounted, [Next]_vars PROVE Accounted'  OBVIOUS
<1>1. ASSUME NEW o \in Operators, RequestReset(o) \/ BeginMeasure(o) \/ OperatorStep(o)
      PROVE  Accounted'
  <2>1. UNCHANGED <<channel, cb, receiver, counts, fault>>
    BY <1>1 DEF RequestReset, BeginMeasure, OperatorStep, AcquireReset, AdvanceGeneration,
       ClearSequences, ReleaseReset, ResumeMeasure, EndMeasure, OperatorFrame
  <2>2. aux \in AuxT  BY DEF TypeInv
  <2>3. \/ aux' = aux \/ aux' = [aux EXCEPT !.requests = @ + 1]
        \/ aux' = [aux EXCEPT !.cleared = @ + 1, !.delivered = [k \in Streams |-> -1]]
    BY <1>1 DEF RequestReset, BeginMeasure, OperatorStep, AcquireReset, AdvanceGeneration,
       ClearSequences, ReleaseReset, ResumeMeasure, EndMeasure, MayRequest
  <2>4. UNCHANGED <<aux.accepted, aux.lost>>  BY <2>2, <2>3 DEF AuxT
  <2> QED  BY <2>1, <2>4, CountsSame
<1>2. CASE LatchFault \/ UNCHANGED vars  BY <1>2, CountsSame DEF LatchFault, vars
<1> QED  BY <1>1, <1>2, AccountedCallback, AccountedReceiver DEF Next

(* Every accepted observation is enqueued, refused or on its way to the     *)
(* queue unless a fault lost it, and every enqueued one is delivered, stale,*)
(* abandoned, in the queue or in the receiver's hand.                       *)
THEOREM HandoffIsAccounted == Spec => []HandoffAccounted
<1>1. Init => Accounted
  <2> SUFFICES ASSUME Init PROVE Accounted  OBVIOUS
  <2>1. Inflight = {}  BY DEF Init, Inflight, Outside
  <2>2. Cardinality(Inflight) = 0  BY <2>1, FS_EmptySet
  <2>3. AdmissionsAccounted  BY <2>2 DEF Init, AdmissionsAccounted
  <2>4. InHands = 0 /\ Len(channel.queue) = 0  BY DEF Init, InHands, Idle, EmptyHanded
  <2>5. QueueAccounted  BY <2>4 DEF Init, QueueAccounted
  <2> QED  BY <2>3, <2>5 DEF Accounted
<1>2. Accounted => HandoffAccounted
  BY DEF Accounted, AdmissionsAccounted, QueueAccounted, Inflight, InHands, HandoffAccounted
<1> QED  BY <1>1, <1>2, AccountedNext, TypeCorrect, PTL DEF Spec

-----------------------------------------------------------------------------
(* The epochs.                                                              *)

LEMMA InflightHolds ==
  ASSUME Holding, NEW c \in Inflight
  PROVE  c \in Callbacks /\ boundary.delivering = c /\ boundary.resetting = None
  BY ReceiverApart DEF Holding, Guarded, CallbackHolds, Inflight, InsidePcs

LEMMA EpochsCallback ==
  ASSUME TypeInv, Holding, Epochs, NEW c \in Callbacks,
         CallbackStep(c) \/ \E obs \in Observations \cup {None} : Arrive(c, obs)
  PROVE  Epochs'
<1>t. cb \in [Callbacks -> CallbackT] /\ aux \in AuxT  BY DEF TypeInv
<1> USE DEF CallbackFrame
<1>g. UNCHANGED <<generation, op, fault>>
  BY DEF CallbackStep, Arrive, ResumeArrival, AdmitObservation, StampObservation, Enqueue,
     LeaveDelivery
<1>c. aux'.cleared = aux.cleared
  <2>1. aux' = aux \/ \E n : \/ aux' = [aux EXCEPT !.accepted = n]
                           \/ aux' = [aux EXCEPT !.payloads = n]
                           \/ aux' = [aux EXCEPT !.lost = n]
    BY DEF CallbackStep, Arrive, ResumeArrival, AdmitObservation, StampObservation, Enqueue,
       LeaveDelivery
  <2> QED  BY <1>t, <2>1 DEF AuxT
<1>d. \A d \in Callbacks \ {c} : cb'[d] = cb[d]  BY CallbackMoves
<1> SUFFICES ASSUME c \in Inflight'
             PROVE  /\ cb'[c].epoch = aux.cleared
                    /\ cb'[c].pc = "enqueuing" => cb'[c].stamp = aux.cleared
  BY <1>g, <1>c, <1>d DEF Epochs, Inflight
<1>p. cb'[c].pc \in {"admitted", "enqueuing"}  BY DEF Inflight
<1>1. CASE AdmitObservation(c)
  BY <1>1, <1>t, <1>p DEF AdmitObservation, Leaves, Outside, CallbackT
<1>2. CASE StampObservation(c)
  <2>1. /\ cb' = [cb EXCEPT ![c].pc = "enqueuing", ![c].stamp = generation]
        /\ cb[c].pc = "admitted" /\ ~fault
    BY <1>2, <1>t, <1>p DEF StampObservation, Leaves, Outside, CallbackT
  <2>2. c \in Inflight  BY <2>1 DEF Inflight
  <2>3. boundary.resetting = None  BY <2>2, InflightHolds
  <2>4. \A o \in Operators : op[o] # "clearing"
    BY <2>3, ReceiverApart DEF Holding, ResetHolds, ResetPcs
  <2>5. generation = aux.cleared  BY <2>1, <2>4 DEF Epochs
  <2> QED  BY <1>t, <2>1, <2>2, <2>5 DEF Epochs, CallbackT
<1>3. CASE ~AdmitObservation(c) /\ ~StampObservation(c)
  <2>1. cb'[c].pc \notin {"admitted", "enqueuing"} \/ cb' = cb
    BY <1>3, <1>t DEF CallbackStep, Arrive, ResumeArrival, Enqueue, LeaveDelivery, BeginDelivery,
       Goes, Leaves, Outside, CallbackT
  <2> QED  BY <1>p, <2>1 DEF Epochs, Inflight
<1> QED  BY <1>1, <1>2, <1>3

LEMMA EpochsOperator ==
  ASSUME TypeInv, Holding, Epochs, NEW o \in Operators,
         RequestReset(o) \/ BeginMeasure(o) \/ OperatorStep(o)
  PROVE  Epochs'
<1>t. op \in [Operators -> OperatorT] /\ aux \in AuxT /\ aux.cleared \in Nat /\ generation \in Nat
  BY DEF TypeInv, AuxT
<1>u. UNCHANGED <<cb, fault>> /\ Inflight' = Inflight
  BY DEF RequestReset, BeginMeasure, OperatorStep, AcquireReset, AdvanceGeneration, Inflight,
     ClearSequences, ReleaseReset, ResumeMeasure, EndMeasure, OperatorFrame
<1>d. \A p \in Operators \ {o} : op'[p] = op[p]
  BY <1>t DEF RequestReset, BeginMeasure, OperatorStep, AcquireReset, AdvanceGeneration, Does,
     ClearSequences, ReleaseReset, ResumeMeasure, EndMeasure, BeginDelivery
(* Only one reset is under way, and no delivery beside it.                  *)
<1>r. ASSUME op[o] \in {"advancing", "clearing"}
      PROVE  Inflight = {} /\ \A p \in Operators \ {o} : op[p] # "clearing"
  <2>1. boundary.resetting = o /\ o # None  BY <1>r, ReceiverApart DEF Holding, ResetHolds, ResetPcs
  <2>2. Inflight = {}  BY <2>1, InflightHolds
  <2> QED  BY <2>1, <2>2 DEF Holding, ResetHolds, ResetPcs
<1>1. CASE AdvanceGeneration(o)
  <2>1. CASE fault
    BY <1>1, <1>t, <1>u, <1>d, <2>1 DEF AdvanceGeneration, Does, Epochs
  <2>2. CASE ~fault
    <3>1. /\ op'[o] = "clearing" /\ op[o] = "advancing" /\ generation' = generation + 1 /\ aux' = aux
      BY <1>1, <1>t, <2>2 DEF AdvanceGeneration, Does
    <3>2. generation = aux.cleared /\ Inflight = {}  BY <1>r, <2>2, <3>1 DEF Epochs
    <3> QED  BY <1>t, <1>u, <1>d, <1>r, <3>1, <3>2 DEF Epochs
  <2> QED  BY <2>1, <2>2
<1>2. CASE ClearSequences(o)
  <2>0. op[o] = "clearing" /\ op'[o] = "releasing" /\ generation' = generation
    BY <1>2, <1>t DEF ClearSequences, Does
  <2>1. CASE fault
    <3>1. aux' = aux  BY <1>2, <2>1 DEF ClearSequences
    <3> QED  BY <1>u, <1>d, <2>0, <2>1, <3>1 DEF Epochs
  <2>2. CASE ~fault
    <3>1. aux'.cleared = aux.cleared + 1  BY <1>2, <1>t, <2>2 DEF ClearSequences, AuxT
    <3>2. generation' = aux'.cleared /\ Inflight' = {}
      BY <1>r, <1>u, <2>0, <3>1 DEF Epochs
    <3>3. \A p \in Operators : op'[p] # "clearing"  BY <1>r, <1>d, <2>0
    <3> QED  BY <3>2, <3>3 DEF Epochs
  <2> QED  BY <2>1, <2>2
<1>3. CASE ~AdvanceGeneration(o) /\ ~ClearSequences(o)
  <2>1. generation' = generation /\ aux'.cleared = aux.cleared
    BY <1>3, <1>t DEF RequestReset, BeginMeasure, OperatorStep, AcquireReset, AuxT, MayRequest,
       ReleaseReset, ResumeMeasure, EndMeasure
  <2>2. op[o] # "clearing" /\ op'[o] # "clearing"
    BY <1>3, <1>t DEF RequestReset, BeginMeasure, OperatorStep, AcquireReset, MayRequest, Does,
       ReleaseReset, ResumeMeasure, EndMeasure, BeginDelivery
  <2> QED  BY <1>u, <1>d, <2>1, <2>2 DEF Epochs
<1> QED  BY <1>1, <1>2, <1>3

LEMMA EpochsNext == TypeInv /\ Holding /\ Epochs /\ [Next]_vars => Epochs'
<1> SUFFICES ASSUME TypeInv, Holding, Epochs, [Next]_vars PROVE Epochs'  OBVIOUS
<1>1. ASSUME UNCHANGED <<generation, op, cb, aux.cleared>>, fault => fault' PROVE Epochs'
  BY <1>1 DEF Epochs, Inflight
<1>2. CASE LatchFault \/ UNCHANGED vars  BY <1>1, <1>2 DEF LatchFault, vars
<1>3. CASE (\E waits \in BOOLEAN : StartRecv(waits)) \/ ReceiverStep
           \/ CancelRecv \/ CloseReceiver \/ StartDrop
  <2>1. UNCHANGED <<generation, op, cb, fault>>
    BY <1>3 DEF ReceiverStep, StartRecv, ResumeRecv, Dequeue, ClearMirror, BeginFinish,
       FinishDequeue, DropReceiver, CancelRecv, CloseReceiver, StartDrop, ReceiverFrame
  <2>2. aux \in AuxT  BY DEF TypeInv
  <2>3. aux' = aux \/ \E k, n : aux' = [aux EXCEPT !.delivered[k] = n]
    BY <1>3 DEF ReceiverStep, StartRecv, ResumeRecv, Dequeue, ClearMirror, BeginFinish,
       FinishDequeue, DropReceiver, CancelRecv, CloseReceiver, StartDrop
  <2>4. UNCHANGED aux.cleared  BY <2>2, <2>3 DEF AuxT
  <2> QED  BY <1>1, <2>1, <2>4
<1> QED  BY <1>2, <1>3, EpochsCallback, EpochsOperator DEF Next

-----------------------------------------------------------------------------
(* The order of the observations of one epoch.                              *)

(* Nothing new came, and something may have gone.                           *)
LEMMA OrderKept ==
  ASSUME InOrder, channel'.queue = channel.queue, receiver'.hand \in {receiver.hand, None},
         Inflight' \subseteq Inflight, \A c \in Inflight' : cb'[c].obs = cb[c].obs,
         UNCHANGED <<sequences, aux.cleared, aux.delivered>>
  PROVE  InOrder'
<1>1. Places' = Places  BY DEF Places
<1> QED  BY <1>1 DEF InOrder, Judged, Standing, Before, Earlier

LEMMA QueueTypes ==
  ASSUME TypeInv, Queued
  PROVE  /\ \A i \in Places : channel.queue[i] \in Entries
         /\ \A e \in Entries : /\ e.obs.stream \in Streams /\ e.obs.seq \in Int
                             /\ e.generation \in Int /\ e.epoch \in Int
         /\ receiver.hand # None => receiver.hand \in Entries
         /\ aux.cleared \in Nat /\ aux.delivered \in [Streams -> Int]
         /\ \A k \in DOMAIN sequences : k \in Streams /\ sequences[k] \in Int
<1>1. \A i \in Places : channel.queue[i] \in Entries  BY ChannelShape DEF Places
<1>2. \A e \in Entries : /\ e.obs.stream \in Streams /\ e.obs.seq \in Int
                       /\ e.generation \in Int /\ e.epoch \in Int
  BY DEF Entries, Observations
<1>3. receiver.hand # None => receiver.hand \in Entries  BY DEF TypeInv, ReceiverT
<1>4. aux.cleared \in Nat /\ aux.delivered \in [Streams -> Int]  BY DEF TypeInv, AuxT
<1>5. \A k \in DOMAIN sequences : k \in Streams /\ sequences[k] \in Int
  <2>1. SequencesT  BY DEF TypeInv
  <2>2. \A k \in DOMAIN sequences : sequences[k] \in 0 .. MaxSequence  BY <2>1 DEF SequencesT
  <2> QED  BY <2>1, <2>2 DEF SequencesT
<1> QED  BY <1>1, <1>2, <1>3, <1>4, <1>5

LEMMA OrderAdmit ==
  ASSUME TypeInv, Queued, Holding, InOrder, NEW c \in Callbacks, AdmitObservation(c), cb'[c].pc = "admitted"
  PROVE  InOrder'
<1> DEFINE obs == cb[c].obs
<1>t. cb \in [Callbacks -> CallbackT] /\ aux \in AuxT  BY DEF TypeInv
<1>1. /\ cb[c].pc = "inside" /\ obs \in Observations /\ Acceptable(obs)
      /\ sequences' = Advanced(obs) /\ aux' = [aux EXCEPT !.accepted = @ + 1]
      /\ UNCHANGED <<channel, receiver>>
      /\ cb' = [cb EXCEPT ![c].pc = "admitted", ![c].epoch = aux.cleared]
  BY <1>t DEF AdmitObservation, CallbackFrame, Leaves, Outside, CallbackT
<1>2. aux'.cleared = aux.cleared /\ aux'.delivered = aux.delivered  BY <1>t, <1>1 DEF AuxT
<1>3. Inflight' = {c} /\ cb'[c].obs = obs /\ obs' = obs
  <2>1. cb'[c].obs = obs  BY <1>t, <1>1 DEF CallbackT
  <2>2. c \in Inflight'  BY <1>t, <1>1 DEF Inflight, CallbackT
  <2>3. boundary.delivering = c  BY <1>1 DEF Holding, CallbackHolds, InsidePcs
  <2>4. \A d \in Inflight' : d = c
    <3> SUFFICES ASSUME NEW d \in Inflight', d # c PROVE FALSE  OBVIOUS
    <3>1. d \in Inflight  BY <1>t, <1>1 DEF Inflight
    <3> QED  BY <2>3, <3>1, InflightHolds
  <2> QED  BY <2>1, <2>2, <2>4
<1>4. obs.stream \in Streams /\ obs.seq \in Nat
  <2>1. MaxSequence \in Nat  BY TapAssumption
  <2> QED  BY <1>1, <2>1 DEF Observations
<1>5. /\ DOMAIN sequences' = DOMAIN sequences \cup {obs.stream}
      /\ sequences'[obs.stream] = obs.seq
      /\ \A k \in DOMAIN sequences : k # obs.stream => sequences'[k] = sequences[k]
  BY <1>1 DEF Advanced
<1>6. obs.stream \in DOMAIN sequences => sequences[obs.stream] < obs.seq
  <2>1. obs.stream \in DOMAIN sequences => sequences[obs.stream] \in Int  BY QueueTypes
  <2> QED  BY <1>1, <1>4, <2>1 DEF Acceptable
<1> HIDE DEF obs
<1>p. Places' = Places /\ channel'.queue = channel.queue /\ receiver'.hand = receiver.hand
  BY <1>1 DEF Places
<1>7. ASSUME NEW e \in Entries, Standing(e)
      PROVE  /\ e.epoch = aux.cleared =>
                  /\ e.obs.stream \in DOMAIN sequences'
                  /\ aux.delivered[e.obs.stream] < e.obs.seq
                  /\ e.obs.seq <= sequences'[e.obs.stream]
             /\ e.epoch = aux.cleared /\ e.obs.stream = obs.stream => e.obs.seq < obs.seq
  <2>1. e.obs.seq \in Int /\ \A k \in DOMAIN sequences : sequences[k] \in Int  BY QueueTypes
  <2> SUFFICES ASSUME e.epoch = aux.cleared
               PROVE  /\ e.obs.stream \in DOMAIN sequences' /\ e.obs.seq <= sequences'[e.obs.stream]
                      /\ e.obs.stream = obs.stream => e.obs.seq < obs.seq
    BY <1>7 DEF Standing
  <2>2. e.obs.stream \in DOMAIN sequences /\ e.obs.seq <= sequences[e.obs.stream]
    BY <1>7 DEF Standing
  <2> QED  BY <1>4, <1>5, <1>6, <2>1, <2>2
<1>8. aux.delivered[obs.stream] < obs.seq
  <2>1. aux.delivered[obs.stream] \in Int  BY <1>4, QueueTypes
  <2>2. obs.stream \in DOMAIN sequences => sequences[obs.stream] \in Int  BY QueueTypes
  <2> QED  BY <1>4, <1>6, <2>1, <2>2 DEF InOrder
<1>9. \A i \in Places' : /\ Judged(channel.queue[i])' /\ Standing(channel.queue[i])'
                        /\ Earlier(channel.queue[i], obs)'
  <2> SUFFICES ASSUME NEW i \in Places
               PROVE  /\ Judged(channel.queue[i])' /\ Standing(channel.queue[i])'
                      /\ Earlier(channel.queue[i], obs)'
    BY <1>p
  <2>1. channel.queue[i] \in Entries /\ Judged(channel.queue[i]) /\ Standing(channel.queue[i])
    BY QueueTypes DEF InOrder
  <2>2. channel'.queue[i] = channel.queue[i]  BY <1>p
  <2>3. Judged(channel.queue[i])'  BY <1>2, <2>1, <2>2 DEF Judged
  <2>4. Standing(channel.queue[i])'  BY <1>2, <1>7, <2>1, <2>2 DEF Standing
  <2>5. Earlier(channel.queue[i], obs)'
    BY <1>2, <1>3, <1>7, <2>1, <2>2 DEF Earlier
  <2> QED  BY <2>3, <2>4, <2>5
<1>10. \A i, j \in Places' : i < j => Before(channel.queue[i], channel.queue[j])'
  BY <1>2, <1>p DEF InOrder, Before, Earlier
<1>11. receiver'.hand # None =>
         /\ Judged(receiver.hand)' /\ Standing(receiver.hand)'
         /\ \A i \in Places' : Before(receiver.hand, channel.queue[i])'
         /\ Earlier(receiver.hand, obs)'
  <2> SUFFICES ASSUME receiver.hand # None
               PROVE  /\ Judged(receiver.hand)' /\ Standing(receiver.hand)'
                      /\ \A i \in Places' : Before(receiver.hand, channel.queue[i])'
                      /\ Earlier(receiver.hand, obs)'
    BY <1>p
  <2>1. receiver.hand \in Entries /\ Judged(receiver.hand) /\ Standing(receiver.hand)
    BY QueueTypes DEF InOrder
  <2>2. \A i \in Places' : Before(receiver.hand, channel.queue[i])'
    BY <1>2, <1>p DEF InOrder, Before, Earlier, Earlier
  <2>3. Judged(receiver.hand)'  BY <1>2, <1>p, <2>1 DEF Judged
  <2>4. Standing(receiver.hand)'  BY <1>2, <1>7, <1>p, <2>1 DEF Standing
  <2>5. Earlier(receiver.hand, obs)'
    BY <1>2, <1>3, <1>7, <1>p, <2>1 DEF Earlier
  <2> QED  BY <2>2, <2>3, <2>4, <2>5
<1>12. \A k \in Streams :
         \/ aux'.delivered[k] = -1
         \/ k \in DOMAIN sequences' /\ aux'.delivered[k] <= sequences'[k]
  <2> TAKE k \in Streams
  <2>1. CASE aux.delivered[k] = -1  BY <1>2, <2>1
  <2>2. CASE k \in DOMAIN sequences /\ aux.delivered[k] <= sequences[k]
    <3>1. aux.delivered[k] \in Int /\ sequences[k] \in Int  BY <2>2, QueueTypes
    <3>2. k \in DOMAIN sequences' /\ aux.delivered[k] <= sequences'[k]
      BY <1>4, <1>5, <1>6, <2>2, <3>1
    <3> QED  BY <1>2, <3>2
  <2> QED  BY <2>1, <2>2 DEF InOrder
<1> QED
  <2>1. obs.stream \in DOMAIN sequences' /\ aux'.delivered[obs.stream] < obs.seq
    BY <1>2, <1>5, <1>8
  <2>2. \A d \in Inflight' :
          /\ cb'[d].obs.stream \in DOMAIN sequences' /\ sequences'[cb'[d].obs.stream] = cb'[d].obs.seq
          /\ aux'.delivered[cb'[d].obs.stream] < cb'[d].obs.seq
          /\ \A i \in Places' : Earlier(channel.queue[i], cb[d].obs)'
          /\ receiver'.hand # None => Earlier(receiver.hand, cb[d].obs)'
    BY <1>3, <1>5, <1>9, <1>11, <2>1 DEF Earlier
  <2> QED  BY <1>9, <1>10, <1>11, <1>12, <2>2 DEF InOrder

LEMMA OrderEnqueue ==
  ASSUME TypeInv, Queued, Holding, Epochs, InOrder, NEW c \in Callbacks, Enqueue(c)
  PROVE  InOrder'
<1>t. cb \in [Callbacks -> CallbackT]  BY DEF TypeInv
<1>1. /\ UNCHANGED <<sequences, receiver, aux>> /\ cb[c].pc = "enqueuing"
      /\ cb' = [cb EXCEPT ![c] = [Outside EXCEPT !.pc = "leaving"]]
  BY DEF Enqueue, Leaves, CallbackFrame
<1>2. Inflight' \subseteq Inflight /\ \A d \in Inflight' : cb'[d] = cb[d]
  BY <1>t, <1>1 DEF Inflight, Outside, CallbackT
<1>3. CASE channel' = channel  BY <1>1, <1>2, <1>3, OrderKept
<1>4. CASE channel'.queue = Append(channel.queue, Entry(c))
  <2> DEFINE e == Entry(c)
             n == Len(channel.queue)
  <2>1. e \in Entries  BY <1>1, EntryType
  <2>2. n \in Nat /\ Places = 1 .. n  BY ChannelShape DEF Places
  <2>3. /\ Len(channel'.queue) = n + 1 /\ channel'.queue[n + 1] = e
        /\ \A i \in 1 .. n : channel'.queue[i] = channel.queue[i]
    BY <1>4, <2>1, ChannelShape
  <2>4. Places' = 1 .. n + 1  BY <2>3 DEF Places
  <2>5. c \in Inflight  BY <1>1 DEF Inflight
  <2>6. e.obs = cb[c].obs /\ e.generation = aux.cleared /\ e.epoch = aux.cleared
    BY <1>1, <2>5 DEF Entry, Epochs
  <2>7. /\ e.obs.stream \in DOMAIN sequences /\ sequences[e.obs.stream] = e.obs.seq
        /\ aux.delivered[e.obs.stream] < e.obs.seq
        /\ \A i \in Places : Earlier(channel.queue[i], e.obs)
        /\ receiver.hand # None => Earlier(receiver.hand, e.obs)
    BY <2>5, <2>6 DEF InOrder
  <2>8. aux.cleared \in Nat /\ e.obs.seq \in Int  BY <2>1, QueueTypes
  <2> HIDE DEF e, n
  <2>9. Judged(e) /\ Standing(e)  BY <2>6, <2>7, <2>8 DEF Judged, Standing
  <2>10. \A i \in Places' : i \in Places \/ i = n + 1  BY <2>2, <2>4
  <2>11. \A i \in Places' : Judged(channel'.queue[i]) /\ Standing(channel'.queue[i])
    BY <2>2, <2>3, <2>9, <2>10 DEF InOrder
  <2>12. \A i, j \in Places' : i < j => Before(channel'.queue[i], channel'.queue[j])
    <3> SUFFICES ASSUME NEW i \in Places', NEW j \in Places', i < j
                 PROVE  Before(channel'.queue[i], channel'.queue[j])
      OBVIOUS
    <3>1. i \in Places  BY <2>2, <2>4
    <3>2. channel'.queue[i] = channel.queue[i]  BY <2>2, <2>3, <3>1
    <3>3. CASE j \in Places
      <4>1. channel'.queue[j] = channel.queue[j]  BY <2>2, <2>3, <3>3
      <4> QED  BY <3>1, <3>2, <3>3, <4>1 DEF InOrder
    <3>4. CASE j = n + 1  BY <2>3, <2>7, <3>1, <3>2, <3>4 DEF Before
    <3> QED  BY <2>10, <3>3, <3>4
  <2>13. receiver.hand # None => \A i \in Places' : Before(receiver.hand, channel'.queue[i])
    BY <2>2, <2>3, <2>7, <2>10 DEF InOrder, Before
  <2>14. Inflight' = {}
    <3>1. c \notin Inflight'  BY <1>1, <1>t DEF Inflight, Outside, CallbackT
    <3>2. \A d \in Inflight : d = c  BY <2>5, InflightHolds
    <3> QED  BY <1>2, <3>1, <3>2
  <2>15. /\ \A i \in Places' : Judged(channel.queue[i])' /\ Standing(channel.queue[i])'
         /\ \A i, j \in Places' : i < j => Before(channel.queue[i], channel.queue[j])'
         /\ receiver'.hand # None =>
              /\ Judged(receiver.hand)' /\ Standing(receiver.hand)'
              /\ \A i \in Places' : Before(receiver.hand, channel.queue[i])'
    <3>1. /\ \A i \in Places' : Judged(channel.queue[i])' /\ Standing(channel.queue[i])'
          /\ receiver'.hand # None => Judged(receiver.hand)' /\ Standing(receiver.hand)'
      BY <1>1, <2>11 DEF InOrder, Judged, Standing
    <3>2. \A i, j \in Places' : i < j => Before(channel.queue[i], channel.queue[j])'
      BY <1>1, <2>12 DEF Before, Earlier
    <3>3. receiver'.hand # None => \A i \in Places' : Before(receiver.hand, channel.queue[i])'
      BY <1>1, <2>13 DEF Before, Earlier
    <3> QED  BY <3>1, <3>2, <3>3
  <2> QED  BY <1>1, <2>14, <2>15 DEF InOrder
<1> QED  BY <1>3, <1>4, EnqueueCases

LEMMA OrderReceiver ==
  ASSUME TypeInv, Queued, Holding, Epochs, InOrder,
         (\E waits \in BOOLEAN : StartRecv(waits)) \/ ReceiverStep
         \/ CancelRecv \/ CloseReceiver \/ StartDrop
  PROVE  InOrder'
<1>t. receiver \in ReceiverT /\ HandT /\ aux \in AuxT  BY DEF TypeInv
<1>u. UNCHANGED <<cb, sequences, generation, op>> /\ Inflight' = Inflight
  BY DEF ReceiverStep, StartRecv, ResumeRecv, Dequeue, ClearMirror, BeginFinish, FinishDequeue,
     DropReceiver, CancelRecv, CloseReceiver, StartDrop, ReceiverFrame, Inflight
<1>k. ASSUME channel'.queue = channel.queue, receiver'.hand \in {receiver.hand, None}, aux' = aux
      PROVE  InOrder'
  BY <1>u, <1>k, OrderKept
(* The queue is emptied, and the receiver holds nothing.                    *)
<1>d. ASSUME NEW next, DrainChannel(next), aux' = aux, receiver.hand = None PROVE InOrder'
  <2>1. channel'.queue = <<>> /\ receiver'.hand = None
    BY <1>d, <1>t DEF DrainChannel, Stands, ReceiverT
  <2>2. Places' = {}  BY <2>1 DEF Places
  <2> QED  BY <1>u, <1>d, <2>1, <2>2 DEF InOrder
<1>1. ASSUME NEW waits \in BOOLEAN, Dequeue(waits), receiver.pc \notin TakenPcs PROVE InOrder'
  <2>h. receiver.hand = None /\ aux' = aux  BY <1>1, <1>t DEF HandT, Dequeue
  <2>1. CASE DrainChannel("quarantined")  BY <1>d, <2>h, <2>1
  <2>2. CASE ~fault /\ channel.queue # <<>>
    <3> DEFINE n == Len(channel.queue)
    <3>1. /\ channel' = [channel EXCEPT !.queue = Tail(channel.queue)]
          /\ receiver' = [pc |-> "dequeued", waits |-> waits, hand |-> Head(channel.queue)]
      BY <1>1, <2>2 DEF Dequeue
    <3>2. channel'.queue = Tail(channel.queue)  BY <3>1, ChannelShape
    <3>3. /\ n \in Nat \ {0} /\ Len(channel'.queue) = n - 1 /\ channel.queue[1] = Head(channel.queue)
          /\ \A i \in 1 .. n - 1 : channel'.queue[i] = channel.queue[i + 1]
      BY <2>2, <3>2, ChannelShape
    <3>4. receiver'.hand = channel.queue[1]  BY <3>1, <3>3
    <3> HIDE DEF n
    <3>5. Places = 1 .. n /\ Places' = 1 .. n - 1  BY <3>3 DEF Places, n
    <3>6. /\ \A i \in Places' : i + 1 \in Places /\ 1 < i + 1
          /\ \A i, j \in Places' : i < j => i + 1 < j + 1
          /\ 1 \in Places
      BY <3>3, <3>5
    <3>7. \A i \in Places' : channel'.queue[i] = channel.queue[i + 1]  BY <3>3, <3>5
    <3>8. \A i \in Places' : Judged(channel.queue[i])' /\ Standing(channel.queue[i])'
      BY <1>u, <2>h, <3>6, <3>7 DEF InOrder, Judged, Standing
    <3>9. \A i, j \in Places' : i < j => Before(channel.queue[i], channel.queue[j])'
      BY <2>h, <3>6, <3>7 DEF InOrder, Before, Earlier
    <3>10. /\ Judged(receiver.hand)' /\ Standing(receiver.hand)'
           /\ \A i \in Places' : Before(receiver.hand, channel.queue[i])'
      BY <1>u, <2>h, <3>4, <3>6, <3>7 DEF InOrder, Judged, Standing, Before, Earlier
    <3>11. \A c \in Inflight' :
             /\ \A i \in Places' : Earlier(channel.queue[i], cb[c].obs)'
             /\ Earlier(receiver.hand, cb[c].obs)'
      BY <1>u, <2>h, <3>4, <3>6, <3>7 DEF InOrder, Earlier
    <3> QED  BY <1>u, <2>h, <3>8, <3>9, <3>10, <3>11 DEF InOrder
  <2>3. CASE ~fault /\ channel.queue = <<>>
    <3>1. UNCHANGED channel /\ receiver'.hand = None
      BY <1>1, <2>3 DEF Dequeue, Idle, EmptyHanded
    <3> QED  BY <1>k, <2>h, <3>1
  <2> QED  BY <1>1, <2>1, <2>2, <2>3 DEF Dequeue
<1>2. CASE (\E waits \in BOOLEAN : StartRecv(waits)) \/ ResumeRecv
  BY <1>1, <1>2, <1>t DEF StartRecv, ResumeRecv, ReceiverT, TakenPcs
<1>3. CASE ClearMirror \/ CancelRecv
  BY <1>k, <1>3 DEF ClearMirror, CancelRecv, Idle, EmptyHanded
<1>4. CASE BeginFinish \/ StartDrop
  <2>1. /\ UNCHANGED <<channel, aux>>
        /\ \/ receiver' = EmptyHanded("polling", receiver.waits)
           \/ \E pc : receiver' = [receiver EXCEPT !.pc = pc]
    BY <1>4 DEF BeginFinish, StartDrop, BeginDelivery, Stands
  <2>2. receiver'.hand \in {receiver.hand, None}  BY <1>t, <2>1 DEF ReceiverT, EmptyHanded
  <2> QED  BY <1>k, <2>1, <2>2
<1>5. CASE CloseReceiver
  <2>1. channel'.queue = channel.queue /\ UNCHANGED <<receiver, aux>>
    BY <1>5, ChannelShape DEF CloseReceiver
  <2> QED  BY <1>k, <2>1
<1>6. CASE DropReceiver
  <2>1. CASE receiver.pc = "draining"
    <3>1. DrainChannel("dropped") /\ aux' = aux  BY <1>6, <2>1 DEF DropReceiver
    <3>2. receiver.hand = None  BY <1>t, <2>1 DEF HandT, TakenPcs
    <3> QED  BY <1>d, <3>1, <3>2
  <2>2. CASE receiver.pc # "draining"
    <3>1. /\ UNCHANGED <<channel, aux>>
          /\ receiver' = receiver \/ \E pc : receiver' = [receiver EXCEPT !.pc = pc]
      BY <1>6, <2>2 DEF DropReceiver, BeginDelivery, Stands
    <3>2. receiver'.hand = receiver.hand  BY <1>t, <3>1 DEF ReceiverT
    <3> QED  BY <1>k, <3>1, <3>2
  <2> QED  BY <2>1, <2>2
<1>7. CASE FinishDequeue
  <2> DEFINE h == receiver.hand
  <2>1. h # None /\ receiver'.hand = None /\ UNCHANGED channel
    BY <1>7, <1>t DEF FinishDequeue, HandT, TakenPcs, Idle, EmptyHanded
  <2>2. CASE ~Current  BY <1>7, <1>k, <2>1, <2>2 DEF FinishDequeue
  <2>3. CASE Current
    <3>1. aux' = [aux EXCEPT !.delivered[h.obs.stream] = h.obs.seq]
      BY <1>7, <2>3 DEF FinishDequeue
    <3>2. /\ h \in Entries /\ h.obs.stream \in Streams /\ h.obs.seq \in Int
          /\ h.generation \in Int /\ h.epoch \in Int /\ aux.cleared \in Nat
      BY <2>1, QueueTypes
    <3>3. h.generation = h.epoch /\ h.epoch <= aux.cleared /\ h.generation = generation
      BY <2>1, <2>3 DEF InOrder, Judged, Current
    <3>4. h.epoch = aux.cleared  BY <3>2, <3>3 DEF Epochs
    <3>5. /\ aux'.cleared = aux.cleared /\ aux'.delivered[h.obs.stream] = h.obs.seq
          /\ \A k \in Streams : k # h.obs.stream => aux'.delivered[k] = aux.delivered[k]
      BY <1>t, <3>1, <3>2 DEF AuxT
    <3> HIDE DEF h
    <3>6. Places' = Places /\ channel'.queue = channel.queue  BY <2>1 DEF Places
    <3>7. /\ h.obs.stream \in DOMAIN sequences /\ h.obs.seq <= sequences[h.obs.stream]
          /\ \A i \in Places : Before(h, channel.queue[i])
      BY <2>1, <3>4 DEF h, InOrder, Standing
    <3>8. \A i \in Places : Judged(channel.queue[i])' /\ Standing(channel.queue[i])'
      <4> SUFFICES ASSUME NEW i \in Places
                   PROVE  Judged(channel.queue[i])' /\ Standing(channel.queue[i])'
        OBVIOUS
      <4>1. /\ channel.queue[i] \in Entries /\ Judged(channel.queue[i])
            /\ Standing(channel.queue[i]) /\ Before(h, channel.queue[i])
            /\ channel'.queue[i] = channel.queue[i]
        BY <3>6, <3>7, QueueTypes DEF InOrder
      <4>2. channel.queue[i].obs.stream \in Streams  BY <4>1, QueueTypes
      <4>3. Judged(channel.queue[i])'  BY <3>5, <4>1 DEF Judged
      <4>4. Standing(channel.queue[i])'
        BY <1>u, <3>4, <3>5, <4>1, <4>2 DEF Standing, Before, Earlier
      <4> QED  BY <4>3, <4>4
    <3>9. \A i, j \in Places : i < j => Before(channel.queue[i], channel.queue[j])'
      BY <3>5, <3>6 DEF InOrder, Before, Earlier
    <3>10. Inflight' = {}
      <4>1. boundary.delivering = Receiver
        BY <1>7 DEF FinishDequeue, Holding, ReceiverHolds
      <4> QED  BY <1>u, <4>1, InflightHolds, ReceiverApart
    <3>11. \A k \in Streams :
             \/ aux'.delivered[k] = -1
             \/ k \in DOMAIN sequences' /\ aux'.delivered[k] <= sequences'[k]
      BY <1>u, <3>5, <3>7 DEF InOrder
    <3> QED  BY <2>1, <3>6, <3>8, <3>9, <3>10, <3>11 DEF InOrder
  <2> QED  BY <2>2, <2>3
<1> QED  BY <1>2, <1>3, <1>4, <1>5, <1>6, <1>7 DEF ReceiverStep

LEMMA OrderClear ==
  ASSUME TypeInv, Queued, Holding, InOrder, NEW o \in Operators, ClearSequences(o), ~fault
  PROVE  InOrder'
<1>t. aux \in AuxT  BY DEF TypeInv
<1> DEFINE none == [k \in Streams |-> -1]
<1>1. /\ UNCHANGED <<channel, receiver, cb>> /\ op[o] = "clearing"
      /\ aux' = [aux EXCEPT !.cleared = @ + 1, !.delivered = none]
  BY DEF ClearSequences, OperatorFrame
<1>2. aux'.cleared = aux.cleared + 1 /\ aux'.delivered = none  BY <1>t, <1>1 DEF AuxT
<1>3. Inflight' = {}
  <2>1. boundary.resetting = o /\ o # None
    BY <1>1, ReceiverApart DEF Holding, ResetHolds, ResetPcs
  <2> QED  BY <1>1, <2>1, InflightHolds DEF Inflight
<1>4. Places' = Places /\ channel'.queue = channel.queue /\ receiver'.hand = receiver.hand
  BY <1>1 DEF Places
<1>5. \A k \in Streams : aux'.delivered[k] = -1  BY <1>2
<1> HIDE DEF none
<1>6. ASSUME NEW e \in Entries, Judged(e)
      PROVE  e.generation = e.epoch /\ e.epoch <= aux'.cleared /\ e.epoch # aux'.cleared
  <2>1. e.epoch \in Int /\ aux.cleared \in Nat  BY QueueTypes
  <2> QED  BY <1>2, <1>6, <2>1 DEF Judged
<1>7. \A i \in Places : /\ channel.queue[i] \in Entries /\ Judged(channel.queue[i])
  BY QueueTypes DEF InOrder
<1>8. receiver.hand # None => receiver.hand \in Entries /\ Judged(receiver.hand)
  BY QueueTypes DEF InOrder
<1>9. \A i \in Places : /\ Judged(channel.queue[i])' /\ Standing(channel.queue[i])'
                       /\ \A j \in Places : Before(channel.queue[i], channel.queue[j])'
  BY <1>4, <1>6, <1>7 DEF Judged, Standing, Before
<1>10. receiver'.hand # None =>
         /\ Judged(receiver.hand)' /\ Standing(receiver.hand)'
         /\ \A i \in Places : Before(receiver.hand, channel.queue[i])'
  BY <1>4, <1>6, <1>7, <1>8 DEF Judged, Standing, Before
<1> QED  BY <1>3, <1>4, <1>5, <1>9, <1>10 DEF InOrder

LEMMA OrderNext ==
  TypeInv /\ Queued /\ Holding /\ Epochs /\ InOrder /\ [Next]_vars => InOrder'
<1> SUFFICES ASSUME TypeInv, Queued, Holding, Epochs, InOrder, [Next]_vars PROVE InOrder'
  OBVIOUS
<1>t. cb \in [Callbacks -> CallbackT] /\ aux \in AuxT  BY DEF TypeInv
<1>1. CASE LatchFault \/ UNCHANGED vars
  <2>1. UNCHANGED <<channel, receiver, cb, sequences, aux>>  BY <1>1 DEF LatchFault, vars
  <2> QED  BY <2>1, OrderKept DEF Inflight
<1>2. ASSUME NEW c \in Callbacks, CallbackStep(c) \/ \E obs \in Observations \cup {None} : Arrive(c, obs)
      PROVE  InOrder'
  <2>1. CASE AdmitObservation(c) /\ cb'[c].pc = "admitted"  BY <2>1, OrderAdmit
  <2>2. CASE Enqueue(c)  BY <2>2, OrderEnqueue
  <2>3. CASE ~Enqueue(c) /\ ~(AdmitObservation(c) /\ cb'[c].pc = "admitted")
    <3>1. UNCHANGED <<channel, receiver>>
      BY <1>2, <2>3 DEF CallbackStep, Arrive, ResumeArrival, AdmitObservation, StampObservation,
         LeaveDelivery, CallbackFrame
    <3>2. sequences' = sequences
      BY <1>2, <1>t, <2>3 DEF CallbackStep, Arrive, ResumeArrival, AdmitObservation,
         StampObservation, LeaveDelivery, CallbackT
    <3>3. /\ c \in Inflight' => c \in Inflight /\ cb'[c].obs = cb[c].obs
          /\ \A d \in Callbacks \ {c} : cb'[d] = cb[d]
      <4>1. \A d \in Callbacks \ {c} : cb'[d] = cb[d]  BY <1>2, CallbackMoves
      <4>2. CASE StampObservation(c)
        BY <1>t, <4>1, <4>2 DEF StampObservation, Leaves, Outside, Inflight, CallbackT
      <4>3. CASE ~StampObservation(c)
        <5>1. cb'[c].pc \notin {"admitted", "enqueuing"} \/ cb' = cb
          BY <1>2, <1>t, <2>3, <4>3 DEF CallbackStep, Arrive, ResumeArrival, LeaveDelivery,
             AdmitObservation, BeginDelivery, Goes, Leaves, Outside, CallbackT
        <5> QED  BY <4>1, <5>1 DEF Inflight
      <4> QED  BY <4>2, <4>3
    <3>4. UNCHANGED <<aux.cleared, aux.delivered>>
      <4>1. aux' = aux \/ \E n : \/ aux' = [aux EXCEPT !.accepted = n]
                               \/ aux' = [aux EXCEPT !.payloads = n]
                               \/ aux' = [aux EXCEPT !.lost = n]
        BY <1>2 DEF CallbackStep, Arrive, ResumeArrival, AdmitObservation, StampObservation,
           Enqueue, LeaveDelivery
      <4> QED  BY <1>t, <4>1 DEF AuxT
    <3>5. Inflight' \subseteq Inflight /\ \A d \in Inflight' : cb'[d].obs = cb[d].obs
      BY <3>3 DEF Inflight
    <3> QED  BY <3>1, <3>2, <3>4, <3>5, OrderKept
  <2> QED  BY <2>1, <2>2, <2>3
<1>3. ASSUME NEW o \in Operators, RequestReset(o) \/ BeginMeasure(o) \/ OperatorStep(o)
      PROVE  InOrder'
  <2>1. CASE ClearSequences(o) /\ ~fault  BY <2>1, OrderClear
  <2>2. CASE ~(ClearSequences(o) /\ ~fault)
    <3>1. UNCHANGED <<channel, receiver, cb, sequences>>
      BY <1>3, <2>2 DEF RequestReset, BeginMeasure, OperatorStep, AcquireReset, OperatorFrame,
         AdvanceGeneration, ClearSequences, ReleaseReset, ResumeMeasure, EndMeasure
    <3>2. aux' = aux \/ aux' = [aux EXCEPT !.requests = @ + 1]
      BY <1>3, <2>2 DEF RequestReset, BeginMeasure, OperatorStep, AcquireReset, MayRequest,
         AdvanceGeneration, ClearSequences, ReleaseReset, ResumeMeasure, EndMeasure
    <3>3. UNCHANGED <<aux.cleared, aux.delivered>>  BY <1>t, <3>2 DEF AuxT
    <3> QED  BY <3>1, <3>3, OrderKept DEF Inflight
  <2> QED  BY <2>1, <2>2
<1> QED  BY <1>1, <1>2, <1>3, OrderReceiver DEF Next

(* What is delivered was admitted since the replay state was last cleared,  *)
(* and is later than all that was delivered of its stream since.            *)
THEOREM DeliveredOncePerEpoch == Spec => OncePerEpoch
<1>1. Init => Epochs /\ InOrder
  <2> SUFFICES ASSUME Init PROVE Epochs /\ InOrder  OBVIOUS
  <2>1. Inflight = {} /\ Places = {}  BY DEF Init, Inflight, Outside, Places
  <2>2. Epochs  BY <2>1 DEF Init, Epochs
  <2>3. receiver.hand = None  BY DEF Init, Idle, EmptyHanded
  <2>4. \A k \in Streams : aux.delivered[k] = -1  BY DEF Init
  <2> QED  BY <2>1, <2>2, <2>3, <2>4 DEF InOrder
<1>2. TypeInv /\ Queued /\ Epochs /\ InOrder /\ [Next]_vars =>
        [counts'.delivered # counts.delivered =>
           /\ receiver.hand.epoch = aux.cleared
           /\ receiver.hand.obs.seq > aux.delivered[receiver.hand.obs.stream]]_vars
  <2> SUFFICES ASSUME TypeInv, Queued, Epochs, InOrder, [Next]_vars,
                      counts'.delivered # counts.delivered
               PROVE  /\ receiver.hand.epoch = aux.cleared
                      /\ receiver.hand.obs.seq > aux.delivered[receiver.hand.obs.stream]
    OBVIOUS
  <2> DEFINE h == receiver.hand
  <2>t. counts \in CountsT /\ receiver \in ReceiverT /\ HandT  BY DEF TypeInv
  <2>1. FinishDequeue /\ Current
    <3>1. \/ FinishDequeue /\ Current
          \/ counts' = counts
          \/ \E n : \/ counts' = [counts EXCEPT !.enqueued = n]
                   \/ counts' = [counts EXCEPT !.full = n]
                   \/ counts' = [counts EXCEPT !.closed = n]
                   \/ counts' = [counts EXCEPT !.stale = n]
                   \/ counts' = [counts EXCEPT !.abandoned = n]
      BY DEF Next, vars, LatchFault, CallbackStep, Arrive, ResumeArrival, AdmitObservation,
         StampObservation, Enqueue, LeaveDelivery, ReceiverStep, StartRecv, ResumeRecv, Dequeue,
         DrainChannel, ClearMirror, BeginFinish, FinishDequeue, DropReceiver, CancelRecv,
         CloseReceiver, StartDrop, RequestReset, BeginMeasure, OperatorStep, AcquireReset,
         AdvanceGeneration, ClearSequences, ReleaseReset, ResumeMeasure, EndMeasure, OperatorFrame
    <3> QED  BY <2>t, <3>1 DEF CountsT
  <2>2. h # None  BY <2>1, <2>t DEF FinishDequeue, HandT, TakenPcs
  <2>3. /\ h \in Entries /\ h.obs.seq \in Int /\ h.generation \in Int /\ h.epoch \in Int
        /\ aux.cleared \in Nat /\ aux.delivered[h.obs.stream] \in Int
    BY <2>2, QueueTypes
  <2>4. /\ h.generation = h.epoch /\ h.epoch <= aux.cleared /\ h.generation = generation
        /\ Standing(h)
    BY <2>1, <2>2 DEF InOrder, Judged, Current
  <2>5. h.epoch = aux.cleared  BY <2>3, <2>4 DEF Epochs
  <2> HIDE DEF h
  <2>6. h.obs.seq > aux.delivered[h.obs.stream]  BY <2>3, <2>4, <2>5 DEF Standing
  <2> QED  BY <2>5, <2>6 DEF h
<1> QED  BY <1>1, <1>2, EpochsNext, OrderNext, TypeCorrect, PTL DEF Spec, OncePerEpoch
=============================================================================
