------------------------- MODULE OperationalReceiver -------------------------
(***************************************************************************)
(* The live receiver of crates/galadriel-ncp/src/operational_live.rs: the  *)
(* transport calls back on its own threads, one task opens the receiver,   *)
(* takes events from it and closes it, and the assembler of Assembler.tla  *)
(* is driven by that task alone.  One action is one critical section of    *)
(* the ingress mutex, or what a thread does between two of them; a         *)
(* callback holds the mutex over two actions while it copies its payload.  *)
(*                                                                         *)
(* Time is counted from the activation of the receiver: an earlier receipt *)
(* time is compared with nothing.  A sample is one transport message: its  *)
(* route, what is wrong with its key or size, and the envelope it decodes  *)
(* to.  Left out: HandoffClosed and IngressClosed, since each end of the   *)
(* channel outlives the other's use of it, and an activation at an instant *)
(* so late that its first deadline has no representation.                  *)
(***************************************************************************)
EXTENDS Assembler

CONSTANTS
  Callbacks,      \* transport threads
  Samples,        \* what the transport may deliver
  Capacity,       \* OperationalLiveConfig::ingress_capacity
  BusOwned,       \* OwnedSecureConfigValidated
  MaxSamples,     \* bound: callbacks that begin
  MaxClock        \* bound: the last instant of the clock

VARIABLES
  clock,
  shared,    \* SharedIngress: its phase, first fault, queue, callbacks inside the
             \* startup window, stored wake-ups and the poison of its mutex
  lock,      \* the callback inside the mutex, or None
  cb,        \* per thread: where it is, the phase it entered in, its sample
  owner,     \* the task that owns the receiver: where it is, the rest of its
             \* queue snapshot, the payload in its hand, the staged events
  attached,  \* routes with a declared subscriber
  health,    \* OperationalLiveHealthSnapshot
  aux        \* auxiliary: samples begun, payloads lost in a panic, receipt times of
             \* payloads dropped unread, events the assembler returned, and the
             \* payloads that were queued when the current recv began

vars == <<epoch, clock, shared, lock, cb, owner, attached, health, aux>>

(* What accept_payload finds wrong with a message, and every ingress fault. *)
SampleDefects == {"UnexpectedKey", "PayloadTooLarge"}
ReceiverFaults == SampleDefects \cup
  {"EvidenceBeforeReady", "HandoffFull", "InternalStatePoisoned", "Assembly"}

(* IngressPhase. *)
Phases == {"Starting", "Activating", "Active", "Closed"}

ASSUME ReceiverAssumption ==
  /\ Capacity \in Nat \ {0} /\ BusOwned \in BOOLEAN
  /\ MaxSamples \in Nat /\ MaxClock \in Nat
  /\ IsFiniteSet(Callbacks) /\ None \notin Callbacks \cup ReceiverFaults \cup Phases
  /\ 0..MaxClock \subseteq Times
  /\ \A sample \in Samples :
       /\ sample.defect \in SampleDefects \cup {None}
       /\ sample.env \in IF sample.route = "monitor" THEN MonitorEnvelopes ELSE ObservationEnvelopes

(* Where the task is: opening, inside recv, inside close.                   *)
InOpening == {"subscribeObservation", "subscribeMonitor", "begin", "drain", "drainWait",
              "activate"}
Receiving == {"loop", "dated", "due", "budget", "hand", "staging", "take", "arming",
              "waiting"}
Closing   == {"sealing", "undeclareObservation", "undeclareMonitor", "closeBus"}

Init ==
  /\ New /\ clock = StartedAt
  /\ shared = [phase |-> "Starting", fault |-> None, queue |-> <<>>, inflight |-> 0,
               startupNote |-> FALSE, terminalNote |-> FALSE, poisoned |-> FALSE]
  /\ lock = None
  /\ cb = [c \in Callbacks |-> [pc |-> "idle", entered |-> None, sample |-> None, at |-> None]]
  /\ owner = [pc |-> "subscribeObservation", budget |-> 0, hand |-> None, pending |-> <<>>,
              opened |-> FALSE, closed |-> FALSE, cleaned |-> FALSE, sealed |-> FALSE]
  /\ attached = {}
  /\ health = [received |-> 0, rejected |-> 0, post |-> 0, enqueued |-> 0, processed |-> 0,
               dropped |-> 0, delivered |-> 0, discarded |-> 0]
  /\ aux = [begun |-> 0, panicked |-> 0, lost |-> {}, returned |-> 0, mark |-> 0]

-----------------------------------------------------------------------------
(* The mutex.                                                               *)

(* The definitions named Mutant... are slips a property must notice; nothing *)
(* but a sensitivity check uses them.                                       *)
MutantLatched(s, kind) ==
  IF s.fault # None THEN s
  ELSE [s EXCEPT !.fault = kind, !.terminalNote = @ \/ owner.pc = "waiting"]

(* latch_first and the notification that follows it, which is stored.       *)
Latched(s, kind) ==
  IF s.fault # None THEN s ELSE [s EXCEPT !.fault = kind, !.terminalNote = TRUE]

(* lock_state: what a thread finds, once a panic under the lock is recovered.*)
Locked ==
  IF shared.poisoned
  THEN Latched([shared EXCEPT !.poisoned = FALSE, !.phase = "Closed"], "InternalStatePoisoned")
  ELSE shared

-----------------------------------------------------------------------------
(* Callbacks.                                                               *)

(* The end of accept_payload: the startup permit outlives the guard.        *)
Leave(c) == [cb[c] EXCEPT !.pc = IF cb[c].entered = "Starting" THEN "leaving" ELSE "idle",
                          !.entered = IF cb[c].entered = "Starting" THEN @ ELSE None,
                          !.sample = None, !.at = None]

(* enter_callback: a callback that begins while the receiver is starting is *)
(* counted; one that meets the activation spins.                            *)
EnterCallback(c, sample) ==
  /\ cb[c].pc = "idle" /\ sample.route \in attached /\ aux.begun < MaxSamples
  /\ lock = None /\ Locked.phase # "Activating"
  /\ shared' = IF Locked.phase = "Starting" THEN [Locked EXCEPT !.inflight = @ + 1] ELSE Locked
  /\ IF Locked.phase = "Closed" THEN UNCHANGED cb
     ELSE cb' = [cb EXCEPT ![c] = [pc |-> "entered", entered |-> Locked.phase,
                                   sample |-> sample, at |-> None]]
  /\ aux' = [aux EXCEPT !.begun = @ + 1]
  /\ UNCHANGED <<epoch, clock, lock, owner, attached, health>>

MutantHoldWhileCopying(c) == UNCHANGED lock

(* The guard lives until the payload is in the queue.                       *)
HoldWhileCopying(c) == lock' = c

(* accept_payload up to the copy: the first check that fails decides.       *)
AcceptPayload(c) ==
  LET sample == cb[c].sample
      refuse(kind) ==
        /\ shared' = Latched(Locked, kind) /\ cb' = [cb EXCEPT ![c] = Leave(c)]
        /\ health' = [health EXCEPT !.received = @ + 1, !.rejected = @ + 1]
        /\ UNCHANGED lock
  IN
  /\ cb[c].pc = "entered" /\ lock = None
  /\ \/ /\ Locked.phase = "Closed"
        /\ shared' = Locked /\ cb' = [cb EXCEPT ![c] = Leave(c)]
        /\ UNCHANGED <<lock, health>>
     \/ /\ Locked.phase # "Closed" /\ Locked.fault # None
        /\ shared' = Locked /\ cb' = [cb EXCEPT ![c] = Leave(c)]
        /\ health' = [health EXCEPT !.received = @ + 1, !.post = @ + 1]
        /\ UNCHANGED lock
     \/ /\ Locked.phase # "Closed" /\ Locked.fault = None /\ cb[c].entered # "Active"
        /\ refuse("EvidenceBeforeReady")
     \/ /\ Locked.phase # "Closed" /\ Locked.fault = None /\ cb[c].entered = "Active"
        /\ sample.defect # None
        /\ refuse(sample.defect)
     \/ /\ Locked.phase # "Closed" /\ Locked.fault = None /\ cb[c].entered = "Active"
        /\ sample.defect = None
        /\ shared' = Locked /\ HoldWhileCopying(c)
        /\ health' = [health EXCEPT !.received = @ + 1]
        /\ cb' = [cb EXCEPT ![c].pc = "copying", ![c].at = clock]
  /\ UNCHANGED <<epoch, clock, owner, attached, aux>>

Payload(c) == [route |-> cb[c].sample.route, env |-> cb[c].sample.env, at |-> cb[c].at]

(* accept_payload after the copy: try_send, and the lock is released.       *)
EnqueuePayload(c) ==
  /\ cb[c].pc = "copying"
  /\ \/ /\ Len(shared.queue) < Capacity
        /\ shared' = [shared EXCEPT !.queue = Append(@, Payload(c))]
        /\ health' = [health EXCEPT !.enqueued = @ + 1]
     \/ /\ Len(shared.queue) >= Capacity
        /\ shared' = Latched(shared, "HandoffFull")
        /\ health' = [health EXCEPT !.rejected = @ + 1]
  /\ lock' = None /\ cb' = [cb EXCEPT ![c] = Leave(c)]
  /\ UNCHANGED <<epoch, clock, owner, attached, aux>>

(* The copy panics under the lock.                                          *)
PanicInCallback(c) ==
  /\ cb[c].pc = "copying"
  /\ shared' = [shared EXCEPT !.poisoned = TRUE]
  /\ lock' = None /\ cb' = [cb EXCEPT ![c] = Leave(c)]
  /\ aux' = [aux EXCEPT !.panicked = @ + 1]
  /\ UNCHANGED <<epoch, clock, owner, attached, health>>

CountDown ==
  /\ shared' = [shared EXCEPT !.inflight = @ - 1]
  /\ UNCHANGED <<epoch, clock, lock, owner, attached, health, aux>>

NotifyStartup ==
  /\ shared' = [shared EXCEPT !.startupNote = TRUE]
  /\ UNCHANGED <<epoch, clock, lock, owner, attached, health, aux>>

MutantLeaveCallback(c) ==
  \/ /\ cb[c].pc = "leaving" /\ NotifyStartup
     /\ cb' = [cb EXCEPT ![c].pc = "left"]
  \/ /\ cb[c].pc = "left" /\ CountDown
     /\ cb' = [cb EXCEPT ![c].pc = "idle", ![c].entered = None]

(* StartupCallbackPermit::drop: first the count, then the wake-up.          *)
LeaveCallback(c) ==
  \/ /\ cb[c].pc = "leaving" /\ CountDown
     /\ cb' = [cb EXCEPT ![c].pc = "left"]
  \/ /\ cb[c].pc = "left" /\ NotifyStartup
     /\ cb' = [cb EXCEPT ![c].pc = "idle", ![c].entered = None]

-----------------------------------------------------------------------------
(* Opening: from_prepared.                                                  *)

OwnerAt(pc) == owner' = [owner EXCEPT !.pc = pc]

SubscribeObservation ==
  /\ owner.pc = "subscribeObservation"
  /\ attached' = attached \cup {"observation"} /\ OwnerAt("subscribeMonitor")
  /\ UNCHANGED <<epoch, clock, shared, lock, cb, health, aux>>

SubscribeMonitor ==
  /\ owner.pc = "subscribeMonitor"
  /\ attached' = attached \cup {"monitor"} /\ OwnerAt("begin")
  /\ UNCHANGED <<epoch, clock, shared, lock, cb, health, aux>>

(* begin_startup_activation: a fault leaves the phase where it is.          *)
BeginActivation ==
  /\ owner.pc = "begin" /\ lock = None
  /\ shared' = IF Locked.fault = None THEN [Locked EXCEPT !.phase = "Activating"] ELSE Locked
  /\ OwnerAt("drain")
  /\ UNCHANGED <<epoch, clock, lock, cb, attached, health, aux>>

MutantDrain ==
  /\ owner.pc = "drain"
  /\ OwnerAt("activate")
  /\ UNCHANGED <<epoch, clock, shared, lock, cb, attached, health, aux>>

(* One look at startup_inflight.                                            *)
Drain ==
  /\ owner.pc = "drain"
  /\ OwnerAt(IF shared.inflight = 0 THEN "activate" ELSE "drainWait")
  /\ UNCHANGED <<epoch, clock, shared, lock, cb, attached, health, aux>>

DrainWake ==
  /\ owner.pc = "drainWait" /\ shared.startupNote
  /\ shared' = [shared EXCEPT !.startupNote = FALSE] /\ OwnerAt("drain")
  /\ UNCHANGED <<epoch, clock, lock, cb, attached, health, aux>>

(* The first fault refuses the opening; otherwise evidence counts from here.*)
Activate ==
  /\ owner.pc = "activate" /\ lock = None
  /\ \/ /\ Locked.fault # None
        /\ shared' = [Locked EXCEPT !.phase = "Closed"]
        /\ OwnerAt("gone") /\ attached' = {}
     \/ /\ Locked.fault = None
        /\ shared' = [Locked EXCEPT !.phase = "Active"]
        /\ owner' = [owner EXCEPT !.pc = "ready", !.opened = TRUE]
        /\ UNCHANGED attached
  /\ UNCHANGED <<epoch, clock, lock, cb, health, aux>>

(* The opening future is dropped at one of its awaits, or a subscription is *)
(* refused; the activation guard exists from the second subscription on.    *)
AbandonOpening ==
  /\ owner.pc \in {"subscribeObservation", "subscribeMonitor", "drainWait"}
  /\ shared' = IF owner.pc = "drainWait" THEN [shared EXCEPT !.phase = "Closed"] ELSE shared
  /\ OwnerAt("gone") /\ attached' = {}
  /\ UNCHANGED <<epoch, clock, lock, cb, health, aux>>

-----------------------------------------------------------------------------
(* recv.                                                                    *)

Deadline == NextDeadlineAt

StartRecv ==
  /\ owner.pc = "ready" /\ lock = None
  /\ shared' = Locked
  /\ owner' = [owner EXCEPT !.pc = "loop", !.budget = Len(shared.queue)]
  /\ aux' = [aux EXCEPT !.mark = health.enqueued]
  /\ UNCHANGED <<epoch, clock, lock, cb, attached, health>>

Instants(queue) == {queue[i].at : i \in DOMAIN queue}

(* terminal_fault_and_discard, then the check of closed_at.                 *)
LookForFault ==
  /\ owner.pc = "loop" /\ lock = None
  /\ \/ /\ Locked.fault # None
        /\ shared' = [Locked EXCEPT !.queue = <<>>]
        /\ owner' = [owner EXCEPT !.pc = "ready", !.pending = <<>>]
        /\ health' = [health EXCEPT !.dropped = @ + Len(shared.queue),
                                    !.discarded = @ + Len(owner.pending)]
        /\ aux' = [aux EXCEPT !.lost = @ \cup Instants(shared.queue)]
     \/ /\ Locked.fault = None
        /\ shared' = Locked /\ OwnerAt(IF owner.closed THEN "ready" ELSE "dated")
        /\ UNCHANGED <<health, aux>>
  /\ UNCHANGED <<epoch, clock, lock, cb, attached>>

LookAtClock ==
  /\ owner.pc = "dated"
  /\ OwnerAt(IF clock >= Deadline THEN "due" ELSE "budget")
  /\ UNCHANGED <<epoch, clock, shared, lock, cb, attached, health, aux>>

(* What the assembler returned, on its way to stage_assembly_events.        *)
ReturnedInAll == aux.returned + Len(told')

Expire(extra) ==
  /\ AdvanceTime(Deadline)
  /\ owner' = [owner EXCEPT !.pc = "staging", !.hand = None]
  /\ aux' = [aux EXCEPT !.returned = ReturnedInAll, !.lost = @ \cup extra]

MutantReachDeadline ==
  /\ owner.pc = "due" /\ lock = None
  /\ shared' = Locked
  /\ Expire({}) /\ UNCHANGED health
  /\ UNCHANGED <<clock, lock, cb, attached>>

(* take_deadline_ingress: what was received before the deadline comes first;*)
(* anything else lets it expire.                                            *)
ReachDeadline ==
  LET queue == shared.queue
      early == queue # <<>> /\ Head(queue).at < Deadline
      late  == queue # <<>> /\ Head(queue).at >= Deadline
      left  == [Locked EXCEPT !.queue = Tail(@)]
  IN
  /\ owner.pc = "due" /\ lock = None
  /\ \/ /\ Locked.fault = None /\ early
        /\ shared' = left
        /\ owner' = [owner EXCEPT !.pc = "hand", !.hand = Head(queue),
                                  !.budget = IF @ > 0 THEN @ - 1 ELSE 0]
        /\ UNCHANGED <<epoch, health, aux>>
     \/ /\ Locked.fault = None /\ late
        /\ shared' = left /\ health' = [health EXCEPT !.dropped = @ + 1]
        /\ Expire({Head(queue).at})
     \/ /\ Locked.fault # None \/ queue = <<>>
        /\ shared' = Locked /\ UNCHANGED health
        /\ Expire({})
  /\ UNCHANGED <<clock, lock, cb, attached>>

MutantPriorityLeft == FALSE

PriorityLeft == owner.budget > 0

(* The queue snapshot of this call goes before what is already staged.      *)
TakePriority ==
  /\ owner.pc = "budget"
  /\ IF PriorityLeft
     THEN IF shared.queue = <<>>
          THEN owner' = [owner EXCEPT !.pc = "take", !.budget = 0] /\ UNCHANGED shared
          ELSE /\ owner' = [owner EXCEPT !.pc = "hand", !.budget = @ - 1,
                                         !.hand = Head(shared.queue)]
               /\ shared' = [shared EXCEPT !.queue = Tail(@)]
     ELSE OwnerAt("take") /\ UNCHANGED shared
  /\ UNCHANGED <<epoch, clock, lock, cb, attached, health, aux>>

(* take_pending_event.                                                      *)
TakePendingEvent ==
  /\ owner.pc = "take" /\ lock = None
  /\ shared' = Locked
  /\ \/ /\ Locked.fault # None
        /\ OwnerAt("ready") /\ UNCHANGED health
     \/ /\ Locked.fault = None /\ owner.pending # <<>>
        /\ owner' = [owner EXCEPT !.pc = "ready", !.pending = Tail(@)]
        /\ health' = [health EXCEPT !.delivered = @ + 1]
     \/ /\ Locked.fault = None /\ owner.pending = <<>>
        /\ OwnerAt("arming") /\ UNCHANGED health
  /\ UNCHANGED <<epoch, clock, lock, cb, attached, aux>>

(* The wake-ups are asked for only after the lock was left.                 *)
ArmSelect ==
  /\ owner.pc = "arming" /\ OwnerAt("waiting")
  /\ UNCHANGED <<epoch, clock, shared, lock, cb, attached, health, aux>>

(* select: its three branches are looked at one after the other, so any that*)
(* is ready by then may win.                                                *)
WakeForFault ==
  /\ owner.pc = "waiting" /\ shared.terminalNote
  /\ shared' = [shared EXCEPT !.terminalNote = FALSE] /\ OwnerAt("loop")
  /\ UNCHANGED <<epoch, clock, lock, cb, attached, health, aux>>

WakeForIngress ==
  /\ owner.pc = "waiting" /\ shared.queue # <<>>
  /\ shared' = [shared EXCEPT !.queue = Tail(@)]
  /\ owner' = [owner EXCEPT !.pc = "hand", !.hand = Head(shared.queue)]
  /\ UNCHANGED <<epoch, clock, lock, cb, attached, health, aux>>

WakeForDeadline ==
  /\ owner.pc = "waiting" /\ clock >= Deadline
  /\ OwnerAt("due")
  /\ UNCHANGED <<epoch, clock, shared, lock, cb, attached, health, aux>>

(* The recv future is dropped while it waits.                               *)
CancelRecv ==
  /\ owner.pc = "waiting" /\ OwnerAt("ready")
  /\ UNCHANGED <<epoch, clock, shared, lock, cb, attached, health, aux>>

Ingest(p) ==
  IF p.route = "monitor" THEN IngestMonitor(p.env, p.at)
  ELSE IngestObservation(p.env, p.at)

MutantProcessOrExpire ==
  /\ owner.pc = "hand" /\ lock = None
  /\ shared' = Locked
  /\ IF owner.hand.at >= Deadline
     THEN Expire({owner.hand.at}) /\ UNCHANGED health
     ELSE /\ Ingest(owner.hand)
          /\ health' = [health EXCEPT !.processed = @ + 1]
          /\ owner' = [owner EXCEPT !.pc = "staging", !.hand = None]
          /\ aux' = [aux EXCEPT !.returned = ReturnedInAll]
  /\ UNCHANGED <<clock, lock, cb, attached>>

(* process_ingress_or_expire; after take_deadline_ingress the payload is    *)
(* known to precede the deadline.                                           *)
ProcessOrExpire ==
  /\ owner.pc = "hand" /\ lock = None
  /\ shared' = Locked
  /\ IF owner.hand.at >= Deadline
     THEN Expire({owner.hand.at}) /\ health' = [health EXCEPT !.dropped = @ + 1]
     ELSE /\ Ingest(owner.hand)
          /\ health' = [health EXCEPT !.processed = @ + 1]
          /\ owner' = [owner EXCEPT !.pc = "staging", !.hand = None]
          /\ aux' = [aux EXCEPT !.returned = ReturnedInAll]
  /\ UNCHANGED <<clock, lock, cb, attached>>

(* stage_assembly_events: all of what a call returned is staged, or none.   *)
StageEvents ==
  /\ owner.pc = "staging" /\ lock = None
  /\ \/ /\ Locked.fault # None
        /\ shared' = Locked /\ OwnerAt("loop")
        /\ health' = [health EXCEPT !.discarded = @ + Len(told)]
     \/ /\ Locked.fault = None /\ fault # NoFault
        /\ shared' = Latched(Locked, "Assembly")
        /\ owner' = [owner EXCEPT !.pc = "loop", !.pending = <<>>]
        /\ health' = [health EXCEPT !.discarded = @ + Len(told) - 1 + Len(owner.pending)]
     \/ /\ Locked.fault = None /\ fault = NoFault
        /\ shared' = Locked
        /\ owner' = [owner EXCEPT !.pc = "loop", !.pending = @ \o told]
        /\ UNCHANGED health
  /\ UNCHANGED <<epoch, clock, lock, cb, attached, aux>>

-----------------------------------------------------------------------------
(* close and drop.                                                          *)

(* close up to its first await: a retried close starts again from the seal. *)
StartClose ==
  /\ owner.pc = "ready" /\ ~owner.cleaned
  /\ shared' = IF owner.closed THEN shared ELSE [shared EXCEPT !.phase = "Closed"]
  /\ owner' = [owner EXCEPT !.pc = "sealing", !.closed = TRUE]
  /\ UNCHANGED <<epoch, clock, lock, cb, attached, health, aux>>

MutantFenced == TRUE

(* A callback that had passed the phase check is waited for.                *)
Fenced == lock = None

(* The fence of close_ingress and discard_buffered_on_boundary.             *)
Discarded(next) ==
  /\ Fenced
  /\ shared' = [Locked EXCEPT !.queue = <<>>]
  /\ owner' = [owner EXCEPT !.pc = next, !.pending = <<>>, !.sealed = TRUE]
  /\ health' = [health EXCEPT !.dropped = @ + Len(shared.queue),
                              !.discarded = @ + Len(owner.pending)]
  /\ aux' = [aux EXCEPT !.lost = @ \cup Instants(shared.queue)]
  /\ UNCHANGED <<epoch, clock, lock, cb>>

Seal ==
  /\ owner.pc = "sealing"
  /\ Discarded("undeclareObservation") /\ UNCHANGED attached

(* The subscription is consumed, whatever becomes of the await.             *)
UndeclareObservation ==
  /\ owner.pc = "undeclareObservation"
  /\ attached' = attached \ {"observation"}
  /\ \E next \in {"undeclareMonitor", "ready"} : OwnerAt(next)
  /\ UNCHANGED <<epoch, clock, shared, lock, cb, health, aux>>

UndeclareMonitor ==
  /\ owner.pc = "undeclareMonitor"
  /\ attached' = attached \ {"monitor"}
  /\ \/ BusOwned /\ OwnerAt("closeBus")
     \/ ~BusOwned /\ owner' = [owner EXCEPT !.pc = "ready", !.cleaned = TRUE]
     \/ OwnerAt("ready")
  /\ UNCHANGED <<epoch, clock, shared, lock, cb, health, aux>>

(* The owned session closes, fails to, or the future is dropped meanwhile.  *)
CloseBus ==
  /\ owner.pc = "closeBus"
  /\ \E cleaned \in BOOLEAN : owner' = [owner EXCEPT !.pc = "ready", !.cleaned = cleaned]
  /\ UNCHANGED <<epoch, clock, shared, lock, cb, attached, health, aux>>

DropReceiver ==
  /\ owner.pc = "ready"
  /\ shared' = [shared EXCEPT !.phase = "Closed"] /\ OwnerAt("dropping")
  /\ UNCHANGED <<epoch, clock, lock, cb, attached, health, aux>>

FinishDrop ==
  /\ owner.pc = "dropping"
  /\ Discarded("gone") /\ attached' = {}

-----------------------------------------------------------------------------
Tick ==
  /\ owner.opened /\ owner.pc # "gone" /\ clock < MaxClock
  /\ clock' = clock + 1
  /\ UNCHANGED <<epoch, shared, lock, cb, owner, attached, health, aux>>

CallbackStep(c) ==
  AcceptPayload(c) \/ EnqueuePayload(c) \/ PanicInCallback(c) \/ LeaveCallback(c)

OpeningStep ==
  \/ SubscribeObservation \/ SubscribeMonitor \/ BeginActivation \/ Drain \/ DrainWake
  \/ Activate

ReceivingStep ==
  \/ LookForFault \/ LookAtClock \/ TakePriority \/ TakePendingEvent
  \/ ArmSelect \/ WakeForFault \/ WakeForIngress \/ WakeForDeadline \/ StageEvents

AssemblingStep == ReachDeadline \/ ProcessOrExpire

ClosingStep == Seal \/ UndeclareObservation \/ UndeclareMonitor \/ CloseBus \/ FinishDrop

Next ==
  \/ \E c \in Callbacks, sample \in Samples : EnterCallback(c, sample)
  \/ \E c \in Callbacks : CallbackStep(c)
  \/ OpeningStep \/ ReceivingStep \/ AssemblingStep \/ ClosingStep
  \/ AbandonOpening \/ StartRecv \/ CancelRecv \/ StartClose \/ DropReceiver
  \/ Tick

Spec == Init /\ [][Next]_vars

(* How an assembling step leaves the task: the weak fairness of this part of*)
(* it is that of the whole, which is enabled exactly when it is.            *)
LeavesAssembling ==
  /\ owner.pc \in {"due", "hand"} /\ lock = None
  /\ \E pc \in {"hand", "staging"} \ {owner.pc}, hand \in {None} \cup Range(shared.queue),
        budget \in 0..owner.budget :
       owner' = [owner EXCEPT !.pc = pc, !.hand = hand, !.budget = budget]

(* Transport threads that are inside a callback and the task inside a call  *)
(* are scheduled again; nobody has to begin a callback or a call, and the   *)
(* clock may stand still.                                                   *)
Fairness ==
  /\ \A c \in Callbacks : WF_vars(CallbackStep(c))
  /\ WF_vars(OpeningStep) /\ WF_vars(ReceivingStep) /\ WF_owner(LeavesAssembling)

FairSpec == Spec /\ Fairness
-----------------------------------------------------------------------------
(* Properties.                                                              *)

Copying == {c \in Callbacks : cb[c].pc = "copying"}
InHand  == IF owner.pc = "hand" THEN 1 ELSE 0

(* Payloads taken and not enqueued; payloads enqueued and done with.        *)
TurnedAway == health.rejected + health.post + aux.panicked
DoneWith       == health.processed + health.dropped

(* Every payload a callback took is in exactly one place: refused, arrived  *)
(* too late, lost in a panic, still being copied or enqueued; and every     *)
(* enqueued one is queued, in the task's hand, processed or dropped.        *)
PayloadsAccounted ==
  /\ health.received = health.enqueued + TurnedAway + Cardinality(Copying)
  /\ health.enqueued = DoneWith + Len(shared.queue) + InHand

(* Every event the assembler returned is staged, delivered or discarded,    *)
(* except the fault that became the receiver's own.                         *)
EventsAccounted ==
  aux.returned = health.delivered + health.discarded + Len(owner.pending)
                 + (IF owner.pc = "staging" THEN Len(told) ELSE 0)
                 + (IF shared.fault = "Assembly" THEN 1 ELSE 0)

(* No payload and no event is lost or counted twice, whatever is cancelled, *)
(* refused or torn down.                                                    *)
EverythingAccounted == PayloadsAccounted /\ EventsAccounted

(* Once close or drop has discarded what was buffered, nothing is buffered  *)
(* again, although callbacks may still be running and close may be retried. *)
SealedStaysEmpty == owner.sealed => shared.queue = <<>> /\ owner.pending = <<>>

(* An open receiver never met evidence before it was ready: a callback that *)
(* began before activation is refused before activation completes, or keeps *)
(* the receiver from opening.                                               *)
ReadyMeansClean == owner.opened => shared.fault # "EvidenceBeforeReady"

DeadlineFaults == {"MonitorSequenceGap", "FrameDeadlineExpired", "HeartbeatDeadlineExpired"}

(* When a deadline ends the epoch, everything received strictly before that *)
(* deadline was given to the assembler first.                               *)
EarlierEvidenceFirst ==
  shared.fault = "Assembly" /\ fault.kind \in DeadlineFaults =>
    \A at \in aux.lost \cup Instants(shared.queue) \cup {cb[c].at : c \in Copying} :
      at >= fault.at

(* The assembler never sees time go back: the queue is in receipt order     *)
(* (one lock for stamp and enqueue), and no deadline lies before a receipt  *)
(* already processed.  The second holds because the reorder deadline is no  *)
(* longer than the heartbeat deadline, as in the default limits; the code   *)
(* does not require it of others, see MCOperationalReceiver.                *)
AssemblerTimeOrdered == fault # NoFault => fault.kind # "MonotonicClockRegressed"

(* An event is delivered only after everything that was queued when the     *)
(* call began was processed or dropped, although more keeps arriving.       *)
DeliveredIsCurrent ==
  [][health'.delivered # health.delivered =>
       health.processed + health.dropped >= aux.mark]_vars

(* Opening ends, opened or refused, once the transport falls silent: no     *)
(* wake-up of the task that drains the startup window is lost.              *)
OpeningEnds == owner.pc \in InOpening ~> owner.pc \notin InOpening

(* The first fault reaches a caller inside recv by itself, although no time *)
(* passes and nothing else arrives.                                         *)
FaultReachesCaller ==
  shared.fault # None /\ owner.pc \in Receiving ~> owner.pc \notin Receiving
=============================================================================
