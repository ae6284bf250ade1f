---------------------- MODULE OperationalReceiverProofs ----------------------
(***************************************************************************)
(* Theorems about OperationalReceiver, for any number of transport threads,*)
(* any samples, capacity and limits of the assembler.                      *)
(*                                                                         *)
(* Three facts need nothing of the assembler: of the ingress mutex, the    *)
(* phase, the startup window and the order in which the owner's calls seal *)
(* and empty its buffers (Inv), the accounts of payloads (Books) and what  *)
(* recv owes to the queue it found (Snapshot).  Two join it to its         *)
(* assembler: the order of receipt times (OnTime, with the epoch's own     *)
(* EpochInv) and the accounts of the events it returns (EventBooks).       *)
(***************************************************************************)
EXTENDS OperationalReceiver, AssemblerProofs

(* The records have the fields Init gives them; what is in a field whose    *)
(* type no fact below needs is left open.                                   *)
HasFields(r, fields) == r = [x \in fields |-> r[x]]

SharedFields == {"phase", "fault", "queue", "inflight", "startupNote", "terminalNote", "poisoned"}
OwnerFields  == {"pc", "budget", "hand", "pending", "opened", "closed", "cleaned", "sealed"}
ThreadFields == {"pc", "entered", "sample", "at"}

(* Callbacks the startup window counts.                                     *)
Counted == {c \in Callbacks : cb[c].pc \in {"entered", "leaving"} /\ cb[c].entered = "Starting"}

Shapes ==
  /\ HasFields(shared, SharedFields) /\ HasFields(owner, OwnerFields)
  /\ DOMAIN cb = Callbacks /\ cb = [c \in Callbacks |-> cb[c]]
  /\ \A c \in Callbacks :
       /\ HasFields(cb[c], ThreadFields)
       /\ cb[c].pc = "entered" => cb[c].entered \in {"Starting", "Active"} /\ cb[c].sample \in Samples
       /\ cb[c].pc = "copying" => lock = c /\ cb[c].entered = "Active"
       /\ cb[c].pc = "leaving" => cb[c].entered = "Starting"
  /\ shared.phase \in Phases /\ shared.poisoned \in BOOLEAN
  /\ shared.fault \in ReceiverFaults \cup {None}
  /\ owner.opened \in BOOLEAN /\ owner.closed \in BOOLEAN /\ owner.sealed \in BOOLEAN
  /\ shared.inflight = Cardinality(Counted)

(* Where the owner may be once it closed the receiver.                      *)
AfterClose == {"ready", "loop", "sealing", "undeclareObservation", "undeclareMonitor",
               "closeBus", "dropping", "gone"}

Sealing ==
  /\ owner.closed => owner.pc \in AfterClose /\ shared.phase = "Closed"
  /\ owner.pc \in Closing => owner.closed
  /\ owner.pc = "dropping" => shared.phase = "Closed"
  /\ owner.sealed => /\ owner.closed \/ owner.pc = "gone"
                     /\ shared.phase = "Closed" /\ lock = None
                     /\ shared.queue = <<>> /\ owner.pending = <<>>

Window ==
  /\ owner.pc \in InOpening => ~owner.opened
  /\ owner.pc \notin InOpening \cup {"gone"} => owner.opened
  /\ ~owner.opened => /\ shared.phase # "Active" /\ ~shared.poisoned
                      /\ \A c \in Callbacks : cb[c].entered # "Active"
  /\ owner.pc \in {"drain", "drainWait", "activate"} /\ shared.fault = None =>
       shared.phase = "Activating"
  /\ owner.pc = "activate" /\ shared.fault = None => Counted = {}
  /\ owner.opened => /\ shared.phase \in {"Active", "Closed"}
                     /\ shared.fault # "EvidenceBeforeReady"
                     /\ \A c \in Callbacks : cb[c].pc = "entered" => cb[c].entered = "Active"

Inv == Shapes /\ Sealing /\ Window

-----------------------------------------------------------------------------
(* The mutex.                                                               *)

LEMMA FaultsAreNamed ==
  /\ None \notin Callbacks /\ IsFiniteSet(Callbacks)
  /\ None # "EvidenceBeforeReady" /\ None # "InternalStatePoisoned" /\ None \notin ReceiverFaults
  /\ "EvidenceBeforeReady" \in ReceiverFaults /\ "HandoffFull" \in ReceiverFaults
  /\ "InternalStatePoisoned" \in ReceiverFaults /\ "Assembly" \in ReceiverFaults
  /\ SampleDefects \subseteq ReceiverFaults /\ "EvidenceBeforeReady" \notin SampleDefects
  BY ReceiverAssumption DEF ReceiverFaults, SampleDefects

(* s is a state of the ingress that differs from `shared' only in what the  *)
(* named parameters say.                                                    *)
Ingress(s, phase, fault_, queue, inflight, poisoned) ==
  /\ HasFields(s, SharedFields)
  /\ s.phase = phase /\ s.fault = fault_ /\ s.queue = queue
  /\ s.inflight = inflight /\ s.poisoned = poisoned

FirstOf(fault_, kind) == IF fault_ # None THEN fault_ ELSE kind

LEMMA LatchedIs ==
  ASSUME NEW s, NEW kind, NEW phase, NEW f, NEW queue, NEW inflight, NEW poisoned,
         Ingress(s, phase, f, queue, inflight, poisoned)
  PROVE  Ingress(Latched(s, kind), phase, FirstOf(f, kind), queue, inflight, poisoned)
  BY DEF Ingress, Latched, FirstOf, HasFields, SharedFields

LockedPhase == IF shared.poisoned THEN "Closed" ELSE shared.phase
LockedFault == IF shared.poisoned THEN FirstOf(shared.fault, "InternalStatePoisoned")
               ELSE shared.fault

LEMMA LockedIs ==
  ASSUME Shapes
  PROVE  Ingress(Locked, LockedPhase, LockedFault, shared.queue, shared.inflight, FALSE)
<1> DEFINE s == [shared EXCEPT !.poisoned = FALSE, !.phase = "Closed"]
<1>1. HasFields(shared, SharedFields) /\ shared.poisoned \in BOOLEAN
  BY DEF Shapes
<1>2. Ingress(s, "Closed", shared.fault, shared.queue, shared.inflight, FALSE)
  BY <1>1 DEF Ingress, HasFields, SharedFields
<1>3. CASE shared.poisoned
  <2> HIDE DEF s
  <2>1. Ingress(Latched(s, "InternalStatePoisoned"), "Closed",
                FirstOf(shared.fault, "InternalStatePoisoned"), shared.queue,
                shared.inflight, FALSE)
    BY <1>2, LatchedIs
  <2> QED  BY <1>3, <2>1 DEF Locked, LockedPhase, LockedFault, s
<1>4. CASE ~shared.poisoned
  BY <1>1, <1>4 DEF Locked, LockedPhase, LockedFault, Ingress
<1> QED  BY <1>1, <1>3, <1>4

LEMMA LockedFacts ==
  ASSUME Inv
  PROVE  /\ LockedPhase \in Phases /\ LockedPhase \in {shared.phase, "Closed"}
         /\ LockedFault \in ReceiverFaults \cup {None}
         /\ LockedFault = None => shared.fault = None /\ LockedPhase = shared.phase
         /\ ~owner.opened => LockedPhase = shared.phase /\ LockedFault = shared.fault
         /\ owner.opened => LockedFault # "EvidenceBeforeReady"
  BY FaultsAreNamed DEF Inv, Shapes, Window, LockedPhase, LockedFault, FirstOf, Phases

(* What the owner's steps do to it, once the receiver is open: phase and    *)
(* first fault only go forward, no callback is touched.                     *)
Runs ==
  /\ owner.opened /\ owner'.opened /\ UNCHANGED <<cb, lock>>
  /\ HasFields(shared', SharedFields) /\ HasFields(owner', OwnerFields)
  /\ shared'.inflight = shared.inflight /\ shared'.poisoned \in BOOLEAN
  /\ shared'.phase \in {shared.phase, "Closed"}
  /\ shared'.fault \in {shared.fault, "InternalStatePoisoned", "Assembly"}
  /\ owner'.closed \in BOOLEAN /\ owner'.sealed \in BOOLEAN
  /\ owner.closed => owner'.closed
  /\ owner'.closed => owner'.pc \in AfterClose /\ shared'.phase = "Closed"
  /\ owner'.pc \in Closing => owner'.closed
  /\ owner'.pc = "dropping" => shared'.phase = "Closed"
  /\ owner'.pc \notin InOpening
  /\ owner'.sealed => /\ owner'.closed \/ owner'.pc = "gone"
                      /\ shared'.phase = "Closed" /\ lock = None
                      /\ shared'.queue = <<>> /\ owner'.pending = <<>>

LEMMA RunsKeeps ==
  ASSUME Inv, Runs
  PROVE  Inv'
<1>1. Counted' = Counted
  BY DEF Counted, Runs
<1>2. Shapes'
  <2>1. /\ DOMAIN cb' = Callbacks /\ cb' = [c \in Callbacks |-> cb'[c]]
        /\ \A c \in Callbacks :
             /\ HasFields(cb'[c], ThreadFields)
             /\ cb'[c].pc = "entered" => cb'[c].entered \in {"Starting", "Active"} /\ cb'[c].sample \in Samples
             /\ cb'[c].pc = "copying" => lock' = c /\ cb'[c].entered = "Active"
             /\ cb'[c].pc = "leaving" => cb'[c].entered = "Starting"
    BY DEF Inv, Shapes, Runs
  <2>2. /\ shared'.phase \in Phases /\ shared'.fault \in ReceiverFaults \cup {None}
        /\ shared'.inflight = Cardinality(Counted')
    BY <1>1, FaultsAreNamed DEF Inv, Shapes, Runs, Phases
  <2> QED  BY <2>1, <2>2 DEF Shapes, Runs
<1>3. Sealing'
  BY DEF Sealing, Runs
<1>4. Window'
  BY DEF Inv, Window, Runs, InOpening
<1> QED  BY <1>2, <1>3, <1>4 DEF Inv

-----------------------------------------------------------------------------
(* The owner's steps.                                                       *)

(* owner' is the owner at pc, with other staged events perhaps.             *)
GoesTo(pc) ==
  /\ HasFields(owner', OwnerFields) /\ owner'.pc = pc
  /\ owner'.opened = owner.opened /\ owner'.closed = owner.closed
  /\ owner'.sealed = owner.sealed

LEMMA OwnerAtGoesTo ==
  ASSUME Shapes, NEW pc, OwnerAt(pc)
  PROVE  GoesTo(pc) /\ owner'.pending = owner.pending
  BY DEF Shapes, OwnerAt, GoesTo, HasFields, OwnerFields

(* shared' is the locked ingress with any queue.                            *)
Relocked ==
  \E queue : Ingress(shared', LockedPhase, LockedFault, queue, shared.inflight, FALSE)

LEMMA LockedRelocks ==
  ASSUME Shapes
  PROVE  /\ shared' = Locked => Relocked /\ shared'.queue = shared.queue
         /\ \A queue : shared' = [Locked EXCEPT !.queue = queue] =>
              Relocked /\ shared'.queue = queue
<1>1. Ingress(Locked, LockedPhase, LockedFault, shared.queue, shared.inflight, FALSE)
  BY LockedIs
<1>2. ASSUME NEW queue
      PROVE  Ingress([Locked EXCEPT !.queue = queue], LockedPhase, LockedFault, queue,
                     shared.inflight, FALSE)
  BY <1>1 DEF Ingress, HasFields, SharedFields
<1>3. ASSUME shared' = Locked
      PROVE  Relocked /\ shared'.queue = shared.queue
  <2>1. Ingress(shared', LockedPhase, LockedFault, shared.queue, shared.inflight, FALSE)
    BY <1>1, <1>3
  <2> QED  BY <2>1 DEF Relocked, Ingress
<1>4. ASSUME NEW queue, shared' = [Locked EXCEPT !.queue = queue]
      PROVE  Relocked /\ shared'.queue = queue
  <2>1. Ingress(shared', LockedPhase, LockedFault, queue, shared.inflight, FALSE)
    BY <1>2, <1>4
  <2> QED  BY <2>1 DEF Relocked, Ingress
<1> QED  BY <1>3, <1>4

(* shared' keeps its phase, fault, poison and count.                        *)
LeftAlone ==
  Ingress(shared', shared.phase, shared.fault, shared'.queue, shared.inflight, shared.poisoned)

LEMMA UnlockedTouches ==
  ASSUME Shapes
  PROVE  /\ shared' = shared => LeftAlone
         /\ \A queue : shared' = [shared EXCEPT !.queue = queue] => LeftAlone
         /\ \A b : shared' = [shared EXCEPT !.terminalNote = b] => LeftAlone
         /\ \A b : shared' = [shared EXCEPT !.startupNote = b] => LeftAlone
  BY DEF Shapes, LeftAlone, Ingress, HasFields, SharedFields

(* A step of an open receiver that is not closed seals nothing.             *)
LEMMA OpenStepRuns ==
  ASSUME Inv, owner.pc \in Receiving \ {"loop"}, UNCHANGED <<cb, lock>>,
         NEW pc \in Receiving \cup {"ready"}, GoesTo(pc),
         \/ Relocked \/ LeftAlone
         \/ Ingress(shared', LockedPhase, FirstOf(LockedFault, "Assembly"), shared.queue,
                    shared.inflight, FALSE)
  PROVE  Runs
<1>1. ~owner.closed /\ ~owner.sealed /\ owner.opened
  BY DEF Inv, Sealing, Window, Receiving, AfterClose, InOpening
<1>2. /\ HasFields(shared', SharedFields) /\ shared'.inflight = shared.inflight
      /\ shared'.poisoned \in BOOLEAN
  BY DEF Relocked, LeftAlone, Ingress, Inv, Shapes
<1>3. /\ shared'.phase \in {shared.phase, "Closed"}
      /\ shared'.fault \in {shared.fault, "InternalStatePoisoned", "Assembly"}
  BY LockedFacts DEF Relocked, LeftAlone, Ingress, LockedFault, FirstOf
<1>4. /\ owner'.opened /\ owner'.closed = FALSE /\ owner'.sealed = FALSE
      /\ owner.opened /\ owner.closed = FALSE
  BY <1>1 DEF GoesTo, Inv, Shapes
<1>5. /\ owner'.pc \notin InOpening \cup Closing /\ owner'.pc # "dropping"
      /\ HasFields(owner', OwnerFields)
  BY DEF GoesTo, Receiving, Closing, InOpening
<1> QED  BY <1>2, <1>3, <1>4, <1>5 DEF Runs

LEMMA ReceivingRuns ==
  ASSUME Inv, owner.pc # "loop", ReceivingStep
  PROVE  Runs
<1> USE DEF Receiving
<1>0. Shapes
  BY DEF Inv
<1>1. CASE LookForFault
  BY <1>1 DEF LookForFault
<1>2. CASE LookAtClock
  <2>1. PICK pc \in {"due", "budget"} : OwnerAt(pc)
    BY <1>2 DEF LookAtClock
  <2> QED  BY <1>0, <1>2, <2>1, OwnerAtGoesTo, UnlockedTouches, OpenStepRuns DEF LookAtClock
<1>3. CASE TakePriority
  <2>1. LeftAlone
    BY <1>0, <1>3, UnlockedTouches DEF TakePriority
  <2>2. GoesTo("take") \/ GoesTo("hand")
    BY <1>0, <1>3 DEF TakePriority, OwnerAt, Shapes, GoesTo, HasFields, OwnerFields
  <2> QED  BY <1>3, <2>1, <2>2, OpenStepRuns DEF TakePriority
<1>4. CASE TakePendingEvent
  <2>1. Relocked
    BY <1>0, <1>4, LockedRelocks DEF TakePendingEvent
  <2>2. GoesTo("ready") \/ GoesTo("arming")
    BY <1>0, <1>4 DEF TakePendingEvent, OwnerAt, Shapes, GoesTo, HasFields, OwnerFields
  <2> QED  BY <1>4, <2>1, <2>2, OpenStepRuns DEF TakePendingEvent
<1>5. CASE ArmSelect
  BY <1>0, <1>5, OwnerAtGoesTo, UnlockedTouches, OpenStepRuns DEF ArmSelect
<1>6. CASE WakeForFault
  BY <1>0, <1>6, OwnerAtGoesTo, UnlockedTouches, OpenStepRuns DEF WakeForFault
<1>7. CASE WakeForIngress
  <2>1. LeftAlone
    BY <1>0, <1>7, UnlockedTouches DEF WakeForIngress
  <2>2. GoesTo("hand")
    BY <1>0, <1>7 DEF WakeForIngress, Shapes, GoesTo, HasFields, OwnerFields
  <2> QED  BY <1>7, <2>1, <2>2, OpenStepRuns DEF WakeForIngress
<1>8. CASE WakeForDeadline
  BY <1>0, <1>8, OwnerAtGoesTo, UnlockedTouches, OpenStepRuns DEF WakeForDeadline
<1>9. CASE StageEvents
  <2>1. GoesTo("loop")
    BY <1>0, <1>9 DEF StageEvents, OwnerAt, Shapes, GoesTo, HasFields, OwnerFields
  <2>2. CASE shared' = Locked
    BY <1>0, <1>9, <2>1, <2>2, LockedRelocks, OpenStepRuns DEF StageEvents
  <2>3. CASE shared' = Latched(Locked, "Assembly")
    <3>1. Ingress(shared', LockedPhase, FirstOf(LockedFault, "Assembly"), shared.queue,
                  shared.inflight, FALSE)
      BY <1>0, <2>3, LockedIs, LatchedIs
    <3> QED  BY <1>9, <2>1, <3>1, OpenStepRuns DEF StageEvents
  <2> QED  BY <1>9, <2>2, <2>3 DEF StageEvents
<1> QED  BY <1>1, <1>2, <1>3, <1>4, <1>5, <1>6, <1>7, <1>8, <1>9 DEF ReceivingStep

LEMMA AssemblingRuns ==
  ASSUME Inv, AssemblingStep
  PROVE  Runs
<1> USE DEF Receiving
<1>0. Shapes
  BY DEF Inv
<1>1. ASSUME NEW extra, Expire(extra)
      PROVE  GoesTo("staging")
  BY <1>0, <1>1 DEF Expire, Shapes, GoesTo, HasFields, OwnerFields
<1>2. CASE ReachDeadline
  <2>1. Relocked
    BY <1>0, <1>2, LockedRelocks DEF ReachDeadline
  <2>2. GoesTo("staging") \/ GoesTo("hand")
    BY <1>0, <1>1, <1>2 DEF ReachDeadline, Shapes, GoesTo, HasFields, OwnerFields
  <2> QED  BY <1>2, <2>1, <2>2, OpenStepRuns DEF ReachDeadline
<1>3. CASE ProcessOrExpire
  <2>1. Relocked
    BY <1>0, <1>3, LockedRelocks DEF ProcessOrExpire
  <2>2. GoesTo("staging")
    BY <1>0, <1>1, <1>3 DEF ProcessOrExpire, Shapes, GoesTo, HasFields, OwnerFields
  <2> QED  BY <1>3, <2>1, <2>2, OpenStepRuns DEF ProcessOrExpire
<1> QED  BY <1>2, <1>3 DEF AssemblingStep

(* What is left of Runs when a step seals nothing and keeps the owner out   *)
(* of the states that need the phase to be closed.                          *)
LEMMA CalmStepRuns ==
  ASSUME Inv, owner.pc \notin InOpening \cup {"gone"}, UNCHANGED <<cb, lock>>, Relocked \/ LeftAlone,
         NEW pc \in AfterClose \ {"dropping", "gone"}, GoesTo(pc), owner'.pending = owner.pending,
         pc \in Closing => owner.closed,
         shared'.queue = shared.queue
  PROVE  Runs
<1>1. owner.opened /\ owner'.opened
  BY DEF Inv, Window, GoesTo
<1>2. /\ HasFields(shared', SharedFields) /\ shared'.inflight = shared.inflight
      /\ shared'.poisoned \in BOOLEAN
  BY DEF Relocked, LeftAlone, Ingress, Inv, Shapes
<1>3. /\ shared'.phase \in {shared.phase, "Closed"}
      /\ shared'.fault \in {shared.fault, "InternalStatePoisoned", "Assembly"}
  BY LockedFacts DEF Relocked, LeftAlone, Ingress, LockedFault, FirstOf
<1>4. owner'.closed \in BOOLEAN /\ owner'.sealed \in BOOLEAN
  BY DEF Inv, Shapes, GoesTo
<1>5. owner'.pc \notin InOpening /\ owner'.pc # "dropping"
  BY DEF GoesTo, InOpening, AfterClose
<1>6. owner'.closed => owner'.pc \in AfterClose /\ shared'.phase = "Closed"
  BY <1>3 DEF Inv, Sealing, GoesTo
<1>7. owner'.sealed => /\ owner'.closed \/ owner'.pc = "gone"
                       /\ shared'.phase = "Closed" /\ lock = None
                       /\ shared'.queue = <<>> /\ owner'.pending = <<>>
  BY <1>3 DEF Inv, Sealing, GoesTo
<1> QED  BY <1>1, <1>2, <1>3, <1>4, <1>5, <1>6, <1>7 DEF Runs, GoesTo

LEMMA EmptyingRuns ==
  ASSUME Inv, owner.pc \notin InOpening \cup {"gone"}, UNCHANGED <<cb, lock>>, lock = None,
         shared' = [Locked EXCEPT !.queue = <<>>],
         HasFields(owner', OwnerFields), owner'.pending = <<>>,
         owner'.opened = owner.opened, owner'.closed = owner.closed, owner'.sealed \in BOOLEAN,
         owner'.pc \in AfterClose \ {"dropping"},
         owner'.pc \in Closing => owner.closed,
         owner'.sealed => owner.sealed \/ owner.closed \/ owner.pc = "dropping",
         owner.pc = "dropping" => owner'.pc = "gone"
  PROVE  Runs
<1>1. Relocked /\ shared'.queue = <<>>
  BY LockedRelocks DEF Inv
<1>2. /\ HasFields(shared', SharedFields) /\ shared'.inflight = shared.inflight
      /\ shared'.poisoned \in BOOLEAN
      /\ shared'.phase \in {shared.phase, "Closed"}
      /\ shared'.fault \in {shared.fault, "InternalStatePoisoned", "Assembly"}
  BY <1>1, LockedFacts DEF Relocked, Ingress, LockedFault, FirstOf
<1>3. owner.opened /\ owner'.opened /\ owner'.closed \in BOOLEAN
  BY DEF Inv, Window, Shapes
<1>4. owner'.pc \notin InOpening
  BY DEF AfterClose, InOpening
<1>5. /\ owner'.closed => owner'.pc \in AfterClose /\ shared'.phase = "Closed"
      /\ owner'.sealed => /\ owner'.closed \/ owner'.pc = "gone"
                          /\ shared'.phase = "Closed"
  BY <1>2 DEF Inv, Sealing
<1> QED  BY <1>1, <1>2, <1>3, <1>4, <1>5 DEF Runs

LEMMA LoopRuns ==
  ASSUME Inv, LookForFault
  PROVE  Runs
<1>0. Shapes /\ owner.pc = "loop" /\ lock = None /\ UNCHANGED <<cb, lock>>
  BY DEF Inv, LookForFault
<1>1. CASE /\ shared' = [Locked EXCEPT !.queue = <<>>]
           /\ owner' = [owner EXCEPT !.pc = "ready", !.pending = <<>>]
  <2>1. GoesTo("ready") /\ owner'.pending = <<>>
    BY <1>0, <1>1 DEF Shapes, GoesTo, HasFields, OwnerFields
  <2> QED  BY <1>0, <1>1, <2>1, EmptyingRuns DEF GoesTo, Shapes, InOpening, Closing, AfterClose
<1>2. CASE shared' = Locked /\ OwnerAt("ready")
  BY <1>0, <1>2, OwnerAtGoesTo, LockedRelocks, CalmStepRuns DEF InOpening, Closing, AfterClose
<1>3. CASE ~owner.closed /\ shared' = Locked /\ OwnerAt("dated")
  <2>1. GoesTo("dated") /\ Relocked
    BY <1>0, <1>3, OwnerAtGoesTo, LockedRelocks
  <2>2. owner.closed = FALSE /\ owner.sealed = FALSE /\ owner.opened
    BY <1>0, <1>3 DEF Inv, Shapes, Sealing, Window, InOpening
  <2>3. /\ HasFields(shared', SharedFields) /\ shared'.inflight = shared.inflight
        /\ shared'.poisoned \in BOOLEAN
        /\ shared'.phase \in {shared.phase, "Closed"}
        /\ shared'.fault \in {shared.fault, "InternalStatePoisoned", "Assembly"}
    BY <2>1, LockedFacts DEF Relocked, Ingress, LockedFault, FirstOf
  <2>4. /\ owner'.opened /\ owner'.closed = FALSE /\ owner'.sealed = FALSE
        /\ owner'.pc = "dated" /\ HasFields(owner', OwnerFields)
    BY <2>1, <2>2 DEF GoesTo
  <2> QED  BY <1>0, <2>2, <2>3, <2>4 DEF Runs, InOpening, Closing
<1> QED  BY <1>1, <1>2, <1>3 DEF LookForFault

LEMMA ClosingRuns ==
  ASSUME Inv, ClosingStep
  PROVE  Runs
<1> USE DEF InOpening, Closing, AfterClose
<1>0. Shapes
  BY DEF Inv
<1>1. ASSUME NEW next \in {"undeclareObservation", "gone"}, Discarded(next)
      PROVE  /\ HasFields(owner', OwnerFields) /\ owner'.pending = <<>> /\ owner'.pc = next
             /\ owner'.opened = owner.opened /\ owner'.closed = owner.closed
             /\ owner'.sealed \in BOOLEAN
             /\ shared' = [Locked EXCEPT !.queue = <<>>]
             /\ UNCHANGED <<cb, lock>> /\ lock = None
  BY <1>0, <1>1 DEF Discarded, Fenced, Shapes, HasFields, OwnerFields
<1>2. CASE Seal
  <2>1. owner.pc = "sealing" /\ owner.closed /\ Discarded("undeclareObservation")
    BY <1>2 DEF Seal, Inv, Sealing
  <2> QED  BY <1>1, <2>1, EmptyingRuns
<1>3. CASE FinishDrop
  <2>1. owner.pc = "dropping" /\ Discarded("gone")
    BY <1>3 DEF FinishDrop
  <2> QED  BY <1>1, <2>1, EmptyingRuns
<1>4. CASE UndeclareObservation
  <2>1. owner.closed /\ UNCHANGED <<cb, lock>> /\ shared' = shared
    BY <1>4 DEF UndeclareObservation, Inv, Sealing
  <2>2. LeftAlone
    BY <1>0, <2>1, UnlockedTouches
  <2>3. PICK next \in {"undeclareMonitor", "ready"} : OwnerAt(next)
    BY <1>4 DEF UndeclareObservation
  <2>4. GoesTo(next) /\ owner'.pending = owner.pending
    BY <1>0, <2>3, OwnerAtGoesTo
  <2> QED  BY <1>4, <2>1, <2>2, <2>4, CalmStepRuns DEF UndeclareObservation
<1>5. CASE UndeclareMonitor \/ CloseBus
  <2>1. owner.closed /\ UNCHANGED <<cb, lock>> /\ shared' = shared
    BY <1>5 DEF UndeclareMonitor, CloseBus, Inv, Sealing
  <2>2. LeftAlone
    BY <1>0, <2>1, UnlockedTouches
  <2>3. owner.pc \in {"undeclareMonitor", "closeBus"}
    BY <1>5 DEF UndeclareMonitor, CloseBus
  <2>4. PICK next \in {"closeBus", "ready"} : GoesTo(next) /\ owner'.pending = owner.pending
    BY <1>0, <1>5 DEF UndeclareMonitor, CloseBus, OwnerAt, Shapes, GoesTo, HasFields, OwnerFields
  <2> QED  BY <2>1, <2>2, <2>3, <2>4, CalmStepRuns
<1> QED  BY <1>2, <1>3, <1>4, <1>5 DEF ClosingStep

(* The calls the owner makes, and the clock.                                *)
LEMMA CallsRun ==
  ASSUME Inv, StartRecv \/ CancelRecv \/ StartClose \/ DropReceiver
  PROVE  Runs
<1> USE DEF InOpening, Closing, AfterClose
<1>0. Shapes
  BY DEF Inv
<1>1. CASE StartRecv
  <2>1. GoesTo("loop") /\ owner'.pending = owner.pending
    BY <1>0, <1>1 DEF StartRecv, Shapes, GoesTo, HasFields, OwnerFields
  <2> QED  BY <1>0, <1>1, <2>1, LockedRelocks, CalmStepRuns DEF StartRecv
<1>2. CASE CancelRecv
  BY <1>0, <1>2, OwnerAtGoesTo, UnlockedTouches, CalmStepRuns DEF CancelRecv
<1>3. CASE StartClose
  <2>1. /\ HasFields(owner', OwnerFields) /\ owner'.pc = "sealing" /\ owner'.closed = TRUE
        /\ owner'.pending = owner.pending /\ owner'.opened = owner.opened
        /\ owner'.sealed = owner.sealed
    BY <1>0, <1>3 DEF StartClose, Shapes, HasFields, OwnerFields
  <2>2. /\ HasFields(shared', SharedFields) /\ shared'.phase = "Closed"
        /\ shared'.fault = shared.fault /\ shared'.queue = shared.queue
        /\ shared'.inflight = shared.inflight /\ shared'.poisoned = shared.poisoned
    <3>1. CASE owner.closed
      BY <1>0, <1>3, <3>1 DEF StartClose, Inv, Sealing, Shapes
    <3>2. CASE ~owner.closed
      BY <1>0, <1>3, <3>2 DEF StartClose, Shapes, HasFields, SharedFields
    <3> QED  BY <3>1, <3>2
  <2>3. owner.opened /\ owner.pc = "ready" /\ UNCHANGED <<cb, lock>>
    BY <1>3 DEF StartClose, Inv, Window
  <2>4. owner'.sealed => lock = None /\ shared'.queue = <<>> /\ owner'.pending = <<>>
    BY <2>1, <2>2 DEF Inv, Sealing
  <2> QED  BY <1>0, <2>1, <2>2, <2>3, <2>4 DEF Runs, Shapes
<1>4. CASE DropReceiver
  <2>1. GoesTo("dropping") /\ owner'.pending = owner.pending
    BY <1>0, <1>4, OwnerAtGoesTo DEF DropReceiver
  <2>2. /\ HasFields(shared', SharedFields) /\ shared'.phase = "Closed"
        /\ shared'.fault = shared.fault /\ shared'.queue = shared.queue
        /\ shared'.inflight = shared.inflight /\ shared'.poisoned = shared.poisoned
    BY <1>0, <1>4 DEF DropReceiver, Shapes, HasFields, SharedFields
  <2>3. owner.opened /\ owner.pc = "ready" /\ UNCHANGED <<cb, lock>>
    BY <1>4 DEF DropReceiver, Inv, Window
  <2>4. owner'.sealed => /\ owner'.closed /\ lock = None
                         /\ shared'.queue = <<>> /\ owner'.pending = <<>>
    BY <2>1, <2>2, <2>3 DEF Inv, Sealing, GoesTo
  <2> QED  BY <1>0, <2>1, <2>2, <2>3, <2>4 DEF Runs, Shapes, GoesTo
<1> QED  BY <1>1, <1>2, <1>3, <1>4

LEMMA StandsStill ==
  ASSUME Inv, UNCHANGED <<shared, lock, cb, owner>>
  PROVE  Inv'
<1>1. Counted' = Counted
  BY DEF Counted
<1> QED  BY <1>1 DEF Inv, Shapes, Sealing, Window

-----------------------------------------------------------------------------
(* Opening.                                                                 *)

LEMMA NotOpenYet ==
  ASSUME Inv, owner.pc \in InOpening
  PROVE  /\ owner.opened = FALSE /\ owner.closed = FALSE /\ owner.sealed = FALSE
         /\ shared.poisoned = FALSE /\ shared.phase \in Phases \ {"Active"}
         /\ Shapes
         /\ Ingress(Locked, shared.phase, shared.fault, shared.queue, shared.inflight, FALSE)
<1>1. /\ owner.opened = FALSE /\ shared.poisoned = FALSE /\ shared.phase \in Phases \ {"Active"}
      /\ Shapes
  BY DEF Inv, Window, Shapes
<1>2. owner.closed = FALSE /\ owner.sealed = FALSE
  BY DEF Inv, Sealing, Shapes, InOpening, AfterClose
<1>3. Ingress(Locked, shared.phase, shared.fault, shared.queue, shared.inflight, FALSE)
  BY <1>1, LockedIs DEF LockedPhase, LockedFault
<1> QED  BY <1>1, <1>2, <1>3

LEMMA OpeningStepKeeps ==
  ASSUME Inv, owner.pc \in InOpening, UNCHANGED <<cb, lock>>,
         NEW pc \in InOpening \cup {"gone"}, GoesTo(pc),
         NEW phase \in Phases \ {"Active"},
         Ingress(shared', phase, shared.fault, shared.queue, shared.inflight, FALSE),
         pc \in {"drain", "drainWait", "activate"} /\ shared.fault = None => phase = "Activating",
         pc = "activate" /\ shared.fault = None => Counted = {}
  PROVE  Inv'
<1>1. Counted' = Counted
  BY DEF Counted
<1>2. /\ owner.opened = FALSE /\ owner.closed = FALSE /\ owner.sealed = FALSE
      /\ owner'.opened = FALSE /\ owner'.closed = FALSE /\ owner'.sealed = FALSE
      /\ HasFields(owner', OwnerFields) /\ owner'.pc = pc
  BY NotOpenYet DEF GoesTo
<1>3. /\ HasFields(shared', SharedFields) /\ shared'.phase = phase
      /\ shared'.fault = shared.fault /\ shared'.inflight = shared.inflight
      /\ shared'.poisoned = FALSE
  BY DEF Ingress
<1>4. Shapes'
  BY <1>1, <1>2, <1>3 DEF Inv, Shapes
<1>5. Sealing'
  BY <1>2 DEF Sealing, InOpening, Closing
<1>6. Window'
  BY <1>1, <1>2, <1>3 DEF Inv, Window
<1> QED  BY <1>4, <1>5, <1>6 DEF Inv

LEMMA ActivateKeeps ==
  ASSUME Inv, Activate, shared.fault = None
  PROVE  Inv'
<1>1. owner.pc = "activate" /\ UNCHANGED <<cb, lock>>
  BY DEF Activate
<1>2. /\ owner.opened = FALSE /\ owner.closed = FALSE /\ owner.sealed = FALSE /\ Shapes
      /\ Ingress(Locked, shared.phase, None, shared.queue, shared.inflight, FALSE)
  BY <1>1, NotOpenYet DEF InOpening
<1>3. Locked.fault = None
  BY <1>2 DEF Ingress
<1>4. /\ shared' = [Locked EXCEPT !.phase = "Active"]
      /\ owner' = [owner EXCEPT !.pc = "ready", !.opened = TRUE]
  BY <1>3 DEF Activate
<1>5. Ingress(shared', "Active", None, shared.queue, shared.inflight, FALSE)
  BY <1>2, <1>4 DEF Ingress, HasFields, SharedFields
<1>6. /\ HasFields(owner', OwnerFields) /\ owner'.pc = "ready" /\ owner'.opened = TRUE
      /\ owner'.closed = FALSE /\ owner'.sealed = FALSE
  BY <1>2, <1>4 DEF Shapes, HasFields, OwnerFields
<1>7. Counted' = Counted /\ Counted = {}
  BY <1>1 DEF Counted, Inv, Window
<1>8. \A c \in Callbacks : cb[c].pc # "entered"
  <2> SUFFICES ASSUME NEW c \in Callbacks, cb[c].pc = "entered"
               PROVE  FALSE
    OBVIOUS
  <2>1. cb[c].entered = "Starting"
    BY <1>2 DEF Inv, Shapes, Window
  <2> QED  BY <1>7, <2>1 DEF Counted
<1>9. Shapes'
  BY <1>1, <1>2, <1>5, <1>6, <1>7 DEF Shapes, Ingress, Phases
<1>10. Sealing'
  BY <1>6 DEF Sealing, Closing
<1>11. Window'
  BY <1>1, <1>5, <1>6, <1>8, FaultsAreNamed DEF Window, Ingress, InOpening
<1> QED  BY <1>9, <1>10, <1>11 DEF Inv

LEMMA OpeningPlaces ==
  /\ \A pc \in InOpening \cup {"gone"} :
       pc \in {"drain", "drainWait", "activate"} <=>
         pc \notin {"subscribeObservation", "subscribeMonitor", "begin", "gone"}
  /\ "Closed" \in Phases \ {"Active"} /\ "Activating" \in Phases \ {"Active"}
  /\ {"subscribeMonitor", "begin", "drain", "drainWait", "activate", "gone"}
       \subseteq InOpening \cup {"gone"}
  BY DEF InOpening, Phases

LEMMA OpeningKeeps ==
  ASSUME Inv, OpeningStep \/ AbandonOpening
  PROVE  Inv'
<1>0. /\ owner.pc \in InOpening /\ UNCHANGED <<cb, lock>>
  BY DEF OpeningStep, SubscribeObservation, SubscribeMonitor, BeginActivation, Drain, DrainWake,
     Activate, AbandonOpening, InOpening
<1>1. /\ shared.phase \in Phases \ {"Active"} /\ Shapes /\ owner.opened = FALSE
      /\ Ingress(Locked, shared.phase, shared.fault, shared.queue, shared.inflight, FALSE)
      /\ Ingress(shared, shared.phase, shared.fault, shared.queue, shared.inflight, FALSE)
  BY <1>0, NotOpenYet DEF Ingress, Shapes
<1>2. CASE SubscribeObservation \/ SubscribeMonitor
  <2>1. PICK pc \in {"subscribeMonitor", "begin"} : OwnerAt(pc)
    BY <1>2 DEF SubscribeObservation, SubscribeMonitor
  <2>2. GoesTo(pc) /\ shared' = shared
    BY <1>1, <1>2, <2>1, OwnerAtGoesTo DEF SubscribeObservation, SubscribeMonitor
  <2> QED  BY <1>0, <1>1, <2>2, OpeningStepKeeps, OpeningPlaces
<1>3. CASE BeginActivation
  <2>1. GoesTo("drain")
    BY <1>1, <1>3, OwnerAtGoesTo DEF BeginActivation
  <2>2. CASE shared.fault = None
    <3>1. shared' = [Locked EXCEPT !.phase = "Activating"]
      BY <1>1, <1>3, <2>2 DEF BeginActivation, Ingress
    <3>2. Ingress(shared', "Activating", shared.fault, shared.queue, shared.inflight, FALSE)
      BY <1>1, <3>1 DEF Ingress, HasFields, SharedFields
    <3> QED  BY <1>0, <2>1, <3>2, OpeningStepKeeps, OpeningPlaces
  <2>3. CASE shared.fault # None
    <3>1. shared' = Locked
      BY <1>1, <1>3, <2>3 DEF BeginActivation, Ingress
    <3> QED  BY <1>0, <1>1, <2>1, <2>3, <3>1, OpeningStepKeeps, OpeningPlaces
  <2> QED  BY <2>2, <2>3
<1>4. CASE Drain
  <2>1. shared' = shared /\ owner.pc = "drain"
    BY <1>4 DEF Drain
  <2>2. shared.fault = None => shared.phase = "Activating"
    BY <2>1 DEF Inv, Window
  <2>3. CASE shared.inflight = 0
    <3>1. GoesTo("activate")
      BY <1>1, <1>4, <2>3, OwnerAtGoesTo DEF Drain
    <3>2. Counted \subseteq Callbacks /\ IsFiniteSet(Callbacks)
      BY FaultsAreNamed DEF Counted
    <3>3. Counted = {}
      BY <1>1, <2>3, <3>2, FS_Subset, FS_EmptySet DEF Shapes
    <3> QED  BY <1>0, <1>1, <2>1, <2>2, <3>1, <3>3, OpeningStepKeeps, OpeningPlaces
  <2>4. CASE shared.inflight # 0
    <3>1. GoesTo("drainWait")
      BY <1>1, <1>4, <2>4, OwnerAtGoesTo DEF Drain
    <3> QED  BY <1>0, <1>1, <2>1, <2>2, <3>1, OpeningStepKeeps, OpeningPlaces
  <2> QED  BY <2>3, <2>4
<1>5. CASE DrainWake
  <2>1. GoesTo("drain") /\ owner.pc = "drainWait"
    BY <1>1, <1>5, OwnerAtGoesTo DEF DrainWake
  <2>2. Ingress(shared', shared.phase, shared.fault, shared.queue, shared.inflight, FALSE)
    BY <1>1, <1>5 DEF DrainWake, Ingress, HasFields, SharedFields
  <2>3. shared.fault = None => shared.phase = "Activating"
    BY <2>1 DEF Inv, Window
  <2> QED  BY <1>0, <1>1, <2>1, <2>2, <2>3, OpeningStepKeeps, OpeningPlaces
<1>6. CASE Activate /\ shared.fault # None
  <2>1. shared' = [Locked EXCEPT !.phase = "Closed"] /\ OwnerAt("gone")
    BY <1>1, <1>6 DEF Activate, Ingress
  <2>2. Ingress(shared', "Closed", shared.fault, shared.queue, shared.inflight, FALSE)
    BY <1>1, <2>1 DEF Ingress, HasFields, SharedFields
  <2>3. GoesTo("gone")
    BY <1>1, <2>1, OwnerAtGoesTo
  <2> QED  BY <1>0, <2>2, <2>3, OpeningStepKeeps, OpeningPlaces
<1>7. CASE Activate /\ shared.fault = None
  BY <1>7, ActivateKeeps
<1>8. CASE AbandonOpening
  <2>1. GoesTo("gone")
    BY <1>1, <1>8, OwnerAtGoesTo DEF AbandonOpening
  <2>2. PICK phase \in Phases \ {"Active"} :
          Ingress(shared', phase, shared.fault, shared.queue, shared.inflight, FALSE)
    <3>1. CASE shared' = shared
      BY <1>1, <3>1
    <3>2. CASE shared' = [shared EXCEPT !.phase = "Closed"]
      <4>1. Ingress(shared', "Closed", shared.fault, shared.queue, shared.inflight, FALSE)
        BY <1>1, <3>2 DEF Ingress, HasFields, SharedFields
      <4> QED  BY <4>1, OpeningPlaces
    <3> QED  BY <1>8, <3>1, <3>2 DEF AbandonOpening
  <2> QED  BY <1>0, <2>1, <2>2, OpeningStepKeeps, OpeningPlaces
<1> QED  BY <1>2, <1>3, <1>4, <1>5, <1>6, <1>7, <1>8 DEF OpeningStep

-----------------------------------------------------------------------------
(* The callbacks.                                                           *)

Counts(x) == x.pc \in {"entered", "leaving"} /\ x.entered = "Starting"

LEMMA CountedIs ==
  ASSUME Shapes, NEW c \in Callbacks, NEW x, cb' = [cb EXCEPT ![c] = x]
  PROVE  /\ Counted' = IF Counts(x) THEN Counted \cup {c} ELSE Counted \ {c}
         /\ Counts(x) /\ Counts(cb[c]) => Cardinality(Counted') = shared.inflight
         /\ ~Counts(x) /\ ~Counts(cb[c]) => Cardinality(Counted') = shared.inflight
         /\ Counts(x) /\ ~Counts(cb[c]) => Cardinality(Counted') = shared.inflight + 1
         /\ ~Counts(x) /\ Counts(cb[c]) => Cardinality(Counted') = shared.inflight - 1
<1>1. Counted' = IF Counts(x) THEN Counted \cup {c} ELSE Counted \ {c}
  BY DEF Shapes, Counted, Counts
<1>2. c \in Counted <=> Counts(cb[c])
  BY DEF Counted, Counts
<1>3. IsFiniteSet(Counted) /\ Cardinality(Counted) = shared.inflight
  BY FaultsAreNamed, FS_Subset DEF Shapes, Counted
<1>4. /\ Cardinality(Counted \cup {c}) = IF c \in Counted THEN Cardinality(Counted) ELSE Cardinality(Counted) + 1
      /\ Cardinality(Counted \ {c}) = IF c \in Counted THEN Cardinality(Counted) - 1 ELSE Cardinality(Counted)
  BY <1>3, FS_AddElement, FS_RemoveElement
<1> QED  BY <1>1, <1>2, <1>3, <1>4

LEMMA CallbackStepKeeps ==
  ASSUME Inv, owner' = owner, NEW c \in Callbacks, NEW x, HasFields(x, ThreadFields),
         cb' = [cb EXCEPT ![c] = x],
         x.pc = "entered" => x.entered \in {"Starting", "Active"} /\ x.sample \in Samples,
         x.pc = "copying" => lock' = c /\ x.entered = "Active",
         x.pc = "leaving" => x.entered = "Starting",
         \A d \in Callbacks \ {c} : cb[d].pc = "copying" => lock' = d,
         HasFields(shared', SharedFields), shared'.phase \in Phases,
         shared'.phase \in {shared.phase, "Closed"},
         shared'.fault \in ReceiverFaults \cup {None}, shared'.poisoned \in BOOLEAN,
         shared'.inflight = Cardinality(Counted'),
         ~owner.opened => /\ shared'.phase = shared.phase /\ ~shared'.poisoned
                          /\ x.entered # "Active",
         shared'.fault = None => shared.fault = None,
         owner.opened => /\ shared'.fault # "EvidenceBeforeReady"
                         /\ x.pc = "entered" => x.entered = "Active",
         owner.sealed => lock' = None /\ shared'.queue = <<>>,
         owner.pc = "activate" /\ shared'.fault = None => Counted' \subseteq Counted
  PROVE  Inv'
<1>2. /\ DOMAIN cb' = Callbacks /\ cb' = [d \in Callbacks |-> cb'[d]]
      /\ cb'[c] = x /\ \A d \in Callbacks \ {c} : cb'[d] = cb[d]
  BY DEF Inv, Shapes
<1>3. \A d \in Callbacks :
        /\ HasFields(cb'[d], ThreadFields)
        /\ cb'[d].pc = "entered" => cb'[d].entered \in {"Starting", "Active"} /\ cb'[d].sample \in Samples
        /\ cb'[d].pc = "copying" => lock' = d /\ cb'[d].entered = "Active"
        /\ cb'[d].pc = "leaving" => cb'[d].entered = "Starting"
  BY <1>2 DEF Inv, Shapes
<1>4. Shapes'
  BY <1>2, <1>3 DEF Inv, Shapes
<1>5. Sealing'
  BY DEF Inv, Sealing
<1>6. Window'
  <2>1. ~owner.opened => \A d \in Callbacks : cb'[d].entered # "Active"
    BY <1>2 DEF Inv, Window
  <2>2. owner.opened => \A d \in Callbacks : cb'[d].pc = "entered" => cb'[d].entered = "Active"
    BY <1>2 DEF Inv, Window
  <2>3. ~owner.opened => shared'.phase # "Active" /\ ~shared'.poisoned
    BY DEF Inv, Window
  <2>4. owner.pc \in {"drain", "drainWait", "activate"} /\ shared'.fault = None =>
          shared'.phase = "Activating"
    BY DEF Inv, Window, InOpening
  <2>5. owner.pc = "activate" /\ shared'.fault = None => Counted' = {}
    BY DEF Inv, Window
  <2>6. owner.opened => shared'.phase \in {"Active", "Closed"} /\ shared'.fault # "EvidenceBeforeReady"
    BY DEF Inv, Window
  <2> QED  BY <2>1, <2>2, <2>3, <2>4, <2>5, <2>6 DEF Inv, Window
<1> QED  BY <1>4, <1>5, <1>6 DEF Inv

LEMMA NoneIsNoPhase == None # "Active" /\ None # "Starting"
  BY ReceiverAssumption DEF Phases

LEMMA LeaveIs ==
  ASSUME Inv, NEW c \in Callbacks, cb[c].pc \in {"entered", "copying"}
  PROVE  LET x == Leave(c) IN
         /\ HasFields(x, ThreadFields)
         /\ x.pc \in {"leaving", "idle"}
         /\ x.pc = "leaving" => x.entered = "Starting"
         /\ x.entered # "Active"
         /\ Counts(x) <=> Counts(cb[c])
<1>1. /\ HasFields(cb[c], ThreadFields) /\ cb[c].entered \in {"Starting", "Active"}
      /\ cb[c].pc = "copying" => cb[c].entered = "Active"
  BY DEF Inv, Shapes
<1> DEFINE x == Leave(c)
<1>2. CASE cb[c].entered = "Starting"
  <2>1. HasFields(x, ThreadFields) /\ x.pc = "leaving" /\ x.entered = "Starting"
    BY <1>1, <1>2 DEF Leave, HasFields, ThreadFields
  <2> QED  BY <1>1, <1>2, <2>1 DEF Counts
<1>3. CASE cb[c].entered = "Active"
  <2>1. HasFields(x, ThreadFields) /\ x.pc = "idle" /\ x.entered = None
    BY <1>1, <1>3 DEF Leave, HasFields, ThreadFields
  <2> QED  BY <1>1, <1>3, <2>1, FaultsAreNamed, NoneIsNoPhase DEF Counts
<1> QED  BY <1>1, <1>2, <1>3

(* A callback step that finds the mutex free and leaves it relocked.        *)
LEMMA FreshLock ==
  ASSUME Inv, NEW c \in Callbacks, lock = None
  PROVE  /\ \A d \in Callbacks : cb[d].pc # "copying"
         /\ LockedPhase \in Phases /\ LockedPhase \in {shared.phase, "Closed"}
         /\ LockedFault \in ReceiverFaults \cup {None}
         /\ Ingress(Locked, LockedPhase, LockedFault, shared.queue, shared.inflight, FALSE)
         /\ Locked.phase = LockedPhase /\ Locked.fault = LockedFault
  BY FaultsAreNamed, LockedIs, LockedFacts DEF Inv, Shapes, Ingress

LEMMA EnterKeeps ==
  ASSUME Inv, NEW c \in Callbacks, NEW sample \in Samples, EnterCallback(c, sample)
  PROVE  Inv'
<1>1. /\ lock = None /\ lock' = None /\ owner' = owner /\ cb[c].pc = "idle"
      /\ Locked.phase # "Activating"
  BY DEF EnterCallback
<1>2. /\ \A d \in Callbacks : cb[d].pc # "copying"
      /\ LockedPhase \in Phases /\ LockedPhase \in {shared.phase, "Closed"}
      /\ LockedFault \in ReceiverFaults \cup {None}
      /\ Ingress(Locked, LockedPhase, LockedFault, shared.queue, shared.inflight, FALSE)
      /\ Locked.phase = LockedPhase
  BY <1>1, FreshLock
<1>3. /\ LockedFault = None => shared.fault = None /\ LockedPhase = shared.phase
      /\ ~owner.opened => LockedPhase = shared.phase
      /\ owner.opened => LockedFault # "EvidenceBeforeReady"
  BY LockedFacts
<1>4. ~(owner.pc = "activate" /\ LockedFault = None)
  BY <1>1, <1>2, <1>3 DEF Inv, Window
<1>5. owner.sealed => shared.queue = <<>>
  BY DEF Inv, Sealing
<1>6. Shapes
  BY DEF Inv
<1>7. ~Counts(cb[c])
  BY <1>1 DEF Counts
<1>8. CASE LockedPhase = "Closed"
  <2>1. shared' = Locked /\ cb' = cb
    BY <1>2, <1>8 DEF EnterCallback
  <2> DEFINE x == cb[c]
  <2>2. cb' = [cb EXCEPT ![c] = x] /\ HasFields(x, ThreadFields)
    BY <1>6, <2>1 DEF Shapes
  <2>3. shared.inflight = Cardinality(Counted')
    BY <2>1, <1>6 DEF Counted, Shapes
  <2>4. /\ ~owner.opened => x.entered # "Active"
        /\ x.pc = "idle"
    BY <1>1 DEF Inv, Window
  <2> QED  BY <1>1, <1>2, <1>3, <1>4, <1>5, <2>1, <2>2, <2>3, <2>4, CallbackStepKeeps DEF Ingress
<1>9. CASE LockedPhase # "Closed"
  <2> DEFINE x == [pc |-> "entered", entered |-> LockedPhase, sample |-> sample, at |-> None]
  <2>1. cb' = [cb EXCEPT ![c] = x]
    BY <1>2, <1>9 DEF EnterCallback
  <2>2. /\ HasFields(x, ThreadFields) /\ x.pc = "entered" /\ x.entered = LockedPhase
        /\ x.sample \in Samples
    BY DEF HasFields, ThreadFields
  <2>3. LockedPhase \in {"Starting", "Active"}
    BY <1>1, <1>2, <1>9 DEF Phases
  <2>4. ~owner.opened => LockedPhase # "Active"
    BY <1>3 DEF Inv, Window
  <2>5. owner.opened => LockedPhase = "Active"
    BY <1>2, <1>9 DEF Inv, Window
  <2> DEFINE n == IF LockedPhase = "Starting" THEN shared.inflight + 1 ELSE shared.inflight
  <2>6. n = Cardinality(Counted')
    <3> HIDE DEF x
    <3>1. Counts(x) <=> LockedPhase = "Starting"
      BY <2>2 DEF Counts
    <3> QED  BY <1>6, <1>7, <2>1, <3>1, CountedIs
  <2>7. Ingress(shared', LockedPhase, LockedFault, shared.queue, n, FALSE)
    <3>1. CASE LockedPhase = "Starting"
      <4>1. shared' = [Locked EXCEPT !.inflight = @ + 1]
        BY <1>2, <3>1 DEF EnterCallback
      <4> QED  BY <1>2, <3>1, <4>1 DEF Ingress, HasFields, SharedFields
    <3>2. CASE LockedPhase # "Starting"
      <4>1. shared' = Locked
        BY <1>2, <3>2 DEF EnterCallback
      <4> QED  BY <1>2, <3>2, <4>1
    <3> QED  BY <3>1, <3>2
  <2> HIDE DEF x, n
  <2> QED  BY <1>1, <1>2, <1>3, <1>4, <1>5, <2>1, <2>2, <2>3, <2>4, <2>5, <2>6, <2>7,
              CallbackStepKeeps DEF Ingress
<1> QED  BY <1>8, <1>9

LEMMA AcceptKeeps ==
  ASSUME Inv, NEW c \in Callbacks, AcceptPayload(c)
  PROVE  Inv'
<1>1. lock = None /\ owner' = owner /\ cb[c].pc = "entered"
  BY DEF AcceptPayload
<1>2. /\ \A d \in Callbacks : cb[d].pc # "copying"
      /\ LockedPhase \in Phases /\ LockedPhase \in {shared.phase, "Closed"}
      /\ LockedFault \in ReceiverFaults \cup {None}
      /\ Ingress(Locked, LockedPhase, LockedFault, shared.queue, shared.inflight, FALSE)
      /\ Locked.phase = LockedPhase /\ Locked.fault = LockedFault
  BY <1>1, FreshLock
<1>3. /\ LockedFault = None => shared.fault = None
      /\ ~owner.opened => LockedPhase = shared.phase
      /\ owner.opened => LockedFault # "EvidenceBeforeReady"
  BY LockedFacts
<1>4. owner.sealed => shared.queue = <<>> /\ LockedPhase = "Closed"
  BY <1>2 DEF Inv, Sealing
<1>5. Shapes
  BY DEF Inv
<1>6. /\ HasFields(cb[c], ThreadFields) /\ cb[c].entered \in {"Starting", "Active"}
      /\ cb[c].sample \in Samples
      /\ owner.opened <=> cb[c].entered = "Active"
  BY <1>1 DEF Inv, Shapes, Window
<1>7. ASSUME NEW f \in ReceiverFaults \cup {None}, cb' = [cb EXCEPT ![c] = Leave(c)],
             lock' = lock, f = None => LockedFault = None,
             owner.opened => f # "EvidenceBeforeReady",
             Ingress(shared', LockedPhase, f, shared.queue, shared.inflight, FALSE)
      PROVE  Inv'
  <2> DEFINE x == Leave(c)
  <2>1. /\ HasFields(x, ThreadFields) /\ x.pc \in {"leaving", "idle"}
        /\ x.pc = "leaving" => x.entered = "Starting"
        /\ x.entered # "Active" /\ (Counts(x) <=> Counts(cb[c]))
    BY <1>1, LeaveIs
  <2> HIDE DEF x
  <2>2. cb' = [cb EXCEPT ![c] = x]
    BY <1>7 DEF x
  <2>3. shared.inflight = Cardinality(Counted') /\ Counted' \subseteq Counted
    <3>1. /\ Counted' = IF Counts(x) THEN Counted \cup {c} ELSE Counted \ {c}
          /\ shared.inflight = Cardinality(Counted')
      BY <1>5, <2>1, <2>2, CountedIs
    <3>2. Counts(cb[c]) => c \in Counted
      BY DEF Counted, Counts
    <3> QED  BY <2>1, <3>1, <3>2
  <2> QED  BY <1>1, <1>2, <1>3, <1>4, <1>7, <2>1, <2>2, <2>3, CallbackStepKeeps DEF Ingress
<1>8. ASSUME NEW kind \in ReceiverFaults, shared' = Latched(Locked, kind),
             cb' = [cb EXCEPT ![c] = Leave(c)], lock' = lock, LockedFault = None,
             owner.opened => kind # "EvidenceBeforeReady"
      PROVE  Inv'
  <2>1. Ingress(shared', LockedPhase, FirstOf(LockedFault, kind), shared.queue,
                shared.inflight, FALSE)
    BY <1>2, <1>8, LatchedIs
  <2> QED  BY <1>7, <1>8, <2>1 DEF FirstOf
<1>9. CASE shared' = Locked /\ cb' = [cb EXCEPT ![c] = Leave(c)] /\ lock' = lock
  BY <1>2, <1>3, <1>7, <1>9
<1>10. CASE LockedFault = None /\ cb[c].entered # "Active" /\ lock' = lock
            /\ shared' = Latched(Locked, "EvidenceBeforeReady")
            /\ cb' = [cb EXCEPT ![c] = Leave(c)]
  BY <1>6, <1>8, <1>10, FaultsAreNamed
<1>11. CASE LockedFault = None /\ cb[c].sample.defect # None /\ lock' = lock
            /\ shared' = Latched(Locked, cb[c].sample.defect)
            /\ cb' = [cb EXCEPT ![c] = Leave(c)]
  <2>1. cb[c].sample.defect \in SampleDefects
    BY <1>6, <1>11, ReceiverAssumption
  <2> QED  BY <1>8, <1>11, <2>1, FaultsAreNamed
<1>12. CASE /\ LockedPhase # "Closed" /\ LockedFault = None /\ cb[c].entered = "Active"
            /\ shared' = Locked /\ lock' = c
            /\ cb' = [cb EXCEPT ![c].pc = "copying", ![c].at = clock]
  <2> DEFINE x == [cb[c] EXCEPT !.pc = "copying", !.at = clock]
  <2>1. cb' = [cb EXCEPT ![c] = x]
    BY <1>5, <1>12 DEF Shapes
  <2>2. HasFields(x, ThreadFields) /\ x.pc = "copying" /\ x.entered = "Active"
    BY <1>6, <1>12 DEF HasFields, ThreadFields
  <2> HIDE DEF x
  <2>3. ~Counts(x) /\ ~Counts(cb[c])
    BY <1>12, <2>2 DEF Counts
  <2>4. shared.inflight = Cardinality(Counted') /\ Counted' \subseteq Counted
    BY <1>5, <2>1, <2>3, CountedIs
  <2>5. owner.opened /\ ~owner.sealed
    BY <1>4, <1>6, <1>12
  <2> QED  BY <1>1, <1>2, <1>3, <1>12, <2>1, <2>2, <2>4, <2>5, CallbackStepKeeps DEF Ingress
<1> QED  BY <1>2, <1>9, <1>10, <1>11, <1>12 DEF AcceptPayload, HoldWhileCopying

LEMMA CopyEndsKeeps ==
  ASSUME Inv, NEW c \in Callbacks, EnqueuePayload(c) \/ PanicInCallback(c)
  PROVE  Inv'
<1>1. /\ lock = c /\ lock' = None /\ owner' = owner /\ cb[c].pc = "copying"
      /\ cb' = [cb EXCEPT ![c] = Leave(c)]
  BY DEF Inv, Shapes, EnqueuePayload, PanicInCallback
<1>2. /\ c # None /\ owner.opened /\ ~owner.sealed /\ Shapes
      /\ \A d \in Callbacks \ {c} : cb[d].pc # "copying"
  BY <1>1, FaultsAreNamed DEF Inv, Shapes, Sealing, Window
<1> DEFINE x == Leave(c)
<1>3. /\ HasFields(x, ThreadFields) /\ x.pc \in {"leaving", "idle"}
      /\ x.pc = "leaving" => x.entered = "Starting"
      /\ x.entered # "Active" /\ (Counts(x) <=> Counts(cb[c]))
  BY <1>1, LeaveIs
<1>4. cb' = [cb EXCEPT ![c] = x]
  BY <1>1
<1> HIDE DEF x
<1>5. shared.inflight = Cardinality(Counted')
  BY <1>2, <1>3, <1>4, CountedIs
<1>6. ~(owner.pc = "activate")
  BY <1>2 DEF Inv, Window, InOpening
<1>7. PICK f \in ReceiverFaults \cup {None}, p \in BOOLEAN :
        /\ Ingress(shared', shared.phase, f, shared'.queue, shared.inflight, p)
        /\ f = None => shared.fault = None
        /\ f # "EvidenceBeforeReady"
  <2>1. Ingress(shared, shared.phase, shared.fault, shared.queue, shared.inflight, shared.poisoned)
    BY <1>2 DEF Shapes, Ingress
  <2>2. shared.fault \in ReceiverFaults \cup {None} /\ shared.fault # "EvidenceBeforeReady"
        /\ shared.poisoned \in BOOLEAN
    BY <1>2 DEF Inv, Shapes, Window
  <2>3. CASE shared' = [shared EXCEPT !.queue = Append(@, Payload(c))]
    <3>1. Ingress(shared', shared.phase, shared.fault, shared'.queue, shared.inflight,
                  shared.poisoned)
      BY <2>1, <2>3 DEF Ingress, HasFields, SharedFields
    <3> QED  BY <2>2, <3>1
  <2>4. CASE shared' = Latched(shared, "HandoffFull")
    <3>1. Ingress(shared', shared.phase, FirstOf(shared.fault, "HandoffFull"), shared'.queue,
                  shared.inflight, shared.poisoned)
      BY <2>1, <2>4, LatchedIs DEF Ingress
    <3>2. FirstOf(shared.fault, "HandoffFull") \in ReceiverFaults \ {"EvidenceBeforeReady"}
      BY <2>2, FaultsAreNamed DEF FirstOf
    <3> QED  BY <2>2, <3>1, <3>2, FaultsAreNamed
  <2>5. CASE shared' = [shared EXCEPT !.poisoned = TRUE]
    <3>1. Ingress(shared', shared.phase, shared.fault, shared'.queue, shared.inflight, TRUE)
      BY <2>1, <2>5 DEF Ingress, HasFields, SharedFields
    <3> QED  BY <2>2, <3>1
  <2> QED  BY <2>3, <2>4, <2>5 DEF EnqueuePayload, PanicInCallback
<1>8. shared.phase \in Phases
  BY <1>2 DEF Shapes
<1> QED  BY <1>1, <1>2, <1>3, <1>4, <1>5, <1>6, <1>7, <1>8, CallbackStepKeeps DEF Ingress

LEMMA LeaveCallbackKeeps ==
  ASSUME Inv, NEW c \in Callbacks, LeaveCallback(c)
  PROVE  Inv'
<1>1. owner' = owner /\ lock' = lock /\ Shapes /\ cb[c].pc \in {"leaving", "left"}
  BY DEF LeaveCallback, CountDown, NotifyStartup, Inv
<1>2. /\ HasFields(cb[c], ThreadFields) /\ shared.phase \in Phases
      /\ shared.fault \in ReceiverFaults \cup {None} /\ shared.poisoned \in BOOLEAN
      /\ \A d \in Callbacks : cb[d].pc = "copying" => lock' = d
      /\ owner.opened => shared.fault # "EvidenceBeforeReady"
      /\ owner.sealed => lock' = None /\ shared.queue = <<>>
      /\ ~owner.opened => ~shared.poisoned /\ cb[c].entered # "Active"
  BY <1>1 DEF Inv, Shapes, Window, Sealing
<1>3. CASE cb[c].pc = "leaving"
  <2> DEFINE x == [cb[c] EXCEPT !.pc = "left"]
  <2>1. cb' = [cb EXCEPT ![c] = x] /\ shared' = [shared EXCEPT !.inflight = @ - 1]
    BY <1>1, <1>3 DEF LeaveCallback, CountDown, Shapes
  <2>2. HasFields(x, ThreadFields) /\ x.pc = "left" /\ x.entered = cb[c].entered
    BY <1>2 DEF HasFields, ThreadFields
  <2> HIDE DEF x
  <2>3. ~Counts(x) /\ Counts(cb[c])
    BY <1>1, <1>3, <2>2 DEF Counts, Shapes
  <2>4. Cardinality(Counted') = shared.inflight - 1 /\ Counted' \subseteq Counted
    BY <1>1, <2>1, <2>3, CountedIs
  <2>5. Ingress(shared', shared.phase, shared.fault, shared.queue, shared.inflight - 1,
                shared.poisoned)
    BY <1>1, <2>1 DEF Shapes, Ingress, HasFields, SharedFields
  <2> QED  BY <1>1, <1>2, <2>1, <2>2, <2>4, <2>5, CallbackStepKeeps DEF Ingress
<1>4. CASE cb[c].pc = "left"
  <2> DEFINE x == [cb[c] EXCEPT !.pc = "idle", !.entered = None]
  <2>1. cb' = [cb EXCEPT ![c] = x] /\ shared' = [shared EXCEPT !.startupNote = TRUE]
    BY <1>1, <1>4 DEF LeaveCallback, NotifyStartup, Shapes
  <2>2. HasFields(x, ThreadFields) /\ x.pc = "idle" /\ x.entered = None
    BY <1>2 DEF HasFields, ThreadFields
  <2> HIDE DEF x
  <2>3. ~Counts(x) /\ ~Counts(cb[c])
    BY <1>4, <2>2 DEF Counts
  <2>4. Cardinality(Counted') = shared.inflight /\ Counted' \subseteq Counted
    BY <1>1, <2>1, <2>3, CountedIs
  <2>5. Ingress(shared', shared.phase, shared.fault, shared.queue, shared.inflight,
                shared.poisoned)
    BY <1>1, <2>1 DEF Shapes, Ingress, HasFields, SharedFields
  <2> QED  BY <1>1, <1>2, <2>1, <2>2, <2>4, <2>5, NoneIsNoPhase, CallbackStepKeeps DEF Ingress
<1> QED  BY <1>1, <1>3, <1>4

-----------------------------------------------------------------------------
(* The invariant.                                                           *)

LEMMA InitInv == Init => Inv
<1> SUFFICES ASSUME Init
             PROVE  Inv
  OBVIOUS
<1>1. Counted = {}
  BY DEF Init, Counted
<1>2. Shapes
  BY <1>1, FS_EmptySet DEF Init, Shapes, HasFields, SharedFields, OwnerFields, ThreadFields, Phases
<1>3. Sealing
  BY DEF Init, Sealing, Closing
<1>4. Window
  BY NoneIsNoPhase DEF Init, Window, InOpening
<1> QED  BY <1>2, <1>3, <1>4 DEF Inv

LEMMA NextInv == Inv /\ [Next]_vars => Inv'
<1> SUFFICES ASSUME Inv, [Next]_vars
             PROVE  Inv'
  OBVIOUS
<1>1. ASSUME NEW c \in Callbacks, NEW sample \in Samples, EnterCallback(c, sample)
      PROVE  Inv'
  BY <1>1, EnterKeeps
<1>2. ASSUME NEW c \in Callbacks, CallbackStep(c)
      PROVE  Inv'
  BY <1>2, AcceptKeeps, CopyEndsKeeps, LeaveCallbackKeeps DEF CallbackStep
<1>3. CASE OpeningStep \/ AbandonOpening
  BY <1>3, OpeningKeeps
<1>4. CASE ReceivingStep
  <2>1. CASE LookForFault
    BY <2>1, LoopRuns, RunsKeeps
  <2>2. CASE ~LookForFault
    <3>1. owner.pc # "loop"
      BY <1>4, <2>2 DEF ReceivingStep, LookAtClock, TakePriority, TakePendingEvent, ArmSelect,
         WakeForFault, WakeForIngress, WakeForDeadline, StageEvents
    <3> QED  BY <1>4, <3>1, ReceivingRuns, RunsKeeps
  <2> QED  BY <2>1, <2>2
<1>5. CASE AssemblingStep
  BY <1>5, AssemblingRuns, RunsKeeps
<1>6. CASE ClosingStep
  BY <1>6, ClosingRuns, RunsKeeps
<1>7. CASE StartRecv \/ CancelRecv \/ StartClose \/ DropReceiver
  BY <1>7, CallsRun, RunsKeeps
<1>8. CASE Tick
  BY <1>8, StandsStill DEF Tick
<1>9. CASE UNCHANGED vars
  BY <1>9, StandsStill DEF vars
<1> QED  BY <1>1, <1>2, <1>3, <1>4, <1>5, <1>6, <1>7, <1>8, <1>9 DEF Next

(* Once close or drop has discarded what was buffered, no callback that is  *)
(* still running, no recv and no retried close buffers anything again: the  *)
(* phase was closed before the fence, and whoever held the mutex then left  *)
(* it before the buffers were emptied.                                      *)
THEOREM SealedStaysEmptyAlways == Spec => []SealedStaysEmpty
<1>1. Inv => SealedStaysEmpty
  BY DEF Inv, Sealing, SealedStaysEmpty
<1> QED  BY InitInv, NextInv, <1>1, PTL DEF Spec

(* A receiver that opened never recorded evidence from before it was ready: *)
(* activation waits until the startup window has counted every callback out *)
(* and looks for a fault after that, under the mutex.                       *)
THEOREM ReadyAlwaysClean == Spec => []ReadyMeansClean
<1>1. Inv => ReadyMeansClean
  BY DEF Inv, Window, ReadyMeansClean
<1> QED  BY InitInv, NextInv, <1>1, PTL DEF Spec

-----------------------------------------------------------------------------
(* The accounts of the payloads.  They need of Inv only the shapes of the   *)
(* records and that a copying callback is in the mutex.                     *)

HealthFields == {"received", "rejected", "post", "enqueued", "processed", "dropped",
                 "delivered", "discarded"}
AuxFields    == {"begun", "panicked", "lost", "returned", "mark"}

(* q is a sequence, of whatever.                                            *)
Sized(q) == \E S : q \in Seq(S)

Books ==
  /\ HasFields(health, HealthFields) /\ HasFields(aux, AuxFields)
  /\ health.received \in Int /\ health.rejected \in Int /\ health.post \in Int
  /\ health.enqueued \in Int /\ health.processed \in Int /\ health.dropped \in Int
  /\ aux.panicked \in Int
  /\ Sized(shared.queue)
  /\ PayloadsAccounted

LEMMA SizedIs ==
  /\ Sized(<<>>) /\ Len(<<>>) = 0
  /\ \A q : Sized(q) =>
       /\ Len(q) \in Nat
       /\ \A e : Sized(Append(q, e)) /\ Len(Append(q, e)) = Len(q) + 1
       /\ q # <<>> => Sized(Tail(q)) /\ Len(Tail(q)) = Len(q) - 1
<1>1. Sized(<<>>) /\ Len(<<>>) = 0
  <2>1. <<>> \in Seq({})
    OBVIOUS
  <2> QED  BY <2>1 DEF Sized
<1>2. ASSUME NEW q, Sized(q)
      PROVE  /\ Len(q) \in Nat
             /\ \A e : Sized(Append(q, e)) /\ Len(Append(q, e)) = Len(q) + 1
             /\ q # <<>> => Sized(Tail(q)) /\ Len(Tail(q)) = Len(q) - 1
  <2>1. PICK S : q \in Seq(S)
    BY <1>2 DEF Sized
  <2>2. ASSUME NEW e
        PROVE  Sized(Append(q, e)) /\ Len(Append(q, e)) = Len(q) + 1
    <3>1. q \in Seq(S \cup {e})
      BY <2>1
    <3>2. Append(q, e) \in Seq(S \cup {e}) /\ Len(Append(q, e)) = Len(q) + 1
      BY <3>1
    <3> QED  BY <3>2 DEF Sized
  <2>3. ASSUME q # <<>>
        PROVE  Sized(Tail(q)) /\ Len(Tail(q)) = Len(q) - 1
    <3>1. Tail(q) \in Seq(S) /\ Len(Tail(q)) = Len(q) - 1
      BY <2>1, <2>3
    <3> QED  BY <3>1 DEF Sized
  <2> QED  BY <2>1, <2>2, <2>3
<1> QED  BY <1>1, <1>2

LEMMA LatchedQueue ==
  ASSUME NEW s, NEW kind, HasFields(s, SharedFields)
  PROVE  Latched(s, kind).queue = s.queue
  BY DEF Latched, HasFields, SharedFields

(* What becomes of the queue.                                               *)
LEMMA QueueIs ==
  ASSUME Shapes
  PROVE  /\ HasFields(Locked, SharedFields) /\ Locked.queue = shared.queue
         /\ \A kind : Latched(Locked, kind).queue = shared.queue
         /\ \A kind : Latched(shared, kind).queue = shared.queue
         /\ \A q : [Locked EXCEPT !.queue = q].queue = q
         /\ \A q : [shared EXCEPT !.queue = q].queue = q
         /\ \A v : [Locked EXCEPT !.phase = v].queue = shared.queue
         /\ \A v : [Locked EXCEPT !.inflight = v].queue = shared.queue
         /\ \A v : [shared EXCEPT !.inflight = v].queue = shared.queue
         /\ \A v : [shared EXCEPT !.phase = v].queue = shared.queue
         /\ \A v : [shared EXCEPT !.startupNote = v].queue = shared.queue
         /\ \A v : [shared EXCEPT !.terminalNote = v].queue = shared.queue
         /\ \A v : [shared EXCEPT !.poisoned = v].queue = shared.queue
<1>1. HasFields(Locked, SharedFields) /\ Locked.queue = shared.queue
  BY LockedIs DEF Ingress
<1>2. HasFields(shared, SharedFields)
  BY DEF Shapes
<1>3. \A kind : /\ Latched(Locked, kind).queue = shared.queue
                /\ Latched(shared, kind).queue = shared.queue
  BY <1>1, <1>2, LatchedQueue
<1> QED  BY <1>1, <1>2, <1>3 DEF HasFields, SharedFields

(* What a thread holds of a payload.                                        *)
Holding(x) == IF x.pc = "copying" THEN 1 ELSE 0

(* Copying callbacks, when one thread moves.                                *)
LEMMA CopyingIs ==
  ASSUME Shapes, NEW c \in Callbacks, NEW x, cb' = [cb EXCEPT ![c] = x]
  PROVE  /\ Cardinality(Copying) \in Int
         /\ Cardinality(Copying') = Cardinality(Copying) + Holding(x) - Holding(cb[c])
         /\ Holding(x) \in Int /\ Holding(cb[c]) \in Int
<1>1. Copying' = IF x.pc = "copying" THEN Copying \cup {c} ELSE Copying \ {c}
  BY DEF Shapes, Copying
<1>2. c \in Copying <=> cb[c].pc = "copying"
  BY DEF Copying
<1>3. IsFiniteSet(Copying) /\ Cardinality(Copying) \in Nat
  BY FaultsAreNamed, FS_Subset, FS_CardinalityType DEF Copying
<1>4. /\ Cardinality(Copying \cup {c}) = IF c \in Copying THEN Cardinality(Copying) ELSE Cardinality(Copying) + 1
      /\ Cardinality(Copying \ {c}) = IF c \in Copying THEN Cardinality(Copying) - 1 ELSE Cardinality(Copying)
  BY <1>3, FS_AddElement, FS_RemoveElement
<1> QED  BY <1>1, <1>2, <1>3, <1>4 DEF Holding

LEMMA CopyingStands ==
  ASSUME UNCHANGED cb
  PROVE  Copying' = Copying /\ Cardinality(Copying) \in Int
<1>1. Copying' = Copying /\ Copying \subseteq Callbacks
  BY DEF Copying
<1> QED  BY <1>1, FaultsAreNamed, FS_Subset, FS_CardinalityType

(* A step that moves no payload.                                            *)
BooksStand ==
  /\ HasFields(health', HealthFields) /\ HasFields(aux', AuxFields)
  /\ health'.received = health.received /\ health'.rejected = health.rejected
  /\ health'.post = health.post /\ health'.enqueued = health.enqueued
  /\ health'.processed = health.processed /\ health'.dropped = health.dropped
  /\ aux'.panicked = aux.panicked
  /\ shared'.queue = shared.queue /\ Cardinality(Copying') = Cardinality(Copying)
  /\ owner'.pc = "hand" <=> owner.pc = "hand"

LEMMA CalmKeeps ==
  ASSUME Books, BooksStand
  PROVE  Books'
  BY DEF Books, BooksStand, PayloadsAccounted, TurnedAway, DoneWith, InHand

(* An owner's step that keeps every callback, when the books are written.   *)
LEMMA OwnerBooks ==
  ASSUME Books, cb' = cb,
         HasFields(health', HealthFields), HasFields(aux', AuxFields),
         health'.received = health.received, health'.rejected = health.rejected,
         health'.post = health.post, health'.enqueued = health.enqueued,
         aux'.panicked = aux.panicked,
         health'.processed \in Int, health'.dropped \in Int, Sized(shared'.queue),
         health'.processed + health'.dropped + Len(shared'.queue) + InHand'
           = health.processed + health.dropped + Len(shared.queue) + InHand
  PROVE  Books'
<1>1. Copying' = Copying
  BY CopyingStands
<1>2. PayloadsAccounted'
  BY <1>1 DEF Books, PayloadsAccounted, TurnedAway, DoneWith
<1> QED  BY <1>2 DEF Books

LEMMA OwnerCalm ==
  ASSUME Books, Shapes, cb' = cb, health' = health, aux' = aux,
         shared'.queue = shared.queue,
         owner'.pc = "hand" <=> owner.pc = "hand"
  PROVE  Books'
<1>1. BooksStand
  BY CopyingStands DEF BooksStand, Books
<1> QED  BY <1>1, CalmKeeps

LEMMA OpeningBooks ==
  ASSUME Inv, Books, OpeningStep \/ AbandonOpening
  PROVE  Books'
<1>0. Shapes
  BY DEF Inv
<1>1. /\ owner.pc \in InOpening /\ owner'.pc \in InOpening \cup {"gone", "ready"}
  BY <1>0 DEF OpeningStep, SubscribeObservation, SubscribeMonitor, BeginActivation, Drain,
     DrainWake, Activate, AbandonOpening, InOpening, OwnerAt, Shapes, HasFields, OwnerFields
<1>2. cb' = cb /\ health' = health /\ aux' = aux
  BY DEF OpeningStep, SubscribeObservation, SubscribeMonitor, BeginActivation, Drain,
     DrainWake, Activate, AbandonOpening
<1>3. shared'.queue = shared.queue
  <2>1. \/ shared' = shared \/ shared' = Locked
        \/ \E phase : shared' = [Locked EXCEPT !.phase = phase]
        \/ \E phase : shared' = [shared EXCEPT !.phase = phase]
        \/ \E b : shared' = [shared EXCEPT !.startupNote = b]
    BY DEF OpeningStep, SubscribeObservation, SubscribeMonitor, BeginActivation, Drain,
       DrainWake, Activate, AbandonOpening
  <2>2. HasFields(Locked, SharedFields) /\ Locked.queue = shared.queue
    BY <1>0, QueueIs
  <2> QED  BY <1>0, <2>1, <2>2 DEF Shapes, HasFields, SharedFields
<1> QED  BY <1>0, <1>1, <1>2, <1>3, OwnerCalm DEF InOpening

(* Emptying the queue into the count of dropped payloads.                   *)
LEMMA EmptyingBooks ==
  ASSUME Inv, Books, cb' = cb, shared' = [Locked EXCEPT !.queue = <<>>],
         health' = [health EXCEPT !.dropped = @ + Len(shared.queue),
                                  !.discarded = @ + Len(owner.pending)],
         NEW lost, aux' = [aux EXCEPT !.lost = lost],
         owner.pc # "hand", owner'.pc # "hand"
  PROVE  Books'
<1>1. shared'.queue = <<>>
  BY QueueIs DEF Inv
<1>2. Len(shared.queue) \in Nat /\ Len(shared'.queue) = 0 /\ Sized(shared'.queue)
  BY <1>1, SizedIs DEF Books
<1>3. /\ HasFields(health', HealthFields) /\ health'.received = health.received
      /\ health'.rejected = health.rejected /\ health'.post = health.post
      /\ health'.enqueued = health.enqueued /\ health'.processed = health.processed
      /\ health'.dropped = health.dropped + Len(shared.queue)
  BY DEF Books, HasFields, HealthFields
<1>4. HasFields(aux', AuxFields) /\ aux'.panicked = aux.panicked
  BY DEF Books, HasFields, AuxFields
<1>5. InHand = 0 /\ InHand' = 0
  BY DEF InHand
<1>6. health.processed \in Int /\ health.dropped \in Int
  BY DEF Books
<1> QED  BY <1>2, <1>3, <1>4, <1>5, <1>6, OwnerBooks

(* Taking the head of the queue into the hand.                              *)
LEMMA TakingBooks ==
  ASSUME Inv, Books, cb' = cb, health' = health, aux' = aux,
         shared.queue # <<>>, shared'.queue = Tail(shared.queue),
         owner.pc # "hand", owner'.pc = "hand"
  PROVE  Books'
<1>1. /\ Len(shared.queue) \in Nat /\ Sized(shared'.queue)
      /\ Len(shared'.queue) = Len(shared.queue) - 1
  BY SizedIs DEF Books
<1>2. InHand = 0 /\ InHand' = 1
  BY DEF InHand
<1>3. health.processed \in Int /\ health.dropped \in Int
      /\ HasFields(health', HealthFields) /\ HasFields(aux', AuxFields)
  BY DEF Books
<1> QED  BY <1>1, <1>2, <1>3, OwnerBooks

LEMMA ReceivingBooks ==
  ASSUME Inv, Books, ReceivingStep
  PROVE  Books'
<1>0. Shapes /\ HasFields(owner, OwnerFields)
  BY DEF Inv, Shapes
<1>1. CASE LookForFault
  <2>0. owner.pc = "loop" /\ owner'.pc \in {"ready", "dated"} /\ cb' = cb
    BY <1>0, <1>1 DEF LookForFault, OwnerAt, HasFields, OwnerFields
  <2>1. CASE Locked.fault # None
    BY <1>1, <2>0, <2>1, EmptyingBooks DEF LookForFault
  <2>2. CASE Locked.fault = None
    <3>1. shared'.queue = shared.queue /\ health' = health /\ aux' = aux
      BY <1>0, <1>1, <2>2, QueueIs DEF LookForFault
    <3> QED  BY <1>0, <2>0, <3>1, OwnerCalm
  <2> QED  BY <2>1, <2>2
<1>2. CASE LookAtClock \/ ArmSelect \/ WakeForFault \/ WakeForDeadline
  <2>1. owner.pc # "hand" /\ owner'.pc # "hand"
    BY <1>0, <1>2 DEF LookAtClock, ArmSelect, WakeForFault, WakeForDeadline, OwnerAt,
       HasFields, OwnerFields
  <2>2. shared'.queue = shared.queue /\ cb' = cb /\ health' = health /\ aux' = aux
    <3>1. shared' = shared \/ shared' = [shared EXCEPT !.terminalNote = FALSE]
      BY <1>2 DEF LookAtClock, ArmSelect, WakeForFault, WakeForDeadline
    <3>2. cb' = cb /\ health' = health /\ aux' = aux
      BY <1>2 DEF LookAtClock, ArmSelect, WakeForFault, WakeForDeadline
    <3> QED  BY <1>0, <3>1, <3>2 DEF Shapes, HasFields, SharedFields
  <2> QED  BY <1>0, <2>1, <2>2, OwnerCalm
<1>3. CASE TakePriority
  <2>0. owner.pc = "budget" /\ cb' = cb /\ health' = health /\ aux' = aux
    BY <1>3 DEF TakePriority
  <2>1. CASE PriorityLeft /\ shared.queue # <<>>
    <3>1. shared'.queue = Tail(shared.queue) /\ owner'.pc = "hand"
      BY <1>0, <1>3, <2>1, QueueIs DEF TakePriority, Shapes, HasFields, OwnerFields, SharedFields
    <3> QED  BY <2>0, <2>1, <3>1, TakingBooks
  <2>2. CASE ~(PriorityLeft /\ shared.queue # <<>>)
    <3>1. shared' = shared /\ owner'.pc = "take"
      BY <1>0, <1>3, <2>2 DEF TakePriority, OwnerAt, HasFields, OwnerFields
    <3> QED  BY <1>0, <2>0, <3>1, OwnerCalm
  <2> QED  BY <2>1, <2>2
<1>4. CASE TakePendingEvent
  <2>1. owner.pc = "take" /\ owner'.pc \in {"ready", "arming"} /\ cb' = cb /\ aux' = aux
    BY <1>0, <1>4 DEF TakePendingEvent, OwnerAt, HasFields, OwnerFields
  <2>2. shared'.queue = shared.queue
    BY <1>0, <1>4, QueueIs DEF TakePendingEvent
  <2>3. health' = health \/ health' = [health EXCEPT !.delivered = @ + 1]
    BY <1>4 DEF TakePendingEvent
  <2>4. BooksStand
    BY <2>1, <2>2, <2>3, CopyingStands DEF BooksStand, Books, HasFields, HealthFields
  <2> QED  BY <2>4, CalmKeeps
<1>5. CASE WakeForIngress
  <2>1. /\ shared'.queue = Tail(shared.queue) /\ shared.queue # <<>>
        /\ owner.pc = "waiting" /\ owner'.pc = "hand"
        /\ cb' = cb /\ health' = health /\ aux' = aux
    BY <1>0, <1>5 DEF WakeForIngress, Shapes, HasFields, OwnerFields, SharedFields
  <2> QED  BY <2>1, TakingBooks
<1>6. CASE StageEvents
  <2>1. owner.pc = "staging" /\ owner'.pc = "loop" /\ cb' = cb /\ aux' = aux
    BY <1>0, <1>6 DEF StageEvents, OwnerAt, HasFields, OwnerFields
  <2>2. shared'.queue = shared.queue
    BY <1>0, <1>6, QueueIs DEF StageEvents
  <2>3. health' = health \/ \E n : health' = [health EXCEPT !.discarded = n]
    BY <1>6 DEF StageEvents
  <2>4. BooksStand
    BY <2>1, <2>2, <2>3, CopyingStands DEF BooksStand, Books, HasFields, HealthFields
  <2> QED  BY <2>4, CalmKeeps
<1> QED  BY <1>1, <1>2, <1>3, <1>4, <1>5, <1>6 DEF ReceivingStep

LEMMA AssemblingBooks ==
  ASSUME Inv, Books, AssemblingStep
  PROVE  Books'
<1>0. Shapes /\ HasFields(owner, OwnerFields) /\ HasFields(aux, AuxFields) /\ cb' = cb
  BY DEF Inv, Shapes, Books, AssemblingStep, ReachDeadline, ProcessOrExpire
<1>1. ASSUME NEW extra, Expire(extra)
      PROVE  owner'.pc = "staging" /\ HasFields(aux', AuxFields) /\ aux'.panicked = aux.panicked
  BY <1>0, <1>1 DEF Expire, HasFields, OwnerFields, AuxFields
<1>2. /\ health.processed \in Int /\ health.dropped \in Int /\ Len(shared.queue) \in Nat
      /\ HasFields(health, HealthFields)
  BY SizedIs DEF Books
<1>3. CASE ReachDeadline
  <2>1. owner.pc = "due" /\ InHand = 0
    BY <1>3 DEF ReachDeadline, InHand
  <2>2. CASE /\ shared.queue # <<>> /\ shared' = [Locked EXCEPT !.queue = Tail(@)]
             /\ owner'.pc = "hand" /\ UNCHANGED <<health, aux>>
    <3>1. shared'.queue = Tail(shared.queue)
      BY <1>0, <2>2, QueueIs
    <3> QED  BY <1>0, <2>1, <2>2, <3>1, TakingBooks
  <2>3. CASE /\ shared.queue # <<>> /\ shared' = [Locked EXCEPT !.queue = Tail(@)]
             /\ health' = [health EXCEPT !.dropped = @ + 1]
             /\ Expire({Head(shared.queue).at})
    <3>1. shared'.queue = Tail(shared.queue)
      BY <1>0, <2>3, QueueIs
    <3>2. Sized(shared'.queue) /\ Len(shared'.queue) = Len(shared.queue) - 1
      BY <2>3, <3>1, SizedIs DEF Books
    <3>3. /\ HasFields(health', HealthFields) /\ health'.received = health.received
          /\ health'.rejected = health.rejected /\ health'.post = health.post
          /\ health'.enqueued = health.enqueued /\ health'.processed = health.processed
          /\ health'.dropped = health.dropped + 1
      BY <1>2, <2>3 DEF HasFields, HealthFields
    <3>4. InHand' = 0 /\ HasFields(aux', AuxFields) /\ aux'.panicked = aux.panicked
      BY <1>1, <2>3 DEF InHand
    <3> QED  BY <1>0, <1>2, <2>1, <3>2, <3>3, <3>4, OwnerBooks, SMTT(30)
  <2>4. CASE shared' = Locked /\ health' = health /\ Expire({})
    <3>1. shared'.queue = shared.queue
      BY <1>0, <2>4, QueueIs
    <3>2. InHand' = 0 /\ HasFields(aux', AuxFields) /\ aux'.panicked = aux.panicked
      BY <1>1, <2>4 DEF InHand
    <3>3. Sized(shared'.queue)
      BY <3>1 DEF Books
    <3> QED  BY <1>0, <1>2, <2>1, <2>4, <3>1, <3>2, <3>3, OwnerBooks
  <2>5. \/ /\ shared.queue # <<>> /\ shared' = [Locked EXCEPT !.queue = Tail(@)]
           /\ owner'.pc = "hand" /\ UNCHANGED <<health, aux>>
        \/ /\ shared.queue # <<>> /\ shared' = [Locked EXCEPT !.queue = Tail(@)]
           /\ health' = [health EXCEPT !.dropped = @ + 1]
           /\ Expire({Head(shared.queue).at})
        \/ shared' = Locked /\ health' = health /\ Expire({})
    BY <1>0, <1>3 DEF ReachDeadline, HasFields, OwnerFields
  <2> QED  BY <2>2, <2>3, <2>4, <2>5
<1>4. CASE ProcessOrExpire
  <2>1. owner.pc = "hand" /\ InHand = 1
    BY <1>4 DEF ProcessOrExpire, InHand
  <2>2. shared'.queue = shared.queue /\ Sized(shared'.queue)
    BY <1>0, <1>4, QueueIs DEF ProcessOrExpire, Books
  <2>3. owner'.pc = "staging" /\ HasFields(aux', AuxFields) /\ aux'.panicked = aux.panicked
    BY <1>0, <1>1, <1>4 DEF ProcessOrExpire, HasFields, OwnerFields, AuxFields
  <2>4. InHand' = 0
    BY <2>3 DEF InHand
  <2>5. /\ HasFields(health', HealthFields) /\ health'.received = health.received
        /\ health'.rejected = health.rejected /\ health'.post = health.post
        /\ health'.enqueued = health.enqueued
        /\ \/ /\ health'.processed = health.processed /\ health'.dropped = health.dropped + 1
           \/ /\ health'.processed = health.processed + 1 /\ health'.dropped = health.dropped
    BY <1>2, <1>4 DEF ProcessOrExpire, HasFields, HealthFields
  <2>6. /\ health'.processed \in Int /\ health'.dropped \in Int
        /\ health'.processed + health'.dropped + Len(shared'.queue) + InHand'
             = health.processed + health.dropped + Len(shared.queue) + InHand
    <3>1. Len(shared'.queue) = Len(shared.queue)
      BY <2>2
    <3>2. /\ health'.processed \in Int /\ health'.dropped \in Int
          /\ health'.processed + health'.dropped = health.processed + health.dropped + 1
      BY <1>2, <2>5
    <3> QED  BY <1>2, <2>1, <2>4, <3>1, <3>2
  <2> QED  BY <1>0, <2>2, <2>3, <2>5, <2>6, OwnerBooks
<1> QED  BY <1>3, <1>4 DEF AssemblingStep

LEMMA ClosingBooks ==
  ASSUME Inv, Books, ClosingStep
  PROVE  Books'
<1>0. Shapes /\ HasFields(owner, OwnerFields)
  BY DEF Inv, Shapes
<1>1. CASE Seal \/ FinishDrop
  <2>1. PICK next \in {"undeclareObservation", "gone"} : Discarded(next)
    BY <1>1 DEF Seal, FinishDrop
  <2>2. owner.pc # "hand" /\ owner'.pc # "hand"
    BY <1>0, <1>1, <2>1 DEF Seal, FinishDrop, Discarded, HasFields, OwnerFields
  <2> QED  BY <2>1, <2>2, EmptyingBooks DEF Discarded
<1>2. CASE UndeclareObservation \/ UndeclareMonitor \/ CloseBus
  <2>1. owner.pc # "hand" /\ owner'.pc # "hand"
    BY <1>0, <1>2 DEF UndeclareObservation, UndeclareMonitor, CloseBus, OwnerAt, HasFields,
       OwnerFields
  <2>2. shared' = shared /\ cb' = cb /\ health' = health /\ aux' = aux
    BY <1>2 DEF UndeclareObservation, UndeclareMonitor, CloseBus
  <2> QED  BY <1>0, <2>1, <2>2, OwnerCalm
<1> QED  BY <1>1, <1>2 DEF ClosingStep

LEMMA CallsBooks ==
  ASSUME Inv, Books, StartRecv \/ CancelRecv \/ StartClose \/ DropReceiver
  PROVE  Books'
<1>0. Shapes /\ HasFields(owner, OwnerFields)
  BY DEF Inv, Shapes
<1>1. owner.pc # "hand" /\ owner'.pc # "hand" /\ cb' = cb /\ health' = health
  BY <1>0 DEF StartRecv, CancelRecv, StartClose, DropReceiver, OwnerAt, HasFields, OwnerFields
<1>2. shared'.queue = shared.queue
  <2>1. \/ shared' = shared \/ shared' = Locked
        \/ shared' = [shared EXCEPT !.phase = "Closed"]
    BY DEF StartRecv, CancelRecv, StartClose, DropReceiver
  <2>2. Locked.queue = shared.queue
    BY <1>0, QueueIs
  <2> QED  BY <1>0, <2>1, <2>2 DEF Shapes, HasFields, SharedFields
<1>3. aux' = aux \/ aux' = [aux EXCEPT !.mark = health.enqueued]
  BY DEF StartRecv, CancelRecv, StartClose, DropReceiver
<1>4. BooksStand
  BY <1>1, <1>2, <1>3, CopyingStands DEF BooksStand, Books, HasFields, AuxFields
<1> QED  BY <1>4, CalmKeeps

InBalance(total, a, b, c) == total = a + b + c

LEMMA BalancedStays ==
  ASSUME NEW t \in Int, NEW a \in Int, NEW b \in Int, NEW c \in Int, InBalance(t, a, b, c),
         NEW da \in Int, NEW db \in Int, NEW dc \in Int
  PROVE  InBalance(t + (da + db + dc), a + da, b + db, c + dc)
  BY DEF InBalance

LEMMA AccountsBalance ==
  ASSUME HasFields(health, HealthFields),
         health.rejected \in Int, health.post \in Int, aux.panicked \in Int,
         health.enqueued \in Int, health.processed \in Int, health.dropped \in Int,
         Cardinality(Copying) \in Int, Len(shared.queue) \in Int
  PROVE  /\ PayloadsAccounted <=>
              /\ InBalance(health.received, health.enqueued, TurnedAway, Cardinality(Copying))
              /\ InBalance(health.enqueued, DoneWith, Len(shared.queue), InHand)
         /\ TurnedAway \in Int /\ DoneWith \in Int
  BY DEF PayloadsAccounted, InBalance, TurnedAway, DoneWith
(* What a callback's step adds to the accounts: payloads enqueued, turned   *)
(* away, and being copied.                                                  *)
Posts(enqueued, away, copying) ==
  /\ enqueued \in Int /\ away \in Int /\ copying \in Int
  /\ HasFields(health', HealthFields) /\ HasFields(aux', AuxFields)
  /\ health'.rejected \in Int /\ health'.post \in Int /\ aux'.panicked \in Int
  /\ health'.received = health.received + (enqueued + away + copying)
  /\ health'.enqueued = health.enqueued + enqueued
  /\ TurnedAway' = TurnedAway + away
  /\ health'.processed = health.processed /\ health'.dropped = health.dropped
  /\ Sized(shared'.queue) /\ Len(shared'.queue) = Len(shared.queue) + enqueued

LEMMA ThreadBooks ==
  ASSUME Inv, Books, NEW c \in Callbacks, NEW x, cb' = [cb EXCEPT ![c] = x], owner' = owner,
         NEW enqueued, NEW away, NEW copying,
         Posts(enqueued, away, copying), Holding(x) = Holding(cb[c]) + copying
  PROVE  Books'
<1>0. enqueued \in Int /\ away \in Int /\ copying \in Int
  BY DEF Posts
<1>1. /\ Cardinality(Copying) \in Int
      /\ Cardinality(Copying') = Cardinality(Copying) + copying
  <2>1. /\ Cardinality(Copying) \in Int
        /\ Cardinality(Copying') = Cardinality(Copying) + Holding(x) - Holding(cb[c])
        /\ Holding(x) \in Int /\ Holding(cb[c]) \in Int
    BY CopyingIs DEF Inv
  <2> QED  BY <1>0, <2>1
<1>2. InHand' = InHand /\ InHand \in Int
  BY DEF InHand
<1>3. /\ health.received \in Int /\ health.rejected \in Int /\ health.post \in Int
      /\ health.enqueued \in Int /\ health.processed \in Int /\ health.dropped \in Int
      /\ aux.panicked \in Int /\ Len(shared.queue) \in Int
      /\ HasFields(health, HealthFields)
  BY SizedIs DEF Books
<1>4. /\ TurnedAway \in Int /\ DoneWith \in Int
      /\ InBalance(health.received, health.enqueued, TurnedAway, Cardinality(Copying))
      /\ InBalance(health.enqueued, DoneWith, Len(shared.queue), InHand)
  BY <1>1, <1>3, AccountsBalance DEF Books
<1>5. /\ health'.received \in Int /\ health'.enqueued \in Int /\ health'.processed \in Int
      /\ health'.dropped \in Int /\ Len(shared'.queue) \in Int /\ DoneWith' = DoneWith
      /\ Cardinality(Copying') \in Int
  <2>1. /\ health'.processed = health.processed /\ health'.dropped = health.dropped
        /\ health'.received = health.received + (enqueued + away + copying)
        /\ health'.enqueued = health.enqueued + enqueued
        /\ Len(shared'.queue) = Len(shared.queue) + enqueued
    BY DEF Posts
  <2>2. health'.received \in Int /\ health'.enqueued \in Int
    BY <1>0, <1>3, <2>1, SMTT(30)
  <2>3. Len(shared'.queue) \in Int /\ Cardinality(Copying') \in Int
    BY <1>0, <1>1, <1>3, <2>1
  <2> QED  BY <1>3, <2>1, <2>2, <2>3 DEF DoneWith
<1>6. InBalance(health'.received, health'.enqueued, TurnedAway', Cardinality(Copying'))
  <2>1. InBalance(health.received + (enqueued + away + copying), health.enqueued + enqueued,
                 TurnedAway + away, Cardinality(Copying) + copying)
    BY <1>0, <1>1, <1>3, <1>4, BalancedStays, Zenon
  <2> QED  BY <1>1, <2>1 DEF Posts
<1>7. InBalance(health'.enqueued, DoneWith', Len(shared'.queue), InHand')
  <2>1. InBalance(health.enqueued + (0 + enqueued + 0), DoneWith + 0, Len(shared.queue) + enqueued,
                 InHand + 0)
    <3>1. 0 \in Int
      OBVIOUS
    <3> QED  BY <1>0, <1>2, <1>3, <1>4, <3>1, BalancedStays, Zenon
  <2>2. /\ health.enqueued + (0 + enqueued + 0) = health'.enqueued
        /\ DoneWith + 0 = DoneWith' /\ InHand + 0 = InHand'
        /\ Len(shared.queue) + enqueued = Len(shared'.queue)
    BY <1>0, <1>2, <1>3, <1>4, <1>5 DEF Posts
  <2> QED  BY <2>1, <2>2
<1>8. PayloadsAccounted'
  BY <1>6, <1>7 DEF PayloadsAccounted, InBalance
<1> QED  BY <1>5, <1>8 DEF Books, Posts

LEMMA LeavesNoCopy ==
  ASSUME NEW c \in Callbacks, HasFields(cb[c], ThreadFields)
  PROVE  Holding(Leave(c)) = 0
  BY DEF Holding, Leave, HasFields, ThreadFields

LEMMA CallbackBooks ==
  ASSUME Inv, Books, NEW c \in Callbacks,
         CallbackStep(c) \/ \E sample \in Samples : EnterCallback(c, sample)
  PROVE  Books'
<1>0. /\ Shapes /\ HasFields(cb[c], ThreadFields) /\ HasFields(health, HealthFields)
      /\ HasFields(aux, AuxFields) /\ HasFields(shared, SharedFields)
  BY DEF Inv, Shapes, Books
<1>1. /\ health.received \in Int /\ health.rejected \in Int /\ health.post \in Int
      /\ health.enqueued \in Int /\ health.processed \in Int /\ health.dropped \in Int
      /\ aux.panicked \in Int /\ Len(shared.queue) \in Int /\ Sized(shared.queue)
  BY SizedIs DEF Books
<1>2. HasFields(Locked, SharedFields) /\ Locked.queue = shared.queue
  BY <1>0, QueueIs
<1>3. Holding(Leave(c)) = 0
  BY <1>0, LeavesNoCopy
<1>4. ASSUME NEW sample \in Samples, EnterCallback(c, sample)
      PROVE  Books'
  <2>1. PICK x : cb' = [cb EXCEPT ![c] = x] /\ Holding(x) = 0
    <3>1. cb[c].pc = "idle"
      BY <1>4 DEF EnterCallback
    <3>2. CASE cb' = cb
      <4>1. cb' = [cb EXCEPT ![c] = cb[c]]
        BY <1>0, <3>2 DEF Shapes
      <4> QED  BY <3>1, <4>1 DEF Holding
    <3>3. CASE cb' # cb
      <4> DEFINE x == [pc |-> "entered", entered |-> Locked.phase, sample |-> sample,
                       at |-> None]
      <4>1. cb' = [cb EXCEPT ![c] = x] /\ Holding(x) = 0
        BY <1>4, <3>3 DEF EnterCallback, Holding
      <4> HIDE DEF x
      <4> QED  BY <4>1
    <3> QED  BY <3>2, <3>3
  <2>2. Holding(cb[c]) = 0 /\ owner' = owner /\ health' = health
    BY <1>4 DEF EnterCallback, Holding
  <2>3. shared'.queue = shared.queue
    BY <1>2, <1>4 DEF EnterCallback, HasFields, SharedFields
  <2>4. HasFields(aux', AuxFields) /\ aux'.panicked = aux.panicked
    BY <1>0, <1>4 DEF EnterCallback, HasFields, AuxFields
  <2>5. Posts(0, 0, 0)
    BY <1>0, <1>1, <2>2, <2>3, <2>4 DEF Posts, TurnedAway
  <2>6. Holding(x) = Holding(cb[c]) + 0
    BY <2>1, <2>2
  <2> QED  BY <2>1, <2>2, <2>5, <2>6, ThreadBooks, Zenon
<1>5. CASE AcceptPayload(c)
  <2>1. Holding(cb[c]) = 0 /\ owner' = owner /\ aux' = aux
    BY <1>5 DEF AcceptPayload, Holding
  <2>2. shared'.queue = shared.queue
    <3>1. shared' = Locked \/ \E kind : shared' = Latched(Locked, kind)
      BY <1>5 DEF AcceptPayload
    <3> QED  BY <1>2, <3>1, LatchedQueue
  <2>3. CASE cb' = [cb EXCEPT ![c] = Leave(c)] /\ health' = health
    <3>1. Posts(0, 0, 0)
      BY <1>0, <1>1, <2>1, <2>2, <2>3 DEF Posts, TurnedAway
    <3>2. Holding(Leave(c)) = Holding(cb[c]) + 0
      BY <1>3, <2>1
    <3> QED  BY <2>1, <2>3, <3>1, <3>2, ThreadBooks, Zenon
  <2>4. CASE /\ cb' = [cb EXCEPT ![c] = Leave(c)]
             /\ \/ health' = [health EXCEPT !.received = @ + 1, !.post = @ + 1]
                \/ health' = [health EXCEPT !.received = @ + 1, !.rejected = @ + 1]
    <3>1. /\ HasFields(health', HealthFields) /\ health'.received = health.received + 1
          /\ health'.enqueued = health.enqueued
          /\ health'.processed = health.processed /\ health'.dropped = health.dropped
          /\ \/ health'.rejected = health.rejected /\ health'.post = health.post + 1
             \/ health'.rejected = health.rejected + 1 /\ health'.post = health.post
      BY <1>0, <2>4 DEF HasFields, HealthFields
    <3>2. TurnedAway' = TurnedAway + 1
      BY <1>1, <2>1, <3>1 DEF TurnedAway
    <3>3. Posts(0, 1, 0)
      BY <1>0, <1>1, <2>1, <2>2, <3>1, <3>2 DEF Posts
    <3>4. Holding(Leave(c)) = Holding(cb[c]) + 0
      BY <1>3, <2>1
    <3> QED  BY <2>1, <2>4, <3>3, <3>4, ThreadBooks, Zenon
  <2>5. CASE /\ cb' = [cb EXCEPT ![c].pc = "copying", ![c].at = clock]
             /\ health' = [health EXCEPT !.received = @ + 1]
    <3> DEFINE x == [cb[c] EXCEPT !.pc = "copying", !.at = clock]
    <3>1. cb' = [cb EXCEPT ![c] = x] /\ Holding(x) = 1
      BY <1>0, <2>5 DEF Shapes, HasFields, ThreadFields, Holding
    <3>2. /\ HasFields(health', HealthFields) /\ health'.received = health.received + 1
          /\ health'.enqueued = health.enqueued /\ health'.post = health.post
          /\ health'.processed = health.processed /\ health'.dropped = health.dropped
          /\ health'.rejected = health.rejected
      BY <1>0, <2>5 DEF HasFields, HealthFields
    <3> HIDE DEF x
    <3>3. Posts(0, 0, 1)
      BY <1>0, <1>1, <2>1, <2>2, <3>2 DEF Posts, TurnedAway
    <3>4. Holding(x) = Holding(cb[c]) + 1
      BY <2>1, <3>1
    <3> QED  BY <2>1, <3>1, <3>3, <3>4, ThreadBooks, Zenon
  <2> QED  BY <1>5, <2>3, <2>4, <2>5 DEF AcceptPayload
<1>6. CASE EnqueuePayload(c)
  <2>1. /\ Holding(cb[c]) = 1 /\ owner' = owner /\ aux' = aux
        /\ cb' = [cb EXCEPT ![c] = Leave(c)]
    BY <1>6 DEF EnqueuePayload, Holding
  <2>2. CASE /\ shared' = [shared EXCEPT !.queue = Append(@, Payload(c))]
             /\ health' = [health EXCEPT !.enqueued = @ + 1]
    <3>1. shared'.queue = Append(shared.queue, Payload(c))
      BY <1>0, <2>2 DEF HasFields, SharedFields
    <3>2. Sized(shared'.queue) /\ Len(shared'.queue) = Len(shared.queue) + 1
      BY <1>1, <3>1, SizedIs
    <3>3. /\ HasFields(health', HealthFields) /\ health'.received = health.received
          /\ health'.enqueued = health.enqueued + 1 /\ health'.post = health.post
          /\ health'.processed = health.processed /\ health'.dropped = health.dropped
          /\ health'.rejected = health.rejected
      BY <1>0, <2>2 DEF HasFields, HealthFields
    <3>4. Posts(1, 0, -1)
      BY <1>0, <1>1, <2>1, <3>2, <3>3 DEF Posts, TurnedAway
    <3>5. Holding(Leave(c)) = Holding(cb[c]) + (-1)
      BY <1>3, <2>1
    <3> QED  BY <2>1, <3>4, <3>5, ThreadBooks, Zenon
  <2>3. CASE /\ shared' = Latched(shared, "HandoffFull")
             /\ health' = [health EXCEPT !.rejected = @ + 1]
    <3>1. shared'.queue = shared.queue
      BY <1>0, <2>3, LatchedQueue
    <3>2. /\ HasFields(health', HealthFields) /\ health'.received = health.received
          /\ health'.enqueued = health.enqueued /\ health'.post = health.post
          /\ health'.processed = health.processed /\ health'.dropped = health.dropped
          /\ health'.rejected = health.rejected + 1
      BY <1>0, <2>3 DEF HasFields, HealthFields
    <3>3. TurnedAway' = TurnedAway + 1
      BY <1>1, <2>1, <3>2 DEF TurnedAway
    <3>4. Posts(0, 1, -1)
      BY <1>0, <1>1, <2>1, <3>1, <3>2, <3>3 DEF Posts
    <3>5. Holding(Leave(c)) = Holding(cb[c]) + (-1)
      BY <1>3, <2>1
    <3> QED  BY <2>1, <3>4, <3>5, ThreadBooks, Zenon
  <2> QED  BY <1>6, <2>2, <2>3 DEF EnqueuePayload
<1>7. CASE PanicInCallback(c)
  <2>1. /\ Holding(cb[c]) = 1 /\ owner' = owner /\ health' = health
        /\ cb' = [cb EXCEPT ![c] = Leave(c)]
    BY <1>7 DEF PanicInCallback, Holding
  <2>2. shared'.queue = shared.queue
    BY <1>0, <1>7 DEF PanicInCallback, HasFields, SharedFields
  <2>3. HasFields(aux', AuxFields) /\ aux'.panicked = aux.panicked + 1
    BY <1>0, <1>7 DEF PanicInCallback, HasFields, AuxFields
  <2>4. TurnedAway' = TurnedAway + 1
    BY <1>1, <2>1, <2>3 DEF TurnedAway
  <2>5. Posts(0, 1, -1)
    BY <1>0, <1>1, <2>1, <2>2, <2>3, <2>4 DEF Posts
  <2>6. Holding(Leave(c)) = Holding(cb[c]) + (-1)
    BY <1>3, <2>1
  <2> QED  BY <2>1, <2>5, <2>6, ThreadBooks, Zenon
<1>8. CASE LeaveCallback(c)
  <2>1. /\ Holding(cb[c]) = 0 /\ owner' = owner /\ health' = health /\ aux' = aux
    BY <1>8 DEF LeaveCallback, CountDown, NotifyStartup, Holding
  <2>2. shared'.queue = shared.queue
    BY <1>0, <1>8 DEF LeaveCallback, CountDown, NotifyStartup, HasFields, SharedFields
  <2>3. PICK x : cb' = [cb EXCEPT ![c] = x] /\ Holding(x) = 0
    <3>1. CASE cb' = [cb EXCEPT ![c].pc = "left"]
      <4> DEFINE x == [cb[c] EXCEPT !.pc = "left"]
      <4>1. cb' = [cb EXCEPT ![c] = x] /\ Holding(x) = 0
        BY <1>0, <3>1 DEF Shapes, HasFields, ThreadFields, Holding
      <4> HIDE DEF x
      <4> QED  BY <4>1
    <3>2. CASE cb' = [cb EXCEPT ![c].pc = "idle", ![c].entered = None]
      <4> DEFINE x == [cb[c] EXCEPT !.pc = "idle", !.entered = None]
      <4>1. cb' = [cb EXCEPT ![c] = x] /\ Holding(x) = 0
        BY <1>0, <3>2 DEF Shapes, HasFields, ThreadFields, Holding
      <4> HIDE DEF x
      <4> QED  BY <4>1
    <3> QED  BY <1>8, <3>1, <3>2 DEF LeaveCallback
  <2>4. Posts(0, 0, 0)
    BY <1>0, <1>1, <2>1, <2>2 DEF Posts, TurnedAway
  <2>5. Holding(x) = Holding(cb[c]) + 0
    BY <2>1, <2>3
  <2> QED  BY <2>1, <2>3, <2>4, <2>5, ThreadBooks, Zenon
<1> QED  BY <1>4, <1>5, <1>6, <1>7, <1>8 DEF CallbackStep

LEMMA InitBooks == Init => Books
<1> SUFFICES ASSUME Init
             PROVE  Books
  OBVIOUS
<1>1. Copying = {} /\ InHand = 0
  BY DEF Init, Copying, InHand
<1>2. /\ HasFields(health, HealthFields) /\ HasFields(aux, AuxFields)
      /\ shared.queue = <<>>
  BY DEF Init, HasFields, HealthFields, AuxFields
<1>3. PayloadsAccounted
  BY <1>1, SizedIs, FS_EmptySet DEF Init, PayloadsAccounted, TurnedAway, DoneWith
<1> QED  BY <1>2, <1>3, SizedIs DEF Init, Books

LEMMA NextBooks == Inv /\ Books /\ [Next]_vars => Books'
<1> SUFFICES ASSUME Inv, Books, [Next]_vars
             PROVE  Books'
  OBVIOUS
<1>1. ASSUME UNCHANGED <<shared, cb, owner, health, aux>>
      PROVE  Books'
  BY <1>1, OwnerCalm DEF Inv
<1>2. CASE Tick \/ UNCHANGED vars
  BY <1>1, <1>2 DEF Tick, vars
<1> QED  BY <1>2, CallbackBooks, OpeningBooks, ReceivingBooks, AssemblingBooks, ClosingBooks,
            CallsBooks DEF Next

(* Every payload a callback took is in exactly one place, whatever is       *)
(* refused, cancelled, torn down or lost to a panic: counters and buffers   *)
(* of the callbacks, of recv and of close keep one account.                 *)
THEOREM PayloadsAlwaysAccounted == Spec => []PayloadsAccounted
<1>1. Books => PayloadsAccounted
  BY DEF Books
<1> QED  BY InitInv, NextInv, InitBooks, NextBooks, <1>1, PTL DEF Spec

-----------------------------------------------------------------------------
(* What recv owes to the queue it found.                                    *)

(* What was queued when the call began is done with, in the hand, or within *)
(* the budget of the call.                                                  *)
Ahead(mark, done, hand, budget) == mark <= done + hand + budget

Snapshot ==
  /\ owner.budget \in Nat /\ aux.mark \in Int /\ aux.mark <= health.enqueued
  /\ owner.pc \in Receiving => Ahead(aux.mark, DoneWith, InHand, owner.budget)
  /\ owner.pc = "take" => owner.budget = 0

LEMMA AheadStays ==
  /\ \A m, d, h, b, d2, h2, b2 \in Int :
       Ahead(m, d, h, b) /\ d2 + h2 + b2 >= d + h + b => Ahead(m, d2, h2, b2)
  /\ \A e, d, n, h \in Int : InBalance(e, d, n, h) => Ahead(e, d, h, n)
  /\ \A m, e, d, n, h \in Int : InBalance(e, d, n, h) /\ m <= e => Ahead(m, d, h, n)
  BY DEF Ahead, InBalance

LEMMA BooksBalance ==
  ASSUME Inv, Books
  PROVE  /\ InBalance(health.enqueued, DoneWith, Len(shared.queue), InHand)
         /\ health.enqueued \in Int /\ DoneWith \in Int /\ InHand \in Int
         /\ Len(shared.queue) \in Nat
<1>1. Cardinality(Copying) \in Int
  BY FaultsAreNamed, FS_Subset, FS_CardinalityType DEF Copying
<1> QED  BY <1>1, SizedIs, AccountsBalance DEF Books, InHand

(* A step that moves nothing recv counts.                                   *)
LEMMA SnapshotStays ==
  ASSUME Snapshot, aux'.mark = aux.mark, owner'.budget = owner.budget,
         DoneWith' = DoneWith, InHand' = InHand, health.enqueued <= health'.enqueued,
         health.enqueued \in Int, health'.enqueued \in Int,
         owner'.pc \in Receiving => owner.pc \in Receiving,
         owner'.pc = "take" => owner.pc = "take" \/ owner.budget = 0
  PROVE  Snapshot'
  BY DEF Snapshot

(* A step of recv that takes a payload or is done with some.                *)
LEMMA SnapshotMoves ==
  ASSUME Inv, Books, Snapshot, Books', Inv', owner.pc \in Receiving, aux'.mark = aux.mark,
         health'.enqueued = health.enqueued, owner'.budget \in Nat, owner'.pc # "take",
         DoneWith' + InHand' + owner'.budget >= DoneWith + InHand + owner.budget
  PROVE  Snapshot'
<1>1. /\ DoneWith \in Int /\ InHand \in Int /\ DoneWith' \in Int /\ InHand' \in Int
      /\ owner.budget \in Int /\ owner'.budget \in Int /\ aux.mark \in Int
      /\ Ahead(aux.mark, DoneWith, InHand, owner.budget)
  <2>1. DoneWith' \in Int /\ InHand' \in Int
    BY DEF Books, DoneWith, InHand
  <2> QED  BY <2>1, BooksBalance, SMTT(30) DEF Snapshot
<1>2. Ahead(aux.mark, DoneWith', InHand', owner'.budget)
  BY <1>1, AheadStays
<1> QED  BY <1>2 DEF Snapshot

(* DoneWith is the sum of two counters.                                         *)
LEMMA DoneIs ==
  ASSUME Books
  PROVE  /\ health.processed \in Int /\ health.dropped \in Int /\ DoneWith \in Int
         /\ \A n \in Int : health'.processed = health.processed
                          /\ health'.dropped = health.dropped + n => DoneWith' = DoneWith + n
         /\ \A n \in Int : health'.processed = health.processed + n
                          /\ health'.dropped = health.dropped => DoneWith' = DoneWith + n
         /\ health'.processed = health.processed /\ health'.dropped = health.dropped =>
              DoneWith' = DoneWith
         /\ UNCHANGED health => DoneWith' = DoneWith
  BY DEF Books, DoneWith

LEMMA CallbackSnapshot ==
  ASSUME Inv, Books, Snapshot, NEW c \in Callbacks,
         CallbackStep(c) \/ \E sample \in Samples : EnterCallback(c, sample)
  PROVE  Snapshot' /\ health'.delivered = health.delivered
<1>1. /\ HasFields(health, HealthFields) /\ HasFields(aux, AuxFields)
      /\ health.enqueued \in Int
  BY DEF Books
<1>2. /\ owner' = owner /\ aux'.mark = aux.mark
  BY <1>1 DEF CallbackStep, AcceptPayload, EnqueuePayload, PanicInCallback, LeaveCallback,
     CountDown, NotifyStartup, EnterCallback, HasFields, AuxFields
<1>3. \/ health' = health
      \/ health' = [health EXCEPT !.received = @ + 1, !.post = @ + 1]
      \/ health' = [health EXCEPT !.received = @ + 1, !.rejected = @ + 1]
      \/ health' = [health EXCEPT !.received = @ + 1]
      \/ health' = [health EXCEPT !.enqueued = @ + 1]
      \/ health' = [health EXCEPT !.rejected = @ + 1]
  BY DEF CallbackStep, AcceptPayload, EnqueuePayload, PanicInCallback, LeaveCallback,
     CountDown, NotifyStartup, EnterCallback
<1>4. /\ health'.processed = health.processed /\ health'.dropped = health.dropped
      /\ health'.delivered = health.delivered
      /\ health'.enqueued \in {health.enqueued, health.enqueued + 1}
  BY <1>1, <1>3 DEF HasFields, HealthFields
<1>5. DoneWith' = DoneWith /\ InHand' = InHand
  BY <1>2, <1>4, DoneIs DEF InHand
<1>6. health'.enqueued \in Int /\ health.enqueued <= health'.enqueued
  BY <1>1, <1>4
<1> QED  BY <1>1, <1>2, <1>4, <1>5, <1>6, SnapshotStays

(* The owner's steps outside the budget and the queue.                      *)
LEMMA QuietSnapshot ==
  ASSUME Inv, Books, Snapshot,
         \/ OpeningStep \/ AbandonOpening \/ ClosingStep
         \/ CancelRecv \/ StartClose \/ DropReceiver
  PROVE  Snapshot' /\ health'.delivered = health.delivered
<1>1. /\ HasFields(health, HealthFields) /\ HasFields(aux, AuxFields)
      /\ health.enqueued \in Int /\ HasFields(owner, OwnerFields)
  BY DEF Books, Inv, Shapes
<1>2. /\ owner'.pc \notin Receiving /\ owner'.budget = owner.budget
  <2> DEFINE Moves(pc) ==
               \/ owner' = [owner EXCEPT !.pc = pc]
               \/ owner' = [owner EXCEPT !.pc = pc, !.opened = TRUE]
               \/ owner' = [owner EXCEPT !.pc = pc, !.closed = TRUE]
               \/ \E b \in BOOLEAN : owner' = [owner EXCEPT !.pc = pc, !.cleaned = b]
               \/ owner' = [owner EXCEPT !.pc = pc, !.pending = <<>>, !.sealed = TRUE]
  <2>1. ASSUME NEW pc \in {"subscribeMonitor", "begin", "drain", "activate", "drainWait", "gone",
                         "ready", "sealing", "undeclareObservation", "undeclareMonitor",
                         "closeBus", "dropping"},
               Moves(pc)
        PROVE  owner'.pc \notin Receiving /\ owner'.budget = owner.budget
    <3>1. pc \notin Receiving  BY DEF Receiving
    <3>2. owner'.pc = pc /\ owner'.budget = owner.budget
      BY <1>1, <2>1 DEF HasFields, OwnerFields
    <3> QED  BY <3>1, <3>2
  <2>2. /\ SubscribeObservation => Moves("subscribeMonitor")
        /\ SubscribeMonitor => Moves("begin")
        /\ BeginActivation => Moves("drain")
        /\ DrainWake => Moves("drain")
    BY DEF SubscribeObservation, SubscribeMonitor, BeginActivation, DrainWake, OwnerAt
  <2>3. Drain => Moves("activate") \/ Moves("drainWait")
    BY DEF Drain, OwnerAt
  <2>4. Activate => Moves("gone") \/ Moves("ready")
    BY DEF Activate, OwnerAt
  <2>5. /\ AbandonOpening => Moves("gone")
        /\ CancelRecv => Moves("ready")
        /\ StartClose => Moves("sealing")
        /\ DropReceiver => Moves("dropping")
    BY DEF AbandonOpening, CancelRecv, StartClose, DropReceiver, OwnerAt
  <2>6. Seal \/ FinishDrop => Moves("undeclareObservation") \/ Moves("gone")
    BY DEF Seal, FinishDrop, Discarded
  <2>7. UndeclareObservation => Moves("undeclareMonitor") \/ Moves("ready")
    BY DEF UndeclareObservation, OwnerAt
  <2>8. UndeclareMonitor => Moves("closeBus") \/ Moves("ready")
    BY DEF UndeclareMonitor, OwnerAt
  <2>9. CloseBus => Moves("ready")
    BY DEF CloseBus
  <2> HIDE DEF Moves
  <2> QED
    BY <2>1, <2>2, <2>3, <2>4, <2>5, <2>6, <2>7, <2>8, <2>9 DEF OpeningStep, ClosingStep
<1>3. /\ aux'.mark = aux.mark /\ health'.enqueued = health.enqueued
      /\ health'.delivered = health.delivered
  BY <1>1 DEF OpeningStep, AbandonOpening, ClosingStep, CancelRecv, StartClose, DropReceiver,
     SubscribeObservation, SubscribeMonitor, BeginActivation, Drain, DrainWake, Activate,
     Seal, FinishDrop, Discarded, UndeclareObservation, UndeclareMonitor, CloseBus,
     HasFields, AuxFields, HealthFields
<1> QED  BY <1>2, <1>3 DEF Snapshot, Receiving

LEMMA StartSnapshot ==
  ASSUME Inv, Books, Snapshot, StartRecv
  PROVE  Snapshot' /\ health'.delivered = health.delivered
<1>1. /\ HasFields(owner, OwnerFields) /\ HasFields(aux, AuxFields)
      /\ owner.pc = "ready" /\ health' = health
  BY DEF Inv, Shapes, Books, StartRecv
<1>2. /\ owner'.pc = "loop" /\ owner'.budget = Len(shared.queue)
      /\ aux'.mark = health.enqueued
  BY <1>1 DEF StartRecv, HasFields, OwnerFields, AuxFields
<1>3. /\ InBalance(health.enqueued, DoneWith, Len(shared.queue), InHand)
      /\ health.enqueued \in Int /\ DoneWith \in Int /\ InHand \in Int
      /\ Len(shared.queue) \in Nat /\ Len(shared.queue) \in Int
  BY BooksBalance
<1>4. Ahead(health.enqueued, DoneWith, InHand, Len(shared.queue))
  BY <1>3, AheadStays
<1>5. DoneWith' = DoneWith /\ InHand' = InHand
  BY <1>1, <1>2, DoneIs DEF InHand
<1>6. health.enqueued <= health.enqueued
  BY <1>3
<1> QED  BY <1>1, <1>2, <1>3, <1>4, <1>5, <1>6 DEF Snapshot

(* The steps of recv that leave queue, hand and budget alone.               *)
LEMMA RestSnapshot ==
  ASSUME Inv, Books, Snapshot,
         \/ LookForFault \/ LookAtClock \/ ArmSelect \/ WakeForFault \/ WakeForDeadline
         \/ StageEvents
  PROVE  Snapshot' /\ health'.delivered = health.delivered
<1>1. /\ HasFields(owner, OwnerFields) /\ HasFields(aux, AuxFields)
      /\ HasFields(health, HealthFields) /\ health.enqueued \in Int
  BY DEF Inv, Shapes, Books
<1>2. /\ owner'.budget = owner.budget /\ owner.pc \in Receiving
      /\ owner.pc # "hand" /\ owner'.pc # "hand" /\ owner'.pc # "take"
  BY <1>1 DEF LookForFault, LookAtClock, ArmSelect, WakeForFault, WakeForDeadline, StageEvents,
     OwnerAt, HasFields, OwnerFields, Receiving
<1>3. /\ aux'.mark = aux.mark /\ health'.enqueued = health.enqueued
      /\ health'.delivered = health.delivered
  BY <1>1 DEF LookForFault, LookAtClock, ArmSelect, WakeForFault, WakeForDeadline, StageEvents,
     HasFields, AuxFields, HealthFields
<1>4. CASE owner'.pc \notin Receiving
  BY <1>2, <1>3, <1>4 DEF Snapshot
<1>5. CASE owner'.pc \in Receiving
  <2>1. health'.processed = health.processed /\ health'.dropped = health.dropped
    BY <1>1, <1>5 DEF LookForFault, LookAtClock, ArmSelect, WakeForFault, WakeForDeadline,
       StageEvents, HasFields, HealthFields, OwnerFields, Receiving
  <2>2. DoneWith' = DoneWith /\ InHand' = InHand
    BY <1>2, <2>1, DoneIs DEF InHand
  <2> QED  BY <1>1, <1>2, <1>3, <2>2, SnapshotStays
<1> QED  BY <1>3, <1>4, <1>5

LEMMA PrioritySnapshot ==
  ASSUME Inv, Books, Snapshot, Inv', Books', TakePriority
  PROVE  Snapshot' /\ health'.delivered = health.delivered
<1>1. /\ HasFields(owner, OwnerFields) /\ owner.pc = "budget" /\ health' = health /\ aux' = aux
      /\ owner.pc \in Receiving /\ InHand = 0
  BY DEF Inv, Shapes, TakePriority, Receiving, InHand
<1>2. /\ owner.budget \in Nat /\ aux.mark \in Int /\ aux.mark <= health.enqueued
      /\ Ahead(aux.mark, DoneWith, InHand, owner.budget)
  BY <1>1 DEF Snapshot
<1>3. DoneWith' = DoneWith /\ DoneWith \in Int
  BY <1>1, DoneIs
<1>4. CASE PriorityLeft /\ shared.queue = <<>>
  <2>1. owner'.pc = "take" /\ owner'.budget = 0 /\ InHand' = 0
    BY <1>1, <1>4 DEF TakePriority, HasFields, OwnerFields, InHand
  <2>2. InBalance(health.enqueued, DoneWith, 0, 0) /\ health.enqueued \in Int
    BY <1>1, <1>4, BooksBalance, SizedIs
  <2>3. Ahead(aux.mark, DoneWith, 0, 0)
    <3>1. 0 \in Int
      OBVIOUS
    <3> QED  BY <1>2, <1>3, <2>2, <3>1, AheadStays
  <2> QED  BY <1>1, <1>2, <1>3, <2>1, <2>3 DEF Snapshot
<1>5. CASE PriorityLeft /\ shared.queue # <<>>
  <2>1. /\ owner'.pc = "hand" /\ owner'.budget = owner.budget - 1 /\ InHand' = 1
    BY <1>1, <1>5 DEF TakePriority, HasFields, OwnerFields, InHand
  <2>2. owner'.budget \in Nat
    BY <1>2, <1>5, <2>1 DEF PriorityLeft
  <2>3. DoneWith' + InHand' + owner'.budget >= DoneWith + InHand + owner.budget
    BY <1>1, <1>2, <1>3, <2>1
  <2> QED  BY <1>1, <2>1, <2>2, <2>3, SnapshotMoves
<1>6. CASE ~PriorityLeft
  <2>1. owner'.pc = "take" /\ owner'.budget = owner.budget
    BY <1>1, <1>6 DEF TakePriority, OwnerAt, HasFields, OwnerFields
  <2>2. owner.budget = 0 /\ InHand' = InHand
    BY <1>1, <1>2, <1>6, <2>1 DEF PriorityLeft, InHand
  <2> QED  BY <1>1, <1>2, <1>3, <2>1, <2>2 DEF Snapshot
<1> QED  BY <1>4, <1>5, <1>6

LEMMA TakingSnapshot ==
  ASSUME Inv, Books, Snapshot, Inv', Books', AssemblingStep \/ WakeForIngress
  PROVE  Snapshot' /\ health'.delivered = health.delivered
<1>1. /\ HasFields(owner, OwnerFields) /\ HasFields(aux, AuxFields)
      /\ HasFields(health, HealthFields)
      /\ owner.pc \in {"due", "hand", "waiting"} /\ owner.pc \in Receiving
  BY DEF Inv, Shapes, Books, AssemblingStep, ReachDeadline, ProcessOrExpire, WakeForIngress,
     Receiving
<1>2. owner.budget \in Nat
  BY DEF Snapshot
<1>3. ASSUME NEW extra, Expire(extra)
      PROVE  owner'.pc = "staging" /\ owner'.budget = owner.budget /\ aux'.mark = aux.mark
  BY <1>1, <1>3 DEF Expire, HasFields, OwnerFields, AuxFields
<1>4. /\ DoneWith \in Int /\ health.processed \in Int /\ health.dropped \in Int
  BY DoneIs
<1>5. CASE WakeForIngress
  <2>1. /\ owner'.pc = "hand" /\ owner'.budget = owner.budget /\ health' = health
        /\ aux' = aux /\ InHand = 0 /\ InHand' = 1
    BY <1>1, <1>5 DEF WakeForIngress, HasFields, OwnerFields, InHand
  <2>2. DoneWith' + InHand' + owner'.budget >= DoneWith + InHand + owner.budget
    BY <1>2, <1>4, <2>1, DoneIs
  <2> QED  BY <1>1, <1>2, <2>1, <2>2, SnapshotMoves
<1>6. CASE ReachDeadline
  <2>1. InHand = 0
    BY <1>6 DEF ReachDeadline, InHand
  <2>2. CASE owner'.pc = "hand" /\ UNCHANGED <<health, aux>>
             /\ owner' = [owner EXCEPT !.pc = "hand", !.hand = Head(shared.queue),
                                       !.budget = IF @ > 0 THEN @ - 1 ELSE 0]
    <3>1. /\ owner'.budget \in Nat /\ owner'.budget + 1 >= owner.budget /\ InHand' = 1
      BY <1>1, <1>2, <2>2 DEF HasFields, OwnerFields, InHand
    <3>2. DoneWith' + InHand' + owner'.budget >= DoneWith + InHand + owner.budget
      BY <1>2, <1>4, <2>1, <2>2, <3>1, DoneIs
    <3> QED  BY <1>1, <2>2, <3>1, <3>2, SnapshotMoves
  <2>3. CASE health' = [health EXCEPT !.dropped = @ + 1] /\ Expire({Head(shared.queue).at})
    <3>1. /\ health'.processed = health.processed /\ health'.dropped = health.dropped + 1
          /\ health'.enqueued = health.enqueued /\ health'.delivered = health.delivered
      BY <1>1, <2>3 DEF HasFields, HealthFields
    <3>2. InHand' = 0
      BY <1>3, <2>3 DEF InHand
    <3>3. DoneWith' = DoneWith + 1
      BY <3>1, DoneIs
    <3>4. DoneWith' + InHand' + owner'.budget >= DoneWith + InHand + owner.budget
      BY <1>2, <1>3, <1>4, <2>1, <2>3, <3>2, <3>3
    <3> QED  BY <1>1, <1>2, <1>3, <2>3, <3>1, <3>4, SnapshotMoves
  <2>4. CASE health' = health /\ Expire({})
    <3>1. InHand' = 0 /\ DoneWith' = DoneWith
      BY <1>3, <2>4, DoneIs DEF InHand
    <3>2. DoneWith' + InHand' + owner'.budget >= DoneWith + InHand + owner.budget
      BY <1>2, <1>3, <1>4, <2>1, <2>4, <3>1
    <3> QED  BY <1>1, <1>2, <1>3, <2>4, <3>2, SnapshotMoves
  <2>5. \/ /\ owner'.pc = "hand" /\ UNCHANGED <<health, aux>>
           /\ owner' = [owner EXCEPT !.pc = "hand", !.hand = Head(shared.queue),
                                     !.budget = IF @ > 0 THEN @ - 1 ELSE 0]
        \/ health' = [health EXCEPT !.dropped = @ + 1] /\ Expire({Head(shared.queue).at})
        \/ health' = health /\ Expire({})
    BY <1>1, <1>6 DEF ReachDeadline, HasFields, OwnerFields
  <2> QED  BY <2>2, <2>3, <2>4, <2>5
<1>7. CASE ProcessOrExpire
  <2>1. InHand = 1
    BY <1>7 DEF ProcessOrExpire, InHand
  <2>2. owner'.pc = "staging" /\ owner'.budget = owner.budget /\ aux'.mark = aux.mark
    BY <1>1, <1>3, <1>7 DEF ProcessOrExpire, HasFields, OwnerFields, AuxFields
  <2>3. /\ health'.enqueued = health.enqueued /\ health'.delivered = health.delivered
        /\ \/ health'.processed = health.processed /\ health'.dropped = health.dropped + 1
           \/ health'.processed = health.processed + 1 /\ health'.dropped = health.dropped
    BY <1>1, <1>7 DEF ProcessOrExpire, HasFields, HealthFields
  <2>4. InHand' = 0 /\ DoneWith' = DoneWith + 1
    BY <2>2, <2>3, DoneIs DEF InHand
  <2>5. DoneWith' + InHand' + owner'.budget >= DoneWith + InHand + owner.budget
    BY <1>2, <1>4, <2>1, <2>2, <2>4
  <2> QED  BY <1>1, <1>2, <2>2, <2>3, <2>5, SnapshotMoves
<1> QED  BY <1>5, <1>6, <1>7 DEF AssemblingStep

LEMMA PendingSnapshot ==
  ASSUME Inv, Books, Snapshot, TakePendingEvent
  PROVE  Snapshot' /\ health.processed + health.dropped >= aux.mark
<1>1. /\ HasFields(owner, OwnerFields) /\ HasFields(health, HealthFields)
      /\ owner.pc = "take" /\ owner.pc \in Receiving /\ aux' = aux
      /\ health.enqueued \in Int /\ DoneWith \in Int
  BY DoneIs DEF Inv, Shapes, Books, TakePendingEvent, Receiving
<1>2. owner'.pc \in {"ready", "arming"} /\ owner'.budget = owner.budget
  BY <1>1 DEF TakePendingEvent, OwnerAt, HasFields, OwnerFields
<1>3. /\ health'.enqueued = health.enqueued /\ health'.processed = health.processed
      /\ health'.dropped = health.dropped
  BY <1>1 DEF TakePendingEvent, HasFields, HealthFields
<1>4. DoneWith' = DoneWith /\ InHand' = InHand /\ InHand = 0
  BY <1>1, <1>2, <1>3, DoneIs DEF InHand
<1>5. Ahead(aux.mark, DoneWith, 0, 0) /\ aux.mark \in Int
  BY <1>1, <1>4 DEF Snapshot
<1>6. health.processed + health.dropped >= aux.mark
  BY <1>1, <1>5 DEF Ahead, DoneWith
<1>7. health.enqueued <= health'.enqueued
  BY <1>1, <1>3
<1> QED  BY <1>1, <1>2, <1>3, <1>4, <1>6, <1>7, SnapshotStays

LEMMA InitSnapshot == Init => Snapshot
  BY DEF Init, Snapshot, Receiving

(* What one step owes, as an action.                                        *)
Current == health'.delivered # health.delivered => health.processed + health.dropped >= aux.mark

LEMMA NextSnapshot == Inv /\ Books /\ Snapshot /\ [Next]_vars => Snapshot' /\ [Current]_vars
<1> SUFFICES ASSUME Inv, Books, Snapshot, [Next]_vars
             PROVE  Snapshot' /\ Current
  OBVIOUS
<1>1. Inv' /\ Books'
  BY NextInv, NextBooks
<1>2. CASE Tick \/ UNCHANGED vars
  <2>1. UNCHANGED <<owner, health, aux>>
    BY <1>2 DEF Tick, vars
  <2> QED  BY <2>1 DEF Snapshot, DoneWith, InHand, Current
<1>3. CASE \E c \in Callbacks : CallbackStep(c) \/ \E sample \in Samples : EnterCallback(c, sample)
  BY <1>3, CallbackSnapshot DEF Current
<1>4. CASE \/ OpeningStep \/ AbandonOpening \/ ClosingStep
           \/ CancelRecv \/ StartClose \/ DropReceiver
  BY <1>4, QuietSnapshot DEF Current
<1>5. CASE StartRecv
  BY <1>5, StartSnapshot DEF Current
<1>6. CASE ReceivingStep \/ AssemblingStep
  <2>1. CASE \/ LookForFault \/ LookAtClock \/ ArmSelect \/ WakeForFault \/ WakeForDeadline
             \/ StageEvents
    BY <2>1, RestSnapshot DEF Current
  <2>2. CASE TakePriority
    BY <1>1, <2>2, PrioritySnapshot DEF Current
  <2>3. CASE AssemblingStep \/ WakeForIngress
    BY <1>1, <2>3, TakingSnapshot DEF Current
  <2>4. CASE TakePendingEvent
    BY <2>4, PendingSnapshot DEF Current
  <2> QED  BY <1>6, <2>1, <2>2, <2>3, <2>4 DEF ReceivingStep
<1> QED  BY <1>2, <1>3, <1>4, <1>5, <1>6 DEF Next

(* recv delivers an event only after everything queued when the call began  *)
(* was processed or dropped, although threads keep adding to the queue: the *)
(* budget taken under the lock at the start of the call never falls below   *)
(* what is still owed, whichever of its branches took the payloads.         *)
THEOREM AlwaysDeliversCurrent == Spec => DeliveredIsCurrent
<1>1. [Current]_vars => [health'.delivered # health.delivered =>
                           health.processed + health.dropped >= aux.mark]_vars
  BY DEF Current
<1> QED  BY InitInv, NextInv, InitBooks, NextBooks, InitSnapshot, NextSnapshot, <1>1, PTL
         DEF Spec, DeliveredIsCurrent
-----------------------------------------------------------------------------
(* Receipt times.                                                           *)

Envelopes(route) == IF route = "monitor" THEN MonitorEnvelopes ELSE ObservationEnvelopes

(* p came from the transport by the instant t.                              *)
Received(p, t) == p.env \in Envelopes(p.route) /\ p.at \in Nat /\ p.at <= t

Ascending(q)   == \A i, j \in DOMAIN q : i <= j => q[i].at <= q[j].at
NoneBefore(t, q) == \A i \in DOMAIN q : t <= q[i].at
NoneAfter(t, q)  == \A i \in DOMAIN q : q[i].at <= t

(* What is in the task's hand was received before what is queued, and that  *)
(* before what is being copied.                                             *)
Stamped ==
  /\ clock \in 0..MaxClock
  /\ \A i \in DOMAIN shared.queue : Received(shared.queue[i], clock)
  /\ Ascending(shared.queue)
  /\ owner.pc = "hand" => Received(owner.hand, clock) /\ NoneBefore(owner.hand.at, shared.queue)
  /\ \A c \in Copying :
       /\ cb[c].sample \in Samples /\ Received(Payload(c), clock)
       /\ NoneAfter(cb[c].at, shared.queue)
       /\ owner.pc = "hand" => owner.hand.at <= cb[c].at
  /\ owner.pc = "due" /\ fault = NoFault => clock >= Deadline

(* No fault of the ingress keeps evidence from the assembler.               *)
Unhindered == shared.fault \in {None, "Assembly"}

(* Nothing precedes the last instant the assembler was told of, while it    *)
(* still runs or its own fault ends it.                                     *)
Punctually ==
  /\ now <= clock /\ NoneBefore(now, shared.queue)
  /\ owner.pc = "hand" => now <= owner.hand.at
  /\ \A c \in Copying : now <= cb[c].at

Timed ==
  /\ fault = NoFault \/ Unhindered => Punctually
  /\ Unhindered => \A at \in aux.lost : now <= at
  /\ aux.lost # {} => shared.fault # None \/ fault # NoFault \/ owner.closed \/ owner.pc = "gone"
  /\ fault # NoFault => fault.at = now
  /\ shared.fault = "Assembly" => fault # NoFault

LEMMA HeadLeaves ==
  ASSUME NEW q, Sized(q), q # <<>>, NEW t, \A i \in DOMAIN q : Received(q[i], t), Ascending(q)
  PROVE  /\ Received(Head(q), t) /\ Head(q).at \in Instants(q)
         /\ \A i \in DOMAIN Tail(q) : Received(Tail(q)[i], t)
         /\ Ascending(Tail(q)) /\ NoneBefore(Head(q).at, Tail(q))
         /\ NoneBefore(Head(q).at, q)
         /\ \A x : NoneBefore(x, q) => NoneBefore(x, Tail(q)) /\ x <= Head(q).at
         /\ \A x : NoneAfter(x, q) => NoneAfter(x, Tail(q)) /\ Head(q).at <= x
<1>1. PICK S : q \in Seq(S)  BY DEF Sized
<1>2. /\ DOMAIN q = 1..Len(q) /\ Len(q) \in Nat /\ Len(q) >= 1 /\ Head(q) = q[1]
      /\ DOMAIN Tail(q) = 1..(Len(q) - 1) /\ \A i \in 1..(Len(q) - 1) : Tail(q)[i] = q[i + 1]
  BY <1>1
<1>3. /\ 1 \in DOMAIN q /\ \A i \in DOMAIN q : 1 <= i
      /\ \A i \in DOMAIN Tail(q) : i \in Int /\ i + 1 \in DOMAIN q /\ Tail(q)[i] = q[i + 1]
  BY <1>2
<1>4. \A i \in DOMAIN q : q[1].at <= q[i].at  BY <1>3 DEF Ascending
<1>5. Ascending(Tail(q))
  <2> SUFFICES ASSUME NEW i \in DOMAIN Tail(q), NEW j \in DOMAIN Tail(q), i <= j
               PROVE  Tail(q)[i].at <= Tail(q)[j].at
    BY DEF Ascending
  <2>1. i + 1 \in DOMAIN q /\ j + 1 \in DOMAIN q /\ i + 1 <= j + 1  BY <1>3
  <2> QED  BY <1>3, <2>1 DEF Ascending
<1> QED  BY <1>2, <1>3, <1>4, <1>5 DEF NoneBefore, NoneAfter, Instants

LEMMA LastArrives ==
  ASSUME NEW q, Sized(q), NEW e, NEW t, \A i \in DOMAIN q : Received(q[i], t), Ascending(q),
         Received(e, t), NoneAfter(e.at, q)
  PROVE  /\ \A i \in DOMAIN Append(q, e) : Received(Append(q, e)[i], t)
         /\ Ascending(Append(q, e))
         /\ \A x : NoneBefore(x, q) /\ x <= e.at => NoneBefore(x, Append(q, e))
<1>1. PICK S : q \in Seq(S)  BY DEF Sized
<1> DEFINE r == Append(q, e)
           n == Len(q) + 1
<1>2. /\ DOMAIN q = 1..Len(q) /\ Len(q) \in Nat /\ DOMAIN r = 1..n /\ r[n] = e
      /\ \A i \in 1..Len(q) : r[i] = q[i]
  <2>1. q \in Seq(S \cup {e})  BY <1>1
  <2> QED  BY <2>1
<1> HIDE DEF r
<1>3. \A i \in DOMAIN r : i = n \/ (i \in DOMAIN q /\ i < n /\ r[i] = q[i])  BY <1>2
<1>4. r[n] = e /\ n \in Nat  BY <1>2
<1>5. Ascending(r)
  <2> SUFFICES ASSUME NEW i \in DOMAIN r, NEW j \in DOMAIN r, i <= j PROVE r[i].at <= r[j].at
    BY DEF Ascending
  <2> HIDE DEF n
  <2>1. CASE j = n
    <3>1. e.at <= e.at  BY DEF Received
    <3> QED  BY <1>3, <1>4, <2>1, <3>1 DEF NoneAfter
  <2>2. CASE j # n
    <3>1. j \in DOMAIN q /\ j < n /\ r[j] = q[j] /\ i \in Int /\ j \in Int  BY <1>2, <1>3, <2>2
    <3>2. i # n  BY <1>4, <3>1
    <3> QED  BY <1>3, <3>1, <3>2 DEF Ascending
  <2> QED  BY <2>1, <2>2
<1>6. \A i \in DOMAIN r : Received(r[i], t)  BY <1>3, <1>4
<1>7. \A x : NoneBefore(x, q) /\ x <= e.at => NoneBefore(x, r)  BY <1>3, <1>4 DEF NoneBefore
<1> QED  BY <1>5, <1>6, <1>7 DEF r

LEMMA NothingQueued ==
  /\ Ascending(<<>>) /\ Instants(<<>>) = {} /\ Sized(<<>>)
  /\ \A x : NoneBefore(x, <<>>) /\ NoneAfter(x, <<>>)
  /\ \A t : \A i \in DOMAIN <<>> : Received(<<>>[i], t)
<1>1. DOMAIN <<>> = {}  OBVIOUS
<1> QED  BY <1>1, SizedIs DEF Ascending, Instants, NoneBefore, NoneAfter

-----------------------------------------------------------------------------
(* stage_assembly_events after a call that failed.                          *)
FailedCall ==
  /\ owner.pc = "staging" /\ owner'.pc = "loop"
  /\ fault # NoFault /\ fault' = fault

(* The first fault of the ingress stays, and the assembler's is latched only*)
(* after the assembler has failed.                                          *)
FirstStays(s) ==
  /\ shared.fault # None => s.fault = shared.fault
  /\ s.fault = "Assembly" => shared.fault = "Assembly" \/ FailedCall

LEMMA OtherFields ==
  ASSUME NEW s, HasFields(s, SharedFields), FirstStays(s)
  PROVE  /\ \A v : FirstStays([s EXCEPT !.phase = v]) /\ FirstStays([s EXCEPT !.queue = v])
         /\ \A v : FirstStays([s EXCEPT !.inflight = v])
         /\ \A v : FirstStays([s EXCEPT !.startupNote = v])
         /\ \A v : FirstStays([s EXCEPT !.terminalNote = v])
         /\ \A v : FirstStays([s EXCEPT !.poisoned = v])
  BY DEF FirstStays, HasFields, SharedFields

LEMMA LockStays ==
  ASSUME Shapes
  PROVE  /\ FirstStays(shared) /\ FirstStays(Locked)
         /\ \A v : /\ FirstStays([shared EXCEPT !.phase = v]) /\ FirstStays([Locked EXCEPT !.phase = v])
                  /\ FirstStays([shared EXCEPT !.queue = v]) /\ FirstStays([Locked EXCEPT !.queue = v])
                  /\ FirstStays([shared EXCEPT !.inflight = v])
                  /\ FirstStays([Locked EXCEPT !.inflight = v])
                  /\ FirstStays([shared EXCEPT !.startupNote = v])
                  /\ FirstStays([shared EXCEPT !.terminalNote = v])
                  /\ FirstStays([shared EXCEPT !.poisoned = v])
         /\ \A kind : kind # "Assembly" =>
              FirstStays(Latched(Locked, kind)) /\ FirstStays(Latched(shared, kind))
         /\ FailedCall => FirstStays(Latched(Locked, "Assembly"))
<1>1. HasFields(shared, SharedFields)  BY DEF Shapes
<1>2. HasFields(Locked, SharedFields) /\ Locked.fault = LockedFault  BY LockedIs DEF Ingress
<1>3. FirstStays(shared) /\ FirstStays(Locked)
  BY <1>2 DEF FirstStays, LockedFault, FirstOf
<1>4. \A kind : /\ Latched(Locked, kind).fault = FirstOf(Locked.fault, kind)
                /\ Latched(shared, kind).fault = FirstOf(shared.fault, kind)
  BY <1>1, <1>2 DEF Latched, FirstOf, HasFields, SharedFields
<1>5. \A kind : kind # "Assembly" =>
        FirstStays(Latched(Locked, kind)) /\ FirstStays(Latched(shared, kind))
  BY <1>3, <1>4 DEF FirstStays, FirstOf
<1>6. FailedCall => FirstStays(Latched(Locked, "Assembly"))
  BY <1>3, <1>4 DEF FirstStays, FirstOf
<1>7. \A v : /\ FirstStays([shared EXCEPT !.phase = v]) /\ FirstStays([shared EXCEPT !.queue = v])
             /\ FirstStays([shared EXCEPT !.inflight = v])
             /\ FirstStays([shared EXCEPT !.startupNote = v])
             /\ FirstStays([shared EXCEPT !.terminalNote = v])
             /\ FirstStays([shared EXCEPT !.poisoned = v])
  BY <1>1, <1>3, OtherFields
<1>8. \A v : /\ FirstStays([Locked EXCEPT !.phase = v]) /\ FirstStays([Locked EXCEPT !.queue = v])
             /\ FirstStays([Locked EXCEPT !.inflight = v])
  BY <1>2, <1>3, OtherFields
<1> QED  BY <1>3, <1>5, <1>6, <1>7, <1>8

LEMMA CallbackStays ==
  ASSUME Inv, NEW c \in Callbacks,
         CallbackStep(c) \/ \E sample \in Samples : EnterCallback(c, sample)
  PROVE  FirstStays(shared') /\ owner' = owner
<1>0. Shapes  BY DEF Inv
<1>1. owner' = owner
  BY DEF CallbackStep, AcceptPayload, EnqueuePayload, PanicInCallback, LeaveCallback, CountDown,
     NotifyStartup, EnterCallback
<1>2. CASE \E sample \in Samples : EnterCallback(c, sample)
  <2>1. shared' = Locked \/ \E n : shared' = [Locked EXCEPT !.inflight = n]
    BY <1>2 DEF EnterCallback
  <2> QED  BY <1>0, <1>1, <2>1, LockStays
<1>3. CASE AcceptPayload(c)
  <2>1. "EvidenceBeforeReady" # "Assembly" /\ "Assembly" \notin SampleDefects
    BY DEF SampleDefects
  <2>2. cb[c].sample \in Samples  BY <1>0, <1>3 DEF AcceptPayload, Shapes
  <2>3. cb[c].sample.defect # "Assembly"  BY <2>1, <2>2, ReceiverAssumption, FaultsAreNamed
  <2>4. shared' = Locked \/ \E kind : kind # "Assembly" /\ shared' = Latched(Locked, kind)
    BY <1>3, <2>1, <2>3 DEF AcceptPayload
  <2> QED  BY <1>0, <1>1, <2>4, LockStays
<1>4. CASE EnqueuePayload(c)
  <2>1. "HandoffFull" # "Assembly"  OBVIOUS
  <2>2. \/ shared' = Latched(shared, "HandoffFull")
        \/ \E q : shared' = [shared EXCEPT !.queue = q]
    BY <1>4 DEF EnqueuePayload
  <2> QED  BY <1>0, <1>1, <2>1, <2>2, LockStays
<1>5. CASE PanicInCallback(c) \/ LeaveCallback(c)
  <2>1. \/ \E v : shared' = [shared EXCEPT !.poisoned = v]
        \/ \E v : shared' = [shared EXCEPT !.inflight = v]
        \/ \E v : shared' = [shared EXCEPT !.startupNote = v]
    BY <1>5 DEF PanicInCallback, LeaveCallback, CountDown, NotifyStartup
  <2> QED  BY <1>0, <1>1, <2>1, LockStays
<1> QED  BY <1>2, <1>3, <1>4, <1>5 DEF CallbackStep

(* A closed receiver stays closed, and one that is gone stays away.         *)
Onward == owner.pc # "gone" /\ (owner.closed => owner'.closed)

LEMMA OwnerStays ==
  ASSUME Inv,
         \/ OpeningStep \/ AbandonOpening \/ ReceivingStep \/ AssemblingStep \/ ClosingStep
         \/ StartRecv \/ CancelRecv \/ StartClose \/ DropReceiver
  PROVE  FirstStays(shared') /\ Onward
<1>0. Shapes /\ HasFields(owner, OwnerFields)  BY DEF Inv, Shapes
<1>1. CASE OpeningStep \/ AbandonOpening
  <2>1. \/ shared' = shared \/ shared' = Locked
        \/ \E v : shared' = [Locked EXCEPT !.phase = v]
        \/ \E v : shared' = [shared EXCEPT !.phase = v]
        \/ \E v : shared' = [shared EXCEPT !.startupNote = v]
    BY <1>1 DEF OpeningStep, SubscribeObservation, SubscribeMonitor, BeginActivation, Drain,
       DrainWake, Activate, AbandonOpening
  <2>2. Onward
    BY <1>0, <1>1 DEF Onward, OpeningStep, SubscribeObservation, SubscribeMonitor,
       BeginActivation, Drain, DrainWake, Activate, AbandonOpening, OwnerAt, HasFields, OwnerFields
  <2> QED  BY <1>0, <2>1, <2>2, LockStays
<1>2. CASE ReceivingStep
  <2>1. \/ shared' = shared \/ shared' = Locked
        \/ \E v : shared' = [Locked EXCEPT !.queue = v]
        \/ \E v : shared' = [shared EXCEPT !.queue = v]
        \/ \E v : shared' = [shared EXCEPT !.terminalNote = v]
        \/ FailedCall /\ shared' = Latched(Locked, "Assembly")
    <3>1. CASE StageEvents
      <4>1. owner.pc = "staging" /\ owner'.pc = "loop" /\ fault' = fault
        BY <1>0, <3>1 DEF StageEvents, OwnerAt, HasFields, OwnerFields, epoch
      <4> QED  BY <3>1, <4>1 DEF StageEvents, FailedCall
    <3>2. CASE ~StageEvents
      BY <1>2, <3>2 DEF ReceivingStep, LookForFault, LookAtClock, TakePriority,
         TakePendingEvent, ArmSelect, WakeForFault, WakeForIngress, WakeForDeadline
    <3> QED  BY <3>1, <3>2
  <2>2. Onward
    BY <1>0, <1>2 DEF Onward, ReceivingStep, LookForFault, LookAtClock, TakePriority,
       TakePendingEvent, ArmSelect, WakeForFault, WakeForIngress, WakeForDeadline, StageEvents,
       OwnerAt, HasFields, OwnerFields
  <2> QED  BY <1>0, <2>1, <2>2, LockStays
<1>3. CASE AssemblingStep
  <2>1. shared' = Locked \/ \E v : shared' = [Locked EXCEPT !.queue = v]
    BY <1>3 DEF AssemblingStep, ReachDeadline, ProcessOrExpire
  <2>2. Onward
    BY <1>0, <1>3 DEF Onward, AssemblingStep, ReachDeadline, ProcessOrExpire, Expire, HasFields,
       OwnerFields
  <2> QED  BY <1>0, <2>1, <2>2, LockStays
<1>4. CASE ClosingStep
  <2>1. shared' = shared \/ \E v : shared' = [Locked EXCEPT !.queue = v]
    BY <1>4 DEF ClosingStep, Seal, UndeclareObservation, UndeclareMonitor, CloseBus, FinishDrop,
       Discarded
  <2>2. Onward
    BY <1>0, <1>4 DEF Onward, ClosingStep, Seal, UndeclareObservation, UndeclareMonitor,
       CloseBus, FinishDrop, Discarded, OwnerAt, HasFields, OwnerFields
  <2> QED  BY <1>0, <2>1, <2>2, LockStays
<1>5. CASE StartRecv \/ CancelRecv \/ StartClose \/ DropReceiver
  <2>1. shared' = shared \/ shared' = Locked \/ \E v : shared' = [shared EXCEPT !.phase = v]
    BY <1>5 DEF StartRecv, CancelRecv, StartClose, DropReceiver
  <2>2. Onward
    BY <1>0, <1>5 DEF Onward, StartRecv, CancelRecv, StartClose, DropReceiver, OwnerAt,
       HasFields, OwnerFields
  <2> QED  BY <1>0, <2>1, <2>2, LockStays
<1> QED  BY <1>1, <1>2, <1>3, <1>4, <1>5

-----------------------------------------------------------------------------
(* What each kind of step does to the payloads.                             *)

(* The step calls the assembler for nothing.                                *)
NoCall == UNCHANGED epoch

LEMMA NoCallIs ==
  ASSUME NoCall
  PROVE  /\ self' = self /\ now' = now /\ fault' = fault /\ told' = told
         /\ Deadline' = Deadline /\ ((fault = NoFault)' <=> fault = NoFault)
  BY DEF NoCall, epoch, Deadline, NextDeadlineAt, HeartbeatBase, HeartbeatWindow, NoFault

(* An owner's step that leaves the queue alone, or drops all of it when the *)
(* receiver failed, is closed or is torn down.                              *)
Still ==
  /\ NoCall /\ UNCHANGED <<clock, cb>>
  /\ owner'.pc # "hand" /\ (owner'.pc = "due" => clock >= Deadline)
  /\ \/ shared'.queue = shared.queue /\ aux'.lost = aux.lost
     \/ /\ shared'.queue = <<>> /\ aux'.lost = aux.lost \cup Instants(shared.queue)
        /\ shared'.fault # None \/ owner'.closed \/ owner'.pc = "gone"

(* The head of the queue goes into the owner's hand.                        *)
Takes ==
  /\ NoCall /\ UNCHANGED <<clock, cb>>
  /\ owner'.pc = "hand" /\ owner'.hand = Head(shared.queue) /\ shared.queue # <<>>
  /\ shared'.queue = Tail(shared.queue) /\ aux'.lost = aux.lost

(* Callback c begins to copy, puts its payload in the queue, or neither.    *)
Delivers(c) ==
  /\ NoCall /\ UNCHANGED <<clock, owner>> /\ aux'.lost = aux.lost
  /\ \A d \in Callbacks \ {c} : cb'[d] = cb[d]
  /\ \/ shared'.queue = shared.queue /\ cb'[c].pc # "copying"
     \/ /\ shared'.queue = shared.queue /\ lock = None
        /\ cb'[c].sample = cb[c].sample /\ cb[c].sample \in Samples /\ cb'[c].at = clock
     \/ /\ shared'.queue = Append(shared.queue, Payload(c))
        /\ cb[c].pc = "copying" /\ cb'[c].pc # "copying"

LEMMA StillStamped ==
  ASSUME Stamped, Still
  PROVE  Stamped'
<1>1. Copying' = Copying /\ \A c \in Copying : cb'[c] = cb[c] /\ Payload(c)' = Payload(c)
  BY DEF Still, Copying, Payload
<1>2. clock' = clock /\ Deadline' = Deadline  BY NoCallIs DEF Still
<1>3. CASE shared'.queue = shared.queue
  BY <1>1, <1>2, <1>3 DEF Stamped, Still
<1>4. CASE shared'.queue = <<>>
  BY <1>1, <1>2, <1>4, NothingQueued DEF Stamped, Still
<1> QED  BY <1>3, <1>4 DEF Still

LEMMA TakesStamped ==
  ASSUME Stamped, Books, Takes
  PROVE  Stamped'
<1>1. Copying' = Copying /\ \A c \in Copying : cb'[c] = cb[c] /\ Payload(c)' = Payload(c)
  BY DEF Takes, Copying, Payload
<1>2. clock' = clock  BY DEF Takes
<1> DEFINE q == shared.queue
<1>3. /\ Sized(q) /\ q # <<>> /\ Ascending(q) /\ \A i \in DOMAIN q : Received(q[i], clock)
  BY DEF Stamped, Books, Takes
<1> HIDE DEF q
<1>4. /\ Received(Head(q), clock) /\ \A i \in DOMAIN Tail(q) : Received(Tail(q)[i], clock)
      /\ Ascending(Tail(q)) /\ NoneBefore(Head(q).at, Tail(q))
      /\ \A x : NoneAfter(x, q) => NoneAfter(x, Tail(q)) /\ Head(q).at <= x
  BY <1>3, HeadLeaves
<1>5. shared'.queue = Tail(q) /\ owner'.pc = "hand" /\ owner'.hand = Head(q)
  BY DEF Takes, q
<1>6. \A c \in Copying : /\ cb[c].sample \in Samples /\ Received(Payload(c), clock)
                         /\ NoneAfter(cb[c].at, q)
  BY DEF Stamped, q
<1>7. clock \in 0..MaxClock  BY DEF Stamped
<1> QED  BY <1>1, <1>2, <1>4, <1>5, <1>6, <1>7 DEF Stamped

(* A sample without a defect is what it seems.                              *)
LEMMA SampleSent ==
  ASSUME NEW sample \in Samples
  PROVE  sample.env \in Envelopes(sample.route)
  BY ReceiverAssumption DEF Envelopes

LEMMA DeliversStamped ==
  ASSUME Inv, Stamped, Books, NEW c \in Callbacks, Delivers(c)
  PROVE  Stamped'
<1>1. /\ clock' = clock /\ owner' = owner /\ Deadline' = Deadline /\ clock \in 0..MaxClock
      /\ clock \in Nat /\ clock <= clock /\ ((fault = NoFault)' <=> fault = NoFault)
  BY NoCallIs, ReceiverAssumption DEF Delivers, Stamped
<1>2. \A d \in Callbacks \ {c} :
        cb'[d] = cb[d] /\ Payload(d)' = Payload(d) /\ (d \in Copying' <=> d \in Copying)
  BY DEF Delivers, Payload, Copying
<1>3. /\ Sized(shared.queue) /\ Ascending(shared.queue)
      /\ \A i \in DOMAIN shared.queue : Received(shared.queue[i], clock)
  BY DEF Stamped, Books
<1>4. CASE shared'.queue = shared.queue /\ cb'[c].pc # "copying"
  <2>1. \A d \in Copying' : d # c /\ d \in Copying /\ d \in Callbacks  BY <1>2, <1>4 DEF Copying
  <2> QED  BY <1>1, <1>2, <1>4, <2>1 DEF Stamped
<1>5. CASE /\ shared'.queue = shared.queue /\ lock = None
           /\ cb'[c].sample = cb[c].sample /\ cb[c].sample \in Samples /\ cb'[c].at = clock
  <2>1. Copying = {}  BY <1>5, FaultsAreNamed DEF Inv, Shapes, Copying
  <2>2. Copying' \subseteq {c}  BY <1>2, <2>1 DEF Copying
  <2>3. Received(Payload(c), clock)'
    <3>1. Payload(c)' = [route |-> cb[c].sample.route, env |-> cb[c].sample.env, at |-> clock]
      BY <1>5 DEF Payload
    <3>2. cb[c].sample.env \in Envelopes(cb[c].sample.route)  BY <1>5, SampleSent
    <3> QED  BY <1>1, <3>1, <3>2 DEF Received, Envelopes
  <2>4. NoneAfter(clock, shared.queue)  BY <1>3 DEF NoneAfter, Received
  <2>5. owner.pc = "hand" => owner.hand.at <= clock  BY DEF Stamped, Received
  <2> QED  BY <1>1, <1>3, <1>5, <2>2, <2>3, <2>4, <2>5 DEF Stamped
<1>6. CASE /\ shared'.queue = Append(shared.queue, Payload(c))
           /\ cb[c].pc = "copying" /\ cb'[c].pc # "copying"
  <2>1. c \in Copying /\ lock = c  BY <1>6 DEF Copying, Inv, Shapes
  <2>2. Copying' = {}
    BY <1>2, <1>6, <2>1 DEF Copying, Inv, Shapes
  <2>3. /\ Received(Payload(c), clock) /\ NoneAfter(Payload(c).at, shared.queue)
        /\ owner.pc = "hand" => owner.hand.at <= Payload(c).at
    BY <2>1 DEF Stamped, Payload
  <2> DEFINE q == shared.queue
             p == Payload(c)
             r == Append(q, p)
  <2>4. shared'.queue = r  BY <1>6
  <2>5. owner.pc = "hand" => Received(owner.hand, clock) /\ NoneBefore(owner.hand.at, q)
    BY DEF Stamped
  <2>6. owner.pc = "due" /\ fault = NoFault => clock >= Deadline  BY DEF Stamped
  <2> HIDE DEF q, p
  <2>7. /\ \A i \in DOMAIN r : Received(r[i], clock)
        /\ Ascending(r) /\ \A x : NoneBefore(x, q) /\ x <= p.at => NoneBefore(x, r)
    <3>1. Sized(q) /\ Ascending(q) /\ \A i \in DOMAIN q : Received(q[i], clock)  BY <1>3 DEF q
    <3>2. Received(p, clock) /\ NoneAfter(p.at, q)  BY <2>3 DEF p, q
    <3> QED  BY <3>1, <3>2, LastArrives
  <2>8. owner.pc = "hand" => NoneBefore(owner.hand.at, r)  BY <2>3, <2>5, <2>7 DEF p
  <2> HIDE DEF r
  <2> QED  BY <1>1, <2>2, <2>4, <2>5, <2>6, <2>7, <2>8 DEF Stamped
<1> QED  BY <1>4, <1>5, <1>6 DEF Delivers

LEMMA DeadlineIs ==
  ASSUME EpochInv, fault = NoFault
  PROVE  Deadline \in Nat
<1>1. Deadline = Min(Ends)  BY DEF Deadline, NextDeadlineAt, Ends, GapEnds, FrameEnds
<1>2. Min(Ends) = EventFold!Min(Ends)  BY DEF Min, EventFold!Min
<1>3. Ends \in SUBSET Nat /\ Ends # {}  BY EndsAre DEF EpochInv
<1> QED  BY ONLY <1>1, <1>2, <1>3, EventFold!MinIs

LEMMA TickStamped ==
  ASSUME EpochInv, Stamped, Tick
  PROVE  Stamped' /\ clock <= clock'
<1>1. clock' = clock + 1 /\ clock < MaxClock /\ MaxClock \in Nat /\ clock \in Nat
  BY ReceiverAssumption DEF Tick, Stamped
<1>2. clock' \in 0..MaxClock /\ clock <= clock'  BY <1>1
<1>3. /\ shared' = shared /\ owner' = owner /\ cb' = cb /\ NoCall
  BY DEF Tick, NoCall
<1>4. Copying' = Copying /\ \A c \in Copying : Payload(c)' = Payload(c)
  BY <1>3 DEF Copying, Payload
<1>5. \A p : Received(p, clock) => Received(p, clock')  BY <1>1 DEF Received
<1>6. Deadline' = Deadline  BY <1>3, NoCallIs
<1>7. owner.pc = "due" /\ fault = NoFault => clock' >= Deadline'
  <2>1. CASE owner.pc = "due" /\ fault = NoFault
    <3>1. clock >= Deadline /\ Deadline \in Nat  BY <2>1, DeadlineIs DEF Stamped
    <3> QED  BY <1>1, <1>6, <3>1
  <2> QED  BY <2>1
<1>8. fault = NoFault <=> (fault = NoFault)'  BY <1>3, NoCallIs
<1> QED  BY <1>2, <1>3, <1>4, <1>5, <1>7, <1>8 DEF Stamped

(* A step without a call keeps the order of time if it does not bring an    *)
(* earlier payload and discards no payload of a receiver that goes on.      *)
LEMMA TimedStays ==
  ASSUME Timed, NoCall, FirstStays(shared'),
         owner.closed => owner'.closed, owner.pc = "gone" => owner'.pc = "gone",
         Punctually => Punctually',
         \/ aux'.lost = aux.lost
         \/ /\ Punctually => \A at \in aux'.lost : at \in aux.lost \/ now <= at
            /\ shared'.fault # None \/ owner'.closed \/ owner'.pc = "gone"
  PROVE  Timed'
<1>1. self' = self /\ now' = now /\ fault' = fault /\ ((fault = NoFault)' <=> fault = NoFault)
  BY NoCallIs
<1>2. Unhindered' => Unhindered
  BY FaultsAreNamed DEF Unhindered, FirstStays, FailedCall
<1>3. fault = NoFault \/ Unhindered' => Punctually'
  BY <1>2 DEF Timed
<1>4. Unhindered' => \A at \in aux'.lost : now <= at
  BY <1>2 DEF Timed
<1>5. aux'.lost # {} => shared'.fault # None \/ fault # NoFault \/ owner'.closed \/ owner'.pc = "gone"
  <2>1. shared.fault # None => shared'.fault # None  BY DEF FirstStays
  <2> QED  BY <2>1 DEF Timed
<1>6. shared'.fault = "Assembly" => fault # NoFault
  BY DEF FirstStays, FailedCall, Timed
<1> QED  BY <1>1, <1>3, <1>4, <1>5, <1>6 DEF Timed

LEMMA StillTimed ==
  ASSUME Stamped, Timed, Still, Onward, FirstStays(shared')
  PROVE  Timed'
<1>1. Copying' = Copying /\ \A c \in Copying : cb'[c] = cb[c]
  BY DEF Still, Copying
<1>2. clock' = clock /\ NoCall /\ now' = now  BY NoCallIs DEF Still
<1>3. Punctually => Punctually'
  BY <1>1, <1>2, NothingQueued DEF Punctually, Still
<1>4. Punctually => \A at \in Instants(shared.queue) : now <= at
  BY DEF Punctually, NoneBefore, Instants
<1>5. \/ aux'.lost = aux.lost
      \/ /\ Punctually => \A at \in aux'.lost : at \in aux.lost \/ now <= at
         /\ shared'.fault # None \/ owner'.closed \/ owner'.pc = "gone"
  BY <1>4 DEF Still
<1> QED  BY <1>2, <1>3, <1>5, TimedStays DEF Onward

LEMMA TakesTimed ==
  ASSUME Stamped, Timed, Books, Takes, Onward, FirstStays(shared')
  PROVE  Timed'
<1>1. Copying' = Copying /\ \A c \in Copying : cb'[c] = cb[c]
  BY DEF Takes, Copying
<1>2. clock' = clock /\ NoCall /\ now' = now  BY NoCallIs DEF Takes
<1> DEFINE q == shared.queue
<1>3. /\ Sized(q) /\ q # <<>> /\ Ascending(q) /\ \A i \in DOMAIN q : Received(q[i], clock)
  BY DEF Stamped, Books, Takes
<1> HIDE DEF q
<1>4. \A x : NoneBefore(x, q) => NoneBefore(x, Tail(q)) /\ x <= Head(q).at
  BY <1>3, HeadLeaves
<1>5. shared'.queue = Tail(q) /\ owner'.pc = "hand" /\ owner'.hand = Head(q)
  BY DEF Takes, q
<1>6. Punctually => NoneBefore(now, q)  BY DEF Punctually, q
<1>7. Punctually => Punctually'
  BY <1>1, <1>2, <1>4, <1>5, <1>6 DEF Punctually
<1> QED  BY <1>2, <1>7, TimedStays DEF Onward, Takes

LEMMA DeliversTimed ==
  ASSUME Inv, Stamped, Timed, Books, NEW c \in Callbacks, Delivers(c), FirstStays(shared')
  PROVE  Timed'
<1>1. clock' = clock /\ owner' = owner /\ NoCall /\ now' = now /\ aux'.lost = aux.lost
  BY NoCallIs DEF Delivers
<1>2. \A d \in Callbacks \ {c} : cb'[d] = cb[d] /\ (d \in Copying' <=> d \in Copying)
  BY DEF Delivers, Copying
<1>3. ASSUME Punctually PROVE Punctually'
  <2>1. CASE shared'.queue = shared.queue /\ cb'[c].pc # "copying"
    <3>1. \A d \in Copying' : d # c /\ d \in Copying /\ d \in Callbacks  BY <1>2, <2>1 DEF Copying
    <3> QED  BY <1>1, <1>2, <1>3, <2>1, <3>1 DEF Punctually
  <2>2. CASE shared'.queue = shared.queue /\ cb'[c].at = clock
    <3>1. \A d \in Copying' : d = c \/ (d \in Copying /\ cb'[d] = cb[d])
      BY <1>2 DEF Copying
    <3> QED  BY <1>1, <1>3, <2>2, <3>1 DEF Punctually
  <2>3. CASE shared'.queue = Append(shared.queue, Payload(c)) /\ cb[c].pc = "copying" /\ cb'[c].pc # "copying"
    <3>1. \A d \in Copying' : d # c /\ d \in Copying /\ d \in Callbacks  BY <1>2, <2>3 DEF Copying
    <3> DEFINE q == shared.queue
               p == Payload(c)
               r == Append(q, p)
    <3>2. c \in Copying /\ p.at = cb[c].at  BY <2>3 DEF Copying, Payload
    <3>3. /\ Sized(q) /\ Ascending(q) /\ \A i \in DOMAIN q : Received(q[i], clock)
          /\ Received(p, clock) /\ NoneAfter(p.at, q)
      BY <3>2 DEF Stamped, Books
    <3>4. NoneBefore(now, q) /\ now <= p.at  BY <1>3, <3>2 DEF Punctually
    <3>5. shared'.queue = r  BY <2>3
    <3> HIDE DEF p, q
    <3>6. NoneBefore(now, r)  BY <3>3, <3>4, LastArrives
    <3> HIDE DEF r
    <3> QED  BY <1>1, <1>2, <1>3, <3>1, <3>5, <3>6 DEF Punctually
  <2> QED  BY <2>1, <2>2, <2>3 DEF Delivers
<1> QED  BY <1>1, <1>3, TimedStays

LEMMA TickTimed ==
  ASSUME EpochInv, Stamped, Timed, Tick
  PROVE  Timed'
<1>1. /\ shared' = shared /\ owner' = owner /\ cb' = cb /\ NoCall /\ aux' = aux
  BY DEF Tick, NoCall
<1>2. clock \in Nat /\ clock' = clock + 1 /\ now \in Nat
  BY ReceiverAssumption DEF Tick, Stamped, EpochInv
<1>3. now <= clock => now <= clock'  BY <1>2
<1>4. Copying' = Copying /\ now' = now  BY <1>1, NoCallIs DEF Copying
<1>5. Punctually => Punctually'  BY <1>1, <1>3, <1>4 DEF Punctually
<1>6. FirstStays(shared')  BY <1>1 DEF FirstStays
<1> QED  BY <1>1, <1>5, <1>6, TimedStays

-----------------------------------------------------------------------------
(* Which step is of which kind.                                             *)

LEMMA CallbackDelivers ==
  ASSUME Inv, Books, NEW c \in Callbacks,
         CallbackStep(c) \/ \E sample \in Samples : EnterCallback(c, sample)
  PROVE  Delivers(c)
<1>0. /\ Shapes /\ HasFields(cb[c], ThreadFields) /\ HasFields(aux, AuxFields)
      /\ HasFields(shared, SharedFields) /\ DOMAIN cb = Callbacks
  BY DEF Inv, Shapes, Books
<1>1. /\ NoCall /\ UNCHANGED <<clock, owner>>
  BY DEF CallbackStep, AcceptPayload, EnqueuePayload, PanicInCallback, LeaveCallback, CountDown,
     NotifyStartup, EnterCallback, NoCall
<1>2. aux'.lost = aux.lost
  BY <1>0 DEF CallbackStep, AcceptPayload, EnqueuePayload, PanicInCallback, LeaveCallback,
     CountDown, NotifyStartup, EnterCallback, HasFields, AuxFields
<1>3. \A d \in Callbacks \ {c} : cb'[d] = cb[d]
  BY <1>0 DEF CallbackStep, AcceptPayload, EnqueuePayload, PanicInCallback, LeaveCallback,
     CountDown, NotifyStartup, EnterCallback
<1>4. Leave(c).pc # "copying"  BY <1>0 DEF Leave, HasFields, ThreadFields
<1>5. CASE \E sample \in Samples : EnterCallback(c, sample)
  <2>1. shared'.queue = shared.queue
    BY <1>0, <1>5, QueueIs DEF EnterCallback
  <2>2. cb'[c].pc # "copying"
    BY <1>0, <1>5 DEF EnterCallback
  <2> QED  BY <1>1, <1>2, <1>3, <2>1, <2>2 DEF Delivers
<1>6. CASE AcceptPayload(c)
  <2>1. shared'.queue = shared.queue
    BY <1>0, <1>6, QueueIs DEF AcceptPayload
  <2>2. CASE cb' = [cb EXCEPT ![c] = Leave(c)]
    <3>1. cb'[c].pc # "copying"  BY <1>0, <1>4, <2>2
    <3> QED  BY <1>1, <1>2, <1>3, <2>1, <3>1 DEF Delivers
  <2>3. CASE cb' = [cb EXCEPT ![c].pc = "copying", ![c].at = clock]
    <3>1. cb'[c].sample = cb[c].sample /\ cb'[c].at = clock
      BY <1>0, <2>3 DEF HasFields, ThreadFields
    <3>2. lock = None /\ cb[c].sample \in Samples  BY <1>0, <1>6 DEF AcceptPayload, Shapes
    <3> QED  BY <1>1, <1>2, <1>3, <2>1, <3>1, <3>2 DEF Delivers
  <2> QED  BY <1>6, <2>2, <2>3 DEF AcceptPayload
<1>7. CASE EnqueuePayload(c)
  <2>1. cb[c].pc = "copying" /\ cb'[c].pc # "copying"  BY <1>0, <1>4, <1>7 DEF EnqueuePayload
  <2>2. shared'.queue = shared.queue \/ shared'.queue = Append(shared.queue, Payload(c))
    BY <1>0, <1>7, QueueIs DEF EnqueuePayload
  <2> QED  BY <1>1, <1>2, <1>3, <2>1, <2>2 DEF Delivers
<1>8. CASE PanicInCallback(c)
  <2>1. cb'[c].pc # "copying"  BY <1>0, <1>4, <1>8 DEF PanicInCallback
  <2>2. shared'.queue = shared.queue  BY <1>0, <1>8, QueueIs DEF PanicInCallback
  <2> QED  BY <1>1, <1>2, <1>3, <2>1, <2>2 DEF Delivers
<1>9. CASE LeaveCallback(c)
  <2>1. cb'[c].pc # "copying"
    <3>1. CASE cb' = [cb EXCEPT ![c].pc = "left"]
      BY <1>0, <3>1 DEF HasFields, ThreadFields
    <3>2. CASE cb' = [cb EXCEPT ![c].pc = "idle", ![c].entered = None]
      BY <1>0, <3>2 DEF HasFields, ThreadFields
    <3> QED  BY <1>9, <3>1, <3>2 DEF LeaveCallback
  <2>2. shared'.queue = shared.queue
    <3>1. \/ \E v : shared' = [shared EXCEPT !.inflight = v]
          \/ \E v : shared' = [shared EXCEPT !.startupNote = v]
      BY <1>9 DEF LeaveCallback, CountDown, NotifyStartup
    <3> QED  BY <1>0, <3>1 DEF HasFields, SharedFields
  <2> QED  BY <1>1, <1>2, <1>3, <2>1, <2>2 DEF Delivers
<1> QED  BY <1>5, <1>6, <1>7, <1>8, <1>9 DEF CallbackStep

LEMMA OwnerIsStill ==
  ASSUME Inv, Books,
         \/ OpeningStep \/ AbandonOpening \/ ClosingStep
         \/ StartRecv \/ CancelRecv \/ StartClose \/ DropReceiver
         \/ LookForFault \/ LookAtClock \/ TakePendingEvent \/ ArmSelect
         \/ WakeForFault \/ WakeForDeadline \/ StageEvents
  PROVE  Still
<1>0. /\ Shapes /\ HasFields(owner, OwnerFields) /\ HasFields(aux, AuxFields)
      /\ HasFields(shared, SharedFields)
  BY DEF Inv, Shapes, Books
<1>1. CASE OpeningStep \/ AbandonOpening
  <2>1. NoCall /\ UNCHANGED <<clock, cb, aux>>
    BY <1>1 DEF OpeningStep, SubscribeObservation, SubscribeMonitor, BeginActivation, Drain,
       DrainWake, Activate, AbandonOpening, NoCall
  <2>2. owner'.pc # "hand" /\ owner'.pc # "due"
    BY <1>0, <1>1 DEF OpeningStep, SubscribeObservation, SubscribeMonitor, BeginActivation,
       Drain, DrainWake, Activate, AbandonOpening, OwnerAt, HasFields, OwnerFields
  <2>3. shared'.queue = shared.queue
    <3>1. \/ shared' = shared \/ shared' = Locked
          \/ \E v : shared' = [Locked EXCEPT !.phase = v]
          \/ \E v : shared' = [shared EXCEPT !.phase = v]
          \/ \E v : shared' = [shared EXCEPT !.startupNote = v]
      BY <1>1 DEF OpeningStep, SubscribeObservation, SubscribeMonitor, BeginActivation, Drain,
         DrainWake, Activate, AbandonOpening
    <3>2. HasFields(Locked, SharedFields) /\ Locked.queue = shared.queue  BY <1>0, QueueIs
    <3> QED  BY <1>0, <3>1, <3>2 DEF HasFields, SharedFields
  <2> QED  BY <2>1, <2>2, <2>3 DEF Still
<1>2. CASE Seal \/ FinishDrop
  <2>1. PICK next \in {"undeclareObservation", "gone"} :
          Discarded(next) /\ (next = "gone" \/ owner.pc = "sealing")
    BY <1>2 DEF Seal, FinishDrop
  <2>2. NoCall /\ UNCHANGED <<clock, cb>>  BY <2>1 DEF Discarded, NoCall
  <2>3. owner'.pc = next /\ owner'.closed = owner.closed
    BY <1>0, <2>1 DEF Discarded, HasFields, OwnerFields
  <2>4. shared'.queue = <<>>  BY <1>0, <2>1, QueueIs DEF Discarded
  <2>5. aux'.lost = aux.lost \cup Instants(shared.queue)
    BY <1>0, <2>1 DEF Discarded, HasFields, AuxFields
  <2>6. next = "gone" \/ owner.closed  BY <2>1 DEF Inv, Sealing, Closing
  <2> QED  BY <2>2, <2>3, <2>4, <2>5, <2>6 DEF Still
<1>3. CASE UndeclareObservation \/ UndeclareMonitor \/ CloseBus
  <2>1. NoCall /\ UNCHANGED <<clock, cb, aux, shared>>
    BY <1>3 DEF UndeclareObservation, UndeclareMonitor, CloseBus, NoCall
  <2>2. owner'.pc # "hand" /\ owner'.pc # "due"
    BY <1>0, <1>3 DEF UndeclareObservation, UndeclareMonitor, CloseBus, OwnerAt, HasFields,
       OwnerFields
  <2> QED  BY <2>1, <2>2 DEF Still
<1>4. CASE StartRecv \/ CancelRecv \/ StartClose \/ DropReceiver
  <2>1. NoCall /\ UNCHANGED <<clock, cb>>
    BY <1>4 DEF StartRecv, CancelRecv, StartClose, DropReceiver, NoCall
  <2>2. aux'.lost = aux.lost
    BY <1>0, <1>4 DEF StartRecv, CancelRecv, StartClose, DropReceiver, HasFields, AuxFields
  <2>3. owner'.pc # "hand" /\ owner'.pc # "due"
    BY <1>0, <1>4 DEF StartRecv, CancelRecv, StartClose, DropReceiver, OwnerAt, HasFields,
       OwnerFields
  <2>4. shared'.queue = shared.queue
    BY <1>0, <1>4, QueueIs DEF StartRecv, CancelRecv, StartClose, DropReceiver
  <2> QED  BY <2>1, <2>2, <2>3, <2>4 DEF Still
<1>5. CASE LookForFault
  <2>1. NoCall /\ UNCHANGED <<clock, cb>>  BY <1>5 DEF LookForFault, NoCall
  <2>2. owner'.pc # "hand" /\ owner'.pc # "due"
    BY <1>0, <1>5 DEF LookForFault, OwnerAt, HasFields, OwnerFields
  <2>3. CASE Locked.fault # None
    <3>1. shared' = [Locked EXCEPT !.queue = <<>>]
          /\ aux' = [aux EXCEPT !.lost = @ \cup Instants(shared.queue)]
      BY <1>5, <2>3 DEF LookForFault
    <3>2. HasFields(Locked, SharedFields)  BY <1>0, QueueIs
    <3>3. shared'.queue = <<>> /\ shared'.fault = Locked.fault
      BY <3>1, <3>2 DEF HasFields, SharedFields
    <3>4. aux'.lost = aux.lost \cup Instants(shared.queue)
      BY <1>0, <3>1 DEF HasFields, AuxFields
    <3> QED  BY <2>1, <2>2, <2>3, <3>3, <3>4 DEF Still
  <2>4. CASE Locked.fault = None
    <3>1. shared'.queue = shared.queue /\ aux' = aux
      BY <1>0, <1>5, <2>4, QueueIs DEF LookForFault
    <3> QED  BY <2>1, <2>2, <3>1 DEF Still
  <2> QED  BY <2>3, <2>4
<1>6. CASE \/ LookAtClock \/ TakePendingEvent \/ ArmSelect
           \/ WakeForFault \/ WakeForDeadline \/ StageEvents
  <2>1. NoCall /\ UNCHANGED <<clock, cb, aux>>
    BY <1>6 DEF LookAtClock, TakePendingEvent, ArmSelect, WakeForFault, WakeForDeadline,
       StageEvents, NoCall
  <2>2. owner'.pc # "hand" /\ (owner'.pc = "due" => clock >= Deadline)
    BY <1>0, <1>6 DEF LookAtClock, TakePendingEvent, ArmSelect, WakeForFault, WakeForDeadline,
       StageEvents, OwnerAt, HasFields, OwnerFields
  <2>3. shared'.queue = shared.queue
    <3>1. \/ shared' = shared \/ shared' = Locked \/ shared' = Latched(Locked, "Assembly")
          \/ \E v : shared' = [shared EXCEPT !.terminalNote = v]
      BY <1>6 DEF LookAtClock, TakePendingEvent, ArmSelect, WakeForFault, WakeForDeadline,
         StageEvents
    <3>2. Locked.queue = shared.queue /\ Latched(Locked, "Assembly").queue = shared.queue
      BY <1>0, QueueIs
    <3> QED  BY <1>0, <3>1, <3>2 DEF HasFields, SharedFields
  <2> QED  BY <2>1, <2>2, <2>3 DEF Still
<1> QED  BY <1>1, <1>2, <1>3, <1>4, <1>5, <1>6 DEF ClosingStep

(* TakePriority without a budget or a queue, or the two that take.          *)
LEMMA OwnerTakes ==
  ASSUME Inv, Books, TakePriority \/ WakeForIngress
  PROVE  Still \/ Takes
<1>0. /\ Shapes /\ HasFields(owner, OwnerFields) /\ HasFields(shared, SharedFields)
  BY DEF Inv, Shapes
<1>1. NoCall /\ UNCHANGED <<clock, cb, aux>>
  BY DEF TakePriority, WakeForIngress, NoCall
<1>2. CASE WakeForIngress \/ (TakePriority /\ PriorityLeft /\ shared.queue # <<>>)
  <2>1. /\ shared'.queue = Tail(shared.queue) /\ owner'.pc = "hand" /\ shared.queue # <<>>
        /\ owner'.hand = Head(shared.queue)
    BY <1>0, <1>2, QueueIs DEF TakePriority, WakeForIngress, HasFields, OwnerFields
  <2> QED  BY <1>1, <2>1 DEF Takes
<1>3. CASE TakePriority /\ ~(PriorityLeft /\ shared.queue # <<>>)
  <2>1. shared' = shared /\ owner'.pc = "take"
    BY <1>0, <1>3 DEF TakePriority, OwnerAt, HasFields, OwnerFields
  <2> QED  BY <1>1, <2>1 DEF Still
<1> QED  BY <1>2, <1>3

(* What take_deadline_ingress and process_ingress_or_expire do: they take   *)
(* the head of the queue, process what is in the hand, or let the deadline  *)
(* expire and drop what came too late.                                      *)
Processes ==
  /\ owner.pc = "hand" /\ ~(owner.hand.at >= Deadline)
  /\ Ingest(owner.hand)
  /\ shared'.queue = shared.queue /\ aux'.lost = aux.lost

Expires ==
  /\ owner.pc \in {"due", "hand"} /\ AdvanceTime(Deadline)
  /\ \/ /\ shared'.queue = shared.queue
        /\ \/ aux'.lost = aux.lost
           \/ owner.pc = "hand" /\ aux'.lost = aux.lost \cup {owner.hand.at}
     \/ /\ owner.pc = "due" /\ shared.queue # <<>>
        /\ shared'.queue = Tail(shared.queue) /\ aux'.lost = aux.lost \cup {Head(shared.queue).at}
  /\ owner.pc = "hand" => owner.hand.at >= Deadline
  /\ owner.pc = "due" /\ shared'.fault = None /\ shared.queue # <<>> =>
       Head(shared.queue).at >= Deadline

Calls ==
  /\ lock = None /\ UNCHANGED <<clock, cb>> /\ owner'.pc = "staging"
  /\ Processes \/ Expires

LEMMA AssemblingIs ==
  ASSUME Inv, Books, AssemblingStep
  PROVE  Takes \/ Calls
<1>0. /\ Shapes /\ HasFields(owner, OwnerFields) /\ HasFields(shared, SharedFields)
      /\ HasFields(aux, AuxFields)
  BY DEF Inv, Shapes, Books
<1>1. UNCHANGED <<clock, cb>> /\ lock = None
  BY DEF AssemblingStep, ReachDeadline, ProcessOrExpire
<1>2. \A extra : Expire(extra) =>
        /\ AdvanceTime(Deadline) /\ owner'.pc = "staging" /\ aux'.lost = aux.lost \cup extra
  BY <1>0 DEF Expire, HasFields, OwnerFields, AuxFields
<1>3. HasFields(Locked, SharedFields) /\ Locked.queue = shared.queue  BY <1>0, QueueIs
<1>4. CASE ReachDeadline
  <2>1. owner.pc = "due"  BY <1>4 DEF ReachDeadline
  <2>2. CASE /\ shared.queue # <<>> /\ shared' = [Locked EXCEPT !.queue = Tail(@)]
             /\ owner' = [owner EXCEPT !.pc = "hand", !.hand = Head(shared.queue),
                                       !.budget = IF @ > 0 THEN @ - 1 ELSE 0]
             /\ UNCHANGED <<epoch, health, aux>>
    <3>1. /\ shared'.queue = Tail(shared.queue) /\ owner'.pc = "hand"
          /\ owner'.hand = Head(shared.queue)
      BY <1>0, <1>3, <2>2 DEF HasFields, SharedFields, OwnerFields
    <3> QED  BY <1>1, <2>2, <3>1 DEF Takes, NoCall
  <2>3. CASE /\ shared.queue # <<>> /\ shared' = [Locked EXCEPT !.queue = Tail(@)]
             /\ Head(shared.queue).at >= Deadline /\ Expire({Head(shared.queue).at})
    <3>1. shared'.queue = Tail(shared.queue)  BY <1>3, <2>3 DEF HasFields, SharedFields
    <3> QED  BY <1>1, <1>2, <2>1, <2>3, <3>1 DEF Calls, Expires
  <2>4. CASE /\ Locked.fault # None \/ shared.queue = <<>>
             /\ shared' = Locked /\ Expire({})
    <3>1. shared'.queue = shared.queue  BY <1>3, <2>4
    <3>2. shared'.fault = None => shared.queue = <<>>  BY <2>4
    <3>3. AdvanceTime(Deadline) /\ owner'.pc = "staging" /\ aux'.lost = aux.lost
      <4>1. Expire({})  BY <2>4
      <4>2. /\ AdvanceTime(Deadline) /\ owner'.pc = "staging"
            /\ aux'.lost = aux.lost \cup {}
        BY <1>2, <4>1
      <4> QED  BY ONLY <4>2
    <3> QED  BY <1>1, <2>1, <3>1, <3>2, <3>3 DEF Calls, Expires
  <2>5. \/ /\ shared.queue # <<>> /\ shared' = [Locked EXCEPT !.queue = Tail(@)]
           /\ owner' = [owner EXCEPT !.pc = "hand", !.hand = Head(shared.queue),
                                     !.budget = IF @ > 0 THEN @ - 1 ELSE 0]
           /\ UNCHANGED <<epoch, health, aux>>
        \/ /\ shared.queue # <<>> /\ shared' = [Locked EXCEPT !.queue = Tail(@)]
           /\ Head(shared.queue).at >= Deadline /\ Expire({Head(shared.queue).at})
        \/ (Locked.fault # None \/ shared.queue = <<>>) /\ shared' = Locked /\ Expire({})
    BY <1>4 DEF ReachDeadline
  <2> QED  BY <2>2, <2>3, <2>4, <2>5
<1>5. CASE ProcessOrExpire
  <2>1. owner.pc = "hand" /\ shared'.queue = shared.queue
    BY <1>3, <1>5 DEF ProcessOrExpire
  <2>2. CASE owner.hand.at >= Deadline
    <3>1. Expire({owner.hand.at})  BY <1>5, <2>2 DEF ProcessOrExpire
    <3> QED  BY <1>1, <1>2, <2>1, <2>2, <3>1 DEF Calls, Expires
  <2>3. CASE ~(owner.hand.at >= Deadline)
    <3>1. Ingest(owner.hand) /\ owner'.pc = "staging" /\ aux'.lost = aux.lost
      BY <1>0, <1>5, <2>3 DEF ProcessOrExpire, HasFields, OwnerFields, AuxFields
    <3> QED  BY <1>1, <2>1, <2>3, <3>1 DEF Calls, Processes
  <2> QED  BY <2>2, <2>3
<1> QED  BY <1>4, <1>5 DEF AssemblingStep

-----------------------------------------------------------------------------
(* The calls of the assembler.                                              *)

(* The instant a call brings, and that it is a call of the assembler.       *)
LEMMA CallsEpoch ==
  ASSUME Inv, Books, Stamped, EpochInv, Calls
  PROVE  /\ EpochNext /\ fault = NoFault
         /\ \E t \in Nat :
              /\ t <= clock /\ now' = Latest(t)
              /\ (fault # NoFault)' => fault'.at = now'
              /\ \/ Processes /\ t = owner.hand.at
                 \/ Expires /\ t = Deadline
<1>1. clock \in Nat /\ clock <= MaxClock /\ MaxClock \in Nat /\ 0..MaxClock \subseteq Times
  BY ReceiverAssumption DEF Stamped
<1>2. ASSUME NEW w, NEW t, NEW observations, Finish(w, t, observations), fault = NoFault
      PROVE  now' = Latest(t) /\ ((fault # NoFault)' => fault'.at = now')
  <2>1. CASE w.error = None  BY <1>2, <2>1 DEF Finish, NoFault
  <2>2. CASE w.error # None  BY <1>2, <2>2 DEF Finish
  <2> QED  BY <2>1, <2>2
<1>3. CASE Processes
  <2> DEFINE p == owner.hand
  <2>1. Received(p, clock) /\ Ingest(p)  BY <1>3 DEF Processes, Stamped
  <2>2. p.at \in Times /\ p.at \in Nat /\ p.at <= clock
    <3>1. p.at \in 0..MaxClock  BY <1>1, <2>1 DEF Received
    <3> QED  BY <1>1, <2>1, <3>1 DEF Received
  <2> HIDE DEF p
  <2>3. CASE p.route = "monitor"
    <3>1. p.env \in MonitorEnvelopes /\ IngestMonitor(p.env, p.at)
      BY <2>1, <2>3 DEF Ingest, Received, Envelopes
    <3>2. fault = NoFault /\ Finish(TakeMonitor(Begin(p.at), p.env, p.at), p.at, {})
      BY <3>1 DEF IngestMonitor
    <3>3. now' = Latest(p.at) /\ ((fault # NoFault)' => fault'.at = now')  BY <1>2, <3>2
    <3>4. EpochNext  BY <2>2, <3>1 DEF EpochNext
    <3> QED  BY <1>3, <2>2, <3>2, <3>3, <3>4 DEF p
  <2>4. CASE p.route # "monitor"
    <3>1. p.env \in ObservationEnvelopes /\ IngestObservation(p.env, p.at)
      BY <2>1, <2>4 DEF Ingest, Received, Envelopes
    <3>2. /\ fault = NoFault
          /\ Finish(TakeObservation(Begin(p.at), p.env, p.at), p.at, {p.env.observation})
      BY <3>1 DEF IngestObservation
    <3>3. now' = Latest(p.at) /\ ((fault # NoFault)' => fault'.at = now')  BY <1>2, <3>2
    <3>4. EpochNext  BY <2>2, <3>1 DEF EpochNext
    <3> QED  BY <1>3, <2>2, <3>2, <3>3, <3>4 DEF p
  <2> QED  BY <2>3, <2>4
<1>4. CASE Expires
  <2> DEFINE d == Deadline
  <2>1. AdvanceTime(d) /\ fault = NoFault /\ Finish(Begin(d), d, {})
    BY <1>4 DEF Expires, AdvanceTime
  <2>2. d \in Nat  BY <2>1, DeadlineIs
  <2>3. d <= clock
    <3>1. CASE owner.pc = "due"
      <4>1. clock >= d  BY <2>1, <3>1 DEF Stamped
      <4> QED  BY <1>1, <2>2, <4>1
    <3>2. CASE owner.pc = "hand"
      <4>1. owner.hand.at \in Nat /\ owner.hand.at <= clock /\ owner.hand.at >= d
        BY <1>4, <3>2 DEF Stamped, Received, Expires
      <4> QED  BY <1>1, <2>2, <4>1
    <3> QED  BY <1>4, <3>1, <3>2 DEF Expires
  <2> HIDE DEF d
  <2>4. d \in Times
    <3>1. d \in 0..MaxClock  BY <1>1, <2>2, <2>3
    <3> QED  BY <1>1, <3>1
  <2>5. now' = Latest(d) /\ ((fault # NoFault)' => fault'.at = now')  BY <1>2, <2>1
  <2>6. EpochNext  BY <2>1, <2>4 DEF EpochNext
  <2> QED  BY <1>4, <2>1, <2>2, <2>3, <2>5, <2>6 DEF d
<1> QED  BY <1>3, <1>4 DEF Calls

(* Time that reached the deadline ends the epoch.                           *)
LEMMA DeadlineEnds ==
  ASSUME EpochInv, AdvanceTime(Deadline), Deadline \in Times
  PROVE  (fault # NoFault)'
<1> DEFINE d == Deadline
<1>1. fault = NoFault /\ Finish(Begin(d), d, {}) /\ d \in Times  BY DEF AdvanceTime
<1>2. Kept(self, out, log, seen, now) /\ now \in Nat /\ d \in Nat
  BY <1>1, DeadlineIs DEF EpochInv
<1>3. \/ Expired(self.gapAt, d, Limits.reorderDeadline)
      \/ Overdue(d) # {}
      \/ Expired(HeartbeatBase, d, HeartbeatWindow)
  <2>1. d >= NextDeadlineAt  BY <1>2 DEF Deadline
  <2> HIDE DEF d
  <2> QED  BY <1>2, <2>1, NextDeadlineIs
<1> HIDE DEF d
<1>4. BeginError(d) # None  BY <1>1, <1>3, Punctual
<1>5. Begin(d).error # None
  <2>1. PICK from : Begin(d) = Refuse(Started, BeginError(d), from)
    BY <1>4 DEF Begin, Started
  <2>2. Work(Started)  BY StartedIs DEF EpochInv
  <2> QED  BY <1>4, <2>1, <2>2, Refused
<1>6. fault' = [kind |-> Begin(d).error, from |-> Begin(d).from, at |-> Latest(d)]
  BY <1>1, <1>5 DEF Finish
<1>7. "at" \in DOMAIN fault' /\ "at" \notin DOMAIN NoFault  BY <1>6 DEF NoFault
<1> QED  BY <1>7 DEF NoFault

LEMMA CallsStamped ==
  ASSUME Inv, Books, Stamped, Calls
  PROVE  Stamped'
<1>1. Copying = {} /\ Copying' = {}
  BY FaultsAreNamed DEF Calls, Inv, Shapes, Copying
<1>2. clock' = clock /\ owner'.pc = "staging"  BY DEF Calls
<1>3. shared'.queue = shared.queue \/ (shared.queue # <<>> /\ shared'.queue = Tail(shared.queue))
  BY DEF Calls, Processes, Expires
<1> DEFINE q == shared.queue
<1>4. /\ Sized(q) /\ Ascending(q) /\ \A i \in DOMAIN q : Received(q[i], clock)
  BY DEF Stamped, Books
<1>5. shared'.queue = q \/ (q # <<>> /\ shared'.queue = Tail(q))  BY <1>3
<1> HIDE DEF q
<1>6. Ascending(shared'.queue) /\ \A i \in DOMAIN shared'.queue : Received(shared'.queue[i], clock)
  BY <1>4, <1>5, HeadLeaves
<1> QED  BY <1>1, <1>2, <1>6 DEF Stamped

LEMMA CallsTimed ==
  ASSUME Inv, Books, Stamped, Timed, EpochInv, Calls, FirstStays(shared'), Onward
  PROVE  Timed'
<1>1. fault = NoFault /\ lock = None /\ clock' = clock /\ owner'.pc = "staging" /\ Punctually
  BY CallsEpoch DEF Calls, Timed
<1>2. Copying = {} /\ Copying' = {}
  BY <1>1, FaultsAreNamed DEF Calls, Inv, Shapes, Copying
<1>3. PICK t \in Nat :
        /\ t <= clock /\ now' = Latest(t)
        /\ (fault # NoFault)' => fault'.at = now'
        /\ \/ Processes /\ t = owner.hand.at
           \/ Expires /\ t = Deadline
  BY CallsEpoch
<1>4. now' = (IF t >= now THEN t ELSE now) /\ now \in Nat /\ clock \in Nat
  BY <1>3, LatestIs DEF EpochInv, Stamped
<1>5. shared.fault # "Assembly" /\ shared'.fault # "Assembly"
  BY <1>1 DEF Timed, FirstStays, FailedCall
<1>6. owner.pc \in {"due", "hand"} /\ ~owner.closed /\ owner.pc # "gone"
  BY DEF Calls, Processes, Expires, Inv, Sealing, AfterClose
<1>7. Unhindered' => shared'.fault = None /\ shared.fault = None /\ aux.lost = {}
  <2>1. Unhindered' => shared'.fault = None /\ shared.fault = None
    BY <1>5 DEF Unhindered, FirstStays
  <2> QED  BY <1>1, <1>6, <2>1 DEF Timed
<1> DEFINE q == shared.queue
<1>8. /\ Sized(q) /\ Ascending(q) /\ \A i \in DOMAIN q : Received(q[i], clock)
      /\ NoneBefore(now, q)
  BY <1>1 DEF Stamped, Books, Punctually
<1>9. now' <= clock'  BY <1>1, <1>3, <1>4 DEF Punctually
<1>10. CASE Processes /\ t = owner.hand.at
  <2>1. now <= t /\ NoneBefore(t, q)  BY <1>1, <1>10 DEF Processes, Punctually, Stamped
  <2>2. now' = t  BY <1>4, <2>1
  <2>3. shared'.queue = q /\ aux'.lost = aux.lost  BY <1>10 DEF Processes
  <2>4. Punctually'  BY <1>1, <1>2, <1>9, <2>1, <2>2, <2>3 DEF Punctually
  <2>5. aux.lost # {} => shared'.fault # None
    BY <1>1, <1>6 DEF Timed, FirstStays
  <2>6. Unhindered' => aux'.lost = {}  BY <1>7, <2>3
  <2> QED  BY <1>3, <1>5, <2>3, <2>4, <2>5, <2>6 DEF Timed
<1>11. CASE Expires /\ t = Deadline
  <2>1. (fault # NoFault)'
    <3>1. t \in Times
      <4>1. clock \in 0..MaxClock /\ MaxClock \in Nat /\ t \in Nat /\ t <= clock
        BY <1>3, ReceiverAssumption DEF Stamped
      <4>2. t \in 0..MaxClock  BY ONLY <4>1
      <4> QED  BY <4>2, ReceiverAssumption
    <3> QED  BY <1>11, <3>1, DeadlineEnds DEF Expires
  <2>2. ASSUME Unhindered'
        PROVE  Punctually' /\ \A at \in aux'.lost : now' <= at
    <3>1. shared'.fault = None /\ aux.lost = {}  BY <1>7, <2>2
    <3>2. owner.pc = "due" /\ q # <<>> => Head(q).at >= t
      BY <1>11, <3>1 DEF Expires
    <3>3. owner.pc = "hand" => owner.hand.at >= t /\ owner.hand.at \in Nat
                              /\ NoneBefore(owner.hand.at, q) /\ now <= owner.hand.at
      BY <1>1, <1>11 DEF Expires, Stamped, Received, Punctually
    <3>4. \A i \in DOMAIN q : q[i].at \in Nat /\ now <= q[i].at
      BY <1>8 DEF Received, NoneBefore
    <3> HIDE DEF q
    <3>5. q # <<>> => /\ Received(Head(q), clock) /\ NoneBefore(Head(q).at, q)
                      /\ now <= Head(q).at
                      /\ \A x : NoneBefore(x, q) => NoneBefore(x, Tail(q))
      BY <1>8, HeadLeaves
    <3>6. NoneBefore(t, q)
      <4>1. CASE owner.pc = "hand"
        BY <3>3, <3>4, <4>1 DEF NoneBefore
      <4>2. CASE owner.pc = "due"
        <5>1. CASE q = <<>>  BY <5>1, NothingQueued
        <5>2. CASE q # <<>>
          BY <3>2, <3>4, <3>5, <4>2, <5>2 DEF NoneBefore, Received
        <5> QED  BY <5>1, <5>2
      <4> QED  BY <1>6, <4>1, <4>2
    <3>7. NoneBefore(now', q)  BY <1>4, <1>8, <3>6
    <3>8. shared'.queue = q \/ (q # <<>> /\ shared'.queue = Tail(q))
      BY <1>11 DEF Expires, q
    <3>9. NoneBefore(now', shared'.queue)  BY <3>5, <3>7, <3>8
    <3>10. Punctually'  BY <1>1, <1>2, <1>9, <3>9 DEF Punctually
    <3>11. \A at \in aux'.lost : now' <= at
      <4>1. \/ aux'.lost = {}
            \/ owner.pc = "hand" /\ aux'.lost = {owner.hand.at}
            \/ owner.pc = "due" /\ q # <<>> /\ aux'.lost = {Head(q).at}
        BY <1>11, <3>1 DEF Expires, q
      <4>2. owner.pc = "hand" => now' <= owner.hand.at  BY <1>4, <3>3
      <4>3. owner.pc = "due" /\ q # <<>> => now' <= Head(q).at
        BY <1>4, <3>2, <3>5 DEF Received
      <4> QED  BY <4>1, <4>2, <4>3
    <3> QED  BY <3>10, <3>11
  <2> QED  BY <1>3, <1>5, <2>1, <2>2 DEF Timed
<1> QED  BY <1>3, <1>10, <1>11

-----------------------------------------------------------------------------
(* What holds between any two steps.                                        *)

OnTime == Stamped /\ Timed /\ EpochInv

LEMMA InitOnTime == Init => OnTime
<1> SUFFICES ASSUME Init PROVE OnTime  OBVIOUS
<1>1. EpochInv /\ fault = NoFault /\ now = StartedAt /\ clock = StartedAt
  BY InvInitially DEF Init, New
<1>2. shared.queue = <<>> /\ shared.fault = None /\ aux.lost = {}
      /\ owner.pc = "subscribeObservation" /\ Copying = {}
  BY DEF Init, Copying
<1>3. StartedAt \in 0..MaxClock /\ StartedAt <= StartedAt
  BY ReceiverAssumption DEF StartedAt
<1>4. Stamped  BY <1>1, <1>2, <1>3, NothingQueued DEF Stamped
<1>5. Punctually  BY <1>1, <1>2, <1>3, NothingQueued DEF Punctually
<1>6. None # "Assembly"  BY FaultsAreNamed DEF ReceiverFaults
<1>7. Timed  BY <1>1, <1>2, <1>5, <1>6 DEF Timed
<1> QED  BY <1>1, <1>4, <1>7 DEF OnTime

(* A step of a callback or of the task.                                     *)
LEMMA CallbackOnTime ==
  ASSUME Inv, Books, OnTime, NEW c \in Callbacks,
         CallbackStep(c) \/ \E sample \in Samples : EnterCallback(c, sample)
  PROVE  Stamped' /\ Timed' /\ UNCHANGED epoch
<1>1. Delivers(c) /\ FirstStays(shared')  BY CallbackDelivers, CallbackStays
<1>2. Stamped' /\ Timed'  BY <1>1, DeliversStamped, DeliversTimed DEF OnTime
<1> QED  BY <1>1, <1>2 DEF Delivers, NoCall

LEMMA OwnerOnTime ==
  ASSUME Inv, Books, OnTime,
         \/ OpeningStep \/ AbandonOpening \/ ReceivingStep \/ AssemblingStep \/ ClosingStep
         \/ StartRecv \/ CancelRecv \/ StartClose \/ DropReceiver
  PROVE  Stamped' /\ Timed' /\ [EpochNext]_epoch
<1>1. FirstStays(shared') /\ Onward  BY OwnerStays
<1>2. Still \/ Takes \/ Calls
  <2>1. CASE AssemblingStep  BY <2>1, AssemblingIs
  <2>2. CASE TakePriority \/ WakeForIngress  BY <2>2, OwnerTakes
  <2>3. CASE \/ OpeningStep \/ AbandonOpening \/ ClosingStep
             \/ StartRecv \/ CancelRecv \/ StartClose \/ DropReceiver
             \/ LookForFault \/ LookAtClock \/ TakePendingEvent \/ ArmSelect
             \/ WakeForFault \/ WakeForDeadline \/ StageEvents
    BY <2>3, OwnerIsStill
  <2> QED  BY <2>1, <2>2, <2>3 DEF ReceivingStep
<1>3. CASE Still
  BY <1>1, <1>3, StillStamped, StillTimed DEF OnTime, Still, NoCall
<1>4. CASE Takes
  BY <1>1, <1>4, TakesStamped, TakesTimed DEF OnTime, Takes, NoCall
<1>5. CASE Calls
  BY <1>1, <1>5, CallsStamped, CallsTimed, CallsEpoch DEF OnTime
<1> QED  BY <1>2, <1>3, <1>4, <1>5

LEMMA NextOnTime == Inv /\ Books /\ OnTime /\ [Next]_vars => OnTime' /\ [EpochNext]_epoch
<1> SUFFICES ASSUME Inv, Books, OnTime, [Next]_vars PROVE OnTime' /\ [EpochNext]_epoch
  OBVIOUS
<1>1. Stamped' /\ Timed' /\ [EpochNext]_epoch
  <2>1. CASE \E c \in Callbacks :
               CallbackStep(c) \/ \E sample \in Samples : EnterCallback(c, sample)
    BY <2>1, CallbackOnTime
  <2>2. CASE \/ OpeningStep \/ AbandonOpening \/ ReceivingStep \/ AssemblingStep \/ ClosingStep
             \/ StartRecv \/ CancelRecv \/ StartClose \/ DropReceiver
    BY <2>2, OwnerOnTime
  <2>3. CASE Tick
    <3>1. UNCHANGED epoch  BY <2>3 DEF Tick
    <3> QED  BY <2>3, <3>1, TickStamped, TickTimed DEF OnTime
  <2>4. CASE UNCHANGED vars
    <3>1. /\ UNCHANGED epoch /\ self' = self /\ now' = now /\ fault' = fault
          /\ UNCHANGED <<clock, shared, lock, cb, owner, aux>>
      BY <2>4 DEF vars, epoch
    <3>2. Deadline' = Deadline /\ Copying' = Copying /\ \A c : Payload(c)' = Payload(c)
      BY <3>1 DEF Deadline, NextDeadlineAt, HeartbeatBase, HeartbeatWindow, Copying, Payload
    <3>3. Stamped'  BY <3>1, <3>2 DEF OnTime, Stamped, NoFault
    <3>4. Timed'  BY <3>1, <3>2 DEF OnTime, Timed, Punctually, Unhindered, NoFault
    <3> QED  BY <3>1, <3>3, <3>4
  <2> QED  BY <2>1, <2>2, <2>3, <2>4 DEF Next
<1>2. EpochInv'  BY <1>1, InvStep DEF OnTime
<1> QED  BY <1>1, <1>2 DEF OnTime

(* The receiver drives its assembler as the assembler allows: whatever a    *)
(* run of the receiver does is, seen from the assembler, a run of EpochSpec,*)
(* so that what is proved of the assembler holds of the one inside the      *)
(* receiver.  Each call has a legal envelope and an instant that a clock    *)
(* between the activation and the bound has shown (recv, ingest_payload).   *)
THEOREM EpochDriven == Spec => EpochSpec
<1>1. Init => Inv /\ Books /\ OnTime /\ New
  BY InitInv, InitBooks, InitOnTime DEF Init
<1>2. Inv /\ Books /\ OnTime /\ [Next]_vars => (Inv /\ Books /\ OnTime)' /\ [EpochNext]_epoch
  BY NextInv, NextBooks, NextOnTime
<1> QED  BY <1>1, <1>2, PTL DEF Spec, EpochSpec

(* Every frame a receiver is ever told of is the exact join of the two      *)
(* routes, oldest first, whatever the threads of the transport do.          *)
THEOREM ReceiverJoinsRoutes == Spec => ImplementsRouteJoin
  BY EpochDriven, JoinsRoutes, PTL

(* When a deadline, or any other fault of the assembler, ends the epoch,    *)
(* nothing that was received earlier is still queued, being copied or       *)
(* dropped unread (take_deadline_ingress before advance_time, and receipt   *)
(* times taken under the lock of the queue).                                *)
THEOREM EarlierAlwaysFirst == Spec => []EarlierEvidenceFirst
<1>1. OnTime => EarlierEvidenceFirst
  <2> SUFFICES ASSUME OnTime, shared.fault = "Assembly",
                      NEW at \in aux.lost \cup Instants(shared.queue) \cup {cb[c].at : c \in Copying}
               PROVE  at >= fault.at
    BY DEF EarlierEvidenceFirst
  <2>1. fault.at = now /\ Punctually /\ \A lost \in aux.lost : now <= lost
    BY DEF OnTime, Timed, Unhindered
  <2>2. now <= at  BY <2>1 DEF Punctually, NoneBefore, Instants
  <2> QED  BY <2>1, <2>2
<1>2. Init => Inv /\ Books /\ OnTime
  BY InitInv, InitBooks, InitOnTime
<1>3. Inv /\ Books /\ OnTime /\ [Next]_vars => (Inv /\ Books /\ OnTime)'
  BY NextInv, NextBooks, NextOnTime
<1> QED  BY <1>1, <1>2, <1>3, PTL DEF Spec

-----------------------------------------------------------------------------
(* Time that does not go back.                                              *)

(* A payload in the hand was received, and a deadline lies, no earlier than *)
(* the last instant the assembler was told of.                              *)
LEMMA CallsForward ==
  ASSUME Prompt, Inv, Books, OnTime, Forward, Calls
  PROVE  Forward'
<1>1. /\ Stamped /\ Timed /\ EpochInv /\ fault = NoFault /\ BeatHeard(self, now)
      /\ Punctually
  BY CallsEpoch DEF OnTime, Forward, Timed
<1>2. clock \in 0..MaxClock /\ MaxClock \in Nat /\ 0..MaxClock \subseteq Times
  BY <1>1, ReceiverAssumption DEF Stamped
<1>3. PICK t \in Nat :
        /\ t <= clock
        /\ \/ Processes /\ t = owner.hand.at
           \/ Expires /\ t = Deadline
  BY <1>1, CallsEpoch
<1>4. t \in Times
  <2>1. t \in 0..MaxClock  BY <1>2, <1>3
  <2> QED  BY <1>2, <2>1
<1>5. CASE Processes /\ t = owner.hand.at
  <2> DEFINE p == owner.hand
  <2>1. Received(p, clock) /\ Ingest(p) /\ now <= t /\ p.at = t
    BY <1>1, <1>5 DEF Processes, Stamped, Punctually
  <2> HIDE DEF p
  <2>2. t >= now  BY <1>1, <1>3, <2>1 DEF EpochInv
  <2>3. \E w, observations : Call(w, t, observations)
    <3>1. CASE p.route = "monitor"
      <4>1. p.env \in MonitorEnvelopes /\ IngestMonitor(p.env, t)
        BY <2>1, <3>1 DEF Ingest, Received, Envelopes
      <4> QED  BY <1>1, <1>4, <4>1, ActionsCall
    <3>2. CASE p.route # "monitor"
      <4>1. p.env \in ObservationEnvelopes /\ IngestObservation(p.env, t)
        BY <2>1, <3>2 DEF Ingest, Received, Envelopes
      <4> QED  BY <1>1, <1>4, <4>1, ActionsCall
    <3> QED  BY <3>1, <3>2
  <2> QED  BY <1>1, <2>2, <2>3, CallForward
<1>6. CASE Expires /\ t = Deadline
  <2>1. AdvanceTime(t)  BY <1>6 DEF Expires
  <2>2. t >= now
    <3>1. now < t /\ now \in Nat  BY <1>1, <1>6, DeadlineAhead DEF Deadline, EpochInv
    <3> QED  BY <1>3, <3>1
  <2>3. \E w : Call(w, t, {})  BY <1>1, <1>4, <2>1, ActionsCall
  <2> QED  BY <1>1, <2>2, <2>3, CallForward
<1> QED  BY <1>3, <1>5, <1>6

LEMMA NoCallForward ==
  ASSUME Forward, UNCHANGED epoch
  PROVE  Forward'
<1>1. self' = self /\ now' = now /\ fault' = fault  BY DEF epoch
<1> QED  BY <1>1 DEF Forward, BeatHeard, NoFault

(* Only a step of recv calls the assembler.                                 *)
LEMMA NextCalls ==
  ASSUME Inv, Books, [Next]_vars
  PROVE  Calls \/ UNCHANGED epoch
<1>1. CASE AssemblingStep  BY <1>1, AssemblingIs DEF Takes, NoCall
<1>2. CASE TakePriority \/ WakeForIngress  BY <1>2, OwnerTakes DEF Still, Takes, NoCall
<1>3. CASE \/ OpeningStep \/ AbandonOpening \/ ClosingStep
           \/ StartRecv \/ CancelRecv \/ StartClose \/ DropReceiver
           \/ LookForFault \/ LookAtClock \/ TakePendingEvent \/ ArmSelect
           \/ WakeForFault \/ WakeForDeadline \/ StageEvents
  BY <1>3, OwnerIsStill DEF Still, NoCall
<1>4. CASE \E c \in Callbacks :
             CallbackStep(c) \/ \E sample \in Samples : EnterCallback(c, sample)
  BY <1>4, CallbackDelivers DEF Delivers, NoCall
<1>5. CASE Tick \/ UNCHANGED vars  BY <1>5 DEF Tick, vars
<1> QED  BY <1>1, <1>2, <1>3, <1>4, <1>5 DEF Next, ReceivingStep

LEMMA InitForward == Init => Forward
<1> SUFFICES ASSUME Init PROVE Forward  OBVIOUS
<1>1. fault = NoFault /\ now = StartedAt /\ self.lastBeat = None  BY DEF Init, New
<1>2. StartedAt - StartedAt < Limits.initialHeartbeatDeadline
  BY LimitsAssumption DEF StartedAt
<1> QED  BY <1>1, <1>2 DEF Forward, BeatHeard

(* The assembler never sees time go back, under a configuration whose       *)
(* reorder deadline is no longer than its heartbeat deadline: payloads come *)
(* in the order of their receipt times, a deadline expires only after what  *)
(* was received before it, and no deadline lies before a receipt already    *)
(* processed, not even that of a heartbeat that waited behind a gap         *)
(* (begin_call, process_heartbeat, next_deadline_at).                       *)
THEOREM TimeAlwaysOrdered ==
  ASSUME Limits.reorderDeadline <= Limits.heartbeatDeadline
  PROVE  Spec => []AssemblerTimeOrdered
<1>1. Prompt  BY DEF Prompt
<1>2. Init => Inv /\ Books /\ OnTime /\ Forward
  BY InitInv, InitBooks, InitOnTime, InitForward
<1>3. Inv /\ Books /\ OnTime /\ Forward /\ [Next]_vars => (Inv /\ Books /\ OnTime /\ Forward)'
  <2> SUFFICES ASSUME Inv, Books, OnTime, Forward, [Next]_vars
               PROVE  (Inv /\ Books /\ OnTime)' /\ Forward'
    OBVIOUS
  <2>1. (Inv /\ Books /\ OnTime)'  BY NextInv, NextBooks, NextOnTime
  <2>2. Forward'  BY <1>1, NextCalls, CallsForward, NoCallForward
  <2> QED  BY <2>1, <2>2
<1>4. Forward => AssemblerTimeOrdered  BY DEF Forward, AssemblerTimeOrdered
<1> QED  BY <1>2, <1>3, <1>4, PTL DEF Spec

-----------------------------------------------------------------------------
(* The accounts of the events.                                              *)

(* What a call of the assembler returns is a sequence.                      *)
LEMMA ToldIs == EpochInv /\ Sized(told) /\ [EpochNext]_epoch => Sized(told')
<1> SUFFICES ASSUME EpochInv, Sized(told), [EpochNext]_epoch PROVE Sized(told')  OBVIOUS
<1>1. ASSUME NEW w, NEW t, NEW observations, Call(w, t, observations) PROVE Sized(told')
  <2>1. told' = Returned(w) /\ IsSeq(w.told) /\ (w.error = None => IsSeq(w.ready))
    BY <1>1 DEF Call, Finish, Steady, Running, Sequenced, Calm
  <2>2. PICK U : w.told \in Seq(U)  BY <2>1 DEF IsSeq
  <2>3. CASE w.error # None
    <3>1. w.told \in Seq(U \cup {TheFault})  BY <2>2
    <3>2. Append(w.told, TheFault) \in Seq(U \cup {TheFault})  BY <3>1
    <3> QED  BY <2>1, <2>3, <3>2 DEF Returned, Sized
  <2>4. CASE w.error = None
    <3>1. PICK T : w.ready \in Seq(T)  BY <2>1, <2>4 DEF IsSeq
    <3> DEFINE s == w.ready
               F == {[kind |-> "FrameReady", frame |-> x] : x \in T}
               r == [i \in DOMAIN s |-> [kind |-> "FrameReady", frame |-> s[i]]]
    <3>2. DOMAIN s = 1..Len(s) /\ Len(s) \in Nat /\ \A i \in 1..Len(s) : s[i] \in T  BY <3>1
    <3>3. r = [i \in 1..Len(s) |-> [kind |-> "FrameReady", frame |-> s[i]]]  BY <3>2
    <3>4. \A i \in 1..Len(s) : [kind |-> "FrameReady", frame |-> s[i]] \in F  BY <3>2
    <3>5. [i \in 1..Len(s) |-> [kind |-> "FrameReady", frame |-> s[i]]] \in Seq(F)
      BY <3>2, <3>4
    <3>6. r \in Seq(F)  BY <3>3, <3>5
    <3>7. Returned(w) = w.told \o r  BY <2>4 DEF Returned, Ready
    <3> HIDE DEF F, r
    <3>8. w.told \in Seq(U \cup F) /\ r \in Seq(U \cup F)  BY <2>2, <3>6
    <3>9. w.told \o r \in Seq(U \cup F)  BY <3>8
    <3> QED  BY <2>1, <3>7, <3>9 DEF Sized
  <2> QED  BY <2>3, <2>4
<1>2. CASE told' \in {<<>>, told}  BY <1>2, SizedIs
<1> QED  BY <1>1, <1>2, StepIsCall

LEMMA ConcatSized ==
  ASSUME NEW s, NEW r, Sized(s), Sized(r)
  PROVE  Sized(s \o r) /\ Len(s \o r) = Len(s) + Len(r)
<1>1. PICK T : s \in Seq(T)  BY DEF Sized
<1>2. PICK U : r \in Seq(U)  BY DEF Sized
<1>3. s \in Seq(T \cup U) /\ r \in Seq(T \cup U)  BY <1>1, <1>2
<1>4. s \o r \in Seq(T \cup U) /\ Len(s \o r) = Len(s) + Len(r)  BY <1>3
<1> QED  BY <1>4 DEF Sized

(* Events between a call of the assembler and stage_assembly_events, and    *)
(* the one that became the receiver's own fault.                            *)
Staged == IF owner.pc = "staging" THEN Len(told) ELSE 0
Own    == IF shared.fault = "Assembly" THEN 1 ELSE 0

EventBooks ==
  /\ aux.returned \in Int /\ health.delivered \in Int /\ health.discarded \in Int
  /\ Sized(owner.pending) /\ Sized(told)
  /\ EventsAccounted

LEMMA EventsAre ==
  ASSUME EventBooks
  PROVE  /\ aux.returned = health.delivered + health.discarded + Len(owner.pending) + Staged + Own
         /\ Staged \in Int /\ Own \in Int /\ Len(owner.pending) \in Int /\ Len(told) \in Int
  BY SizedIs DEF EventBooks, EventsAccounted, Staged, Own

(* The fault of the receiver becomes the assembler's only where the events  *)
(* of the failed call are staged.                                           *)
LEMMA OwnStays ==
  ASSUME FirstStays(shared'), owner.pc = "staging" => owner'.pc # "loop"
  PROVE  Own' = Own
<1>1. None # "Assembly"  BY FaultsAreNamed DEF ReceiverFaults
<1> QED  BY <1>1 DEF Own, FirstStays, FailedCall

(* A step that moves no event.                                              *)
Quiescent ==
  /\ aux'.returned = aux.returned /\ health'.delivered = health.delivered
  /\ health'.discarded = health.discarded /\ owner'.pending = owner.pending /\ told' = told
  /\ owner'.pc = "staging" <=> owner.pc = "staging"

LEMMA QuiescentKeeps ==
  ASSUME EventBooks, Quiescent, FirstStays(shared')
  PROVE  EventBooks'
<1>1. Own' = Own  BY OwnStays DEF Quiescent
<1> QED  BY <1>1 DEF EventBooks, EventsAccounted, Quiescent, Own

(* Staged events that are discarded.                                        *)
Discards ==
  /\ aux'.returned = aux.returned /\ health'.delivered = health.delivered
  /\ health'.discarded = health.discarded + Len(owner.pending)
  /\ owner'.pending = <<>> /\ told' = told
  /\ owner'.pc # "staging" /\ owner.pc # "staging"

LEMMA DiscardsKeeps ==
  ASSUME EventBooks, Discards, FirstStays(shared')
  PROVE  EventBooks'
<1>1. Own' = Own /\ Staged' = Staged  BY OwnStays DEF Discards, Staged
<1>2. Len(owner'.pending) = 0 /\ Sized(owner'.pending)  BY SizedIs DEF Discards
<1>3. /\ aux'.returned \in Int /\ health'.delivered \in Int /\ health'.discarded \in Int
      /\ Sized(told')
  BY EventsAre DEF EventBooks, Discards
<1>4. aux'.returned = health'.delivered + health'.discarded + Len(owner'.pending) + Staged' + Own'
  <2>1. /\ health.delivered \in Int /\ health.discarded \in Int
        /\ aux'.returned = aux.returned /\ health'.delivered = health.delivered
        /\ health'.discarded = health.discarded + Len(owner.pending)
    BY DEF EventBooks, Discards
  <2> QED  BY ONLY <1>1, <1>2, <2>1, EventsAre, EventBooks
<1> QED  BY <1>2, <1>3, <1>4 DEF EventBooks, EventsAccounted, Staged, Own

LEMMA CallbackQuiescent ==
  ASSUME Inv, Books, NEW c \in Callbacks,
         CallbackStep(c) \/ \E sample \in Samples : EnterCallback(c, sample)
  PROVE  Quiescent
<1>0. HasFields(health, HealthFields) /\ HasFields(aux, AuxFields)  BY DEF Books
<1>1. owner' = owner /\ told' = told
  BY DEF CallbackStep, AcceptPayload, EnqueuePayload, PanicInCallback, LeaveCallback, CountDown,
     NotifyStartup, EnterCallback, epoch
<1>2. aux'.returned = aux.returned
  BY <1>0 DEF CallbackStep, AcceptPayload, EnqueuePayload, PanicInCallback, LeaveCallback,
     CountDown, NotifyStartup, EnterCallback, HasFields, AuxFields
<1>3. health'.delivered = health.delivered /\ health'.discarded = health.discarded
  BY <1>0 DEF CallbackStep, AcceptPayload, EnqueuePayload, PanicInCallback, LeaveCallback,
     CountDown, NotifyStartup, EnterCallback, HasFields, HealthFields
<1> QED  BY <1>1, <1>2, <1>3 DEF Quiescent

LEMMA DiscardedDiscards ==
  ASSUME Inv, Books, Seal \/ FinishDrop
  PROVE  Discards
<1>0. /\ HasFields(health, HealthFields) /\ HasFields(aux, AuxFields)
      /\ HasFields(owner, OwnerFields)
  BY DEF Books, Inv, Shapes
<1>1. owner.pc # "staging" /\ \E next \in {"undeclareObservation", "gone"} : Discarded(next)
  BY DEF Seal, FinishDrop
<1>2. PICK next \in {"undeclareObservation", "gone"} : Discarded(next)  BY <1>1
<1>3. owner'.pc = next /\ owner'.pending = <<>>
  BY <1>0, <1>2 DEF Discarded, HasFields, OwnerFields
<1>4. /\ health'.delivered = health.delivered
      /\ health'.discarded = health.discarded + Len(owner.pending)
  BY <1>0, <1>2 DEF Discarded, HasFields, HealthFields
<1>5. aux'.returned = aux.returned  BY <1>0, <1>2 DEF Discarded, HasFields, AuxFields
<1>6. told' = told  BY <1>2 DEF Discarded, epoch
<1> QED  BY <1>1, <1>3, <1>4, <1>5, <1>6 DEF Discards

LEMMA OwnerQuiescent ==
  ASSUME Inv, Books,
         \/ OpeningStep \/ AbandonOpening \/ UndeclareObservation \/ UndeclareMonitor \/ CloseBus
         \/ StartRecv \/ CancelRecv \/ StartClose \/ DropReceiver
         \/ LookAtClock \/ TakePriority \/ ArmSelect \/ WakeForFault \/ WakeForIngress
         \/ WakeForDeadline
  PROVE  Quiescent
<1>0. HasFields(owner, OwnerFields) /\ HasFields(aux, AuxFields)  BY DEF Inv, Shapes, Books
<1>1. CASE OpeningStep \/ AbandonOpening
  <2>1. told' = told /\ health' = health /\ aux' = aux /\ owner.pc # "staging"
    BY <1>1 DEF OpeningStep, SubscribeObservation, SubscribeMonitor, BeginActivation, Drain,
       DrainWake, Activate, AbandonOpening, epoch
  <2>2. owner'.pending = owner.pending /\ owner'.pc # "staging"
    BY <1>0, <1>1 DEF OpeningStep, SubscribeObservation, SubscribeMonitor, BeginActivation,
       Drain, DrainWake, Activate, AbandonOpening, OwnerAt, HasFields, OwnerFields
  <2> QED  BY <2>1, <2>2 DEF Quiescent
<1>2. CASE UndeclareObservation \/ UndeclareMonitor \/ CloseBus
  <2>1. told' = told /\ health' = health /\ aux' = aux /\ owner.pc # "staging"
    BY <1>2 DEF UndeclareObservation, UndeclareMonitor, CloseBus, epoch
  <2>2. owner'.pending = owner.pending /\ owner'.pc # "staging"
    BY <1>0, <1>2 DEF UndeclareObservation, UndeclareMonitor, CloseBus, OwnerAt, HasFields,
       OwnerFields
  <2> QED  BY <2>1, <2>2 DEF Quiescent
<1>3. CASE StartRecv \/ CancelRecv \/ StartClose \/ DropReceiver
  <2>1. told' = told /\ health' = health /\ owner.pc # "staging"
    BY <1>3 DEF StartRecv, CancelRecv, StartClose, DropReceiver, epoch
  <2>2. owner'.pending = owner.pending /\ owner'.pc # "staging"
    BY <1>0, <1>3 DEF StartRecv, CancelRecv, StartClose, DropReceiver, OwnerAt, HasFields,
       OwnerFields
  <2>3. aux'.returned = aux.returned
    BY <1>0, <1>3 DEF StartRecv, CancelRecv, StartClose, DropReceiver, HasFields, AuxFields
  <2> QED  BY <2>1, <2>2, <2>3 DEF Quiescent
<1>4. CASE \/ LookAtClock \/ TakePriority \/ ArmSelect \/ WakeForFault \/ WakeForIngress
           \/ WakeForDeadline
  <2>1. told' = told /\ health' = health /\ aux' = aux /\ owner.pc # "staging"
    BY <1>4 DEF LookAtClock, TakePriority, ArmSelect, WakeForFault, WakeForIngress,
       WakeForDeadline, epoch
  <2>2. owner'.pending = owner.pending /\ owner'.pc # "staging"
    BY <1>0, <1>4 DEF LookAtClock, TakePriority, ArmSelect, WakeForFault, WakeForIngress,
       WakeForDeadline, OwnerAt, HasFields, OwnerFields
  <2> QED  BY <2>1, <2>2 DEF Quiescent
<1> QED  BY <1>1, <1>2, <1>3, <1>4

LEMMA LookForFaultEvents ==
  ASSUME Inv, Books, LookForFault
  PROVE  Quiescent \/ Discards
<1>0. /\ HasFields(owner, OwnerFields) /\ HasFields(aux, AuxFields)
      /\ HasFields(health, HealthFields)
  BY DEF Inv, Shapes, Books
<1>1. told' = told /\ owner.pc = "loop"  BY DEF LookForFault, epoch
<1>2. CASE Locked.fault # None
  <2>1. owner'.pc = "ready" /\ owner'.pending = <<>>
    BY <1>0, <1>2 DEF LookForFault, HasFields, OwnerFields
  <2>2. /\ health'.delivered = health.delivered
        /\ health'.discarded = health.discarded + Len(owner.pending)
    BY <1>0, <1>2 DEF LookForFault, HasFields, HealthFields
  <2>3. aux'.returned = aux.returned  BY <1>0, <1>2 DEF LookForFault, HasFields, AuxFields
  <2> QED  BY <1>1, <2>1, <2>2, <2>3 DEF Discards
<1>3. CASE Locked.fault = None
  <2>1. owner'.pc # "staging" /\ owner'.pending = owner.pending
    BY <1>0, <1>3 DEF LookForFault, OwnerAt, HasFields, OwnerFields
  <2>2. health' = health /\ aux' = aux  BY <1>3 DEF LookForFault
  <2> QED  BY <1>1, <2>1, <2>2 DEF Quiescent
<1> QED  BY <1>2, <1>3

LEMMA TakePendingEvents ==
  ASSUME Inv, Books, EventBooks, TakePendingEvent, FirstStays(shared')
  PROVE  EventBooks'
<1>0. /\ HasFields(owner, OwnerFields) /\ HasFields(aux, AuxFields)
      /\ HasFields(health, HealthFields)
  BY DEF Inv, Shapes, Books
<1>1. told' = told /\ aux' = aux /\ owner.pc = "take"  BY DEF TakePendingEvent, epoch
<1>2. CASE /\ owner.pending # <<>> /\ owner' = [owner EXCEPT !.pc = "ready", !.pending = Tail(@)]
           /\ health' = [health EXCEPT !.delivered = @ + 1]
  <2>1. owner'.pc = "ready" /\ owner'.pending = Tail(owner.pending)
    BY <1>0, <1>2 DEF HasFields, OwnerFields
  <2>2. health'.delivered = health.delivered + 1 /\ health'.discarded = health.discarded
    BY <1>0, <1>2 DEF HasFields, HealthFields
  <2>3. Sized(owner'.pending) /\ Len(owner'.pending) = Len(owner.pending) - 1
    BY <1>2, <2>1, SizedIs DEF EventBooks
  <2>4. Own' = Own /\ Staged' = Staged  BY <1>1, <2>1, OwnStays DEF Staged
  <2>5. health.delivered \in Int /\ health.discarded \in Int /\ aux'.returned = aux.returned
    BY <1>1 DEF EventBooks
  <2>6. aux'.returned = health'.delivered + health'.discarded + Len(owner'.pending) + Staged' + Own'
    <3>1. /\ aux.returned
               = health.delivered + health.discarded + Len(owner.pending) + Staged + Own
          /\ Staged \in Int /\ Own \in Int /\ Len(owner.pending) \in Int
      BY EventsAre
    <3>2. Len(owner'.pending) = Len(owner.pending) - 1  BY <2>3
    <3> DEFINE d == health.delivered
               x == health.discarded
               p == Len(owner.pending)
    <3>3. d \in Int /\ x \in Int /\ p \in Int  BY <2>5, <3>1
    <3> HIDE DEF d, x, p
    <3>4. d + x + p + Staged + Own = (d + 1) + x + (p - 1) + Staged + Own
      BY ONLY <3>1, <3>3
    <3>5. health'.delivered + health'.discarded + Len(owner'.pending) + Staged' + Own'
            = (d + 1) + x + (p - 1) + Staged + Own
      BY <2>2, <2>4, <3>2 DEF d, x, p
    <3> QED  BY <2>5, <3>1, <3>4, <3>5 DEF d, x, p
  <2>7. health'.delivered \in Int /\ health'.discarded \in Int  BY <2>2, <2>5
  <2> QED  BY <1>1, <2>3, <2>6, <2>7 DEF EventBooks, EventsAccounted, Staged, Own
<1>3. CASE health' = health /\ (OwnerAt("ready") \/ OwnerAt("arming"))
  <2>1. owner'.pc # "staging" /\ owner'.pending = owner.pending
    BY <1>0, <1>3 DEF OwnerAt, HasFields, OwnerFields
  <2>2. Quiescent  BY <1>1, <1>3, <2>1 DEF Quiescent
  <2> QED  BY <2>2, QuiescentKeeps
<1> QED  BY <1>2, <1>3 DEF TakePendingEvent

(* stage_assembly_events: the events of a call are staged, or discarded with*)
(* what was staged before, except the fault that becomes the receiver's.    *)
LEMMA StageEventsKeeps ==
  ASSUME Inv, Books, EventBooks, StageEvents, FirstStays(shared')
  PROVE  EventBooks'
<1>0. /\ HasFields(owner, OwnerFields) /\ HasFields(aux, AuxFields)
      /\ HasFields(health, HealthFields) /\ HasFields(Locked, SharedFields)
  BY QueueIs DEF Inv, Shapes, Books
<1>1. told' = told /\ aux' = aux /\ owner.pc = "staging" /\ Staged = Len(told)
  BY DEF StageEvents, epoch, Staged
<1>2. /\ aux.returned = health.delivered + health.discarded + Len(owner.pending) + Len(told) + Own
      /\ Own \in Int /\ Len(owner.pending) \in Int /\ Len(told) \in Int
      /\ health.delivered \in Int /\ health.discarded \in Int /\ aux'.returned = aux.returned
  BY <1>1, EventsAre DEF EventBooks
<1>3. owner'.pc = "loop" /\ Staged' = 0
  BY <1>0 DEF StageEvents, OwnerAt, HasFields, OwnerFields, Staged
<1>4. Locked.fault = LockedFault /\ (Locked.fault = None => shared.fault = None)
  BY LockedIs DEF Inv, Ingress, LockedFault, FirstOf
<1>5. None # "Assembly" /\ "InternalStatePoisoned" # "Assembly"
  BY FaultsAreNamed DEF ReceiverFaults
<1>6. CASE Locked.fault # None
  <2>1. /\ shared' = Locked /\ OwnerAt("loop")
        /\ health' = [health EXCEPT !.discarded = @ + Len(told)]
    BY <1>6 DEF StageEvents
  <2>2. owner'.pending = owner.pending  BY <1>0, <2>1 DEF OwnerAt, HasFields, OwnerFields
  <2>3. health'.delivered = health.delivered /\ health'.discarded = health.discarded + Len(told)
    BY <1>0, <2>1 DEF HasFields, HealthFields
  <2>4. Own' = Own  BY <1>4, <1>5, <1>6, <2>1 DEF Own, LockedFault, FirstOf
  <2>5. aux'.returned = health'.delivered + health'.discarded + Len(owner'.pending) + Staged' + Own'
    BY ONLY <1>2, <1>3, <2>2, <2>3, <2>4
  <2>6. health'.delivered \in Int /\ health'.discarded \in Int  BY <1>2, <2>3
  <2> QED  BY <1>1, <2>2, <2>5, <2>6 DEF EventBooks, EventsAccounted, Staged, Own
<1>7. CASE Locked.fault = None /\ fault # NoFault
  <2>1. /\ shared' = Latched(Locked, "Assembly")
        /\ owner' = [owner EXCEPT !.pc = "loop", !.pending = <<>>]
        /\ health' = [health EXCEPT !.discarded = @ + Len(told) - 1 + Len(owner.pending)]
    BY <1>7 DEF StageEvents
  <2>2. Len(owner'.pending) = 0 /\ Sized(owner'.pending)
    BY <1>0, <2>1, SizedIs DEF HasFields, OwnerFields
  <2>3. /\ health'.delivered = health.delivered
        /\ health'.discarded = health.discarded + Len(told) - 1 + Len(owner.pending)
    BY <1>0, <2>1 DEF HasFields, HealthFields
  <2>4. Own = 0 /\ Own' = 1
    BY <1>0, <1>4, <1>5, <1>7, <2>1 DEF Own, Latched, HasFields, SharedFields
  <2>5. aux'.returned = health'.delivered + health'.discarded + Len(owner'.pending) + Staged' + Own'
    <3>1. Len(owner'.pending) = 0  BY <2>2
    <3>2. \A d, x, p, t \in Int : d + x + p + t + 0 = d + (x + t - 1 + p) + 0 + 0 + 1
      OBVIOUS
    <3>3. health.delivered + health.discarded + Len(owner.pending) + Len(told) + 0
            = health.delivered + (health.discarded + Len(told) - 1 + Len(owner.pending)) + 0 + 0 + 1
      BY <1>2, <3>2
    <3> QED  BY ONLY <1>2, <1>3, <2>3, <2>4, <3>1, <3>3
  <2>6. health'.delivered \in Int /\ health'.discarded \in Int
    BY ONLY <1>2, <2>3
  <2> QED  BY <1>1, <2>2, <2>5, <2>6 DEF EventBooks, EventsAccounted, Staged, Own
<1>8. CASE Locked.fault = None /\ fault = NoFault
  <2>1. /\ shared' = Locked /\ health' = health
        /\ owner' = [owner EXCEPT !.pc = "loop", !.pending = @ \o told]
    BY <1>8 DEF StageEvents
  <2>2. owner'.pending = owner.pending \o told  BY <1>0, <2>1 DEF HasFields, OwnerFields
  <2>3. Sized(owner'.pending) /\ Len(owner'.pending) = Len(owner.pending) + Len(told)
    BY <2>2, ConcatSized DEF EventBooks
  <2>4. Own' = Own  BY <1>4, <1>5, <1>8, <2>1 DEF Own
  <2>5. health'.delivered = health.delivered /\ health'.discarded = health.discarded  BY <2>1
  <2>6. aux'.returned = health'.delivered + health'.discarded + Len(owner'.pending) + Staged' + Own'
    BY ONLY <1>2, <1>3, <2>3, <2>4, <2>5
  <2>7. health'.delivered \in Int /\ health'.discarded \in Int  BY <1>2, <2>5
  <2> QED  BY <1>1, <2>3, <2>6, <2>7 DEF EventBooks, EventsAccounted, Staged, Own
<1> QED  BY <1>6, <1>7, <1>8

(* The call of the assembler: what it returns is counted and waits to be    *)
(* staged.                                                                  *)
LEMMA AssemblingEvents ==
  ASSUME Inv, Books, EventBooks, AssemblingStep, FirstStays(shared'), Sized(told')
  PROVE  EventBooks'
<1>0. /\ HasFields(owner, OwnerFields) /\ HasFields(aux, AuxFields)
      /\ HasFields(health, HealthFields)
  BY DEF Inv, Shapes, Books
<1>1. owner.pc \in {"due", "hand"} /\ Staged = 0
  BY DEF AssemblingStep, ReachDeadline, ProcessOrExpire, Staged
<1>2. health'.delivered = health.delivered /\ health'.discarded = health.discarded
  BY <1>0 DEF AssemblingStep, ReachDeadline, ProcessOrExpire, HasFields, HealthFields
<1>3. \/ owner' = [owner EXCEPT !.pc = "hand", !.hand = Head(shared.queue),
                               !.budget = IF @ > 0 THEN @ - 1 ELSE 0] /\ UNCHANGED <<epoch, aux>>
      \/ /\ owner' = [owner EXCEPT !.pc = "staging", !.hand = None]
         /\ \/ aux' = [aux EXCEPT !.returned = ReturnedInAll]
            \/ \E extra : aux' = [aux EXCEPT !.returned = ReturnedInAll, !.lost = @ \cup extra]
  BY DEF AssemblingStep, ReachDeadline, ProcessOrExpire, Expire
<1>4. CASE /\ owner' = [owner EXCEPT !.pc = "hand", !.hand = Head(shared.queue),
                                     !.budget = IF @ > 0 THEN @ - 1 ELSE 0]
           /\ UNCHANGED <<epoch, aux>>
  <2>1. owner'.pc = "hand" /\ owner'.pending = owner.pending
    BY <1>0, <1>4 DEF HasFields, OwnerFields
  <2>2. Quiescent  BY <1>1, <1>2, <1>4, <2>1 DEF Quiescent, epoch
  <2> QED  BY <2>2, QuiescentKeeps
<1>5. CASE /\ owner' = [owner EXCEPT !.pc = "staging", !.hand = None]
           /\ \/ aux' = [aux EXCEPT !.returned = ReturnedInAll]
              \/ \E extra : aux' = [aux EXCEPT !.returned = ReturnedInAll, !.lost = @ \cup extra]
  <2>1. owner'.pc = "staging" /\ owner'.pending = owner.pending
    BY <1>0, <1>5 DEF HasFields, OwnerFields
  <2>2. aux'.returned = aux.returned + Len(told')
    BY <1>0, <1>5 DEF HasFields, AuxFields, ReturnedInAll
  <2>3. Staged' = Len(told') /\ Len(told') \in Int  BY <2>1, SizedIs DEF Staged
  <2>4. Own' = Own  BY <1>1, OwnStays
  <2>5. /\ aux.returned = health.delivered + health.discarded + Len(owner.pending) + 0 + Own
        /\ Own \in Int /\ Len(owner.pending) \in Int
        /\ health.delivered \in Int /\ health.discarded \in Int /\ aux.returned \in Int
    BY <1>1, EventsAre DEF EventBooks
  <2>6. aux'.returned = health'.delivered + health'.discarded + Len(owner'.pending) + Staged' + Own'
    BY ONLY <1>2, <2>1, <2>2, <2>3, <2>4, <2>5
  <2>7. aux'.returned \in Int  BY ONLY <2>2, <2>3, <2>5
  <2>8. Sized(owner'.pending) /\ health'.delivered \in Int /\ health'.discarded \in Int
    BY <1>2, <2>1 DEF EventBooks
  <2> QED  BY <2>6, <2>7, <2>8 DEF EventBooks, EventsAccounted, Staged, Own
<1> QED  BY <1>3, <1>4, <1>5

LEMMA InitEvents == Init => EventBooks
<1> SUFFICES ASSUME Init PROVE EventBooks  OBVIOUS
<1>1. /\ aux.returned = 0 /\ health.delivered = 0 /\ health.discarded = 0
      /\ owner.pending = <<>> /\ owner.pc = "subscribeObservation" /\ shared.fault = None
      /\ told = <<>>
  BY DEF Init, New
<1>2. None # "Assembly"  BY FaultsAreNamed DEF ReceiverFaults
<1> QED  BY <1>1, <1>2, SizedIs DEF EventBooks, EventsAccounted

LEMMA NextEvents == Inv /\ Books /\ OnTime /\ EventBooks /\ [Next]_vars => EventBooks'
<1> SUFFICES ASSUME Inv, Books, OnTime, EventBooks, [Next]_vars PROVE EventBooks'
  OBVIOUS
<1>1. CASE \E c \in Callbacks :
             CallbackStep(c) \/ \E sample \in Samples : EnterCallback(c, sample)
  BY <1>1, CallbackQuiescent, CallbackStays, QuiescentKeeps
<1>2. CASE \/ OpeningStep \/ AbandonOpening \/ ReceivingStep \/ AssemblingStep \/ ClosingStep
           \/ StartRecv \/ CancelRecv \/ StartClose \/ DropReceiver
  <2>1. FirstStays(shared')  BY <1>2, OwnerStays
  <2>2. Sized(told')
    <3>1. [EpochNext]_epoch  BY NextOnTime
    <3> QED  BY <3>1, ToldIs DEF OnTime, EventBooks
  <2>3. CASE Quiescent \/ Discards  BY <2>1, <2>3, QuiescentKeeps, DiscardsKeeps
  <2>4. CASE AssemblingStep  BY <2>1, <2>2, <2>4, AssemblingEvents
  <2>5. CASE StageEvents \/ TakePendingEvent  BY <2>1, <2>5, StageEventsKeeps, TakePendingEvents
  <2>6. CASE LookForFault  BY <2>3, <2>6, LookForFaultEvents
  <2>7. CASE Seal \/ FinishDrop  BY <2>3, <2>7, DiscardedDiscards
  <2>8. CASE \/ OpeningStep \/ AbandonOpening
             \/ UndeclareObservation \/ UndeclareMonitor \/ CloseBus
             \/ StartRecv \/ CancelRecv \/ StartClose \/ DropReceiver
             \/ LookAtClock \/ TakePriority \/ ArmSelect \/ WakeForFault \/ WakeForIngress
             \/ WakeForDeadline
    BY <2>3, <2>8, OwnerQuiescent
  <2> QED  BY <1>2, <2>4, <2>5, <2>6, <2>7, <2>8 DEF ReceivingStep, ClosingStep
<1>3. CASE Tick \/ UNCHANGED vars
  <2>1. UNCHANGED <<aux, health, owner, shared>> /\ told' = told
    BY <1>3 DEF Tick, vars, epoch
  <2> QED  BY <2>1 DEF EventBooks, EventsAccounted
<1> QED  BY <1>1, <1>2, <1>3 DEF Next

(* No payload and no event is lost or counted twice, whatever is cancelled, *)
(* refused, torn down or lost to a panic: what callbacks took and what the  *)
(* assembler returned is at every instant in exactly one place of the       *)
(* books (accept_payload, stage_assembly_events, take_pending_event, recv,  *)
(* close and drop).                                                         *)
THEOREM EverythingAlwaysAccounted == Spec => []EverythingAccounted
<1>1. Init => Inv /\ Books /\ OnTime /\ EventBooks
  BY InitInv, InitBooks, InitOnTime, InitEvents
<1>2. Inv /\ Books /\ OnTime /\ EventBooks /\ [Next]_vars =>
        (Inv /\ Books /\ OnTime /\ EventBooks)'
  BY NextInv, NextBooks, NextOnTime, NextEvents
<1>3. Books /\ EventBooks => EverythingAccounted
  BY DEF Books, EventBooks, EverythingAccounted
<1> QED  BY <1>1, <1>2, <1>3, PTL DEF Spec
=============================================================================
