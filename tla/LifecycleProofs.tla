--------------------------- MODULE LifecycleProofs ---------------------------
(***************************************************************************)
(* Theorems about Lifecycle, for every value of its constants.             *)
(*                                                                         *)
(* Every call ends in Accept, in Terminate or in a silent latch, and each  *)
(* of those takes the lanes the handler has prepared.  So the proofs go in *)
(* two layers: what each handler prepares is sound (lemmas on one lane),   *)
(* and every ending keeps the invariant if it is handed sound lanes.       *)
(***************************************************************************)
EXTENDS Lifecycle, SequenceTheorems, FiniteSetTheorems, TLAPS

Lanes == [Keys -> Lane \cup {NoLane}]

-----------------------------------------------------------------------------
(* One lane.                                                                *)

LEMMA NoTracksType == NoTracks \in [Tracks -> Seq(Sample)]
  BY DEF NoTracks

LEMMA NewLaneType ==
  ASSUME NEW q \in Position
  PROVE  NewLane(q) \in Lane
  BY NoTracksType DEF NewLane, Lane, Position

LEMMA RolledOverLaneType ==
  ASSUME NEW lane \in Lane, NEW q \in Position
  PROVE  RolledOverLane(lane, q) \in Lane
  BY NoTracksType DEF RolledOverLane, Lane, Position

LEMMA SlideType ==
  ASSUME NEW S, NEW w \in Seq(S), NEW s \in S
  PROVE  Slide(w, s) \in Seq(S)
<1>1. CASE Len(w) >= HistoryFrames
  <2>1. w # <<>>  BY <1>1, BoundsAssumption
  <2>2. Tail(w) \in Seq(S)  BY <2>1
  <2> QED  BY <1>1, <2>2 DEF Slide
<1>2. CASE ~(Len(w) >= HistoryFrames)
  BY <1>2 DEF Slide
<1> QED  BY <1>1, <1>2

LEMMA FrameType ==
  ASSUME NEW f \in Frames
  PROVE  /\ f.producer \in Producers /\ f.epoch \in Epochs
         /\ f.seq \in 0..MaxSequence /\ f.ts \in 0..MaxTimestamp
         /\ f.under \in Continuity
  BY DataAssumption DEF Frame

LEMMA AssessedLaneType ==
  ASSUME NEW lane \in Lane, NEW q \in Position, NEW f \in Frames
  PROVE  AssessedLane(lane, q, f) \in Lane
<1> DEFINE Mark == [sequence : 0..MaxSequence, digest : Frames]
           Sam == [at |-> q, under |-> f.under]
<1>1. Sam \in Sample  BY FrameType DEF Sample
<1>2. Windows(lane, q, f) \in [Tracks -> Seq(Sample)]
  <2>1. lane.tracks \in [Tracks -> Seq(Sample)]  BY DEF Lane
  <2>2. ASSUME NEW t \in Tracks PROVE Slide(lane.tracks[t], Sam) \in Seq(Sample)
    BY <1>1, <2>1, SlideType
  <2> QED  BY <2>2 DEF Windows
<1>3. Remember(lane.recent, q, f) \in Seq(Mark)
  <2>1. lane.recent \in Seq(Mark)  BY DEF Lane
  <2>2. [sequence |-> q.seq, digest |-> f] \in Mark  BY DEF Position
  <2>3. CASE Len(lane.recent) >= MaxRecent
    <3>1. Tail(lane.recent) \in Seq(Mark)  BY <2>1, <2>3, BoundsAssumption
    <3> QED  BY <2>2, <2>3, <3>1 DEF Remember
  <2>4. CASE ~(Len(lane.recent) >= MaxRecent)
    BY <2>1, <2>2, <2>4 DEF Remember
  <2> QED  BY <2>3, <2>4
<1> QED  BY <1>2, <1>3, FrameType DEF AssessedLane, Lane

-----------------------------------------------------------------------------
(* The endings of a call.                                                   *)

LEMMA ClearedType ==
  ASSUME NEW next \in Lanes
  PROVE  Cleared(next) \in Lanes
  BY NoTracksType DEF Cleared, Lanes, Lane

LEMMA CommitType ==
  ASSUME TypeOK, NEW r \in Receipt, Commit(r)
  PROVE  /\ receipts' \in Seq(Receipt)
         /\ anchor' \in 0..(MaxReceiptIndex + 1)
         /\ lastDigest' \in 0..(MaxReceiptIndex + 1)
         /\ nextIndex' \in 0..(MaxReceiptIndex + 1)
         /\ evicted' \in Nat
<1>1. nextIndex' \in 0..(MaxReceiptIndex + 1)
  BY BoundsAssumption DEF TypeOK, Commit, Exhausted
<1>2. lastDigest' \in 0..(MaxReceiptIndex + 1)
  BY DEF Commit, Receipt
<1>3. CASE Len(receipts) >= MaxReceipts
  <2>1. /\ receipts \in Seq(Receipt) /\ receipts # <<>>
    BY <1>3, BoundsAssumption DEF TypeOK
  <2>2. Tail(receipts) \in Seq(Receipt) /\ Head(receipts) \in Receipt
    BY <2>1
  <2>3. Head(receipts).digest \in 0..(MaxReceiptIndex + 1)
    BY <2>2 DEF Receipt
  <2>4. /\ receipts' = Append(Tail(receipts), r)
        /\ anchor' = Head(receipts).digest
        /\ evicted' = evicted + 1
    BY <1>3 DEF Commit
  <2>5. evicted' \in Nat
    BY <2>4 DEF TypeOK
  <2>6. receipts' \in Seq(Receipt)
    BY <2>2, <2>4
  <2> QED  BY <1>1, <1>2, <2>3, <2>4, <2>5, <2>6
<1>4. CASE ~(Len(receipts) >= MaxReceipts)
  BY <1>1, <1>2, <1>4, SMTT(30) DEF Commit, TypeOK
<1> QED  BY <1>3, <1>4

LEMMA NoteType ==
  ASSUME TypeOK, NEW next \in Lanes, NEW ev \in Frames \cup {NoFrame}, Note(next, ev)
  PROVE  admitted' \in [Keys -> SUBSET [epoch : Epochs, seq : 0..MaxSequence,
                                        evidence : Frames \cup {NoFrame}]]
<1> DEFINE Coordinate == [epoch : Epochs, seq : 0..MaxSequence,
                          evidence : Frames \cup {NoFrame}]
<1>1. ASSUME NEW k \in Keys, next[k] # NoLane
      PROVE  [epoch |-> next[k].position.epoch, seq |-> next[k].position.seq,
              evidence |-> ev] \in Coordinate
  <2>1. next[k].position \in Position
    BY <1>1 DEF Lanes, Lane
  <2> QED  BY <2>1 DEF Position
<1>2. admitted \in [Keys -> SUBSET Coordinate]
  BY DEF TypeOK
<1> QED  BY <1>1, <1>2 DEF Note

LEMMA ReceiptType ==
  ASSUME TypeOK, ~Exhausted, NEW m \in Producers, NEW q \in Position,
         NEW t \in Transition, NEW f \in Frames \cup {NoFrame}, NEW b \in BOOLEAN
  PROVE  ReceiptFor(m, q, t, f, b) \in Receipt
<1>1. nextIndex \in 0..MaxReceiptIndex
  BY BoundsAssumption DEF TypeOK, Exhausted
<1>2. DigestOf(nextIndex) \in 0..(MaxReceiptIndex + 1)
  BY <1>1, BoundsAssumption DEF DigestOf
<1>3. lastDigest \in 0..(MaxReceiptIndex + 1)
  BY DEF TypeOK
<1> QED  BY <1>1, <1>2, <1>3 DEF ReceiptFor, Receipt

Errors == {"frame_error", "error"}
Reasons == Faults \cup Rejections

LEMMA AcceptType ==
  ASSUME TypeOK, NEW error \in Errors, NEW next \in Lanes, NEW m \in Producers,
         NEW q \in Position, NEW t \in Transition, NEW f \in Frames \cup {NoFrame},
         NEW a, Accept(error, next, m, q, t, f, a)
  PROVE  TypeOK'
<1>1. admitted' \in [Keys -> SUBSET [epoch : Epochs, seq : 0..MaxSequence,
                                     evidence : Frames \cup {NoFrame}]]
  BY NoteType DEF Accept
<1>2. CASE /\ Commit(ReceiptFor(m, q, t, f, f # NoFrame))
           /\ lanes' = next
           /\ outcome' = [answer |-> IF f = NoFrame THEN "receipted" ELSE "assessed",
                           assessments |-> a]
           /\ UNCHANGED fault
  <2>1. ReceiptFor(m, q, t, f, f # NoFrame) \in Receipt
    BY <1>2, ReceiptType DEF Commit
  <2>2. outcome'.answer \in Answers
    BY <1>2 DEF Answers
  <2>3. /\ receipts' \in Seq(Receipt)
        /\ anchor' \in 0..(MaxReceiptIndex + 1)
        /\ lastDigest' \in 0..(MaxReceiptIndex + 1)
        /\ nextIndex' \in 0..(MaxReceiptIndex + 1)
        /\ evicted' \in Nat
    BY <1>2, <2>1, CommitType
  <2> QED  BY <1>1, <1>2, <2>2, <2>3 DEF TypeOK, Lanes
<1>3. CASE Exhausted /\ Latch(error, next, "ReceiptIndexExhausted") /\ UNCHANGED log
  <2>1. lanes' \in Lanes
    BY <1>3, ClearedType DEF Latch
  <2>2. fault' \in Faults /\ outcome'.answer \in Answers
    BY <1>3 DEF Latch, Faults, Answers, Errors
  <2> QED  BY <1>1, <1>3, <2>1, <2>2 DEF TypeOK, Lanes, log
<1> QED  BY <1>2, <1>3 DEF Accept

LEMMA TerminateType ==
  ASSUME TypeOK, NEW error \in Errors, NEW next \in Lanes, NEW m \in Producers,
         NEW q \in Position, NEW t \in Transition, NEW f \in Frames \cup {NoFrame},
         NEW r \in Reasons, Terminate(error, next, m, q, t, f, r)
  PROVE  TypeOK'
<1>1. admitted' \in [Keys -> SUBSET [epoch : Epochs, seq : 0..MaxSequence,
                                     evidence : Frames \cup {NoFrame}]]
  BY NoteType DEF Terminate
<1>2. ASSUME NEW s \in Reasons, Latch(error, next, s)
      PROVE  lanes' \in Lanes /\ fault' \in Reasons /\ outcome'.answer \in Answers
  BY <1>2, ClearedType DEF Latch, Answers, Errors
<1>3. CASE Commit(ReceiptFor(m, q, t, f, FALSE)) /\ Latch(error, next, r)
  <2>1. ReceiptFor(m, q, t, f, FALSE) \in Receipt
    BY <1>3, ReceiptType DEF Commit
  <2>2. /\ receipts' \in Seq(Receipt)
        /\ anchor' \in 0..(MaxReceiptIndex + 1)
        /\ lastDigest' \in 0..(MaxReceiptIndex + 1)
        /\ nextIndex' \in 0..(MaxReceiptIndex + 1)
        /\ evicted' \in Nat
    BY <1>3, <2>1, CommitType
  <2> QED  BY <1>1, <1>2, <1>3, <2>2 DEF TypeOK, Lanes, Reasons
<1>4. CASE Exhausted /\ Latch(error, next, "ReceiptIndexExhausted") /\ UNCHANGED log
  <2>1. "ReceiptIndexExhausted" \in Reasons
    BY DEF Reasons, Faults
  <2> QED  BY <1>1, <1>2, <1>4, <2>1 DEF TypeOK, Lanes, Reasons, log
<1> QED  BY <1>3, <1>4 DEF Terminate

LEMMA FailSilentlyType ==
  ASSUME TypeOK, NEW error \in Errors, NEW r \in Reasons, FailSilently(error, r)
  PROVE  TypeOK'
<1>1. lanes \in Lanes
  BY DEF TypeOK, Lanes
<1>2. lanes' \in Lanes /\ fault' \in Reasons /\ outcome'.answer \in Answers
  BY <1>1, ClearedType DEF FailSilently, Latch, Answers, Errors
<1> QED  BY <1>2 DEF FailSilently, TypeOK, Lanes, Reasons, log

-----------------------------------------------------------------------------
(* One window.                                                              *)

(* Sliding keeps every neighbouring pair of the window and adds the pair of *)
(* its old end and the new sample.                                          *)
Slid(w, v, s) ==
  /\ Len(v) <= HistoryFrames
  /\ v[Len(v)] = s
  /\ \A i \in 1..(Len(v) - 1) :
       \/ v[i] = w[Len(w)] /\ v[i + 1] = s
       \/ \E j \in 1..(Len(w) - 1) : v[i] = w[j] /\ v[i + 1] = w[j + 1]

LEMMA SlideShape ==
  ASSUME NEW S, NEW w \in Seq(S), NEW s \in S, w # <<>>, Len(w) <= HistoryFrames
  PROVE  Slid(w, Slide(w, s), s)
<1> DEFINE v == Slide(w, s)
<1>1. CASE Len(w) >= HistoryFrames
  <2>1. Len(w) \in Nat /\ Len(w) = HistoryFrames /\ Len(w) >= 1
    BY <1>1, BoundsAssumption
  <2>2. v = Append(Tail(w), s)
    BY <1>1 DEF Slide
  <2>3. /\ Tail(w) \in Seq(S) /\ Len(Tail(w)) = Len(w) - 1
        /\ \A i \in 1..(Len(w) - 1) : Tail(w)[i] = w[i + 1]
    BY <2>1
  <2>4. /\ v \in Seq(S) /\ Len(v) = Len(w) /\ v[Len(w)] = s
        /\ \A i \in 1..(Len(w) - 1) : v[i] = w[i + 1]
    BY <2>1, <2>2, <2>3
  <2>5. ASSUME NEW i \in 1..(Len(v) - 1)
        PROVE  \/ v[i] = w[Len(w)] /\ v[i + 1] = s
               \/ \E j \in 1..(Len(w) - 1) : v[i] = w[j] /\ v[i + 1] = w[j + 1]
    <3>1. CASE i = Len(w) - 1
      BY <2>1, <2>4, <3>1
    <3>2. CASE i # Len(w) - 1
      <4>1. i + 1 \in 1..(Len(w) - 1)
        BY <2>1, <2>4, <3>2
      <4>2. v[i] = w[i + 1] /\ v[i + 1] = w[(i + 1) + 1]
        BY <2>4, <4>1
      <4> QED  BY <4>1, <4>2
    <3> QED  BY <3>1, <3>2
  <2> QED  BY <2>1, <2>4, <2>5 DEF Slid
<1>2. CASE ~(Len(w) >= HistoryFrames)
  <2>1. Len(w) \in Nat /\ Len(w) >= 1 /\ Len(w) + 1 <= HistoryFrames
    BY <1>2, BoundsAssumption
  <2>2. v = Append(w, s)
    BY <1>2 DEF Slide
  <2>3. /\ v \in Seq(S) /\ Len(v) = Len(w) + 1 /\ v[Len(w) + 1] = s
        /\ \A i \in 1..Len(w) : v[i] = w[i]
    BY <2>1, <2>2
  <2>4. ASSUME NEW i \in 1..(Len(v) - 1)
        PROVE  \/ v[i] = w[Len(w)] /\ v[i + 1] = s
               \/ \E j \in 1..(Len(w) - 1) : v[i] = w[j] /\ v[i + 1] = w[j + 1]
    <3>1. CASE i = Len(w)
      BY <2>1, <2>3, <3>1
    <3>2. CASE i # Len(w)
      <4>1. i \in 1..(Len(w) - 1)
        BY <2>1, <2>3, <3>2
      <4>2. v[i] = w[i] /\ v[i + 1] = w[i + 1]
        BY <2>1, <2>3, <4>1
      <4> QED  BY <4>1, <4>2
    <3> QED  BY <3>1, <3>2
  <2> QED  BY <2>1, <2>3, <2>4 DEF Slid
<1> QED  BY <1>1, <1>2

LEMMA SlideEmpty ==
  ASSUME NEW s
  PROVE  Slide(<<>>, s) = <<s>>
  BY BoundsAssumption DEF Slide

(* A lane whose windows are empty, or end right before the frame, stays     *)
(* continuous when the frame is assessed.                                   *)
LEMMA AssessedLaneContinuous ==
  ASSUME NEW lane \in Lane, NEW q \in Position, NEW f \in Frames,
         LaneContinuous(lane),
         \/ lane.tracks = NoTracks
         \/ Contiguous([at |-> lane.position, under |-> lane.lastFrame],
                       [at |-> q, under |-> f.under])
  PROVE  LaneContinuous(AssessedLane(lane, q, f))
<1> DEFINE next == AssessedLane(lane, q, f)
           Sam == [at |-> q, under |-> f.under]
<1>1. /\ next.position = q /\ next.lastFrame = f.under
      /\ next.tracks = Windows(lane, q, f)
  BY DEF AssessedLane, Lane
<1>2. Sam \in Sample
  BY FrameType DEF Sample
<1>3. SUFFICES ASSUME NEW t \in Tracks, next.tracks[t] # <<>>
      PROVE  /\ Len(next.tracks[t]) <= HistoryFrames
             /\ next.tracks[t][Len(next.tracks[t])] = Sam
             /\ \A i \in 1..(Len(next.tracks[t]) - 1) :
                  Contiguous(next.tracks[t][i], next.tracks[t][i + 1])
  BY <1>1 DEF LaneContinuous
<1>4. next.tracks[t] = Slide(lane.tracks[t], Sam)
  BY <1>1, <1>3 DEF Windows
<1>5. lane.tracks[t] \in Seq(Sample)
  BY DEF Lane
<1>6. CASE lane.tracks[t] = <<>>
  <2>1. next.tracks[t] = <<Sam>>
    BY <1>4, <1>6, SlideEmpty
  <2>2. Len(<<Sam>>) = 1 /\ <<Sam>>[1] = Sam
    OBVIOUS
  <2> QED  BY <2>1, <2>2, BoundsAssumption
<1>7. CASE lane.tracks[t] # <<>>
  <2> DEFINE w == lane.tracks[t]
  <2>1. /\ Len(w) <= HistoryFrames
        /\ w[Len(w)] = [at |-> lane.position, under |-> lane.lastFrame]
        /\ \A i \in 1..(Len(w) - 1) : Contiguous(w[i], w[i + 1])
    BY <1>7 DEF LaneContinuous
  <2>2. lane.tracks # NoTracks
    BY <1>7 DEF NoTracks
  <2>3. Contiguous(w[Len(w)], Sam)
    BY <2>1, <2>2
  <2> DEFINE v == Slide(w, Sam)
  <2>4. Slid(w, v, Sam)
    BY <1>2, <1>5, <1>7, <2>1, SlideShape
  <2>5. ASSUME NEW i \in 1..(Len(v) - 1)
        PROVE  Contiguous(v[i], v[i + 1])
    <3>1. CASE v[i] = w[Len(w)] /\ v[i + 1] = Sam
      <4> HIDE DEF v, w, Sam
      <4> QED  BY <2>3, <3>1
    <3>2. ASSUME NEW j \in 1..(Len(w) - 1), v[i] = w[j], v[i + 1] = w[j + 1]
          PROVE  Contiguous(v[i], v[i + 1])
      <4>1. Contiguous(w[j], w[j + 1])
        BY <2>1
      <4> HIDE DEF v, w, Sam
      <4> QED  BY <3>2, <4>1
    <3> QED  BY <2>4, <3>1, <3>2 DEF Slid
  <2> QED  BY <1>4, <2>4, <2>5 DEF Slid
<1> QED  BY <1>6, <1>7

LEMMA EmptyContinuous ==
  ASSUME NEW lane, lane.tracks = NoTracks
  PROVE  LaneContinuous(lane)
  BY DEF LaneContinuous, NoTracks

-----------------------------------------------------------------------------
(* What admission lets through.                                             *)

LEMMA NoReasonsMeansSame ==
  ASSUME NEW lane \in Lane, NEW f \in Frames, lane.lastFrame # NoContext,
         ContinuityResetReasons(lane, f) = {}
  PROVE  f.under = lane.lastFrame /\ f.ts <= lane.position.ts + MaxGap
<1>1. f.under \in Continuity /\ lane.lastFrame \in Continuity
  BY FrameType DEF Lane
<1>2. f.ts \in Int /\ lane.position.ts \in Int /\ MaxGap \in Int
  BY FrameType, BoundsAssumption DEF Lane, Position
<1>3. ASSUME NEW r \in ResetReasons
      PROVE  ~ \/ r = "ProjectionFrameChanged" /\ lane.lastFrame.frame # f.under.frame
               \/ r = "ProjectionContextChanged" /\ lane.lastFrame.context # f.under.context
               \/ r = "ProjectionRegistryChanged" /\ lane.lastFrame.registry # f.under.registry
               \/ r = "ExpectedModalitiesChanged" /\ lane.lastFrame.modalities # f.under.modalities
               \/ r = "InterSampleDeadlineExceeded" /\ f.ts - lane.position.ts > MaxGap
  BY DEF ContinuityResetReasons
<1>4. /\ lane.lastFrame.frame = f.under.frame
      /\ lane.lastFrame.context = f.under.context
      /\ lane.lastFrame.registry = f.under.registry
      /\ lane.lastFrame.modalities = f.under.modalities
      /\ ~(f.ts - lane.position.ts > MaxGap)
  BY <1>3 DEF ResetReasons
<1> QED  BY <1>1, <1>2, <1>4 DEF Continuity

(* A continuous lane without continuity context retains nothing.            *)
LEMMA NoContextMeansNoTracks ==
  ASSUME NEW lane \in Lane, LaneContinuous(lane), lane.lastFrame = NoContext
  PROVE  lane.tracks = NoTracks
<1>1. ASSUME NEW t \in Tracks, lane.tracks[t] # <<>>
      PROVE  FALSE
  <2> DEFINE w == lane.tracks[t]
  <2>1. w \in Seq(Sample) /\ Len(w) \in 1..Len(w)
    BY <1>1 DEF Lane
  <2>2. w[Len(w)] \in Sample
    BY <2>1
  <2>3. w[Len(w)].under = NoContext
    BY <1>1 DEF LaneContinuous
  <2> QED  BY <2>2, <2>3, DataAssumption DEF Sample
<1>2. lane.tracks \in [Tracks -> Seq(Sample)]
  BY DEF Lane
<1> QED  BY <1>1, <1>2 DEF NoTracks

(* Lanes a handler may leave behind: each a lane of its key's stream, with  *)
(* continuous windows.                                                      *)
Sound(next) ==
  /\ next \in Lanes
  /\ \A k \in Keys : next[k] # NoLane =>
       LaneContinuous(next[k]) /\ next[k].position.stream = k[2]

LEMMA AppliedLaneSound ==
  ASSUME Sound(lanes), NEW k \in Keys, NEW q \in Position, NEW f \in Frames,
         q.stream = k[2], q.ts = f.ts, AdmissionRefusal(k, q, f) = "none"
  PROVE  LET lane == AppliedLane(k, q, AdmissionOf(k, q, f)) IN
         /\ lane \in Lane /\ LaneContinuous(lane)
         /\ \/ lane.tracks = NoTracks
            \/ Contiguous([at |-> lane.position, under |-> lane.lastFrame],
                          [at |-> q, under |-> f.under])
<1> DEFINE t == AdmissionOf(k, q, f)
           lane == AppliedLane(k, q, t)
<1>1. CASE lanes[k] = NoLane
  <2>1. lane = NewLane(q)
    BY <1>1 DEF AdmissionOf, AppliedLane, Initialized
  <2>2. lane.tracks = NoTracks
    BY <2>1 DEF NewLane
  <2> QED  BY <2>1, <2>2, NewLaneType, EmptyContinuous
<1>2. CASE lanes[k] # NoLane /\ q.epoch # lanes[k].position.epoch
  <2>1. lanes[k] \in Lane
    BY <1>2 DEF Sound, Lanes
  <2>2. lane = RolledOverLane(lanes[k], q)
    BY <1>2 DEF AdmissionOf, AppliedLane, RolledOver
  <2>3. lane.tracks = NoTracks
    BY <2>2 DEF RolledOverLane
  <2> QED  BY <2>1, <2>2, <2>3, RolledOverLaneType, EmptyContinuous
<1>3. CASE lanes[k] # NoLane /\ q.epoch = lanes[k].position.epoch
  <2> DEFINE p == lanes[k].position
             reasons == ContinuityResetReasons(lanes[k], f)
  <2>1. /\ lanes[k] \in Lane /\ LaneContinuous(lanes[k])
        /\ p \in Position /\ p.stream = q.stream
    BY <1>3 DEF Sound, Lanes, Lane
  <2>2. ~(q.seq <= p.seq)
    BY <1>3 DEF AdmissionRefusal, ReplayRefusal
  <2>3. /\ q.clock = p.clock /\ q.seq = p.seq + 1 /\ ~(q.ts <= p.ts)
        /\ GenerationRefusal(lanes[k], q, reasons) = "none"
    BY <1>3, <2>2 DEF AdmissionRefusal
  <2>4. CASE q.gen = p.gen
    <3>1. lane = lanes[k]
      BY <1>3, <2>4 DEF AdmissionOf, AppliedLane, Advanced
    <3>2. reasons = {}
      BY <2>3, <2>4 DEF GenerationRefusal
    <3>3. CASE lanes[k].lastFrame = NoContext
      BY <2>1, <3>1, <3>3, NoContextMeansNoTracks
    <3>4. CASE lanes[k].lastFrame # NoContext
      <4>1. f.under = lanes[k].lastFrame /\ q.ts <= p.ts + MaxGap
        BY <2>1, <3>2, <3>4, NoReasonsMeansSame
      <4>2. q = [p EXCEPT !.seq = @ + 1, !.ts = q.ts]
        BY <1>3, <2>1, <2>3, <2>4 DEF Position
      <4>3. p.ts < q.ts
        BY <2>1, <2>3 DEF Position
      <4>4. Contiguous([at |-> p, under |-> lanes[k].lastFrame],
                       [at |-> q, under |-> f.under])
        BY <4>1, <4>2, <4>3 DEF Contiguous
      <4> QED  BY <2>1, <3>1, <4>4
    <3> QED  BY <3>3, <3>4
  <2>5. CASE q.gen # p.gen
    <3>1. lane = [lanes[k] EXCEPT !.tracks = NoTracks]
      BY <1>3, <2>5 DEF AdmissionOf, AppliedLane, ResetFor
    <3>2. lane \in Lane /\ lane.tracks = NoTracks
      BY <2>1, <3>1, NoTracksType DEF Lane
    <3> QED  BY <3>2, EmptyContinuous
  <2> QED  BY <2>4, <2>5
<1> QED  BY <1>1, <1>2, <1>3

-----------------------------------------------------------------------------
(* The inductive invariant, kept by every ending of a call.                 *)

IInv == TypeOK /\ Sound(lanes)

LEMMA ClearedSound ==
  ASSUME NEW next, Sound(next)
  PROVE  Sound(Cleared(next))
<1>1. Cleared(next) \in Lanes
  BY ClearedType DEF Sound
<1>2. ASSUME NEW k \in Keys, Cleared(next)[k] # NoLane
      PROVE  /\ Cleared(next)[k].tracks = NoTracks
             /\ Cleared(next)[k].position = next[k].position
             /\ next[k] # NoLane
  <2>1. next[k] # NoLane /\ next[k] \in Lane
    BY <1>2 DEF Cleared, Sound, Lanes
  <2> QED  BY <2>1 DEF Cleared, Lane
<1> QED  BY <1>1, <1>2, EmptyContinuous DEF Sound

LEMMA AcceptInv ==
  ASSUME IInv, NEW error \in Errors, NEW next, Sound(next), NEW m \in Producers,
         NEW q \in Position, NEW t \in Transition, NEW f \in Frames \cup {NoFrame},
         NEW a, Accept(error, next, m, q, t, f, a)
  PROVE  IInv'
<1>1. TypeOK'
  BY AcceptType DEF IInv, Sound
<1>2. lanes' = next \/ lanes' = Cleared(next)
  BY DEF Accept, Latch
<1> QED  BY <1>1, <1>2, ClearedSound DEF IInv, Sound, Lanes

LEMMA TerminateInv ==
  ASSUME IInv, NEW error \in Errors, NEW next, Sound(next), NEW m \in Producers,
         NEW q \in Position, NEW t \in Transition, NEW f \in Frames \cup {NoFrame},
         NEW r \in Reasons, Terminate(error, next, m, q, t, f, r)
  PROVE  IInv'
<1>1. TypeOK'
  BY TerminateType DEF IInv, Sound
<1>2. lanes' = Cleared(next)
  BY DEF Terminate, Latch
<1> QED  BY <1>1, <1>2, ClearedSound DEF IInv, Sound, Lanes

LEMMA FailSilentlyInv ==
  ASSUME IInv, NEW error \in Errors, NEW r \in Reasons, FailSilently(error, r)
  PROVE  IInv'
<1>1. TypeOK'
  BY FailSilentlyType DEF IInv
<1>2. lanes' = Cleared(lanes)
  BY DEF FailSilently, Latch
<1> QED  BY <1>1, <1>2, ClearedSound DEF IInv, Sound, Lanes

LEMMA RefusalKinds ==
  ASSUME NEW k, NEW q, NEW f
  PROVE  /\ FrameFault(q, f) \in Faults \cup {"none"}
         /\ AdmissionRefusal(k, q, f) \in Rejections \cup {"none"}
         /\ RolloverRefusal(k, q) \in Rejections \cup {"none"}
<1>1. FrameFault(q, f) \in Faults \cup {"none"}
  BY DEF FrameFault, Faults
<1>2. RolloverRefusal(k, q) \in Rejections \cup {"none"}
  BY DEF RolloverRefusal, Rejections
<1>3. ASSUME NEW lane, NEW reasons
      PROVE  /\ ReplayRefusal(lane, q, f) \in Rejections
             /\ GenerationRefusal(lane, q, reasons) \in Rejections \cup {"none"}
  BY DEF ReplayRefusal, GenerationRefusal, Rejections
<1>4. {"StreamCapacity", "StateGenerationMismatch", "ClockDomainChanged",
       "ForwardSequenceGap", "NonIncreasingTimestamp"} \subseteq Rejections
  BY DEF Rejections
<1>5. AdmissionRefusal(k, q, f) \in Rejections \cup {"none"}
  BY <1>2, <1>3, <1>4 DEF AdmissionRefusal
<1> QED  BY <1>1, <1>2, <1>5

LEMMA TransitionTypes ==
  /\ Initialized \in Transition /\ Advanced \in Transition
  /\ \A R \in SUBSET ResetReasons : ResetFor(R) \in Transition
  /\ \A e \in Epochs : RolledOver(e) \in Transition
  /\ \A r \in Rejections : Rejected(r) \in Transition
  /\ \A r \in Faults : Faulted(r) \in Transition
  BY DEF Transition, TransitionKinds, Initialized, Advanced, ResetFor, RolledOver,
         Rejected, Faulted

LEMMA AdmissionOfType ==
  ASSUME Sound(lanes), NEW k \in Keys, NEW q, NEW f
  PROVE  AdmissionOf(k, q, f) \in Transition
<1>1. lanes[k] # NoLane => lanes[k].position.epoch \in Epochs
  BY DEF Sound, Lanes, Lane, Position
<1>2. ContinuityResetReasons(lanes[k], f) \in SUBSET ResetReasons
  BY DEF ContinuityResetReasons
<1>3. {"Explicit"} \in SUBSET ResetReasons
  BY DEF ResetReasons
<1> QED  BY <1>1, <1>2, <1>3, TransitionTypes DEF AdmissionOf

-----------------------------------------------------------------------------
(* Every call keeps the invariant.                                          *)

LEMMA ReplaceLaneSound ==
  ASSUME Sound(lanes), NEW k \in Keys, NEW lane \in Lane, LaneContinuous(lane),
         lane.position.stream = k[2]
  PROVE  Sound([lanes EXCEPT ![k] = lane])
  BY DEF Sound, Lanes

LEMMA AppliedLaneStream ==
  ASSUME Sound(lanes), NEW k \in Keys, NEW q \in Position, NEW f \in Frames,
         q.stream = k[2]
  PROVE  AppliedLane(k, q, AdmissionOf(k, q, f)).position.stream = k[2]
<1>1. CASE lanes[k] = NoLane
  BY <1>1 DEF AdmissionOf, AppliedLane, Initialized, NewLane
<1>2. CASE lanes[k] # NoLane
  <2>1. lanes[k] \in Lane /\ lanes[k].position.stream = k[2]
    BY <1>2 DEF Sound, Lanes
  <2>2. [lanes[k] EXCEPT !.tracks = NoTracks].position = lanes[k].position
    BY <2>1 DEF Lane
  <2>3. RolledOverLane(lanes[k], q).position = q
    BY DEF RolledOverLane
  <2>4. AppliedLane(k, q, AdmissionOf(k, q, f)) \in
          {lanes[k], [lanes[k] EXCEPT !.tracks = NoTracks], RolledOverLane(lanes[k], q)}
    BY <1>2 DEF AdmissionOf, AppliedLane, Advanced, ResetFor, RolledOver
  <2> QED  BY <2>1, <2>2, <2>3, <2>4
<1> QED  BY <1>1, <1>2

LEMMA AdmitsInv ==
  ASSUME IInv, NEW error \in Errors, NEW q \in Position, NEW f \in Frames,
         q.ts = f.ts, AdmissionRefusal(<<f.producer, q.stream>>, q, f) = "none",
         Admits(error, q, f)
  PROVE  IInv'
<1> DEFINE k == <<f.producer, q.stream>>
           t == AdmissionOf(k, q, f)
           lane == AppliedLane(k, q, t)
<1>1. k \in Keys /\ k[2] = q.stream /\ f.producer \in Producers
  BY FrameType DEF Keys, Position
<1>2. Sound(lanes) /\ t \in Transition
  BY <1>1, AdmissionOfType DEF IInv
<1>3. /\ lane \in Lane /\ LaneContinuous(lane)
      /\ \/ lane.tracks = NoTracks
         \/ Contiguous([at |-> lane.position, under |-> lane.lastFrame],
                       [at |-> q, under |-> f.under])
  BY <1>1, <1>2, AppliedLaneSound
<1>4. lane.position.stream = k[2]
  BY <1>1, <1>2, AppliedLaneStream
<1>5. /\ AssessedLane(lane, q, f) \in Lane
      /\ LaneContinuous(AssessedLane(lane, q, f))
      /\ AssessedLane(lane, q, f).position = q
  <2>1. AssessedLane(lane, q, f).position = q
    BY <1>3 DEF AssessedLane, Lane
  <2> QED  BY <1>3, <2>1, AssessedLaneType, AssessedLaneContinuous
<1>6. CASE Accept(error, [lanes EXCEPT ![k] = AssessedLane(lane, q, f)],
                  f.producer, q, t, f, Assessments(lane, q, f, t))
  <2>1. Sound([lanes EXCEPT ![k] = AssessedLane(lane, q, f)])
    BY <1>1, <1>2, <1>5, ReplaceLaneSound
  <2> QED  BY <1>1, <1>2, <1>6, <2>1, AcceptInv
<1>7. CASE Terminate(error, [lanes EXCEPT ![k] = lane], f.producer, q,
                     Faulted("Assessment"), f, "Assessment")
  <2>1. Sound([lanes EXCEPT ![k] = lane])
    BY <1>1, <1>2, <1>3, <1>4, ReplaceLaneSound
  <2>2. "Assessment" \in Reasons /\ Faulted("Assessment") \in Transition
    BY TransitionTypes DEF Reasons, Faults
  <2> QED  BY <1>1, <1>7, <2>1, <2>2, TerminateInv
<1> QED  BY <1>6, <1>7 DEF Admits

LEMMA AssessAtInv ==
  ASSUME IInv, NEW error \in Errors, NEW q \in Position, NEW f \in Frames,
         AssessAt(error, q, f)
  PROVE  IInv'
<1> DEFINE defect == FrameFault(q, f)
           refusal == AdmissionRefusal(<<f.producer, q.stream>>, q, f)
<1>1. Sound(lanes) /\ f.producer \in Producers
  BY FrameType DEF IInv
<1>2. CASE FailSilently(error, "InvalidFrame")
  <2>1. "InvalidFrame" \in Reasons
    BY DEF Reasons, Faults
  <2> QED  BY <1>2, <2>1, FailSilentlyInv
<1>3. CASE defect # "none" /\ Terminate(error, lanes, f.producer, q, Faulted(defect), f, defect)
  <2>1. defect \in Faults /\ defect \in Reasons
    BY <1>3, RefusalKinds DEF Reasons
  <2> QED  BY <1>1, <1>3, <2>1, TransitionTypes, TerminateInv
<1>4. CASE refusal # "none" /\ Terminate(error, lanes, f.producer, q, Rejected(refusal), f, refusal)
  <2>1. refusal \in Rejections /\ refusal \in Reasons
    BY <1>4, RefusalKinds DEF Reasons
  <2> QED  BY <1>1, <1>4, <2>1, TransitionTypes, TerminateInv
<1>5. CASE defect = "none" /\ refusal = "none" /\ Admits(error, q, f)
  <2>1. q.ts = f.ts
    BY <1>5 DEF FrameFault
  <2> QED  BY <1>5, <2>1, AdmitsInv
<1> QED  BY <1>2, <1>3, <1>4, <1>5 DEF AssessAt

LEMMA LegacyPositionType ==
  ASSUME IInv, NEW f \in Frames, LegacyPositionValid(f)
  PROVE  LegacyPosition(f) \in Position
<1> DEFINE k == <<f.producer, LegacyStream>>
<1>1. k \in Keys
  BY FrameType, DataAssumption DEF Keys
<1>2. lanes[k] # NoLane => lanes[k].position.gen \in Nat
  BY <1>1, BoundsAssumption DEF IInv, Sound, Lanes, Lane, Position
<1>3. LegacyGeneration(f) \in Nat
  BY <1>2 DEF LegacyGeneration
<1>4. LegacyGeneration(f) \in 0..MaxGeneration
  BY <1>3, BoundsAssumption DEF LegacyPositionValid
<1> QED  BY <1>4, FrameType, DataAssumption DEF LegacyPosition, Position

LEMMA AssessFrameInv ==
  ASSUME IInv, NEW f \in Frames, AssessFrame(f)
  PROVE  IInv'
<1>1. CASE FailSilently("frame_error", "InvalidFrame") \/ FailSilently("frame_error", "InvalidPosition")
  BY <1>1, FailSilentlyInv DEF Errors, Reasons, Faults
<1>2. CASE LegacyPositionValid(f) /\ AssessAt("frame_error", LegacyPosition(f), f)
  BY <1>2, LegacyPositionType, AssessAtInv DEF Errors
<1> QED  BY <1>1, <1>2 DEF AssessFrame

LEMMA PositionedFrameInv ==
  ASSUME IInv, NEW c \in Placed, AssessPositionedFrame(c[1], c[2])
  PROVE  IInv'
<1>1. c[1] \in Position /\ c[2] \in Frames
  BY DataAssumption
<1> QED  BY <1>1, AssessAtInv DEF AssessPositionedFrame, Errors

LEMMA ControlResetInv ==
  ASSUME IInv, NEW m \in Producers, NEW q \in Positions,
         NEW reason \in ResetReasons, ControlReset(m, q, reason)
  PROVE  IInv'
<1> DEFINE k == <<m, q.stream>>
           lane == [lanes[k] EXCEPT !.position = q, !.tracks = NoTracks, !.lastFrame = NoContext]
<1>1. q \in Position /\ Sound(lanes)
  BY DataAssumption DEF IInv
<1>2. k \in Keys /\ k[2] = q.stream
  BY <1>1 DEF Keys, Position
<1>3. "error" \in Errors /\ NoFrame \in Frames \cup {NoFrame}
  BY DEF Errors
<1>4. CASE /\ lanes[k] # NoLane
           /\ Accept("error", [lanes EXCEPT ![k] = lane], m, q,
                     ResetFor({reason}), NoFrame, <<>>)
  <2>1. lanes[k] \in Lane
    BY <1>1, <1>2, <1>4 DEF Sound, Lanes
  <2>2. lane \in Lane /\ lane.tracks = NoTracks /\ lane.position = q
    BY <1>1, <2>1, NoTracksType DEF Lane
  <2>3. LaneContinuous(lane)
    BY <2>2, EmptyContinuous
  <2>4. Sound([lanes EXCEPT ![k] = lane])
    BY <1>1, <1>2, <2>2, <2>3, ReplaceLaneSound
  <2>5. ResetFor({reason}) \in Transition
    BY TransitionTypes
  <2> QED  BY <1>1, <1>3, <1>4, <2>4, <2>5, AcceptInv
<1>5. CASE Terminate("error", lanes, m, q, Rejected("InvalidResetSuccessor"),
                     NoFrame, "InvalidResetSuccessor")
  <2>1. /\ "InvalidResetSuccessor" \in Reasons
        /\ Rejected("InvalidResetSuccessor") \in Transition
    BY TransitionTypes DEF Reasons, Rejections
  <2> QED  BY <1>1, <1>3, <1>5, <2>1, TerminateInv
<1> QED  BY <1>4, <1>5 DEF ControlReset

LEMMA RolloverInv ==
  ASSUME IInv, NEW m \in Producers, NEW q \in Positions, RolloverAt(m, q)
  PROVE  IInv'
<1> DEFINE k == <<m, q.stream>>
           lane == RolledOverLane(lanes[k], q)
           refusal == RolloverRefusal(k, q)
<1>1. q \in Position /\ Sound(lanes)
  BY DataAssumption DEF IInv
<1>2. k \in Keys /\ k[2] = q.stream
  BY <1>1 DEF Keys, Position
<1>3. "error" \in Errors /\ NoFrame \in Frames \cup {NoFrame}
  BY DEF Errors
<1>4. CASE /\ refusal = "none"
           /\ Accept("error", [lanes EXCEPT ![k] = lane], m, q,
                     RolledOver(lanes[k].position.epoch), NoFrame, <<>>)
  <2>1. lanes[k] \in Lane
    BY <1>1, <1>2, <1>4 DEF Sound, Lanes, RolloverRefusal
  <2>2. lane \in Lane /\ lane.tracks = NoTracks /\ lane.position = q
    BY <1>1, <2>1, RolledOverLaneType DEF RolledOverLane
  <2>3. Sound([lanes EXCEPT ![k] = lane])
    BY <1>1, <1>2, <2>2, EmptyContinuous, ReplaceLaneSound
  <2>4. RolledOver(lanes[k].position.epoch) \in Transition
    BY <2>1, TransitionTypes DEF Lane, Position
  <2> QED  BY <1>1, <1>3, <1>4, <2>3, <2>4, AcceptInv
<1>5. CASE /\ refusal # "none"
           /\ Terminate("error", lanes, m, q, Rejected(refusal), NoFrame, refusal)
  <2>1. refusal \in Rejections /\ refusal \in Reasons
    BY <1>5, RefusalKinds DEF Reasons
  <2> QED  BY <1>1, <1>3, <1>5, <2>1, TransitionTypes, TerminateInv
<1> QED  BY <1>4, <1>5 DEF RolloverAt

LEMMA ClearHistoriesInv ==
  ASSUME IInv, ClearHistories
  PROVE  IInv'
<1>1. Sound(lanes')
  BY ClearedSound DEF IInv, ClearHistories
<1>2. TypeOK'
  BY <1>1 DEF IInv, TypeOK, ClearHistories, Sound, Lanes, log, Answers
<1> QED  BY <1>1, <1>2 DEF IInv, Sound, Lanes

LEMMA InitInv ==
  ASSUME Init
  PROVE  IInv
<1>1. 0 \in 0..(MaxReceiptIndex + 1)
  BY BoundsAssumption
<1>2. TypeOK
  BY <1>1 DEF Init, TypeOK, ZeroDigest, Answers
<1>3. Sound(lanes)
  BY DEF Init, Sound, Lanes
<1> QED  BY <1>2, <1>3 DEF IInv

LEMMA NextInv ==
  ASSUME IInv, [Next]_vars
  PROVE  IInv'
<1>1. CASE \E f \in Frames : AssessFrame(f)
  BY <1>1, AssessFrameInv
<1>2. CASE \E c \in Placed : AssessPositionedFrame(c[1], c[2])
  BY <1>2, PositionedFrameInv
<1>3. ASSUME NEW m \in Producers, NEW q \in Positions,
             ResetAt(m, q) \/ TimeoutAt(m, q) \/ RolloverAt(m, q)
      PROVE  IInv'
  <2>1. CASE ResetAt(m, q)
    BY <2>1, ControlResetInv DEF ResetAt, ResetReasons
  <2>2. CASE TimeoutAt(m, q)
    BY <2>2, ControlResetInv DEF TimeoutAt, ResetReasons
  <2>3. CASE RolloverAt(m, q)
    BY <2>3, RolloverInv
  <2> QED  BY <1>3, <2>1, <2>2, <2>3
<1>4. CASE ControlUnknownProducer
  BY <1>4, FailSilentlyInv DEF ControlUnknownProducer, Errors, Reasons, Faults
<1>5. CASE ClearHistories
  BY <1>5, ClearHistoriesInv
<1>6. CASE ReturnFault \/ UNCHANGED vars
  <2>1. UNCHANGED vars
    BY <1>6 DEF ReturnFault
  <2> QED  BY <2>1 DEF IInv, TypeOK, Sound, Lanes, vars, log
<1> QED  BY <1>1, <1>2, <1>3, <1>4, <1>5, <1>6 DEF Next

(* Every variable of the detector always holds a value of its kind, in      *)
(* particular no counter or position ever leaves its safe-integer range     *)
(* (StreamPosition's checked constructors, commit_receipt).                 *)
THEOREM TypeCorrect == Spec => []TypeOK
<1>1. IInv => TypeOK
  BY DEF IInv
<1> QED  BY InitInv, NextInv, <1>1, PTL DEF Spec

(* Whatever the frames, positions and control calls and in whatever order,  *)
(* no retained window ever holds samples from the two sides of an absence,  *)
(* a reset, a rollover, a projection change or an excessive gap.            *)
THEOREM WindowsAlwaysContinuous == Spec => []WindowsContinuous
<1>1. IInv => WindowsContinuous
  BY DEF IInv, Sound, WindowsContinuous, OpenKeys
<1> QED  BY InitInv, NextInv, <1>1, PTL DEF Spec

-----------------------------------------------------------------------------
(* The receipt log.                                                         *)

(* The end of the retained log after a commit: r is last, and every earlier *)
(* place holds what it held, one place further on if the log was full.      *)
LEMMA CommitShape ==
  ASSUME TypeOK, NEW r, Commit(r)
  PROVE  LET n == Len(receipts') IN
         /\ n \in Nat \ {0} /\ receipts'[n] = r
         /\ nextIndex' = nextIndex + 1 /\ lastDigest' = r.digest
         /\ \/ /\ Len(receipts) < MaxReceipts
               /\ n = Len(receipts) + 1 /\ UNCHANGED <<anchor, evicted>>
               /\ \A i \in 1..(n - 1) : receipts'[i] = receipts[i]
            \/ /\ Len(receipts) >= MaxReceipts
               /\ n = Len(receipts) /\ evicted' = evicted + 1
               /\ anchor' = receipts[1].digest
               /\ \A i \in 1..(n - 1) : receipts'[i] = receipts[i + 1]
<1>1. receipts \in Seq(Receipt) /\ Len(receipts) \in Nat
  BY DEF TypeOK
<1>2. CASE Len(receipts) >= MaxReceipts
  <2>1. receipts # <<>> /\ Len(receipts) >= 1
    BY <1>1, <1>2, BoundsAssumption
  <2>2. /\ Tail(receipts) \in Seq(Receipt) /\ Len(Tail(receipts)) = Len(receipts) - 1
        /\ \A i \in 1..(Len(receipts) - 1) : Tail(receipts)[i] = receipts[i + 1]
        /\ Head(receipts) = receipts[1]
    BY <1>1, <2>1
  <2>3. /\ receipts' = Append(Tail(receipts), r) /\ anchor' = Head(receipts).digest
        /\ evicted' = evicted + 1 /\ nextIndex' = nextIndex + 1 /\ lastDigest' = r.digest
    BY <1>2 DEF Commit
  <2>4. /\ Len(receipts') = Len(receipts) /\ receipts'[Len(receipts)] = r
        /\ \A i \in 1..(Len(receipts) - 1) : receipts'[i] = receipts[i + 1]
    BY <2>1, <2>2, <2>3
  <2>5. anchor' = receipts[1].digest
    BY <2>2, <2>3
  <2>6. Len(receipts) \in Nat \ {0}
    BY <1>1, <2>1
  <2> QED  BY <1>2, <2>3, <2>4, <2>5, <2>6
<1>3. CASE ~(Len(receipts) >= MaxReceipts)
  <2>1. /\ receipts' = Append(receipts, r) /\ UNCHANGED <<anchor, evicted>>
        /\ nextIndex' = nextIndex + 1 /\ lastDigest' = r.digest
    BY <1>3 DEF Commit
  <2>2. /\ Len(receipts') = Len(receipts) + 1 /\ receipts'[Len(receipts) + 1] = r
        /\ \A i \in 1..Len(receipts) : receipts'[i] = receipts[i]
    BY <1>1, <2>1
  <2> QED  BY <1>1, <1>3, <2>1, <2>2, BoundsAssumption
<1> QED  BY <1>2, <1>3

(* What a handler may ask to be committed.                                  *)
Committable(t, f, b) ==
  /\ b => f # NoFrame
  /\ t.kind \in {"Initialized", "Advanced"} => b
  /\ t.kind \in {"Reset", "EpochRolledOver"} => (f # NoFrame) = b
  /\ IsTerminal(t) => ~b
  /\ t.kind = "Faulted" => f # NoFrame

LEMMA CommitChain ==
  ASSUME TypeOK, ReceiptChain, NEW m, NEW q, NEW t, NEW f, NEW b \in BOOLEAN,
         Committable(t, f, b), Commit(ReceiptFor(m, q, t, f, b))
  PROVE  ReceiptChain'
<1> DEFINE r == ReceiptFor(m, q, t, f, b)
           n == Len(receipts')
<1>1. /\ r.index = nextIndex /\ r.previous = lastDigest /\ r.digest = nextIndex + 1
      /\ r.transition = t /\ r.frame = f /\ r.hasAssessment = b
  BY DEF ReceiptFor, DigestOf
<1>2. /\ nextIndex \in Nat /\ nextIndex <= MaxReceiptIndex /\ evicted \in Nat
      /\ MaxReceiptIndex \in Nat /\ MaxReceipts \in Nat /\ MaxReceipts >= 1
      /\ Len(receipts) \in Nat
  BY BoundsAssumption DEF TypeOK, Commit, Exhausted
<1>3. /\ nextIndex = evicted + Len(receipts) /\ Len(receipts) <= MaxReceipts
      /\ anchor = IF evicted = 0 THEN 0 ELSE (evicted - 1) + 1
      /\ lastDigest = IF nextIndex = 0 THEN 0 ELSE (nextIndex - 1) + 1
      /\ \A i \in 1..Len(receipts) :
           /\ receipts[i].index = evicted + i - 1
           /\ receipts[i].digest = receipts[i].index + 1
           /\ receipts[i].previous = IF i = 1 THEN anchor ELSE receipts[i - 1].digest
           /\ WellShaped(receipts[i])
  BY DEF ReceiptChain, DigestOf, ZeroDigest
<1>4. WellShaped(r)
  BY <1>1, <1>2, <1>3 DEF WellShaped, Committable, ZeroDigest
<1>5. /\ n \in Nat \ {0} /\ receipts'[n] = r
      /\ nextIndex' = nextIndex + 1 /\ lastDigest' = nextIndex + 1
  BY <1>1, CommitShape
<1> HIDE DEF n, r
<1>6. CASE /\ Len(receipts) < MaxReceipts
           /\ n = Len(receipts) + 1 /\ UNCHANGED <<anchor, evicted>>
           /\ \A i \in 1..(n - 1) : receipts'[i] = receipts[i]
  <2>1. ASSUME NEW i \in 1..n
        PROVE  /\ receipts'[i].index = evicted' + i - 1
               /\ receipts'[i].digest = receipts'[i].index + 1
               /\ receipts'[i].previous = IF i = 1 THEN anchor' ELSE receipts'[i - 1].digest
               /\ WellShaped(receipts'[i])
    <3>1. CASE i = n
      <4>1. ASSUME n # 1 PROVE receipts'[n - 1].digest = nextIndex
        <5>1. n - 1 \in 1..Len(receipts) /\ n - 1 \in 1..(n - 1)
          BY <1>2, <1>6, <4>1
        <5>2. /\ receipts'[n - 1] = receipts[n - 1]
              /\ receipts[n - 1].index = evicted + (n - 1) - 1
              /\ receipts[n - 1].digest = receipts[n - 1].index + 1
          BY <1>3, <1>6, <5>1
        <5> QED  BY <1>2, <1>3, <1>6, <5>2
      <4>2. n = 1 => anchor' = nextIndex
        BY <1>2, <1>3, <1>6
      <4>3. lastDigest = nextIndex
        BY <1>2, <1>3
      <4> QED  BY <1>1, <1>2, <1>3, <1>4, <1>5, <1>6, <3>1, <4>1, <4>2, <4>3
    <3>2. CASE i # n
      <4>1. i \in 1..Len(receipts) /\ i \in 1..(n - 1) /\ (i # 1 => i - 1 \in 1..(n - 1))
        BY <1>2, <1>6, <3>2
      <4> QED  BY <1>3, <1>6, <4>1
    <3> QED  BY <3>1, <3>2
  <2>2. nextIndex' = evicted' + n /\ n <= MaxReceipts
    BY <1>2, <1>3, <1>5, <1>6
  <2>3. /\ anchor' = IF evicted' = 0 THEN 0 ELSE (evicted' - 1) + 1
        /\ lastDigest' = IF nextIndex' = 0 THEN 0 ELSE (nextIndex' - 1) + 1
    BY <1>2, <1>3, <1>5, <1>6
  <2> QED  BY ONLY <2>1, <2>2, <2>3 DEF n, ReceiptChain, DigestOf, ZeroDigest
<1>7. CASE /\ Len(receipts) >= MaxReceipts
           /\ n = Len(receipts) /\ evicted' = evicted + 1
           /\ anchor' = receipts[1].digest
           /\ \A i \in 1..(n - 1) : receipts'[i] = receipts[i + 1]
  <2>1. anchor' = evicted + 1
    <3>1. 1 \in 1..Len(receipts)
      BY <1>2, <1>7
    <3>2. receipts[1].index = evicted + 1 - 1 /\ receipts[1].digest = receipts[1].index + 1
      BY <1>3, <3>1
    <3> QED  BY <1>2, <1>7, <3>2
  <2>2. ASSUME NEW i \in 1..n
        PROVE  /\ receipts'[i].index = evicted' + i - 1
               /\ receipts'[i].digest = receipts'[i].index + 1
               /\ receipts'[i].previous = IF i = 1 THEN anchor' ELSE receipts'[i - 1].digest
               /\ WellShaped(receipts'[i])
    <3>1. CASE i = n
      <4>1. ASSUME n # 1 PROVE receipts'[n - 1].digest = nextIndex
        <5>1. n \in 1..Len(receipts) /\ n - 1 \in 1..(n - 1) /\ (n - 1) + 1 = n
          BY <1>2, <1>5, <1>7, <4>1
        <5>2. /\ receipts'[n - 1] = receipts[n]
              /\ receipts[n].index = evicted + n - 1
              /\ receipts[n].digest = receipts[n].index + 1
          BY <1>3, <1>7, <5>1
        <5> QED  BY <1>2, <1>3, <1>7, <5>2
      <4>2. n = 1 => anchor' = nextIndex
        BY <1>2, <1>3, <1>5, <1>7, <2>1
      <4>3. lastDigest = nextIndex
        BY <1>2, <1>3
      <4> QED  BY <1>1, <1>2, <1>3, <1>4, <1>5, <1>7, <3>1, <4>1, <4>2, <4>3, SMTT(30)
    <3>2. CASE i # n
      <4>1. i + 1 \in 1..Len(receipts) /\ i \in 1..(n - 1) /\ (i # 1 => i - 1 \in 1..(n - 1))
        BY <1>2, <1>7, <3>2
      <4>2. receipts'[i] = receipts[i + 1] /\ (i # 1 => receipts'[i - 1] = receipts[i])
        BY <1>2, <1>7, <4>1
      <4>3. /\ receipts[i + 1].index = evicted + (i + 1) - 1
            /\ receipts[i + 1].digest = receipts[i + 1].index + 1
            /\ receipts[i + 1].previous = receipts[i].digest
            /\ WellShaped(receipts[i + 1])
        <5>1. i + 1 # 1 /\ (i + 1) - 1 = i
          BY <1>2, <4>1
        <5> QED  BY <1>3, <4>1, <5>1
      <4>4. receipts'[i].index = evicted' + i - 1
        BY <1>2, <1>7, <4>1, <4>2, <4>3
      <4>5. receipts'[i].previous = IF i = 1 THEN anchor' ELSE receipts'[i - 1].digest
        BY <1>7, <4>2, <4>3
      <4>6. WellShaped(receipts'[i]) /\ receipts'[i].digest = receipts'[i].index + 1
        BY <4>2, <4>3
      <4> QED  BY <4>4, <4>5, <4>6
    <3> QED  BY <3>1, <3>2
  <2>3. nextIndex' = evicted' + n /\ n <= MaxReceipts
    BY <1>2, <1>3, <1>5, <1>7
  <2>4. /\ anchor' = IF evicted' = 0 THEN 0 ELSE (evicted' - 1) + 1
        /\ lastDigest' = IF nextIndex' = 0 THEN 0 ELSE (nextIndex' - 1) + 1
    BY <1>2, <1>5, <1>7, <2>1
  <2> QED  BY ONLY <2>2, <2>3, <2>4 DEF n, ReceiptChain, DigestOf, ZeroDigest
<1> QED  BY <1>6, <1>7, CommitShape DEF n

LogInv == ReceiptChain /\ FailsClosed

LEMMA ClearedTracks ==
  ASSUME NEW next \in Lanes, NEW k \in Keys, Cleared(next)[k] # NoLane
  PROVE  Cleared(next)[k].tracks = NoTracks
<1>1. next[k] # NoLane /\ next[k] \in Lane
  BY DEF Cleared, Lanes
<1> QED  BY <1>1 DEF Cleared, Lane

LEMMA LatchEmpties ==
  ASSUME NEW error, NEW next \in Lanes, NEW reason, Latch(error, next, reason)
  PROVE  \A k \in OpenKeys' : lanes'[k].tracks = NoTracks
  BY ClearedTracks DEF Latch, OpenKeys

(* While nothing is latched no retained receipt is terminal, so a commit    *)
(* leaves at most its own receipt terminal, and that one last.              *)
LEMMA OnlyLastTerminal ==
  ASSUME TypeOK, FailsClosed, fault = NoFault, NEW r, Commit(r),
         NEW i \in 1..Len(receipts'), IsTerminal(receipts'[i].transition)
  PROVE  i = Len(receipts') /\ receipts'[i] = r
<1> DEFINE n == Len(receipts')
<1>1. \A j \in 1..Len(receipts) : ~IsTerminal(receipts[j].transition)
  BY DEF FailsClosed
<1>2. n \in Nat \ {0} /\ receipts'[n] = r /\ Len(receipts) \in Nat
  BY CommitShape DEF TypeOK
<1>3. ASSUME i # n PROVE FALSE
  <2>1. i \in 1..(n - 1)
    BY <1>2, <1>3
  <2>2. \E j \in 1..Len(receipts) : receipts'[i] = receipts[j]
    <3> HIDE DEF n
    <3>1. CASE n = Len(receipts) + 1 /\ \A j \in 1..(n - 1) : receipts'[j] = receipts[j]
      BY <1>2, <2>1, <3>1
    <3>2. CASE n = Len(receipts) /\ \A j \in 1..(n - 1) : receipts'[j] = receipts[j + 1]
      <4>1. i + 1 \in 1..Len(receipts)
        BY <1>2, <2>1, <3>2
      <4> QED  BY <2>1, <3>2, <4>1
    <3> QED  BY <3>1, <3>2, CommitShape DEF n
  <2> QED  BY <1>1, <2>2
<1> QED  BY <1>2, <1>3

LEMMA AcceptLog ==
  ASSUME TypeOK, LogInv, fault = NoFault, NEW error, NEW next \in Lanes, NEW m, NEW q,
         NEW t, NEW f, NEW a, ~IsTerminal(t), Committable(t, f, f # NoFrame),
         Accept(error, next, m, q, t, f, a)
  PROVE  LogInv'
<1> DEFINE r == ReceiptFor(m, q, t, f, f # NoFrame)
<1>1. CASE Commit(r) /\ fault' = fault
  <2>1. ReceiptChain'
    BY <1>1, CommitChain DEF LogInv
  <2>2. r.transition = t
    BY DEF ReceiptFor
  <2>3. \A i \in 1..Len(receipts') : ~IsTerminal(receipts'[i].transition)
    BY <1>1, <2>2, OnlyLastTerminal DEF LogInv
  <2> QED  BY <1>1, <2>1, <2>3 DEF LogInv, FailsClosed
<1>2. CASE Latch(error, next, "ReceiptIndexExhausted") /\ UNCHANGED log
  <2>1. ReceiptChain' /\ \A i \in 1..Len(receipts') : ~IsTerminal(receipts'[i].transition)
    BY <1>2 DEF LogInv, ReceiptChain, FailsClosed, log, WellShaped
  <2> QED  BY <1>2, <2>1, LatchEmpties DEF LogInv, FailsClosed
<1> QED  BY <1>1, <1>2 DEF Accept

LEMMA TerminateLog ==
  ASSUME TypeOK, LogInv, fault = NoFault, NEW error, NEW next \in Lanes, NEW m, NEW q,
         NEW t, NEW f, NEW reason \in Reasons, t.about = {reason},
         Committable(t, f, FALSE), Terminate(error, next, m, q, t, f, reason)
  PROVE  LogInv'
<1> DEFINE r == ReceiptFor(m, q, t, f, FALSE)
<1>1. reason # NoFault
  BY DEF Reasons, Faults, Rejections, NoFault
<1>2. CASE Commit(r) /\ Latch(error, next, reason)
  <2>1. ReceiptChain'
    BY <1>2, CommitChain DEF LogInv
  <2>2. r.transition = t /\ fault' = reason
    BY <1>2 DEF ReceiptFor, Latch
  <2>3. ASSUME NEW i \in 1..Len(receipts'), IsTerminal(receipts'[i].transition)
        PROVE  i = Len(receipts') /\ receipts'[i].transition.about = {fault'}
    BY <1>2, <2>2, <2>3, OnlyLastTerminal DEF LogInv
  <2> QED  BY <1>1, <1>2, <2>1, <2>2, <2>3, LatchEmpties DEF LogInv, FailsClosed
<1>3. CASE Latch(error, next, "ReceiptIndexExhausted") /\ UNCHANGED log
  <2>1. ReceiptChain' /\ \A i \in 1..Len(receipts') : ~IsTerminal(receipts'[i].transition)
    BY <1>3 DEF LogInv, ReceiptChain, FailsClosed, log, WellShaped
  <2> QED  BY <1>3, <2>1, LatchEmpties DEF LogInv, FailsClosed
<1> QED  BY <1>2, <1>3 DEF Terminate

LEMMA FailSilentlyLog ==
  ASSUME TypeOK, LogInv, fault = NoFault, NEW error, NEW reason, FailSilently(error, reason)
  PROVE  LogInv'
<1>1. lanes \in Lanes
  BY DEF TypeOK, Lanes
<1>2. ReceiptChain' /\ \A i \in 1..Len(receipts') : ~IsTerminal(receipts'[i].transition)
  BY DEF FailSilently, LogInv, ReceiptChain, FailsClosed, log, WellShaped
<1> QED  BY <1>1, <1>2, LatchEmpties DEF FailSilently, LogInv, FailsClosed

LEMMA TerminalCommittable ==
  ASSUME NEW r, NEW f
  PROVE  /\ Committable(Rejected(r), f, FALSE) /\ Rejected(r).about = {r}
         /\ f # NoFrame => Committable(Faulted(r), f, FALSE)
         /\ Faulted(r).about = {r}
  BY DEF Committable, Rejected, Faulted, IsTerminal

LEMMA RejectLog ==
  ASSUME TypeOK, LogInv, fault = NoFault, NEW error, NEW next \in Lanes, NEW m, NEW q,
         NEW f, NEW reason \in Reasons, Terminate(error, next, m, q, Rejected(reason), f, reason)
  PROVE  LogInv'
BY TerminalCommittable, TerminateLog

LEMMA FaultLog ==
  ASSUME TypeOK, LogInv, fault = NoFault, NEW error, NEW next \in Lanes, NEW m, NEW q,
         NEW f, NEW reason \in Reasons, f # NoFrame,
         Terminate(error, next, m, q, Faulted(reason), f, reason)
  PROVE  LogInv'
BY TerminalCommittable, TerminateLog

LEMMA AdmissionCommittable ==
  ASSUME NEW k, NEW q, NEW f, NEW g \in Frames
  PROVE  /\ ~IsTerminal(AdmissionOf(k, q, f))
         /\ Committable(AdmissionOf(k, q, f), g, g # NoFrame)
<1>1. g # NoFrame
  BY DataAssumption
<1>2. AdmissionOf(k, q, f).kind \in {"Initialized", "Advanced", "Reset", "EpochRolledOver"}
  BY DEF AdmissionOf, Initialized, Advanced, ResetFor, RolledOver
<1> QED  BY <1>1, <1>2 DEF Committable, IsTerminal

LEMMA AdmitsLog ==
  ASSUME IInv, LogInv, fault = NoFault, NEW error, NEW q \in Position, NEW f \in Frames,
         AdmissionRefusal(<<f.producer, q.stream>>, q, f) = "none", q.ts = f.ts,
         Admits(error, q, f)
  PROVE  LogInv'
<1> DEFINE k == <<f.producer, q.stream>>
           t == AdmissionOf(k, q, f)
           lane == AppliedLane(k, q, t)
<1>1. k \in Keys /\ Sound(lanes) /\ lanes \in Lanes
  BY FrameType DEF Keys, Position, IInv, Sound
<1>2. lane \in Lane /\ LaneContinuous(lane)
  BY <1>1, AppliedLaneSound
<1>3. f # NoFrame /\ TypeOK
  BY DataAssumption DEF IInv
<1>4. CASE Accept(error, [lanes EXCEPT ![k] = AssessedLane(lane, q, f)],
                  f.producer, q, t, f, Assessments(lane, q, f, t))
  <2>1. AssessedLane(lane, q, f) \in Lane
    BY <1>2, AssessedLaneType
  <2>2. [lanes EXCEPT ![k] = AssessedLane(lane, q, f)] \in Lanes
    BY <1>1, <2>1 DEF Lanes
  <2> QED  BY <1>3, <1>4, <2>2, AdmissionCommittable, AcceptLog
<1>5. CASE Terminate(error, [lanes EXCEPT ![k] = lane], f.producer, q,
                     Faulted("Assessment"), f, "Assessment")
  <2>1. [lanes EXCEPT ![k] = lane] \in Lanes
    BY <1>1, <1>2 DEF Lanes
  <2>2. "Assessment" \in Reasons
    BY DEF Reasons, Faults
  <2> QED  BY <1>3, <1>5, <2>1, <2>2, FaultLog
<1> QED  BY <1>4, <1>5 DEF Admits

LEMMA AssessAtLog ==
  ASSUME IInv, LogInv, fault = NoFault, NEW error, NEW q \in Position, NEW f \in Frames,
         AssessAt(error, q, f)
  PROVE  LogInv'
<1> DEFINE defect == FrameFault(q, f)
           refusal == AdmissionRefusal(<<f.producer, q.stream>>, q, f)
<1>1. TypeOK /\ lanes \in Lanes /\ f # NoFrame
  BY DataAssumption DEF IInv, Sound
<1>2. CASE FailSilently(error, "InvalidFrame")
  BY <1>1, <1>2, FailSilentlyLog
<1>3. CASE defect # "none" /\ Terminate(error, lanes, f.producer, q, Faulted(defect), f, defect)
  <2>1. defect \in Reasons
    BY <1>3, RefusalKinds DEF Reasons
  <2> QED  BY <1>1, <1>3, <2>1, FaultLog
<1>4. CASE refusal # "none" /\ Terminate(error, lanes, f.producer, q, Rejected(refusal), f, refusal)
  <2>1. refusal \in Reasons
    BY <1>4, RefusalKinds DEF Reasons
  <2> QED  BY <1>1, <1>4, <2>1, RejectLog
<1>5. CASE defect = "none" /\ refusal = "none" /\ Admits(error, q, f)
  <2>1. q.ts = f.ts
    BY <1>5 DEF FrameFault
  <2> QED  BY <1>5, <2>1, AdmitsLog
<1> QED  BY <1>2, <1>3, <1>4, <1>5 DEF AssessAt

LEMMA AssessFrameLog ==
  ASSUME IInv, LogInv, NEW f \in Frames, AssessFrame(f)
  PROVE  LogInv'
<1>1. fault = NoFault /\ TypeOK
  BY DEF AssessFrame, IInv
<1>2. CASE FailSilently("frame_error", "InvalidFrame") \/ FailSilently("frame_error", "InvalidPosition")
  BY <1>1, <1>2, FailSilentlyLog
<1>3. CASE LegacyPositionValid(f) /\ AssessAt("frame_error", LegacyPosition(f), f)
  BY <1>1, <1>3, LegacyPositionType, AssessAtLog
<1> QED  BY <1>2, <1>3 DEF AssessFrame

LEMMA ControlResetLog ==
  ASSUME IInv, LogInv, NEW m \in Producers, NEW q \in Positions,
         NEW reason \in ResetReasons, ControlReset(m, q, reason)
  PROVE  LogInv'
<1> DEFINE k == <<m, q.stream>>
           lane == [lanes[k] EXCEPT !.position = q, !.tracks = NoTracks, !.lastFrame = NoContext]
<1>1. q \in Position /\ lanes \in Lanes /\ TypeOK /\ fault = NoFault
  BY DataAssumption DEF IInv, Sound, ControlReset
<1>2. k \in Keys
  BY <1>1 DEF Keys, Position
<1>3. CASE /\ lanes[k] # NoLane
           /\ Accept("error", [lanes EXCEPT ![k] = lane], m, q,
                     ResetFor({reason}), NoFrame, <<>>)
  <2>1. lanes[k] \in Lane
    BY <1>1, <1>2, <1>3 DEF Lanes
  <2>2. lane \in Lane
    BY <1>1, <2>1, NoTracksType DEF Lane
  <2>3. [lanes EXCEPT ![k] = lane] \in Lanes
    BY <1>1, <1>2, <2>2 DEF Lanes
  <2>4. /\ ~IsTerminal(ResetFor({reason}))
        /\ Committable(ResetFor({reason}), NoFrame, NoFrame # NoFrame)
    BY DEF IsTerminal, ResetFor, Committable
  <2> QED  BY <1>1, <1>3, <2>3, <2>4, AcceptLog
<1>4. CASE Terminate("error", lanes, m, q, Rejected("InvalidResetSuccessor"),
                     NoFrame, "InvalidResetSuccessor")
  <2>1. "InvalidResetSuccessor" \in Reasons
    BY DEF Reasons, Rejections
  <2> QED  BY <1>1, <1>4, <2>1, RejectLog
<1> QED  BY <1>3, <1>4 DEF ControlReset

LEMMA RolloverLog ==
  ASSUME IInv, LogInv, NEW m \in Producers, NEW q \in Positions, RolloverAt(m, q)
  PROVE  LogInv'
<1> DEFINE k == <<m, q.stream>>
           lane == RolledOverLane(lanes[k], q)
           refusal == RolloverRefusal(k, q)
<1>1. q \in Position /\ lanes \in Lanes /\ TypeOK /\ fault = NoFault
  BY DataAssumption DEF IInv, Sound, RolloverAt
<1>2. k \in Keys
  BY <1>1 DEF Keys, Position
<1>3. CASE /\ refusal = "none"
           /\ Accept("error", [lanes EXCEPT ![k] = lane], m, q,
                     RolledOver(lanes[k].position.epoch), NoFrame, <<>>)
  <2>1. lanes[k] \in Lane
    BY <1>1, <1>2, <1>3 DEF Lanes, RolloverRefusal
  <2>2. lane \in Lane
    BY <1>1, <2>1, RolledOverLaneType
  <2>3. [lanes EXCEPT ![k] = lane] \in Lanes
    BY <1>1, <1>2, <2>2 DEF Lanes
  <2>4. /\ ~IsTerminal(RolledOver(lanes[k].position.epoch))
        /\ Committable(RolledOver(lanes[k].position.epoch), NoFrame, NoFrame # NoFrame)
    BY DEF IsTerminal, RolledOver, Committable
  <2> QED  BY <1>1, <1>3, <2>3, <2>4, AcceptLog
<1>4. CASE /\ refusal # "none"
           /\ Terminate("error", lanes, m, q, Rejected(refusal), NoFrame, refusal)
  <2>1. refusal \in Reasons
    BY <1>4, RefusalKinds DEF Reasons
  <2> QED  BY <1>1, <1>4, <2>1, RejectLog
<1> QED  BY <1>3, <1>4 DEF RolloverAt

LEMMA ClearHistoriesLog ==
  ASSUME IInv, LogInv, ClearHistories
  PROVE  LogInv'
<1>1. lanes \in Lanes /\ UNCHANGED <<log, fault>> /\ lanes' = Cleared(lanes)
  BY DEF IInv, Sound, ClearHistories
<1>2. \A k \in OpenKeys' : lanes'[k].tracks = NoTracks
  BY <1>1, ClearedTracks DEF OpenKeys
<1> QED  BY <1>1, <1>2 DEF LogInv, ReceiptChain, FailsClosed, WellShaped, log

LEMMA InitLog ==
  ASSUME Init
  PROVE  LogInv
  BY BoundsAssumption DEF Init, LogInv, ReceiptChain, FailsClosed, ZeroDigest

LEMMA NextLog ==
  ASSUME IInv, LogInv, [Next]_vars
  PROVE  LogInv'
<1>1. CASE \E f \in Frames : AssessFrame(f)
  BY <1>1, AssessFrameLog
<1>2. ASSUME NEW c \in Placed, AssessPositionedFrame(c[1], c[2])
      PROVE  LogInv'
  <2>1. c[1] \in Position /\ c[2] \in Frames
    BY DataAssumption
  <2> QED  BY <1>2, <2>1, AssessAtLog DEF AssessPositionedFrame
<1>3. ASSUME NEW m \in Producers, NEW q \in Positions,
             ResetAt(m, q) \/ TimeoutAt(m, q) \/ RolloverAt(m, q)
      PROVE  LogInv'
  BY <1>3, ControlResetLog, RolloverLog DEF ResetAt, TimeoutAt, ResetReasons
<1>4. CASE ControlUnknownProducer
  BY <1>4, FailSilentlyLog DEF ControlUnknownProducer, IInv
<1>5. CASE ClearHistories
  BY <1>5, ClearHistoriesLog
<1>6. CASE ReturnFault \/ UNCHANGED vars
  <2>1. UNCHANGED vars
    BY <1>6 DEF ReturnFault
  <2> QED  BY <2>1 DEF LogInv, ReceiptChain, FailsClosed, WellShaped, OpenKeys, vars, log
<1> QED  BY <1>1, <1>2, <1>3, <1>4, <1>5, <1>6 DEF Next

(* However many receipts the log has evicted, what it retains is one chain  *)
(* from the anchor to the last digest, without a hole and every receipt of  *)
(* it a shape the strict decoder takes back (commit_receipt).               *)
THEOREM LogIsAlwaysAChain == Spec => []ReceiptChain
<1>1. Init => IInv /\ LogInv
  BY InitInv, InitLog
<1>2. (IInv /\ LogInv) /\ [Next]_vars => (IInv /\ LogInv)'
  BY NextInv, NextLog
<1>3. IInv /\ LogInv => ReceiptChain
  BY DEF LogInv
<1> QED  BY <1>1, <1>2, <1>3, PTL DEF Spec

(* After the first terminal error nothing more is ever committed, the log's *)
(* terminal receipt names the latched error, and no window is left to feed  *)
(* an assessment (latch, reject_with_receipt, fault_with_receipt).          *)
THEOREM AlwaysFailsClosed == Spec => []FailsClosed
<1>1. Init => IInv /\ LogInv
  BY InitInv, InitLog
<1>2. (IInv /\ LogInv) /\ [Next]_vars => (IInv /\ LogInv)'
  BY NextInv, NextLog
<1>3. IInv /\ LogInv => FailsClosed
  BY DEF LogInv
<1> QED  BY <1>1, <1>2, <1>3, PTL DEF Spec
-----------------------------------------------------------------------------
(***************************************************************************)
(* The detector implements StreamAdmission.                                *)
(*                                                                         *)
(* A handler prepares lanes in which at most one stream has taken a legal  *)
(* position (Prepared); every ending of a call takes the prepared lanes    *)
(* and notes the coordinate; so a step either leaves every stream where it *)
(* is (Stays) or moves one (Moves).  The theorems follow from that one     *)
(* fact and from what a lane's used epochs say of its past.                *)
(***************************************************************************)

(* A position stream k may take next.                                       *)
LegalMove(k, q) ==
  \/ lanes[k] = NoLane /\ Cardinality(OpenKeys) < MaxStreams /\ q.gen = 0
  \/ /\ lanes[k] # NoLane
     /\ q.epoch = lanes[k].position.epoch
     /\ q.clock = lanes[k].position.clock
     /\ q.seq = lanes[k].position.seq + 1
     /\ q.gen \in {lanes[k].position.gen, lanes[k].position.gen + 1}
     /\ q.ts > lanes[k].position.ts
  \/ /\ lanes[k] # NoLane
     /\ q.clock = lanes[k].position.clock
     /\ q.seq = 0 /\ q.gen = 0
     /\ q.epoch \notin lanes[k].usedEpochs

EpochsWith(k, q) ==
  IF lanes[k] = NoLane THEN {q.epoch} ELSE lanes[k].usedEpochs \cup {q.epoch}

SamePlace(a, b) ==
  /\ a = NoLane <=> b = NoLane
  /\ a # NoLane => /\ a.position = b.position /\ a.usedEpochs = b.usedEpochs
                   /\ a.recent = b.recent

(* What stream k remembers of its epoch on its way to q, and at q.          *)
RecentBefore(k, q) ==
  IF lanes[k] = NoLane THEN <<>>
  ELSE IF q.epoch # lanes[k].position.epoch THEN <<>> ELSE lanes[k].recent

RecentAt(k, q, e) ==
  IF e = NoFrame THEN RecentBefore(k, q) ELSE Remember(RecentBefore(k, q), q, e)

(* Lane `lane' stands at q, reached from stream k's present place by        *)
(* assessing frame e, or by a control call or a frame never assessed.       *)
Reaches(k, lane, q, e) ==
  /\ lane # NoLane
  /\ LegalMove(k, q)
  /\ q \in Position /\ q.stream = k[2]
  /\ lane.position = q
  /\ lane.usedEpochs = EpochsWith(k, q)
  /\ lane.recent = RecentAt(k, q, e)

Prepared(next, e) ==
  \/ \A k \in Keys : SamePlace(lanes[k], next[k])
  \/ \E k \in Keys, q \in Position :
       /\ Reaches(k, next[k], q, e)
       /\ \A j \in Keys \ {k} : SamePlace(lanes[j], next[j])

Stays ==
  /\ admitted' = admitted
  /\ \A k \in Keys : SamePlace(lanes[k], lanes'[k])

Moves(k) ==
  \E q \in Position, e \in Frames \cup {NoFrame} :
    /\ Reaches(k, lanes'[k], q, e)
    /\ \A j \in Keys \ {k} : SamePlace(lanes[j], lanes'[j])
    /\ admitted' = [admitted EXCEPT ![k] =
                      @ \cup {[epoch |-> q.epoch, seq |-> q.seq, evidence |-> e]}]

Steps == Stays \/ \E k \in Keys : Moves(k)

StreamsBounded == IsFiniteSet(OpenKeys) /\ Cardinality(OpenKeys) <= MaxStreams

AInv == IInv /\ CoordinatesAccounted /\ StreamsBounded

-----------------------------------------------------------------------------
(* The endings of a call.                                                   *)

LEMMA ClearedPlaces ==
  ASSUME NEW next \in Lanes, NEW k \in Keys
  PROVE  /\ Cleared(next)[k] = NoLane <=> next[k] = NoLane
         /\ next[k] # NoLane => /\ Cleared(next)[k].position = next[k].position
                                /\ Cleared(next)[k].usedEpochs = next[k].usedEpochs
                                /\ Cleared(next)[k].recent = next[k].recent
<1>1. CASE next[k] = NoLane
  BY <1>1 DEF Cleared
<1>2. CASE next[k] # NoLane
  <2>1. next[k] \in Lane
    BY <1>2 DEF Lanes
  <2>2. Cleared(next)[k] = [next[k] EXCEPT !.tracks = NoTracks]
    BY <1>2 DEF Cleared
  <2>3. [next[k] EXCEPT !.tracks = NoTracks] \in Lane
    BY <2>1, NoTracksType DEF Lane
  <2> QED  BY <1>2, <2>1, <2>2, <2>3, DataAssumption DEF Lane
<1> QED  BY <1>1, <1>2

LEMMA LegalMoveIsNew ==
  ASSUME AInv, NEW k \in Keys, NEW q \in Position, LegalMove(k, q), lanes[k] # NoLane
  PROVE  q # lanes[k].position
<1>1. lanes[k] \in Lane
  BY DEF AInv, IInv, Sound, Lanes
<1>2. lanes[k].position \in Position /\ lanes[k].position.epoch \in lanes[k].usedEpochs
  BY <1>1 DEF AInv, CoordinatesAccounted, Lane
<1>3. lanes[k].position.seq \in Int
  BY <1>2, BoundsAssumption DEF Position
<1> QED  BY <1>2, <1>3 DEF LegalMove

LEMMA EndingSteps ==
  ASSUME AInv, NEW next \in Lanes, NEW e \in Frames \cup {NoFrame}, Prepared(next, e),
         Note(next, e), lanes' = next \/ lanes' = Cleared(next)
  PROVE  Steps
<1> DEFINE Fresh(k) == next[k] # NoLane /\ (lanes[k] = NoLane \/ next[k].position # lanes[k].position)
<1>1. \A k \in Keys : /\ lanes'[k] = NoLane <=> next[k] = NoLane
                      /\ next[k] # NoLane => /\ lanes'[k].position = next[k].position
                                             /\ lanes'[k].usedEpochs = next[k].usedEpochs
                                             /\ lanes'[k].recent = next[k].recent
  BY ClearedPlaces
<1>2. admitted \in [Keys -> SUBSET [epoch : Epochs, seq : 0..MaxSequence,
                                    evidence : Frames \cup {NoFrame}]]
  BY DEF AInv, IInv, TypeOK
<1>3. \A k \in Keys : SamePlace(lanes[k], next[k]) => ~Fresh(k)
  BY DEF SamePlace
<1>4. \A k \in Keys : SamePlace(lanes[k], next[k]) => SamePlace(lanes[k], lanes'[k])
  BY <1>1 DEF SamePlace
<1>5. \A k \in Keys : ~Fresh(k) => admitted'[k] = admitted[k]
  BY DEF Note
<1>6. DOMAIN admitted' = Keys /\ admitted' = [k \in Keys |-> admitted'[k]]
  BY DEF Note
<1>7. CASE \A k \in Keys : SamePlace(lanes[k], next[k])
  <2>1. \A k \in Keys : admitted'[k] = admitted[k]
    BY <1>3, <1>5, <1>7
  <2>2. admitted' = admitted
    BY <1>2, <1>6, <2>1
  <2> QED  BY <1>4, <1>7, <2>2 DEF Steps, Stays
<1>8. ASSUME NEW k \in Keys, NEW q \in Position, Reaches(k, next[k], q, e),
             \A j \in Keys \ {k} : SamePlace(lanes[j], next[j])
      PROVE  Moves(k)
  <2> DEFINE c == [epoch |-> q.epoch, seq |-> q.seq, evidence |-> e]
  <2>1. Fresh(k)
    BY <1>8, LegalMoveIsNew DEF Reaches
  <2>2. admitted'[k] = admitted[k] \cup {c}
    BY <1>8, <2>1 DEF Note, Reaches
  <2>3. \A j \in Keys \ {k} : admitted'[j] = admitted[j]
    BY <1>3, <1>5, <1>8
  <2>4. admitted' = [admitted EXCEPT ![k] = @ \cup {c}]
    BY <1>2, <1>6, <2>2, <2>3
  <2>5. Reaches(k, lanes'[k], q, e)
    BY <1>1, <1>8 DEF Reaches
  <2>6. \A j \in Keys \ {k} : SamePlace(lanes[j], lanes'[j])
    BY <1>4, <1>8
  <2> QED  BY <2>4, <2>5, <2>6 DEF Moves
<1> QED  BY <1>7, <1>8 DEF Prepared, Steps

LEMMA StandingStillPrepared ==
  ASSUME NEW k \in Keys
  PROVE  SamePlace(lanes[k], lanes[k]) /\ \A e : Prepared(lanes, e)
  BY DEF SamePlace, Prepared

LEMMA AcceptSteps ==
  ASSUME AInv, NEW error, NEW next \in Lanes, NEW m, NEW q, NEW t,
         NEW e \in Frames \cup {NoFrame}, Prepared(next, e), NEW a, Accept(error, next, m, q, t, e, a)
  PROVE  Steps
<1>1. Note(next, e) /\ (lanes' = next \/ lanes' = Cleared(next))
  BY DEF Accept, Latch
<1> QED  BY <1>1, EndingSteps

LEMMA TerminateSteps ==
  ASSUME AInv, NEW error, NEW next \in Lanes, Prepared(next, NoFrame), NEW m, NEW q, NEW t,
         NEW f, NEW reason, Terminate(error, next, m, q, t, f, reason)
  PROVE  Steps
<1>1. Note(next, NoFrame) /\ lanes' = Cleared(next)
  BY DEF Terminate, Latch
<1> QED  BY <1>1, EndingSteps

LEMMA ClearingSteps ==
  ASSUME AInv, lanes' = Cleared(lanes), admitted' = admitted
  PROVE  Steps
<1>1. lanes \in Lanes
  BY DEF AInv, IInv, Sound
<1>2. \A k \in Keys : SamePlace(lanes[k], lanes'[k])
  BY <1>1, ClearedPlaces DEF SamePlace
<1> QED  BY <1>2 DEF Steps, Stays

LEMMA FailSilentlySteps ==
  ASSUME AInv, NEW error, NEW reason, FailSilently(error, reason)
  PROVE  Steps
<1>1. lanes' = Cleared(lanes) /\ admitted' = admitted
  BY DEF FailSilently, Latch
<1> QED  BY <1>1, ClearingSteps

-----------------------------------------------------------------------------
(* What the handlers prepare.                                               *)

LEMMA OneLanePrepared ==
  ASSUME AInv, NEW k \in Keys, NEW lane,
         NEW e, \/ SamePlace(lanes[k], lane)
                \/ \E q \in Position : Reaches(k, lane, q, e)
  PROVE  Prepared([lanes EXCEPT ![k] = lane], e)
<1> DEFINE next == [lanes EXCEPT ![k] = lane]
<1>1. next[k] = lane /\ \A j \in Keys \ {k} : next[j] = lanes[j]
  BY DEF AInv, IInv, Sound, Lanes
<1>2. \A j \in Keys \ {k} : SamePlace(lanes[j], next[j])
  BY <1>1, StandingStillPrepared
<1> QED  BY <1>1, <1>2 DEF Prepared

LEMMA AssessedPlace ==
  ASSUME NEW lane \in Lane, NEW q \in Position, NEW f \in Frames
  PROVE  LET assessed == AssessedLane(lane, q, f) IN
         /\ assessed # NoLane
         /\ assessed.position = q /\ assessed.usedEpochs = lane.usedEpochs
         /\ assessed.recent = Remember(lane.recent, q, f)
<1>1. AssessedLane(lane, q, f) \in Lane
  BY AssessedLaneType
<1> QED  BY <1>1, DataAssumption DEF AssessedLane, Lane

(* An admitted frame's position is a legal move, and only an opening or a   *)
(* rollover takes it before the frame is assessed.                          *)
LEMMA AppliedLanePlace ==
  ASSUME AInv, NEW k \in Keys, NEW q \in Position, NEW f \in Frames,
         q.stream = k[2], AdmissionRefusal(k, q, f) = "none"
  PROVE  LET lane == AppliedLane(k, q, AdmissionOf(k, q, f)) IN
         /\ LegalMove(k, q)
         /\ lane \in Lane
         /\ lane.usedEpochs = EpochsWith(k, q) /\ lane.recent = RecentBefore(k, q)
         /\ SamePlace(lanes[k], lane) \/ Reaches(k, lane, q, NoFrame)
<1> DEFINE t == AdmissionOf(k, q, f)
           lane == AppliedLane(k, q, t)
<1>1. lanes[k] \in Lane \cup {NoLane}
  BY DEF AInv, IInv, Sound, Lanes
<1>2. CASE lanes[k] = NoLane
  <2>1. lane = NewLane(q)
    BY <1>2 DEF AdmissionOf, AppliedLane, Initialized
  <2>2. lane \in Lane /\ lane.position = q /\ lane.usedEpochs = {q.epoch} /\ lane.recent = <<>>
    BY <2>1, NewLaneType DEF NewLane
  <2>3. q.gen = 0 /\ ~(Cardinality(OpenKeys) >= MaxStreams)
    BY <1>2 DEF AdmissionRefusal
  <2>4. Cardinality(OpenKeys) < MaxStreams
    <3>1. Cardinality(OpenKeys) \in Nat
      BY FS_CardinalityType DEF AInv, StreamsBounded
    <3> QED  BY <2>3, <3>1, BoundsAssumption
  <2>5. LegalMove(k, q) /\ lane.usedEpochs = EpochsWith(k, q)
    BY <1>2, <2>2, <2>3, <2>4 DEF LegalMove, EpochsWith
  <2>6. lane # NoLane
    BY <2>2, DataAssumption
  <2>7. lane.recent = RecentBefore(k, q)
    BY <1>2, <2>2 DEF RecentBefore
  <2>8. Reaches(k, lane, q, NoFrame)
    BY <2>2, <2>5, <2>6, <2>7 DEF Reaches, RecentAt
  <2> QED  BY <2>2, <2>5, <2>7, <2>8
<1>3. CASE lanes[k] # NoLane /\ q.epoch # lanes[k].position.epoch
  <2>1. RolloverRefusal(k, q) = "none"
    BY <1>3 DEF AdmissionRefusal
  <2>2. /\ q.epoch \notin lanes[k].usedEpochs /\ q.seq = 0 /\ q.gen = 0
        /\ q.clock = lanes[k].position.clock
    BY <1>3, <2>1 DEF RolloverRefusal
  <2>3. lane = RolledOverLane(lanes[k], q)
    BY <1>3 DEF AdmissionOf, AppliedLane, RolledOver
  <2>4. /\ lane \in Lane /\ lane.position = q /\ lane.recent = <<>>
        /\ lane.usedEpochs = lanes[k].usedEpochs \cup {q.epoch}
    BY <1>1, <1>3, <2>3, RolledOverLaneType DEF RolledOverLane
  <2>5. lane.recent = RecentBefore(k, q)
    BY <1>3, <2>4 DEF RecentBefore
  <2> QED  BY <1>3, <2>2, <2>4, <2>5, DataAssumption DEF LegalMove, EpochsWith, Reaches, RecentAt
<1>4. CASE lanes[k] # NoLane /\ q.epoch = lanes[k].position.epoch
  <2> DEFINE p == lanes[k].position
  <2>1. p \in Position /\ lanes[k] \in Lane /\ p.epoch \in lanes[k].usedEpochs
    BY <1>1, <1>4 DEF AInv, CoordinatesAccounted, Lane
  <2>2. /\ p.seq \in Int /\ p.ts \in Int /\ p.gen \in Int
        /\ q.seq \in Int /\ q.ts \in Int /\ q.gen \in Int
    BY <2>1, BoundsAssumption DEF Position
  <2>3. /\ q.clock = p.clock /\ ~(q.seq <= p.seq) /\ q.seq = p.seq + 1 /\ ~(q.ts <= p.ts)
        /\ GenerationRefusal(lanes[k], q, ContinuityResetReasons(lanes[k], f)) = "none"
    <3>1. q.clock = p.clock
      BY <1>4 DEF AdmissionRefusal
    <3>2. ~(q.seq <= p.seq)
      BY <1>4, <3>1 DEF AdmissionRefusal, ReplayRefusal
    <3> QED  BY <1>4, <3>1, <3>2 DEF AdmissionRefusal
  <2>4. q.gen \in {p.gen, p.gen + 1}
    BY <2>3 DEF GenerationRefusal
  <2>5. LegalMove(k, q)
    BY <1>4, <2>2, <2>3, <2>4 DEF LegalMove
  <2>6. lane = lanes[k] \/ lane = [lanes[k] EXCEPT !.tracks = NoTracks]
    BY <1>4 DEF AdmissionOf, AppliedLane, Advanced, ResetFor
  <2>7. /\ lane \in Lane /\ lane.position = p /\ lane.usedEpochs = lanes[k].usedEpochs
        /\ lane.recent = lanes[k].recent
    BY <2>1, <2>6, NoTracksType DEF Lane
  <2>8. SamePlace(lanes[k], lane)
    BY <1>4, <2>7, DataAssumption DEF SamePlace
  <2>9. lane.usedEpochs = EpochsWith(k, q)
    BY <1>4, <2>1, <2>7 DEF EpochsWith
  <2>10. lane.recent = RecentBefore(k, q)
    BY <1>4, <2>7 DEF RecentBefore
  <2> QED  BY <2>5, <2>7, <2>8, <2>9, <2>10
<1> QED  BY <1>2, <1>3, <1>4

LEMMA AdmitsSteps ==
  ASSUME AInv, NEW error, NEW q \in Position, NEW f \in Frames,
         AdmissionRefusal(<<f.producer, q.stream>>, q, f) = "none", Admits(error, q, f)
  PROVE  Steps
<1> DEFINE k == <<f.producer, q.stream>>
           t == AdmissionOf(k, q, f)
           lane == AppliedLane(k, q, t)
           assessed == AssessedLane(lane, q, f)
<1>1. k \in Keys /\ k[2] = q.stream
  BY FrameType DEF Keys, Position
<1>2. /\ LegalMove(k, q) /\ lane \in Lane
      /\ lane.usedEpochs = EpochsWith(k, q) /\ lane.recent = RecentBefore(k, q)
      /\ SamePlace(lanes[k], lane) \/ Reaches(k, lane, q, NoFrame)
  BY <1>1, AppliedLanePlace
<1>3. lanes \in Lanes
  BY DEF AInv, IInv, Sound
<1>4. CASE Accept(error, [lanes EXCEPT ![k] = assessed], f.producer, q, t, f,
                  Assessments(lane, q, f, t))
  <2>1. assessed \in Lane
    BY <1>2, AssessedLaneType
  <2>2. Reaches(k, assessed, q, f)
    BY <1>1, <1>2, AssessedPlace, DataAssumption DEF Reaches, RecentAt
  <2>3. Prepared([lanes EXCEPT ![k] = assessed], f)
    BY <1>1, <2>2, OneLanePrepared
  <2>4. [lanes EXCEPT ![k] = assessed] \in Lanes
    BY <1>1, <1>3, <2>1 DEF Lanes
  <2> QED  BY <1>4, <2>3, <2>4, AcceptSteps
<1>5. CASE Terminate(error, [lanes EXCEPT ![k] = lane], f.producer, q,
                     Faulted("Assessment"), f, "Assessment")
  <2>1. Prepared([lanes EXCEPT ![k] = lane], NoFrame)
    BY <1>1, <1>2, OneLanePrepared
  <2>2. [lanes EXCEPT ![k] = lane] \in Lanes
    BY <1>1, <1>2, <1>3 DEF Lanes
  <2> QED  BY <1>5, <2>1, <2>2, TerminateSteps
<1> QED  BY <1>4, <1>5 DEF Admits

LEMMA AssessAtSteps ==
  ASSUME AInv, NEW error, NEW q \in Position, NEW f \in Frames, AssessAt(error, q, f)
  PROVE  Steps
<1>1. lanes \in Lanes /\ Prepared(lanes, NoFrame)
  BY DEF AInv, IInv, Sound, Prepared, SamePlace
<1>2. CASE FailSilently(error, "InvalidFrame")
  BY <1>2, FailSilentlySteps
<1>3. ASSUME NEW t, NEW reason, Terminate(error, lanes, f.producer, q, t, f, reason)
      PROVE  Steps
  BY <1>1, <1>3, TerminateSteps
<1>4. CASE AdmissionRefusal(<<f.producer, q.stream>>, q, f) = "none" /\ Admits(error, q, f)
  BY <1>4, AdmitsSteps
<1> QED  BY <1>2, <1>3, <1>4 DEF AssessAt

LEMMA AssessFrameSteps ==
  ASSUME AInv, NEW f \in Frames, AssessFrame(f)
  PROVE  Steps
<1>1. CASE FailSilently("frame_error", "InvalidFrame") \/ FailSilently("frame_error", "InvalidPosition")
  BY <1>1, FailSilentlySteps
<1>2. CASE LegacyPositionValid(f) /\ AssessAt("frame_error", LegacyPosition(f), f)
  BY <1>2, LegacyPositionType, AssessAtSteps DEF AInv
<1> QED  BY <1>1, <1>2 DEF AssessFrame

LEMMA ControlResetSteps ==
  ASSUME AInv, NEW m \in Producers, NEW q \in Positions, NEW reason, ControlReset(m, q, reason)
  PROVE  Steps
<1> DEFINE k == <<m, q.stream>>
           lane == [lanes[k] EXCEPT !.position = q, !.tracks = NoTracks, !.lastFrame = NoContext]
<1>1. q \in Position /\ lanes \in Lanes /\ Prepared(lanes, NoFrame)
  BY DataAssumption DEF AInv, IInv, Sound, Prepared, SamePlace
<1>2. k \in Keys /\ k[2] = q.stream
  BY <1>1 DEF Keys, Position
<1>3. CASE /\ lanes[k] # NoLane /\ IsCheckedReset(lanes[k].position, q)
           /\ Accept("error", [lanes EXCEPT ![k] = lane], m, q, ResetFor({reason}), NoFrame, <<>>)
  <2> DEFINE p == lanes[k].position
  <2>1. lanes[k] \in Lane /\ p \in Position /\ p.epoch \in lanes[k].usedEpochs
    BY <1>1, <1>2, <1>3 DEF Lanes, Lane, AInv, CoordinatesAccounted
  <2>2. /\ q.ts > p.ts /\ q.epoch = p.epoch /\ q.clock = p.clock
        /\ q.seq = p.seq + 1 /\ q.gen = p.gen + 1
    BY <1>3, <2>1 DEF IsCheckedReset, Position
  <2>3. LegalMove(k, q) /\ lanes[k].usedEpochs = EpochsWith(k, q)
    BY <1>3, <2>1, <2>2 DEF LegalMove, EpochsWith
  <2>4. /\ lane \in Lane /\ lane.position = q /\ lane.usedEpochs = lanes[k].usedEpochs
        /\ lane.recent = lanes[k].recent
    BY <1>1, <2>1, NoTracksType DEF Lane
  <2>5. Reaches(k, lane, q, NoFrame)
    BY <1>1, <1>2, <1>3, <2>2, <2>3, <2>4, DataAssumption DEF Reaches, RecentAt, RecentBefore
  <2>6. Prepared([lanes EXCEPT ![k] = lane], NoFrame) /\ [lanes EXCEPT ![k] = lane] \in Lanes
    BY <1>1, <1>2, <2>4, <2>5, OneLanePrepared DEF Lanes
  <2> QED  BY <1>3, <2>6, AcceptSteps
<1>4. CASE Terminate("error", lanes, m, q, Rejected("InvalidResetSuccessor"),
                     NoFrame, "InvalidResetSuccessor")
  BY <1>1, <1>4, TerminateSteps
<1> QED  BY <1>3, <1>4 DEF ControlReset

LEMMA RolloverSteps ==
  ASSUME AInv, NEW m \in Producers, NEW q \in Positions, RolloverAt(m, q)
  PROVE  Steps
<1> DEFINE k == <<m, q.stream>>
           lane == RolledOverLane(lanes[k], q)
           refusal == RolloverRefusal(k, q)
<1>1. q \in Position /\ lanes \in Lanes /\ Prepared(lanes, NoFrame)
  BY DataAssumption DEF AInv, IInv, Sound, Prepared, SamePlace
<1>2. k \in Keys /\ k[2] = q.stream
  BY <1>1 DEF Keys, Position
<1>3. CASE /\ refusal = "none"
           /\ Accept("error", [lanes EXCEPT ![k] = lane], m, q,
                     RolledOver(lanes[k].position.epoch), NoFrame, <<>>)
  <2>1. /\ lanes[k] # NoLane /\ q.epoch \notin lanes[k].usedEpochs
        /\ q.seq = 0 /\ q.gen = 0 /\ q.clock = lanes[k].position.clock
    BY <1>3 DEF RolloverRefusal
  <2>2. lane \in Lane
    BY <1>1, <1>2, <2>1, RolledOverLaneType DEF Lanes
  <2>3. lane.position = q /\ lane.usedEpochs = EpochsWith(k, q) /\ LegalMove(k, q)
    BY <2>1 DEF RolledOverLane, EpochsWith, LegalMove
  <2>4. lane.recent = <<>> /\ RecentBefore(k, q) = <<>>
    BY <1>3 DEF RolledOverLane, RecentBefore, RolloverRefusal
  <2>5. Reaches(k, lane, q, NoFrame)
    BY <1>1, <1>2, <2>2, <2>3, <2>4, DataAssumption DEF Reaches, RecentAt
  <2>6. Prepared([lanes EXCEPT ![k] = lane], NoFrame) /\ [lanes EXCEPT ![k] = lane] \in Lanes
    BY <1>1, <1>2, <2>2, <2>5, OneLanePrepared DEF Lanes
  <2> QED  BY <1>3, <2>6, AcceptSteps
<1>4. CASE Terminate("error", lanes, m, q, Rejected(refusal), NoFrame, refusal)
  BY <1>1, <1>4, TerminateSteps
<1> QED  BY <1>3, <1>4 DEF RolloverAt

-----------------------------------------------------------------------------
(* A step moves at most one stream, and after the first fault none.         *)

LEMMA NextSteps ==
  ASSUME AInv, [Next]_vars
  PROVE  /\ Steps
         /\ fault # NoFault => Stays /\ fault' = fault
<1>1. ASSUME NEW f \in Frames, AssessFrame(f)
      PROVE  Steps /\ fault = NoFault
  BY <1>1, AssessFrameSteps DEF AssessFrame
<1>2. ASSUME NEW c \in Placed, AssessPositionedFrame(c[1], c[2])
      PROVE  Steps /\ fault = NoFault
  <2>1. c[1] \in Position /\ c[2] \in Frames
    BY DataAssumption
  <2> QED  BY <1>2, <2>1, AssessAtSteps DEF AssessPositionedFrame
<1>3. ASSUME NEW m \in Producers, NEW q \in Positions,
             ResetAt(m, q) \/ TimeoutAt(m, q) \/ RolloverAt(m, q)
      PROVE  Steps /\ fault = NoFault
  BY <1>3, ControlResetSteps, RolloverSteps DEF ResetAt, TimeoutAt, ControlReset, RolloverAt
<1>4. CASE ControlUnknownProducer
  BY <1>4, FailSilentlySteps DEF ControlUnknownProducer
<1>5. CASE ClearHistories
  <2>1. lanes' = Cleared(lanes) /\ admitted' = admitted /\ fault' = fault
    BY <1>5 DEF ClearHistories
  <2>2. \A k \in Keys : SamePlace(lanes[k], lanes'[k])
    BY <2>1, ClearedPlaces DEF SamePlace, AInv, IInv, Sound
  <2> QED  BY <2>1, <2>2 DEF Steps, Stays
<1>6. CASE ReturnFault \/ UNCHANGED vars
  <2>1. UNCHANGED vars
    BY <1>6 DEF ReturnFault
  <2> QED  BY <2>1 DEF Steps, Stays, SamePlace, vars
<1> QED  BY <1>1, <1>2, <1>3, <1>4, <1>5, <1>6 DEF Next

LEMMA StaysOpen ==
  ASSUME Stays
  PROVE  OpenKeys' = OpenKeys
  BY DEF Stays, SamePlace, OpenKeys

LEMMA MovesOpen ==
  ASSUME NEW k \in Keys, Moves(k)
  PROVE  OpenKeys' = OpenKeys \cup {k}
  BY DEF Moves, Reaches, SamePlace, OpenKeys

LEMMA StaysAccounted ==
  ASSUME AInv, Stays
  PROVE  CoordinatesAccounted' /\ StreamsBounded'
<1>1. CoordinatesAccounted'
  BY DEF AInv, CoordinatesAccounted, Stays, SamePlace
<1> QED  BY <1>1, StaysOpen DEF AInv, StreamsBounded

LEMMA MovesAccounted ==
  ASSUME AInv, NEW k \in Keys, Moves(k)
  PROVE  CoordinatesAccounted' /\ StreamsBounded'
<1> PICK q \in Position, e \in Frames \cup {NoFrame} :
      /\ Reaches(k, lanes'[k], q, e)
      /\ \A j \in Keys \ {k} : SamePlace(lanes[j], lanes'[j])
      /\ admitted' = [admitted EXCEPT ![k] =
                        @ \cup {[epoch |-> q.epoch, seq |-> q.seq, evidence |-> e]}]
  BY DEF Moves
<1> DEFINE c == [epoch |-> q.epoch, seq |-> q.seq, evidence |-> e]
           Accounted(j) ==
             IF lanes[j] = NoLane THEN admitted[j] = {}
             ELSE /\ lanes[j].position.stream = j[2]
                  /\ lanes[j].usedEpochs = {d.epoch : d \in admitted[j]}
                  /\ lanes[j].position.epoch \in lanes[j].usedEpochs
                  /\ \A d \in admitted[j] :
                       d.epoch = lanes[j].position.epoch => d.seq <= lanes[j].position.seq
<1>1. \A j \in Keys : Accounted(j)
  BY DEF AInv, CoordinatesAccounted
<1>2. admitted \in [Keys -> SUBSET [epoch : Epochs, seq : 0..MaxSequence,
                                    evidence : Frames \cup {NoFrame}]]
  BY DEF AInv, IInv, TypeOK
<1>3. admitted'[k] = admitted[k] \cup {c} /\ \A j \in Keys \ {k} : admitted'[j] = admitted[j]
  BY <1>2
<1>4. \A j \in Keys \ {k} : Accounted(j)'
  BY <1>1, <1>3 DEF SamePlace
<1>5. /\ lanes'[k] # NoLane /\ lanes'[k].position = q /\ q.stream = k[2]
      /\ lanes'[k].usedEpochs = EpochsWith(k, q)
  BY DEF Reaches
<1>6. q.seq \in Int
  BY BoundsAssumption DEF Position
<1>7. Accounted(k)'
  <2>1. EpochsWith(k, q) = {d.epoch : d \in admitted'[k]}
    <3>1. {d.epoch : d \in admitted'[k]} = {d.epoch : d \in admitted[k]} \cup {q.epoch}
      <4>1. c.epoch = q.epoch
        OBVIOUS
      <4> HIDE DEF c
      <4> QED  BY <1>3, <4>1
    <3>2. CASE lanes[k] = NoLane
      <4>1. admitted[k] = {}
        BY <1>1, <3>2
      <4> QED  BY <3>1, <3>2, <4>1 DEF EpochsWith
    <3>3. CASE lanes[k] # NoLane
      <4>1. lanes[k].usedEpochs = {d.epoch : d \in admitted[k]}
        BY <1>1, <3>3
      <4> QED  BY <3>1, <3>3, <4>1 DEF EpochsWith
    <3> QED  BY <3>2, <3>3
  <2>2. q.epoch \in EpochsWith(k, q)
    BY DEF EpochsWith
  <2>3. ASSUME NEW d \in admitted[k], d.epoch = q.epoch
        PROVE  d.seq <= q.seq
    <3>1. lanes[k] # NoLane /\ d.epoch \in lanes[k].usedEpochs
      BY <1>1, <2>3
    <3>2. q.epoch = lanes[k].position.epoch /\ q.seq = lanes[k].position.seq + 1
      BY <2>3, <3>1 DEF Reaches, LegalMove
    <3>3. lanes[k].position.seq \in Int
      BY <3>1, BoundsAssumption DEF AInv, IInv, Sound, Lanes, Lane, Position
    <3>4. d.seq \in Int /\ d.seq <= lanes[k].position.seq
      BY <1>1, <1>2, <2>3, <3>1, <3>2, BoundsAssumption
    <3> QED  BY <3>2, <3>3, <3>4
  <2>4. \A d \in admitted'[k] : d.epoch = q.epoch => d.seq <= q.seq
    BY <1>3, <1>6, <2>3
  <2> QED  BY <1>5, <2>1, <2>2, <2>4
<1>8. CoordinatesAccounted'
  BY <1>4, <1>7 DEF CoordinatesAccounted
<1>9. StreamsBounded'
  <2>1. OpenKeys' = OpenKeys \cup {k}
    BY MovesOpen
  <2>2. CASE lanes[k] # NoLane
    BY <2>1, <2>2 DEF OpenKeys, AInv, StreamsBounded
  <2>3. CASE lanes[k] = NoLane
    <3>1. k \notin OpenKeys /\ Cardinality(OpenKeys) < MaxStreams
      BY <2>3 DEF OpenKeys, Reaches, LegalMove
    <3>2. /\ IsFiniteSet(OpenKeys \cup {k})
          /\ Cardinality(OpenKeys \cup {k}) = Cardinality(OpenKeys) + 1
      BY <3>1, FS_AddElement DEF AInv, StreamsBounded
    <3>3. Cardinality(OpenKeys) \in Nat
      BY FS_CardinalityType DEF AInv, StreamsBounded
    <3> QED  BY <2>1, <3>1, <3>2, <3>3, BoundsAssumption DEF StreamsBounded
  <2> QED  BY <2>2, <2>3
<1> QED  BY <1>8, <1>9

LEMMA InitAccounted ==
  ASSUME Init
  PROVE  AInv
<1>1. OpenKeys = {} /\ CoordinatesAccounted
  BY DEF Init, OpenKeys, CoordinatesAccounted
<1>2. StreamsBounded
  BY <1>1, FS_EmptySet, BoundsAssumption DEF StreamsBounded
<1> QED  BY <1>1, <1>2, InitInv DEF AInv

LEMMA NextAccounted ==
  ASSUME AInv, [Next]_vars
  PROVE  AInv'
<1>1. Stays \/ \E k \in Keys : Moves(k)
  BY NextSteps DEF Steps
<1>2. CoordinatesAccounted' /\ StreamsBounded'
  BY <1>1, StaysAccounted, MovesAccounted
<1> QED  BY <1>2, NextInv DEF AInv

(* No stream ever stands in an epoch, or at a sequence, that the record of  *)
(* the coordinates it took does not bear out (classify_rollover,            *)
(* apply_admission, control_reset).                                         *)
THEOREM CoordinatesAlwaysAccounted == Spec => []CoordinatesAccounted
<1>1. AInv => CoordinatesAccounted
  BY DEF AInv
<1> QED  BY <1>1, InitAccounted, NextAccounted, PTL DEF Spec

LEMMA MoveIsFresh ==
  ASSUME AInv, NEW k \in Keys, NEW q \in Position, LegalMove(k, q)
  PROVE  \A c \in admitted[k] : <<c.epoch, c.seq>> # <<q.epoch, q.seq>>
<1> SUFFICES ASSUME NEW c \in admitted[k], c.epoch = q.epoch
             PROVE  c.seq # q.seq
  OBVIOUS
<1>1. lanes[k] # NoLane /\ c.epoch \in lanes[k].usedEpochs
  BY DEF AInv, CoordinatesAccounted
<1>2. q.epoch = lanes[k].position.epoch /\ q.seq = lanes[k].position.seq + 1
  BY <1>1 DEF LegalMove
<1>3. lanes[k].position.seq \in 0..MaxSequence
  <2>1. lanes[k] \in Lane
    BY <1>1 DEF AInv, IInv, Sound, Lanes
  <2>2. lanes[k].position \in Position
    BY <2>1 DEF Lane
  <2> QED  BY <2>2 DEF Position
<1>4. c.seq \in 0..MaxSequence
  <2>1. admitted[k] \subseteq [epoch : Epochs, seq : 0..MaxSequence,
                               evidence : Frames \cup {NoFrame}]
    BY DEF AInv, IInv, TypeOK
  <2> QED  BY <2>1
<1>5. c.seq <= lanes[k].position.seq
  BY <1>1, <1>2 DEF AInv, CoordinatesAccounted
<1> QED  BY <1>2, <1>3, <1>4, <1>5, BoundsAssumption

(* No stream ever takes the same epoch and sequence twice (the admission of *)
(* frames, control resets and rollovers together).                          *)
THEOREM NeverTakenTwice == Spec => NeverTwice
<1> DEFINE Fresh(k) ==
             (lanes'[k] # NoLane /\ (lanes[k] = NoLane \/ lanes'[k].position # lanes[k].position)) =>
               \A c \in admitted[k] :
                 <<c.epoch, c.seq>> # <<lanes'[k].position.epoch, lanes'[k].position.seq>>
<1>1. ASSUME AInv, [Next]_vars, NEW k \in Keys
      PROVE  Fresh(k)
  <2>1. CASE SamePlace(lanes[k], lanes'[k])
    BY <2>1 DEF SamePlace
  <2>2. CASE Moves(k)
    <3>1. PICK q \in Position : LegalMove(k, q) /\ lanes'[k].position = q
      BY <2>2 DEF Moves, Reaches
    <3> QED  BY <1>1, <3>1, MoveIsFresh
  <2>3. SamePlace(lanes[k], lanes'[k]) \/ Moves(k)
    BY <1>1, NextSteps DEF Steps, Stays, Moves
  <2> QED  BY <2>1, <2>2, <2>3
<1>2. AInv /\ [Next]_vars => [\A k \in Keys : Fresh(k)]_vars
  BY <1>1
<1> QED  BY <1>2, InitAccounted, NextAccounted, PTL DEF Spec, NeverTwice

-----------------------------------------------------------------------------
(* The refinement.                                                          *)

At == [k \in Keys |-> IF lanes[k] = NoLane THEN NoLane ELSE lanes[k].position]
Spent == [k \in Keys |-> {<<c.epoch, c.seq>> : c \in admitted[k]}]

LEMMA PositionIsNoHole ==
  ASSUME AInv, NEW k \in Keys
  PROVE  lanes[k] # NoLane => lanes[k].position \in Position /\ lanes[k].position # NoLane
  BY DataAssumption DEF AInv, IInv, Sound, Lanes, Lane

LEMMA OpenedIsOpen ==
  ASSUME AInv
  PROVE  /\ Promise!Opened = OpenKeys
         /\ \A k \in Keys : At[k] = NoLane <=> lanes[k] = NoLane
  BY PositionIsNoHole DEF Promise!Opened, OpenKeys, At

LEMMA PromiseCardinality ==
  ASSUME NEW S
  PROVE  Promise!Cardinality(S) = Cardinality(S)
  BY DEF Promise!Cardinality, Cardinality

LEMMA StaysMapsToStutter ==
  ASSUME Stays
  PROVE  At' = At /\ Spent' = Spent
  BY DEF Stays, SamePlace, At, Spent

LEMMA MovesMapsToMove ==
  ASSUME AInv, NEW k \in Keys, Moves(k)
  PROVE  Promise!Move(k)
<1> PICK q \in Position, e \in Frames \cup {NoFrame} :
      /\ Reaches(k, lanes'[k], q, e)
      /\ \A j \in Keys \ {k} : SamePlace(lanes[j], lanes'[j])
      /\ admitted' = [admitted EXCEPT ![k] =
                        @ \cup {[epoch |-> q.epoch, seq |-> q.seq, evidence |-> e]}]
  BY DEF Moves
<1> DEFINE c == [epoch |-> q.epoch, seq |-> q.seq, evidence |-> e]
<1>1. q # NoLane /\ At'[k] = q
  BY DataAssumption DEF Reaches, At
<1>2. Promise!Opens(k, q) \/ Promise!Continues(k, q) \/ Promise!RollsOver(k, q)
  <2>1. CASE lanes[k] = NoLane
    <3>1. Cardinality(OpenKeys) < MaxStreams /\ q.gen = 0
      BY <2>1 DEF Reaches, LegalMove
    <3>2. Promise!Cardinality(Promise!Opened) < MaxStreams
      BY <3>1, OpenedIsOpen, PromiseCardinality
    <3>3. At[k] = NoLane
      BY <2>1 DEF At
    <3> QED  BY <3>1, <3>2, <3>3 DEF Promise!Opens, At
  <2>2. CASE /\ lanes[k] # NoLane
             /\ q.epoch = lanes[k].position.epoch
             /\ q.clock = lanes[k].position.clock
             /\ q.seq = lanes[k].position.seq + 1
             /\ q.gen \in {lanes[k].position.gen, lanes[k].position.gen + 1}
             /\ q.ts > lanes[k].position.ts
    BY <2>2, PositionIsNoHole DEF Promise!Continues
  <2>3. CASE /\ lanes[k] # NoLane
             /\ q.clock = lanes[k].position.clock
             /\ q.seq = 0 /\ q.gen = 0
             /\ q.epoch \notin lanes[k].usedEpochs
    <3>1. \A d \in admitted[k] : d.epoch # q.epoch
      BY <2>3 DEF AInv, CoordinatesAccounted
    <3> QED  BY <2>3, <3>1, PositionIsNoHole DEF Promise!RollsOver
  <2> QED  BY <2>1, <2>2, <2>3 DEF Reaches, LegalMove
<1>3. At' = [At EXCEPT ![k] = q]
  BY <1>1 DEF At, SamePlace
<1>4. Spent' = [Spent EXCEPT ![k] = @ \cup {<<q.epoch, q.seq>>}]
  <2>1. admitted \in [Keys -> SUBSET [epoch : Epochs, seq : 0..MaxSequence,
                                      evidence : Frames \cup {NoFrame}]]
    BY DEF AInv, IInv, TypeOK
  <2>2. admitted'[k] = admitted[k] \cup {c} /\ \A j \in Keys \ {k} : admitted'[j] = admitted[j]
    BY <2>1
  <2>3. c.epoch = q.epoch /\ c.seq = q.seq
    OBVIOUS
  <2>4. Spent'[k] = Spent[k] \cup {<<q.epoch, q.seq>>}
    <3> HIDE DEF c
    <3> QED  BY <2>2, <2>3 DEF Spent
  <2>5. \A j \in Keys \ {k} : Spent'[j] = Spent[j]
    BY <2>2 DEF Spent
  <2> QED  BY <2>4, <2>5 DEF Spent
<1> QED  BY <1>1, <1>2, <1>3, <1>4 DEF Promise!Move, At, Spent

(* The detector implements StreamAdmission: a call takes at most one stream *)
(* to one legal position, the first terminal error halts the boundary for   *)
(* good, and what happens after it moves nothing.                           *)
THEOREM ImplementsAdmission == Spec => ImplementsStreamAdmission
<1>1. Init => Promise!Init
  BY DEF Init, Promise!Init
<1>2. ASSUME AInv, [Next]_vars
      PROVE  [Promise!Next]_(Promise!vars)
  <2>1. Stays \/ \E k \in Keys : Moves(k)
    BY <1>2, NextSteps DEF Steps
  <2>2. fault # NoFault => Stays /\ fault' = fault
    BY <1>2, NextSteps
  <2>3. CASE Stays /\ ((fault # NoFault) <=> (fault # NoFault)')
    BY <2>3, StaysMapsToStutter DEF Promise!vars, At, Spent
  <2>4. CASE fault = NoFault /\ fault' # NoFault
    BY <1>2, <2>1, <2>4, StaysMapsToStutter, MovesMapsToMove
       DEF Promise!Next, Promise!Halt, At, Spent
  <2>5. CASE fault = NoFault /\ fault' = NoFault /\ \E k \in Keys : Moves(k)
    BY <1>2, <2>5, MovesMapsToMove DEF Promise!Next, Promise!Admit
  <2> QED  BY <2>1, <2>2, <2>3, <2>4, <2>5
<1> QED  BY <1>1, <1>2, InitAccounted, NextAccounted, PTL
            DEF Spec, ImplementsStreamAdmission, Promise!Spec

-----------------------------------------------------------------------------
(* Retention.                                                               *)

Windowed(lane) == {t \in Tracks : lane.tracks[t] # <<>>}

LaneBounded(lane) ==
  /\ IsFiniteSet(lane.usedEpochs) /\ Cardinality(lane.usedEpochs) <= MaxEpochs
  /\ Len(lane.recent) <= MaxRecent
  /\ Cardinality(Windowed(lane)) <= MaxTracks

Bounded(next) == \A k \in Keys : next[k] # NoLane => LaneBounded(next[k])

LEMMA NoneWindowed ==
  ASSUME NEW lane, lane.tracks = NoTracks
  PROVE  Cardinality(Windowed(lane)) <= MaxTracks
<1>1. Windowed(lane) = {}
  BY DEF Windowed, NoTracks
<1>2. Cardinality({}) = 0
  BY FS_EmptySet
<1>3. 0 <= MaxTracks
  BY BoundsAssumption
<1> QED  BY <1>1, <1>2, <1>3

LEMMA OneEpochBounded ==
  ASSUME NEW e
  PROVE  IsFiniteSet({e}) /\ Cardinality({e}) <= MaxEpochs
<1>1. IsFiniteSet({e}) /\ Cardinality({e}) = 1
  BY FS_Singleton
<1>2. 1 <= MaxEpochs
  BY BoundsAssumption
<1> QED  BY <1>1, <1>2

LEMMA ClearedBounded ==
  ASSUME NEW next \in Lanes, Bounded(next)
  PROVE  Bounded(Cleared(next))
<1> SUFFICES ASSUME NEW k \in Keys, Cleared(next)[k] # NoLane
             PROVE  LaneBounded(Cleared(next)[k])
  BY DEF Bounded
<1> DEFINE lane == [next[k] EXCEPT !.tracks = NoTracks]
<1>1. next[k] # NoLane /\ next[k] \in Lane /\ LaneBounded(next[k]) /\ Cleared(next)[k] = lane
  BY DEF Cleared, Lanes, Bounded
<1>2. lane.usedEpochs = next[k].usedEpochs /\ lane.recent = next[k].recent /\ lane.tracks = NoTracks
  BY <1>1 DEF Lane
<1> QED  BY <1>1, <1>2, NoneWindowed DEF LaneBounded

LEMMA NewLaneBounded ==
  ASSUME NEW q \in Position
  PROVE  LaneBounded(NewLane(q))
<1>1. /\ NewLane(q).usedEpochs = {q.epoch} /\ NewLane(q).recent = <<>>
      /\ NewLane(q).tracks = NoTracks
  BY DEF NewLane
<1>2. Len(<<>>) <= MaxRecent
  BY BoundsAssumption
<1> QED  BY <1>1, <1>2, NoneWindowed, OneEpochBounded DEF LaneBounded

LEMMA RolledOverBounded ==
  ASSUME NEW k \in Keys, NEW q \in Position, lanes[k] \in Lane, LaneBounded(lanes[k]),
         RolloverRefusal(k, q) = "none"
  PROVE  LaneBounded(RolledOverLane(lanes[k], q))
<1> DEFINE used == lanes[k].usedEpochs
           lane == RolledOverLane(lanes[k], q)
<1>1. lane.usedEpochs = used \cup {q.epoch} /\ lane.recent = <<>> /\ lane.tracks = NoTracks
  BY DEF RolledOverLane
<1>2. q.epoch \notin used /\ ~(Cardinality(used) >= MaxEpochs)
  BY DEF RolloverRefusal
<1>3. Cardinality(used) \in Nat
  BY FS_CardinalityType DEF LaneBounded
<1>4. /\ IsFiniteSet(used \cup {q.epoch})
      /\ Cardinality(used \cup {q.epoch}) = Cardinality(used) + 1
  BY <1>2, FS_AddElement DEF LaneBounded
<1>5. Cardinality(used) + 1 <= MaxEpochs
  BY <1>2, <1>3, BoundsAssumption
<1>6. Len(<<>>) <= MaxRecent
  BY BoundsAssumption
<1> QED  BY <1>1, <1>4, <1>5, <1>6, NoneWindowed DEF LaneBounded

LEMMA AppliedLaneBounded ==
  ASSUME AInv, Bounded(lanes), NEW k \in Keys, NEW q \in Position, NEW f \in Frames,
         AdmissionRefusal(k, q, f) = "none"
  PROVE  LaneBounded(AppliedLane(k, q, AdmissionOf(k, q, f)))
<1> DEFINE lane == AppliedLane(k, q, AdmissionOf(k, q, f))
<1>1. lanes[k] # NoLane => lanes[k] \in Lane /\ LaneBounded(lanes[k])
  BY DEF AInv, IInv, Sound, Lanes, Bounded
<1>2. CASE lanes[k] = NoLane
  <2>1. lane = NewLane(q)
    BY <1>2 DEF AdmissionOf, AppliedLane, Initialized
  <2> QED  BY <2>1, NewLaneBounded
<1>3. CASE lanes[k] # NoLane /\ q.epoch # lanes[k].position.epoch
  <2>1. lane = RolledOverLane(lanes[k], q)
    BY <1>3 DEF AdmissionOf, AppliedLane, RolledOver
  <2>2. RolloverRefusal(k, q) = "none"
    BY <1>3 DEF AdmissionRefusal
  <2> QED  BY <1>1, <1>3, <2>1, <2>2, RolledOverBounded
<1>4. CASE lanes[k] # NoLane /\ q.epoch = lanes[k].position.epoch
  <2>1. lane = lanes[k] \/ lane = [lanes[k] EXCEPT !.tracks = NoTracks]
    BY <1>4 DEF AdmissionOf, AppliedLane, Advanced, ResetFor
  <2>2. ASSUME lane = [lanes[k] EXCEPT !.tracks = NoTracks]
        PROVE  LaneBounded(lane)
    <3>1. /\ lane.usedEpochs = lanes[k].usedEpochs /\ lane.recent = lanes[k].recent
          /\ lane.tracks = NoTracks
      BY <1>1, <1>4, <2>2 DEF Lane
    <3> QED  BY <1>1, <1>4, <3>1, NoneWindowed DEF LaneBounded
  <2> QED  BY <1>1, <1>4, <2>1, <2>2
<1> QED  BY <1>2, <1>3, <1>4

LEMMA RememberBounded ==
  ASSUME NEW S, NEW recent \in Seq(S), Len(recent) <= MaxRecent, NEW q, NEW f,
         [sequence |-> q.seq, digest |-> f] \in S
  PROVE  Len(Remember(recent, q, f)) <= MaxRecent
<1>1. CASE Len(recent) >= MaxRecent
  <2>1. recent # <<>>
    BY <1>1, BoundsAssumption
  <2>2. Tail(recent) \in Seq(S) /\ Len(Tail(recent)) = Len(recent) - 1
    BY <2>1, HeadTailProperties
  <2>3. Len(Remember(recent, q, f)) = Len(Tail(recent)) + 1
    BY <1>1, <2>2, AppendProperties DEF Remember
  <2> QED  BY <2>2, <2>3, BoundsAssumption
<1>2. CASE ~(Len(recent) >= MaxRecent)
  <2>1. Len(Remember(recent, q, f)) = Len(recent) + 1
    BY <1>2, AppendProperties DEF Remember
  <2> QED  BY <1>2, <2>1, BoundsAssumption
<1> QED  BY <1>1, <1>2

LEMMA AssessedLaneBounded ==
  ASSUME NEW lane \in Lane, LaneBounded(lane), NEW q \in Position, NEW f \in Frames,
         FrameFault(q, f) = "none"
  PROVE  LaneBounded(AssessedLane(lane, q, f))
<1> DEFINE assessed == AssessedLane(lane, q, f)
           Mark == [sequence : 0..MaxSequence, digest : Frames]
<1>1. /\ assessed.usedEpochs = lane.usedEpochs
      /\ assessed.tracks = Windows(lane, q, f)
      /\ assessed.recent = Remember(lane.recent, q, f)
  BY DEF AssessedLane, Lane
<1>2. Len(assessed.recent) <= MaxRecent
  <2>1. lane.recent \in Seq(Mark) /\ [sequence |-> q.seq, digest |-> f] \in Mark
    BY DEF Lane, Position
  <2> QED  BY <1>1, <2>1, RememberBounded DEF LaneBounded
<1>3. Cardinality(Windowed(assessed)) <= MaxTracks
  <2>1. DOMAIN f.roster \in SUBSET Tracks
    BY DataAssumption DEF Frame
  <2>2. IsFiniteSet(DOMAIN f.roster)
    BY <2>1, FS_Subset, DataAssumption
  <2>3. Windowed(assessed) \in SUBSET DOMAIN f.roster
    BY <1>1 DEF Windowed, Windows, Evaluated
  <2>4. ~(Cardinality(DOMAIN f.roster) > MaxTracks)
    BY DEF FrameFault
  <2>5. /\ Cardinality(Windowed(assessed)) <= Cardinality(DOMAIN f.roster)
        /\ Cardinality(Windowed(assessed)) \in Nat /\ Cardinality(DOMAIN f.roster) \in Nat
    BY <2>2, <2>3, FS_Subset, FS_CardinalityType
  <2> QED  BY <2>4, <2>5, BoundsAssumption
<1> QED  BY <1>1, <1>2, <1>3 DEF LaneBounded

LEMMA OneLaneBounded ==
  ASSUME AInv, Bounded(lanes), NEW k \in Keys, NEW lane, LaneBounded(lane)
  PROVE  Bounded([lanes EXCEPT ![k] = lane])
  BY DEF AInv, IInv, Sound, Lanes, Bounded

LEMMA EndingBounded ==
  ASSUME NEW next \in Lanes, Bounded(next), lanes' = next \/ lanes' = Cleared(next)
  PROVE  Bounded(lanes)'
<1>1. Bounded(lanes')
  BY ClearedBounded
<1> QED  BY <1>1 DEF Bounded, LaneBounded, Windowed

LEMMA AdmitsBounded ==
  ASSUME AInv, Bounded(lanes), NEW error, NEW q \in Position, NEW f \in Frames,
         FrameFault(q, f) = "none",
         AdmissionRefusal(<<f.producer, q.stream>>, q, f) = "none", Admits(error, q, f)
  PROVE  Bounded(lanes)'
<1> DEFINE k == <<f.producer, q.stream>>
           t == AdmissionOf(k, q, f)
           lane == AppliedLane(k, q, t)
           assessed == AssessedLane(lane, q, f)
<1>1. k \in Keys /\ k[2] = q.stream /\ lanes \in Lanes
  BY FrameType DEF Keys, Position, AInv, IInv, Sound
<1>2. lane \in Lane /\ LaneBounded(lane)
  BY <1>1, AppliedLanePlace, AppliedLaneBounded
<1>3. assessed \in Lane /\ LaneBounded(assessed)
  BY <1>2, AssessedLaneType, AssessedLaneBounded
<1>4. ASSUME NEW x \in Lane, LaneBounded(x),
             \/ lanes' = [lanes EXCEPT ![k] = x]
             \/ lanes' = Cleared([lanes EXCEPT ![k] = x])
      PROVE  Bounded(lanes)'
  <2>1. [lanes EXCEPT ![k] = x] \in Lanes
    BY <1>1 DEF Lanes
  <2> QED  BY <1>1, <1>4, <2>1, OneLaneBounded, EndingBounded
<1> QED  BY <1>2, <1>3, <1>4 DEF Admits, Accept, Terminate, Latch

LEMMA StandingBounded ==
  ASSUME AInv, Bounded(lanes), lanes' = lanes \/ lanes' = Cleared(lanes)
  PROVE  Bounded(lanes)'
  BY EndingBounded DEF AInv, IInv, Sound

LEMMA AssessAtBounded ==
  ASSUME AInv, Bounded(lanes), NEW error, NEW q \in Position, NEW f \in Frames,
         AssessAt(error, q, f)
  PROVE  Bounded(lanes)'
<1>1. CASE /\ FrameFault(q, f) = "none" /\ AdmissionRefusal(<<f.producer, q.stream>>, q, f) = "none"
           /\ Admits(error, q, f)
  BY <1>1, AdmitsBounded
<1>2. CASE lanes' = Cleared(lanes)
  BY <1>2, StandingBounded
<1> QED  BY <1>1, <1>2 DEF AssessAt, FailSilently, Terminate, Latch

LEMMA ControlResetBounded ==
  ASSUME AInv, Bounded(lanes), NEW m \in Producers, NEW q \in Positions, NEW reason,
         ControlReset(m, q, reason)
  PROVE  Bounded(lanes)'
<1> DEFINE k == <<m, q.stream>>
           lane == [lanes[k] EXCEPT !.position = q, !.tracks = NoTracks, !.lastFrame = NoContext]
           next == [lanes EXCEPT ![k] = lane]
<1>1. q \in Position /\ lanes \in Lanes
  BY DataAssumption DEF AInv, IInv, Sound
<1>2. k \in Keys
  BY <1>1 DEF Keys, Position
<1>3. CASE lanes[k] # NoLane /\ (lanes' = next \/ lanes' = Cleared(next))
  <2>1. lanes[k] \in Lane /\ LaneBounded(lanes[k])
    BY <1>1, <1>2, <1>3 DEF Lanes, Bounded
  <2>2. /\ lane \in Lane /\ lane.usedEpochs = lanes[k].usedEpochs
        /\ lane.recent = lanes[k].recent /\ lane.tracks = NoTracks
    BY <1>1, <2>1, NoTracksType DEF Lane
  <2>3. LaneBounded(lane)
    BY <2>1, <2>2, NoneWindowed DEF LaneBounded
  <2>4. next \in Lanes /\ Bounded(next)
    BY <1>1, <1>2, <2>2, <2>3, OneLaneBounded DEF Lanes
  <2> QED  BY <1>3, <2>4, EndingBounded
<1>4. CASE lanes' = Cleared(lanes)
  BY <1>4, StandingBounded
<1> QED  BY <1>3, <1>4 DEF ControlReset, Accept, Terminate, Latch

LEMMA RolloverBounded ==
  ASSUME AInv, Bounded(lanes), NEW m \in Producers, NEW q \in Positions, RolloverAt(m, q)
  PROVE  Bounded(lanes)'
<1> DEFINE k == <<m, q.stream>>
           lane == RolledOverLane(lanes[k], q)
           next == [lanes EXCEPT ![k] = lane]
<1>1. q \in Position /\ lanes \in Lanes
  BY DataAssumption DEF AInv, IInv, Sound
<1>2. k \in Keys
  BY <1>1 DEF Keys, Position
<1>3. CASE RolloverRefusal(k, q) = "none" /\ (lanes' = next \/ lanes' = Cleared(next))
  <2>1. lanes[k] # NoLane
    BY <1>3 DEF RolloverRefusal
  <2>2. lanes[k] \in Lane /\ LaneBounded(lanes[k])
    BY <1>1, <1>2, <2>1 DEF Lanes, Bounded
  <2>3. lane \in Lane /\ LaneBounded(lane)
    BY <1>1, <1>2, <1>3, <2>2, RolledOverLaneType, RolledOverBounded
  <2>4. next \in Lanes /\ Bounded(next)
    BY <1>1, <1>2, <2>3, OneLaneBounded DEF Lanes
  <2> QED  BY <1>3, <2>4, EndingBounded
<1>4. CASE lanes' = Cleared(lanes)
  BY <1>4, StandingBounded
<1> QED  BY <1>3, <1>4 DEF RolloverAt, Accept, Terminate, Latch

LEMMA NextBounded ==
  ASSUME AInv, Bounded(lanes), [Next]_vars
  PROVE  Bounded(lanes)'
<1>1. ASSUME NEW f \in Frames, AssessFrame(f)
      PROVE  Bounded(lanes)'
  <2>1. CASE LegacyPositionValid(f) /\ AssessAt("frame_error", LegacyPosition(f), f)
    BY <2>1, LegacyPositionType, AssessAtBounded DEF AInv
  <2>2. CASE lanes' = Cleared(lanes)
    BY <2>2, StandingBounded
  <2> QED  BY <1>1, <2>1, <2>2 DEF AssessFrame, FailSilently, Latch
<1>2. ASSUME NEW c \in Placed, AssessPositionedFrame(c[1], c[2])
      PROVE  Bounded(lanes)'
  <2>1. c[1] \in Position /\ c[2] \in Frames
    BY DataAssumption
  <2> QED  BY <1>2, <2>1, AssessAtBounded DEF AssessPositionedFrame
<1>3. ASSUME NEW m \in Producers, NEW q \in Positions,
             ResetAt(m, q) \/ TimeoutAt(m, q) \/ RolloverAt(m, q)
      PROVE  Bounded(lanes)'
  BY <1>3, ControlResetBounded, RolloverBounded DEF ResetAt, TimeoutAt
<1>4. CASE ControlUnknownProducer \/ ClearHistories \/ ReturnFault \/ UNCHANGED vars
  BY <1>4, StandingBounded DEF ControlUnknownProducer, FailSilently, Latch, ClearHistories,
     ReturnFault, vars
<1> QED  BY <1>1, <1>2, <1>3, <1>4 DEF Next

(* However long the detector runs, its retained state stays within the      *)
(* declared ceilings: streams, epochs per stream, replay fingerprints, and  *)
(* tracks that hold a window (classify_admission, classify_rollover,        *)
(* remember_frame, assess_lane).                                            *)
THEOREM RetentionAlwaysBounded == Spec => []RetentionBounded
<1>1. Init => Bounded(lanes)
  BY DEF Init, Bounded
<1>2. AInv /\ Bounded(lanes) => RetentionBounded
  BY DEF AInv, StreamsBounded, Bounded, LaneBounded, Windowed, RetentionBounded, OpenKeys
<1> QED  BY <1>1, <1>2, InitAccounted, NextAccounted, NextBounded, PTL DEF Spec

-----------------------------------------------------------------------------
(* The compatibility entry point.                                           *)

GenerationDisputes == {"MissingReset", "StateGenerationMismatch"}

LEMMA LegacyUndisputed ==
  ASSUME AInv, NEW f \in Frames
  PROVE  AdmissionRefusal(<<f.producer, LegacyStream>>, LegacyPosition(f), f)
           \notin GenerationDisputes
<1> DEFINE k == <<f.producer, LegacyStream>>
           q == LegacyPosition(f)
           reasons == ContinuityResetReasons(lanes[k], f)
<1>1. q.gen = LegacyGeneration(f) /\ q.epoch = f.epoch
  BY DEF LegacyPosition
<1>2. CASE lanes[k] = NoLane
  BY <1>1, <1>2 DEF LegacyGeneration, AdmissionRefusal, GenerationDisputes
<1>3. CASE lanes[k] # NoLane /\ q.epoch # lanes[k].position.epoch
  <2>1. AdmissionRefusal(k, q, f) = RolloverRefusal(k, q)
    BY <1>3 DEF AdmissionRefusal
  <2>2. RolloverRefusal(k, q) \notin GenerationDisputes
    BY DEF RolloverRefusal, GenerationDisputes
  <2> QED  BY <2>1, <2>2
<1>4. CASE lanes[k] # NoLane /\ q.epoch = lanes[k].position.epoch
  <2>1. k \in Keys
    BY FrameType, DataAssumption DEF Keys
  <2>2. lanes[k].position.gen \in Int
    BY <1>4, <2>1, BoundsAssumption DEF AInv, IInv, Sound, Lanes, Lane, Position
  <2>3. q.gen = IF reasons = {} THEN lanes[k].position.gen ELSE lanes[k].position.gen + 1
    BY <1>1, <1>4 DEF LegacyGeneration
  <2>4. GenerationRefusal(lanes[k], q, reasons) = "none"
    BY <2>2, <2>3 DEF GenerationRefusal
  <2>5. ReplayRefusal(lanes[k], q, f) \notin GenerationDisputes
    BY DEF ReplayRefusal, GenerationDisputes
  <2>6. AdmissionRefusal(k, q, f) \in
          {"ClockDomainChanged", ReplayRefusal(lanes[k], q, f), "ForwardSequenceGap",
           "NonIncreasingTimestamp", GenerationRefusal(lanes[k], q, reasons)}
    BY <1>4 DEF AdmissionRefusal
  <2> QED  BY <2>4, <2>5, <2>6 DEF GenerationDisputes
<1> QED  BY <1>2, <1>3, <1>4

LEMMA LegacyFrameUndisputed ==
  ASSUME AInv, NEW f \in Frames, AssessFrame(f)
  PROVE  fault' \notin GenerationDisputes
<1> DEFINE q == LegacyPosition(f)
           refusal == AdmissionRefusal(<<f.producer, q.stream>>, q, f)
<1>1. fault = NoFault /\ NoFault \notin GenerationDisputes
  BY DEF AssessFrame, NoFault, GenerationDisputes
<1>2. refusal \notin GenerationDisputes
  BY LegacyUndisputed DEF LegacyPosition
<1>3. FrameFault(q, f) \notin GenerationDisputes
  BY DEF FrameFault, GenerationDisputes
<1>4. fault' \in {"InvalidFrame", "InvalidPosition", FrameFault(q, f), refusal, "Assessment",
                  "ReceiptIndexExhausted", fault}
  BY DEF AssessFrame, AssessAt, Admits, FailSilently, Terminate, Accept, Latch
<1> QED  BY <1>1, <1>2, <1>3, <1>4 DEF GenerationDisputes

LEMMA Answered ==
  ASSUME NEW error, error # "frame_error", NEW next, NEW m, NEW q, NEW t, NEW f, NEW x
  PROVE  /\ FailSilently(error, x) => outcome'.answer # "frame_error"
         /\ Terminate(error, next, m, q, t, f, x) => outcome'.answer # "frame_error"
         /\ Accept(error, next, m, q, t, f, x) => outcome'.answer # "frame_error"
<1>1. ASSUME NEW e, NEW r, NEW l, Latch(e, l, r)
      PROVE  outcome'.answer = e
  BY <1>1 DEF Latch
<1>2. FailSilently(error, x) => outcome'.answer # "frame_error"
  BY <1>1 DEF FailSilently
<1>3. Terminate(error, next, m, q, t, f, x) => outcome'.answer # "frame_error"
  BY <1>1 DEF Terminate
<1>4. ASSUME Accept(error, next, m, q, t, f, x)
      PROVE  outcome'.answer # "frame_error"
  <2>1. \/ Latch(error, next, "ReceiptIndexExhausted")
        \/ outcome' = [answer |-> IF f = NoFrame THEN "receipted" ELSE "assessed",
                       assessments |-> x]
    BY <1>4 DEF Accept
  <2> QED  BY <1>1, <2>1
<1> QED  BY <1>2, <1>3, <1>4

(* The entry point for version 1 sidecar frames never refuses, over its     *)
(* generation, a position it derived itself (legacy_local_position against  *)
(* classify_admission).                                                     *)
THEOREM LegacyAlwaysAsksRight == Spec => []LegacyAsksRightGeneration
<1>1. Init => LegacyAsksRightGeneration
  BY DEF Init, LegacyAsksRightGeneration
<1>2. ASSUME AInv, LegacyAsksRightGeneration, [Next]_vars
      PROVE  LegacyAsksRightGeneration'
  <2>1. ASSUME NEW f \in Frames, AssessFrame(f)
        PROVE  LegacyAsksRightGeneration'
    BY <1>2, <2>1, LegacyFrameUndisputed DEF LegacyAsksRightGeneration, GenerationDisputes
  <2>2. CASE outcome'.answer # "frame_error"
    BY <2>2 DEF LegacyAsksRightGeneration
  <2>3. ASSUME NEW q, NEW f, AssessAt("error", q, f)
        PROVE  outcome'.answer # "frame_error"
    BY <2>3, Answered DEF AssessAt, Admits
  <2>4. ASSUME NEW m, NEW q, ResetAt(m, q) \/ TimeoutAt(m, q) \/ RolloverAt(m, q)
        PROVE  outcome'.answer # "frame_error"
    BY <2>4, Answered DEF ResetAt, TimeoutAt, ControlReset, RolloverAt
  <2>5. CASE ControlUnknownProducer
    BY <2>2, <2>5 DEF ControlUnknownProducer, FailSilently, Latch
  <2>6. CASE ClearHistories \/ ReturnFault \/ UNCHANGED vars
    BY <1>2, <2>6 DEF ClearHistories, ReturnFault, vars, LegacyAsksRightGeneration
  <2> QED  BY <1>2, <2>1, <2>2, <2>3, <2>4, <2>5, <2>6 DEF Next, AssessPositionedFrame
<1> QED  BY <1>1, <1>2, InitAccounted, NextAccounted, PTL DEF Spec

-----------------------------------------------------------------------------
(***************************************************************************)
(* The log tells where every stream is.                                    *)
(***************************************************************************)

AcceptedIn(s) == {i \in 1..Len(s) : ~IsTerminal(s[i].transition)}
LaterIn(s, i) == {j \in AcceptedIn(s) : j > i /\ KeyOf(s[j]) = KeyOf(s[i])}

Linked(s) ==
  \A i \in AcceptedIn(s) : LaterIn(s, i) # {} =>
    \E j \in LaterIn(s, i) : (\A l \in LaterIn(s, i) : j <= l) /\ Replays(s[i], s[j])

Latest(s) == {i \in AcceptedIn(s) : LaterIn(s, i) = {}}

StandsAt(r) == lanes[KeyOf(r)] # NoLane /\ lanes[KeyOf(r)].position = r.position

Tracked == fault = NoFault => \A i \in Latest(receipts) : StandsAt(receipts[i])

TInv == Linked(receipts) /\ Tracked

(* Log u is log s with r at its end, the oldest receipt perhaps gone.       *)
Extends(u, s, r) ==
  /\ Len(u) \in Nat \ {0} /\ Len(s) \in Nat /\ u[Len(u)] = r
  /\ \E d \in {0, 1} : /\ Len(u) - 1 + d = Len(s)
                       /\ \A i \in 1..(Len(u) - 1) : u[i] = s[i + d]

LEMMA CommitExtends ==
  ASSUME TypeOK, NEW r, Commit(r)
  PROVE  Extends(receipts', receipts, r)
<1> DEFINE n == Len(receipts')
<1>1. Len(receipts) \in Nat
  BY DEF TypeOK
<1>2. n \in Nat \ {0} /\ receipts'[n] = r
  BY CommitShape
<1> HIDE DEF n
<1>3. CASE n = Len(receipts) + 1 /\ \A i \in 1..(n - 1) : receipts'[i] = receipts[i]
  <2>1. n - 1 + 0 = Len(receipts) /\ \A i \in 1..(n - 1) : receipts'[i] = receipts[i + 0]
    BY <1>1, <1>2, <1>3
  <2> QED  BY <1>1, <1>2, <2>1 DEF Extends, n
<1>4. CASE n = Len(receipts) /\ \A i \in 1..(n - 1) : receipts'[i] = receipts[i + 1]
  <2>1. n - 1 + 1 = Len(receipts)
    BY <1>1, <1>2, <1>4
  <2> QED  BY <1>1, <1>2, <1>4, <2>1 DEF Extends, n
<1> QED  BY <1>3, <1>4, CommitShape DEF n

(* An earlier place of the extended log has the same later ones, shifted,   *)
(* and perhaps the new receipt.                                             *)
LEMMA ExtensionLinked ==
  ASSUME NEW s, NEW u, NEW r, Extends(u, s, r), Linked(s),
         ~IsTerminal(r.transition) =>
           \A i \in Latest(s) : KeyOf(s[i]) = KeyOf(r) => Replays(s[i], r)
  PROVE  /\ Linked(u)
         /\ \A i \in Latest(u) :
              \/ u[i] = r
              \/ \E j \in Latest(s) : /\ u[i] = s[j]
                                      /\ IsTerminal(r.transition) \/ KeyOf(s[j]) # KeyOf(r)
<1> DEFINE n == Len(u)
<1>1. n \in Nat \ {0} /\ Len(s) \in Nat /\ u[n] = r
  BY DEF Extends
<1> PICK d \in {0, 1} : n - 1 + d = Len(s) /\ \A i \in 1..(n - 1) : u[i] = s[i + d]
  BY DEF Extends
<1> HIDE DEF n
<1>2. ASSUME NEW i \in 1..(n - 1)
      PROVE  i + d \in 1..Len(s) /\ u[i] = s[i + d]
  BY <1>1
<1>3. ASSUME NEW i \in AcceptedIn(u)
      PROVE  /\ i = n => ~IsTerminal(r.transition) /\ LaterIn(u, i) = {}
             /\ i # n => /\ i \in 1..(n - 1) /\ i + d \in AcceptedIn(s)
  <2>1. i \in 1..n /\ ~IsTerminal(u[i].transition)
    BY DEF AcceptedIn, n
  <2>2. CASE i = n
    <3>1. LaterIn(u, i) = {}
      BY <1>1, <2>2 DEF LaterIn, AcceptedIn, n
    <3> QED  BY <1>1, <2>1, <2>2, <3>1
  <2>3. CASE i # n
    <3>1. i \in 1..(n - 1)
      BY <1>1, <2>1, <2>3
    <3> QED  BY <1>2, <2>1, <2>3, <3>1 DEF AcceptedIn
  <2> QED  BY <2>2, <2>3
<1>4. ASSUME NEW i \in 1..(n - 1), NEW j \in LaterIn(u, i), j # n
      PROVE  j \in 1..(n - 1) /\ j + d \in LaterIn(s, i + d)
  <2>1. j \in AcceptedIn(u) /\ j > i /\ KeyOf(u[j]) = KeyOf(u[i])
    BY DEF LaterIn
  <2>2. j \in 1..(n - 1) /\ j + d \in AcceptedIn(s)
    BY <1>3, <1>4, <2>1
  <2>3. u[j] = s[j + d] /\ u[i] = s[i + d] /\ j + d > i + d
    BY <1>1, <1>2, <2>1, <2>2
  <2> QED  BY <2>1, <2>2, <2>3 DEF LaterIn
<1>5. ASSUME NEW i \in 1..(n - 1), NEW j \in LaterIn(s, i + d)
      PROVE  j - d \in 1..(n - 1) /\ j - d \in LaterIn(u, i) /\ u[j - d] = s[j]
  <2>1. /\ j \in 1..Len(s) /\ ~IsTerminal(s[j].transition)
        /\ j > i + d /\ KeyOf(s[j]) = KeyOf(s[i + d])
    BY DEF LaterIn, AcceptedIn
  <2>2. j - d \in 1..(n - 1) /\ (j - d) + d = j /\ j - d > i
    BY <1>1, <2>1
  <2>3. u[j - d] = s[j] /\ u[i] = s[i + d]
    BY <1>2, <2>2
  <2>4. j - d \in 1..n
    BY <1>1, <2>2
  <2> QED  BY <2>1, <2>2, <2>3, <2>4 DEF LaterIn, AcceptedIn, n
<1>6. ASSUME NEW i \in 1..(n - 1), n \in LaterIn(u, i)
      PROVE  ~IsTerminal(r.transition) /\ KeyOf(r) = KeyOf(s[i + d])
  BY <1>1, <1>2, <1>6 DEF LaterIn, AcceptedIn
<1>7. ASSUME NEW i \in AcceptedIn(u), LaterIn(u, i) # {}
      PROVE  \E j \in LaterIn(u, i) : (\A l \in LaterIn(u, i) : j <= l) /\ Replays(u[i], u[j])
  <2>1. i \in 1..(n - 1) /\ i + d \in AcceptedIn(s) /\ u[i] = s[i + d]
    BY <1>2, <1>3, <1>7
  <2>2. \A l \in LaterIn(u, i) : l \in 1..n
    BY DEF LaterIn, AcceptedIn, n
  <2>3. CASE LaterIn(s, i + d) # {}
    <3>1. PICK j \in LaterIn(s, i + d) :
            (\A l \in LaterIn(s, i + d) : j <= l) /\ Replays(s[i + d], s[j])
      BY <2>1, <2>3 DEF Linked
    <3>2. j - d \in LaterIn(u, i) /\ u[j - d] = s[j] /\ j - d \in 1..(n - 1) /\ j \in Int
      <4>1. j \in Int
        BY DEF LaterIn, AcceptedIn
      <4> QED  BY <1>5, <2>1, <4>1
    <3>3. ASSUME NEW l \in LaterIn(u, i)
          PROVE  j - d <= l
      <4>1. CASE l = n
        BY <1>1, <3>2, <4>1
      <4>2. CASE l # n
        <5>1. l + d \in LaterIn(s, i + d) /\ l \in 1..(n - 1)
          BY <1>4, <2>1, <4>2
        <5>2. j <= l + d
          BY <3>1, <5>1
        <5> QED  BY <1>1, <3>2, <5>1, <5>2
      <4> QED  BY <4>1, <4>2
    <3> QED  BY <2>1, <3>1, <3>2, <3>3
  <2>4. CASE LaterIn(s, i + d) = {}
    <3>1. \A j \in LaterIn(u, i) : j = n
      BY <1>4, <2>1, <2>4
    <3>2. n \in LaterIn(u, i)
      BY <1>7, <3>1
    <3>3. i + d \in Latest(s)
      BY <2>1, <2>4 DEF Latest
    <3>4. Replays(u[i], u[n])
      BY <1>1, <1>6, <2>1, <3>2, <3>3
    <3> QED  BY <1>1, <3>1, <3>2, <3>4
  <2> QED  BY <2>3, <2>4
<1>8. ASSUME NEW i \in Latest(u), u[i] # r
      PROVE  \E j \in Latest(s) : /\ u[i] = s[j]
                                  /\ IsTerminal(r.transition) \/ KeyOf(s[j]) # KeyOf(r)
  <2>1. i \in AcceptedIn(u) /\ LaterIn(u, i) = {}
    BY DEF Latest
  <2>2. i \in 1..(n - 1) /\ i + d \in AcceptedIn(s) /\ u[i] = s[i + d]
    BY <1>1, <1>2, <1>3, <1>8, <2>1
  <2>3. LaterIn(s, i + d) = {}
    BY <1>5, <2>1, <2>2
  <2>4. ASSUME ~IsTerminal(r.transition), KeyOf(u[i]) = KeyOf(r)
        PROVE  FALSE
    <3>1. n \in LaterIn(u, i)
      BY <1>1, <2>2, <2>4 DEF LaterIn, AcceptedIn, n
    <3> QED  BY <2>1, <3>1
  <2> QED  BY <2>2, <2>3, <2>4 DEF Latest
<1> QED  BY <1>7, <1>8 DEF Linked

-----------------------------------------------------------------------------
(* A transition t to position q that Replays takes after position p.        *)
Follows(p, t, q) ==
  \/ t = Advanced /\ q = [p EXCEPT !.seq = @ + 1, !.ts = q.ts] /\ q.ts > p.ts
  \/ t.kind = "Reset" /\ t.about # {} /\ IsCheckedReset(p, q)
  \/ t = RolledOver(p.epoch) /\ q.epoch # p.epoch /\ q.seq = 0 /\ q.gen = 0 /\ q.clock = p.clock

LEMMA AdmissionFollows ==
  ASSUME AInv, NEW k \in Keys, NEW q \in Position, NEW f \in Frames, q.stream = k[2],
         AdmissionRefusal(k, q, f) = "none", lanes[k] # NoLane
  PROVE  Follows(lanes[k].position, AdmissionOf(k, q, f), q)
<1> DEFINE p == lanes[k].position
           t == AdmissionOf(k, q, f)
<1>1. lanes[k] \in Lane /\ p \in Position /\ p.epoch \in lanes[k].usedEpochs /\ p.stream = k[2]
  BY DEF AInv, IInv, Sound, Lanes, Lane, CoordinatesAccounted
<1>2. CASE q.epoch # p.epoch
  <2>1. t = RolledOver(p.epoch)
    BY <1>2 DEF AdmissionOf
  <2>2. RolloverRefusal(k, q) = "none"
    BY <1>2 DEF AdmissionRefusal
  <2>3. q.seq = 0 /\ q.gen = 0 /\ q.clock = p.clock
    BY <2>2 DEF RolloverRefusal
  <2> QED  BY <1>2, <2>1, <2>3 DEF Follows
<1>3. CASE q.epoch = p.epoch
  <2>1. /\ p.seq \in Int /\ p.ts \in Int /\ p.gen \in Int
        /\ q.seq \in Int /\ q.ts \in Int /\ q.gen \in Int
    BY <1>1, BoundsAssumption DEF Position
  <2>2. LegalMove(k, q)
    BY AppliedLanePlace
  <2>3. /\ q.clock = p.clock /\ q.seq = p.seq + 1 /\ q.gen \in {p.gen, p.gen + 1} /\ q.ts > p.ts
    BY <1>1, <1>3, <2>2 DEF LegalMove
  <2>4. CASE q.gen = p.gen
    <3>1. t = Advanced
      BY <1>3, <2>4 DEF AdmissionOf
    <3>2. q = [p EXCEPT !.seq = @ + 1, !.ts = q.ts]
      BY <1>1, <1>3, <2>3, <2>4 DEF Position
    <3> QED  BY <2>3, <3>1, <3>2 DEF Follows
  <2>5. CASE q.gen # p.gen
    <3>1. t.kind = "Reset" /\ t.about # {}
      BY <1>3, <2>5 DEF AdmissionOf, ResetFor
    <3>2. q = [p EXCEPT !.gen = @ + 1, !.seq = @ + 1, !.ts = q.ts]
      BY <1>1, <1>3, <2>3, <2>5 DEF Position
    <3> QED  BY <2>3, <3>1, <3>2 DEF Follows, IsCheckedReset
  <2> QED  BY <2>4, <2>5
<1> QED  BY <1>2, <1>3

-----------------------------------------------------------------------------
(* Every ending keeps the log in step with the lanes.                       *)

LEMMA LatchedTracked ==
  ASSUME NEW error, NEW next, NEW reason \in Reasons, Latch(error, next, reason)
  PROVE  Tracked'
<1>1. reason # NoFault
  BY DEF Reasons, Faults, Rejections, NoFault
<1> QED  BY <1>1 DEF Latch, Tracked

LEMMA UnloggedLinked ==
  ASSUME TInv, UNCHANGED log
  PROVE  Linked(receipts)'
<1>1. receipts' = receipts
  BY DEF log
<1> QED  BY <1>1 DEF TInv

LEMMA AcceptTracked ==
  ASSUME AInv, TInv, fault = NoFault, NEW error, NEW k \in Keys, NEW lane, lane # NoLane,
         NEW m, NEW q, NEW t, NEW f, NEW a, k = <<m, q.stream>>, lane.position = q,
         ~IsTerminal(t), lanes[k] # NoLane => Follows(lanes[k].position, t, q),
         Accept(error, [lanes EXCEPT ![k] = lane], m, q, t, f, a)
  PROVE  TInv'
<1> DEFINE next == [lanes EXCEPT ![k] = lane]
           r == ReceiptFor(m, q, t, f, f # NoFrame)
<1>1. CASE Commit(r) /\ lanes' = next /\ UNCHANGED fault
  <2>1. next[k] = lane /\ \A j \in Keys \ {k} : next[j] = lanes[j]
    BY DEF AInv, IInv, Sound, Lanes
  <2>2. KeyOf(r) = k /\ r.position = q /\ r.transition = t
    BY DEF KeyOf, ReceiptFor
  <2>3. Extends(receipts', receipts, r)
    BY <1>1, CommitExtends DEF AInv, IInv
  <2>4. ASSUME NEW i \in Latest(receipts), KeyOf(receipts[i]) = KeyOf(r)
        PROVE  Replays(receipts[i], r)
    <3>1. lanes[k] # NoLane /\ lanes[k].position = receipts[i].position
      BY <2>2, <2>4 DEF TInv, Tracked, StandsAt
    <3> QED  BY <2>2, <3>1 DEF Follows, Replays
  <2>5. /\ Linked(receipts')
        /\ \A i \in Latest(receipts') :
              \/ receipts'[i] = r
              \/ \E j \in Latest(receipts) : /\ receipts'[i] = receipts[j]
                                             /\ KeyOf(receipts[j]) # KeyOf(r)
    BY <2>2, <2>3, <2>4, ExtensionLinked DEF TInv
  <2>6. ASSUME NEW i \in Latest(receipts')
        PROVE  lanes'[KeyOf(receipts'[i])] # NoLane
               /\ lanes'[KeyOf(receipts'[i])].position = receipts'[i].position
    <3>1. CASE receipts'[i] = r
      BY <1>1, <2>1, <2>2, <3>1
    <3>2. ASSUME NEW j \in Latest(receipts), receipts'[i] = receipts[j],
                 KeyOf(receipts[j]) # KeyOf(r)
          PROVE  lanes'[KeyOf(receipts'[i])] # NoLane
                 /\ lanes'[KeyOf(receipts'[i])].position = receipts'[i].position
      <4>1. lanes[KeyOf(receipts[j])] # NoLane
            /\ lanes[KeyOf(receipts[j])].position = receipts[j].position
        BY DEF TInv, Tracked, StandsAt
      <4>2. KeyOf(receipts[j]) \in Keys
        <5>1. receipts[j] \in Receipt
          BY DEF Latest, AcceptedIn, AInv, IInv, TypeOK
        <5> QED  BY <5>1 DEF KeyOf, Keys, Receipt, Position
      <4> QED  BY <1>1, <2>1, <2>2, <3>2, <4>1, <4>2
    <3> QED  BY <2>5, <3>1, <3>2
  <2> QED  BY <2>5, <2>6 DEF TInv, Tracked, StandsAt
<1>2. CASE Latch(error, next, "ReceiptIndexExhausted") /\ UNCHANGED log
  <2>1. "ReceiptIndexExhausted" \in Reasons
    BY DEF Reasons, Faults
  <2> QED  BY <1>2, <2>1, LatchedTracked, UnloggedLinked DEF TInv
<1> QED  BY <1>1, <1>2 DEF Accept

LEMMA TerminateTracked ==
  ASSUME TypeOK, TInv, NEW error, NEW next, NEW m, NEW q, NEW t, NEW f,
         NEW reason \in Reasons, IsTerminal(t), Terminate(error, next, m, q, t, f, reason)
  PROVE  TInv'
<1> DEFINE r == ReceiptFor(m, q, t, f, FALSE)
<1>1. CASE Commit(r) /\ Latch(error, next, reason)
  <2>1. IsTerminal(r.transition)
    BY DEF ReceiptFor
  <2>2. Linked(receipts')
    BY <1>1, <2>1, CommitExtends, ExtensionLinked DEF TInv
  <2> QED  BY <1>1, <2>2, LatchedTracked DEF TInv
<1>2. CASE Latch(error, next, "ReceiptIndexExhausted") /\ UNCHANGED log
  <2>1. "ReceiptIndexExhausted" \in Reasons
    BY DEF Reasons, Faults
  <2> QED  BY <1>2, <2>1, LatchedTracked, UnloggedLinked DEF TInv
<1> QED  BY <1>1, <1>2 DEF Terminate

LEMMA FailSilentlyTracked ==
  ASSUME TInv, NEW error, NEW reason \in Reasons, FailSilently(error, reason)
  PROVE  TInv'
BY LatchedTracked, UnloggedLinked DEF FailSilently, TInv

LEMMA RefusalTerminal ==
  ASSUME NEW x
  PROVE  IsTerminal(Rejected(x)) /\ IsTerminal(Faulted(x))
  BY DEF IsTerminal, Rejected, Faulted

LEMMA AdmitsTracked ==
  ASSUME AInv, TInv, fault = NoFault, NEW error, NEW q \in Position, NEW f \in Frames,
         AdmissionRefusal(<<f.producer, q.stream>>, q, f) = "none", Admits(error, q, f)
  PROVE  TInv'
<1> DEFINE k == <<f.producer, q.stream>>
           t == AdmissionOf(k, q, f)
           lane == AppliedLane(k, q, t)
           assessed == AssessedLane(lane, q, f)
<1>1. k \in Keys /\ k[2] = q.stream /\ k = <<f.producer, q.stream>> /\ TypeOK
  BY FrameType DEF Keys, Position, AInv, IInv
<1>2. lane \in Lane
  BY <1>1, AppliedLanePlace
<1>3. assessed # NoLane /\ assessed.position = q
  BY <1>2, AssessedPlace
<1>4. lanes[k] # NoLane => Follows(lanes[k].position, t, q)
  BY <1>1, AdmissionFollows
<1>5. ~IsTerminal(t)
  BY AdmissionCommittable
<1>6. CASE Accept(error, [lanes EXCEPT ![k] = assessed], f.producer, q, t, f,
                  Assessments(lane, q, f, t))
  <2> HIDE DEF k, t, lane, assessed
  <2> QED  BY <1>1, <1>3, <1>4, <1>5, <1>6, AcceptTracked
<1>7. CASE Terminate(error, [lanes EXCEPT ![k] = lane], f.producer, q,
                     Faulted("Assessment"), f, "Assessment")
  <2>1. "Assessment" \in Reasons
    BY DEF Reasons, Faults
  <2> QED  BY <1>1, <1>7, <2>1, RefusalTerminal, TerminateTracked
<1> QED  BY <1>6, <1>7 DEF Admits

LEMMA AssessAtTracked ==
  ASSUME AInv, TInv, fault = NoFault, NEW error, NEW q \in Position, NEW f \in Frames,
         AssessAt(error, q, f)
  PROVE  TInv'
<1> DEFINE defect == FrameFault(q, f)
           refusal == AdmissionRefusal(<<f.producer, q.stream>>, q, f)
<1>1. TypeOK /\ "InvalidFrame" \in Reasons
  BY DEF AInv, IInv, Reasons, Faults
<1>2. CASE FailSilently(error, "InvalidFrame")
  BY <1>1, <1>2, FailSilentlyTracked
<1>3. CASE defect # "none" /\ Terminate(error, lanes, f.producer, q, Faulted(defect), f, defect)
  <2>1. defect \in Reasons
    BY <1>3, RefusalKinds DEF Reasons
  <2> QED  BY <1>1, <1>3, <2>1, RefusalTerminal, TerminateTracked
<1>4. CASE refusal # "none" /\ Terminate(error, lanes, f.producer, q, Rejected(refusal), f, refusal)
  <2>1. refusal \in Reasons
    BY <1>4, RefusalKinds DEF Reasons
  <2> QED  BY <1>1, <1>4, <2>1, RefusalTerminal, TerminateTracked
<1>5. CASE refusal = "none" /\ Admits(error, q, f)
  BY <1>5, AdmitsTracked
<1> QED  BY <1>2, <1>3, <1>4, <1>5 DEF AssessAt

LEMMA ControlResetTracked ==
  ASSUME AInv, TInv, NEW m \in Producers, NEW q \in Positions, NEW reason, ControlReset(m, q, reason)
  PROVE  TInv'
<1> DEFINE k == <<m, q.stream>>
           lane == [lanes[k] EXCEPT !.position = q, !.tracks = NoTracks, !.lastFrame = NoContext]
<1>1. q \in Position /\ TypeOK /\ fault = NoFault /\ k = <<m, q.stream>>
  BY DataAssumption DEF AInv, IInv, ControlReset
<1>2. k \in Keys
  BY <1>1 DEF Keys, Position
<1>3. CASE /\ lanes[k] # NoLane /\ IsCheckedReset(lanes[k].position, q)
           /\ Accept("error", [lanes EXCEPT ![k] = lane], m, q, ResetFor({reason}), NoFrame, <<>>)
  <2>1. lanes[k] \in Lane
    BY <1>2, <1>3 DEF AInv, IInv, Sound, Lanes
  <2>2. lane \in Lane /\ lane.position = q
    BY <1>1, <2>1, NoTracksType DEF Lane
  <2>3. lane # NoLane
    BY <2>2, DataAssumption
  <2>4. Follows(lanes[k].position, ResetFor({reason}), q) /\ ~IsTerminal(ResetFor({reason}))
    BY <1>3 DEF Follows, ResetFor, IsTerminal
  <2> HIDE DEF k, lane
  <2> QED  BY <1>1, <1>2, <1>3, <2>2, <2>3, <2>4, AcceptTracked
<1>4. CASE Terminate("error", lanes, m, q, Rejected("InvalidResetSuccessor"),
                     NoFrame, "InvalidResetSuccessor")
  <2>1. "InvalidResetSuccessor" \in Reasons
    BY DEF Reasons, Rejections
  <2> QED  BY <1>1, <1>4, <2>1, RefusalTerminal, TerminateTracked
<1> QED  BY <1>3, <1>4 DEF ControlReset

LEMMA RolloverTracked ==
  ASSUME AInv, TInv, NEW m \in Producers, NEW q \in Positions, RolloverAt(m, q)
  PROVE  TInv'
<1> DEFINE k == <<m, q.stream>>
           lane == RolledOverLane(lanes[k], q)
           refusal == RolloverRefusal(k, q)
           t == RolledOver(lanes[k].position.epoch)
<1>1. q \in Position /\ TypeOK /\ fault = NoFault /\ k = <<m, q.stream>>
  BY DataAssumption DEF AInv, IInv, RolloverAt
<1>2. k \in Keys
  BY <1>1 DEF Keys, Position
<1>3. CASE /\ refusal = "none"
           /\ Accept("error", [lanes EXCEPT ![k] = lane], m, q, t, NoFrame, <<>>)
  <2>1. /\ lanes[k] # NoLane /\ q.epoch # lanes[k].position.epoch
        /\ q.seq = 0 /\ q.gen = 0 /\ q.clock = lanes[k].position.clock
    BY <1>3 DEF RolloverRefusal
  <2>2. lanes[k] \in Lane
    BY <1>2, <2>1 DEF AInv, IInv, Sound, Lanes
  <2>3. lane \in Lane /\ lane.position = q
    BY <1>1, <2>2, RolledOverLaneType DEF RolledOverLane
  <2>4. lane # NoLane
    BY <2>3, DataAssumption
  <2>5. ~IsTerminal(t) /\ Follows(lanes[k].position, t, q)
    BY <2>1 DEF Follows, RolledOver, IsTerminal
  <2> HIDE DEF k, lane, t
  <2> QED  BY <1>1, <1>2, <1>3, <2>3, <2>4, <2>5, AcceptTracked
<1>4. CASE refusal # "none" /\ Terminate("error", lanes, m, q, Rejected(refusal), NoFrame, refusal)
  <2>1. refusal \in Reasons
    BY <1>4, RefusalKinds DEF Reasons
  <2> QED  BY <1>1, <1>4, <2>1, RefusalTerminal, TerminateTracked
<1> QED  BY <1>3, <1>4 DEF RolloverAt

LEMMA NextTracked ==
  ASSUME AInv, TInv, [Next]_vars
  PROVE  TInv'
<1>1. "InvalidFrame" \in Reasons /\ "InvalidPosition" \in Reasons
  BY DEF Reasons, Faults
<1>2. ASSUME NEW f \in Frames, AssessFrame(f)
      PROVE  TInv'
  <2>1. CASE FailSilently("frame_error", "InvalidFrame") \/ FailSilently("frame_error", "InvalidPosition")
    BY <1>1, <2>1, FailSilentlyTracked
  <2>2. CASE LegacyPositionValid(f) /\ AssessAt("frame_error", LegacyPosition(f), f)
    BY <1>2, <2>2, LegacyPositionType, AssessAtTracked DEF AssessFrame, AInv
  <2> QED  BY <1>2, <2>1, <2>2 DEF AssessFrame
<1>3. ASSUME NEW c \in Placed, AssessPositionedFrame(c[1], c[2])
      PROVE  TInv'
  <2>1. c[1] \in Position /\ c[2] \in Frames
    BY DataAssumption
  <2> QED  BY <1>3, <2>1, AssessAtTracked DEF AssessPositionedFrame
<1>4. ASSUME NEW m \in Producers, NEW q \in Positions,
             ResetAt(m, q) \/ TimeoutAt(m, q) \/ RolloverAt(m, q)
      PROVE  TInv'
  BY <1>4, ControlResetTracked, RolloverTracked DEF ResetAt, TimeoutAt
<1>5. CASE ControlUnknownProducer
  BY <1>1, <1>5, FailSilentlyTracked DEF ControlUnknownProducer
<1>6. CASE ClearHistories \/ ReturnFault \/ UNCHANGED vars
  <2>1. receipts' = receipts /\ fault' = fault
    BY <1>6 DEF ClearHistories, ReturnFault, vars, log
  <2>2. lanes' = Cleared(lanes) \/ lanes' = lanes
    BY <1>6 DEF ClearHistories, ReturnFault, vars
  <2>3. ASSUME NEW i \in Latest(receipts), fault = NoFault
        PROVE  StandsAt(receipts[i])'
    <3>1. receipts[i] \in Receipt
      BY DEF Latest, AcceptedIn, AInv, IInv, TypeOK
    <3>2. KeyOf(receipts[i]) \in Keys
      BY <3>1 DEF KeyOf, Keys, Receipt, Position
    <3>3. StandsAt(receipts[i])
      BY <2>3 DEF TInv, Tracked
    <3> QED  BY <2>1, <2>2, <3>2, <3>3, ClearedPlaces DEF StandsAt, AInv, IInv, Sound
  <2> QED  BY <2>1, <2>3 DEF TInv, Tracked
<1> QED  BY <1>2, <1>3, <1>4, <1>5, <1>6 DEF Next

(* From the retained receipts alone a reader can tell where every stream    *)
(* stands and by which legal transitions it came there, however the streams *)
(* interleave and whatever the log has evicted (commit_receipt).            *)
THEOREM LogAlwaysReplaysLanes == Spec => []LogReplaysLanes
<1>1. Init => TInv
  BY DEF Init, TInv, Linked, Tracked, Latest, AcceptedIn
<1>2. TInv => LogReplaysLanes
  BY DEF TInv, Linked, Tracked, StandsAt, Latest, AcceptedIn, LaterIn, LogReplaysLanes
<1>3. AInv /\ TInv /\ [Next]_vars => TInv'
  BY NextTracked
<1> QED  BY <1>1, <1>2, <1>3, InitAccounted, NextAccounted, PTL DEF Spec

-----------------------------------------------------------------------------
(***************************************************************************)
(* A replay is called by its right name.                                   *)
(*                                                                         *)
(* The ring of a lane holds the newest frames assessed in its epoch, in    *)
(* order of sequence; one that is no longer there lies below a full ring.  *)
(***************************************************************************)

Coordinate == [epoch : Epochs, seq : 0..MaxSequence, evidence : Frames \cup {NoFrame}]
Mark == [sequence : 0..MaxSequence, digest : Frames]

MarkAt(ep, mark) == [epoch |-> ep, seq |-> mark.sequence, evidence |-> mark.digest]

Forgotten(w, c) ==
  Len(w) = MaxRecent /\ \A i \in 1..Len(w) : c.seq < w[i].sequence

Ring(w, ep, A) ==
  /\ w \in Seq(Mark) /\ Len(w) <= MaxRecent
  /\ \A i \in 1..Len(w) : MarkAt(ep, w[i]) \in A
  /\ \A i, j \in 1..Len(w) : i < j => w[i].sequence < w[j].sequence
  /\ \A c \in A : c.epoch = ep /\ c.evidence # NoFrame =>
       (\E i \in 1..Len(w) : w[i].sequence = c.seq) \/ Forgotten(w, c)

(* No two coordinates of one epoch and sequence.                            *)
Apart(A) == \A c, d \in A : c.epoch = d.epoch /\ c.seq = d.seq => c = d

LEMMA RingEmpty ==
  ASSUME NEW ep, NEW A, \A c \in A : c.epoch # ep
  PROVE  Ring(<<>>, ep, A)
<1>1. <<>> \in Seq(Mark) /\ Len(<<>>) = 0
  OBVIOUS
<1> QED  BY <1>1, BoundsAssumption DEF Ring

LEMMA RingKeeps ==
  ASSUME NEW w, NEW ep, NEW A, Ring(w, ep, A), NEW c0, c0.evidence = NoFrame
  PROVE  Ring(w, ep, A \cup {c0})
  BY DEF Ring

LEMMA RingGrows ==
  ASSUME NEW w, NEW A \in SUBSET Coordinate, NEW q \in Position, NEW f \in Frames,
         Ring(w, q.epoch, A), \A c \in A : c.epoch = q.epoch => c.seq < q.seq
  PROVE  Ring(Remember(w, q, f), q.epoch, A \cup {MarkAt(q.epoch, [sequence |-> q.seq, digest |-> f])})
<1> DEFINE ep == q.epoch
           mark == [sequence |-> q.seq, digest |-> f]
           c0 == MarkAt(ep, mark)
           v == Remember(w, q, f)
           n == Len(v)
           B == A \cup {c0}
<1>1. /\ w \in Seq(Mark) /\ Len(w) <= MaxRecent /\ Len(w) \in Nat
      /\ \A i \in 1..Len(w) : MarkAt(ep, w[i]) \in A
      /\ \A i, j \in 1..Len(w) : i < j => w[i].sequence < w[j].sequence
      /\ \A c \in A : c.epoch = ep /\ c.evidence # NoFrame =>
           (\E i \in 1..Len(w) : w[i].sequence = c.seq) \/ Forgotten(w, c)
  BY DEF Ring
<1>2. mark \in Mark /\ mark.sequence = q.seq /\ q.seq \in Int
  BY BoundsAssumption DEF Mark, Position
<1>3. c0.epoch = ep /\ c0.seq = q.seq /\ c0.evidence = f
  BY DEF MarkAt
<1>4. MaxRecent \in Nat \ {0}
  BY BoundsAssumption
<1>5. \A i \in 1..Len(w) : w[i].sequence \in Int /\ w[i].sequence < q.seq
  <2>1. ASSUME NEW i \in 1..Len(w)
        PROVE  w[i].sequence \in Int /\ w[i].sequence < q.seq
    <3>1. MarkAt(ep, w[i]) \in A
      BY <1>1
    <3>2. MarkAt(ep, w[i]).epoch = ep /\ MarkAt(ep, w[i]).seq = w[i].sequence
      BY DEF MarkAt
    <3>3. w[i] \in Mark
      BY <1>1
    <3>4. w[i].sequence \in Int
      BY <3>3, BoundsAssumption DEF Mark
    <3> QED  BY <3>1, <3>2, <3>4
  <2> QED  BY <2>1
<1>6. /\ v \in Seq(Mark) /\ n \in Nat \ {0} /\ n <= MaxRecent /\ v[n] = mark
      /\ \E d \in {0, 1} : /\ n - 1 + d = Len(w) /\ \A i \in 1..(n - 1) : v[i] = w[i + d]
                           /\ d = 1 => n = MaxRecent
                           /\ d = 0 => Len(w) < MaxRecent
  <2>1. CASE Len(w) >= MaxRecent
    <3>1. w # <<>> /\ Len(w) = MaxRecent /\ Len(w) >= 1
      BY <1>1, <1>4, <2>1
    <3>2. /\ Tail(w) \in Seq(Mark) /\ Len(Tail(w)) = Len(w) - 1
          /\ \A i \in 1..(Len(w) - 1) : Tail(w)[i] = w[i + 1]
      BY <1>1, <3>1
    <3>3. v = Append(Tail(w), mark)
      BY <2>1 DEF Remember
    <3> HIDE DEF v, mark
    <3>4. /\ v \in Seq(Mark) /\ Len(v) = Len(w) /\ v[Len(w)] = mark
          /\ \A i \in 1..(Len(w) - 1) : v[i] = w[i + 1]
      BY <1>1, <1>2, <3>1, <3>2, <3>3
    <3>5. n = MaxRecent /\ n - 1 + 1 = Len(w)
      BY <1>4, <3>1, <3>4
    <3> HIDE DEF n
    <3> QED  BY <1>4, <3>1, <3>4, <3>5
  <2>2. CASE ~(Len(w) >= MaxRecent)
    <3>1. v = Append(w, mark)
      BY <2>2 DEF Remember
    <3> HIDE DEF v, mark
    <3>2. /\ v \in Seq(Mark) /\ n = Len(w) + 1 /\ v[Len(w) + 1] = mark
          /\ \A i \in 1..Len(w) : v[i] = w[i]
      BY <1>1, <1>2, <3>1
    <3> HIDE DEF n
    <3>3. /\ n - 1 + 0 = Len(w) /\ \A i \in 1..(n - 1) : v[i] = w[i + 0]
          /\ n \in Nat \ {0} /\ n <= MaxRecent /\ Len(w) < MaxRecent /\ v[n] = mark
      BY <1>1, <1>4, <2>2, <3>2
    <3>4. \E d \in {0, 1} : /\ n - 1 + d = Len(w) /\ \A i \in 1..(n - 1) : v[i] = w[i + d]
                            /\ d = 1 => n = MaxRecent
                            /\ d = 0 => Len(w) < MaxRecent
      <4> WITNESS 0 \in {0, 1}
      <4> QED  BY <3>3
    <3> QED  BY <3>2, <3>3, <3>4
  <2> HIDE DEF n, v, mark
  <2> QED  BY <2>1, <2>2
<1> PICK d \in {0, 1} : /\ n - 1 + d = Len(w) /\ \A i \in 1..(n - 1) : v[i] = w[i + d]
                        /\ d = 1 => n = MaxRecent
                        /\ d = 0 => Len(w) < MaxRecent
  BY <1>6
<1> HIDE DEF n, v, ep
<1>7. \A i \in 1..n : i # n => i \in 1..(n - 1) /\ i + d \in 1..Len(w) /\ v[i] = w[i + d]
  BY <1>1, <1>6
<1>8. ASSUME NEW i \in 1..n
      PROVE  MarkAt(ep, v[i]) \in B
  <2>1. CASE i = n
    BY <1>6, <2>1
  <2>2. CASE i # n
    BY <1>1, <1>7, <2>2
  <2> QED  BY <2>1, <2>2
<1>9. ASSUME NEW i \in 1..n, NEW j \in 1..n, i < j
      PROVE  v[i].sequence < v[j].sequence
  <2>1. i # n /\ v[i] = w[i + d] /\ i + d \in 1..Len(w)
    <3>1. i # n
      BY <1>6, <1>9
    <3> QED  BY <1>7, <3>1
  <2>2. CASE j = n
    BY <1>2, <1>5, <1>6, <2>1, <2>2
  <2>3. CASE j # n
    <3>1. v[j] = w[j + d] /\ j + d \in 1..Len(w) /\ i + d < j + d
      BY <1>7, <1>9, <2>3
    <3> QED  BY <1>1, <2>1, <3>1
  <2> QED  BY <2>2, <2>3
<1>10. ASSUME NEW c \in B, c.epoch = ep, c.evidence # NoFrame
       PROVE  (\E i \in 1..n : v[i].sequence = c.seq) \/ Forgotten(v, c)
  <2>1. CASE c = c0
    <3>1. n \in 1..n /\ v[n].sequence = c.seq
      BY <1>2, <1>3, <1>6, <2>1
    <3> QED  BY <3>1
  <2>2. CASE c \in A
    <3>1. c.seq \in Int /\ c.seq < q.seq
      BY <1>10, <2>2, BoundsAssumption DEF Coordinate, ep
    <3>2. ASSUME NEW i \in 1..Len(w), w[i].sequence = c.seq
          PROVE  (\E l \in 1..n : v[l].sequence = c.seq) \/ Forgotten(v, c)
      <4>1. CASE i - d \in 1..(n - 1)
        <5>1. v[i - d] = w[i] /\ i - d \in 1..n
          BY <1>6, <4>1
        <5> QED  BY <3>2, <5>1
      <4>2. CASE i - d \notin 1..(n - 1)
        <5>1. d = 1 /\ i = 1 /\ n = MaxRecent
          BY <1>1, <1>6, <4>2
        <5>2. ASSUME NEW l \in 1..n
              PROVE  c.seq < v[l].sequence
          <6>1. CASE l = n
            BY <1>2, <1>6, <3>1, <6>1
          <6>2. CASE l # n
            <7>1. v[l] = w[l + 1] /\ l + 1 \in 1..Len(w) /\ 1 \in 1..Len(w) /\ 1 < l + 1
              BY <1>7, <5>1, <6>2
            <7>2. w[1].sequence < w[l + 1].sequence
              BY <1>1, <7>1
            <7> QED  BY <3>2, <5>1, <7>1, <7>2
          <6> QED  BY <6>1, <6>2
        <5> QED  BY <5>1, <5>2 DEF Forgotten, n
      <4> QED  BY <4>1, <4>2
    <3>3. ASSUME Forgotten(w, c)
          PROVE  Forgotten(v, c)
      <4>1. d = 1 /\ n = MaxRecent /\ \A i \in 1..Len(w) : c.seq < w[i].sequence
        BY <1>1, <1>4, <3>3 DEF Forgotten
      <4>2. ASSUME NEW l \in 1..n
            PROVE  c.seq < v[l].sequence
        <5>1. CASE l = n
          BY <1>2, <1>6, <3>1, <5>1
        <5>2. CASE l # n
          BY <1>7, <4>1, <5>2
        <5> QED  BY <5>1, <5>2
      <4> QED  BY <4>1, <4>2 DEF Forgotten, n
    <3> QED  BY <1>1, <1>10, <2>2, <3>2, <3>3
  <2> QED  BY <2>1, <2>2
<1> QED  BY <1>6, <1>8, <1>9, <1>10 DEF Ring, n, v, ep

-----------------------------------------------------------------------------
(* What one ring says of a coordinate.                                      *)

NamedRightly(t, A, q, f) ==
  LET past   == {c \in A : c.epoch = q.epoch /\ c.evidence # NoFrame}
      there  == {c \in past : c.seq = q.seq}
      beyond == {c \in past : c.seq > q.seq}
  IN /\ t \in {Rejected("Duplicate"), Rejected("Replay")} =>
          \E c \in there : c.evidence = f
     /\ t = Rejected("ConflictingReplay") =>
          there # {} /\ \A c \in there : c.evidence # f
     /\ t = Rejected("Reordered") =>
          there = {} \/ Cardinality(beyond) >= MaxRecent

LEMMA RingCount ==
  ASSUME NEW w, NEW ep, NEW A, Ring(w, ep, A), NEW s \in Int, Len(w) = MaxRecent,
         \A i \in 1..Len(w) : s < w[i].sequence, IsFiniteSet(A)
  PROVE  Cardinality({c \in A : c.epoch = ep /\ c.evidence # NoFrame /\ c.seq > s}) >= MaxRecent
<1> DEFINE T == {c \in A : c.epoch = ep /\ c.evidence # NoFrame /\ c.seq > s}
           I == 1..Len(w)
           g == [i \in I |-> MarkAt(ep, w[i])]
<1>1. Len(w) \in Nat /\ MaxRecent \in Nat /\ \A i \in I : w[i].sequence \in Int /\ w[i].digest # NoFrame
  <2>1. Len(w) \in Nat /\ \A i \in I : w[i] \in Mark
    BY DEF Ring
  <2> QED  BY <2>1, BoundsAssumption, DataAssumption DEF Mark
<1>2. \A i \in I : /\ g[i].epoch = ep /\ g[i].seq = w[i].sequence /\ g[i].evidence = w[i].digest
                   /\ g[i] \in A
  BY DEF MarkAt, Ring
<1>3. \A i \in I : g[i] \in T
  <2> HIDE DEF g, I
  <2> QED  BY <1>1, <1>2 DEF I
<1>4. ASSUME NEW i \in I, NEW j \in I, g[i] = g[j]
      PROVE  i = j
  <2>1. w[i].sequence = w[j].sequence
    BY <1>2, <1>4
  <2>2. i \in Int /\ j \in Int
    BY <1>1
  <2>3. (i < j => w[i].sequence < w[j].sequence) /\ (j < i => w[j].sequence < w[i].sequence)
    BY DEF Ring
  <2> QED  BY <1>1, <2>1, <2>2, <2>3
<1>5. IsFiniteSet(T) /\ IsFiniteSet(I) /\ Cardinality(I) = Len(w)
  <2>1. IsFiniteSet(T)
    BY FS_Subset
  <2> QED  BY <1>1, <2>1, FS_Interval
<1>6. g \in Injection(I, T)
  BY <1>3, <1>4 DEF Injection, IsInjective
<1>7. Cardinality(I) <= Cardinality(T)
  BY <1>5, <1>6, FS_Injection DEF ExistsInjection
<1>8. Cardinality(T) \in Nat
  BY <1>5, FS_CardinalityType
<1> QED  BY <1>1, <1>5, <1>7, <1>8

LEMMA RefusalNamedRightly ==
  ASSUME NEW lane \in Lane, NEW q \in Position, NEW f \in Frames, NEW A \in SUBSET Coordinate,
         Ring(lane.recent, q.epoch, A), Apart(A), IsFiniteSet(A)
  PROVE  NamedRightly(Rejected(ReplayRefusal(lane, q, f)), A, q, f)
<1> DEFINE w == lane.recent
           kept == {i \in DOMAIN w : w[i].sequence = q.seq}
           past == {c \in A : c.epoch = q.epoch /\ c.evidence # NoFrame}
           there == {c \in past : c.seq = q.seq}
           beyond == {c \in past : c.seq > q.seq}
           refusal == ReplayRefusal(lane, q, f)
<1>1. /\ w \in Seq(Mark) /\ DOMAIN w = 1..Len(w) /\ Len(w) \in Nat
      /\ \A i \in 1..Len(w) : w[i] \in Mark /\ MarkAt(q.epoch, w[i]) \in A
  BY DEF Ring
<1>2. q.seq \in Int
  BY BoundsAssumption DEF Position
<1>3. ASSUME NEW i \in kept
      PROVE  /\ MarkAt(q.epoch, w[i]) \in there
             /\ \A c \in there : c.evidence = w[i].digest
             /\ \A j \in kept : j = i
  <2> DEFINE c == MarkAt(q.epoch, w[i])
  <2>1. i \in 1..Len(w) /\ w[i].sequence = q.seq /\ w[i].digest # NoFrame
    BY <1>1, DataAssumption DEF Mark
  <2>2. /\ c \in A /\ c.epoch = q.epoch /\ c.seq = q.seq /\ c.evidence = w[i].digest
    BY <1>1, <2>1 DEF MarkAt
  <2> HIDE DEF c
  <2>3. c \in there /\ \A x \in there : x = c
    BY <2>1, <2>2 DEF Apart
  <2>4. ASSUME NEW j \in kept
        PROVE  j = i
    <3>1. j \in 1..Len(w) /\ w[j].sequence = q.seq
      BY <1>1
    <3>2. (i < j => w[i].sequence < w[j].sequence) /\ (j < i => w[j].sequence < w[i].sequence)
      BY <2>1, <3>1 DEF Ring
    <3>3. i \in Int /\ j \in Int
      BY <2>1, <3>1
    <3> QED  BY <1>2, <2>1, <3>1, <3>2, <3>3
  <2> QED  BY <2>2, <2>3, <2>4 DEF c
<1>4. CASE kept = {}
  <2>1. refusal = "Reordered"
    BY <1>4 DEF ReplayRefusal
  <2>2. ASSUME NEW c \in there
        PROVE  Cardinality(beyond) >= MaxRecent
    <3>1. c \in A /\ c.epoch = q.epoch /\ c.evidence # NoFrame /\ c.seq = q.seq
      OBVIOUS
    <3>2. ~ \E i \in 1..Len(w) : w[i].sequence = c.seq
      BY <1>1, <1>4, <3>1
    <3>3. Forgotten(w, c)
      BY <3>1, <3>2 DEF Ring
    <3>4. beyond = {x \in A : x.epoch = q.epoch /\ x.evidence # NoFrame /\ x.seq > q.seq}
      OBVIOUS
    <3> HIDE DEF w, beyond
    <3> QED  BY <1>2, <3>1, <3>3, <3>4, RingCount DEF Forgotten, w
  <2>3. there = {} \/ Cardinality(beyond) >= MaxRecent
    BY <2>2
  <2> QED  BY <2>1, <2>3 DEF NamedRightly, Rejected
<1>5. CASE kept # {}
  <2> DEFINE newest == CHOOSE i \in kept : \A j \in kept : j <= i
  <2>1. newest \in kept
    <3>1. PICK i \in kept : TRUE
      BY <1>5
    <3>2. i \in Int
      BY <1>1
    <3>3. \A j \in kept : j <= i
      BY <1>3, <3>2
    <3> QED  BY <3>1, <3>3
  <2>2. refusal = IF w[newest].digest # f THEN "ConflictingReplay"
                  ELSE IF q.seq = lane.position.seq THEN "Duplicate" ELSE "Replay"
    BY <1>5 DEF ReplayRefusal
  <2> HIDE DEF newest
  <2>3. MarkAt(q.epoch, w[newest]) \in there /\ MarkAt(q.epoch, w[newest]).evidence = w[newest].digest
        /\ \A c \in there : c.evidence = w[newest].digest
    BY <1>3, <2>1 DEF MarkAt
  <2> HIDE DEF there, w, refusal, beyond, kept
  <2>4. CASE w[newest].digest # f
    <3>1. refusal = "ConflictingReplay" /\ there # {} /\ \A c \in there : c.evidence # f
      BY <2>2, <2>3, <2>4
    <3> QED  BY <3>1 DEF NamedRightly, Rejected, refusal, there
  <2>5. CASE w[newest].digest = f
    <3>1. refusal \in {"Duplicate", "Replay"} /\ \E c \in there : c.evidence = f
      BY <2>2, <2>3, <2>5
    <3> QED  BY <3>1 DEF NamedRightly, Rejected, refusal, there
  <2> QED  BY <2>4, <2>5
<1> QED  BY <1>4, <1>5

-----------------------------------------------------------------------------
(* The rings of all streams.                                                *)

Remembered(k) ==
  /\ IsFiniteSet(admitted[k]) /\ Apart(admitted[k])
  /\ lanes[k] # NoLane => Ring(lanes[k].recent, lanes[k].position.epoch, admitted[k])

RInv == ReplaysNamedRightly /\ \A k \in Keys : Remembered(k)

LEMMA AdmittedType ==
  ASSUME AInv, NEW k \in Keys
  PROVE  admitted \in [Keys -> SUBSET Coordinate] /\ admitted[k] \in SUBSET Coordinate
<1>1. admitted \in [Keys -> SUBSET Coordinate]
  BY DEF AInv, IInv, TypeOK, Coordinate
<1> QED  BY <1>1

LEMMA MovesRemembered ==
  ASSUME AInv, \A k \in Keys : Remembered(k), NEW k \in Keys, Moves(k)
  PROVE  (\A j \in Keys : Remembered(j))'
<1> PICK q \in Position, e \in Frames \cup {NoFrame} :
      /\ Reaches(k, lanes'[k], q, e)
      /\ \A j \in Keys \ {k} : SamePlace(lanes[j], lanes'[j])
      /\ admitted' = [admitted EXCEPT ![k] =
                        @ \cup {[epoch |-> q.epoch, seq |-> q.seq, evidence |-> e]}]
  BY DEF Moves
<1> DEFINE c0 == [epoch |-> q.epoch, seq |-> q.seq, evidence |-> e]
           A == admitted[k]
           w == RecentBefore(k, q)
<1>1. A \in SUBSET Coordinate /\ admitted'[k] = A \cup {c0}
      /\ \A j \in Keys \ {k} : admitted'[j] = admitted[j]
  BY AdmittedType
<1>2. c0.epoch = q.epoch /\ c0.seq = q.seq /\ c0.evidence = e
  OBVIOUS
<1>3. LegalMove(k, q) /\ lanes'[k].recent = RecentAt(k, q, e) /\ lanes'[k].position = q
  BY DEF Reaches
<1> HIDE DEF c0
<1>4. \A c \in A : <<c.epoch, c.seq>> # <<q.epoch, q.seq>>
  BY <1>3, MoveIsFresh
<1>5. Apart(A \cup {c0}) /\ IsFiniteSet(A \cup {c0})
  <2>1. Apart(A) /\ IsFiniteSet(A)
    BY DEF Remembered
  <2>2. Apart(A \cup {c0})
    BY <1>2, <1>4, <2>1 DEF Apart
  <2> QED  BY <2>1, <2>2, FS_AddElement
<1>6. Ring(w, q.epoch, A) /\ \A c \in A : c.epoch = q.epoch => c.seq < q.seq
  <2>1. CASE lanes[k] = NoLane \/ q.epoch # lanes[k].position.epoch
    <3>1. w = <<>>
      BY <2>1 DEF RecentBefore
    <3>2. \A c \in A : c.epoch # q.epoch
      <4>1. CASE lanes[k] = NoLane
        BY <4>1 DEF AInv, CoordinatesAccounted
      <4>2. CASE lanes[k] # NoLane
        BY <1>3, <2>1, <4>2 DEF LegalMove, AInv, CoordinatesAccounted
      <4> QED  BY <4>1, <4>2
    <3> QED  BY <3>1, <3>2, RingEmpty
  <2>2. CASE lanes[k] # NoLane /\ q.epoch = lanes[k].position.epoch
    <3>1. w = lanes[k].recent /\ Ring(w, q.epoch, A)
      BY <2>2 DEF RecentBefore, Remembered
    <3>2. lanes[k].position.epoch \in lanes[k].usedEpochs
      BY <2>2 DEF AInv, CoordinatesAccounted
    <3>3. q.seq = lanes[k].position.seq + 1
      BY <1>3, <2>2, <3>2 DEF LegalMove
    <3>4. lanes[k].position.seq \in Int
      BY <2>2, BoundsAssumption DEF AInv, IInv, Sound, Lanes, Lane, Position
    <3>5. ASSUME NEW c \in A, c.epoch = q.epoch
          PROVE  c.seq < q.seq
      <4>1. c.seq \in Int
        BY <1>1, BoundsAssumption DEF Coordinate
      <4>2. c.seq <= lanes[k].position.seq
        BY <2>2, <3>5 DEF AInv, CoordinatesAccounted
      <4> QED  BY <3>3, <3>4, <4>1, <4>2
    <3> QED  BY <3>1, <3>5
  <2> QED  BY <2>1, <2>2
<1>7. Ring(lanes'[k].recent, q.epoch, A \cup {c0})
  <2>1. CASE e = NoFrame
    <3>1. lanes'[k].recent = w
      BY <1>3, <2>1 DEF RecentAt
    <3> QED  BY <1>2, <1>6, <2>1, <3>1, RingKeeps
  <2>2. CASE e # NoFrame
    <3>1. lanes'[k].recent = Remember(w, q, e)
      BY <1>3, <2>2 DEF RecentAt
    <3>2. c0 = MarkAt(q.epoch, [sequence |-> q.seq, digest |-> e])
      BY DEF MarkAt, c0
    <3> HIDE DEF A, w
    <3> QED  BY <1>1, <1>6, <2>2, <3>1, <3>2, RingGrows
  <2> QED  BY <2>1, <2>2
<1>8. Remembered(k)'
  BY <1>1, <1>3, <1>5, <1>7 DEF Remembered
<1>9. \A j \in Keys \ {k} : Remembered(j)'
  BY <1>1 DEF Remembered, SamePlace
<1> QED  BY <1>8, <1>9

LEMMA StepRemembered ==
  ASSUME AInv, \A k \in Keys : Remembered(k), Steps
  PROVE  (\A k \in Keys : Remembered(k))'
<1>1. CASE Stays
  BY <1>1 DEF Stays, SamePlace, Remembered
<1> QED  BY <1>1, MovesRemembered DEF Steps

-----------------------------------------------------------------------------
(* The refusal a call commits.                                              *)

RightlyNamed(r, A) == NamedRightly(r.transition, A[KeyOf(r)], r.position, r.frame)

ReplayNames == {"Duplicate", "Replay", "ConflictingReplay", "Reordered"}

LEMMA OtherTransitions ==
  ASSUME NEW t, \A x \in ReplayNames : t # Rejected(x), NEW A, NEW q, NEW f
  PROVE  NamedRightly(t, A, q, f)
BY DEF NamedRightly, ReplayNames

LEMMA AcceptedNotReplays ==
  ASSUME NEW t, ~IsTerminal(t)
  PROVE  \A x : t # Rejected(x)
BY DEF IsTerminal, Rejected

LEMMA FaultedNotReplays ==
  ASSUME NEW y
  PROVE  \A x : Faulted(y) # Rejected(x)
<1>1. \A x : Faulted(y).kind # Rejected(x).kind
  BY DEF Faulted, Rejected
<1> QED  BY <1>1

LEMMA OtherRefusals ==
  ASSUME NEW x, x \notin ReplayNames
  PROVE  \A y \in ReplayNames : Rejected(x) # Rejected(y)
<1>1. \A y : Rejected(y).about = {y}
  BY DEF Rejected
<1> QED  BY <1>1

(* A step that commits r while nothing is latched, naming it rightly.       *)
LEMMA CommitNamed ==
  ASSUME TypeOK, FailsClosed, fault = NoFault, NEW r, Commit(r),
         IsTerminal(r.transition) => RightlyNamed(r, admitted')
  PROVE  ReplaysNamedRightly'
<1>1. ASSUME NEW i \in 1..Len(receipts')
      PROVE  RightlyNamed(receipts'[i], admitted')
  <2>1. CASE ~IsTerminal(receipts'[i].transition)
    BY <2>1, AcceptedNotReplays, OtherTransitions DEF RightlyNamed
  <2>2. CASE IsTerminal(receipts'[i].transition)
    <3>1. receipts'[i] = r
      BY <2>2, OnlyLastTerminal
    <3> QED  BY <2>2, <3>1
  <2> QED  BY <2>1, <2>2
<1> QED  BY <1>1 DEF ReplaysNamedRightly, RightlyNamed, NamedRightly

(* One that commits nothing while nothing is latched.                       *)
LEMMA UncommittedNamed ==
  ASSUME FailsClosed, fault = NoFault, UNCHANGED receipts
  PROVE  ReplaysNamedRightly'
<1>1. ASSUME NEW i \in 1..Len(receipts')
      PROVE  RightlyNamed(receipts'[i], admitted')
  BY AcceptedNotReplays, OtherTransitions DEF FailsClosed, RightlyNamed
<1> QED  BY <1>1 DEF ReplaysNamedRightly, RightlyNamed, NamedRightly

LEMMA AcceptNamed ==
  ASSUME TypeOK, FailsClosed, fault = NoFault, NEW error, NEW next, NEW m, NEW q, NEW t, NEW f,
         NEW a, ~IsTerminal(t), Accept(error, next, m, q, t, f, a)
  PROVE  ReplaysNamedRightly'
<1> DEFINE r == ReceiptFor(m, q, t, f, f # NoFrame)
<1>1. CASE Commit(r)
  <2>1. ~IsTerminal(r.transition)
    BY DEF ReceiptFor
  <2> QED  BY <1>1, <2>1, CommitNamed
<1>2. CASE UNCHANGED log
  BY <1>2, UncommittedNamed DEF log
<1> QED  BY <1>1, <1>2 DEF Accept

LEMMA TerminateNamed ==
  ASSUME TypeOK, FailsClosed, fault = NoFault, NEW error, NEW next, NEW m, NEW q, NEW t, NEW f,
         NEW reason, NamedRightly(t, admitted'[<<m, q.stream>>], q, f),
         Terminate(error, next, m, q, t, f, reason)
  PROVE  ReplaysNamedRightly'
<1> DEFINE r == ReceiptFor(m, q, t, f, FALSE)
<1>1. CASE Commit(r)
  <2>1. r.transition = t /\ r.position = q /\ r.frame = f /\ KeyOf(r) = <<m, q.stream>>
    BY DEF ReceiptFor, KeyOf
  <2>2. RightlyNamed(r, admitted')
    BY <2>1 DEF RightlyNamed
  <2> HIDE DEF r
  <2> QED  BY <1>1, <2>2, CommitNamed
<1>2. CASE UNCHANGED log
  BY <1>2, UncommittedNamed DEF log
<1> QED  BY <1>1, <1>2 DEF Terminate

(* A handler that prepares the lanes as they are leaves every coordinate.   *)
LEMMA NothingNoted ==
  ASSUME AInv, NEW e, Note(lanes, e)
  PROVE  admitted' = admitted
<1>1. admitted \in [Keys -> SUBSET Coordinate]
  BY DEF AInv, IInv, TypeOK, Coordinate
<1> QED  BY <1>1 DEF Note

LEMMA AdmissionNamedRightly ==
  ASSUME AInv, RInv, NEW q \in Position, NEW f \in Frames,
         AdmissionRefusal(<<f.producer, q.stream>>, q, f) # "none"
  PROVE  LET k == <<f.producer, q.stream>>
         IN  NamedRightly(Rejected(AdmissionRefusal(k, q, f)), admitted[k], q, f)
<1> DEFINE k == <<f.producer, q.stream>>
           lane == lanes[k]
           refusal == AdmissionRefusal(k, q, f)
<1>1. k \in Keys
  BY FrameType DEF Keys, Position
<1>2. CASE refusal \notin ReplayNames
  BY <1>2, OtherRefusals, OtherTransitions
<1>3. CASE refusal \in ReplayNames
  <2>1. lanes[k] # NoLane /\ q.epoch = lane.position.epoch /\ refusal = ReplayRefusal(lane, q, f)
    <3>1. RolloverRefusal(k, q) \notin ReplayNames
      BY DEF RolloverRefusal, ReplayNames
    <3>2. \A reasons : GenerationRefusal(lane, q, reasons) \notin ReplayNames
      BY DEF GenerationRefusal, ReplayNames
    <3>3. {"StreamCapacity", "StateGenerationMismatch", "ClockDomainChanged", "none",
           "ForwardSequenceGap", "NonIncreasingTimestamp"} \cap ReplayNames = {}
      BY DEF ReplayNames
    <3> QED  BY <1>3, <3>1, <3>2, <3>3 DEF AdmissionRefusal
  <2>2. lane \in Lane
    BY <1>1, <2>1 DEF AInv, IInv, Sound, Lanes
  <2>3. /\ Ring(lane.recent, q.epoch, admitted[k]) /\ Apart(admitted[k])
        /\ IsFiniteSet(admitted[k])
    BY <1>1, <2>1 DEF RInv, Remembered
  <2>4. admitted[k] \in SUBSET Coordinate
    BY <1>1, AdmittedType
  <2> HIDE DEF k, lane, refusal
  <2> QED  BY <2>1, <2>2, <2>3, <2>4, RefusalNamedRightly DEF refusal, k
<1> QED  BY <1>2, <1>3

LEMMA AssessAtNamed ==
  ASSUME AInv, RInv, FailsClosed, fault = NoFault, NEW error, NEW q \in Position,
         NEW f \in Frames, AssessAt(error, q, f)
  PROVE  ReplaysNamedRightly'
<1> DEFINE k == <<f.producer, q.stream>>
           defect == FrameFault(q, f)
           refusal == AdmissionRefusal(k, q, f)
<1>1. TypeOK
  BY DEF AInv, IInv
<1>2. CASE FailSilently(error, "InvalidFrame")
  BY <1>2, UncommittedNamed DEF FailSilently, log
<1>3. ASSUME NEW next, NEW x, Terminate(error, next, f.producer, q, Faulted(x), f, x)
      PROVE  ReplaysNamedRightly'
  <2>1. NamedRightly(Faulted(x), admitted'[k], q, f)
    BY FaultedNotReplays, OtherTransitions
  <2> QED  BY <1>1, <1>3, <2>1, TerminateNamed
<1>4. CASE refusal # "none" /\ Terminate(error, lanes, f.producer, q, Rejected(refusal), f, refusal)
  <2>1. admitted' = admitted
    BY <1>4, NothingNoted DEF Terminate
  <2>2. NamedRightly(Rejected(refusal), admitted'[k], q, f)
    BY <1>4, <2>1, AdmissionNamedRightly
  <2> HIDE DEF refusal
  <2> QED  BY <1>1, <1>4, <2>2, TerminateNamed
<1>5. ASSUME NEW next, NEW t, NEW a, ~IsTerminal(t), Accept(error, next, f.producer, q, t, f, a)
      PROVE  ReplaysNamedRightly'
  BY <1>1, <1>5, AcceptNamed
<1>6. CASE Admits(error, q, f)
  BY <1>3, <1>5, <1>6, AdmissionCommittable DEF Admits
<1> QED  BY <1>2, <1>3, <1>4, <1>6 DEF AssessAt

(* A control call is never refused as a replay.                             *)
LEMMA ControlNamed ==
  ASSUME AInv, FailsClosed, fault = NoFault, NEW next, NEW m, NEW q, NEW x, x \notin ReplayNames,
         Terminate("error", next, m, q, Rejected(x), NoFrame, x)
  PROVE  ReplaysNamedRightly'
<1>1. NamedRightly(Rejected(x), admitted'[<<m, q.stream>>], q, NoFrame)
  BY OtherRefusals, OtherTransitions
<1> QED  BY <1>1, TerminateNamed DEF AInv, IInv

LEMMA NextNamed ==
  ASSUME AInv, RInv, FailsClosed, [Next]_vars
  PROVE  ReplaysNamedRightly'
<1>1. ASSUME NEW f \in Frames, AssessFrame(f)
      PROVE  ReplaysNamedRightly'
  <2>1. CASE FailSilently("frame_error", "InvalidFrame") \/ FailSilently("frame_error", "InvalidPosition")
    BY <1>1, <2>1, UncommittedNamed DEF FailSilently, log, AssessFrame
  <2>2. CASE LegacyPositionValid(f) /\ AssessAt("frame_error", LegacyPosition(f), f)
    BY <1>1, <2>2, LegacyPositionType, AssessAtNamed DEF AssessFrame, AInv
  <2> QED  BY <1>1, <2>1, <2>2 DEF AssessFrame
<1>2. ASSUME NEW c \in Placed, AssessPositionedFrame(c[1], c[2])
      PROVE  ReplaysNamedRightly'
  <2>1. c[1] \in Position /\ c[2] \in Frames
    BY DataAssumption
  <2> QED  BY <1>2, <2>1, AssessAtNamed DEF AssessPositionedFrame
<1>3. ASSUME NEW m, NEW q, NEW reason, ControlReset(m, q, reason)
      PROVE  ReplaysNamedRightly'
  <2>1. "InvalidResetSuccessor" \notin ReplayNames /\ ~IsTerminal(ResetFor({reason}))
    BY DEF ReplayNames, IsTerminal, ResetFor
  <2>2. fault = NoFault /\ TypeOK
    BY <1>3 DEF ControlReset, AInv, IInv
  <2> QED  BY <1>3, <2>1, <2>2, ControlNamed, AcceptNamed DEF ControlReset
<1>4. ASSUME NEW m, NEW q, RolloverAt(m, q)
      PROVE  ReplaysNamedRightly'
  <2>1. /\ RolloverRefusal(<<m, q.stream>>, q) \notin ReplayNames
        /\ ~IsTerminal(RolledOver(lanes[<<m, q.stream>>].position.epoch))
    BY DEF ReplayNames, IsTerminal, RolledOver, RolloverRefusal
  <2>2. fault = NoFault /\ TypeOK
    BY <1>4 DEF RolloverAt, AInv, IInv
  <2> QED  BY <1>4, <2>1, <2>2, ControlNamed, AcceptNamed DEF RolloverAt
<1>5. CASE ControlUnknownProducer
  BY <1>5, UncommittedNamed DEF ControlUnknownProducer, FailSilently, log
<1>6. CASE ClearHistories \/ ReturnFault \/ UNCHANGED vars
  <2>1. receipts' = receipts /\ admitted' = admitted
    BY <1>6 DEF ClearHistories, ReturnFault, vars, log
  <2>2. \A i \in 1..Len(receipts) : RightlyNamed(receipts[i], admitted)
    BY DEF RInv, ReplaysNamedRightly, RightlyNamed, NamedRightly
  <2>3. \A i \in 1..Len(receipts') : RightlyNamed(receipts'[i], admitted')
    BY <2>1, <2>2
  <2> QED  BY <2>3 DEF ReplaysNamedRightly, RightlyNamed, NamedRightly
<1> QED  BY <1>1, <1>2, <1>3, <1>4, <1>5, <1>6 DEF Next, ResetAt, TimeoutAt

(* However many frames, resets and rollovers lie between, and whatever the  *)
(* ring has forgotten, a replayed frame is refused under the name its own   *)
(* history deserves (remember_frame against classify_admission).            *)
THEOREM ReplaysAlwaysNamedRightly == Spec => []ReplaysNamedRightly
<1>1. Init => RInv
  <2>1. IsFiniteSet({}) /\ Apart({})
    BY FS_EmptySet DEF Apart
  <2> QED  BY <2>1 DEF Init, RInv, ReplaysNamedRightly, Remembered
<1>2. AInv /\ LogInv /\ RInv /\ [Next]_vars => RInv'
  BY NextSteps, StepRemembered, NextNamed DEF RInv, LogInv
<1>3. AInv /\ LogInv /\ [Next]_vars => LogInv'
  BY NextLog DEF AInv
<1>4. RInv => ReplaysNamedRightly
  BY DEF RInv
<1> QED  BY <1>1, <1>2, <1>3, <1>4, InitAccounted, InitLog, NextAccounted, PTL DEF Spec

-----------------------------------------------------------------------------
(***************************************************************************)
(* What is reported of a frame and what is kept of it.                     *)
(***************************************************************************)

ReportInv == ReportsMatchWindows /\ (fault # NoFault => outcome.answer # "assessed")

LEMMA SlideLength ==
  ASSUME NEW S, NEW w \in Seq(S), NEW s \in S
  PROVE  Slide(w, s) # <<>> /\ (Len(Slide(w, s)) = 1 <=> w = <<>>)
<1>1. CASE w = <<>>
  <2>1. Slide(w, s) = <<s>>
    BY <1>1, SlideEmpty
  <2> QED  BY <1>1, <2>1
<1>2. CASE w # <<>> /\ Len(w) >= HistoryFrames
  <2>1. Tail(w) \in Seq(S) /\ Len(Tail(w)) = Len(w) - 1 /\ Len(w) \in Nat /\ Len(w) >= 2
    BY <1>2, BoundsAssumption
  <2>2. Len(Slide(w, s)) = Len(w)
    BY <1>2, <2>1 DEF Slide
  <2> QED  BY <1>2, <2>1, <2>2
<1>3. CASE w # <<>> /\ ~(Len(w) >= HistoryFrames)
  <2>1. Len(w) \in Nat /\ Len(w) >= 1
    BY <1>3
  <2>2. Len(Slide(w, s)) = Len(w) + 1
    BY <1>3 DEF Slide
  <2> QED  BY <1>3, <2>1, <2>2
<1> QED  BY <1>1, <1>2, <1>3

(* An admission that resets a history has emptied every window of the lane. *)
LEMMA ResetEmpties ==
  ASSUME NEW k \in Keys, lanes \in Lanes, NEW q \in Position, NEW f \in Frames,
         ResetsHistory(AdmissionOf(k, q, f))
  PROVE  AppliedLane(k, q, AdmissionOf(k, q, f)).tracks = NoTracks
<1> DEFINE t == AdmissionOf(k, q, f)
<1>1. CASE lanes[k] = NoLane
  BY <1>1 DEF AdmissionOf, AppliedLane, Initialized, NewLane
<1>2. CASE lanes[k] # NoLane
  <2>1. lanes[k] \in Lane
    BY <1>2 DEF Lanes
  <2>2. CASE t.kind = "Reset"
    <3>1. AppliedLane(k, q, t) = [lanes[k] EXCEPT !.tracks = NoTracks]
      BY <2>2 DEF AppliedLane
    <3> QED  BY <2>1, <3>1 DEF Lane
  <2>3. CASE t.kind = "EpochRolledOver"
    BY <2>3 DEF AppliedLane, RolledOverLane
  <2>4. t.kind \in {"Advanced", "EpochRolledOver", "Reset"}
    BY <1>2 DEF AdmissionOf, Advanced, RolledOver, ResetFor
  <2> QED  BY <2>2, <2>3, <2>4 DEF ResetsHistory
<1> QED  BY <1>1, <1>2

LEMMA AssessedReports ==
  ASSUME NEW k \in Keys, lanes \in Lanes, NEW q \in Position, NEW f \in Frames,
         NEW t, NEW lane \in Lane, ResetsHistory(t) => lane.tracks = NoTracks,
         NEW x \in Tracks
  PROVE  LET a == Assessments(lane, q, f, t)
             w == AssessedLane(lane, q, f).tracks[x]
         IN IF x \in DOMAIN a /\ a[x].kind = "Evaluated"
            THEN /\ a[x].position = q /\ w # <<>>
                 /\ a[x].historyReset <=> Len(w) = 1
                 /\ ResetsHistory(t) => a[x].historyReset
            ELSE w = <<>>
<1> DEFINE a == Assessments(lane, q, f, t)
           w == AssessedLane(lane, q, f).tracks[x]
           Sam == [at |-> q, under |-> f.under]
<1>1. AssessedLane(lane, q, f).tracks = Windows(lane, q, f)
  BY DEF AssessedLane, Lane
<1>2. Sam \in Sample /\ lane.tracks[x] \in Seq(Sample)
  BY FrameType DEF Sample, Lane
<1>3. DOMAIN a = DOMAIN f.roster
  BY DEF Assessments
<1>4. CASE x \in Evaluated(f)
  <2>1. w = Slide(lane.tracks[x], Sam)
    BY <1>1, <1>4 DEF Windows
  <2>2. x \in DOMAIN a
    BY <1>3, <1>4 DEF Evaluated
  <2> DEFINE reset == ResetsHistory(t) \/ lane.tracks[x] = <<>>
  <2>3. a[x] = [kind |-> "Evaluated", seq |-> f.seq, position |-> q, historyReset |-> reset]
    BY <1>4 DEF Assessments, Evaluated
  <2>4. w # <<>> /\ (Len(w) = 1 <=> lane.tracks[x] = <<>>)
    BY <1>2, <2>1, SlideLength
  <2>5. ResetsHistory(t) => lane.tracks[x] = <<>>
    BY DEF NoTracks
  <2> HIDE DEF a, w, reset
  <2>6. a[x].kind = "Evaluated" /\ a[x].position = q /\ a[x].historyReset = reset
    BY <2>3
  <2>7. (reset <=> Len(w) = 1) /\ (ResetsHistory(t) => reset)
    BY <2>4, <2>5, Zenon DEF reset
  <2> QED  BY <2>2, <2>4, <2>6, <2>7, Zenon DEF a, w
<1>5. CASE x \notin Evaluated(f)
  <2>1. w = <<>>
    BY <1>1, <1>5 DEF Windows
  <2>2. x \in DOMAIN a => a[x].kind = "Abstained"
    BY <1>3, <1>5 DEF Assessments, Evaluated
  <2> QED  BY <2>1, <2>2
<1> QED  BY <1>4, <1>5

(* Any ending but an accepted frame reports nothing.                        *)
LEMMA SilentReports ==
  ASSUME NEW error \in Errors, NEW next, NEW m, NEW q, NEW t, NEW f, NEW x,
         \/ FailSilently(error, x)
         \/ Terminate(error, next, m, q, t, f, x)
         \/ Accept(error, next, m, q, t, NoFrame, x)
  PROVE  ReportInv'
<1>1. outcome'.answer # "assessed"
  <2>1. ASSUME NEW l, NEW r, Latch(error, l, r)
        PROVE  outcome'.answer # "assessed"
    BY <2>1 DEF Latch, Errors
  <2>2. \/ \E l, r : Latch(error, l, r)
        \/ outcome' = [answer |-> "receipted", assessments |-> x]
    BY DEF FailSilently, Terminate, Accept
  <2> QED  BY <2>1, <2>2
<1> QED  BY <1>1 DEF ReportInv, ReportsMatchWindows

LEMMA AdmitsReports ==
  ASSUME IInv, fault = NoFault, NEW error \in Errors, NEW q \in Position, NEW f \in Frames,
         AdmissionRefusal(<<f.producer, q.stream>>, q, f) = "none", q.ts = f.ts,
         Admits(error, q, f)
  PROVE  ReportInv'
<1> DEFINE k == <<f.producer, q.stream>>
           t == AdmissionOf(k, q, f)
           lane == AppliedLane(k, q, t)
           assessed == AssessedLane(lane, q, f)
           r == ReceiptFor(f.producer, q, t, f, f # NoFrame)
<1>1. k \in Keys /\ Sound(lanes) /\ lanes \in Lanes /\ TypeOK
  BY FrameType DEF Keys, Position, IInv, Sound
<1>2. lane \in Lane /\ (ResetsHistory(t) => lane.tracks = NoTracks)
  BY <1>1, AppliedLaneSound, ResetEmpties
<1>3. CASE Terminate(error, [lanes EXCEPT ![k] = lane], f.producer, q,
                     Faulted("Assessment"), f, "Assessment")
  BY <1>3, SilentReports
<1>4. CASE Latch(error, [lanes EXCEPT ![k] = assessed], "ReceiptIndexExhausted")
  BY <1>4 DEF Latch, Errors, ReportInv, ReportsMatchWindows
<1>5. CASE /\ Commit(r)
           /\ lanes' = [lanes EXCEPT ![k] = assessed]
           /\ outcome' = [answer |-> IF f = NoFrame THEN "receipted" ELSE "assessed",
                           assessments |-> Assessments(lane, q, f, t)]
           /\ UNCHANGED fault
  <2>1. receipts'[Len(receipts')] = r
    BY <1>1, <1>5, CommitShape
  <2>2. KeyOf(r) = k /\ r.position = q /\ r.transition = t
    BY DEF KeyOf, ReceiptFor
  <2>3. lanes'[k] = assessed /\ outcome'.assessments = Assessments(lane, q, f, t)
    BY <1>1, <1>5 DEF Lanes
  <2>4. \A x \in Tracks :
          LET a == Assessments(lane, q, f, t)
              w == assessed.tracks[x]
          IN IF x \in DOMAIN a /\ a[x].kind = "Evaluated"
             THEN /\ a[x].position = q /\ w # <<>>
                  /\ a[x].historyReset <=> Len(w) = 1
                  /\ ResetsHistory(t) => a[x].historyReset
             ELSE w = <<>>
    BY <1>1, <1>2, AssessedReports
  <2> HIDE DEF k, t, lane, assessed, r
  <2> QED  BY <1>5, <2>1, <2>2, <2>3, <2>4 DEF ReportInv, ReportsMatchWindows
<1> QED  BY <1>3, <1>4, <1>5 DEF Admits, Accept

LEMMA AssessAtReports ==
  ASSUME IInv, fault = NoFault, NEW error \in Errors, NEW q \in Position, NEW f \in Frames,
         AssessAt(error, q, f)
  PROVE  ReportInv'
<1>1. CASE FailSilently(error, "InvalidFrame")
  BY <1>1, SilentReports
<1>2. ASSUME NEW t, NEW reason, Terminate(error, lanes, f.producer, q, t, f, reason)
      PROVE  ReportInv'
  BY <1>2, SilentReports
<1>3. CASE /\ FrameFault(q, f) = "none" /\ Admits(error, q, f)
           /\ AdmissionRefusal(<<f.producer, q.stream>>, q, f) = "none"
  <2>1. q.ts = f.ts
    BY <1>3 DEF FrameFault
  <2> QED  BY <1>3, <2>1, AdmitsReports
<1> QED  BY <1>1, <1>2, <1>3 DEF AssessAt

LEMMA NextReports ==
  ASSUME IInv, ReportInv, [Next]_vars
  PROVE  ReportInv'
<1>1. "error" \in Errors /\ "frame_error" \in Errors
  BY DEF Errors
<1>2. ASSUME NEW f \in Frames, AssessFrame(f)
      PROVE  ReportInv'
  <2>1. CASE FailSilently("frame_error", "InvalidFrame") \/ FailSilently("frame_error", "InvalidPosition")
    BY <1>1, <2>1, SilentReports
  <2>2. CASE LegacyPositionValid(f) /\ AssessAt("frame_error", LegacyPosition(f), f)
    BY <1>1, <1>2, <2>2, LegacyPositionType, AssessAtReports DEF AssessFrame
  <2> QED  BY <1>2, <2>1, <2>2 DEF AssessFrame
<1>3. ASSUME NEW c \in Placed, AssessPositionedFrame(c[1], c[2])
      PROVE  ReportInv'
  <2>1. c[1] \in Position /\ c[2] \in Frames
    BY DataAssumption
  <2> QED  BY <1>1, <1>3, <2>1, AssessAtReports DEF AssessPositionedFrame
<1>4. ASSUME NEW m, NEW q, ResetAt(m, q) \/ TimeoutAt(m, q) \/ RolloverAt(m, q)
      PROVE  ReportInv'
  BY <1>1, <1>4, SilentReports DEF ResetAt, TimeoutAt, ControlReset, RolloverAt
<1>5. CASE ControlUnknownProducer
  BY <1>1, <1>5, SilentReports DEF ControlUnknownProducer
<1>6. CASE ClearHistories
  BY <1>6 DEF ClearHistories, ReportInv, ReportsMatchWindows
<1>7. CASE ReturnFault \/ UNCHANGED vars
  <2>1. UNCHANGED vars
    BY <1>7 DEF ReturnFault
  <2> QED  BY <2>1 DEF vars, log, ReportInv, ReportsMatchWindows
<1> QED  BY <1>2, <1>3, <1>4, <1>5, <1>6, <1>7 DEF Next

(* Whatever calls came before, the assessments a frame's call returns say   *)
(* of every track what the detector then keeps of it (assess_lane).         *)
THEOREM ReportsAlwaysMatchWindows == Spec => []ReportsMatchWindows
<1>1. Init => ReportInv
  BY DEF Init, ReportInv, ReportsMatchWindows
<1>2. ReportInv => ReportsMatchWindows
  BY DEF ReportInv
<1>3. IInv /\ ReportInv /\ [Next]_vars => ReportInv'
  BY NextReports
<1> QED  BY <1>1, <1>2, <1>3, InitInv, NextInv, PTL DEF Spec
=============================================================================
