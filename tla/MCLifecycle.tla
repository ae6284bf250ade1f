----------------------------- MODULE MCLifecycle -----------------------------
(* Small instances of Lifecycle for TLC: the frames and positions presented.
   Three instances ask three questions: what is retained per track (Window...),
   what is admitted on one stream (Replay...), and how streams share one log
   (Stream...).                                                             *)
EXTENDS Lifecycle, TLC

CONSTANTS fusion, mono, sim, c1, c2, visual, radar, thermal

Pair == {visual, radar}
Triple == {visual, radar, thermal}
Suites == {Pair, Triple}

Under(c, m) == [frame |-> c1, context |-> c, registry |-> c1, modalities |-> m]

At(stream, e, g, s, t, c) ==
  [stream |-> stream, epoch |-> e, gen |-> g, seq |-> s, ts |-> t, clock |-> c]

FrameOf(m, e, s, t, under, roster, defect) ==
  [producer |-> m, epoch |-> e, seq |-> s, ts |-> t, under |-> under,
   roster |-> roster, defect |-> defect]

(* The position that matches a frame on the legacy stream.                   *)
Matching(f, g) == At(fusion, f.epoch, g, f.seq, f.ts, mono)

(* Every track assessable in all of m; one of them not; that one absent.     *)
FirstTrack == CHOOSE t \in Tracks : TRUE
FirstEpoch == CHOOSE e \in Epochs : TRUE
Whole(m) == [t \in Tracks |-> m]
Partial(m) == [t \in Tracks |-> IF t = FirstTrack THEN {visual} ELSE m]
Absent(m) == [t \in Tracks \ {FirstTrack} |-> m]

-----------------------------------------------------------------------------
(* Two timestamps per sequence: the late one is past the gap allowed after    *)
(* an early one, and an early one may not follow it.                         *)
Times(s) == {s, s + 2} \cap 0..MaxTimestamp

WindowFrames ==
  UNION {{FrameOf(m, e, s, t, Under(c1, Pair), r, "none") :
            t \in Times(s), r \in {Whole(Pair), Partial(Pair), Absent(Pair)}} :
          m \in Producers, e \in Epochs, s \in 0..MaxSequence}
  \cup {FrameOf(m, e, s, s, u, Whole(u.modalities), "none") :
          m \in Producers, e \in Epochs, s \in 0..MaxSequence,
          u \in {Under(c2, Pair), Under(c1, Triple)}}

WindowPlaced ==
  {<<Matching(f, g), f>> : g \in 0..MaxGeneration,
     f \in {x \in WindowFrames : x.under = Under(c1, Pair) /\ x.roster = Whole(Pair)}}

WindowPositions ==
  {At(fusion, e, 1, s, s, mono) : e \in Epochs, s \in 0..MaxSequence}

-----------------------------------------------------------------------------
ReplayFrames ==
  {FrameOf(m, e, s, s, Under(c, Pair), Whole(Pair), "none") :
     m \in Producers, e \in Epochs, s \in 0..MaxSequence, c \in {c1, c2}}
  \cup {FrameOf(m, e, 1, 1, Under(c1, Pair), Whole(Pair), d) :
     m \in Producers, e \in Epochs, d \in Defects \ {"none"}}

ReplayPlaced ==
  {<<Matching(f, g), f>> : g \in 0..MaxGeneration,
     f \in {x \in ReplayFrames : x.under = Under(c1, Pair) /\ x.defect = "none"}}
  \cup {<<[Matching(f, 0) EXCEPT !.clock = sim], f>> :
     f \in {x \in ReplayFrames : x.under = Under(c1, Pair) /\ x.seq = 0 /\ x.defect = "none"}}
  \cup {<<[Matching(f, 0) EXCEPT !.seq = 0], f>> :
     f \in {x \in ReplayFrames : x.under = Under(c1, Pair) /\ x.seq = 1}}

ReplayPositions ==
  {At(fusion, e, g, s, s, mono) :
     e \in Epochs, g \in 0..MaxGeneration, s \in 0..MaxSequence}

-----------------------------------------------------------------------------
(* Two producers on two streams each, with room for two.                     *)
StreamFrames ==
  {FrameOf(m, e, s, s, Under(c1, Pair), r, "none") :
     m \in Producers, e \in Epochs, s \in 0..MaxSequence,
     r \in {Whole(Pair), [t \in {FirstTrack} |-> Pair]}}

StreamPlaced ==
  {<<[Matching(f, 0) EXCEPT !.stream = x], f>> :
     x \in Streams \ {fusion},
     f \in {y \in StreamFrames : y.epoch = FirstEpoch}}

StreamPositions ==
  {At(x, e, IF e = FirstEpoch THEN 1 ELSE 0, s, s, mono) :
     x \in Streams, e \in Epochs, s \in 0..MaxSequence}

Interchangeable == Permutations(Producers)
=============================================================================
