--------------------------- MODULE StreamAdmission ---------------------------
(***************************************************************************)
(* What the lifecycle boundary promises about stream positions, without    *)
(* saying how: every logical stream moves through positions one at a time, *)
(* each the exact successor of the one before or the origin of an epoch    *)
(* the stream has never used, so no position is ever taken twice; at most  *)
(* MaxStreams streams are ever open; and the first refusal stops the whole *)
(* boundary for good.  Lifecycle.tla implements this specification.        *)
(***************************************************************************)
EXTENDS Integers, FiniteSets

CONSTANTS
  Keys,         \* logical streams
  MaxStreams,   \* streams that may be open at once
  Unopened      \* the position of a stream that is not open

VARIABLES
  current,      \* the active position of every stream: a record with the
                \* fields epoch, gen, seq, ts and clock, or Unopened
  spent,        \* the <<epoch, sequence>> coordinates a stream has taken
  halted        \* a terminal refusal happened

vars == <<current, spent, halted>>

Opened == {k \in Keys : current[k] # Unopened}

Init ==
  /\ current = [k \in Keys |-> Unopened]
  /\ spent = [k \in Keys |-> {}]
  /\ halted = FALSE

(* A stream opens at generation zero, at any sequence, while there is room. *)
Opens(k, q) ==
  /\ current[k] = Unopened
  /\ Cardinality(Opened) < MaxStreams
  /\ q.gen = 0

(* The next position of the epoch: the generation may advance by one.       *)
Continues(k, q) ==
  /\ current[k] # Unopened
  /\ q.epoch = current[k].epoch
  /\ q.clock = current[k].clock
  /\ q.seq = current[k].seq + 1
  /\ q.gen \in {current[k].gen, current[k].gen + 1}
  /\ q.ts > current[k].ts

(* The origin of an epoch this stream has never used.                       *)
RollsOver(k, q) ==
  /\ current[k] # Unopened
  /\ q.clock = current[k].clock
  /\ q.seq = 0
  /\ q.gen = 0
  /\ \A c \in spent[k] : c[1] # q.epoch

(* Stream k, and no other, takes the position it has in the next state.     *)
Move(k) ==
  LET q == current'[k] IN
  /\ q # Unopened
  /\ Opens(k, q) \/ Continues(k, q) \/ RollsOver(k, q)
  /\ current' = [current EXCEPT ![k] = q]
  /\ spent' = [spent EXCEPT ![k] = @ \cup {<<q.epoch, q.seq>>}]

Admit(k) ==
  /\ ~halted
  /\ Move(k)
  /\ UNCHANGED halted

(* The terminal step: it may still have moved the stream it was handling.   *)
Halt ==
  /\ ~halted
  /\ halted' = TRUE
  /\ \/ UNCHANGED <<current, spent>>
     \/ \E k \in Keys : Move(k)

Next == (\E k \in Keys : Admit(k)) \/ Halt

Spec == Init /\ [][Next]_vars
=============================================================================
