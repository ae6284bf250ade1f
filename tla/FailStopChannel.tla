--------------------------- MODULE FailStopChannel ---------------------------
(***************************************************************************)
(* What the consumer of one monitor epoch is promised, without saying how: *)
(* events come one by one in producer order with no gap and no repeat, at  *)
(* local times that never go back; the first fault ends the channel, and   *)
(* from then on the consumer is told that fault and receives no event, not *)
(* even one that was already waiting.  MonitorIngress.tla implements this. *)
(***************************************************************************)
EXTENDS Integers, Sequences

CONSTANTS
  None,
  Instants    \* local times

VARIABLES
  delivered,  \* what the consumer received, each with its number and its time
  broken,     \* the fault that ended the channel, or None
  told        \* what the consumer was told of it, or None

vars == <<delivered, broken, told>>

Init == delivered = <<>> /\ broken = None /\ told = None

Deliver ==
  /\ broken = None
  /\ \E t \in Instants :
       /\ delivered # <<>> => delivered[Len(delivered)].ordered <= t
       /\ delivered' = Append(delivered, [seq |-> Len(delivered) + 1, ordered |-> t])
  /\ UNCHANGED <<broken, told>>

(* Whoever finds the fault may be the consumer itself.                      *)
Break ==
  /\ broken = None
  /\ broken' # None
  /\ told' \in {told, broken'}
  /\ UNCHANGED delivered

Tell ==
  /\ broken # None
  /\ told' = broken
  /\ UNCHANGED <<delivered, broken>>

Next == Deliver \/ Break \/ Tell

Spec == Init /\ [][Next]_vars
=============================================================================
