-------------------------- MODULE MCMonitorIngress ---------------------------
(***************************************************************************)
(* A small monitor epoch: four events that may come in any order and more  *)
(* than once, payloads with a defect of their own, a reorder table of two  *)
(* and a handoff of three, a deadline of two.  Beside it, never moving in  *)
(* the same behaviour, a tap that owns its bus with three subscribers and  *)
(* two closers.                                                            *)
(***************************************************************************)
EXTENDS MonitorIngress, MonitorTap

MCInit == Init /\ TapInit
MCNext ==
  \/ TapInit /\ Next /\ UNCHANGED tapVars
  \/ Init /\ TapNext /\ UNCHANGED vars

(* The fairness of the epoch, in the behaviours it moves in.                *)
MCFairness ==
  /\ WF_vars(TapInit /\ HandOver) /\ WF_vars(TapInit /\ TimerStep)
  /\ WF_vars(TapInit /\ ReceivingStep) /\ WF_vars(TapInit /\ Tick)

MCSpec == MCInit /\ [][MCNext]_<<vars, tapVars>> /\ MCFairness
=============================================================================
