----------------------------- MODULE MonitorTap ------------------------------
(***************************************************************************)
(* A MonitorTap of crates/galadriel-ncp/src/monitor_live.rs that owns its  *)
(* bus: tasks subscribe through it and give their receivers up again, while*)
(* other tasks close it.  Its MonitorTapLifecycle is a mutex nobody awaits *)
(* under; declaring a subscriber and closing the bus are awaits, at which  *)
(* the caller may also drop the call.                                      *)
(*                                                                         *)
(* Nothing panics under this mutex, so its poison is left out.  A tap on a *)
(* bus of the host refuses to close it.                                    *)
(***************************************************************************)
EXTENDS Naturals, FiniteSets

CONSTANTS Subscribers, Closers    \* tasks

VARIABLES
  lifecycle,   \* MonitorTapLifecycle
  holding,     \* how far the subscription of each subscriber is
  closing,     \* how far the close of each closer is
  busOpen      \* the session of the bus

tapVars == <<lifecycle, holding, closing, busOpen>>

TapInit ==
  /\ lifecycle = [active |-> 0, started |-> FALSE, complete |-> FALSE]
  /\ holding = [s \in Subscribers |-> "nothing"]
  /\ closing = [c \in Closers |-> "idle"]
  /\ busOpen = TRUE

Holds(s, from, to) == holding[s] = from /\ holding' = [holding EXCEPT ![s] = to]

(* Drop of the MonitorReceiverLease.                                        *)
Released ==
  [lifecycle EXCEPT !.active = IF lifecycle.active = 0 THEN 0 ELSE lifecycle.active - 1]

-----------------------------------------------------------------------------
(* subscribe_channel: the lease is taken before anything is awaited.        *)
MutantReserve(s) ==
  /\ Holds(s, "nothing", "lease")
  /\ lifecycle' = [lifecycle EXCEPT !.active = @ + 1]
  /\ UNCHANGED <<closing, busOpen>>

Reserve(s) ==
  /\ ~lifecycle.started
  /\ Holds(s, "nothing", "lease")
  /\ lifecycle' = [lifecycle EXCEPT !.active = @ + 1]
  /\ UNCHANGED <<closing, busOpen>>

Declared(s) ==
  /\ busOpen /\ Holds(s, "lease", "receiver")
  /\ UNCHANGED <<lifecycle, closing, busOpen>>

(* The bus refuses the subscriber, or the call is dropped at its await.     *)
NotDeclared(s) ==
  /\ Holds(s, "lease", "nothing") /\ lifecycle' = Released
  /\ UNCHANGED <<closing, busOpen>>

(* cancel_subscription, in close or drop of the receiver: the subscriber is *)
(* dropped, then the lease.                                                 *)
Undeclare(s) ==
  /\ Holds(s, "receiver", "undeclared")
  /\ UNCHANGED <<lifecycle, closing, busOpen>>

ReturnLease(s) ==
  /\ Holds(s, "undeclared", "nothing") /\ lifecycle' = Released
  /\ UNCHANGED <<closing, busOpen>>

-----------------------------------------------------------------------------
(* close: once it has started nobody subscribes, even if it has to be       *)
(* retried.                                                                 *)
Closes(c, from, to) == closing[c] = from /\ closing' = [closing EXCEPT ![c] = to]

StartClose(c) ==
  /\ ~lifecycle.complete
  /\ lifecycle.started \/ lifecycle.active = 0
  /\ Closes(c, "idle", "bus")
  /\ lifecycle' = [lifecycle EXCEPT !.started = TRUE]
  /\ UNCHANGED <<holding, busOpen>>

CloseBus(c) ==
  /\ Closes(c, "bus", "closed") /\ busOpen' = FALSE
  /\ UNCHANGED <<lifecycle, holding>>

(* The bus answers an error, or the call is dropped at its await: whether   *)
(* the session is closed is not known.                                      *)
CloseFails(c) ==
  /\ Closes(c, "bus", "idle")
  /\ busOpen' = FALSE \/ UNCHANGED busOpen
  /\ UNCHANGED <<lifecycle, holding>>

CompleteClose(c) ==
  /\ Closes(c, "closed", "idle")
  /\ lifecycle' = [lifecycle EXCEPT !.complete = TRUE]
  /\ UNCHANGED <<holding, busOpen>>

TapNext ==
  \/ \E s \in Subscribers :
       Reserve(s) \/ Declared(s) \/ NotDeclared(s) \/ Undeclare(s) \/ ReturnLease(s)
  \/ \E c \in Closers : StartClose(c) \/ CloseBus(c) \/ CloseFails(c) \/ CompleteClose(c)

TapSpec == TapInit /\ [][TapNext]_tapVars

-----------------------------------------------------------------------------
(* No receiver is stranded: from the moment a close has started, let alone  *)
(* closed the bus, nobody has a receiver or is about to get one, however    *)
(* the awaits of subscribers and closers interleave, fail or are dropped;   *)
(* and a close is complete only when the bus is closed.                     *)
NoneStranded ==
  /\ lifecycle.started => \A s \in Subscribers : holding[s] = "nothing"
  /\ ~busOpen => lifecycle.started
  /\ lifecycle.complete => ~busOpen
=============================================================================
