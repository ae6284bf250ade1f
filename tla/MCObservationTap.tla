-------------------------- MODULE MCObservationTap ---------------------------
(***************************************************************************)
(* A small tap: one transport thread with two payloads, two operators, one *)
(* stream with three numbers, a queue of one.                              *)
(***************************************************************************)
EXTENDS ObservationTap
=============================================================================
