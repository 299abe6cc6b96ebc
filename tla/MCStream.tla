------------------------------ MODULE MCStream ------------------------------
(***************************************************************************)
(* Two emitters, the stream of one job and the global stream; every limit  *)
(* is small enough to be exceeded.                                         *)
(***************************************************************************)
EXTENDS EventStream, TLC

CONSTANTS j1, feed, dashboard

MCJobFollowed == feed :> j1
=============================================================================
