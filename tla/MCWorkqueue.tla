----------------------------- MODULE MCWorkqueue -----------------------------
(***************************************************************************)
(* Small instances of Workqueue.                                           *)
(***************************************************************************)
EXTENDS Workqueue
==============================================================================
