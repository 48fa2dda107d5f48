----------------------------- MODULE MCBusServer -----------------------------
(***************************************************************************)
(* Small instances of BusServer.                                           *)
(***************************************************************************)
EXTENDS BusServer
==============================================================================
