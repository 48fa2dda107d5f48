------------------------------ MODULE MCChannels ------------------------------
(***************************************************************************)
(* Two processes that share one device of each type in turn, and one       *)
(* process with three devices, which share a bucket of its map until the   *)
(* third makes it grow.                                                    *)
(***************************************************************************)
EXTENDS ChannelManager, TLC

CONSTANTS d1, d2, d3

Use(type, users) == [type |-> type, users |-> users]

SharedDevice == {d1 :> Use(type, Procs) @@ [d \in {d2, d3} |-> Use("uart", {})]
                 : type \in {"uart", "msgq", "fifo", "bus"}}

OneManager == {d1 :> Use("uart", {p}) @@ d2 :> Use("bus", {p}) @@ d3 :> Use("bus", {p}) : p \in Procs}

SomeUses == SharedDevice \cup OneManager

Colliding == d1 :> 0 @@ d2 :> 2 @@ d3 :> 4

Processes == Permutations(Procs)
===============================================================================
