------------------------------ MODULE MCCircbuf ------------------------------
(***************************************************************************)
(* Circbuf with a small ring and two distinguishable elements.             *)
(***************************************************************************)
EXTENDS Circbuf

Mode(push, pop, serial) == [push |-> push, pop |-> pop, serial |-> serial]

(* The uses that are sound: two threads when push_count is stored merged,  *)
(* or any build when calls do not overlap.                                 *)
SoundModes == {Mode("merged", "merged", FALSE), Mode("merged", "split", FALSE),
               Mode("split", "split", TRUE)}

(* Two threads and the build CMakeLists.txt gives. *)
SplitModes == {Mode("split", "split", FALSE)}
==============================================================================
