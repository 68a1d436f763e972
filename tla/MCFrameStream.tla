---------------------------- MODULE MCFrameStream ----------------------------
(***************************************************************************)
(* FrameStream with four byte values.  The bodies contain the values of    *)
(* Start and End, and the lengths reach both bounds; 3 as a length is too  *)
(* large, 0 too small.                                                     *)
(***************************************************************************)
EXTENDS FrameStream

MCBytes == 0 .. 3
MCBodies == {<<1>>, <<3>>, <<0, 0>>, <<0, 1>>, <<1, 3>>}
=============================================================================
