------------------------------- MODULE MCMemp -------------------------------
(* Two pools of different sizes; 1 is the smallest a build can configure. *)
EXTENDS Memp, TLC
CONSTANTS msg, seg
MCTypes == {msg, seg}
MCNum   == (msg :> 4) @@ (seg :> 1)
=============================================================================
