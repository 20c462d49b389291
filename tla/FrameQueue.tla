---------------------------- MODULE FrameQueue ----------------------------
(***************************************************************************)
(* What the hand-over from the receive thread to the tcpip task promises   *)
(* (t_tcpip_input and t_tcpip_task, api/t_tcpip.c): a frame that has been  *)
(* accepted is handled exactly once, with the content it arrived with, in  *)
(* the order of acceptance, one at a time; and, as long as the process     *)
(* runs, every accepted frame is eventually handled.                       *)
(***************************************************************************)
EXTENDS Sequences

CONSTANTS Frames, NULL

VARIABLES waiting,  \* accepted, not yet looked at
          current,  \* the frame being handled, or NULL
          up        \* the process is alive

vars == <<waiting, current, up>>

Init == waiting = <<>> /\ current = NULL /\ up = TRUE

Accept(f) == up /\ waiting' = Append(waiting, f) /\ UNCHANGED <<current, up>>

Begin ==
  /\ up /\ current = NULL /\ waiting # <<>>
  /\ current' = Head(waiting)
  /\ waiting' = Tail(waiting)
  /\ UNCHANGED up

End == up /\ current # NULL /\ current' = NULL /\ UNCHANGED <<waiting, up>>

Halt == up /\ up' = FALSE /\ UNCHANGED <<waiting, current>>

Next == (\E f \in Frames : Accept(f)) \/ Begin \/ End \/ Halt

\* Once each, as they arrived, in order, one at a time.
Safety == Init /\ [][Next]_vars

Spec == Safety /\ WF_vars(Begin) /\ WF_vars(End)
=============================================================================
