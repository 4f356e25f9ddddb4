---------------------------- MODULE PacketDisplay ----------------------------
(***************************************************************************)
(* What the sniffer promises: it takes one frame at a time and displays    *)
(* each frame it takes exactly once, from the lowest layer up with at most *)
(* one header per layer, before it takes the next one; it may stop at any  *)
(* moment, and then for good.                                              *)
(***************************************************************************)
EXTENDS Integers, Sequences

CONSTANTS Frames, NULL

VARIABLES
  mode,   \* "waiting", "captured", "displaying", "displayed" or "stopped"
  frame,  \* the frame taken, NULL when there is none
  shown   \* layers of the headers displayed for it, in order

displayVars == <<mode, frame, shown>>

Init == mode = "waiting" /\ frame = NULL /\ shown = <<>>

Capture(f) == /\ mode = "waiting"
              /\ mode' = "captured" /\ frame' = f
              /\ UNCHANGED shown

Begin == /\ mode = "captured"
         /\ mode' = "displaying"
         /\ UNCHANGED <<frame, shown>>

Show(l) == /\ mode = "displaying"
           /\ IF shown = <<>> THEN l = 1 ELSE l > shown[Len(shown)]
           /\ shown' = Append(shown, l)
           /\ UNCHANGED <<mode, frame>>

End == /\ mode = "displaying"
       /\ mode' = "displayed"
       /\ UNCHANGED <<frame, shown>>

Discard == /\ mode = "displayed"
           /\ mode' = "waiting" /\ frame' = NULL /\ shown' = <<>>

Stop == mode' = "stopped" /\ frame' = NULL /\ shown' = <<>>

Next == \/ \E f \in Frames : Capture(f)
        \/ Begin
        \/ \E l \in 1..7 : Show(l)
        \/ End
        \/ Discard
        \/ Stop

Spec == Init /\ [][Next]_displayVars
=============================================================================
