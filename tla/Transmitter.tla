----------------------------- MODULE Transmitter -----------------------------
(***************************************************************************)
(* What the arbiter, the slot and the TX sessions promise together: one    *)
(* over at a time, during which the receive side stands down.              *)
(***************************************************************************)
CONSTANTS Talkers, NoTalker,
          MayStrand     \* a failed ptt(False) leaves the receive side down

VARIABLES owner,        \* the talker whose over is on, or NoTalker
          receiverDown  \* the receive side stands down

vars == <<owner, receiverDown>>

Init == owner = NoTalker /\ receiverDown = FALSE

KeyUp(t) ==
    /\ owner = NoTalker /\ ~receiverDown
    /\ owner' = t /\ receiverDown' = TRUE

KeyDown ==
    /\ owner # NoTalker
    /\ owner' = NoTalker /\ receiverDown' = FALSE

Strand ==
    /\ MayStrand
    /\ owner # NoTalker \/ ~receiverDown
    /\ owner' = NoTalker /\ receiverDown' = TRUE

Next == (\E t \in Talkers : KeyUp(t)) \/ KeyDown \/ Strand

Spec == Init /\ [][Next]_vars
FairSpec == Spec /\ WF_vars(KeyDown)
=============================================================================
