--------------------------- MODULE MCActorPlane ---------------------------
(* ActorPlane on two instances.                                             *)
EXTENDS ActorPlane, TLC

CONSTANTS i1, i2, c1, c2, vA, vB

MCInstances == {i1, i2}
MCCmds == {c1, c2}
MCVideos == {vA, vB}

(* A play sent to one instance, a switch of the video to the other.         *)
PlayAndSwitch ==
    (c1 :> [inst |-> i1, intent |-> "play", videoId |-> vA, forVideoId |-> vA])
    @@ (c2 :> [inst |-> i2, intent |-> "set-video", videoId |-> vB,
               forVideoId |-> Unfenced])

NoTrouble == [epochs |-> 2, sweeps |-> 0, resends |-> 0, crashes |-> 0,
              failures |-> 0, keyExpires |-> FALSE]

(* Leases that come back to an owner over a day, a sweep, a crash, and a    *)
(* call rejected after its script ran while a forward is published twice.   *)
MCScopes ==
    {[NoTrouble EXCEPT !.epochs = 3, !.keyExpires = TRUE],
     [NoTrouble EXCEPT !.sweeps = 1],
     [NoTrouble EXCEPT !.crashes = 1],
     [NoTrouble EXCEPT !.resends = 1, !.failures = 1]}

=============================================================================
