---------------------------- MODULE MCLuaStore ----------------------------
(* LuaStore on a small instance: two command ids, three videos' worth of    *)
(* payloads, a clock of a few ticks that covers every timeout.              *)
EXTENDS ReplayCheck, TLC

CONSTANTS c1, c2, vA, vB

MCCmds == {c1, c2}
MCVideos == {vA, vB}
MCPositions == {3}

Cmd(intent, video, fence, hasId) ==
    [intent |-> intent, mediaTime |-> 5, videoId |-> video,
     forVideoId |-> fence, hasId |-> hasId]

(* A play and a seek fenced on vA (the seek without an id, so a resend      *)
(* really applies twice) and a switch to vB.                                *)
MCControls ==
    {Cmd("play", vA, vA, TRUE), Cmd("seek", vA, vA, FALSE),
     Cmd("set-video", vB, Unfenced, TRUE)}

Symmetry == Permutations(MCCmds)

=============================================================================
