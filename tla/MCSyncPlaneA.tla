--------------------------- MODULE MCSyncPlaneA ---------------------------
(* SyncPlaneA on two clients and two instances.                             *)
EXTENDS SyncPlaneA, TLC

CONSTANTS u1, u2, i1, i2, c1, c2, vA, vB

MCClients == {u1, u2}
MCInstances == {i1, i2}
MCCmds == {c1, c2}
MCVideos == {vA, vB}
MCOneVideo == {vA}

(* One client plays while the other switches the video.                     *)
PlayAndSwitch ==
    (c1 :> [client |-> u1, intent |-> "play", videoId |-> vA])
    @@ (c2 :> [client |-> u2, intent |-> "set-video", videoId |-> vB])

(* In the first setting both commands race one sweep, a mishap and a        *)
(* rehydration, the switching client being on the instance that does not    *)
(* sweep; in the second the clients are anywhere and nothing fails; in the  *)
(* third one client starts the room, and a last window is calm.             *)
Anywhere == [cl \in MCClients |-> MCInstances]

MCScopes ==
    {[homes |-> [Anywhere EXCEPT ![u2] = {i2}], cmds |-> {c1, c2},
      due |-> {i1}, windows |-> 1, mishaps |-> 1, epochs |-> 2],
     [homes |-> Anywhere, cmds |-> {c1, c2},
      due |-> {i1}, windows |-> 1, mishaps |-> 0, epochs |-> 1],
     [homes |-> Anywhere, cmds |-> {c1},
      due |-> {}, windows |-> 2, mishaps |-> 1, epochs |-> 1]}

=============================================================================
