-------------------------- MODULE MCRoomLifecycle --------------------------
(* RoomLifecycle: one instance without Redis, with three sockets or with two *)
(* and changes of allowGuestControl, and two instances over Redis.          *)
EXTENDS RoomLifecycle, TLC

CONSTANTS s1, s2, s3, i1, i2, ann, bob, cat, vA, vB

MCSocks == {s1, s2, s3}
MCInstances == {i1, i2}
MCUsers == {ann, bob, cat}
MCVideos == {vA, vB}

(* The creator ann, bob and cat.                                            *)
MCUserOf == (s1 :> ann) @@ (s2 :> bob) @@ (s3 :> cat)

MCSites ==
    {[inMemory |-> TRUE, socks |-> MCSocks, inst |-> [s \in MCSocks |-> i1],
      maxUsers |-> 2, videos |-> {vA}, patches |-> 0],
     [inMemory |-> TRUE, socks |-> {s1, s2}, inst |-> [s \in MCSocks |-> i1],
      maxUsers |-> 3, videos |-> MCVideos, patches |-> 1],
     [inMemory |-> FALSE, socks |-> {s1, s2},
      inst |-> [s \in MCSocks |-> IF s = s1 THEN i1 ELSE i2],
      maxUsers |-> 3, videos |-> {vA}, patches |-> 0]}

=============================================================================
