----------------------------- MODULE MCRoomPages -----------------------------
(* RoomPages on two tabs of the creator and one of a guest.                 *)
EXTENDS RoomPages, TLC

CONSTANTS h1, h2, g1, host, guest, r1, r2

MCTabs == {h1, h2, g1}
MCPeople == {host, guest}
MCRooms == {r1, r2}
MCOwnerOf == (h1 :> host) @@ (h2 :> host) @@ (g1 :> guest)

(* Chat in one room, without and with a lost connection; a room ended while *)
(* it is written to; two rooms, one left and ended; two settings forms; two *)
(* home pages.                                                              *)
Quiet ==
    [tabs |-> {h1, g1}, online |-> {h1, g1}, pollers |-> {}, rooms |-> {r1},
     texts |-> 0, moves |-> 2, ends |-> 0, saves |-> 0, drops |-> 0,
     rereads |-> 0]

MCScopes ==
    {[Quiet EXCEPT !.texts = 2],
     [Quiet EXCEPT !.texts = 1, !.drops = 1],
     [Quiet EXCEPT !.texts = 1, !.ends = 1],
     [Quiet EXCEPT !.tabs = {h1}, !.rooms = {r1, r2}, !.moves = 3, !.ends = 1],
     [Quiet EXCEPT !.tabs = {h1, h2}, !.online = {}, !.saves = 2,
                   !.rereads = 1],
     [Quiet EXCEPT !.tabs = {h1, h2}, !.online = {}, !.pollers = {h1, h2},
                   !.ends = 1]}

=============================================================================
