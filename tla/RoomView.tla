----------------------------- MODULE RoomView -----------------------------
(***************************************************************************)
(* What a room's sync plane promises its clients, with no instances, no    *)
(* messages and no store: the room has one linear history of timelines,    *)
(* and the timeline a client has applied only ever moves forward in it.    *)
(* A client may lag, skip versions, or start over with a fresh page; it    *)
(* never shows a timeline that was not committed and never goes back.      *)
(***************************************************************************)
EXTENDS TimelineCore

CONSTANT Clients

VARIABLES
    committed,  \* every timeline committed so far
    view        \* [Clients -> the timeline the client has applied]

roomVars == <<committed, view>>

RoomInit ==
    /\ committed = {}
    /\ view = [cl \in Clients |-> NoTimeline]

(* One more timeline, newer than all the others.                            *)
Commit ==
    /\ \E t \in committed' \ committed :
          /\ committed' = committed \cup {t}
          /\ \A old \in committed : isNewer(t, old)
    /\ view' = view

(* Some clients apply a newer committed timeline.                           *)
Advance ==
    /\ committed' = committed
    /\ DOMAIN view' = Clients
    /\ \A cl \in Clients :
          view'[cl] # view[cl] => /\ view'[cl] \in committed
                                  /\ isNewer(view'[cl], view[cl])

(* A client's page is reloaded: its engine starts without a timeline.       *)
Restart(cl) ==
    /\ committed' = committed
    /\ view' = [view EXCEPT ![cl] = NoTimeline]

RoomNext == Commit \/ Advance \/ \E cl \in Clients : Restart(cl)

RoomSpec == RoomInit /\ [][RoomNext]_roomVars

=============================================================================
