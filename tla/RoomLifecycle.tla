--------------------------- MODULE RoomLifecycle ---------------------------
(***************************************************************************)
(* A room's life: who is in it, who may control it, when its state is      *)
(* created and when it is torn down.  The gateway's join and leave         *)
(* handlers are split at their awaits, the timeline service's per-room     *)
(* gate orders ensureRoom and releaseRoom on one instance, and the Redis   *)
(* key and the database row are shared by all instances.                   *)
(*                                                                         *)
(* A socket connects once, joins at most once and disconnects at most      *)
(* once; a user who comes back does so on another socket.  The timeline is *)
(* abstracted to the video it shows.                                       *)
(***************************************************************************)
EXTENDS Integers, Sequences, FiniteSets

CONSTANTS
    Socks, Instances, Users, Videos,
    UserOf,         \* [Socks -> Users]: the verified identity of the socket
    Creator,        \* the room's creatorId
    Sites,          \* the deployments the room may live on
    Nobody, NoVideo, NoMeta

(* A deployment and the bounds of its run: REDIS_URL unset (adapter and      *)
(* store in the process) or set, the sockets that come and the instance of  *)
(* each, the room's maxUsers, the videos it may show and how often its      *)
(* creator may change allowGuestControl.                                    *)
Site == [inMemory : BOOLEAN, socks : SUBSET Socks, inst : [Socks -> Instances],
         maxUsers : Nat, videos : SUBSET Videos, patches : Nat]

ASSUME SocksAssumption == UserOf \in [Socks -> Users]
ASSUME CreatorAssumption == Creator \in Users /\ Nobody \notin Users
(* Without Redis, adapter and store are those of one process.               *)
ASSUME SitesAssumption ==
    \A s \in Sites :
        /\ s \in Site /\ s.videos # {}
        /\ s.inMemory => \A a, b \in s.socks : s.inst[a] = s.inst[b]
ASSUME AbsentAssumption ==
    /\ NoVideo \notin Videos
    /\ NoMeta \notin [active : Users \cup {Nobody}, guests : BOOLEAN]

VARIABLES
    site,       \* the deployment
    guests,     \* the room's allowGuestControl in the database
    patches,    \* how often it was changed
    tl,         \* the video of the room's timeline in the store, NoVideo if none
    row,        \* the room's videoUrl in the database
    active,     \* users with an active participant row
    meta,       \* [Instances -> timeline service's RoomMeta]
    gate,       \* [Instances -> queue of the room's gated operations]
    held,       \* [Instances -> the timeline a running release has read]
    flush,      \* [Instances -> the debounced persist]
    arrivals,   \* sockets in the order they connected (connectedAt)
    live,       \* sockets still connected
    userRooms,  \* sockets in the gateway's userRooms map
    join,       \* [Socks -> where its join handler is]
    seenRow,    \* [Socks -> the row the join handler has read: video, guests]
    leave,      \* [Socks -> where its leave handler is]
    snap,       \* [Socks -> what fetchSockets answered the leave handler]
    controller, \* the last room:controller broadcast
    cut         \* history: sockets that went away in the middle of their join

restVars == <<site, guests, patches>>
roomVars == <<tl, row, active, meta, gate, held, flush, controller>>
sockVars == <<arrivals, live, userRooms, join, seenRow, leave, snap, cut>>
vars == <<tl, row, active, meta, gate, held, flush, arrivals, live, userRooms, join,
          seenRow, leave, snap, controller, cut, restVars>>

JoinStates ==
    {"no", "looked", "queued", "ensured", "reclaimed", "done", "refused"}
LeaveStates ==
    {"no", "fetching", "fetched", "queued", "got", "cleared", "marking", "done"}

TypeOK ==
    /\ tl \in Videos \cup {NoVideo}
    /\ row \in Videos
    /\ active \subseteq Users
    /\ site \in Sites /\ guests \in BOOLEAN /\ patches \in 0..site.patches
    /\ meta \in [Instances -> [active : Users \cup {Nobody}, guests : BOOLEAN]
                               \cup {NoMeta}]
    /\ gate \in [Instances -> Seq([op : {"ensure", "release"}, sock : Socks])]
    /\ held \in [Instances -> Videos \cup {NoVideo}]
    /\ flush \in [Instances -> [due : BOOLEAN, held : Videos \cup {NoVideo}]]
    /\ arrivals \in Seq(Socks)
    /\ live \subseteq Socks
    /\ userRooms \subseteq Socks
    /\ join \in [Socks -> JoinStates]
    /\ seenRow \in [Socks -> [video : Videos \cup {NoVideo}, guests : BOOLEAN]]
    /\ leave \in [Socks -> LeaveStates]
    /\ snap \in [Socks -> SUBSET Socks]
    /\ controller \in Users \cup {Nobody}
    /\ cut \subseteq Socks

Init ==
    /\ site \in Sites
    /\ guests = FALSE
    /\ patches = 0
    /\ tl = NoVideo
    /\ row \in site.videos
    /\ active = {}
    /\ meta = [i \in Instances |-> NoMeta]
    /\ gate = [i \in Instances |-> <<>>]
    /\ held = [i \in Instances |-> NoVideo]
    /\ flush = [i \in Instances |-> [due |-> FALSE, held |-> NoVideo]]
    /\ arrivals = <<>>
    /\ live = {}
    /\ userRooms = {}
    /\ join = [s \in Socks |-> "no"]
    /\ seenRow = [s \in Socks |-> [video |-> NoVideo, guests |-> FALSE]]
    /\ leave = [s \in Socks |-> "no"]
    /\ snap = [s \in Socks |-> {}]
    /\ controller = Nobody
    /\ cut = {}

-----------------------------------------------------------------------------
(* The sockets fetchSockets can see.                                        *)
InRoom == live \cap userRooms

(* In process, a store call is over in the microtasks of the event that     *)
(* made it: no other event comes between the start of a gated operation and *)
(* its first wait for the database.                                         *)
Settled ==
    site.inMemory =>
        /\ \A i \in Instances :
              gate[i] # <<>> => /\ Head(gate[i]).op = "release"
                               /\ leave[Head(gate[i]).sock] = "cleared"
        /\ \A s \in Socks : join[s] # "ensured"

Connect(s) ==
    /\ Settled
    /\ \A k \in 1..Len(arrivals) : arrivals[k] # s
    /\ arrivals' = Append(arrivals, s)
    /\ live' = live \cup {s}
    /\ UNCHANGED <<roomVars, userRooms, join, seenRow, leave, snap, cut>>

(* handleJoinRoom, first await: the row and its active participants.        *)
RoomIsFull(u) == Cardinality(active \ {u}) >= site.maxUsers

LookUp(s) ==
    /\ Settled
    /\ s \in live
    /\ join[s] = "no"
    /\ IF RoomIsFull(UserOf[s])
       THEN /\ join' = [join EXCEPT ![s] = "refused"]
            /\ UNCHANGED seenRow
       ELSE /\ join' = [join EXCEPT ![s] = "looked"]
            /\ seenRow' = [seenRow EXCEPT ![s] = [video |-> row, guests |-> guests]]
    /\ UNCHANGED <<roomVars, arrivals, live, userRooms, leave, snap, cut>>

(* client.join, the maps, and the call of ensureRoom, which queues on the   *)
(* gate.  The handler goes on whether or not the socket is still there.     *)
Enter(s) ==
    /\ Settled
    /\ join[s] = "looked"
    /\ userRooms' = userRooms \cup {s}
    /\ gate' = [gate EXCEPT ![site.inst[s]] =
                   Append(@, [op |-> "ensure", sock |-> s])]
    /\ join' = [join EXCEPT ![s] = "queued"]
    /\ UNCHANGED <<tl, row, active, meta, held, flush, controller,
                   arrivals, live, seenRow, leave, snap, cut>>

(* Seeded fault: no gate, every queued operation may run.                   *)
AtGateAnyTime(i, op, s) ==
    \E k \in 1..Len(gate[i]) : gate[i][k] = [op |-> op, sock |-> s]

(* gated: an operation runs when those before it have ended.                *)
AtGate(i, op, s) ==
    gate[i] # <<>> /\ Head(gate[i]) = [op |-> op, sock |-> s]

(* The operation has ended.                                                 *)
Ungate(i, op, s) ==
    LET k == CHOOSE k \in 1..Len(gate[i]) : gate[i][k] = [op |-> op, sock |-> s]
    IN  gate' = [gate EXCEPT ![i] = SubSeq(@, 1, k - 1) \o SubSeq(@, k + 1, Len(@))]

(* ensureRoomInner: the meta if absent, then store.init, create if absent.  *)
EnsureRoom(s) ==
    LET i == site.inst[s] IN
    /\ AtGate(i, "ensure", s)
    /\ meta' = [meta EXCEPT ![i] = 
                   IF @ = NoMeta
                   THEN [active |-> Nobody, guests |-> seenRow[s].guests] ELSE @]
    /\ tl' = IF tl = NoVideo THEN seenRow[s].video ELSE tl
    /\ Ungate(i, "ensure", s)
    /\ join' = [join EXCEPT ![s] = "ensured"]
    /\ UNCHANGED <<row, active, held, flush, controller, arrivals, live,
                   userRooms, seenRow, leave, snap, cut>>

(* Seeded fault: whoever returns takes control.                             *)
ReclaimAnyone(s) ==
    LET i == site.inst[s] IN
    /\ join[s] = "ensured"
    /\ join' = [join EXCEPT ![s] = "reclaimed"]
    /\ IF meta[i] # NoMeta /\ meta[i].active # Nobody
       THEN /\ meta' = [meta EXCEPT ![i].active = Nobody]
            /\ controller' = UserOf[s]
       ELSE UNCHANGED <<meta, controller>>
    /\ UNCHANGED <<tl, row, active, gate, held, flush, arrivals, live,
                   userRooms, seenRow, leave, snap, cut>>

(* The creator's return ends a stand-in's control.                          *)
Reclaim(s) ==
    LET i == site.inst[s]
        returns == /\ meta[i] # NoMeta
                   /\ UserOf[s] = Creator
                   /\ meta[i].active # Nobody
    IN  /\ join[s] = "ensured"
        /\ join' = [join EXCEPT ![s] = "reclaimed"]
        /\ IF returns
           THEN /\ meta' = [meta EXCEPT ![i].active = Nobody]
                /\ controller' = Creator
           ELSE UNCHANGED <<meta, controller>>
        /\ UNCHANGED <<tl, row, active, gate, held, flush, arrivals, live,
                       userRooms, seenRow, leave, snap, cut>>

(* The participant upsert and the rest of the handler.                      *)
Upsert(s) ==
    /\ Settled
    /\ join[s] = "reclaimed"
    /\ active' = active \cup {UserOf[s]}
    /\ join' = [join EXCEPT ![s] = "done"]
    /\ UNCHANGED <<tl, row, meta, gate, held, flush, controller,
                   arrivals, live, userRooms, seenRow, leave, snap, cut>>

-----------------------------------------------------------------------------
(* PATCH /rooms/:code by the creator changes the row; the meta the instances *)
(* hold keeps the flag it was made with.                                    *)
updateGuestControl ==
    /\ Settled
    /\ patches < site.patches
    /\ patches' = patches + 1
    /\ guests' = ~guests
    /\ UNCHANGED <<site, roomVars, sockVars>>

allowedToControl(i, u) ==
    meta[i].guests \/ u = Creator \/ u = meta[i].active

(* A set-video of a member passes handleControl and commits; the persist    *)
(* timer is armed.                                                          *)
SetVideo(s) ==
    LET i == site.inst[s] IN
    /\ Settled
    /\ s \in live \cap userRooms
    /\ meta[i] # NoMeta
    /\ allowedToControl(i, UserOf[s])
    /\ tl # NoVideo
    /\ \E v \in site.videos \ {tl} : tl' = v
    /\ flush' = [flush EXCEPT ![i].due = TRUE]
    /\ UNCHANGED <<row, active, meta, gate, held, controller, sockVars>>

(* flushPersist reads the store, then writes the row.                       *)
PersistGet(i) ==
    /\ Settled
    /\ flush[i].due
    /\ flush[i].held = NoVideo
    /\ flush' = [flush EXCEPT ![i] = [due |-> FALSE, held |-> tl]]
    /\ UNCHANGED <<tl, row, active, meta, gate, held, controller,
                   sockVars>>

(* Seeded fault: a room that is gone is persisted too.                      *)
PersistWriteUnchecked(i) ==
    /\ Settled
    /\ ~flush[i].due
    /\ row' = flush[i].held
    /\ flush' = [flush EXCEPT ![i].held = NoVideo]
    /\ UNCHANGED <<tl, active, meta, gate, held, controller, sockVars>>

PersistWrite(i) ==
    /\ Settled
    /\ flush[i].held # NoVideo
    /\ row' = flush[i].held
    /\ flush' = [flush EXCEPT ![i].held = NoVideo]
    /\ UNCHANGED <<tl, active, meta, gate, held, controller, sockVars>>

-----------------------------------------------------------------------------
LongestConnected(S) ==
    arrivals[CHOOSE k \in 1..Len(arrivals) :
                /\ arrivals[k] \in S
                /\ \A j \in 1..k-1 : arrivals[j] \notin S]

(* succession: the new stand-in, or Nobody when nothing changes.            *)
succession(i, u, candidate) ==
    IF \/ meta[i] = NoMeta
       \/ meta[i].guests
       \/ u # Creator /\ u # meta[i].active
       \/ candidate = u
    THEN Nobody
    ELSE candidate

(* The leave handler resumes with the sockets S of the room: queue the tear *)
(* down if there are none, otherwise replace a controller who left.         *)
Resume(s, S) ==
    LET i == site.inst[s] IN
    IF S = {}
    THEN /\ gate' = [gate EXCEPT ![i] = Append(@, [op |-> "release", sock |-> s])]
         /\ leave' = [leave EXCEPT ![s] = "queued"]
         /\ meta' = meta
         /\ controller' = IF InRoom \ {s} = {} THEN Nobody ELSE controller
    ELSE LET next == succession(i, UserOf[s], UserOf[LongestConnected(S)]) IN
         /\ leave' = [leave EXCEPT ![s] = "marking"]
         /\ meta' = IF next = Nobody THEN meta
                                     ELSE [meta EXCEPT ![i].active = next]
         /\ controller' = IF next = Nobody THEN controller ELSE next
         /\ gate' = gate

(* handleDisconnect: a socket the gateway knows in a room starts to leave.  *)
(* client.leave, the maps and, with the in-memory adapter, fetchSockets are *)
(* over before another event is handled.                                    *)
Disconnect(s) ==
    /\ Settled
    /\ s \in live
    /\ live' = live \ {s}
    /\ userRooms' = userRooms \ {s}
    /\ \/ /\ s \notin userRooms
          /\ leave' = [leave EXCEPT ![s] = "done"]
          /\ UNCHANGED <<meta, gate, controller>>
       \/ /\ s \in userRooms
          /\ site.inMemory
          /\ Resume(s, InRoom \ {s})
       \/ /\ s \in userRooms
          /\ ~site.inMemory
          /\ leave' = [leave EXCEPT ![s] = "fetching"]
          /\ UNCHANGED <<meta, gate, controller>>
    /\ cut' = IF join[s] \in {"no", "refused", "done"} THEN cut ELSE cut \cup {s}
    /\ UNCHANGED <<tl, row, active, held, flush, arrivals, join,
                   seenRow, snap>>

(* Seeded fault: the room is counted before the socket has left it.         *)
FetchBeforeLeave(s) ==
    /\ leave[s] = "fetching"
    /\ leave' = [leave EXCEPT ![s] = "fetched"]
    /\ snap' = [snap EXCEPT ![s] = InRoom \cup {s}]
    /\ UNCHANGED <<roomVars, arrivals, live, userRooms, join, seenRow, cut>>

(* fetchSockets over the Redis adapter: gathered from all instances, and    *)
(* old when the handler resumes.                                            *)
Fetch(s) ==
    /\ leave[s] = "fetching"
    /\ leave' = [leave EXCEPT ![s] = "fetched"]
    /\ snap' = [snap EXCEPT ![s] = InRoom]
    /\ UNCHANGED <<roomVars, arrivals, live, userRooms, join, seenRow, cut>>

Fetched(s) ==
    /\ leave[s] = "fetched"
    /\ Resume(s, snap[s])
    /\ snap' = [snap EXCEPT ![s] = {}]
    /\ UNCHANGED <<tl, row, active, held, flush, arrivals, live,
                   userRooms, join, seenRow, cut>>

(* releaseRoomInner: read the timeline, drop the meta, clear the store,     *)
(* persist what was read.                                                   *)
ReleaseGet(s) ==
    LET i == site.inst[s] IN
    /\ AtGate(i, "release", s)
    /\ leave[s] = "queued"
    /\ held' = [held EXCEPT ![i] = tl]
    /\ leave' = [leave EXCEPT ![s] = "got"]
    /\ UNCHANGED <<tl, row, active, meta, gate, flush, controller,
                   arrivals, live, userRooms, join, seenRow, snap, cut>>

ReleaseClear(s) ==
    LET i == site.inst[s] IN
    /\ leave[s] = "got"
    /\ meta' = [meta EXCEPT ![i] = NoMeta]
    /\ tl' = NoVideo
    /\ leave' = [leave EXCEPT ![s] = "cleared"]
    /\ UNCHANGED <<row, active, gate, held, flush, controller, arrivals,
                   live, userRooms, join, seenRow, snap, cut>>

ReleasePersist(s) ==
    LET i == site.inst[s] IN
    /\ Settled
    /\ leave[s] = "cleared"
    /\ row' = IF held[i] = NoVideo THEN row ELSE held[i]
    /\ held' = [held EXCEPT ![i] = NoVideo]
    /\ Ungate(i, "release", s)
    /\ leave' = [leave EXCEPT ![s] = "marking"]
    /\ UNCHANGED <<tl, active, meta, flush, controller, arrivals, live,
                   userRooms, join, seenRow, snap, cut>>

(* The participant row goes inactive, by user and not by socket.            *)
MarkInactive(s) ==
    /\ Settled
    /\ leave[s] = "marking"
    /\ active' = active \ {UserOf[s]}
    /\ leave' = [leave EXCEPT ![s] = "done"]
    /\ UNCHANGED <<tl, row, meta, gate, held, flush, controller,
                   arrivals, live, userRooms, join, seenRow, snap, cut>>

-----------------------------------------------------------------------------
JoinStep(s) ==
    LookUp(s) \/ Enter(s) \/ EnsureRoom(s) \/ Reclaim(s) \/ Upsert(s)

LeaveStep(s) ==
    \/ Fetch(s) \/ Fetched(s) \/ ReleaseGet(s) \/ ReleaseClear(s)
    \/ ReleasePersist(s) \/ MarkInactive(s)

PersistStep(i) == PersistGet(i) \/ PersistWrite(i)

Next ==
    \/ /\ \/ \E s \in site.socks : \/ Connect(s) \/ Disconnect(s) \/ SetVideo(s)
                                  \/ JoinStep(s) \/ LeaveStep(s)
          \/ \E i \in Instances : PersistStep(i)
       /\ UNCHANGED restVars
    \/ updateGuestControl

Spec == Init /\ [][Next]_vars

(* Handlers run on: the event loop resumes them and the database answers.   *)
FairSpec ==
    /\ Spec
    /\ \A s \in Socks :
          /\ WF_vars((Enter(s) \/ EnsureRoom(s) \/ Reclaim(s) \/ Upsert(s))
                     /\ UNCHANGED restVars)
          /\ WF_vars(LeaveStep(s) /\ UNCHANGED restVars)

-----------------------------------------------------------------------------
(* Without Redis, a socket whose join got past ensureRoom, and that is      *)
(* still there, finds the room's meta on its instance and its timeline in   *)
(* the store: otherwise every control it sends is answered room-not-found.  *)
LiveRoomHasState ==
    \A s \in InRoom :
        site.inMemory /\ join[s] \in {"ensured", "reclaimed", "done"} =>
            meta[site.inst[s]] # NoMeta /\ tl # NoVideo

(* Without Redis, whoever the room was last told controls it can: the       *)
(* instance of every one of their sockets accepts their controls (P3,       *)
(* docs/SYNC_DESIGN.md), whatever allowGuestControl was changed to since.   *)
PromotedCanControl ==
    \A s \in InRoom :
        (/\ site.inMemory
         /\ UserOf[s] = controller
         /\ join[s] = "done")
        => /\ meta[site.inst[s]] # NoMeta
           /\ allowedToControl(site.inst[s], controller)

(* An empty room is torn down: once the last socket is gone its timeline is *)
(* eventually cleared, unless somebody comes or a join was cut short (whose *)
(* handler may run ensureRoom after everybody has left).                    *)
EmptyRoomReleased ==
    (InRoom = {} /\ cut = {}) ~> (tl = NoVideo \/ InRoom # {} \/ cut # {})

(* A room somebody is in can be used, by whom it says: joins, releases,     *)
(* successions and settings never leave it without state or without its     *)
(* controller (ensureRoom, releaseRoom, succession, reclaim).               *)
RoomUsable ==
    /\ TypeOK
    /\ LiveRoomHasState
    /\ PromotedCanControl

=============================================================================
