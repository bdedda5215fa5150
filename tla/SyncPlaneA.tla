---------------------------- MODULE SyncPlaneA ----------------------------
(***************************************************************************)
(* Plane A end to end, for one room: clients connected to several server   *)
(* instances, the gateway's control, join and sweep handlers split at      *)
(* their awaits, the Redis store as one atomic authority, and the pub/sub  *)
(* adapter that carries broadcasts between instances.                      *)
(*                                                                         *)
(* Data abstraction.  Positions and stamps are left to LuaStore; a         *)
(* timeline is its version, its video, whether it plays, and the commit it *)
(* came from.  Emitting to a socket of the emitting instance and applying  *)
(* the message are one step: a connection is FIFO, and a client that has   *)
(* not yet read a message acts like one whose own message is still under   *)
(* way.  A message between instances may stay on the wire for ever, which  *)
(* is how it is lost: nothing makes WireDeliver happen.                    *)
(***************************************************************************)
EXTENDS TimelineCore, FiniteSets

CONSTANTS
    Clients, Instances,
    RowVideos,    \* the videoUrl values the room's database row may hold
    Nowhere,      \* a client without a connection
    Cmds,         \* command ids
    CmdOf,        \* [Cmds -> what is sent under the id, and by whom]
    Sweep, Join,  \* the origin of a timeline no command made
    MaxRetries,   \* REDIS_KV's maxRetriesPerRequest
    BusyWindows,  \* the windows until which the environment is not calm
    Scopes        \* the bounded settings a behaviour may be played in

ASSUME CmdOfAssumption ==
    CmdOf \in [Cmds -> [client : Clients, intent : Intents, videoId : Videos]]
ASSUME OriginAssumption == Sweep \notin Cmds /\ Join \notin Cmds
ASSUME PlaneBoundsAssumption == MaxRetries \in Nat /\ BusyWindows \in Nat
ASSUME RowVideosAssumption == RowVideos \subseteq Videos
ASSUME NowhereAssumption == Nowhere \notin Instances

(* Bounds.  cmds: commands that are sent.  due: instances that sweep in the *)
(* first window.  windows: sweep windows.  mishaps: lost connections,       *)
(* crashes, failures, expiries.  epochs: times the room is (re)hydrated.    *)
(* homes: the instances a client may be connected to.                       *)
Scope ==
    [homes : [Clients -> SUBSET Instances], cmds : SUBSET Cmds, due : SUBSET Instances,
     windows : Nat \ {0}, mishaps : Nat, epochs : Nat]

ASSUME ScopesAssumption == Scopes \subseteq Scope

VARIABLES
    scope,      \* the setting, chosen once
    tl,         \* the room's timeline in Redis
    recorded,   \* ids with a dedup record
    swept,      \* lastSweepWindow is the current window
    windows,    \* sweep windows so far
    mishaps,    \* what went wrong so far
    epochs,     \* epochs minted so far
    committed,  \* history: every timeline committed
    at,         \* [Clients -> instance of the client's connection]
    member,     \* [Clients -> how far its join is]
    joinTl,     \* [Clients -> timeline the join handler holds]
    view,       \* [Clients -> timeline applied by the client's engine]
    cmd,        \* [Cmds -> state of its handler]
    sweeper,    \* [Instances -> state of its sweep]
    timer,      \* [Instances -> it has yet to sweep in this window]
    wire        \* [Instances -> broadcasts published and not yet received]

storeVars == <<scope, tl, recorded, swept, committed, epochs>>
clientVars == <<at, member, joinTl, view>>
vars == <<scope, tl, recorded, swept, windows, mishaps, epochs, committed, at,
          member, joinTl, view, cmd, sweeper, timer, wire>>

Version ==
    [seq : Nat, storeEpoch : Nat, videoId : Videos, isPlaying : BOOLEAN,
     origin : Cmds \cup {Sweep, Join}]

ASSUME NoVersionAssumption == NoTimeline \notin Version

MaybeVersion == Version \cup {NoTimeline}

(* out: not in the socket.io room.  joining: client.join done.  hydrated:   *)
(* ensureRoom has answered.  in: room-joined emitted.                       *)
Membership == {"out", "joining", "hydrated", "in"}

Results == {"none", "missing", "dup", "fenced", "committed",
            "rejected", "error", "dropped"}

(* handleSyncControl for one command, as seen by who sends it.              *)
Handler ==
    [st : {"idle", "sent", "eval", "replied", "done"},
     inst : Instances \cup {Nowhere}, live : BOOLEAN,
     fence : Videos \cup {Unfenced}, shown : Videos \cup {Unfenced},
     tries : 0..MaxRetries, res : Results, tl : MaybeVersion]

Sweeper == [pc : {"idle", "got", "won", "lost"}, tl : MaybeVersion]

TypeOK ==
    /\ scope \in Scopes
    /\ tl \in MaybeVersion
    /\ recorded \subseteq Cmds
    /\ swept \in BOOLEAN
    /\ windows \in 1..scope.windows
    /\ mishaps \in 0..scope.mishaps
    /\ epochs \in 0..scope.epochs
    /\ committed \subseteq Version
    /\ at \in [Clients -> Instances \cup {Nowhere}]
    /\ member \in [Clients -> Membership]
    /\ \A cl \in Clients : at[cl] = Nowhere => member[cl] = "out"
    /\ joinTl \in [Clients -> MaybeVersion]
    /\ view \in [Clients -> MaybeVersion]
    /\ cmd \in [Cmds -> Handler]
    /\ sweeper \in [Instances -> Sweeper]
    /\ timer \in [Instances -> BOOLEAN]
    /\ wire \in [Instances -> SUBSET Version]

Idle == [st |-> "idle", inst |-> Nowhere, live |-> FALSE, fence |-> Unfenced,
         shown |-> Unfenced, tries |-> 0, res |-> "none", tl |-> NoTimeline]

(* A handler that is over; what the sender was shown and the result are     *)
(* kept as history.                                                         *)
Over(h, res) == [Idle EXCEPT !.st = "done", !.shown = h.shown, !.res = res]

Resting == [pc |-> "idle", tl |-> NoTimeline]

Init ==
    /\ scope \in Scopes
    /\ tl = NoTimeline
    /\ recorded = {}
    /\ swept = FALSE
    /\ windows = 1
    /\ mishaps = 0
    /\ epochs = 0
    /\ committed = {}
    /\ at = [cl \in Clients |-> Nowhere]
    /\ member = [cl \in Clients |-> "out"]
    /\ joinTl = [cl \in Clients |-> NoTimeline]
    /\ view = [cl \in Clients |-> NoTimeline]
    /\ cmd = [c \in Cmds |-> Idle]
    /\ sweeper = [i \in Instances |-> Resting]
    /\ timer = [i \in Instances |-> i \in scope.due]
    /\ wire = [i \in Instances |-> {}]

(* After the busy windows nobody joins, sends, disconnects or fails.        *)
Calm == windows > BusyWindows

Mishap ==
    /\ ~Calm
    /\ mishaps < scope.mishaps
    /\ mishaps' = mishaps + 1

-----------------------------------------------------------------------------
(* Emitting.                                                                *)

(* The sockets of instance i in the socket.io room, members as soon as      *)
(* client.join has run.                                                     *)
Local(i) == {cl \in Clients : at[cl] = i /\ member[cl] # "out"}

(* Seeded fault: the engine applies whatever arrives.                       *)
onTimelineAlways(S, t) ==
    view' = [cl \in Clients |-> IF cl \in S THEN t ELSE view[cl]]

(* Each client in S receives sync:timeline and drops it unless newer.       *)
onTimeline(S, t) ==
    view' = [cl \in Clients |->
                IF cl \in S /\ isNewer(t, view[cl]) THEN t ELSE view[cl]]

(* server.to(room).emit on instance i: its own sockets now, the others      *)
(* through the adapter.                                                     *)
Broadcast(i, t) ==
    /\ onTimeline(Local(i), t)
    /\ wire' = [j \in Instances |-> IF j = i THEN wire[j] ELSE wire[j] \cup {t}]

WireDeliver(i) ==
    \E t \in wire[i] :
        /\ onTimeline(Local(i), t)
        /\ wire' = [wire EXCEPT ![i] = @ \ {t}]
        /\ UNCHANGED <<storeVars, windows, mishaps, at, member, joinTl, cmd,
                       sweeper, timer>>

-----------------------------------------------------------------------------
(* Connections and joins.                                                   *)

Connect(cl) ==
    /\ at[cl] = Nowhere
    /\ \E i \in scope.homes[cl] : at' = [at EXCEPT ![cl] = i]
    /\ UNCHANGED <<storeVars, windows, mishaps, member, joinTl, view, cmd,
                   sweeper, timer, wire>>

(* Seeded fault: userRooms keeps the socket.                                *)
HangupKeepsMember(gone) ==
    /\ at' = [cl \in Clients |-> IF cl \in gone THEN Nowhere ELSE at[cl]]
    /\ UNCHANGED <<member, joinTl>>

(* A closed connection takes its undelivered messages along; handlers that  *)
(* already run go on, and their client.emit reaches nobody.                 *)
Hangup(gone) ==
    /\ at' = [cl \in Clients |-> IF cl \in gone THEN Nowhere ELSE at[cl]]
    /\ member' = [cl \in Clients |-> IF cl \in gone THEN "out" ELSE member[cl]]
    /\ joinTl' = [cl \in Clients |->
                     IF cl \in gone THEN NoTimeline ELSE joinTl[cl]]

Orphan(h) == IF h.st = "sent" THEN Over(h, "dropped")
                              ELSE [h EXCEPT !.live = FALSE]

Disconnect(cl) ==
    /\ Mishap
    /\ at[cl] # Nowhere
    /\ Hangup({cl})
    /\ cmd' = [c \in Cmds |->
                  IF CmdOf[c].client = cl THEN Orphan(cmd[c]) ELSE cmd[c]]
    /\ UNCHANGED <<storeVars, windows, view, sweeper, timer, wire>>

(* A fresh page is a fresh engine.                                          *)
Reload(cl) ==
    /\ at[cl] = Nowhere
    /\ view[cl] # NoTimeline
    /\ view' = [view EXCEPT ![cl] = NoTimeline]
    /\ UNCHANGED <<storeVars, windows, mishaps, at, member, joinTl, cmd,
                   sweeper, timer, wire>>

(* handleJoinRoom up to ensureRoom: client.join makes the socket a member   *)
(* of the broadcast room before it has a timeline.                          *)
JoinRoom(cl) ==
    /\ ~Calm
    /\ at[cl] # Nowhere
    /\ member[cl] = "out"
    /\ member' = [member EXCEPT ![cl] = "joining"]
    /\ UNCHANGED <<storeVars, windows, mishaps, at, joinTl, view, cmd,
                   sweeper, timer, wire>>

Birth(v) ==
    [seq |-> 0, storeEpoch |-> epochs + 1, videoId |-> v, isPlaying |-> FALSE,
     origin |-> Join]

(* init.lua by way of ensureRoom: create if absent, answer what is there.   *)
EnsureRoom(cl) ==
    /\ member[cl] = "joining"
    /\ member' = [member EXCEPT ![cl] = "hydrated"]
    /\ \/ /\ tl # NoTimeline
          /\ UNCHANGED storeVars
       \/ /\ tl = NoTimeline
          /\ epochs < scope.epochs
          /\ \E v \in RowVideos : tl' = Birth(v)
          /\ swept' = FALSE
          /\ epochs' = epochs + 1
          /\ committed' = committed \cup {tl'}
          /\ UNCHANGED <<scope, recorded>>
    /\ joinTl' = [joinTl EXCEPT ![cl] = tl']
    /\ UNCHANGED <<windows, mishaps, at, view, cmd, sweeper, timer, wire>>

(* Redis is down for ensureRoom: the client is told, and its socket stays   *)
(* in the room.                                                             *)
JoinFails(cl) ==
    /\ Mishap
    /\ member[cl] = "joining"
    /\ member' = [member EXCEPT ![cl] = "in"]
    /\ UNCHANGED <<storeVars, windows, at, joinTl, view, cmd,
                   sweeper, timer, wire>>

(* room-joined: the engine applies the handler's timeline if it is newer    *)
(* than what broadcasts have brought since client.join.                     *)
RoomJoined(cl) ==
    /\ member[cl] = "hydrated"
    /\ member' = [member EXCEPT ![cl] = "in"]
    /\ onTimeline({cl}, joinTl[cl])
    /\ joinTl' = [joinTl EXCEPT ![cl] = NoTimeline]
    /\ UNCHANGED <<storeVars, windows, mishaps, at, cmd, sweeper, timer,
                   wire>>

(* releaseRoom after the last leave, or the 24h expiry of a room nobody     *)
(* touches: a playing room is touched by every sweep.                       *)
Vanish ==
    /\ Mishap
    /\ tl # NoTimeline
    /\ (\A cl \in Clients : member[cl] = "out") \/ ~tl.isPlaying
    /\ tl' = NoTimeline
    /\ swept' = FALSE
    /\ UNCHANGED <<scope, recorded, windows, epochs, committed, clientVars,
                   cmd, sweeper, timer, wire>>

-----------------------------------------------------------------------------
(* Controls.                                                                *)

(* Seeded fault: position commands go out unfenced.                         *)
fenceNever(cl, intent) == Unfenced

(* forVideoId: what the sender's engine shows; nothing before its first     *)
(* timeline, and nothing on a set-video.                                    *)
fence(cl, intent) ==
    IF intent = "set-video" \/ view[cl] = NoTimeline THEN Unfenced
                                                     ELSE view[cl].videoId

(* Only on a live connection.                                               *)
sendIntent(c) ==
    LET cl == CmdOf[c].client IN
    /\ ~Calm
    /\ c \in scope.cmds
    /\ cmd[c].st = "idle"
    /\ at[cl] # Nowhere
    /\ cmd' = [cmd EXCEPT ![c] = [Idle EXCEPT
                  !.st = "sent", !.inst = at[cl], !.live = TRUE,
                  !.shown = IF view[cl] = NoTimeline THEN Unfenced
                                                     ELSE view[cl].videoId,
                  !.fence = fence(cl, CmdOf[c].intent)]]
    /\ UNCHANGED <<storeVars, windows, mishaps, clientVars, sweeper, timer,
                   wire>>

(* handleSyncControl refuses: not a member of the room, not a controller,   *)
(* out of tokens.  The last two may befall any command.                     *)
RejectControl(c) ==
    /\ cmd[c].st = "sent"
    /\ cmd' = [cmd EXCEPT ![c] = Over(@, "rejected")]
    /\ UNCHANGED <<storeVars, windows, mishaps, clientVars, sweeper, timer,
                   wire>>

AcceptControl(c) ==
    /\ cmd[c].st = "sent"
    /\ member[CmdOf[c].client] # "out"
    /\ cmd' = [cmd EXCEPT ![c].st = "eval"]
    /\ UNCHANGED <<storeVars, windows, mishaps, clientVars, sweeper, timer,
                   wire>>

StaleVideo(c) ==
    /\ cmd[c].fence # Unfenced
    /\ CmdOf[c].intent # "set-video"
    /\ tl.videoId # cmd[c].fence

(* Seeded fault: the fence is checked before the dedup record.              *)
OutcomeFenceFirst(c) ==
    IF tl = NoTimeline THEN "missing"
    ELSE IF StaleVideo(c) THEN "fenced"
    ELSE IF c \in recorded THEN "dup"
    ELSE "committed"

(* apply_control.lua's answer, in the script's order.                       *)
Outcome(c) ==
    IF tl = NoTimeline THEN "missing"
    ELSE IF c \in recorded THEN "dup"
    ELSE IF StaleVideo(c) THEN "fenced"
    ELSE "committed"

Controlled(c) ==
    LET intent == CmdOf[c].intent IN
    [seq |-> tl.seq + 1,
     storeEpoch |-> tl.storeEpoch,
     videoId |-> IF intent = "set-video" THEN CmdOf[c].videoId ELSE tl.videoId,
     isPlaying |-> intent = "play" \/ (intent = "seek" /\ tl.isPlaying),
     origin |-> c]

(* The script runs; its reply is on the way to the instance.                *)
EvalControl(c) ==
    LET outcome == Outcome(c) IN
    /\ cmd[c].st = "eval"
    /\ IF outcome = "committed"
       THEN /\ tl' = Controlled(c)
            /\ recorded' = recorded \cup {c}
            /\ committed' = committed \cup {tl'}
       ELSE UNCHANGED <<tl, recorded, committed>>
    /\ cmd' = [cmd EXCEPT ![c].st = "replied", ![c].res = outcome, ![c].tl = tl']
    /\ UNCHANGED <<scope, swept, windows, mishaps, epochs, clientVars,
                   sweeper, timer, wire>>

Resent(h) ==
    [h EXCEPT !.st = "eval", !.tries = @ + 1, !.res = "none", !.tl = NoTimeline]

(* The connection to Redis breaks before the reply is read: ioredis sends   *)
(* the command again on the next connection, and gives up after MaxRetries. *)
LoseReply(c) ==
    /\ Mishap
    /\ cmd[c].st = "replied"
    /\ cmd' = [cmd EXCEPT ![c] =
                  IF @.tries < MaxRetries THEN Resent(@)
                                          ELSE Over(@, "error")]
    /\ UNCHANGED <<storeVars, windows, clientVars, sweeper, timer,
                   wire>>

(* The rest of handleSyncControl: the whole room hears of a commit, only    *)
(* the sender's socket of a duplicate or a fenced command.                  *)
FinishControl(c) ==
    LET h == cmd[c] IN
    /\ h.st = "replied"
    /\ \/ /\ h.res = "committed"
          /\ Broadcast(h.inst, h.tl)
       \/ /\ h.res \in {"dup", "fenced"}
          /\ onTimeline(IF h.live THEN {CmdOf[c].client} ELSE {}, h.tl)
          /\ UNCHANGED wire
       \/ /\ h.res = "missing"
          /\ UNCHANGED <<view, wire>>
    /\ cmd' = [cmd EXCEPT ![c] = Over(h, h.res)]
    /\ UNCHANGED <<storeVars, windows, mishaps, at, member, joinTl, sweeper, timer>>

-----------------------------------------------------------------------------
(* The sweep.                                                               *)

(* A window of the store's clock; every instance's interval fires in it.    *)
(* The last window opens once no command is on its way to the store.        *)
NewWindow ==
    /\ windows < scope.windows
    /\ windows = BusyWindows => \A c \in Cmds : cmd[c].st \in {"idle", "replied", "done"}
    /\ windows' = windows + 1
    /\ swept' = FALSE
    /\ timer' = [i \in Instances |-> TRUE]
    /\ UNCHANGED <<scope, mishaps, tl, recorded, committed, epochs, clientVars, cmd,
                   sweeper, wire>>

(* sweepTimelines: only rooms with a local socket, only playing ones.  An   *)
(* interval that finds nothing to sweep changes nothing and comes again.    *)
SweepGet(i) ==
    /\ timer[i]
    /\ sweeper[i].pc = "idle"
    /\ Local(i) # {}
    /\ tl # NoTimeline
    /\ tl.isPlaying
    /\ timer' = [timer EXCEPT ![i] = FALSE]
    /\ sweeper' = [sweeper EXCEPT ![i] = [pc |-> "got", tl |-> tl]]
    /\ UNCHANGED <<storeVars, windows, mishaps, clientVars, cmd, wire>>

(* Seeded fault: a snapshot reuses the version it re-anchors.               *)
ReanchoredSameSeq == [tl EXCEPT !.origin = Sweep]

Reanchored == [tl EXCEPT !.seq = @ + 1, !.origin = Sweep]

(* apply_snapshot.lua: the first caller of the window commits.  A room      *)
(* paused since SweepGet is answered as it is, and the answer is taken for  *)
(* a commit.                                                                *)
SweepApply(i) ==
    /\ sweeper[i].pc = "got"
    /\ IF tl # NoTimeline /\ tl.isPlaying /\ ~swept
       THEN /\ tl' = Reanchored
            /\ swept' = TRUE
            /\ committed' = committed \cup {tl'}
            /\ sweeper' = [sweeper EXCEPT ![i] = [pc |-> "won", tl |-> tl']]
       ELSE /\ sweeper' = [sweeper EXCEPT ![i] =
                  IF tl # NoTimeline /\ ~tl.isPlaying
                  THEN [pc |-> "won", tl |-> tl]
                  ELSE [pc |-> "lost", tl |-> sweeper[i].tl]]
            /\ UNCHANGED <<tl, swept, committed>>
    /\ UNCHANGED <<scope, recorded, windows, mishaps, epochs, clientVars, cmd,
                   timer, wire>>

(* Seeded fault: an instance that lost the window leaves the repair to the  *)
(* winner's broadcast.                                                      *)
SweepEmitWinnerOnly(i) ==
    /\ sweeper[i].pc \in {"won", "lost"}
    /\ IF sweeper[i].pc = "won" THEN Broadcast(i, sweeper[i].tl)
                                ELSE UNCHANGED <<view, wire>>
    /\ sweeper' = [sweeper EXCEPT ![i] = Resting]
    /\ UNCHANGED <<storeVars, windows, mishaps, at, member, joinTl, cmd, timer>>

(* committed: broadcast globally.  deferred: read again and re-anchor the   *)
(* local sockets in-process.                                                *)
SweepEmit(i) ==
    /\ \/ /\ sweeper[i].pc = "won"
          /\ Broadcast(i, sweeper[i].tl)
       \/ /\ sweeper[i].pc = "lost"
          /\ onTimeline(Local(i), IF tl = NoTimeline THEN sweeper[i].tl ELSE tl)
          /\ UNCHANGED wire
    /\ sweeper' = [sweeper EXCEPT ![i] = Resting]
    /\ UNCHANGED <<storeVars, windows, mishaps, at, member, joinTl, cmd, timer>>

(* A Redis error ends this instance's sweep of the room.                    *)
SweepFails(i) ==
    /\ Mishap
    /\ sweeper[i].pc # "idle"
    /\ sweeper' = [sweeper EXCEPT ![i] = Resting]
    /\ UNCHANGED <<storeVars, windows, clientVars, cmd, timer, wire>>

(* An instance dies: its sockets, handlers, sweep and subscription with it. *)
Crash(i) ==
    /\ Mishap
    /\ \E cl \in Clients : at[cl] = i
    /\ Hangup({cl \in Clients : at[cl] = i})
    /\ cmd' = [c \in Cmds |->
                  IF cmd[c].inst = i THEN Over(cmd[c], "dropped") ELSE cmd[c]]
    /\ sweeper' = [sweeper EXCEPT ![i] = Resting]
    /\ timer' = [timer EXCEPT ![i] = FALSE]
    /\ wire' = [wire EXCEPT ![i] = {}]
    /\ UNCHANGED <<storeVars, windows, view>>

-----------------------------------------------------------------------------
ClientNext(cl) ==
    \/ Connect(cl) \/ Disconnect(cl) \/ Reload(cl)
    \/ JoinRoom(cl) \/ EnsureRoom(cl) \/ JoinFails(cl) \/ RoomJoined(cl)

CmdNext(c) ==
    \/ sendIntent(c) \/ RejectControl(c) \/ AcceptControl(c) \/ EvalControl(c)
    \/ LoseReply(c) \/ FinishControl(c)

InstanceNext(i) ==
    \/ WireDeliver(i) \/ SweepGet(i) \/ SweepApply(i) \/ SweepEmit(i)
    \/ SweepFails(i) \/ Crash(i)

Next ==
    \/ \E cl \in Clients : ClientNext(cl)
    \/ \E c \in Cmds : CmdNext(c)
    \/ \E i \in Instances : InstanceNext(i)
    \/ NewWindow
    \/ Vanish

Spec == Init /\ [][Next]_vars

(* What runs by itself: event loops run their handlers and intervals, Redis *)
(* answers, the store's clock moves on.  Only that one of these goes on is  *)
(* assumed, in no order; nothing is assumed of the adapter, of clients'     *)
(* connections or of what users do.                                         *)
OwnStep ==
    \/ \E c \in Cmds : \/ RejectControl(c) \/ AcceptControl(c)
                       \/ EvalControl(c) \/ FinishControl(c)
    \/ \E cl \in Clients : EnsureRoom(cl) \/ RoomJoined(cl)
    \/ \E i \in Instances : SweepGet(i) \/ SweepApply(i) \/ SweepEmit(i)
    \/ NewWindow

FairSpec == Spec /\ WF_vars(OwnStep)

-----------------------------------------------------------------------------
(* One timeline per version: two commits that clients would take for the    *)
(* same (storeEpoch, seq) are the same commit, across controls, sweeps of   *)
(* several instances and rehydrations.                                      *)
Agreement ==
    \A s, t \in committed :
        s.storeEpoch = t.storeEpoch /\ s.seq = t.seq => s = t

(* A command its sender is told was refused as stale has not moved the      *)
(* room, even when the answer is to a resend (gateway: "refused, nothing    *)
(* committed").                                                             *)
FencedNeverApplied ==
    \A c \in Cmds :
        cmd[c].res = "fenced" => \A t \in committed : t.origin # c

(* End to end: a position command only ever moved the video its sender was  *)
(* showing at the gesture, whatever was under way to that sender then.      *)
MovedWhatWasShown ==
    \A t \in committed :
        (/\ t.origin \in Cmds
         /\ CmdOf[t.origin].intent # "set-video"
         /\ cmd[t.origin].shown # Unfenced)
        => t.videoId = cmd[t.origin].shown

(* Clients and store together implement the abstract room.                  *)
Abstract == INSTANCE RoomView WITH
    Clients <- Clients, committed <- committed, view <- view
ImplementsRoomView == Abstract!RoomSpec

(* The sweep repairs whatever the adapter lost: once things are calm, every *)
(* member of a playing room ends on the room's timeline although no         *)
(* cross-instance message need ever arrive (sweepTimelines' comment).       *)
AllCurrent == \A cl \in Clients : member[cl] = "in" => view[cl] = tl

(* A last, calm window, in which the room is swept once more, is part of    *)
(* the setting.                                                             *)
PlayingConverges ==
    scope.windows > BusyWindows =>
        <>[](tl # NoTimeline /\ tl.isPlaying => AllCurrent)

(* A room's versions name one timeline each, and a gesture moves what it    *)
(* was meant for or nothing: together what a client may rely on when it     *)
(* applies whatever is newest (fence, apply_control.lua, isNewer).          *)
RoomSound ==
    /\ TypeOK
    /\ Agreement
    /\ FencedNeverApplied
    /\ MovedWhatWasShown

=============================================================================
