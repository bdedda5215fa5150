------------------------------- MODULE Relay -------------------------------
(***************************************************************************)
(* The relays: one process that holds every WebSocket of its rooms, runs   *)
(* the store's scripts, fans timelines out in the process, and closes the  *)
(* connections of revoked tokens.  relay-go and relay-rs have the same     *)
(* registry, rooms, bounded send queues and sweeps; impl says which one is *)
(* running.  They differ in how a connection ends (a channel that is       *)
(* closed, or senders that are dropped) and in what they ask about a       *)
(* token: relay-go the mirror in Redis, relay-rs a snapshot of it that its *)
(* refresh replaces and announcements add to.                              *)
(*                                                                         *)
(* A connection's handler is one task, its writer another; the snapshot    *)
(* sweep, the revocation loop and the subscriber are tasks of their own.   *)
(* What a lock guards is one step.  A room's timeline is the number of     *)
(* controls applied and whether it plays: a snapshot re-stamps a playing   *)
(* room and leaves both as they are (LuaStore has seq).  A frame names no  *)
(* room on the wire; here it does, to say which one it was sent for.  A    *)
(* control names any room: neither relay asks whether its sender is there. *)
(***************************************************************************)
EXTENDS Integers, Sequences, FiniteSets

CONSTANTS
    Conns,
    Readers,      \* connections whose client keeps reading
    Rooms,
    Jtis, Versions,   \* revocations of one token, of all tokens of a user
    Kills,        \* [Conns -> the revocations that refuse its token]
    SEND_BUFFER,  \* frames a send queue holds
    NoRoom, NoFrame,
    MaxControls,  \* bound: controls applied to a room
    RelayScopes        \* bounds: how many connections and frames clients make, which
                  \* revocations happen and how many Redis calls fail

Facts == Jtis \cup Versions

ASSUME RelayAssumption ==
    /\ Readers \subseteq Conns /\ Jtis \cap Versions = {}
    /\ Kills \in [Conns -> SUBSET Facts]
    /\ SEND_BUFFER \in Nat \ {0} /\ MaxControls \in Nat
    /\ RelayScopes \subseteq [frames : Nat, facts : SUBSET Facts, errors : Nat]
    /\ NoRoom \notin Rooms

VARIABLES
    impl,      \* "go" or "rs"
    conn,      \* [Conns -> handler: pc, its room, the room of its Redis call]
    queue,     \* [Conns -> frames waiting for the writer]
    open,      \* [Conns -> the send queue exists and is not closed]
    evicted,   \* connections told to close
    rooms,     \* [Rooms -> its connections]: s.rooms
    conns,     \* s.conns
    tl,        \* [Rooms -> its timeline in Redis]
    toSweep,   \* rooms of this tick the sweep has not reached
    swept,     \* the timeline the sweep has read and not yet broadcast
    seen,      \* [Conns -> the frame its client holds]
    redisMirror,    \* revocations in Redis
    wire,      \* announcements not yet received
    known,     \* relay-rs: revoked_jti and user_versions
    refresh,   \* relay-rs: refresh_snapshot in flight
    pendingFacts,   \* relay-rs: revocations heard while it is
    heard,     \* history: revocations the relay has been told of
    panicked,  \* history: somebody sent on a closed queue
    relayScope      \* what may still happen

relayVars == <<impl, conn, queue, open, evicted, rooms, conns, tl, toSweep, swept,
          seen, redisMirror, wire, known, refresh, pendingFacts, heard, panicked, relayScope>>
sweepVars == <<toSweep, swept>>
snapVars == <<known, refresh, pendingFacts>>
revVars == <<redisMirror, wire, snapVars, heard>>

Frame == [kind : {"pong", "ack", "timeline", "rejected"},
          room : Rooms \cup {NoRoom}, n : 0..MaxControls]
Pong == [kind |-> "pong", room |-> NoRoom, n |-> 0]
Rejected == [kind |-> "rejected", room |-> NoRoom, n |-> 0]

Pcs == {"none", "checked", "read", "join", "control", "leave", "close"}
Handler == [pc : Pcs, room : Rooms \cup {NoRoom}, ask : Rooms \cup {NoRoom}]
Refresh == [pc : {"idle", "clear", "jtis", "versions", "install"},
            got : SUBSET Facts, ok : SUBSET {"jtis", "versions"}]
NoRefresh == [pc |-> "idle", got |-> {}, ok |-> {}]

RelayTypeOK ==
    /\ impl \in {"go", "rs"}
    /\ conn \in [Conns -> Handler]
    /\ queue \in [Conns -> Seq(Frame)]
    /\ \A c \in Conns : Len(queue[c]) <= SEND_BUFFER
    /\ open \in [Conns -> BOOLEAN]
    /\ evicted \subseteq Conns
    /\ rooms \in [Rooms -> SUBSET Conns]
    /\ conns \subseteq Conns
    /\ tl \in [Rooms -> [n : 0..MaxControls, playing : BOOLEAN]]
    /\ toSweep \subseteq Rooms
    /\ swept \in Frame \cup {NoFrame}
    /\ seen \in [Conns -> Frame \cup {NoFrame}]
    /\ redisMirror \subseteq Facts /\ wire \subseteq Facts
    /\ known \subseteq Facts /\ pendingFacts \subseteq Facts /\ heard \subseteq Facts
    /\ refresh \in Refresh
    /\ panicked \in BOOLEAN
    /\ relayScope \in [frames : Nat, facts : SUBSET Facts, errors : Nat]

RelayInit ==
    /\ impl \in {"go", "rs"}
    /\ conn = [c \in Conns |-> [pc |-> "none", room |-> NoRoom, ask |-> NoRoom]]
    /\ queue = [c \in Conns |-> <<>>]
    /\ open = [c \in Conns |-> FALSE]
    /\ evicted = {} /\ conns = {}
    /\ rooms = [r \in Rooms |-> {}]
    /\ tl = [r \in Rooms |-> [n |-> 0, playing |-> FALSE]]
    /\ toSweep = {} /\ swept = NoFrame
    /\ seen = [c \in Conns |-> NoFrame]
    /\ redisMirror = {} /\ wire = {} /\ known = {} /\ pendingFacts = {} /\ heard = {}
    /\ refresh = NoRefresh
    /\ panicked = FALSE /\ relayScope \in RelayScopes

-----------------------------------------------------------------------------
(* Send queues.                                                             *)
\* Mutant: the queue grows without limit.
HasSpaceAlways(c) == open[c]

HasSpace(c) == open[c] /\ Len(queue[c]) < SEND_BUFFER

(* A direct reply: a full queue ends the connection.                        *)
trySend(c, f) ==
    IF HasSpace(c)
    THEN /\ queue' = [queue EXCEPT ![c] = Append(@, f)]
         /\ conn' = [conn EXCEPT ![c].pc = "read", ![c].ask = NoRoom]
    ELSE /\ conn' = [conn EXCEPT ![c].pc = "leave", ![c].ask = NoRoom]
         /\ UNCHANGED queue

(* To everyone in the room, under its lock: a full queue drops the frame.   *)
(* In Go a send on a closed channel takes the process down.                 *)
broadcast(room, f) ==
    /\ queue' = [c \in Conns |->
         IF c \in rooms[room] /\ HasSpace(c) THEN Append(queue[c], f) ELSE queue[c]]
    /\ panicked' = (panicked \/ (impl = "go" /\ \E c \in rooms[room] : ~open[c]))

(* The writer task: the next frame reaches the client, which keeps the      *)
(* newest it has got since its join was answered.  Of two rooms either may  *)
(* have the later epoch.                                                    *)
Write(c) ==
    /\ queue[c] # <<>>
    /\ conn[c].pc # "none"
    /\ queue' = [queue EXCEPT ![c] = Tail(@)]
    /\ \E laterEpoch \in BOOLEAN :
         seen' = [seen EXCEPT ![c] =
           LET f == Head(queue[c])
               newer == \/ @ = NoFrame
                        \/ @.room = f.room /\ @.n < f.n
                        \/ @.room # f.room /\ laterEpoch IN
           IF f.kind = "ack" \/ (f.kind = "timeline" /\ newer) THEN f ELSE @]
    /\ UNCHANGED <<impl, relayScope, conn, open, evicted, rooms, conns, tl, sweepVars,
                   revVars, panicked>>

-----------------------------------------------------------------------------
(* Connections.                                                             *)

(* relay-go asks the mirror, relay-rs its snapshot.                         *)
revoked(c) == Kills[c] \cap (IF impl = "go" THEN redisMirror ELSE known) # {}

(* Bounds.                                                                  *)
Spend == relayScope.frames > 0 /\ relayScope' = [relayScope EXCEPT !.frames = @ - 1]
CallFails == relayScope.errors > 0 /\ relayScope' = [relayScope EXCEPT !.errors = @ - 1]

(* The handshake: token verified and not known to be revoked.               *)
Accept(c) ==
    /\ conn[c].pc = "none" /\ ~revoked(c)
    /\ conn' = [conn EXCEPT ![c].pc = "checked"]
    /\ Spend
    /\ UNCHANGED <<impl, queue, open, evicted, rooms, conns, tl, sweepVars,
                   seen, revVars, panicked>>

Register(c) ==
    /\ conn[c].pc = "checked"
    /\ conn' = [conn EXCEPT ![c].pc = "read"]
    /\ conns' = conns \cup {c}
    /\ open' = [open EXCEPT ![c] = TRUE]
    /\ UNCHANGED <<impl, relayScope, queue, evicted, rooms, tl, sweepVars, seen, revVars,
                   panicked>>

(* A frame arrives.  relay-rs asks again whether the token is revoked; the  *)
(* close signal of an eviction comes before any frame.                      *)
Receives(c) == conn[c].pc = "read" /\ c \notin evicted
Served(c) == Receives(c) /\ (impl = "rs" => ~revoked(c))

RefuseFrame(c) ==
    /\ Receives(c) /\ impl = "rs" /\ revoked(c)
    /\ conn' = [conn EXCEPT ![c].pc = "leave"]
    /\ UNCHANGED <<impl, relayScope, queue, open, evicted, rooms, conns, tl, sweepVars,
                   seen, revVars, panicked>>

ClockPing(c) ==
    /\ Served(c)
    /\ trySend(c, Pong)
    /\ Spend
    /\ UNCHANGED <<impl, open, evicted, rooms, conns, tl, sweepVars, seen,
                   revVars, panicked>>
\* Mutant: the connection stays in the room it was in.
joinRoomStays(c, room) == rooms' = [rooms EXCEPT ![room] = @ \cup {c}]

(* Out of the room it was in, if any, and into this one.                    *)
joinRoom(c, room) ==
    rooms' = [r \in Rooms |->
        IF r = room THEN rooms[r] \cup {c} ELSE rooms[r] \ {c}]

Join(c, room) ==
    /\ Served(c)
    /\ joinRoom(c, room)
    /\ conn' = [conn EXCEPT ![c] = [pc |-> "join", room |-> room, ask |-> room]]
    /\ Spend
    /\ UNCHANGED <<impl, queue, open, evicted, conns, tl, sweepVars, seen,
                   revVars, panicked>>

Timeline(kind, room) == [kind |-> kind, room |-> room, n |-> tl[room].n]

(* init.lua answered, or failed: then the client gets no answer.            *)
JoinAnswer(c) ==
    LET room == conn[c].ask IN
    /\ conn[c].pc = "join"
    /\ \/ trySend(c, Timeline("ack", room)) /\ UNCHANGED relayScope
       \/ /\ CallFails
          /\ conn' = [conn EXCEPT ![c].pc = "read", ![c].ask = NoRoom]
          /\ UNCHANGED queue
    /\ UNCHANGED <<impl, open, evicted, rooms, conns, tl, sweepVars, seen,
                   revVars, panicked>>

(* A control, for whichever room its frame names.                           *)
Control(c, room) ==
    /\ Served(c)
    /\ conn' = [conn EXCEPT ![c].pc = "control", ![c].ask = room]
    /\ Spend
    /\ UNCHANGED <<impl, queue, open, evicted, rooms, conns, tl, sweepVars,
                   seen, revVars, panicked>>

(* apply_control.lua commits: everyone in the room is told.                 *)
ControlApplied(c, playing) ==
    LET room == conn[c].ask IN
    /\ conn[c].pc = "control" /\ tl[room].n < MaxControls
    /\ tl' = [tl EXCEPT ![room] = [n |-> @.n + 1, playing |-> playing]]
    /\ broadcast(room, [kind |-> "timeline", room |-> room, n |-> tl[room].n + 1])
    /\ conn' = [conn EXCEPT ![c].pc = "read", ![c].ask = NoRoom]
    /\ UNCHANGED <<impl, relayScope, open, evicted, rooms, conns, sweepVars, seen, revVars>>

(* Applied before (dup): only the sender is answered.  Failed, or a room    *)
(* that has no timeline: rejected.                                          *)
ControlAnswered(c) ==
    /\ conn[c].pc = "control"
    /\ trySend(c, Timeline("timeline", conn[c].ask)) \/ trySend(c, Rejected)
    /\ UNCHANGED <<impl, relayScope, open, evicted, rooms, conns, tl, sweepVars, seen,
                   revVars, panicked>>

(* The client hangs up, or the read fails because the socket was closed.    *)
Hangup(c) ==
    /\ conn[c].pc = "read"
    /\ conn' = [conn EXCEPT ![c].pc = "leave"]
    /\ UNCHANGED <<impl, relayScope, queue, open, evicted, rooms, conns, tl, sweepVars,
                   seen, revVars, panicked>>

(* The read loop of a connection told to close returns.                     *)
Closes(c) == c \in evicted /\ Hangup(c)
\* Mutant: a connection that ends stays in its room.
leaveNothing(c) ==
    /\ conn[c].pc = "leave"
    /\ conn' = [conn EXCEPT ![c].pc = "close", ![c].room = NoRoom]
    /\ UNCHANGED <<impl, relayScope, queue, open, evicted, rooms, conns, tl,
                   sweepVars, seen, revVars, panicked>>

leave(c) ==
    /\ conn[c].pc = "leave"
    /\ rooms' = [r \in Rooms |-> rooms[r] \ {c}]
    /\ conn' = [conn EXCEPT ![c].pc = "close", ![c].room = NoRoom]
    /\ UNCHANGED <<impl, relayScope, queue, open, evicted, conns, tl, sweepVars, seen,
                   revVars, panicked>>

(* Out of the registry; then the queue is closed or its sender dropped.     *)
TearDown(c) ==
    /\ conn[c].pc = "close"
    /\ conns' = conns \ {c}
    /\ open' = [open EXCEPT ![c] = FALSE]
    /\ queue' = [queue EXCEPT ![c] = <<>>]
    /\ seen' = [seen EXCEPT ![c] = NoFrame]
    /\ evicted' = evicted \ {c}
    /\ conn' = [conn EXCEPT ![c].pc = "none"]
    /\ UNCHANGED <<impl, relayScope, rooms, tl, sweepVars, revVars, panicked>>

-----------------------------------------------------------------------------
(* The ten-second sweep.                                                    *)

SweepTick ==
    /\ toSweep = {} /\ swept = NoFrame
    /\ toSweep' = {r \in Rooms : rooms[r] # {}}
    /\ toSweep' # {}
    /\ UNCHANGED <<impl, relayScope, conn, queue, open, evicted, rooms, conns, tl, swept,
                   seen, revVars, panicked>>
\* Mutant: the script is empty and answers nothing.
SweepRoomEmptyScript(room) ==
    /\ room \in toSweep /\ swept = NoFrame
    /\ toSweep' = toSweep \ {room}
    /\ UNCHANGED <<impl, relayScope, conn, queue, open, evicted, rooms, conns, tl,
                   swept, seen, revVars, panicked>>

(* apply_snapshot.lua; a paused room is not sent.                           *)
SweepRoom(room) ==
    /\ room \in toSweep /\ swept = NoFrame
    /\ toSweep' = toSweep \ {room}
    /\ \/ /\ swept' = IF tl[room].playing THEN Timeline("timeline", room) ELSE NoFrame
          /\ UNCHANGED relayScope
       \/ CallFails /\ UNCHANGED swept
    /\ UNCHANGED <<impl, conn, queue, open, evicted, rooms, conns, tl, seen,
                   revVars, panicked>>

SweepBroadcast ==
    /\ swept # NoFrame
    /\ broadcast(swept.room, swept)
    /\ swept' = NoFrame
    /\ UNCHANGED <<impl, relayScope, conn, open, evicted, rooms, conns, tl, toSweep, seen,
                   revVars>>

-----------------------------------------------------------------------------
(* Revocation.                                                              *)

(* The backend adds to the mirror and then announces.                       *)
Mirrored(f) ==
    /\ f \in relayScope.facts \ redisMirror
    /\ redisMirror' = redisMirror \cup {f}
    /\ UNCHANGED <<impl, relayScope, conn, queue, open, evicted, rooms, conns, tl,
                   sweepVars, seen, wire, snapVars, heard, panicked>>

Announced(f) ==
    /\ f \in redisMirror \ (wire \cup heard)
    /\ wire' = wire \cup {f}
    /\ UNCHANGED <<impl, relayScope, conn, queue, open, evicted, rooms, conns, tl,
                   sweepVars, seen, redisMirror, snapVars, heard, panicked>>
\* Mutant: the Close goes through the send queue and nowhere else.
evictThroughQueue(victims) ==
    evicted' = evicted \cup {c \in victims \cap conns : HasSpace(c)}

(* evict closes the socket, or raises the close signal; the send queue is   *)
(* its handler's to close.                                                  *)
evict(victims) == evicted' = evicted \cup (victims \cap conns)

(* remember_jti, remember_version and the eviction of what is registered.   *)
remember(f) ==
    /\ known' = IF impl = "rs" THEN known \cup {f} ELSE known
    /\ pendingFacts' = IF refresh.pc # "idle" THEN pendingFacts \cup {f} ELSE pendingFacts

Hear(f) ==
    /\ f \in wire
    /\ wire' = wire \ {f}
    /\ heard' = heard \cup {f}
    /\ remember(f)
    /\ evict({c \in Conns : f \in Kills[c]})
    /\ UNCHANGED <<impl, relayScope, conn, queue, open, rooms, conns, tl, sweepVars, seen,
                   redisMirror, refresh, panicked>>

(* refresh_snapshot: flag, clear, two reads, install.                       *)
RefreshBegin ==
    /\ impl = "rs" /\ refresh.pc = "idle" /\ relayScope.facts # {}
    /\ refresh' = [NoRefresh EXCEPT !.pc = "clear"]
    /\ UNCHANGED <<impl, relayScope, conn, queue, open, evicted, rooms, conns, tl,
                   sweepVars, seen, redisMirror, wire, known, pendingFacts, heard,
                   panicked>>

RefreshClear ==
    /\ refresh.pc = "clear"
    /\ pendingFacts' = {}
    /\ refresh' = [refresh EXCEPT !.pc = "jtis"]
    /\ UNCHANGED <<impl, relayScope, conn, queue, open, evicted, rooms, conns, tl,
                   sweepVars, seen, redisMirror, wire, known, heard, panicked>>

(* SMEMBERS, then HGETALL; each may fail on its own.                        *)
RefreshRead(pc, next, part) ==
    /\ refresh.pc = pc
    /\ \/ /\ refresh' = [refresh EXCEPT !.pc = next, !.ok = @ \cup {pc},
                                        !.got = @ \cup (redisMirror \cap part)]
          /\ UNCHANGED relayScope
       \/ /\ CallFails
          /\ refresh' = [refresh EXCEPT !.pc = next]
    /\ UNCHANGED <<impl, conn, queue, open, evicted, rooms, conns, tl,
                   sweepVars, seen, redisMirror, wire, known, pendingFacts, heard, panicked>>

RefreshJtis == RefreshRead("jtis", "versions", Jtis)
RefreshVersions == RefreshRead("versions", "install", Versions)
\* Mutant: what was heard during the refresh is overwritten.
InstalledWithoutPending(part, pc) ==
    IF pc \in refresh.ok THEN refresh.got \cap part ELSE known \cap part

(* What was read replaces the snapshot, with what was heard meanwhile; a    *)
(* read that failed leaves its half as it was.                              *)
Installed(part, pc) ==
    IF pc \in refresh.ok THEN (refresh.got \cup pendingFacts) \cap part
    ELSE known \cap part

(* The loop goes on to close what is revoked or expired.                    *)
RefreshInstall ==
    /\ refresh.pc = "install"
    /\ known' = Installed(Jtis, "jtis") \cup Installed(Versions, "versions")
    /\ refresh' = NoRefresh
    /\ pendingFacts' = {}
    /\ UNCHANGED <<impl, relayScope, conn, queue, open, evicted, rooms, conns, tl,
                   sweepVars, seen, redisMirror, wire, heard, panicked>>

(* The thirty-second sweep of the registry.                                 *)
RevocationSweep ==
    /\ refresh.pc = "idle"
    /\ \E c \in conns \ evicted : revoked(c)
    /\ evict({c \in conns : revoked(c)})
    /\ UNCHANGED <<impl, relayScope, conn, queue, open, rooms, conns, tl, sweepVars, seen,
                   revVars, panicked>>

-----------------------------------------------------------------------------
Handle(c) ==
    \/ Register(c) \/ RefuseFrame(c) \/ JoinAnswer(c) \/ ControlAnswered(c)
    \/ \E p \in BOOLEAN : ControlApplied(c, p)
    \/ Closes(c) \/ leave(c) \/ TearDown(c)

Client(c) ==
    \/ Accept(c) \/ ClockPing(c) \/ Hangup(c)
    \/ \E r \in Rooms : Join(c, r) \/ Control(c, r)

Sweep == SweepTick \/ (\E r \in Rooms : SweepRoom(r)) \/ SweepBroadcast

Refreshes == RefreshBegin \/ RefreshClear \/ RefreshJtis \/ RefreshVersions
               \/ RefreshInstall

RelayStep ==
    \/ \E c \in Conns : Handle(c) \/ Client(c) \/ Write(c)
    \/ Sweep \/ Refreshes \/ RevocationSweep
    \/ \E f \in Facts : Mirrored(f) \/ Announced(f) \/ Hear(f)

(* Handlers, sweeps and the refresh are tasks the runtime schedules; the    *)
(* writer of a client that reads makes progress.  Nothing is owed by        *)
(* clients, by the backend or by pub/sub.                                   *)
RelaySpec ==
    /\ RelayInit /\ [][RelayStep]_relayVars
    /\ WF_relayVars(Sweep) /\ WF_relayVars(Refreshes) /\ WF_relayVars(RevocationSweep)
    /\ \A c \in Conns : WF_relayVars(Handle(c))
    /\ \A c \in Readers : WF_relayVars(Write(c))

-----------------------------------------------------------------------------
(* Nobody sends on a queue that has been closed: the handler leaves its     *)
(* room before it closes, and evict never closes the queue.                 *)
NeverPanics == ~panicked

AnswersOwnControl(c, room) ==
    conn[c].pc = "control" /\ conn[c].ask = room /\ conn'[c].ask = NoRoom

(* A timeline is only ever queued for a connection that is in its room at   *)
(* that moment, by a sweep that listed the room earlier too: a frame has no *)
(* room in it, the client would take it for its own.  The exception is the  *)
(* answer to a repeated control, which goes to whoever sent it, in the room *)
(* it named or not; an answer to a join is of the room joined.              *)
NoStrayFrames ==
    [][\A c \in Conns :
         LET f == queue'[c][Len(queue'[c])] IN
         Len(queue'[c]) > Len(queue[c]) /\ f.kind \in {"timeline", "ack"}
           => \/ conn[c].room = f.room
              \/ f.kind = "timeline" /\ AnswersOwnControl(c, f.room)]_relayVars

(* A revocation relay-rs has been told of is never dropped by a refresh     *)
(* that read Redis before it was there.                                     *)
HeardIsKnown == impl = "rs" => heard \subseteq known

(* A connection whose token is revoked in the mirror is closed in the end,  *)
(* with no announcement, a full queue and a client that neither reads nor   *)
(* writes.                                                                  *)
RevokedIsClosed ==
    \A c \in Conns :
        Kills[c] \cap redisMirror # {} ~> c \notin conns

HoldsForeign(c, r) == seen[c] # NoFrame /\ seen[c].room # r

(* Frames dropped at a full queue are repaired: a reader that stays in a    *)
(* room that goes on playing comes to hold its last control, unless what it *)
(* holds is of another room and of a later epoch: the frames of its own     *)
(* room are then old to it.                                                 *)
PlayingConverges ==
    \A c \in Readers, r \in Rooms :
        (<>[](c \in rooms[r] /\ tl[r].playing /\ ~HoldsForeign(c, r)))
          => []<>(c \in rooms[r] => seen[c] # NoFrame /\ seen[c].n = tl[r].n)

(* Queues and revocations survive each other: nothing is sent on a closed   *)
(* queue, nothing heard is lost to a refresh.                               *)
RelaySound ==
    /\ RelayTypeOK
    /\ NeverPanics
    /\ HeardIsKnown

=============================================================================
