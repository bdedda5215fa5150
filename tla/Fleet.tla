------------------------------- MODULE Fleet -------------------------------
(***************************************************************************)
(* The bot fleet, the repository's own test of a running deployment: bots   *)
(* in one room over either transport, a commander whose controls may be     *)
(* sent twice or in swapped pairs, and the gate that judges the run from    *)
(* the bots' reports.                                                       *)
(*                                                                         *)
(* The deployment under test is external, and at its worst: broadcasts are  *)
(* lost, repeated and out of order, joins fail, connections drop, the room  *)
(* is born again, and the dedup may be broken, which is what the fleet is   *)
(* there to notice.  The bots' players and clocks are PlayerSync's matter.  *)
(***************************************************************************)
EXTENDS Integers, Sequences, FiniteSets, FiniteSetsExt

CONSTANT
    FleetScopes   \* explored one at a time: [planes, dedups, bots, cmds, log, hears,
                  \* drops], the transports and deployments, and bounds of bots,
                  \* commands of the script, commits, timelines pushed to a bot
                  \* and connections lost

ASSUME FleetAssumption ==
    \A s \in FleetScopes :
        /\ s.planes \subseteq {"node", "relay"} /\ s.dedups \subseteq BOOLEAN
        /\ s.bots \in Nat \ {0} /\ s.cmds \in Nat

VARIABLES
    plane,       \* the transport: "node" (socket.io) or "relay" (raw WebSocket)
    dupControls, \* --dup-controls
    dedups,      \* the deployment recognises a repeated cmdId
    commits,     \* what the deployment committed, in order
    bot,         \* [Bots -> the bot and its transport]
    wire,        \* controls on their way on the commander's connection
    stray,       \* controls in the commander's sendBuffer
    scripted,    \* scriptedControls: the commands issued
    pairs,       \* reorderPairsSent
    arrived,     \* history: commands the deployment served
    overdue,        \* history: a control was served on a later connection
    aborted,     \* a first join failed: the run ends without a verdict
    drops,       \* connections lost
    fleetScope   \* the bounds at hand

fleetVars == <<plane, dupControls, dedups, commits, bot, wire, stray, scripted,
               pairs, arrived, overdue, aborted, drops, fleetScope>>

NoVersion == [storeEpoch |-> -1, seq |-> -1, reason |-> "join", mediaTime |-> 0]
Core == INSTANCE TimelineCore WITH
    Videos <- {0}, NoTimeline <- NoVersion, Unfenced <- -1

(* Bot 1 is the commander.  A command's id is its position.                 *)
Bots == 1..fleetScope.bots
FleetCmds == 1..fleetScope.cmds
Commander == 1
Up(b) == bot[b].conn = "up"

Fresh ==
    [conn |-> "up", gen |-> 0, room |-> FALSE, inRoom |-> FALSE,
     req |-> 0, buffered |-> 0, ans |-> <<>>, pending |-> {}, latest |-> -1,
     reconnects |-> 0, rejoinFailures |-> 0,
     seen |-> {}, timeline |-> NoVersion, seqDuplicates |-> 0, seqReorders |-> 0,
     lastSeek |-> 0, controlCommits |-> {}, hears |-> 0, got |-> {}]

Birth(e) == [storeEpoch |-> e, seq |-> 0, reason |-> "join", mediaTime |-> 0]

FleetInit ==
    /\ fleetScope \in FleetScopes
    /\ plane \in fleetScope.planes
    /\ dupControls \in BOOLEAN /\ dedups \in fleetScope.dedups
    /\ commits = <<Birth(1)>>
    /\ bot = [b \in Bots |-> Fresh]
    /\ wire = <<>> /\ stray = <<>>
    /\ scripted = {} /\ pairs = 0
    /\ arrived = {} /\ overdue = FALSE /\ aborted = FALSE /\ drops = 0

-----------------------------------------------------------------------------
(* A timeline enters a bot, pushed or returned from a join.                 *)
Version(tl) == <<tl.storeEpoch, tl.seq>>
Newer(k, tl) == Core!isNewer(tl, k.timeline)

Classified(k, tl) ==
    IF Newer(k, tl) THEN [k EXCEPT !.timeline = tl]
    ELSE IF tl.storeEpoch # k.timeline.storeEpoch THEN k
    ELSE IF tl.seq = k.timeline.seq THEN [k EXCEPT !.seqDuplicates = @ + 1]
    ELSE [k EXCEPT !.seqReorders = @ + 1]

(* Seeded fault: only what is applied is accounted for.                     *)
ingestNewerOnly(k, tl) ==
    LET newer == Newer(k, tl)
        noted == [k EXCEPT
            !.seen = IF newer THEN @ \cup {Version(tl)} ELSE @,
            !.controlCommits = IF tl.reason = "seek" THEN @ \cup {Version(tl)} ELSE @,
            !.lastSeek = IF tl.reason = "seek" /\ newer THEN tl.mediaTime ELSE @]
    IN Classified(noted, tl)

(* Seeded fault: the witness follows every timeline, not only seeks.        *)
ingestAnyReason(k, tl) ==
    LET noted == [k EXCEPT
            !.seen = @ \cup {Version(tl)},
            !.controlCommits = IF tl.reason = "seek" THEN @ \cup {Version(tl)} ELSE @,
            !.lastSeek = IF Newer(k, tl) THEN tl.mediaTime ELSE @]
    IN Classified(noted, tl)

ingest(k, tl) ==
    LET noted == [k EXCEPT
            !.seen = @ \cup {Version(tl)},
            !.controlCommits = IF tl.reason = "seek" THEN @ \cup {Version(tl)} ELSE @,
            !.lastSeek = IF tl.reason = "seek" /\ Newer(k, tl) THEN tl.mediaTime ELSE @]
    IN Classified(noted, tl)

Received(k, tl) == [ingest(k, tl) EXCEPT !.got = @ \cup {Version(tl)}]

(* Once for every promise the answer resolves.                              *)
Resolved(k, tl, n) ==
    LET r[i \in 0..n] == IF i = 0 THEN k ELSE Received(r[i - 1], tl) IN r[n]

-----------------------------------------------------------------------------
(* Joining, over both transports.  A promise is known by the reconnect that *)
(* made it, 0 for the bot's first join.                                     *)

(* A join goes out on a live connection; socket.io keeps one emitted on a   *)
(* dead connection for the next, a raw WebSocket drops it.                  *)
Joining(k) ==
    [k EXCEPT !.room = TRUE, !.pending = @ \cup {k.reconnects}, !.latest = k.reconnects,
              !.req = IF k.conn = "up" THEN @ + 1 ELSE @,
              !.buffered = IF k.conn # "up" /\ plane = "node" THEN @ + 1 ELSE @]

Only(b, k) ==
    /\ bot' = [bot EXCEPT ![b] = k]
    /\ UNCHANGED <<fleetScope, plane, dupControls, dedups, scripted, pairs>>

Join(b) ==
    /\ ~bot[b].room /\ ~aborted
    /\ Only(b, Joining(bot[b]))
    /\ UNCHANGED <<commits, wire, stray, arrived, overdue, aborted, drops>>

(* Seeded fault: nobody joins again, as the first version had it.           *)
onReconnectDeaf(k) == [k EXCEPT !.reconnects = @ + 1]

onReconnect(k) ==
    LET counted == [k EXCEPT !.reconnects = @ + 1] IN
    IF k.room THEN Joining(counted) ELSE counted

(* The first join after a connect is served, or fails and is not answered.  *)
ServeJoin(b) ==
    /\ Up(b) /\ bot[b].req > 0
    /\ \/ Only(b, [bot[b] EXCEPT !.req = @ - 1, !.inRoom = TRUE,
                                 !.ans = Append(@, commits[Len(commits)])])
       \/ Only(b, [bot[b] EXCEPT !.req = @ - 1])
    /\ UNCHANGED <<commits, wire, stray, arrived, overdue, aborted, drops>>

(* room-joined resolves every socket.io join that waits, frame 0x06 only    *)
(* the latest one.                                                          *)
JoinAnswer(b) ==
    /\ Up(b) /\ bot[b].ans # <<>>
    /\ LET k == [bot[b] EXCEPT !.ans = Tail(@)]
           done == IF plane = "node" THEN k.pending ELSE k.pending \cap {k.latest}
       IN Only(b, Resolved([k EXCEPT !.pending = @ \ done], Head(bot[b].ans),
                           Cardinality(done)))
    /\ UNCHANGED <<commits, wire, stray, arrived, overdue, aborted, drops>>

(* Ten seconds have passed.                                                 *)
JoinTimeout(b, p) ==
    /\ p \in bot[b].pending
    /\ Only(b, [bot[b] EXCEPT !.pending = @ \ {p},
                              !.rejoinFailures = IF p = 0 THEN @ ELSE @ + 1])
    /\ aborted' = (aborted \/ p = 0)
    /\ UNCHANGED <<commits, wire, stray, arrived, overdue, drops>>

-----------------------------------------------------------------------------
(* Connections.                                                             *)

(* The ping has expired and socket.io has not yet told: what is emitted now *)
(* is kept in sendBuffer.                                                   *)
GoesQuiet(b) ==
    /\ plane = "node" /\ Up(b) /\ drops < fleetScope.drops
    /\ Only(b, [bot[b] EXCEPT !.conn = "quiet"])
    /\ UNCHANGED <<commits, wire, stray, arrived, overdue, aborted, drops>>

(* Seeded fault: the buffer keeps its controls.                             *)
KeptControlsAll(buf) == buf

KeptControls(buf) == <<>>

(* disconnect, close: what was on the way is lost.                          *)
Drop(b) ==
    /\ bot[b].conn \in {"up", "quiet"} /\ drops < fleetScope.drops
    /\ drops' = drops + 1
    /\ Only(b, [bot[b] EXCEPT !.conn = "down", !.inRoom = FALSE, !.req = 0, !.ans = <<>>])
    /\ IF b = Commander THEN wire' = <<>> /\ stray' = KeptControls(stray)
                        ELSE UNCHANGED <<wire, stray>>
    /\ UNCHANGED <<commits, arrived, overdue, aborted>>

(* socket.io flushes its buffer, then tells.                                *)
Reconnect(b) ==
    /\ bot[b].conn = "down"
    /\ Only(b, onReconnect([bot[b] EXCEPT !.conn = "up", !.gen = @ + 1,
                                          !.req = bot[b].buffered, !.buffered = 0]))
    /\ IF b = Commander THEN wire' = stray /\ stray' = <<>>
                        ELSE UNCHANGED <<wire, stray>>
    /\ UNCHANGED <<commits, arrived, overdue, aborted, drops>>

-----------------------------------------------------------------------------
(* Controls.                                                                *)
Twice(s) == IF dupControls THEN s \o s ELSE s

(* Not at all on a connection known to be dead.                             *)
sendControl(cmds) ==
    LET ps == [i \in DOMAIN cmds |-> [cmd |-> cmds[i], gen |-> bot[Commander].gen]] IN
    CASE bot[Commander].conn = "up" -> wire' = wire \o ps /\ UNCHANGED stray
      [] bot[Commander].conn = "quiet" -> stray' = stray \o ps /\ UNCHANGED wire
      [] bot[Commander].conn = "down" -> UNCHANGED <<wire, stray>>

(* The script starts when everybody has joined.                             *)
Playing == ~aborted /\ \A b \in Bots : bot[b].room /\ 0 \notin bot[b].pending

sendIntent(c) ==
    /\ Playing /\ c \in FleetCmds \ scripted /\ \A d \in scripted : d < c
    /\ scripted' = scripted \cup {c}
    /\ sendControl(Twice(<<c>>))
    /\ UNCHANGED <<fleetScope, plane, dupControls, dedups, commits, bot, pairs, arrived, overdue,
                   aborted, drops>>

(* Minted first and second, emitted second and first; the twins after both. *)
sendIntentSwappedPair(first, second) ==
    /\ Playing /\ scripted = {} /\ first < second
    /\ scripted' = {first, second} /\ pairs' = pairs + 1
    /\ sendControl(Twice(<<second, first>>))
    /\ UNCHANGED <<fleetScope, plane, dupControls, dedups, commits, bot, arrived, overdue, aborted, drops>>

-----------------------------------------------------------------------------
(* The deployment.                                                          *)
Latest == commits[Len(commits)]
Commit(reason, pos) ==
    /\ Len(commits) < fleetScope.log
    /\ commits' = Append(commits, [Latest EXCEPT !.seq = @ + 1, !.reason = reason,
                                                 !.mediaTime = pos])

ServeControl ==
    /\ wire # <<>> /\ Up(Commander)
    /\ wire' = Tail(wire)
    /\ LET p == Head(wire) IN
       IF bot[Commander].inRoom
       THEN /\ arrived' = arrived \cup {p.cmd}
            /\ overdue' = (overdue \/ p.gen # bot[Commander].gen)
            /\ IF dedups /\ p.cmd \in arrived THEN UNCHANGED commits
               ELSE Commit("seek", p.cmd)
       ELSE UNCHANGED <<commits, arrived, overdue>>
    /\ UNCHANGED <<fleetScope, plane, dupControls, dedups, bot, stray, scripted, pairs, aborted, drops>>

Sweep ==
    /\ Commit("snapshot", Latest.mediaTime)
    /\ UNCHANGED <<fleetScope, plane, dupControls, dedups, bot, wire, stray, scripted, pairs, arrived,
                   overdue, aborted, drops>>

(* Everybody has left and somebody comes back.                              *)
Reborn ==
    /\ \A b \in Bots : ~bot[b].inRoom
    /\ Len(commits) < fleetScope.log /\ Latest.storeEpoch < 2 /\ scripted # {}
    /\ commits' = Append(commits, Birth(Latest.storeEpoch + 1))
    /\ UNCHANGED <<fleetScope, plane, dupControls, dedups, bot, wire, stray, scripted, pairs, arrived,
                   overdue, aborted, drops>>

(* A broadcast, a sweep's repair or a duplicate's answer reaches a bot.     *)
Push(b, v) ==
    /\ Up(b) /\ bot[b].inRoom /\ bot[b].hears < fleetScope.hears
    /\ Only(b, [Received(bot[b], commits[v]) EXCEPT !.hears = @ + 1])
    /\ UNCHANGED <<commits, wire, stray, arrived, overdue, aborted, drops>>

FleetNext ==
    \/ \E b \in Bots :
         \/ Join(b) \/ ServeJoin(b) \/ JoinAnswer(b)
         \/ GoesQuiet(b) \/ Drop(b) \/ Reconnect(b)
         \/ \E p \in bot[b].pending : JoinTimeout(b, p)
         \/ \E v \in 1..Len(commits) : Push(b, v)
    \/ \E c \in FleetCmds : sendIntent(c)
    \/ \E c, d \in FleetCmds : sendIntentSwappedPair(c, d)
    \/ ServeControl \/ Sweep \/ Reborn

-----------------------------------------------------------------------------
(* The verdict.                                                             *)
SeqsOf(k, e) == {v[2] : v \in {w \in k.seen : w[1] = e}}

(* Seeded fault: the range ends one early.                                  *)
reportShort(k) ==
    UNION {LET S == SeqsOf(k, e) IN {<<e, s>> : s \in ((Min(S) + 1)..(Max(S) - 2)) \ S} :
               e \in {v[1] : v \in k.seen}}

(* report().seqGaps: the holes in the range a bot observed of an epoch.     *)
report(k) ==
    UNION {LET S == SeqsOf(k, e) IN {<<e, s>> : s \in ((Min(S) + 1)..(Max(S) - 1)) \ S} :
               e \in {v[1] : v \in k.seen}}

Gate ==
    /\ ~aborted
    /\ \A b \in Bots : report(bot[b]) = {} /\ bot[b].rejoinFailures = 0
    /\ Cardinality(UNION {bot[b].controlCommits : b \in Bots}) = Cardinality(scripted)
    /\ pairs > 0 => \A b \in Bots : bot[b].lastSeek = Min(scripted)

-----------------------------------------------------------------------------
Committed == {Version(commits[i]) : i \in 1..Len(commits)}
CommitsOf(c) ==
    {i \in 1..Len(commits) : commits[i].reason = "seek" /\ commits[i].mediaTime = c}

(* Some bot has the first and the last commit of every epoch.               *)
Followed ==
    \A e \in {v[1] : v \in Committed} :
        LET S == {v \in Committed : v[1] = e} IN
        \E b \in Bots : \A v \in S :
            (\A w \in S : v[2] <= w[2]) \/ (\A w \in S : v[2] >= w[2]) => v \in bot[b].got

(* The gate can be trusted: when it passes a run whose commands all reached *)
(* the deployment and some bot followed the room from first to last, every  *)
(* command was committed exactly once, also if the deployment's dedup is    *)
(* broken and the second commit's broadcasts were all lost (the exact count *)
(* and the gap check of run-bots).                                          *)
GateSound ==
    Gate /\ Followed /\ scripted \subseteq arrived =>
        \A c \in scripted : Cardinality(CommitsOf(c)) = 1

(* A gap is a loss: a bot reports exactly the commits it never got between  *)
(* two it got, whatever was late, repeated or out of order (report decides  *)
(* from the complete set ingest keeps).                                     *)
GapIsALoss ==
    \A b \in Bots :
        report(bot[b]) =
            {v \in Committed \ bot[b].got :
                \E lo, hi \in bot[b].got :
                    lo[1] = v[1] /\ hi[1] = v[1] /\ lo[2] < v[2] /\ v[2] < hi[2]}

(* A deaf bot is counted: one that is connected, outside its room and waits *)
(* for no join has a failed re-join to its name (onReconnect of the bots;   *)
(* what it misses from there on is no gap).                                 *)
DeafIsCounted ==
    \A b \in Bots :
        Up(b) /\ bot[b].room /\ ~bot[b].inRoom /\ bot[b].pending = {} =>
            aborted \/ bot[b].rejoinFailures > 0

(* The witness of a swapped pair: a bot that was sent nothing out of order  *)
(* holds the position of the newest seek it got of the epoch it follows     *)
(* (lastSeekMediaTime).                                                     *)
WitnessIsNewest ==
    \A b \in Bots :
        LET Seeks == {i \in 1..Len(commits) :
                /\ commits[i].reason = "seek" /\ Version(commits[i]) \in bot[b].got
                /\ commits[i].storeEpoch = bot[b].timeline.storeEpoch}
        IN Seeks # {} /\ bot[b].seqReorders = 0 =>
             bot[b].lastSeek = commits[Max(Seeks)].mediaTime

(* No control of a lost connection is served on a later one, where it would *)
(* move the room from the past and outlive its dedup record (sendControl    *)
(* and the filter at disconnect).                                           *)
FleetNoLateControl == ~overdue

(* The fleet's verdicts follow from what happened.                          *)
FleetSound ==
    /\ GateSound
    /\ GapIsALoss
    /\ DeafIsCounted
    /\ WitnessIsNewest
    /\ FleetNoLateControl

=============================================================================
