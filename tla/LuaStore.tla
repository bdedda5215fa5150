----------------------------- MODULE LuaStore -----------------------------
(***************************************************************************)
(* Plane A's state store for one room: the Redis keys room:X:tl (timeline  *)
(* hash), room:X:cmd:<cmdId> (dedup records) and room:X:log (command log), *)
(* and the Lua scripts that are the only writers of them.  Redis runs a    *)
(* script to completion, so a script is one action.  The clock is Redis    *)
(* TIME, read inside the scripts.                                          *)
(*                                                                         *)
(* The environment issues commands (a fixed payload per cmdId) and may     *)
(* have the script executed for a command any number of times while        *)
(* RetryWindow lasts: ioredis resends an EVAL whose reply was lost, and a  *)
(* client or a forward may repeat a command.                               *)
(***************************************************************************)
EXTENDS TimelineCore

CONSTANTS
    Cmds,         \* command ids
    NoCmd,        \* the log's '' cmdId
    NotIssued,    \* no command minted under this id yet
    Controls,     \* the payloads clients send
    Positions,    \* media positions the database row may hold
    SweepPeriod,  \* SWEEP_DEDUP_PERIOD_MS
    DedupTtl,     \* CMD_DEDUP_TTL_MS
    RetryWindow,  \* how long after minting a command may still be delivered
    KeyTtl,       \* the 24h PEXPIRE of the timeline and of the log
    LogMax,       \* XADD's MAXLEN ~
    MaxSeq,       \* bound: commits per epoch
    MaxTime       \* bound: the clock

ASSUME ControlsAssumption == Controls \subseteq SyncControl
ASSUME PositionsAssumption == Positions \subseteq Nat
ASSUME CmdsAssumption == NoCmd \notin Cmds
ASSUME NotIssuedAssumption == NotIssued \notin SyncControl
ASSUME PeriodAssumption == SweepPeriod \in Nat \ {0}
ASSUME LogMaxAssumption == LogMax \in Nat \ {0}
ASSUME BoundsAssumption ==
    /\ DedupTtl \in Nat /\ RetryWindow \in Nat /\ KeyTtl \in Nat
    /\ MaxSeq \in Nat /\ MaxTime \in Nat
(* A delivery can be repeated only while its dedup record must still live.  *)
(* The code's numbers: 15 minutes against two ioredis retries.              *)
ASSUME RetryAssumption == RetryWindow <= DedupTtl

VARIABLES
    now,      \* Redis TIME
    tl,       \* the timeline hash, or NoTimeline
    window,   \* its lastSweepWindow field, -1 when never swept
    log,      \* the command log, oldest first
    expiry,   \* instant until which tl and log live (one script sets both)
    cmdRec,   \* [Cmds -> instant until which the dedup record lives]
    issued,   \* [Cmds -> payload minted under the id]
    issuedAt, \* [Cmds -> instant of minting]
    answer,   \* [Cmds -> the script's last answer]
    applied,  \* history: commits per command since the last data loss
    latest    \* history: the last timeline ever committed

storeVars == <<now, tl, window, log, expiry, cmdRec>>
vars == <<now, tl, window, log, expiry, cmdRec, issued, issuedAt,
          answer, applied, latest>>

LogEntry == [timeline : Timeline, cmdId : Cmds \cup {NoCmd}]

Answers == {"none", "missing", "dup", "fenced", "committed"}

TypeOK ==
    /\ now \in Nat \ {0}
    /\ tl \in Timeline \cup {NoTimeline}
    /\ window \in Int
    /\ log \in Seq(LogEntry)
    /\ expiry \in Nat
    /\ cmdRec \in [Cmds -> Nat]
    /\ issued \in [Cmds -> SyncControl \cup {NotIssued}]
    /\ issuedAt \in [Cmds -> Nat]
    /\ answer \in [Cmds -> Answers]
    /\ applied \in [Cmds -> Nat]
    /\ latest \in Timeline \cup {NoTimeline}

Init ==
    /\ now = 1
    /\ tl = NoTimeline
    /\ window = -1
    /\ log = <<>>
    /\ expiry = 0
    /\ cmdRec = [c \in Cmds |-> 0]
    /\ issued = [c \in Cmds |-> NotIssued]
    /\ issuedAt = [c \in Cmds |-> 0]
    /\ answer = [c \in Cmds |-> "none"]
    /\ applied = [c \in Cmds |-> 0]
    /\ latest = NoTimeline

-----------------------------------------------------------------------------
(* common.lua                                                               *)

(* XADD ... MAXLEN ~ LogMax: Redis trims whole nodes, so anything from no   *)
(* trimming to exactly LogMax retained entries may be left.                 *)
Retained(entries) ==
    {SubSeq(entries, k, Len(entries)) :
        k \in {1} \cup 2..(Len(entries) - LogMax + 1)}

(* log_tl                                                                   *)
LogTl(t, c) ==
    log' \in Retained(Append(log, [timeline |-> t, cmdId |-> c]))

(* Seeded fault: lastSweepWindow is not saved with the timeline.            *)
SaveForgetsWindow(t, w, c) ==
    /\ tl' = t
    /\ window' = -1
    /\ latest' = t
    /\ expiry' = now + KeyTtl
    /\ LogTl(t, c)

(* save_tl then log_tl, in one script: both keys get the same new expiry.   *)
Save(t, w, c) ==
    /\ tl' = t
    /\ window' = w
    /\ latest' = t
    /\ expiry' = now + KeyTtl
    /\ LogTl(t, c)

(* GET on the dedup record: a record past its PX expiry does not exist.     *)
Recorded(c) == issued[c].hasId /\ cmdRec[c] >= now

(* Seeded fault: no fence.                                                  *)
StaleVideoNever(p) == FALSE

(* The fence: a position command minted for another video than the room's.  *)
StaleVideo(p) ==
    /\ p.forVideoId # Unfenced
    /\ p.intent # "set-video"
    /\ tl.videoId # p.forVideoId

(* Seeded fault: set-video keeps the room playing.                          *)
RestampKeepsPlaying(p) ==
    [tl EXCEPT
        !.seq = tl.seq + 1,
        !.stampedAt = now,
        !.reason = p.intent,
        !.isPlaying = IF p.intent = "play" THEN TRUE
                      ELSE IF p.intent = "pause" THEN FALSE
                      ELSE tl.isPlaying,
        !.videoId = IF p.intent = "set-video" THEN p.videoId ELSE tl.videoId,
        !.mediaTime = IF p.intent = "set-video" THEN 0 ELSE p.mediaTime]

(* The script's own restamp, field by field as the Lua assigns them.        *)
Restamp(p) ==
    [tl EXCEPT
        !.seq = tl.seq + 1,
        !.stampedAt = now,
        !.reason = p.intent,
        !.isPlaying = IF p.intent = "play" THEN TRUE
                      ELSE IF p.intent \in {"pause", "set-video"} THEN FALSE
                      ELSE tl.isPlaying,
        !.videoId = IF p.intent = "set-video" THEN p.videoId ELSE tl.videoId,
        !.mediaTime = IF p.intent = "set-video" THEN 0 ELSE p.mediaTime]

(* apply_snapshot.lua's restamp.                                            *)
Reanchored ==
    [tl EXCEPT
        !.seq = tl.seq + 1,
        !.mediaTime = tl.mediaTime + (now - tl.stampedAt),
        !.stampedAt = now,
        !.reason = "snapshot"]

-----------------------------------------------------------------------------
(* A client mints a command: one payload per id, for good.                  *)
Issue(c) ==
    /\ issued[c] = NotIssued
    /\ \E p \in Controls : issued' = [issued EXCEPT ![c] = p]
    /\ issuedAt' = [issuedAt EXCEPT ![c] = now]
    /\ UNCHANGED <<storeVars, answer, applied, latest>>

Deliverable(c) ==
    /\ issued[c] # NotIssued
    /\ now <= issuedAt[c] + RetryWindow

Answer(c, a) == answer' = [answer EXCEPT ![c] = a]

(* apply_control.lua, answering false: the room has no timeline.            *)
ControlMissing(c) ==
    /\ Deliverable(c)
    /\ tl = NoTimeline
    /\ Answer(c, "missing")
    /\ UNCHANGED <<storeVars, issued, issuedAt, applied, latest>>

ControlDuplicate(c) ==
    /\ Deliverable(c)
    /\ tl # NoTimeline
    /\ Recorded(c)
    /\ Answer(c, "dup")
    /\ UNCHANGED <<storeVars, issued, issuedAt, applied, latest>>

(* Seeded fault: the id is recorded before the fence is checked.            *)
ControlFencedBurnsId(c) ==
    /\ Deliverable(c)
    /\ tl # NoTimeline
    /\ ~Recorded(c)
    /\ StaleVideo(issued[c])
    /\ Answer(c, "fenced")
    /\ cmdRec' = IF issued[c].hasId THEN [cmdRec EXCEPT ![c] = now + DedupTtl]
                                    ELSE cmdRec
    /\ UNCHANGED <<now, tl, window, log, expiry, issued, issuedAt, applied, latest>>

ControlFenced(c) ==
    /\ Deliverable(c)
    /\ tl # NoTimeline
    /\ ~Recorded(c)
    /\ StaleVideo(issued[c])
    /\ Answer(c, "fenced")
    /\ UNCHANGED <<storeVars, issued, issuedAt, applied, latest>>

(* Seeded faults: no record; a record that does not outlive its tick.       *)
RecordCmdNever(c) == cmdRec' = cmdRec

RecordCmdNoTtl(c) ==
    cmdRec' = IF issued[c].hasId THEN [cmdRec EXCEPT ![c] = now] ELSE cmdRec

(* The dedup record is written in the same step as the commit.              *)
RecordCmd(c) ==
    cmdRec' = IF issued[c].hasId THEN [cmdRec EXCEPT ![c] = now + DedupTtl]
                                 ELSE cmdRec

ControlCommitted(c) ==
    /\ Deliverable(c)
    /\ tl # NoTimeline
    /\ ~Recorded(c)
    /\ ~StaleVideo(issued[c])
    /\ tl.seq < MaxSeq
    /\ RecordCmd(c)
    /\ Save(Restamp(issued[c]), window, IF issued[c].hasId THEN c ELSE NoCmd)
    /\ Answer(c, "committed")
    /\ applied' = [applied EXCEPT ![c] = @ + 1]
    /\ UNCHANGED <<now, issued, issuedAt>>

(* apply_snapshot.lua.  Its other answers (room missing, paused, window     *)
(* already swept) write nothing.                                            *)
SweepWindow == now \div SweepPeriod

(* Seeded fault: snapshots are committed without a log entry.               *)
ApplySnapshotUnlogged ==
    /\ tl # NoTimeline
    /\ tl.isPlaying
    /\ window # SweepWindow
    /\ tl.seq < MaxSeq
    /\ tl' = Reanchored
    /\ window' = SweepWindow
    /\ latest' = Reanchored
    /\ expiry' = now + KeyTtl
    /\ UNCHANGED <<now, log, cmdRec, issued, issuedAt, answer, applied>>

ApplySnapshot ==
    /\ tl # NoTimeline
    /\ tl.isPlaying
    /\ window # SweepWindow
    /\ tl.seq < MaxSeq
    /\ Save(Reanchored, SweepWindow, NoCmd)
    /\ UNCHANGED <<now, cmdRec, issued, issuedAt, answer, applied>>

(* Seeded faults: seq starts below 0; an epoch that is not minted from the  *)
(* clock.                                                                   *)
BirthBelowZero(videoId, mediaTime) ==
    [seq |-> -1, storeEpoch |-> now, videoId |-> videoId, isPlaying |-> FALSE,
     mediaTime |-> mediaTime, stampedAt |-> now, reason |-> "join"]

BirthFixedEpoch(videoId, mediaTime) ==
    [seq |-> 0, storeEpoch |-> 1, videoId |-> videoId, isPlaying |-> FALSE,
     mediaTime |-> mediaTime, stampedAt |-> now, reason |-> "join"]

(* init.lua: create if absent, paused, from the room's database row.        *)
Birth(videoId, mediaTime) ==
    [seq |-> 0, storeEpoch |-> now, videoId |-> videoId, isPlaying |-> FALSE,
     mediaTime |-> mediaTime, stampedAt |-> now, reason |-> "join"]

InitRoom ==
    /\ tl = NoTimeline
    /\ \E v \in Videos, pos \in Positions : Save(Birth(v, pos), -1, NoCmd)
    /\ UNCHANGED <<now, cmdRec, issued, issuedAt, answer, applied>>

(* Timing assumption: a timeline is not created and lost inside one tick of *)
(* the clock that mints its epoch (the code mints epochs from milliseconds, *)
(* and a join and the leave that empties its room are network round trips   *)
(* apart).                                                                  *)
Aged == tl # NoTimeline => tl.storeEpoch < now

(* store.clear: DEL of the timeline only; records and log stay.             *)
Clear ==
    /\ tl # NoTimeline
    /\ Aged
    /\ tl' = NoTimeline
    /\ window' = -1
    /\ UNCHANGED <<now, log, expiry, cmdRec, issued, issuedAt, answer,
                   applied, latest>>

(* Redis loses its data: every key is gone, and the at-most-once promise    *)
(* starts over.                                                             *)
Flush ==
    /\ Aged
    /\ tl' = NoTimeline
    /\ window' = -1
    /\ log' = <<>>
    /\ expiry' = 0
    /\ cmdRec' = [c \in Cmds |-> 0]
    /\ answer' = [c \in Cmds |-> "none"]
    /\ applied' = [c \in Cmds |-> 0]
    /\ UNCHANGED <<now, issued, issuedAt, latest>>

(* Time passes; at their expiry Redis drops the timeline and the log.       *)
Tick ==
    /\ now < MaxTime
    /\ now' = now + 1
    /\ IF now' > expiry
       THEN tl' = NoTimeline /\ window' = -1 /\ log' = <<>>
       ELSE UNCHANGED <<tl, window, log>>
    /\ UNCHANGED <<expiry, cmdRec, issued, issuedAt, answer, applied, latest>>

Next ==
    \/ \E c \in Cmds : \/ Issue(c)
                       \/ ControlMissing(c)
                       \/ ControlDuplicate(c)
                       \/ ControlFenced(c)
                       \/ ControlCommitted(c)
    \/ ApplySnapshot
    \/ InitRoom
    \/ Clear
    \/ Flush
    \/ Tick

Spec == Init /\ [][Next]_vars

-----------------------------------------------------------------------------
(* Exactly-once, the safety half: between two data losses a command that    *)
(* carries a cmdId commits at most once, however often it is delivered and  *)
(* whatever happens to the room between two deliveries (apply_control.lua). *)
AtMostOnce == \A c \in Cmds : issued[c] # NotIssued /\ issued[c].hasId => applied[c] <= 1

(* A `dup' answer is a claim that the command has applied (common.lua,      *)
(* encode): the sender is told its command is in.                           *)
DupMeansApplied == \A c \in Cmds : answer[c] = "dup" => applied[c] >= 1

(* The retained log passes the replay checker's contract, across releases,  *)
(* rehydrations, expiries and approximate trimming (replay.ts, checkChain). *)
ChainHolds == checkChain(log)

(* ReplayReconstructs: the newest retained log entry is the live timeline   *)
(* (replay.ts, entryMatchesLive; the log is written in the same script).    *)
ReplayReconstructs ==
    tl # NoTimeline => /\ log # <<>>
                       /\ entryMatchesLive(log[Len(log)], tl)

(* A position command minted for one video never moved another: whatever    *)
(* entry the log has for it shows the video it was fenced on.               *)
NoCrossVideoApply ==
    \A i \in 1..Len(log) :
        LET c == log[i].cmdId IN
        (/\ c # NoCmd
         /\ issued[c].intent # "set-video"
         /\ issued[c].forVideoId # Unfenced)
        => log[i].timeline.videoId = issued[c].forVideoId

(* The sweep commits at most once per aligned window and epoch, however     *)
(* many instances call it and whatever controls come in between             *)
(* (apply_snapshot.lua).                                                    *)
OneSnapshotPerWindow ==
    \A i, j \in 1..Len(log) :
        (/\ i < j
         /\ log[i].timeline.reason = "snapshot"
         /\ log[j].timeline.reason = "snapshot"
         /\ log[i].timeline.storeEpoch = log[j].timeline.storeEpoch)
        => log[i].timeline.stampedAt \div SweepPeriod
             # log[j].timeline.stampedAt \div SweepPeriod

(* Versions only advance: a timeline that replaces the last one ever        *)
(* committed is newer than it in the clients' order (isNewer), even after   *)
(* the room was released, expired or lost and rehydrated.                   *)
VersionsAdvance == [][latest' # latest => isNewer(latest', latest)]_vars

-----------------------------------------------------------------------------
(* The inductive strengthening the proofs rest on.                          *)

(* What is live is the last commit, and the log ends in it.                 *)
LiveIsLatest ==
    /\ tl # NoTimeline => tl = latest /\ log # <<>>
    /\ log # <<>> => log[Len(log)].timeline = latest

(* No stamp lies in the future; a timeline that is gone is from an earlier  *)
(* tick than the next epoch will be.                                        *)
StampsInPast ==
    latest # NoTimeline =>
        /\ latest.storeEpoch <= now
        /\ latest.stampedAt <= now
        /\ tl = NoTimeline => latest.storeEpoch < now

(* A dedup record outlives every delivery its command may still get.        *)
RecordsCover ==
    \A c \in Cmds :
        /\ issuedAt[c] <= now
        /\ issued[c] = NotIssued => applied[c] = 0 /\ cmdRec[c] = 0
        /\ cmdRec[c] > 0 => applied[c] >= 1
        /\ (issued[c] # NotIssued /\ issued[c].hasId /\ applied[c] >= 1)
              => cmdRec[c] >= issuedAt[c] + DedupTtl

(* The log names only issued commands, and no epoch above the latest.       *)
LogIsPast ==
    \A i \in 1..Len(log) :
        /\ log[i].cmdId # NoCmd => issued[log[i].cmdId] # NotIssued
        /\ log[i].timeline.storeEpoch <= latest.storeEpoch

(* The swept windows of the live epoch are all at or below its last one.    *)
SweptWindows ==
    tl # NoTimeline =>
        /\ window <= now \div SweepPeriod
        /\ \A i \in 1..Len(log) :
             (/\ log[i].timeline.reason = "snapshot"
              /\ log[i].timeline.storeEpoch = tl.storeEpoch)
             => log[i].timeline.stampedAt \div SweepPeriod <= window

(* Inductive: every safety property above follows from it.                  *)
IInv ==
    /\ TypeOK
    /\ LiveIsLatest
    /\ StampsInPast
    /\ RecordsCover
    /\ LogIsPast
    /\ SweptWindows
    /\ AtMostOnce
    /\ DupMeansApplied
    /\ ChainHolds
    /\ NoCrossVideoApply
    /\ OneSnapshotPerWindow

=============================================================================
