---------------------------- MODULE MemoryStore ----------------------------
(***************************************************************************)
(* InMemoryRoomStateStore, the store of a deployment without Redis, driven *)
(* call by call beside LuaStore: every call one of them gets, the other    *)
(* gets too, at the same instant.  The class is a set of Maps, changed     *)
(* synchronously, so a call is one step.                                   *)
(*                                                                         *)
(* The two are meant to give the same answers ("mirrors the Redis SET NX   *)
(* PX semantics"), and do until they part: the Maps know no expiry of a    *)
(* room, clear() also forgets the command records, and a record is dead at *)
(* its last instant, where Redis still has it.  From there on they are not *)
(* compared, until both are empty again.                                   *)
(***************************************************************************)
EXTENDS LuaStore

VARIABLES
    rooms,      \* the room's entry in the rooms Map
    logs,       \* its entry in the logs Map
    cmdSeen,    \* [Cmds -> expiry of its entry in the cmdSeen Map, 0: none]
    outcome,    \* [Cmds -> kind of the last outcome]
    parted      \* history: the stores have parted

memVars == <<rooms, logs, cmdSeen, outcome, parted>>

NoneSeen == [c \in Cmds |-> 0]
NoOutcome == [c \in Cmds |-> "none"]

MemEmpty ==
    /\ rooms = NoTimeline
    /\ logs = <<>>
    /\ cmdSeen = NoneSeen
    /\ outcome = NoOutcome

MemInit == Init /\ MemEmpty /\ parted = FALSE

-----------------------------------------------------------------------------
(* log.push, then shift past the bound.                                     *)
appendLog(t, c) ==
    LET entries == Append(logs, [timeline |-> t, cmdId |-> c]) IN
    logs' = IF Len(entries) > LogMax THEN Tail(entries) ELSE entries

(* A call with an id first drops every record whose time has come.          *)
Unexpired(p) ==
    [c \in Cmds |-> IF p.hasId /\ cmdSeen[c] <= now THEN 0 ELSE cmdSeen[c]]

(* Seeded fault: the fence comes before the dup lookup.                     *)
OutcomeFenceFirst(c) ==
    IF rooms = NoTimeline THEN "missing"
    ELSE IF /\ issued[c].forVideoId # Unfenced
            /\ issued[c].intent # "set-video"
            /\ rooms.videoId # issued[c].forVideoId THEN "fenced"
    ELSE IF issued[c].hasId /\ Unexpired(issued[c])[c] # 0 THEN "dup"
    ELSE "committed"

(* applyControl's answer, in the method's order.                            *)
OutcomeOf(c) ==
    IF rooms = NoTimeline THEN "missing"
    ELSE IF issued[c].hasId /\ Unexpired(issued[c])[c] # 0 THEN "dup"
    ELSE IF /\ issued[c].forVideoId # Unfenced
            /\ issued[c].intent # "set-video"
            /\ rooms.videoId # issued[c].forVideoId THEN "fenced"
    ELSE "committed"

MemControl(c) ==
    LET p == issued[c]
        kind == OutcomeOf(c)
        next == [applyControl(rooms, p, now) EXCEPT !.seq = rooms.seq + 1] IN
    /\ outcome' = [outcome EXCEPT ![c] = kind]
    /\ IF kind = "committed"
       THEN /\ cmdSeen' = IF p.hasId
                          THEN [Unexpired(p) EXCEPT ![c] = now + DedupTtl]
                          ELSE cmdSeen
            /\ rooms' = next
            /\ appendLog(next, IF p.hasId THEN c ELSE NoCmd)
       ELSE /\ cmdSeen' = IF kind = "missing" THEN cmdSeen ELSE Unexpired(p)
            /\ UNCHANGED <<rooms, logs>>

MemSnapshot ==
    LET next == [snapshot(rooms, now) EXCEPT !.seq = rooms.seq + 1] IN
    /\ rooms' = next
    /\ appendLog(next, NoCmd)
    /\ UNCHANGED <<cmdSeen, outcome>>

(* init: what is there stays.                                               *)
MemInitRoom(videoId, mediaTime) ==
    LET created == [seq |-> 0, storeEpoch |-> now, videoId |-> videoId,
                    isPlaying |-> FALSE, mediaTime |-> mediaTime,
                    stampedAt |-> now, reason |-> "join"] IN
    /\ rooms' = created
    /\ appendLog(created, NoCmd)
    /\ UNCHANGED <<cmdSeen, outcome>>

MemClear ==
    /\ rooms' = NoTimeline
    /\ logs' = <<>>
    /\ cmdSeen' = NoneSeen
    /\ UNCHANGED outcome

(* Empty Maps: of a restarted process when Redis loses its data, and of     *)
(* stores that have parted and are put aside.                               *)
Emptied(apart) ==
    /\ rooms' = NoTimeline
    /\ logs' = <<>>
    /\ cmdSeen' = NoneSeen
    /\ outcome' = NoOutcome
    /\ parted' = apart

-----------------------------------------------------------------------------
(* Where the two part.                                                      *)
LastInstant(c) == issued[c].hasId /\ cmdRec[c] = now
RecordsLive == \E c \in Cmds : cmdRec[c] >= now
RoomExpires == tl # NoTimeline /\ tl' = NoTimeline

Control(c) ==
    ControlMissing(c) \/ ControlDuplicate(c) \/ ControlFenced(c)
    \/ ControlCommitted(c)

(* One call of both, as long as they are compared; the call would part them *)
(* when parts holds.                                                        *)
Beside(parts, mem) ==
    IF parted \/ parts THEN Emptied(TRUE) ELSE mem /\ UNCHANGED parted

MemNext ==
    \/ \E c \in Cmds : Issue(c) /\ UNCHANGED memVars
    \/ \E c \in Cmds : Control(c) /\ Beside(LastInstant(c), MemControl(c))
    \/ ApplySnapshot /\ Beside(FALSE, MemSnapshot)
    \/ InitRoom /\ Beside(FALSE, MemInitRoom(tl'.videoId, tl'.mediaTime))
    \/ Clear /\ Beside(RecordsLive, MemClear)
    \/ Flush /\ Emptied(FALSE)
    \/ Tick /\ Beside(RoomExpires, UNCHANGED <<rooms, logs, cmdSeen, outcome>>)

MemSpec == MemInit /\ [][MemNext]_<<vars, memVars>>

-----------------------------------------------------------------------------
(* The two stores agree: the same timeline, version by version, the same    *)
(* answer to every command and every repetition of it, and the bounded log  *)
(* in memory is the end of the one in Redis (InMemoryRoomStateStore's claim *)
(* to exercise the same dedup contract).                                    *)
StoresAgree ==
    ~parted =>
        /\ rooms = tl
        /\ outcome = answer
        /\ Len(logs) <= Len(log)
        /\ logs = SubSeq(log, Len(log) - Len(logs) + 1, Len(log))

-----------------------------------------------------------------------------
(* The inductive strengthening the proofs rest on.                          *)

MemTypeOK ==
    /\ logs \in Seq(LogEntry)
    /\ cmdSeen \in [Cmds -> Nat]
    /\ parted \in BOOLEAN

(* The Map has the record Redis has, or none where Redis' is in its last    *)
(* instant or over.                                                         *)
SeenAsRecorded ==
    \A c \in Cmds : IF cmdSeen[c] = 0 THEN cmdRec[c] <= now
                                      ELSE cmdSeen[c] = cmdRec[c]

(* Redis' log is the longer one because it never trims below the Map's      *)
(* bound, and because clear() empties only the Map's.                       *)
LogsBounded == Len(logs) <= LogMax /\ (tl = NoTimeline => logs = <<>>)

MemIInv ==
    /\ MemTypeOK
    /\ StoresAgree
    /\ ~parted => SeenAsRecorded /\ LogsBounded

=============================================================================
