--------------------------- MODULE TimelineCore ---------------------------
(***************************************************************************)
(* The pure core of the sync plane: what a room's playback state is, how   *)
(* it is projected, ordered and restamped (shared/sync-core/timeline.ts),  *)
(* and the transition contract the replay checker holds the command log to *)
(* (shared/sync-core/replay.ts).                                           *)
(*                                                                         *)
(* Data abstraction.  Server instants and media positions are counted in   *)
(* the same tick (the code counts milliseconds and seconds, rate is fixed  *)
(* at 1, so the projection adds elapsed ticks).  An epoch is the instant   *)
(* at which it was minted, as in the code.  The constant fields v and rate *)
(* and the attribution field `by' are left out.                            *)
(***************************************************************************)
EXTENDS Integers, Sequences

CONSTANTS
    Videos,      \* the videoId values a room may show; null is one of them
    NoTimeline,  \* the room has no timeline (key absent; null in the client)
    Unfenced     \* a command that carries no forVideoId

Intents == {"play", "pause", "seek", "set-video"}

Reasons == Intents \cup {"join", "snapshot"}

Timeline ==
    [seq : Nat, storeEpoch : Nat, videoId : Videos, isPlaying : BOOLEAN,
     mediaTime : Nat, stampedAt : Nat, reason : Reasons]

(* A control as the gateway hands it to the store: cmdId is optional on the *)
(* wire (hasId), forVideoId too (Unfenced), videoId is set-video's payload. *)
SyncControl ==
    [intent : Intents, mediaTime : Nat, videoId : Videos,
     forVideoId : Videos \cup {Unfenced}, hasId : BOOLEAN]

ASSUME NoTimelineAssumption == NoTimeline \notin Timeline
ASSUME UnfencedAssumption == Unfenced \notin Videos

projectMediaTime(t, serverNow) ==
    IF t.isPlaying THEN t.mediaTime + (serverNow - t.stampedAt)
                   ELSE t.mediaTime

(* Epochs are totally ordered: the higher epoch wins, inside an epoch the   *)
(* higher seq.                                                              *)
isNewer(incoming, applied) ==
    \/ applied = NoTimeline
    \/ incoming.storeEpoch > applied.storeEpoch
    \/ /\ incoming.storeEpoch = applied.storeEpoch
       /\ incoming.seq > applied.seq

(* Restamp a control at serverNow.  seq is assigned by the store.           *)
applyControl(prev, p, serverNow) ==
    LET base == [prev EXCEPT !.stampedAt = serverNow, !.reason = p.intent]
    IN  CASE p.intent = "play" ->
                [base EXCEPT !.isPlaying = TRUE, !.mediaTime = p.mediaTime]
          [] p.intent = "pause" ->
                [base EXCEPT !.isPlaying = FALSE, !.mediaTime = p.mediaTime]
          [] p.intent = "seek" ->
                [base EXCEPT !.mediaTime = p.mediaTime]
          [] p.intent = "set-video" ->
                [base EXCEPT !.videoId = p.videoId, !.isPlaying = FALSE,
                             !.mediaTime = 0]

snapshot(t, serverNow) ==
    [t EXCEPT !.mediaTime = projectMediaTime(t, serverNow),
              !.stampedAt = serverNow, !.reason = "snapshot"]

-----------------------------------------------------------------------------
(* The replay checker's contract between two consecutive log entries,       *)
(* stated independently of applyControl and snapshot.  An epoch boundary is *)
(* not chained.                                                             *)
checkTransition(prev, next) ==
    next.storeEpoch = prev.storeEpoch =>
        /\ next.seq = prev.seq + 1
        /\ next.stampedAt >= prev.stampedAt
        /\ IF next.reason = "set-video"
           THEN ~next.isPlaying /\ next.mediaTime = 0
           ELSE /\ next.videoId = prev.videoId
                /\ next.reason \in {"play", "pause", "seek", "snapshot"}
                /\ next.reason = "play" => next.isPlaying
                /\ next.reason = "pause" => ~next.isPlaying
                /\ next.reason = "seek" => next.isPlaying = prev.isPlaying
                /\ next.reason = "snapshot" =>
                     /\ next.isPlaying = prev.isPlaying
                     /\ next.mediaTime = projectMediaTime(prev, next.stampedAt)

(* A log entry is the committed timeline plus the command id it came from.  *)
toTimeline(e) == e.timeline

checkChain(entries) ==
    \A i \in 1..Len(entries)-1 :
        checkTransition(toTimeline(entries[i]), toTimeline(entries[i+1]))

(* The newest retained entry is the live state, field by field.             *)
entryMatchesLive(last, live) ==
    LET t == toTimeline(last)
    IN  /\ t.storeEpoch = live.storeEpoch
        /\ t.seq = live.seq
        /\ t.isPlaying = live.isPlaying
        /\ t.mediaTime = live.mediaTime
        /\ t.reason = live.reason
        /\ t.stampedAt = live.stampedAt
        /\ t.videoId = live.videoId

=============================================================================
