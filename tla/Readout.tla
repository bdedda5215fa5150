------------------------------ MODULE Readout ------------------------------
(***************************************************************************)
(* What the adapters tell the engine of a player: the position, which the  *)
(* YouTube and Vimeo adapters reconstruct from the edges they see (polled,  *)
(* or pushed by events), and Vimeo's lifecycle, which its adapter keeps     *)
(* from events.  A player's history is a sequence of ticks; the adapter's   *)
(* state after the first i of them is a recursive function of i.            *)
(***************************************************************************)
EXTENDS Integers, Sequences

Adapters == {"youtube", "vimeo"}

(* Ticks of 400 ms an edge is extrapolated: 800 ms, 1200 ms.                *)
Cap(of) == IF of = "youtube" THEN 2 ELSE 3

Fastest == 2  \* positions a tick plays at the rate of a correction; usually 1

VARIABLE history    \* the history at hand: an adapter's ticks, a life, or none

HistoriesUpTo(S, n) == UNION {[1..k -> S] : k \in 1..n}

-----------------------------------------------------------------------------
(* A tick of a player that reports PLAYING.  The player moves on by what it *)
(* plays, nothing if it stalls; the adapter may ask for a seek, and one     *)
(* asked for may land, since either API only posts the request.  "rate" is  *)
(* the one the adapter holds, which need not be the one played: YouTube's   *)
(* is read back at once and may be the old one, Vimeo's is taken for        *)
(* granted.  The adapter sees the position or not (the readout is steppy,   *)
(* the pipe may stall).                                                     *)
Ticks == [does : {"play", "ask", "land"}, moves : 0..Fastest, rate : 1..Fastest,
          seen : BOOLEAN]

Far == 50     \* a seek goes far, ahead or back

NoEdge == [tLocal |-> -1, value |-> -1]

At0 == [now |-> 0, at |-> 0, asked |-> 0, rate |-> 1, lastRaw |-> 0, edge |-> NoEdge]

Landing(at) == IF at < Far THEN at + Far ELSE at - Far

Lands(st, tick) == st.asked > 0 /\ tick.does = "land"

Moved(st, tick) ==
    [st EXCEPT !.now = @ + 1,
               !.at = IF Lands(st, tick) THEN Landing(@) ELSE @ + tick.moves,
               !.asked = IF Lands(st, tick) THEN @ - 1 ELSE @,
               !.rate = tick.rate]

(* seekTo: the old edge is meaningless across a seek; the request is posted. *)
seekTo(st) == [st EXCEPT !.asked = @ + 1, !.edge = NoEdge]

(* What is seen of the player is an edge: by YouTube's poll if it is a new  *)
(* value, by Vimeo's timeupdate and seeked in any case.                     *)
poll(of, st) ==
    IF of = "youtube" /\ st.at = st.lastRaw THEN st
    ELSE [st EXCEPT !.edge = [tLocal |-> st.now, value |-> st.at], !.lastRaw = st.at]

Extrapolated(st) == st.edge.value + (st.now - st.edge.tLocal) * st.rate

(* Seeded fault: an edge is extrapolated for ever.                          *)
getPlayerTimeUncapped(of, st) ==
    IF st.edge # NoEdge THEN Extrapolated(st) ELSE st.lastRaw

getPlayerTime(of, st) ==
    IF st.edge # NoEdge /\ st.now - st.edge.tLocal < Cap(of)
    THEN Extrapolated(st) ELSE st.lastRaw

Views(of, h) ==
    LET st[i \in 0..Len(h)] ==
            IF i = 0 THEN At0
            ELSE LET moved == Moved(st[i - 1], h[i])
                     posted == IF h[i].does = "ask" THEN seekTo(moved) ELSE moved
                 IN IF h[i].seen THEN poll(of, posted) ELSE posted
    IN st

(* The last tick at which the adapter saw the position, 0: never.           *)
LastSeen(h) ==
    CHOOSE i \in 0..Len(h) :
        /\ i > 0 => h[i].seen
        /\ \A j \in (i + 1)..Len(h) : ~h[j].seen

-----------------------------------------------------------------------------
(* Vimeo's events and the lifecycle its adapter keeps.  The player loads,   *)
(* plays, pauses, stalls while playing and ends, and says so in order; a    *)
(* pause during a stall ends it, and is told before its end or after.       *)
LifeSteps == {"loaded", "play", "pause", "stall", "flow", "pause-stalled",
              "stalled-pause", "ended"}

CanDo(life, d) ==
    CASE d = "loaded" -> life = "unstarted"
      [] d = "play" -> life \in {"cued", "paused", "ended"}
      [] d = "pause" -> life = "playing"
      [] d = "stall" -> life = "playing"
      [] d \in {"flow", "pause-stalled", "stalled-pause"} -> life = "buffering"
      [] d = "ended" -> life = "playing"

Becomes(d) ==
    CASE d = "loaded" -> "cued" [] d \in {"play", "flow"} -> "playing"
      [] d \in {"pause", "pause-stalled", "stalled-pause"} -> "paused" [] d = "stall" -> "buffering"
      [] d = "ended" -> "ended"

Events(d) ==
    CASE d = "stall" -> <<"bufferstart">> [] d = "flow" -> <<"bufferend">>
      [] d = "pause-stalled" -> <<"pause", "bufferend">>
      [] d = "stalled-pause" -> <<"bufferend", "pause">>
      [] OTHER -> <<d>>

(* Seeded fault: the end of a stall is playing, whatever came between.      *)
onEventBufferendPlays(life, e) ==
    CASE e \in {"play", "bufferend"} -> "playing" [] e = "pause" -> "paused"
      [] e = "bufferstart" -> "buffering" [] e = "ended" -> "ended"
      [] e = "loaded" -> IF life = "unstarted" THEN "cued" ELSE life

onEvent(life, e) ==
    CASE e = "play" -> "playing" [] e = "pause" -> "paused"
      [] e = "bufferstart" -> "buffering"
      [] e = "bufferend" -> IF life = "buffering" THEN "playing" ELSE life
      [] e = "ended" -> "ended"
      [] e = "loaded" -> IF life = "unstarted" THEN "cued" ELSE life

Heard(life, es) ==
    LET l[i \in 0..Len(es)] == IF i = 0 THEN life ELSE onEvent(l[i - 1], es[i])
    IN l[Len(es)]

(* A player's life along what it does, and the one the adapter keeps.       *)
Lived(h) ==
    LET l[i \in 0..Len(h)] ==
            IF i = 0 THEN "unstarted"
            ELSE IF CanDo(l[i - 1], h[i]) THEN Becomes(h[i]) ELSE l[i - 1]
    IN l

Kept(h) ==
    LET l[i \in 0..Len(h)] ==
            IF i = 0 THEN "unstarted"
            ELSE IF CanDo(Lived(h)[i - 1], h[i]) THEN Heard(l[i - 1], Events(h[i]))
            ELSE l[i - 1]
    IN l

NoHistory == [of |-> "none", steps |-> <<>>]

(* Long histories are at the usual rate, whatever is played.                *)
PlayerHistories ==
    {NoHistory}
    \cup [of : Adapters, steps : HistoriesUpTo(Ticks, 3)]
    \cup [of : Adapters, steps : HistoriesUpTo({t \in Ticks : t.rate = 1 /\ t.moves < 2}, 4)]
    \cup [of : {"life"}, steps : HistoriesUpTo(LifeSteps, 4)]

-----------------------------------------------------------------------------
(* The properties, of the history at hand.                                  *)

(* A reading is close to what the player shows: it lags by no more than was *)
(* played while nothing was seen and, whatever rate it is extrapolated at,  *)
(* never runs ahead of a player that stands still by more than the cap      *)
(* allows.  Only a seek that landed and has not been seen yet is excepted:  *)
(* the reading is then of the place left, last seen or extrapolated from it *)
(* within the cap, and not extrapolated if nothing was seen since the seek  *)
(* was asked for (getPlayerTime's cap, seekTo's reset of the edge).         *)
ReadingNearTruth ==
    history.of \in Adapters =>
        LET h == history.steps
            st == Views(history.of, h)
            now == st[Len(h)]
            seen == LastSeen(h)
            unseen == (seen + 1)..Len(h)
            reading == getPlayerTime(history.of, now)
            slack == (Cap(history.of) - 1) * Fastest
        IN /\ \/ \E j \in unseen : Lands(st[j - 1], h[j])
              \/ /\ now.at - reading <= (Len(h) - seen) * Fastest
                 /\ reading - now.at <= slack
           /\ now.lastRaw <= reading /\ reading <= now.lastRaw + slack
           /\ (\E j \in unseen : h[j].does = "ask") => reading = now.lastRaw

(* The lifecycle the Vimeo adapter keeps is the player's, through pauses in *)
(* a stall, whichever of pause and end is told first.                       *)
LifeFollowsVimeo ==
    history.of = "life" => Kept(history.steps) = Lived(history.steps)

(* What an adapter says of its player, of either kind of history.           *)
ReadoutSound ==
    /\ ReadingNearTruth
    /\ LifeFollowsVimeo

=============================================================================
