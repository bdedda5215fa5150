--------------------------- MODULE MCPlayerSync ---------------------------
(* PlayerSync with the repository's drift thresholds and timers of a few    *)
(* ticks.                                                                   *)
EXTENDS PlayerSync, PlayerMounts, MediaSource, Readout, Captions, ServerClock, Gestures

Snaps(k) == [kind |-> k, honours |-> FALSE]
Honours(k) == [kind |-> k, honours |-> TRUE]

(* The run has parts that share nothing and are explored one at a time: the *)
(* player with its engine, the mounts, the subtitles, the clocks, the       *)
(* first press, and the inputs of the two pure modules.                     *)
VARIABLE part

MCInit ==
    /\ EngineInit /\ MountsInit /\ CaptionsInit /\ ClockInit /\ GesturesInit
    /\ part \in {"engine", "mounts", "captions", "clock", "domain", "presses", "source", "readout"}
    /\ part # "engine" => setup = CHOOSE s \in Setups : TRUE
    /\ part # "mounts" => chosen = Default
    /\ part # "captions" => captionsOn /\ inSight = NewPlayer("vimeo")
    /\ part # "presses" => me.isHost
    /\ IF part = "readout" THEN history \in PlayerHistories ELSE history = NoHistory
    /\ IF part = "source" THEN input \in {s \in Inputs : Input(s)} ELSE input = NoInput

rest == <<history, input, part>>

MCNext ==
    \/ /\ part = "engine" /\ EngineNext
       /\ UNCHANGED <<mountVars, captionVars, clockVars, gestureVars, rest>>
    \/ /\ part = "mounts" /\ MountsNext
       /\ UNCHANGED <<playerVars, captionVars, clockVars, gestureVars, rest>>
    \/ /\ part = "captions" /\ CaptionsNext
       /\ UNCHANGED <<playerVars, mountVars, clockVars, gestureVars, rest>>
    \/ /\ \/ part = "clock" /\ ClockNext
          \/ part = "domain" /\ DomainNext
       /\ UNCHANGED <<playerVars, mountVars, captionVars, gestureVars, rest>>
    \/ /\ part = "presses" /\ press = NoPress /\ GesturesNext
       /\ UNCHANGED <<playerVars, mountVars, captionVars, clockVars, rest>>

MCSpec ==
    MCInit /\ [][MCNext]_<<playerVars, mountVars, captionVars, clockVars, gestureVars, rest>>

(* Round trips of the same length and of very different ones.               *)
MCWays == {<<0, 0>>, <<0, 3>>, <<2, 1>>}

MCClockSteps == {2, -3}

(* In turn: the servo and its inner controller, the reactive controller     *)
(* with nudges, a change of players, a change of engines, every state of a  *)
(* player, a fallback in the cooldown of the servo's seek.                  *)
MCSetups ==
    {[arm |-> "servo", players |-> {Honours("html5")}, drifts |-> {13, 100, 300},
      lives |-> {"playing", "buffering"}, mounts |-> 1, engines |-> 1, events |-> 2],
     [arm |-> "seek", players |-> {Honours("vimeo")}, drifts |-> {0, -30, 30, 300},
      lives |-> {"playing", "buffering"}, mounts |-> 1, engines |-> 1, events |-> 1],
     [arm |-> "servo", players |-> {Snaps("youtube"), Snaps("vimeo"), Honours("vimeo")},
      drifts |-> {30}, lives |-> {"playing"}, mounts |-> 2, engines |-> 1, events |-> 0],
     [arm |-> "servo", players |-> {Honours("youtube"), Snaps("youtube")},
      drifts |-> {30}, lives |-> {"playing"}, mounts |-> 1, engines |-> 2, events |-> 2],
     [arm |-> "servo", players |-> {Honours("html5")}, drifts |-> {0},
      lives |-> Lifecycles, mounts |-> 1, engines |-> 1, events |-> 1],
     [arm |-> "servo", players |-> {Snaps("youtube")}, drifts |-> {30, 300},
      lives |-> {"playing"}, mounts |-> 1, engines |-> 1, events |-> 0]}
=============================================================================
