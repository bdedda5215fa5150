----------------------------- MODULE SimPlayer -----------------------------
(***************************************************************************)
(* The bots' simulated player: commands take effect after a latency, all   *)
(* pending ones at the time of the last, a seek settles in buffering, and   *)
(* stalls freeze it.  Time is advanced by the bot, in steps of its choice.  *)
(* Rates and skews are left out: a tick of playing is a tick of media.      *)
(***************************************************************************)
EXTENDS Integers, Sequences

CONSTANTS SimTime, SimCommands    \* bounds: ticks, commands

VARIABLES
    sim,       \* the player: [lifecycle, position, lastAdvanceAt, pendingUntil,
               \* pending, stallUntil]
    clock,     \* the bot's clock
    told,      \* commands and stalls so far
    frozen,    \* history: where the last pause put it, -1: it does not rest
    landed     \* history: the last seek: [at, to]

simVars == <<sim, clock, told, frozen, landed>>

Delays == 1..2
Targets == {10}

SimInit ==
    /\ sim = [lifecycle |-> "cued", position |-> 0, lastAdvanceAt |-> -1,
              pendingUntil |-> 0, pending |-> <<>>, stallUntil |-> 0]
    /\ clock = 0 /\ told = 0 /\ frozen = -1 /\ landed = [at |-> 0, to |-> 0]

(* later: the new command's latency is everybody's.                         *)
later(c) ==
    /\ told < SimCommands /\ told' = told + 1
    /\ \E latency \in Delays :
         sim' = [sim EXCEPT !.pendingUntil = clock + latency, !.pending = Append(@, c)]
    /\ UNCHANGED <<clock, frozen, landed>>

stall ==
    /\ told < SimCommands /\ told' = told + 1
    /\ sim.lifecycle = "playing"
    /\ \E duration \in Delays :
         sim' = [sim EXCEPT !.lifecycle = "buffering", !.stallUntil = clock + duration]
    /\ UNCHANGED <<clock, frozen, landed>>

(* Seeded fault: a seek buffers without an end of its own.                  *)
seekToForgets(p, c) ==
    LET moved == [p EXCEPT !.position = c.to] IN
    IF p.lifecycle \in {"playing", "cued"} THEN [moved EXCEPT !.lifecycle = "buffering"]
    ELSE moved

(* A paused player is there at once.                                        *)
seekTo(p, c) ==
    LET moved == [p EXCEPT !.position = c.to] IN
    IF p.lifecycle \in {"playing", "cued"}
    THEN [moved EXCEPT !.lifecycle = "buffering", !.stallUntil = p.pendingUntil + c.settle]
    ELSE moved

(* A command takes effect.                                                  *)
Applied(p, c) ==
    CASE c.do = "play" -> [p EXCEPT !.lifecycle = "playing"]
      [] c.do = "pause" -> [p EXCEPT !.lifecycle = "paused"]
      [] c.do = "seek" -> seekTo(p, c)

AllApplied(p) ==
    LET a[i \in 0..Len(p.pending)] ==
            IF i = 0 THEN [p EXCEPT !.pending = <<>>] ELSE Applied(a[i - 1], p.pending[i])
    IN a[Len(p.pending)]

Due(p, t) == p.pending # <<>> /\ t >= p.pendingUntil

(* Seeded fault: the time before the commands counts after them.            *)
RunPendingLate(p, t) == IF Due(p, t) THEN AllApplied(p) ELSE p

RunPending(p, t) ==
    IF Due(p, t) THEN [AllApplied(p) EXCEPT !.lastAdvanceAt = t] ELSE p

(* Seeded fault: a stall ends in playing whatever came between.             *)
EndStallAlways(p, t) ==
    IF p.stallUntil > 0 /\ t >= p.stallUntil
    THEN [p EXCEPT !.lifecycle = "playing", !.stallUntil = 0, !.lastAdvanceAt = t] ELSE p

EndStall(p, t) ==
    IF p.stallUntil > 0 /\ t >= p.stallUntil /\ p.lifecycle = "buffering"
    THEN [p EXCEPT !.lifecycle = "playing", !.stallUntil = 0, !.lastAdvanceAt = t] ELSE p

Move(p, t) ==
    [p EXCEPT !.position = IF p.lifecycle = "playing" /\ p.lastAdvanceAt # -1
                           THEN @ + (t - p.lastAdvanceAt) ELSE @,
              !.lastAdvanceAt = t]

(* The last of the commands that decides where the player rests or lands.   *)
LastOf(p, kinds) ==
    LET S == {i \in 1..Len(p.pending) : p.pending[i].do \in kinds} IN
    IF S = {} THEN 0 ELSE CHOOSE i \in S : \A j \in S : j <= i

advance(d) ==
    LET t == clock + d
        ran == RunPending(sim, t)
        i == LastOf(sim, {"play", "pause"})
        k == LastOf(sim, {"seek"})
    IN
    /\ t <= SimTime /\ clock' = t
    /\ sim' = Move(EndStall(ran, t), t)
    /\ IF Due(sim, t)
       THEN /\ frozen' = IF IF i = 0 THEN frozen # -1 ELSE sim.pending[i].do = "pause"
                         THEN ran.position ELSE -1
            /\ landed' = IF k = 0 THEN landed ELSE [at |-> t, to |-> sim.pending[k].to]
       ELSE UNCHANGED <<frozen, landed>>
    /\ UNCHANGED told

Commands ==
    [do : {"play", "pause"}, to : {0}, settle : {0}]
    \cup [do : {"seek"}, to : Targets, settle : Delays]

SimNext ==
    \/ \E c \in Commands : later(c)
    \/ stall
    \/ \E d \in Delays : advance(d)

-----------------------------------------------------------------------------
(* A paused player rests: from the moment a pause takes effect to the next  *)
(* play it stays where it is or was sought to, also when it was paused in   *)
(* the middle of a settling seek or a stall (advance ends only a player's   *)
(* own buffering).                                                          *)
PausedRests ==
    frozen # -1 => sim.lifecycle = "paused" /\ sim.position = frozen

(* No buffering lasts past its time: a player that buffers knows when it    *)
(* ends, and the first step after that ends it.                             *)
BufferingEnds == sim.lifecycle = "buffering" => sim.stallUntil > clock

(* It never runs ahead: since the last seek landed it has moved no further  *)
(* than time has, however long the steps (advance restarts the count when   *)
(* commands take effect).                                                   *)
NeverAhead ==
    /\ landed.to <= sim.position
    /\ sim.position <= landed.to + (clock - landed.at)

(* The simulated player does what a player would.                           *)
SimSound ==
    /\ PausedRests
    /\ BufferingEnds
    /\ NeverAhead

=============================================================================
