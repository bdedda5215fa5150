---------------------------- MODULE DriftControl ----------------------------
(***************************************************************************)
(* The two controllers that keep a player on the room's timeline, as        *)
(* functions from a controller and one reading to the controller after it   *)
(* and the one action it asks for.  DriftController is reactive: it seeks   *)
(* when the drift is large, and nudges the rate where the player allows it. *)
(* DisciplineController, the default, steers the rate all the time and      *)
(* leaves seeks, stalls and starts to an inner reactive controller whose    *)
(* seek threshold is the servo's zone.                                      *)
(*                                                                         *)
(* Drift is in hundredths of a second, positive when the player is ahead.   *)
(* Time is counted in controller ticks.  Rates are -1 (slowed), 0 (rate 1)  *)
(* and 1 (sped up); which of them the servo computes is its caller's choice *)
(* (a PI law and a least-squares filter over floats).  The seek lead, which *)
(* a seek adds to its target, is learned by such a filter too and left out. *)
(***************************************************************************)
EXTENDS Integers, Sequences, FiniteSets

CONSTANTS
    EXIT, DEADBAND, THRESHOLD, RECONCILE, ZONE, INSTANT,  \* drift
    SUSTAIN, STABLE,                                      \* evaluations
    COOLDOWN, SPACING, STUCK                              \* ticks

ASSUME TuningAssumption ==
    /\ {EXIT, DEADBAND, THRESHOLD, RECONCILE, ZONE, INSTANT} \subseteq Nat
    /\ EXIT < DEADBAND /\ DEADBAND < THRESHOLD /\ THRESHOLD < ZONE /\ ZONE < INSTANT
    /\ {SUSTAIN, STABLE, COOLDOWN, SPACING, STUCK} \subseteq Nat \ {0}
    /\ COOLDOWN <= SPACING

Abs(x) == IF x < 0 THEN -x ELSE x
AtMost(x, cap) == IF x < cap THEN x ELSE cap

Lifecycles == {"unstarted", "cued", "playing", "paused", "buffering", "ended"}
States == {"LOCKED", "NUDGING", "SEEKING", "BUFFERING", "PAUSED_SYNC", "SUSPENDED"}
Rates == {-1, 0, 1}
SetRate(r) == CASE r = -1 -> "slow" [] r = 0 -> "one" [] r = 1 -> "fast"
Actions == {"none", "play", "pause", "seek", "clear-rate", "slow", "one", "fast"}

Never == SPACING + 1   \* as long ago as anything asks about
NotNudging == -1

(* The fields of both controllers.  window holds the two readings that the  *)
(* next one is filtered with; far says whether the last drift was outside   *)
(* the servo's zone; servoActive and belief are the servo's.                *)
Controller(Drifts) ==
    [kind : {"servo", "seek"}, st : States, window : Seq(Drifts), out : 0..SUSTAIN,
     since : 0..Never, stable : 0..STABLE, nudge : NotNudging..(STUCK + 1),
     sign : Rates, rateApplied : BOOLEAN, far : BOOLEAN,
     servoActive : BOOLEAN, belief : Rates]

NewController(kind) ==
    [kind |-> kind, st |-> "LOCKED", window |-> <<>>, out |-> 0, since |-> Never,
     stable |-> 0, nudge |-> NotNudging, sign |-> 0, rateApplied |-> FALSE,
     far |-> FALSE, servoActive |-> FALSE, belief |-> 0]

(* n ticks pass.  nudgeSince is read while NUDGING only.                    *)
Elapse(c, n) ==
    [c EXCEPT !.since = AtMost(@ + n, Never),
              !.nudge = IF c.st = "NUDGING" /\ @ # NotNudging
                        THEN AtMost(@ + n, STUCK + 1) ELSE NotNudging]

ResetServo(c) == [c EXCEPT !.servoActive = FALSE, !.belief = 0]

suspend(c) ==
    ResetServo([c EXCEPT !.window = <<>>, !.st = "SUSPENDED", !.out = 0,
                         !.rateApplied = FALSE, !.sign = 0, !.nudge = NotNudging,
                         !.stable = 0])

resume(c) == [c EXCEPT !.window = <<>>, !.st = "LOCKED", !.out = SUSTAIN]

Does(c, act) == [c |-> c, act |-> act]

issueSeek(c) ==
    Does([c EXCEPT !.window = <<>>, !.st = "SEEKING", !.since = 0, !.stable = 0, !.out = 0,
                   !.rateApplied = FALSE, !.sign = 0], "seek")

-----------------------------------------------------------------------------
(* DriftController.evaluate, one definition per regime.                     *)

\* Mutant: a stall during a seek's settling leaves the seek.
StallForgetsSeek(c) ==
    LET d == [c EXCEPT !.st = "BUFFERING"]
    IN IF c.rateApplied
       THEN Does([d EXCEPT !.rateApplied = FALSE, !.sign = 0, !.nudge = NotNudging],
                 "clear-rate")
       ELSE Does(d, "none")

(* A stall is part of the seek it follows.                                  *)
Stall(c) ==
    LET d == [c EXCEPT !.st = IF @ = "SEEKING" THEN @ ELSE "BUFFERING"]
    IN IF c.rateApplied
       THEN Does([d EXCEPT !.rateApplied = FALSE, !.sign = 0, !.nudge = NotNudging],
                 "clear-rate")
       ELSE Does(d, "none")

(* The room is paused: pause too, and seek silently to its position.        *)
Hold(c, life, drift) ==
    LET d == [c EXCEPT !.st = "PAUSED_SYNC"]
    IN IF life = "playing" THEN Does(c, "pause")
       ELSE IF Abs(drift) > RECONCILE /\ c.since > SPACING
       THEN Does([d EXCEPT !.since = 0], "seek")
       ELSE Does(d, "none")

(* The room plays and the player does not: a start is a correction.         *)
Start(c) ==
    Does([c EXCEPT !.window = <<>>, !.st = "SEEKING", !.since = 0, !.stable = 0], "play")

(* sorted[floor(length / 2)]: as many readings are sorted before it.        *)
Median(w) ==
    w[CHOOSE i \in DOMAIN w :
        Cardinality({j \in DOMAIN w : \/ w[j] < w[i]
                                      \/ w[j] = w[i] /\ j < i}) = Len(w) \div 2]

\* Mutant: a seek that landed in the gap is neither settled nor repeated.
SettleInGap(c, med) ==
    IF c.since < COOLDOWN THEN Does(c, "none")
    ELSE IF Abs(med) > DEADBAND THEN Does([c EXCEPT !.stable = 0], "none")
    ELSE IF c.stable + 1 >= STABLE
    THEN Does([c EXCEPT !.st = "LOCKED", !.stable = 0], "none")
    ELSE Does([c EXCEPT !.stable = @ + 1], "none")

(* After a seek: no verdict before the cooldown; locked after STABLE        *)
(* readings in band; sought again once the spacing is over.                 *)
Settle(c, med) ==
    IF c.since < COOLDOWN THEN Does(c, "none")
    ELSE IF Abs(med) > DEADBAND
    THEN IF c.since < SPACING THEN Does([c EXCEPT !.stable = 0], "none") ELSE issueSeek(c)
    ELSE IF c.stable + 1 >= STABLE
    THEN Does([c EXCEPT !.st = "LOCKED", !.stable = 0], "none")
    ELSE Does([c EXCEPT !.stable = @ + 1], "none")

InBand(c, med) ==
    LET d == [c EXCEPT !.out = 0]
    IN IF c.st # "NUDGING" THEN Does([d EXCEPT !.st = "LOCKED"], "none")
       ELSE IF Abs(med) > EXIT THEN Does(d, "none")
       ELSE Does([d EXCEPT !.st = "LOCKED", !.nudge = NotNudging, !.rateApplied = FALSE,
                           !.sign = 0], "clear-rate")

(* Start a nudge, turn it round, give it up for a seek, or keep it.         *)
Nudge(c, med) ==
    LET want == IF med > 0 THEN 1 ELSE -1
        aimed == [c EXCEPT !.nudge = 0, !.sign = want]
    IN IF c.st # "NUDGING"
       THEN Does([aimed EXCEPT !.st = "NUDGING", !.rateApplied = TRUE], SetRate(-want))
       ELSE IF want # c.sign THEN Does(aimed, SetRate(-want))
       ELSE IF c.nudge > STUCK THEN issueSeek([c EXCEPT !.nudge = NotNudging])
       ELSE Does(c, "none")

OutOfBand(c, med, stalled, threshold, fractional) ==
    LET d == [c EXCEPT !.out = AtMost(@ + 1, SUSTAIN)]
    IN IF d.out < SUSTAIN /\ ~stalled THEN Does(d, "none")
       ELSE IF fractional /\ Abs(med) <= ZONE THEN Nudge(d, med)
       ELSE IF Abs(med) >= threshold \/ stalled
       THEN IF c.since < SPACING THEN Does(d, "none") ELSE issueSeek(d)
       ELSE Does([d EXCEPT !.st = IF @ = "NUDGING" THEN @ ELSE "LOCKED"], "none")

(* Both play: filter the reading, then settle, jump, or correct.            *)
Track(c, drift, threshold, fractional) ==
    LET stalled == c.st = "BUFFERING"
        w   == Append(c.window, drift)
        med == Median(w)
        d   == [c EXCEPT !.window = IF Len(w) > 2 THEN Tail(w) ELSE w,
                         !.st = IF stalled THEN "LOCKED" ELSE @,
                         !.far = Abs(med) > ZONE]
    IN IF d.st = "SEEKING" THEN Settle(d, med)
       ELSE IF Abs(drift) > INSTANT THEN issueSeek(d)
       ELSE IF Abs(med) <= DEADBAND THEN InBand(d, med)
       ELSE OutOfBand(d, med, stalled, threshold, fractional)

(* room is "none" before the first timeline, else "playing" or "paused".    *)
Reactive(c, room, life, drift, threshold, fractional) ==
    CASE c.st = "SUSPENDED" \/ room = "none"       -> Does(c, "none")
      [] OTHER ->
    CASE life = "buffering"                        -> Stall(c)
      [] life # "buffering" /\ room = "paused"     -> Hold(c, life, drift)
      [] room = "playing" /\ life \in {"paused", "cued"}      -> Start(c)
      [] room = "playing" /\ life \in {"unstarted", "ended"}  -> Does(c, "none")
      [] room = "playing" /\ life = "playing"      -> Track(c, drift, threshold, fractional)

-----------------------------------------------------------------------------
(* DisciplineController.evaluate; r is the rate its law computes.           *)
Servo(c, room, life, drift, r) ==
    LET inner == Reactive(c, room, life, drift, ZONE, FALSE)
        d == inner.c
    IN IF inner.act = "seek" THEN Does(ResetServo(d), "seek")
       ELSE IF inner.act # "none" \/ d.st # "LOCKED"
       THEN IF d.servoActive /\ life # "playing"
            THEN Does(ResetServo(d), IF inner.act = "none" THEN "clear-rate" ELSE inner.act)
            ELSE inner
       ELSE IF d.far THEN inner
       ELSE Does([d EXCEPT !.servoActive = TRUE, !.belief = r],
                 IF r = d.belief THEN "none" ELSE SetRate(r))

(* The engine's controller, whichever it is.                                *)
evaluate(c, room, life, drift, fractional, r) ==
    IF c.kind = "servo" THEN Servo(c, room, life, drift, r)
    ELSE Reactive(c, room, life, drift, THRESHOLD, fractional)
=============================================================================
