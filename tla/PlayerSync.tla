----------------------------- MODULE PlayerSync -----------------------------
(***************************************************************************)
(* One browser's player: the shell that mounts a player for the room's     *)
(* video and owns the engine, the SyncEngine that ticks a controller        *)
(* against the mounted player, and the player itself.  Mounts come and go  *)
(* with the video and with Retry, engines with the socket; each outlives   *)
(* the other.  The player is external: its lifecycle moves as it likes and *)
(* it may refuse fractional rates.  A probe of that runs beside everything  *)
(* else.  Timelines are "none", "paused" or "playing" (SyncPlaneA has which *)
(* one); the reading a tick takes is any of setup.drifts.                   *)
(***************************************************************************)
EXTENDS DriftControl

CONSTANTS
    GESTURE,      \* play actions before the gesture chip
    Setups        \* bounds: the controller the page starts with (?controller=R),
                  \* the players there are, their readings and states, the players
                  \* and engines built, and what user, browser and network do

Kinds == {"youtube", "vimeo", "html5"}

ASSUME PlayerAssumption ==
    /\ GESTURE \in Nat
    /\ Setups \subseteq
         [arm : {"servo", "seek"}, players : SUBSET [kind : Kinds, honours : BOOLEAN],
          drifts : SUBSET Int, lives : SUBSET Lifecycles,
          mounts : Nat, engines : Nat, events : Nat]
    /\ \A s \in Setups : \A p \in s.players : p.kind = "html5" => p.honours

VARIABLES
    mount,      \* the mounted player's number, 0 when nothing is mounted
    mounts,     \* players built so far
    failed,     \* the failure card is shown
    adapterRef, \* the shell's adapter: 0 or the mount that reported it
    player,     \* the mounted player: kind, honours, lifecycle, rate
    syncEnabled,\* syncEnabledRef
    hidden,     \* document.hidden
    connected,  \* socket.connected
    eng,        \* the engine's number, 0 when there is none
    ctl,        \* its controller
    adapter,    \* its adapter: 0 or the mount that made it
    timeline, enabled, fractionalRateOK, estimate, playAttempts, needsGesture,
    probes,     \* probes in flight: the engine and the mount
    alone,      \* history: ticks in a row that left an off player alone
    sought,     \* history: ticks since the last corrective seek; Never once the
                \* controller was switched or resumed, a probe or a new engine
                \* replaced it, or the room's timeline changed
    hasty,      \* history: two corrective seeks within the cooldown
    setup

shellVars == <<mount, mounts, failed, adapterRef>>
envVars == <<syncEnabled, hidden, connected>>
engVars == <<adapter, timeline, enabled, fractionalRateOK, estimate, playAttempts,
             needsGesture>>
histVars == <<alone, sought, hasty>>
playerVars == <<shellVars, player, envVars, eng, ctl, engVars, probes, histVars, setup>>

PATIENCE == SPACING + STUCK + SUSTAIN

NoPlayer == [kind |-> "none", honours |-> FALSE, life |-> "unstarted", rate |-> 0]

EngineTypeOK ==
    /\ mounts \in Nat /\ mount \in {0, mounts}
    /\ adapterRef \in {0, mount}
    /\ failed \in BOOLEAN /\ (failed => mount = 0)
    /\ player \in {NoPlayer} \cup
         [kind : Kinds, honours : BOOLEAN, life : Lifecycles,
          rate : Rates]
    /\ {syncEnabled, hidden, connected, enabled, fractionalRateOK, estimate,
        needsGesture, hasty} \subseteq BOOLEAN
    /\ eng \in Nat
    /\ ctl \in Controller(setup.drifts) /\ Len(ctl.window) <= 2
    /\ adapter \in 0..mounts
    /\ timeline \in {"none", "paused", "playing"}
    /\ playAttempts \in 0..(GESTURE + 1)
    /\ probes \subseteq [eng : 1..eng, mount : 1..mounts]
    /\ alone \in 0..(PATIENCE + 1) /\ sought \in 0..Never
    /\ {setup.mounts, setup.engines, setup.events} \subseteq Nat

EngineInit ==
    /\ setup \in Setups
    /\ mount = 0 /\ mounts = 0 /\ failed = FALSE /\ adapterRef = 0
    /\ player = NoPlayer
    /\ syncEnabled = TRUE /\ hidden = FALSE /\ connected = FALSE
    /\ eng = 0 /\ ctl = NewController(setup.arm)
    /\ adapter = 0 /\ timeline = "none" /\ enabled = TRUE
    /\ fractionalRateOK = FALSE /\ estimate = FALSE
    /\ playAttempts = 0 /\ needsGesture = FALSE
    /\ probes = {} /\ alone = 0
    /\ sought = Never /\ hasty = FALSE

Spend(b) == setup[b] > 0 /\ setup' = [setup EXCEPT ![b] = @ - 1]
Event == Spend("events")

-----------------------------------------------------------------------------
(* Adapters.  A player that does not honour fractional rates snaps them to  *)
(* 1; the Vimeo adapter answers with what was asked all the same.           *)
Snapped(p, r) == IF p.honours THEN r ELSE 0

setRate(p, r) ==
    [player |-> [p EXCEPT !.rate = Snapped(p, r)],
     applied |-> IF p.kind = "vimeo" THEN r ELSE Snapped(p, r)]

(* onRateApplied: only the servo keeps a belief.                            *)
RateApplied(c, applied) == IF c.kind = "servo" THEN [c EXCEPT !.belief = applied] ELSE c

(* The engine may hold the adapter of a player that is gone.                *)
Live == adapter # 0 /\ adapter = adapterRef

(* restoreRate on the engine's adapter, when it has one.                    *)
restoreRate(c) ==
    /\ player' = IF Live THEN setRate(player, 0).player ELSE player
    /\ ctl' = IF adapter # 0 THEN RateApplied(c, 0) ELSE c

-----------------------------------------------------------------------------
(* The shell: mounts and engines.                                           *)

(* A source to play: the old mount is torn down, the new one is keyed by    *)
(* video and attempt.  Its player is not ready yet.                         *)
MountSource ==
    /\ Spend("mounts")
    /\ mount' = mounts + 1 /\ mounts' = mounts + 1
    /\ failed' = FALSE /\ adapterRef' = 0
    /\ \E p \in setup.players :
         player' = [kind |-> p.kind, honours |-> p.honours, life |-> "unstarted", rate |-> 0]
    /\ UNCHANGED <<envVars, eng, ctl, engVars, probes, histVars>>

\* Mutant: the dead mount's adapter stays with the shell.
handleFailureKeeps ==
    /\ mount # 0
    /\ mount' = 0 /\ failed' = TRUE /\ player' = NoPlayer
    /\ UNCHANGED <<adapterRef, mounts, envVars, eng, ctl, engVars, probes, histVars, setup>>

(* The player reports an error: the failure card replaces the mount.        *)
handleFailure ==
    /\ mount # 0
    /\ mount' = 0 /\ failed' = TRUE /\ adapterRef' = 0 /\ player' = NoPlayer
    /\ UNCHANGED <<mounts, envVars, eng, ctl, engVars, probes, histVars, setup>>

(* attachAdapter for adapter a of engine e with controller c: the probe     *)
(* starts by setting a fractional rate.                                     *)
attachAdapter(e, a) ==
    /\ adapter' = a
    /\ probes' = probes \cup {[eng |-> e, mount |-> a]}
    /\ player' = IF player.kind = "html5" THEN player ELSE setRate(player, 1).player

(* The player is ready: handleAdapter.                                      *)
handleAdapter ==
    /\ mount # 0 /\ adapterRef # mount
    /\ adapterRef' = mount
    /\ IF eng # 0 THEN attachAdapter(eng, mount) ELSE UNCHANGED <<adapter, probes, player>>
    /\ UNCHANGED <<mount, mounts, failed, envVars, eng, ctl, timeline, enabled,
                   fractionalRateOK, estimate, playAttempts, needsGesture, histVars, setup>>

\* Mutant: a new engine waits for the next mount.
NewEngineAlone ==
    /\ Spend("engines")
    /\ eng' = eng + 1
    /\ timeline' = "none" /\ estimate' = FALSE /\ fractionalRateOK' = FALSE
    /\ playAttempts' = 0 /\ needsGesture' = FALSE
    /\ enabled' = syncEnabled /\ connected' = FALSE
    /\ adapter' = 0 /\ ctl' = NewController(setup.arm)
    /\ sought' = Never
    /\ UNCHANGED <<shellVars, player, syncEnabled, hidden, probes, alone, hasty>>

(* The engine effect: a socket (or another room): the old engine is         *)
(* disposed, the new one adopts the live adapter and the toggle.            *)
NewEngine ==
    /\ Spend("engines")
    /\ eng' = eng + 1
    /\ timeline' = "none" /\ estimate' = FALSE /\ fractionalRateOK' = FALSE
    /\ playAttempts' = 0 /\ needsGesture' = FALSE
    /\ enabled' = syncEnabled /\ connected' = FALSE
    /\ adapter' = adapterRef
    /\ probes' = IF adapterRef = 0 THEN probes
                 ELSE probes \cup {[eng |-> eng + 1, mount |-> adapterRef]}
    /\ LET probing == IF adapterRef = 0 \/ player.kind = "html5" THEN player
                      ELSE setRate(player, 1).player
           c == NewController(setup.arm)
       IN IF syncEnabled
          THEN ctl' = resume(c) /\ player' = probing
          ELSE /\ ctl' = suspend(c)
               /\ player' = IF adapterRef = 0 THEN player ELSE setRate(probing, 0).player
    /\ sought' = Never
    /\ UNCHANGED <<shellVars, syncEnabled, hidden, alone, hasty>>

-----------------------------------------------------------------------------
(* The engine's handlers.                                                   *)

(* fallBackToSeekFirst, for an engine whose controller would be c.          *)
SeekFirst ==
    LET c == NewController("seek")
    IN IF ~enabled \/ hidden THEN suspend(c) ELSE c

\* Mutant: the probe of a replaced adapter decides too.
ConcernsAny(p) == p.eng = eng

Concerns(p) == p.eng = eng /\ p.mount = adapter

(* A probe ends: it puts the rate back, and the engine takes the answer if  *)
(* it is still the engine and the adapter it was asked for.  Only a player  *)
(* that honours rates can pass; interference or a teardown fails the probe. *)
ProbeEnds(p) ==
    /\ p \in probes
    /\ probes' = probes \ {p}
    /\ \E ok \in BOOLEAN :
         LET here == p.mount = adapterRef
             restored == IF here /\ player.kind # "html5" THEN setRate(player, 0).player
                         ELSE player
             falls == Concerns(p) /\ ~ok /\ ctl.kind = "servo"
         IN /\ ok => ~here \/ player.honours
            /\ here /\ player.kind = "html5" => ok
            /\ fractionalRateOK' = IF Concerns(p) THEN ok ELSE fractionalRateOK
            /\ ctl' = IF falls THEN SeekFirst ELSE ctl
            /\ player' = IF falls /\ Live THEN setRate(restored, 0).player ELSE restored
            /\ sought' = IF falls THEN Never ELSE sought
    /\ UNCHANGED <<shellVars, envVars, eng, adapter, timeline, enabled, estimate,
                   playAttempts, needsGesture, alone, hasty, setup>>

(* The toggle.                                                              *)
setEnabled ==
    /\ Event /\ eng # 0
    /\ syncEnabled' = ~syncEnabled /\ enabled' = ~syncEnabled
    /\ IF ~syncEnabled THEN ctl' = resume(ctl) /\ UNCHANGED player
                       ELSE restoreRate(suspend(ctl))
    /\ sought' = Never
    /\ UNCHANGED <<shellVars, hidden, connected, eng, adapter, timeline,
                   fractionalRateOK, estimate, playAttempts, needsGesture, probes, alone, hasty>>

\* Mutant: the tab hides and the rate stays.
onVisibilityKeepsRate ==
    /\ Event
    /\ hidden' = ~hidden
    /\ IF eng = 0 THEN UNCHANGED <<ctl, player>>
       ELSE IF ~hidden THEN ctl' = suspend(ctl) /\ UNCHANGED player
       ELSE ctl' = (IF enabled THEN resume(ctl) ELSE ctl) /\ UNCHANGED player
    /\ sought' = Never
    /\ UNCHANGED <<shellVars, syncEnabled, connected, eng, engVars, probes, alone, hasty>>

onVisibility ==
    /\ Event
    /\ hidden' = ~hidden
    /\ IF eng = 0 THEN UNCHANGED <<ctl, player>>
       ELSE IF ~hidden THEN restoreRate(suspend(ctl))
       ELSE ctl' = (IF enabled THEN resume(ctl) ELSE ctl) /\ UNCHANGED player
    /\ sought' = Never
    /\ UNCHANGED <<shellVars, syncEnabled, connected, eng, engVars, probes, alone, hasty>>

\* Mutant: a reconnect resumes whatever the user chose.
onReconnectResumes ==
    /\ eng # 0 /\ ~connected
    /\ connected' = TRUE /\ estimate' = FALSE
    /\ ctl' = resume(ctl)
    /\ sought' = Never
    /\ UNCHANGED <<shellVars, player, syncEnabled, hidden, eng, adapter, timeline,
                   enabled, fractionalRateOK, playAttempts, needsGesture, probes, alone, hasty, setup>>

onReconnect ==
    /\ eng # 0 /\ ~connected
    /\ connected' = TRUE /\ estimate' = FALSE
    /\ ctl' = IF enabled THEN resume(ctl) ELSE ctl
    /\ sought' = Never
    /\ UNCHANGED <<shellVars, player, syncEnabled, hidden, eng, adapter, timeline,
                   enabled, fractionalRateOK, playAttempts, needsGesture, probes, alone, hasty, setup>>

ConnectionLost ==
    /\ Event /\ connected
    /\ connected' = FALSE
    /\ UNCHANGED <<shellVars, player, syncEnabled, hidden, eng, ctl, engVars, probes,
                   histVars>>

(* A pong: the first usable sample after a reset makes an estimate.         *)
onPong ==
    /\ connected /\ ~estimate
    /\ estimate' = TRUE
    /\ UNCHANGED <<shellVars, player, envVars, eng, ctl, adapter, timeline, enabled,
                   fractionalRateOK, playAttempts, needsGesture, probes, histVars, setup>>

(* onTimeline and onRoomJoined: the room plays or pauses.                   *)
onTimeline ==
    /\ connected
    /\ IF timeline = "none" THEN UNCHANGED setup ELSE Event
    /\ \E t \in {"paused", "playing"} \ {timeline} : timeline' = t
    /\ sought' = Never
    /\ UNCHANGED <<shellVars, player, envVars, eng, ctl, adapter, enabled, fractionalRateOK,
                   estimate, playAttempts, needsGesture, probes, alone, hasty>>

(* The chip is clicked.                                                     *)
resumeFromGesture ==
    /\ Event /\ needsGesture
    /\ needsGesture' = FALSE /\ playAttempts' = 0
    /\ UNCHANGED <<shellVars, player, envVars, eng, ctl, adapter, timeline, enabled,
                   fractionalRateOK, estimate, probes, histVars>>

(* The player's own moves: a start that took, a stall, the end, a click in  *)
(* its frame.                                                               *)
PlayerMoves ==
    /\ mount # 0
    /\ \E l \in setup.lives \ {player.life} :
         player' = [player EXCEPT !.life = l]
    /\ UNCHANGED <<shellVars, envVars, eng, ctl, engVars, probes, histVars, setup>>

(* A laptop sleeps: every timer is long over.                               *)
Sleep ==
    /\ Event /\ eng # 0
    /\ ctl' = Elapse(ctl, Never + STUCK) /\ sought' = Never
    /\ UNCHANGED <<shellVars, player, envVars, eng, engVars, probes, alone, hasty>>

-----------------------------------------------------------------------------
(* One controller tick.                                                     *)

(* execute: what an action does to the engine (c its controller) and to     *)
(* the player it holds; p is NoPlayer for an adapter whose player is gone.  *)
Asked(a) == CASE a = "slow" -> -1 [] a = "one" -> 0 [] a = "fast" -> 1

execute(c, a, p) ==
    IF a \in {"slow", "one", "fast"}
    THEN LET set == setRate(p, Asked(a))
         IN IF set.applied = Asked(a)
            THEN [c |-> RateApplied(c, set.applied), p |-> set.player, ok |-> fractionalRateOK]
            ELSE IF c.kind = "servo"
            THEN [c |-> SeekFirst, p |-> setRate(set.player, 0).player, ok |-> FALSE]
            ELSE [c |-> c, p |-> set.player, ok |-> FALSE]
    ELSE IF a \in {"seek", "clear-rate"}
    THEN [c |-> RateApplied(c, 0), p |-> setRate(p, 0).player, ok |-> fractionalRateOK]
    ELSE [c |-> c, p |-> p, ok |-> fractionalRateOK]

Attempts(a, life) ==
    IF life = "playing" THEN 0
    ELSE IF a = "play" THEN AtMost(playAttempts + 1, GESTURE + 1) ELSE playAttempts

(* For the property: does a tick leave a player that is off alone?  Drift   *)
(* inside the deadband, below the threshold of a controller that is not     *)
(* settling, or in the zone of a working servo is not off.                  *)
Tolerated(c, drift) ==
    \/ Abs(drift) <= DEADBAND
    \/ c.st # "SEEKING" /\ Abs(drift) < THRESHOLD
    \/ c.kind = "servo" /\ c.servoActive /\ Abs(drift) <= ZONE

Watching == Live /\ enabled /\ ~hidden /\ timeline = "playing"

LeftAlone(a, c, life, drift) ==
    /\ Watching /\ life = "playing"
    /\ ~Tolerated(c, drift) /\ a \notin {"seek", "slow", "fast"}

(* A tick without an adapter or an estimate only lets time pass.            *)
IdleTick ==
    /\ eng # 0 /\ (adapter = 0 \/ ~estimate)
    /\ ctl' = Elapse(ctl, 1) /\ sought' = AtMost(sought + 1, Never)
    /\ UNCHANGED <<shellVars, player, envVars, eng, engVars, probes, alone, hasty, setup>>

Tick ==
    /\ eng # 0 /\ adapter # 0 /\ estimate
    /\ \E drift \in setup.drifts, r \in Rates, life \in setup.lives \cup {player.life} :
         LET c0 == Elapse(ctl, 1)
             e  == evaluate(c0, timeline, life, drift, fractionalRateOK, r)
             x  == execute(e.c, e.act, IF Live THEN player ELSE NoPlayer)
         IN /\ Live => life = player.life
            /\ ctl.kind = "seek" => r = 0
            /\ ctl' = x.c
            /\ player' = IF Live THEN x.p ELSE player
            /\ fractionalRateOK' = x.ok
            /\ playAttempts' = Attempts(e.act, life)
            /\ needsGesture' = (life # "playing" /\ (needsGesture \/ playAttempts' > GESTURE))
            /\ alone' = IF LeftAlone(e.act, x.c, life, drift)
                        THEN AtMost(alone + 1, PATIENCE + 1) ELSE 0
            /\ hasty' = (hasty \/ (e.act = "seek" /\ AtMost(sought + 1, Never) < COOLDOWN))
            /\ sought' = IF e.act = "seek" THEN 0 ELSE AtMost(sought + 1, Never)
    /\ UNCHANGED <<shellVars, envVars, eng, adapter, timeline, enabled, estimate, probes,
                   setup>>

EngineNext ==
    \/ MountSource \/ handleFailure \/ handleAdapter \/ NewEngine
    \/ \E p \in probes : ProbeEnds(p)
    \/ setEnabled \/ onVisibility \/ onReconnect \/ ConnectionLost \/ onPong
    \/ onTimeline \/ resumeFromGesture \/ PlayerMoves \/ Sleep
    \/ IdleTick \/ Tick

EngineSpec == EngineInit /\ [][EngineNext]_playerVars

-----------------------------------------------------------------------------
(* Properties.                                                              *)

(* An engine drives the player that is on the page: whichever of mount and  *)
(* engine comes first, and however often each is replaced, the engine holds *)
(* the adapter the shell holds (handleAdapter, the engine effect).          *)
EngineDrivesLive == eng # 0 /\ adapterRef # 0 => adapter = adapterRef

(* Sync that the user switched off stays off: no reconnect, tab switch,     *)
(* fallback or new engine puts the controller back to work.                 *)
OffMeansOff == eng # 0 /\ ~syncEnabled => ctl.st = "SUSPENDED" /\ ~enabled

(* A controller that stands down has left the player at rate 1: suspend     *)
(* cannot say so itself, its callers must.  (While a probe runs the rate is *)
(* the probe's.)                                                            *)
StoodDownAtRateOne ==
    (Live /\ ctl.st = "SUSPENDED" /\ ~\E p \in probes : p.mount = adapter)
        => player.rate = 0

(* Seeks do not chase each other: a corrective seek within the cooldown of  *)
(* the one before, whichever controller issued that, comes only after a     *)
(* change of the room's timeline, a switch or resume of the controller, a   *)
(* new engine, or a probe that failed late, whose fresh controller does not *)
(* know of the servo's last seek; never out of a stall that the first seek  *)
(* caused, nor out of a rate the player turned out not to take.             *)
SeeksCoolDown == ~hasty

(* Nobody is left alone: with sync on in a visible tab of a playing room, a *)
(* playing player that stays off by more than is tolerated is sought or its *)
(* rate set within PATIENCE ticks, across fallbacks, resumes and new        *)
(* engines; it is not parked in the gap after a missed seek, nor under a    *)
(* nudge that does not help.                                                *)
NotLeftAlone == alone <= PATIENCE

(* Rates are for players that honour them: once the probe of a player that  *)
(* snaps them is over, the engine seeks, whatever an earlier player's probe *)
(* said or says late, and although the Vimeo adapter claims success.        *)
SnappedMeansSeekFirst ==
    (Live /\ ~player.honours /\ [eng |-> eng, mount |-> adapter] \notin probes)
        => ctl.kind = "seek" /\ ~fractionalRateOK

(* Who drives the player and how: the engine on the page drives the player  *)
(* on the page, only while it should, and only in ways that player has      *)
(* (SyncEngine, the shell's effects).                                       *)
EngineSound ==
    /\ EngineTypeOK
    /\ EngineDrivesLive
    /\ OffMeansOff
    /\ StoodDownAtRateOne
    /\ SnappedMeansSeekFirst

(* Corrections come neither too often nor never (evaluate of both           *)
(* controllers).                                                            *)
CorrectsInMeasure ==
    /\ SeeksCoolDown
    /\ NotLeftAlone

-----------------------------------------------------------------------------
(* The inductive invariant behind EngineSound, and behind SeeksCoolDown.     *)

(* What the counts allow does not change what there is.                     *)
SetupSound ==
    /\ setup \in [arm : {"servo", "seek"}, players : SUBSET [kind : Kinds, honours : BOOLEAN],
                  drifts : SUBSET Int, lives : SUBSET Lifecycles,
                  mounts : Nat, engines : Nat, events : Nat]
    /\ \A p \in setup.players : p.kind = "html5" => p.honours

(* A player whose adapter nobody has, or that no engine drives, is as built. *)
PlayerSound ==
    /\ mount = 0 => player = NoPlayer
    /\ mount # 0 => player.kind \in Kinds
    /\ player.kind = "html5" => player.honours
    /\ adapterRef = 0 \/ eng = 0 => player.rate = 0
    /\ eng = 0 => adapter = 0

(* A controller that does not stand by its probe stands down by rate 1.     *)
StandsDown ==
    (Live /\ ctl.st = "SUSPENDED" /\ player.kind = "html5") => player.rate = 0

(* The toggle and the engine agree.                                         *)
Agrees == eng # 0 => enabled = syncEnabled

(* Within the cooldown of a corrective seek the controller remembers it or a *)
(* later start, and waits for it, is switched off, or the room is paused.    *)
SeekAwaited ==
    sought < COOLDOWN =>
        /\ ctl.since <= sought
        /\ ctl.st \in {"SEEKING", "SUSPENDED"} \/ timeline = "paused"

EngineIInv ==
    /\ EngineSound
    /\ SetupSound
    /\ PlayerSound
    /\ StandsDown
    /\ Agrees
    /\ SeekAwaited
    /\ SeeksCoolDown

=============================================================================
