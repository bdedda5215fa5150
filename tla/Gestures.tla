------------------------------ MODULE Gestures ------------------------------
(***************************************************************************)
(* What a press commands.  The player page renders from a status the engine *)
(* emits; the buttons and the bar act on the latest render, the keyboard on *)
(* the render in which its listener was last installed.  A press never      *)
(* touches the player: it sends an intent, and the broadcast moves everyone.*)
(*                                                                         *)
(* The room's timeline moves by itself and by other people's commands; what *)
(* becomes of the intents is SyncPlaneA's matter.                           *)
(***************************************************************************)
EXTENDS Integers

CONSTANTS Duration, SkipStep    \* of the video, of a skip

ASSUME GesturesAssumption == Duration \in Nat /\ SkipStep \in Nat

VARIABLES
    me,         \* [isHost, allowGuestControl, controllerId: "me" | "other" | "none"]
    tl,         \* the engine's timeline: [known, playing, at], at: projected to now
    ready,      \* isReady: there is an adapter
    status,     \* the status last rendered: [known, playing, projected, duration]
    bound,      \* the render the keydown listener was installed in
    press       \* the last command sent: [how, intent, at, shown, allowed]

gestureVars == <<me, tl, ready, status, bound, press>>

Where == 0..Duration
NoPress == [how |-> "none", intent |-> "none", at |-> 0,
            shown |-> [known |-> FALSE, playing |-> FALSE, projected |-> 0, duration |-> 0],
            allowed |-> TRUE]
EMPTY_STATUS == NoPress.shown

canControl(m) == m.isHost \/ m.allowGuestControl \/ m.controllerId = "me"

Render == [status |-> status, can |-> canControl(me), ready |-> ready]

GesturesInit ==
    /\ me \in [isHost : BOOLEAN, allowGuestControl : {FALSE}, controllerId : {"none"}]
    /\ tl = [known |-> FALSE, playing |-> FALSE, at |-> 0]
    /\ ready = FALSE /\ status = EMPTY_STATUS
    /\ bound = [status |-> EMPTY_STATUS, can |-> canControl(me), ready |-> FALSE]
    /\ press = NoPress

(* Seeded fault: installed once for every player.                           *)
RebindsOnReady(r) == r.ready # bound.ready

(* Seeded fault: who may control is not a dependency.                       *)
RebindsWhoeverControls(r) ==
    r.status.playing # bound.status.playing \/ r.ready # bound.ready

(* The effect's dependencies: roomPlaying, canControl, isReady.             *)
Rebinds(r) ==
    \/ r.status.playing # bound.status.playing
    \/ r.can # bound.can
    \/ r.ready # bound.ready

Rendered ==
    LET r == Render' IN bound' = IF Rebinds(r) THEN r ELSE bound

-----------------------------------------------------------------------------
(* What happens around the person.                                          *)
RoomMoves(next) ==
    /\ tl # next /\ tl' = next
    /\ UNCHANGED <<me, ready, status, bound, press>>

(* emitStatus, every tick.                                                  *)
emitStatus ==
    /\ status' = [known |-> tl.known, playing |-> tl.playing, projected |-> tl.at,
                  duration |-> IF ready THEN Duration ELSE 0]
    /\ status' # status
    /\ UNCHANGED <<me, tl, ready, press>>
    /\ Rendered

AdapterChanges ==
    /\ ready' = ~ready
    /\ UNCHANGED <<me, tl, status, press>>
    /\ Rendered

(* onController, and the room's row read again.                             *)
onController(who) ==
    /\ me.controllerId # who /\ me' = [me EXCEPT !.controllerId = who]
    /\ UNCHANGED <<tl, ready, status, press>>
    /\ Rendered

AllowGuests ==
    /\ me' = [me EXCEPT !.allowGuestControl = ~@]
    /\ UNCHANGED <<tl, ready, status, press>>
    /\ Rendered

-----------------------------------------------------------------------------
(* Presses, with the render they act on.                                    *)
sendIntent(how, intent, at) ==
    /\ press' = [how |-> how, intent |-> intent, at |-> at, shown |-> status,
                 allowed |-> canControl(me)]
    /\ UNCHANGED <<me, tl, ready, status, bound>>

(* A pause freezes at the frame the presser saw, the player's own time.     *)
handlePlayPause(how, r) ==
    /\ r.can /\ ready
    /\ IF r.status.playing THEN \E frame \in Where : sendIntent(how, "pause", frame)
       ELSE \E frame \in Where :
              sendIntent(how, "play", IF r.status.known THEN r.status.projected ELSE frame)

(* Seeded fault: nothing stops a skip at the end of the video.              *)
ClampLow(r, at) == IF at < 0 THEN 0 ELSE at

Clamp(r, at) == IF at < 0 THEN 0 ELSE IF at > r.status.duration THEN r.status.duration ELSE at

seekBy(how, r, delta) ==
    /\ r.can /\ r.status.duration # 0
    /\ sendIntent(how, "seek", Clamp(r, r.status.projected + delta))

handleProgressClick(r, at) ==
    /\ r.can /\ r.status.duration # 0
    /\ sendIntent("bar", "seek", at)

handleProgressKeyDown(r) ==
    \/ \E delta \in {-SkipStep, SkipStep} : seekBy("bar", r, delta)
    \/ handleProgressClick(r, 0) \/ handleProgressClick(r, r.status.duration)

(* The keys of the page: space and k, j and l.                              *)
onKey(r) ==
    \/ handlePlayPause("key", r)
    \/ \E delta \in {-SkipStep, SkipStep} : seekBy("key", r, delta)

GesturesNext ==
    \/ \E next \in [known : {TRUE}, playing : BOOLEAN, at : Where] : RoomMoves(next)
    \/ emitStatus \/ AdapterChanges \/ AllowGuests
    \/ \E who \in {"me", "other"} : onController(who)
    \/ handlePlayPause("button", Render)
    \/ \E at \in Where : handleProgressClick(Render, at)
    \/ handleProgressKeyDown(Render)
    \/ onKey(bound)

GesturesSpec == GesturesInit /\ [][GesturesNext]_gestureVars

-----------------------------------------------------------------------------
(* A press does what the page offers: a playing room is paused, a paused    *)
(* one played, by key as by button, however long ago the key's listener was *)
(* installed.                                                               *)
TogglesWhatIsShown ==
    press.intent \in {"play", "pause"} =>
        press.intent = IF press.shown.playing THEN "pause" ELSE "play"

(* Whoever has lost the remote has lost its keys: no command leaves a page  *)
(* that says only the host may.                                             *)
OnlyWithTheRemote == press.allowed

(* What the bar and the button send is about what is shown: a room is       *)
(* resumed from the position on the page, and sought to a point of the      *)
(* video.  (Keys resume and skip from the position of their listener.)      *)
ActsOnWhatIsShown ==
    press.how \in {"button", "bar"} =>
        /\ press.intent = "play" /\ press.shown.known => press.at = press.shown.projected
        /\ press.intent = "seek" => press.at \in 0..press.shown.duration

(* A press commands what its page showed, and only where it may.            *)
PressesSound ==
    /\ TogglesWhatIsShown
    /\ OnlyWithTheRemote
    /\ ActsOnWhatIsShown

-----------------------------------------------------------------------------
(* The inductive strengthening the proofs rest on.                          *)
Status == [known : BOOLEAN, playing : BOOLEAN, projected : Where, duration : {0, Duration}]

GesturesTypeOK ==
    /\ me \in [isHost : BOOLEAN, allowGuestControl : BOOLEAN,
              controllerId : {"me", "other", "none"}]
    /\ tl \in [known : BOOLEAN, playing : BOOLEAN, at : Where]
    /\ ready \in BOOLEAN /\ status \in Status
    /\ bound \in [status : Status, can : BOOLEAN, ready : BOOLEAN]

(* The listener's render is out of date only in what its keys do not ask.   *)
BoundIsCurrent ==
    /\ bound.can = canControl(me) /\ bound.ready = ready
    /\ bound.status.playing = status.playing

GesturesIInv == GesturesTypeOK /\ BoundIsCurrent /\ PressesSound

=============================================================================
