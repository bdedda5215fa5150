------------------------------ MODULE Captions ------------------------------
(***************************************************************************)
(* Subtitles, a local choice like the volume.  Every kind of player learns  *)
(* of its tracks in its own time and announces nothing, so the shell asks a *)
(* few times after a player appears, offers the button once one has said    *)
(* yes, and tells the player the user's choice when something about either  *)
(* changes.                                                                 *)
(*                                                                         *)
(* What React does between an event and the settled page is one step.       *)
(***************************************************************************)
EXTENDS Naturals

CONSTANTS MaxAsks, MaxPlayers    \* asks of a player (6); bound: players in turn

ASSUME CaptionsAssumption == MaxAsks \in Nat /\ MaxPlayers \in Nat

PlayerKinds == {"youtube", "vimeo", "element"}

VARIABLES
    inSight,     \* [kind, module, tracks, captioned]: the player on the page,
                \* whether YouTube's captions module is loaded, whether it has
                \* tracks to show, whether it shows them
    playable,   \* isReady
    available,  \* captionsAvailable: the button is offered
    captionsOn,
    asks,       \* attempts of the running poll
    polling,    \* its timer
    missed,     \* history: the tracks came after the last ask
    players     \* players so far

captionVars == <<inSight, playable, available, captionsOn, asks, polling, missed, players>>

NewPlayer(kind) == [kind |-> kind, module |-> FALSE, tracks |-> FALSE, captioned |-> FALSE]

CaptionsInit ==
    /\ inSight \in {NewPlayer(k) : k \in PlayerKinds \ {"element"}}
    /\ playable = FALSE /\ available = FALSE /\ captionsOn \in BOOLEAN
    /\ asks = 0 /\ polling = FALSE /\ missed = FALSE /\ players = 0

-----------------------------------------------------------------------------
(* The adapters.                                                            *)

(* YouTube loads its captions module when it is first asked.                *)
AfterAsk(p) == [p EXCEPT !.module = @ \/ p.kind = "youtube"]

(* YouTube's track list is the module's, Vimeo's was fetched when the       *)
(* adapter was built, a media element's is that of its subtitle tracks.     *)
hasCaptions(p) == p.tracks

(* Without a track there is nothing to switch.                              *)
setCaptionsEnabled(p, on) == IF p.tracks THEN [p EXCEPT !.captioned = on] ELSE p

-----------------------------------------------------------------------------
(* The shell.                                                               *)

(* Seeded fault: the choice is told when it or the player changes, not when *)
(* tracks have been found.                                                  *)
ToldNotWhenFound(p, on, found, now) ==
    IF on # captionsOn \/ now # playable THEN setCaptionsEnabled(p, on) ELSE p

(* The effect on [captionsOn, captionsAvailable, isReady].                  *)
Told(p, on, found, now) ==
    IF on # captionsOn \/ found # available \/ now # playable
    THEN setCaptionsEnabled(p, on) ELSE p

(* The poll of a drivable player asks at once, and starts a timer unless    *)
(* that was answered.                                                       *)
StartPoll(p) ==
    /\ polling' = (~hasCaptions(p) /\ 1 < MaxAsks)
    /\ asks' = 1

(* A player comes into sight: a media element can be driven at once, and    *)
(* may replace a player without isReady ever changing.                      *)
PlayerChanges(kind) ==
    LET p == NewPlayer(kind) IN
    /\ players < MaxPlayers /\ players' = players + 1
    /\ missed' = FALSE /\ available' = FALSE
    /\ playable' = (kind = "element")
    /\ inSight' = Told(p, captionsOn, FALSE, playable')
    /\ IF kind = "element" THEN StartPoll(p) ELSE polling' = FALSE /\ asks' = 0
    /\ UNCHANGED captionsOn

PlayerReady ==
    /\ ~playable /\ inSight.kind # "element"
    /\ playable' = TRUE
    /\ available' = hasCaptions(AfterAsk(inSight))
    /\ inSight' = Told(AfterAsk(inSight), captionsOn, available', TRUE)
    /\ StartPoll(AfterAsk(inSight))
    /\ UNCHANGED <<captionsOn, missed, players>>

(* The video turns out to have tracks; those of YouTube come with the       *)
(* module.                                                                  *)
TracksArrive ==
    /\ ~inSight.tracks /\ playable
    /\ inSight.kind = "youtube" => inSight.module
    /\ inSight' = [inSight EXCEPT !.tracks = TRUE]
    /\ missed' = ~polling
    /\ UNCHANGED <<playable, available, captionsOn, asks, polling, players>>

(* Seeded fault: the last tick stops the timer before it asks.              *)
PollStopsFirst ==
    /\ polling
    /\ asks' = asks + 1
    /\ polling' = (asks' < MaxAsks)
    /\ available' = (polling' /\ hasCaptions(AfterAsk(inSight)))
    /\ inSight' = Told(AfterAsk(inSight), captionsOn, available', playable)
    /\ UNCHANGED <<playable, captionsOn, missed, players>>

(* The timer: until a yes or the last ask.                                  *)
Poll ==
    /\ polling
    /\ available' = hasCaptions(AfterAsk(inSight))
    /\ inSight' = Told(AfterAsk(inSight), captionsOn, available', playable)
    /\ asks' = asks + 1
    /\ polling' = (~available' /\ asks' < MaxAsks)
    /\ UNCHANGED <<playable, captionsOn, missed, players>>

(* The button, and the key, which asks the player itself.                   *)
ToggleCaptions ==
    /\ playable
    /\ available \/ hasCaptions(AfterAsk(inSight))
    /\ captionsOn' = ~captionsOn
    /\ inSight' = Told(AfterAsk(inSight), captionsOn', available, playable)
    /\ UNCHANGED <<playable, available, asks, polling, missed, players>>

CaptionsNext ==
    \/ \E kind \in PlayerKinds : PlayerChanges(kind)
    \/ PlayerReady \/ TracksArrive \/ Poll \/ ToggleCaptions

CaptionsSpec == CaptionsInit /\ [][CaptionsNext]_captionVars

-----------------------------------------------------------------------------
(* The button tells the truth: where it is offered, the player on the page  *)
(* has subtitles and shows them exactly if the user wants them, also after  *)
(* the video was replaced under it ("a control that silently does nothing   *)
(* is worse than an absent one").                                           *)
CaptionsAsChosen ==
    available => playable /\ inSight.tracks /\ inSight.captioned = captionsOn

(* Every player gets its asks: tracks that came before the last of them are *)
(* offered, however many players were asked before.                         *)
TracksFound == playable /\ ~polling /\ inSight.tracks /\ ~missed => available

(* The button is there when there is something to show, and says what is    *)
(* shown.                                                                   *)
CaptionsSound ==
    /\ CaptionsAsChosen
    /\ TracksFound

-----------------------------------------------------------------------------
(* The inductive strengthening the proofs rest on.                          *)
PlayerInSight ==
    [kind : PlayerKinds, module : BOOLEAN, tracks : BOOLEAN, captioned : BOOLEAN]

CaptionsTypeOK ==
    /\ inSight \in PlayerInSight
    /\ playable \in BOOLEAN /\ available \in BOOLEAN /\ captionsOn \in BOOLEAN
    /\ asks \in 0..(MaxAsks + 1) /\ players \in 0..MaxPlayers
    /\ polling \in BOOLEAN /\ missed \in BOOLEAN

(* Only a drivable player is asked.                                         *)
OnlyDrivableAsked == polling => playable /\ asks < MaxAsks

CaptionsIInv == CaptionsTypeOK /\ OnlyDrivableAsked /\ CaptionsSound

=============================================================================
