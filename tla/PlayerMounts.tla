---------------------------- MODULE PlayerMounts ----------------------------
(***************************************************************************)
(* The mounts of the player shell: the components that load a player for   *)
(* the room's video (the YouTube API script, the Vimeo SDK and hls.js as    *)
(* lazy chunks, a plain media element), hand its adapter to the shell when  *)
(* it can be driven, and tear everything down when the video changes, the   *)
(* attempt fails or is retried.  What was asked for before a teardown still *)
(* arrives after it, or never: nobody handles a script or a chunk that      *)
(* fails to load.  The shell also keeps the user's volume, which every new  *)
(* player has to be told.  A manifest that the browser plays itself (Safari)*)
(* is a file here.                                                          *)
(*                                                                         *)
(* PlayerSync has the engine that drives the adapter.                       *)
(***************************************************************************)
EXTENDS Naturals, Sequences, FiniteSets

CONSTANTS MaxMounts, MaxSettings    \* bounds: mounts made, changes of volume

ASSUME MountsAssumption == MaxMounts \in Nat /\ MaxSettings \in Nat

MountKinds == {"youtube", "vimeo", "file", "hls"}

VARIABLES
    shown,      \* the mount on the page: its number, 0 when there is none
    kindOf,     \* the kinds of all mounts so far
    card,       \* the failure card: the mount whose failure it tells, 0: none
    api,        \* the YouTube API script
    hook,       \* window.onYouTubeIframeAPIReady: the mount it initialises
    comes,      \* what has been asked for and still arrives
    alive,      \* players and adapters that have not been torn down
    held,       \* adapterRef: the mount whose adapter the shell holds
    isReady,    \* the shell's isReady, as last rendered
    retried,    \* the recoveries the mounted hls.js instance has had
    fatals,     \* history: its fatal errors
    stranded,   \* history: the shown mount's chunk could not be loaded
    inherits,   \* history: the shown media element replaced a ready player, and
                \* the user has not touched the volume since
    chosen,     \* the user's volume and mute
    heard,      \* what the shown player was told of them
    settings    \* changes made

mountVars == <<shown, kindOf, card, api, hook, comes, alive, held, isReady, retried,
               fatals, stranded, inherits, chosen, heard, settings>>

Levels == 0..2      \* silence, low, full
MaxFatals == 3
Things == [mount : 1..MaxMounts, what : {"player", "adapter"}]
Pending == [mount : 1..MaxMounts, what : {"chunk", "ready", "error"}]
Audio == [muted : BOOLEAN, volume : Levels]
Default == [muted |-> FALSE, volume |-> 2]

MountsTypeOK ==
    /\ kindOf \in Seq(MountKinds) /\ Len(kindOf) <= MaxMounts
    /\ {shown, card, hook, held} \subseteq 0..Len(kindOf)
    /\ shown # 0 => shown = Len(kindOf) /\ card = 0
    /\ api \in {"absent", "loading", "loaded", "failed"}
    /\ comes \subseteq Pending /\ alive \subseteq Things
    /\ isReady \in BOOLEAN /\ (isReady <=> held # 0)
    /\ {stranded, inherits} \subseteq BOOLEAN
    /\ retried \subseteq {"network", "media"}
    /\ fatals \in 0..MaxFatals
    /\ {chosen, heard} \subseteq Audio
    /\ settings \in 0..MaxSettings

MountsInit ==
    /\ shown = 0 /\ kindOf = <<>> /\ card = 0
    /\ api = "absent" /\ hook = 0 /\ comes = {} /\ alive = {}
    /\ held = 0 /\ isReady = FALSE
    /\ retried = {} /\ fatals = 0 /\ stranded = FALSE /\ inherits = FALSE
    /\ chosen \in Audio /\ heard = Default /\ settings = 0

AskedFor(m, whats) == [mount : {m}, what : whats]
Thing(m, what) == [mount |-> m, what |-> what]

-----------------------------------------------------------------------------
(* The user's volume.                                                       *)

(* setMuted and setVolume: Vimeo has no mute, its setMuted is a volume.     *)
setMuted(kind, a, muted) ==
    IF kind = "vimeo" THEN [a EXCEPT !.volume = IF muted THEN 0 ELSE 2]
    ELSE [a EXCEPT !.muted = muted]

setVolume(a, v) == [a EXCEPT !.volume = v]

(* Seeded fault: the level first, the mute last.                            *)
ApplyAudioLevelFirst(kind, a, c) ==
    setMuted(kind, setVolume(a, IF c.muted THEN 0 ELSE c.volume), c.muted)

(* The effect: mute first, level last.                                      *)
ApplyAudio(kind, a, c) ==
    setVolume(setMuted(kind, a, c.muted), IF c.muted THEN 0 ELSE c.volume)

Loudness(a) == IF a.muted THEN 0 ELSE a.volume

(* The user moves the slider or mutes.                                      *)
SetAudio ==
    /\ settings < MaxSettings /\ settings' = settings + 1
    /\ \E a \in Audio \ {chosen} :
         /\ chosen' = a
         /\ heard' = IF held = 0 THEN heard ELSE ApplyAudio(kindOf[held], heard, a)
    /\ inherits' = FALSE
    /\ UNCHANGED <<shown, kindOf, card, api, hook, comes, alive, held, isReady, retried,
                   fatals, stranded>>

-----------------------------------------------------------------------------
(* What a mount's effect starts, and what its cleanup ends.                 *)

(* new YT.Player, new Player(container), new Hls.                           *)
Built(m) == alive' = alive \cup {Thing(m, "player")}

(* Seeded fault: the hook is set only by the mount that adds the script.    *)
LoadYouTubeFirstOnly(m) ==
    /\ api' = IF api = "absent" THEN "loading" ELSE api
    /\ hook' = IF api = "absent" THEN m ELSE 0

(* The script is global and is appended once, whether or not it ever loads. *)
LoadYouTube(m) ==
    /\ api' = IF api = "absent" THEN "loading" ELSE api
    /\ hook' = m

(* The old mount's cleanup and the new mount's effect, in one commit.  A    *)
(* media element is drivable at once: onAdapter(null) and onAdapter(adapter)*)
(* are batched, and the audio effect runs only if isReady changes.          *)
ChangeSource(kind) ==
    LET m == Len(kindOf) + 1
        element == kind \in {"file", "hls"} IN
    /\ m <= MaxMounts
    /\ kindOf' = Append(kindOf, kind)
    /\ shown' = m /\ card' = 0
    /\ held' = IF element THEN m ELSE 0
    /\ isReady' = element
    /\ retried' = {} /\ fatals' = 0 /\ stranded' = FALSE
    /\ inherits' = (element /\ isReady)
    /\ heard' = IF element /\ ~isReady THEN ApplyAudio(kind, Default, chosen) ELSE Default
    /\ IF kind = "youtube" /\ api # "loaded" THEN LoadYouTube(m)
       ELSE hook' = 0 /\ UNCHANGED api
    /\ alive' = CASE element -> {Thing(m, "adapter")}
                  [] kind = "youtube" /\ api = "loaded" -> {Thing(m, "player")}
                  [] OTHER -> {}
    /\ comes' = comes \cup
         CASE kind = "youtube" -> IF api = "loaded" THEN AskedFor(m, {"ready", "error"}) ELSE {}
           [] kind = "vimeo" -> AskedFor(m, {"chunk"})
           [] kind = "file" -> AskedFor(m, {"error"})
           [] kind = "hls" -> AskedFor(m, {"chunk", "error"})
    /\ UNCHANGED <<chosen, settings>>

(* The room's video is cleared: the mount's cleanup, and the "No video yet" *)
(* card, which is no failure.                                               *)
ClearSource ==
    /\ kindOf # <<>> /\ (shown # 0 \/ card # 0)
    /\ shown' = 0 /\ card' = 0
    /\ hook' = 0 /\ alive' = {} /\ held' = 0 /\ isReady' = FALSE
    /\ UNCHANGED <<kindOf, api, comes, retried, fatals, stranded, inherits, chosen, heard,
                   settings>>

(* Seeded fault: onAdapter(null) leaves the shell ready.                    *)
FailStaysReady(m) ==
    /\ card' = m /\ shown' = 0
    /\ hook' = 0 /\ alive' = {} /\ held' = 0 /\ UNCHANGED isReady

(* onFailure of mount m: the card takes the place of what is mounted, whose  *)
(* cleanup runs.                                                            *)
Fail(m) ==
    /\ card' = m /\ shown' = 0
    /\ hook' = 0 /\ alive' = {} /\ held' = 0 /\ isReady' = FALSE

-----------------------------------------------------------------------------
(* What arrives, for the mount that asked or for one that is gone.          *)

(* Seeded fault: nobody looks whether the mount is gone.                    *)
CancelledNever(m) == FALSE

Cancelled(m) == m # shown

Arrives(m, what) ==
    /\ Thing(m, what) \in comes
    /\ UNCHANGED <<kindOf, api, inherits, chosen, settings>>

Ignored == UNCHANGED <<shown, card, hook, alive, held, isReady, heard, retried, fatals,
                       stranded>>

(* The script has loaded: whoever set the hook last is initialised.         *)
ApiReady ==
    /\ api = "loading" /\ api' = "loaded"
    /\ IF hook = 0 \/ Cancelled(hook) THEN UNCHANGED <<alive, comes>>
       ELSE /\ Built(hook)
            /\ comes' = comes \cup AskedFor(hook, {"ready", "error"})
    /\ UNCHANGED <<shown, kindOf, card, hook, held, isReady, retried, fatals, stranded,
                   inherits, chosen, heard, settings>>

(* The script does not load.  Nobody is told, and no later mount appends it *)
(* again.                                                                   *)
ApiFails ==
    /\ api = "loading" /\ api' = "failed"
    /\ UNCHANGED <<shown, kindOf, card, hook, comes, alive, held, isReady, retried, fatals,
                   stranded, inherits, chosen, heard, settings>>

(* The lazy chunk of the Vimeo SDK, or of hls.js, which this browser may    *)
(* not support.                                                             *)
ChunkLoaded(m) ==
    /\ Arrives(m, "chunk")
    /\ IF Cancelled(m)
       THEN comes' = comes \ AskedFor(m, {"chunk"}) /\ Ignored
       ELSE \/ /\ Built(m)
               /\ comes' = (comes \ AskedFor(m, {"chunk"})) \cup
                    (IF kindOf[m] = "vimeo" THEN AskedFor(m, {"ready", "error"}) ELSE {})
               /\ UNCHANGED <<shown, card, hook, held, isReady, heard, retried, fatals,
                              stranded>>
            \/ /\ kindOf[m] = "hls"
               /\ comes' = comes \ AskedFor(m, {"chunk"})
               /\ Fail(m) /\ UNCHANGED <<heard, retried, fatals, stranded>>

(* The import is rejected, which nobody catches.                            *)
ChunkFails(m) ==
    /\ Arrives(m, "chunk")
    /\ comes' = comes \ AskedFor(m, {"chunk"})
    /\ stranded' = (stranded \/ ~Cancelled(m))
    /\ UNCHANGED <<shown, card, hook, alive, held, isReady, heard, retried, fatals>>

(* The player is ready: the adapter is built and handed up.                 *)
Ready(m) ==
    /\ Arrives(m, "ready")
    /\ comes' = comes \ AskedFor(m, {"ready"})
    /\ IF Cancelled(m) THEN Ignored
       ELSE /\ alive' = alive \cup {Thing(m, "adapter")}
            /\ held' = m /\ isReady' = TRUE
            /\ heard' = IF isReady THEN heard ELSE ApplyAudio(kindOf[m], heard, chosen)
            /\ UNCHANGED <<shown, card, hook, retried, fatals, stranded>>

(* The player reports an error, or its ready() is rejected.                 *)
PlayerError(m) ==
    /\ Arrives(m, "error")
    /\ IF Cancelled(m)
       THEN comes' = comes \ AskedFor(m, {"error"}) /\ Ignored
       ELSE /\ comes' = comes \ AskedFor(m, {"error", "ready"})
            /\ Fail(m) /\ UNCHANGED <<heard, retried, fatals, stranded>>

(* Seeded fault: a recovery makes up for the ones before.                   *)
RetriedForgets(type) == {type}

Retried(type) == retried \cup {type}

(* hls.js reports a fatal error: one recovery for an error of the network,  *)
(* one for an error of the media, none for any other ("other": key system,  *)
(* mux and the rest).                                                       *)
HlsFatal(type) ==
    /\ shown # 0 /\ kindOf[shown] = "hls" /\ Thing(shown, "player") \in alive
    /\ fatals < MaxFatals /\ fatals' = fatals + 1
    /\ IF type \in {"network", "media"} \ retried
       THEN /\ retried' = Retried(type)
            /\ UNCHANGED <<shown, card, hook, alive, held, isReady>>
       ELSE Fail(shown) /\ UNCHANGED retried
    /\ UNCHANGED <<kindOf, api, comes, stranded, inherits, chosen, heard, settings>>

MountsNext ==
    \/ \E kind \in MountKinds : ChangeSource(kind)
    \/ ClearSource
    \/ SetAudio
    \/ ApiReady \/ ApiFails
    \/ \E m \in 1..Len(kindOf) :
         ChunkLoaded(m) \/ ChunkFails(m) \/ Ready(m) \/ PlayerError(m)
    \/ \E type \in {"network", "media", "other"} : HlsFatal(type)

MountsSpec == MountsInit /\ [][MountsNext]_mountVars

-----------------------------------------------------------------------------
(* Nothing outlives its mount, however late its script, chunk or readiness  *)
(* arrives: every player and adapter that has not been torn down is the     *)
(* shown mount's, and the shell holds no other's adapter (the cancelled     *)
(* flags of the three mounts).                                              *)
NothingOutlivesItsMount ==
    /\ \A x \in alive : x.mount = shown
    /\ held # 0 => held = shown /\ Thing(held, "adapter") \in alive

(* A failure card tells of the video on the page: an error of a player that *)
(* has been replaced never takes the place of the next one.                 *)
CardIsTheShownOnes == card # 0 => card = Len(kindOf)

(* The code the shown mount needs could not be loaded: the mounts have no   *)
(* handler for that.                                                        *)
LoadFailed == stranded \/ (kindOf[shown] = "youtube" /\ api = "failed")

(* The shown mount has what plays its video.                                *)
Working ==
    IF kindOf[shown] = "hls" THEN Thing(shown, "player") \in alive ELSE held = shown

(* No mount is forgotten: one that does not work yet has its chunk or its   *)
(* readiness coming, or waits for the API script, also when that was asked  *)
(* for by an earlier mount that is gone; except one whose script or chunk   *)
(* could not be loaded, which stays blank without a failure card.           *)
NoMountForgotten ==
    shown # 0 /\ ~Working =>
        \/ Thing(shown, "chunk") \in comes \/ Thing(shown, "ready") \in comes
        \/ hook = shown /\ api = "loading"
        \/ LoadFailed

(* Every ready player, media elements included, plays as loud as the user   *)
(* chose; except a media element that replaced a ready player, which keeps  *)
(* its own default until the user touches the volume (isReady does not      *)
(* change, so the effect does not run).                                     *)
AudioAsChosen ==
    held # 0 /\ ~inherits => Loudness(heard) = Loudness(chosen)

(* A broken stream fails visibly: two recoveries, one of each kind, are all *)
(* that a mounted hls.js instance gets, whatever the errors are.            *)
BrokenStreamFails == shown # 0 => fatals <= 2

(* Of the mounts, whatever arrives late: only the shown one lives, what it  *)
(* waits for is still to come unless its code could not be loaded, and it   *)
(* sounds as the user chose unless it is an element that took over from a   *)
(* ready player.                                                            *)
MountsSound ==
    /\ MountsTypeOK
    /\ NothingOutlivesItsMount
    /\ CardIsTheShownOnes
    /\ NoMountForgotten
    /\ AudioAsChosen
    /\ BrokenStreamFails

-----------------------------------------------------------------------------
(* The inductive strengthening the proofs rest on.                          *)

(* The hook is the shown mount's, and each kind of mount waits for what its *)
(* player takes.                                                            *)
AskedByMounts ==
    /\ hook # 0 => hook = shown /\ kindOf[shown] = "youtube"
    /\ \A x \in comes :
         /\ x.mount <= Len(kindOf)
         /\ x.what = "chunk" => kindOf[x.mount] \in {"vimeo", "hls"}
         /\ x.what = "ready" => kindOf[x.mount] \in {"youtube", "vimeo"}

(* Of the shown mount: a media element is held as soon as it is there,      *)
(* nothing mutes a Vimeo player, and each fatal error was another kind's.   *)
ShownMount ==
    shown # 0 =>
        /\ kindOf[shown] \in {"file", "hls"} => held = shown
        /\ inherits => kindOf[shown] \in {"file", "hls"}
        /\ kindOf[shown] = "vimeo" => ~heard.muted
        /\ fatals = (IF "network" \in retried THEN 1 ELSE 0)
                    + (IF "media" \in retried THEN 1 ELSE 0)

MountsIInv == MountsSound /\ AskedByMounts /\ ShownMount

=============================================================================
