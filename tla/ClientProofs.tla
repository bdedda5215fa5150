---------------------------- MODULE ClientProofs ----------------------------
(***************************************************************************)
(* Proofs about the client's components for every value of their           *)
(* constants: the sessions of a browser's tabs, the player's mounts,       *)
(* captions, presses, media sources and engine, everybody's clock, and what *)
(* the adapters read of their players.                                      *)
(***************************************************************************)
EXTENDS WebSession, PlayerMounts, Captions, Gestures, MediaSource, PlayerSync, ServerClock,
        Readout, WellFoundedInduction, SequenceTheorems, FiniteSetTheorems, TLAPS

-----------------------------------------------------------------------------
(* The mounts of the player shell.                                          *)

(* What ApplyAudio leaves a player with.                                    *)
LEMMA ApplyAudioSounds ==
    ASSUME NEW kind \in MountKinds, NEW a \in Audio, NEW c \in Audio
    PROVE  /\ ApplyAudio(kind, a, c) \in Audio
           /\ kind # "vimeo" => Loudness(ApplyAudio(kind, a, c)) = Loudness(c)
           /\ kind = "vimeo" /\ ~a.muted =>
                /\ ~ApplyAudio(kind, a, c).muted
                /\ Loudness(ApplyAudio(kind, a, c)) = Loudness(c)
<1> DEFINE level == IF c.muted THEN 0 ELSE c.volume
<1>1. level \in Levels /\ a.muted \in BOOLEAN /\ c.muted \in BOOLEAN /\ c.volume \in Levels
  BY DEF Audio, Levels
<1>2. ApplyAudio(kind, a, c) =
        [muted |-> IF kind = "vimeo" THEN a.muted ELSE c.muted, volume |-> level]
  BY DEF ApplyAudio, setMuted, setVolume, Audio
<1>3. ApplyAudio(kind, a, c) \in Audio
  BY <1>1, <1>2 DEF Audio
<1>4. QED
  BY <1>1, <1>2, <1>3 DEF Loudness

LEMMA MountsInitial ==
    ASSUME MountsInit
    PROVE  MountsIInv
<1>1. Default \in Audio /\ chosen \in Audio
  BY DEF MountsInit, Default, Audio, Levels
<1>2. MountsTypeOK
  <2>1. isReady \in BOOLEAN /\ (isReady <=> held # 0) /\ {stranded, inherits} \subseteq BOOLEAN
    BY ZenonT(20) DEF MountsInit
  <2>2. kindOf \in Seq(MountKinds) /\ Len(kindOf) = 0
    BY DEF MountsInit
  <2>3. QED
    BY <1>1, <2>1, <2>2, MountsAssumption DEF MountsInit, MountsTypeOK, MaxFatals
<1>3. QED
  BY <1>2 DEF MountsInit, MountsIInv, MountsSound, NothingOutlivesItsMount, CardIsTheShownOnes,
              NoMountForgotten, AudioAsChosen, BrokenStreamFails, AskedByMounts, ShownMount

LEMMA ChangeSourceKeeps ==
    ASSUME MountsIInv, NEW kind \in MountKinds, ChangeSource(kind)
    PROVE  MountsIInv'
<1> DEFINE m == Len(kindOf) + 1
           element == kind \in {"file", "hls"}
<1>1. /\ m \in 1..MaxMounts /\ kindOf' \in Seq(MountKinds) /\ Len(kindOf') = m
      /\ kindOf'[m] = kind
      /\ \A k \in 1..Len(kindOf) : kindOf'[k] = kindOf[k]
      /\ shown' = m /\ card' = 0 /\ hook' \in {0, m} /\ (hook' # 0 => kind = "youtube")
  BY MountsAssumption DEF ChangeSource, LoadYouTube, MountsIInv, MountsSound, MountsTypeOK
<1>2. /\ held' = IF element THEN m ELSE 0
      /\ isReady' = element /\ retried' = {} /\ fatals' = 0
      /\ stranded' = FALSE /\ (inherits' <=> element /\ isReady) /\ inherits' \in BOOLEAN
      /\ settings' = settings /\ chosen' = chosen
      /\ api' \in {"absent", "loading", "loaded", "failed"}
  BY DEF ChangeSource, LoadYouTube, MountsIInv, MountsSound, MountsTypeOK
<1>3. /\ Default \in Audio /\ heard' \in Audio /\ (~element => heard' = Default)
      /\ element /\ ~isReady => Loudness(heard') = Loudness(chosen)
  <2>1. Default \in Audio /\ ~Default.muted
    BY DEF Default, Audio, Levels
  <2>2. heard' = IF element /\ ~isReady THEN ApplyAudio(kind, Default, chosen) ELSE Default
    BY DEF ChangeSource
  <2>3. element => kind # "vimeo"
    OBVIOUS
  <2>4. QED
    BY <2>1, <2>2, <2>3, ApplyAudioSounds DEF MountsIInv, MountsSound, MountsTypeOK
<1>4. /\ alive' \subseteq Things /\ \A x \in alive' : x.mount = m
      /\ element => Thing(m, "adapter") \in alive'
  BY <1>1 DEF ChangeSource, Things, Thing, MountKinds
<1>5. /\ comes' \subseteq Pending
      /\ \A x \in comes' \ comes :
           /\ x.mount = m
           /\ x.what = "chunk" => kind \in {"vimeo", "hls"}
           /\ x.what = "ready" => kind \in {"youtube", "vimeo"}
  <2>1. PICK whats \in SUBSET {"chunk", "ready", "error"} :
          /\ comes' = comes \cup AskedFor(m, whats) \/ comes' = comes
          /\ "chunk" \in whats => kind \in {"vimeo", "hls"}
          /\ "ready" \in whats => kind \in {"youtube", "vimeo"}
    <3>1. CASE kind = "youtube" /\ api = "loaded"
      <4>1. comes' = comes \cup AskedFor(m, {"ready", "error"})
        BY <3>1 DEF ChangeSource
      <4>2. /\ {"ready", "error"} \in SUBSET {"chunk", "ready", "error"}
            /\ "chunk" \notin {"ready", "error"} /\ kind \in {"youtube", "vimeo"}
        BY <3>1
      <4>3. QED
        BY <4>1, <4>2, Zenon
    <3>2. CASE kind = "youtube" /\ api # "loaded"
      BY <3>2 DEF ChangeSource
    <3>3. CASE kind = "vimeo"
      BY <3>3 DEF ChangeSource
    <3>4. CASE kind = "file"
      <4>1. comes' = comes \cup AskedFor(m, {"error"})
        BY <3>4 DEF ChangeSource
      <4>2. /\ {"error"} \in SUBSET {"chunk", "ready", "error"}
            /\ "chunk" \notin {"error"} /\ "ready" \notin {"error"}
        OBVIOUS
      <4>3. QED
        BY <4>1, <4>2, Zenon
    <3>5. CASE kind = "hls"
      <4>1. comes' = comes \cup AskedFor(m, {"chunk", "error"})
        BY <3>5 DEF ChangeSource
      <4>2. /\ {"chunk", "error"} \in SUBSET {"chunk", "ready", "error"}
            /\ "ready" \notin {"chunk", "error"} /\ kind \in {"vimeo", "hls"}
        BY <3>5
      <4>3. QED
        BY <4>1, <4>2, Zenon
    <3>6. QED
      BY <3>1, <3>2, <3>3, <3>4, <3>5 DEF MountKinds
  <2>2. AskedFor(m, whats) \subseteq Pending /\ \A x \in AskedFor(m, whats) : x.mount = m /\ x.what \in whats
    BY <1>1 DEF AskedFor, Pending
  <2>3. QED
    BY <2>1, <2>2 DEF MountsIInv, MountsSound, MountsTypeOK
<1>6. MountsTypeOK'
  <2>1. /\ kindOf \in Seq(MountKinds) /\ chosen \in Audio /\ settings \in 0..MaxSettings
    BY DEF MountsTypeOK, MountsIInv, MountsSound
  <2>2. {shown, card, hook, held}' \subseteq 0..Len(kindOf')
    BY <1>1, <1>2
  <2>3. (shown # 0 => shown = Len(kindOf) /\ card = 0)' /\ (isReady' <=> held' # 0)
    <3>1. m # 0
      BY <1>1
    <3>2. QED
      BY <1>1, <1>2, <3>1, Zenon
  <2>4. Len(kindOf') <= MaxMounts /\ isReady' \in BOOLEAN
    BY <1>1, <1>2, MountsAssumption
  <2>5. {stranded', inherits'} \subseteq BOOLEAN
    BY <1>2
  <2>6. QED
    BY <1>1, <1>2, <1>3, <1>4, <1>5, <2>1, <2>2, <2>3, <2>4, <2>5 DEF MountsTypeOK, MaxFatals
<1>7. NothingOutlivesItsMount' /\ CardIsTheShownOnes' /\ BrokenStreamFails'
  BY <1>1, <1>2, <1>4 DEF NothingOutlivesItsMount, CardIsTheShownOnes, BrokenStreamFails
<1>8. NoMountForgotten'
  <2>1. kindOf'[shown'] = kind /\ shown' = m
    BY <1>1
  <2>2. CASE kind = "youtube" /\ api # "loaded"
    <3>1. hook' = m /\ api' \in {"loading", "failed"}
      BY <2>2 DEF ChangeSource, LoadYouTube, MountsIInv, MountsSound, MountsTypeOK
    <3>2. QED
      BY <2>1, <2>2, <3>1 DEF NoMountForgotten, LoadFailed
  <2>3. CASE kind = "youtube" /\ api = "loaded"
    <3>1. Thing(m, "ready") \in comes'
      BY <2>3 DEF ChangeSource, AskedFor, Thing
    <3>2. QED
      BY <2>1, <3>1 DEF NoMountForgotten
  <2>4. CASE kind \in {"vimeo", "hls"}
    <3>1. Thing(m, "chunk") \in comes'
      BY <2>4 DEF ChangeSource, AskedFor, Thing
    <3>2. QED
      BY <2>1, <3>1 DEF NoMountForgotten
  <2>5. CASE kind = "file"
    BY <1>2, <2>1, <2>5 DEF NoMountForgotten, Working
  <2>6. QED
    BY <2>2, <2>3, <2>4, <2>5 DEF MountKinds
<1>9. AudioAsChosen'
  <2>1. ~element => held' = 0
    BY <1>2
  <2>2. QED
    BY <1>2, <1>3, <2>1 DEF AudioAsChosen
<1>10. AskedByMounts'
  BY <1>1, <1>5 DEF AskedByMounts, MountsIInv, MountsSound, MountsTypeOK, Pending
<1>11. ShownMount'
  BY <1>1, <1>2, <1>3 DEF ShownMount, Default
<1>12. QED
  BY <1>6, <1>7, <1>8, <1>9, <1>10, <1>11 DEF MountsIInv, MountsSound

(* What stays true of the rest when nothing but the mount's own things      *)
(* changes is in each lemma; m is the shown mount in those that are not     *)
(* ignored.                                                                 *)
LEMMA ClearSourceKeeps ==
    ASSUME MountsIInv, ClearSource
    PROVE  MountsIInv'
<1>1. /\ shown' = 0 /\ card' = 0 /\ hook' = 0 /\ alive' = {} /\ held' = 0 /\ isReady' = FALSE
      /\ UNCHANGED <<kindOf, api, comes, retried, fatals, stranded, inherits, chosen, heard,
                     settings>>
  BY DEF ClearSource
<1>2. MountsTypeOK'
  BY <1>1 DEF MountsIInv, MountsSound, MountsTypeOK
<1>3. AskedByMounts'
  BY <1>1 DEF MountsIInv, AskedByMounts
<1>4. QED
  BY <1>1, <1>2, <1>3
     DEF MountsIInv, MountsSound, NothingOutlivesItsMount, CardIsTheShownOnes,
         NoMountForgotten, AudioAsChosen, BrokenStreamFails, ShownMount

(* A failure: the card takes the place of the shown mount.                  *)
LEMMA FailKeeps ==
    ASSUME MountsIInv, shown # 0, Fail(shown), comes' \subseteq comes,
           UNCHANGED <<kindOf, api, stranded, inherits, heard, chosen, settings>>,
           retried' \subseteq {"network", "media"}, fatals' \in 0..MaxFatals
    PROVE  MountsIInv'
<1>1. /\ shown' = 0 /\ card' = shown /\ hook' = 0 /\ alive' = {} /\ held' = 0
      /\ isReady' = FALSE /\ shown = Len(kindOf)
  BY DEF Fail, MountsIInv, MountsSound, MountsTypeOK
<1>2. MountsTypeOK'
  BY <1>1 DEF MountsIInv, MountsSound, MountsTypeOK
<1>3. AskedByMounts'
  BY <1>1 DEF MountsIInv, AskedByMounts
<1>4. QED
  BY <1>1, <1>2, <1>3
     DEF MountsIInv, MountsSound, NothingOutlivesItsMount, CardIsTheShownOnes,
         NoMountForgotten, AudioAsChosen, BrokenStreamFails, ShownMount

LEMMA SetAudioKeeps ==
    ASSUME MountsIInv, SetAudio
    PROVE  MountsIInv'
<1>1. PICK a \in Audio \ {chosen} :
        /\ chosen' = a
        /\ heard' = IF held = 0 THEN heard ELSE ApplyAudio(kindOf[held], heard, a)
  BY DEF SetAudio
<1>2. /\ UNCHANGED <<shown, kindOf, card, api, hook, comes, alive, held, isReady, retried,
                     fatals, stranded>>
      /\ inherits' = FALSE /\ settings' \in 0..MaxSettings
  BY MountsAssumption DEF SetAudio, MountsIInv, MountsSound, MountsTypeOK
<1>3. held # 0 => held = shown /\ shown \in 1..Len(kindOf) /\ kindOf[held] \in MountKinds
  BY DEF MountsIInv, MountsSound, MountsTypeOK, NothingOutlivesItsMount
<1>4. heard' \in Audio
  BY <1>1, <1>3, ApplyAudioSounds DEF MountsIInv, MountsSound, MountsTypeOK
<1>5. MountsTypeOK'
  BY <1>1, <1>2, <1>4 DEF MountsIInv, MountsSound, MountsTypeOK
<1>6. AudioAsChosen'
  <2>1. SUFFICES ASSUME held # 0
                 PROVE  Loudness(heard') = Loudness(chosen')
    BY <1>2 DEF AudioAsChosen
  <2>2. /\ heard' = ApplyAudio(kindOf[held], heard, chosen')
        /\ kindOf[held] \in MountKinds /\ heard \in Audio /\ chosen' \in Audio
        /\ kindOf[held] = "vimeo" => ~heard.muted
    BY <1>1, <1>3, <2>1 DEF ShownMount, MountsIInv, MountsSound, MountsTypeOK
  <2>3. QED
    BY <2>2, ApplyAudioSounds
<1>7. ShownMount'
  BY <1>1, <1>2, <1>3, ApplyAudioSounds DEF ShownMount, MountsIInv, MountsSound, MountsTypeOK
<1>8. QED
  BY <1>2, <1>5, <1>6, <1>7
     DEF MountsIInv, MountsSound, NothingOutlivesItsMount, CardIsTheShownOnes,
         NoMountForgotten, Working, LoadFailed, BrokenStreamFails, AskedByMounts

(* Something arrives that is no longer awaited: it is not the shown mount's.*)
LEMMA IgnoredKeeps ==
    ASSUME MountsIInv, NEW m \in Nat, m # shown, NEW what, comes' = comes \ AskedFor(m, {what}),
           Ignored, UNCHANGED <<kindOf, api, inherits, chosen, settings>>
    PROVE  MountsIInv'
<1>1. UNCHANGED <<shown, card, hook, alive, held, isReady, heard, retried, fatals, stranded>>
  BY DEF Ignored
<1>2. comes' \subseteq comes /\ \A x \in comes : x.mount = shown => x \in comes'
  BY DEF AskedFor
<1>3. MountsTypeOK'
  BY <1>1, <1>2 DEF MountsIInv, MountsSound, MountsTypeOK
<1>4. NoMountForgotten'
  BY <1>1, <1>2
     DEF MountsIInv, MountsSound, NoMountForgotten, Working, LoadFailed, Thing
<1>5. AskedByMounts'
  BY <1>1, <1>2 DEF MountsIInv, AskedByMounts
<1>6. QED
  BY <1>1, <1>3, <1>4, <1>5
     DEF MountsIInv, MountsSound, NothingOutlivesItsMount, CardIsTheShownOnes,
         AudioAsChosen, BrokenStreamFails, ShownMount

(* A player that is not drivable yet is built for the shown mount, which    *)
(* still awaits something.                                                  *)
LEMMA BuiltKeeps ==
    ASSUME MountsIInv, shown # 0, Built(shown), NEW whats \in SUBSET {"ready", "error"},
           "ready" \in whats => kindOf[shown] \in {"youtube", "vimeo"},
           comes' \subseteq comes \cup AskedFor(shown, whats),
           \/ kindOf[shown] = "hls"
           \/ Thing(shown, "chunk") \in comes' \/ Thing(shown, "ready") \in comes',
           api' \in {"absent", "loading", "loaded", "failed"},
           UNCHANGED <<shown, kindOf, card, hook, held, isReady, retried, fatals, stranded,
                       inherits, chosen, heard, settings>>
    PROVE  MountsIInv'
<1>1. shown \in 1..Len(kindOf) /\ shown \in 1..MaxMounts
  BY MountsAssumption DEF MountsIInv, MountsSound, MountsTypeOK
<1>2. /\ AskedFor(shown, whats) \subseteq Pending
      /\ \A x \in AskedFor(shown, whats) :
           x.mount = shown /\ x.what # "chunk" /\ x.what \in whats
  BY <1>1 DEF AskedFor, Pending
<1>3. /\ alive \subseteq alive' /\ alive' \subseteq Things
      /\ \A x \in alive' : x \in alive \/ x.mount = shown
  BY <1>1 DEF Built, Thing, Things, MountsIInv, MountsSound, MountsTypeOK
<1>4. MountsTypeOK'
  BY <1>2, <1>3 DEF MountsIInv, MountsSound, MountsTypeOK
<1>5. NothingOutlivesItsMount'
  BY <1>3 DEF NothingOutlivesItsMount, MountsIInv, MountsSound, Thing
<1>6. AskedByMounts'
  BY <1>1, <1>2 DEF MountsIInv, AskedByMounts
<1>7. NoMountForgotten'
  BY DEF Built, NoMountForgotten, Working
<1>8. QED
  BY <1>4, <1>5, <1>6, <1>7
     DEF MountsIInv, MountsSound, CardIsTheShownOnes, AudioAsChosen, BrokenStreamFails,
         ShownMount

LEMMA ApiReadyKeeps ==
    ASSUME MountsIInv, ApiReady
    PROVE  MountsIInv'
<1>1. /\ api = "loading" /\ api' = "loaded"
      /\ UNCHANGED <<shown, kindOf, card, hook, held, isReady, retried, fatals, stranded,
                     inherits, chosen, heard, settings>>
  BY DEF ApiReady
<1>2. CASE hook = 0 \/ Cancelled(hook)
  <2>1. UNCHANGED <<alive, comes>> /\ hook = 0
    BY <1>2 DEF ApiReady, Cancelled, MountsIInv, AskedByMounts
  <2>2. MountsTypeOK'
    BY <1>1, <2>1 DEF MountsIInv, MountsSound, MountsTypeOK
  <2>3. AskedByMounts'
    BY <1>1, <2>1 DEF MountsIInv, AskedByMounts
  <2>4. NoMountForgotten'
    BY <1>1, <2>1 DEF MountsIInv, MountsSound, NoMountForgotten, Working, LoadFailed
  <2>5. QED
    BY <1>1, <2>1, <2>2, <2>3, <2>4
       DEF MountsIInv, MountsSound, NothingOutlivesItsMount, CardIsTheShownOnes,
           AudioAsChosen, BrokenStreamFails, ShownMount
<1>3. CASE ~(hook = 0 \/ Cancelled(hook))
  <2>1. /\ hook = shown /\ shown # 0 /\ Built(shown)
        /\ comes' = comes \cup AskedFor(shown, {"ready", "error"})
    BY <1>3 DEF ApiReady, Cancelled
  <2>2. /\ Thing(shown, "ready") \in comes'
        /\ {"ready", "error"} \in SUBSET {"ready", "error"}
    BY <2>1 DEF AskedFor, Thing
  <2>3. kindOf[shown] = "youtube"
    BY <2>1 DEF MountsIInv, AskedByMounts
  <2>4. QED
    BY <1>1, <2>1, <2>2, <2>3, BuiltKeeps
<1>4. QED
  BY <1>2, <1>3

LEMMA ApiFailsKeeps ==
    ASSUME MountsIInv, ApiFails
    PROVE  MountsIInv'
<1>1. /\ api = "loading" /\ api' = "failed"
      /\ UNCHANGED <<shown, kindOf, card, hook, comes, alive, held, isReady, retried, fatals,
                     stranded, inherits, chosen, heard, settings>>
  BY DEF ApiFails
<1>2. NoMountForgotten'
  <2>1. SUFFICES ASSUME shown # 0, ~Working, ~LoadFailed', hook = shown,
                        Thing(shown, "chunk") \notin comes, Thing(shown, "ready") \notin comes
                 PROVE  FALSE
    BY <1>1 DEF MountsIInv, MountsSound, NoMountForgotten, Working, LoadFailed
  <2>2. kindOf[shown] = "youtube"
    BY <2>1 DEF MountsIInv, AskedByMounts
  <2>3. QED
    BY <1>1, <2>1, <2>2 DEF LoadFailed
<1>3. MountsTypeOK' /\ AskedByMounts'
  BY <1>1 DEF MountsIInv, MountsSound, MountsTypeOK, AskedByMounts
<1>4. QED
  BY <1>1, <1>2, <1>3
     DEF MountsIInv, MountsSound, NothingOutlivesItsMount, CardIsTheShownOnes,
         AudioAsChosen, BrokenStreamFails, ShownMount

LEMMA ChunkLoadedKeeps ==
    ASSUME MountsIInv, NEW m \in 1..Len(kindOf), ChunkLoaded(m)
    PROVE  MountsIInv'
<1>1. Thing(m, "chunk") \in comes /\ UNCHANGED <<kindOf, api, inherits, chosen, settings>>
  BY DEF ChunkLoaded, Arrives
<1>2. m \in Nat /\ m # 0 /\ api \in {"absent", "loading", "loaded", "failed"}
  BY DEF MountsIInv, MountsSound, MountsTypeOK
<1>3. CASE Cancelled(m)
  BY <1>1, <1>2, <1>3, IgnoredKeeps DEF ChunkLoaded, Cancelled
<1>4. CASE ~Cancelled(m)
  <2>1. m = shown /\ shown # 0 /\ kindOf[shown] \in {"vimeo", "hls"}
    BY <1>1, <1>2, <1>4 DEF Cancelled, MountsIInv, AskedByMounts, Thing
  <2>2. CASE /\ Built(m)
             /\ comes' = (comes \ AskedFor(m, {"chunk"})) \cup
                  (IF kindOf[m] = "vimeo" THEN AskedFor(m, {"ready", "error"}) ELSE {})
             /\ UNCHANGED <<shown, card, hook, held, isReady, heard, retried, fatals,
                            stranded>>
    <3>1. CASE kindOf[shown] = "vimeo"
      <4>1. /\ comes' \subseteq comes \cup AskedFor(shown, {"ready", "error"})
            /\ {"ready", "error"} \in SUBSET {"ready", "error"}
            /\ Thing(shown, "ready") \in comes'
        BY <2>1, <2>2, <3>1 DEF AskedFor, Thing
      <4>2. QED
        BY <1>1, <1>2, <2>1, <2>2, <3>1, <4>1, BuiltKeeps
    <3>2. CASE kindOf[shown] = "hls"
      <4>1. comes' \subseteq comes \cup AskedFor(shown, {}) /\ {} \in SUBSET {"ready", "error"}
        BY <2>1, <2>2, <3>2
      <4>2. QED
        BY <1>1, <1>2, <2>1, <2>2, <3>2, <4>1, BuiltKeeps
    <3>3. QED
      BY <2>1, <3>1, <3>2
  <2>3. CASE /\ kindOf[m] = "hls"
             /\ comes' = comes \ AskedFor(m, {"chunk"})
             /\ Fail(m) /\ UNCHANGED <<heard, retried, fatals, stranded>>
    <3>1. retried \subseteq {"network", "media"} /\ fatals \in 0..MaxFatals
      BY DEF MountsIInv, MountsSound, MountsTypeOK
    <3>2. QED
      BY <1>1, <2>1, <2>3, <3>1, FailKeeps
  <2>4. QED
    BY <1>4, <2>2, <2>3 DEF ChunkLoaded
<1>5. QED
  BY <1>3, <1>4

LEMMA ChunkFailsKeeps ==
    ASSUME MountsIInv, NEW m \in 1..Len(kindOf), ChunkFails(m)
    PROVE  MountsIInv'
<1>1. /\ comes' = comes \ AskedFor(m, {"chunk"})
      /\ stranded' = (stranded \/ m = shown)
      /\ UNCHANGED <<kindOf, api, inherits, chosen, settings, shown, card, hook, alive, held,
                     isReady, heard, retried, fatals>>
  BY Zenon DEF ChunkFails, Arrives, Cancelled
<1>2. comes' \subseteq comes /\ \A x \in comes : x.mount # m => x \in comes'
  BY <1>1 DEF AskedFor
<1>3. MountsTypeOK'
  <2>1. {stranded', inherits'} \subseteq BOOLEAN
    BY <1>1 DEF MountsIInv, MountsSound, MountsTypeOK
  <2>2. QED
    BY <1>1, <1>2, <2>1 DEF MountsIInv, MountsSound, MountsTypeOK
<1>4. NoMountForgotten'
  <2>1. CASE m = shown
    BY <1>1, <2>1 DEF NoMountForgotten, LoadFailed
  <2>2. CASE m # shown
    BY <1>1, <1>2, <2>2
       DEF MountsIInv, MountsSound, NoMountForgotten, Working, LoadFailed, Thing
  <2>3. QED
    BY <2>1, <2>2
<1>5. AskedByMounts'
  BY <1>1, <1>2 DEF MountsIInv, AskedByMounts
<1>6. QED
  BY <1>1, <1>3, <1>4, <1>5
     DEF MountsIInv, MountsSound, NothingOutlivesItsMount, CardIsTheShownOnes,
         AudioAsChosen, BrokenStreamFails, ShownMount

LEMMA ReadyKeeps ==
    ASSUME MountsIInv, NEW m \in 1..Len(kindOf), Ready(m)
    PROVE  MountsIInv'
<1>1. /\ comes' = comes \ AskedFor(m, {"ready"}) /\ Thing(m, "ready") \in comes
      /\ UNCHANGED <<kindOf, api, inherits, chosen, settings>>
  BY DEF Ready, Arrives
<1>2. m \in Nat /\ m # 0
  OBVIOUS
<1>3. CASE Cancelled(m)
  BY <1>1, <1>2, <1>3, IgnoredKeeps DEF Ready, Cancelled
<1>4. CASE ~Cancelled(m)
  <2>1. /\ m = shown /\ shown # 0 /\ held' = shown /\ isReady' = TRUE
        /\ alive' = alive \cup {Thing(shown, "adapter")}
        /\ heard' = IF isReady THEN heard ELSE ApplyAudio(kindOf[shown], heard, chosen)
        /\ UNCHANGED <<shown, card, hook, retried, fatals, stranded>>
        /\ kindOf[shown] \in {"youtube", "vimeo"}
    BY <1>1, <1>2, <1>4 DEF Ready, Cancelled, MountsIInv, AskedByMounts, Thing
  <2>2. /\ shown \in 1..Len(kindOf) /\ shown \in 1..MaxMounts /\ kindOf[shown] \in MountKinds
        /\ isReady => held = shown
    BY <2>1, MountsAssumption
       DEF MountsIInv, MountsSound, MountsTypeOK, NothingOutlivesItsMount
  <2>3. /\ alive' \subseteq Things /\ Thing(shown, "adapter") \in alive'
        /\ \A x \in alive' : x.mount = shown
    BY <2>1, <2>2 DEF Thing, Things, MountsIInv, MountsSound, MountsTypeOK,
                      NothingOutlivesItsMount
  <2>4. /\ heard' \in Audio /\ Loudness(heard') = Loudness(chosen)
        /\ kindOf[shown] = "vimeo" => ~heard'.muted
    BY <2>1, <2>2, ApplyAudioSounds
       DEF MountsIInv, MountsSound, MountsTypeOK, ShownMount, AudioAsChosen
  <2>5. MountsTypeOK'
    <3>1. isReady' \in BOOLEAN /\ (isReady' <=> held' # 0)
      BY <2>1, Zenon
    <3>2. QED
      BY <1>1, <2>1, <2>2, <2>3, <2>4, <3>1 DEF MountsIInv, MountsSound, MountsTypeOK
  <2>6. NothingOutlivesItsMount' /\ AudioAsChosen'
    BY <1>1, <2>1, <2>3, <2>4 DEF NothingOutlivesItsMount, AudioAsChosen, Thing
  <2>7. AskedByMounts' /\ ShownMount'
    BY <1>1, <2>1, <2>4 DEF AskedByMounts, ShownMount, MountsIInv
  <2>8. NoMountForgotten'
    BY <1>1, <2>1 DEF NoMountForgotten, Working
  <2>9. QED
    BY <1>1, <2>1, <2>5, <2>6, <2>7, <2>8
       DEF MountsIInv, MountsSound, CardIsTheShownOnes, BrokenStreamFails
<1>5. QED
  BY <1>3, <1>4

LEMMA PlayerErrorKeeps ==
    ASSUME MountsIInv, NEW m \in 1..Len(kindOf), PlayerError(m)
    PROVE  MountsIInv'
<1>1. m \in Nat /\ m # 0 /\ UNCHANGED <<kindOf, api, inherits, chosen, settings>>
  BY DEF PlayerError, Arrives
<1>2. CASE Cancelled(m)
  BY <1>1, <1>2, IgnoredKeeps DEF PlayerError, Cancelled
<1>3. CASE ~Cancelled(m)
  <2>1. /\ m = shown /\ comes' \subseteq comes
        /\ Fail(m) /\ UNCHANGED <<heard, retried, fatals, stranded>>
    BY <1>3 DEF PlayerError, Cancelled
  <2>2. retried \subseteq {"network", "media"} /\ fatals \in 0..MaxFatals
    BY DEF MountsIInv, MountsSound, MountsTypeOK
  <2>3. QED
    BY <1>1, <2>1, <2>2, FailKeeps
<1>4. QED
  BY <1>2, <1>3

LEMMA HlsFatalKeeps ==
    ASSUME MountsIInv, NEW type \in {"network", "media", "other"}, HlsFatal(type)
    PROVE  MountsIInv'
<1>1. /\ shown # 0 /\ fatals' = fatals + 1 /\ fatals' \in 0..MaxFatals
      /\ UNCHANGED <<kindOf, api, comes, stranded, inherits, chosen, heard, settings>>
      /\ retried \subseteq {"network", "media"}
  BY DEF HlsFatal, MountsIInv, MountsSound, MountsTypeOK, MaxFatals
<1>2. CASE type \in {"network", "media"} \ retried
  <2>1. /\ retried' = retried \cup {type}
        /\ UNCHANGED <<shown, card, hook, alive, held, isReady>>
    BY <1>2 DEF HlsFatal, Retried
  <2>2. MountsTypeOK'
    BY <1>1, <1>2, <2>1 DEF MountsIInv, MountsSound, MountsTypeOK
  <2>3. ShownMount'
    BY <1>1, <1>2, <2>1 DEF ShownMount, MountsIInv
  <2>4. BrokenStreamFails'
    BY <1>1, <2>1, <2>3 DEF ShownMount, BrokenStreamFails
  <2>5. QED
    BY <1>1, <2>1, <2>2, <2>3, <2>4
       DEF MountsIInv, MountsSound, NothingOutlivesItsMount, CardIsTheShownOnes,
           NoMountForgotten, Working, LoadFailed, AudioAsChosen, AskedByMounts
<1>3. CASE type \notin {"network", "media"} \ retried
  <2>1. Fail(shown) /\ retried' = retried
    BY <1>3 DEF HlsFatal
  <2>2. QED
    BY <1>1, <2>1, FailKeeps
<1>4. QED
  BY <1>2, <1>3

(* The inductive invariant of the mounts: what still arrives was asked for  *)
(* by a mount there has been, an element is held at once, and fatal errors  *)
(* are counted by the recoveries (EnhancedVideoPlayer and its mounts).      *)
THEOREM MountsInvariance == MountsSpec => []MountsIInv
<1>1. ASSUME MountsIInv, [MountsNext]_mountVars PROVE MountsIInv'
  <2>1. CASE MountsNext
    BY <1>1, <2>1, ChangeSourceKeeps, ClearSourceKeeps, SetAudioKeeps, ApiReadyKeeps,
       ApiFailsKeeps, ChunkLoadedKeeps, ChunkFailsKeeps, ReadyKeeps, PlayerErrorKeeps, HlsFatalKeeps DEF MountsNext
  <2>2. CASE UNCHANGED mountVars
    BY <1>1, <2>2
       DEF mountVars, MountsIInv, MountsSound, MountsTypeOK, NothingOutlivesItsMount,
           CardIsTheShownOnes, NoMountForgotten, Working, LoadFailed, AudioAsChosen,
           BrokenStreamFails, AskedByMounts, ShownMount
  <2>3. QED
    BY <1>1, <2>1, <2>2
<1>2. QED
  BY <1>1, MountsInitial, PTL DEF MountsSpec

(* Whatever arrives late, for any number of mounts and changes of volume:   *)
(* only the shown mount lives, what it waits for is still to come unless    *)
(* its script or chunk could not be loaded, and it sounds as the user chose *)
(* unless it is a media element that took over from a ready player (the     *)
(* cancelled flags of the three mounts, the audio effect).                  *)
THEOREM MountsSafety == MountsSpec => []MountsSound
<1>1. MountsIInv => MountsSound
  BY DEF MountsIInv
<1>2. QED
  BY <1>1, MountsInvariance, PTL

-----------------------------------------------------------------------------
(* Subtitles.                                                               *)

LEMMA ToldShows ==
    ASSUME NEW p \in PlayerInSight, NEW on \in BOOLEAN
    PROVE  /\ setCaptionsEnabled(p, on) \in PlayerInSight
           /\ setCaptionsEnabled(p, on).tracks = p.tracks
           /\ p.tracks => setCaptionsEnabled(p, on).captioned = on
BY DEF setCaptionsEnabled, PlayerInSight

(* Asking changes nothing but YouTube's module.                             *)
LEMMA AfterAskKeeps ==
    ASSUME CaptionsTypeOK
    PROVE  /\ AfterAsk(inSight) \in PlayerInSight
           /\ AfterAsk(inSight).tracks = inSight.tracks
           /\ AfterAsk(inSight).captioned = inSight.captioned
BY DEF CaptionsTypeOK, AfterAsk, PlayerInSight

LEMMA NewPlayerType ==
    ASSUME NEW kind \in PlayerKinds
    PROVE  NewPlayer(kind) \in PlayerInSight /\ NewPlayer(kind).tracks = FALSE
BY DEF NewPlayer, PlayerInSight

LEMMA CaptionsInitial ==
    ASSUME CaptionsInit
    PROVE  CaptionsIInv
<1>1. inSight \in PlayerInSight
  <2>1. PICK k \in PlayerKinds : inSight = NewPlayer(k)
    BY DEF CaptionsInit
  <2>2. QED
    BY <2>1, NewPlayerType
<1>2. playable \in BOOLEAN /\ available \in BOOLEAN /\ polling \in BOOLEAN /\ missed \in BOOLEAN
  BY Zenon DEF CaptionsInit
<1>3. CaptionsTypeOK
  BY <1>1, <1>2, CaptionsAssumption DEF CaptionsInit, CaptionsTypeOK
<1>4. QED
  BY <1>3 DEF CaptionsInit, CaptionsIInv, OnlyDrivableAsked, CaptionsSound, CaptionsAsChosen,
              TracksFound

LEMMA PlayerChangesKeeps ==
    ASSUME CaptionsIInv, NEW kind \in PlayerKinds, PlayerChanges(kind)
    PROVE  CaptionsIInv'
<1> DEFINE p == NewPlayer(kind)
<1>1. /\ playable' = (kind = "element") /\ inSight' = Told(p, captionsOn, FALSE, playable')
      /\ missed' = FALSE /\ available' = FALSE /\ captionsOn' = captionsOn
  BY Zenon DEF PlayerChanges
<1>2. players' \in 0..MaxPlayers /\ captionsOn \in BOOLEAN /\ CaptionsTypeOK
  BY CaptionsAssumption DEF PlayerChanges, CaptionsIInv, CaptionsTypeOK
<1>3. inSight' \in PlayerInSight /\ inSight'.tracks = p.tracks
  <2>1. inSight' = p \/ inSight' = setCaptionsEnabled(p, captionsOn)
    BY <1>1, Zenon DEF Told
  <2>2. p \in PlayerInSight
    BY NewPlayerType
  <2> HIDE DEF p
  <2>3. QED
    BY <1>2, <2>1, <2>2, ToldShows
<1>4. /\ asks' \in 0..(MaxAsks + 1) /\ polling' \in BOOLEAN
      /\ polling' => kind = "element" /\ asks' < MaxAsks
  <2>1. CASE kind = "element"
    <3>1. asks' = 1 /\ polling' = (~hasCaptions(p) /\ 1 < MaxAsks)
      BY <2>1 DEF PlayerChanges, StartPoll
    <3>2. polling' \in BOOLEAN /\ (polling' => 1 < MaxAsks)
      BY <3>1, Zenon
    <3>3. QED
      BY <2>1, <3>1, <3>2, CaptionsAssumption
  <2>2. CASE kind # "element"
    <3>1. asks' = 0 /\ polling' = FALSE
      BY <2>2 DEF PlayerChanges
    <3>2. polling' \in BOOLEAN /\ ~polling'
      BY <3>1, Zenon
    <3>3. QED
      BY <3>1, <3>2, CaptionsAssumption
  <2>3. QED
    BY <2>1, <2>2
<1>5. /\ playable' \in BOOLEAN /\ available' \in BOOLEAN /\ missed' \in BOOLEAN
      /\ polling' => playable' /\ asks' < MaxAsks
      /\ ~available' /\ captionsOn' \in BOOLEAN
  BY <1>1, <1>2, <1>4, Zenon
<1>6. CaptionsTypeOK' /\ OnlyDrivableAsked'
  BY <1>2, <1>3, <1>4, <1>5, Zenon DEF CaptionsTypeOK, OnlyDrivableAsked
<1>7. ~inSight'.tracks
  BY <1>3, NewPlayerType, Zenon
<1>8. QED
  BY <1>5, <1>6, <1>7, Zenon DEF CaptionsIInv, CaptionsSound, CaptionsAsChosen, TracksFound

LEMMA PlayerReadyKeeps ==
    ASSUME CaptionsIInv, PlayerReady
    PROVE  CaptionsIInv'
<1> DEFINE p == AfterAsk(inSight)
<1>1. CaptionsTypeOK /\ captionsOn \in BOOLEAN /\ inSight.tracks \in BOOLEAN
  BY DEF CaptionsIInv, CaptionsTypeOK, PlayerInSight
<1>2. /\ ~playable /\ playable' = TRUE /\ available' = inSight.tracks
      /\ inSight' = Told(p, captionsOn, available', playable')
      /\ captionsOn' = captionsOn /\ missed' = missed /\ players' = players
  BY <1>1, AfterAskKeeps, Zenon DEF PlayerReady, hasCaptions
<1>3. playable' \in BOOLEAN /\ playable' # playable
  BY <1>2, Zenon
<1>4. /\ inSight' \in PlayerInSight /\ inSight'.tracks = inSight.tracks
      /\ inSight.tracks => inSight'.captioned = captionsOn
  <2>1. inSight' = setCaptionsEnabled(p, captionsOn)
    BY <1>2, <1>3, Zenon DEF Told
  <2>2. QED
    BY <1>1, <2>1, ToldShows, AfterAskKeeps
<1>5. /\ asks' \in 0..(MaxAsks + 1) /\ polling' \in BOOLEAN
      /\ polling' => asks' < MaxAsks
  <2>1. asks' = 1 /\ polling' = (~hasCaptions(p) /\ 1 < MaxAsks)
    BY DEF PlayerReady, StartPoll
  <2>2. polling' \in BOOLEAN /\ (polling' => 1 < MaxAsks)
    BY <2>1, Zenon
  <2>3. QED
    BY <2>1, <2>2, CaptionsAssumption
<1>6. CaptionsTypeOK' /\ OnlyDrivableAsked'
  BY <1>1, <1>2, <1>3, <1>4, <1>5, Zenon DEF CaptionsTypeOK, OnlyDrivableAsked
<1>7. QED
  BY <1>2, <1>4, <1>6, Zenon DEF CaptionsIInv, CaptionsSound, CaptionsAsChosen, TracksFound

LEMMA TracksArriveKeeps ==
    ASSUME CaptionsIInv, TracksArrive
    PROVE  CaptionsIInv'
<1>1. /\ ~inSight.tracks /\ missed' = ~polling
      /\ inSight' = [inSight EXCEPT !.tracks = TRUE]
      /\ UNCHANGED <<playable, available, captionsOn, asks, polling, players>>
  BY DEF TracksArrive
<1>2. CaptionsTypeOK'
  BY <1>1 DEF CaptionsIInv, CaptionsTypeOK, PlayerInSight
<1>3. OnlyDrivableAsked'
  BY <1>1 DEF CaptionsIInv, OnlyDrivableAsked
<1>4. ~available
  BY <1>1 DEF CaptionsIInv, CaptionsSound, CaptionsAsChosen
<1>5. QED
  BY <1>1, <1>2, <1>3, <1>4, Zenon
     DEF CaptionsIInv, CaptionsSound, CaptionsAsChosen, TracksFound

LEMMA PollKeeps ==
    ASSUME CaptionsIInv, Poll
    PROVE  CaptionsIInv'
<1> DEFINE p == AfterAsk(inSight)
<1>1. /\ CaptionsTypeOK /\ captionsOn \in BOOLEAN /\ inSight.tracks \in BOOLEAN
      /\ playable \in BOOLEAN /\ polling => playable
  BY DEF CaptionsIInv, CaptionsTypeOK, PlayerInSight, OnlyDrivableAsked
<1>2. /\ polling /\ playable /\ available' = inSight.tracks
      /\ inSight' = Told(p, captionsOn, available', playable)
      /\ polling' = (~available' /\ asks' < MaxAsks)
      /\ playable' = playable /\ captionsOn' = captionsOn /\ missed' = missed
      /\ players' = players
  <2>1. available' = inSight.tracks
    BY <1>1, AfterAskKeeps DEF Poll, hasCaptions
  <2>2. /\ polling /\ polling' = (~available' /\ asks' < MaxAsks)
        /\ inSight' = Told(p, captionsOn, available', playable)
        /\ playable' = playable /\ captionsOn' = captionsOn /\ missed' = missed
        /\ players' = players
    BY Zenon DEF Poll
  <2>3. playable
    BY Zenon DEF Poll, CaptionsIInv, OnlyDrivableAsked
  <2> HIDE DEF p
  <2>4. QED
    BY <2>1, <2>2, <2>3, Zenon
<1>3. asks' \in 0..(MaxAsks + 1)
  BY CaptionsAssumption DEF Poll, CaptionsIInv, CaptionsTypeOK, OnlyDrivableAsked
<1>4. /\ polling' \in BOOLEAN /\ polling' => asks' < MaxAsks
  BY <1>2, Zenon
<1>5. /\ inSight' \in PlayerInSight /\ inSight'.tracks = inSight.tracks
      /\ inSight.tracks /\ available' # available => inSight'.captioned = captionsOn
      /\ available' = available => inSight' = p
  <2>1. /\ inSight' = p \/ inSight' = setCaptionsEnabled(p, captionsOn)
        /\ available' # available => inSight' = setCaptionsEnabled(p, captionsOn)
        /\ available' = available => inSight' = p
    BY <1>2, Zenon DEF Told
  <2>2. QED
    BY <1>1, <2>1, ToldShows, AfterAskKeeps
<1>6. inSight.tracks => inSight'.captioned = captionsOn
  <2>1. ASSUME inSight.tracks, available' = available
        PROVE  inSight'.captioned = captionsOn
    <3>1. available
      <4>1. inSight.tracks = TRUE /\ available' = inSight.tracks
        BY <1>1, <1>2, <2>1
      <4>2. available = TRUE
        BY <2>1, <4>1
      <4>3. QED
        BY <4>2, Zenon
    <3>2. QED
      BY <1>1, <1>5, <2>1, <3>1, AfterAskKeeps, Zenon
         DEF CaptionsIInv, CaptionsSound, CaptionsAsChosen
  <2>2. QED
    BY <1>5, <2>1
<1>7. CaptionsTypeOK' /\ OnlyDrivableAsked'
  BY <1>1, <1>2, <1>3, <1>4, <1>5, Zenon DEF CaptionsTypeOK, OnlyDrivableAsked
<1>8. QED
  BY <1>2, <1>5, <1>6, <1>7, Zenon DEF CaptionsIInv, CaptionsSound, CaptionsAsChosen, TracksFound

LEMMA ToggleCaptionsKeeps ==
    ASSUME CaptionsIInv, ToggleCaptions
    PROVE  CaptionsIInv'
<1> DEFINE p == AfterAsk(inSight)
<1>1. /\ CaptionsTypeOK /\ captionsOn \in BOOLEAN
  BY DEF CaptionsIInv, CaptionsTypeOK
<1>2. /\ captionsOn' = ~captionsOn /\ inSight' = Told(p, captionsOn', available, playable)
      /\ playable' = playable /\ available' = available /\ asks' = asks
      /\ polling' = polling /\ missed' = missed /\ players' = players
  BY Zenon DEF ToggleCaptions
<1>3. captionsOn' \in BOOLEAN /\ captionsOn' # captionsOn
  BY <1>1, <1>2
<1>4. /\ inSight' \in PlayerInSight /\ inSight'.tracks = inSight.tracks
      /\ inSight.tracks => inSight'.captioned = captionsOn'
  <2>1. inSight' = setCaptionsEnabled(p, captionsOn')
    BY <1>2, <1>3, Zenon DEF Told
  <2>2. QED
    BY <1>1, <1>3, <2>1, ToldShows, AfterAskKeeps
<1>5. CaptionsTypeOK' /\ OnlyDrivableAsked'
  BY <1>1, <1>2, <1>3, <1>4, Zenon DEF CaptionsTypeOK, OnlyDrivableAsked, CaptionsIInv
<1>6. QED
  BY <1>2, <1>4, <1>5, Zenon DEF CaptionsIInv, CaptionsSound, CaptionsAsChosen, TracksFound

(* Where the button is offered, the player on the page has subtitles and    *)
(* shows them exactly if the user wants them, and tracks that came before   *)
(* the last ask are offered, for any number of asks and of players that     *)
(* replace one another (the captions effects of EnhancedVideoPlayer).       *)
THEOREM CaptionsSafety == CaptionsSpec => []CaptionsSound
<1>1. ASSUME CaptionsIInv, [CaptionsNext]_captionVars PROVE CaptionsIInv'
  <2>1. CASE CaptionsNext
    BY <1>1, <2>1, PlayerChangesKeeps, PlayerReadyKeeps, TracksArriveKeeps, PollKeeps,
       ToggleCaptionsKeeps DEF CaptionsNext
  <2>2. CASE UNCHANGED captionVars
    BY <1>1, <2>2
       DEF captionVars, CaptionsIInv, CaptionsTypeOK, OnlyDrivableAsked, CaptionsSound,
           CaptionsAsChosen, TracksFound
  <2>3. QED
    BY <1>1, <2>1, <2>2
<1>2. CaptionsIInv => CaptionsSound
  BY DEF CaptionsIInv
<1>3. QED
  BY <1>1, <1>2, CaptionsInitial, PTL DEF CaptionsSpec

-----------------------------------------------------------------------------
(* Presses.                                                                 *)

LEMMA GesturesInitial ==
    ASSUME GesturesInit
    PROVE  GesturesIInv
<1>1. EMPTY_STATUS \in Status
  BY GesturesAssumption DEF EMPTY_STATUS, NoPress, Status, Where
<1>2. canControl(me) \in BOOLEAN
  BY DEF GesturesInit, canControl
<1>3. GesturesTypeOK
  <2>1. ready \in BOOLEAN /\ FALSE \in BOOLEAN
    BY Zenon DEF GesturesInit
  <2>2. 0 \in Where
    BY GesturesAssumption DEF Where
  <2>3. QED
    BY <1>1, <1>2, <2>1, <2>2 DEF GesturesInit, GesturesTypeOK
<1>4. QED
  BY <1>3 DEF GesturesInit, GesturesIInv, BoundIsCurrent, PressesSound, TogglesWhatIsShown,
              OnlyWithTheRemote, ActsOnWhatIsShown, NoPress

(* After a render, the listener's has what its keys ask for.                *)
LEMMA RenderedKeeps ==
    ASSUME GesturesIInv, Rendered, press' = press,
           me' \in [isHost : BOOLEAN, allowGuestControl : BOOLEAN,
                    controllerId : {"me", "other", "none"}],
           tl' \in [known : BOOLEAN, playing : BOOLEAN, at : Where],
           ready' \in BOOLEAN, status' \in Status
    PROVE  GesturesIInv'
<1>1. /\ Render' \in [status : Status, can : BOOLEAN, ready : BOOLEAN]
      /\ Render'.status = status' /\ Render'.can = canControl(me)' /\ Render'.ready = ready'
  BY DEF Render, canControl
<1>2. /\ bound' = Render' \/ bound' = bound
      /\ bound' = bound => /\ status'.playing = bound.status.playing
                           /\ canControl(me)' = bound.can /\ ready' = bound.ready
  BY <1>1 DEF Rendered, Rebinds
<1>3. GesturesTypeOK'
  BY <1>1, <1>2 DEF GesturesIInv, GesturesTypeOK
<1>4. BoundIsCurrent'
  BY <1>1, <1>2 DEF BoundIsCurrent
<1>5. QED
  BY <1>3, <1>4 DEF GesturesIInv, PressesSound, TogglesWhatIsShown, OnlyWithTheRemote,
                    ActsOnWhatIsShown

(* A command that is about what is shown, by whoever may give it.           *)
LEMMA SendIntentKeeps ==
    ASSUME GesturesIInv, NEW how, NEW intent, NEW at, sendIntent(how, intent, at),
           canControl(me),
           intent \in {"play", "pause"} =>
             intent = IF status.playing THEN "pause" ELSE "play",
           how \in {"button", "bar"} =>
             /\ intent = "play" /\ status.known => at = status.projected
             /\ intent = "seek" => at \in 0..status.duration
    PROVE  GesturesIInv'
<1>1. /\ UNCHANGED <<me, tl, ready, status, bound>>
      /\ press' = [how |-> how, intent |-> intent, at |-> at, shown |-> status,
                   allowed |-> canControl(me)]
  BY DEF sendIntent
<1>2. GesturesTypeOK' /\ BoundIsCurrent'
  BY <1>1 DEF GesturesIInv, GesturesTypeOK, BoundIsCurrent, canControl
<1>3. QED
  BY <1>1, <1>2 DEF GesturesIInv, PressesSound, TogglesWhatIsShown, OnlyWithTheRemote,
                    ActsOnWhatIsShown

LEMMA HandlePlayPauseKeeps ==
    ASSUME GesturesIInv, NEW how, NEW r, handlePlayPause(how, r), r.can = canControl(me),
           r.status.playing = status.playing, how = "button" => r.status = status, how # "bar"
    PROVE  GesturesIInv'
<1>1. CASE r.status.playing
  <2>1. PICK frame \in Where : sendIntent(how, "pause", frame)
    BY <1>1 DEF handlePlayPause
  <2>2. canControl(me)
    BY DEF handlePlayPause
  <2>3. QED
    BY <1>1, <2>1, <2>2, SendIntentKeeps
<1>2. CASE ~r.status.playing
  <2>1. PICK frame \in Where :
          sendIntent(how, "play", IF r.status.known THEN r.status.projected ELSE frame)
    BY <1>2 DEF handlePlayPause
  <2>2. canControl(me)
    BY DEF handlePlayPause
  <2>3. QED
    BY <1>2, <2>1, <2>2, SendIntentKeeps
<1>3. QED
  BY <1>1, <1>2

LEMMA SeekByKeeps ==
    ASSUME GesturesIInv, NEW how, NEW r, NEW delta \in {-SkipStep, SkipStep},
           seekBy(how, r, delta), r.can = canControl(me), how = "bar" => r.status = status,
           how # "button"
    PROVE  GesturesIInv'
<1>1. canControl(me) /\ sendIntent(how, "seek", Clamp(r, r.status.projected + delta))
  BY DEF seekBy
<1>2. how = "bar" => Clamp(r, r.status.projected + delta) \in 0..status.duration
  BY GesturesAssumption DEF Clamp, GesturesIInv, GesturesTypeOK, Status, Where
<1>3. QED
  BY <1>1, <1>2, SendIntentKeeps

LEMMA ProgressClickKeeps ==
    ASSUME GesturesIInv, NEW at \in Where, handleProgressClick(Render, at)
    PROVE  GesturesIInv'
<1>1. canControl(me) /\ status.duration # 0 /\ sendIntent("bar", "seek", at)
  BY DEF handleProgressClick, Render
<1>2. at \in 0..status.duration
  BY <1>1 DEF GesturesIInv, GesturesTypeOK, Status, Where
<1>3. QED
  BY <1>1, <1>2, SendIntentKeeps

(* A press does what the page offers, and only with the remote, however     *)
(* long ago the key's listener was installed and wherever the room moves in *)
(* the meantime, for any video and any skip (the keydown effect,            *)
(* handlePlayPause, seekBy, handleProgressClick).                           *)
THEOREM PressesSafety == GesturesSpec => []PressesSound
<1>1. ASSUME GesturesIInv, [GesturesNext]_gestureVars PROVE GesturesIInv'
  <2>1. ASSUME NEW next \in [known : {TRUE}, playing : BOOLEAN, at : Where], RoomMoves(next)
        PROVE  GesturesIInv'
    <3>1. tl' \in [known : BOOLEAN, playing : BOOLEAN, at : Where]
      BY <2>1 DEF RoomMoves
    <3>2. GesturesTypeOK' /\ BoundIsCurrent'
      BY <1>1, <2>1, <3>1
         DEF RoomMoves, GesturesIInv, GesturesTypeOK, BoundIsCurrent, canControl
    <3>3. QED
      BY <1>1, <2>1, <3>2 DEF RoomMoves, GesturesIInv, PressesSound, TogglesWhatIsShown,
                              OnlyWithTheRemote, ActsOnWhatIsShown
  <2>2. ASSUME emitStatus PROVE GesturesIInv'
    <3>1. status' \in Status
      BY <1>1, <2>2 DEF emitStatus, Status, GesturesIInv, GesturesTypeOK
    <3>2. QED
      BY <1>1, <2>2, <3>1, RenderedKeeps DEF emitStatus, GesturesIInv, GesturesTypeOK
  <2>3. ASSUME AdapterChanges PROVE GesturesIInv'
    BY <1>1, <2>3, RenderedKeeps DEF AdapterChanges, GesturesIInv, GesturesTypeOK
  <2>4. ASSUME NEW who \in {"me", "other"}, onController(who) PROVE GesturesIInv'
    <3>1. me' \in [isHost : BOOLEAN, allowGuestControl : BOOLEAN,
                   controllerId : {"me", "other", "none"}]
      BY <1>1, <2>4 DEF onController, GesturesIInv, GesturesTypeOK
    <3>2. QED
      BY <1>1, <2>4, <3>1, RenderedKeeps DEF onController, GesturesIInv, GesturesTypeOK
  <2>5. ASSUME AllowGuests PROVE GesturesIInv'
    <3>1. me' \in [isHost : BOOLEAN, allowGuestControl : BOOLEAN,
                   controllerId : {"me", "other", "none"}]
      BY <1>1, <2>5 DEF AllowGuests, GesturesIInv, GesturesTypeOK
    <3>2. QED
      BY <1>1, <2>5, <3>1, RenderedKeeps DEF AllowGuests, GesturesIInv, GesturesTypeOK
  <2>6. /\ Render.can = canControl(me) /\ Render.status = status
        /\ bound.can = canControl(me) /\ bound.status.playing = status.playing
    BY <1>1 DEF Render, GesturesIInv, BoundIsCurrent
  <2>7. ASSUME handlePlayPause("button", Render) PROVE GesturesIInv'
    BY <1>1, <2>6, <2>7, HandlePlayPauseKeeps
  <2>8. ASSUME NEW at \in Where, handleProgressClick(Render, at) PROVE GesturesIInv'
    BY <1>1, <2>8, ProgressClickKeeps
  <2>9. ASSUME handleProgressKeyDown(Render) PROVE GesturesIInv'
    <3>1. 0 \in Where /\ Render.status.duration \in Where
      BY <1>1, <2>6, GesturesAssumption DEF Where, GesturesIInv, GesturesTypeOK, Status
    <3>2. QED
      BY <1>1, <2>6, <2>9, <3>1, SeekByKeeps, ProgressClickKeeps DEF handleProgressKeyDown
  <2>10. ASSUME onKey(bound) PROVE GesturesIInv'
    BY <1>1, <2>6, <2>10, HandlePlayPauseKeeps, SeekByKeeps DEF onKey
  <2>11. CASE UNCHANGED gestureVars
    <3>1. GesturesTypeOK' /\ BoundIsCurrent'
      BY <1>1, <2>11 DEF gestureVars, GesturesIInv, GesturesTypeOK, BoundIsCurrent, canControl
    <3>2. QED
      BY <1>1, <2>11, <3>1 DEF gestureVars, GesturesIInv, PressesSound, TogglesWhatIsShown,
                               OnlyWithTheRemote, ActsOnWhatIsShown
  <2>12. QED
    BY <1>1, <2>1, <2>2, <2>3, <2>4, <2>5, <2>7, <2>8, <2>9, <2>10, <2>11 DEF GesturesNext
<1>2. GesturesIInv => PressesSound
  BY DEF GesturesIInv
<1>3. QED
  BY <1>1, <1>2, GesturesInitial, PTL DEF GesturesSpec

-----------------------------------------------------------------------------
(* Media sources.                                                           *)

(* Of all inputs, in all the combinations of what the rules look at, only a *)
(* bare id or an http(s) URL plays, and what REST admits has a mount or is  *)
(* the sentinel (classifyMediaSource, isAcceptableVideoUrl).                *)
THEOREM OnlyHttpIsPlayed ==
    ASSUME input \in Inputs
    PROVE  OnlyHttpPlays
BY DEF OnlyHttpPlays, classifyMediaSource, IsRoomVideoUrl, isAcceptableVideoUrl, None, Plays

-----------------------------------------------------------------------------
(* Sessions: the tabs of one browser, what they share, and their sockets.   *)

(* Tokens are only ever minted.                                             *)
Extends(ow, ow2) ==
    Len(ow) <= Len(ow2) /\ \A i \in 1..Len(ow) : ow2[i] = ow[i]

LEMMA MintExtends ==
    ASSUME NEW ow \in Seq(People), NEW p \in People, Len(ow) < MaxTokens
    PROVE  /\ Append(ow, p) \in Seq(People) /\ Len(Append(ow, p)) = Len(ow) + 1
           /\ Append(ow, p)[Len(ow) + 1] = p
           /\ Extends(ow, Append(ow, p)) /\ Len(ow) + 1 \in Token
BY WebAssumption DEF Extends, Token

LEMMA ExtendsKeepsOwner ==
    ASSUME NEW ow \in Seq(People), NEW ow2 \in Seq(People), Extends(ow, ow2),
           NEW u, u # NoUser => u.tok \in Nat, OwnsIt(u, ow)
    PROVE  OwnsIt(u, ow2)
BY DEF OwnsIt, Extends

LEMMA ExtendsKeepsRequest ==
    ASSUME NEW ow \in Seq(People), NEW ow2 \in Seq(People), Extends(ow, ow2),
           NEW ref, NEW ref2, ref \subseteq ref2, NEW r \in Request, RequestSound(r, ow, ref)
    PROVE  RequestSound(r, ow2, ref2)
<1> DEFINE n == Len(ow)
           m == Len(ow2)
<1>1. n \in Nat /\ m \in Nat /\ n <= m /\ \A i \in 1..n : ow2[i] = ow[i]
  BY DEF Extends
<1>2. r.sent \in 0..n /\ r.tok \in Token \cup {0}
  BY DEF RequestSound, Request
<1>3. r.st = "ok" /\ r.do \in Signs \cup Adopts => r.tok \in 1..n /\ ow[r.tok] = r.id
  BY DEF RequestSound
<1>4. r.st = "no" /\ r.sent # 0 => r.sent \in ref2
  BY DEF RequestSound
<1> HIDE DEF n, m
<1>5. r.sent \in 0..m
  BY <1>1, <1>2
<1>6. r.st = "ok" /\ r.do \in Signs \cup Adopts => r.tok \in 1..m /\ ow2[r.tok] = r.id
  BY <1>1, <1>3
<1>7. QED
  BY <1>4, <1>5, <1>6 DEF RequestSound, m

LEMMA ExtendsKeepsTab ==
    ASSUME NEW ow \in Seq(People), NEW ow2 \in Seq(People), Extends(ow, ow2),
           NEW ref, NEW ref2, ref \subseteq ref2, NEW k, TabSound(k, ow, ref)
    PROVE  TabSound(k, ow2, ref2)
<1>1. k.elev \in 0..Len(ow2)
  BY DEF TabSound, Extends
<1>2. \A r \in k.out : RequestSound(r, ow2, ref2)
  BY ExtendsKeepsRequest DEF TabSound, Tab
<1>3. QED
  BY <1>1, <1>2 DEF TabSound

LEMMA ExtendsKeepsUser ==
    ASSUME NEW ow \in Seq(People), NEW ow2 \in Seq(People), Extends(ow, ow2),
           NEW k \in Tab, UserSound(k, ow)
    PROVE  UserSound(k, ow2)
BY ExtendsKeepsOwner DEF UserSound, Tab, User, Token

(* One tab changes, tokens may be minted and refused.                       *)
LEMMA TabChanges ==
    ASSUME WebIInv, NEW t \in Tabs, NEW k, tab' = [tab EXCEPT ![t] = k],
           ServerSound(owner', live', refused'), Extends(owner, owner'), refused \subseteq refused',
           TabSound(k, owner', refused'), UserSound(k, owner'),
           StoreSound(stored', news', owner'), signed' \in Nat, late' = FALSE,
           scope' \in [tabs : SUBSET Tabs, asks : SUBSET Asks, n : Nat, blips : Nat, emits : Nat]
    PROVE  WebIInv'
<1>1. tab' \in [Tabs -> Tab]
  BY DEF WebIInv, TabSound
<1>2. ASSUME NEW o \in Tabs
      PROVE  TabSound(tab'[o], owner', refused') /\ UserSound(tab'[o], owner')
  <2>1. CASE o = t
    BY <2>1 DEF WebIInv
  <2>2. CASE o # t
    <3>1. tab'[o] = tab[o] /\ TabSound(tab[o], owner, refused) /\ UserSound(tab[o], owner)
          /\ tab[o] \in Tab
      BY <2>2 DEF WebIInv
    <3>2. owner \in Seq(People) /\ owner' \in Seq(People)
      BY DEF WebIInv, ServerSound
    <3>3. QED
      BY <3>1, <3>2, ExtendsKeepsTab, ExtendsKeepsUser
  <2>3. QED
    BY <2>1, <2>2
<1>3. QED
  BY <1>1, <1>2 DEF WebIInv

LEMMA ExtendsReflexive ==
    ASSUME NEW ow \in Seq(People)
    PROVE  Extends(ow, ow)
BY DEF Extends

LEMMA StoreExtends ==
    ASSUME NEW ow \in Seq(People), NEW ow2 \in Seq(People), Extends(ow, ow2),
           NEW st, NEW ns, StoreSound(st, ns, ow)
    PROVE  StoreSound(st, ns, ow2)
<1>1. \A u \in User \cup {NoUser} : OwnsIt(u, ow) => OwnsIt(u, ow2)
  BY ExtendsKeepsOwner DEF User, Token
<1>2. \A t \in Tabs : \A i \in 1..Len(ns[t]) : ns[t][i] \in User \cup {NoUser}
  BY DEF StoreSound
<1>3. QED
  BY <1>1, <1>2 DEF StoreSound

(* The server has done nothing; the tab has changed to k.                   *)
LEMMA TabOnlyChanges ==
    ASSUME WebIInv, NEW t \in Tabs, NEW k, tab' = [tab EXCEPT ![t] = k], UNCHANGED serverVars,
           TabSound(k, owner, refused), UserSound(k, owner),
           StoreSound(stored', news', owner), signed' \in Nat, late' = FALSE,
           scope' \in [tabs : SUBSET Tabs, asks : SUBSET Asks, n : Nat, blips : Nat, emits : Nat]
    PROVE  WebIInv'
<1>1. /\ owner' = owner /\ live' = live /\ refused' = refused
      /\ owner \in Seq(People) /\ ServerSound(owner, live, refused)
  BY DEF serverVars, WebIInv, ServerSound
<1>2. Extends(owner, owner)
  BY <1>1, ExtendsReflexive
<1>3. QED
  BY <1>1, <1>2, TabChanges

(* setUser: the socket is the new user's, and a new one has no buffer.      *)
LEMMA SetUserSound ==
    ASSUME NEW ow, NEW ref, NEW k, TabSound(k, ow, ref),
           NEW u \in User \cup {NoUser}, OwnsIt(u, ow)
    PROVE  TabSound(setUser(k, u), ow, ref) /\ UserSound(setUser(k, u), ow)
<1> DEFINE tok == IF u = NoUser THEN 0 ELSE u.tok
           st == IF u = NoUser THEN "none" ELSE "retry"
<1>1. tok \in Token \cup {0} /\ (tok = 0 <=> u = NoUser) /\ k \in Tab
  BY WebAssumption DEF User, Token, TabSound
<1>2. CASE tok = k.sock
  <2>1. setUser(k, u) = [k EXCEPT !.user = u]
    BY <1>2 DEF setUser
  <2>2. QED
    BY <1>1, <1>2, <2>1 DEF TabSound, UserSound, Tab
<1>3. CASE tok # k.sock
  <2>1. setUser(k, u) = [k EXCEPT !.user = u, !.sock = tok, !.buf = {}, !.st = st]
    BY <1>3 DEF setUser
  <2>2. setUser(k, u) = [user |-> u, sock |-> tok, st |-> st, buf |-> {}, elev |-> k.elev,
                         out |-> k.out]
    BY <1>1, <2>1 DEF Tab
  <2>3. st \in {"none", "retry"} /\ (tok = 0 <=> st = "none")
    BY <1>1
  <2> HIDE DEF tok, st
  <2>4. setUser(k, u) \in Tab
    BY <1>1, <2>2, <2>3 DEF Tab
  <2>5. TabSound(setUser(k, u), ow, ref)
    BY <2>2, <2>3, <2>4 DEF TabSound
  <2>6. QED
    BY <2>2, <2>5 DEF UserSound, tok
<1>4. QED
  BY <1>2, <1>3

(* A change of localStorage is announced as it is.                          *)
LEMMA StoreKeeps ==
    ASSUME WebIInv, NEW t \in Tabs, NEW u \in User \cup {NoUser}, OwnsIt(u, owner), store(t, u)
    PROVE  StoreSound(stored', news', owner)
<1>1. /\ news \in [Tabs -> Seq(User \cup {NoUser})]
      /\ \A o \in Tabs : \A i \in 1..Len(news[o]) : OwnsIt(news[o][i], owner)
  BY DEF WebIInv, StoreSound
<1>2. ASSUME NEW o \in Tabs
      PROVE  /\ news'[o] \in Seq(User \cup {NoUser})
             /\ \A i \in 1..Len(news'[o]) : OwnsIt(news'[o][i], owner)
  <2>1. news'[o] = news[o] \/ news'[o] = Append(news[o], u)
    BY DEF store
  <2>2. CASE news'[o] = news[o]
    BY <1>1, <2>2
  <2>3. CASE news'[o] = Append(news[o], u)
    BY <1>1, <2>3
  <2>4. QED
    BY <2>1, <2>2, <2>3
<1>3. news' \in [Tabs -> Seq(User \cup {NoUser})]
  BY <1>2 DEF store
<1>4. QED
  BY <1>2, <1>3 DEF store, StoreSound

LEMMA WebInitial ==
    ASSUME Init
    PROVE  WebIInv
<1>1. 1 \in Token /\ NoUser \notin User
  BY WebAssumption DEF Token, User
<1>2. stored \in User \cup {NoUser}
  BY <1>1 DEF Init, User
<1>3. /\ ServerSound(owner, live, refused) /\ OwnsIt(stored, owner)
  <2>1. CASE stored = NoUser
    BY <2>1, WebAssumption DEF Init, ServerSound, OwnsIt
  <2>2. CASE stored # NoUser
    <3>1. PICK p \in People : stored = [id |-> p, tok |-> 1]
      BY <2>2 DEF Init
    <3>2. owner = <<p>> /\ live = {1} /\ refused = {}
      BY <2>2, <3>1 DEF Init
    <3>3. QED
      BY <3>1, <3>2, WebAssumption DEF ServerSound, OwnsIt
  <2>3. QED
    BY <2>1, <2>2
<1>4. StoreSound(stored, news, owner)
  BY <1>2, <1>3 DEF Init, StoreSound
<1> DEFINE k == [user |-> stored, sock |-> IF stored = NoUser THEN 0 ELSE stored.tok,
                 st |-> IF stored = NoUser THEN "none" ELSE "retry", buf |-> {},
                 elev |-> 0, out |-> {}]
<1>5. k \in Tab /\ TabSound(k, owner, refused) /\ UserSound(k, owner)
  <2>1. k.sock \in Token \cup {0} /\ (k.sock = 0 <=> stored = NoUser)
    BY <1>1, <1>2 DEF User, Token
  <2>2. k \in Tab
    BY <1>2, <2>1 DEF Tab
  <2>3. QED
    BY <1>3, <2>1, <2>2 DEF TabSound, UserSound, ServerSound
<1>6. tab = [t \in Tabs |-> k]
  BY DEF Init
<1>7. scope \in [tabs : SUBSET Tabs, asks : SUBSET Asks, n : Nat, blips : Nat, emits : Nat]
  BY WebAssumption DEF Init
<1>8. signed \in Nat /\ late = FALSE
  BY DEF Init
<1> HIDE DEF k
<1>9. QED
  BY <1>3, <1>4, <1>5, <1>6, <1>7, <1>8 DEF WebIInv

-----------------------------------------------------------------------------
(* The steps of a tab, one by one.                                          *)

LEMMA ThisTab ==
    ASSUME WebIInv, NEW t \in Tabs
    PROVE  /\ tab[t] \in Tab /\ TabSound(tab[t], owner, refused) /\ UserSound(tab[t], owner)
           /\ owner \in Seq(People) /\ Len(owner) \in Nat /\ Len(owner) <= MaxTokens
           /\ signed \in Nat /\ late = FALSE
           /\ stored \in User \cup {NoUser} /\ OwnsIt(stored, owner)
           /\ StoreSound(stored, news, owner)
           /\ scope \in [tabs : SUBSET Tabs, asks : SUBSET Asks, n : Nat, blips : Nat,
                         emits : Nat]
BY WebAssumption DEF WebIInv, ServerSound, StoreSound

(* The tab keeps its user; its requests, elevation or buffer change.        *)
LEMMA OutSound ==
    ASSUME NEW ow, NEW ref, NEW k, TabSound(k, ow, ref), UserSound(k, ow),
           NEW out \in SUBSET Request, \A r \in out : RequestSound(r, ow, ref)
    PROVE  TabSound([k EXCEPT !.out = out], ow, ref) /\ UserSound([k EXCEPT !.out = out], ow)
BY DEF TabSound, UserSound, Tab

LEMMA ElevSound ==
    ASSUME NEW ow \in Seq(People), Len(ow) <= MaxTokens, NEW ref, NEW k, TabSound(k, ow, ref),
           UserSound(k, ow), NEW e \in 0..Len(ow)
    PROVE  TabSound([k EXCEPT !.elev = e], ow, ref) /\ UserSound([k EXCEPT !.elev = e], ow)
<1>1. e \in Token \cup {0}
  BY WebAssumption DEF Token
<1>2. QED
  BY <1>1 DEF TabSound, UserSound, Tab

LEMMA NewRequestSound ==
    ASSUME NEW ow \in Seq(People), Len(ow) <= MaxTokens, NEW ref, NEW do \in Asks \ {"elevated"},
           NEW sent \in 0..Len(ow), NEW p \in People
    PROVE  /\ NewRequest(do, sent, p) \in Request
           /\ RequestSound(NewRequest(do, sent, p), ow, ref)
<1>1. sent \in Token \cup {0}
  BY WebAssumption DEF Token
<1>2. NewRequest(do, sent, p) \in Request
  BY <1>1 DEF NewRequest, Request
<1>3. QED
  BY <1>2 DEF NewRequest, RequestSound

LEMMA SendSpends ==
    ASSUME WebIInv, NEW t, NEW r, Send(t, r)
    PROVE  scope' \in [tabs : SUBSET Tabs, asks : SUBSET Asks, n : Nat, blips : Nat, emits : Nat]
BY DEF Send, WebIInv

LEMMA OnStorageKeeps ==
    ASSUME WebIInv, NEW t \in Tabs, onStorage(t)
    PROVE  WebIInv'
<1> DEFINE next == Head(news[t])
           mine == tab[t].user
           k == IF next = NoUser \/ mine = NoUser THEN setUser(tab[t], next)
                ELSE IF mine.id = next.id THEN setUser(tab[t], next) ELSE tab[t]
<1>1. /\ news[t] # <<>> /\ news' = [news EXCEPT ![t] = Tail(news[t])]
      /\ tab' = [tab EXCEPT ![t] = k]
      /\ UNCHANGED serverVars /\ stored' = stored /\ signed' = signed /\ late' = late
      /\ scope' = scope
  BY DEF onStorage
<1>2. /\ news \in [Tabs -> Seq(User \cup {NoUser})]
      /\ \A o \in Tabs : \A i \in 1..Len(news[o]) : OwnsIt(news[o][i], owner)
  BY DEF WebIInv, StoreSound
<1>3. news[t] \in Seq(User \cup {NoUser}) /\ Len(news[t]) \in Nat \ {0}
  BY <1>1, <1>2
<1>4. next \in User \cup {NoUser} /\ OwnsIt(next, owner)
  BY <1>2, <1>3
<1>5. StoreSound(stored', news', owner)
  <2>1. Tail(news[t]) \in Seq(User \cup {NoUser}) /\ Len(Tail(news[t])) = Len(news[t]) - 1
        /\ \A i \in 1..Len(Tail(news[t])) : Tail(news[t])[i] = news[t][i + 1]
    BY <1>3
  <2>2. \A i \in 1..Len(Tail(news[t])) : OwnsIt(Tail(news[t])[i], owner)
    BY <1>2, <1>3, <2>1
  <2>3. news' \in [Tabs -> Seq(User \cup {NoUser})]
    BY <1>1, <1>2, <2>1
  <2>4. \A o \in Tabs : news'[o] = IF o = t THEN Tail(news[t]) ELSE news[o]
    BY <1>1, <1>2
  <2>5. ASSUME NEW o \in Tabs PROVE \A i \in 1..Len(news'[o]) : OwnsIt(news'[o][i], owner)
    <3>1. CASE o = t
      BY <2>2, <2>4, <3>1
    <3>2. CASE o # t
      BY <1>2, <2>4, <3>2
    <3>3. QED
      BY <3>1, <3>2
  <2>6. stored' \in User \cup {NoUser} /\ OwnsIt(stored', owner)
    BY <1>1, ThisTab
  <2>7. QED
    BY <2>3, <2>5, <2>6 DEF StoreSound
<1>6. TabSound(k, owner, refused) /\ UserSound(k, owner)
  BY <1>4, ThisTab, SetUserSound
<1> HIDE DEF k
<1>7. QED
  BY <1>1, <1>5, <1>6, ThisTab, TabOnlyChanges

LEMMA ReloadKeeps ==
    ASSUME WebIInv, NEW t \in Tabs, Reload(t)
    PROVE  WebIInv'
<1> DEFINE j == [tab[t] EXCEPT !.sock = 0, !.st = "none", !.buf = {}, !.out = {}]
           k == setUser(j, stored)
<1>1. /\ tab' = [tab EXCEPT ![t] = k]
      /\ news' = [news EXCEPT ![t] = <<>>]
      /\ UNCHANGED serverVars /\ stored' = stored /\ signed' = signed /\ late' = late
  BY DEF Reload
<1>2. scope' \in [tabs : SUBSET Tabs, asks : SUBSET Asks, n : Nat, blips : Nat, emits : Nat]
  BY DEF Reload, WebIInv
<1>3. StoreSound(stored', news', owner)
  <2>1. /\ news \in [Tabs -> Seq(User \cup {NoUser})]
        /\ \A o \in Tabs : \A i \in 1..Len(news[o]) : OwnsIt(news[o][i], owner)
    BY DEF WebIInv, StoreSound
  <2>2. <<>> \in Seq(User \cup {NoUser}) /\ Len(<<>>) = 0
    OBVIOUS
  <2>3. news' \in [Tabs -> Seq(User \cup {NoUser})]
    BY <1>1, <2>1, <2>2
  <2>4. \A o \in Tabs : news'[o] = IF o = t THEN <<>> ELSE news[o]
    BY <1>1, <2>1
  <2>5. ASSUME NEW o \in Tabs PROVE \A i \in 1..Len(news'[o]) : OwnsIt(news'[o][i], owner)
    <3>1. CASE o = t
      BY <2>2, <2>4, <3>1
    <3>2. CASE o # t
      BY <2>1, <2>4, <3>2
    <3>3. QED
      BY <3>1, <3>2
  <2>6. stored' \in User \cup {NoUser} /\ OwnsIt(stored', owner)
    BY <1>1, ThisTab
  <2>7. QED
    BY <2>3, <2>5, <2>6 DEF StoreSound
<1>4. TabSound(j, owner, refused)
  BY ThisTab DEF TabSound, Tab
<1>5. TabSound(k, owner, refused) /\ UserSound(k, owner)
  <2> HIDE DEF j
  <2>1. QED
    BY <1>4, ThisTab, SetUserSound
<1> HIDE DEF k, j
<1>6. QED
  BY <1>1, <1>2, <1>3, <1>5, ThisTab, TabOnlyChanges

(* A token is minted for p, and with it nothing else of the server changes. *)
LEMMA MintSound ==
    ASSUME WebIInv, NEW p \in People, Len(owner) < MaxTokens, owner' = Append(owner, p),
           NEW ends, live' = (live \ ends) \cup {Len(owner) + 1},
           refused' \subseteq 1..Len(owner)
    PROVE  /\ ServerSound(owner', live', refused') /\ Extends(owner, owner')
           /\ owner \in Seq(People) /\ owner' \in Seq(People)
           /\ Len(owner') = Len(owner) + 1 /\ owner'[Len(owner) + 1] = p
<1> DEFINE n == Len(owner)
<1>1. /\ owner \in Seq(People) /\ n \in Nat /\ live \subseteq 1..n /\ n < MaxTokens
      /\ live' = (live \ ends) \cup {n + 1} /\ refused' \subseteq 1..n
  BY DEF WebIInv, ServerSound
<1>2. owner' \in Seq(People) /\ Len(owner') = n + 1 /\ Extends(owner, owner') /\ owner'[n + 1] = p
  BY <1>1, MintExtends
<1> HIDE DEF n
<1>3. live' \subseteq 1..(n + 1) /\ refused' \subseteq 1..(n + 1) /\ n + 1 <= MaxTokens
  <2>1. MaxTokens \in Nat
    BY WebAssumption
  <2>2. n + 1 <= MaxTokens
    BY <1>1, <2>1
  <2>3. 1..n \subseteq 1..(n + 1) /\ n + 1 \in 1..(n + 1)
    BY <1>1
  <2>4. QED
    BY <1>1, <2>2, <2>3
<1>4. ServerSound(owner', live', refused')
  BY <1>2, <1>3 DEF ServerSound
<1>5. QED
  BY <1>1, <1>2, <1>4 DEF n

LEMMA LoginKeeps ==
    ASSUME WebIInv, NEW t \in Tabs, NEW p \in People, login(t, p)
    PROVE  WebIInv'
<1> DEFINE r == NewRequest("login", 0, p)
           out == tab[t].out \cup {r}
           k == [tab[t] EXCEPT !.out = out]
<1>1. /\ tab' = [tab EXCEPT ![t] = k]
      /\ UNCHANGED serverVars /\ stored' = stored /\ news' = news /\ signed' = signed
      /\ late' = late
  BY DEF login, storeVars
<1>2. scope' \in [tabs : SUBSET Tabs, asks : SUBSET Asks, n : Nat, blips : Nat, emits : Nat]
  BY SendSpends DEF login
<1>3. r \in Request /\ RequestSound(r, owner, refused)
  <2>1. "login" \in Asks \ {"elevated"} /\ 0 \in 0..Len(owner)
    BY ThisTab DEF Asks, Signs
  <2>2. QED
    BY <2>1, ThisTab, NewRequestSound
<1>4. out \in SUBSET Request /\ \A q \in out : RequestSound(q, owner, refused)
  <2> HIDE DEF r
  <2>1. QED
    BY <1>3, ThisTab DEF TabSound, Tab
<1>5. TabSound(k, owner, refused) /\ UserSound(k, owner)
  <2> HIDE DEF out
  <2>1. QED
    BY <1>4, ThisTab, OutSound
<1> HIDE DEF k
<1>6. QED
  BY <1>1, <1>2, <1>5, ThisTab, TabOnlyChanges

LEMMA SignInWithTokenKeeps ==
    ASSUME WebIInv, NEW t \in Tabs, NEW p \in People, signInWithToken(t, p)
    PROVE  WebIInv'
<1> DEFINE n == Len(owner) + 1
           r == NewRequest("me", n, p)
           out == tab[t].out \cup {r}
           k == [tab[t] EXCEPT !.out = out]
<1>1. /\ Len(owner) < MaxTokens /\ owner' = Append(owner, p) /\ live' = live \cup {n}
      /\ tab' = [tab EXCEPT ![t] = k]
      /\ refused' = refused /\ stored' = stored /\ news' = news /\ signed' = signed
      /\ late' = late
  BY DEF signInWithToken, storeVars
<1>2. scope' \in [tabs : SUBSET Tabs, asks : SUBSET Asks, n : Nat, blips : Nat, emits : Nat]
  BY SendSpends DEF signInWithToken
<1>3. /\ ServerSound(owner', live', refused') /\ Extends(owner, owner')
      /\ owner \in Seq(People) /\ owner' \in Seq(People)
      /\ Len(owner') = n
  <2>1. live' = (live \ {}) \cup {n} /\ refused' \subseteq 1..Len(owner)
    BY <1>1 DEF WebIInv, ServerSound
  <2>2. QED
    BY <1>1, <2>1, MintSound
<1>4. r \in Request /\ RequestSound(r, owner', refused')
  <2>1. n \in 0..Len(owner') /\ Len(owner') <= MaxTokens
    BY <1>3, ThisTab DEF ServerSound
  <2> HIDE DEF n
  <2>2. QED
    BY <1>3, <2>1, NewRequestSound DEF Asks, Signs
<1>5. /\ TabSound(tab[t], owner', refused') /\ UserSound(tab[t], owner')
      /\ StoreSound(stored', news', owner')
  BY <1>1, <1>3, ThisTab, ExtendsKeepsTab, ExtendsKeepsUser, StoreExtends
<1>6. out \in SUBSET Request /\ \A q \in out : RequestSound(q, owner', refused')
  <2> HIDE DEF r
  <2>1. QED
    BY <1>4, <1>5 DEF TabSound, Tab
<1>7. TabSound(k, owner', refused') /\ UserSound(k, owner')
  <2> HIDE DEF out
  <2>1. QED
    BY <1>5, <1>6, OutSound
<1> HIDE DEF k
<1>8. QED
  BY <1>1, <1>2, <1>3, <1>5, <1>7, ThisTab, TabChanges

LEMMA AuthCallbackElevatedKeeps ==
    ASSUME WebIInv, NEW t \in Tabs, AuthCallbackElevated(t)
    PROVE  WebIInv'
<1> DEFINE n == Len(owner) + 1
           k == [tab[t] EXCEPT !.elev = n]
<1>1. /\ stored # NoUser /\ Len(owner) < MaxTokens /\ owner' = Append(owner, stored.id)
      /\ live' = live \cup {n} /\ tab' = [tab EXCEPT ![t] = k]
      /\ refused' = refused /\ stored' = stored /\ news' = news /\ signed' = signed
      /\ late' = late
  BY DEF AuthCallbackElevated, storeVars
<1>2. scope' \in [tabs : SUBSET Tabs, asks : SUBSET Asks, n : Nat, blips : Nat, emits : Nat]
  BY SendSpends DEF AuthCallbackElevated
<1>3. /\ ServerSound(owner', live', refused') /\ Extends(owner, owner')
      /\ owner \in Seq(People) /\ owner' \in Seq(People) /\ Len(owner') = n
  <2>1. /\ live' = (live \ {}) \cup {n} /\ refused' \subseteq 1..Len(owner)
        /\ stored.id \in People
    BY <1>1, ThisTab DEF WebIInv, ServerSound, User
  <2>2. QED
    BY <1>1, <2>1, MintSound
<1>4. n \in 0..Len(owner') /\ Len(owner') <= MaxTokens
  BY <1>3, ThisTab DEF ServerSound
<1>5. /\ TabSound(tab[t], owner', refused') /\ UserSound(tab[t], owner')
      /\ StoreSound(stored', news', owner')
  BY <1>1, <1>3, ThisTab, ExtendsKeepsTab, ExtendsKeepsUser, StoreExtends
<1>6. TabSound(k, owner', refused') /\ UserSound(k, owner')
  <2> HIDE DEF n
  <2>1. QED
    BY <1>3, <1>4, <1>5, ElevSound
<1> HIDE DEF k
<1>7. QED
  BY <1>1, <1>2, <1>3, <1>5, <1>6, ThisTab, TabChanges

LEMMA AskKeeps ==
    ASSUME WebIInv, NEW t \in Tabs, NEW do \in {"claim", "refresh", "setPassword", "room"},
           Ask(t, do)
    PROVE  WebIInv'
<1> DEFINE sent == IF do = "setPassword" /\ tab[t].elev # 0 THEN tab[t].elev ELSE readStoredToken
           r == NewRequest(do, sent, tab[t].user.id)
           out == tab[t].out \cup {r}
           k == [tab[t] EXCEPT !.out = out]
<1>1. /\ tab[t].user # NoUser /\ tab' = [tab EXCEPT ![t] = k]
      /\ UNCHANGED serverVars /\ stored' = stored /\ news' = news /\ signed' = signed
      /\ late' = late
  BY DEF Ask, storeVars
<1>2. scope' \in [tabs : SUBSET Tabs, asks : SUBSET Asks, n : Nat, blips : Nat, emits : Nat]
  BY SendSpends DEF Ask
<1>3. r \in Request /\ RequestSound(r, owner, refused)
  <2>1. readStoredToken \in 0..Len(owner) /\ tab[t].elev \in 0..Len(owner)
    <3>1. /\ Len(owner) \in Nat /\ stored # NoUser => stored.tok \in 1..Len(owner)
          /\ tab[t].elev \in 0..Len(owner)
      BY ThisTab DEF OwnsIt, TabSound
    <3>2. QED
      BY <3>1 DEF readStoredToken
  <2>2. sent \in 0..Len(owner)
    BY <2>1
  <2>3. tab[t].user.id \in People
    BY <1>1, ThisTab DEF Tab, User
  <2>4. do \in Asks \ {"elevated"}
    BY DEF Asks, Signs, Adopts
  <2> HIDE DEF sent
  <2>5. QED
    BY <2>2, <2>3, <2>4, ThisTab, NewRequestSound
<1>4. out \in SUBSET Request /\ \A q \in out : RequestSound(q, owner, refused)
  <2> HIDE DEF r
  <2>1. QED
    BY <1>3, ThisTab DEF TabSound, Tab
<1>5. TabSound(k, owner, refused) /\ UserSound(k, owner)
  <2> HIDE DEF out
  <2>1. QED
    BY <1>4, ThisTab, OutSound
<1> HIDE DEF k
<1>6. QED
  BY <1>1, <1>2, <1>5, ThisTab, TabOnlyChanges

LEMMA LogoutKeeps ==
    ASSUME WebIInv, NEW t \in Tabs, NEW do \in Ends, logout(t, do)
    PROVE  WebIInv'
<1> DEFINE r == NewRequest(do, 0, tab[t].user.id)
           j == setUser(tab[t], NoUser)
           out == tab[t].out \cup {r}
           k == [j EXCEPT !.out = out]
<1>1. /\ tab[t].user # NoUser /\ tab' = [tab EXCEPT ![t] = k] /\ store(t, NoUser)
      /\ UNCHANGED serverVars /\ signed' = signed + 1 /\ late' = late
  BY DEF logout
<1>2. scope' \in [tabs : SUBSET Tabs, asks : SUBSET Asks, n : Nat, blips : Nat, emits : Nat]
  BY SendSpends DEF logout
<1>3. r \in Request /\ RequestSound(r, owner, refused)
  <2>1. tab[t].user.id \in People
    BY <1>1, ThisTab DEF Tab, User
  <2>2. do \in Asks \ {"elevated"}
    BY DEF Asks, Ends
  <2>3. 0 \in 0..Len(owner)
    BY ThisTab
  <2>4. QED
    BY <2>1, <2>2, <2>3, ThisTab, NewRequestSound
<1>4. NoUser \in User \cup {NoUser} /\ OwnsIt(NoUser, owner)
  BY DEF OwnsIt
<1>5. TabSound(j, owner, refused) /\ UserSound(j, owner)
  BY <1>4, ThisTab, SetUserSound
<1>6. StoreSound(stored', news', owner)
  BY <1>1, <1>4, StoreKeeps
<1> HIDE DEF j
<1>7. out \in SUBSET Request /\ \A q \in out : RequestSound(q, owner, refused)
  <2> HIDE DEF r
  <2>1. QED
    BY <1>3, ThisTab DEF TabSound, Tab
<1>8. TabSound(k, owner, refused) /\ UserSound(k, owner)
  <2> HIDE DEF out
  <2>1. QED
    BY <1>5, <1>7, OutSound
<1>9. signed' \in Nat /\ late' = FALSE
  <2>1. signed \in Nat /\ late = FALSE
    BY DEF WebIInv
  <2>2. signed' = signed + 1 /\ late' = late
    BY <1>1
  <2>3. QED
    BY <2>1, <2>2
<1> HIDE DEF k
<1>10. QED
  BY <1>1, <1>2, <1>6, <1>8, <1>9, TabOnlyChanges

(* What an answer to r says: one that mints a token names its owner, one    *)
(* that hands out another hands out its owner's.                            *)
AnswerSound(o, r) ==
    /\ o.r \in Request /\ o.r.sent = r.sent /\ o.r.do = r.do /\ o.r.st \in {"ok", "no"}
    /\ o.mints => Len(owner) < MaxTokens /\ o.r.id \in People /\ o.r.tok = Len(owner) + 1
    /\ o.r.st = "ok" /\ r.do \in Signs \cup Adopts /\ ~o.mints =>
         o.r.tok \in 1..Len(owner) /\ owner[o.r.tok] = o.r.id

LEMMA RefuseAnswers ==
    ASSUME NEW r \in Request
    PROVE  AnswerSound([r |-> Refuse(r), ends |-> {}, mints |-> FALSE], r)
<1>1. /\ Refuse(r) \in Request /\ Refuse(r).sent = r.sent /\ Refuse(r).do = r.do
      /\ Refuse(r).st = "no"
  BY DEF Refuse, Request
<1> DEFINE o == [r |-> Refuse(r), ends |-> {}, mints |-> FALSE]
<1>2. o.r = Refuse(r)
  OBVIOUS
<1>3. ~o.mints
  BY Zenon
<1> HIDE DEF o
<1>4. AnswerSound(o, r)
  BY <1>1, <1>2, <1>3 DEF AnswerSound
<1>5. QED
  BY <1>4 DEF o

LEMMA GrantAnswers ==
    ASSUME NEW r \in Request, NEW p \in People, NEW k \in Token \cup {0}, NEW ends,
           r.do \in Signs \cup Adopts => k \in 1..Len(owner) /\ owner[k] = p
    PROVE  AnswerSound([r |-> Grant(r, p, k), ends |-> ends, mints |-> FALSE], r)
<1> DEFINE o == [r |-> Grant(r, p, k), ends |-> ends, mints |-> FALSE]
<1>1. /\ Grant(r, p, k) \in Request /\ Grant(r, p, k).sent = r.sent
      /\ Grant(r, p, k).do = r.do /\ Grant(r, p, k).st = "ok"
      /\ Grant(r, p, k).id = p /\ Grant(r, p, k).tok = k
  BY DEF Grant, Request
<1>2. o.r = Grant(r, p, k)
  OBVIOUS
<1>3. ~o.mints
  BY Zenon
<1> HIDE DEF o
<1>4. AnswerSound(o, r)
  BY <1>1, <1>2, <1>3 DEF AnswerSound
<1>5. QED
  BY <1>4 DEF o

LEMMA MintAnswers ==
    ASSUME NEW r \in Request, NEW p \in People, NEW ends, Len(owner) \in Nat,
           Len(owner) < MaxTokens
    PROVE  AnswerSound([r |-> Grant(r, p, Len(owner) + 1), ends |-> ends, mints |-> TRUE], r)
<1> DEFINE k == Len(owner) + 1
           o == [r |-> Grant(r, p, k), ends |-> ends, mints |-> TRUE]
<1>1. k \in Token
  BY WebAssumption DEF Token
<1> HIDE DEF k
<1>2. /\ Grant(r, p, k) \in Request /\ Grant(r, p, k).sent = r.sent
      /\ Grant(r, p, k).do = r.do /\ Grant(r, p, k).st = "ok"
      /\ Grant(r, p, k).id = p /\ Grant(r, p, k).tok = k
  BY <1>1 DEF Grant, Request
<1>3. o.r = Grant(r, p, k)
  OBVIOUS
<1>4. o.mints
  BY Zenon
<1> HIDE DEF o
<1>5. AnswerSound(o, r)
  BY <1>2, <1>3, <1>4 DEF AnswerSound, k
<1>6. QED
  BY <1>5 DEF o, k

LEMMA OutcomeSound ==
    ASSUME WebIInv, NEW r \in Request, RequestSound(r, owner, refused), NEW o \in Outcome(r)
    PROVE  AnswerSound(o, r)
<1> DEFINE k == Len(owner) + 1
           p == owner[r.sent]
           refuse == {[r |-> Refuse(r), ends |-> {}, mints |-> FALSE]}
<1>1. \A a \in refuse : AnswerSound(a, r)
  BY RefuseAnswers
<1>2. ASSUME NEW q \in People, NEW ends, Len(owner) < MaxTokens
      PROVE  AnswerSound([r |-> Grant(r, q, k), ends |-> ends, mints |-> TRUE], r)
  BY <1>2, MintAnswers DEF WebIInv, ServerSound
<1>3. CASE r.do = "login"
  <2>1. r.id \in People
    BY DEF Request
  <2>2. o \in refuse \/ /\ Len(owner) < MaxTokens
                        /\ o = [r |-> Grant(r, r.id, k), ends |-> {}, mints |-> TRUE]
    BY <1>3 DEF Outcome
  <2> HIDE DEF k, refuse
  <2>3. QED
    BY <1>1, <1>2, <2>1, <2>2
<1>4. CASE r.do # "login" /\ r.sent \notin live
  <2>1. o \in refuse
    BY <1>4 DEF Outcome
  <2>2. QED
    BY <1>1, <2>1
<1>5. CASE r.do # "login" /\ r.sent \in live
  <2>1. r.sent \in 1..Len(owner) /\ r.sent \in Token \cup {0} /\ p \in People
    <3>1. owner \in Seq(People) /\ r.sent \in 1..Len(owner)
      BY <1>5 DEF WebIInv, ServerSound
    <3>2. QED
      BY <3>1 DEF Request
  <2>2. CASE r.do \in {"me", "room"}
    <3>1. o = [r |-> Grant(r, p, r.sent), ends |-> {}, mints |-> FALSE]
      BY <1>5, <2>2 DEF Outcome, Ends
    <3>2. QED
      BY <2>1, <3>1, GrantAnswers
  <2>3. CASE r.do \in Ends
    <3>1. o = [r |-> Grant(r, p, 0), mints |-> FALSE,
               ends |-> IF r.do = "logout" THEN {r.sent} ELSE OwnedBy(p)]
      BY <1>5, <2>3 DEF Outcome, Ends
    <3>2. r.do \notin Signs \cup Adopts
      BY <2>3 DEF Ends, Signs, Adopts
    <3> DEFINE ends == IF r.do = "logout" THEN {r.sent} ELSE OwnedBy(p)
    <3>3. AnswerSound([r |-> Grant(r, p, 0), ends |-> ends, mints |-> FALSE], r)
      BY <2>1, <3>2, GrantAnswers
    <3>4. QED
      BY <3>1, <3>3
  <2>4. CASE r.do \in {"refresh", "claim", "setPassword"}
    <3>1. o \in refuse \/ /\ Len(owner) < MaxTokens
                          /\ \E ends : o = [r |-> Grant(r, p, k), ends |-> ends, mints |-> TRUE]
      <4>1. CASE r.do = "refresh"
        BY <1>5, <4>1 DEF Outcome, Ends
      <4>2. CASE r.do = "claim"
        BY <1>5, <4>2 DEF Outcome, Ends
      <4>3. CASE r.do = "setPassword"
        BY <1>5, <4>3 DEF Outcome, Ends
      <4>4. QED
        BY <2>4, <4>1, <4>2, <4>3
    <3> HIDE DEF k, refuse, p
    <3>2. QED
      BY <1>1, <1>2, <2>1, <3>1
  <2>5. QED
    BY <1>5, <2>2, <2>3, <2>4 DEF Request, Asks, Signs, Adopts, Ends
<1>6. QED
  BY <1>3, <1>4, <1>5

LEMMA ServeKeeps ==
    ASSUME WebIInv, NEW t \in Tabs, NEW r \in tab[t].out, Serve(t, r)
    PROVE  WebIInv'
<1>1. r \in Request /\ RequestSound(r, owner, refused)
  BY ThisTab DEF TabSound, Tab
<1>2. PICK o \in Outcome(r) :
        /\ tab' = [tab EXCEPT ![t].out = (tab[t].out \ {r}) \cup {o.r}]
        /\ owner' = IF o.mints THEN Append(owner, o.r.id) ELSE owner
        /\ live' = (live \ o.ends) \cup (IF o.mints THEN {o.r.tok} ELSE {})
        /\ refused' = IF o.r.st = "no" /\ r.sent # 0 THEN refused \cup {r.sent} ELSE refused
  BY DEF Serve
<1>3. /\ stored' = stored /\ news' = news /\ signed' = signed /\ late' = late
      /\ scope' = scope
  BY DEF Serve, storeVars
<1>4. AnswerSound(o, r)
  BY <1>1, OutcomeSound
<1> DEFINE a == o.r
           out == (tab[t].out \ {r}) \cup {a}
           k == [tab[t] EXCEPT !.out = out]
<1>5. tab' = [tab EXCEPT ![t] = k]
  BY <1>2
<1>6. refused \subseteq refused' /\ refused' \subseteq 1..Len(owner)
  <2>1. refused \subseteq 1..Len(owner) /\ Len(owner) \in Nat /\ r.sent \in 0..Len(owner)
    BY <1>1, ThisTab DEF WebIInv, ServerSound, RequestSound
  <2>2. QED
    BY <1>2, <2>1
<1>7. /\ ServerSound(owner', live', refused') /\ Extends(owner, owner')
      /\ owner \in Seq(People) /\ owner' \in Seq(People)
      /\ o.mints => Len(owner') = Len(owner) + 1 /\ owner'[Len(owner) + 1] = a.id
      /\ ~o.mints => owner' = owner
  <2>1. CASE o.mints
    <3>1. /\ Len(owner) < MaxTokens /\ a.id \in People /\ a.tok = Len(owner) + 1
      BY <1>4, <2>1 DEF AnswerSound
    <3>2. owner' = Append(owner, a.id) /\ live' = (live \ o.ends) \cup {Len(owner) + 1}
      BY <1>2, <2>1, <3>1
    <3> HIDE DEF a
    <3>3. QED
      BY <1>6, <2>1, <3>1, <3>2, MintSound
  <2>2. CASE ~o.mints
    <3>1. owner' = owner /\ live' = live \ o.ends
      BY <1>2, <2>2
    <3>2. QED
      BY <1>6, <2>2, <3>1, ThisTab, ExtendsReflexive DEF WebIInv, ServerSound
  <2>3. QED
    BY <2>1, <2>2
<1>8. a \in Request /\ RequestSound(a, owner', refused')
  <2>1. a \in Request /\ a.sent = r.sent /\ a.do = r.do /\ a.st \in {"ok", "no"}
    BY <1>4 DEF AnswerSound
  <2>2. a.sent \in 0..Len(owner')
    <3>1. r.sent \in 0..Len(owner)
      BY <1>1 DEF RequestSound
    <3>2. Len(owner) \in Nat /\ Len(owner') \in Nat /\ Len(owner) <= Len(owner')
      BY <1>7 DEF Extends
    <3>3. QED
      BY <2>1, <3>1, <3>2
  <2>3. a.st = "ok" /\ a.do \in Signs \cup Adopts =>
          a.tok \in 1..Len(owner') /\ owner'[a.tok] = a.id
    <3>1. CASE o.mints
      <4>1. a.tok = Len(owner) + 1 /\ Len(owner) \in Nat
        BY <1>4, <3>1, ThisTab DEF AnswerSound
      <4>2. QED
        BY <1>7, <3>1, <4>1
    <3>2. CASE ~o.mints
      BY <1>4, <1>7, <2>1, <3>2 DEF AnswerSound
    <3>3. QED
      BY <3>1, <3>2
  <2>4. a.st = "no" /\ a.sent # 0 => a.sent \in refused'
    BY <1>2, <2>1
  <2> HIDE DEF a
  <2>5. QED
    BY <2>1, <2>2, <2>3, <2>4 DEF RequestSound
<1>9. /\ TabSound(tab[t], owner', refused') /\ UserSound(tab[t], owner')
      /\ StoreSound(stored', news', owner')
  BY <1>3, <1>6, <1>7, ThisTab, ExtendsKeepsTab, ExtendsKeepsUser, StoreExtends
<1> HIDE DEF a
<1>10. out \in SUBSET Request /\ \A q \in out : RequestSound(q, owner', refused')
  BY <1>8, <1>9 DEF TabSound, Tab
<1>11. TabSound(k, owner', refused') /\ UserSound(k, owner')
  <2> HIDE DEF out
  <2>1. QED
    BY <1>9, <1>10, OutSound
<1> HIDE DEF k
<1>12. QED
  BY <1>3, <1>5, <1>6, <1>7, <1>9, <1>11, ThisTab, TabChanges

(* An answer has been handled: the request is forgotten.                    *)
LEMMA AnsweredSound ==
    ASSUME WebIInv, NEW t \in Tabs, NEW r
    PROVE  /\ TabSound([tab[t] EXCEPT !.out = tab[t].out \ {r}], owner, refused)
           /\ UserSound([tab[t] EXCEPT !.out = tab[t].out \ {r}], owner)
<1> DEFINE out == tab[t].out \ {r}
<1>1. out \in SUBSET Request /\ \A q \in out : RequestSound(q, owner, refused)
  BY ThisTab DEF TabSound, Tab
<1> HIDE DEF out
<1>2. TabSound([tab[t] EXCEPT !.out = out], owner, refused)
      /\ UserSound([tab[t] EXCEPT !.out = out], owner)
  BY <1>1, ThisTab, OutSound
<1>3. QED
  BY <1>2 DEF out

LEMMA SignedInKeeps ==
    ASSUME WebIInv, NEW t \in Tabs, NEW r, SignedIn(t, r), UNCHANGED <<serverVars, late, scope>>,
           NEW u \in User, u = [id |-> r.id, tok |-> r.tok], OwnsIt(u, owner)
    PROVE  WebIInv'
<1> DEFINE j == [tab[t] EXCEPT !.out = tab[t].out \ {r}]
           k == setUser(j, u)
<1>1. /\ tab' = [tab EXCEPT ![t] = k] /\ store(t, u) /\ signed' = signed + 1
      /\ UNCHANGED serverVars /\ late' = late /\ scope' = scope
  BY DEF SignedIn
<1>2. TabSound(j, owner, refused)
  BY AnsweredSound
<1> HIDE DEF j
<1>3. TabSound(k, owner, refused) /\ UserSound(k, owner)
  BY <1>2, SetUserSound
<1>4. StoreSound(stored', news', owner)
  BY <1>1, StoreKeeps
<1>5. signed \in Nat /\ late = FALSE
  BY ThisTab
<1>6. signed' \in Nat /\ late' = FALSE
  BY <1>1, <1>5
<1> HIDE DEF k
<1>7. QED
  BY <1>1, <1>3, <1>4, <1>6, ThisTab, TabOnlyChanges

LEMMA AdoptTokenKeeps ==
    ASSUME WebIInv, NEW t \in Tabs, NEW r, adoptToken(t, r), UNCHANGED <<serverVars, late, scope>>,
           NEW u \in User, u = [id |-> r.id, tok |-> r.tok], OwnsIt(u, owner)
    PROVE  WebIInv'
<1> DEFINE j == [tab[t] EXCEPT !.out = tab[t].out \ {r}]
           e == IF r.do = "setPassword" THEN [j EXCEPT !.elev = 0] ELSE j
           k == IF j.user # NoUser /\ j.user.id = r.id THEN setUser(e, u) ELSE e
<1>1. /\ tab' = [tab EXCEPT ![t] = k] /\ signed' = signed
      /\ IF stored # NoUser /\ stored.id = r.id THEN store(t, u) ELSE UNCHANGED storeVars
      /\ UNCHANGED serverVars /\ late' = late /\ scope' = scope
  BY DEF adoptToken
<1>2. TabSound(j, owner, refused) /\ UserSound(j, owner)
  BY AnsweredSound
<1> HIDE DEF j
<1>3. TabSound(e, owner, refused) /\ UserSound(e, owner)
  <2>1. 0 \in 0..Len(owner)
    BY ThisTab
  <2>2. QED
    BY <1>2, <2>1, ThisTab, ElevSound
<1> HIDE DEF e
<1>4. TabSound(k, owner, refused) /\ UserSound(k, owner)
  BY <1>3, SetUserSound
<1>5. StoreSound(stored', news', owner)
  BY <1>1, ThisTab, StoreKeeps DEF storeVars
<1> HIDE DEF k
<1>6. QED
  BY <1>1, <1>4, <1>5, ThisTab, TabOnlyChanges

(* What an answer hands out is a user.                                      *)
LEMMA HandedOut ==
    ASSUME WebIInv, NEW t \in Tabs, NEW r \in tab[t].out, r.st = "ok", r.do \in Signs \cup Adopts
    PROVE  /\ [id |-> r.id, tok |-> r.tok] \in User
           /\ OwnsIt([id |-> r.id, tok |-> r.tok], owner)
<1>1. r \in Request /\ RequestSound(r, owner, refused)
  BY ThisTab DEF TabSound, Tab
<1>2. r.tok \in 1..Len(owner) /\ owner[r.tok] = r.id /\ r.id \in People
  BY <1>1 DEF RequestSound, Request
<1>3. r.tok \in Token
  <2>1. MaxTokens \in Nat /\ Len(owner) \in Nat /\ Len(owner) <= MaxTokens
    BY ThisTab, WebAssumption
  <2>2. QED
    BY <1>2, <2>1 DEF Token
<1>4. QED
  BY <1>2, <1>3 DEF OwnsIt, User

LEMMA GrantedKeeps ==
    ASSUME WebIInv, NEW t \in Tabs, NEW r \in tab[t].out, Granted(t, r)
    PROVE  WebIInv'
<1> DEFINE u == [id |-> r.id, tok |-> r.tok]
<1>1. r.st = "ok"
  BY DEF Granted
<1>2. UNCHANGED <<serverVars, late, scope>>
  BY DEF Granted
<1>3. r.do \in Signs \cup Adopts => u \in User /\ OwnsIt(u, owner)
  BY <1>1, HandedOut
<1>4. CASE r.do \in Signs
  <2>1. SignedIn(t, r)
    BY <1>4 DEF Granted, Signs, Adopts
  <2>2. QED
    BY <1>2, <1>3, <1>4, <2>1, SignedInKeeps
<1>5. CASE r.do \in Adopts
  <2>1. adoptToken(t, r)
    BY <1>5 DEF Granted, Signs, Adopts
  <2>2. QED
    BY <1>2, <1>3, <1>5, <2>1, AdoptTokenKeeps
<1>6. CASE r.do \notin Signs \cup Adopts
  <2> DEFINE k == [tab[t] EXCEPT !.out = tab[t].out \ {r}]
  <2>1. tab' = [tab EXCEPT ![t] = k] /\ UNCHANGED <<storeVars, signed>>
    BY <1>6 DEF Granted
  <2>2. TabSound(k, owner, refused) /\ UserSound(k, owner)
    BY AnsweredSound
  <2>3. /\ UNCHANGED serverVars /\ stored' = stored /\ news' = news /\ signed' = signed
        /\ late' = late /\ scope' = scope
    BY <1>2, <2>1 DEF storeVars
  <2> HIDE DEF k
  <2>4. QED
    BY <2>1, <2>2, <2>3, ThisTab, TabOnlyChanges
<1>7. QED
  BY <1>4, <1>5, <1>6

LEMMA RefusedKeeps ==
    ASSUME WebIInv, NEW t \in Tabs, NEW r \in tab[t].out, Refused(t, r)
    PROVE  WebIInv'
<1> DEFINE j == [tab[t] EXCEPT !.out = tab[t].out \ {r}]
           e == IF r.do = "setPassword" /\ r.sent = tab[t].elev THEN 0 ELSE tab[t].elev
           h == [tab[t] EXCEPT !.out = tab[t].out \ {r}, !.elev = e]
           k == IF MyTokenWasRefused(r) THEN setUser(h, NoUser) ELSE h
<1>1. /\ tab' = [tab EXCEPT ![t] = k]
      /\ store(t, NoUser) \/ UNCHANGED storeVars
      /\ UNCHANGED serverVars /\ signed' = signed /\ late' = late /\ scope' = scope
  BY DEF Refused
<1>2. TabSound(j, owner, refused) /\ UserSound(j, owner)
  BY AnsweredSound
<1>3. e \in 0..Len(owner)
  <2>1. tab[t].elev \in 0..Len(owner) /\ Len(owner) \in Nat
    BY ThisTab DEF TabSound
  <2>2. QED
    BY <2>1
<1>4. h = [j EXCEPT !.elev = e]
  <2> HIDE DEF e
  <2>1. tab[t] \in Tab
    BY ThisTab
  <2>2. QED
    BY <2>1 DEF Tab
<1> HIDE DEF j, e, h
<1>5. TabSound(h, owner, refused) /\ UserSound(h, owner)
  BY <1>2, <1>3, <1>4, ThisTab, ElevSound
<1>6. NoUser \in User \cup {NoUser} /\ OwnsIt(NoUser, owner)
  BY DEF OwnsIt
<1>7. TabSound(k, owner, refused) /\ UserSound(k, owner)
  BY <1>5, <1>6, SetUserSound
<1>8. StoreSound(stored', news', owner)
  BY <1>1, <1>6, ThisTab, StoreKeeps DEF storeVars
<1> HIDE DEF k
<1>9. QED
  BY <1>1, <1>7, <1>8, ThisTab, TabOnlyChanges

(* The socket's state and its buffer change; the socket stays the user's.   *)
Socket(k, st, buf) ==
    [user |-> k.user, sock |-> k.sock, st |-> st, buf |-> buf, elev |-> k.elev, out |-> k.out]

LEMMA SocketMoves ==
    ASSUME NEW k \in Tab, NEW st \in {"retry", "on", "half"}
    PROVE  [k EXCEPT !.st = st] = Socket(k, st, k.buf)
BY DEF Tab, Socket

LEMMA BufferChanges ==
    ASSUME NEW k \in Tab, NEW buf \in SUBSET {"control", "chat"}
    PROVE  [k EXCEPT !.buf = buf] = Socket(k, k.st, buf)
BY DEF Tab, Socket

LEMMA SocketChanges ==
    ASSUME NEW k \in Tab, NEW st \in {"retry", "on", "half"},
           NEW buf \in SUBSET {"control", "chat"}
    PROVE  [k EXCEPT !.st = st, !.buf = buf] = Socket(k, st, buf)
<1> DEFINE j == [k EXCEPT !.st = st]
<1>1. j = Socket(k, st, k.buf)
  BY SocketMoves
<1>2. j \in Tab
  BY DEF Tab
<1> HIDE DEF j
<1>3. [j EXCEPT !.buf = buf] = Socket(j, j.st, buf)
  BY <1>2, BufferChanges
<1>4. Socket(j, j.st, buf) = Socket(k, st, buf)
  BY <1>1 DEF Socket
<1>5. QED
  BY <1>3, <1>4 DEF j

LEMMA SocketSound ==
    ASSUME WebIInv, NEW t \in Tabs, NEW st \in {"retry", "on", "half"}, tab[t].st # "none",
           NEW buf \in SUBSET {"control", "chat"}, st # "half" => "control" \notin buf
    PROVE  /\ TabSound(Socket(tab[t], st, buf), owner, refused)
           /\ UserSound(Socket(tab[t], st, buf), owner)
<1>1. tab[t] \in Tab /\ TabSound(tab[t], owner, refused) /\ UserSound(tab[t], owner)
  BY ThisTab
<1>2. Socket(tab[t], st, buf) \in Tab
  BY <1>1 DEF Tab, Socket
<1>3. QED
  BY <1>1, <1>2 DEF TabSound, UserSound, Socket

LEMMA ConnectKeeps ==
    ASSUME WebIInv, NEW t \in Tabs, Connect(t)
    PROVE  WebIInv'
<1> DEFINE k == Socket(tab[t], "on", {})
<1>1. tab[t].st = "retry"
      /\ tab' = [tab EXCEPT ![t] = [tab[t] EXCEPT !.st = "on", !.buf = {}]]
      /\ UNCHANGED serverVars /\ stored' = stored /\ news' = news /\ signed' = signed
      /\ scope' = scope
  BY DEF Connect, storeVars, WebIInv
<1>5. tab' = [tab EXCEPT ![t] = k]
  <2>1. tab[t] \in Tab /\ {} \in SUBSET {"control", "chat"}
    BY ThisTab
  <2>2. [tab[t] EXCEPT !.st = "on", !.buf = {}] = k
    BY <2>1, SocketChanges, Zenon
  <2>3. QED
    BY <1>1, <2>2, Zenon
<1>2. TabSound(k, owner, refused) /\ UserSound(k, owner)
  BY <1>1, SocketSound
<1>3. late' = FALSE
  <2>1. "control" \notin tab[t].buf
    BY <1>1, ThisTab DEF TabSound
  <2>2. ~late'
    BY <2>1, ThisTab, Zenon DEF Connect
  <2>3. late' \in BOOLEAN
    BY Zenon DEF Connect
  <2>4. QED
    BY <2>2, <2>3
<1> HIDE DEF k
<1>4. QED
  BY <1>1, <1>2, <1>3, <1>5, ThisTab, TabOnlyChanges

LEMMA GoesHalfOpenKeeps ==
    ASSUME WebIInv, NEW t \in Tabs, GoesHalfOpen(t)
    PROVE  WebIInv'
<1> DEFINE k == Socket(tab[t], "half", tab[t].buf)
<1>1. tab[t].st = "on" /\ UNCHANGED serverVars /\ stored' = stored /\ news' = news
      /\ signed' = signed /\ late' = late
  BY DEF GoesHalfOpen, storeVars
<1>2. tab[t].buf \in SUBSET {"control", "chat"}
  BY ThisTab DEF Tab
<1>3. tab' = [tab EXCEPT ![t] = k]
  <2>1. [tab[t] EXCEPT !.st = "half"] = k
    BY ThisTab, SocketMoves
  <2>2. QED
    BY <2>1 DEF GoesHalfOpen
<1>4. TabSound(k, owner, refused) /\ UserSound(k, owner)
  BY <1>1, <1>2, SocketSound
<1>5. scope' \in [tabs : SUBSET Tabs, asks : SUBSET Asks, n : Nat, blips : Nat, emits : Nat]
  BY DEF GoesHalfOpen, WebIInv
<1> HIDE DEF k
<1>6. QED
  BY <1>1, <1>3, <1>4, <1>5, ThisTab, TabOnlyChanges

LEMMA OnDisconnectKeeps ==
    ASSUME WebIInv, NEW t \in Tabs, onDisconnect(t)
    PROVE  WebIInv'
<1> DEFINE buf == tab[t].buf \ {"control"}
           k == Socket(tab[t], "retry", buf)
<1>1. tab[t].st = "half"
      /\ tab' = [tab EXCEPT ![t] = [tab[t] EXCEPT !.st = "retry", !.buf = buf]]
      /\ UNCHANGED serverVars /\ stored' = stored /\ news' = news /\ signed' = signed
      /\ late' = late /\ scope' = scope
  BY DEF onDisconnect, storeVars, dropStaleControls, WebIInv
<1>2. buf \in SUBSET {"control", "chat"} /\ "control" \notin buf
  BY ThisTab DEF Tab
<1> HIDE DEF buf
<1>3. TabSound(k, owner, refused) /\ UserSound(k, owner)
  BY <1>1, <1>2, SocketSound
<1>4. tab' = [tab EXCEPT ![t] = k]
  <2>1. tab[t] \in Tab
    BY ThisTab
  <2>2. [tab[t] EXCEPT !.st = "retry", !.buf = buf] = k
    BY <1>2, <2>1, SocketChanges, Zenon
  <2>3. QED
    BY <1>1, <2>2, Zenon
<1> HIDE DEF k
<1>5. QED
  BY <1>1, <1>3, <1>4, ThisTab, TabOnlyChanges

LEMMA EmitKeeps ==
    ASSUME WebIInv, NEW t \in Tabs, NEW m \in {"control", "chat"}, Emit(t, m)
    PROVE  WebIInv'
<1> DEFINE buf == IF tab[t].st = "on" THEN tab[t].buf ELSE tab[t].buf \cup {m}
           k == Socket(tab[t], tab[t].st, buf)
<1>1. tab[t].st \in {"half", "on", "retry"} /\ (m = "control" => tab[t].st # "retry")
      /\ UNCHANGED serverVars /\ stored' = stored /\ news' = news /\ signed' = signed
      /\ late' = late
  BY DEF Emit, storeVars
<1>2. buf \in SUBSET {"control", "chat"} /\ (tab[t].st # "half" => "control" \notin buf)
  BY <1>1, ThisTab DEF Tab, TabSound
<1>3. tab' = [tab EXCEPT ![t] = k]
  <2>1. tab' = [tab EXCEPT ![t] = [tab[t] EXCEPT !.buf = buf]]
    BY DEF Emit
  <2> HIDE DEF buf
  <2>2. [tab[t] EXCEPT !.buf = buf] = k
    BY <1>2, ThisTab, BufferChanges
  <2>3. QED
    BY <2>1, <2>2
<1> HIDE DEF buf
<1>4. TabSound(k, owner, refused) /\ UserSound(k, owner)
  BY <1>1, <1>2, SocketSound
<1>5. scope' \in [tabs : SUBSET Tabs, asks : SUBSET Asks, n : Nat, blips : Nat, emits : Nat]
  BY DEF Emit, WebIInv
<1> HIDE DEF k
<1>6. QED
  BY <1>1, <1>3, <1>4, <1>5, ThisTab, TabOnlyChanges

LEMMA OnSessionEndedKeeps ==
    ASSUME WebIInv, NEW t \in Tabs, onSessionEnded(t)
    PROVE  WebIInv'
<1> DEFINE k == setUser(tab[t], NoUser)
<1>1. tab' = [tab EXCEPT ![t] = k]
      /\ UNCHANGED serverVars /\ stored' = stored /\ news' = news /\ signed' = signed
      /\ late' = late /\ scope' = scope
  BY DEF onSessionEnded, storeVars
<1>2. NoUser \in User \cup {NoUser} /\ OwnsIt(NoUser, owner)
  BY DEF OwnsIt
<1>3. TabSound(k, owner, refused) /\ UserSound(k, owner)
  BY <1>2, ThisTab, SetUserSound
<1> HIDE DEF k
<1>4. QED
  BY <1>1, <1>3, ThisTab, TabOnlyChanges

LEMMA WebStep ==
    ASSUME WebIInv, [Next]_vars
    PROVE  WebIInv'
<1>1. ASSUME Next PROVE WebIInv'
  <2>1. PICK t \in Tabs :
          \/ onStorage(t) \/ Reload(t) \/ AuthCallbackElevated(t)
          \/ \E p \in People : login(t, p) \/ signInWithToken(t, p)
          \/ \E do \in {"claim", "refresh", "setPassword", "room"} : Ask(t, do)
          \/ \E do \in Ends : logout(t, do)
          \/ \E r \in tab[t].out : Serve(t, r) \/ Granted(t, r) \/ Refused(t, r)
          \/ Connect(t) \/ GoesHalfOpen(t) \/ onDisconnect(t) \/ onSessionEnded(t)
          \/ \E m \in {"control", "chat"} : Emit(t, m)
    BY <1>1, Zenon DEF Next
  <2>2. QED
    BY <2>1, OnStorageKeeps, ReloadKeeps, AuthCallbackElevatedKeeps, LoginKeeps,
       SignInWithTokenKeeps, AskKeeps, LogoutKeeps, ServeKeeps, GrantedKeeps, RefusedKeeps,
       ConnectKeeps, GoesHalfOpenKeeps, OnDisconnectKeeps, OnSessionEndedKeeps, EmitKeeps
<1>2. CASE UNCHANGED vars
  BY <1>2 DEF vars, WebIInv
<1>3. QED
  BY <1>1, <1>2

-----------------------------------------------------------------------------
(* What follows for a session.                                              *)

(* Every token in a tab, in storage, in an announcement and in an answer    *)
(* not yet handled belongs to the person it is kept for, for any number of  *)
(* tabs and tokens: the strengthening (AuthContext, api.ts, SocketContext). *)
THEOREM WebInvariance == Spec => []WebIInv
BY WebInitial, WebStep, PTL DEF Spec

(* No answer to one person's request is merged onto another's session, a    *)
(* tab's socket is its user's, and no control given before a connection was *)
(* lost reaches the room after it is back (adoptToken, onStorage,           *)
(* dropStaleControls).                                                      *)
THEOREM WebSafety == Spec => []WebSound
<1>1. WebIInv => WebSound
  <2>1. ASSUME WebIInv PROVE TypeOK
    <3>1. /\ owner \in Seq(People) /\ Len(owner) <= MaxTokens
          /\ live \subseteq 1..Len(owner) /\ refused \subseteq 1..Len(owner)
          /\ stored \in User \cup {NoUser} /\ news \in [Tabs -> Seq(User \cup {NoUser})]
          /\ tab \in [Tabs -> Tab]
      BY <2>1 DEF WebIInv, ServerSound, StoreSound
    <3>2. \A t \in Tabs : /\ tab[t].sock = IF tab[t].user = NoUser THEN 0 ELSE tab[t].user.tok
                          /\ tab[t].sock = 0 <=> tab[t].st = "none"
      BY <2>1 DEF WebIInv, TabSound, UserSound
    <3>3. signed \in Nat /\ late \in BOOLEAN
      BY <2>1 DEF WebIInv
    <3>4. QED
      BY <3>1, <3>2, <3>3 DEF TypeOK
  <2>2. ASSUME WebIInv PROVE OneIdentity
    BY <2>2 DEF WebIInv, StoreSound, UserSound, OwnsIt, OneIdentity
  <2>3. ASSUME WebIInv PROVE NoLateControl
    BY <2>3 DEF WebIInv, NoLateControl
  <2>4. QED
    BY <2>1, <2>2, <2>3 DEF WebSound
<1>2. QED
  BY <1>1, WebInvariance, PTL

(* What is stored begins and ends by somebody's doing: only a sign-out or a *)
(* refusal of the very token stored removes it, only a sign-in puts one     *)
(* where there was none (MyTokenWasRefused, adoptToken).                    *)
LEMMA StoredStands ==
    ASSUME WebIInv, Next
    PROVE  /\ stored # NoUser /\ stored' = NoUser => signed' > signed \/ stored.tok \in refused
           /\ stored = NoUser /\ stored' # NoUser => signed' > signed
<1>1. signed \in Nat
  BY DEF WebIInv
<1>2. PICK t \in Tabs :
        \/ onStorage(t) \/ Reload(t) \/ AuthCallbackElevated(t)
        \/ \E p \in People : login(t, p) \/ signInWithToken(t, p)
        \/ \E do \in {"claim", "refresh", "setPassword", "room"} : Ask(t, do)
        \/ \E do \in Ends : logout(t, do)
        \/ \E r \in tab[t].out : Serve(t, r) \/ Granted(t, r) \/ Refused(t, r)
        \/ Connect(t) \/ GoesHalfOpen(t) \/ onDisconnect(t) \/ onSessionEnded(t)
        \/ \E m \in {"control", "chat"} : Emit(t, m)
  BY Zenon DEF Next
<1>3. CASE \E do \in Ends : logout(t, do)
  <2>1. signed' = signed + 1
    BY <1>3 DEF logout
  <2>2. QED
    BY <1>1, <2>1
<1>4. ASSUME NEW r \in tab[t].out, Granted(t, r)
      PROVE  \/ stored' = stored
             \/ signed' = signed + 1
             \/ stored # NoUser /\ stored' # NoUser
  <2>1. r.st = "ok"
    BY <1>4 DEF Granted
  <2>2. CASE r.do \in Signs
    <3>1. SignedIn(t, r)
      BY <1>4, <2>2 DEF Granted, Signs, Adopts
    <3>2. QED
      BY <3>1 DEF SignedIn
  <2>3. CASE r.do \in Adopts
    <3>1. adoptToken(t, r)
      BY <1>4, <2>3 DEF Granted, Signs, Adopts
    <3>2. stored' = stored \/ (stored # NoUser /\ stored' = [id |-> r.id, tok |-> r.tok])
      BY <3>1 DEF adoptToken, store, storeVars
    <3>3. [id |-> r.id, tok |-> r.tok] \in User /\ NoUser \notin User
      BY <2>1, <2>3, HandedOut, WebAssumption DEF User, Token
    <3>4. QED
      BY <3>2, <3>3
  <2>4. CASE r.do \notin Signs \cup Adopts
    BY <1>4, <2>4 DEF Granted, storeVars
  <2>5. QED
    BY <2>2, <2>3, <2>4
<1>5. ASSUME NEW r \in tab[t].out, Refused(t, r)
      PROVE  \/ stored' = stored
             \/ stored # NoUser /\ stored' = NoUser /\ stored.tok \in refused
  <2>1. CASE MyTokenWasRefused(r)
    <3>1. stored # NoUser /\ r.sent = stored.tok /\ stored' = NoUser /\ r.st = "no"
      BY <1>5, <2>1 DEF Refused, MyTokenWasRefused, store
    <3>2. stored.tok # 0
      <4>1. stored.tok \in 1..Len(owner) /\ Len(owner) \in Nat
        BY <3>1, ThisTab DEF OwnsIt
      <4>2. QED
        BY <4>1
    <3>3. r.sent \in refused
      BY <3>1, <3>2, ThisTab DEF TabSound, RequestSound
    <3>4. QED
      BY <3>1, <3>3
  <2>2. CASE ~MyTokenWasRefused(r)
    BY <1>5, <2>2 DEF Refused, storeVars
  <2>3. QED
    BY <2>1, <2>2
<1>7. CASE \E r \in tab[t].out : Granted(t, r)
  BY <1>1, <1>4, <1>7
<1>8. CASE \E r \in tab[t].out : Refused(t, r)
  BY <1>5, <1>8
<1>9. CASE \/ onStorage(t) \/ Reload(t) \/ AuthCallbackElevated(t)
           \/ \E p \in People : login(t, p) \/ signInWithToken(t, p)
           \/ \E do \in {"claim", "refresh", "setPassword", "room"} : Ask(t, do)
           \/ \E r \in tab[t].out : Serve(t, r)
           \/ Connect(t) \/ GoesHalfOpen(t) \/ onDisconnect(t) \/ onSessionEnded(t)
           \/ \E m \in {"control", "chat"} : Emit(t, m)
  <2>1. stored' = stored
    BY <1>9 DEF onStorage, Reload, AuthCallbackElevated, login, signInWithToken, Ask, Serve,
                Connect, GoesHalfOpen, onDisconnect, onSessionEnded, Emit, storeVars
  <2>2. QED
    BY <2>1
<1>10. QED
  BY <1>2, <1>3, <1>7, <1>8, <1>9

(* A session begins and ends by its own doing, in every step, whatever is   *)
(* under way in the other tabs (the interceptors, adoptToken).              *)
THEOREM SessionsStand == Spec => SessionStands
<1>1. WebIInv /\ [Next]_vars =>
        [stored # NoUser /\ stored' = NoUser => signed' > signed \/ stored.tok \in refused]_vars
  BY StoredStands
<1>2. WebIInv /\ [Next]_vars => [stored = NoUser /\ stored' # NoUser => signed' > signed]_vars
  BY StoredStands
<1>3. Spec => OnlyTheRefusedIsCleared
  BY <1>1, WebInvariance, PTL DEF Spec, OnlyTheRefusedIsCleared
<1>4. Spec => RefreshNeverSignsIn
  BY <1>2, WebInvariance, PTL DEF Spec, RefreshNeverSignsIn
<1>5. QED
  BY <1>3, <1>4 DEF SessionStands

-----------------------------------------------------------------------------
(* Ranks, for medians.                                                      *)

(* How many of S are before i, by R and by value and then place.            *)
RankIn(S, R, i) == Cardinality({j \in S : <<j, i>> \in R})
ValueRank(S, v, i) == Cardinality({j \in S : v[j] < v[i] \/ (v[j] = v[i] /\ j < i)})

(* In a finite set that R orders totally, every rank is somebody's.         *)
LEMMA RankAttained ==
    ASSUME NEW S, IsFiniteSet(S), NEW R,
           \A i \in S : <<i, i>> \notin R,
           \A i, j \in S : i # j => <<i, j>> \in R \/ <<j, i>> \in R,
           \A i, j, k \in S : <<i, j>> \in R /\ <<j, k>> \in R => <<i, k>> \in R,
           NEW k \in 0..(Cardinality(S) - 1)
    PROVE  \E i \in S : RankIn(S, R, i) = k
<1> DEFINE Below(i) == {j \in S : <<j, i>> \in R}
           n == Cardinality(S)
           rank == [i \in S |-> Cardinality(Below(i))]
           T == 0..(n - 1)
<1>1. n \in Nat
  BY FS_CardinalityType
<1>2. \A i \in S : Below(i) \in SUBSET (S \ {i})
  OBVIOUS
<1>3. ASSUME NEW i \in S PROVE IsFiniteSet(Below(i)) /\ Cardinality(Below(i)) \in T
  <2>1. IsFiniteSet(S \ {i}) /\ Cardinality(S \ {i}) = n - 1
    BY FS_RemoveElement
  <2>2. IsFiniteSet(Below(i)) /\ Cardinality(Below(i)) <= n - 1
    <3> HIDE DEF Below
    <3>1. QED
      BY <1>2, <2>1, FS_Subset
  <2>3. Cardinality(Below(i)) \in Nat
    BY <2>2, FS_CardinalityType
  <2>4. QED
    BY <1>1, <2>2, <2>3
<1>4. ASSUME NEW i \in S, NEW j \in S, <<i, j>> \in R
      PROVE  Cardinality(Below(i)) < Cardinality(Below(j))
  <2>1. Below(i) \in SUBSET Below(j)
    BY <1>4
  <2>2. i \in Below(j) /\ i \notin Below(i)
    BY <1>4
  <2>3. IsFiniteSet(Below(j))
    BY <1>3
  <2>4. Cardinality(Below(i)) <= Cardinality(Below(j)) /\ Cardinality(Below(j)) # Cardinality(Below(i))
    <3> HIDE DEF Below
    <3>1. QED
      BY <2>1, <2>2, <2>3, FS_Subset
  <2>5. Cardinality(Below(i)) \in T /\ Cardinality(Below(j)) \in T
    BY <1>3
  <2>6. QED
    BY <1>1, <2>4, <2>5
<1>5. rank \in Injection(S, T)
  <2>1. rank \in [S -> T]
    BY <1>3
  <2>2. ASSUME NEW i \in S, NEW j \in S, rank[i] = rank[j] PROVE i = j
    <3>1. Cardinality(Below(i)) = Cardinality(Below(j)) /\ Cardinality(Below(i)) \in Int
      BY <1>1, <1>3, <2>2
    <3>2. ~(<<i, j>> \in R) /\ ~(<<j, i>> \in R)
      BY <1>4, <3>1
    <3>3. QED
      BY <3>2
  <2>3. QED
    <3> HIDE DEF rank, T
    <3>1. QED
      BY <2>1, <2>2 DEF Injection, IsInjective
<1>6. IsFiniteSet(T) /\ Cardinality(T) = n
  BY <1>1, FS_Interval
<1>7. rank \in Surjection(S, T)
  <2> HIDE DEF rank, T
  <2>1. QED
    BY <1>5, <1>6, FS_Injection
<1>8. k \in T
  BY DEF T
<1>9. PICK i \in S : rank[i] = k
  <2> HIDE DEF rank, T
  <2>1. QED
    BY <1>7, <1>8 DEF Surjection
<1>10. QED
  BY <1>9 DEF RankIn

(* So every rank by value, then by place, is somebody's.                  *)
LEMMA RankByValue ==
    ASSUME NEW S \in SUBSET Int, IsFiniteSet(S), NEW v, \A i \in S : v[i] \in Int,
           NEW m \in 0..(Cardinality(S) - 1)
    PROVE  \E i \in S : ValueRank(S, v, i) = m
<1> DEFINE R == {p \in S \X S : v[p[1]] < v[p[2]] \/ (v[p[1]] = v[p[2]] /\ p[1] < p[2])}
<1>1. \A i, j \in S : <<i, j>> \in R <=> v[i] < v[j] \/ (v[i] = v[j] /\ i < j)
  OBVIOUS
<1>2. \A i \in S : {j \in S : <<j, i>> \in R} =
                     {j \in S : v[j] < v[i] \/ (v[j] = v[i] /\ j < i)}
  BY <1>1
<1> HIDE DEF R
<1>3. \A i \in S : <<i, i>> \notin R
  BY <1>1
<1>4. \A i, j \in S : i # j => <<i, j>> \in R \/ <<j, i>> \in R
  BY <1>1
<1>5. \A i, j, k \in S : <<i, j>> \in R /\ <<j, k>> \in R => <<i, k>> \in R
  <2>1. SUFFICES ASSUME NEW i \in S, NEW j \in S, NEW k \in S, <<i, j>> \in R, <<j, k>> \in R
                 PROVE  <<i, k>> \in R
    OBVIOUS
  <2>2. PICK a \in Int, b \in Int, c \in Int : a = v[i] /\ b = v[j] /\ c = v[k]
    OBVIOUS
  <2>3. a < b \/ (a = b /\ i < j)
    BY <1>1, <2>1, <2>2, Zenon
  <2>4. b < c \/ (b = c /\ j < k)
    BY <1>1, <2>1, <2>2, Zenon
  <2>5. a < c \/ (a = c /\ i < k)
    BY <2>3, <2>4
  <2>6. v[i] < v[k] \/ (v[i] = v[k] /\ i < k)
    BY <2>2, <2>5, Zenon
  <2>7. QED
    BY <1>1, <2>6
<1>6. \E i \in S : RankIn(S, R, i) = m
  BY <1>3, <1>4, <1>5, RankAttained
<1>7. QED
  BY <1>2, <1>6 DEF RankIn, ValueRank

(* The median of a window is one of its readings.                           *)
LEMMA MedianIsReading ==
    ASSUME NEW w \in Seq(Int), w # <<>>
    PROVE  Median(w) \in Int
<1> DEFINE S == DOMAIN w
           n == Len(w)
           m == n \div 2
<1>1. n \in Nat /\ n > 0 /\ S = 1..n
  OBVIOUS
<1>2. IsFiniteSet(S) /\ Cardinality(S) = n
  BY <1>1, FS_Interval
<1>3. S \in SUBSET Int /\ \A i \in S : w[i] \in Int
  BY <1>1
<1>4. m \in 0..(Cardinality(S) - 1)
  BY <1>1, <1>2
<1>5. \E i \in S : ValueRank(S, w, i) = m
  <2> HIDE DEF S, m
  <2>1. QED
    BY <1>2, <1>3, <1>4, RankByValue
<1>6. \E i \in S : Median(w) = w[i]
  BY <1>5 DEF Median, ValueRank
<1>7. QED
  BY <1>3, <1>6

-----------------------------------------------------------------------------
(* The controllers.                                                         *)

(* A controller over drifts D as the engine keeps it.                       *)
Ctl(D) == {c \in Controller(D) : Len(c.window) <= 2}

(* SeekAwaited of a controller, before or after its answer.                 *)
Awaits(c, room) ==
    c.since < COOLDOWN => c.st \in {"SEEKING", "SUSPENDED"} \/ room = "paused"

(* What an evaluation r of controller c is worth.                           *)
Answers(D, c, room, r) ==
    /\ r.c \in Ctl(D) /\ r.c.kind = c.kind /\ r.act \in Actions
    /\ r.c.st = "SUSPENDED" <=> c.st = "SUSPENDED"
    /\ c.st = "SUSPENDED" => r.act \in {"none", "clear-rate"}
    /\ Awaits(c, room) =>
         /\ r.act \in {"seek", "slow", "one", "fast"} => c.since >= COOLDOWN
         /\ Awaits(r.c, room)
    /\ r.act = "seek" => Awaits(r.c, room) /\ r.c.since = 0
    /\ r.c.since \in {c.since, 0}
    /\ room = "paused" /\ r.act = "none" => r.c.st # "LOCKED"

(* The fields of a controller, and one put together again.                  *)
LEMMA CtlFields ==
    ASSUME NEW D, NEW c \in Ctl(D)
    PROVE  /\ c.kind \in {"servo", "seek"} /\ c.st \in States
           /\ c.window \in Seq(D) /\ Len(c.window) <= 2
           /\ c.out \in 0..SUSTAIN /\ c.since \in 0..Never /\ c.stable \in 0..STABLE
           /\ c.nudge \in NotNudging..(STUCK + 1) /\ c.sign \in Rates
           /\ c.rateApplied \in BOOLEAN /\ c.far \in BOOLEAN /\ c.servoActive \in BOOLEAN
           /\ c.belief \in Rates
<1>1. c \in Controller(D) /\ Len(c.window) <= 2
  BY DEF Ctl
<1>2. c.window \in Seq(D)
  BY <1>1 DEF Controller
<1>3. Len(c.window) <= 2
  BY <1>1
<1>4. /\ c.kind \in {"servo", "seek"} /\ c.st \in States
      /\ c.out \in 0..SUSTAIN /\ c.since \in 0..Never /\ c.stable \in 0..STABLE
      /\ c.nudge \in NotNudging..(STUCK + 1) /\ c.sign \in Rates
      /\ c.belief \in Rates
  BY <1>1 DEF Controller
<1>5. c.rateApplied \in BOOLEAN /\ c.far \in BOOLEAN /\ c.servoActive \in BOOLEAN
  BY <1>1 DEF Controller
<1>6. QED
  BY <1>2, <1>3, <1>4, <1>5

LEMMA WithWindow ==
    ASSUME NEW D, NEW c \in Ctl(D), NEW w \in Seq(D), Len(w) <= 2
    PROVE  LET d == [c EXCEPT !.window = w] IN
           /\ d \in Ctl(D) /\ d.kind = c.kind /\ d.st = c.st /\ d.since = c.since
           /\ d.out = c.out /\ d.stable = c.stable /\ d.nudge = c.nudge /\ d.sign = c.sign
           /\ d.rateApplied = c.rateApplied
<1>1. c \in Controller(D)
  BY DEF Ctl
<1>2. [c EXCEPT !.window = w] \in Controller(D) /\ [c EXCEPT !.window = w].window = w
  BY <1>1 DEF Controller
<1>3. [c EXCEPT !.window = w] \in Ctl(D)
  BY <1>2, Zenon DEF Ctl
<1>4. QED
  BY <1>1, <1>3 DEF Controller

LEMMA EmptyWindow ==
    ASSUME NEW D, NEW c \in Ctl(D)
    PROVE  LET d == [c EXCEPT !.window = <<>>] IN
           /\ d \in Ctl(D) /\ d.kind = c.kind /\ d.st = c.st /\ d.since = c.since
           /\ d.out = c.out /\ d.stable = c.stable /\ d.nudge = c.nudge /\ d.sign = c.sign
           /\ d.rateApplied = c.rateApplied
<1>1. <<>> \in Seq(D) /\ Len(<<>>) <= 2
  OBVIOUS
<1>2. QED
  BY <1>1, WithWindow

LEMMA Tuned ==
    /\ EXIT \in Nat /\ DEADBAND \in Nat /\ THRESHOLD \in Nat /\ RECONCILE \in Nat
    /\ ZONE \in Nat /\ INSTANT \in Nat
    /\ SUSTAIN \in Nat \ {0} /\ STABLE \in Nat \ {0} /\ COOLDOWN \in Nat \ {0}
    /\ SPACING \in Nat \ {0} /\ STUCK \in Nat \ {0}
    /\ COOLDOWN <= SPACING /\ Never = SPACING + 1 /\ NotNudging = -1
BY TuningAssumption DEF Never, NotNudging

LEMMA ElapseCtl ==
    ASSUME NEW D, NEW c \in Ctl(D), NEW n \in Nat
    PROVE  LET d == Elapse(c, n) IN
           /\ d \in Ctl(D) /\ d.kind = c.kind /\ d.st = c.st
           /\ d.since < COOLDOWN => c.since < COOLDOWN
           /\ d.since = AtMost(c.since + n, Never)
<1> DEFINE since == AtMost(c.since + n, Never)
           nudge == IF c.st = "NUDGING" /\ c.nudge # NotNudging
                    THEN AtMost(c.nudge + n, STUCK + 1) ELSE NotNudging
<1>1. Elapse(c, n) = [c EXCEPT !.since = since, !.nudge = nudge]
  BY DEF Elapse
<1>2. since \in 0..Never /\ (since < COOLDOWN => c.since < COOLDOWN)
  BY CtlFields, Tuned DEF AtMost
<1>3. nudge \in NotNudging..(STUCK + 1)
  BY CtlFields, Tuned DEF AtMost
<1> HIDE DEF since, nudge
<1>4. c \in Controller(D) /\ Len(c.window) <= 2
  BY DEF Ctl
<1>5. /\ Elapse(c, n) \in Ctl(D) /\ Elapse(c, n).kind = c.kind /\ Elapse(c, n).st = c.st
      /\ Elapse(c, n).since = since
  BY <1>1, <1>2, <1>3, <1>4 DEF Ctl, Controller
<1>6. QED
  BY <1>2, <1>5 DEF since

(* What the callers of a controller do to it.                               *)
LEMMA NewCtl ==
    ASSUME NEW D, NEW kind \in {"servo", "seek"}
    PROVE  LET d == NewController(kind) IN
           d \in Ctl(D) /\ d.kind = kind /\ d.st = "LOCKED" /\ ~(d.since < COOLDOWN)
<1>1. <<>> \in Seq(D) /\ Len(<<>>) <= 2
  OBVIOUS
<1>2. NewController(kind) \in Ctl(D)
  BY <1>1, Tuned DEF Ctl, Controller, NewController, States, Rates
<1>3. QED
  BY <1>2, Tuned DEF NewController

LEMMA SuspendCtl ==
    ASSUME NEW D, NEW c \in Ctl(D)
    PROVE  LET d == suspend(c) IN
           /\ d \in Ctl(D) /\ d.kind = c.kind /\ d.st = "SUSPENDED"
<1> DEFINE e == [c EXCEPT !.window = <<>>]
           d == [e EXCEPT !.st = "SUSPENDED", !.out = 0, !.rateApplied = FALSE, !.sign = 0,
                          !.nudge = NotNudging, !.stable = 0]
<1>1. e \in Ctl(D) /\ e.kind = c.kind
  BY EmptyWindow
<1>2. suspend(c) = [d EXCEPT !.servoActive = FALSE, !.belief = 0]
  BY DEF suspend, ResetServo
<1> HIDE DEF e
<1>3. 0 \in 0..SUSTAIN /\ 0 \in 0..STABLE /\ NotNudging \in NotNudging..(STUCK + 1)
  BY Tuned
<1>4. d \in Ctl(D) /\ d.kind = e.kind /\ d.st = "SUSPENDED"
  BY <1>1, <1>3 DEF Ctl, Controller, States, Rates
<1> HIDE DEF d
<1>5. QED
  BY <1>1, <1>2, <1>4 DEF Ctl, Controller, Rates

LEMMA ResumeCtl ==
    ASSUME NEW D, NEW c \in Ctl(D)
    PROVE  LET d == resume(c) IN
           /\ d \in Ctl(D) /\ d.kind = c.kind /\ d.st = "LOCKED"
<1> DEFINE e == [c EXCEPT !.window = <<>>]
<1>1. e \in Ctl(D) /\ e.kind = c.kind
  BY EmptyWindow
<1>2. resume(c) = [e EXCEPT !.st = "LOCKED", !.out = SUSTAIN]
  BY DEF resume
<1> HIDE DEF e
<1>3. SUSTAIN \in 0..SUSTAIN
  BY Tuned
<1>4. QED
  BY <1>1, <1>2, <1>3 DEF Ctl, Controller, States

LEMMA ResetCtl ==
    ASSUME NEW D, NEW c \in Ctl(D)
    PROVE  LET d == ResetServo(c) IN
           d \in Ctl(D) /\ d.kind = c.kind /\ d.st = c.st /\ d.since = c.since
BY DEF ResetServo, Ctl, Controller, Rates

LEMMA AppliedCtl ==
    ASSUME NEW D, NEW c \in Ctl(D), NEW r \in Rates
    PROVE  LET d == RateApplied(c, r) IN
           d \in Ctl(D) /\ d.kind = c.kind /\ d.st = c.st /\ d.since = c.since
BY DEF RateApplied, Ctl, Controller

LEMMA FallsCtl ==
    ASSUME NEW D
    PROVE  /\ SeekFirst \in Ctl(D) /\ SeekFirst.kind = "seek" /\ ~(SeekFirst.since < COOLDOWN)
           /\ ~enabled => SeekFirst.st = "SUSPENDED"
<1> DEFINE c == NewController("seek")
<1>1. c \in Ctl(D) /\ c.kind = "seek" /\ ~(c.since < COOLDOWN)
  BY NewCtl
<1>2. suspend(c) \in Ctl(D) /\ suspend(c).kind = "seek" /\ suspend(c).st = "SUSPENDED"
  BY <1>1, SuspendCtl
<1>3. suspend(c).since = c.since
  BY DEF suspend, ResetServo, NewController
<1> HIDE DEF c
<1>4. SeekFirst = IF ~enabled \/ hidden THEN suspend(c) ELSE c
  BY DEF SeekFirst, c
<1>5. QED
  BY <1>1, <1>2, <1>3, <1>4

(* The regimes of DriftController.evaluate.                                 *)
LEMMA IssueSeekCtl ==
    ASSUME NEW D, NEW c \in Ctl(D)
    PROVE  LET r == issueSeek(c) IN
           /\ r.c \in Ctl(D) /\ r.c.kind = c.kind /\ r.c.st = "SEEKING" /\ r.act = "seek"
           /\ r.c.since = 0
<1> DEFINE e == [c EXCEPT !.window = <<>>]
           d == [e EXCEPT !.st = "SEEKING", !.since = 0, !.stable = 0, !.out = 0,
                          !.rateApplied = FALSE, !.sign = 0]
<1>1. e \in Ctl(D) /\ e.kind = c.kind
  BY EmptyWindow
<1>2. issueSeek(c) = [c |-> d, act |-> "seek"]
  BY DEF issueSeek, Does
<1> HIDE DEF e
<1>3. 0 \in 0..SUSTAIN /\ 0 \in 0..STABLE /\ 0 \in 0..Never
  BY Tuned
<1>4. d \in Ctl(D) /\ d.kind = e.kind /\ d.st = "SEEKING" /\ d.since = 0
  BY <1>1, <1>3 DEF Ctl, Controller, States, Rates
<1> HIDE DEF d
<1>5. QED
  BY <1>1, <1>2, <1>4

LEMMA StallAnswers ==
    ASSUME NEW D, NEW c \in Ctl(D), NEW room, c.st # "SUSPENDED"
    PROVE  Answers(D, c, room, Stall(c))
<1> DEFINE d == [c EXCEPT !.st = IF @ = "SEEKING" THEN @ ELSE "BUFFERING"]
           e == [d EXCEPT !.rateApplied = FALSE, !.sign = 0, !.nudge = NotNudging]
<1>1. Stall(c) = IF c.rateApplied THEN [c |-> e, act |-> "clear-rate"]
                 ELSE [c |-> d, act |-> "none"]
  BY DEF Stall, Does
<1>2. /\ d \in Ctl(D) /\ d.kind = c.kind /\ d.since = c.since
      /\ d.st = IF c.st = "SEEKING" THEN "SEEKING" ELSE "BUFFERING"
  BY DEF Ctl, Controller, States
<1> HIDE DEF d
<1>3. NotNudging \in NotNudging..(STUCK + 1)
  BY Tuned
<1>4. e \in Ctl(D) /\ e.kind = d.kind /\ e.since = d.since /\ e.st = d.st
  BY <1>2, <1>3 DEF Ctl, Controller, Rates
<1> HIDE DEF e
<1>5. ASSUME NEW x \in {d, e}, NEW act \in {"none", "clear-rate"}
      PROVE  Answers(D, c, room, [c |-> x, act |-> act])
  BY <1>2, <1>4 DEF Answers, Awaits, Actions
<1>6. QED
  BY <1>1, <1>5

LEMMA HoldAnswers ==
    ASSUME NEW D, NEW c \in Ctl(D), c.st # "SUSPENDED", NEW life, NEW drift \in Int
    PROVE  Answers(D, c, "paused", Hold(c, life, drift))
<1> DEFINE d == [c EXCEPT !.st = "PAUSED_SYNC"]
           e == [d EXCEPT !.since = 0]
<1>1. \/ Hold(c, life, drift) = [c |-> c, act |-> "pause"]
      \/ Hold(c, life, drift) = [c |-> e, act |-> "seek"] /\ c.since > SPACING
      \/ Hold(c, life, drift) = [c |-> d, act |-> "none"]
  BY DEF Hold, Does
<1>2. d \in Ctl(D) /\ d.kind = c.kind /\ d.since = c.since /\ d.st = "PAUSED_SYNC"
  BY DEF Ctl, Controller, States
<1> HIDE DEF d
<1>3. 0 \in 0..Never
  BY Tuned
<1>4. e \in Ctl(D) /\ e.kind = d.kind /\ e.st = d.st /\ e.since = 0
  BY <1>2, <1>3 DEF Ctl, Controller
<1> HIDE DEF e
<1>5. c.since > SPACING => c.since >= COOLDOWN
  BY CtlFields, Tuned
<1>6. QED
  BY <1>1, <1>2, <1>4, <1>5 DEF Answers, Awaits, Actions

LEMMA StartAnswers ==
    ASSUME NEW D, NEW c \in Ctl(D), c.st # "SUSPENDED", NEW room
    PROVE  Answers(D, c, room, Start(c))
<1> DEFINE e == [c EXCEPT !.window = <<>>]
           d == [e EXCEPT !.st = "SEEKING", !.since = 0, !.stable = 0]
<1>1. e \in Ctl(D) /\ e.kind = c.kind
  BY EmptyWindow
<1>2. Start(c) = [c |-> d, act |-> "play"]
  BY DEF Start, Does
<1> HIDE DEF e
<1>3. 0 \in 0..STABLE /\ 0 \in 0..Never
  BY Tuned
<1>4. d \in Ctl(D) /\ d.kind = e.kind /\ d.st = "SEEKING" /\ d.since = 0
  BY <1>1, <1>3 DEF Ctl, Controller, States
<1> HIDE DEF d
<1>5. QED
  BY <1>1, <1>2, <1>4 DEF Answers, Awaits, Actions

LEMMA SettleAnswers ==
    ASSUME NEW D, NEW c \in Ctl(D), c.st = "SEEKING", NEW med \in Int
    PROVE  Answers(D, c, "playing", Settle(c, med))
<1> DEFINE again == [c EXCEPT !.stable = 0]
           locked == [c EXCEPT !.st = "LOCKED", !.stable = 0]
           nearer == [c EXCEPT !.stable = @ + 1]
           cooled == ~(c.since < COOLDOWN)
<1>1. Abs(med) \in Int
  BY DEF Abs
<1>2. \/ Settle(c, med) = [c |-> c, act |-> "none"]
      \/ Settle(c, med) = [c |-> again, act |-> "none"]
      \/ Settle(c, med) = issueSeek(c) /\ cooled
      \/ Settle(c, med) = [c |-> locked, act |-> "none"] /\ cooled
      \/ Settle(c, med) = [c |-> nearer, act |-> "none"] /\ ~(c.stable + 1 >= STABLE)
  BY DEF Settle, Does
<1>3. 0 \in 0..STABLE /\ (~(c.stable + 1 >= STABLE) => c.stable + 1 \in 0..STABLE)
  BY CtlFields, Tuned
<1>4. /\ again \in Ctl(D) /\ again.kind = c.kind /\ again.since = c.since
      /\ again.st = "SEEKING"
  BY <1>3 DEF Ctl, Controller
<1>5. /\ locked \in Ctl(D) /\ locked.kind = c.kind /\ locked.since = c.since
      /\ locked.st = "LOCKED"
  BY <1>3 DEF Ctl, Controller, States
<1>6. ~(c.stable + 1 >= STABLE) =>
        /\ nearer \in Ctl(D) /\ nearer.kind = c.kind /\ nearer.since = c.since
        /\ nearer.st = "SEEKING"
  BY <1>3 DEF Ctl, Controller
<1>7. cooled => c.since >= COOLDOWN
  BY CtlFields, Tuned
<1> HIDE DEF again, locked, nearer
<1>8. CASE Settle(c, med) = issueSeek(c) /\ cooled
  BY <1>7, <1>8, IssueSeekCtl DEF Answers, Awaits, Actions
<1>9. CASE Settle(c, med) = [c |-> locked, act |-> "none"] /\ cooled
  BY <1>5, <1>9 DEF Answers, Awaits, Actions
<1>10. CASE \/ Settle(c, med) = [c |-> c, act |-> "none"]
            \/ Settle(c, med) = [c |-> again, act |-> "none"]
            \/ Settle(c, med) = [c |-> nearer, act |-> "none"] /\ ~(c.stable + 1 >= STABLE)
  BY <1>4, <1>6, <1>10 DEF Answers, Awaits, Actions
<1>11. QED
  BY <1>2, <1>8, <1>9, <1>10

(* A controller that neither seeks nor stands by is out of its cooldown.    *)
LEMMA OutOfCooldown ==
    ASSUME NEW D, NEW c \in Ctl(D), c.st \notin {"SEEKING", "SUSPENDED"},
           NEW r, r.c \in Ctl(D), r.c.kind = c.kind, r.act \in Actions,
           r.c.st # "SUSPENDED", r.act = "seek" => r.c.st = "SEEKING" /\ r.c.since = 0,
           r.act # "seek" => r.c.since = c.since
    PROVE  Answers(D, c, "playing", r)
<1>1. c.since \in Int /\ r.c.since \in Int
  BY CtlFields
<1>2. QED
  BY <1>1, Tuned DEF Answers, Awaits

LEMMA InBandAnswers ==
    ASSUME NEW D, NEW c \in Ctl(D), c.st \notin {"SEEKING", "SUSPENDED"}, NEW med \in Int
    PROVE  Answers(D, c, "playing", InBand(c, med))
<1> DEFINE d == [c EXCEPT !.out = 0]
           locked == [d EXCEPT !.st = "LOCKED"]
           over == [d EXCEPT !.st = "LOCKED", !.nudge = NotNudging, !.rateApplied = FALSE,
                             !.sign = 0]
<1>1. \/ InBand(c, med) = [c |-> d, act |-> "none"]
      \/ InBand(c, med) = [c |-> locked, act |-> "none"]
      \/ InBand(c, med) = [c |-> over, act |-> "clear-rate"]
  BY DEF InBand, Does
<1>2. 0 \in 0..SUSTAIN /\ NotNudging \in NotNudging..(STUCK + 1)
  BY Tuned
<1>3. d \in Ctl(D) /\ d.kind = c.kind /\ d.since = c.since /\ d.st = c.st
  BY <1>2 DEF Ctl, Controller
<1> HIDE DEF d
<1>4. /\ locked \in Ctl(D) /\ locked.kind = c.kind /\ locked.since = c.since
      /\ locked.st = "LOCKED"
  BY <1>3 DEF Ctl, Controller, States
<1>5. over \in Ctl(D) /\ over.kind = c.kind /\ over.since = c.since /\ over.st = "LOCKED"
  BY <1>2, <1>3 DEF Ctl, Controller, States, Rates
<1> HIDE DEF locked, over
<1>6. QED
  BY <1>1, <1>3, <1>4, <1>5, OutOfCooldown DEF Actions

LEMMA NudgeAnswers ==
    ASSUME NEW D, NEW c \in Ctl(D), c.st \notin {"SEEKING", "SUSPENDED"}, NEW med \in Int
    PROVE  Answers(D, c, "playing", Nudge(c, med))
<1> DEFINE want == IF med > 0 THEN 1 ELSE -1
           aimed == [c EXCEPT !.nudge = 0, !.sign = want]
           begun == [aimed EXCEPT !.st = "NUDGING", !.rateApplied = TRUE]
           stuck == [c EXCEPT !.nudge = NotNudging]
<1>1. \/ Nudge(c, med) = [c |-> begun, act |-> SetRate(-want)]
      \/ Nudge(c, med) = [c |-> aimed, act |-> SetRate(-want)]
      \/ Nudge(c, med) = issueSeek(stuck)
      \/ Nudge(c, med) = [c |-> c, act |-> "none"]
  BY DEF Nudge, Does
<1>2. want \in Rates /\ SetRate(-want) \in {"slow", "fast"}
  <2>1. want \in {-1, 1}
    OBVIOUS
  <2> HIDE DEF want
  <2>2. \A s \in {-1, 1} : SetRate(s) \in {"slow", "fast"}
    BY DEF SetRate
  <2>3. -want \in {-1, 1}
    BY <2>1
  <2>4. QED
    BY <2>1, <2>2, <2>3 DEF Rates
<1> HIDE DEF want
<1>3. 0 \in NotNudging..(STUCK + 1) /\ NotNudging \in NotNudging..(STUCK + 1)
  BY Tuned
<1>4. aimed \in Ctl(D) /\ aimed.kind = c.kind /\ aimed.since = c.since /\ aimed.st = c.st
  BY <1>2, <1>3 DEF Ctl, Controller
<1> HIDE DEF aimed
<1>5. begun \in Ctl(D) /\ begun.kind = c.kind /\ begun.since = c.since /\ begun.st = "NUDGING"
  BY <1>4 DEF Ctl, Controller, States
<1>6. stuck \in Ctl(D) /\ stuck.kind = c.kind
  BY <1>3 DEF Ctl, Controller
<1> HIDE DEF begun, stuck
<1>7. issueSeek(stuck).c \in Ctl(D) /\ issueSeek(stuck).c.kind = c.kind
      /\ issueSeek(stuck).c.st = "SEEKING" /\ issueSeek(stuck).act = "seek"
      /\ issueSeek(stuck).c.since = 0
  BY <1>6, IssueSeekCtl
<1>8. QED
  BY <1>1, <1>2, <1>4, <1>5, <1>7, OutOfCooldown DEF Actions

LEMMA OutOfBandAnswers ==
    ASSUME NEW D, NEW c \in Ctl(D), c.st \notin {"SEEKING", "SUSPENDED"}, NEW med \in Int,
           NEW stalled, NEW threshold, NEW fractional
    PROVE  Answers(D, c, "playing", OutOfBand(c, med, stalled, threshold, fractional))
<1> DEFINE d == [c EXCEPT !.out = AtMost(@ + 1, SUSTAIN)]
           kept == [d EXCEPT !.st = IF @ = "NUDGING" THEN @ ELSE "LOCKED"]
           r == OutOfBand(c, med, stalled, threshold, fractional)
<1>1. \/ r = [c |-> d, act |-> "none"]
      \/ r = Nudge(d, med)
      \/ r = issueSeek(d)
      \/ r = [c |-> kept, act |-> "none"]
  BY DEF OutOfBand, Does
<1>2. AtMost(c.out + 1, SUSTAIN) \in 0..SUSTAIN
  BY CtlFields, Tuned DEF AtMost
<1>3. d \in Ctl(D) /\ d.kind = c.kind /\ d.since = c.since /\ d.st = c.st
  BY <1>2 DEF Ctl, Controller
<1> HIDE DEF d
<1>4. /\ kept \in Ctl(D) /\ kept.kind = c.kind /\ kept.since = c.since
      /\ kept.st \in {"NUDGING", "LOCKED"}
  BY <1>3 DEF Ctl, Controller, States
<1> HIDE DEF kept, r
<1>5. CASE r = Nudge(d, med)
  <2>1. Answers(D, d, "playing", Nudge(d, med))
    BY <1>3, NudgeAnswers
  <2>2. QED
    BY <1>3, <1>5, <2>1 DEF Answers, Awaits, r
<1>6. CASE r = issueSeek(d)
  BY <1>3, <1>6, IssueSeekCtl, OutOfCooldown DEF Actions, r
<1>7. CASE r = [c |-> d, act |-> "none"] \/ r = [c |-> kept, act |-> "none"]
  BY <1>3, <1>4, <1>7, OutOfCooldown DEF Actions, r
<1>8. QED
  BY <1>1, <1>5, <1>6, <1>7

LEMMA TrackAnswers ==
    ASSUME NEW D \in SUBSET Int, NEW c \in Ctl(D), c.st # "SUSPENDED", NEW drift \in D,
           NEW threshold, NEW fractional
    PROVE  Answers(D, c, "playing", Track(c, drift, threshold, fractional))
<1> DEFINE stalled == c.st = "BUFFERING"
           w == Append(c.window, drift)
           w2 == IF Len(w) > 2 THEN Tail(w) ELSE w
           med == Median(w)
           far == Abs(med) > ZONE
           e == [c EXCEPT !.window = w2]
           d == [e EXCEPT !.st = IF stalled THEN "LOCKED" ELSE @, !.far = far]
           r == Track(c, drift, threshold, fractional)
<1>1. r = IF d.st = "SEEKING" THEN Settle(d, med)
          ELSE IF Abs(drift) > INSTANT THEN issueSeek(d)
          ELSE IF Abs(med) <= DEADBAND THEN InBand(d, med)
          ELSE OutOfBand(d, med, stalled, threshold, fractional)
  BY DEF Track
<1>2. w \in Seq(D) /\ w # <<>> /\ w2 \in Seq(D) /\ Len(w2) <= 2
  <2>1. PICK v \in Seq(D) : v = c.window
    BY CtlFields
  <2>2. Len(v) <= 2 /\ Len(v) \in Nat
    BY <2>1, CtlFields
  <2>3. /\ Append(v, drift) \in Seq(D) /\ Append(v, drift) # <<>>
        /\ Len(Append(v, drift)) = Len(v) + 1
    BY <2>1
  <2>4. Tail(Append(v, drift)) \in Seq(D) /\ Len(Tail(Append(v, drift))) = Len(v)
    BY <2>3, HeadTailProperties, <2>2
  <2>5. QED
    BY <2>1, <2>2, <2>3, <2>4
<1>3. med \in Int
  <2> HIDE DEF w, w2
  <2>1. w \in Seq(Int)
    BY <1>2, SeqMonotonic
  <2>2. QED
    BY <1>2, <2>1, MedianIsReading
<1> HIDE DEF w, w2, med
<1>4. far \in BOOLEAN
  BY <1>3, Tuned DEF Abs
<1>5. e \in Ctl(D) /\ e.kind = c.kind /\ e.since = c.since /\ e.st = c.st
  BY <1>2, WithWindow
<1> HIDE DEF e, far
<1>6. /\ d \in Ctl(D) /\ d.kind = c.kind /\ d.since = c.since
      /\ d.st = IF c.st = "BUFFERING" THEN "LOCKED" ELSE c.st
  BY <1>4, <1>5 DEF Ctl, Controller, States
<1> HIDE DEF d, r
<1>7. Answers(D, d, "playing", r)
  <2>1. CASE d.st = "SEEKING"
    BY <1>1, <1>3, <1>6, <2>1, SettleAnswers
  <2>2. CASE d.st # "SEEKING" /\ r = issueSeek(d)
    BY <1>6, <2>2, IssueSeekCtl, OutOfCooldown DEF Actions
  <2>3. CASE d.st # "SEEKING" /\ r = InBand(d, med)
    BY <1>3, <1>6, <2>3, InBandAnswers
  <2>4. CASE d.st # "SEEKING" /\ r = OutOfBand(d, med, stalled, threshold, fractional)
    BY <1>3, <1>6, <2>4, OutOfBandAnswers
  <2>5. QED
    BY <1>1, <2>1, <2>2, <2>3, <2>4
<1>8. QED
  BY <1>6, <1>7 DEF Answers, Awaits, r

LEMMA ReactiveAnswers ==
    ASSUME NEW D \in SUBSET Int, NEW c \in Ctl(D), NEW room \in {"none", "paused", "playing"},
           NEW life \in Lifecycles, NEW drift \in D, NEW threshold, NEW fractional
    PROVE  Answers(D, c, room, Reactive(c, room, life, drift, threshold, fractional))
<1> DEFINE r == Reactive(c, room, life, drift, threshold, fractional)
<1>1. ASSUME r = [c |-> c, act |-> "none"], room = "paused" => c.st = "SUSPENDED"
      PROVE  Answers(D, c, room, r)
  <2>1. r.c = c /\ r.act = "none"
    BY <1>1
  <2> HIDE DEF r
  <2>2. QED
    BY <1>1, <2>1 DEF Answers, Awaits, Actions
<1>2. CASE c.st = "SUSPENDED" \/ room = "none"
  BY <1>1, <1>2 DEF Reactive, Does
<1>3. CASE c.st # "SUSPENDED" /\ room # "none" /\ life = "buffering"
  <2>1. r = Stall(c)
    BY <1>3 DEF Reactive
  <2>2. QED
    BY <1>3, <2>1, StallAnswers
<1>4. CASE c.st # "SUSPENDED" /\ room = "paused" /\ life # "buffering"
  <2>1. r = Hold(c, life, drift)
    BY <1>4 DEF Reactive
  <2>2. drift \in Int
    OBVIOUS
  <2>3. QED
    BY <1>4, <2>1, <2>2, HoldAnswers
<1>5. CASE c.st # "SUSPENDED" /\ room = "playing" /\ life \in {"paused", "cued"}
  <2>1. r = Start(c)
    BY <1>5 DEF Reactive
  <2>2. QED
    BY <1>5, <2>1, StartAnswers
<1>6. CASE c.st # "SUSPENDED" /\ room = "playing" /\ life \in {"unstarted", "ended"}
  BY <1>1, <1>6 DEF Reactive, Does
<1>7. CASE c.st # "SUSPENDED" /\ room = "playing" /\ life = "playing"
  <2>1. r = Track(c, drift, threshold, fractional)
    BY <1>7 DEF Reactive
  <2>2. QED
    BY <1>7, <2>1, TrackAnswers
<1>8. QED
  BY <1>2, <1>3, <1>4, <1>5, <1>6, <1>7 DEF Lifecycles

(* DisciplineController: only LOCKED leaves the rate to the servo.          *)
LEMMA ServoAnswers ==
    ASSUME NEW D \in SUBSET Int, NEW c \in Ctl(D), NEW room \in {"none", "paused", "playing"},
           NEW life \in Lifecycles, NEW drift \in D, NEW rate \in Rates
    PROVE  Answers(D, c, room, Servo(c, room, life, drift, rate))
<1> DEFINE inner == Reactive(c, room, life, drift, ZONE, FALSE)
           d == inner.c
           active == [d EXCEPT !.servoActive = TRUE, !.belief = rate]
           cleared == IF inner.act = "none" THEN "clear-rate" ELSE inner.act
           steered == IF rate = d.belief THEN "none" ELSE SetRate(rate)
           r == Servo(c, room, life, drift, rate)
<1>1. Answers(D, c, room, inner)
  BY ReactiveAnswers
<1>2. \/ r = [c |-> ResetServo(d), act |-> "seek"] /\ inner.act = "seek"
      \/ r = [c |-> ResetServo(d), act |-> cleared]
      \/ r = inner
      \/ r = [c |-> active, act |-> steered] /\ d.st = "LOCKED" /\ inner.act = "none"
  BY DEF Servo, Does
<1> HIDE DEF inner
<1>3. d \in Ctl(D)
  BY <1>1 DEF Answers
<1> HIDE DEF d
<1>4. /\ active \in Ctl(D) /\ active.kind = d.kind /\ active.st = d.st
      /\ active.since = d.since
  BY <1>3 DEF Ctl, Controller
<1>5. steered \in {"none", "slow", "one", "fast"}
  BY DEF SetRate, Rates
<1> HIDE DEF r, active, steered, cleared
<1>6. ASSUME r = [c |-> active, act |-> steered], d.st = "LOCKED", inner.act = "none"
      PROVE  Answers(D, c, room, r)
  <2>1. room # "paused"
    BY <1>1, <1>6 DEF Answers, d
  <2>2. Awaits(c, room) => c.since >= COOLDOWN
    <3>1. c.since \in Int /\ d.since \in {c.since, 0}
      BY <1>1, CtlFields DEF Answers, d
    <3>2. Awaits(c, room) => ~(d.since < COOLDOWN)
      BY <1>1, <1>6, <2>1 DEF Answers, Awaits, d
    <3>3. QED
      BY <3>1, <3>2, Tuned
  <2>3. QED
    BY <1>1, <1>4, <1>5, <1>6, <2>1, <2>2 DEF Answers, Awaits, Actions, d
<1>7. ASSUME NEW act, r = [c |-> ResetServo(d), act |-> act],
             act = inner.act \/ (inner.act = "none" /\ act = "clear-rate")
      PROVE  Answers(D, c, room, r)
  BY <1>1, <1>3, <1>7, ResetCtl DEF Answers, Awaits, Actions, d
<1>8. QED
  BY <1>1, <1>2, <1>6, <1>7 DEF cleared, r

LEMMA EvaluateAnswers ==
    ASSUME NEW D \in SUBSET Int, NEW c \in Ctl(D), NEW room \in {"none", "paused", "playing"},
           NEW life \in Lifecycles, NEW drift \in D, NEW fractional, NEW rate \in Rates
    PROVE  Answers(D, c, room, evaluate(c, room, life, drift, fractional, rate))
BY ReactiveAnswers, ServoAnswers DEF evaluate

-----------------------------------------------------------------------------
(* The engine and its player.                                               *)

PlayerState ==
    {NoPlayer} \cup [kind : Kinds, honours : BOOLEAN, life : Lifecycles, rate : Rates]

(* The player p with another rate or lifecycle.                             *)
LEMMA PlayerFields ==
    ASSUME NEW p \in PlayerState
    PROVE  /\ p.kind \in Kinds \cup {"none"} /\ p.honours \in BOOLEAN
           /\ p.life \in Lifecycles /\ p.rate \in Rates
           /\ p.kind = "none" => p = NoPlayer
<1>1. CASE p = NoPlayer
  BY <1>1 DEF NoPlayer, Lifecycles, Rates
<1>2. CASE p \in [kind : Kinds, honours : BOOLEAN, life : Lifecycles, rate : Rates]
  BY <1>2 DEF Kinds
<1>3. QED
  BY <1>1, <1>2 DEF PlayerState

LEMMA SetRatePlayer ==
    ASSUME NEW p \in PlayerState, NEW r \in Rates
    PROVE  LET q == setRate(p, r).player IN
           /\ q \in PlayerState /\ q.kind = p.kind /\ q.honours = p.honours /\ q.life = p.life
           /\ q.rate = Snapped(p, r)
           /\ setRate(p, r).applied \in {r, 0}
<1> DEFINE q == [p EXCEPT !.rate = Snapped(p, r)]
<1>1. Snapped(p, r) \in {r, 0} /\ 0 \in Rates
  BY DEF Snapped, Rates
<1>2. setRate(p, r).player = q /\ setRate(p, r).applied \in {r, Snapped(p, r)}
  BY DEF setRate
<1>3. CASE p = NoPlayer
  <2>1. Snapped(p, r) = 0
    BY <1>3 DEF Snapped, NoPlayer
  <2>2. q = p /\ q.rate = 0
    BY <1>3, <2>1 DEF NoPlayer
  <2>3. QED
    BY <1>1, <1>2, <2>1, <2>2
<1>4. CASE p \in [kind : Kinds, honours : BOOLEAN, life : Lifecycles, rate : Rates]
  <2>1. q \in [kind : Kinds, honours : BOOLEAN, life : Lifecycles, rate : Rates]
    BY <1>1, <1>4
  <2>2. q.kind = p.kind /\ q.honours = p.honours /\ q.life = p.life /\ q.rate = Snapped(p, r)
    BY <1>4
  <2>3. QED
    BY <1>1, <1>2, <2>1, <2>2 DEF PlayerState
<1>5. QED
  BY <1>3, <1>4 DEF PlayerState

LEMMA RestoredPlayer ==
    ASSUME NEW p \in PlayerState
    PROVE  LET q == setRate(p, 0).player IN
           /\ q \in PlayerState /\ q.kind = p.kind /\ q.honours = p.honours /\ q.life = p.life
           /\ q.rate = 0
<1>1. 0 \in Rates /\ Snapped(p, 0) = 0
  BY DEF Rates, Snapped
<1>2. QED
  BY <1>1, SetRatePlayer

(* A seek that is excused, or was never made, is out of every cooldown.     *)
LEMMA SoughtNever == Never \in 0..Never /\ ~(Never < COOLDOWN)
BY Tuned

(* What the invariant says of the parts of the state.                       *)
LEMMA EngineFacts ==
    ASSUME EngineIInv
    PROVE  /\ mounts \in Nat /\ mount \in {0, mounts} /\ adapterRef \in {0, mount}
           /\ adapter \in 0..mounts /\ eng \in Nat /\ player \in PlayerState
           /\ setup.drifts \in SUBSET Int /\ ctl \in Ctl(setup.drifts)
           /\ setup.arm \in {"servo", "seek"} /\ setup.lives \subseteq Lifecycles
           /\ Live => mount # 0 /\ adapter = mount
           /\ sought \in 0..Never
BY DEF EngineIInv, EngineSound, EngineTypeOK, SetupSound, PlayerState, Ctl, Live

(* Two counts of the same ticks stay in their order.                        *)
LEMMA ElapsedCounts ==
    ASSUME NEW a \in 0..Never, NEW b \in 0..Never, NEW n \in Nat
    PROVE  /\ AtMost(b + n, Never) \in 0..Never
           /\ AtMost(b + n, Never) < COOLDOWN =>
                /\ b < COOLDOWN
                /\ a <= b => AtMost(a + n, Never) <= AtMost(b + n, Never)
BY Tuned DEF AtMost

LEMMA RestoreRateKeeps ==
    ASSUME EngineIInv, NEW c \in Ctl(setup.drifts), restoreRate(c)
    PROVE  /\ ctl' \in Ctl(setup.drifts) /\ ctl'.kind = c.kind /\ ctl'.st = c.st
           /\ ctl'.since = c.since
           /\ player' \in PlayerState /\ player'.kind = player.kind
           /\ player'.honours = player.honours
           /\ IF Live THEN player'.rate = 0 ELSE player' = player
<1>1. 0 \in Rates
  BY DEF Rates
<1>2. QED
  BY <1>1, EngineFacts, AppliedCtl, RestoredPlayer DEF restoreRate

(* What is spent leaves the rest of the bounds alone.                       *)
LEMMA SpendKeeps ==
    ASSUME SetupSound, NEW b \in {"mounts", "engines", "events"}, Spend(b)
    PROVE  /\ SetupSound' /\ setup'.drifts = setup.drifts /\ setup'.arm = setup.arm
           /\ setup'.lives = setup.lives /\ setup'.players = setup.players
<1>1. setup[b] \in Nat /\ setup[b] > 0
  BY DEF SetupSound, Spend
<1>2. PICK n \in Nat : n = setup[b] - 1
  BY <1>1
<1>3. setup' = [setup EXCEPT ![b] = n]
  BY <1>2 DEF Spend
<1>4. QED
  BY <1>3 DEF SetupSound

LEMMA EngineInitial ==
    ASSUME EngineInit
    PROVE  EngineIInv
<1>1. SetupSound
  BY PlayerAssumption DEF EngineInit, SetupSound
<1>2. ctl \in Ctl(setup.drifts) /\ ctl.st = "LOCKED" /\ ~(ctl.since < COOLDOWN)
  BY <1>1, NewCtl DEF EngineInit, SetupSound
<1>3. EngineTypeOK
  <2>1. GESTURE \in Nat /\ PATIENCE \in Nat
    BY Tuned, PlayerAssumption DEF PATIENCE
  <2>2. ctl \in Controller(setup.drifts) /\ Len(ctl.window) <= 2
    BY <1>2 DEF Ctl
  <2>3. {setup.mounts, setup.engines, setup.events} \subseteq Nat
    BY <1>1 DEF SetupSound
  <2>4. /\ playAttempts \in 0..(GESTURE + 1) /\ alone \in 0..(PATIENCE + 1)
        /\ adapter \in 0..mounts /\ sought \in 0..Never
    BY <2>1, SoughtNever DEF EngineInit
  <2>5. {syncEnabled, hidden, connected, enabled, fractionalRateOK, estimate,
         needsGesture, hasty} \subseteq BOOLEAN
    BY Zenon DEF EngineInit
  <2>6. probes \subseteq [eng : 1..eng, mount : 1..mounts]
    BY DEF EngineInit
  <2>7. /\ mounts \in Nat /\ mount \in {0, mounts} /\ adapterRef \in {0, mount}
        /\ failed \in BOOLEAN /\ (failed => mount = 0) /\ eng \in Nat
        /\ timeline \in {"none", "paused", "playing"} /\ player = NoPlayer
    BY DEF EngineInit
  <2>8. QED
    BY <2>2, <2>3, <2>4, <2>5, <2>6, <2>7 DEF EngineTypeOK
<1>4. QED
  BY <1>1, <1>2, <1>3, SoughtNever
     DEF EngineInit, EngineIInv, EngineSound, EngineDrivesLive, OffMeansOff,
         StoodDownAtRateOne, SnappedMeansSeekFirst, PlayerSound, StandsDown, Agrees,
         SeekAwaited, SeeksCoolDown, Live, NoPlayer, Kinds

(* Steps that leave controller, player, adapters and probes as they are.    *)
LEMMA ConnectionLostKeeps ==
    ASSUME EngineIInv, ConnectionLost
    PROVE  EngineIInv'
<1>1. SetupSound' /\ setup'.drifts = setup.drifts
  BY SpendKeeps DEF EngineIInv, ConnectionLost, Event
<1>2. EngineTypeOK'
  BY <1>1 DEF EngineIInv, EngineSound, EngineTypeOK, ConnectionLost, shellVars, envVars, engVars,
              histVars, SetupSound, PATIENCE, NoPlayer
<1>3. QED
  BY <1>1, <1>2
     DEF ConnectionLost, shellVars, engVars, histVars, EngineIInv, EngineSound,
         EngineDrivesLive, OffMeansOff, StoodDownAtRateOne, SnappedMeansSeekFirst,
         PlayerSound, StandsDown, Agrees, SeekAwaited, SeeksCoolDown, Live

LEMMA OnPongKeeps ==
    ASSUME EngineIInv, onPong
    PROVE  EngineIInv'
<1>1. EngineTypeOK' /\ SetupSound'
  BY DEF EngineIInv, EngineSound, EngineTypeOK, onPong, shellVars, envVars,
         histVars, SetupSound, PATIENCE
<1>2. QED
  BY <1>1
     DEF onPong, shellVars, envVars, histVars, EngineIInv, EngineSound,
         EngineDrivesLive, OffMeansOff, StoodDownAtRateOne, SnappedMeansSeekFirst,
         PlayerSound, StandsDown, Agrees, SeekAwaited, SeeksCoolDown, Live

LEMMA ResumeFromGestureKeeps ==
    ASSUME EngineIInv, resumeFromGesture
    PROVE  EngineIInv'
<1>1. SetupSound' /\ setup'.drifts = setup.drifts
  BY SpendKeeps DEF EngineIInv, resumeFromGesture, Event
<1>2. 0 \in 0..(GESTURE + 1)
  BY PlayerAssumption
<1>3. EngineTypeOK'
  BY <1>1, <1>2 DEF EngineIInv, EngineSound, EngineTypeOK, resumeFromGesture, shellVars, envVars,
                    histVars, SetupSound, PATIENCE
<1>4. QED
  BY <1>1, <1>3
     DEF resumeFromGesture, shellVars, envVars, histVars, EngineIInv, EngineSound,
         EngineDrivesLive, OffMeansOff, StoodDownAtRateOne, SnappedMeansSeekFirst,
         PlayerSound, StandsDown, Agrees, SeekAwaited, SeeksCoolDown, Live

LEMMA EngineOnTimelineKeeps ==
    ASSUME EngineIInv, onTimeline
    PROVE  EngineIInv'
<1>1. SetupSound' /\ setup'.drifts = setup.drifts
  BY SpendKeeps DEF EngineIInv, onTimeline, Event, SetupSound
<1>2. EngineTypeOK'
  BY <1>1, SoughtNever DEF EngineIInv, EngineSound, EngineTypeOK, onTimeline, shellVars,
              envVars, SetupSound, PATIENCE
<1>3. ~(sought' < COOLDOWN)
  BY SoughtNever DEF onTimeline
<1>4. QED
  BY <1>1, <1>2, <1>3
     DEF onTimeline, shellVars, envVars, EngineIInv, EngineSound,
         EngineDrivesLive, OffMeansOff, StoodDownAtRateOne, SnappedMeansSeekFirst,
         PlayerSound, StandsDown, Agrees, SeekAwaited, SeeksCoolDown, Live

(* Time passes.                                                             *)
LEMMA ElapsedKeeps ==
    ASSUME EngineIInv, NEW n \in Nat, ctl' = Elapse(ctl, n),
           sought' = AtMost(sought + n, Never), SetupSound', setup'.drifts = setup.drifts,
           UNCHANGED <<shellVars, player, envVars, eng, engVars, probes, alone, hasty>>
    PROVE  EngineIInv'
<1>1. /\ ctl' \in Ctl(setup'.drifts) /\ ctl'.kind = ctl.kind /\ ctl'.st = ctl.st
      /\ ctl'.since = AtMost(ctl.since + n, Never)
  BY EngineFacts, ElapseCtl
<1>2. /\ sought' \in 0..Never
      /\ sought' < COOLDOWN =>
           /\ sought < COOLDOWN
           /\ ctl.since <= sought => ctl'.since <= sought'
  BY <1>1, ElapsedCounts, EngineFacts, CtlFields
<1>3. EngineTypeOK'
  BY <1>1, <1>2 DEF EngineIInv, EngineSound, EngineTypeOK, shellVars, envVars, engVars,
              SetupSound, PATIENCE, Ctl
<1>4. SeekAwaited' /\ SeeksCoolDown'
  BY <1>1, <1>2 DEF EngineIInv, SeekAwaited, SeeksCoolDown, engVars
<1>5. QED
  BY <1>1, <1>3, <1>4
     DEF shellVars, envVars, engVars, EngineIInv, EngineSound,
         EngineDrivesLive, OffMeansOff, StoodDownAtRateOne, SnappedMeansSeekFirst,
         PlayerSound, StandsDown, Agrees, Live

LEMMA SleepKeeps ==
    ASSUME EngineIInv, Sleep
    PROVE  EngineIInv'
<1>1. SetupSound' /\ setup'.drifts = setup.drifts
  BY SpendKeeps DEF EngineIInv, Sleep, Event
<1>2. Never + STUCK \in Nat /\ AtMost(sought + (Never + STUCK), Never) = Never
  BY EngineFacts, Tuned DEF AtMost
<1>3. QED
  BY <1>1, <1>2, ElapsedKeeps DEF Sleep

LEMMA IdleTickKeeps ==
    ASSUME EngineIInv, IdleTick
    PROVE  EngineIInv'
BY ElapsedKeeps DEF IdleTick, EngineIInv, SetupSound

LEMMA PlayerMovesKeeps ==
    ASSUME EngineIInv, PlayerMoves
    PROVE  EngineIInv'
<1>1. PICK l \in setup.lives : player' = [player EXCEPT !.life = l]
  BY DEF PlayerMoves
<1>2. player \in [kind : Kinds, honours : BOOLEAN, life : Lifecycles, rate : Rates]
  BY EngineFacts DEF PlayerMoves, PlayerState, NoPlayer, EngineIInv, PlayerSound, Kinds
<1>3. /\ player' \in [kind : Kinds, honours : BOOLEAN, life : Lifecycles, rate : Rates]
      /\ player'.kind = player.kind /\ player'.honours = player.honours
      /\ player'.rate = player.rate
  BY <1>1, <1>2, EngineFacts
<1>4. EngineTypeOK' /\ SetupSound'
  BY <1>3 DEF EngineIInv, EngineSound, EngineTypeOK, PlayerMoves, shellVars, envVars, engVars,
              histVars, SetupSound, PATIENCE
<1>5. QED
  BY <1>3, <1>4
     DEF PlayerMoves, shellVars, envVars, engVars, histVars, EngineIInv, EngineSound,
         EngineDrivesLive, OffMeansOff, StoodDownAtRateOne, SnappedMeansSeekFirst,
         PlayerSound, StandsDown, Agrees, SeekAwaited, SeeksCoolDown, Live

LEMMA OnReconnectKeeps ==
    ASSUME EngineIInv, onReconnect
    PROVE  EngineIInv'
<1>1. /\ resume(ctl) \in Ctl(setup.drifts) /\ resume(ctl).kind = ctl.kind
      /\ resume(ctl).st = "LOCKED"
  BY EngineFacts, ResumeCtl
<1>2. /\ ctl' \in Ctl(setup.drifts) /\ ctl'.kind = ctl.kind
      /\ ctl'.st = "SUSPENDED" => ctl.st = "SUSPENDED"
      /\ ~enabled => ctl' = ctl
  BY <1>1, EngineFacts DEF onReconnect
<1>3. EngineTypeOK' /\ SetupSound'
  BY <1>2, SoughtNever DEF EngineIInv, EngineSound, EngineTypeOK, onReconnect, shellVars,
              SetupSound, PATIENCE, Ctl
<1>4. QED
  BY <1>2, <1>3, SoughtNever
     DEF onReconnect, shellVars, EngineIInv, EngineSound,
         EngineDrivesLive, OffMeansOff, StoodDownAtRateOne, SnappedMeansSeekFirst,
         PlayerSound, StandsDown, Agrees, SeekAwaited, SeeksCoolDown, Live

LEMMA SetEnabledKeeps ==
    ASSUME EngineIInv, setEnabled
    PROVE  EngineIInv'
<1>1. SetupSound' /\ setup'.drifts = setup.drifts
  BY SpendKeeps DEF EngineIInv, setEnabled, Event
<1>2. /\ ctl' \in Ctl(setup.drifts) /\ ctl'.kind = ctl.kind
      /\ player' \in PlayerState /\ player'.kind = player.kind
      /\ player'.honours = player.honours
      /\ ~Live => player' = player
      /\ player' = player \/ player'.rate = 0
      /\ syncEnabled' <=> ctl'.st # "SUSPENDED"
      /\ Live /\ ~syncEnabled' => player'.rate = 0
  <2>1. CASE ~syncEnabled
    BY <2>1, EngineFacts, ResumeCtl DEF setEnabled
  <2>2. CASE syncEnabled
    <3>1. suspend(ctl) \in Ctl(setup.drifts) /\ suspend(ctl).kind = ctl.kind
          /\ suspend(ctl).st = "SUSPENDED"
      BY EngineFacts, SuspendCtl
    <3>2. restoreRate(suspend(ctl)) /\ syncEnabled' = FALSE
      BY <2>2 DEF setEnabled
    <3>3. QED
      BY <3>1, <3>2, RestoreRateKeeps
  <2>3. QED
    BY <2>1, <2>2
<1>3. EngineTypeOK'
  BY <1>1, <1>2, SoughtNever DEF EngineIInv, EngineSound, EngineTypeOK, setEnabled, shellVars,
              SetupSound, PATIENCE, Ctl, PlayerState
<1>4. Live' <=> Live
  BY DEF setEnabled, shellVars, Live
<1>5. PlayerSound'
  BY <1>2 DEF setEnabled, shellVars, EngineIInv, PlayerSound, Live, EngineSound, EngineTypeOK,
              NoPlayer, Kinds
<1>6. ~(sought' < COOLDOWN) /\ (enabled' <=> syncEnabled') /\ (hasty' <=> hasty)
  BY SoughtNever DEF setEnabled
<1>7. EngineDrivesLive' /\ OffMeansOff' /\ StoodDownAtRateOne' /\ SnappedMeansSeekFirst' /\ StandsDown'
  BY <1>2, <1>4, <1>6
     DEF setEnabled, shellVars, EngineIInv, EngineSound,
         EngineDrivesLive, OffMeansOff, StoodDownAtRateOne, SnappedMeansSeekFirst, StandsDown
<1>8. QED
  BY <1>1, <1>3, <1>5, <1>6, <1>7
     DEF setEnabled, EngineIInv, EngineSound, Agrees, SeekAwaited, SeeksCoolDown

LEMMA OnVisibilityKeeps ==
    ASSUME EngineIInv, onVisibility
    PROVE  EngineIInv'
<1>1. SetupSound' /\ setup'.drifts = setup.drifts
  BY SpendKeeps DEF EngineIInv, onVisibility, Event
<1>2. /\ ctl' \in Ctl(setup.drifts) /\ ctl'.kind = ctl.kind
      /\ player' \in PlayerState /\ player'.kind = player.kind
      /\ player'.honours = player.honours
      /\ player' = player \/ player'.rate = 0
      /\ ctl'.st = "SUSPENDED" =>
           (ctl' = ctl /\ player' = player) \/ (Live => player'.rate = 0)
      /\ eng = 0 => player' = player /\ ctl' = ctl
      /\ ~enabled /\ ctl.st = "SUSPENDED" => ctl'.st = "SUSPENDED"
  <2>1. CASE eng = 0
    BY <2>1, EngineFacts DEF onVisibility
  <2>2. CASE eng # 0 /\ ~hidden
    <3>1. suspend(ctl) \in Ctl(setup.drifts) /\ suspend(ctl).kind = ctl.kind
          /\ suspend(ctl).st = "SUSPENDED"
      BY EngineFacts, SuspendCtl
    <3>2. restoreRate(suspend(ctl))
      BY <2>2 DEF onVisibility
    <3>3. QED
      BY <2>2, <3>1, <3>2, RestoreRateKeeps
  <2>3. CASE eng # 0 /\ hidden
    <3>1. resume(ctl) \in Ctl(setup.drifts) /\ resume(ctl).kind = ctl.kind
          /\ resume(ctl).st = "LOCKED"
      BY EngineFacts, ResumeCtl
    <3>2. ctl' = (IF enabled THEN resume(ctl) ELSE ctl) /\ player' = player
      BY <2>3 DEF onVisibility
    <3>3. QED
      BY <2>3, <3>1, <3>2, EngineFacts
  <2>4. QED
    BY <2>1, <2>2, <2>3
<1>3. EngineTypeOK'
  BY <1>1, <1>2, SoughtNever DEF EngineIInv, EngineSound, EngineTypeOK, onVisibility, shellVars, engVars,
              SetupSound, PATIENCE, Ctl, PlayerState
<1>4. (Live' <=> Live) /\ ~(sought' < COOLDOWN) /\ (hasty' <=> hasty)
  BY SoughtNever DEF onVisibility, shellVars, engVars, Live
<1>5. PlayerSound'
  <2>1. mount = 0 => player' = NoPlayer
    BY <1>2, PlayerFields DEF EngineIInv, PlayerSound, NoPlayer
  <2>2. QED
    BY <1>2, <2>1 DEF onVisibility, shellVars, engVars, EngineIInv, PlayerSound
<1>6. EngineDrivesLive' /\ OffMeansOff' /\ StoodDownAtRateOne' /\ SnappedMeansSeekFirst' /\ StandsDown'
  BY <1>2, <1>4
     DEF onVisibility, shellVars, engVars, EngineIInv, EngineSound,
         EngineDrivesLive, OffMeansOff, StoodDownAtRateOne, SnappedMeansSeekFirst, StandsDown
<1>7. QED
  BY <1>1, <1>3, <1>4, <1>5, <1>6
     DEF onVisibility, engVars, EngineIInv, EngineSound, Agrees, SeekAwaited, SeeksCoolDown

LEMMA MountSourceKeeps ==
    ASSUME EngineIInv, MountSource
    PROVE  EngineIInv'
<1>1. SetupSound' /\ setup'.drifts = setup.drifts
  BY SpendKeeps DEF EngineIInv, MountSource
<1>2. /\ player' \in PlayerState /\ player'.kind \in Kinds /\ player'.rate = 0
      /\ player'.kind = "html5" => player'.honours
  <2>1. PICK p \in setup.players :
          player' = [kind |-> p.kind, honours |-> p.honours, life |-> "unstarted", rate |-> 0]
    BY DEF MountSource
  <2>2. p.kind \in Kinds /\ p.honours \in BOOLEAN /\ (p.kind = "html5" => p.honours)
    BY DEF EngineIInv, SetupSound
  <2>3. player' \in [kind : Kinds, honours : BOOLEAN, life : Lifecycles, rate : Rates]
    BY <2>1, <2>2 DEF Lifecycles, Rates
  <2>4. QED
    BY <2>1, <2>2, <2>3 DEF PlayerState
<1>3. mounts' \in Nat /\ mount' = mounts' /\ mount' # 0 /\ adapterRef' = 0
  BY EngineFacts DEF MountSource
<1>4. EngineTypeOK'
  <2>1. adapter' \in 0..mounts' /\ probes' \subseteq [eng : 1..eng', mount : 1..mounts']
    BY DEF EngineIInv, EngineSound, EngineTypeOK, MountSource, engVars
  <2>2. QED
    BY <1>1, <1>2, <1>3, <2>1 DEF EngineIInv, EngineSound, EngineTypeOK, MountSource, envVars,
                engVars, histVars, SetupSound, PATIENCE, PlayerState
<1>5. ~Live'
  BY <1>3 DEF Live
<1>6. QED
  BY <1>1, <1>2, <1>3, <1>4, <1>5
     DEF MountSource, envVars, engVars, histVars, EngineIInv, EngineSound,
         EngineDrivesLive, OffMeansOff, StoodDownAtRateOne, SnappedMeansSeekFirst,
         PlayerSound, StandsDown, Agrees, SeekAwaited, SeeksCoolDown

LEMMA HandleFailureKeeps ==
    ASSUME EngineIInv, handleFailure
    PROVE  EngineIInv'
<1>1. EngineTypeOK' /\ SetupSound'
  BY DEF EngineIInv, EngineSound, EngineTypeOK, handleFailure, envVars,
              engVars, histVars, SetupSound, PATIENCE
<1>2. ~Live'
  BY DEF Live, handleFailure
<1>3. player'.rate = 0 /\ player'.kind = "none"
  BY DEF handleFailure, NoPlayer
<1>4. QED
  BY <1>1, <1>2, <1>3
     DEF handleFailure, envVars, engVars, histVars, EngineIInv, EngineSound,
         EngineDrivesLive, OffMeansOff, StoodDownAtRateOne, SnappedMeansSeekFirst,
         PlayerSound, StandsDown, Agrees, SeekAwaited, SeeksCoolDown

LEMMA HandleAdapterKeeps ==
    ASSUME EngineIInv, handleAdapter
    PROVE  EngineIInv'
<1>1. mount \in Nat \ {0} /\ mount = mounts /\ adapterRef = 0 /\ player.rate = 0 /\ adapterRef' = mount
  BY EngineFacts DEF handleAdapter, EngineIInv, PlayerSound
<1>2. /\ player' \in PlayerState /\ player'.kind = player.kind
      /\ player'.honours = player.honours
      /\ eng = 0 \/ player.kind = "html5" => player' = player
  <2>1. 1 \in Rates
    BY DEF Rates
  <2>2. CASE eng # 0
    BY <2>1, <2>2, EngineFacts, SetRatePlayer DEF handleAdapter, attachAdapter
  <2>3. CASE eng = 0
    BY <2>3, EngineFacts DEF handleAdapter
  <2>4. QED
    BY <2>2, <2>3
<1>3. /\ adapter' \in 0..mounts /\ probes' \subseteq [eng : 1..eng, mount : 1..mounts]
      /\ eng = 0 => adapter' = 0
      /\ eng # 0 => adapter' = mount /\ [eng |-> eng, mount |-> mount] \in probes'
  BY <1>1 DEF handleAdapter, attachAdapter, EngineIInv, EngineSound, EngineTypeOK, PlayerSound
<1>4. EngineTypeOK' /\ SetupSound'
  BY <1>1, <1>2, <1>3 DEF EngineIInv, EngineSound, EngineTypeOK, handleAdapter, envVars,
              histVars, SetupSound, PATIENCE, PlayerState
<1>5. Live' => /\ eng # 0 /\ [eng |-> eng', mount |-> adapter'] \in probes'
               /\ \E p \in probes' : p.mount = adapter'
  BY <1>3 DEF Live, handleAdapter
<1>6. EngineDrivesLive' /\ OffMeansOff' /\ StoodDownAtRateOne' /\ SnappedMeansSeekFirst'
  BY <1>1, <1>3, <1>5
     DEF handleAdapter, envVars, EngineIInv, EngineSound,
         EngineDrivesLive, OffMeansOff, StoodDownAtRateOne, SnappedMeansSeekFirst
<1>7. PlayerSound' /\ StandsDown'
  BY <1>1, <1>2, <1>3 DEF handleAdapter, EngineIInv, PlayerSound, StandsDown
<1>8. QED
  BY <1>4, <1>6, <1>7
     DEF handleAdapter, envVars, histVars, EngineIInv, EngineSound, Agrees, SeekAwaited, SeeksCoolDown

LEMMA NewEngineKeeps ==
    ASSUME EngineIInv, NewEngine
    PROVE  EngineIInv'
<1> DEFINE c == NewController(setup.arm)
           probing == IF adapterRef = 0 \/ player.kind = "html5" THEN player
                      ELSE setRate(player, 1).player
<1>1. SetupSound' /\ setup'.drifts = setup.drifts
  BY SpendKeeps DEF EngineIInv, NewEngine
<1>2. c \in Ctl(setup.drifts)
  BY EngineFacts, NewCtl
<1>3. /\ probing \in PlayerState /\ probing.kind = player.kind
      /\ probing.honours = player.honours
      /\ adapterRef = 0 => probing = player
  BY EngineFacts, SetRatePlayer DEF Rates
<1>4. IF syncEnabled THEN ctl' = resume(c) /\ player' = probing
      ELSE /\ ctl' = suspend(c)
           /\ player' = IF adapterRef = 0 THEN player ELSE setRate(probing, 0).player
  BY DEF NewEngine
<1> HIDE DEF c, probing
<1>5. ctl' \in Ctl(setup.drifts) /\ ctl'.st = IF syncEnabled THEN "LOCKED" ELSE "SUSPENDED"
  BY <1>2, <1>4, ResumeCtl, SuspendCtl
<1>6. /\ player' \in PlayerState /\ player'.kind = player.kind
      /\ player'.honours = player.honours
      /\ adapterRef = 0 => player' = player
      /\ adapterRef # 0 /\ ~syncEnabled => player'.rate = 0
  BY <1>3, <1>4, EngineFacts, RestoredPlayer
<1>7. /\ eng' \in Nat \ {0} /\ eng' = eng + 1 /\ adapter' = adapterRef
      /\ probes' \subseteq [eng : 1..eng', mount : 1..mounts]
      /\ adapterRef # 0 => [eng |-> eng', mount |-> adapter'] \in probes'
  <2>1. eng \in Nat /\ adapterRef \in 0..mounts /\ probes \subseteq [eng : 1..eng, mount : 1..mounts]
    BY DEF EngineIInv, EngineSound, EngineTypeOK
  <2>2. probes \subseteq [eng : 1..(eng + 1), mount : 1..mounts]
    BY <2>1
  <2>3. adapterRef # 0 => [eng |-> eng + 1, mount |-> adapterRef] \in [eng : 1..(eng + 1), mount : 1..mounts]
    BY <2>1
  <2>4. QED
    BY <2>1, <2>2, <2>3 DEF NewEngine
<1>8. EngineTypeOK'
  <2>1. 0 \in 0..(GESTURE + 1) /\ adapterRef \in 0..mounts
    BY PlayerAssumption, EngineFacts
  <2>2. QED
    BY <1>1, <1>5, <1>6, <1>7, <2>1, SoughtNever
       DEF EngineIInv, EngineSound, EngineTypeOK, NewEngine, shellVars,
           SetupSound, PATIENCE, PlayerState, Ctl
<1>9. Live' => [eng |-> eng', mount |-> adapter'] \in probes' /\ \E p \in probes' : p.mount = adapter'
  BY <1>7 DEF Live
<1>10. EngineDrivesLive' /\ OffMeansOff' /\ StoodDownAtRateOne' /\ SnappedMeansSeekFirst'
  BY <1>5, <1>7, <1>9
     DEF NewEngine, shellVars, EngineDrivesLive, OffMeansOff, StoodDownAtRateOne,
         SnappedMeansSeekFirst
<1>11. PlayerSound' /\ StandsDown'
  <2>1. mount = 0 => adapterRef = 0
    BY EngineFacts
  <2>2. PlayerSound'
    BY <1>6, <1>7, <2>1 DEF NewEngine, shellVars, EngineIInv, PlayerSound
  <2>3. StandsDown'
    BY <1>5, <1>6, <1>7 DEF NewEngine, shellVars, StandsDown, Live
  <2>4. QED
    BY <2>2, <2>3
<1>12. Agrees' /\ SeekAwaited' /\ SeeksCoolDown'
  BY SoughtNever DEF NewEngine, EngineIInv, Agrees, SeekAwaited, SeeksCoolDown
<1>13. QED
  BY <1>1, <1>8, <1>10, <1>11, <1>12 DEF EngineIInv, EngineSound

LEMMA ProbeEndsKeeps ==
    ASSUME EngineIInv, NEW p \in probes, ProbeEnds(p)
    PROVE  EngineIInv'
<1> DEFINE here == p.mount = adapterRef
           restored == IF here /\ player.kind # "html5" THEN setRate(player, 0).player
                       ELSE player
<1>1. PICK ok \in BOOLEAN :
        LET falls == Concerns(p) /\ ~ok /\ ctl.kind = "servo" IN
        /\ ok => ~here \/ player.honours
        /\ fractionalRateOK' = IF Concerns(p) THEN ok ELSE fractionalRateOK
        /\ ctl' = IF falls THEN SeekFirst ELSE ctl
        /\ player' = IF falls /\ Live THEN setRate(restored, 0).player ELSE restored
        /\ sought' = IF falls THEN Never ELSE sought
  BY Zenon DEF ProbeEnds
<1> DEFINE falls == Concerns(p) /\ ~ok /\ ctl.kind = "servo"
<1>2. /\ restored \in PlayerState /\ restored.kind = player.kind
      /\ restored.honours = player.honours
      /\ restored = player \/ restored.rate = 0
      /\ here /\ player.kind # "html5" => restored.rate = 0
      /\ ~here => restored = player
  BY EngineFacts, RestoredPlayer
<1> HIDE DEF restored
<1>3. /\ player' \in PlayerState /\ player'.kind = player.kind
      /\ player'.honours = player.honours
      /\ player' = player \/ player'.rate = 0
      /\ here /\ player.kind # "html5" => player'.rate = 0
      /\ falls /\ Live => player'.rate = 0
  BY <1>1, <1>2, RestoredPlayer
<1>4. /\ ctl' \in Ctl(setup.drifts)
      /\ falls \/ ctl' = ctl
      /\ falls => ctl'.kind = "seek" /\ sought' = Never
      /\ ~falls => sought' = sought
      /\ falls /\ ~enabled => ctl'.st = "SUSPENDED"
  BY <1>1, EngineFacts, FallsCtl
<1>5. Live' <=> Live
  BY DEF ProbeEnds, shellVars, Live
<1>6. EngineTypeOK' /\ SetupSound'
  <2>1. fractionalRateOK' \in BOOLEAN /\ sought' \in 0..Never
    BY <1>1, <1>4, SoughtNever DEF EngineIInv, EngineSound, EngineTypeOK
  <2>2. QED
    BY <1>3, <1>4, <2>1 DEF EngineIInv, EngineSound, EngineTypeOK, ProbeEnds, shellVars, envVars,
              SetupSound, PATIENCE, PlayerState, Ctl
<1>7. PlayerSound'
  <2>1. mount = 0 => player' = NoPlayer
    BY <1>3, PlayerFields DEF EngineIInv, PlayerSound, NoPlayer
  <2>2. QED
    BY <1>3, <2>1 DEF ProbeEnds, shellVars, EngineIInv, PlayerSound
<1>8. StandsDown'
  BY <1>3, <1>4, <1>5 DEF ProbeEnds, shellVars, EngineIInv, StandsDown
<1>9. StoodDownAtRateOne'
  <2>1. SUFFICES ASSUME Live, ctl'.st = "SUSPENDED", ~\E q \in probes' : q.mount = adapter
                 PROVE  player'.rate = 0
    BY <1>5 DEF StoodDownAtRateOne, ProbeEnds
  <2>2. CASE here
    BY <1>3, <1>5, <1>8, <2>1, <2>2 DEF StandsDown
  <2>3. CASE ~here
    <3>1. ~Concerns(p) /\ p.mount # adapter
      BY <2>1, <2>3 DEF Live, Concerns
    <3>2. ctl' = ctl /\ player' = player
      BY <1>1, <1>2, <2>3, <3>1
    <3>3. ~\E q \in probes : q.mount = adapter
      BY <2>1, <3>1 DEF ProbeEnds
    <3>4. QED
      BY <2>1, <3>2, <3>3 DEF EngineIInv, EngineSound, StoodDownAtRateOne
  <2>4. QED
    BY <2>2, <2>3
<1>10. SnappedMeansSeekFirst'
  <2>1. SUFFICES ASSUME Live, ~player.honours, [eng |-> eng, mount |-> adapter] \notin probes'
                 PROVE  ctl'.kind = "seek" /\ ~fractionalRateOK'
    BY <1>3, <1>5 DEF SnappedMeansSeekFirst, ProbeEnds
  <2>2. CASE Concerns(p)
    <3>1. ~ok
      BY <1>1, <2>1, <2>2 DEF Concerns, Live
    <3>2. fractionalRateOK' = FALSE
      BY <1>1, <2>2, <3>1
    <3>3. ctl'.kind = "seek"
      BY <1>4, <2>2, <3>1, EngineFacts, CtlFields
    <3>4. QED
      BY <3>2, <3>3
  <2>3. CASE ~Concerns(p)
    <3>1. p # [eng |-> eng, mount |-> adapter]
      BY <2>3 DEF Concerns
    <3>2. [eng |-> eng, mount |-> adapter] \notin probes
      BY <2>1, <3>1 DEF ProbeEnds
    <3>3. ctl' = ctl /\ fractionalRateOK' = fractionalRateOK
      BY <1>1, <2>3
    <3>4. QED
      BY <2>1, <3>2, <3>3 DEF EngineIInv, EngineSound, SnappedMeansSeekFirst
  <2>4. QED
    BY <2>2, <2>3
<1>11. EngineDrivesLive' /\ OffMeansOff' /\ Agrees' /\ SeekAwaited' /\ SeeksCoolDown'
  BY <1>4, SoughtNever DEF ProbeEnds, shellVars, envVars, EngineIInv, EngineSound,
              EngineDrivesLive, OffMeansOff, Agrees, SeekAwaited, SeeksCoolDown
<1>12. QED
  BY <1>6, <1>7, <1>8, <1>9, <1>10, <1>11 DEF EngineIInv, EngineSound

(* What carrying out action a leaves of controller c and player p: x.       *)
Executed(c, a, p, x) ==
    /\ x.c \in Ctl(setup.drifts) /\ x.p \in PlayerState
    /\ x.p.kind = p.kind /\ x.p.honours = p.honours
    /\ x.ok = fractionalRateOK \/ x.ok = FALSE
    /\ \/ x.c.kind = c.kind /\ x.c.st = c.st /\ x.c.since = c.since
       \/ /\ a \in {"slow", "one", "fast"} /\ x.c.kind = "seek" /\ x.p.rate = 0
          /\ ~enabled => x.c.st = "SUSPENDED"
    /\ a \in {"none", "clear-rate"} => x.p = p \/ x.p.rate = 0

LEMMA ExecuteKeeps ==
    ASSUME EngineIInv, NEW c \in Ctl(setup.drifts), NEW a \in Actions, NEW p \in PlayerState
    PROVE  Executed(c, a, p, execute(c, a, p))
<1> DEFINE x == execute(c, a, p)
           asked == setRate(p, Asked(a))
<1>1. CASE a \in {"slow", "one", "fast"}
  <2>1. Asked(a) \in Rates
    BY <1>1 DEF Asked, Rates
  <2>2. asked.player \in PlayerState /\ asked.player.kind = p.kind /\ asked.player.honours = p.honours
    BY <2>1, SetRatePlayer
  <2>3. \/ /\ asked.applied = Asked(a)
           /\ x = [c |-> RateApplied(c, asked.applied), p |-> asked.player, ok |-> fractionalRateOK]
        \/ x = [c |-> SeekFirst, p |-> setRate(asked.player, 0).player, ok |-> FALSE]
        \/ x = [c |-> c, p |-> asked.player, ok |-> FALSE]
    BY <1>1 DEF execute
  <2> HIDE DEF asked, x
  <2>4. CASE /\ asked.applied = Asked(a)
             /\ x = [c |-> RateApplied(c, asked.applied), p |-> asked.player, ok |-> fractionalRateOK]
    BY <1>1, <2>1, <2>2, <2>4, AppliedCtl DEF x, Executed
  <2>5. CASE x = [c |-> SeekFirst, p |-> setRate(asked.player, 0).player, ok |-> FALSE]
    BY <1>1, <2>2, <2>5, FallsCtl, RestoredPlayer DEF x, Executed
  <2>6. CASE x = [c |-> c, p |-> asked.player, ok |-> FALSE]
    BY <1>1, <2>2, <2>6 DEF x, Executed
  <2>7. QED
    BY <2>3, <2>4, <2>5, <2>6
<1>2. CASE a \in {"seek", "clear-rate"}
  <2>1. x = [c |-> RateApplied(c, 0), p |-> setRate(p, 0).player, ok |-> fractionalRateOK]
    BY <1>2 DEF execute
  <2> HIDE DEF x
  <2>2. QED
    BY <2>1, AppliedCtl, RestoredPlayer DEF x, Rates, Executed
<1>3. CASE a \notin {"slow", "one", "fast", "seek", "clear-rate"}
  <2>1. x = [c |-> c, p |-> p, ok |-> fractionalRateOK]
    BY <1>3 DEF execute
  <2> HIDE DEF x
  <2>2. QED
    BY <2>1 DEF x, Executed
<1>4. QED
  BY <1>1, <1>2, <1>3

LEMMA TickKeeps ==
    ASSUME EngineIInv, Tick
    PROVE  EngineIInv'
<1>1. PICK drift \in setup.drifts, r \in Rates, life \in setup.lives \cup {player.life} :
        LET c0 == Elapse(ctl, 1)
            e  == evaluate(c0, timeline, life, drift, fractionalRateOK, r)
            x  == execute(e.c, e.act, IF Live THEN player ELSE NoPlayer)
        IN /\ Live => life = player.life
           /\ ctl.kind = "seek" => r = 0
           /\ ctl' = x.c
           /\ player' = IF Live THEN x.p ELSE player
           /\ fractionalRateOK' = x.ok
           /\ playAttempts' = Attempts(e.act, life)
           /\ needsGesture' = (life # "playing" /\ (needsGesture \/ playAttempts' > GESTURE))
           /\ alone' = IF LeftAlone(e.act, x.c, life, drift)
                       THEN AtMost(alone + 1, PATIENCE + 1) ELSE 0
           /\ hasty' = (hasty \/ (e.act = "seek" /\ AtMost(sought + 1, Never) < COOLDOWN))
           /\ sought' = IF e.act = "seek" THEN 0 ELSE AtMost(sought + 1, Never)
  BY Zenon DEF Tick
<1> DEFINE c0 == Elapse(ctl, 1)
           e  == evaluate(c0, timeline, life, drift, fractionalRateOK, r)
           p  == IF Live THEN player ELSE NoPlayer
           x  == execute(e.c, e.act, p)
<1>2. /\ ctl' = x.c /\ player' = (IF Live THEN x.p ELSE player) /\ fractionalRateOK' = x.ok
      /\ playAttempts' = Attempts(e.act, life)
      /\ needsGesture' \in BOOLEAN
      /\ alone' \in {AtMost(alone + 1, PATIENCE + 1), 0}
      /\ hasty' = (hasty \/ (e.act = "seek" /\ AtMost(sought + 1, Never) < COOLDOWN))
      /\ sought' = IF e.act = "seek" THEN 0 ELSE AtMost(sought + 1, Never)
  BY <1>1
<1>3. /\ c0 \in Ctl(setup.drifts) /\ c0.kind = ctl.kind /\ c0.st = ctl.st
      /\ c0.since = AtMost(ctl.since + 1, Never)
  BY EngineFacts, ElapseCtl
<1>4. timeline \in {"none", "paused", "playing"} /\ life \in Lifecycles
  BY EngineFacts, PlayerFields DEF EngineIInv, EngineSound, EngineTypeOK
<1> HIDE DEF c0
<1>5. Answers(setup.drifts, c0, timeline, e)
  BY <1>3, <1>4, EngineFacts, EvaluateAnswers
<1>6. p \in PlayerState
  BY EngineFacts DEF PlayerState
<1> HIDE DEF e, p
<1>7. /\ x.c \in Ctl(setup.drifts) /\ x.p \in PlayerState
      /\ x.p.kind = p.kind /\ x.p.honours = p.honours
      /\ x.ok = fractionalRateOK \/ x.ok = FALSE
      /\ \/ x.c.kind = e.c.kind /\ x.c.st = e.c.st /\ x.c.since = e.c.since
         \/ /\ e.act \in {"slow", "one", "fast"} /\ x.c.kind = "seek" /\ x.p.rate = 0
            /\ ~enabled => x.c.st = "SUSPENDED"
      /\ e.act \in {"none", "clear-rate"} => x.p = p \/ x.p.rate = 0
  <2>1. e.c \in Ctl(setup.drifts) /\ e.act \in Actions
    BY <1>5 DEF Answers
  <2>2. Executed(e.c, e.act, p, x)
    BY <1>6, <2>1, ExecuteKeeps, Zenon
  <2>3. QED
    BY <2>2 DEF Executed
<1> HIDE DEF x
<1>8. /\ ctl' \in Ctl(setup.drifts)
      /\ ctl'.kind \in {ctl.kind, "seek"}
      /\ ~enabled /\ ctl.st = "SUSPENDED" => ctl'.st = "SUSPENDED"
      /\ ctl'.st = "SUSPENDED" =>
           \/ Live => player'.rate = 0
           \/ ctl.st = "SUSPENDED" /\ player' = player
  BY <1>2, <1>3, <1>5, <1>7 DEF Answers, p
<1>9. /\ player' \in PlayerState /\ player'.kind = player.kind
      /\ player'.honours = player.honours
      /\ ~Live => player' = player
      /\ fractionalRateOK' = fractionalRateOK \/ fractionalRateOK' = FALSE
  BY <1>2, <1>7, EngineFacts DEF p
<1>10. Live' <=> Live
  BY DEF Tick, shellVars, Live
<1>11. EngineTypeOK' /\ SetupSound'
  <2>1. playAttempts' \in 0..(GESTURE + 1)
    BY <1>2, PlayerAssumption DEF Attempts, AtMost, EngineIInv, EngineSound, EngineTypeOK
  <2>2. alone' \in 0..(PATIENCE + 1)
    <3>1. PATIENCE \in Nat
      BY Tuned DEF PATIENCE
    <3>2. alone \in 0..(PATIENCE + 1)
      BY DEF EngineIInv, EngineSound, EngineTypeOK
    <3>3. QED
      BY <1>2, <3>1, <3>2 DEF AtMost
  <2>3. {hasty', fractionalRateOK', needsGesture'} \subseteq BOOLEAN
    BY <1>2, <1>9 DEF EngineIInv, EngineSound, EngineTypeOK
  <2>4. sought' \in 0..Never
    BY <1>2, EngineFacts, Tuned DEF AtMost
  <2>5. QED
    BY <1>8, <1>9, <2>1, <2>2, <2>3, <2>4
       DEF EngineIInv, EngineSound, EngineTypeOK, Tick, shellVars, envVars,
           SetupSound, PATIENCE, PlayerState, Ctl
<1>12. PlayerSound'
  <2>1. mount = 0 => player' = NoPlayer
    BY <1>9, PlayerFields DEF EngineIInv, PlayerSound, NoPlayer
  <2>2. adapterRef = 0 => ~Live
    BY DEF Live
  <2>3. QED
    BY <1>9, <2>1, <2>2 DEF Tick, shellVars, EngineIInv, PlayerSound
<1>13. StandsDown' /\ StoodDownAtRateOne'
  BY <1>8, <1>9, <1>10 DEF Tick, EngineIInv, EngineSound, StandsDown, StoodDownAtRateOne
<1>14. SnappedMeansSeekFirst' /\ EngineDrivesLive' /\ OffMeansOff' /\ Agrees'
  BY <1>8, <1>9, <1>10
     DEF Tick, shellVars, envVars, EngineIInv, EngineSound, SnappedMeansSeekFirst,
         EngineDrivesLive, OffMeansOff, Agrees
<1>15. SeekAwaited' /\ SeeksCoolDown'
  <2>1. ASSUME AtMost(sought + 1, Never) < COOLDOWN
        PROVE  /\ c0.since <= AtMost(sought + 1, Never) /\ c0.since < COOLDOWN
               /\ Awaits(c0, timeline)
    <3>1. ctl.since \in 0..Never /\ sought \in 0..Never
      BY EngineFacts, CtlFields
    <3>2. sought < COOLDOWN /\ (ctl.since <= sought => c0.since <= AtMost(sought + 1, Never))
      BY <1>3, <2>1, <3>1, ElapsedCounts
    <3>3. /\ ctl.since <= sought
          /\ ctl.st \in {"SEEKING", "SUSPENDED"} \/ timeline = "paused"
      BY <3>2 DEF EngineIInv, SeekAwaited
    <3>4. c0.since <= AtMost(sought + 1, Never)
      BY <3>2, <3>3
    <3>5. c0.since < COOLDOWN
      BY <2>1, <3>1, <3>4, <1>3, CtlFields, Tuned DEF AtMost
    <3>6. QED
      BY <1>3, <3>3, <3>4, <3>5 DEF Awaits
  <2>2. ASSUME AtMost(sought + 1, Never) < COOLDOWN
        PROVE  e.act \notin {"seek", "slow", "one", "fast"} /\ Awaits(e.c, timeline)
    <3>1. c0.since \in Int
      BY <1>3, CtlFields
    <3>2. ~(c0.since >= COOLDOWN)
      BY <2>1, <2>2, <3>1, Tuned
    <3>3. QED
      BY <1>5, <2>1, <2>2, <3>2 DEF Answers
  <2>3. SeeksCoolDown'
    BY <1>2, <2>2 DEF EngineIInv, SeeksCoolDown
  <2>4. CASE e.act = "seek"
    <3>1. sought' = 0 /\ ctl'.since = 0 /\ ctl'.st = e.c.st /\ Awaits(e.c, timeline)
          /\ e.c.since = 0
      BY <1>2, <1>5, <1>7, <2>4 DEF Answers
    <3>2. QED
      BY <2>3, <3>1, Tuned DEF SeekAwaited, Awaits, Tick
  <2>5. CASE e.act # "seek" /\ AtMost(sought + 1, Never) < COOLDOWN
    <3>1. sought' = AtMost(sought + 1, Never) /\ ctl'.since = e.c.since /\ ctl'.st = e.c.st
      BY <1>2, <1>7, <2>2, <2>5
    <3>2. e.c.since \in {c0.since, 0} /\ c0.since <= sought' /\ c0.since \in 0..Never
      BY <1>3, <1>5, <2>1, <2>5, <3>1, CtlFields DEF Answers
    <3>3. ctl'.since <= sought' /\ ctl'.since < COOLDOWN
      BY <2>1, <2>5, <3>1, <3>2, EngineFacts, Tuned DEF AtMost
    <3>4. QED
      BY <2>2, <2>3, <2>5, <3>1, <3>3 DEF SeekAwaited, Awaits, Tick
  <2>6. CASE e.act # "seek" /\ ~(AtMost(sought + 1, Never) < COOLDOWN)
    BY <1>2, <2>3, <2>6 DEF SeekAwaited
  <2>7. QED
    BY <2>4, <2>5, <2>6
<1>16. QED
  BY <1>11, <1>12, <1>13, <1>14, <1>15 DEF EngineIInv, EngineSound

LEMMA EngineStep ==
    ASSUME EngineIInv, [EngineNext]_playerVars
    PROVE  EngineIInv'
<1>1. CASE EngineNext
  BY <1>1, MountSourceKeeps, HandleFailureKeeps, HandleAdapterKeeps, NewEngineKeeps,
     ProbeEndsKeeps, SetEnabledKeeps, OnVisibilityKeeps, OnReconnectKeeps,
     ConnectionLostKeeps, OnPongKeeps, EngineOnTimelineKeeps, ResumeFromGestureKeeps,
     PlayerMovesKeeps, SleepKeeps, IdleTickKeeps, TickKeeps DEF EngineNext
<1>2. CASE UNCHANGED playerVars
  BY <1>2 DEF playerVars, shellVars, envVars, engVars, histVars, EngineIInv, EngineSound,
              EngineTypeOK, EngineDrivesLive, OffMeansOff, StoodDownAtRateOne,
              SnappedMeansSeekFirst, SetupSound, PlayerSound, StandsDown, Agrees,
              SeekAwaited, SeeksCoolDown, Live, PATIENCE
<1>3. QED
  BY <1>1, <1>2

(* The engine on the page drives the player on the page, stays off when it  *)
(* is switched off, stands down by rate 1 and seeks where rates are         *)
(* snapped, for any players, drifts and tuning, and however often players   *)
(* and engines are replaced (SyncEngine, the shell's effects).              *)
THEOREM EngineSafety == EngineSpec => []EngineSound
<1>1. EngineIInv => EngineSound
  BY DEF EngineIInv
<1>2. QED
  BY <1>1, EngineInitial, EngineStep, PTL DEF EngineSpec

(* Seeks do not chase each other: within the cooldown of a corrective seek  *)
(* there is none, in either controller, unless in between the room's        *)
(* timeline changed, the controller was switched or resumed, the engine was *)
(* replaced, or a probe failed late and fallBackToSeekFirst installed a     *)
(* controller that knows of no seek (evaluate, SyncEngine).                 *)
THEOREM SeeksApart == EngineSpec => []SeeksCoolDown
<1>1. EngineIInv => SeeksCoolDown
  BY DEF EngineIInv
<1>2. QED
  BY <1>1, EngineInitial, EngineStep, PTL DEF EngineSpec

-----------------------------------------------------------------------------
(* The clocks.                                                              *)

LEMMA AbsWithin ==
    \A a, b, d \in Int : AbsOf(a - b) <= d <=> b - d <= a /\ a <= b + d
BY DEF AbsOf

(* A median is as good as the majority it is taken from.                    *)
LEMMA MedianOfMajority ==
    ASSUME NEW S \in SUBSET Int, IsFiniteSet(S), NEW v, \A i \in S : v[i] \in Int,
           NEW m \in S, ValueRank(S, v, m) = Cardinality(S) \div 2,
           NEW bad \in SUBSET S, Cardinality(bad) <= (Cardinality(S) - 1) \div 2,
           NEW T \in Int, NEW d \in Int, \A i \in S \ bad : T - d <= v[i] /\ v[i] <= T + d
    PROVE  T - d <= v[m] /\ v[m] <= T + d
<1> DEFINE Below == {j \in S : v[j] < v[m] \/ (v[j] = v[m] /\ j < m)}
           n == Cardinality(S)
           k == n \div 2
<1>1. /\ n \in Nat /\ IsFiniteSet(bad) /\ Cardinality(bad) \in Nat
      /\ Below \in SUBSET S /\ IsFiniteSet(Below) /\ Cardinality(Below) = k
  BY FS_CardinalityType, FS_Subset DEF ValueRank
<1>2. n > 0
  BY <1>1, FS_EmptySet
<1>3. /\ \A j \in Below : v[j] <= v[m]
      /\ m \notin Below
  OBVIOUS
<1>4. \A j \in S \ Below : v[j] >= v[m]
  OBVIOUS
<1> HIDE DEF Below
<1>5. ASSUME v[m] > T + d PROVE FALSE
  <2>1. S \ Below \in SUBSET bad
    <3>1. SUFFICES ASSUME NEW j \in S \ Below, j \notin bad PROVE FALSE
      OBVIOUS
    <3>2. v[j] >= v[m] /\ v[j] <= T + d /\ v[j] \in Int /\ v[m] \in Int
      BY <1>4, <3>1
    <3>3. QED
      BY <1>5, <3>2
  <2>2. Cardinality(S \ Below) <= Cardinality(bad)
    BY <1>1, <2>1, FS_Subset
  <2>3. S \cap Below = Below
    BY <1>1
  <2>4. Cardinality(S \ Below) = n - k
    <3>1. Cardinality(S \ Below) = Cardinality(S) - Cardinality(S \cap Below)
      BY FS_Difference
    <3>2. QED
      BY <1>1, <2>3, <3>1
  <2>5. QED
    BY <1>1, <1>2, <2>2, <2>4
<1>6. ASSUME v[m] < T - d PROVE FALSE
  <2>1. Below \cup {m} \in SUBSET bad
    <3>1. SUFFICES ASSUME NEW j \in Below \cup {m}, j \notin bad PROVE FALSE
      BY <1>1
    <3>2. v[j] <= v[m] /\ T - d <= v[j] /\ v[j] \in Int /\ v[m] \in Int
      BY <1>1, <1>3, <3>1
    <3>3. QED
      BY <1>6, <3>2
  <2>2. Cardinality(Below \cup {m}) <= Cardinality(bad)
    BY <1>1, <2>1, FS_Subset
  <2>3. Cardinality(Below \cup {m}) = k + 1
    BY <1>1, <1>3, FS_AddElement
  <2>4. QED
    BY <1>1, <1>2, <2>2, <2>3
<1>7. QED
  BY <1>5, <1>6

(* Somebody is the fastest.                                                 *)
LEMMA BestNonempty ==
    ASSUME NEW ss \in Seq(Sample), NEW t, Recent(ss, t) # {}
    PROVE  Best(ss, t) # {}
<1> DEFINE S == Recent(ss, t)
           R == {p \in S \X S : Before(ss, p[1], p[2])}
<1>1. /\ S \in SUBSET (1..Len(ss)) /\ Len(ss) \in Nat
      /\ \A i \in S : ss[i] \in Sample
  BY DEF Recent
<1>2. IsFiniteSet(S) /\ S \in SUBSET Int /\ Cardinality(S) \in Nat /\ Cardinality(S) # 0
  <2>1. IsFiniteSet(1..Len(ss))
    BY <1>1, FS_Interval
  <2> HIDE DEF S
  <2>2. IsFiniteSet(S)
    BY <1>1, <2>1, FS_Subset
  <2>3. Cardinality(S) \in Nat
    BY <2>2, FS_CardinalityType
  <2>4. Cardinality(S) # 0
    BY <2>2, FS_EmptySet DEF S
  <2>5. QED
    BY <1>1, <2>2, <2>3, <2>4
<1>3. \A i \in S : ss[i].delta \in Int /\ ss[i].t3 \in Int
  <2> HIDE DEF S
  <2>1. \A s \in Sample : s.delta \in Int /\ s.t3 \in Int
    BY DEF Sample
  <2>2. QED
    BY <1>1, <2>1
<1>4. \A i, j \in S : <<i, j>> \in R <=> Before(ss, i, j)
  OBVIOUS
<1>5. \A i \in S : {j \in S : <<j, i>> \in R} = {j \in Recent(ss, t) : Before(ss, j, i)}
  BY <1>4
<1> HIDE DEF S, R
<1>6. \A i \in S : <<i, i>> \notin R
  BY <1>2, <1>3, <1>4 DEF Before
<1>7. \A i, j \in S : i # j => <<i, j>> \in R \/ <<j, i>> \in R
  <2>1. SUFFICES ASSUME NEW i \in S, NEW j \in S, i # j PROVE Before(ss, i, j) \/ Before(ss, j, i)
    BY <1>4
  <2>2. PICK a \in Int, b \in Int, x \in Int, y \in Int :
          a = ss[i].delta /\ b = ss[j].delta /\ x = ss[i].t3 /\ y = ss[j].t3
    BY <1>3
  <2>3. i \in Int /\ j \in Int
    BY <1>2
  <2>4. \/ a < b \/ (a = b /\ x > y) \/ (a = b /\ x = y /\ i < j)
        \/ b < a \/ (b = a /\ y > x) \/ (b = a /\ y = x /\ j < i)
    BY <2>1, <2>3
  <2>5. QED
    BY <2>2, <2>4, Zenon DEF Before
<1>8. \A i, j, k \in S : <<i, j>> \in R /\ <<j, k>> \in R => <<i, k>> \in R
  <2>1. SUFFICES ASSUME NEW i \in S, NEW j \in S, NEW k \in S, Before(ss, i, j), Before(ss, j, k)
                 PROVE  Before(ss, i, k)
    BY <1>4
  <2>2. PICK a \in Int, b \in Int, c \in Int, x \in Int, y \in Int, z \in Int :
          /\ a = ss[i].delta /\ b = ss[j].delta /\ c = ss[k].delta
          /\ x = ss[i].t3 /\ y = ss[j].t3 /\ z = ss[k].t3
    BY <1>3
  <2>3. a < b \/ (a = b /\ x > y) \/ (a = b /\ x = y /\ i < j)
    BY <2>1, <2>2 DEF Before
  <2>4. b < c \/ (b = c /\ y > z) \/ (b = c /\ y = z /\ j < k)
    BY <2>1, <2>2 DEF Before
  <2>5. i \in Int /\ j \in Int /\ k \in Int
    BY <1>2
  <2>6. a < c \/ (a = c /\ x > z) \/ (a = c /\ x = z /\ i < k)
    BY <2>3, <2>4, <2>5
  <2>7. QED
    BY <2>2, <2>6, Zenon DEF Before
<1>9. 0 \in 0..(Cardinality(S) - 1)
  BY <1>2
<1>10. \E i \in S : RankIn(S, R, i) = 0
  BY <1>2, <1>6, <1>7, <1>8, <1>9, RankAttained
<1>11. PICK i \in S : Cardinality({j \in Recent(ss, t) : Before(ss, j, i)}) = 0
  BY <1>5, <1>10 DEF RankIn
<1>12. i \in Best(ss, t)
  BY <1>11, ClockAssumption DEF Best, S
<1>13. QED
  BY <1>12

(* The target is the median of the fastest.                                 *)
LEMMA MedianThetaOf ==
    ASSUME NEW ss \in Seq(Sample), NEW S \in SUBSET (DOMAIN ss), S # {}
    PROVE  \E m \in S : /\ MedianTheta(ss, S) = ss[m].theta
                        /\ ValueRank(S, [i \in S |-> ss[i].theta], m) = Cardinality(S) \div 2
<1> DEFINE v == [i \in S |-> ss[i].theta]
           k == Cardinality(S) \div 2
<1>1. S \in SUBSET (1..Len(ss)) /\ Len(ss) \in Nat
  OBVIOUS
<1>2. IsFiniteSet(S) /\ S \in SUBSET Int /\ Cardinality(S) \in Nat /\ Cardinality(S) # 0
  <2>1. IsFiniteSet(1..Len(ss))
    BY <1>1, FS_Interval
  <2>2. IsFiniteSet(S)
    BY <1>1, <2>1, FS_Subset
  <2>3. Cardinality(S) \in Nat
    BY <2>2, FS_CardinalityType
  <2>4. Cardinality(S) # 0
    BY <2>2, FS_EmptySet
  <2>5. QED
    BY <1>1, <2>2, <2>3, <2>4
<1>3. \A i \in S : v[i] \in Int
  <2>1. \A i \in DOMAIN ss : ss[i] \in Sample
    BY SeqDef, ElementOfSeq, <1>1
  <2>2. \A i \in DOMAIN ss : ss[i].theta \in Int
    BY <2>1 DEF Sample
  <2>3. QED
    BY <2>2
<1>4. k \in 0..(Cardinality(S) - 1)
  BY <1>2
<1>5. \A i \in S : ValueRank(S, v, i) =
        Cardinality({j \in S : ss[j].theta < ss[i].theta \/ (ss[j].theta = ss[i].theta /\ j < i)})
  <2>1. \A i \in S : {j \in S : v[j] < v[i] \/ (v[j] = v[i] /\ j < i)} =
                     {j \in S : ss[j].theta < ss[i].theta \/ (ss[j].theta = ss[i].theta /\ j < i)}
    OBVIOUS
  <2>2. QED
    BY <2>1 DEF ValueRank
<1>6. \E i \in S : ValueRank(S, v, i) = k
  <2> HIDE DEF v, k
  <2>1. QED
    BY <1>2, <1>3, <1>4, RankByValue
<1> DEFINE m == CHOOSE i \in S :
         Cardinality({j \in S : ss[j].theta < ss[i].theta \/ (ss[j].theta = ss[i].theta /\ j < i)}) = Cardinality(S) \div 2
<1>7. m \in S /\ ValueRank(S, v, m) = k
  <2>1. \E i \in S : Cardinality({j \in S : ss[j].theta < ss[i].theta \/ (ss[j].theta = ss[i].theta /\ j < i)}) = Cardinality(S) \div 2
    BY <1>5, <1>6
  <2>2. /\ m \in S
        /\ Cardinality({j \in S : ss[j].theta < ss[m].theta \/ (ss[j].theta = ss[m].theta /\ j < m)}) = Cardinality(S) \div 2
    BY <2>1, Zenon
  <2> HIDE DEF m
  <2>3. QED
    BY <1>5, <2>2
<1>8. MedianTheta(ss, S) = ss[m].theta
  BY DEF MedianTheta
<1>9. QED
  BY <1>7, <1>8

(* An estimate in the invariant is as good as the majority of its samples.  *)
LEMMA EstimateIsGood ==
    ASSUME ClockIInv
    PROVE  MedianHolds
<1> DEFINE ss == est.samples
           S == Selected
           v == [i \in S |-> ss[i].theta]
           T == TrueOffset
           n == Cardinality(S)
<1>1. SUFFICES ASSUME est.has, NEW d \in {ss[i].delta : i \in S},
                      Cardinality({i \in S : ss[i].delta > d
                                              \/ (set.at # -1 /\ ss[i].sent <= set.at)})
                        <= (n - 1) \div 2
               PROVE  AbsOf(est.target - T) <= d
  BY DEF MedianHolds
<1> DEFINE bad == {i \in S : ss[i].delta > d \/ (set.at # -1 /\ ss[i].sent <= set.at)}
<1>2. ss \in Seq(Sample) /\ est.target \in Int
  BY DEF ClockIInv, ClockTypeOK
<1>3. S \in SUBSET (DOMAIN ss) /\ S # {} /\ est.target = MedianTheta(ss, S)
  BY <1>1 DEF ClockIInv, EstimateSound, Selected, Best, Recent
<1>4. \A i \in S : ss[i].theta \in Int /\ ss[i].delta \in Int /\ ss[i].sent \in Int
  <2>1. \A s \in Sample : s.theta \in Int /\ s.delta \in Int /\ s.sent \in Int
    BY DEF Sample
  <2>2. \A i \in DOMAIN ss : ss[i] \in Sample
    BY <1>2
  <2>3. QED
    BY <1>3, <2>1, <2>2
<1>5. T \in Int /\ set.at \in Int
  BY DEF TrueOffset, Theta, LocalAt, ClockIInv, ClockTypeOK
<1>6. IsFiniteSet(S) /\ S \in SUBSET Int
  <2>1. S \in SUBSET (1..Len(ss)) /\ Len(ss) \in Nat
    BY <1>2, <1>3
  <2> HIDE DEF S, ss
  <2>2. IsFiniteSet(1..Len(ss))
    BY <2>1, FS_Interval
  <2>3. QED
    BY <2>1, <2>2, FS_Subset
<1>7. \A i \in S : SampleHolds(ss[i])
  BY <1>3 DEF ClockIInv, EstimateSound
<1>8. PICK m \in S : est.target = ss[m].theta /\ ValueRank(S, v, m) = n \div 2
  <2> HIDE DEF ss, S
  <2>1. QED
    BY <1>2, <1>3, MedianThetaOf
<1>9. d \in Int
  BY <1>4
<1> HIDE DEF ss, S, T
<1>10. \A i \in S : v[i] = ss[i].theta
  OBVIOUS
<1>11. \A i \in S \ bad : T - d <= v[i] /\ v[i] <= T + d
  <2>1. SUFFICES ASSUME NEW i \in S, i \notin bad PROVE T - d <= ss[i].theta /\ ss[i].theta <= T + d
    BY <1>10
  <2>2. ~(ss[i].delta > d) /\ (set.at = -1 \/ ~(ss[i].sent <= set.at))
    BY <2>1
  <2>3. AbsOf(ss[i].theta - T) <= ss[i].delta
    <3>1. set.at = -1 \/ ss[i].sent > set.at
      BY <1>4, <1>5, <2>2
    <3>2. QED
      BY <1>7, <3>1 DEF SampleHolds, T
  <2>4. PICK a \in Int, b \in Int : a = ss[i].theta /\ b = ss[i].delta
    BY <1>4
  <2>5. AbsOf(a - T) <= b /\ ~(b > d)
    BY <2>2, <2>3, <2>4
  <2>6. T - d <= a /\ a <= T + d
    BY <1>5, <1>9, <2>4, <2>5 DEF AbsOf
  <2>7. QED
    BY <2>4, <2>6
<1>12. \A i \in S : v[i] \in Int
  BY <1>4, <1>10
<1>13. T - d <= v[m] /\ v[m] <= T + d
  <2> HIDE DEF v
  <2>1. bad \in SUBSET S /\ Cardinality(bad) <= (Cardinality(S) - 1) \div 2
    BY <1>1
  <2> HIDE DEF bad
  <2>2. QED
    BY <1>5, <1>6, <1>8, <1>9, <1>11, <1>12, <2>1, MedianOfMajority
<1>14. QED
  <2>1. T - d <= est.target /\ est.target <= T + d
    BY <1>8, <1>10, <1>13
  <2>2. QED
    BY <1>2, <1>5, <1>9, <2>1, AbsWithin DEF T

LEMMA OffsetAfter ==
    ASSUME NEW r \in Nat, NEW c \in [at : Int, by : Int], c.at \in -1..r
    PROVE  2 * (Theta + r - (r + (IF c.at # -1 /\ r >= c.at THEN c.by ELSE 0))) =
             (IF c.at = -1 THEN 6 ELSE 6 - 2 * c.by)
<1>1. PICK at \in Int, by \in Int : at = c.at /\ by = c.by
  OBVIOUS
<1>2. at = -1 \/ r >= at
  BY <1>1
<1>3. 2 * (3 + r - (r + (IF at # -1 /\ r >= at THEN by ELSE 0))) = (IF at = -1 THEN 6 ELSE 6 - 2 * by)
  BY <1>2
<1>4. QED
  BY <1>1, <1>3 DEF Theta

LEMMA TrueOffsetIs ==
    ASSUME ClockTypeOK
    PROVE  TrueOffset = (IF set.at = -1 THEN 6 ELSE 6 - 2 * set.by)
BY OffsetAfter DEF TrueOffset, LocalAt, ClockTypeOK

LEMMA ClockInitial ==
    ASSUME ClockInit
    PROVE  ClockIInv
<1>1. est = NoEstimate /\ domain = <<>> /\ real = 0 /\ set = [at |-> -1, by |-> 0] /\ exchanges = 0
  BY DEF ClockInit
<1>2. ClockTypeOK
  BY <1>1, ClockAssumption DEF ClockTypeOK, NoEstimate
<1>3. QED
  BY <1>1, <1>2 DEF ClockIInv, EstimateSound, DomainSound, NoEstimate

(* A sample that is taken holds.                                            *)
LEMMA ExchangeHolds ==
    ASSUME ClockIInv, NEW way \in Ways, real - way[1] - way[2] >= 0,
           NEW s, s = [theta |-> ((real - way[1] - way[2] + way[1] + Theta)
                                    - LocalAt(real - way[1] - way[2]))
                                 + ((real - way[1] - way[2] + way[1] + Theta) - LocalAt(real)),
                       delta |-> LocalAt(real) - LocalAt(real - way[1] - way[2]),
                       t3 |-> LocalAt(real), sent |-> real - way[1] - way[2]],
           ~(s.delta < 0)
    PROVE  s \in Sample /\ SampleHolds(s)
<1>1. PICK a \in Nat, b \in Nat : a = way[1] /\ b = way[2]
  BY ClockAssumption
<1>2. PICK r \in Nat, at \in Int, by \in Int :
        r = real /\ at = set.at /\ by = set.by /\ (at = -1 \/ r >= at)
  <2>1. real \in Nat /\ set.at \in Int /\ set.by \in Int /\ (set.at = -1 \/ real >= set.at)
    BY DEF ClockIInv, ClockTypeOK
  <2>2. QED
    BY <2>1
<1> DEFINE sent == r - a - b
           was == sent + (IF at # -1 /\ sent >= at THEN by ELSE 0)
           is == r + (IF at # -1 /\ r >= at THEN by ELSE 0)
<1>3. LocalAt(real) = is /\ LocalAt(sent) = was
  BY <1>2 DEF LocalAt
<1>4. s = [theta |-> (sent + a + 3 - was) + (sent + a + 3 - is), delta |-> is - was,
           t3 |-> is, sent |-> sent]
  BY <1>1, <1>2, <1>3 DEF Theta
<1>5. sent \in Nat /\ is \in Int /\ was \in Int /\ sent <= r
  BY <1>1, <1>2
<1>6. is - was \in Nat
  BY <1>4, <1>5
<1>7. at = -1 => is - was = a + b
  OBVIOUS
<1>8. at = -1 \/ sent > at =>
        /\ is - was = a + b
        /\ (sent + a + 3 - was) + (sent + a + 3 - is) = (IF at = -1 THEN 6 ELSE 6 - 2 * by) + a - b
  BY <1>2
<1>9. s \in Sample
  BY <1>4, <1>5, <1>6 DEF Sample
<1>10. /\ s.sent = sent /\ s.delta = is - was
       /\ s.theta = (sent + a + 3 - was) + (sent + a + 3 - is)
  BY <1>4
<1> HIDE DEF sent, was, is
<1>11. TrueOffset = IF at = -1 THEN 6 ELSE 6 - 2 * by
  BY <1>2, TrueOffsetIs DEF ClockIInv
<1>12. set.at = -1 \/ s.sent > set.at => AbsOf(s.theta - TrueOffset) <= s.delta
  <2>1. SUFFICES ASSUME at = -1 \/ sent > at PROVE AbsOf(s.theta - TrueOffset) <= s.delta
    BY <1>2, <1>10
  <2>2. PICK T \in Int : T = TrueOffset
    BY <1>11
  <2>3. s.theta = T + a - b /\ s.delta = a + b
    BY <1>8, <1>10, <1>11, <2>1, <2>2
  <2>4. AbsOf(T + a - b - T) <= a + b
    BY DEF AbsOf
  <2>5. QED
    BY <2>2, <2>3, <2>4
<1>13. set.at = -1 => \E w \in Ways : s.delta = w[1] + w[2]
  BY <1>1, <1>2, <1>7, <1>10
<1>14. s.sent <= real
  BY <1>2, <1>5, <1>10
<1>15. QED
  BY <1>9, <1>12, <1>13, <1>14 DEF SampleHolds

(* A sample goes on holding.                                                *)
LEMMA StillHolds ==
    ASSUME ClockTypeOK, ClockTypeOK', NEW s \in Sample, SampleHolds(s),
           real' >= real, set' = set \/ (set.at = -1 /\ set'.at = real)
    PROVE  SampleHolds(s)'
<1>1. s.sent \in Int /\ real \in Int /\ real' \in Int /\ s.sent <= real
  BY DEF Sample, SampleHolds, ClockTypeOK
<1>2. CASE set' = set
  <2>1. TrueOffset' = TrueOffset
    <3>1. TrueOffset' = (IF set'.at = -1 THEN 6 ELSE 6 - 2 * set'.by)
      BY OffsetAfter DEF TrueOffset, LocalAt, ClockTypeOK
    <3>2. TrueOffset = (IF set.at = -1 THEN 6 ELSE 6 - 2 * set.by)
      BY TrueOffsetIs
    <3>3. QED
      BY <1>2, <3>1, <3>2
  <2>2. QED
    BY <1>1, <1>2, <2>1 DEF SampleHolds
<1>3. CASE set.at = -1 /\ set'.at = real
  <2>1. set'.at # -1
    BY <1>3 DEF ClockTypeOK
  <2>2. ~(s.sent > set'.at)
    BY <1>1, <1>3
  <2>3. QED
    BY <1>1, <2>1, <2>2 DEF SampleHolds
<1>4. QED
  BY <1>2, <1>3

(* The ring keeps the newest sample and nothing that was not in it.         *)
Remains(ss, s) == IF Len(Append(ss, s)) > RingSize THEN Tail(Append(ss, s)) ELSE Append(ss, s)

LEMMA RingKeepsNewest ==
    ASSUME NEW ss \in Seq(Sample), NEW s \in Sample,
           NEW kept, kept = Remains(ss, s)
    PROVE  /\ kept \in Seq(Sample) /\ Len(kept) \in DOMAIN kept /\ kept[Len(kept)] = s
           /\ \A i \in DOMAIN kept : kept[i] = s \/ \E j \in DOMAIN ss : kept[i] = ss[j]
<1> DEFINE all == Append(ss, s)
           n == Len(ss)
<1>1. /\ n \in Nat /\ all \in Seq(Sample) /\ Len(all) = n + 1 /\ all[n + 1] = s
      /\ \A i \in 1..n : all[i] = ss[i]
      /\ DOMAIN all = 1..(n + 1) /\ DOMAIN ss = 1..n
  OBVIOUS
<1>2. CASE ~(Len(all) > RingSize)
  BY <1>1, <1>2 DEF Remains
<1>3. CASE Len(all) > RingSize
  <2>1. n \in Nat \ {0}
    BY <1>1, <1>3, ClockAssumption
  <2>2. kept = Tail(all)
    BY <1>3 DEF Remains
  <2> HIDE DEF all, n
  <2>3. /\ Tail(all) \in Seq(Sample) /\ Len(Tail(all)) = n
        /\ \A i \in 1..n : Tail(all)[i] = all[i + 1]
    BY <1>1, <2>1, HeadTailProperties
  <2>4. DOMAIN kept = 1..n
    <3>1. kept \in Seq(Sample) /\ Len(kept) = n
      BY <2>2, <2>3
    <3>2. QED
      BY <3>1, LenProperties
  <2>5. kept[n] = s
    BY <1>1, <2>1, <2>2, <2>3
  <2>6. \A i \in 1..n : kept[i] = s \/ \E j \in 1..n : kept[i] = ss[j]
    <3>1. SUFFICES ASSUME NEW i \in 1..n, i # n PROVE \E j \in 1..n : kept[i] = ss[j]
      BY <2>5
    <3>2. i + 1 \in 1..n
      BY <1>1, <3>1
    <3>3. kept[i] = ss[i + 1]
      BY <1>1, <2>2, <2>3, <3>2
    <3>4. QED
      BY <3>2, <3>3
  <2>7. QED
    BY <1>1, <2>1, <2>2, <2>3, <2>4, <2>5, <2>6
<1>4. QED
  BY <1>2, <1>3

LEMMA RingKeeps ==
    ASSUME NEW ss \in Seq(Sample), NEW s \in Sample
    PROVE  /\ Remains(ss, s) \in Seq(Sample) /\ Len(Remains(ss, s)) \in DOMAIN Remains(ss, s)
           /\ Remains(ss, s)[Len(Remains(ss, s))] = s
           /\ \A i \in DOMAIN Remains(ss, s) :
                  Remains(ss, s)[i] = s \/ \E j \in DOMAIN ss : Remains(ss, s)[i] = ss[j]
<1> DEFINE kept == Remains(ss, s)
<1> HIDE DEF kept
<1>1. kept = Remains(ss, s)
  BY DEF kept
<1>2. QED
  BY <1>1, RingKeepsNewest

Estimates == [samples : Seq(Sample), has : BOOLEAN, applied : Int, target : Int,
              lastTick : Int, at : Int]

(* A recompute takes the median of the fastest; what it does not step is    *)
(* within what tick may slew.                                               *)
LEMMA Recomputed ==
    ASSUME NEW e \in Estimates, NEW t \in Int, Recent(e.samples, t) # {}
    PROVE  /\ recompute(e, t) \in Estimates
           /\ recompute(e, t).samples = e.samples
           /\ recompute(e, t).at = t
           /\ recompute(e, t).lastTick = e.lastTick
           /\ recompute(e, t).target = MedianTheta(e.samples, Best(e.samples, t))
           /\ Best(e.samples, t) # {}
           /\ AbsOf(recompute(e, t).target - recompute(e, t).applied) < 2 * SlewThreshold
<1>0. /\ e.samples \in Seq(Sample) /\ e.has \in BOOLEAN /\ e.applied \in Int
      /\ e.target \in Int /\ e.lastTick \in Int
      /\ e = [samples |-> e.samples, has |-> e.has, applied |-> e.applied,
              target |-> e.target, lastTick |-> e.lastTick, at |-> e.at]
  BY DEF Estimates
<1> DEFINE S == Best(e.samples, t)
           target == MedianTheta(e.samples, S)
           applied == IF Steps(e, target) THEN target ELSE e.applied
<1>1. S # {} /\ S \in SUBSET (DOMAIN e.samples)
  BY <1>0, BestNonempty DEF Best, Recent
<1>2. target \in Int
  <2>1. PICK m \in S : target = e.samples[m].theta
    BY <1>0, <1>1, MedianThetaOf
  <2>2. e.samples[m] \in Sample
    BY <1>0, <1>1
  <2>3. QED
    BY <2>1, <2>2 DEF Sample
<1>3. recompute(e, t) = [samples |-> e.samples, has |-> TRUE, applied |-> applied,
                         target |-> target, lastTick |-> e.lastTick, at |-> t]
  <2>1. recompute(e, t) = [e EXCEPT !.target = target, !.has = TRUE, !.at = t,
                                    !.applied = applied]
    BY DEF recompute
  <2> HIDE DEF target, S, applied
  <2>2. QED
    BY <2>1 DEF Estimates
<1> HIDE DEF target, S
<1>4. AbsOf(target - applied) < 2 * SlewThreshold /\ applied \in Int
  <2>1. PICK a \in Int : a = e.applied
    BY <1>0
  <2>2. SlewThreshold \in Nat \ {0}
    BY ClockAssumption
  <2>3. CASE Steps(e, target)
    <3>1. applied = target
      BY <2>3
    <3>2. QED
      BY <1>2, <2>2, <3>1 DEF AbsOf
  <2>4. CASE ~Steps(e, target)
    <3>1. ~(AbsOf(target - a) >= 2 * SlewThreshold) /\ applied = a
      BY <2>1, <2>4 DEF Steps
    <3>2. PICK x \in Int : x = AbsOf(target - a)
      BY <1>2 DEF AbsOf
    <3>3. AbsOf(target - a) < 2 * SlewThreshold
      <4>1. ~(x >= 2 * SlewThreshold)
        BY <3>1, <3>2
      <4>2. x < 2 * SlewThreshold
        BY <2>2, <4>1
      <4>3. QED
        BY <3>2, <4>2
    <3>4. QED
      BY <2>1, <3>1, <3>3
  <2>5. QED
    BY <2>3, <2>4
<1> HIDE DEF applied
<1>5. QED
  BY <1>0, <1>1, <1>2, <1>3, <1>4 DEF target, S, Estimates

(* What the estimator keeps goes on holding.                                *)
LEMMA SamplesStillHold ==
    ASSUME ClockTypeOK, ClockTypeOK', real' >= real, set' = set \/ (set.at = -1 /\ set'.at = real),
           \A i \in DOMAIN est'.samples : SampleHolds(est'.samples[i])
    PROVE  \A i \in DOMAIN est'.samples : SampleHolds(est.samples[i])'
<1>1. \A x \in Sample : SampleHolds(x) => SampleHolds(x)'
  BY StillHolds
<1>2. SUFFICES ASSUME NEW i \in DOMAIN est'.samples PROVE SampleHolds(est.samples[i])'
  OBVIOUS
<1>3. PICK x \in Sample : x = est'.samples[i]
  <2>1. est'.samples \in Seq(Sample)
    BY DEF ClockTypeOK
  <2>2. est'.samples[i] \in Sample
    BY <1>2, <2>1
  <2>3. QED
    BY <2>2
<1>4. SampleHolds(x)'
  BY <1>1, <1>2, <1>3
<1>5. QED
  BY <1>3, <1>4, Zenon DEF SampleHolds

(* An exchange.                                                             *)
LEMMA ExchangeStep ==
    ASSUME ClockIInv, NEW way \in Ways, Exchange(way)
    PROVE  ClockIInv'
<1> DEFINE sent == real - way[1] - way[2]
           s == [theta |-> ((sent + way[1] + Theta) - LocalAt(sent))
                           + ((sent + way[1] + Theta) - LocalAt(real)),
                 delta |-> LocalAt(real) - LocalAt(sent),
                 t3 |-> LocalAt(real), sent |-> sent]
           kept == Remains(est.samples, s)
           e == [est EXCEPT !.samples = kept]
<1>1. /\ est' = addSample(est, s) /\ sent >= 0
      /\ exchanges' = exchanges + 1 /\ UNCHANGED <<real, set, domain>>
  BY Zenon DEF Exchange
<1>2. ClockTypeOK /\ EstimateSound /\ DomainSound
  BY DEF ClockIInv
<1>3. DomainSound'
  BY <1>1, <1>2 DEF DomainSound
<1>4. /\ exchanges' \in Nat /\ real' \in Nat
      /\ set' \in [at : Int, by : Int] /\ set'.at \in -1..real'
      /\ domain' \in Seq(Int) /\ Len(domain') <= DomainRing
  BY <1>1, <1>2 DEF ClockTypeOK
<1>5. CASE s.delta < 0
  <2>1. est' = est
    BY <1>1, <1>5 DEF addSample
  <2>2. ClockTypeOK'
    BY <1>2, <1>4, <2>1 DEF ClockTypeOK
  <2>3. \A i \in DOMAIN est'.samples : SampleHolds(est.samples[i])'
    <3>1. \A i \in DOMAIN est'.samples : SampleHolds(est'.samples[i])
      BY <1>2, <2>1 DEF EstimateSound
    <3>2. real' >= real
      BY <1>1, <1>2 DEF ClockTypeOK
    <3>3. QED
      BY <1>1, <1>2, <2>2, <3>1, <3>2, SamplesStillHold
  <2>4. Selected' = Selected
    BY <2>1 DEF Selected
  <2>5. EstimateSound'
    BY <1>1, <1>2, <2>1, <2>3, <2>4 DEF EstimateSound
  <2>6. QED
    BY <1>3, <2>2, <2>5 DEF ClockIInv
<1>6. CASE ~(s.delta < 0)
  <2>1. s \in Sample /\ SampleHolds(s)
    BY <1>1, <1>6, ExchangeHolds
  <2>2. est' = recompute(e, s.t3)
    BY <1>1, <1>6 DEF addSample, Remains
  <2>3. s.t3 \in Int
    BY <2>1 DEF Sample
  <2> HIDE DEF s, sent
  <2>4. est.samples \in Seq(Sample)
    BY <1>2 DEF ClockTypeOK
  <2>5. /\ kept \in Seq(Sample) /\ Len(kept) \in DOMAIN kept /\ kept[Len(kept)] = s
        /\ \A i \in DOMAIN kept : kept[i] = s \/ \E j \in DOMAIN est.samples : kept[i] = est.samples[j]
    BY <2>1, <2>4, RingKeeps
  <2> HIDE DEF kept
  <2>6. e \in Estimates /\ e.samples = kept /\ e.lastTick = est.lastTick
    <3>1. est \in Estimates
      BY <1>2 DEF ClockTypeOK, Estimates
    <3>2. QED
      BY <2>5, <3>1 DEF Estimates
  <2>7. Recent(kept, s.t3) # {}
    <3>1. kept[Len(kept)].t3 = s.t3
      BY <2>5
    <3>2. s.t3 - kept[Len(kept)].t3 <= WINDOW
      BY <2>3, <3>1, ClockAssumption
    <3>3. QED
      BY <2>5, <3>2 DEF Recent
  <2> HIDE DEF e
  <2>8. /\ est' \in Estimates
        /\ est'.samples = kept /\ est'.at = s.t3 /\ est'.lastTick = est.lastTick
        /\ est'.target = MedianTheta(kept, Best(kept, s.t3))
        /\ Best(kept, s.t3) # {}
        /\ AbsOf(est'.target - est'.applied) < 2 * SlewThreshold
    BY <2>2, <2>3, <2>5, <2>6, <2>7, Recomputed
  <2>9. ClockTypeOK'
    BY <1>4, <2>8 DEF ClockTypeOK, Estimates
  <2>10. Selected' = Best(kept, s.t3)
    BY <2>8 DEF Selected, Best, Recent
  <2>11. \A i \in DOMAIN est'.samples : SampleHolds(est.samples[i])'
    <3>1. \A i \in DOMAIN est'.samples : SampleHolds(est'.samples[i])
      BY <1>2, <2>1, <2>5, <2>8 DEF EstimateSound
    <3>2. QED
      <4>1. real' >= real
        BY <1>1, <1>2 DEF ClockTypeOK
      <4>2. QED
        BY <1>1, <1>2, <2>9, <3>1, <4>1, SamplesStillHold
  <2>12. set'.at = -1 => est'.lastTick <= real'
    BY <1>1, <1>2, <2>8 DEF EstimateSound
  <2>13. EstimateSound'
    BY <2>8, <2>10, <2>11, <2>12 DEF EstimateSound
  <2>14. QED
    BY <1>3, <2>9, <2>13 DEF ClockIInv
<1>7. QED
  BY <1>5, <1>6

(* A slew closes in.                                                        *)
LEMMA SlewsTowards ==
    ASSUME NEW a \in Int, NEW g \in Int, NEW m \in Int, NEW d \in Int
    PROVE  LET n == IF AbsOf(g - a) <= m THEN g ELSE a + (IF g - a > 0 THEN m ELSE -m) IN
           /\ n \in Int
           /\ m >= 0 /\ AbsOf(g - a) < d => AbsOf(g - n) < d
BY DEF AbsOf

LEMMA Ticked ==
    ASSUME NEW e \in Estimates, NEW t \in Int, e.has
    PROVE  /\ tick(e, t) \in Estimates
           /\ tick(e, t).samples = e.samples /\ tick(e, t).at = e.at
           /\ tick(e, t).target = e.target /\ tick(e, t).has = e.has
           /\ tick(e, t).lastTick = t
           /\ (e.lastTick = -1 \/ t >= e.lastTick)
                /\ AbsOf(e.target - e.applied) < 2 * SlewThreshold =>
              AbsOf(tick(e, t).target - tick(e, t).applied) < 2 * SlewThreshold
<1> DEFINE maxStep == 2 * SlewRate * (t - e.lastTick)
           diff == e.target - e.applied
           slewed == IF AbsOf(diff) <= maxStep THEN e.target
                     ELSE e.applied + (IF diff > 0 THEN maxStep ELSE -maxStep)
           applied == IF e.lastTick = -1 THEN e.applied ELSE slewed
<1>1. tick(e, t) = [e EXCEPT !.applied = applied, !.lastTick = t]
  BY DEF tick
<1>2. PICK a \in Int, g \in Int, l \in Int : a = e.applied /\ g = e.target /\ l = e.lastTick
  BY DEF Estimates
<1>3. PICK m \in Int : m = maxStep /\ (t >= l => m >= 0)
  <2>1. SlewRate \in Nat
    BY ClockAssumption
  <2>2. PICK k \in Int : k = t - l
    OBVIOUS
  <2>3. 2 * SlewRate * k \in Int /\ (k >= 0 => 2 * SlewRate * k >= 0)
    BY <2>1
  <2>4. 2 * SlewRate * (t - l) \in Int /\ (t >= l => 2 * SlewRate * (t - l) >= 0)
    BY <2>2, <2>3
  <2>5. QED
    BY <1>2, <2>4
<1>4. PICK d \in Int : d = 2 * SlewThreshold
  BY ClockAssumption
<1>5. slewed = (IF AbsOf(g - a) <= m THEN g ELSE a + (IF g - a > 0 THEN m ELSE -m))
  BY <1>2, <1>3
<1> HIDE DEF slewed, maxStep
<1>6. slewed \in Int /\ (m >= 0 /\ AbsOf(g - a) < d => AbsOf(g - slewed) < d)
  BY <1>5, SlewsTowards
<1>7. applied \in Int
  BY <1>2, <1>6
<1>8. (l = -1 \/ t >= l) /\ AbsOf(g - a) < d => AbsOf(g - applied) < d
  BY <1>2, <1>3, <1>6
<1> HIDE DEF applied
<1>9. /\ tick(e, t) \in Estimates
      /\ tick(e, t).samples = e.samples /\ tick(e, t).at = e.at
      /\ tick(e, t).target = e.target /\ tick(e, t).has = e.has
      /\ tick(e, t).lastTick = t /\ tick(e, t).applied = applied
  BY <1>1, <1>7 DEF Estimates
<1>10. QED
  BY <1>2, <1>4, <1>8, <1>9

(* The control tick.                                                        *)
LEMMA EngineTickStep ==
    ASSUME ClockIInv, EngineTick
    PROVE  ClockIInv'
<1>1. /\ real' = real + 1 /\ est' = tick(est, LocalAt(real'))
      /\ set' = set /\ exchanges' = exchanges /\ domain' = domain
  BY DEF EngineTick
<1>2. ClockTypeOK /\ EstimateSound /\ DomainSound
  BY DEF ClockIInv
<1>3. /\ real \in Nat /\ real' \in Nat /\ real' >= real /\ est \in Estimates
      /\ LocalAt(real') \in Int
      /\ set.at = -1 => LocalAt(real') = real'
  BY <1>1, <1>2 DEF ClockTypeOK, Estimates, LocalAt
<1>4. DomainSound'
  BY <1>1, <1>2 DEF DomainSound
<1>5. est' \in Estimates /\ est'.samples = est.samples
  <2>1. CASE est.has
    BY <1>1, <1>3, <2>1, Ticked
  <2>2. CASE ~est.has
    <3>1. est' = est
      BY <1>1, <2>2 DEF tick
    <3>2. QED
      BY <1>3, <3>1
  <2>3. QED
    BY <2>1, <2>2
<1>6. ClockTypeOK'
  BY <1>1, <1>2, <1>3, <1>5 DEF ClockTypeOK, Estimates
<1>7. \A i \in DOMAIN est'.samples : SampleHolds(est.samples[i])'
  <2>1. \A i \in DOMAIN est'.samples : SampleHolds(est'.samples[i])
    BY <1>2, <1>5 DEF EstimateSound
  <2>2. QED
    BY <1>1, <1>2, <1>3, <1>6, <2>1, SamplesStillHold
<1>8. CASE ~est.has
  <2>1. est' = est
    BY <1>1, <1>8 DEF tick
  <2>2. set'.at = -1 => est'.lastTick <= real'
    BY <1>1, <1>2, <1>3, <2>1 DEF EstimateSound, ClockTypeOK
  <2>3. ~est'.has
    BY <1>8, <2>1
  <2>4. EstimateSound'
    BY <1>7, <2>2, <2>3 DEF EstimateSound
  <2>5. QED
    BY <1>4, <1>6, <2>4 DEF ClockIInv
<1>9. CASE est.has
  <2>1. /\ est'.samples = est.samples /\ est'.at = est.at
        /\ est'.target = est.target /\ est'.has = est.has
        /\ est'.lastTick = LocalAt(real')
        /\ (est.lastTick = -1 \/ LocalAt(real') >= est.lastTick)
             /\ AbsOf(est.target - est.applied) < 2 * SlewThreshold =>
           AbsOf(est'.target - est'.applied) < 2 * SlewThreshold
    BY <1>1, <1>3, <1>9, Ticked
  <2>2. Selected' = Selected
    BY <2>1 DEF Selected
  <2>3. set'.at = -1 => est'.lastTick <= real'
    BY <1>1, <1>3, <2>1
  <2>4. set'.at = -1 => AbsOf(est'.target - est'.applied) < 2 * SlewThreshold
    <3>1. SUFFICES ASSUME set.at = -1 PROVE AbsOf(est'.target - est'.applied) < 2 * SlewThreshold
      BY <1>1
    <3>2. PICK l \in Int : l = est.lastTick /\ l <= real
      BY <1>2, <3>1 DEF EstimateSound, ClockTypeOK
    <3>3. LocalAt(real') >= est.lastTick
      BY <1>3, <3>1, <3>2
    <3>4. QED
      BY <1>2, <1>9, <2>1, <3>1, <3>3 DEF EstimateSound
  <2>5. Selected' # {} /\ est'.target = MedianTheta(est'.samples, Selected')
    BY <1>2, <1>9, <2>1, <2>2 DEF EstimateSound
  <2>6. EstimateSound'
    BY <1>7, <2>3, <2>4, <2>5 DEF EstimateSound
  <2>7. QED
    BY <1>4, <1>6, <2>6 DEF ClockIInv
<1>10. QED
  BY <1>8, <1>9

(* A reconnect.                                                             *)
LEMMA ResetStep ==
    ASSUME ClockIInv, ResetEstimate
    PROVE  ClockIInv'
<1>1. /\ est' = NoEstimate /\ real' = real /\ set' = set /\ exchanges' = exchanges
      /\ domain' = domain
  BY DEF ResetEstimate
<1>2. ClockTypeOK'
  BY <1>1 DEF ClockIInv, ClockTypeOK, NoEstimate
<1>3. est'.samples = <<>> /\ est'.has = FALSE /\ est'.lastTick = -1 /\ real' \in Nat
  BY <1>1 DEF ClockIInv, ClockTypeOK, NoEstimate
<1>4. EstimateSound'
  BY <1>3 DEF EstimateSound
<1>5. DomainSound'
  BY <1>1 DEF ClockIInv, DomainSound
<1>6. QED
  BY <1>2, <1>4, <1>5 DEF ClockIInv

(* The client's clock is set.                                               *)
LEMMA SetClockStep ==
    ASSUME ClockIInv, NEW by \in ClockSteps, SetClock(by)
    PROVE  ClockIInv'
<1>1. /\ set.at = -1 /\ set' = [at |-> real, by |-> by]
      /\ real' = real /\ est' = est /\ exchanges' = exchanges /\ domain' = domain
  BY DEF SetClock
<1>2. ClockTypeOK /\ EstimateSound /\ DomainSound /\ by \in Int
  BY ClockAssumption DEF ClockIInv
<1>3. real \in Nat /\ set'.at = real /\ set'.at # -1
  BY <1>1, <1>2 DEF ClockTypeOK
<1>4. ClockTypeOK'
  BY <1>1, <1>2, <1>3 DEF ClockTypeOK
<1>5. \A i \in DOMAIN est'.samples : SampleHolds(est.samples[i])'
  <2>1. \A i \in DOMAIN est'.samples : SampleHolds(est'.samples[i])
    BY <1>1, <1>2 DEF EstimateSound
  <2>2. real' >= real
    BY <1>1, <1>3
  <2>3. QED
    BY <1>1, <1>2, <1>3, <1>4, <2>1, <2>2, SamplesStillHold
<1>6. Selected' = Selected
  BY <1>1 DEF Selected
<1>7. EstimateSound'
  BY <1>1, <1>2, <1>3, <1>5, <1>6 DEF EstimateSound
<1>8. DomainSound'
  BY <1>1, <1>2 DEF DomainSound
<1>9. QED
  BY <1>4, <1>7, <1>8 DEF ClockIInv

(* A measurement of an instance.                                            *)
LEMMA MeasureStep ==
    ASSUME ClockIInv, NEW way \in Ways, measure(way)
    PROVE  ClockIInv'
<1> DEFINE sample == -2 * Skew + way[1] - way[2]
           all == Append(domain, sample)
<1>1. /\ domain' = IF Len(all) > DomainRing THEN Tail(all) ELSE all
      /\ real' = real /\ set' = set /\ est' = est /\ exchanges' = exchanges
  BY DEF measure
<1>2. ClockTypeOK /\ EstimateSound /\ DomainSound
  BY DEF ClockIInv
<1>3. sample \in Int
  BY ClockAssumption DEF Skew
<1> DEFINE n == Len(domain)
<1>4. /\ n \in Nat /\ all \in Seq(Int) /\ Len(all) = n + 1 /\ all[n + 1] = sample
      /\ \A i \in 1..n : all[i] = domain[i]
      /\ n <= DomainRing /\ DomainRing \in Nat \ {0}
  BY <1>2, <1>3, ClockAssumption DEF ClockTypeOK
<1>5. \A i \in 1..(n + 1) : \E w \in Ways : all[i] = -2 * Skew + w[1] - w[2]
  <2>1. \A i \in 1..n : \E w \in Ways : domain[i] = -2 * Skew + w[1] - w[2]
    <3>1. domain \in Seq(Int)
      BY <1>2 DEF ClockTypeOK
    <3>2. DOMAIN domain = 1..n
      BY <3>1, LenProperties
    <3>3. QED
      BY <1>2, <3>2 DEF DomainSound
  <2>2. \A i \in 1..n : \E w \in Ways : all[i] = -2 * Skew + w[1] - w[2]
    BY <1>4, <2>1
  <2>3. \E w \in Ways : all[n + 1] = -2 * Skew + w[1] - w[2]
    BY <1>4
  <2> HIDE DEF all, n
  <2>4. QED
    BY <1>4, <2>2, <2>3
<1> HIDE DEF all, n, sample
<1>6. /\ domain' \in Seq(Int) /\ Len(domain') <= DomainRing
      /\ \A i \in DOMAIN domain' : \E w \in Ways : domain'[i] = -2 * Skew + w[1] - w[2]
  <2>1. CASE ~(Len(all) > DomainRing)
    <3>1. domain' = all /\ DOMAIN all = 1..(n + 1)
      BY <1>1, <1>4, <2>1
    <3>2. QED
      BY <1>4, <1>5, <2>1, <3>1
  <2>2. CASE Len(all) > DomainRing
    <3>1. domain' = Tail(all)
      BY <1>1, <2>2
    <3>2. /\ Tail(all) \in Seq(Int) /\ Len(Tail(all)) = n
          /\ \A i \in 1..n : Tail(all)[i] = all[i + 1]
      BY <1>4, HeadTailProperties
    <3>3. DOMAIN domain' = 1..n
      BY <3>1, <3>2, LenProperties
    <3>4. \A i \in 1..n : \E w \in Ways : domain'[i] = -2 * Skew + w[1] - w[2]
      BY <1>4, <1>5, <3>1, <3>2
    <3>5. QED
      BY <1>4, <3>1, <3>2, <3>3, <3>4
  <2>3. QED
    BY <2>1, <2>2
<1>7. ClockTypeOK'
  BY <1>1, <1>2, <1>6 DEF ClockTypeOK
<1>8. \A i \in DOMAIN est'.samples : SampleHolds(est.samples[i])'
  <2>1. \A i \in DOMAIN est'.samples : SampleHolds(est'.samples[i])
    BY <1>1, <1>2 DEF EstimateSound
  <2>2. real' >= real
    BY <1>1, <1>2 DEF ClockTypeOK
  <2>3. QED
    BY <1>1, <1>2, <1>7, <2>1, <2>2, SamplesStillHold
<1>9. Selected' = Selected
  BY <1>1 DEF Selected
<1>10. EstimateSound'
  BY <1>1, <1>2, <1>8, <1>9 DEF EstimateSound
<1>11. DomainSound'
  BY <1>6 DEF DomainSound
<1>12. QED
  BY <1>7, <1>10, <1>11 DEF ClockIInv

(* Nobody moves.                                                            *)
LEMMA ClocksStand ==
    ASSUME ClockIInv, UNCHANGED clockVars
    PROVE  ClockIInv'
<1>1. /\ real' = real /\ set' = set /\ est' = est /\ exchanges' = exchanges
      /\ domain' = domain
  BY DEF clockVars
<1>2. ClockTypeOK /\ EstimateSound /\ DomainSound
  BY DEF ClockIInv
<1>3. ClockTypeOK' /\ real' >= real
  BY <1>1, <1>2 DEF ClockTypeOK
<1>4. \A i \in DOMAIN est'.samples : SampleHolds(est.samples[i])'
  <2>1. \A i \in DOMAIN est'.samples : SampleHolds(est'.samples[i])
    BY <1>1, <1>2 DEF EstimateSound
  <2>2. QED
    BY <1>1, <1>2, <1>3, <2>1, SamplesStillHold
<1>5. Selected' = Selected
  BY <1>1 DEF Selected
<1>6. EstimateSound'
  BY <1>1, <1>2, <1>4, <1>5 DEF EstimateSound
<1>7. DomainSound'
  BY <1>1, <1>2 DEF DomainSound
<1>8. QED
  BY <1>3, <1>6, <1>7 DEF ClockIInv

LEMMA ClockStep ==
    ASSUME ClockIInv, [ClockNext \/ DomainNext]_clockVars
    PROVE  ClockIInv'
<1>1. CASE ClockNext
  BY <1>1, ExchangeStep, EngineTickStep, ResetStep, SetClockStep DEF ClockNext
<1>2. CASE DomainNext
  BY <1>2, MeasureStep DEF DomainNext
<1>3. CASE UNCHANGED clockVars
  BY <1>3, ClocksStand
<1>4. QED
  BY <1>1, <1>2, <1>3

(* The players' clock is as near as a round trip and what may be slewed.    *)
LEMMA IsNearTruth ==
    ASSUME ClockIInv
    PROVE  NearTruth
<1>1. SUFFICES ASSUME est.has, set.at = -1
               PROVE  \E w \in Ways : AbsOf(est.applied - TrueOffset) < w[1] + w[2] + 2 * SlewThreshold
  BY DEF NearTruth
<1>2. est.samples \in Seq(Sample) /\ est.applied \in Int /\ est.target \in Int
  BY DEF ClockIInv, ClockTypeOK
<1>3. Selected \in SUBSET (DOMAIN est.samples) /\ Selected # {}
  BY <1>1 DEF ClockIInv, EstimateSound, Selected, Best, Recent
<1>4. PICK m \in Selected : est.target = est.samples[m].theta
  BY <1>1, <1>2, <1>3, MedianThetaOf DEF ClockIInv, EstimateSound
<1>5. est.samples[m] \in Sample /\ SampleHolds(est.samples[m])
  BY <1>2, <1>3 DEF ClockIInv, EstimateSound
<1>6. PICK w \in Ways : est.samples[m].delta = w[1] + w[2]
  BY <1>1, <1>5 DEF SampleHolds
<1>7. AbsOf(est.target - TrueOffset) <= w[1] + w[2]
  BY <1>1, <1>4, <1>5, <1>6 DEF SampleHolds
<1>8. PICK d \in Int, T \in Int, a \in Int, g \in Int, k \in Int :
        d = w[1] + w[2] /\ T = TrueOffset /\ a = est.applied /\ g = est.target
        /\ k = 2 * SlewThreshold
  <2>1. w[1] + w[2] \in Int /\ 2 * SlewThreshold \in Int
    BY ClockAssumption
  <2>2. TrueOffset \in Int
    BY <1>1, TrueOffsetIs DEF ClockIInv
  <2>3. QED
    BY <1>2, <2>1, <2>2
<1>9. AbsOf(g - a) < k /\ AbsOf(g - T) <= d
  BY <1>1, <1>7, <1>8 DEF ClockIInv, EstimateSound
<1>10. AbsOf(a - T) < d + k
  BY <1>9 DEF AbsOf
<1>11. QED
  BY <1>8, <1>10

-----------------------------------------------------------------------------
(* What a recursion over a history computes.                                *)

LEMMA CountedUp ==
    ASSUME NEW n \in Nat, NEW T, 0 \in T, \A i \in 1..n : i - 1 \in T => i \in T
    PROVE  0..n \subseteq T
<1> DEFINE out == {i \in Nat : i \in 0..n /\ i \notin T}
<1> SUFFICES ASSUME out # {} PROVE FALSE
  OBVIOUS
<1>1. out \subseteq Nat
  OBVIOUS
<1>2. PICK i \in out : \A j \in out : ~ (<<j, i>> \in OpToRel(<, Nat))
  <2> HIDE DEF out
  <2>. QED BY <1>1, WFMin, NatLessThanWellFounded
<1>3. i \in 1..n /\ i - 1 \in 0..n /\ i \notin T
  OBVIOUS
<1>4. i - 1 \in T
  <2>1. i - 1 < i /\ i - 1 \in Nat /\ i \in Nat
    BY <1>3
  <2>2. <<i - 1, i>> \in OpToRel(<, Nat)
    BY <2>1 DEF OpToRel
  <2>. QED BY <1>2, <1>3, <2>2, <2>1
<1>. QED BY <1>3, <1>4

IsFold(g, S, n, init, F) ==
    /\ g \in [0..n -> S]
    /\ g[0] = init
    /\ \A i \in 1..n : g[i] = F[i][g[i - 1]]

LEMMA FoldExists ==
    ASSUME NEW S, NEW n \in Nat, NEW init \in S, NEW F \in [1..n -> [S -> S]]
    PROVE  \E g : IsFold(g, S, n, init, F)
<1> DEFINE Good(g, m) == g \in [0..m -> S] /\ \A i \in 0..m : g[i] = IF i = 0 THEN init ELSE F[i][g[i - 1]]
           T == {m \in 0..n : \E g \in [0..m -> S] : Good(g, m)}
<1>1. 0 \in T
  <2>1. Good([i \in 0..0 |-> init], 0)
    OBVIOUS
  <2>2. [i \in 0..0 |-> init] \in [0..0 -> S] /\ 0 \in 0..n
    OBVIOUS
  <2> HIDE DEF Good
  <2>. QED BY <2>1, <2>2
<1>2. ASSUME NEW m \in 1..n, m - 1 \in T PROVE m \in T
  <2>1. PICK g \in [0..(m-1) -> S] : Good(g, m - 1)
    BY <1>2
  <2> DEFINE k == [i \in 0..m |-> IF i = m THEN F[m][g[m - 1]] ELSE g[i]]
  <2>2. g[m-1] \in S /\ F[m][g[m - 1]] \in S
    OBVIOUS
  <2>3. k \in [0..m -> S]
    BY <2>2
  <2>4. ASSUME NEW i \in 0..m PROVE k[i] = IF i = 0 THEN init ELSE F[i][k[i - 1]]
    <3>1. CASE i = m
      <4>1. i # 0 /\ i - 1 \in 0..m /\ i - 1 # m /\ i - 1 = m - 1
        BY <3>1
      <4>2. k[i] = F[m][g[m-1]] /\ k[i-1] = g[m-1]
        BY <4>1, <3>1
      <4>. QED BY <4>1, <4>2, <3>1
    <3>2. CASE i # m
      <4>1. i \in 0..(m-1) /\ (i # 0 => i - 1 \in 0..m /\ i - 1 # m)
        BY <3>2
      <4>2. k[i] = g[i] /\ (i # 0 => k[i-1] = g[i-1])
        BY <4>1, <3>2
      <4>. QED BY <4>1, <4>2, <2>1
    <3>. QED BY <3>1, <3>2
  <2>5. Good(k, m) /\ m \in 0..n
    <3> HIDE DEF k
    <3>. QED BY <2>3, <2>4
  <2> HIDE DEF Good, k
  <2>. QED BY <2>3, <2>5
<1>3. n \in T
  <2>1. 0..n \subseteq T
    <3> HIDE DEF T
    <3>. QED BY <1>1, <1>2, CountedUp
  <2>. QED BY <2>1
<1>4. PICK g \in [0..n -> S] : Good(g, n)
  BY <1>3
<1>5. g[0] = init /\ \A i \in 1..n : g[i] = F[i][g[i - 1]]
  BY <1>4
<1>. QED BY <1>5 DEF IsFold

-----------------------------------------------------------------------------
(* The mean of a ring.                                                      *)

(* A sum is the last of its partial sums.                                   *)
LEMMA SumsAre ==
    ASSUME NEW d \in Seq(Int)
    PROVE  \E g \in [0..Len(d) -> Int] :
              /\ g[0] = 0 /\ \A k \in 1..Len(d) : g[k] = g[k - 1] + d[k]
              /\ SumOf(d) = g[Len(d)]
<1> DEFINE n == Len(d)
           F == [k \in 1..n |-> [x \in Int |-> x + d[k]]]
           Sums(f) == f = [k \in 0..n |-> IF k = 0 THEN 0 ELSE f[k - 1] + d[k]]
           sum == CHOOSE f : Sums(f)
<1>1. n \in Nat /\ \A k \in 1..n : d[k] \in Int
  BY LenProperties
<1>2. F \in [1..n -> [Int -> Int]]
  BY <1>1
<1>3. PICK g : IsFold(g, Int, n, 0, F)
  <2> HIDE DEF F, n
  <2>1. 0 \in Int
    OBVIOUS
  <2>. QED BY <1>1, <1>2, <2>1, FoldExists
<1>4. /\ g \in [0..n -> Int] /\ g[0] = 0
      /\ \A k \in 1..n : g[k] = g[k - 1] + d[k]
  <2>1. /\ g \in [0..n -> Int] /\ g[0] = 0
        /\ \A k \in 1..n : g[k] = F[k][g[k - 1]]
    <3> HIDE DEF F, n
    <3>. QED BY <1>3 DEF IsFold
  <2>2. ASSUME NEW k \in 1..n PROVE g[k] = g[k - 1] + d[k]
    <3>1. k - 1 \in 0..n
      BY <1>1
    <3>2. g[k - 1] \in Int
      BY <2>1, <3>1
    <3>. QED BY <2>1, <3>2
  <2>. QED BY <2>1, <2>2
<1>5. Sums(g)
  <2> HIDE DEF n
  <2>1. ASSUME NEW k \in 0..n PROVE g[k] = IF k = 0 THEN 0 ELSE g[k - 1] + d[k]
    BY <1>1, <1>4
  <2>. QED BY <1>4, <2>1
<1>6. Sums(sum)
  <2> HIDE DEF Sums
  <2>. QED BY <1>5
<1>7. SumOf(d) = sum[n]
  BY DEF SumOf
<1>8. \A k \in 0..n : sum[k] = g[k]
  <2> DEFINE T == {k \in 0..n : sum[k] = g[k]}
  <2> HIDE DEF sum, n
  <2>1. sum[0] = 0 /\ \A k \in 1..n : sum[k] = sum[k - 1] + d[k]
    BY <1>1, <1>6
  <2>2. 0 \in T
    BY <1>1, <1>4, <2>1
  <2>3. ASSUME NEW k \in 1..n, k - 1 \in T PROVE k \in T
    BY <1>1, <1>4, <2>1, <2>3
  <2>4. 0..n \subseteq T
    <3> HIDE DEF T
    <3>. QED BY <1>1, <2>2, <2>3, CountedUp
  <2>. QED BY <2>4
<1>9. SumOf(d) = g[n]
  <2> HIDE DEF sum, n
  <2>. QED BY <1>1, <1>7, <1>8
<1>. QED BY <1>4, <1>9

(* Of finitely many numbers one is the furthest from zero.                  *)
LEMMA Furthest ==
    ASSUME NEW n \in Nat \ {0}, NEW e \in [1..n -> Int]
    PROVE  \E j \in 1..n : \A i \in 1..n : AbsOf(e[i]) <= AbsOf(e[j])
<1> DEFINE T == {k \in 0..n : k = 0 \/ \E j \in 1..k : \A i \in 1..k : AbsOf(e[i]) <= AbsOf(e[j])}
<1>0. \A i \in 1..n : AbsOf(e[i]) \in Int
  BY DEF AbsOf
<1>1. 0 \in T
  OBVIOUS
<1>2. ASSUME NEW k \in 1..n, k - 1 \in T PROVE k \in T
  <2>1. CASE k = 1
    BY <1>0, <2>1
  <2>2. CASE k # 1
    <3>1. PICK j \in 1..(k - 1) : \A i \in 1..(k - 1) : AbsOf(e[i]) <= AbsOf(e[j])
      BY <1>2, <2>2
    <3>2. CASE AbsOf(e[k]) <= AbsOf(e[j])
      <4>1. \A i \in 1..k : AbsOf(e[i]) <= AbsOf(e[j])
        BY <3>1, <3>2
      <4>2. j \in 1..k
        BY <3>1
      <4>. QED BY <4>1, <4>2
    <3>3. CASE ~(AbsOf(e[k]) <= AbsOf(e[j]))
      <4>1. \A i \in 1..k : AbsOf(e[i]) <= AbsOf(e[k])
        BY <1>0, <3>1, <3>3
      <4>. QED BY <4>1
    <3>. QED BY <3>2, <3>3
  <2>. QED BY <2>1, <2>2
<1>3. n \in T
  <2>1. 0..n \subseteq T
    <3> HIDE DEF T
    <3>. QED BY <1>1, <1>2, CountedUp
  <2>2. n \in 0..n
    OBVIOUS
  <2> HIDE DEF T
  <2>. QED BY <2>1, <2>2
<1>. QED BY <1>3

LEMMA SumIsClose ==
    \A x, y, a, b, D, M \in Int :
        AbsOf(x + a) <= b /\ AbsOf(y + D) <= M => AbsOf((x + y) + (a + D)) <= b + M
BY DEF AbsOf

(* A mean is no further than the furthest.                                  *)
LEMMA MeanIsClose ==
    ASSUME NEW n \in Nat, NEW g \in [0..n -> Int], g[0] = 0, NEW D \in Int, NEW M \in Nat,
           NEW d \in [1..n -> Int], \A k \in 1..n : g[k] = g[k - 1] + d[k],
           \A k \in 1..n : AbsOf(d[k] + D) <= M
    PROVE  AbsOf(g[n] + n * D) <= n * M
<1> DEFINE T == {k \in 0..n : AbsOf(g[k] + k * D) <= k * M}
<1>1. 0 \in T
  BY DEF AbsOf
<1>2. ASSUME NEW k \in 1..n, k - 1 \in T PROVE k \in T
  <2>1. /\ g[k] \in Int /\ g[k - 1] \in Int /\ d[k] \in Int
        /\ g[k] = g[k - 1] + d[k] /\ AbsOf(d[k] + D) <= M
    <3>1. k \in 0..n /\ k - 1 \in 0..n
      OBVIOUS
    <3>. QED BY <3>1
  <2>2. PICK a \in Int, b \in Int : a = (k - 1) * D /\ b = (k - 1) * M
    OBVIOUS
  <2>3. k * D = a + D /\ k * M = b + M
    BY <2>2
  <2>4. AbsOf(g[k - 1] + a) <= b
    BY <1>2, <2>2
  <2>5. AbsOf((g[k - 1] + d[k]) + (a + D)) <= b + M
    <3>1. PICK x \in Int, y \in Int : x = g[k - 1] /\ y = d[k]
      BY <2>1
    <3>2. /\ AbsOf(x + a) <= b /\ AbsOf(y + D) <= M
          /\ a \in Int /\ b \in Int /\ D \in Int /\ M \in Int
      BY <2>1, <2>2, <2>4, <3>1
    <3>3. AbsOf((x + y) + (a + D)) <= b + M
      BY ONLY <3>1, <3>2, SumIsClose, x \in Int, y \in Int
    <3>. QED BY <3>1, <3>3
  <2>6. AbsOf(g[k] + k * D) <= k * M
    <3>1. g[k] + k * D = (g[k - 1] + d[k]) + (a + D)
      BY <2>1, <2>3
    <3>. QED BY <2>3, <2>5, <3>1
  <2>7. k \in 0..n
    OBVIOUS
  <2>. QED BY <2>6, <2>7
<1>3. n \in T
  <2>1. 0..n \subseteq T
    <3> HIDE DEF T
    <3>. QED BY <1>1, <1>2, CountedUp
  <2>2. n \in 0..n
    OBVIOUS
  <2> HIDE DEF T
  <2>. QED BY <2>1, <2>2
<1>. QED BY <1>3

(* An instance's clock domain is as good as its round trips.                *)
LEMMA IsDomainClose ==
    ASSUME ClockIInv
    PROVE  DomainClose
<1> DEFINE n == Len(domain)
           S == SumOf(domain)
<1>1. SUFFICES ASSUME domain # <<>>
               PROVE  \E w \in Ways : AbsOf(S + n * (2 * Skew)) <= n * AbsOf(w[1] - w[2])
  BY DEF DomainClose, offset
<1>2. domain \in Seq(Int) /\ n \in Nat \ {0}
  <2>1. domain \in Seq(Int)
    BY DEF ClockIInv, ClockTypeOK
  <2>. QED BY <1>1, <2>1, EmptySeq, LenProperties
<1>3. domain \in [1..n -> Int]
  BY <1>2, LenProperties
<1> DEFINE e == [i \in 1..n |-> domain[i] + 2 * Skew]
<1>4. e \in [1..n -> Int]
  BY <1>3 DEF Skew
<1>5. PICK j \in 1..n : \A i \in 1..n : AbsOf(e[i]) <= AbsOf(e[j])
  <2> HIDE DEF e, n
  <2>. QED BY <1>2, <1>4, Furthest
<1>6. PICK w \in Ways : domain[j] = -2 * Skew + w[1] - w[2]
  BY <1>3 DEF ClockIInv, DomainSound
<1>7. w[1] \in Nat /\ w[2] \in Nat
  BY ClockAssumption
<1> DEFINE M == AbsOf(w[1] - w[2])
<1>8. M \in Nat /\ AbsOf(e[j]) = M
  BY <1>6, <1>7 DEF AbsOf, Skew
<1>9. \A k \in 1..n : AbsOf(domain[k] + 2 * Skew) <= M
  BY <1>5, <1>8
<1>10. PICK g \in [0..n -> Int] :
          /\ g[0] = 0 /\ \A k \in 1..n : g[k] = g[k - 1] + domain[k]
          /\ S = g[n]
  BY <1>2, SumsAre
<1>11. 2 * Skew \in Int
  BY DEF Skew
<1> HIDE DEF M, e, n, S
<1>12. AbsOf(g[n] + n * (2 * Skew)) <= n * M
  BY <1>2, <1>3, <1>8, <1>9, <1>10, <1>11, MeanIsClose
<1>. QED BY <1>10, <1>12 DEF M

(* Everybody's clock is as near the store's as their round trips allow: no  *)
(* minority of the exchanges an estimate is taken from moves it, a player's *)
(* clock is within a round trip and what may be slewed, and an instance's   *)
(* domain is as good as its measurements (ClockEstimator,                   *)
(* ClockDomainService).                                                     *)
THEOREM ClockSafety == ClockSpec => []ClockSound
<1>1. ClockIInv => ClockSound
  BY EstimateIsGood, IsNearTruth, IsDomainClose DEF ClockSound
<1>2. QED
  BY <1>1, ClockInitial, ClockStep, PTL DEF ClockSpec

-----------------------------------------------------------------------------
(* The players' histories.                                                  *)

Lives == {"unstarted", "cued", "playing", "paused", "buffering", "ended"}
LivedStep(life, d) == IF CanDo(life, d) THEN Becomes(d) ELSE life

LEMMA LivesOn == \A l \in Lives, d \in LifeSteps : LivedStep(l, d) \in Lives
<1> SUFFICES ASSUME NEW l \in Lives, NEW d \in LifeSteps PROVE LivedStep(l, d) \in Lives
  OBVIOUS
<1>1. Becomes(d) \in Lives
  BY DEF Lives, Becomes, LifeSteps
<1>. QED
  BY <1>1 DEF LivedStep

(* The recursive definition of a life has a solution, so it unfolds.        *)
LEMMA LivedUnfolds ==
    ASSUME NEW h \in Seq(LifeSteps)
    PROVE  /\ Lived(h) = [i \in 0..Len(h) |-> Lived(h)[i]]
           /\ Lived(h)[0] = "unstarted"
           /\ \A i \in 1..Len(h) : Lived(h)[i] = LivedStep(Lived(h)[i - 1], h[i])
           /\ \A i \in 0..Len(h) : Lived(h)[i] \in Lives
<1> DEFINE F == [i \in 1..Len(h) |-> [l \in Lives |-> LivedStep(l, h[i])]]
           life == Lived(h)
<1>1. F \in [1..Len(h) -> [Lives -> Lives]]
  <2>1. \A i \in 1..Len(h), l \in Lives : LivedStep(l, h[i]) \in Lives
    BY LivesOn
  <2>. QED
    BY <2>1
<1>2. PICK g : IsFold(g, Lives, Len(h), "unstarted", F)
  <2>1. "unstarted" \in Lives /\ Len(h) \in Nat
    BY DEF Lives
  <2> HIDE DEF F
  <2>. QED
    BY <1>1, FoldExists, <2>1
<1>3. g = [i \in 0..Len(h) |->
             IF i = 0 THEN "unstarted"
             ELSE IF CanDo(g[i - 1], h[i]) THEN Becomes(h[i]) ELSE g[i - 1]]
  <2>1. ASSUME NEW i \in 0..Len(h), i # 0
        PROVE  F[i][g[i - 1]] = IF CanDo(g[i - 1], h[i]) THEN Becomes(h[i]) ELSE g[i - 1]
    <3>1. i \in 1..Len(h) /\ g[i - 1] \in Lives
      BY <1>2, <2>1 DEF IsFold
    <3>. QED
      BY <3>1 DEF LivedStep
  <2>. QED
    BY <1>2, <2>1 DEF IsFold
<1>4. life = [i \in 0..Len(h) |->
                IF i = 0 THEN "unstarted"
                ELSE IF CanDo(life[i - 1], h[i]) THEN Becomes(h[i]) ELSE life[i - 1]]
  BY <1>3 DEF Lived
<1> HIDE DEF life
<1>5. /\ life = [i \in 0..Len(h) |-> life[i]] /\ life[0] = "unstarted"
      /\ \A i \in 1..Len(h) : life[i] = LivedStep(life[i - 1], h[i])
  BY <1>4 DEF LivedStep
<1>6. 0..Len(h) \subseteq {i \in 0..Len(h) : life[i] \in Lives}
  <2> DEFINE T == {i \in 0..Len(h) : life[i] \in Lives}
  <2>1. 0 \in T
    BY <1>5 DEF Lives
  <2>2. ASSUME NEW i \in 1..Len(h), i - 1 \in T PROVE i \in T
    BY <2>2, <1>5, LivesOn
  <2>3. Len(h) \in Nat
    OBVIOUS
  <2> HIDE DEF T
  <2>4. 0..Len(h) \subseteq T
    BY <2>1, <2>2, <2>3, CountedUp
  <2>. QED
    BY <2>4 DEF T
<1>. QED
  BY <1>5, <1>6 DEF life

(* What the adapter makes of the one or two events of a step.               *)
LEMMA HeardOne ==
    ASSUME NEW life, NEW e
    PROVE  Heard(life, <<e>>) = onEvent(life, e)
<1> DEFINE es == <<e>>
           g == [i \in 0..1 |-> IF i = 0 THEN life ELSE onEvent(life, e)]
           r == CHOOSE l : l = [i \in 0..Len(es) |-> IF i = 0 THEN life ELSE onEvent(l[i - 1], es[i])]
<1>1. Len(es) = 1 /\ es[1] = e
  OBVIOUS
<1>2. g = [i \in 0..Len(es) |-> IF i = 0 THEN life ELSE onEvent(g[i - 1], es[i])]
  <2>1. \A i \in 0..1 : i # 0 => i = 1 /\ i - 1 = 0
    OBVIOUS
  <2> HIDE DEF es
  <2>. QED
    BY <1>1, <2>1
<1>3. r = [i \in 0..Len(es) |-> IF i = 0 THEN life ELSE onEvent(r[i - 1], es[i])]
  <2> HIDE DEF g, es
  <2>. QED
    BY <1>2
<1>4. r[0] = life /\ r[1] = onEvent(r[0], e)
  <2> HIDE DEF r, es
  <2>. QED
    BY <1>3, <1>1
<1>5. Heard(life, es) = r[1]
  BY <1>1 DEF Heard
<1>. QED
  BY <1>4, <1>5

LEMMA HeardTwo ==
    ASSUME NEW life, NEW e, NEW f
    PROVE  Heard(life, <<e, f>>) = onEvent(onEvent(life, e), f)
<1> DEFINE es == <<e, f>>
           g == [i \in 0..2 |-> IF i = 0 THEN life ELSE IF i = 1 THEN onEvent(life, e)
                                ELSE onEvent(onEvent(life, e), f)]
           r == CHOOSE l : l = [i \in 0..Len(es) |-> IF i = 0 THEN life ELSE onEvent(l[i - 1], es[i])]
<1>1. Len(es) = 2 /\ es[1] = e /\ es[2] = f
  OBVIOUS
<1>2. g = [i \in 0..Len(es) |-> IF i = 0 THEN life ELSE onEvent(g[i - 1], es[i])]
  <2>1. \A i \in 0..2 : i # 0 => (i = 1 /\ i - 1 = 0) \/ (i = 2 /\ i - 1 = 1)
    OBVIOUS
  <2> HIDE DEF es
  <2>2. g[0] = life /\ g[1] = onEvent(g[0], es[1]) /\ g[2] = onEvent(g[1], es[2])
    BY <1>1
  <2>3. \A i \in 0..2 : g[i] = IF i = 0 THEN life ELSE onEvent(g[i - 1], es[i])
    <3> HIDE DEF g
    <3>. QED
      BY <2>1, <2>2
  <2>4. g = [i \in 0..2 |-> g[i]]
    OBVIOUS
  <2> HIDE DEF g
  <2>. QED
    BY <1>1, <2>3, <2>4
<1>3. r = [i \in 0..Len(es) |-> IF i = 0 THEN life ELSE onEvent(r[i - 1], es[i])]
  <2> HIDE DEF g, es
  <2>. QED
    BY <1>2
<1>4. r[0] = life /\ r[1] = onEvent(r[0], e) /\ r[2] = onEvent(r[1], f)
  <2> HIDE DEF r, es
  <2>1. 0 \in 0..2 /\ 1 \in 0..2 /\ 2 \in 0..2 /\ 1 - 1 = 0 /\ 2 - 1 = 1
    OBVIOUS
  <2>. QED
    BY <1>3, <1>1, <2>1
<1>5. Heard(life, es) = r[2]
  BY <1>1 DEF Heard
<1>. QED
  BY <1>4, <1>5

LEMMA HeardBecomes ==
    ASSUME NEW life \in Lives, NEW d \in LifeSteps, CanDo(life, d)
    PROVE  Heard(life, Events(d)) = Becomes(d)
<1>1. CASE d = "stall"
  <2>1. Events(d) = <<"bufferstart">> /\ Becomes(d) = "buffering"
    BY <1>1 DEF Events, Becomes
  <2>. QED
    BY <2>1, HeardOne DEF onEvent
<1>2. CASE d = "flow"
  <2>1. Events(d) = <<"bufferend">> /\ Becomes(d) = "playing" /\ life = "buffering"
    BY <1>2 DEF Events, Becomes, CanDo
  <2>. QED
    BY <2>1, HeardOne DEF onEvent
<1>3. CASE d = "pause-stalled"
  <2>1. Events(d) = <<"pause", "bufferend">> /\ Becomes(d) = "paused"
    BY <1>3 DEF Events, Becomes
  <2>. QED
    BY <2>1, HeardTwo DEF onEvent
<1>4. CASE d = "stalled-pause"
  <2>1. Events(d) = <<"bufferend", "pause">> /\ Becomes(d) = "paused"
    BY <1>4 DEF Events, Becomes
  <2>. QED
    BY <2>1, HeardTwo DEF onEvent
<1>5. CASE d \in {"loaded", "play", "pause", "ended"}
  <2>1. Events(d) = <<d>>
    BY <1>5 DEF Events
  <2>2. onEvent(life, d) = Becomes(d)
    BY <1>5 DEF onEvent, Becomes, CanDo
  <2>. QED
    BY <2>1, <2>2, HeardOne
<1>. QED
  BY <1>1, <1>2, <1>3, <1>4, <1>5 DEF LifeSteps

KeptStep(life, kept, d) == IF CanDo(life, d) THEN Heard(kept, Events(d)) ELSE kept

(* The lifecycle the Vimeo adapter keeps is the player's after every        *)
(* history, however long: each step's events take the one where the other   *)
(* went (VimeoAdapter's handlers).                                          *)
LEMMA KeptIsLived ==
    ASSUME NEW h \in Seq(LifeSteps)
    PROVE  Kept(h) = Lived(h)
<1> DEFINE life == Lived(h)
           kept == Kept(h)
<1>1. /\ life = [i \in 0..Len(h) |-> life[i]] /\ life[0] = "unstarted"
      /\ \A i \in 1..Len(h) : life[i] = LivedStep(life[i - 1], h[i])
      /\ \A i \in 0..Len(h) : life[i] \in Lives
  BY LivedUnfolds
<1>2. \A i \in 1..Len(h) : h[i] \in LifeSteps
  OBVIOUS
<1>3. life = [i \in 0..Len(h) |-> IF i = 0 THEN "unstarted"
                ELSE IF CanDo(Lived(h)[i - 1], h[i]) THEN Heard(life[i - 1], Events(h[i]))
                ELSE life[i - 1]]
  <2>1. ASSUME NEW i \in 1..Len(h), CanDo(life[i - 1], h[i])
        PROVE  life[i] = Heard(life[i - 1], Events(h[i]))
    <3>1. life[i - 1] \in Lives
      BY <1>1
    <3> HIDE DEF life
    <3>. QED
      BY <1>1, <1>2, <2>1, <3>1, HeardBecomes DEF LivedStep
  <2>2. \A i \in 0..Len(h) : i # 0 => i \in 1..Len(h)
    OBVIOUS
  <2>. QED
    BY <1>1, <2>1, <2>2 DEF LivedStep
<1>4. kept = [i \in 0..Len(h) |-> IF i = 0 THEN "unstarted"
                ELSE IF CanDo(Lived(h)[i - 1], h[i]) THEN Heard(kept[i - 1], Events(h[i]))
                ELSE kept[i - 1]]
  <2> HIDE DEF life
  <2>. QED
    BY <1>3 DEF Kept
<1> DEFINE T == {i \in 0..Len(h) : kept[i] = life[i]}
<1>5. 0..Len(h) \subseteq T
  <2> HIDE DEF kept
  <2>1. 0 \in T
    BY <1>1, <1>4
  <2>2. ASSUME NEW i \in 1..Len(h), i - 1 \in T PROVE i \in T
    <3>1. kept[i - 1] = life[i - 1] /\ i \in 0..Len(h) /\ i # 0
      BY <2>2
    <3>2. kept[i] = IF CanDo(life[i - 1], h[i]) THEN Heard(kept[i - 1], Events(h[i]))
                                                ELSE kept[i - 1]
      BY <1>4, <3>1
    <3>3. life[i] = IF CanDo(life[i - 1], h[i]) THEN Heard(life[i - 1], Events(h[i]))
                                                ELSE life[i - 1]
      BY <1>3, <3>1
    <3>. QED
      BY <3>1, <3>2, <3>3
  <2>3. Len(h) \in Nat
    OBVIOUS
  <2> HIDE DEF T
  <2>. QED
    BY <2>1, <2>2, <2>3, CountedUp
<1>6. \A i \in 0..Len(h) : kept[i] = life[i]
  BY <1>5
<1>7. kept = [i \in 0..Len(h) |-> kept[i]]
  <2> HIDE DEF kept
  <2>. QED
    BY <1>4
<1>. QED
  <2> HIDE DEF kept, life
  <2>1. kept = life
    BY <1>1, <1>6, <1>7
  <2>. QED
    BY <2>1 DEF kept, life

-----------------------------------------------------------------------------
(* The position an adapter reads.                                           *)

Edges == [tLocal : Nat, value : Nat] \cup {NoEdge}
View == [now : Nat, at : Nat, asked : Nat, rate : 1..Fastest, lastRaw : Nat, edge : Edges]

Sought(st, step) ==
    IF step.does = "ask" THEN seekTo(Moved(st, step)) ELSE Moved(st, step)
ViewStep(of, st, step) ==
    IF step.seen THEN poll(of, Sought(st, step)) ELSE Sought(st, step)

(* What a tick changes.                                                     *)
LEMMA ViewStepIs ==
    ASSUME NEW of, NEW st \in View, NEW step \in Ticks
    PROVE  LET new == ViewStep(of, st, step) IN
           /\ new \in View
           /\ new.now = st.now + 1
           /\ new.at = IF Lands(st, step) THEN Landing(st.at) ELSE st.at + step.moves
           /\ new.lastRaw = IF step.seen THEN new.at ELSE st.lastRaw
           /\ \/ new.edge = NoEdge
              \/ new.edge = st.edge /\ step.does # "ask" /\ (step.seen => new.at = st.lastRaw)
              \/ step.seen /\ new.edge = [tLocal |-> new.now, value |-> new.at]
           /\ step.does = "ask" /\ ~step.seen => new.edge = NoEdge
<1> DEFINE moved == Moved(st, step)
           posted == Sought(st, step)
           new == ViewStep(of, st, step)
<1>1. /\ step.does \in {"play", "ask", "land"} /\ step.seen \in BOOLEAN
      /\ step.moves \in Nat /\ step.rate \in 1..Fastest
  BY DEF Ticks, Fastest
<1>2. /\ moved \in View /\ moved.now = st.now + 1 /\ moved.lastRaw = st.lastRaw
      /\ moved.edge = st.edge
      /\ moved.at = IF Lands(st, step) THEN Landing(st.at) ELSE st.at + step.moves
  <2> DEFINE at == IF Lands(st, step) THEN Landing(st.at) ELSE st.at + step.moves
             asked == IF Lands(st, step) THEN st.asked - 1 ELSE st.asked
  <2>1. /\ st = [now |-> st.now, at |-> st.at, asked |-> st.asked, rate |-> st.rate,
                 lastRaw |-> st.lastRaw, edge |-> st.edge]
        /\ st.now \in Nat /\ st.at \in Nat /\ st.asked \in Nat /\ st.lastRaw \in Nat
        /\ st.edge \in Edges
    BY DEF View
  <2>2. Landing(st.at) \in Nat
    BY <2>1 DEF Landing, Far
  <2>3. at \in Nat
    BY <1>1, <2>1, <2>2
  <2>4. asked \in Nat
    BY <2>1 DEF Lands
  <2>5. moved = [now |-> st.now + 1, at |-> at, asked |-> asked, rate |-> step.rate,
                 lastRaw |-> st.lastRaw, edge |-> st.edge]
    <3>1. moved = [st EXCEPT !.now = st.now + 1, !.at = at, !.asked = asked, !.rate = step.rate]
      BY <2>1 DEF Moved
    <3> HIDE DEF at, asked, moved
    <3>. QED
      BY <2>1, <3>1
  <2> HIDE DEF moved, at, asked
  <2>6. moved \in View
    BY <1>1, <2>1, <2>3, <2>4, <2>5 DEF View
  <2>7. /\ moved.now = st.now + 1 /\ moved.lastRaw = st.lastRaw /\ moved.edge = st.edge
        /\ moved.at = at
    BY <2>5
  <2>. QED
    BY <2>6, <2>7 DEF at
<1>3. /\ posted \in View /\ posted.now = moved.now /\ posted.lastRaw = moved.lastRaw
      /\ posted.at = moved.at
      /\ posted.edge = IF step.does = "ask" THEN NoEdge ELSE moved.edge
  <2> HIDE DEF moved
  <2>1. posted = IF step.does = "ask" THEN seekTo(moved) ELSE moved
    BY DEF Sought, moved
  <2>2. NoEdge \in Edges
    BY DEF Edges
  <2> HIDE DEF posted
  <2>. QED
    <3>1. CASE step.does = "ask"
      <4>1. posted = [moved EXCEPT !.asked = moved.asked + 1, !.edge = NoEdge]
        BY <1>2, <2>1, <3>1 DEF seekTo, View
      <4>2. moved.asked + 1 \in Nat
        BY <1>2 DEF View
      <4>. QED
        BY <1>2, <2>2, <3>1, <4>1, <4>2 DEF View
    <3>2. CASE step.does # "ask"
      BY <1>2, <2>1, <3>2
    <3>. QED
      BY <3>1, <3>2
<1>4. /\ new \in View /\ new.now = posted.now /\ new.at = posted.at
      /\ new.lastRaw = IF step.seen THEN posted.at ELSE posted.lastRaw
      /\ \/ new.edge = posted.edge /\ (step.seen => posted.at = posted.lastRaw)
         \/ step.seen /\ new.edge = [tLocal |-> posted.now, value |-> posted.at]
  <2> HIDE DEF posted
  <2>1. new = IF step.seen THEN poll(of, posted) ELSE posted
    BY DEF ViewStep, posted
  <2>2. [tLocal |-> posted.now, value |-> posted.at] \in Edges
    BY <1>3 DEF Edges, View
  <2> HIDE DEF new
  <2>. QED
    BY <1>1, <1>3, <2>1, <2>2 DEF poll, View
<1> HIDE DEF moved, posted, new
<1>5. new.lastRaw = IF step.seen THEN new.at ELSE st.lastRaw
  BY <1>2, <1>3, <1>4
<1>6. \/ new.edge = NoEdge
      \/ new.edge = st.edge /\ step.does # "ask" /\ (step.seen => new.at = st.lastRaw)
      \/ step.seen /\ new.edge = [tLocal |-> new.now, value |-> new.at]
  BY <1>1, <1>2, <1>3, <1>4
<1>7. step.does = "ask" /\ ~step.seen => new.edge = NoEdge
  BY <1>3, <1>4
<1>. QED
  BY <1>2, <1>3, <1>4, <1>5, <1>6, <1>7 DEF new

(* The states after each tick of a history.                                 *)
LEMMA ViewsExist ==
    ASSUME NEW of, NEW h \in Seq(Ticks)
    PROVE  \E v : /\ IsFold(v, View, Len(h), At0, [i \in 1..Len(h) |-> [st \in View |-> ViewStep(of, st, h[i])]])
                  /\ Views(of, h) = v
<1> DEFINE F == [i \in 1..Len(h) |-> [st \in View |-> ViewStep(of, st, h[i])]]
<1>0. \A i \in 1..Len(h), st \in View : ViewStep(of, st, h[i]) \in View
  <2>1. \A i \in 1..Len(h) : h[i] \in Ticks
    OBVIOUS
  <2>. QED
    BY <2>1, ViewStepIs
<1>1. F \in [1..Len(h) -> [View -> View]]
  BY <1>0
<1>2. Len(h) \in Nat /\ At0 \in View
  BY DEF At0, View, Edges, Fastest
<1>3. PICK g : IsFold(g, View, Len(h), At0, F)
  <2> HIDE DEF F
  <2>. QED
    BY <1>1, <1>2, FoldExists
<1> DEFINE IsRun(r) ==
        r = [i \in 0..Len(h) |->
               IF i = 0 THEN At0
               ELSE LET moved == Moved(r[i - 1], h[i])
                        posted == IF h[i].does = "ask" THEN seekTo(moved) ELSE moved
                    IN IF h[i].seen THEN poll(of, posted) ELSE posted]
<1>4. IsRun(g)
  <2>1. \A i \in 0..Len(h) : i # 0 => i \in 1..Len(h) /\ g[i - 1] \in View
    BY <1>3 DEF IsFold
  <2>2. ASSUME NEW i \in 1..Len(h) PROVE g[i] = ViewStep(of, g[i - 1], h[i])
    <3>1. g[i] = F[i][g[i - 1]]
      BY <1>3 DEF IsFold
    <3>2. g[i - 1] \in View
      BY <2>1
    <3>. QED
      BY <3>1, <3>2
  <2>3. \A i \in 0..Len(h) : g[i] = IF i = 0 THEN At0 ELSE ViewStep(of, g[i - 1], h[i])
    BY <1>3, <2>1, <2>2 DEF IsFold
  <2>4. g = [i \in 0..Len(h) |-> g[i]]
    BY <1>3 DEF IsFold
  <2>5. g = [i \in 0..Len(h) |-> IF i = 0 THEN At0 ELSE ViewStep(of, g[i - 1], h[i])]
    BY <2>3, <2>4
  <2>. QED
    BY <2>5 DEF ViewStep, Sought
<1> DEFINE v == CHOOSE r : IsRun(r)
<1>5. IsRun(v)
  <2> HIDE DEF IsRun
  <2>. QED
    BY <1>4
<1>6. Views(of, h) = v
  BY DEF Views
<1>7. v = [i \in 0..Len(h) |-> v[i]] /\ v[0] = At0
  <2> HIDE DEF v
  <2>. QED
    BY <1>5
<1>8. \A i \in 1..Len(h) : v[i] = ViewStep(of, v[i - 1], h[i])
  <2> HIDE DEF v
  <2>1. v = [i \in 0..Len(h) |-> IF i = 0 THEN At0 ELSE ViewStep(of, v[i - 1], h[i])]
    BY <1>5 DEF ViewStep, Sought
  <2>. QED
    BY <2>1
<1> HIDE DEF v, IsRun
<1> DEFINE T == {i \in 0..Len(h) : v[i] \in View}
<1>9. 0..Len(h) \subseteq T
  <2>1. 0 \in T
    BY <1>2, <1>7
  <2>2. ASSUME NEW i \in 1..Len(h), i - 1 \in T PROVE i \in T
    BY <1>0, <1>8, <2>2
  <2> HIDE DEF T
  <2>. QED
    BY <1>2, <2>1, <2>2, CountedUp
<1>10. v \in [0..Len(h) -> View]
  BY <1>7, <1>9
<1>11. \A i \in 1..Len(h) : v[i] = F[i][v[i - 1]]
  <2>1. \A i \in 1..Len(h) : v[i - 1] \in View
    BY <1>10
  <2>. QED
    BY <1>8, <2>1
<1>12. IsFold(v, View, Len(h), At0, F)
  <2> HIDE DEF F
  <2>. QED
    BY <1>7, <1>10, <1>11 DEF IsFold
<1>. QED
  BY <1>6, <1>12

(* After i ticks: nothing read is newer than the last sighting.             *)
EdgeOf(st, i) ==
    /\ st.now = i
    /\ st.edge # NoEdge => st.edge.value = st.lastRaw /\ st.edge.tLocal <= i

(* What the ticks since s, the last sighting, leave of it.                  *)
QuietSince(h, s, i) ==
    /\ s > 0 => h[s].seen
    /\ \A j \in (s + 1)..i : ~h[j].seen

ReadSince(h, v, s, i) ==
    LET st == v[i] IN
    /\ st.lastRaw = v[s].at
    /\ st.edge # NoEdge => st.edge.tLocal <= s
    /\ (\E j \in (s + 1)..i : h[j].does = "ask") => st.edge = NoEdge
    /\ (\A j \in (s + 1)..i : ~Lands(v[j - 1], h[j]))
         => v[s].at <= st.at /\ st.at <= v[s].at + (i - s) * Fastest

LEMMA ReadingsAreOld ==
    ASSUME NEW of, NEW h \in Seq(Ticks), NEW v,
           IsFold(v, View, Len(h), At0, [i \in 1..Len(h) |-> [st \in View |-> ViewStep(of, st, h[i])]])
    PROVE  \A i \in 0..Len(h) :
              /\ EdgeOf(v[i], i)
              /\ \A s \in 0..i : QuietSince(h, s, i) => ReadSince(h, v, s, i)
<1>1. v \in [0..Len(h) -> View] /\ v[0] = At0 /\ Len(h) \in Nat
  BY DEF IsFold
<1>2. ASSUME NEW i \in 1..Len(h)
      PROVE  v[i - 1] \in View /\ v[i] \in View /\ h[i] \in Ticks /\ v[i] = ViewStep(of, v[i - 1], h[i])
  <2>1. v[i - 1] \in View /\ v[i] \in View /\ h[i] \in Ticks
    BY <1>1
  <2>2. v[i] = [k \in 1..Len(h) |-> [st \in View |-> ViewStep(of, st, h[k])]][i][v[i - 1]]
    BY DEF IsFold
  <2>. QED
    BY <2>1, <2>2
<1> DEFINE T == {i \in 0..Len(h) :
              /\ EdgeOf(v[i], i)
              /\ \A s \in 0..i : QuietSince(h, s, i) => ReadSince(h, v, s, i)}
<1>3. 0 \in T
  <2>1. EdgeOf(v[0], 0)
    BY <1>1 DEF EdgeOf, At0
  <2>2. \A s \in 0..0 : ReadSince(h, v, s, 0)
    <3>1. v[0].lastRaw = 0 /\ v[0].at = 0 /\ v[0].edge = NoEdge
      BY <1>1 DEF At0
    <3>2. v[0].at <= v[0].at /\ v[0].at <= v[0].at + (0 - 0) * Fastest
      BY <3>1 DEF Fastest
    <3>3. ReadSince(h, v, 0, 0)
      BY <3>1, <3>2 DEF ReadSince
    <3>. QED
      BY <3>3
  <2>. QED
    BY <2>1, <2>2
<1>4. ASSUME NEW i \in 1..Len(h), i - 1 \in T PROVE i \in T
  <2> DEFINE old == v[i - 1]
             new == v[i]
             step == h[i]
  <2>1. /\ old \in View /\ new \in View /\ step \in Ticks
        /\ new.now = old.now + 1
        /\ new.at = IF Lands(old, step) THEN Landing(old.at) ELSE old.at + step.moves
        /\ new.lastRaw = IF step.seen THEN new.at ELSE old.lastRaw
        /\ \/ new.edge = NoEdge
           \/ new.edge = old.edge /\ step.does # "ask" /\ (step.seen => new.at = old.lastRaw)
           \/ step.seen /\ new.edge = [tLocal |-> new.now, value |-> new.at]
        /\ step.does = "ask" /\ ~step.seen => new.edge = NoEdge
    BY <1>2, ViewStepIs
  <2>2. EdgeOf(old, i - 1) /\ \A s \in 0..(i - 1) : QuietSince(h, s, i - 1) => ReadSince(h, v, s, i - 1)
    BY <1>4
  <2>3. /\ old.now \in Nat /\ old.at \in Nat /\ old.lastRaw \in Nat /\ new.at \in Nat
        /\ new.lastRaw \in Nat /\ step.seen \in BOOLEAN
        /\ step.moves \in 0..Fastest
        /\ old.edge # NoEdge => old.edge.tLocal \in Nat /\ old.edge.value \in Nat
    BY <2>1 DEF View, Ticks, Edges
  <2>4. EdgeOf(new, i)
    <3> HIDE DEF old, new, step
    <3>1. new.now = i
      BY <2>1, <2>2 DEF EdgeOf
    <3>3. CASE new.edge = NoEdge
      BY <3>1, <3>3 DEF EdgeOf
    <3>4. CASE new.edge = old.edge /\ new.edge # NoEdge /\ (step.seen => new.at = old.lastRaw)
      BY <2>1, <2>2, <2>3, <3>1, <3>4 DEF EdgeOf
    <3>5. CASE step.seen /\ new.edge = [tLocal |-> new.now, value |-> new.at]
      BY <2>1, <3>1, <3>5 DEF EdgeOf
    <3>. QED
      BY <2>1, <3>3, <3>4, <3>5
  <2>5. ASSUME NEW s \in 0..i, QuietSince(h, s, i) PROVE ReadSince(h, v, s, i)
    <3>1. CASE s = i
      <4>1. \A j \in (s + 1)..i : FALSE
        BY <3>1
      <4>2. i > 0 /\ step.seen
        BY <2>5, <3>1 DEF QuietSince
      <4>3. new.lastRaw = new.at
        BY <2>1, <4>2
      <4>4. new.edge # NoEdge => new.edge.tLocal <= i
        BY <2>4 DEF EdgeOf
      <4>. QED
        BY <3>1, <4>1, <4>3, <4>4, <2>3 DEF ReadSince, Fastest
    <3>2. CASE s # i
      <4>1. s \in 0..(i - 1) /\ ~step.seen
        BY <2>5, <3>2 DEF QuietSince
      <4>2. QuietSince(h, s, i - 1)
        BY <2>5, <4>1 DEF QuietSince
      <4>3. ReadSince(h, v, s, i - 1)
        BY <2>2, <4>1, <4>2
      <4>4. new.lastRaw = v[s].at
        BY <2>1, <4>1, <4>3 DEF ReadSince
      <4>5. new.edge # NoEdge => new.edge = old.edge /\ step.does # "ask"
        BY <2>1, <4>1
      <4>6. new.edge # NoEdge => new.edge.tLocal <= s
        BY <4>3, <4>5 DEF ReadSince
      <4>7. (\E j \in (s + 1)..i : h[j].does = "ask") => new.edge = NoEdge
        <5> SUFFICES ASSUME NEW j \in (s + 1)..i, h[j].does = "ask", new.edge # NoEdge PROVE FALSE
          OBVIOUS
        <5>1. j \in (s + 1)..(i - 1)
          BY <4>5
        <5>2. old.edge = NoEdge
          BY <4>3, <5>1 DEF ReadSince
        <5>. QED
          BY <4>5, <5>2
      <4>8. ASSUME \A j \in (s + 1)..i : ~Lands(v[j - 1], h[j])
            PROVE  v[s].at <= new.at /\ new.at <= v[s].at + (i - s) * Fastest
        <5>1. \A j \in (s + 1)..(i - 1) : ~Lands(v[j - 1], h[j])
          BY <4>8
        <5>2. v[s].at <= old.at /\ old.at <= v[s].at + ((i - 1) - s) * Fastest
          BY <4>3, <5>1 DEF ReadSince
        <5>3. ~Lands(old, step)
          BY <4>1, <4>8
        <5>4. v[s] \in View
          <6>1. s \in 0..Len(h)
            BY <1>1, <4>1
          <6>. QED
            BY <1>1, <6>1
        <5>5. v[s].at \in Nat
          BY <5>4 DEF View
        <5>6. new.at = old.at + step.moves
          BY <2>1, <5>3
        <5> DEFINE a == v[s].at
                   b == old.at
                   c == new.at
                   m == step.moves
        <5>7. /\ b \in Nat /\ c \in Nat /\ a \in Nat /\ i \in Int /\ s \in Int /\ m \in 0..2
              /\ c = b + m
              /\ a <= b /\ b <= a + ((i - 1) - s) * 2
          <6>1. i \in Int /\ s \in Int
            BY <1>1
          <6>. QED
            BY <2>3, <5>2, <5>5, <5>6, <6>1 DEF Fastest
        <5> HIDE DEF a, b, c, m
        <5>8. a <= c /\ c <= a + (i - s) * 2
          BY ONLY <5>7
        <5>. QED
          BY <5>8 DEF a, c, Fastest
      <4>. QED
        BY <4>4, <4>6, <4>7, <4>8 DEF ReadSince
    <3>. QED
      BY <3>1, <3>2
  <2>. QED
    BY <2>4, <2>5
<1>5. 0..Len(h) \subseteq T
  <2> HIDE DEF T
  <2>. QED
    BY <1>1, <1>3, <1>4, CountedUp
<1>. QED
  BY <1>5

(* There is a last sighting.                                                *)
LEMMA LastSeenIs ==
    ASSUME NEW h \in Seq(Ticks)
    PROVE  LastSeen(h) \in 0..Len(h) /\ QuietSince(h, LastSeen(h), Len(h))
<1> DEFINE T == {i \in 0..Len(h) : \E s \in 0..i : QuietSince(h, s, i)}
<1>1. 0 \in T
  BY DEF QuietSince
<1>2. ASSUME NEW i \in 1..Len(h), i - 1 \in T PROVE i \in T
  <2>1. CASE h[i].seen
    BY <2>1 DEF QuietSince
  <2>2. CASE ~h[i].seen
    <3>1. PICK s \in 0..(i - 1) : QuietSince(h, s, i - 1)
      BY <1>2
    <3>2. QuietSince(h, s, i) /\ s \in 0..i
      BY <2>2, <3>1 DEF QuietSince
    <3>. QED
      BY <3>2
  <2>. QED
    BY <2>1, <2>2
<1>3. Len(h) \in T
  <2>1. Len(h) \in Nat
    OBVIOUS
  <2>2. 0..Len(h) \subseteq T
    <3> HIDE DEF T
    <3>. QED
      BY <1>1, <1>2, <2>1, CountedUp
  <2>. QED
    BY <2>1, <2>2
<1>4. \E s \in 0..Len(h) : QuietSince(h, s, Len(h))
  BY <1>3
<1>5. LastSeen(h) = CHOOSE s \in 0..Len(h) : QuietSince(h, s, Len(h))
  BY DEF LastSeen, QuietSince
<1>. QED
  <2> DEFINE Q(s) == QuietSince(h, s, Len(h))
  <2> HIDE DEF Q
  <2>1. (CHOOSE s \in 0..Len(h) : Q(s)) \in 0..Len(h) /\ Q(CHOOSE s \in 0..Len(h) : Q(s))
    BY <1>4 DEF Q
  <2>. QED
    BY <1>5, <2>1 DEF Q

(* A reading is of the last sighting, extrapolated within the cap.          *)
LEMMA ReadingsAreNear ==
    ASSUME NEW of \in Adapters, NEW h \in Seq(Ticks)
    PROVE  LET st == Views(of, h)
               now == st[Len(h)]
               seen == LastSeen(h)
               unseen == (seen + 1)..Len(h)
               reading == getPlayerTime(of, now)
               slack == (Cap(of) - 1) * Fastest
           IN /\ \/ \E j \in unseen : Lands(st[j - 1], h[j])
                 \/ /\ now.at - reading <= (Len(h) - seen) * Fastest
                    /\ reading - now.at <= slack
              /\ now.lastRaw <= reading /\ reading <= now.lastRaw + slack
              /\ (\E j \in unseen : h[j].does = "ask") => reading = now.lastRaw
<1> DEFINE n == Len(h)
           seen == LastSeen(h)
<1>1. PICK v : /\ IsFold(v, View, n, At0, [i \in 1..Len(h) |-> [st \in View |-> ViewStep(of, st, h[i])]])
               /\ Views(of, h) = v
  BY ViewsExist
<1>2. seen \in 0..n /\ QuietSince(h, seen, n) /\ n \in Nat
  BY LastSeenIs
<1>3. EdgeOf(v[n], n) /\ ReadSince(h, v, seen, n)
  <2>1. n \in 0..n
    BY <1>2
  <2> HIDE DEF seen
  <2>. QED
    BY <1>1, <1>2, <2>1, ReadingsAreOld
<1> DEFINE st == v[n]
<1>4. st \in View /\ v[seen] \in View
  BY <1>1, <1>2 DEF IsFold
<1>5. /\ st.at \in Nat /\ st.lastRaw \in Nat /\ st.now = n /\ st.rate \in 1..2
      /\ st.edge # NoEdge => st.edge.tLocal \in Nat /\ st.edge.value \in Nat
  BY <1>3, <1>4 DEF View, Edges, EdgeOf, Fastest
<1> DEFINE at == st.at
           was == st.lastRaw
           r == getPlayerTime(of, st)
           e == st.edge.tLocal
           rate == st.rate
           cap == Cap(of)
<1>6. cap \in 2..3
  BY DEF Cap
<1>7. \/ r = was
      \/ e \in Int /\ e <= n /\ n - e < cap /\ r = was + (n - e) * rate
  BY <1>3, <1>5 DEF getPlayerTime, Extrapolated, EdgeOf
<1>8. was \in Int /\ at \in Int /\ n \in Int /\ seen \in Int /\ rate \in 1..2
  BY <1>2, <1>5
<1>9. (\E j \in (seen + 1)..n : h[j].does = "ask") => r = was
  <2>1. ASSUME \E j \in (seen + 1)..n : h[j].does = "ask" PROVE st.edge = NoEdge
    BY <1>3, <2>1 DEF ReadSince
  <2>. QED
    BY <2>1 DEF getPlayerTime
<1>10. (\A j \in (seen + 1)..n : ~Lands(v[j - 1], h[j])) => was <= at /\ at <= was + (n - seen) * 2
  BY <1>3 DEF ReadSince, Fastest
<1> HIDE DEF at, was, r, e, rate, cap, seen, n
<1>11. r \in Int /\ was <= r /\ r <= was + (cap - 1) * 2
  <2>1. CASE r = was
    BY ONLY <1>6, <1>8, <2>1
  <2>2. CASE e \in Int /\ e <= n /\ n - e < cap /\ r = was + (n - e) * rate
    <3>1. CASE rate = 1
      BY ONLY <1>6, <1>8, <2>2, <3>1
    <3>2. CASE rate = 2
      BY ONLY <1>6, <1>8, <2>2, <3>2
    <3>. QED
      BY <1>8, <3>1, <3>2
  <2>. QED
    BY <1>7, <2>1, <2>2
<1>12. ASSUME \A j \in (seen + 1)..n : ~Lands(v[j - 1], h[j])
       PROVE  at - r <= (n - seen) * 2 /\ r - at <= (cap - 1) * 2
  <2>1. was <= at /\ at <= was + (n - seen) * 2
    BY <1>10, <1>12
  <2>. QED
    BY ONLY <1>6, <1>8, <1>11, <2>1
<1>. QED
  BY <1>1, <1>9, <1>11, <1>12 DEF at, was, r, cap, seen, n, Fastest

(* Every reading is near the truth and the lifecycle is the player's, for   *)
(* every history of ticks and every life, of whatever length (poll,         *)
(* getPlayerTime and seekTo of both adapters, VimeoAdapter's handlers).     *)
THEOREM ReadoutSafety ==
    ASSUME history.of \in Adapters => history.steps \in Seq(Ticks),
           history.of = "life" => history.steps \in Seq(LifeSteps)
    PROVE  ReadoutSound
<1>1. ReadingNearTruth
  <2>1. ASSUME history.of \in Adapters
        PROVE  history.steps \in Seq(Ticks)
    BY <2>1
  <2>. QED
    BY <2>1, ReadingsAreNear DEF ReadingNearTruth
<1>2. LifeFollowsVimeo
  BY KeptIsLived DEF LifeFollowsVimeo
<1>. QED
  BY <1>1, <1>2 DEF ReadoutSound

=============================================================================
