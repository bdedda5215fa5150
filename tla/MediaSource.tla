---------------------------- MODULE MediaSource ----------------------------
(***************************************************************************)
(* What a room's videoUrl means: which mount plays it (classifyMediaSource) *)
(* and whether a write path admits it (isAcceptableVideoUrl, and the        *)
(* decorator of the REST DTOs).  An input is a record of the facts the      *)
(* rules look at, not a string: whether it is blank, an 11-character id,    *)
(* has the shape of a URL, parses, and then scheme, host, the first path    *)
(* segments and the extension.                                              *)
(***************************************************************************)
EXTENDS Naturals

YT_HOSTS == {"youtube.com", "m.youtube.com"}
VIMEO_HOSTS == {"vimeo.com", "player.vimeo.com"}

(* id: what the segment or parameter in the place of a video's id is.       *)
Inputs ==
    [blank : BOOLEAN, bareId : BOOLEAN, fits : BOOLEAN, shaped : BOOLEAN,
     parses : BOOLEAN, scheme : {"http", "https", "javascript"},
     host : YT_HOSTS \cup VIMEO_HOSTS \cup {"youtu.be", "cdn"},
     place : {"watch", "embed", "video", "first", "other"},
     id : {"none", "id", "digits", "videoseries"},
     extension : {"none", "m3u8", "mp4"}]

VARIABLE input    \* the input at hand

(* Facts that go together: the shape asks for an http(s) scheme or a media  *)
(* path, which is relative and takes the base's scheme; blank input has     *)
(* none of it; an id that is all there is is no URL.                        *)
Input(s) ==
    /\ s.blank => ~s.bareId /\ ~s.shaped
    /\ s.bareId => ~s.shaped
    /\ s.shaped => s.scheme \in {"http", "https"}

NoInput == CHOOSE s \in Inputs : s.blank /\ Input(s)

None(why) == [kind |-> "none", reason |-> why]
Plays(kind) == [kind |-> kind, reason |-> "none"]

(* The id of a YouTube URL, wherever its kind of URL has it.                *)
extractYouTubeId(s) ==
    IF s.host = "youtu.be" THEN (IF s.place = "first" THEN s.id ELSE "none")
    ELSE IF s.place \in {"watch", "embed"} THEN s.id ELSE "none"

classifyVimeo(s) ==
    IF s.id = "digits" /\ s.place = (IF s.host = "player.vimeo.com" THEN "video" ELSE "first")
    THEN Plays("vimeo") ELSE None("unsupported")

byExtension(s) == IF s.extension = "m3u8" THEN Plays("hls") ELSE Plays("file")

(* A URL that parsed, by host and then by extension.                        *)
byHost(s) ==
    IF s.host \in YT_HOSTS \cup {"youtu.be"}
    THEN IF extractYouTubeId(s) = "id" THEN Plays("youtube") ELSE None("unsupported")
    ELSE IF s.host \in VIMEO_HOSTS THEN classifyVimeo(s)
    ELSE byExtension(s)

(* Seeded fault: the scheme is asked only of what no provider hosts.        *)
classifyHostFirst(s) ==
    IF s.blank THEN None("empty")
    ELSE IF s.bareId THEN Plays("youtube")
    ELSE IF ~s.parses THEN None("unsupported")
    ELSE IF s.host = "cdn" /\ s.scheme = "javascript" THEN None("unsupported")
    ELSE byHost(s)

classifyMediaSource(s) ==
    IF s.blank THEN None("empty")
    ELSE IF s.bareId THEN Plays("youtube")
    ELSE IF ~s.parses THEN None("unsupported")
    ELSE IF s.scheme \notin {"http", "https"} THEN None("unsupported")
    ELSE byHost(s)

isAcceptableVideoUrl(s) ==
    /\ ~s.blank /\ s.fits
    /\ s.shaped \/ s.bareId
    /\ classifyMediaSource(s).kind # "none"

(* The DTOs admit the sentinel of "no video" too.                           *)
IsRoomVideoUrl(s) == s.blank \/ isAcceptableVideoUrl(s)

-----------------------------------------------------------------------------
(* Nothing reaches a player that no player may fetch, also among stored     *)
(* values that never passed admission: what classifies as playable is a     *)
(* bare id or an http(s) URL, whatever host its text claims                 *)
(* (classifyMediaSource asks for the scheme before any host); and what      *)
(* REST admits the player has a mount for, or is the sentinel.              *)
OnlyHttpPlays ==
    /\ classifyMediaSource(input).kind # "none" =>
         input.bareId \/ (input.parses /\ input.scheme \in {"http", "https"})
    /\ IsRoomVideoUrl(input) =>
         \/ classifyMediaSource(input) = None("empty")
         \/ classifyMediaSource(input).kind # "none"

=============================================================================
