------------------------- MODULE SyncPlaneAProofs -------------------------
(***************************************************************************)
(* Proofs about SyncPlaneA for every value of its constants: plane A       *)
(* implements the abstract room of RoomView, a version names one timeline, *)
(* and a gesture moves what its sender was shown or nothing.               *)
(***************************************************************************)
EXTENDS SyncPlaneA, TLAPS

-----------------------------------------------------------------------------
(* The inductive invariant, part by part.                                   *)

(* What is held by a client, a handler, a sweep or a message was committed. *)
HeldInv ==
    /\ tl \in committed \cup {NoTimeline}
    /\ \A cl \in Clients :
          /\ view[cl] \in committed \cup {NoTimeline}
          /\ member[cl] = "hydrated" => joinTl[cl] \in committed
    /\ \A c \in Cmds :
          cmd[c].st = "replied" /\ cmd[c].res \in {"committed", "dup", "fenced"} =>
              cmd[c].tl \in committed
    /\ \A i \in Instances :
          /\ wire[i] \subseteq committed
          /\ sweeper[i].pc # "idle" => sweeper[i].tl \in committed

(* The timeline in Redis is of the last epoch minted, and newer than all    *)
(* that was committed before it.                                            *)
NewestInv ==
    /\ \A t \in committed : t.storeEpoch <= epochs
    /\ tl # NoTimeline =>
          /\ tl.storeEpoch = epochs
          /\ \A t \in committed : t = tl \/ isNewer(tl, t)

(* What a handler was given when its command was sent it keeps until the    *)
(* command is over; it has a result only once the script has run.           *)
HandlerInv ==
    \A c \in Cmds :
        /\ cmd[c].st = "idle" => cmd[c].inst = Nowhere
        /\ cmd[c].st \in {"idle", "sent", "eval"} => cmd[c].res = "none"
        /\ cmd[c].st \in {"sent", "eval", "replied"} =>
              CmdOf[c].intent = "set-video" \/ cmd[c].fence = cmd[c].shown
        /\ cmd[c].st \in {"idle", "sent"} => c \notin recorded

(* A command that has committed has its record.                             *)
OriginInv ==
    \A t \in committed : t.origin \in Cmds => t.origin \in recorded

IInv ==
    /\ TypeOK
    /\ HeldInv
    /\ NewestInv
    /\ Agreement
    /\ HandlerInv
    /\ OriginInv
    /\ FencedNeverApplied
    /\ MovedWhatWasShown

-----------------------------------------------------------------------------
(* Types.                                                                   *)

LEMMA ScopeType ==
    ASSUME TypeOK
    PROVE  /\ scope \in Scope
           /\ scope.windows \in Nat \ {0} /\ scope.mishaps \in Nat
           /\ scope.epochs \in Nat
           /\ scope.homes \in [Clients -> SUBSET Instances]
<1>1. scope \in Scope
  BY ScopesAssumption DEF TypeOK
<1>. QED
  BY <1>1 DEF Scope

(* A handler that is over, orphaned or fresh is a handler.                  *)
LEMMA IdleType == Idle \in Handler
<1>. QED
  BY PlaneBoundsAssumption DEF Idle, Handler, Results, MaybeVersion

LEMMA OverType ==
    ASSUME NEW h \in Handler, NEW res \in Results
    PROVE  /\ Over(h, res) \in Handler
           /\ Over(h, res).st = "done" /\ Over(h, res).res = res
           /\ Over(h, res).shown = h.shown
<1>1. h.shown \in Videos \cup {Unfenced}
  BY DEF Handler
<1>. QED
  BY <1>1, IdleType DEF Over, Idle, Handler

LEMMA OrphanType ==
    ASSUME NEW h \in Handler
    PROVE  Orphan(h) \in Handler
<1>1. CASE h.st = "sent"
  <2>1. "dropped" \in Results
    BY DEF Results
  <2>. QED
    BY <1>1, <2>1, OverType DEF Orphan
<1>2. CASE h.st # "sent"
  BY <1>2 DEF Orphan, Handler
<1>. QED
  BY <1>1, <1>2

LEMMA ResentType ==
    ASSUME NEW h \in Handler, h.tries < MaxRetries
    PROVE  /\ Resent(h) \in Handler
           /\ Resent(h).st = "eval" /\ Resent(h).res = "none"
           /\ Resent(h).fence = h.fence /\ Resent(h).shown = h.shown
<1>1. h.tries + 1 \in 0..MaxRetries
  BY PlaneBoundsAssumption DEF Handler
<1>. DEFINE n == h.tries + 1
<1>2. Resent(h) = [h EXCEPT !.st = "eval", !.tries = n, !.res = "none",
                            !.tl = NoTimeline]
  BY DEF Resent
<1>3. "none" \in Results /\ NoTimeline \in MaybeVersion /\ n \in 0..MaxRetries
  BY <1>1 DEF Results, MaybeVersion
<1>. HIDE DEF n
<1>. QED
  BY <1>2, <1>3 DEF Handler

LEMMA OnTimelineType ==
    ASSUME view \in [Clients -> MaybeVersion], NEW S, NEW t \in MaybeVersion,
           onTimeline(S, t)
    PROVE  view' \in [Clients -> MaybeVersion]
<1>. QED
  BY DEF onTimeline

LEMMA MishapType ==
    ASSUME TypeOK, Mishap
    PROVE  mishaps' \in 0..scope.mishaps
<1>. QED
  BY ScopeType DEF TypeOK, Mishap

LEMMA NextCases ==
    ASSUME Next, NEW G,
           ASSUME NEW cl \in Clients, ClientNext(cl) PROVE G,
           ASSUME NEW c \in Cmds, CmdNext(c) PROVE G,
           ASSUME NEW i \in Instances, InstanceNext(i) PROVE G,
           ASSUME NewWindow PROVE G,
           ASSUME Vanish PROVE G
    PROVE  G
<1>. QED
  BY DEF Next

LEMMA InitType == ASSUME Init PROVE TypeOK
<1>1. /\ scope \in Scope /\ scope.windows \in Nat \ {0}
      /\ scope.mishaps \in Nat /\ scope.epochs \in Nat
  BY ScopesAssumption DEF Init, Scope
<1>2. cmd \in [Cmds -> Handler]
  BY IdleType DEF Init
<1>3. sweeper \in [Instances -> Sweeper]
  BY DEF Init, Resting, Sweeper, MaybeVersion
<1>. QED
  <2>1. windows \in 1..scope.windows /\ mishaps \in 0..scope.mishaps
        /\ epochs \in 0..scope.epochs
    BY <1>1 DEF Init
  <2>2. /\ at \in [Clients -> Instances \cup {Nowhere}]
        /\ member \in [Clients -> Membership]
        /\ \A cl \in Clients : at[cl] = Nowhere => member[cl] = "out"
        /\ joinTl \in [Clients -> MaybeVersion] /\ view \in [Clients -> MaybeVersion]
    BY DEF Init, MaybeVersion, Membership
  <2>3. /\ timer \in [Instances -> BOOLEAN] /\ wire \in [Instances -> SUBSET Version]
    BY DEF Init
  <2>. QED
    BY <1>2, <1>3, <2>1, <2>2, <2>3 DEF Init, TypeOK, MaybeVersion

LEMMA VersionFields ==
    ASSUME NEW t \in Version
    PROVE  /\ t # NoTimeline
           /\ t.seq \in Nat /\ t.storeEpoch \in Nat /\ t.videoId \in Videos
           /\ t.isPlaying \in BOOLEAN /\ t.origin \in Cmds \cup {Sweep, Join}
<1>. QED
  BY NoVersionAssumption DEF Version

LEMMA BirthType ==
    ASSUME TypeOK, NEW v \in RowVideos
    PROVE  Birth(v) \in Version
<1>. QED
  BY RowVideosAssumption, ScopeType DEF TypeOK, Birth, Version

LEMMA ControlledType ==
    ASSUME tl \in Version, NEW c \in Cmds
    PROVE  /\ Controlled(c) \in Version
           /\ Controlled(c).seq = tl.seq + 1
           /\ Controlled(c).storeEpoch = tl.storeEpoch
           /\ Controlled(c).origin = c
           /\ CmdOf[c].intent # "set-video" => Controlled(c).videoId = tl.videoId
<1>1. CmdOf[c].videoId \in Videos
  BY CmdOfAssumption
<1>2. tl.seq + 1 \in Nat /\ tl.storeEpoch \in Nat /\ tl.videoId \in Videos
  BY VersionFields
<1>. DEFINE p == CmdOf[c].intent = "play" \/ (CmdOf[c].intent = "seek" /\ tl.isPlaying)
            v == IF CmdOf[c].intent = "set-video" THEN CmdOf[c].videoId ELSE tl.videoId
<1>3. p \in BOOLEAN
  BY VersionFields
<1>4. v \in Videos
  BY <1>1, <1>2
<1>5. Controlled(c) = [seq |-> tl.seq + 1, storeEpoch |-> tl.storeEpoch,
                       videoId |-> v, isPlaying |-> p, origin |-> c]
  BY DEF Controlled
<1>6. CmdOf[c].intent # "set-video" => v = tl.videoId
  OBVIOUS
<1>. HIDE DEF p, v
<1>. QED
  BY <1>2, <1>3, <1>4, <1>5, <1>6 DEF Version

LEMMA ReanchoredType ==
    ASSUME tl \in Version
    PROVE  /\ Reanchored \in Version
           /\ Reanchored.seq = tl.seq + 1
           /\ Reanchored.storeEpoch = tl.storeEpoch
           /\ Reanchored.origin = Sweep
           /\ Reanchored.videoId = tl.videoId
<1>1. tl.seq + 1 \in Nat
  BY VersionFields
<1>. DEFINE n == tl.seq + 1
            s == Sweep
<1>2. Reanchored = [tl EXCEPT !.seq = n, !.origin = s]
  BY DEF Reanchored
<1>3. n \in Nat /\ s \in Cmds \cup {Sweep, Join}
  BY <1>1
<1>4. n = tl.seq + 1 /\ s = Sweep
  OBVIOUS
<1>. HIDE DEF n, s
<1>5. /\ Reanchored \in Version /\ Reanchored.seq = n
      /\ Reanchored.storeEpoch = tl.storeEpoch /\ Reanchored.origin = s
      /\ Reanchored.videoId = tl.videoId
  BY <1>2, <1>3 DEF Version
<1>. QED
  BY <1>4, <1>5

(* A broadcast of a version, to some and on the wire.                       *)
LEMMA BroadcastType ==
    ASSUME TypeOK, NEW i, NEW t \in Version, Broadcast(i, t)
    PROVE  /\ view' \in [Clients -> MaybeVersion]
           /\ wire' \in [Instances -> SUBSET Version]
<1>1. view' \in [Clients -> MaybeVersion]
  BY OnTimelineType DEF Broadcast, TypeOK, MaybeVersion
<1>2. wire' \in [Instances -> SUBSET Version]
  BY DEF Broadcast, TypeOK
<1>. QED
  BY <1>1, <1>2

LEMMA HangupType ==
    ASSUME TypeOK, NEW gone, Hangup(gone)
    PROVE  /\ at' \in [Clients -> Instances \cup {Nowhere}]
           /\ member' \in [Clients -> Membership]
           /\ \A cl \in Clients : at'[cl] = Nowhere => member'[cl] = "out"
           /\ joinTl' \in [Clients -> MaybeVersion]
<1>. QED
  BY DEF TypeOK, Hangup, Membership, MaybeVersion

LEMMA ClientType ==
    ASSUME TypeOK, HeldInv, NEW cl \in Clients, ClientNext(cl)
    PROVE  TypeOK'
<1>1. CASE Connect(cl)
  <2>1. PICK i \in Instances : at' = [at EXCEPT ![cl] = i]
    BY <1>1, ScopeType DEF Connect
  <2>. QED
    BY <1>1, <2>1, NowhereAssumption DEF Connect, TypeOK, storeVars
<1>2. CASE Disconnect(cl)
  <2>1. cmd' \in [Cmds -> Handler]
    BY <1>2, OrphanType DEF Disconnect, TypeOK
  <2>2. mishaps' \in 0..scope.mishaps
    BY <1>2, MishapType DEF Disconnect
  <2>. QED
    BY <1>2, <2>1, <2>2, HangupType DEF Disconnect, TypeOK, storeVars
<1>3. CASE Reload(cl)
  BY <1>3 DEF Reload, TypeOK, storeVars, MaybeVersion
<1>4. CASE JoinRoom(cl)
  BY <1>4 DEF JoinRoom, TypeOK, storeVars, Membership
<1>5. CASE EnsureRoom(cl)
  <2>1. tl' \in MaybeVersion /\ committed' \subseteq Version /\ epochs' \in 0..scope.epochs
        /\ swept' \in BOOLEAN /\ scope' = scope /\ recorded' = recorded
    <3>1. CASE UNCHANGED storeVars
      BY <3>1 DEF TypeOK, storeVars
    <3>2. CASE tl = NoTimeline
      <4>1. CASE \E v \in RowVideos : tl' = Birth(v)
        <5>1. tl' \in Version
          BY <4>1, BirthType
        <5>2. /\ swept' = FALSE /\ epochs' = epochs + 1
              /\ committed' = committed \cup {tl'} /\ epochs < scope.epochs
              /\ scope' = scope /\ recorded' = recorded
          BY <1>5, <3>2, <4>1, <5>1, VersionFields DEF EnsureRoom, storeVars
        <5>3. epochs' \in 0..scope.epochs
          BY <5>2, ScopeType DEF TypeOK
        <5>. QED
          BY <5>1, <5>2, <5>3 DEF TypeOK, MaybeVersion
      <4>2. CASE ~\E v \in RowVideos : tl' = Birth(v)
        BY <1>5, <3>1, <3>2, <4>2 DEF EnsureRoom
      <4>. QED
        BY <4>1, <4>2
    <3>. QED
      BY <1>5, <3>1, <3>2 DEF EnsureRoom
  <2>2. joinTl' \in [Clients -> MaybeVersion]
    BY <1>5, <2>1 DEF EnsureRoom, TypeOK
  <2>3. member' \in [Clients -> Membership] /\ at' = at
        /\ \A k \in Clients : member[k] = "out" => member'[k] = "out"
    BY <1>5 DEF EnsureRoom, TypeOK, Membership
  <2>. QED
    BY <1>5, <2>1, <2>2, <2>3 DEF EnsureRoom, TypeOK
<1>6. CASE JoinFails(cl)
  <2>1. mishaps' \in 0..scope.mishaps
    BY <1>6, MishapType DEF JoinFails
  <2>. QED
    BY <1>6, <2>1 DEF JoinFails, TypeOK, storeVars, Membership
<1>7. CASE RoomJoined(cl)
  <2>1. view' \in [Clients -> MaybeVersion]
    BY <1>7, OnTimelineType DEF RoomJoined, TypeOK
  <2>. QED
    BY <1>7, <2>1 DEF RoomJoined, TypeOK, storeVars, Membership, MaybeVersion
<1>. QED
  BY <1>1, <1>2, <1>3, <1>4, <1>5, <1>6, <1>7 DEF ClientNext

(* Only the handler of c changes.                                           *)
LEMMA HandlerType ==
    ASSUME TypeOK, NEW c \in Cmds, NEW h \in Handler, cmd' = [cmd EXCEPT ![c] = h]
    PROVE  cmd' \in [Cmds -> Handler]
<1>. QED
  BY DEF TypeOK

LEMMA CmdType ==
    ASSUME TypeOK, HeldInv, NEW c \in Cmds, CmdNext(c)
    PROVE  TypeOK'
<1>0. cmd[c] \in Handler
  BY DEF TypeOK
<1>1. CASE sendIntent(c)
  <2>1. CmdOf[c].client \in Clients
    BY CmdOfAssumption
  <2>. DEFINE cl == CmdOf[c].client
              s == IF view[cl] = NoTimeline THEN Unfenced ELSE view[cl].videoId
  <2>2. view[cl] \in MaybeVersion /\ at[cl] \in Instances \cup {Nowhere}
    BY <2>1 DEF TypeOK
  <2>3. s \in Videos \cup {Unfenced}
    BY <2>2, VersionFields DEF MaybeVersion
  <2>4. fence(cl, CmdOf[c].intent) \in Videos \cup {Unfenced}
    BY <2>3 DEF fence
  <2>. DEFINE f == fence(cl, CmdOf[c].intent)
              h == [Idle EXCEPT !.st = "sent", !.inst = at[cl], !.live = TRUE,
                                !.shown = s, !.fence = f]
  <2>5. h \in Handler
    <3>1. at[cl] \in Instances \cup {Nowhere} /\ s \in Videos \cup {Unfenced}
          /\ f \in Videos \cup {Unfenced} /\ cl = cl
      BY <2>2, <2>3, <2>4
    <3>. DEFINE a == at[cl]
    <3>2. a \in Instances \cup {Nowhere}
      BY <3>1
    <3>. HIDE DEF s, f, a
    <3>3. [Idle EXCEPT !.st = "sent", !.inst = a, !.live = TRUE,
                       !.shown = s, !.fence = f] \in Handler
      BY <3>1, <3>2, IdleType DEF Handler
    <3>. QED
      BY <3>3 DEF a
  <2>6. cmd' = [cmd EXCEPT ![c] = h]
    BY <1>1 DEF sendIntent
  <2>. HIDE DEF h
  <2>7. cmd' \in [Cmds -> Handler]
    BY <2>5, <2>6, HandlerType
  <2>. QED
    BY <1>1, <2>7 DEF sendIntent, TypeOK, storeVars, clientVars
<1>2. CASE RejectControl(c)
  <2>1. cmd' \in [Cmds -> Handler]
    BY <1>0, <1>2, OverType DEF RejectControl, TypeOK, Results
  <2>. QED
    BY <1>2, <2>1 DEF RejectControl, TypeOK, storeVars, clientVars
<1>3. CASE AcceptControl(c)
  <2>1. cmd' \in [Cmds -> Handler]
    BY <1>0, <1>3 DEF AcceptControl, TypeOK, Handler
  <2>. QED
    BY <1>3, <2>1 DEF AcceptControl, TypeOK, storeVars, clientVars
<1>4. CASE EvalControl(c)
  <2>1. tl' \in MaybeVersion /\ committed' \subseteq Version /\ recorded' \subseteq Cmds
    <3>1. CASE Outcome(c) = "committed"
      <4>1. tl \in Version
        BY <3>1 DEF Outcome, TypeOK, MaybeVersion
      <4>2. tl' \in Version
        BY <1>4, <3>1, <4>1, ControlledType DEF EvalControl
      <4>. QED
        BY <1>4, <3>1, <4>2 DEF EvalControl, TypeOK, MaybeVersion
    <3>2. CASE Outcome(c) # "committed"
      BY <1>4, <3>2 DEF EvalControl, TypeOK
    <3>. QED
      BY <3>1, <3>2
  <2>2. Outcome(c) \in Results
    BY DEF Outcome, Results
  <2>. DEFINE h == [cmd[c] EXCEPT !.st = "replied", !.res = Outcome(c), !.tl = tl']
  <2>3. h \in Handler
    BY <1>0, <2>1, <2>2 DEF Handler
  <2>4. cmd' = [cmd EXCEPT ![c] = h]
    BY <1>4 DEF EvalControl, TypeOK
  <2>. HIDE DEF h
  <2>5. cmd' \in [Cmds -> Handler]
    BY <2>3, <2>4, HandlerType
  <2>. QED
    BY <1>4, <2>1, <2>5 DEF EvalControl, TypeOK, clientVars
<1>5. CASE LoseReply(c)
  <2>1. cmd[c].tries < MaxRetries => Resent(cmd[c]) \in Handler
    BY <1>0, ResentType
  <2>2. Over(cmd[c], "error") \in Handler
    BY <1>0, OverType DEF Results
  <2>3. cmd[c].tries \in 0..MaxRetries
    BY <1>0 DEF Handler
  <2>4. cmd' \in [Cmds -> Handler]
    BY <1>5, <2>1, <2>2, <2>3, PlaneBoundsAssumption DEF LoseReply, TypeOK
  <2>5. mishaps' \in 0..scope.mishaps
    BY <1>5, MishapType DEF LoseReply
  <2>. QED
    BY <1>5, <2>4, <2>5 DEF LoseReply, TypeOK, storeVars, clientVars
<1>6. CASE FinishControl(c)
  <2>1. cmd' \in [Cmds -> Handler]
    <3>1. cmd[c].res \in Results
      BY <1>0 DEF Handler
    <3>2. Over(cmd[c], cmd[c].res) \in Handler
      BY <1>0, <3>1, OverType
    <3>. QED
      BY <1>6, <3>2, HandlerType DEF FinishControl
  <2>2. view' \in [Clients -> MaybeVersion] /\ wire' \in [Instances -> SUBSET Version]
    <3>1. CASE cmd[c].res = "committed" /\ Broadcast(cmd[c].inst, cmd[c].tl)
      <4>1. cmd[c].tl \in Version
        BY <1>6, <3>1 DEF FinishControl, HeldInv, TypeOK
      <4>. QED
        BY <3>1, <4>1, BroadcastType
    <3>2. CASE cmd[c].res \in {"dup", "fenced"} /\ UNCHANGED wire
               /\ onTimeline(IF cmd[c].live THEN {CmdOf[c].client} ELSE {}, cmd[c].tl)
      <4>1. cmd[c].tl \in MaybeVersion
        BY <1>0 DEF Handler
      <4>. QED
        BY <3>2, <4>1, OnTimelineType DEF TypeOK
    <3>3. CASE UNCHANGED <<view, wire>>
      BY <3>3 DEF TypeOK
    <3>. QED
      BY <1>6, <3>1, <3>2, <3>3 DEF FinishControl
  <2>. QED
    BY <1>6, <2>1, <2>2 DEF FinishControl, TypeOK, storeVars
<1>. QED
  BY <1>1, <1>2, <1>3, <1>4, <1>5, <1>6 DEF CmdNext

LEMMA InstanceType ==
    ASSUME TypeOK, HeldInv, NEW i \in Instances, InstanceNext(i)
    PROVE  TypeOK'
<1>0. sweeper[i] \in Sweeper /\ sweeper[i].tl \in MaybeVersion
  BY DEF TypeOK, Sweeper
<1>r. Resting \in Sweeper
  BY DEF Resting, Sweeper, MaybeVersion
<1>1. CASE WireDeliver(i)
  <2>1. PICK t \in wire[i] :
          /\ onTimeline(Local(i), t)
          /\ wire' = [wire EXCEPT ![i] = @ \ {t}]
    BY <1>1 DEF WireDeliver
  <2>2. view' \in [Clients -> MaybeVersion]
    BY <2>1, OnTimelineType DEF TypeOK, MaybeVersion
  <2>3. wire' \in [Instances -> SUBSET Version]
    BY <2>1 DEF TypeOK
  <2>. QED
    BY <1>1, <2>2, <2>3 DEF WireDeliver, TypeOK, storeVars
<1>2. CASE SweepGet(i)
  <2>1. sweeper' \in [Instances -> Sweeper]
    BY <1>2 DEF SweepGet, TypeOK, Sweeper
  <2>. QED
    BY <1>2, <2>1 DEF SweepGet, TypeOK, storeVars, clientVars
<1>3. CASE SweepApply(i)
  <2>1. CASE tl # NoTimeline /\ tl.isPlaying /\ ~swept
    <3>1. tl' \in Version
      BY <1>3, <2>1, ReanchoredType DEF SweepApply, TypeOK, MaybeVersion
    <3>2. [pc |-> "won", tl |-> tl'] \in Sweeper
      BY <3>1 DEF Sweeper, MaybeVersion
    <3>3. sweeper' \in [Instances -> Sweeper]
      BY <1>3, <2>1, <3>2 DEF SweepApply, TypeOK
    <3>4. /\ committed' = committed \cup {tl'} /\ swept' = TRUE
          /\ UNCHANGED <<scope, recorded, windows, mishaps, epochs, clientVars, cmd,
                         timer, wire>>
      BY <1>3, <2>1 DEF SweepApply
    <3>. QED
      BY <3>1, <3>3, <3>4 DEF TypeOK, clientVars, MaybeVersion
  <2>2. CASE ~(tl # NoTimeline /\ tl.isPlaying /\ ~swept)
    <3>. DEFINE k == IF tl # NoTimeline /\ ~tl.isPlaying THEN [pc |-> "won", tl |-> tl]
                    ELSE [pc |-> "lost", tl |-> sweeper[i].tl]
    <3>1. /\ UNCHANGED <<tl, swept, committed>>
          /\ sweeper' = [sweeper EXCEPT ![i] = k]
          /\ UNCHANGED <<scope, recorded, windows, mishaps, epochs, clientVars, cmd,
                         timer, wire>>
      BY <1>3, <2>2 DEF SweepApply
    <3>3. k \in Sweeper
      BY DEF TypeOK, Sweeper, MaybeVersion
    <3>. HIDE DEF k
    <3>2. sweeper' \in [Instances -> Sweeper]
      BY <3>1, <3>3 DEF TypeOK
    <3>. QED
      BY <3>1, <3>2 DEF TypeOK, clientVars
  <2>. QED
    BY <2>1, <2>2
<1>4. CASE SweepEmit(i)
  <2>1. sweeper' \in [Instances -> Sweeper]
    BY <1>4, <1>r DEF SweepEmit, TypeOK
  <2>2. view' \in [Clients -> MaybeVersion] /\ wire' \in [Instances -> SUBSET Version]
    <3>1. CASE sweeper[i].pc = "won" /\ Broadcast(i, sweeper[i].tl)
      <4>1. sweeper[i].tl \in Version
        BY <3>1 DEF HeldInv, TypeOK
      <4>. QED
        BY <3>1, <4>1, BroadcastType
    <3>2. CASE /\ onTimeline(Local(i), IF tl = NoTimeline THEN sweeper[i].tl ELSE tl)
               /\ UNCHANGED wire
      <4>1. (IF tl = NoTimeline THEN sweeper[i].tl ELSE tl) \in MaybeVersion
        BY <1>0 DEF TypeOK
      <4>. QED
        BY <3>2, <4>1, OnTimelineType DEF TypeOK
    <3>. QED
      BY <1>4, <3>1, <3>2 DEF SweepEmit
  <2>. QED
    BY <1>4, <2>1, <2>2 DEF SweepEmit, TypeOK, storeVars
<1>5. CASE SweepFails(i)
  <2>1. mishaps' \in 0..scope.mishaps
    BY <1>5, MishapType DEF SweepFails
  <2>. QED
    BY <1>5, <1>r, <2>1 DEF SweepFails, TypeOK, storeVars, clientVars
<1>6. CASE Crash(i)
  <2>1. mishaps' \in 0..scope.mishaps
    BY <1>6, MishapType DEF Crash
  <2>2. cmd' \in [Cmds -> Handler]
    <3>1. "dropped" \in Results
      BY DEF Results
    <3>. QED
      BY <1>6, <3>1, OverType DEF Crash, TypeOK
  <2>3. /\ at' \in [Clients -> Instances \cup {Nowhere}]
        /\ member' \in [Clients -> Membership]
        /\ \A cl \in Clients : at'[cl] = Nowhere => member'[cl] = "out"
        /\ joinTl' \in [Clients -> MaybeVersion]
    BY <1>6, HangupType DEF Crash
  <2>. QED
    BY <1>6, <1>r, <2>1, <2>2, <2>3 DEF Crash, TypeOK, storeVars
<1>. QED
  BY <1>1, <1>2, <1>3, <1>4, <1>5, <1>6 DEF InstanceNext

LEMMA TypeStep ==
    ASSUME TypeOK, HeldInv, Next
    PROVE  TypeOK'
<1>1. ASSUME NewWindow PROVE TypeOK'
  <2>1. windows' \in 1..scope.windows
    BY <1>1, ScopeType DEF NewWindow, TypeOK
  <2>. QED
    BY <1>1, <2>1 DEF NewWindow, TypeOK, clientVars
<1>2. ASSUME Vanish PROVE TypeOK'
  <2>1. mishaps' \in 0..scope.mishaps
    BY <1>2, MishapType DEF Vanish
  <2>. QED
    BY <1>2, <2>1 DEF Vanish, TypeOK, clientVars, MaybeVersion
<1>. QED
  BY <1>1, <1>2, ClientType, CmdType, InstanceType, NextCases

-----------------------------------------------------------------------------
(* What a step may do to the store.                                         *)

StoreKept == UNCHANGED <<tl, committed, epochs, recorded>>

Gone == tl' = NoTimeline /\ UNCHANGED <<committed, epochs, recorded>>

(* A commit that no command made: a hydration or a snapshot.                *)
CommittedBySelf ==
    /\ tl' \in Version /\ committed' = committed \cup {tl'}
    /\ tl'.storeEpoch = epochs'
    /\ epochs \in Nat /\ epochs' \in {epochs, epochs + 1}
    /\ \A old \in committed : isNewer(tl', old)
    /\ tl'.origin \in {Sweep, Join}
    /\ UNCHANGED <<recorded, view, cmd, wire>>

CommittedBy(c) ==
    /\ tl # NoTimeline
    /\ tl' = Controlled(c) /\ committed' = committed \cup {tl'}
    /\ tl' \in Version /\ tl'.storeEpoch = epochs'
    /\ epochs \in Nat /\ UNCHANGED <<epochs, view, wire>>
    /\ \A old \in committed : isNewer(tl', old)
    /\ recorded' = recorded \cup {c} /\ c \notin recorded
    /\ Outcome(c) = "committed"
    /\ cmd[c].st = "eval"
    /\ cmd' = [cmd EXCEPT ![c].st = "replied", ![c].res = "committed", ![c].tl = tl']

(* A version that follows the newest is newer than all.                     *)
LEMMA FollowerIsNewest ==
    ASSUME TypeOK, NewestInv, tl \in Version,
           NEW t \in Version, t.storeEpoch = tl.storeEpoch, t.seq = tl.seq + 1
    PROVE  /\ t.storeEpoch = epochs
           /\ \A old \in committed : isNewer(t, old)
<1>1. tl # NoTimeline /\ tl.seq \in Nat /\ tl.storeEpoch \in Nat
  BY VersionFields
<1>2. t.storeEpoch = epochs
  BY <1>1 DEF NewestInv
<1>3. SUFFICES ASSUME NEW old \in committed PROVE isNewer(t, old)
  BY <1>2
<1>4. old \in Version
  BY DEF TypeOK
<1>5. /\ old # NoTimeline /\ old.seq \in Nat /\ old.storeEpoch \in Nat
  BY <1>4, VersionFields
<1>6. old = tl \/ isNewer(tl, old)
  BY <1>1 DEF NewestInv
<1>. QED
  BY <1>1, <1>5, <1>6 DEF isNewer

LEMMA StoreStep ==
    ASSUME TypeOK, HeldInv, NewestInv, Next
    PROVE  \/ StoreKept \/ (Gone /\ UNCHANGED <<view, cmd, wire>>)
           \/ CommittedBySelf \/ \E c \in Cmds : CommittedBy(c)
<1>. DEFINE G == \/ StoreKept \/ (Gone /\ UNCHANGED <<view, cmd, wire>>)
                 \/ CommittedBySelf \/ \E c \in Cmds : CommittedBy(c)
<1>e. epochs \in Nat
  BY ScopeType DEF TypeOK
<1>1. ASSUME NEW cl \in Clients, ClientNext(cl) PROVE G
  <2>1. CASE EnsureRoom(cl) /\ ~(UNCHANGED storeVars)
    <3>1. PICK v \in RowVideos :
            /\ tl' = Birth(v) /\ epochs' = epochs + 1
            /\ committed' = committed \cup {tl'}
            /\ UNCHANGED <<recorded, view, cmd, wire>>
      BY <2>1 DEF EnsureRoom
    <3>2. /\ tl' \in Version /\ tl'.storeEpoch = epochs + 1 /\ tl'.origin = Join
      BY <3>1, BirthType DEF Birth
    <3>3. ASSUME NEW old \in committed PROVE isNewer(tl', old)
      <4>1. old \in Version /\ old.storeEpoch <= epochs
        BY DEF TypeOK, NewestInv
      <4>2. old.storeEpoch \in Nat
        BY <4>1, VersionFields
      <4>. QED
        BY <1>e, <3>2, <4>1, <4>2 DEF isNewer
    <3>. QED
      BY <1>e, <3>1, <3>2, <3>3 DEF CommittedBySelf
  <2>2. CASE ~(EnsureRoom(cl) /\ ~(UNCHANGED storeVars))
    BY <1>1, <2>2 DEF ClientNext, Connect, Disconnect, Reload, JoinRoom, EnsureRoom,
       JoinFails, RoomJoined, StoreKept, storeVars
  <2>. QED
    BY <2>1, <2>2
<1>2. ASSUME NEW c \in Cmds, CmdNext(c) PROVE G
  <2>1. CASE EvalControl(c) /\ Outcome(c) = "committed"
    <3>1. /\ tl' = Controlled(c) /\ recorded' = recorded \cup {c}
          /\ committed' = committed \cup {tl'} /\ UNCHANGED <<epochs, view, wire>>
          /\ cmd[c].st = "eval"
          /\ cmd' = [cmd EXCEPT ![c].st = "replied", ![c].res = "committed", ![c].tl = tl']
      BY <2>1 DEF EvalControl, clientVars
    <3>2. tl # NoTimeline /\ c \notin recorded /\ tl \in Version
      BY <2>1 DEF Outcome, TypeOK, MaybeVersion
    <3>3. /\ tl' \in Version /\ tl'.storeEpoch = tl.storeEpoch /\ tl'.seq = tl.seq + 1
      BY <3>1, <3>2, ControlledType
    <3>4. tl'.storeEpoch = epochs /\ \A old \in committed : isNewer(tl', old)
      BY <3>2, <3>3, FollowerIsNewest
    <3>. QED
      BY <1>e, <2>1, <3>1, <3>2, <3>3, <3>4 DEF CommittedBy
  <2>2. CASE ~(EvalControl(c) /\ Outcome(c) = "committed")
    BY <1>2, <2>2 DEF CmdNext, sendIntent, RejectControl, AcceptControl, EvalControl,
       LoseReply, FinishControl, StoreKept, storeVars
  <2>. QED
    BY <2>1, <2>2
<1>3. ASSUME NEW i \in Instances, InstanceNext(i) PROVE G
  <2>1. CASE SweepApply(i) /\ tl # NoTimeline /\ tl.isPlaying /\ ~swept
    <3>1. /\ tl' = Reanchored /\ committed' = committed \cup {tl'}
          /\ UNCHANGED <<epochs, recorded, view, cmd, wire>>
      BY <2>1 DEF SweepApply, clientVars
    <3>2. tl \in Version
      BY <2>1 DEF TypeOK, MaybeVersion
    <3>3. /\ tl' \in Version /\ tl'.storeEpoch = tl.storeEpoch /\ tl'.seq = tl.seq + 1
          /\ tl'.origin = Sweep
      BY <3>1, <3>2, ReanchoredType
    <3>4. tl'.storeEpoch = epochs /\ \A old \in committed : isNewer(tl', old)
      BY <3>2, <3>3, FollowerIsNewest
    <3>. QED
      BY <1>e, <3>1, <3>3, <3>4 DEF CommittedBySelf
  <2>2. CASE ~(SweepApply(i) /\ tl # NoTimeline /\ tl.isPlaying /\ ~swept)
    BY <1>3, <2>2 DEF InstanceNext, WireDeliver, SweepGet, SweepApply, SweepEmit,
       SweepFails, Crash, StoreKept, storeVars
  <2>. QED
    BY <2>1, <2>2
<1>4. ASSUME NewWindow PROVE G
  BY <1>4 DEF NewWindow, StoreKept
<1>5. ASSUME Vanish PROVE G
  BY <1>5 DEF Vanish, Gone, clientVars
<1>. HIDE DEF G
<1>6. G
  BY <1>1, <1>2, <1>3, <1>4, <1>5, NextCases
<1>. QED
  BY <1>6 DEF G

-----------------------------------------------------------------------------
(* What a step may do to the clients' views.                                *)

(* A committed timeline reaches some clients, and perhaps the wire.         *)
Hears ==
    \E S \in SUBSET Clients, t \in committed :
        /\ onTimeline(S, t)
        /\ \A i \in Instances : wire'[i] \subseteq wire[i] \cup {t}

ViewKept ==
    /\ UNCHANGED view
    /\ \A i \in Instances : wire'[i] \subseteq wire[i]

LEMMA LocalClients == \A i : Local(i) \in SUBSET Clients
<1>. QED
  BY DEF Local

LEMMA BroadcastIsHeard ==
    ASSUME TypeOK, NEW i, NEW t \in committed, Broadcast(i, t)
    PROVE  Hears
<1>. QED
  BY LocalClients DEF Broadcast, Hears, TypeOK

LEMMA ViewStep ==
    ASSUME TypeOK, HeldInv, Next
    PROVE  \/ ViewKept
           \/ StoreKept /\ Hears
           \/ StoreKept /\ \E cl \in Clients : Reload(cl)
<1>. DEFINE G == \/ ViewKept
                 \/ StoreKept /\ Hears
                 \/ StoreKept /\ \E cl \in Clients : Reload(cl)
<1>1. ASSUME NEW cl \in Clients, ClientNext(cl) PROVE G
  <2>1. CASE RoomJoined(cl)
    <3>1. joinTl[cl] \in committed
      BY <2>1 DEF RoomJoined, HeldInv
    <3>2. {cl} \in SUBSET Clients /\ wire' = wire /\ onTimeline({cl}, joinTl[cl]) /\ StoreKept
      BY <2>1 DEF RoomJoined, StoreKept, storeVars
    <3>3. Hears
      BY <3>1, <3>2 DEF Hears
    <3>. QED
      BY <3>2, <3>3
  <2>2. CASE Reload(cl)
    BY <2>2 DEF Reload, StoreKept, storeVars
  <2>3. CASE ~RoomJoined(cl) /\ ~Reload(cl)
    BY <1>1, <2>3 DEF ClientNext, Connect, Disconnect, JoinRoom, EnsureRoom, JoinFails,
       ViewKept
  <2>. QED
    BY <2>1, <2>2, <2>3
<1>2. ASSUME NEW c \in Cmds, CmdNext(c) PROVE G
  <2>1. CASE FinishControl(c)
    <3>0. StoreKept /\ CmdOf[c].client \in Clients
      BY <2>1, CmdOfAssumption DEF FinishControl, StoreKept, storeVars
    <3>1. CASE cmd[c].res = "committed" /\ Broadcast(cmd[c].inst, cmd[c].tl)
      <4>1. cmd[c].tl \in committed
        BY <2>1, <3>1 DEF FinishControl, HeldInv
      <4>. QED
        BY <3>0, <3>1, <4>1, BroadcastIsHeard
    <3>2. CASE cmd[c].res \in {"dup", "fenced"} /\ UNCHANGED wire
               /\ onTimeline(IF cmd[c].live THEN {CmdOf[c].client} ELSE {}, cmd[c].tl)
      <4>1. cmd[c].tl \in committed
        BY <2>1, <3>2 DEF FinishControl, HeldInv
      <4>2. (IF cmd[c].live THEN {CmdOf[c].client} ELSE {}) \in SUBSET Clients
        BY <3>0
      <4>3. Hears
        BY <3>2, <4>1, <4>2 DEF Hears
      <4>. QED
        BY <3>0, <4>3
    <3>3. CASE UNCHANGED <<view, wire>>
      BY <3>3 DEF ViewKept
    <3>. QED
      BY <2>1, <3>1, <3>2, <3>3 DEF FinishControl
  <2>2. CASE ~FinishControl(c)
    BY <1>2, <2>2 DEF CmdNext, sendIntent, RejectControl, AcceptControl, EvalControl,
       LoseReply, ViewKept, clientVars
  <2>. QED
    BY <2>1, <2>2
<1>3. ASSUME NEW i \in Instances, InstanceNext(i) PROVE G
  <2>1. CASE WireDeliver(i)
    <3>1. PICK t \in wire[i] :
            /\ onTimeline(Local(i), t)
            /\ wire' = [wire EXCEPT ![i] = @ \ {t}]
      BY <2>1 DEF WireDeliver
    <3>2. t \in committed /\ StoreKept
      BY <2>1 DEF WireDeliver, HeldInv, StoreKept, storeVars
    <3>3. Hears
      BY <3>1, <3>2, LocalClients DEF Hears, TypeOK
    <3>. QED
      BY <3>2, <3>3
  <2>2. CASE SweepEmit(i)
    <3>0. StoreKept
      BY <2>2 DEF SweepEmit, StoreKept, storeVars
    <3>1. CASE sweeper[i].pc = "won" /\ Broadcast(i, sweeper[i].tl)
      <4>1. sweeper[i].tl \in committed
        BY <3>1 DEF HeldInv
      <4>. QED
        BY <3>0, <3>1, <4>1, BroadcastIsHeard
    <3>2. CASE /\ sweeper[i].pc = "lost" /\ UNCHANGED wire
               /\ onTimeline(Local(i), IF tl = NoTimeline THEN sweeper[i].tl ELSE tl)
      <4>1. (IF tl = NoTimeline THEN sweeper[i].tl ELSE tl) \in committed
        BY <3>2 DEF HeldInv
      <4>2. Hears
        BY <3>2, <4>1, LocalClients DEF Hears
      <4>. QED
        BY <3>0, <4>2
    <3>. QED
      BY <2>2, <3>1, <3>2 DEF SweepEmit
  <2>3. CASE ~WireDeliver(i) /\ ~SweepEmit(i)
    BY <1>3, <2>3 DEF InstanceNext, SweepGet, SweepApply, SweepFails, Crash, ViewKept,
       clientVars, TypeOK
  <2>. QED
    BY <2>1, <2>2, <2>3
<1>4. ASSUME NewWindow PROVE G
  BY <1>4 DEF NewWindow, ViewKept, clientVars
<1>5. ASSUME Vanish PROVE G
  BY <1>5 DEF Vanish, ViewKept, clientVars
<1>. HIDE DEF G
<1>6. G
  BY <1>1, <1>2, <1>3, <1>4, <1>5, NextCases
<1>. QED
  BY <1>6 DEF G

-----------------------------------------------------------------------------
(* Whatever is held was committed.                                          *)

LEMMA StoreHeld ==
    ASSUME TypeOK, HeldInv, NewestInv, Next
    PROVE  committed \subseteq committed' /\ tl' \in committed' \cup {NoTimeline}
<1>. QED
  BY StoreStep DEF StoreKept, Gone, CommittedBySelf, CommittedBy, HeldInv

LEMMA JoinHeld ==
    ASSUME TypeOK, HeldInv, NewestInv, Next,
           NEW k \in Clients, member'[k] = "hydrated"
    PROVE  joinTl'[k] \in committed'
<1>. DEFINE G == joinTl'[k] \in committed'
<1>0. committed \subseteq committed' /\ tl' \in committed' \cup {NoTimeline}
  BY StoreHeld
<1>k. ASSUME member'[k] = member[k], joinTl'[k] = joinTl[k] PROVE G
  BY <1>0, <1>k DEF HeldInv
<1>1. ASSUME NEW cl \in Clients, ClientNext(cl) PROVE G
  <2>1. CASE EnsureRoom(cl)
    <3>1. tl' # NoTimeline
      BY <2>1, BirthType, VersionFields DEF EnsureRoom, storeVars
    <3>2. CASE k = cl
      BY <1>0, <2>1, <3>1, <3>2 DEF EnsureRoom, TypeOK
    <3>3. CASE k # cl
      BY <1>k, <2>1, <3>3 DEF EnsureRoom, TypeOK
    <3>. QED
      BY <3>2, <3>3
  <2>2. CASE Disconnect(cl)
    BY <1>k, <2>2 DEF Disconnect, Hangup
  <2>3. CASE JoinRoom(cl)
    BY <1>k, <2>3 DEF JoinRoom, TypeOK
  <2>4. CASE JoinFails(cl)
    BY <1>k, <2>4 DEF JoinFails, TypeOK
  <2>5. CASE RoomJoined(cl)
    BY <1>k, <2>5 DEF RoomJoined, TypeOK
  <2>6. CASE Connect(cl) \/ Reload(cl)
    BY <1>k, <2>6 DEF Connect, Reload
  <2>. QED
    BY <1>1, <2>1, <2>2, <2>3, <2>4, <2>5, <2>6 DEF ClientNext
<1>2. ASSUME NEW c \in Cmds, CmdNext(c) PROVE G
  BY <1>2, <1>k DEF CmdNext, sendIntent, RejectControl, AcceptControl, EvalControl,
     LoseReply, FinishControl, clientVars
<1>3. ASSUME NEW i \in Instances, InstanceNext(i) PROVE G
  <2>1. CASE Crash(i)
    BY <1>k, <2>1 DEF Crash, Hangup
  <2>2. CASE ~Crash(i)
    BY <1>3, <1>k, <2>2 DEF InstanceNext, WireDeliver, SweepGet, SweepApply, SweepEmit,
       SweepFails, clientVars
  <2>. QED
    BY <2>1, <2>2
<1>4. ASSUME NewWindow PROVE G
  BY <1>4, <1>k DEF NewWindow, clientVars
<1>5. ASSUME Vanish PROVE G
  BY <1>5, <1>k DEF Vanish, clientVars
<1>. HIDE DEF G
<1>6. G
  BY <1>1, <1>2, <1>3, <1>4, <1>5, NextCases
<1>. QED
  BY <1>6 DEF G

(* How the handler of one command may move.                                 *)
HandlerMove(c) ==
    LET h == cmd[c]  k == cmd'[c] IN
    \/ k = h
    \/ k = [h EXCEPT !.live = FALSE]
    \/ /\ k.st = "done" /\ k.shown = h.shown /\ h.st # "idle"
       /\ k.res = "fenced" => h.res = "fenced"
    \/ /\ h.st = "idle" /\ k.st = "sent" /\ k.res = "none"
       /\ CmdOf[c].intent = "set-video" \/ k.fence = k.shown
    \/ h.st = "sent" /\ k = [h EXCEPT !.st = "eval"]
    \/ h.st = "eval" /\ k = [h EXCEPT !.st = "replied", !.res = Outcome(c), !.tl = tl']
    \/ /\ h.st = "replied" /\ k.st = "eval" /\ k.res = "none"
       /\ k.fence = h.fence /\ k.shown = h.shown

LEMMA HandlerStep ==
    ASSUME TypeOK, HandlerInv, Next, NEW d \in Cmds
    PROVE  HandlerMove(d)
<1>. DEFINE G == HandlerMove(d)
<1>0. cmd[d] \in Handler
  BY DEF TypeOK
<1>k. ASSUME cmd'[d] = cmd[d] PROVE G
  BY <1>k DEF HandlerMove
<1>1. ASSUME NEW cl \in Clients, ClientNext(cl) PROVE G
  <2>1. CASE Disconnect(cl)
    <3>1. CASE CmdOf[d].client = cl
      <4>1. cmd'[d] = Orphan(cmd[d])
        BY <2>1, <3>1 DEF Disconnect
      <4>2. "dropped" \in Results
        BY DEF Results
      <4>. QED
        BY <1>0, <4>1, <4>2, OverType DEF Orphan, HandlerMove
    <3>2. CASE CmdOf[d].client # cl
      BY <1>k, <2>1, <3>2 DEF Disconnect
    <3>. QED
      BY <3>1, <3>2
  <2>2. CASE ~Disconnect(cl)
    BY <1>1, <1>k, <2>2 DEF ClientNext, Connect, Reload, JoinRoom, EnsureRoom, JoinFails,
       RoomJoined
  <2>. QED
    BY <2>1, <2>2
<1>2. ASSUME NEW c \in Cmds, CmdNext(c) PROVE G
  <2>0. ASSUME c # d PROVE cmd'[d] = cmd[d]
    BY <1>2, <2>0 DEF CmdNext, sendIntent, RejectControl, AcceptControl, EvalControl,
       LoseReply, FinishControl, TypeOK
  <2>1. CASE c = d /\ sendIntent(d)
    <3>. DEFINE cl == CmdOf[d].client
                s == IF view[cl] = NoTimeline THEN Unfenced ELSE view[cl].videoId
                f == fence(cl, CmdOf[d].intent)
    <3>1. CmdOf[d].intent = "set-video" \/ f = s
      BY DEF fence
    <3>. DEFINE a == at[cl]
    <3>2. cmd'[d] = [Idle EXCEPT !.st = "sent", !.inst = a, !.live = TRUE,
                                 !.shown = s, !.fence = f] /\ cmd[d].st = "idle"
      BY <2>1 DEF sendIntent, TypeOK
    <3>. HIDE DEF a, f, s
    <3>3. cmd'[d].st = "sent" /\ cmd'[d].res = "none" /\ cmd'[d].fence = f /\ cmd'[d].shown = s
      BY <3>2 DEF Idle
    <3>. QED
      BY <3>1, <3>2, <3>3 DEF HandlerMove
  <2>2. CASE c = d /\ RejectControl(d)
    <3>1. "rejected" \in Results
      BY DEF Results
    <3>. QED
      BY <1>0, <2>2, <3>1, OverType DEF RejectControl, TypeOK, HandlerMove
  <2>3. CASE c = d /\ AcceptControl(d)
    BY <2>3 DEF AcceptControl, TypeOK, HandlerMove
  <2>4. CASE c = d /\ EvalControl(d)
    BY <2>4 DEF EvalControl, TypeOK, HandlerMove
  <2>5. CASE c = d /\ LoseReply(d)
    <3>1. "error" \in Results
      BY DEF Results
    <3>2. CASE cmd[d].tries < MaxRetries
      BY <1>0, <2>5, <3>2, ResentType DEF LoseReply, TypeOK, HandlerMove
    <3>3. CASE ~(cmd[d].tries < MaxRetries)
      BY <1>0, <2>5, <3>1, <3>3, OverType DEF LoseReply, TypeOK, HandlerMove
    <3>. QED
      BY <3>2, <3>3
  <2>6. CASE c = d /\ FinishControl(d)
    <3>1. cmd[d].res \in Results
      BY <1>0 DEF Handler
    <3>2. cmd'[d] = Over(cmd[d], cmd[d].res) /\ cmd[d].st = "replied"
      BY <2>6 DEF FinishControl, TypeOK
    <3>. QED
      BY <1>0, <3>1, <3>2, OverType DEF HandlerMove
  <2>. QED
    BY <1>2, <1>k, <2>0, <2>1, <2>2, <2>3, <2>4, <2>5, <2>6 DEF CmdNext
<1>3. ASSUME NEW i \in Instances, InstanceNext(i) PROVE G
  <2>1. CASE Crash(i)
    <3>1. CASE cmd[d].inst = i
      <4>1. cmd'[d] = Over(cmd[d], "dropped") /\ "dropped" \in Results
        BY <2>1, <3>1 DEF Crash, Results
      <4>2. cmd[d].st # "idle"
        BY <3>1, NowhereAssumption DEF HandlerInv
      <4>. QED
        BY <1>0, <4>1, <4>2, OverType DEF HandlerMove
    <3>2. CASE cmd[d].inst # i
      BY <1>k, <2>1, <3>2 DEF Crash
    <3>. QED
      BY <3>1, <3>2
  <2>2. CASE ~Crash(i)
    BY <1>3, <1>k, <2>2 DEF InstanceNext, WireDeliver, SweepGet, SweepApply, SweepEmit,
       SweepFails
  <2>. QED
    BY <2>1, <2>2
<1>4. ASSUME NewWindow PROVE G
  BY <1>4, <1>k DEF NewWindow
<1>5. ASSUME Vanish PROVE G
  BY <1>5, <1>k DEF Vanish
<1>. HIDE DEF G
<1>6. G
  BY <1>1, <1>2, <1>3, <1>4, <1>5, NextCases
<1>. QED
  BY <1>6 DEF G

LEMMA HeldStep ==
    ASSUME TypeOK, HeldInv, NewestInv, HandlerInv, Next
    PROVE  HeldInv'
<1>0. committed \subseteq committed' /\ tl' \in committed' \cup {NoTimeline}
  BY StoreHeld
<1>1. ASSUME NEW k \in Clients PROVE view'[k] \in committed' \cup {NoTimeline}
  <2>1. view[k] \in committed \cup {NoTimeline}
    BY DEF HeldInv
  <2>2. view' = view \/ Hears \/ \E cl \in Clients : Reload(cl)
    BY ViewStep DEF ViewKept
  <2>3. CASE Hears
    BY <1>0, <2>1, <2>3 DEF Hears, onTimeline
  <2>4. CASE \E cl \in Clients : Reload(cl)
    BY <1>0, <2>1, <2>4 DEF Reload, TypeOK
  <2>. QED
    BY <1>0, <2>1, <2>2, <2>3, <2>4
<1>2. ASSUME NEW i \in Instances PROVE wire'[i] \subseteq committed'
  <2>1. wire[i] \subseteq committed
    BY DEF HeldInv
  <2>2. ViewKept \/ Hears \/ \E cl \in Clients : Reload(cl)
    BY ViewStep
  <2>3. (\E cl \in Clients : Reload(cl)) => wire' = wire
    BY DEF Reload
  <2>. QED
    BY <1>0, <2>1, <2>2, <2>3 DEF ViewKept, Hears
<1>3. ASSUME NEW c \in Cmds, cmd'[c].st = "replied",
             cmd'[c].res \in {"committed", "dup", "fenced"}
      PROVE  cmd'[c].tl \in committed'
  <2>0. cmd[c] \in Handler
    BY DEF TypeOK
  <2>1. CASE cmd'[c] = cmd[c] \/ cmd'[c] = [cmd[c] EXCEPT !.live = FALSE]
    <3>1. cmd'[c].st = cmd[c].st /\ cmd'[c].res = cmd[c].res /\ cmd'[c].tl = cmd[c].tl
      BY <2>0, <2>1 DEF Handler
    <3>. QED
      BY <1>0, <1>3, <3>1 DEF HeldInv
  <2>2. CASE cmd'[c] = [cmd[c] EXCEPT !.st = "replied", !.res = Outcome(c), !.tl = tl']
             /\ cmd[c].st = "eval"
    <3>1. Outcome(c) = cmd'[c].res /\ cmd'[c].tl = tl'
      BY <2>0, <2>2 DEF Handler
    <3>2. tl # NoTimeline
      BY <1>3, <3>1 DEF Outcome
    <3>3. tl' # NoTimeline
      <4>1. CASE StoreKept \/ CommittedBySelf \/ \E d \in Cmds : CommittedBy(d)
        BY <3>2, <4>1, VersionFields DEF StoreKept, CommittedBySelf, CommittedBy
      <4>2. CASE UNCHANGED cmd
        BY <1>3, <2>2, <4>2
      <4>. QED
        BY <4>1, <4>2, StoreStep
    <3>. QED
      BY <1>0, <3>1, <3>3
  <2>3. CASE cmd'[c].st # "replied" \/ (cmd'[c] = [cmd[c] EXCEPT !.st = "eval"])
    BY <1>3, <2>0, <2>3 DEF Handler
  <2>. QED
    BY <1>3, <2>1, <2>2, <2>3, HandlerStep DEF HandlerMove
<1>4. ASSUME NEW i \in Instances, sweeper'[i].pc # "idle"
      PROVE  sweeper'[i].tl \in committed'
  <2>. DEFINE G == sweeper'[i].tl \in committed'
  <2>k. ASSUME sweeper'[i] = sweeper[i] PROVE G
    BY <1>0, <1>4, <2>k DEF HeldInv
  <2>1. ASSUME NEW cl \in Clients, ClientNext(cl) PROVE G
    BY <2>1, <2>k DEF ClientNext, Connect, Disconnect, Reload, JoinRoom, EnsureRoom,
       JoinFails, RoomJoined
  <2>2. ASSUME NEW c \in Cmds, CmdNext(c) PROVE G
    BY <2>2, <2>k DEF CmdNext, sendIntent, RejectControl, AcceptControl, EvalControl,
       LoseReply, FinishControl
  <2>3. ASSUME NEW j \in Instances, InstanceNext(j) PROVE G
    <3>0. sweeper \in [Instances -> Sweeper]
      BY DEF TypeOK
    <3>1. CASE SweepGet(j)
      BY <1>0, <2>k, <3>0, <3>1 DEF SweepGet, HeldInv, storeVars
    <3>2. CASE SweepApply(j)
      <4>1. CASE tl # NoTimeline /\ tl.isPlaying /\ ~swept
        <5>1. /\ committed' = committed \cup {tl'}
              /\ sweeper' = [sweeper EXCEPT ![j] = [pc |-> "won", tl |-> tl']]
          BY <3>2, <4>1 DEF SweepApply
        <5>. QED
          BY <2>k, <3>0, <5>1
      <4>2. CASE ~(tl # NoTimeline /\ tl.isPlaying /\ ~swept)
        <5>. DEFINE s == IF tl # NoTimeline /\ ~tl.isPlaying THEN [pc |-> "won", tl |-> tl]
                        ELSE [pc |-> "lost", tl |-> sweeper[j].tl]
        <5>1. sweeper' = [sweeper EXCEPT ![j] = s] /\ sweeper[j].pc = "got"
          BY <3>2, <4>2 DEF SweepApply
        <5>2. sweeper[j].tl \in committed
          BY <5>1 DEF HeldInv
        <5>3. s.tl \in committed
          BY <5>2 DEF HeldInv
        <5>. HIDE DEF s
        <5>. QED
          BY <1>0, <2>k, <3>0, <5>1, <5>3
      <4>. QED
        BY <4>1, <4>2
    <3>3. CASE SweepEmit(j) \/ SweepFails(j) \/ Crash(j)
      BY <1>4, <2>k, <3>0, <3>3 DEF SweepEmit, SweepFails, Crash, Resting
    <3>4. CASE WireDeliver(j)
      BY <2>k, <3>4 DEF WireDeliver
    <3>. QED
      BY <2>3, <3>1, <3>2, <3>3, <3>4 DEF InstanceNext
  <2>4. ASSUME NewWindow PROVE G
    BY <2>4, <2>k DEF NewWindow
  <2>5. ASSUME Vanish PROVE G
    BY <2>5, <2>k DEF Vanish
  <2>. HIDE DEF G
  <2>6. G
    BY <2>1, <2>2, <2>3, <2>4, <2>5, NextCases
  <2>. QED
    BY <2>6 DEF G
<1>5. \A k \in Clients : member'[k] = "hydrated" => joinTl'[k] \in committed'
  BY JoinHeld
<1>. QED
  BY <1>0, <1>1, <1>2, <1>3, <1>4, <1>5 DEF HeldInv

-----------------------------------------------------------------------------
(* Order, agreement, records and gestures.                                  *)

LEMMA OrderStep ==
    ASSUME TypeOK, HeldInv, NewestInv, Agreement, Next
    PROVE  NewestInv' /\ Agreement'
<1>0. ASSUME NEW t \in committed
      PROVE  t \in Version /\ t.seq \in Nat /\ t.storeEpoch \in Nat /\ t # NoTimeline
  BY VersionFields DEF TypeOK
<1>1. CASE StoreKept \/ Gone
  BY <1>1 DEF StoreKept, Gone, NewestInv, Agreement, isNewer
<1>2. ASSUME tl' \in Version, committed' = committed \cup {tl'},
             tl'.storeEpoch = epochs', epochs \in Nat, epochs' \in {epochs, epochs + 1},
             \A old \in committed : isNewer(tl', old)
      PROVE  NewestInv' /\ Agreement'
  <2>0. tl' # NoTimeline /\ tl'.seq \in Nat /\ tl'.storeEpoch \in Nat
    BY <1>2, VersionFields
  <2>1. \A t \in committed' : t.storeEpoch <= epochs'
    BY <1>0, <1>2 DEF NewestInv
  <2>2. \A t \in committed' : t = tl' \/ isNewer(tl', t)
    BY <1>2
  <2>3. NewestInv'
    BY <1>2, <2>1, <2>2 DEF NewestInv, isNewer
  <2>4. ASSUME NEW old \in committed,
               old.storeEpoch = tl'.storeEpoch /\ old.seq = tl'.seq
        PROVE  FALSE
    <3>1. isNewer(tl', old)
      BY <1>2
    <3>. QED
      BY <1>0, <2>0, <2>4, <3>1 DEF isNewer
  <2>5. Agreement'
    BY <1>2, <2>4 DEF Agreement
  <2>. QED
    BY <2>3, <2>5
<1>. QED
  BY <1>1, <1>2, StoreStep DEF CommittedBySelf, CommittedBy

LEMMA HandlerInvStep ==
    ASSUME TypeOK, HeldInv, NewestInv, HandlerInv, Next
    PROVE  HandlerInv'
<1> SUFFICES ASSUME NEW c \in Cmds
             PROVE  (/\ cmd[c].st = "idle" => cmd[c].inst = Nowhere
                     /\ cmd[c].st \in {"idle", "sent", "eval"} => cmd[c].res = "none"
                     /\ cmd[c].st \in {"sent", "eval", "replied"} =>
                           CmdOf[c].intent = "set-video" \/ cmd[c].fence = cmd[c].shown
                     /\ cmd[c].st \in {"idle", "sent"} => c \notin recorded)'
  BY DEF HandlerInv
<1>0. cmd[c] \in Handler
  BY DEF TypeOK
<1>1. /\ cmd[c].st = "idle" => cmd[c].inst = Nowhere
      /\ cmd[c].st \in {"idle", "sent", "eval"} => cmd[c].res = "none"
      /\ cmd[c].st \in {"sent", "eval", "replied"} =>
            CmdOf[c].intent = "set-video" \/ cmd[c].fence = cmd[c].shown
      /\ cmd[c].st \in {"idle", "sent"} => c \notin recorded
  BY DEF HandlerInv
<1>2. HandlerMove(c)
  BY HandlerStep
<1>3. c \in recorded' => c \in recorded \/ (cmd[c].st = "eval" /\ cmd'[c].st = "replied")
  <2>1. CASE recorded' = recorded
    BY <2>1
  <2>2. ASSUME NEW d \in Cmds, CommittedBy(d)
        PROVE  c \in recorded' => c \in recorded \/ (cmd[c].st = "eval" /\ cmd'[c].st = "replied")
    BY <1>0, <2>2 DEF CommittedBy, Handler, TypeOK
  <2>. QED
    BY <2>1, <2>2, StoreStep DEF StoreKept, Gone, CommittedBySelf
<1>4. CASE cmd'[c] = cmd[c] \/ cmd'[c] = [cmd[c] EXCEPT !.live = FALSE]
  <2>1. /\ cmd'[c].st = cmd[c].st /\ cmd'[c].inst = cmd[c].inst /\ cmd'[c].res = cmd[c].res
        /\ cmd'[c].fence = cmd[c].fence /\ cmd'[c].shown = cmd[c].shown
    BY <1>0, <1>4 DEF Handler
  <2>. QED
    BY <1>1, <1>3, <2>1
<1>5. CASE cmd[c].st = "sent" /\ cmd'[c] = [cmd[c] EXCEPT !.st = "eval"]
  BY <1>0, <1>1, <1>5 DEF Handler
<1>6. CASE cmd[c].st = "eval"
           /\ cmd'[c] = [cmd[c] EXCEPT !.st = "replied", !.res = Outcome(c), !.tl = tl']
  BY <1>0, <1>1, <1>6 DEF Handler
<1>7. CASE cmd'[c].st = "done"
  BY <1>7
<1>8. CASE /\ cmd[c].st = "idle" /\ cmd'[c].st = "sent" /\ cmd'[c].res = "none"
           /\ CmdOf[c].intent = "set-video" \/ cmd'[c].fence = cmd'[c].shown
  BY <1>1, <1>3, <1>8
<1>9. CASE /\ cmd[c].st = "replied" /\ cmd'[c].st = "eval" /\ cmd'[c].res = "none"
           /\ cmd'[c].fence = cmd[c].fence /\ cmd'[c].shown = cmd[c].shown
  BY <1>1, <1>9
<1>. QED
  BY <1>2, <1>4, <1>5, <1>6, <1>7, <1>8, <1>9 DEF HandlerMove

LEMMA OriginStep ==
    ASSUME TypeOK, HeldInv, NewestInv, OriginInv, Next
    PROVE  OriginInv'
<1>1. CASE StoreKept \/ Gone
  BY <1>1 DEF StoreKept, Gone, OriginInv
<1>2. CASE CommittedBySelf
  BY <1>2, OriginAssumption DEF CommittedBySelf, OriginInv
<1>3. ASSUME NEW c \in Cmds, CommittedBy(c) PROVE OriginInv'
  <2>1. tl \in Version
    BY <1>3 DEF CommittedBy, TypeOK, MaybeVersion
  <2>2. tl'.origin = c
    BY <1>3, <2>1, ControlledType DEF CommittedBy
  <2>. QED
    BY <1>3, <2>2 DEF CommittedBy, OriginInv
<1>. QED
  BY <1>1, <1>2, <1>3, StoreStep

LEMMA FencedStep ==
    ASSUME TypeOK, HeldInv, NewestInv, HandlerInv, OriginInv, FencedNeverApplied, Next
    PROVE  FencedNeverApplied'
<1> SUFFICES ASSUME NEW c \in Cmds, cmd'[c].res = "fenced",
                    NEW t \in committed', t.origin = c
             PROVE  FALSE
  BY DEF FencedNeverApplied
<1>0. cmd[c] \in Handler
  BY DEF TypeOK
<1>1. t \in committed
  <2>1. CASE CommittedBySelf
    BY <2>1, OriginAssumption DEF CommittedBySelf
  <2>2. ASSUME NEW d \in Cmds, CommittedBy(d) PROVE t \in committed
    <3>1. tl \in Version
      BY <2>2 DEF CommittedBy, TypeOK, MaybeVersion
    <3>2. tl'.origin = d
      BY <2>2, <3>1, ControlledType DEF CommittedBy
    <3>3. cmd[d] \in Handler /\ cmd'[d].res = "committed"
      BY <2>2 DEF CommittedBy, TypeOK, Handler
    <3>. QED
      BY <2>2, <3>2, <3>3 DEF CommittedBy
  <2>. QED
    BY <2>1, <2>2, StoreStep DEF StoreKept, Gone
<1>2. cmd[c].res # "fenced"
  BY <1>1 DEF FencedNeverApplied
<1>3. /\ cmd[c].st = "eval" /\ Outcome(c) = "fenced"
  <2>1. HandlerMove(c)
    BY HandlerStep
  <2>. QED
    BY <1>0, <1>2, <2>1 DEF HandlerMove, Handler
<1>4. c \notin recorded
  BY <1>3 DEF Outcome
<1>. QED
  BY <1>1, <1>4 DEF OriginInv

(* What was shown when a command was sent is never rewritten after.         *)
LEMMA MovedStep ==
    ASSUME TypeOK, HeldInv, NewestInv, HandlerInv, OriginInv, MovedWhatWasShown, Next
    PROVE  MovedWhatWasShown'
<1> SUFFICES ASSUME NEW t \in committed', t.origin \in Cmds,
                    CmdOf[t.origin].intent # "set-video", cmd'[t.origin].shown # Unfenced
             PROVE  t.videoId = cmd'[t.origin].shown
  BY DEF MovedWhatWasShown
<1>. DEFINE c == t.origin
<1>0. cmd[c] \in Handler
  BY DEF TypeOK
<1>1. CASE t \in committed
  <2>1. c \in recorded
    BY <1>1 DEF OriginInv
  <2>2. cmd[c].st # "idle"
    BY <2>1 DEF HandlerInv
  <2>3. HandlerMove(c)
    BY HandlerStep
  <2>4. cmd'[c].shown = cmd[c].shown
    BY <1>0, <2>2, <2>3 DEF HandlerMove, Handler
  <2>. QED
    BY <1>1, <2>4 DEF MovedWhatWasShown
<1>2. CASE t \notin committed
  <2>1. PICK d \in Cmds : CommittedBy(d) /\ t = tl'
    BY <1>2, StoreStep, OriginAssumption DEF StoreKept, Gone, CommittedBySelf, CommittedBy
  <2>2. tl \in Version
    BY <2>1 DEF CommittedBy, TypeOK, MaybeVersion
  <2>3. d = c /\ t.videoId = tl.videoId
    BY <2>1, <2>2, ControlledType DEF CommittedBy
  <2>4. cmd'[c].shown = cmd[c].shown
    BY <1>0, <2>1, <2>3 DEF CommittedBy, TypeOK, Handler
  <2>5. cmd[c].fence = cmd[c].shown
    BY <2>1, <2>3 DEF CommittedBy, HandlerInv
  <2>6. ~StaleVideo(c)
    BY <2>1, <2>3 DEF CommittedBy, Outcome
  <2>. QED
    BY <2>3, <2>4, <2>5, <2>6 DEF StaleVideo
<1>. QED
  BY <1>1, <1>2

-----------------------------------------------------------------------------
(* The theorems.                                                            *)

LEMMA InitInvariant == ASSUME Init PROVE IInv
<1>1. TypeOK
  BY InitType
<1>2. HeldInv
  BY DEF Init, HeldInv, Idle, Resting
<1>3. NewestInv /\ Agreement
  BY DEF Init, NewestInv, Agreement
<1>4. HandlerInv
  BY DEF Init, HandlerInv, Idle
<1>5. OriginInv /\ FencedNeverApplied /\ MovedWhatWasShown
  BY DEF Init, OriginInv, FencedNeverApplied, MovedWhatWasShown
<1>. QED
  BY <1>1, <1>2, <1>3, <1>4, <1>5 DEF IInv

LEMMA StutterInvariant == ASSUME IInv, UNCHANGED vars PROVE IInv'
<1>1. TypeOK'
  BY DEF IInv, vars, TypeOK
<1>2. HeldInv' /\ NewestInv' /\ Agreement'
  BY DEF IInv, vars, HeldInv, NewestInv, Agreement, isNewer
<1>3. HandlerInv' /\ OriginInv'
  BY DEF IInv, vars, HandlerInv, OriginInv
<1>4. FencedNeverApplied' /\ MovedWhatWasShown'
  BY DEF IInv, vars, FencedNeverApplied, MovedWhatWasShown
<1>. QED
  BY <1>1, <1>2, <1>3, <1>4 DEF IInv

LEMMA StepInvariant == ASSUME IInv, Next PROVE IInv'
<1>. USE DEF IInv
<1>. QED
  BY TypeStep, HeldStep, OrderStep, HandlerInvStep, OriginStep, FencedStep, MovedStep

(* IInv holds for ever: whatever a client, a handler, a sweep or a message  *)
(* holds was committed, and the timeline in Redis outranks all before it.   *)
THEOREM Invariance == Spec => []IInv
<1>1. Init => IInv
  BY InitInvariant
<1>2. IInv /\ [Next]_vars => IInv'
  BY StutterInvariant, StepInvariant
<1>. QED
  BY <1>1, <1>2, PTL DEF Spec

(* Plane A is sound for its room, whatever the numbers of clients,          *)
(* instances, commands and mishaps: a version names one timeline, a refused *)
(* command has not moved the room, and a gesture moves only the video its   *)
(* sender was shown (apply_control.lua's dedup, fence and seq, ensureRoom,  *)
(* apply_snapshot.lua).                                                     *)
THEOREM RoomSafety == Spec => []RoomSound
<1>1. IInv => RoomSound
  BY DEF IInv, RoomSound
<1>. QED
  BY <1>1, Invariance, PTL

(* Initial states map to the room before its first timeline.                *)
LEMMA InitRefines == ASSUME Init PROVE Abstract!RoomInit
<1>. QED
  BY DEF Init, Abstract!RoomInit

(* A commit of the store is one of the room.                                *)
LEMMA CommitRefines ==
    ASSUME tl' \in Version, committed' = committed \cup {tl'}, UNCHANGED view,
           \A old \in committed : isNewer(tl', old)
    PROVE  [Abstract!RoomNext]_(Abstract!roomVars)
<1>1. CASE tl' \in committed
  BY <1>1 DEF Abstract!roomVars
<1>2. CASE tl' \notin committed
  <2>1. tl' \in committed' \ committed
    BY <1>2
  <2>2. \A old \in committed : Abstract!isNewer(tl', old)
    BY DEF isNewer, Abstract!isNewer
  <2>. QED
    BY <2>1, <2>2 DEF Abstract!RoomNext, Abstract!Commit
<1>. QED
  BY <1>1, <1>2

(* A message that is heard, by some and by others not, advances the views   *)
(* of those for whom it is news.                                            *)
LEMMA HearingRefines ==
    ASSUME TypeOK, Hears, StoreKept
    PROVE  Abstract!Advance
<1>1. PICK S \in SUBSET Clients, t \in committed : onTimeline(S, t)
  BY DEF Hears
<1>2. committed' = committed
  BY DEF StoreKept
<1>3. DOMAIN view' = Clients
  BY <1>1 DEF onTimeline
<1>4. ASSUME NEW cl \in Clients, view'[cl] # view[cl]
      PROVE  view'[cl] \in committed /\ Abstract!isNewer(view'[cl], view[cl])
  <2>1. view'[cl] = t /\ isNewer(t, view[cl])
    BY <1>1, <1>4 DEF onTimeline
  <2>. QED
    BY <2>1 DEF isNewer, Abstract!isNewer
<1>. QED
  BY <1>2, <1>3, <1>4 DEF Abstract!Advance

LEMMA StepRefines ==
    ASSUME IInv, Next
    PROVE  [Abstract!RoomNext]_(Abstract!roomVars)
<1>. USE DEF IInv
<1>1. CASE CommittedBySelf \/ \E c \in Cmds : CommittedBy(c)
  BY <1>1, CommitRefines DEF CommittedBySelf, CommittedBy
<1>2. CASE StoreKept \/ (Gone /\ UNCHANGED view)
  <2>1. committed' = committed
    BY <1>2 DEF StoreKept, Gone
  <2>2. CASE UNCHANGED view
    BY <2>1, <2>2 DEF Abstract!roomVars
  <2>3. CASE StoreKept /\ Hears
    BY <2>3, HearingRefines DEF Abstract!RoomNext
  <2>4. CASE \E cl \in Clients : Reload(cl)
    BY <2>1, <2>4 DEF Reload, Abstract!RoomNext, Abstract!Restart
  <2>. QED
    BY <2>2, <2>3, <2>4, ViewStep DEF ViewKept
<1>. QED
  BY <1>1, <1>2, StoreStep

(* Plane A implements the abstract room: whatever is lost, repeated, swept  *)
(* or crashed, the clients' views only ever move forward in one linear      *)
(* history of committed timelines (SyncGateway, RedisRoomStore, isNewer).   *)
THEOREM Refinement == Spec => ImplementsRoomView
<1>1. Init => Abstract!RoomInit
  BY InitRefines
<1>2. IInv /\ [Next]_vars => [Abstract!RoomNext]_(Abstract!roomVars)
  <2>1. ASSUME UNCHANGED vars PROVE UNCHANGED Abstract!roomVars
    BY <2>1 DEF vars, Abstract!roomVars
  <2>. QED
    BY <2>1, StepRefines
<1>. QED
  BY <1>1, <1>2, Invariance, PTL DEF Spec, ImplementsRoomView, Abstract!RoomSpec

=============================================================================
