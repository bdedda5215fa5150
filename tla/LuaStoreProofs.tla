-------------------------- MODULE LuaStoreProofs --------------------------
(***************************************************************************)
(* Proofs about LuaStore for every value of its constants: the type        *)
(* invariant, at-most-once execution, truthful `dup' answers, the replay   *)
(* contract of the log and its agreement with the live timeline, the video *)
(* fence, and that versions only ever advance; about MemoryStore, that     *)
(* it agrees with the scripts, and about ReplayCheck, that it raises no    *)
(* false alarm.                                                            *)
(***************************************************************************)
EXTENDS ReplayCheck, TLAPS

-----------------------------------------------------------------------------
(* Lemmas about the operators.                                              *)

(* What log trimming leaves is a non-empty suffix.                          *)
LEMMA RetainedSuffix ==
    ASSUME NEW S, NEW s \in Seq(S), Len(s) > 0, NEW t \in Retained(s)
    PROVE  /\ t \in Seq(S)
           /\ Len(t) \in 1..Len(s)
           /\ \A i \in 1..Len(t) : t[i] = s[Len(s) - Len(t) + i]
<1>1. PICK k \in {1} \cup 2..(Len(s) - LogMax + 1) : t = SubSeq(s, k, Len(s))
  BY DEF Retained
<1>2. k \in 1..Len(s)
  BY <1>1, LogMaxAssumption
<1>3. /\ t \in Seq(S)
      /\ Len(t) = Len(s) - k + 1
      /\ \A i \in 1..Len(t) : t[i] = s[k + i - 1]
  BY <1>1, <1>2
<1> QED
  BY <1>2, <1>3

(* r ends in e, and its other entries are those of s shifted by the number  *)
(* trimmed.                                                                 *)
Extends(r, s, e) ==
    /\ Len(r) > 0
    /\ r[Len(r)] = e
    /\ \E d \in Nat :
          /\ Len(r) + d = Len(s) + 1
          /\ \A i \in 1..Len(r)-1 : r[i] = s[i+d]

(* What appending then trimming leaves.                                     *)
LEMMA RetainedAppend ==
    ASSUME NEW S, NEW s \in Seq(S), NEW e \in S, NEW r \in Retained(Append(s, e))
    PROVE  r \in Seq(S) /\ Extends(r, s, e)
<1> DEFINE a == Append(s, e)
<1>1. /\ a \in Seq(S)
      /\ Len(a) = Len(s) + 1
      /\ a[Len(s) + 1] = e
      /\ \A j \in 1..Len(s) : a[j] = s[j]
      /\ Len(s) \in Nat
  OBVIOUS
<1>2. r \in Retained(a)
  OBVIOUS
<1> HIDE DEF a
<1>3. /\ r \in Seq(S)
      /\ Len(r) \in 1..Len(a)
      /\ \A i \in 1..Len(r) : r[i] = a[Len(a) - Len(r) + i]
  <2>1. Len(a) > 0
    BY <1>1
  <2> QED
    BY <1>1, <1>2, <2>1, RetainedSuffix
<1>4. Len(r) \in Nat /\ Len(r) > 0 /\ Len(r) <= Len(s) + 1
  BY <1>1, <1>3
<1>5. r[Len(r)] = e
  <2>1. Len(r) \in 1..Len(r) /\ Len(a) - Len(r) + Len(r) = Len(s) + 1
    BY <1>1, <1>4
  <2> QED
    BY <2>1, <1>1, <1>3
<1> DEFINE d == Len(s) + 1 - Len(r)
<1>6. d \in Nat /\ Len(r) + d = Len(s) + 1
  BY <1>1, <1>4
<1>7. ASSUME NEW i \in 1..Len(r)-1
      PROVE  r[i] = s[i+d]
  <2>1. i \in 1..Len(r) /\ i + d \in 1..Len(s) /\ Len(a) - Len(r) + i = i + d
    BY <1>1, <1>4
  <2>2. r[i] = a[i+d]
    BY <2>1, <1>3
  <2> QED
    BY <2>1, <2>2, <1>1
<1> HIDE DEF d
<1> QED
  BY <1>3, <1>4, <1>5, <1>6, <1>7 DEF Extends

(* Division by a positive period is monotone.                               *)
LEMMA DivMonotone ==
    ASSUME NEW P \in Nat \ {0}, NEW a \in Nat, NEW b \in Nat, a <= b
    PROVE  a \div P <= b \div P /\ a \div P \in Nat
<1>1. /\ a \div P \in Int /\ b \div P \in Int
      /\ a % P \in 0..P-1 /\ b % P \in 0..P-1
  OBVIOUS
<1>2. a = P * (a \div P) + (a % P) /\ b = P * (b \div P) + (b % P)
  OBVIOUS
<1>3. ASSUME NEW x \in Int, NEW y \in Int, NEW r \in 0..P-1, NEW q \in 0..P-1,
             P*x + r <= P*y + q, x >= y + 1
      PROVE  FALSE
  <2>1. P*x >= P*(y+1)
    BY <1>3
  <2>2. P*(y+1) = P*y + P
    BY <1>3
  <2> QED
    BY <2>1, <2>2, <1>3
<1> QED
  BY <1>1, <1>2, <1>3

LEMMA DivIsNat ==
    ASSUME NEW P \in Nat \ {0}, NEW a \in Nat
    PROVE  a \div P \in Nat
BY DivMonotone, a <= a

(* The Lua script's restamp and the shared TypeScript reducer are the same  *)
(* function: two implementations of one transition.                         *)
THEOREM RestampAgrees ==
    ASSUME tl \in Timeline, NEW p \in SyncControl
    PROVE  Restamp(p) = [applyControl(tl, p, now) EXCEPT !.seq = tl.seq + 1]
<1>1. p.intent \in Intents
  BY DEF SyncControl
<1> QED
  BY <1>1 DEF Restamp, applyControl, Intents, Timeline

(* ... and so are the script's snapshot and the shared one.                 *)
THEOREM ReanchorAgrees ==
    ASSUME tl \in Timeline, tl.isPlaying
    PROVE  Reanchored = [snapshot(tl, now) EXCEPT !.seq = tl.seq + 1]
BY DEF Reanchored, snapshot, projectMediaTime, Timeline

(* Overwriting a timeline's fields with values of their types leaves a      *)
(* timeline.                                                                *)
LEMMA ExceptIsTimeline ==
    ASSUME NEW t \in Timeline, NEW q \in Nat, NEW n \in Nat, NEW r \in Reasons,
           NEW b \in BOOLEAN, NEW v \in Videos, NEW pos \in Nat
    PROVE  /\ [t EXCEPT !.seq = q, !.stampedAt = n, !.reason = r,
                        !.isPlaying = b, !.videoId = v, !.mediaTime = pos]
                 \in Timeline
           /\ [t EXCEPT !.seq = q, !.mediaTime = pos, !.stampedAt = n,
                        !.reason = r] \in Timeline
BY DEF Timeline

(* A committed control is a timeline of the same epoch that satisfies the   *)
(* replay contract.                                                         *)
LEMMA RestampLegal ==
    ASSUME tl \in Timeline, now \in Nat, tl.stampedAt <= now, NEW p \in SyncControl
    PROVE  /\ Restamp(p) \in Timeline
           /\ Restamp(p).storeEpoch = tl.storeEpoch
           /\ Restamp(p).seq = tl.seq + 1
           /\ Restamp(p).stampedAt = now
           /\ Restamp(p).reason = p.intent
           /\ p.intent # "set-video" => Restamp(p).videoId = tl.videoId
           /\ checkTransition(tl, Restamp(p))
<1>1. p.intent \in Intents /\ p.mediaTime \in Nat /\ p.videoId \in Videos
  BY DEF SyncControl
<1>2. /\ Restamp(p).storeEpoch = tl.storeEpoch
      /\ Restamp(p).seq = tl.seq + 1
      /\ Restamp(p).stampedAt = now
      /\ Restamp(p).reason = p.intent
      /\ p.intent # "set-video" => Restamp(p).videoId = tl.videoId
  BY <1>1 DEF Restamp, Timeline
<1>3. checkTransition(tl, Restamp(p))
  BY <1>1 DEF Restamp, Timeline, Intents, checkTransition
<1>4. Restamp(p) \in Timeline
  <2> DEFINE b == IF p.intent = "play" THEN TRUE
                  ELSE IF p.intent \in {"pause", "set-video"} THEN FALSE
                  ELSE tl.isPlaying
             v == IF p.intent = "set-video" THEN p.videoId ELSE tl.videoId
             pos == IF p.intent = "set-video" THEN 0 ELSE p.mediaTime
  <2>1. b \in BOOLEAN
    BY DEF Timeline
  <2>2. /\ v \in Videos
        /\ pos \in Nat
        /\ tl.seq + 1 \in Nat
        /\ p.intent \in Reasons
    BY <1>1 DEF Timeline, Reasons
  <2>3. Restamp(p) = [tl EXCEPT !.seq = tl.seq + 1, !.stampedAt = now,
                        !.reason = p.intent, !.isPlaying = b, !.videoId = v,
                        !.mediaTime = pos]
    BY DEF Restamp
  <2> HIDE DEF b, v, pos
  <2>4. [tl EXCEPT !.seq = tl.seq + 1, !.stampedAt = now,
            !.reason = p.intent, !.isPlaying = b, !.videoId = v,
            !.mediaTime = pos] \in Timeline
    BY <2>1, <2>2, ExceptIsTimeline, Zenon
  <2> QED
    BY <2>3, <2>4, Zenon
<1> QED
  BY <1>2, <1>3, <1>4

LEMMA ReanchorLegal ==
    ASSUME tl \in Timeline, now \in Nat, tl.stampedAt <= now, tl.isPlaying
    PROVE  /\ Reanchored \in Timeline
           /\ Reanchored.storeEpoch = tl.storeEpoch
           /\ Reanchored.seq = tl.seq + 1
           /\ Reanchored.stampedAt = now
           /\ Reanchored.reason = "snapshot"
           /\ Reanchored.videoId = tl.videoId
           /\ checkTransition(tl, Reanchored)
<1>1. /\ Reanchored.storeEpoch = tl.storeEpoch
      /\ Reanchored.seq = tl.seq + 1
      /\ Reanchored.stampedAt = now
      /\ Reanchored.reason = "snapshot"
      /\ Reanchored.videoId = tl.videoId
  BY DEF Reanchored, Timeline
<1>2. checkTransition(tl, Reanchored)
  BY DEF Reanchored, Timeline, checkTransition, projectMediaTime
<1>3. Reanchored \in Timeline
  <2>1. /\ tl.mediaTime + (now - tl.stampedAt) \in Nat
        /\ tl.seq + 1 \in Nat
        /\ "snapshot" \in Reasons
        /\ tl.isPlaying \in BOOLEAN
        /\ tl.videoId \in Videos
    BY DEF Timeline, Reasons
  <2> QED
    BY <2>1, ExceptIsTimeline DEF Reanchored
<1> QED
  BY <1>1, <1>2, <1>3

-----------------------------------------------------------------------------
(* What every committing script preserves.  The hypotheses are what the     *)
(* three scripts have in common: the new timeline extends the live one by a *)
(* legal transition or opens an epoch at the current instant, its log entry *)
(* respects the fence, and only a snapshot moves the swept window.          *)
LEMMA SaveStep ==
    ASSUME IInv, NEW t \in Timeline, NEW w \in Int,
           NEW c \in Cmds \cup {NoCmd}, Save(t, w, c),
           UNCHANGED <<now, issued>>,
           t.stampedAt = now,
           tl # NoTimeline => t.storeEpoch = tl.storeEpoch /\ checkTransition(tl, t),
           tl = NoTimeline => t.storeEpoch = now /\ w = -1 /\ t.reason # "snapshot",
           t.reason = "snapshot" => w = now \div SweepPeriod /\ w # window,
           t.reason # "snapshot" /\ tl # NoTimeline => w = window,
           c # NoCmd => /\ issued[c] # NotIssued
                        /\ issued[c].intent # "set-video"
                             /\ issued[c].forVideoId # Unfenced
                           => t.videoId = issued[c].forVideoId
    PROVE  /\ tl' \in Timeline /\ window' \in Int /\ log' \in Seq(LogEntry)
           /\ expiry' \in Nat /\ latest' \in Timeline
           /\ LiveIsLatest'
           /\ StampsInPast'
           /\ LogIsPast'
           /\ SweptWindows'
           /\ ChainHolds'
           /\ NoCrossVideoApply'
           /\ OneSnapshotPerWindow'
<1> DEFINE e == [timeline |-> t, cmdId |-> c]
<1>1. /\ tl' = t /\ window' = w /\ latest' = t /\ expiry' = now + KeyTtl
      /\ now' = now /\ issued' = issued
  BY DEF Save
<1>2. /\ e \in LogEntry /\ e.timeline = t /\ e.cmdId = c
  BY DEF LogEntry
<1>2a. log \in Seq(LogEntry) /\ log' \in Retained(Append(log, e))
  BY DEF IInv, TypeOK, Save, LogTl
<1> HIDE DEF e
<1>2b. log' \in Seq(LogEntry) /\ Extends(log', log, e)
  BY <1>2, <1>2a, RetainedAppend
<1>3. /\ log' \in Seq(LogEntry)
      /\ Len(log') > 0
      /\ log'[Len(log')] = e
  BY <1>2b DEF Extends
<1>3a. PICK d \in Nat : /\ Len(log') + d = Len(log) + 1
                        /\ \A i \in 1..Len(log')-1 : log'[i] = log[i+d]
  BY <1>2b DEF Extends
<1>4. /\ log \in Seq(LogEntry) /\ Len(log) \in Nat /\ Len(log') \in Nat
      /\ now \in Nat /\ window \in Int
      /\ tl \in Timeline \cup {NoTimeline} /\ latest \in Timeline \cup {NoTimeline}
  BY <1>3 DEF IInv, TypeOK
<1>4a. ASSUME NEW i \in 1..Len(log'), i # Len(log')
       PROVE  i \in 1..Len(log')-1 /\ i+d \in 1..Len(log) /\ log'[i] = log[i+d]
  BY <1>3a, <1>4, <1>4a
<1>5. ASSUME NEW j \in 1..Len(log)
      PROVE  /\ log[j] \in LogEntry
             /\ log[j].timeline \in Timeline
             /\ latest \in Timeline
             /\ log[j].timeline.storeEpoch <= latest.storeEpoch
             /\ log[j].timeline.storeEpoch <= t.storeEpoch
             /\ tl = NoTimeline => log[j].timeline.storeEpoch < t.storeEpoch
  <2>1. log[j] \in LogEntry
    BY <1>4
  <2>2. log[j].timeline \in Timeline
    BY <2>1 DEF LogEntry
  <2>3. log # <<>>
    BY <1>4
  <2>4. latest \in Timeline
    <3>1. Len(log) \in 1..Len(log)
      BY <1>4
    <3>2. log[Len(log)] \in LogEntry
      BY <3>1, <1>4
    <3>3. log[Len(log)].timeline = latest
      BY <2>3 DEF IInv, LiveIsLatest
    <3> QED
      BY <3>2, <3>3 DEF LogEntry
  <2>5. log[j].timeline.storeEpoch <= latest.storeEpoch
    BY DEF IInv, LogIsPast
  <2>6. latest.storeEpoch <= t.storeEpoch /\ (tl = NoTimeline => latest.storeEpoch < t.storeEpoch)
    <3>1. CASE tl # NoTimeline
      <4>1. tl = latest
        BY <3>1 DEF IInv, LiveIsLatest
      <4> QED
        BY <3>1, <4>1, <2>4 DEF Timeline
    <3>2. CASE tl = NoTimeline
      <4>1. latest # NoTimeline
        BY <2>4, NoTimelineAssumption
      <4>2. latest.storeEpoch < now
        BY <3>2, <4>1 DEF IInv, StampsInPast
      <4> QED
        BY <3>2, <4>2, <2>4, <1>4 DEF Timeline
    <3> QED
      BY <3>1, <3>2
  <2>7. log[j].timeline.storeEpoch \in Nat /\ latest.storeEpoch \in Nat /\ t.storeEpoch \in Nat
    BY <2>2, <2>4 DEF Timeline
  <2> QED
    BY <2>1, <2>2, <2>4, <2>5, <2>6, <2>7
<1>6. LiveIsLatest'
  <2>1. log' # <<>>
    BY <1>3
  <2> QED
    BY <2>1, <1>1, <1>2, <1>3 DEF LiveIsLatest
<1>7. StampsInPast'
  <2>1. t # NoTimeline
    BY NoTimelineAssumption
  <2>2. t.storeEpoch <= now
    <3>1. CASE tl # NoTimeline
      <4>1. tl = latest
        BY <3>1 DEF IInv, LiveIsLatest
      <4> QED
        BY <3>1, <4>1 DEF IInv, StampsInPast
    <3>2. CASE tl = NoTimeline
      BY <3>2, <1>4
    <3> QED
      BY <3>1, <3>2
  <2> QED
    BY <1>1, <1>4, <2>1, <2>2 DEF StampsInPast
<1>8. LogIsPast'
  <2> SUFFICES ASSUME NEW i \in 1..Len(log')
               PROVE  /\ log'[i].cmdId # NoCmd => issued[log'[i].cmdId] # NotIssued
                      /\ log'[i].timeline.storeEpoch <= t.storeEpoch
    BY <1>1 DEF LogIsPast
  <2>1. CASE i = Len(log')
    BY <2>1, <1>2, <1>3 DEF Timeline
  <2>2. CASE i # Len(log')
    <3>2. i+d \in 1..Len(log) /\ log'[i] = log[i+d]
      BY <2>2, <1>4a
    <3> QED
      BY <3>2, <1>5 DEF IInv, LogIsPast
  <2> QED
    BY <2>1, <2>2
<1>9. ChainHolds'
  <2> SUFFICES ASSUME NEW i \in 1..Len(log')-1
               PROVE  checkTransition(log'[i].timeline, log'[i+1].timeline)
    BY DEF ChainHolds, checkChain, toTimeline
  <2> DEFINE j == i+d
  <2>1. j \in 1..Len(log) /\ log'[i] = log[j]
    BY <1>4a, <1>4
  <2>2. CASE i < Len(log')-1
    <3>1. j \in 1..Len(log)-1
      BY <2>2, <1>3a, <1>4
    <3>2. log'[i+1] = log[j+1]
      <4>1. i+1 \in 1..Len(log')-1 /\ (i+1)+d = j+1
        BY <2>2, <1>4
      <4> QED
        BY <4>1, <1>3a
    <3> QED
      BY <2>1, <3>1, <3>2 DEF IInv, ChainHolds, checkChain, toTimeline
  <2>3. CASE i = Len(log')-1
    <3>1. j = Len(log) /\ i + 1 = Len(log')
      BY <2>3, <1>3a, <1>4
    <3>2. log'[i+1].timeline = t
      BY <3>1, <1>2, <1>3
    <3>3. CASE tl = NoTimeline
      <4>1. log[j].timeline.storeEpoch # t.storeEpoch
        BY <1>5, <2>1, <3>3 DEF Timeline
      <4> QED
        BY <4>1, <3>2, <2>1 DEF checkTransition
    <3>4. CASE tl # NoTimeline
      <4>1. log[j].timeline = tl
        BY <3>1, <3>4 DEF IInv, LiveIsLatest
      <4> QED
        BY <4>1, <3>2, <3>4, <2>1
    <3> QED
      BY <3>3, <3>4
  <2> QED
    BY <2>2, <2>3, <1>4
<1>10. NoCrossVideoApply'
  <2> SUFFICES ASSUME NEW i \in 1..Len(log'), log'[i].cmdId # NoCmd,
                      issued[log'[i].cmdId].intent # "set-video",
                      issued[log'[i].cmdId].forVideoId # Unfenced
               PROVE  log'[i].timeline.videoId = issued[log'[i].cmdId].forVideoId
    BY <1>1 DEF NoCrossVideoApply
  <2>1. CASE i = Len(log')
    BY <2>1, <1>2, <1>3
  <2>2. CASE i # Len(log')
    <3>2. i+d \in 1..Len(log) /\ log'[i] = log[i+d]
      BY <2>2, <1>4a
    <3> QED
      BY <3>2 DEF IInv, NoCrossVideoApply
  <2> QED
    BY <2>1, <2>2
<1>11. now \div SweepPeriod \in Nat
  BY <1>4, PeriodAssumption, DivIsNat
<1>12. tl # NoTimeline => window <= w
  BY <1>4, <1>11 DEF IInv, SweptWindows
<1>13. SweptWindows'
  <2>1. w <= now \div SweepPeriod
    <3>1. CASE tl = NoTimeline
      BY <3>1, <1>11
    <3>2. CASE tl # NoTimeline
      BY <3>2, <1>11 DEF IInv, SweptWindows
    <3> QED
      BY <3>1, <3>2
  <2>2. ASSUME NEW i \in 1..Len(log'), log'[i].timeline.reason = "snapshot",
               log'[i].timeline.storeEpoch = t.storeEpoch
        PROVE  log'[i].timeline.stampedAt \div SweepPeriod <= w
    <3>1. CASE i = Len(log')
      BY <3>1, <2>2, <1>2, <1>3, <1>11
    <3>2. CASE i # Len(log')
      <4>1. i+d \in 1..Len(log) /\ log'[i] = log[i+d]
        BY <3>2, <1>4a
      <4>2. tl # NoTimeline
        BY <4>1, <2>2, <1>5 DEF Timeline
      <4>3. log[i+d].timeline.stampedAt \div SweepPeriod <= window
        BY <4>1, <4>2, <2>2 DEF IInv, SweptWindows
      <4>4. log[i+d].timeline.stampedAt \div SweepPeriod \in Nat
        <5>1. log[i+d].timeline.stampedAt \in Nat
          BY <4>1, <1>5 DEF Timeline
        <5> QED
          BY <5>1, PeriodAssumption, DivIsNat
      <4> QED
        BY <4>1, <4>2, <4>3, <4>4, <1>4, <1>12
    <3> QED
      BY <3>1, <3>2
  <2> QED
    BY <1>1, <2>1, <2>2 DEF SweptWindows
<1>14. OneSnapshotPerWindow'
  <2> SUFFICES ASSUME NEW i \in 1..Len(log'), NEW k \in 1..Len(log'), i < k,
                      log'[i].timeline.reason = "snapshot",
                      log'[k].timeline.reason = "snapshot",
                      log'[i].timeline.storeEpoch = log'[k].timeline.storeEpoch
               PROVE  log'[i].timeline.stampedAt \div SweepPeriod
                        # log'[k].timeline.stampedAt \div SweepPeriod
    BY DEF OneSnapshotPerWindow
  <2>1. i # Len(log')
    BY <1>4
  <2>2. i+d \in 1..Len(log) /\ log'[i] = log[i+d]
    BY <2>1, <1>4a
  <2>3. CASE k # Len(log')
    <3>1. k+d \in 1..Len(log) /\ log'[k] = log[k+d]
      BY <2>3, <1>4a
    <3>2. i+d < k+d
      BY <1>4
    <3> QED
      BY <2>2, <3>1, <3>2 DEF IInv, OneSnapshotPerWindow
  <2>4. CASE k = Len(log')
    <3>1. log'[k].timeline = t
      BY <2>4, <1>2, <1>3
    <3>2. tl # NoTimeline
      BY <2>2, <3>1, <1>5 DEF Timeline
    <3>3. log[i+d].timeline.stampedAt \div SweepPeriod <= window
      BY <2>2, <3>1, <3>2 DEF IInv, SweptWindows
    <3>4. log[i+d].timeline.stampedAt \div SweepPeriod \in Nat
      <4>1. log[i+d].timeline.stampedAt \in Nat
        BY <2>2, <1>5 DEF Timeline
      <4> QED
        BY <4>1, PeriodAssumption, DivIsNat
    <3>5. window < now \div SweepPeriod
      BY <3>1, <3>2, <1>4, <1>11 DEF IInv, SweptWindows
    <3> QED
      BY <2>2, <3>1, <3>3, <3>4, <3>5, <1>4, <1>11
  <2> QED
    BY <2>3, <2>4
<1>15. expiry' \in Nat
  BY <1>1, <1>4, BoundsAssumption
<1> QED
  BY <1>1, <1>3, <1>6, <1>7, <1>8, <1>9, <1>10, <1>13, <1>14, <1>15

-----------------------------------------------------------------------------
(* The initial state satisfies the inductive invariant.                     *)
LEMMA InitIInv == Init => IInv
<1> SUFFICES ASSUME Init PROVE IInv
  OBVIOUS
<1>1. TypeOK
  BY DEF Init, TypeOK, Answers
<1>2. LiveIsLatest /\ StampsInPast /\ SweptWindows
  BY DEF Init, LiveIsLatest, StampsInPast, SweptWindows
<1>3. RecordsCover /\ AtMostOnce /\ DupMeansApplied
  BY DEF Init, RecordsCover, AtMostOnce, DupMeansApplied
<1>4. LogIsPast /\ ChainHolds /\ NoCrossVideoApply /\ OneSnapshotPerWindow
  BY DEF Init, LogIsPast, ChainHolds, checkChain, NoCrossVideoApply,
         OneSnapshotPerWindow
<1> QED
  BY <1>1, <1>2, <1>3, <1>4 DEF IInv

(* A step that leaves the store and the clock alone keeps what is said of   *)
(* them.                                                                    *)
LEMMA StoreUntouched ==
    ASSUME IInv, UNCHANGED <<storeVars, issued, issuedAt, applied, latest>>
    PROVE  /\ LiveIsLatest' /\ StampsInPast' /\ RecordsCover' /\ LogIsPast'
           /\ SweptWindows' /\ AtMostOnce' /\ ChainHolds'
           /\ NoCrossVideoApply' /\ OneSnapshotPerWindow'
<1>1. UNCHANGED <<now, tl, window, log, expiry, cmdRec>>
  BY DEF storeVars
<1>2. LiveIsLatest' /\ StampsInPast' /\ SweptWindows'
  BY <1>1 DEF IInv, LiveIsLatest, StampsInPast, SweptWindows
<1>3. RecordsCover' /\ AtMostOnce'
  BY <1>1 DEF IInv, RecordsCover, AtMostOnce
<1>4. LogIsPast' /\ ChainHolds' /\ NoCrossVideoApply' /\ OneSnapshotPerWindow'
  BY <1>1 DEF IInv, LogIsPast, ChainHolds, checkChain, NoCrossVideoApply,
              OneSnapshotPerWindow
<1> QED
  BY <1>2, <1>3, <1>4

LEMMA IssueStep ==
    ASSUME IInv, NEW c \in Cmds, Issue(c)
    PROVE  IInv'
<1>1. /\ issued[c] = NotIssued /\ applied[c] = 0 /\ cmdRec[c] = 0
      /\ UNCHANGED <<now, tl, window, log, expiry, cmdRec, answer, applied, latest>>
      /\ issuedAt' = [issuedAt EXCEPT ![c] = now]
  BY DEF IInv, RecordsCover, Issue, storeVars
<1>2. PICK p \in Controls : issued' = [issued EXCEPT ![c] = p]
  BY DEF Issue
<1>3. p \in SyncControl
  BY ControlsAssumption
<1>4. TypeOK'
  BY <1>1, <1>2, <1>3 DEF IInv, TypeOK
<1>5. LiveIsLatest' /\ StampsInPast' /\ SweptWindows'
  BY <1>1 DEF IInv, LiveIsLatest, StampsInPast, SweptWindows
<1>6. ASSUME NEW b \in Cmds, b # c
      PROVE  issued'[b] = issued[b] /\ issuedAt'[b] = issuedAt[b]
  BY <1>1, <1>2, <1>6 DEF IInv, TypeOK
<1>7. issuedAt'[c] = now /\ now \in Nat
  BY <1>1 DEF IInv, TypeOK
<1>8. RecordsCover'
  <2> SUFFICES ASSUME NEW b \in Cmds
               PROVE  /\ issuedAt'[b] <= now
                      /\ issued'[b] = NotIssued => applied[b] = 0 /\ cmdRec[b] = 0
                      /\ cmdRec[b] > 0 => applied[b] >= 1
                      /\ (issued'[b] # NotIssued /\ issued'[b].hasId /\ applied[b] >= 1)
                           => cmdRec[b] >= issuedAt'[b] + DedupTtl
    BY <1>1 DEF RecordsCover
  <2>1. CASE b = c
    BY <2>1, <1>1, <1>7
  <2>2. CASE b # c
    BY <2>2, <1>6 DEF IInv, RecordsCover
  <2> QED
    BY <2>1, <2>2
<1>9. AtMostOnce' /\ DupMeansApplied'
  <2>1. AtMostOnce'
    <3> SUFFICES ASSUME NEW b \in Cmds, issued'[b] # NotIssued, issued'[b].hasId
                 PROVE  applied[b] <= 1
      BY <1>1 DEF AtMostOnce
    <3> QED
      BY <1>1, <1>6 DEF IInv, AtMostOnce
  <2> QED
    BY <2>1, <1>1 DEF IInv, DupMeansApplied
<1>10. LogIsPast' /\ NoCrossVideoApply'
  <2>1. ASSUME NEW i \in 1..Len(log), log[i].cmdId # NoCmd
        PROVE  issued'[log[i].cmdId] = issued[log[i].cmdId]
    <3>1. log[i].cmdId \in Cmds
      <4>1. log[i] \in LogEntry
        BY DEF IInv, TypeOK
      <4> QED
        BY <4>1, <2>1 DEF LogEntry
    <3>2. log[i].cmdId # c
      BY <2>1, <1>1 DEF IInv, LogIsPast
    <3> QED
      BY <3>1, <3>2, <1>6
  <2>2. LogIsPast'
    BY <1>1, <2>1 DEF IInv, LogIsPast
  <2> QED
    BY <1>1, <2>1, <2>2 DEF IInv, NoCrossVideoApply
<1>11. ChainHolds' /\ OneSnapshotPerWindow'
  BY <1>1 DEF IInv, ChainHolds, checkChain, OneSnapshotPerWindow
<1> QED
  BY <1>4, <1>5, <1>8, <1>9, <1>10, <1>11 DEF IInv

(* The three answers that commit nothing.                                   *)
LEMMA AnswerStep ==
    ASSUME IInv, NEW c \in Cmds,
           ControlMissing(c) \/ ControlDuplicate(c) \/ ControlFenced(c)
    PROVE  IInv'
<1>1. UNCHANGED <<storeVars, issued, issuedAt, applied, latest>>
  BY DEF ControlMissing, ControlDuplicate, ControlFenced
<1>2. PICK a \in {"missing", "dup", "fenced"} :
        /\ answer' = [answer EXCEPT ![c] = a]
        /\ a = "dup" => Recorded(c)
  BY DEF ControlMissing, ControlDuplicate, ControlFenced, Answer
<1>3. TypeOK'
  BY <1>1, <1>2 DEF IInv, TypeOK, storeVars, Answers
<1>4. DupMeansApplied'
  <2> SUFFICES ASSUME NEW b \in Cmds, answer'[b] = "dup"
               PROVE  applied[b] >= 1
    BY <1>1 DEF DupMeansApplied
  <2>1. CASE b = c
    <3>1. a = "dup"
      BY <2>1, <1>2 DEF IInv, TypeOK
    <3>2. cmdRec[b] > 0
      BY <3>1, <2>1, <1>2 DEF Recorded, IInv, TypeOK
    <3> QED
      BY <3>2 DEF IInv, RecordsCover
  <2>2. CASE b # c
    BY <2>2, <1>2 DEF IInv, TypeOK, DupMeansApplied
  <2> QED
    BY <2>1, <2>2
<1> QED
  BY <1>1, <1>3, <1>4, StoreUntouched DEF IInv

(* A live timeline is typed and its stamps are not ahead of the clock.      *)
LEMMA LiveFacts ==
    ASSUME IInv, tl # NoTimeline
    PROVE  tl \in Timeline /\ now \in Nat /\ tl.stampedAt <= now /\ tl.storeEpoch <= now
<1>1. tl \in Timeline /\ now \in Nat /\ tl = latest /\ latest # NoTimeline
  BY DEF IInv, TypeOK, LiveIsLatest
<1> QED
  BY <1>1 DEF IInv, StampsInPast

LEMMA CommitStep ==
    ASSUME IInv, NEW c \in Cmds, ControlCommitted(c)
    PROVE  IInv'
<1> DEFINE p == issued[c]
           id == IF p.hasId THEN c ELSE NoCmd
           t == Restamp(p)
<1>1. /\ p # NotIssued /\ p \in SyncControl
      /\ now <= issuedAt[c] + RetryWindow
      /\ ~Recorded(c) /\ ~StaleVideo(p) /\ tl # NoTimeline
      /\ UNCHANGED <<now, issued, issuedAt>>
      /\ applied' = [applied EXCEPT ![c] = @ + 1]
      /\ answer' = [answer EXCEPT ![c] = "committed"]
      /\ cmdRec' = IF p.hasId THEN [cmdRec EXCEPT ![c] = now + DedupTtl] ELSE cmdRec
      /\ Save(t, window, id)
  BY DEF ControlCommitted, Deliverable, Answer, RecordCmd, IInv, TypeOK
<1>2. /\ tl \in Timeline /\ now \in Nat /\ tl.stampedAt <= now
      /\ window \in Int /\ id \in Cmds \cup {NoCmd}
  BY <1>1, LiveFacts DEF IInv, TypeOK
<1>3. /\ t \in Timeline /\ t.storeEpoch = tl.storeEpoch /\ t.stampedAt = now
      /\ t.reason = p.intent
      /\ p.intent # "set-video" => t.videoId = tl.videoId
      /\ checkTransition(tl, t)
  BY <1>1, <1>2, RestampLegal
<1>4. t.reason # "snapshot"
  BY <1>1, <1>3 DEF SyncControl, Intents
<1>5. id # NoCmd => /\ issued[id] # NotIssued
                    /\ issued[id].intent # "set-video" /\ issued[id].forVideoId # Unfenced
                         => t.videoId = issued[id].forVideoId
  BY <1>1, <1>3, CmdsAssumption DEF StaleVideo
<1> HIDE DEF t, id
<1>6. /\ tl' \in Timeline /\ window' \in Int /\ log' \in Seq(LogEntry)
      /\ expiry' \in Nat /\ latest' \in Timeline
      /\ LiveIsLatest' /\ StampsInPast' /\ LogIsPast' /\ SweptWindows'
      /\ ChainHolds' /\ NoCrossVideoApply' /\ OneSnapshotPerWindow'
  BY <1>1, <1>2, <1>3, <1>4, <1>5, SaveStep
(* The record was missing, so the command had not applied before.           *)
<1>7. p.hasId => applied[c] = 0
  <2> SUFFICES ASSUME p.hasId, applied[c] # 0
               PROVE  FALSE
    OBVIOUS
  <2>1. applied[c] \in Nat /\ cmdRec[c] \in Nat /\ issuedAt[c] \in Nat
    BY DEF IInv, TypeOK
  <2>2. cmdRec[c] >= issuedAt[c] + DedupTtl
    BY <1>1, <2>1 DEF IInv, RecordsCover
  <2> QED
    BY <1>1, <1>2, <2>1, <2>2, RetryAssumption, BoundsAssumption DEF Recorded
<1>8. /\ applied' \in [Cmds -> Nat] /\ applied'[c] = applied[c] + 1 /\ applied[c] \in Nat
      /\ cmdRec' \in [Cmds -> Nat]
      /\ p.hasId => cmdRec'[c] = now + DedupTtl
      /\ ~p.hasId => cmdRec'[c] = cmdRec[c]
      /\ \A b \in Cmds : b # c => applied'[b] = applied[b] /\ cmdRec'[b] = cmdRec[b]
  BY <1>1, <1>2, BoundsAssumption DEF IInv, TypeOK
<1>9. TypeOK'
  BY <1>1, <1>6, <1>8 DEF IInv, TypeOK, Answers
<1>10. RecordsCover'
  <2> SUFFICES ASSUME NEW b \in Cmds
               PROVE  /\ issuedAt[b] <= now
                      /\ issued[b] = NotIssued => applied'[b] = 0 /\ cmdRec'[b] = 0
                      /\ cmdRec'[b] > 0 => applied'[b] >= 1
                      /\ (issued[b] # NotIssued /\ issued[b].hasId /\ applied'[b] >= 1)
                           => cmdRec'[b] >= issuedAt[b] + DedupTtl
    BY <1>1 DEF RecordsCover
  <2>1. CASE b = c
    <3>1. issuedAt[c] <= now /\ issuedAt[c] \in Nat
      BY DEF IInv, TypeOK, RecordsCover
    <3> QED
      BY <2>1, <3>1, <1>1, <1>2, <1>8, BoundsAssumption DEF IInv, RecordsCover
  <2>2. CASE b # c
    BY <2>2, <1>8 DEF IInv, RecordsCover
  <2> QED
    BY <2>1, <2>2
<1>11. AtMostOnce'
  <2> SUFFICES ASSUME NEW b \in Cmds, issued[b] # NotIssued, issued[b].hasId
               PROVE  applied'[b] <= 1
    BY <1>1 DEF AtMostOnce
  <2>1. CASE b = c
    BY <2>1, <1>7, <1>8
  <2>2. CASE b # c
    BY <2>2, <1>8 DEF IInv, AtMostOnce
  <2> QED
    BY <2>1, <2>2
<1>12. DupMeansApplied'
  <2> SUFFICES ASSUME NEW b \in Cmds, answer'[b] = "dup"
               PROVE  applied'[b] >= 1
    BY DEF DupMeansApplied
  <2>1. b # c
    BY <1>1 DEF IInv, TypeOK
  <2> QED
    BY <2>1, <1>1, <1>8 DEF IInv, TypeOK, DupMeansApplied
<1> QED
  BY <1>6, <1>9, <1>10, <1>11, <1>12 DEF IInv

(* The dedup side is untouched by a script that is not a control.           *)
LEMMA DedupUntouched ==
    ASSUME IInv, UNCHANGED <<now, cmdRec, issued, issuedAt, answer, applied>>
    PROVE  RecordsCover' /\ AtMostOnce' /\ DupMeansApplied'
BY DEF IInv, RecordsCover, AtMostOnce, DupMeansApplied

LEMMA SnapshotStep ==
    ASSUME IInv, ApplySnapshot
    PROVE  IInv'
<1>1. /\ tl # NoTimeline /\ tl.isPlaying /\ window # SweepWindow
      /\ Save(Reanchored, SweepWindow, NoCmd)
      /\ UNCHANGED <<now, cmdRec, issued, issuedAt, answer, applied>>
  BY DEF ApplySnapshot
<1>2. tl \in Timeline /\ now \in Nat /\ tl.stampedAt <= now
  BY <1>1, LiveFacts
<1>3. /\ Reanchored \in Timeline /\ Reanchored.storeEpoch = tl.storeEpoch
      /\ Reanchored.stampedAt = now /\ Reanchored.reason = "snapshot"
      /\ checkTransition(tl, Reanchored)
  BY <1>1, <1>2, ReanchorLegal
<1>4. SweepWindow \in Int /\ SweepWindow = now \div SweepPeriod
  BY <1>2, PeriodAssumption, DivIsNat DEF SweepWindow
<1>5. /\ tl' \in Timeline /\ window' \in Int /\ log' \in Seq(LogEntry)
      /\ expiry' \in Nat /\ latest' \in Timeline
      /\ LiveIsLatest' /\ StampsInPast' /\ LogIsPast' /\ SweptWindows'
      /\ ChainHolds' /\ NoCrossVideoApply' /\ OneSnapshotPerWindow'
  BY <1>1, <1>3, <1>4, SaveStep
<1>6. TypeOK'
  BY <1>1, <1>5 DEF IInv, TypeOK
<1> QED
  BY <1>1, <1>5, <1>6, DedupUntouched DEF IInv

LEMMA InitRoomStep ==
    ASSUME IInv, InitRoom
    PROVE  IInv'
<1>1. /\ tl = NoTimeline
      /\ UNCHANGED <<now, cmdRec, issued, issuedAt, answer, applied>>
  BY DEF InitRoom
<1>2. PICK v \in Videos, pos \in Positions : Save(Birth(v, pos), -1, NoCmd)
  BY DEF InitRoom
<1>3. now \in Nat /\ pos \in Nat
  BY PositionsAssumption DEF IInv, TypeOK
<1>4. /\ Birth(v, pos) \in Timeline /\ Birth(v, pos).storeEpoch = now
      /\ Birth(v, pos).stampedAt = now /\ Birth(v, pos).reason = "join"
  BY <1>3 DEF Birth, Timeline, Reasons
<1>5. /\ tl' \in Timeline /\ window' \in Int /\ log' \in Seq(LogEntry)
      /\ expiry' \in Nat /\ latest' \in Timeline
      /\ LiveIsLatest' /\ StampsInPast' /\ LogIsPast' /\ SweptWindows'
      /\ ChainHolds' /\ NoCrossVideoApply' /\ OneSnapshotPerWindow'
  BY <1>1, <1>2, <1>4, SaveStep
<1>6. TypeOK'
  BY <1>1, <1>5 DEF IInv, TypeOK
<1> QED
  BY <1>1, <1>5, <1>6, DedupUntouched DEF IInv

LEMMA ClearStep ==
    ASSUME IInv, Clear
    PROVE  IInv'
<1>1. /\ tl # NoTimeline /\ tl.storeEpoch < now /\ tl' = NoTimeline /\ window' = -1
      /\ UNCHANGED <<now, log, expiry, cmdRec, issued, issuedAt, answer, applied, latest>>
  BY DEF Clear, Aged
<1>2. TypeOK'
  BY <1>1 DEF IInv, TypeOK
<1>3. tl = latest
  BY <1>1 DEF IInv, LiveIsLatest
<1>4. LiveIsLatest' /\ StampsInPast' /\ SweptWindows'
  BY <1>1, <1>3 DEF IInv, LiveIsLatest, StampsInPast, SweptWindows
<1>5. LogIsPast' /\ ChainHolds' /\ NoCrossVideoApply' /\ OneSnapshotPerWindow'
  BY <1>1 DEF IInv, LogIsPast, ChainHolds, checkChain, NoCrossVideoApply,
              OneSnapshotPerWindow
<1> QED
  BY <1>1, <1>2, <1>4, <1>5, DedupUntouched DEF IInv

(* An empty log satisfies everything that is said of logs.                  *)
LEMMA EmptyLog ==
    ASSUME log' = <<>>, tl' = NoTimeline
    PROVE  /\ LiveIsLatest' /\ LogIsPast' /\ ChainHolds' /\ NoCrossVideoApply'
           /\ OneSnapshotPerWindow' /\ SweptWindows'
BY DEF LiveIsLatest, LogIsPast, ChainHolds, checkChain, NoCrossVideoApply,
       OneSnapshotPerWindow, SweptWindows

LEMMA FlushStep ==
    ASSUME IInv, Flush
    PROVE  IInv'
<1>1. /\ tl # NoTimeline => tl.storeEpoch < now
      /\ tl' = NoTimeline /\ window' = -1 /\ log' = <<>> /\ expiry' = 0
      /\ cmdRec' = [c \in Cmds |-> 0] /\ answer' = [c \in Cmds |-> "none"]
      /\ applied' = [c \in Cmds |-> 0]
      /\ UNCHANGED <<now, issued, issuedAt, latest>>
  BY DEF Flush, Aged
<1>2. TypeOK'
  BY <1>1 DEF IInv, TypeOK, Answers
<1>3. StampsInPast'
  <2>1. tl # NoTimeline => tl = latest
    BY DEF IInv, LiveIsLatest
  <2> QED
    BY <1>1, <2>1 DEF IInv, StampsInPast
<1>4. RecordsCover' /\ AtMostOnce' /\ DupMeansApplied'
  BY <1>1 DEF IInv, RecordsCover, AtMostOnce, DupMeansApplied
<1> QED
  BY <1>1, <1>2, <1>3, <1>4, EmptyLog DEF IInv

LEMMA TickStep ==
    ASSUME IInv, Tick
    PROVE  IInv'
<1>1. /\ now' = now + 1
      /\ UNCHANGED <<expiry, cmdRec, issued, issuedAt, answer, applied, latest>>
      /\ \/ tl' = NoTimeline /\ window' = -1 /\ log' = <<>>
         \/ UNCHANGED <<tl, window, log>>
  BY DEF Tick
<1>2. now \in Nat /\ now # 0 /\ window \in Int
  BY DEF IInv, TypeOK
<1>3. TypeOK'
  <2>1. now' \in Nat \ {0}
    BY <1>1, <1>2
  <2>2. /\ tl' \in Timeline \cup {NoTimeline}
        /\ window' \in Int
        /\ log' \in Seq(LogEntry)
    <3>1. CASE tl' = NoTimeline /\ window' = -1 /\ log' = <<>>
      BY <3>1
    <3>2. CASE UNCHANGED <<tl, window, log>>
      BY <3>2 DEF IInv, TypeOK
    <3> QED
      BY <1>1, <3>1, <3>2
  <2> QED
    BY <1>1, <2>1, <2>2 DEF IInv, TypeOK
<1>4. StampsInPast'
  <2>1. latest # NoTimeline => latest.storeEpoch \in Nat /\ latest.stampedAt \in Nat
    BY DEF IInv, TypeOK, Timeline
  <2> QED
    BY <1>1, <1>2, <2>1 DEF IInv, StampsInPast
<1>5. RecordsCover'
  <2>1. \A c \in Cmds : issuedAt[c] \in Nat
    BY DEF IInv, TypeOK
  <2> QED
    BY <1>1, <1>2, <2>1 DEF IInv, RecordsCover
<1>6. AtMostOnce' /\ DupMeansApplied'
  BY <1>1 DEF IInv, AtMostOnce, DupMeansApplied
<1>7. CASE tl' = NoTimeline /\ log' = <<>>
  BY <1>3, <1>4, <1>5, <1>6, <1>7, EmptyLog DEF IInv
<1>8. CASE UNCHANGED <<tl, window, log>>
  <2>1. LiveIsLatest' /\ LogIsPast' /\ ChainHolds' /\ NoCrossVideoApply'
        /\ OneSnapshotPerWindow'
    BY <1>1, <1>8 DEF IInv, LiveIsLatest, LogIsPast, ChainHolds, checkChain,
                      NoCrossVideoApply, OneSnapshotPerWindow
  <2>2. now \div SweepPeriod <= (now + 1) \div SweepPeriod
        /\ now \div SweepPeriod \in Nat /\ (now + 1) \div SweepPeriod \in Nat
    <3>1. now + 1 \in Nat /\ now <= now + 1
      BY <1>2
    <3> QED
      BY <1>2, <3>1, PeriodAssumption, DivMonotone, DivIsNat
  <2>3. SweptWindows'
    BY <1>1, <1>2, <1>8, <2>2 DEF IInv, SweptWindows
  <2> QED
    BY <1>3, <1>4, <1>5, <1>6, <2>1, <2>3 DEF IInv
<1> QED
  BY <1>1, <1>7, <1>8

-----------------------------------------------------------------------------
(* The strengthened invariant is inductive: every script, every environment *)
(* step and stuttering preserve it.                                         *)
LEMMA NextIInv == IInv /\ [Next]_vars => IInv'
<1> SUFFICES ASSUME IInv, [Next]_vars PROVE IInv'
  OBVIOUS
<1>1. ASSUME NEW c \in Cmds, Issue(c) PROVE IInv'
  BY <1>1, IssueStep
<1>2. ASSUME NEW c \in Cmds,
             ControlMissing(c) \/ ControlDuplicate(c) \/ ControlFenced(c)
      PROVE  IInv'
  BY <1>2, AnswerStep
<1>3. ASSUME NEW c \in Cmds, ControlCommitted(c) PROVE IInv'
  BY <1>3, CommitStep
<1>4. CASE ApplySnapshot
  BY <1>4, SnapshotStep
<1>5. CASE InitRoom
  BY <1>5, InitRoomStep
<1>6. CASE Clear
  BY <1>6, ClearStep
<1>7. CASE Flush
  BY <1>7, FlushStep
<1>8. CASE Tick
  BY <1>8, TickStep
<1>9. CASE UNCHANGED vars
  <2>1. UNCHANGED <<storeVars, issued, issuedAt, applied, latest>> /\ answer' = answer
    BY <1>9 DEF vars, storeVars
  <2>2. TypeOK' /\ DupMeansApplied'
    BY <2>1 DEF IInv, TypeOK, DupMeansApplied, storeVars
  <2> QED
    BY <2>1, <2>2, StoreUntouched DEF IInv
<1> QED
  BY <1>1, <1>2, <1>3, <1>4, <1>5, <1>6, <1>7, <1>8, <1>9 DEF Next

(* IInv holds in every reachable state.                                     *)
THEOREM Invariance == Spec => []IInv
<1>1. Init => IInv
  BY InitIInv
<1>2. IInv /\ [Next]_vars => IInv'
  BY NextIInv
<1> QED
  BY <1>1, <1>2, PTL DEF Spec

(* Every variable of the store keeps its type.                              *)
THEOREM TypeCorrect == Spec => []TypeOK
<1>1. IInv => TypeOK
  BY DEF IInv
<1> QED
  BY <1>1, Invariance, PTL

(* At-most-once execution of apply_control.lua: between two losses of       *)
(* Redis's data a command with a cmdId commits at most once, provided only  *)
(* that no delivery outlives the dedup TTL.                                 *)
THEOREM ExactlyOnceSafety == Spec => []AtMostOnce
<1>1. IInv => AtMostOnce
  BY DEF IInv
<1> QED
  BY <1>1, Invariance, PTL

(* A `dup' answer of apply_control.lua is true: the command has committed.  *)
THEOREM DuplicatesAreTrue == Spec => []DupMeansApplied
<1>1. IInv => DupMeansApplied
  BY DEF IInv
<1> QED
  BY <1>1, Invariance, PTL

(* The retained log satisfies the replay contract (checkChain), whatever    *)
(* Redis trimmed.                                                           *)
THEOREM ReplaySound == Spec => []ChainHolds
<1>1. IInv => ChainHolds
  BY DEF IInv
<1> QED
  BY <1>1, Invariance, PTL

(* The log's last entry is the live timeline (entryMatchesLive).            *)
THEOREM ReplayMatchesLive == Spec => []ReplayReconstructs
<1>1. IInv => ReplayReconstructs
  BY DEF IInv, LiveIsLatest, ReplayReconstructs, entryMatchesLive, toTimeline
<1> QED
  BY <1>1, Invariance, PTL

(* A position command minted for one video never moves another.             *)
THEOREM FenceHolds == Spec => []NoCrossVideoApply
<1>1. IInv => NoCrossVideoApply
  BY DEF IInv
<1> QED
  BY <1>1, Invariance, PTL

(* The sweep commits at most once per aligned window and epoch.             *)
THEOREM SweepDeduped == Spec => []OneSnapshotPerWindow
<1>1. IInv => OneSnapshotPerWindow
  BY DEF IInv
<1> QED
  BY <1>1, Invariance, PTL

(* A commit is a timeline newer, in the clients' order, than the one before.*)
LEMMA CommitIsNewer ==
    ASSUME IInv, Next, latest' # latest
    PROVE  latest' \in Timeline /\ isNewer(latest', latest)
<1>1. ASSUME NEW c \in Cmds, ControlCommitted(c)
      PROVE  latest' \in Timeline /\ isNewer(latest', latest)
  <2>1. tl # NoTimeline /\ latest' = Restamp(issued[c]) /\ issued[c] \in SyncControl
    BY <1>1 DEF ControlCommitted, Save, Deliverable, IInv, TypeOK
  <2>2. tl \in Timeline /\ now \in Nat /\ tl.stampedAt <= now /\ tl = latest
    BY <2>1, LiveFacts DEF IInv, LiveIsLatest
  <2>3. /\ latest' \in Timeline
        /\ latest'.storeEpoch = tl.storeEpoch /\ latest'.seq = tl.seq + 1
    BY <2>1, <2>2, RestampLegal
  <2> QED
    BY <2>2, <2>3 DEF isNewer, Timeline
<1>2. CASE ApplySnapshot
  <2>1. tl # NoTimeline /\ tl.isPlaying /\ latest' = Reanchored
    BY <1>2 DEF ApplySnapshot, Save
  <2>2. tl \in Timeline /\ now \in Nat /\ tl.stampedAt <= now /\ tl = latest
    BY <2>1, LiveFacts DEF IInv, LiveIsLatest
  <2>3. /\ latest' \in Timeline
        /\ latest'.storeEpoch = tl.storeEpoch /\ latest'.seq = tl.seq + 1
    BY <2>1, <2>2, ReanchorLegal
  <2> QED
    BY <2>2, <2>3 DEF isNewer, Timeline
<1>3. CASE InitRoom
  <2>1. PICK v \in Videos, pos \in Positions : latest' = Birth(v, pos)
    BY <1>3 DEF InitRoom, Save
  <2>2. tl = NoTimeline /\ now \in Nat /\ pos \in Nat
    BY <1>3, PositionsAssumption DEF InitRoom, IInv, TypeOK
  <2>3. latest' \in Timeline /\ latest'.storeEpoch = now
    BY <2>1, <2>2 DEF Birth, Timeline, Reasons
  <2>4. latest # NoTimeline => latest.storeEpoch < now
    BY <2>2 DEF IInv, StampsInPast
  <2> QED
    BY <2>3, <2>4 DEF isNewer
<1> QED
  BY <1>1, <1>2, <1>3
  DEF Next, Issue, ControlMissing, ControlDuplicate, ControlFenced, Clear,
      Flush, Tick

(* Every commit is newer, in the clients' order, than the commit before it, *)
(* across release, expiry, data loss and rehydration.                       *)
THEOREM VersionsOnlyAdvance == Spec => VersionsAdvance
<1> DEFINE Advance == latest' # latest => isNewer(latest', latest)
<1>1. IInv /\ [Next]_vars => [Advance]_vars
  BY CommitIsNewer
<1> QED
  BY <1>1, Invariance, PTL DEF Spec, VersionsAdvance

-----------------------------------------------------------------------------
(* The in-memory store beside it.                                           *)

(* m is the end of s.                                                       *)
Ends(m, s) ==
    /\ Len(m) <= Len(s)
    /\ \A i \in 1..Len(m) : m[i] = s[Len(s) - Len(m) + i]

LEMMA EndsIsSubSeq ==
    ASSUME NEW S, NEW m \in Seq(S), NEW s \in Seq(S), Len(m) <= Len(s)
    PROVE  Ends(m, s) <=> m = SubSeq(s, Len(s) - Len(m) + 1, Len(s))
<1> DEFINE e == SubSeq(s, Len(s) - Len(m) + 1, Len(s))
<1>1. Len(m) \in Nat /\ Len(s) \in Nat
  OBVIOUS
<1>2. /\ e \in Seq(S)
      /\ Len(e) = Len(m)
      /\ \A i \in 1..Len(m) : e[i] = s[Len(s) - Len(m) + i]
  BY <1>1
<1> HIDE DEF e
<1>3. m = e <=> \A i \in 1..Len(m) : m[i] = e[i]
  <2>1. m \in [1..Len(m) -> S] /\ e \in [1..Len(m) -> S]
    BY <1>1, <1>2
  <2> QED
    BY <2>1
<1>4. Ends(m, s) <=> \A i \in 1..Len(m) : m[i] = s[Len(s) - Len(m) + i]
  BY DEF Ends
<1>5. Ends(m, s) <=> m = e
  BY <1>2, <1>3, <1>4
<1> QED
  BY <1>5 DEF e

(* Trimming keeps LogMax entries at least, or trims nothing.                *)
LEMMA RetainedEnough ==
    ASSUME NEW S, NEW s \in Seq(S), NEW t \in Retained(s), Len(s) > 0
    PROVE  Len(t) >= LogMax \/ Len(t) = Len(s)
<1>1. PICK k \in {1} \cup 2..(Len(s) - LogMax + 1) : t = SubSeq(s, k, Len(s))
  BY DEF Retained
<1>2. k \in 1..Len(s) /\ Len(s) \in Nat
  BY <1>1, LogMaxAssumption
<1>3. Len(t) = Len(s) - k + 1
  BY <1>1, <1>2
<1> QED
  BY <1>2, <1>3, LogMaxAssumption

(* appendLog and log_tl of the same entry keep one log the end of the       *)
(* other, whatever Redis trims.                                             *)
LEMMA AppendBoth ==
    ASSUME NEW S, NEW m \in Seq(S), NEW s \in Seq(S), NEW e \in S,
           NEW r \in Retained(Append(s, e)), Ends(m, s), Len(m) <= LogMax,
           NEW q, q = IF Len(Append(m, e)) > LogMax THEN Tail(Append(m, e))
                                                    ELSE Append(m, e)
    PROVE  q \in Seq(S) /\ Len(q) <= LogMax /\ Ends(q, r)
<1> DEFINE k == IF Len(m) + 1 > LogMax THEN 1 ELSE 0
<1>1. Len(m) \in Nat /\ Len(s) \in Nat /\ k \in {0, 1} /\ LogMax \in Nat \ {0}
  BY LogMaxAssumption
<1>2. /\ Append(m, e) \in Seq(S) /\ Len(Append(m, e)) = Len(m) + 1
      /\ Append(m, e)[Len(m) + 1] = e
      /\ \A i \in 1..Len(m) : Append(m, e)[i] = m[i]
  BY <1>1
<1>3. /\ q \in Seq(S) /\ Len(q) = Len(m) + 1 - k
      /\ \A i \in 1..Len(q) : q[i] = Append(m, e)[i + k]
  <2>1. CASE Len(m) + 1 > LogMax
    <3>1. q = Tail(Append(m, e)) /\ k = 1
      BY <2>1, <1>2
    <3>2. Append(m, e) # <<>>
      BY <1>1, <1>2
    <3> QED
      BY <3>1, <3>2, <1>1, <1>2
  <2>2. CASE ~(Len(m) + 1 > LogMax)
    <3>1. q = Append(m, e) /\ k = 0
      BY <2>2, <1>2
    <3> QED
      BY <3>1, <1>1, <1>2
  <2> QED
    BY <2>1, <2>2
<1>4. Len(q) <= LogMax
  BY <1>1, <1>3
<1>5. r \in Seq(S) /\ Extends(r, s, e)
  BY RetainedAppend
<1>6. PICK d \in Nat : /\ Len(r) + d = Len(s) + 1
                       /\ \A i \in 1..Len(r)-1 : r[i] = s[i+d]
  BY <1>5 DEF Extends
<1>7. r[Len(r)] = e /\ Len(r) > 0 /\ Len(r) \in Nat
  BY <1>5 DEF Extends
<1>8. Len(r) >= LogMax \/ Len(r) = Len(s) + 1
  <2> DEFINE a == Append(s, e)
  <2>1. a \in Seq(S) /\ Len(a) = Len(s) + 1 /\ Len(a) > 0
    BY <1>1
  <2>2. r \in Retained(a)
    OBVIOUS
  <2> HIDE DEF a
  <2>3. Len(r) >= LogMax \/ Len(r) = Len(a)
    BY <2>1, <2>2, RetainedEnough
  <2> QED
    BY <2>1, <2>3
<1> HIDE DEF k
<1>9. Len(q) <= Len(r)
  BY <1>1, <1>3, <1>4, <1>7, <1>8 DEF Ends
<1>10. ASSUME NEW i \in 1..Len(q)
       PROVE  q[i] = r[Len(r) - Len(q) + i]
  <2>1. q[i] = Append(m, e)[i + k]
    BY <1>3
  <2>2. CASE i = Len(q)
    <3>1. i + k = Len(m) + 1 /\ Len(r) - Len(q) + i = Len(r)
      BY <2>2, <1>1, <1>3, <1>7
    <3> QED
      BY <3>1, <2>1, <1>2, <1>7
  <2>3. CASE i # Len(q)
    <3> DEFINE a == i + k
               b == Len(r) - Len(q) + i
    <3>1. /\ a \in 1..Len(m) /\ b \in 1..Len(r)-1
          /\ b + d = Len(s) - Len(m) + a
      <4>1. /\ Len(q) = Len(m) + 1 - k /\ Len(r) + d = Len(s) + 1
            /\ Len(q) <= Len(r) /\ Len(q) \in Nat /\ i \in Nat
            /\ 1 <= i /\ i < Len(q) /\ Len(r) \in Nat
        BY <2>3, <1>1, <1>3, <1>6, <1>7, <1>9
      <4> DEFINE lm == Len(m)
                 ls == Len(s)
                 lq == Len(q)
                 lr == Len(r)
      <4>2. lm \in Nat /\ ls \in Nat /\ lq \in Nat /\ lr \in Nat /\ k \in {0, 1} /\ i \in Nat
        BY <4>1, <1>1
      <4>3. lq = lm + 1 - k /\ lr + d = ls + 1 /\ lq <= lr /\ 1 <= i /\ i < lq
        BY <4>1
      <4> HIDE DEF lm, ls, lq, lr
      <4>4. i + k \in 1..lm /\ lr - lq + i \in 1..lr - 1
        BY <4>2, <4>3
      <4>5. lr - lq + i + d = ls - lm + (i + k)
        BY <4>2, <4>3
      <4> QED
        BY <4>4, <4>5 DEF lm, ls, lq, lr
    <3>2. q[i] = m[a]
      BY <3>1, <2>1, <1>2
    <3> HIDE DEF a, b
    <3>3. m[a] = s[Len(s) - Len(m) + a]
      BY <3>1 DEF Ends
    <3>4. r[b] = s[b + d]
      BY <3>1, <1>6
    <3>5. q[i] = r[b]
      BY <3>1, <3>2, <3>3, <3>4
    <3> QED
      BY <3>5 DEF b
  <2> QED
    BY <2>2, <2>3
<1> QED
  BY <1>3, <1>4, <1>9, <1>10 DEF Ends

(* What holds as long as the stores are compared, and what shows it again.  *)
LEMMA Compared ==
    ASSUME IInv, MemIInv, ~parted
    PROVE  /\ rooms = tl /\ outcome = answer
           /\ logs \in Seq(LogEntry) /\ log \in Seq(LogEntry)
           /\ cmdSeen \in [Cmds -> Nat] /\ cmdRec \in [Cmds -> Nat]
           /\ now \in Nat \ {0}
           /\ SeenAsRecorded /\ LogsBounded /\ Ends(logs, log)
<1>1. /\ logs \in Seq(LogEntry) /\ log \in Seq(LogEntry)
      /\ cmdSeen \in [Cmds -> Nat] /\ cmdRec \in [Cmds -> Nat] /\ now \in Nat \ {0}
  BY DEF IInv, TypeOK, MemIInv, MemTypeOK
<1>2. /\ rooms = tl /\ outcome = answer
      /\ Len(logs) <= Len(log)
      /\ logs = SubSeq(log, Len(log) - Len(logs) + 1, Len(log))
  BY DEF MemIInv, StoresAgree
<1>3. Ends(logs, log)
  BY <1>1, <1>2, EndsIsSubSeq
<1> QED
  BY <1>1, <1>2, <1>3 DEF MemIInv

LEMMA StillCompared ==
    ASSUME logs' \in Seq(LogEntry), log' \in Seq(LogEntry),
           cmdSeen' \in [Cmds -> Nat], parted' \in BOOLEAN,
           rooms' = tl', outcome' = answer', SeenAsRecorded', LogsBounded',
           Ends(logs', log')
    PROVE  MemIInv'
<1>1. Len(logs') <= Len(log')
  BY DEF Ends
<1>2. logs' = SubSeq(log', Len(log') - Len(logs') + 1, Len(log'))
  BY <1>1, EndsIsSubSeq
<1>3. MemTypeOK'
  BY DEF MemTypeOK
<1>4. StoresAgree'
  BY <1>1, <1>2 DEF StoresAgree
<1> QED
  BY <1>3, <1>4 DEF MemIInv

(* Stores that are put aside.                                               *)
LEMMA PutAside ==
    ASSUME Emptied(TRUE)
    PROVE  MemIInv'
BY DEF Emptied, MemIInv, MemTypeOK, StoresAgree, NoneSeen

(* One commit written to both logs.                                         *)
LEMMA SaveBoth ==
    ASSUME IInv, MemIInv, ~parted, NEW t \in Timeline, NEW w \in Int,
           NEW x \in Cmds \cup {NoCmd}, Save(t, w, x), appendLog(t, x)
    PROVE  /\ logs' \in Seq(LogEntry)
           /\ Len(logs') <= LogMax
           /\ Ends(logs', log')
<1> DEFINE e == [timeline |-> t, cmdId |-> x]
<1>1. e \in LogEntry
  BY DEF LogEntry
<1>2. logs \in Seq(LogEntry) /\ log \in Seq(LogEntry) /\ Ends(logs, log)
  BY Compared
<1>3. Len(logs) <= LogMax
  BY Compared DEF LogsBounded
<1>4. log' \in Retained(Append(log, e))
  BY DEF Save, LogTl
<1>5. logs' = IF Len(Append(logs, e)) > LogMax THEN Tail(Append(logs, e))
                                               ELSE Append(logs, e)
  BY DEF appendLog
<1> HIDE DEF e
<1> QED
  BY <1>1, <1>2, <1>3, <1>4, <1>5, AppendBoth

(* A record is found in both stores or in neither, but for its last instant.*)
LEMMA SameRecord ==
    ASSUME IInv, MemIInv, ~parted, NEW c \in Cmds, ~LastInstant(c)
    PROVE  /\ Unexpired(issued[c]) \in [Cmds -> Nat]
           /\ Recorded(c) <=> issued[c].hasId /\ Unexpired(issued[c])[c] # 0
           /\ \A x \in Cmds : IF Unexpired(issued[c])[x] = 0
                              THEN cmdRec[x] <= now
                              ELSE Unexpired(issued[c])[x] = cmdRec[x]
<1> DEFINE u == Unexpired(issued[c])
<1>1. /\ cmdSeen \in [Cmds -> Nat] /\ cmdRec \in [Cmds -> Nat] /\ now \in Nat
      /\ \A x \in Cmds : IF cmdSeen[x] = 0 THEN cmdRec[x] <= now
                                           ELSE cmdSeen[x] = cmdRec[x]
  BY Compared DEF SeenAsRecorded
<1>2. u \in [Cmds -> Nat]
  BY <1>1 DEF Unexpired
<1>3. \A x \in Cmds : u[x] = IF issued[c].hasId /\ cmdSeen[x] <= now THEN 0
                                                                    ELSE cmdSeen[x]
  BY DEF Unexpired
<1> HIDE DEF u
<1>4. \A x \in Cmds : IF u[x] = 0 THEN cmdRec[x] <= now ELSE u[x] = cmdRec[x]
  <2> TAKE x \in Cmds
  <2>1. /\ cmdSeen[x] \in Nat /\ cmdRec[x] \in Nat
        /\ IF cmdSeen[x] = 0 THEN cmdRec[x] <= now ELSE cmdSeen[x] = cmdRec[x]
        /\ \/ u[x] = 0 /\ cmdSeen[x] <= now
           \/ u[x] = cmdSeen[x]
    BY <1>1, <1>3
  <2> QED
    BY <2>1, <1>1
<1>5. Recorded(c) <=> issued[c].hasId /\ u[c] # 0
  <2>1. CASE ~issued[c].hasId
    BY <2>1 DEF Recorded
  <2>2. CASE issued[c].hasId
    <3>1. cmdRec[c] # now
      BY <2>2 DEF LastInstant
    <3>2. /\ cmdSeen[c] \in Nat /\ cmdRec[c] \in Nat
          /\ IF cmdSeen[c] = 0 THEN cmdRec[c] <= now ELSE cmdSeen[c] = cmdRec[c]
          /\ u[c] = IF cmdSeen[c] <= now THEN 0 ELSE cmdSeen[c]
      BY <2>2, <1>1, <1>3
    <3>3. cmdRec[c] >= now <=> u[c] # 0
      BY <3>1, <3>2, <1>1
    <3> QED
      BY <3>3, <2>2 DEF Recorded
  <2> QED
    BY <2>1, <2>2
<1> QED
  BY <1>2, <1>4, <1>5 DEF u

(* The answer both stores give to one execution of a command.               *)
LEMMA MemControlStep ==
    ASSUME IInv, IInv', MemIInv, NEW c \in Cmds, Control(c),
           Beside(LastInstant(c), MemControl(c))
    PROVE  MemIInv'
<1>1. CASE parted \/ LastInstant(c)
  BY <1>1, PutAside DEF Beside
<1>2. CASE ~(parted \/ LastInstant(c))
  <2> DEFINE p == issued[c]
             u == Unexpired(p)
             kind == OutcomeOf(c)
             x == IF p.hasId THEN c ELSE NoCmd
  <2>1. ~parted /\ ~LastInstant(c) /\ MemControl(c) /\ parted' = parted
    BY <1>2 DEF Beside
  <2>2. /\ rooms = tl /\ outcome = answer /\ now \in Nat \ {0}
        /\ logs \in Seq(LogEntry) /\ log \in Seq(LogEntry)
        /\ cmdSeen \in [Cmds -> Nat] /\ cmdRec \in [Cmds -> Nat]
        /\ SeenAsRecorded /\ LogsBounded /\ Ends(logs, log)
    BY <2>1, Compared
  <2>3. /\ u \in [Cmds -> Nat]
        /\ Recorded(c) <=> p.hasId /\ u[c] # 0
        /\ \A y \in Cmds : IF u[y] = 0 THEN cmdRec[y] <= now ELSE u[y] = cmdRec[y]
    BY <2>1, SameRecord
  <2>4. p \in SyncControl /\ p.hasId \in BOOLEAN /\ answer \in [Cmds -> Answers]
    BY DEF Control, ControlMissing, ControlDuplicate, ControlFenced, ControlCommitted,
           Deliverable, IInv, TypeOK, SyncControl
  <2>5. parted' \in BOOLEAN /\ log' \in Seq(LogEntry)
    BY <2>1 DEF MemIInv, MemTypeOK, IInv, TypeOK
  <2>6. kind = IF tl = NoTimeline THEN "missing"
               ELSE IF Recorded(c) THEN "dup"
               ELSE IF StaleVideo(p) THEN "fenced"
               ELSE "committed"
    <3> HIDE DEF u
    <3>1. kind = IF rooms = NoTimeline THEN "missing"
                 ELSE IF p.hasId /\ u[c] # 0 THEN "dup"
                 ELSE IF /\ p.forVideoId # Unfenced
                         /\ p.intent # "set-video"
                         /\ rooms.videoId # p.forVideoId THEN "fenced"
                 ELSE "committed"
      BY DEF OutcomeOf, u
    <3> QED
      BY <3>1, <2>2, <2>3 DEF StaleVideo
  <2>7. outcome' = [outcome EXCEPT ![c] = kind]
    BY <2>1 DEF MemControl
  <2>8. CASE ControlMissing(c) \/ ControlDuplicate(c) \/ ControlFenced(c)
    <3>1. /\ kind # "committed" /\ answer' = [answer EXCEPT ![c] = kind]
          /\ UNCHANGED <<now, tl, log, cmdRec>>
      BY <2>6, <2>8
      DEF ControlMissing, ControlDuplicate, ControlFenced, Answer, storeVars
    <3>2. (cmdSeen' = cmdSeen \/ cmdSeen' = u) /\ rooms' = rooms /\ logs' = logs
      BY <2>1, <3>1 DEF MemControl
    <3>3. cmdSeen' \in [Cmds -> Nat] /\ SeenAsRecorded'
      <4> HIDE DEF u
      <4> QED
        BY <2>2, <2>3, <3>1, <3>2 DEF SeenAsRecorded
    <3>4. LogsBounded' /\ Ends(logs', log')
      BY <2>2, <3>1, <3>2 DEF LogsBounded
    <3> QED
      BY <2>2, <2>5, <2>7, <3>1, <3>2, <3>3, <3>4, StillCompared
  <2>9. CASE ControlCommitted(c)
    <3>1. /\ kind = "committed" /\ answer' = [answer EXCEPT ![c] = kind]
          /\ tl # NoTimeline /\ now' = now
          /\ cmdRec' = IF p.hasId THEN [cmdRec EXCEPT ![c] = now + DedupTtl] ELSE cmdRec
          /\ Save(Restamp(p), window, x)
      BY <2>6, <2>9 DEF ControlCommitted, Answer, RecordCmd
    <3>2. tl \in Timeline /\ tl.stampedAt <= now
      BY <3>1, LiveFacts
    <3>3. /\ Restamp(p) \in Timeline
          /\ Restamp(p) = [applyControl(tl, p, now) EXCEPT !.seq = tl.seq + 1]
      BY <2>2, <2>4, <3>2, RestampAgrees, RestampLegal
    <3>4. /\ cmdSeen' = IF p.hasId THEN [u EXCEPT ![c] = now + DedupTtl] ELSE cmdSeen
          /\ rooms' = Restamp(p)
          /\ appendLog(Restamp(p), x)
      BY <2>1, <2>2, <3>1, <3>3 DEF MemControl
    <3>5. tl' = Restamp(p)
      BY <3>1 DEF Save
    <3>6. logs' \in Seq(LogEntry) /\ Len(logs') <= LogMax /\ Ends(logs', log')
      BY <2>1, <3>1, <3>3, <3>4, SaveBoth DEF IInv, TypeOK
    <3>7. LogsBounded'
      BY <3>3, <3>5, <3>6, NoTimelineAssumption DEF LogsBounded
    <3>8. cmdSeen' \in [Cmds -> Nat] /\ SeenAsRecorded'
      <4>1. now + DedupTtl \in Nat \ {0}
        BY <2>2, BoundsAssumption
      <4> HIDE DEF u
      <4>2. cmdSeen' \in [Cmds -> Nat]
        BY <2>2, <2>3, <3>4, <4>1
      <4>3. CASE p.hasId
        BY <2>2, <2>3, <3>1, <3>4, <4>1, <4>3 DEF SeenAsRecorded
      <4>4. CASE ~p.hasId
        BY <2>2, <3>1, <3>4, <4>4 DEF SeenAsRecorded
      <4> QED
        BY <4>2, <4>3, <4>4
    <3> QED
      BY <2>2, <2>5, <2>7, <3>1, <3>4, <3>5, <3>6, <3>7, <3>8, StillCompared
  <2> QED
    BY <2>8, <2>9 DEF Control
<1> QED
  BY <1>1, <1>2

(* A commit without a command id, made by both.                             *)
LEMMA MemCommitStep ==
    ASSUME IInv, IInv', MemIInv, ~parted, parted' = parted,
           NEW t \in Timeline, NEW w \in Int, Save(t, w, NoCmd), rooms' = t,
           appendLog(t, NoCmd), UNCHANGED <<now, cmdRec, answer, cmdSeen, outcome>>
    PROVE  MemIInv'
<1>1. /\ rooms = tl /\ outcome = answer /\ cmdSeen \in [Cmds -> Nat]
      /\ SeenAsRecorded
  BY Compared
<1>2. logs' \in Seq(LogEntry) /\ Len(logs') <= LogMax /\ Ends(logs', log')
  BY SaveBoth
<1>3. tl' = t
  BY DEF Save
<1>4. LogsBounded'
  BY <1>2, <1>3, NoTimelineAssumption DEF LogsBounded
<1>5. SeenAsRecorded'
  BY <1>1 DEF SeenAsRecorded
<1>6. parted' \in BOOLEAN /\ log' \in Seq(LogEntry) /\ cmdSeen' \in [Cmds -> Nat]
  BY <1>1 DEF MemIInv, MemTypeOK, IInv, TypeOK
<1> QED
  BY <1>1, <1>2, <1>3, <1>4, <1>5, <1>6, StillCompared

LEMMA MemSnapshotStep ==
    ASSUME IInv, IInv', MemIInv, ApplySnapshot, Beside(FALSE, MemSnapshot)
    PROVE  MemIInv'
<1>1. CASE parted
  BY <1>1, PutAside DEF Beside
<1>2. CASE ~parted
  <2>1. MemSnapshot /\ parted' = parted
    BY <1>2 DEF Beside
  <2>2. /\ tl # NoTimeline /\ tl.isPlaying
        /\ Save(Reanchored, SweepWindow, NoCmd)
        /\ UNCHANGED <<now, cmdRec, answer>>
    BY DEF ApplySnapshot
  <2>3. tl \in Timeline /\ now \in Nat /\ tl.stampedAt <= now
    BY <2>2, LiveFacts
  <2>4. Reanchored \in Timeline
    BY <2>2, <2>3, ReanchorLegal
  <2>5. Reanchored = [snapshot(tl, now) EXCEPT !.seq = tl.seq + 1]
    BY <2>2, <2>3, ReanchorAgrees
  <2>6. rooms = tl
    BY <1>2, Compared
  <2>7. /\ rooms' = Reanchored /\ appendLog(Reanchored, NoCmd)
        /\ UNCHANGED <<cmdSeen, outcome>>
    BY <2>1, <2>5, <2>6 DEF MemSnapshot
  <2>8. SweepWindow \in Int
    BY <2>3, PeriodAssumption, DivIsNat DEF SweepWindow
  <2> QED
    BY <1>2, <2>1, <2>2, <2>4, <2>7, <2>8, MemCommitStep
<1> QED
  BY <1>1, <1>2

LEMMA MemInitStep ==
    ASSUME IInv, IInv', MemIInv, InitRoom,
           Beside(FALSE, MemInitRoom(tl'.videoId, tl'.mediaTime))
    PROVE  MemIInv'
<1>1. CASE parted
  BY <1>1, PutAside DEF Beside
<1>2. CASE ~parted
  <2>1. MemInitRoom(tl'.videoId, tl'.mediaTime) /\ parted' = parted
    BY <1>2 DEF Beside
  <2>2. PICK v \in Videos, pos \in Positions : Save(Birth(v, pos), -1, NoCmd)
    BY DEF InitRoom
  <2>3. UNCHANGED <<now, cmdRec, answer>>
    BY DEF InitRoom
  <2>4. now \in Nat /\ pos \in Nat
    BY PositionsAssumption DEF IInv, TypeOK
  <2>5. Birth(v, pos) \in Timeline
    BY <2>4 DEF Birth, Timeline, Reasons
  <2>6. tl' = Birth(v, pos) /\ tl'.videoId = v /\ tl'.mediaTime = pos
    BY <2>2 DEF Save, Birth
  <2>7. /\ rooms' = Birth(v, pos) /\ appendLog(Birth(v, pos), NoCmd)
        /\ UNCHANGED <<cmdSeen, outcome>>
    BY <2>1, <2>6 DEF MemInitRoom, Birth
  <2> QED
    BY <1>2, <2>1, <2>2, <2>3, <2>5, <2>7, MemCommitStep
<1> QED
  BY <1>1, <1>2

LEMMA MemClearStep ==
    ASSUME IInv, IInv', MemIInv, Clear, Beside(RecordsLive, MemClear)
    PROVE  MemIInv'
<1>1. CASE parted \/ RecordsLive
  <2>1. Emptied(TRUE)
    BY <1>1, Zenon DEF Beside
  <2> QED
    BY <2>1, PutAside
<1>2. CASE ~(parted \/ RecordsLive)
  <2>1. ~parted /\ ~RecordsLive /\ MemClear /\ parted' = parted
    BY <1>2 DEF Beside
  <2>2. tl' = NoTimeline /\ UNCHANGED <<now, log, cmdRec, answer>>
    BY DEF Clear
  <2>3. outcome = answer /\ cmdRec \in [Cmds -> Nat] /\ now \in Nat
    BY <2>1, Compared
  <2>4. /\ rooms' = NoTimeline /\ logs' = <<>> /\ outcome' = outcome
        /\ cmdSeen' = [c \in Cmds |-> 0]
    BY <2>1 DEF MemClear, NoneSeen
  <2>5. SeenAsRecorded'
    BY <2>1, <2>2, <2>3, <2>4 DEF RecordsLive, SeenAsRecorded
  <2>6. parted' \in BOOLEAN /\ log' \in Seq(LogEntry)
    BY <2>1 DEF MemIInv, MemTypeOK, IInv, TypeOK
  <2>7. LogsBounded' /\ Ends(logs', log') /\ logs' \in Seq(LogEntry)
    BY <2>4, <2>6, LogMaxAssumption DEF LogsBounded, Ends
  <2>8. cmdSeen' \in [Cmds -> Nat]
    BY <2>4
  <2> QED
    BY <2>2, <2>3, <2>4, <2>5, <2>6, <2>7, <2>8, StillCompared
<1> QED
  BY <1>1, <1>2

LEMMA MemFlushStep ==
    ASSUME IInv, IInv', Flush, Emptied(FALSE)
    PROVE  MemIInv'
<1>1. /\ tl' = NoTimeline /\ log' = <<>> /\ now' = now
      /\ cmdRec' = [c \in Cmds |-> 0] /\ answer' = [c \in Cmds |-> "none"]
  BY DEF Flush
<1>2. /\ rooms' = NoTimeline /\ logs' = <<>> /\ parted' = FALSE
      /\ cmdSeen' = [c \in Cmds |-> 0] /\ outcome' = [c \in Cmds |-> "none"]
  BY DEF Emptied, NoneSeen, NoOutcome
<1>3. now \in Nat
  BY DEF IInv, TypeOK
<1>4. SeenAsRecorded'
  BY <1>1, <1>2, <1>3 DEF SeenAsRecorded
<1>5. LogsBounded' /\ Ends(logs', log')
  BY <1>1, <1>2, LogMaxAssumption DEF LogsBounded, Ends
<1>6. logs' \in Seq(LogEntry) /\ log' \in Seq(LogEntry) /\ cmdSeen' \in [Cmds -> Nat]
  BY <1>1, <1>2
<1> QED
  BY <1>1, <1>2, <1>4, <1>5, <1>6, StillCompared

LEMMA MemTickStep ==
    ASSUME IInv, IInv', MemIInv, Tick,
           Beside(RoomExpires, UNCHANGED <<rooms, logs, cmdSeen, outcome>>)
    PROVE  MemIInv'
<1>1. CASE parted \/ RoomExpires
  <2>1. Emptied(TRUE)
    BY <1>1, Zenon DEF Beside
  <2> QED
    BY <2>1, PutAside
<1>2. CASE ~(parted \/ RoomExpires)
  <2>1. /\ ~parted /\ ~RoomExpires /\ parted' = parted
        /\ UNCHANGED <<rooms, logs, cmdSeen, outcome>>
    BY <1>2 DEF Beside
  <2>2. /\ now' = now + 1 /\ UNCHANGED <<cmdRec, answer>>
        /\ \/ tl' = NoTimeline /\ log' = <<>>
           \/ UNCHANGED <<tl, log>>
    BY DEF Tick
  <2>3. /\ rooms = tl /\ outcome = answer /\ now \in Nat /\ logs \in Seq(LogEntry)
        /\ cmdSeen \in [Cmds -> Nat] /\ cmdRec \in [Cmds -> Nat]
        /\ SeenAsRecorded /\ LogsBounded /\ Ends(logs, log)
    BY <2>1, Compared
  <2>4. tl' = tl
    BY <2>1, <2>2 DEF RoomExpires
  <2>5. SeenAsRecorded'
    BY <2>1, <2>2, <2>3 DEF SeenAsRecorded
  <2>6. LogsBounded'
    BY <2>1, <2>3, <2>4 DEF LogsBounded
  <2>7. Ends(logs', log')
    <3>1. CASE tl' = NoTimeline /\ log' = <<>>
      BY <3>1, <2>1, <2>3, <2>4 DEF LogsBounded, Ends
    <3>2. CASE UNCHANGED <<tl, log>>
      BY <3>2, <2>1, <2>3
    <3> QED
      BY <3>1, <3>2, <2>2
  <2>8. parted' \in BOOLEAN /\ log' \in Seq(LogEntry)
    BY <2>1 DEF MemIInv, MemTypeOK, IInv, TypeOK
  <2> QED
    BY <2>1, <2>2, <2>3, <2>4, <2>5, <2>6, <2>7, <2>8, StillCompared
<1> QED
  BY <1>1, <1>2

(* A store left alone, and a call of both.                                  *)
LEMMA MemIdle ==
    ASSUME IInv', MemIInv, UNCHANGED memVars, UNCHANGED <<now, tl, log, cmdRec, answer>>
    PROVE  MemIInv'
<1>1. UNCHANGED <<rooms, logs, cmdSeen, outcome, parted>>
  BY DEF memVars
<1> QED
  BY <1>1 DEF MemIInv, MemTypeOK, StoresAgree, SeenAsRecorded, LogsBounded

LEMMA MemStep ==
    ASSUME IInv, MemIInv, MemNext
    PROVE  [Next]_vars /\ IInv' /\ MemIInv'
<1>1. Next
  <2>1. ASSUME NEW c \in Cmds, Control(c) PROVE Next
    BY <2>1 DEF Control, Next
  <2> QED
    BY <2>1 DEF MemNext, Next
<1>2. IInv'
  BY <1>1, NextIInv
<1>3. MemIInv'
  <2>1. ASSUME NEW c \in Cmds, Issue(c), UNCHANGED memVars PROVE MemIInv'
    <3>1. UNCHANGED <<now, tl, log, cmdRec, answer>>
      BY <2>1 DEF Issue, storeVars
    <3> QED
      BY <1>2, <2>1, <3>1, MemIdle
  <2>2. ASSUME NEW c \in Cmds, Control(c), Beside(LastInstant(c), MemControl(c))
        PROVE  MemIInv'
    BY <1>2, <2>2, MemControlStep
  <2>3. CASE ApplySnapshot /\ Beside(FALSE, MemSnapshot)
    BY <1>2, <2>3, MemSnapshotStep
  <2>4. CASE InitRoom /\ Beside(FALSE, MemInitRoom(tl'.videoId, tl'.mediaTime))
    BY <1>2, <2>4, MemInitStep
  <2>5. CASE Clear /\ Beside(RecordsLive, MemClear)
    BY <1>2, <2>5, MemClearStep
  <2>6. CASE Flush /\ Emptied(FALSE)
    BY <1>2, <2>6, MemFlushStep
  <2>7. CASE Tick /\ Beside(RoomExpires, UNCHANGED <<rooms, logs, cmdSeen, outcome>>)
    BY <1>2, <2>7, MemTickStep
  <2> QED
    BY <2>1, <2>2, <2>3, <2>4, <2>5, <2>6, <2>7 DEF MemNext
<1> QED
  BY <1>1, <1>2, <1>3

LEMMA EmptyAgrees ==
    ASSUME Init, MemEmpty, parted \in BOOLEAN
    PROVE  IInv /\ MemIInv
<1>1. IInv
  BY InitIInv
<1>2. /\ rooms = tl /\ outcome = answer /\ logs = <<>> /\ log = <<>>
      /\ cmdSeen = [c \in Cmds |-> 0] /\ cmdRec = [c \in Cmds |-> 0] /\ now = 1
  BY DEF Init, MemEmpty, NoneSeen, NoOutcome
<1>3. MemTypeOK /\ SeenAsRecorded /\ LogsBounded
  BY <1>2, LogMaxAssumption DEF MemTypeOK, SeenAsRecorded, LogsBounded
<1>4. StoresAgree
  <2>1. logs \in Seq(LogEntry) /\ log \in Seq(LogEntry) /\ Len(logs) <= Len(log)
    BY <1>2
  <2>2. Ends(logs, log)
    BY <1>2 DEF Ends
  <2>3. logs = SubSeq(log, Len(log) - Len(logs) + 1, Len(log))
    BY <2>1, <2>2, EndsIsSubSeq
  <2> QED
    BY <1>2, <2>1, <2>3 DEF StoresAgree
<1> QED
  BY <1>1, <1>3, <1>4 DEF MemIInv

(* InMemoryRoomStateStore and the Lua scripts, called alike, hold the same  *)
(* timeline, give the same answers and log the same commits until they part.*)
THEOREM MemoryMirrors == MemSpec => []StoresAgree
<1> DEFINE J == IInv /\ MemIInv
<1>1. MemInit => J
  BY EmptyAgrees DEF MemInit
<1>2. J /\ [MemNext]_<<vars, memVars>> => J'
  <2> SUFFICES ASSUME J, [MemNext]_<<vars, memVars>> PROVE J'
    OBVIOUS
  <2>1. CASE MemNext
    BY <2>1, MemStep
  <2>2. CASE UNCHANGED <<vars, memVars>>
    <3>1. IInv'
      BY <2>2, NextIInv
    <3>2. UNCHANGED <<now, tl, log, cmdRec, answer>> /\ UNCHANGED memVars
      BY <2>2 DEF vars
    <3> QED
      BY <3>1, <3>2, MemIdle
  <2> QED
    BY <2>1, <2>2
<1>3. J => StoresAgree
  BY DEF MemIInv
<1> QED
  BY <1>1, <1>2, <1>3, PTL DEF MemSpec

-----------------------------------------------------------------------------
(* The audit of a room in use.                                              *)

(* A timeline that comes back is a new one.                                 *)
LEMMA ReturnIsNew ==
    ASSUME IInv, Next, tl = NoTimeline, tl' # NoTimeline
    PROVE  latest' # latest
<1>1. InitRoom
  BY DEF Next, Issue, storeVars, ControlMissing, ControlDuplicate, ControlFenced,
         ControlCommitted, ApplySnapshot, Clear, Flush, Tick
<1>2. PICK v \in Videos, pos \in Positions : latest' = Birth(v, pos)
  BY <1>1 DEF InitRoom, Save
<1>3. now \in Nat /\ pos \in Nat
  BY PositionsAssumption DEF IInv, TypeOK
<1>4. latest' \in Timeline /\ latest'.storeEpoch = now
  BY <1>2, <1>3 DEF Birth, Timeline, Reasons
<1>5. latest # NoTimeline => latest.storeEpoch < now
  BY DEF IInv, StampsInPast
<1> QED
  BY <1>3, <1>4, <1>5, NoTimelineAssumption

(* isNewer is a strict order.                                               *)
LEMMA NewerIsStrict ==
    ASSUME NEW a \in Timeline, NEW b \in Timeline, NEW c \in Timeline, isNewer(a, b)
    PROVE  /\ a # b
           /\ isNewer(b, c) => isNewer(a, c)
BY NoTimelineAssumption DEF isNewer, Timeline

(* The room goes on between two reads.                                      *)
LEMMA AuditedRoomStep ==
    ASSUME AuditIInv, RoomGoesOn
    PROVE  AuditIInv'
<1>1. /\ auditing /\ Next /\ UNCHANGED <<memVars, auditing>>
      /\ audit' = [audit EXCEPT !.changed = @ \/ (audit.at \in {"tail", "after"} /\ tl' # tl)]
  BY DEF RoomGoesOn
<1>2. IInv /\ IInv' /\ AuditTypeOK /\ NoFalseAlarm
  BY <1>1, NextIInv DEF AuditIInv
<1>3. /\ audit'.at = audit.at /\ audit'.before = audit.before
      /\ audit'.newest = audit.newest /\ audit'.broken = audit.broken
      /\ audit'.verdict = audit.verdict
      /\ audit'.changed = (audit.changed \/ (audit.at \in {"tail", "after"} /\ tl' # tl))
      /\ auditing' = auditing
  BY <1>1, <1>2 DEF AuditTypeOK
<1>4. AuditTypeOK' /\ NoFalseAlarm'
  BY <1>1, <1>2, <1>3 DEF AuditTypeOK, NoFalseAlarm
<1>5. MemIInv' /\ parted'
  <2>1. parted /\ MemIInv
    BY <1>1 DEF AuditIInv, AuditedOrCompared
  <2>2. UNCHANGED <<rooms, logs, cmdSeen, outcome, parted>>
    BY <1>1 DEF memVars
  <2> QED
    BY <2>1, <2>2 DEF MemIInv, MemTypeOK, StoresAgree
<1>6. ASSUME audit.at \in {"tail", "after"}
      PROVE  /\ audit.before \in Timeline /\ latest \in Timeline /\ latest' \in Timeline
             /\ latest' = latest \/ isNewer(latest', audit.before)
             /\ latest' = audit.before \/ isNewer(latest', audit.before)
  <2>1. /\ audit.before \in Timeline /\ latest \in Timeline
        /\ latest = audit.before \/ isNewer(latest, audit.before)
    BY <1>2, <1>6 DEF AuditIInv, BeforeIsPast, AuditTypeOK, IInv, TypeOK
  <2>2. CASE latest' = latest
    BY <2>1, <2>2
  <2>3. CASE latest' # latest
    <3>1. latest' \in Timeline /\ isNewer(latest', latest)
      BY <1>1, <1>2, <2>3, CommitIsNewer
    <3>2. isNewer(latest', audit.before)
      BY <2>1, <3>1, NewerIsStrict
    <3> QED
      BY <2>1, <3>1, <3>2
  <2> QED
    BY <2>2, <2>3
<1>7. BeforeIsPast'
  <2> SUFFICES ASSUME audit.at \in {"tail", "after"}
               PROVE  /\ audit.before # NoTimeline /\ latest' # NoTimeline
                      /\ latest' = audit.before \/ isNewer(latest', audit.before)
                      /\ ~audit'.changed => tl' = audit.before
    BY <1>3 DEF BeforeIsPast
  <2>1. ~audit'.changed => tl' = audit.before
    BY <1>3 DEF AuditIInv, BeforeIsPast
  <2> QED
    BY <1>6, <2>1, NoTimelineAssumption
<1>8. NewestMatches'
  <2> SUFFICES ASSUME audit.at = "after", tl' = audit.before
               PROVE  entryMatchesLive(audit.newest, tl')
    BY <1>3 DEF NewestMatches
  <2>1. tl' \in Timeline /\ tl' # NoTimeline
    BY <1>6, NoTimelineAssumption
  <2>2. latest' = tl'
    BY <1>2, <2>1 DEF IInv, LiveIsLatest
  <2>3. latest' = latest
    <3> SUFFICES ASSUME isNewer(latest', audit.before) PROVE FALSE
      BY <1>6
    <3> QED
      BY <1>6, <2>2, NewerIsStrict
  <2>4. tl # NoTimeline
    BY <1>1, <1>2, <2>1, <2>3, ReturnIsNew
  <2>5. tl = tl'
    BY <1>2, <2>2, <2>3, <2>4 DEF IInv, LiveIsLatest
  <2> QED
    BY <2>5 DEF AuditIInv, NewestMatches
<1> QED
  BY <1>1, <1>2, <1>4, <1>5, <1>7, <1>8 DEF AuditIInv, AuditedOrCompared

(* A read changes nothing but the pass.                                     *)
LEMMA ReadLeavesStores ==
    ASSUME AuditIInv, auditing, UNCHANGED <<vars, memVars, auditing>>
    PROVE  IInv' /\ MemIInv' /\ AuditedOrCompared' /\ auditing' \in BOOLEAN
<1>1. IInv'
  BY NextIInv DEF AuditIInv
<1>2. UNCHANGED <<now, tl, log, cmdRec, answer>> /\ UNCHANGED memVars
  BY DEF vars
<1>3. MemIInv'
  BY <1>1, <1>2, MemIdle DEF AuditIInv
<1>4. parted' = parted
  BY DEF memVars
<1> QED
  BY <1>1, <1>3, <1>4 DEF AuditIInv, AuditTypeOK, AuditedOrCompared

(* A verdict that is no false alarm ends the pass.                          *)
LEMMA SaysStep ==
    ASSUME AuditIInv, auditing, NEW v \in {"match", "nothing", "unstable"}, Says(v),
           UNCHANGED <<vars, memVars, auditing>>
    PROVE  AuditIInv'
<1>1. audit' = [at |-> "done", scanned |-> NoTimeline, newest |-> NoTimeline,
                before |-> NoTimeline, attempt |-> 0, verdict |-> v,
                changed |-> FALSE, broken |-> audit.broken]
  BY DEF Says, Pass
<1>2. audit.broken = FALSE
  BY DEF AuditIInv, AuditTypeOK, NoFalseAlarm
<1>3. AuditTypeOK'
  <2>1. auditing' \in BOOLEAN
    BY ReadLeavesStores
  <2>2. 0 \in 0..Attempts-1
    BY DEF Attempts
  <2> QED
    BY <1>1, <1>2, <2>1, <2>2 DEF AuditTypeOK
<1>4. BeforeIsPast' /\ NewestMatches' /\ NoFalseAlarm'
  BY <1>1, <1>2 DEF BeforeIsPast, NewestMatches, NoFalseAlarm
<1> QED
  BY <1>3, <1>4, ReadLeavesStores DEF AuditIInv

LEMMA ReadLogStep ==
    ASSUME AuditIInv, ReadLog
    PROVE  AuditIInv'
<1>1. /\ auditing /\ audit.at = "scan" /\ log # <<>> /\ UNCHANGED <<vars, memVars, auditing>>
      /\ audit' = [audit EXCEPT !.at = "before", !.scanned = log[Len(log)],
                                !.broken = ~checkChain(log)]
  BY DEF ReadLog, Read
<1>2. checkChain(log) /\ log \in Seq(LogEntry) /\ AuditTypeOK /\ NoFalseAlarm
  BY DEF AuditIInv, IInv, ChainHolds, TypeOK
<1>3. log[Len(log)] \in LogEntry
  BY <1>1, <1>2
<1>4. audit' = [audit EXCEPT !.at = "before", !.scanned = log[Len(log)], !.broken = FALSE]
  BY <1>1, <1>2
<1>5. AuditTypeOK' /\ BeforeIsPast' /\ NewestMatches' /\ NoFalseAlarm'
  BY <1>1, <1>2, <1>3, <1>4, ReadLeavesStores
  DEF AuditTypeOK, BeforeIsPast, NewestMatches, NoFalseAlarm
<1> QED
  BY <1>1, <1>5, ReadLeavesStores DEF AuditIInv

LEMMA ReadBeforeStep ==
    ASSUME AuditIInv, ReadBefore
    PROVE  AuditIInv'
<1>1. auditing /\ UNCHANGED <<vars, memVars, auditing>> /\ UNCHANGED <<tl, latest>>
  BY DEF ReadBefore, Read, vars
<1>2. CASE tl = NoTimeline
  <2>1. Says("nothing")
    BY <1>2 DEF ReadBefore
  <2> QED
    BY <1>1, <2>1, SaysStep
<1>3. CASE tl # NoTimeline
  <2>1. audit' = [audit EXCEPT !.at = "tail", !.before = tl, !.changed = FALSE]
    BY <1>3 DEF ReadBefore
  <2>2. tl \in Timeline /\ latest = tl /\ AuditTypeOK /\ NoFalseAlarm
    BY <1>3 DEF AuditIInv, IInv, TypeOK, LiveIsLatest
  <2>3. AuditTypeOK' /\ BeforeIsPast' /\ NewestMatches' /\ NoFalseAlarm'
    BY <1>1, <1>3, <2>1, <2>2, ReadLeavesStores
    DEF AuditTypeOK, BeforeIsPast, NewestMatches, NoFalseAlarm
  <2> QED
    BY <1>1, <2>3, ReadLeavesStores DEF AuditIInv
<1> QED
  BY <1>2, <1>3

LEMMA ReadTailStep ==
    ASSUME AuditIInv, ReadTail
    PROVE  AuditIInv'
<1> DEFINE e == IF log = <<>> THEN audit.scanned ELSE log[Len(log)]
<1>1. /\ auditing /\ audit.at = "tail" /\ UNCHANGED <<vars, memVars, auditing>>
      /\ UNCHANGED <<tl, latest>>
      /\ audit' = [audit EXCEPT !.at = "after", !.newest = e]
  BY DEF ReadTail, Read, vars
<1>2. /\ AuditTypeOK /\ NoFalseAlarm /\ BeforeIsPast
      /\ log \in Seq(LogEntry) /\ tl \in Timeline \cup {NoTimeline}
  BY DEF AuditIInv, IInv, TypeOK
<1>3. e \in LogEntry \cup {NoTimeline}
  BY <1>2 DEF AuditTypeOK
<1>4. tl # NoTimeline => e.timeline = tl
  BY DEF AuditIInv, IInv, LiveIsLatest
<1>5. tl # NoTimeline => entryMatchesLive(e, tl)
  BY <1>4 DEF entryMatchesLive, toTimeline
<1> HIDE DEF e
<1>6. /\ audit'.at = "after" /\ audit'.newest = e /\ audit'.before = audit.before
      /\ audit'.changed = audit.changed /\ audit'.broken = audit.broken
      /\ audit'.verdict = audit.verdict
  BY <1>1, <1>2 DEF AuditTypeOK
<1>7. AuditTypeOK'
  BY <1>1, <1>2, <1>3, ReadLeavesStores DEF AuditTypeOK
<1>8. BeforeIsPast' /\ NoFalseAlarm'
  BY <1>1, <1>2, <1>6 DEF BeforeIsPast, NoFalseAlarm
<1>9. NewestMatches'
  <2> SUFFICES ASSUME tl = audit.before
               PROVE  entryMatchesLive(e, tl)
    BY <1>1, <1>6 DEF NewestMatches
  <2>1. tl # NoTimeline
    BY <1>1, <1>2 DEF BeforeIsPast
  <2> QED
    BY <2>1, <1>5
<1> QED
  BY <1>1, <1>7, <1>8, <1>9, ReadLeavesStores DEF AuditIInv

(* The version read again decides: the same version is the same timeline,   *)
(* and it is the newest entry's; another one is a change that was noted.    *)
LEMMA ReadAfterStep ==
    ASSUME AuditIInv, ReadAfter
    PROVE  AuditIInv'
<1>1. auditing /\ audit.at = "after" /\ UNCHANGED <<vars, memVars, auditing>>
  BY DEF ReadAfter, Read
<1>2. /\ AuditTypeOK /\ NoFalseAlarm /\ audit.before \in Timeline
      /\ latest = audit.before \/ isNewer(latest, audit.before)
      /\ ~audit.changed => tl = audit.before
      /\ tl = audit.before => entryMatchesLive(audit.newest, tl)
  BY <1>1 DEF AuditIInv, BeforeIsPast, NewestMatches, AuditTypeOK
<1>3. CASE Stable
  <2>1. /\ tl # NoTimeline /\ tl.storeEpoch = audit.before.storeEpoch
        /\ tl.seq = audit.before.seq
    BY <1>3 DEF Stable
  <2>2. tl = latest /\ tl \in Timeline
    BY <2>1 DEF AuditIInv, IInv, TypeOK, LiveIsLatest
  <2>3. tl = audit.before
    BY <1>2, <2>1, <2>2, NoTimelineAssumption DEF isNewer, Timeline
  <2>4. Says("match")
    BY <1>2, <1>3, <2>3 DEF ReadAfter
  <2> QED
    BY <1>1, <2>4, SaysStep
<1>4. CASE ~Stable
  <2>1. audit.changed
    <3> SUFFICES ASSUME ~audit.changed PROVE FALSE
      OBVIOUS
    <3>1. tl = audit.before /\ tl # NoTimeline
      BY <1>2, NoTimelineAssumption
    <3> QED
      BY <1>4, <3>1 DEF Stable
  <2>2. CASE audit.attempt + 1 = Attempts
    <3>1. Says("unstable")
      BY <1>4, <2>1, <2>2 DEF ReadAfter
    <3> QED
      BY <1>1, <3>1, SaysStep
  <2>3. CASE audit.attempt + 1 # Attempts
    <3>1. audit' = [at |-> "before", scanned |-> audit.scanned,
                    newest |-> NoTimeline, before |-> NoTimeline,
                    attempt |-> audit.attempt + 1, verdict |-> "none",
                    changed |-> FALSE, broken |-> audit.broken]
      BY <1>4, <2>1, <2>3 DEF ReadAfter, Pass
    <3>2. audit.attempt + 1 \in 0..Attempts-1
      BY <1>2, <2>3 DEF AuditTypeOK, Attempts
    <3>3. AuditTypeOK'
      BY <1>1, <1>2, <3>1, <3>2, ReadLeavesStores DEF AuditTypeOK
    <3>4. BeforeIsPast' /\ NewestMatches' /\ NoFalseAlarm'
      BY <1>2, <3>1 DEF BeforeIsPast, NewestMatches, NoFalseAlarm
    <3> QED
      BY <1>1, <3>3, <3>4, ReadLeavesStores DEF AuditIInv
  <2> QED
    BY <2>2, <2>3
<1> QED
  BY <1>3, <1>4

LEMMA InitAuditIInv == AuditInit => AuditIInv
<1> SUFFICES ASSUME AuditInit PROVE AuditIInv
  OBVIOUS
<1>1. /\ Init /\ MemEmpty /\ auditing \in BOOLEAN /\ parted = auditing
      /\ audit = Pass("scan", "none")
  BY AuditsAssumption DEF AuditInit
<1>2. IInv /\ MemIInv
  BY <1>1, EmptyAgrees
<1>3. AuditTypeOK /\ AuditedOrCompared /\ BeforeIsPast /\ NewestMatches /\ NoFalseAlarm
  BY <1>1
  DEF AuditTypeOK, AuditedOrCompared, Pass, Attempts, BeforeIsPast, NewestMatches,
      NoFalseAlarm
<1> QED
  BY <1>1, <1>2, <1>3 DEF AuditIInv

LEMMA NextAuditIInv ==
    ASSUME AuditIInv, [AuditNext]_<<vars, memVars, auditVars>>
    PROVE  AuditIInv' /\ [Next]_vars
<1>1. CASE ~auditing /\ MemNext /\ UNCHANGED auditVars
  <2>1. [Next]_vars /\ IInv' /\ MemIInv'
    BY <1>1, MemStep DEF AuditIInv
  <2>2. UNCHANGED <<auditing, audit>> /\ ~auditing
    BY <1>1 DEF auditVars
  <2>3. audit.at = "scan"
    BY <2>2 DEF AuditIInv, AuditedOrCompared
  <2>4. AuditTypeOK' /\ AuditedOrCompared' /\ NoFalseAlarm'
    BY <2>2 DEF AuditIInv, AuditTypeOK, AuditedOrCompared, NoFalseAlarm
  <2>5. BeforeIsPast' /\ NewestMatches'
    BY <2>2, <2>3 DEF BeforeIsPast, NewestMatches
  <2> QED
    BY <2>1, <2>4, <2>5 DEF AuditIInv
<1>2. CASE ReadLog \/ ReadBefore \/ ReadTail \/ ReadAfter
  <2>1. AuditIInv'
    BY <1>2, ReadLogStep, ReadBeforeStep, ReadTailStep, ReadAfterStep
  <2>2. UNCHANGED vars
    BY <1>2 DEF ReadLog, ReadBefore, ReadTail, ReadAfter, Read
  <2> QED
    BY <2>1, <2>2
<1>3. CASE RoomGoesOn
  <2>1. Next
    BY <1>3 DEF RoomGoesOn
  <2> QED
    BY <1>3, <2>1, AuditedRoomStep
<1>4. CASE UNCHANGED <<vars, memVars, auditVars>>
  <2>1. UNCHANGED vars /\ UNCHANGED memVars /\ UNCHANGED <<auditing, audit>>
    BY <1>4 DEF auditVars
  <2>2. UNCHANGED <<now, tl, log, cmdRec, answer, latest, parted>>
    BY <2>1 DEF vars, memVars
  <2>3. IInv'
    BY <2>1, NextIInv DEF AuditIInv
  <2>4. MemIInv'
    BY <2>1, <2>2, <2>3, MemIdle DEF AuditIInv
  <2>5. AuditTypeOK' /\ AuditedOrCompared' /\ NoFalseAlarm' /\ BeforeIsPast' /\ NewestMatches'
    BY <2>1, <2>2
    DEF AuditIInv, AuditTypeOK, AuditedOrCompared, NoFalseAlarm, BeforeIsPast,
        NewestMatches
  <2> QED
    BY <2>1, <2>3, <2>4, <2>5 DEF AuditIInv
<1> QED
  BY <1>1, <1>2, <1>3, <1>4 DEF AuditNext

(* The stores and the pass together, as the model is run.                   *)
THEOREM AuditInvariance == AuditSpec => []AuditIInv
<1>1. AuditInit => AuditIInv
  BY InitAuditIInv
<1>2. AuditIInv /\ [AuditNext]_<<vars, memVars, auditVars>> => AuditIInv'
  BY NextAuditIInv
<1> QED
  BY <1>1, <1>2, PTL DEF AuditSpec

(* The store of an audited room, and the one with a twin in memory, is      *)
(* LuaStore: every theorem about Spec holds of it.                          *)
THEOREM AuditedIsStore == AuditSpec => Spec
<1>1. AuditInit => Init
  BY DEF AuditInit
<1>2. AuditIInv /\ [AuditNext]_<<vars, memVars, auditVars>> => [Next]_vars
  BY NextAuditIInv
<1> QED
  BY <1>1, <1>2, AuditInvariance, PTL DEF AuditSpec, Spec

(* replay-check.ts reports neither a broken chain nor drift, and gives up   *)
(* only on a room that did change, whatever lands between two of its reads. *)
THEOREM AuditsTruly == AuditSpec => []NoFalseAlarm
<1>1. AuditIInv => NoFalseAlarm
  BY DEF AuditIInv
<1> QED
  BY <1>1, AuditInvariance, PTL

=============================================================================
