------------------------- MODULE ActorPlaneProofs -------------------------
(***************************************************************************)
(* Proofs about ActorPlane for every value of its constants: commits stay  *)
(* ordered, the owner's memory is the room's timeline, no update is lost   *)
(* and no command commits twice.                                           *)
(***************************************************************************)
EXTENDS ActorPlane, TLAPS

-----------------------------------------------------------------------------
(* The inductive invariant, part by part.                                   *)

(* An operation under way has a command, a lease it heard of, and a base    *)
(* once it commits; the queue runs one operation.                           *)
OpSound(i) ==
    /\ op[i].pc = "idle" => op[i] = Quiet
    /\ op[i].pc # "idle" => op[i].cmd \in Cmds
    /\ op[i].pc \in {"publish", "revoke", "retake", "read", "commit"} =>
          op[i].lease # NoLease
    /\ op[i].pc = "commit" => op[i].base # NoTimeline
    /\ sweeping[i] # NotOwner => op[i] = Quiet

QueueInv == \A i \in Instances : OpSound(i)

ScopeInv ==
    /\ scope \in Scopes
    /\ crashes \in Nat /\ failures \in Nat

(* Nobody knows of an epoch that has not been minted: a fresh lease         *)
(* outranks whatever is still in flight.                                    *)
Minted(i) ==
    /\ owned[i] # NotOwner => owned[i].fence <= epochs
    /\ op[i].lease # NoLease => op[i].lease.epoch <= epochs
    /\ sweeping[i] # NotOwner => sweeping[i].fence <= epochs
    /\ joining[i][2] <= epochs

EpochInv ==
    /\ lease # NoLease => lease.epoch <= epochs
    /\ latest # NoTimeline => latest.storeEpoch <= epochs
    /\ \A i \in Instances : Minted(i)

(* The key holds the last commit, or has gone with the lease or the day.    *)
LatestInv ==
    /\ tl # NoTimeline => latest = tl
    /\ lease # NoLease /\ latest # NoTimeline =>
          latest.storeEpoch <= lease.epoch
    /\ lease # NoLease /\ latest # NoTimeline /\ tl = NoTimeline
       /\ ~scope.keyExpires => latest.storeEpoch < lease.epoch

OrderInv ==
    /\ TypeOK
    /\ ScopeInv
    /\ QueueInv
    /\ EpochInv
    /\ LatestInv

(* A join that may still create the room finds no authority in memory.      *)
Creating(i) == joining[i][1] \in {"claim", "create"}
JoinInv ==
    \A i \in Instances :
        /\ joining[i] # NotJoining => i \in present
        /\ Creating(i) /\ tl = NoTimeline => owned[i] = NotOwner

(* What an instance that could commit now, or at its next claim, computes   *)
(* from is the room's timeline.                                             *)
TheRooms(t) == tl # NoTimeline => t = tl
MayCommit(i) == op[i].pc = "commit" /\ HoldsLease(i, op[i].lease.epoch)
MaySweep(i) == sweeping[i] # NotOwner /\ HoldsLease(i, sweeping[i].fence)
MayRead(i) ==
    /\ op[i].pc = "read" /\ HoldsLease(i, op[i].lease.epoch)
    /\ owned[i] # NotOwner
OwnsRoom(i) == owned[i] # NotOwner /\ HoldsLease(i, owned[i].fence)
MayClaim(i) == Overtaken(i) /\ (lease = NoLease \/ lease.owner = i)

Current(i) ==
    /\ MayCommit(i) => TheRooms(op[i].base)
    /\ MaySweep(i) => TheRooms(sweeping[i].timeline)
    /\ MayRead(i) \/ OwnsRoom(i) \/ MayClaim(i) => TheRooms(owned[i].timeline)
    /\ (MayCommit(i) \/ MaySweep(i)) /\ tl = NoTimeline => owned[i] # NotOwner

(* While nobody outside D has died: only leases of D are revoked, and who   *)
(* is not in D and overtaken by a join holds the lease.                     *)
Safe(i) ==
    /\ i \in up
    /\ Overtaken(i) => OwnsRoom(i)
DeadIn(D) ==
    /\ \A i \in Instances : op[i].pc = "revoke" => op[i].lease.owner \in D
    /\ \A i \in Instances \ D : Safe(i)
CrashInv ==
    /\ crashes = 0 => DeadIn({})
    /\ crashes = 1 => \E x \in Instances : DeadIn({x})

MemoryInv ==
    /\ JoinInv
    /\ CrashInv
    /\ failures = 0 /\ crashes <= 1 =>
          /\ ~lost
          /\ \A i \in Instances : Current(i)

(* As long as the key does not expire: who holds the lease and has an       *)
(* authority, or is about to, has a timeline in the key to commit on, and   *)
(* an applied command has its record.                                       *)
KeyThere(i) ==
    OwnsRoom(i) \/ Overtaken(i) \/ MayRead(i) \/ MayCommit(i) =>
        tl # NoTimeline
RecordInv ==
    ~scope.keyExpires =>
        /\ \A i \in Instances : KeyThere(i)
        /\ \A c \in Cmds : applied[c] <= 1
        /\ \A c \in Cmds : applied[c] # 0 => c \in recorded

(* As long as no forward has been published twice: a command is in one      *)
(* place, and has not been applied while it is anywhere.                    *)
InOnePlace(c) ==
    /\ c \in unsent =>
          \A i \in Instances : c \notin inbox[i] /\ op[i].cmd # c
    /\ \A i, j \in Instances :
          /\ c \in inbox[i] /\ c \in inbox[j] => i = j
          /\ op[i].cmd = c /\ op[j].cmd = c => i = j
          /\ ~(c \in inbox[i] /\ op[j].cmd = c)
    /\ applied[c] <= 1
    /\ applied[c] # 0 =>
          /\ c \notin unsent
          /\ \A i \in Instances : c \notin inbox[i] /\ op[i].cmd # c
DeliveryInv ==
    /\ resends \in Nat
    /\ resends = 0 => \A c \in Cmds : InOnePlace(c)

IInv ==
    /\ OrderInv
    /\ MemoryInv
    /\ RecordInv
    /\ DeliveryInv

-----------------------------------------------------------------------------
(* The data.                                                                *)

Pcs == Claiming \cup {"idle", "read", "commit"}

LEMMA VersionFacts ==
    ASSUME NEW t \in Version, NEW e \in Nat
    PROVE  /\ t # NoTimeline
           /\ t.storeEpoch \in Nat /\ t.seq \in Nat
           /\ [t EXCEPT !.origin = Sweep] \in Version
           /\ Birth(e) \in Version
           /\ \A c \in Cmds : Controlled(t, c) \in Version
<1>1. ASSUME NEW c \in Cmds PROVE Controlled(t, c) \in Version
  <2>1. CmdOf[c].videoId \in Videos
    BY CmdOfAssumption
  <2> QED
    BY <2>1 DEF Controlled, Version
<1>2. [t EXCEPT !.origin = Sweep] \in Version
  BY DEF Version
<1>3. Birth(e) \in Version
  BY ActorConstantsAssumption DEF Birth, Version
<1> QED
  BY <1>1, <1>2, <1>3, NoVersionAssumption DEF Version

(* The stamp of a commit under the epoch e is newer than a key that is not  *)
(* past e.                                                                  *)
LEMMA StampedFacts ==
    ASSUME NEW t \in Version, NEW e \in Nat, tl \in MaybeVersion
    PROVE  /\ Stamped(t, e) \in Version
           /\ Stamped(t, e) # NoTimeline
           /\ Stamped(t, e).storeEpoch = e
           /\ tl # NoTimeline /\ tl.storeEpoch <= e =>
                 isNewer(Stamped(t, e), tl)
<1> DEFINE s == IF tl # NoTimeline /\ tl.storeEpoch = e THEN tl.seq + 1 ELSE 1
<1>1. s \in Nat
  BY DEF MaybeVersion, Version
<1>2. Stamped(t, e) = [t EXCEPT !.storeEpoch = e, !.seq = s]
  BY DEF Stamped
<1>3. /\ Stamped(t, e) \in Version
      /\ Stamped(t, e).storeEpoch = e
      /\ Stamped(t, e).seq = s
  <2> HIDE DEF s
  <2> QED
    BY <1>1, <1>2 DEF Version
<1>4. ASSUME tl # NoTimeline, tl.storeEpoch <= e PROVE isNewer(Stamped(t, e), tl)
  <2>1. tl \in Version
    BY <1>4 DEF MaybeVersion
  <2> QED
    BY <2>1, <1>3, <1>4 DEF isNewer, Version
<1> QED
  BY <1>3, <1>4, NoVersionAssumption

LEMMA QuietType == Quiet \in Operation
BY DEF Quiet, Operation, MaybeVersion

LEMMA OperationFacts ==
    ASSUME NEW x \in Operation
    PROVE  /\ x.pc \in Pcs
           /\ x.cmd \in Cmds \cup {NoCmd}
           /\ x.lease \in Lease \cup {NoLease}
           /\ x.base \in MaybeVersion
BY DEF Operation, Pcs, Claiming

LEMMA OpUpdates ==
    ASSUME op \in [Instances -> Operation], NEW i \in Instances
    PROVE  /\ \A x \in Operation :
                 [op EXCEPT ![i] = x] \in [Instances -> Operation]
           /\ \A pc \in Pcs :
                 [op EXCEPT ![i].pc = pc] \in [Instances -> Operation]
<1>1. ASSUME NEW x \in Operation
      PROVE  [op EXCEPT ![i] = x] \in [Instances -> Operation]
  OBVIOUS
<1>2. ASSUME NEW pc \in Pcs
      PROVE  [op EXCEPT ![i].pc = pc] \in [Instances -> Operation]
  <2>1. [op[i] EXCEPT !.pc = pc] \in Operation
    BY DEF Operation, Pcs, Claiming
  <2>2. [op EXCEPT ![i].pc = pc] = [op EXCEPT ![i] = [op[i] EXCEPT !.pc = pc]]
    OBVIOUS
  <2> QED
    BY <2>1, <2>2, <1>1
<1> QED
  BY <1>1, <1>2

(* What the memory holds, a control or a sweep can be computed from.        *)
LEMMA AuthorityFacts ==
    ASSUME NEW a \in Authority \cup {NotOwner}, a # NotOwner
    PROVE  /\ a \in Authority
           /\ a.fence \in Nat
           /\ a.timeline \in Version
BY DEF Authority

LEMMA RefreshedType ==
    ASSUME owned \in [Instances -> Authority \cup {NotOwner}],
           NEW i \in Instances, NEW t \in Version
    PROVE  Refreshed(i, t) \in [Instances -> Authority \cup {NotOwner}]
<1>1. CASE owned[i] = NotOwner
  BY <1>1 DEF Refreshed
<1>2. CASE owned[i] # NotOwner
  <2>1. owned[i] \in Authority
    BY <1>2
  <2>2. [owned[i] EXCEPT !.timeline = t] \in Authority
    BY <2>1 DEF Authority
  <2> QED
    BY <1>2, <2>2 DEF Refreshed
<1> QED
  BY <1>1, <1>2

-----------------------------------------------------------------------------
(* Types.                                                                   *)

LEMMA CountersStep ==
    ASSUME [Next]_vars
    PROVE  /\ crashes' \in {crashes, crashes + 1}
           /\ failures' \in {failures, failures + 1}
<1>1. ASSUME \/ \E c \in Cmds : Send(c)
             \/ Expire \/ ExpireTimeline \/ UNCHANGED vars
      PROVE  UNCHANGED <<crashes, failures>>
  BY <1>1 DEF Send, Expire, ExpireTimeline, vars, counters
<1>2. ASSUME NEW i \in Instances,
             JoinGet(i) \/ JoinStep(i) \/ Leave(i) \/ StartSnapshot(i)
             \/ Renew(i) \/ Restart(i)
      PROVE  UNCHANGED <<crashes, failures>>
  BY <1>2 DEF JoinGet, JoinStep, JoinClaim, JoinCreate, JoinReadAgain, Leave,
              StartSnapshot, Renew, Restart, counters
<1>3. ASSUME NEW i \in Instances,
             \/ \E c \in Cmds : StartControl(i, c)
             \/ ControlClaim(i) \/ Publish(i) \/ Revoke(i) \/ ReadState(i)
      PROVE  UNCHANGED <<crashes, failures>>
  BY <1>3 DEF StartControl, ControlClaim, Publish, Revoke, ReadState, counters
<1>4. ASSUME NEW i \in Instances, CommitControl(i) \/ CommitSnapshot(i)
      PROVE  crashes' = crashes /\ failures' \in {failures, failures + 1}
  BY <1>4 DEF CommitControl, CommitSnapshot, Returns
<1>5. ASSUME NEW i \in Instances, ControlRejects(i) \/ Crash(i)
      PROVE  /\ crashes' \in {crashes, crashes + 1}
             /\ failures' \in {failures, failures + 1}
  BY <1>5 DEF ControlRejects, Crash
<1> QED
  BY <1>1, <1>2, <1>3, <1>4, <1>5 DEF Next, Step, ControlStep

LEMMA ScopeStep ==
    ASSUME ScopeInv, [Next]_vars
    PROVE  /\ ScopeInv'
           /\ scope' = scope
           /\ scope \in Scopes
           /\ scope.epochs \in 0..MaxEpochs
<1>1. scope' = scope
  BY DEF Next, vars
<1>2. crashes' \in Nat /\ failures' \in Nat
  BY CountersStep DEF ScopeInv
<1> QED
  BY <1>1, <1>2, ActorConstantsAssumption DEF ScopeInv

LEMMA ClaimTypes ==
    ASSUME TypeOK, ScopeInv, NEW i \in Instances, Claim(i)
    PROVE  /\ lease' \in Lease
           /\ epochs' \in 0..MaxEpochs
           /\ epochs' >= epochs
           /\ lease # NoLease => UNCHANGED <<lease, epochs>>
           /\ lease = NoLease =>
                 /\ epochs' = epochs + 1
                 /\ lease' = [owner |-> i, epoch |-> epochs']
<1>1. scope.epochs \in 0..MaxEpochs /\ MaxEpochs \in Nat
  BY ActorConstantsAssumption DEF ScopeInv
<1>2. CASE lease = NoLease
  BY <1>1, <1>2 DEF Claim, TypeOK, Lease
<1>3. CASE lease # NoLease
  BY <1>1, <1>3 DEF Claim, TypeOK
<1> QED
  BY <1>2, <1>3

LEMMA JoiningType ==
    ASSUME TypeOK, NEW i \in Instances, NEW n \in Nat,
           NEW s \in {"no", "claim", "create", "after", "fallback"}
    PROVE  [joining EXCEPT ![i] = <<s, n>>] \in
               [Instances -> {"no", "claim", "create", "after", "fallback"} \X Nat]
BY DEF TypeOK

LEMMA JoinedType ==
    ASSUME TypeOK, NEW i \in Instances, NEW what \in {"none", "committed", "fallback"},
           Joined(i, what)
    PROVE  /\ joining' \in [Instances ->
                            {"no", "claim", "create", "after", "fallback"} \X Nat]
           /\ handed' \in [Instances -> {"none", "committed", "fallback"}]
BY JoiningType DEF Joined, NotJoining, TypeOK

LEMMA TypeStep ==
    ASSUME TypeOK, ScopeInv, QueueInv, [Next]_vars
    PROVE  TypeOK'
<1> USE DEF MaybeVersion
<1>op. op \in [Instances -> Operation]
  BY DEF TypeOK
<1>1. ASSUME NEW c \in Cmds, Send(c) PROVE TypeOK'
  <2>1. CmdOf[c].inst \in Instances
    BY CmdOfAssumption
  <2> QED
    BY <1>1, <2>1 DEF TypeOK, Send, redisVars, roomVars, counters, histVars
<1>2. ASSUME NEW i \in Instances, JoinGet(i) PROVE TypeOK'
  <2>1. /\ joining' \in [Instances ->
                         {"no", "claim", "create", "after", "fallback"} \X Nat]
        /\ handed' \in [Instances -> {"none", "committed", "fallback"}]
    <3>1. CASE Joined(i, "committed")
      BY <3>1, JoinedType
    <3>2. CASE joining' = [joining EXCEPT ![i] = <<"claim", 0>>] /\ handed' = handed
      BY <3>2, JoiningType DEF TypeOK
    <3> QED
      BY <1>2, <3>1, <3>2 DEF JoinGet
  <2> QED
    BY <1>2, <2>1 DEF TypeOK, JoinGet, redisVars, counters, histVars
<1>3. ASSUME NEW i \in Instances, JoinClaim(i) PROVE TypeOK'
  <2>1. lease' \in Lease /\ epochs' \in 0..MaxEpochs
    BY <1>3, ClaimTypes DEF JoinClaim
  <2>2. lease'.epoch \in Nat
    BY <2>1 DEF Lease
  <2> QED
    BY <1>3, <2>1, <2>2 DEF TypeOK, JoinClaim, roomVars, counters, histVars
<1>4. ASSUME NEW i \in Instances, JoinCreate(i) PROVE TypeOK'
  <2> DEFINE e == joining[i][2]
  <2>1. e \in Nat
    BY DEF TypeOK
  <2>2. Birth(e) \in Version
    BY <2>1, ActorConstantsAssumption DEF Birth, Version
  <2>3. CASE lease = [owner |-> i, epoch |-> e]
    <3>1. tl' \in Version /\ latest' \in MaybeVersion
      BY <1>4, <2>2, <2>3 DEF JoinCreate, TypeOK
    <3>2. [fence |-> e, timeline |-> tl'] \in Authority
      BY <2>1, <3>1 DEF Authority
    <3> HIDE DEF e
    <3>3. owned' = [owned EXCEPT ![i] = [fence |-> e, timeline |-> tl']]
      BY <1>4, <2>3 DEF JoinCreate, e
    <3>4. /\ joining' \in [Instances ->
                           {"no", "claim", "create", "after", "fallback"} \X Nat]
          /\ handed' \in [Instances -> {"none", "committed", "fallback"}]
      BY <1>4, <2>3, JoinedType DEF JoinCreate, e
    <3>5. owned' \in [Instances -> Authority \cup {NotOwner}]
      BY <3>2, <3>3 DEF TypeOK
    <3> QED
      BY <1>4, <3>1, <3>4, <3>5 DEF TypeOK, JoinCreate, roomVars, counters
  <2>4. CASE lease # [owner |-> i, epoch |-> e]
    BY <1>4, <2>4 DEF TypeOK, JoinCreate, roomVars, counters
  <2> QED
    BY <2>3, <2>4
<1>5. ASSUME NEW i \in Instances, JoinReadAgain(i) PROVE TypeOK'
  <2>1. /\ joining' \in [Instances ->
                         {"no", "claim", "create", "after", "fallback"} \X Nat]
        /\ handed' \in [Instances -> {"none", "committed", "fallback"}]
    <3>1. CASE Joined(i, "committed") \/ Joined(i, "fallback")
      BY <3>1, JoinedType
    <3>2. CASE joining' = [joining EXCEPT ![i] = <<"fallback", 0>>] /\ handed' = handed
      BY <3>2, JoiningType DEF TypeOK
    <3> QED
      BY <1>5, <3>1, <3>2 DEF JoinReadAgain
  <2> QED
    BY <1>5, <2>1 DEF TypeOK, JoinReadAgain, redisVars, roomVars, counters, histVars
<1>6. ASSUME NEW i \in Instances, Leave(i) PROVE TypeOK'
  BY <1>6 DEF TypeOK, Leave, counters, histVars
<1>7. ASSUME NEW i \in Instances, NEW c \in Cmds, StartControl(i, c) PROVE TypeOK'
  <2> DEFINE x == IF owned[i] = NotOwner
                  THEN [Quiet EXCEPT !.pc = "claim", !.cmd = c]
                  ELSE [Quiet EXCEPT !.pc = "commit", !.cmd = c,
                           !.lease = [owner |-> i, epoch |-> owned[i].fence],
                           !.base = owned[i].timeline]
  <2>1. ASSUME owned[i] # NotOwner
        PROVE  /\ owned[i].timeline \in Version
               /\ [owner |-> i, epoch |-> owned[i].fence] \in Lease
    BY <2>1, AuthorityFacts DEF TypeOK, Lease
  <2>2. ASSUME NEW l \in Lease, NEW b \in Version
        PROVE  [Quiet EXCEPT !.pc = "commit", !.cmd = c, !.lease = l, !.base = b]
                   \in Operation
    BY QuietType DEF Operation
  <2>3. x \in Operation
    <3>1. CASE owned[i] = NotOwner
      BY <3>1, QuietType DEF Operation
    <3>2. CASE owned[i] # NotOwner
      BY <3>2, <2>1, <2>2
    <3> QED
      BY <3>1, <3>2
  <2>4. op' = [op EXCEPT ![i] = x]
    BY <1>7 DEF StartControl
  <2> HIDE DEF x
  <2>5. op' \in [Instances -> Operation]
    BY <1>op, <2>3, <2>4, OpUpdates
  <2> QED
    BY <1>7, <2>5 DEF TypeOK, StartControl, redisVars, roomVars, counters, histVars
<1>8. ASSUME NEW i \in Instances, ControlClaim(i) PROVE TypeOK'
  <2>1. lease' \in Lease /\ epochs' \in 0..MaxEpochs
    BY <1>8, ClaimTypes DEF ControlClaim
  <2> DEFINE pc == IF Mine(i, lease') THEN "read" ELSE "publish"
             last == \/ op[i].pc = "fencedout"
                     \/ op[i].pc = "retake" /\ ~Mine(i, lease')
             x == [op[i] EXCEPT !.lease = lease', !.pc = pc, !.last = last]
  <2>2. op' = [op EXCEPT ![i] = x]
    BY <1>8, <1>op DEF ControlClaim
  <2>3. pc \in {"read", "publish"} /\ last \in BOOLEAN
    OBVIOUS
  <2> HIDE DEF pc, last
  <2>4. x \in Operation
    BY <1>op, <2>1, <2>3 DEF Operation
  <2> HIDE DEF x
  <2>5. op' \in [Instances -> Operation]
    BY <1>op, <2>2, <2>4, OpUpdates
  <2> QED
    BY <1>8, <2>1, <2>5 DEF TypeOK, ControlClaim, roomVars, counters, histVars
<1>9. ASSUME NEW i \in Instances, End(i) \/ (\E pc \in Pcs : Goto(i, pc))
      PROVE  op' \in [Instances -> Operation]
  BY <1>9, <1>op, QuietType, OpUpdates DEF End, Goto
<1>10. ASSUME NEW i \in Instances, Publish(i) PROVE TypeOK'
  <2>1. op' \in [Instances -> Operation]
    BY <1>9, <1>10, <1>op DEF Publish, Pcs, Claiming
  <2>2. op[i].cmd \in Cmds /\ op[i].lease \in Lease
    BY <1>10, <1>op, OperationFacts DEF Publish, QueueInv, OpSound
  <2>3. op[i].lease.owner \in Instances
    BY <2>2 DEF Lease
  <2>4. inbox' \in [Instances -> SUBSET Cmds]
    BY <1>10, <2>2, <2>3 DEF Publish, TypeOK
  <2> QED
    BY <1>10, <2>1, <2>4 DEF TypeOK, Publish, redisVars, roomVars
<1>11. ASSUME NEW i \in Instances, Revoke(i) PROVE TypeOK'
  <2>1. op' \in [Instances -> Operation]
    BY <1>9, <1>11 DEF Revoke, Pcs, Claiming
  <2> QED
    BY <1>11, <2>1 DEF TypeOK, Revoke, roomVars, counters, histVars
<1>12. ASSUME NEW i \in Instances, ReadState(i) PROVE TypeOK'
  <2>1. CASE Get(i) = NoTimeline
    <3>1. op' \in [Instances -> Operation]
      BY <1>9, <1>12, <2>1 DEF ReadState
    <3> QED
      BY <1>12, <2>1, <3>1 DEF TypeOK, ReadState, redisVars, roomVars, counters, histVars
  <2>2. CASE Get(i) # NoTimeline
    <3>1. Get(i) \in Version
      BY <2>2, AuthorityFacts DEF Get, TypeOK
    <3>2. op[i].lease \in Lease
      BY <1>12, <1>op, OperationFacts DEF ReadState, QueueInv, OpSound
    <3>3. [fence |-> op[i].lease.epoch, timeline |-> Get(i)] \in Authority
      BY <3>1, <3>2 DEF Authority, Lease
    <3> DEFINE x == [op[i] EXCEPT !.pc = "commit", !.base = Get(i)]
    <3>4. x \in Operation
      BY <1>op, <3>1 DEF Operation
    <3>5. op' = [op EXCEPT ![i] = x]
      BY <1>12, <2>2, <1>op DEF ReadState
    <3> HIDE DEF x
    <3>6. op' \in [Instances -> Operation]
      BY <1>op, <3>4, <3>5, OpUpdates
    <3>7. owned' = [owned EXCEPT ![i] = [fence |-> op[i].lease.epoch,
                                         timeline |-> Get(i)]]
      BY <1>12, <2>2 DEF ReadState
    <3>8. owned' \in [Instances -> Authority \cup {NotOwner}]
      BY <3>3, <3>7 DEF TypeOK
    <3> QED
      BY <1>12, <3>6, <3>8 DEF TypeOK, ReadState, redisVars, roomVars, counters, histVars
  <2> QED
    BY <2>1, <2>2
<1>13. ASSUME NEW i \in Instances, NEW t \in Version, NEW e \in Nat, NEW b,
              NEW a \in BOOLEAN, Accept(i, t, e, b, a)
       PROVE  /\ tl' \in MaybeVersion /\ latest' \in MaybeVersion
              /\ owned' \in [Instances -> Authority \cup {NotOwner}]
              /\ lost' \in BOOLEAN
  <2>1. tl' \in Version /\ latest' = tl' /\ lost' \in BOOLEAN
    BY <1>13, StampedFacts DEF Accept, TypeOK
  <2>2. Refreshed(i, tl') \in [Instances -> Authority \cup {NotOwner}]
    BY <2>1, RefreshedType DEF TypeOK
  <2> QED
    BY <1>13, <2>1, <2>2 DEF Accept, TypeOK
<1>14. ASSUME NEW i \in Instances, CommitControl(i) PROVE TypeOK'
  <2>1. /\ op[i].cmd \in Cmds /\ op[i].lease \in Lease /\ op[i].base \in Version
        /\ op[i].lease.epoch \in Nat
    BY <1>14, <1>op, OperationFacts DEF CommitControl, QueueInv, OpSound, Lease
  <2>2. Controlled(op[i].base, op[i].cmd) \in Version
    BY <2>1, VersionFacts
  <2>3. op' \in [Instances -> Operation]
    BY <1>9, <1>14 DEF CommitControl, Pcs, Claiming
  <2>4. /\ tl' \in MaybeVersion /\ latest' \in MaybeVersion
        /\ owned' \in [Instances -> Authority \cup {NotOwner}]
        /\ lost' \in BOOLEAN
        /\ recorded' \subseteq Cmds
        /\ applied' \in [Cmds -> Nat]
    <3>1. CASE ~HoldsLease(i, op[i].lease.epoch)
      BY <1>14, <3>1 DEF CommitControl, TypeOK
    <3>2. CASE \E a \in BOOLEAN :
                 /\ Accept(i, Controlled(op[i].base, op[i].cmd),
                           op[i].lease.epoch, op[i].base, a)
                 /\ recorded' = IF tl # NoTimeline THEN recorded \cup {op[i].cmd}
                                                   ELSE recorded
                 /\ applied' = [applied EXCEPT ![op[i].cmd] = @ + 1]
      BY <3>2, <1>13, <2>1, <2>2 DEF TypeOK
    <3>3. CASE /\ tl # NoTimeline
               /\ owned' = Refreshed(i, tl)
               /\ UNCHANGED <<tl, recorded, latest, applied, lost>>
      BY <3>3, RefreshedType DEF TypeOK
    <3> QED
      BY <1>14, <3>1, <3>2, <3>3 DEF CommitControl
  <2> QED
    BY <1>14, <2>3, <2>4 DEF TypeOK, CommitControl, roomVars
<1>15. ASSUME NEW i \in Instances, StartSnapshot(i) PROVE TypeOK'
  BY <1>15 DEF TypeOK, StartSnapshot, redisVars, roomVars, histVars
<1>16. ASSUME NEW i \in Instances, CommitSnapshot(i) PROVE TypeOK'
  <2>1. sweeping[i].fence \in Nat /\ sweeping[i].timeline \in Version
    BY <1>16, AuthorityFacts DEF CommitSnapshot, TypeOK
  <2>2. [sweeping[i].timeline EXCEPT !.origin = Sweep] \in Version
    BY <2>1, VersionFacts
  <2>3. /\ tl' \in MaybeVersion /\ latest' \in MaybeVersion
        /\ owned' \in [Instances -> Authority \cup {NotOwner}]
        /\ lost' \in BOOLEAN
    BY <1>16, <1>13, <2>1, <2>2 DEF CommitSnapshot, TypeOK
  <2> QED
    BY <1>16, <2>3 DEF TypeOK, CommitSnapshot, roomVars
<1>17. ASSUME NEW i \in Instances, Renew(i) PROVE TypeOK'
  <2>1. lease' \in Lease /\ epochs' \in 0..MaxEpochs
    BY <1>17, ClaimTypes DEF Renew
  <2> QED
    BY <1>17, <2>1 DEF TypeOK, Renew, roomVars, counters, histVars
<1>18. ASSUME NEW i \in Instances, ControlRejects(i) PROVE TypeOK'
  <2>1. op' \in [Instances -> Operation]
    BY <1>9, <1>18 DEF ControlRejects
  <2> QED
    BY <1>18, <2>1 DEF TypeOK, ControlRejects, redisVars, roomVars, histVars
<1>19. ASSUME NEW i \in Instances, Crash(i) PROVE TypeOK'
  <2>1. op' \in [Instances -> Operation]
    BY <1>19, <1>op, QuietType, OpUpdates DEF Crash
  <2> QED
    BY <1>19, <2>1 DEF TypeOK, Crash, NotJoining, redisVars, histVars
<1>20. ASSUME NEW i \in Instances, Restart(i) PROVE TypeOK'
  BY <1>20 DEF TypeOK, Restart, redisVars, roomVars, counters, histVars
<1>21. ASSUME Expire \/ ExpireTimeline PROVE TypeOK'
  BY <1>21 DEF TypeOK, Expire, ExpireTimeline, roomVars, counters, histVars
<1>22. ASSUME UNCHANGED vars PROVE TypeOK'
  BY <1>22 DEF TypeOK, vars
<1> QED
  BY <1>1, <1>2, <1>3, <1>4, <1>5, <1>6, <1>7, <1>8, <1>10, <1>11, <1>12, <1>14,
     <1>15, <1>16, <1>17, <1>18, <1>19, <1>20, <1>21, <1>22
  DEF Next, Step, JoinStep, ControlStep

-----------------------------------------------------------------------------
(* The queue.                                                               *)

LEMMA QueueStep ==
    ASSUME TypeOK, ScopeInv, QueueInv, [Next]_vars
    PROVE  QueueInv'
<1>op. op \in [Instances -> Operation]
  BY DEF TypeOK
<1>quiet. Quiet.pc = "idle" /\ Quiet.lease = NoLease
  BY DEF Quiet
<1>same. UNCHANGED <<op, sweeping>> => QueueInv'
  BY DEF QueueInv, OpSound
<1>one. ASSUME NEW i \in Instances, NEW x,
               op' = [op EXCEPT ![i] = x], UNCHANGED sweeping,
               /\ x.pc = "idle" => x = Quiet
               /\ x.pc # "idle" => x.cmd \in Cmds
               /\ x.pc \in {"publish", "revoke", "retake", "read", "commit"} =>
                     x.lease # NoLease
               /\ x.pc = "commit" => x.base # NoTimeline
               /\ sweeping[i] # NotOwner => x = Quiet
        PROVE  QueueInv'
  <2> SUFFICES ASSUME NEW j \in Instances PROVE OpSound(j)'
    BY DEF QueueInv
  <2>1. CASE j = i
    <3>1. op'[j] = x
      BY <1>one, <1>op, <2>1
    <3> QED
      BY <1>one, <2>1, <3>1 DEF OpSound
  <2>2. CASE j # i
    <3>1. op'[j] = op[j]
      BY <1>one, <1>op, <2>2
    <3> QED
      BY <1>one, <3>1 DEF QueueInv, OpSound
  <2> QED
    BY <2>1, <2>2
<1>end. ASSUME NEW i \in Instances, End(i), UNCHANGED sweeping PROVE QueueInv'
  BY <1>end, <1>one, <1>quiet DEF End
<1>go. ASSUME NEW i \in Instances, NEW pc \in Claiming, Goto(i, pc), UNCHANGED sweeping,
              op[i].pc \in {"publish", "revoke", "commit"}
       PROVE  QueueInv'
  <2> DEFINE x == [op[i] EXCEPT !.pc = pc]
  <2>1. op' = [op EXCEPT ![i] = x]
    BY <1>go, <1>op DEF Goto
  <2>2. x.pc = pc /\ x.cmd = op[i].cmd /\ x.lease = op[i].lease
    BY <1>op DEF Operation
  <2>3. op[i].cmd \in Cmds /\ op[i].lease # NoLease /\ sweeping[i] = NotOwner
    BY <1>go, <1>quiet DEF QueueInv, OpSound
  <2> HIDE DEF x
  <2> QED
    BY <1>go, <1>one, <2>1, <2>2, <2>3 DEF Claiming
<1>1. ASSUME NEW i \in Instances, NEW c \in Cmds, StartControl(i, c) PROVE QueueInv'
  <2>1. sweeping[i] = NotOwner /\ UNCHANGED sweeping
    BY <1>1 DEF StartControl, QueueFree
  <2>2. CASE owned[i] = NotOwner
    BY <1>1, <1>one, <2>1, <2>2 DEF StartControl, Quiet
  <2>3. CASE owned[i] # NotOwner
    <3>1. owned[i].timeline # NoTimeline
      BY <2>3, AuthorityFacts, NoVersionAssumption DEF TypeOK
    <3>2. [owner |-> i, epoch |-> owned[i].fence] # NoLease
      BY <2>3, AuthorityFacts, NobodyAssumption DEF TypeOK, Lease
    <3> DEFINE x == [Quiet EXCEPT !.pc = "commit", !.cmd = c,
                        !.lease = [owner |-> i, epoch |-> owned[i].fence],
                        !.base = owned[i].timeline]
    <3>3. op' = [op EXCEPT ![i] = x]
      BY <1>1, <2>3 DEF StartControl
    <3>4. /\ x.pc = "commit" /\ x.cmd = c
          /\ x.lease = [owner |-> i, epoch |-> owned[i].fence]
          /\ x.base = owned[i].timeline
      BY DEF Quiet
    <3> HIDE DEF x
    <3> QED
      BY <1>one, <2>1, <3>1, <3>2, <3>3, <3>4
  <2> QED
    BY <2>2, <2>3
<1>2. ASSUME NEW i \in Instances, ControlClaim(i) PROVE QueueInv'
  <2>1. lease' # NoLease
    BY <1>2, ClaimTypes, NobodyAssumption DEF ControlClaim
  <2> DEFINE x == [op[i] EXCEPT
                      !.lease = lease',
                      !.pc = IF Mine(i, lease') THEN "read" ELSE "publish",
                      !.last = \/ op[i].pc = "fencedout"
                               \/ op[i].pc = "retake" /\ ~Mine(i, lease')]
  <2>2. op' = [op EXCEPT ![i] = x] /\ UNCHANGED sweeping
    BY <1>2, <1>op DEF ControlClaim
  <2>3. x.lease = lease' /\ x.pc \in {"read", "publish"} /\ x.cmd = op[i].cmd
    BY <1>op DEF Operation
  <2>4. op[i].cmd \in Cmds /\ sweeping[i] = NotOwner
    BY <1>2, <1>quiet DEF ControlClaim, QueueInv, OpSound
  <2> HIDE DEF x
  <2> QED
    BY <1>one, <2>1, <2>2, <2>3, <2>4
<1>3. ASSUME NEW i \in Instances, Publish(i) PROVE QueueInv'
  BY <1>3, <1>same, <1>end, <1>go DEF Publish, Claiming
<1>4. ASSUME NEW i \in Instances, Revoke(i) PROVE QueueInv'
  BY <1>4, <1>go DEF Revoke, Claiming
<1>5. ASSUME NEW i \in Instances, ReadState(i) PROVE QueueInv'
  <2>1. CASE Get(i) = NoTimeline
    BY <1>5, <2>1, <1>end DEF ReadState
  <2>2. CASE Get(i) # NoTimeline
    <3> DEFINE x == [op[i] EXCEPT !.pc = "commit", !.base = Get(i)]
    <3>1. op' = [op EXCEPT ![i] = x] /\ UNCHANGED sweeping
      BY <1>5, <2>2, <1>op DEF ReadState
    <3>2. x.pc = "commit" /\ x.base = Get(i) /\ x.cmd = op[i].cmd
          /\ x.lease = op[i].lease
      BY <1>op DEF Operation
    <3>3. op[i].cmd \in Cmds /\ op[i].lease # NoLease /\ sweeping[i] = NotOwner
      BY <1>5, <1>quiet DEF ReadState, QueueInv, OpSound
    <3> HIDE DEF x
    <3> QED
      BY <1>one, <2>2, <3>1, <3>2, <3>3
  <2> QED
    BY <2>1, <2>2
<1>6. ASSUME NEW i \in Instances, CommitControl(i) PROVE QueueInv'
  BY <1>6, <1>end, <1>go DEF CommitControl, Claiming
<1>7. ASSUME NEW i \in Instances, ControlRejects(i) PROVE QueueInv'
  BY <1>7, <1>end DEF ControlRejects
<1>8. ASSUME NEW i \in Instances, StartSnapshot(i) \/ CommitSnapshot(i)
      PROVE  QueueInv'
  BY <1>8 DEF StartSnapshot, CommitSnapshot, QueueFree, QueueInv, OpSound, TypeOK
<1>9. ASSUME NEW i \in Instances, Crash(i) PROVE QueueInv'
  <2>1. op'[i] = Quiet /\ sweeping'[i] = NotOwner
    BY <1>9, <1>op DEF Crash, TypeOK
  <2>2. \A j \in Instances \ {i} : op'[j] = op[j] /\ sweeping'[j] = sweeping[j]
    BY <1>9, <1>op DEF Crash, TypeOK
  <2> QED
    BY <1>quiet, <2>1, <2>2 DEF QueueInv, OpSound
<1>10. ASSUME NEW i \in Instances,
              JoinGet(i) \/ JoinStep(i) \/ Leave(i) \/ Renew(i) \/ Restart(i)
       PROVE  QueueInv'
  BY <1>10, <1>same
  DEF JoinGet, JoinStep, JoinClaim, JoinCreate, JoinReadAgain, Leave, Renew, Restart
<1>11. ASSUME \/ \E c \in Cmds : Send(c)
              \/ Expire \/ ExpireTimeline \/ UNCHANGED vars
       PROVE  QueueInv'
  BY <1>11, <1>same DEF Send, Expire, ExpireTimeline, vars
<1> QED
  BY <1>1, <1>2, <1>3, <1>4, <1>5, <1>6, <1>7, <1>8, <1>9, <1>10, <1>11
  DEF Next, Step, ControlStep

-----------------------------------------------------------------------------
(* The two keys in Redis.                                                   *)

KeyKept == UNCHANGED <<tl, latest>>
KeyGone ==
    /\ tl' = NoTimeline
    /\ UNCHANGED latest
    /\ lease' = NoLease \/ scope.keyExpires
KeyWritten ==
    /\ tl' \in Version
    /\ latest' = tl'
    /\ lease # NoLease
    /\ tl'.storeEpoch = lease.epoch
    /\ tl # NoTimeline /\ tl.storeEpoch <= lease.epoch =>
          tl' = tl \/ isNewer(tl', tl)
    /\ UNCHANGED <<lease, epochs>>

LeaseKept == UNCHANGED <<lease, epochs>>
LeaseGone == lease' = NoLease /\ UNCHANGED epochs
LeaseTaken ==
    /\ lease = NoLease
    /\ epochs' = epochs + 1
    /\ lease' \in Lease
    /\ lease'.epoch = epochs'

(* An accepted commit writes the key under the lease's epoch.               *)
LEMMA AcceptWrites ==
    ASSUME TypeOK, NEW i \in Instances, NEW e \in Nat, HoldsLease(i, e),
           NEW t \in Version, NEW b, NEW a \in BOOLEAN, Accept(i, t, e, b, a),
           UNCHANGED <<lease, epochs>>
    PROVE  KeyWritten
<1>1. lease # NoLease /\ lease.epoch = e
  BY NobodyAssumption DEF HoldsLease, Lease
<1>2. /\ tl' = Stamped(t, e)
      /\ latest' = tl'
  BY DEF Accept
<1> QED
  BY <1>1, <1>2, StampedFacts DEF KeyWritten, TypeOK

(* What the operation and the sweep of an instance commit is a timeline     *)
(* under an epoch.                                                          *)
LEMMA InFlightFacts ==
    ASSUME TypeOK, QueueInv, NEW i \in Instances
    PROVE  /\ op[i].pc = "commit" =>
                 /\ op[i].lease.epoch \in Nat
                 /\ op[i].cmd \in Cmds
                 /\ op[i].base \in Version
                 /\ Controlled(op[i].base, op[i].cmd) \in Version
           /\ op[i].pc \in {"publish", "revoke", "retake", "read", "commit"} =>
                 op[i].lease \in Lease
           /\ sweeping[i] # NotOwner =>
                 /\ sweeping[i].fence \in Nat
                 /\ sweeping[i].timeline \in Version
                 /\ [sweeping[i].timeline EXCEPT !.origin = Sweep] \in Version
           /\ owned[i] # NotOwner =>
                 /\ owned[i].fence \in Nat
                 /\ owned[i].timeline \in Version
                 /\ owned[i].timeline # NoTimeline
           /\ joining[i][2] \in Nat
<1>1. op[i] \in Operation
  BY DEF TypeOK
<1>2. ASSUME op[i].pc \in {"publish", "revoke", "retake", "read", "commit"}
      PROVE  op[i].lease \in Lease /\ op[i].lease.epoch \in Nat
  BY <1>1, <1>2, OperationFacts DEF QueueInv, OpSound, Lease
<1>3. ASSUME op[i].pc = "commit"
      PROVE  /\ op[i].cmd \in Cmds
             /\ op[i].base \in Version
             /\ Controlled(op[i].base, op[i].cmd) \in Version
  BY <1>1, <1>3, OperationFacts, VersionFacts DEF QueueInv, OpSound, MaybeVersion
<1>4. ASSUME sweeping[i] # NotOwner
      PROVE  /\ sweeping[i].fence \in Nat
             /\ sweeping[i].timeline \in Version
             /\ [sweeping[i].timeline EXCEPT !.origin = Sweep] \in Version
  BY <1>4, AuthorityFacts, VersionFacts DEF TypeOK
<1>5. ASSUME owned[i] # NotOwner
      PROVE  /\ owned[i].fence \in Nat
             /\ owned[i].timeline \in Version
             /\ owned[i].timeline # NoTimeline
  BY <1>5, AuthorityFacts, NoVersionAssumption DEF TypeOK
<1>6. joining[i][2] \in Nat
  BY DEF TypeOK
<1> QED
  BY <1>2, <1>3, <1>4, <1>5, <1>6

(* Every step leaves the timeline key, drops it, or writes it under the     *)
(* lease; and leaves the lease, drops it, or takes it under a fresh epoch.  *)
LEMMA KeysStep ==
    ASSUME TypeOK, ScopeInv, QueueInv, [Next]_vars
    PROVE  /\ KeyKept \/ KeyGone \/ KeyWritten
           /\ LeaseKept \/ LeaseGone \/ LeaseTaken
           /\ LeaseTaken => KeyKept
<1> DEFINE Goal == /\ KeyKept \/ KeyGone \/ KeyWritten
                   /\ LeaseKept \/ LeaseGone \/ LeaseTaken
                   /\ LeaseTaken => KeyKept
<1>same. UNCHANGED <<lease, epochs, tl, latest>> => Goal
  BY DEF KeyKept, LeaseKept
<1>written. ASSUME KeyWritten PROVE Goal
  BY <1>written DEF KeyWritten, LeaseKept, LeaseTaken
<1>claim. ASSUME NEW i \in Instances, Claim(i), UNCHANGED <<tl, latest>> PROVE Goal
  <2>1. CASE lease = NoLease
    BY <2>1, <1>claim, ClaimTypes DEF KeyKept, LeaseTaken, Lease
  <2>2. CASE lease # NoLease
    BY <2>2, <1>claim, <1>same, ClaimTypes
  <2> QED
    BY <2>1, <2>2
<1> SUFFICES Goal
  OBVIOUS
<1>1. ASSUME NEW i \in Instances, JoinClaim(i) \/ ControlClaim(i) \/ Renew(i) PROVE Goal
  BY <1>1, <1>claim DEF JoinClaim, ControlClaim, Renew, histVars
<1>2. ASSUME NEW i \in Instances, JoinCreate(i) PROVE Goal
  <2> DEFINE e == joining[i][2]
  <2>1. CASE lease = [owner |-> i, epoch |-> e] /\ tl = NoTimeline
    <3>1. tl' = Birth(e) /\ latest' = tl' /\ UNCHANGED <<lease, epochs>>
      BY <1>2, <2>1 DEF JoinCreate
    <3>2. Birth(e) \in Version /\ Birth(e).storeEpoch = e
      BY InFlightFacts, ActorConstantsAssumption DEF Birth, Version
    <3>3. lease # NoLease /\ lease.epoch = e
      <4>1. e \in Nat
        BY InFlightFacts
      <4> HIDE DEF e
      <4> QED
        BY <2>1, <4>1, NobodyAssumption DEF Lease
    <3> QED
      BY <1>written, <2>1, <3>1, <3>2, <3>3 DEF KeyWritten
  <2>2. CASE ~(lease = [owner |-> i, epoch |-> e] /\ tl = NoTimeline)
    BY <1>2, <1>same, <2>2 DEF JoinCreate
  <2> QED
    BY <2>1, <2>2
<1>3. ASSUME NEW i \in Instances, Leave(i) PROVE Goal
  BY <1>3, <1>same
  DEF Leave, KeyGone, LeaseGone, LeaseTaken, histVars, TypeOK, Lease
<1>4. ASSUME NEW i \in Instances, Revoke(i) PROVE Goal
  BY <1>4 DEF Revoke, KeyKept, LeaseGone, LeaseKept, histVars
<1>5. ASSUME NEW i \in Instances, CommitControl(i) PROVE Goal
  <2>1. CASE UNCHANGED <<tl, latest>>
    BY <1>5, <1>same, <2>1 DEF CommitControl
  <2>2. CASE \E a \in BOOLEAN :
               /\ HoldsLease(i, op[i].lease.epoch)
               /\ Accept(i, Controlled(op[i].base, op[i].cmd),
                         op[i].lease.epoch, op[i].base, a)
    <3>1. op[i].pc = "commit" /\ UNCHANGED <<lease, epochs>>
      BY <1>5 DEF CommitControl
    <3>2. /\ op[i].lease.epoch \in Nat
          /\ Controlled(op[i].base, op[i].cmd) \in Version
      BY <3>1, InFlightFacts
    <3> QED
      BY <1>written, <2>2, <3>1, <3>2, AcceptWrites
  <2> QED
    BY <1>5, <2>1, <2>2 DEF CommitControl
<1>6. ASSUME NEW i \in Instances, CommitSnapshot(i) PROVE Goal
  <2>1. CASE UNCHANGED <<tl, latest>>
    BY <1>6, <1>same, <2>1 DEF CommitSnapshot
  <2>2. CASE \E a \in BOOLEAN :
               /\ HoldsLease(i, sweeping[i].fence)
               /\ Accept(i, [sweeping[i].timeline EXCEPT !.origin = Sweep],
                         sweeping[i].fence, sweeping[i].timeline, a)
    BY <1>6, <1>written, <2>2, AcceptWrites, InFlightFacts DEF CommitSnapshot
  <2> QED
    BY <1>6, <2>1, <2>2 DEF CommitSnapshot
<1>7. ASSUME Expire PROVE Goal
  BY <1>7 DEF Expire, KeyKept, LeaseGone, histVars
<1>8. ASSUME ExpireTimeline PROVE Goal
  BY <1>8, NobodyAssumption
  DEF ExpireTimeline, KeyGone, LeaseKept, LeaseTaken, histVars
<1>9. ASSUME NEW i \in Instances,
             \/ JoinGet(i) \/ JoinReadAgain(i) \/ Publish(i) \/ ReadState(i)
             \/ \E c \in Cmds : StartControl(i, c)
      PROVE  Goal
  BY <1>9, <1>same
  DEF JoinGet, JoinReadAgain, Publish, ReadState, StartControl, redisVars, histVars
<1>10. ASSUME NEW i \in Instances,
              StartSnapshot(i) \/ ControlRejects(i) \/ Crash(i) \/ Restart(i)
       PROVE  Goal
  BY <1>10, <1>same
  DEF StartSnapshot, ControlRejects, Crash, Restart, redisVars, histVars
<1>11. ASSUME (\E c \in Cmds : Send(c)) \/ UNCHANGED vars PROVE Goal
  BY <1>11, <1>same DEF Send, redisVars, histVars, vars
<1> HIDE DEF Goal
<1> QED
  BY <1>1, <1>2, <1>3, <1>4, <1>5, <1>6, <1>7, <1>8, <1>9, <1>10, <1>11
  DEF Next, Step, JoinStep, ControlStep

LEMMA LatestStep ==
    ASSUME OrderInv, [Next]_vars
    PROVE  LatestInv'
<1> USE DEF OrderInv
<1>1. scope' = scope
  BY ScopeStep
<1>2. /\ KeyKept \/ KeyGone \/ KeyWritten
      /\ LeaseKept \/ LeaseGone \/ LeaseTaken
      /\ LeaseTaken => KeyKept
  BY KeysStep
<1>types. /\ epochs \in Nat
          /\ latest \in Version \cup {NoTimeline}
          /\ lease \in Lease \cup {NoLease}
          /\ NoTimeline \notin Version
  BY NoVersionAssumption DEF TypeOK, MaybeVersion
<1>3. CASE KeyWritten
  BY <1>1, <1>3, <1>types, NoVersionAssumption DEF KeyWritten, LatestInv, Version, Lease
<1>4. CASE KeyGone
  <2>1. CASE lease' = NoLease
    BY <1>4, <2>1, <1>types DEF KeyGone, LatestInv
  <2>2. CASE lease' # NoLease
    <3>1. (scope.keyExpires /\ LeaseKept) \/ LeaseTaken
      BY <1>2, <1>4, <2>2 DEF KeyGone, LeaseGone
    <3> QED
      BY <1>1, <1>2, <1>4, <2>2, <3>1, <1>types
      DEF KeyGone, KeyKept, LatestInv, LeaseKept, LeaseTaken, EpochInv, Version, Lease
  <2> QED
    BY <2>1, <2>2
<1>5. CASE KeyKept
  BY <1>1, <1>2, <1>5, <1>types
  DEF KeyKept, LatestInv, LeaseKept, LeaseGone, LeaseTaken, EpochInv, Version, Lease
<1> QED
  BY <1>2, <1>3, <1>4, <1>5

LEMMA EpochStep ==
    ASSUME OrderInv, [Next]_vars
    PROVE  EpochInv'
<1> USE DEF OrderInv
<1>keys. /\ KeyKept \/ KeyGone \/ KeyWritten
         /\ LeaseKept \/ LeaseGone \/ LeaseTaken
  BY KeysStep
<1>types. /\ epochs \in Nat /\ epochs' \in Nat
          /\ op \in [Instances -> Operation]
  BY TypeStep DEF TypeOK
<1>grows. epochs' >= epochs
  BY <1>keys, <1>types DEF LeaseKept, LeaseGone, LeaseTaken
<1>lease. lease' # NoLease => lease'.epoch <= epochs'
  BY <1>keys, <1>types DEF LeaseKept, LeaseGone, LeaseTaken, EpochInv
<1>latest. latest' # NoTimeline => latest'.storeEpoch <= epochs'
  <2>1. CASE KeyWritten
    BY <2>1, <1>types DEF KeyWritten, EpochInv
  <2>2. CASE latest' = latest
    <3>1. latest # NoTimeline => latest.storeEpoch \in Nat
      BY DEF TypeOK, MaybeVersion, Version
    <3> QED
      BY <2>2, <3>1, <1>types, <1>grows DEF EpochInv
  <2> QED
    BY <1>keys, <2>1, <2>2 DEF KeyKept, KeyGone
<1>frame. ASSUME NEW j \in Instances,
                 owned'[j] # NotOwner =>
                    \/ owned[j] # NotOwner /\ owned'[j].fence = owned[j].fence
                    \/ owned'[j].fence <= epochs',
                 op'[j].lease = op[j].lease \/ op'[j].lease = NoLease
                 \/ op'[j].lease.epoch <= epochs',
                 sweeping'[j] # NotOwner =>
                    sweeping'[j] = sweeping[j]
                    \/ sweeping'[j] = owned[j],
                 joining'[j] = joining[j] \/ joining'[j][2] <= epochs'
          PROVE  Minted(j)'
  <2>1. Minted(j)
    BY DEF EpochInv
  <2>2. /\ owned[j] # NotOwner => owned[j].fence \in Nat
        /\ sweeping[j] # NotOwner => sweeping[j].fence \in Nat
        /\ joining[j][2] \in Nat
    BY InFlightFacts
  <2>3. op[j].lease # NoLease => op[j].lease.epoch \in Nat
    BY <1>types, OperationFacts DEF Lease
  <2> QED
    BY <1>frame, <1>types, <1>grows, <2>1, <2>2, <2>3 DEF Minted
<1>quiet. Quiet.lease = NoLease
  BY DEF Quiet
<1>all. ASSUME \A j \in Instances : Minted(j)' PROVE EpochInv'
  BY <1>all, <1>lease, <1>latest DEF EpochInv
<1>same. UNCHANGED <<owned, op, sweeping, joining>> => EpochInv'
  <2> SUFFICES ASSUME UNCHANGED <<owned, op, sweeping, joining>>,
                      NEW j \in Instances
               PROVE  Minted(j)'
    BY <1>all
  <2> QED
    BY <1>frame
<1>go. ASSUME NEW i \in Instances, NEW pc, End(i) \/ Goto(i, pc), NEW j \in Instances
       PROVE  op'[j].lease = op[j].lease \/ op'[j].lease = NoLease
  <2>1. CASE End(i)
    BY <2>1, <1>quiet, <1>types DEF End
  <2>2. CASE Goto(i, pc)
    <3>1. op'[j].lease = op[j].lease
      BY <2>2, <1>types DEF Goto, Operation
    <3> QED
      BY <3>1
  <2> QED
    BY <1>go, <2>1, <2>2
<1>1. ASSUME NEW i \in Instances,
             \/ JoinGet(i) \/ JoinReadAgain(i) \/ Leave(i)
             \/ Restart(i)
      PROVE  EpochInv'
  <2> SUFFICES ASSUME NEW j \in Instances PROVE Minted(j)'
    BY <1>all
  <2>1. UNCHANGED <<op, sweeping>> /\ owned'[j] \in {owned[j], NotOwner}
    BY <1>1 DEF JoinGet, JoinReadAgain, Leave, Restart, TypeOK, redisVars
  <2>2. joining'[j] = joining[j] \/ joining'[j][2] = 0
    BY <1>1 DEF JoinGet, JoinReadAgain, Joined, NotJoining, Leave, Restart, TypeOK
  <2> QED
    BY <2>1, <2>2, <1>frame, <1>types
<1>2. ASSUME NEW i \in Instances, JoinClaim(i) PROVE EpochInv'
  <2> SUFFICES ASSUME NEW j \in Instances PROVE Minted(j)'
    BY <1>all
  <2>1. UNCHANGED <<owned, op, sweeping>>
    BY <1>2 DEF JoinClaim
  <2>2. lease' # NoLease
    BY <1>2, ClaimTypes, NobodyAssumption DEF JoinClaim
  <2>3. joining'[j] = joining[j] \/ joining'[j][2] = 0 \/ joining'[j][2] = lease'.epoch
    BY <1>2 DEF JoinClaim, TypeOK
  <2> QED
    BY <2>1, <2>2, <2>3, <1>frame, <1>types, <1>lease
<1>3. ASSUME NEW i \in Instances, JoinCreate(i) PROVE EpochInv'
  <2> SUFFICES ASSUME NEW j \in Instances PROVE Minted(j)'
    BY <1>all
  <2>1. UNCHANGED <<op, sweeping>>
    BY <1>3 DEF JoinCreate
  <2>2. joining'[j] = joining[j] \/ joining'[j][2] = 0
    BY <1>3 DEF JoinCreate, Joined, NotJoining, TypeOK
  <2>3. owned'[j] = owned[j] \/ owned'[j].fence = joining[i][2]
    BY <1>3 DEF JoinCreate, TypeOK
  <2>4. joining[i][2] <= epochs' /\ joining[i][2] \in Nat
    <3>1. joining[i][2] \in Nat
      BY InFlightFacts
    <3>2. joining[i][2] <= epochs
      BY DEF EpochInv, Minted
    <3> QED
      BY <3>1, <3>2, <1>types, <1>grows
  <2> QED
    BY <2>1, <2>2, <2>3, <2>4, <1>frame, <1>types
<1>4. ASSUME NEW i \in Instances, NEW c \in Cmds, StartControl(i, c) PROVE EpochInv'
  <2> SUFFICES ASSUME NEW j \in Instances PROVE Minted(j)'
    BY <1>all
  <2>1. UNCHANGED <<owned, sweeping, joining, epochs>>
    BY <1>4 DEF StartControl, redisVars
  <2>2. \/ op'[j].lease = op[j].lease \/ op'[j].lease = NoLease
        \/ owned[i] # NotOwner /\ op'[j].lease.epoch = owned[i].fence
    BY <1>4, <1>types DEF StartControl, Quiet
  <2>3. owned[i] # NotOwner => owned[i].fence <= epochs'
    BY <2>1 DEF EpochInv, Minted
  <2> QED
    BY <2>1, <2>2, <2>3, <1>frame
<1>5. ASSUME NEW i \in Instances, ControlClaim(i) PROVE EpochInv'
  <2> SUFFICES ASSUME NEW j \in Instances PROVE Minted(j)'
    BY <1>all
  <2>1. UNCHANGED <<owned, sweeping, joining>>
    BY <1>5 DEF ControlClaim
  <2>2. lease' # NoLease
    BY <1>5, ClaimTypes, NobodyAssumption DEF ControlClaim
  <2>3. op'[j].lease = op[j].lease \/ op'[j].lease = lease'
    BY <1>5, <1>types DEF ControlClaim, Operation
  <2> QED
    BY <2>1, <2>2, <2>3, <1>frame, <1>lease
<1>6. ASSUME NEW i \in Instances, Publish(i) \/ Revoke(i) \/ ControlRejects(i)
      PROVE  EpochInv'
  <2> SUFFICES ASSUME NEW j \in Instances PROVE Minted(j)'
    BY <1>all
  <2>1. UNCHANGED <<owned, sweeping, joining>>
    BY <1>6 DEF Publish, Revoke, ControlRejects
  <2>2. UNCHANGED op \/ End(i) \/ (\E pc \in Claiming : Goto(i, pc))
    BY <1>6 DEF Publish, Revoke, ControlRejects, Claiming
  <2>3. op'[j].lease = op[j].lease \/ op'[j].lease = NoLease
    BY <2>2, <1>go
  <2> QED
    BY <2>1, <2>3, <1>frame
<1>7. ASSUME NEW i \in Instances, ReadState(i) PROVE EpochInv'
  <2> SUFFICES ASSUME NEW j \in Instances PROVE Minted(j)'
    BY <1>all
  <2>1. UNCHANGED <<sweeping, joining, epochs>>
    BY <1>7 DEF ReadState, redisVars
  <2>2. op'[j].lease = op[j].lease \/ op'[j].lease = NoLease
    BY <1>7, <1>types, <1>quiet DEF ReadState, End, Operation
  <2>3. owned'[j] = owned[j] \/ owned'[j].fence = op[i].lease.epoch
    BY <1>7 DEF ReadState, TypeOK
  <2>4. op[i].lease.epoch <= epochs'
    BY <1>7, <2>1 DEF ReadState, EpochInv, Minted, QueueInv, OpSound
  <2> QED
    BY <2>1, <2>2, <2>3, <2>4, <1>frame
<1>memory. ASSUME NEW i \in Instances, NEW t, NEW j \in Instances,
                  owned' \in {Refreshed(i, t), owned, [owned EXCEPT ![i] = NotOwner]},
                  owned'[j] # NotOwner
           PROVE  owned[j] # NotOwner /\ owned'[j].fence = owned[j].fence
  BY <1>memory DEF Refreshed, TypeOK, Authority
<1>8. ASSUME NEW i \in Instances, CommitControl(i) PROVE EpochInv'
  <2> SUFFICES ASSUME NEW j \in Instances PROVE Minted(j)'
    BY <1>all
  <2>1. UNCHANGED <<sweeping, joining>>
    BY <1>8 DEF CommitControl
  <2>2. End(i) \/ Goto(i, "fencedout")
    BY <1>8 DEF CommitControl
  <2>3. op'[j].lease = op[j].lease \/ op'[j].lease = NoLease
    BY <2>2, <1>go
  <2>4. owned' \in {Refreshed(i, tl'), owned, [owned EXCEPT ![i] = NotOwner]}
    BY <1>8 DEF CommitControl, Accept
  <2> QED
    BY <2>1, <2>3, <2>4, <1>memory, <1>frame
<1>9. ASSUME NEW i \in Instances, CommitSnapshot(i) PROVE EpochInv'
  <2> SUFFICES ASSUME NEW j \in Instances PROVE Minted(j)'
    BY <1>all
  <2>1. UNCHANGED <<op, joining>> /\ sweeping'[j] \in {sweeping[j], NotOwner}
    BY <1>9 DEF CommitSnapshot, TypeOK
  <2>2. owned' \in {Refreshed(i, tl'), owned, [owned EXCEPT ![i] = NotOwner]}
    BY <1>9 DEF CommitSnapshot, Accept
  <2> QED
    BY <2>1, <2>2, <1>memory, <1>frame
<1>10. ASSUME NEW i \in Instances, StartSnapshot(i) \/ Renew(i) PROVE EpochInv'
  <2> SUFFICES ASSUME NEW j \in Instances PROVE Minted(j)'
    BY <1>all
  <2>1. UNCHANGED <<op, joining>> /\ owned'[j] \in {owned[j], NotOwner}
    BY <1>10 DEF StartSnapshot, Renew, TypeOK
  <2>2. sweeping'[j] = sweeping[j] \/ sweeping'[j] = owned[j]
    BY <1>10 DEF StartSnapshot, Renew, TypeOK
  <2> QED
    BY <2>1, <2>2, <1>frame
<1>11. ASSUME NEW i \in Instances, Crash(i) PROVE EpochInv'
  <2> SUFFICES ASSUME NEW j \in Instances PROVE Minted(j)'
    BY <1>all
  <2>1. /\ owned'[j] \in {owned[j], NotOwner} /\ sweeping'[j] \in {sweeping[j], NotOwner}
        /\ joining'[j] \in {joining[j], NotJoining}
    BY <1>11 DEF Crash, TypeOK
  <2>2. op'[j].lease = op[j].lease \/ op'[j].lease = NoLease
    BY <1>11, <1>quiet, <1>types DEF Crash
  <2>3. NotJoining[2] = 0
    BY DEF NotJoining
  <2> QED
    BY <2>1, <2>2, <2>3, <1>frame, <1>types
<1>12. ASSUME \/ \E c \in Cmds : Send(c)
              \/ Expire \/ ExpireTimeline \/ UNCHANGED vars
       PROVE  EpochInv'
  BY <1>12, <1>same DEF Send, Expire, ExpireTimeline, vars
<1> QED
  BY <1>1, <1>2, <1>3, <1>4, <1>5, <1>6, <1>7, <1>8, <1>9, <1>10, <1>11, <1>12
  DEF Next, Step, JoinStep, ControlStep

-----------------------------------------------------------------------------
(* Commits stay ordered.                                                    *)

LEMMA InitOrder == Init => OrderInv
<1> SUFFICES ASSUME Init PROVE OrderInv
  OBVIOUS
<1>1. TypeOK
  <2>1. NotJoining \in {"no", "claim", "create", "after", "fallback"} \X Nat
    BY DEF NotJoining
  <2>2. 0 \in 0..MaxEpochs
    BY ActorConstantsAssumption
  <2> QED
    BY <2>1, <2>2, QuietType DEF Init, TypeOK, MaybeVersion
<1>2. QueueInv
  BY DEF Init, QueueInv, OpSound, Quiet
<1>3. EpochInv /\ LatestInv
  BY DEF Init, EpochInv, Minted, LatestInv, Quiet, NotJoining
<1>4. ScopeInv
  BY DEF Init, ScopeInv
<1> QED
  BY <1>1, <1>2, <1>3, <1>4 DEF OrderInv

LEMMA OrderStep == OrderInv /\ [Next]_vars => OrderInv'
<1> SUFFICES ASSUME OrderInv, [Next]_vars PROVE OrderInv'
  OBVIOUS
<1>1. TypeOK' /\ ScopeInv' /\ QueueInv'
  BY TypeStep, ScopeStep, QueueStep DEF OrderInv
<1> QED
  BY <1>1, EpochStep, LatestStep DEF OrderInv

LEMMA OrderInvariance == Spec => []OrderInv
BY InitOrder, OrderStep, PTL DEF Spec

(* The state of the plane is well typed: no commit is computed from a room  *)
(* without state, no operation runs without its command.                    *)
THEOREM TypeCorrect == Spec => []TypeOK
<1>1. OrderInv => TypeOK
  BY DEF OrderInv
<1> QED
  BY <1>1, OrderInvariance, PTL

(* actor_commit.lua, actor_init.lua: whatever happens to leases, owners and *)
(* calls, a commit is newer than all before it.                             *)
THEOREM OrderKept == Spec => CommitsAdvance
<1> DEFINE A == latest' # latest =>
                   isNewer(latest', latest) \/ (scope.keyExpires /\ tl = NoTimeline)
<1>1. ASSUME OrderInv, [Next]_vars PROVE A
  <2> SUFFICES ASSUME latest' # latest, ~(scope.keyExpires /\ tl = NoTimeline)
               PROVE  isNewer(latest', latest)
    OBVIOUS
  <2>1. KeyWritten
    BY <1>1, KeysStep DEF OrderInv, KeyKept, KeyGone
  <2>2. CASE tl # NoTimeline
    BY <1>1, <2>1, <2>2 DEF OrderInv, LatestInv, KeyWritten
  <2>3. CASE tl = NoTimeline /\ latest # NoTimeline
    <3>1. latest.storeEpoch < lease.epoch /\ ~scope.keyExpires
      BY <1>1, <2>1, <2>3 DEF OrderInv, LatestInv, KeyWritten
    <3>2. latest'.storeEpoch = lease.epoch
      BY <2>1 DEF KeyWritten
    <3>3. latest.storeEpoch \in Nat /\ lease.epoch \in Nat
      BY <1>1, <2>1, <2>3
      DEF OrderInv, TypeOK, MaybeVersion, Version, Lease, KeyWritten
    <3> QED
      BY <3>1, <3>2, <3>3 DEF isNewer
  <2>4. CASE latest = NoTimeline
    BY <2>4 DEF isNewer
  <2> QED
    BY <2>2, <2>3, <2>4
<1>2. OrderInv /\ [Next]_vars => [A]_vars
  BY <1>1
<1> QED
  BY <1>2, OrderInvariance, PTL DEF Spec, CommitsAdvance

-----------------------------------------------------------------------------
(* Who may act on the room.                                                 *)

(* Nobody comes to hold the lease under an epoch it already knew.           *)
LEMMA NoNewHolder ==
    ASSUME OrderInv, [Next]_vars, NEW i \in Instances,
           NEW e \in Nat, e <= epochs, HoldsLease(i, e)'
    PROVE  HoldsLease(i, e)
<1>1. LeaseKept \/ LeaseGone \/ LeaseTaken
  BY KeysStep DEF OrderInv
<1>2. lease' = [owner |-> i, epoch |-> e]
  BY DEF HoldsLease
<1>3. lease' # NoLease /\ lease'.epoch = e
  BY <1>2, NobodyAssumption DEF Lease
<1>4. epochs \in Nat
  BY DEF OrderInv, TypeOK
<1> QED
  BY <1>1, <1>2, <1>3, <1>4 DEF LeaseKept, LeaseGone, LeaseTaken, HoldsLease

(* An instance whose operation goes on or ends, and whose authority stays   *)
(* under its fence or goes, may do no more than before.                     *)
Settles(i) ==
    /\ owned'[i] # NotOwner =>
          owned[i] # NotOwner /\ owned'[i].fence = owned[i].fence
    /\ op'[i] \in {op[i], Quiet}

LEMMA SettlesFacts ==
    ASSUME OrderInv, [Next]_vars, NEW i \in Instances, Settles(i)
    PROVE  /\ OwnsRoom(i)' => OwnsRoom(i)
           /\ Overtaken(i)' => Overtaken(i)
           /\ MayRead(i)' => MayRead(i)
           /\ MayCommit(i)' => MayCommit(i)
<1>minted. Minted(i) /\ OpSound(i)
  BY DEF OrderInv, EpochInv, QueueInv
<1>quiet. op'[i] = op[i] \/ op'[i].pc = "idle"
  BY DEF Settles, Quiet
<1>1. ASSUME OwnsRoom(i)' PROVE OwnsRoom(i)
  <2>1. owned[i] # NotOwner /\ owned'[i].fence = owned[i].fence
    BY <1>1 DEF OwnsRoom, Settles
  <2>2. owned[i].fence \in Nat /\ owned[i].fence <= epochs
    BY <1>minted, <2>1, InFlightFacts DEF Minted, OrderInv
  <2>3. PICK e \in Nat : e = owned[i].fence
    BY <2>2
  <2>4. HoldsLease(i, e)'
    BY <1>1, <2>1, <2>3 DEF OwnsRoom, HoldsLease
  <2>5. HoldsLease(i, e)
    BY <2>2, <2>3, <2>4, NoNewHolder
  <2> QED
    BY <2>1, <2>3, <2>5 DEF OwnsRoom
<1>2. ASSUME Overtaken(i)' PROVE Overtaken(i)
  BY <1>2, <1>quiet DEF Overtaken, Settles, Claiming
<1>3. ASSUME op'[i].pc \in {"read", "commit"},
             lease' = [owner |-> i, epoch |-> op'[i].lease.epoch]
      PROVE  op'[i] = op[i] /\ HoldsLease(i, op[i].lease.epoch)
  <2>1. op'[i] = op[i]
    BY <1>3, <1>quiet
  <2>2. op[i].lease.epoch \in Nat /\ op[i].lease.epoch <= epochs
    BY <1>3, <1>minted, <2>1, InFlightFacts DEF Minted, OrderInv, OpSound, Lease
  <2>3. PICK e \in Nat : e = op[i].lease.epoch
    BY <2>2
  <2>4. HoldsLease(i, e)'
    BY <1>3, <2>1, <2>3 DEF HoldsLease
  <2> QED
    BY <2>1, <2>2, <2>3, <2>4, NoNewHolder
<1>4. ASSUME MayRead(i)' PROVE MayRead(i)
  <2>1. op'[i] = op[i] /\ HoldsLease(i, op[i].lease.epoch)
    BY <1>3, <1>4 DEF MayRead, HoldsLease
  <2> QED
    BY <1>4, <2>1 DEF MayRead, Settles
<1>5. ASSUME MayCommit(i)' PROVE MayCommit(i)
  <2>1. op'[i] = op[i] /\ HoldsLease(i, op[i].lease.epoch)
    BY <1>3, <1>5 DEF MayCommit, HoldsLease
  <2> QED
    BY <1>5, <2>1 DEF MayCommit
<1> QED
  BY <1>1, <1>2, <1>4, <1>5

(* The steps of one instance, and what they leave to the others.            *)
InstanceStep(i) ==
    \/ JoinGet(i) \/ JoinStep(i) \/ Leave(i) \/ ControlStep(i)
    \/ StartSnapshot(i) \/ CommitSnapshot(i) \/ Renew(i)
    \/ ControlRejects(i) \/ Crash(i) \/ Restart(i)
ElsewhereStep ==
    \/ \E c \in Cmds : Send(c)
    \/ Expire \/ ExpireTimeline \/ UNCHANGED vars

Kept(j) ==
    /\ owned'[j] = owned[j]
    /\ op'[j] = op[j]
    /\ sweeping'[j] = sweeping[j]
    /\ joining'[j] = joining[j]

LEMMA OthersKept ==
    ASSUME TypeOK, NEW i \in Instances, InstanceStep(i), NEW j \in Instances, j # i
    PROVE  Kept(j)
<1>1. CASE JoinGet(i) \/ JoinStep(i) \/ Leave(i) \/ Renew(i) \/ Restart(i)
  BY <1>1
  DEF JoinGet, JoinStep, JoinClaim, JoinCreate, JoinReadAgain, Joined, Leave, Renew,
      Restart, redisVars, TypeOK, Kept
<1>2. CASE \/ \E c \in Cmds : StartControl(i, c)
           \/ ControlClaim(i) \/ Publish(i) \/ Revoke(i) \/ ReadState(i)
  BY <1>2
  DEF StartControl, ControlClaim, Publish, Revoke, ReadState, End, Goto, TypeOK, Kept
<1>3. CASE CommitControl(i)
  BY <1>3 DEF CommitControl, Accept, Refreshed, End, Goto, TypeOK, Kept
<1>4. CASE CommitSnapshot(i)
  BY <1>4 DEF CommitSnapshot, Accept, Refreshed, TypeOK, Kept
<1>5. CASE StartSnapshot(i) \/ ControlRejects(i) \/ Crash(i)
  BY <1>5 DEF StartSnapshot, ControlRejects, Crash, End, TypeOK, Kept
<1> QED
  BY <1>1, <1>2, <1>3, <1>4, <1>5 DEF InstanceStep, ControlStep

LEMMA ElsewhereKept ==
    ASSUME ElsewhereStep, NEW j \in Instances
    PROVE  Kept(j)
BY DEF ElsewhereStep, Send, Expire, ExpireTimeline, vars, Kept

LEMMA NextCases ==
    ASSUME [Next]_vars
    PROVE  (\E i \in Instances : InstanceStep(i)) \/ ElsewhereStep
BY DEF Next, Step, InstanceStep, ElsewhereStep

(* What a commit leaves of the memory of the instance that made it.         *)
LEMMA RefreshedFacts ==
    ASSUME TypeOK, NEW i \in Instances, NEW t
    PROVE  /\ Refreshed(i, t)[i] # NotOwner =>
                 /\ owned[i] # NotOwner
                 /\ Refreshed(i, t)[i].fence = owned[i].fence
                 /\ Refreshed(i, t)[i].timeline = t
           /\ owned[i] # NotOwner /\ t \in Version => Refreshed(i, t)[i] # NotOwner
<1>1. CASE owned[i] = NotOwner
  BY <1>1 DEF Refreshed, TypeOK
<1>2. CASE owned[i] # NotOwner
  <2>1. owned[i] \in Authority
    BY <1>2 DEF TypeOK
  <2>2. Refreshed(i, t)[i] = [owned[i] EXCEPT !.timeline = t]
    BY <1>2 DEF Refreshed, TypeOK
  <2>3. t \in Version => [owned[i] EXCEPT !.timeline = t] \in Authority
    BY <2>1 DEF Authority
  <2> QED
    BY <1>2, <2>1, <2>2, <2>3, NobodyAssumption DEF Authority
<1> QED
  BY <1>1, <1>2

-----------------------------------------------------------------------------
(* Every applied command is recorded while the key does not expire.         *)

Busy(i) == OwnsRoom(i) \/ Overtaken(i) \/ MayRead(i) \/ MayCommit(i)

LEMMA KeyThereStep ==
    ASSUME OrderInv, [Next]_vars, ~scope.keyExpires,
           \A j \in Instances : KeyThere(j)
    PROVE  \A j \in Instances : KeyThere(j)'
<1> USE DEF OrderInv
<1>types. /\ op \in [Instances -> Operation]
          /\ Quiet.pc = "idle" /\ Quiet.cmd = NoCmd
  BY DEF TypeOK, Quiet
<1> SUFFICES ASSUME tl' = NoTimeline, NEW j \in Instances, Busy(j)'
             PROVE  FALSE
  BY DEF KeyThere, Busy
<1>busy. tl = NoTimeline => \A k \in Instances : ~Busy(k)
  BY DEF KeyThere, Busy
<1>keys. /\ KeyKept \/ KeyGone
         /\ lease' # NoLease => tl = NoTimeline
  <2>1. KeyKept \/ KeyGone \/ KeyWritten
    BY KeysStep
  <2> QED
    BY <2>1, NoVersionAssumption DEF KeyKept, KeyGone, KeyWritten
<1>free. ASSUME lease' = NoLease PROVE Overtaken(j)'
  <2>1. \A e \in Nat : ~(lease' = [owner |-> j, epoch |-> e])
    BY <1>free, NobodyAssumption DEF Lease
  <2>2. TypeOK' /\ QueueInv'
    BY TypeStep, QueueStep
  <2>3. /\ owned'[j] # NotOwner => owned'[j].fence \in Nat
        /\ op'[j].pc \in {"read", "commit"} => op'[j].lease.epoch \in Nat
    <3>1. op'[j] \in Operation /\ owned'[j] \in Authority \cup {NotOwner}
      BY <2>2 DEF TypeOK
    <3>2. op'[j].pc \in {"read", "commit"} => op'[j].lease \in Lease
      BY <2>2, <3>1, OperationFacts DEF QueueInv, OpSound
    <3> QED
      BY <3>1, <3>2, AuthorityFacts DEF Lease
  <2> QED
    BY <2>1, <2>3 DEF Busy, OwnsRoom, MayRead, MayCommit, HoldsLease
<1>settled. ASSUME Settles(j) PROVE tl # NoTimeline /\ lease' = NoLease /\ Overtaken(j)
  <2>1. Busy(j)
    BY <1>settled, SettlesFacts DEF Busy
  <2> QED
    BY <2>1, <1>settled, <1>busy, <1>keys, <1>free, SettlesFacts
<1>1. CASE ElsewhereStep
  <2>1. Settles(j)
    BY <1>1, ElsewhereKept DEF Kept, Settles
  <2> QED
    BY <1>1, <2>1, <1>settled, <1>keys, NoVersionAssumption
    DEF ElsewhereStep, Send, Expire, ExpireTimeline, vars, redisVars, OvertakenByJoin
<1>2. ASSUME NEW i \in Instances, InstanceStep(i) PROVE FALSE
  <2>there. ASSUME UNCHANGED tl, Settles(j) PROVE FALSE
    BY <2>there, <1>settled
  <2>other. j # i => Settles(j)
    BY <1>2, OthersKept DEF Kept, Settles
  <2>1. CASE Leave(i)
    <3>1. Settles(j)
      BY <2>1 DEF Leave, Settles, TypeOK
    <3>2. present' = {}
      BY <2>1, <3>1, <2>there DEF Leave
    <3> QED
      BY <2>1, <3>1, <3>2, <1>settled DEF Leave, OvertakenByJoin
  <2>2. CASE CommitControl(i)
    <3>1. tl = NoTimeline
      <4>1. ASSUME NEW a \in BOOLEAN,
                   Accept(i, Controlled(op[i].base, op[i].cmd), op[i].lease.epoch,
                          op[i].base, a)
            PROVE  FALSE
        <5>1. /\ op[i].lease.epoch \in Nat
              /\ Controlled(op[i].base, op[i].cmd) \in Version
          BY <2>2, InFlightFacts DEF CommitControl
        <5> QED
          BY <4>1, <5>1, StampedFacts DEF Accept, TypeOK
      <4> QED
        BY <2>2, <4>1 DEF CommitControl
    <3>2. ~HoldsLease(i, op[i].lease.epoch)
      BY <2>2, <3>1, <1>busy DEF CommitControl, Busy, MayCommit
    <3>3. owned'[i] = NotOwner /\ op'[i].pc # "commit"
      BY <2>2, <3>2, <1>types DEF CommitControl, End, Goto, TypeOK, Operation
    <3>4. j = i
      BY <2>2, <3>2, <2>other, <2>there DEF CommitControl
    <3> QED
      BY <3>3, <3>4 DEF Busy, OwnsRoom, Overtaken, MayRead, MayCommit
  <2>3. CASE CommitSnapshot(i)
    <3>1. ~HoldsLease(i, sweeping[i].fence) => Settles(i) /\ UNCHANGED tl
      BY <2>3 DEF CommitSnapshot, Settles, TypeOK
    <3>2. HoldsLease(i, sweeping[i].fence) => tl' \in Version
      BY <2>3, InFlightFacts, StampedFacts DEF CommitSnapshot, Accept, TypeOK
    <3> QED
      BY <3>1, <3>2, <2>other, <2>there, NoVersionAssumption
  <2>4. CASE JoinCreate(i)
    <3>1. CASE lease = [owner |-> i, epoch |-> joining[i][2]]
      <4>1. tl' = IF tl = NoTimeline THEN Birth(joining[i][2]) ELSE tl
        BY <2>4, <3>1 DEF JoinCreate
      <4>2. Birth(joining[i][2]) # NoTimeline
        <5>1. joining[i][2] \in Nat
          BY InFlightFacts
        <5>2. \A e \in Nat : Birth(e) \in Version
          BY ActorConstantsAssumption DEF Birth, Version
        <5> QED
          BY <5>1, <5>2, NoVersionAssumption
      <4> QED
        BY <4>1, <4>2
    <3>2. CASE lease # [owner |-> i, epoch |-> joining[i][2]]
      BY <2>4, <3>2, <2>there DEF JoinCreate, Settles
    <3> QED
      BY <3>1, <3>2
  <2>5. CASE \E c \in Cmds : StartControl(i, c)
    <3>1. UNCHANGED <<tl, lease, owned>> /\ j = i
      BY <2>5, <2>other, <2>there DEF StartControl, redisVars
    <3>2. tl = NoTimeline /\ ~Busy(i)
      BY <3>1, <1>busy
    <3>3. CASE owned[i] = NotOwner
      <4>1. op'[i].pc = "claim"
        BY <2>5, <3>3, <1>types DEF StartControl, Quiet
      <4> QED
        BY <3>1, <3>3, <4>1 DEF Busy, OwnsRoom, Overtaken, MayRead, MayCommit
    <3>4. CASE owned[i] # NotOwner
      <4>1. op'[i].pc = "commit" /\ op'[i].lease.epoch = owned[i].fence
        BY <2>5, <3>4, <1>types DEF StartControl, Quiet
      <4>2. ~HoldsLease(i, owned[i].fence)
        BY <3>2, <3>4 DEF Busy, OwnsRoom
      <4> QED
        BY <3>1, <4>1, <4>2
        DEF Busy, OwnsRoom, Overtaken, MayRead, MayCommit, Claiming, HoldsLease
    <3> QED
      BY <3>3, <3>4
  <2>6. CASE ControlClaim(i)
    <3>1. UNCHANGED <<tl, owned>> /\ j = i
      BY <2>6, <2>other, <2>there DEF ControlClaim
    <3>2. owned[i] = NotOwner
      BY <2>6, <3>1, <1>busy DEF ControlClaim, Busy, Overtaken, Claiming
    <3>3. op'[i].pc \in {"read", "publish"}
      BY <2>6, <1>types DEF ControlClaim, Operation
    <3> QED
      BY <3>1, <3>2, <3>3 DEF Busy, OwnsRoom, Overtaken, MayRead, MayCommit
  <2>7. CASE Publish(i) \/ Revoke(i)
    <3>1. UNCHANGED <<tl, owned>> /\ j = i
      BY <2>7, <2>other, <2>there DEF Publish, Revoke, redisVars
    <3>2. ~Overtaken(i) /\ tl = NoTimeline
      BY <3>1, <1>busy DEF Busy
    <3>3. owned[i] = NotOwner
      BY <2>7, <3>2 DEF Publish, Revoke, Overtaken, Claiming
    <3>4. op'[i].pc # "commit"
      BY <2>7, <1>types DEF Publish, Revoke, End, Goto, Operation
    <3> QED
      BY <3>1, <3>3, <3>4 DEF Busy, OwnsRoom, Overtaken, MayRead, MayCommit
  <2>8. CASE ReadState(i)
    <3>1. UNCHANGED <<tl, lease>> /\ j = i
      BY <2>8, <2>other, <2>there DEF ReadState, redisVars
    <3>2. tl = NoTimeline /\ ~Busy(i)
      BY <3>1, <1>busy
    <3>3. CASE Get(i) = NoTimeline
      BY <2>8, <3>1, <3>3, <2>there, <1>types DEF ReadState, End, Settles
    <3>4. CASE Get(i) # NoTimeline
      <4>1. ~HoldsLease(i, op[i].lease.epoch)
        BY <2>8, <3>2, <3>4 DEF ReadState, Get, Busy, MayRead
      <4>2. op'[i].pc = "commit" /\ op'[i].lease = op[i].lease
        BY <2>8, <3>4, <1>types DEF ReadState, Operation
      <4>3. owned'[i].fence = op[i].lease.epoch
        BY <2>8, <3>4 DEF ReadState, TypeOK
      <4> QED
        BY <3>1, <4>1, <4>2, <4>3
        DEF Busy, OwnsRoom, Overtaken, MayRead, MayCommit, Claiming, HoldsLease
    <3> QED
      BY <3>3, <3>4
  <2>9. CASE \/ JoinGet(i) \/ JoinClaim(i) \/ JoinReadAgain(i) \/ StartSnapshot(i)
             \/ Renew(i) \/ Restart(i)
    <3>1. UNCHANGED <<tl, op>> /\ owned'[i] \in {owned[i], NotOwner}
      BY <2>9
      DEF JoinGet, JoinClaim, JoinReadAgain, StartSnapshot, Renew, Restart, redisVars,
          TypeOK
    <3> QED
      BY <3>1, <2>other, <2>there DEF Settles
  <2>10. CASE ControlRejects(i) \/ Crash(i)
    <3>1. UNCHANGED tl /\ op'[i] = Quiet /\ owned'[i] \in {owned[i], NotOwner}
      BY <2>10, <1>types DEF ControlRejects, Crash, End, redisVars, TypeOK
    <3> QED
      BY <3>1, <2>other, <2>there DEF Settles
  <2> QED
    BY <1>2, <2>1, <2>2, <2>3, <2>4, <2>5, <2>6, <2>7, <2>8, <2>9, <2>10
    DEF InstanceStep, JoinStep, ControlStep
<1> QED
  BY <1>1, <1>2, NextCases

(* An accepted control.                                                     *)
Applies(i) ==
    LET c == op[i].cmd IN
    /\ CommitControl(i)
    /\ MayCommit(i)
    /\ c \in Cmds
    /\ applied' = [applied EXCEPT ![c] = @ + 1]
    /\ tl # NoTimeline => c \notin recorded /\ recorded' = recorded \cup {c}
    /\ op'[i] = Quiet

LEMMA AppliedStep ==
    ASSUME OrderInv, [Next]_vars
    PROVE  UNCHANGED <<applied, recorded>> \/ \E i \in Instances : Applies(i)
<1> USE DEF OrderInv
<1>1. ASSUME NEW i \in Instances, CommitControl(i)
      PROVE  UNCHANGED <<applied, recorded>> \/ Applies(i)
  <2>1. op[i].cmd \in Cmds
    BY <1>1, InFlightFacts DEF CommitControl
  <2>2. End(i) => op'[i] = Quiet
    BY DEF End, TypeOK
  <2> QED
    BY <1>1, <2>1, <2>2 DEF CommitControl, Applies, MayCommit, Recorded
<1>2. ASSUME NEW i \in Instances,
             JoinGet(i) \/ JoinStep(i) \/ Leave(i) \/ Renew(i) \/ Restart(i)
      PROVE  UNCHANGED <<applied, recorded>>
  BY <1>2 DEF JoinGet, JoinStep, JoinClaim, JoinCreate, JoinReadAgain, Leave, Renew,
              Restart, redisVars, histVars
<1>3. ASSUME NEW i \in Instances,
             \/ \E c \in Cmds : StartControl(i, c)
             \/ ControlClaim(i) \/ Publish(i) \/ Revoke(i) \/ ReadState(i)
      PROVE  UNCHANGED <<applied, recorded>>
  BY <1>3 DEF StartControl, ControlClaim, Publish, Revoke, ReadState, redisVars,
              histVars
<1>4. ASSUME NEW i \in Instances,
             StartSnapshot(i) \/ CommitSnapshot(i) \/ ControlRejects(i) \/ Crash(i)
      PROVE  UNCHANGED <<applied, recorded>>
  BY <1>4 DEF StartSnapshot, CommitSnapshot, ControlRejects, Crash, redisVars, histVars
<1>5. ASSUME ElsewhereStep PROVE UNCHANGED <<applied, recorded>>
  BY <1>5 DEF ElsewhereStep, Send, Expire, ExpireTimeline, redisVars, histVars, vars
<1> QED
  BY <1>1, <1>2, <1>3, <1>4, <1>5, NextCases DEF InstanceStep, ControlStep

LEMMA RecordStep ==
    ASSUME OrderInv, RecordInv, [Next]_vars
    PROVE  RecordInv'
<1>1. scope' = scope
  BY ScopeStep DEF OrderInv
<1> SUFFICES ASSUME ~scope.keyExpires
             PROVE  /\ \A i \in Instances : KeyThere(i)'
                    /\ \A c \in Cmds : applied'[c] <= 1
                    /\ \A c \in Cmds : applied'[c] # 0 => c \in recorded'
  BY <1>1 DEF RecordInv
<1>2. \A i \in Instances : KeyThere(i)'
  BY KeyThereStep DEF RecordInv
<1>3. ASSUME NEW i \in Instances, Applies(i), NEW c \in Cmds
      PROVE  applied'[c] <= 1 /\ (applied'[c] # 0 => c \in recorded')
  <2>1. tl # NoTimeline
    BY <1>3 DEF RecordInv, KeyThere, Applies
  <2>2. applied[op[i].cmd] = 0 /\ op[i].cmd \in recorded'
    BY <1>3, <2>1 DEF RecordInv, Applies
  <2> QED
    BY <1>3, <2>1, <2>2 DEF RecordInv, Applies, OrderInv, TypeOK
<1> QED
  BY <1>2, <1>3, AppliedStep DEF RecordInv

-----------------------------------------------------------------------------
(* A command is in one place while no forward is published twice.           *)

NoMoreOf(c) ==
    /\ c \in unsent' => c \in unsent
    /\ \A i \in Instances : /\ c \in inbox'[i] => c \in inbox[i]
                            /\ op'[i].cmd = c => op[i].cmd = c

LEMMA NoMoreStep ==
    ASSUME NEW c \in Cmds, InOnePlace(c), NoMoreOf(c), applied'[c] = applied[c]
    PROVE  InOnePlace(c)'
BY DEF InOnePlace, NoMoreOf

LEMMA CmdsStep ==
    ASSUME OrderInv, [Next]_vars, resends = 0, resends' = 0,
           NEW c \in Cmds, InOnePlace(c), applied'[c] = applied[c]
    PROVE  InOnePlace(c)'
<1> USE DEF OrderInv
<1>types. /\ op \in [Instances -> Operation]
          /\ Quiet.cmd = NoCmd /\ NoCmd # c
          /\ inbox \in [Instances -> SUBSET Cmds]
  BY ActorConstantsAssumption DEF TypeOK, Quiet
<1>fewer. NoMoreOf(c) => InOnePlace(c)'
  BY NoMoreStep
<1>same. ASSUME UNCHANGED <<unsent, inbox>>,
                \A i \in Instances : op'[i].cmd = op[i].cmd \/ op'[i].cmd = NoCmd
         PROVE  InOnePlace(c)'
  BY <1>same, <1>fewer, <1>types DEF NoMoreOf
<1>op. ASSUME NEW i \in Instances, NEW pc \in Pcs, Goto(i, pc) \/ End(i)
       PROVE  \A j \in Instances : op'[j].cmd = op[j].cmd \/ op'[j].cmd = NoCmd
  BY <1>op, <1>types DEF Goto, End, Operation
<1>1. ASSUME NEW d \in Cmds, Send(d) PROVE InOnePlace(c)'
  <2>1. CmdOf[d].inst \in Instances /\ UNCHANGED op
    BY <1>1, CmdOfAssumption DEF Send
  <2>2. CASE d # c
    BY <1>1, <2>1, <2>2, <1>fewer, <1>types DEF Send, NoMoreOf
  <2>3. CASE d = c
    BY <1>1, <2>1, <2>3, <1>types DEF Send, InOnePlace
  <2> QED
    BY <2>2, <2>3
<1>2. ASSUME NEW i \in Instances, NEW d \in Cmds, StartControl(i, d)
      PROVE  InOnePlace(c)'
  <2>1. /\ UNCHANGED unsent /\ d \in inbox[i]
        /\ inbox' = [inbox EXCEPT ![i] = @ \ {d}]
        /\ op'[i].cmd = d
        /\ \A j \in Instances \ {i} : op'[j] = op[j]
    BY <1>2, <1>types DEF StartControl, Quiet
  <2>2. CASE d # c
    BY <2>1, <2>2, <1>fewer, <1>types DEF NoMoreOf
  <2>3. CASE d = c
    BY <2>1, <2>3, <1>types DEF InOnePlace
  <2> QED
    BY <2>2, <2>3
<1>3. ASSUME NEW i \in Instances, Publish(i) PROVE InOnePlace(c)'
  <2>1. CASE op[i].lease.owner \in up
    <3> DEFINE owner == op[i].lease.owner
    <3>1. op'[i] = Quiet /\ \A j \in Instances \ {i} : op'[j] = op[j]
      BY <1>3, <2>1, <1>types DEF Publish, End
    <3>2. owner \in Instances /\ UNCHANGED unsent
      BY <1>3, InFlightFacts DEF Publish, Lease
    <3>3. CASE inbox' = [inbox EXCEPT ![owner] = @ \cup {op[i].cmd}] /\ op[i].cmd = c
      BY <3>1, <3>2, <3>3, <1>types DEF InOnePlace
    <3>4. CASE inbox' = inbox
      BY <3>1, <3>2, <3>4, <1>fewer, <1>types DEF NoMoreOf
    <3>5. CASE inbox' = [inbox EXCEPT ![owner] = @ \cup {op[i].cmd}] /\ op[i].cmd # c
      BY <3>1, <3>2, <3>5, <1>fewer, <1>types DEF NoMoreOf
    <3> QED
      BY <1>3, <2>1, <3>3, <3>4, <3>5 DEF Publish
  <2>2. CASE op[i].lease.owner \notin up
    BY <1>3, <2>2, <1>op, <1>same DEF Publish, Pcs, Claiming
  <2> QED
    BY <2>1, <2>2
<1>4. ASSUME NEW i \in Instances, Revoke(i) \/ CommitControl(i) \/ ControlRejects(i)
      PROVE  InOnePlace(c)'
  BY <1>4, <1>op, <1>same DEF Revoke, CommitControl, ControlRejects, Pcs, Claiming
<1>5. ASSUME NEW i \in Instances, ControlClaim(i) PROVE InOnePlace(c)'
  <2>1. \A j \in Instances : op'[j].cmd = op[j].cmd
    BY <1>5, <1>types DEF ControlClaim, Operation
  <2> QED
    BY <1>5, <2>1, <1>same DEF ControlClaim
<1>6. ASSUME NEW i \in Instances, ReadState(i) PROVE InOnePlace(c)'
  <2>1. \A j \in Instances : op'[j].cmd = op[j].cmd \/ op'[j].cmd = NoCmd
    BY <1>6, <1>types DEF ReadState, End, Operation
  <2> QED
    BY <1>6, <2>1, <1>same DEF ReadState
<1>7. ASSUME NEW i \in Instances,
             \/ JoinGet(i) \/ JoinStep(i) \/ Leave(i) \/ Renew(i) \/ Restart(i)
             \/ StartSnapshot(i) \/ CommitSnapshot(i)
      PROVE  InOnePlace(c)'
  BY <1>7, <1>same
  DEF JoinGet, JoinStep, JoinClaim, JoinCreate, JoinReadAgain, Leave, Renew, Restart,
      StartSnapshot, CommitSnapshot
<1>8. ASSUME NEW i \in Instances, Crash(i) PROVE InOnePlace(c)'
  <2>1. UNCHANGED unsent
    BY <1>8 DEF Crash
  <2> QED
    BY <1>8, <2>1, <1>types, <1>fewer DEF Crash, NoMoreOf
<1>9. ASSUME Expire \/ ExpireTimeline \/ UNCHANGED vars PROVE InOnePlace(c)'
  BY <1>9, <1>same DEF Expire, ExpireTimeline, vars
<1> QED
  BY <1>1, <1>2, <1>3, <1>4, <1>5, <1>6, <1>7, <1>8, <1>9
  DEF Next, Step, ControlStep

LEMMA ResendsStep ==
    ASSUME resends \in Nat, [Next]_vars
    PROVE  resends' \in Nat /\ (resends' = 0 => resends = 0)
<1>1. ASSUME NEW i \in Instances, InstanceStep(i) PROVE resends' \in {resends, resends + 1}
  <2>1. CASE JoinGet(i) \/ JoinStep(i) \/ Leave(i) \/ Renew(i) \/ Restart(i)
    BY <2>1 DEF JoinGet, JoinStep, JoinClaim, JoinCreate, JoinReadAgain, Leave, Renew,
                Restart, counters
  <2>2. CASE \/ \E c \in Cmds : StartControl(i, c)
             \/ ControlClaim(i) \/ Publish(i) \/ Revoke(i) \/ ReadState(i)
    BY <2>2 DEF StartControl, ControlClaim, Publish, Revoke, ReadState, counters
  <2>3. CASE \/ CommitControl(i) \/ StartSnapshot(i) \/ CommitSnapshot(i)
             \/ ControlRejects(i) \/ Crash(i)
    BY <2>3 DEF CommitControl, StartSnapshot, CommitSnapshot, ControlRejects, Crash
  <2> QED
    BY <1>1, <2>1, <2>2, <2>3 DEF InstanceStep, ControlStep
<1>2. ASSUME ElsewhereStep PROVE resends' = resends
  BY <1>2 DEF ElsewhereStep, Send, Expire, ExpireTimeline, vars, counters
<1> QED
  BY <1>1, <1>2, NextCases

LEMMA DeliveryStep ==
    ASSUME OrderInv, DeliveryInv, [Next]_vars
    PROVE  DeliveryInv'
<1>1. resends' \in Nat /\ (resends' = 0 => resends = 0)
  BY ResendsStep DEF DeliveryInv
<1> SUFFICES ASSUME resends = 0, resends' = 0, NEW c \in Cmds PROVE InOnePlace(c)'
  BY <1>1 DEF DeliveryInv
<1>2. InOnePlace(c)
  BY DEF DeliveryInv
<1>3. CASE applied'[c] = applied[c]
  BY <1>2, <1>3, CmdsStep
<1>4. ASSUME NEW i \in Instances, Applies(i), op[i].cmd = c PROVE InOnePlace(c)'
  <2>1. /\ UNCHANGED <<unsent, inbox>>
        /\ op'[i].cmd # c
        /\ \A j \in Instances \ {i} : op'[j] = op[j]
    <3>1. InstanceStep(i)
      BY <1>4 DEF Applies, InstanceStep, ControlStep
    <3>2. \A j \in Instances \ {i} : op'[j] = op[j]
      BY <3>1, OthersKept DEF Kept, OrderInv
    <3>3. Quiet.cmd # c
      BY ActorConstantsAssumption DEF Quiet
    <3> QED
      BY <1>4, <3>2, <3>3 DEF Applies, CommitControl
  <2>2. /\ c \notin unsent
        /\ \A j \in Instances : c \notin inbox[j] /\ (op[j].cmd = c => j = i)
        /\ applied[c] = 0
    BY <1>2, <1>4 DEF InOnePlace
  <2>3. applied'[c] = 1
    BY <1>4, <2>2 DEF Applies, OrderInv, TypeOK
  <2> QED
    BY <2>1, <2>2, <2>3 DEF InOnePlace
<1>5. applied'[c] = applied[c] \/ \E i \in Instances : Applies(i) /\ op[i].cmd = c
  BY AppliedStep DEF Applies, OrderInv, TypeOK
<1> QED
  BY <1>3, <1>4, <1>5

-----------------------------------------------------------------------------
(* The memory of the owner.                                                 *)

(* The key goes when the room is emptied, or when its day is over.          *)
LEMMA DropStep ==
    ASSUME OrderInv, [Next]_vars, tl # NoTimeline, tl' = NoTimeline
    PROVE  ExpireTimeline \/ \E i \in Instances : Leave(i) /\ present' = {}
<1> USE DEF OrderInv
<1>1. ~KeyWritten
  BY NoVersionAssumption DEF KeyWritten
<1>2. ASSUME NEW i \in Instances, NEW t \in Version, NEW e \in Nat, NEW b,
             NEW a \in BOOLEAN, Accept(i, t, e, b, a)
      PROVE  FALSE
  BY <1>2, StampedFacts DEF Accept, TypeOK
<1>3. ASSUME NEW i \in Instances, CommitControl(i) PROVE FALSE
  <2>1. /\ op[i].lease.epoch \in Nat
        /\ Controlled(op[i].base, op[i].cmd) \in Version
    BY <1>3, InFlightFacts DEF CommitControl
  <2> QED
    BY <1>2, <1>3, <2>1 DEF CommitControl
<1>4. ASSUME NEW i \in Instances, CommitSnapshot(i) PROVE FALSE
  <2>1. /\ sweeping[i].fence \in Nat
        /\ [sweeping[i].timeline EXCEPT !.origin = Sweep] \in Version
    BY <1>4, InFlightFacts DEF CommitSnapshot
  <2> QED
    BY <1>2, <1>4, <2>1 DEF CommitSnapshot
<1>5. ASSUME NEW i \in Instances, InstanceStep(i) PROVE Leave(i) /\ present' = {}
  <2>1. CASE JoinGet(i) \/ JoinStep(i) \/ Leave(i) \/ Renew(i) \/ Restart(i)
    BY <2>1 DEF JoinGet, JoinStep, JoinClaim, JoinCreate, JoinReadAgain, Leave, Renew,
                Restart, redisVars
  <2>2. CASE \/ \E c \in Cmds : StartControl(i, c)
             \/ ControlClaim(i) \/ Publish(i) \/ Revoke(i) \/ ReadState(i)
    BY <2>2 DEF StartControl, ControlClaim, Publish, Revoke, ReadState, redisVars
  <2>3. CASE StartSnapshot(i) \/ ControlRejects(i) \/ Crash(i)
    BY <2>3 DEF StartSnapshot, ControlRejects, Crash, redisVars
  <2> QED
    BY <1>3, <1>4, <1>5, <2>1, <2>2, <2>3 DEF InstanceStep, ControlStep
<1>6. ASSUME ElsewhereStep PROVE ExpireTimeline
  BY <1>6 DEF ElsewhereStep, Send, Expire, redisVars, vars
<1> QED
  BY <1>5, <1>6, NextCases

(* An authority comes from a join that creates the room or finds it, or     *)
(* from the room's state.                                                   *)
LEMMA OwnedStep ==
    ASSUME TypeOK, NEW i \in Instances, InstanceStep(i),
           owned'[i] # NotOwner, owned[i] = NotOwner
    PROVE  \/ JoinCreate(i) /\ joining'[i] = NotJoining
           \/ ReadState(i) /\ tl # NoTimeline /\ tl' = tl
<1>1. CASE JoinGet(i) \/ JoinClaim(i) \/ JoinReadAgain(i) \/ Leave(i) \/ Renew(i)
           \/ Restart(i)
  BY <1>1 DEF JoinGet, JoinClaim, JoinReadAgain, Leave, Renew, Restart, redisVars, TypeOK
<1>2. CASE JoinCreate(i)
  BY <1>2 DEF JoinCreate, Joined, TypeOK
<1>3. CASE ReadState(i)
  BY <1>3 DEF ReadState, Get, redisVars, TypeOK
<1>4. CASE \/ \E c \in Cmds : StartControl(i, c)
           \/ ControlClaim(i) \/ Publish(i) \/ Revoke(i)
  BY <1>4 DEF StartControl, ControlClaim, Publish, Revoke, redisVars
<1>5. CASE CommitControl(i) \/ CommitSnapshot(i)
  <2>1. owned' \in {Refreshed(i, tl'), owned, [owned EXCEPT ![i] = NotOwner]}
    BY <1>5 DEF CommitControl, CommitSnapshot, Accept
  <2> QED
    BY <2>1, RefreshedFacts DEF TypeOK
<1>6. CASE StartSnapshot(i) \/ ControlRejects(i) \/ Crash(i)
  BY <1>6 DEF StartSnapshot, ControlRejects, Crash, redisVars, TypeOK
<1> QED
  BY <1>1, <1>2, <1>3, <1>4, <1>5, <1>6 DEF InstanceStep, JoinStep, ControlStep

(* A join in progress has its socket, and starts without an authority.      *)
LEMMA JoiningStep ==
    ASSUME OrderInv, JoinInv, NEW i \in Instances, InstanceStep(i)
    PROVE  /\ joining'[i] # NotJoining => i \in present'
           /\ \A j \in Instances \ {i} : j \in present => j \in present'
           /\ Creating(i)' => Creating(i) \/ owned'[i] = NotOwner
<1> USE DEF OrderInv
<1>types. NotJoining[1] = "no"
  BY DEF NotJoining
<1>1. CASE JoinGet(i)
  <2>1. owned[i] = NotOwner \/ Get(i) # NoTimeline
    BY InFlightFacts DEF Get
  <2> QED
    BY <1>1, <1>types, <2>1 DEF JoinGet, Joined, Creating, redisVars, TypeOK
<1>2. CASE JoinClaim(i) \/ JoinCreate(i) \/ JoinReadAgain(i)
  <2>1. i \in present /\ UNCHANGED present
    BY <1>2, <1>types DEF JoinClaim, JoinCreate, JoinReadAgain, JoinInv, roomVars
  <2>2. Creating(i)' => Creating(i)
    BY <1>2, <1>types
    DEF JoinClaim, JoinCreate, JoinReadAgain, Joined, Creating, TypeOK
  <2> QED
    BY <2>1, <2>2
<1>3. CASE Leave(i) \/ Crash(i)
  BY <1>3, <1>types DEF Leave, Crash, Creating, TypeOK
<1>4. CASE ControlStep(i)
  BY <1>4 DEF ControlStep, StartControl, ControlClaim, Publish, Revoke, ReadState,
              CommitControl, roomVars, Creating, JoinInv
<1>5. CASE \/ StartSnapshot(i) \/ CommitSnapshot(i) \/ Renew(i) \/ ControlRejects(i)
           \/ Restart(i)
  BY <1>5 DEF StartSnapshot, CommitSnapshot, Renew, ControlRejects, Restart, roomVars,
              Creating, JoinInv
<1> QED
  BY <1>1, <1>2, <1>3, <1>4, <1>5 DEF InstanceStep, JoinStep

LEMMA JoinInvStep ==
    ASSUME OrderInv, JoinInv, [Next]_vars
    PROVE  JoinInv'
<1> USE DEF OrderInv
<1>types. NotJoining[1] = "no"
  BY DEF NotJoining
<1>1. ASSUME NEW j \in Instances PROVE joining'[j] # NotJoining => j \in present'
  <2>1. CASE ElsewhereStep
    <3>1. UNCHANGED <<joining, present>>
      BY <2>1 DEF ElsewhereStep, Send, Expire, ExpireTimeline, roomVars, vars
    <3> QED
      BY <3>1 DEF JoinInv
  <2>2. ASSUME NEW i \in Instances, InstanceStep(i)
        PROVE  joining'[j] # NotJoining => j \in present'
    <3>1. CASE j = i
      BY <2>2, <3>1, JoiningStep
    <3>2. CASE j # i
      BY <2>2, <3>2, JoiningStep, OthersKept DEF JoinInv, Kept
    <3> QED
      BY <3>1, <3>2
  <2> QED
    BY <2>1, <2>2, NextCases
<1>2. ASSUME NEW j \in Instances, Creating(j)', tl' = NoTimeline
      PROVE  owned'[j] = NotOwner
  <2>1. CASE tl # NoTimeline
    <3>1. CASE ExpireTimeline
      BY <1>2, <3>1, <1>types DEF ExpireTimeline, Creating
    <3>2. ASSUME NEW i \in Instances, Leave(i), present' = {} PROVE FALSE
      <4>1. joining'[j] # NotJoining
        BY <1>2, <1>types DEF Creating
      <4> QED
        BY <1>1, <3>2, <4>1
    <3> QED
      BY <1>2, <2>1, <3>1, <3>2, DropStep
  <2>2. CASE tl = NoTimeline /\ ElsewhereStep
    BY <1>2, <2>2, ElsewhereKept DEF Kept, JoinInv, Creating
  <2>3. ASSUME tl = NoTimeline, NEW i \in Instances, InstanceStep(i)
        PROVE  owned'[j] = NotOwner
    <3>1. CASE j # i
      BY <1>2, <2>3, <3>1, OthersKept DEF Kept, JoinInv, Creating
    <3>2. CASE j = i
      <4>1. owned'[i] = NotOwner \/ owned[i] = NotOwner
        BY <1>2, <2>3, <3>2, JoiningStep DEF JoinInv
      <4>2. ~(JoinCreate(i) /\ joining'[i] = NotJoining)
        BY <1>2, <3>2, <1>types DEF Creating
      <4> QED
        BY <2>3, <3>2, <4>1, <4>2, OwnedStep
    <3> QED
      BY <3>1, <3>2
  <2> QED
    BY <2>1, <2>2, <2>3, NextCases
<1> QED
  BY <1>1, <1>2 DEF JoinInv, Creating

(* A lease a join has overtaken a control under goes by a revocation only.  *)
LEMMA GoneStep ==
    ASSUME OrderInv, [Next]_vars, lease # NoLease, lease' = NoLease,
           NEW j \in Instances, Overtaken(j)
    PROVE  \E i \in Instances : op[i].pc = "revoke" /\ lease = op[i].lease
<1> USE DEF OrderInv
<1>claim. ASSUME NEW i \in Instances, Claim(i) PROVE FALSE
  BY <1>claim, ClaimTypes, NobodyAssumption
<1>1. ASSUME ElsewhereStep PROVE FALSE
  BY <1>1 DEF ElsewhereStep, Send, Expire, ExpireTimeline, OvertakenByJoin, redisVars, vars
<1>2. ASSUME NEW i \in Instances, InstanceStep(i)
      PROVE  op[i].pc = "revoke" /\ lease = op[i].lease
  <2>1. CASE JoinClaim(i) \/ ControlClaim(i) \/ Renew(i)
    BY <1>claim, <2>1 DEF JoinClaim, ControlClaim, Renew
  <2>2. CASE \/ JoinGet(i) \/ JoinCreate(i) \/ JoinReadAgain(i) \/ Leave(i)
             \/ Restart(i)
    BY <2>2 DEF JoinGet, JoinCreate, JoinReadAgain, Leave, Restart, redisVars,
                OvertakenByJoin
  <2>3. CASE \/ \E c \in Cmds : StartControl(i, c)
             \/ Publish(i) \/ Revoke(i) \/ ReadState(i)
    BY <2>3 DEF StartControl, Publish, Revoke, ReadState, redisVars
  <2>4. CASE \/ CommitControl(i) \/ StartSnapshot(i) \/ CommitSnapshot(i)
             \/ ControlRejects(i) \/ Crash(i)
    BY <2>4
    DEF CommitControl, StartSnapshot, CommitSnapshot, ControlRejects, Crash, redisVars
  <2> QED
    BY <1>2, <2>1, <2>2, <2>3, <2>4 DEF InstanceStep, JoinStep, ControlStep
<1> QED
  BY <1>1, <1>2, NextCases

(* A control is overtaken by the join that creates or finds the room.       *)
LEMMA OvertakenStep ==
    ASSUME OrderInv, NEW i \in Instances, InstanceStep(i), Overtaken(i)'
    PROVE  \/ Overtaken(i) /\ owned'[i] = owned[i]
           \/ /\ JoinCreate(i)
              /\ HoldsLease(i, joining[i][2])
              /\ owned'[i] = [fence |-> joining[i][2], timeline |-> tl']
<1> USE DEF OrderInv
<1>types. /\ op \in [Instances -> Operation]
          /\ Quiet.pc = "idle"
  BY DEF TypeOK, Quiet
<1>now. op'[i].pc \in Claiming /\ owned'[i] # NotOwner
  BY DEF Overtaken
<1>1. CASE JoinGet(i) \/ JoinClaim(i) \/ JoinReadAgain(i) \/ Leave(i) \/ Renew(i)
           \/ Restart(i) \/ StartSnapshot(i)
  BY <1>1, <1>now
  DEF JoinGet, JoinClaim, JoinReadAgain, Leave, Renew, Restart, StartSnapshot, redisVars,
      TypeOK, Overtaken
<1>2. CASE JoinCreate(i)
  BY <1>2, <1>now DEF JoinCreate, HoldsLease, Overtaken, TypeOK
<1>3. CASE \E c \in Cmds : StartControl(i, c)
  BY <1>3, <1>now, <1>types DEF StartControl, Quiet, Claiming, redisVars
<1>4. CASE ControlClaim(i) \/ Publish(i) \/ Revoke(i)
  <2>1. op[i].pc \in Claiming /\ UNCHANGED owned
    BY <1>4 DEF ControlClaim, Publish, Revoke, Claiming, redisVars
  <2> QED
    BY <1>now, <2>1 DEF Overtaken
<1>5. CASE ReadState(i)
  <2>1. op'[i].pc \in {"idle", "commit"}
    BY <1>5, <1>types DEF ReadState, End, Operation
  <2> QED
    BY <1>now, <2>1 DEF Claiming
<1>6. CASE CommitControl(i)
  <2>1. op'[i].pc = "idle" \/ owned'[i] = NotOwner
    BY <1>6, <1>types DEF CommitControl, End, TypeOK
  <2> QED
    BY <1>now, <2>1 DEF Claiming
<1>7. CASE CommitSnapshot(i)
  <2>1. op'[i].pc = "idle"
    BY <1>7, <1>types DEF CommitSnapshot, QueueInv, OpSound
  <2> QED
    BY <1>now, <2>1 DEF Claiming
<1>8. CASE ControlRejects(i) \/ Crash(i)
  <2>1. op'[i].pc = "idle"
    BY <1>8, <1>types DEF ControlRejects, Crash, End
  <2> QED
    BY <1>now, <2>1 DEF Claiming
<1> QED
  BY <1>1, <1>2, <1>3, <1>4, <1>5, <1>6, <1>7, <1>8
  DEF InstanceStep, JoinStep, ControlStep

(* A revocation is of the lease of an instance found dead.                  *)
LEMMA RevokeStep ==
    ASSUME OrderInv, NEW i \in Instances, InstanceStep(i), op'[i].pc = "revoke"
    PROVE  \/ op'[i] = op[i]
           \/ /\ op'[i].lease = op[i].lease
              /\ op[i].lease.owner \in Instances \ up
<1> USE DEF OrderInv
<1>types. /\ op \in [Instances -> Operation]
          /\ Quiet.pc = "idle"
  BY DEF TypeOK, Quiet
<1>1. CASE Publish(i)
  <2>1. op[i].lease.owner \in Instances
    BY <1>1, InFlightFacts DEF Publish, Lease
  <2> QED
    BY <1>1, <2>1, <1>types DEF Publish, End, Goto, Operation
<1>2. CASE \E c \in Cmds : StartControl(i, c)
  BY <1>2, <1>types DEF StartControl, Quiet
<1>3. CASE ControlClaim(i)
  BY <1>3, <1>types DEF ControlClaim, Operation
<1>4. CASE Revoke(i) \/ ReadState(i) \/ CommitControl(i) \/ ControlRejects(i) \/ Crash(i)
  BY <1>4, <1>types DEF Revoke, ReadState, CommitControl, ControlRejects, Crash, End,
                       Goto, Operation
<1>5. CASE \/ JoinGet(i) \/ JoinStep(i) \/ Leave(i) \/ Renew(i) \/ Restart(i)
           \/ StartSnapshot(i) \/ CommitSnapshot(i)
  BY <1>5 DEF JoinGet, JoinStep, JoinClaim, JoinCreate, JoinReadAgain, Leave, Renew,
              Restart, StartSnapshot, CommitSnapshot
<1> QED
  BY <1>1, <1>2, <1>3, <1>4, <1>5 DEF InstanceStep, ControlStep

LEMMA UpStep ==
    ASSUME [Next]_vars
    PROVE  \/ crashes' = crashes /\ up \subseteq up'
           \/ \E i \in Instances : Crash(i) /\ crashes' = crashes + 1
<1>1. CASE ElsewhereStep
  BY <1>1 DEF ElsewhereStep, Send, Expire, ExpireTimeline, counters, vars
<1>2. ASSUME NEW i \in Instances, InstanceStep(i)
      PROVE  \/ crashes' = crashes /\ up \subseteq up'
             \/ Crash(i) /\ crashes' = crashes + 1
  <2>1. CASE JoinGet(i) \/ JoinStep(i) \/ Leave(i) \/ Renew(i) \/ Restart(i)
    BY <2>1 DEF JoinGet, JoinStep, JoinClaim, JoinCreate, JoinReadAgain, Leave, Renew,
                Restart, counters
  <2>2. CASE \/ \E c \in Cmds : StartControl(i, c)
             \/ ControlClaim(i) \/ Publish(i) \/ Revoke(i) \/ ReadState(i)
    BY <2>2 DEF StartControl, ControlClaim, Publish, Revoke, ReadState, counters
  <2>3. CASE \/ CommitControl(i) \/ StartSnapshot(i) \/ CommitSnapshot(i)
             \/ ControlRejects(i) \/ Crash(i)
    BY <2>3 DEF CommitControl, StartSnapshot, CommitSnapshot, ControlRejects, Crash
  <2> QED
    BY <1>2, <2>1, <2>2, <2>3 DEF InstanceStep, ControlStep
<1> QED
  BY <1>1, <1>2, NextCases

LEMMA DeadInStep ==
    ASSUME OrderInv, [Next]_vars, NEW D, DeadIn(D), NEW E,
           D \subseteq E,
           \A i \in Instances : i \in up /\ i \notin up' => i \in E,
           \A i \in Instances : Crash(i) => i \in E
    PROVE  DeadIn(E)'
<1> USE DEF OrderInv
<1>1. ASSUME NEW j \in Instances, op'[j].pc = "revoke" PROVE op'[j].lease.owner \in E
  <2>1. ASSUME op'[j] = op[j] PROVE op'[j].lease.owner \in E
    BY <1>1, <2>1 DEF DeadIn
  <2>2. CASE ElsewhereStep
    BY <2>1, <2>2, ElsewhereKept DEF Kept
  <2>3. ASSUME NEW i \in Instances, InstanceStep(i) PROVE op'[j].lease.owner \in E
    <3>1. CASE j # i
      BY <2>1, <2>3, <3>1, OthersKept DEF Kept
    <3>2. CASE j = i /\ op'[i] # op[i]
      <4>1. op'[i].lease = op[i].lease /\ op[i].lease.owner \in Instances \ up
        BY <1>1, <2>3, <3>2, RevokeStep
      <4>2. op[i].lease.owner \in D
        BY <4>1 DEF DeadIn, Safe
      <4> QED
        BY <3>2, <4>1, <4>2
    <3> QED
      BY <2>1, <3>1, <3>2
  <2> QED
    BY <2>2, <2>3, NextCases
<1>2. ASSUME NEW j \in Instances \ E PROVE Safe(j)'
  <2>1. Safe(j)
    BY <1>2 DEF DeadIn
  <2>2. j \in up'
    BY <1>2, <2>1 DEF Safe
  <2>3. ASSUME Overtaken(j) PROVE lease' = lease
    <3>1. OwnsRoom(j) /\ lease = [owner |-> j, epoch |-> owned[j].fence]
      BY <2>1, <2>3 DEF Safe, OwnsRoom, HoldsLease
    <3>2. lease # NoLease /\ lease.owner = j
      <4>1. owned[j].fence \in Nat
        BY <3>1, InFlightFacts DEF OwnsRoom
      <4> QED
        BY <3>1, <4>1, NobodyAssumption DEF Lease
    <3>3. ~(\E i \in Instances : op[i].pc = "revoke" /\ lease = op[i].lease)
      BY <1>2, <3>2 DEF DeadIn
    <3>4. lease' # NoLease
      BY <2>3, <3>2, <3>3, GoneStep
    <3> QED
      BY <3>2, <3>4, KeysStep DEF LeaseKept, LeaseGone, LeaseTaken
  <2>4. ASSUME Overtaken(j)' PROVE OwnsRoom(j)'
    <3>1. CASE Overtaken(j) /\ owned'[j] = owned[j]
      BY <2>1, <2>3, <3>1 DEF Safe, OwnsRoom, HoldsLease
    <3>2. CASE ElsewhereStep
      BY <2>4, <3>1, <3>2, ElsewhereKept DEF Kept, Overtaken
    <3>3. ASSUME NEW i \in Instances, InstanceStep(i) PROVE OwnsRoom(j)'
      <4>1. CASE j # i
        BY <2>4, <3>1, <3>3, <4>1, OthersKept DEF Kept, Overtaken
      <4>2. CASE /\ j = i /\ JoinCreate(i) /\ HoldsLease(i, joining[i][2])
                 /\ owned'[i] = [fence |-> joining[i][2], timeline |-> tl']
        BY <2>4, <4>2 DEF Overtaken, OwnsRoom, HoldsLease, JoinCreate
      <4> QED
        BY <2>4, <3>1, <3>3, <4>1, <4>2, OvertakenStep
    <3> QED
      BY <3>2, <3>3, NextCases
  <2> QED
    BY <2>2, <2>4 DEF Safe
<1> QED
  BY <1>1, <1>2 DEF DeadIn

LEMMA CrashStep ==
    ASSUME OrderInv, CrashInv, [Next]_vars
    PROVE  CrashInv'
<1>types. crashes \in Nat
  BY DEF OrderInv, ScopeInv
<1>1. CASE crashes' = crashes /\ up \subseteq up'
  <2>1. ASSUME NEW D, DeadIn(D) PROVE DeadIn(D)'
    <3>1. \A i \in Instances : ~Crash(i)
      BY <1>1, <1>types DEF Crash
    <3> QED
      BY <1>1, <2>1, <3>1, DeadInStep
  <2> QED
    BY <1>1, <2>1 DEF CrashInv
<1>2. ASSUME NEW i \in Instances, Crash(i), crashes' = crashes + 1 PROVE CrashInv'
  <2>1. CASE crashes = 0
    <3>1. up' = up \ {i}
      BY <1>2 DEF Crash
    <3>2. \A k \in Instances : Crash(k) => k = i
      BY <1>2, <3>1 DEF Crash
    <3>3. DeadIn({})
      BY <2>1 DEF CrashInv
    <3>4. DeadIn({i})'
      BY <3>1, <3>2, <3>3, DeadInStep
    <3>5. crashes' = 1 /\ crashes' # 0
      BY <1>2, <2>1
    <3> QED
      BY <3>4, <3>5, Zenon DEF CrashInv
  <2>2. CASE crashes # 0
    BY <1>2, <2>2, <1>types DEF CrashInv
  <2> QED
    BY <2>1, <2>2
<1> QED
  BY <1>1, <1>2, UpStep

(* What is the room's for an instance stays so through a step that leaves   *)
(* the key, or drops it, and lets the instance settle.                      *)
Sweeps(i) == sweeping'[i] \in {sweeping[i], NotOwner}

LEMMA SweepsFacts ==
    ASSUME OrderInv, [Next]_vars, NEW i \in Instances, Sweeps(i), MaySweep(i)'
    PROVE  MaySweep(i) /\ sweeping'[i] = sweeping[i]
<1>1. sweeping'[i] = sweeping[i] /\ sweeping[i] # NotOwner
  BY DEF Sweeps, MaySweep
<1>2. sweeping[i].fence \in Nat /\ sweeping[i].fence <= epochs
  BY <1>1, InFlightFacts DEF OrderInv, EpochInv, Minted
<1>3. PICK e \in Nat : e = sweeping[i].fence
  BY <1>2
<1>4. HoldsLease(i, e)'
  BY <1>1, <1>3 DEF MaySweep, HoldsLease
<1>5. HoldsLease(i, e)
  BY <1>2, <1>3, <1>4, NoNewHolder
<1> QED
  BY <1>1, <1>3, <1>5 DEF MaySweep

(* Who is dead at most once: the bound under which the memory is current.   *)
Calm == failures = 0 /\ crashes <= 1
CalmInv ==
    /\ JoinInv
    /\ CrashInv
    /\ \A i \in Instances : Current(i)

(* While a control is overtaken, the lease only becomes free when it was    *)
(* free already, or the instance's own.                                     *)
LEMMA MayClaimStep ==
    ASSUME OrderInv, CrashInv, Calm, [Next]_vars, NEW j \in Instances,
           Overtaken(j), lease' = NoLease \/ lease'.owner = j
    PROVE  MayClaim(j)
<1> USE DEF OrderInv
<1>1. crashes \in {0, 1}
  BY DEF Calm, ScopeInv
<1>2. CASE lease' = lease
  BY <1>2 DEF MayClaim
<1>3. CASE lease = NoLease
  BY <1>3 DEF MayClaim
<1>4. CASE lease # NoLease /\ lease' = NoLease
  <2>1. PICK i \in Instances : op[i].pc = "revoke" /\ lease = op[i].lease
    BY <1>4, GoneStep
  <2>2. PICK x \in Instances : DeadIn({x})
    <3>1. crashes # 0
      BY <2>1 DEF CrashInv, DeadIn
    <3> QED
      BY <1>1, <3>1 DEF CrashInv
  <2>3. lease.owner = x
    BY <2>1, <2>2 DEF DeadIn
  <2>4. CASE j = x
    BY <2>3, <2>4 DEF MayClaim
  <2>5. CASE j # x
    <3>1. OwnsRoom(j)
      BY <2>2, <2>5 DEF DeadIn, Safe
    <3>2. owned[j].fence \in Nat
      BY <3>1, InFlightFacts DEF OwnsRoom
    <3>3. lease.owner = j
      BY <3>1, <3>2 DEF OwnsRoom, HoldsLease
    <3> QED
      BY <3>3 DEF MayClaim
  <2> QED
    BY <2>4, <2>5
<1> QED
  BY <1>2, <1>3, <1>4, KeysStep DEF LeaseKept, LeaseGone, LeaseTaken

LEMMA SettledCurrent ==
    ASSUME OrderInv, CalmInv, Calm, [Next]_vars, NEW j \in Instances,
           Settles(j), Sweeps(j),
           owned'[j] \in {owned[j], NotOwner},
           tl' = tl \/ tl' = NoTimeline,
           MayCommit(j)' \/ MaySweep(j)' => owned'[j] = owned[j]
    PROVE  Current(j)'
<1> USE DEF OrderInv
<1>now. Current(j)
  BY DEF CalmInv
<1>room. ASSUME NEW t, TheRooms(t), NEW u, u = t PROVE tl' # NoTimeline => u = tl'
  BY <1>room DEF TheRooms
<1>1. ASSUME MayCommit(j)' PROVE MayCommit(j) /\ op'[j] = op[j]
  <2>1. op'[j].pc = "commit"
    BY <1>1 DEF MayCommit
  <2> QED
    BY <1>1, <2>1, SettlesFacts DEF Settles, Quiet
<1>2. ASSUME MaySweep(j)' PROVE MaySweep(j) /\ sweeping'[j] = sweeping[j]
  BY <1>2, SweepsFacts
<1>3. ASSUME MayRead(j)' \/ OwnsRoom(j)' \/ MayClaim(j)'
      PROVE  /\ MayRead(j) \/ OwnsRoom(j) \/ MayClaim(j)
             /\ owned'[j] = owned[j]
  <2>1. owned'[j] = owned[j]
    BY <1>3 DEF MayRead, OwnsRoom, MayClaim, Overtaken
  <2>2. ASSUME MayClaim(j)' PROVE MayClaim(j)
    BY <2>2, MayClaimStep, SettlesFacts DEF MayClaim, CalmInv
  <2> QED
    BY <1>3, <2>1, <2>2, SettlesFacts
<1>4. ASSUME MayCommit(j)' \/ MaySweep(j)', tl' = NoTimeline PROVE owned'[j] # NotOwner
  <2>1. owned'[j] = owned[j]
    BY <1>4
  <2>2. CASE tl = NoTimeline
    BY <1>now, <1>1, <1>2, <1>4, <2>1, <2>2 DEF Current
  <2>3. CASE tl # NoTimeline
    <3>1. CASE ExpireTimeline
      BY <1>1, <1>2, <1>4, <3>1 DEF ExpireTimeline, MayCommit, MaySweep, Quiet
    <3>2. CASE \E i \in Instances : Leave(i) /\ present' = {}
      <4>1. lease' = NoLease
        BY <3>2 DEF Leave
      <4>2. \A e \in Nat : ~(lease' = [owner |-> j, epoch |-> e])
        BY <4>1, NobodyAssumption DEF Lease
      <4>3. MayCommit(j) \/ MaySweep(j)
        BY <1>1, <1>2, <1>4
      <4>4. \/ MayCommit(j)' /\ op'[j].lease.epoch \in Nat
            \/ MaySweep(j)' /\ sweeping'[j].fence \in Nat
        BY <1>1, <1>2, <1>4, InFlightFacts DEF MayCommit, MaySweep
      <4> QED
        BY <4>2, <4>4 DEF MayCommit, MaySweep, HoldsLease
    <3> QED
      BY <1>4, <2>3, <3>1, <3>2, DropStep
  <2> QED
    BY <2>2, <2>3
<1> QED
  BY <1>now, <1>1, <1>2, <1>3, <1>4 DEF Current, TheRooms

(* Only the holder of the lease writes the key, and keeps the lease.        *)
LEMMA WriterHolds ==
    ASSUME OrderInv, NEW i \in Instances, InstanceStep(i), tl' # tl, tl' # NoTimeline
    PROVE  lease # NoLease /\ lease.owner = i /\ lease' = lease
<1> USE DEF OrderInv
<1>holds. ASSUME NEW e \in Nat, HoldsLease(i, e) PROVE lease # NoLease /\ lease.owner = i
  BY <1>holds, NobodyAssumption DEF HoldsLease, Lease
<1>1. CASE JoinCreate(i)
  <2>1. lease = [owner |-> i, epoch |-> joining[i][2]] /\ lease' = lease
    BY <1>1 DEF JoinCreate
  <2>2. joining[i][2] \in Nat
    BY InFlightFacts
  <2> QED
    BY <1>holds, <2>1, <2>2 DEF HoldsLease
<1>2. CASE CommitControl(i)
  <2>1. HoldsLease(i, op[i].lease.epoch) /\ lease' = lease
    BY <1>2 DEF CommitControl
  <2>2. op[i].lease.epoch \in Nat
    BY <1>2, InFlightFacts DEF CommitControl
  <2> QED
    BY <1>holds, <2>1, <2>2
<1>3. CASE CommitSnapshot(i)
  <2>1. HoldsLease(i, sweeping[i].fence) /\ lease' = lease
    BY <1>3 DEF CommitSnapshot
  <2>2. sweeping[i].fence \in Nat
    BY <1>3, InFlightFacts DEF CommitSnapshot
  <2> QED
    BY <1>holds, <2>1, <2>2
<1>4. CASE \/ JoinGet(i) \/ JoinClaim(i) \/ JoinReadAgain(i) \/ Leave(i)
           \/ Renew(i) \/ Restart(i)
  BY <1>4 DEF JoinGet, JoinClaim, JoinReadAgain, Leave, Renew, Restart, redisVars
<1>5. CASE \/ \E c \in Cmds : StartControl(i, c)
           \/ ControlClaim(i) \/ Publish(i) \/ Revoke(i) \/ ReadState(i)
  BY <1>5 DEF StartControl, ControlClaim, Publish, Revoke, ReadState, redisVars
<1>6. CASE StartSnapshot(i) \/ ControlRejects(i) \/ Crash(i)
  BY <1>6 DEF StartSnapshot, ControlRejects, Crash, redisVars
<1> QED
  BY <1>1, <1>2, <1>3, <1>4, <1>5, <1>6 DEF InstanceStep, JoinStep, ControlStep

LEMMA ElsewhereCurrent ==
    ASSUME OrderInv, CalmInv, Calm, [Next]_vars, NEW j \in Instances, Kept(j),
           ElsewhereStep \/ \E i \in Instances \ {j} : InstanceStep(i)
    PROVE  Current(j)'
<1>1. CASE tl' = tl \/ tl' = NoTimeline
  BY <1>1, SettledCurrent DEF Kept, Settles, Sweeps
<1>2. CASE tl' # tl /\ tl' # NoTimeline
  <2>1. ~ElsewhereStep
    BY <1>2 DEF ElsewhereStep, Send, Expire, ExpireTimeline, redisVars, vars
  <2>2. PICK i \in Instances \ {j} : InstanceStep(i)
    BY <2>1
  <2>3. lease' # NoLease /\ lease'.owner # j
    BY <1>2, <2>2, WriterHolds
  <2>4. ~MayClaim(j)'
    BY <2>3 DEF MayClaim
  <2>5. \A e : lease' # [owner |-> j, epoch |-> e]
    BY <2>3
  <2>6. ~MayCommit(j)' /\ ~MaySweep(j)' /\ ~MayRead(j)' /\ ~OwnsRoom(j)'
    BY <2>5 DEF MayCommit, MaySweep, MayRead, OwnsRoom, HoldsLease
  <2> QED
    BY <2>4, <2>6 DEF Current
<1> QED
  BY <1>1, <1>2

(* The instance at work: joins and leases.                                  *)
LEMMA JoinCurrent ==
    ASSUME OrderInv, CalmInv, Calm, [Next]_vars, NEW i \in Instances,
           \/ JoinGet(i) \/ JoinStep(i) \/ Leave(i) \/ Renew(i) \/ Restart(i)
           \/ ControlRejects(i) \/ Crash(i)
    PROVE  Current(i)'
<1> USE DEF OrderInv
<1>now. Current(i)
  BY DEF CalmInv
<1>quiet. op'[i] = Quiet => ~MayCommit(i)'
  BY DEF Quiet, MayCommit
<1>1. CASE JoinGet(i) \/ JoinClaim(i) \/ JoinReadAgain(i) \/ Restart(i)
  <2>1. UNCHANGED <<tl, owned, op, sweeping>>
    BY <1>1 DEF JoinGet, JoinClaim, JoinReadAgain, Restart, redisVars
  <2> QED
    BY <2>1, SettledCurrent DEF Settles, Sweeps
<1>2. CASE Leave(i)
  <2>1. /\ UNCHANGED <<op, sweeping>>
        /\ \/ UNCHANGED <<tl, owned>>
           \/ tl' = NoTimeline /\ lease' = NoLease /\ owned'[i] = NotOwner
    BY <1>2 DEF Leave, TypeOK
  <2>2. ASSUME MayCommit(i)' \/ MaySweep(i)' PROVE lease' # NoLease
    <3>1. \/ op[i].pc = "commit" /\ lease' = [owner |-> i, epoch |-> op[i].lease.epoch]
          \/ sweeping[i] # NotOwner
             /\ lease' = [owner |-> i, epoch |-> sweeping[i].fence]
      BY <2>1, <2>2 DEF MayCommit, MaySweep, HoldsLease
    <3>2. \E e \in Nat : lease' = [owner |-> i, epoch |-> e]
      BY <3>1, InFlightFacts
    <3> QED
      BY <3>2, NobodyAssumption DEF Lease
  <2> QED
    BY <2>1, <2>2, SettledCurrent DEF Settles, Sweeps
<1>3. CASE Renew(i)
  <2>1. /\ UNCHANGED <<tl, op, sweeping>>
        /\ \/ owned' = owned
           \/ ~Mine(i, lease') /\ owned'[i] = NotOwner
    BY <1>3 DEF Renew, TypeOK
  <2>2. MayCommit(i)' \/ MaySweep(i)' => Mine(i, lease')
    BY DEF MayCommit, MaySweep, HoldsLease, Mine
  <2> QED
    BY <2>1, <2>2, SettledCurrent DEF Settles, Sweeps
<1>4. CASE ControlRejects(i)
  <2>1. UNCHANGED <<tl, owned, sweeping>> /\ op'[i] = Quiet
    BY <1>4 DEF ControlRejects, End, redisVars, TypeOK
  <2> QED
    BY <2>1, SettledCurrent DEF Settles, Sweeps
<1>5. CASE Crash(i)
  <2>1. /\ UNCHANGED tl /\ op'[i] = Quiet
        /\ owned'[i] = NotOwner /\ sweeping'[i] = NotOwner
    BY <1>5 DEF Crash, redisVars, TypeOK
  <2> QED
    BY <2>1, <1>quiet, SettledCurrent DEF Settles, Sweeps, MaySweep
<1>6. CASE JoinCreate(i) /\ ~HoldsLease(i, joining[i][2])
  <2>1. UNCHANGED <<tl, owned, op, sweeping>>
    BY <1>6 DEF JoinCreate, HoldsLease
  <2> QED
    BY <2>1, SettledCurrent DEF Settles, Sweeps
<1>7. CASE JoinCreate(i) /\ HoldsLease(i, joining[i][2])
  <2> DEFINE e == joining[i][2]
  <2>1. /\ tl' = IF tl = NoTimeline THEN Birth(e) ELSE tl
        /\ owned' = [owned EXCEPT ![i] = [fence |-> e, timeline |-> tl']]
        /\ UNCHANGED <<lease, op, sweeping>>
    BY <1>7 DEF JoinCreate, HoldsLease
  <2>2. owned'[i] = [fence |-> e, timeline |-> tl']
    BY <2>1 DEF TypeOK
  <2>3. owned'[i].timeline = tl'
    BY <2>2
  <2>4. owned'[i] # NotOwner
    <3>1. TypeOK' /\ e \in Nat
      BY TypeStep, InFlightFacts
    <3>2. Birth(e) \in Version
      BY <3>1, ActorConstantsAssumption DEF Birth, Version
    <3>3. tl' \in Version
      BY <2>1, <3>2 DEF TypeOK, MaybeVersion
    <3> QED
      BY <2>2, <3>1, <3>3, NobodyAssumption DEF Authority
  <2>5. Creating(i)
    BY <1>7 DEF JoinCreate, Creating
  <2>6. MayCommit(i)' => MayCommit(i) /\ op'[i] = op[i]
    BY <2>1 DEF MayCommit, HoldsLease
  <2>7. MaySweep(i)' => MaySweep(i) /\ sweeping'[i] = sweeping[i]
    BY <2>1 DEF MaySweep, HoldsLease
  <2>8. MayCommit(i) \/ MaySweep(i) => tl # NoTimeline /\ tl' = tl
    BY <1>now, <2>1, <2>5 DEF Current, CalmInv, JoinInv
  <2> HIDE DEF e
  <2> QED
    BY <1>now, <2>3, <2>4, <2>6, <2>7, <2>8 DEF Current, TheRooms
<1> QED
  BY <1>1, <1>2, <1>3, <1>4, <1>5, <1>6, <1>7 DEF JoinStep

(* The instance at work: its control's way to the commit.                   *)
LEMMA ControlCurrent ==
    ASSUME OrderInv, CalmInv, Calm, [Next]_vars, NEW i \in Instances,
           \/ \E c \in Cmds : StartControl(i, c)
           \/ ControlClaim(i) \/ Publish(i) \/ Revoke(i) \/ ReadState(i)
    PROVE  Current(i)'
<1> USE DEF OrderInv
<1>now. Current(i) /\ OpSound(i)
  BY DEF CalmInv, QueueInv
<1>types. /\ op \in [Instances -> Operation]
          /\ Quiet.pc = "idle"
  BY DEF TypeOK, Quiet
<1>rest. op[i].pc # "idle" => sweeping[i] = NotOwner
  BY <1>now, <1>types DEF OpSound
<1>1. ASSUME NEW c \in Cmds, StartControl(i, c) PROVE Current(i)'
  <2>1. UNCHANGED <<tl, lease, owned>> /\ sweeping'[i] = NotOwner
    BY <1>1 DEF StartControl, QueueFree, redisVars
  <2>2. OwnsRoom(i)' => OwnsRoom(i)
    BY <2>1 DEF OwnsRoom, HoldsLease
  <2>3. CASE owned[i] = NotOwner
    <3>1. op'[i].pc = "claim"
      BY <1>1, <2>3, <1>types DEF StartControl, Quiet
    <3> QED
      BY <2>1, <2>3, <3>1
      DEF Current, MayCommit, MaySweep, MayRead, OwnsRoom, MayClaim, Overtaken
  <2>4. CASE owned[i] # NotOwner
    <3>1. /\ op'[i].pc = "commit"
          /\ op'[i].lease.epoch = owned[i].fence
          /\ op'[i].base = owned[i].timeline
      BY <1>1, <2>4, <1>types DEF StartControl, Quiet
    <3>2. MayCommit(i)' => OwnsRoom(i)
      BY <2>1, <2>4, <3>1 DEF MayCommit, OwnsRoom, HoldsLease
    <3>3. ~MayRead(i)' /\ ~MayClaim(i)' /\ ~MaySweep(i)'
      BY <2>1, <3>1 DEF MayRead, MayClaim, Overtaken, MaySweep, Claiming
    <3> QED
      BY <1>now, <2>1, <2>2, <2>4, <3>1, <3>2, <3>3 DEF Current, TheRooms
  <2> QED
    BY <2>3, <2>4
<1>2. CASE ControlClaim(i) \/ Publish(i) \/ Revoke(i)
  <2>1. UNCHANGED <<tl, owned, sweeping>> /\ op[i].pc \in Claiming
    BY <1>2 DEF ControlClaim, Publish, Revoke, Claiming, redisVars
  <2>2. sweeping[i] = NotOwner
    BY <1>rest, <2>1 DEF Claiming
  <2>3. op'[i].pc # "commit"
    BY <1>2, <1>types DEF ControlClaim, Publish, Revoke, End, Goto, Operation
  <2>4. ~MayCommit(i)' /\ ~MaySweep(i)'
    BY <2>1, <2>2, <2>3 DEF MayCommit, MaySweep
  <2>5. OwnsRoom(i)' => OwnsRoom(i)
    <3> SUFFICES ASSUME OwnsRoom(i)' PROVE OwnsRoom(i)
      OBVIOUS
    <3>1. owned[i] # NotOwner
      BY <2>1 DEF OwnsRoom
    <3>2. owned[i].fence \in Nat /\ owned[i].fence <= epochs
      BY <3>1, InFlightFacts DEF EpochInv, Minted
    <3>3. PICK e \in Nat : e = owned[i].fence
      BY <3>2
    <3>4. HoldsLease(i, e)'
      BY <2>1, <3>3 DEF OwnsRoom, HoldsLease
    <3>5. HoldsLease(i, e)
      BY <3>2, <3>3, <3>4, NoNewHolder
    <3> QED
      BY <3>1, <3>3, <3>5 DEF OwnsRoom
  <2>6. MayClaim(i)' => MayClaim(i)
    BY <2>1, MayClaimStep DEF MayClaim, Overtaken, CalmInv
  <2>7. MayRead(i)' => MayClaim(i)
    <3> SUFFICES ASSUME MayRead(i)' PROVE MayClaim(i)
      OBVIOUS
    <3>1. Overtaken(i)
      BY <2>1 DEF MayRead, Overtaken
    <3>2. lease'.owner = i
      BY DEF MayRead, HoldsLease
    <3> QED
      BY <3>1, <3>2, MayClaimStep DEF CalmInv
  <2> QED
    BY <1>now, <2>1, <2>4, <2>5, <2>6, <2>7 DEF Current, TheRooms
<1>3. CASE ReadState(i)
  <2>1. UNCHANGED <<tl, lease, sweeping>> /\ op[i].pc = "read"
    BY <1>3 DEF ReadState, redisVars
  <2>2. sweeping[i] = NotOwner
    BY <1>rest, <2>1
  <2>3. CASE Get(i) = NoTimeline
    <3>1. owned' = owned /\ op'[i] = Quiet
      BY <1>3, <2>3, <1>types DEF ReadState, End
    <3> QED
      BY <2>1, <3>1, SettledCurrent DEF Settles, Sweeps
  <2>4. CASE Get(i) # NoTimeline
    <3>1. /\ op'[i].pc = "commit" /\ op'[i].lease = op[i].lease
          /\ op'[i].base = Get(i)
      BY <1>3, <2>4, <1>types DEF ReadState, Operation
    <3>2. owned'[i] = [fence |-> op[i].lease.epoch, timeline |-> Get(i)]
      BY <1>3, <2>4 DEF ReadState, TypeOK
    <3>3. owned'[i].fence = op[i].lease.epoch /\ owned'[i].timeline = Get(i)
      BY <3>2
    <3>4. owned'[i] # NotOwner
      <4>1. Get(i) \in Version /\ op[i].lease.epoch \in Nat
        BY <2>1, <2>4, InFlightFacts DEF Get, TypeOK, MaybeVersion, Lease
      <4> QED
        BY <3>2, <4>1, NobodyAssumption DEF Authority
    <3>5. ~MayRead(i)' /\ ~MayClaim(i)' /\ ~MaySweep(i)'
      BY <2>1, <2>2, <3>1 DEF MayRead, MayClaim, Overtaken, MaySweep, Claiming
    <3>6. MayCommit(i)' \/ OwnsRoom(i)' => HoldsLease(i, op[i].lease.epoch)
      BY <2>1, <3>1, <3>3 DEF MayCommit, OwnsRoom, HoldsLease
    <3>7. HoldsLease(i, op[i].lease.epoch) => TheRooms(Get(i))
      BY <1>now, <2>1 DEF Current, MayRead, Get, TheRooms
    <3> QED
      BY <2>1, <3>1, <3>3, <3>4, <3>5, <3>6, <3>7 DEF Current, TheRooms
  <2> QED
    BY <2>3, <2>4
<1> QED
  BY <1>1, <1>2, <1>3

(* The instance at work: its commits.                                       *)
LEMMA CommitCurrent ==
    ASSUME OrderInv, CalmInv, Calm, failures' = 0, [Next]_vars, NEW i \in Instances,
           CommitControl(i) \/ StartSnapshot(i) \/ CommitSnapshot(i)
    PROVE  Current(i)' /\ lost' = lost
<1> USE DEF OrderInv
<1>now. Current(i) /\ OpSound(i)
  BY DEF CalmInv, QueueInv
<1>types. /\ op \in [Instances -> Operation]
          /\ Quiet.pc = "idle"
          /\ failures = 0
  BY DEF TypeOK, Quiet, Calm
<1>idle. ASSUME op'[i].pc = "idle", sweeping'[i] = NotOwner,
                OwnsRoom(i)' => (TheRooms(owned[i].timeline))'
         PROVE  Current(i)'
  BY <1>idle
  DEF Current, MayCommit, MaySweep, MayRead, MayClaim, Overtaken, Claiming
<1>refreshed. ASSUME owned' = Refreshed(i, tl'),
                     op'[i].pc = "idle", sweeping'[i] = NotOwner
              PROVE  Current(i)'
  <2>1. OwnsRoom(i)' => owned'[i].timeline = tl'
    BY <1>refreshed, RefreshedFacts DEF OwnsRoom
  <2> QED
    BY <1>idle, <1>refreshed, <2>1 DEF TheRooms
<1>accept. ASSUME NEW t, NEW e, NEW b, NEW a \in BOOLEAN, Accept(i, t, e, b, a),
                  Returns(a), TheRooms(b)
           PROVE  owned' = Refreshed(i, tl') /\ lost' = lost
  BY <1>accept, <1>types DEF Accept, Returns, TheRooms, TypeOK
<1>1. CASE CommitControl(i)
  <2>1. op[i].pc = "commit" /\ sweeping'[i] = NotOwner
    BY <1>1, <1>now, <1>types DEF CommitControl, OpSound
  <2>2. CASE ~HoldsLease(i, op[i].lease.epoch)
    <3>1. owned'[i] = NotOwner /\ op'[i].pc # "commit" /\ lost' = lost
      BY <1>1, <2>2, <1>types DEF CommitControl, End, Goto, TypeOK, Operation
    <3> QED
      BY <2>1, <3>1
      DEF Current, MayCommit, MaySweep, MayRead, OwnsRoom, MayClaim, Overtaken
  <2>3. CASE HoldsLease(i, op[i].lease.epoch)
    <3>1. TheRooms(op[i].base)
      BY <1>now, <2>1, <2>3 DEF Current, MayCommit
    <3>2. End(i) /\ op'[i].pc = "idle"
      BY <1>1, <2>3, <1>types DEF CommitControl, End
    <3>3. owned' = Refreshed(i, tl') /\ lost' = lost
      BY <1>1, <2>3, <3>1, <1>accept DEF CommitControl
    <3> QED
      BY <1>refreshed, <2>1, <3>2, <3>3
  <2> QED
    BY <2>2, <2>3
<1>2. CASE CommitSnapshot(i)
  <2>1. sweeping[i] # NotOwner /\ sweeping'[i] = NotOwner /\ op'[i].pc = "idle"
    BY <1>2, <1>now, <1>types DEF CommitSnapshot, OpSound, TypeOK
  <2>2. CASE ~HoldsLease(i, sweeping[i].fence)
    <3>1. owned'[i] = NotOwner /\ lost' = lost
      BY <1>2, <2>2 DEF CommitSnapshot, TypeOK
    <3> QED
      BY <1>idle, <2>1, <3>1 DEF OwnsRoom
  <2>3. CASE HoldsLease(i, sweeping[i].fence)
    <3>1. TheRooms(sweeping[i].timeline)
      BY <1>now, <2>1, <2>3 DEF Current, MaySweep
    <3>2. owned' = Refreshed(i, tl') /\ lost' = lost
      BY <1>2, <2>3, <3>1, <1>accept DEF CommitSnapshot
    <3> QED
      BY <1>refreshed, <2>1, <3>2
  <2> QED
    BY <2>2, <2>3
<1>3. CASE StartSnapshot(i)
  <2>1. /\ UNCHANGED <<tl, lease, owned, op, lost>>
        /\ op[i].pc = "idle" /\ owned[i] # NotOwner
        /\ sweeping'[i] = owned[i]
    BY <1>3, <1>types DEF StartSnapshot, QueueFree, redisVars, histVars, TypeOK
  <2>2. MaySweep(i)' \/ OwnsRoom(i)' => OwnsRoom(i)
    BY <2>1 DEF MaySweep, OwnsRoom, HoldsLease
  <2>3. ~MayCommit(i)' /\ ~MayRead(i)' /\ ~MayClaim(i)'
    BY <2>1 DEF MayCommit, MayRead, MayClaim, Overtaken, Claiming
  <2> QED
    BY <1>now, <2>1, <2>2, <2>3 DEF Current, TheRooms
<1> QED
  BY <1>1, <1>2, <1>3

LEMMA LostStep ==
    ASSUME [Next]_vars, lost' # lost
    PROVE  \E i \in Instances : CommitControl(i) \/ CommitSnapshot(i)
<1>1. ASSUME ElsewhereStep PROVE FALSE
  BY <1>1 DEF ElsewhereStep, Send, Expire, ExpireTimeline, histVars, vars
<1>2. ASSUME NEW i \in Instances, InstanceStep(i)
      PROVE  CommitControl(i) \/ CommitSnapshot(i)
  <2>1. CASE JoinGet(i) \/ JoinStep(i) \/ Leave(i) \/ Renew(i) \/ Restart(i)
    BY <2>1 DEF JoinGet, JoinStep, JoinClaim, JoinCreate, JoinReadAgain, Leave, Renew,
                Restart, histVars
  <2>2. CASE \/ \E c \in Cmds : StartControl(i, c)
             \/ ControlClaim(i) \/ Publish(i) \/ Revoke(i) \/ ReadState(i)
    BY <2>2 DEF StartControl, ControlClaim, Publish, Revoke, ReadState, histVars
  <2>3. CASE StartSnapshot(i) \/ ControlRejects(i) \/ Crash(i)
    BY <2>3 DEF StartSnapshot, ControlRejects, Crash, histVars
  <2> QED
    BY <1>2, <2>1, <2>2, <2>3 DEF InstanceStep, ControlStep
<1> QED
  BY <1>1, <1>2, NextCases

LEMMA CurrentStep ==
    ASSUME OrderInv, CalmInv, Calm, failures' = 0, [Next]_vars
    PROVE  lost' = lost /\ \A j \in Instances : Current(j)'
<1> USE DEF OrderInv
<1>1. ASSUME NEW j \in Instances PROVE Current(j)'
  <2>1. CASE ElsewhereStep
    BY <2>1, ElsewhereKept, ElsewhereCurrent
  <2>2. ASSUME NEW i \in Instances, InstanceStep(i) PROVE Current(j)'
    <3>1. CASE j # i
      <4>1. Kept(j)
        BY <2>2, <3>1, OthersKept
      <4> QED
        BY <2>2, <3>1, <4>1, ElsewhereCurrent
    <3>2. CASE j = i
      BY <2>2, <3>2, JoinCurrent, ControlCurrent, CommitCurrent
      DEF InstanceStep, ControlStep
    <3> QED
      BY <3>1, <3>2
  <2> QED
    BY <2>1, <2>2, NextCases
<1>2. lost' = lost
  BY LostStep, CommitCurrent
<1> QED
  BY <1>1, <1>2

LEMMA MemoryStep ==
    ASSUME OrderInv, MemoryInv, [Next]_vars
    PROVE  MemoryInv'
<1>1. JoinInv' /\ CrashInv'
  BY JoinInvStep, CrashStep DEF MemoryInv
<1>2. ASSUME failures' = 0, crashes' <= 1
      PROVE  ~lost' /\ \A i \in Instances : Current(i)'
  <2>1. failures = 0 /\ crashes <= 1
    BY <1>2, CountersStep DEF OrderInv, ScopeInv
  <2>2. ~lost /\ CalmInv /\ Calm
    BY <2>1 DEF MemoryInv, CalmInv, Calm
  <2> QED
    BY <1>2, <2>2, CurrentStep
<1> QED
  BY <1>1, <1>2 DEF MemoryInv

-----------------------------------------------------------------------------
(* The theorems.                                                            *)

LEMMA InitInvariant == Init => IInv
<1> SUFFICES ASSUME Init PROVE IInv
  OBVIOUS
<1>1. OrderInv
  BY InitOrder
<1>2. MemoryInv
  BY DEF Init, MemoryInv, JoinInv, Creating, CrashInv, DeadIn, Safe, Current, MayCommit,
         MaySweep, MayRead, OwnsRoom, MayClaim, Overtaken, Quiet, Claiming
<1>3. RecordInv
  BY DEF Init, RecordInv, KeyThere, OwnsRoom, Overtaken, MayRead, MayCommit, Quiet
<1>4. DeliveryInv
  BY ActorConstantsAssumption DEF Init, DeliveryInv, InOnePlace, Quiet
<1> QED
  BY <1>1, <1>2, <1>3, <1>4 DEF IInv

(* The invariant holds along every behaviour.                               *)
THEOREM Invariance == Spec => []IInv
<1>1. IInv /\ [Next]_vars => IInv'
  <2> SUFFICES ASSUME IInv, [Next]_vars PROVE IInv'
    OBVIOUS
  <2>1. OrderInv'
    BY OrderStep DEF IInv
  <2>2. MemoryInv' /\ RecordInv' /\ DeliveryInv'
    BY MemoryStep, RecordStep, DeliveryStep DEF IInv
  <2> QED
    BY <2>1, <2>2 DEF IInv
<1> QED
  BY <1>1, InitInvariant, PTL DEF Spec

(* applyControl, enqueue, actor_commit.lua: the owner's memory is the       *)
(* room's timeline, no commit is computed from another, and a command       *)
(* commits once, for any number of instances, commands, leases, joins,      *)
(* sweeps and forwards, on the conditions the three properties state.       *)
THEOREM UpdateSafety == Spec => []UpdatesKept
<1>1. IInv => UpdatesKept
  <2> SUFFICES ASSUME IInv PROVE UpdatesKept
    OBVIOUS
  <2>1. TypeOK /\ NoLostUpdate
    BY DEF IInv, OrderInv, MemoryInv, NoLostUpdate
  <2>2. OwnerMemoryCurrent
    BY DEF IInv, MemoryInv, Current, OwnerMemoryCurrent, OwnsRoom, HoldsLease, TheRooms
  <2>3. AppliedOnce
    <3>1. CASE ~scope.keyExpires
      BY <3>1 DEF IInv, RecordInv, AppliedOnce
    <3>2. CASE scope.keyExpires /\ resends = 0
      BY <3>2 DEF IInv, DeliveryInv, InOnePlace, AppliedOnce
    <3> QED
      BY <3>1, <3>2 DEF AppliedOnce
  <2> QED
    BY <2>1, <2>2, <2>3 DEF UpdatesKept
<1> QED
  BY <1>1, Invariance, PTL

=============================================================================
