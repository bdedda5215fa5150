---------------------------- MODULE ServerClock ----------------------------
(***************************************************************************)
(* The clock everybody shares: each instance's conversion of its own clock  *)
(* to the store's (ClockDomainService), and each client's estimate of the   *)
(* store's clock from ping exchanges (ClockEstimator).                      *)
(*                                                                         *)
(* Both average what they measure over round trips whose two ways differ.   *)
(* The client's clock may be set once.  Offsets are kept doubled, so that   *)
(* halves of round trips are whole numbers.                                 *)
(***************************************************************************)
EXTENDS Integers, Sequences, FiniteSets, FiniteSetsExt

CONSTANTS
    RingSize, WINDOW, BestK,      \* tuning: ringSize, windowMs, bestK
    SlewThreshold, SlewRate,      \* slewThresholdMs, slewRatePerS
    DomainRing,                   \* samples a ClockDomainService keeps (8)
    Ways,                         \* <<there, back>>: times of the two ways
    ClockSteps,                   \* by how much the client's clock may be set
    MaxExchanges, MaxReal         \* bounds

ASSUME ClockAssumption ==
    /\ RingSize \in Nat \ {0} /\ BestK \in Nat \ {0} /\ SlewThreshold \in Nat \ {0}
    /\ WINDOW \in Nat /\ SlewRate \in Nat
    /\ DomainRing \in Nat \ {0}
    /\ Ways \subseteq Nat \X Nat
    /\ ClockSteps \subseteq Int

Theta == 3     \* store clock minus client clock, until that is set
Skew == 5      \* an instance's clock minus the store's

VARIABLES
    real,      \* ticks since the engine started
    set,       \* the client's clock was set: [at, by], at = -1: never
    est,       \* the estimator: [samples, has, applied, target, lastTick, at],
               \* at: history, the local time of the last recompute
    exchanges, \* exchanges completed
    domain     \* the last samples of an instance's clock domain, doubled

clockVars == <<real, set, est, exchanges, domain>>

LocalAt(r) == r + (IF set.at # -1 /\ r >= set.at THEN set.by ELSE 0)
TrueOffset == 2 * (Theta + real - LocalAt(real))

(* reset.                                                                   *)
NoEstimate ==
    [samples |-> <<>>, has |-> FALSE, applied |-> 0, target |-> 0, lastTick |-> -1, at |-> 0]

ClockInit ==
    /\ real = 0 /\ set = [at |-> -1, by |-> 0]
    /\ est = NoEstimate /\ exchanges = 0 /\ domain = <<>>

-----------------------------------------------------------------------------
(* The estimator.                                                           *)
Recent(ss, t) == {i \in DOMAIN ss : t - ss[i].t3 <= WINDOW}

(* Fastest first, the newest of equals.                                     *)
Before(ss, i, j) ==
    \/ ss[i].delta < ss[j].delta
    \/ ss[i].delta = ss[j].delta /\ ss[i].t3 > ss[j].t3
    \/ ss[i].delta = ss[j].delta /\ ss[i].t3 = ss[j].t3 /\ i < j

Best(ss, t) ==
    {i \in Recent(ss, t) : Cardinality({j \in Recent(ss, t) : Before(ss, j, i)}) < BestK}

(* Seeded fault: the mean.                                                  *)
MedianThetaMean(ss, S) ==
    MapThenSumSet(LAMBDA i : ss[i].theta, S) \div Cardinality(S)

MedianTheta(ss, S) ==
    ss[CHOOSE i \in S :
         Cardinality({j \in S : \/ ss[j].theta < ss[i].theta
                                \/ ss[j].theta = ss[i].theta /\ j < i}) = Cardinality(S) \div 2].theta

AbsOf(n) == IF n < 0 THEN -n ELSE n

(* The first estimate and large corrections step, others wait for tick.     *)
Steps(e, target) == ~e.has \/ AbsOf(target - e.applied) >= 2 * SlewThreshold

recompute(e, t) ==
    LET target == MedianTheta(e.samples, Best(e.samples, t)) IN
    [e EXCEPT !.target = target, !.has = TRUE, !.at = t,
              !.applied = IF Steps(e, target) THEN target ELSE @]

(* An exchange that ended before it began met a clock being set.            *)
addSample(e, s) ==
    LET all == Append(e.samples, s) IN
    IF s.delta < 0 THEN e
    ELSE recompute([e EXCEPT !.samples = IF Len(all) > RingSize THEN Tail(all) ELSE all], s.t3)

(* Seeded fault: always a whole step.                                       *)
tickOvershoots(e, t) ==
    LET maxStep == 2 * SlewRate * (t - e.lastTick)
        slewed == e.applied + (IF e.target > e.applied THEN maxStep ELSE -maxStep) IN
    IF ~e.has THEN e
    ELSE [e EXCEPT !.applied = IF e.lastTick = -1 THEN @ ELSE slewed, !.lastTick = t]

(* The control tick's share of a correction that is not stepped.            *)
tick(e, t) ==
    LET maxStep == 2 * SlewRate * (t - e.lastTick)
        diff == e.target - e.applied
        slewed == IF AbsOf(diff) <= maxStep THEN e.target
                  ELSE e.applied + (IF diff > 0 THEN maxStep ELSE -maxStep) IN
    IF ~e.has THEN e
    ELSE [e EXCEPT !.applied = IF e.lastTick = -1 THEN @ ELSE slewed, !.lastTick = t]

-----------------------------------------------------------------------------
(* ping and handleSyncClock: the server stamps once the ping is there.      *)
Exchange(way) ==
    LET sent == real - way[1] - way[2]
        t0 == LocalAt(sent)
        t1 == sent + way[1] + Theta
        t3 == LocalAt(real) IN
    /\ sent >= 0 /\ exchanges < MaxExchanges
    /\ exchanges' = exchanges + 1
    /\ est' = addSample(est, [theta |-> (t1 - t0) + (t1 - t3), delta |-> t3 - t0,
                              t3 |-> t3, sent |-> sent])
    /\ UNCHANGED <<real, set, domain>>

(* The control tick.                                                        *)
EngineTick ==
    /\ real < MaxReal /\ real' = real + 1
    /\ est' = tick(est, LocalAt(real'))
    /\ UNCHANGED <<set, exchanges, domain>>

(* A reconnect.                                                             *)
ResetEstimate ==
    /\ est.has
    /\ est' = NoEstimate
    /\ UNCHANGED <<real, set, exchanges, domain>>

SetClock(by) ==
    /\ set.at = -1 /\ set' = [at |-> real, by |-> by]
    /\ UNCHANGED <<real, est, exchanges, domain>>

(* measure, of an instance whose clock is ahead by Skew: a failed one       *)
(* leaves everything.                                                       *)
measure(way) ==
    LET sample == -2 * Skew + way[1] - way[2]
        all == Append(domain, sample) IN
    /\ domain' = IF Len(all) > DomainRing THEN Tail(all) ELSE all
    /\ UNCHANGED <<real, set, est, exchanges>>

SumOf(d) ==
    LET sum[n \in 0..Len(d)] == IF n = 0 THEN 0 ELSE sum[n - 1] + d[n]
    IN sum[Len(d)]

(* Seeded fault: divided by the size of the ring.                           *)
offsetWholeRing(d) == [sum |-> SumOf(d), of |-> DomainRing]

(* offsetMs: the mean of what there is, as a fraction.                      *)
offset(d) == [sum |-> SumOf(d), of |-> Len(d)]

ClockNext ==
    \/ \E way \in Ways : Exchange(way)
    \/ EngineTick \/ ResetEstimate
    \/ \E by \in ClockSteps : SetClock(by)

DomainNext == \E way \in Ways : measure(way)

ClockSpec == ClockInit /\ [][ClockNext \/ DomainNext]_clockVars

-----------------------------------------------------------------------------
Selected == Best(est.samples, est.at)

(* A minority cannot mislead the estimate: when most of the exchanges it is *)
(* taken from had round trips of at most d and were made since the client's *)
(* clock was set, it is off by at most d/2, whatever the others say         *)
(* (recompute: the median of the fastest).                                  *)
MedianHolds ==
    est.has => \A d \in {est.samples[i].delta : i \in Selected} :
        LET n == Cardinality(Selected)
            bad == {i \in Selected :
                \/ est.samples[i].delta > d
                \/ set.at # -1 /\ est.samples[i].sent <= set.at}
        IN Cardinality(bad) <= (n - 1) \div 2 =>
             AbsOf(est.target - TrueOffset) <= d

(* The clock players are driven by is never far from the store's: at most   *)
(* a round trip that can be and less than the correction that may be slewed *)
(* (recompute steps the rest, tick only closes in), as long as the client's *)
(* clock is not set.                                                        *)
NearTruth ==
    est.has /\ set.at = -1 =>
        \E w \in Ways : AbsOf(est.applied - TrueOffset) < w[1] + w[2] + 2 * SlewThreshold

(* An instance's clock domain is as good as its round trips, from the first *)
(* measurement on: an instance that has just started stamps as well as one  *)
(* that has filled its ring (measure, now).                                 *)
DomainClose ==
    domain # <<>> =>
        LET mean == offset(domain) IN
        \E w \in Ways : AbsOf(mean.sum + mean.of * (2 * Skew)) <= mean.of * AbsOf(w[1] - w[2])

(* Everybody's clock is as near the store's as their round trips allow.     *)
ClockSound ==
    /\ MedianHolds
    /\ NearTruth
    /\ DomainClose

-----------------------------------------------------------------------------
(* The inductive invariant behind ClockSound.                               *)

Sample == [theta : Int, delta : Nat, t3 : Int, sent : Nat]

ClockTypeOK ==
    /\ real \in Nat
    /\ set \in [at : Int, by : Int] /\ set.at \in -1..real
    /\ est \in [samples : Seq(Sample), has : BOOLEAN, applied : Int, target : Int,
               lastTick : Int, at : Int]
    /\ exchanges \in Nat
    /\ domain \in Seq(Int) /\ Len(domain) <= DomainRing

(* What a sample says of the two clocks, until one is set.                  *)
SampleHolds(s) ==
    /\ s.sent <= real
    /\ set.at = -1 => \E w \in Ways : s.delta = w[1] + w[2]
    /\ set.at = -1 \/ s.sent > set.at => AbsOf(s.theta - TrueOffset) <= s.delta

EstimateSound ==
    /\ \A i \in DOMAIN est.samples : SampleHolds(est.samples[i])
    /\ est.has => /\ Selected # {}
                  /\ est.target = MedianTheta(est.samples, Selected)
    /\ est.has /\ set.at = -1 => AbsOf(est.target - est.applied) < 2 * SlewThreshold
    /\ set.at = -1 => est.lastTick <= real

(* What an instance measures is off by the difference of the two ways.      *)
DomainSound ==
    \A i \in DOMAIN domain : \E w \in Ways : domain[i] = -2 * Skew + w[1] - w[2]

ClockIInv ==
    /\ ClockTypeOK
    /\ EstimateSound
    /\ DomainSound

=============================================================================
