------------------------------- MODULE Buckets -------------------------------
(***************************************************************************)
(* The limiters: RateBucket and the guest route that must clear two of     *)
(* them, the address the route is keyed by, and the control bucket of a    *)
(* socket.                                                                 *)
(*                                                                         *)
(* Tokens are counted in parts, One parts a token.  As in the code (10 and *)
(* 10 / 3600, 300 and 300 / 3600), a guest bucket refills its capacity in  *)
(* the very hour after which an idle one is swept: IdleTicks ticks.  A     *)
(* history is a sequence of calls, each with its instant; the state after  *)
(* its first i calls is a recursive function of i.                         *)
(***************************************************************************)
EXTENDS Integers, Sequences, FiniteSets, SequencesExt

One == 6
GuestCapacity == 2 * One
GlobalCapacity == 3 * One
IdleTicks == 6

VARIABLE trial    \* the history at hand, and what it is a history of

Smaller(a, b) == IF a < b THEN a ELSE b
Larger(a, b) == IF a < b THEN b ELSE a

(* Finite histories: sequences of 1 to n members of S.                      *)
Histories(S, n) == UNION {[1..k -> S] : k \in 1..n}

Ordered(H) ==
    {h \in H : \A i, j \in 1..Len(h) : i < j => h[i].at <= h[j].at}

-----------------------------------------------------------------------------
(* RateBucket: a bucket is absent or [tokens, at].                          *)
NoBucket == [tokens |-> -1, at |-> -1]

Full(b, capacity, now) ==
    IF b = NoBucket THEN [tokens |-> capacity, at |-> now] ELSE b

Refilled(b, capacity, now) ==
    LET e == Full(b, capacity, now) IN
    [tokens |-> Smaller(capacity, e.tokens
         + Larger(0, now - e.at) * (capacity \div IdleTicks)),
     at |-> now]

peek(b, capacity, now) == Refilled(b, capacity, now).tokens >= One

take(b, capacity, now) ==
    LET r == Refilled(b, capacity, now) IN
    IF r.tokens < One THEN r ELSE [r EXCEPT !.tokens = @ - One]

(* Seeded fault: a caller idle for half the hour is dropped.                *)
bucketSweepEarly(b, now) == IF now - b.at > IdleTicks \div 2 THEN NoBucket ELSE b

bucketSweep(b, now) == IF now - b.at > IdleTicks THEN NoBucket ELSE b

-----------------------------------------------------------------------------
(* The guest route and the hourly sweep, over the two buckets.              *)
Callers == {"a", "b"}

GuestStart ==
    [perIp |-> [ip \in Callers |-> NoBucket], whole |-> NoBucket, said |-> <<>>]

Said(st, ok) == [st EXCEPT !.said = Append(@, ok)]

(* Seeded fault: one bucket is charged before the other is asked.           *)
guestRouteOneByOne(st, ip, now) ==
    LET paid == [st EXCEPT !.perIp[ip] = take(@, GuestCapacity, now)] IN
    IF ~peek(st.perIp[ip], GuestCapacity, now) THEN Said(st, FALSE)
    ELSE IF ~peek(st.whole, GlobalCapacity, now) THEN Said(paid, FALSE)
    ELSE Said([paid EXCEPT !.whole = take(@, GlobalCapacity, now)], TRUE)

(* Both limits are decided on before either is charged.                     *)
guestRoute(st, ip, now) ==
    IF /\ peek(st.perIp[ip], GuestCapacity, now)
       /\ peek(st.whole, GlobalCapacity, now)
    THEN Said([st EXCEPT !.perIp[ip] = take(@, GuestCapacity, now),
                         !.whole = take(@, GlobalCapacity, now)], TRUE)
    ELSE Said(st, FALSE)

sweepRateBuckets(st, now) ==
    [st EXCEPT !.perIp = [ip \in Callers |-> bucketSweep(@[ip], now)],
               !.whole = bucketSweep(@, now)]

(* Requests, some of them right after a sweep.                              *)
Arrivals(instants, sweeps) ==
    [from : Callers, at : instants, swept : sweeps]

Answers(h) ==
    LET st[i \in 0..Len(h)] ==
            IF i = 0 THEN GuestStart
            ELSE LET clean == IF h[i].swept
                              THEN sweepRateBuckets(st[i - 1], h[i].at)
                              ELSE st[i - 1] IN
                 guestRoute(clean, h[i].from, h[i].at) IN
    st[Len(h)].said

-----------------------------------------------------------------------------
(* clientIpFrom behind a proxy: the header of the edge, else the rightmost  *)
(* hop that could be a person's, else the peer of the socket.  A hop is an  *)
(* address a person can have, or one of the infrastructure's.               *)
isInfrastructureAddress(hop) == hop \in {"private", "unknown"}

Absent == "absent"

(* Seeded fault: the leftmost entry, as the first version had it.           *)
clientIpFromLeft(peer, edge, parts) ==
    IF edge # Absent THEN edge
    ELSE LET people == {i \in 1..Len(parts) :
                            ~isInfrastructureAddress(parts[i])} IN
         IF people = {} THEN peer
         ELSE parts[CHOOSE i \in people : \A j \in people : i <= j]

clientIpFrom(peer, edge, parts) ==
    IF edge # Absent THEN edge
    ELSE LET people == {i \in 1..Len(parts) :
                            ~isInfrastructureAddress(parts[i])} IN
         IF people = {} THEN peer
         ELSE parts[CHOOSE i \in people : \A j \in people : j <= i]

-----------------------------------------------------------------------------
(* The control bucket of a socket, a token every other tick.  The elapsed   *)
(* time may be negative: now is an estimate of the store's clock, and is    *)
(* corrected backwards too.                                                 *)
BUCKET_CAPACITY == 2 * One
BUCKET_REFILL == One \div 2

(* Seeded fault: time that runs backwards counts as no time, as in          *)
(* RateBucket.                                                              *)
takeTokenClamped(st, now) ==
    LET tokens == Smaller(BUCKET_CAPACITY,
            st.tokens + Larger(0, now - st.lastRefill) * BUCKET_REFILL) IN
    [tokens |-> IF tokens < One THEN tokens ELSE tokens - One,
     lastRefill |-> now, said |-> Append(st.said, tokens >= One)]

takeToken(st, now) ==
    LET tokens == Smaller(BUCKET_CAPACITY,
            st.tokens + (now - st.lastRefill) * BUCKET_REFILL) IN
    [tokens |-> IF tokens < One THEN tokens ELSE tokens - One,
     lastRefill |-> now, said |-> Append(st.said, tokens >= One)]

Granted(h) ==
    LET st[i \in 0..Len(h)] ==
            IF i = 0 THEN [tokens |-> BUCKET_CAPACITY, lastRefill |-> h[1],
                           said |-> <<>>]
            ELSE takeToken(st[i - 1], h[i]) IN
    st[Len(h)].said

-----------------------------------------------------------------------------
(* The histories tried, one at a time.                                      *)
NoTrial == [of |-> "none", calls |-> <<>>]

Headers ==
    [written : {<<>>} \cup Histories({"a", "b", "private", "unknown"}, 3),
     me : Callers,
     hops : {<<>>} \cup Histories({"private", "unknown"}, 2)]

Trials ==
    {NoTrial}
    \cup [of : {"controls"}, calls : Histories(0..4, 5)]
    \cup [of : {"guests"},
          calls : Ordered(Histories(Arrivals({0, 2}, {FALSE}), 5))]
    \cup [of : {"swept guests"},
          calls : Ordered(Histories(Arrivals({0, 4, 7}, BOOLEAN), 4))]
    \cup [of : {"headers"}, calls : {<<x>> : x \in Headers}]

-----------------------------------------------------------------------------
(* In every stretch of a history that ends with a granted control, a socket *)
(* is granted at most the capacity and what the clock put back between its  *)
(* ends, also when the clock is corrected backwards meanwhile (takeToken).  *)
ControlsBounded ==
    trial.of = "controls" =>
        LET h == trial.calls
            said == Granted(h)
        IN \A i, j \in 1..Len(h) :
            i <= j /\ said[j] =>
                One * Cardinality({k \in i..j : said[k]})
                    <= BUCKET_CAPACITY + (h[j] - h[i]) * BUCKET_REFILL

(* A refused guest costs nobody anything: without a refused request all the *)
(* others get the answers they got (the guest route decides on both limits  *)
(* before it charges either).                                               *)
RefusedCostsNothing ==
    trial.of = "guests" =>
        LET h == trial.calls
            said == Answers(h)
        IN \A i \in 1..Len(h) :
            ~said[i] => Answers(RemoveAt(h, i)) = RemoveAt(said, i)

(* The hourly sweep is not noticed: whoever it drops gets the answers a     *)
(* kept bucket would have given (RateBucket.sweep drops what has refilled). *)
SweepUnnoticed ==
    trial.of = "swept guests" =>
        Answers(trial.calls) =
            Answers([i \in DOMAIN trial.calls |->
                        [trial.calls[i] EXCEPT !.swept = FALSE]])

(* Entries a caller writes into x-forwarded-for come before the one the     *)
(* proxy adds, and whatever they are the caller keeps the key of its own    *)
(* address; the hops of the infrastructure after it change nothing          *)
(* (clientIpFrom).                                                          *)
KeyIsTheCallers ==
    trial.of = "headers" =>
        LET x == trial.calls[1] IN
        /\ clientIpFrom("private", Absent, x.written \o <<x.me>> \o x.hops) = x.me
        /\ clientIpFrom("private", x.me, x.written) = x.me

(* The limits bind callers and nobody else, for every history at hand.      *)
LimitsHold ==
    /\ ControlsBounded
    /\ RefusedCostsNothing
    /\ SweepUnnoticed
    /\ KeyIsTheCallers

=============================================================================
