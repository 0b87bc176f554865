------------------------------ MODULE RateLimit ------------------------------
(***************************************************************************)
(* The limiter of package middleware: a token bucket for every client      *)
(* address, refilled by the time that has passed, dropped when it has not  *)
(* been used for long, and dropped for room when there are too many.       *)
(*                                                                         *)
(* A request is one critical section of the limiter.  A tick of the clock  *)
(* refills one unit and a request costs Cost of them, so that tokens are   *)
(* fractions, as in the code.                                              *)
(***************************************************************************)
EXTENDS Integers, Sequences, FiniteSets

CONSTANTS Clients,       \* the addresses requests really come from
          Proxies,       \* TRUSTED_PROXIES
          NoHeader,
          Burst, Cost,   \* burst, and the ticks in which a token is refilled
          MaxBuckets,    \* maxBuckets
          PruneAge,      \* the age at which a bucket goes when there are too many
          StaleAge,      \* the age at which a bucket goes anyway
          MaxTicks,      \* bound: the clock
          MaxAdmitted    \* bound: requests admitted of one client

ASSUME RateLimitAssumption ==
    /\ Clients \cap Proxies = {} /\ NoHeader \notin Clients \cup Proxies
    /\ Burst \in Nat \ {0} /\ Cost \in Nat \ {0} /\ MaxBuckets \in Nat \ {0}
    /\ PruneAge \in Nat /\ StaleAge \in Nat /\ MaxTicks \in Nat /\ MaxAdmitted \in Nat
    /\ PruneAge >= Burst * Cost /\ StaleAge >= PruneAge

VARIABLES ticks,
          buckets,    \* rateLimiter.buckets
          admitted,   \* history: when requests of each client were let through
          squeezed    \* history: addresses whose bucket was dropped for room

limiterVars == <<ticks, buckets, admitted, squeezed>>

Addresses == Clients \cup Proxies

LimiterInit ==
    /\ ticks = 0 /\ buckets = << >> /\ squeezed = {}
    /\ admitted = [c \in Clients |-> << >>]

(***************************************************************************)
(* The headers count only when the peer is a trusted proxy.  xff is the    *)
(* last entry of X-Forwarded-For, which the proxy wrote.                   *)
(***************************************************************************)
ClientIP(peer, xff, xri) ==
    IF peer \notin Proxies THEN peer
    ELSE IF xff # NoHeader THEN xff ELSE IF xri # NoHeader THEN xri ELSE peer

evictStale(age) ==
    [ip \in {ip \in DOMAIN buckets : ticks - buckets[ip].lastRefill <= age} |-> buckets[ip]]

Without(bs, ip) == [k \in DOMAIN bs \ {ip} |-> bs[k]]
Set(bs, ip, units) ==
    [k \in DOMAIN bs \cup {ip} |->
        IF k = ip THEN [tokens |-> units, lastRefill |-> ticks] ELSE bs[k]]

Oldest(bs) ==
    {ip \in DOMAIN bs : \A k \in DOMAIN bs : bs[ip].lastRefill <= bs[k].lastRefill}

\* Mutant: what a bucket can hold is not limited.
RefilledUncapped(b) == b.tokens + (ticks - b.lastRefill)

Refilled(b) ==
    LET units == b.tokens + (ticks - b.lastRefill)
    IN IF units > Burst * Cost THEN Burst * Cost ELSE units

Admit(c) == admitted' = [admitted EXCEPT ![c] = Append(@, ticks)]

\* allow, for an address that has a bucket.
AllowKnown(ip, c) ==
    LET units == Refilled(buckets[ip]) IN
    /\ ip \in DOMAIN buckets
    /\ \/ units >= Cost /\ buckets' = Set(buckets, ip, units - Cost) /\ Admit(c)
       \/ units < Cost /\ buckets' = Set(buckets, ip, units) /\ UNCHANGED admitted
    /\ UNCHANGED <<ticks, squeezed>>

\* allow, for a new address: old buckets make room for it, and when there are
\* none, the oldest does.
AllowNew(ip, c) ==
    LET full == Cardinality(DOMAIN buckets) >= MaxBuckets
        kept == IF full THEN evictStale(PruneAge) ELSE buckets
    IN
    /\ ip \notin DOMAIN buckets /\ Admit(c)
    /\ \/ /\ Cardinality(DOMAIN kept) < MaxBuckets
          /\ buckets' = Set(kept, ip, (Burst - 1) * Cost) /\ UNCHANGED squeezed
       \/ /\ Cardinality(DOMAIN kept) >= MaxBuckets
          /\ \E o \in Oldest(kept) :
                /\ buckets' = Set(Without(kept, o), ip, (Burst - 1) * Cost)
                /\ squeezed' = squeezed \cup {o}
    /\ UNCHANGED ticks

\* A request of client c, straight or through a proxy that adds the address it
\* saw to X-Forwarded-For, or that sets X-Real-IP only; the other headers are
\* the client's.
LimitedRequest(c) ==
    /\ Len(admitted[c]) < MaxAdmitted
    /\ \E other \in Addresses \cup {NoHeader}, proxy \in Proxies :
          \E ip \in {ClientIP(c, other, other), ClientIP(proxy, c, other),
                     ClientIP(proxy, NoHeader, c)} :
             AllowKnown(ip, c) \/ AllowNew(ip, c)

\* The loop of newRateLimiter.
EvictStale ==
    /\ buckets' = evictStale(StaleAge) /\ buckets' # buckets
    /\ UNCHANGED <<ticks, admitted, squeezed>>

LimiterTick ==
    /\ ticks < MaxTicks /\ ticks' = ticks + 1
    /\ UNCHANGED <<buckets, admitted, squeezed>>

LimiterNext == LimiterTick \/ EvictStale \/ \E c \in Clients : LimitedRequest(c)

LimiterSpec == LimiterInit /\ [][LimiterNext]_limiterVars

(***************************************************************************)
(* No client gets more than its burst and what is refilled in the time,    *)
(* over any stretch of its requests, whatever headers it sends and however *)
(* often its bucket is dropped for being old (rateLimiter.allow), unless   *)
(* it was dropped for room.                                                *)
(***************************************************************************)
WithinLimit ==
    \A c \in Clients \ squeezed :
        \A j \in DOMAIN admitted[c] : \A i \in 1 .. j :
            (j - i + 1) * Cost <= Burst * Cost + (admitted[c][j] - admitted[c][i])
=============================================================================
