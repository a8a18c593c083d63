---------------------------- MODULE RateLimiter ----------------------------
(***************************************************************************)
(* The sliding window limiter in front of the public endpoints             *)
(* (server/src/middleware/rateLimiter.ts), one instance of it, with its    *)
(* garbage collector.  The middleware runs without an await: a request is  *)
(* one step.  index.ts makes two, with 5 requests in 15 minutes and 60 in  *)
(* one; both name a client by normalizeIp(req.ip).                         *)
(*                                                                         *)
(* An element of a bucket's array of timestamps is a time ts and nr, which *)
(* of the client's admitted requests it is: two of the same moment are two *)
(* elements, and the array has them in the order of nr.                    *)
(***************************************************************************)
EXTENDS Integers, FiniteSets

CONSTANTS
  Ips,           \* req.ip, as spelled
  NormalizeIp,   \* without the ::ffff: of a mapped address
  Whitelist,     \* as configured: normalised or not
  Blacklist,
  WindowMs,
  MaxRequests,
  MaxClock       \* bound on the clock

ASSUME WindowAssumption == WindowMs \in Nat \ {0} /\ MaxRequests \in Nat \ {0}
ASSUME BoundAssumption == MaxClock \in Nat
ASSUME IpAssumption == \A ip \in Ips : NormalizeIp[ip] \in Ips

Keys == {NormalizeIp[ip] : ip \in Ips}

VARIABLES
  time,        \* Date.now()
  timestamps,  \* clients: the bucket of each key, {} as well when there is none
  admitted,    \* history: the requests of each key that were let through
  retryAt      \* history: when the last one refused was told to retry; 0: none since

limiterVars == <<time, timestamps, admitted, retryAt>>

(* checkIpFilter, which gets the normalised address and normalises it again:
   an entry of the list spelled with ::ffff: matches nobody. *)
Matches(list, ip) ==
  LET normalized == NormalizeIp[ip]
  IN  normalized \in list \/ NormalizeIp[normalized] \in list

(* Mutant: one moment too few. *)
ActiveTooShort(bucket, now) == {e \in bucket : now - e.ts < WindowMs - 1}

(* Retain only requests within the active sliding window. *)
Active(bucket, now) == {e \in bucket : now - e.ts < WindowMs}

(* bucket.timestamps[0] *)
IsFirst(e, bucket) == e \in bucket /\ \A f \in bucket : e.nr <= f.nr

(* Mutant: one moment too early. *)
RetryAtEarly(oldest) == oldest.ts + WindowMs - 1

(* The oldest request leaves the window then. *)
RetryAt(oldest) == oldest.ts + WindowMs

(* The blacklist comes first (403); a request on neither list is counted. *)
Limited(ip) ==
  /\ ~Matches(Blacklist, ip) /\ ~Matches(Whitelist, ip)
  /\ LET k == NormalizeIp[ip]
         bucket == Active(timestamps[k], time)
         now == [ts |-> time, nr |-> Cardinality(admitted[k]) + 1]
     IN \/ /\ Cardinality(bucket) >= MaxRequests
           /\ timestamps' = [timestamps EXCEPT ![k] = bucket]
           /\ \E oldest \in bucket :
                IsFirst(oldest, bucket) /\ retryAt' = [retryAt EXCEPT ![k] = RetryAt(oldest)]
           /\ UNCHANGED admitted
        \/ /\ Cardinality(bucket) < MaxRequests
           /\ timestamps' = [timestamps EXCEPT ![k] = bucket \cup {now}]
           /\ admitted' = [admitted EXCEPT ![k] = @ \cup {now}]
           /\ retryAt' = [retryAt EXCEPT ![k] = 0]
  /\ UNCHANGED time

(* A whitelisted one passes and leaves no trace. *)
Exempt(ip) ==
  /\ Matches(Whitelist, ip) /\ ~Matches(Blacklist, ip)
  /\ UNCHANGED limiterVars

CollectGarbage ==
  /\ timestamps' = [k \in Keys |-> Active(timestamps[k], time)]
  /\ UNCHANGED <<time, admitted, retryAt>>

Advance ==
  /\ time < MaxClock /\ time' = time + 1
  /\ UNCHANGED <<timestamps, admitted, retryAt>>

LimiterInit ==
  /\ time = 1
  /\ timestamps = [k \in Keys |-> {}] /\ admitted = [k \in Keys |-> {}]
  /\ retryAt = [k \in Keys |-> 0]

LimiterNext ==
  \/ \E ip \in Ips : Limited(ip) \/ Exempt(ip)
  \/ CollectGarbage \/ Advance

LimiterSpec == LimiterInit /\ [][LimiterNext]_limiterVars

-----------------------------------------------------------------------------
(* However the requests, their spellings and the garbage collector fall, no
   span of WindowMs sees more than MaxRequests of one client let through. *)
WindowBounded ==
  \A k \in Keys, start \in 1..time :
    Cardinality({e \in admitted[k] : start <= e.ts /\ e.ts < start + WindowMs}) <= MaxRequests

(* A client that waits as long as Retry-After says is let in. *)
RetryAfterHolds ==
  \A k \in Keys : retryAt[k] # 0 /\ time >= retryAt[k] =>
    Cardinality(Active(timestamps[k], time)) < MaxRequests
=============================================================================
