----------------------------- MODULE RateLimiter ----------------------------
(***************************************************************************)
(* The in-memory rate limits of packages/server/src/app.ts: one fixed      *)
(* window for each category of paths and each client address.              *)
(*                                                                         *)
(* A handler calls consumeRateLimit before its first await, so a call is   *)
(* one step.  Time is counted in fractions of a second, Second of them in  *)
(* one, because Retry-After is in whole seconds and the window need not be.*)
(***************************************************************************)
EXTENDS Integers, FiniteSets, Sequences

CONSTANTS
  Client,    \* client addresses, as getClientIp returns them
  Limit,     \* a function: the categories of rateLimitCategory and their max
  Window,    \* rateLimitWindowMs
  Second,    \* 1000 ms
  MaxTime,   \* bound on the clock
  MaxRuns    \* bound on the earlier runs of the server that are remembered

Category == DOMAIN Limit

Key == Category \X Client

ASSUME LimitAssumption ==
  /\ Limit \in [Category -> Nat]
  /\ Window \in Nat \ {0} /\ Second \in Nat \ {0} /\ MaxTime \in Nat /\ MaxRuns \in Nat

VARIABLES
  now,       \* Date.now()
  buckets,   \* rateLimitBuckets: at most one bucket for each key
  admitted,  \* history: when this run of the server let requests of a key through
  earlier,   \* history: what admitted was when an earlier run ended
  retryAt    \* history: when the last refused request of a key may be repeated

vars == <<now, buckets, admitted, earlier, retryAt>>

Bucket == [windowStart : 0..MaxTime, count : Nat]

TypeOK ==
  /\ now \in 0..MaxTime
  /\ buckets \in [Key -> SUBSET Bucket]
  /\ \A k \in Key : Cardinality(buckets[k]) <= 1
  /\ admitted \in [Key -> Seq(0..MaxTime)]
  /\ earlier \subseteq [Key -> Seq(0..MaxTime)]
  /\ retryAt \in [Key -> SUBSET Nat]

Init ==
  /\ now = 0
  /\ buckets = [k \in Key |-> {}]
  /\ admitted = [k \in Key |-> <<>>]
  /\ earlier = {}
  /\ retryAt = [k \in Key |-> {}]

-----------------------------------------------------------------------------
(* Mutant of Lapsed: the last moment of the window belongs to the next one. *)
Lapsed_Short(bucket) == now - bucket.windowStart >= Window - 1

(* The window of a bucket is over. *)
Lapsed(bucket) == now - bucket.windowStart >= Window

(* Mutant of retryAfterSeconds: rounded down. *)
retryAfterSeconds_Floor(bucket) ==
  LET left == Window - (now - bucket.windowStart) IN
  (IF left < Second THEN Second ELSE left) \div Second

(* Math.ceil(Math.max(1000, what is left of the window) / 1000) *)
retryAfterSeconds(bucket) ==
  LET left == Window - (now - bucket.windowStart) IN
  ((IF left < Second THEN Second ELSE left) + Second - 1) \div Second

(* Mutant of Admit: the bucket of the last window stays. *)
Admit_Keeps(k, bucket) ==
  /\ buckets' = [buckets EXCEPT ![k] = @ \cup {bucket}]
  /\ admitted' = [admitted EXCEPT ![k] = Append(@, now)]
  /\ retryAt' = [retryAt EXCEPT ![k] = {}]
  /\ UNCHANGED <<now, earlier>>

(* rateLimitBuckets.set, or the count of the bucket goes up. *)
Admit(k, bucket) ==
  /\ buckets' = [buckets EXCEPT ![k] = {bucket}]
  /\ admitted' = [admitted EXCEPT ![k] = Append(@, now)]
  /\ retryAt' = [retryAt EXCEPT ![k] = {}]
  /\ UNCHANGED <<now, earlier>>

(* consumeRateLimit: there is no bucket, or its window is over. *)
NewWindow(k) ==
  /\ \A bucket \in buckets[k] : Lapsed(bucket)
  /\ Admit(k, [windowStart |-> now, count |-> 1])

SameWindow(k) ==
  \E bucket \in buckets[k] :
    /\ ~ Lapsed(bucket)
    /\ bucket.count < Limit[k[1]]
    /\ Admit(k, [bucket EXCEPT !.count = @ + 1])

(* 429 with Retry-After. *)
Refused(k) ==
  \E bucket \in buckets[k] :
    /\ ~ Lapsed(bucket)
    /\ bucket.count >= Limit[k[1]]
    /\ retryAt' = [retryAt EXCEPT ![k] = {now + retryAfterSeconds(bucket) * Second}]
    /\ UNCHANGED <<now, buckets, admitted, earlier>>

(* The buckets are in memory only: the next run counts from nothing. *)
Restart ==
  /\ \E k \in Key : buckets[k] # {}
  /\ Cardinality(earlier) < MaxRuns
  /\ buckets' = [k \in Key |-> {}]
  /\ admitted' = [k \in Key |-> <<>>]
  /\ earlier' = earlier \cup {admitted}
  /\ UNCHANGED <<now, retryAt>>

Tick ==
  /\ now < MaxTime
  /\ now' = now + 1
  /\ UNCHANGED <<buckets, admitted, earlier, retryAt>>

Next ==
  \/ \E k \in Key : NewWindow(k) \/ SameWindow(k) \/ Refused(k)
  \/ Restart
  \/ Tick

Spec == Init /\ [][Next]_vars

-----------------------------------------------------------------------------
(***************************************************************************)
(* The windows are fixed, not sliding, so more than the limit gets through *)
(* around the edge of one: in any stretch of time as long as the window,   *)
(* one run of the server lets less than twice its limit through for a key, *)
(* and at least one request of a window, even if the limit is zero.        *)
(* Nothing is promised across a restart: each run has its own count, so a  *)
(* stretch that meets several may hold as much from every one of them.     *)
(***************************************************************************)
BurstBounded ==
  \A run \in earlier \cup {admitted}, k \in Key : \A from \in 0..MaxTime :
    Cardinality({i \in DOMAIN run[k] : run[k][i] \in from..(from + Window - 1)})
      < 2 * (IF Limit[k[1]] = 0 THEN 1 ELSE Limit[k[1]])

(***************************************************************************)
(* A client that was refused and waits as long as Retry-After told it to   *)
(* is not refused again, unless somebody else behind the same address has  *)
(* been let through in between.                                            *)
(***************************************************************************)
RetryAfterIsEnough ==
  [][\A k \in Key : Refused(k) => \A t \in retryAt[k] : now < t]_vars
=============================================================================
