---------------------------- MODULE ServerProofs ----------------------------
(***************************************************************************)
(* Proofs about the server: the three parts that MCServer puts side by     *)
(* side (the rate limits, for any categories, limits and windows; the      *)
(* settings, for any values; the identity, for any keys and reservoirs)    *)
(* and the authentication of InboxSession, for any wallets, requests in    *)
(* progress and limits on the age of a credential.                         *)
(***************************************************************************)
EXTENDS MCServer, InboxSession, TLAPS, FiniteSetTheorems, SequenceTheorems

-----------------------------------------------------------------------------
(* The rate limits: type correctness. *)

LEMMA RetryAfterCovers ==
  ASSUME NEW left \in Int, NEW t \in Nat \ {0}
  PROVE  /\ ((IF left < t THEN t ELSE left) + t - 1) \div t \in Nat
         /\ left <= (((IF left < t THEN t ELSE left) + t - 1) \div t) * t
<1> DEFINE most == IF left < t THEN t ELSE left
           secs == (most + t - 1) \div t
           rest == (most + t - 1) % t
<1>1. most \in Nat /\ left <= most
  OBVIOUS
<1>2. secs \in Int /\ rest \in Int /\ most + t - 1 = t * secs + rest /\ 0 <= rest /\ rest <= t - 1
  BY <1>1
<1>3. most <= t * secs
  BY <1>1, <1>2
<1>4. secs >= 0
  BY <1>1, <1>2
<1>5. t * secs = secs * t
  BY <1>2
<1> QED
  BY <1>1, <1>2, <1>3, <1>4, <1>5

(* What a refused client is told to wait covers what is left of the window. *)
LEMMA RetryCoversWindow ==
  ASSUME NEW bucket, bucket.windowStart \in Int, now \in Int
  PROVE  /\ retryAfterSeconds(bucket) \in Nat
         /\ retryAfterSeconds(bucket) * Second \in Nat
         /\ bucket.windowStart + Window <= now + retryAfterSeconds(bucket) * Second
<1> DEFINE left == Window - (now - bucket.windowStart)
           secs == ((IF left < Second THEN Second ELSE left) + Second - 1) \div Second
<1>1. left \in Int /\ Second \in Nat \ {0}
  BY LimitAssumption
<1>2. secs = retryAfterSeconds(bucket)
  BY DEF retryAfterSeconds
<1> HIDE DEF left
<1>3. secs \in Nat /\ left <= secs * Second
  BY <1>1, RetryAfterCovers
<1> HIDE DEF secs
<1>4. secs * Second \in Nat
  BY <1>1, <1>3
<1>5. bucket.windowStart + Window <= now + secs * Second
  BY <1>3, <1>4, LimitAssumption DEF left
<1> QED
  BY <1>2, <1>3, <1>4, <1>5

LEMMA LimitsInitType == Init => TypeOK
BY LimitAssumption, FS_EmptySet DEF Init, TypeOK

LEMMA AdmitType ==
  ASSUME TypeOK, NEW k \in Key, NEW bucket \in Bucket, Admit(k, bucket)
  PROVE  TypeOK'
<1>1. buckets' \in [Key -> SUBSET Bucket]
  BY DEF TypeOK, Admit
<1>2. ASSUME NEW j \in Key PROVE Cardinality(buckets'[j]) <= 1
  <2>1. CASE buckets'[j] = buckets[j]
    BY <2>1 DEF TypeOK
  <2>2. CASE buckets'[j] = {bucket}
    <3>1. Cardinality(buckets'[j]) = 1
      BY <2>2, FS_Singleton
    <3> QED
      BY <3>1
  <2> QED
    BY <2>1, <2>2 DEF TypeOK, Admit
<1>3. admitted' \in [Key -> Seq(0..MaxTime)]
  <2>1. Append(admitted[k], now) \in Seq(0..MaxTime)
    BY DEF TypeOK
  <2> QED
    BY <2>1 DEF TypeOK, Admit
<1>4. now' \in 0..MaxTime /\ retryAt' \in [Key -> SUBSET Nat] /\ earlier' \subseteq [Key -> Seq(0..MaxTime)]
  BY DEF TypeOK, Admit
<1> QED
  BY <1>1, <1>2, <1>3, <1>4 DEF TypeOK

LEMMA LimitsNextType == TypeOK /\ [Next]_vars => TypeOK'
<1> SUFFICES ASSUME TypeOK, [Next]_vars PROVE TypeOK'
  OBVIOUS
<1>0. now \in Nat /\ \A k \in Key : buckets[k] \subseteq Bucket
  BY LimitAssumption DEF TypeOK
<1>1. ASSUME NEW k \in Key, NewWindow(k) PROVE TypeOK'
  <2>1. [windowStart |-> now, count |-> 1] \in Bucket
    BY DEF TypeOK, Bucket
  <2> QED
    BY <1>1, <2>1, AdmitType DEF NewWindow
<1>2. ASSUME NEW k \in Key, SameWindow(k) PROVE TypeOK'
  <2>1. PICK bucket \in buckets[k] : Admit(k, [bucket EXCEPT !.count = @ + 1])
    BY <1>2 DEF SameWindow
  <2>2. bucket \in Bucket
    BY <1>0
  <2>3. [bucket EXCEPT !.count = @ + 1] \in Bucket
    BY <2>2 DEF Bucket
  <2> QED
    BY <2>1, <2>3, AdmitType
<1>3. ASSUME NEW k \in Key, Refused(k) PROVE TypeOK'
  <2>1. PICK bucket \in buckets[k] :
          /\ retryAt' = [retryAt EXCEPT ![k] = {now + retryAfterSeconds(bucket) * Second}]
          /\ UNCHANGED <<now, buckets, admitted, earlier>>
    BY <1>3 DEF Refused
  <2>2. bucket.windowStart \in Int
    BY <1>0, LimitAssumption DEF Bucket
  <2>3. retryAfterSeconds(bucket) * Second \in Nat
    BY <1>0, <2>2, RetryCoversWindow
  <2>4. now + retryAfterSeconds(bucket) * Second \in Nat
    BY <1>0, <2>3
  <2> QED
    BY <2>1, <2>4 DEF TypeOK
<1>4. CASE Restart
  BY <1>4, FS_EmptySet DEF Restart, TypeOK
<1>5. CASE Tick
  BY <1>5, LimitAssumption DEF Tick, TypeOK
<1>6. CASE UNCHANGED vars
  BY <1>6 DEF vars, TypeOK
<1> QED
  BY <1>1, <1>2, <1>3, <1>4, <1>5, <1>6 DEF Next

(* The map has one bucket for a key: what Cardinality says of it, one by one. *)
OneBucket == \A k \in Key : \A a, b \in buckets[k] : a = b

LEMMA InitOne == Init => OneBucket
BY DEF Init, OneBucket

LEMMA NextOne == TypeOK /\ OneBucket /\ [Next]_vars => OneBucket'
<1> SUFFICES ASSUME TypeOK, OneBucket, [Next]_vars PROVE OneBucket'
  OBVIOUS
<1>1. ASSUME NEW k \in Key, NEW bucket, Admit(k, bucket) PROVE OneBucket'
  BY <1>1 DEF Admit, OneBucket, TypeOK
<1>2. ASSUME UNCHANGED buckets \/ Restart PROVE OneBucket'
  BY <1>2 DEF OneBucket, Restart
<1> QED
  BY <1>1, <1>2 DEF Next, NewWindow, SameWindow, Refused, Tick, vars

-----------------------------------------------------------------------------
(***************************************************************************)
(* Retry-After: a refusal names a moment at which the window it was made   *)
(* in is over, and that stays so while the bucket is the same.             *)
(***************************************************************************)
RetryIsAfter ==
  \A k \in Key : \A t \in retryAt[k], bucket \in buckets[k] : bucket.windowStart + Window <= t

LEMMA InitRetry == Init => RetryIsAfter
BY DEF Init, RetryIsAfter

LEMMA NextRetry == TypeOK /\ OneBucket /\ RetryIsAfter /\ [Next]_vars => RetryIsAfter'
<1> SUFFICES ASSUME TypeOK, OneBucket, RetryIsAfter, [Next]_vars PROVE RetryIsAfter'
  OBVIOUS
<1>0. now \in Nat /\ \A k \in Key : buckets[k] \subseteq Bucket
  BY LimitAssumption DEF TypeOK
<1>1. ASSUME NEW k \in Key, NEW bucket, Admit(k, bucket) PROVE RetryIsAfter'
  <2>1. retryAt'[k] = {} /\ \A j \in Key \ {k} : retryAt'[j] = retryAt[j] /\ buckets'[j] = buckets[j]
    BY <1>1 DEF Admit, TypeOK
  <2> QED
    BY <2>1 DEF RetryIsAfter
<1>2. ASSUME NEW k \in Key, Refused(k) PROVE RetryIsAfter'
  <2>1. PICK bucket \in buckets[k] :
          /\ retryAt' = [retryAt EXCEPT ![k] = {now + retryAfterSeconds(bucket) * Second}]
          /\ UNCHANGED <<now, buckets, admitted, earlier>>
    BY <1>2 DEF Refused
  <2>2. bucket.windowStart \in Int
    BY <1>0, LimitAssumption DEF Bucket
  <2>3. bucket.windowStart + Window <= now + retryAfterSeconds(bucket) * Second
    BY <1>0, <2>2, RetryCoversWindow
  <2>4. \A other \in buckets[k] : other = bucket
    BY DEF OneBucket
  <2> QED
    BY <2>1, <2>3, <2>4 DEF RetryIsAfter, TypeOK
<1>3. CASE Restart
  BY <1>3 DEF Restart, RetryIsAfter
<1>4. CASE Tick \/ UNCHANGED vars
  BY <1>4 DEF Tick, vars, RetryIsAfter
<1> QED
  BY <1>1, <1>2, <1>3, <1>4 DEF Next, NewWindow, SameWindow

(* A client that waits as long as it was told to is let through, for any     *)
(* window and any fraction of a second that Retry-After has to round up.     *)
THEOREM RetryAfterSuffices == Spec => RetryAfterIsEnough
<1>1. TypeOK /\ RetryIsAfter => \A k \in Key : Refused(k) => \A t \in retryAt[k] : now < t
  <2> SUFFICES ASSUME TypeOK, RetryIsAfter, NEW k \in Key, Refused(k), NEW t \in retryAt[k]
               PROVE  now < t
    OBVIOUS
  <2>1. PICK bucket \in buckets[k] : ~ Lapsed(bucket)
    BY DEF Refused
  <2>2. bucket.windowStart \in Nat /\ now \in Nat /\ t \in Nat
    BY LimitAssumption DEF TypeOK, Bucket
  <2>3. bucket.windowStart + Window <= t
    BY DEF RetryIsAfter
  <2> QED
    BY <2>1, <2>2, <2>3, LimitAssumption DEF Lapsed
<1> QED
  BY <1>1, LimitsInitType, LimitsNextType, InitOne, NextOne, InitRetry, NextRetry, PTL
     DEF Spec, RetryAfterIsEnough

-----------------------------------------------------------------------------
(***************************************************************************)
(* Bursts.  A stretch of time as long as the window meets two windows at   *)
(* most, and if it meets two it misses the request the first began with.   *)
(* So it is kept of every bucket how many of its key's requests belong to  *)
(* its window, that one of them is at its start, and how few a stretch     *)
(* that reaches back from the window holds of those before it.             *)
(***************************************************************************)
Most(k) == IF Limit[k[1]] = 0 THEN 1 ELSE Limit[k[1]]

Between(s, from, to) == {i \in DOMAIN s : from <= s[i] /\ s[i] < to}

(* What the history s of a key says of the window of its bucket, by now. *)
Counted(s, bucket, most) ==
  /\ bucket.count <= most
  /\ \E i \in DOMAIN s : s[i] = bucket.windowStart
  /\ \A i \in DOMAIN s : s[i] < bucket.windowStart + Window
  /\ Cardinality(Between(s, bucket.windowStart, bucket.windowStart + Window)) <= bucket.count
  /\ \A from \in 0..MaxTime : bucket.windowStart < from + Window =>
       Cardinality(Between(s, from, bucket.windowStart)) < most

Bounded(s, most) ==
  \A from \in 0..MaxTime : Cardinality(Between(s, from, from + Window)) < 2 * most

WindowsCount ==
  \A k \in Key :
    /\ buckets[k] = {} => admitted[k] = <<>>
    /\ \A i \in DOMAIN admitted[k] : admitted[k][i] <= now
    /\ \A bucket \in buckets[k] : bucket.windowStart <= now /\ Counted(admitted[k], bucket, Most(k))
    /\ Bounded(admitted[k], Most(k))
    /\ \A run \in earlier : Bounded(run[k], Most(k))

LEMMA MostType == ASSUME NEW k \in Key PROVE Most(k) \in Nat /\ Most(k) >= 1
BY LimitAssumption DEF Most, Key, Category

LEMMA HistoryElements ==
  ASSUME NEW T, NEW s \in Seq(T)
  PROVE  \A i \in DOMAIN s : s[i] \in T
OBVIOUS

(* What a history holds of a stretch of time can be counted. *)
LEMMA BetweenCount ==
  ASSUME NEW s \in Seq(Nat), NEW from, NEW to
  PROVE  IsFiniteSet(Between(s, from, to)) /\ Cardinality(Between(s, from, to)) \in Nat
<1>1. IsFiniteSet(DOMAIN s)
  <2>1. DOMAIN s = 1..Len(s) /\ Len(s) \in Nat
    OBVIOUS
  <2> QED
    BY <2>1, FS_Interval
<1> QED
  BY <1>1, FS_Subset, FS_CardinalityType DEF Between

LEMMA NothingBetween ==
  ASSUME NEW from, NEW to
  PROVE  Between(<<>>, from, to) = {} /\ Cardinality(Between(<<>>, from, to)) = 0
<1>1. Between(<<>>, from, to) = {}
  BY DEF Between
<1> QED
  BY <1>1, FS_EmptySet

(* One request more, at t: a stretch without t is as it was, and one with it *)
(* holds one more.                                                           *)
LEMMA AppendBetween ==
  ASSUME NEW s \in Seq(Nat), NEW t \in Nat, NEW from \in Int, NEW to \in Int
  PROVE  /\ to <= t \/ t < from => Between(Append(s, t), from, to) = Between(s, from, to)
         /\ Cardinality(Between(Append(s, t), from, to)) <= Cardinality(Between(s, from, to)) + 1
<1>1. /\ Len(s) \in Nat /\ DOMAIN s = 1..Len(s) /\ Len(s) + 1 \notin DOMAIN s
      /\ DOMAIN Append(s, t) = DOMAIN s \cup {Len(s) + 1}
      /\ \A i \in DOMAIN s : Append(s, t)[i] = s[i]
      /\ Append(s, t)[Len(s) + 1] = t
  OBVIOUS
<1>2. to <= t \/ t < from => Between(Append(s, t), from, to) = Between(s, from, to)
  BY <1>1 DEF Between
<1>3. Between(Append(s, t), from, to) \subseteq Between(s, from, to) \cup {Len(s) + 1}
  BY <1>1 DEF Between
<1>4. Len(s) + 1 \notin Between(s, from, to) /\ IsFiniteSet(Between(s, from, to))
  BY <1>1, BetweenCount DEF Between
<1>5. /\ Cardinality(Between(s, from, to) \cup {Len(s) + 1}) = Cardinality(Between(s, from, to)) + 1
      /\ IsFiniteSet(Between(s, from, to) \cup {Len(s) + 1})
  BY <1>4, FS_AddElement
<1> QED
  BY <1>2, <1>3, <1>5, FS_Subset

LEMMA AppendElements ==
  ASSUME NEW s \in Seq(Nat), NEW t \in Nat
  PROVE  /\ Append(s, t) \in Seq(Nat)
         /\ \E i \in DOMAIN Append(s, t) : Append(s, t)[i] = t
         /\ \A i \in DOMAIN s : i \in DOMAIN Append(s, t) /\ Append(s, t)[i] = s[i]
         /\ \A i \in DOMAIN Append(s, t) : Append(s, t)[i] = t \/ (i \in DOMAIN s /\ Append(s, t)[i] = s[i])
<1>1. /\ Len(s) \in Nat /\ DOMAIN s = 1..Len(s)
      /\ DOMAIN Append(s, t) = DOMAIN s \cup {Len(s) + 1}
      /\ \A i \in DOMAIN s : Append(s, t)[i] = s[i]
      /\ Append(s, t)[Len(s) + 1] = t /\ Append(s, t) \in Seq(Nat)
  OBVIOUS
<1> QED
  BY <1>1

(* A stretch that begins after the start of a window misses its first request. *)
LEMMA MissesFirst ==
  ASSUME NEW s \in Seq(Nat), NEW bucket \in Bucket, NEW most \in Nat, Counted(s, bucket, most),
         NEW from \in Int, NEW to \in Int, bucket.windowStart < from
  PROVE  Cardinality(Between(s, from, to)) < most
<1> DEFINE all == Between(s, bucket.windowStart, bucket.windowStart + Window)
<1>1. PICK first \in DOMAIN s : s[first] = bucket.windowStart
  BY DEF Counted
<1>2. /\ bucket.windowStart \in Nat /\ bucket.count \in Nat /\ Window \in Nat \ {0}
      /\ \A i \in DOMAIN s : s[i] \in Nat
  BY HistoryElements, LimitAssumption DEF Bucket
<1>3. first \in all /\ Between(s, from, to) \subseteq all \ {first}
  BY <1>1, <1>2 DEF Between, Counted
<1>4. IsFiniteSet(all) /\ Cardinality(all) \in Nat /\ Cardinality(Between(s, from, to)) \in Nat
  BY BetweenCount
<1>5. Cardinality(all) <= bucket.count /\ bucket.count <= most
  BY DEF Counted
<1> HIDE DEF all
<1>6. IsFiniteSet(all \ {first}) /\ Cardinality(all \ {first}) = Cardinality(all) - 1
  BY <1>3, <1>4, FS_RemoveElement
<1>7. Cardinality(Between(s, from, to)) <= Cardinality(all \ {first})
  BY <1>3, <1>6, FS_Subset
<1> QED
  BY <1>2, <1>4, <1>5, <1>6, <1>7

(* The first request of a new window: the old window is over, so a stretch   *)
(* that reaches the new one begins after the start of the old.               *)
LEMMA CountsNew ==
  ASSUME NEW s \in Seq(Nat), NEW most \in Nat, most >= 1, NEW t \in 0..MaxTime, Bounded(s, most),
         \A i \in DOMAIN s : s[i] <= t,
         \/ s = <<>>
         \/ \E old \in Bucket : Counted(s, old, most) /\ old.windowStart + Window <= t
  PROVE  /\ Counted(Append(s, t), [windowStart |-> t, count |-> 1], most)
         /\ Bounded(Append(s, t), most)
<1> DEFINE new == [windowStart |-> t, count |-> 1]
           r == Append(s, t)
<1>0. /\ t \in Nat /\ Window \in Nat \ {0} /\ 0..MaxTime \subseteq Nat
      /\ \A i \in DOMAIN s : s[i] \in Nat
  BY HistoryElements, LimitAssumption
<1>1. ASSUME NEW from \in Int, NEW to \in Int, t < from + Window
      PROVE  Cardinality(Between(s, from, to)) < most
  <2>1. CASE s = <<>>
    BY <2>1, NothingBetween
  <2>2. ASSUME NEW old \in Bucket, Counted(s, old, most), old.windowStart + Window <= t
        PROVE  Cardinality(Between(s, from, to)) < most
    <3>1. old.windowStart < from
      BY <1>0, <1>1, <2>2 DEF Bucket
    <3> QED
      BY <2>2, <3>1, MissesFirst
  <2> QED
    BY <2>1, <2>2
<1>2. \A i \in DOMAIN s : s[i] < t
  <2>1. CASE s = <<>>
    BY <2>1
  <2>2. ASSUME NEW old \in Bucket, Counted(s, old, most), old.windowStart + Window <= t
        PROVE  \A i \in DOMAIN s : s[i] < t
    BY <1>0, <2>2 DEF Counted, Bucket
  <2> QED
    BY <2>1, <2>2
<1>3. Cardinality(Between(r, t, t + Window)) <= 1
  <2>1. Between(s, t, t + Window) = {}
    BY <1>0, <1>2 DEF Between
  <2>2. Cardinality(Between(r, t, t + Window)) <= Cardinality(Between(s, t, t + Window)) + 1
    BY <1>0, AppendBetween
  <2>3. Cardinality(Between(s, t, t + Window)) = 0
    BY <2>1, FS_EmptySet
  <2>4. Cardinality(Between(r, t, t + Window)) \in Nat
    BY <1>0, AppendElements, BetweenCount
  <2> QED
    BY <2>2, <2>3, <2>4
<1>4. ASSUME NEW from \in 0..MaxTime, t < from + Window PROVE Cardinality(Between(r, from, t)) < most
  <2>1. Between(r, from, t) = Between(s, from, t)
    BY <1>0, AppendBetween
  <2> QED
    BY <1>0, <1>1, <1>4, <2>1
<1>5. ASSUME NEW from \in 0..MaxTime PROVE Cardinality(Between(r, from, from + Window)) < 2 * most
  <2>1. from \in Int /\ from + Window \in Int
    BY <1>0
  <2>2. CASE t < from + Window
    <3>1. Cardinality(Between(s, from, from + Window)) < most
      BY <1>1, <2>1, <2>2
    <3>2. Cardinality(Between(r, from, from + Window)) <= Cardinality(Between(s, from, from + Window)) + 1
      BY <1>0, <2>1, AppendBetween
    <3>3. r \in Seq(Nat)
      BY <1>0, AppendElements
    <3>4. Cardinality(Between(r, from, from + Window)) \in Nat /\ Cardinality(Between(s, from, from + Window)) \in Nat
      BY <3>3, BetweenCount
    <3> QED
      BY <3>1, <3>2, <3>4
  <2>3. CASE ~ (t < from + Window)
    <3>1. Between(r, from, from + Window) = Between(s, from, from + Window)
      BY <1>0, <2>1, <2>3, AppendBetween
    <3> QED
      BY <3>1 DEF Bounded
  <2> QED
    BY <2>2, <2>3
<1>6. /\ \E i \in DOMAIN r : r[i] = t
      /\ \A i \in DOMAIN r : r[i] < t + Window
  BY <1>0, <1>2, AppendElements
<1> HIDE DEF r
<1>7. Counted(r, new, most)
  BY <1>3, <1>4, <1>6 DEF Counted
<1> QED
  BY <1>5, <1>7 DEF Bounded, r

(* One more request of a window. *)
LEMMA CountsSame ==
  ASSUME NEW s \in Seq(Nat), NEW most \in Nat, NEW t \in 0..MaxTime, Bounded(s, most),
         NEW bucket \in Bucket, Counted(s, bucket, most),
         bucket.windowStart <= t, t < bucket.windowStart + Window, bucket.count < most
  PROVE  /\ Counted(Append(s, t), [bucket EXCEPT !.count = @ + 1], most)
         /\ Bounded(Append(s, t), most)
<1> DEFINE start == bucket.windowStart
           next == [bucket EXCEPT !.count = @ + 1]
           r == Append(s, t)
<1>0. /\ t \in Nat /\ Window \in Nat \ {0} /\ 0..MaxTime \subseteq Nat
      /\ start \in Nat /\ bucket.count \in Nat /\ start + Window \in Int
      /\ next.windowStart = start /\ next.count = bucket.count + 1
  BY LimitAssumption DEF Bucket
<1>1. /\ \E i \in DOMAIN r : r[i] = start
      /\ \A i \in DOMAIN r : r[i] < start + Window
      /\ r \in Seq(Nat)
  <2>1. /\ r \in Seq(Nat)
        /\ \A i \in DOMAIN s : i \in DOMAIN r /\ r[i] = s[i]
        /\ \A i \in DOMAIN r : r[i] = t \/ (i \in DOMAIN s /\ r[i] = s[i])
    BY <1>0, AppendElements
  <2>2. /\ \E i \in DOMAIN s : s[i] = start
        /\ \A i \in DOMAIN s : s[i] < start + Window
    BY DEF Counted
  <2> HIDE DEF r, start
  <2>3. \E i \in DOMAIN r : r[i] = start
    BY <2>1, <2>2
  <2>4. \A i \in DOMAIN r : r[i] < start + Window
    BY <2>1, <2>2 DEF start
  <2> QED
    BY <2>1, <2>3, <2>4
<1>2. Cardinality(Between(r, start, start + Window)) <= bucket.count + 1
  <2>1. Cardinality(Between(r, start, start + Window)) <= Cardinality(Between(s, start, start + Window)) + 1
    BY <1>0, AppendBetween
  <2>2. Cardinality(Between(s, start, start + Window)) <= bucket.count
    BY DEF Counted
  <2>3. Cardinality(Between(r, start, start + Window)) \in Nat /\ Cardinality(Between(s, start, start + Window)) \in Nat
    BY <1>1, BetweenCount
  <2> QED
    BY <1>0, <2>1, <2>2, <2>3
<1>3. ASSUME NEW from \in 0..MaxTime PROVE Between(r, from, start) = Between(s, from, start)
  BY <1>0, AppendBetween
<1> HIDE DEF r, next
<1>4. Counted(r, next, most)
  <2>1. \A from \in 0..MaxTime : start < from + Window => Cardinality(Between(r, from, start)) < most
    BY <1>3 DEF Counted
  <2>2. bucket.count + 1 <= most
    BY <1>0
  <2> HIDE DEF start
  <2> QED
    BY <1>0, <1>1, <1>2, <2>1, <2>2 DEF Counted
<1>5. ASSUME NEW from \in 0..MaxTime PROVE Cardinality(Between(r, from, from + Window)) < 2 * most
  <2>0. from \in Int /\ from + Window \in Int
    BY <1>0
  <2>1. CASE start < from + Window
    <3> DEFINE old == Between(r, from, start)
               cur == Between(r, start, start + Window)
    <3>1. Between(r, from, from + Window) \subseteq old \cup cur
      BY <1>0, <1>1, HistoryElements DEF Between
    <3>2. /\ IsFiniteSet(old) /\ IsFiniteSet(cur)
          /\ Cardinality(old) \in Nat /\ Cardinality(cur) \in Nat
          /\ Cardinality(Between(r, from, from + Window)) \in Nat
      BY <1>1, BetweenCount
    <3>3. Cardinality(old) < most /\ Cardinality(cur) <= most
      BY <1>0, <1>2, <1>3, <2>1, <3>2 DEF Counted
    <3> HIDE DEF old, cur
    <3>4. IsFiniteSet(old \cup cur) /\ Cardinality(old \cup cur) <= Cardinality(old) + Cardinality(cur)
      <4>1. /\ IsFiniteSet(old \cup cur)
            /\ Cardinality(old \cup cur) = Cardinality(old) + Cardinality(cur) - Cardinality(old \cap cur)
        BY <3>2, FS_Union
      <4>2. IsFiniteSet(old \cap cur)
        BY <3>2, FS_Subset
      <4>3. Cardinality(old \cap cur) \in Nat
        BY <4>2, FS_CardinalityType
      <4> QED
        BY <3>2, <4>1, <4>3
    <3>5. Cardinality(Between(r, from, from + Window)) <= Cardinality(old \cup cur)
      BY <3>1, <3>4, FS_Subset
    <3>6. Cardinality(old \cup cur) \in Nat
      BY <3>4, FS_CardinalityType
    <3> QED
      BY <3>2, <3>3, <3>4, <3>5, <3>6
  <2>2. CASE ~ (start < from + Window)
    <3>1. Between(r, from, from + Window) = Between(s, from, from + Window)
      BY <1>0, <2>0, <2>2, AppendBetween DEF r
    <3> QED
      BY <3>1 DEF Bounded
  <2> QED
    BY <2>1, <2>2
<1> QED
  BY <1>4, <1>5 DEF Bounded, r, next

LEMMA AdmitWindows ==
  ASSUME TypeOK, WindowsCount, NEW k \in Key, NEW bucket, Admit(k, bucket),
         bucket.windowStart <= now, admitted[k] \in Seq(Nat), now \in Nat,
         Counted(Append(admitted[k], now), bucket, Most(k)), Bounded(Append(admitted[k], now), Most(k))
  PROVE  WindowsCount'
<1>1. /\ buckets'[k] = {bucket} /\ admitted'[k] = Append(admitted[k], now) /\ UNCHANGED <<now, earlier>>
      /\ \A j \in Key \ {k} : buckets'[j] = buckets[j] /\ admitted'[j] = admitted[j]
  BY DEF Admit, TypeOK
<1>2. \A i \in DOMAIN Append(admitted[k], now) : Append(admitted[k], now)[i] <= now
  <2>1. \A i \in DOMAIN Append(admitted[k], now) :
          \/ Append(admitted[k], now)[i] = now
          \/ i \in DOMAIN admitted[k] /\ Append(admitted[k], now)[i] = admitted[k][i]
    BY AppendElements
  <2>2. \A i \in DOMAIN admitted[k] : admitted[k][i] <= now
    BY DEF WindowsCount
  <2> QED
    BY <2>1, <2>2
<1> QED
  BY <1>1, <1>2 DEF WindowsCount

LEMMA NextWindows == TypeOK /\ WindowsCount /\ [Next]_vars => WindowsCount'
<1> SUFFICES ASSUME TypeOK, WindowsCount, [Next]_vars PROVE WindowsCount'
  OBVIOUS
<1>0. /\ now \in Nat /\ now \in 0..MaxTime /\ 0..MaxTime \subseteq Nat
      /\ \A k \in Key : buckets[k] \subseteq Bucket /\ admitted[k] \in Seq(0..MaxTime)
  BY LimitAssumption DEF TypeOK
<1>1. ASSUME NEW k \in Key
      PROVE  /\ admitted[k] \in Seq(Nat) /\ Bounded(admitted[k], Most(k))
             /\ Most(k) \in Nat /\ Most(k) >= 1
  <2>1. admitted[k] \in Seq(Nat)
    <3>1. admitted[k] \in Seq(0..MaxTime) /\ 0..MaxTime \subseteq Nat
      BY <1>0
    <3> QED
      BY <3>1, SeqMonotonic
  <2>2. Bounded(admitted[k], Most(k))
    BY DEF WindowsCount
  <2> QED
    BY <2>1, <2>2, MostType
<1>2. ASSUME NEW k \in Key, NewWindow(k) PROVE WindowsCount'
  <2>1. \A i \in DOMAIN admitted[k] : admitted[k][i] <= now
    BY DEF WindowsCount
  <2>2. \/ admitted[k] = <<>>
        \/ \E old \in Bucket : Counted(admitted[k], old, Most(k)) /\ old.windowStart + Window <= now
    <3>1. CASE buckets[k] = {}
      BY <3>1 DEF WindowsCount
    <3>2. ASSUME NEW old \in buckets[k]
          PROVE  old \in Bucket /\ Counted(admitted[k], old, Most(k)) /\ old.windowStart + Window <= now
      BY <1>0, <1>2, <3>2, LimitAssumption DEF NewWindow, Lapsed, WindowsCount, Bucket
    <3> QED
      BY <3>1, <3>2
  <2>3. /\ Counted(Append(admitted[k], now), [windowStart |-> now, count |-> 1], Most(k))
        /\ Bounded(Append(admitted[k], now), Most(k))
    BY <1>0, <1>1, <2>1, <2>2, CountsNew
  <2> QED
    BY <1>0, <1>1, <1>2, <2>3, AdmitWindows DEF NewWindow
<1>3. ASSUME NEW k \in Key, SameWindow(k) PROVE WindowsCount'
  <2>1. PICK bucket \in buckets[k] :
          ~ Lapsed(bucket) /\ bucket.count < Limit[k[1]] /\ Admit(k, [bucket EXCEPT !.count = @ + 1])
    BY <1>3 DEF SameWindow
  <2>2. /\ bucket \in Bucket /\ Counted(admitted[k], bucket, Most(k))
        /\ bucket.windowStart <= now /\ now < bucket.windowStart + Window
    BY <1>0, <2>1, LimitAssumption DEF Lapsed, WindowsCount, Bucket
  <2>3. bucket.count < Most(k)
    BY <2>1, <2>2 DEF Most, Bucket
  <2>4. /\ Counted(Append(admitted[k], now), [bucket EXCEPT !.count = @ + 1], Most(k))
        /\ Bounded(Append(admitted[k], now), Most(k))
    BY <1>0, <1>1, <2>2, <2>3, CountsSame
  <2>5. [bucket EXCEPT !.count = @ + 1].windowStart <= now
    BY <2>2 DEF Bucket
  <2> QED
    BY <1>0, <1>1, <2>1, <2>4, <2>5, AdmitWindows
<1>4. CASE Restart
  <2>1. ASSUME NEW k \in Key PROVE Bounded(<<>>, Most(k))
    BY <1>1, NothingBetween DEF Bounded
  <2>2. \A k \in Key, run \in earlier' : Bounded(run[k], Most(k))
    BY <1>4 DEF Restart, WindowsCount
  <2> QED
    BY <1>4, <2>1, <2>2 DEF Restart, WindowsCount
<1>5. CASE Tick
  <2>1. /\ buckets' = buckets /\ admitted' = admitted /\ earlier' = earlier /\ now' = now + 1
    BY <1>5 DEF Tick
  <2>2. ASSUME NEW k \in Key
        PROVE  /\ \A i \in DOMAIN admitted[k] : admitted[k][i] <= now + 1
               /\ \A bucket \in buckets[k] : bucket.windowStart <= now + 1
    <3>1. \A i \in DOMAIN admitted[k] : admitted[k][i] \in Nat
      BY <1>1, HistoryElements
    <3>2. \A bucket \in buckets[k] : bucket.windowStart \in Nat
      BY <1>0 DEF Bucket
    <3> QED
      BY <1>0, <3>1, <3>2 DEF WindowsCount
  <2> QED
    BY <2>1, <2>2 DEF WindowsCount
<1>6. ASSUME UNCHANGED <<now, buckets, admitted, earlier>> PROVE WindowsCount'
  BY <1>6 DEF WindowsCount
<1> QED
  BY <1>2, <1>3, <1>4, <1>5, <1>6 DEF Next, Refused, vars

LEMMA InitWindows == Init => WindowsCount
<1> SUFFICES ASSUME Init PROVE WindowsCount
  OBVIOUS
<1>1. ASSUME NEW k \in Key PROVE Bounded(<<>>, Most(k))
  BY MostType, NothingBetween DEF Bounded
<1> QED
  BY <1>1 DEF Init, WindowsCount

(* In any stretch of time as long as the window, one run of the server lets  *)
(* less than twice its limit through for a key: for every limit and window,  *)
(* every number of clients, and every run before and after a restart.        *)
THEOREM BurstsAreBounded == Spec => []BurstBounded
<1>1. TypeOK /\ WindowsCount => BurstBounded
  <2> SUFFICES ASSUME TypeOK, WindowsCount, NEW run \in earlier \cup {admitted},
                      NEW k \in Key, NEW from \in 0..MaxTime
               PROVE  Cardinality({i \in DOMAIN run[k] : run[k][i] \in from..(from + Window - 1)})
                        < 2 * Most(k)
    BY DEF BurstBounded, Most
  <2>1. \A i \in DOMAIN run[k] : run[k][i] \in 0..MaxTime
    <3>1. run[k] \in Seq(0..MaxTime)
      BY DEF TypeOK
    <3> QED
      BY <3>1, HistoryElements
  <2>2. \A i \in DOMAIN run[k] :
          run[k][i] \in from..(from + Window - 1) <=> from <= run[k][i] /\ run[k][i] < from + Window
    BY <2>1, LimitAssumption
  <2>3. {i \in DOMAIN run[k] : run[k][i] \in from..(from + Window - 1)}
          = Between(run[k], from, from + Window)
    BY <2>2 DEF Between
  <2>4. Bounded(run[k], Most(k))
    BY DEF WindowsCount
  <2> QED
    BY <2>3, <2>4 DEF Bounded
<1> QED
  BY <1>1, LimitsInitType, LimitsNextType, InitWindows, NextWindows, PTL DEF Spec

-----------------------------------------------------------------------------
(***************************************************************************)
(* The settings.  Once a start has gone through, every key has a row, and  *)
(* a row that is there is never overwritten by a default; so only an       *)
(* update changes what is in force.                                        *)
(***************************************************************************)
SettingsKept ==
  /\ up => live # {}
  /\ live # {} => \A k \in S!Key : rows[k] # {}

LEMMA OnlyValue == ASSUME NEW v PROVE (CHOOSE w \in {v} : TRUE) = v
<1>1. (CHOOSE w \in {v} : TRUE) \in {v}
  <2>1. \E w \in {v} : TRUE
    OBVIOUS
  <2> QED
    BY <2>1
<1> QED
  BY <1>1

(* What is written is the value of s or stays; all three keys are all keys. *)
LEMMA WrittenIs ==
  ASSUME NEW s, NEW k \in S!Key
  PROVE  /\ \A n \in Nat : S!Written(n, s)[k] \in {{s[k]}, rows[k]}
         /\ S!Written(3, s)[k] = {s[k]}
<1>1. \E i \in 1..3 : S!Keys[i] = k
  BY DEF S!Key
<1>2. S!Written(3, s)[k] = {s[k]}
  BY <1>1 DEF S!Written
<1>3. \A n \in Nat : S!Written(n, s)[k] \in {{s[k]}, rows[k]}
  BY DEF S!Written
<1> QED
  BY <1>2, <1>3

LEMMA GetType == S!TypeOK => S!get \in S!Settings
<1> SUFFICES ASSUME S!TypeOK, NEW k \in S!Key
             PROVE  (IF rows[k] = {} THEN defaults[k] ELSE CHOOSE v \in rows[k] : TRUE) \in Value
  BY DEF S!get, S!Settings
<1>1. rows[k] \in {{}} \cup {{v} : v \in Value} /\ defaults[k] \in Value
  BY DEF S!TypeOK, S!Settings
<1>2. ASSUME NEW v \in Value, rows[k] = {v} PROVE (CHOOSE w \in rows[k] : TRUE) \in Value
  BY <1>2, OnlyValue
<1> QED
  BY <1>1, <1>2

LEMMA MergedType ==
  ASSUME S!TypeOK, NEW patch \in S!Patch
  PROVE  S!Merged(patch) \in S!Settings
<1>1. \A k \in DOMAIN patch : patch[k] \in Value
  BY DEF S!Patch
<1>2. \A k \in S!Key : S!get[k] \in Value
  BY GetType DEF S!Settings
<1> QED
  BY <1>1, <1>2 DEF S!Merged, S!Settings

LEMMA RowsType ==
  ASSUME S!TypeOK, NEW s \in S!Settings, NEW n \in Nat
  PROVE  /\ S!Written(n, s) \in [S!Key -> {{}} \cup {{v} : v \in Value}]
         /\ S!Seeded(n, s) \in [S!Key -> {{}} \cup {{v} : v \in Value}]
<1>1. ASSUME NEW k \in S!Key
      PROVE  S!Written(n, s)[k] \in {{}} \cup {{v} : v \in Value}
  <2>1. S!Written(n, s)[k] \in {{s[k]}, rows[k]}
    BY WrittenIs
  <2>2. s[k] \in Value /\ rows[k] \in {{}} \cup {{v} : v \in Value}
    BY DEF S!TypeOK, S!Settings
  <2> QED
    BY <2>1, <2>2
<1>2. S!Written(n, s) = [k \in S!Key |-> S!Written(n, s)[k]]
  BY DEF S!Written
<1>3. S!Seeded(n, s) = [k \in S!Key |-> IF rows[k] = {} THEN S!Written(n, s)[k] ELSE rows[k]]
  BY DEF S!Seeded
<1>4. \A k \in S!Key : rows[k] \in {{}} \cup {{v} : v \in Value}
  BY DEF S!TypeOK
<1> QED
  BY <1>1, <1>2, <1>3, <1>4

LEMMA SettingsInitType == S!Init => S!TypeOK
BY DEF S!Init, S!TypeOK

LEMMA SettingsNextType == S!TypeOK /\ [S!Next]_(S!vars) => S!TypeOK'
<1> SUFFICES ASSUME S!TypeOK, [S!Next]_(S!vars) PROVE S!TypeOK'
  OBVIOUS
<1>0. rows' \in [S!Key -> {{}} \cup {{v} : v \in Value}] /\ defaults' \in S!Settings => S!get' \in S!Settings
  <2> SUFFICES ASSUME rows' \in [S!Key -> {{}} \cup {{v} : v \in Value}], defaults' \in S!Settings,
                      NEW k \in S!Key
               PROVE  (IF rows'[k] = {} THEN defaults'[k] ELSE CHOOSE v \in rows'[k] : TRUE) \in Value
    BY DEF S!get, S!Settings
  <2>1. rows'[k] \in {{}} \cup {{v} : v \in Value} /\ defaults'[k] \in Value
    BY DEF S!Settings
  <2>2. ASSUME NEW v \in Value, rows'[k] = {v} PROVE (CHOOSE w \in rows'[k] : TRUE) \in Value
    BY <2>2, OnlyValue
  <2> QED
    BY <2>1, <2>2
<1>1. ASSUME NEW d \in S!Settings, S!Start(d) PROVE S!TypeOK'
  <2>1. rows' \in [S!Key -> {{}} \cup {{v} : v \in Value}]
    BY <1>1, RowsType DEF S!Start
  <2> QED
    BY <1>0, <1>1, <2>1 DEF S!Start, S!TypeOK
<1>2. ASSUME NEW d \in S!Settings, S!StartCut(d) PROVE S!TypeOK'
  <2>1. rows' \in [S!Key -> {{}} \cup {{v} : v \in Value}]
    BY <1>2, RowsType DEF S!StartCut
  <2> QED
    BY <1>2, <2>1 DEF S!StartCut, S!TypeOK
<1>3. ASSUME NEW patch \in S!Patch, S!Update(patch) PROVE S!TypeOK'
  <2>1. rows' \in [S!Key -> {{}} \cup {{v} : v \in Value}]
    BY <1>3, MergedType, RowsType DEF S!Update
  <2> QED
    BY <1>3, <2>1, MergedType DEF S!Update, S!TypeOK
<1>4. ASSUME NEW patch \in S!Patch, S!UpdateCut(patch) PROVE S!TypeOK'
  <2>1. rows' \in [S!Key -> {{}} \cup {{v} : v \in Value}]
    BY <1>4, MergedType, RowsType DEF S!UpdateCut
  <2> QED
    BY <1>4, <2>1, MergedType, GetType DEF S!UpdateCut, S!TypeOK
<1>5. CASE S!Stop
  BY <1>5 DEF S!Stop, S!TypeOK
<1>6. CASE UNCHANGED S!vars
  BY <1>6 DEF S!vars, S!TypeOK
<1> QED
  BY <1>1, <1>2, <1>3, <1>4, <1>5, <1>6 DEF S!Next

(* An update writes the whole: what is in force after it is what was merged. *)
LEMMA UpdateWrites ==
  ASSUME NEW patch \in S!Patch, S!Update(patch)
  PROVE  S!get' = S!Merged(patch) /\ \A k \in S!Key : rows'[k] # {}
<1>1. \A k \in S!Key : rows'[k] = {S!Merged(patch)[k]}
  BY WrittenIs DEF S!Update
<1>2. ASSUME NEW k \in S!Key PROVE S!get'[k] = S!Merged(patch)[k]
  BY <1>1, OnlyValue DEF S!get
<1>3. S!get' = [k \in S!Key |-> S!get'[k]] /\ S!Merged(patch) = [k \in S!Key |-> S!Merged(patch)[k]]
  BY DEF S!get, S!Merged
<1> QED
  BY <1>1, <1>2, <1>3

LEMMA SettingsInit == S!Init => SettingsKept /\ LiveSettingsSurvive
BY DEF S!Init, SettingsKept, LiveSettingsSurvive, S!LiveSettingsSurvive

LEMMA SettingsStep ==
  SettingsKept /\ LiveSettingsSurvive /\ [S!Next]_(S!vars) => (SettingsKept /\ LiveSettingsSurvive)'
<1> SUFFICES ASSUME SettingsKept, LiveSettingsSurvive, [S!Next]_(S!vars)
             PROVE  SettingsKept' /\ LiveSettingsSurvive'
  OBVIOUS
<1>0. ASSUME live # {}, UNCHANGED <<live, cut>>, \A k \in S!Key : rows'[k] = rows[k]
      PROVE  SettingsKept' /\ LiveSettingsSurvive'
  <2>0. ASSUME NEW k \in S!Key
        PROVE  (IF rows'[k] = {} THEN defaults'[k] ELSE CHOOSE v \in rows'[k] : TRUE)
                 = (IF rows[k] = {} THEN defaults[k] ELSE CHOOSE v \in rows[k] : TRUE)
    <3>1. rows'[k] = rows[k] /\ rows[k] # {}
      BY <1>0 DEF SettingsKept
    <3> QED
      BY <3>1
  <2>1. S!get' = S!get
    BY <2>0 DEF S!get
  <2> QED
    BY <1>0, <2>1 DEF SettingsKept, LiveSettingsSurvive, S!LiveSettingsSurvive
<1>1. ASSUME NEW d, NEW n \in Nat, rows' = S!Seeded(n, d), live # {}, UNCHANGED <<live, cut>>
      PROVE  SettingsKept' /\ LiveSettingsSurvive'
  <2>1. \A k \in S!Key : rows'[k] = rows[k]
    BY <1>1 DEF SettingsKept, S!Seeded
  <2> QED
    BY <1>0, <1>1, <2>1
<1>2. ASSUME NEW d \in S!Settings, S!Start(d) PROVE SettingsKept' /\ LiveSettingsSurvive'
  <2>1. CASE live # {}
    BY <1>1, <1>2, <2>1 DEF S!Start
  <2>2. CASE live = {}
    <3>1. \A k \in S!Key : rows'[k] # {}
      BY <1>2, WrittenIs DEF S!Start, S!Seeded
    <3> QED
      BY <1>2, <2>2, <3>1 DEF S!Start, SettingsKept, LiveSettingsSurvive, S!LiveSettingsSurvive
  <2> QED
    BY <2>1, <2>2
<1>3. ASSUME NEW d \in S!Settings, S!StartCut(d) PROVE SettingsKept' /\ LiveSettingsSurvive'
  <2>1. CASE live # {}
    BY <1>1, <1>3, <2>1 DEF S!StartCut
  <2>2. CASE live = {}
    BY <1>3, <2>2 DEF S!StartCut, SettingsKept, LiveSettingsSurvive, S!LiveSettingsSurvive
  <2> QED
    BY <2>1, <2>2
<1>4. ASSUME NEW patch \in S!Patch, S!Update(patch) PROVE SettingsKept' /\ LiveSettingsSurvive'
  <2>1. live' = {S!get'} /\ \A k \in S!Key : rows'[k] # {}
    BY <1>4, UpdateWrites DEF S!Update
  <2> QED
    BY <2>1 DEF SettingsKept, LiveSettingsSurvive, S!LiveSettingsSurvive
<1>5. ASSUME NEW patch \in S!Patch, S!UpdateCut(patch) PROVE SettingsKept' /\ LiveSettingsSurvive'
  <2>1. PICK n \in 1..2 : rows' = S!Written(n, S!Merged(patch))
    BY <1>5 DEF S!UpdateCut
  <2>2. ASSUME NEW k \in S!Key PROVE rows'[k] \in {{S!Merged(patch)[k]}, rows[k]} /\ rows[k] # {}
    <3>1. \A m \in Nat : S!Written(m, S!Merged(patch))[k] \in {{S!Merged(patch)[k]}, rows[k]}
      BY WrittenIs
    <3>2. rows'[k] \in {{S!Merged(patch)[k]}, rows[k]}
      BY <2>1, <3>1
    <3>3. rows[k] # {}
      BY <1>5 DEF S!UpdateCut, SettingsKept
    <3> QED
      BY <3>2, <3>3
  <2>3. ASSUME NEW k \in S!Key PROVE S!get'[k] = S!get[k] \/ S!get'[k] = S!Merged(patch)[k]
    <3>1. CASE rows'[k] = {S!Merged(patch)[k]}
      BY <3>1, OnlyValue DEF S!get
    <3>2. CASE rows'[k] = rows[k]
      <4>1. (IF rows'[k] = {} THEN defaults'[k] ELSE CHOOSE v \in rows'[k] : TRUE)
              = (IF rows[k] = {} THEN defaults[k] ELSE CHOOSE v \in rows[k] : TRUE)
        BY <2>2, <3>2
      <4> QED
        BY <4>1 DEF S!get
    <3> QED
      BY <2>2, <3>1, <3>2
  <2>4. up' = FALSE /\ live' = {S!get} /\ cut' = {S!Merged(patch)}
    BY <1>5 DEF S!UpdateCut
  <2>5. LiveSettingsSurvive'
    BY <2>3, <2>4 DEF LiveSettingsSurvive, S!LiveSettingsSurvive
  <2>6. SettingsKept'
    BY <2>2, <2>4 DEF SettingsKept
  <2> QED
    BY <2>5, <2>6
<1>6. ASSUME UNCHANGED <<rows, live, cut, defaults>>, up' = up \/ ~ up'
      PROVE  SettingsKept' /\ LiveSettingsSurvive'
  <2>1. S!get' = S!get
    BY <1>6 DEF S!get
  <2> QED
    BY <1>6, <2>1 DEF SettingsKept, LiveSettingsSurvive, S!LiveSettingsSurvive
<1> QED
  BY <1>2, <1>3, <1>4, <1>5, <1>6 DEF S!Next, S!Stop, S!vars

(* What the first boot or the last update put in force stays in force, with  *)
(* any environment, but for the keys that a cut update has already written.  *)
THEOREM SettingsSurvive == S!Spec => []LiveSettingsSurvive
BY SettingsInit, SettingsStep, PTL DEF S!Spec

(* Whatever was stored before, a completed update leaves valid settings. *)
THEOREM UpdatesRepair == S!Spec => UpdateRepairs
<1>1. \A patch \in S!Patch : S!Update(patch) => S!validateRuntimeSettings(S!get')
  <2> SUFFICES ASSUME NEW patch \in S!Patch, S!Update(patch) PROVE S!validateRuntimeSettings(S!get')
    OBVIOUS
  <2>1. S!validateRuntimeSettings(S!Merged(patch))
    BY DEF S!Update, S!Accepts
  <2> QED
    BY <2>1, UpdateWrites DEF S!validateRuntimeSettings
<1> QED
  BY <1>1, PTL DEF S!Spec, UpdateRepairs, S!UpdateRepairs

-----------------------------------------------------------------------------
(***************************************************************************)
(* The identity.  A key that was generated and not configured since is in  *)
(* the key row, waits for the chain, or has run; there is one at most, and *)
(* none while the row is empty.                                            *)
(***************************************************************************)
Generated == (used \cup {i.key : i \in starting} \cup ({meta.key} \ {None})) \ configured

GeneratedOnce ==
  /\ meta.key = None => used = {} /\ starting = {}
  /\ \A a, b \in Generated : a = b

LEMMA IdentityInit == I!Init => GeneratedOnce
BY DEF I!Init, GeneratedOnce, Generated

(* What both starts do with the keys. *)
LEMMA StartKeys ==
  ASSUME NEW env \in I!Environment, NEW key \in I!Keys(env), GeneratedOnce, I!Down,
         meta'.key = key, used' = used, configured' = configured \cup ({env.key} \ {None}),
         \A i \in starting' : i.key = key
  PROVE  GeneratedOnce'
<1>1. key # None
  BY NoneAssumption DEF I!Keys, I!Random, I!Environment
<1>2. Generated' \subseteq (used \cup {key}) \ configured'
  BY DEF Generated
<1>3. CASE env.key # None
  <2>1. key \in configured'
    BY <1>3 DEF I!Keys
  <2>2. Generated' \subseteq Generated
    BY <1>2, <2>1 DEF Generated
  <2> QED
    BY <1>1, <2>2 DEF GeneratedOnce
<1>4. CASE env.key = None /\ meta.key # None
  <2>1. key = meta.key
    BY <1>4 DEF I!Keys
  <2>2. Generated' \subseteq Generated
    BY <1>1, <1>2, <2>1 DEF Generated
  <2> QED
    BY <1>1, <2>2 DEF GeneratedOnce
<1>5. CASE env.key = None /\ meta.key = None
  <2>1. Generated' \subseteq {key}
    BY <1>2, <1>5 DEF GeneratedOnce
  <2> QED
    BY <1>1, <2>1 DEF GeneratedOnce
<1> QED
  BY <1>3, <1>4, <1>5

LEMMA IdentityStep == I!TypeOK /\ GeneratedOnce /\ [I!Next]_(I!vars) => GeneratedOnce'
<1> SUFFICES ASSUME I!TypeOK, GeneratedOnce, [I!Next]_(I!vars) PROVE GeneratedOnce'
  OBVIOUS
<1>1. ASSUME NEW env \in I!Environment, I!Start(env) PROVE GeneratedOnce'
  <2>1. PICK key \in I!Keys(env) :
          meta' = [key |-> key, address |-> I!signerAddress(env, key)] /\ starting' = {I!Resolve(env, key)}
    BY <1>1 DEF I!Start
  <2>2. meta'.key = key /\ \A i \in starting' : i.key = key
    BY <2>1 DEF I!Resolve
  <2> QED
    BY <1>1, <2>2, StartKeys DEF I!Start
<1>2. ASSUME NEW env \in I!Environment, I!StartCut(env) PROVE GeneratedOnce'
  <2>1. PICK key \in I!Keys(env) : meta' = [meta EXCEPT !.key = key]
    BY <1>2 DEF I!StartCut
  <2>2. meta'.key = key /\ starting' = {}
    BY <1>2, <2>1 DEF I!StartCut, I!Down, I!TypeOK
  <2> QED
    BY <1>2, <2>2, StartKeys DEF I!StartCut
<1>3. CASE I!Listen
  <2>1. PICK identity \in starting : used' = used \cup {identity.key}
    BY <1>3 DEF I!Listen
  <2>2. starting' = {} /\ meta' = meta /\ configured' = configured
    BY <1>3 DEF I!Listen
  <2>3. Generated' \subseteq Generated
    BY <2>1, <2>2 DEF Generated
  <2> QED
    BY <2>2, <2>3 DEF GeneratedOnce
<1>4. ASSUME starting' \subseteq starting, UNCHANGED <<meta, used, configured>> PROVE GeneratedOnce'
  <2>1. Generated' \subseteq Generated
    BY <1>4 DEF Generated
  <2> QED
    BY <1>4, <2>1 DEF GeneratedOnce
<1>5. CASE I!Stop
  BY <1>4, <1>5 DEF I!Stop
<1>6. CASE UNCHANGED I!vars
  BY <1>4, <1>6 DEF I!vars
<1> QED
  BY <1>1, <1>2, <1>3, <1>5, <1>6 DEF I!Next

(* The types: what a start resolves is an identity. *)
LEMMA KeysType ==
  ASSUME NEW env \in I!Environment, I!TypeOK
  PROVE  I!Keys(env) \subseteq SignerKey
BY DEF I!Keys, I!Random, I!Environment, I!TypeOK

LEMMA ResolveType ==
  ASSUME NEW env \in I!Environment, NEW key \in SignerKey, I!TypeOK, I!Resolved(env, key)
  PROVE  I!Resolve(env, key) \in I!Identity /\ I!signerAddress(env, key) \in I!Address
<1>1. I!signerAddress(env, key) = I!Signer(key)
  BY DEF I!Resolved
<1>2. I!Signer(key) \in {I!Signer(k) : k \in SignerKey}
  OBVIOUS
<1>3. env.reservoir \in {None} \cup Reservoir /\ env.stackflow \in {None, StackFlow}
  BY DEF I!Environment
<1>4. I!reservoirContractId(env) \in {None} \cup Reservoir
  BY <1>3 DEF I!reservoirContractId, I!legacyReservoirAddress, I!Contract
<1> QED
  BY <1>1, <1>2, <1>3, <1>4 DEF I!Resolve, I!Identity, I!Address

LEMMA AtMostOne ==
  ASSUME NEW T, \A a, b \in T : a = b
  PROVE  IsFiniteSet(T) /\ Cardinality(T) <= 1
<1>1. CASE T = {}
  BY <1>1, FS_EmptySet
<1>2. ASSUME NEW x \in T PROVE IsFiniteSet(T) /\ Cardinality(T) <= 1
  <2>1. T = {x}
    BY <1>2
  <2>2. IsFiniteSet({x}) /\ Cardinality({x}) = 1
    BY FS_Singleton
  <2> QED
    BY <2>1, <2>2
<1> QED
  BY <1>1, <1>2

LEMMA IdentityInitType == I!Init => I!TypeOK
<1> SUFFICES ASSUME I!Init PROVE I!TypeOK
  OBVIOUS
<1>1. I!Cardinality({}) <= 1
  BY FS_EmptySet DEF I!Cardinality, Cardinality
<1>2. meta \in [key : {None} \cup SignerKey, address : I!Address]
  BY DEF I!Init, I!Address
<1>3. used \subseteq SignerKey
  BY DEF I!Init
<1> QED
  BY <1>1, <1>2, <1>3 DEF I!Init, I!TypeOK

LEMMA IdentityNextType == I!TypeOK /\ [I!Next]_(I!vars) => I!TypeOK'
<1> SUFFICES ASSUME I!TypeOK, [I!Next]_(I!vars) PROVE I!TypeOK'
  OBVIOUS
<1>0. I!Cardinality({}) <= 1 /\ \A x : I!Cardinality({x}) <= 1
  <2>1. I!Cardinality({}) <= 1
    BY FS_EmptySet DEF I!Cardinality, Cardinality
  <2>2. ASSUME NEW x PROVE I!Cardinality({x}) <= 1
    <3>1. Cardinality({x}) <= 1
      BY FS_Singleton
    <3> QED
      BY <3>1 DEF I!Cardinality, Cardinality
  <2> QED
    BY <2>1, <2>2
<1>1. ASSUME NEW env \in I!Environment, I!Start(env) PROVE I!TypeOK'
  <2>1. PICK key \in I!Keys(env) :
          /\ I!Resolved(env, key)
          /\ meta' = [key |-> key, address |-> I!signerAddress(env, key)]
          /\ starting' = {I!Resolve(env, key)}
    BY <1>1 DEF I!Start
  <2>2. key \in SignerKey /\ I!Resolve(env, key) \in I!Identity /\ I!signerAddress(env, key) \in I!Address
    BY <2>1, KeysType, ResolveType
  <2>3. configured' \subseteq SignerKey
    BY <1>1 DEF I!Start, I!Environment, I!TypeOK
  <2>4. I!Cardinality(starting') <= 1
    BY <1>0, <2>1
  <2> QED
    BY <1>1, <2>1, <2>2, <2>3, <2>4 DEF I!Start, I!TypeOK
<1>2. ASSUME NEW env \in I!Environment, I!StartCut(env) PROVE I!TypeOK'
  <2>1. PICK key \in I!Keys(env) : meta' = [meta EXCEPT !.key = key]
    BY <1>2 DEF I!StartCut
  <2>2. key \in SignerKey
    BY KeysType
  <2>3. configured' \subseteq SignerKey
    BY <1>2 DEF I!StartCut, I!Environment, I!TypeOK
  <2> QED
    BY <1>2, <2>1, <2>2, <2>3 DEF I!StartCut, I!TypeOK
<1>3. CASE I!Listen
  <2>1. PICK identity \in starting :
          /\ \E found \in IF identity.stackflow = None /\ identity.reservoir # None
                          THEN {None, StackFlow} ELSE {identity.stackflow} :
               running' = {[identity EXCEPT !.stackflow = found]}
          /\ starting' = {}
          /\ used' = used \cup {identity.key}
          /\ last' = {[env |-> env, identity |-> i] : env \in lastEnv, i \in running'}
          /\ UNCHANGED <<meta, configured, lastEnv>>
    BY <1>3 DEF I!Listen
  <2>2. PICK found \in IF identity.stackflow = None /\ identity.reservoir # None
                       THEN {None, StackFlow} ELSE {identity.stackflow} :
          running' = {[identity EXCEPT !.stackflow = found]}
    BY <2>1
  <2>3. identity \in I!Identity /\ identity.key \in SignerKey
    BY DEF I!TypeOK, I!Identity
  <2>4. [identity EXCEPT !.stackflow = found] \in I!Identity
    BY <2>2, <2>3 DEF I!Identity
  <2>5. I!Cardinality(running') <= 1 /\ I!Cardinality(starting') <= 1
    BY <1>0, <2>1, <2>2
  <2>6. last' \subseteq [env : I!Environment, identity : I!Identity]
    BY <2>1, <2>2, <2>4 DEF I!TypeOK
  <2> QED
    BY <2>1, <2>2, <2>3, <2>4, <2>5, <2>6 DEF I!TypeOK
<1>4. CASE I!Stop
  BY <1>0, <1>4 DEF I!Stop, I!TypeOK
<1>5. CASE UNCHANGED I!vars
  BY <1>5 DEF I!vars, I!TypeOK
<1> QED
  BY <1>1, <1>2, <1>3, <1>4, <1>5 DEF I!Next

(* However the starts were cut short and the environment changed, the server *)
(* has run with at most one key that was never configured.                   *)
THEOREM KeysAreGeneratedOnce == I!Spec => []KeyIsGeneratedOnce
<1>1. GeneratedOnce => KeyIsGeneratedOnce
  <2> SUFFICES ASSUME GeneratedOnce PROVE KeyIsGeneratedOnce
    OBVIOUS
  <2>1. \A a, b \in used \ configured : a = b
    BY DEF GeneratedOnce, Generated
  <2>2. Cardinality(used \ configured) <= 1
    BY <2>1, AtMostOne
  <2> QED
    BY <2>2 DEF KeyIsGeneratedOnce, I!KeyIsGeneratedOnce, I!Cardinality, Cardinality
<1> QED
  BY <1>1, IdentityInitType, IdentityNextType, IdentityInit, IdentityStep, PTL DEF I!Spec

-----------------------------------------------------------------------------
(***************************************************************************)
(* Restarts.  The key that the environment of the last start leads to      *)
(* matches the signer's address, whichever of the two rows was written.    *)
(***************************************************************************)
LastStartResolves == \A env \in lastEnv : \A key \in I!Keys(env) : I!Resolved(env, key)

LEMMA StartResolves ==
  ASSUME I!TypeOK, NEW env \in I!Environment, NEW key \in I!Keys(env), I!Resolved(env, key),
         meta'.key = key, meta'.address \in {meta.address, I!Signer(key)}, lastEnv' = {env}
  PROVE  LastStartResolves'
<1>1. key # None /\ (env.key # None => env.key = key)
  BY NoneAssumption DEF I!Keys, I!Random, I!Environment
<1>2. I!Keys(env)' = {key}
  BY <1>1 DEF I!Keys
<1>3. I!signerAddress(env, key)' = I!Signer(key)
  BY DEF I!signerAddress, I!Resolved, I!Standard
<1> QED
  BY <1>2, <1>3 DEF LastStartResolves, I!Resolved

LEMMA RestartStep == I!TypeOK /\ LastStartResolves /\ [I!Next]_(I!vars) => LastStartResolves'
<1> SUFFICES ASSUME I!TypeOK, LastStartResolves, [I!Next]_(I!vars) PROVE LastStartResolves'
  OBVIOUS
<1>1. ASSUME NEW env \in I!Environment, I!Start(env) PROVE LastStartResolves'
  <2>1. PICK key \in I!Keys(env) :
          I!Resolved(env, key) /\ meta' = [key |-> key, address |-> I!signerAddress(env, key)]
    BY <1>1 DEF I!Start
  <2>2. meta'.key = key /\ meta'.address = I!Signer(key)
    BY <2>1 DEF I!Resolved
  <2> QED
    BY <1>1, <2>1, <2>2, StartResolves DEF I!Start
<1>2. ASSUME NEW env \in I!Environment, I!StartCut(env) PROVE LastStartResolves'
  <2>1. PICK key \in I!Keys(env) : I!Resolved(env, key) /\ meta' = [meta EXCEPT !.key = key]
    BY <1>2 DEF I!StartCut
  <2>2. meta'.key = key /\ meta'.address = meta.address
    BY <2>1 DEF I!TypeOK
  <2> QED
    BY <1>2, <2>1, <2>2, StartResolves DEF I!StartCut
<1>3. ASSUME UNCHANGED <<meta, configured, lastEnv>>, used \subseteq used' PROVE LastStartResolves'
  <2>1. ASSUME NEW env \in lastEnv PROVE I!Keys(env)' \subseteq I!Keys(env)
    BY <1>3 DEF I!Keys, I!Random
  <2>2. ASSUME NEW env \in lastEnv, NEW key PROVE I!Resolved(env, key)' <=> I!Resolved(env, key)
    BY <1>3 DEF I!Resolved, I!signerAddress
  <2> QED
    BY <1>3, <2>1, <2>2 DEF LastStartResolves
<1>4. I!Listen \/ I!Stop \/ UNCHANGED I!vars => UNCHANGED <<meta, configured, lastEnv>> /\ used \subseteq used'
  BY DEF I!Listen, I!Stop, I!vars
<1> QED
  BY <1>1, <1>2, <1>3, <1>4 DEF I!Next

(* A server that is down starts again in the environment of its last start,  *)
(* even if that start died with one of the two rows written.                 *)
THEOREM RestartsAreAccepted == I!Spec => []RestartIsAccepted
<1>1. I!Init => LastStartResolves
  BY DEF I!Init, LastStartResolves
<1>2. LastStartResolves => RestartIsAccepted
  BY DEF LastStartResolves, RestartIsAccepted, I!RestartIsAccepted
<1> QED
  BY <1>1, <1>2, IdentityInitType, IdentityNextType, RestartStep, PTL DEF I!Spec

-----------------------------------------------------------------------------
(***************************************************************************)
(* Proofs of a wallet and session tokens: type correctness.  The limits    *)
(* are any numbers; an age stops at MaxAge, beyond all of them.            *)
(***************************************************************************)
One(T) == \A a, b \in T : a = b

SessionTypes ==
  /\ wallet \subseteq Wallet /\ One(wallet)
  /\ session \subseteq Token /\ One(session)
  /\ cached \subseteq [proof : Proof, kept : Age] /\ One(cached)
  /\ task \in [Task -> TaskState]
  /\ serverKey \in SessionKey
  /\ connectable \in BOOLEAN

(* A state of a request is of one of four kinds, with the fields of its kind. *)
LEMMA RequestShape ==
  ASSUME NEW c \in TaskState
  PROVE  /\ c.op \in {"idle", "sign", "sent", "reply"}
         /\ c.op = "idle" <=> c = Idle
         /\ c.op = "sign" => c = [op |-> "sign", proof |-> c.proof, inbox |-> c.inbox]
                             /\ c.proof \in Proof /\ c.inbox \in BOOLEAN
         /\ c.op = "sent" => c = [op |-> "sent", credential |-> c.credential]
                             /\ c.credential \in Token \cup Proof
         /\ c.op = "reply" => c = [op |-> "reply", token |-> c.token]
                              /\ c.token \subseteq Token /\ One(c.token)
BY DEF TaskState, Idle, One

LEMMA RequestStates ==
  /\ Idle \in TaskState
  /\ \A p \in Proof, inbox \in BOOLEAN : [op |-> "sign", inbox |-> inbox, proof |-> p] \in TaskState
  /\ \A c \in Token \cup Proof : [op |-> "sent", credential |-> c] \in TaskState
  /\ \A T \in SUBSET Token : One(T) => [op |-> "reply", token |-> T] \in TaskState
<1>1. ASSUME NEW T \in SUBSET Token, One(T) PROVE T \in {{}} \cup {{s} : s \in Token}
  <2>1. ASSUME NEW s \in T PROVE T = {s}
    BY <1>1 DEF One
  <2> QED
    BY <2>1
<1> QED
  BY <1>1 DEF TaskState

LEMMA AgesGrow ==
  /\ 0 \in Age
  /\ \A n \in Age : Older(n) \in Age /\ (n < PromptTtl => n + 1 \in Age)
BY TtlAssumption DEF Age, Older, MaxAge

LEMMA TokensAge ==
  ASSUME NEW T \in SUBSET Token
  PROVE  /\ {[s EXCEPT !.age = Older(@)] : s \in T} \subseteq Token
         /\ \A v : (\A s \in T : s.addr = v) =>
                     \A s \in {[s EXCEPT !.age = Older(@)] : s \in T} : s.addr = v
         /\ One(T) => One({[s EXCEPT !.age = Older(@)] : s \in T})
<1>1. \A s \in T : [s EXCEPT !.age = Older(@)] \in Token /\ [s EXCEPT !.age = Older(@)].addr = s.addr
  BY AgesGrow DEF Token
<1> QED
  BY <1>1 DEF One

(* A unit of time changes the ages a request carries, and nothing else. *)
LEMMA RequestsAge ==
  ASSUME NEW c \in TaskState, c.op = "sign" => c.proof.age < PromptTtl
  PROVE  /\ Aged(c) \in TaskState /\ Aged(c).op = c.op
         /\ c.op = "sign" => Aged(c).proof.addr = c.proof.addr
         /\ c.op = "sent" => Aged(c).credential.addr = c.credential.addr
         /\ c.op = "reply" => \A v : (\A s \in c.token : s.addr = v) => \A s \in Aged(c).token : s.addr = v
<1>1. CASE c.op = "idle"
  <2>1. Aged(c) = c
    BY <1>1 DEF Aged
  <2> QED
    BY <1>1, <2>1
<1>2. CASE c.op = "sign"
  <2>1. c = [op |-> "sign", proof |-> c.proof, inbox |-> c.inbox] /\ c.proof \in Proof /\ c.inbox \in BOOLEAN
    BY <1>2, RequestShape
  <2> DEFINE older == [c.proof EXCEPT !.age = @ + 1]
  <2>2. older \in Proof /\ older.addr = c.proof.addr
    <3>1. c.proof.age + 1 \in Age
      BY <1>2, <2>1, AgesGrow DEF Proof
    <3> QED
      BY <2>1, <3>1 DEF Proof
  <2>3. Aged(c) = [op |-> "sign", inbox |-> c.inbox, proof |-> older]
    BY <1>2, <2>1 DEF Aged
  <2> HIDE DEF older
  <2> QED
    BY <1>2, <2>1, <2>2, <2>3, RequestStates
<1>3. CASE c.op = "sent"
  <2>1. c = [op |-> "sent", credential |-> c.credential] /\ c.credential \in Token \cup Proof
    BY <1>3, RequestShape
  <2> DEFINE older == [c.credential EXCEPT !.age = Older(@)]
  <2>2. older \in Token \cup Proof /\ older.addr = c.credential.addr
    BY <2>1, AgesGrow DEF Token, Proof
  <2>3. Aged(c) = [op |-> "sent", credential |-> older]
    BY <1>3, <2>1 DEF Aged
  <2> HIDE DEF older
  <2> QED
    BY <1>3, <2>1, <2>2, <2>3, RequestStates
<1>4. CASE c.op = "reply"
  <2>1. c = [op |-> "reply", token |-> c.token] /\ c.token \subseteq Token /\ One(c.token)
    BY <1>4, RequestShape
  <2> DEFINE older == {[s EXCEPT !.age = Older(@)] : s \in c.token}
  <2>2. /\ older \subseteq Token /\ One(older)
        /\ \A v : (\A s \in c.token : s.addr = v) => \A s \in older : s.addr = v
    BY <2>1, TokensAge
  <2>3. Aged(c) = [op |-> "reply", token |-> older]
    BY <1>4, <2>1 DEF Aged
  <2> HIDE DEF older
  <2> QED
    BY <1>4, <2>1, <2>2, <2>3, RequestStates
<1> QED
  BY <1>1, <1>2, <1>3, <1>4, RequestShape

LEMMA Moves ==
  ASSUME SessionTypes, NEW t \in Task, NEW s \in TaskState, Goto(t, s)
  PROVE  /\ task' \in [Task -> TaskState]
         /\ \A u \in Task : task'[u] = IF u = t THEN s ELSE task[u]
BY DEF SessionTypes, Goto

(* Every step of a request but a tick puts it in one state: of the wallet    *)
(* that is connected, or of what the request carried before.                 *)
Names(s, w) ==
  /\ s.op = "sign" => s.proof.addr = w
  /\ s.op = "sent" => s.credential.addr = w
  /\ s.op = "reply" => \A k \in s.token : k.addr = w

RequestStep(t) ==
  \/ SendToken(t) \/ SendCached(t) \/ (\E inbox \in BOOLEAN : AskWallet(t, inbox))
  \/ Signed(t) \/ NotSigned(t) \/ Accept(t) \/ Refuse(t) \/ Replied(t) \/ Lost(t)

LEMMA RequestMoves ==
  ASSUME SessionTypes, NEW t \in Task, RequestStep(t)
  PROVE  \E s \in TaskState :
           /\ Goto(t, s)
           /\ \A w \in Wallet :
                /\ w \in wallet
                /\ \A k \in session : k.addr = w
                /\ \A c \in cached : c.proof.addr = w
                /\ Names(task[t], w)
                => Names(s, w)
<1>0. /\ task[t] \in TaskState /\ Idle \in TaskState /\ Idle.op = "idle"
      /\ session \subseteq Token /\ cached \subseteq [proof : Proof, kept : Age]
  BY RequestStates DEF SessionTypes, Idle
<1>1. CASE NotSigned(t) \/ Replied(t) \/ Lost(t)
  BY <1>0, <1>1 DEF NotSigned, Replied, Lost, Names
<1>2. CASE SendToken(t)
  <2>1. PICK k \in session : Goto(t, [op |-> "sent", credential |-> k])
    BY <1>2 DEF SendToken, Usable, Unexpired
  <2>2. [op |-> "sent", credential |-> k] \in TaskState
    BY <1>0, <2>1, RequestStates
  <2> QED
    BY <2>1, <2>2 DEF Names
<1>3. CASE SendCached(t)
  <2>1. PICK c \in cached : Goto(t, [op |-> "sent", credential |-> c.proof])
    BY <1>3 DEF SendCached, Reusable
  <2>2. [op |-> "sent", credential |-> c.proof] \in TaskState
    BY <1>0, <2>1, RequestStates
  <2> QED
    BY <2>1, <2>2 DEF Names
<1>4. ASSUME NEW inbox \in BOOLEAN, AskWallet(t, inbox)
      PROVE  \E s \in TaskState : Goto(t, s) /\ \A w \in Wallet : w \in wallet => Names(s, w)
  <2>1. PICK v \in wallet :
          Goto(t, [op |-> "sign", inbox |-> inbox, proof |-> [kind |-> "auth", addr |-> v, age |-> 0]])
    BY <1>4 DEF AskWallet
  <2>2. [kind |-> "auth", addr |-> v, age |-> 0] \in Proof /\ \A w \in wallet : w = v
    BY <2>1, AgesGrow DEF SessionTypes, Proof, One
  <2>3. [op |-> "sign", inbox |-> inbox, proof |-> [kind |-> "auth", addr |-> v, age |-> 0]] \in TaskState
    BY <2>2, RequestStates
  <2> QED
    BY <2>1, <2>2, <2>3 DEF Names
<1>5. CASE Signed(t)
  <2>1. task[t].op = "sign" /\ Goto(t, [op |-> "sent", credential |-> task[t].proof])
    BY <1>5 DEF Signed
  <2>2. [op |-> "sent", credential |-> task[t].proof] \in TaskState
    BY <1>0, <2>1, RequestShape, RequestStates
  <2> QED
    BY <2>1, <2>2 DEF Names
<1>6. CASE Accept(t)
  <2> DEFINE k == [kind |-> "session", addr |-> task[t].credential.addr, age |-> 0, key |-> serverKey]
  <2>1. task[t].op = "sent" /\ Goto(t, [op |-> "reply", token |-> {k}])
    BY <1>6 DEF Accept
  <2>2. task[t].credential \in Token \cup Proof
    BY <1>0, <2>1, RequestShape
  <2>3. k \in Token /\ k.addr = task[t].credential.addr
    BY <2>2, AgesGrow DEF Token, Proof, SessionTypes
  <2> HIDE DEF k
  <2>4. [op |-> "reply", token |-> {k}] \in TaskState
    BY <2>3, RequestStates DEF One
  <2> QED
    BY <2>1, <2>3, <2>4 DEF Names
<1>7. CASE Refuse(t)
  <2>1. Goto(t, [op |-> "reply", token |-> {}])
    BY <1>7 DEF Refuse
  <2>2. [op |-> "reply", token |-> {}] \in TaskState
    BY RequestStates DEF One
  <2> QED
    BY <2>1, <2>2 DEF Names
<1> QED
  BY <1>1, <1>2, <1>3, <1>4, <1>5, <1>6, <1>7 DEF RequestStep

(* What a request leaves behind in the page is what it carried. *)
LEMMA RequestKeeps ==
  ASSUME SessionTypes, NEW t \in Task, RequestStep(t)
  PROVE  /\ UNCHANGED <<wallet, serverKey, connectable>>
         /\ session' \subseteq Token /\ One(session')
         /\ cached' \subseteq [proof : Proof, kept : Age] /\ One(cached')
         /\ \A w : Names(task[t], w) =>
              /\ (\A k \in session : k.addr = w) => \A k \in session' : k.addr = w
              /\ (\A c \in cached : c.proof.addr = w) => \A c \in cached' : c.proof.addr = w
<1>0. task[t] \in TaskState /\ 0 \in Age
  BY AgesGrow DEF SessionTypes
<1>1. CASE Replied(t)
  <2>1. task[t].token \subseteq Token /\ One(task[t].token) /\ task[t].op = "reply"
    BY <1>0, <1>1, RequestShape DEF Replied
  <2>2. /\ session' = session \/ session' \subseteq task[t].token
        /\ UNCHANGED <<wallet, cached, serverKey, connectable>>
    BY <1>1 DEF Replied, Unexpired
  <2> QED
    BY <2>1, <2>2 DEF SessionTypes, Names, One
<1>2. CASE Signed(t)
  <2>1. task[t].proof \in Proof /\ task[t].op = "sign"
    BY <1>0, <1>2, RequestShape DEF Signed
  <2>2. cached' \in {cached, {[proof |-> task[t].proof, kept |-> 0]}}
        /\ UNCHANGED <<wallet, session, serverKey, connectable>>
    BY <1>2 DEF Signed
  <2> QED
    BY <1>0, <2>1, <2>2 DEF SessionTypes, Names, One
<1>3. CASE ~ Replied(t) /\ ~ Signed(t)
  <2>1. UNCHANGED <<wallet, session, cached, serverKey, connectable>>
    BY <1>3 DEF RequestStep, SendToken, SendCached, AskWallet, NotSigned, Accept, Refuse, Lost
  <2> QED
    BY <2>1 DEF SessionTypes
<1> QED
  BY <1>1, <1>2, <1>3

LEMMA SessionInitType == SessionInit => SessionTypes
BY RequestStates DEF SessionInit, SessionTypes, SessionKey, One

LEMMA ElapseType ==
  ASSUME SessionTypes, Elapse
  PROVE  SessionTypes'
<1>1. \A t \in Task : Aged(task[t]) \in TaskState
  BY RequestsAge DEF Elapse, SessionTypes
<1>2. task' \in [Task -> TaskState]
  BY <1>1 DEF Elapse
<1>3. session' \subseteq Token /\ One(session')
  BY TokensAge DEF Elapse, SessionTypes
<1>4. cached' \subseteq [proof : Proof, kept : Age] /\ One(cached')
  <2> DEFINE older(c) == [c EXCEPT !.kept = Older(@), !.proof.age = Older(@)]
  <2>1. \A c \in cached : older(c) \in [proof : Proof, kept : Age]
    BY AgesGrow DEF SessionTypes, Proof
  <2>2. cached' = {older(c) : c \in cached}
    BY DEF Elapse
  <2> HIDE DEF older
  <2> QED
    BY <2>1, <2>2 DEF SessionTypes, One
<1> QED
  BY <1>2, <1>3, <1>4 DEF Elapse, SessionTypes

LEMMA SessionNextCases ==
  ASSUME [SessionNext]_sessionVars
  PROVE  \/ \E w \in Wallet : Connect(w)
         \/ Disconnect \/ Reload \/ Rekey \/ Elapse \/ UNCHANGED sessionVars
         \/ \E t \in Task : RequestStep(t)
BY DEF SessionNext, RequestStep

LEMMA SessionNextType == SessionTypes /\ [SessionNext]_sessionVars => SessionTypes'
<1> SUFFICES ASSUME SessionTypes, [SessionNext]_sessionVars PROVE SessionTypes'
  OBVIOUS
<1>1. ASSUME NEW w \in Wallet, Connect(w) PROVE SessionTypes'
  BY <1>1 DEF Connect, SessionTypes, One
<1>2. CASE Disconnect \/ Reload
  BY <1>2, RequestStates DEF Disconnect, Reload, SessionTypes, One
<1>3. CASE Rekey
  BY <1>3 DEF Rekey, SessionTypes, SessionKey
<1>4. CASE Elapse
  BY <1>4, ElapseType
<1>5. CASE UNCHANGED sessionVars
  BY <1>5 DEF sessionVars, SessionTypes
<1>6. ASSUME NEW t \in Task, RequestStep(t) PROVE SessionTypes'
  <2>1. task' \in [Task -> TaskState]
    BY <1>6, RequestMoves, Moves
  <2> QED
    BY <1>6, <2>1, RequestKeeps DEF SessionTypes
<1> QED
  BY <1>1, <1>2, <1>3, <1>4, <1>5, <1>6, SessionNextCases

(* The page keeps one token and one proof at most, of any age, and a request *)
(* carries one credential, whatever expires or is lost on the way.           *)
THEOREM SessionTypeCorrect == SessionSpec => []SessionTypeOK
<1>1. SessionTypes => SessionTypeOK
  BY AtMostOne DEF SessionTypes, SessionTypeOK, One
<1> QED
  BY <1>1, SessionInitType, SessionNextType, PTL DEF SessionSpec

-----------------------------------------------------------------------------
(***************************************************************************)
(* Credentials follow the wallet.  As long as the buttons are enabled the  *)
(* page knows of no wallet and has no request under way; from then on one  *)
(* wallet at most is connected before the page is loaded again.  So the    *)
(* credentials of requests, which can become the page's, name it as well.  *)
(***************************************************************************)
Unconnected ==
  connectable => /\ wallet = {} /\ session = {} /\ cached = {}
                 /\ \A t \in Task : task[t].op = "idle"

AllName(w) ==
  /\ \A s \in session : s.addr = w
  /\ \A c \in cached : c.proof.addr = w
  /\ \A t \in Task : Names(task[t], w)

AllNameWallet == Unconnected /\ \A w \in wallet : AllName(w)

(* A request is made for a wallet, or is under way. *)
LEMMA RequestNeedsWallet ==
  ASSUME Unconnected, NEW t \in Task, RequestStep(t)
  PROVE  ~ connectable
<1> SUFFICES ASSUME connectable PROVE FALSE
  OBVIOUS
<1>1. task[t].op = "idle" /\ wallet = {}
  BY DEF Unconnected
<1>2. ~ (Signed(t) \/ NotSigned(t) \/ Accept(t) \/ Refuse(t) \/ Replied(t) \/ Lost(t))
  BY <1>1 DEF Signed, NotSigned, Accept, Refuse, Replied, Lost
<1>3. ~ (SendToken(t) \/ SendCached(t)) /\ \A inbox \in BOOLEAN : ~ AskWallet(t, inbox)
  BY <1>1 DEF SendToken, SendCached, AskWallet
<1> QED
  BY <1>2, <1>3 DEF RequestStep

LEMMA RequestNames ==
  ASSUME SessionTypes, AllNameWallet, NEW t \in Task, RequestStep(t)
  PROVE  AllNameWallet'
<1>1. PICK s \in TaskState :
        /\ Goto(t, s)
        /\ \A w \in Wallet :
             /\ w \in wallet
             /\ \A k \in session : k.addr = w
             /\ \A c \in cached : c.proof.addr = w
             /\ Names(task[t], w)
             => Names(s, w)
  BY RequestMoves
<1>2. \A u \in Task : task'[u] = IF u = t THEN s ELSE task[u]
  BY <1>1, Moves
<1>3. wallet' = wallet /\ connectable' = connectable /\ wallet \subseteq Wallet
  BY RequestKeeps DEF SessionTypes
<1>4. Unconnected'
  BY <1>3, RequestNeedsWallet DEF AllNameWallet, Unconnected
<1>5. ASSUME NEW w \in wallet PROVE AllName(w)'
  <2>1. AllName(w)
    BY DEF AllNameWallet
  <2>2. \A u \in Task : Names(task'[u], w)
    BY <1>1, <1>2, <1>3, <2>1 DEF AllName
  <2>3. (\A k \in session' : k.addr = w) /\ (\A c \in cached' : c.proof.addr = w)
    BY <2>1, RequestKeeps DEF AllName
  <2> QED
    BY <2>2, <2>3 DEF AllName
<1> QED
  BY <1>3, <1>4, <1>5 DEF AllNameWallet

LEMMA ElapseNames ==
  ASSUME SessionTypes, AllNameWallet, Elapse
  PROVE  AllNameWallet'
<1>1. /\ UNCHANGED <<wallet, connectable>>
      /\ \A t \in Task : task[t] \in TaskState /\ task'[t] = Aged(task[t])
      /\ \A t \in Task : task[t].op = "sign" => task[t].proof.age < PromptTtl
  BY DEF Elapse, SessionTypes
<1>2. \A t \in Task : task'[t].op = task[t].op
  BY <1>1, RequestsAge
<1>3. Unconnected'
  <2>1. session = {} /\ cached = {} => session' = {} /\ cached' = {}
    BY DEF Elapse
  <2> QED
    BY <1>1, <1>2, <2>1 DEF AllNameWallet, Unconnected
<1>4. ASSUME NEW w \in wallet PROVE AllName(w)'
  <2>1. AllName(w)
    BY DEF AllNameWallet
  <2>2. \A k \in session' : k.addr = w
    BY <2>1, TokensAge DEF Elapse, SessionTypes, AllName
  <2>3. \A c \in cached' : c.proof.addr = w
    BY <2>1 DEF Elapse, SessionTypes, Proof, AllName
  <2>4. \A t \in Task : Names(Aged(task[t]), w)
    BY <1>1, <2>1, RequestsAge DEF Names, AllName
  <2> QED
    BY <1>1, <2>2, <2>3, <2>4 DEF AllName
<1> QED
  BY <1>1, <1>3, <1>4 DEF AllNameWallet

LEMMA SessionNextNames == SessionTypes /\ AllNameWallet /\ [SessionNext]_sessionVars => AllNameWallet'
<1> SUFFICES ASSUME SessionTypes, AllNameWallet, [SessionNext]_sessionVars PROVE AllNameWallet'
  OBVIOUS
<1>1. ASSUME NEW w \in Wallet, Connect(w) PROVE AllNameWallet'
  <2>1. /\ session' = {} /\ cached' = {} /\ wallet' = {w} /\ ~ connectable'
        /\ \A t \in Task : task'[t].op = "idle"
    BY <1>1 DEF Connect, AllNameWallet, Unconnected
  <2> QED
    BY <2>1 DEF AllNameWallet, Unconnected, AllName, Names
<1>2. CASE Disconnect
  <2>1. wallet' = {} /\ session' = {} /\ cached' = {} /\ UNCHANGED <<task, connectable>>
    BY <1>2 DEF Disconnect
  <2> QED
    BY <2>1 DEF AllNameWallet, Unconnected
<1>3. CASE Reload
  BY <1>3 DEF Reload, AllNameWallet, Unconnected, Idle
<1>4. CASE Rekey \/ UNCHANGED sessionVars
  <2>1. UNCHANGED <<wallet, session, cached, task, connectable>>
    BY <1>4 DEF Rekey, sessionVars
  <2> QED
    BY <2>1 DEF AllNameWallet, Unconnected, AllName
<1>5. CASE Elapse
  BY <1>5, ElapseNames
<1>6. ASSUME NEW t \in Task, RequestStep(t) PROVE AllNameWallet'
  BY <1>6, RequestNames
<1> QED
  BY <1>1, <1>2, <1>3, <1>4, <1>5, <1>6, SessionNextCases

(* No expiry, loss, refusal or restart of the server, and no signature or    *)
(* reply that comes after the wallet was disconnected, gets a credential of  *)
(* another wallet into the page or into a request.                           *)
THEOREM CredentialsAreOwn == SessionSpec => []CredentialsFollowWallet
<1>1. SessionInit => AllNameWallet
  BY DEF SessionInit, AllNameWallet, Unconnected, Idle
<1>2. AllNameWallet => CredentialsFollowWallet
  BY DEF AllNameWallet, AllName, CredentialsFollowWallet, Names
<1> QED
  BY <1>1, <1>2, SessionInitType, SessionNextType, SessionNextNames, PTL DEF SessionSpec

-----------------------------------------------------------------------------
(* The three parts side by side keep their types, with any constants. *)
THEOREM ServerTypeCorrect == ServerSpec => []ServerTypeOK
<1>1. ServerInit => Init /\ S!Init /\ I!Init
  BY DEF ServerInit
<1>2. ServerTypeOK /\ [ServerNext]_<<part, vars, settingsVars, identityVars>> => ServerTypeOK'
  <2>1. [ServerNext]_<<part, vars, settingsVars, identityVars>> =>
          [Next]_vars /\ [S!Next]_(S!vars) /\ [I!Next]_(I!vars)
    BY DEF ServerNext, LimitsNext, SettingsNext, IdentityNext, settingsVars, identityVars, S!vars, I!vars
  <2> QED
    BY <2>1, LimitsNextType, SettingsNextType, IdentityNextType DEF ServerTypeOK
<1>3. ServerInit => ServerTypeOK
  BY <1>1, LimitsInitType, SettingsInitType, IdentityInitType DEF ServerTypeOK
<1> QED
  BY <1>2, <1>3, PTL DEF ServerSpec

(* A behaviour of the three parts is one of each, so what is proved of the   *)
(* limits, the settings and the identity alone holds of the server.          *)
THEOREM PartsOfTheServer == ServerSpec => Spec /\ S!Spec /\ I!Spec
<1>1. ServerInit => Init /\ S!Init /\ I!Init
  BY DEF ServerInit
<1>2. [ServerNext]_<<part, vars, settingsVars, identityVars>> =>
        [Next]_vars /\ [S!Next]_(S!vars) /\ [I!Next]_(I!vars)
  BY DEF ServerNext, LimitsNext, SettingsNext, IdentityNext, settingsVars, identityVars, S!vars, I!vars
<1> QED
  BY <1>1, <1>2, PTL DEF ServerSpec, Spec, S!Spec, I!Spec
=============================================================================
