--------------------------- MODULE LiquidityProofs --------------------------
(***************************************************************************)
(* Proofs about Liquidity, for any number of taps, payments and liquidity  *)
(* requests and any cooldown: the changes of a tap leave the payment       *)
(* service as ReservoirProofs describes it, and refreshes stay bounded.    *)
(***************************************************************************)
EXTENDS Liquidity, ReservoirProofs, FiniteSetTheorems

-----------------------------------------------------------------------------
(* Every step is one of the payment service, or mines a signed change. *)

LEMMA LStep ==
  ASSUME [LNext]_allVars
  PROVE  [Next]_vars \/ \E c \in signed : Mine(c)
<1>1. ASSUME UNCHANGED vars PROVE [Next]_vars
  BY <1>1
<1>2. ASSUME NEW q \in Request, ChangeLiquidity(q) PROVE [Next]_vars
  BY <1>1, <1>2 DEF ChangeLiquidity, AddFunds, Borrow, AddFundsChecked, AddFundsSigned, BorrowSigned,
     ChangeFails
<1>3. CASE LRestart
  BY <1>1, <1>3 DEF LRestart, Next
<1>4. ASSUME NEW p \in Pipe, Mature(p) PROVE [Next]_vars
  BY <1>1, <1>4 DEF Mature
<1>5. CASE Tick
  BY <1>1, <1>5 DEF Tick
<1>6. CASE UNCHANGED allVars
  BY <1>1, <1>6 DEF allVars
<1> QED
  BY <1>2, <1>3, <1>4, <1>5, <1>6 DEF LNext, Next

-----------------------------------------------------------------------------
(* Type correctness. *)

LEMMA DepositIsOnChain ==
  ASSUME NEW state \in OnChain, NEW amount \in Amount
  PROVE  Deposit(state, amount) \in OnChain
BY LiquidityAssumption DEF OnChain, State, Deposit

LEMMA RefreshIsOnChain ==
  ASSUME NEW latest \in State
  PROVE  Refresh(latest) \in OnChain
<1>1. latest.nonce + 1 \in Nat /\ Target \in Nat /\ {} \in SUBSET Secret
  BY LiquidityAssumption DEF State
<1>2. PICK new : new = Refresh(latest)
  OBVIOUS
<1>3. new \in State /\ new.hash = {}
  BY <1>1, <1>2 DEF State, Refresh
<1> QED
  BY <1>2, <1>3 DEF OnChain

LEMMA LInitType == LInit => LTypeOK
BY InitType, LiquidityAssumption DEF LInit, LTypeOK, ChangeCall

LEMMA LNextService == LTypeOK /\ [LNext]_allVars => TypeOK'
<1> SUFFICES ASSUME LTypeOK, [LNext]_allVars PROVE TypeOK'
  OBVIOUS
<1>1. CASE [Next]_vars
  BY <1>1, NextType DEF LTypeOK
<1>2. ASSUME NEW c \in signed, Mine(c) PROVE TypeOK'
  <2>1. c.pipe \in Pipe /\ c.state \in OnChain
    BY DEF LTypeOK, Change
  <2> QED
    BY <1>2, <2>1 DEF Mine, LTypeOK, TypeOK
<1> QED
  BY <1>1, <1>2, LStep

LEMMA LNextType == LTypeOK /\ [LNext]_allVars => LTypeOK'
<1> SUFFICES ASSUME LTypeOK, [LNext]_allVars PROVE LTypeOK'
  OBVIOUS
<1>0. TypeOK'
  BY LNextService
<1> DEFINE Rest ==
      /\ change' \in [Request -> ChangeCall]
      /\ lastRefresh' \in [Pipe -> SUBSET (0..MaxTime)]
      /\ signed' \subseteq Change
      /\ immature' \subseteq Pipe
      /\ now' \in 0..MaxTime
      /\ refreshed' \in [Pipe -> Seq(0..MaxTime)]
<1>a. /\ change \in [Request -> ChangeCall] /\ lastRefresh \in [Pipe -> SUBSET (0..MaxTime)]
      /\ signed \subseteq Change /\ immature \subseteq Pipe /\ now \in 0..MaxTime
      /\ refreshed \in [Pipe -> Seq(0..MaxTime)] /\ Idle \in ChangeCall
  BY DEF LTypeOK, ChangeCall
<1>b. ASSUME NEW q, NEW c \in ChangeCall, change' = [change EXCEPT ![q] = c],
             UNCHANGED <<lastRefresh, immature, now, refreshed>>, signed' \subseteq Change
      PROVE  Rest
  BY <1>a, <1>b
<1>1. ASSUME NEW q \in Request, NEW p \in Pipe, NEW amount \in Amount, AddFunds(q, p, amount)
      PROVE  Rest
  <2>1. PICK state \in chain[p] :
          change' = [change EXCEPT ![q] = [op |-> "snapshot", pipe |-> p, state |-> state,
                                           amount |-> amount, immature |-> p \in immature]]
    BY <1>1 DEF AddFunds
  <2>2. state \in OnChain
    BY <2>1 DEF LTypeOK, TypeOK
  <2>3. [op |-> "snapshot", pipe |-> p, state |-> state, amount |-> amount,
         immature |-> p \in immature] \in ChangeCall
    BY <2>2 DEF ChangeCall
  <2> QED
    BY <1>a, <1>b, <1>1, <2>1, <2>3 DEF AddFunds
<1>2. ASSUME NEW q \in Request, AddFundsChecked(q) PROVE Rest
  <2> DEFINE c == change[q]
             next == [op |-> "sign", change |-> [kind |-> "add", pipe |-> c.pipe, amount |-> c.amount,
                                                 state |-> Deposit(c.state, c.amount)]]
  <2>1. c.pipe \in Pipe /\ c.state \in OnChain /\ c.amount \in Amount
    BY <1>a, <1>2 DEF AddFundsChecked, ChangeCall, Idle
  <2>2. Deposit(c.state, c.amount) \in OnChain /\ c.amount \in Nat
    BY <2>1, DepositIsOnChain, LiquidityAssumption
  <2>3. next \in ChangeCall
    BY <2>1, <2>2 DEF ChangeCall, Change
  <2> QED
    BY <1>a, <1>b, <1>2, <2>3 DEF AddFundsChecked
<1>3. ASSUME NEW q \in Request, NEW p \in Pipe, Borrow(q, p) PROVE Rest
  <2>1. PICK latest \in getLatestPipeState(p) :
          /\ latest.srv < Target
          /\ change' = [change EXCEPT ![q] =
                          [op |-> "sign", change |-> [kind |-> "borrow", pipe |-> p,
                                                      amount |-> Target - latest.srv,
                                                      state |-> Refresh(latest)]]]
    BY <1>3 DEF Borrow
  <2>2. latest \in State
    BY NewestIsStored DEF getLatestPipeState, LTypeOK, TypeOK
  <2>3. Target - latest.srv \in Nat /\ Refresh(latest) \in OnChain
    BY <2>1, <2>2, LiquidityAssumption, RefreshIsOnChain DEF State
  <2>4. [op |-> "sign", change |-> [kind |-> "borrow", pipe |-> p, amount |-> Target - latest.srv,
                                    state |-> Refresh(latest)]] \in ChangeCall
    BY <2>3 DEF ChangeCall, Change
  <2> QED
    BY <1>a, <1>b, <1>3, <2>1, <2>4 DEF Borrow
<1>4. ASSUME NEW q \in Request, AddFundsSigned(q) \/ BorrowSigned(q) PROVE Rest
  <2>1. change[q].change \in Change
    BY <1>a, <1>4 DEF AddFundsSigned, BorrowSigned, ChangeCall, Idle
  <2>2. CASE AddFundsSigned(q)
    BY <1>a, <1>b, <2>1, <2>2 DEF AddFundsSigned
  <2>3. CASE BorrowSigned(q)
    <3>1. Append(refreshed[change[q].change.pipe], now) \in Seq(0..MaxTime)
      BY <1>a, <2>1 DEF Change
    <3> QED
      BY <1>a, <2>1, <2>3, <3>1 DEF BorrowSigned
  <2> QED
    BY <1>4, <2>2, <2>3
<1>5. ASSUME NEW q \in Request, ChangeFails(q) PROVE Rest
  BY <1>a, <1>b, <1>5 DEF ChangeFails
<1>6. ASSUME LRestart PROVE Rest
  BY <1>a, <1>6 DEF LRestart
<1>7. ASSUME UNCHANGED lvars PROVE Rest
  BY <1>a, <1>7 DEF lvars
<1>8. ASSUME NEW c \in signed, Mine(c) PROVE Rest
  BY <1>a, <1>8 DEF Mine, Change
<1>9. ASSUME NEW p \in Pipe, Mature(p) PROVE Rest
  BY <1>a, <1>9 DEF Mature
<1>10. ASSUME Tick PROVE Rest
  BY <1>a, <1>10, LiquidityAssumption DEF Tick
<1>11. Rest
  <2> HIDE DEF Rest
  <2> QED
    BY <1>1, <1>2, <1>3, <1>4, <1>5, <1>6, <1>7, <1>8, <1>9, <1>10
       DEF LNext, ChangeLiquidity, allVars
<1> QED
  BY <1>0, <1>11 DEF LTypeOK

(* The tables of the payment service, and those of the liquidity methods. *)
THEOREM LTypeCorrect == LSpec => []LTypeOK
BY LInitType, LNextType, PTL DEF LSpec

-----------------------------------------------------------------------------
(* Conservation of totals: signing a change stores none of the signed states, *)
(* and what is mined reaches the tables only through syncTapState.            *)

LEMMA LNextConserved == LTypeOK /\ Conserved /\ [LNext]_allVars => Conserved'
<1> SUFFICES ASSUME LTypeOK, Conserved, [LNext]_allVars PROVE Conserved'
  OBVIOUS
<1>1. CASE [Next]_vars
  BY <1>1, NextConserved DEF LTypeOK
<1>2. ASSUME NEW c \in signed, Mine(c) PROVE Conserved'
  BY <1>2 DEF Mine, Conserved, TotalsConserved, Waiting
<1> QED
  BY <1>1, <1>2, LStep

(* Money is conserved on every tap while its liquidity is changed as well. *)
THEOREM LMoneyConserved == LSpec => []TotalsConserved
<1>1. LInit => Conserved
  BY InitConserved DEF LInit
<1>2. Conserved => TotalsConserved
  BY DEF Conserved
<1> QED
  BY <1>1, <1>2, LInitType, LNextType, LNextConserved, PTL DEF LSpec

-----------------------------------------------------------------------------
(***************************************************************************)
(* Refreshes.  The bound on what is signed is not inductive: a request     *)
(* that passed the cooldown before it waits for its signature counts       *)
(* already, in every window of time that is open at the moment.            *)
(***************************************************************************)
Refreshes(p, from) == {i \in DOMAIN refreshed[p] : refreshed[p][i] \in from..(from + Cooldown - 1)}

Refreshing(p) == {q \in Request : /\ change[q].op = "sign"
                                  /\ change[q].change.kind = "borrow"
                                  /\ change[q].change.pipe = p}

Open(from) == from <= now /\ now < from + Cooldown

(* The last refresh of a borrower is the last in its history, and in the past. *)
LastIsLatest ==
  \A p \in Pipe :
    /\ \A last \in lastRefresh[p] : last <= now
    /\ \A i \in DOMAIN refreshed[p] : \E last \in lastRefresh[p] : refreshed[p][i] <= last

RefreshesLimited ==
  \A p \in Pipe : \A from \in 0..MaxTime :
    /\ Cardinality(Refreshes(p, from)) <= Cardinality(Request)
    /\ Open(from) =>
         Cardinality(Refreshes(p, from)) + Cardinality(Refreshing(p)) <= Cardinality(Request)

LEMMA RequestsCount ==
  ASSUME NEW S \in SUBSET Request
  PROVE  /\ IsFiniteSet(S) /\ Cardinality(S) \in Nat /\ Cardinality(Request) \in Nat
         /\ Cardinality(S) <= Cardinality(Request)
BY LiquidityAssumption, FS_Subset, FS_CardinalityType

LEMMA RefreshesCount ==
  ASSUME LTypeOK, NEW p \in Pipe, NEW from
  PROVE  IsFiniteSet(Refreshes(p, from)) /\ Cardinality(Refreshes(p, from)) \in Nat
<1>1. refreshed[p] \in Seq(0..MaxTime)
  BY DEF LTypeOK
<1>2. DOMAIN refreshed[p] = 1..Len(refreshed[p]) /\ Len(refreshed[p]) \in Nat
  BY <1>1
<1>3. IsFiniteSet(DOMAIN refreshed[p])
  BY <1>2, FS_Interval
<1> QED
  BY <1>3, FS_Subset, FS_CardinalityType DEF Refreshes

LEMMA ElementsOfSeq ==
  ASSUME NEW S, NEW s \in Seq(S), NEW i \in DOMAIN s
  PROVE  s[i] \in S
OBVIOUS

LEMMA LInitLimited == LInit => LastIsLatest /\ RefreshesLimited
<1> SUFFICES ASSUME LInit PROVE LastIsLatest /\ RefreshesLimited
  OBVIOUS
<1>1. \A p \in Pipe : refreshed[p] = <<>> /\ lastRefresh[p] = {}
  BY DEF LInit
<1>2. \A p \in Pipe, from \in 0..MaxTime : Refreshes(p, from) = {} /\ Refreshing(p) = {}
  BY <1>1 DEF LInit, Idle, Refreshes, Refreshing
<1>3. Cardinality({}) = 0 /\ Cardinality(Request) \in Nat
  BY FS_EmptySet, RequestsCount
<1>4. LastIsLatest
  BY <1>1 DEF LastIsLatest
<1>5. \A p \in Pipe, from \in 0..MaxTime :
        Cardinality(Refreshes(p, from)) = 0 /\ Cardinality(Refreshing(p)) = 0
  BY <1>2, <1>3
<1>6. RefreshesLimited
  BY <1>3, <1>5 DEF RefreshesLimited
<1> QED
  BY <1>4, <1>6

(* A window that opens now, or one in which a new request may start, is empty. *)
LEMMA NothingSince ==
  ASSUME LTypeOK, LastIsLatest, NEW p \in Pipe, NEW from \in 0..MaxTime,
         \A last \in lastRefresh[p] : last < from
  PROVE  Cardinality(Refreshes(p, from)) = 0
<1>1. \A i \in DOMAIN refreshed[p] : refreshed[p][i] \in 0..MaxTime
  <2>1. refreshed[p] \in Seq(0..MaxTime)
    BY DEF LTypeOK
  <2> QED
    BY <2>1, ElementsOfSeq
<1>2. lastRefresh[p] \subseteq 0..MaxTime
  BY DEF LTypeOK
<1>3. Refreshes(p, from) = {}
  BY <1>1, <1>2, LiquidityAssumption DEF LastIsLatest, Refreshes
<1> QED
  BY <1>3, FS_EmptySet

(* Nothing is signed and the clock stands still: only requests may have ended. *)
LEMMA LimitedKept ==
  ASSUME LTypeOK, RefreshesLimited, LastIsLatest, UNCHANGED <<refreshed, lastRefresh, now>>,
         \A p \in Pipe : Refreshing(p)' \subseteq Refreshing(p)
  PROVE  LastIsLatest' /\ RefreshesLimited'
<1>1. LastIsLatest'
  BY DEF LastIsLatest
<1>2. ASSUME NEW p \in Pipe, NEW from \in 0..MaxTime
      PROVE  /\ Refreshes(p, from)' = Refreshes(p, from)
             /\ Cardinality(Refreshes(p, from)) \in Nat
             /\ Cardinality(Refreshing(p)) \in Nat /\ Cardinality(Refreshing(p)') \in Nat
             /\ Cardinality(Refreshing(p)') <= Cardinality(Refreshing(p))
             /\ Cardinality(Request) \in Nat
  <2>1. Refreshing(p) \in SUBSET Request /\ Refreshing(p)' \in SUBSET Request
    BY DEF Refreshing
  <2>2. Cardinality(Refreshing(p)') <= Cardinality(Refreshing(p))
    BY <2>1, RequestsCount, FS_Subset
  <2>3. Refreshes(p, from)' = Refreshes(p, from)
    BY DEF Refreshes
  <2> QED
    BY <2>1, <2>2, <2>3, RequestsCount, RefreshesCount
<1>3. \A from : Open(from)' <=> Open(from)
  BY DEF Open
<1>4. RefreshesLimited'
  BY <1>2, <1>3 DEF RefreshesLimited
<1> QED
  BY <1>1, <1>4

(* A borrower that has cooled down: in the windows open now none was signed. *)
LEMMA BorrowLimited ==
  ASSUME LTypeOK, RefreshesLimited, LastIsLatest, NEW q \in Request, NEW p \in Pipe, Borrow(q, p)
  PROVE  LastIsLatest' /\ RefreshesLimited'
<1>1. UNCHANGED <<refreshed, lastRefresh, now>> /\ CooledDown(p) /\ change[q] = Idle
  BY DEF Borrow
<1>2. LastIsLatest'
  BY <1>1 DEF LastIsLatest
<1>3. \A r \in Pipe : Refreshing(r)' \in SUBSET Request /\ Refreshing(r) \in SUBSET Request
  BY DEF Refreshing
<1>4. ASSUME NEW r \in Pipe, NEW from \in 0..MaxTime
      PROVE  /\ Cardinality(Refreshes(r, from)') <= Cardinality(Request)
             /\ Open(from)' => Cardinality(Refreshes(r, from)') + Cardinality(Refreshing(r)')
                                 <= Cardinality(Request)
  <2>1. Refreshes(r, from)' = Refreshes(r, from) /\ (Open(from)' <=> Open(from))
    BY <1>1 DEF Refreshes, Open
  <2>2. Cardinality(Refreshes(r, from)) <= Cardinality(Request)
    BY DEF RefreshesLimited
  <2>3. CASE r = p
    <3>1. ASSUME Open(from) PROVE Cardinality(Refreshes(r, from)) = 0
      <4>1. \A last \in lastRefresh[p] : now >= last + Cooldown
        BY <1>1 DEF CooledDown
      <4>2. lastRefresh[p] \subseteq Nat /\ now \in Nat
        BY LiquidityAssumption DEF LTypeOK
      <4>3. \A last \in lastRefresh[p] : last < from
        BY <3>1, <4>1, <4>2, LiquidityAssumption DEF Open
      <4> QED
        BY <2>3, <4>3, NothingSince
    <3>2. Cardinality(Refreshing(r)') <= Cardinality(Request) /\ Cardinality(Refreshing(r)') \in Nat
      BY <1>3, RequestsCount
    <3> QED
      BY <2>1, <2>2, <3>1, <3>2
  <2>4. CASE r # p
    <3>1. Refreshing(r)' = Refreshing(r)
      <4>1. PICK latest : change' = [change EXCEPT ![q] =
                    [op |-> "sign", change |-> [kind |-> "borrow", pipe |-> p,
                                                amount |-> Target - latest.srv,
                                                state |-> Refresh(latest)]]]
        BY DEF Borrow
      <4>2. change'[q].change.pipe = p /\ \A g \in Request \ {q} : change'[g] = change[g]
        BY <4>1 DEF LTypeOK
      <4> QED
        BY <1>1, <2>4, <4>2 DEF Refreshing, Idle
    <3> QED
      BY <2>1, <2>2, <3>1 DEF RefreshesLimited
  <2> QED
    BY <2>3, <2>4
<1> QED
  BY <1>2, <1>4 DEF RefreshesLimited

(* The refresh is signed and recorded: the request stops waiting for it. *)
LEMMA BorrowSignedLimited ==
  ASSUME LTypeOK, RefreshesLimited, LastIsLatest, NEW q \in Request, BorrowSigned(q)
  PROVE  LastIsLatest' /\ RefreshesLimited'
<1> DEFINE p == change[q].change.pipe
           s == refreshed[p]
<1>1. p \in Pipe /\ change[q].op = "sign" /\ change[q].change.kind = "borrow"
  BY DEF BorrowSigned, LTypeOK, ChangeCall, Change, Idle
<1>2. /\ now' = now /\ now \in 0..MaxTime
      /\ lastRefresh' = [lastRefresh EXCEPT ![p] = {now}]
      /\ refreshed' = [refreshed EXCEPT ![p] = Append(s, now)]
      /\ change' = [change EXCEPT ![q] = Idle]
  BY DEF BorrowSigned, LTypeOK
<1>3. /\ refreshed \in [Pipe -> Seq(0..MaxTime)] /\ lastRefresh \in [Pipe -> SUBSET (0..MaxTime)]
      /\ change \in [Request -> ChangeCall]
  BY DEF LTypeOK
<1> HIDE DEF p
<1>4. /\ s \in Seq(0..MaxTime) /\ Len(s) \in Nat /\ DOMAIN s = 1..Len(s)
      /\ DOMAIN Append(s, now) = DOMAIN s \cup {Len(s) + 1}
      /\ \A i \in DOMAIN s : Append(s, now)[i] = s[i]
      /\ Append(s, now)[Len(s) + 1] = now
      /\ Len(s) + 1 \notin DOMAIN s
  <2>1. s \in Seq(0..MaxTime)
    BY <1>1, <1>3
  <2> HIDE DEF s
  <2> QED
    BY <2>1, <1>2
<1>5. LastIsLatest'
  <2> SUFFICES ASSUME NEW r \in Pipe
               PROVE  /\ \A last \in lastRefresh'[r] : last <= now'
                      /\ \A i \in DOMAIN refreshed'[r] :
                           \E last \in lastRefresh'[r] : refreshed'[r][i] <= last
    BY DEF LastIsLatest
  <2>1. CASE r # p
    BY <1>2, <1>3, <2>1 DEF LastIsLatest
  <2>2. CASE r = p
    <3>1. lastRefresh'[r] = {now} /\ refreshed'[r] = Append(s, now) /\ now \in Int
      BY <1>1, <1>2, <1>3, <2>2, LiquidityAssumption
    <3>2. \A i \in DOMAIN s : s[i] \in 0..MaxTime
      BY <1>4, ElementsOfSeq
    <3>3. \A i \in DOMAIN s : \E last \in lastRefresh[p] : s[i] <= last /\ last <= now
      BY <1>1 DEF LastIsLatest
    <3>4. \A i \in DOMAIN s : s[i] <= now
      BY <1>1, <1>3, <3>1, <3>2, <3>3, LiquidityAssumption
    <3>5. \A i \in DOMAIN Append(s, now) : Append(s, now)[i] <= now
      BY <1>4, <3>1, <3>4
    <3> QED
      BY <1>2, <3>1, <3>5
  <2> QED
    BY <2>1, <2>2
<1>6. ASSUME NEW r \in Pipe, NEW from \in 0..MaxTime
      PROVE  /\ Cardinality(Refreshes(r, from)') <= Cardinality(Request)
             /\ Open(from)' => Cardinality(Refreshes(r, from)') + Cardinality(Refreshing(r)')
                                 <= Cardinality(Request)
  <2>0. Open(from)' <=> Open(from)
    BY <1>2 DEF Open
  <2>a. /\ Cardinality(Refreshes(r, from)) <= Cardinality(Request)
        /\ Open(from) => Cardinality(Refreshes(r, from)) + Cardinality(Refreshing(r))
                            <= Cardinality(Request)
    BY DEF RefreshesLimited
  <2>b. /\ Cardinality(Refreshes(r, from)) \in Nat /\ Cardinality(Request) \in Nat
        /\ Refreshing(r) \in SUBSET Request /\ Cardinality(Refreshing(r)) \in Nat
    BY RequestsCount, RefreshesCount DEF Refreshing
  <2>1. CASE r # p
    <3>1. Refreshes(r, from)' = Refreshes(r, from)
      BY <1>2, <1>3, <2>1 DEF Refreshes
    <3>2. Refreshing(r)' = Refreshing(r)
      BY <1>1, <1>2, <1>3, <2>1 DEF Refreshing, Idle, p
    <3> QED
      BY <2>0, <2>a, <3>1, <3>2
  <2>2. CASE r = p
    <3>1. Refreshing(r)' = Refreshing(r) \ {q} /\ q \in Refreshing(r)
      BY <1>1, <1>2, <1>3, <2>2 DEF Refreshing, Idle, p
    <3>2. Cardinality(Refreshing(r)') = Cardinality(Refreshing(r)) - 1
      BY <2>b, <3>1, RequestsCount, FS_RemoveElement
    <3>3. refreshed'[r] = Append(s, now)
      BY <1>1, <1>2, <1>3, <2>2
    <3>4. Refreshes(r, from) = {i \in DOMAIN s : s[i] \in from..(from + Cooldown - 1)}
      BY <2>2 DEF Refreshes
    <3>5. Refreshes(r, from)' =
            {i \in DOMAIN Append(s, now) : Append(s, now)[i] \in from..(from + Cooldown - 1)}
      BY <3>3 DEF Refreshes
    <3>6. CASE Open(from)
      <4>1. Refreshes(r, from)' \subseteq Refreshes(r, from) \cup {Len(s) + 1}
        BY <1>4, <3>4, <3>5
      <4>2. Len(s) + 1 \notin Refreshes(r, from) /\ IsFiniteSet(Refreshes(r, from))
        BY <1>4, <3>4, RefreshesCount
      <4>3. /\ Cardinality(Refreshes(r, from) \cup {Len(s) + 1}) = Cardinality(Refreshes(r, from)) + 1
            /\ IsFiniteSet(Refreshes(r, from) \cup {Len(s) + 1})
        BY <4>2, FS_AddElement
      <4>4. /\ Cardinality(Refreshes(r, from)') <= Cardinality(Refreshes(r, from)) + 1
            /\ Cardinality(Refreshes(r, from)') \in Nat
        BY <4>1, <4>3, FS_Subset, FS_CardinalityType
      <4>5. Cardinality(Refreshing(r)) >= 1
        BY <2>b, <3>1, <3>2, RequestsCount, FS_CardinalityType, FS_Subset
      <4> QED
        BY <2>0, <2>a, <2>b, <3>2, <3>6, <4>4, <4>5
    <3>7. CASE ~ Open(from)
      <4>1. now \notin from..(from + Cooldown - 1)
        BY <1>2, <3>7, LiquidityAssumption DEF Open
      <4>2. Refreshes(r, from)' = Refreshes(r, from)
        BY <1>4, <3>4, <3>5, <4>1
      <4> QED
        BY <2>0, <2>a, <3>7, <4>2
    <3> QED
      BY <3>6, <3>7
  <2> QED
    BY <2>1, <2>2
<1>7. RefreshesLimited'
  BY <1>6 DEF RefreshesLimited
<1> QED
  BY <1>5, <1>7

(* Time passes: the window that opens with the new moment is still empty. *)
LEMMA TickLimited ==
  ASSUME LTypeOK, RefreshesLimited, LastIsLatest, Tick
  PROVE  LastIsLatest' /\ RefreshesLimited'
<1>1. UNCHANGED <<change, lastRefresh, refreshed>> /\ now' = now + 1 /\ now \in Nat
  BY LiquidityAssumption DEF Tick, LTypeOK
<1>2. LastIsLatest'
  <2>1. \A p \in Pipe : lastRefresh[p] \subseteq Nat
    BY LiquidityAssumption DEF LTypeOK
  <2> QED
    BY <1>1, <2>1 DEF LastIsLatest
<1>3. ASSUME NEW p \in Pipe, NEW from \in 0..MaxTime
      PROVE  /\ Cardinality(Refreshes(p, from)') <= Cardinality(Request)
             /\ Open(from)' => Cardinality(Refreshes(p, from)') + Cardinality(Refreshing(p)')
                                 <= Cardinality(Request)
  <2>1. Refreshes(p, from)' = Refreshes(p, from) /\ Refreshing(p)' = Refreshing(p)
    BY <1>1 DEF Refreshes, Refreshing
  <2>2. CASE from = now + 1
    <3>1. \A last \in lastRefresh[p] : last < from
      <4>1. lastRefresh[p] \subseteq Nat
        BY LiquidityAssumption DEF LTypeOK
      <4> QED
        BY <1>1, <2>2, <4>1 DEF LastIsLatest
    <3>2. Cardinality(Refreshes(p, from)) = 0
      BY <3>1, NothingSince
    <3>3. /\ Cardinality(Refreshing(p)) <= Cardinality(Request)
          /\ Cardinality(Refreshing(p)) \in Nat /\ Cardinality(Request) \in Nat
      BY RequestsCount DEF Refreshing
    <3> QED
      BY <2>1, <3>2, <3>3
  <2>3. CASE from # now + 1
    <3>1. Open(from)' => Open(from)
      BY <1>1, <2>3, LiquidityAssumption DEF Open
    <3> QED
      BY <2>1, <3>1 DEF RefreshesLimited
  <2> QED
    BY <2>2, <2>3
<1>4. RefreshesLimited'
  BY <1>3 DEF RefreshesLimited
<1> QED
  BY <1>2, <1>4

LEMMA LNextLimited ==
  LTypeOK /\ LastIsLatest /\ RefreshesLimited /\ [LNext]_allVars => LastIsLatest' /\ RefreshesLimited'
<1> SUFFICES ASSUME LTypeOK, LastIsLatest, RefreshesLimited, [LNext]_allVars
             PROVE  LastIsLatest' /\ RefreshesLimited'
  OBVIOUS
<1>1. ASSUME UNCHANGED <<refreshed, lastRefresh, now>>,
             \/ change' = change
             \/ \E q \in Request : \E c :
                  change' = [change EXCEPT ![q] = c] /\ (c.op # "sign" \/ c.change.kind # "borrow")
      PROVE  LastIsLatest' /\ RefreshesLimited'
  <2>1. CASE change' = change
    BY <1>1, <2>1, LimitedKept DEF Refreshing
  <2>2. CASE change' # change
    <3>1. PICK q \in Request : \E c :
            change' = [change EXCEPT ![q] = c] /\ (c.op # "sign" \/ c.change.kind # "borrow")
      BY <1>1, <2>2
    <3>2. change'[q].op # "sign" \/ change'[q].change.kind # "borrow"
      BY <3>1 DEF LTypeOK
    <3>3. \A g \in Request \ {q} : change'[g] = change[g]
      BY <3>1 DEF LTypeOK
    <3>4. \A p \in Pipe : Refreshing(p)' \subseteq Refreshing(p)
      BY <3>2, <3>3 DEF Refreshing
    <3> QED
      BY <1>1, <3>4, LimitedKept
  <2> QED
    BY <2>1, <2>2
<1>2. ASSUME NEW q \in Request, NEW p \in Pipe, NEW amount \in Amount, AddFunds(q, p, amount)
      PROVE  LastIsLatest' /\ RefreshesLimited'
  <2>1. PICK state : change' = [change EXCEPT ![q] =
                [op |-> "snapshot", pipe |-> p, state |-> state, amount |-> amount,
                 immature |-> p \in immature]]
    BY <1>2 DEF AddFunds
  <2> DEFINE c == [op |-> "snapshot", pipe |-> p, state |-> state, amount |-> amount,
                   immature |-> p \in immature]
  <2>2. change' = [change EXCEPT ![q] = c] /\ c.op # "sign"
    BY <2>1
  <2> HIDE DEF c
  <2> QED
    BY <1>1, <1>2, <2>2 DEF AddFunds
<1>3. ASSUME NEW q \in Request, AddFundsChecked(q) PROVE LastIsLatest' /\ RefreshesLimited'
  <2> DEFINE c == [op |-> "sign", change |->
                     [kind |-> "add", pipe |-> change[q].pipe, amount |-> change[q].amount,
                      state |-> Deposit(change[q].state, change[q].amount)]]
  <2>1. change' = [change EXCEPT ![q] = c] /\ c.change.kind # "borrow"
    BY <1>3 DEF AddFundsChecked
  <2> HIDE DEF c
  <2> QED
    BY <1>1, <1>3, <2>1 DEF AddFundsChecked
<1>4. ASSUME NEW q \in Request, AddFundsSigned(q) \/ ChangeFails(q)
      PROVE  LastIsLatest' /\ RefreshesLimited'
  <2>1. change' = [change EXCEPT ![q] = Idle] /\ Idle.op # "sign"
    BY <1>4 DEF AddFundsSigned, ChangeFails, Idle
  <2> QED
    BY <1>1, <1>4, <2>1 DEF AddFundsSigned, ChangeFails
<1>5. CASE LRestart
  <2>1. \A p \in Pipe : Refreshing(p)' \subseteq Refreshing(p)
    BY <1>5 DEF LRestart, Refreshing, Idle
  <2> QED
    BY <1>5, <2>1, LimitedKept DEF LRestart
<1>6. ASSUME UNCHANGED <<refreshed, lastRefresh, now, change>> PROVE LastIsLatest' /\ RefreshesLimited'
  BY <1>1, <1>6
<1>7. ASSUME NEW c \in signed, Mine(c) PROVE LastIsLatest' /\ RefreshesLimited'
  BY <1>6, <1>7 DEF Mine
<1>8. ASSUME NEW p \in Pipe, Mature(p) PROVE LastIsLatest' /\ RefreshesLimited'
  BY <1>6, <1>8 DEF Mature
<1>9. ASSUME UNCHANGED lvars PROVE LastIsLatest' /\ RefreshesLimited'
  BY <1>6, <1>9 DEF lvars
<1> QED
  BY <1>2, <1>3, <1>4, <1>5, <1>7, <1>8, <1>9, BorrowLimited, BorrowSignedLimited, TickLimited
     DEF LNext, ChangeLiquidity, allVars

(* However requests for a refresh overlap, whatever fails or is restarted: a *)
(* borrower is signed no more of them in a cooldown than can be in progress. *)
THEOREM RefreshesAreBounded == LSpec => []RefreshOvershootBounded
<1>1. RefreshesLimited => RefreshOvershootBounded
  BY DEF RefreshesLimited, RefreshOvershootBounded, Refreshes
<1> QED
  BY <1>1, LInitType, LNextType, LInitLimited, LNextLimited, PTL DEF LSpec
=============================================================================
