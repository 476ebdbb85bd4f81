------------------------------ MODULE Liquidity -----------------------------
(***************************************************************************)
(* ReservoirService (packages/server/src/reservoir.ts) with the two        *)
(* methods that change how much money is in an open tap, and the chain on  *)
(* which those changes are mined.                                          *)
(*                                                                         *)
(* createAddFundsParams signs on top of what get-pipe returns,             *)
(* createBorrowLiquidityParams on top of the newest tracked row.  Neither  *)
(* stores the state it signs: the user takes the server's signature to the *)
(* chain, waits, and calls syncTapState.  Payments go on in between.       *)
(***************************************************************************)
EXTENDS Reservoir, Sequences

CONSTANTS
  Request,    \* liquidity requests that can be in progress at the same time
  Amount,     \* the sums users add to a tap
  Target,     \* messagePriceSats * receiveCapacityMultiplier
  BorrowCap,  \* maxBorrowPerTap
  Cooldown,   \* refreshCapacityCooldownMs
  MaxTime     \* bound on the clock

ASSUME LiquidityAssumption ==
  /\ IsFiniteSet(Request)
  /\ Amount \subseteq Nat \ {0}
  /\ Target \in Nat /\ BorrowCap \in Nat /\ Cooldown \in Nat /\ MaxTime \in Nat

VARIABLES
  change,       \* the liquidity method each request is waiting in, with its locals
  lastRefresh,  \* table reservoir_refreshes: the last refresh of a borrower
  signed,       \* the liquidity changes the server has signed
  immature,     \* external: the pipes with a pending leg that has not matured
  now,          \* Date.now()
  refreshed     \* history: when refreshes of a pipe were signed

lvars == <<change, lastRefresh, signed, immature, now, refreshed>>
allVars == <<vars, lvars>>

Change == [kind : {"add", "borrow"}, pipe : Pipe, state : OnChain, amount : Nat]

(* "snapshot": for the burn height; "sign": for the fee and the signatures. *)
ChangeCall ==
       {Idle}
  \cup [op : {"snapshot"}, pipe : Pipe, state : OnChain, amount : Amount, immature : BOOLEAN]
  \cup [op : {"sign"}, change : Change]

LTypeOK ==
  /\ TypeOK
  /\ change \in [Request -> ChangeCall]
  /\ lastRefresh \in [Pipe -> SUBSET (0..MaxTime)]
  /\ signed \subseteq Change
  /\ immature \subseteq Pipe
  /\ now \in 0..MaxTime
  /\ refreshed \in [Pipe -> Seq(0..MaxTime)]

LInit ==
  /\ Init
  /\ change = [q \in Request |-> Idle]
  /\ lastRefresh = [p \in Pipe |-> {}]
  /\ signed = {}
  /\ immature = {}
  /\ now = 0
  /\ refreshed = [p \in Pipe |-> <<>>]

-----------------------------------------------------------------------------
(* createAddFundsParams *)

(* getCurrentOnChainTapSnapshot: get-pipe has answered; pending legs count. *)
AddFunds(q, p, amount) ==
  /\ change[q] = Idle
  /\ \E state \in chain[p] :
       change' = [change EXCEPT ![q] = [op |-> "snapshot", pipe |-> p, state |-> state,
                                        amount |-> amount, immature |-> p \in immature]]
  /\ UNCHANGED <<vars, lastRefresh, signed, immature, now, refreshed>>

assertNoOptimisticPendingStates(p, nonce) ==
  \A row \in getLatestPendingPipeRow(pendingStates[p]) : row.nonce <= nonce

(* The state after the counterparty has added an amount to a tap. *)
Deposit(state, amount) ==
  [srv |-> state.srv, cp |-> state.cp + amount, nonce |-> state.nonce + 1, hash |-> {}]

(* The burn height has come: a leg of the snapshot may have matured by now. *)
AddFundsChecked(q) ==
  LET c == change[q] IN
  /\ c.op = "snapshot"
  /\ assertNoOptimisticPendingStates(c.pipe, c.state.nonce)
  /\ ~ (c.immature /\ c.pipe \in immature)
  /\ c.state.nonce < MaxNonce
  /\ change' = [change EXCEPT ![q] =
                  [op |-> "sign", change |-> [kind |-> "add", pipe |-> c.pipe, amount |-> c.amount,
                                              state |-> Deposit(c.state, c.amount)]]]
  /\ UNCHANGED <<vars, lastRefresh, signed, immature, now, refreshed>>

AddFundsSigned(q) ==
  /\ change[q].op = "sign"
  /\ change[q].change.kind = "add"
  /\ signed' = signed \cup {change[q].change}
  /\ change' = [change EXCEPT ![q] = Idle]
  /\ UNCHANGED <<vars, lastRefresh, immature, now, refreshed>>

-----------------------------------------------------------------------------
(* createBorrowLiquidityParams *)

(* Mutant of CooledDown: the cooldown is added to the wrong side. *)
CooledDown_Inverted(p) == \A last \in lastRefresh[p] : now >= last - Cooldown

(* getLastRefreshAt and the comparison with refreshCapacityCooldownMs. *)
CooledDown(p) == \A last \in lastRefresh[p] : now >= last + Cooldown

(* The reservoir's side of the tap is filled up to the target. *)
Refresh(latest) == [latest EXCEPT !.srv = Target, !.nonce = @ + 1, !.hash = {}]

(* Mutant of Borrow: the reservoir's side is not compared with the target. *)
Borrow_Above(q, p) ==
  /\ change[q] = Idle
  /\ Target <= BorrowCap
  /\ CooledDown(p)
  /\ \E latest \in getLatestPipeState(p) :
       /\ latest.nonce < MaxNonce
       /\ change' = [change EXCEPT ![q] =
                       [op |-> "sign", change |-> [kind |-> "borrow", pipe |-> p,
                                                   amount |-> Target - latest.srv,
                                                   state |-> Refresh(latest)]]]
  /\ UNCHANGED <<vars, lastRefresh, signed, immature, now, refreshed>>

(* getCurrentTrackedTapSnapshot and every check run before the first await. *)
Borrow(q, p) ==
  /\ change[q] = Idle
  /\ Target <= BorrowCap
  /\ CooledDown(p)
  /\ \E latest \in getLatestPipeState(p) :
       /\ latest.srv < Target
       /\ latest.nonce < MaxNonce
       /\ change' = [change EXCEPT ![q] =
                       [op |-> "sign", change |-> [kind |-> "borrow", pipe |-> p,
                                                   amount |-> Target - latest.srv,
                                                   state |-> Refresh(latest)]]]
  /\ UNCHANGED <<vars, lastRefresh, signed, immature, now, refreshed>>

(* Mutant of BorrowSigned: the signed state is tracked before it is mined. *)
BorrowSigned_Tracks(q) ==
  LET c == change[q].change IN
  /\ change[q].op = "sign"
  /\ c.kind = "borrow"
  /\ pendingStates' = [pendingStates EXCEPT ![c.pipe] = upsertPendingState(@, c.state)]
  /\ lastRefresh' = [lastRefresh EXCEPT ![c.pipe] = {now}]
  /\ refreshed' = [refreshed EXCEPT ![c.pipe] = Append(@, now)]
  /\ signed' = signed \cup {c}
  /\ change' = [change EXCEPT ![q] = Idle]
  /\ UNCHANGED <<chain, pipes, call, accepted, anchored, immature, now>>

(* recordRefreshAt follows the fee lookup and the signatures. *)
BorrowSigned(q) ==
  LET c == change[q].change IN
  /\ change[q].op = "sign"
  /\ c.kind = "borrow"
  /\ lastRefresh' = [lastRefresh EXCEPT ![c.pipe] = {now}]
  /\ refreshed' = [refreshed EXCEPT ![c.pipe] = Append(@, now)]
  /\ signed' = signed \cup {c}
  /\ change' = [change EXCEPT ![q] = Idle]
  /\ UNCHANGED <<vars, immature, now>>

-----------------------------------------------------------------------------
(* A check that throws, a bad signature, an unreachable API. *)
ChangeFails(q) ==
  /\ change[q] # Idle
  /\ change' = [change EXCEPT ![q] = Idle]
  /\ UNCHANGED <<vars, lastRefresh, signed, immature, now, refreshed>>

(* The process dies with every request in it; reservoir_refreshes survives. *)
LRestart ==
  /\ Restart \/ (change # [q \in Request |-> Idle] /\ UNCHANGED vars)
  /\ call' = [h \in Handler |-> Idle]
  /\ change' = [q \in Request |-> Idle]
  /\ UNCHANGED <<lastRefresh, signed, immature, now, refreshed>>

(* External: StackFlow executes a signed change, once, if its nonce is above *)
(* the pipe's and its balances are the pipe's plus the amount paid in; what  *)
(* was paid in is a pending leg.                                             *)
Mine(c) ==
  /\ c \in signed
  /\ \E state \in chain[c.pipe] :
       /\ c.state.nonce > state.nonce
       /\ Total(c.state) = Total(state) + c.amount
  /\ chain' = [chain EXCEPT ![c.pipe] = {c.state}]
  /\ immature' = immature \cup {c.pipe}
  /\ UNCHANGED <<pipes, pendingStates, call, accepted, anchored,
                 change, lastRefresh, signed, now, refreshed>>

(* External: enough Bitcoin blocks pass. *)
Mature(p) ==
  /\ p \in immature
  /\ immature' = immature \ {p}
  /\ UNCHANGED <<vars, change, lastRefresh, signed, now, refreshed>>

Tick ==
  /\ now < MaxTime
  /\ now' = now + 1
  /\ UNCHANGED <<vars, change, lastRefresh, signed, immature, refreshed>>

ChangeLiquidity(q) ==
  \/ \E p \in Pipe, amount \in Amount : AddFunds(q, p, amount)
  \/ \E p \in Pipe : Borrow(q, p)
  \/ AddFundsChecked(q)
  \/ AddFundsSigned(q)
  \/ BorrowSigned(q)
  \/ ChangeFails(q)

LNext ==
  \/ \E h \in Handler : (Begin(h) \/ Continue(h)) /\ UNCHANGED lvars
  \/ \E payment \in accepted : RecordCompleted(payment) /\ UNCHANGED lvars
  \/ \E p \in Pipe, state \in Anchor : ChainMoves(p, state) /\ UNCHANGED lvars
  \/ \E q \in Request : ChangeLiquidity(q)
  \/ LRestart
  \/ \E c \in signed : Mine(c)
  \/ \E p \in Pipe : Mature(p)
  \/ Tick

LSpec == LInit /\ [][LNext]_allVars

-----------------------------------------------------------------------------
(***************************************************************************)
(* The cooldown is read before the awaits of createBorrowLiquidityParams   *)
(* and recorded after them, so requests that overlap pass it together.     *)
(* How far that goes is bounded: in any stretch of time shorter than the   *)
(* cooldown a borrower is signed at most as many refreshes as there can be *)
(* requests in progress, and so one only if requests come one at a time.   *)
(***************************************************************************)
RefreshOvershootBounded ==
  \A p \in Pipe : \A from \in 0..MaxTime :
    Cardinality({i \in DOMAIN refreshed[p] : refreshed[p][i] \in from..(from + Cooldown - 1)})
      <= Cardinality(Request)

-----------------------------------------------------------------------------
(* Statements of the repository that the code does not keep. *)

(* reservoir.test.ts:590: refresh signing is limited per borrower during the *)
(* cooldown window: two refreshes are never signed closer than the cooldown. *)
RefreshRateLimited ==
  \A p \in Pipe : \A i, j \in DOMAIN refreshed[p] :
    i < j => refreshed[p][j] >= refreshed[p][i] + Cooldown

(* reservoir.ts:410: settle the messages before changing liquidity.  When   *)
(* they are settled, the change the server signs keeps what they paid: its  *)
(* side is not below that of a completed payment the chain has not seen.    *)
AddFundsKeepsCompleted ==
  [][\A q \in Request :
       change[q].op = "snapshot" /\ change'[q].op = "sign" =>
         \A row \in pipes[change[q].pipe] :
           row.secret # {} /\ row.nonce > change[q].state.nonce
             => change'[q].change.state.srv >= row.srv]_change

(* payment-flow.md:153: borrowing improves receive power, not spendable     *)
(* balance: storing a mined refresh never raises what the user can spend.   *)
BorrowKeepsSpendable ==
  [][\A h \in Handler :
       SyncTapStored(h) /\ (\E c \in signed : c.kind = "borrow" /\ c.state = call[h].state) =>
         \A old \in getLatestPipeState(call[h].pipe) :
           \A new \in chooseLatestRow(pipes'[call[h].pipe], pendingStates'[call[h].pipe]) :
             new.cp <= old.cp]_allVars

(* payment-flow.md:255: the reservoir caps the borrowed liquidity it offers  *)
(* per tap, in the first loan of a tap as in a refresh.                      *)
BorrowCapHolds ==
  [][\A h \in Handler : OpenTapSigned(h) => call[h].state.srv <= BorrowCap]_allVars

(* payment-flow.md:157-158: add funds and borrow liquidity are both blocked *)
(* while there are outstanding optimistic states or an unmatured deposit.   *)
BothAreBlocked ==
  [][\A q \in Request, p \in Pipe :
       Borrow(q, p) => /\ p \notin immature
                       /\ \A row \in pipes[p] : assertNoOptimisticPendingStates(p, row.nonce)]_allVars
=============================================================================
