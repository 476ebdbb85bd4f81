------------------------------ MODULE TapClient -----------------------------
(***************************************************************************)
(* The user's end of a tap: the browser application (packages/web/src/     *)
(* main.ts) and the standalone SDK (scripts/mailslot-client.ts).           *)
(*                                                                         *)
(* The client keeps one view of its tap, pipeState, and signs payments on  *)
(* top of it.  It refreshes the view from the server, or from the chain if *)
(* the server gives no answer; it moves it on itself when a payment is     *)
(* confirmed.  Replies are lost and come late, tasks overlap, the server   *)
(* moves the tap when a message arrives or is cancelled, and what is added *)
(* on the chain reaches the server only through the client.                *)
(*                                                                         *)
(* A request is handled by the server in one step; what happens when its   *)
(* handlers interleave is the subject of Reservoir and Liquidity.  Hashes  *)
(* and signatures are left out: a row is its balances and its nonce.       *)
(***************************************************************************)
EXTENDS PipeRows

CONSTANTS
  Client,      \* "web" or "sdk"
  Reader,      \* tasks that refresh the view
  Sender,      \* tasks that send a message
  Changer,     \* tasks that add funds or borrow liquidity
  Price,       \* messagePriceSats
  Target,      \* messagePriceSats * receiveCapacityMultiplier
  Opening,     \* the balances a tap can be opened with
  Deposit,     \* the parts of an opening that can be pending when the client starts
  MaxNonce     \* bound on the nonces

Task == Reader \cup Sender \cup Changer

State == [srv : Nat, cp : Nat, nonce : 0..MaxNonce, hash : {{}}]

ASSUME ClientAssumption ==
  /\ Client \in {"web", "sdk"}
  /\ Price \in Nat \ {0} /\ Target \in Nat /\ MaxNonce \in Nat
  /\ Opening \subseteq State
  /\ Deposit \subseteq [srv : Nat, cp : Nat]

VARIABLES
  chain,        \* external: the pipe on the chain, pending deposits included
  leg,          \* external: the part of chain that has not matured
  pipes,        \* table reservoir_pipes, this tap's row
  pendingRows,  \* table reservoir_pending_states, this tap's rows
  pipeState,    \* the client's view
  task,         \* what each task of the client is waiting for
  late,         \* proofs that are on their way after the client gave up
  mempool,      \* liquidity changes broadcast and not mined
  paid,         \* the payments of the client's messages that are not claimed
  held          \* history: the states the tap has had, on the chain or tracked

vars == <<chain, leg, pipes, pendingRows, pipeState, task, late, mempool, paid, held>>

server == <<pipes, pendingRows, paid, held>>
external == <<chain, leg, mempool>>

Idle == [op |-> "idle"]

Change == [kind : {"add", "borrow"}, state : State, amount : Nat]

TaskState ==
       {Idle}
  \cup [op : {"resolve"}]
  \cup [op : {"resolved"}, tap : State]
  \cup [op : {"post"}, proof : State]
  \cup [op : {"reply"}, proof : State, ok : BOOLEAN]
  \cup [op : {"amount"}, amount : Nat]
  \cup [op : {"params", "approve", "confirm", "sync"}, change : Change]

TypeOK ==
  /\ chain \in State
  /\ leg \in [srv : Nat, cp : Nat]
  /\ pipes \subseteq State
  /\ pendingRows \subseteq State
  /\ pipeState \in State
  /\ task \in [Task -> TaskState]
  /\ late \subseteq State
  /\ mempool \subseteq Change
  /\ paid \subseteq State
  /\ held \subseteq State

NoLeg == [srv |-> 0, cp |-> 0]

(* What getTrackedTapState serves: the newest row of the tap. *)
getTrackedTapState == chooseLatestRow(pipes, pendingRows)

(* What the server takes a proof to be on top of. *)
Known == IF getTrackedTapState = {} THEN {chain} ELSE getTrackedTapState

(* queryOnChainTap of the browser adds pending legs, that of the SDK does not. *)
queryOnChainTap ==
  IF Client = "web" THEN chain
  ELSE [chain EXCEPT !.srv = @ - leg.srv, !.cp = @ - leg.cp]

(* Mutant of resolveTapState: the chain is asked first. *)
resolveTapState_ChainFirst == {queryOnChainTap}

(***************************************************************************)
(* What resolveTapState can return.  In the browser every failure of       *)
(* queryTrackedTapState, a 401 or a lost reply too, falls back to the      *)
(* chain; the SDK does so only if the server does not track the tap.       *)
(***************************************************************************)
resolveTapState ==
  IF getTrackedTapState = {} THEN {queryOnChainTap}
  ELSE getTrackedTapState \cup (IF Client = "web" THEN {queryOnChainTap} ELSE {})

Init ==
  /\ chain \in Opening
  /\ leg \in Deposit
  /\ pipes = {}
  /\ pendingRows = {}
  /\ pipeState = chain
  /\ task = [t \in Task |-> Idle]
  /\ late = {}
  /\ mempool = {}
  /\ paid = {}
  /\ held = {chain}

Wait(t, s) == task' = [task EXCEPT ![t] = s]
Done(t) == Wait(t, Idle)

Remember(onChain, row, rows) == held' = held \cup {onChain} \cup chooseLatestRow(row, rows)

-----------------------------------------------------------------------------
(* refreshCurrentTapState, checkTapAfterTx, fetchRecipientInfo, getTapState *)

Refresh(t) ==
  /\ task[t] = Idle
  /\ Wait(t, [op |-> "resolve"])
  /\ UNCHANGED <<server, external, pipeState, late>>

ReadFrom(t, taps) ==
  /\ task[t].op = "resolve"
  /\ \E tap \in taps : Wait(t, [op |-> "resolved", tap |-> tap])
  /\ UNCHANGED <<server, external, pipeState, late>>

(* The answer may be old by the time it is assigned. *)
Refreshed(t) ==
  /\ task[t].op = "resolved"
  /\ pipeState' = task[t].tap
  /\ Done(t)
  /\ UNCHANGED <<server, external, late>>

-----------------------------------------------------------------------------
(* sendMessage and the server's handleSend *)

Pay(tap) == [tap EXCEPT !.srv = @ + Price, !.cp = @ - Price, !.nonce = @ + 1]

(* Mutant of SendMessage: the balance of the view is not looked at. *)
SendMessage_Unfunded(t) ==
  /\ task[t] = Idle
  /\ pipeState.nonce < MaxNonce
  /\ Wait(t, [op |-> "post", proof |-> Pay(pipeState)])
  /\ UNCHANGED <<server, external, pipeState, late>>

(* The view is read after the encryption; then the wallet is asked to sign. *)
SendMessage(t) ==
  /\ task[t] = Idle
  /\ pipeState.cp >= Price
  /\ pipeState.nonce < MaxNonce
  /\ Wait(t, [op |-> "post", proof |-> Pay(pipeState)])
  /\ UNCHANGED <<server, external, pipeState, late>>

(* verifyIncomingPayment accepts it: one payment on top of what is known. *)
Extends(proof) ==
  \E known \in Known :
    /\ Total(proof) = Total(known)
    /\ proof.srv >= known.srv + Price
    /\ IF getTrackedTapState = {} THEN proof.nonce > known.nonce ELSE proof.nonce = known.nonce + 1

(* A payment is stored first; the body or a cap may be refused after that. *)
Store(proof, ok) ==
  /\ pendingRows' = upsertPendingState(pendingRows, proof)
  /\ paid' = IF ok THEN paid \cup {proof} ELSE paid
  /\ UNCHANGED pipes
  /\ Remember(chain, pipes, pendingRows')

SendStored(t) ==
  /\ task[t].op = "post"
  /\ Extends(task[t].proof)
  /\ \E ok \in BOOLEAN :
       /\ Store(task[t].proof, ok)
       /\ Wait(t, [op |-> "reply", proof |-> task[t].proof, ok |-> ok])
  /\ UNCHANGED <<external, pipeState, late>>

SendRefused(t) ==
  /\ task[t].op = "post"
  /\ ~ Extends(task[t].proof)
  /\ Wait(t, [op |-> "reply", proof |-> task[t].proof, ok |-> FALSE])
  /\ UNCHANGED <<server, external, pipeState, late>>

(* Mutant of Sent: the view moves on whatever the server has answered. *)
Sent_Always(t) ==
  /\ task[t].op = "reply"
  /\ pipeState' = task[t].proof
  /\ Done(t)
  /\ UNCHANGED <<server, external, late>>

(* Only a good reply moves the view on; a bad one does not refresh it either. *)
Sent(t) ==
  /\ task[t].op = "reply"
  /\ pipeState' = IF task[t].ok THEN task[t].proof ELSE pipeState
  /\ Done(t)
  /\ UNCHANGED <<server, external, late>>

(* apiFetch gives up after 20 s; the request may still reach the server. *)
SendTimesOut(t) ==
  /\ task[t].op \in {"post", "reply"}
  /\ late' = IF task[t].op = "post" THEN late \cup {task[t].proof} ELSE late
  /\ Done(t)
  /\ UNCHANGED <<server, external, pipeState>>

LateArrives(proof) ==
  /\ late' = late \ {proof}
  /\ IF Extends(proof) THEN \E ok \in BOOLEAN : Store(proof, ok) ELSE UNCHANGED server
  /\ UNCHANGED <<external, pipeState, task>>

-----------------------------------------------------------------------------
(* addFundsToTap, refreshReceiveCapacity and borrowMoreLiquidity *)

(* The browser builds on the chain, the SDK on what the server tracks. *)
AddFunds(t) ==
  /\ task[t] = Idle
  /\ \E tap \in IF Client = "web" THEN {queryOnChainTap} ELSE resolveTapState :
       /\ tap.nonce < MaxNonce
       /\ Wait(t, [op |-> "params", change |->
                     [kind |-> "add", amount |-> 1,
                      state |-> [tap EXCEPT !.cp = @ + 1, !.nonce = @ + 1]]])
  /\ UNCHANGED <<server, external, pipeState, late>>

(* getCapacityRefreshAmount of a first reading, in the browser of the view   *)
(* if there is no answer at all;                                             *)
FirstReading == resolveTapState \cup (IF Client = "web" THEN {pipeState} ELSE {})

RefreshCapacity(t) ==
  /\ task[t] = Idle
  /\ \E tap \in FirstReading :
       /\ tap.srv < Target
       /\ Wait(t, [op |-> "amount", amount |-> Target - tap.srv])
  /\ UNCHANGED <<server, external, pipeState, late>>

(* borrowMoreLiquidity reads the tap again and adds that amount. *)
BorrowMore(t) ==
  /\ task[t].op = "amount"
  /\ \E tap \in resolveTapState :
       /\ tap.nonce < MaxNonce
       /\ Wait(t, [op |-> "params", change |->
                     [kind |-> "borrow", amount |-> task[t].amount,
                      state |-> [tap EXCEPT !.srv = @ + task[t].amount, !.nonce = @ + 1]]])
  /\ UNCHANGED <<server, external, pipeState, late>>

(* What createAddFundsParams and createBorrowLiquidityParams sign. *)
Signs(change) ==
  \/ /\ change.kind = "add"
     /\ leg = NoLeg
     /\ \A row \in getLatestPendingPipeRow(pendingRows) : row.nonce <= chain.nonce
     /\ change.state = [chain EXCEPT !.cp = @ + change.amount, !.nonce = @ + 1]
  \/ /\ change.kind = "borrow"
     /\ \E latest \in getTrackedTapState :
          /\ latest.srv + change.amount = Target
          /\ change.state = [latest EXCEPT !.srv = Target, !.nonce = @ + 1]

ParamsSigned(t) ==
  /\ task[t].op = "params"
  /\ Signs(task[t].change)
  /\ Wait(t, [task[t] EXCEPT !.op = "approve"])
  /\ UNCHANGED <<server, external, pipeState, late>>

ParamsRefused(t) ==
  /\ task[t].op = "params"
  /\ ~ Signs(task[t].change)
  /\ Done(t)
  /\ UNCHANGED <<server, external, pipeState, late>>

Broadcast(t) ==
  /\ task[t].op = "approve"
  /\ mempool' = mempool \cup {task[t].change}
  /\ Wait(t, [task[t] EXCEPT !.op = "confirm"])
  /\ UNCHANGED <<server, chain, leg, pipeState, late>>

(* waitForStacksTx sees the transaction succeed. *)
Confirmed(t) ==
  /\ task[t].op = "confirm"
  /\ chain = task[t].change.state
  /\ Wait(t, [task[t] EXCEPT !.op = "sync"])
  /\ UNCHANGED <<server, external, pipeState, late>>

(* syncTapState stores the state if it is the chain's; then loadStatus. *)
Synced(t) ==
  /\ task[t].op = "sync"
  /\ chain = task[t].change.state
  /\ pipes' = {chain}
  /\ pendingRows' = deletePendingStatesAtOrBelowNonce(pendingRows, chain.nonce)
  /\ Wait(t, [op |-> "resolve"])
  /\ UNCHANGED <<paid, external, pipeState, late>>
  /\ Remember(chain, pipes', pendingRows')

(* The user refuses, waitForStacksTx gives up after 180 s, a request fails, *)
(* the page is closed: nothing is tried again.                              *)
ChangeAbandoned(t) ==
  /\ task[t].op \in {"amount", "params", "approve", "confirm", "sync"}
  /\ Done(t)
  /\ UNCHANGED <<server, external, pipeState, late>>

-----------------------------------------------------------------------------
(* The server forwards a message to this user, or refunds a cancelled one. *)
ServerPays ==
  /\ \E latest \in getTrackedTapState :
       /\ latest.srv >= Price
       /\ latest.nonce < MaxNonce
       /\ pendingRows' = upsertPendingState(pendingRows, NextTransfer(latest, Price, {}))
  /\ UNCHANGED <<pipes, paid, external, pipeState, task, late>>
  /\ Remember(chain, pipes, pendingRows')

(* A message this user has paid for is claimed. *)
MessageClaimed(proof) ==
  /\ pipes' = {proof}
  /\ pendingRows' = deletePendingStatesAtOrBelowNonce(pendingRows, proof.nonce)
  /\ paid' = paid \ {proof}
  /\ UNCHANGED <<external, pipeState, task, late>>
  /\ Remember(chain, pipes', pendingRows')

(* External: a broadcast change is mined, or will never be. *)
Mined(c) ==
  /\ mempool' = mempool \ {c}
  /\ \/ /\ c.state.nonce > chain.nonce
        /\ Total(c.state) = Total(chain) + c.amount
        /\ chain' = c.state
        /\ leg' = IF c.kind = "add" THEN [leg EXCEPT !.cp = @ + c.amount]
                                    ELSE [leg EXCEPT !.srv = @ + c.amount]
     \/ /\ c.state.nonce <= chain.nonce \/ Total(c.state) # Total(chain) + c.amount
        /\ UNCHANGED <<chain, leg>>
  /\ UNCHANGED <<pipes, pendingRows, paid, pipeState, task, late>>
  /\ Remember(chain', pipes, pendingRows)

(* External: the pending deposits mature. *)
Matured ==
  /\ leg # NoLeg
  /\ leg' = NoLeg
  /\ UNCHANGED <<server, chain, mempool, pipeState, task, late>>

Read(t) ==
  \/ ReadFrom(t, resolveTapState)
  \/ Refreshed(t)

Send(t) ==
  \/ SendMessage(t)
  \/ SendStored(t)
  \/ SendRefused(t)
  \/ Sent(t)
  \/ SendTimesOut(t)

ChangeTap(t) ==
  \/ AddFunds(t)
  \/ RefreshCapacity(t)
  \/ BorrowMore(t)
  \/ ParamsSigned(t)
  \/ ParamsRefused(t)
  \/ Broadcast(t)
  \/ Confirmed(t)
  \/ Synced(t)
  \/ ChangeAbandoned(t)
  \/ Read(t)

Next ==
  \/ \E t \in Reader : Refresh(t) \/ Read(t)
  \/ \E t \in Sender : Send(t)
  \/ \E t \in Changer : ChangeTap(t)
  \/ \E proof \in late : LateArrives(proof)
  \/ ServerPays
  \/ \E proof \in paid : MessageClaimed(proof)
  \/ \E c \in mempool : Mined(c)
  \/ Matured

Spec == Init /\ [][Next]_vars

(***************************************************************************)
(* Fairness.  The user keeps looking at the status or looking up           *)
(* recipients, which refreshes the view; the server answers again and      *)
(* again, which needs a proof or a token as InboxSession has it, so a user *)
(* who signs when the wallet asks; a task whose answer is there goes on;   *)
(* transactions are mined.  Nothing is assumed of messages arriving, of a  *)
(* send, or of the signatures of payments and changes of liquidity.        *)
(***************************************************************************)
Fairness ==
  /\ \A t \in Reader : /\ WF_vars(Refresh(t))
                       /\ SF_vars(ReadFrom(t, resolveTapState \cap getTrackedTapState))
                       /\ WF_vars(Read(t))
  /\ \A t \in Changer : /\ WF_vars(Read(t))
                        /\ WF_vars(Confirmed(t))
                        /\ WF_vars(Synced(t))
  /\ \A t \in Sender : WF_vars(SendStored(t) \/ SendRefused(t) \/ Sent(t))
  /\ WF_vars(\E c \in mempool : Mined(c))

FairSpec == Spec /\ Fairness

-----------------------------------------------------------------------------
(***************************************************************************)
(* However refreshes, sends, lost and late replies and liquidity changes   *)
(* overlap, the view of the browser is a state the tap has really had: old *)
(* perhaps, but one whose balances add up, so that what is signed on top   *)
(* of it is refused for its nonce or is a payment of the price.            *)
(***************************************************************************)
ViewWasHeld == pipeState \in held

(***************************************************************************)
(* A view that a lost reply, a refused send, a late answer or the server's *)
(* own moves have left behind does not stay behind: again and again it is  *)
(* the newest state the server tracks.                                     *)
(***************************************************************************)
ViewCatchesUp == []<>(getTrackedTapState # {} => pipeState \in getTrackedTapState)

-----------------------------------------------------------------------------
(* Statements of the repository that the code does not keep. *)

(* payment-flow.md:44: the starting balances are the confirmed plus the      *)
(* pending ones.  The fallback of the SDK (README.md:35) leaves pending out. *)
FallbackCountsPending ==
  \A t \in Task : task[t].op = "resolved" => task[t].tap \in held

(* README.md:36: the SDK can prepare add-funds actions.  When the tap rests, *)
(* nothing outstanding and nothing unmatured, they are not refused.          *)
RestingTapTakesFunds ==
  [][\A t \in Changer :
       ParamsRefused(t) /\ task[t].change.kind = "add" =>
         \/ leg # NoLeg
         \/ \E row \in pendingRows : row.nonce > chain.nonce
         \/ \A tap \in getTrackedTapState :
              task[t].change.state # [tap EXCEPT !.cp = @ + task[t].change.amount, !.nonce = @ + 1]]_vars

(* payment-flow.md:159: after the on-chain tx confirms, the browser syncs    *)
(* the new tap state back to the server.                                     *)
ConfirmedIsSynced ==
  \A t \in Changer :
    (task[t].op = "confirm" /\ chain = task[t].change.state)
      ~> (getTrackedTapState # {} /\ \A row \in getTrackedTapState : row.nonce >= chain.nonce)
=============================================================================
