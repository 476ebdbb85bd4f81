----------------------------- MODULE TapOpening -----------------------------
(***************************************************************************)
(* How a user gets a mailbox in the browser: the pages that setAppState    *)
(* switches between, and the opening of a tap with borrowed liquidity      *)
(* (packages/web/src/main.ts), which the server signs and tracks at once   *)
(* (createTapWithBorrowedLiquidityParams) and the chain executes later, or *)
(* never.                                                                  *)
(*                                                                         *)
(* A tap is its nonce: what an opening signs has OpenNonce, and every      *)
(* payment that completes afterwards goes one higher.  The functions of    *)
(* the page are not cancelled when the wallet is disconnected; each reads  *)
(* walletAddress again after its awaits.  A function that awaits another   *)
(* one is two tasks here.                                                  *)
(***************************************************************************)
EXTENDS Naturals, FiniteSets

CONSTANTS
  Wallet,   \* the addresses the user can connect
  Task,     \* functions of the page that can be waiting at the same time
  MaxNonce  \* bound on the nonces

OpenNonce == 1

ASSUME NonceAssumption == MaxNonce \in Nat /\ MaxNonce >= OpenNonce

VARIABLES
  wallet,    \* walletAddress, a set with at most one member
  page,      \* the panel that is shown
  pipeState, \* the tap the page works with, and whose it is
  disabled,  \* the buttons that are disabled
  task,      \* what each function of the page is waiting for
  tracked,   \* the server's row for each tap: a set with at most one nonce
  chain,     \* external: each tap on the chain
  mempool    \* external: openings that are broadcast and not mined

vars == <<wallet, page, pipeState, disabled, task, tracked, chain, mempool>>
browser == <<wallet, page, pipeState, disabled, task>>
world == <<tracked, chain, mempool>>

Page == {"no-wallet", "checking", "no-tap", "tx-pending", "ready"}

Tap == SUBSET (OpenNonce..MaxNonce)

Button == {"connect", "open", "check"}

Idle == [op |-> "idle"]

(* connectWallet waits for the wallet ("prompt"), for the server's settings  *)
(* before ("greet") and after the panel changes ("checking").                *)
Call == [op : {"idle", "prompt", "greet", "checking", "status"}]

(* A query is made for an address, by the connection of a wallet, by the     *)
(* check button or by loadStatus; an opening is signed by an address.        *)
Query == [op : {"query"}, addr : Wallet, for : {"connect", "check", "status"}]
Answer == [op : {"answer"}, addr : Wallet, for : {"connect", "check", "status"}, tap : Tap]
Opening == [op : {"sign", "reply", "approve"}, signer : Wallet]
Post == [op : {"post"}, signer : Wallet, borrower : Wallet]

TypeOK ==
  /\ wallet \subseteq Wallet /\ Cardinality(wallet) <= 1
  /\ page \in Page
  /\ pipeState \subseteq [addr : Wallet, nonce : OpenNonce..MaxNonce]
  /\ Cardinality(pipeState) <= 1
  /\ disabled \subseteq Button
  /\ task \in [Task -> Call \cup Query \cup Answer \cup Opening \cup Post]
  /\ tracked \in [Wallet -> Tap] /\ \A w \in Wallet : Cardinality(tracked[w]) <= 1
  /\ chain \in [Wallet -> Tap] /\ \A w \in Wallet : Cardinality(chain[w]) <= 1
  /\ mempool \subseteq Wallet

Init ==
  /\ wallet = {} /\ page = "no-wallet" /\ pipeState = {} /\ disabled = {}
  /\ task = [t \in Task |-> Idle]
  /\ tracked = [w \in Wallet |-> {}]
  /\ chain \in [Wallet -> {{}, {OpenNonce}}]
  /\ mempool = {}

Goto(t, s) == task' = [task EXCEPT ![t] = s]

-----------------------------------------------------------------------------
(* connectWallet with onWalletConnected, disconnectWallet *)

(* The buttons are disabled before the wallet is asked for its addresses. *)
Connect(t) ==
  /\ wallet = {} /\ "connect" \notin disabled /\ task[t] = Idle
  /\ disabled' = disabled \cup {"connect"}
  /\ Goto(t, [op |-> "prompt"])
  /\ UNCHANGED <<wallet, page, pipeState, world>>

(* Only a failure enables them again. *)
ConnectFails(t) ==
  /\ task[t].op = "prompt"
  /\ disabled' = disabled \ {"connect"}
  /\ Goto(t, Idle)
  /\ UNCHANGED <<wallet, page, pipeState, world>>

(* The address is kept; the panel does not change yet. *)
Connected(t, w) ==
  /\ task[t].op = "prompt"
  /\ wallet' = {w}
  /\ Goto(t, [op |-> "greet"])
  /\ UNCHANGED <<page, pipeState, disabled, world>>

Greeted(t) ==
  /\ task[t].op = "greet"
  /\ page' = "checking"
  /\ Goto(t, [op |-> "checking"])
  /\ UNCHANGED <<wallet, pipeState, disabled, world>>

(* The tap of whoever is connected by now is asked for; nobody has none. *)
Checking(t) ==
  /\ task[t].op = "checking"
  /\ \/ \E w \in wallet : Goto(t, [op |-> "query", addr |-> w, for |-> "connect"]) /\ UNCHANGED page
     \/ wallet = {} /\ Goto(t, Idle) /\ page' = "no-tap"
  /\ UNCHANGED <<wallet, pipeState, disabled, world>>

(* Mutant of Disconnect: the buttons to connect are enabled again. *)
Disconnect_Reenables ==
  /\ wallet # {}
  /\ wallet' = {} /\ page' = "no-wallet" /\ pipeState' = {}
  /\ disabled' = disabled \ {"connect"}
  /\ UNCHANGED <<task, world>>

(* What is in progress is not cancelled, and the buttons stay as they are. *)
Disconnect ==
  /\ wallet # {}
  /\ wallet' = {} /\ page' = "no-wallet" /\ pipeState' = {}
  /\ UNCHANGED <<disabled, task, world>>

(* The user loads the page again. *)
Reload ==
  /\ wallet' = {} /\ page' = "no-wallet" /\ pipeState' = {} /\ disabled' = {}
  /\ task' = [t \in Task |-> Idle]
  /\ UNCHANGED world

-----------------------------------------------------------------------------
(* resolveTapState: the server's row, or the chain if the server gives none  *)
(* or is not asked because the wallet has changed; no answer is no tap.      *)
resolveTapState(w) ==
  (IF wallet = {w} THEN {tracked[w]} ELSE {}) \cup {chain[w], {}}

Resolved(t) ==
  /\ task[t].op = "query"
  /\ \E tap \in resolveTapState(task[t].addr) :
       Goto(t, [op |-> "answer", addr |-> task[t].addr, for |-> task[t].for, tap |-> tap])
  /\ UNCHANGED <<wallet, page, pipeState, disabled, world>>

Shows(c) == {[addr |-> c.addr, nonce |-> n] : n \in c.tap}

(* onWalletConnected, checkTapAfterTx and refreshCurrentTapState have it;    *)
(* the first two then call loadStatus.                                       *)
Found(t) ==
  /\ task[t].op = "answer"
  /\ task[t].tap # {}
  /\ pipeState' = Shows(task[t])
  /\ IF task[t].for = "status"
     THEN UNCHANGED page /\ Goto(t, Idle)
     ELSE page' = "ready" /\ Goto(t, [op |-> "status"])
  /\ UNCHANGED <<wallet, disabled, world>>

(* Mutant of NotFound: the button stays disabled. *)
NotFound_StaysDisabled(t) ==
  /\ task[t].op = "answer"
  /\ task[t].tap = {}
  /\ page' = IF task[t].for = "connect" THEN "no-tap" ELSE page
  /\ Goto(t, Idle)
  /\ UNCHANGED <<wallet, pipeState, disabled, world>>

NotFound(t) ==
  /\ task[t].op = "answer"
  /\ task[t].tap = {}
  /\ page' = IF task[t].for = "connect" THEN "no-tap" ELSE page
  /\ disabled' = IF task[t].for = "check" THEN disabled \ {"check"} ELSE disabled
  /\ Goto(t, Idle)
  /\ UNCHANGED <<wallet, pipeState, world>>

(* loadStatus is called by a button of the tap's panel, and by any function  *)
(* of the page that needs settings of the server it does not have.           *)
Load(t) ==
  /\ task[t] = Idle
  /\ page = "ready" \/ \E u \in Task : task[u].op \notin {"idle", "prompt"}
  /\ Goto(t, [op |-> "status"])
  /\ UNCHANGED <<wallet, page, pipeState, disabled, world>>

(* /status has answered, or not. *)
loadStatus(t) ==
  /\ task[t].op = "status"
  /\ \/ Goto(t, Idle)
     \/ \E w \in wallet : Goto(t, [op |-> "query", addr |-> w, for |-> "status"])
  /\ UNCHANGED <<wallet, page, pipeState, disabled, world>>

(* checkTapAfterTx: only a failure enables the button again.  It fails at     *)
(* once if no wallet is connected.                                           *)
Check(t) ==
  /\ page = "tx-pending" /\ "check" \notin disabled /\ task[t] = Idle
  /\ disabled' = disabled \cup {"check"}
  /\ \E w \in wallet : Goto(t, [op |-> "query", addr |-> w, for |-> "check"])
  /\ UNCHANGED <<wallet, page, pipeState, world>>

-----------------------------------------------------------------------------
(* openMailbox *)

Open(t) ==
  /\ page = "no-tap" /\ "open" \notin disabled /\ task[t] = Idle
  /\ disabled' = disabled \cup {"open"}
  /\ \E w \in wallet : Goto(t, [op |-> "sign", signer |-> w])
  /\ UNCHANGED <<wallet, page, pipeState, world>>

(* The request names whoever is connected when the signature is there. *)
Signed(t) ==
  /\ task[t].op = "sign"
  /\ \E w \in wallet : Goto(t, [op |-> "post", signer |-> task[t].signer, borrower |-> w])
  /\ UNCHANGED <<wallet, page, pipeState, disabled, world>>

(* Mutant of OpeningSigned: the row is inserted beside the one that is there. *)
OpeningSigned_Inserts(t) ==
  /\ task[t].op = "post"
  /\ task[t].borrower = task[t].signer
  /\ tracked' = [tracked EXCEPT ![task[t].signer] = @ \cup {OpenNonce}]
  /\ Goto(t, [op |-> "reply", signer |-> task[t].signer])
  /\ UNCHANGED <<wallet, page, pipeState, disabled, chain, mempool>>

(* createTapWithBorrowedLiquidityParams replaces the row of the tap. *)
OpeningSigned(t) ==
  /\ task[t].op = "post"
  /\ task[t].borrower = task[t].signer
  /\ tracked' = [tracked EXCEPT ![task[t].signer] = {OpenNonce}]
  /\ Goto(t, [op |-> "reply", signer |-> task[t].signer])
  /\ UNCHANGED <<wallet, page, pipeState, disabled, chain, mempool>>

(* The post-conditions name the connected wallet; with none they throw. *)
Prepared(t) ==
  /\ task[t].op = "reply"
  /\ wallet # {}
  /\ Goto(t, [op |-> "approve", signer |-> task[t].signer])
  /\ UNCHANGED <<wallet, page, pipeState, disabled, world>>

(* The transaction is broadcast; the page shows it, whoever is connected.    *)
Approved(t) ==
  /\ task[t].op = "approve"
  /\ mempool' = mempool \cup {task[t].signer}
  /\ page' = "tx-pending"
  /\ Goto(t, Idle)
  /\ UNCHANGED <<wallet, pipeState, disabled, tracked, chain>>

(* The user refuses, a prompt or a request times out, the server refuses. *)
OpenFails(t) ==
  /\ task[t].op \in {"sign", "post", "reply", "approve"}
  /\ disabled' = disabled \ {"open"}
  /\ Goto(t, Idle)
  /\ UNCHANGED <<wallet, page, pipeState, world>>

-----------------------------------------------------------------------------
(* External: an opening is executed unless there is a tap, or is dropped. *)
Mined(w) ==
  /\ mempool' = mempool \ {w}
  /\ \/ chain' = [chain EXCEPT ![w] = IF @ = {} THEN {OpenNonce} ELSE @]
     \/ UNCHANGED chain
  /\ UNCHANGED <<tracked, browser>>

(* A payment over the tap is completed (recordCompletedIncomingPayment). *)
Paid(w) ==
  /\ \E n \in IF tracked[w] # {} THEN tracked[w] ELSE chain[w] :
       /\ n < MaxNonce
       /\ tracked' = [tracked EXCEPT ![w] = {n + 1}]
  /\ UNCHANGED <<chain, mempool, browser>>

Step(t) ==
  \/ Connect(t)
  \/ ConnectFails(t)
  \/ \E w \in Wallet : Connected(t, w)
  \/ Greeted(t)
  \/ Checking(t)
  \/ Resolved(t)
  \/ Found(t)
  \/ NotFound(t)
  \/ Load(t)
  \/ loadStatus(t)
  \/ Check(t)
  \/ Open(t)
  \/ Signed(t)
  \/ OpeningSigned(t)
  \/ Prepared(t)
  \/ Approved(t)
  \/ OpenFails(t)

Next ==
  \/ \E t \in Task : Step(t)
  \/ Disconnect
  \/ Reload
  \/ \E w \in Wallet : Paid(w)
  \/ \E w \in mempool : Mined(w)

Spec == Init /\ [][Next]_vars

(***************************************************************************)
(* Fairness.  A user who has opened a mailbox keeps pressing the check     *)
(* button (strongly: Task bounds the functions that can wait, the page     *)
(* does not), every query ends, the answer to a check that there is a tap  *)
(* is not lost for ever, and a function whose answer is there goes on.     *)
(***************************************************************************)
Fairness ==
  /\ SF_vars(\E t \in Task : Check(t))
  /\ \A t \in Task :
       /\ WF_vars(Resolved(t) \/ Found(t) \/ NotFound(t) \/ loadStatus(t))
       /\ SF_vars(Resolved(t) /\ task[t].for = "check" /\ task'[t].tap # {})
       /\ WF_vars(OpenFails(t))

FairSpec == Spec /\ Fairness

-----------------------------------------------------------------------------
(***************************************************************************)
(* Whatever overlaps and fails, the panel of a tap is shown to a connected *)
(* wallet only for a tap of its own, which is tracked or on the chain.     *)
(* Answers that were asked for before the wallet was disconnected still    *)
(* come and still change the panel: no other wallet can be connected by    *)
(* then, for the buttons stay disabled until the page is loaded again.     *)
(***************************************************************************)
ReadyShowsOwnTap ==
  page = "ready" =>
    \A w \in wallet : /\ \E tap \in pipeState : tap.addr = w
                      /\ tracked[w] \cup chain[w] # {}

(***************************************************************************)
(* A user who has broadcast an opening and goes on checking gets to the    *)
(* mailbox: no answer that is lost, and no state of the buttons, leaves    *)
(* the page waiting for a tap that is there.                               *)
(***************************************************************************)
PendingBecomesReady ==
  \A w \in Wallet :
    (page = "tx-pending" /\ wallet = {w} /\ chain[w] # {})
      ~> (page = "ready" \/ wallet # {w})

-----------------------------------------------------------------------------
(* Two statements of the repository that the code does not keep. *)

(* README.md:49: the page verifies that the tap exists on the chain. *)
ReadyTapExists ==
  page = "ready" => \A w \in wallet : chain[w] # {}

(* payment-flow.md:262: the newest completed incoming transfer is retained;  *)
(* a user whom a lost answer has led to open a tap again does not undo it.   *)
OpeningKeepsCheckpoint ==
  [][\A w \in Wallet : \A old \in tracked[w] : \A new \in tracked'[w] : new >= old]_vars
=============================================================================
