------------------------------ MODULE Reservoir -----------------------------
(***************************************************************************)
(* ReservoirService (packages/server/src/reservoir.ts): the server's end   *)
(* of every StackFlow pipe.  Each method that awaits something is split at *)
(* the await: what it read before the await is kept in call[h], the local  *)
(* variables of the handler h that is running it, and other handlers run   *)
(* in between.  SQLite statements are synchronous, so the code between two *)
(* awaits is one step.                                                     *)
(*                                                                         *)
(* The callers are left free: any accepted payment may be forwarded,       *)
(* completed or cancelled at any time, so that what is shown here does not *)
(* depend on how app.ts uses the service.                                  *)
(***************************************************************************)
EXTENDS PipeRows, FiniteSets

CONSTANTS
  Pipe,         \* the pipes, one for each counterparty of the server
  Secret,       \* HTLC secrets; a hash is named by the secret it hides
  Handler,      \* requests that can be in progress at the same time
  Anchor,       \* the states on-chain operations can give to a pipe
  Setting,      \* the prices and fees that can be in force at different times
  MaxBalance,   \* bound on the balances in the proofs senders present
  MaxNonce,     \* bound on the nonce of any signed state
  MaxPayments   \* bound on the payments verified after which no more start

State == [srv : Nat, cp : Nat, nonce : Nat, hash : SUBSET Secret]

CheckpointRow == [srv : Nat, cp : Nat, nonce : Nat, hash : SUBSET Secret,
                  sSig : SUBSET State, cSig : SUBSET State, secret : SUBSET Secret]

(* Balances on the chain are natural numbers; no HTLC is open there. *)
OnChain == {s \in State : s.hash = {}}

ASSUME AnchorAssumption == Anchor \subseteq OnChain

(* messagePriceSats and minFeeSats; validateRuntimeSettings compares them. *)
ASSUME SettingAssumption == Setting \subseteq {s \in [price : Nat, fee : Nat] : s.fee <= s.price}

Fee == {s.fee : s \in Setting}

ASSUME BoundAssumption == MaxBalance \in Nat /\ MaxNonce \in Nat /\ MaxPayments \in Nat

VARIABLES
  chain,          \* external: what get-pipe returns for a pipe
  pipes,          \* table reservoir_pipes: the enforceable row of a pipe
  pendingStates,  \* table reservoir_pending_states: its optimistic rows
  call,           \* the method each handler is waiting in, with its locals
  accepted,       \* the payment proofs verifyIncomingPayment has accepted
  anchored        \* history: the on-chain and opening states a pipe has been tracked from

vars == <<chain, pipes, pendingStates, call, accepted, anchored>>

Proof == [srv : 0..MaxBalance, cp : 0..MaxBalance, nonce : 1..MaxNonce,
          hash : {{s} : s \in Secret}]

Payment == [pipe : Pipe, state : State, amount : Nat]

Idle == [op |-> "idle"]

(***************************************************************************)
(* Where a method can be waiting.  "lookup": for get-pipe; "verify": for   *)
(* sip018Verify; "forward", "refund", "reverse": for sip018Sign; "open":   *)
(* for the signatures and the borrow fee; "sync": for the burn height.     *)
(***************************************************************************)
Call ==
       {Idle}
  \cup [op : {"lookup"}, pipe : Pipe, state : State]
  \cup [op : {"verify"}, pipe : Pipe, state : State, amount : Nat]
  \cup [op : {"forward", "reverse"}, pipe : Pipe, state : State]
  \cup [op : {"open", "sync"}, pipe : Pipe, state : OnChain]
  \cup [op : {"refund"}, pipe : Pipe, state : State, amount : Nat, recipient : SUBSET Pipe]

TypeOK ==
  /\ chain \in [Pipe -> SUBSET OnChain]
  /\ pipes \in [Pipe -> SUBSET CheckpointRow]
  /\ pendingStates \in [Pipe -> SUBSET State]
  /\ call \in [Handler -> Call]
  /\ accepted \subseteq Payment
  /\ anchored \in [Pipe -> SUBSET OnChain]

(* getLatestPipeState, and getLatestPipeStateForPrincipals with one token. *)
getLatestPipeState(p) == chooseLatestRow(pipes[p], pendingStates[p])

Init ==
  /\ chain \in [Pipe -> {{}} \cup {{a} : a \in Anchor}]
  /\ pipes = [p \in Pipe |-> {}]
  /\ pendingStates = [p \in Pipe |-> {}]
  /\ call = [h \in Handler |-> Idle]
  /\ accepted = {}
  /\ anchored = [p \in Pipe |-> {}]

Return(h) == call' = [call EXCEPT ![h] = Idle]
Await(h, c) == call' = [call EXCEPT ![h] = c]

-----------------------------------------------------------------------------
(* verifyIncomingPayment *)

(* A proof that pays at least the price in force on top of a known state. *)
PaysOnTopOf(proof, known) ==
  /\ Total(proof) = Total(known)
  /\ proof.srv > known.srv
  /\ \E s \in Setting : proof.srv - known.srv >= s.price

(* The pipe is tracked: the proof must extend its latest row by one nonce. *)
VerifyTracked(h, p, proof) ==
  /\ call[h] = Idle
  /\ Cardinality(accepted) < MaxPayments
  /\ \E known \in getLatestPipeState(p) :
       /\ proof.nonce = known.nonce + 1
       /\ PaysOnTopOf(proof, known)
       /\ Await(h, [op |-> "verify", pipe |-> p, state |-> proof,
                    amount |-> proof.srv - known.srv])
  /\ UNCHANGED <<chain, pipes, pendingStates, accepted, anchored>>

(* The pipe is not tracked: the method asks the chain for it. *)
VerifyUntracked(h, p, proof) ==
  /\ call[h] = Idle
  /\ Cardinality(accepted) < MaxPayments
  /\ getLatestPipeState(p) = {}
  /\ Await(h, [op |-> "lookup", pipe |-> p, state |-> proof])
  /\ UNCHANGED <<chain, pipes, pendingStates, accepted, anchored>>

(* get-pipe answers; the first proof may have any nonce above the chain's. *)
VerifyLookedUp(h) ==
  /\ call[h].op = "lookup"
  /\ \E known \in chain[call[h].pipe] :
       /\ call[h].state.nonce > known.nonce
       /\ PaysOnTopOf(call[h].state, known)
       /\ Await(h, [op |-> "verify", pipe |-> call[h].pipe, state |-> call[h].state,
                    amount |-> call[h].state.srv - known.srv])
       /\ anchored' = [anchored EXCEPT ![call[h].pipe] = @ \cup {known}]
  /\ UNCHANGED <<chain, pipes, pendingStates, accepted>>

(* The sender's signature is good: the proof becomes an optimistic row. *)
VerifyAccepted(h) ==
  /\ call[h].op = "verify"
  /\ pendingStates' = [pendingStates EXCEPT ![call[h].pipe] =
                         upsertPendingState(@, call[h].state)]
  /\ accepted' = accepted \cup {[pipe |-> call[h].pipe, state |-> call[h].state,
                                 amount |-> call[h].amount]}
  /\ Return(h)
  /\ UNCHANGED <<chain, pipes, anchored>>

-----------------------------------------------------------------------------
(* createOutgoingPayment *)

(* Mutant of Forward: the server's balance is not compared with the amount. *)
Forward_Overdraws(h, payment, p) ==
  /\ call[h] = Idle
  /\ \E s \in Setting, latest \in getLatestPipeState(p) :
       /\ payment.amount > s.fee
       /\ latest.nonce < MaxNonce
       /\ Await(h, [op |-> "forward", pipe |-> p,
                    state |-> NextTransfer(latest, payment.amount - s.fee, payment.state.hash)])
  /\ UNCHANGED <<chain, pipes, pendingStates, accepted, anchored>>

(* The fee in force when the message is sent, or when it is activated. *)
Forward(h, payment, p) ==
  /\ call[h] = Idle
  /\ \E s \in Setting, latest \in getLatestPipeState(p) :
       /\ payment.amount > s.fee
       /\ latest.srv >= payment.amount - s.fee
       /\ latest.nonce < MaxNonce
       /\ Await(h, [op |-> "forward", pipe |-> p,
                    state |-> NextTransfer(latest, payment.amount - s.fee, payment.state.hash)])
  /\ UNCHANGED <<chain, pipes, pendingStates, accepted, anchored>>

(* Mutant of ForwardSigned: the transfer becomes the checkpoint of the pipe. *)
ForwardSigned_Enforceable(h) ==
  LET c == call[h] IN
  /\ c.op = "forward"
  /\ pipes' = [pipes EXCEPT ![c.pipe] = upsertPipe(@, Checkpoint(c.state, {c.state}, {}, {}))]
  /\ Return(h)
  /\ UNCHANGED <<chain, pendingStates, accepted, anchored>>

(* A signed transfer of the server is stored as an optimistic row. *)
ForwardSigned(h) ==
  /\ call[h].op = "forward"
  /\ pendingStates' = [pendingStates EXCEPT ![call[h].pipe] =
                         upsertPendingState(@, call[h].state)]
  /\ Return(h)
  /\ UNCHANGED <<chain, pipes, accepted, anchored>>

-----------------------------------------------------------------------------
(* recordCompletedIncomingPayment *)

RecordCompleted(payment) ==
  LET p == payment.pipe IN
  /\ pipes' = [pipes EXCEPT ![p] =
                 upsertPipe(@, Checkpoint(payment.state, {}, {payment.state},
                                          payment.state.hash))]
  /\ pendingStates' = [pendingStates EXCEPT ![p] =
                         deletePendingStatesAtOrBelowNonce(@, payment.state.nonce)]
  /\ UNCHANGED <<chain, call, accepted, anchored>>

-----------------------------------------------------------------------------
(* cancelMessage *)

(* The fee, stored with the message, can be all that was paid for it: then *)
(* the method returns at once, with nothing read and nothing signed.       *)
NothingToRefund(payment, fee) == payment.amount <= fee

(* The refund of the sender, on top of the latest row of the sender's pipe, *)
(* is the amount less the fee in force when the message was sent.           *)
Cancel(h, payment, fee, recipient) ==
  /\ call[h] = Idle
  /\ ~ NothingToRefund(payment, fee)
  /\ \E latest \in getLatestPipeState(payment.pipe) :
       LET refund == payment.amount - fee IN
       /\ latest.srv >= refund
       /\ latest.nonce < MaxNonce
       /\ Await(h, [op |-> "refund", pipe |-> payment.pipe, amount |-> refund,
                    recipient |-> recipient, state |-> NextTransfer(latest, refund, {})])
  /\ UNCHANGED <<chain, pipes, pendingStates, accepted, anchored>>

(* The latest row of the recipient's pipe from which the refund is taken back. *)
Reversible(p, refund) == {latest \in chooseLatestRow(pipes[p], pendingStates'[p]) :
                            latest.cp >= refund /\ latest.nonce < MaxNonce}

(* The refund is stored; then the forward is reversed, if there was one and  *)
(* the recipient still has the money, or else the method has failed half-way. *)
CancelRefunded(h) ==
  LET c == call[h] IN
  /\ c.op = "refund"
  /\ pendingStates' = [pendingStates EXCEPT ![c.pipe] = upsertPendingState(@, c.state)]
  /\ \/ /\ c.recipient = {}
        /\ Return(h)
     \/ \E r \in c.recipient :
          \/ /\ Reversible(r, c.amount) = {}
             /\ Return(h)
          \/ \E latest \in Reversible(r, c.amount) :
               Await(h, [op |-> "reverse", pipe |-> r,
                         state |-> NextTransfer(latest, 0 - c.amount, {})])
  /\ UNCHANGED <<chain, pipes, accepted, anchored>>

CancelReversed(h) ==
  /\ call[h].op = "reverse"
  /\ pendingStates' = [pendingStates EXCEPT ![call[h].pipe] =
                         upsertPendingState(@, call[h].state)]
  /\ Return(h)
  /\ UNCHANGED <<chain, pipes, accepted, anchored>>

-----------------------------------------------------------------------------
(* createTapWithBorrowedLiquidityParams and syncTapState *)

(* The borrower signs a first state, for a tap that may not be on the chain *)
(* yet: balances, and a nonce above the tap's own, are the borrower's.      *)
OpenTap(h, p, state) ==
  /\ call[h] = Idle
  /\ state.srv > 0 /\ state.cp > 0 /\ state.nonce > 0
  /\ Await(h, [op |-> "open", pipe |-> p, state |-> state])
  /\ UNCHANGED <<chain, pipes, pendingStates, accepted, anchored>>

OpenTapSigned(h) ==
  LET c == call[h] IN
  /\ c.op = "open"
  /\ pipes' = [pipes EXCEPT ![c.pipe] =
                 upsertPipe(@, Checkpoint(c.state, {c.state}, {c.state}, {}))]
  /\ anchored' = [anchored EXCEPT ![c.pipe] = @ \cup {c.state}]
  /\ Return(h)
  /\ UNCHANGED <<chain, pendingStates, accepted>>

(* The caller's state equals what get-pipe returned; the burn height follows. *)
SyncTap(h, p) ==
  /\ call[h] = Idle
  /\ \E state \in chain[p] :
       Await(h, [op |-> "sync", pipe |-> p, state |-> state])
  /\ UNCHANGED <<chain, pipes, pendingStates, accepted, anchored>>

(* The browser sends the two signatures along if it still has them. *)
SyncTapStored(h) ==
  LET c == call[h] IN
  /\ c.op = "sync"
  /\ \E sigs \in {{}, {c.state}} :
       pipes' = [pipes EXCEPT ![c.pipe] =
                   upsertPipe(@, Checkpoint(c.state, sigs, sigs, {}))]
  /\ pendingStates' = [pendingStates EXCEPT ![c.pipe] =
                         deletePendingStatesAtOrBelowNonce(@, c.state.nonce)]
  /\ anchored' = [anchored EXCEPT ![c.pipe] = @ \cup {c.state}]
  /\ Return(h)
  /\ UNCHANGED <<chain, accepted>>

-----------------------------------------------------------------------------
(* A ReservoirError, a bad signature, an unreachable API or a signing error. *)
Fail(h) ==
  /\ call[h] # Idle
  /\ Return(h)
  /\ UNCHANGED <<chain, pipes, pendingStates, accepted, anchored>>

(* The process dies; the tables survive and initTables leaves them alone. *)
Restart ==
  /\ call # [h \in Handler |-> Idle]
  /\ call' = [h \in Handler |-> Idle]
  /\ UNCHANGED <<chain, pipes, pendingStates, accepted, anchored>>

(* External: a transaction on the pipe is mined. *)
ChainMoves(p, state) ==
  /\ \A old \in chain[p] : state.nonce > old.nonce
  /\ chain' = [chain EXCEPT ![p] = {state}]
  /\ UNCHANGED <<pipes, pendingStates, call, accepted, anchored>>

Continue(h) ==
  \/ VerifyLookedUp(h)
  \/ VerifyAccepted(h)
  \/ ForwardSigned(h)
  \/ CancelRefunded(h)
  \/ CancelReversed(h)
  \/ OpenTapSigned(h)
  \/ SyncTapStored(h)
  \/ Fail(h)

Begin(h) ==
  \/ \E p \in Pipe : \E proof \in Proof : VerifyTracked(h, p, proof)
  \/ \E p \in Pipe : \E proof \in Proof : VerifyUntracked(h, p, proof)
  \/ \E payment \in accepted, p \in Pipe : Forward(h, payment, p)
  \/ \E payment \in accepted, fee \in Fee, recipient \in {{}} \cup {{p} : p \in Pipe} :
       Cancel(h, payment, fee, recipient)
  \/ \E p \in Pipe, state \in Anchor : OpenTap(h, p, state)
  \/ \E p \in Pipe : SyncTap(h, p)

Next ==
  \/ \E h \in Handler : Begin(h) \/ Continue(h)
  \/ \E payment \in accepted : RecordCompleted(payment)
  \/ Restart
  \/ \E p \in Pipe, state \in Anchor : ChainMoves(p, state)

Spec == Init /\ [][Next]_vars

-----------------------------------------------------------------------------
Totals(states) == {Total(s) : s \in states}

(***************************************************************************)
(* Payments, forwards, refunds and reversals move money between the two    *)
(* sides of a pipe and never create or destroy any: whatever the handlers  *)
(* interleave, every row of either table adds up to a total the pipe has   *)
(* been given: one seen on the chain, or that of an opening both parties   *)
(* signed (payment-flow.md, Required Invariants: the total is preserved).  *)
(***************************************************************************)
TotalsConserved ==
  \A p \in Pipe : \A row \in pipes[p] \cup pendingStates[p] : Total(row) \in Totals(anchored[p])

(***************************************************************************)
(* The checkpoint of a pipe is final: its balances and nonce are those of  *)
(* an accepted incoming proof, of an on-chain state or of a signed opening *)
(* and never those of an outgoing HTLC, a refund or a reversal, which only *)
(* the optimistic table may hold (payment-flow.md, Enforceable vs          *)
(* Optimistic State).                                                      *)
(***************************************************************************)
CheckpointIsFinal ==
  \A p \in Pipe : \A row \in pipes[p] :
    \E s \in anchored[p] \cup {a.state : a \in {b \in accepted : b.pipe = p}} :
      s.srv = row.srv /\ s.cp = row.cp /\ s.nonce = row.nonce

(***************************************************************************)
(* The metadata of a checkpoint is merged column by column with what was   *)
(* stored before, yet the revealed secret of a row always opens its hash.  *)
(***************************************************************************)
SecretOpensCheckpoint ==
  \A p \in Pipe : \A row \in pipes[p] : row.secret # {} => row.secret = row.hash

(***************************************************************************)
(* A step may drop an optimistic row whose nonce SQLite can represent only *)
(* if it leaves another row at the same nonce, or a checkpoint at that     *)
(* nonce or above: an HTLC that is still open above the checkpoint is      *)
(* never forgotten by a claim, whatever nonces other rows of the pipe have *)
(* and however the cast to INTEGER orders those.                           *)
(***************************************************************************)
Covered(p, row) ==
  \/ \E q \in pendingStates'[p] : q.nonce = row.nonce
  \/ \E q \in pipes'[p] : q.nonce >= row.nonce

DropsOnlyCovered ==
  \A p \in Pipe : \A row \in pendingStates[p] \ pendingStates'[p] :
    row.nonce <= MaxInteger => Covered(p, row)

OptimisticRowsCovered == [][DropsOnlyCovered]_vars

-----------------------------------------------------------------------------
(* Five statements of docs/payment-flow.md that the code does not keep. *)

(***************************************************************************)
(* payment-flow.md:261: the latest optimistic state is the newest proof    *)
(* the server has accepted, so the claim of an older one does not drop it. *)
(* The nonce of a first payment has no upper bound, and above MaxInteger   *)
(* the cast makes nonces equal: a claim drops rows above the checkpoint.   *)
(***************************************************************************)
ClaimKeepsLaterRows ==
  [][\A p \in Pipe : \A row \in pendingStates[p] \ pendingStates'[p] : Covered(p, row)]_vars

(***************************************************************************)
(* payment-flow.md:262: the checkpoint is the newest completed incoming    *)
(* transfer, so completing a payment never lowers its nonce.               *)
(***************************************************************************)
CheckpointIsNewest ==
  [][\A p \in Pipe : \A old \in pipes[p], new \in pipes'[p] :
       (\E a \in accepted : new.cSig = {a.state} /\ a.state.nonce = new.nonce)
         => new.nonce >= old.nonce]_pipes

(***************************************************************************)
(* payment-flow.md:36: the nonce of an accepted proof is newer than the    *)
(* last tracked state of its pipe.                                         *)
(***************************************************************************)
AcceptedIsNewer ==
  [][\A a \in accepted' \ accepted : \A row \in getLatestPipeState(a.pipe) :
       a.state.nonce > row.nonce]_accepted

(***************************************************************************)
(* payment-flow.md:292: after a claim the server can fall back to its last *)
(* fully signed incoming state in a dispute.  submitDisputeForCounterparty *)
(* submits the checkpoint with its two stored signatures, so both must be  *)
(* signatures of that state.                                               *)
(***************************************************************************)
submitDisputeForCounterparty(p) ==
  {row \in pipes[p] : row.sSig = {StateOf(row)} /\ row.cSig = {StateOf(row)}}

CompletedIsDisputable ==
  \A p \in Pipe : \A row \in pipes[p] :
    row.secret # {} => row \in submitDisputeForCounterparty(p)

(***************************************************************************)
(* payment-flow.md:118: the signed proof of an outgoing transfer is kept   *)
(* for a dispute, so no later row takes the place of one with an open HTLC. *)
(***************************************************************************)
Outgoing(p) == {row \in pendingStates[p] : row.hash # {} /\ \A a \in accepted : a.state # row}

OutgoingProofsKept ==
  [][\A p \in Pipe : \A row \in Outgoing(p), other \in pendingStates'[p] :
       other.nonce = row.nonce => other = row]_pendingStates
=============================================================================
