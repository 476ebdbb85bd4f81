--------------------------- MODULE ReservoirProofs --------------------------
(***************************************************************************)
(* Proofs about Reservoir, for any number of pipes, handlers and secrets   *)
(* and any prices and balances.                                            *)
(***************************************************************************)
EXTENDS Reservoir, TLAPS

-----------------------------------------------------------------------------
(* What the statements of PipeRows return. *)

(* A row that chooseLatestRow can return is in one of the two tables. *)
LEMMA NewestIsStored ==
  ASSUME NEW E \in SUBSET CheckpointRow, NEW Q \in SUBSET State,
         NEW row \in chooseLatestRow(E, Q)
  PROVE  /\ row \in State
         /\ \E r \in E \cup Q : Total(r) = Total(row)
<1>1. row \in {StateOf(e) : e \in E} \cup Q
  BY DEF chooseLatestRow, getLatestPendingPipeRow, Newest
<1>2. CASE row \in Q
  BY <1>2
<1>3. CASE row \in {StateOf(e) : e \in E}
  <2>1. PICK e \in E : row = StateOf(e)
    BY <1>3
  <2>2. row \in State /\ Total(e) = Total(row)
    BY <2>1 DEF StateOf, State, CheckpointRow, Total
  <2> QED
    BY <2>1, <2>2
<1> QED
  BY <1>1, <1>2, <1>3

(* A transfer between the sides keeps the total; it is a state if it is covered. *)
LEMMA TransferConserves ==
  ASSUME NEW row \in State, NEW amount \in Int, NEW hash \in SUBSET Secret,
         amount <= row.srv, 0 - amount <= row.cp
  PROVE  /\ NextTransfer(row, amount, hash) \in State
         /\ Total(NextTransfer(row, amount, hash)) = Total(row)
BY DEF NextTransfer, State, Total

LEMMA CheckpointType ==
  ASSUME NEW state \in State, NEW s \in SUBSET State, NEW c \in SUBSET State,
         NEW secret \in SUBSET Secret
  PROVE  /\ Checkpoint(state, s, c, secret) \in CheckpointRow
         /\ Checkpoint(state, s, c, secret).srv = state.srv
         /\ Checkpoint(state, s, c, secret).cp = state.cp
         /\ Checkpoint(state, s, c, secret).nonce = state.nonce
         /\ Checkpoint(state, s, c, secret).hash = state.hash
         /\ Checkpoint(state, s, c, secret).secret = secret
BY DEF Checkpoint, State, CheckpointRow

(* An upsert stores the balances and the nonce given, whatever it merges;  *)
(* a secret and its hash are either both new or both the stored ones.      *)
LEMMA UpsertPipe ==
  ASSUME NEW stored \in SUBSET CheckpointRow, NEW row \in CheckpointRow,
         NEW new \in upsertPipe(stored, row)
  PROVE  /\ new \in CheckpointRow
         /\ new.srv = row.srv /\ new.cp = row.cp /\ new.nonce = row.nonce
         /\ \/ new.hash = row.hash /\ new.secret = row.secret
            \/ \E old \in stored :
                 /\ new.hash = Coalesce(row.hash, old.hash)
                 /\ new.secret = Coalesce(row.secret, old.secret)
<1>1. CASE stored = {}
  BY <1>1 DEF upsertPipe
<1>2. CASE stored # {}
  <2>1. PICK old \in stored :
          new = [row EXCEPT !.hash   = Coalesce(@, old.hash),
                            !.sSig   = Coalesce(@, old.sSig),
                            !.cSig   = Coalesce(@, old.cSig),
                            !.secret = Coalesce(@, old.secret)]
    BY <1>2 DEF upsertPipe
  <2>2. old \in CheckpointRow
    OBVIOUS
  <2> QED
    BY <2>1, <2>2 DEF CheckpointRow, Coalesce
<1> QED
  BY <1>1, <1>2

LEMMA UpsertStoresTotal ==
  ASSUME NEW stored \in SUBSET CheckpointRow, NEW state \in State,
         NEW s \in SUBSET State, NEW c \in SUBSET State, NEW secret \in SUBSET Secret,
         NEW new \in upsertPipe(stored, Checkpoint(state, s, c, secret))
  PROVE  Total(new) = Total(state)
<1> DEFINE row == Checkpoint(state, s, c, secret)
<1>1. row \in CheckpointRow /\ row.srv = state.srv /\ row.cp = state.cp
  BY CheckpointType
<1>2. new.srv = row.srv /\ new.cp = row.cp
  BY <1>1, UpsertPipe
<1> QED
  BY <1>1, <1>2 DEF Total

-----------------------------------------------------------------------------
(* Type correctness. *)

USE DEF CheckpointRow

LEMMA ProofIsState == Proof \subseteq State
BY BoundAssumption DEF Proof, State

LEMMA OnChainIsState == ASSUME NEW s \in OnChain PROVE s \in State /\ s.hash = {}
BY DEF OnChain

LEMMA AnchorIsOnChain == ASSUME NEW a \in Anchor PROVE a \in OnChain
BY AnchorAssumption

LEMMA InitType == Init => TypeOK
BY AnchorIsOnChain DEF Init, TypeOK, Call, Idle

LEMMA NextType == TypeOK /\ [Next]_vars => TypeOK'
<1> SUFFICES ASSUME TypeOK, [Next]_vars PROVE TypeOK'
  OBVIOUS
<1> USE DEF TypeOK
<1>1. ASSUME NEW h \in Handler, NEW p \in Pipe, NEW proof \in Proof,
             VerifyTracked(h, p, proof)
      PROVE  TypeOK'
  <2>1. PICK known \in getLatestPipeState(p) :
          /\ PaysOnTopOf(proof, known)
          /\ Await(h, [op |-> "verify", pipe |-> p, state |-> proof,
                       amount |-> proof.srv - known.srv])
    BY <1>1 DEF VerifyTracked
  <2>2. proof \in State /\ known \in State
    BY ProofIsState, NewestIsStored DEF getLatestPipeState
  <2>3. proof.srv - known.srv \in Nat
    BY <2>1, <2>2, SettingAssumption DEF PaysOnTopOf, State
  <2>4. [op |-> "verify", pipe |-> p, state |-> proof, amount |-> proof.srv - known.srv] \in Call
    BY <2>2, <2>3 DEF Call
  <2> QED
    BY <1>1, <2>1, <2>4 DEF VerifyTracked, Await
<1>2. ASSUME NEW h \in Handler, NEW p \in Pipe, NEW proof \in Proof,
             VerifyUntracked(h, p, proof)
      PROVE  TypeOK'
  <2>1. [op |-> "lookup", pipe |-> p, state |-> proof] \in Call
    BY ProofIsState DEF Call
  <2> QED
    BY <1>2, <2>1 DEF VerifyUntracked, Await
<1>3. ASSUME NEW h \in Handler, VerifyLookedUp(h) PROVE TypeOK'
  <2>1. call[h] \in [op : {"lookup"}, pipe : Pipe, state : State]
    BY <1>3 DEF VerifyLookedUp, Call, Idle
  <2>2. PICK known \in chain[call[h].pipe] :
          /\ PaysOnTopOf(call[h].state, known)
          /\ Await(h, [op |-> "verify", pipe |-> call[h].pipe, state |-> call[h].state,
                       amount |-> call[h].state.srv - known.srv])
          /\ anchored' = [anchored EXCEPT ![call[h].pipe] = @ \cup {known}]
    BY <1>3 DEF VerifyLookedUp
  <2>3. known \in OnChain /\ known \in State
    BY <2>1, <2>2, OnChainIsState
  <2>4. call[h].state.srv - known.srv \in Nat
    BY <2>1, <2>2, <2>3, SettingAssumption DEF PaysOnTopOf, State
  <2>5. [op |-> "verify", pipe |-> call[h].pipe, state |-> call[h].state,
         amount |-> call[h].state.srv - known.srv] \in Call
    BY <2>1, <2>4 DEF Call
  <2> QED
    BY <1>3, <2>1, <2>2, <2>3, <2>5 DEF VerifyLookedUp, Await
<1>4. ASSUME NEW h \in Handler, VerifyAccepted(h) PROVE TypeOK'
  <2>1. call[h] \in [op : {"verify"}, pipe : Pipe, state : State, amount : Nat]
    BY <1>4 DEF VerifyAccepted, Call, Idle
  <2> QED
    BY <1>4, <2>1 DEF VerifyAccepted, Return, Call, Payment, upsertPendingState
<1>5. ASSUME NEW h \in Handler, NEW payment \in accepted, NEW p \in Pipe,
             Forward(h, payment, p)
      PROVE  TypeOK'
  <2>1. PICK s \in Setting, latest \in getLatestPipeState(p) :
          /\ payment.amount > s.fee
          /\ latest.srv >= payment.amount - s.fee
          /\ Await(h, [op |-> "forward", pipe |-> p,
                       state |-> NextTransfer(latest, payment.amount - s.fee, payment.state.hash)])
    BY <1>5 DEF Forward
  <2>2. latest \in State
    BY <2>1, NewestIsStored DEF getLatestPipeState
  <2>3. NextTransfer(latest, payment.amount - s.fee, payment.state.hash) \in State
    <3>1. payment.amount - s.fee \in Int /\ 0 - (payment.amount - s.fee) <= latest.cp
      BY <2>1, <2>2, SettingAssumption DEF Payment, State
    <3> QED
      BY <2>1, <2>2, <3>1, TransferConserves DEF Payment, State
  <2> QED
    BY <1>5, <2>1, <2>3 DEF Forward, Await, Call
<1>6. ASSUME NEW h \in Handler, ForwardSigned(h) \/ CancelReversed(h) PROVE TypeOK'
  <2>1. call[h] \in [op : {"forward", "reverse"}, pipe : Pipe, state : State]
    BY <1>6 DEF ForwardSigned, CancelReversed, Call, Idle
  <2> QED
    BY <1>6, <2>1 DEF ForwardSigned, CancelReversed, Return, Call, upsertPendingState
<1>7. ASSUME NEW payment \in accepted, RecordCompleted(payment) PROVE TypeOK'
  <2> DEFINE row == Checkpoint(payment.state, {}, {payment.state}, payment.state.hash)
  <2>1. payment \in Payment /\ row \in CheckpointRow
    <3>1. payment \in Payment /\ payment.state \in State /\ payment.state.hash \in SUBSET Secret
      BY DEF Payment, State
    <3>2. {payment.state} \in SUBSET State /\ {} \in SUBSET State
      BY <3>1
    <3>3. row \in CheckpointRow
      BY <3>1, <3>2, CheckpointType
    <3> QED
      BY <3>1, <3>3
  <2>2. upsertPipe(pipes[payment.pipe], row) \subseteq CheckpointRow
    BY <2>1, UpsertPipe DEF Payment
  <2> QED
    BY <1>7, <2>1, <2>2 DEF RecordCompleted, deletePendingStatesAtOrBelowNonce, Payment
<1>8. ASSUME NEW h \in Handler, NEW payment \in accepted, NEW fee \in Fee,
             NEW recipient \in {{}} \cup {{p} : p \in Pipe}, Cancel(h, payment, fee, recipient)
      PROVE  TypeOK'
  <2>1. PICK latest \in getLatestPipeState(payment.pipe), refund \in Nat :
          /\ latest.srv >= refund
          /\ Await(h, [op |-> "refund", pipe |-> payment.pipe, amount |-> refund,
                       recipient |-> recipient, state |-> NextTransfer(latest, refund, {})])
    BY <1>8, SettingAssumption DEF Cancel, NothingToRefund, Payment, Fee
  <2>2. latest \in State
    BY <2>1, NewestIsStored DEF getLatestPipeState, Payment
  <2>3. refund \in Nat
    BY <2>1
  <2>4. NextTransfer(latest, refund, {}) \in State
    BY <2>1, <2>2, <2>3, TransferConserves DEF State
  <2>5. [op |-> "refund", pipe |-> payment.pipe, amount |-> refund, recipient |-> recipient,
         state |-> NextTransfer(latest, refund, {})] \in Call
    BY <2>3, <2>4 DEF Call, Payment
  <2> QED
    BY <1>8, <2>1, <2>5 DEF Cancel, Await
<1>9. ASSUME NEW h \in Handler, CancelRefunded(h) PROVE TypeOK'
  <2>1. call[h] \in [op : {"refund"}, pipe : Pipe, state : State, amount : Nat,
                     recipient : SUBSET Pipe]
    BY <1>9 DEF CancelRefunded, Call, Idle
  <2>2. pendingStates' \in [Pipe -> SUBSET State]
    BY <1>9, <2>1 DEF CancelRefunded, upsertPendingState
  <2>3. CASE Return(h)
    BY <1>9, <2>2, <2>3 DEF CancelRefunded, Return, Call
  <2>4. ASSUME NEW r \in call[h].recipient, NEW latest \in Reversible(r, call[h].amount),
               Await(h, [op |-> "reverse", pipe |-> r,
                         state |-> NextTransfer(latest, 0 - call[h].amount, {})])
        PROVE  TypeOK'
    <3>1. r \in Pipe /\ latest \in State /\ latest.cp >= call[h].amount
      BY <2>1, <2>2, <2>4, NewestIsStored DEF Reversible
    <3>2. NextTransfer(latest, 0 - call[h].amount, {}) \in State
      BY <2>1, <3>1, TransferConserves DEF State
    <3> QED
      BY <1>9, <2>2, <2>4, <3>1, <3>2 DEF CancelRefunded, Await, Call
  <2> QED
    BY <1>9, <2>3, <2>4 DEF CancelRefunded
<1>10. ASSUME NEW h \in Handler, NEW p \in Pipe, NEW state \in Anchor, OpenTap(h, p, state)
       PROVE  TypeOK'
  BY <1>10, AnchorIsOnChain DEF OpenTap, Await, Call
<1>11. ASSUME NEW h \in Handler, OpenTapSigned(h) PROVE TypeOK'
  <2>1. call[h] \in [op : {"open", "sync"}, pipe : Pipe, state : OnChain]
    BY <1>11 DEF OpenTapSigned, Call, Idle
  <2> DEFINE row == Checkpoint(call[h].state, {call[h].state}, {call[h].state}, {})
  <2>2. row \in CheckpointRow
    <3>1. call[h].state \in State /\ {call[h].state} \in SUBSET State /\ {} \in SUBSET Secret
      BY <2>1, OnChainIsState
    <3> QED
      BY <3>1, CheckpointType
  <2>3. upsertPipe(pipes[call[h].pipe], row) \subseteq CheckpointRow
    BY <2>1, <2>2, UpsertPipe
  <2> QED
    BY <1>11, <2>1, <2>3 DEF OpenTapSigned, Return, Call
<1>12. ASSUME NEW h \in Handler, NEW p \in Pipe, SyncTap(h, p) PROVE TypeOK'
  BY <1>12, OnChainIsState DEF SyncTap, Await, Call
<1>13. ASSUME NEW h \in Handler, SyncTapStored(h) PROVE TypeOK'
  <2>1. call[h] \in [op : {"open", "sync"}, pipe : Pipe, state : OnChain]
    BY <1>13 DEF SyncTapStored, Call, Idle
  <2>2. PICK sigs \in {{}, {call[h].state}} :
          pipes' = [pipes EXCEPT ![call[h].pipe] =
                      upsertPipe(@, Checkpoint(call[h].state, sigs, sigs, {}))]
    BY <1>13 DEF SyncTapStored
  <2>3. Checkpoint(call[h].state, sigs, sigs, {}) \in CheckpointRow
    <3>1. call[h].state \in State /\ sigs \in SUBSET State /\ {} \in SUBSET Secret
      BY <2>1, <2>2, OnChainIsState
    <3> QED
      BY <3>1, CheckpointType
  <2>4. upsertPipe(pipes[call[h].pipe], Checkpoint(call[h].state, sigs, sigs, {}))
          \subseteq CheckpointRow
    BY <2>1, <2>3, UpsertPipe
  <2> QED
    BY <1>13, <2>1, <2>2, <2>4
       DEF SyncTapStored, Return, Call, deletePendingStatesAtOrBelowNonce
<1>14. ASSUME NEW h \in Handler, Fail(h) PROVE TypeOK'
  BY <1>14 DEF Fail, Return, Call
<1>15. CASE Restart
  BY <1>15 DEF Restart, Call
<1>16. ASSUME NEW p \in Pipe, NEW state \in Anchor, ChainMoves(p, state) PROVE TypeOK'
  BY <1>16, AnchorIsOnChain DEF ChainMoves
<1>17. CASE UNCHANGED vars
  BY <1>17 DEF vars
<1> QED
  BY <1>1, <1>2, <1>3, <1>4, <1>5, <1>6, <1>7, <1>8, <1>9, <1>10, <1>11, <1>12, <1>13,
     <1>14, <1>15, <1>16, <1>17 DEF Next, Begin, Continue

(***************************************************************************)
(* Every variable keeps its type; in particular no interleaving of         *)
(* forwards, refunds and reversals makes the server or a counterparty owe  *)
(* a negative balance.                                                     *)
(***************************************************************************)
THEOREM TypeCorrect == Spec => []TypeOK
BY InitType, NextType, PTL DEF Spec

-----------------------------------------------------------------------------
(* Conservation of totals. *)

(***************************************************************************)
(* TotalsConserved is not inductive: a state is computed before an await   *)
(* and stored after it, and a payment can be completed long after it was   *)
(* accepted.  The total must therefore also be right in the locals of the  *)
(* waiting handlers and in the accepted proofs.                            *)
(***************************************************************************)
Waiting(h) == call[h].op \in {"verify", "forward", "refund", "reverse"}

Conserved ==
  /\ TotalsConserved
  /\ \A a \in accepted : Total(a.state) \in Totals(anchored[a.pipe])
  /\ \A h \in Handler : Waiting(h) => Total(call[h].state) \in Totals(anchored[call[h].pipe])

LEMMA InitConserved == Init => Conserved
BY DEF Init, Conserved, TotalsConserved, Waiting, Idle

(* No step takes an on-chain state of a pipe out of its history. *)
LEMMA FundingGrows ==
  ASSUME TypeOK, [Next]_vars, NEW p \in Pipe
  PROVE  Totals(anchored[p]) \subseteq Totals(anchored'[p])
<1>1. anchored[p] \subseteq anchored'[p]
  <2>1. CASE UNCHANGED anchored
    BY <2>1
  <2>2. ASSUME NEW q, NEW S, anchored' = [anchored EXCEPT ![q] = @ \cup S]
        PROVE  anchored[p] \subseteq anchored'[p]
    BY <2>2 DEF TypeOK
  <2>3. \/ UNCHANGED anchored
        \/ \E q, S : anchored' = [anchored EXCEPT ![q] = @ \cup S]
    BY DEF Next, Begin, Continue, vars, VerifyTracked, VerifyUntracked, VerifyLookedUp,
           VerifyAccepted, Forward, ForwardSigned, RecordCompleted, Cancel, CancelRefunded,
           CancelReversed, OpenTap, OpenTapSigned, SyncTap, SyncTapStored, Fail, Restart,
           ChainMoves
  <2> QED
    BY <2>1, <2>2, <2>3
<1> QED
  BY <1>1 DEF Totals

(* What is left to show of a step: the totals of what it adds. *)
LEMMA OnlyNewTotals ==
  ASSUME TypeOK, Conserved, [Next]_vars,
         \A p \in Pipe : \A row \in (pipes'[p] \cup pendingStates'[p])
                                   \ (pipes[p] \cup pendingStates[p]) :
           Total(row) \in Totals(anchored'[p]),
         \A a \in accepted' \ accepted : a.pipe \in Pipe /\ Total(a.state) \in Totals(anchored'[a.pipe]),
         \A h \in Handler : call'[h] # call[h] /\ Waiting(h)' =>
           call'[h].pipe \in Pipe /\ Total(call'[h].state) \in Totals(anchored'[call'[h].pipe])
  PROVE  Conserved'
<1>1. TotalsConserved'
  BY FundingGrows DEF Conserved, TotalsConserved
<1>2. \A a \in accepted' : Total(a.state) \in Totals(anchored'[a.pipe])
  BY FundingGrows DEF Conserved, TypeOK, Payment
<1>3. ASSUME NEW h \in Handler, Waiting(h)'
      PROVE  Total(call'[h].state) \in Totals(anchored'[call'[h].pipe])
  <2>1. CASE call'[h] # call[h]
    BY <1>3, <2>1
  <2>2. CASE call'[h] = call[h]
    <3>1. Waiting(h)
      BY <1>3, <2>2 DEF Waiting
    <3>2. call[h].pipe \in Pipe
      BY <3>1 DEF TypeOK, Call, Waiting, Idle
    <3> QED
      BY <2>2, <3>1, <3>2, FundingGrows DEF Conserved
  <2> QED
    BY <2>1, <2>2
<1> QED
  BY <1>1, <1>2, <1>3 DEF Conserved

(* A latest row carries a total of its pipe's history. *)
LEMMA LatestIsFunded ==
  ASSUME TypeOK, Conserved, NEW p \in Pipe, NEW row \in getLatestPipeState(p)
  PROVE  row \in State /\ Total(row) \in Totals(anchored[p])
BY NewestIsStored DEF getLatestPipeState, TypeOK, Conserved, TotalsConserved

LEMMA NextConserved == TypeOK /\ Conserved /\ [Next]_vars => Conserved'
<1> SUFFICES ASSUME TypeOK, Conserved, [Next]_vars PROVE Conserved'
  OBVIOUS
<1> DEFINE
      NewRows == \A p \in Pipe : \A row \in (pipes'[p] \cup pendingStates'[p])
                                            \ (pipes[p] \cup pendingStates[p]) :
                   Total(row) \in Totals(anchored'[p])
      NewPayments == \A a \in accepted' \ accepted :
                       a.pipe \in Pipe /\ Total(a.state) \in Totals(anchored'[a.pipe])
      NewCalls == \A h \in Handler : call'[h] # call[h] /\ Waiting(h)' =>
                    call'[h].pipe \in Pipe /\ Total(call'[h].state) \in Totals(anchored'[call'[h].pipe])
<1> SUFFICES NewRows /\ NewPayments /\ NewCalls
  BY OnlyNewTotals
<1>1. ASSUME NEW h \in Handler, NEW p \in Pipe, NEW proof \in Proof,
             VerifyTracked(h, p, proof)
      PROVE  NewRows /\ NewPayments /\ NewCalls
  <2>1. PICK known \in getLatestPipeState(p) :
          /\ PaysOnTopOf(proof, known)
          /\ Await(h, [op |-> "verify", pipe |-> p, state |-> proof,
                       amount |-> proof.srv - known.srv])
    BY <1>1 DEF VerifyTracked
  <2>2. Total(proof) \in Totals(anchored'[p])
    BY <2>1, LatestIsFunded, FundingGrows DEF PaysOnTopOf
  <2> QED
    BY <1>1, <2>1, <2>2 DEF VerifyTracked, Await, TypeOK
<1>2. ASSUME NEW h \in Handler, NEW p \in Pipe, NEW proof \in Proof,
             VerifyUntracked(h, p, proof)
      PROVE  NewRows /\ NewPayments /\ NewCalls
  BY <1>2 DEF VerifyUntracked, Await, TypeOK, Waiting
<1>3. ASSUME NEW h \in Handler, VerifyLookedUp(h) PROVE NewRows /\ NewPayments /\ NewCalls
  <2>1. call[h] \in [op : {"lookup"}, pipe : Pipe, state : State]
    BY <1>3 DEF VerifyLookedUp, TypeOK, Call, Idle
  <2>2. PICK known \in chain[call[h].pipe] :
          /\ PaysOnTopOf(call[h].state, known)
          /\ Await(h, [op |-> "verify", pipe |-> call[h].pipe, state |-> call[h].state,
                       amount |-> call[h].state.srv - known.srv])
          /\ anchored' = [anchored EXCEPT ![call[h].pipe] = @ \cup {known}]
    BY <1>3 DEF VerifyLookedUp
  <2>3. Total(call[h].state) \in Totals(anchored'[call[h].pipe])
    BY <2>1, <2>2 DEF PaysOnTopOf, Totals, TypeOK
  <2> QED
    BY <1>3, <2>1, <2>2, <2>3 DEF VerifyLookedUp, Await, TypeOK
<1>4. ASSUME NEW h \in Handler, VerifyAccepted(h) PROVE NewRows /\ NewPayments /\ NewCalls
  <2>1. call[h].pipe \in Pipe
    BY <1>4 DEF VerifyAccepted, TypeOK, Call, Idle
  <2>2. Total(call[h].state) \in Totals(anchored'[call[h].pipe])
    BY <1>4, <2>1, FundingGrows DEF VerifyAccepted, Conserved, Waiting
  <2> QED
    BY <1>4, <2>1, <2>2 DEF VerifyAccepted, Return, TypeOK, Waiting, Idle, upsertPendingState
<1>5. ASSUME NEW h \in Handler, NEW payment \in accepted, NEW p \in Pipe,
             Forward(h, payment, p)
      PROVE  NewRows /\ NewPayments /\ NewCalls
  <2>1. PICK s \in Setting, latest \in getLatestPipeState(p) :
          Await(h, [op |-> "forward", pipe |-> p,
                    state |-> NextTransfer(latest, payment.amount - s.fee, payment.state.hash)])
    BY <1>5 DEF Forward
  <2>2. Total(NextTransfer(latest, payment.amount - s.fee, payment.state.hash)) = Total(latest)
    BY LatestIsFunded, SettingAssumption DEF NextTransfer, Total, TypeOK, State, Payment
  <2>3. Total(latest) \in Totals(anchored'[p])
    BY LatestIsFunded, FundingGrows
  <2> QED
    BY <1>5, <2>1, <2>2, <2>3 DEF Forward, Await, TypeOK
<1>6. ASSUME NEW h \in Handler, ForwardSigned(h) \/ CancelReversed(h)
      PROVE  NewRows /\ NewPayments /\ NewCalls
  <2>1. call[h].pipe \in Pipe
    BY <1>6 DEF ForwardSigned, CancelReversed, TypeOK, Call, Idle
  <2>2. Total(call[h].state) \in Totals(anchored'[call[h].pipe])
    BY <1>6, <2>1, FundingGrows DEF ForwardSigned, CancelReversed, Conserved, Waiting
  <2> QED
    BY <1>6, <2>1, <2>2
       DEF ForwardSigned, CancelReversed, Return, TypeOK, Waiting, Idle, upsertPendingState
<1>7. ASSUME NEW payment \in accepted, RecordCompleted(payment)
      PROVE  NewRows /\ NewPayments /\ NewCalls
  <2> DEFINE row == Checkpoint(payment.state, {}, {payment.state}, payment.state.hash)
  <2>1. /\ payment.pipe \in Pipe /\ payment.state \in State
        /\ payment.state.hash \in SUBSET Secret /\ {payment.state} \in SUBSET State
    BY DEF TypeOK, Payment, State
  <2>2. Total(payment.state) \in Totals(anchored'[payment.pipe])
    BY <2>1, FundingGrows DEF Conserved
  <2>3. \A new \in upsertPipe(pipes[payment.pipe], row) : Total(new) = Total(payment.state)
    <3>1. pipes[payment.pipe] \in SUBSET CheckpointRow /\ {} \in SUBSET State
      BY <2>1 DEF TypeOK
    <3> QED
      BY <2>1, <3>1, UpsertStoresTotal
  <2> HIDE DEF row
  <2> QED
    BY <1>7, <2>1, <2>2, <2>3
       DEF RecordCompleted, TypeOK, deletePendingStatesAtOrBelowNonce, row
<1>8. ASSUME NEW h \in Handler, NEW payment \in accepted, NEW fee \in Fee,
             NEW recipient \in {{}} \cup {{p} : p \in Pipe}, Cancel(h, payment, fee, recipient)
      PROVE  NewRows /\ NewPayments /\ NewCalls
  <2>1. PICK latest \in getLatestPipeState(payment.pipe), refund \in Nat :
          Await(h, [op |-> "refund", pipe |-> payment.pipe, amount |-> refund,
                    recipient |-> recipient, state |-> NextTransfer(latest, refund, {})])
    BY <1>8, SettingAssumption DEF Cancel, NothingToRefund, TypeOK, Payment, Fee
  <2>2. payment.pipe \in Pipe /\ refund \in Int
    BY <2>1 DEF TypeOK, Payment
  <2>3. Total(NextTransfer(latest, refund, {})) = Total(latest)
    BY <2>2, LatestIsFunded DEF NextTransfer, Total, State
  <2>4. Total(latest) \in Totals(anchored'[payment.pipe])
    BY <2>2, LatestIsFunded, FundingGrows
  <2> QED
    BY <1>8, <2>1, <2>2, <2>3, <2>4 DEF Cancel, Await, TypeOK
<1>9. ASSUME NEW h \in Handler, CancelRefunded(h) PROVE NewRows /\ NewPayments /\ NewCalls
  <2>1. call[h] \in [op : {"refund"}, pipe : Pipe, state : State, amount : Nat,
                     recipient : SUBSET Pipe]
    BY <1>9 DEF CancelRefunded, TypeOK, Call, Idle
  <2>2. Total(call[h].state) \in Totals(anchored'[call[h].pipe])
    BY <2>1, FundingGrows DEF Conserved, Waiting
  <2>3. NewRows /\ NewPayments
    BY <1>9, <2>1, <2>2 DEF CancelRefunded, TypeOK, upsertPendingState
  <2>4. CASE Return(h)
    BY <2>3, <2>4 DEF Return, TypeOK, Waiting, Idle
  <2>5. ASSUME NEW r \in call[h].recipient, NEW latest \in Reversible(r, call[h].amount),
               Await(h, [op |-> "reverse", pipe |-> r,
                         state |-> NextTransfer(latest, 0 - call[h].amount, {})])
        PROVE  NewCalls
    <3>1. r \in Pipe /\ pipes[r] \in SUBSET CheckpointRow /\ pendingStates'[r] \in SUBSET State
      BY <2>1, NextType DEF TypeOK
    <3>2. /\ latest \in State
          /\ \E row \in pipes[r] \cup pendingStates'[r] : Total(row) = Total(latest)
      BY <3>1, NewestIsStored DEF Reversible
    <3>3. Total(latest) \in Totals(anchored'[r])
      <4>1. pipes' = pipes
        BY <1>9 DEF CancelRefunded
      <4>2. \A row \in pipes[r] \cup pendingStates[r] : Total(row) \in Totals(anchored'[r])
        BY <3>1, FundingGrows DEF Conserved, TotalsConserved
      <4> QED
        BY <2>3, <3>1, <3>2, <4>1, <4>2
    <3>4. Total(NextTransfer(latest, 0 - call[h].amount, {})) = Total(latest)
      BY <2>1, <3>2 DEF NextTransfer, Total, State
    <3> QED
      BY <2>5, <3>1, <3>3, <3>4 DEF Await, TypeOK
  <2> QED
    BY <1>9, <2>3, <2>4, <2>5 DEF CancelRefunded
<1>10. ASSUME NEW h \in Handler, NEW p \in Pipe, NEW state \in Anchor, OpenTap(h, p, state)
       PROVE  NewRows /\ NewPayments /\ NewCalls
  BY <1>10 DEF OpenTap, Await, TypeOK, Waiting
<1>11. ASSUME NEW h \in Handler, OpenTapSigned(h) PROVE NewRows /\ NewPayments /\ NewCalls
  <2> DEFINE row == Checkpoint(call[h].state, {call[h].state}, {call[h].state}, {})
  <2>1. /\ call[h].pipe \in Pipe /\ call[h].state \in State
        /\ {call[h].state} \in SUBSET State /\ {} \in SUBSET Secret
    BY <1>11, OnChainIsState DEF OpenTapSigned, TypeOK, Call, Idle
  <2>2. Total(call[h].state) \in Totals(anchored'[call[h].pipe])
    BY <1>11, <2>1 DEF OpenTapSigned, Totals, TypeOK
  <2>3. \A new \in upsertPipe(pipes[call[h].pipe], row) : Total(new) = Total(call[h].state)
    BY <2>1, UpsertStoresTotal DEF TypeOK
  <2> HIDE DEF row
  <2> QED
    BY <1>11, <2>1, <2>2, <2>3 DEF OpenTapSigned, Return, TypeOK, Waiting, Idle, row
<1>12. ASSUME NEW h \in Handler, NEW p \in Pipe, SyncTap(h, p)
       PROVE  NewRows /\ NewPayments /\ NewCalls
  BY <1>12 DEF SyncTap, Await, TypeOK, Waiting
<1>13. ASSUME NEW h \in Handler, SyncTapStored(h) PROVE NewRows /\ NewPayments /\ NewCalls
  <2>1. PICK sigs \in {{}, {call[h].state}} :
          pipes' = [pipes EXCEPT ![call[h].pipe] =
                      upsertPipe(@, Checkpoint(call[h].state, sigs, sigs, {}))]
    BY <1>13 DEF SyncTapStored
  <2> DEFINE row == Checkpoint(call[h].state, sigs, sigs, {})
  <2>2. /\ call[h].pipe \in Pipe /\ call[h].state \in State
        /\ sigs \in SUBSET State /\ {} \in SUBSET Secret
    BY <1>13, OnChainIsState DEF SyncTapStored, TypeOK, Call, Idle
  <2>3. Total(call[h].state) \in Totals(anchored'[call[h].pipe])
    BY <1>13, <2>2 DEF SyncTapStored, Totals, TypeOK
  <2>4. \A new \in upsertPipe(pipes[call[h].pipe], row) : Total(new) = Total(call[h].state)
    BY <2>2, UpsertStoresTotal DEF TypeOK
  <2> HIDE DEF row
  <2> QED
    BY <1>13, <2>1, <2>2, <2>3, <2>4
       DEF SyncTapStored, Return, TypeOK, Waiting, Idle, deletePendingStatesAtOrBelowNonce, row
<1>14. ASSUME NEW h \in Handler, Fail(h) PROVE NewRows /\ NewPayments /\ NewCalls
  BY <1>14 DEF Fail, Return, TypeOK, Waiting, Idle
<1>15. CASE Restart
  BY <1>15 DEF Restart, TypeOK, Waiting, Idle
<1>16. ASSUME NEW p \in Pipe, NEW state \in Anchor, ChainMoves(p, state)
       PROVE  NewRows /\ NewPayments /\ NewCalls
  BY <1>16 DEF ChainMoves
<1>17. CASE UNCHANGED vars
  BY <1>17 DEF vars
<1> HIDE DEF NewRows, NewPayments, NewCalls
<1> QED
  BY <1>1, <1>2, <1>3, <1>4, <1>5, <1>6, <1>7, <1>8, <1>9, <1>10, <1>11, <1>12, <1>13,
     <1>14, <1>15, <1>16, <1>17 DEF Next, Begin, Continue

(***************************************************************************)
(* Money is conserved on every pipe, whatever payments, forwards, refunds, *)
(* reversals, openings and syncs interleave at their awaits, and wherever  *)
(* the process is restarted.                                               *)
(***************************************************************************)
THEOREM MoneyConserved == Spec => []TotalsConserved
<1>1. Conserved => TotalsConserved
  BY DEF Conserved
<1> QED
  BY <1>1, InitType, NextType, InitConserved, NextConserved, PTL DEF Spec

-----------------------------------------------------------------------------
(***************************************************************************)
(* The checkpoints: what may be written into table reservoir_pipes, how    *)
(* its columns fit together, and what a completed payment may delete from  *)
(* the optimistic table.                                                   *)
(***************************************************************************)

HIDE DEF CheckpointRow

(* Only completed payments, openings and syncs write checkpoints. *)

CompletedWrite(p, state, secret) ==
  secret = state.hash /\ \E a \in accepted : a.pipe = p /\ a.state = state

AnchoredWrite(p, state, secret) ==
  secret = {} /\ state.hash = {} /\ state \in anchored'[p]

(* The row that a step writes, or wrote over the row that was there. *)
LEMMA CheckpointWrites ==
  ASSUME TypeOK, [Next]_vars, NEW p \in Pipe, NEW new \in pipes'[p], new \notin pipes[p]
  PROVE  \E state \in State, s \in SUBSET State, c \in SUBSET State, secret \in SUBSET Secret :
           /\ new \in upsertPipe(pipes[p], Checkpoint(state, s, c, secret))
           /\ CompletedWrite(p, state, secret) \/ AnchoredWrite(p, state, secret)
<1>1. ASSUME NEW payment \in accepted, RecordCompleted(payment)
      PROVE  /\ payment.state \in State /\ payment.state.hash \in SUBSET Secret
             /\ {} \in SUBSET State /\ {payment.state} \in SUBSET State
             /\ new \in upsertPipe(pipes[p], Checkpoint(payment.state, {}, {payment.state},
                                                        payment.state.hash))
             /\ CompletedWrite(p, payment.state, payment.state.hash)
  <2>1. payment \in Payment /\ payment.state \in State
    BY DEF TypeOK, Payment
  <2>2. p = payment.pipe
    BY <1>1, <2>1 DEF RecordCompleted, TypeOK, Payment
  <2>3. pipes'[p] = upsertPipe(pipes[p], Checkpoint(payment.state, {}, {payment.state},
                                                    payment.state.hash))
    BY <1>1, <2>2 DEF RecordCompleted, TypeOK
  <2> QED
    BY <2>1, <2>2, <2>3 DEF CompletedWrite, State
<1>2. ASSUME NEW h \in Handler, call[h].op \in {"open", "sync"}
      PROVE  call[h].pipe \in Pipe /\ call[h].state \in State /\ call[h].state.hash = {}
  BY <1>2, OnChainIsState DEF TypeOK, Call, Idle
<1>3. ASSUME NEW h \in Handler, OpenTapSigned(h)
      PROVE  /\ call[h].state \in State /\ {call[h].state} \in SUBSET State /\ {} \in SUBSET Secret
             /\ new \in upsertPipe(pipes[p],
                          Checkpoint(call[h].state, {call[h].state}, {call[h].state}, {}))
             /\ AnchoredWrite(p, call[h].state, {})
  <2>1. call[h].pipe \in Pipe /\ call[h].state \in State /\ call[h].state.hash = {}
    BY <1>2, <1>3 DEF OpenTapSigned
  <2>2. p = call[h].pipe
    BY <1>3, <2>1 DEF OpenTapSigned, TypeOK
  <2>3. pipes'[p] = upsertPipe(pipes[p],
                      Checkpoint(call[h].state, {call[h].state}, {call[h].state}, {}))
    BY <1>3, <2>2 DEF OpenTapSigned, TypeOK
  <2>4. call[h].state \in anchored'[p]
    BY <1>3, <2>2 DEF OpenTapSigned, TypeOK
  <2> QED
    BY <2>1, <2>3, <2>4 DEF AnchoredWrite
<1>4. ASSUME NEW h \in Handler, SyncTapStored(h)
      PROVE  \E sigs \in SUBSET State :
               /\ call[h].state \in State /\ {} \in SUBSET Secret
               /\ new \in upsertPipe(pipes[p], Checkpoint(call[h].state, sigs, sigs, {}))
               /\ AnchoredWrite(p, call[h].state, {})
  <2>1. PICK sigs \in {{}, {call[h].state}} :
          pipes' = [pipes EXCEPT ![call[h].pipe] =
                      upsertPipe(@, Checkpoint(call[h].state, sigs, sigs, {}))]
    BY <1>4 DEF SyncTapStored
  <2>2. call[h].pipe \in Pipe /\ call[h].state \in State /\ call[h].state.hash = {}
    BY <1>2, <1>4 DEF SyncTapStored
  <2>3. p = call[h].pipe
    BY <2>1, <2>2 DEF TypeOK
  <2>4. pipes'[p] = upsertPipe(pipes[p], Checkpoint(call[h].state, sigs, sigs, {}))
    BY <2>1, <2>3 DEF TypeOK
  <2>5. call[h].state \in anchored'[p]
    BY <1>4, <2>3 DEF SyncTapStored, TypeOK
  <2> QED
    BY <2>1, <2>2, <2>4, <2>5 DEF AnchoredWrite
<1>5. \/ \E payment \in accepted : RecordCompleted(payment)
      \/ \E h \in Handler : OpenTapSigned(h) \/ SyncTapStored(h)
  <2>1. pipes' # pipes
    OBVIOUS
  <2> QED
    BY <2>1 DEF Next, Begin, Continue, vars, VerifyTracked, VerifyUntracked, VerifyLookedUp,
           VerifyAccepted, Forward, ForwardSigned, Cancel, CancelRefunded,
           CancelReversed, OpenTap, SyncTap, Fail, Restart, ChainMoves
<1>6. CASE \E payment \in accepted : RecordCompleted(payment)
  BY <1>1, <1>6
<1>7. CASE \E h \in Handler : OpenTapSigned(h)
  BY <1>3, <1>7
<1>8. CASE \E h \in Handler : SyncTapStored(h)
  BY <1>4, <1>8
<1> QED
  BY <1>5, <1>6, <1>7, <1>8

-----------------------------------------------------------------------------
(* Checkpoints are final. *)

(* The payments and on-chain states behind a checkpoint are never forgotten. *)
LEMMA SourcesKept ==
  ASSUME TypeOK, [Next]_vars, NEW p \in Pipe
  PROVE  anchored[p] \subseteq anchored'[p] /\ accepted \subseteq accepted'
<1>1. \/ UNCHANGED anchored
      \/ \E q, S : anchored' = [anchored EXCEPT ![q] = @ \cup S]
  BY DEF Next, Begin, Continue, vars, VerifyTracked, VerifyUntracked, VerifyLookedUp,
         VerifyAccepted, Forward, ForwardSigned, RecordCompleted, Cancel, CancelRefunded,
         CancelReversed, OpenTap, OpenTapSigned, SyncTap, SyncTapStored, Fail, Restart,
         ChainMoves
<1>2. UNCHANGED accepted \/ \E a : accepted' = accepted \cup {a}
  BY DEF Next, Begin, Continue, vars, VerifyTracked, VerifyUntracked, VerifyLookedUp,
         VerifyAccepted, Forward, ForwardSigned, RecordCompleted, Cancel, CancelRefunded,
         CancelReversed, OpenTap, OpenTapSigned, SyncTap, SyncTapStored, Fail, Restart,
         ChainMoves
<1>3. ASSUME NEW q, NEW S, anchored' = [anchored EXCEPT ![q] = @ \cup S]
      PROVE  anchored[p] \subseteq anchored'[p]
  BY <1>3 DEF TypeOK
<1> QED
  BY <1>1, <1>2, <1>3

LEMMA NextFinal == TypeOK /\ CheckpointIsFinal /\ [Next]_vars => CheckpointIsFinal'
<1> SUFFICES ASSUME TypeOK, CheckpointIsFinal, [Next]_vars, NEW p \in Pipe, NEW row \in pipes'[p]
             PROVE  \E s \in anchored'[p] \cup {a.state : a \in {b \in accepted' : b.pipe = p}} :
                      s.srv = row.srv /\ s.cp = row.cp /\ s.nonce = row.nonce
  BY DEF CheckpointIsFinal
<1>1. CASE row \in pipes[p]
  BY <1>1, SourcesKept DEF CheckpointIsFinal
<1>2. CASE row \notin pipes[p]
  <2>1. PICK state \in State, s \in SUBSET State, c \in SUBSET State, secret \in SUBSET Secret :
          /\ row \in upsertPipe(pipes[p], Checkpoint(state, s, c, secret))
          /\ CompletedWrite(p, state, secret) \/ AnchoredWrite(p, state, secret)
    BY <1>2, CheckpointWrites
  <2>2. row.srv = state.srv /\ row.cp = state.cp /\ row.nonce = state.nonce
    BY <2>1, CheckpointType, UpsertPipe DEF TypeOK
  <2>3. state \in anchored'[p] \cup {a.state : a \in {b \in accepted' : b.pipe = p}}
    BY <2>1, SourcesKept DEF CompletedWrite, AnchoredWrite
  <2> QED
    BY <2>2, <2>3
<1> QED
  BY <1>1, <1>2

(***************************************************************************)
(* The balances and the nonce of every checkpoint are those of an accepted *)
(* incoming proof, an on-chain state or an opening: no forward or refund   *)
(* reaches table reservoir_pipes, however it interleaves with the rest.    *)
(***************************************************************************)
THEOREM CheckpointsAreFinal == Spec => []CheckpointIsFinal
<1>1. Init => CheckpointIsFinal
  BY DEF Init, CheckpointIsFinal
<1> QED
  BY <1>1, InitType, NextType, NextFinal, PTL DEF Spec

-----------------------------------------------------------------------------
(* Secrets open their checkpoints. *)

LEMMA NextSecretOpens == TypeOK /\ SecretOpensCheckpoint /\ [Next]_vars => SecretOpensCheckpoint'
<1> SUFFICES ASSUME TypeOK, SecretOpensCheckpoint, [Next]_vars,
                    NEW p \in Pipe, NEW row \in pipes'[p], row.secret # {}
             PROVE  row.secret = row.hash
  BY DEF SecretOpensCheckpoint
<1>1. CASE row \in pipes[p]
  BY <1>1 DEF SecretOpensCheckpoint
<1>2. CASE row \notin pipes[p]
  <2>1. PICK state \in State, s \in SUBSET State, c \in SUBSET State, secret \in SUBSET Secret :
          /\ row \in upsertPipe(pipes[p], Checkpoint(state, s, c, secret))
          /\ CompletedWrite(p, state, secret) \/ AnchoredWrite(p, state, secret)
    BY <1>2, CheckpointWrites
  <2>2. secret = state.hash
    BY <2>1 DEF CompletedWrite, AnchoredWrite
  <2>3. \/ row.hash = state.hash /\ row.secret = secret
        \/ \E old \in pipes[p] : /\ row.hash = Coalesce(state.hash, old.hash)
                                 /\ row.secret = Coalesce(secret, old.secret)
    BY <2>1, CheckpointType, UpsertPipe DEF TypeOK
  <2>4. CASE row.hash = state.hash /\ row.secret = secret
    BY <2>2, <2>4
  <2>5. ASSUME NEW old \in pipes[p], row.hash = Coalesce(state.hash, old.hash),
               row.secret = Coalesce(secret, old.secret)
        PROVE  row.secret = row.hash
    BY <2>2, <2>5 DEF SecretOpensCheckpoint, Coalesce
  <2> QED
    BY <2>3, <2>4, <2>5
<1> QED
  BY <1>1, <1>2

(***************************************************************************)
(* Although an upsert replaces the hash and the secret of a checkpoint     *)
(* only where a new value is given, a secret that is stored always opens   *)
(* the hash that is stored with it.                                        *)
(***************************************************************************)
THEOREM SecretsOpenCheckpoints == Spec => []SecretOpensCheckpoint
<1>1. Init => SecretOpensCheckpoint
  BY DEF Init, SecretOpensCheckpoint
<1> QED
  BY <1>1, InitType, NextType, NextSecretOpens, PTL DEF Spec

-----------------------------------------------------------------------------
(* Optimistic rows are dropped only when they are covered. *)

(* An upsert leaves a row, with the nonce given. *)
LEMMA UpsertLeavesNonce ==
  ASSUME NEW stored \in SUBSET CheckpointRow, NEW row \in CheckpointRow
  PROVE  \E new \in upsertPipe(stored, row) : new.nonce = row.nonce
<1>1. \E new : new \in upsertPipe(stored, row)
  BY DEF upsertPipe
<1> QED
  BY <1>1, UpsertPipe

(* A nonce SQLite can represent is not above one whose cast is not smaller. *)
LEMMA CastIsBounded ==
  ASSUME NEW n \in Nat, NEW m \in Nat, n <= MaxInteger, ~ (AsInteger(n) > AsInteger(m))
  PROVE  n <= m
BY IntegerAssumption DEF AsInteger

LEMMA NextCovered == TypeOK /\ [Next]_vars => [DropsOnlyCovered]_vars
<1> SUFFICES ASSUME TypeOK, Next, NEW p \in Pipe,
                    NEW row \in pendingStates[p] \ pendingStates'[p], row.nonce <= MaxInteger
             PROVE  \/ \E q \in pendingStates'[p] : q.nonce = row.nonce
                    \/ \E q \in pipes'[p] : q.nonce >= row.nonce
  BY DEF DropsOnlyCovered, Covered
<1>1. row \in State
  BY DEF TypeOK
<1>2. ASSUME NEW h \in Handler,
             VerifyAccepted(h) \/ ForwardSigned(h) \/ CancelRefunded(h) \/ CancelReversed(h)
      PROVE  \E q \in pendingStates'[p] : q.nonce = row.nonce
  <2>1. pendingStates' = [pendingStates EXCEPT ![call[h].pipe] =
                            upsertPendingState(@, call[h].state)]
    BY <1>2 DEF VerifyAccepted, ForwardSigned, CancelRefunded, CancelReversed
  <2>2. pendingStates'[p] = upsertPendingState(pendingStates[p], call[h].state)
    BY <2>1 DEF TypeOK
  <2>3. row.nonce = call[h].state.nonce /\ call[h].state \in pendingStates'[p]
    BY <2>2 DEF upsertPendingState
  <2> QED
    BY <2>3
<1>3. ASSUME NEW state \in State, NEW s \in SUBSET State, NEW c \in SUBSET State,
             NEW secret \in SUBSET Secret, NEW r \in Pipe,
             pipes' = [pipes EXCEPT ![r] = upsertPipe(@, Checkpoint(state, s, c, secret))],
             pendingStates' = [pendingStates EXCEPT ![r] =
                                 deletePendingStatesAtOrBelowNonce(@, state.nonce)]
      PROVE  \E q \in pipes'[p] : q.nonce >= row.nonce
  <2>1. p = r /\ row.nonce <= state.nonce
    <3>1. p = r
      BY <1>3 DEF TypeOK
    <3>2. ~ (AsInteger(row.nonce) > AsInteger(state.nonce))
      BY <1>3, <3>1 DEF TypeOK, deletePendingStatesAtOrBelowNonce
    <3>3. row.nonce \in Nat /\ state.nonce \in Nat
      BY <1>1 DEF State
    <3> QED
      BY <3>1, <3>2, <3>3, CastIsBounded
  <2>2. pipes'[p] = upsertPipe(pipes[p], Checkpoint(state, s, c, secret))
    BY <1>3, <2>1 DEF TypeOK
  <2>3. \E q \in pipes'[p] : q.nonce = state.nonce
    BY <2>2, CheckpointType, UpsertLeavesNonce DEF TypeOK
  <2> QED
    BY <2>1, <2>3
<1>4. ASSUME NEW payment \in accepted, RecordCompleted(payment)
      PROVE  \E q \in pipes'[p] : q.nonce >= row.nonce
  <2>1. /\ payment.pipe \in Pipe /\ payment.state \in State
        /\ payment.state.hash \in SUBSET Secret
        /\ {payment.state} \in SUBSET State /\ {} \in SUBSET State
    BY DEF TypeOK, Payment, State
  <2> QED
    BY <1>3, <1>4, <2>1 DEF RecordCompleted
<1>5. ASSUME NEW h \in Handler, SyncTapStored(h)
      PROVE  \E q \in pipes'[p] : q.nonce >= row.nonce
  <2>1. PICK sigs \in {{}, {call[h].state}} :
          pipes' = [pipes EXCEPT ![call[h].pipe] =
                      upsertPipe(@, Checkpoint(call[h].state, sigs, sigs, {}))]
    BY <1>5 DEF SyncTapStored
  <2>2. /\ call[h].pipe \in Pipe /\ call[h].state \in State
        /\ sigs \in SUBSET State /\ {} \in SUBSET Secret
    BY <1>5, OnChainIsState DEF SyncTapStored, TypeOK, Call, Idle
  <2> QED
    BY <1>3, <1>5, <2>1, <2>2 DEF SyncTapStored
<1>6. \/ \E h \in Handler :
           VerifyAccepted(h) \/ ForwardSigned(h) \/ CancelRefunded(h) \/ CancelReversed(h)
      \/ \E payment \in accepted : RecordCompleted(payment)
      \/ \E h \in Handler : SyncTapStored(h)
  <2>1. pendingStates' # pendingStates
    OBVIOUS
  <2> QED
    BY <2>1 DEF Next, Begin, Continue, VerifyTracked, VerifyUntracked, VerifyLookedUp, Forward,
           Cancel, OpenTap, OpenTapSigned, SyncTap, Fail, Restart, ChainMoves
<1> QED
  BY <1>2, <1>4, <1>5, <1>6

(***************************************************************************)
(* No step forgets an optimistic row, an open HTLC above all, unless a row *)
(* of the same nonce replaces it or a checkpoint at its nonce or above     *)
(* covers it.  It holds of the rows whose nonce is an INTEGER of SQLite,   *)
(* whatever the nonces of the other rows; above that the code forgets more *)
(* (ClaimKeepsLaterRows).                                                  *)
(***************************************************************************)
THEOREM OptimisticRowsAreCovered == Spec => OptimisticRowsCovered
BY InitType, NextType, NextCovered, PTL DEF Spec, OptimisticRowsCovered
=============================================================================
