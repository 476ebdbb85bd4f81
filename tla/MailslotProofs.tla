---------------------------- MODULE MailslotProofs ---------------------------
(***************************************************************************)
(* Proofs about Mailslot: the handlers and the payment service put         *)
(* together implement each of them apart, so that what ReservoirProofs and *)
(* MailboxProofs show of the parts holds of the whole server; and what     *)
(* only the whole can promise, that signatures and rows keep in step.      *)
(***************************************************************************)
EXTENDS Mailslot, TLAPS, FiniteSetTheorems

RP == INSTANCE ReservoirProofs WITH call <- service
BP == INSTANCE MailboxProofs WITH Address <- Pipe, call <- request

-----------------------------------------------------------------------------
(* The theorems about the parts speak of the same specifications. *)

LEMMA ServiceAssumptions ==
  RP!IntegerAssumption /\ RP!AnchorAssumption /\ RP!SettingAssumption /\ RP!BoundAssumption
BY PartsAssumption DEF R!IntegerAssumption, R!AnchorAssumption, R!SettingAssumption,
     R!BoundAssumption, RP!IntegerAssumption, RP!AnchorAssumption, RP!SettingAssumption, RP!BoundAssumption,
     R!OnChain, RP!OnChain, R!State, RP!State

LEMMA SameServiceType == (R!TypeOK <=> RP!TypeOK) /\ (R!TypeOK' <=> RP!TypeOK')
BY DEF R!TypeOK, RP!TypeOK, R!Call, RP!Call, R!State, RP!State, R!CheckpointRow,
     RP!CheckpointRow, R!Idle, RP!Idle, R!Payment, RP!Payment, R!OnChain, RP!OnChain

LEMMA SameServiceNext == [R!Next]_(R!vars) <=> [RP!Next]_(RP!vars)
BY DEF R!Next, RP!Next, R!vars, RP!vars, R!Begin, RP!Begin, R!Continue, RP!Continue,
  R!VerifyTracked, RP!VerifyTracked, R!VerifyUntracked, RP!VerifyUntracked,
  R!VerifyLookedUp, RP!VerifyLookedUp, R!VerifyAccepted, RP!VerifyAccepted,
  R!Forward, RP!Forward, R!ForwardSigned, RP!ForwardSigned, R!RecordCompleted, RP!RecordCompleted,
  R!Cancel, RP!Cancel, R!CancelRefunded, RP!CancelRefunded, R!CancelReversed, RP!CancelReversed,
  R!OpenTap, RP!OpenTap, R!OpenTapSigned, RP!OpenTapSigned, R!SyncTap, RP!SyncTap,
  R!SyncTapStored, RP!SyncTapStored, R!Fail, RP!Fail, R!Restart, RP!Restart,
  R!ChainMoves, RP!ChainMoves, R!Reversible, RP!Reversible, R!Proof, RP!Proof, R!Idle, RP!Idle,
  R!Await, RP!Await, R!Return, RP!Return, R!PaysOnTopOf, RP!PaysOnTopOf, R!Total, RP!Total,
  R!getLatestPipeState, RP!getLatestPipeState, R!chooseLatestRow, RP!chooseLatestRow,
  R!getLatestPendingPipeRow, RP!getLatestPendingPipeRow, R!AsInteger, RP!AsInteger,
  R!NothingToRefund, RP!NothingToRefund, R!Fee, RP!Fee,
  R!Newest, RP!Newest, R!StateOf, RP!StateOf, R!NextTransfer, RP!NextTransfer,
  R!Checkpoint, RP!Checkpoint, R!upsertPipe, RP!upsertPipe, R!Coalesce, RP!Coalesce,
  R!upsertPendingState, RP!upsertPendingState, R!Cardinality, RP!Cardinality,
  R!deletePendingStatesAtOrBelowNonce, RP!deletePendingStatesAtOrBelowNonce

LEMMA RequestAssumptions ==
  BP!PartiesAssumption /\ BP!FiniteAssumption /\ BP!CapAssumption /\ BP!MintAssumption
BY PartsAssumption DEF B!PartiesAssumption, B!FiniteAssumption, B!CapAssumption, B!MintAssumption,
     BP!PartiesAssumption, BP!FiniteAssumption, BP!CapAssumption, BP!MintAssumption,
     B!IsFiniteSet, BP!IsFiniteSet

LEMMA SameRequestType == (B!TypeOK <=> BP!TypeOK) /\ (B!TypeOK' <=> BP!TypeOK')
BY DEF B!TypeOK, BP!TypeOK, B!Status, BP!Status, B!Commitment, BP!Commitment, B!Call, BP!Call,
     B!Idle, BP!Idle

LEMMA SameRequestNext == [B!Next]_(B!vars) <=> [BP!Next]_(BP!vars)
BY DEF B!Next, BP!Next, B!vars, BP!vars, B!rows, BP!rows, B!Continue, BP!Continue,
  B!Send, BP!Send, B!SendReady, BP!SendReady, B!SendUnfunded, BP!SendUnfunded,
  B!SendDeferred, BP!SendDeferred, B!GetInbox, BP!GetInbox, B!ActivateNext, BP!ActivateNext,
  B!expireDeferredMessages, BP!expireDeferredMessages, B!Oldest, BP!Oldest, B!Earlier, BP!Earlier,
  B!getDeferredMessagesForRecipient, BP!getDeferredMessagesForRecipient,
  B!Activated, BP!Activated, B!activateDeferredMessage, BP!activateDeferredMessage,
  B!Preview, BP!Preview, B!Cancel, BP!Cancel, B!Cancelled, BP!Cancelled,
  B!cancelMessageBySender, BP!cancelMessageBySender, B!Claim, BP!Claim, B!ClaimCut, BP!ClaimCut,
  B!claimMessage, BP!claimMessage, B!recordSettlement, BP!recordSettlement,
  B!recordCompletedIncomingPayment, BP!recordCompletedIncomingPayment, B!Fail, BP!Fail,
  B!Restart, BP!Restart, B!Lapse, BP!Lapse, B!Mint, BP!Mint, B!saveMessage, BP!saveMessage,
  B!Return, BP!Return, B!Await, BP!Await, B!Idle, BP!Idle, B!With, BP!With,
  B!Pending, BP!Pending, B!Deferred, BP!Deferred, B!Cardinality, BP!Cardinality,
  B!countPendingFromSender, BP!countPendingFromSender,
  B!countPendingToRecipient, BP!countPendingToRecipient,
  B!countDeferredFromSender, BP!countDeferredFromSender,
  B!countDeferredToRecipient, BP!countDeferredToRecipient,
  B!countDeferredGlobal, BP!countDeferredGlobal

LEMMA ServiceType == R!TypeOK /\ [R!Next]_(R!vars) => R!TypeOK'
BY ServiceAssumptions, SameServiceType, SameServiceNext, RP!NextType

LEMMA RequestType == B!TypeOK /\ [B!Next]_(B!vars) => B!TypeOK'
BY RequestAssumptions, SameRequestType, SameRequestNext, BP!NextType

-----------------------------------------------------------------------------
(* Every step of the server is a step of each part, or none of its business. *)

(* createOutgoingPayment begins a transfer for an accepted payment, or nothing. *)
LEMMA OutgoingIsReservoir ==
  ASSUME TypeOK, NEW h \in Handler, NEW m \in Message, NEW proofs \in SUBSET accepted,
         CreateOutgoingPayment(h, m, proofs)
  PROVE  [R!Next]_(R!vars)
<1>1. CASE UNCHANGED reservoir
  BY <1>1 DEF reservoir, R!vars
<1>2. ASSUME NEW p \in proofs, R!Forward(h, p, To[m]) PROVE R!Next
  <2>1. p \in accepted /\ To[m] \in Pipe
    BY PartsAssumption DEF B!PartiesAssumption
  <2> QED
    BY <1>2, <2>1 DEF R!Next, R!Begin
<1> QED
  BY <1>1, <1>2 DEF CreateOutgoingPayment

(* A step of a handler within a method of the service. *)
LEMMA ContinueIsReservoir ==
  ASSUME NEW h \in Handler, R!Continue(h) PROVE [R!Next]_(R!vars)
BY DEF R!Next

LEMMA NextRoundIsReservoir ==
  ASSUME TypeOK, B!TypeOK', NEW h \in Handler, NextRound(h)
  PROVE  [R!Next]_(R!vars)
<1>1. CASE request'[h] = B!Idle
  BY <1>1 DEF NextRound, reservoir, R!vars
<1>2. CASE request'[h] # B!Idle
  <2>1. request'[h] \in B!Call
    BY DEF B!TypeOK
  <2>2. request'[h].msg \in Message
    BY <1>2, <2>1 DEF B!Call
  <2>3. paymentId[request'[h].msg] \in SUBSET accepted
    BY <2>2 DEF TypeOK
  <2> QED
    BY <1>2, <2>2, <2>3, OutgoingIsReservoir DEF NextRound
<1> QED
  BY <1>1, <1>2

LEMMA NextMailbox == TypeOK /\ [Next]_vars => [B!Next]_(B!vars)
<1> SUFFICES ASSUME TypeOK, [Next]_vars PROVE [B!Next]_(B!vars)
  OBVIOUS
<1> USE DEF mailbox, rows
<1>1. ASSUME NEW h \in Handler, Begin(h) PROVE [B!Next]_(B!vars)
  BY <1>1 DEF Begin, Post, Send, Cancel, GetInbox, B!Next, B!vars, B!rows
<1>2. ASSUME NEW h \in Handler, Continue(h) PROVE [B!Next]_(B!vars)
  BY <1>2 DEF Continue, LookedUp, Verified, Rejected, OutgoingSigned, SendReady, SendUnfunded,
     SendDeferred, Activated, Refunded, Reversed, Cancelled, Sync, Fail,
     B!Next, B!Continue, B!vars, B!rows
<1>3. ASSUME NEW m \in Message, Preview(m) \/ Claim(m) \/ ClaimCut(m) \/ Lapse(m)
      PROVE  [B!Next]_(B!vars)
  BY <1>3 DEF Preview, Claim, ClaimCut, Lapse, B!Next
<1>4. CASE Restart
  BY <1>4 DEF Restart, B!Next, B!Restart, B!vars, B!rows, B!TypeOK, TypeOK
<1>5. CASE UNCHANGED vars
  BY <1>5 DEF vars, B!vars, B!rows
<1> QED
  BY <1>1, <1>2, <1>3, <1>4, <1>5 DEF Next

LEMMA NextReservoir == TypeOK /\ B!TypeOK' /\ [Next]_vars => [R!Next]_(R!vars)
<1> SUFFICES ASSUME TypeOK, B!TypeOK', [Next]_vars PROVE [R!Next]_(R!vars)
  OBVIOUS
<1>0. ASSUME UNCHANGED reservoir PROVE [R!Next]_(R!vars)
  BY <1>0 DEF reservoir, R!vars
<1>1. ASSUME NEW h \in Handler, NEW p \in Pipe, NEW proof \in R!Proof, Post(h, p, proof)
      PROVE  [R!Next]_(R!vars)
  BY <1>1 DEF Post, R!Next, R!Begin
<1>2. ASSUME NEW h \in Handler, NEW m \in Message, Send(h, m) PROVE [R!Next]_(R!vars)
  <2>1. verified[h] \in SUBSET accepted
    BY DEF TypeOK
  <2> QED
    BY <1>2, <2>1, OutgoingIsReservoir DEF Send
<1>3. ASSUME NEW h \in Handler, NEW m \in Message, Cancel(h, m) PROVE [R!Next]_(R!vars)
  <2> DEFINE recipient == IF payment[m] = {} THEN {} ELSE {To[m]}
  <2>1. recipient \in {{}} \cup {{p} : p \in Pipe}
    BY PartsAssumption DEF B!PartiesAssumption
  <2> HIDE DEF recipient
  <2>2. ASSUME NEW p \in paymentId[m], NEW f \in fee[m], R!Cancel(h, p, f, recipient) PROVE R!Next
    <3>1. p \in accepted /\ f \in R!Fee
      BY DEF TypeOK
    <3> QED
      BY <2>1, <2>2, <3>1 DEF R!Next, R!Begin
  <2> QED
    BY <1>0, <1>3, <2>2 DEF Cancel, recipient
<1>4. ASSUME NEW h \in Handler, NEW a \in Pipe, GetInbox(h, a) PROVE [R!Next]_(R!vars)
  BY <1>4, NextRoundIsReservoir DEF GetInbox
<1>5. ASSUME NEW h \in Handler, Activated(h) PROVE [R!Next]_(R!vars)
  BY <1>5, NextRoundIsReservoir DEF Activated
<1>6. ASSUME NEW h \in Handler,
             LookedUp(h) \/ Verified(h) \/ OutgoingSigned(h) \/ Refunded(h) \/ Reversed(h)
      PROVE  [R!Next]_(R!vars)
  BY <1>6, ContinueIsReservoir DEF LookedUp, Verified, OutgoingSigned, Refunded, Reversed, R!Continue
<1>7. ASSUME NEW h \in Handler, Sync(h) PROVE [R!Next]_(R!vars)
  BY <1>7 DEF Sync, R!Next, R!Begin, R!Continue
<1>8. ASSUME NEW h \in Handler, Fail(h) PROVE [R!Next]_(R!vars)
  <2>1. CASE R!Fail(h)
    BY <2>1, ContinueIsReservoir DEF R!Continue
  <2> QED
    BY <1>8, <1>0, <2>1 DEF Fail
<1>9. ASSUME NEW h \in Handler,
             Rejected(h) \/ SendReady(h) \/ SendUnfunded(h) \/ SendDeferred(h) \/ Cancelled(h)
      PROVE  [R!Next]_(R!vars)
  BY <1>9, <1>0 DEF Rejected, SendReady, SendUnfunded, SendDeferred, Cancelled
<1>10. ASSUME NEW m \in Message, Preview(m) \/ Lapse(m) PROVE [R!Next]_(R!vars)
  BY <1>10, <1>0 DEF Preview, Lapse
<1>11. ASSUME NEW m \in Message, Claim(m) PROVE [R!Next]_(R!vars)
  <2>1. PICK p \in paymentId[m] : R!RecordCompleted(p)
    BY <1>11 DEF Claim
  <2>2. p \in accepted
    BY <2>1 DEF TypeOK
  <2> QED
    BY <2>1, <2>2 DEF R!Next
<1>12. ASSUME Crashed PROVE [R!Next]_(R!vars)
  BY <1>12 DEF Crashed, R!Next, R!Restart, R!vars
<1>13. CASE UNCHANGED vars
  BY <1>13, <1>0 DEF vars
<1> QED
  BY <1>1, <1>2, <1>3, <1>4, <1>5, <1>6, <1>7, <1>8, <1>9, <1>10, <1>11, <1>12, <1>13
     DEF Next, Begin, Continue, ClaimCut, Restart

-----------------------------------------------------------------------------
(* Type correctness. *)

LEMMA InitType == Init => TypeOK
BY ServiceAssumptions, SameServiceType, RP!InitType, RequestAssumptions, SameRequestType, BP!InitType
   DEF Init, TypeOK, R!Init, RP!Init, R!Idle, RP!Idle, B!Init, BP!Init, B!Idle, BP!Idle

LEMMA NextParts ==
  ASSUME TypeOK, [Next]_vars
  PROVE  [R!Next]_(R!vars) /\ [B!Next]_(B!vars) /\ R!TypeOK' /\ B!TypeOK'
<1>1. [B!Next]_(B!vars) /\ B!TypeOK'
  BY NextMailbox, RequestType DEF TypeOK
<1>2. [R!Next]_(R!vars)
  BY <1>1, NextReservoir
<1>3. R!TypeOK'
  BY <1>2, ServiceType DEF TypeOK
<1> QED
  BY <1>1, <1>2, <1>3

(* A payment once accepted stays accepted. *)
LEMMA AcceptedGrows == [R!Next]_(R!vars) => accepted \subseteq accepted'
BY DEF R!Next, R!vars, R!Begin, R!Continue, R!VerifyTracked, R!VerifyUntracked, R!VerifyLookedUp,
  R!VerifyAccepted, R!Forward, R!ForwardSigned, R!RecordCompleted, R!Cancel, R!CancelRefunded,
  R!CancelReversed, R!OpenTap, R!OpenTapSigned, R!SyncTap, R!SyncTapStored, R!Fail, R!Restart,
  R!ChainMoves

LEMMA NextType == TypeOK /\ [Next]_vars => TypeOK'
<1> SUFFICES ASSUME TypeOK, [Next]_vars PROVE TypeOK'
  OBVIOUS
<1>1. R!TypeOK' /\ B!TypeOK' /\ accepted \subseteq accepted'
  BY NextParts, AcceptedGrows
<1>2. /\ verified \in [Handler -> SUBSET accepted] /\ verified \in [Handler -> SUBSET accepted']
      /\ paymentId \in [Message -> SUBSET accepted] /\ paymentId \in [Message -> SUBSET accepted']
      /\ fee \in [Message -> SUBSET R!Fee]
      /\ finished \subseteq Handler
      /\ forwards \in [Message -> Nat] /\ reversals \in [Message -> Nat]
      /\ refunds \in [Message -> Nat]
  BY <1>1 DEF TypeOK
<1> DEFINE Rest ==
      /\ verified' \in [Handler -> SUBSET accepted']
      /\ finished' \subseteq Handler
      /\ paymentId' \in [Message -> SUBSET accepted']
      /\ fee' \in [Message -> SUBSET R!Fee]
      /\ forwards' \in [Message -> Nat] /\ reversals' \in [Message -> Nat]
      /\ refunds' \in [Message -> Nat]
<1>3. ASSUME UNCHANGED <<verified, sent>>, finished' \subseteq Handler,
             \/ UNCHANGED money
             \/ \E m : Count(forwards, m) /\ UNCHANGED <<reversals, refunds>>
             \/ \E m : Count(reversals, m) /\ UNCHANGED <<forwards, refunds>>
             \/ \E m : Count(refunds, m) /\ UNCHANGED <<forwards, reversals>>
      PROVE  Rest
  BY <1>2, <1>3 DEF Count, money, sent
<1>4. ASSUME NEW h \in Handler, Begin(h) PROVE Rest
  <2>1. CASE \E m \in Message : Send(h, m)
    BY <2>1, <1>2 DEF Send, money
  <2>2. CASE \E m \in Message : Cancel(h, m)
    BY <2>2, <1>2, <1>3 DEF Cancel
  <2> QED
    BY <2>1, <2>2, <1>2, <1>3, <1>4 DEF Begin, Post, GetInbox
<1>5. ASSUME NEW h \in Handler, Verified(h) PROVE Rest
  <2>1. verified' = [verified EXCEPT ![h] =
             {[pipe |-> service[h].pipe, state |-> service[h].state, amount |-> service[h].amount]}]
    BY <1>5 DEF Verified
  <2>2. [pipe |-> service[h].pipe, state |-> service[h].state, amount |-> service[h].amount]
          \in accepted'
    BY <1>5 DEF Verified, R!VerifyAccepted
  <2> QED
    BY <2>1, <2>2, <1>2, <1>5 DEF Verified, money, sent
<1>6. ASSUME NEW h \in Handler, Rejected(h) PROVE Rest
  BY <1>6, <1>2 DEF Rejected, money, sent
<1>7. ASSUME NEW h \in Handler,
             \/ LookedUp(h) \/ OutgoingSigned(h) \/ SendReady(h) \/ SendUnfunded(h)
             \/ SendDeferred(h) \/ Activated(h) \/ Refunded(h) \/ Reversed(h)
             \/ Cancelled(h) \/ Sync(h) \/ Fail(h)
      PROVE  Rest
  BY <1>7, <1>2, <1>3 DEF LookedUp, OutgoingSigned, SendReady, SendUnfunded, SendDeferred, Activated,
     Refunded, Reversed, Cancelled, Sync, Fail
<1>8. ASSUME NEW m \in Message, Preview(m) \/ Claim(m) \/ Lapse(m) PROVE Rest
  BY <1>8, <1>2, <1>3 DEF Preview, Claim, Lapse
<1>9. ASSUME Crashed PROVE Rest
  BY <1>9, <1>2 DEF Crashed, money, sent
<1>10. ASSUME UNCHANGED vars PROVE Rest
  BY <1>10, <1>2 DEF vars, money, sent
<1> HIDE DEF Rest
<1>11. Rest
  BY <1>4, <1>5, <1>6, <1>7, <1>8, <1>9, <1>10 DEF Next, Continue, ClaimCut, Restart
<1> QED
  BY <1>1, <1>11 DEF TypeOK, Rest

(* The tables, the locals of both services and the records between them keep their types. *)
THEOREM TypeCorrect == Spec => []TypeOK
BY InitType, NextType, PTL DEF Spec

-----------------------------------------------------------------------------
(* The parts, as they are used by the whole. *)

(* Every behaviour of the server is one of the payment service on its own:  *)
(* what ReservoirProofs shows for free callers holds of the calls of app.ts. *)
THEOREM ServiceImplemented == Spec => ImplementsReservoir
<1>1. Init => R!Init
  BY DEF Init
<1>2. TypeOK /\ [Next]_vars => [R!Next]_(R!vars)
  BY NextParts
<1> QED
  BY <1>1, <1>2, TypeCorrect, PTL DEF Spec, ImplementsReservoir, R!Spec

(* Every behaviour of the server is one of the handlers with a service that *)
(* answers as it likes: what MailboxProofs shows of the rows holds of them.  *)
THEOREM MailboxImplemented == Spec => ImplementsMailbox
<1>1. Init => B!Init
  BY DEF Init
<1>2. TypeOK /\ [Next]_vars => [B!Next]_(B!vars)
  BY NextParts
<1> QED
  BY <1>1, <1>2, TypeCorrect, PTL DEF Spec, ImplementsMailbox, B!Spec

(* What is said of a part in its module and in its proofs is the same. *)
LEMMA SameService ==
  /\ R!Init <=> RP!Init
  /\ RP!TotalsConserved => R!TotalsConserved
  /\ RP!CheckpointIsFinal => R!CheckpointIsFinal
  /\ RP!SecretOpensCheckpoint => R!SecretOpensCheckpoint
  /\ [RP!DropsOnlyCovered]_(RP!vars) => [R!DropsOnlyCovered]_(R!vars)
BY DEF R!Init, RP!Init, R!Idle, RP!Idle, R!TotalsConserved, RP!TotalsConserved, R!Totals, RP!Totals,
  R!Total, RP!Total, R!CheckpointIsFinal, RP!CheckpointIsFinal,
  R!SecretOpensCheckpoint, RP!SecretOpensCheckpoint, R!DropsOnlyCovered, RP!DropsOnlyCovered,
  R!Covered, RP!Covered, R!vars, RP!vars

LEMMA SameRequests ==
  /\ B!Init <=> BP!Init
  /\ BP!DisclosedIsKept => B!DisclosedIsKept
  /\ BP!ClaimWritesOrdered => B!ClaimWritesOrdered
  /\ BP!DeferredOvershoot => B!DeferredOvershoot
<1>1. B!Deferred = BP!Deferred /\ B!Deferring = BP!Deferring
  BY DEF B!Deferred, BP!Deferred, B!With, BP!With, B!Deferring, BP!Deferring
<1>2. \A T : B!Cardinality(T) = BP!Cardinality(T)
  BY DEF B!Cardinality, BP!Cardinality
<1>3. BP!DeferredOvershoot => B!DeferredOvershoot
  BY <1>1, <1>2 DEF B!DeferredOvershoot, BP!DeferredOvershoot,
     B!countDeferredGlobal, BP!countDeferredGlobal
<1> QED
  BY <1>3 DEF B!Init, BP!Init, B!Idle, BP!Idle, B!DisclosedIsKept, BP!DisclosedIsKept,
     B!ClaimWritesOrdered, BP!ClaimWritesOrdered

(* The taps of the server: money is conserved, checkpoints are final and     *)
(* keep their secrets, and no optimistic row is forgotten, whatever requests *)
(* app.ts runs at the same time.                                             *)
THEOREM ServiceKeepsItsPromises ==
  Spec => /\ [](R!TotalsConserved /\ R!CheckpointIsFinal /\ R!SecretOpensCheckpoint)
          /\ R!OptimisticRowsCovered
<1>1. RP!Spec => []RP!TotalsConserved /\ []RP!CheckpointIsFinal /\ []RP!SecretOpensCheckpoint
                 /\ RP!OptimisticRowsCovered
  BY ServiceAssumptions, RP!MoneyConserved, RP!CheckpointsAreFinal, RP!SecretsOpenCheckpoints,
     RP!OptimisticRowsAreCovered
<1> QED
  BY <1>1, ServiceImplemented, SameService, SameServiceNext, PTL
     DEF ImplementsReservoir, R!Spec, RP!Spec, R!OptimisticRowsCovered, RP!OptimisticRowsCovered

(* The mailbox of the server: commitments that were shown stay, a claim that *)
(* is cut short leaves consistent records, and the deferred queues are bounded *)
(* with the real payment service behind the handlers.                        *)
THEOREM RequestsKeepTheirPromises ==
  Spec => [](B!DisclosedIsKept /\ B!ClaimWritesOrdered /\ B!DeferredOvershoot /\ BP!SharesOvershoot)
<1>1. BP!Spec => /\ []BP!DisclosedIsKept /\ []BP!ClaimWritesOrdered
                 /\ []BP!DeferredOvershoot /\ []BP!SharesOvershoot
  BY RequestAssumptions, BP!DisclosedStays, BP!ClaimsAreOrdered, BP!OvershootIsBounded,
     BP!SharesAreBounded
<1> QED
  BY <1>1, MailboxImplemented, SameRequests, SameRequestNext, PTL DEF ImplementsMailbox, B!Spec, BP!Spec

(* MessageLifecycle is the same module for both instances of Mailbox. *)
LEMMA SameLifecycle ==
  /\ BP!Lifecycle!Init => B!Lifecycle!Init
  /\ [BP!Lifecycle!Next]_<<status, payment>> => [B!Lifecycle!Next]_<<status, payment>>
BY DEF BP!Lifecycle!Init, B!Lifecycle!Init, BP!Lifecycle!Next, B!Lifecycle!Next,
  BP!Lifecycle!Deliver, B!Lifecycle!Deliver, BP!Lifecycle!Defer, B!Lifecycle!Defer,
  BP!Lifecycle!Activate, B!Lifecycle!Activate, BP!Lifecycle!Preview, B!Lifecycle!Preview,
  BP!Lifecycle!Settle, B!Lifecycle!Settle, BP!Lifecycle!Cancel, B!Lifecycle!Cancel,
  BP!Lifecycle!Expire, B!Lifecycle!Expire, BP!Lifecycle!Become, B!Lifecycle!Become,
  BP!Lifecycle!Commit, B!Lifecycle!Commit, BP!Commitment, B!Commitment

(* The life of a message is the one MessageLifecycle promises, with the real *)
(* payment service behind the handlers and signatures between the two parts:  *)
(* no row comes back from settled, cancelled or expired, and no commitment is *)
(* changed after it was written.                                              *)
THEOREM LifecycleIsKept == Spec => B!ImplementsLifecycle
<1>1. BP!Spec => BP!ImplementsLifecycle
  BY RequestAssumptions, BP!LifecycleImplemented
<1>2. BP!ImplementsLifecycle => B!ImplementsLifecycle
  BY SameLifecycle, PTL DEF BP!ImplementsLifecycle, B!ImplementsLifecycle, BP!Lifecycle!Spec, B!Lifecycle!Spec
<1> QED
  BY <1>1, <1>2, MailboxImplemented, SameRequests, SameRequestNext, PTL DEF ImplementsMailbox, B!Spec, BP!Spec

-----------------------------------------------------------------------------
(***************************************************************************)
(* What a handler of app.ts waits for and where the method that it called  *)
(* is waiting belong together: this is what a signature is for.            *)
(***************************************************************************)
LinkedAt(h) ==
  /\ verified[h] # {} => service[h] = R!Idle /\ request[h] = B!Idle
  /\ service[h].op \in {"refund", "reverse"} => request[h].op = "cancel"
  /\ service[h].op = "forward" => request[h].op \in {"create", "activate"}
  /\ service[h].op \in {"lookup", "verify", "open", "sync"} => request[h] = B!Idle
  /\ h \in finished => service[h] = R!Idle /\ request[h].op \in {"create", "activate", "cancel"}

Linked == \A h \in Handler : LinkedAt(h)

LEMMA InitLinked == Init => Linked
BY DEF Init, Linked, LinkedAt, R!Init, B!Init, R!Idle, B!Idle

(* A step that is one handler's leaves those of the others as they are. *)
LEMMA OthersLinked ==
  ASSUME Linked, NEW h \in Handler, LinkedAt(h)',
         \A g \in Handler \ {h} :
           /\ service'[g] = service[g] /\ request'[g] = request[g] /\ verified'[g] = verified[g]
           /\ g \in finished' <=> g \in finished
  PROVE  Linked'
BY DEF Linked, LinkedAt

(* createOutgoingPayment leaves its handler waiting for a signature, or idle. *)
LEMMA OutgoingWaits ==
  ASSUME NEW h, NEW m, NEW proofs, CreateOutgoingPayment(h, m, proofs)
  PROVE  \/ service' = service
         \/ \E s : service' = [service EXCEPT ![h] = s] /\ s.op = "forward"
<1>1. CASE UNCHANGED reservoir
  BY <1>1 DEF reservoir
<1>2. ASSUME NEW p, R!Forward(h, p, To[m])
      PROVE  \E s : service' = [service EXCEPT ![h] = s] /\ s.op = "forward"
  <2>1. PICK state : R!Await(h, [op |-> "forward", pipe |-> To[m], state |-> state])
    BY <1>2 DEF R!Forward
  <2> DEFINE s == [op |-> "forward", pipe |-> To[m], state |-> state]
  <2>2. service' = [service EXCEPT ![h] = s] /\ s.op = "forward"
    BY <2>1 DEF R!Await
  <2> QED
    BY <2>2
<1> QED
  BY <1>1, <1>2 DEF CreateOutgoingPayment

LEMMA NextLinked == TypeOK /\ Linked /\ [Next]_vars => Linked'
<1> SUFFICES ASSUME TypeOK, Linked, [Next]_vars PROVE Linked'
  OBVIOUS
<1>0. /\ service \in [Handler -> R!Call] /\ request \in [Handler -> B!Call]
      /\ verified \in [Handler -> SUBSET accepted]
  BY DEF TypeOK, R!TypeOK, B!TypeOK
<1> DEFINE Others(h) ==
      \A g \in Handler \ {h} :
        /\ service'[g] = service[g] /\ request'[g] = request[g] /\ verified'[g] = verified[g]
        /\ g \in finished' <=> g \in finished
<1> USE DEF mailbox, reservoir, R!Idle, B!Idle
<1>1. ASSUME NEW h \in Handler, NEW p \in Pipe, NEW proof \in R!Proof, Post(h, p, proof)
      PROVE  Others(h) /\ LinkedAt(h)'
  BY <1>0, <1>1 DEF Post, Free, Linked, LinkedAt, R!VerifyTracked, R!VerifyUntracked, R!Await
<1>2. ASSUME NEW h \in Handler, NEW m \in Message, Send(h, m) PROVE Others(h) /\ LinkedAt(h)'
  <2>1. service[h] = R!Idle /\ request[h] = B!Idle /\ h \notin finished
    BY <1>2 DEF Send, Linked, LinkedAt
  <2>2. /\ request' = [request EXCEPT ![h] = [op |-> "create", msg |-> m]]
        /\ verified' = [verified EXCEPT ![h] = {}]
        /\ finished' = finished
    BY <1>2 DEF Send, B!Send, B!Await
  <2>3. \/ service' = service
        \/ \E s : service' = [service EXCEPT ![h] = s] /\ s.op = "forward"
    BY <1>2, OutgoingWaits DEF Send
  <2> QED
    BY <1>0, <2>1, <2>2, <2>3 DEF LinkedAt
<1>3. ASSUME NEW h \in Handler, NEW m \in Message, Cancel(h, m) PROVE Others(h) /\ LinkedAt(h)'
  BY <1>0, <1>3 DEF Cancel, Free, Linked, LinkedAt, R!Cancel, R!Await, B!Cancel, B!Await
<1>4. ASSUME NEW h \in Handler, NEW batch, UNCHANGED verified, h \notin finished',
             \A g \in Handler \ {h} : g \in finished' <=> g \in finished,
             service[h] = R!Idle, verified[h] = {}, B!ActivateNext(h, batch), NextRound(h)
      PROVE  Others(h) /\ LinkedAt(h)'
  <2>1. \E c : request' = [request EXCEPT ![h] = c] /\ (c = B!Idle \/ c.op = "activate")
    BY <1>4 DEF B!ActivateNext, B!Await, B!Return
  <2>2. \/ service' = service
        \/ /\ request'[h] # B!Idle
           /\ \E s : service' = [service EXCEPT ![h] = s] /\ s.op = "forward"
    BY <1>4, OutgoingWaits DEF NextRound
  <2> QED
    BY <1>0, <1>4, <2>1, <2>2 DEF LinkedAt
<1>5. ASSUME NEW h \in Handler, NEW a \in Pipe, GetInbox(h, a) PROVE Others(h) /\ LinkedAt(h)'
  <2>1. h \notin finished
    BY <1>5 DEF GetInbox, Free, Linked, LinkedAt
  <2> QED
    BY <1>4, <1>5, <2>1 DEF GetInbox, B!GetInbox, Free
<1>6. ASSUME NEW h \in Handler, Activated(h) PROVE Others(h) /\ LinkedAt(h)'
  <2>1. service[h] = R!Idle /\ verified[h] = {}
    BY <1>6 DEF Activated, Succeeded, B!Activated, Linked, LinkedAt
  <2> QED
    BY <1>4, <1>6, <2>1 DEF Activated, B!Activated
<1>7. ASSUME NEW h \in Handler, LookedUp(h) \/ Verified(h) \/ Rejected(h)
      PROVE  Others(h) /\ LinkedAt(h)'
  BY <1>0, <1>7 DEF LookedUp, Verified, Rejected, Linked, LinkedAt, R!VerifyLookedUp,
     R!VerifyAccepted, R!Await, R!Return
<1>8. ASSUME NEW h \in Handler, OutgoingSigned(h) \/ Refunded(h) \/ Reversed(h)
      PROVE  Others(h) /\ LinkedAt(h)'
  BY <1>0, <1>8 DEF OutgoingSigned, Refunded, Reversed, Linked, LinkedAt, R!ForwardSigned,
     R!CancelRefunded, R!CancelReversed, R!Await, R!Return
<1>9. ASSUME NEW h \in Handler,
             SendReady(h) \/ SendUnfunded(h) \/ SendDeferred(h) \/ Cancelled(h)
      PROVE  Others(h) /\ LinkedAt(h)'
  BY <1>0, <1>9 DEF SendReady, SendUnfunded, SendDeferred, Cancelled, Succeeded, GaveUp,
     Linked, LinkedAt, B!SendReady, B!SendUnfunded, B!SendDeferred, B!Cancelled, B!Await, B!Return
<1>10. ASSUME NEW h \in Handler, Sync(h) PROVE Others(h) /\ LinkedAt(h)'
  BY <1>0, <1>10 DEF Sync, Free, Linked, LinkedAt, R!SyncTap, R!SyncTapStored, R!Await, R!Return
<1>11. ASSUME NEW h \in Handler, Fail(h) PROVE Others(h) /\ LinkedAt(h)'
  BY <1>0, <1>11 DEF Fail, GaveUp, Linked, LinkedAt, R!Fail, R!Return, B!Fail, B!Return
<1>12. ASSUME UNCHANGED <<service, request, verified, finished>> PROVE Linked'
  BY <1>12 DEF Linked, LinkedAt
<1>13. ASSUME NEW m \in Message, Preview(m) \/ Claim(m) \/ Lapse(m) PROVE Linked'
  BY <1>12, <1>13 DEF Preview, Claim, Lapse, B!Preview, B!Claim, B!Lapse, R!RecordCompleted
<1>14. ASSUME Crashed, request' = [h \in Handler |-> B!Idle] PROVE Linked'
  BY <1>14 DEF Crashed, Linked, LinkedAt
<1>15. ASSUME NEW m \in Message, ClaimCut(m) PROVE Linked'
  BY <1>14, <1>15 DEF ClaimCut, B!ClaimCut
<1>16. CASE Restart
  BY <1>14, <1>16 DEF Restart
<1>17. CASE UNCHANGED vars
  BY <1>12, <1>17 DEF vars
<1>18. ASSUME NEW h \in Handler, Begin(h) \/ Continue(h) PROVE Linked'
  <2> HIDE DEF Others
  <2>1. Others(h) /\ LinkedAt(h)'
    BY <1>1, <1>2, <1>3, <1>5, <1>6, <1>7, <1>8, <1>9, <1>10, <1>11, <1>18 DEF Begin, Continue
  <2> QED
    BY <2>1, OthersLinked DEF Others
<1> QED
  BY <1>13, <1>15, <1>16, <1>17, <1>18 DEF Next

-----------------------------------------------------------------------------
(* Handlers are counted: there are finitely many. *)
LEMMA HandlersCount ==
  ASSUME NEW S \in SUBSET Handler
  PROVE  IsFiniteSet(S) /\ Cardinality(S) \in Nat
<1>1. IsFiniteSet(Handler)
  BY PartsAssumption DEF B!FiniteAssumption, B!IsFiniteSet, IsFiniteSet
<1> QED
  BY <1>1, FS_Subset, FS_CardinalityType

LEMMA FewerHandlers ==
  ASSUME NEW S \in SUBSET Handler, NEW T \in SUBSET S
  PROVE  Cardinality(T) <= Cardinality(S)
BY HandlersCount, FS_Subset

LEMMA OneMoreHandler ==
  ASSUME NEW S \in SUBSET Handler, NEW h \in Handler \ S
  PROVE  Cardinality(S \cup {h}) = Cardinality(S) + 1
BY HandlersCount, FS_AddElement

LEMMA OneHandlerLess ==
  ASSUME NEW S \in SUBSET Handler, NEW h \in S
  PROVE  Cardinality(S \ {h}) = Cardinality(S) - 1
BY HandlersCount, FS_RemoveElement

(* The handler a record of the payment service or the mailbox names a message for. *)
LEMMA WaitsForMessage ==
  ASSUME B!TypeOK, NEW h \in Handler, request[h].op \in {"create", "reason", "activate", "cancel"}
  PROVE  request[h].msg \in Message
BY DEF B!TypeOK, B!Call, B!Idle

-----------------------------------------------------------------------------
(* Commitments: a signed transfer that its handler has not handed out yet. *)
Signed(m) == {h \in finished : request[h].op # "cancel" /\ request[h].msg = m}

LEMMA InitSigned == Init => CommitmentsAreSigned
BY FS_EmptySet DEF Init, CommitmentsAreSigned, B!Init

(* A step that hands nothing out and takes no signature back keeps the balance. *)
LEMMA SignedKept ==
  ASSUME TypeOK, TypeOK', CommitmentsAreSigned,
         \A m \in Message : minted'[m] = minted[m] /\ forwards'[m] = forwards[m],
         \A m \in Message : Signed(m)' \subseteq Signed(m)
  PROVE  CommitmentsAreSigned'
<1> SUFFICES ASSUME NEW m \in Message
             PROVE  minted'[m] + Cardinality(Signed(m)') <= forwards'[m]
  BY DEF CommitmentsAreSigned, Signed
<1>1. Signed(m) \in SUBSET Handler
  BY DEF Signed, TypeOK
<1>2. Cardinality(Signed(m)') <= Cardinality(Signed(m))
  BY <1>1, FewerHandlers
<1>3. minted[m] \in Int /\ forwards[m] \in Nat
  BY PartsAssumption DEF TypeOK, B!TypeOK, B!MintAssumption
<1>4. Cardinality(Signed(m)) \in Nat /\ Cardinality(Signed(m)') \in Nat
  BY <1>1, HandlersCount
<1>5. minted[m] + Cardinality(Signed(m)) <= forwards[m]
  BY DEF CommitmentsAreSigned, Signed
<1> QED
  BY <1>2, <1>3, <1>4, <1>5

(* The commitment is handed out: h has one less, and its message one more. *)
LEMMA SignedHandedOut ==
  ASSUME TypeOK, CommitmentsAreSigned, NEW h \in finished, NEW n \in Message,
         request[h].op # "cancel", request[h].msg = n,
         minted' = [minted EXCEPT ![n] = @ + 1], forwards' = forwards,
         \A m \in Message : Signed(m)' = Signed(m) \ {h}
  PROVE  CommitmentsAreSigned'
<1> SUFFICES ASSUME NEW m \in Message
             PROVE  minted'[m] + Cardinality(Signed(m)') <= forwards[m]
  BY DEF CommitmentsAreSigned, Signed
<1>1. Signed(m) \in SUBSET Handler /\ Signed(m)' = Signed(m) \ {h}
  BY DEF Signed, TypeOK
<1>2. minted \in [Message -> Int] /\ forwards[m] \in Nat
  BY PartsAssumption DEF TypeOK, B!TypeOK, B!MintAssumption
<1>3. minted[m] + Cardinality(Signed(m)) <= forwards[m] /\ Cardinality(Signed(m)) \in Nat
  BY <1>1, HandlersCount DEF CommitmentsAreSigned, Signed
<1>4. CASE m = n
  <2>1. h \in Signed(m)
    BY <1>4 DEF Signed
  <2>2. Cardinality(Signed(m)') = Cardinality(Signed(m)) - 1
    BY <1>1, <2>1, OneHandlerLess
  <2> QED
    BY <1>2, <1>3, <1>4, <2>2
<1>5. CASE m # n
  <2>1. Signed(m)' = Signed(m)
    BY <1>1, <1>5 DEF Signed
  <2> QED
    BY <1>2, <1>3, <1>5, <2>1
<1> QED
  BY <1>4, <1>5

(* The transfer is signed and stored: h holds a commitment for its message. *)
LEMMA SignedTransfer ==
  ASSUME TypeOK, CommitmentsAreSigned, NEW h \in Handler \ finished, NEW n \in Message,
         minted' = minted, Count(forwards, n),
         \A m \in Message : Signed(m)' = IF m = n THEN Signed(m) \cup {h} ELSE Signed(m)
  PROVE  CommitmentsAreSigned'
<1> SUFFICES ASSUME NEW m \in Message
             PROVE  minted[m] + Cardinality(Signed(m)') <= forwards'[m]
  BY DEF CommitmentsAreSigned, Signed
<1>1. Signed(m) \in SUBSET Handler /\ h \notin Signed(m)
  BY DEF Signed, TypeOK
<1>2. minted[m] \in Int /\ forwards \in [Message -> Nat]
  BY PartsAssumption DEF TypeOK, B!TypeOK, B!MintAssumption
<1>3. minted[m] + Cardinality(Signed(m)) <= forwards[m] /\ Cardinality(Signed(m)) \in Nat
  BY <1>1, HandlersCount DEF CommitmentsAreSigned, Signed
<1>4. CASE m = n
  <2>1. Cardinality(Signed(m)') = Cardinality(Signed(m)) + 1
    BY <1>1, <1>4, OneMoreHandler
  <2> QED
    BY <1>2, <1>3, <1>4, <2>1 DEF Count
<1>5. CASE m # n
  BY <1>2, <1>3, <1>5 DEF Count
<1> QED
  BY <1>4, <1>5

LEMMA NextSigned ==
  TypeOK /\ Linked /\ CommitmentsAreSigned /\ [Next]_vars => CommitmentsAreSigned'
<1> SUFFICES ASSUME TypeOK, Linked, CommitmentsAreSigned, [Next]_vars
             PROVE  CommitmentsAreSigned'
  OBVIOUS
<1>0. /\ TypeOK' /\ finished \subseteq Handler
      /\ service \in [Handler -> R!Call] /\ request \in [Handler -> B!Call]
  BY NextType DEF TypeOK, R!TypeOK, B!TypeOK
<1> USE DEF mailbox, money
(* Nothing of the balance changes, and no handler with a commitment moves. *)
<1>1. ASSUME UNCHANGED <<minted, forwards>>,
             \A g \in finished' :
               request'[g].op = "cancel" \/ (g \in finished /\ request'[g] = request[g])
      PROVE  CommitmentsAreSigned'
  <2>1. \A m \in Message : Signed(m)' \subseteq Signed(m)
    BY <1>1 DEF Signed
  <2> QED
    BY <1>0, <1>1, <2>1, SignedKept
<1>2. ASSUME NEW h \in Handler, Begin(h) PROVE CommitmentsAreSigned'
  <2>1. h \notin finished
    <3>1. request[h] = B!Idle
      BY <1>2 DEF Begin, Post, Send, Cancel, GetInbox, Free, B!Send, B!Cancel, B!GetInbox
    <3> QED
      BY <3>1 DEF Linked, LinkedAt, B!Idle
  <2>2. UNCHANGED <<minted, forwards>>
    BY <1>2 DEF Begin, Post, Send, Cancel, GetInbox, B!Send, B!Cancel, B!GetInbox
  <2>3. \A g \in Handler \ {h} : request'[g] = request[g]
    BY <1>0, <1>2 DEF Begin, Post, Send, Cancel, GetInbox, B!Send, B!Cancel, B!GetInbox, B!ActivateNext,
       B!Await, B!Return
  <2>4. finished' = finished \/ (finished' = finished \cup {h} /\ request'[h].op = "cancel")
    <3>1. CASE \E m \in Message : Cancel(h, m)
      BY <1>0, <3>1 DEF Cancel, B!Cancel, B!Await
    <3> QED
      BY <1>2, <3>1 DEF Begin, Post, Send, GetInbox
  <2> QED
    BY <1>0, <1>1, <2>1, <2>2, <2>3, <2>4
<1>3. ASSUME NEW h \in Handler, OutgoingSigned(h) PROVE CommitmentsAreSigned'
  <2> DEFINE n == request[h].msg
  <2>1. request[h].op \in {"create", "activate"} /\ h \notin finished
    BY <1>3 DEF OutgoingSigned, R!ForwardSigned, Linked, LinkedAt, R!Idle
  <2>2. n \in Message
    BY <2>1, WaitsForMessage DEF TypeOK
  <2>3. finished' = finished \cup {h} /\ request' = request /\ minted' = minted /\ Count(forwards, n)
    BY <1>3 DEF OutgoingSigned
  <2>4. \A m \in Message : Signed(m)' = IF m = n THEN Signed(m) \cup {h} ELSE Signed(m)
    BY <2>1, <2>3 DEF Signed
  <2> QED
    BY <2>1, <2>2, <2>3, <2>4, SignedTransfer
<1>4. ASSUME NEW h \in Handler, SendReady(h) \/ Activated(h) PROVE CommitmentsAreSigned'
  <2> DEFINE n == request[h].msg
  <2>1. h \in finished /\ request[h].op \in {"create", "activate"}
    BY <1>4 DEF SendReady, Activated, Succeeded, B!SendReady, B!Activated
  <2>2. n \in Message
    BY <2>1, <1>0, WaitsForMessage DEF TypeOK
  <2>3. finished' = finished \ {h} /\ forwards' = forwards /\ minted' = [minted EXCEPT ![n] = @ + 1]
    BY <1>4 DEF SendReady, Activated, B!SendReady, B!Activated, B!Mint
  <2>4. \A g \in Handler \ {h} : request'[g] = request[g]
    BY <1>0, <1>4 DEF SendReady, Activated, B!SendReady, B!Activated, B!ActivateNext, B!Await, B!Return
  <2>5. \A m \in Message : Signed(m)' = Signed(m) \ {h}
    BY <1>0, <2>3, <2>4 DEF Signed
  <2> QED
    BY <2>1, <2>2, <2>3, <2>5, SignedHandedOut
<1>5. ASSUME NEW h \in Handler, Refunded(h) \/ Reversed(h) PROVE CommitmentsAreSigned'
  <2>1. request[h].op = "cancel"
    BY <1>5 DEF Refunded, Reversed, R!CancelRefunded, R!CancelReversed, Linked, LinkedAt
  <2> QED
    BY <1>1, <1>5, <2>1 DEF Refunded, Reversed
<1>6. ASSUME NEW h \in Handler, SendUnfunded(h) \/ SendDeferred(h) \/ Cancelled(h) \/ Fail(h)
      PROVE  CommitmentsAreSigned'
  <2>1. \/ UNCHANGED <<minted, forwards, finished, request>>
        \/ UNCHANGED <<minted, forwards>> /\ finished' \subseteq finished /\ h \notin finished'
    BY <1>6 DEF SendUnfunded, SendDeferred, Cancelled, Fail, GaveUp, Linked, LinkedAt,
       B!SendUnfunded, B!SendDeferred, B!Cancelled, B!Fail
  <2>2. \A g \in Handler \ {h} : request'[g] = request[g]
    BY <1>0, <1>6 DEF SendUnfunded, SendDeferred, Cancelled, Fail, B!SendUnfunded, B!SendDeferred,
       B!Cancelled, B!Fail, B!Await, B!Return
  <2> QED
    BY <1>0, <1>1, <2>1, <2>2
<1>7. ASSUME NEW h \in Handler, LookedUp(h) \/ Verified(h) \/ Rejected(h) \/ Sync(h)
      PROVE  CommitmentsAreSigned'
  BY <1>1, <1>7 DEF LookedUp, Verified, Rejected, Sync
<1>8. ASSUME NEW m \in Message, Preview(m) \/ Claim(m) \/ Lapse(m) PROVE CommitmentsAreSigned'
  BY <1>1, <1>8 DEF Preview, Claim, Lapse, B!Preview, B!Claim, B!Lapse
<1>9. ASSUME Crashed, UNCHANGED minted PROVE CommitmentsAreSigned'
  BY <1>1, <1>9 DEF Crashed
<1>10. ASSUME NEW m \in Message, ClaimCut(m) PROVE CommitmentsAreSigned'
  BY <1>9, <1>10 DEF ClaimCut, B!ClaimCut
<1>11. CASE Restart
  BY <1>9, <1>11 DEF Restart
<1>12. CASE UNCHANGED vars
  BY <1>1, <1>12 DEF vars
<1> QED
  BY <1>2, <1>3, <1>4, <1>5, <1>6, <1>7, <1>8, <1>10, <1>11, <1>12 DEF Next, Continue

(* Every commitment in the mailbox is backed by a transfer signed for its    *)
(* message, for any number of handlers that run createOutgoingPayment.       *)
THEOREM CommitmentsAreBacked == Spec => []CommitmentsAreSigned
BY InitType, NextType, InitLinked, NextLinked, InitSigned, NextSigned, PTL DEF Spec

-----------------------------------------------------------------------------
(* A message that has a row keeps it, and what it was sent with. *)
Lasting ==
  \A m \in Message : status[m] # "none" =>
    status'[m] # "none" /\ paymentId'[m] = paymentId[m] /\ fee'[m] = fee[m]

LEMMA StatusLasts ==
  B!TypeOK /\ [B!Next]_(B!vars) => \A m \in Message : status[m] # "none" => status'[m] # "none"
BY DEF B!TypeOK, B!Next, B!vars, B!rows, B!Continue, B!Send, B!SendReady, B!SendUnfunded,
  B!SendDeferred, B!saveMessage, B!GetInbox, B!expireDeferredMessages, B!Activated,
  B!activateDeferredMessage, B!Preview, B!Cancel, B!Cancelled, B!cancelMessageBySender,
  B!Claim, B!ClaimCut, B!claimMessage, B!Fail, B!Restart, B!Lapse

LEMMA NextLasting == TypeOK /\ [Next]_vars => Lasting
<1> SUFFICES ASSUME TypeOK, [Next]_vars PROVE Lasting
  OBVIOUS
<1>1. \A m \in Message : status[m] # "none" => status'[m] # "none"
  BY NextMailbox, StatusLasts DEF TypeOK
<1>2. CASE UNCHANGED sent
  BY <1>1, <1>2 DEF Lasting, sent
<1>3. ASSUME NEW h \in Handler, NEW m \in Message, Send(h, m) PROVE Lasting
  BY <1>1, <1>3 DEF Lasting, Send, B!Send, TypeOK
<1> QED
  BY <1>2, <1>3 DEF Next, Begin, Continue, Post, LookedUp, Verified, Rejected, OutgoingSigned,
     SendReady, SendUnfunded, SendDeferred, GetInbox, Activated, Preview, Cancel, Refunded, Reversed,
     Cancelled, Claim, Sync, Fail, Crashed, ClaimCut, Restart, Lapse, vars

(* Only a message that has a row is being cancelled. *)
Requested == \A h \in Handler : request[h].op = "cancel" => status[request[h].msg] # "none"

LEMMA InitRequested == Init => Requested
BY DEF Init, B!Init, B!Idle, Requested

LEMMA NextRequested == TypeOK /\ Requested /\ [Next]_vars => Requested'
<1> SUFFICES ASSUME TypeOK, Requested, [Next]_vars, NEW h \in Handler, request'[h].op = "cancel"
             PROVE  status'[request'[h].msg] # "none"
  BY DEF Requested
<1>1. \A m \in Message : status[m] # "none" => status'[m] # "none"
  BY NextMailbox, StatusLasts DEF TypeOK
<1>2. B!TypeOK /\ B!TypeOK' /\ [B!Next]_(B!vars)
  BY NextParts DEF TypeOK
<1>3. request'[h].msg \in Message
  BY <1>2 DEF B!TypeOK, B!Call, B!Idle
<1>4. request'[h] = request[h] \/ status[request'[h].msg] # "none"
  <2>1. ASSUME NEW g \in Handler, NEW m \in Message, B!Cancel(g, m)
        PROVE  request'[h] = request[h] \/ status[request'[h].msg] # "none"
    BY <1>2, <2>1 DEF B!Cancel, B!Await, B!TypeOK
  <2>2. ASSUME NEW g \in Handler, NEW c, request' = [request EXCEPT ![g] = c], c.op # "cancel"
        PROVE  request'[h] = request[h]
    BY <1>2, <2>2 DEF B!TypeOK
  <2>3. ASSUME NEW g \in Handler, NEW m \in Message, B!Send(g, m) PROVE request'[h] = request[h]
    BY <2>2, <2>3 DEF B!Send, B!Await
  <2>4. ASSUME NEW g \in Handler, NEW batch, B!ActivateNext(g, batch) PROVE request'[h] = request[h]
    <3>1. CASE B!Return(g)
      BY <2>2, <3>1 DEF B!Return, B!Idle
    <3>2. ASSUME NEW m, B!Await(g, [op |-> "activate", msg |-> m, rest |-> batch \ {m}])
          PROVE  request'[h] = request[h]
      BY <2>2, <3>2 DEF B!Await
    <3> QED
      BY <2>4, <3>1, <3>2 DEF B!ActivateNext
  <2>5. ASSUME NEW g \in Handler, B!Continue(g) PROVE request'[h] = request[h]
    <3>1. CASE B!Activated(g)
      BY <3>1, <2>4 DEF B!Activated
    <3> QED
      BY <2>2, <2>5, <3>1 DEF B!Continue, B!SendReady, B!SendUnfunded, B!SendDeferred, B!Cancelled,
         B!Fail, B!Await, B!Return, B!Idle
  <2>6. ASSUME NEW m \in Message, B!Preview(m) \/ B!Claim(m) \/ B!ClaimCut(m) \/ B!Lapse(m)
        PROVE  request'[h] = request[h]
    BY <2>6 DEF B!Preview, B!Claim, B!ClaimCut, B!Lapse, B!Idle
  <2>7. ASSUME NEW g \in Handler, NEW a \in Pipe, B!GetInbox(g, a) PROVE request'[h] = request[h]
    BY <2>4, <2>7 DEF B!GetInbox
  <2>8. B!Restart \/ UNCHANGED B!vars => request'[h] = request[h]
    BY DEF B!Restart, B!vars, B!Idle
  <2> QED
    BY <1>2, <2>1, <2>3, <2>5, <2>6, <2>7, <2>8 DEF B!Next
<1> QED
  BY <1>1, <1>3, <1>4 DEF Requested

-----------------------------------------------------------------------------
(* Refunds: what is due is signed before its cancellation reverses a        *)
(* transfer, and both before the row of the message becomes cancelled.      *)
Due(m) == refunds[m] > 0 \/ NothingDue(m)

Reversing(m) == {h \in Handler : service[h].op = "reverse" /\ request[h].msg = m}

Refunding(h) == request[h].op = "cancel" /\ (h \in finished \/ service[h].op = "reverse")

RefundsFirst ==
  /\ \A h \in Handler : Refunding(h) => Due(request[h].msg)
  /\ \A m \in Message : status[m] = "cancelled" => Due(m)
  /\ \A m \in Message : reversals[m] + Cardinality(Reversing(m)) <= refunds[m]

LEMMA InitRefunds == Init => RefundsFirst
<1> SUFFICES ASSUME Init PROVE RefundsFirst
  OBVIOUS
<1>1. \A m \in Message : Reversing(m) = {}
  BY DEF Init, R!Init, R!Idle, Reversing
<1>2. \A h \in Handler : ~ Refunding(h)
  BY DEF Init, B!Init, B!Idle, Refunding
<1>3. \A m \in Message : status[m] = "none" /\ reversals[m] = 0 /\ refunds[m] = 0
  BY DEF Init, B!Init
<1> QED
  BY <1>1, <1>2, <1>3, FS_EmptySet DEF RefundsFirst

LEMMA ReversingCount ==
  ASSUME NEW m PROVE Reversing(m) \in SUBSET Handler /\ Cardinality(Reversing(m)) \in Nat
BY HandlersCount DEF Reversing

(* A handler gives up what it was doing for a cancellation, or goes on with it. *)
Resumes(h) ==
  \/ service'[h].op # "reverse" /\ (Refunding(h)' => Due(request[h].msg)')
  \/ /\ service'[h] = service[h] /\ request'[h] = request[h]
     /\ h \in finished' => h \in finished

(* What the sender of a message has been given stays given. *)
LEMMA DueKept ==
  ASSUME TypeOK, Lasting, NEW m \in Message, status[m] # "none", Due(m),
         refunds[m] > 0 => refunds'[m] > 0
  PROVE  Due(m)'
<1>1. paymentId'[m] = paymentId[m] /\ fee'[m] = fee[m]
  BY DEF Lasting
<1> QED
  BY <1>1 DEF Due, NothingDue, R!NothingToRefund

(* A handler that goes on with its cancellation has given its sender the same. *)
LEMMA RefundingKept ==
  ASSUME TypeOK, Requested, RefundsFirst, Lasting, NEW h \in Handler, Refunding(h),
         request'[h] = request[h],
         \A m \in Message : refunds[m] > 0 => refunds'[m] > 0
  PROVE  Due(request[h].msg)'
<1>1. request[h].msg \in Message /\ status[request[h].msg] # "none"
  BY WaitsForMessage DEF TypeOK, Refunding, Requested
<1>2. Due(request[h].msg)
  BY DEF RefundsFirst
<1>3. PICK m \in Message : m = request[h].msg
  BY <1>1
<1>4. Due(m)'
  BY <1>1, <1>2, <1>3, DueKept
<1> QED
  BY <1>3, <1>4 DEF Due, NothingDue

(* A step without a refund or a reversal. *)
LEMMA RefundsKept ==
  ASSUME TypeOK, Requested, RefundsFirst, Lasting, UNCHANGED <<refunds, reversals>>,
         \A h \in Handler : Resumes(h),
         \A m \in Message : status'[m] = "cancelled" => status[m] # "none" /\ Due(m)
  PROVE  RefundsFirst'
<1>0. \A m \in Message : refunds[m] > 0 => refunds'[m] > 0
  BY DEF TypeOK
<1>1. ASSUME NEW h \in Handler, Refunding(h)' PROVE Due(request[h].msg)'
  <2>1. CASE service'[h] = service[h] /\ request'[h] = request[h] /\ (h \in finished' => h \in finished)
    <3>1. Refunding(h)
      BY <1>1, <2>1 DEF Refunding
    <3> QED
      BY <1>0, <2>1, <3>1, RefundingKept
  <2> QED
    BY <1>1, <2>1 DEF Resumes
<1>2. ASSUME NEW m \in Message PROVE reversals'[m] + Cardinality(Reversing(m)') <= refunds'[m]
  <2>1. Reversing(m)' \subseteq Reversing(m)
    BY DEF Reversing, Resumes
  <2>2. Cardinality(Reversing(m)') <= Cardinality(Reversing(m))
    BY <2>1, ReversingCount, FewerHandlers
  <2>3. Cardinality(Reversing(m)') \in Nat /\ Cardinality(Reversing(m)) \in Nat
    BY <2>1, ReversingCount, HandlersCount
  <2>4. reversals[m] \in Nat /\ refunds[m] \in Nat
    BY DEF TypeOK
  <2>5. reversals[m] + Cardinality(Reversing(m)) <= refunds[m]
    BY DEF RefundsFirst
  <2> QED
    BY <2>2, <2>3, <2>4, <2>5
<1>3. ASSUME NEW m \in Message, status'[m] = "cancelled" PROVE Due(m)'
  BY <1>0, <1>3, DueKept
<1> QED
  BY <1>1, <1>2, <1>3 DEF RefundsFirst

(* The refund is signed, and a reversal may have been started. *)
LEMMA RefundSigned ==
  ASSUME TypeOK, Requested, RefundsFirst, Lasting, NEW h \in Handler, NEW n \in Message,
         service[h].op = "refund", request[h].msg = n, UNCHANGED <<request, reversals, status>>,
         Count(refunds, n), finished' \subseteq finished \cup {h},
         \A g \in Handler \ {h} : service'[g] = service[g]
  PROVE  RefundsFirst'
<1>1. refunds \in [Message -> Nat] /\ reversals \in [Message -> Nat]
  BY DEF TypeOK
<1>2. \A m \in Message : refunds'[m] = IF m = n THEN refunds[m] + 1 ELSE refunds[m]
  BY <1>1 DEF Count
<1>0. \A m \in Message : refunds[m] > 0 => refunds'[m] > 0
  BY <1>1, <1>2
<1>3. ASSUME NEW g \in Handler, Refunding(g)' PROVE Due(request[g].msg)'
  <2>1. CASE g = h
    <3>1. refunds'[request'[g].msg] > 0
      BY <1>1, <1>2, <2>1
    <3> QED
      BY <3>1 DEF Due
  <2>2. CASE g # h
    <3>1. Refunding(g)
      BY <1>3, <2>2 DEF Refunding
    <3> QED
      BY <1>0, <3>1, RefundingKept
  <2> QED
    BY <2>1, <2>2
<1>4. ASSUME NEW m \in Message PROVE reversals'[m] + Cardinality(Reversing(m)') <= refunds'[m]
  <2>1. Reversing(m) \in SUBSET Handler /\ h \notin Reversing(m)
    BY DEF Reversing
  <2>2. Reversing(m)' \subseteq IF m = n THEN Reversing(m) \cup {h} ELSE Reversing(m)
    BY DEF Reversing
  <2>3. Cardinality(Reversing(m)') <= Cardinality(Reversing(m)) + (IF m = n THEN 1 ELSE 0)
    <3>1. Cardinality(Reversing(m) \cup {h}) = Cardinality(Reversing(m)) + 1
      BY <2>1, OneMoreHandler
    <3>2. CASE m = n
      <4>1. Reversing(m) \cup {h} \in SUBSET Handler /\ Reversing(m)' \in SUBSET (Reversing(m) \cup {h})
        BY <2>1, <2>2, <3>2
      <4> QED
        BY <4>1, <3>1, <3>2, FewerHandlers
    <3>3. CASE m # n
      <4>1. Cardinality(Reversing(m)') <= Cardinality(Reversing(m))
        BY <2>1, <2>2, <3>3, FewerHandlers
      <4> QED
        BY <3>3, <4>1, ReversingCount
    <3> QED
      BY <3>2, <3>3
  <2>4. Reversing(m)' \in SUBSET Handler
    BY <2>1, <2>2
  <2>5. Cardinality(Reversing(m)') \in Nat /\ Cardinality(Reversing(m)) \in Nat
    BY <2>1, <2>4, HandlersCount
  <2>6. reversals[m] + Cardinality(Reversing(m)) <= refunds[m]
    BY DEF RefundsFirst
  <2> QED
    BY <1>1, <1>2, <2>3, <2>5, <2>6
<1>5. ASSUME NEW m \in Message, status'[m] = "cancelled" PROVE Due(m)'
  BY <1>0, <1>5, DueKept DEF RefundsFirst
<1> QED
  BY <1>3, <1>4, <1>5 DEF RefundsFirst

(* The transfer is taken back. *)
LEMMA ReversalSigned ==
  ASSUME TypeOK, Requested, RefundsFirst, Lasting, NEW h \in Handler, NEW n \in Message,
         service[h].op = "reverse", request[h].op = "cancel", request[h].msg = n,
         service'[h].op # "reverse", UNCHANGED <<request, refunds, status>>,
         Count(reversals, n), finished' \subseteq finished \cup {h},
         \A g \in Handler \ {h} : service'[g] = service[g]
  PROVE  RefundsFirst'
<1>1. refunds \in [Message -> Nat] /\ reversals \in [Message -> Nat]
  BY DEF TypeOK
<1>0. \A m \in Message : refunds[m] > 0 => refunds'[m] > 0
  BY <1>1
<1>2. ASSUME NEW g \in Handler, Refunding(g)' PROVE Due(request[g].msg)'
  <2>1. Refunding(g)
    BY <1>2 DEF Refunding
  <2> QED
    BY <1>0, <2>1, RefundingKept
<1>3. ASSUME NEW m \in Message PROVE reversals'[m] + Cardinality(Reversing(m)') <= refunds[m]
  <2>1. Reversing(m) \in SUBSET Handler /\ Reversing(m)' = Reversing(m) \ {h}
    BY DEF Reversing
  <2>2. reversals[m] + Cardinality(Reversing(m)) <= refunds[m] /\ Cardinality(Reversing(m)) \in Nat
    BY ReversingCount DEF RefundsFirst
  <2>3. CASE m = n
    <3>1. h \in Reversing(m)
      BY <2>3 DEF Reversing
    <3>2. Cardinality(Reversing(m)') = Cardinality(Reversing(m)) - 1
      BY <2>1, <3>1, OneHandlerLess
    <3> QED
      BY <1>1, <2>2, <2>3, <3>2 DEF Count
  <2>4. CASE m # n
    <3>1. Reversing(m)' = Reversing(m)
      BY <2>1, <2>4 DEF Reversing
    <3> QED
      BY <1>1, <2>2, <2>4, <3>1 DEF Count
  <2> QED
    BY <2>3, <2>4
<1>4. ASSUME NEW m \in Message, status'[m] = "cancelled" PROVE Due(m)'
  BY <1>0, <1>4, DueKept DEF RefundsFirst
<1> QED
  BY <1>2, <1>3, <1>4 DEF RefundsFirst

LEMMA NextRefunds == TypeOK /\ Linked /\ Requested /\ RefundsFirst /\ [Next]_vars => RefundsFirst'
<1> SUFFICES ASSUME TypeOK, Linked, Requested, RefundsFirst, [Next]_vars, Lasting PROVE RefundsFirst'
  BY NextLasting
<1>0. /\ service \in [Handler -> R!Call] /\ request \in [Handler -> B!Call]
      /\ status \in [Message -> B!Status]
      /\ \A m \in Message : status[m] = "cancelled" => status[m] # "none" /\ Due(m)
  BY DEF TypeOK, R!TypeOK, B!TypeOK, RefundsFirst
<1> USE DEF mailbox, money, rows, B!rows, R!Idle, B!Idle
<1> DEFINE Quiet == \A m \in Message : status'[m] = "cancelled" => status[m] = "cancelled"
<1>1. ASSUME NEW h \in Handler, Begin(h) PROVE RefundsFirst'
  <2>1. request[h] = B!Idle /\ service[h] = R!Idle /\ h \notin finished
    <3>1. request[h] = B!Idle /\ service[h] = R!Idle
      BY <1>1 DEF Begin, Post, Send, Cancel, GetInbox, Free, B!Send, Linked, LinkedAt
    <3> QED
      BY <3>1 DEF Linked, LinkedAt
  <2>2. UNCHANGED <<refunds, reversals>> /\ \A g \in Handler \ {h} : g \in finished' => g \in finished
    BY <1>1 DEF Begin, Post, Send, Cancel, GetInbox
  <2>3. Quiet
    BY <1>0, <1>1 DEF Begin, Post, Send, Cancel, GetInbox, B!Send, B!Cancel, B!GetInbox,
       B!expireDeferredMessages
  <2>4. \A g \in Handler \ {h} : request'[g] = request[g] /\ service'[g] = service[g]
    <3>1. CASE \E p \in Pipe, proof \in R!Proof : Post(h, p, proof)
      BY <1>0, <3>1 DEF Post, R!VerifyTracked, R!VerifyUntracked, R!Await
    <3>2. CASE \E m \in Message : Send(h, m)
      BY <1>0, <3>2, OutgoingWaits DEF Send, B!Send, B!Await
    <3>3. CASE \E m \in Message : Cancel(h, m)
      BY <1>0, <3>3 DEF Cancel, reservoir, B!Cancel, B!Await, R!Cancel, R!Await
    <3>4. CASE \E a \in Pipe : GetInbox(h, a)
      BY <1>0, <3>4, OutgoingWaits DEF GetInbox, NextRound, reservoir, B!GetInbox, B!ActivateNext,
         B!Await, B!Return
    <3> QED
      BY <1>1, <3>1, <3>2, <3>3, <3>4 DEF Begin
  <2>5. service'[h].op # "reverse"
    <3>1. CASE \E p \in Pipe, proof \in R!Proof : Post(h, p, proof)
      BY <1>0, <3>1 DEF Post, R!VerifyTracked, R!VerifyUntracked, R!Await
    <3>2. CASE \E m \in Message : Send(h, m)
      BY <1>0, <2>1, <3>2, OutgoingWaits DEF Send
    <3>3. CASE \E m \in Message : Cancel(h, m)
      BY <1>0, <2>1, <3>3 DEF Cancel, reservoir, R!Cancel, R!Await
    <3>4. CASE \E a \in Pipe : GetInbox(h, a)
      BY <1>0, <2>1, <3>4, OutgoingWaits DEF GetInbox, NextRound, reservoir
    <3> QED
      BY <1>1, <3>1, <3>2, <3>3, <3>4 DEF Begin
  <2>6. Refunding(h)' => Due(request[h].msg)'
    <3>1. CASE \E m \in Message : Cancel(h, m)
      <4>1. PICK m \in Message : Cancel(h, m)
        BY <3>1
      <4>2. request'[h].msg = m /\ UNCHANGED sent
        BY <1>0, <4>1 DEF Cancel, B!Cancel, B!Await
      <4>3. h \in finished' => NothingDue(m)
        BY <2>1, <4>1 DEF Cancel
      <4>4. NothingDue(m) => Due(request[h].msg)'
        BY <4>2 DEF Due, NothingDue, R!NothingToRefund, sent
      <4> QED
        BY <2>5, <4>3, <4>4 DEF Refunding
    <3>2. CASE ~ \E m \in Message : Cancel(h, m)
      <4>1. finished' = finished
        BY <1>1, <3>2 DEF Begin, Post, Send, GetInbox
      <4> QED
        BY <2>1, <2>5, <4>1 DEF Refunding
    <3> QED
      BY <3>1, <3>2
  <2>7. \A g \in Handler : Resumes(g)
    BY <2>2, <2>4, <2>5, <2>6 DEF Resumes
  <2> QED
    BY <1>0, <2>2, <2>3, <2>7, RefundsKept
<1>2. ASSUME NEW h \in Handler, Refunded(h) PROVE RefundsFirst'
  <2> DEFINE n == request[h].msg
  <2>1. service[h].op = "refund" /\ request[h].op = "cancel"
    BY <1>2 DEF Refunded, R!CancelRefunded, Linked, LinkedAt
  <2>2. n \in Message
    BY <2>1, WaitsForMessage DEF TypeOK
  <2>3. UNCHANGED <<request, reversals, status>> /\ Count(refunds, n) /\ finished' \subseteq finished \cup {h}
    BY <1>2 DEF Refunded
  <2>4. \A g \in Handler \ {h} : service'[g] = service[g]
    BY <1>0, <1>2 DEF Refunded, R!CancelRefunded, R!Await, R!Return
  <2> QED
    BY <2>1, <2>2, <2>3, <2>4, RefundSigned
<1>3. ASSUME NEW h \in Handler, Reversed(h) PROVE RefundsFirst'
  <2> DEFINE n == request[h].msg
  <2>1. service[h].op = "reverse" /\ request[h].op = "cancel"
    BY <1>3 DEF Reversed, R!CancelReversed, Linked, LinkedAt
  <2>2. n \in Message
    BY <2>1, WaitsForMessage DEF TypeOK
  <2>3. UNCHANGED <<request, refunds, status>> /\ Count(reversals, n) /\ finished' \subseteq finished \cup {h}
    BY <1>3 DEF Reversed
  <2>4. service'[h].op # "reverse" /\ \A g \in Handler \ {h} : service'[g] = service[g]
    BY <1>0, <1>3 DEF Reversed, R!CancelReversed, R!Return
  <2> QED
    BY <2>1, <2>2, <2>3, <2>4, ReversalSigned
<1>4. ASSUME NEW h \in Handler, Cancelled(h) PROVE RefundsFirst'
  <2> DEFINE n == request[h].msg
  <2>1. h \in finished /\ request[h].op = "cancel" /\ service[h] = R!Idle
    BY <1>4 DEF Cancelled, Succeeded, B!Cancelled, Linked, LinkedAt
  <2>2. n \in Message /\ status[n] # "none" /\ Due(n)
    BY <2>1, WaitsForMessage DEF TypeOK, Requested, RefundsFirst, Refunding
  <2>3. \A m \in Message : status'[m] = "cancelled" => m = n \/ status[m] = "cancelled"
    BY <1>0, <1>4 DEF Cancelled, B!Cancelled, B!cancelMessageBySender
  <2>4. UNCHANGED <<refunds, reversals, service>> /\ finished' = finished \ {h}
        /\ request' = [request EXCEPT ![h] = B!Idle]
    BY <1>4 DEF Cancelled, B!Cancelled, B!Return, reservoir
  <2> QED
    BY <1>0, <2>1, <2>2, <2>3, <2>4, RefundsKept DEF Resumes, Refunding
<1>5. ASSUME NEW h \in Handler, Activated(h) PROVE RefundsFirst'
  <2>1. h \in finished /\ request[h].op = "activate" /\ service[h] = R!Idle
    BY <1>5 DEF Activated, Succeeded, B!Activated, Linked, LinkedAt
  <2>2. Quiet
    BY <1>0, <1>5 DEF Activated, B!Activated, B!activateDeferredMessage
  <2>3. service' = service \/ \E s : service' = [service EXCEPT ![h] = s] /\ s.op = "forward"
    BY <1>5, OutgoingWaits DEF Activated, NextRound, reservoir
  <2>4. service'[h].op # "reverse" /\ \A g \in Handler \ {h} : service'[g] = service[g]
    BY <1>0, <2>1, <2>3
  <2>5. \A g \in Handler \ {h} : request'[g] = request[g]
    BY <1>0, <1>5 DEF Activated, B!Activated, B!ActivateNext, B!Await, B!Return
  <2>6. UNCHANGED <<refunds, reversals>> /\ finished' = finished \ {h}
    BY <1>5 DEF Activated
  <2> QED
    BY <1>0, <2>2, <2>4, <2>5, <2>6, RefundsKept DEF Resumes, Refunding
<1>6. ASSUME NEW h \in Handler, SendReady(h) \/ SendUnfunded(h) \/ SendDeferred(h)
      PROVE  RefundsFirst'
  <2>1. Quiet
    BY <1>0, <1>6 DEF SendReady, SendUnfunded, SendDeferred, B!SendReady, B!SendUnfunded,
       B!SendDeferred, B!saveMessage
  <2>2. UNCHANGED <<refunds, reversals, service>> /\ finished' \subseteq finished
    BY <1>6 DEF SendReady, SendUnfunded, SendDeferred, reservoir
  <2>3. request'[h].op # "cancel" /\ \A g \in Handler \ {h} : request'[g] = request[g]
    BY <1>0, <1>6 DEF SendReady, SendUnfunded, SendDeferred, B!SendReady, B!SendUnfunded,
       B!SendDeferred, B!Await, B!Return
  <2>4. service[h].op # "reverse"
    BY <1>6 DEF SendReady, SendUnfunded, SendDeferred, B!SendReady, B!SendUnfunded, B!SendDeferred,
       Linked, LinkedAt
  <2> QED
    BY <1>0, <2>1, <2>2, <2>3, <2>4, RefundsKept DEF Resumes, Refunding
<1>7. ASSUME NEW h \in Handler,
             LookedUp(h) \/ Verified(h) \/ Rejected(h) \/ OutgoingSigned(h) \/ Sync(h) \/ Fail(h)
      PROVE  RefundsFirst'
  <2>1. UNCHANGED <<refunds, reversals, status>>
    BY <1>7 DEF LookedUp, Verified, Rejected, OutgoingSigned, Sync, Fail, B!Fail
  <2>2. \A g \in Handler \ {h} :
          service'[g] = service[g] /\ request'[g] = request[g] /\ (g \in finished' => g \in finished)
    BY <1>0, <1>7 DEF LookedUp, Verified, Rejected, OutgoingSigned, Sync, Fail, reservoir,
       B!Fail, B!Return, R!VerifyLookedUp, R!VerifyAccepted, R!ForwardSigned, R!SyncTap, R!SyncTapStored,
       R!Fail, R!Await, R!Return
  <2>3. Resumes(h)
    <3>1. CASE LookedUp(h)
      BY <1>0, <3>1 DEF LookedUp, R!VerifyLookedUp, R!Await, Resumes, Refunding, Linked, LinkedAt
    <3>2. CASE Verified(h)
      BY <1>0, <3>2 DEF Verified, R!VerifyAccepted, R!Return, Resumes, Refunding, Linked, LinkedAt
    <3>3. CASE Rejected(h)
      BY <3>3 DEF Rejected, Resumes, reservoir
    <3>4. CASE OutgoingSigned(h)
      BY <1>0, <3>4 DEF OutgoingSigned, R!ForwardSigned, R!Return, Resumes, Refunding, Linked, LinkedAt
    <3>5. CASE Sync(h)
      BY <1>0, <3>5 DEF Sync, Free, R!SyncTap, R!SyncTapStored, R!Await, R!Return, Resumes, Refunding,
         Linked, LinkedAt
    <3>6. CASE Fail(h)
      BY <1>0, <3>6 DEF Fail, GaveUp, reservoir, R!Fail, R!Return, B!Fail, B!Return, Resumes, Refunding,
         Linked, LinkedAt
    <3> QED
      BY <1>7, <3>1, <3>2, <3>3, <3>4, <3>5, <3>6
  <2> QED
    BY <1>0, <2>1, <2>2, <2>3, RefundsKept DEF Resumes
<1>8. ASSUME UNCHANGED <<refunds, reversals, service, request, finished>>, Quiet PROVE RefundsFirst'
  BY <1>0, <1>8, RefundsKept DEF Resumes
<1>9. ASSUME NEW m \in Message, Preview(m) \/ Claim(m) \/ Lapse(m) PROVE RefundsFirst'
  <2>1. Quiet
    BY <1>0, <1>9 DEF Preview, Claim, Lapse, B!Preview, B!Claim, B!claimMessage, B!Lapse
  <2> QED
    BY <1>8, <1>9, <2>1 DEF Preview, Claim, Lapse, B!Preview, B!Claim, B!Lapse, R!RecordCompleted,
       reservoir
<1>10. ASSUME Crashed, Quiet PROVE RefundsFirst'
  <2>1. \A h \in Handler : Resumes(h)
    BY <1>10 DEF Crashed, Resumes, Refunding
  <2> QED
    BY <1>0, <1>10, <2>1, RefundsKept DEF Crashed
<1>11. ASSUME NEW m \in Message, ClaimCut(m) PROVE RefundsFirst'
  <2>1. Quiet
    BY <1>0, <1>11 DEF ClaimCut, B!ClaimCut, B!claimMessage
  <2> QED
    BY <1>10, <1>11, <2>1 DEF ClaimCut
<1>12. CASE Restart
  <2>1. Quiet
    BY <1>12 DEF Restart
  <2> QED
    BY <1>10, <1>12, <2>1 DEF Restart
<1>13. CASE UNCHANGED vars
  <2>1. Quiet
    BY <1>13 DEF vars
  <2> QED
    BY <1>8, <1>13, <2>1 DEF vars, reservoir
<1> QED
  BY <1>1, <1>2, <1>3, <1>4, <1>5, <1>6, <1>7, <1>9, <1>11, <1>12, <1>13 DEF Next, Continue

(* No message is cancelled before a refund of its sender is signed, unless   *)
(* the fee it was sent with left nothing to refund, and no transfer is taken *)
(* back before one is, however many cancellations and crashes there are.     *)
THEOREM CancellationsRefundFirst == Spec => []CancelledIsRefunded
<1>1. TypeOK /\ RefundsFirst => CancelledIsRefunded
  <2> SUFFICES ASSUME TypeOK, RefundsFirst, NEW m \in Message
               PROVE  /\ status[m] = "cancelled" => refunds[m] > 0 \/ NothingDue(m)
                      /\ reversals[m] <= refunds[m]
    BY DEF CancelledIsRefunded
  <2>1. Cardinality(Reversing(m)) \in Nat
    BY ReversingCount
  <2>2. reversals[m] \in Nat /\ refunds[m] \in Nat
    BY DEF TypeOK
  <2> QED
    BY <2>1, <2>2 DEF RefundsFirst, Due
<1> QED
  BY <1>1, InitType, NextType, InitLinked, NextLinked, InitRequested, NextRequested, InitRefunds,
     NextRefunds, PTL DEF Spec
=============================================================================
