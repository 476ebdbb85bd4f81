---------------------------- MODULE MailboxProofs ---------------------------
(***************************************************************************)
(* Proofs about Mailbox, for any finite sets of messages and handlers, any *)
(* addresses and any caps.                                                 *)
(***************************************************************************)
EXTENDS Mailbox, TLAPS, FiniteSetTheorems

-----------------------------------------------------------------------------
(* Type correctness. *)

LEMMA InitType == Init => TypeOK
BY MintAssumption DEF Init, TypeOK, Status, Call, Idle

LEMMA CountIsNat ==
  ASSUME NEW S \in SUBSET Message
  PROVE  IsFiniteSet(S) /\ Cardinality(S) \in Nat
BY FiniteAssumption, FS_Subset, FS_CardinalityType

(* What ActivateNext leaves in the locals of a handler. *)
LEMMA ActivateNextType ==
  ASSUME TypeOK, NEW h \in Handler, NEW batch \in SUBSET Message, ActivateNext(h, batch)
  PROVE  call' \in [Handler -> Call]
<1>1. CASE Return(h)
  BY <1>1 DEF TypeOK, Return, Call
<1>2. ASSUME NEW m \in Oldest(batch, 1),
             Await(h, [op |-> "activate", msg |-> m, rest |-> batch \ {m}])
      PROVE  call' \in [Handler -> Call]
  <2>1. m \in Message /\ batch \ {m} \in SUBSET Message
    BY DEF Oldest
  <2> QED
    BY <1>2, <2>1 DEF TypeOK, Await, Call
<1> QED
  BY <1>1, <1>2 DEF ActivateNext

LEMMA MintType ==
  ASSUME TypeOK, NEW m \in Message, Mint(m)
  PROVE  minted' \in [Message -> 0..MaxMint] /\ minted[m] + 1 \in Commitment
BY MintAssumption DEF TypeOK, Mint, Commitment

LEMMA saveMessageType ==
  ASSUME TypeOK, NEW m \in Message, NEW state \in Status, NEW commitment \in SUBSET Commitment,
         saveMessage(m, state, commitment)
  PROVE  /\ status' \in [Message -> Status]
         /\ payment' \in [Message -> SUBSET Commitment]
         /\ sentAt' \in [Message -> Nat]
         /\ lapsed' \in SUBSET Message
<1>1. Cardinality({n \in Message : status[n] # "none"}) \in Nat
  BY CountIsNat
<1> QED
  BY <1>1 DEF saveMessage, TypeOK

LEMMA NextType == TypeOK /\ [Next]_vars => TypeOK'
<1> SUFFICES ASSUME TypeOK, [Next]_vars PROVE TypeOK'
  OBVIOUS
<1> USE DEF TypeOK
<1>1. ASSUME NEW h \in Handler, NEW m \in Message, Send(h, m) \/ Cancel(h, m) PROVE TypeOK'
  BY <1>1 DEF Send, Cancel, Await, Call, rows
<1>2. ASSUME NEW h \in Handler, NEW a \in Address, GetInbox(h, a) PROVE TypeOK'
  <2>1. getDeferredMessagesForRecipient(a) \in SUBSET Message
    BY DEF getDeferredMessagesForRecipient, Oldest, Deferred, With
  <2>2. call' \in [Handler -> Call]
    BY <1>2, <2>1, ActivateNextType DEF GetInbox
  <2>3. status' \in [Message -> Status]
    BY <1>2 DEF GetInbox, expireDeferredMessages, Status
  <2> QED
    BY <1>2, <2>2, <2>3 DEF GetInbox
<1>3. ASSUME NEW h \in Handler, SendReady(h) PROVE TypeOK'
  <2>1. call[h].msg \in Message
    BY <1>3 DEF SendReady, Call, Idle
  <2>2. {minted[call[h].msg] + 1} \in SUBSET Commitment /\ minted' \in [Message -> 0..MaxMint]
    BY <1>3, <2>1, MintType DEF SendReady
  <2>3. /\ status' \in [Message -> Status]
        /\ payment' \in [Message -> SUBSET Commitment]
        /\ sentAt' \in [Message -> Nat]
        /\ lapsed' \in SUBSET Message
    BY <1>3, <2>1, <2>2, saveMessageType DEF SendReady, Status
  <2> QED
    BY <1>3, <2>2, <2>3 DEF SendReady, Return, Call
<1>4. ASSUME NEW h \in Handler, SendUnfunded(h) PROVE TypeOK'
  BY <1>4 DEF SendUnfunded, Await, Call, Idle, rows
<1>5. ASSUME NEW h \in Handler, SendDeferred(h) PROVE TypeOK'
  <2>1. call[h].msg \in Message
    BY <1>5 DEF SendDeferred, Call, Idle
  <2>2. /\ status' \in [Message -> Status]
        /\ payment' \in [Message -> SUBSET Commitment]
        /\ sentAt' \in [Message -> Nat]
        /\ lapsed' \in SUBSET Message
    BY <1>5, <2>1, saveMessageType DEF SendDeferred, Status
  <2> QED
    BY <1>5, <2>2 DEF SendDeferred, Return, Call
<1>6. ASSUME NEW h \in Handler, Activated(h) PROVE TypeOK'
  <2>1. call[h].msg \in Message /\ call[h].rest \in SUBSET Message
    BY <1>6 DEF Activated, Call, Idle
  <2>2. {minted[call[h].msg] + 1} \in SUBSET Commitment /\ minted' \in [Message -> 0..MaxMint]
    BY <1>6, <2>1, MintType DEF Activated
  <2>3. call' \in [Handler -> Call]
    BY <1>6, <2>1, ActivateNextType DEF Activated
  <2>4. status' \in [Message -> Status] /\ payment' \in [Message -> SUBSET Commitment]
    BY <1>6, <2>1, <2>2 DEF Activated, activateDeferredMessage, Status
  <2> QED
    BY <1>6, <2>2, <2>3, <2>4 DEF Activated
<1>7. ASSUME NEW h \in Handler, Cancelled(h) PROVE TypeOK'
  <2>1. status' \in [Message -> Status] /\ payment' \in [Message -> SUBSET Commitment]
    BY <1>7 DEF Cancelled, cancelMessageBySender, Status
  <2> QED
    BY <1>7, <2>1 DEF Cancelled, Return, Call
<1>8. ASSUME NEW h \in Handler, Fail(h) PROVE TypeOK'
  BY <1>8 DEF Fail, Return, Call, rows
<1>9. ASSUME NEW m \in Message, Preview(m) PROVE TypeOK'
  BY <1>9 DEF Preview, Status
<1>10. ASSUME NEW m \in Message, Claim(m) \/ ClaimCut(m) PROVE TypeOK'
  BY <1>10 DEF Claim, ClaimCut, claimMessage, recordSettlement, recordCompletedIncomingPayment,
               Status, Call
<1>11. ASSUME NEW m \in Message, Lapse(m) PROVE TypeOK'
  BY <1>11 DEF Lapse
<1>12. CASE Restart
  BY <1>12 DEF Restart, Call, rows
<1>13. CASE UNCHANGED vars
  BY <1>13 DEF vars, rows
<1> QED
  BY <1>1, <1>2, <1>3, <1>4, <1>5, <1>6, <1>7, <1>8, <1>9, <1>10, <1>11, <1>12, <1>13
     DEF Next, Continue

(* Every column and every local variable keeps its type. *)
THEOREM TypeCorrect == Spec => []TypeOK
BY InitType, NextType, PTL DEF Spec

-----------------------------------------------------------------------------
(* A message that is being sent has no row yet, and one request sends it. *)

Sending(h) == call[h].op \in {"create", "reason"}

Unsent ==
  \A h \in Handler : Sending(h) =>
    /\ status[call[h].msg] = "none"
    /\ \A g \in Handler \ {h} : Sending(g) => call[g].msg # call[h].msg

LEMMA InitUnsent == Init => Unsent
BY DEF Init, Unsent, Sending, Idle

(* ActivateNext leaves the handlers that send alone. *)
LEMMA ActivateNextSends ==
  ASSUME TypeOK, NEW h \in Handler, NEW batch, ActivateNext(h, batch), NEW g \in Handler, Sending(g)'
  PROVE  g # h /\ call'[g] = call[g]
BY DEF ActivateNext, Return, Await, TypeOK, Sending, Idle

LEMMA NextUnsent == TypeOK /\ Unsent /\ [Next]_vars => Unsent'
<1> SUFFICES ASSUME TypeOK, Unsent, [Next]_vars PROVE Unsent'
  OBVIOUS
<1> USE DEF TypeOK, Unsent, Sending
<1>1. ASSUME NEW h \in Handler, NEW m \in Message, Send(h, m) PROVE Unsent'
  BY <1>1 DEF Send, Await, rows
<1>2. ASSUME NEW h \in Handler, NEW m \in Message, Cancel(h, m) PROVE Unsent'
  BY <1>2 DEF Cancel, Await, rows
<1>3. ASSUME NEW h \in Handler, NEW a \in Address, GetInbox(h, a) PROVE Unsent'
  <2>1. \A g \in Handler : Sending(g)' => call'[g] = call[g]
    BY <1>3, ActivateNextSends DEF GetInbox
  <2>2. \A m \in Message : status[m] = "none" => status'[m] = "none"
    BY <1>3 DEF GetInbox, expireDeferredMessages, Deferred, With
  <2>3. \A g \in Handler : Sending(g) => call[g].msg \in Message
    BY DEF Call, Idle
  <2> QED
    BY <2>1, <2>2, <2>3
<1>4. ASSUME NEW h \in Handler, SendReady(h) \/ SendDeferred(h) PROVE Unsent'
  <2>1. /\ Sending(h) /\ call[h].msg \in Message
        /\ call' = [call EXCEPT ![h] = Idle]
        /\ \A m \in Message : m # call[h].msg => status'[m] = status[m]
    BY <1>4 DEF SendReady, SendDeferred, saveMessage, Return, Call, Idle
  <2>2. \A g \in Handler : Sending(g) => call[g].msg \in Message
    BY DEF Call, Idle
  <2> QED
    BY <2>1, <2>2 DEF Idle
<1>5. ASSUME NEW h \in Handler, SendUnfunded(h) PROVE Unsent'
  BY <1>5 DEF SendUnfunded, Await, rows
<1>6. ASSUME NEW h \in Handler, Activated(h) PROVE Unsent'
  <2>1. \A g \in Handler : Sending(g)' => call'[g] = call[g]
    BY <1>6, ActivateNextSends DEF Activated
  <2>2. \A m \in Message : status[m] = "none" => status'[m] = "none"
    BY <1>6 DEF Activated, activateDeferredMessage
  <2>3. \A g \in Handler : Sending(g) => call[g].msg \in Message
    BY DEF Call, Idle
  <2> QED
    BY <2>1, <2>2, <2>3
<1>7. ASSUME NEW h \in Handler, Cancelled(h) PROVE Unsent'
  <2>1. \A g \in Handler : Sending(g)' => call'[g] = call[g]
    BY <1>7 DEF Cancelled, Return, Idle
  <2>2. \A m \in Message : status[m] = "none" => status'[m] = "none"
    BY <1>7 DEF Cancelled, cancelMessageBySender
  <2>3. \A g \in Handler : Sending(g) => call[g].msg \in Message
    BY DEF Call, Idle
  <2> QED
    BY <2>1, <2>2, <2>3
<1>8. ASSUME NEW h \in Handler, Fail(h) PROVE Unsent'
  BY <1>8 DEF Fail, Return, Idle, rows
<1>9. ASSUME NEW m \in Message, Preview(m) \/ Claim(m) \/ Lapse(m) PROVE Unsent'
  <2>1. UNCHANGED call
    BY <1>9 DEF Preview, Claim, Lapse
  <2>2. \A n \in Message : status[n] = "none" => status'[n] = "none"
    BY <1>9 DEF Preview, Claim, claimMessage, Lapse
  <2>3. \A g \in Handler : Sending(g) => call[g].msg \in Message
    BY DEF Call, Idle
  <2> QED
    BY <2>1, <2>2, <2>3
<1>10. ASSUME NEW m \in Message, ClaimCut(m) PROVE Unsent'
  BY <1>10 DEF ClaimCut, Idle
<1>11. CASE Restart
  BY <1>11 DEF Restart, Idle
<1>12. CASE UNCHANGED vars
  BY <1>12 DEF vars, rows
<1> QED
  BY <1>1, <1>2, <1>3, <1>4, <1>5, <1>6, <1>7, <1>8, <1>9, <1>10, <1>11, <1>12
     DEF Next, Continue

-----------------------------------------------------------------------------
(* There is no commitment for a message that has no row yet. *)

Unpaid == \A m \in Message : status[m] = "none" => payment[m] = {}

LEMMA InitUnpaid == Init => Unpaid
BY DEF Init, Unpaid

LEMMA NextUnpaid == TypeOK /\ Unpaid /\ [Next]_vars => Unpaid'
<1> SUFFICES ASSUME TypeOK, Unpaid, [Next]_vars PROVE Unpaid'
  OBVIOUS
<1> USE DEF TypeOK, Unpaid
<1>1. ASSUME NEW h \in Handler, NEW m \in Message, Send(h, m) \/ Cancel(h, m) PROVE Unpaid'
  BY <1>1 DEF Send, Cancel, rows
<1>2. ASSUME NEW h \in Handler, NEW a \in Address, GetInbox(h, a) PROVE Unpaid'
  BY <1>2 DEF GetInbox, expireDeferredMessages
<1>3. ASSUME NEW h \in Handler, SendReady(h) \/ SendDeferred(h) PROVE Unpaid'
  BY <1>3 DEF SendReady, SendDeferred, saveMessage
<1>4. ASSUME NEW h \in Handler, SendUnfunded(h) \/ Fail(h) PROVE Unpaid'
  BY <1>4 DEF SendUnfunded, Fail, rows
<1>5. ASSUME NEW h \in Handler, Activated(h) \/ Cancelled(h) PROVE Unpaid'
  BY <1>5 DEF Activated, activateDeferredMessage, Cancelled, cancelMessageBySender
<1>6. ASSUME NEW m \in Message, Preview(m) \/ Claim(m) \/ ClaimCut(m) \/ Lapse(m) PROVE Unpaid'
  BY <1>6 DEF Preview, Claim, ClaimCut, claimMessage, Lapse
<1>7. CASE Restart \/ UNCHANGED vars
  BY <1>7 DEF Restart, vars, rows
<1> QED
  BY <1>1, <1>2, <1>3, <1>4, <1>5, <1>6, <1>7 DEF Next, Continue

-----------------------------------------------------------------------------
(* Mailbox implements MessageLifecycle. *)

LEMMA InitRefines == Init => Lifecycle!Init
BY DEF Init, Lifecycle!Init

(* Every step is a step of one message's life, an expiry, or invisible. *)
LEMMA NextRefines ==
  TypeOK /\ Unsent /\ Unpaid /\ [Next]_vars => [Lifecycle!Next]_<<status, payment>>
<1> SUFFICES ASSUME TypeOK, Unsent, Unpaid, [Next]_vars
             PROVE  Lifecycle!Next \/ UNCHANGED <<status, payment>>
  OBVIOUS
<1> USE DEF TypeOK
<1>1. ASSUME NEW h \in Handler, NEW m \in Message, Send(h, m) \/ Cancel(h, m)
      PROVE  UNCHANGED <<status, payment>>
  BY <1>1 DEF Send, Cancel, rows
<1>2. ASSUME NEW h \in Handler, NEW a \in Address, GetInbox(h, a) PROVE Lifecycle!Next
  <2>1. Lifecycle!Expire(Deferred \cap lapsed)
    BY <1>2 DEF GetInbox, expireDeferredMessages, Deferred, With, Lifecycle!Expire
  <2> QED
    BY <2>1 DEF Lifecycle!Next
<1>3. ASSUME NEW h \in Handler, SendReady(h) PROVE Lifecycle!Next
  <2> DEFINE m == call[h].msg
  <2>1. m \in Message /\ status[m] = "none"
    BY <1>3 DEF SendReady, Call, Idle, Unsent, Sending
  <2>2. minted[m] + 1 \in Commitment
    BY <1>3, <2>1, MintType DEF SendReady
  <2>3. Lifecycle!Deliver(m)
    BY <1>3, <2>1, <2>2
       DEF SendReady, saveMessage, Lifecycle!Deliver, Lifecycle!Become, Lifecycle!Commit
  <2> QED
    BY <2>1, <2>3 DEF Lifecycle!Next
<1>4. ASSUME NEW h \in Handler, SendUnfunded(h) \/ Fail(h) PROVE UNCHANGED <<status, payment>>
  BY <1>4 DEF SendUnfunded, Fail, rows
<1>5. ASSUME NEW h \in Handler, SendDeferred(h) PROVE Lifecycle!Next
  <2> DEFINE m == call[h].msg
  <2>1. m \in Message /\ status[m] = "none" /\ payment[m] = {}
    BY <1>5 DEF SendDeferred, Call, Idle, Unsent, Sending, Unpaid
  <2>2. Lifecycle!Defer(m)
    BY <1>5, <2>1 DEF SendDeferred, saveMessage, Lifecycle!Defer, Lifecycle!Become
  <2> QED
    BY <2>1, <2>2 DEF Lifecycle!Next
<1>6. ASSUME NEW h \in Handler, Activated(h)
      PROVE  Lifecycle!Next \/ UNCHANGED <<status, payment>>
  <2> DEFINE m == call[h].msg
  <2>1. m \in Message
    BY <1>6 DEF Activated, Call, Idle
  <2>2. CASE status[m] = "deferred"
    <3>1. minted[m] + 1 \in Commitment
      BY <1>6, <2>1, MintType DEF Activated
    <3>2. Lifecycle!Activate(m)
      BY <1>6, <2>1, <2>2, <3>1 DEF Activated, activateDeferredMessage, Lifecycle!Activate,
                                    Lifecycle!Become, Lifecycle!Commit
    <3> QED
      BY <2>1, <3>2 DEF Lifecycle!Next
  <2>3. CASE status[m] # "deferred"
    BY <1>6, <2>3 DEF Activated, activateDeferredMessage
  <2> QED
    BY <2>2, <2>3
<1>7. ASSUME NEW h \in Handler, Cancelled(h)
      PROVE  Lifecycle!Next \/ UNCHANGED <<status, payment>>
  <2> DEFINE m == call[h].msg
  <2>1. m \in Message
    BY <1>7 DEF Cancelled, Call, Idle
  <2>2. CASE status[m] \in {"deferred", "ready"}
    <3>1. Lifecycle!Cancel(m)
      BY <1>7, <2>1, <2>2 DEF Cancelled, cancelMessageBySender, Lifecycle!Cancel, Lifecycle!Become
    <3> QED
      BY <2>1, <3>1 DEF Lifecycle!Next
  <2>3. CASE status[m] \notin {"deferred", "ready"}
    BY <1>7, <2>3 DEF Cancelled, cancelMessageBySender
  <2> QED
    BY <2>2, <2>3
<1>8. ASSUME NEW m \in Message, Preview(m)
      PROVE  Lifecycle!Next \/ UNCHANGED <<status, payment>>
  <2>1. CASE status[m] = "ready"
    <3>1. Lifecycle!Preview(m)
      BY <1>8, <2>1 DEF Preview, Lifecycle!Preview, Lifecycle!Become
    <3> QED
      BY <3>1 DEF Lifecycle!Next
  <2>2. CASE status[m] = "previewed"
    BY <1>8, <2>2 DEF Preview
  <2> QED
    BY <1>8, <2>1, <2>2 DEF Preview
<1>9. ASSUME NEW m \in Message, Claim(m) \/ ClaimCut(m) PROVE Lifecycle!Next
  <2>1. Lifecycle!Settle(m)
    BY <1>9 DEF Claim, ClaimCut, claimMessage, Lifecycle!Settle, Lifecycle!Become
  <2> QED
    BY <2>1 DEF Lifecycle!Next
<1>10. ASSUME NEW m \in Message, Lapse(m) PROVE UNCHANGED <<status, payment>>
  BY <1>10 DEF Lapse
<1>11. CASE Restart \/ UNCHANGED vars
  BY <1>11 DEF Restart, vars, rows
<1> QED
  BY <1>1, <1>2, <1>3, <1>4, <1>5, <1>6, <1>7, <1>8, <1>9, <1>10, <1>11 DEF Next, Continue

(***************************************************************************)
(* Whatever requests interleave at their awaits, every message lives the   *)
(* life payment-flow.md promises: a late activation or cancellation finds  *)
(* the row changed and leaves it alone.                                    *)
(***************************************************************************)
THEOREM LifecycleImplemented == Spec => ImplementsLifecycle
<1>1. Spec => Lifecycle!Spec
  BY InitType, NextType, InitUnsent, NextUnsent, InitUnpaid, NextUnpaid, InitRefines, NextRefines,
     PTL DEF Spec, Lifecycle!Spec
<1> QED
  BY <1>1 DEF ImplementsLifecycle

-----------------------------------------------------------------------------
(* What a preview discloses, and what a claim leaves behind. *)

(* Both are inductive together with Unsent: an INSERT meets no row.       *)
Kept == DisclosedIsKept /\ ClaimWritesOrdered

LEMMA InitKept == Init => Kept
BY DEF Init, Kept, DisclosedIsKept, ClaimWritesOrdered

LEMMA NextKept == TypeOK /\ Unsent /\ Kept /\ [Next]_vars => Kept'
<1> SUFFICES ASSUME TypeOK, Unsent, Kept, [Next]_vars PROVE Kept'
  OBVIOUS
<1> USE DEF TypeOK, Kept, DisclosedIsKept, ClaimWritesOrdered
<1>1. ASSUME NEW h \in Handler, NEW m \in Message, Send(h, m) \/ Cancel(h, m) PROVE Kept'
  BY <1>1 DEF Send, Cancel, rows
<1>2. ASSUME NEW h \in Handler, NEW a \in Address, GetInbox(h, a) PROVE Kept'
  BY <1>2 DEF GetInbox, expireDeferredMessages, Deferred, With
<1>3. ASSUME NEW h \in Handler, SendReady(h) \/ SendDeferred(h) PROVE Kept'
  <2> DEFINE m == call[h].msg
  <2>1. m \in Message /\ status[m] = "none"
    BY <1>3 DEF SendReady, SendDeferred, Call, Idle, Unsent, Sending
  <2>2. /\ \A n \in Message \ {m} : status'[n] = status[n] /\ payment'[n] = payment[n]
        /\ UNCHANGED <<settlement, completed, disclosed>>
    BY <1>3 DEF SendReady, SendDeferred, saveMessage
  <2> QED
    BY <2>1, <2>2
<1>4. ASSUME NEW h \in Handler, SendUnfunded(h) \/ Fail(h) PROVE Kept'
  BY <1>4 DEF SendUnfunded, Fail, rows
<1>5. ASSUME NEW h \in Handler, Activated(h) PROVE Kept'
  BY <1>5 DEF Activated, activateDeferredMessage
<1>6. ASSUME NEW h \in Handler, Cancelled(h) PROVE Kept'
  BY <1>6 DEF Cancelled, cancelMessageBySender
<1>7. ASSUME NEW m \in Message, Preview(m) PROVE Kept'
  BY <1>7 DEF Preview
<1>8. ASSUME NEW m \in Message, Claim(m) \/ ClaimCut(m) PROVE Kept'
  BY <1>8 DEF Claim, ClaimCut, claimMessage, recordSettlement, recordCompletedIncomingPayment
<1>9. ASSUME NEW m \in Message, Lapse(m) PROVE Kept'
  BY <1>9 DEF Lapse
<1>10. CASE Restart \/ UNCHANGED vars
  BY <1>10 DEF Restart, vars, rows
<1> QED
  BY <1>1, <1>2, <1>3, <1>4, <1>5, <1>6, <1>7, <1>8, <1>9, <1>10 DEF Next, Continue

(***************************************************************************)
(* A commitment that a preview has disclosed is never withdrawn: not by a  *)
(* cancel that was already under way, not by an activation, not by expiry. *)
(***************************************************************************)
THEOREM DisclosedStays == Spec => []DisclosedIsKept
<1>1. Kept => DisclosedIsKept
  BY DEF Kept
<1> QED
  BY <1>1, InitType, NextType, InitUnsent, NextUnsent, InitKept, NextKept, PTL DEF Spec

(***************************************************************************)
(* A crash in the middle of a claim leaves no checkpoint without its       *)
(* settlement record and no record that contradicts the message.           *)
(***************************************************************************)
THEOREM ClaimsAreOrdered == Spec => []ClaimWritesOrdered
<1>1. Kept => ClaimWritesOrdered
  BY DEF Kept
<1> QED
  BY <1>1, InitType, NextType, InitUnsent, NextUnsent, InitKept, NextKept, PTL DEF Spec

-----------------------------------------------------------------------------
(* The overshoot of the deferred queue. *)

LEMMA HandlersCount ==
  ASSUME NEW S \in SUBSET Handler
  PROVE  /\ IsFiniteSet(S) /\ Cardinality(S) \in Nat /\ Cardinality(Handler) \in Nat
         /\ Cardinality(S) <= Cardinality(Handler)
BY FiniteAssumption, FS_Subset, FS_CardinalityType

(***************************************************************************)
(* The same bound for any group of messages: its deferred rows, and the    *)
(* sends that wait to become one.                                          *)
(***************************************************************************)
Waiting(K) == {h \in Deferring : call[h].msg \in K}

Within(K, cap) ==
  Cardinality(Deferred \cap K) + Cardinality(Waiting(K)) < cap + Cardinality(Handler)

(* The counts of a group, before and after a step. *)
LEMMA GroupCounts ==
  ASSUME NEW K \in SUBSET Message
  PROVE  /\ IsFiniteSet(Deferred \cap K) /\ IsFiniteSet(Waiting(K))
         /\ IsFiniteSet(Deferred' \cap K) /\ IsFiniteSet(Waiting(K)')
         /\ Cardinality(Deferred \cap K) \in Nat /\ Cardinality(Waiting(K)) \in Nat
         /\ Cardinality(Deferred' \cap K) \in Nat /\ Cardinality(Waiting(K)') \in Nat
         /\ Cardinality(Waiting(K)') <= Cardinality(Handler)
         /\ Cardinality(Handler) \in Nat
<1>1. /\ Deferred \cap K \in SUBSET Message /\ Deferred' \cap K \in SUBSET Message
      /\ Waiting(K) \in SUBSET Handler /\ Waiting(K)' \in SUBSET Handler
  BY DEF Waiting, Deferring
<1> QED
  BY <1>1, CountIsNat, HandlersCount

LEMMA InitWithin ==
  ASSUME Init, NEW K \in SUBSET Message, NEW cap \in Nat
  PROVE  Within(K, cap)
<1>1. Deferred \cap K = {} /\ Waiting(K) = {}
  BY DEF Init, Deferred, With, Waiting, Deferring, Idle
<1>2. Cardinality(Handler) \in Nat /\ Cardinality(Handler) # 0
  BY FiniteAssumption, FS_CardinalityType, FS_EmptySet
<1>3. Cardinality(Deferred \cap K) = 0 /\ Cardinality(Waiting(K)) = 0
  BY <1>1, FS_EmptySet
<1> QED
  BY <1>2, <1>3 DEF Within

(* A step that neither defers a message of the group nor starts to. *)
LEMMA NothingDeferred ==
  ASSUME NEW K \in SUBSET Message, NEW cap \in Nat, Within(K, cap),
         Deferred' \cap K \subseteq Deferred, Waiting(K)' \subseteq Waiting(K)
  PROVE  Within(K, cap)'
<1>1. /\ Cardinality(Deferred' \cap K) <= Cardinality(Deferred \cap K)
      /\ Cardinality(Waiting(K)') <= Cardinality(Waiting(K))
  BY GroupCounts, FS_Subset
<1> QED
  BY <1>1, GroupCounts DEF Within

(* No request has begun to wait for the reason of its deferral. *)
NoneStarted == \A h \in Deferring' : h \in Deferring /\ call'[h] = call[h]

(***************************************************************************)
(* A group stays within its cap and the overshoot, if a send of the group  *)
(* that passes the checks finds fewer deferred messages than the cap: the  *)
(* other waiting sends belong to other handlers, and an INSERT only moves  *)
(* one message from one count to the other.                                *)
(***************************************************************************)
LEMMA NextWithin ==
  ASSUME TypeOK, [Next]_vars, NEW K \in SUBSET Message, NEW cap \in Nat, Within(K, cap),
         \A h \in Handler : SendUnfunded(h) /\ call[h].msg \in K => Cardinality(Deferred \cap K) < cap
  PROVE  Within(K, cap)'
<1>1. ASSUME Deferred' \cap K \subseteq Deferred, NoneStarted PROVE Within(K, cap)'
  <2>1. Waiting(K)' \subseteq Waiting(K)
    BY <1>1 DEF Waiting, NoneStarted
  <2> QED
    BY <1>1, <2>1, NothingDeferred
<1>2. ASSUME NEW h \in Handler, SendUnfunded(h) PROVE Within(K, cap)'
  <2>1. Deferred' = Deferred
    BY <1>2 DEF SendUnfunded, rows, Deferred, With
  <2>2. CASE call[h].msg \in K
    <3>1. Cardinality(Deferred \cap K) < cap
      BY <1>2, <2>2
    <3> QED
      BY <2>1, <3>1, GroupCounts DEF Within
  <2>3. CASE call[h].msg \notin K
    <3>1. /\ call'[h].msg = call[h].msg
          /\ \A g \in Handler \ {h} : call'[g] = call[g]
      BY <1>2 DEF SendUnfunded, Await, TypeOK
    <3>2. Waiting(K)' \subseteq Waiting(K)
      BY <2>3, <3>1 DEF Waiting, Deferring
    <3> QED
      BY <2>1, <3>2, NothingDeferred
  <2> QED
    BY <2>2, <2>3
<1>3. ASSUME NEW h \in Handler, SendDeferred(h) PROVE Within(K, cap)'
  <2> DEFINE m == call[h].msg
  <2>1. m \in Message /\ h \in Deferring
    BY <1>3 DEF SendDeferred, Deferring, TypeOK, Call, Idle
  <2>2. Deferring' = Deferring \ {h} /\ \A g \in Handler \ {h} : call'[g] = call[g]
    BY <1>3 DEF SendDeferred, Return, Idle, Deferring, TypeOK
  <2>3. Deferred' = Deferred \cup {m}
    BY <1>3, <2>1 DEF SendDeferred, saveMessage, TypeOK, Deferred, With
  <2>4. Waiting(K)' = Waiting(K) \ {h}
    BY <2>1, <2>2 DEF Waiting, Deferring
  <2>5. CASE m \in K
    <3>1. h \in Waiting(K)
      BY <2>1, <2>5 DEF Waiting
    <3>2. Cardinality(Waiting(K)') = Cardinality(Waiting(K)) - 1
      BY <2>4, <3>1, GroupCounts, FS_RemoveElement
    <3>3. Deferred' \cap K = (Deferred \cap K) \cup {m}
      BY <2>3, <2>5
    <3>4. Cardinality((Deferred \cap K) \cup {m}) <= Cardinality(Deferred \cap K) + 1
      <4>1. Cardinality((Deferred \cap K) \cup {m}) =
              IF m \in Deferred \cap K THEN Cardinality(Deferred \cap K)
                                       ELSE Cardinality(Deferred \cap K) + 1
        BY GroupCounts, FS_AddElement
      <4>2. Cardinality(Deferred \cap K) \in Nat
        BY GroupCounts
      <4> QED
        BY <4>1, <4>2
    <3>5. Cardinality(Deferred' \cap K) <= Cardinality(Deferred \cap K) + 1
      BY <3>3, <3>4
    <3>6. /\ Cardinality(Deferred \cap K) \in Nat /\ Cardinality(Waiting(K)) \in Nat
          /\ Cardinality(Deferred' \cap K) \in Nat /\ Cardinality(Handler) \in Nat
      BY GroupCounts
    <3>7. Cardinality(Deferred \cap K) + Cardinality(Waiting(K)) < cap + Cardinality(Handler)
      BY DEF Within
    <3>8. Cardinality(Deferred' \cap K) + Cardinality(Waiting(K)') < cap + Cardinality(Handler)
      BY <3>2, <3>5, <3>6, <3>7
    <3> QED
      BY <3>8 DEF Within
  <2>6. CASE m \notin K
    BY <2>3, <2>4, <2>6, NothingDeferred
  <2> QED
    BY <2>5, <2>6
<1>4. ASSUME NEW h \in Handler, NEW m \in Message, Send(h, m) \/ Cancel(h, m)
      PROVE  Deferred' \cap K \subseteq Deferred /\ NoneStarted
  BY <1>4 DEF Send, Cancel, Await, rows, Deferred, With, Deferring, NoneStarted, TypeOK
<1>5. ASSUME NEW h \in Handler, NEW batch, ActivateNext(h, batch) PROVE NoneStarted
  BY <1>5 DEF ActivateNext, Await, Return, Idle, Deferring, NoneStarted, TypeOK
<1>6. ASSUME NEW h \in Handler, NEW a \in Address, GetInbox(h, a)
      PROVE  Deferred' \cap K \subseteq Deferred /\ NoneStarted
  <2>1. Deferred' \subseteq Deferred
    BY <1>6 DEF GetInbox, expireDeferredMessages, Deferred, With
  <2>2. ActivateNext(h, getDeferredMessagesForRecipient(a))
    BY <1>6 DEF GetInbox
  <2> QED
    BY <1>5, <2>1, <2>2
<1>7. ASSUME NEW h \in Handler, SendReady(h) \/ Fail(h)
      PROVE  Deferred' \cap K \subseteq Deferred /\ NoneStarted
  BY <1>7 DEF SendReady, saveMessage, Fail, Return, Idle, rows, Deferred, With, Deferring,
     NoneStarted, TypeOK
<1>8. ASSUME NEW h \in Handler, Activated(h)
      PROVE  Deferred' \cap K \subseteq Deferred /\ NoneStarted
  <2>1. Deferred' \subseteq Deferred
    BY <1>8 DEF Activated, activateDeferredMessage, Deferred, With, TypeOK
  <2>2. ActivateNext(h, call[h].rest)
    BY <1>8 DEF Activated
  <2> QED
    BY <1>5, <2>1, <2>2
<1>9. ASSUME NEW h \in Handler, Cancelled(h)
      PROVE  Deferred' \cap K \subseteq Deferred /\ NoneStarted
  BY <1>9 DEF Cancelled, cancelMessageBySender, Return, Idle, Deferred, With, Deferring,
     NoneStarted, TypeOK
<1>10. ASSUME NEW m \in Message, Preview(m) \/ Claim(m) \/ ClaimCut(m) \/ Lapse(m)
       PROVE  Deferred' \cap K \subseteq Deferred /\ NoneStarted
  BY <1>10 DEF Preview, Claim, ClaimCut, claimMessage, Lapse, Idle, Deferred, With, Deferring,
     NoneStarted, TypeOK
<1>11. CASE Restart \/ UNCHANGED vars
  <2>1. Deferred' \cap K \subseteq Deferred /\ NoneStarted
    BY <1>11 DEF Restart, vars, rows, Idle, Deferred, With, Deferring, NoneStarted
  <2> QED
    BY <1>1, <2>1
<1> QED
  BY <1>1, <1>2, <1>3, <1>4, <1>6, <1>7, <1>8, <1>9, <1>10, <1>11 DEF Next, Continue

(* The whole queue is the group of all messages. *)
LEMMA QueueIsGroup == TypeOK => (DeferredOvershoot <=> Within(Message, MaxDeferredGlobal))
<1> SUFFICES ASSUME TypeOK PROVE DeferredOvershoot <=> Within(Message, MaxDeferredGlobal)
  OBVIOUS
<1>1. Deferred \cap Message = Deferred
  BY DEF Deferred, With
<1>2. Waiting(Message) = Deferring
  BY DEF TypeOK, Waiting, Deferring, Call, Idle
<1> QED
  BY <1>1, <1>2 DEF DeferredOvershoot, Within, countDeferredGlobal

LEMMA NextOvershoot == TypeOK /\ DeferredOvershoot /\ [Next]_vars => DeferredOvershoot'
<1> SUFFICES ASSUME TypeOK, DeferredOvershoot, [Next]_vars PROVE DeferredOvershoot'
  OBVIOUS
<1>1. Within(Message, MaxDeferredGlobal)
  BY QueueIsGroup
<1>2. ASSUME NEW h \in Handler, SendUnfunded(h)
      PROVE  Cardinality(Deferred \cap Message) < MaxDeferredGlobal
  <2>1. Deferred \cap Message = Deferred
    BY DEF Deferred, With
  <2> QED
    BY <1>2, <2>1 DEF SendUnfunded, countDeferredGlobal
<1>3. Within(Message, MaxDeferredGlobal)'
  BY <1>1, <1>2, NextWithin, CapAssumption
<1>4. TypeOK' /\ (TypeOK' => (DeferredOvershoot' <=> Within(Message, MaxDeferredGlobal)'))
  BY NextType, QueueIsGroup, PTL
<1> QED
  BY <1>3, <1>4

(***************************************************************************)
(* The deferred queue exceeds its cap by less than the number of requests  *)
(* that are in progress at once.                                           *)
(***************************************************************************)
THEOREM OvershootIsBounded == Spec => []DeferredOvershoot
<1>1. Init => DeferredOvershoot
  BY InitType, InitWithin, QueueIsGroup, CapAssumption
<1> QED
  BY <1>1, InitType, NextType, NextOvershoot, PTL DEF Spec

(* The deferred messages of one recipient, and those of one sender to one recipient. *)
ToRecipient(a) == {m \in Message : To[m] = a}
FromTo(a, b) == {m \in Message : From[m] = a /\ To[m] = b}

(***************************************************************************)
(* Every cap of handleSend on deferred messages is exceeded by less than   *)
(* the number of requests in progress, for every recipient and for every   *)
(* sender to a recipient: these caps too are checked before the await on   *)
(* determineDeferredReason and used after it.                              *)
(***************************************************************************)
SharesOvershoot ==
  /\ \A a \in Address : Within(ToRecipient(a), MaxDeferredPerRecipient)
  /\ \A a, b \in Address : Within(FromTo(a, b), MaxDeferredPerSender)

LEMMA NextShares == TypeOK /\ SharesOvershoot /\ [Next]_vars => SharesOvershoot'
<1> SUFFICES ASSUME TypeOK, SharesOvershoot, [Next]_vars PROVE SharesOvershoot'
  OBVIOUS
<1>1. ASSUME NEW a \in Address PROVE Within(ToRecipient(a), MaxDeferredPerRecipient)'
  <2> DEFINE K == ToRecipient(a)
  <2>1. K \in SUBSET Message /\ MaxDeferredPerRecipient \in Nat /\ Within(K, MaxDeferredPerRecipient)
    BY CapAssumption DEF ToRecipient, SharesOvershoot
  <2>2. ASSUME NEW h \in Handler, SendUnfunded(h), call[h].msg \in K
        PROVE  Cardinality(Deferred \cap K) < MaxDeferredPerRecipient
    <3>1. countDeferredToRecipient(a) < MaxDeferredPerRecipient
      BY <2>2 DEF SendUnfunded, ToRecipient
    <3>2. Deferred \cap K = {n \in Deferred : To[n] = a}
      BY DEF ToRecipient, Deferred, With
    <3> QED
      BY <3>1, <3>2 DEF countDeferredToRecipient
  <2> HIDE DEF K
  <2>3. Within(K, MaxDeferredPerRecipient)'
    BY <2>1, <2>2, NextWithin
  <2> QED
    BY <2>3 DEF K
<1>2. ASSUME NEW a \in Address, NEW b \in Address
      PROVE  Within(FromTo(a, b), MaxDeferredPerSender)'
  <2> DEFINE K == FromTo(a, b)
  <2>1. K \in SUBSET Message /\ MaxDeferredPerSender \in Nat /\ Within(K, MaxDeferredPerSender)
    BY CapAssumption DEF FromTo, SharesOvershoot
  <2>2. ASSUME NEW h \in Handler, SendUnfunded(h), call[h].msg \in K
        PROVE  Cardinality(Deferred \cap K) < MaxDeferredPerSender
    <3>1. countDeferredFromSender(call[h].msg) < MaxDeferredPerSender
      BY <2>2 DEF SendUnfunded
    <3>2. Deferred \cap K = {n \in Deferred : From[n] = From[call[h].msg] /\ To[n] = To[call[h].msg]}
      BY <2>2 DEF FromTo, Deferred, With
    <3> QED
      BY <3>1, <3>2 DEF countDeferredFromSender
  <2> HIDE DEF K
  <2>3. Within(K, MaxDeferredPerSender)'
    BY <2>1, <2>2, NextWithin
  <2> QED
    BY <2>3 DEF K
<1> QED
  BY <1>1, <1>2 DEF SharesOvershoot

(***************************************************************************)
(* One recipient, or one sender to a recipient, has fewer deferred         *)
(* messages than its cap and the number of requests together.              *)
(***************************************************************************)
THEOREM SharesAreBounded == Spec => []SharesOvershoot
<1>1. Init => SharesOvershoot
  BY InitWithin, CapAssumption DEF SharesOvershoot, ToRecipient, FromTo
<1> QED
  BY <1>1, InitType, NextType, NextShares, PTL DEF Spec
=============================================================================
