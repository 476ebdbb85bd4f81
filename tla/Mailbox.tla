------------------------------- MODULE Mailbox ------------------------------
(***************************************************************************)
(* The mailbox: the message handlers of packages/server/src/app.ts over    *)
(* the messages and message_settlements tables of store.ts.                *)
(*                                                                         *)
(* A handler runs alone until it awaits the payment service or the chain;  *)
(* call[h] holds what handler h keeps across that await.  The payment      *)
(* service is modelled by its outcomes only: a commitment or none, a       *)
(* cancellation or an error (module Reservoir has the service itself).     *)
(* Requests that authentication, an unknown id or a malformed body turns   *)
(* away change nothing and are left out.  The server has a StackFlow       *)
(* contract configured, as without one no message can be claimed.          *)
(***************************************************************************)
EXTENDS Naturals, FiniteSets

CONSTANTS
  Message,                 \* messages, by id: one for each POST that was paid for
  Address,                 \* mailbox owners
  From, To,                \* sender and recipient of each message
  Handler,                 \* requests that can be in progress at the same time
  MaxPendingPerSender, MaxPendingPerRecipient,
  MaxDeferredPerSender, MaxDeferredPerRecipient, MaxDeferredGlobal,
  MaxMint                  \* bound on the commitments created for one message

ASSUME PartiesAssumption == From \in [Message -> Address] /\ To \in [Message -> Address]
ASSUME FiniteAssumption == IsFiniteSet(Message) /\ IsFiniteSet(Handler) /\ Handler # {}

(* validateRuntimeSettings accepts any non-negative caps. *)
ASSUME CapAssumption ==
  {MaxPendingPerSender, MaxPendingPerRecipient, MaxDeferredPerSender,
   MaxDeferredPerRecipient, MaxDeferredGlobal} \subseteq Nat

ASSUME MintAssumption == MaxMint \in Nat

VARIABLES
  status,      \* delivery_state; "none" before the INSERT, "expired" after the DELETE
  payment,     \* pending_payment: a set with at most one commitment
  sentAt,      \* sent_at, as the position of the message in the order of the INSERTs
  lapsed,      \* the messages whose deferred_until has passed
  settlement,  \* message_settlements: the commitment that was claimed with the secret
  completed,   \* messages whose proof recordCompletedIncomingPayment has stored
  minted,      \* how many commitments createOutgoingPayment made for a message
  disclosed,   \* history: commitments shown to the recipient by a preview
  call         \* where each handler is waiting, with its locals

rows == <<status, payment, sentAt, lapsed>>
vars == <<status, payment, sentAt, lapsed, settlement, completed, minted, disclosed, call>>

Status == {"none", "deferred", "ready", "previewed", "settled", "cancelled", "expired"}

Commitment == 1..MaxMint

Idle == [op |-> "idle"]

(***************************************************************************)
(* "create": handleSend in createOutgoingPayment; "reason": handleSend in  *)
(* determineDeferredReason; "activate": handleGetInbox in                  *)
(* createOutgoingPayment for msg, with the messages of rest still to come; *)
(* "cancel": handleCancelMessage in the service's cancelMessage.           *)
(***************************************************************************)
Call ==
       {Idle}
  \cup [op : {"create", "reason", "cancel"}, msg : Message]
  \cup [op : {"activate"}, msg : Message, rest : SUBSET Message]

TypeOK ==
  /\ status \in [Message -> Status]
  /\ payment \in [Message -> SUBSET Commitment]
  /\ sentAt \in [Message -> Nat]
  /\ lapsed \subseteq Message
  /\ settlement \in [Message -> SUBSET Commitment]
  /\ completed \subseteq Message
  /\ minted \in [Message -> 0..MaxMint]
  /\ disclosed \in [Message -> SUBSET Commitment]
  /\ call \in [Handler -> Call]

Init ==
  /\ status = [m \in Message |-> "none"]
  /\ payment = [m \in Message |-> {}]
  /\ sentAt = [m \in Message |-> 0]
  /\ lapsed = {}
  /\ settlement = [m \in Message |-> {}]
  /\ completed = {}
  /\ minted = [m \in Message |-> 0]
  /\ disclosed = [m \in Message |-> {}]
  /\ call = [h \in Handler |-> Idle]

Return(h) == call' = [call EXCEPT ![h] = Idle]
Await(h, c) == call' = [call EXCEPT ![h] = c]

With(S) == {m \in Message : status[m] \in S}
Pending == With({"ready", "previewed"})
Deferred == With({"deferred"})

countPendingFromSender(m) == Cardinality({n \in Pending : From[n] = From[m] /\ To[n] = To[m]})
countPendingToRecipient(a) == Cardinality({n \in Pending : To[n] = a})
countDeferredFromSender(m) == Cardinality({n \in Deferred : From[n] = From[m] /\ To[n] = To[m]})
countDeferredToRecipient(a) == Cardinality({n \in Deferred : To[n] = a})
countDeferredGlobal == Cardinality(Deferred)

(* createOutgoingPayment returns a commitment for m. *)
Mint(m) ==
  /\ minted[m] < MaxMint
  /\ minted' = [minted EXCEPT ![m] = @ + 1]

(* The INSERT of saveMessage. *)
saveMessage(m, state, commitment) ==
  /\ status' = [status EXCEPT ![m] = state]
  /\ payment' = [payment EXCEPT ![m] = commitment]
  /\ sentAt' = [sentAt EXCEPT ![m] = Cardinality({n \in Message : status[n] # "none"})]
  /\ UNCHANGED lapsed

-----------------------------------------------------------------------------
(* handleSend *)

(* The proof is verified and the body read: the caps on unclaimed messages. *)
Send(h, m) ==
  /\ call[h] = Idle
  /\ status[m] = "none"
  /\ \A g \in Handler : call[g].op \in {"create", "reason"} => call[g].msg # m
  /\ countPendingFromSender(m) < MaxPendingPerSender
  /\ countPendingToRecipient(To[m]) < MaxPendingPerRecipient
  /\ Await(h, [op |-> "create", msg |-> m])
  /\ UNCHANGED <<rows, settlement, completed, minted, disclosed>>

(* There is a commitment to the recipient: the message can be claimed. *)
SendReady(h) ==
  LET m == call[h].msg IN
  /\ call[h].op = "create"
  /\ Mint(m)
  /\ saveMessage(m, "ready", {minted[m] + 1})
  /\ Return(h)
  /\ UNCHANGED <<settlement, completed, disclosed>>

(* Mutant of SendUnfunded: the cap on the whole queue is off by one. *)
SendUnfunded_OneMore(h) ==
  LET m == call[h].msg IN
  /\ call[h].op = "create"
  /\ countDeferredFromSender(m) < MaxDeferredPerSender
  /\ countDeferredToRecipient(To[m]) < MaxDeferredPerRecipient
  /\ countDeferredGlobal <= MaxDeferredGlobal
  /\ Await(h, [op |-> "reason", msg |-> m])
  /\ UNCHANGED <<rows, settlement, completed, minted, disclosed>>

(* There is none: the caps on deferred messages, then the reason is looked up. *)
SendUnfunded(h) ==
  LET m == call[h].msg IN
  /\ call[h].op = "create"
  /\ countDeferredFromSender(m) < MaxDeferredPerSender
  /\ countDeferredToRecipient(To[m]) < MaxDeferredPerRecipient
  /\ countDeferredGlobal < MaxDeferredGlobal
  /\ Await(h, [op |-> "reason", msg |-> m])
  /\ UNCHANGED <<rows, settlement, completed, minted, disclosed>>

SendDeferred(h) ==
  /\ call[h].op = "reason"
  /\ saveMessage(call[h].msg, "deferred", {})
  /\ Return(h)
  /\ UNCHANGED <<settlement, completed, minted, disclosed>>

-----------------------------------------------------------------------------
(* handleGetInbox: activateDeferredMessages *)

(* Mutant of expireDeferredMessages: the deadline is compared the wrong way. *)
expireDeferredMessages_Early ==
  status' = [m \in Message |-> IF m \in Deferred \ lapsed THEN "expired" ELSE status[m]]

(* DELETE of the deferred messages, of every recipient, past their deadline. *)
expireDeferredMessages ==
  status' = [m \in Message |-> IF m \in Deferred \cap lapsed THEN "expired" ELSE status[m]]

Earlier(m, n) == sentAt[m] < sentAt[n]

(* The oldest of a set of deferred messages, at most limit of them. *)
Oldest(S, limit) == {m \in S : Cardinality({n \in S : Earlier(n, m)}) < limit}

getDeferredMessagesForRecipient(a) ==
  Oldest({m \in Deferred \ lapsed : To[m] = a}, MaxPendingPerRecipient)

(* The next round of the loop, for the messages still to be activated. *)
ActivateNext(h, batch) ==
  \/ batch = {} /\ Return(h)
  \/ \E m \in Oldest(batch, 1) :
       Await(h, [op |-> "activate", msg |-> m, rest |-> batch \ {m}])

GetInbox(h, a) ==
  /\ call[h] = Idle
  /\ expireDeferredMessages
  /\ ActivateNext(h, getDeferredMessagesForRecipient(a))
  /\ UNCHANGED <<payment, sentAt, lapsed, settlement, completed, minted, disclosed>>

(* Mutant of activateDeferredMessage: the WHERE clause forgets the state. *)
activateDeferredMessage_Any(m, commitment) ==
  /\ status' = [status EXCEPT ![m] = "ready"]
  /\ payment' = [payment EXCEPT ![m] = commitment]

(* UPDATE ... WHERE delivery_state = 'deferred': no effect on any other row. *)
activateDeferredMessage(m, commitment) ==
  IF status[m] = "deferred"
  THEN /\ status' = [status EXCEPT ![m] = "ready"]
       /\ payment' = [payment EXCEPT ![m] = commitment]
  ELSE UNCHANGED <<status, payment>>

Activated(h) ==
  LET m == call[h].msg IN
  /\ call[h].op = "activate"
  /\ Mint(m)
  /\ activateDeferredMessage(m, {minted[m] + 1})
  /\ ActivateNext(h, call[h].rest)
  /\ UNCHANGED <<sentAt, lapsed, settlement, completed, disclosed>>

-----------------------------------------------------------------------------
(* handlePreview: markMessagePreviewed, then the commitment is in the reply. *)
Preview(m) ==
  /\ status[m] \in {"ready", "previewed"}
  /\ status' = [status EXCEPT ![m] = "previewed"]
  /\ disclosed' = [disclosed EXCEPT ![m] = @ \cup payment[m]]
  /\ UNCHANGED <<payment, sentAt, lapsed, settlement, completed, minted, call>>

-----------------------------------------------------------------------------
(* handleCancelMessage *)

Cancel(h, m) ==
  /\ call[h] = Idle
  /\ status[m] \in {"deferred", "ready"}
  /\ Await(h, [op |-> "cancel", msg |-> m])
  /\ UNCHANGED <<rows, settlement, completed, minted, disclosed>>

(* Mutant of cancelMessageBySender: the row is not read again. *)
cancelMessageBySender_Blind(m) ==
  /\ status' = [status EXCEPT ![m] = "cancelled"]
  /\ payment' = [payment EXCEPT ![m] = {}]

(* The row is read again: it may have changed while the refund was signed. *)
cancelMessageBySender(m) ==
  IF status[m] \in {"deferred", "ready"}
  THEN /\ status' = [status EXCEPT ![m] = "cancelled"]
       /\ payment' = [payment EXCEPT ![m] = {}]
  ELSE UNCHANGED <<status, payment>>

Cancelled(h) ==
  /\ call[h].op = "cancel"
  /\ cancelMessageBySender(call[h].msg)
  /\ Return(h)
  /\ UNCHANGED <<sentAt, lapsed, settlement, completed, minted, disclosed>>

-----------------------------------------------------------------------------
(* handleClaim: three writes, one after the other, without a transaction. *)

(* Mutant of claimMessage: the state gets the name of the claimed column. *)
claimMessage_Misnamed(m) ==
  /\ status[m] \in {"ready", "previewed"}
  /\ payment[m] # {}
  /\ status' = [status EXCEPT ![m] = "claimed"]
  /\ UNCHANGED <<payment, sentAt, lapsed>>

claimMessage(m) ==
  /\ status[m] \in {"ready", "previewed"}
  /\ payment[m] # {}
  /\ status' = [status EXCEPT ![m] = "settled"]
  /\ UNCHANGED <<payment, sentAt, lapsed>>

recordSettlement(m) == settlement' = [settlement EXCEPT ![m] = payment[m]]

recordCompletedIncomingPayment(m) == completed' = completed \cup {m}

Claim(m) ==
  /\ claimMessage(m)
  /\ recordSettlement(m)
  /\ recordCompletedIncomingPayment(m)
  /\ UNCHANGED <<minted, disclosed, call>>

(* Mutant of ClaimCut: the checkpoint is written before the settlement. *)
ClaimCut_CheckpointFirst(m) ==
  /\ claimMessage(m)
  /\ recordCompletedIncomingPayment(m)
  /\ call' = [h \in Handler |-> Idle]
  /\ UNCHANGED <<settlement, minted, disclosed>>

(* The process dies after the first write, or after the second one. *)
ClaimCut(m) ==
  /\ claimMessage(m)
  /\ recordSettlement(m) \/ UNCHANGED settlement
  /\ call' = [h \in Handler |-> Idle]
  /\ UNCHANGED <<completed, minted, disclosed>>

-----------------------------------------------------------------------------
(* A cap is reached, the service returns no commitment, or it throws. *)
Fail(h) ==
  /\ call[h] # Idle
  /\ Return(h)
  /\ UNCHANGED <<rows, settlement, completed, minted, disclosed>>

(* The process dies between two requests' steps; the tables survive. *)
Restart ==
  /\ call # [h \in Handler |-> Idle]
  /\ call' = [h \in Handler |-> Idle]
  /\ UNCHANGED <<rows, settlement, completed, minted, disclosed>>

(* The clock passes deferred_until. *)
Lapse(m) ==
  /\ status[m] = "deferred"
  /\ lapsed' = lapsed \cup {m}
  /\ UNCHANGED <<status, payment, sentAt, settlement, completed, minted, disclosed, call>>

Continue(h) ==
  \/ SendReady(h)
  \/ SendUnfunded(h)
  \/ SendDeferred(h)
  \/ Activated(h)
  \/ Cancelled(h)
  \/ Fail(h)

Next ==
  \/ \E h \in Handler, m \in Message : Send(h, m) \/ Cancel(h, m)
  \/ \E h \in Handler, a \in Address : GetInbox(h, a)
  \/ \E h \in Handler : Continue(h)
  \/ \E m \in Message : Preview(m) \/ Claim(m) \/ ClaimCut(m) \/ Lapse(m)
  \/ Restart

Spec == Init /\ [][Next]_vars

(***************************************************************************)
(* Fairness: the event loop resumes every handler; deadlines pass; some    *)
(* mailbox owner keeps loading the inbox (MailslotClient.poll), and such a *)
(* request is served however busy the few handlers of the model are.       *)
(***************************************************************************)
FairSpec ==
  /\ Spec
  /\ \A h \in Handler : WF_vars(Continue(h))
  /\ \A m \in Message : WF_vars(Lapse(m))
  /\ SF_vars(\E h \in Handler, a \in Address : GetInbox(h, a))

-----------------------------------------------------------------------------
(***************************************************************************)
(* Whatever requests interleave at their awaits, each message goes through *)
(* the delivery states of payment-flow.md one promised step at a time: a   *)
(* late activation cannot revive a cancelled or expired message, a late    *)
(* cancel cannot undo a preview or a claim, and a commitment is neither    *)
(* replaced once given nor kept by a cancelled message.                    *)
(***************************************************************************)
Lifecycle == INSTANCE MessageLifecycle WITH Payment <- Commitment

ImplementsLifecycle == Lifecycle!Spec

(***************************************************************************)
(* A commitment the recipient has seen in a preview is the one the message *)
(* keeps, and the message is not cancelled afterwards (README.md:99), even *)
(* if the cancel was already waiting for its refund to be signed.          *)
(***************************************************************************)
DisclosedIsKept ==
  \A m \in Message : disclosed[m] # {} =>
    /\ payment[m] = disclosed[m]
    /\ status[m] \in {"previewed", "settled"}

(***************************************************************************)
(* Wherever a crash cuts a claim short, what it left behind is consistent: *)
(* a checkpoint only with its settlement record, and that record only of a *)
(* settled message and with the commitment that message had.               *)
(***************************************************************************)
ClaimWritesOrdered ==
  \A m \in Message :
    /\ m \in completed => settlement[m] # {}
    /\ settlement[m] # {} => status[m] = "settled" /\ settlement[m] = payment[m]

(***************************************************************************)
(* The cap on the deferred queue is checked before an await and used after *)
(* it, so requests in progress can take the queue over the cap; but never  *)
(* by more than the other requests in progress at that moment.             *)
(***************************************************************************)
Deferring == {h \in Handler : call[h].op = "reason"}

DeferredOvershoot ==
  countDeferredGlobal + Cardinality(Deferring) < MaxDeferredGlobal + Cardinality(Handler)

(***************************************************************************)
(* A deferred message does not stay deferred: an inbox load activates it   *)
(* or deletes it once its deadline has passed (payment-flow.md:170).       *)
(***************************************************************************)
DeferredIsTemporary ==
  \A m \in Message : (status[m] = "deferred") ~> (status[m] # "deferred")

-----------------------------------------------------------------------------
(* Three statements of docs/payment-flow.md that the code does not keep. *)

(* payment-flow.md:166: a cap on the unclaimed messages in one inbox. *)
RecipientCapHolds ==
  \A a \in Address : countPendingToRecipient(a) <= MaxPendingPerRecipient

(* payment-flow.md:169: a cap on the total size of the deferred queue. *)
DeferredCapHolds == countDeferredGlobal <= MaxDeferredGlobal

(* payment-flow.md:216: revealed secrets are retained for claimed messages. *)
ClaimedHasSecret == \A m \in Message : status[m] = "settled" => settlement[m] # {}
=============================================================================
