------------------------------ MODULE Mailslot ------------------------------
(***************************************************************************)
(* The server: the message handlers of app.ts (Mailbox) and the payment    *)
(* service they call (Reservoir), put together.  request[h] holds what     *)
(* handler h of the one waits for, service[h] where the method of the      *)
(* other that it has called is waiting; every step of the server is a      *)
(* step of one of them, or of both when a handler calls a method.  What    *)
(* the two modules leave to each other is settled here: which payment a    *)
(* message is sent with, whether the recipient's tap can pay for it, and   *)
(* what a cancellation signs before the row of the message changes.        *)
(*                                                                         *)
(* Taps are opened and changed on the chain in module Liquidity.           *)
(***************************************************************************)
EXTENDS Naturals, FiniteSets

CONSTANTS
  Pipe,      \* taps, each named by the address of its user
  Secret, Handler, Anchor, Setting, MaxBalance, MaxNonce, MaxInteger, MaxPayments,
  Message, From, To,
  MaxPendingPerSender, MaxPendingPerRecipient,
  MaxDeferredPerSender, MaxDeferredPerRecipient, MaxDeferredGlobal,
  MaxMint

VARIABLES
  \* the payment service
  chain, pipes, pendingStates, service, accepted, anchored,
  \* the mailbox
  status, payment, sentAt, lapsed, settlement, completed, minted, disclosed, request,
  \* between the two
  verified,   \* the payment a handler of POST holds while it reads the body
  finished,   \* the handlers whose method has done what they called it for
  paymentId,  \* the payment each message was sent with: a set with at most one member
  fee,        \* the fee in force when it was sent, in the same way
  forwards,   \* history: transfers signed to the recipient of each message
  reversals,  \* history: transfers taken back from the recipient
  refunds     \* history: refunds signed to the sender

R == INSTANCE Reservoir WITH call <- service
B == INSTANCE Mailbox WITH Address <- Pipe, call <- request

ASSUME PartsAssumption ==
  /\ R!IntegerAssumption /\ R!AnchorAssumption /\ R!SettingAssumption /\ R!BoundAssumption
  /\ B!PartiesAssumption /\ B!FiniteAssumption /\ B!CapAssumption /\ B!MintAssumption

reservoir == <<chain, pipes, pendingStates, service, accepted, anchored>>
rows == <<status, payment, sentAt, lapsed>>
mailbox == <<rows, settlement, completed, minted, disclosed, request>>
sent == <<paymentId, fee>>
money == <<forwards, reversals, refunds>>
vars == <<reservoir, mailbox, verified, finished, sent, money>>

TypeOK ==
  /\ R!TypeOK
  /\ B!TypeOK
  /\ verified \in [Handler -> SUBSET accepted]
  /\ finished \subseteq Handler
  /\ paymentId \in [Message -> SUBSET accepted]
  /\ fee \in [Message -> SUBSET R!Fee]
  /\ \A history \in {forwards, reversals, refunds} : history \in [Message -> Nat]

Init ==
  /\ R!Init
  /\ B!Init
  /\ verified = [h \in Handler |-> {}]
  /\ finished = {}
  /\ paymentId = [m \in Message |-> {}]
  /\ fee = [m \in Message |-> {}]
  /\ forwards = [m \in Message |-> 0]
  /\ reversals = [m \in Message |-> 0]
  /\ refunds = [m \in Message |-> 0]

Free(h) == request[h] = B!Idle /\ service[h] = R!Idle /\ verified[h] = {}

(* The method h has called returned, with or without having done its work. *)
Succeeded(h) == h \in finished
GaveUp(h) == service[h] = R!Idle /\ h \notin finished

Count(history, m) == history' = [history EXCEPT ![m] = @ + 1]

-----------------------------------------------------------------------------
(* createOutgoingPayment for m, up to its await.  It returns null if the     *)
(* fee leaves nothing, if there is no tap, or if the tap cannot pay; it runs *)
(* as part of the step that calls it, on the payment m is (to be) sent with. *)
CreateOutgoingPayment(h, m, proofs) ==
  \/ \E p \in proofs : R!Forward(h, p, To[m])
  \/ /\ \E p \in proofs, s \in Setting :
          \A latest \in R!getLatestPipeState(To[m]) :
            p.amount <= s.fee \/ latest.srv < p.amount - s.fee
     /\ UNCHANGED reservoir

(* The transfer is signed and stored; the method returns the commitment. *)
OutgoingSigned(h) ==
  /\ R!ForwardSigned(h)
  /\ finished' = finished \cup {h}
  /\ Count(forwards, request[h].msg)
  /\ UNCHANGED <<mailbox, verified, sent, reversals, refunds>>

-----------------------------------------------------------------------------
(* handleSend *)

(* The proof in the header goes to verifyIncomingPayment. *)
Post(h, p, proof) ==
  /\ Free(h)
  /\ R!VerifyTracked(h, p, proof) \/ R!VerifyUntracked(h, p, proof)
  /\ UNCHANGED <<mailbox, verified, finished, sent, money>>

LookedUp(h) ==
  /\ R!VerifyLookedUp(h)
  /\ UNCHANGED <<mailbox, verified, finished, sent, money>>

(* Mutant of Verified: the amount is the balance, not what it rose by. *)
Verified_Balance(h) ==
  LET c == service[h] IN
  /\ R!VerifyAccepted(h)
  /\ verified' = [verified EXCEPT ![h] = {[pipe |-> c.pipe, state |-> c.state, amount |-> c.state.srv]}]
  /\ UNCHANGED <<mailbox, finished, sent, money>>

Verified(h) ==
  LET c == service[h] IN
  /\ R!VerifyAccepted(h)
  /\ verified' = [verified EXCEPT ![h] = {[pipe |-> c.pipe, state |-> c.state, amount |-> c.amount]}]
  /\ UNCHANGED <<mailbox, finished, sent, money>>

(* Mutant of Rejected: the optimistic row of the payment is removed again. *)
Rejected_Undone(h) ==
  \E p \in verified[h] :
    /\ verified' = [verified EXCEPT ![h] = {}]
    /\ pendingStates' = [pendingStates EXCEPT ![p.pipe] = @ \ {p.state}]
    /\ UNCHANGED <<chain, pipes, service, accepted, anchored, mailbox, finished, sent, money>>

(* The body is unreadable, or a cap is reached: the payment stays accepted. *)
Rejected(h) ==
  /\ verified[h] # {}
  /\ verified' = [verified EXCEPT ![h] = {}]
  /\ UNCHANGED <<reservoir, mailbox, finished, sent, money>>

(* The message gets a new id; its sender is the one the proof names, and the *)
(* fee stored with it is the one of the settings read before the caps.       *)
Send(h, m) ==
  /\ \E p \in verified[h] : p.pipe = From[m]
  /\ B!Send(h, m)
  /\ CreateOutgoingPayment(h, m, verified[h])
  /\ paymentId' = [paymentId EXCEPT ![m] = verified[h]]
  /\ \E f \in R!Fee : fee' = [fee EXCEPT ![m] = {f}]
  /\ verified' = [verified EXCEPT ![h] = {}]
  /\ UNCHANGED <<finished, money>>

(* Mutant of SendReady: what createOutgoingPayment returned is not looked at. *)
SendReady_Unasked(h) ==
  /\ Succeeded(h) \/ GaveUp(h)
  /\ B!SendReady(h)
  /\ finished' = finished \ {h}
  /\ UNCHANGED <<reservoir, verified, sent, money>>

SendReady(h) ==
  /\ Succeeded(h)
  /\ B!SendReady(h)
  /\ finished' = finished \ {h}
  /\ UNCHANGED <<reservoir, verified, sent, money>>

SendUnfunded(h) ==
  /\ GaveUp(h)
  /\ B!SendUnfunded(h)
  /\ UNCHANGED <<reservoir, verified, finished, sent, money>>

SendDeferred(h) ==
  /\ B!SendDeferred(h)
  /\ UNCHANGED <<reservoir, verified, finished, sent, money>>

-----------------------------------------------------------------------------
(* handleGetInbox, handlePreview *)

(* The next round of the loop calls createOutgoingPayment at once. *)
NextRound(h) ==
  IF request'[h] = B!Idle THEN UNCHANGED reservoir
  ELSE CreateOutgoingPayment(h, request'[h].msg, paymentId[request'[h].msg])

GetInbox(h, a) ==
  /\ Free(h)
  /\ B!GetInbox(h, a)
  /\ NextRound(h)
  /\ UNCHANGED <<verified, finished, sent, money>>

Activated(h) ==
  /\ Succeeded(h)
  /\ B!Activated(h)
  /\ NextRound(h)
  /\ finished' = finished \ {h}
  /\ UNCHANGED <<verified, sent, money>>

Preview(m) ==
  /\ B!Preview(m)
  /\ UNCHANGED <<reservoir, verified, finished, sent, money>>

-----------------------------------------------------------------------------
(* handleCancelMessage *)

(* The fee stored with m is all that was paid for it. *)
NothingDue(m) == \E p \in paymentId[m], f \in fee[m] : R!NothingToRefund(p, f)

(* The payment, the fee, and the commitment if there is one, are read with   *)
(* the row; with nothing to refund the service has done its part at once.    *)
Cancel(h, m) ==
  /\ Free(h)
  /\ B!Cancel(h, m)
  /\ \/ /\ \E p \in paymentId[m], f \in fee[m] :
             R!Cancel(h, p, f, IF payment[m] = {} THEN {} ELSE {To[m]})
        /\ UNCHANGED finished
     \/ /\ NothingDue(m)
        /\ finished' = finished \cup {h}
        /\ UNCHANGED reservoir
  /\ UNCHANGED <<verified, sent, money>>

(* Mutant of Refunded: the row is cancelled before the forward is reversed. *)
Refunded_Cancels(h) ==
  /\ R!CancelRefunded(h)
  /\ finished' = IF service[h].recipient = {} THEN finished \cup {h} ELSE finished
  /\ Count(refunds, request[h].msg)
  /\ B!cancelMessageBySender(request[h].msg)
  /\ UNCHANGED <<sentAt, lapsed, settlement, completed, minted, disclosed, request,
                 verified, sent, forwards, reversals>>

(* The refund is stored.  It was all there was to do if there is nothing to *)
(* reverse; with nothing left on the recipient's tap the method throws.     *)
Refunded(h) ==
  /\ R!CancelRefunded(h)
  /\ finished' = IF service[h].recipient = {} THEN finished \cup {h} ELSE finished
  /\ Count(refunds, request[h].msg)
  /\ UNCHANGED <<mailbox, verified, sent, forwards, reversals>>

Reversed(h) ==
  /\ R!CancelReversed(h)
  /\ finished' = finished \cup {h}
  /\ Count(reversals, request[h].msg)
  /\ UNCHANGED <<mailbox, verified, sent, forwards, refunds>>

(* Mutant of Cancelled: an error of the service is swallowed. *)
Cancelled_Anyway(h) ==
  /\ Succeeded(h) \/ GaveUp(h)
  /\ B!Cancelled(h)
  /\ finished' = finished \ {h}
  /\ UNCHANGED <<reservoir, verified, sent, money>>

Cancelled(h) ==
  /\ Succeeded(h)
  /\ B!Cancelled(h)
  /\ finished' = finished \ {h}
  /\ UNCHANGED <<reservoir, verified, sent, money>>

-----------------------------------------------------------------------------
(* handleClaim *)

Claim(m) ==
  /\ B!Claim(m)
  /\ \E p \in paymentId[m] : R!RecordCompleted(p)
  /\ UNCHANGED <<verified, finished, sent, money>>

-----------------------------------------------------------------------------
(* syncTapState, for the owner of any tap. *)
Sync(h) ==
  /\ \/ Free(h) /\ \E p \in Pipe : R!SyncTap(h, p)
     \/ R!SyncTapStored(h)
  /\ UNCHANGED <<mailbox, verified, finished, sent, money>>

(* A method throws, and then the handler that called it ends as well. *)
Fail(h) ==
  /\ \/ R!Fail(h) /\ UNCHANGED mailbox
     \/ GaveUp(h) /\ B!Fail(h) /\ UNCHANGED reservoir
  /\ UNCHANGED <<verified, finished, sent, money>>

-----------------------------------------------------------------------------
Crashed ==
  /\ service' = [h \in Handler |-> R!Idle]
  /\ verified' = [h \in Handler |-> {}]
  /\ finished' = {}
  /\ UNCHANGED <<chain, pipes, pendingStates, accepted, anchored, sent, money>>

ClaimCut(m) == B!ClaimCut(m) /\ Crashed

Restart ==
  /\ \E h \in Handler : ~ Free(h)
  /\ request' = [h \in Handler |-> B!Idle]
  /\ UNCHANGED <<rows, settlement, completed, minted, disclosed>>
  /\ Crashed

Lapse(m) ==
  /\ B!Lapse(m)
  /\ UNCHANGED <<reservoir, verified, finished, sent, money>>

Begin(h) ==
  \/ \E p \in Pipe : \E proof \in R!Proof : Post(h, p, proof)
  \/ \E m \in Message : Send(h, m) \/ Cancel(h, m)
  \/ \E a \in Pipe : GetInbox(h, a)

Continue(h) ==
  \/ LookedUp(h)
  \/ Verified(h)
  \/ Rejected(h)
  \/ OutgoingSigned(h)
  \/ SendReady(h)
  \/ SendUnfunded(h)
  \/ SendDeferred(h)
  \/ Activated(h)
  \/ Refunded(h)
  \/ Reversed(h)
  \/ Cancelled(h)
  \/ Sync(h)
  \/ Fail(h)

Next ==
  \/ \E h \in Handler : Begin(h) \/ Continue(h)
  \/ \E m \in Message : Preview(m) \/ Claim(m) \/ ClaimCut(m) \/ Lapse(m)
  \/ Restart

Spec == Init /\ [][Next]_vars

-----------------------------------------------------------------------------
(***************************************************************************)
(* What is proved of the parts holds of the whole: the handlers use the    *)
(* payment service, and the service answers them, in the ways the two      *)
(* modules assume of each other.                                           *)
(***************************************************************************)
ImplementsReservoir == R!Spec
ImplementsMailbox == B!Spec

(***************************************************************************)
(* The row of a message becomes cancelled only when its sender has been    *)
(* given what is due, which is nothing if the fee stored with the message  *)
(* was all it paid, and a recipient loses a transfer only after that,      *)
(* whatever a cancellation is interleaved with or cut short by, and        *)
(* however the fee has changed since (payment-flow.md, Preview / cancel).  *)
(***************************************************************************)
CancelledIsRefunded ==
  \A m \in Message :
    /\ status[m] = "cancelled" => refunds[m] > 0 \/ NothingDue(m)
    /\ reversals[m] <= refunds[m]

(***************************************************************************)
(* A commitment in the mailbox is backed by transfers the service signed   *)
(* for that message: none is handed out twice, or before it is stored.     *)
(***************************************************************************)
CommitmentsAreSigned ==
  \A m \in Message :
    minted[m] + Cardinality({h \in finished : request[h].op # "cancel" /\ request[h].msg = m})
      <= forwards[m]

-----------------------------------------------------------------------------
(* Three statements of docs/payment-flow.md that the code does not keep. *)

(* payment-flow.md:96: the sender receives one refund, not one per attempt. *)
RefundedOnce == \A m \in Message : refunds[m] <= 1

(* payment-flow.md:97: a cancelled message leaves the recipient nothing. *)
CancelledIsReversed ==
  \A m \in Message : status[m] = "cancelled" => reversals[m] = forwards[m]

(* payment-flow.md:94: no refund once the recipient has seen the commitment. *)
RefundedIsUnseen == \A m \in Message : refunds[m] > 0 => disclosed[m] = {}
=============================================================================
