-------------------------- MODULE MessageLifecycle --------------------------
(***************************************************************************)
(* What the mailbox promises about one message (docs/payment-flow.md,      *)
(* Preview / cancel and Deferred Delivery): the delivery states, each      *)
(* change of state as one atomic step, and the payment commitment that     *)
(* comes with the message.  Nothing here is about requests or awaits.      *)
(***************************************************************************)
CONSTANTS
  Message,  \* messages, by id
  Payment   \* payment commitments of the server to a recipient

VARIABLES
  status,   \* the delivery state of each message
  payment   \* the commitment stored with it: a set with at most one member

Status == {"none", "deferred", "ready", "previewed", "settled", "cancelled", "expired"}

Init ==
  /\ status = [m \in Message |-> "none"]
  /\ payment = [m \in Message |-> {}]

Become(m, from, to) ==
  /\ status[m] \in from
  /\ status' = [status EXCEPT ![m] = to]

Commit(m) == \E p \in Payment : payment' = [payment EXCEPT ![m] = {p}]

Deliver(m)  == Become(m, {"none"}, "ready") /\ Commit(m)
Defer(m)    == Become(m, {"none"}, "deferred") /\ UNCHANGED payment
Activate(m) == Become(m, {"deferred"}, "ready") /\ Commit(m)
Preview(m)  == Become(m, {"ready"}, "previewed") /\ UNCHANGED payment
Settle(m)   == Become(m, {"ready", "previewed"}, "settled") /\ UNCHANGED payment

(* Never after a preview, and no commitment is left behind. *)
Cancel(m) ==
  /\ Become(m, {"deferred", "ready"}, "cancelled")
  /\ payment' = [payment EXCEPT ![m] = {}]

Expire(S) ==
  /\ \A m \in S : status[m] = "deferred"
  /\ status' = [m \in Message |-> IF m \in S THEN "expired" ELSE status[m]]
  /\ UNCHANGED payment

Next ==
  \/ \E m \in Message :
       Deliver(m) \/ Defer(m) \/ Activate(m) \/ Preview(m) \/ Settle(m) \/ Cancel(m)
  \/ \E S \in SUBSET Message : Expire(S)

Spec == Init /\ [][Next]_<<status, payment>>
=============================================================================
