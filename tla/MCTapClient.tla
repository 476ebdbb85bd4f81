----------------------------- MODULE MCTapClient ----------------------------
(* A small instance of TapClient for TLC. *)
EXTENDS TapClient

(* A tap that is open and mature, and in which both sides can pay once. *)
EvenTap == {[srv |-> 1, cp |-> 1, nonce |-> 0, hash |-> {}]}
Mature == {NoLeg}

(* What TLC explores: no send times out while a change is in the mempool, and *)
(* no change is broadcast while a proof is late.  Neither is in what Fairness *)
(* speaks of, so no fair behaviour is cut off half-way.                       *)
Explored == late = {} \/ mempool = {}
=============================================================================
