---------------------------- MODULE MCTapOpening ----------------------------
(* A small instance of TapOpening for TLC. *)
EXTENDS TapOpening

CONSTANT w1

(* What TLC explores: w1 opens a tap and is paid; any other wallet has a tap *)
(* on the chain from the start and no payments.  Neither is in what Fairness *)
(* speaks of, so no fair behaviour is cut off half-way.                      *)
Explored == \A w \in Wallet \ {w1} : chain[w] # {} /\ tracked[w] \subseteq {OpenNonce}
=============================================================================
