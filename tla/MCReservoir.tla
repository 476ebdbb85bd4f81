----------------------------- MODULE MCReservoir ----------------------------
(* A small instance of Reservoir for TLC. *)
EXTENDS Reservoir, TLC

Mined(s, c, n) == [srv |-> s, cp |-> c, nonce |-> n, hash |-> {}]

(* A tap in which the sender can pay twice, and one with one unit each. *)
OneState == {Mined(1, 2, 1)}
EvenState == {Mined(1, 1, 1)}

(* One price without a fee; a fee that the admin raises to the price and back. *)
FreePrice == {[price |-> 1, fee |-> 0]}
TwoFees == {[price |-> 1, fee |-> 0], [price |-> 1, fee |-> 1]}

Symmetry == Permutations(Handler) \cup Permutations(Secret) \cup Permutations(Pipe)
=============================================================================
