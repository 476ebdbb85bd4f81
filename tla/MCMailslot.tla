----------------------------- MODULE MCMailslot -----------------------------
(* A small instance of Mailslot for TLC: alice writes to bob. *)
EXTENDS Mailslot, TLC

CONSTANTS alice, bob

(* Each tap holds one for either side, so one message can be forwarded. *)
OneTap == {[srv |-> 1, cp |-> 1, nonce |-> 0, hash |-> {}]}
(* No fee; a fee that the admin raises to the price and back. *)
FreePrice == {[price |-> 1, fee |-> 0]}
TwoFees == FreePrice \cup {[price |-> 1, fee |-> 1]}

FromAlice == [m \in Message |-> alice]
ToBob == [m \in Message |-> bob]

Symmetry == Permutations(Handler) \cup Permutations(Message)
=============================================================================
