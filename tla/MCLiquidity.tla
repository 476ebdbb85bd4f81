----------------------------- MODULE MCLiquidity ----------------------------
(* A small instance of Liquidity for TLC: one tap, seen on the chain once. *)
EXTENDS Liquidity, TLC

MCState(s, c, n) == [srv |-> s, cp |-> c, nonce |-> n, hash |-> {}]

(* The tap as it is opened: the user can pay once. *)
OpenedTap == {MCState(1, 1, 0)}

(* An opening that borrows more than the cap, with which BorrowCapHolds fails. *)
BigTap == {MCState(3, 1, 1)}

FreePrice == {[price |-> 1, fee |-> 0]}

(* What TLC explores: payments beside one change at a time, at one moment,   *)
(* and, without payments and deposits, changes that overlap as time passes.  *)
OneChange == now = 0 /\ Cardinality({q \in Request : change[q] # Idle}) <= 1
OnlyRefreshes ==
  /\ accepted = {}
  /\ \A q \in Request : change[q].op # "snapshot"
  /\ \A c \in signed : c.kind = "borrow"

Explored == OneChange \/ OnlyRefreshes

Symmetry == Permutations(Handler) \cup Permutations(Request)
=============================================================================
