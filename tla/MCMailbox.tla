----------------------------- MODULE MCMailbox ------------------------------
(* A small instance of Mailbox for TLC. *)
EXTENDS Mailbox

CONSTANTS alice, bob, carol

(* Everybody writes to bob: one message by carol, the others by alice. *)
MCFrom == [m \in Message |-> IF m = CHOOSE n \in Message : TRUE THEN carol ELSE alice]
MCTo == [m \in Message |-> bob]
FromAlice == [m \in Message |-> alice]
=============================================================================
