------------------------------ MODULE PipeRows ------------------------------
(***************************************************************************)
(* The rows of the two SQLite tables in which packages/server/src/         *)
(* reservoir.ts tracks a StackFlow pipe, and the statements that read and  *)
(* write them.                                                             *)
(*                                                                         *)
(* A state is what the two parties of a pipe sign: the balance of the      *)
(* server (srv), the balance of the counterparty (cp), the nonce and the   *)
(* hashed secret.  An SQL value that may be NULL is a set with at most one *)
(* member: hash = {} is a NULL hashed_secret, {s} the hash of secret s.    *)
(* A table row of one pipe that may be missing is a set in the same way.   *)
(***************************************************************************)
EXTENDS Integers

CONSTANT MaxInteger  \* the largest INTEGER of SQLite, 2^63 - 1

ASSUME IntegerAssumption == MaxInteger \in Nat

(* The signed part of a row of either table. *)
StateOf(row) == [srv |-> row.srv, cp |-> row.cp, nonce |-> row.nonce, hash |-> row.hash]

Total(row) == row.srv + row.cp

(***************************************************************************)
(* CAST(nonce AS INTEGER).  The column is TEXT and holds the nonce as its  *)
(* party wrote it, here a decimal numeral; the cast of one that is too     *)
(* large for an INTEGER of SQLite gives the largest INTEGER.               *)
(***************************************************************************)
AsInteger(nonce) == IF nonce <= MaxInteger THEN nonce ELSE MaxInteger

(***************************************************************************)
(* ORDER BY CAST(nonce AS INTEGER) DESC, updated_at DESC LIMIT 1.  The     *)
(* rows that tie are told apart by updated_at, which has a resolution of   *)
(* one second, so any of them may come first: the operator is the set of   *)
(* the rows the statement can return.                                      *)
(***************************************************************************)
getLatestPendingPipeRow(pending) ==
  {r \in pending : \A q \in pending : AsInteger(q.nonce) <= AsInteger(r.nonce)}

(* Here nonces are compared as BigInts, and updated_at decides when they tie. *)
Newest(rows) == {r \in rows : \A q \in rows : q.nonce <= r.nonce}

(***************************************************************************)
(* The rows the code can choose from what the two tables give it: empty    *)
(* when the pipe is not tracked.                                           *)
(***************************************************************************)
chooseLatestRow(enforceable, pending) ==
  LET checkpoint == {StateOf(e) : e \in enforceable} IN
  IF pending = {} THEN checkpoint
  ELSE UNION {Newest(checkpoint \cup {r}) : r \in getLatestPendingPipeRow(pending)}

(* CASE WHEN excluded.x IS NULL THEN reservoir_pipes.x ELSE excluded.x END *)
Coalesce(excluded, stored) == IF excluded = {} THEN stored ELSE excluded

(***************************************************************************)
(* A row of reservoir_pipes has, besides a state, the two signatures (each *)
(* named by the state it signs) and the revealed secret.                   *)
(***************************************************************************)
Checkpoint(state, serverSignature, counterpartySignature, secret) ==
  [srv |-> state.srv, cp |-> state.cp, nonce |-> state.nonce, hash |-> state.hash,
   sSig |-> serverSignature, cSig |-> counterpartySignature, secret |-> secret]

(* Mutant of upsertPipe: a NULL hash erases the stored one, but not its secret. *)
upsertPipe_ErasesHash(stored, row) ==
  IF stored = {} THEN {row}
  ELSE {[row EXCEPT !.secret = Coalesce(@, old.secret)] : old \in stored}

(* The upsert replaces balances and nonce, and metadata only if it is given. *)
upsertPipe(stored, row) ==
  IF stored = {} THEN {row}
  ELSE {[row EXCEPT !.hash   = Coalesce(@, old.hash),
                    !.sSig   = Coalesce(@, old.sSig),
                    !.cSig   = Coalesce(@, old.cSig),
                    !.secret = Coalesce(@, old.secret)] : old \in stored}

(* (pipe_id, nonce) is the primary key of reservoir_pending_states. *)
upsertPendingState(stored, row) == {r \in stored : r.nonce # row.nonce} \cup {row}

(* Mutant of deletePendingStatesAtOrBelowNonce: the condition on the nonce is lost. *)
deletePendingStates_All(stored, nonce) == {}

(* DELETE ... WHERE CAST(nonce AS INTEGER) <= CAST(? AS INTEGER) *)
deletePendingStatesAtOrBelowNonce(stored, nonce) ==
  {r \in stored : AsInteger(r.nonce) > AsInteger(nonce)}

(* Mutant of NextTransfer: the counterparty is not credited. *)
NextTransfer_OneSided(row, amount, hash) ==
  [srv |-> row.srv - amount, cp |-> row.cp, nonce |-> row.nonce + 1, hash |-> hash]

(***************************************************************************)
(* The state after the server has moved amount to the counterparty on top  *)
(* of a row; a negative amount moves it back.                              *)
(***************************************************************************)
NextTransfer(row, amount, hash) ==
  [srv |-> row.srv - amount, cp |-> row.cp + amount, nonce |-> row.nonce + 1, hash |-> hash]
=============================================================================
