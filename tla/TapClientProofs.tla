--------------------------- MODULE TapClientProofs --------------------------
(***************************************************************************)
(* Proofs about TapClient for any number of overlapping tasks, any price,  *)
(* any openings, and a mempool and late requests without bound.            *)
(*                                                                         *)
(* They are about the browser.  What the SDK falls back to leaves pending  *)
(* deposits out, so neither theorem is true of it as it stands.            *)
(***************************************************************************)
EXTENDS TapClient, TLAPS

-----------------------------------------------------------------------------
(* The rows: those of this model have no signatures, so a row is its state. *)

LEMMA RowIsItsState == ASSUME NEW e \in State PROVE StateOf(e) = e
BY DEF StateOf, State

LEMMA ChosenIsStored ==
  ASSUME NEW E \in SUBSET State, NEW Q \in SUBSET State
  PROVE  /\ {StateOf(e) : e \in E} = E
         /\ chooseLatestRow(E, Q) \subseteq State
<1>1. {StateOf(e) : e \in E} = E
  BY RowIsItsState
<1>2. chooseLatestRow(E, Q) \subseteq E \cup Q
  BY <1>1 DEF chooseLatestRow, getLatestPendingPipeRow, Newest
<1> QED
  BY <1>1, <1>2

LEMMA PayType ==
  ASSUME NEW tap \in State, tap.cp >= Price, tap.nonce < MaxNonce
  PROVE  Pay(tap) \in State
<1>1. tap.srv + Price \in Nat /\ tap.cp - Price \in Nat /\ tap.nonce + 1 \in 0..MaxNonce
  BY ClientAssumption DEF State
<1> QED
  BY <1>1 DEF Pay, State

LEMMA OpeningType == Opening \subseteq State /\ Deposit \subseteq [srv : Nat, cp : Nat]
BY ClientAssumption

-----------------------------------------------------------------------------
(* Type correctness. *)

(* What a task waits with is told by what it waits for. *)
LEMMA TaskShape ==
  ASSUME NEW s \in TaskState
  PROVE  /\ s.op = "resolved" => s.tap \in State
         /\ s.op = "post" => s.proof \in State
         /\ s.op = "reply" => s.proof \in State /\ s.ok \in BOOLEAN
         /\ s.op = "amount" => s.amount \in Nat
         /\ s.op \in {"params", "approve", "confirm", "sync"} =>
              s \in [op : {"params", "approve", "confirm", "sync"}, change : Change]
BY DEF TaskState, Idle

LEMMA TaskStates ==
  /\ Idle \in TaskState /\ [op |-> "resolve"] \in TaskState
  /\ \A s \in State : [op |-> "resolved", tap |-> s] \in TaskState /\ [op |-> "post", proof |-> s] \in TaskState
  /\ \A s \in State, ok \in BOOLEAN : [op |-> "reply", proof |-> s, ok |-> ok] \in TaskState
  /\ \A n \in Nat : [op |-> "amount", amount |-> n] \in TaskState
  /\ \A op \in {"params", "approve", "confirm", "sync"}, c \in Change : [op |-> op, change |-> c] \in TaskState
BY DEF TaskState, Idle

LEMMA Waits ==
  ASSUME TypeOK, NEW t \in Task, NEW s \in TaskState, Wait(t, s)
  PROVE  /\ task' \in [Task -> TaskState]
         /\ task'[t] = s /\ \A u \in Task \ {t} : task'[u] = task[u]
BY DEF TypeOK, Wait

LEMMA TrackedType == TypeOK => getTrackedTapState \subseteq State
BY ChosenIsStored DEF TypeOK, getTrackedTapState

(* The browser's fallback counts what is pending. *)
LEMMA ResolvedType ==
  ASSUME Client = "web", TypeOK
  PROVE  /\ queryOnChainTap = chain
         /\ resolveTapState \subseteq getTrackedTapState \cup {chain}
         /\ resolveTapState \subseteq State
<1>1. queryOnChainTap = chain
  BY DEF queryOnChainTap
<1> QED
  BY <1>1, TrackedType DEF resolveTapState, TypeOK

LEMMA InitType == Init => TypeOK
BY OpeningType, TaskStates DEF Init, TypeOK

(* Steps of a task that leave the server and the chain alone. *)
LEMMA TaskStepType ==
  ASSUME TypeOK, NEW t \in Task, NEW s \in TaskState, Wait(t, s), UNCHANGED <<server, external>>,
         pipeState' \in State, late' \subseteq State
  PROVE  TypeOK'
<1>1. task' \in [Task -> TaskState]
  BY Waits
<1> QED
  BY <1>1 DEF TypeOK, server, external

LEMMA ReadStepType ==
  ASSUME Client = "web", TypeOK, NEW t \in Task, Refresh(t) \/ Read(t)
  PROVE  TypeOK'
<1>0. pipeState \in State /\ late \subseteq State /\ task[t] \in TaskState
  BY DEF TypeOK
<1>1. CASE Refresh(t)
  BY <1>0, <1>1, TaskStates, TaskStepType DEF Refresh
<1>2. CASE ReadFrom(t, resolveTapState)
  <2>1. PICK tap \in resolveTapState : Wait(t, [op |-> "resolved", tap |-> tap])
    BY <1>2 DEF ReadFrom
  <2>2. tap \in State
    BY ResolvedType
  <2> QED
    BY <1>0, <1>2, <2>1, <2>2, TaskStates, TaskStepType DEF ReadFrom
<1>3. CASE Refreshed(t)
  <2>1. task[t].tap \in State
    BY <1>0, <1>3, TaskShape DEF Refreshed
  <2> QED
    BY <1>0, <1>3, <2>1, TaskStates, TaskStepType DEF Refreshed, Done
<1> QED
  BY <1>1, <1>2, <1>3 DEF Read

(* The server stores a payment: the row is a state, and so is what is newest. *)
LEMMA StoreType ==
  ASSUME TypeOK, NEW proof \in State, NEW ok \in BOOLEAN, Store(proof, ok)
  PROVE  /\ pendingRows' \subseteq State /\ paid' \subseteq State /\ held' \subseteq State
         /\ pipes' = pipes
<1>1. pendingRows' \subseteq State
  BY DEF TypeOK, Store, upsertPendingState
<1>2. paid' \subseteq State
  BY DEF TypeOK, Store
<1>3. held' = held \cup {chain} \cup chooseLatestRow(pipes, pendingRows')
  BY DEF Store, Remember
<1>4. held' \subseteq State
  BY <1>1, <1>3, ChosenIsStored DEF TypeOK
<1> QED
  BY <1>1, <1>2, <1>4 DEF Store

LEMMA SendStepType ==
  ASSUME TypeOK, NEW t \in Task, Send(t)
  PROVE  TypeOK'
<1>0. /\ pipeState \in State /\ late \subseteq State /\ task[t] \in TaskState
      /\ server' = server => UNCHANGED server
  BY DEF TypeOK
<1>1. CASE SendMessage(t)
  <2>1. Pay(pipeState) \in State
    BY <1>0, <1>1, PayType DEF SendMessage
  <2> QED
    BY <1>0, <1>1, <2>1, TaskStates, TaskStepType DEF SendMessage
<1>2. CASE SendStored(t)
  <2>1. task[t].proof \in State
    BY <1>0, <1>2, TaskShape DEF SendStored
  <2>2. PICK ok \in BOOLEAN :
          /\ Store(task[t].proof, ok)
          /\ Wait(t, [op |-> "reply", proof |-> task[t].proof, ok |-> ok])
    BY <1>2 DEF SendStored
  <2>3. /\ pendingRows' \subseteq State /\ paid' \subseteq State /\ held' \subseteq State
        /\ pipes' = pipes
    BY <2>1, <2>2, StoreType
  <2>4. task' \in [Task -> TaskState]
    BY <2>1, <2>2, TaskStates, Waits
  <2> QED
    BY <1>2, <2>3, <2>4 DEF SendStored, external, TypeOK
<1>3. CASE SendRefused(t)
  <2>1. task[t].proof \in State
    BY <1>0, <1>3, TaskShape DEF SendRefused
  <2> QED
    BY <1>0, <1>3, <2>1, TaskStates, TaskStepType DEF SendRefused
<1>4. CASE Sent(t)
  <2>1. task[t].proof \in State
    BY <1>0, <1>4, TaskShape DEF Sent
  <2> QED
    BY <1>0, <1>4, <2>1, TaskStates, TaskStepType DEF Sent, Done
<1>5. CASE SendTimesOut(t)
  <2>1. late' \subseteq State
    BY <1>0, <1>5, TaskShape DEF SendTimesOut
  <2> QED
    BY <1>0, <1>5, <2>1, TaskStates, TaskStepType DEF SendTimesOut, Done
<1> QED
  BY <1>1, <1>2, <1>3, <1>4, <1>5 DEF Send

LEMMA ChangeStepType ==
  ASSUME Client = "web", TypeOK, NEW t \in Task, ChangeTap(t)
  PROVE  TypeOK'
<1>0. /\ pipeState \in State /\ late \subseteq State /\ task[t] \in TaskState /\ chain \in State
      /\ resolveTapState \subseteq State /\ queryOnChainTap \in State
  BY ResolvedType DEF TypeOK
<1>1. ASSUME NEW tap \in State, NEW n \in Nat, tap.nonce < MaxNonce
      PROVE  /\ [tap EXCEPT !.cp = @ + n, !.nonce = @ + 1] \in State
             /\ [tap EXCEPT !.srv = @ + n, !.nonce = @ + 1] \in State
  <2>1. tap.srv + n \in Nat /\ tap.cp + n \in Nat /\ tap.nonce + 1 \in 0..MaxNonce
    BY <1>1, ClientAssumption DEF State
  <2> QED
    BY <2>1 DEF State
<1>2. ASSUME NEW kind \in {"add", "borrow"}, NEW s \in State, NEW n \in Nat
      PROVE  [op |-> "params", change |-> [kind |-> kind, amount |-> n, state |-> s]] \in TaskState
  <2>1. [kind |-> kind, amount |-> n, state |-> s] \in Change
    BY DEF Change
  <2> QED
    BY <2>1, TaskStates
<1>3. CASE AddFunds(t)
  <2>1. PICK tap \in {queryOnChainTap} :
          /\ tap.nonce < MaxNonce
          /\ Wait(t, [op |-> "params", change |->
                        [kind |-> "add", amount |-> 1,
                         state |-> [tap EXCEPT !.cp = @ + 1, !.nonce = @ + 1]]])
    BY <1>3 DEF AddFunds
  <2>2. [tap EXCEPT !.cp = @ + 1, !.nonce = @ + 1] \in State
    BY <1>0, <1>1, <2>1
  <2>3. [op |-> "params", change |->
           [kind |-> "add", amount |-> 1,
            state |-> [tap EXCEPT !.cp = @ + 1, !.nonce = @ + 1]]] \in TaskState
    BY <1>2, <2>2
  <2> QED
    BY <1>0, <1>3, <2>1, <2>3, TaskStepType DEF AddFunds
<1>4. CASE RefreshCapacity(t)
  <2>1. PICK tap \in FirstReading :
          tap.srv < Target /\ Wait(t, [op |-> "amount", amount |-> Target - tap.srv])
    BY <1>4 DEF RefreshCapacity
  <2>2. Target - tap.srv \in Nat
    BY <1>0, <2>1, ClientAssumption DEF State, FirstReading, TypeOK
  <2> QED
    BY <1>0, <1>4, <2>1, <2>2, TaskStates, TaskStepType DEF RefreshCapacity
<1>5. CASE BorrowMore(t)
  <2>1. PICK tap \in resolveTapState :
          /\ tap.nonce < MaxNonce
          /\ Wait(t, [op |-> "params", change |->
                        [kind |-> "borrow", amount |-> task[t].amount,
                         state |-> [tap EXCEPT !.srv = @ + task[t].amount, !.nonce = @ + 1]]])
    BY <1>5 DEF BorrowMore
  <2>2. task[t].amount \in Nat
    BY <1>0, <1>5, TaskShape DEF BorrowMore
  <2>3. [tap EXCEPT !.srv = @ + task[t].amount, !.nonce = @ + 1] \in State
    BY <1>0, <1>1, <2>1, <2>2
  <2>4. [op |-> "params", change |->
           [kind |-> "borrow", amount |-> task[t].amount,
            state |-> [tap EXCEPT !.srv = @ + task[t].amount, !.nonce = @ + 1]]] \in TaskState
    BY <1>2, <2>2, <2>3
  <2> QED
    BY <1>0, <1>5, <2>1, <2>4, TaskStepType DEF BorrowMore
<1>6. ASSUME task[t].op \in {"params", "approve", "confirm", "sync"}
      PROVE  /\ task[t] \in [op : {"params", "approve", "confirm", "sync"}, change : Change]
             /\ task[t].change \in Change
             /\ \A op \in {"params", "approve", "confirm", "sync"} : [task[t] EXCEPT !.op = op] \in TaskState
  <2>1. task[t] \in [op : {"params", "approve", "confirm", "sync"}, change : Change]
    BY <1>0, <1>6, TaskShape
  <2> QED
    BY <2>1 DEF TaskState
<1>7. CASE ParamsSigned(t)
  BY <1>0, <1>6, <1>7, TaskStepType DEF ParamsSigned
<1>8. CASE ParamsRefused(t) \/ ChangeAbandoned(t)
  BY <1>0, <1>8, TaskStates, TaskStepType DEF ParamsRefused, ChangeAbandoned, Done
<1>9. CASE Broadcast(t)
  <2>1. mempool' \subseteq Change /\ task' \in [Task -> TaskState]
    BY <1>6, <1>9, Waits DEF Broadcast, TypeOK
  <2> QED
    BY <1>9, <2>1 DEF Broadcast, TypeOK, server
<1>10. CASE Confirmed(t)
  BY <1>0, <1>6, <1>10, TaskStepType DEF Confirmed
<1>11. CASE Synced(t)
  <2>1. pipes' \subseteq State /\ pendingRows' \subseteq State
    BY <1>0, <1>11 DEF Synced, TypeOK, deletePendingStatesAtOrBelowNonce
  <2>2. task' \in [Task -> TaskState]
    BY <1>11, TaskStates, Waits DEF Synced
  <2>3. held' = held \cup {chain} \cup chooseLatestRow(pipes', pendingRows')
    BY <1>11 DEF Synced, Remember
  <2>4. held' \subseteq State
    BY <2>1, <2>3, ChosenIsStored DEF TypeOK
  <2> QED
    BY <1>11, <2>1, <2>2, <2>4 DEF Synced, external, TypeOK
<1>12. CASE Read(t)
  BY <1>12, ReadStepType
<1> QED
  BY <1>3, <1>4, <1>5, <1>7, <1>8, <1>9, <1>10, <1>11, <1>12 DEF ChangeTap

LEMMA NextType == Client = "web" /\ TypeOK /\ [Next]_vars => TypeOK'
<1> SUFFICES ASSUME Client = "web", TypeOK, [Next]_vars PROVE TypeOK'
  OBVIOUS
<1>1. ASSUME NEW t \in Reader, Refresh(t) \/ Read(t) PROVE TypeOK'
  BY <1>1, ReadStepType DEF Task
<1>2. ASSUME NEW t \in Sender, Send(t) PROVE TypeOK'
  BY <1>2, SendStepType DEF Task
<1>3. ASSUME NEW t \in Changer, ChangeTap(t) PROVE TypeOK'
  BY <1>3, ChangeStepType DEF Task
<1>4. ASSUME NEW proof \in late, LateArrives(proof) PROVE TypeOK'
  <2>1. proof \in State /\ late' \subseteq State
    BY <1>4 DEF LateArrives, TypeOK
  <2>2. CASE Extends(proof)
    <3>1. PICK ok \in BOOLEAN : Store(proof, ok)
      BY <1>4, <2>2 DEF LateArrives
    <3>2. /\ pendingRows' \subseteq State /\ paid' \subseteq State /\ held' \subseteq State
          /\ pipes' = pipes
      BY <2>1, <3>1, StoreType
    <3> QED
      BY <1>4, <2>1, <3>2 DEF LateArrives, external, TypeOK
  <2>3. CASE ~ Extends(proof)
    BY <1>4, <2>1, <2>3 DEF LateArrives, external, server, TypeOK
  <2> QED
    BY <2>2, <2>3
<1>5. CASE ServerPays
  <2>1. PICK latest \in getTrackedTapState :
          /\ latest.srv >= Price /\ latest.nonce < MaxNonce
          /\ pendingRows' = upsertPendingState(pendingRows, NextTransfer(latest, Price, {}))
    BY <1>5 DEF ServerPays
  <2>2. latest \in State
    BY <2>1, TrackedType
  <2>3. NextTransfer(latest, Price, {}) \in State
    BY <2>1, <2>2, ClientAssumption DEF NextTransfer, State
  <2>4. pendingRows' \subseteq State
    BY <2>1, <2>3 DEF upsertPendingState, TypeOK
  <2>5. held' = held \cup {chain} \cup chooseLatestRow(pipes, pendingRows')
    BY <1>5 DEF ServerPays, Remember
  <2>6. held' \subseteq State
    BY <2>4, <2>5, ChosenIsStored DEF TypeOK
  <2> QED
    BY <1>5, <2>4, <2>6 DEF ServerPays, external, TypeOK
<1>6. ASSUME NEW proof \in paid, MessageClaimed(proof) PROVE TypeOK'
  <2>1. pipes' \subseteq State /\ pendingRows' \subseteq State /\ paid' \subseteq State
    BY <1>6 DEF MessageClaimed, TypeOK, deletePendingStatesAtOrBelowNonce
  <2>2. held' = held \cup {chain} \cup chooseLatestRow(pipes', pendingRows')
    BY <1>6 DEF MessageClaimed, Remember
  <2>3. held' \subseteq State
    BY <2>1, <2>2, ChosenIsStored DEF TypeOK
  <2> QED
    BY <1>6, <2>1, <2>3 DEF MessageClaimed, external, TypeOK
<1>7. ASSUME NEW c \in mempool, Mined(c) PROVE TypeOK'
  <2>1. c.state \in State /\ c.amount \in Nat /\ c.kind \in {"add", "borrow"} /\ mempool' \subseteq Change
    BY <1>7 DEF Mined, TypeOK, Change
  <2>2. chain' \in State /\ leg' \in [srv : Nat, cp : Nat]
    <3>1. [leg EXCEPT !.cp = @ + c.amount] \in [srv : Nat, cp : Nat]
      BY <2>1 DEF TypeOK
    <3>2. [leg EXCEPT !.srv = @ + c.amount] \in [srv : Nat, cp : Nat]
      BY <2>1 DEF TypeOK
    <3> QED
      BY <1>7, <2>1, <3>1, <3>2 DEF Mined, TypeOK
  <2>3. held' = held \cup {chain'} \cup chooseLatestRow(pipes, pendingRows)
    BY <1>7 DEF Mined, Remember
  <2>4. held' \subseteq State
    BY <2>2, <2>3, ChosenIsStored DEF TypeOK
  <2> QED
    BY <1>7, <2>1, <2>2, <2>4 DEF Mined, TypeOK
<1>8. CASE Matured
  BY <1>8 DEF Matured, NoLeg, server, TypeOK
<1>9. CASE UNCHANGED vars
  BY <1>9 DEF vars, TypeOK
<1> QED
  BY <1>1, <1>2, <1>3, <1>4, <1>5, <1>6, <1>7, <1>8, <1>9 DEF Next

(* Whatever overlaps in the browser, the view and everything that is signed, *)
(* sent, stored or mined is a state with natural balances.                   *)
THEOREM TypeCorrect ==
  ASSUME Client = "web"
  PROVE  Spec => []TypeOK
BY InitType, NextType, PTL DEF Spec

-----------------------------------------------------------------------------
(***************************************************************************)
(* The view.  A good reply carries a state the server has stored, which    *)
(* could then be read as the newest, and so one the tap has had; a refresh *)
(* carries one that was tracked or on the chain when it was read.  For a   *)
(* payment to be the newest row, the rows must have a newest one at all.   *)
(***************************************************************************)
RowsOrdered ==
  /\ \A a, b \in pipes : a = b
  /\ pendingRows # {} => getLatestPendingPipeRow(pendingRows) # {}

RepliesWereHeld ==
  /\ chain \in held /\ pipeState \in held /\ getTrackedTapState \subseteq held
  /\ \A t \in Task : task[t].op = "resolved" => task[t].tap \in held
  /\ \A t \in Task : task[t].op = "reply" /\ task[t].ok => task[t].proof \in held

(* The cast may make nonces equal, but it never changes their order. *)
LEMMA CastIsMonotone ==
  ASSUME NEW n \in Nat, NEW m \in Nat, n <= m
  PROVE  AsInteger(n) \in Nat /\ AsInteger(n) <= AsInteger(m)
BY IntegerAssumption DEF AsInteger

LEMMA NonceType == ASSUME NEW s \in State PROVE s.nonce \in Nat
BY ClientAssumption DEF State

(* A tap with a row has a newest one. *)
LEMMA TrackedIfStored ==
  ASSUME TypeOK, RowsOrdered, getTrackedTapState = {}
  PROVE  pipes = {} /\ pendingRows = {}
<1>1. {StateOf(e) : e \in pipes} = pipes
  BY ChosenIsStored DEF TypeOK
<1>2. CASE pendingRows = {}
  BY <1>1, <1>2 DEF getTrackedTapState, chooseLatestRow
<1>3. CASE pendingRows # {}
  <2>1. PICK top : top \in getLatestPendingPipeRow(pendingRows)
    BY <1>3 DEF RowsOrdered
  <2>2. Newest(pipes \cup {top}) = {}
    BY <1>1, <1>3, <2>1 DEF getTrackedTapState, chooseLatestRow
  <2>3. top \in State /\ \A e \in pipes : e \in State
    BY <2>1 DEF getLatestPendingPipeRow, TypeOK
  <2>4. ASSUME NEW e \in pipes PROVE FALSE
    <3>1. e.nonce \in Nat /\ top.nonce \in Nat
      BY <2>3, NonceType
    <3>2. e \in Newest(pipes \cup {top}) \/ top \in Newest(pipes \cup {top})
      BY <3>1 DEF RowsOrdered, Newest
    <3> QED
      BY <2>2, <3>2
  <2>5. pipes = {}
    BY <2>4
  <2> QED
    BY <2>2, <2>3, <2>5, NonceType DEF Newest
<1> QED
  BY <1>2, <1>3

(* No row is above the one chosen, as the statement on the table compares them. *)
LEMMA TrackedIsNewest ==
  ASSUME TypeOK, RowsOrdered, NEW known \in getTrackedTapState
  PROVE  /\ known \in State
         /\ \A e \in pipes : e.nonce <= known.nonce
         /\ \A q \in pendingRows : AsInteger(q.nonce) <= AsInteger(known.nonce)
<1>1. {StateOf(e) : e \in pipes} = pipes /\ known \in State
  BY ChosenIsStored, TrackedType DEF TypeOK
<1>2. CASE pendingRows = {}
  <2>1. known \in pipes
    BY <1>1, <1>2 DEF getTrackedTapState, chooseLatestRow
  <2>2. \A e \in pipes : e = known
    BY <2>1 DEF RowsOrdered
  <2> QED
    BY <1>1, <1>2, <2>2, NonceType
<1>3. CASE pendingRows # {}
  <2>1. PICK top \in getLatestPendingPipeRow(pendingRows) : known \in Newest(pipes \cup {top})
    BY <1>1, <1>3 DEF getTrackedTapState, chooseLatestRow
  <2>2. top.nonce <= known.nonce /\ \A e \in pipes : e.nonce <= known.nonce
    BY <2>1 DEF Newest
  <2>3. top \in State /\ \A q \in pendingRows : q \in State /\ AsInteger(q.nonce) <= AsInteger(top.nonce)
    BY <2>1 DEF getLatestPendingPipeRow, TypeOK
  <2>4. AsInteger(top.nonce) <= AsInteger(known.nonce)
    BY <1>1, <2>2, <2>3, NonceType, CastIsMonotone
  <2>5. \A q \in pendingRows : AsInteger(q.nonce) <= AsInteger(known.nonce)
    <3> SUFFICES ASSUME NEW q \in pendingRows PROVE AsInteger(q.nonce) <= AsInteger(known.nonce)
      OBVIOUS
    <3>1. AsInteger(q.nonce) \in Nat /\ AsInteger(top.nonce) \in Nat /\ AsInteger(known.nonce) \in Nat
      BY <1>1, <2>3, NonceType, IntegerAssumption DEF AsInteger
    <3> QED
      BY <2>3, <2>4, <3>1
  <2> QED
    BY <1>1, <2>2, <2>5
<1> QED
  BY <1>2, <1>3

(* A row on top of what is tracked is one that can be read as the newest. *)
LEMMA UpsertIsNewest ==
  ASSUME TypeOK, NEW row \in State, pendingRows' = upsertPendingState(pendingRows, row),
         \A e \in pipes : e.nonce < row.nonce,
         \A q \in pendingRows : AsInteger(q.nonce) <= AsInteger(row.nonce)
  PROVE  /\ row \in getLatestPendingPipeRow(pendingRows')
         /\ row \in chooseLatestRow(pipes, pendingRows')
<1>1. row \in pendingRows' /\ \A q \in pendingRows' : q \in pendingRows \/ q = row
  BY DEF upsertPendingState
<1>2. AsInteger(row.nonce) <= AsInteger(row.nonce)
  BY NonceType, CastIsMonotone
<1>3. row \in getLatestPendingPipeRow(pendingRows')
  BY <1>1, <1>2 DEF getLatestPendingPipeRow
<1>4. {StateOf(e) : e \in pipes} = pipes
  BY ChosenIsStored DEF TypeOK
<1>5. row \in Newest(pipes \cup {row})
  BY NonceType DEF Newest, TypeOK
<1> QED
  BY <1>1, <1>3, <1>4, <1>5 DEF chooseLatestRow

(* A row whose nonce is one above a row that is tracked. *)
LEMMA OnTopIsNewest ==
  ASSUME TypeOK, RowsOrdered, NEW known \in getTrackedTapState, NEW row \in State,
         row.nonce = known.nonce + 1
  PROVE  /\ \A e \in pipes : e.nonce < row.nonce
         /\ \A q \in pendingRows : AsInteger(q.nonce) <= AsInteger(row.nonce)
<1>1. known.nonce \in Nat /\ row.nonce \in Nat
  BY TrackedIsNewest, NonceType
<1>2. AsInteger(known.nonce) \in Nat /\ AsInteger(row.nonce) \in Nat
      /\ AsInteger(known.nonce) <= AsInteger(row.nonce)
  BY <1>1, CastIsMonotone
<1>3. ASSUME NEW q \in pendingRows PROVE AsInteger(q.nonce) <= AsInteger(row.nonce)
  <2>1. q.nonce \in Nat
    BY NonceType DEF TypeOK
  <2>2. AsInteger(q.nonce) \in Nat /\ AsInteger(q.nonce) <= AsInteger(known.nonce)
    BY <2>1, TrackedIsNewest, CastIsMonotone
  <2> QED
    BY <1>2, <2>2
<1>4. ASSUME NEW e \in pipes PROVE e.nonce < row.nonce
  <2>1. e.nonce \in Nat /\ e.nonce <= known.nonce
    BY NonceType, TrackedIsNewest DEF TypeOK
  <2> QED
    BY <1>1, <2>1
<1> QED
  BY <1>3, <1>4

LEMMA StoreIsNewest ==
  ASSUME TypeOK, RowsOrdered, NEW proof \in State, NEW ok \in BOOLEAN, Extends(proof), Store(proof, ok)
  PROVE  /\ getLatestPendingPipeRow(pendingRows') # {} /\ pipes' = pipes
         /\ proof \in held' /\ held \subseteq held' /\ chain \in held'
         /\ getTrackedTapState' \subseteq held'
<1>1. /\ \A e \in pipes : e.nonce < proof.nonce
      /\ \A q \in pendingRows : AsInteger(q.nonce) <= AsInteger(proof.nonce)
  <2>1. CASE getTrackedTapState = {}
    BY <2>1, TrackedIfStored
  <2>2. CASE getTrackedTapState # {}
    <3>1. PICK known \in getTrackedTapState : proof.nonce = known.nonce + 1
      BY <2>2 DEF Extends, Known
    <3> QED
      BY <3>1, OnTopIsNewest
  <2> QED
    BY <2>1, <2>2
<1>2. /\ proof \in getLatestPendingPipeRow(pendingRows')
      /\ proof \in chooseLatestRow(pipes, pendingRows') /\ pipes' = pipes
  BY <1>1, UpsertIsNewest DEF Store
<1> QED
  BY <1>2 DEF Store, Remember, getTrackedTapState

LEMMA ServerPaysNewest ==
  ASSUME TypeOK, RowsOrdered, ServerPays
  PROVE  getLatestPendingPipeRow(pendingRows') # {} /\ pipes' = pipes
<1>1. PICK latest \in getTrackedTapState :
        /\ latest.srv >= Price /\ latest.nonce < MaxNonce
        /\ pendingRows' = upsertPendingState(pendingRows, NextTransfer(latest, Price, {}))
  BY DEF ServerPays
<1> DEFINE row == NextTransfer(latest, Price, {})
<1>2. latest \in State
  BY TrackedType
<1>3. row \in State /\ row.nonce = latest.nonce + 1
  BY <1>1, <1>2, ClientAssumption DEF NextTransfer, State
<1>4. pipes' = pipes
  BY DEF ServerPays
<1> HIDE DEF row
<1>5. row \in getLatestPendingPipeRow(pendingRows')
  BY <1>1, <1>3, OnTopIsNewest, UpsertIsNewest DEF row
<1> QED
  BY <1>4, <1>5

(* The newest of the rows goes last. *)
LEMMA DeleteKeepsNewest ==
  ASSUME NEW rows \in SUBSET State, NEW n \in Nat, rows # {} => getLatestPendingPipeRow(rows) # {},
         deletePendingStatesAtOrBelowNonce(rows, n) # {}
  PROVE  getLatestPendingPipeRow(deletePendingStatesAtOrBelowNonce(rows, n)) # {}
<1>1. PICK top \in rows : \A q \in rows : AsInteger(q.nonce) <= AsInteger(top.nonce)
  BY DEF getLatestPendingPipeRow, deletePendingStatesAtOrBelowNonce
<1>2. AsInteger(n) \in Nat /\ \A q \in rows : AsInteger(q.nonce) \in Nat
  BY NonceType, CastIsMonotone, IntegerAssumption DEF AsInteger
<1>3. top \in deletePendingStatesAtOrBelowNonce(rows, n)
  BY <1>1, <1>2 DEF deletePendingStatesAtOrBelowNonce
<1> QED
  BY <1>1, <1>3 DEF getLatestPendingPipeRow, deletePendingStatesAtOrBelowNonce

LEMMA NextOrdered == TypeOK /\ RowsOrdered /\ [Next]_vars => RowsOrdered'
<1> SUFFICES ASSUME TypeOK, RowsOrdered, [Next]_vars PROVE RowsOrdered'
  OBVIOUS
<1>1. ASSUME UNCHANGED <<pipes, pendingRows>> PROVE RowsOrdered'
  BY <1>1 DEF RowsOrdered
<1>2. ASSUME NEW proof \in State, NEW ok \in BOOLEAN, Extends(proof), Store(proof, ok) PROVE RowsOrdered'
  BY <1>2, StoreIsNewest DEF RowsOrdered
<1>3. ASSUME NEW row \in State, pipes' = {row},
             pendingRows' = deletePendingStatesAtOrBelowNonce(pendingRows, row.nonce)
      PROVE  RowsOrdered'
  <2>1. row.nonce \in Nat /\ pendingRows \subseteq State
    BY ClientAssumption DEF State, TypeOK
  <2>2. pendingRows' # {} => getLatestPendingPipeRow(pendingRows') # {}
    BY <1>3, <2>1, DeleteKeepsNewest DEF RowsOrdered
  <2> QED
    BY <1>3, <2>2 DEF RowsOrdered
<1>4. ASSUME NEW t \in Task, Send(t) PROVE RowsOrdered'
  <2>1. CASE SendStored(t)
    <3>1. task[t].proof \in State
      BY <2>1, TaskShape DEF SendStored, TypeOK
    <3> QED
      BY <1>2, <2>1, <3>1 DEF SendStored
  <2>2. CASE ~ SendStored(t)
    BY <1>1, <1>4, <2>2 DEF Send, SendMessage, SendRefused, Sent, SendTimesOut, server
  <2> QED
    BY <2>1, <2>2
<1>5. ASSUME NEW t \in Task, Refresh(t) \/ Read(t) PROVE RowsOrdered'
  BY <1>1, <1>5 DEF Refresh, Read, ReadFrom, Refreshed, server
<1>6. ASSUME NEW t \in Task, ChangeTap(t) PROVE RowsOrdered'
  <2>1. CASE Synced(t)
    BY <1>3, <2>1 DEF Synced, TypeOK
  <2>2. CASE ~ Synced(t)
    <3>1. UNCHANGED <<pipes, pendingRows>> \/ Read(t)
      BY <1>6, <2>2 DEF ChangeTap, AddFunds, RefreshCapacity, BorrowMore, ParamsSigned, ParamsRefused,
                        Broadcast, Confirmed, ChangeAbandoned, server
    <3> QED
      BY <1>1, <1>5, <3>1
  <2> QED
    BY <2>1, <2>2
<1>7. ASSUME NEW proof \in late, LateArrives(proof) PROVE RowsOrdered'
  <2>1. proof \in State
    BY DEF TypeOK
  <2> QED
    BY <1>1, <1>2, <1>7, <2>1 DEF LateArrives, server
<1>8. ASSUME NEW proof \in paid, MessageClaimed(proof) PROVE RowsOrdered'
  BY <1>3, <1>8 DEF MessageClaimed, TypeOK
<1>9. CASE ServerPays
  BY <1>9, ServerPaysNewest DEF RowsOrdered
<1>10. ASSUME (\E c \in mempool : Mined(c)) \/ Matured \/ UNCHANGED vars PROVE RowsOrdered'
  BY <1>1, <1>10 DEF Mined, Matured, server, vars
<1> QED
  BY <1>4, <1>5, <1>6, <1>7, <1>8, <1>9, <1>10 DEF Next, Task

(* What a step has to show, when nothing that was held is forgotten. *)
LEMMA HeldStep ==
  ASSUME TypeOK, RepliesWereHeld, held \subseteq held', chain' \in held', pipeState' \in held',
         getTrackedTapState' \subseteq held',
         \A u \in Task :
           \/ task'[u] = task[u]
           \/ /\ task'[u].op = "resolved" => task'[u].tap \in held'
              /\ task'[u].op = "reply" /\ task'[u].ok => task'[u].proof \in held'
  PROVE  RepliesWereHeld'
BY DEF RepliesWereHeld

(* Rows change with what is remembered. *)
LEMMA RememberHolds ==
  ASSUME Remember(chain', pipes', pendingRows')
  PROVE  held \subseteq held' /\ chain' \in held' /\ getTrackedTapState' \subseteq held'
BY DEF Remember, getTrackedTapState

LEMMA WaitHolds ==
  ASSUME TypeOK, RepliesWereHeld, NEW t \in Task, NEW s \in TaskState, Wait(t, s),
         UNCHANGED <<server, chain>>, pipeState' \in held,
         s.op = "resolved" => s.tap \in held, s.op = "reply" /\ s.ok => s.proof \in held
  PROVE  RepliesWereHeld'
<1>1. held' = held /\ chain' = chain /\ getTrackedTapState' = getTrackedTapState
  BY DEF server, getTrackedTapState
<1>2. \A u \in Task : task'[u] = IF u = t THEN s ELSE task[u]
  BY Waits
<1> QED
  BY <1>1, <1>2, HeldStep DEF RepliesWereHeld

LEMMA NextHeld ==
  Client = "web" /\ TypeOK /\ RowsOrdered /\ RepliesWereHeld /\ [Next]_vars => RepliesWereHeld'
<1> SUFFICES ASSUME Client = "web", TypeOK, RowsOrdered, RepliesWereHeld, [Next]_vars
             PROVE  RepliesWereHeld'
  OBVIOUS
<1>0. /\ pipeState \in held /\ chain \in held /\ getTrackedTapState \subseteq held
      /\ \A t \in Task : task[t] \in TaskState
  BY DEF RepliesWereHeld, TypeOK
<1>1. ASSUME NEW t \in Task, Refresh(t) \/ Read(t) PROVE RepliesWereHeld'
  <2>1. CASE Refresh(t)
    BY <1>0, <2>1, TaskStates, WaitHolds DEF Refresh, external
  <2>2. CASE ReadFrom(t, resolveTapState)
    <3>1. PICK tap \in resolveTapState : Wait(t, [op |-> "resolved", tap |-> tap])
      BY <2>2 DEF ReadFrom
    <3>2. tap \in held /\ tap \in State
      BY <1>0, ResolvedType
    <3> QED
      BY <1>0, <2>2, <3>1, <3>2, TaskStates, WaitHolds DEF ReadFrom, external
  <2>3. CASE Refreshed(t)
    <3>1. pipeState' \in held
      BY <2>3 DEF Refreshed, RepliesWereHeld
    <3> QED
      BY <2>3, <3>1, TaskStates, WaitHolds DEF Refreshed, Done, Idle, external
  <2> QED
    BY <1>1, <2>1, <2>2, <2>3 DEF Read
<1>2. ASSUME NEW t \in Task, Send(t) PROVE RepliesWereHeld'
  <2>1. CASE SendMessage(t)
    <3>1. Pay(pipeState) \in State
      BY <2>1, PayType DEF SendMessage, TypeOK
    <3> QED
      BY <1>0, <2>1, <3>1, TaskStates, WaitHolds DEF SendMessage, external
  <2>2. CASE SendStored(t)
    <3>1. task[t].proof \in State /\ Extends(task[t].proof)
      BY <1>0, <2>2, TaskShape DEF SendStored
    <3>2. PICK ok \in BOOLEAN :
            /\ Store(task[t].proof, ok)
            /\ Wait(t, [op |-> "reply", proof |-> task[t].proof, ok |-> ok])
      BY <2>2 DEF SendStored
    <3>3. /\ held \subseteq held' /\ chain \in held' /\ task[t].proof \in held'
          /\ getTrackedTapState' \subseteq held'
      BY <3>1, <3>2, StoreIsNewest
    <3>4. \A u \in Task : task'[u] = IF u = t THEN [op |-> "reply", proof |-> task[t].proof, ok |-> ok] ELSE task[u]
      BY <3>1, <3>2, TaskStates, Waits
    <3>5. pipeState' = pipeState /\ chain' = chain
      BY <2>2 DEF SendStored, external
    <3> QED
      BY <1>0, <3>3, <3>4, <3>5, HeldStep
  <2>3. CASE SendRefused(t)
    <3>1. task[t].proof \in State
      BY <1>0, <2>3, TaskShape DEF SendRefused
    <3> QED
      BY <1>0, <2>3, <3>1, TaskStates, WaitHolds DEF SendRefused, external
  <2>4. CASE Sent(t)
    <3>1. pipeState' \in held
      BY <1>0, <2>4 DEF Sent, RepliesWereHeld
    <3> QED
      BY <2>4, <3>1, TaskStates, WaitHolds DEF Sent, Done, Idle, external
  <2>5. CASE SendTimesOut(t)
    BY <1>0, <2>5, TaskStates, WaitHolds DEF SendTimesOut, Done, Idle, external
  <2> QED
    BY <1>2, <2>1, <2>2, <2>3, <2>4, <2>5 DEF Send
<1>3. ASSUME NEW t \in Task, ChangeTap(t) PROVE RepliesWereHeld'
  <2>1. CASE Read(t)
    BY <1>1, <2>1
  <2>2. CASE Synced(t)
    <3>1. chain' = chain /\ pipeState' = pipeState
      BY <2>2 DEF Synced, external
    <3>2. held \subseteq held' /\ chain' \in held' /\ getTrackedTapState' \subseteq held'
      BY <2>2, <3>1, RememberHolds DEF Synced
    <3>3. \A u \in Task : task'[u] = task[u] \/ task'[u].op = "resolve"
      BY <2>2, TaskStates, Waits DEF Synced
    <3> QED
      BY <1>0, <3>1, <3>2, <3>3, HeldStep
  <2>3. ASSUME UNCHANGED <<server, chain, pipeState>>,
               \A u \in Task : task'[u] = task[u] \/ task'[u].op \notin {"resolved", "reply"}
        PROVE  RepliesWereHeld'
    <3>1. getTrackedTapState' = getTrackedTapState /\ held' = held
      BY <2>3 DEF server, getTrackedTapState
    <3> QED
      BY <1>0, <2>3, <3>1, HeldStep
  <2>4. CASE AddFunds(t) \/ RefreshCapacity(t) \/ BorrowMore(t)
    <3>1. UNCHANGED <<server, chain, pipeState>>
      BY <2>4 DEF AddFunds, RefreshCapacity, BorrowMore, external
    <3>2. \E s : Wait(t, s) /\ s.op \in {"params", "amount"}
      <4>1. CASE AddFunds(t)
        <5>1. PICK tap \in IF Client = "web" THEN {queryOnChainTap} ELSE resolveTapState :
                Wait(t, [op |-> "params", change |->
                           [kind |-> "add", amount |-> 1,
                            state |-> [tap EXCEPT !.cp = @ + 1, !.nonce = @ + 1]]])
          BY <4>1 DEF AddFunds
        <5> QED
          BY <5>1
      <4>2. CASE RefreshCapacity(t)
        <5>1. PICK tap \in FirstReading : Wait(t, [op |-> "amount", amount |-> Target - tap.srv])
          BY <4>2 DEF RefreshCapacity
        <5> QED
          BY <5>1
      <4>3. CASE BorrowMore(t)
        <5>1. PICK tap \in resolveTapState :
                Wait(t, [op |-> "params", change |->
                           [kind |-> "borrow", amount |-> task[t].amount,
                            state |-> [tap EXCEPT !.srv = @ + task[t].amount, !.nonce = @ + 1]]])
          BY <4>3 DEF BorrowMore
        <5> QED
          BY <5>1
      <4> QED
        BY <2>4, <4>1, <4>2, <4>3
    <3>3. \A u \in Task : task'[u] = task[u] \/ task'[u].op \notin {"resolved", "reply"}
      BY <3>2 DEF Wait, TypeOK
    <3> QED
      BY <2>3, <3>1, <3>3
  <2>5. CASE ParamsSigned(t) \/ Broadcast(t) \/ Confirmed(t)
    <3>1. UNCHANGED <<server, chain, pipeState>>
      BY <2>5 DEF ParamsSigned, Broadcast, Confirmed, external
    <3>2. PICK op \in {"approve", "confirm", "sync"} : Wait(t, [task[t] EXCEPT !.op = op])
      BY <2>5 DEF ParamsSigned, Broadcast, Confirmed
    <3>3. task[t] \in [op : {"params", "approve", "confirm", "sync"}, change : Change]
      BY <1>0, <2>5, TaskShape DEF ParamsSigned, Broadcast, Confirmed
    <3>4. [task[t] EXCEPT !.op = op].op = op
      BY <3>3
    <3>5. \A u \in Task : task'[u] = task[u] \/ task'[u].op \notin {"resolved", "reply"}
      BY <3>2, <3>4 DEF Wait, TypeOK
    <3> QED
      BY <2>3, <3>1, <3>5
  <2>6. CASE ParamsRefused(t) \/ ChangeAbandoned(t)
    <3>1. UNCHANGED <<server, chain, pipeState>>
      BY <2>6 DEF ParamsRefused, ChangeAbandoned, external
    <3>2. \A u \in Task : task'[u] = task[u] \/ task'[u].op \notin {"resolved", "reply"}
      BY <2>6, TaskStates, Waits DEF ParamsRefused, ChangeAbandoned, Done, Idle
    <3> QED
      BY <2>3, <3>1, <3>2
  <2> QED
    BY <1>3, <2>1, <2>2, <2>4, <2>5, <2>6 DEF ChangeTap
<1>4. ASSUME UNCHANGED <<task, pipeState>>, Remember(chain', pipes', pendingRows') PROVE RepliesWereHeld'
  <2>1. held \subseteq held' /\ chain' \in held' /\ getTrackedTapState' \subseteq held'
    BY <1>4, RememberHolds
  <2> QED
    BY <1>0, <1>4, <2>1, HeldStep
<1>5. ASSUME UNCHANGED <<server, chain, task, pipeState>> PROVE RepliesWereHeld'
  <2>1. getTrackedTapState' = getTrackedTapState /\ held' = held
    BY <1>5 DEF server, getTrackedTapState
  <2> QED
    BY <1>5, <2>1 DEF RepliesWereHeld
<1>6. ASSUME NEW proof \in late, LateArrives(proof) PROVE RepliesWereHeld'
  BY <1>4, <1>5, <1>6 DEF LateArrives, Store, external
<1>7. ASSUME NEW proof \in paid, MessageClaimed(proof) PROVE RepliesWereHeld'
  BY <1>4, <1>7 DEF MessageClaimed, external
<1>8. CASE ServerPays
  BY <1>4, <1>8 DEF ServerPays, external
<1>9. ASSUME NEW c \in mempool, Mined(c) PROVE RepliesWereHeld'
  BY <1>4, <1>9 DEF Mined
<1>10. CASE Matured \/ UNCHANGED vars
  BY <1>5, <1>10 DEF Matured, vars, server
<1> QED
  BY <1>1, <1>2, <1>3, <1>6, <1>7, <1>8, <1>9, <1>10 DEF Next, Task

(* However refreshes, sends, timeouts, late arrivals and liquidity changes   *)
(* overlap, the browser's view is a state the tap has had.                   *)
THEOREM ViewIsHeld ==
  ASSUME Client = "web"
  PROVE  Spec => []ViewWasHeld
<1>1. Init => RowsOrdered /\ RepliesWereHeld
  BY DEF Init, RowsOrdered, RepliesWereHeld, Idle, getTrackedTapState, chooseLatestRow
<1>2. RepliesWereHeld => ViewWasHeld
  BY DEF RepliesWereHeld, ViewWasHeld
<1> QED
  BY <1>1, <1>2, InitType, NextType, NextOrdered, NextHeld, PTL DEF Spec
=============================================================================
