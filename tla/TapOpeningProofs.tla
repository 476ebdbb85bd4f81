-------------------------- MODULE TapOpeningProofs --------------------------
(***************************************************************************)
(* Proofs about TapOpening, for any wallets and any number of functions of *)
(* the page that wait at the same time.                                    *)
(***************************************************************************)
EXTENDS TapOpening, TLAPS, FiniteSetTheorems

-----------------------------------------------------------------------------
(***************************************************************************)
(* Type correctness.  A variable that holds one value or none is a set any *)
(* two members of which are the same; an answer has to be one as well, for *)
(* what it says becomes the state of the page.                             *)
(***************************************************************************)
TaskState == Call \cup Query \cup Answer \cup Opening \cup Post

Types ==
  /\ wallet \subseteq Wallet
  /\ page \in Page
  /\ pipeState \subseteq [addr : Wallet, nonce : OpenNonce..MaxNonce]
  /\ disabled \subseteq Button
  /\ task \in [Task -> TaskState]
  /\ tracked \in [Wallet -> Tap]
  /\ chain \in [Wallet -> Tap]
  /\ mempool \subseteq Wallet

AtMostOne(T) == \A a, b \in T : a = b

Single ==
  /\ AtMostOne(wallet) /\ AtMostOne(pipeState)
  /\ \A w \in Wallet : AtMostOne(tracked[w]) /\ AtMostOne(chain[w])
  /\ \A t \in Task : task[t].op = "answer" => AtMostOne(task[t].tap)

LEMMA OneIsCounted ==
  ASSUME NEW T, AtMostOne(T)
  PROVE  Cardinality(T) <= 1
<1>1. CASE T = {}
  BY <1>1, FS_EmptySet
<1>2. ASSUME NEW x \in T PROVE Cardinality(T) <= 1
  <2>1. T = {x}
    BY DEF AtMostOne
  <2>2. Cardinality({x}) = 1
    BY FS_Singleton
  <2> QED
    BY <2>1, <2>2
<1> QED
  BY <1>1, <1>2

LEMMA TypesCounted == Types /\ Single => TypeOK
BY OneIsCounted DEF Types, Single, TypeOK, TaskState

LEMMA OpenNonceType == {} \in Tap /\ {OpenNonce} \in Tap
BY NonceAssumption DEF Tap, OpenNonce

LEMMA TaskShape ==
  ASSUME NEW s \in TaskState
  PROVE  /\ s.op \in {"query", "answer"} =>
              s.addr \in Wallet /\ s.for \in {"connect", "check", "status"}
         /\ s.op = "answer" => s.tap \in Tap
         /\ s.op \in {"sign", "post", "reply", "approve"} => s.signer \in Wallet
BY DEF TaskState, Call, Query, Answer, Opening, Post

LEMMA TaskStates ==
  /\ Idle \in TaskState
  /\ \A op \in {"prompt", "greet", "checking", "status"} : [op |-> op] \in TaskState
  /\ \A w \in Wallet, f \in {"connect", "check", "status"} :
       /\ [op |-> "query", addr |-> w, for |-> f] \in TaskState
       /\ \A tap \in Tap : [op |-> "answer", addr |-> w, for |-> f, tap |-> tap] \in TaskState
  /\ \A v, w \in Wallet : [op |-> "post", signer |-> v, borrower |-> w] \in TaskState
  /\ \A op \in {"sign", "reply", "approve"}, w \in Wallet : [op |-> op, signer |-> w] \in TaskState
BY DEF TaskState, Call, Idle, Query, Answer, Opening, Post

LEMMA Goes ==
  ASSUME Types, NEW t \in Task, NEW s \in TaskState, Goto(t, s)
  PROVE  /\ task' \in [Task -> TaskState]
         /\ \A u \in Task : task'[u] = IF u = t THEN s ELSE task[u]
BY DEF Types, Goto

(* A step of a function of the page that does not answer a query. *)
LEMMA StepKeeps ==
  ASSUME Types, Single, NEW t \in Task, NEW s \in TaskState, Goto(t, s), s.op # "answer",
         UNCHANGED <<wallet, world>>, page' \in Page, disabled' \subseteq Button,
         pipeState' \subseteq [addr : Wallet, nonce : OpenNonce..MaxNonce],
         AtMostOne(pipeState')
  PROVE  Types' /\ Single'
<1>1. /\ task' \in [Task -> TaskState]
      /\ \A u \in Task : task'[u] = IF u = t THEN s ELSE task[u]
  BY Goes
<1> QED
  BY <1>1 DEF Types, Single, world

LEMMA InitType == Init => Types /\ Single
<1> SUFFICES ASSUME Init PROVE Types /\ Single
  OBVIOUS
<1>1. Types
  BY OpenNonceType, TaskStates DEF Init, Types, Page
<1>2. Single
  BY DEF Init, Single, AtMostOne, Idle
<1> QED
  BY <1>1, <1>2

LEMMA StepType ==
  ASSUME Types, Single, NEW t \in Task, Step(t)
  PROVE  Types' /\ Single'
<1>0. /\ page \in Page /\ disabled \subseteq Button /\ task[t] \in TaskState
      /\ pipeState \subseteq [addr : Wallet, nonce : OpenNonce..MaxNonce] /\ AtMostOne(pipeState)
      /\ wallet \subseteq Wallet
  BY DEF Types, Single
<1>1. CASE Resolved(t)
  <2>1. task[t].addr \in Wallet /\ task[t].for \in {"connect", "check", "status"}
    BY <1>0, <1>1, TaskShape DEF Resolved
  <2>2. PICK tap \in resolveTapState(task[t].addr) :
          Goto(t, [op |-> "answer", addr |-> task[t].addr, for |-> task[t].for, tap |-> tap])
    BY <1>1 DEF Resolved
  <2>3. tap \in Tap /\ AtMostOne(tap)
    <3>1. tap \in {tracked[task[t].addr], chain[task[t].addr], {}}
      BY <2>2 DEF resolveTapState
    <3>2. AtMostOne({})
      BY DEF AtMostOne
    <3> QED
      BY <2>1, <3>1, <3>2, OpenNonceType DEF Types, Single
  <2>4. [op |-> "answer", addr |-> task[t].addr, for |-> task[t].for, tap |-> tap] \in TaskState
    BY <2>1, <2>3, TaskStates
  <2>5. /\ task' \in [Task -> TaskState]
        /\ \A u \in Task : task'[u] = IF u = t
             THEN [op |-> "answer", addr |-> task[t].addr, for |-> task[t].for, tap |-> tap] ELSE task[u]
    BY <2>2, <2>4, Goes
  <2> QED
    BY <1>1, <2>3, <2>5 DEF Resolved, Types, Single, world
<1>2. CASE Found(t)
  <2>1. /\ task[t].addr \in Wallet /\ task[t].tap \in Tap /\ AtMostOne(task[t].tap)
    BY <1>0, <1>2, TaskShape DEF Found, Single
  <2>2. pipeState' = {[addr |-> task[t].addr, nonce |-> n] : n \in task[t].tap}
    BY <1>2 DEF Found, Shows
  <2>3. pipeState' \subseteq [addr : Wallet, nonce : OpenNonce..MaxNonce] /\ AtMostOne(pipeState')
    BY <2>1, <2>2 DEF AtMostOne, Tap
  <2>4. /\ page' \in Page /\ UNCHANGED <<wallet, disabled, world>>
        /\ Goto(t, Idle) \/ Goto(t, [op |-> "status"])
    BY <1>0, <1>2 DEF Found, Page
  <2>5. Idle \in TaskState /\ [op |-> "status"] \in TaskState /\ Idle.op # "answer"
    BY TaskStates DEF Idle
  <2> QED
    BY <1>0, <2>3, <2>4, <2>5, StepKeeps
<1>3. CASE NotFound(t)
  <2>1. page' \in Page /\ disabled' \subseteq Button
    BY <1>0, <1>3 DEF NotFound, Page
  <2> QED
    BY <1>0, <1>3, <2>1, TaskStates, StepKeeps DEF NotFound, Idle
<1>4. CASE loadStatus(t)
  <2>1. CASE Goto(t, Idle)
    BY <1>0, <1>4, <2>1, TaskStates, StepKeeps DEF loadStatus, Idle
  <2>2. ASSUME NEW w \in wallet, Goto(t, [op |-> "query", addr |-> w, for |-> "status"])
        PROVE  Types' /\ Single'
    BY <1>0, <1>4, <2>2, TaskStates, StepKeeps DEF loadStatus
  <2> QED
    BY <1>4, <2>1, <2>2 DEF loadStatus
<1>5. CASE Check(t)
  <2>1. PICK w \in wallet : Goto(t, [op |-> "query", addr |-> w, for |-> "check"])
    BY <1>5 DEF Check
  <2>2. disabled' \subseteq Button
    BY <1>0, <1>5 DEF Check, Button
  <2> QED
    BY <1>0, <1>5, <2>1, <2>2, TaskStates, StepKeeps DEF Check
<1>6. CASE Open(t)
  <2>1. PICK w \in wallet : Goto(t, [op |-> "sign", signer |-> w])
    BY <1>6 DEF Open
  <2>2. disabled' \subseteq Button
    BY <1>0, <1>6 DEF Open, Button
  <2> QED
    BY <1>0, <1>6, <2>1, <2>2, TaskStates, StepKeeps DEF Open
<1>7. CASE Signed(t)
  <2>1. PICK w \in wallet : Goto(t, [op |-> "post", signer |-> task[t].signer, borrower |-> w])
    BY <1>7 DEF Signed
  <2>2. task[t].signer \in Wallet
    BY <1>0, <1>7, TaskShape DEF Signed
  <2> QED
    BY <1>0, <1>7, <2>1, <2>2, TaskStates, StepKeeps DEF Signed
<1>8. CASE OpeningSigned(t)
  <2>1. task[t].signer \in Wallet
    BY <1>0, <1>8, TaskShape DEF OpeningSigned
  <2>2. /\ task' \in [Task -> TaskState]
        /\ \A u \in Task : task'[u] = IF u = t THEN [op |-> "reply", signer |-> task[t].signer] ELSE task[u]
    BY <1>8, <2>1, TaskStates, Goes DEF OpeningSigned
  <2>3. tracked' \in [Wallet -> Tap] /\ \A w \in Wallet : AtMostOne(tracked'[w])
    BY <1>8, <2>1, OpenNonceType DEF OpeningSigned, Types, Single, AtMostOne
  <2> QED
    <3>1. Types'
      BY <1>8, <2>2, <2>3 DEF OpeningSigned, Types
    <3>2. UNCHANGED <<wallet, pipeState, chain>>
      BY <1>8 DEF OpeningSigned
    <3>3. \A u \in Task : task'[u].op = "answer" => task'[u] = task[u]
      BY <2>2
    <3>4. Single'
      BY <2>3, <3>2, <3>3 DEF Single
    <3> QED
      BY <3>1, <3>4
<1>9. CASE Approved(t)
  <2>1. task' \in [Task -> TaskState] /\ \A u \in Task : task'[u] = IF u = t THEN Idle ELSE task[u]
    BY <1>9, TaskStates, Goes DEF Approved
  <2>2. task[t].signer \in Wallet
    BY <1>0, <1>9, TaskShape DEF Approved
  <2> QED
    BY <1>9, <2>1, <2>2 DEF Approved, Types, Single, Page, Idle
<1>10. CASE OpenFails(t)
  <2>1. disabled' \subseteq Button
    BY <1>0, <1>10 DEF OpenFails
  <2> QED
    BY <1>0, <1>10, <2>1, TaskStates, StepKeeps DEF OpenFails, Idle
<1>11. CASE Connect(t)
  <2>1. disabled' \subseteq Button
    BY <1>0, <1>11 DEF Connect, Button
  <2> QED
    BY <1>0, <1>11, <2>1, TaskStates, StepKeeps DEF Connect
<1>12. CASE ConnectFails(t)
  <2>1. disabled' \subseteq Button
    BY <1>0, <1>12 DEF ConnectFails
  <2> QED
    BY <1>0, <1>12, <2>1, TaskStates, StepKeeps DEF ConnectFails, Idle
<1>13. ASSUME NEW w \in Wallet, Connected(t, w) PROVE Types' /\ Single'
  <2>1. /\ task' \in [Task -> TaskState]
        /\ \A u \in Task : task'[u] = IF u = t THEN [op |-> "greet"] ELSE task[u]
    BY <1>13, TaskStates, Goes DEF Connected
  <2> QED
    BY <1>13, <2>1 DEF Connected, Types, Single, AtMostOne, world
<1>14. CASE Greeted(t)
  BY <1>0, <1>14, TaskStates, StepKeeps DEF Greeted, Page
<1>15. CASE Checking(t)
  <2>1. ASSUME NEW w \in wallet, Goto(t, [op |-> "query", addr |-> w, for |-> "connect"]), UNCHANGED page
        PROVE  Types' /\ Single'
    BY <1>0, <1>15, <2>1, TaskStates, StepKeeps DEF Checking
  <2>2. CASE Goto(t, Idle) /\ page' = "no-tap"
    BY <1>0, <1>15, <2>2, TaskStates, StepKeeps DEF Checking, Idle, Page
  <2> QED
    BY <1>15, <2>1, <2>2 DEF Checking
<1>16. CASE Load(t)
  BY <1>0, <1>16, TaskStates, StepKeeps DEF Load
<1>17. CASE Prepared(t)
  <2>1. task[t].signer \in Wallet
    BY <1>0, <1>17, TaskShape DEF Prepared
  <2> QED
    BY <1>0, <1>17, <2>1, TaskStates, StepKeeps DEF Prepared
<1> QED
  BY <1>1, <1>2, <1>3, <1>4, <1>5, <1>6, <1>7, <1>8, <1>9, <1>10, <1>11, <1>12, <1>13, <1>14, <1>15,
     <1>16, <1>17 DEF Step

LEMMA NextType == Types /\ Single /\ [Next]_vars => Types' /\ Single'
<1> SUFFICES ASSUME Types, Single, [Next]_vars PROVE Types' /\ Single'
  OBVIOUS
<1>2. ASSUME NEW t \in Task, Step(t) PROVE Types' /\ Single'
  BY <1>2, StepType
<1>3. CASE Disconnect
  BY <1>3 DEF Disconnect, Types, Single, AtMostOne, Page, world
<1>4. CASE Reload
  BY <1>4, TaskStates DEF Reload, Types, Single, AtMostOne, Page, Idle, world
<1>5. ASSUME NEW w \in Wallet, Paid(w) PROVE Types' /\ Single'
  <2>1. PICK n \in IF tracked[w] # {} THEN tracked[w] ELSE chain[w] :
          n < MaxNonce /\ tracked' = [tracked EXCEPT ![w] = {n + 1}]
    BY <1>5 DEF Paid
  <2>2. n \in OpenNonce..MaxNonce
    BY <2>1 DEF Types, Tap
  <2>3. {n + 1} \in Tap
    BY <2>1, <2>2, NonceAssumption DEF Tap, OpenNonce
  <2>4. tracked' \in [Wallet -> Tap] /\ \A v \in Wallet : AtMostOne(tracked'[v])
    BY <2>1, <2>3 DEF Types, Single, AtMostOne
  <2> QED
    BY <1>5, <2>4 DEF Paid, browser, Types, Single
<1>6. ASSUME NEW w \in mempool, Mined(w) PROVE Types' /\ Single'
  <2>1. chain' \in [Wallet -> Tap] /\ \A v \in Wallet : AtMostOne(chain'[v])
    <3>1. w \in Wallet /\ AtMostOne({OpenNonce})
      BY DEF Types, AtMostOne
    <3>2. CASE chain' = chain
      BY <3>2 DEF Types, Single
    <3>3. CASE chain' = [chain EXCEPT ![w] = {OpenNonce}]
      BY <3>1, <3>3, OpenNonceType DEF Types, Single
    <3>4. chain' = chain \/ chain' = [chain EXCEPT ![w] = {OpenNonce}]
      BY <1>6, <3>1 DEF Mined, Types
    <3> QED
      BY <3>2, <3>3, <3>4
  <2> QED
    BY <1>6, <2>1 DEF Mined, browser, Types, Single
<1>7. CASE UNCHANGED vars
  BY <1>7 DEF vars, Types, Single
<1> QED
  BY <1>2, <1>3, <1>4, <1>5, <1>6, <1>7 DEF Next

(* At most one wallet is connected, the page works with one tap at most, and *)
(* the server keeps one row for a tap, whatever overlaps.                    *)
THEOREM TypeCorrect == Spec => []TypeOK
BY InitType, NextType, TypesCounted, PTL DEF Spec

-----------------------------------------------------------------------------
(***************************************************************************)
(* The panel of a tap.  A wallet is connected at most once between two     *)
(* loads of the page: before its addresses are asked for, nothing is known *)
(* of any wallet, and from then on the buttons are disabled.  So whatever  *)
(* is still waited for, and whatever the page shows, is of that wallet, or *)
(* none is connected any more.                                             *)
(***************************************************************************)
HasTap(rows, taps, w) == rows[w] \cup taps[w] # {}

Fresh ==
  /\ wallet = {} /\ pipeState = {}
  /\ \A t \in Task : task[t].op \in {"idle", "prompt"}

ConnectedOnce ==
  /\ "connect" \notin disabled => Fresh
  /\ \A t \in Task : task[t].op = "prompt" =>
       Fresh /\ "connect" \in disabled /\ \A u \in Task \ {t} : task[u].op # "prompt"

ForWallet ==
  \A w \in wallet :
    /\ \A tap \in pipeState : tap.addr = w
    /\ \A t \in Task : task[t].op \in {"query", "answer"} => task[t].addr = w

TapIsThere ==
  /\ page = "ready" => pipeState # {}
  /\ \A tap \in pipeState : HasTap(tracked, chain, tap.addr)
  /\ \A t \in Task :
       task[t].op = "answer" /\ task[t].tap # {} => HasTap(tracked, chain, task[t].addr)

OwnTap == ConnectedOnce /\ ForWallet /\ TapIsThere

(* A tap that is there stays: the server and the chain drop none. *)
LEMMA TapsStay ==
  ASSUME Types, [Next]_vars, NEW w \in Wallet
  PROVE  HasTap(tracked, chain, w) => HasTap(tracked', chain', w)
<1>1. ASSUME UNCHANGED world PROVE HasTap(tracked, chain, w) => HasTap(tracked', chain', w)
  BY <1>1 DEF HasTap, world
<1>2. ASSUME NEW t \in Task, OpeningSigned(t) PROVE HasTap(tracked, chain, w) => HasTap(tracked', chain', w)
  BY <1>2 DEF OpeningSigned, HasTap, Types
<1>3. ASSUME NEW t \in Task, Step(t), ~ OpeningSigned(t) PROVE HasTap(tracked, chain, w) => HasTap(tracked', chain', w)
  BY <1>3 DEF Step, Connect, ConnectFails, Connected, Greeted, Checking, Resolved, Found, NotFound,
              Load, loadStatus, Check, Open, Signed, Prepared, Approved, OpenFails, HasTap, world
<1>4. ASSUME NEW v \in Wallet, Paid(v) PROVE HasTap(tracked, chain, w) => HasTap(tracked', chain', w)
  BY <1>4 DEF Paid, HasTap, Types
<1>5. ASSUME NEW v \in mempool, Mined(v) PROVE HasTap(tracked, chain, w) => HasTap(tracked', chain', w)
  BY <1>5 DEF Mined, HasTap, Types
<1>6. Disconnect \/ Reload \/ UNCHANGED vars => UNCHANGED world
  BY DEF Disconnect, Reload, vars, world
<1> QED
  BY <1>1, <1>2, <1>3, <1>4, <1>5, <1>6 DEF Next

(* A function of the page goes on or returns, and the page keeps its tap.    *)
LEMMA OwnStep ==
  ASSUME Types, OwnTap, NEW t \in Task, NEW s \in TaskState, Goto(t, s),
         \A w \in Wallet : HasTap(tracked, chain, w) => HasTap(tracked', chain', w),
         UNCHANGED <<wallet, pipeState>>, page' = "ready" => page = "ready",
         "connect" \in disabled' <=> "connect" \in disabled,
         task[t].op # "prompt", s.op # "prompt", s = Idle \/ ~ Fresh,
         s.op \in {"query", "answer"} => \A w \in wallet : w = s.addr,
         s.op = "answer" /\ s.tap # {} => HasTap(tracked, chain, s.addr)
  PROVE  OwnTap'
<1>1. \A u \in Task : task'[u] = IF u = t THEN s ELSE task[u]
  BY Goes
<1>2. ConnectedOnce'
  <2>1. CASE s = Idle
    <3>1. Fresh => Fresh'
      BY <1>1, <2>1 DEF Fresh, Idle
    <3>2. \A u \in Task : task'[u].op = "prompt" => task[u].op = "prompt"
      BY <1>1, <2>1 DEF Idle
    <3> QED
      BY <3>1, <3>2 DEF OwnTap, ConnectedOnce
  <2>2. CASE ~ Fresh
    <3>1. "connect" \in disabled /\ \A u \in Task : task[u].op # "prompt"
      BY <2>2 DEF OwnTap, ConnectedOnce
    <3> QED
      BY <1>1, <3>1 DEF ConnectedOnce
  <2> QED
    BY <2>1, <2>2
<1>3. ForWallet'
  BY <1>1 DEF OwnTap, ForWallet
<1>4. TapIsThere'
  <2>1. \A tap \in pipeState' : HasTap(tracked', chain', tap.addr)
    BY DEF OwnTap, TapIsThere, Types
  <2>2. ASSUME NEW u \in Task, task'[u].op = "answer", task'[u].tap # {}
        PROVE  HasTap(tracked', chain', task'[u].addr)
    <3>1. task'[u] \in TaskState /\ HasTap(tracked, chain, task'[u].addr)
      BY <1>1, <2>2 DEF OwnTap, TapIsThere, Types
    <3> QED
      BY <2>2, <3>1, TaskShape
  <2> QED
    BY <2>1, <2>2 DEF OwnTap, TapIsThere
<1> QED
  BY <1>2, <1>3, <1>4 DEF OwnTap

(* The tap a query has found becomes the state of the page. *)
LEMMA FoundOwn ==
  ASSUME Types, OwnTap, NEW t \in Task, Found(t), UNCHANGED world
  PROVE  OwnTap'
<1>1. /\ task[t].op = "answer" /\ task[t].addr \in Wallet /\ task[t].tap # {}
      /\ HasTap(tracked, chain, task[t].addr)
  BY TaskShape DEF Found, Types, OwnTap, TapIsThere
<1>2. PICK s \in {Idle, [op |-> "status"]} : Goto(t, s)
  BY DEF Found
<1>3. s.op \in {"idle", "status"} /\ \A u \in Task : task'[u] = IF u = t THEN s ELSE task[u]
  BY <1>2, TaskStates, Goes DEF Idle
<1>4. wallet' = wallet /\ disabled' = disabled /\ tracked' = tracked /\ chain' = chain
  BY DEF Found, world
<1>5. pipeState' # {} /\ \A tap \in pipeState' : tap.addr = task[t].addr
  <2>1. pipeState' = {[addr |-> task[t].addr, nonce |-> n] : n \in task[t].tap}
    BY DEF Found, Shows
  <2>2. PICK n \in task[t].tap : TRUE
    BY <1>1
  <2>3. [addr |-> task[t].addr, nonce |-> n] \in pipeState'
    BY <2>1, <2>2
  <2>4. ASSUME NEW tap \in pipeState' PROVE tap.addr = task[t].addr
    <3>1. PICK m \in task[t].tap : tap = [addr |-> task[t].addr, nonce |-> m]
      BY <2>1, <2>4
    <3> QED
      BY <3>1
  <2> QED
    BY <2>3, <2>4
<1>6. ConnectedOnce'
  <2>1. ~ Fresh
    BY <1>1 DEF Fresh
  <2>2. "connect" \in disabled /\ \A u \in Task : task[u].op # "prompt"
    BY <2>1 DEF OwnTap, ConnectedOnce
  <2> QED
    BY <1>3, <1>4, <2>2 DEF ConnectedOnce
<1>7. ForWallet'
  BY <1>1, <1>3, <1>4, <1>5 DEF OwnTap, ForWallet
<1>8. TapIsThere'
  BY <1>1, <1>3, <1>4, <1>5 DEF OwnTap, TapIsThere
<1> QED
  BY <1>6, <1>7, <1>8 DEF OwnTap

LEMMA StepOwn ==
  ASSUME Types, Single, OwnTap, NEW t \in Task, Step(t),
         \A w \in Wallet : HasTap(tracked, chain, w) => HasTap(tracked', chain', w)
  PROVE  OwnTap'
<1>0. task[t] \in TaskState /\ wallet \subseteq Wallet
  BY DEF Types
<1>1. task[t].op \notin {"idle", "prompt"} => ~ Fresh
  BY DEF Fresh
<1>2. \A w \in wallet : wallet = {w}
  BY DEF Single, AtMostOne
<1>3. CASE Connect(t)
  <2>1. Fresh /\ \A u \in Task : task[u].op # "prompt"
    BY <1>3 DEF Connect, OwnTap, ConnectedOnce
  <2>2. \A u \in Task : task'[u] = IF u = t THEN [op |-> "prompt"] ELSE task[u]
    BY <1>3, TaskStates, Goes DEF Connect
  <2>3. wallet' = wallet /\ pipeState' = pipeState /\ page' = page /\ "connect" \in disabled'
    BY <1>3 DEF Connect
  <2> QED
    BY <2>1, <2>2, <2>3 DEF OwnTap, ConnectedOnce, ForWallet, TapIsThere, Fresh
<1>4. CASE ConnectFails(t)
  <2>1. Fresh /\ \A u \in Task \ {t} : task[u].op # "prompt"
    BY <1>4 DEF ConnectFails, OwnTap, ConnectedOnce
  <2>2. \A u \in Task : task'[u] = IF u = t THEN Idle ELSE task[u]
    BY <1>4, TaskStates, Goes DEF ConnectFails
  <2>3. wallet' = wallet /\ pipeState' = pipeState /\ page' = page
    BY <1>4 DEF ConnectFails
  <2> QED
    BY <2>1, <2>2, <2>3 DEF OwnTap, ConnectedOnce, ForWallet, TapIsThere, Fresh, Idle
<1>5. ASSUME NEW w \in Wallet, Connected(t, w) PROVE OwnTap'
  <2>1. Fresh /\ "connect" \in disabled /\ \A u \in Task \ {t} : task[u].op # "prompt"
    BY <1>5 DEF Connected, OwnTap, ConnectedOnce
  <2>2. \A u \in Task : task'[u] = IF u = t THEN [op |-> "greet"] ELSE task[u]
    BY <1>5, TaskStates, Goes DEF Connected
  <2>3. disabled' = disabled /\ pipeState' = pipeState /\ page' = page
    BY <1>5 DEF Connected
  <2> QED
    BY <2>1, <2>2, <2>3 DEF OwnTap, ConnectedOnce, ForWallet, TapIsThere, Fresh
<1>6. CASE Greeted(t)
  BY <1>1, <1>6, TaskStates, OwnStep DEF Greeted
<1>7. CASE Checking(t)
  <2>1. ASSUME NEW w \in wallet, Goto(t, [op |-> "query", addr |-> w, for |-> "connect"]), UNCHANGED page
        PROVE  OwnTap'
    BY <1>0, <1>1, <1>2, <1>7, <2>1, TaskStates, OwnStep DEF Checking
  <2>2. CASE Goto(t, Idle) /\ page' = "no-tap"
    BY <1>7, <2>2, TaskStates, OwnStep DEF Checking, Idle
  <2> QED
    BY <1>7, <2>1, <2>2 DEF Checking
<1>8. CASE Resolved(t)
  <2>1. task[t].addr \in Wallet /\ task[t].for \in {"connect", "check", "status"}
    BY <1>0, <1>8, TaskShape DEF Resolved
  <2>2. PICK tap \in resolveTapState(task[t].addr) :
          Goto(t, [op |-> "answer", addr |-> task[t].addr, for |-> task[t].for, tap |-> tap])
    BY <1>8 DEF Resolved
  <2>3. tap \in {tracked[task[t].addr], chain[task[t].addr], {}}
    BY <2>2 DEF resolveTapState
  <2>4. tap \in Tap /\ (tap # {} => HasTap(tracked, chain, task[t].addr))
    BY <2>1, <2>3, OpenNonceType DEF Types, HasTap
  <2>5. [op |-> "answer", addr |-> task[t].addr, for |-> task[t].for, tap |-> tap] \in TaskState
    BY <2>1, <2>4, TaskStates
  <2>6. \A w \in wallet : w = task[t].addr
    BY <1>8 DEF Resolved, OwnTap, ForWallet
  <2> QED
    BY <1>1, <1>8, <2>2, <2>4, <2>5, <2>6, OwnStep DEF Resolved
<1>9. CASE Found(t)
  BY <1>9, FoundOwn DEF Found
<1>10. CASE NotFound(t)
  BY <1>10, TaskStates, OwnStep DEF NotFound, Idle
<1>11. CASE Load(t)
  <2>1. ~ Fresh
    BY <1>11 DEF Load, Fresh, OwnTap, TapIsThere
  <2> QED
    BY <1>11, <2>1, TaskStates, OwnStep DEF Load, Idle
<1>12. CASE loadStatus(t)
  <2>1. CASE Goto(t, Idle)
    BY <1>12, <2>1, TaskStates, OwnStep DEF loadStatus, Idle
  <2>2. ASSUME NEW w \in wallet, Goto(t, [op |-> "query", addr |-> w, for |-> "status"])
        PROVE  OwnTap'
    BY <1>0, <1>1, <1>2, <1>12, <2>2, TaskStates, OwnStep DEF loadStatus
  <2> QED
    BY <1>12, <2>1, <2>2 DEF loadStatus
<1>13. CASE Check(t)
  <2>1. PICK w \in wallet : Goto(t, [op |-> "query", addr |-> w, for |-> "check"])
    BY <1>13 DEF Check
  <2>2. ~ Fresh /\ task[t].op = "idle" /\ page' = page /\ UNCHANGED <<wallet, pipeState>>
        /\ ("connect" \in disabled' <=> "connect" \in disabled)
    BY <1>13, <2>1 DEF Check, Fresh, Idle
  <2> QED
    BY <1>0, <1>2, <2>1, <2>2, TaskStates, OwnStep
<1>14. CASE Open(t)
  <2>1. PICK w \in wallet : Goto(t, [op |-> "sign", signer |-> w])
    BY <1>14 DEF Open
  <2>2. ~ Fresh /\ task[t].op = "idle" /\ page' = page /\ UNCHANGED <<wallet, pipeState>>
        /\ ("connect" \in disabled' <=> "connect" \in disabled)
    BY <1>14, <2>1 DEF Open, Fresh, Idle
  <2> QED
    BY <1>0, <2>1, <2>2, TaskStates, OwnStep
<1>15. CASE Signed(t)
  <2>1. PICK w \in wallet : Goto(t, [op |-> "post", signer |-> task[t].signer, borrower |-> w])
    BY <1>15 DEF Signed
  <2>2. task[t].signer \in Wallet
    BY <1>0, <1>15, TaskShape DEF Signed
  <2> QED
    BY <1>0, <1>1, <1>15, <2>1, <2>2, TaskStates, OwnStep DEF Signed
<1>16. CASE OpeningSigned(t)
  BY <1>0, <1>1, <1>16, TaskShape, TaskStates, OwnStep DEF OpeningSigned
<1>17. CASE Prepared(t)
  BY <1>0, <1>1, <1>17, TaskShape, TaskStates, OwnStep DEF Prepared
<1>18. CASE Approved(t)
  BY <1>18, TaskStates, OwnStep DEF Approved, Idle
<1>19. CASE OpenFails(t)
  BY <1>19, TaskStates, OwnStep DEF OpenFails, Idle
<1> QED
  BY <1>3, <1>4, <1>5, <1>6, <1>7, <1>8, <1>9, <1>10, <1>11, <1>12, <1>13, <1>14, <1>15, <1>16, <1>17,
     <1>18, <1>19 DEF Step

LEMMA NextOwn == Types /\ Single /\ OwnTap /\ [Next]_vars => OwnTap'
<1> SUFFICES ASSUME Types, Single, OwnTap, [Next]_vars PROVE OwnTap'
  OBVIOUS
<1>0. \A w \in Wallet : HasTap(tracked, chain, w) => HasTap(tracked', chain', w)
  BY TapsStay
<1>1. ASSUME NEW t \in Task, Step(t) PROVE OwnTap'
  BY <1>0, <1>1, StepOwn
<1>2. CASE Disconnect
  <2>1. /\ wallet' = {} /\ pipeState' = {} /\ page' = "no-wallet"
        /\ UNCHANGED <<disabled, task, tracked, chain>>
    BY <1>2 DEF Disconnect, world
  <2>2. Fresh => Fresh'
    BY <2>1 DEF Fresh
  <2> QED
    BY <2>1, <2>2 DEF OwnTap, ConnectedOnce, ForWallet, TapIsThere
<1>3. CASE Reload
  <2>1. /\ wallet' = {} /\ pipeState' = {} /\ page' = "no-wallet"
        /\ \A t \in Task : task'[t] = Idle
    BY <1>3 DEF Reload
  <2> QED
    BY <2>1 DEF OwnTap, ConnectedOnce, ForWallet, TapIsThere, Fresh, Idle
<1>4. ASSUME UNCHANGED browser PROVE OwnTap'
  <2>1. UNCHANGED <<wallet, page, pipeState, disabled, task>>
    BY <1>4 DEF browser
  <2>2. ConnectedOnce' /\ ForWallet'
    BY <2>1 DEF OwnTap, ConnectedOnce, ForWallet, Fresh
  <2>3. \A tap \in pipeState : tap.addr \in Wallet
    BY DEF Types
  <2>4. \A t \in Task : task[t].op = "answer" => task[t].addr \in Wallet
    BY TaskShape DEF Types
  <2>5. TapIsThere'
    BY <1>0, <2>1, <2>3, <2>4 DEF OwnTap, TapIsThere
  <2> QED
    BY <2>2, <2>5 DEF OwnTap
<1>5. (\E w \in Wallet : Paid(w)) \/ (\E w \in mempool : Mined(w)) \/ UNCHANGED vars => UNCHANGED browser
  BY DEF Paid, Mined, vars, browser
<1> QED
  BY <1>1, <1>2, <1>3, <1>4, <1>5 DEF Next

LEMMA InitOwn == Init => OwnTap
BY DEF Init, OwnTap, ConnectedOnce, ForWallet, TapIsThere, Fresh, Idle

LEMMA OwnIsShown == OwnTap => ReadyShowsOwnTap
<1> SUFFICES ASSUME OwnTap, page = "ready", NEW w \in wallet
             PROVE  (\E tap \in pipeState : tap.addr = w) /\ tracked[w] \cup chain[w] # {}
  BY DEF ReadyShowsOwnTap
<1>1. PICK tap \in pipeState : TRUE
  BY DEF OwnTap, TapIsThere
<1>2. tap.addr = w /\ tracked[tap.addr] \cup chain[tap.addr] # {}
  BY DEF OwnTap, ForWallet, TapIsThere, HasTap
<1> QED
  BY <1>2

(* Openings that fail, answers that are lost or come after the wallet was    *)
(* disconnected, pages that are loaded again: a connected wallet is never    *)
(* shown the panel for a tap of another wallet, nor for one that is neither  *)
(* tracked nor on the chain.                                                 *)
THEOREM PanelIsOwnTap == Spec => []ReadyShowsOwnTap
<1>1. Init => Types /\ Single /\ OwnTap
  BY InitType, InitOwn
<1>2. Types /\ Single /\ OwnTap /\ [Next]_vars => Types' /\ Single' /\ OwnTap'
  BY NextType, NextOwn
<1> QED
  BY <1>1, <1>2, OwnIsShown, PTL DEF Spec
=============================================================================
