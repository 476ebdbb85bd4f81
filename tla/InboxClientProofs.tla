-------------------------- MODULE InboxClientProofs -------------------------
(***************************************************************************)
(* Proofs about InboxClient, for any messages, any number of overlapping   *)
(* polls or clicks and any limits of the list.                             *)
(***************************************************************************)
EXTENDS InboxClient, Integers, TLAPS, FiniteSetTheorems, WellFoundedInduction

-----------------------------------------------------------------------------
(* The newest entry of a list: a bounded set of numbers has a greatest one. *)

LEMMA LeastNat ==
  ASSUME NEW T \in SUBSET Nat, T # {}
  PROVE  \E x \in T : \A y \in T : x <= y
<1>1. PICK x \in T : \A y \in T : ~ (<<y, x>> \in OpToRel(<, Nat))
  BY NatLessThanWellFounded, WFMin, Zenon
<1>2. \A y \in T : ~ (y < x)
  BY <1>1 DEF OpToRel
<1> QED
  BY <1>2

SentBounded == \A m \in Message : sentAt[m] \in 0..Cardinality(Message)

LEMMA MessageCount == Cardinality(Message) \in Nat
BY ClientAssumption, FS_CardinalityType

LEMMA FirstIsLeft ==
  ASSUME TypeOK, SentBounded, NEW rest \in SUBSET Entry, rest # {}
  PROVE  First(rest) \in rest
<1> DEFINE Bounds == {b \in Nat : \A f \in rest : sentAt[f.msg] <= b}
<1>1. \A f \in rest : sentAt[f.msg] \in 0..Cardinality(Message) /\ sentAt[f.msg] \in Nat
  BY MessageCount DEF Entry, SentBounded
<1>2. Cardinality(Message) \in Bounds
  BY <1>1, MessageCount
<1>3. PICK b \in Bounds : \A c \in Bounds : b <= c
  BY <1>2, LeastNat
<1>4. \E e \in rest : sentAt[e.msg] = b
  <2> SUFFICES ASSUME \A e \in rest : sentAt[e.msg] # b PROVE FALSE
    OBVIOUS
  <2>1. \A e \in rest : sentAt[e.msg] <= b - 1
    BY <1>1, <1>3
  <2>2. b - 1 \in Nat
    BY <1>1, <1>3, <2>1
  <2>3. b - 1 \in Bounds
    BY <2>1, <2>2
  <2> QED
    BY <1>3, <2>2, <2>3
<1>5. \E e \in rest : \A f \in rest : sentAt[f.msg] <= sentAt[e.msg]
  BY <1>3, <1>4
<1> QED
  BY <1>5 DEF First

-----------------------------------------------------------------------------
(***************************************************************************)
(* Type correctness.  That nothing unreadable is read needs more than the  *)
(* types: a task claims only what it could read in the preview, so only    *)
(* such messages are settled, and only such are listed as claimed.         *)
(***************************************************************************)
GoodTask(s) ==
  /\ s \in TaskState
  /\ s.op = "next" => s.rest # {}
  /\ s.op \in {"claim", "reply"} => s.msg \notin Unreadable
  /\ s.op # "idle" => \A e \in s.rest : e.claimed => e.msg \notin Unreadable

TasksReadable == \A t \in Task : GoodTask(task[t])

SettledReadable ==
  /\ late \cap Unreadable = {}
  /\ \A m \in Message : status[m] = "settled" => m \notin Unreadable

Readable == SentBounded /\ TasksReadable /\ SettledReadable

LEMMA TaskShape ==
  ASSUME NEW s \in TaskState
  PROVE  /\ s.op \in {"idle", "next", "claim", "reply"}
         /\ s.op # "idle" => s.rest \in SUBSET Entry
         /\ s.op \in {"claim", "reply"} => s.msg \in Message
         /\ s.op = "reply" => s.ok \in BOOLEAN
BY DEF TaskState, Idle

LEMMA GoodTasks ==
  /\ GoodTask(Idle)
  /\ \A rest \in SUBSET Entry :
       (\A e \in rest : e.claimed => e.msg \notin Unreadable) =>
         /\ GoodTask(IF rest = {} THEN Idle ELSE [op |-> "next", rest |-> rest])
         /\ \A m \in Message \ Unreadable :
              /\ GoodTask([op |-> "claim", msg |-> m, rest |-> rest])
              /\ \A ok \in BOOLEAN : GoodTask([op |-> "reply", msg |-> m, rest |-> rest, ok |-> ok])
BY DEF GoodTask, TaskState, Idle

LEMMA Goes ==
  ASSUME TypeOK, TasksReadable, NEW t \in Task, NEW s, GoodTask(s), Goto(t, s)
  PROVE  /\ task' \in [Task -> TaskState] /\ TasksReadable'
         /\ task'[t] = s /\ \A v \in Task \ {t} : task'[v] = task[v]
BY DEF TypeOK, TasksReadable, GoodTask, Goto

LEMMA Proceeds ==
  ASSUME TypeOK, TasksReadable, NEW t \in Task, NEW rest \in SUBSET Entry, Proceed(t, rest),
         \A e \in rest : e.claimed => e.msg \notin Unreadable
  PROVE  /\ task' \in [Task -> TaskState] /\ TasksReadable'
         /\ task'[t].op \in {"idle", "next"} /\ \A v \in Task \ {t} : task'[v] = task[v]
<1>1. GoodTask(IF rest = {} THEN Idle ELSE [op |-> "next", rest |-> rest])
  BY GoodTasks
<1> QED
  BY <1>1, Goes DEF Proceed, Idle

LEMMA ListType ==
  ASSUME TypeOK, SettledReadable, NEW includeClaimed \in BOOLEAN
  PROVE  /\ getInbox(includeClaimed) \in SUBSET Entry
         /\ \A e \in getInbox(includeClaimed) : e.claimed => e.msg \notin Unreadable
<1>1. ASSUME NEW e \in getInbox(includeClaimed)
      PROVE  e \in Entry /\ (e.claimed => e.msg \notin Unreadable)
  <2>1. PICK m \in Message : e = [msg |-> m, claimed |-> status[m] = "settled"]
    BY DEF getInbox, Listed
  <2> QED
    BY <2>1 DEF Entry, SettledReadable
<1> QED
  BY <1>1

(* What a task with entries left has at hand. *)
LEMMA CurrentType ==
  ASSUME TypeOK, Readable, NEW t \in Task, task[t].op = "next"
  PROVE  /\ Current(t) \in task[t].rest /\ Current(t) \in Entry
         /\ Others(task[t].rest) \in SUBSET Entry
         /\ \A e \in task[t].rest : e.claimed => e.msg \notin Unreadable
         /\ \A e \in Others(task[t].rest) : e.claimed => e.msg \notin Unreadable
<1>1. /\ task[t].rest \in SUBSET Entry /\ task[t].rest # {}
      /\ \A e \in task[t].rest : e.claimed => e.msg \notin Unreadable
  BY TaskShape DEF TypeOK, Readable, TasksReadable, GoodTask
<1>2. Current(t) \in task[t].rest
  BY <1>1, FirstIsLeft DEF Readable, Current
<1> QED
  BY <1>1, <1>2 DEF Others

LEMMA ClaimType ==
  ASSUME TypeOK, Readable, NEW t \in Task, task[t].op \in {"claim", "reply"}
  PROVE  /\ task[t].msg \in Message \ Unreadable /\ task[t].rest \in SUBSET Entry
         /\ \A e \in task[t].rest : e.claimed => e.msg \notin Unreadable
         /\ task[t].op = "reply" => task[t].ok \in BOOLEAN
BY TaskShape DEF TypeOK, Readable, TasksReadable, GoodTask

LEMMA SettleType ==
  ASSUME TypeOK, SettledReadable, NEW m \in Message \ Unreadable, Settle(m)
  PROVE  /\ status' \in [Message -> Status]
         /\ \A n \in Message : status'[n] = "settled" => n \notin Unreadable
BY DEF TypeOK, SettledReadable, Settle, Status

LEMMA PreviewType ==
  ASSUME TypeOK, SettledReadable, NEW m \in Message, MarkPreviewed(m)
  PROVE  /\ status' \in [Message -> Status]
         /\ \A n \in Message : status'[n] = "settled" => status[n] = "settled" /\ n \notin Unreadable
BY DEF TypeOK, SettledReadable, MarkPreviewed, Status

LEMMA InitType == Init => TypeOK /\ Readable
<1> SUFFICES ASSUME Init PROVE TypeOK /\ Readable
  OBVIOUS
<1>1. Idle \in TaskState /\ GoodTask(Idle)
  BY GoodTasks DEF GoodTask
<1>2. TypeOK
  BY <1>1 DEF Init, TypeOK, Status
<1>3. SentBounded
  BY MessageCount DEF Init, SentBounded
<1> QED
  BY <1>1, <1>2, <1>3 DEF Init, Readable, TasksReadable, SettledReadable

LEMMA NextType == TypeOK /\ Readable /\ [Next]_vars => TypeOK' /\ Readable'
<1> SUFFICES ASSUME TypeOK, Readable, [Next]_vars PROVE TypeOK' /\ Readable'
  OBVIOUS
<1>0. SentBounded /\ TasksReadable /\ SettledReadable
  BY DEF Readable
<1>1. ASSUME NEW m \in Message, Arrive(m) PROVE TypeOK' /\ Readable'
  <2> DEFINE sent == {n \in Message : status[n] # "none"}
  <2>1. Cardinality(sent) \in 0..Cardinality(Message)
    <3>1. IsFiniteSet(sent) /\ Cardinality(sent) <= Cardinality(Message)
      BY ClientAssumption, FS_Subset
    <3>2. Cardinality(sent) \in Nat
      BY <3>1, FS_CardinalityType
    <3> QED
      BY <3>1, <3>2, MessageCount
  <2>2. sentAt' = [sentAt EXCEPT ![m] = Cardinality(sent)] /\ Cardinality(sent) \in Nat
    BY <1>1, <2>1, MessageCount DEF Arrive
  <2> HIDE DEF sent
  <2>3. sentAt' \in [Message -> Nat] /\ SentBounded'
    BY <1>0, <2>1, <2>2 DEF TypeOK, SentBounded
  <2>4. status' \in [Message -> Status] /\ \A n \in Message : status'[n] = "settled" => status[n] = "settled"
    BY <1>1 DEF Arrive, TypeOK, Status
  <2> QED
    BY <1>0, <1>1, <2>3, <2>4 DEF Arrive, TypeOK, Readable, TasksReadable, SettledReadable
<1>2. ASSUME NEW m \in Message, Cancel(m) PROVE TypeOK' /\ Readable'
  <2>1. status' \in [Message -> Status] /\ \A n \in Message : status'[n] = "settled" => status[n] = "settled"
    BY <1>2 DEF Cancel, TypeOK, Status
  <2> QED
    BY <1>0, <1>2, <2>1 DEF Cancel, TypeOK, Readable, TasksReadable, SettledReadable, SentBounded
<1>3. ASSUME NEW t \in Task, LoadInbox(t) PROVE TypeOK' /\ Readable'
  <2>1. PICK rest \in SUBSET Entry :
          Proceed(t, rest) /\ \A e \in rest : e.claimed => e.msg \notin Unreadable
    <3>1. CASE client = "web"
      <4>1. PICK includeClaimed \in BOOLEAN : \E e \in getInbox(includeClaimed) : Proceed(t, {e})
        BY <1>3, <3>1 DEF LoadInbox
      <4>2. PICK e \in getInbox(includeClaimed) : Proceed(t, {e})
        BY <4>1
      <4>3. {e} \in SUBSET Entry /\ \A f \in {e} : f.claimed => f.msg \notin Unreadable
        BY <1>0, ListType
      <4> QED
        BY <4>2, <4>3
    <3>2. CASE client # "web"
      BY <1>0, <1>3, <3>2, ListType DEF LoadInbox
    <3> QED
      BY <3>1, <3>2
  <2>2. task' \in [Task -> TaskState] /\ TasksReadable'
    BY <1>0, <2>1, Proceeds
  <2> QED
    BY <1>0, <1>3, <2>2 DEF LoadInbox, TypeOK, Readable, SettledReadable, SentBounded
<1>4. ASSUME NEW t \in Task, Previewed(t) PROVE TypeOK' /\ Readable'
  <2>1. Current(t) \in Entry /\ Others(task[t].rest) \in SUBSET Entry
        /\ \A e \in Others(task[t].rest) : e.claimed => e.msg \notin Unreadable
    BY <1>4, CurrentType DEF Previewed
  <2>2. Current(t).msg \in Message \ Unreadable
    BY <1>4, <2>1 DEF Previewed, Entry
  <2>3. task' \in [Task -> TaskState] /\ TasksReadable'
    BY <1>0, <1>4, <2>1, <2>2, GoodTasks, Goes DEF Previewed
  <2>4. /\ status' \in [Message -> Status]
        /\ \A n \in Message : status'[n] = "settled" => n \notin Unreadable
    BY <1>0, <1>4, <2>2, PreviewType DEF Previewed
  <2> QED
    BY <1>0, <1>4, <2>3, <2>4 DEF Previewed, TypeOK, Readable, SettledReadable, SentBounded
<1>5. ASSUME NEW t \in Task, PreviewFails(t) PROVE TypeOK' /\ Readable'
  <2>1. Current(t) \in Entry /\ Others(task[t].rest) \in SUBSET Entry
        /\ \A e \in Others(task[t].rest) : e.claimed => e.msg \notin Unreadable
    BY <1>5, CurrentType DEF PreviewFails
  <2>2. task' \in [Task -> TaskState] /\ TasksReadable'
    BY <1>0, <1>5, <2>1, Proceeds DEF PreviewFails
  <2>3. /\ status' \in [Message -> Status]
        /\ \A n \in Message : status'[n] = "settled" => n \notin Unreadable
    <3>1. CASE MarkPreviewed(Current(t).msg)
      BY <1>0, <2>1, <3>1, PreviewType DEF Entry
    <3>2. CASE UNCHANGED status
      BY <1>0, <3>2 DEF TypeOK, SettledReadable
    <3> QED
      BY <1>5, <3>1, <3>2 DEF PreviewFails
  <2> QED
    BY <1>0, <1>5, <2>2, <2>3 DEF PreviewFails, TypeOK, Readable, SettledReadable, SentBounded
<1>6. ASSUME NEW t \in Task, Claim(t) PROVE TypeOK' /\ Readable'
  <2>1. /\ task[t].msg \in Message \ Unreadable /\ task[t].rest \in SUBSET Entry
        /\ \A e \in task[t].rest : e.claimed => e.msg \notin Unreadable
    BY <1>6, ClaimType DEF Claim
  <2>2. Claimable(task[t].msg) \in BOOLEAN
    BY DEF Claimable
  <2>3. task' \in [Task -> TaskState] /\ TasksReadable'
    BY <1>0, <1>6, <2>1, <2>2, GoodTasks, Goes DEF Claim
  <2>4. /\ status' \in [Message -> Status]
        /\ \A n \in Message : status'[n] = "settled" => n \notin Unreadable
    BY <1>0, <1>6, <2>1, SettleType DEF Claim
  <2> QED
    BY <1>0, <1>6, <2>3, <2>4 DEF Claim, TypeOK, Readable, SettledReadable, SentBounded
<1>7. ASSUME NEW t \in Task, Claimed(t) PROVE TypeOK' /\ Readable'
  <2>1. /\ task[t].msg \in Message \ Unreadable /\ task[t].rest \in SUBSET Entry
        /\ \A e \in task[t].rest : e.claimed => e.msg \notin Unreadable
    BY <1>7, ClaimType DEF Claimed
  <2>2. task' \in [Task -> TaskState] /\ TasksReadable'
    BY <1>0, <1>7, <2>1, Proceeds DEF Claimed
  <2>3. returned' \in [Message -> Nat]
    BY <1>7, <2>1 DEF Claimed, TypeOK
  <2>4. saved' \subseteq read' /\ read' \subseteq Message \ Unreadable
    BY <1>7, <2>1 DEF Claimed, TypeOK
  <2> QED
    BY <1>0, <1>7, <2>2, <2>3, <2>4 DEF Claimed, TypeOK, Readable, SettledReadable, SentBounded
<1>8. ASSUME NEW t \in Task, ClaimTimesOut(t) PROVE TypeOK' /\ Readable'
  <2>1. /\ task[t].msg \in Message \ Unreadable /\ task[t].rest \in SUBSET Entry
        /\ \A e \in task[t].rest : e.claimed => e.msg \notin Unreadable
    BY <1>8, ClaimType DEF ClaimTimesOut
  <2>2. task' \in [Task -> TaskState] /\ TasksReadable'
    BY <1>0, <1>8, <2>1, Proceeds DEF ClaimTimesOut
  <2>3. late' \subseteq Message /\ late' \cap Unreadable = {}
    BY <1>0, <1>8, <2>1 DEF ClaimTimesOut, TypeOK, SettledReadable
  <2> QED
    BY <1>0, <1>8, <2>2, <2>3 DEF ClaimTimesOut, TypeOK, Readable, SettledReadable, SentBounded
<1>9. ASSUME NEW t \in Task, Opened(t) \/ OpenFails(t) PROVE TypeOK' /\ Readable'
  <2>1. /\ Current(t) \in task[t].rest /\ Current(t) \in Entry
        /\ Others(task[t].rest) \in SUBSET Entry
        /\ \A e \in task[t].rest : e.claimed => e.msg \notin Unreadable
        /\ \A e \in Others(task[t].rest) : e.claimed => e.msg \notin Unreadable
    BY <1>9, CurrentType DEF Opened, OpenFails
  <2>2. task' \in [Task -> TaskState] /\ TasksReadable'
    BY <1>0, <1>9, <2>1, Proceeds DEF Opened, OpenFails
  <2>3. saved' \subseteq read' /\ read' \subseteq Message \ Unreadable
    BY <1>9, <2>1 DEF Opened, OpenFails, TypeOK, Entry
  <2> QED
    BY <1>0, <1>9, <2>2, <2>3 DEF Opened, OpenFails, TypeOK, Readable, SettledReadable, SentBounded
<1>10. ASSUME NEW m \in late, LateArrives(m) PROVE TypeOK' /\ Readable'
  <2>1. m \in Message \ Unreadable
    BY <1>0 DEF TypeOK, SettledReadable
  <2>2. /\ status' \in [Message -> Status]
        /\ \A n \in Message : status'[n] = "settled" => n \notin Unreadable
    BY <1>0, <1>10, <2>1, SettleType DEF LateArrives
  <2> QED
    BY <1>0, <1>10, <2>2 DEF LateArrives, TypeOK, Readable, TasksReadable, SettledReadable, SentBounded
<1>11. CASE UNCHANGED vars
  BY <1>0, <1>11 DEF vars, TypeOK, Readable, TasksReadable, SettledReadable, SentBounded
<1> QED
  BY <1>1, <1>2, <1>3, <1>4, <1>5, <1>6, <1>7, <1>8, <1>9, <1>10, <1>11 DEF Next, Step

(* Whatever overlaps, is lost or comes late: what the client has read it     *)
(* could read, and it saves a claim proof only for what it has read.         *)
THEOREM TypeCorrect == Spec => []TypeOK
BY InitType, NextType, PTL DEF Spec

-----------------------------------------------------------------------------
(***************************************************************************)
(* A message is settled once, and the one claim that settled it has the    *)
(* only good reply.  So while that reply is on its way nothing has been    *)
(* returned, and afterwards no good reply is.                              *)
(***************************************************************************)
GoodReply(t, m) == task[t].op = "reply" /\ task[t].ok /\ task[t].msg = m

OneGoodReply ==
  \A m \in Message :
    /\ returned[m] <= 1
    /\ status[m] # "settled" => returned[m] = 0
    /\ \A t \in Task : GoodReply(t, m) => status[m] = "settled" /\ returned[m] = 0
    /\ \A t, v \in Task : GoodReply(t, m) /\ GoodReply(v, m) => t = v

(* Steps that return nothing, settle for good and add no good reply. *)
LEMMA NoNewReply ==
  ASSUME OneGoodReply, returned' = returned,
         \A m \in Message : status[m] = "settled" => status'[m] = "settled",
         \A t \in Task : task'[t] = task[t] \/ task'[t].op # "reply"
  PROVE  OneGoodReply'
<1>1. \A t \in Task, m \in Message : GoodReply(t, m)' => GoodReply(t, m)
  BY DEF GoodReply
<1> QED
  BY <1>1 DEF OneGoodReply

LEMMA NextReply == TypeOK /\ Readable /\ OneGoodReply /\ [Next]_vars => OneGoodReply'
<1> SUFFICES ASSUME TypeOK, Readable, OneGoodReply, [Next]_vars PROVE OneGoodReply'
  OBVIOUS
<1>0. TasksReadable /\ SettledReadable
  BY DEF Readable
<1>1. ASSUME NEW m \in Message, Arrive(m) \/ Cancel(m) PROVE OneGoodReply'
  <2>1. \A n \in Message : status[n] = "settled" => status'[n] = "settled"
    BY <1>1 DEF Arrive, Cancel, TypeOK
  <2> QED
    BY <1>1, <2>1, NoNewReply DEF Arrive, Cancel
<1>2. ASSUME NEW t \in Task, LoadInbox(t) PROVE OneGoodReply'
  <2>1. \A v \in Task : task'[v] = task[v] \/ task'[v].op # "reply"
    <3>1. \E rest : Proceed(t, rest)
      BY <1>2 DEF LoadInbox
    <3> QED
      BY <3>1 DEF Proceed, Goto, Idle, TypeOK
  <2> QED
    BY <1>2, <2>1, NoNewReply DEF LoadInbox
<1>3. ASSUME NEW t \in Task, Previewed(t) \/ PreviewFails(t) PROVE OneGoodReply'
  <2>1. \A n \in Message : status[n] = "settled" => status'[n] = "settled"
    BY <1>3 DEF Previewed, PreviewFails, MarkPreviewed, TypeOK
  <2>2. \A v \in Task : task'[v] = task[v] \/ task'[v].op # "reply"
    BY <1>3 DEF Previewed, PreviewFails, Proceed, Goto, Idle, TypeOK
  <2> QED
    BY <1>3, <2>1, <2>2, NoNewReply DEF Previewed, PreviewFails
<1>4. ASSUME NEW t \in Task, Claim(t) PROVE OneGoodReply'
  <2>1. task[t].msg \in Message
    BY <1>4, ClaimType DEF Claim
  <2>2. /\ task'[t] = [op |-> "reply", msg |-> task[t].msg, rest |-> task[t].rest,
                       ok |-> Claimable(task[t].msg)]
        /\ \A v \in Task \ {t} : task'[v] = task[v]
    BY <1>4 DEF Claim, Goto, TypeOK
  <2>3. \A n \in Message : status[n] = "settled" => status'[n] = "settled"
    BY <1>4 DEF Claim, Settle, TypeOK
  <2>4. returned' = returned
    BY <1>4 DEF Claim
  <2>5. CASE Claimable(task[t].msg)
    <3>1. status'[task[t].msg] = "settled" /\ status[task[t].msg] # "settled"
      BY <1>4, <2>1, <2>5 DEF Claim, Settle, Claimable, TypeOK
    <3>2. ASSUME NEW m \in Message, m # task[t].msg, NEW v \in Task
          PROVE  GoodReply(v, m)' => GoodReply(v, m)
      BY <2>2, <3>2 DEF GoodReply
    <3>3. ASSUME NEW v \in Task PROVE GoodReply(v, task[t].msg) => FALSE
      BY <2>1, <3>1 DEF OneGoodReply
    <3>4. ASSUME NEW v \in Task, v # t, task'[v].op = "reply", task'[v].ok, task'[v].msg = task[t].msg
          PROVE  FALSE
      BY <2>2, <3>3, <3>4 DEF GoodReply
    <3> QED
      BY <2>1, <2>2, <2>3, <2>4, <3>1, <3>2, <3>4 DEF OneGoodReply, GoodReply
  <2>6. CASE ~ Claimable(task[t].msg)
    <3>1. \A v \in Task, m \in Message : GoodReply(v, m)' => GoodReply(v, m)
      BY <2>2, <2>6 DEF GoodReply
    <3> QED
      BY <2>3, <2>4, <3>1 DEF OneGoodReply
  <2> QED
    BY <2>5, <2>6
<1>5. ASSUME NEW t \in Task, Claimed(t) PROVE OneGoodReply'
  <2>1. task[t].msg \in Message /\ task[t].rest \in SUBSET Entry /\ task[t].ok \in BOOLEAN
        /\ \A e \in task[t].rest : e.claimed => e.msg \notin Unreadable
    BY <1>5, ClaimType DEF Claimed
  <2>2. task'[t].op \in {"idle", "next"} /\ \A v \in Task \ {t} : task'[v] = task[v]
    BY <1>0, <1>5, <2>1, Proceeds DEF Claimed
  <2>3. \A v \in Task, m \in Message : GoodReply(v, m)' => v # t /\ GoodReply(v, m)
    BY <2>2 DEF GoodReply
  <2>4. CASE task[t].ok
    <3>0. PICK m \in Message : m = task[t].msg
      BY <2>1
    <3>1. GoodReply(t, m)
      BY <1>5, <2>4, <3>0 DEF Claimed, GoodReply
    <3>2. returned' = [returned EXCEPT ![m] = @ + 1] /\ status' = status
      BY <1>5, <2>4, <3>0 DEF Claimed
    <3>3. returned[m] = 0 /\ status[m] = "settled"
      BY <3>1 DEF OneGoodReply
    <3>4. \A v \in Task : ~ GoodReply(v, m)'
      BY <2>3, <3>1 DEF OneGoodReply
    <3>5. returned'[m] = 1 /\ \A n \in Message \ {m} : returned'[n] = returned[n]
      BY <3>2, <3>3 DEF TypeOK
    <3> QED
      BY <2>3, <3>2, <3>3, <3>4, <3>5 DEF OneGoodReply
  <2>5. CASE ~ task[t].ok
    BY <1>5, <2>2, <2>5, NoNewReply DEF Claimed
  <2> QED
    BY <2>4, <2>5
<1>6. ASSUME NEW t \in Task, ClaimTimesOut(t) \/ Opened(t) \/ OpenFails(t) PROVE OneGoodReply'
  <2>1. \A v \in Task : task'[v] = task[v] \/ task'[v].op # "reply"
    BY <1>6 DEF ClaimTimesOut, Opened, OpenFails, Proceed, Goto, Idle, TypeOK
  <2> QED
    BY <1>6, <2>1, NoNewReply DEF ClaimTimesOut, Opened, OpenFails
<1>7. ASSUME NEW m \in late, LateArrives(m) PROVE OneGoodReply'
  <2>1. \A n \in Message : status[n] = "settled" => status'[n] = "settled"
    BY <1>7 DEF LateArrives, Settle, TypeOK
  <2> QED
    BY <1>7, <2>1, NoNewReply DEF LateArrives
<1>8. CASE UNCHANGED vars
  BY <1>8, NoNewReply DEF vars
<1> QED
  BY <1>1, <1>2, <1>3, <1>4, <1>5, <1>6, <1>7, <1>8 DEF Next, Step

(* However many polls overlap and claims come late, a claim returns a        *)
(* message to the client only once.                                          *)
THEOREM MailIsReturnedOnce == Spec => []ReturnedOnce
<1>1. Init => OneGoodReply
  BY DEF Init, OneGoodReply, GoodReply, Idle
<1>2. OneGoodReply => ReturnedOnce
  BY DEF OneGoodReply, ReturnedOnce
<1> QED
  BY <1>1, <1>2, InitType, NextType, NextReply, PTL DEF Spec
=============================================================================
