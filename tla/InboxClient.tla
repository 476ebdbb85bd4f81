----------------------------- MODULE InboxClient ----------------------------
(***************************************************************************)
(* The recipient's end of a message: how the agent library (packages/      *)
(* client/src/client.ts), the SDK (scripts/mailslot-client.ts) and the     *)
(* browser (packages/web/src/main.ts) list, preview, claim and open what   *)
(* is in an inbox, over a network that loses replies and delivers requests *)
(* after the client has given up.                                          *)
(*                                                                         *)
(* Each request is one step of the server (module Mailbox has its          *)
(* handlers); deferred messages are not in any list and are left out.  A   *)
(* task of the agent is one call of poll, of the SDK one of                *)
(* readNewMessages, of the browser one look at the list and one click.     *)
(***************************************************************************)
EXTENDS Naturals, FiniteSets

CONSTANTS
  Client,      \* the kinds of client there are: "agent", "sdk" and "web"
  Message,     \* messages to this recipient, by id
  Unreadable,  \* those that cannot be claimed: decryption or a check fails
  Task,        \* polls or clicks that can be in progress at the same time
  Limit        \* a function: the limit of each kind's requests for the inbox

ASSUME ClientAssumption ==
  /\ Client \subseteq {"agent", "sdk", "web"}
  /\ Unreadable \subseteq Message
  /\ IsFiniteSet(Message)
  /\ Limit \in [Client -> Nat \ {0}]

VARIABLES
  client,    \* which of them this one is
  status,    \* the server's delivery state of each message
  sentAt,    \* the order in which messages were stored
  task,      \* what each task is doing, and the entries it has left
  late,      \* claims that are on their way after the client gave up
  returned,  \* history: how often a claim has returned a message
  read,      \* the messages whose content the client has
  saved      \* the claim proofs given to saveClaimProof

vars == <<client, status, sentAt, task, late, returned, read, saved>>

Status == {"none", "ready", "previewed", "settled", "cancelled"}

(* InboxEntry: a message, and whether the list called it claimed. *)
Entry == [msg : Message, claimed : BOOLEAN]

Idle == [op |-> "idle"]

TaskState ==
       {Idle}
  \cup [op : {"next"}, rest : SUBSET Entry]
  \cup [op : {"claim"}, msg : Message, rest : SUBSET Entry]
  \cup [op : {"reply"}, msg : Message, rest : SUBSET Entry, ok : BOOLEAN]

TypeOK ==
  /\ client \in Client
  /\ status \in [Message -> Status]
  /\ sentAt \in [Message -> Nat]
  /\ task \in [Task -> TaskState]
  /\ late \subseteq Message
  /\ returned \in [Message -> Nat]
  /\ saved \subseteq read
  /\ read \subseteq Message \ Unreadable

Init ==
  /\ client \in Client
  /\ status = [m \in Message |-> "none"]
  /\ sentAt = [m \in Message |-> 0]
  /\ task = [t \in Task |-> Idle]
  /\ late = {}
  /\ returned = [m \in Message |-> 0]
  /\ read = {}
  /\ saved = {}

Goto(t, s) == task' = [task EXCEPT ![t] = s]
Proceed(t, rest) == Goto(t, IF rest = {} THEN Idle ELSE [op |-> "next", rest |-> rest])

-----------------------------------------------------------------------------
(* The server *)

(* A message becomes ready. *)
Arrive(m) ==
  /\ status[m] = "none"
  /\ status' = [status EXCEPT ![m] = "ready"]
  /\ sentAt' = [sentAt EXCEPT ![m] = Cardinality({n \in Message : status[n] # "none"})]
  /\ UNCHANGED <<client, task, late, returned, read, saved>>

(* The sender may cancel what has not been previewed. *)
Cancel(m) ==
  /\ status[m] = "ready"
  /\ status' = [status EXCEPT ![m] = "cancelled"]
  /\ UNCHANGED <<client, sentAt, task, late, returned, read, saved>>

(* Mutant of Listed: the list with claimed messages has only those claimed. *)
Listed_Unclaimed(includeClaimed) == {m \in Message : status[m] \in {"ready", "previewed"}}

Listed(includeClaimed) ==
  {m \in Message : \/ status[m] \in {"ready", "previewed"}
                   \/ includeClaimed /\ status[m] = "settled"}

(* ORDER BY sent_at DESC LIMIT: nothing asks for what comes before that. *)
getInbox(includeClaimed) ==
  LET S == Listed(includeClaimed) IN
  {[msg |-> m, claimed |-> status[m] = "settled"] :
     m \in {n \in S : Cardinality({o \in S : sentAt[o] > sentAt[n]}) < Limit[client]}}

(* Mutant of Claimable: a message can be claimed again. *)
Claimable_Again(m) == status[m] \in {"ready", "previewed", "settled"}

(* handleClaim: one claim of a message succeeds. *)
Claimable(m) == status[m] \in {"ready", "previewed"}

Settle(m) == status' = [status EXCEPT ![m] = IF Claimable(m) THEN "settled" ELSE @]

-----------------------------------------------------------------------------
(* The client *)

(* poll and readNewMessages take every entry of the list, loadInbox shows it *)
(* with or without what was claimed, and the user clicks on one.             *)
LoadInbox(t) ==
  /\ task[t] = Idle
  /\ IF client = "web"
     THEN \E includeClaimed \in BOOLEAN : \E e \in getInbox(includeClaimed) : Proceed(t, {e})
     ELSE Proceed(t, getInbox(FALSE))
  /\ UNCHANGED <<client, status, sentAt, late, returned, read, saved>>

(* The first entry left, and the ones behind it. *)
First(rest) == CHOOSE e \in rest : \A f \in rest : sentAt[f.msg] <= sentAt[e.msg]
Others(rest) == rest \ {First(rest)}

Current(t) == First(task[t].rest)

MarkPreviewed(m) == status' = [status EXCEPT ![m] = IF @ = "ready" THEN "previewed" ELSE @]

(* fetchPreview, then decryptMail and the checks of the secret; the agent    *)
(* also verifies the server's commitment.                                    *)
Previewed(t) ==
  /\ task[t].op = "next"
  /\ ~ Current(t).claimed
  /\ Current(t).msg \notin Unreadable
  /\ Claimable(Current(t).msg)
  /\ MarkPreviewed(Current(t).msg)
  /\ Goto(t, [op |-> "claim", msg |-> Current(t).msg, rest |-> Others(task[t].rest)])
  /\ UNCHANGED <<client, sentAt, late, returned, read, saved>>

(* Mutant of PreviewFails: the exception ends the poll. *)
PreviewFails_EndsPoll(t) ==
  /\ task[t].op = "next"
  /\ ~ Current(t).claimed
  /\ MarkPreviewed(Current(t).msg) \/ UNCHANGED status
  /\ Goto(t, Idle)
  /\ UNCHANGED <<client, sentAt, late, returned, read, saved>>

(* Not there any more, not readable, or the request or its reply is lost: on *)
(* to the next.                                                              *)
PreviewFails(t) ==
  /\ task[t].op = "next"
  /\ ~ Current(t).claimed
  /\ MarkPreviewed(Current(t).msg) \/ UNCHANGED status
  /\ Proceed(t, Others(task[t].rest))
  /\ UNCHANGED <<client, sentAt, late, returned, read, saved>>

Claim(t) ==
  /\ task[t].op = "claim"
  /\ Settle(task[t].msg)
  /\ Goto(t, [op |-> "reply", msg |-> task[t].msg, rest |-> task[t].rest,
              ok |-> Claimable(task[t].msg)])
  /\ UNCHANGED <<client, sentAt, late, returned, read, saved>>

(* Mutant of Claimed: the proof is saved whatever the server has answered. *)
Claimed_Unchecked(t) ==
  /\ task[t].op = "reply"
  /\ IF task[t].ok
     THEN /\ returned' = [returned EXCEPT ![task[t].msg] = @ + 1]
          /\ read' = read \cup {task[t].msg}
     ELSE UNCHANGED <<returned, read>>
  /\ saved' = saved \cup {task[t].msg}
  /\ Proceed(t, task[t].rest)
  /\ UNCHANGED <<client, status, sentAt, late>>

(* Only the agent builds a claim proof, and only from the reply. *)
Claimed(t) ==
  /\ task[t].op = "reply"
  /\ IF task[t].ok
     THEN /\ returned' = [returned EXCEPT ![task[t].msg] = @ + 1]
          /\ read' = read \cup {task[t].msg}
          /\ saved' = IF client = "agent" THEN saved \cup {task[t].msg} ELSE saved
     ELSE UNCHANGED <<returned, read, saved>>
  /\ Proceed(t, task[t].rest)
  /\ UNCHANGED <<client, status, sentAt, late>>

(* The client gives up: the claim may still reach the server. *)
ClaimTimesOut(t) ==
  /\ task[t].op \in {"claim", "reply"}
  /\ late' = IF task[t].op = "claim" THEN late \cup {task[t].msg} ELSE late
  /\ Proceed(t, task[t].rest)
  /\ UNCHANGED <<client, status, sentAt, returned, read, saved>>

LateArrives(m) ==
  /\ late' = late \ {m}
  /\ Settle(m)
  /\ UNCHANGED <<client, sentAt, task, returned, read, saved>>

(* openClaimedMessage: only the browser fetches what was claimed before. *)
Opened(t) ==
  /\ task[t].op = "next"
  /\ Current(t).claimed
  /\ read' = read \cup {Current(t).msg}
  /\ Proceed(t, Others(task[t].rest))
  /\ UNCHANGED <<client, status, sentAt, late, returned, saved>>

OpenFails(t) ==
  /\ task[t].op = "next"
  /\ Current(t).claimed
  /\ Proceed(t, Others(task[t].rest))
  /\ UNCHANGED <<client, status, sentAt, late, returned, read, saved>>

Step(t) ==
  \/ Previewed(t)
  \/ PreviewFails(t)
  \/ Claim(t)
  \/ Claimed(t)
  \/ ClaimTimesOut(t)
  \/ Opened(t)
  \/ OpenFails(t)

Next ==
  \/ \E m \in Message : Arrive(m) \/ Cancel(m)
  \/ \E t \in Task : LoadInbox(t) \/ Step(t)
  \/ \E m \in late : LateArrives(m)

Spec == Init /\ [][Next]_vars

(***************************************************************************)
(* Fairness.  The agent keeps polling; the user keeps loading the inbox,   *)
(* with and without the claimed messages, and clicks on each message again *)
(* and again; neither the requests nor the replies of one kind are lost    *)
(* for ever.                                                               *)
(***************************************************************************)
Fairness ==
  /\ \A t \in Task : WF_vars(Step(t)) /\ SF_vars(Previewed(t)) /\ SF_vars(Claim(t))
  /\ \A t \in Task, m \in Message :
       /\ SF_vars(LoadInbox(t) /\ task'[t] # Idle /\ \E e \in task'[t].rest : e.msg = m)
       /\ SF_vars(Opened(t) /\ Current(t).msg = m)

FairSpec == Spec /\ Fairness

-----------------------------------------------------------------------------
(***************************************************************************)
(* Polls overlap, two tabs are open, a claim that timed out arrives late   *)
(* and the message is claimed again: a claim still returns it only once,   *)
(* so an agent never handles the same mail, or counts the same payment,    *)
(* twice.                                                                  *)
(***************************************************************************)
ReturnedOnce == \A m \in Message : returned[m] <= 1

(***************************************************************************)
(* poll goes on after a message that cannot be claimed: whatever is lost,  *)
(* each message that can be claimed is, unless its sender cancels it.  The *)
(* limit of the list must exceed the messages that cannot be claimed, for  *)
(* they stay in it.                                                        *)
(***************************************************************************)
ReadableIsSettled ==
  client # "web" => \A m \in Message \ Unreadable :
    (status[m] = "ready") ~> (status[m] \in {"settled", "cancelled"})

(***************************************************************************)
(* A browser that has lost the reply to its claim has not lost the mail:   *)
(* every message that is settled is eventually opened, unless newer ones   *)
(* push it out of the list, which has no next page.                        *)
(***************************************************************************)
PushedOut(m) ==
  Cardinality({n \in Message : sentAt[n] > sentAt[m] /\ status[n] # "cancelled"}) >= Limit[client]

SettledIsRead ==
  client = "web" => \A m \in Message :
    (status[m] = "settled") ~> (m \in read \/ PushedOut(m))

-----------------------------------------------------------------------------
(* Statements of the repository that the code does not keep. *)

(* client.ts:450: poll claims all unclaimed messages, whatever its limit.    *)
PollClaimsAll == ReadableIsSettled

(* client.ts:19: the claim proof is saved for later dispute handling.        *)
SettledIsSaved == \A m \in Message : (status[m] = "settled") ~> (m \in saved)
=============================================================================
