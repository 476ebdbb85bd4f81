----------------------------- MODULE InboxSession ---------------------------
(***************************************************************************)
(* How a browser proves to the server whose inbox it is: a proof signed by *)
(* the wallet (x-mailslot-auth), and the session token the server returns  *)
(* for it and renews on every use (x-mailslot-session).  Server side:      *)
(* packages/server/src/auth.ts and requireAuth of app.ts; client side: the *)
(* two globals and the cached proof of packages/web/src/main.ts.           *)
(*                                                                         *)
(* Time is counted in units of the shortest limit, and kept as the age of  *)
(* each credential, which stops at MaxAge: beyond it nothing changes.      *)
(* Signatures and the HMAC of a token are external: a credential says      *)
(* truly which wallet signed it or which key of the server issued it.      *)
(***************************************************************************)
EXTENDS Integers, FiniteSets

CONSTANTS
  Wallet,      \* the addresses the user can connect
  Task,        \* requests the page can have in progress at the same time
  AuthTtl,     \* authTimestampTtlMs
  SessionTtl,  \* inboxSessionTtlMs
  CacheTtl,    \* how long the page reuses a signed get-inbox proof
  PromptTtl    \* how long the page waits for the wallet

ASSUME TtlAssumption ==
  /\ AuthTtl \in Nat /\ SessionTtl \in Nat /\ CacheTtl \in Nat /\ PromptTtl \in Nat

MaxAge == AuthTtl + SessionTtl + CacheTtl + PromptTtl + 1

Age == 0..MaxAge

VARIABLES
  wallet,     \* the connected wallet, a set with at most one member
  session,    \* inboxSessionToken, a set with at most one member
  cached,     \* cachedGetInboxAuth, a set with at most one member
  task,       \* what each request of the page is waiting for
  serverKey,  \* the key the server signs tokens with; it can change once
  connectable \* whether the buttons to connect a wallet are enabled

sessionVars == <<wallet, session, cached, task, serverKey, connectable>>

SessionKey == {"old", "new"}

Idle == [op |-> "idle"]

Token == [kind : {"session"}, addr : Wallet, age : Age, key : SessionKey]
Proof == [kind : {"auth"}, addr : Wallet, age : Age]

TaskState ==
       {Idle}
  \cup [op : {"sign"}, proof : Proof, inbox : BOOLEAN]
  \cup [op : {"sent"}, credential : Token \cup Proof]
  \cup [op : {"reply"}, token : {{}} \cup {{s} : s \in Token}]

SessionTypeOK ==
  /\ wallet \subseteq Wallet /\ Cardinality(wallet) <= 1
  /\ session \subseteq Token /\ Cardinality(session) <= 1
  /\ cached \subseteq [proof : Proof, kept : Age] /\ Cardinality(cached) <= 1
  /\ task \in [Task -> TaskState]
  /\ serverKey \in SessionKey
  /\ connectable \in BOOLEAN

SessionInit ==
  /\ wallet = {}
  /\ session = {}
  /\ cached = {}
  /\ task = [t \in Task |-> Idle]
  /\ serverKey = "old"
  /\ connectable = TRUE

Goto(t, s) == task' = [task EXCEPT ![t] = s]

-----------------------------------------------------------------------------
(* connectWallet and disconnectWallet *)

(* The buttons are disabled, and enabled again only if no wallet answers. *)
Connect(w) ==
  /\ wallet = {} /\ connectable
  /\ wallet' = {w}
  /\ connectable' = FALSE
  /\ UNCHANGED <<session, cached, task, serverKey>>

(* Mutant of Disconnect: the buttons are enabled again. *)
Disconnect_Reenables ==
  /\ wallet # {}
  /\ wallet' = {} /\ session' = {} /\ cached' = {}
  /\ connectable' = TRUE
  /\ UNCHANGED <<task, serverKey>>

(* What is in progress is not cancelled, and the buttons stay as they are. *)
Disconnect ==
  /\ wallet # {}
  /\ wallet' = {} /\ session' = {} /\ cached' = {}
  /\ UNCHANGED <<task, serverKey, connectable>>

(* The user loads the page again. *)
Reload ==
  /\ wallet' = {} /\ session' = {} /\ cached' = {}
  /\ task' = [t \in Task |-> Idle]
  /\ connectable' = TRUE
  /\ UNCHANGED serverKey

-----------------------------------------------------------------------------
(* buildInboxRequestHeaders and buildWalletAuthHeader *)

Unexpired(tokens) == {s \in tokens : s.age < SessionTtl}

(* Mutant of Usable: a token is used whatever its expiry. *)
Usable_Always == session

Usable == Unexpired(session)

Reusable == {c \in cached : c.kept < CacheTtl}

SendToken(t) ==
  /\ task[t] = Idle
  /\ wallet # {}
  /\ \E s \in Usable : Goto(t, [op |-> "sent", credential |-> s])
  /\ UNCHANGED <<wallet, session, cached, serverKey, connectable>>

SendCached(t) ==
  /\ task[t] = Idle
  /\ wallet # {}
  /\ Usable = {}
  /\ \E c \in Reusable : Goto(t, [op |-> "sent", credential |-> c.proof])
  /\ UNCHANGED <<wallet, session, cached, serverKey, connectable>>

(* The timestamp is taken before the wallet is asked to sign.  Proofs for  *)
(* get-inbox are cached, those for one message are not.                    *)
AskWallet(t, inbox) ==
  /\ task[t] = Idle
  /\ Usable = {}
  /\ inbox => Reusable = {}
  /\ \E w \in wallet :
       Goto(t, [op |-> "sign", inbox |-> inbox,
                proof |-> [kind |-> "auth", addr |-> w, age |-> 0]])
  /\ UNCHANGED <<wallet, session, cached, serverKey, connectable>>

(* The four minutes of the cache are counted from here. *)
Signed(t) ==
  LET c == task[t] IN
  /\ c.op = "sign"
  /\ cached' = IF c.inbox THEN {[proof |-> c.proof, kept |-> 0]} ELSE cached
  /\ Goto(t, [op |-> "sent", credential |-> c.proof])
  /\ UNCHANGED <<wallet, session, serverKey, connectable>>

(* The user refuses, or two minutes have passed. *)
NotSigned(t) ==
  /\ task[t].op = "sign"
  /\ Goto(t, Idle)
  /\ UNCHANGED <<wallet, session, cached, serverKey, connectable>>

-----------------------------------------------------------------------------
(* requireAuth: verifyInboxSessionToken, or verifyWalletAuth.  Both refuse   *)
(* what is dated in the future as well; here there is one clock.             *)

Valid(c) ==
  IF c.kind = "session" THEN c.key = serverKey /\ c.age <= SessionTtl
                        ELSE c.age <= AuthTtl

(* issueInboxSessionToken: whatever was shown, a fresh token comes back. *)
Accept(t) ==
  LET c == task[t].credential IN
  /\ task[t].op = "sent"
  /\ Valid(c)
  /\ Goto(t, [op |-> "reply", token |->
                {[kind |-> "session", addr |-> c.addr, age |-> 0, key |-> serverKey]}])
  /\ UNCHANGED <<wallet, session, cached, serverKey, connectable>>

(* A 401 has no token in it. *)
Refuse(t) ==
  /\ task[t].op = "sent"
  /\ ~ Valid(task[t].credential)
  /\ Goto(t, [op |-> "reply", token |-> {}])
  /\ UNCHANGED <<wallet, session, cached, serverKey, connectable>>

(* Mutant of Replied: a token is added to the one kept. *)
Replied_Adds(t) ==
  /\ task[t].op = "reply"
  /\ session' = session \cup Unexpired(task[t].token)
  /\ Goto(t, Idle)
  /\ UNCHANGED <<wallet, cached, serverKey, connectable>>

(* captureInboxSession: a token that is still good replaces the one kept; a  *)
(* 401 has none.                                                             *)
Replied(t) ==
  LET token == Unexpired(task[t].token) IN
  /\ task[t].op = "reply"
  /\ session' = IF token = {} THEN session ELSE token
  /\ Goto(t, Idle)
  /\ UNCHANGED <<wallet, cached, serverKey, connectable>>

(* apiFetch gives up after 20 s, or the network fails. *)
Lost(t) ==
  /\ task[t].op \in {"sent", "reply"}
  /\ Goto(t, Idle)
  /\ UNCHANGED <<wallet, session, cached, serverKey, connectable>>

-----------------------------------------------------------------------------
(* getSessionSecret depends on the server's key, address and chain: after a  *)
(* restart with another key every token issued before is refused.            *)
Rekey ==
  /\ serverKey = "old"
  /\ serverKey' = "new"
  /\ UNCHANGED <<wallet, session, cached, task, connectable>>

Older(n) == IF n < MaxAge THEN n + 1 ELSE n

(* What a request carries grows older with it. *)
Aged(c) ==
  CASE c.op = "sign" -> [c EXCEPT !.proof.age = @ + 1]
    [] c.op = "sent" -> [c EXCEPT !.credential.age = Older(@)]
    [] c.op = "reply" -> [c EXCEPT !.token = {[s EXCEPT !.age = Older(@)] : s \in @}]
    [] OTHER -> c

(* One unit passes; the page waits for the wallet up to PromptTtl. *)
Elapse ==
  /\ \A t \in Task : task[t].op = "sign" => task[t].proof.age < PromptTtl
  /\ session' = {[s EXCEPT !.age = Older(@)] : s \in session}
  /\ cached' = {[c EXCEPT !.kept = Older(@), !.proof.age = Older(@)] : c \in cached}
  /\ task' = [t \in Task |-> Aged(task[t])]
  /\ UNCHANGED <<wallet, serverKey, connectable>>

SessionNext ==
  \/ \E w \in Wallet : Connect(w)
  \/ Disconnect
  \/ Reload
  \/ \E t \in Task : SendToken(t)
  \/ \E t \in Task : SendCached(t)
  \/ \E t \in Task, inbox \in BOOLEAN : AskWallet(t, inbox)
  \/ \E t \in Task : Signed(t)
  \/ \E t \in Task : NotSigned(t)
  \/ \E t \in Task : Accept(t)
  \/ \E t \in Task : Refuse(t)
  \/ \E t \in Task : Replied(t)
  \/ \E t \in Task : Lost(t)
  \/ Rekey
  \/ Elapse

SessionSpec == SessionInit /\ [][SessionNext]_sessionVars

(***************************************************************************)
(* Fairness.  Time passes; the user opens the inbox again and again and    *)
(* does not refuse to sign for ever; requests and replies are not lost for *)
(* ever.  Nothing obliges anyone to disconnect, or the server to rekey.    *)
(***************************************************************************)
SessionFairness ==
  /\ SF_sessionVars(Elapse)
  /\ \A t \in Task :
       /\ WF_sessionVars(SendToken(t) \/ SendCached(t) \/ AskWallet(t, TRUE))
       /\ SF_sessionVars(Signed(t))
       /\ SF_sessionVars(Accept(t))
       /\ WF_sessionVars(Refuse(t))
       /\ SF_sessionVars(Replied(t))

SessionFairSpec == SessionSpec /\ SessionFairness

-----------------------------------------------------------------------------
(***************************************************************************)
(* What the page keeps and what it sends is of the connected wallet.  A    *)
(* signature or a reply that comes after the wallet was disconnected still *)
(* puts a credential of that wallet back; but no other can be connected    *)
(* before the page is loaded again, which forgets everything.              *)
(***************************************************************************)
CredentialsFollowWallet ==
  \A w \in wallet :
    /\ \A s \in session : s.addr = w
    /\ \A c \in cached : c.proof.addr = w
    /\ \A t \in Task : task[t].op = "sent" => task[t].credential.addr = w

(***************************************************************************)
(* Lost replies, tokens of an old key, proofs that outlive the server's    *)
(* limit: none of them shuts a user out.  A user who stays connected has   *)
(* the inbox served again and again, because everything stale expires.     *)
(***************************************************************************)
EventuallyServed ==
  \A w \in Wallet :
    <>[](wallet = {w})
      => []<>(\E t \in Task : task[t].op = "reply" /\ \E s \in task[t].token : s.addr = w)

-----------------------------------------------------------------------------
(* A statement of the repository that the code does not keep. *)

(* main.ts:1090: the cached proof for get-inbox is valid for four minutes.   *)
(* They start after the wallet has signed, the server's five before.         *)
CachedProofIsValid ==
  [][\A t \in Task : SendCached(t) => Valid(task'[t].credential)]_sessionVars
=============================================================================
