---------------------------- MODULE MCInboxClient ---------------------------
(* A small instance of InboxClient for TLC. *)
EXTENDS InboxClient

(* The agent and the SDK can list every message, the browser only the newest. *)
MCClient == {"agent", "sdk", "web"}
MCLimit == [agent |-> 2, sdk |-> 2, web |-> 1]

(* Lists of one entry, with which PollClaimsAll does not hold. *)
ShortList == [agent |-> 1, sdk |-> 1, web |-> 1]
=============================================================================
