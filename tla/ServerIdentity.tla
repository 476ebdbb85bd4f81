---------------------------- MODULE ServerIdentity --------------------------
(***************************************************************************)
(* Who the server is: main and resolveServerIdentity of                    *)
(* packages/server/src/index.ts.  At every start the signing key and the   *)
(* addresses are put together from the environment and the meta table, and *)
(* written back; with them go the pipes of the reservoir, the session      *)
(* tokens and the registration of the server's address.                    *)
(*                                                                         *)
(* A key is 32 bytes of hex and an address is valid, or resolveServer-     *)
(* Identity throws before it writes; such a start changes nothing and is   *)
(* left out.  So are reservoirs that are no contract principals, which are *)
(* refused only after the rows are written: for meta, a Start and a Stop.  *)
(***************************************************************************)
EXTENDS Naturals, FiniteSets

CONSTANTS
  Key,        \* private keys
  Reservoir,  \* contract principals of a reservoir
  StackFlow,  \* the contract a reservoir names as its StackFlow contract
  None        \* an empty environment variable, a missing row

Signer(key) == <<"signer", key>>

(* What MAILSLOT_SERVER_STX_ADDRESS and the server_stx_address row can hold. *)
Address == {None} \cup {Signer(k) : k \in Key} \cup Reservoir

Environment ==
  [key : {None} \cup Key, address : Address, reservoir : {None} \cup Reservoir,
   stackflow : {None, StackFlow}]

Identity == [key : Key, signer : {Signer(k) : k \in Key},
             reservoir : {None} \cup Reservoir, stackflow : {None, StackFlow}]

VARIABLES
  meta,        \* table meta: the key and the address that are stored
  starting,    \* what main waits with for the chain: a set with at most one member
  running,     \* the identity the server runs with: a set with at most one member
  used,        \* history: keys that a server has run with
  configured,  \* history: keys that were configured for a start
  last,        \* history: the last identity the server has run with, and where
  lastEnv      \* history: the environment of the last start that was not refused

vars == <<meta, starting, running, used, configured, last, lastEnv>>

TypeOK ==
  /\ meta \in [key : {None} \cup Key, address : Address]
  /\ starting \subseteq Identity /\ Cardinality(starting) <= 1
  /\ running \subseteq Identity /\ Cardinality(running) <= 1
  /\ used \subseteq Key
  /\ configured \subseteq Key
  /\ last \subseteq [env : Environment, identity : Identity]
  /\ lastEnv \subseteq Environment

(* A new database, or one that an earlier release has left: its address row *)
(* may be the reservoir's, which resolveServerIdentity calls legacy.        *)
Init ==
  /\ meta \in [key : {None}, address : {None}] \cup [key : Key, address : Reservoir]
  /\ starting = {}
  /\ running = {}
  /\ used = IF meta.key = None THEN {} ELSE {meta.key}
  /\ configured = {}
  /\ last = {}
  /\ lastEnv = {}

-----------------------------------------------------------------------------
(* resolveServerIdentity *)

(* A new key is random: nobody knows it or its address yet. *)
Random(env) == {k \in Key \ (used \cup configured) : Signer(k) \notin {env.address, meta.address}}

(* The configured key, else the stored one, else a new one. *)
Keys(env) ==
  IF env.key # None THEN {env.key}
  ELSE IF meta.key # None THEN {meta.key}
  ELSE Random(env)

Standard(address) == address \notin Reservoir \cup {None}

Contract(address) == address \in Reservoir

(* The configured principal, else the stored one, else the key's own. *)
signerAddress(env, key) ==
  IF Standard(env.address) THEN env.address
  ELSE IF Standard(meta.address) THEN meta.address
  ELSE Signer(key)

legacyReservoirAddress(env) ==
  IF Contract(env.address) THEN env.address
  ELSE IF Contract(meta.address) THEN meta.address
  ELSE None

reservoirContractId(env) ==
  IF env.reservoir # None THEN env.reservoir ELSE legacyReservoirAddress(env)

Down == starting = {} /\ running = {}

(* The signer principal must match the key, or the server does not start. *)
Resolved(env, key) == signerAddress(env, key) = Signer(key)

Resolve(env, key) ==
  [key |-> key, signer |-> signerAddress(env, key),
   reservoir |-> reservoirContractId(env), stackflow |-> env.stackflow]

(* Mutant of Start: a generated key is not stored. *)
Start_Unstored(env) ==
  /\ Down
  /\ \E key \in Keys(env) :
       /\ Resolved(env, key)
       /\ meta' = IF {env.key, meta.key} = {None} THEN meta
                  ELSE [key |-> key, address |-> signerAddress(env, key)]
       /\ starting' = {Resolve(env, key)}
  /\ configured' = configured \cup ({env.key} \ {None})
  /\ lastEnv' = {env}
  /\ UNCHANGED <<running, used, last>>

(* Both rows are written; then main goes on to the chain. *)
Start(env) ==
  /\ Down
  /\ \E key \in Keys(env) :
       /\ Resolved(env, key)
       /\ meta' = [key |-> key, address |-> signerAddress(env, key)]
       /\ starting' = {Resolve(env, key)}
  /\ configured' = configured \cup ({env.key} \ {None})
  /\ lastEnv' = {env}
  /\ UNCHANGED <<running, used, last>>

(* Mutant of StartCut: the address is written before the key. *)
StartCut_AddressFirst(env) ==
  /\ Down
  /\ \E key \in Keys(env) :
       /\ Resolved(env, key)
       /\ meta' = [meta EXCEPT !.address = signerAddress(env, key)]
  /\ configured' = configured \cup ({env.key} \ {None})
  /\ lastEnv' = {env}
  /\ UNCHANGED <<starting, running, used, last>>

(* The process dies between the two rows. *)
StartCut(env) ==
  /\ Down
  /\ \E key \in Keys(env) :
       /\ Resolved(env, key)
       /\ meta' = [meta EXCEPT !.key = key]
  /\ configured' = configured \cup ({env.key} \ {None})
  /\ lastEnv' = {env}
  /\ UNCHANGED <<starting, running, used, last>>

(* fetchSfContractFromReservoir has answered, if there was anything to ask; *)
(* an API that is down leaves the server without a StackFlow contract.      *)
Listen ==
  \E identity \in starting :
    /\ \E found \in IF identity.stackflow = None /\ identity.reservoir # None
                    THEN {None, StackFlow} ELSE {identity.stackflow} :
         running' = {[identity EXCEPT !.stackflow = found]}
    /\ starting' = {}
    /\ used' = used \cup {identity.key}
    /\ last' = {[env |-> env, identity |-> i] : env \in lastEnv, i \in running'}
    /\ UNCHANGED <<meta, configured, lastEnv>>

(* The server is stopped or dies, starting or running. *)
Stop ==
  /\ ~ Down
  /\ starting' = {}
  /\ running' = {}
  /\ UNCHANGED <<meta, used, configured, last, lastEnv>>

Next ==
  \/ \E env \in Environment : Start(env) \/ StartCut(env)
  \/ Listen
  \/ Stop

Spec == Init /\ [][Next]_vars

-----------------------------------------------------------------------------
(***************************************************************************)
(* A signer key is generated once (HOSTING.md:115): of all the keys the    *)
(* server has ever run with, however its starts were cut short and its     *)
(* environment changed in between, at most one was not configured.         *)
(***************************************************************************)
KeyIsGeneratedOnce == Cardinality(used \ configured) <= 1

(***************************************************************************)
(* A restart in the environment of the last start is never refused, not    *)
(* even if that start died between its two writes, with the new key stored *)
(* beside the old address.                                                 *)
(***************************************************************************)
RestartIsAccepted ==
  Down => \A env \in lastEnv : \A key \in Keys(env) : Resolved(env, key)

-----------------------------------------------------------------------------
(* A statement of the repository that the code does not keep. *)

(* index.ts:176: keep identity durable for container restarts.  Restarted in *)
(* the same environment, the server keeps its reservoir.                     *)
IdentityIsDurable ==
  [][Listen => \A before \in last : before.env \in lastEnv =>
       \A identity \in running' : identity.reservoir = before.identity.reservoir]_vars
=============================================================================
