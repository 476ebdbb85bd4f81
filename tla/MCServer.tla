------------------------------ MODULE MCServer ------------------------------
(***************************************************************************)
(* Three parts of the server that share no state, for TLC: the rate        *)
(* limits (RateLimiter), the settings (RuntimeSettings) and the identity   *)
(* (ServerIdentity).  A behaviour is one of one of them, and the other two *)
(* keep their initial state, so that TLC explores the sum of the parts and *)
(* not their product.                                                      *)
(***************************************************************************)
EXTENDS RateLimiter, TLC

CONSTANTS
  Value,                      \* of RuntimeSettings
  SignerKey,                  \* Key of ServerIdentity
  Reservoir, StackFlow, None  \* of ServerIdentity

VARIABLES
  part,                              \* the part that runs
  up, defaults, rows, live, cut,     \* of RuntimeSettings
  meta, starting, running, used, configured, last, lastEnv  \* of ServerIdentity

settingsVars == <<up, defaults, rows, live, cut>>
identityVars == <<meta, starting, running, used, configured, last, lastEnv>>

S == INSTANCE RuntimeSettings
I == INSTANCE ServerIdentity WITH Key <- SignerKey

(* Nothing is not a key: normalizePrivateKey takes 32 bytes of hex only. *)
ASSUME NoneAssumption == None \notin SignerKey

(* One category that is limited to two requests and one that is closed. *)
MCLimit == [send |-> 2, admin |-> 0]

Symmetry == Permutations(SignerKey)

ServerInit ==
  /\ part \in {"limits", "settings", "identity"}
  /\ Init /\ S!Init /\ I!Init
  /\ part # "settings" => \A k \in S!Key : defaults[k] = 0
  /\ part # "identity" => meta.key = None

LimitsNext == part = "limits" /\ Next /\ UNCHANGED <<part, settingsVars, identityVars>>

SettingsNext == part = "settings" /\ S!Next /\ UNCHANGED <<part, vars, identityVars>>

IdentityNext == part = "identity" /\ I!Next /\ UNCHANGED <<part, vars, settingsVars>>

ServerNext == LimitsNext \/ SettingsNext \/ IdentityNext

ServerSpec == ServerInit /\ [][ServerNext]_<<part, vars, settingsVars, identityVars>>

-----------------------------------------------------------------------------
(* Every variable of the three parts has its type: one bucket for a key, at *)
(* most one value for a setting, at most one identity.                      *)
ServerTypeOK == TypeOK /\ S!TypeOK /\ I!TypeOK

(* What an update or the first boot has put in force stays in force, across *)
(* restarts with other environments and updates cut short by a crash        *)
(* (settings.ts).                                                           *)
LiveSettingsSurvive == S!LiveSettingsSurvive

(* An update leaves settings behind that are valid as a whole (settings.ts).*)
UpdateRepairs == S!UpdateRepairs

(* At most one signing key was ever generated (index.ts).                   *)
KeyIsGeneratedOnce == I!KeyIsGeneratedOnce

(* The server starts again in the environment of its last start (index.ts). *)
RestartIsAccepted == I!RestartIsAccepted
=============================================================================
