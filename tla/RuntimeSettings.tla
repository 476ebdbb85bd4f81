--------------------------- MODULE RuntimeSettings --------------------------
(***************************************************************************)
(* RuntimeSettingsStore (packages/server/src/settings.ts) and the admin    *)
(* endpoints over it (app.ts): the settings the reservoir deployer can     *)
(* change while the server runs.                                           *)
(*                                                                         *)
(* A store is a table of keys and values, written one key at a time and    *)
(* each key in a transaction of its own.  update runs without an await, so *)
(* only the death of the process comes between two of its writes.  The     *)
(* values compared with each other are messagePriceSats and minFeeSats;    *)
(* one key stands for all the others.                                      *)
(***************************************************************************)
EXTENDS Naturals

CONSTANT Value    \* the non-negative integers a setting can have

(* RUNTIME_SETTING_KEYS, in the order they are written. *)
Keys == <<"messagePriceSats", "minFeeSats", "maxPendingPerSender">>

Key == {Keys[i] : i \in 1..3}

Settings == [Key -> Value]

VARIABLES
  up,        \* the process runs
  defaults,  \* what it was started with (runtimeSettingsFromConfig)
  rows,      \* table runtime_settings: each key's value, if it has a row
  live,      \* history: the settings in force since the last update began or ended
  cut        \* history: the update that a crash has cut short, if one was

vars == <<up, defaults, rows, live, cut>>

TypeOK ==
  /\ up \in BOOLEAN
  /\ defaults \in Settings
  /\ rows \in [Key -> {{}} \cup {{v} : v \in Value}]
  /\ live \in SUBSET Settings
  /\ cut \in SUBSET Settings

(* A new database. *)
Init ==
  /\ up = FALSE
  /\ defaults \in Settings
  /\ rows = [k \in Key |-> {}]
  /\ live = {}
  /\ cut = {}

(* get: a key without a row has its default. *)
get == [k \in Key |-> IF rows[k] = {} THEN defaults[k] ELSE CHOOSE v \in rows[k] : TRUE]

validateRuntimeSettings(s) == s["minFeeSats"] <= s["messagePriceSats"]

(* The first n keys get their values from s. *)
Written(n, s) ==
  [k \in Key |-> IF \E i \in 1..n : Keys[i] = k THEN {s[k]} ELSE rows[k]]

-----------------------------------------------------------------------------
(* Mutant of Seeded: INSERT OR REPLACE. *)
Seeded_Replaces(n, d) == Written(n, d)

(* INSERT OR IGNORE for the first n keys. *)
Seeded(n, d) ==
  [k \in Key |-> IF rows[k] = {} THEN Written(n, d)[k] ELSE rows[k]]

(* The constructor, with what the environment says by then. *)
Start(d) ==
  /\ ~ up
  /\ defaults' = d
  /\ rows' = Seeded(3, d)
  /\ up' = TRUE
  /\ live' = IF live = {} THEN {get'} ELSE live
  /\ UNCHANGED cut

(* The process dies while the defaults are inserted. *)
StartCut(d) ==
  /\ ~ up
  /\ defaults' = d
  /\ \E n \in 0..2 : rows' = Seeded(n, d)
  /\ UNCHANGED <<up, live, cut>>

(* { ...current, ...patch } *)
Merged(patch) == [k \in Key |-> IF k \in DOMAIN patch THEN patch[k] ELSE get[k]]

(* Mutant of Accepts: the patch is checked and not what it is merged with. *)
Accepts_PatchOnly(patch) ==
  {"minFeeSats", "messagePriceSats"} \subseteq DOMAIN patch => validateRuntimeSettings(patch)

Accepts(patch) == validateRuntimeSettings(Merged(patch))

(* handleUpdateAdminSettings with the signature of the deployer. *)
Update(patch) ==
  /\ up
  /\ Accepts(patch)
  /\ rows' = Written(3, Merged(patch))
  /\ live' = {Merged(patch)}
  /\ cut' = {}
  /\ UNCHANGED <<up, defaults>>

(* The process dies after one of the keys, or two. *)
UpdateCut(patch) ==
  /\ up
  /\ Accepts(patch)
  /\ up' = FALSE
  /\ \E n \in 1..2 : rows' = Written(n, Merged(patch))
  /\ live' = {get}
  /\ cut' = {Merged(patch)}
  /\ UNCHANGED defaults

(* The server is stopped between two requests. *)
Stop ==
  /\ up
  /\ up' = FALSE
  /\ UNCHANGED <<defaults, rows, live, cut>>

Patch == UNION {[K -> Value] : K \in SUBSET Key}

Next ==
  \/ \E d \in Settings : Start(d) \/ StartCut(d)
  \/ \E patch \in Patch : Update(patch) \/ UpdateCut(patch)
  \/ Stop

Spec == Init /\ [][Next]_vars

-----------------------------------------------------------------------------
(***************************************************************************)
(* The database is the source of truth after the first boot (README.md:    *)
(* 139): what the first boot or the last update has put in force stays in  *)
(* force, however often the server is stopped and started with other       *)
(* environment variables, unless a crash cuts the next update short.  Then *)
(* each setting is the old one or that of the cut update, nothing else.    *)
(***************************************************************************)
LiveSettingsSurvive ==
  \A s \in live : \A k \in Key : get[k] = s[k] \/ \E next \in cut : get[k] = next[k]

(***************************************************************************)
(* An update always leaves valid settings behind, those of an earlier cut  *)
(* update and of unchecked defaults included: it is checked and written as *)
(* a whole, so nothing invalid survives under the keys it does not name.   *)
(***************************************************************************)
UpdateRepairs == [][\A patch \in Patch : Update(patch) => validateRuntimeSettings(get')]_vars

-----------------------------------------------------------------------------
(* A statement of the repository that the code does not keep. *)

(* settings.ts:115: minFeeSats must be less than or equal to                 *)
(* messagePriceSats.  What an update leaves in force when it is cut short is *)
(* as valid as the settings before it and those it was to make.              *)
RunsWithValidSettings ==
  up /\ (\A s \in live \cup cut : validateRuntimeSettings(s)) => validateRuntimeSettings(get)
=============================================================================
