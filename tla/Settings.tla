------------------------------- MODULE Settings -------------------------------
(***************************************************************************)
(* core/config.py, core/secrets.py and the handlers of routes_settings.py: *)
(* the settings in memory and in their file, and a key that is kept in the *)
(* system's credential store or, when that fails, in a file.  A handler is *)
(* one step, inside which writing may fail and the process may die.        *)
(***************************************************************************)
EXTENDS Integers, Sequences, FiniteSets

CONSTANTS
    Providers,           \* the model providers there are
    FromEnvironment,     \* those the environment enables
    Defaults,            \* the settings of Settings()
    Patches,             \* changes the page makes: functions from some fields to values
    Keys, NoKey,         \* values of the key, and none
    EnvironmentKey,      \* the one in the environment, or NoKey
    FirstFiles           \* what the settings file may be at first

VARIABLES
    up,                  \* the process runs
    file,                \* the settings file: [kind, value]
    cache,               \* SettingsStore._settings
    promised,            \* what the next start may find
    keyring, keyFile,    \* the key in the credential store and in secrets.json
    deleted              \* keys deleted with success and not set again

settingsVars == <<up, file, cache, promised, keyring, keyFile, deleted>>

SettingsValues == [enabled : SUBSET Providers, offline : BOOLEAN]

(* enabled: the three switches; offline: models.offline_mode. *)
ASSUME SettingsAssumption ==
    /\ FromEnvironment \subseteq Providers
    /\ Defaults \in SettingsValues
    /\ NoKey \notin Keys /\ EnvironmentKey \notin Keys
    /\ \A f \in FirstFiles : f.kind \in {"absent", "broken", "ok"} /\ f.value \in SettingsValues

SettingsTypeOK ==
    /\ up \in BOOLEAN
    /\ file \in [kind : {"absent", "broken", "ok"}, value : SettingsValues]
    /\ cache \in SettingsValues
    /\ promised \subseteq SettingsValues
    /\ {keyring, keyFile} \subseteq Keys \cup {NoKey}
    /\ deleted \subseteq Keys

(* _apply_environment_overrides *)
Overridden(s) == [s EXCEPT !.enabled = @ \cup FromEnvironment]

InFile(s) == [kind |-> "ok", value |-> s]

(* A broken file is moved aside. *)
Found == IF file.kind = "ok" THEN file.value ELSE Defaults

SettingsInit ==
    /\ file \in FirstFiles
    /\ up \in {FALSE, file.kind # "broken"}
    /\ cache = Overridden(Found)
    /\ promised = {Found}
    /\ keyring = NoKey /\ keyFile \in {NoKey} \cup Keys
    /\ deleted = {}

Load ==
    /\ cache' = Overridden(Found)
    /\ file' = IF file.kind = "broken" THEN [file EXCEPT !.kind = "absent"] ELSE file

(* Mutated form: written in place, so that a file cut short is left behind. *)
CutShortInPlace(new) == {InFile(new), [file EXCEPT !.kind = "broken"]}

(* save writes another file and puts it in place. *)
CutShort(new) == {file, InFile(new)}

(* save: memory first, then the file, which may fail. *)
Saved(new) == cache' = new /\ file' = InFile(new) /\ promised' = {new} /\ UNCHANGED up

NotSaved(new) == cache' = new /\ promised' = promised \cup {new} /\ UNCHANGED <<up, file>>

DiedSaving(new) ==
    /\ up' = FALSE /\ file' \in CutShort(new) /\ promised' = promised \cup {new}
    /\ UNCHANGED cache

Patched(s, patch) == [k \in DOMAIN s |-> IF k \in DOMAIN patch THEN patch[k] ELSE s[k]]

(* reset_settings reloads what it has saved. *)
SavedAndReloaded ==
    /\ cache' = Overridden(Defaults) /\ file' = InFile(Defaults) /\ promised' = {Defaults}
    /\ UNCHANGED up

-----------------------------------------------------------------------------
(* SecretStore.get, with a credential store that may not answer. *)
Get(stored, filed, answers) ==
    IF answers /\ stored # NoKey THEN stored ELSE IF filed # NoKey THEN filed ELSE EnvironmentKey

SetKey(k, works) ==
    /\ keyring' = IF works THEN k ELSE keyring
    /\ keyFile' = IF works THEN keyFile ELSE k
    /\ deleted' = deleted \ {k}

(* Mutated form: the file is the second choice when deleting, too. *)
DeleteKeyOnce(works) ==
    /\ keyring' = IF works THEN NoKey ELSE keyring
    /\ keyFile' = IF works THEN keyFile ELSE NoKey
    /\ deleted' = IF works THEN deleted \cup ({keyring, keyFile} \ {NoKey}) ELSE deleted

(* A credential store that refuses keeps its key, and nobody is told. *)
DeleteKey(works) ==
    /\ keyring' = IF works THEN NoKey ELSE keyring
    /\ keyFile' = NoKey
    /\ deleted' = IF works THEN deleted \cup ({keyring, keyFile} \ {NoKey}) ELSE deleted
=============================================================================
