-------------------------------- MODULE Server --------------------------------
(***************************************************************************)
(* app.py: the start of the server, its background work, the requests that *)
(* change the settings, the key, the catalog and the backups, and the end  *)
(* of the process at any moment.                                           *)
(***************************************************************************)
EXTENDS Catalog, Backups

CONSTANTS
    MaxEvents            \* requests of the page and ends of the process, a bound

ASSUME ServerAssumption == MaxEvents \in Nat \ {0}

VARIABLES
    events

vars == <<settingsVars, catalogVars, backupVars, pc, job, events>>

Places ==
    {"idle", "checking", "listing", "deleting", "inserting", "stamping", "probing", "due",
     "copying", "collecting", "opening", "writing", "finishing"}

TypeOK ==
    /\ SettingsTypeOK /\ CatalogTypeOK /\ BackupTypeOK
    /\ pc \in [Callers -> Places]
    /\ events \in 0 .. MaxEvents

(* Not started yet, or running with the work of the start done, which      *)
(* counts as an event.                                                     *)
Init ==
    /\ SettingsInit /\ CatalogInit /\ BackupInit
    /\ pc = [c \in Callers |-> "idle"] /\ job = [c \in Callers |-> NoJob]
    /\ events = IF up THEN 0 ELSE 1

(* lifespan: the settings, the clients, and _startup_background. *)
Start ==
    /\ ~up
    /\ up' = TRUE
    /\ Load
    /\ UNCHANGED <<promised, keyring, keyFile, deleted>>
    /\ Configure(cache')
    /\ Joining(Background, At("checking", Refresher("startup", cache')))
    /\ UNCHANGED <<rows, fresh, backupVars, events>>

(* What is in memory goes; a listing may be half in its table. *)
Down ==
    /\ pc' = [c \in Callers |-> "idle"] /\ job' = [c \in Callers |-> NoJob]
    /\ clients' = <<>>
    /\ \/ UNCHANGED rows
       \/ \E c \in Callers :
            /\ pc[c] = "inserting"
            /\ \E some \in SUBSET job[c].models :
                rows' = [rows EXCEPT ![job[c].provider] = @ \cup some]
    /\ UNCHANGED <<inUse, fresh, backupVars>>

Crash ==
    /\ up /\ events < MaxEvents
    /\ events' = events + 1
    /\ up' = FALSE
    /\ Down
    /\ UNCHANGED <<file, cache, promised, keyring, keyFile, deleted>>

-----------------------------------------------------------------------------
(* Requests.  Those about settings and the key do not wait for anything. *)

WhenSaved(s) == Configure(s) /\ UNCHANGED <<rows, fresh, backupVars, pc, job>>

(* The clients stay as they were when the file could not be written. *)
WhenNotSaved == UNCHANGED <<catalogVars, backupVars, pc, job>>

ChangeSettings ==
    /\ UNCHANGED <<keyring, keyFile, deleted>>
    /\ \E patch \in Patches :
        LET new == Patched(cache, patch)
        IN  \/ Saved(new) /\ WhenSaved(new)
            \/ NotSaved(new) /\ WhenNotSaved
            \/ DiedSaving(new) /\ Down

ResetSettings ==
    /\ UNCHANGED <<keyring, keyFile, deleted>>
    /\ \/ SavedAndReloaded /\ WhenSaved(Defaults)
       \/ NotSaved(Defaults) /\ WhenNotSaved
       \/ DiedSaving(Defaults) /\ Down

ChangeKey ==
    /\ UNCHANGED <<up, file, cache, promised>>
    /\ \E works \in BOOLEAN : DeleteKey(works) \/ \E k \in Keys : SetKey(k, works)
    /\ Configure(cache)
    /\ UNCHANGED <<rows, fresh, backupVars, pc, job>>

Call(c) ==
    /\ pc[c] = "idle"
    /\ \/ (BeginRefresh(c) \/ BeginStatuses(c)) /\ UNCHANGED backupVars
       \/ \E label \in Labels : BeginBackup(c, label) /\ UNCHANGED <<settingsVars, catalogVars>>

Request ==
    /\ up /\ events < MaxEvents
    /\ events' = events + 1
    /\ ChangeSettings \/ ResetSettings \/ ChangeKey \/ \E c \in Callers : Call(c)

Step(c) ==
    /\ up
    /\ \/ CatalogStep(c) /\ UNCHANGED backupVars
       \/ BackupStep(c) /\ UNCHANGED <<settingsVars, catalogVars>>
    /\ UNCHANGED events

Time == up /\ Tick /\ UNCHANGED <<settingsVars, catalogVars, events>>

(* The bounds are reached. *)
Rest ==
    /\ up /\ events = MaxEvents /\ \A c \in Callers : pc[c] = "idle"
    /\ UNCHANGED vars

Next == Start \/ Crash \/ Request \/ (\E c \in Callers : Step(c)) \/ Time \/ Rest

Spec == Init /\ [][Next]_vars

-----------------------------------------------------------------------------
(* "Loads, caches and atomically saves the settings file": whatever fails or  *)
(* dies while the settings are saved, the server has the settings it answered *)
(* with last, or those it was about to save, with what the environment adds.  *)
SettingsSurvive == up => \E s \in promised : cache \in {s, Overridden(s)}

(* A key deleted while the credential store answered is used by nobody, now   *)
(* or after a restart, until it is entered again: of the places that may      *)
(* hold an older key, none still does.                                        *)
DeletedIsGone ==
    /\ {keyring, keyFile} \cap deleted = {}
    /\ Live(clients) \cap Remote # {} => inUse \notin deleted

(* "Replace this provider's rows": a refresh during which no other runs       *)
(* leaves every provider that answered with exactly what it listed, and every *)
(* other with what it had, whatever is configured meanwhile.                  *)
RefreshIsExact ==
    \A c \in Callers :
        pc[c] = "stamping" /\ job[c].alone =>
            \A p \in Providers :
                rows[p] = IF p \in DOMAIN job[c].listed THEN job[c].listed[p] ELSE job[c].had[p]

(* "Backs up the database, the settings ...": a backup that is reported, and  *)
(* the only one that began in its second, is whole as long as it is there and *)
(* holds the database unless that could not be copied, however many others    *)
(* are written at the same time.                                              *)
Complete(archive) == archive.whole /\ (archive.copied => archive.db)

ApartIsWhole ==
    \A n \in reported \cap DOMAIN archives : begun[n[1]] = 1 => Complete(archives[n])
=============================================================================
