----------------------------- MODULE ServerProofs -----------------------------
(***************************************************************************)
(* What TLAPS proves about Server: for any providers, settings, keys,      *)
(* labels and numbers of coroutines, and however long the server runs.     *)
(***************************************************************************)
EXTENDS Server, TLAPS

-----------------------------------------------------------------------------
(* The settings: what a start would find is promised at every moment. *)
SettingsInv ==
    /\ Found \in promised
    /\ SettingsSurvive

(* What leaves the settings alone leaves what is said of them alone. *)
LEMMA SettingsStay ==
  ASSUME SettingsInv, UNCHANGED settingsVars
  PROVE  SettingsInv'
BY DEF SettingsInv, SettingsSurvive, settingsVars, Found

(* Every way the settings are changed. *)
LEMMA SettingsWritten ==
  ASSUME SettingsInv, NEW new,
         Saved(new) \/ NotSaved(new) \/ DiedSaving(new)
  PROVE  SettingsInv'
BY DEF SettingsInv, SettingsSurvive, Found, Saved, NotSaved, DiedSaving, CutShort, InFile

LEMMA SettingsInvStep == SettingsInv /\ [Next]_vars => SettingsInv'
<1> SUFFICES ASSUME SettingsInv, [Next]_vars PROVE SettingsInv'
  OBVIOUS
<1>1. CASE Start
  BY <1>1 DEF Start, Load, SettingsInv, SettingsSurvive, Found
<1>2. CASE Crash
  BY <1>2 DEF Crash, SettingsInv, SettingsSurvive, Found
<1>3. CASE ChangeSettings
  BY <1>3, SettingsWritten DEF ChangeSettings
<1>4. CASE ResetSettings
  <2>1. CASE SavedAndReloaded
    BY <2>1 DEF SavedAndReloaded, SettingsInv, SettingsSurvive, Found, InFile
  <2> QED
    BY <1>4, <2>1, SettingsWritten DEF ResetSettings
<1>5. CASE ChangeKey
  BY <1>5 DEF ChangeKey, SettingsInv, SettingsSurvive, Found
<1>6. ASSUME NEW c \in Callers, Call(c) PROVE SettingsInv'
  BY <1>6, SettingsStay DEF Call, BeginRefresh, BeginStatuses
<1>7. ASSUME NEW c \in Callers, Step(c) PROVE SettingsInv'
  BY <1>7, SettingsStay
  DEF Step, CatalogStep, Check, Answer, DeleteRows, InsertRows, Stamp, Probe
<1>8. CASE Time \/ Rest \/ UNCHANGED vars
  BY <1>8, SettingsStay DEF Time, Rest, vars
<1> QED
  BY <1>1, <1>2, <1>3, <1>4, <1>5, <1>6, <1>7, <1>8 DEF Next, Request

(* core/config.py, SettingsStore.save and load: whatever fails or dies while *)
(* the settings are saved, and however often, the server has the settings it *)
(* answered with last, or those it was about to save.                        *)
THEOREM SettingsAlwaysSurvive == Spec => []SettingsSurvive
<1>1. Init => SettingsInv
  BY DEF Init, SettingsInit, SettingsInv, SettingsSurvive
<1>2. SettingsInv => SettingsSurvive
  BY DEF SettingsInv
<1> QED
  BY <1>1, <1>2, SettingsInvStep, PTL DEF Spec

-----------------------------------------------------------------------------
(* The key: nobody has a deleted key, whether they use it or not. *)
KeysInv ==
    /\ {keyring, keyFile} \subseteq Keys \cup {NoKey}
    /\ deleted \subseteq Keys
    /\ {keyring, keyFile} \cap deleted = {}
    /\ inUse \notin deleted

(* What the clients are given is a key that is stored, or the environment's. *)
LEMMA ConfiguredKey ==
  ASSUME NEW s, Configure(s)
  PROVE  inUse' \in {keyring', keyFile', EnvironmentKey}
BY DEF Configure, Get

LEMMA KeysStay ==
  ASSUME KeysInv, UNCHANGED <<keyring, keyFile, deleted>>,
         UNCHANGED inUse \/ \E s : Configure(s)
  PROVE  KeysInv'
BY ConfiguredKey, SettingsAssumption DEF KeysInv

LEMMA KeysInvStep == KeysInv /\ [Next]_vars => KeysInv'
<1> SUFFICES ASSUME KeysInv, [Next]_vars PROVE KeysInv'
  OBVIOUS
<1>1. CASE Start
  BY <1>1, KeysStay DEF Start
<1>2. CASE Crash
  BY <1>2, KeysStay DEF Crash, Down
<1>3. CASE ChangeSettings \/ ResetSettings
  <2>1. WhenNotSaved \/ Down => UNCHANGED inUse
    BY DEF WhenNotSaved, Down, catalogVars
  <2>2. ASSUME NEW s, WhenSaved(s) PROVE \E t : Configure(t)
    BY <2>2 DEF WhenSaved
  <2> QED
    BY <1>3, <2>1, <2>2, KeysStay DEF ChangeSettings, ResetSettings
<1>4. CASE ChangeKey
  <2>1. inUse' \in {keyring', keyFile', EnvironmentKey}
    BY <1>4, ConfiguredKey DEF ChangeKey
  <2>2. ASSUME NEW works \in BOOLEAN, DeleteKey(works) PROVE KeysInv'
    BY <2>1, <2>2, SettingsAssumption DEF DeleteKey, KeysInv
  <2>3. ASSUME NEW works \in BOOLEAN, NEW k \in Keys, SetKey(k, works) PROVE KeysInv'
    BY <2>1, <2>3, SettingsAssumption DEF SetKey, KeysInv
  <2> QED
    BY <1>4, <2>2, <2>3 DEF ChangeKey
<1>5. ASSUME NEW c \in Callers, Call(c) PROVE KeysInv'
  BY <1>5, KeysStay DEF Call, BeginRefresh, BeginStatuses, settingsVars, catalogVars
<1>6. ASSUME NEW c \in Callers, Step(c) PROVE KeysInv'
  BY <1>6, KeysStay
  DEF Step, CatalogStep, Check, Answer, DeleteRows, InsertRows, Stamp, Probe, settingsVars,
      catalogVars
<1>7. CASE Time \/ Rest \/ UNCHANGED vars
  BY <1>7, KeysStay DEF Time, Rest, vars, settingsVars, catalogVars
<1> QED
  BY <1>1, <1>2, <1>3, <1>4, <1>5, <1>6, <1>7 DEF Next, Request

(* core/secrets.py and apply_settings: a key deleted while the credential store *)
(* answered is in none of its places and in no client, until it is entered      *)
(* again, whatever the store answers later.                                     *)
THEOREM DeletedStaysGone == Spec => []DeletedIsGone
<1>1. Init => KeysInv
  BY SettingsAssumption DEF Init, SettingsInit, CatalogInit, KeysInv, Get
<1>2. KeysInv => DeletedIsGone
  BY DEF KeysInv, DeletedIsGone
<1> QED
  BY <1>1, <1>2, KeysInvStep, PTL DEF Spec

-----------------------------------------------------------------------------
(* The coroutines: what each may be doing, and its local variables. *)
Walking == {"checking", "listing", "deleting", "inserting", "stamping"}

Locals ==
    {"kind", "offline", "enabled", "at", "size", "provider", "models", "listed", "had", "alone"}

(* Who walks over the clients to refresh, and nobody else, is a refresher. *)
Fits(place, locals) ==
    /\ place \in Walking <=> locals.kind \in {"refresh", "startup"}
    /\ place \in Walking => DOMAIN locals = Locals
    /\ place = "probing" => locals.kind = "statuses"
    /\ place \in {"probing", "copying"} => "kind" \in DOMAIN locals

(* What the table holds during a refresh that nobody disturbs. *)
Exact(table, place, locals) ==
    \A p \in Providers :
        table[p] = IF place = "inserting" /\ p = locals.provider THEN {}
                   ELSE IF p \in DOMAIN locals.listed THEN locals.listed[p] ELSE locals.had[p]

Undisturbed(c) == pc[c] \in Walking /\ job[c].alone

RefreshInv ==
    /\ DOMAIN rows = Providers
    /\ DOMAIN pc = Callers /\ DOMAIN job = Callers
    /\ \A c \in Callers : Fits(pc[c], job[c])
    /\ \A c \in Callers : Undisturbed(c) =>
          /\ \A d \in Callers : pc[d] \in Walking => d = c
          /\ Exact(rows, pc[c], job[c])

LEMMA RefreshersWalk ==
  ASSUME RefreshInv
  PROVE  Refreshers = {d \in Callers : pc[d] \in Walking}
BY DEF RefreshInv, Refreshers, Fits

(* One more step of a coroutine that refreshes: alone, it keeps what it says. *)
LEMMA WalkKeeps ==
  ASSUME RefreshInv, NEW c \in Callers, pc[c] \in Walking,
         NEW there, Goto(c, there), Fits(there.place, there.locals),
         DOMAIN rows' = Providers,
         there.place \in Walking /\ there.locals.alone =>
             job[c].alone /\ Exact(rows', there.place, there.locals)
  PROVE  RefreshInv'
BY DEF RefreshInv, Goto, Undisturbed, Exact

(* A step of a coroutine that does not refresh and does not touch the table. *)
LEMMA OthersKeep ==
  ASSUME RefreshInv, NEW c \in Callers, pc[c] \notin Walking,
         NEW there, Goto(c, there), Fits(there.place, there.locals),
         there.place \notin Walking,
         UNCHANGED rows
  PROVE  RefreshInv'
BY DEF RefreshInv, Goto, Undisturbed

(* A refresh begins: it is alone only if there was no other. *)
LEMMA JoiningKeeps ==
  ASSUME RefreshInv, NEW c \in Callers,
         NEW there, Joining(c, there), Fits(there.place, there.locals),
         UNCHANGED rows,
         there.place \in Walking /\ there.locals.alone =>
             Refreshers = {} /\ Exact(rows, there.place, there.locals)
  PROVE  RefreshInv'
<1>1. \A d \in Callers : d # c => pc'[d] = pc[d]
  BY DEF Joining, RefreshInv
<1>2. \A d \in Callers : d # c /\ pc[d] \in Walking => job'[d] = [job[d] EXCEPT !.alone = FALSE]
  BY RefreshersWalk DEF Joining
<1>3. \A d \in Callers : d # c /\ pc[d] \notin Walking => job'[d] = job[d]
  BY RefreshersWalk DEF Joining
<1>4. pc'[c] = there.place /\ job'[c] = there.locals
  BY DEF Joining, RefreshInv
<1>5. \A d \in Callers : Fits(pc[d], job[d])
  BY DEF RefreshInv
<1>6. ASSUME NEW d \in Callers, d # c, pc[d] \in Walking
      PROVE  Fits(pc'[d], job'[d]) /\ job'[d].alone = FALSE
  BY <1>1, <1>2, <1>5, <1>6 DEF Fits, Locals, Walking
<1>7. \A d \in Callers : Fits(pc'[d], job'[d])
  BY <1>1, <1>3, <1>4, <1>5, <1>6
<1>8. ASSUME NEW d \in Callers, Undisturbed(d)'
      PROVE  /\ \A e \in Callers : pc'[e] \in Walking => e = d
             /\ Exact(rows', pc'[d], job'[d])
  <2>1. d = c
    BY <1>1, <1>6, <1>8 DEF Undisturbed
  <2> QED
    BY <1>1, <1>4, <1>8, <2>1, RefreshersWalk DEF Undisturbed
<1> QED
  BY <1>7, <1>8 DEF RefreshInv, Joining

(* The walk goes to the next provider, to its end, or breaks off. *)
LEMMA NextProviderFits ==
  ASSUME NEW entries, NEW j, DOMAIN j = Locals, j.kind \in {"refresh", "startup"}
  PROVE  LET there == NextProvider(entries, j)
         IN  /\ Fits(there.place, there.locals)
             /\ there.place \in Walking =>
                   /\ there.place # "inserting"
                   /\ there.locals.listed = j.listed
                   /\ there.locals.had = j.had
                   /\ there.locals.alone = j.alone
<1> DEFINE there == NextProvider(entries, j)
<1>1. CASE there = Over(j.kind)
  BY <1>1 DEF Over, At, Ended, NoJob, Fits, Walking
<1>2. CASE there = At("stamping", j)
  BY <1>2 DEF At, Fits, Walking
<1>3. ASSUME NEW i, there = At("listing", [j EXCEPT !.at = i, !.provider = entries[i]])
      PROVE  /\ Fits(there.place, there.locals)
             /\ there.place # "inserting"
             /\ there.locals.listed = j.listed
             /\ there.locals.had = j.had
             /\ there.locals.alone = j.alone
  <2> DEFINE k == [j EXCEPT !.at = i, !.provider = entries[i]]
  <2>1. DOMAIN k = Locals
    OBVIOUS
  <2>2. k.kind = j.kind /\ k.listed = j.listed /\ k.had = j.had /\ k.alone = j.alone
    BY DEF Locals
  <2>3. there.place = "listing" /\ there.locals = k
    BY <1>3 DEF At
  <2> HIDE DEF k, there
  <2> QED
    BY <2>1, <2>2, <2>3 DEF Fits, Walking
<1> QED
  BY <1>1, <1>2, <1>3 DEF NextProvider

LEMMA RefreshStays ==
  ASSUME RefreshInv, UNCHANGED <<pc, job, rows>>
  PROVE  RefreshInv'
BY DEF RefreshInv, Undisturbed, Exact

(* The process ends: nobody refreshes any more. *)
LEMMA DownKeeps ==
  ASSUME RefreshInv, Down
  PROVE  RefreshInv'
<1>1. \A c \in Callers : pc'[c] = "idle" /\ job'[c] = NoJob
  BY DEF Down
<1>2. DOMAIN rows' = Providers
  BY DEF Down, RefreshInv
<1> QED
  BY <1>1, <1>2 DEF RefreshInv, Undisturbed, Fits, NoJob, Walking, Down

(* A refresh begins with all its variables, and with the table as it is. *)
LEMMA RefresherFits ==
  ASSUME NEW kind \in {"refresh", "startup"}, NEW s
  PROVE  LET j == Refresher(kind, s)
         IN  /\ DOMAIN j = Locals
             /\ j.kind = kind /\ j.had = rows /\ j.listed = <<>>
             /\ j.alone => Refreshers = {}
BY DEF Refresher, Locals

LEMMA BeginRefreshKeeps ==
  ASSUME RefreshInv, NEW c \in Callers, BeginRefresh(c)
  PROVE  RefreshInv'
<1> DEFINE j == Refresher("refresh", cache)
           k == [j EXCEPT !.size = Cardinality(Live(clients'))]
           first == FirstProvider(clients', j)
<1>1. /\ DOMAIN j = Locals
      /\ j.kind = "refresh" /\ j.had = rows /\ j.listed = <<>>
      /\ j.alone => Refreshers = {}
  BY RefresherFits
<1>2. UNCHANGED rows
  BY DEF BeginRefresh
<1> HIDE DEF j
<1>3. CASE Joining(c, At("checking", j))
  <2>1. Fits("checking", j) /\ Exact(rows, "checking", j)
    BY <1>1 DEF Fits, Walking, Exact
  <2> QED
    BY <1>1, <1>2, <1>3, <2>1, JoiningKeeps DEF At
<1>4. CASE Joining(c, first)
  <2>1. /\ DOMAIN k = Locals /\ k.kind = j.kind /\ k.listed = j.listed /\ k.had = j.had
        /\ k.alone = j.alone
    BY <1>1 DEF Locals
  <2>2. first = NextProvider(clients', k)
    BY DEF FirstProvider
  <2> HIDE DEF k
  <2>3. /\ Fits(first.place, first.locals)
        /\ first.place \in Walking =>
              /\ first.place # "inserting" /\ first.locals.listed = <<>>
              /\ first.locals.had = rows /\ first.locals.alone = j.alone
    BY <1>1, <2>1, <2>2, NextProviderFits
  <2> HIDE DEF first
  <2>4. first.place \in Walking => Exact(rows, first.place, first.locals)
    BY <2>3 DEF Exact
  <2> QED
    BY <1>1, <1>2, <1>4, <2>3, <2>4, JoiningKeeps
<1> QED
  BY <1>3, <1>4 DEF BeginRefresh, j, first

(* The walk of provider_statuses is no refresh. *)
LEMMA NextStatusFits ==
  ASSUME NEW entries, NEW j, j.kind = "statuses", "kind" \in DOMAIN j
  PROVE  LET there == NextStatus(entries, j)
         IN  Fits(there.place, there.locals) /\ there.place \notin Walking
<1> DEFINE k == [j EXCEPT !.at = FirstOf(Ahead(entries, j.at))]
<1>1. k.kind = "statuses" /\ "kind" \in DOMAIN k
  OBVIOUS
<1> HIDE DEF k
<1>2. NextStatus(entries, j) \in {Ended, At("probing", k)}
  BY DEF NextStatus, k
<1> QED
  BY <1>1, <1>2 DEF Ended, At, NoJob, Fits, Walking

LEMMA RefreshCallKeeps ==
  ASSUME RefreshInv, NEW c \in Callers, Call(c)
  PROVE  RefreshInv'
<1>1. CASE BeginRefresh(c)
  BY <1>1, BeginRefreshKeeps
<1>2. CASE BeginStatuses(c)
  <2> DEFINE there == NextStatus(clients', Walker(clients'))
  <2>1. Fits(there.place, there.locals) /\ there.place \notin Walking
    BY NextStatusFits DEF Walker
  <2>2. Goto(c, there) /\ UNCHANGED rows /\ pc[c] \notin Walking
    BY <1>2 DEF BeginStatuses, Call, Walking
  <2> HIDE DEF there
  <2> QED
    BY <2>1, <2>2, OthersKeep
<1>3. ASSUME NEW label, BeginBackup(c, label), UNCHANGED catalogVars PROVE RefreshInv'
  BY <1>3, OthersKeep DEF BeginBackup, Call, At, Fits, Walking, catalogVars
<1> QED
  BY <1>1, <1>2, <1>3 DEF Call

LEMMA CheckKeeps ==
  ASSUME RefreshInv, NEW c \in Callers, Check(c)
  PROVE  RefreshInv'
<1> DEFINE j == job[c]
           k == [j EXCEPT !.size = Cardinality(Live(clients'))]
           first == FirstProvider(clients', j)
<1>1. /\ pc[c] = "checking" /\ pc[c] \in Walking /\ UNCHANGED rows
      /\ DOMAIN j = Locals /\ j.kind \in {"refresh", "startup"}
      /\ DOMAIN rows' = Providers
  BY DEF Check, RefreshInv, Fits, Walking
<1>2. CASE Goto(c, Over(j.kind))
  BY <1>1, <1>2, WalkKeeps DEF Over, At, Ended, NoJob, Fits, Walking
<1>3. CASE Goto(c, first)
  <2>1. /\ DOMAIN k = Locals /\ k.kind = j.kind /\ k.listed = j.listed /\ k.had = j.had
        /\ k.alone = j.alone
    BY <1>1 DEF Locals
  <2>2. first = NextProvider(clients', k)
    BY DEF FirstProvider
  <2> HIDE DEF k
  <2>3. /\ Fits(first.place, first.locals)
        /\ first.place \in Walking =>
              /\ first.place # "inserting" /\ first.locals.listed = j.listed
              /\ first.locals.had = j.had /\ first.locals.alone = j.alone
    BY <1>1, <2>1, <2>2, NextProviderFits
  <2> HIDE DEF first
  <2>4. ASSUME first.place \in Walking, j.alone PROVE Exact(rows', first.place, first.locals)
    <3>1. Exact(rows, "checking", j)
      BY <1>1, <2>3, <2>4 DEF RefreshInv, Undisturbed
    <3> QED
      BY <1>1, <2>3, <2>4, <3>1 DEF Exact
  <2> QED
    BY <1>1, <1>3, <2>3, <2>4, WalkKeeps
<1> QED
  BY <1>2, <1>3 DEF Check

(* The walk goes on after rows of one provider have been replaced, or not. *)
LEMMA GoesOnKeeps ==
  ASSUME RefreshInv, NEW c \in Callers, pc[c] \in Walking,
         NEW j, DOMAIN j = Locals, j.kind \in {"refresh", "startup"},
         Goto(c, NextProvider(clients, j)), DOMAIN rows' = Providers,
         j.alone => job[c].alone /\ Exact(rows', "stamping", j)
  PROVE  RefreshInv'
<1> DEFINE there == NextProvider(clients, j)
<1>1. /\ Fits(there.place, there.locals)
      /\ there.place \in Walking =>
            /\ there.place # "inserting" /\ there.locals.listed = j.listed
            /\ there.locals.had = j.had /\ there.locals.alone = j.alone
  BY NextProviderFits
<1> HIDE DEF there
<1>2. ASSUME there.place \in Walking, j.alone PROVE Exact(rows', there.place, there.locals)
  BY <1>1, <1>2 DEF Exact
<1> QED
  BY <1>1, <1>2, WalkKeeps DEF there

LEMMA AnswerKeeps ==
  ASSUME RefreshInv, NEW c \in Callers, Answer(c)
  PROVE  RefreshInv'
<1> DEFINE j == job[c]
<1>1. /\ pc[c] = "listing" /\ pc[c] \in Walking
      /\ DOMAIN j = Locals /\ j.kind \in {"refresh", "startup"}
      /\ UNCHANGED rows /\ DOMAIN rows' = Providers
  BY DEF Answer, NoAnswer, RefreshInv, Fits, Walking
<1>2. j.alone => Exact(rows', "stamping", j)
  BY <1>1 DEF RefreshInv, Undisturbed, Exact
<1>3. CASE Goto(c, NextProvider(clients, j))
  BY <1>1, <1>2, <1>3, GoesOnKeeps
<1>4. ASSUME NEW models, Goto(c, At("deleting", [j EXCEPT !.models = models])) PROVE RefreshInv'
  <2> DEFINE k == [j EXCEPT !.models = models]
  <2>1. /\ DOMAIN k = Locals /\ k.kind = j.kind /\ k.listed = j.listed /\ k.had = j.had
        /\ k.alone = j.alone
    BY <1>1 DEF Locals
  <2> HIDE DEF k
  <2>2. Fits("deleting", k) /\ (k.alone => j.alone /\ Exact(rows', "deleting", k))
    BY <1>1, <1>2, <2>1 DEF Fits, Walking, Exact
  <2> QED
    BY <1>1, <1>4, <2>2, WalkKeeps DEF At, k
<1> QED
  BY <1>3, <1>4 DEF Answer

(* What is filed as listed is what the table now holds of this provider. *)
LEMMA StoredExactly ==
  ASSUME RefreshInv, NEW c \in Callers, pc[c] \in Walking
  PROVE  LET j == job[c]
             k == Stored(c)
         IN  /\ DOMAIN k = Locals /\ k.kind \in {"refresh", "startup"} /\ k.had = j.had
             /\ k.alone = j.alone
             /\ DOMAIN k.listed = DOMAIN j.listed \cup {j.provider}
             /\ k.listed[j.provider] = j.models
             /\ \A q \in DOMAIN j.listed : q # j.provider => k.listed[q] = j.listed[q]
<1>1. DOMAIN job[c] = Locals /\ job[c].kind \in {"refresh", "startup"}
  BY DEF RefreshInv, Fits
<1> QED
  BY <1>1 DEF Stored, Locals

LEMMA DeleteRowsKeeps ==
  ASSUME RefreshInv, NEW c \in Callers, DeleteRows(c)
  PROVE  RefreshInv'
<1> DEFINE j == job[c]
           k == Stored(c)
<1>1. /\ pc[c] = "deleting" /\ pc[c] \in Walking
      /\ DOMAIN j = Locals /\ j.kind \in {"refresh", "startup"}
      /\ rows' = [rows EXCEPT ![j.provider] = {}] /\ DOMAIN rows' = Providers
  BY DEF DeleteRows, RefreshInv, Fits, Walking
<1>2. j.alone => Exact(rows, "deleting", j)
  BY <1>1 DEF RefreshInv, Undisturbed
<1>3. CASE j.models = {}
  <2>1. /\ DOMAIN k = Locals /\ k.kind \in {"refresh", "startup"} /\ k.had = j.had
        /\ k.alone = j.alone
        /\ DOMAIN k.listed = DOMAIN j.listed \cup {j.provider}
        /\ k.listed[j.provider] = j.models
        /\ \A q \in DOMAIN j.listed : q # j.provider => k.listed[q] = j.listed[q]
    BY <1>1, StoredExactly
  <2>2. Goto(c, NextProvider(clients, k))
    BY <1>3 DEF DeleteRows
  <2> HIDE DEF k
  <2>3. k.alone => j.alone /\ Exact(rows', "stamping", k)
    <3>1. SUFFICES ASSUME j.alone, NEW q \in Providers
                   PROVE  rows'[q] = IF q \in DOMAIN k.listed THEN k.listed[q] ELSE k.had[q]
      BY <2>1 DEF Exact
    <3>2. rows[q] = IF q \in DOMAIN j.listed THEN j.listed[q] ELSE j.had[q]
      BY <1>2, <3>1 DEF Exact
    <3>3. CASE q = j.provider
      BY <1>1, <1>3, <2>1, <3>3
    <3>4. CASE q # j.provider
      BY <1>1, <2>1, <3>2, <3>4
    <3> QED
      BY <3>3, <3>4
  <2> QED
    BY <1>1, <2>1, <2>2, <2>3, GoesOnKeeps, ZenonT(40)
<1>4. CASE j.models # {}
  <2>1. Goto(c, At("inserting", j))
    BY <1>4 DEF DeleteRows
  <2>2. j.alone => Exact(rows', "inserting", j)
    BY <1>1, <1>2 DEF Exact
  <2> QED
    BY <1>1, <2>1, <2>2, WalkKeeps DEF At, Fits, Walking
<1> QED
  BY <1>3, <1>4

LEMMA InsertRowsKeeps ==
  ASSUME RefreshInv, NEW c \in Callers, InsertRows(c)
  PROVE  RefreshInv'
<1> DEFINE j == job[c]
           k == Stored(c)
           p == j.provider
<1>1. /\ pc[c] = "inserting" /\ pc[c] \in Walking
      /\ DOMAIN j = Locals /\ j.kind \in {"refresh", "startup"}
      /\ DOMAIN rows' = Providers
  BY DEF InsertRows, RefreshInv, Fits, Walking
<1>2. j.alone => Exact(rows, "inserting", j)
  BY <1>1 DEF RefreshInv, Undisturbed
<1>3. CASE rows[p] \cap j.models = {}
  <2>1. /\ DOMAIN k = Locals /\ k.kind \in {"refresh", "startup"} /\ k.had = j.had
        /\ k.alone = j.alone
        /\ DOMAIN k.listed = DOMAIN j.listed \cup {p}
        /\ k.listed[p] = j.models
        /\ \A q \in DOMAIN j.listed : q # p => k.listed[q] = j.listed[q]
    BY <1>1, StoredExactly
  <2>2. Goto(c, NextProvider(clients, k)) /\ rows' = [rows EXCEPT ![p] = @ \cup j.models]
    BY <1>3 DEF InsertRows
  <2> HIDE DEF k
  <2>3. ASSUME k.alone, NEW q \in Providers
        PROVE  rows'[q] = IF q \in DOMAIN k.listed THEN k.listed[q] ELSE k.had[q]
    <3>1. /\ rows[q] = IF q = p THEN {}
                       ELSE IF q \in DOMAIN j.listed THEN j.listed[q] ELSE j.had[q]
          /\ DOMAIN rows = Providers
      BY <1>2, <2>1, <2>3 DEF Exact, RefreshInv
    <3>2. CASE q = p
      BY <2>1, <2>2, <3>1, <3>2
    <3>3. CASE q # p
      BY <2>1, <2>2, <3>1, <3>3
    <3> QED
      BY <3>2, <3>3
  <2>4. k.alone => j.alone /\ Exact(rows', "stamping", k)
    BY <2>1, <2>3 DEF Exact
  <2> QED
    BY <1>1, <2>1, <2>2, <2>4, GoesOnKeeps
<1>4. CASE ~(rows[p] \cap j.models = {})
  <2>1. Goto(c, Over(j.kind))
    BY <1>4 DEF InsertRows
  <2> QED
    BY <1>1, <2>1, WalkKeeps DEF Over, At, Ended, NoJob, Fits, Walking
<1> QED
  BY <1>3, <1>4

LEMMA RefreshStepKeeps ==
  ASSUME RefreshInv, NEW c \in Callers, Step(c)
  PROVE  RefreshInv'
<1>1. CASE Stamp(c)
  <2>1. /\ pc[c] \in Walking /\ Goto(c, Over(job[c].kind)) /\ DOMAIN rows' = Providers
    BY <1>1 DEF Stamp, RefreshInv, Walking
  <2> QED
    BY <2>1, WalkKeeps DEF Over, At, Ended, NoJob, Fits, Walking
<1>2. CASE Probe(c)
  <2> DEFINE there == NextStatus(clients, job[c])
  <2>1. /\ pc[c] \notin Walking /\ Goto(c, there) /\ UNCHANGED rows
        /\ job[c].kind = "statuses" /\ "kind" \in DOMAIN job[c]
    BY <1>2 DEF Probe, RefreshInv, Fits, Walking, catalogVars
  <2>2. Fits(there.place, there.locals) /\ there.place \notin Walking
    BY <2>1, NextStatusFits
  <2> HIDE DEF there
  <2> QED
    BY <2>1, <2>2, OthersKeep
<1>3. CASE BackupStep(c) /\ UNCHANGED catalogVars
  <2>1. CASE pc[c] = "due"
    BY <2>1, <1>3, OthersKeep
    DEF BackupStep, CheckDue, BeginBackup, Copy, Collect, Open, Close, Finish, At, Ended, NoJob,
        Fits, Walking, catalogVars
  <2>2. CASE pc[c] # "due"
    <3> DEFINE done == [job[c] EXCEPT !.copied = TRUE]
    <3>1. /\ pc[c] \in {"copying", "collecting", "opening", "writing", "finishing"}
          /\ \/ pc[c] = "copying" /\ Goto(c, At("collecting", done))
             \/ \E place \in {"collecting", "opening", "writing", "finishing"} :
                   Goto(c, At(place, job[c])) \/ Goto(c, Ended)
          /\ UNCHANGED rows
      BY <2>2, <1>3 DEF BackupStep, CheckDue, Copy, Collect, Open, Close, Finish, catalogVars
    <3>2. job[c].kind \notin {"refresh", "startup"} /\ pc[c] \notin Walking
      BY <3>1 DEF RefreshInv, Fits, Walking
    <3>3. pc[c] = "copying" => done.kind = job[c].kind
      BY DEF RefreshInv, Fits
    <3> HIDE DEF done
    <3> QED
      BY <3>1, <3>2, <3>3, OthersKeep DEF At, Ended, NoJob, Fits, Walking
  <2> QED
    BY <2>1, <2>2
<1> QED
  BY <1>1, <1>2, <1>3, CheckKeeps, AnswerKeeps, DeleteRowsKeeps, InsertRowsKeeps
  DEF Step, CatalogStep

LEMMA RefreshInvStep == RefreshInv /\ [Next]_vars => RefreshInv'
<1> SUFFICES ASSUME RefreshInv, [Next]_vars PROVE RefreshInv'
  OBVIOUS
<1>1. CASE Start
  <2>1. /\ Joining(Background, At("checking", Refresher("startup", cache'))) /\ UNCHANGED rows
    BY <1>1 DEF Start
  <2> DEFINE j == Refresher("startup", cache')
  <2>2. /\ DOMAIN j = Locals
        /\ j.kind = "startup" /\ j.had = rows /\ j.listed = <<>>
        /\ j.alone => Refreshers = {}
    BY RefresherFits
  <2> HIDE DEF j
  <2>3. Fits("checking", j) /\ Exact(rows, "checking", j)
    BY <2>2 DEF Fits, Walking, Exact
  <2> QED
    BY <2>1, <2>2, <2>3, CallersAssumption, JoiningKeeps DEF At, j
<1>2. CASE Crash
  BY <1>2, DownKeeps DEF Crash
<1>3. CASE ChangeSettings \/ ResetSettings
  BY <1>3, DownKeeps, RefreshStays
  DEF ChangeSettings, ResetSettings, WhenSaved, WhenNotSaved, catalogVars
<1>4. CASE ChangeKey
  BY <1>4, RefreshStays DEF ChangeKey
<1>5. ASSUME NEW c \in Callers, Call(c) PROVE RefreshInv'
  BY <1>5, RefreshCallKeeps
<1>6. ASSUME NEW c \in Callers, Step(c) PROVE RefreshInv'
  BY <1>6, RefreshStepKeeps
<1>7. CASE Time \/ Rest \/ UNCHANGED vars
  BY <1>7, RefreshStays DEF Time, Tick, Rest, vars, catalogVars
<1> QED
  BY <1>1, <1>2, <1>3, <1>4, <1>5, <1>6, <1>7 DEF Next, Request

LEMMA InitRefreshInv == Init => RefreshInv
BY DEF Init, CatalogInit, RefreshInv, Undisturbed, Fits, NoJob, Walking

(* providers/catalog.py, refresh and _store: whoever configures, asks or begins *)
(* another backup meanwhile, a refresh that no other refresh overlaps ends with *)
(* what was listed, and with what there was of those that did not answer.       *)
THEOREM RefreshAlwaysExact == Spec => []RefreshIsExact
<1>1. RefreshInv => RefreshIsExact
  BY DEF RefreshInv, RefreshIsExact, Undisturbed, Exact, Walking
<1> QED
  BY <1>1, InitRefreshInv, RefreshInvStep, PTL DEF Spec

-----------------------------------------------------------------------------
(* The archives: records of three fields; age has each of their names once. *)
Fields == {"db", "copied", "whole", "by"}

AgesInv ==
    /\ age \in Seq(Names)
    /\ \A i, k \in DOMAIN age : age[i] = age[k] => i = k
    /\ DOMAIN archives = {age[i] : i \in DOMAIN age}
    /\ \A n \in DOMAIN archives : DOMAIN archives[n] = Fields

LEMMA WithoutIsTheRest ==
  ASSUME AgesInv, NEW name \in Names
  PROVE  LET rest == Without(name)
         IN  /\ rest \in Seq(Names)
             /\ \A i, k \in DOMAIN rest : rest[i] = rest[k] => i = k
             /\ {rest[i] : i \in DOMAIN rest} = DOMAIN archives \ {name}
<1> DEFINE rest == Without(name)
<1>1. CASE name \notin DOMAIN archives
  BY <1>1 DEF AgesInv, Without
<1>2. CASE name \in DOMAIN archives
  <2> DEFINE at == CHOOSE i \in DOMAIN age : age[i] = name
             from(i) == IF i < at THEN i ELSE i + 1
             n == Len(age)
  <2>1. at \in DOMAIN age /\ age[at] = name
    BY <1>2 DEF AgesInv
  <2>2. n \in Nat /\ DOMAIN age = 1 .. n /\ n >= 1
    BY <2>1 DEF AgesInv
  <2>3. rest = [i \in 1 .. n - 1 |-> age[from(i)]]
    BY <1>2 DEF Without
  <2> HIDE DEF at, n, rest
  <2>4. \A i \in 1 .. n - 1 : from(i) \in 1 .. n /\ from(i) # at
    BY <2>1, <2>2
  <2>5. \A i, k \in 1 .. n - 1 : from(i) = from(k) => i = k
    BY <2>1, <2>2
  <2>6. \A m \in 1 .. n : m # at => \E i \in 1 .. n - 1 : from(i) = m
    <3> SUFFICES ASSUME NEW m \in 1 .. n, m # at PROVE \E i \in 1 .. n - 1 : from(i) = m
      OBVIOUS
    <3>1. CASE m < at
      <4>1. m \in 1 .. n - 1 /\ from(m) = m
        BY <2>1, <2>2, <3>1
      <4> QED
        BY <4>1
    <3>2. CASE m > at
      <4>1. m - 1 \in 1 .. n - 1 /\ from(m - 1) = m
        BY <2>1, <2>2, <3>2
      <4> QED
        BY <4>1
    <3> QED
      BY <2>1, <2>2, <3>1, <3>2
  <2> HIDE DEF from
  <2>7. \A m \in 1 .. n : age[m] \in Names
    BY <2>2 DEF AgesInv
  <2>8. rest \in Seq(Names) /\ DOMAIN rest = 1 .. n - 1
    BY <2>2, <2>3, <2>4, <2>7
  <2>9. \A i, k \in DOMAIN rest : rest[i] = rest[k] => i = k
    BY <2>2, <2>3, <2>4, <2>5, <2>8 DEF AgesInv
  <2>10. ASSUME NEW x PROVE (\E i \in DOMAIN rest : x = rest[i]) <=> x \in DOMAIN archives \ {name}
    <3>1. ASSUME NEW i \in DOMAIN rest, x = rest[i] PROVE x \in DOMAIN archives \ {name}
      BY <2>1, <2>2, <2>3, <2>4, <2>8, <3>1 DEF AgesInv
    <3>2. ASSUME x \in DOMAIN archives \ {name} PROVE \E i \in DOMAIN rest : x = rest[i]
      <4>1. PICK m \in 1 .. n : x = age[m] /\ m # at
        BY <2>1, <2>2, <3>2 DEF AgesInv
      <4>2. PICK i \in 1 .. n - 1 : from(i) = m
        BY <2>6, <4>1
      <4> QED
        BY <2>3, <2>8, <4>1, <4>2
    <3> QED
      BY <3>1, <3>2
  <2> HIDE DEF rest
  <2> QED
    BY <2>8, <2>9, <2>10 DEF rest
<1> QED
  BY <1>1, <1>2

(* A sequence with one more element in front. *)
LEMMA Prepended ==
  ASSUME NEW S, NEW x \in S, NEW s \in Seq(S)
  PROVE  /\ <<x>> \o s \in Seq(S)
         /\ Len(<<x>> \o s) = Len(s) + 1
         /\ (<<x>> \o s)[1] = x
         /\ \A i \in 1 .. Len(s) : (<<x>> \o s)[i + 1] = s[i]
OBVIOUS

(* An archive is written to: its name comes first. *)
LEMMA WrittenKeepsAges ==
  ASSUME AgesInv, NEW name \in Names, NEW archive, DOMAIN archive = Fields,
         archives' = With(name, archive),
         age' = <<name>> \o Without(name)
  PROVE  AgesInv'
<1> DEFINE rest == Without(name)
<1>1. /\ rest \in Seq(Names)
      /\ \A i, k \in DOMAIN rest : rest[i] = rest[k] => i = k
      /\ {rest[i] : i \in DOMAIN rest} = DOMAIN archives \ {name}
  BY WithoutIsTheRest
<1>2. DOMAIN archives' = DOMAIN archives \cup {name}
  BY DEF With
<1>3. age' = <<name>> \o rest
  OBVIOUS
<1> HIDE DEF rest
<1>4. /\ age' \in Seq(Names) /\ DOMAIN rest = 1 .. Len(rest) /\ Len(rest) \in Nat
      /\ DOMAIN age' = 1 .. Len(rest) + 1
      /\ age'[1] = name
      /\ \A i \in DOMAIN rest : age'[i + 1] = rest[i]
  <2>1. /\ age' \in Seq(Names)
        /\ Len(age') = Len(rest) + 1
        /\ age'[1] = name
        /\ \A i \in 1 .. Len(rest) : age'[i + 1] = rest[i]
    <3>1. rest \in Seq(Names)
      BY <1>1
    <3>2. /\ <<name>> \o rest \in Seq(Names)
          /\ Len(<<name>> \o rest) = Len(rest) + 1
          /\ (<<name>> \o rest)[1] = name
          /\ \A i \in 1 .. Len(rest) : (<<name>> \o rest)[i + 1] = rest[i]
      BY <3>1, Prepended
    <3> QED
      BY <1>3, <3>2
  <2>2. /\ DOMAIN rest = 1 .. Len(rest) /\ Len(rest) \in Nat
        /\ DOMAIN age' = 1 .. Len(age')
    BY <1>1, <2>1
  <2> QED
    BY <2>1, <2>2
<1>5. \A i \in DOMAIN age' : i = 1 \/ (i - 1 \in DOMAIN rest /\ age'[i] = rest[i - 1])
  <2> SUFFICES ASSUME NEW i \in DOMAIN age', i # 1
               PROVE  i - 1 \in DOMAIN rest /\ age'[i] = rest[i - 1]
    OBVIOUS
  <2>1. i - 1 \in DOMAIN rest /\ i = (i - 1) + 1
    BY <1>4
  <2> QED
    BY <1>4, <2>1
<1>6. \A i \in DOMAIN rest : rest[i] # name
  BY <1>1
<1>7. \A i, k \in DOMAIN age' : age'[i] = age'[k] => i = k
  BY <1>1, <1>4, <1>5, <1>6
<1>8. ASSUME NEW x PROVE x \in DOMAIN archives' <=> \E i \in DOMAIN age' : x = age'[i]
  <2>1. CASE x = name
    <3>1. 1 \in DOMAIN age'
      BY <1>4
    <3> QED
      BY <1>2, <1>4, <2>1, <3>1
  <2>2. CASE x # name
    <3>1. x \in DOMAIN archives' <=> \E i \in DOMAIN rest : x = rest[i]
      BY <1>1, <1>2, <2>2
    <3>2. \A i \in DOMAIN rest : i + 1 \in DOMAIN age'
      BY <1>4
    <3> QED
      BY <1>4, <1>5, <2>2, <3>1, <3>2
  <2> QED
    BY <2>1, <2>2
<1>9. DOMAIN archives' = {age'[i] : i \in DOMAIN age'}
  BY <1>8
<1>10. \A n \in DOMAIN archives' : DOMAIN archives'[n] = Fields
  BY DEF With, AgesInv
<1> QED
  BY <1>4, <1>7, <1>9, <1>10 DEF AgesInv

(* The oldest go. *)
LEMMA RotateKeepsAges ==
  ASSUME AgesInv, archives' = [n \in Kept |-> archives[n]], age' = [i \in Stays |-> age[i]]
  PROVE  AgesInv' /\ Kept \subseteq DOMAIN archives
<1>1. Kept \subseteq DOMAIN archives
  BY DEF AgesInv, Kept, Stays
<1>2. PICK k \in Nat : Stays = 1 .. k
  <2>1. Len(age) \in Nat /\ DOMAIN age = 1 .. Len(age) /\ KeepLast \in Nat
    BY BackupAssumption DEF AgesInv
  <2>2. CASE Len(age) <= KeepLast
    BY <2>1, <2>2 DEF Stays
  <2>3. CASE KeepLast < Len(age)
    <3>1. Stays = 1 .. KeepLast
      BY <2>1, <2>3 DEF Stays
    <3> QED
      BY <2>1, <3>1
  <2> QED
    BY <2>1, <2>2, <2>3
<1>3. \A i \in Stays : i \in DOMAIN age /\ age[i] \in Names
  BY DEF Stays, AgesInv
<1>4. age' \in Seq(Names)
  BY <1>2, <1>3
<1>5. DOMAIN age' = Stays /\ \A i \in Stays : age'[i] = age[i]
  OBVIOUS
<1>6. \A i, j \in DOMAIN age' : age'[i] = age'[j] => i = j
  BY <1>3, <1>5 DEF AgesInv
<1>7. DOMAIN archives' = {age'[i] : i \in DOMAIN age'}
  BY <1>5 DEF Kept
<1>8. \A n \in DOMAIN archives' : DOMAIN archives'[n] = Fields
  BY <1>1 DEF AgesInv
<1> QED
  BY <1>1, <1>4, <1>6, <1>7, <1>8 DEF AgesInv

-----------------------------------------------------------------------------
(* The backups: what is under way for a second in which one alone began. *)
BackingUp == {"copying", "collecting", "opening", "writing", "finishing"}

BackupLocals == {"kind", "second", "name", "copied"}

(* A backup, and the only one of its second. *)
Apart(c) == pc[c] \in BackingUp /\ begun[job[c].second] = 1

(* How far it is: its copy is there as long as it needs it, no archive has a *)
(* name of this second but its own, and that one only it writes to.          *)
OnItsWay(c) ==
    /\ \A n \in reported : n[1] # job[c].second
    /\ \A n \in DOMAIN archives : n[1] = job[c].second =>
          /\ n = job[c].name
          /\ \/ pc[c] = "writing" /\ archives[n].by = {c} /\ archives[n].copied = job[c].copied
             \/ pc[c] = "finishing" /\ Complete(archives[n])
    /\ pc[c] = "copying" => ~job[c].copied
    /\ pc[c] \in {"collecting", "opening", "writing"} /\ job[c].copied =>
          job[c].second \in copies

BackupTypes ==
    /\ now \in Seconds
    /\ begun \in [Seconds -> Nat]
    /\ reported \subseteq Names
    /\ DOMAIN pc = Callers /\ DOMAIN job = Callers

BackupInv ==
    /\ BackupTypes
    /\ AgesInv
    /\ \A n \in reported \cup DOMAIN archives : begun[n[1]] >= 1
    /\ \A c \in Callers : pc[c] \in BackingUp =>
          /\ DOMAIN job[c] = BackupLocals
          /\ job[c].name \in Names /\ job[c].second = job[c].name[1]
          /\ begun[job[c].second] >= 1
    /\ \A c, d \in Callers :
          /\ c # d
          /\ pc[c] \in BackingUp /\ pc[d] \in BackingUp
          /\ job[c].second = job[d].second
          => begun[job[c].second] >= 2
    /\ \A c \in Callers : Apart(c) => OnItsWay(c)
    /\ ApartIsWhole

LEMMA ArchivesAreNamed == AgesInv => DOMAIN archives \subseteq Names
BY DEF AgesInv

LEMMA BackupStays ==
  ASSUME BackupInv, UNCHANGED <<backupVars, pc, job>>
  PROVE  BackupInv'
BY DEF BackupInv, BackupTypes, AgesInv, Apart, OnItsWay, ApartIsWhole, backupVars

(* Somebody who makes no backup, before or after, and touches no archive. *)
LEMMA BystanderKeeps ==
  ASSUME BackupInv, NEW c \in Callers, pc[c] \notin BackingUp, pc'[c] \notin BackingUp,
         DOMAIN pc' = Callers, DOMAIN job' = Callers,
         \A d \in Callers : d # c => pc'[d] = pc[d],
         \A d \in Callers : d # c /\ pc[d] \in BackingUp => job'[d] = job[d],
         UNCHANGED backupVars
  PROVE  BackupInv'
<1>1. \A d \in Callers : pc'[d] \in BackingUp <=> pc[d] \in BackingUp
  OBVIOUS
<1>2. \A d \in Callers : pc'[d] \in BackingUp => pc'[d] = pc[d] /\ job'[d] = job[d]
  OBVIOUS
<1>3. BackupTypes' /\ AgesInv' /\ ApartIsWhole'
  BY DEF BackupInv, BackupTypes, AgesInv, ApartIsWhole, backupVars
<1>4. \A d \in Callers : Apart(d)' => Apart(d) /\ (OnItsWay(d) => OnItsWay(d)')
  BY <1>2 DEF Apart, OnItsWay, backupVars
<1> QED
  BY <1>1, <1>2, <1>3, <1>4 DEF BackupInv, backupVars

LEMMA BeginBackupKeeps ==
  ASSUME BackupInv, NEW c \in Callers, pc[c] \notin BackingUp, NEW label \in Labels \cup {"auto"},
         BeginBackup(c, label)
  PROVE  BackupInv'
<1> DEFINE name == <<now, label>>
<1>1. /\ pc' = [pc EXCEPT ![c] = "copying"]
      /\ job' = [job EXCEPT ![c] = [kind |-> "backup", second |-> now, name |-> name,
                                     copied |-> FALSE]]
      /\ begun' = [begun EXCEPT ![now] = @ + 1]
      /\ UNCHANGED <<now, archives, age, copies, reported>>
  BY DEF BeginBackup, Goto, At
<1>2. name \in Names /\ name[1] = now /\ now \in Seconds
  BY DEF BackupInv, BackupTypes, Names
<1> HIDE DEF name
<1>3. /\ pc'[c] = "copying" /\ job'[c].second = now /\ job'[c].name = name
      /\ DOMAIN job'[c] = BackupLocals /\ ~job'[c].copied
      /\ \A d \in Callers : d # c => pc'[d] = pc[d] /\ job'[d] = job[d]
  BY <1>1 DEF BackupInv, BackupTypes, BackupLocals
<1>4. /\ begun' \in [Seconds -> Nat] /\ begun'[now] = begun[now] + 1
      /\ \A s \in Seconds : s # now => begun'[s] = begun[s]
      /\ \A s \in Seconds : begun[s] \in Nat
  BY <1>1, <1>2 DEF BackupInv, BackupTypes
<1>5. \A d \in Callers : pc[d] \in BackingUp => job[d].second \in Seconds
  BY DEF BackupInv, Names
<1>6. \A n \in reported \cup DOMAIN archives : n[1] \in Seconds
  BY ArchivesAreNamed DEF BackupInv, BackupTypes, Names
<1>7. BackupTypes' /\ AgesInv'
  BY <1>1, <1>4 DEF BackupInv, BackupTypes, AgesInv
<1>8. \A n \in reported' \cup DOMAIN archives' : begun'[n[1]] >= 1
  BY <1>1, <1>4, <1>6 DEF BackupInv
<1>9. ASSUME NEW d \in Callers, pc'[d] \in BackingUp
      PROVE  /\ DOMAIN job'[d] = BackupLocals
             /\ job'[d].name \in Names /\ job'[d].second = job'[d].name[1]
             /\ begun'[job'[d].second] >= 1
  BY <1>2, <1>3, <1>4, <1>5, <1>9 DEF BackupInv
<1>10. ASSUME NEW d \in Callers, NEW e \in Callers, d # e,
              pc'[d] \in BackingUp, pc'[e] \in BackingUp,
              job'[d].second = job'[e].second
       PROVE  begun'[job'[d].second] >= 2
  <2>1. CASE d = c \/ e = c
    BY <1>2, <1>3, <1>4, <1>5, <1>10, <2>1 DEF BackupInv
  <2>2. CASE d # c /\ e # c
    BY <1>3, <1>4, <1>5, <1>10, <2>2 DEF BackupInv
  <2> QED
    BY <2>1, <2>2
<1>11. ASSUME NEW d \in Callers, Apart(d)' PROVE OnItsWay(d)'
  <2>1. CASE d = c
    <3>1. begun[now] = 0
      BY <1>2, <1>3, <1>4, <1>11, <2>1 DEF Apart
    <3>2. \A n \in reported \cup DOMAIN archives : n[1] # now
      BY <3>1 DEF BackupInv
    <3> QED
      BY <1>1, <1>3, <2>1, <3>2 DEF OnItsWay
  <2>2. CASE d # c
    <3>1. pc[d] \in BackingUp /\ begun[job[d].second] >= 1
      BY <1>3, <1>11, <2>2 DEF Apart, BackupInv
    <3>2. Apart(d)
      BY <1>3, <1>4, <1>5, <1>11, <2>2, <3>1 DEF Apart
    <3> QED
      BY <1>1, <1>3, <2>2, <3>2 DEF BackupInv, OnItsWay
  <2> QED
    BY <2>1, <2>2
<1>12. ApartIsWhole'
  <2> SUFFICES ASSUME NEW n \in reported \cap DOMAIN archives, begun'[n[1]] = 1
               PROVE  Complete(archives[n])
    BY <1>1 DEF ApartIsWhole, Complete
  <2>1. begun[n[1]] >= 1
    BY DEF BackupInv
  <2>2. begun[n[1]] = 1
    BY <1>4, <1>6, <2>1
  <2> QED
    BY <2>2 DEF BackupInv, ApartIsWhole
<1> QED
  BY <1>7, <1>8, <1>9, <1>10, <1>11, <1>12 DEF BackupInv

(* A backup goes on, or ends: it touches what has its own name or second, *)
(* which is nothing of another one that is alone in its second.           *)
LEMMA BackupMoves ==
  ASSUME BackupInv, NEW c \in Callers, pc[c] \in BackingUp,
         NEW place, NEW locals, Goto(c, At(place, locals)),
         place \in BackingUp =>
             /\ DOMAIN locals = BackupLocals
             /\ locals.name = job[c].name /\ locals.second = job[c].second,
         UNCHANGED <<now, begun>>,
         reported' \subseteq reported \cup {job[c].name},
         AgesInv',
         \A n \in DOMAIN archives' :
             n # job[c].name => n \in DOMAIN archives /\ archives'[n] = archives[n],
         copies \ {job[c].second} \subseteq copies',
         Apart(c) /\ place \in BackingUp => OnItsWay(c)',
         Apart(c) /\ job[c].name \in reported' \cap DOMAIN archives' =>
             Complete(archives'[job[c].name])
  PROVE  BackupInv'
<1>1. /\ pc'[c] = place /\ job'[c] = locals
      /\ DOMAIN pc' = Callers /\ DOMAIN job' = Callers
      /\ \A d \in Callers : d # c => pc'[d] = pc[d] /\ job'[d] = job[d]
  BY DEF Goto, At, BackupInv, BackupTypes
<1>2. job[c].name \in Names /\ job[c].second = job[c].name[1] /\ begun[job[c].second] >= 1
  BY DEF BackupInv
<1>3. BackupTypes'
  BY <1>1, <1>2 DEF BackupInv, BackupTypes
<1>4. \A n \in reported' \cup DOMAIN archives' : begun'[n[1]] >= 1
  BY <1>2 DEF BackupInv
<1>5. \A d \in Callers : pc'[d] \in BackingUp =>
          /\ pc[d] \in BackingUp /\ DOMAIN job'[d] = BackupLocals
          /\ job'[d].name = job[d].name /\ job'[d].second = job[d].second
  BY <1>1 DEF BackupInv
<1>6. \A d \in Callers : Apart(d)' => Apart(d)
  BY <1>5 DEF Apart
<1>7. ASSUME NEW d \in Callers, Apart(d)' PROVE OnItsWay(d)'
  <2>1. Apart(d) /\ OnItsWay(d)
    BY <1>6, <1>7 DEF BackupInv
  <2>2. CASE d = c
    BY <1>1, <1>7, <2>1, <2>2 DEF Apart
  <2>3. CASE d # c
    <3>1. pc'[d] = pc[d] /\ job'[d] = job[d] /\ pc[d] \in BackingUp /\ begun[job[d].second] = 1
      BY <1>1, <2>1, <2>3 DEF Apart
    <3>2. job[c].second # job[d].second
      BY <2>3, <3>1 DEF BackupInv
    <3>3. \A n \in reported' : n[1] # job[d].second
      BY <1>2, <2>1, <3>2 DEF OnItsWay
    <3>4. \A n \in DOMAIN archives' : n[1] = job[d].second =>
              n \in DOMAIN archives /\ archives'[n] = archives[n]
      BY <1>2, <3>2
    <3>5. job[d].second \in copies => job[d].second \in copies'
      BY <3>2
    <3> QED
      BY <2>1, <3>1, <3>3, <3>4, <3>5 DEF OnItsWay
  <2> QED
    BY <2>2, <2>3
<1>8. ASSUME NEW n \in reported' \cap DOMAIN archives', begun'[n[1]] = 1
      PROVE  Complete(archives'[n])
  <2>1. CASE n = job[c].name
    BY <1>2, <1>8, <2>1 DEF Apart
  <2>2. CASE n # job[c].name
    BY <1>8, <2>2 DEF BackupInv, ApartIsWhole
  <2> QED
    BY <2>1, <2>2
<1>9. ApartIsWhole'
  BY <1>8 DEF ApartIsWhole
<1> QED
  BY <1>3, <1>4, <1>5, <1>7, <1>9 DEF BackupInv

LEMMA CopyKeeps ==
  ASSUME BackupInv, NEW c \in Callers, Copy(c) \/ Collect(c)
  PROVE  BackupInv'
<1>1. pc[c] \in {"copying", "collecting"} /\ UNCHANGED <<now, archives, age, begun, reported>>
  BY DEF Copy, Collect, backupVars
<1>2. PICK place, locals :
        /\ place \in {"collecting", "opening"}
        /\ Goto(c, At(place, locals))
        /\ DOMAIN locals = BackupLocals
        /\ locals.name = job[c].name /\ locals.second = job[c].second
        /\ \/ pc[c] = "copying" /\ locals.copied /\ copies' = copies \cup {job[c].second}
           \/ pc[c] = "copying" /\ locals = job[c] /\ copies \ {job[c].second} \subseteq copies'
           \/ pc[c] = "collecting" /\ locals = job[c] /\ copies' = copies
  <2>1. DOMAIN job[c] = BackupLocals
    BY <1>1 DEF BackupInv, BackingUp
  <2>2. CASE Collect(c)
    BY <2>1, <2>2 DEF Collect, backupVars
  <2> DEFINE done == [job[c] EXCEPT !.copied = TRUE]
  <2>3. /\ DOMAIN done = BackupLocals /\ done.copied
        /\ done.name = job[c].name /\ done.second = job[c].second
    BY <2>1 DEF BackupLocals
  <2>4. CASE /\ pc[c] = "copying" /\ copies' = copies \cup {CopyName(job[c].second)}
             /\ Goto(c, At("collecting", done))
    <3> HIDE DEF done
    <3> QED
      BY <2>3, <2>4 DEF CopyName
  <2>5. CASE /\ pc[c] = "copying" /\ copies' \in {copies, copies \ {CopyName(job[c].second)}}
             /\ Goto(c, At("collecting", job[c]))
    BY <2>1, <2>5 DEF CopyName
  <2> QED
    BY <2>2, <2>4, <2>5 DEF Copy
<1>3. pc[c] \in BackingUp /\ pc'[c] = place /\ job'[c] = locals
  BY <1>1, <1>2 DEF Goto, At, BackupInv, BackupTypes, BackingUp
<1>4. AgesInv'
  BY <1>1 DEF BackupInv, AgesInv
<1>5. Apart(c) => OnItsWay(c)'
  <2> SUFFICES ASSUME Apart(c) PROVE OnItsWay(c)'
    OBVIOUS
  <2>1. OnItsWay(c)
    BY DEF BackupInv
  <2>2. /\ \A n \in reported' : n[1] # job'[c].second
        /\ \A n \in DOMAIN archives' : n[1] # job'[c].second
    BY <1>1, <1>2, <1>3, <2>1 DEF OnItsWay
  <2>3. job'[c].copied => job'[c].second \in copies'
    BY <1>1, <1>2, <1>3, <2>1 DEF OnItsWay
  <2> QED
    BY <1>2, <1>3, <2>2, <2>3 DEF OnItsWay
<1>6. Apart(c) /\ job[c].name \in reported' \cap DOMAIN archives' =>
          Complete(archives'[job[c].name])
  BY <1>1 DEF BackupInv, ApartIsWhole, Apart
<1> QED
  BY <1>1, <1>2, <1>3, <1>4, <1>5, <1>6, BackupMoves

LEMMA OpenKeeps ==
  ASSUME BackupInv, NEW c \in Callers, Open(c)
  PROVE  BackupInv'
<1> DEFINE name == job[c].name
           second == job[c].second
           new == [db |-> FALSE, copied |-> job[c].copied, whole |-> FALSE,
                   by |-> {c} \cup Writing(name)]
<1>1. /\ pc[c] = "opening" /\ pc[c] \in BackingUp
      /\ archives' = With(name, new) /\ age' = <<name>> \o Without(name)
      /\ Goto(c, At("writing", job[c]))
      /\ UNCHANGED <<now, copies, begun, reported>>
  BY DEF Open, BackingUp
<1>2. name \in Names /\ second = name[1] /\ DOMAIN job[c] = BackupLocals
  BY <1>1 DEF BackupInv
<1>3. AgesInv'
  BY <1>1, <1>2, WrittenKeepsAges DEF BackupInv, Fields
<1> HIDE DEF new
<1>4. /\ archives'[name] = new
      /\ DOMAIN archives' = DOMAIN archives \cup {name}
      /\ \A n \in DOMAIN archives' : n # name => n \in DOMAIN archives /\ archives'[n] = archives[n]
  BY <1>1 DEF With
<1>5. pc'[c] = "writing" /\ job'[c] = job[c]
  BY <1>1 DEF Goto, At, BackupInv, BackupTypes
<1>6. ASSUME Apart(c) PROVE OnItsWay(c)' /\ name \notin reported'
  <2>1. OnItsWay(c)
    BY <1>6 DEF BackupInv
  <2>2. Writing(name) \subseteq {c}
    BY <1>1, <1>2, <1>6 DEF BackupInv, Writing, Apart, BackingUp
  <2>3. archives'[name].by = {c} /\ archives'[name].copied = job[c].copied
    BY <1>4, <2>2 DEF new
  <2>4. \A n \in DOMAIN archives' : n[1] = second => n = name
    BY <1>1, <1>4, <2>1 DEF OnItsWay
  <2> QED
    BY <1>1, <1>2, <1>5, <2>1, <2>3, <2>4 DEF OnItsWay
<1> QED
  BY <1>1, <1>2, <1>3, <1>4, <1>6, BackupMoves

LEMMA CloseKeeps ==
  ASSUME BackupInv, NEW c \in Callers, Close(c)
  PROVE  BackupInv'
<1> DEFINE name == job[c].name
           second == job[c].second
<1>1. pc[c] = "writing" /\ pc[c] \in BackingUp /\ UNCHANGED <<now, begun, reported>>
  BY DEF Close, BackingUp
<1>2. name \in Names /\ second = name[1] /\ AgesInv /\ DOMAIN job[c] = BackupLocals
  BY <1>1 DEF BackupInv
<1>3. Apart(c) => /\ OnItsWay(c) /\ name \notin reported
                  /\ name \in DOMAIN archives => Here(c)
  BY <1>1, <1>2 DEF BackupInv, OnItsWay, Here
<1>4. ASSUME Unlinked(c), Goto(c, Ended), UNCHANGED <<archives, age>> PROVE BackupInv'
  <2>1. AgesInv' /\ copies \ {second} \subseteq copies' /\ Goto(c, At("idle", NoJob))
    BY <1>2, <1>4 DEF AgesInv, Unlinked, CopyName, Ended
  <2> QED
    BY <1>1, <1>3, <1>4, <2>1, BackupMoves DEF BackingUp
<1>5. ASSUME ~Here(c), UNCHANGED <<archives, age, copies>>, Goto(c, At("finishing", job[c]))
      PROVE  BackupInv'
  <2>1. AgesInv'
    BY <1>2, <1>5 DEF AgesInv
  <2>2. pc'[c] = "finishing" /\ job'[c] = job[c]
    BY <1>5 DEF Goto, At, BackupInv, BackupTypes
  <2>3. Apart(c) => OnItsWay(c)'
    BY <1>1, <1>3, <1>5, <2>2 DEF OnItsWay
  <2> QED
    BY <1>1, <1>2, <1>3, <1>5, <2>1, <2>3, BackupMoves
<1>6. ASSUME Here(c), UNCHANGED copies, Goto(c, At("finishing", job[c])),
             age' = <<name>> \o Without(name),
             archives' = With(name, [archives[name] EXCEPT
                                        !.db = job[c].copied /\ CopyName(second) \in copies,
                                        !.whole = archives[name].by = {c}])
      PROVE  BackupInv'
  <2> DEFINE new == [archives[name] EXCEPT !.db = job[c].copied /\ CopyName(second) \in copies,
                                           !.whole = archives[name].by = {c}]
  <2>1. /\ DOMAIN new = Fields /\ new.whole = (archives[name].by = {c})
        /\ new.db = (job[c].copied /\ second \in copies) /\ new.copied = archives[name].copied
    BY <1>2, <1>6 DEF AgesInv, Fields, Here, CopyName
  <2>2. archives' = With(name, new)
    BY <1>6
  <2> HIDE DEF new
  <2>3. AgesInv'
    BY <1>2, <1>6, <2>1, <2>2, WrittenKeepsAges
  <2>4. /\ archives'[name] = new
        /\ DOMAIN archives' = DOMAIN archives \cup {name}
        /\ \A n \in DOMAIN archives' :
              n # name => n \in DOMAIN archives /\ archives'[n] = archives[n]
    BY <2>2 DEF With
  <2>5. pc'[c] = "finishing" /\ job'[c] = job[c]
    BY <1>6 DEF Goto, At, BackupInv, BackupTypes
  <2>6. ASSUME Apart(c) PROVE OnItsWay(c)'
    <3>1. Complete(archives'[name])
      BY <1>1, <1>2, <1>3, <1>6, <2>1, <2>4, <2>6 DEF OnItsWay, Here, Complete
    <3>2. \A n \in DOMAIN archives' : n[1] = second => n = name
      BY <1>3, <2>4, <2>6 DEF OnItsWay
    <3> QED
      BY <1>1, <1>3, <2>5, <2>6, <3>1, <3>2 DEF OnItsWay
  <2> QED
    BY <1>1, <1>2, <1>3, <1>6, <2>3, <2>4, <2>6, BackupMoves
<1> QED
  BY <1>4, <1>5, <1>6 DEF Close

LEMMA FinishKeeps ==
  ASSUME BackupInv, NEW c \in Callers, Finish(c)
  PROVE  BackupInv'
<1> DEFINE name == job[c].name
           second == job[c].second
<1>1. /\ pc[c] = "finishing" /\ pc[c] \in BackingUp /\ "idle" \notin BackingUp
      /\ UNCHANGED <<now, begun>>
      /\ Goto(c, At("idle", NoJob)) /\ copies \ {second} \subseteq copies'
  BY DEF Finish, BackingUp, Unlinked, CopyName, Ended
<1>2. name \in Names /\ second = name[1] /\ AgesInv
  BY <1>1 DEF BackupInv
<1>3. Apart(c) => /\ name \notin reported
                  /\ name \in DOMAIN archives => Complete(archives[name])
  BY <1>1, <1>2 DEF BackupInv, OnItsWay
<1>4. CASE name \in DOMAIN archives
  <2>1. /\ archives' = [n \in Kept |-> archives[n]] /\ age' = [i \in Stays |-> age[i]]
        /\ reported' = reported \cup {name}
    BY <1>4 DEF Finish
  <2>2. AgesInv' /\ Kept \subseteq DOMAIN archives
    BY <1>2, <2>1, RotateKeepsAges
  <2>3. \A n \in DOMAIN archives' : n \in DOMAIN archives /\ archives'[n] = archives[n]
    BY <2>1, <2>2
  <2> QED
    BY <1>1, <1>3, <2>1, <2>2, <2>3, BackupMoves
<1>5. CASE name \notin DOMAIN archives
  <2>1. UNCHANGED <<archives, age, reported>>
    BY <1>5 DEF Finish
  <2>2. AgesInv'
    BY <1>2, <2>1 DEF AgesInv
  <2> QED
    BY <1>1, <1>5, <2>1, <2>2, BackupMoves
<1> QED
  BY <1>4, <1>5

(* What is no backup leads to no backup. *)
LEMMA CatalogPlaces ==
  ASSUME NEW entries, NEW j
  PROVE  /\ NextProvider(entries, j).place \notin BackingUp
         /\ NextStatus(entries, j).place \notin BackingUp
         /\ FirstProvider(entries, j).place \notin BackingUp
         /\ \A kind : Over(kind).place \notin BackingUp
<1>1. \A k, kind : /\ Over(kind).place \notin BackingUp
                   /\ NextProvider(entries, k).place \notin BackingUp
  BY DEF NextProvider, Over, At, Ended, BackingUp
<1>2. NextStatus(entries, j).place \notin BackingUp
  BY DEF NextStatus, At, Ended, BackingUp
<1> QED
  BY <1>1, <1>2 DEF FirstProvider

LEMMA CatalogKeepsBackups ==
  ASSUME BackupInv, NEW c \in Callers, CatalogStep(c), UNCHANGED backupVars
  PROVE  BackupInv'
<1>1. PICK there : Goto(c, there) /\ there.place \notin BackingUp /\ pc[c] \notin BackingUp
  <2>1. CASE Check(c)
    BY <2>1, CatalogPlaces DEF Check, BackingUp
  <2>2. CASE Answer(c)
    <3>1. At("deleting", job[c]).place \notin BackingUp
          /\ \A k : At("deleting", k).place \notin BackingUp
      BY DEF At, BackingUp
    <3> QED
      BY <2>2, <3>1, CatalogPlaces DEF Answer, BackingUp
  <2>3. CASE DeleteRows(c)
    <3>1. At("inserting", job[c]).place \notin BackingUp
      BY DEF At, BackingUp
    <3> QED
      BY <2>3, <3>1, CatalogPlaces DEF DeleteRows, BackingUp
  <2>4. CASE InsertRows(c)
    BY <2>4, CatalogPlaces DEF InsertRows, BackingUp
  <2>5. CASE Stamp(c)
    BY <2>5, CatalogPlaces DEF Stamp, BackingUp
  <2>6. CASE Probe(c)
    BY <2>6, CatalogPlaces DEF Probe, BackingUp
  <2> QED
    BY <2>1, <2>2, <2>3, <2>4, <2>5, <2>6 DEF CatalogStep
<1>2. /\ pc'[c] \notin BackingUp
      /\ DOMAIN pc' = Callers /\ DOMAIN job' = Callers
      /\ \A d \in Callers : d # c => pc'[d] = pc[d] /\ job'[d] = job[d]
  BY <1>1 DEF Goto, BackupInv, BackupTypes
<1> QED
  BY <1>1, <1>2, BystanderKeeps

(* A refresh begins; of the others only those that refresh are told. *)
LEMMA JoiningKeepsBackups ==
  ASSUME BackupInv, RefreshInv, NEW c \in Callers, pc[c] \notin BackingUp,
         NEW there, Joining(c, there), there.place \notin BackingUp,
         UNCHANGED backupVars
  PROVE  BackupInv'
<1>1. \A d \in Callers : pc[d] \in BackingUp => d \notin Refreshers
  BY RefreshersWalk DEF BackingUp, Walking
<1>2. /\ pc'[c] \notin BackingUp
      /\ DOMAIN pc' = Callers /\ DOMAIN job' = Callers
      /\ \A d \in Callers : d # c => pc'[d] = pc[d]
      /\ \A d \in Callers : d # c /\ pc[d] \in BackingUp => job'[d] = job[d]
  BY <1>1 DEF Joining, RefreshInv
<1> QED
  BY <1>2, BystanderKeeps

LEMMA DownKeepsBackups ==
  ASSUME BackupInv, Down
  PROVE  BackupInv'
<1>1. \A c \in Callers : pc'[c] \notin BackingUp
  BY DEF Down, BackingUp
<1>2. BackupTypes' /\ AgesInv' /\ ApartIsWhole' /\ UNCHANGED backupVars
  BY DEF Down, BackupInv, BackupTypes, AgesInv, ApartIsWhole, backupVars
<1> QED
  BY <1>1, <1>2 DEF BackupInv, Apart, backupVars

(* A process that does not run does nothing. *)
IdleInv == up \in BOOLEAN /\ (~up => \A c \in Callers : pc[c] = "idle")

LEMMA IdleInvStep == IdleInv /\ [Next]_vars => IdleInv'
<1> SUFFICES ASSUME IdleInv, [Next]_vars PROVE IdleInv'
  OBVIOUS
<1>1. CASE Start \/ Crash
  BY <1>1 DEF Start, Crash, Down, IdleInv
<1>2. CASE Request
  <2>1. UNCHANGED up \/ (up' = FALSE /\ Down)
    BY <1>2
    DEF Request, ChangeSettings, ResetSettings, ChangeKey, Call, Saved, NotSaved, DiedSaving,
        SavedAndReloaded, BeginRefresh, BeginStatuses, settingsVars
  <2> QED
    BY <1>2, <2>1 DEF Request, Down, IdleInv
<1>3. ASSUME NEW c \in Callers, Step(c) PROVE IdleInv'
  BY <1>3
  DEF Step, CatalogStep, Check, Answer, DeleteRows, InsertRows, Stamp, Probe, settingsVars, IdleInv
<1>4. CASE Time \/ Rest \/ UNCHANGED vars
  BY <1>4 DEF Time, Tick, Rest, vars, settingsVars, IdleInv
<1> QED
  BY <1>1, <1>2, <1>3, <1>4 DEF Next

LEMMA BackupInvStep == BackupInv /\ RefreshInv /\ IdleInv /\ [Next]_vars => BackupInv'
<1> SUFFICES ASSUME BackupInv, RefreshInv, IdleInv, [Next]_vars PROVE BackupInv'
  OBVIOUS
<1>1. CASE Start
  <2>1. Joining(Background, At("checking", Refresher("startup", cache'))) /\ UNCHANGED backupVars
    BY <1>1 DEF Start
  <2>2. At("checking", Refresher("startup", cache')).place \notin BackingUp
    BY DEF At, BackingUp
  <2>3. pc[Background] \notin BackingUp
    BY <1>1, CallersAssumption DEF Start, IdleInv, BackingUp
  <2> QED
    BY <2>1, <2>2, <2>3, CallersAssumption, JoiningKeepsBackups
<1>2. CASE Crash
  BY <1>2, DownKeepsBackups DEF Crash
<1>3. CASE ChangeSettings \/ ResetSettings
  BY <1>3, DownKeepsBackups, BackupStays
  DEF ChangeSettings, ResetSettings, WhenSaved, WhenNotSaved
<1>4. CASE ChangeKey
  BY <1>4, BackupStays DEF ChangeKey
<1>5. ASSUME NEW c \in Callers, Call(c) PROVE BackupInv'
  <2>1. pc[c] \notin BackingUp
    BY <1>5 DEF Call, BackingUp
  <2>2. CASE BeginRefresh(c) /\ UNCHANGED backupVars
    <3>1. At("checking", Refresher("refresh", cache)).place \notin BackingUp
      BY DEF At, BackingUp
    <3> QED
      BY <2>1, <2>2, <3>1, CatalogPlaces, JoiningKeepsBackups DEF BeginRefresh
  <2>3. CASE BeginStatuses(c) /\ UNCHANGED backupVars
    <3> DEFINE there == NextStatus(clients', Walker(clients'))
    <3>1. Goto(c, there) /\ there.place \notin BackingUp
      BY <2>3, CatalogPlaces DEF BeginStatuses
    <3> HIDE DEF there
    <3>2. /\ pc'[c] \notin BackingUp
          /\ DOMAIN pc' = Callers /\ DOMAIN job' = Callers
          /\ \A d \in Callers : d # c => pc'[d] = pc[d] /\ job'[d] = job[d]
      BY <3>1 DEF Goto, BackupInv, BackupTypes
    <3> QED
      BY <2>1, <2>3, <3>2, BystanderKeeps
  <2>4. ASSUME NEW label \in Labels, BeginBackup(c, label) PROVE BackupInv'
    BY <2>1, <2>4, BeginBackupKeeps
  <2> QED
    BY <1>5, <2>2, <2>3, <2>4 DEF Call
<1>6. ASSUME NEW c \in Callers, Step(c) PROVE BackupInv'
  <2>1. CASE CheckDue(c)
    <3>1. pc[c] \notin BackingUp
      BY <2>1 DEF CheckDue, BackingUp
    <3>2. CASE BeginBackup(c, "auto")
      BY <3>1, <3>2, BeginBackupKeeps
    <3>3. CASE Goto(c, Ended) /\ UNCHANGED backupVars
      <4>1. /\ pc'[c] \notin BackingUp
            /\ DOMAIN pc' = Callers /\ DOMAIN job' = Callers
            /\ \A d \in Callers : d # c => pc'[d] = pc[d] /\ job'[d] = job[d]
        BY <3>3 DEF Goto, BackupInv, BackupTypes, Ended, At, BackingUp
      <4> QED
        BY <3>1, <3>3, <4>1, BystanderKeeps
    <3> QED
      BY <2>1, <3>2, <3>3 DEF CheckDue
  <2>2. CASE CatalogStep(c) /\ UNCHANGED backupVars
    BY <2>2, CatalogKeepsBackups
  <2> QED
    BY <1>6, <2>1, <2>2, CopyKeeps, OpenKeeps, CloseKeeps, FinishKeeps DEF Step, BackupStep
<1>7. CASE Time
  <2>1. UNCHANGED <<archives, age, copies, begun, reported, pc, job>> /\ now' \in Seconds
    BY <1>7, BackupAssumption DEF Time, Tick, BackupInv, BackupTypes, Seconds
  <2>2. BackupTypes' /\ AgesInv' /\ ApartIsWhole'
    BY <2>1 DEF BackupInv, BackupTypes, AgesInv, ApartIsWhole
  <2> QED
    BY <2>1, <2>2 DEF BackupInv, Apart, OnItsWay
<1>8. CASE Rest \/ UNCHANGED vars
  BY <1>8, BackupStays DEF Rest, vars
<1> QED
  BY <1>1, <1>2, <1>3, <1>4, <1>5, <1>6, <1>7, <1>8 DEF Next, Request

(* core/backup.py, create, _write_archive and rotate: of the backups reported, *)
(* each that alone began in its second is whole and holds the database unless  *)
(* its copy failed, whatever other backups are written, fail or are rotated at *)
(* the same time.                                                              *)
THEOREM ApartAlwaysWhole == Spec => []ApartIsWhole
<1>1. Init => BackupInv
  <2> SUFFICES ASSUME Init PROVE BackupInv
    OBVIOUS
  <2>1. /\ \A c \in Callers : pc[c] \notin BackingUp
        /\ DOMAIN archives = {} /\ reported = {}
        /\ BackupTypes
    BY BackupAssumption DEF Init, BackupInit, BackingUp, BackupTypes, Seconds
  <2>2. AgesInv
    BY DEF Init, BackupInit, AgesInv
  <2> QED
    BY <2>1, <2>2 DEF BackupInv, Apart, ApartIsWhole
<1>2. Init => IdleInv
  BY DEF Init, SettingsInit, IdleInv
<1>3. BackupInv => ApartIsWhole
  BY DEF BackupInv
<1> QED
  BY <1>1, <1>2, <1>3, InitRefreshInv, RefreshInvStep, BackupInvStep, IdleInvStep, PTL DEF Spec
=============================================================================
