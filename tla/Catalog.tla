------------------------------- MODULE Catalog -------------------------------
(***************************************************************************)
(* providers/catalog.py: the provider clients and the table of the models  *)
(* they list.  refresh and provider_statuses walk the dictionary of the    *)
(* clients with awaits in between, while configure changes it.             *)
(***************************************************************************)
EXTENDS Settings, Coroutines

CONSTANTS
    Remote,              \* providers that are not local
    Order,               \* the order in which configure goes through the providers
    Models               \* names of models a provider may list

ASSUME CatalogAssumption == Remote \subseteq Providers /\ Order \in Seq(Providers)

VARIABLES
    clients,             \* the dictionary: its entries in order, with NoClient where one left
    inUse,               \* the key the clients were given last
    rows,                \* model_catalog: the models of each provider
    fresh                \* catalog_refreshed_at is of late

catalogVars == <<clients, inUse, rows, fresh>>

NoClient == "no client"

CatalogTypeOK ==
    /\ clients \in Seq(Providers \cup {NoClient})
    /\ inUse \in Keys \cup {NoKey, EnvironmentKey}
    /\ rows \in [Providers -> SUBSET Models]
    /\ fresh \in BOOLEAN

Live(entries) == {entries[i] : i \in DOMAIN entries} \ {NoClient}

(* What stays keeps its place; what is new comes last. *)
Configured(entries, enabled) ==
    [i \in DOMAIN entries |-> IF entries[i] \in enabled THEN entries[i] ELSE NoClient]
    \o SelectSeq(Order, LAMBDA p : p \in enabled \ Live(entries))

CatalogInit ==
    /\ clients = IF up THEN Configured(<<>>, cache.enabled) ELSE <<>>
    /\ inUse = Get(keyring, keyFile, TRUE)
    /\ rows \in {[p \in Providers |-> {}], [p \in Providers |-> Models]}
    /\ fresh \in BOOLEAN

Configure(s) ==
    /\ clients' = Configured(clients, s.enabled)
    /\ \E answers \in BOOLEAN : inUse' = Get(keyring', keyFile', answers)

-----------------------------------------------------------------------------
(* The walk over the dictionary: the iterator is [at, size]. *)

Ahead(entries, at) == {i \in DOMAIN entries : i > at /\ entries[i] # NoClient}

FirstOf(positions) == CHOOSE i \in positions : \A k \in positions : i <= k

(* RuntimeError: dictionary changed size during iteration *)
Changed(entries, j) == Cardinality(Live(entries)) # j.size

(* The work of the start goes on with the backup. *)
Over(kind) == IF kind = "startup" THEN At("due", [kind |-> "automatic"]) ELSE Ended

(* To the next provider, past those the offline mode leaves out. *)
NextProvider(entries, j) ==
    LET todo == {i \in Ahead(entries, j.at) : ~(j.offline /\ entries[i] \in Remote)}
        i == FirstOf(todo)
    IN  IF Changed(entries, j) THEN Over(j.kind)
        ELSE IF todo = {} THEN At("stamping", j)
        ELSE At("listing", [j EXCEPT !.at = i, !.provider = entries[i]])

Refreshers == {d \in Callers : job[d].kind \in {"refresh", "startup"}}

(* alone, had: whether nobody else refreshes, and the rows there were. *)
Refresher(kind, s) ==
    [kind |-> kind, offline |-> s.offline, enabled |-> s.enabled, at |-> 0, size |-> 0,
     provider |-> NoClient, models |-> {}, listed |-> <<>>, had |-> rows,
     alone |-> Refreshers = {}]

(* Whoever refreshes meanwhile is not alone any more. *)
Joining(c, there) ==
    /\ pc' = [pc EXCEPT ![c] = there.place]
    /\ job' = [d \in Callers |-> IF d = c THEN there.locals
                                 ELSE IF d \in Refreshers THEN [job[d] EXCEPT !.alone = FALSE]
                                 ELSE job[d]]

(* The walk begins; the clients are built here when there are none, from   *)
(* the settings of before is_stale.                                        *)
Walked(entries, j) == IF Live(entries) # {} THEN entries ELSE Configured(entries, j.enabled)

FirstProvider(entries, j) ==
    NextProvider(entries, [j EXCEPT !.size = Cardinality(Live(entries))])

(* POST /api/models/refresh configures and, unless forced, asks is_stale. *)
BeginRefresh(c) ==
    LET j == Refresher("refresh", cache)
    IN  /\ UNCHANGED <<settingsVars, rows, fresh>>
        /\ Configure(cache)
        /\ \/ Joining(c, At("checking", j))
           \/ Joining(c, FirstProvider(clients', j))

Check(c) ==
    /\ pc[c] = "checking"
    /\ IF fresh /\ \E p \in Providers : rows[p] # {}
       THEN Goto(c, Over(job[c].kind)) /\ UNCHANGED clients
       ELSE /\ clients' = Walked(clients, job[c])
            /\ Goto(c, FirstProvider(clients', job[c]))
    /\ UNCHANGED <<settingsVars, inUse, rows, fresh>>

(* Mutated form: the rows are gone before the provider has answered. *)
NoAnswerEmptied(c) == rows' = [rows EXCEPT ![job[c].provider] = {}]

(* A provider that does not answer keeps its rows. *)
NoAnswer(c) == UNCHANGED rows

Answer(c) ==
    /\ pc[c] = "listing"
    /\ \/ /\ Goto(c, NextProvider(clients, job[c]))
          /\ NoAnswer(c)
       \/ /\ \E models \in SUBSET Models :
                Goto(c, At("deleting", [job[c] EXCEPT !.models = models]))
          /\ UNCHANGED rows
    /\ UNCHANGED <<settingsVars, clients, inUse, fresh>>

Stored(c) ==
    LET p == job[c].provider
    IN  [job[c] EXCEPT !.listed =
            [q \in DOMAIN @ \cup {p} |-> IF q = p THEN job[c].models ELSE @[q]]]

DeleteRows(c) ==
    /\ pc[c] = "deleting"
    /\ rows' = [rows EXCEPT ![job[c].provider] = {}]
    /\ Goto(c, IF job[c].models = {} THEN NextProvider(clients, Stored(c))
               ELSE At("inserting", job[c]))
    /\ UNCHANGED <<settingsVars, clients, inUse, fresh>>

(* A model that is there already ends the refresh, with the rows before it. *)
InsertRows(c) ==
    /\ pc[c] = "inserting"
    /\ LET p == job[c].provider
           new == job[c].models
       IN IF rows[p] \cap new = {}
          THEN /\ rows' = [rows EXCEPT ![p] = @ \cup new]
               /\ Goto(c, NextProvider(clients, Stored(c)))
          ELSE /\ \E some \in SUBSET (new \ rows[p]) : rows' = [rows EXCEPT ![p] = @ \cup some]
               /\ Goto(c, Over(job[c].kind))
    /\ UNCHANGED <<settingsVars, clients, inUse, fresh>>

(* Also when no provider has answered. *)
Stamp(c) ==
    /\ pc[c] = "stamping"
    /\ fresh' = TRUE
    /\ Goto(c, Over(job[c].kind))
    /\ UNCHANGED <<settingsVars, clients, inUse, rows>>

-----------------------------------------------------------------------------
(* provider_statuses: the same walk, an await for each provider. *)
NextStatus(entries, j) ==
    IF Changed(entries, j) \/ Ahead(entries, j.at) = {} THEN Ended
    ELSE At("probing", [j EXCEPT !.at = FirstOf(Ahead(entries, j.at))])

Walker(entries) == [kind |-> "statuses", at |-> 0, size |-> Cardinality(Live(entries))]

BeginStatuses(c) ==
    /\ UNCHANGED <<settingsVars, rows, fresh>>
    /\ Configure(cache)
    /\ Goto(c, NextStatus(clients', Walker(clients')))

Probe(c) ==
    /\ pc[c] = "probing"
    /\ Goto(c, NextStatus(clients, job[c]))
    /\ UNCHANGED <<settingsVars, catalogVars>>

CatalogStep(c) ==
    Check(c) \/ Answer(c) \/ DeleteRows(c) \/ InsertRows(c) \/ Stamp(c) \/ Probe(c)
=============================================================================
