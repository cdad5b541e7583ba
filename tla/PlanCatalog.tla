------------------------------ MODULE PlanCatalog ------------------------------
(***************************************************************************)
(* The plans of a service and the mappings to them: how the service broker *)
(* and the Sampler's receiver have the provisioning plugin store them, one *)
(* call for each type of plan (metering, rating, pricing), and how the     *)
(* services that process usage find them behind the caches of the plugins  *)
(* (plan-db, config/mappings) and their own (config/metering, rating and   *)
(* pricing).                                                               *)
(*                                                                         *)
(* Ages are in ticks.  A lookup takes less than two: the breaker ends its  *)
(* calls in a fraction of the 20 minutes for which results are cached.     *)
(***************************************************************************)
EXTENDS Integers, Sequences, FiniteSets, SequencesExt

CONSTANTS
    PlanTypes,        \* a sequence
    LookedUp,         \* the items of which readers may look up one
    Editors,          \* who asks for changes, one at a time each
    Readers,          \* processes that look plans up
    PluginAge,        \* maxAge of the caches of the plugins
    ConfigAge,        \* PLAN_CACHE_MAX_AGE
    MaxVersion,       \* bounds the updates of a plan
    MaxCatalogFaults  \* bounds failed calls, lost answers and conflicts of others

ASSUME PlanCatalogAssumption ==
    /\ LookedUp \subseteq {"plan", "mapping"} \X ToSet(PlanTypes)
    /\ {PluginAge, ConfigAge} \subseteq Nat
    /\ MaxVersion \in Nat \ {0} /\ MaxCatalogFaults \in Nat

VARIABLES
    catalog,      \* the databases: the version of an item, or 0
    watched,      \* the item that readers look up in this behaviour
    pluginCache,  \* what the plugin has cached of it
    configCache,  \* what each reader has
    lookup,       \* the lookup of each reader
    change,       \* the request of each editor
    confirmed,    \* history: a request with the item was answered with success, or as
                  \* a conflict, and no call of it with the conflict of another
    catalogFaults

catalogVars == <<catalog, watched, pluginCache, configCache, lookup, change, confirmed,
                 catalogFaults>>

PlansOf(types) == {"plan"} \X types
MappingsOf(types) == {"mapping"} \X types
Items == PlansOf(ToSet(PlanTypes)) \cup MappingsOf(ToSet(PlanTypes))
IsPlan(item) == item[1] = "plan"

\* A document that is cached or on its way; behind, a history variable, is
\* how long ago it was replaced.
NoEntry == [version |-> 0, age |-> 0, behind |-> 0]
NoLookup == [at |-> "idle"]
NoChange == [kind |-> "none"]

\* What a lookup may be behind the databases.
MaxOutdated == PluginAge + ConfigAge + 2

CatalogInit ==
    /\ catalog = [i \in Items |-> 0]
    /\ watched \in LookedUp
    /\ pluginCache = NoEntry
    /\ configCache = [r \in Readers |-> NoEntry]
    /\ lookup = [r \in Readers |-> NoLookup]
    /\ change = [e \in Editors |-> NoChange]
    /\ confirmed = FALSE
    /\ catalogFaults = 0

CatalogFault == catalogFaults < MaxCatalogFaults /\ catalogFaults' = catalogFaults + 1

-----------------------------------------------------------------------------
(***************************************************************************)
(* Changes.  The broker sends all calls of a request at once, and answers  *)
(* with the first that fails, or when all are done; the receiver maps one  *)
(* type after the other, and takes what is mapped already for its own.     *)
(***************************************************************************)
CallsOf(kind) ==
    CASE kind = "create" -> Items
      [] kind = "update" -> PlansOf(ToSet(PlanTypes))
      [] kind = "map" -> MappingsOf(ToSet(PlanTypes))

AskFor(e, kind) ==
    /\ change[e] = NoChange
    /\ change' = [change EXCEPT ![e] =
                    [kind |-> kind, left |-> CallsOf(kind), mapped |-> FALSE,
                     shared |-> FALSE, answer |-> "none"]]
    /\ UNCHANGED <<catalog, watched, pluginCache, configCache, lookup, confirmed, catalogFaults>>

\* handleMappings awaits each mapping before the next.
IsNextMapping(e, item) ==
    \A n \in DOMAIN PlanTypes :
        <<"mapping", PlanTypes[n]>> \in change[e].left =>
            \E m \in 1 .. n : item = <<"mapping", PlanTypes[m]>>

IsSent(e, item) ==
    /\ change[e] # NoChange
    /\ item \in change[e].left
    /\ change[e].kind = "map" => IsNextMapping(e, item)

\* Promise.all, and what becomes of its first failure.
BrokerAnswer(c, item, result) ==
    [c EXCEPT !.left = @ \ {item},
              !.answer = IF @ # "none" THEN @
                         ELSE IF result # "ok" THEN "failed"
                         ELSE IF c.left = {item} THEN "created" ELSE @]

\* A mutant: any failure of a mapping counts as a conflict.
FailureIsConflict(c, item, result) ==
    LET mapped == c.mapped \/ result = "ok"
    IN  [c EXCEPT !.mapped = mapped, !.shared = @ \/ result = "shared",
                  !.left = @ \ {item},
                  !.answer = IF c.left # {item} THEN @
                             ELSE IF mapped THEN "created" ELSE "conflict"]

\* handleMappings, _handleMapping.
MappingAnswer(c, item, result) ==
    IF result = "error" THEN [c EXCEPT !.left = {}, !.answer = "failed"]
    ELSE LET mapped == c.mapped \/ result = "ok"
         IN  [c EXCEPT !.mapped = mapped, !.shared = @ \/ result = "shared",
                       !.left = @ \ {item},
                       !.answer = IF c.left # {item} THEN @
                                  ELSE IF mapped THEN "created" ELSE "conflict"]

ChangeAnswered(c, item, result) ==
    IF c.kind = "map" THEN MappingAnswer(c, item, result) ELSE BrokerAnswer(c, item, result)

\* The calls of a request that has failed go on.
Answer(e, item, result) ==
    LET c == ChangeAnswered(change[e], item, result)
        watches == watched \in CallsOf(c.kind)
        all == c.answer \in {"created", "conflict"} /\ ~c.shared
    IN  /\ change' = [change EXCEPT ![e] = IF c.left = {} THEN NoChange ELSE c]
        /\ confirmed' = (confirmed \/ (all /\ watches))
        /\ UNCHANGED <<watched, pluginCache, configCache, lookup>>

\* A new document; one that is there already is a conflict.
Stored(item) == [catalog EXCEPT ![item] = IF @ = 0 THEN 1 ELSE @]

(***************************************************************************)
(* The puts of one type of item that are called within 20 milliseconds, by *)
(* requests for any services, are one ordered bulk: a document that is     *)
(* there already stops it, and all its calls are answered with a conflict, *)
(* of which those behind it were not stored.                               *)
(***************************************************************************)
Create(e, item) ==
    /\ IsSent(e, item) /\ change[e].kind # "update"
    /\ \/ /\ catalog[item] = 0
          /\ catalog' = Stored(item)
          /\ Answer(e, item, "ok")
          /\ UNCHANGED catalogFaults
       \/ /\ catalog[item] # 0
          /\ Answer(e, item, "conflict")
          /\ UNCHANGED <<catalog, catalogFaults>>
       \/ /\ CatalogFault   \* the answer is lost, and the put repeated
          /\ catalog' = Stored(item)
          /\ Answer(e, item, "conflict")
       \/ /\ CatalogFault   \* of its bulk another one is a conflict
          /\ catalog' \in {catalog, Stored(item)}
          /\ Answer(e, item, "shared")
       \/ /\ CatalogFault   \* stored, and the answer lost, or not stored
          /\ catalog' \in {catalog, Stored(item)}
          /\ Answer(e, item, "error")

Replaced(item) == [catalog EXCEPT ![item] = @ + 1]

\* The document is replaced, whatever its revision is by then; a conflict of another
\* in its bulk is a failure like others, for the broker.
Update(e, item) ==
    /\ IsSent(e, item) /\ change[e].kind = "update"
    /\ \/ /\ catalog[item] \in 1 .. MaxVersion - 1
          /\ catalog' = Replaced(item)
          /\ Answer(e, item, "ok")
          /\ UNCHANGED catalogFaults
       \/ /\ catalog[item] = 0
          /\ Answer(e, item, "error")
          /\ UNCHANGED <<catalog, catalogFaults>>
       \/ /\ CatalogFault
          /\ \/ catalog[item] \in 1 .. MaxVersion - 1 /\ catalog' = Replaced(item)
             \/ UNCHANGED catalog
          /\ Answer(e, item, "error")

-----------------------------------------------------------------------------
(***************************************************************************)
(* Lookups of the watched item; the caches keep each item for itself.  The *)
(* locks by key make lookups of one item wait for each other in a reader   *)
(* and in the plugin: one lookup of a reader stands for all.               *)
(***************************************************************************)
NewLookup(r, at, entry, cached) ==
    /\ lookup[r] = NoLookup
    /\ lookup' = [lookup EXCEPT ![r] =
          [at |-> at, entry |-> entry, cached |-> cached, expected |-> confirmed]]
    /\ UNCHANGED <<catalog, watched, pluginCache, configCache, change, confirmed, catalogFaults>>

LookUp(r) ==
    NewLookup(r, IF configCache[r] = NoEntry THEN "asked" ELSE "answered",
              [configCache[r] EXCEPT !.age = 0], TRUE)

\* The collector has usage validated: plans are read with cache: false.
Validate(r) == IsPlan(watched) /\ NewLookup(r, "asked", NoEntry, FALSE)

\* The plugin holds the lock of the item while it reads its document.
Locked == \E r \in Readers : lookup[r].at = "reading"

\* A mutant: to use a cached document is to cache it again.
FindAndCacheAgain(r) ==
    /\ lookup[r].at = "asked" /\ ~Locked
    /\ lookup[r].cached /\ pluginCache # NoEntry
    /\ lookup' = [lookup EXCEPT ![r] =
          [@ EXCEPT !.at = "replied",
                    !.entry = [pluginCache EXCEPT !.age = lookup[r].entry.age]]]
    /\ pluginCache' = [pluginCache EXCEPT !.age = 0]
    /\ UNCHANGED <<catalog, watched, configCache, change, confirmed, catalogFaults>>

FindInCache(r) ==
    /\ lookup[r].at = "asked" /\ ~Locked
    /\ lookup[r].cached /\ pluginCache # NoEntry
    /\ lookup' = [lookup EXCEPT ![r] =
          [@ EXCEPT !.at = "replied",
                    !.entry = [pluginCache EXCEPT !.age = lookup[r].entry.age]]]
    /\ UNCHANGED <<catalog, watched, pluginCache, configCache, change, confirmed, catalogFaults>>

FindInDB(r) ==
    /\ lookup[r].at = "asked" /\ ~Locked
    /\ lookup[r].cached => pluginCache = NoEntry
    /\ lookup' = [lookup EXCEPT ![r] =
          [@ EXCEPT !.at = "reading",
                    !.entry = [lookup[r].entry EXCEPT !.version = catalog[watched]]]]
    /\ UNCHANGED <<catalog, watched, pluginCache, configCache, change, confirmed, catalogFaults>>

\* What is not found is not cached.
Cached(entry) == IF entry.version = 0 THEN NoEntry ELSE [entry EXCEPT !.age = 0]

CachedByPlugin(r) ==
    /\ lookup[r].at = "reading"
    /\ pluginCache' = IF lookup[r].cached THEN Cached(lookup[r].entry) ELSE pluginCache
    /\ lookup' = [lookup EXCEPT ![r] = [@ EXCEPT !.at = "replied"]]
    /\ UNCHANGED <<catalog, watched, configCache, change, confirmed, catalogFaults>>

CachedByReader(r) ==
    /\ lookup[r].at = "replied"
    /\ configCache' = IF lookup[r].cached
                      THEN [configCache EXCEPT ![r] = Cached(lookup[r].entry)]
                      ELSE configCache
    /\ lookup' = [lookup EXCEPT ![r] = [@ EXCEPT !.at = "answered"]]
    /\ UNCHANGED <<catalog, watched, pluginCache, change, confirmed, catalogFaults>>

\* The call fails, or its answer is lost.
LookupFails(r) ==
    /\ lookup[r].at \in {"asked", "replied"}
    /\ CatalogFault
    /\ lookup' = [lookup EXCEPT ![r] = NoLookup]
    /\ UNCHANGED <<catalog, watched, pluginCache, configCache, change, confirmed>>

UseAnswer(r) ==
    /\ lookup[r].at = "answered"
    /\ lookup' = [lookup EXCEPT ![r] = NoLookup]
    /\ UNCHANGED <<catalog, watched, pluginCache, configCache, change, confirmed, catalogFaults>>

\* A tick later.  An entry is dropped at its age.
Behind(entry) ==
    IF entry.version \in 1 .. catalog[watched] - 1 /\ entry.behind <= MaxOutdated
    THEN [entry EXCEPT !.behind = entry.behind + 1] ELSE entry

OlderEntry(entry, maxAge) ==
    IF entry = NoEntry \/ entry.age = maxAge THEN NoEntry
    ELSE [Behind(entry) EXCEPT !.age = entry.age + 1]

IsUnderWay(r) == lookup[r].at \in {"asked", "reading", "replied"}

CatalogTick ==
    /\ \A r \in Readers : lookup[r] # NoLookup => IsUnderWay(r) /\ lookup[r].entry.age = 0
    /\ lookup' = [r \in Readers |->
          IF lookup[r] = NoLookup THEN NoLookup
          ELSE [lookup[r] EXCEPT !.entry = [Behind(lookup[r].entry) EXCEPT !.age = 1]]]
    /\ pluginCache' = OlderEntry(pluginCache, PluginAge)
    /\ configCache' = [r \in Readers |-> OlderEntry(configCache[r], ConfigAge)]
    /\ UNCHANGED <<catalog, watched, change, confirmed, catalogFaults>>

CatalogNext ==
    \/ \E e \in Editors :
          \/ \E kind \in {"create", "update", "map"} : AskFor(e, kind)
          \/ \E item \in Items : Create(e, item) \/ Update(e, item)
    \/ \E r \in Readers :
          \/ LookUp(r) \/ Validate(r)
          \/ FindInCache(r) \/ FindInDB(r) \/ CachedByPlugin(r)
          \/ CachedByReader(r) \/ LookupFails(r) \/ UseAnswer(r)
    \/ CatalogTick

CatalogSpec == CatalogInit /\ [][CatalogNext]_catalogVars

-----------------------------------------------------------------------------
IsAnswered(r) == lookup[r].at = "answered"

\* Once the creation or the mapping of a service was answered with success,
\* or with a conflict, whatever calls of it and of others failed or ran at
\* the same time, no lookup that begins then misses its plans and mappings:
\* nobody remembers that they were not there.  It is promised for requests of
\* which no call was answered with the conflict of another in its bulk.
CreatedIsFound ==
    \A r \in Readers : IsAnswered(r) /\ lookup[r].expected => lookup[r].entry.version > 0

\* A plan that is found was replaced by an update not longer ago than
\* both caches keep it, and two lookups take.
PlansAreRecent ==
    \A r \in Readers : IsAnswered(r) => lookup[r].entry.behind <= MaxOutdated

-----------------------------------------------------------------------------
(***************************************************************************)
(* Why a plan is found that was created, and not long after it was         *)
(* replaced: the inductive invariant of the plans and their caches.        *)
(***************************************************************************)
Entry == [version : Nat, age : Nat, behind : Nat]

Lookup ==
    [at : {"asked", "reading", "replied", "answered"}, entry : Entry,
     cached : BOOLEAN, expected : BOOLEAN]

Change ==
    [kind : {"create", "update", "map"}, left : SUBSET Items, mapped : BOOLEAN,
     shared : BOOLEAN, answer : {"none", "failed"}]

CatalogTypeOK ==
    /\ catalog \in [Items -> Nat]
    /\ watched \in Items
    /\ pluginCache \in Entry
    /\ configCache \in [Readers -> Entry]
    /\ lookup \in [Readers -> Lookup \cup {NoLookup}]
    /\ change \in [Editors -> Change \cup {NoChange}]
    /\ confirmed \in BOOLEAN

\* While a request has not failed, nor been answered with a conflict of others, all
\* that is not left of it is stored; a mapping that has failed is over.
ChangeInv(c) ==
    c # NoChange =>
        /\ c.kind = "map" => c.answer = "none"
        /\ c.answer # "failed" /\ ~c.shared =>
              \A item \in CallsOf(c.kind) : item \in c.left \/ catalog[item] > 0

\* What is cached was found, and is not much more behind than it is old.
EntryInv(entry, maxAge, behind) ==
    entry # NoEntry =>
        /\ entry.version > 0
        /\ entry.age <= maxAge
        /\ entry.behind <= entry.age + behind

\* What a lookup has so far; it takes less than two ticks.
LookupInv(l) ==
    /\ l.expected => confirmed
    /\ l.at # "answered" => l.entry.age <= 1
    /\ l.at = "asked" => l.entry.version = 0 /\ l.entry.behind = 0
    /\ l.at = "reading" => l.entry.behind <= l.entry.age
    /\ l.at = "replied" => l.entry.behind <= l.entry.age + PluginAge + 1
    /\ l.at = "answered" => l.entry.behind <= MaxOutdated
    /\ l.expected /\ l.at # "asked" => l.entry.version > 0

CatalogInv ==
    /\ CatalogTypeOK
    /\ confirmed => catalog[watched] > 0
    /\ \A e \in Editors : ChangeInv(change[e])
    /\ EntryInv(pluginCache, PluginAge, 1)
    /\ \A r \in Readers :
          /\ EntryInv(configCache[r], ConfigAge, PluginAge + 2)
          /\ lookup[r] # NoLookup => LookupInv(lookup[r])
=============================================================================
