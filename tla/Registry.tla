------------------------------ MODULE Registry ------------------------------
(* Collections and providers (internal/eval_hub/handlers and storage/sql):        *)
(* create, update, patch, clone and delete requests of several tenants, and the   *)
(* reload of the system resources.                                                *)
(*                                                                                *)
(* A request checks, reads the providers its benchmarks name and writes, in that  *)
(* order and with other requests in between.  The transaction that writes a       *)
(* collection locks its row first (SELECT ... FOR UPDATE), so it is one step      *)
(* here; the one that writes a provider reads without a lock, so its read and its *)
(* write are two steps.  A text stands for a name, a list or an URL and knows who *)
(* wrote it; the classification fields are filled from the provider as the URL is *)
(* and left out.  Reads change nothing and have no action.                        *)
(*                                                                                *)
(* Mutants: CheckedBefore of ReadOnlyNow, StaleBase of PatchBase, AnyTenant of    *)
(* isVisibleResource.                                                             *)
EXTENDS Naturals

CONSTANTS
  Tenants,
  Workers,      \* requests in progress, one each; a worker's name is the id it creates
  Collections,  \* collection ids that exist at the start, or are configured
  Providers,    \* the same for providers
  SystemIds,    \* the collections and providers of the configuration files
  Texts,        \* names, benchmark lists and URLs
  Author,       \* who wrote a text: a tenant, or "system"
  ProviderOf,   \* the provider the benchmarks of a list are of
  FirstOwner,   \* who owns what exists at the start
  FirstText,    \* and what it says
  NoText, NoId

\* A worker's id is new; what exists at the start was written by its owner.
ASSUME RegistryAssumption ==
  /\ Tenants \cap {"system", "none", "deleted"} = {}
  /\ SystemIds \subseteq Collections \cup Providers
  /\ Workers \cap (Collections \cup Providers) = {}
  /\ NoText \notin Texts
  /\ Author \in [Texts -> Tenants \cup {"system"}]
  /\ ProviderOf \in [Texts -> Providers]
  /\ FirstText \in [Collections \cup Providers -> Texts]
  /\ \A i \in Collections \cup Providers :
       FirstOwner[i] = Author[FirstText[i]] /\ (FirstOwner[i] = "system" <=> i \in SystemIds)

CollectionIds == Collections \cup Workers
ProviderIds   == Providers \cup Workers

VARIABLES coll,     \* the collections table
          prov,     \* the providers table
          request,  \* worker -> the request it handles
          acked     \* what the last successful write of each field of a collection said

vars == <<coll, prov, request, acked>>

NoRow      == [owner |-> "none", name |-> NoText, list |-> NoText, url |-> NoText,
               curation |-> 0, from |-> NoId]
NoProvider == [owner |-> "none", name |-> NoText, url |-> NoText]

Exists(row) == row.owner \notin {"none", "deleted"}

Init ==
  /\ coll = [i \in CollectionIds |->
               IF i \in Collections
               THEN [NoRow EXCEPT !.owner = FirstOwner[i], !.name = FirstText[i], !.list = FirstText[i]]
               ELSE NoRow]
  /\ prov = [i \in ProviderIds |->
               IF i \in Providers
               THEN [owner |-> FirstOwner[i], name |-> FirstText[i], url |-> FirstText[i]]
               ELSE NoProvider]
  /\ request = [w \in Workers |-> [pc |-> "idle"]]
  /\ acked = [i \in CollectionIds |-> [name |-> coll[i].name, list |-> coll[i].list, from |-> NoId]]

-----------------------------------------------------------------------------
(* What a tenant sees and may change                                           *)

\* isVisibleResource: system rows for everybody, other rows for their tenant.
AnyTenant(row, t)         == Exists(row)
isVisibleResource(row, t) == row.owner \in {"system", t}

\* IsSystemResource() || CurationOrder > 0
ReadOnlyCollection(row) == row.owner = "system" \/ row.curation > 0

\* The same test on the locked row, in UpdateCollection and PatchCollection.
CheckedBefore(row) == FALSE
ReadOnlyNow(row)   == ReadOnlyCollection(row)

\* EnrichCollectionFromProviders: the URL the provider of the list has, when the
\* tenant may see that provider.
EnrichCollection(list, t) ==
  LET p == prov[ProviderOf[list]] IN IF isVisibleResource(p, t) THEN p.url ELSE NoText

-----------------------------------------------------------------------------
(* Requests                                                                    *)

OwnTexts(t) == {x \in Texts : Author[x] = t}
Optional(t) == OwnTexts(t) \cup {NoText}

Body(kind, pc, t, ids, names, lists, curations) ==
  [kind : {kind}, pc : {pc}, tenant : {t}, id : ids, name : names, list : lists, curation : curations,
   url : {NoText}, seen : {NoRow}]

\* verifyPatches lets patches of these fields through ("patch_pinned": one that
\* touches neither the name nor the benchmarks).
AllowedPatches == {"patch_name", "patch_list", "patch_pinned"}

\* What tenants ask for, after validation.
CollectionRequests == UNION {
  Body("create", "enrich", t, {NoId}, OwnTexts(t), OwnTexts(t), {0, 1})
  \cup Body("update", "check", t, Collections, OwnTexts(t), OwnTexts(t), {0, 1})
  \cup Body("clone", "check", t, Collections, Optional(t), Optional(t), {0})
  \cup Body("patch_name", "check", t, Collections, OwnTexts(t), {NoText}, {0})
  \cup Body("patch_list", "check", t, Collections, {NoText}, OwnTexts(t), {0})
  \cup Body("patch_pinned", "check", t, Collections, {NoText}, {NoText}, {0})
  \cup Body("delete", "write", t, Collections, {NoText}, {NoText}, {0}) : t \in Tenants}

Receive(w, r) ==
  /\ request[w].pc = "idle"
  /\ request' = [request EXCEPT ![w] = r]
  /\ UNCHANGED <<coll, prov, acked>>

Done(w) == request' = [request EXCEPT ![w] = [pc |-> "done"]]

\* The read before the write: a row the tenant does not see ends the request.
ReadExisting(w, refused) ==
  LET row == coll[request[w].id] IN
  /\ IF ~isVisibleResource(row, request[w].tenant) \/ refused THEN Done(w)
     ELSE request' = [request EXCEPT ![w].pc = "enrich", ![w].seen = row]
  /\ UNCHANGED <<coll, prov, acked>>

\* PUT and PATCH answer 403 for a read-only collection at once; a clone may be
\* taken of one and works on what it read.
HandleUpdateCollection(w) ==
  request[w].pc = "check" /\ request[w].kind = "update"
    /\ ReadExisting(w, ReadOnlyCollection(coll[request[w].id]))
HandlePatchCollection(w) ==
  request[w].pc = "check" /\ request[w].kind \in AllowedPatches
    /\ ReadExisting(w, ReadOnlyCollection(coll[request[w].id]))
ReadCloneSource(w) ==
  request[w].pc = "check" /\ request[w].kind = "clone" /\ ReadExisting(w, FALSE)

\* ApplyOverrides: what the body leaves out comes from the source, and a clone
\* is never curated.
ApplyOverrides(r) ==
  [name |-> IF r.name = NoText THEN r.seen.name ELSE r.name,
   list |-> IF r.list = NoText THEN r.seen.list ELSE r.list, curation |-> 0]

\* enrichEntireBenchmarkPatchValues: a patch of the whole list gets its URL too.
EnrichPatch(r) == IF r.kind = "patch_list" THEN EnrichCollection(r.list, r.tenant) ELSE NoText

\* The URL each kind of request ends up with.
EnrichRequest(r) ==
  CASE r.kind \in AllowedPatches -> EnrichPatch(r)
    [] r.kind = "clone" -> EnrichCollection(ApplyOverrides(r).list, r.tenant)
    [] OTHER -> EnrichCollection(r.list, r.tenant)

Enrich(w) ==
  /\ request[w].pc = "enrich"
  /\ request' = [request EXCEPT ![w].pc = "write", ![w].url = EnrichRequest(request[w])]
  /\ UNCHANGED <<coll, prov, acked>>

-----------------------------------------------------------------------------
(* Writes of collections                                                       *)

Write(i, row) ==
  /\ coll' = [coll EXCEPT ![i] = row]
  /\ UNCHANGED prov

Ack(i, name, list, from) ==
  acked' = [acked EXCEPT ![i] = [name |-> name, list |-> list, from |-> from]]

HandleCreateCollection(w) ==
  LET r == request[w] IN
  /\ r.pc = "write" /\ r.kind = "create"
  /\ Write(w, [owner |-> r.tenant, name |-> r.name, list |-> r.list, url |-> r.url,
               curation |-> r.curation, from |-> NoId])
  /\ Ack(w, r.name, r.list, NoId)
  /\ Done(w)

HandleCloneCollection(w) ==
  LET r == request[w]
      c == ApplyOverrides(r)
  IN
  /\ r.pc = "write" /\ r.kind = "clone"
  /\ Write(w, [owner |-> r.tenant, name |-> c.name, list |-> c.list, url |-> r.url,
               curation |-> c.curation, from |-> r.id])
  /\ Ack(w, c.name, c.list, r.id)
  /\ Done(w)

\* The locked row is gone, not the tenant's, or read-only by now.
Refused(r) == ~isVisibleResource(coll[r.id], r.tenant) \/ ReadOnlyNow(coll[r.id])

\* A PUT replaces the configuration; derived_from, pinned_order and the status
\* are the row's.
UpdateCollection(w) ==
  LET r == request[w] IN
  /\ r.pc = "write" /\ r.kind = "update"
  /\ IF Refused(r) THEN UNCHANGED <<coll, prov, acked>>
     ELSE /\ Write(r.id, [coll[r.id] EXCEPT !.name = r.name, !.list = r.list, !.url = r.url,
                                            !.curation = r.curation])
          /\ Ack(r.id, r.name, r.list, acked[r.id].from)
  /\ Done(w)

\* A JSON patch changes the locked row in the fields it names.
StaleBase(r) == r.seen
PatchBase(r) == coll[r.id]

PatchCollection(w) ==
  LET r == request[w]
      b == PatchBase(r)
  IN
  /\ r.pc = "write" /\ r.kind \in AllowedPatches
  /\ IF Refused(r) THEN UNCHANGED <<coll, prov, acked>>
     ELSE /\ Write(r.id, CASE r.kind = "patch_name" -> [b EXCEPT !.name = r.name]
                           [] r.kind = "patch_list" -> [b EXCEPT !.list = r.list, !.url = r.url]
                           [] OTHER -> b)
          /\ acked' = [acked EXCEPT ![r.id] =
                         CASE r.kind = "patch_name" -> [@ EXCEPT !.name = r.name]
                           [] r.kind = "patch_list" -> [@ EXCEPT !.list = r.list]
                           [] OTHER -> @]
  /\ Done(w)

\* Refuses system rows only: a tenant may delete its curated collections.
DeleteCollection(w) ==
  LET r == request[w] IN
  /\ r.pc = "write" /\ r.kind = "delete"
  /\ IF coll[r.id].owner # r.tenant THEN UNCHANGED <<coll, prov, acked>>
     ELSE /\ Write(r.id, [NoRow EXCEPT !.owner = "deleted"])
          /\ Ack(r.id, NoText, NoText, NoId)
  /\ Done(w)

-----------------------------------------------------------------------------
(* Providers                                                                   *)

ProviderBody(kind, pc, t, ids, names, urls) ==
  [kind : {kind}, pc : {pc}, tenant : {t}, id : ids, name : names, url : urls, seen : {NoProvider}]

ProviderRequests == UNION {
  ProviderBody("create", "insert", t, {NoId}, OwnTexts(t), OwnTexts(t))
  \cup ProviderBody("update", "read", t, Providers, OwnTexts(t), OwnTexts(t))
  \cup ProviderBody("patch_name", "validate", t, Providers, OwnTexts(t), {NoText})
  \cup ProviderBody("patch_url", "validate", t, Providers, {NoText}, OwnTexts(t))
  \cup ProviderBody("delete", "read", t, Providers, {NoText}, {NoText}) : t \in Tenants}

CreateProvider(w) ==
  LET r == request[w] IN
  /\ r.pc = "insert"
  /\ prov' = [prov EXCEPT ![w] = [owner |-> r.tenant, name |-> r.name, url |-> r.url]]
  /\ Done(w)
  /\ UNCHANGED <<coll, acked>>

\* A patch is first tried on the provider as it is now: one the tenant does not
\* see, or a result that is not valid, ends the request.
ValidatePatchedProvider(w) ==
  LET r == request[w] IN
  /\ r.pc = "validate"
  /\ \/ isVisibleResource(prov[r.id], r.tenant) /\ request' = [request EXCEPT ![w].pc = "read"]
     \/ Done(w)
  /\ UNCHANGED <<coll, prov, acked>>

\* The read of the transaction, without a lock: system providers are read-only.
ReadProvider(w) ==
  LET r == request[w] IN
  /\ r.pc = "read"
  /\ IF prov[r.id].owner # r.tenant THEN Done(w)
     ELSE request' = [request EXCEPT ![w].pc = "put", ![w].seen = prov[r.id]]
  /\ UNCHANGED <<coll, prov, acked>>

\* ... WHERE id AND tenant_id: a row that is gone by now stays gone.
PutProvider(w, row) ==
  LET r == request[w] IN
  /\ prov' = IF prov[r.id].owner = r.tenant THEN [prov EXCEPT ![r.id] = row] ELSE prov
  /\ Done(w)
  /\ UNCHANGED <<coll, acked>>

UpdateProvider(w) ==
  /\ request[w].pc = "put" /\ request[w].kind = "update"
  /\ PutProvider(w, [request[w].seen EXCEPT !.name = request[w].name, !.url = request[w].url])

\* The patch is applied to the copy that was read, and the whole copy written.
PatchProvider(w) ==
  /\ request[w].pc = "put" /\ request[w].kind \in {"patch_name", "patch_url"}
  /\ PutProvider(w, IF request[w].kind = "patch_name"
                    THEN [request[w].seen EXCEPT !.name = request[w].name]
                    ELSE [request[w].seen EXCEPT !.url = request[w].url])

DeleteProvider(w) ==
  /\ request[w].pc = "put" /\ request[w].kind = "delete"
  /\ PutProvider(w, [NoProvider EXCEPT !.owner = "deleted"])

-----------------------------------------------------------------------------
\* One transaction replaces the system rows of both tables by the configured
\* ones; present: the ids the configuration still has.
SystemRow(i, text) == [NoRow EXCEPT !.owner = "system", !.name = text, !.list = text]
LoadSystemResources(present, text) ==
  /\ coll' = [i \in CollectionIds |->
                IF i \notin SystemIds THEN coll[i]
                ELSE IF i \in present THEN SystemRow(i, text) ELSE NoRow]
  /\ prov' = [i \in ProviderIds |->
                IF i \notin SystemIds THEN prov[i]
                ELSE IF i \in present THEN [owner |-> "system", name |-> text, url |-> text]
                ELSE NoProvider]
  /\ acked' = [i \in CollectionIds |->
                 IF i \notin SystemIds THEN acked[i]
                 ELSE [name |-> coll'[i].name, list |-> coll'[i].list, from |-> NoId]]
  /\ UNCHANGED request

Next ==
  \/ \E w \in Workers, r \in CollectionRequests \cup ProviderRequests : Receive(w, r)
  \/ \E w \in Workers :
       \/ HandleUpdateCollection(w) \/ HandlePatchCollection(w) \/ ReadCloneSource(w)
       \/ Enrich(w)
       \/ HandleCreateCollection(w) \/ HandleCloneCollection(w) \/ UpdateCollection(w)
       \/ PatchCollection(w) \/ DeleteCollection(w)
       \/ CreateProvider(w) \/ ValidatePatchedProvider(w) \/ ReadProvider(w)
       \/ UpdateProvider(w) \/ PatchProvider(w) \/ DeleteProvider(w)
  \/ \E present \in SUBSET SystemIds, text \in OwnTexts("system") :
       LoadSystemResources(present, text)

Spec == Init /\ [][Next]_vars

-----------------------------------------------------------------------------
(* Properties                                                                  *)

\* What a tenant's request finds read-only when it writes stays as it is: a
\* system row changes to another configured row only, and a curated collection
\* not at all until it is deleted, although it became read-only after the
\* handler's own check (the test on the locked row in UpdateCollection and
\* PatchCollection).
ReadOnlyHolds ==
  [][\A i \in CollectionIds :
       ReadOnlyCollection(coll[i]) /\ coll'[i] # coll[i] =>
         IF i \in SystemIds
         THEN coll'[i] = NoRow \/ \E x \in OwnTexts("system") : coll'[i] = SystemRow(i, x)
         ELSE coll'[i].owner = "deleted"]_vars

\* A field of a collection says what the last request answered with success
\* wrote to it: a concurrent patch or update of another field, or a pin, never
\* takes it back, and derived_from is what the clone set (the row lock of
\* PatchCollection and UpdateCollection).
AcknowledgedWriteKept ==
  \A i \in CollectionIds : coll[i].name = acked[i].name /\ coll[i].list = acked[i].list
                           /\ coll[i].from = acked[i].from

\* Nothing in a tenant's collections and providers was written by another
\* tenant: not by cloning its collection, not by writing to this row, and not
\* through the URL of a provider a list names (isVisibleResource on every read).
Foreign(row, x) == x # NoText /\ Author[x] \notin {row.owner, "system"}
TenantsApart ==
  /\ \A i \in CollectionIds : LET row == coll[i] IN
       ~Foreign(row, row.name) /\ ~Foreign(row, row.list) /\ ~Foreign(row, row.url)
  /\ \A i \in ProviderIds : LET row == prov[i] IN
       ~Foreign(row, row.name) /\ ~Foreign(row, row.url)

-----------------------------------------------------------------------------
(* What a comment says and the code does not do                                *)

\* pkg/api/collections.go says of curation_order: "Admin-only via YAML; the
\* server rejects writes from tenant API consumers."  Creating and replacing a
\* collection take it from the body.
CurationIsAdminOnly == \A i \in CollectionIds : coll[i].curation > 0 => coll[i].owner = "system"
=============================================================================
