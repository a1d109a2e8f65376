---------------------------- MODULE RegistryProofs ----------------------------
(* Safety of the collection and provider tables for every set of tenants, of      *)
(* requests in progress, of rows and of texts: read-only rows stay, acknowledged  *)
(* writes are kept, and nothing of one tenant reaches another.  Then safety of    *)
(* the configuration watcher, which reloads the system rows.                      *)
EXTENDS Registry, ConfigWatcher, TLAPS

-----------------------------------------------------------------------------
(* The inductive invariant                                                     *)

Owners == Tenants \cup {"system"}

\* What may stand in a row of o, or be read by the tenant o.
Shown(o) == {x \in Texts : Author[x] \in {o, "system"}}

LiveCollection(o) ==
  [owner : {o}, name : Shown(o), list : Shown(o), url : Shown(o) \cup {NoText},
   curation : {0, 1}, from : Collections \cup {NoId}]
LiveProvider(o) == [owner : {o}, name : Shown(o), url : Shown(o)]

DeletedRow      == [NoRow EXCEPT !.owner = "deleted"]
DeletedProvider == [NoProvider EXCEPT !.owner = "deleted"]

CollectionRowOK(row) == row \in {NoRow, DeletedRow} \/ \E o \in Owners : row \in LiveCollection(o)
ProviderRowOK(row) == row \in {NoProvider, DeletedProvider} \/ \E o \in Owners : row \in LiveProvider(o)

\* Every row shows only what its owner may see.
RowsOK ==
  /\ coll = [i \in CollectionIds |-> coll[i]] /\ \A i \in CollectionIds : CollectionRowOK(coll[i])
  /\ prov = [i \in ProviderIds |-> prov[i]] /\ \A i \in ProviderIds : ProviderRowOK(prov[i])

\* A request in progress carries its tenant's own texts, and what it has read of
\* rows and providers the tenant may see.
CollectionKinds == {"create", "update", "clone", "delete"} \cup AllowedPatches
CollectionCall(r, t) ==
  /\ r \in [kind : CollectionKinds, pc : {"check", "enrich", "write"}, tenant : {t},
            id : Collections \cup {NoId}, name : Optional(t), list : Optional(t), curation : {0, 1},
            url : Shown(t) \cup {NoText}, seen : {NoRow} \cup LiveCollection(t) \cup LiveCollection("system")]
  /\ r.kind # "create" => r.id \in Collections
  /\ r.kind \in {"create", "update", "patch_name"} => r.name # NoText
  /\ r.kind \in {"create", "update", "patch_list"} => r.list # NoText
  /\ r.kind = "create" => r.pc # "check"
  /\ r.kind = "delete" => r.pc = "write"
  /\ r.kind = "clone" /\ r.pc # "check" => r.seen # NoRow
ProviderCall(r, t) ==
  /\ r \in [kind : {"create", "update", "patch_name", "patch_url", "delete"},
            pc : {"insert", "validate", "read", "put"}, tenant : {t}, id : Providers \cup {NoId},
            name : Optional(t), url : Optional(t), seen : {NoProvider} \cup LiveProvider(t)]
  /\ r.kind = "create" <=> r.pc = "insert"
  /\ r.kind # "create" => r.id \in Providers
  /\ r.kind \in {"create", "update", "patch_name"} => r.name # NoText
  /\ r.kind \in {"create", "update", "patch_url"} => r.url # NoText
  /\ r.pc = "put" => r.seen # NoProvider
CallOK(r) ==
  \/ r \in {[pc |-> "idle"], [pc |-> "done"]}
  \/ \E t \in Tenants : CollectionCall(r, t) \/ ProviderCall(r, t)
CallsOK ==
  request = [w \in Workers |-> request[w]] /\ \A w \in Workers : CallOK(request[w])

\* System rows are the configured ones, and the row a request is to create is not there
\* yet.
ConfiguredRow(i, row) == row = NoRow \/ \E x \in OwnTexts("system") : row = SystemRow(i, x)
PlacesOK ==
  /\ \A i \in CollectionIds : IF i \in SystemIds THEN ConfiguredRow(i, coll[i])
                              ELSE coll[i].owner # "system"
  /\ \A w \in Workers : request[w].pc # "done" => coll[w] = NoRow

Inv == RowsOK /\ CallsOK

\* What was acknowledged is what the collections table says.
AckedOK ==
  acked = [i \in CollectionIds |-> [name |-> coll[i].name, list |-> coll[i].list, from |-> coll[i].from]]

-----------------------------------------------------------------------------
(* Rows and requests                                                           *)

\* What the tenant t wrote it may show.
LEMMA OwnIsShown == \A t \in Owners : OwnTexts(t) \subseteq Shown(t)
  BY DEF OwnTexts, Shown

\* What everybody sees, each tenant sees.
LEMMA SystemIsShown == \A t \in Owners : Shown("system") \subseteq Shown(t)
  BY DEF Shown

\* A configured row belongs to the system, or is not there.
LEMMA ConfiguredOwner ==
  ASSUME NEW i, NEW row, ConfiguredRow(i, row)
  PROVE  row.owner \in {"none", "system"}
<1>1. NoRow.owner = "none"
  BY DEF NoRow
<1>2. \A x : SystemRow(i, x).owner = "system"
  BY DEF SystemRow, NoRow
<1> QED
  BY <1>1, <1>2 DEF ConfiguredRow

\* The request of a worker that is at a step of a collection request is one.
LEMMA IsCollectionCall ==
  ASSUME CallsOK, NEW w \in Workers, request[w].pc \in {"check", "enrich", "write"}
  PROVE  request[w].tenant \in Tenants /\ CollectionCall(request[w], request[w].tenant)
<1>1. PICK t \in Tenants : CollectionCall(request[w], t)
  BY DEF CallsOK, CallOK, ProviderCall
<1> QED
  BY <1>1 DEF CollectionCall

\* The same for provider requests.
LEMMA IsProviderCall ==
  ASSUME CallsOK, NEW w \in Workers, request[w].pc \in {"insert", "validate", "read", "put"}
  PROVE  request[w].tenant \in Tenants /\ ProviderCall(request[w], request[w].tenant)
<1>1. PICK t \in Tenants : ProviderCall(request[w], t)
  BY DEF CallsOK, CallOK, CollectionCall
<1> QED
  BY <1>1 DEF ProviderCall

\* A row that isVisibleResource lets a tenant read is a live one of it or of the system.
LEMMA VisibleCollection ==
  ASSUME RowsOK, NEW i \in CollectionIds, NEW t \in Tenants, isVisibleResource(coll[i], t)
  PROVE  coll[i] \in LiveCollection(t) \cup LiveCollection("system") /\ coll[i] # NoRow
<1>1. CollectionRowOK(coll[i])
  BY DEF RowsOK
<1>2. coll[i] \notin {NoRow, DeletedRow}
  BY RegistryAssumption DEF NoRow, DeletedRow, isVisibleResource
<1>3. PICK o \in Owners : coll[i] \in LiveCollection(o)
  BY <1>1, <1>2 DEF CollectionRowOK
<1>4. coll[i].owner = o
  BY <1>3 DEF LiveCollection
<1>5. o \in {"system", t}
  BY <1>4 DEF isVisibleResource
<1> QED
  BY <1>2, <1>3, <1>5

\* The URL EnrichCollectionFromProviders puts into a list is one the tenant may see.
LEMMA EnrichedIsShown ==
  ASSUME RowsOK, NEW t \in Tenants, NEW list \in Texts
  PROVE  EnrichCollection(list, t) \in Shown(t) \cup {NoText}
<1> DEFINE p == prov[ProviderOf[list]]
<1>1. ProviderRowOK(p)
  BY RegistryAssumption DEF RowsOK, ProviderIds
<1>2. CASE ~isVisibleResource(p, t)
  BY <1>2 DEF EnrichCollection
<1>3. CASE isVisibleResource(p, t)
  <2>1. p \notin {NoProvider, DeletedProvider}
    BY <1>3, RegistryAssumption DEF NoProvider, DeletedProvider, isVisibleResource
  <2>2. PICK o \in Owners : p \in LiveProvider(o)
    BY <1>1, <2>1 DEF ProviderRowOK
  <2>3. p.owner = o /\ p.url \in Shown(o)
    BY <2>2 DEF LiveProvider
  <2>4. o \in {"system", t}
    BY <1>3, <2>3 DEF isVisibleResource
  <2> QED
    BY <1>3, <2>3, <2>4, SystemIsShown DEF EnrichCollection, Owners
<1> QED
  BY <1>2, <1>3

\* A worker's new request keeps the invariant when it is a sound one.
LEMMA CallsExcept ==
  ASSUME CallsOK, NEW w \in Workers, NEW r, CallOK(r), request' = [request EXCEPT ![w] = r]
  PROVE  CallsOK'
  BY DEF CallsOK

\* An answered request is sound.
LEMMA DoneIsSound == ASSUME CallsOK, NEW w \in Workers, Done(w) PROVE CallsOK'
<1>1. CallOK([pc |-> "done"])
  BY DEF CallOK
<1> QED
  BY <1>1, CallsExcept DEF Done

-----------------------------------------------------------------------------
(* Requests stay sound                                                         *)

\* What tenants send is sound: it carries their own texts.
LEMMA ReceivedIsSound ==
  ASSUME NEW r \in CollectionRequests \cup ProviderRequests
  PROVE  CallOK(r)
<1>1. CASE r \in CollectionRequests
  <2>1. PICK t \in Tenants :
          \/ r \in Body("create", "enrich", t, {NoId}, OwnTexts(t), OwnTexts(t), {0, 1})
          \/ r \in Body("update", "check", t, Collections, OwnTexts(t), OwnTexts(t), {0, 1})
          \/ r \in Body("clone", "check", t, Collections, Optional(t), Optional(t), {0})
          \/ r \in Body("patch_name", "check", t, Collections, OwnTexts(t), {NoText}, {0})
          \/ r \in Body("patch_list", "check", t, Collections, {NoText}, OwnTexts(t), {0})
          \/ r \in Body("patch_pinned", "check", t, Collections, {NoText}, {NoText}, {0})
          \/ r \in Body("delete", "write", t, Collections, {NoText}, {NoText}, {0})
    BY <1>1 DEF CollectionRequests
  <2>2. OwnTexts(t) \subseteq Optional(t) /\ NoText \in Optional(t) /\ NoText \notin OwnTexts(t)
    BY RegistryAssumption DEF Optional, OwnTexts
  <2>3. CollectionCall(r, t)
    BY <2>1, <2>2 DEF Body, CollectionCall, CollectionKinds, AllowedPatches
  <2> QED
    BY <2>3 DEF CallOK
<1>2. CASE r \in ProviderRequests
  <2>1. PICK t \in Tenants :
          \/ r \in ProviderBody("create", "insert", t, {NoId}, OwnTexts(t), OwnTexts(t))
          \/ r \in ProviderBody("update", "read", t, Providers, OwnTexts(t), OwnTexts(t))
          \/ r \in ProviderBody("patch_name", "validate", t, Providers, OwnTexts(t), {NoText})
          \/ r \in ProviderBody("patch_url", "validate", t, Providers, {NoText}, OwnTexts(t))
          \/ r \in ProviderBody("delete", "read", t, Providers, {NoText}, {NoText})
    BY <1>2 DEF ProviderRequests
  <2>2. OwnTexts(t) \subseteq Optional(t) /\ NoText \in Optional(t) /\ NoText \notin OwnTexts(t)
    BY RegistryAssumption DEF Optional, OwnTexts
  <2>3. ProviderCall(r, t)
    BY <2>1, <2>2 DEF ProviderBody, ProviderCall
  <2> QED
    BY <2>3 DEF CallOK
<1> QED
  BY <1>1, <1>2

\* ReadExisting leaves the request answered, or with a row its tenant may see.
LEMMA ReadExistingIsSound ==
  ASSUME Inv, NEW w \in Workers, NEW refused, request[w].pc = "check", ReadExisting(w, refused)
  PROVE  CallsOK'
<1> DEFINE r == request[w]
<1> DEFINE row == coll[r.id]
<1>1. r.tenant \in Tenants /\ CollectionCall(r, r.tenant)
  BY IsCollectionCall DEF Inv
<1>2. r.id \in Collections
  BY <1>1 DEF CollectionCall
<1>3. CASE Done(w)
  BY <1>3, DoneIsSound DEF Inv
<1>4. CASE ~Done(w)
  <2>1. /\ isVisibleResource(row, r.tenant)
        /\ request' = [request EXCEPT ![w] = [r EXCEPT !.pc = "enrich", !.seen = row]]
    BY <1>4 DEF ReadExisting
  <2>2. row \in LiveCollection(r.tenant) \cup LiveCollection("system") /\ row # NoRow
    BY <1>1, <1>2, <2>1, VisibleCollection DEF Inv, CollectionIds
  <2> HIDE DEF row
  <2>3. CollectionCall([r EXCEPT !.pc = "enrich", !.seen = row], r.tenant)
    BY <1>1, <2>2 DEF CollectionCall
  <2> HIDE DEF r
  <2>4. CallOK([r EXCEPT !.pc = "enrich", !.seen = row])
    BY <1>1, <2>3 DEF CallOK
  <2> QED
    BY <2>1, <2>4, CallsExcept DEF Inv
<1> QED
  BY <1>3, <1>4

\* Enrich gives the request an URL its tenant may see.
LEMMA EnrichIsSound == ASSUME Inv, NEW w \in Workers, Enrich(w) PROVE CallsOK'
<1> DEFINE r == request[w]
<1> DEFINE url == EnrichRequest(r)
<1>1. r.tenant \in Tenants /\ CollectionCall(r, r.tenant) /\ r.pc = "enrich"
  BY IsCollectionCall DEF Inv, Enrich
<1>2. request' = [request EXCEPT ![w] = [r EXCEPT !.pc = "write", !.url = url]]
  BY DEF Enrich
<1>3. \A x \in Texts : EnrichCollection(x, r.tenant) \in Shown(r.tenant) \cup {NoText}
  BY <1>1, EnrichedIsShown DEF Inv
<1>4. r.list \in Texts \cup {NoText}
  BY <1>1 DEF CollectionCall, Optional, OwnTexts
<1>5. url \in Shown(r.tenant) \cup {NoText}
  <2>1. CASE r.kind \in AllowedPatches
    <3>1. url = EnrichPatch(r) /\ (r.kind = "patch_list" => r.list \in Texts)
      BY <1>1, <1>4, <2>1 DEF EnrichRequest, CollectionCall, AllowedPatches
    <3> QED
      BY <1>3, <3>1 DEF EnrichPatch
  <2>2. CASE r.kind = "clone"
    <3>1. r.seen.list \in Texts
      BY <1>1, <2>2 DEF CollectionCall, LiveCollection, Shown
    <3>2. ApplyOverrides(r).list \in Texts
      BY <1>4, <3>1 DEF ApplyOverrides
    <3> QED
      BY <1>3, <2>2, <3>2 DEF EnrichRequest, AllowedPatches
  <2>3. CASE r.kind \notin AllowedPatches \cup {"clone"}
    <3>1. r.list # NoText \/ r.kind = "delete"
      BY <1>1, <2>3 DEF CollectionCall, CollectionKinds
    <3>2. r.kind # "delete"
      BY <1>1 DEF CollectionCall
    <3> QED
      BY <1>3, <1>4, <2>3, <3>1, <3>2 DEF EnrichRequest
  <2> QED
    BY <2>1, <2>2, <2>3
<1> HIDE DEF url
<1>6. CollectionCall([r EXCEPT !.pc = "write", !.url = url], r.tenant)
  BY <1>1, <1>5 DEF CollectionCall
<1> HIDE DEF r
<1>7. CallOK([r EXCEPT !.pc = "write", !.url = url])
  BY <1>1, <1>6 DEF CallOK
<1> QED
  BY <1>2, <1>7, CallsExcept DEF Inv, r

\* The read of a provider transaction hands over a row of the tenant.
LEMMA ReadProviderIsSound == ASSUME Inv, NEW w \in Workers, ReadProvider(w) PROVE CallsOK'
<1> DEFINE r == request[w]
<1> DEFINE row == prov[r.id]
<1>1. r.tenant \in Tenants /\ ProviderCall(r, r.tenant) /\ r.pc = "read"
  BY IsProviderCall DEF Inv, ReadProvider
<1>2. r.id \in Providers
  BY <1>1 DEF ProviderCall
<1>3. CASE Done(w)
  BY <1>3, DoneIsSound DEF Inv
<1>4. CASE ~Done(w)
  <2>1. /\ row.owner = r.tenant
        /\ request' = [request EXCEPT ![w] = [r EXCEPT !.pc = "put", !.seen = row]]
    BY <1>4 DEF ReadProvider
  <2>2. row \notin {NoProvider, DeletedProvider}
    BY <1>1, <2>1, RegistryAssumption DEF NoProvider, DeletedProvider
  <2>3. PICK o \in Owners : row \in LiveProvider(o)
    BY <1>2, <2>2 DEF Inv, RowsOK, ProviderRowOK, ProviderIds
  <2>4. row \in LiveProvider(r.tenant)
    BY <2>1, <2>3 DEF LiveProvider
  <2> HIDE DEF row
  <2>5. ProviderCall([r EXCEPT !.pc = "put", !.seen = row], r.tenant)
    BY <1>1, <2>2, <2>4 DEF ProviderCall
  <2> HIDE DEF r
  <2>6. CallOK([r EXCEPT !.pc = "put", !.seen = row])
    BY <1>1, <2>5 DEF CallOK
  <2> QED
    BY <2>1, <2>6, CallsExcept DEF Inv
<1> QED
  BY <1>3, <1>4

\* Every step keeps the requests sound.
LEMMA CallsStep == Inv /\ [Next]_vars => CallsOK'
<1> SUFFICES ASSUME Inv, [Next]_vars PROVE CallsOK'
  OBVIOUS
<1>1. ASSUME NEW w \in Workers, NEW r \in CollectionRequests \cup ProviderRequests, Receive(w, r)
      PROVE  CallsOK'
  BY <1>1, ReceivedIsSound, CallsExcept DEF Receive, Inv
<1>2. ASSUME NEW w \in Workers,
             HandleUpdateCollection(w) \/ HandlePatchCollection(w) \/ ReadCloneSource(w)
      PROVE  CallsOK'
  BY <1>2, ReadExistingIsSound DEF HandleUpdateCollection, HandlePatchCollection, ReadCloneSource
<1>3. ASSUME NEW w \in Workers, Enrich(w) PROVE CallsOK'
  BY <1>3, EnrichIsSound
<1>4. ASSUME NEW w \in Workers,
             \/ HandleCreateCollection(w) \/ HandleCloneCollection(w) \/ UpdateCollection(w)
             \/ PatchCollection(w) \/ DeleteCollection(w)
             \/ CreateProvider(w) \/ UpdateProvider(w) \/ PatchProvider(w) \/ DeleteProvider(w)
      PROVE  CallsOK'
  BY <1>4, DoneIsSound
  DEF Inv, HandleCreateCollection, HandleCloneCollection, UpdateCollection, PatchCollection,
      DeleteCollection, CreateProvider, UpdateProvider, PatchProvider, DeleteProvider, PutProvider
<1>5. ASSUME NEW w \in Workers, ValidatePatchedProvider(w) PROVE CallsOK'
  <2>1. CASE Done(w)
    BY <2>1, DoneIsSound DEF Inv
  <2>2. CASE request' = [request EXCEPT ![w].pc = "read"]
    <3> DEFINE r == request[w]
    <3>1. r.tenant \in Tenants /\ ProviderCall(r, r.tenant) /\ r.pc = "validate"
      BY <1>5, IsProviderCall DEF Inv, ValidatePatchedProvider
    <3>2. ProviderCall([r EXCEPT !.pc = "read"], r.tenant)
      BY <3>1 DEF ProviderCall
    <3> HIDE DEF r
    <3>3. CallOK([r EXCEPT !.pc = "read"])
      BY <3>1, <3>2 DEF CallOK
    <3> QED
      BY <2>2, <3>3, CallsExcept DEF Inv, r
  <2> QED
    BY <1>5, <2>1, <2>2 DEF ValidatePatchedProvider
<1>6. ASSUME NEW w \in Workers, ReadProvider(w) PROVE CallsOK'
  BY <1>6, ReadProviderIsSound
<1>7. ASSUME NEW present \in SUBSET SystemIds, NEW text \in OwnTexts("system"),
             LoadSystemResources(present, text)
      PROVE  CallsOK'
  BY <1>7 DEF LoadSystemResources, Inv, CallsOK
<1>8. CASE UNCHANGED vars
  BY <1>8 DEF vars, Inv, CallsOK
<1> QED
  BY <1>1, <1>2, <1>3, <1>4, <1>5, <1>6, <1>7, <1>8 DEF Next

-----------------------------------------------------------------------------
(* Rows stay clean                                                             *)

\* Writing a sound collection keeps the tables sound.
LEMMA WriteIsSound ==
  ASSUME RowsOK, NEW i \in CollectionIds, NEW row, CollectionRowOK(row), Write(i, row)
  PROVE  RowsOK'
  BY DEF RowsOK, Write

\* So does writing a sound provider.
LEMMA ProviderWriteIsSound ==
  ASSUME RowsOK, NEW i \in ProviderIds, NEW row, ProviderRowOK(row),
         prov' = [prov EXCEPT ![i] = row], UNCHANGED coll
  PROVE  RowsOK'
  BY DEF RowsOK

\* PutProvider with a sound row keeps the tables sound.
LEMMA PutIsSound ==
  ASSUME RowsOK, NEW w \in Workers, request[w].id \in Providers, NEW row, ProviderRowOK(row),
         PutProvider(w, row)
  PROVE  RowsOK'
<1>1. CASE prov' = prov
  BY <1>1 DEF RowsOK, PutProvider
<1>2. CASE prov' # prov
  BY <1>2, ProviderWriteIsSound DEF PutProvider, ProviderIds
<1> QED
  BY <1>1, <1>2

\* A collection that a request may write to, by the test on the locked row, is a live one of
\* its tenant and not curated.
LEMMA NotRefused ==
  ASSUME Inv, NEW w \in Workers, request[w].pc = "write", request[w].kind # "create",
         ~Refused(request[w])
  PROVE  /\ request[w].id \in Collections
         /\ coll[request[w].id] \in LiveCollection(request[w].tenant)
         /\ ~ReadOnlyCollection(coll[request[w].id])
<1> DEFINE r == request[w]
<1>1. r.tenant \in Tenants /\ CollectionCall(r, r.tenant)
  BY IsCollectionCall DEF Inv
<1>2. r.id \in Collections
  BY <1>1 DEF CollectionCall
<1>3. isVisibleResource(coll[r.id], r.tenant) /\ ~ReadOnlyCollection(coll[r.id])
  BY DEF Refused, ReadOnlyNow
<1>4. coll[r.id] \in LiveCollection(r.tenant) \cup LiveCollection("system")
  BY <1>1, <1>2, <1>3, VisibleCollection DEF Inv, CollectionIds
<1>5. coll[r.id] \notin LiveCollection("system")
  BY <1>3 DEF ReadOnlyCollection, LiveCollection
<1> QED
  BY <1>2, <1>3, <1>4, <1>5

\* Every step keeps the rows clean: a request writes texts of its tenant or ones the
\* tenant could see, to rows of the tenant.
LEMMA RowsStep == Inv /\ [Next]_vars => RowsOK'
<1> SUFFICES ASSUME Inv, [Next]_vars PROVE RowsOK'
  OBVIOUS
<1>1. ASSUME NEW w \in Workers, HandleCreateCollection(w) PROVE RowsOK'
  <2> DEFINE r == request[w]
  <2> DEFINE row == [owner |-> r.tenant, name |-> r.name, list |-> r.list, url |-> r.url,
                     curation |-> r.curation, from |-> NoId]
  <2>1. r.tenant \in Tenants /\ CollectionCall(r, r.tenant) /\ r.kind = "create"
    BY <1>1, IsCollectionCall DEF Inv, HandleCreateCollection
  <2>2. r.name \in Shown(r.tenant) /\ r.list \in Shown(r.tenant)
    BY <2>1, OwnIsShown DEF CollectionCall, Optional, Owners
  <2>3. row \in LiveCollection(r.tenant)
    BY <2>1, <2>2 DEF CollectionCall, LiveCollection
  <2>4. CollectionRowOK(row)
    BY <2>1, <2>3 DEF CollectionRowOK, Owners
  <2>5. Write(w, row)
    BY <1>1 DEF HandleCreateCollection
  <2> HIDE DEF row
  <2> QED
    BY <2>4, <2>5, WriteIsSound DEF Inv, CollectionIds
<1>2. ASSUME NEW w \in Workers, HandleCloneCollection(w) PROVE RowsOK'
  <2> DEFINE r == request[w]
  <2> DEFINE c == ApplyOverrides(r)
  <2> DEFINE row == [owner |-> r.tenant, name |-> c.name, list |-> c.list, url |-> r.url,
                     curation |-> c.curation, from |-> r.id]
  <2>1. /\ r.tenant \in Tenants /\ CollectionCall(r, r.tenant)
        /\ r.kind = "clone" /\ r.pc = "write"
    BY <1>2, IsCollectionCall DEF Inv, HandleCloneCollection
  <2>2. \A x \in Optional(r.tenant) : x # NoText => x \in Shown(r.tenant)
    BY <2>1, OwnIsShown DEF Optional, Owners
  <2>3. r.seen \in LiveCollection(r.tenant) \cup LiveCollection("system")
    BY <2>1 DEF CollectionCall
  <2>4. r.seen.name \in Shown(r.tenant) /\ r.seen.list \in Shown(r.tenant)
    BY <2>1, <2>3, SystemIsShown DEF LiveCollection, Owners
  <2>5. c.name \in Shown(r.tenant) /\ c.list \in Shown(r.tenant) /\ c.curation = 0
    BY <2>1, <2>2, <2>4 DEF ApplyOverrides, CollectionCall
  <2>6. Write(w, row)
    BY <1>2 DEF HandleCloneCollection
  <2> HIDE DEF c
  <2>7. row \in LiveCollection(r.tenant)
    BY <2>1, <2>5 DEF CollectionCall, LiveCollection
  <2>8. CollectionRowOK(row)
    BY <2>1, <2>7 DEF CollectionRowOK, Owners
  <2> HIDE DEF row
  <2> QED
    BY <2>6, <2>8, WriteIsSound DEF Inv, CollectionIds
<1>3. ASSUME NEW w \in Workers, UpdateCollection(w), ~Refused(request[w]) PROVE RowsOK'
  <2> DEFINE r == request[w]
  <2> DEFINE row == [coll[r.id] EXCEPT !.name = r.name, !.list = r.list, !.url = r.url,
                                       !.curation = r.curation]
  <2>1. r.tenant \in Tenants /\ CollectionCall(r, r.tenant) /\ r.kind = "update" /\ r.pc = "write"
    BY <1>3, IsCollectionCall DEF Inv, UpdateCollection
  <2>2. r.id \in Collections /\ coll[r.id] \in LiveCollection(r.tenant)
    BY <1>3, <2>1, NotRefused
  <2>3. r.name \in Shown(r.tenant) /\ r.list \in Shown(r.tenant)
    BY <2>1, OwnIsShown DEF CollectionCall, Optional, Owners
  <2>4. row \in LiveCollection(r.tenant)
    BY <2>1, <2>2, <2>3 DEF CollectionCall, LiveCollection
  <2>5. CollectionRowOK(row)
    BY <2>1, <2>4 DEF CollectionRowOK, Owners
  <2>6. Write(r.id, row)
    BY <1>3 DEF UpdateCollection
  <2> HIDE DEF row
  <2> QED
    BY <2>2, <2>5, <2>6, WriteIsSound DEF Inv, CollectionIds
<1>4. ASSUME NEW w \in Workers, PatchCollection(w), ~Refused(request[w]) PROVE RowsOK'
  <2> DEFINE r == request[w]
  <2> DEFINE b == coll[r.id]
  <2> DEFINE row == CASE r.kind = "patch_name" -> [b EXCEPT !.name = r.name]
                      [] r.kind = "patch_list" -> [b EXCEPT !.list = r.list, !.url = r.url]
                      [] OTHER -> b
  <2>1. /\ r.tenant \in Tenants /\ CollectionCall(r, r.tenant)
        /\ r.kind \in AllowedPatches /\ r.pc = "write"
    BY <1>4, IsCollectionCall DEF Inv, PatchCollection
  <2>2. r.id \in Collections /\ b \in LiveCollection(r.tenant)
    BY <1>4, <2>1, NotRefused DEF AllowedPatches
  <2>3. Write(r.id, row)
    BY <1>4 DEF PatchCollection, PatchBase
  <2>4. /\ r.kind = "patch_name" => r.name \in Shown(r.tenant)
        /\ r.kind = "patch_list" => r.list \in Shown(r.tenant)
    BY <2>1, OwnIsShown DEF CollectionCall, Optional, Owners
  <2> HIDE DEF b
  <2>5. row \in LiveCollection(r.tenant)
    <3>1. CASE r.kind = "patch_name"
      BY <2>2, <2>4, <3>1 DEF LiveCollection
    <3>2. CASE r.kind = "patch_list"
      BY <2>1, <2>2, <2>4, <3>2 DEF LiveCollection, CollectionCall
    <3>3. CASE r.kind \notin {"patch_name", "patch_list"}
      BY <2>2, <3>3
    <3> QED
      BY <3>1, <3>2, <3>3
  <2>6. CollectionRowOK(row)
    BY <2>1, <2>5 DEF CollectionRowOK, Owners
  <2> HIDE DEF row
  <2> QED
    BY <2>2, <2>3, <2>6, WriteIsSound DEF Inv, CollectionIds
<1>5. ASSUME NEW w \in Workers, DeleteCollection(w), coll[request[w].id].owner = request[w].tenant
      PROVE  RowsOK'
  <2>1. CollectionCall(request[w], request[w].tenant) /\ request[w].kind = "delete"
    BY <1>5, IsCollectionCall DEF Inv, DeleteCollection
  <2>2. request[w].id \in CollectionIds
    BY <2>1 DEF CollectionCall, CollectionIds
  <2>3. CollectionRowOK(DeletedRow)
    BY DEF CollectionRowOK
  <2> QED
    BY <1>5, <2>2, <2>3, WriteIsSound DEF DeleteCollection, DeletedRow, Inv
<1>6. ASSUME NEW w \in Workers, CreateProvider(w) PROVE RowsOK'
  <2> DEFINE r == request[w]
  <2> DEFINE row == [owner |-> r.tenant, name |-> r.name, url |-> r.url]
  <2>1. r.tenant \in Tenants /\ ProviderCall(r, r.tenant) /\ r.pc = "insert"
    BY <1>6, IsProviderCall DEF Inv, CreateProvider
  <2>2. r.name \in Shown(r.tenant) /\ r.url \in Shown(r.tenant)
    BY <2>1, OwnIsShown DEF ProviderCall, Optional, Owners
  <2>3. ProviderRowOK(row)
    BY <2>1, <2>2 DEF LiveProvider, ProviderRowOK, Owners
  <2>4. prov' = [prov EXCEPT ![w] = row] /\ UNCHANGED coll
    BY <1>6 DEF CreateProvider
  <2> HIDE DEF row
  <2> QED
    BY <2>3, <2>4, ProviderWriteIsSound DEF Inv, ProviderIds
<1>7. ASSUME NEW w \in Workers, UpdateProvider(w) \/ PatchProvider(w) PROVE RowsOK'
  <2> DEFINE r == request[w]
  <2>1. r.tenant \in Tenants /\ ProviderCall(r, r.tenant) /\ r.pc = "put"
    BY <1>7, IsProviderCall DEF Inv, UpdateProvider, PatchProvider
  <2>2. r.seen \in LiveProvider(r.tenant) /\ r.id \in Providers
    BY <2>1 DEF ProviderCall
  <2>3. /\ r.kind \in {"update", "patch_name"} => r.name \in Shown(r.tenant)
        /\ r.kind \in {"update", "patch_url"} => r.url \in Shown(r.tenant)
    BY <2>1, OwnIsShown DEF ProviderCall, Optional, Owners
  <2>4. PICK row \in LiveProvider(r.tenant) : PutProvider(w, row)
    <3>1. CASE UpdateProvider(w)
      <4>1. [r.seen EXCEPT !.name = r.name, !.url = r.url] \in LiveProvider(r.tenant)
        BY <2>2, <2>3, <3>1 DEF LiveProvider, UpdateProvider
      <4> QED
        BY <3>1, <4>1 DEF UpdateProvider
    <3>2. CASE PatchProvider(w) /\ r.kind = "patch_name"
      <4>1. [r.seen EXCEPT !.name = r.name] \in LiveProvider(r.tenant)
        BY <2>2, <2>3, <3>2 DEF LiveProvider
      <4> QED
        BY <3>2, <4>1 DEF PatchProvider
    <3>3. CASE PatchProvider(w) /\ r.kind # "patch_name"
      <4>1. [r.seen EXCEPT !.url = r.url] \in LiveProvider(r.tenant)
        BY <2>2, <2>3, <3>3 DEF LiveProvider, PatchProvider
      <4> QED
        BY <3>3, <4>1 DEF PatchProvider
    <3> QED
      BY <1>7, <3>1, <3>2, <3>3
  <2>5. ProviderRowOK(row)
    BY <2>1 DEF ProviderRowOK, Owners
  <2> QED
    BY <2>2, <2>4, <2>5, PutIsSound DEF Inv
<1>8. ASSUME NEW w \in Workers, DeleteProvider(w) PROVE RowsOK'
  <2>1. request[w].id \in Providers
    BY <1>8, IsProviderCall DEF Inv, DeleteProvider, ProviderCall
  <2>2. ProviderRowOK(DeletedProvider)
    BY DEF ProviderRowOK
  <2> QED
    BY <1>8, <2>1, <2>2, PutIsSound DEF DeleteProvider, DeletedProvider, Inv
<1>9. ASSUME NEW present \in SUBSET SystemIds, NEW text \in OwnTexts("system"),
             LoadSystemResources(present, text)
      PROVE  RowsOK'
  <2>1. text \in Shown("system")
    BY OwnIsShown DEF Owners
  <2>2. \A i \in CollectionIds : SystemRow(i, text) \in LiveCollection("system")
    BY <2>1 DEF SystemRow, NoRow, LiveCollection
  <2>3. \A i \in CollectionIds : coll'[i] \in {coll[i], NoRow, SystemRow(i, text)}
    BY <1>9 DEF LoadSystemResources
  <2>4. \A i \in CollectionIds : CollectionRowOK(coll'[i])
    BY <2>2, <2>3 DEF CollectionRowOK, Inv, RowsOK, Owners
  <2>5. [owner |-> "system", name |-> text, url |-> text] \in LiveProvider("system")
    BY <2>1 DEF LiveProvider
  <2>6. \A i \in ProviderIds :
          prov'[i] \in {prov[i], NoProvider, [owner |-> "system", name |-> text, url |-> text]}
    BY <1>9 DEF LoadSystemResources
  <2>7. \A i \in ProviderIds : ProviderRowOK(prov'[i])
    BY <2>5, <2>6 DEF ProviderRowOK, Inv, RowsOK, Owners
  <2> QED
    BY <1>9, <2>4, <2>7 DEF LoadSystemResources, RowsOK
<1>10. CASE UNCHANGED <<coll, prov>>
  BY <1>10 DEF Inv, RowsOK
<1> QED
  BY <1>1, <1>2, <1>3, <1>4, <1>5, <1>6, <1>7, <1>8, <1>9, <1>10
  DEF Next, vars, Receive, HandleUpdateCollection, HandlePatchCollection, ReadCloneSource,
      ReadExisting, Enrich, UpdateCollection, PatchCollection, DeleteCollection,
      ValidatePatchedProvider, ReadProvider

-----------------------------------------------------------------------------
(* Who changes a collection                                                    *)

\* The ways a collection changes: the configuration is reloaded; the request whose row it is
\* creates it; or a request of its owner writes it, unless it is read-only, or deletes it.
Reloaded(i)  == i \in SystemIds /\ ConfiguredRow(i, coll'[i])
Created(i)   == /\ i \in Workers /\ request[i].pc # "done" /\ request'[i].pc = "done"
                /\ coll'[i].owner \in Tenants
Rewritten(i) == /\ i \in Collections /\ coll[i].owner \in Tenants
                /\ \/ ~ReadOnlyCollection(coll[i]) /\ coll'[i].owner \in Tenants
                   \/ coll'[i] = DeletedRow

\* A step changes a collection in one of these ways only.
LEMMA CollectionChange ==
  ASSUME Inv, [Next]_vars, NEW i \in CollectionIds, coll'[i] # coll[i]
  PROVE  Reloaded(i) \/ Created(i) \/ Rewritten(i)
<1> DEFINE Goal == Reloaded(i) \/ Created(i) \/ Rewritten(i)
<1>1. ASSUME NEW w \in Workers, HandleCreateCollection(w) \/ HandleCloneCollection(w) PROVE Goal
  <2>1. /\ request[w].tenant \in Tenants /\ request[w].pc = "write"
        /\ request' = [request EXCEPT ![w] = [pc |-> "done"]]
    BY <1>1, IsCollectionCall DEF Inv, HandleCreateCollection, HandleCloneCollection, Done
  <2>2. PICK row : coll' = [coll EXCEPT ![w] = row] /\ row.owner = request[w].tenant
    <3> DEFINE r == request[w]
    <3> DEFINE c == ApplyOverrides(r)
    <3>1. CASE HandleCreateCollection(w)
      <4> DEFINE row == [owner |-> r.tenant, name |-> r.name, list |-> r.list, url |-> r.url,
                         curation |-> r.curation, from |-> NoId]
      <4>1. coll' = [coll EXCEPT ![w] = row] /\ row.owner = r.tenant
        BY <3>1 DEF HandleCreateCollection, Write
      <4> QED
        BY <4>1
    <3>2. CASE HandleCloneCollection(w)
      <4> DEFINE row == [owner |-> r.tenant, name |-> c.name, list |-> c.list, url |-> r.url,
                         curation |-> c.curation, from |-> r.id]
      <4>1. coll' = [coll EXCEPT ![w] = row] /\ row.owner = r.tenant
        BY <3>2 DEF HandleCloneCollection, Write
      <4> QED
        BY <4>1
    <3> QED
      BY <1>1, <3>1, <3>2
  <2>3. i = w /\ coll'[i].owner = request[w].tenant
    BY <2>2 DEF Inv, RowsOK
  <2>4. request'[w].pc = "done"
    BY <2>1 DEF Inv, CallsOK
  <2> QED
    BY <2>1, <2>3, <2>4 DEF Created
<1>2. ASSUME NEW w \in Workers, UpdateCollection(w) \/ PatchCollection(w) PROVE Goal
  <2> DEFINE r == request[w]
  <2>1. ~Refused(r) /\ r.pc = "write" /\ r.kind # "create" /\ r.tenant \in Tenants
    BY <1>2, IsCollectionCall DEF Inv, UpdateCollection, PatchCollection, AllowedPatches
  <2>2. /\ r.id \in Collections /\ coll[r.id] \in LiveCollection(r.tenant)
        /\ ~ReadOnlyCollection(coll[r.id])
    BY <2>1, NotRefused
  <2>3. PICK row : coll' = [coll EXCEPT ![r.id] = row] /\ row.owner = coll[r.id].owner
    <3>1. CASE UpdateCollection(w)
      <4> DEFINE row == [coll[r.id] EXCEPT !.name = r.name, !.list = r.list, !.url = r.url,
                                           !.curation = r.curation]
      <4>1. coll' = [coll EXCEPT ![r.id] = row]
        BY <2>1, <3>1 DEF UpdateCollection, Write
      <4>2. row.owner = coll[r.id].owner
        BY <2>2 DEF LiveCollection
      <4> QED
        BY <4>1, <4>2
    <3>2. CASE PatchCollection(w)
      <4> DEFINE b == coll[r.id]
      <4> DEFINE row == CASE r.kind = "patch_name" -> [b EXCEPT !.name = r.name]
                          [] r.kind = "patch_list" -> [b EXCEPT !.list = r.list, !.url = r.url]
                          [] OTHER -> b
      <4>1. coll' = [coll EXCEPT ![r.id] = row]
        BY <2>1, <3>2 DEF PatchCollection, PatchBase, Write
      <4>2. row.owner = b.owner
        BY <2>2 DEF LiveCollection
      <4> QED
        BY <4>1, <4>2
    <3> QED
      BY <1>2, <3>1, <3>2
  <2>4. i = r.id /\ coll'[i].owner = coll[i].owner /\ coll[i].owner = r.tenant
    BY <2>2, <2>3 DEF Inv, RowsOK, LiveCollection
  <2> QED
    BY <2>1, <2>2, <2>4 DEF Rewritten
<1>3. ASSUME NEW w \in Workers, DeleteCollection(w) PROVE Goal
  <2> DEFINE r == request[w]
  <2>1. r.tenant \in Tenants /\ CollectionCall(r, r.tenant) /\ r.kind = "delete"
    BY <1>3, IsCollectionCall DEF Inv, DeleteCollection
  <2>2. coll[r.id].owner = r.tenant /\ coll' = [coll EXCEPT ![r.id] = DeletedRow]
    BY <1>3 DEF DeleteCollection, Write, DeletedRow
  <2>3. i = r.id /\ coll'[i] = DeletedRow
    BY <2>2 DEF Inv, RowsOK
  <2> QED
    BY <2>1, <2>2, <2>3 DEF Rewritten, CollectionCall
<1>4. ASSUME NEW present \in SUBSET SystemIds, NEW text \in OwnTexts("system"),
             LoadSystemResources(present, text)
      PROVE  Goal
  <2>1. i \in SystemIds /\ coll'[i] \in {NoRow, SystemRow(i, text)}
    BY <1>4 DEF LoadSystemResources
  <2> QED
    BY <2>1 DEF Reloaded, ConfiguredRow
<1>5. coll' # coll
  OBVIOUS
<1> QED
  BY <1>1, <1>2, <1>3, <1>4, <1>5
  DEF Next, vars, Receive, HandleUpdateCollection, HandlePatchCollection, ReadCloneSource,
      ReadExisting, Enrich, CreateProvider, ValidatePatchedProvider, ReadProvider, UpdateProvider,
      PatchProvider, DeleteProvider, PutProvider

\* A request that was answered stays so.
LEMMA AnsweredStays ==
  ASSUME Inv, [Next]_vars, NEW w \in Workers, request[w].pc = "done"
  PROVE  request'[w].pc = "done"
<1>1. ASSUME NEW v \in Workers, NEW r, request' = [request EXCEPT ![v] = r], v # w \/ r.pc = "done"
      PROVE  request'[w].pc = "done"
  BY <1>1 DEF Inv, CallsOK
<1>2. ASSUME NEW v \in Workers, Done(v) PROVE request'[w].pc = "done"
  BY <1>1, <1>2 DEF Done
<1>3. ASSUME NEW v \in Workers, NEW r, Receive(v, r) PROVE request'[w].pc = "done"
  BY <1>1, <1>3 DEF Receive
<1>4. ASSUME NEW v \in Workers, NEW refused, request[v].pc = "check", ReadExisting(v, refused)
      PROVE  request'[w].pc = "done"
  BY <1>1, <1>2, <1>4 DEF ReadExisting
<1>5. ASSUME NEW v \in Workers, Enrich(v) PROVE request'[w].pc = "done"
  BY <1>1, <1>5 DEF Enrich
<1>6. ASSUME NEW v \in Workers, ValidatePatchedProvider(v) \/ ReadProvider(v)
      PROVE  request'[w].pc = "done"
  BY <1>1, <1>2, <1>6 DEF ValidatePatchedProvider, ReadProvider
<1>7. CASE UNCHANGED request
  BY <1>7
<1> QED
  BY <1>2, <1>3, <1>4, <1>5, <1>6, <1>7
  DEF Next, vars, HandleUpdateCollection, HandlePatchCollection, ReadCloneSource,
      HandleCreateCollection, HandleCloneCollection, UpdateCollection, PatchCollection,
      DeleteCollection, CreateProvider, UpdateProvider, PatchProvider, DeleteProvider, PutProvider,
      LoadSystemResources

\* Every step keeps rows in their places: tenants' requests do not touch what the
\* configuration put there.
LEMMA PlacesStep == Inv /\ PlacesOK /\ [Next]_vars => PlacesOK'
<1> SUFFICES ASSUME Inv, PlacesOK, [Next]_vars PROVE PlacesOK'
  OBVIOUS
<1>1. ASSUME NEW i \in CollectionIds
      PROVE  IF i \in SystemIds THEN ConfiguredRow(i, coll'[i]) ELSE coll'[i].owner # "system"
  <2>1. CASE coll'[i] = coll[i]
    BY <2>1 DEF PlacesOK
  <2>2. CASE Reloaded(i)
    BY <2>2 DEF Reloaded
  <2>3. CASE Created(i)
    BY <2>3, RegistryAssumption DEF Created
  <2>4. CASE Rewritten(i)
    <3>1. i \notin SystemIds
      BY <2>4, ConfiguredOwner, RegistryAssumption DEF Rewritten, PlacesOK
    <3> QED
      BY <2>4, <3>1, RegistryAssumption DEF Rewritten, DeletedRow, NoRow
  <2> QED
    BY <2>1, <2>2, <2>3, <2>4, CollectionChange
<1>2. ASSUME NEW w \in Workers, request'[w].pc # "done" PROVE coll'[w] = NoRow
  <2>1. coll[w] = NoRow
    BY <1>2, AnsweredStays DEF PlacesOK
  <2>2. ~Reloaded(w) /\ ~Created(w) /\ ~Rewritten(w)
    BY <1>2, RegistryAssumption DEF Reloaded, Created, Rewritten
  <2> QED
    BY <2>1, <2>2, CollectionChange DEF CollectionIds
<1> QED
  BY <1>1, <1>2 DEF PlacesOK, ConfiguredRow

-----------------------------------------------------------------------------
(* Acknowledged writes                                                         *)

\* Every step keeps what was acknowledged in step with the table: the row that is written is
\* the locked one, changed in the fields the answer speaks of.
LEMMA AckedStep == Inv /\ AckedOK /\ [Next]_vars => AckedOK'
<1> SUFFICES ASSUME Inv, AckedOK, [Next]_vars PROVE AckedOK'
  OBVIOUS
<1>1. ASSUME NEW i \in CollectionIds, NEW row, NEW ack, coll' = [coll EXCEPT ![i] = row],
             acked' = [acked EXCEPT ![i] = ack],
             ack = [name |-> row.name, list |-> row.list, from |-> row.from]
      PROVE  AckedOK'
  BY <1>1 DEF AckedOK, Inv, RowsOK
<1>2. ASSUME NEW w \in Workers, HandleCreateCollection(w) PROVE AckedOK'
  <2> DEFINE r == request[w]
  <2> DEFINE row == [owner |-> r.tenant, name |-> r.name, list |-> r.list, url |-> r.url,
                     curation |-> r.curation, from |-> NoId]
  <2>1. /\ coll' = [coll EXCEPT ![w] = row]
        /\ acked' = [acked EXCEPT ![w] = [name |-> r.name, list |-> r.list, from |-> NoId]]
    BY <1>2 DEF HandleCreateCollection, Write, Ack
  <2>2. row.name = r.name /\ row.list = r.list /\ row.from = NoId
    OBVIOUS
  <2> HIDE DEF row
  <2> QED
    BY <1>1, <2>1, <2>2 DEF CollectionIds
<1>3. ASSUME NEW w \in Workers, HandleCloneCollection(w) PROVE AckedOK'
  <2> DEFINE r == request[w]
  <2> DEFINE c == ApplyOverrides(r)
  <2> DEFINE row == [owner |-> r.tenant, name |-> c.name, list |-> c.list, url |-> r.url,
                     curation |-> c.curation, from |-> r.id]
  <2>1. /\ coll' = [coll EXCEPT ![w] = row]
        /\ acked' = [acked EXCEPT ![w] = [name |-> c.name, list |-> c.list, from |-> r.id]]
    BY <1>3 DEF HandleCloneCollection, Write, Ack
  <2>2. row.name = c.name /\ row.list = c.list /\ row.from = r.id
    OBVIOUS
  <2> HIDE DEF row, c
  <2> QED
    BY <1>1, <2>1, <2>2 DEF CollectionIds
<1>4. ASSUME NEW w \in Workers, UpdateCollection(w), ~Refused(request[w]) PROVE AckedOK'
  <2> DEFINE r == request[w]
  <2> DEFINE row == [coll[r.id] EXCEPT !.name = r.name, !.list = r.list, !.url = r.url,
                                       !.curation = r.curation]
  <2>1. r.id \in Collections /\ coll[r.id] \in LiveCollection(r.tenant)
    BY <1>4, NotRefused DEF UpdateCollection
  <2>2. /\ coll' = [coll EXCEPT ![r.id] = row]
        /\ acked' = [acked EXCEPT ![r.id] = [name |-> r.name, list |-> r.list,
                                             from |-> acked[r.id].from]]
    BY <1>4 DEF UpdateCollection, Write, Ack
  <2>3. row.name = r.name /\ row.list = r.list /\ row.from = coll[r.id].from
    BY <2>1 DEF LiveCollection
  <2>4. acked[r.id].from = coll[r.id].from
    BY <2>1 DEF AckedOK, CollectionIds
  <2> HIDE DEF row
  <2> QED
    BY <1>1, <2>1, <2>2, <2>3, <2>4 DEF CollectionIds
<1>5. ASSUME NEW w \in Workers, PatchCollection(w), ~Refused(request[w]) PROVE AckedOK'
  <2> DEFINE r == request[w]
  <2> DEFINE b == coll[r.id]
  <2> DEFINE a == acked[r.id]
  <2> DEFINE row == CASE r.kind = "patch_name" -> [b EXCEPT !.name = r.name]
                      [] r.kind = "patch_list" -> [b EXCEPT !.list = r.list, !.url = r.url]
                      [] OTHER -> b
  <2> DEFINE ack == CASE r.kind = "patch_name" -> [a EXCEPT !.name = r.name]
                      [] r.kind = "patch_list" -> [a EXCEPT !.list = r.list]
                      [] OTHER -> a
  <2>1. r.id \in Collections /\ b \in LiveCollection(r.tenant)
    BY <1>5, NotRefused DEF PatchCollection, AllowedPatches
  <2>2. coll' = [coll EXCEPT ![r.id] = row]
    BY <1>5 DEF PatchCollection, PatchBase, Write
  <2>3. acked' = [acked EXCEPT ![r.id] = ack]
    BY <1>5 DEF PatchCollection
  <2>4. a = [name |-> b.name, list |-> b.list, from |-> b.from]
    BY <2>1 DEF AckedOK, CollectionIds
  <2> HIDE DEF a, b
  <2>5. ack = [name |-> row.name, list |-> row.list, from |-> row.from]
    <3>1. CASE r.kind = "patch_name"
      BY <2>1, <2>4, <3>1 DEF LiveCollection
    <3>2. CASE r.kind = "patch_list"
      BY <2>1, <2>4, <3>2 DEF LiveCollection
    <3>3. CASE r.kind \notin {"patch_name", "patch_list"}
      BY <2>4, <3>3
    <3> QED
      BY <3>1, <3>2, <3>3
  <2> HIDE DEF row, ack
  <2> QED
    BY <1>1, <2>1, <2>2, <2>3, <2>5 DEF CollectionIds
<1>6. ASSUME NEW w \in Workers, DeleteCollection(w), coll[request[w].id].owner = request[w].tenant
      PROVE  AckedOK'
  <2> DEFINE i == request[w].id
  <2>1. i \in CollectionIds
    BY <1>6, IsCollectionCall DEF Inv, DeleteCollection, CollectionCall, CollectionIds
  <2>2. /\ coll' = [coll EXCEPT ![i] = DeletedRow]
        /\ acked' = [acked EXCEPT ![i] = [name |-> NoText, list |-> NoText, from |-> NoId]]
    BY <1>6 DEF DeleteCollection, Write, Ack, DeletedRow
  <2>3. DeletedRow.name = NoText /\ DeletedRow.list = NoText /\ DeletedRow.from = NoId
    BY DEF DeletedRow, NoRow
  <2> QED
    BY <1>1, <2>1, <2>2, <2>3
<1>7. ASSUME NEW present \in SUBSET SystemIds, NEW text \in OwnTexts("system"),
             LoadSystemResources(present, text)
      PROVE  AckedOK'
  <2>1. \A i \in CollectionIds : /\ i \notin SystemIds => coll'[i] = coll[i]
                                 /\ i \in SystemIds => coll'[i].from = NoId
    BY <1>7 DEF LoadSystemResources, SystemRow, NoRow
  <2>2. acked' = [i \in CollectionIds |->
                    IF i \notin SystemIds THEN acked[i]
                    ELSE [name |-> coll'[i].name, list |-> coll'[i].list, from |-> NoId]]
    BY <1>7 DEF LoadSystemResources
  <2>3. \A i \in CollectionIds :
          acked'[i] = [name |-> coll'[i].name, list |-> coll'[i].list, from |-> coll'[i].from]
    BY <2>1, <2>2 DEF AckedOK
  <2> QED
    BY <2>2, <2>3 DEF AckedOK
<1>8. CASE UNCHANGED <<coll, acked>>
  BY <1>8 DEF AckedOK
<1> QED
  BY <1>2, <1>3, <1>4, <1>5, <1>6, <1>7, <1>8
  DEF Next, vars, Receive, HandleUpdateCollection, HandlePatchCollection, ReadCloneSource,
      ReadExisting, Enrich, UpdateCollection, PatchCollection, DeleteCollection, CreateProvider,
      ValidatePatchedProvider, ReadProvider, UpdateProvider, PatchProvider, DeleteProvider,
      PutProvider

-----------------------------------------------------------------------------
(* The theorems                                                                *)

\* What exists at the start was written by its owner.
LEMMA InvInit == Init => Inv /\ PlacesOK /\ AckedOK
<1> SUFFICES ASSUME Init PROVE Inv /\ PlacesOK /\ AckedOK
  OBVIOUS
<1> DEFINE first(i) == [NoRow EXCEPT !.owner = FirstOwner[i], !.name = FirstText[i],
                                     !.list = FirstText[i]]
<1>1. \A i \in Collections \cup Providers :
        FirstOwner[i] \in Owners /\ FirstText[i] \in Shown(FirstOwner[i])
  BY RegistryAssumption DEF Owners, Shown
<1>2. \A i \in Collections : first(i) \in LiveCollection(FirstOwner[i])
  BY <1>1 DEF LiveCollection, NoRow
<1>3. \A i \in CollectionIds : coll[i] = IF i \in Collections THEN first(i) ELSE NoRow
  BY DEF Init
<1>4. \A i \in CollectionIds : CollectionRowOK(coll[i])
  BY <1>1, <1>2, <1>3 DEF CollectionRowOK
<1>5. \A i \in ProviderIds : ProviderRowOK(prov[i])
  BY <1>1 DEF Init, LiveProvider, ProviderRowOK
<1>6. RowsOK
  BY <1>4, <1>5 DEF RowsOK, Init
<1>7. CallsOK
  BY DEF Init, CallsOK, CallOK
<1>8. ASSUME NEW i \in CollectionIds
      PROVE  IF i \in SystemIds THEN ConfiguredRow(i, coll[i]) ELSE coll[i].owner # "system"
  <2>1. CASE i \in Collections
    <3>1. coll[i].owner = FirstOwner[i]
      BY <1>3, <2>1 DEF NoRow
    <3>2. i \in SystemIds => coll[i] = SystemRow(i, FirstText[i])
      BY <1>3, <2>1, RegistryAssumption DEF SystemRow
    <3>3. i \in SystemIds => FirstText[i] \in OwnTexts("system")
      BY <2>1, RegistryAssumption DEF OwnTexts
    <3> QED
      BY <2>1, <3>1, <3>2, <3>3, RegistryAssumption DEF ConfiguredRow
  <2>2. CASE i \notin Collections
    <3>1. coll[i] = NoRow
      BY <1>3, <2>2
    <3> QED
      BY <3>1 DEF ConfiguredRow, NoRow
  <2> QED
    BY <2>1, <2>2
<1>9. \A w \in Workers : coll[w] = NoRow
  BY <1>3, RegistryAssumption DEF CollectionIds
<1>10. PlacesOK
  BY <1>8, <1>9 DEF PlacesOK
<1>11. ASSUME NEW i \in CollectionIds PROVE coll[i].from = NoId
  <2>1. NoRow.from = NoId /\ first(i).from = NoId
    BY DEF NoRow
  <2> QED
    BY <1>3, <2>1
<1>12. AckedOK
  BY <1>11 DEF AckedOK, Init
<1> QED
  BY <1>6, <1>7, <1>10, <1>12 DEF Inv

\* Rows and requests stay sound.
THEOREM RegistryInvariant == Spec => []Inv
<1>1. Inv /\ [Next]_vars => Inv'
  BY RowsStep, CallsStep DEF Inv
<1> QED
  BY <1>1, InvInit, PTL DEF Spec

\* For every set of tenants and of requests in progress: no text of one tenant stands in a
\* row of another, whatever was cloned, patched or enriched from a provider
\* (isVisibleResource on every read).
THEOREM RegistryTenantsApart == Spec => []TenantsApart
<1>1. ASSUME NEW row, CollectionRowOK(row)
      PROVE  ~Foreign(row, row.name) /\ ~Foreign(row, row.list) /\ ~Foreign(row, row.url)
  <2>1. CASE row \in {NoRow, DeletedRow}
    BY <2>1 DEF NoRow, DeletedRow, Foreign
  <2>2. CASE \E o \in Owners : row \in LiveCollection(o)
    BY <2>2 DEF LiveCollection, Foreign, Shown
  <2> QED
    BY <1>1, <2>1, <2>2 DEF CollectionRowOK
<1>2. ASSUME NEW row, ProviderRowOK(row) PROVE ~Foreign(row, row.name) /\ ~Foreign(row, row.url)
  <2>1. CASE row \in {NoProvider, DeletedProvider}
    BY <2>1 DEF NoProvider, DeletedProvider, Foreign
  <2>2. CASE \E o \in Owners : row \in LiveProvider(o)
    BY <2>2 DEF LiveProvider, Foreign, Shown
  <2> QED
    BY <1>2, <2>1, <2>2 DEF ProviderRowOK
<1>3. Inv => TenantsApart
  BY <1>1, <1>2 DEF Inv, RowsOK, TenantsApart
<1> QED
  BY <1>3, RegistryInvariant, PTL

\* For every set of requests in progress: a collection says what the last acknowledged write
\* of each field wrote (the row lock of PatchCollection and UpdateCollection).
THEOREM RegistryAcknowledgedWriteKept == Spec => []AcknowledgedWriteKept
<1>1. AckedOK => AcknowledgedWriteKept
  BY DEF AckedOK, AcknowledgedWriteKept
<1> QED
  BY <1>1, AckedStep, InvInit, RegistryInvariant, PTL DEF Spec

\* For every set of requests in progress: a tenant's request never changes a system row, and
\* a curated collection only by deleting it, even when the row became read-only after the
\* handler's own check.
THEOREM RegistryReadOnlyHolds == Spec => ReadOnlyHolds
<1> DEFINE Held(i) ==
      ReadOnlyCollection(coll[i]) /\ coll'[i] # coll[i] =>
        IF i \in SystemIds
        THEN coll'[i] = NoRow \/ \E x \in OwnTexts("system") : coll'[i] = SystemRow(i, x)
        ELSE coll'[i].owner = "deleted"
<1>1. ASSUME Inv, PlacesOK, [Next]_vars, NEW i \in CollectionIds PROVE Held(i)
  <2>1. CASE Reloaded(i)
    BY <2>1 DEF Reloaded, ConfiguredRow
  <2>2. CASE Created(i)
    <3>1. coll[i] = NoRow
      BY <1>1, <2>2 DEF Created, PlacesOK
    <3> QED
      BY <3>1 DEF ReadOnlyCollection, NoRow
  <2>3. CASE Rewritten(i)
    <3>1. i \notin SystemIds
      BY <1>1, <2>3, ConfiguredOwner, RegistryAssumption DEF Rewritten, PlacesOK
    <3>2. DeletedRow.owner = "deleted"
      BY DEF DeletedRow, NoRow
    <3> QED
      BY <2>3, <3>1, <3>2 DEF Rewritten
  <2> QED
    BY <1>1, <2>1, <2>2, <2>3, CollectionChange
<1>2. Inv /\ PlacesOK /\ [Next]_vars => [\A i \in CollectionIds : Held(i)]_vars
  BY <1>1
<1>3. Spec => []PlacesOK
  BY InvInit, PlacesStep, RegistryInvariant, PTL DEF Spec
<1>4. Spec => [][\A i \in CollectionIds : Held(i)]_vars
  BY <1>2, <1>3, RegistryInvariant, PTL DEF Spec
<1> QED
  BY <1>4 DEF ReadOnlyHolds

-----------------------------------------------------------------------------
(* The configuration watcher, whose reloads bring the system rows up to    *)
(* date: its safety, for any number of file changes and of reload          *)
(* goroutines.                                                             *)


\* The counter of reloadWg is exact: one ticket for every callback that waits
\* or runs and for a timer that is pending or was stopped by the shutdown.
TicketsExact ==
    tickets = waiting + (IF reload = "none" THEN 0 ELSE 1)
                      + (IF timer \in {"pending", "stopped"} THEN 1 ELSE 0)

\* What the position of Watch and main says about the timer.
StagesOK ==
    /\ watch \in {"setup", "unwatched"} => timer = "none" /\ tickets = 0
    /\ watch \in {"waiting", "returned"} => timer # "pending"
    /\ timer = "stopped" => watch \in {"waiting", "returned"}
    /\ watch = "returned" => tickets = 0
    /\ main = "closed" => watch = "returned"

\* When no event is on its way and no reload will start, the reload under way
\* works on what is on disk, and so did the last one.
ReadsFresh ==
    watch \in {"setup", "select"} /\ events = 0 /\ timer # "pending" /\ waiting = 0 =>
        \/ unseen
        \/ reload = "none" /\ (loaded = disk \/ failed)
        \/ reload = "providers"
        \/ reload = "collections" /\ (readErr \/ read["providers"] = disk["providers"])
        \/ reload = "load" /\ (readErr \/ read = disk)

\* TypeOK in two parts: the provers treat flags and numbers apart.
FlagsOK == readErr \in BOOLEAN /\ failed \in BOOLEAN /\ unseen \in BOOLEAN
RestOK  ==
    /\ disk \in [Dirs -> Nat] /\ loaded \in [Dirs -> Nat] /\ read \in [Dirs -> Nat]
    /\ watched \in SUBSET Dirs /\ events \in Nat
    /\ watch \in {"setup", "select", "unwatched", "waiting", "returned"}
    /\ timer \in {"none", "pending", "fired", "stopped"}
    /\ tickets \in Nat /\ waiting \in Nat
    /\ reload \in {"none", "providers", "collections", "load"}
    /\ main \in {"serving", "stopping", "closed"}

WatcherInv == TypeOK /\ TicketsExact /\ StagesOK /\ ReadsFresh

-----------------------------------------------------------------------------
\* A function on the two directories is determined by its two values.
LEMMA DirsExtensional ==
    ASSUME NEW f \in [Dirs -> Nat], NEW g \in [Dirs -> Nat],
           f["providers"] = g["providers"], f["collections"] = g["collections"]
    PROVE  f = g
  BY DEF Dirs

\* The service starts with the files loaded and no reload outstanding.
LEMMA WatcherStarts == WatcherInit => WatcherInv
<1> SUFFICES ASSUME WatcherInit PROVE WatcherInv
  OBVIOUS
<1>1. RestOK
  BY DEF WatcherInit, RestOK, Dirs
<1>2. FlagsOK
  BY Zenon DEF WatcherInit, FlagsOK
<1>3. TicketsExact /\ StagesOK
  BY DEF WatcherInit, TicketsExact, StagesOK
<1>4. ReadsFresh
  BY DEF WatcherInit, ReadsFresh
<1> QED
  BY <1>1, <1>2, <1>3, <1>4, Zenon DEF WatcherInv, TypeOK, RestOK, FlagsOK

\* Types: in particular reloadWg.Done never makes the counter negative,
\* because the ticket it releases is counted by TicketsExact.
LEMMA WatcherType == WatcherInv /\ [WatcherNext]_watcherVars => TypeOK'
<1> SUFFICES ASSUME WatcherInv, [WatcherNext]_watcherVars PROVE TypeOK'
  OBVIOUS
<1> USE DEF WatcherInv, TypeOK
<1>1. CASE \E d \in Dirs : Change(d)
  <2>1. RestOK'
    BY <1>1 DEF RestOK, Change, reloadVars
  <2>2. FlagsOK'
    BY <1>1, Zenon DEF FlagsOK, Change, reloadVars
  <2> QED
    BY <2>1, <2>2, Zenon DEF RestOK, FlagsOK
<1>2. CASE Signal
  BY <1>2 DEF Signal, reloadVars, watchVars
<1>3. CASE CloseStorage
  BY <1>3 DEF CloseStorage, reloadVars, watchVars
<1>4. CASE Setup
  BY <1>4 DEF Setup, reloadVars
<1>5. CASE ReceiveEvent
  BY <1>5 DEF ReceiveEvent, Debounce, ReleaseTicket, reloadVars, TicketsExact
<1>6. CASE StopWatching
  BY <1>6 DEF StopWatching, reloadVars
<1>7. CASE ReturnFromWatch
  BY <1>7 DEF ReturnFromWatch, reloadVars
<1>8. CASE TimerFires
  BY <1>8 DEF TimerFires
<1>9. CASE LockReload
  <2>1. RestOK'
    BY <1>9 DEF RestOK, LockReload, watchVars
  <2>2. FlagsOK'
    BY <1>9, Zenon DEF FlagsOK, LockReload, watchVars
  <2> QED
    BY <2>1, <2>2, Zenon DEF RestOK, FlagsOK
<1>10. CASE ReadDir("providers", "collections")
  BY <1>10 DEF ReadDir, watchVars, Dirs
<1>11. CASE ReadDir("collections", "load")
  BY <1>11 DEF ReadDir, watchVars, Dirs
<1>12. CASE LoadIntoStorage
  <2>1. RestOK'
    BY <1>12 DEF RestOK, LoadIntoStorage, EndReload, watchVars, TicketsExact
  <2>2. FlagsOK'
    BY <1>12, Zenon DEF FlagsOK, LoadIntoStorage, EndReload, watchVars
  <2> QED
    BY <2>1, <2>2, Zenon DEF RestOK, FlagsOK
<1>13. CASE UNCHANGED watcherVars
  BY <1>13 DEF watcherVars, watchVars, reloadVars
<1> QED
  BY <1>1, <1>2, <1>3, <1>4, <1>5, <1>6, <1>7, <1>8, <1>9, <1>10, <1>11, <1>12, <1>13
  DEF WatcherNext, WatchStep, ReloadStep

\* The tickets stay exact and the stages in order.
LEMMA WatcherStages == WatcherInv /\ [WatcherNext]_watcherVars => TicketsExact' /\ StagesOK'
<1> SUFFICES ASSUME WatcherInv, [WatcherNext]_watcherVars PROVE TicketsExact' /\ StagesOK'
  OBVIOUS
<1> USE DEF WatcherInv, TypeOK, TicketsExact, StagesOK
<1>1. CASE \E d \in Dirs : Change(d)
  BY <1>1 DEF Change, reloadVars
<1>2. CASE Signal
  BY <1>2 DEF Signal, reloadVars, watchVars
<1>3. CASE CloseStorage
  BY <1>3 DEF CloseStorage, reloadVars, watchVars
<1>4. CASE Setup
  BY <1>4 DEF Setup, reloadVars
<1>5. CASE ReceiveEvent
  BY <1>5 DEF ReceiveEvent, Debounce, ReleaseTicket, reloadVars
<1>6. CASE StopWatching
  BY <1>6 DEF StopWatching, reloadVars
<1>7. CASE ReturnFromWatch
  BY <1>7 DEF ReturnFromWatch, ReloadsEnded, reloadVars
<1>8. CASE TimerFires
  BY <1>8 DEF TimerFires
<1>9. CASE LockReload
  BY <1>9 DEF LockReload, watchVars
<1>10. CASE ReadDir("providers", "collections")
  BY <1>10 DEF ReadDir, watchVars
<1>11. CASE ReadDir("collections", "load")
  BY <1>11 DEF ReadDir, watchVars
<1>12. CASE LoadIntoStorage
  BY <1>12 DEF LoadIntoStorage, EndReload, watchVars
<1>13. CASE UNCHANGED watcherVars
  BY <1>13 DEF watcherVars, watchVars, reloadVars
<1> QED
  BY <1>1, <1>2, <1>3, <1>4, <1>5, <1>6, <1>7, <1>8, <1>9, <1>10, <1>11, <1>12, <1>13
  DEF WatcherNext, WatchStep, ReloadStep

\* No change slips between the reads of a reload without an event, a timer or
\* a waiting reload that will see it.
LEMMA WatcherFresh == WatcherInv /\ [WatcherNext]_watcherVars => ReadsFresh'
<1> SUFFICES ASSUME WatcherInv, [WatcherNext]_watcherVars PROVE ReadsFresh'
  OBVIOUS
<1> USE DEF WatcherInv, TypeOK, ReadsFresh
<1>1. CASE \E d \in Dirs : Change(d)
  BY <1>1 DEF Change, reloadVars
<1>2. CASE Signal
  BY <1>2 DEF Signal, reloadVars, watchVars
<1>3. CASE CloseStorage
  BY <1>3 DEF CloseStorage, reloadVars, watchVars
<1>4. CASE Setup
  BY <1>4 DEF Setup, reloadVars
<1>5. CASE ReceiveEvent
  BY <1>5 DEF ReceiveEvent, Debounce, reloadVars
<1>6. CASE StopWatching
  BY <1>6 DEF StopWatching, reloadVars
<1>7. CASE ReturnFromWatch
  BY <1>7 DEF ReturnFromWatch, reloadVars
<1>8. CASE TimerFires
  BY <1>8 DEF TimerFires
<1>9. CASE LockReload
  BY <1>9 DEF LockReload, watchVars
<1>10. CASE ReadDir("providers", "collections")
  BY <1>10 DEF ReadDir, watchVars, Dirs
<1>11. CASE ReadDir("collections", "load")
  <2>1. ASSUME read["providers"] = disk["providers"],
               read' = [read EXCEPT !["collections"] = disk["collections"]]
        PROVE  read' = disk
    <3>1. read' \in [Dirs -> Nat] /\ read'["providers"] = disk["providers"]
             /\ read'["collections"] = disk["collections"]
      BY <2>1 DEF Dirs
    <3> QED
      BY <3>1, DirsExtensional
  <2> QED
    BY <1>11, <2>1 DEF ReadDir, watchVars
<1>12. CASE LoadIntoStorage
  BY <1>12 DEF LoadIntoStorage, EndReload, watchVars
<1>13. CASE UNCHANGED watcherVars
  BY <1>13 DEF watcherVars, watchVars, reloadVars
<1> QED
  BY <1>1, <1>2, <1>3, <1>4, <1>5, <1>6, <1>7, <1>8, <1>9, <1>10, <1>11, <1>12, <1>13
  DEF WatcherNext, WatchStep, ReloadStep

-----------------------------------------------------------------------------
\* The invariant holds of the watcher however many files change.
THEOREM WatcherInvariant == WatcherSafetySpec => []WatcherInv
<1>1. WatcherInv /\ [WatcherNext]_watcherVars => WatcherInv'
  BY WatcherType, WatcherStages, WatcherFresh DEF WatcherInv
<1> QED
  BY <1>1, WatcherStarts, PTL DEF WatcherSafetySpec

\* sync.WaitGroup never goes below zero (which would panic), and all state
\* keeps its type.
THEOREM WatcherTypeOK == WatcherSafetySpec => []TypeOK
<1>1. WatcherInv => TypeOK
  BY DEF WatcherInv
<1> QED
  BY <1>1, WatcherInvariant, PTL

\* main closes the storage only when no reload runs and none can start.
THEOREM WatcherNoReloadAfterClose == WatcherSafetySpec => []NoReloadAfterClose
<1>1. WatcherInv => NoReloadAfterClose
  BY DEF WatcherInv, TypeOK, TicketsExact, StagesOK, NoReloadAfterClose
<1> QED
  BY <1>1, WatcherInvariant, PTL

\* When the watcher has settled, storage holds what is on disk, unless the
\* last reload failed or a change raised no event.
THEOREM WatcherQuietMeansLoaded == WatcherSafetySpec => []QuietMeansLoaded
<1>1. WatcherInv => QuietMeansLoaded
  BY DEF WatcherInv, ReadsFresh, QuietMeansLoaded, Quiet
<1> QED
  BY <1>1, WatcherInvariant, PTL
=============================================================================
