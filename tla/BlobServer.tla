----------------------------- MODULE BlobServer -----------------------------
(***************************************************************************)
(* ChaosBlob: the object handlers of blob/server.py over the in-memory     *)
(* BlobStore (blob/store.py).  A handler takes the store, its size limit   *)
(* and the injected fault when it starts and touches the store only after  *)
(* it has read the body and slept, so other requests, a reset or a storage *)
(* update may come in between.  A reset empties the store in place; a      *)
(* storage update replaces it, and handlers under way keep the old one.    *)
(* One bucket; GET stands for HEAD too, which differs in the body only.    *)
(* A listing is a client's series of LIST requests that follow the         *)
(* continuation token of the page before.                                  *)
(***************************************************************************)
EXTENDS Integers, FiniteSets, Sequences, SequencesExt

CONSTANTS
  Clients,
  Operations,        \* what each client asks for
  NumKeys,           \* the keys, in the order that list_objects sorts them
  Bodies, NoBody,    \* bodies are their sizes
  Stores, NoStore,
  Limits, FirstLimit,
  PageSizes,         \* the max-keys parameters in use
  Faults             \* the kinds of fault whose percentage is above 0

Keys == 1..NumKeys

ASSUME BlobAssumption ==
  /\ Operations \in [Clients -> SUBSET {"put", "get", "delete", "list"}]
  /\ NumKeys \in Nat
  /\ Bodies \subseteq Nat /\ NoBody \notin Bodies
  /\ NoStore \notin Stores
  /\ Limits \subseteq Nat /\ FirstLimit \in Limits
  /\ PageSizes \subseteq Nat \ {0}

VARIABLES
  liveStore,  \* self._store
  objects,    \* the _objects of each store
  limit,      \* its max_object_bytes, which is also the storage config's
  asked,      \* the operation each client waits for
  job,        \* its key, body and fault
  heldStore,  \* the store its handler took
  updated,    \* has a storage update come since?
  listing     \* each client's listing

blobVars == <<liveStore, objects, limit, asked, job, heldStore, updated, listing>>

Empty == [k \in Keys |-> NoBody]

Present(store) == {k \in Keys : store[k] # NoBody}

NoJob == [key |-> 0, body |-> NoBody, fault |-> "none"]

NoListing == [after |-> 0, size |-> 0, listed |-> <<>>, whole |-> {}, stale |-> 0,
              open |-> FALSE]

BlobInit ==
  /\ liveStore \in Stores
  /\ objects = [s \in Stores |-> Empty]
  /\ limit = [s \in Stores |-> FirstLimit]
  /\ asked = [c \in Clients |-> "idle"]
  /\ job = [c \in Clients |-> NoJob]
  /\ heldStore = [c \in Clients |-> NoStore]
  /\ updated = [c \in Clients |-> FALSE]
  /\ listing = [c \in Clients |-> NoListing]

-----------------------------------------------------------------------------
(* Which faults an operation may draw: errors answer in place of the       *)
(* operation, the others change the answer of one that is carried out.     *)

FaultsOf(operation) ==
  CASE operation \in {"put", "delete"} -> {"error"}
    [] operation = "get"               -> {"error", "corruption"}
    [] operation = "list"              -> {"error", "stale_list", "malformed_xml"}

Decisions(operation) == (FaultsOf(operation) \cap Faults) \cup {"none"}

(* The start of a handler: one snapshot under _config_lock, then decide(). *)
Accept(c, operation, key, body) ==
  /\ asked[c] = "idle"
  /\ operation \in Operations[c]
  /\ asked' = [asked EXCEPT ![c] = operation]
  /\ heldStore' = [heldStore EXCEPT ![c] = liveStore]
  /\ updated' = [updated EXCEPT ![c] = FALSE]
  /\ \E fault \in Decisions(operation) :
       job' = [job EXCEPT ![c] = [key |-> key, body |-> body, fault |-> fault]]
  /\ UNCHANGED <<liveStore, objects, limit>>

(* The history of every listing: the keys that have been there throughout. *)
Track(lists, stores, current) ==
  [c \in Clients |-> [lists[c] EXCEPT !.whole = @ \cap Present(stores[current])]]

(* A store that is neither live nor held is garbage. *)
Collect(stores, default, holders, current) ==
  [s \in Stores |->
     IF s = current \/ \E c \in Clients : holders[c] = s THEN stores[s] ELSE default]

(* The end of a handler, with what it leaves in the store it holds. *)
End(c, store, lists) ==
  /\ asked' = [asked EXCEPT ![c] = "idle"]
  /\ job' = [job EXCEPT ![c] = NoJob]
  /\ heldStore' = [heldStore EXCEPT ![c] = NoStore]
  /\ updated' = [updated EXCEPT ![c] = FALSE]
  /\ LET stores == [objects EXCEPT ![heldStore[c]] = store]
     IN  /\ objects' = Collect(stores, Empty, heldStore', liveStore)
         /\ listing' = Track(lists, stores, liveStore)
  /\ limit' = Collect(limit, FirstLimit, heldStore', liveStore)
  /\ UNCHANGED liveStore

Held(c) == objects[heldStore[c]]

(* The injected error is answered and recorded, the store is not touched.  *)
(* A listing ends with it; the client may start another.                   *)
Error(c) ==
  /\ asked[c] # "idle" /\ job[c].fault = "error"
  /\ End(c, Held(c), IF asked[c] = "list" THEN [listing EXCEPT ![c] = NoListing] ELSE listing)

-----------------------------------------------------------------------------
(* PUT, GET and DELETE. *)

PutCall(c, k, b) == Accept(c, "put", k, b) /\ UNCHANGED listing

(* Seeded fault: the limit is read together with the body. *)
TooLargeNow(c) == job[c].body > limit[liveStore]

(* Both checks, of read_limited_body and of BlobStore.put. *)
TooLarge(c) == job[c].body > limit[heldStore[c]]

(* 400 or 413, or the client is gone before it has sent the body. *)
PutRefused(c) ==
  /\ asked[c] = "put" /\ job[c].fault = "none"
  /\ End(c, Held(c), listing)

(* Seeded fault: swapped arguments. *)
StoredKey(c) == job[c].key

Stored(c) == job[c].body

PutStored(c) ==
  /\ asked[c] = "put" /\ job[c].fault = "none"
  /\ ~TooLarge(c)
  /\ End(c, [Held(c) EXCEPT ![job[c].key] = Stored(c)], listing)

GetCall(c, k) == Accept(c, "get", k, NoBody) /\ UNCHANGED listing

(* 404; a corruption drawn for it is dropped. *)
GetMissing(c) ==
  /\ asked[c] = "get" /\ job[c].fault # "error"
  /\ Held(c)[job[c].key] = NoBody
  /\ End(c, Held(c), listing)

GetFound(c) ==
  /\ asked[c] = "get" /\ job[c].fault # "error"
  /\ Held(c)[job[c].key] # NoBody
  /\ End(c, Held(c), listing)

DeleteCall(c, k) == Accept(c, "delete", k, NoBody) /\ UNCHANGED listing

Delete(c) ==
  /\ asked[c] = "delete" /\ job[c].fault = "none"
  /\ End(c, [Held(c) EXCEPT ![job[c].key] = NoBody], listing)

-----------------------------------------------------------------------------
(* LIST. *)

(* A client begins a listing, giving up the one it may have been at. *)
ListStart(c, n) ==
  /\ Accept(c, "list", 0, NoBody)
  /\ listing' = [listing EXCEPT ![c] =
                   [NoListing EXCEPT !.size = n, !.whole = Present(objects[liveStore]),
                                     !.open = TRUE]]

(* It asks for the page that the token of the last one leads to. *)
ListNext(c) ==
  /\ listing[c].open
  /\ Accept(c, "list", 0, NoBody)
  /\ UNCHANGED listing

(* Seeded fault: >= in place of >. *)
AtOrAfterToken(k, after) == k >= after

AfterToken(k, after) == k > after

(* sorted(...): the keys of a set, each once, in increasing order. *)
InOrder(seq) == \A i, j \in DOMAIN seq : i < j => seq[i] < seq[j]

Sorted(keys) == CHOOSE seq \in [1..Cardinality(keys) -> keys] : InOrder(seq)

(* The keys left for this page and the following ones, in order. *)
Rest(store, after) == Sorted({k \in Present(store) : AfterToken(k, after)})

PageOf(rest, n) == SubSeq(rest, 1, IF n < Len(rest) THEN n ELSE Len(rest))

(* Seeded fault: the token names the first key of the next page. *)
TokenOfNextPage(rest, n) == rest[n + 1]

(* The token names the last key of the page, also when it is a stale one.  *)
Token(rest, n) == rest[n]

(* What one page adds to a listing.  A page without a token is the last     *)
(* one; of the keys that were there throughout, the missed ones remain.    *)
AddPage(list, rest, shown) ==
  LET listed == list.listed \o shown
      stale  == list.stale + IF shown = PageOf(rest, list.size) THEN 0 ELSE 1
  IN  IF Len(rest) > list.size
      THEN [list EXCEPT !.listed = listed, !.stale = stale,
                        !.after = Token(rest, list.size)]
      ELSE [NoListing EXCEPT !.listed = listed, !.stale = stale,
                             !.whole = list.whole \ ToSet(listed)]

ListPage(c) ==
  /\ asked[c] = "list" /\ job[c].fault = "none"
  /\ LET rest == Rest(Held(c), listing[c].after)
     IN  End(c, Held(c), [listing EXCEPT ![c] =
               AddPage(@, rest, PageOf(rest, @.size))])

(* stale_list leaves out the newest object of the page, whichever that is. *)
StaleListPage(c) ==
  /\ asked[c] = "list" /\ job[c].fault = "stale_list"
  /\ LET rest == Rest(Held(c), listing[c].after)
         page == PageOf(rest, listing[c].size)
         shown == IF page = <<>> THEN {page} ELSE {RemoveAt(page, i) : i \in DOMAIN page}
     IN  \E s \in shown : End(c, Held(c), [listing EXCEPT ![c] = AddPage(@, rest, s)])

(* The client cannot parse the page and has no token to go on with. *)
MalformedListPage(c) ==
  /\ asked[c] = "list" /\ job[c].fault = "malformed_xml"
  /\ End(c, Held(c), [listing EXCEPT ![c] = NoListing])

-----------------------------------------------------------------------------
(* The administrator. *)

(* Seeded fault: reset() makes a new store, as update_config does. *)
ResetByReplacement ==
  \E s \in Stores \ {liveStore} :
    /\ \A c \in Clients : heldStore[c] # s
    /\ liveStore' = s
    /\ objects' = Collect([objects EXCEPT ![s] = Empty], Empty, heldStore, s)
    /\ limit' = [limit EXCEPT ![s] = limit[liveStore]]
    /\ listing' = Track(listing, objects', liveStore')
    /\ UNCHANGED <<asked, job, heldStore, updated>>

Reset ==
  /\ objects' = [objects EXCEPT ![liveStore] = Empty]
  /\ listing' = Track(listing, objects', liveStore)
  /\ UNCHANGED <<liveStore, limit, asked, job, heldStore, updated>>

(* An update of section storage: a new, empty store with its limit. *)
UpdateStorage(s, max) ==
  /\ s # liveStore /\ \A c \in Clients : heldStore[c] # s
  /\ liveStore' = s
  /\ objects' = Collect(objects, Empty, heldStore, s)
  /\ limit' = [Collect(limit, FirstLimit, heldStore, s) EXCEPT ![s] = max]
  /\ updated' = [c \in Clients |-> asked[c] # "idle"]
  /\ listing' = Track(listing, objects', liveStore')
  /\ UNCHANGED <<asked, job, heldStore>>

-----------------------------------------------------------------------------
Request(c) ==
  \/ \E k \in Keys : (\E b \in Bodies : PutCall(c, k, b)) \/ GetCall(c, k) \/ DeleteCall(c, k)
  \/ \E n \in PageSizes : ListStart(c, n)
  \/ ListNext(c)

Answer(c) ==
  \/ Error(c)
  \/ PutRefused(c) \/ PutStored(c)
  \/ GetMissing(c) \/ GetFound(c)
  \/ Delete(c)
  \/ ListPage(c) \/ StaleListPage(c) \/ MalformedListPage(c)

BlobNext ==
  \/ \E c \in Clients : Request(c) \/ Answer(c)
  \/ Reset
  \/ \E s \in Stores, max \in Limits : UpdateStorage(s, max)

BlobSpec == BlobInit /\ [][BlobNext]_blobVars

-----------------------------------------------------------------------------
(* Properties. *)

BlobTypeOK ==
  /\ liveStore \in Stores
  /\ objects \in [Stores -> [Keys -> Bodies \cup {NoBody}]]
  /\ limit \in [Stores -> Limits]
  /\ asked \in [Clients -> {"idle", "put", "get", "delete", "list"}]
  /\ job \in [Clients -> [key : 0..NumKeys, body : Bodies \cup {NoBody},
                          fault : Faults \cup {"none"}]]
  /\ heldStore \in [Clients -> Stores \cup {NoStore}]
  /\ updated \in [Clients -> BOOLEAN]
  /\ \A c \in Clients :
       /\ listing[c].after \in 0..NumKeys
       /\ listing[c].whole \subseteq Keys
       /\ listing[c].open \in BOOLEAN

(* max_object_bytes bounds every object of the store it belongs to, also   *)
(* one whose upload began before a storage update and ended after it.      *)
StoredWithinLimit ==
  \A s \in Stores : \A k \in Present(objects[s]) : objects[s][k] <= limit[s]

(* Following the continuation tokens shows every key at most once and in   *)
(* order, whatever is written, deleted, reset or replaced between pages.   *)
ListingInOrder == \A c \in Clients : InOrder(listing[c].listed)

(* A complete listing shows every key that was there from its first page   *)
(* to its last, except at most one for each page served stale: what a      *)
(* stale page leaves out is not left out of the pages that follow.         *)
ListingComplete ==
  \A c \in Clients : ~listing[c].open => Cardinality(listing[c].whole) <= listing[c].stale

(* A handler that no storage update has overtaken answers what is true of  *)
(* the live store when it answers, however long it slept and whatever was  *)
(* reset in between: an acknowledged PUT is there, a deleted object is     *)
(* gone, and a GET finds what is there.                                    *)
AnswersMatchLiveStore ==
  [][\A c \in Clients : ~updated[c] =>
       LET k == job[c].key
       IN  /\ PutStored(c) => objects'[liveStore'][k] = job[c].body
           /\ Delete(c)    => objects'[liveStore'][k] = NoBody
           /\ GetFound(c)  => Held(c)[k] = objects[liveStore][k]
           /\ GetMissing(c) => objects[liveStore][k] = NoBody]_blobVars
=============================================================================
