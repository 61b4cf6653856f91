-------------------------- MODULE BlobServerProofs --------------------------
(***************************************************************************)
(* Theorems of BlobServer, for any number of clients, keys, sizes, limits  *)
(* and stores.  The stores come first: a handler's effect on them does not *)
(* depend on listings.  The listings then rest on what is known of stores. *)
(***************************************************************************)
EXTENDS BlobServer, FiniteSetTheorems, WellFoundedInduction, TLAPS

Store == [Keys -> Bodies \cup {NoBody}]

Job == [key : 0..NumKeys, body : Bodies \cup {NoBody}, fault : Faults \cup {"none"}]

Typed ==
  /\ liveStore \in Stores
  /\ objects \in [Stores -> Store]
  /\ limit \in [Stores -> Limits]
  /\ asked \in [Clients -> {"idle", "put", "get", "delete", "list"}]
  /\ job \in [Clients -> Job]
  /\ heldStore \in [Clients -> Stores \cup {NoStore}]
  /\ updated \in [Clients -> BOOLEAN]

(* A handler under way holds a store, an idle client holds none; a PUT has *)
(* a body, a PUT and a DELETE have a key.                                  *)
BusyHoldsStore ==
  \A c \in Clients : /\ asked[c] # "idle" => heldStore[c] \in Stores
                     /\ asked[c] = "idle" => heldStore[c] = NoStore
                     /\ asked[c] = "put" => job[c].body \in Bodies
                     /\ asked[c] \in {"put", "delete"} => job[c].key \in Keys

(* What is neither live nor held is empty: an update starts with nothing. *)
GarbageIsEmpty ==
  \A s \in Stores : s # liveStore /\ (\A c \in Clients : heldStore[c] # s) => objects[s] = Empty

(* A handler that no update has overtaken holds the live store. *)
HeldIsLive == \A c \in Clients : asked[c] # "idle" /\ ~updated[c] => heldStore[c] = liveStore

StoreInv == Typed /\ BusyHoldsStore /\ GarbageIsEmpty /\ HeldIsLive /\ StoredWithinLimit

-----------------------------------------------------------------------------
(* The end of a handler keeps the invariant if what it leaves in its store  *)
(* is a store within the limit.                                            *)
LEMMA EndKeepsInv ==
  ASSUME BlobAssumption, StoreInv, NEW c \in Clients, asked[c] # "idle",
         NEW store \in Store, NEW lists,
         \A k \in Present(store) : store[k] <= limit[heldStore[c]],
         End(c, store, lists)
  PROVE  StoreInv'
<1> DEFINE stores == [objects EXCEPT ![heldStore[c]] = store]
<1>1. heldStore[c] \in Stores
  BY DEF StoreInv, BusyHoldsStore
<1>2. stores \in [Stores -> Store]
  BY <1>1 DEF StoreInv, Typed
<1>3. Empty \in Store
  BY DEF Empty, Store
<1>4. /\ objects' = Collect(stores, Empty, heldStore', liveStore)
      /\ limit' = Collect(limit, FirstLimit, heldStore', liveStore)
      /\ liveStore' = liveStore
      /\ asked' = [asked EXCEPT ![c] = "idle"]
      /\ job' = [job EXCEPT ![c] = NoJob]
      /\ heldStore' = [heldStore EXCEPT ![c] = NoStore]
      /\ updated' = [updated EXCEPT ![c] = FALSE]
  BY DEF End
<1>5. Typed'
  <2>1. objects' \in [Stores -> Store]
    BY <1>2, <1>3, <1>4 DEF Collect
  <2>2. limit' \in [Stores -> Limits]
    BY <1>4 DEF Collect, StoreInv, Typed, BlobAssumption
  <2>3. NoJob \in Job
    BY DEF NoJob, Job, BlobAssumption
  <2> QED
    BY <1>4, <2>1, <2>2, <2>3 DEF StoreInv, Typed
<1>6. BusyHoldsStore'
  BY <1>4 DEF StoreInv, Typed, BusyHoldsStore
<1>7. GarbageIsEmpty'
  BY <1>4 DEF GarbageIsEmpty, Collect
<1>8. HeldIsLive'
  BY <1>4 DEF StoreInv, Typed, HeldIsLive
<1>9. StoredWithinLimit'
  <2> SUFFICES ASSUME NEW s \in Stores, NEW k \in Present(objects'[s])
               PROVE  objects'[s][k] <= limit'[s]
    BY DEF StoredWithinLimit
  <2>1. CASE s = liveStore \/ \E d \in Clients : heldStore'[d] = s
    <3>1. objects'[s] = stores[s] /\ limit'[s] = limit[s]
      BY <1>4, <2>1 DEF Collect
    <3>2. CASE s = heldStore[c]
      BY <1>1, <3>1, <3>2 DEF StoreInv, Typed
    <3>3. CASE s # heldStore[c]
      BY <1>1, <3>1, <3>3 DEF StoreInv, Typed, StoredWithinLimit
    <3> QED
      BY <3>2, <3>3
  <2>2. CASE ~(s = liveStore \/ \E d \in Clients : heldStore'[d] = s)
    <3>1. objects'[s] = Empty
      BY <1>4, <2>2 DEF Collect
    <3> QED
      BY <3>1 DEF Present, Empty
  <2> QED
    BY <2>1, <2>2
<1> QED
  BY <1>5, <1>6, <1>7, <1>8, <1>9 DEF StoreInv

(* What a handler leaves when it only reads is within the limit. *)
LEMMA HeldWithinLimit ==
  ASSUME StoreInv, NEW c \in Clients, asked[c] # "idle"
  PROVE  /\ Held(c) \in Store
         /\ \A k \in Present(Held(c)) : Held(c)[k] <= limit[heldStore[c]]
BY DEF StoreInv, Typed, BusyHoldsStore, StoredWithinLimit, Held

(* The start of a handler changes no store. *)
LEMMA AcceptKeepsInv ==
  ASSUME BlobAssumption, StoreInv, NEW c \in Clients, NEW operation,
         NEW key \in 0..NumKeys, NEW body \in Bodies \cup {NoBody},
         operation = "put" => body \in Bodies,
         operation \in {"put", "delete"} => key \in Keys,
         Accept(c, operation, key, body)
  PROVE  StoreInv'
<1>1. operation \in {"put", "get", "delete", "list"}
  BY DEF Accept, BlobAssumption
<1>2. PICK fault \in Faults \cup {"none"} :
        job' = [job EXCEPT ![c] = [key |-> key, body |-> body, fault |-> fault]]
  BY DEF Accept, Decisions
<1>3. /\ asked[c] = "idle"
      /\ asked' = [asked EXCEPT ![c] = operation]
      /\ heldStore' = [heldStore EXCEPT ![c] = liveStore]
      /\ updated' = [updated EXCEPT ![c] = FALSE]
      /\ liveStore' = liveStore /\ objects' = objects /\ limit' = limit
  BY DEF Accept
<1>4. [key |-> key, body |-> body, fault |-> fault] \in Job
  BY DEF Job
<1>5. Typed'
  BY <1>1, <1>2, <1>3, <1>4 DEF StoreInv, Typed
<1>6. BusyHoldsStore'
  <2> SUFFICES ASSUME NEW d \in Clients
               PROVE  /\ asked'[d] # "idle" => heldStore'[d] \in Stores
                      /\ asked'[d] = "idle" => heldStore'[d] = NoStore
                      /\ asked'[d] = "put" => job'[d].body \in Bodies
                      /\ asked'[d] \in {"put", "delete"} => job'[d].key \in Keys
    BY DEF BusyHoldsStore
  <2>1. CASE d = c
    <3>1. job'[d].key = key /\ job'[d].body = body
      BY <1>2, <2>1 DEF StoreInv, Typed
    <3>2. asked'[d] = operation /\ heldStore'[d] = liveStore
      BY <1>3, <2>1 DEF StoreInv, Typed
    <3> QED
      BY <1>1, <3>1, <3>2 DEF StoreInv, Typed
  <2>2. CASE d # c
    <3>1. asked'[d] = asked[d] /\ heldStore'[d] = heldStore[d] /\ job'[d] = job[d]
      BY <1>2, <1>3, <2>2 DEF StoreInv, Typed
    <3> QED
      BY <3>1 DEF StoreInv, BusyHoldsStore
  <2> QED
    BY <2>1, <2>2
<1>7. GarbageIsEmpty'
  <2> SUFFICES ASSUME NEW s \in Stores, s # liveStore, \A d \in Clients : heldStore'[d] # s
               PROVE  objects[s] = Empty
    BY <1>3 DEF GarbageIsEmpty
  <2>1. \A d \in Clients : d # c => heldStore[d] # s
    BY <1>3 DEF StoreInv, Typed
  <2>2. heldStore[c] # s
    BY <1>3 DEF StoreInv, BusyHoldsStore, BlobAssumption
  <2> QED
    BY <2>1, <2>2 DEF StoreInv, GarbageIsEmpty
<1>8. HeldIsLive'
  BY <1>3 DEF StoreInv, Typed, HeldIsLive
<1>9. StoredWithinLimit'
  BY <1>3 DEF StoreInv, StoredWithinLimit
<1> QED
  BY <1>5, <1>6, <1>7, <1>8, <1>9 DEF StoreInv

-----------------------------------------------------------------------------
LEMMA InitInv ==
  ASSUME BlobAssumption, BlobInit
  PROVE  StoreInv
<1>1. Empty \in Store /\ NoJob \in Job
  BY DEF Empty, Store, NoJob, Job, BlobAssumption
<1>2. Typed
  BY <1>1 DEF BlobInit, Typed, BlobAssumption
<1>3. StoredWithinLimit
  BY DEF BlobInit, StoredWithinLimit, Present, Empty
<1> QED
  BY <1>2, <1>3 DEF BlobInit, StoreInv, BusyHoldsStore, GarbageIsEmpty, HeldIsLive

(* Requests begin handlers. *)
LEMMA RequestKeepsInv ==
  ASSUME BlobAssumption, StoreInv, NEW c \in Clients, Request(c)
  PROVE  StoreInv'
<1>1. ASSUME NEW k \in Keys, NEW b \in Bodies, PutCall(c, k, b)
      PROVE  StoreInv'
  <2>1. k \in 0..NumKeys
    BY DEF Keys, BlobAssumption
  <2> QED
    BY <1>1, <2>1, AcceptKeepsInv DEF PutCall
<1>2. ASSUME NEW k \in Keys, GetCall(c, k) \/ DeleteCall(c, k)
      PROVE  StoreInv'
  <2>1. k \in 0..NumKeys
    BY DEF Keys, BlobAssumption
  <2>2. CASE GetCall(c, k)
    BY <2>1, <2>2, AcceptKeepsInv DEF GetCall
  <2>3. CASE DeleteCall(c, k)
    BY <2>1, <2>3, AcceptKeepsInv DEF DeleteCall
  <2> QED
    BY <1>2, <2>2, <2>3
<1>3. ASSUME Accept(c, "list", 0, NoBody)
      PROVE  StoreInv'
  <2>1. 0 \in 0..NumKeys
    BY DEF BlobAssumption
  <2> QED
    BY <1>3, <2>1, AcceptKeepsInv
<1> QED
  BY <1>1, <1>2, <1>3 DEF Request, ListStart, ListNext

(* Answers end them; only a PUT and a DELETE leave a changed store. *)
LEMMA AnswerKeepsInv ==
  ASSUME BlobAssumption, StoreInv, NEW c \in Clients, Answer(c)
  PROVE  StoreInv'
<1>1. ASSUME asked[c] # "idle", NEW lists, End(c, Held(c), lists)
      PROVE  StoreInv'
  BY <1>1, HeldWithinLimit, EndKeepsInv
<1>2. CASE Error(c) \/ MalformedListPage(c)
  BY <1>1, <1>2 DEF Error, MalformedListPage
<1>3. CASE PutRefused(c) \/ GetMissing(c) \/ GetFound(c)
  BY <1>1, <1>3 DEF PutRefused, GetMissing, GetFound
<1>4. CASE ListPage(c)
  BY <1>1, <1>4 DEF ListPage
<1>5. CASE StaleListPage(c)
  BY <1>1, <1>5 DEF StaleListPage
<1>6. CASE PutStored(c)
  <2> DEFINE store == [Held(c) EXCEPT ![job[c].key] = Stored(c)]
  <2>1. asked[c] = "put" /\ ~(job[c].body > limit[heldStore[c]])
    BY <1>6 DEF PutStored, TooLarge
  <2>2. job[c].body \in Bodies /\ heldStore[c] \in Stores /\ limit[heldStore[c]] \in Limits
    BY <2>1 DEF StoreInv, Typed, BusyHoldsStore
  <2>3. job[c].body <= limit[heldStore[c]]
    <3>1. \A m, n \in Nat : ~(m > n) => m <= n
      OBVIOUS
    <3>2. job[c].body \in Nat /\ limit[heldStore[c]] \in Nat
      BY <2>2 DEF BlobAssumption
    <3> QED
      BY <2>1, <3>1, <3>2
  <2>4. Held(c) \in Store /\ \A k \in Present(Held(c)) : Held(c)[k] <= limit[heldStore[c]]
    BY <2>1, HeldWithinLimit
  <2>5. store \in Store
    BY <2>2, <2>4 DEF Store, Stored
  <2>6. \A k \in Present(store) : store[k] <= limit[heldStore[c]]
    BY <2>2, <2>3, <2>4 DEF Store, Stored, Present
  <2>7. End(c, store, listing)
    BY <1>6 DEF PutStored
  <2> QED
    BY <2>1, <2>5, <2>6, <2>7, EndKeepsInv
<1>7. CASE Delete(c)
  <2> DEFINE store == [Held(c) EXCEPT ![job[c].key] = NoBody]
  <2>1. asked[c] = "delete" /\ End(c, store, listing)
    BY <1>7 DEF Delete
  <2>2. Held(c) \in Store /\ \A k \in Present(Held(c)) : Held(c)[k] <= limit[heldStore[c]]
    BY <2>1, HeldWithinLimit
  <2>3. store \in Store
    BY <2>2 DEF Store
  <2>4. \A k \in Present(store) : store[k] <= limit[heldStore[c]]
    BY <2>2 DEF Store, Present
  <2> QED
    BY <2>1, <2>3, <2>4, EndKeepsInv
<1> QED
  BY <1>2, <1>3, <1>4, <1>5, <1>6, <1>7 DEF Answer

LEMMA ResetKeepsInv ==
  ASSUME StoreInv, Reset
  PROVE  StoreInv'
<1>1. Empty \in Store
  BY DEF Empty, Store
<1>2. Typed' /\ BusyHoldsStore' /\ HeldIsLive'
  BY <1>1 DEF Reset, StoreInv, Typed, BusyHoldsStore, HeldIsLive
<1>3. GarbageIsEmpty'
  BY DEF Reset, StoreInv, Typed, GarbageIsEmpty
<1>4. StoredWithinLimit'
  BY DEF Reset, StoreInv, Typed, StoredWithinLimit, Present, Empty
<1> QED
  BY <1>2, <1>3, <1>4 DEF StoreInv

(* An update makes live a store that was garbage, hence empty. *)
LEMMA UpdateKeepsInv ==
  ASSUME BlobAssumption, StoreInv, NEW s \in Stores, NEW max \in Limits,
         UpdateStorage(s, max)
  PROVE  StoreInv'
<1>1. Empty \in Store
  BY DEF Empty, Store
<1>2. /\ s # liveStore /\ \A c \in Clients : heldStore[c] # s
      /\ liveStore' = s
      /\ objects' = Collect(objects, Empty, heldStore, s)
      /\ limit' = [Collect(limit, FirstLimit, heldStore, s) EXCEPT ![s] = max]
      /\ updated' = [c \in Clients |-> asked[c] # "idle"]
      /\ asked' = asked /\ job' = job /\ heldStore' = heldStore
  BY DEF UpdateStorage
<1>3. objects[s] = Empty
  BY <1>2 DEF StoreInv, GarbageIsEmpty
<1>4. Typed'
  <2>1. objects' \in [Stores -> Store]
    BY <1>1, <1>2 DEF Collect, StoreInv, Typed
  <2>2. limit' \in [Stores -> Limits]
    BY <1>2 DEF Collect, StoreInv, Typed, BlobAssumption
  <2> QED
    BY <1>2, <2>1, <2>2 DEF StoreInv, Typed
<1>5. BusyHoldsStore'
  BY <1>2 DEF StoreInv, BusyHoldsStore
<1>6. GarbageIsEmpty'
  BY <1>2 DEF GarbageIsEmpty, Collect
<1>7. HeldIsLive'
  BY <1>2 DEF HeldIsLive
<1>8. StoredWithinLimit'
  <2> SUFFICES ASSUME NEW t \in Stores, NEW k \in Present(objects'[t])
               PROVE  objects'[t][k] <= limit'[t]
    BY DEF StoredWithinLimit
  <2>1. objects'[t] # Empty
    BY DEF Present, Empty
  <2>2. t # s
    BY <1>2, <1>3, <2>1 DEF Collect
  <2>3. objects'[t] = objects[t] /\ limit'[t] = limit[t]
    BY <1>2, <2>1, <2>2 DEF Collect
  <2> QED
    BY <2>3 DEF StoreInv, StoredWithinLimit
<1> QED
  BY <1>4, <1>5, <1>6, <1>7, <1>8 DEF StoreInv

LEMMA StutterKeepsInv ==
  ASSUME StoreInv, UNCHANGED blobVars
  PROVE  StoreInv'
BY DEF blobVars, StoreInv, Typed, BusyHoldsStore, GarbageIsEmpty, HeldIsLive, StoredWithinLimit

LEMMA NextKeepsInv ==
  ASSUME BlobAssumption, StoreInv, [BlobNext]_blobVars
  PROVE  StoreInv'
<1>1. CASE \E c \in Clients : Request(c) \/ Answer(c)
  BY <1>1, RequestKeepsInv, AnswerKeepsInv
<1>2. CASE Reset
  BY <1>2, ResetKeepsInv
<1>3. CASE \E s \in Stores, max \in Limits : UpdateStorage(s, max)
  BY <1>3, UpdateKeepsInv
<1>4. CASE UNCHANGED blobVars
  BY <1>4, StutterKeepsInv
<1> QED
  BY <1>1, <1>2, <1>3, <1>4 DEF BlobNext

-----------------------------------------------------------------------------
(* In every behaviour each store holds only objects within its own limit:  *)
(* an upload that a storage update overtakes is judged by the limit of the *)
(* store it goes to (request_body.py, blob/store.py put, blob/server.py    *)
(* update_config).                                                         *)
THEOREM WithinLimit == BlobSpec => []StoredWithinLimit
<1>1. BlobInit => StoreInv
  BY BlobAssumption, InitInv
<1>2. StoreInv /\ [BlobNext]_blobVars => StoreInv'
  BY BlobAssumption, NextKeepsInv
<1>3. StoreInv => StoredWithinLimit
  BY DEF StoreInv
<1> QED
  BY <1>1, <1>2, <1>3, PTL DEF BlobSpec

(* What a handler that holds the live store answers is true of it. *)
LEMMA AnswerIsTrue ==
  ASSUME StoreInv, NEW c \in Clients, ~updated[c]
  PROVE  LET k == job[c].key
         IN  /\ PutStored(c) => objects'[liveStore'][k] = job[c].body
             /\ Delete(c)    => objects'[liveStore'][k] = NoBody
             /\ GetFound(c)  => Held(c)[k] = objects[liveStore][k]
             /\ GetMissing(c) => objects[liveStore][k] = NoBody
<1>1. asked[c] # "idle" => heldStore[c] = liveStore /\ Held(c) = objects[liveStore] /\ Held(c) \in Store
  BY HeldWithinLimit DEF StoreInv, HeldIsLive, Held
<1>2. ASSUME NEW store, NEW lists, End(c, store, lists), heldStore[c] = liveStore
      PROVE  objects'[liveStore'] = store
  BY <1>2 DEF End, Collect, StoreInv, Typed
<1>3. PutStored(c) => objects'[liveStore'][job[c].key] = job[c].body
  BY <1>1, <1>2 DEF PutStored, Stored, StoreInv, BusyHoldsStore, Store
<1>4. Delete(c) => objects'[liveStore'][job[c].key] = NoBody
  BY <1>1, <1>2 DEF Delete, StoreInv, BusyHoldsStore, Store
<1>5. GetFound(c) => Held(c)[job[c].key] = objects[liveStore][job[c].key]
  BY <1>1 DEF GetFound
<1>6. GetMissing(c) => objects[liveStore][job[c].key] = NoBody
  BY <1>1 DEF GetMissing
<1> QED
  BY <1>3, <1>4, <1>5, <1>6

(* In every step an object handler that no storage update has overtaken    *)
(* acknowledges a PUT that is in the live store, a DELETE whose object is  *)
(* gone from it, and answers a GET with what it holds, however many        *)
(* requests and resets came between the handler's start and its answer.    *)
THEOREM AnswersMatch == BlobSpec => AnswersMatchLiveStore
<1>1. BlobInit => StoreInv
  BY BlobAssumption, InitInv
<1>2. StoreInv /\ [BlobNext]_blobVars => StoreInv'
  BY BlobAssumption, NextKeepsInv
<1> DEFINE True == \A c \in Clients : ~updated[c] =>
       LET k == job[c].key
       IN  /\ PutStored(c) => objects'[liveStore'][k] = job[c].body
           /\ Delete(c)    => objects'[liveStore'][k] = NoBody
           /\ GetFound(c)  => Held(c)[k] = objects[liveStore][k]
           /\ GetMissing(c) => objects[liveStore][k] = NoBody
<1>3. StoreInv /\ [BlobNext]_blobVars => [True]_blobVars
  BY AnswerIsTrue
<1> QED
  BY <1>1, <1>2, <1>3, PTL DEF BlobSpec, AnswersMatchLiveStore

-----------------------------------------------------------------------------
(* Listings.  Every set of keys can be put in order: by induction over the *)
(* largest key, the first n without it being in order already.             *)
CanSort(n) ==
  \A keys \in SUBSET (1..n) : \E seq \in [1..Cardinality(keys) -> keys] : InOrder(seq)

LEMMA SortNext ==
  ASSUME NEW n \in Nat, CanSort(n)
  PROVE  CanSort(n + 1)
<1> SUFFICES ASSUME NEW keys \in SUBSET (1..(n + 1))
             PROVE  \E seq \in [1..Cardinality(keys) -> keys] : InOrder(seq)
  BY DEF CanSort
<1>1. CASE n + 1 \notin keys
  <2>1. keys \in SUBSET (1..n)
    BY <1>1
  <2> QED
    BY <2>1 DEF CanSort
<1>2. CASE n + 1 \in keys
  <2> DEFINE rest == keys \ {n + 1}
  <2>1. rest \in SUBSET (1..n)
    OBVIOUS
  <2>2. IsFiniteSet(keys)
    <3>1. IsFiniteSet(1..(n + 1))
      BY FS_Interval
    <3> QED
      BY <3>1, FS_Subset
  <2>3. Cardinality(rest) \in Nat /\ Cardinality(keys) = Cardinality(rest) + 1
    <3>1. /\ IsFiniteSet(rest)
          /\ Cardinality(rest) = IF n + 1 \in keys THEN Cardinality(keys) - 1 ELSE Cardinality(keys)
      BY <2>2, FS_RemoveElement
    <3>2. Cardinality(keys) \in Nat /\ Cardinality(rest) \in Nat
      BY <2>2, <3>1, FS_CardinalityType
    <3> QED
      BY <1>2, <3>1, <3>2
  <2>4. PICK seq \in [1..Cardinality(rest) -> rest] : InOrder(seq)
    BY <2>1 DEF CanSort
  <2> DEFINE m == Cardinality(rest)
  <2> DEFINE longer == [i \in 1..(m + 1) |-> IF i = m + 1 THEN n + 1 ELSE seq[i]]
  <2>5. seq \in [1..m -> rest]
    BY <2>4
  <2>6. \A i \in 1..m : seq[i] \in keys /\ seq[i] \in Nat /\ seq[i] < n + 1
    <3>1. \A k \in rest : k \in keys /\ k \in Nat /\ k < n + 1
      BY <2>1
    <3> QED
      BY <3>1, <2>5
  <2>7. m \in Nat /\ Cardinality(keys) = m + 1
    BY <2>3
  <2> HIDE DEF m
  <2>8. longer \in [1..(m + 1) -> keys]
    <3>1. \A i \in 1..(m + 1) : i # m + 1 => i \in 1..m
      BY <2>7
    <3> QED
      BY <1>2, <2>6, <3>1
  <2>9. InOrder(longer)
    <3> SUFFICES ASSUME NEW i \in 1..(m + 1), NEW j \in 1..(m + 1), i < j
                 PROVE  longer[i] < longer[j]
      BY DEF InOrder
    <3>1. i \in 1..m /\ i # m + 1 /\ (j # m + 1 => j \in 1..m)
      BY <2>7
    <3>2. CASE j = m + 1
      BY <2>6, <3>1, <3>2
    <3>3. CASE j # m + 1
      BY <2>5, <2>4, <3>1, <3>3 DEF InOrder
    <3> QED
      BY <3>2, <3>3
  <2> QED
    BY <2>7, <2>8, <2>9
<1> QED
  BY <1>1, <1>2

(* There is no least number below which it fails. *)
LEMMA SortAll ==
  ASSUME NEW n \in Nat
  PROVE  CanSort(n)
<1> DEFINE Without == {k \in Nat : ~CanSort(k)}
<1> SUFFICES Without = {}
  OBVIOUS
<1> SUFFICES ASSUME Without # {}
             PROVE  FALSE
  OBVIOUS
<1>1. PICK k \in Without : \A j \in Without : ~(<<j, k>> \in OpToRel(<, Nat))
  BY NatLessThanWellFounded, WFMin
<1>2. \A j \in Without : ~(j < k)
  BY <1>1 DEF OpToRel
<1>3. CanSort(0)
  <2> SUFFICES ASSUME NEW keys \in SUBSET (1..0)
               PROVE  \E seq \in [1..Cardinality(keys) -> keys] : InOrder(seq)
    BY DEF CanSort
  <2>1. keys = {}
    OBVIOUS
  <2>2. keys = {} /\ Cardinality(keys) = 0
    BY <2>1, FS_EmptySet
  <2>3. [i \in 1..0 |-> i] \in [1..0 -> keys] /\ InOrder([i \in 1..0 |-> i])
    BY <2>2 DEF InOrder
  <2> QED
    BY <2>2, <2>3
<1>4. k # 0 /\ k \in Nat
  BY <1>3
<1>5. k - 1 \in Nat /\ k - 1 < k /\ (k - 1) + 1 = k
  BY <1>4
<1>6. CanSort(k - 1)
  BY <1>2, <1>5
<1>7. CanSort(k)
  BY <1>5, <1>6, SortNext
<1> QED
  BY <1>7

(* Hence Sorted shows every key of a set, and in order: a sequence as long *)
(* as the set is large and without repetitions leaves none out.            *)
LEMMA SortedKeys ==
  ASSUME NEW keys \in SUBSET Keys, BlobAssumption
  PROVE  /\ Sorted(keys) \in Seq(keys) /\ InOrder(Sorted(keys))
         /\ \A k \in keys : \E i \in 1..Len(Sorted(keys)) : Sorted(keys)[i] = k
<1> DEFINE seq == Sorted(keys)
           n == Cardinality(keys)
<1>1. NumKeys \in Nat /\ keys \in SUBSET (1..NumKeys)
  BY DEF BlobAssumption, Keys
<1>2. IsFiniteSet(keys) /\ n \in Nat
  <2>1. IsFiniteSet(1..NumKeys)
    BY <1>1, FS_Interval
  <2>2. IsFiniteSet(keys)
    BY <1>1, <2>1, FS_Subset
  <2> QED
    BY <2>2, FS_CardinalityType
<1>3. seq \in [1..n -> keys] /\ InOrder(seq)
  BY <1>1, SortAll DEF CanSort, Sorted
<1> HIDE DEF n, seq
<1>4. seq \in Seq(keys) /\ Len(seq) = n
  BY <1>2, <1>3
<1>5. \A i, j \in 1..n : i # j => seq[i] # seq[j]
  <2>1. \A k \in keys : k \in Int
    BY <1>1
  <2>2. \A i \in 1..n : seq[i] \in Int
    BY <2>1, <1>3
  <2> QED
    BY <1>2, <1>3, <2>2 DEF InOrder
<1>6. seq \in Injection(1..n, keys)
  BY <1>3, <1>5 DEF Injection, IsInjective
<1>7. seq \in Surjection(1..n, keys)
  <2>1. Cardinality(1..n) = n
    BY <1>2, FS_Interval
  <2> QED
    BY <1>2, <1>6, <2>1, FS_Injection DEF n
<1>8. \A k \in keys : \E i \in 1..n : seq[i] = k
  BY <1>7 DEF Surjection
<1> QED
  BY <1>3, <1>4, <1>8 DEF seq

-----------------------------------------------------------------------------
(* One listing. *)
Listing ==
  [after : 0..NumKeys, size : {0} \cup PageSizes, listed : Seq(Keys), whole : SUBSET Keys,
   stale : Nat, open : BOOLEAN]

(* What a listing has passed over: of the keys that were there throughout, *)
(* those that its token is beyond and that it has not shown.               *)
Missed(list) ==
  IF list.open THEN {k \in list.whole : k <= list.after /\ k \notin ToSet(list.listed)}
  ELSE list.whole

(* A listing that goes on has a page size. *)
OpenIsSized(list) == list.open => list.size \in PageSizes

(* It has shown nothing beyond its token. *)
ShownUpToToken(list) ==
  list.open => \A i \in DOMAIN list.listed : list.listed[i] <= list.after

(* It has passed over one key at most for each page served stale. *)
MissedAreStale(list) == Cardinality(Missed(list)) <= list.stale

ListInv(list) ==
  /\ list \in Listing
  /\ OpenIsSized(list) /\ ShownUpToToken(list) /\ InOrder(list.listed) /\ MissedAreStale(list)

-----------------------------------------------------------------------------
(* Sets of keys are finite. *)
LEMMA FewerKeys ==
  ASSUME NEW keys \in SUBSET Keys, BlobAssumption, NEW some \in SUBSET keys
  PROVE  /\ IsFiniteSet(keys) /\ Cardinality(keys) \in Nat
         /\ Cardinality(some) \in Nat /\ Cardinality(some) <= Cardinality(keys)
<1>1. IsFiniteSet(1..NumKeys)
  BY FS_Interval DEF BlobAssumption
<1>2. IsFiniteSet(keys)
  BY <1>1, FS_Subset DEF Keys
<1>3. IsFiniteSet(some) /\ Cardinality(some) <= Cardinality(keys)
  BY <1>2, FS_Subset
<1> QED
  BY <1>2, <1>3, FS_CardinalityType

(* A listing once its history is narrowed to the keys that are there. *)
Among(list, there) == [list EXCEPT !.whole = @ \cap there]

(* With fewer keys there throughout it can only have missed fewer. *)
LEMMA AmongKeepsList ==
  ASSUME NEW list, ListInv(list), NEW there, BlobAssumption
  PROVE  /\ ListInv(Among(list, there))
         /\ Among(list, there).whole = list.whole \cap there
         /\ Among(list, there).open = list.open
<1> DEFINE new == Among(list, there)
<1>1. list \in Listing
  BY DEF ListInv
<1>2. /\ new \in Listing
      /\ new.after = list.after /\ new.size = list.size /\ new.listed = list.listed
      /\ new.whole = list.whole \cap there /\ new.stale = list.stale /\ new.open = list.open
  BY <1>1 DEF Listing, Among
<1> HIDE DEF new
<1>3. OpenIsSized(new) /\ ShownUpToToken(new) /\ InOrder(new.listed)
  BY <1>2 DEF ListInv, OpenIsSized, ShownUpToToken
<1>4. MissedAreStale(new)
  <2>1. Missed(list) \in SUBSET Keys /\ list.stale \in Nat
    BY <1>1 DEF Missed, Listing
  <2>2. Missed(new) \in SUBSET Missed(list)
    BY <1>2 DEF Missed
  <2>3. Cardinality(Missed(new)) <= Cardinality(Missed(list))
    BY <2>1, <2>2, FewerKeys
  <2>4. Cardinality(Missed(new)) \in Nat /\ Cardinality(Missed(list)) \in Nat
    BY <2>1, <2>2, FewerKeys
  <2>5. Cardinality(Missed(list)) <= list.stale
    BY DEF ListInv, MissedAreStale
  <2> QED
    BY <1>2, <2>1, <2>3, <2>4, <2>5 DEF MissedAreStale
<1> QED
  BY <1>2, <1>3, <1>4 DEF ListInv, new

(* What is left for a listing: the keys beyond its token, in order. *)
LEMMA RestIsAll ==
  ASSUME BlobAssumption, NEW store, NEW after \in 0..NumKeys
  PROVE  /\ Rest(store, after) \in Seq(Keys) /\ InOrder(Rest(store, after))
         /\ \A i \in 1..Len(Rest(store, after)) : Rest(store, after)[i] > after
         /\ \A k \in Present(store) : k > after =>
              \E i \in 1..Len(Rest(store, after)) : Rest(store, after)[i] = k
<1> DEFINE keys == {k \in Present(store) : AfterToken(k, after)}
           rest == Rest(store, after)
<1>1. keys \in SUBSET Keys
  BY DEF Present
<1>2. /\ rest \in Seq(keys) /\ InOrder(rest)
      /\ \A k \in keys : \E i \in 1..Len(rest) : rest[i] = k
  <2>1. rest = Sorted(keys)
    BY DEF Rest
  <2> HIDE DEF keys, rest
  <2> QED
    BY <1>1, <2>1, SortedKeys
<1> HIDE DEF rest
<1>3. rest \in Seq(Keys) /\ \A i \in 1..Len(rest) : rest[i] \in keys
  <2> HIDE DEF keys
  <2> QED
    BY <1>1, <1>2
<1>4. \A i \in 1..Len(rest) : rest[i] > after
  BY <1>3 DEF AfterToken
<1>5. \A k \in Present(store) : k > after => \E i \in 1..Len(rest) : rest[i] = k
  BY <1>2 DEF AfterToken
<1> QED
  BY <1>2, <1>3, <1>4, <1>5 DEF rest

(* What a page may show: keys of its own, in order, and all but those left *)
(* out.                                                                    *)
Shows(shown, page, left) ==
  /\ shown \in Seq(Keys) /\ InOrder(shown)
  /\ \A i \in 1..Len(shown) : \E j \in 1..Len(page) : shown[i] = page[j]
  /\ \A j \in 1..Len(page) : page[j] \notin left => \E i \in 1..Len(shown) : shown[i] = page[j]

(* A page shows all its keys. *)
LEMMA PageShows ==
  ASSUME NEW page \in Seq(Keys), InOrder(page)
  PROVE  Shows(page, page, {})
BY DEF Shows

(* A stale one shows all but the one removed from it. *)
LEMMA StaleShows ==
  ASSUME NEW page \in Seq(Keys), InOrder(page), BlobAssumption, NEW gone \in 1..Len(page)
  PROVE  Shows(RemoveAt(page, gone), page, {page[gone]})
<1> DEFINE shown == RemoveAt(page, gone)
           n == Len(page)
<1>1. n \in Nat /\ gone \in 1..n /\ n >= 1
  OBVIOUS
<1>2. /\ shown \in Seq(Keys) /\ Len(shown) = n - 1
      /\ \A i \in 1..(n - 1) : shown[i] = IF i < gone THEN page[i] ELSE page[i + 1]
  <2> DEFINE before == SubSeq(page, 1, gone - 1)
             behind == SubSeq(page, gone + 1, n)
  <2>1. /\ before \in Seq(Keys) /\ Len(before) = gone - 1
        /\ \A i \in 1..(gone - 1) : before[i] = page[i]
    BY <1>1
  <2>2. /\ behind \in Seq(Keys) /\ Len(behind) = n - gone
        /\ \A i \in 1..(n - gone) : behind[i] = page[gone + i]
    BY <1>1
  <2>3. shown = before \o behind
    BY DEF RemoveAt
  <2> HIDE DEF shown, n, before, behind
  <2>4. shown \in Seq(Keys) /\ Len(shown) = n - 1
    <3>1. before \in Seq(Keys) /\ behind \in Seq(Keys)
      BY <2>1, <2>2
    <3>2. shown \in Seq(Keys) /\ Len(shown) = Len(before) + Len(behind)
      BY <3>1, <2>3
    <3>3. (gone - 1) + (n - gone) = n - 1
      BY <1>1
    <3> QED
      BY <2>1, <2>2, <3>2, <3>3
  <2>5. ASSUME NEW i \in 1..(n - 1)
        PROVE  shown[i] = IF i < gone THEN page[i] ELSE page[i + 1]
    <3>1. CASE i < gone
      BY <1>1, <2>1, <2>2, <2>3, <3>1
    <3>2. CASE ~(i < gone)
      <4> DEFINE k == i - (gone - 1)
      <4>1. k \in 1..(n - gone) /\ gone + k = i + 1
        BY <1>1, <3>2
      <4>2. shown[i] = behind[k]
        BY <1>1, <2>1, <2>2, <2>3, <3>2
      <4> HIDE DEF k
      <4> QED
        BY <2>2, <3>2, <4>1, <4>2
    <3> QED
      BY <3>1, <3>2
  <2> QED
    BY <2>4, <2>5
<1>3. \A i \in 1..n : page[i] \in Int
  BY DEF Keys
<1> HIDE DEF shown, n
<1>4. InOrder(shown)
  <2> SUFFICES ASSUME NEW i \in 1..(n - 1), NEW j \in 1..(n - 1), i < j
               PROVE  shown[i] < shown[j]
    BY <1>1, <1>2 DEF InOrder
  <2> DEFINE at(k) == IF k < gone THEN k ELSE k + 1
  <2>1. at(i) \in 1..n /\ at(j) \in 1..n /\ at(i) < at(j)
    BY <1>1
  <2>2. shown[i] = page[at(i)] /\ shown[j] = page[at(j)]
    BY <1>2
  <2> QED
    BY <2>1, <2>2 DEF InOrder, n
<1>5. \A i \in 1..Len(shown) : \E j \in 1..n : shown[i] = page[j]
  <2> SUFFICES ASSUME NEW i \in 1..(n - 1)
               PROVE  \E j \in 1..n : shown[i] = page[j]
    BY <1>2
  <2>1. i \in 1..n /\ i + 1 \in 1..n
    BY <1>1
  <2> QED
    BY <1>2, <2>1
<1>6. \A j \in 1..n : page[j] \notin {page[gone]} => \E i \in 1..Len(shown) : shown[i] = page[j]
  <2> SUFFICES ASSUME NEW j \in 1..n, j # gone
               PROVE  \E i \in 1..(n - 1) : shown[i] = page[j]
    BY <1>1, <1>2
  <2>1. CASE j < gone
    <3>1. j \in 1..(n - 1)
      BY <1>1, <2>1
    <3> QED
      BY <1>2, <2>1, <3>1
  <2>2. CASE ~(j < gone)
    <3>1. j - 1 \in 1..(n - 1) /\ ~(j - 1 < gone) /\ (j - 1) + 1 = j
      BY <1>1, <2>2
    <3> QED
      BY <1>2, <3>1
  <2> QED
    BY <2>1, <2>2
<1> QED
  BY <1>2, <1>4, <1>5, <1>6 DEF Shows, shown, n

(* The page of a listing: the first keys of what is left for it. *)
LEMMA PageIsFirst ==
  ASSUME NEW rest \in Seq(Keys), InOrder(rest), NEW n \in Nat
  PROVE  /\ PageOf(rest, n) \in Seq(Keys) /\ InOrder(PageOf(rest, n))
         /\ Len(PageOf(rest, n)) = IF n < Len(rest) THEN n ELSE Len(rest)
         /\ \A i \in 1..Len(PageOf(rest, n)) : PageOf(rest, n)[i] = rest[i]
<1> DEFINE page == PageOf(rest, n)
           m == IF n < Len(rest) THEN n ELSE Len(rest)
<1>1. m \in Nat /\ m <= Len(rest)
  OBVIOUS
<1>2. page = SubSeq(rest, 1, m)
  BY DEF PageOf
<1> HIDE DEF page, m
<1>3. page \in Seq(Keys) /\ Len(page) = m /\ \A i \in 1..m : page[i] = rest[i]
  BY <1>1, <1>2
<1>4. InOrder(page)
  BY <1>1, <1>3 DEF InOrder
<1> QED
  BY <1>3, <1>4 DEF page, m

(* One page adds to a listing what it shows of the keys left, and passes   *)
(* over at most one more key if it is stale.                               *)
LEMMA AddKeepsList ==
  ASSUME BlobAssumption, NEW list, ListInv(list), list.open,
         NEW store, list.whole \subseteq Present(store),
         NEW shown, NEW left \in SUBSET Keys,
         Shows(shown, PageOf(Rest(store, list.after), list.size), left),
         Cardinality(left) <= 1,
         left # {} => shown # PageOf(Rest(store, list.after), list.size)
  PROVE  /\ ListInv(AddPage(list, Rest(store, list.after), shown))
         /\ AddPage(list, Rest(store, list.after), shown).whole \subseteq list.whole
<1> DEFINE rest == Rest(store, list.after)
           page == PageOf(rest, list.size)
           new == AddPage(list, rest, shown)
           after == list.after
           n == list.size
           listed == list.listed \o shown
<1>1. /\ list \in Listing /\ after \in 0..NumKeys /\ after \in Int
      /\ list.listed \in Seq(Keys) /\ list.whole \in SUBSET Keys /\ list.stale \in Nat
      /\ n \in PageSizes /\ n \in Nat /\ n >= 1
  <2>1. list \in Listing /\ n \in PageSizes
    BY DEF ListInv, OpenIsSized
  <2>2. /\ after \in 0..NumKeys /\ list.listed \in Seq(Keys) /\ list.whole \in SUBSET Keys
        /\ list.stale \in Nat
    BY <2>1 DEF Listing
  <2>3. n \in Nat /\ n >= 1
    <3>1. PageSizes \subseteq Nat \ {0}
      BY DEF BlobAssumption
    <3>2. n \in Nat \ {0}
      BY <2>1, <3>1
    <3> HIDE DEF n
    <3> QED
      BY <3>2
  <2>4. after \in Int
    BY <2>2 DEF BlobAssumption
  <2> QED
    BY <2>1, <2>2, <2>3, <2>4
<1>2. \A k \in Keys : k \in 0..NumKeys /\ k \in Int
  BY DEF Keys, BlobAssumption
<1>3. /\ rest \in Seq(Keys) /\ InOrder(rest)
      /\ \A i \in 1..Len(rest) : rest[i] > after
      /\ \A k \in Present(store) : k > after => \E i \in 1..Len(rest) : rest[i] = k
  BY <1>1, RestIsAll
<1> HIDE DEF rest
<1>4. /\ page \in Seq(Keys)
      /\ Len(page) = IF n < Len(rest) THEN n ELSE Len(rest)
      /\ \A i \in 1..Len(page) : page[i] = rest[i]
  BY <1>1, <1>3, PageIsFirst
<1>5. /\ shown \in Seq(Keys) /\ InOrder(shown)
      /\ \A i \in 1..Len(shown) : \E j \in 1..Len(page) : shown[i] = page[j]
      /\ \A j \in 1..Len(page) : page[j] \notin left => \E i \in 1..Len(shown) : shown[i] = page[j]
  BY DEF Shows, rest
<1>6. left # {} => shown # page
  BY DEF rest
<1> HIDE DEF page
<1>7. /\ listed \in Seq(Keys) /\ Len(listed) = Len(list.listed) + Len(shown)
      /\ \A i \in 1..Len(list.listed) : listed[i] = list.listed[i]
      /\ \A i \in 1..Len(shown) : listed[Len(list.listed) + i] = shown[i]
      /\ \A i \in 1..Len(listed) : i > Len(list.listed) =>
           /\ i - Len(list.listed) \in 1..Len(shown)
           /\ listed[i] = shown[i - Len(list.listed)]
  BY <1>1, <1>5
<1> HIDE DEF listed
<1>8. \A i \in 1..Len(list.listed) : list.listed[i] <= after /\ list.listed[i] \in Int
  BY <1>1, <1>2 DEF ListInv, ShownUpToToken
<1>9. \A i \in 1..Len(shown) : shown[i] > after /\ shown[i] \in Int
  <2> SUFFICES ASSUME NEW i \in 1..Len(shown)
               PROVE  shown[i] > after /\ shown[i] \in Int
    OBVIOUS
  <2>1. PICK j \in 1..Len(page) : shown[i] = page[j]
    BY <1>5
  <2>2. j \in 1..Len(rest) /\ page[j] = rest[j] /\ rest[j] \in Keys
    BY <1>1, <1>3, <1>4
  <2> QED
    BY <1>2, <1>3, <2>1, <2>2
<1>10. InOrder(listed)
  <2> SUFFICES ASSUME NEW i \in 1..Len(listed), NEW j \in 1..Len(listed), i < j
               PROVE  listed[i] < listed[j]
    BY <1>7 DEF InOrder
  <2> DEFINE m == Len(list.listed)
  <2>1. m \in Nat
    BY <1>1
  <2>2. CASE j <= m
    <3>1. i \in 1..m /\ j \in 1..m
      BY <2>1, <2>2
    <3>2. list.listed[i] < list.listed[j]
      BY <1>1, <3>1 DEF ListInv, InOrder
    <3> QED
      BY <1>7, <3>1, <3>2
  <2>3. CASE i > m
    <3>1. j > m /\ i - m < j - m
      BY <2>1, <2>3
    <3>2. i - m \in 1..Len(shown) /\ j - m \in 1..Len(shown)
      BY <1>7, <2>3, <3>1
    <3>3. shown[i - m] < shown[j - m]
      BY <1>5, <3>1, <3>2 DEF InOrder
    <3> QED
      BY <1>7, <2>3, <3>1, <3>3
  <2>4. CASE i <= m /\ j > m
    <3>1. listed[i] <= after /\ listed[i] \in Int
      <4>1. i \in 1..m
        BY <2>1, <2>4
      <4> QED
        BY <1>7, <1>8, <4>1
    <3>2. listed[j] > after /\ listed[j] \in Int
      BY <1>7, <1>9, <2>4
    <3> QED
      BY <1>1, <3>1, <3>2
  <2> QED
    BY <2>1, <2>2, <2>3, <2>4
(* A key of the page is shown, unless it is the one left out. *)
<1>11. ASSUME NEW i \in 1..Len(page), rest[i] \notin left
       PROVE  rest[i] \in ToSet(listed)
  <2>1. PICK k \in 1..Len(shown) : shown[k] = rest[i]
    BY <1>4, <1>5, <1>11
  <2>2. Len(list.listed) + k \in 1..Len(listed)
    BY <1>1, <1>5, <1>7
  <2>3. listed[Len(list.listed) + k] = rest[i]
    BY <1>7, <2>1
  <2> QED
    BY <1>7, <2>2, <2>3 DEF ToSet
<1>12. ToSet(list.listed) \subseteq ToSet(listed)
  <2> SUFFICES ASSUME NEW i \in 1..Len(list.listed)
               PROVE  list.listed[i] \in ToSet(listed)
    BY <1>1 DEF ToSet
  <2>1. i \in 1..Len(listed) /\ listed[i] = list.listed[i]
    BY <1>1, <1>5, <1>7
  <2> QED
    BY <1>7, <2>1 DEF ToSet
<1>13. Missed(list) = {k \in list.whole : k <= after /\ k \notin ToSet(list.listed)}
  BY DEF Missed
<1> DEFINE stale == list.stale + IF shown = page THEN 0 ELSE 1
<1>14. /\ stale \in Nat /\ Cardinality(left) \in Nat
       /\ list.stale + Cardinality(left) <= stale
  <2>1. Cardinality({}) = 0
    BY FS_EmptySet
  <2>2. Cardinality(left) \in Nat
    BY FewerKeys
  <2> QED
    <3>1. left = {} \/ stale = list.stale + 1
      BY <1>6
    <3>2. stale \in Nat /\ list.stale <= stale
      BY <1>1
    <3> HIDE DEF stale
    <3>3. CASE left = {}
      BY <1>1, <2>1, <2>2, <3>2, <3>3
    <3>4. CASE stale = list.stale + 1
      BY <1>1, <2>2, <3>2, <3>4
    <3> QED
      BY <3>1, <3>3, <3>4
<1> HIDE DEF stale
<1>15. ASSUME NEW missed \in SUBSET (Missed(list) \cup left)
       PROVE  Cardinality(missed) <= stale
  <2>1. Missed(list) \in SUBSET Keys /\ Missed(list) \cup left \in SUBSET Keys
    BY <1>1, <1>13
  <2>2. /\ IsFiniteSet(Missed(list)) /\ Cardinality(Missed(list)) \in Nat
        /\ IsFiniteSet(left) /\ Cardinality(Missed(list) \cap left) \in Nat
    <3>1. Missed(list) \cap left \in SUBSET left
      OBVIOUS
    <3> QED
      BY <2>1, <3>1, FewerKeys
  <2>3. Cardinality(Missed(list) \cup left)
          = Cardinality(Missed(list)) + Cardinality(left) - Cardinality(Missed(list) \cap left)
    BY <2>2, FS_Union
  <2>4. /\ Cardinality(missed) <= Cardinality(Missed(list) \cup left)
        /\ Cardinality(missed) \in Nat
    BY <2>1, FewerKeys
  <2>5. Cardinality(Missed(list)) <= list.stale
    BY DEF ListInv, MissedAreStale
  <2> QED
    BY <1>1, <1>14, <2>2, <2>3, <2>4, <2>5
<1>16. CASE Len(rest) > n
  <2> DEFINE token == rest[n]
  <2>1. /\ n \in 1..Len(rest) /\ token \in Keys /\ token \in Int /\ token \in 0..NumKeys
        /\ token > after /\ Len(page) = n
    BY <1>1, <1>2, <1>3, <1>4, <1>16
  <2>2. new = [list EXCEPT !.listed = listed, !.stale = stale, !.after = token]
    BY <1>16 DEF AddPage, Token, listed, stale, page
  <2> HIDE DEF new, token
  <2>3. /\ new \in Listing /\ new.listed = listed /\ new.stale = stale /\ new.after = token
        /\ new.open /\ new.whole = list.whole /\ new.size = n
    BY <1>1, <1>7, <1>14, <2>1, <2>2 DEF Listing
  <2>4. OpenIsSized(new)
    BY <1>1, <2>3 DEF OpenIsSized
  <2>5. ShownUpToToken(new)
    <3> SUFFICES ASSUME NEW i \in 1..Len(listed)
                 PROVE  listed[i] <= token
      BY <1>7, <2>3 DEF ShownUpToToken
    <3>1. CASE i <= Len(list.listed)
      <4>1. listed[i] <= after /\ listed[i] \in Int
        BY <1>1, <1>7, <1>8, <3>1
      <4> QED
        BY <1>1, <2>1, <4>1
    <3>2. CASE i > Len(list.listed)
      <4>1. i - Len(list.listed) \in 1..Len(shown) /\ listed[i] = shown[i - Len(list.listed)]
        BY <1>7, <3>2
      <4>2. PICK j \in 1..Len(page) : listed[i] = page[j]
        BY <1>5, <4>1
      <4>3. j \in 1..Len(rest) /\ j <= n /\ listed[i] = rest[j] /\ rest[j] \in Int
        <5>1. j \in Nat /\ 1 <= j /\ j <= n
          BY <1>1, <2>1
        <5>2. j \in 1..Len(rest)
          BY <1>1, <1>3, <1>16, <5>1
        <5>3. page[j] = rest[j] /\ rest[j] \in Keys
          BY <1>3, <1>4, <5>2
        <5> QED
          BY <1>2, <4>2, <5>1, <5>2, <5>3
      <4>4. j = n \/ rest[j] < rest[n]
        BY <1>1, <1>3, <2>1, <4>3 DEF InOrder
      <4> QED
        BY <2>1, <4>3, <4>4 DEF token
    <3> QED
      BY <1>1, <3>1, <3>2
  <2>6. Missed(new) \in SUBSET (Missed(list) \cup left)
    <3> SUFFICES ASSUME NEW k \in list.whole, k <= token, k \notin ToSet(listed), k \notin left
                 PROVE  k \in Missed(list)
      BY <2>3 DEF Missed
    <3>1. k \in Int /\ k \in Present(store)
      BY <1>1, <1>2
    <3>2. CASE k <= after
      BY <1>12, <1>13, <3>2
    <3>3. CASE k > after
      <4>1. PICK i \in 1..Len(rest) : rest[i] = k
        BY <1>3, <3>1, <3>3
      <4>2. i <= n
        <5>1. ~(n < i)
          BY <1>3, <2>1, <3>1, <4>1 DEF InOrder, token
        <5> QED
          BY <1>1, <1>3, <4>1, <5>1
      <4>3. i \in 1..Len(page)
        BY <1>1, <2>1, <4>1, <4>2
      <4> QED
        BY <1>11, <4>1, <4>3
    <3> QED
      BY <1>1, <3>1, <3>2, <3>3
  <2>7. MissedAreStale(new)
    BY <1>15, <2>3, <2>6 DEF MissedAreStale
  <2> QED
    BY <1>10, <2>3, <2>4, <2>5, <2>7 DEF ListInv, new, rest
<1>17. CASE ~(Len(rest) > n)
  <2>1. Len(page) = Len(rest)
    BY <1>1, <1>3, <1>4, <1>17
  <2>2. new = [NoListing EXCEPT !.listed = listed, !.stale = stale,
                                !.whole = list.whole \ ToSet(listed)]
    BY <1>17 DEF AddPage, listed, stale, page
  <2> HIDE DEF new
  <2>3. /\ new.listed = listed /\ new.stale = stale /\ new.open = FALSE
        /\ new.whole = list.whole \ ToSet(listed) /\ new.after = 0 /\ new.size = 0
    BY <2>2 DEF NoListing
  <2>4. new \in Listing
    <3>1. 0 \in 0..NumKeys
      BY DEF BlobAssumption
    <3> QED
      BY <1>1, <1>7, <1>14, <2>2, <3>1 DEF Listing, NoListing
  <2>5. OpenIsSized(new) /\ ShownUpToToken(new)
    BY <2>3 DEF OpenIsSized, ShownUpToToken
  <2>6. Missed(new) \in SUBSET (Missed(list) \cup left)
    <3> SUFFICES ASSUME NEW k \in list.whole, k \notin ToSet(listed), k \notin left
                 PROVE  k \in Missed(list)
      BY <2>3 DEF Missed
    <3>1. k \in Int /\ k \in Present(store)
      BY <1>1, <1>2
    <3>2. CASE k <= after
      BY <1>12, <1>13, <3>2
    <3>3. CASE k > after
      <4>1. PICK i \in 1..Len(rest) : rest[i] = k
        BY <1>3, <3>1, <3>3
      <4> QED
        BY <1>11, <2>1, <4>1
    <3> QED
      BY <1>1, <3>1, <3>2, <3>3
  <2>7. MissedAreStale(new)
    BY <1>15, <2>3, <2>6 DEF MissedAreStale
  <2> QED
    BY <1>10, <2>3, <2>4, <2>5, <2>7 DEF ListInv, new, rest
<1> QED
  BY <1>1, <1>3, <1>16, <1>17 DEF rest

-----------------------------------------------------------------------------
(* All of them, and the state of the server they go with. *)
ListingTyped == listing \in [Clients -> Listing]

(* A client that waits for a page is in a listing. *)
OpenWhileListing == \A c \in Clients : asked[c] = "list" => listing[c].open

(* What was there throughout is in the live store. *)
WholeIsPresent == \A c \in Clients : listing[c].whole \subseteq Present(objects[liveStore])

(* Nothing was there throughout a listing that an update has overtaken. *)
OvertakenIsEmpty == \A c \in Clients : updated[c] => listing[c].whole = {}

ListingsInv ==
  /\ ListingTyped /\ \A c \in Clients : ListInv(listing[c])
  /\ OpenWhileListing /\ WholeIsPresent /\ OvertakenIsEmpty

(* A listing that has shown nothing keeps the invariant. *)
LEMMA NewListingInv ==
  ASSUME BlobAssumption, NEW new \in Listing, new.after = 0, new.listed = <<>>,
         new.open => new.size \in PageSizes, ~new.open => new.whole = {}
  PROVE  ListInv(new)
<1>1. OpenIsSized(new) /\ ShownUpToToken(new) /\ InOrder(new.listed)
  BY DEF OpenIsSized, ShownUpToToken, InOrder
<1>2. MissedAreStale(new)
  <2>1. \A k \in new.whole : ~(k <= 0)
    <3>1. new.whole \in SUBSET (1..NumKeys)
      BY DEF Listing, Keys
    <3> QED
      BY <3>1 DEF BlobAssumption
  <2>2. Missed(new) = {}
    BY <2>1 DEF Missed
  <2>3. new.stale \in Nat
    BY DEF Listing
  <2> QED
    BY <2>2, <2>3, FS_EmptySet DEF MissedAreStale
<1> QED
  BY <1>1, <1>2 DEF ListInv

(* As does no listing. *)
LEMMA NoListingInv ==
  ASSUME BlobAssumption
  PROVE  ListInv(NoListing) /\ NoListing.whole = {}
<1>1. 0 \in 0..NumKeys /\ <<>> \in Seq(Keys)
  BY DEF BlobAssumption
<1>2. NoListing \in Listing
  BY <1>1 DEF NoListing, Listing
<1>3. NoListing.after = 0 /\ NoListing.listed = <<>> /\ ~NoListing.open /\ NoListing.whole = {}
  BY DEF NoListing
<1> QED
  BY <1>2, <1>3, NewListingInv

(* Listings whose histories have been narrowed to the keys that are there. *)
Narrowed(tracked, lists, there) ==
  /\ tracked \in [Clients -> Listing]
  /\ \A c \in Clients : /\ ListInv(tracked[c])
                        /\ tracked[c].whole = lists[c].whole \cap there
                        /\ tracked[c].open = lists[c].open

(* This is what Track does to every listing. *)
LEMMA TrackKeepsLists ==
  ASSUME BlobAssumption, NEW lists, \A c \in Clients : ListInv(lists[c]),
         NEW stores, NEW current, NEW tracked, tracked = Track(lists, stores, current)
  PROVE  Narrowed(tracked, lists, Present(stores[current]))
<1> DEFINE there == Present(stores[current])
<1>1. /\ tracked = [c \in Clients |-> tracked[c]]
      /\ \A c \in Clients : tracked[c] = Among(lists[c], there)
  BY DEF Track, Among
<1> HIDE DEF there
<1>2. \A c \in Clients : /\ ListInv(tracked[c])
                         /\ tracked[c].whole = lists[c].whole \cap there
                         /\ tracked[c].open = lists[c].open
  BY <1>1, AmongKeepsList
<1>3. tracked \in [Clients -> Listing]
  BY <1>1, <1>2 DEF ListInv
<1> QED
  BY <1>2, <1>3 DEF Narrowed, there

(* The end of a handler keeps the invariant if it leaves its own client a  *)
(* listing that does and the others the ones they have.                    *)
LEMMA EndKeepsListings ==
  ASSUME BlobAssumption, Typed, ListingsInv, NEW c \in Clients, NEW store, NEW lists,
         \A d \in Clients : /\ ListInv(lists[d])
                            /\ lists[d].whole \subseteq listing[d].whole
                            /\ d # c => lists[d].open = listing[d].open,
         End(c, store, lists)
  PROVE  ListingsInv'
<1>1. /\ asked' = [asked EXCEPT ![c] = "idle"]
      /\ updated' = [updated EXCEPT ![c] = FALSE]
      /\ liveStore' = liveStore
  BY DEF End
<1>2. PICK stores : /\ stores = [objects EXCEPT ![heldStore[c]] = store]
                    /\ objects' = Collect(stores, Empty, heldStore', liveStore)
                    /\ listing' = Track(lists, stores, liveStore)
  BY DEF End
<1>3. Narrowed(listing', lists, Present(stores[liveStore]))
  <2>1. \A d \in Clients : ListInv(lists[d])
    OBVIOUS
  <2> QED
    BY <1>2, <2>1, TrackKeepsLists
<1>4. objects'[liveStore] = stores[liveStore]
  BY <1>2 DEF Collect, Typed
<1>5. ListingTyped' /\ \A d \in Clients : ListInv(listing'[d])
  BY <1>3 DEF Narrowed, ListingTyped, Listing
<1>6. OpenWhileListing'
  BY <1>1, <1>3 DEF Narrowed, OpenWhileListing, ListingsInv, Typed
<1>7. WholeIsPresent'
  <2>1. Present(objects'[liveStore']) = Present(stores[liveStore])
    BY <1>1, <1>4
  <2>2. \A d \in Clients : listing'[d].whole \subseteq Present(objects'[liveStore'])
    BY <1>3, <2>1 DEF Narrowed
  <2> QED
    BY <2>2 DEF WholeIsPresent
<1>8. OvertakenIsEmpty'
  BY <1>1, <1>3 DEF Narrowed, OvertakenIsEmpty, ListingsInv, Typed
<1> QED
  BY <1>5, <1>6, <1>7, <1>8 DEF ListingsInv

(* The same when the listings are as they were. *)
LEMMA PlainEndKeepsListings ==
  ASSUME BlobAssumption, Typed, ListingsInv, NEW c \in Clients, NEW store,
         End(c, store, listing)
  PROVE  ListingsInv'
BY EndKeepsListings DEF ListingsInv

(* And when the handler's client has given its listing up. *)
LEMMA DropKeepsListings ==
  ASSUME BlobAssumption, Typed, ListingsInv, NEW c \in Clients, NEW store,
         End(c, store, [listing EXCEPT ![c] = NoListing])
  PROVE  ListingsInv'
<1> DEFINE lists == [listing EXCEPT ![c] = NoListing]
<1>1. ListInv(NoListing)
  BY NoListingInv
<1>2. NoListing.whole = {}
  BY NoListingInv
<1>3. lists[c] = NoListing /\ \A d \in Clients : d # c => lists[d] = listing[d]
  BY DEF ListingsInv, ListingTyped
<1> HIDE DEF lists
<1>4. \A d \in Clients : /\ ListInv(lists[d])
                         /\ lists[d].whole \subseteq listing[d].whole
                         /\ d # c => lists[d].open = listing[d].open
  BY <1>1, <1>2, <1>3 DEF ListingsInv
<1> QED
  BY <1>4, EndKeepsListings DEF lists

(* A page is taken from a store that holds what was there throughout. *)
LEMMA HeldHasWhole ==
  ASSUME StoreInv, ListingsInv, NEW c \in Clients, asked[c] # "idle"
  PROVE  listing[c].whole \subseteq Present(Held(c))
<1>1. CASE updated[c]
  BY <1>1 DEF ListingsInv, OvertakenIsEmpty
<1>2. CASE ~updated[c]
  BY <1>2 DEF StoreInv, HeldIsLive, Held, ListingsInv, WholeIsPresent
<1> QED
  BY <1>1, <1>2

(* The answer of one page, complete or with one key left out.              *)
LEMMA PageKeepsListings ==
  ASSUME BlobAssumption, StoreInv, ListingsInv, NEW c \in Clients, asked[c] = "list",
         NEW shown, NEW left \in SUBSET Keys, Cardinality(left) <= 1,
         Shows(shown, PageOf(Rest(Held(c), listing[c].after), listing[c].size), left),
         left # {} => shown # PageOf(Rest(Held(c), listing[c].after), listing[c].size),
         End(c, Held(c), [listing EXCEPT ![c] =
                            AddPage(@, Rest(Held(c), listing[c].after), shown)])
  PROVE  ListingsInv'
<1> DEFINE new == AddPage(listing[c], Rest(Held(c), listing[c].after), shown)
           lists == [listing EXCEPT ![c] = new]
<1>1. ListInv(listing[c]) /\ listing[c].open
  BY DEF ListingsInv, OpenWhileListing
<1>2. listing[c].whole \subseteq Present(Held(c))
  BY HeldHasWhole
<1>3. ListInv(new) /\ new.whole \subseteq listing[c].whole
  <2>1. \A store : store = Held(c) /\ listing[c].whole \subseteq Present(store) =>
          LET added == AddPage(listing[c], Rest(store, listing[c].after), shown)
          IN  ListInv(added) /\ added.whole \subseteq listing[c].whole
    BY <1>1, AddKeepsList
  <2> QED
    BY <1>2, <2>1
<1>4. End(c, Held(c), lists)
  OBVIOUS
<1> HIDE DEF new
<1>5. lists[c] = new /\ \A d \in Clients : d # c => lists[d] = listing[d]
  BY DEF ListingsInv, ListingTyped
<1> HIDE DEF lists
<1>6. \A d \in Clients : /\ ListInv(lists[d])
                         /\ lists[d].whole \subseteq listing[d].whole
                         /\ d # c => lists[d].open = listing[d].open
  BY <1>3, <1>5 DEF ListingsInv
<1> QED
  BY <1>4, <1>6, EndKeepsListings DEF StoreInv

(* A handler begins: of no listing, of the next page or of a new listing.  *)
LEMMA AcceptKeepsListings ==
  ASSUME BlobAssumption, StoreInv, ListingsInv, NEW c \in Clients,
         NEW operation, NEW key, NEW body, Accept(c, operation, key, body),
         \/ listing' = listing /\ (operation = "list" => listing[c].open)
         \/ \E n \in PageSizes :
              listing' = [listing EXCEPT ![c] =
                            [NoListing EXCEPT !.size = n, !.whole = Present(objects[liveStore]),
                                              !.open = TRUE]]
  PROVE  ListingsInv'
<1>1. /\ asked' = [asked EXCEPT ![c] = operation]
      /\ updated' = [updated EXCEPT ![c] = FALSE]
      /\ liveStore' = liveStore /\ objects' = objects
  BY DEF Accept
<1>2. Typed
  BY DEF StoreInv
<1>3. CASE listing' = listing /\ (operation = "list" => listing[c].open)
  BY <1>1, <1>2, <1>3
  DEF ListingsInv, ListingTyped, Listing, OpenWhileListing, WholeIsPresent, OvertakenIsEmpty, Typed
<1>4. ASSUME NEW n \in PageSizes,
             listing' = [listing EXCEPT ![c] =
                           [NoListing EXCEPT !.size = n, !.whole = Present(objects[liveStore]),
                                             !.open = TRUE]]
      PROVE  ListingsInv'
  <2> DEFINE new == [NoListing EXCEPT !.size = n, !.whole = Present(objects[liveStore]), !.open = TRUE]
  <2>1. ListInv(new)
    <3>1. Present(objects[liveStore]) \in SUBSET Keys
      BY DEF Present
    <3>2. NoListing \in Listing
      BY NoListingInv DEF ListInv
    <3>3. new \in Listing
      BY <3>1, <3>2 DEF Listing
    <3>4. new.after = 0 /\ new.listed = <<>> /\ new.open /\ new.size = n
      BY DEF NoListing
    <3> HIDE DEF new
    <3> QED
      BY <3>3, <3>4, NewListingInv
  <2>2. new.whole = Present(objects[liveStore]) /\ new.open
    BY DEF NoListing
  <2> HIDE DEF new
  <2>3. listing'[c] = new /\ \A d \in Clients : d # c => listing'[d] = listing[d]
    BY <1>4 DEF ListingsInv, ListingTyped, new
  <2>4. ListingTyped' /\ \A d \in Clients : ListInv(listing'[d])
    <3>1. new \in Listing
      BY <2>1 DEF ListInv
    <3>2. \A d \in Clients : ListInv(listing'[d])
      BY <2>1, <2>3 DEF ListingsInv
    <3>3. listing' \in [Clients -> Listing]
      BY <1>4, <3>1 DEF ListingsInv, ListingTyped, new
    <3> QED
      BY <3>2, <3>3 DEF ListingTyped, Listing
  <2>5. OpenWhileListing'
    BY <1>1, <1>2, <2>2, <2>3 DEF ListingsInv, OpenWhileListing, Typed
  <2>6. WholeIsPresent'
    BY <1>1, <2>2, <2>3 DEF ListingsInv, WholeIsPresent
  <2>7. OvertakenIsEmpty'
    BY <1>1, <1>2, <2>3 DEF ListingsInv, OvertakenIsEmpty, Typed
  <2> QED
    BY <2>4, <2>5, <2>6, <2>7 DEF ListingsInv
<1> QED
  BY <1>3, <1>4

(* A reset empties the live store, and with it the history of listings.    *)
LEMMA ResetKeepsListings ==
  ASSUME BlobAssumption, StoreInv, ListingsInv, Reset
  PROVE  ListingsInv'
<1>1. /\ liveStore' = liveStore /\ asked' = asked /\ updated' = updated
      /\ listing' = Track(listing, objects', liveStore)
  BY DEF Reset
<1>2. Narrowed(listing', listing, Present(objects'[liveStore]))
  BY <1>1, TrackKeepsLists DEF ListingsInv
<1>3. ListingTyped' /\ \A d \in Clients : ListInv(listing'[d])
  BY <1>2 DEF Narrowed, ListingTyped, Listing
<1> QED
  BY <1>1, <1>2, <1>3 DEF Narrowed, ListingsInv, OpenWhileListing, WholeIsPresent, OvertakenIsEmpty

(* After an update nothing has been there throughout. *)
LEMMA UpdateKeepsListings ==
  ASSUME BlobAssumption, StoreInv, ListingsInv, NEW s \in Stores, NEW max \in Limits,
         UpdateStorage(s, max)
  PROVE  ListingsInv'
<1>1. /\ s # liveStore /\ \A c \in Clients : heldStore[c] # s
      /\ liveStore' = s /\ asked' = asked
      /\ objects' = Collect(objects, Empty, heldStore, s)
      /\ listing' = Track(listing, objects', s)
  BY DEF UpdateStorage
<1>2. objects'[s] = Empty
  BY <1>1 DEF StoreInv, GarbageIsEmpty, Collect
<1>3. Present(objects'[s]) = {}
  BY <1>2 DEF Present, Empty
<1>4. Narrowed(listing', listing, {})
  <2>1. Narrowed(listing', listing, Present(objects'[s]))
    BY <1>1, TrackKeepsLists DEF ListingsInv
  <2> QED
    BY <1>3, <2>1
<1>5. ListingTyped' /\ \A d \in Clients : ListInv(listing'[d])
  BY <1>4 DEF Narrowed, ListingTyped, Listing
<1> QED
  BY <1>1, <1>4, <1>5 DEF Narrowed, ListingsInv, OpenWhileListing, WholeIsPresent, OvertakenIsEmpty

LEMMA RequestKeepsListings ==
  ASSUME BlobAssumption, StoreInv, ListingsInv, NEW c \in Clients, Request(c)
  PROVE  ListingsInv'
<1>1. ASSUME NEW k \in Keys, NEW b \in Bodies, PutCall(c, k, b)
      PROVE  ListingsInv'
  BY <1>1, AcceptKeepsListings DEF PutCall
<1>2. ASSUME NEW k \in Keys, GetCall(c, k) \/ DeleteCall(c, k)
      PROVE  ListingsInv'
  BY <1>2, AcceptKeepsListings DEF GetCall, DeleteCall
<1>3. ASSUME NEW n \in PageSizes, ListStart(c, n)
      PROVE  ListingsInv'
  BY <1>3, AcceptKeepsListings DEF ListStart
<1>4. CASE ListNext(c)
  BY <1>4, AcceptKeepsListings DEF ListNext
<1> QED
  BY <1>1, <1>2, <1>3, <1>4 DEF Request

LEMMA AnswerKeepsListings ==
  ASSUME BlobAssumption, StoreInv, ListingsInv, NEW c \in Clients, Answer(c)
  PROVE  ListingsInv'
<1>1. Typed
  BY DEF StoreInv
<1>2. CASE Error(c)
  BY <1>1, <1>2, PlainEndKeepsListings, DropKeepsListings DEF Error
<1>3. CASE PutRefused(c) \/ PutStored(c)
  BY <1>1, <1>3, PlainEndKeepsListings DEF PutRefused, PutStored
<1>4. CASE GetMissing(c) \/ GetFound(c) \/ Delete(c)
  BY <1>1, <1>4, PlainEndKeepsListings DEF GetMissing, GetFound, Delete
<1>5. CASE MalformedListPage(c)
  BY <1>1, <1>5, DropKeepsListings DEF MalformedListPage
<1> DEFINE rest == Rest(Held(c), listing[c].after)
           page == PageOf(rest, listing[c].size)
<1>6. ASSUME asked[c] = "list"
      PROVE  page \in Seq(Keys) /\ InOrder(page)
  <2>1. listing[c].after \in 0..NumKeys /\ listing[c].size \in Nat
    <3>1. listing[c].after \in 0..NumKeys
      BY DEF ListingsInv, ListingTyped, Listing
    <3>2. listing[c].size \in PageSizes
      BY <1>6 DEF ListingsInv, ListInv, OpenIsSized, OpenWhileListing
    <3>3. PageSizes \subseteq Nat
      BY DEF BlobAssumption
    <3>4. listing[c].size \in Nat
      BY <3>2, <3>3
    <3> QED
      BY <3>1, <3>4
  <2>2. rest \in Seq(Keys) /\ InOrder(rest)
    BY <2>1, RestIsAll
  <2> HIDE DEF rest
  <2> QED
    BY <2>1, <2>2, PageIsFirst
<1>7. CASE ListPage(c)
  <2>1. asked[c] = "list" /\ End(c, Held(c), [listing EXCEPT ![c] = AddPage(@, rest, page)])
    BY <1>7 DEF ListPage, ListingsInv, ListingTyped
  <2>2. Shows(page, page, {})
    BY <1>6, <2>1, PageShows
  <2>3. {} \in SUBSET Keys /\ Cardinality({}) <= 1
    BY FS_EmptySet
  <2> QED
    BY <2>1, <2>2, <2>3, PageKeepsListings
<1>8. CASE StaleListPage(c)
  <2>1. /\ asked[c] = "list"
        /\ \E shown \in IF page = <<>> THEN {page} ELSE {RemoveAt(page, i) : i \in DOMAIN page} :
             End(c, Held(c), [listing EXCEPT ![c] = AddPage(@, rest, shown)])
    BY <1>8 DEF StaleListPage
  <2>2. CASE page = <<>>
    <3>1. End(c, Held(c), [listing EXCEPT ![c] = AddPage(@, rest, page)])
      BY <2>1, <2>2
    <3>2. Shows(page, page, {})
      BY <1>6, <2>1, PageShows
    <3>3. {} \in SUBSET Keys /\ Cardinality({}) <= 1
      BY FS_EmptySet
    <3> QED
      BY <2>1, <3>1, <3>2, <3>3, PageKeepsListings
  <2>3. CASE page # <<>>
    <3>1. PICK i \in DOMAIN page :
            End(c, Held(c), [listing EXCEPT ![c] = AddPage(@, rest, RemoveAt(page, i))])
      BY <2>1, <2>3
    <3>2. Shows(RemoveAt(page, i), page, {page[i]}) /\ page[i] \in Keys
      <4>1. page \in Seq(Keys) /\ InOrder(page)
        BY <1>6, <2>1
      <4> HIDE DEF page
      <4>2. i \in 1..Len(page)
        BY <4>1, <3>1
      <4> QED
        BY <4>1, <4>2, StaleShows
    <3>3. RemoveAt(page, i) # page
      BY <1>6, <2>1 DEF RemoveAt
    <3>4. {page[i]} \in SUBSET Keys /\ Cardinality({page[i]}) <= 1
      BY <3>2, FS_Singleton
    <3> QED
      BY <2>1, <3>1, <3>2, <3>3, <3>4, PageKeepsListings
  <2> QED
    BY <2>2, <2>3
<1> QED
  BY <1>2, <1>3, <1>4, <1>5, <1>7, <1>8 DEF Answer

LEMMA InitListings ==
  ASSUME BlobAssumption, BlobInit
  PROVE  ListingsInv
<1>1. ListInv(NoListing)
  BY NoListingInv
<1>2. listing = [c \in Clients |-> NoListing] /\ NoListing.whole = {}
  BY NoListingInv DEF BlobInit
<1>3. ListingTyped /\ \A c \in Clients : ListInv(listing[c])
  BY <1>1, <1>2 DEF ListingTyped, ListInv
<1>4. OpenWhileListing
  BY DEF BlobInit, OpenWhileListing
<1> QED
  BY <1>2, <1>3, <1>4 DEF ListingsInv, WholeIsPresent, OvertakenIsEmpty

LEMMA NextKeepsListings ==
  ASSUME BlobAssumption, StoreInv, ListingsInv, [BlobNext]_blobVars
  PROVE  ListingsInv'
<1>1. CASE \E c \in Clients : Request(c) \/ Answer(c)
  BY <1>1, RequestKeepsListings, AnswerKeepsListings
<1>2. CASE Reset
  BY <1>2, ResetKeepsListings
<1>3. CASE \E s \in Stores, max \in Limits : UpdateStorage(s, max)
  BY <1>3, UpdateKeepsListings
<1>4. CASE UNCHANGED blobVars
  BY <1>4 DEF blobVars, ListingsInv, ListingTyped, Listing, OpenWhileListing, WholeIsPresent,
              OvertakenIsEmpty
<1> QED
  BY <1>1, <1>2, <1>3, <1>4 DEF BlobNext

LEMMA BothInvsHold == BlobSpec => [](StoreInv /\ ListingsInv)
<1>1. BlobInit => StoreInv /\ ListingsInv
  BY BlobAssumption, InitInv, InitListings
<1>2. StoreInv /\ ListingsInv /\ [BlobNext]_blobVars => (StoreInv /\ ListingsInv)'
  BY BlobAssumption, NextKeepsInv, NextKeepsListings
<1> QED
  BY <1>1, <1>2, PTL DEF BlobSpec

-----------------------------------------------------------------------------
(* In every reachable state the handlers and the listings of any number of *)
(* clients hold what their fields are for (blob/server.py, blob/store.py). *)
THEOREM TypeCorrect == BlobSpec => []BlobTypeOK
<1>1. StoreInv /\ ListingsInv => BlobTypeOK
  BY DEF StoreInv, Typed, Store, Job, ListingsInv, ListingTyped, Listing, BlobTypeOK
<1> QED
  BY <1>1, BothInvsHold, PTL

(* A client that follows continuation tokens sees every key at most once   *)
(* and in order, for every page size, whatever is written, deleted, reset  *)
(* or replaced between its pages and however many of them are stale        *)
(* (blob/store.py list_objects, blob/server.py _handle_list).              *)
THEOREM ListedInOrder == BlobSpec => []ListingInOrder
<1>1. ListingsInv => ListingInOrder
  BY DEF ListingsInv, ListInv, ListingInOrder
<1> QED
  BY <1>1, BothInvsHold, PTL

(* A listing followed to its last page has shown every object that was     *)
(* there from its first page on, but for one at most for each page served  *)
(* stale: the continuation token goes on from the full page, not from what *)
(* the stale one shows (blob/server.py _handle_list, blob/store.py).       *)
THEOREM ListedCompletely == BlobSpec => []ListingComplete
<1>1. ListingsInv => ListingComplete
  BY DEF ListingsInv, ListInv, MissedAreStale, Missed, ListingComplete
<1> QED
  BY <1>1, BothInvsHold, PTL
=============================================================================
