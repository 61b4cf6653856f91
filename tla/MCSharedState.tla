--------------------------- MODULE MCSharedState ---------------------------
(***************************************************************************)
(* What the threads and handlers of one server share: the tables of the    *)
(* metrics store, with a reader beside two writers, the registry of its    *)
(* connections, the live configuration, and ChaosBlob's store.  The four   *)
(* have no variable in common, so each is checked with the others at rest. *)
(***************************************************************************)
EXTENDS StatsReader, ConnectionRegistry, ConfigSwap, BlobServer, TLC

CONSTANTS
  q1, b1, success, error,
  f, g,
  reader

VARIABLE part   \* the part that moves in this behaviour

(* bucket_sec divides the day: every window is its own bucket. *)
MCBucketOf == [q \in Requests |-> IF q = q1 THEN b1 ELSE CHOOSE b \in Buckets : b # b1]
MCWindow == [b \in Buckets |-> {q \in Requests : BucketOf[q] = b}]
MCTicks == [q \in Requests |-> {RequestsTotal, IF q = q1 THEN success ELSE error}]

(* Two sections of two fields.  One document sets a field; the other one   *)
(* sets it back with the rest of its section, and a field of the next.     *)
MCInitial == [s \in Sections |-> [x \in Fields |-> 0]]
MCUpdates == {<<f :> 1, [x \in {} |-> 0]>>, <<(f :> 0) @@ (g :> 1), f :> 1>>}

(* One client lists and reads while another one writes. *)
MCOperations ==
  [c \in Clients |-> IF c = reader THEN {"list", "get"} ELSE {"put", "delete"}]

TableVars == <<vars, readerVars>>

SharedInit ==
  /\ part \in {"tables", "connections", "configuration", "blob"}
  /\ Init /\ InitReader
  /\ RegistryInit
  /\ SwapInit /\ (part # "configuration" => mergesUnderLock = CHOOSE m \in LockUses : TRUE)
  /\ BlobInit /\ (part # "blob" => liveStore = CHOOSE s \in Stores : TRUE)

SharedNext ==
  /\ \/ part = "tables" /\ NextWithReader /\ UNCHANGED <<registryVars, swapVars, blobVars>>
     \/ part = "connections" /\ RegistryNext /\ UNCHANGED <<TableVars, swapVars, blobVars>>
     \/ part = "configuration" /\ SwapNext /\ UNCHANGED <<TableVars, registryVars, blobVars>>
     \/ part = "blob" /\ BlobNext /\ UNCHANGED <<TableVars, registryVars, swapVars>>
  /\ UNCHANGED part

SharedSpec ==
  SharedInit /\ [][SharedNext]_<<part, TableVars, registryVars, swapVars, blobVars>>

(* Which store object is live is of no account. *)
StoreSymmetry == Permutations(Stores)
=============================================================================
