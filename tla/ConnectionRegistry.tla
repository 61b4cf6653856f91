------------------------- MODULE ConnectionRegistry -------------------------
(***************************************************************************)
(* How engine/metrics_store.py hands out SQLite connections: one cached in *)
(* thread-local storage per thread, all of them registered under the       *)
(* thread's ident in self._connections, which the operating system may     *)
(* give to a later thread once its owner has exited.  A thread that needs  *)
(* a connection first closes those of exited threads; it takes the list of *)
(* live threads before it takes self._lock.                                *)
(*                                                                         *)
(* A recording is a write and a commit, and each of the two asks for the   *)
(* thread's connection anew.  Bodies under self._lock are single steps.    *)
(***************************************************************************)
EXTENDS Integers, FiniteSets

CONSTANTS
  Owners, Idents, NoIdent,
  Conns, NoConn

ASSUME RegistryAssumption ==
  /\ NoIdent \notin Idents
  /\ NoConn \notin Conns

VARIABLES
  at,        \* where each thread is in _get_connection
  ident,     \* threading.get_ident() of each running thread
  local,     \* self._local.connection of each thread
  registry,  \* self._connections
  open,      \* the connections that are not closed
  live,      \* live_thread_ids of a thread that is cleaning up
  got,       \* the connection a thread has just created
  written,   \* the connection that holds a thread's uncommitted write
  late,      \* history: threads that started while another one cleaned up
  missed     \* history: a commit ran on another connection than its write

registryVars == <<at, ident, local, registry, open, live, got, written, late, missed>>

Running == {t \in Owners : at[t] \notin {"new", "exited"}}

Proceed(t, label) == at' = [at EXCEPT ![t] = label]

RegistryInit ==
  /\ at = [t \in Owners |-> "new"]
  /\ ident = [t \in Owners |-> NoIdent]
  /\ local = [t \in Owners |-> NoConn]
  /\ registry = [i \in Idents |-> NoConn]
  /\ open = {}
  /\ live = [t \in Owners |-> {}]
  /\ got = [t \in Owners |-> NoConn]
  /\ written = [t \in Owners |-> NoConn]
  /\ late = {}
  /\ missed = FALSE

-----------------------------------------------------------------------------
(* Threads come and go; an ident is free again once its thread is gone.    *)

Start(t, i) ==
  /\ at[t] = "new"
  /\ \A u \in Running : ident[u] # i
  /\ ident' = [ident EXCEPT ![t] = i]
  /\ late' = IF \E u \in Owners : at[u] = "cleanup" THEN late \cup {t} ELSE late
  /\ Proceed(t, "idle")
  /\ UNCHANGED <<local, registry, open, live, got, written, missed>>

(* The thread's local storage dies with it; the registry still refers to   *)
(* its connection.                                                         *)
Exit(t) ==
  /\ at[t] = "idle"
  /\ written[t] = NoConn
  /\ ident' = [ident EXCEPT ![t] = NoIdent]
  /\ local' = [local EXCEPT ![t] = NoConn]
  /\ Proceed(t, "exited")
  /\ UNCHANGED <<registry, open, live, got, written, late, missed>>

-----------------------------------------------------------------------------
(* What a thread does with the connection c it was given: its write if it  *)
(* has none pending, its commit otherwise.  A closed connection raises,    *)
(* and the recorder's rollback on it raises too.                           *)

Operate(t, c) ==
  LET writes == written[t] = NoConn
      usable == c \in open
  IN  /\ written' = [written EXCEPT ![t] = IF usable /\ writes THEN c ELSE NoConn]
      /\ missed' = (missed \/ (usable /\ ~writes /\ written[t] # c))
      /\ Proceed(t, "idle")

(* try: return self._local.connection *)
UseCached(t) ==
  /\ at[t] = "idle"
  /\ local[t] # NoConn
  /\ Operate(t, local[t])
  /\ UNCHANGED <<ident, local, registry, open, live, got, late>>

(* Seeded fault: every thread but the caller counts as exited. *)
EnumerateSelf(t) ==
  /\ at[t] = "idle"
  /\ local[t] = NoConn
  /\ live' = [live EXCEPT ![t] = {ident[t]}]
  /\ Proceed(t, "cleanup")
  /\ UNCHANGED <<ident, local, registry, open, got, written, late, missed>>

(* threading.enumerate(), outside the lock. *)
Enumerate(t) ==
  /\ at[t] = "idle"
  /\ local[t] = NoConn
  /\ live' = [live EXCEPT ![t] = {ident[u] : u \in Running}]
  /\ Proceed(t, "cleanup")
  /\ UNCHANGED <<ident, local, registry, open, got, written, late, missed>>

CleanupStale(t) ==
  /\ at[t] = "cleanup"
  /\ LET dead == Idents \ live[t]
     IN  /\ open' = open \ {registry[i] : i \in dead}
         /\ registry' = [i \in Idents |-> IF i \in dead THEN NoConn ELSE registry[i]]
  /\ live' = [live EXCEPT ![t] = {}]
  /\ Proceed(t, "connect")
  /\ UNCHANGED <<ident, local, got, written, late, missed>>

(* A connection object nobody refers to any more. *)
Unreferenced(c) ==
  /\ \A t \in Owners : c \notin {local[t], got[t], written[t]}
  /\ \A i \in Idents : registry[i] # c

(* Seeded fault: self._local is a plain object that all threads share. *)
ConnectShared(t, c) ==
  /\ at[t] = "connect"
  /\ Unreferenced(c)
  /\ open' = open \cup {c}
  /\ local' = [u \in Owners |-> IF u \in Running THEN c ELSE local[u]]
  /\ got' = [got EXCEPT ![t] = c]
  /\ Proceed(t, "register")
  /\ UNCHANGED <<ident, registry, live, written, late, missed>>

Connect(t, c) ==
  /\ at[t] = "connect"
  /\ Unreferenced(c)
  /\ open' = open \cup {c}
  /\ local' = [local EXCEPT ![t] = c]
  /\ got' = [got EXCEPT ![t] = c]
  /\ Proceed(t, "register")
  /\ UNCHANGED <<ident, registry, live, written, late, missed>>

(* A PRAGMA fails: the new connection is closed and the error propagates.  *)
ConnectFails(t) ==
  /\ at[t] = "connect"
  /\ written' = [written EXCEPT ![t] = NoConn]
  /\ Proceed(t, "idle")
  /\ UNCHANGED <<ident, local, registry, open, live, got, late, missed>>

(* Seeded fault: an entry of the ident's earlier owner is left in place.   *)
RegisterOnce(t) ==
  /\ at[t] = "register"
  /\ registry' = [registry EXCEPT ![ident[t]] = IF @ = NoConn THEN got[t] ELSE @]
  /\ Proceed(t, "return")
  /\ UNCHANGED <<ident, local, open, live, got, written, late, missed>>

(* A displaced connection that nobody else holds is closed when its last   *)
(* reference goes.                                                         *)
Register(t) ==
  /\ at[t] = "register"
  /\ LET displaced == registry[ident[t]]
     IN  open' = IF displaced = got[t] \/ \E u \in Owners : local[u] = displaced
                 THEN open ELSE open \ {displaced}
  /\ registry' = [registry EXCEPT ![ident[t]] = got[t]]
  /\ Proceed(t, "return")
  /\ UNCHANGED <<ident, local, live, got, written, late, missed>>

ReturnNew(t) ==
  /\ at[t] = "return"
  /\ Operate(t, got[t])
  /\ got' = [got EXCEPT ![t] = NoConn]
  /\ UNCHANGED <<ident, local, registry, open, live, late>>

(* close(): every registered connection, then a fresh threading.local().   *)
Close ==
  /\ open' = open \ {registry[i] : i \in Idents}
  /\ registry' = [i \in Idents |-> NoConn]
  /\ local' = [t \in Owners |-> NoConn]
  /\ UNCHANGED <<at, ident, live, got, written, late, missed>>

RegistryNext ==
  \/ \E t \in Owners :
       \/ \E i \in Idents : Start(t, i)
       \/ Exit(t)
       \/ UseCached(t) \/ Enumerate(t) \/ CleanupStale(t)
       \/ \E c \in Conns : Connect(t, c)
       \/ ConnectFails(t) \/ Register(t) \/ ReturnNew(t)
  \/ Close

RegistrySpec == RegistryInit /\ [][RegistryNext]_registryVars

-----------------------------------------------------------------------------
(* Properties. *)

RegistryTypeOK ==
  /\ at \in [Owners -> {"new", "idle", "cleanup", "connect", "register",
                         "return", "exited"}]
  /\ ident \in [Owners -> Idents \cup {NoIdent}]
  /\ local \in [Owners -> Conns \cup {NoConn}]
  /\ registry \in [Idents -> Conns \cup {NoConn}]
  /\ open \subseteq Conns
  /\ live \in [Owners -> SUBSET Idents]
  /\ got \in [Owners -> Conns \cup {NoConn}]
  /\ written \in [Owners -> Conns \cup {NoConn}]
  /\ late \subseteq Owners
  /\ missed \in BOOLEAN

(* "Close connections from threads that have exited": the connection that  *)
(* a running thread has cached, and will use as long as it lives, is open. *)
(* True of every thread but those that started between the enumeration of  *)
(* another one and its closing.                                            *)
CachedIsOpen == \A t \in Running : local[t] # NoConn => local[t] \in open

(* A thread that no cleanup could miss keeps its connection open: neither  *)
(* its being counted as exited nor a later owner or an earlier one of its  *)
(* ident, nor close(), leaves it with a closed connection in its cache.    *)
KnownThreadsKeepTheirs == \A t \in Running \ late : local[t] # NoConn => local[t] \in open

(* close() "all database connections across all threads" finds them all:   *)
(* a connection that is open is in the registry or on its way into it,     *)
(* though threads exit without a word, idents return and cleanups take     *)
(* entries out.                                                            *)
OpenIsRegistered ==
  \A c \in open : \/ \E i \in Idents : registry[i] = c
                  \/ \E t \in Owners : at[t] = "register" /\ got[t] = c

(* No two threads ever share a connection, so one thread's commit cannot   *)
(* publish the half of a recording that another one has written.           *)
ConnectionsAreThreadLocal ==
  \A t, u \in Running : t # u /\ local[t] # NoConn => local[t] # local[u]

(* "commit them atomically as a single transaction": a commit that reports *)
(* success committed the write it belongs to.  False when close() comes    *)
(* between the two.                                                        *)
CommitReachesWrite == ~missed
=============================================================================
