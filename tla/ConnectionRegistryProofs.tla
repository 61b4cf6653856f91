---------------------- MODULE ConnectionRegistryProofs ----------------------
(***************************************************************************)
(* Theorems about ConnectionRegistry, for any threads, idents and          *)
(* connections, whenever threads start, exit and call close().             *)
(***************************************************************************)
EXTENDS ConnectionRegistry, TLAPS

-----------------------------------------------------------------------------
(* The inductive invariant. *)

(* A running thread has an ident; one that registers a connection has it   *)
(* cached, unless close() has emptied the cache meanwhile.                 *)
HandsMatch(t) ==
  /\ IF t \in Running THEN ident[t] \in Idents ELSE local[t] = NoConn
  /\ at[t] = "register" => got[t] # NoConn /\ local[t] \in {NoConn, got[t]}

(* Idents and connections are one thread's each, and a connection that was *)
(* created is nobody's but its creator's.                                  *)
IdentsAreOwn == \A t, u \in Running : t # u => ident[t] # ident[u]
LocalsAreOwn == \A t, u \in Owners : t # u /\ local[t] # NoConn => local[t] # local[u]
GotsAreOwn ==
  \A t, u \in Owners : t # u /\ at[t] = "register" => local[u] # got[t]

(* A connection in use is in the registry under its owner's ident only:    *)
(* what an earlier owner of the ident had is in nobody's cache.            *)
EntriesAreOwn ==
  \A t \in Owners, i \in Idents :
    local[t] # NoConn /\ registry[i] = local[t] => i = ident[t]

(* A thread that cleans up knows all that run, but for those that started  *)
(* behind its back.                                                        *)
LiveIsKnown ==
  \A t \in Owners : at[t] = "cleanup" => \A u \in Running \ late : ident[u] \in live[t]

RegistryInv ==
  /\ RegistryTypeOK
  /\ \A t \in Owners : HandsMatch(t)
  /\ IdentsAreOwn /\ LocalsAreOwn /\ GotsAreOwn /\ EntriesAreOwn /\ LiveIsKnown
  /\ OpenIsRegistered /\ KnownThreadsKeepTheirs

LEMMA InitInv == RegistryInit => RegistryInv
BY RegistryAssumption
   DEF RegistryInit, RegistryInv, RegistryTypeOK, HandsMatch, Running, IdentsAreOwn,
       LocalsAreOwn, GotsAreOwn, EntriesAreOwn, LiveIsKnown, OpenIsRegistered,
       KnownThreadsKeepTheirs, RegistryAssumption

(* The steps that could break it are those of a third party: a cleanup     *)
(* that closes what a running thread has cached, a registration that       *)
(* displaces the entry of an earlier owner of the ident, and a close().    *)
LEMMA NextInv ==
  ASSUME RegistryInv, [RegistryNext]_registryVars
  PROVE  RegistryInv'
<1> USE RegistryAssumption DEF RegistryInv, RegistryTypeOK, Running, Proceed, RegistryAssumption
<1>1. ASSUME NEW t \in Owners, NEW i \in Idents, Start(t, i)
      PROVE  RegistryInv'
  <2>1. RegistryTypeOK'
    BY <1>1 DEF Start, HandsMatch
  <2>2. ASSUME NEW u \in Owners PROVE HandsMatch(u)'
    BY <1>1, <2>2 DEF Start, HandsMatch
  <2>3. IdentsAreOwn'
    BY <1>1 DEF Start, IdentsAreOwn, HandsMatch
  <2>4. LocalsAreOwn'
    BY <1>1 DEF Start, LocalsAreOwn
  <2>5. GotsAreOwn'
    BY <1>1 DEF Start, GotsAreOwn, HandsMatch
  <2>6. EntriesAreOwn'
    BY <1>1 DEF Start, EntriesAreOwn, HandsMatch
  <2>7. LiveIsKnown'
    BY <1>1 DEF Start, LiveIsKnown
  <2>8. OpenIsRegistered'
    BY <1>1 DEF Start, OpenIsRegistered
  <2>9. KnownThreadsKeepTheirs'
    BY <1>1 DEF Start, KnownThreadsKeepTheirs, HandsMatch
  <2>10. QED
    BY <2>1, <2>2, <2>3, <2>4, <2>5, <2>6, <2>7, <2>8, <2>9
<1>2. ASSUME NEW t \in Owners, Exit(t)
      PROVE  RegistryInv'
  <2>1. RegistryTypeOK'
    BY <1>2 DEF Exit, HandsMatch
  <2>2. ASSUME NEW u \in Owners PROVE HandsMatch(u)'
    BY <1>2, <2>2 DEF Exit, HandsMatch
  <2>3. IdentsAreOwn'
    BY <1>2 DEF Exit, IdentsAreOwn, HandsMatch
  <2>4. LocalsAreOwn'
    BY <1>2 DEF Exit, LocalsAreOwn
  <2>5. GotsAreOwn'
    BY <1>2 DEF Exit, GotsAreOwn, HandsMatch
  <2>6. EntriesAreOwn'
    BY <1>2 DEF Exit, EntriesAreOwn, HandsMatch
  <2>7. LiveIsKnown'
    BY <1>2 DEF Exit, LiveIsKnown
  <2>8. OpenIsRegistered'
    BY <1>2 DEF Exit, OpenIsRegistered
  <2>9. KnownThreadsKeepTheirs'
    BY <1>2 DEF Exit, KnownThreadsKeepTheirs, HandsMatch
  <2>10. QED
    BY <2>1, <2>2, <2>3, <2>4, <2>5, <2>6, <2>7, <2>8, <2>9
<1>3. ASSUME NEW t \in Owners, UseCached(t)
      PROVE  RegistryInv'
  <2>1. RegistryTypeOK'
    BY <1>3 DEF UseCached, Operate, HandsMatch
  <2>2. ASSUME NEW u \in Owners PROVE HandsMatch(u)'
    BY <1>3, <2>2 DEF UseCached, Operate, HandsMatch
  <2>3. IdentsAreOwn'
    BY <1>3 DEF UseCached, Operate, IdentsAreOwn, HandsMatch
  <2>4. LocalsAreOwn'
    BY <1>3 DEF UseCached, Operate, LocalsAreOwn
  <2>5. GotsAreOwn'
    BY <1>3 DEF UseCached, Operate, GotsAreOwn, HandsMatch
  <2>6. EntriesAreOwn'
    BY <1>3 DEF UseCached, Operate, EntriesAreOwn, HandsMatch
  <2>7. LiveIsKnown'
    BY <1>3 DEF UseCached, Operate, LiveIsKnown
  <2>8. OpenIsRegistered'
    BY <1>3 DEF UseCached, Operate, OpenIsRegistered
  <2>9. KnownThreadsKeepTheirs'
    BY <1>3 DEF UseCached, Operate, KnownThreadsKeepTheirs, HandsMatch
  <2>10. QED
    BY <2>1, <2>2, <2>3, <2>4, <2>5, <2>6, <2>7, <2>8, <2>9
<1>4. ASSUME NEW t \in Owners, Enumerate(t)
      PROVE  RegistryInv'
  <2>1. RegistryTypeOK'
    BY <1>4 DEF Enumerate, HandsMatch
  <2>2. ASSUME NEW u \in Owners PROVE HandsMatch(u)'
    BY <1>4, <2>2 DEF Enumerate, HandsMatch
  <2>3. IdentsAreOwn'
    BY <1>4 DEF Enumerate, IdentsAreOwn, HandsMatch
  <2>4. LocalsAreOwn'
    BY <1>4 DEF Enumerate, LocalsAreOwn
  <2>5. GotsAreOwn'
    BY <1>4 DEF Enumerate, GotsAreOwn, HandsMatch
  <2>6. EntriesAreOwn'
    BY <1>4 DEF Enumerate, EntriesAreOwn, HandsMatch
  <2>7. LiveIsKnown'
    BY <1>4 DEF Enumerate, LiveIsKnown
  <2>8. OpenIsRegistered'
    BY <1>4 DEF Enumerate, OpenIsRegistered
  <2>9. KnownThreadsKeepTheirs'
    BY <1>4 DEF Enumerate, KnownThreadsKeepTheirs, HandsMatch
  <2>10. QED
    BY <2>1, <2>2, <2>3, <2>4, <2>5, <2>6, <2>7, <2>8, <2>9
<1>5. ASSUME NEW t \in Owners, CleanupStale(t)
      PROVE  RegistryInv'
  <2>1. RegistryTypeOK'
    BY <1>5 DEF CleanupStale, HandsMatch
  <2>2. ASSUME NEW u \in Owners PROVE HandsMatch(u)'
    BY <1>5, <2>2 DEF CleanupStale, HandsMatch
  <2>3. IdentsAreOwn'
    BY <1>5 DEF CleanupStale, IdentsAreOwn, HandsMatch
  <2>4. LocalsAreOwn'
    BY <1>5 DEF CleanupStale, LocalsAreOwn
  <2>5. GotsAreOwn'
    BY <1>5 DEF CleanupStale, GotsAreOwn, HandsMatch
  <2>6. EntriesAreOwn'
    BY <1>5 DEF CleanupStale, EntriesAreOwn, HandsMatch
  <2>7. LiveIsKnown'
    BY <1>5 DEF CleanupStale, LiveIsKnown
  <2>8. OpenIsRegistered'
    <3>1. \A i \in Idents : registry[i] \in open' => registry'[i] = registry[i]
      BY <1>5 DEF CleanupStale
    <3>2. QED
      BY <1>5, <3>1 DEF CleanupStale, OpenIsRegistered
  <2>9. KnownThreadsKeepTheirs'
    <3>1. ASSUME NEW u \in Running \ late, local[u] # NoConn
          PROVE  local[u] \in open'
      <4>1. local[u] \in open
        BY <3>1 DEF KnownThreadsKeepTheirs
      <4>2. \A i \in Idents : registry[i] = local[u] => i \in live[t]
        BY <1>5, <3>1 DEF CleanupStale, EntriesAreOwn, LiveIsKnown
      <4>3. QED
        BY <1>5, <4>1, <4>2 DEF CleanupStale
    <3>2. QED
      BY <1>5, <3>1 DEF CleanupStale, KnownThreadsKeepTheirs
  <2>10. QED
    BY <2>1, <2>2, <2>3, <2>4, <2>5, <2>6, <2>7, <2>8, <2>9
<1>6. ASSUME NEW t \in Owners, NEW c \in Conns, Connect(t, c)
      PROVE  RegistryInv'
  <2>1. RegistryTypeOK'
    BY <1>6 DEF Connect, Unreferenced, HandsMatch
  <2>2. ASSUME NEW u \in Owners PROVE HandsMatch(u)'
    BY <1>6, <2>2 DEF Connect, Unreferenced, HandsMatch
  <2>3. IdentsAreOwn'
    BY <1>6 DEF Connect, Unreferenced, IdentsAreOwn, HandsMatch
  <2>4. LocalsAreOwn'
    BY <1>6 DEF Connect, Unreferenced, LocalsAreOwn
  <2>5. GotsAreOwn'
    BY <1>6 DEF Connect, Unreferenced, GotsAreOwn, HandsMatch
  <2>6. EntriesAreOwn'
    BY <1>6 DEF Connect, Unreferenced, EntriesAreOwn, HandsMatch
  <2>7. LiveIsKnown'
    BY <1>6 DEF Connect, Unreferenced, LiveIsKnown
  <2>8. OpenIsRegistered'
    <3>1. at'[t] = "register" /\ got'[t] = c
      BY <1>6 DEF Connect
    <3>2. ASSUME NEW d \in open PROVE \/ \E i \in Idents : registry'[i] = d
                                      \/ \E u \in Owners : at'[u] = "register" /\ got'[u] = d
      BY <1>6 DEF Connect, OpenIsRegistered
    <3>3. QED
      BY <1>6, <3>1, <3>2 DEF Connect, OpenIsRegistered
  <2>9. KnownThreadsKeepTheirs'
    BY <1>6 DEF Connect, Unreferenced, KnownThreadsKeepTheirs, HandsMatch
  <2>10. QED
    BY <2>1, <2>2, <2>3, <2>4, <2>5, <2>6, <2>7, <2>8, <2>9
<1>7. ASSUME NEW t \in Owners, ConnectFails(t)
      PROVE  RegistryInv'
  <2>1. RegistryTypeOK'
    BY <1>7 DEF ConnectFails, HandsMatch
  <2>2. ASSUME NEW u \in Owners PROVE HandsMatch(u)'
    BY <1>7, <2>2 DEF ConnectFails, HandsMatch
  <2>3. IdentsAreOwn'
    BY <1>7 DEF ConnectFails, IdentsAreOwn, HandsMatch
  <2>4. LocalsAreOwn'
    BY <1>7 DEF ConnectFails, LocalsAreOwn
  <2>5. GotsAreOwn'
    BY <1>7 DEF ConnectFails, GotsAreOwn, HandsMatch
  <2>6. EntriesAreOwn'
    BY <1>7 DEF ConnectFails, EntriesAreOwn, HandsMatch
  <2>7. LiveIsKnown'
    BY <1>7 DEF ConnectFails, LiveIsKnown
  <2>8. OpenIsRegistered'
    BY <1>7 DEF ConnectFails, OpenIsRegistered
  <2>9. KnownThreadsKeepTheirs'
    BY <1>7 DEF ConnectFails, KnownThreadsKeepTheirs, HandsMatch
  <2>10. QED
    BY <2>1, <2>2, <2>3, <2>4, <2>5, <2>6, <2>7, <2>8, <2>9
<1>8. ASSUME NEW t \in Owners, Register(t)
      PROVE  RegistryInv'
  <2>1. RegistryTypeOK'
    BY <1>8 DEF Register, HandsMatch
  <2>2. ASSUME NEW u \in Owners PROVE HandsMatch(u)'
    BY <1>8, <2>2 DEF Register, HandsMatch
  <2>3. IdentsAreOwn'
    BY <1>8 DEF Register, IdentsAreOwn, HandsMatch
  <2>4. LocalsAreOwn'
    BY <1>8 DEF Register, LocalsAreOwn
  <2>5. GotsAreOwn'
    BY <1>8 DEF Register, GotsAreOwn, HandsMatch
  <2>6. EntriesAreOwn'
    <3>1. ident[t] \in Idents /\ \A u \in Owners : u # t => local[u] # got[t]
      BY <1>8 DEF Register, HandsMatch, GotsAreOwn
    <3>2. QED
      BY <1>8, <3>1 DEF Register, EntriesAreOwn
  <2>7. LiveIsKnown'
    BY <1>8 DEF Register, LiveIsKnown
  <2>8. OpenIsRegistered'
    <3> DEFINE displaced == registry[ident[t]]
    <3>1. ident[t] \in Idents /\ got[t] # NoConn /\ local[t] \in {NoConn, got[t]}
      BY <1>8 DEF Register, HandsMatch
    <3>2. \A u \in Owners : displaced # NoConn /\ local[u] = displaced => displaced = got[t]
      BY <1>8, <3>1 DEF Register, EntriesAreOwn, IdentsAreOwn, HandsMatch
    <3>3. displaced \in open' => displaced = got[t]
      BY <1>8, <3>1, <3>2 DEF Register
    <3>4. /\ registry'[ident[t]] = got[t]
          /\ \A i \in Idents : i # ident[t] => registry'[i] = registry[i]
      BY <1>8, <3>1 DEF Register
    <3>5. ASSUME NEW d \in open' PROVE \/ \E i \in Idents : registry'[i] = d
                                       \/ \E u \in Owners : at'[u] = "register" /\ got'[u] = d
      <4>1. d \in open
        BY <1>8, <3>5 DEF Register
      <4>2. CASE d = got[t]
        BY <3>1, <3>4, <4>2
      <4>3. CASE d # got[t] /\ \E i \in Idents : registry[i] = d
        BY <3>3, <3>4, <3>5, <4>3
      <4>4. CASE d # got[t] /\ \E u \in Owners : at[u] = "register" /\ got[u] = d
        BY <1>8, <4>4 DEF Register
      <4>5. QED
        BY <4>1, <4>2, <4>3, <4>4 DEF OpenIsRegistered
    <3>6. QED
      BY <3>5 DEF OpenIsRegistered
  <2>9. KnownThreadsKeepTheirs'
    BY <1>8 DEF Register, KnownThreadsKeepTheirs, HandsMatch
  <2>10. QED
    BY <2>1, <2>2, <2>3, <2>4, <2>5, <2>6, <2>7, <2>8, <2>9
<1>9. ASSUME NEW t \in Owners, ReturnNew(t)
      PROVE  RegistryInv'
  <2>1. RegistryTypeOK'
    BY <1>9 DEF ReturnNew, Operate, HandsMatch
  <2>2. ASSUME NEW u \in Owners PROVE HandsMatch(u)'
    BY <1>9, <2>2 DEF ReturnNew, Operate, HandsMatch
  <2>3. IdentsAreOwn'
    BY <1>9 DEF ReturnNew, Operate, IdentsAreOwn, HandsMatch
  <2>4. LocalsAreOwn'
    BY <1>9 DEF ReturnNew, Operate, LocalsAreOwn
  <2>5. GotsAreOwn'
    BY <1>9 DEF ReturnNew, Operate, GotsAreOwn, HandsMatch
  <2>6. EntriesAreOwn'
    BY <1>9 DEF ReturnNew, Operate, EntriesAreOwn, HandsMatch
  <2>7. LiveIsKnown'
    BY <1>9 DEF ReturnNew, Operate, LiveIsKnown
  <2>8. OpenIsRegistered'
    BY <1>9 DEF ReturnNew, Operate, OpenIsRegistered
  <2>9. KnownThreadsKeepTheirs'
    BY <1>9 DEF ReturnNew, Operate, KnownThreadsKeepTheirs, HandsMatch
  <2>10. QED
    BY <2>1, <2>2, <2>3, <2>4, <2>5, <2>6, <2>7, <2>8, <2>9
<1>10. ASSUME Close
      PROVE  RegistryInv'
  <2>1. RegistryTypeOK'
    BY <1>10 DEF Close, HandsMatch
  <2>2. ASSUME NEW u \in Owners PROVE HandsMatch(u)'
    BY <1>10, <2>2 DEF Close, HandsMatch
  <2>3. IdentsAreOwn'
    BY <1>10 DEF Close, IdentsAreOwn, HandsMatch
  <2>4. LocalsAreOwn'
    BY <1>10 DEF Close, LocalsAreOwn
  <2>5. GotsAreOwn'
    BY <1>10 DEF Close, GotsAreOwn, HandsMatch
  <2>6. EntriesAreOwn'
    BY <1>10 DEF Close, EntriesAreOwn, HandsMatch
  <2>7. LiveIsKnown'
    BY <1>10 DEF Close, LiveIsKnown
  <2>8. OpenIsRegistered'
    BY <1>10 DEF Close, OpenIsRegistered
  <2>9. KnownThreadsKeepTheirs'
    BY <1>10 DEF Close, KnownThreadsKeepTheirs, HandsMatch
  <2>10. QED
    BY <2>1, <2>2, <2>3, <2>4, <2>5, <2>6, <2>7, <2>8, <2>9
<1>11. CASE UNCHANGED registryVars
  BY <1>11 DEF registryVars, HandsMatch, IdentsAreOwn, LocalsAreOwn, GotsAreOwn,
               EntriesAreOwn, LiveIsKnown, OpenIsRegistered, KnownThreadsKeepTheirs
<1>12. QED
  BY <1>1, <1>2, <1>3, <1>4, <1>5, <1>6, <1>7, <1>8, <1>9, <1>10, <1>11 DEF RegistryNext

LEMMA InvHolds == RegistrySpec => []RegistryInv
<1>1. RegistryInv /\ [RegistryNext]_registryVars => RegistryInv'
  BY NextInv
<1>2. QED
  BY InitInv, <1>1, PTL DEF RegistrySpec

-----------------------------------------------------------------------------
(* What follows. *)

(* No cleanup closes the connection of a thread that it could know of, nor *)
(* does a registration under an ident that comes back.                     *)
THEOREM KnownThreadsKeep == RegistrySpec => []KnownThreadsKeepTheirs
<1>1. RegistryInv => KnownThreadsKeepTheirs
  BY DEF RegistryInv
<1>2. QED
  BY InvHolds, <1>1, PTL

(* close() finds every open connection, whoever has exited without closing *)
(* and whoever has its ident now.                                          *)
THEOREM OpenStaysRegistered == RegistrySpec => []OpenIsRegistered
<1>1. RegistryInv => OpenIsRegistered
  BY DEF RegistryInv
<1>2. QED
  BY InvHolds, <1>1, PTL

(* No two running threads share a connection. *)
THEOREM ConnectionsStayLocal == RegistrySpec => []ConnectionsAreThreadLocal
<1>1. RegistryInv => ConnectionsAreThreadLocal
  BY DEF RegistryInv, LocalsAreOwn, Running, ConnectionsAreThreadLocal
<1>2. QED
  BY InvHolds, <1>1, PTL
=============================================================================
