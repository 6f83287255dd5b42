---------------------------- MODULE SharingProofs ----------------------------
(***************************************************************************)
(* Theorems about ConnectionStore, for any aliases, configs, handles, refs *)
(* and keys that satisfy StoreAssumption: the types, and that refs are      *)
(* shared safely: no dangling pointer, ownership or sharing as the handle   *)
(* asked, entries counted, nothing freed while connected.  The invariants   *)
(* hold together: each action needs several to keep one.  At the end, that   *)
(* shared memory segments are kept apart.                                   *)
(***************************************************************************)
EXTENDS ConnectionStore, FiniteSetTheorems, TLAPS

-----------------------------------------------------------------------------
(* The records the actions build have the types of the state.              *)

LEMMA FreeRefType == FreeRef \in RefRecord
  BY StoreAssumption DEF FreeRef, RefRecord, AddrState

LEMMA ConnectedType ==
  ASSUME NEW r \in RefRecord
  PROVE  Connected(r) \in RefRecord
  BY DEF Connected, RefRecord

LEMMA DisconnectedType ==
  ASSUME NEW r \in RefRecord
  PROVE  Disconnected(r) \in RefRecord
  BY DEF Disconnected, RefRecord

LEMMA FreedType ==
  ASSUME NEW r \in RefRecord
  PROVE  Freed(r) \in RefRecord
  BY FreeRefType DEF Freed, FreeRef, RefRecord

LEMMA ClosePhpConnectionType ==
  ASSUME NEW r \in RefRecord
  PROVE  ClosePhpConnection(r) \in RefRecord
  BY DEF ClosePhpConnection, RefRecord

LEMMA ConfigType ==
  ASSUME NEW conf \in AsConfig
  PROVE  /\ conf \in [hosts : Seq(Alias), use_shm : BOOLEAN, shm_key : Key]
         /\ conf.hosts \in HostList
         /\ HostsOf(conf) \subseteq Alias
  BY StoreAssumption DEF HostList, HostsOf

LEMMA RefFromAliasHashType ==
  ASSUME TypeOK, NEW conf \in AsConfig, NEW persist \in BOOLEAN,
         NEW addrs \in AddrState, NEW r \in Ref
  PROVE  RefFromAliasHash(conf, persist, addrs, r) \in RefRecord
  <1>1. CASE ref[r].allocated
    <2>1. ref[r] \in RefRecord
      BY DEF TypeOK
    <2>2. [ref[r] EXCEPT !.ref_count = @ + 1] \in RefRecord
      BY <2>1 DEF RefRecord
    <2> QED  BY <1>1, <2>2 DEF RefFromAliasHash
  <1>2. CASE ~ref[r].allocated
    <2>1. Len(conf.hosts) \in Nat
      BY ConfigType
    <2> QED
      BY <1>2, <2>1, ConfigType, FreeRefType
      DEF RefFromAliasHash, FreeRef, RefRecord
  <1> QED  BY <1>1, <1>2

-----------------------------------------------------------------------------
(* Parts of the constructor that keep the types of the tables they change. *)

LEMMA AliasHashType ==
  ASSUME TypeOK, NEW conf \in AsConfig, NEW persist \in BOOLEAN, NEW r \in Ref,
         ObjectFromAliasHash(conf, persist, r)
  PROVE  persistent_list' \in [Alias -> Ref \cup {NoRef}]
  BY DEF TypeOK, ObjectFromAliasHash

LEMMA SetShmKeyType ==
  ASSUME TypeOK, NEW conf \in AsConfig, NEW key \in Key,
         SetShmKeyFromAliasHashOrGenerate(conf, key)
  PROVE  /\ shm_key_list' \in [HostList -> Key \cup {NoKey}]
         /\ shm_key_counter' \in Key
  BY ConfigType DEF TypeOK, SetShmKeyFromAliasHashOrGenerate

-----------------------------------------------------------------------------
(* Type correctness.                                                       *)

LEMMA ConstructType ==
  ASSUME TypeOK, NEW o \in Object, NEW conf \in Config, NEW persist \in BOOLEAN,
         Construct(o, conf, persist)
  PROVE  TypeOK'
  <1> conf \in AsConfig /\ o \in Handle
    BY DEF AsConfig, Handle
  <1> PICK r \in Ref, key \in Key, connects \in BOOLEAN :
        LET found == ref[r].allocated
            rr    == [RefFromAliasHash(conf, persist, "process", r)
                        EXCEPT !.shm_key = key]
        IN  /\ ObjectFromAliasHash(conf, persist, r)
            /\ SetShmKeyFromAliasHashOrGenerate(conf, key)
            /\ found => connects
            /\ ref' = [ref EXCEPT ![r] = IF connects /\ ~found
                                         THEN Connected(rr) ELSE rr]
            /\ obj' = [obj EXCEPT ![o] =
                          [live |-> TRUE, is_persistent |-> persist,
                           is_conn |-> connects, as_ref_p |-> r]]
    BY DEF Construct
  <1> DEFINE rr == [RefFromAliasHash(conf, persist, "process", r)
                      EXCEPT !.shm_key = key]
  <1>1. rr \in RefRecord
    <2>1. RefFromAliasHash(conf, persist, "process", r) \in RefRecord
      BY RefFromAliasHashType DEF AddrState
    <2> QED  BY <2>1 DEF RefRecord
  <1>2. ref' \in [Ref -> RefRecord]
    <2>1. Connected(rr) \in RefRecord
      BY <1>1, ConnectedType
    <2> HIDE DEF rr
    <2> QED  BY <1>1, <2>1 DEF TypeOK, rr
  <1>3. obj' \in [Handle -> ObjRecord]
    BY DEF TypeOK, ObjRecord
  <1>4. persistent_list' \in [Alias -> Ref \cup {NoRef}]
    BY AliasHashType
  <1>5. shm_key_list' \in [HostList -> Key \cup {NoKey}] /\ shm_key_counter' \in Key
    BY SetShmKeyType
  <1>6. phase' = phase
    BY DEF Construct
  <1> QED  BY <1>2, <1>3, <1>4, <1>5, <1>6 DEF TypeOK

LEMMA SessionOpenType ==
  ASSUME TypeOK, NEW conf \in SavePath, SessionOpen(conf)
  PROVE  TypeOK'
  <1> conf \in AsConfig /\ Session \in Handle
    BY DEF AsConfig, Handle
  <1> PICK r \in Ref, connects \in BOOLEAN :
        LET found == ref[r].allocated
            rr    == RefFromAliasHash(conf, TRUE, "request", r)
        IN  /\ ObjectFromAliasHash(conf, TRUE, r)
            /\ found => connects
            /\ ref' = [ref EXCEPT ![r] =
                          IF connects /\ ~found
                          THEN [Connected(rr) EXCEPT !.addrs = "freed"] ELSE rr]
            /\ obj' = [obj EXCEPT ![Session] =
                          IF connects
                          THEN [live |-> TRUE, is_persistent |-> TRUE,
                                is_conn |-> TRUE, as_ref_p |-> r]
                          ELSE NoObj]
    BY DEF SessionOpen
  <1> DEFINE rr == RefFromAliasHash(conf, TRUE, "request", r)
  <1>1. rr \in RefRecord
    BY RefFromAliasHashType DEF AddrState
  <1>2. [Connected(rr) EXCEPT !.addrs = "freed"] \in RefRecord
    <2>1. Connected(rr) \in RefRecord
      BY <1>1, ConnectedType
    <2> HIDE DEF rr
    <2> QED  BY <2>1 DEF RefRecord, AddrState
  <1>3. ref' \in [Ref -> RefRecord]
    <2> HIDE DEF rr
    <2> QED  BY <1>1, <1>2 DEF TypeOK, rr
  <1>4. obj' \in [Handle -> ObjRecord]
    BY DEF TypeOK, ObjRecord, NoObj
  <1>5. persistent_list' \in [Alias -> Ref \cup {NoRef}]
    BY AliasHashType
  <1>6. UNCHANGED <<phase, shm_key_list, shm_key_counter>>
    BY DEF SessionOpen
  <1> QED  BY <1>3, <1>4, <1>5, <1>6 DEF TypeOK

\* Every reachable state has the types of TypeOK: no count falls below zero, and
\* every pointer is NULL or the address of a ref.
THEOREM TypeCorrect == Spec => []TypeOK
  <1>1. Init => TypeOK
    BY FreeRefType, StoreAssumption DEF Init, TypeOK, NoObj, ObjRecord
  <1>2. TypeOK /\ [Next]_vars => TypeOK'
    <2> SUFFICES ASSUME TypeOK, [Next]_vars PROVE TypeOK'
      OBVIOUS
    <2> Object \subseteq Handle /\ Session \in Handle
      BY DEF Handle
    <2>1. ASSUME NEW o \in Object, ConstructRejected(o) PROVE TypeOK'
      BY <2>1 DEF ConstructRejected, TypeOK, ObjRecord, NoObj
    <2>2. ASSUME NEW o \in Object, NEW conf \in Config, NEW persist \in BOOLEAN,
                 Construct(o, conf, persist)
          PROVE  TypeOK'
      BY <2>2, ConstructType
    <2>3. ASSUME NEW o \in Object, NEW conf \in Config, NEW persist \in BOOLEAN,
                 ConstructWithoutHosts(o, conf, persist)
          PROVE  TypeOK'
      <3>1. shm_key_list' \in [HostList -> Key \cup {NoKey}] /\ shm_key_counter' \in Key
        BY <2>3, SetShmKeyType DEF ConstructWithoutHosts, AsConfig
      <3> QED  BY <2>3, <3>1 DEF ConstructWithoutHosts, TypeOK, ObjRecord, NoObj
    <2>4. ASSUME NEW o \in Object, IsConnected(o) PROVE TypeOK'
      BY <2>4 DEF IsConnected, TypeOK, ObjRecord
    <2>5. ASSUME NEW o \in Object, Close(o) PROVE TypeOK'
      <3> DEFINE r == obj[o].as_ref_p
      <3>1. r \in Ref /\ ref[r] \in RefRecord
        BY <2>5 DEF Close, HasRef, TypeOK, ObjRecord
      <3>2. ClosePhpConnection(ref[r]) \in RefRecord
        BY <3>1, ClosePhpConnectionType
      <3>3. [Disconnected(ref[r]) EXCEPT !.ref_count = 0] \in RefRecord
        <4>1. Disconnected(ref[r]) \in RefRecord
          BY <3>1, DisconnectedType
        <4> QED  BY <4>1 DEF RefRecord
      <3>4. ref' \in [Ref -> RefRecord]
        BY <2>5, <3>1, <3>2, <3>3 DEF Close, TypeOK
      <3> QED  BY <2>5, <3>4 DEF Close, TypeOK, ObjRecord
    <2>6. ASSUME NEW o \in Object, Reconnect(o) PROVE TypeOK'
      <3> DEFINE r == obj[o].as_ref_p
      <3>1. r \in Ref /\ ref[r] \in RefRecord
        BY <2>6 DEF Reconnect, HasRef, TypeOK, ObjRecord
      <3>2. /\ [Connected(ref[r]) EXCEPT !.ref_count = 1] \in RefRecord
            /\ [ref[r] EXCEPT !.ref_count = 1] \in RefRecord
        <4>1. Connected(ref[r]) \in RefRecord
          BY <3>1, ConnectedType
        <4> QED  BY <3>1, <4>1 DEF RefRecord
      <3>3. ref' \in [Ref -> RefRecord]
        BY <2>6, <3>1, <3>2 DEF Reconnect, TypeOK
      <3> QED  BY <2>6, <3>3 DEF Reconnect, TypeOK, ObjRecord
    <2>7. ASSUME NEW o \in Object, FreeStorage(o) PROVE TypeOK'
      <3> DEFINE r == obj[o].as_ref_p
      <3>1. ref' \in [Ref -> RefRecord]
        <4>1. CASE HasRef(o) /\ ~obj[o].is_persistent
          <5>1. r \in Ref /\ ref[r] \in RefRecord
            BY <4>1 DEF HasRef, TypeOK, ObjRecord
          <5>2. /\ Freed(ref[r]) \in RefRecord
                /\ Freed(Disconnected(ref[r])) \in RefRecord
            BY <5>1, FreedType, DisconnectedType
          <5> QED  BY <2>7, <4>1, <5>1, <5>2 DEF FreeStorage, TypeOK
        <4>2. CASE ~(HasRef(o) /\ ~obj[o].is_persistent)
          BY <2>7, <4>2 DEF FreeStorage, TypeOK
        <4> QED  BY <4>1, <4>2
      <3> QED  BY <2>7, <3>1 DEF FreeStorage, TypeOK, ObjRecord, NoObj
    <2>8. ASSUME NEW conf \in SavePath, SessionOpen(conf) PROVE TypeOK'
      BY <2>8, SessionOpenType
    <2>9. CASE SessionClose
      <3> DEFINE r == obj[Session].as_ref_p
      <3>1. ref' \in [Ref -> RefRecord]
        <4>1. r \in Ref => ClosePhpConnection(ref[r]) \in RefRecord
          BY ClosePhpConnectionType DEF TypeOK
        <4> QED  BY <2>9, <4>1 DEF SessionClose, TypeOK
      <3> QED  BY <2>9, <3>1 DEF SessionClose, TypeOK, ObjRecord, NoObj
    <2>10. CASE RequestEnd
      <3>1. \A r \in Ref : [ref[r] EXCEPT !.addrs = "freed"] \in RefRecord
        BY DEF TypeOK, RefRecord, AddrState
      <3> QED  BY <2>10, <3>1 DEF RequestEnd, TypeOK
    <2>11. CASE ModuleShutdown
      BY <2>11 DEF ModuleShutdown, TypeOK
    <2>12. ASSUME NEW a \in Alias, DestroyEntry(a) PROVE TypeOK'
      <3> DEFINE r == persistent_list[a]
      <3>1. r \in Ref /\ ref[r] \in RefRecord
        BY <2>12 DEF DestroyEntry, TypeOK
      <3>2. Freed(Disconnected(ref[r])) \in RefRecord
        BY <3>1, FreedType, DisconnectedType
      <3>3. ref[r].ref_hosts_entry > 1 =>
              [ref[r] EXCEPT !.ref_hosts_entry = @ - 1] \in RefRecord
        BY <3>1 DEF RefRecord
      <3> DEFINE rr == IF ref[r].ref_hosts_entry > 1
                       THEN [ref[r] EXCEPT !.ref_hosts_entry = @ - 1]
                       ELSE Freed(Disconnected(ref[r]))
      <3>4. ref' \in [Ref -> RefRecord]
        <4>1. rr \in RefRecord
          BY <3>2, <3>3
        <4>2. ref' = [ref EXCEPT ![r] = rr]
          BY <2>12 DEF DestroyEntry
        <4> HIDE DEF rr
        <4> QED  BY <3>1, <4>1, <4>2 DEF TypeOK
      <3> QED  BY <2>12, <3>4 DEF DestroyEntry, TypeOK
    <2>13. CASE ModuleStopped
      BY <2>13 DEF ModuleStopped, TypeOK
    <2>14. CASE UNCHANGED vars
      BY <2>14 DEF vars, TypeOK
    <2> QED
      BY <2>1, <2>2, <2>3, <2>4, <2>5, <2>6, <2>7, <2>8, <2>9, <2>10, <2>11,
         <2>12, <2>13, <2>14 DEF Next
  <1> QED  BY <1>1, <1>2, PTL DEF Spec

-----------------------------------------------------------------------------
(* Counting the entries of a ref.                                          *)

\* A list of hosts has at most as many hosts as its length, exactly as many
\* when none is repeated.
LEMMA HostsCounted ==
  ASSUME NEW conf \in AsConfig
  PROVE  /\ IsFiniteSet(HostsOf(conf))
         /\ Cardinality(HostsOf(conf)) <= Len(conf.hosts)
         /\ ~Repeats(conf.hosts) => Cardinality(HostsOf(conf)) = Len(conf.hosts)
         /\ conf.hosts # <<>> => HostsOf(conf) # {} /\ Len(conf.hosts) > 0
  <1> DEFINE hosts == conf.hosts
             n     == Len(hosts)
  <1>1. hosts \in Seq(Alias)
    BY ConfigType
  <1>2. n \in Nat /\ DOMAIN hosts = 1 .. n /\ (hosts # <<>> => n > 0)
    BY <1>1
  <1>3. hosts \in Surjection(1 .. n, HostsOf(conf))
    <2>1. hosts \in [1 .. n -> HostsOf(conf)]
      BY <1>1, <1>2 DEF HostsOf
    <2> QED  BY <2>1, <1>2 DEF Surjection, HostsOf
  <1>4. IsFiniteSet(1 .. n) /\ Cardinality(1 .. n) = n
    BY <1>2, FS_Interval
  <1>5. ~Repeats(hosts) => hosts \in Injection(1 .. n, HostsOf(conf))
    BY <1>2, <1>3 DEF Repeats, Injection, Surjection, IsInjective
  <1>6. hosts # <<>> => HostsOf(conf) # {}
    <2>1. n > 0 => hosts[1] \in HostsOf(conf)
      BY <1>2 DEF HostsOf
    <2> QED  BY <1>2, <2>1
  <1> HIDE DEF hosts, n
  <1>7. /\ IsFiniteSet(HostsOf(conf))
        /\ Cardinality(HostsOf(conf)) <= n
        /\ hosts \in Injection(1 .. n, HostsOf(conf)) => Cardinality(HostsOf(conf)) = n
    BY <1>3, <1>4, FS_Surjection
  <1> QED  BY <1>2, <1>5, <1>6, <1>7 DEF hosts, n

\* The alias hash gives a handle a ref that is counted as it should be, and
\* leaves the entries of every other ref alone.
LEMMA AliasHashEntries ==
  ASSUME SharingInv, NEW conf \in AsConfig, conf.hosts # <<>>,
         NEW persist \in BOOLEAN, NEW r \in Ref, NEW addrs,
         ObjectFromAliasHash(conf, persist, r)
  PROVE  LET rr == RefFromAliasHash(conf, persist, addrs, r)
         IN  /\ \A q \in Ref : q # r => Entries(q)' = Entries(q)
             /\ \A a \in Alias : persistent_list'[a] \in {persistent_list[a], r}
             /\ IsFiniteSet(Entries(r)')
             /\ persist <=> Entries(r)' # {}
             /\ persist <=> rr.ref_hosts_entry > 0
             /\ ~persist => ~ref[r].allocated /\ rr.ref_hosts_entry = 0
             /\ Cardinality(Entries(r)') <= rr.ref_hosts_entry
             /\ ~Repeats(rr.hosts) => Cardinality(Entries(r)') = rr.ref_hosts_entry
  <1> USE DEF SharingInv
  <1>0. NoRef \notin Ref
    BY StoreAssumption
  <1>1. CASE persist /\ IsHashedRef(conf, r) /\ UNCHANGED persistent_list
    <2>1. PICK i \in DOMAIN conf.hosts : persistent_list[conf.hosts[i]] = r
      BY <1>1 DEF IsHashedRef
    <2>2. conf.hosts[i] \in Alias
      BY <2>1, ConfigType
    <2>3. ref[r].allocated /\ conf.hosts[i] \in Entries(r)
      BY <2>1, <2>2, <1>0 DEF NoDangling, Entries
    <2>4. \A q \in Ref : Entries(q)' = Entries(q)
      BY <1>1 DEF Entries
    <2>5. ref[r] \in RefRecord
      BY DEF TypeOK
    <2>6. /\ RefFromAliasHash(conf, persist, addrs, r).ref_hosts_entry = ref[r].ref_hosts_entry
          /\ RefFromAliasHash(conf, persist, addrs, r).hosts = ref[r].hosts
      BY <2>3, <2>5 DEF RefFromAliasHash, RefRecord
    <2> QED  BY <1>1, <2>3, <2>4, <2>6 DEF EntriesCounted, EntriesHashed
  <1>2. CASE /\ ~ref[r].allocated
             /\ persist => NothingHashed(conf)
             /\ persistent_list' = IF persist
                   THEN [a \in Alias |-> IF a \in HostsOf(conf)
                                         THEN r ELSE persistent_list[a]]
                   ELSE persistent_list
    <2>1. \A a \in Alias : persistent_list[a] # r
      BY <1>2, <1>0 DEF NoDangling
    <2>2. \A q \in Ref : q # r => Entries(q)' = Entries(q)
      BY <1>0, <1>2 DEF NothingHashed, Entries
    <2>3. Entries(r)' = IF persist THEN HostsOf(conf) ELSE {}
      BY <1>2, <2>1, ConfigType DEF Entries
    <2>4. /\ RefFromAliasHash(conf, persist, addrs, r).ref_hosts_entry
                = IF persist THEN Len(conf.hosts) ELSE 0
          /\ RefFromAliasHash(conf, persist, addrs, r).hosts = conf.hosts
      BY <1>2 DEF RefFromAliasHash, FreeRef
    <2>5. \A a \in Alias : persistent_list'[a] \in {persistent_list[a], r}
      BY <1>2
    <2> HIDE DEF SharingInv
    <2> QED  BY <1>2, <2>2, <2>3, <2>4, <2>5, HostsCounted, FS_EmptySet
  <1> QED  BY <1>1, <1>2 DEF ObjectFromAliasHash

-----------------------------------------------------------------------------
(* Steps of one shape.                                                     *)

\* A step that leaves the list alone, neither allocates nor frees, and lets
\* handles only keep the ref they have or drop it.
LEMMA QuietStep ==
  ASSUME SharingInv, TypeOK', UNCHANGED persistent_list,
         \A r \in Ref : /\ ref'[r].allocated = ref[r].allocated
                        /\ ref'[r].ref_hosts_entry = ref[r].ref_hosts_entry
                        /\ ref'[r].hosts = ref[r].hosts
                        /\ ref'[r].cluster => ref[r].allocated,
         \A h \in Handle : HasRef(h)' =>
             /\ obj'[h].as_ref_p = obj[h].as_ref_p
             /\ obj'[h].is_persistent = obj[h].is_persistent,
         DeadLetGo', UncountedClosed'
  PROVE  SharingInv'
  <1>1. \A r \in Ref : Entries(r)' = Entries(r)
    BY DEF Entries
  <1>2. NoDangling'
    BY DEF SharingInv, NoDangling, HasRef, TypeOK, ObjRecord
  <1>3. OwnedOrShared'
    <2> SUFFICES ASSUME NEW h \in Handle, NEW q \in Ref, obj'[h].as_ref_p = q
                 PROVE  IF obj'[h].is_persistent
                        THEN Entries(q)' # {}
                        ELSE /\ Entries(q)' = {}
                             /\ \A g \in Handle \ {h} : obj'[g].as_ref_p # q
      BY DEF OwnedOrShared, HasRef, Entries, TypeOK, ObjRecord
    <2>1. NoRef # q
      BY StoreAssumption
    <2>2. /\ HasRef(h) /\ obj[h].as_ref_p = q
          /\ obj'[h].is_persistent = obj[h].is_persistent
      BY <2>1 DEF HasRef
    <2>3. \A g \in Handle : obj'[g].as_ref_p \in {NoRef, obj[g].as_ref_p}
      BY DEF HasRef
    <2> QED  BY <1>1, <2>1, <2>2, <2>3 DEF SharingInv, OwnedOrShared
  <1>4. EntriesCounted' /\ EntriesHashed'
    BY <1>1 DEF SharingInv, EntriesCounted, EntriesHashed
  <1>5. FreedRefsClosed'
    BY DEF FreedRefsClosed
  <1> QED  BY <1>2, <1>3, <1>4, <1>5 DEF SharingInv

\* A handle without a ref asks the alias hash for one, and keeps it or not.
LEMMA AcquireStep ==
  ASSUME SharingInv, TypeOK', UNCHANGED phase, phase = "running",
         NEW conf \in AsConfig, conf.hosts # <<>>, NEW persist \in BOOLEAN,
         NEW r \in Ref, NEW addrs, ObjectFromAliasHash(conf, persist, r),
         NEW h \in Handle, ~obj[h].live,
         NEW x, ref' = [ref EXCEPT ![r] = x],
         x.allocated,
         x.ref_hosts_entry = RefFromAliasHash(conf, persist, addrs, r).ref_hosts_entry,
         x.hosts = RefFromAliasHash(conf, persist, addrs, r).hosts,
         ~persist => x.ref_count # 0,
         NEW y, obj' = [obj EXCEPT ![h] = y],
         y.live => y.as_ref_p = r /\ y.is_persistent = persist,
         ~y.live => persist /\ y.as_ref_p = NoRef
  PROVE  SharingInv'
  <1> DEFINE rr == RefFromAliasHash(conf, persist, addrs, r)
  <1>1. /\ \A q \in Ref : q # r => Entries(q)' = Entries(q)
        /\ \A a \in Alias : persistent_list'[a] \in {persistent_list[a], r}
        /\ IsFiniteSet(Entries(r)')
        /\ persist <=> Entries(r)' # {}
        /\ persist <=> rr.ref_hosts_entry > 0
        /\ ~persist => ~ref[r].allocated /\ rr.ref_hosts_entry = 0
        /\ Cardinality(Entries(r)') <= rr.ref_hosts_entry
        /\ ~Repeats(rr.hosts) => Cardinality(Entries(r)') = rr.ref_hosts_entry
    BY AliasHashEntries
  <1> HIDE DEF rr
  <1>2. /\ \A q \in Ref : ref'[q] = IF q = r THEN x ELSE ref[q]
        /\ \A g \in Handle : obj'[g] = IF g = h THEN y ELSE obj[g]
        /\ NoRef \notin Ref
        /\ \A g \in Handle : HasRef(g) => obj[g].as_ref_p \in Ref
        /\ ~HasRef(h) /\ obj[h].as_ref_p = NoRef
    BY StoreAssumption DEF SharingInv, TypeOK, ObjRecord, HasRef, DeadLetGo
  <1>3. \A g \in Handle \ {h} :
           /\ HasRef(g)' = HasRef(g) /\ obj'[g] = obj[g]
           /\ HasRef(g) /\ ~obj[g].is_persistent => obj[g].as_ref_p # r
    <2>1. \A g \in Handle \ {h} : HasRef(g)' = HasRef(g) /\ obj'[g] = obj[g]
      BY <1>2 DEF HasRef
    <2> SUFFICES ASSUME NEW g \in Handle, HasRef(g), ~obj[g].is_persistent,
                        obj[g].as_ref_p = r
                 PROVE  FALSE
      BY <2>1
    <2>2. ref[r].allocated /\ Entries(r) = {}
      BY DEF SharingInv, NoDangling, OwnedOrShared
    <2>3. persist /\ IsHashedRef(conf, r)
      BY <2>2 DEF ObjectFromAliasHash
    <2>4. \E i \in DOMAIN conf.hosts : conf.hosts[i] \in Entries(r)
      BY <2>3, ConfigType DEF IsHashedRef, Entries
    <2> QED  BY <2>2, <2>4
  <1>4. NoDangling'
    BY <1>1, <1>2, <1>3 DEF SharingInv, NoDangling, HasRef
  <1>5. OwnedOrShared'
    <2> SUFFICES ASSUME NEW g \in Handle, NEW q \in Ref, obj'[g].as_ref_p = q
                 PROVE  IF obj'[g].is_persistent
                        THEN Entries(q)' # {}
                        ELSE /\ Entries(q)' = {}
                             /\ \A k \in Handle \ {g} : obj'[k].as_ref_p # q
      BY DEF OwnedOrShared, HasRef, Entries, TypeOK, SharingInv, ObjRecord
    <2>0. q # NoRef
      BY StoreAssumption
    <2>1. CASE g = h
      <3>1. y.live /\ q = r /\ y.is_persistent = persist
        BY <2>0, <2>1, <1>2
      <3>2. ~persist => \A k \in Handle \ {h} : obj[k].as_ref_p # r
        BY <1>1, <1>2 DEF SharingInv, NoDangling, HasRef
      <3> QED  BY <2>1, <3>1, <3>2, <1>1, <1>2
    <2>2. CASE g # h
      <3>1. HasRef(g) /\ obj'[g] = obj[g] /\ obj[g].as_ref_p = q /\ ref[q].allocated
        BY <2>0, <2>2, <1>2, <1>3 DEF SharingInv, NoDangling, HasRef
      <3>2. CASE q = r
        BY <3>1, <3>2, <2>2, <1>1, <1>3
      <3>3. CASE q # r
        <4>1. Entries(q)' = Entries(q)
          BY <3>3, <1>1
        <4>2. \A k \in Handle : obj[k].as_ref_p # q => obj'[k].as_ref_p # q
          BY <2>0, <3>3, <1>2
        <4> QED  BY <3>1, <4>1, <4>2 DEF SharingInv, OwnedOrShared
      <3> QED  BY <3>2, <3>3
    <2> QED  BY <2>1, <2>2
  <1>6. EntriesCounted' /\ EntriesHashed'
    <2>1. EntriesCounted'
      BY <1>1, <1>2 DEF SharingInv, EntriesCounted, rr
    <2>2. EntriesHashed'
      BY <1>1, <1>2 DEF SharingInv, EntriesHashed, rr
    <2> QED  BY <2>1, <2>2
  <1>7. FreedRefsClosed'
    BY <1>2 DEF SharingInv, FreedRefsClosed
  <1>8. DeadLetGo'
    BY <1>2, <1>3 DEF SharingInv, DeadLetGo, HasRef
  <1>9. UncountedClosed'
    BY <1>1, <1>2, <1>3 DEF SharingInv, UncountedClosed, HasRef, rr
  <1> QED  BY <1>4, <1>5, <1>6, <1>7, <1>8, <1>9 DEF SharingInv

-----------------------------------------------------------------------------
(* The actions, one lemma each.                                            *)

LEMMA ConstructSharing ==
  ASSUME SharingInv, TypeOK', NEW o \in Object, NEW conf \in Config,
         NEW persist \in BOOLEAN, Construct(o, conf, persist)
  PROVE  SharingInv'
  <1>1. PICK r \in Ref, key \in Key, connects \in BOOLEAN :
          LET found == ref[r].allocated
              rr    == [RefFromAliasHash(conf, persist, "process", r)
                          EXCEPT !.shm_key = key]
          IN  /\ ObjectFromAliasHash(conf, persist, r)
              /\ found => connects
              /\ ref' = [ref EXCEPT ![r] = IF connects /\ ~found
                                           THEN Connected(rr) ELSE rr]
              /\ obj' = [obj EXCEPT ![o] =
                            [live |-> TRUE, is_persistent |-> persist,
                             is_conn |-> connects, as_ref_p |-> r]]
    BY DEF Construct
  <1> DEFINE rr == RefFromAliasHash(conf, persist, "process", r)
             rk == [rr EXCEPT !.shm_key = key]
             x  == IF connects /\ ~ref[r].allocated THEN Connected(rk) ELSE rk
             y  == [live |-> TRUE, is_persistent |-> persist,
                    is_conn |-> connects, as_ref_p |-> r]
  <1>2. conf \in AsConfig /\ o \in Handle
    BY DEF AsConfig, Handle
  <1>3. rr \in RefRecord
    BY <1>2, RefFromAliasHashType DEF AddrState, SharingInv
  <1>4. /\ rk \in RefRecord /\ rk.allocated = rr.allocated
        /\ rk.ref_hosts_entry = rr.ref_hosts_entry
        /\ rk.hosts = rr.hosts /\ rk.ref_count = rr.ref_count
    BY <1>3 DEF RefRecord
  <1>5. rr.allocated /\ (~ref[r].allocated => rr.ref_count = 1)
    <2>1. ref[r] \in RefRecord
      BY DEF SharingInv, TypeOK
    <2> QED  BY <2>1 DEF RefFromAliasHash, FreeRef, RefRecord
  <1>6. ~persist => ~ref[r].allocated
    BY <1>1 DEF ObjectFromAliasHash
  <1>7. /\ x.allocated /\ x.ref_hosts_entry = rr.ref_hosts_entry
        /\ x.hosts = rr.hosts /\ (~persist => x.ref_count # 0)
    BY <1>4, <1>5, <1>6 DEF Connected, RefRecord
  <1>8. y.live /\ y.as_ref_p = r /\ y.is_persistent = persist
    OBVIOUS
  <1>9. /\ ref' = [ref EXCEPT ![r] = x] /\ obj' = [obj EXCEPT ![o] = y]
        /\ phase = "running" /\ UNCHANGED phase /\ ~obj[o].live /\ conf.hosts # <<>>
        /\ ObjectFromAliasHash(conf, persist, r)
    BY <1>1 DEF Construct
  <1> HIDE DEF x, y, rk
  <1> QED  BY <1>2, <1>7, <1>8, <1>9, AcquireStep

LEMMA SessionOpenSharing ==
  ASSUME SharingInv, TypeOK', NEW conf \in SavePath, SessionOpen(conf)
  PROVE  SharingInv'
  <1>1. PICK r \in Ref, connects \in BOOLEAN :
          LET found == ref[r].allocated
              rr    == RefFromAliasHash(conf, TRUE, "request", r)
          IN  /\ ObjectFromAliasHash(conf, TRUE, r)
              /\ found => connects
              /\ ref' = [ref EXCEPT ![r] =
                            IF connects /\ ~found
                            THEN [Connected(rr) EXCEPT !.addrs = "freed"] ELSE rr]
              /\ obj' = [obj EXCEPT ![Session] =
                            IF connects
                            THEN [live |-> TRUE, is_persistent |-> TRUE,
                                  is_conn |-> TRUE, as_ref_p |-> r]
                            ELSE NoObj]
    BY DEF SessionOpen
  <1> DEFINE rr == RefFromAliasHash(conf, TRUE, "request", r)
             x  == IF connects /\ ~ref[r].allocated
                   THEN [Connected(rr) EXCEPT !.addrs = "freed"] ELSE rr
             y  == IF connects
                   THEN [live |-> TRUE, is_persistent |-> TRUE,
                         is_conn |-> TRUE, as_ref_p |-> r]
                   ELSE NoObj
  <1>2. conf \in AsConfig /\ Session \in Handle /\ conf.hosts # <<>>
    BY StoreAssumption DEF AsConfig, Handle
  <1>3. rr \in RefRecord
    BY <1>2, RefFromAliasHashType DEF AddrState, SharingInv
  <1>4. rr.allocated
    <2>1. ref[r] \in RefRecord
      BY DEF SharingInv, TypeOK
    <2> QED  BY <2>1 DEF RefFromAliasHash, FreeRef, RefRecord
  <1>5. x.allocated /\ x.ref_hosts_entry = rr.ref_hosts_entry /\ x.hosts = rr.hosts
    <2> HIDE DEF rr
    <2> QED  BY <1>3, <1>4 DEF Connected, RefRecord
  <1>6. /\ y.live => y.as_ref_p = r /\ y.is_persistent = TRUE
        /\ ~y.live => y.as_ref_p = NoRef
    BY DEF NoObj
  <1>7. /\ ref' = [ref EXCEPT ![r] = x] /\ obj' = [obj EXCEPT ![Session] = y]
        /\ phase = "running" /\ UNCHANGED phase /\ ~obj[Session].live
        /\ ObjectFromAliasHash(conf, TRUE, r)
    BY <1>1 DEF SessionOpen
  <1> HIDE DEF x, y
  <1> QED  BY <1>2, <1>5, <1>6, <1>7, AcquireStep

\* The ref of a handle is that handle's alone if the handle owns it, so that
\* what one handle does to a ref it owns disturbs no other.
LEMMA OwnerAlone ==
  ASSUME SharingInv, NEW h \in Handle, HasRef(h)
  PROVE  /\ obj[h] \in ObjRecord /\ obj[h].live
         /\ obj[h].as_ref_p \in Ref /\ ref[obj[h].as_ref_p] \in RefRecord
         /\ ref[obj[h].as_ref_p].allocated
         /\ \A g \in Handle \ {h} :
               obj[g].as_ref_p = obj[h].as_ref_p =>
                   obj[g].is_persistent /\ obj[h].is_persistent
  BY DEF SharingInv, TypeOK, ObjRecord, HasRef, DeadLetGo, NoDangling, OwnedOrShared

LEMMA CloseSharing ==
  ASSUME SharingInv, TypeOK', NEW o \in Object, Close(o)
  PROVE  SharingInv'
  <1> DEFINE r == obj[o].as_ref_p
             x == IF obj[o].is_persistent
                  THEN ClosePhpConnection(ref[r])
                  ELSE [Disconnected(ref[r]) EXCEPT !.ref_count = 0]
  <1>1. o \in Handle /\ HasRef(o)
    BY DEF Handle, Close
  <1>2. r \in Ref /\ ref[r] \in RefRecord /\ ref[r].allocated
    BY <1>1, OwnerAlone
  <1>3. /\ x.allocated = ref[r].allocated /\ x.hosts = ref[r].hosts
        /\ x.ref_hosts_entry = ref[r].ref_hosts_entry
        /\ ~obj[o].is_persistent => ~x.cluster
    <2> HIDE DEF r
    <2> QED  BY <1>2 DEF ClosePhpConnection, Disconnected, RefRecord
  <1>4. ref' = [ref EXCEPT ![r] = x] /\ obj' = [obj EXCEPT ![o].is_conn = FALSE]
    BY DEF Close
  <1> HIDE DEF x
  <1>5. \A q \in Ref : ref'[q] = IF q = r THEN x ELSE ref[q]
    BY <1>2, <1>4 DEF SharingInv, TypeOK
  <1>6. \A h \in Handle : /\ obj'[h].as_ref_p = obj[h].as_ref_p
                          /\ obj'[h].is_persistent = obj[h].is_persistent
                          /\ obj'[h].live = obj[h].live
                          /\ HasRef(h)' = HasRef(h)
    BY <1>1, <1>4 DEF SharingInv, TypeOK, ObjRecord, HasRef
  <1>7. DeadLetGo'
    BY <1>6 DEF SharingInv, DeadLetGo, NothingLive, Close
  <1>8. UncountedClosed'
    <2> SUFFICES ASSUME NEW h \in Handle, HasRef(h), ~obj[h].is_persistent
                 PROVE  /\ ref'[obj[h].as_ref_p].ref_hosts_entry = 0
                        /\ ref'[obj[h].as_ref_p].ref_count = 0 =>
                              ~ref'[obj[h].as_ref_p].cluster
      BY <1>6 DEF UncountedClosed
    <2>1. obj[h].as_ref_p \in Ref
      BY OwnerAlone
    <2>2. ref[obj[h].as_ref_p].ref_hosts_entry = 0
      BY DEF SharingInv, UncountedClosed
    <2>3. CASE h = o
      BY <2>1, <2>2, <2>3, <1>3, <1>5
    <2>4. CASE h # o
      BY <2>1, <2>4, <1>1, <1>5, OwnerAlone DEF SharingInv, UncountedClosed
    <2> QED  BY <2>3, <2>4
  <1>9. \A q \in Ref : ref'[q].cluster => ref[q].allocated
    BY <1>2, <1>5 DEF SharingInv, FreedRefsClosed
  <1>10. UNCHANGED persistent_list
    BY DEF Close
  <1> QED  BY <1>3, <1>5, <1>6, <1>7, <1>8, <1>9, <1>10, QuietStep

LEMMA ReconnectSharing ==
  ASSUME SharingInv, TypeOK', NEW o \in Object, Reconnect(o)
  PROVE  SharingInv'
  <1> DEFINE r == obj[o].as_ref_p
  <1>1. o \in Handle /\ HasRef(o)
    BY DEF Handle, Reconnect
  <1>2. r \in Ref /\ ref[r] \in RefRecord /\ ref[r].allocated
    BY <1>1, OwnerAlone
  <1>3. PICK connects \in BOOLEAN :
          ref' = [ref EXCEPT ![r] =
                    [(IF ~obj[o].is_persistent /\ connects
                      THEN Connected(ref[r]) ELSE ref[r]) EXCEPT !.ref_count = 1]]
    BY DEF Reconnect
  <1> DEFINE x == [(IF ~obj[o].is_persistent /\ connects
                    THEN Connected(ref[r]) ELSE ref[r]) EXCEPT !.ref_count = 1]
  <1>4. /\ x.allocated = ref[r].allocated /\ x.hosts = ref[r].hosts
        /\ x.ref_hosts_entry = ref[r].ref_hosts_entry /\ x.ref_count = 1
    <2> HIDE DEF r
    <2> QED  BY <1>2 DEF Connected, RefRecord
  <1>5. ref' = [ref EXCEPT ![r] = x] /\ obj' = [obj EXCEPT ![o].is_conn = TRUE]
    BY <1>3 DEF Reconnect
  <1> HIDE DEF x
  <1>6. \A q \in Ref : ref'[q] = IF q = r THEN x ELSE ref[q]
    BY <1>2, <1>5 DEF SharingInv, TypeOK
  <1>7. \A h \in Handle : /\ obj'[h].as_ref_p = obj[h].as_ref_p
                          /\ obj'[h].is_persistent = obj[h].is_persistent
                          /\ obj'[h].live = obj[h].live
                          /\ HasRef(h)' = HasRef(h)
    BY <1>1, <1>5 DEF SharingInv, TypeOK, ObjRecord, HasRef
  <1>8. DeadLetGo'
    BY <1>7 DEF SharingInv, DeadLetGo, NothingLive, Reconnect
  <1>9. UncountedClosed'
    BY <1>1, <1>4, <1>6, <1>7, OwnerAlone DEF SharingInv, UncountedClosed
  <1>10. \A q \in Ref : ref'[q].cluster => ref[q].allocated
    BY <1>2, <1>6 DEF SharingInv, FreedRefsClosed
  <1>11. UNCHANGED persistent_list
    BY DEF Reconnect
  <1> QED  BY <1>4, <1>6, <1>7, <1>8, <1>9, <1>10, <1>11, QuietStep

LEMMA SessionCloseSharing ==
  ASSUME SharingInv, TypeOK', SessionClose
  PROVE  SharingInv'
  <1> DEFINE r == obj[Session].as_ref_p
             x == ClosePhpConnection(ref[r])
  <1>1. Session \in Handle
    BY DEF Handle
  <1>2. ref' = [ref EXCEPT ![r] = x] /\ obj' = [obj EXCEPT ![Session] = NoObj]
    BY DEF SessionClose
  <1>3. \A q \in Ref : /\ ref'[q].allocated = ref[q].allocated
                       /\ ref'[q].hosts = ref[q].hosts
                       /\ ref'[q].ref_hosts_entry = ref[q].ref_hosts_entry
                       /\ ref'[q].cluster = ref[q].cluster
    <2>1. \A q \in Ref : ref'[q] = IF q = r THEN x ELSE ref[q]
      BY <1>2 DEF SharingInv, TypeOK
    <2>2. \A q \in Ref : ref[q] \in RefRecord
      BY DEF SharingInv, TypeOK
    <2> HIDE DEF r
    <2> QED  BY <2>1, <2>2 DEF ClosePhpConnection, RefRecord
  <1>4. ~HasRef(Session)' /\ \A h \in Handle \ {Session} : obj'[h] = obj[h]
    BY <1>1, <1>2 DEF SharingInv, TypeOK, HasRef, NoObj
  <1>5. \A h \in Handle : HasRef(h)' => h # Session /\ HasRef(h) /\ obj'[h] = obj[h]
    BY <1>4 DEF HasRef
  <1>6. DeadLetGo'
    BY <1>4, <1>5 DEF SharingInv, DeadLetGo, SessionClose, HasRef
  <1>7. UncountedClosed'
    <2> SUFFICES ASSUME NEW h \in Handle, HasRef(h)', ~obj[h].is_persistent,
                        obj'[h] = obj[h], HasRef(h), h # Session
                 PROVE  /\ ref'[obj[h].as_ref_p].ref_hosts_entry = 0
                        /\ ref'[obj[h].as_ref_p].ref_count = 0 =>
                              ~ref'[obj[h].as_ref_p].cluster
      BY <1>5 DEF UncountedClosed
    <2>1. obj[h].as_ref_p \in Ref
      BY OwnerAlone
    <2>2. obj[h].as_ref_p # r
      BY <1>1, OwnerAlone DEF SharingInv, OwnedOrShared
    <2>3. ref'[obj[h].as_ref_p] = ref[obj[h].as_ref_p]
      BY <1>2, <2>1, <2>2 DEF SharingInv, TypeOK
    <2> QED  BY <2>3 DEF SharingInv, UncountedClosed
  <1>8. UNCHANGED persistent_list
    BY DEF SessionClose
  <1> QED  BY <1>3, <1>5, <1>6, <1>7, <1>8, QuietStep DEF SharingInv, FreedRefsClosed

LEMMA FreeStorageSharing ==
  ASSUME SharingInv, TypeOK', NEW o \in Object, FreeStorage(o)
  PROVE  SharingInv'
  <1> DEFINE r == obj[o].as_ref_p
             x == Freed(IF ref[r].ref_count # 0 THEN Disconnected(ref[r]) ELSE ref[r])
  <1>1. /\ o \in Handle /\ phase = "running" /\ UNCHANGED <<phase, persistent_list>>
        /\ obj' = [obj EXCEPT ![o] = NoObj]
    BY DEF Handle, FreeStorage
  <1>2. \A h \in Handle : obj'[h] = IF h = o THEN NoObj ELSE obj[h]
    BY <1>1 DEF SharingInv, TypeOK
  <1>3. \A h \in Handle : HasRef(h)' => h # o /\ HasRef(h) /\ obj'[h] = obj[h]
    BY <1>2 DEF HasRef, NoObj
  <1>4. DeadLetGo'
    BY <1>1, <1>2 DEF SharingInv, DeadLetGo, HasRef, NoObj
  <1>5. CASE ~(HasRef(o) /\ ~obj[o].is_persistent)
    <2>1. ref' = ref
      BY <1>5 DEF FreeStorage
    <2>2. UncountedClosed'
      BY <1>3, <2>1 DEF SharingInv, UncountedClosed
    <2> QED  BY <1>1, <1>3, <1>4, <2>1, <2>2, QuietStep DEF SharingInv, FreedRefsClosed
  <1>6. CASE HasRef(o) /\ ~obj[o].is_persistent
    <2>1. r \in Ref /\ ref[r] \in RefRecord
      BY <1>1, <1>6, OwnerAlone
    <2>2. ~x.allocated /\ ~x.cluster
      <3>1. ref[r].ref_count = 0 => ~ref[r].cluster
        BY <1>1, <1>6 DEF SharingInv, UncountedClosed
      <3> HIDE DEF r
      <3> QED  BY <2>1, <3>1 DEF Freed, Disconnected, FreeRef, RefRecord
    <2>3. ref' = [ref EXCEPT ![r] = x]
      BY <1>6 DEF FreeStorage
    <2> HIDE DEF x
    <2>4. \A q \in Ref : ref'[q] = IF q = r THEN x ELSE ref[q]
      BY <2>1, <2>3 DEF SharingInv, TypeOK
    <2>5. /\ Entries(r) = {} /\ \A q \in Ref : Entries(q)' = Entries(q)
      BY <1>1, <1>6 DEF SharingInv, OwnedOrShared, Entries
    <2>6. \A h \in Handle : HasRef(h)' => obj[h].as_ref_p \in Ref \ {r}
      BY <1>1, <1>3, <1>6, OwnerAlone
    <2>7. NoDangling'
      BY <1>1, <1>3, <2>1, <2>4, <2>5, <2>6
      DEF SharingInv, NoDangling, Entries, TypeOK
    <2>8. OwnedOrShared'
      <3> SUFFICES ASSUME NEW g \in Handle, NEW q \in Ref, obj'[g].as_ref_p = q
                   PROVE  IF obj'[g].is_persistent
                          THEN Entries(q)' # {}
                          ELSE /\ Entries(q)' = {}
                               /\ \A k \in Handle \ {g} : obj'[k].as_ref_p # q
        BY DEF OwnedOrShared, HasRef, Entries, TypeOK, ObjRecord
      <3>1. q # NoRef
        BY StoreAssumption
      <3>2. HasRef(g) /\ obj'[g] = obj[g] /\ obj[g].as_ref_p = q
        BY <1>3, <3>1 DEF HasRef
      <3>3. \A k \in Handle : obj[k].as_ref_p # q => obj'[k].as_ref_p # q
        BY <1>2, <3>1 DEF NoObj
      <3> QED  BY <3>2, <3>3, <2>5 DEF SharingInv, OwnedOrShared
    <2>9. EntriesCounted'
      BY <2>2, <2>4, <2>5 DEF SharingInv, EntriesCounted
    <2>10. EntriesHashed'
      BY <2>4, <2>5 DEF SharingInv, EntriesHashed
    <2>11. FreedRefsClosed'
      BY <2>2, <2>4 DEF SharingInv, FreedRefsClosed
    <2>12. UncountedClosed'
      BY <1>3, <2>4, <2>6 DEF SharingInv, UncountedClosed
    <2> QED  BY <1>4, <2>7, <2>8, <2>9, <2>10, <2>11, <2>12 DEF SharingInv
  <1> QED  BY <1>5, <1>6

LEMMA DestroyEntrySharing ==
  ASSUME SharingInv, TypeOK', NEW a \in Alias, DestroyEntry(a)
  PROVE  SharingInv'
  <1> DEFINE r == persistent_list[a]
             x == IF ref[r].ref_hosts_entry > 1
                  THEN [ref[r] EXCEPT !.ref_hosts_entry = @ - 1]
                  ELSE Freed(Disconnected(ref[r]))
  <1>1. /\ phase = "shutdown" /\ phase' \in {"shutdown", "aborted"} /\ obj' = obj
        /\ r # NoRef /\ persistent_list' = [persistent_list EXCEPT ![a] = NoRef]
        /\ ref' = [ref EXCEPT ![r] = x]
    BY DEF DestroyEntry
  <1>2. r \in Ref /\ ref[r] \in RefRecord /\ ref[r].allocated
    BY <1>1 DEF SharingInv, TypeOK, NoDangling
  <1>3. \A h \in Handle : ~obj[h].live /\ ~HasRef(h) /\ ~HasRef(h)' /\ ~obj'[h].live
    BY <1>1 DEF SharingInv, DeadLetGo, NothingLive, HasRef
  <1>4. \A q \in Ref : Entries(q)' = IF q = r THEN Entries(q) \ {a} ELSE Entries(q)
    BY <1>1, <1>2, StoreAssumption DEF Entries, SharingInv, TypeOK
  <1>5. /\ IsFiniteSet(Entries(r)) /\ a \in Entries(r)
        /\ Cardinality(Entries(r)) <= ref[r].ref_hosts_entry
    BY <1>2 DEF SharingInv, EntriesHashed, EntriesCounted, Entries
  <1>6. /\ IsFiniteSet(Entries(r) \ {a})
        /\ Cardinality(Entries(r)) \in Nat
        /\ Cardinality(Entries(r) \ {a}) = Cardinality(Entries(r)) - 1
        /\ Cardinality(Entries(r) \ {a}) = 0 => Entries(r) \ {a} = {}
    BY <1>5, FS_RemoveElement, FS_CardinalityType, FS_EmptySet
  <1>7. CASE ref[r].ref_hosts_entry > 1
    <2>1. /\ x.allocated /\ x.hosts = ref[r].hosts /\ x.cluster = ref[r].cluster
          /\ x.ref_hosts_entry = ref[r].ref_hosts_entry - 1
      <3> HIDE DEF r
      <3> QED  BY <1>2, <1>7 DEF RefRecord
    <2> HIDE DEF x
    <2>2. \A q \in Ref : ref'[q] = IF q = r THEN x ELSE ref[q]
      BY <1>1, <1>2 DEF SharingInv, TypeOK
    <2>3. ref[r].ref_hosts_entry \in Nat
      BY <1>2 DEF RefRecord
    <2> HIDE DEF r
    <2>4. NoDangling'
      BY <1>1, <1>3, <2>1, <2>2 DEF SharingInv, NoDangling, TypeOK, r
    <2>5. EntriesCounted'
      BY <1>2, <1>4, <1>5, <1>6, <2>1, <2>2, <2>3 DEF SharingInv, EntriesCounted
    <2>6. EntriesHashed'
      <3>1. \A q \in Ref : q = r => IsFiniteSet(Entries(q)') /\ ref'[q].ref_hosts_entry > 0
        <4>1. x.ref_hosts_entry > 0
          BY <1>7, <2>1, <2>3
        <4>2. \A q \in Ref : q = r => Entries(q)' = Entries(r) \ {a} /\ ref'[q] = x
          BY <1>4, <2>2
        <4> QED  BY <1>6, <4>1, <4>2
      <3>2. \A q \in Ref : q # r => Entries(q)' = Entries(q) /\ ref'[q] = ref[q]
        BY <1>4, <2>2
      <3> QED  BY <3>1, <3>2 DEF SharingInv, EntriesHashed
    <2>7. FreedRefsClosed'
      BY <2>1, <2>2 DEF SharingInv, FreedRefsClosed
    <2> QED  BY <1>1, <1>3, <2>4, <2>5, <2>6, <2>7
             DEF SharingInv, OwnedOrShared, UncountedClosed, DeadLetGo, NothingLive
  <1>8. CASE ~(ref[r].ref_hosts_entry > 1)
    <2>1. ~x.allocated /\ ~x.cluster
      <3> HIDE DEF r
      <3> QED  BY <1>2, <1>8 DEF Freed, Disconnected, FreeRef, RefRecord
    <2> HIDE DEF x
    <2>2. \A q \in Ref : ref'[q] = IF q = r THEN x ELSE ref[q]
      BY <1>1, <1>2 DEF SharingInv, TypeOK
    <2>3. Entries(r) = {a}
      <3>1. ref[r].ref_hosts_entry \in Nat
        BY <1>2 DEF RefRecord
      <3>2. Cardinality(Entries(r) \ {a}) <= 0 /\ Cardinality(Entries(r) \ {a}) \in Nat
        BY <1>5, <1>6, <1>8, <3>1, FS_CardinalityType
      <3> QED  BY <1>5, <1>6, <3>2
    <2>4. NoDangling'
      BY <1>1, <1>3, <2>2, <2>3 DEF SharingInv, NoDangling, TypeOK, Entries
    <2>5. EntriesCounted'
      BY <1>4, <2>1, <2>2 DEF SharingInv, EntriesCounted
    <2>6. EntriesHashed'
      <3>1. \A q \in Ref : q = r => Entries(q)' = {} /\ IsFiniteSet(Entries(q)')
        BY <1>4, <2>3, FS_EmptySet
      <3>2. \A q \in Ref : q # r => Entries(q)' = Entries(q) /\ ref'[q] = ref[q]
        BY <1>4, <2>2
      <3> QED  BY <3>1, <3>2 DEF SharingInv, EntriesHashed
    <2>7. FreedRefsClosed'
      BY <2>1, <2>2 DEF SharingInv, FreedRefsClosed
    <2> QED  BY <1>1, <1>3, <2>4, <2>5, <2>6, <2>7
             DEF SharingInv, OwnedOrShared, UncountedClosed, DeadLetGo, NothingLive
  <1> QED  BY <1>7, <1>8

-----------------------------------------------------------------------------
(* The theorems.                                                           *)

LEMMA SharingInit == Init => SharingInv
  <1> SUFFICES ASSUME Init PROVE SharingInv
    OBVIOUS
  <1>1. TypeOK
    BY FreeRefType, StoreAssumption DEF Init, TypeOK, ObjRecord, NoObj
  <1>2. \A r \in Ref : Entries(r) = {}
    BY StoreAssumption DEF Init, Entries
  <1>3. \A h \in Handle : ~HasRef(h) /\ ~obj[h].live
    BY DEF Init, HasRef, NoObj
  <1>4. \A r \in Ref : ~ref[r].allocated /\ ~ref[r].cluster
    BY DEF Init, FreeRef
  <1> QED
    BY <1>1, <1>2, <1>3, <1>4, FS_EmptySet
    DEF Init, SharingInv, NoDangling, OwnedOrShared, EntriesCounted, FreedRefsClosed,
        DeadLetGo, UncountedClosed, EntriesHashed

LEMMA SharingNext == SharingInv /\ TypeOK' /\ [Next]_vars => SharingInv'
  <1> SUFFICES ASSUME SharingInv, TypeOK', [Next]_vars PROVE SharingInv'
    OBVIOUS
  <1>1. ASSUME NEW o \in Object, ConstructRejected(o) PROVE SharingInv'
    <2>1. \A h \in Handle : h # o => obj'[h] = obj[h]
      BY <1>1 DEF ConstructRejected, SharingInv, TypeOK
    <2>2. ~HasRef(o) /\ ~HasRef(o)'
      BY <1>1 DEF ConstructRejected, SharingInv, TypeOK, DeadLetGo, HasRef, NoObj, Handle
    <2>3. UNCHANGED <<phase, ref, persistent_list>> /\ phase = "running"
      BY <1>1 DEF ConstructRejected
    <2>4. \A h \in Handle : HasRef(h)' => h # o /\ HasRef(h) /\ obj'[h] = obj[h]
      BY <2>1, <2>2 DEF HasRef
    <2>5. DeadLetGo' /\ UncountedClosed'
      BY <2>1, <2>2, <2>3, <2>4 DEF SharingInv, DeadLetGo, UncountedClosed, HasRef
    <2> QED  BY <2>3, <2>4, <2>5, QuietStep DEF SharingInv, FreedRefsClosed
  <1>2. ASSUME NEW o \in Object, NEW conf \in Config, NEW persist \in BOOLEAN,
               Construct(o, conf, persist)
        PROVE  SharingInv'
    BY <1>2, ConstructSharing
  <1>3. ASSUME NEW o \in Object, NEW conf \in Config, NEW persist \in BOOLEAN,
               ConstructWithoutHosts(o, conf, persist)
        PROVE  SharingInv'
    <2>1. \A h \in Handle : h # o => obj'[h] = obj[h]
      BY <1>3 DEF ConstructWithoutHosts, SharingInv, TypeOK
    <2>2. ~HasRef(o) /\ ~HasRef(o)'
      BY <1>3 DEF ConstructWithoutHosts, SharingInv, TypeOK, DeadLetGo, HasRef, NoObj, Handle
    <2>3. /\ UNCHANGED <<ref, persistent_list>>
          /\ phase' \in {"running", "segfault"}
      BY <1>3 DEF ConstructWithoutHosts
    <2>4. \A h \in Handle : HasRef(h)' => h # o /\ HasRef(h) /\ obj'[h] = obj[h]
      BY <2>1, <2>2 DEF HasRef
    <2>5. DeadLetGo' /\ UncountedClosed'
      BY <2>1, <2>2, <2>3, <2>4 DEF SharingInv, DeadLetGo, UncountedClosed, HasRef
    <2> QED  BY <2>3, <2>4, <2>5, QuietStep DEF SharingInv, FreedRefsClosed
  <1>4. ASSUME NEW o \in Object, IsConnected(o) PROVE SharingInv'
    <2>1. \A h \in Handle : /\ obj'[h].as_ref_p = obj[h].as_ref_p
                            /\ obj'[h].is_persistent = obj[h].is_persistent
                            /\ obj'[h].live = obj[h].live
                            /\ HasRef(h)' = HasRef(h)
      BY <1>4 DEF IsConnected, SharingInv, TypeOK, ObjRecord, HasRef
    <2>2. UNCHANGED <<phase, ref, persistent_list>>
      BY <1>4 DEF IsConnected
    <2>3. DeadLetGo' /\ UncountedClosed'
      BY <2>1, <2>2 DEF SharingInv, DeadLetGo, UncountedClosed, NothingLive
    <2> QED  BY <2>1, <2>2, <2>3, QuietStep DEF SharingInv, FreedRefsClosed
  <1>5. ASSUME NEW o \in Object, Close(o) PROVE SharingInv'
    BY <1>5, CloseSharing
  <1>6. ASSUME NEW o \in Object, Reconnect(o) PROVE SharingInv'
    BY <1>6, ReconnectSharing
  <1>7. ASSUME NEW o \in Object, FreeStorage(o) PROVE SharingInv'
    BY <1>7, FreeStorageSharing
  <1>8. ASSUME NEW conf \in SavePath, SessionOpen(conf) PROVE SharingInv'
    BY <1>8, SessionOpenSharing
  <1>9. CASE SessionClose
    BY <1>9, SessionCloseSharing
  <1>10. CASE RequestEnd
    <2>1. \A r \in Ref : /\ ref'[r].allocated = ref[r].allocated
                         /\ ref'[r].ref_hosts_entry = ref[r].ref_hosts_entry
                         /\ ref'[r].ref_count = ref[r].ref_count
                         /\ ref'[r].hosts = ref[r].hosts
                         /\ ref'[r].cluster = ref[r].cluster
      BY <1>10 DEF RequestEnd, SharingInv, TypeOK, RefRecord
    <2>2. UNCHANGED <<phase, obj, persistent_list>>
      BY <1>10 DEF RequestEnd
    <2>3. \A h \in Handle : HasRef(h)' = HasRef(h)
      BY <2>2 DEF HasRef
    <2>4. DeadLetGo' /\ UncountedClosed'
      <3>1. DeadLetGo'
        BY <2>2, <2>3 DEF SharingInv, DeadLetGo, NothingLive
      <3>2. \A h \in Handle : HasRef(h) => obj[h].as_ref_p \in Ref
        BY OwnerAlone
      <3> QED  BY <2>1, <2>2, <2>3, <3>1, <3>2 DEF SharingInv, UncountedClosed
    <2> QED  BY <2>1, <2>2, <2>3, <2>4, QuietStep DEF SharingInv, FreedRefsClosed
  <1>11. CASE ModuleShutdown
    <2>1. UNCHANGED <<obj, ref, persistent_list>> /\ NothingLive
      BY <1>11 DEF ModuleShutdown
    <2>2. \A h \in Handle : HasRef(h)' = HasRef(h)
      BY <2>1 DEF HasRef
    <2>3. DeadLetGo' /\ UncountedClosed'
      BY <2>1, <2>2 DEF SharingInv, DeadLetGo, UncountedClosed, NothingLive
    <2> QED  BY <2>1, <2>2, <2>3, QuietStep DEF SharingInv, FreedRefsClosed
  <1>12. ASSUME NEW a \in Alias, DestroyEntry(a) PROVE SharingInv'
    BY <1>12, DestroyEntrySharing
  <1>13. CASE ModuleStopped \/ UNCHANGED vars
    <2>1. UNCHANGED <<obj, ref, persistent_list>> /\ (phase' = phase \/ phase = "shutdown")
      BY <1>13 DEF ModuleStopped, vars
    <2>2. \A h \in Handle : HasRef(h)' = HasRef(h)
      BY <2>1 DEF HasRef
    <2>3. DeadLetGo' /\ UncountedClosed'
      BY <2>1, <2>2 DEF SharingInv, DeadLetGo, UncountedClosed, NothingLive
    <2> QED  BY <2>1, <2>2, <2>3, QuietStep DEF SharingInv, FreedRefsClosed
  <1> QED
    BY <1>1, <1>2, <1>3, <1>4, <1>5, <1>6, <1>7, <1>8, <1>9, <1>10, <1>11, <1>12,
       <1>13 DEF Next

\* Refs are shared safely, by the inductive invariant SharingInv.
THEOREM Sharing == Spec => []SharingInv
  <1>1. Init => SharingInv
    BY SharingInit
  <1>2. SharingInv /\ TypeOK' /\ [Next]_vars => SharingInv'
    BY SharingNext
  <1> QED  BY <1>1, <1>2, TypeCorrect, PTL DEF Spec

\* No entry of the persistent list and no handle points to a ref that was freed
\* (aerospike_check_close_and_destroy, Aerospike_object_free_storage).
THEOREM NothingDangles == Spec => []NoDangling
  <1>1. SharingInv => NoDangling
    BY DEF SharingInv
  <1> QED  BY <1>1, Sharing, PTL

\* A non-persistent handle is alone with its ref; a persistent one holds a ref
\* the list names (aerospike_helper_object_from_alias_hash).
THEOREM OwnershipKept == Spec => []OwnedOrShared
  <1>1. SharingInv => OwnedOrShared
    BY DEF SharingInv
  <1> QED  BY <1>1, Sharing, PTL

\* ref_hosts_entry counts the entries of a ref (ZEND_HASH_CREATE_ALIAS_NEW).
THEOREM EntriesAreCounted == Spec => []EntriesCounted
  <1>1. SharingInv => EntriesCounted
    BY DEF SharingInv
  <1> QED  BY <1>1, Sharing, PTL

\* No ref is freed while its cluster is open.
THEOREM FreedRefsAreClosed == Spec => []FreedRefsClosed
  <1>1. SharingInv => FreedRefsClosed
    BY DEF SharingInv
  <1> QED  BY <1>1, Sharing, PTL

-----------------------------------------------------------------------------
(* Shared memory: a key is given to one list of hosts, and the clusters in  *)
(* one segment were reached through it.                                     *)

Up == phase \in {"running", "segfault"}

\* While the module is up the segment of a cluster, and the key an owned ref
\* would attach to at its next reconnect, are those listed for its hosts.
SegmentsListed ==
    Up => \A r \in Ref : ref[r].attached # NoKey =>
              /\ ref[r].hosts \in HostList
              /\ shm_key_list[ref[r].hosts] = ref[r].attached

OwnedKeysListed ==
    Up => \A h \in Handle :
              HasRef(h) /\ ~obj[h].is_persistent /\ ref[obj[h].as_ref_p].use_shm =>
                  /\ ref[obj[h].as_ref_p].hosts \in HostList
                  /\ shm_key_list[ref[obj[h].as_ref_p].hosts]
                        = ref[obj[h].as_ref_p].shm_key

ShmInv == ShmKeysDistinct /\ SegmentsListed /\ OwnedKeysListed /\ SegmentsApart

-----------------------------------------------------------------------------

\* A list of hosts that gets a key gets one no other list has, and keeps it.
LEMMA SetShmKeyDistinct ==
  ASSUME TypeOK, ShmKeysDistinct, NEW conf \in AsConfig, NEW key \in Key,
         SetShmKeyFromAliasHashOrGenerate(conf, key)
  PROVE  /\ ShmKeysDistinct'
         /\ \A l \in HostList : shm_key_list[l] # NoKey =>
                                    shm_key_list'[l] = shm_key_list[l]
         /\ conf.use_shm => shm_key_list'[conf.hosts] = key
  <1>0. /\ conf.hosts \in HostList /\ key # NoKey
        /\ shm_key_list \in [HostList -> Key \cup {NoKey}]
    BY ConfigType, StoreAssumption DEF TypeOK
  <1>1. CASE UNCHANGED shm_key_list
    BY <1>0, <1>1 DEF ShmKeysDistinct, SetShmKeyFromAliasHashOrGenerate
  <1>2. CASE /\ shm_key_list[conf.hosts] = NoKey /\ ~KeyTaken(key)
             /\ shm_key_list' = [shm_key_list EXCEPT ![conf.hosts] = key]
    BY <1>0, <1>2 DEF ShmKeysDistinct, KeyTaken
  <1>3. UNCHANGED shm_key_list \/
           /\ shm_key_list[conf.hosts] = NoKey /\ ~KeyTaken(key)
           /\ shm_key_list' = [shm_key_list EXCEPT ![conf.hosts] = key]
    BY DEF SetShmKeyFromAliasHashOrGenerate, IsNextFreeKey
  <1> QED  BY <1>1, <1>2, <1>3

\* A step of the module while it is up.
LEMMA ShmStep ==
  ASSUME TypeOK, TypeOK', ShmInv, Up, Up', ShmKeysDistinct',
         \A l \in HostList : shm_key_list[l] # NoKey =>
                                 shm_key_list'[l] = shm_key_list[l],
         \A r \in Ref : ref'[r].attached # NoKey =>
             \/ ref'[r].attached = ref[r].attached /\ ref'[r].hosts = ref[r].hosts
             \/ /\ ref'[r].hosts \in HostList
                /\ shm_key_list'[ref'[r].hosts] = ref'[r].attached,
         \A h \in Handle, r \in Ref :
             obj'[h].as_ref_p = r /\ ~obj'[h].is_persistent /\ ref'[r].use_shm =>
             \/ /\ obj[h].as_ref_p = r /\ ~obj[h].is_persistent /\ ref[r].use_shm
                /\ ref'[r].hosts = ref[r].hosts /\ ref'[r].shm_key = ref[r].shm_key
             \/ /\ ref'[r].hosts \in HostList
                /\ shm_key_list'[ref'[r].hosts] = ref'[r].shm_key
  PROVE  ShmInv'
  <1>0. /\ \A r \in Ref : /\ ref[r].shm_key # NoKey
                          /\ ref[r] \in RefRecord /\ ref'[r] \in RefRecord
        /\ NoRef \notin Ref
    BY StoreAssumption DEF TypeOK, RefRecord
  <1>1. SegmentsListed'
    <2> SUFFICES ASSUME NEW r \in Ref, ref'[r].attached # NoKey
                 PROVE  /\ ref'[r].hosts \in HostList
                        /\ shm_key_list'[ref'[r].hosts] = ref'[r].attached
      BY DEF SegmentsListed
    <2> QED  BY DEF ShmInv, SegmentsListed
  <1>2. OwnedKeysListed'
    <2> SUFFICES ASSUME NEW h \in Handle, NEW r \in Ref, obj'[h].as_ref_p = r,
                        ~obj'[h].is_persistent, ref'[r].use_shm
                 PROVE  /\ ref'[r].hosts \in HostList
                        /\ shm_key_list'[ref'[r].hosts] = ref'[r].shm_key
      BY DEF OwnedKeysListed, HasRef, TypeOK, ObjRecord
    <2>1. CASE /\ obj[h].as_ref_p = r /\ ~obj[h].is_persistent /\ ref[r].use_shm
               /\ ref'[r].hosts = ref[r].hosts /\ ref'[r].shm_key = ref[r].shm_key
      <3>1. /\ ref[r].hosts \in HostList
            /\ shm_key_list[ref[r].hosts] = ref[r].shm_key
        BY <1>0, <2>1 DEF ShmInv, OwnedKeysListed, HasRef
      <3> QED  BY <1>0, <2>1, <3>1
    <2> QED  BY <2>1
  <1>3. SegmentsApart'
    BY <1>1 DEF SegmentsListed, SegmentsApart, ShmKeysDistinct
  <1> QED  BY <1>1, <1>2, <1>3 DEF ShmInv

LEMMA ConstructShm ==
  ASSUME SharingInv, SharingInv', ShmInv, NEW o \in Object, NEW conf \in Config,
         NEW persist \in BOOLEAN, Construct(o, conf, persist)
  PROVE  ShmInv'
  <1>1. PICK r \in Ref, key \in Key, connects \in BOOLEAN :
          LET found == ref[r].allocated
              rr    == [RefFromAliasHash(conf, persist, "process", r)
                          EXCEPT !.shm_key = key]
          IN  /\ ObjectFromAliasHash(conf, persist, r)
              /\ SetShmKeyFromAliasHashOrGenerate(conf, key)
              /\ ref' = [ref EXCEPT ![r] = IF connects /\ ~found
                                           THEN Connected(rr) ELSE rr]
              /\ obj' = [obj EXCEPT ![o] =
                            [live |-> TRUE, is_persistent |-> persist,
                             is_conn |-> connects, as_ref_p |-> r]]
    BY DEF Construct
  <1> DEFINE rr == RefFromAliasHash(conf, persist, "process", r)
             rk == [rr EXCEPT !.shm_key = key]
             x  == IF connects /\ ~ref[r].allocated THEN Connected(rk) ELSE rk
  <1>2. /\ conf \in AsConfig /\ o \in Handle /\ TypeOK /\ TypeOK'
        /\ NoRef \notin Ref /\ Up /\ Up'
    BY StoreAssumption DEF AsConfig, Handle, SharingInv, Construct, Up
  <1>3. /\ ShmKeysDistinct'
        /\ \A l \in HostList : shm_key_list[l] # NoKey =>
                                   shm_key_list'[l] = shm_key_list[l]
        /\ conf.use_shm => shm_key_list'[conf.hosts] = key
        /\ conf.hosts \in HostList
    BY <1>1, <1>2, SetShmKeyDistinct, ConfigType DEF ShmInv
  <1>4. rr \in RefRecord /\ ref[r] \in RefRecord
    BY <1>2, RefFromAliasHashType DEF AddrState, TypeOK
  <1>5. /\ ref[r].allocated => /\ rr.attached = ref[r].attached
                               /\ rr.hosts = ref[r].hosts
        /\ ~ref[r].allocated => /\ rr.attached = NoKey /\ rr.hosts = conf.hosts
                                /\ rr.use_shm = conf.use_shm
    BY <1>4 DEF RefFromAliasHash, FreeRef, RefRecord
  <1> HIDE DEF rr
  <1>6. /\ rk \in RefRecord /\ rk.shm_key = key /\ rk.hosts = rr.hosts
        /\ rk.attached = rr.attached /\ rk.use_shm = rr.use_shm
    BY <1>4 DEF RefRecord
  <1>7. /\ x.hosts = rr.hosts /\ x.use_shm = rr.use_shm /\ x.shm_key = key
        /\ x.attached \in {NoKey, rr.attached}
              \/ (~ref[r].allocated /\ rr.use_shm /\ x.attached = key)
    BY <1>6 DEF Connected, RefRecord
  <1>8. ref' = [ref EXCEPT ![r] = x]
    BY <1>1 DEF rr
  <1> HIDE DEF rk, x
  <1>9. \A q \in Ref : ref'[q] = IF q = r THEN x ELSE ref[q]
    BY <1>2, <1>8 DEF TypeOK
  <1>10. /\ \A h \in Handle : h # o => obj'[h] = obj[h]
         /\ obj'[o].as_ref_p = r /\ obj'[o].is_persistent = persist
    BY <1>1, <1>2 DEF TypeOK
  <1>11. \A h \in Handle : h # o /\ obj'[h].as_ref_p = r => obj'[h].is_persistent
    BY <1>2, <1>10 DEF SharingInv, OwnedOrShared, HasRef
  <1>12. ~persist => ~ref[r].allocated
    BY <1>1 DEF ObjectFromAliasHash
  <1>13. \A q \in Ref : ref'[q].attached # NoKey =>
            \/ ref'[q].attached = ref[q].attached /\ ref'[q].hosts = ref[q].hosts
            \/ /\ ref'[q].hosts \in HostList
               /\ shm_key_list'[ref'[q].hosts] = ref'[q].attached
    BY <1>3, <1>5, <1>7, <1>9
  <1>14. \A h \in Handle, q \in Ref :
            obj'[h].as_ref_p = q /\ ~obj'[h].is_persistent /\ ref'[q].use_shm =>
            \/ /\ obj[h].as_ref_p = q /\ ~obj[h].is_persistent /\ ref[q].use_shm
               /\ ref'[q].hosts = ref[q].hosts /\ ref'[q].shm_key = ref[q].shm_key
            \/ /\ ref'[q].hosts \in HostList
               /\ shm_key_list'[ref'[q].hosts] = ref'[q].shm_key
    BY <1>3, <1>5, <1>7, <1>9, <1>10, <1>11, <1>12
  <1> QED  BY <1>2, <1>3, <1>13, <1>14, ShmStep

\* A session's config asks for no shared memory.
LEMMA SessionOpenShm ==
  ASSUME SharingInv, SharingInv', ShmInv, NEW conf \in SavePath, SessionOpen(conf)
  PROVE  ShmInv'
  <1>1. PICK r \in Ref, connects \in BOOLEAN :
          LET found == ref[r].allocated
              rr    == RefFromAliasHash(conf, TRUE, "request", r)
          IN  /\ ref' = [ref EXCEPT ![r] =
                            IF connects /\ ~found
                            THEN [Connected(rr) EXCEPT !.addrs = "freed"] ELSE rr]
              /\ obj' = [obj EXCEPT ![Session] =
                            IF connects
                            THEN [live |-> TRUE, is_persistent |-> TRUE,
                                  is_conn |-> TRUE, as_ref_p |-> r]
                            ELSE NoObj]
    BY DEF SessionOpen
  <1> DEFINE rr == RefFromAliasHash(conf, TRUE, "request", r)
             x  == IF connects /\ ~ref[r].allocated
                   THEN [Connected(rr) EXCEPT !.addrs = "freed"] ELSE rr
  <1>2. /\ conf \in AsConfig /\ ~conf.use_shm /\ Session \in Handle
        /\ TypeOK /\ TypeOK' /\ Up /\ Up' /\ UNCHANGED shm_key_list
        /\ NoRef \notin Ref
    BY StoreAssumption DEF AsConfig, Handle, SharingInv, SessionOpen, Up
  <1>3. rr \in RefRecord /\ ref[r] \in RefRecord
    BY <1>2, RefFromAliasHashType DEF AddrState, TypeOK
  <1>4. /\ ref[r].allocated => /\ rr.attached = ref[r].attached
                               /\ rr.hosts = ref[r].hosts /\ rr.use_shm = ref[r].use_shm
                               /\ rr.shm_key = ref[r].shm_key
        /\ ~ref[r].allocated => rr.attached = NoKey /\ ~rr.use_shm
    BY <1>2, <1>3 DEF RefFromAliasHash, FreeRef, RefRecord
  <1> HIDE DEF rr
  <1>5. /\ ref[r].allocated => x = rr
        /\ ~ref[r].allocated => x.attached = NoKey /\ ~x.use_shm
    BY <1>3, <1>4 DEF Connected, RefRecord
  <1>6. ref' = [ref EXCEPT ![r] = x]
    BY <1>1 DEF rr
  <1> HIDE DEF x
  <1>7. \A q \in Ref : ref'[q] = IF q = r THEN x ELSE ref[q]
    BY <1>2, <1>6 DEF TypeOK
  <1>8. /\ \A h \in Handle : h # Session => obj'[h] = obj[h]
        /\ obj'[Session].as_ref_p # NoRef => obj'[Session].is_persistent
    BY <1>1, <1>2 DEF TypeOK, NoObj
  <1>9. \A h \in Handle, q \in Ref :
           obj'[h].as_ref_p = q /\ ~obj'[h].is_persistent => obj'[h] = obj[h]
    BY <1>2, <1>8
  <1>10. ShmKeysDistinct'
    BY <1>2 DEF ShmInv, ShmKeysDistinct
  <1> QED  BY <1>2, <1>4, <1>5, <1>7, <1>9, <1>10, ShmStep

\* A step that changes no list, attaches nothing and gives no handle a ref.
LEMMA ShmQuietStep ==
  ASSUME SharingInv, SharingInv', ShmInv, Up, Up', UNCHANGED shm_key_list,
         \A r \in Ref : /\ ref'[r].attached # NoKey =>
                              /\ ref'[r].attached = ref[r].attached
                              /\ ref'[r].hosts = ref[r].hosts
                        /\ ref'[r].use_shm =>
                              /\ ref'[r].use_shm = ref[r].use_shm
                              /\ ref'[r].shm_key = ref[r].shm_key
                              /\ ref'[r].hosts = ref[r].hosts,
         \A h \in Handle : HasRef(h)' =>
             /\ obj'[h].as_ref_p = obj[h].as_ref_p
             /\ obj'[h].is_persistent = obj[h].is_persistent
  PROVE  ShmInv'
  <1>1. TypeOK /\ TypeOK' /\ NoRef \notin Ref
    BY StoreAssumption DEF SharingInv
  <1>2. ShmKeysDistinct'
    BY DEF ShmInv, ShmKeysDistinct
  <1>3. \A h \in Handle, r \in Ref : obj'[h].as_ref_p = r =>
           obj[h].as_ref_p = r /\ obj'[h].is_persistent = obj[h].is_persistent
    BY <1>1 DEF HasRef
  <1> QED  BY <1>1, <1>2, <1>3, ShmStep

LEMMA CloseShm ==
  ASSUME SharingInv, SharingInv', ShmInv, NEW o \in Object, Close(o)
  PROVE  ShmInv'
  <1> DEFINE r == obj[o].as_ref_p
             x == IF obj[o].is_persistent
                  THEN ClosePhpConnection(ref[r])
                  ELSE [Disconnected(ref[r]) EXCEPT !.ref_count = 0]
  <1>1. r \in Ref /\ ref[r] \in RefRecord
    BY OwnerAlone DEF Close, Handle
  <1>2. /\ x.attached \in {NoKey, ref[r].attached} /\ x.hosts = ref[r].hosts
        /\ x.use_shm = ref[r].use_shm /\ x.shm_key = ref[r].shm_key
    <2> HIDE DEF r
    <2> QED  BY <1>1 DEF ClosePhpConnection, Disconnected, RefRecord
  <1>3. ref' = [ref EXCEPT ![r] = x] /\ obj' = [obj EXCEPT ![o].is_conn = FALSE]
    BY DEF Close
  <1> HIDE DEF x
  <1>4. \A q \in Ref : ref'[q] = IF q = r THEN x ELSE ref[q]
    BY <1>1, <1>3 DEF SharingInv, TypeOK
  <1>5. \A h \in Handle : /\ obj'[h].as_ref_p = obj[h].as_ref_p
                          /\ obj'[h].is_persistent = obj[h].is_persistent
    BY <1>3 DEF SharingInv, TypeOK, ObjRecord, Handle
  <1>6. Up /\ Up' /\ UNCHANGED shm_key_list
    BY DEF Close, Up
  <1> QED  BY <1>2, <1>4, <1>5, <1>6, ShmQuietStep

\* A non-persistent handle attaches to the key its hosts are listed with.
LEMMA ReconnectShm ==
  ASSUME SharingInv, SharingInv', ShmInv, NEW o \in Object, Reconnect(o)
  PROVE  ShmInv'
  <1> DEFINE r == obj[o].as_ref_p
  <1>1. PICK connects \in BOOLEAN :
          ref' = [ref EXCEPT ![r] =
                    [(IF ~obj[o].is_persistent /\ connects
                      THEN Connected(ref[r]) ELSE ref[r]) EXCEPT !.ref_count = 1]]
    BY DEF Reconnect
  <1> DEFINE x == [(IF ~obj[o].is_persistent /\ connects
                    THEN Connected(ref[r]) ELSE ref[r]) EXCEPT !.ref_count = 1]
  <1>2. /\ r \in Ref /\ ref[r] \in RefRecord /\ o \in Handle /\ HasRef(o)
        /\ TypeOK /\ TypeOK' /\ NoRef \notin Ref
    BY OwnerAlone, StoreAssumption DEF Reconnect, Handle, SharingInv
  <1>3. /\ x.hosts = ref[r].hosts
        /\ x.use_shm = ref[r].use_shm /\ x.shm_key = ref[r].shm_key
        /\ x.attached \in {NoKey, ref[r].attached} \/
              /\ ~obj[o].is_persistent /\ ref[r].use_shm
              /\ x.attached = ref[r].shm_key
    <2> HIDE DEF r
    <2> QED  BY <1>2 DEF Connected, RefRecord
  <1>4. ref' = [ref EXCEPT ![r] = x] /\ obj' = [obj EXCEPT ![o].is_conn = TRUE]
    BY <1>1 DEF Reconnect
  <1> HIDE DEF x
  <1>5. \A q \in Ref : ref'[q] = IF q = r THEN x ELSE ref[q]
    BY <1>2, <1>4 DEF TypeOK
  <1>6. \A h \in Handle : /\ obj'[h].as_ref_p = obj[h].as_ref_p
                          /\ obj'[h].is_persistent = obj[h].is_persistent
    BY <1>2, <1>4 DEF TypeOK, ObjRecord
  <1>7. Up /\ Up' /\ UNCHANGED shm_key_list
    BY DEF Reconnect, Up
  <1>8. ~obj[o].is_persistent /\ ref[r].use_shm =>
           ref[r].hosts \in HostList /\ shm_key_list[ref[r].hosts] = ref[r].shm_key
    BY <1>2, <1>7 DEF ShmInv, OwnedKeysListed
  <1>9. ShmKeysDistinct'
    BY <1>7 DEF ShmInv, ShmKeysDistinct
  <1> QED  BY <1>2, <1>3, <1>5, <1>6, <1>7, <1>8, <1>9, ShmStep

LEMMA FreeStorageShm ==
  ASSUME SharingInv, SharingInv', ShmInv, NEW o \in Object, FreeStorage(o)
  PROVE  ShmInv'
  <1>1. /\ Up /\ Up' /\ UNCHANGED shm_key_list /\ o \in Handle
        /\ obj' = [obj EXCEPT ![o] = NoObj]
    BY DEF FreeStorage, Up, Handle
  <1>2. \A h \in Handle : HasRef(h)' => obj'[h] = obj[h]
    BY <1>1 DEF SharingInv, TypeOK, HasRef, NoObj
  <1>3. \A q \in Ref : \/ ref'[q] = ref[q]
                       \/ ref'[q].attached = NoKey /\ ~ref'[q].use_shm
    <2>1. CASE HasRef(o) /\ ~obj[o].is_persistent
      <3> DEFINE r == obj[o].as_ref_p
                 x == Freed(IF ref[r].ref_count # 0 THEN Disconnected(ref[r]) ELSE ref[r])
      <3>1. x.attached = NoKey /\ ~x.use_shm
        BY DEF Freed, FreeRef
      <3>2. ref' = [ref EXCEPT ![r] = x]
        BY <2>1 DEF FreeStorage
      <3> HIDE DEF x
      <3> QED  BY <3>1, <3>2 DEF SharingInv, TypeOK
    <2> QED  BY <2>1 DEF FreeStorage
  <1> QED  BY <1>1, <1>2, <1>3, ShmQuietStep

LEMMA SessionCloseShm ==
  ASSUME SharingInv, SharingInv', ShmInv, SessionClose
  PROVE  ShmInv'
  <1> DEFINE r == obj[Session].as_ref_p
  <1>1. /\ Up /\ Up' /\ UNCHANGED shm_key_list
        /\ obj' = [obj EXCEPT ![Session] = NoObj]
        /\ ref' = [ref EXCEPT ![r] = ClosePhpConnection(ref[r])]
    BY DEF SessionClose, Up
  <1>2. \A h \in Handle : HasRef(h)' => obj'[h] = obj[h]
    BY <1>1 DEF SharingInv, TypeOK, HasRef, NoObj, Handle
  <1>3. \A q \in Ref : ref[q] \in RefRecord
    BY DEF SharingInv, TypeOK
  <1>4. \A q \in Ref : ref'[q] = IF q = r THEN ClosePhpConnection(ref[q]) ELSE ref[q]
    BY <1>1 DEF SharingInv, TypeOK
  <1> HIDE DEF r
  <1>5. \A q \in Ref : /\ ref'[q].attached = ref[q].attached
                       /\ ref'[q].hosts = ref[q].hosts
                       /\ ref'[q].use_shm = ref[q].use_shm
                       /\ ref'[q].shm_key = ref[q].shm_key
    BY <1>3, <1>4 DEF ClosePhpConnection, RefRecord
  <1> QED  BY <1>1, <1>2, <1>5, ShmQuietStep

\* From the shutdown on segments are only left.
LEMMA DownShm ==
  ASSUME ShmInv, SharingInv, ~Up',
         ShmKeysDistinct',
         \A r \in Ref : ref'[r].attached # NoKey =>
             ref'[r].attached = ref[r].attached /\ ref'[r].hosts = ref[r].hosts
  PROVE  ShmInv'
  BY DEF ShmInv, SegmentsListed, OwnedKeysListed, SegmentsApart

LEMMA DestroyEntryShm ==
  ASSUME SharingInv, ShmInv, NEW a \in Alias, DestroyEntry(a)
  PROVE  ShmInv'
  <1> DEFINE r == persistent_list[a]
             x == IF ref[r].ref_hosts_entry > 1
                  THEN [ref[r] EXCEPT !.ref_hosts_entry = @ - 1]
                  ELSE Freed(Disconnected(ref[r]))
  <1>1. /\ ~Up' /\ UNCHANGED shm_key_list /\ ref' = [ref EXCEPT ![r] = x]
    BY DEF DestroyEntry, Up
  <1>2. r \in Ref /\ ref[r] \in RefRecord
    BY DEF DestroyEntry, SharingInv, TypeOK
  <1>3. x.attached # NoKey => x.attached = ref[r].attached /\ x.hosts = ref[r].hosts
    <2> HIDE DEF r
    <2> QED  BY <1>2 DEF Freed, FreeRef, RefRecord
  <1> HIDE DEF x
  <1>4. \A q \in Ref : ref'[q] = IF q = r THEN x ELSE ref[q]
    BY <1>1, <1>2 DEF SharingInv, TypeOK
  <1>5. ShmKeysDistinct'
    BY <1>1 DEF ShmInv, ShmKeysDistinct
  <1> QED  BY <1>1, <1>3, <1>4, <1>5, DownShm

-----------------------------------------------------------------------------
(* The theorems.                                                           *)

LEMMA ShmNext == SharingInv /\ SharingInv' /\ ShmInv /\ [Next]_vars => ShmInv'
  <1> SUFFICES ASSUME SharingInv, SharingInv', ShmInv, [Next]_vars PROVE ShmInv'
    OBVIOUS
  <1>1. ASSUME NEW o \in Object, ConstructRejected(o) PROVE ShmInv'
    <2>1. /\ Up /\ Up' /\ UNCHANGED <<ref, shm_key_list>>
          /\ \A h \in Handle : h # o => obj'[h] = obj[h]
      BY <1>1 DEF ConstructRejected, Up, SharingInv, TypeOK
    <2>2. ~HasRef(o)'
      BY <1>1 DEF ConstructRejected, SharingInv, TypeOK, HasRef, NoObj, Handle
    <2> QED  BY <2>1, <2>2, ShmQuietStep DEF HasRef
  <1>2. ASSUME NEW o \in Object, NEW conf \in Config, NEW persist \in BOOLEAN,
               Construct(o, conf, persist)
        PROVE  ShmInv'
    BY <1>2, ConstructShm
  <1>3. ASSUME NEW o \in Object, NEW conf \in Config, NEW persist \in BOOLEAN,
               ConstructWithoutHosts(o, conf, persist)
        PROVE  ShmInv'
    <2>1. PICK key \in Key : SetShmKeyFromAliasHashOrGenerate(conf, key)
      BY <1>3 DEF ConstructWithoutHosts
    <2>2. /\ Up /\ Up' /\ UNCHANGED ref /\ TypeOK /\ TypeOK' /\ conf \in AsConfig
          /\ \A h \in Handle : h # o => obj'[h] = obj[h]
          /\ NoRef \notin Ref
      BY <1>3, StoreAssumption
      DEF ConstructWithoutHosts, Up, SharingInv, TypeOK, AsConfig
    <2>3. ~HasRef(o)'
      BY <1>3 DEF ConstructWithoutHosts, SharingInv, TypeOK, HasRef, NoObj, Handle
    <2>4. /\ ShmKeysDistinct'
          /\ \A l \in HostList : shm_key_list[l] # NoKey =>
                                     shm_key_list'[l] = shm_key_list[l]
      BY <2>1, <2>2, SetShmKeyDistinct DEF ShmInv
    <2>5. \A h \in Handle, r \in Ref : obj'[h].as_ref_p = r => obj'[h] = obj[h]
      BY <2>2, <2>3 DEF HasRef
    <2> QED  BY <2>2, <2>4, <2>5, ShmStep
  <1>4. ASSUME NEW o \in Object, IsConnected(o) PROVE ShmInv'
    <2>1. /\ Up /\ Up' /\ UNCHANGED <<ref, shm_key_list>>
          /\ \A h \in Handle : /\ obj'[h].as_ref_p = obj[h].as_ref_p
                               /\ obj'[h].is_persistent = obj[h].is_persistent
      BY <1>4 DEF IsConnected, Up, SharingInv, TypeOK, ObjRecord
    <2> QED  BY <2>1, ShmQuietStep
  <1>5. ASSUME NEW o \in Object, Close(o) PROVE ShmInv'
    BY <1>5, CloseShm
  <1>6. ASSUME NEW o \in Object, Reconnect(o) PROVE ShmInv'
    BY <1>6, ReconnectShm
  <1>7. ASSUME NEW o \in Object, FreeStorage(o) PROVE ShmInv'
    BY <1>7, FreeStorageShm
  <1>8. ASSUME NEW conf \in SavePath, SessionOpen(conf) PROVE ShmInv'
    BY <1>8, SessionOpenShm
  <1>9. CASE SessionClose
    BY <1>9, SessionCloseShm
  <1>10. CASE RequestEnd
    <2>1. /\ Up /\ Up' /\ UNCHANGED <<obj, shm_key_list>>
          /\ \A r \in Ref : /\ ref'[r].attached = ref[r].attached
                            /\ ref'[r].hosts = ref[r].hosts
                            /\ ref'[r].use_shm = ref[r].use_shm
                            /\ ref'[r].shm_key = ref[r].shm_key
      BY <1>10 DEF RequestEnd, Up, SharingInv, TypeOK, RefRecord
    <2> QED  BY <2>1, ShmQuietStep
  <1>11. CASE ModuleShutdown
    <2>1. ~Up' /\ UNCHANGED ref /\ \A l \in HostList : shm_key_list'[l] = NoKey
      BY <1>11 DEF ModuleShutdown, Up
    <2> QED  BY <2>1, DownShm DEF ShmKeysDistinct
  <1>12. ASSUME NEW a \in Alias, DestroyEntry(a) PROVE ShmInv'
    BY <1>12, DestroyEntryShm
  <1>13. CASE ModuleStopped
    <2>1. ~Up' /\ UNCHANGED <<ref, shm_key_list>>
      BY <1>13 DEF ModuleStopped, Up
    <2> QED  BY <2>1, DownShm DEF ShmInv, ShmKeysDistinct
  <1>14. CASE UNCHANGED vars
    BY <1>14 DEF vars, ShmInv, ShmKeysDistinct, SegmentsListed, OwnedKeysListed,
                 SegmentsApart, Up, HasRef
  <1> QED
    BY <1>1, <1>2, <1>3, <1>4, <1>5, <1>6, <1>7, <1>8, <1>9, <1>10, <1>11, <1>12,
       <1>13, <1>14 DEF Next

LEMMA ShmHolds == Spec => []ShmInv
  <1>1. Init => ShmInv
    <2> SUFFICES ASSUME Init PROVE ShmInv
      OBVIOUS
    <2>1. \A r \in Ref : ref[r].attached = NoKey
      BY DEF Init, FreeRef
    <2>2. \A h \in Handle : ~HasRef(h)
      BY DEF Init, HasRef, NoObj
    <2>3. \A l \in HostList : shm_key_list[l] = NoKey
      BY DEF Init
    <2> QED  BY <2>1, <2>2, <2>3
             DEF ShmInv, ShmKeysDistinct, SegmentsListed, OwnedKeysListed, SegmentsApart
  <1> QED  BY <1>1, ShmNext, Sharing, PTL DEF Spec

\* Two lists of hosts are never given one shared memory key
\* (set_shm_key_from_alias_hash_or_generate).
THEOREM KeysAreDistinct == Spec => []ShmKeysDistinct
  <1>1. ShmInv => ShmKeysDistinct
    BY DEF ShmInv
  <1> QED  BY <1>1, ShmHolds, PTL

\* Clusters in one shared memory segment were reached through one list of hosts.
THEOREM SegmentsAreApart == Spec => []SegmentsApart
  <1>1. ShmInv => SegmentsApart
    BY DEF ShmInv
  <1> QED  BY <1>1, ShmHolds, PTL

=============================================================================
