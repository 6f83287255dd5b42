------------------------ MODULE StoreRefinementProofs -------------------------
(***************************************************************************)
(* That the store of connections implements SharedClusters, and that no     *)
(* step of one handle disconnects what an alias names.  Both follow from    *)
(* the invariant of the sharing, one action at a time.                      *)
(***************************************************************************)
EXTENDS SharingProofs

\* A step of the store is a step of the directory of clusters or a stutter.
AbstractStep == Shared!ANext \/ UNCHANGED Shared!avars

-----------------------------------------------------------------------------
(* Steps of one shape.                                                     *)

\* What changes no entry, no allocation and no count of entries is a stutter.
LEMMA QuietRefines ==
  ASSUME SharingInv, UNCHANGED persistent_list,
         phase \in {"running", "segfault"} <=> phase' \in {"running", "segfault"},
         \A r \in Ref : /\ ref'[r].allocated = ref[r].allocated
                        /\ ref'[r].ref_hosts_entry = ref[r].ref_hosts_entry
  PROVE  AbstractStep
  BY DEF AbstractStep, Shared!avars, Kind

\* A handle finds its ref, a stutter, or allocates one: it is published under
\* the hosts of a persistent handle and private to any other.
LEMMA AcquireRefines ==
  ASSUME SharingInv, UNCHANGED phase, phase = "running",
         NEW conf \in AsConfig, conf.hosts # <<>>, NEW persist \in BOOLEAN,
         NEW r \in Ref, NEW addrs, ObjectFromAliasHash(conf, persist, r),
         NEW x, ref' = [ref EXCEPT ![r] = x], x.allocated,
         x.ref_hosts_entry = RefFromAliasHash(conf, persist, addrs, r).ref_hosts_entry
  PROVE  AbstractStep
  <1>0. /\ \A q \in Ref : ref'[q] = IF q = r THEN x ELSE ref[q]
        /\ ref[r] \in RefRecord /\ NoRef \notin Ref
    BY StoreAssumption DEF SharingInv, TypeOK
  <1>1. CASE ref[r].allocated
    <2>1. UNCHANGED persistent_list
      BY <1>1 DEF ObjectFromAliasHash
    <2>2. x.ref_hosts_entry = ref[r].ref_hosts_entry
      BY <1>0, <1>1 DEF RefFromAliasHash, RefRecord
    <2> QED  BY <1>0, <1>1, <2>1, <2>2, QuietRefines DEF RefRecord
  <1>2. CASE ~ref[r].allocated /\ persist
    <2>1. /\ NothingHashed(conf)
          /\ persistent_list' = [a \in Alias |-> IF a \in HostsOf(conf)
                                                 THEN r ELSE persistent_list[a]]
      <3>1. ~IsHashedRef(conf, r)
        BY <1>0, <1>2, ConfigType DEF IsHashedRef, SharingInv, NoDangling
      <3> QED  BY <1>2, <3>1 DEF ObjectFromAliasHash
    <2>2. HostsOf(conf) \in SUBSET Alias /\ HostsOf(conf) # {}
      BY ConfigType, HostsCounted DEF HostsOf
    <2>3. x.ref_hosts_entry # 0
      <3>1. x.ref_hosts_entry = Len(conf.hosts)
        BY <1>2 DEF RefFromAliasHash, FreeRef
      <3> QED  BY <3>1, HostsCounted
    <2>4. [q \in Ref |-> Kind(q)]' = [[q \in Ref |-> Kind(q)] EXCEPT ![r] = "shared"]
      BY <1>0, <2>3 DEF Kind
    <2>5. Shared!Publish(r, HostsOf(conf))
      BY <1>2, <2>1, <2>2, <2>4 DEF Shared!Publish, NothingHashed, Kind
    <2> QED  BY <2>2, <2>5 DEF AbstractStep, Shared!ANext
  <1>3. CASE ~ref[r].allocated /\ ~persist
    <2>1. UNCHANGED persistent_list
      BY <1>3 DEF ObjectFromAliasHash
    <2>2. x.ref_hosts_entry = 0
      BY <1>3 DEF RefFromAliasHash, FreeRef
    <2>3. [q \in Ref |-> Kind(q)]' = [[q \in Ref |-> Kind(q)] EXCEPT ![r] = "private"]
      BY <1>0, <2>2 DEF Kind
    <2>4. Shared!Acquire(r)
      BY <1>3, <2>1, <2>3 DEF Shared!Acquire, Kind
    <2> QED  BY <2>4 DEF AbstractStep, Shared!ANext
  <1> QED  BY <1>1, <1>2, <1>3

-----------------------------------------------------------------------------
(* The actions, one lemma each where more than the shape is needed.        *)

LEMMA ConstructRefines ==
  ASSUME SharingInv, NEW o \in Object, NEW conf \in Config,
         NEW persist \in BOOLEAN, Construct(o, conf, persist)
  PROVE  AbstractStep
  <1>1. PICK r \in Ref, key \in Key, connects \in BOOLEAN :
          LET found == ref[r].allocated
              rr    == [RefFromAliasHash(conf, persist, "process", r)
                          EXCEPT !.shm_key = key]
          IN  /\ ObjectFromAliasHash(conf, persist, r)
              /\ ref' = [ref EXCEPT ![r] = IF connects /\ ~found
                                           THEN Connected(rr) ELSE rr]
    BY DEF Construct
  <1> DEFINE rr == RefFromAliasHash(conf, persist, "process", r)
             rk == [rr EXCEPT !.shm_key = key]
             x  == IF connects /\ ~ref[r].allocated THEN Connected(rk) ELSE rk
  <1>2. conf \in AsConfig
    BY DEF AsConfig
  <1>3. rr \in RefRecord /\ rr.allocated
    <2>1. ref[r] \in RefRecord
      BY DEF SharingInv, TypeOK
    <2>2. rr \in RefRecord
      BY <1>2, RefFromAliasHashType DEF AddrState, SharingInv
    <2> QED  BY <2>1, <2>2 DEF RefFromAliasHash, FreeRef, RefRecord
  <1>4. x.allocated /\ x.ref_hosts_entry = rr.ref_hosts_entry
    <2> HIDE DEF rr
    <2> QED  BY <1>3 DEF Connected, RefRecord
  <1>5. /\ ref' = [ref EXCEPT ![r] = x] /\ ObjectFromAliasHash(conf, persist, r)
        /\ phase = "running" /\ UNCHANGED phase /\ conf.hosts # <<>>
    BY <1>1 DEF Construct
  <1> HIDE DEF x, rk
  <1> QED  BY <1>2, <1>4, <1>5, AcquireRefines

LEMMA SessionOpenRefines ==
  ASSUME SharingInv, NEW conf \in SavePath, SessionOpen(conf)
  PROVE  AbstractStep
  <1>1. PICK r \in Ref, connects \in BOOLEAN :
          LET found == ref[r].allocated
              rr    == RefFromAliasHash(conf, TRUE, "request", r)
          IN  /\ ObjectFromAliasHash(conf, TRUE, r)
              /\ ref' = [ref EXCEPT ![r] =
                            IF connects /\ ~found
                            THEN [Connected(rr) EXCEPT !.addrs = "freed"] ELSE rr]
    BY DEF SessionOpen
  <1> DEFINE rr == RefFromAliasHash(conf, TRUE, "request", r)
             x  == IF connects /\ ~ref[r].allocated
                   THEN [Connected(rr) EXCEPT !.addrs = "freed"] ELSE rr
  <1>2. conf \in AsConfig /\ conf.hosts # <<>>
    BY StoreAssumption DEF AsConfig
  <1>3. rr \in RefRecord /\ rr.allocated
    <2>1. ref[r] \in RefRecord
      BY DEF SharingInv, TypeOK
    <2>2. rr \in RefRecord
      BY <1>2, RefFromAliasHashType DEF AddrState, SharingInv
    <2> QED  BY <2>1, <2>2 DEF RefFromAliasHash, FreeRef, RefRecord
  <1>4. x.allocated /\ x.ref_hosts_entry = rr.ref_hosts_entry
    <2> HIDE DEF rr
    <2> QED  BY <1>3 DEF Connected, RefRecord
  <1>5. /\ ref' = [ref EXCEPT ![r] = x] /\ ObjectFromAliasHash(conf, TRUE, r)
        /\ phase = "running" /\ UNCHANGED phase
    BY <1>1 DEF SessionOpen
  <1> HIDE DEF x
  <1> QED  BY <1>2, <1>4, <1>5, AcquireRefines

\* A collected handle releases the ref it owns; a shared one it only leaves.
LEMMA FreeStorageRefines ==
  ASSUME SharingInv, NEW o \in Object, FreeStorage(o)
  PROVE  AbstractStep
  <1> DEFINE r == obj[o].as_ref_p
             x == Freed(IF ref[r].ref_count # 0 THEN Disconnected(ref[r]) ELSE ref[r])
  <1>1. o \in Handle /\ phase = "running" /\ UNCHANGED <<phase, persistent_list>>
    BY DEF Handle, FreeStorage
  <1>2. CASE ~(HasRef(o) /\ ~obj[o].is_persistent)
    BY <1>1, <1>2, QuietRefines DEF FreeStorage
  <1>3. CASE HasRef(o) /\ ~obj[o].is_persistent
    <2>1. r \in Ref /\ ref[r] \in RefRecord /\ ref[r].allocated /\ ref[r].ref_hosts_entry = 0
      BY <1>1, <1>3, OwnerAlone DEF SharingInv, UncountedClosed
    <2>2. ~x.allocated
      BY DEF Freed, FreeRef
    <2>3. ref' = [ref EXCEPT ![r] = x]
      BY <1>3 DEF FreeStorage
    <2> HIDE DEF x
    <2>4. \A q \in Ref : ref'[q] = IF q = r THEN x ELSE ref[q]
      BY <2>1, <2>3 DEF SharingInv, TypeOK
    <2> HIDE DEF r
    <2>5. [q \in Ref |-> Kind(q)]' = [[q \in Ref |-> Kind(q)] EXCEPT ![r] = "unused"]
      BY <2>2, <2>4 DEF Kind
    <2>6. Shared!Release(r)
      BY <1>1, <2>1, <2>5 DEF Shared!Release, Kind
    <2> QED  BY <2>1, <2>6 DEF AbstractStep, Shared!ANext
  <1> QED  BY <1>2, <1>3

\* The entry that takes the ref with it is the last one that names it.
LEMMA DestroyEntryRefines ==
  ASSUME SharingInv, NEW a \in Alias, DestroyEntry(a)
  PROVE  AbstractStep
  <1> DEFINE r == persistent_list[a]
             x == IF ref[r].ref_hosts_entry > 1
                  THEN [ref[r] EXCEPT !.ref_hosts_entry = @ - 1]
                  ELSE Freed(Disconnected(ref[r]))
  <1>1. /\ phase = "shutdown" /\ phase' \in {"shutdown", "aborted"} /\ r # NoRef
        /\ persistent_list' = [persistent_list EXCEPT ![a] = NoRef]
        /\ ref' = [ref EXCEPT ![r] = x]
    BY DEF DestroyEntry
  <1>2. r \in Ref /\ ref[r] \in RefRecord /\ ref[r].allocated
    BY <1>1 DEF SharingInv, TypeOK, NoDangling
  <1>3. CASE ref[r].ref_hosts_entry > 1
    <2>1. x.allocated /\ x.ref_hosts_entry = ref[r].ref_hosts_entry - 1
      <3> HIDE DEF r
      <3> QED  BY <1>2, <1>3 DEF RefRecord
    <2> HIDE DEF x
    <2>2. \A q \in Ref : ref'[q] = IF q = r THEN x ELSE ref[q]
      BY <1>1, <1>2 DEF SharingInv, TypeOK
    <2>3. ref[r].ref_hosts_entry \in Nat
      BY <1>2 DEF RefRecord
    <2> HIDE DEF r
    <2>4. \A q \in Ref : Kind(q)' = Kind(q)
      BY <1>2, <1>3, <2>1, <2>2, <2>3 DEF Kind
    <2>5. [q \in Ref |-> Kind(q)]' = [q \in Ref |-> Kind(q)]
      BY <2>4
    <2>6. Shared!Withdraw(a)
      BY <1>1, <2>5 DEF Shared!Withdraw, r
    <2> QED  BY <2>6 DEF AbstractStep, Shared!ANext
  <1>4. CASE ~(ref[r].ref_hosts_entry > 1)
    <2>1. ~x.allocated
      BY <1>4 DEF Freed, FreeRef
    <2> HIDE DEF x
    <2>2. \A q \in Ref : ref'[q] = IF q = r THEN x ELSE ref[q]
      BY <1>1, <1>2 DEF SharingInv, TypeOK
    <2>3. Entries(r) = {a}
      <3>1. /\ IsFiniteSet(Entries(r)) /\ a \in Entries(r)
            /\ Cardinality(Entries(r)) <= ref[r].ref_hosts_entry
        BY <1>2 DEF SharingInv, EntriesHashed, EntriesCounted, Entries
      <3>2. /\ IsFiniteSet(Entries(r) \ {a})
            /\ Cardinality(Entries(r)) \in Nat
            /\ Cardinality(Entries(r) \ {a}) = Cardinality(Entries(r)) - 1
            /\ Cardinality(Entries(r) \ {a}) = 0 => Entries(r) \ {a} = {}
        BY <3>1, FS_RemoveElement, FS_CardinalityType, FS_EmptySet
      <3>3. ref[r].ref_hosts_entry \in Nat
        BY <1>2 DEF RefRecord
      <3>4. Cardinality(Entries(r) \ {a}) <= 0 /\ Cardinality(Entries(r) \ {a}) \in Nat
        BY <1>4, <3>1, <3>2, <3>3, FS_CardinalityType
      <3> QED  BY <3>1, <3>2, <3>4
    <2> HIDE DEF r
    <2>4. [q \in Ref |-> Kind(q)]' = [[q \in Ref |-> Kind(q)] EXCEPT ![r] = "unused"]
      BY <2>1, <2>2 DEF Kind
    <2>5. Shared!Named(r) = {a}
      BY <2>3 DEF Shared!Named, Entries
    <2>6. Shared!Withdraw(a)
      BY <1>1, <2>4, <2>5 DEF Shared!Withdraw, r
    <2> QED  BY <2>6 DEF AbstractStep, Shared!ANext
  <1> QED  BY <1>3, <1>4

\* What closes, reconnects and ends of sessions do to a ref.
LEMMA CountsOnly ==
  ASSUME SharingInv,
         \/ \E o \in Object : Close(o) \/ Reconnect(o)
         \/ SessionClose
  PROVE  /\ UNCHANGED <<phase, persistent_list>>
         /\ \A r \in Ref : /\ ref'[r].allocated = ref[r].allocated
                           /\ ref'[r].ref_hosts_entry = ref[r].ref_hosts_entry
                           /\ Entries(r) # {} =>
                                 /\ ref'[r].cluster = ref[r].cluster
                                 /\ ref'[r].attached = ref[r].attached
  <1>0. \A r \in Ref : ref[r] \in RefRecord
    BY DEF SharingInv, TypeOK
  <1>1. ASSUME NEW o \in Object, Close(o)
        PROVE  \A r \in Ref : /\ ref'[r].allocated = ref[r].allocated
                              /\ ref'[r].ref_hosts_entry = ref[r].ref_hosts_entry
                              /\ Entries(r) # {} =>
                                    /\ ref'[r].cluster = ref[r].cluster
                                    /\ ref'[r].attached = ref[r].attached
    <2> DEFINE r == obj[o].as_ref_p
               x == IF obj[o].is_persistent
                    THEN ClosePhpConnection(ref[r])
                    ELSE [Disconnected(ref[r]) EXCEPT !.ref_count = 0]
    <2>1. o \in Handle /\ HasRef(o)
      BY <1>1 DEF Handle, Close
    <2>2. r \in Ref /\ (~obj[o].is_persistent => Entries(r) = {})
      BY <2>1, OwnerAlone DEF SharingInv, OwnedOrShared
    <2>3. ref' = [ref EXCEPT ![r] = x]
      BY <1>1 DEF Close
    <2>4. /\ x.allocated = ref[r].allocated
          /\ x.ref_hosts_entry = ref[r].ref_hosts_entry
          /\ obj[o].is_persistent =>
                x.cluster = ref[r].cluster /\ x.attached = ref[r].attached
      <3>1. ref[r] \in RefRecord
        BY <1>0, <2>2
      <3> HIDE DEF r
      <3> QED  BY <3>1 DEF ClosePhpConnection, Disconnected, RefRecord
    <2> HIDE DEF x
    <2>5. \A q \in Ref : ref'[q] = IF q = r THEN x ELSE ref[q]
      BY <2>2, <2>3 DEF SharingInv, TypeOK
    <2> QED  BY <2>2, <2>4, <2>5
  <1>2. ASSUME NEW o \in Object, Reconnect(o)
        PROVE  \A r \in Ref : /\ ref'[r].allocated = ref[r].allocated
                              /\ ref'[r].ref_hosts_entry = ref[r].ref_hosts_entry
                              /\ Entries(r) # {} =>
                                    /\ ref'[r].cluster = ref[r].cluster
                                    /\ ref'[r].attached = ref[r].attached
    <2> DEFINE r == obj[o].as_ref_p
    <2>1. o \in Handle /\ HasRef(o)
      BY <1>2 DEF Handle, Reconnect
    <2>2. r \in Ref /\ (~obj[o].is_persistent => Entries(r) = {})
      BY <2>1, OwnerAlone DEF SharingInv, OwnedOrShared
    <2>3. PICK connects \in BOOLEAN :
            ref' = [ref EXCEPT ![r] =
                      [(IF ~obj[o].is_persistent /\ connects
                        THEN Connected(ref[r]) ELSE ref[r]) EXCEPT !.ref_count = 1]]
      BY <1>2 DEF Reconnect
    <2> DEFINE x == [(IF ~obj[o].is_persistent /\ connects
                      THEN Connected(ref[r]) ELSE ref[r]) EXCEPT !.ref_count = 1]
    <2>4. /\ x.allocated = ref[r].allocated
          /\ x.ref_hosts_entry = ref[r].ref_hosts_entry
          /\ obj[o].is_persistent =>
                x.cluster = ref[r].cluster /\ x.attached = ref[r].attached
      <3>1. ref[r] \in RefRecord
        BY <1>0, <2>2
      <3> HIDE DEF r
      <3> QED  BY <3>1 DEF Connected, RefRecord
    <2>5. ref' = [ref EXCEPT ![r] = x]
      BY <2>3
    <2> HIDE DEF x
    <2>6. \A q \in Ref : ref'[q] = IF q = r THEN x ELSE ref[q]
      BY <2>2, <2>5 DEF SharingInv, TypeOK
    <2> QED  BY <2>2, <2>4, <2>6
  <1>3. ASSUME SessionClose
        PROVE  \A r \in Ref : /\ ref'[r].allocated = ref[r].allocated
                              /\ ref'[r].ref_hosts_entry = ref[r].ref_hosts_entry
                              /\ ref'[r].cluster = ref[r].cluster
                              /\ ref'[r].attached = ref[r].attached
    <2> DEFINE r == obj[Session].as_ref_p
               x == ClosePhpConnection(ref[r])
    <2>1. ref' = [ref EXCEPT ![r] = x]
      BY <1>3 DEF SessionClose
    <2>2. \A q \in Ref : ref'[q] = IF q = r THEN x ELSE ref[q]
      BY <2>1 DEF SharingInv, TypeOK
    <2> HIDE DEF r
    <2> QED  BY <1>0, <2>2 DEF ClosePhpConnection, RefRecord
  <1>4. UNCHANGED <<phase, persistent_list>>
    BY DEF Close, Reconnect, SessionClose
  <1> QED  BY <1>1, <1>2, <1>3, <1>4

LEMMA NextRefines == SharingInv /\ [Next]_vars => AbstractStep
  <1> SUFFICES ASSUME SharingInv, [Next]_vars PROVE AbstractStep
    OBVIOUS
  <1>1. ASSUME NEW o \in Object, ConstructRejected(o) PROVE AbstractStep
    BY <1>1, QuietRefines DEF ConstructRejected
  <1>2. ASSUME NEW o \in Object, NEW conf \in Config, NEW persist \in BOOLEAN,
               Construct(o, conf, persist)
        PROVE  AbstractStep
    BY <1>2, ConstructRefines
  <1>3. ASSUME NEW o \in Object, NEW conf \in Config, NEW persist \in BOOLEAN,
               ConstructWithoutHosts(o, conf, persist)
        PROVE  AbstractStep
    BY <1>3, QuietRefines DEF ConstructWithoutHosts
  <1>4. ASSUME NEW o \in Object, IsConnected(o) PROVE AbstractStep
    BY <1>4, QuietRefines DEF IsConnected
  <1>5. ASSUME \/ \E o \in Object : Close(o) \/ Reconnect(o)
               \/ SessionClose
        PROVE  AbstractStep
    BY <1>5, CountsOnly, QuietRefines
  <1>6. ASSUME NEW o \in Object, FreeStorage(o) PROVE AbstractStep
    BY <1>6, FreeStorageRefines
  <1>7. ASSUME NEW conf \in SavePath, SessionOpen(conf) PROVE AbstractStep
    BY <1>7, SessionOpenRefines
  <1>8. CASE RequestEnd
    <2>1. \A r \in Ref : /\ ref'[r].allocated = ref[r].allocated
                         /\ ref'[r].ref_hosts_entry = ref[r].ref_hosts_entry
      BY <1>8 DEF RequestEnd, SharingInv, TypeOK, RefRecord
    <2> QED  BY <1>8, <2>1, QuietRefines DEF RequestEnd
  <1>9. CASE ModuleShutdown
    <2>1. \A r \in Ref : Kind(r)' = Kind(r)
      BY <1>9 DEF ModuleShutdown, Kind
    <2>2. Shared!GoDown
      BY <1>9, <2>1 DEF ModuleShutdown, Shared!GoDown
    <2> QED  BY <2>2 DEF AbstractStep, Shared!ANext
  <1>10. ASSUME NEW a \in Alias, DestroyEntry(a) PROVE AbstractStep
    BY <1>10, DestroyEntryRefines
  <1>11. CASE ModuleStopped \/ UNCHANGED vars
    BY <1>11, QuietRefines DEF ModuleStopped, vars
  <1> QED
    BY <1>1, <1>2, <1>3, <1>4, <1>5, <1>6, <1>7, <1>8, <1>9, <1>10, <1>11 DEF Next

LEMMA InitRefines == Init => Shared!AInit
  BY DEF Init, Shared!AInit, Kind, FreeRef

-----------------------------------------------------------------------------
(* What an alias names stays connected.                                    *)

\* One ref is written: what an alias names keeps its cluster, and no entry goes.
LEMMA WriteKeeps ==
  ASSUME SharingInv, NEW r \in Ref, NEW x, ref' = [ref EXCEPT ![r] = x],
         \A a \in Alias : persistent_list[a] # NoRef =>
                            persistent_list'[a] = persistent_list[a],
         Entries(r) # {} /\ ref[r].cluster =>
             x.cluster /\ x.attached = ref[r].attached
  PROVE  AliasesKept
  <1>1. \A q \in Ref : ref'[q] = IF q = r THEN x ELSE ref[q]
    BY DEF SharingInv, TypeOK
  <1> SUFFICES ASSUME NEW a \in Alias, persistent_list[a] # NoRef,
                      ref[persistent_list[a]].cluster
               PROVE  /\ ref'[persistent_list[a]].cluster
                      /\ ref'[persistent_list[a]].attached
                            = ref[persistent_list[a]].attached
    BY DEF AliasesKept
  <1>2. persistent_list[a] \in Ref
    BY DEF SharingInv, TypeOK
  <1>3. persistent_list[a] = r => Entries(r) # {}
    BY DEF Entries
  <1> QED  BY <1>1, <1>2, <1>3

\* A handle that finds its ref in the list writes its counts and its config
\* alone; a ref it allocates is one that no alias named.
LEMMA AcquireKeeps ==
  ASSUME SharingInv, NEW conf \in AsConfig, NEW persist \in BOOLEAN,
         NEW r \in Ref, ObjectFromAliasHash(conf, persist, r),
         NEW x, ref' = [ref EXCEPT ![r] = x],
         ref[r].allocated =>
             x.cluster = ref[r].cluster /\ x.attached = ref[r].attached
  PROVE  AliasesKept
  <1>1. \A a \in Alias : persistent_list[a] # NoRef =>
                            persistent_list'[a] = persistent_list[a]
    BY DEF ObjectFromAliasHash, NothingHashed
  <1>2. Entries(r) # {} => ref[r].allocated
    BY StoreAssumption DEF SharingInv, NoDangling, Entries
  <1> QED  BY <1>1, <1>2, WriteKeeps

LEMMA NextKeeps == SharingInv /\ [Next]_vars => AliasesKept \/ UNCHANGED vars
  <1> SUFFICES ASSUME SharingInv, Next PROVE AliasesKept
    OBVIOUS
  <1>0. \A r \in Ref : ref[r] \in RefRecord
    BY DEF SharingInv, TypeOK
  <1>1. CASE UNCHANGED <<ref, persistent_list>>
    BY <1>1 DEF AliasesKept
  <1>2. ASSUME NEW o \in Object, NEW conf \in Config, NEW persist \in BOOLEAN,
               Construct(o, conf, persist)
        PROVE  AliasesKept
    <2>1. PICK r \in Ref, key \in Key, connects \in BOOLEAN :
            LET found == ref[r].allocated
                rr    == [RefFromAliasHash(conf, persist, "process", r)
                            EXCEPT !.shm_key = key]
            IN  /\ ObjectFromAliasHash(conf, persist, r)
                /\ ref' = [ref EXCEPT ![r] = IF connects /\ ~found
                                             THEN Connected(rr) ELSE rr]
      BY <1>2 DEF Construct
    <2> DEFINE rr == [RefFromAliasHash(conf, persist, "process", r)
                        EXCEPT !.shm_key = key]
               x  == IF connects /\ ~ref[r].allocated THEN Connected(rr) ELSE rr
    <2>2. ref[r].allocated =>
             x.cluster = ref[r].cluster /\ x.attached = ref[r].attached
      BY <1>0 DEF RefFromAliasHash, RefRecord
    <2>3. ref' = [ref EXCEPT ![r] = x] /\ ObjectFromAliasHash(conf, persist, r)
      BY <2>1
    <2> HIDE DEF x
    <2> QED  BY <2>2, <2>3, AcquireKeeps DEF AsConfig
  <1>3. ASSUME NEW conf \in SavePath, SessionOpen(conf) PROVE AliasesKept
    <2>1. PICK r \in Ref, connects \in BOOLEAN :
            LET found == ref[r].allocated
                rr    == RefFromAliasHash(conf, TRUE, "request", r)
            IN  /\ ObjectFromAliasHash(conf, TRUE, r)
                /\ ref' = [ref EXCEPT ![r] =
                              IF connects /\ ~found
                              THEN [Connected(rr) EXCEPT !.addrs = "freed"] ELSE rr]
      BY <1>3 DEF SessionOpen
    <2> DEFINE rr == RefFromAliasHash(conf, TRUE, "request", r)
               x  == IF connects /\ ~ref[r].allocated
                     THEN [Connected(rr) EXCEPT !.addrs = "freed"] ELSE rr
    <2>2. ref[r].allocated =>
             x.cluster = ref[r].cluster /\ x.attached = ref[r].attached
      BY <1>0 DEF RefFromAliasHash, RefRecord
    <2>3. ref' = [ref EXCEPT ![r] = x] /\ ObjectFromAliasHash(conf, TRUE, r)
      BY <2>1
    <2> HIDE DEF x
    <2> QED  BY <2>2, <2>3, AcquireKeeps DEF AsConfig
  <1>4. ASSUME \/ \E o \in Object : Close(o) \/ Reconnect(o)
               \/ SessionClose
        PROVE  AliasesKept
    <2>1. \A a \in Alias : persistent_list[a] # NoRef =>
             persistent_list[a] \in Ref /\ Entries(persistent_list[a]) # {}
      BY DEF SharingInv, TypeOK, Entries
    <2> QED  BY <1>4, <2>1, CountsOnly DEF AliasesKept
  <1>5. ASSUME NEW o \in Object, FreeStorage(o) PROVE AliasesKept
    <2> DEFINE r == obj[o].as_ref_p
    <2>1. UNCHANGED persistent_list
      BY <1>5 DEF FreeStorage
    <2>2. CASE HasRef(o) /\ ~obj[o].is_persistent
      <3>1. r \in Ref /\ Entries(r) = {}
        BY <2>2, OwnerAlone DEF SharingInv, OwnedOrShared, Handle
      <3>2. PICK x : ref' = [ref EXCEPT ![r] = x]
        BY <1>5, <2>2 DEF FreeStorage
      <3> HIDE DEF r
      <3> QED  BY <2>1, <3>1, <3>2, WriteKeeps
    <2>3. CASE ~(HasRef(o) /\ ~obj[o].is_persistent)
      BY <1>1, <1>5, <2>1, <2>3 DEF FreeStorage
    <2> QED  BY <2>2, <2>3
  <1>6. CASE RequestEnd
    <2>1. \A r \in Ref : /\ ref'[r].cluster = ref[r].cluster
                         /\ ref'[r].attached = ref[r].attached
      BY <1>0, <1>6 DEF RequestEnd, RefRecord
    <2> QED  BY <1>6, <2>1 DEF RequestEnd, AliasesKept, SharingInv, TypeOK
  <1>7. ASSUME NEW a \in Alias, DestroyEntry(a) PROVE AliasesKept
    BY <1>7 DEF DestroyEntry, AliasesKept, Running
  <1>8. ASSUME \/ \E o \in Object :
                     \/ ConstructRejected(o) \/ IsConnected(o)
                     \/ \E conf \in Config, persist \in BOOLEAN :
                            ConstructWithoutHosts(o, conf, persist)
               \/ ModuleShutdown \/ ModuleStopped
        PROVE  UNCHANGED <<ref, persistent_list>>
    BY <1>8 DEF ConstructRejected, IsConnected, ConstructWithoutHosts,
                ModuleShutdown, ModuleStopped
  <1> QED  BY <1>1, <1>2, <1>3, <1>4, <1>5, <1>6, <1>7, <1>8 DEF Next

-----------------------------------------------------------------------------
(* The theorems.                                                           *)

\* The store of connections is a directory of clusters: an alias names one
\* handle from its publication to the shutdown, a published handle goes with
\* the last alias that names it, a private one is never named.
THEOREM StoreImplementsSharing == Spec => ImplementsSharing
  <1>1. Init => Shared!AInit
    BY InitRefines
  <1>2. SharingInv /\ [Next]_vars => Shared!ANext \/ UNCHANGED Shared!avars
    BY NextRefines DEF AbstractStep
  <1> QED  BY <1>1, <1>2, Sharing, PTL DEF Spec, ImplementsSharing, Shared!ASpec

\* Until the module shuts down an alias keeps its ref and the ref its cluster
\* (aerospike_helper_close_php_connection, Aerospike_object_free_storage).
THEOREM SharedStays == Spec => SharedConnectionStays
  <1>1. SharingInv /\ [Next]_vars => [AliasesKept]_vars
    BY NextKeeps
  <1> QED  BY <1>1, Sharing, PTL DEF Spec, SharedConnectionStays

=============================================================================
