--------------------------- MODULE ConnectionStore ---------------------------
(***************************************************************************)
(* How the extension shares connections to a cluster between PHP objects.   *)
(*                                                                         *)
(* An Aerospike object of a script, and the session handler's own object,  *)
(* hold an aerospike_ref: the C client handle as_p plus two counters.      *)
(* Persistent handles find their ref through persistent_list, a hash table *)
(* from host aliases ("addr:port:user") to refs that outlives the request; *)
(* non-persistent ones own theirs.  shm_key_list remembers the shared      *)
(* memory key given to each list of hosts.                                 *)
(*                                                                         *)
(* The globals are per PHP thread and the interpreter runs one method at a *)
(* time, so a method is one step; the interleavings are those of the       *)
(* handles alive in one request and of requests served one after another.  *)
(***************************************************************************)
EXTENDS Integers, Sequences, FiniteSets

CONSTANTS
    Alias,        \* host aliases: the keys of persistent_list
    Config,       \* the as_config records a script may pass to __construct
    SavePath,     \* the as_config records session.save_path may stand for
    Object,       \* slots for Aerospike objects of the script
    Session,      \* the object inside the session handler
    Ref,          \* the addresses an aerospike_ref may be allocated at
    NoRef,        \* the NULL as_ref_p
    Key,          \* the shared memory keys an int may hold
    NoKey,        \* no shared memory segment
    FirstKey,     \* 0xA5000000, where shm_key_counter starts
    MaxCount      \* model bound on ref_count, which the code never bounds

Handle   == Object \cup {Session}
AsConfig == Config \cup SavePath
HostList == {c.hosts : c \in AsConfig}

ASSUME StoreAssumption ==
    /\ AsConfig \subseteq [hosts : Seq(Alias), use_shm : BOOLEAN, shm_key : Key]
    /\ \A c \in SavePath : c.hosts # <<>> /\ ~c.use_shm
    /\ Session \notin Object /\ NoRef \notin Ref
    /\ Key \subseteq Int /\ FirstKey \in Key /\ NoKey \notin Key
    /\ MaxCount \in Nat

VARIABLES
    phase,            \* of the process; segfault and aborted are how it may die
    obj,              \* the Aerospike_object behind each handle
    ref,              \* the memory of each aerospike_ref and its as_p
    persistent_list,  \* alias -> ref, NoRef where the alias is not hashed
    shm_key_list,     \* list of hosts -> shared memory key
    shm_key_counter   \* the static the generated keys start from

vars == <<phase, obj, ref, persistent_list, shm_key_list, shm_key_counter>>

-----------------------------------------------------------------------------
(* The records of the state.                                               *)

\* Memory of the host address strings as_p->config.hosts points to: from the
\* process heap, from the request's heap, or given back.
AddrState == {"process", "request", "freed"}

RefRecord ==
    [allocated : BOOLEAN, ref_count : Nat, ref_hosts_entry : Nat,
     hosts : Seq(Alias), addrs : AddrState,
     use_shm : BOOLEAN, shm_key : Key,     \* as_p->config
     cluster : BOOLEAN,                    \* as_p->cluster # NULL
     attached : Key \cup {NoKey}]          \* the segment that cluster uses

FreeRef ==
    [allocated |-> FALSE, ref_count |-> 0, ref_hosts_entry |-> 0,
     hosts |-> <<>>, addrs |-> "freed", use_shm |-> FALSE,
     shm_key |-> FirstKey, cluster |-> FALSE, attached |-> NoKey]

ObjRecord ==
    [live : BOOLEAN, is_persistent : BOOLEAN, is_conn : BOOLEAN,
     as_ref_p : Ref \cup {NoRef}]

NoObj == [live |-> FALSE, is_persistent |-> FALSE, is_conn |-> FALSE,
          as_ref_p |-> NoRef]

TypeOK ==
    /\ phase \in {"running", "segfault", "shutdown", "aborted", "stopped"}
    /\ obj \in [Handle -> ObjRecord]
    /\ ref \in [Ref -> RefRecord]
    /\ persistent_list \in [Alias -> Ref \cup {NoRef}]
    /\ shm_key_list \in [HostList -> Key \cup {NoKey}]
    /\ shm_key_counter \in Key

Init ==
    /\ phase = "running"
    /\ obj = [h \in Handle |-> NoObj]
    /\ ref = [r \in Ref |-> FreeRef]
    /\ persistent_list = [a \in Alias |-> NoRef]
    /\ shm_key_list = [l \in HostList |-> NoKey]
    /\ shm_key_counter = FirstKey

-----------------------------------------------------------------------------
(* The C client.                                                           *)

\* aerospike_connect: attaches to the segment as_p->config names at this time.
Connected(r) == [r EXCEPT !.cluster = TRUE,
                          !.attached = IF r.use_shm THEN r.shm_key ELSE NoKey]

\* aerospike_close: a cluster that is not there is closed already.
Disconnected(r) == [r EXCEPT !.cluster = FALSE, !.attached = NoKey]

-----------------------------------------------------------------------------
(* Shared memory keys.                                                     *)

KeyTaken(k) == \E l \in HostList : shm_key_list[l] = k

\* Mutant: a generated key that is not compared with the keys in use.
IsNextFreeKeyUntested(k) == k = shm_key_counter

\* The while loop that moves shm_key_counter past every key in use.
IsNextFreeKey(k) ==
    /\ k >= shm_key_counter /\ ~KeyTaken(k)
    /\ \A j \in shm_key_counter .. (k - 1) : KeyTaken(j)

\* Mutant: only generated keys are remembered in the list.
SetShmKeyOnlyGenerated(conf, key) ==
    IF ~conf.use_shm
    THEN key = conf.shm_key /\ UNCHANGED <<shm_key_list, shm_key_counter>>
    ELSE IF shm_key_list[conf.hosts] # NoKey \/ ~KeyTaken(conf.shm_key)
         THEN /\ key = IF shm_key_list[conf.hosts] # NoKey
                       THEN shm_key_list[conf.hosts] ELSE conf.shm_key
              /\ UNCHANGED <<shm_key_list, shm_key_counter>>
         ELSE /\ IsNextFreeKey(key) /\ shm_key_counter' = key
              /\ shm_key_list' = [shm_key_list EXCEPT ![conf.hosts] = key]

\* conf->shm_key becomes key.
SetShmKeyFromAliasHashOrGenerate(conf, key) ==
    IF ~conf.use_shm
    THEN key = conf.shm_key /\ UNCHANGED <<shm_key_list, shm_key_counter>>
    ELSE \/ /\ shm_key_list[conf.hosts] # NoKey
            /\ key = shm_key_list[conf.hosts]
            /\ UNCHANGED <<shm_key_list, shm_key_counter>>
         \/ /\ shm_key_list[conf.hosts] = NoKey
            /\ IF KeyTaken(conf.shm_key)
               THEN IsNextFreeKey(key) /\ shm_key_counter' = key
               ELSE key = conf.shm_key /\ UNCHANGED shm_key_counter
            /\ shm_key_list' = [shm_key_list EXCEPT ![conf.hosts] = key]

-----------------------------------------------------------------------------
(* aerospike_helper_object_from_alias_hash.                                *)

HostsOf(conf) == {conf.hosts[i] : i \in DOMAIN conf.hosts}

\* Mutant: only the first host of the list is looked up.
FirstNotHashed(conf) ==
    conf.hosts # <<>> => persistent_list[conf.hosts[1]] = NoRef

NothingHashed(conf) == \A a \in HostsOf(conf) : persistent_list[a] = NoRef

\* r is what the first hashed host of the list is hashed to.
IsHashedRef(conf, r) ==
    \E i \in DOMAIN conf.hosts :
        /\ persistent_list[conf.hosts[i]] = r
        /\ \A j \in 1 .. (i - 1) : persistent_list[conf.hosts[j]] = NoRef

\* Mutant: a non-persistent handle takes what it finds in the list as well.
ObjectFromAliasHashForAll(conf, persist, r) ==
    \/ IsHashedRef(conf, r) /\ ref[r].ref_count < MaxCount /\ UNCHANGED persistent_list
    \/ /\ ~ref[r].allocated /\ NothingHashed(conf)
       /\ persistent_list' = IF persist
                             THEN [a \in Alias |-> IF a \in HostsOf(conf)
                                                   THEN r ELSE persistent_list[a]]
                             ELSE persistent_list

\* The handle gets ref r: one that is hashed already, or a new allocation that
\* a persistent handle hashes under each of its hosts.
ObjectFromAliasHash(conf, persist, r) ==
    \/ /\ persist /\ IsHashedRef(conf, r)
       /\ ref[r].ref_count < MaxCount
       /\ UNCHANGED persistent_list
    \/ /\ ~ref[r].allocated
       /\ persist => NothingHashed(conf)
       /\ persistent_list' = IF persist
                             THEN [a \in Alias |-> IF a \in HostsOf(conf)
                                                   THEN r ELSE persistent_list[a]]
                             ELSE persistent_list

\* Mutant: ref_hosts_entry counts the connection, not its entries.
RefCountedOnce(conf, persist, addrs, r) ==
    IF ref[r].allocated
    THEN [ref[r] EXCEPT !.ref_count = @ + 1]
    ELSE [FreeRef EXCEPT !.allocated = TRUE, !.ref_count = 1,
                         !.ref_hosts_entry = IF persist THEN 1 ELSE 0,
                         !.hosts = conf.hosts, !.addrs = addrs,
                         !.use_shm = conf.use_shm, !.shm_key = conf.shm_key]

\* The content of that ref.  The new as_p copies the config, addresses of the
\* host strings included; ref_hosts_entry counts a repeated host each time,
\* although its second zend_hash_add adds nothing.
RefFromAliasHash(conf, persist, addrs, r) ==
    IF ref[r].allocated
    THEN [ref[r] EXCEPT !.ref_count = @ + 1]
    ELSE [FreeRef EXCEPT !.allocated = TRUE, !.ref_count = 1,
                         !.ref_hosts_entry = IF persist THEN Len(conf.hosts)
                                                        ELSE 0,
                         !.hosts = conf.hosts, !.addrs = addrs,
                         !.use_shm = conf.use_shm, !.shm_key = conf.shm_key]

-----------------------------------------------------------------------------
(* Methods of the PHP class.  A guard that fails returns an error and       *)
(* changes nothing here.                                                  *)

\* A constructor that fails before it has a ref: bad parameters or options.
ConstructRejected(o) ==
    /\ phase = "running" /\ ~obj[o].live
    /\ \E persist \in BOOLEAN :
          obj' = [obj EXCEPT ![o] = [NoObj EXCEPT !.live = TRUE,
                                                  !.is_persistent = persist]]
    /\ UNCHANGED <<phase, ref, persistent_list, shm_key_list, shm_key_counter>>

\* A config without hosts is rejected too, unless it asks for shared memory:
\* the helper's exit path then replaces the error by OK and the constructor
\* goes on to dereference the NULL as_ref_p.
ConstructWithoutHosts(o, conf, persist) ==
    /\ phase = "running" /\ ~obj[o].live /\ conf.hosts = <<>>
    /\ phase' = IF conf.use_shm THEN "segfault" ELSE phase
    /\ \E key \in Key : SetShmKeyFromAliasHashOrGenerate(conf, key)
    /\ obj' = [obj EXCEPT ![o] = [NoObj EXCEPT !.live = TRUE,
                                               !.is_persistent = persist]]
    /\ UNCHANGED <<ref, persistent_list>>

\* Mutant: a ref that was hashed is connected again.
ConstructConnectsAgain(o, conf, persist) ==
    /\ phase = "running" /\ ~obj[o].live /\ conf.hosts # <<>>
    /\ \E r \in Ref, key \in Key :
          /\ ObjectFromAliasHash(conf, persist, r)
          /\ SetShmKeyFromAliasHashOrGenerate(conf, key)
          /\ ref' = [ref EXCEPT ![r] =
                        Connected([RefFromAliasHash(conf, persist, "process", r)
                                     EXCEPT !.shm_key = key])]
          /\ obj' = [obj EXCEPT ![o] =
                        [live |-> TRUE, is_persistent |-> persist,
                         is_conn |-> TRUE, as_ref_p |-> r]]
    /\ UNCHANGED phase

\* A ref that was hashed counts as connected and is not connected again, but
\* its config still gets the key computed for this config.
Construct(o, conf, persist) ==
    /\ phase = "running" /\ ~obj[o].live /\ conf.hosts # <<>>
    /\ \E r \in Ref, key \in Key, connects \in BOOLEAN :
          LET found == ref[r].allocated
              rr    == [RefFromAliasHash(conf, persist, "process", r)
                          EXCEPT !.shm_key = key]
          IN  /\ ObjectFromAliasHash(conf, persist, r)
              /\ SetShmKeyFromAliasHashOrGenerate(conf, key)
              /\ found => connects
              /\ ref' = [ref EXCEPT ![r] = IF connects /\ ~found
                                           THEN Connected(rr) ELSE rr]
              /\ obj' = [obj EXCEPT ![o] =
                            [live |-> TRUE, is_persistent |-> persist,
                             is_conn |-> connects, as_ref_p |-> r]]
    /\ UNCHANGED phase

HasRef(h) == obj[h].as_ref_p # NoRef

\* The flag follows the cluster, which may have lost its nodes.
IsConnected(o) ==
    /\ phase = "running" /\ HasRef(o)
    /\ \E up \in BOOLEAN :
          /\ up => ref[obj[o].as_ref_p].cluster
          /\ obj' = [obj EXCEPT ![o].is_conn = up]
    /\ UNCHANGED <<phase, ref, persistent_list, shm_key_list, shm_key_counter>>

\* Mutant: a count that was given back already is given back again.
CloseUncounted(r) == [r EXCEPT !.ref_count = @ - 1]

\* aerospike_helper_close_php_connection: the count is given back, no more.
ClosePhpConnection(r) ==
    [r EXCEPT !.ref_count = IF @ >= 1 THEN @ - 1 ELSE @]

\* Mutant: the cluster is closed under the other handles.
CloseForAll(o) ==
    /\ phase = "running" /\ HasRef(o)
    /\ obj[o].is_conn /\ ref[obj[o].as_ref_p].ref_count >= 1
    /\ ref' = [ref EXCEPT ![obj[o].as_ref_p] =
                  [Disconnected(@) EXCEPT !.ref_count = 0]]
    /\ obj' = [obj EXCEPT ![o].is_conn = FALSE]
    /\ UNCHANGED <<phase, persistent_list, shm_key_list, shm_key_counter>>

Close(o) ==
    /\ phase = "running" /\ HasRef(o)
    /\ obj[o].is_conn /\ ref[obj[o].as_ref_p].ref_count >= 1
    /\ ref' = [ref EXCEPT ![obj[o].as_ref_p] =
                  IF obj[o].is_persistent
                  THEN ClosePhpConnection(@)
                  ELSE [Disconnected(@) EXCEPT !.ref_count = 0]]
    /\ obj' = [obj EXCEPT ![o].is_conn = FALSE]
    /\ UNCHANGED <<phase, persistent_list, shm_key_list, shm_key_counter>>

\* A persistent handle only takes a count; a non-persistent one connects, and
\* is flagged connected even when that fails.
Reconnect(o) ==
    /\ phase = "running" /\ HasRef(o)
    /\ ~obj[o].is_conn /\ ref[obj[o].as_ref_p].ref_count = 0
    /\ \E connects \in BOOLEAN :
          ref' = [ref EXCEPT ![obj[o].as_ref_p] =
                    [(IF ~obj[o].is_persistent /\ connects
                      THEN Connected(@) ELSE @) EXCEPT !.ref_count = 1]]
    /\ obj' = [obj EXCEPT ![o].is_conn = TRUE]
    /\ UNCHANGED <<phase, persistent_list, shm_key_list, shm_key_counter>>

\* pefree of the ref: a cluster nobody closed before stays behind.
Freed(r) == [FreeRef EXCEPT !.cluster = r.cluster]

\* Mutants: a shared ref is freed too; the flag decides what is closed.
FreeStorageOfShared(o) ==
    /\ phase = "running" /\ obj[o].live
    /\ ref' = IF HasRef(o)
              THEN [ref EXCEPT ![obj[o].as_ref_p] = Freed(Disconnected(@))] ELSE ref
    /\ obj' = [obj EXCEPT ![o] = NoObj]
    /\ UNCHANGED <<phase, persistent_list, shm_key_list, shm_key_counter>>

FreeStorageByFlag(o) ==
    /\ phase = "running" /\ obj[o].live
    /\ ref' = IF HasRef(o) /\ ~obj[o].is_persistent
              THEN [ref EXCEPT ![obj[o].as_ref_p] =
                      Freed(IF obj[o].is_conn THEN Disconnected(@) ELSE @)]
              ELSE ref
    /\ obj' = [obj EXCEPT ![o] = NoObj]
    /\ UNCHANGED <<phase, persistent_list, shm_key_list, shm_key_counter>>

\* The last PHP reference to the object goes.  An owned ref is closed if it is
\* counted, destroyed and freed; a shared one is left as it is, counted.
FreeStorage(o) ==
    /\ phase = "running" /\ obj[o].live
    /\ ref' = IF HasRef(o) /\ ~obj[o].is_persistent
              THEN [ref EXCEPT ![obj[o].as_ref_p] =
                      Freed(IF @.ref_count # 0 THEN Disconnected(@) ELSE @)]
              ELSE ref
    /\ obj' = [obj EXCEPT ![o] = NoObj]
    /\ UNCHANGED <<phase, persistent_list, shm_key_list, shm_key_counter>>

-----------------------------------------------------------------------------
(* The session handler.                                                    *)

\* PS_OPEN: after a connection, or a hit in the list, the address strings of
\* the config are given back, also those the new as_p copied.  When the
\* connection fails only the session object goes.
SessionOpen(conf) ==
    /\ phase = "running" /\ ~obj[Session].live
    /\ \E r \in Ref, connects \in BOOLEAN :
          LET found == ref[r].allocated
              rr    == RefFromAliasHash(conf, TRUE, "request", r)
          IN  /\ ObjectFromAliasHash(conf, TRUE, r)
              /\ found => connects
              /\ ref' = [ref EXCEPT ![r] =
                            IF connects /\ ~found
                            THEN [Connected(rr) EXCEPT !.addrs = "freed"] ELSE rr]
              /\ obj' = [obj EXCEPT ![Session] =
                            IF connects
                            THEN [live |-> TRUE, is_persistent |-> TRUE,
                                  is_conn |-> TRUE, as_ref_p |-> r]
                            ELSE NoObj]
    /\ UNCHANGED <<phase, shm_key_list, shm_key_counter>>

\* PS_CLOSE, at session_write_close() or at the end of the script.
SessionClose ==
    /\ phase = "running" /\ obj[Session].live
    /\ ref' = [ref EXCEPT ![obj[Session].as_ref_p] = ClosePhpConnection(@)]
    /\ obj' = [obj EXCEPT ![Session] = NoObj]
    /\ UNCHANGED <<phase, persistent_list, shm_key_list, shm_key_counter>>

-----------------------------------------------------------------------------
(* The end of a request and of the module.                                 *)

NothingLive == \A h \in Handle : ~obj[h].live

\* PHP has run the destructors; the request's heap goes as a whole.
RequestEnd ==
    /\ phase = "running" /\ NothingLive
    /\ ref' = [r \in Ref |-> IF ref[r].addrs = "request"
                             THEN [ref[r] EXCEPT !.addrs = "freed"] ELSE ref[r]]
    /\ UNCHANGED <<phase, obj, persistent_list, shm_key_list, shm_key_counter>>

\* MSHUTDOWN after the last request: zend_hash_clean of the two tables.
ModuleShutdown ==
    /\ phase = "running" /\ NothingLive
    /\ \A r \in Ref : ref[r].addrs # "request"
    /\ phase' = "shutdown"
    /\ shm_key_list' = [l \in HostList |-> NoKey]
    /\ UNCHANGED <<obj, ref, persistent_list, shm_key_counter>>

\* Mutant: the last entry does not count as the last.
DestroyEntryButLast(a) ==
    LET r == persistent_list[a]
    IN  /\ phase = "shutdown" /\ r # NoRef
        /\ persistent_list' = [persistent_list EXCEPT ![a] = NoRef]
        /\ ref' = [ref EXCEPT ![r] =
                      IF ref[r].ref_hosts_entry > 0
                      THEN [ref[r] EXCEPT !.ref_hosts_entry = @ - 1]
                      ELSE Freed(Disconnected(ref[r]))]
        /\ UNCHANGED <<phase, obj, shm_key_list, shm_key_counter>>

\* aerospike_check_close_and_destroy on one entry: the last entry closes and
\* frees the ref.  Address strings freed before are freed again, which the
\* allocator may notice.
DestroyEntry(a) ==
    LET r == persistent_list[a]
    IN  /\ phase = "shutdown" /\ r # NoRef
        /\ persistent_list' = [persistent_list EXCEPT ![a] = NoRef]
        /\ ref' = [ref EXCEPT ![r] =
                      IF ref[r].ref_hosts_entry > 1
                      THEN [ref[r] EXCEPT !.ref_hosts_entry = @ - 1]
                      ELSE Freed(Disconnected(ref[r]))]
        /\ \/ UNCHANGED phase
           \/ /\ ref[r].ref_hosts_entry <= 1 /\ ref[r].addrs = "freed"
              /\ phase' = "aborted"
        /\ UNCHANGED <<obj, shm_key_list, shm_key_counter>>

ModuleStopped ==
    /\ phase = "shutdown" /\ \A a \in Alias : persistent_list[a] = NoRef
    /\ phase' = "stopped"
    /\ UNCHANGED <<obj, ref, persistent_list, shm_key_list, shm_key_counter>>

Next ==
    \/ \E o \in Object :
          \/ ConstructRejected(o)
          \/ \E conf \in Config, persist \in BOOLEAN :
                Construct(o, conf, persist) \/ ConstructWithoutHosts(o, conf, persist)
          \/ IsConnected(o) \/ Close(o) \/ Reconnect(o) \/ FreeStorage(o)
    \/ \E conf \in SavePath : SessionOpen(conf)
    \/ SessionClose \/ RequestEnd \/ ModuleShutdown
    \/ \E a \in Alias : DestroyEntry(a)
    \/ ModuleStopped

Spec == Init /\ [][Next]_vars

\* zend_hash_clean runs to its end.
FairSpec == Spec /\ WF_vars((\E a \in Alias : DestroyEntry(a)) \/ ModuleStopped)

-----------------------------------------------------------------------------
(* Properties.                                                             *)

Running == phase = "running"

Entries(r) == {a \in Alias : persistent_list[a] = r}

Repeats(hosts) == \E i, j \in DOMAIN hosts : i # j /\ hosts[i] = hosts[j]

\* No entry of the persistent list, and no handle of a script or a session,
\* ever points to a ref that was freed, through any order of closes, garbage
\* collections, sessions and the entry by entry destruction at shutdown.
NoDangling ==
    /\ \A a \in Alias : persistent_list[a] # NoRef => ref[persistent_list[a]].allocated
    /\ \A h \in Handle : HasRef(h) => ref[obj[h].as_ref_p].allocated

\* A non-persistent handle is alone with its ref, which no alias names; a
\* persistent handle holds a ref some alias still names.
OwnedOrShared ==
    \A h \in Handle : HasRef(h) =>
        IF obj[h].is_persistent
        THEN Entries(obj[h].as_ref_p) # {}
        ELSE /\ Entries(obj[h].as_ref_p) = {}
             /\ \A g \in Handle \ {h} : obj[g].as_ref_p # obj[h].as_ref_p

\* ref_hosts_entry never falls below the number of entries that point to the
\* ref, so that no destruction comes early, and is exactly that number unless
\* a host was given twice, so that the last one does come.
EntriesCounted ==
    \A r \in Ref : ref[r].allocated =>
        /\ Cardinality(Entries(r)) <= ref[r].ref_hosts_entry
        /\ ~Repeats(ref[r].hosts) =>
              Cardinality(Entries(r)) = ref[r].ref_hosts_entry

\* No ref is freed with its cluster open, which would leave the tend thread and
\* its sockets behind: a non-persistent handle that is collected was closed or
\* is still counted, whatever isConnected made of its flag.
FreedRefsClosed == \A r \in Ref : ref[r].cluster => ref[r].allocated

\* Two lists of hosts are never given one shared memory key.
ShmKeysDistinct ==
    \A l, m \in HostList :
        shm_key_list[l] = shm_key_list[m] /\ shm_key_list[l] # NoKey => l = m

\* Clusters that tend in one segment were reached through one list of hosts,
\* whichever keys the configs asked for and in whatever order they connected.
SegmentsApart ==
    \A r, q \in Ref :
        ref[r].attached = ref[q].attached /\ ref[r].attached # NoKey
            => ref[r].hosts = ref[q].hosts

\* While the module runs an alias keeps its ref, and the ref its cluster.
AliasesKept ==
    \A a \in Alias :
        Running /\ persistent_list[a] # NoRef =>
            LET r == persistent_list[a]
            IN  /\ persistent_list'[a] = r
                /\ ref[r].cluster => /\ ref'[r].cluster
                                     /\ ref'[r].attached = ref[r].attached

\* Until the module shuts down an alias keeps its ref and the ref its cluster:
\* no close, reconnect, collection or session of one handle disconnects another.
SharedConnectionStays == [][AliasesKept]_vars

\* A shutdown that is not aborted frees every ref, except one that counts a
\* host given twice.
ShutdownReleases ==
    phase = "shutdown" ~>
        (phase = "aborted" \/ \A r \in Ref : ref[r].allocated => Repeats(ref[r].hosts))

Kind(r) == IF ~ref[r].allocated THEN "unused"
           ELSE IF ref[r].ref_hosts_entry = 0 THEN "private" ELSE "shared"

\* The store implements its abstract specification.
Shared == INSTANCE SharedClusters
    WITH Cluster <- Ref, NoCluster <- NoRef,
         up <- phase \in {"running", "segfault"},
         directory <- persistent_list,
         kind <- [r \in Ref |-> Kind(r)]

ImplementsSharing == Shared!ASpec

-----------------------------------------------------------------------------
(* What makes the properties above inductive.                              *)

\* A handle that is not live, and every handle from the shutdown on, has no ref.
DeadLetGo ==
    /\ \A h \in Handle : ~obj[h].live => ~HasRef(h)
    /\ phase \notin {"running", "segfault"} => NothingLive

\* An owned ref that is not counted was closed, which is all the collection
\* of a handle looks at.
UncountedClosed ==
    \A h \in Handle :
        HasRef(h) /\ ~obj[h].is_persistent =>
            /\ ref[obj[h].as_ref_p].ref_hosts_entry = 0
            /\ ref[obj[h].as_ref_p].ref_count = 0 => ~ref[obj[h].as_ref_p].cluster

\* A ref with entries was hashed under finitely many hosts, at least one.
EntriesHashed ==
    \A r \in Ref :
        /\ IsFiniteSet(Entries(r))
        /\ Entries(r) # {} => ref[r].ref_hosts_entry > 0

\* The inductive invariant of the sharing of refs.
SharingInv ==
    /\ TypeOK /\ NoDangling /\ OwnedOrShared /\ EntriesCounted /\ FreedRefsClosed
    /\ DeadLetGo /\ UncountedClosed /\ EntriesHashed

-----------------------------------------------------------------------------
(* What the repository says of the code, and the code does not do.         *)

\* aerospike_common.h: ref_count indicates the references held by the PHP objects.
CountsReturned ==
    phase = "running" /\ NothingLive =>
        \A r \in Ref : ref[r].allocated => ref[r].ref_count = 0

\* aerospike.c, in the constructor: the flag is set when the connection is there.
FlagMeansConnection ==
    \A h \in Handle : HasRef(h) /\ obj[h].is_conn => ref[obj[h].as_ref_p].cluster

=============================================================================
