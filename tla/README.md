# Verification of the Aerospike PHP client extension

This directory holds TLA+ models of the C extension in `src/src/aerospike`, the TLC configurations
that check them, and proofs that TLAPS checks. Paths below are relative to the repository; `aerospike.c`
and the other C files are those of `src/src/aerospike`.

## 1. The system

The extension puts the PHP class `Aerospike`, and a session handler, in front of the Aerospike C client.
A PHP process serves requests one after another. In a request the script creates objects, calls their
methods and drops them; the module's own tables outlive the request. Inside the C client there are
threads: one that tends each cluster, and workers that stream the records of a scan or a query and
call back into PHP.

| Part | State it keeps | Operations | Interacts with |
|---|---|---|---|
| Connection store: `aerospike.c`, `aerospike_helper.c` | `persistent_list` (host alias to `aerospike_ref`), `shm_key_list`, `shm_key_counter`; in a ref: `ref_count`, `ref_hosts_entry`, `as_p`; in an object: `is_persistent`, `is_conn_16`, `as_ref_p` | `__construct`, `isConnected`, `close`, `reconnect`, `shmKey`, the storage destructor, request end, module shutdown | objects share refs through the list; the session handler holds one more object |
| Session handler: `aerospike_session_handler.c` | the session object of the request; the session record on the server | `PS_OPEN`, `PS_CLOSE`, `PS_READ`, `PS_WRITE`, `PS_DESTROY`, `PS_GC` | takes its ref from the store |
| Record streams: `aerospike_scan.c`, `aerospike_query.c`, the stream callback in `aerospike_helper.c` | `query_cb_mutex`, the `userland_callback` (fci) of the call, the `retval` in each frame | `scan`, `query`, the callback of the workers | C client threads enter the interpreter; the script's function may call any method again |
| Record operations: `aerospike_record_operations.c` | none, but the static `iterator` of `operater_ordered_callback` | `operate`, `operateOrdered`, `put`, `get`, `remove`, `exists`, `append`, `prepend`, `increment`, `touch`, `removeBin`, the list methods | one or several requests to the server |
| Batch operations: `aerospike_batch_operations.c` | none in use: the static index of `populate_result_for_get_exists_many_new` serves a branch that nothing calls | `getMany`, `existsMany` | one request for many keys; the results are walked, or passed to a callback of the C client, and fill the PHP array |
| Error reporting: `aerospike.c`, `aerospike_helper.c` | `error_g` of the thread, the properties `error` and `errorno` of an object | the end of every method, `error`, `errorno` | shared by all objects of the thread |
| Background jobs: `aerospike_scan.c`, `aerospike_query.c` | job id, on the server | `scanApply`, `queryApply`, `scanInfo`, `jobInfo` | server |
| Aggregation: `aerospike_query.c` | the returned PHP array | `aggregate` | a callback of the C client adds each result to the array |
| Policies: `aerospike_policy.c` | none | `set_policy` and its variants | every method |
| Value conversion: `aerospike_transform.c` | the serializers registered by the script | PHP values to `as_val` and back, keys, hosts, the config | every method |
| UDF, indexes, security, info | none | one request to the server each | server |
| Logging: `aerospike_logger.c` | one callback of the process | `setLogLevel`, `setLogHandler` | any thread of the C client |
| PHP library: `src/src/LDT`, `Bytes.php`, `GeoJSON` | none | wrappers over `apply`, value classes | `aerospike.c` |

What is hard here, and what makes each part correct:

* **Connection store.** Refs are shared between objects, between lists of hosts that overlap, and
  between requests; one count says who closes a cluster, another who frees a ref. A constructor can
  fail half way, `isConnected()` writes the flag that `close()` trusts, the session handler gives back
  memory that a ref still points to, and the shutdown destroys the list entry by entry. Correct means:
  no pointer to a freed ref, no cluster disconnected under another handle, no cluster left open in a
  freed ref, no two clusters tending in one shared memory segment, everything released at shutdown.
* **Record streams.** Several threads, an interpreter that is not thread safe, a callback that must
  unlock on each of its seven ways out, one call structure used by all, and functions that stream
  again. Correct means: one thread in PHP, each worker obeys its own answer, an explicit `false` and nothing else halts
  the stream, the call returns.
* **Record operations.** `operate` is one request, `operateOrdered` is one per element, with lost answers and other
  clients in between; both take the arguments of an element from locals that survive it. Correct
  means: all or nothing for one, a prefix in order for the other, and an answer that tells which.
* **Session data.** Several requests with one session id, no lock, a record that expires or is destroyed between
  read and write, answers that come late. Correct means: a change that was told SUCCESS is lost only to a
  request that could not know of it, and what was removed does not come back by one that never saw it.
* **Batch.** Each method has two ways that file their results differently. An entry is filed before its record is converted,
  one error is shared by all records, and each conversion that succeeds begins with clearing it. Nodes answer apart, while others
  write. Correct means: OK is told with an entry for each key that tells what its own record held, and none that has been released.
* **Error reporting.** Each method reports through one `error_g`, a status and an `as_error` that are
  assigned apart from each other, while functions of the script call other methods. Correct means: an object
  shows the error of its own last call, a failure is told, and a status that is not OK has an error.
* **Background jobs.** The job runs on the server while the client waits; the wait may fail. Correct
  means: a job that was started can be asked about.
* **Policies.** A copy of the defaults is changed option by option, and some fields outlive the call. Correct
  means: an option is taken or the call is refused, before the server has been asked for anything, and ends with
  its call.
* **Conversion.** Two loops that call each other through macros, one for each level of nesting and each PHP
  version, pools of fixed size, values the server has no type for. Correct means: what is
  written and read back is what was written.

## 2. The plan

Done, in the order of what would hurt most:

1. `ConnectionStore`, its abstract specification `SharedClusters`, the refinement, the proofs.
2. `RecordStream` and its proofs; one run with nodes of different sizes and streams in streams.
3. `RecordOperate`: `operate` and `operateOrdered`, its abstract specification `RecordLog`, the refinement, and the
   proofs for any number of processes and calls.
4. `MethodCalls`, `Policies`, `ClientMethods`: every method of the class as a sequence of steps, the error
   reporting, the options, background jobs, calls in calls; proofs for any methods made of these steps, and
   of what the methods of the class tell.
5. `SessionData`: the record of a session under concurrent requests; proofs for any number of them.
6. `Conversion`: the values of a record, both ways.
7. `BatchRead`: which entry of the result of `getMany` and `existsMany` belongs to which key; proofs for any keys and lists.

Left, in the order of what they would add:

1. `RecordStream` composed with `ConnectionStore`, where the function closes the object that streams:
   `MethodCalls` has this with one request instead of workers.
2. The parser of the config and of `aerospike.ini`.

## 3. The modules

### ConnectionStore

State: `persistent_list` and `shm_key_list` are functions from aliases, and from lists of hosts, to refs and keys;
`ref` is the memory of each `aerospike_ref` with what matters of `as_p` (its config, whether it has a
cluster and which segment that is attached to, whose memory its host strings are in); `obj` is the
`Aerospike_object` of each slot of the script and of the session handler. `phase` is the process:
`segfault` and `aborted` are the ways it dies.

| Action | Code |
|---|---|
| `Construct`, `ConstructRejected`, `ConstructWithoutHosts` | `Aerospike::__construct` with `aerospike_helper_object_from_alias_hash` and the shared memory key |
| `IsConnected`, `Close`, `Reconnect` | the methods of that name; `ClosePhpConnection` is the helper both kinds of close use |
| `FreeStorage` | `Aerospike_object_free_storage`, whenever PHP collects the object |
| `SessionOpen`, `SessionClose` | `PS_OPEN`, `PS_CLOSE` |
| `RequestEnd`, `ModuleShutdown`, `DestroyEntry`, `ModuleStopped` | the end of a request, `MSHUTDOWN`, the element destructor of the list |

The globals belong to a PHP thread and the interpreter runs one method at a time, so a method is one
step. The interleavings are those of handles in one request and of requests one after another.
`aerospike_connect` and `aerospike_close` are external (`Connected`, `Disconnected`): a connect that succeeds attaches to
the key that is in the config at that moment.

### SharedClusters

The abstract specification: a directory from aliases to cluster handles. A handle is published under
all its names at once, keeps them until the module goes down, and is destroyed with its last name;
private handles have no name. `ConnectionStore` maps `directory` to `persistent_list` and the kind of a
handle to `allocated` and `ref_hosts_entry`; the property `ImplementsSharing` is the refinement.

### RecordStream

A thread is a worker of a stream; streams nest up to `Depth`. `pc` follows the callback from the delivery of
a record (`Deliver`) through `Lock`, building the PHP arrays (`PassOver` when that fails), `Invoke`, the
return of the function (`UserReturns`: a value or an exception) and `Decide`. `fci` is the worker whose
`retval` the shared call structure points to. How the C client starts workers, fails and stops them is
external, taken from how the code uses `aerospike_scan_foreach` and `aerospike_query_foreach`.

### RecordOperate

`log` is what the server applied to the record, `inflight` are requests under way, `local` are the
variables that the loop over the operations does not reset. `Begin` is the head of both functions; `Walk`
takes the elements (`TakeOp`), or ends the call (`Refuse`, and `Stop` where `operateOrdered` looks at the error that a
wrong generation or the conversion of the last result has left); `Send` hands a request to the C
client, and `Resend` is the client sending it again under `OPT_POLICY_RETRY`; `Apply`, `Drop` and `Timeout` are the server
and the network; `Finish` is what each function makes of
the answer, with the `goto exit` path as `OperateExit` and `OrderedExit`. The data are kept to what the
properties tell apart: an operation is a read, a write, an increment, items to insert, a list operation by range, or an
unknown one, and `AsInt` is the C `int` that a PHP integer goes through.

Two places of the code are easy to miss, and both are in the model. `OP_LIST_INSERT_ITEMS` whose last field is no array leaves with the
error OK and adds nothing to the `as_operations` (aerospike_record_operations.c:364-368), so an element can be taken and do nothing: `Adds`
says which do something, and no property promises the others. A double that `operateOrdered` reads is appended to the array of
results itself, beside the entry of its operation (`WithDouble`, aerospike_record_operations.c:92-98), where the next entry may replace it.

### RecordLog

The abstract specification: a record is the log of the operations applied to it, and its generation. A call is asked,
its list is applied in portions, each in one step (`Perform`), and it returns. What is to be applied are the operations that
do something (`Work`). The portion of
`operate` is all of them, that of `operateOrdered` the next one; a portion that writes under a generation needs
that generation. A call that asked for a retry may have a portion applied again. Of the others, a call that has returned an
error may still have a portion applied, one that has returned
none may not. Each result that is returned, but the last one of a failure, is of an operation in the log or of one that does nothing; when there is no
error, `operateOrdered` has a result for everything it has in the log. The variables are those
of `RecordOperate` with the same names; requests, walks and locals have no counterpart. `ImplementsLog` is the refinement.

### MethodCalls, Policies, ClientMethods

`MethodCalls` is the machine that runs a method: `stack` holds the calls in progress, each with its local status,
its `as_error`, its options and its place in the steps of the method; `error_g`, `shown` (the properties `error` and `errorno`),
`connected`, `cluster`, `kept` (the options that outlived a call) and `handler` are what the calls share. A
step is one of these, and each is an action:

| Step | Code |
|---|---|
| `Connected` | `CHECK_CONNECTED` |
| `Check` | arguments, keys, values, anything in the process that fails or not |
| `Policy` | one of the `set_policy` variants, by `Policies!SetPolicy` |
| `Clean` | a test of the `as_error` that earlier steps may have left |
| `Value` | the conversion of a value or of an array of them, which sets the `as_error` to OK when it succeeds |
| `Request` | a call of the C client: the server applies it or not, the answer comes or not |
| `Output` | the answer is put into the variables of the script |
| `Probe`, `CloseCluster`, `LogHandler` | `isConnected`, `close`, `setLogHandler` |
| `Return` | the macros at the end of a method, in five forms (`Finishes`) |
| `Crash` | memory that is released without having been initialised, or `NULL` that is looked at (PHP 5, a missing generation) |

`Begin` calls a method, from the script or from a function of it that a method runs (a stream callback, a serializer, the
log handler). A step that fails says what it assigns to the status and to the error, and whether the method
ends there: this is where the methods differ, and `ClientMethods` is the table, one definition for each
method and each function that methods share, read off the code line by line. `Policies` says which options each
kind of policy takes, with the two loops of `set_policy_ex`: under PHP 7 the search for string keys
exhausts the table, and only the last option is looked at.

`OPT_POLICY_GEN` with an array that has no index 0 is an option of its own, `EMPTY_GEN`. Under PHP 7 the walk over the options ends there
without an error, under PHP 5 it looks at the type of what `NULL` points to, and the process may end (aerospike_policy.c:622-625,
`GenerationMissing`). The list methods begin with a request: `HasCdtList` asks a node for its features.

Five sets in `ClientMethods` are not code but what the properties except, each read off the code:

* `GoOn`: methods that go on after a wrong argument.
* `PolicyFree`: methods that send their request without the policy they made.
* `Careless`: methods that pass over options they refused. No list method looks at the outcome of `set_policy`. `listAppend`, `listInsert`,
  `listSet`, `listMerge` and `listInsertItems` then convert a value, which sets the error to OK; `listSize`, `listGet` and `listGetRange` send
  their request, which does. All eight return OK, and the first five have written. The other list methods leave at
  `get_options_ttl_value`, which returns the code of the error whatever set it (`Ttl`), and tell it in the error only.
* `OnlyError`, `OnlyStatus`: methods that leave an error in one of the two places only.

They are the list of the methods to look at; of any other method the properties hold without exception, but that under PHP 7 options are
lost in every method (all but the last, and a generation that is missing).

### Conversion

A PHP value is a record with one field, named for its type, and so is an `as_val`; arrays are sequences of
elements, since PHP arrays have an order. `BinsOf`, `Value`, `ListOf` and `MapOf` are the writing macros
of the levels DEFAULT, LIST and MAP, which differ in what they pass to the serializer and in which
pool they use; `IsList` is the test whether an array is a list, in its PHP 5 and PHP 7 form; `Fetched`, `Read`,
`ReadList` and `ReadMap` are the way back. `Put` is the method, `PutBack` a script that writes what it has read.
What the code loses is stated once, in `Kept`: a string ends at its first NUL (doc/README.md:84-92 has it for
other clients), an integer key of a map is cut to a C `uint` when its value is a scalar, and the order of the
keys of a list that was shuffled is lost under PHP 7. `Readable` is the other exception: bytes of a user
serializer need a deserializer. Without one, `get` fails, although doc/README.md:83 has the bytes placed in a string, and a list or a map is silently cut at the element that cannot be read. The definitions are
recursive, so this module is for TLC only.

### SessionData

`record` is what the server keeps for one session id, `{}` when there is no record; `session` is the `$_SESSION` of each
request. The content is the set of requests whose change it holds. `Read` and `ReadFails` are `PS_READ`, `Write` and
`Destroy` with `TakePut`, `TakeRemove`, `Drop`, `Succeeds` and `GivesUp` are `PS_WRITE` and `PS_DESTROY`
with the server; `Refused` is every return of theirs before the server is asked; `Expire` is the life time of
the record. `PS_GC` does nothing and has no action. The history variables say what a request could not have known:
`missed` for the writes since its read, `stale` for a removal since its read, `blind` for a read that failed.

### BatchRead

One call at a time, of either method, the index way or the direct way; other clients and the nodes act while it waits. `answer` is
what the nodes have said of each place in the keys, `at` is the place of the result that is taken next, `result` is the array of
the script. An entry is the place of the result it was made of, what it holds, and whether it was released while it
is in the array. `Name` gives the user key of a key: two keys may have the same in different sets.

| Action | Code |
|---|---|
| `RefuseOptions`, `NoKeys`, `RefuseKey`, `Ask` | the heads of the four functions, and which of their exits release what |
| `Change`, `NodeReads`, `NodeRefuses`, `RequestFails`, `RequestSucceeds` | the server and the C client (external, but for what the code makes of a failure) |
| `FillEntry`, `FillFails`, `FillAfterError`, `FreedTwice` | the loop of `getMany`: its body in `aerospike_batch_operations_get_many_new`, and `batch_get_cb` |
| `FileMetadata`, `PassOver`, `Halt` | the loop of `existsMany`: its body in `aerospike_batch_operations_exists_many_new`, and `batch_exists_cb` |
| `Return` | the exits |

`seen` is a history: what each record of the call has held since it began. A record converts or does not (`Unreadable`), by its
content. That the C client calls the callback of the direct way once, with all results, and that a `false` from it may or may not become
an error, is taken of the C client.

### The others

The `MC` modules give the constants of the instances. `SharingProofs`,
`StoreRefinementProofs`, `RecordStreamProofs`, `RecordOperateProofs`, `MethodCallsProofs`,
`ClientMethodsProofs`, `SessionProofs` and `BatchReadProofs` hold the proofs. A definition whose comment says
*Mutant* is a plausible bug, written so that a run can show that a property notices it.

## 4. What the runs show

| Run | Bounds | Shows |
|---|---|---|
| `store_sharing` | 2 script objects, the session, 2 aliases, 3 refs, configs of one host, two hosts, a host twice and none, `ref_count` up to 2 | the invariants of sharing and ownership, the refinement, that no step of one handle disconnects another, that the shutdown releases |
| `store_shm` | 2 objects, the session, 2 refs, 4 keys, configs that ask for the first key and for the key the generator hands out next | keys and segments stay apart |
| `streams` | 3 workers with 2, 1 and 1 records, streams nested 2 deep | the interpreter is entered by one thread, answers do not get mixed up, how a stream halts, which streams return and which block for good |
| `operate` | 2 calls, by one process or two; 5 lists, 6 options, C int of -4 to 3 | atomicity, order, what the status tells, the indexes of results, requests that are sent again, the refinement of `RecordLog` |
| `methods` | 2 objects, one of them persistent; a call of each method with each option alone (of those that all methods take alike, one) and some together, PHP 5 and PHP 7; after or inside it a scan and a `close()`, nested up to 3 deep | what a failure at each place tells, what the server has done by then, which job ids are lost, which options outlive the call, errors and closes of calls inside calls |
| `conversion` | a PHP 5 and a PHP 7 process, 30 arrays, 3 serializers, a server with and without doubles and GeoJSON | the round trip of each type at each level |
| `sessions` | 3 requests with one id, symmetric | which changes a session may lose, what of a removed session may come back |
| `batch` | 2 contents of which one does not convert, 3 keys of which two have one user key, the lists of none, of two keys and of three with a key twice | that OK of `getMany` means an entry for each key that can be used, that what the direct way files under a name is of the last result of that name, that an entry tells what its own record held |

The bounds are small but let each hazard happen: two handles are enough to take a count from each
other and a third (the session) to notice; three refs are one for each handle; two aliases are what a partial
overlap needs. Three workers are the least with which one is in the function, one has a record and one
reads; a node with two records delivers again after the halt. Two calls of `operate` are enough for a late request of the first to be applied inside the second. Two elements in a list are one that
leaves a local or an error to the other. One call
meets every place where a method fails; three calls are any call, one inside it or after it that runs
functions of the script, and one inside or after that which closes; two objects are needed for an error of one to reach the other. Three requests are one that loses its change, one that
overwrites it, and one that wrote before; four were tried and showed nothing else. Three results are one before the record that cannot be converted, that record, and one after
it; a list with a key twice, and another key of its name between, replaces an entry by one of the same key and of another. `UintRange` is 4 and
`AS_MAX_STORE_SIZE` 3, so that the key 4 wraps and an array of two integers with integer keys finds the pool full, as 2^32 and an array of thousands do in the code; `HashOrder` is one order, and not that of the keys.
`MaxCount`, `MaxCalls`, `MaxDepth`, `Depth` and `MaxRecords` bound what the code does not bound, in the guards that use them.

Deadlock is checked in `conversion`, `batch` and `batch_order`, where something can always happen, and in no other: a module that has stopped, a list of calls that is done, a session whose
requests have all ended and a stream that blocks for good are all states where nothing more happens, and the last is the subject of `StreamReturns`.

The violation runs show where the code does not do what the repository says of it:

| Run | Said | Happens |
|---|---|---|
| `store_counts` | `ref_count` counts the objects that hold the handle | a persistent object that is collected without `close()` keeps its count |
| `store_flag` | the flag is set when the connection is established | a hashed ref whose connect failed, and a failed `reconnect()`, set it too |
| `operate_values` | `val` is the value to store | a double after an integer is stored as that integer |
| `batch_order` | `existsMany` returns an array that matches the order of the keys | the index way leaves out a key that its node refused and tells OK, so that the entries after it are at the indexes of other keys |

The models show more of the kind, with no run of its own: the exit of `operateOrdered` replaces the status of an operation that failed by
that of reading the metadata (`OrderedExit`);
`getMany`, the direct way, releases on its exits the last key it looked at, which the array of the
script still has (`ReleasesKey`).

### Fairness

Safety needs none. `ShutdownReleases` assumes weak fairness of the destruction of entries: `zend_hash_clean` is a loop
that runs to its end. `StreamReturns` assumes that each worker is scheduled, that a node goes on
streaming or fails (the C client has a socket timeout), that the method returns when its workers have, and that a function of the script
returns; it does not assume that a mutex is handed over fairly.

## 5. What is proved

For all values of the constants, from the named assumptions of the modules (`StoreAssumption`: configs have the
shape the config parser makes, a save path has hosts and no shared memory; `StreamAssumption`: finitely many workers, at least one;
`OperateAssumption`: finitely many processes, lists and options of the shape the arrays can have;
`CallAssumption` and `EntryAssumption`: methods are sequences of the steps above, one that asks the server looks at the
connection first, one that closes runs nothing of the script; `MethodsAssumption`: the methods are those of the table;
`BatchAssumption`: each key has a name, the lists are of keys, no record is none of the contents).

* **Types** (`SharingProofs!TypeCorrect`). `TypeOK` is inductive. Its content is that `ref_count` and
  `ref_hosts_entry` stay natural numbers although three places decrement them.
* **Sharing** (`SharingProofs`). `NoDangling` is not inductive: freeing an owned ref is safe only because no entry and no other
  handle has it (`OwnedOrShared`), freeing at the last entry only because the counter is not below the
  number of entries (`EntriesCounted`) and no handle is alive at shutdown (`DeadLetGo`), and a collected ref
  was closed only because an uncounted owned ref has no cluster (`UncountedClosed`). `SharingInv` is the
  conjunction. The theorem `Sharing` proves it action by action; `NothingDangles`, `OwnershipKept`,
  `EntriesAreCounted` and `FreedRefsAreClosed` are its consequences.
* **Shared memory** (`SharingProofs!KeysAreDistinct`, `SharingProofs!SegmentsAreApart`). `ShmKeysDistinct` is inductive with the types, because the generator passes
  over every key in use. `SegmentsApart` needs that a connected cluster's segment is the key listed
  for the list of hosts it was reached through, and that this list never changes.
* **Refinement** (`StoreRefinementProofs`). `StoreImplementsSharing` proves that each step of the store is a step of `SharedClusters`
  or a stutter, from `SharingInv`: that a ref which is allocated anew was named by nobody is `NoDangling`, that an owned ref is
  a private handle is `UncountedClosed`, that the entry which takes the ref along was the last is `EntriesCounted`. `SharedStays`
  proves `SharedConnectionStays` from the same invariant: only an owned ref is ever closed, and no alias names one.
* **Streams** (`RecordStreamProofs`). The invariant says that a worker past the lock holds the mutex or is below a function that does, that `fci`
  points to the worker in the function, that a nested stream has a caller inside its function, and that
  its workers never get past the lock. `InterpreterAlone`, `AnswersAreOwn` and `NestedStreamsBlock` follow, for any
  number of workers and any depth. `HaltedByFalse` and `FewLate` are about the halt. The bound of `FewAfterHalt` is not inductive; what is, is that after the halt
  the calls made since and the records still with a worker are together fewer than the workers (`LateWerePending`): a call takes one such record, and
  no new one is delivered.
* **Operate** (`RecordOperateProofs`). `OperateIsAtomic`, `OrderedIsPrefix`, and, stated with their proofs, `OperateTells` and `GenerationWritesOnce` follow from
  one invariant, `LogInv`, that relates the log, the requests on their way and the place of each call: of each call the log holds
  the operations up to where it is that do something (`Upto`, `WorkOf`), and nothing else but by a retry; a request on its way continues there, and without a retry is the only one of its call (`OnItsWay`), so that one
  that is late or given up is applied at the right place or never; without a retry a call that collects or is about to send has none (`At`, `Alone`), nor has one that
  `operate` has reported done (`Settled`), so that what it told stays true. With a retry the log may hold a portion twice, and what remains true is what `OrderedIsPrefix`
  and `OperateTells` say without the condition. `ResultsInOrder` needs that the entries of a call are below the static, rise with the operations but for a double left bare, and are
  of operations before the one it is at (`ResultsAt`). The theorems are `OperateAtomic`, `OrderedPrefix`, `OperateTellsTheTruth`, `GenerationWrites` and `ResultsKeepOrder`.
  `OperateImplementsLog` is the refinement `ImplementsLog`: `Apply` is `Perform`, because a request on its way continues where the log has come to
  (`OnItsWay`) and its call has not returned without an error; the latter is the second part of `DoneInv`, whose first part is that a call
  at its exit without an error has no request on its way but by a retry, that its results are only of what is in the log or does nothing (`Truly`), and that
  `operateOrdered` has one for each answer it has had without an error (`Follows`). It is the reason for which the error, and not the status, is what
  tells a script that nothing more will happen.
* **Calls** (`MethodCallsProofs`). For any methods made of the steps: the invariant says that the numbers of the calls
  on the stack rise (`CallsNested`), that the cluster of a connected object is open (`ConnectedIsOpen`), that a call that is past its first step entered when the
  cluster was open or was closed since (`EnteredOpen`), and `ClosedInside`. `OnlyInsideClosed` is the property
  `ClosedOnlyInside`; `ErrorIsOwn` is `ErrorOfLastCall`: what `Return` writes is written in the same step as what is shown, and no inner call
  comes between; `OptionsEnd` is `OptionsEndWithCall`. TLC evaluates both assumptions for the methods of `ClientMethods`, so the theorems hold of them.
* **Methods** (`ClientMethodsProofs`). What the methods tell, for any objects, options, number of calls and depth. The
  argument has two halves. First, for any methods: a rule on the steps of a method and, for each call, what the rule makes of it at the step it is at. `Tells`: each
  step that can fail says so and ends the method, or leaves an error which a test further on finds, with nothing but
  checks between (`Watched`): neither a request nor the conversion of a value, which reset it. `Loud`: who sets the error sets the status, or is followed by a request, which sets both. `Explained`: who sets the
  status sets the error and ends, or a request comes before anything else ends the method (`Settled`). `WritesLast`: from
  the first write on nothing refuses. `JobHandedOut`: after the start of a job all ways out report, and the last step hands out
  its id (`HandsOut`). `CallsReport`, that all calls on the stack and the last one that returned are as their rules have it, is inductive with the types
  (`CallSteps` reduces every action to a step that succeeds or breaks). Here `PolicyTakesAll` and `PolicyQuits` are needed: but for the loop of
  PHP 7 and its jump at a missing generation `set_policy` takes all options it does not refuse. Second, for the table: `TableObeys` proves from the definitions of
  the methods, step by step, that each obeys the rules, but those it is named for in `GoOn`, `PolicyFree`, `Careless`,
  `OnlyError` and `OnlyStatus` (`Broken`). `FailuresAreTold`, `StatusAgrees`, `RefusedUnwritten` and `JobsAreKnown` are `FailureIsTold`, `StatusMeansError`,
  `RefusalWritesNothing` and `JobIsKnown`. Whoever adds a method adds it to the table, and to a family of `TableObeys`.
* **Sessions** (`SessionProofs`). For any number of requests. A change that the server took is in the record or lost with a cause (`TakenIsKept`). A write replaces the whole record,
  so this needs that each request about to write holds the change, missed it, or has not read (`WritesKnown`), and that a
  write is taken once (`TakenOnce`): the mutant, a retry that is taken twice, breaks it there. `FromWrites` says that what a session holds was taken or is its own. `SavedStays` and `RemovedIsGone` are `SavedIsKept` and `RemovedStaysAway`; the latter needs `RemovedUnknown`, that
  a request which is not stale holds nothing of what was removed.
* **Batches** (`BatchReadProofs`). Each step empties the result, files one entry, passes over one, or leaves the result and what
  it is judged by alone (`StepKinds`); each invariant about the entries is proved over these kinds. `OkIsWhole` is not
  inductive: it needs that while results are taken there is an error exactly if one that was taken did not convert, and that a call that
  had one does not end with OK (`ErrorTells`), that the released entries are those from that result on (`FreedFromFailure`), that `getMany` returns OK only after the last result (`InPlace`), and where each result was filed
  (`EachFiled` for the index way, `LastOfName` for the direct way, `OfTaken` for both). `TellsWhatWas` needs that what a node read is what the record held then
  (`AnswersSeen`, `SeenNow`). `BatchInv` is the conjunction (`BatchHolds`). The theorems are `BatchTypes`, `GetManyIsWhole`, `NamesShareEntries` (`LastOfName`),
  `EntriesTellWhatWas`, `FreedAfterFailure` and `ErrorKept`; `FreedFromFailure` and the action property `ErrorStays` are stated with
  their proofs, the latter from `ErrorTells`.

Only model-checked: liveness (`ShutdownReleases`, `StreamReturns`), which is out of the prover's reach, and all of `Conversion`, whose
definitions are recursive.

## 6. What is not modelled

* The C client and the server, beyond what the code relies on; wire formats; PHP's own memory management apart
  from when an object is collected. In a build with ZTS the globals are per thread while three static
  variables are per process: the models take a process with one PHP thread.
* The parser of the config and of `aerospike.ini`: the models start from what it leaves. Wording of errors and log messages.
* The bins of the simple record methods and the operands of the list methods; the predicates of a query and the
  arguments of a function on the server, value by value; users, roles
  and indexes, which only the server keeps.
* `__construct` and `reconnect` inside another call: the store runs one method at a time, `MethodCalls` starts from
  constructed objects.
* Failures of the functions of the interpreter that add to an array, which the batch functions look at: they do not fail for the arrays the code makes.
* Doubles and GeoJSON inside lists and maps that other clients wrote: the code reads them as bytes, and a put never makes them.
* A record that does not convert is passed over by a stream and the status is OK (`PassOver`), although
  doc/aerospike_query.md:14 has the function invoked on each record; the model has it, and no property is stated about it.
* The PHP library (`LDT`, `Bytes.php`, `GeoJSON`): wrappers over methods that are modelled.
