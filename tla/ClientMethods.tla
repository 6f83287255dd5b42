----------------------------- MODULE ClientMethods -----------------------------
(***************************************************************************)
(* The methods of the Aerospike class as sequences of steps of MethodCalls. *)
(*                                                                         *)
(* A definition per method, and per function a method calls with the        *)
(* as_error of the call.  Checks that follow each other and fail alike are   *)
(* one step.  What no state of the program reaches is left out: the test of  *)
(* the object a method is called on, of memory, of results of the zend API.  *)
(***************************************************************************)
EXTENDS MethodCalls

Base == [kind |-> "check", how |-> "none", status |-> "kept", error |-> "kept",
         ends |-> TRUE, script |-> FALSE, policy |-> TRUE, unset |-> FALSE]

\* A check that fails with these codes, the error in the as_error only, a check that
\* fails without ending the method.
Fails(status, error) == [Base EXCEPT !.status = status, !.error = error]
Both(code)      == Fails(code, code)
ErrorOnly(code) == Fails("kept", code)
GoesOn(step)    == [step EXCEPT !.ends = FALSE]

\* Serializers and deserializers the script registered, callbacks of a stream.
Scripted(step) == [step EXCEPT !.script = TRUE]

Args    == Both("PARAM")
Noted   == GoesOn(Args)
Convert == Scripted(Both("CLIENT"))
EndsOnError(status, error) == [Fails(status, error) EXCEPT !.kind = "clean"]

\* set_policy, in functions that return the code of the error, and in those that
\* return a status of their own.
PolicyOf(use)    == [Args EXCEPT !.kind = "policy", !.how = use]
PolicyQuiet(use) == [PolicyOf(use) EXCEPT !.status = "kept"]

Ask(how)     == [Both("SERVER") EXCEPT !.kind = "request", !.how = how]
Fetch        == Ask("read")
Store        == Ask("write")
NoPolicy(r)  == [r EXCEPT !.policy = FALSE]
Deliver      == [Base EXCEPT !.kind = "output"]
Unpack(status, error) == Scripted([Fails(status, error) EXCEPT !.kind = "output"])

\* CHECK_CONNECTED.
Enter == <<[Both("CLUSTER") EXCEPT !.kind = "connected"]>>

\* aerospike_transform_iterate_for_rec_key_params fails with CLIENT or PARAM, which
\* some methods return and most replace.
Key         == <<Args>>
KeyReturned == <<Fails("CLIENT", "PARAM"), Args>>
KeyTold     == <<Both("CLIENT"), Args>>

-----------------------------------------------------------------------------
(* Records.                                                                *)

\* Mutant: a value that cannot be converted is left out of the record.
KeyDataPutUnheeded ==
    <<Args, PolicyOf("put"), Args, GoesOn(Scripted(ErrorOnly("CLIENT"))), Store>>

KeyDataPut == <<Args, PolicyOf("put"), Args, Convert, Scripted(Args), Store>>
Put == Enter \o <<Args>> \o Key \o KeyDataPut

\* Mutant: refused options are in the error only.
GetRecordQuiet == <<PolicyQuiet("get"), Fetch>>

GetRecord == <<PolicyOf("get"), Fetch>>
GetRecordBins == <<PolicyOf("get"), Fails("PARAM", "kept"), Fetch>>
Get     == Enter \o <<Args>> \o Key \o GetRecord \o <<Unpack("SERVER", "CLIENT")>>
GetBins == Enter \o <<Args>> \o Key \o GetRecordBins \o <<Unpack("SERVER", "CLIENT")>>

Exists == <<PolicyOf("get"), Fetch>>
ExistsMetadata == <<Args>> \o KeyTold \o Exists
ExistsRecord == Enter \o <<Args>> \o ExistsMetadata
GetMetadata  == Enter \o <<Args>> \o ExistsMetadata

RemoveRecord == <<PolicyOf("remove"), Args, Store>>
Remove == Enter \o <<Args>> \o KeyReturned \o RemoveRecord

Initialization == <<PolicyOf("operate")>>

\* Mutant: the TTL of the options is looked at last.
GeneralTtlLast == <<Args>> \o Initialization \o <<Both("CLIENT"), Store, Args>>

General == <<Args>> \o Initialization \o <<Both("CLIENT"), Args, Store>>
AppendTo  == Enter \o <<Args>> \o Key \o General
PrependTo == Enter \o <<Args>> \o Key \o General
Touch     == Enter \o <<Args>> \o Key \o General
\* An offset that is neither number nor string is 0.
Increment == Enter \o <<Args>> \o Key \o <<Args, GoesOn(Base)>> \o General

\* The error of the generation, or of the TTL, is in the as_error only; the put has
\* no policy.
RemoveBinInner ==
    <<PolicyOf("write"), Fails("CLIENT", "kept"), ErrorOnly("PARAM"), NoPolicy(Store)>>

\* removeBin says SERVER for every status its function fails with.
RemoveBin ==
    Enter \o <<Args>> \o KeyReturned \o
    [i \in DOMAIN RemoveBinInner |->
        IF RemoveBinInner[i].status = "kept" THEN RemoveBinInner[i]
        ELSE [RemoveBinInner[i] EXCEPT !.error = "SERVER"]]

-----------------------------------------------------------------------------
(* Lists.                                                                  *)

\* has_cdt_list asks any node for its features, and looks for that of lists.  It
\* passes no policy, but none has been made yet that could be lost.
HasCdtList ==
    <<[Fetch EXCEPT !.status = "kept", !.error = "UNSUPPORTED"], ErrorOnly("UNSUPPORTED")>>

\* The outcome of set_policy is not looked at.
ListCall == Enter \o HasCdtList \o <<Args, GoesOn(PolicyQuiet("list"))>> \o Key

\* The value: an error becomes the status.  That of refused options is there only if
\* the value is an array without elements.
ConvertValue == [GoesOn(Scripted(ErrorOnly("CLIENT"))) EXCEPT !.kind = "value"]
ListValue == <<ConvertValue, EndsOnError("same", "PARAM")>>
\* The values: an error keeps the request from being sent.
ListValues == <<ConvertValue, EndsOnError("kept", "kept")>>

\* Mutant: get_options_ttl_value returns OK unless the TTL is wrong.
TtlAlone == <<ErrorOnly("PARAM")>>

\* get_options_ttl_value returns the code of the as_error, of whatever step.
Ttl == <<EndsOnError("kept", "kept"), ErrorOnly("PARAM")>>

ListAppend == ListCall \o ListValue \o Ttl \o <<Store>>
ListInsert == ListCall \o ListValue \o Ttl \o <<Store>>
ListSet    == ListCall \o ListValue \o Ttl \o <<Store>>
ListMerge  == ListCall \o ListValues \o Ttl \o <<Store>>
ListInsertItems == ListCall \o ListValues \o Ttl \o <<Store>>
ListClear  == ListCall \o Ttl \o <<Store>>
ListTrim   == ListCall \o Ttl \o <<Store>>
ListRemove == ListCall \o Ttl \o <<Store>>
ListRemoveRange == ListCall \o Ttl \o <<Store>>
ListSize   == ListCall \o <<Fetch, Deliver>>
ListGet    == ListCall \o <<Fetch, Unpack("kept", "CLIENT")>>
ListGetRange == ListCall \o <<Fetch, Unpack("kept", "CLIENT")>>
ListPop    == ListCall \o Ttl \o <<Store, Unpack("kept", "CLIENT")>>
ListPopRange == ListCall \o Ttl \o <<Store, Unpack("kept", "CLIENT")>>

-----------------------------------------------------------------------------
(* Batches.                                                                *)

\* aerospike_batch_operations_exists_many returns the status of the request.  The other
\* way destroys records that are not there yet when the options are refused.
ExistsManyDirect == <<PolicyQuiet("batch"), ErrorOnly("PARAM"), Fetch, Deliver>>
ExistsManyIndex  == <<[PolicyOf("batch") EXCEPT !.unset = TRUE], Args, Fetch, Deliver>>
ExistsMany  == Enter \o <<Args>> \o ExistsManyIndex
ExistsManyBatchDirect == Enter \o <<Args>> \o ExistsManyDirect

\* The direct way of getMany releases NULL when the options are refused.  The outcome of
\* process_filer_bins is not looked at: from the first name of a bin that is no string
\* on, the request is sent with names that were never set.
FilterBins == [GoesOn(Base) EXCEPT !.unset = TRUE]
GetManyDirect == <<[PolicyOf("batch") EXCEPT !.unset = TRUE], Args, FilterBins,
                   Fetch, Unpack("SERVER", "SERVER")>>
GetManyIndex  == <<[PolicyOf("batch") EXCEPT !.unset = TRUE], Args, FilterBins,
                   [Fetch EXCEPT !.status = "PARAM", !.error = "PARAM"],
                   Unpack("PARAM", "PARAM")>>
GetMany  == Enter \o <<Args>> \o GetManyIndex
GetManyBatchDirect == Enter \o <<Args>> \o GetManyDirect

-----------------------------------------------------------------------------
(* Streams and jobs.                                                       *)

\* aerospike_query_define.
Define == <<Args>>

\* Without bins the request has no policy.
ScanRun     == <<PolicyOf("scan"), Scripted(NoPolicy(Fetch))>>
ScanRunBins == <<PolicyOf("scan"), Scripted(Fetch)>>
Scan     == Enter \o <<Args>> \o ScanRun
ScanBins == Enter \o <<Args>> \o ScanRunBins

QueryRun     == <<PolicyOf("query")>> \o Define \o <<Scripted(NoPolicy(Fetch))>>
QueryRunBins == <<PolicyOf("query")>> \o Define \o <<Both("CLIENT"), Scripted(Fetch)>>
Query     == Enter \o <<Args>> \o QueryRun
QueryBins == Enter \o <<Args>> \o QueryRunBins

AggregateRun ==
    <<PolicyOf("aggregate"), Convert>> \o Define \o
    <<Both("CLIENT"), Scripted(Fetch), Unpack("CLIENT", "CLIENT")>>
Aggregate == Enter \o <<Args>> \o AggregateRun

\* Mutant: a wait that fails is not the failure of the method.
WaitUnheeded ==
    <<PolicyOf("info"), [Ask("wait") EXCEPT !.status = "kept", !.error = "kept"]>>

\* The wait for a job takes its policy from the same options.
WaitFor == <<PolicyOf("info"), Ask("wait")>>

ScanBackground ==
    <<Convert, PolicyOf("scan"), Both("CLIENT"), Ask("job")>> \o WaitFor \o <<Deliver>>
QueryBackground ==
    <<Convert>> \o Define \o <<PolicyOf("write"), Both("CLIENT"), Ask("job")>>
    \o WaitFor \o <<Deliver>>
ScanApply  == Enter \o <<Args>> \o ScanBackground
QueryApply == Enter \o <<Args>> \o QueryBackground

InfoRequest == <<PolicyOf("info"), Fetch>>
ScanGetInfo  == InfoRequest \o <<Deliver>>
QueryJobInfo == InfoRequest \o <<Deliver>>
ScanInfo == Enter \o <<Args>> \o ScanGetInfo
JobInfo  == Enter \o <<Args>> \o QueryJobInfo

-----------------------------------------------------------------------------
(* Functions and indexes of the server.                                    *)

UdfRegister == <<PolicyOf("info"), Both("NOT_FOUND"), Both("CLIENT"), Store, Ask("wait")>>
UdfDeregister == <<PolicyOf("info"), NoPolicy(Store)>>
\* Arguments that cannot be converted are left out.
UdfApply ==
    <<PolicyOf("apply"), GoesOn(Scripted(ErrorOnly("CLIENT"))), Store,
      Unpack("CLIENT", "CLIENT")>>
UdfList == InfoRequest \o <<Deliver>>
UdfGet  == InfoRequest \o <<Deliver>>

Register      == Enter \o <<Args, Noted, Args>> \o UdfRegister
Deregister    == Enter \o <<Args, Noted, Args>> \o UdfDeregister
Apply         == Enter \o <<Args>> \o Key \o UdfApply
ListRegistered == Enter \o <<Args, Noted>> \o UdfList
GetRegistered == Enter \o <<Args, Noted, Args>> \o UdfGet

\* Both return a status that set_policy does not write.
IndexCreate == <<PolicyQuiet("info"), Store, Ask("wait")>>
IndexRemove == <<PolicyQuiet("info"), Store>>
AddIndex  == Enter \o <<Args, Noted>> \o IndexCreate
DropIndex == Enter \o <<Args, Noted>> \o IndexRemove

-----------------------------------------------------------------------------
(* The cluster.                                                            *)

\* The nodes are released also when they have not been reserved.
ClusterNodes ==
    <<[Fetch EXCEPT !.unset = TRUE], [Both("CLIENT") EXCEPT !.unset = TRUE],
      Both("CLIENT"), Deliver>>
GetNodes == Enter \o ClusterNodes

SpecificHost == <<PolicyQuiet("info"), ErrorOnly("PARAM"), Fetch, Deliver>>
Info == Enter \o <<Args>> \o SpecificHost

RequestMultiple == <<PolicyOf("info"), Both("CLIENT"), Args, Fetch, Deliver>>
InfoMany == Enter \o <<ErrorOnly("PARAM")>> \o RequestMultiple

-----------------------------------------------------------------------------
(* Users and roles.                                                        *)

ConvertRoles      == Args
ConvertPrivileges == Args
UserOut  == Unpack("CLIENT", "CLIENT")
RoleOut  == Unpack("CLIENT", "CLIENT")

AdminCall == Enter \o <<Args>>
Admin     == PolicyOf("admin")

CreateUserOp      == <<Admin, ConvertRoles, Store>>
DropUserOp        == <<Admin, Store>>
ChangePasswordOp  == <<Admin, Store>>
SetPasswordOp     == <<Admin, Store>>
GrantRolesOp      == <<Admin, ConvertRoles, Store>>
RevokeRolesOp     == <<Admin, ConvertRoles, Store>>
QueryUserOp       == <<Admin, Fetch, UserOut>>
QueryUsersOp      == <<Admin, Fetch, UserOut>>
CreateRoleOp      == <<Admin, ConvertPrivileges, Store>>
DropRoleOp        == <<Admin, Store>>
GrantPrivilegesOp == <<Admin, ConvertPrivileges, Store>>
RevokePrivilegesOp == <<Admin, ConvertPrivileges, Store>>
QueryRoleOp       == <<Admin, Fetch, RoleOut>>
QueryRolesOp      == <<Admin, Fetch, RoleOut>>

CreateUser      == AdminCall \o CreateUserOp
DropUser        == AdminCall \o DropUserOp
ChangePassword  == AdminCall \o ChangePasswordOp
SetPassword     == AdminCall \o SetPasswordOp
GrantRoles      == AdminCall \o GrantRolesOp
RevokeRoles     == AdminCall \o RevokeRolesOp
QueryUser       == AdminCall \o QueryUserOp
QueryUsers      == AdminCall \o QueryUsersOp
CreateRole      == AdminCall \o CreateRoleOp
DropRole        == AdminCall \o DropRoleOp
GrantPrivileges == AdminCall \o GrantPrivilegesOp
RevokePrivileges == AdminCall \o RevokePrivilegesOp
QueryRole       == AdminCall \o QueryRoleOp
QueryRoles      == AdminCall \o QueryRolesOp

-----------------------------------------------------------------------------
(* The object itself.                                                      *)

Close == <<[Both("CLIENT") EXCEPT !.kind = "connected"], [Both("CLIENT") EXCEPT !.kind = "close"]>>
Destruct    == <<>>
IsConnected == <<[Base EXCEPT !.kind = "probe"]>>
SetLogLevel == Enter \o <<Args>>
SetLogHandler == <<[Fails("PARAM", "kept") EXCEPT !.kind = "handler"]>>
InitKey      == <<Fails("PARAM", "kept")>>
GetKeyDigest == <<Fails("PARAM", "kept")>>

\* aerospike_class_functions.
MethodTable ==
    [__destruct |-> Destruct, close |-> Close, isConnected |-> IsConnected, getNodes |-> GetNodes, info |-> Info,
     infoMany |-> InfoMany, put |-> Put, get |-> Get, getBins |-> GetBins,
     exists |-> ExistsRecord, getMetadata |-> GetMetadata, remove |-> Remove,
     removeBin |-> RemoveBin, append |-> AppendTo, prepend |-> PrependTo,
     touch |-> Touch, increment |-> Increment, listAppend |-> ListAppend,
     listInsert |-> ListInsert, listSet |-> ListSet, listMerge |-> ListMerge,
     listInsertItems |-> ListInsertItems, listClear |-> ListClear, listTrim |-> ListTrim,
     listRemove |-> ListRemove, listRemoveRange |-> ListRemoveRange, listSize |-> ListSize,
     listGet |-> ListGet, listGetRange |-> ListGetRange, listPop |-> ListPop,
     listPopRange |-> ListPopRange, existsMany |-> ExistsMany,
     existsManyDirect |-> ExistsManyBatchDirect, getMany |-> GetMany,
     getManyDirect |-> GetManyBatchDirect, scan |-> Scan, scanBins |-> ScanBins,
     query |-> Query, queryBins |-> QueryBins, aggregate |-> Aggregate,
     scanApply |-> ScanApply, queryApply |-> QueryApply, scanInfo |-> ScanInfo,
     jobInfo |-> JobInfo, register |-> Register, deregister |-> Deregister,
     apply |-> Apply, listRegistered |-> ListRegistered, getRegistered |-> GetRegistered,
     addIndex |-> AddIndex, dropIndex |-> DropIndex, createUser |-> CreateUser,
     dropUser |-> DropUser, changePassword |-> ChangePassword, setPassword |-> SetPassword,
     grantRoles |-> GrantRoles, revokeRoles |-> RevokeRoles, queryUser |-> QueryUser,
     queryUsers |-> QueryUsers, createRole |-> CreateRole, dropRole |-> DropRole,
     grantPrivileges |-> GrantPrivileges, revokePrivileges |-> RevokePrivileges,
     queryRole |-> QueryRole, queryRoles |-> QueryRoles, setLogLevel |-> SetLogLevel,
     setLogHandler |-> SetLogHandler, initKey |-> InitKey, getKeyDigest |-> GetKeyDigest]

FinishOf(m) ==
    CASE m = "__destruct" -> "stale"
      [] m = "close" -> "close"
      [] m \in {"isConnected", "setLogHandler", "initKey", "getKeyDigest"} -> "none"
      [] m \in {"exists", "getMetadata", "setLogLevel"} -> "reset"
      [] OTHER -> "set"

\* The class has these methods.
ASSUME MethodsAssumption ==
    Method = DOMAIN MethodTable /\ Code = MethodTable /\ Finish = [m \in Method |-> FinishOf(m)]

-----------------------------------------------------------------------------
(* What the methods tell.                                                  *)

\* Methods that go on after a wrong argument; that send their request without the
\* policy the options made; that pass over options they refused, because the request
\* or the conversion of a value resets the as_error.
GoOn      == {"register", "deregister", "listRegistered", "getRegistered", "addIndex",
              "dropIndex", "apply", "increment", "getMany", "getManyDirect"}
PolicyFree == {"scan", "query", "removeBin", "deregister"}
Careless  == {"listAppend", "listInsert", "listSet", "listMerge", "listInsertItems",
              "listSize", "listGet", "listGetRange"}

\* What a method did not do for its caller it tells, in the status or in the error:
\* arguments and options it refused, options it did not use, requests that got no
\* answer, answers it could not convert.  Those named above do not; with PHP 7 all options
\* but the last, and an OPT_POLICY_GEN without a generation, are lost in every method.
FailureIsTold ==
    /\ returned # NoCall /\ returned.lost
    /\ returned.method \notin GoOn \cup PolicyFree \cup Careless
    /\ \/ build = "php5"
       \/ Len(returned.opts) <= 1 /\ "EMPTY_GEN" \notin KeysOf(returned.opts)
    => returned.status # "OK" \/ returned.error # "OK"

\* Methods with an error that is only in the object, or only in the status.
OnlyError  == {"addIndex", "dropIndex", "info", "infoMany", "existsManyDirect", "removeBin",
               "listClear", "listTrim", "listRemove", "listRemoveRange", "listPop",
               "listPopRange"} \cup Careless
OnlyStatus == {"getBins", "initKey", "getKeyDigest", "setLogHandler"}

\* The status a method returns and the error it leaves agree
\* (doc/aerospike_errorno.md): one is OK if the other is.
StatusMeansError ==
    returned # NoCall =>
        /\ returned.status = "OK" /\ returned.method \notin OnlyError => returned.error = "OK"
        /\ returned.error = "OK" /\ returned.method \notin OnlyStatus => returned.status = "OK"

\* A call that is refused for its arguments or its options has changed nothing on
\* the server.  queryApply and scanApply make a second policy of their options when
\* the job is under way.
RefusalWritesNothing ==
    /\ returned # NoCall /\ returned.method \notin {"queryApply", "scanApply"}
    /\ returned.status = "PARAM" \/ returned.error = "PARAM"
    => ~returned.written /\ ~returned.job

\* A job the script does not know of is never the outcome of a call that succeeded:
\* the wait for it failed, or its start (aerospike_query.c:530).
JobIsKnown ==
    returned # NoCall /\ returned.job /\ ~returned.known =>
        returned.status # "OK" /\ returned.error # "OK"
===============================================================================
