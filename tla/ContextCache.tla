---------------------------- MODULE ContextCache ----------------------------
(***************************************************************************)
(* One PostgreSQL backend's cache of JavaScript contexts and FDW class     *)
(* instances (fdw.c, pljs_fdw_get_or_create_instance and the cache under   *)
(* it), together with what the cache depends on: the option catalogs, the  *)
(* backend's syscaches and their invalidation messages, and the rows of    *)
(* pljs.modules.                                                           *)
(*                                                                         *)
(* A call of pljs_fdw_get_or_create_instance is a frame that goes through  *)
(* the phases "lookup", "require", "construct" and "return".  Loading the  *)
(* module and running its constructor execute arbitrary JavaScript, which  *)
(* may run SQL that reaches pljs_fdw_get_or_create_instance again: frames  *)
(* form a stack of at most MaxDepth calls.                                 *)
(***************************************************************************)
EXTENDS FdwOptions, Naturals

CONSTANTS
    Tables,         \* foreign tables of the server
    Contexts,       \* addresses JS_NewContext may return
    Sources,        \* contents of a module's source column
    Tids,           \* item pointers of pljs.modules
    NoEntry, NoRow, NoTxn, NoFrame, NoTid, NoSource,
    MappingInputs,  \* option lists given to CREATE/ALTER USER MAPPING
    MaxDepth,       \* bound: calls of get_or_create_instance on the stack
    MaxDDL,         \* bound: option changes
    MaxXid,         \* bound: transactions that write pljs.modules
    AllowFreeze,    \* may VACUUM freeze rows of pljs.modules?
    AllowCancel     \* may PostgreSQL raise an ERROR (e.g. a query cancel)
                    \* inside the catalog lookups that follow the module load?

Paths == OptionValues \ {EmptyString}
Keys  == Users \X Tables

InvalidXid == 0     \* InvalidTransactionId
FrozenXid  == 1     \* FrozenTransactionId, what GetXmin says of a frozen row
FirstXid   == 2     \* the transaction that wrote the initial rows

Row         == [xmin : Nat, tid : Tids, source : Sources]
ModuleTable == [Paths -> Row \cup {NoRow}]

\* pljs_fdw_context_cache_value: ctx stands for the ctx/instance pair.  source
\* and options record what the instance was built from; no code reads them.
Entry == [ctx : Contexts, path : Paths, xmin : Nat, tid : Tids \cup {NoTid},
          source : Sources \cup {NoSource}, options : OptionList]

\* The local state of a call: it has an entry once it has found or begun one.
FrameOf(phases, entries) ==
    [phase : phases, user : Users, table : Tables, snap : ModuleTable,
     srv : ServerOptions, tab : TableOptions, entry : entries]

Frame == FrameOf({"lookup"}, {NoEntry})
         \cup FrameOf({"require", "construct", "return"}, Entry)

Catalog == [srv : ServerOptions, tab : [Tables -> TableOptions],
            um : [Users \cup {Public} -> MappingOptions \cup {NoMapping}]]

Transaction == [undo : ModuleTable, burned : SUBSET Tids]

ASSUME CacheAssumption ==
    /\ MaxDepth \in Nat \ {0}
    /\ MaxDDL \in Nat
    /\ MaxXid \in Nat
    /\ AllowFreeze \in BOOLEAN
    /\ AllowCancel \in BOOLEAN
    /\ MappingInputs \subseteq OptionList
    /\ NoEntry \notin Entry
    /\ NoRow \notin Row
    /\ NoTxn \notin Transaction
    /\ NoFrame \notin Frame
    /\ NoSource \notin Sources
    /\ NoTid \notin Tids

VARIABLES
    catalog,    \* options in the system catalogs, as committed
    syscache,   \* options as this backend's syscaches remember them
    unread,     \* syscaches with invalidation messages not yet accepted
    pending,    \* pljs_fdw_cache_invalidation_pending
    ddl,        \* number of option changes so far
    modules,    \* rows of pljs.modules this backend sees
    txn,        \* this backend's open transaction that writes pljs.modules
    xid,        \* last transaction id given to a writer
    cache,      \* pljs_fdw_context_HashTable
    live,       \* JSContexts allocated and not freed
    depth,      \* calls of get_or_create_instance on the stack
    frame       \* their local state

catalogVars == <<catalog, syscache, unread, ddl>>
moduleVars  == <<modules, txn, xid>>
callVars    == <<cache, live, depth, frame>>
vars        == <<catalogVars, pending, moduleVars, callVars>>

-----------------------------------------------------------------------------
(* Catalogs, syscaches and invalidation *)

\* The syscaches over pg_foreign_table, pg_foreign_server, pg_user_mapping.
Syscaches == {"FOREIGNTABLEREL", "FOREIGNSERVEROID", "USERMAPPINGUSERSERVER"}

\* A faulty variant: changes of user mappings are not noticed.
FaultyRegisteredSyscaches == {"FOREIGNTABLEREL", "FOREIGNSERVEROID"}

\* The syscaches pljs_fdw_module_init registers pljs_fdw_syscache_callback on.
RegisteredSyscaches ==
    {"FOREIGNTABLEREL", "FOREIGNSERVEROID", "USERMAPPINGUSERSERVER"}

\* An option change validated, committed and announced to every backend.
ChangeOptions(newCatalog, syscacheId) ==
    /\ ddl < MaxDDL
    /\ newCatalog # catalog
    /\ catalog' = newCatalog
    /\ unread' = unread \cup {syscacheId}
    /\ ddl' = ddl + 1
    /\ UNCHANGED <<syscache, pending, moduleVars, callVars>>

AlterServer(options) ==
    /\ pljs_fdw_validator(options, "ForeignServer")
    /\ ChangeOptions([catalog EXCEPT !.srv = options], "FOREIGNSERVEROID")

\* ALTER FOREIGN TABLE waits for the lock of statements that use the table.
AlterTable(t, options) ==
    /\ \A d \in 1..depth : frame[d].table # t
    /\ pljs_fdw_validator(options, "ForeignTable")
    /\ ChangeOptions([catalog EXCEPT !.tab[t] = options], "FOREIGNTABLEREL")

\* CREATE, ALTER and (options = NoMapping) DROP USER MAPPING.
AlterUserMapping(u, options) ==
    /\ options # NoMapping => pljs_fdw_validator(options, "UserMapping")
    /\ ChangeOptions([catalog EXCEPT !.um[u] = options],
                     "USERMAPPINGUSERSERVER")

pljs_fdw_syscache_callback(syscacheIds) ==
    pending' = (pending \/ syscacheIds \cap RegisteredSyscaches # {})

\* The backend accepts its queued messages: at a lock acquisition, at the
\* start of a transaction, or within SQL that the JavaScript code runs.
AcceptInvalidationMessages ==
    /\ unread # {}
    /\ pljs_fdw_syscache_callback(unread)
    /\ syscache' = catalog
    /\ unread' = {}
    /\ UNCHANGED <<catalog, ddl, moduleVars, callVars>>

-----------------------------------------------------------------------------
(* The rows of pljs.modules, under PostgreSQL's MVCC *)

BurnedTids == IF txn = NoTxn THEN {} ELSE txn.burned

TidsOf(table) == {table[p].tid : p \in {q \in Paths : table[q] # NoRow}}

\* Item pointers VACUUM may have made reusable: no visible, remembered or
\* uncommitted row version is stored there.
FreeTids ==
    Tids \ (BurnedTids \cup TidsOf(modules)
            \cup UNION {TidsOf(frame[d].snap) : d \in 1..depth}
            \cup (IF txn = NoTxn THEN {} ELSE TidsOf(txn.undo)))

WriterXid == IF txn = NoTxn THEN xid + 1 ELSE xid
UndoTable == IF txn = NoTxn THEN modules ELSE txn.undo

\* INSERT or UPDATE of a module's source: a new row version.
WriteModule(p, s) ==
    \E t \in FreeTids :
        /\ WriterXid <= MaxXid
        /\ modules' = [modules EXCEPT
                          ![p] = [xmin |-> WriterXid, tid |-> t, source |-> s]]
        /\ txn' = [undo |-> UndoTable, burned |-> BurnedTids \cup {t}]
        /\ xid' = WriterXid
        /\ UNCHANGED <<catalogVars, pending, callVars>>

DeleteModule(p) ==
    /\ WriterXid <= MaxXid
    /\ modules[p] # NoRow
    /\ modules' = [modules EXCEPT ![p] = NoRow]
    /\ txn' = [undo |-> UndoTable, burned |-> BurnedTids]
    /\ xid' = WriterXid
    /\ UNCHANGED <<catalogVars, pending, callVars>>

EndWriter(table) ==
    /\ txn # NoTxn
    /\ modules' = table
    /\ txn' = NoTxn
    /\ UNCHANGED <<xid, catalogVars, pending, callVars>>

CommitModules == EndWriter(modules)
AbortModules  == txn # NoTxn /\ EndWriter(txn.undo)

\* VACUUM FREEZE: HeapTupleHeaderGetXmin no longer tells the writer.
FreezeModules ==
    /\ AllowFreeze
    /\ txn = NoTxn
    /\ modules' = [p \in Paths |->
                      IF modules[p] = NoRow THEN NoRow
                      ELSE [modules[p] EXCEPT !.xmin = FrozenXid]]
    /\ modules' # modules
    /\ UNCHANGED <<txn, xid, catalogVars, pending, callVars>>

-----------------------------------------------------------------------------
(* The hash table *)

CachedContexts == {cache[k].ctx : k \in {j \in Keys : cache[j] # NoEntry}}

pljs_fdw_cache_find(user, table) == cache[<<user, table>>]

\* The row version of a module in the statement's snapshot, NoRow if none.
pljs_fdw_module_row_version(snap, path) == snap[path]

\* A faulty variant: ItemPointerEquals is left out.
FaultyRowVersionMatches(snap, entry) ==
    LET row == pljs_fdw_module_row_version(snap, entry.path)
    IN  row # NoRow /\ row.xmin = entry.xmin

\* Is the cached entry still the version of its module that snap shows?
RowVersionMatches(snap, entry) ==
    LET row == pljs_fdw_module_row_version(snap, entry.path)
    IN  /\ row # NoRow
        /\ row.xmin = entry.xmin
        /\ row.tid = entry.tid

\* Faulty variants: the contexts are freed and the table kept; the call returns
\* at once although a flush is pending.
FaultyFlushKeepsTable ==
    /\ pending' = FALSE
    /\ cache' = cache
    /\ live' = IF pending THEN live \ CachedContexts ELSE live

FaultyFlushForgotten == UNCHANGED <<pending, cache, live>>

\* With a flush pending every entry is cleaned up and the table recreated.
pljs_fdw_check_invalidation ==
    /\ pending' = FALSE
    /\ cache' = IF pending THEN [k \in Keys |-> NoEntry] ELSE cache
    /\ live' = IF pending THEN live \ CachedContexts ELSE live

-----------------------------------------------------------------------------
(* pljs_fdw_get_or_create_instance *)

top == frame[depth]

TopKey == <<top.user, top.table>>

InPhase(phase) == depth > 0 /\ top.phase = phase

\* JavaScript is running: in the caller, or in the call on top of the stack.
RunningJavaScript ==
    depth = 0 \/ InPhase("require") \/ InPhase("construct")

SetTop(f) == frame' = [frame EXCEPT ![depth] = f]

\* The call on top of the stack ends, by returning or by ereport(ERROR).
Pop ==
    /\ depth' = depth - 1
    /\ frame' = [frame EXCEPT ![depth] = NoFrame]

\* Entry: flush if an invalidation is pending.  The snapshot is the one the
\* calling statement runs with.
GetBegin(user, table) ==
    /\ RunningJavaScript
    /\ depth < MaxDepth
    /\ pljs_fdw_check_invalidation
    /\ depth' = depth + 1
    /\ frame' = [frame EXCEPT ![depth + 1] =
                    [phase |-> "lookup", user |-> user, table |-> table,
                     snap |-> modules, srv |-> NoOptions, tab |-> NoOptions,
                     entry |-> NoEntry]]
    /\ UNCHANGED <<catalogVars, moduleVars>>

\* The cached entry is current and is what the call returns.
GetHit ==
    /\ InPhase("lookup")
    /\ LET cached == pljs_fdw_cache_find(top.user, top.table)
       IN  /\ cached # NoEntry
           /\ RowVersionMatches(top.snap, cached)
           /\ SetTop([top EXCEPT !.phase = "return", !.entry = cached])
    /\ UNCHANGED <<catalogVars, pending, moduleVars, cache, live, depth>>

\* A faulty variant: the entry is cleaned up and left in the table.
FaultyCacheAfterEviction == cache

\* pljs_fdw_cache_remove of an entry whose module row has changed.
CacheAfterEviction == [cache EXCEPT ![TopKey] = NoEntry]
LiveAfterEviction ==
    IF cache[TopKey] = NoEntry THEN live ELSE live \ {cache[TopKey].ctx}

\* The call has a new context and is about to load the module.
StartedFrame(srv, tab, path, c) ==
    [top EXCEPT !.phase = "require", !.srv = srv, !.tab = tab,
                !.entry = [ctx |-> c, path |-> path, xmin |-> InvalidXid,
                           tid |-> NoTid, source |-> NoSource,
                           options |-> NoOptions]]

\* No current entry: evict a stale one, find the module, make a context.
\* A syscache lookup finds the remembered row or reads the catalog anew.
GetMiss ==
    /\ InPhase("lookup")
    /\ LET cached == pljs_fdw_cache_find(top.user, top.table)
       IN  cached # NoEntry => ~RowVersionMatches(top.snap, cached)
    /\ cache' = CacheAfterEviction
    /\ \E tableView, serverView \in {syscache, catalog} :
          LET srv  == serverView.srv
              tab  == tableView.tab[top.table]
              path == ModulePath(srv, tab)
          IN  IF path = NoValue
              THEN Pop /\ live' = LiveAfterEviction
              ELSE \E c \in Contexts \ LiveAfterEviction :
                      /\ live' = LiveAfterEviction \cup {c}
                      /\ SetTop(StartedFrame(srv, tab, path, c))
                      /\ UNCHANGED depth
    /\ UNCHANGED <<catalogVars, pending, moduleVars>>

\* The call has loaded the module from row and is about to construct the
\* instance with the merged options.
LoadedFrame(row, mappings) ==
    [top EXCEPT !.phase = "construct",
                !.entry = [@ EXCEPT
                    !.xmin = row.xmin, !.tid = row.tid, !.source = row.source,
                    !.options = pljs_fdw_build_options(
                        top.srv, UserMappingOptions(mappings, top.user),
                        top.tab)]]

\* The module loads; its row version is recorded, the user mapping read and
\* the options merged.
GetRequire ==
    /\ InPhase("require")
    /\ LET row == pljs_fdw_module_row_version(top.snap, top.entry.path)
       IN  /\ row # NoRow
           /\ \E view \in {syscache, catalog} :
                 SetTop(LoadedFrame(row, view.um))
    /\ UNCHANGED <<catalogVars, pending, moduleVars, cache, live, depth>>

\* A faulty variant: the ERROR is raised without JS_FreeContext.
FaultyGetFail ==
    /\ InPhase("require") \/ InPhase("construct")
    /\ Pop
    /\ UNCHANGED <<catalogVars, pending, moduleVars, cache, live>>

\* The module does not load or its constructor throws: the context is freed
\* and the ERROR raised.
GetFail ==
    /\ InPhase("require") \/ InPhase("construct")
    /\ live' = live \ {top.entry.ctx}
    /\ Pop
    /\ UNCHANGED <<catalogVars, pending, moduleVars, cache>>

\* PostgreSQL raises an ERROR inside pljs_fdw_module_row_version or the user
\* mapping lookups: nothing on that path frees the context.
GetCancelled ==
    /\ AllowCancel
    /\ InPhase("require")
    /\ top.snap[top.entry.path] # NoRow
    /\ Pop
    /\ UNCHANGED <<catalogVars, pending, moduleVars, cache, live>>

\* The constructor returns and pljs_fdw_cache_add stores the entry.
GetConstruct ==
    /\ InPhase("construct")
    /\ cache[TopKey] = NoEntry
    /\ cache' = [cache EXCEPT ![TopKey] = top.entry]
    /\ SetTop([top EXCEPT !.phase = "return"])
    /\ UNCHANGED <<catalogVars, pending, moduleVars, live, depth>>

\* pljs_fdw_cache_add finds an entry a nested call has stored: it raises an
\* ERROR with the context it was to take over.
GetConstructDuplicate ==
    /\ InPhase("construct")
    /\ cache[TopKey] # NoEntry
    /\ Pop
    /\ UNCHANGED <<catalogVars, pending, moduleVars, cache, live>>

\* The caller receives ctx and instance.
GetReturn ==
    /\ InPhase("return")
    /\ Pop
    /\ UNCHANGED <<catalogVars, pending, moduleVars, cache, live>>

-----------------------------------------------------------------------------

\* A backend that has just loaded the library, with a server that names a
\* module, unmapped roles and a row for each module.
Init ==
    /\ \E p \in Paths :
          catalog = [srv |-> [NoOptions EXCEPT !["module"] = p],
                     tab |-> [t \in Tables |-> NoOptions],
                     um  |-> [u \in Users \cup {Public} |-> NoMapping]]
    /\ syscache = catalog
    /\ unread = {}
    /\ pending = FALSE
    /\ ddl = 0
    /\ modules \in [Paths -> [xmin : {FirstXid}, tid : Tids, source : Sources]]
    /\ \A p, q \in Paths : p # q => modules[p].tid # modules[q].tid
    /\ txn = NoTxn
    /\ xid = FirstXid
    /\ cache = [k \in Keys |-> NoEntry]
    /\ live = {}
    /\ depth = 0
    /\ frame = [d \in 1..MaxDepth |-> NoFrame]

ChangeCatalog ==
    \/ \E options \in OptionList : AlterServer(options)
    \/ \E t \in Tables, options \in OptionList : AlterTable(t, options)
    \/ \E u \in Users \cup {Public}, options \in MappingInputs \cup {NoMapping} :
          AlterUserMapping(u, options)

ChangeModules ==
    \/ \E p \in Paths, s \in Sources : WriteModule(p, s)
    \/ \E p \in Paths : DeleteModule(p)
    \/ CommitModules
    \/ AbortModules
    \/ FreezeModules

\* A step of a call that is under way.
GetStep ==
    \/ GetHit
    \/ GetMiss
    \/ GetRequire
    \/ GetFail
    \/ GetCancelled
    \/ GetConstruct
    \/ GetConstructDuplicate
    \/ GetReturn

Next ==
    \/ ChangeCatalog
    \/ AcceptInvalidationMessages
    \/ ChangeModules
    \/ \E u \in Users, t \in Tables : GetBegin(u, t)
    \/ GetStep

Spec == Init /\ [][Next]_vars

-----------------------------------------------------------------------------
(* Properties *)

\* Every variable has its type: entries and frames are well formed, and no
\* frame is left above the top of the stack.
TypeOK ==
    /\ catalog \in Catalog
    /\ syscache \in Catalog
    /\ unread \in SUBSET Syscaches
    /\ pending \in BOOLEAN
    /\ ddl \in Nat
    /\ modules \in ModuleTable
    /\ txn \in Transaction \cup {NoTxn}
    /\ xid \in Nat
    /\ cache \in [Keys -> Entry \cup {NoEntry}]
    /\ live \in SUBSET Contexts
    /\ depth \in 0..MaxDepth
    /\ frame \in [1..MaxDepth -> Frame \cup {NoFrame}]
    /\ \A d \in 1..MaxDepth : d <= depth <=> frame[d] # NoFrame

\* The calls that hold a context they have not handed to the cache.
Building == {d \in 1..depth : frame[d].phase \in {"require", "construct"}}

BuildingContexts == {frame[d].entry.ctx : d \in Building}

\* No context is used after it was freed and none is freed twice: cached
\* entries and calls under construction hold allocated contexts, and no two
\* of them hold the same one, so a flush, an eviction and a failed build
\* (pljs_fdw_cleanup_context, JS_FreeContext) each free what they alone own.
ContextsExclusive ==
    /\ CachedContexts \cup BuildingContexts \subseteq live
    /\ CachedContexts \cap BuildingContexts = {}
    /\ \A j, k \in Keys :
          /\ j # k
          /\ cache[j] # NoEntry
          /\ cache[k] # NoEntry
          => cache[j].ctx # cache[k].ctx
    /\ \A c, d \in Building : c # d => frame[c].entry.ctx # frame[d].entry.ctx

\* No context leaks: every allocated context is owned by the cache or by a
\* call that is still building ("Ownership is transferred to the cache").
NoContextLeak == live \subseteq CachedContexts \cup BuildingContexts

InvalidationDue == pending \/ unread # {}

\* What an instance built from the committed catalogs would be given.
CurrentPath(k) == ModulePath(catalog.srv, catalog.tab[k[2]])
CurrentOptions(k) ==
    pljs_fdw_build_options(catalog.srv, UserMappingOptions(catalog.um, k[1]),
                           catalog.tab[k[2]])

Fresh(k) ==
    /\ cache[k].path = CurrentPath(k)
    /\ cache[k].options = CurrentOptions(k)

\* An entry built from options that have since been altered never escapes
\* the flush: as long as one is cached, an invalidation message is on its way
\* or pljs_fdw_cache_invalidation_pending is set.
StaleOptionsFlagged ==
    \A k \in Keys : cache[k] # NoEntry => InvalidationDue \/ Fresh(k)

\* A call that returns hands out the cached entry of its own (user, table),
\* built from the module source its statement's snapshot shows: the xmin/ctid
\* comparison detects every change of the module's row.
ReturnsCurrentSource ==
    InPhase("return") =>
        /\ top.entry = cache[TopKey]
        /\ top.snap[top.entry.path] # NoRow
        /\ top.entry.source = top.snap[top.entry.path].source

\* Once option changes stop, stale instances eventually disappear for good,
\* provided the backend accepts its messages and keeps using foreign tables.
AlterTakesEffect ==
    <>[](\A k \in Keys : cache[k] # NoEntry => Fresh(k))

\* The backend accepts messages, keeps running statements on foreign tables,
\* and every call comes to its end.
Fairness ==
    /\ WF_vars(AcceptInvalidationMessages)
    /\ WF_vars(\E u \in Users, t \in Tables : GetBegin(u, t))
    /\ WF_vars(GetStep)

FairSpec == Spec /\ Fairness

=============================================================================
