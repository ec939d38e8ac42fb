# A verification project for pljs_fdw

pljs_fdw is a PostgreSQL foreign-data wrapper whose foreign tables are
implemented by JavaScript classes. The classes are stored as rows of
`pljs.modules` and run by PLJS (QuickJS) inside the backend. This directory
holds TLA+ models of its core, the TLC configurations that check them, and
proofs checked by TLAPS. `PROJECT.json` records, for every definition, the
lines of code it stands for, and for every property the run and the faulty
variant (`Faulty...` definitions) that shows it can fail.

## 1. Inventory of the system

| part | state it keeps | operations | what makes it correct |
|---|---|---|---|
| option helpers and validator (`fdw.c`) | none (reads the catalogs) | `pljs_fdw_get_option`, `_build_options`, `_has_user_mapping`, `_validator` | table options override mapping options override server options; no empty `module` |
| context cache (`fdw.c`) | hash table (role, table) -> context, instance, module path, row version; the *invalidation pending* flag | `pljs_fdw_get_or_create_instance`, `_cache_add/_find/_remove`, `_syscache_callback`, `_check_invalidation` | contexts have one owner; an option change reaches every instance; an instance is of the source its statement sees |
| module rows (`pljs.modules`) | row versions under MVCC | `pljs_fdw_module_row_version` | xmin and ctid tell versions apart |
| scan callbacks (`fdw.c`) | `fdw_state`: borrowed context and instance, owned iterator | Begin, Iterate, ReScan, End | an iterator is freed once, also on errors; a borrowed context stays alive |
| write callbacks (`fdw.c`) | `ri_FdwState`, `dmstate` | planning (`PlanDirectModify`, `AddForeignUpdateTargets`, batch size), per-row, batch, direct modification, TRUNCATE | the source changes exactly the rows of the statement; tag and RETURNING agree with it |
| planner pushdown and column mapping (`fdw.c`) | `fdw_private` of the relation, the paths and the plan | `GetForeignRelSize`, `GetForeignPaths`, `GetForeignPlan`, the conversions to `execute()`'s arguments | nothing the executor skips is left undone; the order a path claims is the order rows come in |
| IMPORT FOREIGN SCHEMA (`fdw.c`) | a context of its own | `pljs_fdw_import_foreign_schema`, `_append_import_command`, `_import_table_included` | the catalog gets what was asked for and described, or nothing; the context is freed |
| EXPLAIN, handler | none | | |
| `pljsFdwNet` (`net.c`) | descriptor number in each socket object | connect, send, recv, close, finalizer, digests | descriptors are neither leaked nor confused although their numbers are reused; every byte is written once |
| `SocketReader` (`pgwire.js`) | buffered bytes | `_fill`, `readBytes`, `readMessage` | messages come out whole, in order, once |
| `PgConnection` (`pgwire.js`) | socket, reader, position in the protocol | constructor, `query`, `close` | a query returns its own answer and leaves the connection in step |
| example FDWs | a connection or parsed data per instance | `execute`, write methods | quals and sort keys mean what SQL means |

How they interact: each planner and executor callback starts with
`pljs_fdw_get_or_create_instance`, which may flush the cache, evict an entry,
load a module and run its constructor. That is arbitrary JavaScript, which can
run SQL and so re-enter the same function. The instance is then borrowed by the
plan node until its End callback, while other nodes of the backend keep using
the cache. A PostgreSQL ERROR leaves by `longjmp`, past all End callbacks.
Invalidation messages from other backends arrive at lock acquisitions and only
set a flag. Example classes talk to a server over `pljsFdwNet`, in the blocking
style of libpq.

What is hard here is not threads (a backend has one) but re-entrancy, values
kept across callbacks, errors between two steps, flags that are set and consumed
at different times, reuse of numbers (item pointers, descriptors, addresses),
and a byte stream cut at arbitrary places. The hazards are listed, line by line,
in `PROJECT.json`.

## 2. Modules and how they correspond to the code

`FdwOptions` - option lists as functions; the helpers and the validator as
operators. The catalogs only ever hold lists the validator admits.

`ContextCache` (extends `FdwOptions`) - one backend's cache. `cache` is
`pljs_fdw_context_HashTable`, `pending` is
`pljs_fdw_cache_invalidation_pending`, `live` the contexts allocated and not
freed, `frame[1..depth]` the local variables of the nested calls of
`pljs_fdw_get_or_create_instance`. The call is cut where other things can
happen: `GetBegin` (with `pljs_fdw_check_invalidation`), `GetHit` / `GetMiss`
(with the eviction), `GetRequire`, `GetConstruct` (with `pljs_fdw_cache_add`),
`GetReturn`, and its failures `GetFail`, `GetCancelled` and
`GetConstructDuplicate`. Around it: committed options (`catalog`), what the
backend's syscaches remember of them (`syscache`), queued messages (`unread`),
and `pljs.modules` with transactions, rollbacks, reused item pointers and
VACUUM FREEZE. These parts are external, modelled as far as `fdw.c` depends on
them.

`FdwExecutor` (extends `ContextCache`, every action of which it conjoins with its
own) - plan nodes with the kinds scan, modify, direct and one-shot (planner
callbacks and TRUNCATE, which look an instance up and let go of it). `node[n]`
is `fdw_state` or `ri_FdwState`. `Abort` drops any set of open nodes without
End callbacks. The ghost `orphans` records the iterators of scans that an ERROR
ended without freeing them.

`ForeignModify` - one statement through planning, possible replacement of the
instance's class while the plan waits, and execution. `applied` is what the
source was told, `looked` the slots that callbacks return where RETURNING, a row
trigger or a check looks at them, `processed` the command tag. Rows are numbers.
INSERT and UPDATE get their slot filled with the new row (`GivenSlot`), which the
object the method returns overwrites as a whole; DELETE gets an empty one and hands
it back as it is.

`Pushdown` - one query (or UPDATE or DELETE) on one foreign table, from the
planner callbacks to the rows that leave the scan node. Clauses are small trees
(a column, a coerced column, another expression, a constant), path keys carry
their equivalence class, `rel` is `baserel->fdw_private`, `paths` what
`GetForeignPaths` offers, `plan` the `ForeignScan` node with its `fdw_private`
(quals by attribute number, sort keys as the flat list of integers), `iterator`
what the class has yet to yield. The FDW class is external and keeps its contract
(`Answers`): it applies quals and sort keys and returns the columns it is asked
for, under local names. Dropped columns leave gaps in the attribute numbers, and
`AlterColumn` renames or maps a column between planning and execution. The
properties compare the outcome with what clauses and orderings mean in SQL
(`Holds`, `Ordered`), which is defined apart from the code.

`ImportSchema` (extends `FdwOptions`) - IMPORT FOREIGN SCHEMA statements one after
the other. `contexts` counts contexts that are allocated, `commands` is the list
the callback builds, `catalog` the tables in the local schema. `Ident` is what
the parser makes of a name (it truncates), `JS_ToCString` what an undefined type
or option value becomes. PostgreSQL's execution of the commands, with its own
look at LIMIT TO and EXCEPT and the validator, is external.

`NetSocket` - `file` is the kernel's descriptor table, `opaque` the number in
each socket object, `call` the local variables of the call under way.

`MessageStream` - the abstract specification: a queue of messages that may fail.
`SocketReader` implements it, over bytes: `buf` is `this.buf`, `stage` the
position inside `readMessage`. The refinement mapping takes the ghost `unread`
(messages not yet returned) for the abstract queue.

`PgWire` - client and server as message streams in both directions, which is
what `SocketReader` provides. The server is external: it answers each message in
turn, skips to Sync after an error (which may come after some rows of a result),
sends notices, may vanish. Lengths on the
wire keep their width (`Word`, the number of values), since the code's `>>> 0` matters.

`MC...` modules hold the small sets that the `.cfg` files assign to constants, and
`...Proofs` modules the theorems (section 4).

## 3. Runs

Passing runs:

| run | question | bounds |
|---|---|---|
| `ContextCacheOptions` | do option changes reach every cached instance, now (`StaleOptionsFlagged`) and in the end (`AlterTakesEffect`), and do contexts have one owner, when calls do not nest? | 2 tables, 2 contexts (a call evicts its own entry before it builds), 2 option changes: one while a call builds, one after; VACUUM FREEZE |
| `ContextCacheReentrant` | contexts under nested calls, errors and cancels; does xmin/ctid identify a source? | depth 2, 3 contexts, 2 sources, 3 item pointers (one transaction writes a module twice), transaction ids up to 4 (a cached version is replaced and its item pointer reused), 1 option change. Leaked contexts use `Contexts` up, hence no deadlock check |
| `FdwExecutor` | are iterators freed once, by their owner, and which ERRORs leave one behind? | two nodes of every kind, one option change, one writer of `pljs.modules`, every kind of ERROR, 2 iterators: one for each of two open scans, or one left behind while the other node goes on with the other. Iterators left behind use `Iterators` up, hence no deadlock check |
| `NetSocket` | descriptor ownership, whole payloads | 4 descriptors, 2 objects: enough for a closed number to be taken by the other object or by the backend |
| `SocketReader` | framing, refinement, progress | 3 messages, chunks of 1 to 7 bytes: a chunk can end inside each field and span messages; one body looks like a message |
| `PgWire` | answers and step of the connection; every query ends | 3 queries, 2 rows, 1 notice, NULLs, error or loss at any message and between rows |
| `ForeignModify` | does the source change what the statement says, on each path? | INSERT of 0 to 5 rows in batches of 2 (empty, full and short batches), TRUNCATE of up to 3 tables, UPDATE and DELETE of 3 rows of which local clauses keep none, one, two or all, every class before and after planning; methods return all columns, one or no object |
| `Pushdown` | do pushed quals, rechecked clauses, pruned columns and column names add up to the query, in the order claimed; does a direct modification hit the rows meant? | a table of two columns around a dropped one, 3 rows with NULLs, one clause of every shape (8 operators, both sides, coerced, expression, system column, NULL constant) alone and next to another, one or two path keys of every shape, UPDATEs with constant and other values, one ALTER while the plan waits, rescans |
| `ImportSchema` | is the catalog what was asked for and described; can a table that was left out do harm; is the context freed? | two statements, schemas of up to two tables, every way a description can be wrong, names that the parser truncates to the same identifier |

Runs that are expected to find a violation. Each checks one sentence of the
repository against what the code does (see `findings`):

| run | what it shows |
|---|---|
| `FdwExecutorHeld` | another node's Begin frees the context of an open scan |
| `PgWireNull` | a NULL column throws and leaves the connection out of step |
| `PushdownCoercion` | a comparison of an implicitly coerced column is pushed down as a comparison of the column itself, and nobody rechecks it |

The conditions under which properties hold are visible in the models:

- `MaxDepth = 1` (calls do not nest) for `StaleOptionsFlagged` and
  `NoContextLeak`. With `MaxDepth = 2`, two tables and three contexts, TLC finds a
  nested call that consumes the pending flag while the outer one still builds
  from old options: its entry is cached and no flush is due (`fdw.c:474`),
  although `ARCHITECTURE.md:80-82` says an ALTER flushes the whole cache. It also
  finds a leak: a nested call for
  the same key stores its entry first, and `pljs_fdw_cache_add` raises an ERROR
  with a context nobody frees (`fdw.c:391-400`, `GetConstructDuplicate`).
- `AllowCancel = FALSE` for `NoContextLeak`: an ERROR that PostgreSQL raises in
  the catalog lookups after the module load leaks the context
  (`fdw.c:624-633`, `GetCancelled`).
- `AllowFreeze = FALSE` for `ReturnsCurrentSource`. With `TRUE`, TLC finds two
  frozen versions in one item pointer that compare equal (`fdw.c:582`).
- `OnlyErrorsLeak` says which iterators stay behind, not that none does: those of
  scans that an ERROR raised elsewhere has ended (no End callback is called), and
  those of scans whose own callback raises one in `pljs_jsvalue_to_datums`, on a
  value that does not convert (`fdw.c:1590`, `IterateConvertError`). The latter is a
  leak of the code, which the comment at `fdw.c:1317-1320` says does not happen. With
  `orphans` left out of the first conjunct TLC finds both at once.
- The ghost `server.nulls` of `PgWire`: answers are right until a NULL arrives.
- `TagCountsRows` supposes that `updateWhere()` and `deleteWhere()` return a
  count; what else they return is cast to `uint64` (`fdw.c:2425`), modelled as
  any value up to `MaxCount`.
- `NetSocket` calls are made on sockets. `close()` of any other object would read
  a NULL opaque pointer as descriptor 0 and close it (`net.c:297`).
- `EveryRowLookedAt` speaks of the columns a method hands back, or of all that were
  given if it hands back nothing (`FDW_API.md:130-131`). With the `{ id }` that
  `FDW_API.md:124` shows, which is among the results of the run, the other columns
  read as NULL, although they were given and RETURNING, triggers and checks look at
  them (`fdw.c:1276`). The comment at `fdw.c:1258-1261` has it that nothing needs
  them.
- Of DELETE it says only that RETURNING looks at each deleted row in order. What it
  sees are NULLs, since `pljs_fdw_exec_foreign_delete` returns the executor's empty
  slot (`fdw.c:2106`). The repository promises nothing else.
- `Coerce` is the identity in the run `Pushdown`: implicit coercions keep values
  apart. `PushdownCoercion` shows what happens otherwise.
- The ghost `cut` of `Pushdown`: an iterator that yields null ends the scan
  (`fdw.c:1590`), and the rows after it are missing without an error.
- `DirectModifiesMatching` supposes that columns go by their own names:
  `updateWhere()` and `deleteWhere()` get local names and no `columnMap`
  (`fdw.c:2394`).
- The ghost `leaked` of `ImportSchema`: an ERROR about one described table leaves
  the context allocated (`fdw.c:2677-2694`); every other way out frees it.
- In `ImportsDescribed`, LIMIT TO does not find a table whose name is longer than
  an identifier: the statement's name is truncated and the module's is not
  (`fdw.c:2659`). `FailsForCause` is stated for names that fit.

Bounds are named constants: `MaxDepth`, `MaxDDL`, `MaxXid`, `MaxAddresses`,
`MaxWire`, `MaxMessages`, `MaxRequests`, `MaxRows`, `MaxNotices`, `MaxCount`,
`MaxImports`.
Symmetry is declared on contexts, iterators, nodes and objects, whose members are
only compared, and only in runs without temporal properties.

### Fairness

- `ContextCache!Fairness`: the backend accepts its messages (every transaction
  start does), keeps using foreign tables, and a call that is under way goes on.
  Without the second assumption stale instances stay, unused, which is what the
  code intends.
- `FairReaderSpec`: the client is never preempted for good, and `recv` returns
  when bytes are there or the connection has ended. The server is under no
  obligation to send.
- `FairWireSpec`: client and server go on; queries and notices have no fairness.
  A server that stays silent with the connection open would hold `recv` for ever
  (there is no timeout, `net.c:263`): that is excluded by assumption and listed
  as a hazard.

## 4. Proofs

Each `...Proofs` module extends the module it is about. Its theorems hold for every
value of the constants that satisfies the named assumptions of that module: any
number of tables, contexts, nodes, rows, queries, messages. Every invariant a
passing run checks is the subject of a theorem. A theorem with a hypothesis of its
own states it, and section 3 says what happens without it.

`ContextCacheProofs`

- `TypeCorrect`: split by groups of variables (`CatalogOK`, `ModulesOK`,
  `CacheOK`, `FramesOK`), each preserved by each action.
- `ExclusiveContexts`: for any nesting depth. `ContextsExclusive` is inductive
  once stated pointwise (`Exclusive`): an action frees the context of one holder,
  which no other holder shares, or adds one that was not allocated.
- `OptionsFlagged`, for calls that do not nest (`MaxDepth = 1`). The invariant needs
  two more facts: syscaches differ from the catalogs only while messages are
  unread (`SyscacheFlagged`), and the options a call has already read are
  current or an invalidation is due (`BuildFlagged`), since a flush can only
  happen at the start of a call.
- `ContextsOwned`, for calls that do not nest and no ERROR inside the catalog
  lookups. The strengthening `BuildUncached`: while a call builds, its key is
  not in the table, so `pljs_fdw_cache_add` cannot fail.
- `CurrentSource`, without VACUUM FREEZE, for any nesting
  depth. The argument: a pair of xmin and ctid is given to at most one source,
  across the visible rows, the rows a rollback would restore, the snapshots of
  calls under way and the cached entries (`VersionsAgree`); a transaction does
  not reuse an item pointer of its own and its xid is the largest so far
  (`VersionsBounded`); an entry in the table is complete (`EntriesComplete`);
  and only the top call may be at a return (`NestedInJavaScript`).

`FdwExecutorProofs`

- `ExecImplementsCache`: `ExecSpec => Spec`. Each step of the executor is one of the
  cache or leaves it alone, so the theorems above hold below scans, writes and
  aborts too.
- `ExecTypeCorrect`, `IteratorsHeld`, `LeakedOnlyByErrors`: from `Holding`, which
  says who holds each referenced iterator (one node, in a phase that has one, or
  none when it was left behind by an ERROR: one from outside the scan, or one that
  the conversion of a row raises), and the fact that the executor's calls do not
  nest. `LeakedOnlyByErrors` does not say that the callbacks leak nothing: the
  conversion error does.

`ForeignModifyProofs`

- `EffectsInOrder`: the invariant `Effect` says, for each path, which rows have been
  told when the row under way is `k` (`Lists`): those before it that the statement
  keeps, less those that wait in the current batch.
- `TagsCountRows` (`Tagged`), `FallsBackToRows` (`Fallback`), `ModifyTypeCorrect`.
- `RowsLookedAt` (`Looked`), whatever columns the methods return.

`PushdownProofs`

- `PlanInv`: once there is a plan it is one of two, which follow from the query
  alone. `ArgumentsAreCovered` follows from it and from what the pushed quals and
  matched path keys are made of.
- `ScanIsExact`, where implicit coercions change no value (`Lossless`, true in the
  run `Pushdown` and false in `PushdownCoercion`): `Scanning` divides the answer of
  the class into the part that was read and the part that was not; a row object
  passes the recheck and has the values of its row, and the quals mean what their
  clauses mean (`QualMeans`), so read rows that match are out and the others are not.
- `OrderIsKept`, without hypothesis: the rows of `out` keep the order of the answer,
  which is that of the sort keys, and a claimed path key is a column of this table
  under the default operator family.
- `DirectModifiesExactly`, under `Lossless`: `Direct` says that a direct modification
  has no clause left to recheck and no value that is not a constant.
- `PushTypeCorrect`.

`ImportSchemaProofs` - one invariant, `ImportInv`: the statement is one the parser has
been over (`Reading`), contexts are counted (`Counted`), the commands are those of
the included tables seen so far (`Collected`), nothing is created before they are
executed (`Kept`). From it `ImportTypeCorrect`, `ContextsAreReleased`,
`ImportsAreDescribed` and `FailsOnlyForCause`.

`NetSocketProofs`

- `NetTypeCorrect`, `SocketsOwn`, `FdsNotLeaked`: the two ownership properties
  are proved together, with what the call under way holds (`CallOwns`).
- `SendsWhole`: with the bounds of `total` (`Sending`), by associativity of
  concatenation and splitting of subsequences.

`SocketReaderProofs` - `ReaderInv`: the header that was read, the buffered bytes, those
under way and those the lost connection took with it together encode the messages not
yet returned (`Encodes` gives the encoding of each suffix, which takes the place of an
induction over messages). From it
`ReadsToTheEnd`, and `ReaderRefinesStream`: `MessageStream` is implemented, step by
step. It assumes that a message with its length field fits in an Int32, the type
of that field in the protocol.

`PgWireProofs`

- `WireTypeCorrect`: types of all variables, the messages both ways included
  (`Typed`, `Noticed`), the numbering of requests (`Numbered`), and `Queued`: each
  message to the server belongs to a request, which a Sync ends, so the server is
  never ahead of the client (`server.req \in 1 .. client.req + 1`).
- `QueryReturnsItsOwn` and `IdleIsInStep`, from `InStep`: on a connection that has
  carried no NULL, the messages under way lead (`Leads`) from the place of the
  client to the place of the server. A place says where a request is (after Parse,
  after Bind, ...) and how many rows of its result have been sent; `Moves` says
  which message leads from which place to which. The server's steps add a message
  at the end of the path and the client's take one from its front; a server that
  ends the connection cuts the path off or adds an error that leads to the place
  `"lost"`. Along a path places do not go back (`Stage`) and rows are not taken back,
  which is why Execute, whose rows (up to an error, or all) define the result, meets
  no message that speaks of a result, and why between requests only notices can be under way. A client
  that has read to ReadyForQuery has therefore read the whole result. The NULL
  hypothesis is in the property (`~server.nulls`): with one, `_parseDataRow` throws
  out of the middle of a path (run `PgWireNull`).

Assumptions on constants that the proofs need and the code justifies: an option
value that is undefined becomes the text "undefined", which is not empty
(`ImportAssumption`); lengths on the wire have an even number of values, of which
the lower half are those of data (`WireAssumption`; 2^32 in the code, 256 in the
runs, any even number in the proofs).

Only model-checked: liveness (`AlterTakesEffect`, `AllMessagesRead`, `QueryEnds`),
which is out of the prover's reach. What recursive definitions compute for
every input could not be proved either; no module here has one.

## 5. What is not modelled

- The example classes other than `pgwire.js`: `Pushdown` and `ForeignModify` have
  the contract of a class, not the code of one.
- Row estimates and costs: they decide between paths, and the model takes any.
- Expressions beyond one operator, parameters and join clauses: the code looks at
  `OpExpr` of a column and a constant only, and all others are alike to it.
- The text of generated commands: quoting is taken to work, type names are emitted
  verbatim and either name a type or do not.
- EXPLAIN output, the handler and the PLJS bindings: no state.
- Digests and the SCRAM computation: library code and arithmetic; the exchange
  of messages is modelled.
- Bytes of a message body that the end of the connection cuts off: they stay in
  `this.buf` (`pgwire.js:211-216`), where a later `query()` on the lost connection
  would take them for a message if its `send()` still succeeded. `SocketReader`
  stops at the first exception, and `PgWire` loses whole messages only.
- Reference counts inside a context other than iterators; memory of the cache
  context; SQL text.
- Two backends: they share only the catalogs and `pljs.modules`, which appear as
  changes made by the environment.

## 6. Plan

Order of work, most important behaviour first: `FdwOptions`, `ContextCache` and
its proofs, `FdwExecutor`, `NetSocket` and its proofs, `MessageStream` and
`SocketReader`, `PgWire`, `ForeignModify`, `Pushdown`, `ImportSchema`, and the proofs
about each (all done), then:

1. An abstract specification "caching is transparent" that `ContextCache`
   implements under the assumptions of its theorems, and the proof of it.
2. `RemotePg`: `remote_pg_fdw.js` as a composition of `PgWire` and the executor
   (scans and writes one after the other on one cached connection).
3. The codecs of `pgwire.js` (UTF-8, base64, integers) as operators with a
   reference definition.

Proved: the invariants of every passing run and the refinements `ExecSpec => Spec` and
`ReaderSpec => ImplementsStream` (section 4).

## 7. Running it

    tlc -workers 2 -config ContextCacheOptions.cfg MCContextCache
    tlapm ContextCacheProofs.tla
