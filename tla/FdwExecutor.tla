----------------------------- MODULE FdwExecutor -----------------------------
(***************************************************************************)
(* The executor and planner callbacks of fdw.c on top of ContextCache: the *)
(* life of foreign scans, foreign modifications and direct modifications,  *)
(* the iterators scans own, and the contexts all of them borrow from the   *)
(* cache between one callback and the next.                                *)
(*                                                                         *)
(* A node is a plan node, or a one-shot use of an instance at planning     *)
(* time or by TRUNCATE.  Several nodes may be open in one backend: sides   *)
(* of a join, or cursors.  When PostgreSQL raises an ERROR it drops the    *)
(* nodes of the aborted (sub)transaction without calling their End         *)
(* callbacks.                                                              *)
(***************************************************************************)
EXTENDS ContextCache

CONSTANTS
    Nodes,              \* plan nodes that may be open at the same time
    Iterators,          \* objects execute() may return
    NoNode, NoIterator, NoContext, NoTable

ASSUME ExecutorAssumption ==
    /\ NoNode \notin Nodes
    /\ NoIterator \notin Iterators
    /\ NoContext \notin Contexts
    /\ NoTable \notin Tables

VARIABLES
    node,       \* fdw_state / ri_FdwState of each plan node
    caller,     \* the node get_or_create_instance works for
    iterators,  \* iterators that are referenced
    orphans     \* ghost: iterators of scans that an ERROR ended without freeing
                \* them

nodeVars == <<node, caller, iterators, orphans>>
allVars  == <<vars, nodeVars>>

Kinds == {"scan", "modify", "direct", "oneshot"}

\* "begin": in get_or_create_instance; "execute": about to call execute();
\* "open": between callbacks.  slot is what the last callback handed up.
Idle ==
    [phase |-> "idle", kind |-> "oneshot", table |-> NoTable,
     ctx |-> NoContext, iterator |-> NoIterator, slot |-> "empty",
     executed |-> FALSE]

NodeState ==
    [phase : {"idle", "begin", "execute", "open"}, kind : Kinds,
     table : Tables \cup {NoTable}, ctx : Contexts \cup {NoContext},
     iterator : Iterators \cup {NoIterator}, slot : {"empty", "row"},
     executed : BOOLEAN]

OpenNodes == {n \in Nodes : node[n].phase # "idle"}

Is(n, kind, phase) == node[n].kind = kind /\ node[n].phase = phase

\* The node is between callbacks and has a state: it was not begun for a plain
\* EXPLAIN.
Running(n, kind) == Is(n, kind, "open") /\ node[n].ctx # NoContext

\* ereport(ERROR) while node n is running: n's transaction is aborted and with
\* it the other nodes of that transaction, without their End callbacks.  left
\* are the iterators that n leaves behind.
Abort(n, left) ==
    \E others \in SUBSET (OpenNodes \ {n}) :
        /\ node' = [m \in Nodes |->
                       IF m \in others \cup {n} THEN Idle ELSE node[m]]
        /\ orphans' = orphans \cup left
               \cup ({node[m].iterator : m \in others} \ {NoIterator})

-----------------------------------------------------------------------------
(* Callbacks that begin with pljs_fdw_get_or_create_instance: Begin-       *)
(* ForeignScan, BeginForeignModify/Insert, BeginDirectModify, and the      *)
(* one-shot GetForeignRelSize, IsForeignRelUpdatable, AddForeignUpdate-    *)
(* Targets, PlanDirectModify, GetForeignModifyBatchSize, ExecForeign-      *)
(* Truncate.                                                               *)

BeginNode(n, kind, user, table) ==
    /\ depth = 0
    /\ node[n].phase = "idle"
    /\ GetBegin(user, table)
    /\ node' = [node EXCEPT ![n] = [Idle EXCEPT !.phase = "begin",
                                                !.kind = kind,
                                                !.table = table]]
    /\ caller' = n
    /\ UNCHANGED <<iterators, orphans>>

\* EXEC_FLAG_EXPLAIN_ONLY: the node is opened with a NULL state.
BeginExplainOnly(n, kind, table) ==
    /\ kind # "oneshot"
    /\ node[n].phase = "idle"
    /\ node' = [node EXCEPT ![n] = [Idle EXCEPT !.phase = "open",
                                                !.kind = kind,
                                                !.table = table]]
    /\ UNCHANGED <<vars, caller, iterators, orphans>>

\* The call makes progress without ending.
LookupStep ==
    /\ GetHit \/ GetMiss \/ GetRequire \/ GetConstruct
    /\ depth' = depth
    /\ UNCHANGED nodeVars

\* A faulty variant: the callback goes on after a failed call.
FaultyLookupError ==
    /\ GetMiss \/ GetFail \/ GetCancelled
    /\ depth' < depth
    /\ caller' = NoNode
    /\ UNCHANGED <<node, iterators, orphans>>

\* The call raises an ERROR in the callback that made it.
LookupError ==
    /\ GetMiss \/ GetFail \/ GetCancelled
    /\ depth' < depth
    /\ Abort(caller, {})
    /\ caller' = NoNode
    /\ UNCHANGED iterators

\* The node receives ctx and instance.  A scan goes on to call execute().
LookupReturn ==
    /\ GetReturn
    /\ node' = [node EXCEPT
                   ![caller].phase = IF @ = "begin" /\ node[caller].kind = "scan"
                                     THEN "execute" ELSE "open",
                   ![caller].ctx = top.entry.ctx]
    /\ caller' = NoNode
    /\ UNCHANGED <<iterators, orphans>>

-----------------------------------------------------------------------------
(* Foreign scans *)

\* pljs_fdw_call_execute, from BeginForeignScan or ReScanForeignScan.
CallExecute(n) ==
    /\ Is(n, "scan", "execute")
    /\ \E i \in Iterators \ iterators :
          /\ iterators' = iterators \cup {i}
          /\ node' = [node EXCEPT ![n].phase = "open", ![n].iterator = i]
    /\ UNCHANGED <<vars, caller, orphans>>

\* execute() throws: there is no iterator to free.
CallExecuteThrows(n) ==
    /\ Is(n, "scan", "execute")
    /\ Abort(n, {})
    /\ UNCHANGED <<vars, caller, iterators>>

\* A faulty variant: the iterator is freed as soon as it is exhausted.
FaultyIterate(n) ==
    /\ Running(n, "scan")
    /\ iterators' = iterators \ {node[n].iterator}
    /\ node' = [node EXCEPT ![n].slot = "empty"]
    /\ UNCHANGED <<vars, caller, orphans>>

\* next() yields a row, or ends: the slot is filled or left empty.
pljs_fdw_iterate_foreign_scan(n) ==
    /\ Running(n, "scan")
    /\ \E slot \in {"empty", "row"} : node' = [node EXCEPT ![n].slot = slot]
    /\ UNCHANGED <<vars, caller, iterators, orphans>>

\* next() throws: the iterator is freed before the ERROR is raised.
IterateThrows(n) ==
    /\ Running(n, "scan")
    /\ iterators' = iterators \ {node[n].iterator}
    /\ Abort(n, {})
    /\ UNCHANGED <<vars, caller>>

\* pljs_jsvalue_to_datums raises the ERROR itself, on a value that does not
\* convert: nothing is freed.
IterateConvertError(n) ==
    /\ Running(n, "scan")
    /\ Abort(n, {node[n].iterator})
    /\ UNCHANGED <<vars, caller, iterators>>

\* A faulty variant: the old iterator is overwritten.
FaultyRescan(n) ==
    /\ Running(n, "scan")
    /\ node' = [node EXCEPT ![n].phase = "execute",
                            ![n].iterator = NoIterator]
    /\ UNCHANGED <<vars, caller, iterators, orphans>>

\* The old iterator is freed before execute() is called again.
pljs_fdw_rescan_foreign_scan(n) ==
    /\ Running(n, "scan")
    /\ iterators' = iterators \ {node[n].iterator}
    /\ node' = [node EXCEPT ![n].phase = "execute",
                            ![n].iterator = NoIterator]
    /\ UNCHANGED <<vars, caller, orphans>>

\* pljs_fdw_free_scan_state; a NULL state holds no iterator.
pljs_fdw_end_foreign_scan(n) ==
    /\ Is(n, "scan", "open")
    /\ iterators' = iterators \ {node[n].iterator}
    /\ node' = [node EXCEPT ![n] = Idle]
    /\ UNCHANGED <<vars, caller, orphans>>

-----------------------------------------------------------------------------
(* Modifications *)

\* insert(), insertMany(), update() or delete() of one row or batch: the slot
\* keeps or takes over values.  Nothing in the state records the call.
ExecForeignModify(n) ==
    /\ Running(n, "modify")
    /\ node' = [node EXCEPT ![n].slot = "row"]
    /\ UNCHANGED <<vars, caller, iterators, orphans>>

\* updateWhere() or deleteWhere(), which an executed node skips.
pljs_fdw_iterate_direct_modify(n) ==
    /\ Running(n, "direct")
    /\ ~node[n].executed
    /\ node' = [node EXCEPT ![n].executed = TRUE]
    /\ UNCHANGED <<vars, caller, iterators, orphans>>

\* The JavaScript method of a modification throws, is missing, or (estimate(),
\* truncate()) fails in a one-shot use.
MethodError(n) ==
    /\ \E kind \in Kinds \ {"scan"} : Running(n, kind)
    /\ node[n].kind = "direct" => ~node[n].executed
    /\ Abort(n, {})
    /\ UNCHANGED <<vars, caller, iterators>>

\* EndForeignModify, EndDirectModify, or the end of a one-shot use: the state
\* is palloc'd memory and holds no JavaScript reference.
EndModify(n) ==
    /\ node[n].phase = "open"
    /\ node[n].kind \in {"modify", "direct", "oneshot"}
    /\ node' = [node EXCEPT ![n] = Idle]
    /\ UNCHANGED <<vars, caller, iterators, orphans>>

-----------------------------------------------------------------------------

\* An ERROR from elsewhere in the statement, or a cancelled transaction.
OuterError ==
    /\ depth = 0
    /\ \E n \in OpenNodes : Abort(n, {node[n].iterator} \ {NoIterator})
    /\ UNCHANGED <<vars, caller, iterators>>

\* What happens around the nodes: DDL, module updates, invalidation messages.
\* An open node's lock on its table keeps ALTER FOREIGN TABLE out.
Environment ==
    /\ ChangeCatalog \/ AcceptInvalidationMessages \/ ChangeModules
    /\ \A n \in OpenNodes :
          catalog'.tab[node[n].table] = catalog.tab[node[n].table]
    /\ UNCHANGED nodeVars

ExecInit ==
    /\ Init
    /\ node = [n \in Nodes |-> Idle]
    /\ caller = NoNode
    /\ iterators = {}
    /\ orphans = {}

ScanStep(n) ==
    \/ CallExecute(n)
    \/ CallExecuteThrows(n)
    \/ pljs_fdw_iterate_foreign_scan(n)
    \/ IterateThrows(n)
    \/ IterateConvertError(n)
    \/ pljs_fdw_rescan_foreign_scan(n)
    \/ pljs_fdw_end_foreign_scan(n)

ModifyStep(n) ==
    \/ ExecForeignModify(n)
    \/ pljs_fdw_iterate_direct_modify(n)
    \/ MethodError(n)
    \/ EndModify(n)

ExecNext ==
    \/ Environment
    \/ \E n \in Nodes, kind \in Kinds, u \in Users, t \in Tables :
          BeginNode(n, kind, u, t)
    \/ \E n \in Nodes, kind \in Kinds, t \in Tables :
          depth = 0 /\ BeginExplainOnly(n, kind, t)
    \/ LookupStep
    \/ LookupError
    \/ LookupReturn
    \/ \E n \in Nodes : depth = 0 /\ (ScanStep(n) \/ ModifyStep(n))
    \/ OuterError

ExecSpec == ExecInit /\ [][ExecNext]_allVars

-----------------------------------------------------------------------------
(* Properties *)

\* Node states are well formed, and exactly one node waits for a call.
ExecTypeOK ==
    /\ node \in [Nodes -> NodeState]
    /\ caller \in Nodes \cup {NoNode}
    /\ iterators \in SUBSET Iterators
    /\ orphans \in SUBSET Iterators
    /\ \A n \in Nodes : caller = n <=> node[n].phase = "begin"
    /\ caller = NoNode <=> depth = 0

OpenScans == {n \in Nodes : Running(n, "scan")}

\* An iterator is freed exactly once and never used afterwards: every open
\* scan holds a referenced iterator that no other scan holds, through errors,
\* rescans and aborts of other nodes (pljs_fdw_free_scan_state).
ScansHoldIterators ==
    /\ \A n \in OpenScans : node[n].iterator \in iterators
    /\ \A m, n \in OpenScans : m # n => node[m].iterator # node[n].iterator

Held == {node[n].iterator : n \in OpenScans}

\* Rescans, ends, exceptions and aborts of other nodes give back every iterator
\* they should, once: one that is still referenced belongs to an open scan, which
\* will release it, or was left behind by an ERROR that goes past
\* pljs_fdw_free_scan_state (raised outside the scan's callbacks, or, in
\* pljs_fdw_iterate_foreign_scan, by the conversion of a row); and what was left
\* behind is not released by anybody else.
OnlyErrorsLeak ==
    /\ iterators \subseteq Held \cup orphans
    /\ orphans \subseteq iterators
    /\ Held \cap orphans = {}

\* "The cached context/instance persist for the life of the backend": what an
\* open node got from the cache has not been released behind its back.
HeldContextsLive ==
    \A n \in Nodes : node[n].ctx # NoContext => node[n].ctx \in live

=============================================================================
