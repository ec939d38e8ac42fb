-------------------------- MODULE FdwExecutorProofs --------------------------
(***************************************************************************)
(* Proofs about FdwExecutor, for any number of plan nodes and iterators.   *)
(***************************************************************************)
EXTENDS FdwExecutor, ContextCacheProofs

-----------------------------------------------------------------------------
(* The executor and the cache *)

\* Every step of the executor is a step of the cache below it, or leaves it
\* alone.
LEMMA ExecIsCacheStep == [ExecNext]_allVars => [Next]_vars
  <1> SUFFICES ASSUME [ExecNext]_allVars PROVE [Next]_vars
    OBVIOUS
  <1>1. CASE Environment
    BY <1>1 DEF Environment, Next
  <1>2. CASE \E n \in Nodes, kind \in Kinds, u \in Users, t \in Tables :
                BeginNode(n, kind, u, t)
    BY <1>2 DEF BeginNode, Next
  <1>3. CASE LookupStep \/ LookupError \/ LookupReturn
    BY <1>3 DEF LookupStep, LookupError, LookupReturn, Next, GetStep
  <1>4. CASE \E n \in Nodes, kind \in Kinds, t \in Tables :
                depth = 0 /\ BeginExplainOnly(n, kind, t)
    BY <1>4 DEF BeginExplainOnly
  <1>5. CASE \E n \in Nodes : depth = 0 /\ (ScanStep(n) \/ ModifyStep(n))
    BY <1>5
    DEF ScanStep, ModifyStep, CallExecute, CallExecuteThrows,
        pljs_fdw_iterate_foreign_scan, IterateThrows, IterateConvertError,
        pljs_fdw_rescan_foreign_scan, pljs_fdw_end_foreign_scan,
        ExecForeignModify, pljs_fdw_iterate_direct_modify, MethodError,
        EndModify
  <1>6. CASE OuterError
    BY <1>6 DEF OuterError
  <1>7. CASE UNCHANGED allVars
    BY <1>7 DEF allVars
  <1> QED BY <1>1, <1>2, <1>3, <1>4, <1>5, <1>6, <1>7 DEF ExecNext

\* The callbacks use the cache through pljs_fdw_get_or_create_instance only, so
\* that what is proved of the cache holds below the executor.
THEOREM ExecImplementsCache == ExecSpec => Spec
  <1>1. ExecInit => Init
    BY DEF ExecInit
  <1> QED BY <1>1, ExecIsCacheStep, PTL DEF ExecSpec, Spec

-----------------------------------------------------------------------------
(* Type correctness *)

\* ExecTypeOK with what makes it inductive: callbacks do not nest.
ExecTyped == ExecTypeOK /\ depth \in {0, 1}

\* The inductive invariant of the iterators, node by node: the scans between
\* callbacks are the nodes that hold one, which nobody else holds, and what no
\* scan holds was left behind by an ERROR.
Holding ==
    /\ \A n \in Nodes : node[n].iterator # NoIterator <=> Running(n, "scan")
    /\ \A n \in Nodes : node[n].phase = "execute" => node[n].ctx # NoContext
    /\ \A n \in Nodes : node[n].iterator # NoIterator =>
          node[n].iterator \in iterators /\ node[n].iterator \notin orphans
    /\ \A m, n \in Nodes : m # n /\ node[m].iterator # NoIterator =>
          node[m].iterator # node[n].iterator
    /\ orphans \subseteq iterators
    /\ \A i \in iterators :
          i \in orphans \/ \E n \in Nodes : node[n].iterator = i

\* The state of a node that is not in use.
LEMMA IdleType ==
    /\ Idle \in NodeState
    /\ Idle.phase = "idle" /\ Idle.ctx = NoContext
    /\ Idle.iterator = NoIterator
  BY DEF Idle, NodeState, Kinds

\* What aborting does to each node.
LEMMA AbortNodes ==
    ASSUME NEW n \in Nodes, NEW left, Abort(n, left)
    PROVE  \E others \in SUBSET (OpenNodes \ {n}) :
              /\ node' = [m \in Nodes |->
                             IF m \in others \cup {n} THEN Idle ELSE node[m]]
              /\ orphans' = orphans \cup left
                     \cup ({node[m].iterator : m \in others} \ {NoIterator})
              /\ others \subseteq Nodes
              /\ n \notin others
  BY DEF Abort, OpenNodes

\* Aborting keeps the types when no call is under way afterwards.
LEMMA AbortType ==
    ASSUME ExecTyped, NEW n \in Nodes, NEW left \in SUBSET Iterators,
           Abort(n, left), iterators' \subseteq iterators,
           caller' = NoNode, depth' = 0, caller \in {n, NoNode}
    PROVE  ExecTyped'
  <1>1. PICK others \in SUBSET Nodes :
          /\ node' = [m \in Nodes |->
                         IF m \in others \cup {n} THEN Idle ELSE node[m]]
          /\ orphans' = orphans \cup left
                 \cup ({node[m].iterator : m \in others} \ {NoIterator})
    BY AbortNodes
  <1>2. \A m \in Nodes : node[m] \in NodeState
    BY DEF ExecTyped, ExecTypeOK
  <1>3. node' \in [Nodes -> NodeState]
    BY <1>1, <1>2, IdleType
  <1>4. orphans' \in SUBSET Iterators
    <2>1. \A m \in Nodes : node[m].iterator \in Iterators \cup {NoIterator}
      BY <1>2 DEF NodeState
    <2> QED BY <1>1, <2>1 DEF ExecTyped, ExecTypeOK
  <1>5. \A m \in Nodes : node'[m].phase # "begin"
    <2> TAKE m \in Nodes
    <2>1. CASE m \in others \cup {n}
      BY <1>1, <2>1, IdleType
    <2>2. CASE m \notin others \cup {n}
      <3>1. node'[m] = node[m] /\ m # caller
        BY <1>1, <2>2, ExecutorAssumption
      <3> QED BY <3>1 DEF ExecTyped, ExecTypeOK
    <2> QED BY <2>1, <2>2
  <1> QED BY <1>3, <1>4, <1>5, ExecutorAssumption DEF ExecTyped, ExecTypeOK

\* Changing one node that is, and stays, outside a call keeps the types.
LEMMA OneNodeType ==
    ASSUME ExecTyped, NEW n \in Nodes, NEW s \in NodeState,
           node' = [node EXCEPT ![n] = s], s.phase # "begin",
           node[n].phase # "begin", UNCHANGED <<caller, orphans, depth>>,
           iterators' \in SUBSET Iterators
    PROVE  ExecTyped'
  <1>1. node' \in [Nodes -> NodeState]
    BY DEF ExecTyped, ExecTypeOK
  <1>2. \A m \in Nodes : caller' = m <=> node'[m].phase = "begin"
    <2> TAKE m \in Nodes
    <2>1. node'[m] = IF m = n THEN s ELSE node[m]
      BY DEF ExecTyped, ExecTypeOK
    <2> QED BY <2>1 DEF ExecTyped, ExecTypeOK
  <1> QED BY <1>1, <1>2 DEF ExecTyped, ExecTypeOK

\* A step of a call returns, fails or goes on.
LEMMA LookupType ==
    ASSUME TypeOK, ExecTyped, LookupStep \/ LookupError \/ LookupReturn
    PROVE  ExecTyped'
  <1>0. FramesOK
    BY TypeParts
  <1>1. CASE LookupStep
    BY <1>1 DEF LookupStep, nodeVars, ExecTyped, ExecTypeOK
  <1>2. depth > 0 /\ depth = 1 /\ caller \in Nodes
    BY DEF LookupStep, LookupError, LookupReturn, GetHit, GetMiss, GetRequire,
           GetConstruct, GetFail, GetCancelled, GetReturn, InPhase, ExecTyped,
           ExecTypeOK
  <1>3. CASE LookupError
    <2>1. depth' = 0
      <3>1. depth' = depth \/ depth' = depth - 1
        BY <1>3
        DEF LookupError, GetMiss, GetFail, GetCancelled, Pop
      <3> QED BY <1>2, <1>3, <3>1 DEF LookupError
    <2> QED BY <1>2, <1>3, <2>1, AbortType DEF LookupError
  <1>4. CASE LookupReturn
    <2>1. top.entry.ctx \in Contexts
      <3>1. top \in Frame /\ top.phase = "return"
        BY <1>0, <1>2, <1>4, TopFrame DEF LookupReturn, GetReturn, InPhase
      <3> QED BY <3>1 DEF Frame, FrameOf, Entry
    <2>2. depth' = 0
      BY <1>2, <1>4 DEF LookupReturn, GetReturn, Pop
    <2> DEFINE phase == IF node[caller].phase = "begin" /\ node[caller].kind = "scan"
                        THEN "execute" ELSE "open"
               s == [node[caller] EXCEPT !.phase = phase, !.ctx = top.entry.ctx]
    <2>3. node' = [node EXCEPT ![caller] = s]
      BY <1>4 DEF LookupReturn
    <2>4. s \in NodeState /\ s.phase # "begin"
      BY <1>2, <2>1, ZenonT(60) DEF ExecTyped, ExecTypeOK, NodeState
    <2> HIDE DEF s
    <2>5. node' \in [Nodes -> NodeState]
      BY <1>2, <2>3, <2>4 DEF ExecTyped, ExecTypeOK
    <2>6. \A m \in Nodes : node'[m].phase # "begin"
      BY <1>2, <2>3, <2>4 DEF ExecTyped, ExecTypeOK
    <2> QED BY <1>4, <2>2, <2>5, <2>6, ExecutorAssumption
            DEF LookupReturn, ExecTyped, ExecTypeOK
  <1> QED BY <1>1, <1>3, <1>4

\* Beginning a node keeps the types.
LEMMA BeginType ==
    ASSUME ExecTyped, NEW n \in Nodes, NEW kind \in Kinds, NEW t \in Tables,
           \/ \E u \in Users : BeginNode(n, kind, u, t)
           \/ depth = 0 /\ BeginExplainOnly(n, kind, t)
    PROVE  ExecTyped'
  <1>1. CASE \E u \in Users : BeginNode(n, kind, u, t)
    <2> DEFINE s == [Idle EXCEPT !.phase = "begin", !.kind = kind, !.table = t]
    <2>1. s \in NodeState /\ s.phase = "begin"
      BY DEF Idle, NodeState
    <2>2. /\ node' = [node EXCEPT ![n] = s] /\ caller' = n
          /\ UNCHANGED <<iterators, orphans>> /\ depth' = depth + 1 /\ depth = 0
      BY <1>1 DEF BeginNode, GetBegin
    <2> HIDE DEF s
    <2>3. node' \in [Nodes -> NodeState]
      BY <2>1, <2>2 DEF ExecTyped, ExecTypeOK
    <2>4. \A m \in Nodes : caller' = m <=> node'[m].phase = "begin"
      <3> TAKE m \in Nodes
      <3>1. node'[m] = IF m = n THEN s ELSE node[m]
        BY <2>2 DEF ExecTyped, ExecTypeOK
      <3>2. node[m].phase # "begin"
        BY <2>2, ExecutorAssumption DEF ExecTyped, ExecTypeOK
      <3> QED BY <2>1, <2>2, <3>1, <3>2
    <2>5. depth' = 1 /\ caller' # NoNode
      BY <2>2, ExecutorAssumption
    <2> QED BY <2>2, <2>3, <2>4, <2>5 DEF ExecTyped, ExecTypeOK
  <1>2. CASE depth = 0 /\ BeginExplainOnly(n, kind, t)
    <2> DEFINE s == [Idle EXCEPT !.phase = "open", !.kind = kind, !.table = t]
    <2>1. s \in NodeState /\ s.phase = "open"
      BY DEF Idle, NodeState
    <2>2. /\ node' = [node EXCEPT ![n] = s] /\ node[n].phase = "idle"
          /\ UNCHANGED <<caller, iterators, orphans, depth>>
      BY <1>2 DEF BeginExplainOnly, vars, callVars
    <2>3. iterators' \in SUBSET Iterators
      BY <2>2 DEF ExecTyped, ExecTypeOK
    <2> HIDE DEF s
    <2> QED BY <2>1, <2>2, <2>3, OneNodeType
  <1> QED BY <1>1, <1>2

\* Steps of scans and modifications keep the types.
LEMMA NodeStepType ==
    ASSUME ExecTyped, Holding, depth = 0, NEW n \in Nodes,
           ScanStep(n) \/ ModifyStep(n)
    PROVE  ExecTyped'
  <1>0. /\ node[n] \in NodeState /\ iterators \in SUBSET Iterators
        /\ depth' = depth /\ caller' = caller /\ caller = NoNode
        /\ node[n].phase # "begin"
    BY DEF ExecTyped, ExecTypeOK, ScanStep, ModifyStep, CallExecute,
           CallExecuteThrows, pljs_fdw_iterate_foreign_scan, IterateThrows,
           IterateConvertError, pljs_fdw_rescan_foreign_scan,
           pljs_fdw_end_foreign_scan, ExecForeignModify,
           pljs_fdw_iterate_direct_modify, MethodError, EndModify, Is, Running,
           vars, callVars
  <1>1. CASE CallExecute(n)
    <2>1. PICK i \in Iterators :
            /\ iterators' = iterators \cup {i} /\ UNCHANGED orphans
            /\ node' = [node EXCEPT ![n] =
                           [node[n] EXCEPT !.phase = "open", !.iterator = i]]
      BY <1>1 DEF CallExecute
    <2>2. [node[n] EXCEPT !.phase = "open", !.iterator = i] \in NodeState
      BY <1>0 DEF NodeState
    <2> QED BY <1>0, <2>1, <2>2, OneNodeType DEF NodeState
  <1>2. CASE pljs_fdw_iterate_foreign_scan(n)
    <2>1. PICK slot \in {"empty", "row"} :
            node' = [node EXCEPT ![n] = [node[n] EXCEPT !.slot = slot]]
      BY <1>2 DEF pljs_fdw_iterate_foreign_scan
    <2>2. /\ [node[n] EXCEPT !.slot = slot] \in NodeState
          /\ [node[n] EXCEPT !.slot = slot].phase # "begin"
      BY <1>0 DEF NodeState
    <2> QED BY <1>0, <1>2, <2>1, <2>2, OneNodeType
            DEF pljs_fdw_iterate_foreign_scan
  <1>3. CASE pljs_fdw_rescan_foreign_scan(n)
    <2> DEFINE s == [node[n] EXCEPT !.phase = "execute", !.iterator = NoIterator]
    <2>1. s \in NodeState /\ s.phase = "execute"
      BY <1>0 DEF NodeState
    <2>2. /\ node' = [node EXCEPT ![n] = s]
          /\ iterators' \in SUBSET Iterators /\ UNCHANGED orphans
      BY <1>0, <1>3 DEF pljs_fdw_rescan_foreign_scan
    <2> HIDE DEF s
    <2> QED BY <1>0, <2>1, <2>2, OneNodeType
  <1>4. CASE pljs_fdw_end_foreign_scan(n) \/ EndModify(n)
    <2>1. /\ node' = [node EXCEPT ![n] = Idle]
          /\ iterators' \in SUBSET Iterators /\ UNCHANGED orphans
      BY <1>0, <1>4 DEF pljs_fdw_end_foreign_scan, EndModify
    <2> QED BY <1>0, <2>1, IdleType, OneNodeType
  <1>5. CASE ExecForeignModify(n)
    <2> DEFINE s == [node[n] EXCEPT !.slot = "row"]
    <2>1. s \in NodeState /\ s.phase # "begin"
      BY <1>0 DEF NodeState
    <2>2. /\ node' = [node EXCEPT ![n] = s]
          /\ iterators' \in SUBSET Iterators /\ UNCHANGED orphans
      BY <1>0, <1>5 DEF ExecForeignModify
    <2> HIDE DEF s
    <2> QED BY <1>0, <2>1, <2>2, OneNodeType
  <1>6. CASE pljs_fdw_iterate_direct_modify(n)
    <2> DEFINE s == [node[n] EXCEPT !.executed = TRUE]
    <2>1. s \in NodeState /\ s.phase # "begin"
      BY <1>0 DEF NodeState
    <2>2. /\ node' = [node EXCEPT ![n] = s]
          /\ iterators' \in SUBSET Iterators /\ UNCHANGED orphans
      BY <1>0, <1>6 DEF pljs_fdw_iterate_direct_modify
    <2> HIDE DEF s
    <2> QED BY <1>0, <2>1, <2>2, OneNodeType
  <1>7. CASE CallExecuteThrows(n) \/ IterateThrows(n) \/ MethodError(n)
    BY <1>0, <1>7, AbortType DEF CallExecuteThrows, IterateThrows, MethodError
  <1>8. CASE IterateConvertError(n)
    <2>1. {node[n].iterator} \in SUBSET Iterators
      BY <1>0, <1>8 DEF IterateConvertError, Holding, NodeState
    <2> QED BY <1>0, <1>8, <2>1, AbortType DEF IterateConvertError
  <1> QED BY <1>1, <1>2, <1>3, <1>4, <1>5, <1>6, <1>7, <1>8
          DEF ScanStep, ModifyStep

\* Every step keeps the types.
LEMMA ExecNextType ==
    ASSUME TypeOK, ExecTyped, Holding, [ExecNext]_allVars
    PROVE  ExecTyped'
  <1>1. CASE Environment
    <2>1. depth' = depth
      BY <1>1
      DEF Environment, ChangeCatalog, AlterServer, AlterTable, AlterUserMapping,
          ChangeOptions, AcceptInvalidationMessages, ChangeModules, WriteModule,
          DeleteModule, CommitModules, AbortModules, EndWriter, FreezeModules,
          callVars
    <2> QED BY <1>1, <2>1 DEF Environment, nodeVars, ExecTyped, ExecTypeOK
  <1>2. CASE OuterError
    <2>1. PICK n \in OpenNodes : Abort(n, {node[n].iterator} \ {NoIterator})
      BY <1>2 DEF OuterError
    <2>2. /\ n \in Nodes /\ depth = 0 /\ depth' = 0 /\ caller' = caller
          /\ caller = NoNode /\ iterators' = iterators
      BY <1>2
      DEF OuterError, OpenNodes, vars, callVars, ExecTyped, ExecTypeOK
    <2>3. {node[n].iterator} \ {NoIterator} \in SUBSET Iterators
      BY <2>2 DEF ExecTyped, ExecTypeOK, NodeState
    <2> QED BY <2>1, <2>2, <2>3, AbortType
  <1>3. CASE UNCHANGED allVars
    BY <1>3 DEF allVars, vars, callVars, nodeVars, ExecTyped, ExecTypeOK
  <1> QED BY <1>1, <1>2, <1>3, LookupType, BeginType, NodeStepType DEF ExecNext

-----------------------------------------------------------------------------
(* Iterators *)

\* Aborting: what the node that fails holds is released before the ERROR, or is
\* left behind with what the other nodes hold.
LEMMA AbortHolding ==
    ASSUME ExecTyped, Holding, NEW n \in Nodes, NEW left, Abort(n, left),
           \/ /\ iterators' = iterators
              /\ left = {node[n].iterator} \ {NoIterator}
           \/ /\ iterators' = iterators \ {node[n].iterator}
              /\ left = {}
    PROVE  Holding'
  <1>1. PICK others \in SUBSET Nodes :
          /\ node' = [m \in Nodes |->
                         IF m \in others \cup {n} THEN Idle ELSE node[m]]
          /\ orphans' = orphans \cup left
                 \cup ({node[m].iterator : m \in others} \ {NoIterator})
          /\ n \notin others
    BY AbortNodes
  <1> DEFINE ended == others \cup {n}
  <1>2. /\ \A m \in ended : node'[m] = Idle
        /\ \A m \in Nodes \ ended : node'[m] = node[m]
    BY <1>1
  <1>3. \A m \in ended : node'[m].iterator = NoIterator /\ node'[m].phase = "idle"
    BY <1>2, IdleType
  <1> HIDE DEF ended
  <1>4. /\ \A m \in Nodes : node'[m].iterator # NoIterator <=> Running(m, "scan")'
        /\ \A m \in Nodes : node'[m].phase = "execute" => node'[m].ctx # NoContext
    <2>1. ASSUME NEW m \in Nodes
          PROVE  /\ node'[m].iterator # NoIterator <=> Running(m, "scan")'
                 /\ node'[m].phase = "execute" => node'[m].ctx # NoContext
      <3>1. CASE m \in ended
        BY <1>3, <3>1 DEF Running, Is
      <3>2. CASE m \notin ended
        BY <1>2, <3>2 DEF Holding, Running, Is
      <3> QED BY <3>1, <3>2
    <2> QED BY <2>1
  <1>5. ASSUME NEW m \in Nodes, node'[m].iterator # NoIterator
        PROVE  /\ m \notin ended /\ node'[m] = node[m]
               /\ node[m].iterator \in iterators'
               /\ node[m].iterator \notin orphans'
    <2>1. m \notin ended /\ node'[m] = node[m]
      BY <1>2, <1>3, <1>5
    <2>2. /\ \A o \in ended : node[o].iterator # node[m].iterator
          /\ node[m].iterator \in iterators /\ node[m].iterator \notin orphans
      BY <1>1, <1>5, <2>1 DEF Holding, ended
    <2> QED BY <1>1, <2>1, <2>2 DEF ended
  <1>6. \A l, m \in Nodes : l # m /\ node'[l].iterator # NoIterator =>
           node'[l].iterator # node'[m].iterator
    BY <1>5 DEF Holding
  <1>7. orphans' \subseteq iterators'
    <2>1. \A m \in others : node[m].iterator # NoIterator =>
             node[m].iterator \in iterators /\ node[m].iterator # node[n].iterator
      BY <1>1 DEF Holding
    <2>2. /\ orphans \subseteq iterators
          /\ node[n].iterator # NoIterator =>
                node[n].iterator \in iterators /\ node[n].iterator \notin orphans
          /\ node[n].iterator = NoIterator => NoIterator \notin iterators
      BY ExecutorAssumption DEF Holding, ExecTyped, ExecTypeOK
    <2> QED BY <1>1, <2>1, <2>2
  <1>8. ASSUME NEW i \in iterators', i \notin orphans'
        PROVE  \E m \in Nodes : node'[m].iterator = i
    <2>1. i \in iterators /\ i # NoIterator /\ i \notin orphans
      BY <1>1, <1>8, ExecutorAssumption DEF ExecTyped, ExecTypeOK
    <2>2. PICK m \in Nodes : node[m].iterator = i
      BY <2>1 DEF Holding
    <2>3. m \notin ended
      BY <1>1, <1>8, <2>1, <2>2 DEF ended
    <2> QED BY <1>2, <2>2, <2>3
  <1> QED BY <1>4, <1>5, <1>6, <1>7, <1>8 DEF Holding

\* Changing one node without touching the iterators.
LEMMA KeepIterator ==
    ASSUME ExecTyped, Holding, NEW n \in Nodes, NEW s,
           node' = [node EXCEPT ![n] = s],
           s.iterator = node[n].iterator,
           (s.phase = "open" /\ s.kind = "scan" /\ s.ctx # NoContext)
               <=> Running(n, "scan"),
           s.phase = "execute" => s.ctx # NoContext,
           UNCHANGED <<iterators, orphans>>
    PROVE  Holding'
  <1>1. \A m \in Nodes : node'[m] = IF m = n THEN s ELSE node[m]
    BY DEF ExecTyped, ExecTypeOK
  <1>2. \A m \in Nodes : node'[m].iterator = node[m].iterator
    BY <1>1
  <1>3. \A m \in Nodes : Running(m, "scan")' <=> Running(m, "scan")
    BY <1>1 DEF Running, Is
  <1>4. \A m \in Nodes : node'[m].phase = "execute" => node'[m].ctx # NoContext
    BY <1>1 DEF Holding
  <1> QED BY <1>2, <1>3, <1>4 DEF Holding

\* A scan that gives its iterator back, to be rescanned or to end.
LEMMA ReleaseIterator ==
    ASSUME ExecTyped, Holding, NEW n \in Nodes, NEW s,
           node' = [node EXCEPT ![n] = s],
           iterators' = iterators \ {node[n].iterator}, orphans' = orphans,
           s.iterator = NoIterator, s.phase \in {"idle", "execute"},
           s.phase = "execute" => s.ctx # NoContext
    PROVE  Holding'
  <1>1. \A m \in Nodes : node'[m] = IF m = n THEN s ELSE node[m]
    BY DEF ExecTyped, ExecTypeOK
  <1>2. \A m \in Nodes :
           /\ node'[m].iterator # NoIterator <=> Running(m, "scan")'
           /\ node'[m].phase = "execute" => node'[m].ctx # NoContext
    BY <1>1 DEF Running, Is, Holding
  <1>3. \A m \in Nodes : node'[m].iterator # NoIterator =>
           /\ m # n /\ node'[m] = node[m]
           /\ node[m].iterator \in iterators' /\ node[m].iterator \notin orphans
    BY <1>1 DEF Holding
  <1>4. \A l, m \in Nodes : l # m /\ node'[l].iterator # NoIterator =>
           node'[l].iterator # node'[m].iterator
    BY <1>3 DEF Holding
  <1>5. orphans' \subseteq iterators'
    BY ExecutorAssumption DEF Holding, ExecTyped, ExecTypeOK
  <1>6. ASSUME NEW i \in iterators', i \notin orphans'
        PROVE  \E m \in Nodes : node'[m].iterator = i
    <2>1. PICK m \in Nodes : node[m].iterator = i
      BY <1>6 DEF Holding
    <2>2. m # n
      BY <1>6, <2>1
    <2> QED BY <1>1, <2>1, <2>2
  <1> QED BY <1>2, <1>3, <1>4, <1>5, <1>6 DEF Holding

\* Every step hands iterators on and gives them back as Holding says.
LEMMA NextHolding ==
    ASSUME TypeOK, ExecTyped, Holding, [ExecNext]_allVars
    PROVE  Holding'
  <1>0. /\ \A n \in Nodes : node[n] \in NodeState
        /\ iterators \subseteq Iterators
        /\ caller = NoNode <=> depth = 0
    BY DEF ExecTyped, ExecTypeOK
  <1>1. CASE UNCHANGED nodeVars
    BY <1>1 DEF nodeVars, Holding, Running, Is
  <1>2. ASSUME NEW n \in Nodes, NEW kind \in Kinds, NEW t \in Tables,
               \/ \E u \in Users : BeginNode(n, kind, u, t)
               \/ BeginExplainOnly(n, kind, t)
        PROVE  Holding'
    <2>1. PICK phase \in {"begin", "open"} :
            node' = [node EXCEPT ![n] = [Idle EXCEPT !.phase = phase,
                                                     !.kind = kind, !.table = t]]
      BY <1>2 DEF BeginNode, BeginExplainOnly
    <2>2. node[n].phase = "idle" /\ UNCHANGED <<iterators, orphans>>
      BY <1>2 DEF BeginNode, BeginExplainOnly
    <2> DEFINE s == [Idle EXCEPT !.phase = phase, !.kind = kind, !.table = t]
    <2>3. s.iterator = NoIterator /\ s.ctx = NoContext /\ s.phase = phase
      BY DEF Idle
    <2>4. ~Running(n, "scan") /\ node[n].iterator = NoIterator
      BY <2>2 DEF Running, Is, Holding
    <2> HIDE DEF s
    <2> QED BY <2>1, <2>2, <2>3, <2>4, KeepIterator DEF s
  <1>3. CASE LookupError
    <2>1. caller \in Nodes /\ node[caller].phase = "begin"
      BY <1>0, <1>3
      DEF LookupError, GetMiss, GetFail, GetCancelled, InPhase, ExecTyped,
          ExecTypeOK
    <2>2. node[caller].iterator = NoIterator
      BY <2>1 DEF Holding, Running, Is
    <2> QED BY <1>3, <2>1, <2>2, AbortHolding DEF LookupError
  <1>4. CASE LookupReturn
    <2>1. caller \in Nodes /\ node[caller].phase = "begin"
      BY <1>0, <1>4
      DEF LookupReturn, GetReturn, InPhase, ExecTyped, ExecTypeOK
    <2>2. top.entry.ctx \in Contexts
      <3>1. top \in Frame /\ top.phase = "return"
        BY <1>4, TopFrame, TypeParts DEF LookupReturn, GetReturn, InPhase
      <3> QED BY <3>1 DEF Frame, FrameOf, Entry
    <2> DEFINE s == [node[caller] EXCEPT
                        !.phase = IF node[caller].kind = "scan"
                                  THEN "execute" ELSE "open",
                        !.ctx = top.entry.ctx]
    <2>3. node' = [node EXCEPT ![caller] = s]
      BY <1>4, <2>1 DEF LookupReturn
    <2>4. /\ s.iterator = node[caller].iterator /\ s.ctx # NoContext
          /\ s.kind = node[caller].kind
          /\ s.phase = IF node[caller].kind = "scan" THEN "execute" ELSE "open"
      BY <1>0, <2>1, <2>2, ExecutorAssumption DEF NodeState
    <2>5. ~Running(caller, "scan")
      BY <2>1 DEF Running, Is
    <2> HIDE DEF s
    <2> QED BY <1>4, <2>1, <2>3, <2>4, <2>5, KeepIterator DEF LookupReturn
  <1>5. ASSUME NEW n \in Nodes, CallExecute(n)
        PROVE  Holding'
    <2>1. PICK i \in Iterators \ iterators :
            /\ iterators' = iterators \cup {i} /\ orphans' = orphans
            /\ node' = [node EXCEPT ![n] =
                           [node[n] EXCEPT !.phase = "open", !.iterator = i]]
      BY <1>5 DEF CallExecute
    <2> DEFINE s == [node[n] EXCEPT !.phase = "open", !.iterator = i]
    <2>2. /\ s.phase = "open" /\ s.iterator = i /\ s.kind = "scan"
          /\ s.ctx # NoContext /\ i # NoIterator
      BY <1>0, <1>5, ExecutorAssumption DEF CallExecute, Is, NodeState, Holding
    <2>3. \A m \in Nodes : node'[m] = IF m = n THEN s ELSE node[m]
      BY <2>1 DEF ExecTyped, ExecTypeOK
    <2>4. node[n].iterator = NoIterator
      BY <1>5 DEF CallExecute, Is, Holding, Running
    <2> HIDE DEF s
    <2>5. \A m \in Nodes :
             /\ node'[m].iterator # NoIterator <=> Running(m, "scan")'
             /\ node'[m].phase = "execute" => node'[m].ctx # NoContext
      BY <2>2, <2>3 DEF Running, Is, Holding
    <2>6. \A m \in Nodes : node'[m].iterator # NoIterator =>
             node'[m].iterator \in iterators' /\ node'[m].iterator \notin orphans'
      BY <2>1, <2>2, <2>3 DEF Holding
    <2>7. \A l, m \in Nodes : l # m /\ node'[l].iterator # NoIterator =>
             node'[l].iterator # node'[m].iterator
      BY <2>1, <2>2, <2>3 DEF Holding
    <2>8. ASSUME NEW j \in iterators', j \notin orphans'
          PROVE  \E m \in Nodes : node'[m].iterator = j
      <3>1. CASE j = i
        BY <2>2, <2>3, <3>1
      <3>2. CASE j # i
        <4>1. PICK m \in Nodes : node[m].iterator = j
          BY <2>1, <2>8, <3>2 DEF Holding
        <4>2. m # n
          BY <1>0, <2>1, <2>4, <2>8, <3>2, <4>1, ExecutorAssumption
        <4> QED BY <2>3, <4>1, <4>2
      <3> QED BY <3>1, <3>2
    <2>9. orphans' \subseteq iterators'
      BY <2>1 DEF Holding
    <2> QED BY <2>5, <2>6, <2>7, <2>8, <2>9 DEF Holding
  <1>6. ASSUME NEW n \in Nodes,
               \/ CallExecuteThrows(n) \/ IterateThrows(n)
               \/ IterateConvertError(n) \/ MethodError(n)
        PROVE  Holding'
    <2>1. CASE CallExecuteThrows(n) \/ MethodError(n)
      <3>1. node[n].iterator = NoIterator
        BY <2>1 DEF CallExecuteThrows, MethodError, Holding, Running, Is
      <3> QED BY <2>1, <3>1, AbortHolding DEF CallExecuteThrows, MethodError
    <2>2. CASE IterateThrows(n)
      BY <2>2, AbortHolding DEF IterateThrows
    <2>3. CASE IterateConvertError(n)
      <3>1. node[n].iterator # NoIterator
        BY <2>3 DEF IterateConvertError, Holding
      <3>2. {node[n].iterator} = {node[n].iterator} \ {NoIterator}
        BY <3>1
      <3> QED BY <2>3, <3>2, AbortHolding DEF IterateConvertError
    <2> QED BY <1>6, <2>1, <2>2, <2>3
  <1>7. ASSUME NEW n \in Nodes,
               \/ pljs_fdw_iterate_foreign_scan(n) \/ ExecForeignModify(n)
               \/ pljs_fdw_iterate_direct_modify(n)
        PROVE  Holding'
    <2>1. PICK slot \in {"empty", "row"}, executed \in BOOLEAN :
            node' = [node EXCEPT ![n] = [node[n] EXCEPT !.slot = slot,
                                                        !.executed = executed]]
      <3>1. /\ \A v : [node[n] EXCEPT !.slot = v] =
                        [node[n] EXCEPT !.slot = v, !.executed = node[n].executed]
            /\ [node[n] EXCEPT !.executed = TRUE] =
                  [node[n] EXCEPT !.slot = node[n].slot, !.executed = TRUE]
            /\ node[n].executed \in BOOLEAN /\ node[n].slot \in {"empty", "row"}
        BY <1>0 DEF NodeState
      <3> QED BY <1>7, <3>1
              DEF pljs_fdw_iterate_foreign_scan, ExecForeignModify,
                  pljs_fdw_iterate_direct_modify
    <2> DEFINE s == [node[n] EXCEPT !.slot = slot, !.executed = executed]
    <2>2. /\ s.iterator = node[n].iterator /\ s.phase = node[n].phase
          /\ s.kind = node[n].kind /\ s.ctx = node[n].ctx
      BY <1>0 DEF NodeState
    <2>3. (s.phase = "open" /\ s.kind = "scan" /\ s.ctx # NoContext)
              <=> Running(n, "scan")
      BY <2>2 DEF Running, Is
    <2>4. s.phase = "execute" => s.ctx # NoContext
      BY <2>2 DEF Holding
    <2>5. UNCHANGED <<iterators, orphans>>
      BY <1>7
      DEF pljs_fdw_iterate_foreign_scan, ExecForeignModify,
          pljs_fdw_iterate_direct_modify
    <2> HIDE DEF s
    <2> QED BY <2>1, <2>2, <2>3, <2>4, <2>5, KeepIterator DEF s
  <1>8. ASSUME NEW n \in Nodes, pljs_fdw_rescan_foreign_scan(n)
        PROVE  Holding'
    <2> DEFINE s == [node[n] EXCEPT !.phase = "execute", !.iterator = NoIterator]
    <2>1. s.phase = "execute" /\ s.iterator = NoIterator /\ s.ctx # NoContext
      BY <1>0, <1>8 DEF pljs_fdw_rescan_foreign_scan, Running, NodeState
    <2>2. /\ node' = [node EXCEPT ![n] = s] /\ orphans' = orphans
          /\ iterators' = iterators \ {node[n].iterator}
      BY <1>8 DEF pljs_fdw_rescan_foreign_scan
    <2> HIDE DEF s
    <2> QED BY <2>1, <2>2, ReleaseIterator
  <1>9. ASSUME NEW n \in Nodes, pljs_fdw_end_foreign_scan(n) \/ EndModify(n)
        PROVE  Holding'
    <2>1. /\ node' = [node EXCEPT ![n] = Idle] /\ orphans' = orphans
          /\ iterators' = iterators \ {node[n].iterator}
      <3>1. CASE pljs_fdw_end_foreign_scan(n)
        BY <3>1 DEF pljs_fdw_end_foreign_scan
      <3>2. CASE EndModify(n)
        <4>1. node[n].iterator = NoIterator
          BY <3>2 DEF EndModify, Holding, Running, Is
        <4> QED BY <1>0, <3>2, <4>1, ExecutorAssumption DEF EndModify
      <3> QED BY <1>9, <3>1, <3>2
    <2> QED BY <2>1, IdleType, ReleaseIterator
  <1>10. CASE OuterError
    <2>1. PICK n \in OpenNodes : Abort(n, {node[n].iterator} \ {NoIterator})
      BY <1>10 DEF OuterError
    <2> QED BY <1>10, <2>1, AbortHolding DEF OuterError, OpenNodes
  <1> QED BY <1>1, <1>2, <1>3, <1>4, <1>5, <1>6, <1>7, <1>8, <1>9, <1>10
          DEF ExecNext, Environment, LookupStep, ScanStep, ModifyStep, allVars

\* The joint invariant.
LEMMA ExecInvariant == ExecSpec => [](TypeOK /\ ExecTyped /\ Holding)
  <1>1. ExecInit => TypeOK /\ ExecTyped /\ Holding
    <2> SUFFICES ASSUME ExecInit PROVE TypeOK /\ ExecTyped /\ Holding
      OBVIOUS
    <2>1. TypeOK
      BY InitType DEF ExecInit
    <2>2. ExecTyped
      BY IdleType, ExecutorAssumption DEF ExecInit, Init, ExecTyped, ExecTypeOK
    <2>3. Holding
      BY IdleType DEF ExecInit, Holding, Running, Is
    <2> QED BY <2>1, <2>2, <2>3
  <1>2. TypeOK /\ ExecTyped /\ Holding /\ [ExecNext]_allVars
        => (TypeOK /\ ExecTyped /\ Holding)'
    BY NextType, ExecIsCacheStep, ExecNextType, NextHolding
  <1> QED BY <1>1, <1>2, PTL DEF ExecSpec

\* Node states are well formed and at most one of them waits for a call of
\* get_or_create_instance, whatever callbacks fail.
THEOREM ExecTypeCorrect == ExecSpec => []ExecTypeOK
  BY ExecInvariant, PTL DEF ExecTyped

\* An iterator is never used after it was freed, nor freed twice: every open
\* scan holds a referenced iterator that no other scan holds.
THEOREM IteratorsHeld == ExecSpec => []ScansHoldIterators
  <1>1. Holding => ScansHoldIterators
    BY DEF Holding, ScansHoldIterators, OpenScans
  <1> QED BY <1>1, ExecInvariant, PTL

\* An iterator stays referenced only as long as its scan is open, or for good if
\* an ERROR went past pljs_fdw_free_scan_state: rescans, ends and exceptions of
\* next() leave none behind, for any number of nodes that abort each other, and
\* none that was left behind is freed later.
THEOREM LeakedOnlyByErrors == ExecSpec => []OnlyErrorsLeak
  <1>1. ExecTyped /\ Holding => OnlyErrorsLeak
    <2> SUFFICES ASSUME ExecTyped, Holding PROVE OnlyErrorsLeak
      OBVIOUS
    <2>1. ASSUME NEW i \in iterators, i \notin orphans
          PROVE  i \in Held
      <3>1. PICK n \in Nodes : node[n].iterator = i
        BY <2>1 DEF Holding
      <3>2. i # NoIterator
        BY <2>1, ExecutorAssumption DEF ExecTyped, ExecTypeOK
      <3>3. n \in OpenScans
        BY <3>1, <3>2 DEF Holding, OpenScans
      <3> QED BY <3>1, <3>3 DEF Held
    <2>2. orphans \subseteq iterators
      BY DEF Holding
    <2>3. Held \cap orphans = {}
      BY DEF Holding, OpenScans, Held
    <2> QED BY <2>1, <2>2, <2>3 DEF OnlyErrorsLeak
  <1> QED BY <1>1, ExecInvariant, PTL
=============================================================================
