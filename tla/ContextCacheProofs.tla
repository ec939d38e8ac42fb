-------------------------- MODULE ContextCacheProofs --------------------------
(***************************************************************************)
(* Proofs about ContextCache, for every value of its constants.            *)
(***************************************************************************)
EXTENDS ContextCache, TLAPS

-----------------------------------------------------------------------------
(* The option helpers *)

\* The merged options of a server, a mapping and a table are an option list.
LEMMA BuildOptionsType ==
    ASSUME NEW a \in OptionList, NEW b \in OptionList, NEW c \in OptionList
    PROVE  pljs_fdw_build_options(a, b, c) \in OptionList
  BY DEF pljs_fdw_build_options, SetProperties, OptionList, NoOptions, Given

\* The empty option list passes the validator of every catalog.
LEMMA NoOptionsType ==
    /\ NoOptions \in OptionList
    /\ NoOptions \in ServerOptions
    /\ NoOptions \in TableOptions
  BY DEF NoOptions, OptionList, ServerOptions, TableOptions,
         pljs_fdw_validator, Given

\* The options taken from a user mapping are an option list, the empty one
\* for a role without a mapping.
LEMMA UserMappingOptionsType ==
    ASSUME NEW m \in [Users \cup {Public} -> MappingOptions \cup {NoMapping}],
           NEW u \in Users
    PROVE  UserMappingOptions(m, u) \in OptionList
  <1>1. CASE m[u] # NoMapping
    BY <1>1 DEF UserMappingOptions, pljs_fdw_has_user_mapping, GetUserMapping,
                MappingOptions
  <1>2. CASE m[u] = NoMapping /\ m[Public] # NoMapping
    BY <1>2 DEF UserMappingOptions, pljs_fdw_has_user_mapping, GetUserMapping,
                MappingOptions
  <1>3. CASE m[u] = NoMapping /\ m[Public] = NoMapping
    BY <1>3, NoOptionsType DEF UserMappingOptions, pljs_fdw_has_user_mapping
  <1> QED BY <1>1, <1>2, <1>3

\* A module path is absent or not empty, because the validator has admitted
\* the lists it comes from.
LEMMA ModulePathType ==
    ASSUME NEW srv \in ServerOptions, NEW tab \in TableOptions,
           ModulePath(srv, tab) # NoValue
    PROVE  ModulePath(srv, tab) \in Paths
  BY OptionAssumption
  DEF ServerOptions, TableOptions, ModulePath, pljs_fdw_get_option,
      pljs_fdw_validator, Given, RecognizedOptions, OptionList, Paths

-----------------------------------------------------------------------------
(* The stack of calls *)

FramesOK ==
    /\ depth \in 0..MaxDepth
    /\ frame \in [1..MaxDepth -> Frame \cup {NoFrame}]
    /\ \A d \in 1..MaxDepth : d <= depth <=> frame[d] # NoFrame

\* Every call on the stack has a frame.
LEMMA StackedFrame ==
    ASSUME FramesOK
    PROVE  \A d \in 1..depth : d \in 1..MaxDepth /\ frame[d] \in Frame
  BY CacheAssumption DEF FramesOK

\* The top of the stack is the frame of the call that runs.
LEMMA TopFrame ==
    ASSUME FramesOK, depth > 0
    PROVE  depth \in 1..MaxDepth /\ top \in Frame
  BY StackedFrame DEF FramesOK, top

\* Popping and replacing the top frame keep the stack well formed.
LEMMA PopOK ==
    ASSUME FramesOK, depth > 0, Pop
    PROVE  FramesOK'
  BY CacheAssumption DEF FramesOK, Pop

\* Replacing the top frame by another frame keeps the stack well formed.
LEMMA SetTopOK ==
    ASSUME FramesOK, depth > 0, NEW f \in Frame, SetTop(f), depth' = depth
    PROVE  FramesOK'
  BY CacheAssumption DEF FramesOK, SetTop

-----------------------------------------------------------------------------
(* Type correctness *)

CatalogOK ==
    /\ catalog \in Catalog
    /\ syscache \in Catalog
    /\ unread \in SUBSET Syscaches
    /\ pending \in BOOLEAN
    /\ ddl \in Nat

ModulesOK ==
    /\ modules \in ModuleTable
    /\ txn \in Transaction \cup {NoTxn}
    /\ xid \in Nat

CacheOK ==
    /\ cache \in [Keys -> Entry \cup {NoEntry}]
    /\ live \in SUBSET Contexts

\* The type invariant, split into the parts that steps disturb separately.
LEMMA TypeParts == TypeOK <=> CatalogOK /\ ModulesOK /\ CacheOK /\ FramesOK
  BY DEF TypeOK, CatalogOK, ModulesOK, CacheOK, FramesOK

\* The initial state has the type.
LEMMA InitType == Init => TypeOK
  <1> SUFFICES ASSUME Init PROVE TypeOK
    OBVIOUS
  <1>1. catalog \in Catalog
    <2>1. PICK p \in Paths :
            catalog = [srv |-> [NoOptions EXCEPT !["module"] = p],
                       tab |-> [t \in Tables |-> NoOptions],
                       um  |-> [u \in Users \cup {Public} |-> NoMapping]]
      BY DEF Init
    <2>2. [NoOptions EXCEPT !["module"] = p] \in ServerOptions
      BY OptionAssumption
      DEF NoOptions, OptionList, ServerOptions, pljs_fdw_validator, Given,
          RecognizedOptions, Paths
    <2> QED BY <2>1, <2>2, NoOptionsType DEF Catalog
  <1>2. CatalogOK
    BY <1>1 DEF Init, CatalogOK
  <1>3. ModulesOK
    BY DEF Init, ModulesOK, ModuleTable, Row, FirstXid
  <1>4. CacheOK
    BY DEF Init, CacheOK
  <1>5. FramesOK
    BY CacheAssumption DEF Init, FramesOK
  <1> QED BY <1>2, <1>3, <1>4, <1>5, TypeParts

\* ALTER keeps the catalogs within what the validator admits.
LEMMA CatalogType ==
    ASSUME CatalogOK, ChangeCatalog \/ AcceptInvalidationMessages
    PROVE  CatalogOK'
  <1>1. ASSUME NEW o \in OptionList, AlterServer(o)
        PROVE  CatalogOK'
    BY <1>1 DEF CatalogOK, AlterServer, ChangeOptions, Catalog, ServerOptions,
                Syscaches
  <1>2. ASSUME NEW t \in Tables, NEW o \in OptionList, AlterTable(t, o)
        PROVE  CatalogOK'
    BY <1>2 DEF CatalogOK, AlterTable, ChangeOptions, Catalog, TableOptions,
                Syscaches
  <1>3. ASSUME NEW u \in Users \cup {Public},
               NEW o \in MappingInputs \cup {NoMapping}, AlterUserMapping(u, o)
        PROVE  CatalogOK'
    BY <1>3, CacheAssumption
    DEF CatalogOK, AlterUserMapping, ChangeOptions, Catalog, MappingOptions,
        Syscaches
  <1>4. CASE AcceptInvalidationMessages
    BY <1>4 DEF CatalogOK, AcceptInvalidationMessages,
                pljs_fdw_syscache_callback
  <1> QED BY <1>1, <1>2, <1>3, <1>4 DEF ChangeCatalog

\* Writers of pljs.modules keep the types.
LEMMA ModulesType ==
    ASSUME ModulesOK, ChangeModules
    PROVE  ModulesOK'
  <1>1. /\ WriterXid \in Nat
        /\ UndoTable \in ModuleTable
        /\ BurnedTids \in SUBSET Tids
    BY CacheAssumption
    DEF ModulesOK, WriterXid, UndoTable, BurnedTids, Transaction
  <1>2. ASSUME NEW p \in Paths, NEW s \in Sources, WriteModule(p, s)
        PROVE  ModulesOK'
    <2>1. PICK t \in FreeTids :
            /\ modules' = [modules EXCEPT
                  ![p] = [xmin |-> WriterXid, tid |-> t, source |-> s]]
            /\ txn' = [undo |-> UndoTable, burned |-> BurnedTids \cup {t}]
            /\ xid' = WriterXid
      BY <1>2 DEF WriteModule
    <2>2. t \in Tids
      BY DEF FreeTids
    <2> QED BY <1>1, <2>1, <2>2
            DEF ModulesOK, ModuleTable, Row, Transaction
  <1>3. ASSUME NEW p \in Paths, DeleteModule(p)
        PROVE  ModulesOK'
    BY <1>1, <1>3 DEF DeleteModule, ModulesOK, ModuleTable, Transaction
  <1>4. CASE CommitModules
    BY <1>4 DEF CommitModules, EndWriter, ModulesOK
  <1>5. CASE AbortModules
    BY <1>5 DEF AbortModules, EndWriter, ModulesOK, Transaction
  <1>6. CASE FreezeModules
    BY <1>6 DEF FreezeModules, ModulesOK, ModuleTable, Row, FrozenXid
  <1> QED BY <1>2, <1>3, <1>4, <1>5, <1>6 DEF ChangeModules

\* The frame of a call that has just made its context.
LEMMA StartedFrameType ==
    ASSUME top \in Frame, NEW c \in Contexts, NEW p \in Paths,
           NEW srv \in ServerOptions, NEW tab \in TableOptions
    PROVE  LET f == StartedFrame(srv, tab, p, c)
           IN  /\ f \in Frame
               /\ f.phase = "require"
               /\ f.user = top.user /\ f.table = top.table
               /\ f.snap = top.snap /\ f.srv = srv /\ f.tab = tab
               /\ f.entry.ctx = c /\ f.entry.path = p
  BY NoOptionsType DEF StartedFrame, Frame, FrameOf, Entry, InvalidXid

\* The frame of a call that has loaded its module.
LEMMA LoadedFrameType ==
    ASSUME top \in Frame, top.phase = "require", NEW row \in Row,
           NEW um \in [Users \cup {Public} -> MappingOptions \cup {NoMapping}]
    PROVE  LET f == LoadedFrame(row, um)
           IN  /\ f \in Frame
               /\ f.phase = "construct"
               /\ f.user = top.user /\ f.table = top.table
               /\ f.snap = top.snap /\ f.srv = top.srv /\ f.tab = top.tab
               /\ f.entry.ctx = top.entry.ctx
               /\ f.entry.path = top.entry.path
               /\ f.entry.xmin = row.xmin
               /\ f.entry.tid = row.tid
               /\ f.entry.source = row.source
               /\ f.entry.options = pljs_fdw_build_options(
                     top.srv, UserMappingOptions(um, top.user), top.tab)
  <1> DEFINE merged == pljs_fdw_build_options(
                top.srv, UserMappingOptions(um, top.user), top.tab)
             e == [top.entry EXCEPT
                !.xmin = row.xmin, !.tid = row.tid, !.source = row.source,
                !.options = merged]
  <1>1. top.entry \in Entry /\ top.srv \in OptionList /\ top.tab \in OptionList
          /\ top.user \in Users
    BY DEF Frame, FrameOf, ServerOptions, TableOptions
  <1>2. merged \in OptionList
    BY <1>1, UserMappingOptionsType, BuildOptionsType
  <1> HIDE DEF merged
  <1>3. /\ e \in Entry /\ e.ctx = top.entry.ctx /\ e.path = top.entry.path
        /\ e.xmin = row.xmin /\ e.tid = row.tid /\ e.source = row.source
        /\ e.options = merged
    BY <1>1, <1>2 DEF Entry, Row
  <1>4. LoadedFrame(row, um) = [top EXCEPT !.phase = "construct", !.entry = e]
    BY DEF LoadedFrame, merged
  <1> HIDE DEF e
  <1>5. LET f == [top EXCEPT !.phase = "construct", !.entry = e]
        IN  /\ f \in Frame /\ f.phase = "construct" /\ f.entry = e
            /\ f.user = top.user /\ f.table = top.table
            /\ f.snap = top.snap /\ f.srv = top.srv /\ f.tab = top.tab
    BY <1>3 DEF Frame, FrameOf
  <1> QED BY <1>3, <1>4, <1>5 DEF merged

\* What a call that misses does: it fails for lack of a module, or starts to
\* build from options the validator admitted.
LEMMA MissCases ==
    ASSUME CatalogOK, FramesOK, GetMiss
    PROVE  \/ live' = LiveAfterEviction /\ Pop
           \/ \E srv \in {syscache.srv, catalog.srv} \cap ServerOptions,
                 tab \in {syscache.tab[top.table], catalog.tab[top.table]}
                             \cap TableOptions,
                 c \in Contexts \ LiveAfterEviction :
                 /\ ModulePath(srv, tab) # NoValue
                 /\ live' = LiveAfterEviction \cup {c}
                 /\ SetTop(StartedFrame(srv, tab, ModulePath(srv, tab), c))
                 /\ depth' = depth
  <1>1. depth > 0 /\ top \in Frame
    BY TopFrame DEF GetMiss, InPhase
  <1>2. PICK tableView \in {syscache, catalog}, serverView \in {syscache, catalog} :
          LET srv  == serverView.srv
              tab  == tableView.tab[top.table]
              path == ModulePath(srv, tab)
          IN  IF path = NoValue
              THEN Pop /\ live' = LiveAfterEviction
              ELSE \E c \in Contexts \ LiveAfterEviction :
                      /\ live' = LiveAfterEviction \cup {c}
                      /\ SetTop(StartedFrame(srv, tab, path, c))
                      /\ UNCHANGED depth
    BY DEF GetMiss
  <1>3. /\ serverView.srv \in {syscache.srv, catalog.srv} \cap ServerOptions
        /\ tableView.tab[top.table]
              \in {syscache.tab[top.table], catalog.tab[top.table]}
                     \cap TableOptions
    BY <1>1 DEF CatalogOK, Catalog, Frame, FrameOf
  <1> QED BY <1>2, <1>3

\* What a call does whose module loads.
LEMMA RequireCases ==
    ASSUME CatalogOK, FramesOK, GetRequire
    PROVE  \E row \in Row,
              um \in [Users \cup {Public} -> MappingOptions \cup {NoMapping}] :
              /\ row = top.snap[top.entry.path]
              /\ um \in {syscache.um, catalog.um}
              /\ SetTop(LoadedFrame(row, um))
  <1>1. depth > 0 /\ top \in Frame /\ top.phase = "require"
    BY TopFrame DEF GetRequire, InPhase
  <1>2. top.snap[top.entry.path] \in Row
    BY <1>1 DEF GetRequire, pljs_fdw_module_row_version, Frame, FrameOf,
                ModuleTable, Entry
  <1>3. PICK view \in {syscache, catalog} :
          SetTop(LoadedFrame(top.snap[top.entry.path], view.um))
    BY DEF GetRequire, pljs_fdw_module_row_version
  <1>4. view.um \in [Users \cup {Public} -> MappingOptions \cup {NoMapping}]
    BY DEF CatalogOK, Catalog
  <1> QED BY <1>2, <1>3, <1>4

\* The steps of pljs_fdw_get_or_create_instance keep the types.
LEMMA CallType ==
    ASSUME TypeOK,
           GetStep \/ \E u \in Users, t \in Tables : GetBegin(u, t)
    PROVE  CacheOK' /\ FramesOK' /\ pending' \in BOOLEAN
  <1>0. CatalogOK /\ ModulesOK /\ CacheOK /\ FramesOK
    BY TypeParts
  <1>1. ASSUME NEW u \in Users, NEW t \in Tables, GetBegin(u, t)
        PROVE  CacheOK' /\ FramesOK' /\ pending' \in BOOLEAN
    <2>1. CacheOK' /\ pending' \in BOOLEAN
      BY <1>0, <1>1 DEF GetBegin, pljs_fdw_check_invalidation, CacheOK
    <2>2. [phase |-> "lookup", user |-> u, table |-> t, snap |-> modules,
           srv |-> NoOptions, tab |-> NoOptions, entry |-> NoEntry] \in Frame
      BY <1>0, NoOptionsType DEF ModulesOK, Frame, FrameOf
    <2>3. FramesOK'
      BY <1>0, <1>1, <2>2, CacheAssumption DEF GetBegin, FramesOK
    <2> QED BY <2>1, <2>3
  <1>2. CASE GetHit
    <2>1. depth > 0 /\ top \in Frame
      BY <1>0, <1>2, TopFrame DEF GetHit, InPhase
    <2>2. [top EXCEPT !.phase = "return", !.entry = cache[TopKey]] \in Frame
      BY <1>0, <1>2, <2>1
      DEF GetHit, pljs_fdw_cache_find, Frame, FrameOf, CacheOK, Keys, TopKey
    <2> QED BY <1>0, <1>2, <2>1, <2>2, SetTopOK
            DEF GetHit, CacheOK, CatalogOK, pljs_fdw_cache_find, TopKey
  <1>3. CASE GetMiss
    <2>1. depth > 0 /\ top \in Frame
      BY <1>0, <1>3, TopFrame DEF GetMiss, InPhase
    <2>2. cache' \in [Keys -> Entry \cup {NoEntry}] /\ pending' \in BOOLEAN
      BY <1>0, <1>3 DEF GetMiss, CacheAfterEviction, CacheOK, CatalogOK
    <2>3. LiveAfterEviction \in SUBSET Contexts
      BY <1>0 DEF LiveAfterEviction, CacheOK
    <2>4. CASE live' = LiveAfterEviction /\ Pop
      BY <1>0, <2>1, <2>2, <2>3, <2>4, PopOK DEF CacheOK
    <2>5. ASSUME NEW srv \in ServerOptions, NEW tab \in TableOptions,
                 NEW c \in Contexts, ModulePath(srv, tab) # NoValue,
                 live' = LiveAfterEviction \cup {c}, depth' = depth,
                 SetTop(StartedFrame(srv, tab, ModulePath(srv, tab), c))
          PROVE  CacheOK' /\ FramesOK' /\ pending' \in BOOLEAN
      <3>1. StartedFrame(srv, tab, ModulePath(srv, tab), c) \in Frame
        BY <2>1, <2>5, ModulePathType, StartedFrameType
      <3> QED BY <1>0, <2>1, <2>2, <2>3, <2>5, <3>1, SetTopOK DEF CacheOK
    <2> QED BY <1>0, <1>3, <2>4, <2>5, MissCases
  <1>4. CASE GetRequire
    <2>1. depth > 0 /\ top \in Frame
      BY <1>0, <1>4, TopFrame DEF GetRequire, InPhase
    <2>2. PICK row \in Row,
               um \in [Users \cup {Public} -> MappingOptions \cup {NoMapping}] :
            SetTop(LoadedFrame(row, um))
      BY <1>0, <1>4, RequireCases
    <2>3. LoadedFrame(row, um) \in Frame
      BY <1>4, <2>1, LoadedFrameType DEF GetRequire, InPhase
    <2>4. depth' = depth /\ CacheOK' /\ pending' \in BOOLEAN
      BY <1>0, <1>4 DEF GetRequire, CacheOK, CatalogOK
    <2> QED BY <1>0, <2>1, <2>2, <2>3, <2>4, SetTopOK
  <1>5. CASE GetFail \/ GetCancelled \/ GetConstructDuplicate \/ GetReturn
    <2>1. depth > 0 /\ Pop
      BY <1>5 DEF GetFail, GetCancelled, GetConstructDuplicate, GetReturn,
                  InPhase
    <2>2. CacheOK' /\ pending' \in BOOLEAN
      BY <1>0, <1>5 DEF GetFail, GetCancelled, GetConstructDuplicate, GetReturn,
                        CacheOK, CatalogOK
    <2> QED BY <1>0, <2>1, <2>2, PopOK
  <1>6. CASE GetConstruct
    <2>1. depth > 0 /\ top \in Frame /\ top.phase = "construct"
      BY <1>0, <1>6, TopFrame DEF GetConstruct, InPhase
    <2>2. [top EXCEPT !.phase = "return"] \in Frame
      BY <2>1 DEF Frame, FrameOf
    <2>3. top.entry \in Entry
      BY <2>1 DEF Frame, FrameOf
    <2>4. CacheOK' /\ pending' \in BOOLEAN /\ depth' = depth
      BY <1>0, <1>6, <2>3 DEF GetConstruct, CacheOK, CatalogOK
    <2>5. FramesOK'
      BY <1>0, <1>6, <2>1, <2>2, <2>4, SetTopOK DEF GetConstruct
    <2> QED BY <2>4, <2>5
  <1> QED BY <1>1, <1>2, <1>3, <1>4, <1>5, <1>6 DEF GetStep

\* Every step keeps the types.
LEMMA NextType == TypeOK /\ [Next]_vars => TypeOK'
  <1> SUFFICES ASSUME TypeOK, [Next]_vars PROVE TypeOK'
    OBVIOUS
  <1>0. CatalogOK /\ ModulesOK /\ CacheOK /\ FramesOK
    BY TypeParts
  <1>1. CASE ChangeCatalog \/ AcceptInvalidationMessages
    <2>1. UNCHANGED <<moduleVars, callVars>>
      BY <1>1 DEF ChangeCatalog, AlterServer, AlterTable, AlterUserMapping,
                  ChangeOptions, AcceptInvalidationMessages
    <2>2. CatalogOK'
      BY <1>0, <1>1, CatalogType
    <2> QED BY <1>0, <2>1, <2>2
            DEF TypeOK, CatalogOK, ModulesOK, CacheOK, FramesOK, moduleVars,
                callVars
  <1>2. CASE ChangeModules
    <2>1. UNCHANGED <<catalogVars, pending, callVars>>
      BY <1>2 DEF ChangeModules, WriteModule, DeleteModule, CommitModules,
                  AbortModules, EndWriter, FreezeModules
    <2>2. ModulesOK'
      BY <1>0, <1>2, ModulesType
    <2> QED BY <1>0, <2>1, <2>2
            DEF TypeOK, CatalogOK, ModulesOK, CacheOK, FramesOK, catalogVars,
                callVars
  <1>3. CASE GetStep \/ \E u \in Users, t \in Tables : GetBegin(u, t)
    <2>1. UNCHANGED <<catalogVars, moduleVars>>
      BY <1>3 DEF GetStep, GetBegin, GetHit, GetMiss, GetRequire, GetFail,
                  GetCancelled, GetConstruct, GetConstructDuplicate, GetReturn
    <2>2. CacheOK' /\ FramesOK' /\ pending' \in BOOLEAN
      BY <1>3, CallType
    <2> QED BY <1>0, <2>1, <2>2
            DEF TypeOK, CatalogOK, ModulesOK, CacheOK, FramesOK, catalogVars,
                moduleVars
  <1>4. CASE UNCHANGED vars
    BY <1>0, <1>4
    DEF TypeOK, vars, catalogVars, moduleVars, callVars
  <1> QED BY <1>1, <1>2, <1>3, <1>4 DEF Next

\* TypeOK is an invariant: whatever DDL, module writes and nested calls do,
\* cached entries and the frames of get_or_create_instance are well formed,
\* and a cached module path is one the validator admitted.
THEOREM TypeCorrect == Spec => []TypeOK
  BY InitType, NextType, PTL DEF Spec

-----------------------------------------------------------------------------
(* Ownership of contexts *)

\* ContextsExclusive, entry by entry and call by call.
Exclusive ==
    /\ \A k \in Keys : cache[k] # NoEntry => cache[k].ctx \in live
    /\ \A d \in Building : frame[d].entry.ctx \in live
    /\ \A k \in Keys, d \in Building :
          cache[k] # NoEntry => cache[k].ctx # frame[d].entry.ctx
    /\ \A j, k \in Keys :
          j # k /\ cache[j] # NoEntry /\ cache[k] # NoEntry
          => cache[j].ctx # cache[k].ctx
    /\ \A c, d \in Building : c # d => frame[c].entry.ctx # frame[d].entry.ctx

\* ContextsExclusive, said context by context.
LEMMA ExclusivePointwise == ContextsExclusive <=> Exclusive
  BY DEF ContextsExclusive, Exclusive, CachedContexts, BuildingContexts

\* The calls that remain building when a step leaves or replaces the top.
LEMMA BuildingAfterPop ==
    ASSUME FramesOK, depth > 0, Pop
    PROVE  /\ Building' = Building \ {depth}
           /\ \A d \in Building' : frame'[d] = frame[d]
  BY StackedFrame DEF FramesOK, Pop, Building

\* A frame that replaces the top decides whether its call is building.
LEMMA BuildingAfterSetTop ==
    ASSUME FramesOK, depth > 0, NEW f \in Frame, SetTop(f), depth' = depth
    PROVE  /\ \A d \in Building' \ {depth} : d \in Building /\ frame'[d] = frame[d]
           /\ frame'[depth] = f
           /\ depth \in Building' <=> f.phase \in {"require", "construct"}
  BY StackedFrame DEF FramesOK, SetTop, Building

\* Every step keeps contexts exclusive.
LEMMA ExclusiveStep ==
    ASSUME TypeOK, TypeOK', Exclusive, [Next]_vars
    PROVE  Exclusive'
  <1>0. /\ CatalogOK /\ ModulesOK /\ CacheOK /\ FramesOK
        /\ CacheOK' /\ FramesOK'
    BY DEF TypeOK, CatalogOK, ModulesOK, CacheOK, FramesOK
  <1>1. CASE UNCHANGED callVars
    BY <1>1 DEF callVars, Exclusive, Building
  <1>2. ASSUME NEW u \in Users, NEW t \in Tables, GetBegin(u, t)
        PROVE  Exclusive'
    <2>1. /\ Building' = Building
          /\ \A d \in Building : frame'[d] = frame[d]
      BY <1>0, <1>2, StackedFrame, CacheAssumption
      DEF GetBegin, FramesOK, Building
    <2>2. CASE pending
      BY <1>2, <2>1, <2>2
      DEF GetBegin, pljs_fdw_check_invalidation, Exclusive, CachedContexts
    <2>3. CASE ~pending
      BY <1>2, <2>1, <2>3
      DEF GetBegin, pljs_fdw_check_invalidation, Exclusive
    <2> QED BY <2>2, <2>3
  <1>3. CASE GetHit
    <2>1. depth > 0 /\ depth \in 1..MaxDepth /\ top \in Frame
      BY <1>0, <1>3, TopFrame DEF GetHit, InPhase
    <2>2. Building' = Building /\ \A d \in Building : frame'[d] = frame[d]
      BY <1>0, <1>3, <2>1, StackedFrame
      DEF GetHit, InPhase, FramesOK, Building, SetTop, top, Frame, FrameOf
    <2> QED BY <1>3, <2>2 DEF GetHit, Exclusive
  <1>4. CASE GetMiss
    <2>1. depth > 0 /\ depth \in 1..MaxDepth /\ top \in Frame
             /\ top.phase = "lookup" /\ TopKey \in Keys
      BY <1>0, <1>4, TopFrame DEF GetMiss, InPhase, Keys, TopKey, Frame, FrameOf
    <2>2. depth \notin Building
      BY <2>1 DEF Building, top
    <2>3. \A d \in Building : frame[d].entry.ctx \in LiveAfterEviction
      BY <2>1 DEF Exclusive, LiveAfterEviction
    <2>4. \A k \in Keys : cache'[k] # NoEntry =>
              cache'[k] = cache[k] /\ cache[k].ctx \in LiveAfterEviction
      BY <1>0, <1>4, <2>1
      DEF GetMiss, Exclusive, LiveAfterEviction, CacheAfterEviction, CacheOK
    <2>5. CASE live' = LiveAfterEviction /\ Pop
      BY <1>0, <2>1, <2>3, <2>4, <2>5, BuildingAfterPop DEF Exclusive
    <2>6. ASSUME NEW srv \in ServerOptions, NEW tab \in TableOptions,
                 NEW c \in Contexts \ LiveAfterEviction,
                 ModulePath(srv, tab) # NoValue,
                 live' = LiveAfterEviction \cup {c}, depth' = depth,
                 SetTop(StartedFrame(srv, tab, ModulePath(srv, tab), c))
          PROVE  Exclusive'
      <3> DEFINE f == StartedFrame(srv, tab, ModulePath(srv, tab), c)
      <3>1. f \in Frame /\ f.entry.ctx = c
        BY <2>1, <2>6, ModulePathType, StartedFrameType
      <3> HIDE DEF f
      <3>2. /\ \A d \in Building' \ {depth} : d \in Building /\ frame'[d] = frame[d]
            /\ frame'[depth] = f
        BY <1>0, <2>1, <2>6, <3>1, BuildingAfterSetTop DEF f
      <3> QED BY <2>3, <2>4, <2>6, <3>1, <3>2 DEF Exclusive
    <2> QED BY <1>0, <1>4, <2>5, <2>6, MissCases
  <1>5. CASE GetRequire
    <2>1. depth > 0 /\ depth \in 1..MaxDepth /\ top \in Frame
             /\ top.phase = "require" /\ depth' = depth
             /\ cache' = cache /\ live' = live
      BY <1>0, <1>5, TopFrame DEF GetRequire, InPhase
    <2>2. depth \in Building
      BY <2>1 DEF Building, top, FramesOK
    <2>3. PICK row \in Row,
               um \in [Users \cup {Public} -> MappingOptions \cup {NoMapping}] :
            SetTop(LoadedFrame(row, um))
      BY <1>0, <1>5, RequireCases
    <2> DEFINE f == LoadedFrame(row, um)
    <2>4. f \in Frame /\ f.entry.ctx = top.entry.ctx
      BY <2>1, LoadedFrameType
    <2> HIDE DEF f
    <2>5. \A d \in Building' :
              d \in Building /\ frame'[d].entry.ctx = frame[d].entry.ctx
      BY <1>0, <2>1, <2>2, <2>3, <2>4, BuildingAfterSetTop DEF top, f
    <2> QED BY <2>1, <2>5 DEF Exclusive
  <1>6. CASE GetFail \/ GetCancelled \/ GetConstructDuplicate \/ GetReturn
    <2>1. depth > 0 /\ Pop /\ cache' = cache
      BY <1>6 DEF GetFail, GetCancelled, GetConstructDuplicate, GetReturn,
                  InPhase
    <2>2. \/ live' = live
          \/ live' = live \ {frame[depth].entry.ctx} /\ depth \in Building
      BY <1>0, <1>6
      DEF GetFail, GetCancelled, GetConstructDuplicate, GetReturn, InPhase,
          Building, top, FramesOK
    <2>3. Building' = Building \ {depth} /\ \A d \in Building' : frame'[d] = frame[d]
      BY <1>0, <2>1, BuildingAfterPop
    <2> QED BY <2>1, <2>2, <2>3 DEF Exclusive
  <1>7. CASE GetConstruct
    <2>1. depth > 0 /\ depth \in 1..MaxDepth /\ top \in Frame
             /\ top.phase = "construct" /\ depth' = depth /\ live' = live
             /\ TopKey \in Keys
      BY <1>0, <1>7, TopFrame
      DEF GetConstruct, InPhase, Keys, TopKey, Frame, FrameOf
    <2>2. depth \in Building
      BY <2>1 DEF Building, top, FramesOK
    <2>3. [top EXCEPT !.phase = "return"] \in Frame
      BY <2>1 DEF Frame, FrameOf
    <2>4. \A d \in Building' :
              d \in Building /\ d # depth /\ frame'[d] = frame[d]
      <3>1. SetTop([top EXCEPT !.phase = "return"])
        BY <1>7 DEF GetConstruct
      <3>2. [top EXCEPT !.phase = "return"].phase = "return"
        BY <2>1 DEF Frame, FrameOf
      <3> HIDE DEF SetTop
      <3> QED BY <1>0, <2>1, <2>3, <3>1, <3>2, BuildingAfterSetTop
    <2>5. \A k \in Keys : cache'[k] =
              IF k = TopKey THEN frame[depth].entry ELSE cache[k]
      BY <1>0, <1>7, <2>1 DEF GetConstruct, CacheOK, top
    <2>6. /\ frame[depth].entry.ctx \in live
          /\ \A k \in Keys : cache[k] # NoEntry =>
                cache[k].ctx # frame[depth].entry.ctx
          /\ \A d \in Building' : frame[d].entry.ctx # frame[depth].entry.ctx
      BY <2>2, <2>4 DEF Exclusive
    <2>7. \A d \in Building' : frame'[d].entry.ctx \in live
      BY <2>4 DEF Exclusive
    <2>8. \A k \in Keys, d \in Building' :
             cache'[k] # NoEntry => cache'[k].ctx # frame'[d].entry.ctx
      BY <2>4, <2>5, <2>6 DEF Exclusive
    <2>9. \A j, k \in Keys :
             j # k /\ cache'[j] # NoEntry /\ cache'[k] # NoEntry
             => cache'[j].ctx # cache'[k].ctx
      BY <2>5, <2>6 DEF Exclusive
    <2>10. \A k \in Keys : cache'[k] # NoEntry => cache'[k].ctx \in live
      BY <2>5, <2>6 DEF Exclusive
    <2>11. \A c, d \in Building' :
              c # d => frame'[c].entry.ctx # frame'[d].entry.ctx
      BY <2>4 DEF Exclusive
    <2> QED BY <2>1, <2>7, <2>8, <2>9, <2>10, <2>11 DEF Exclusive
  <1> QED
    <2>1. ChangeCatalog \/ AcceptInvalidationMessages \/ ChangeModules
            => UNCHANGED callVars
      BY DEF ChangeCatalog, AlterServer, AlterTable, AlterUserMapping,
             ChangeOptions, AcceptInvalidationMessages, ChangeModules,
             WriteModule, DeleteModule, CommitModules, AbortModules, EndWriter,
             FreezeModules
    <2>2. UNCHANGED vars => UNCHANGED callVars
      BY DEF vars
    <2> QED BY <1>1, <1>2, <1>3, <1>4, <1>5, <1>6, <1>7, <2>1, <2>2
            DEF Next, GetStep

\* However calls nest, fail or are cancelled, no context is freed while the
\* cache or another call holds it, and none is freed twice.
THEOREM ExclusiveContexts == Spec => []ContextsExclusive
  <1>1. Init => Exclusive
    BY DEF Init, Exclusive, Building
  <1>2. TypeOK /\ TypeOK' /\ Exclusive /\ [Next]_vars => Exclusive'
    BY ExclusiveStep
  <1>3. Spec => []Exclusive
    BY <1>1, <1>2, TypeCorrect, PTL DEF Spec
  <1> QED BY <1>3, ExclusivePointwise, PTL

-----------------------------------------------------------------------------
(* Stale options, for calls that do not nest *)

\* A syscache that remembers superseded options has messages to accept.
SyscacheFlagged == unread = {} => syscache = catalog

\* A call that is building from superseded options will be flushed.
BuildFlagged ==
    \A d \in Building :
        \/ InvalidationDue
        \/ /\ frame[d].srv = catalog.srv
           /\ frame[d].tab = catalog.tab[frame[d].table]
           /\ frame[d].entry.path = ModulePath(frame[d].srv, frame[d].tab)
           /\ frame[d].phase = "construct" =>
                 frame[d].entry.options = pljs_fdw_build_options(
                     frame[d].srv,
                     UserMappingOptions(catalog.um, frame[d].user),
                     frame[d].tab)

FlaggedInv == SyscacheFlagged /\ BuildFlagged /\ StaleOptionsFlagged

\* Without nested calls every step keeps stale entries and stale calls flagged.
LEMMA FlaggedStep ==
    ASSUME MaxDepth = 1, TypeOK, TypeOK', FlaggedInv, [Next]_vars
    PROVE  FlaggedInv'
  <1> USE DEF FlaggedInv
  <1>0. /\ CatalogOK /\ ModulesOK /\ CacheOK /\ FramesOK
        /\ CacheOK' /\ FramesOK'
    BY DEF TypeOK, CatalogOK, ModulesOK, CacheOK, FramesOK
  <1>1. CASE ChangeCatalog \/ AcceptInvalidationMessages
    <2>1. CASE ChangeCatalog
      <3>1. unread' # {}
        BY <2>1 DEF ChangeCatalog, AlterServer, AlterTable, AlterUserMapping,
                    ChangeOptions
      <3> QED BY <3>1 DEF SyscacheFlagged, BuildFlagged, StaleOptionsFlagged,
                          InvalidationDue
    <2>2. CASE AcceptInvalidationMessages
      <3>1. pending' /\ syscache' = catalog'
        BY <1>0, <2>2
        DEF AcceptInvalidationMessages, pljs_fdw_syscache_callback,
            RegisteredSyscaches, Syscaches, CatalogOK
      <3> QED BY <3>1 DEF SyscacheFlagged, BuildFlagged, StaleOptionsFlagged,
                          InvalidationDue
    <2> QED BY <1>1, <2>1, <2>2
  <1>2. CASE UNCHANGED <<catalogVars, pending, callVars>>
    BY <1>2
    DEF catalogVars, callVars, SyscacheFlagged, BuildFlagged,
        StaleOptionsFlagged, InvalidationDue, Fresh, CurrentPath,
        CurrentOptions, Building
  <1>3. ASSUME UNCHANGED catalogVars
        PROVE  SyscacheFlagged'
    BY <1>3 DEF catalogVars, SyscacheFlagged
  \* A step that leaves catalogs and flag alone cannot make an entry stale.
  <1>4. ASSUME UNCHANGED <<catalogVars, pending>>,
               \A k \in Keys : cache'[k] \in {cache[k], NoEntry}
        PROVE  StaleOptionsFlagged'
    BY <1>4
    DEF catalogVars, StaleOptionsFlagged, InvalidationDue, Fresh, CurrentPath,
        CurrentOptions
  <1>5. ASSUME UNCHANGED <<catalogVars, pending>>,
               \A d \in Building' : d \in Building /\ frame'[d] = frame[d]
        PROVE  BuildFlagged'
    BY <1>5 DEF catalogVars, BuildFlagged, InvalidationDue
  <1>6. ASSUME NEW u \in Users, NEW t \in Tables, GetBegin(u, t)
        PROVE  FlaggedInv'
    <2>1. Building' = {}
      BY <1>0, <1>6, StackedFrame DEF GetBegin, FramesOK, Building
    <2>2. BuildFlagged'
      BY <2>1 DEF BuildFlagged
    <2>3. CASE pending
      BY <1>3, <1>6, <2>2, <2>3
      DEF GetBegin, pljs_fdw_check_invalidation, StaleOptionsFlagged
    <2>4. CASE ~pending
      BY <1>0, <1>3, <1>4, <1>6, <2>2, <2>4
      DEF GetBegin, pljs_fdw_check_invalidation, CatalogOK
    <2> QED BY <2>3, <2>4
  <1>7. CASE GetHit
    <2>1. depth > 0 /\ depth \in 1..MaxDepth /\ top \in Frame
      BY <1>0, <1>7, TopFrame DEF GetHit, InPhase
    <2>2. Building' = Building /\ \A d \in Building : frame'[d] = frame[d]
      BY <1>0, <1>7, <2>1, StackedFrame
      DEF GetHit, InPhase, FramesOK, Building, SetTop, top, Frame, FrameOf
    <2> QED BY <1>3, <1>4, <1>5, <1>7, <2>2 DEF GetHit
  <1>8. CASE GetMiss
    <2>1. depth > 0 /\ depth = 1 /\ top \in Frame
      BY <1>0, <1>8, TopFrame DEF GetMiss, InPhase
    <2>2. StaleOptionsFlagged' /\ SyscacheFlagged'
      BY <1>0, <1>3, <1>4, <1>8 DEF GetMiss, CacheAfterEviction, CacheOK
    <2>3. CASE live' = LiveAfterEviction /\ Pop
      BY <1>0, <1>5, <1>8, <2>1, <2>2, <2>3, BuildingAfterPop DEF GetMiss
    <2>4. ASSUME NEW srv \in {syscache.srv, catalog.srv} \cap ServerOptions,
                 NEW tab \in {syscache.tab[top.table], catalog.tab[top.table]}
                             \cap TableOptions,
                 NEW c \in Contexts, ModulePath(srv, tab) # NoValue,
                 SetTop(StartedFrame(srv, tab, ModulePath(srv, tab), c)),
                 depth' = depth
          PROVE  FlaggedInv'
      <3> DEFINE f == StartedFrame(srv, tab, ModulePath(srv, tab), c)
      <3>1. /\ f \in Frame /\ f.phase = "require" /\ f.table = top.table
            /\ f.srv = srv /\ f.tab = tab
            /\ f.entry.path = ModulePath(srv, tab)
        BY <2>1, <2>4, ModulePathType, StartedFrameType
      <3> HIDE DEF f
      <3>2. frame'[depth] = f /\ \A d \in Building' : d = depth
        BY <1>0, <2>1, <2>4, <3>1, BuildingAfterSetTop
        DEF f, Building, FramesOK
      <3>3. \/ InvalidationDue
            \/ srv = catalog.srv /\ tab = catalog.tab[top.table]
        BY DEF SyscacheFlagged, InvalidationDue
      <3>4. BuildFlagged'
        BY <1>8, <3>1, <3>2, <3>3
        DEF GetMiss, catalogVars, BuildFlagged, InvalidationDue
      <3> QED BY <2>2, <3>4
    <2> QED BY <1>0, <1>8, <2>3, <2>4, MissCases
  <1>9. CASE GetRequire
    <2>1. depth > 0 /\ depth = 1 /\ top \in Frame /\ top.phase = "require"
             /\ depth' = depth /\ depth \in Building
      BY <1>0, <1>9, TopFrame DEF GetRequire, InPhase, Building, top, FramesOK
    <2>2. PICK row \in Row,
               um \in [Users \cup {Public} -> MappingOptions \cup {NoMapping}] :
            um \in {syscache.um, catalog.um} /\ SetTop(LoadedFrame(row, um))
      BY <1>0, <1>9, RequireCases
    <2> DEFINE f == LoadedFrame(row, um)
    <2>3. /\ f \in Frame /\ f.phase = "construct"
          /\ f.user = top.user /\ f.table = top.table
          /\ f.srv = top.srv /\ f.tab = top.tab
          /\ f.entry.path = top.entry.path
          /\ f.entry.options = pljs_fdw_build_options(
                top.srv, UserMappingOptions(um, top.user), top.tab)
      BY <2>1, LoadedFrameType
    <2> HIDE DEF f
    <2>4. frame'[depth] = f /\ \A d \in Building' : d = depth
      BY <1>0, <2>1, <2>2, <2>3, BuildingAfterSetTop DEF f, Building, FramesOK
    <2>5. InvalidationDue \/ um = catalog.um
      BY <2>2 DEF SyscacheFlagged, InvalidationDue
    <2>6. BuildFlagged'
      BY <1>9, <2>1, <2>3, <2>4, <2>5
      DEF GetRequire, catalogVars, BuildFlagged, InvalidationDue, top
    <2> QED BY <1>0, <1>3, <1>4, <1>9, <2>6 DEF GetRequire
  <1>10. CASE GetFail \/ GetCancelled \/ GetConstructDuplicate \/ GetReturn
    <2>1. /\ depth > 0 /\ Pop /\ cache' = cache
          /\ UNCHANGED <<catalogVars, pending>>
      BY <1>10 DEF GetFail, GetCancelled, GetConstructDuplicate, GetReturn,
                   InPhase
    <2> QED BY <1>0, <1>3, <1>4, <1>5, <2>1, BuildingAfterPop
  <1>11. CASE GetConstruct
    <2>1. depth > 0 /\ depth = 1 /\ top \in Frame /\ top.phase = "construct"
             /\ depth' = depth /\ depth \in Building /\ TopKey \in Keys
      BY <1>0, <1>11, TopFrame
      DEF GetConstruct, InPhase, Building, top, FramesOK, TopKey, Keys, Frame,
          FrameOf
    <2>2. /\ [top EXCEPT !.phase = "return"] \in Frame
          /\ [top EXCEPT !.phase = "return"].phase = "return"
      BY <2>1 DEF Frame, FrameOf
    <2>3. Building' = {}
      <3>1. depth \notin Building'
        BY <1>0, <1>11, <2>1, <2>2, BuildingAfterSetTop DEF GetConstruct
      <3> QED BY <1>0, <2>1, <3>1 DEF Building, FramesOK
    <2>4. BuildFlagged'
      BY <2>3 DEF BuildFlagged
    <2>5. \/ InvalidationDue
          \/ /\ top.entry.path = CurrentPath(TopKey)
             /\ top.entry.options = CurrentOptions(TopKey)
      BY <2>1 DEF BuildFlagged, CurrentPath, CurrentOptions, top, TopKey
    <2>6. \A k \in Keys : cache'[k] = IF k = TopKey THEN top.entry ELSE cache[k]
      BY <1>0, <1>11, <2>1 DEF GetConstruct, CacheOK
    <2>7. \A k \in Keys : /\ CurrentPath(k)' = CurrentPath(k)
                          /\ CurrentOptions(k)' = CurrentOptions(k)
      BY <1>11 DEF GetConstruct, catalogVars, CurrentPath, CurrentOptions
    <2>8. InvalidationDue' = InvalidationDue
      BY <1>11 DEF GetConstruct, catalogVars, InvalidationDue
    <2>9. StaleOptionsFlagged'
      BY <2>5, <2>6, <2>7, <2>8 DEF StaleOptionsFlagged, Fresh
    <2> QED BY <1>3, <1>11, <2>4, <2>9 DEF GetConstruct
  <1> QED
    <2>1. ChangeModules \/ UNCHANGED vars
            => UNCHANGED <<catalogVars, pending, callVars>>
      BY DEF ChangeModules, WriteModule, DeleteModule, CommitModules,
             AbortModules, EndWriter, FreezeModules, vars
    <2> QED BY <1>1, <1>2, <1>6, <1>7, <1>8, <1>9, <1>10, <1>11, <2>1
            DEF Next, GetStep

\* Unless constructors run SQL on other foreign tables, an option change is
\* never lost: an instance built from superseded options is always flagged.
THEOREM OptionsFlagged ==
    ASSUME MaxDepth = 1
    PROVE  Spec => []StaleOptionsFlagged
  <1>1. Init => FlaggedInv
    BY DEF Init, FlaggedInv, SyscacheFlagged, BuildFlagged, StaleOptionsFlagged,
           Building
  <1>2. TypeOK /\ TypeOK' /\ FlaggedInv /\ [Next]_vars => FlaggedInv'
    BY FlaggedStep
  <1>3. FlaggedInv => StaleOptionsFlagged
    BY DEF FlaggedInv
  <1> QED BY <1>1, <1>2, <1>3, TypeCorrect, PTL DEF Spec

-----------------------------------------------------------------------------
(* Leaks, for calls that do not nest and are not cancelled *)

\* A call that is building found no entry for its key, and none appears.
BuildUncached ==
    \A d \in Building : cache[<<frame[d].user, frame[d].table>>] = NoEntry

\* NoContextLeak, context by context.
Owned ==
    \A c \in live :
        \/ \E k \in Keys : cache[k] # NoEntry /\ cache[k].ctx = c
        \/ \E d \in Building : frame[d].entry.ctx = c

\* NoContextLeak, said context by context.
LEMMA OwnedPointwise == NoContextLeak <=> Owned
  BY DEF NoContextLeak, Owned, CachedContexts, BuildingContexts

\* Without nested calls and cancelled lookups every step keeps contexts owned.
LEMMA OwnedStep ==
    ASSUME MaxDepth = 1, ~AllowCancel, TypeOK, TypeOK',
           BuildUncached, Owned, [Next]_vars
    PROVE  BuildUncached' /\ Owned'
  <1>0. /\ CatalogOK /\ ModulesOK /\ CacheOK /\ FramesOK
        /\ CacheOK' /\ FramesOK'
    BY DEF TypeOK, CatalogOK, ModulesOK, CacheOK, FramesOK
  <1>1. CASE UNCHANGED callVars
    BY <1>1 DEF callVars, BuildUncached, Owned, Building
  <1>2. ASSUME NEW u \in Users, NEW t \in Tables, GetBegin(u, t)
        PROVE  BuildUncached' /\ Owned'
    <2>1. Building' = {} /\ Building = {}
      BY <1>0, <1>2, StackedFrame DEF GetBegin, FramesOK, Building
    <2>2. CASE pending
      BY <1>2, <2>1, <2>2
      DEF GetBegin, pljs_fdw_check_invalidation, BuildUncached, Owned,
          CachedContexts
    <2>3. CASE ~pending
      BY <1>2, <2>1, <2>3
      DEF GetBegin, pljs_fdw_check_invalidation, BuildUncached, Owned
    <2> QED BY <2>2, <2>3
  <1>3. CASE GetHit
    <2>1. depth > 0 /\ depth \in 1..MaxDepth /\ top \in Frame
      BY <1>0, <1>3, TopFrame DEF GetHit, InPhase
    <2>2. Building' = Building /\ \A d \in Building : frame'[d] = frame[d]
      BY <1>0, <1>3, <2>1, StackedFrame
      DEF GetHit, InPhase, FramesOK, Building, SetTop, top, Frame, FrameOf
    <2> QED BY <1>3, <2>2 DEF GetHit, BuildUncached, Owned
  <1>4. CASE GetMiss
    <2>1. depth > 0 /\ depth = 1 /\ top \in Frame /\ top.phase = "lookup"
             /\ TopKey \in Keys
      BY <1>0, <1>4, TopFrame DEF GetMiss, InPhase, Keys, TopKey, Frame, FrameOf
    <2>2. Building = {}
      BY <1>0, <2>1 DEF Building, top, FramesOK
    <2>3. \A c \in LiveAfterEviction :
             \E k \in Keys : cache'[k] # NoEntry /\ cache'[k].ctx = c
      <3>1. SUFFICES ASSUME NEW c \in LiveAfterEviction
                     PROVE  \E k \in Keys : cache'[k] # NoEntry /\ cache'[k].ctx = c
        OBVIOUS
      <3>2. PICK k \in Keys : cache[k] # NoEntry /\ cache[k].ctx = c
        BY <2>2 DEF Owned, LiveAfterEviction
      <3>3. k # TopKey
        BY <2>1, <3>2 DEF LiveAfterEviction
      <3> QED BY <1>0, <1>4, <3>2, <3>3
              DEF GetMiss, CacheAfterEviction, CacheOK
    <2>4. cache'[TopKey] = NoEntry
      BY <1>0, <1>4, <2>1 DEF GetMiss, CacheAfterEviction, CacheOK
    <2>5. CASE live' = LiveAfterEviction /\ Pop
      BY <1>0, <2>1, <2>2, <2>3, <2>5, BuildingAfterPop
      DEF BuildUncached, Owned
    <2>6. ASSUME NEW srv \in ServerOptions, NEW tab \in TableOptions,
                 NEW c \in Contexts, ModulePath(srv, tab) # NoValue,
                 live' = LiveAfterEviction \cup {c}, depth' = depth,
                 SetTop(StartedFrame(srv, tab, ModulePath(srv, tab), c))
          PROVE  BuildUncached' /\ Owned'
      <3> DEFINE f == StartedFrame(srv, tab, ModulePath(srv, tab), c)
      <3>1. /\ f \in Frame /\ f.phase = "require" /\ f.entry.ctx = c
            /\ f.user = top.user /\ f.table = top.table
        BY <2>1, <2>6, ModulePathType, StartedFrameType
      <3> HIDE DEF f
      <3>2. frame'[depth] = f /\ Building' = {depth}
        <4>1. frame'[depth] = f /\ depth \in Building'
          BY <1>0, <2>1, <2>6, <3>1, BuildingAfterSetTop DEF f
        <4> QED BY <1>0, <2>1, <2>6, <4>1 DEF Building, FramesOK
      <3> QED BY <2>3, <2>4, <2>6, <3>1, <3>2 DEF BuildUncached, Owned, TopKey
    <2> QED BY <1>0, <1>4, <2>5, <2>6, MissCases
  <1>5. CASE GetRequire
    <2>1. depth > 0 /\ depth = 1 /\ top \in Frame /\ top.phase = "require"
             /\ depth' = depth /\ cache' = cache /\ live' = live
      BY <1>0, <1>5, TopFrame DEF GetRequire, InPhase
    <2>2. Building = {depth}
      BY <1>0, <2>1 DEF Building, top, FramesOK
    <2>3. PICK row \in Row,
               um \in [Users \cup {Public} -> MappingOptions \cup {NoMapping}] :
            SetTop(LoadedFrame(row, um))
      BY <1>0, <1>5, RequireCases
    <2> DEFINE f == LoadedFrame(row, um)
    <2>4. /\ f \in Frame /\ f.phase = "construct"
          /\ f.entry.ctx = top.entry.ctx
          /\ f.user = top.user /\ f.table = top.table
      BY <2>1, LoadedFrameType
    <2> HIDE DEF f
    <2>5. frame'[depth] = f /\ Building' = {depth}
      <3>1. frame'[depth] = f /\ depth \in Building'
        BY <1>0, <2>1, <2>3, <2>4, BuildingAfterSetTop DEF f
      <3> QED BY <1>0, <2>1, <3>1 DEF Building, FramesOK
    <2> QED BY <2>1, <2>2, <2>4, <2>5 DEF BuildUncached, Owned, top
  <1>6. CASE GetFail
    <2>1. depth > 0 /\ Pop /\ cache' = cache /\ depth \in Building
             /\ live' = live \ {frame[depth].entry.ctx}
      BY <1>0, <1>6 DEF GetFail, InPhase, Building, top, FramesOK
    <2>2. Building' = Building \ {depth} /\ \A d \in Building' : frame'[d] = frame[d]
      BY <1>0, <2>1, BuildingAfterPop
    <2> QED BY <2>1, <2>2 DEF BuildUncached, Owned
  <1>7. CASE GetReturn
    <2>1. depth > 0 /\ Pop /\ cache' = cache /\ live' = live
             /\ depth \notin Building
      BY <1>0, <1>7 DEF GetReturn, InPhase, Building, top, FramesOK
    <2>2. Building' = Building \ {depth} /\ \A d \in Building' : frame'[d] = frame[d]
      BY <1>0, <2>1, BuildingAfterPop
    <2> QED BY <2>1, <2>2 DEF BuildUncached, Owned
  <1>8. CASE GetConstruct
    <2>1. depth > 0 /\ depth = 1 /\ top \in Frame /\ top.phase = "construct"
             /\ depth' = depth /\ live' = live /\ TopKey \in Keys
      BY <1>0, <1>8, TopFrame
      DEF GetConstruct, InPhase, TopKey, Keys, Frame, FrameOf
    <2>2. /\ Building = {depth}
          /\ top.entry \in Entry
      BY <1>0, <2>1 DEF Building, top, FramesOK, Frame, FrameOf
    <2>3. Building' = {}
      <3>1. /\ [top EXCEPT !.phase = "return"] \in Frame
            /\ [top EXCEPT !.phase = "return"].phase = "return"
        BY <2>1 DEF Frame, FrameOf
      <3>2. depth \notin Building'
        BY <1>0, <1>8, <2>1, <3>1, BuildingAfterSetTop DEF GetConstruct
      <3> QED BY <1>0, <2>1, <3>2 DEF Building, FramesOK
    <2>4. \A k \in Keys : cache'[k] = IF k = TopKey THEN top.entry ELSE cache[k]
      BY <1>0, <1>8, <2>1 DEF GetConstruct, CacheOK
    <2>5. cache[TopKey] = NoEntry /\ top.entry # NoEntry
      BY <1>8, <2>2, CacheAssumption DEF GetConstruct
    <2>6. Owned'
      BY <2>1, <2>2, <2>4, <2>5 DEF Owned, top
    <2> QED BY <2>3, <2>6 DEF BuildUncached
  <1>9. ~GetCancelled /\ ~GetConstructDuplicate
    BY <1>0, TopFrame
    DEF GetCancelled, GetConstructDuplicate, BuildUncached, Building, InPhase,
        top, TopKey, FramesOK
  <1> QED
    <2>1. ChangeCatalog \/ AcceptInvalidationMessages \/ ChangeModules
            => UNCHANGED callVars
      BY DEF ChangeCatalog, AlterServer, AlterTable, AlterUserMapping,
             ChangeOptions, AcceptInvalidationMessages, ChangeModules,
             WriteModule, DeleteModule, CommitModules, AbortModules, EndWriter,
             FreezeModules
    <2>2. UNCHANGED vars => UNCHANGED callVars
      BY DEF vars
    <2> QED BY <1>1, <1>2, <1>3, <1>4, <1>5, <1>6, <1>7, <1>8, <1>9, <2>1, <2>2
            DEF Next, GetStep

\* Without nested calls and without an ERROR from PostgreSQL in the middle of
\* a build, every context is owned by the cache or by the call building it.
THEOREM ContextsOwned ==
    ASSUME MaxDepth = 1, ~AllowCancel
    PROVE  Spec => []NoContextLeak
  <1>1. Init => BuildUncached /\ Owned
    BY DEF Init, BuildUncached, Owned, Building
  <1>2. TypeOK /\ TypeOK' /\ (BuildUncached /\ Owned) /\ [Next]_vars
           => (BuildUncached /\ Owned)'
    BY OwnedStep
  <1>3. Spec => [](BuildUncached /\ Owned)
    BY <1>1, <1>2, TypeCorrect, PTL DEF Spec
  <1>4. BuildUncached /\ Owned => NoContextLeak
    BY OwnedPointwise
  <1> QED BY <1>3, <1>4, PTL

-----------------------------------------------------------------------------
(* Module sources, without VACUUM FREEZE *)

\* e was built from row version r of module p.
BuiltFrom(e, p, r) ==
    e.path = p /\ e.xmin = r.xmin /\ e.tid = r.tid /\ e.source = r.source

\* An entry determines the version it was built from.
LEMMA SameVersion ==
    ASSUME NEW e, NEW p1, NEW p2, NEW q \in Row, NEW r \in Row,
           BuiltFrom(e, p1, q), BuiltFrom(e, p2, r)
    PROVE  q = r
  <1>1. /\ q = [xmin |-> q.xmin, tid |-> q.tid, source |-> q.source]
        /\ r = [xmin |-> r.xmin, tid |-> r.tid, source |-> r.source]
    BY DEF Row
  <1>2. q.xmin = r.xmin /\ q.tid = r.tid /\ q.source = r.source
    BY DEF BuiltFrom
  <1> QED BY <1>1, <1>2

\* The row versions, with their module, that something shows or remembers.
Versions ==
    {v \in Paths \X Row :
        \/ modules[v[1]] = v[2]
        \/ txn # NoTxn /\ txn.undo[v[1]] = v[2]
        \/ \E d \in 1..depth : frame[d].snap[v[1]] = v[2]
        \/ \E k \in Keys : cache[k] # NoEntry /\ BuiltFrom(cache[k], v[1], v[2])}

\* xmin and ctid identify a version.
VersionsAgree ==
    \A p \in Paths : \A q, r \in Row :
        <<p, q>> \in Versions /\ <<p, r>> \in Versions /\ q.xmin = r.xmin /\ q.tid = r.tid
        => q.source = r.source

\* No version is from a future transaction, and one from the open transaction
\* lies where that transaction has already stored a row.
VersionsBounded ==
    \A p \in Paths : \A r \in Row :
        <<p, r>> \in Versions =>
            /\ r.xmin <= xid
            /\ txn # NoTxn /\ r.xmin = xid => r.tid \in txn.burned

\* Entries carry a complete version, under construction that of the snapshot.
EntriesComplete ==
    /\ \A k \in Keys : cache[k] # NoEntry =>
          \E r \in Row : BuiltFrom(cache[k], cache[k].path, r)
    /\ \A d \in 1..depth : frame[d].phase = "construct" =>
          LET r == frame[d].snap[frame[d].entry.path]
          IN  r \in Row /\ BuiltFrom(frame[d].entry, frame[d].entry.path, r)

\* Only calls that run JavaScript lie below another call.
NestedInJavaScript ==
    \A d \in 1..depth :
        d < depth => frame[d].phase \in {"require", "construct"}

SourceInv ==
    /\ VersionsAgree
    /\ VersionsBounded
    /\ EntriesComplete
    /\ NestedInJavaScript
    /\ ReturnsCurrentSource

\* A step that brings no new version keeps versions apart.
LEMMA NoNewVersion ==
    ASSUME VersionsAgree, VersionsBounded, ModulesOK,
           \A p \in Paths : \A r \in Row : <<p, r>> \in Versions' => <<p, r>> \in Versions,
           \/ txn' = NoTxn /\ xid' = xid
           \/ txn' = txn /\ xid' = xid
           \/ xid' = xid + 1
           \/ txn # NoTxn /\ txn' # NoTxn /\ txn'.burned = txn.burned /\ xid' = xid
    PROVE  VersionsAgree' /\ VersionsBounded'
  <1>1. VersionsAgree'
    BY DEF VersionsAgree
  <1>2. \A r \in Row : r.xmin \in Nat
    BY DEF Row
  <1>3. VersionsBounded'
    BY <1>2 DEF VersionsBounded, ModulesOK
  <1> QED BY <1>1, <1>3

\* Writers of pljs.modules keep row versions and their sources in agreement.
LEMMA SourceModules ==
    ASSUME ~AllowFreeze, TypeOK, TypeOK', SourceInv, ChangeModules
    PROVE  SourceInv'
  <1>0. /\ ModulesOK /\ CacheOK /\ FramesOK
        /\ ModulesOK' /\ CacheOK' /\ FramesOK'
    BY DEF TypeOK, ModulesOK, CacheOK, FramesOK
  <1>1. UNCHANGED callVars
    BY DEF ChangeModules, WriteModule, DeleteModule, CommitModules,
           AbortModules, EndWriter, FreezeModules
  <1>2. EntriesComplete' /\ NestedInJavaScript' /\ ReturnsCurrentSource'
    BY <1>1
    DEF SourceInv, callVars, EntriesComplete, NestedInJavaScript,
        ReturnsCurrentSource, InPhase, top, TopKey
  <1>3. ASSUME NEW p \in Paths, NEW s \in Sources, WriteModule(p, s)
        PROVE  VersionsAgree' /\ VersionsBounded'
    <2>1. PICK t \in FreeTids :
            /\ modules' = [modules EXCEPT
                  ![p] = [xmin |-> WriterXid, tid |-> t, source |-> s]]
            /\ txn' = [undo |-> UndoTable, burned |-> BurnedTids \cup {t}]
            /\ xid' = WriterXid
      BY <1>3 DEF WriteModule
    <2> DEFINE new == [xmin |-> WriterXid, tid |-> t, source |-> s]
    <2>2. t \notin BurnedTids /\ t \in Tids
      BY DEF FreeTids
    <2>3. txn' # NoTxn /\ txn'.burned = BurnedTids \cup {t}
             /\ txn'.undo = UndoTable
      BY <1>0, <2>1, <2>2, CacheAssumption
      DEF ModulesOK, Transaction, UndoTable, BurnedTids
    <2>4. \A q \in Paths : \A r \in Row :
             <<q, r>> \in Versions' => <<q, r>> \in Versions \/ (q = p /\ r = new)
      <3>1. \A q \in Paths : modules'[q] = IF q = p THEN new ELSE modules[q]
        BY <1>0, <2>1 DEF ModulesOK, ModuleTable
      <3> HIDE DEF new
      <3>2. depth' = depth /\ frame' = frame /\ cache' = cache
        BY <1>1 DEF callVars
      <3> SUFFICES ASSUME NEW q \in Paths, NEW r \in Row, <<q, r>> \in Versions',
                          ~(q = p /\ r = new)
                   PROVE  <<q, r>> \in Versions
        OBVIOUS
      <3>3. CASE modules'[q] = r
        BY <3>1, <3>3 DEF Versions
      <3>4. CASE txn'.undo[q] = r
        BY <2>3, <3>4 DEF Versions, UndoTable
      <3> QED BY <3>2, <3>3, <3>4 DEF Versions
    <2>5. xid' \in Nat /\ xid \in Nat /\ (txn = NoTxn => xid' = xid + 1)
             /\ (txn # NoTxn => xid' = xid)
      BY <1>0, <2>1 DEF ModulesOK, WriterXid
    <2>6. /\ new.xmin = xid' /\ new.tid = t
          /\ \A r \in Row : r.xmin \in Nat
      BY <2>1 DEF Row
    <2> HIDE DEF new
    <2>7. \A q \in Paths : \A r \in Row : <<q, r>> \in Versions =>
             /\ r.xmin <= xid'
             /\ r.xmin = xid' => txn # NoTxn /\ r.tid \in BurnedTids
      BY <2>5, <2>6 DEF SourceInv, VersionsBounded, BurnedTids
    <2>8. VersionsBounded'
      BY <2>3, <2>4, <2>5, <2>6, <2>7 DEF VersionsBounded
    <2>9. VersionsAgree'
      BY <2>2, <2>4, <2>6, <2>7 DEF SourceInv, VersionsAgree
    <2> QED BY <2>8, <2>9
  <1>4. ASSUME NEW p \in Paths, DeleteModule(p)
        PROVE  VersionsAgree' /\ VersionsBounded'
    <2>1. txn' # NoTxn /\ txn'.burned = BurnedTids /\ txn'.undo = UndoTable
      BY <1>0, <1>4, CacheAssumption
      DEF DeleteModule, ModulesOK, Transaction, UndoTable, BurnedTids
    <2>2. \A q \in Paths : modules'[q] = IF q = p THEN NoRow ELSE modules[q]
      BY <1>0, <1>4 DEF DeleteModule, ModulesOK, ModuleTable
    <2>3. \A q \in Paths : \A r \in Row : <<q, r>> \in Versions' => <<q, r>> \in Versions
      BY <1>1, <2>1, <2>2, CacheAssumption DEF Versions, UndoTable, callVars
    <2>4. \/ xid' = xid + 1
          \/ /\ txn # NoTxn /\ txn' # NoTxn /\ txn'.burned = txn.burned
             /\ xid' = xid
      BY <1>4, <2>1 DEF DeleteModule, WriterXid, BurnedTids
    <2> QED BY <1>0, <2>3, <2>4, NoNewVersion DEF SourceInv
  <1>5. CASE CommitModules \/ AbortModules
    <2>1. \A q \in Paths : \A r \in Row : <<q, r>> \in Versions' => <<q, r>> \in Versions
      BY <1>1, <1>5
      DEF CommitModules, AbortModules, EndWriter, Versions, callVars
    <2>2. txn' = NoTxn /\ xid' = xid
      BY <1>5 DEF CommitModules, AbortModules, EndWriter
    <2>3. VersionsAgree /\ VersionsBounded
      BY DEF SourceInv
    <2>4. VersionsAgree' /\ VersionsBounded'
      BY <1>0, <2>1, <2>2, <2>3, NoNewVersion
    <2> QED BY <1>2, <2>4 DEF SourceInv
  <1>6. ~FreezeModules
    BY DEF FreezeModules
  <1> QED BY <1>2, <1>3, <1>4, <1>5, <1>6 DEF ChangeModules, SourceInv

\* A step of a call brings no new version: snapshots are of the visible rows,
\* and an entry is cached with the version its call's snapshot shows.
LEMMA CallVersions ==
    ASSUME VersionsAgree, VersionsBounded, ModulesOK, UNCHANGED moduleVars,
           \A d \in 1..depth' :
              \/ frame'[d].snap = modules
              \/ \E c \in 1..depth : frame'[d].snap = frame[c].snap,
           \A k \in Keys :
              \/ cache'[k] \in {NoEntry, cache[k]}
              \/ \E d \in 1..depth : \E q \in Row :
                    /\ frame[d].snap[cache'[k].path] = q
                    /\ BuiltFrom(cache'[k], cache'[k].path, q)
    PROVE  VersionsAgree' /\ VersionsBounded'
  <1>1. modules' = modules /\ txn' = txn /\ xid' = xid
    BY DEF moduleVars
  <1>2. ASSUME NEW p \in Paths, NEW r \in Row, <<p, r>> \in Versions'
        PROVE  <<p, r>> \in Versions
    <2>0. \/ modules'[p] = r \/ (txn' # NoTxn /\ txn'.undo[p] = r)
          \/ \E d \in 1..depth' : frame'[d].snap[p] = r
          \/ \E k \in Keys : cache'[k] # NoEntry /\ BuiltFrom(cache'[k], p, r)
      BY <1>2 DEF Versions, BuiltFrom
    <2>1. CASE modules'[p] = r \/ (txn' # NoTxn /\ txn'.undo[p] = r)
      BY <1>1, <2>1 DEF Versions
    <2>2. CASE \E d \in 1..depth' : frame'[d].snap[p] = r
      BY <2>2 DEF Versions
    <2>3. ASSUME NEW k \in Keys, cache'[k] # NoEntry, BuiltFrom(cache'[k], p, r)
          PROVE  <<p, r>> \in Versions
      <3>1. CASE cache'[k] = cache[k]
        BY <2>3, <3>1 DEF Versions
      <3>2. ASSUME NEW d \in 1..depth, NEW q \in Row,
                   frame[d].snap[cache'[k].path] = q,
                   BuiltFrom(cache'[k], cache'[k].path, q)
            PROVE  <<p, r>> \in Versions
        <4>1. q = r
          BY <2>3, <3>2, SameVersion
        <4>2. cache'[k].path = p
          BY <2>3 DEF BuiltFrom
        <4> QED BY <3>2, <4>1, <4>2 DEF Versions
      <3> QED BY <2>3, <3>1, <3>2
    <2> QED BY <2>0, <2>1, <2>2, <2>3
  <1> QED BY <1>1, <1>2, NoNewVersion

\* The steps of a call keep row versions and their sources in agreement.
LEMMA SourceCalls ==
    ASSUME TypeOK, TypeOK', SourceInv,
           GetStep \/ \E u \in Users, t \in Tables : GetBegin(u, t)
    PROVE  SourceInv'
  <1>0. /\ CatalogOK /\ ModulesOK /\ CacheOK /\ FramesOK
        /\ CacheOK' /\ FramesOK'
    BY DEF TypeOK, CatalogOK, ModulesOK, CacheOK, FramesOK
  <1>1. /\ VersionsAgree /\ VersionsBounded /\ EntriesComplete
        /\ NestedInJavaScript /\ ReturnsCurrentSource
    BY DEF SourceInv
  <1>2. UNCHANGED moduleVars
    BY DEF GetStep, GetBegin, GetHit, GetMiss, GetRequire, GetFail,
           GetCancelled, GetConstruct, GetConstructDuplicate, GetReturn
  <1>3. ASSUME NEW u \in Users, NEW t \in Tables, GetBegin(u, t)
        PROVE  SourceInv'
    <2> DEFINE f == [phase |-> "lookup", user |-> u, table |-> t,
                     snap |-> modules, srv |-> NoOptions, tab |-> NoOptions,
                     entry |-> NoEntry]
    <2>1. /\ depth' = depth + 1
          /\ \A d \in 1..depth : frame'[d] = frame[d]
          /\ frame'[depth'] = f
          /\ \A d \in 1..depth' : d = depth' \/ d \in 1..depth
      BY <1>0, <1>3, CacheAssumption DEF GetBegin, FramesOK
    <2>2. \A k \in Keys : cache'[k] \in {NoEntry, cache[k]}
      BY <1>3 DEF GetBegin, pljs_fdw_check_invalidation
    <2>3. f.phase = "lookup" /\ f.snap = modules
      OBVIOUS
    <2> HIDE DEF f
    <2>4. VersionsAgree' /\ VersionsBounded'
      BY <1>0, <1>1, <1>2, <2>1, <2>2, <2>3, CallVersions
    <2>5. EntriesComplete'
      BY <1>1, <2>1, <2>2, <2>3 DEF EntriesComplete
    <2>6. NestedInJavaScript'
      <3>1. \A d \in 1..depth : frame[d].phase \in {"require", "construct"}
        BY <1>0, <1>1, <1>3
        DEF GetBegin, RunningJavaScript, InPhase, top, NestedInJavaScript,
            FramesOK
      <3> QED BY <2>1, <3>1 DEF NestedInJavaScript
    <2>7. ReturnsCurrentSource'
      BY <2>1, <2>3 DEF ReturnsCurrentSource, InPhase, top
    <2> QED BY <2>4, <2>5, <2>6, <2>7 DEF SourceInv
  \* The steps that replace the top frame.
  <1>4. ASSUME depth > 0, depth' = depth, NEW f \in Frame, SetTop(f),
               f.snap = top.snap
        PROVE  /\ \A d \in 1..depth : d # depth => frame'[d] = frame[d]
               /\ frame'[depth] = f
               /\ top' = f
               /\ \A d \in 1..depth' : \E c \in 1..depth :
                     frame'[d].snap = frame[c].snap
               /\ NestedInJavaScript'
    <2>1. /\ \A d \in 1..depth : d # depth => frame'[d] = frame[d]
          /\ frame'[depth] = f
          /\ depth \in 1..depth
      BY <1>0, <1>4, StackedFrame DEF FramesOK, SetTop
    <2>2. top' = f
      BY <1>4, <2>1 DEF top
    <2>3. \A d \in 1..depth' : frame'[d].snap = frame[d].snap
      BY <1>4, <2>1 DEF top
    <2>4. NestedInJavaScript'
      BY <1>0, <1>1, <1>4, <2>1 DEF NestedInJavaScript, FramesOK
    <2> QED BY <1>4, <2>1, <2>2, <2>3, <2>4
  \* The steps that end the call on top.
  <1>5. ASSUME depth > 0, Pop, \A k \in Keys : cache'[k] \in {NoEntry, cache[k]}
        PROVE  SourceInv'
    <2>1. /\ depth' = depth - 1
          /\ \A d \in 1..depth' : d \in 1..depth /\ d < depth /\ frame'[d] = frame[d]
      BY <1>0, <1>5, StackedFrame DEF Pop, FramesOK
    <2>2. VersionsAgree' /\ VersionsBounded'
      BY <1>0, <1>1, <1>2, <1>5, <2>1, CallVersions
    <2>3. EntriesComplete'
      BY <1>1, <1>5, <2>1 DEF EntriesComplete
    <2>4. \A d \in 1..depth' : frame'[d].phase \in {"require", "construct"}
      BY <1>1, <2>1 DEF NestedInJavaScript
    <2>5. NestedInJavaScript'
      BY <2>4 DEF NestedInJavaScript
    <2>6. ReturnsCurrentSource'
      BY <1>0, <1>5, <2>1, <2>4 DEF ReturnsCurrentSource, InPhase, top, FramesOK
    <2> QED BY <2>2, <2>3, <2>5, <2>6 DEF SourceInv
  \* The steps after which the call on top is loading its module.
  <1>6. ASSUME depth > 0, depth' = depth, NEW f \in Frame, SetTop(f),
               f.snap = top.snap, f.phase = "require",
               \A k \in Keys : cache'[k] \in {NoEntry, cache[k]}
        PROVE  SourceInv'
    <2>1. /\ \A d \in 1..depth : d # depth => frame'[d] = frame[d]
          /\ frame'[depth] = f
          /\ top' = f
          /\ \A d \in 1..depth' : \E c \in 1..depth :
                frame'[d].snap = frame[c].snap
          /\ NestedInJavaScript'
      BY <1>4, <1>6
    <2>2. VersionsAgree' /\ VersionsBounded'
      BY <1>0, <1>1, <1>2, <1>6, <2>1, CallVersions
    <2>3. EntriesComplete'
      BY <1>1, <1>6, <2>1 DEF EntriesComplete
    <2>4. ReturnsCurrentSource'
      BY <1>6, <2>1 DEF ReturnsCurrentSource, InPhase
    <2> QED BY <2>1, <2>2, <2>3, <2>4 DEF SourceInv
  <1>7. CASE GetHit
    <2>1. depth > 0 /\ depth' = depth /\ top \in Frame /\ TopKey \in Keys
             /\ cache' = cache /\ top.phase = "lookup"
      BY <1>0, <1>7, TopFrame DEF GetHit, InPhase, TopKey, Keys, Frame, FrameOf
    <2>2. /\ cache[TopKey] # NoEntry
          /\ RowVersionMatches(top.snap, cache[TopKey])
      BY <1>7 DEF GetHit, pljs_fdw_cache_find, TopKey
    <2>3. cache[TopKey] \in Entry
      BY <1>0, <2>1, <2>2 DEF CacheOK
    <2> DEFINE f == [top EXCEPT !.phase = "return", !.entry = cache[TopKey]]
    <2>4. /\ f \in Frame /\ f.phase = "return" /\ f.entry = cache[TopKey]
          /\ f.snap = top.snap /\ f.user = top.user /\ f.table = top.table
      BY <2>1, <2>3 DEF Frame, FrameOf
    <2>5. SetTop(f)
      BY <1>7 DEF GetHit, pljs_fdw_cache_find, TopKey
    <2> HIDE DEF f
    <2>6. /\ \A d \in 1..depth : d # depth => frame'[d] = frame[d]
          /\ frame'[depth] = f
          /\ top' = f
          /\ \A d \in 1..depth' : \E c \in 1..depth :
                frame'[d].snap = frame[c].snap
          /\ NestedInJavaScript'
      BY <1>4, <2>1, <2>4, <2>5
    <2>7. VersionsAgree' /\ VersionsBounded'
      BY <1>0, <1>1, <1>2, <2>1, <2>6, CallVersions
    <2>8. EntriesComplete'
      BY <1>1, <2>1, <2>4, <2>6 DEF EntriesComplete
    <2>9. ReturnsCurrentSource'
      <3> DEFINE e == cache[TopKey]
                 row == top.snap[e.path]
      <3>1. row \in Row /\ row.xmin = e.xmin /\ row.tid = e.tid
        BY <2>1, <2>2, <2>3
        DEF RowVersionMatches, pljs_fdw_module_row_version, Frame, FrameOf,
            ModuleTable, Entry
      <3>2. PICK r \in Row : BuiltFrom(e, e.path, r)
        BY <1>1, <2>1, <2>2 DEF EntriesComplete
      <3>3. e.path \in Paths
        BY <2>3 DEF Entry
      <3>4. <<e.path, row>> \in Versions
        <4>1. depth \in 1..depth /\ row = frame[depth].snap[e.path]
          BY <1>0, <2>1 DEF top, FramesOK
        <4> HIDE DEF e, row
        <4> QED BY <3>1, <3>3, <4>1 DEF Versions
      <3>5. <<e.path, r>> \in Versions
        BY <2>1, <2>2, <3>2, <3>3 DEF Versions
      <3>6. row.source = e.source
        BY <1>1, <3>1, <3>2, <3>3, <3>4, <3>5 DEF VersionsAgree, BuiltFrom
      <3>7. row # NoRow
        BY <3>1, CacheAssumption
      <3> QED BY <2>1, <2>4, <2>6, <3>6, <3>7
              DEF ReturnsCurrentSource, TopKey
    <2> QED BY <2>6, <2>7, <2>8, <2>9 DEF SourceInv
  <1>8. CASE GetMiss
    <2>1. depth > 0 /\ top \in Frame
      BY <1>0, <1>8, TopFrame DEF GetMiss, InPhase
    <2>2. \A k \in Keys : cache'[k] \in {NoEntry, cache[k]}
      BY <1>0, <1>8 DEF GetMiss, CacheAfterEviction, CacheOK
    <2>3. CASE live' = LiveAfterEviction /\ Pop
      BY <1>5, <2>1, <2>2, <2>3
    <2>4. ASSUME NEW srv \in ServerOptions, NEW tab \in TableOptions,
                 NEW c \in Contexts, ModulePath(srv, tab) # NoValue,
                 SetTop(StartedFrame(srv, tab, ModulePath(srv, tab), c)),
                 depth' = depth
          PROVE  SourceInv'
      <3> DEFINE f == StartedFrame(srv, tab, ModulePath(srv, tab), c)
      <3>1. f \in Frame /\ f.phase = "require" /\ f.snap = top.snap
        BY <2>1, <2>4, ModulePathType, StartedFrameType
      <3>2. SetTop(f)
        BY <2>4
      <3> HIDE DEF f
      <3> QED BY <1>6, <2>1, <2>2, <2>4, <3>1, <3>2
    <2> QED BY <1>0, <1>8, <2>3, <2>4, MissCases
  <1>9. CASE GetRequire
    <2>1. depth > 0 /\ top \in Frame /\ top.phase = "require"
             /\ depth' = depth /\ cache' = cache
      BY <1>0, <1>9, TopFrame DEF GetRequire, InPhase
    <2>2. PICK row \in Row,
               um \in [Users \cup {Public} -> MappingOptions \cup {NoMapping}] :
            row = top.snap[top.entry.path] /\ SetTop(LoadedFrame(row, um))
      BY <1>0, <1>9, RequireCases
    <2> DEFINE f == LoadedFrame(row, um)
    <2>3. /\ f \in Frame /\ f.phase = "construct" /\ f.snap = top.snap
          /\ f.entry.path = top.entry.path
          /\ BuiltFrom(f.entry, f.entry.path, row)
      BY <2>1, LoadedFrameType DEF BuiltFrom
    <2>4. SetTop(f)
      BY <2>2
    <2> HIDE DEF f
    <2>5. /\ \A d \in 1..depth : d # depth => frame'[d] = frame[d]
          /\ frame'[depth] = f
          /\ top' = f
          /\ \A d \in 1..depth' : \E c \in 1..depth :
                frame'[d].snap = frame[c].snap
          /\ NestedInJavaScript'
      BY <1>4, <2>1, <2>3, <2>4
    <2>6. VersionsAgree' /\ VersionsBounded'
      BY <1>0, <1>1, <1>2, <2>1, <2>5, CallVersions
    <2>7. EntriesComplete'
      <3>1. \A k \in Keys : cache'[k] # NoEntry =>
               \E r \in Row : BuiltFrom(cache'[k], cache'[k].path, r)
        BY <1>1, <2>1 DEF EntriesComplete
      <3>2. ASSUME NEW d \in 1..depth', frame'[d].phase = "construct"
            PROVE  LET r == frame'[d].snap[frame'[d].entry.path]
                   IN  r \in Row /\ BuiltFrom(frame'[d].entry, frame'[d].entry.path, r)
        <4>1. CASE d = depth
          <5>1. f.snap[f.entry.path] = row
            BY <2>2, <2>3
          <5> QED BY <2>2, <2>3, <2>5, <4>1, <5>1
        <4>2. CASE d # depth
          BY <1>1, <2>1, <2>5, <3>2, <4>2 DEF EntriesComplete
        <4> QED BY <4>1, <4>2
      <3> QED BY <3>1, <3>2 DEF EntriesComplete, BuiltFrom
    <2>8. ReturnsCurrentSource'
      BY <2>3, <2>5 DEF ReturnsCurrentSource, InPhase
    <2> QED BY <2>5, <2>6, <2>7, <2>8 DEF SourceInv
  <1>10. CASE GetConstruct
    <2>1. depth > 0 /\ top \in Frame /\ top.phase = "construct"
             /\ depth' = depth /\ TopKey \in Keys /\ depth \in 1..depth
      BY <1>0, <1>10, TopFrame
      DEF GetConstruct, InPhase, TopKey, Keys, Frame, FrameOf, FramesOK
    <2> DEFINE f == [top EXCEPT !.phase = "return"]
               row == top.snap[top.entry.path]
    <2>2. /\ f \in Frame /\ f.phase = "return" /\ f.entry = top.entry
          /\ f.snap = top.snap /\ f.user = top.user /\ f.table = top.table
      BY <2>1 DEF Frame, FrameOf
    <2>3. SetTop(f)
      BY <1>10 DEF GetConstruct
    <2>4. row \in Row /\ BuiltFrom(top.entry, top.entry.path, row)
      BY <1>1, <2>1 DEF EntriesComplete, top
    <2>5. row = frame[depth].snap[top.entry.path]
      BY DEF top
    <2> HIDE DEF f, row
    <2>6. /\ \A d \in 1..depth : d # depth => frame'[d] = frame[d]
          /\ frame'[depth] = f
          /\ top' = f
          /\ \A d \in 1..depth' : \E c \in 1..depth :
                frame'[d].snap = frame[c].snap
          /\ NestedInJavaScript'
      BY <1>4, <2>1, <2>2, <2>3
    <2>7. \A k \in Keys : cache'[k] = IF k = TopKey THEN top.entry ELSE cache[k]
      BY <1>0, <1>10, <2>1 DEF GetConstruct, CacheOK
    <2>8. \A k \in Keys :
             \/ cache'[k] \in {NoEntry, cache[k]}
             \/ \E d \in 1..depth : \E q \in Row :
                   /\ frame[d].snap[cache'[k].path] = q
                   /\ BuiltFrom(cache'[k], cache'[k].path, q)
      BY <2>1, <2>4, <2>5, <2>7
    <2>9. VersionsAgree' /\ VersionsBounded'
      BY <1>0, <1>1, <1>2, <2>6, <2>8, CallVersions
    <2>10. EntriesComplete'
      <3>1. \A k \in Keys : cache'[k] # NoEntry =>
               \E r \in Row : BuiltFrom(cache'[k], cache'[k].path, r)
        BY <1>1, <2>4, <2>7 DEF EntriesComplete
      <3>2. \A d \in 1..depth' : frame'[d].phase = "construct" =>
               LET r == frame'[d].snap[frame'[d].entry.path]
               IN  r \in Row /\ BuiltFrom(frame'[d].entry, frame'[d].entry.path, r)
        BY <1>1, <2>1, <2>2, <2>6 DEF EntriesComplete
      <3> QED BY <3>1, <3>2 DEF EntriesComplete, BuiltFrom
    <2>11. ReturnsCurrentSource'
      <3>1. row # NoRow /\ row.source = top.entry.source
        BY <2>4, CacheAssumption DEF BuiltFrom
      <3>2. TopKey' = TopKey
        BY <2>2, <2>6 DEF TopKey
      <3>3. cache'[TopKey] = top.entry
        BY <2>1, <2>7
      <3> QED BY <2>2, <2>6, <3>1, <3>2, <3>3 DEF ReturnsCurrentSource, row
    <2> QED BY <2>6, <2>9, <2>10, <2>11 DEF SourceInv
  <1>11. CASE GetFail \/ GetCancelled \/ GetConstructDuplicate \/ GetReturn
    <2>1. depth > 0 /\ Pop /\ cache' = cache
      BY <1>11 DEF GetFail, GetCancelled, GetConstructDuplicate, GetReturn,
                   InPhase
    <2> QED BY <1>5, <2>1
  <1> QED BY <1>3, <1>7, <1>8, <1>9, <1>10, <1>11 DEF GetStep

\* Without VACUUM FREEZE, a call always returns the cached entry of its own
\* key, built from the source its snapshot shows, however calls nest: xmin
\* and ctid together identify a version of a module's row.
THEOREM CurrentSource ==
    ASSUME ~AllowFreeze
    PROVE  Spec => []ReturnsCurrentSource
  <1>1. Init => SourceInv
    <2> SUFFICES ASSUME Init PROVE SourceInv
      OBVIOUS
    <2>1. \A p \in Paths, r \in Row : <<p, r>> \in Versions <=> modules[p] = r
      BY DEF Init, Versions
    <2>2. VersionsAgree
      BY <2>1 DEF VersionsAgree
    <2>3. VersionsBounded
      BY <2>1 DEF VersionsBounded, Init, FirstXid
    <2>4. EntriesComplete /\ NestedInJavaScript /\ ReturnsCurrentSource
      BY DEF Init, EntriesComplete, NestedInJavaScript, ReturnsCurrentSource,
             InPhase
    <2> QED BY <2>2, <2>3, <2>4 DEF SourceInv
  <1>2. TypeOK /\ TypeOK' /\ SourceInv /\ [Next]_vars => SourceInv'
    <2> SUFFICES ASSUME TypeOK, TypeOK', SourceInv, [Next]_vars
                 PROVE  SourceInv'
      OBVIOUS
    <2>1. CASE ChangeCatalog \/ AcceptInvalidationMessages \/ UNCHANGED vars
      <3>1. UNCHANGED <<moduleVars, callVars>>
        BY <2>1 DEF ChangeCatalog, AlterServer, AlterTable, AlterUserMapping,
                    ChangeOptions, AcceptInvalidationMessages, vars
      <3>2. Versions' = Versions
        BY <3>1 DEF moduleVars, callVars, Versions, BuiltFrom
      <3>3. VersionsAgree' /\ VersionsBounded'
        BY <3>1, <3>2 DEF SourceInv, VersionsAgree, VersionsBounded, moduleVars
      <3>4. EntriesComplete' /\ NestedInJavaScript' /\ ReturnsCurrentSource'
        BY <3>1 DEF SourceInv, callVars, EntriesComplete, NestedInJavaScript,
                    ReturnsCurrentSource, InPhase, top, TopKey, BuiltFrom
      <3> QED BY <3>3, <3>4 DEF SourceInv
    <2>2. CASE ChangeModules
      BY <2>2, SourceModules
    <2>3. CASE GetStep \/ \E u \in Users, t \in Tables : GetBegin(u, t)
      BY <2>3, SourceCalls
    <2> QED BY <2>1, <2>2, <2>3 DEF Next
  <1>3. SourceInv => ReturnsCurrentSource
    BY DEF SourceInv
  <1> QED BY <1>1, <1>2, <1>3, TypeCorrect, PTL DEF Spec
=============================================================================
