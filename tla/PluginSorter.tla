---------------------------- MODULE PluginSorter ----------------------------
(***************************************************************************)
(* loot::PluginSorter::Sort (src/src/api/plugin/plugin_sorter.cpp).        *)
(*                                                                         *)
(* One call of Sort on a snapshot of the game: the plugin graph is built   *)
(* in the phases of the code, in the code's order, one action per phase:   *)
(* vertices, specific edges, priority propagation, priority edges,         *)
(* overlap edges, tie-break edges, the cycle check and the topological     *)
(* sort.  Every loop whose outcome depends on the edges added before it    *)
(* (the cycle-gated phases) is a left fold over the code's iteration       *)
(* order, so the order in which vertices are visited is kept.              *)
(*                                                                         *)
(* The game is an input: Init picks it from GameStates and no action       *)
(* changes it.  A plugin is a model value; its file name is abstracted to  *)
(* two ranks, the lower-cased name without its 4-character extension       *)
(* (LowerStem) and the case-sensitive full name (FullName), which is all   *)
(* ComparePlugins looks at.                                                *)
(***************************************************************************)
EXTENDS Integers, Sequences, FiniteSets, SequencesExt

CONSTANTS
  Plugins,     \* every plugin name that may be installed (model values)
  LowerStem,   \* [Plugins -> Nat]: order of to_lower(name) minus 4 chars
  FullName,    \* [Plugins -> Nat]: order of the case-sensitive file name
  GameStates   \* the game snapshots Sort may be called on (see GameType)

ASSUME \A p, q \in Plugins : p # q => FullName[p] # FullName[q]

(***************************************************************************)
(* A game snapshot, as the sorter reads it through Game and PluginSorting- *)
(* Data.  installed: the plugin cache; masterFlag: IsMaster() ||          *)
(* IsLightMaster(); masters: <<m, p>> when header of p names m; loadAfter: *)
(* <<f, p>> when the merged, evaluated metadata of p lists f in its        *)
(* requirements or load-after files; priority: metadata priorities;        *)
(* overrides: NumOverrideFormIDs(); overlaps: unordered pairs whose        *)
(* override records overlap; archives: LoadsArchive(); loadOrder: the      *)
(* game's current load order.                                              *)
(***************************************************************************)
Priority == [local : Int, global : Int]

GameType ==
  [installed : SUBSET Plugins, masterFlag : SUBSET Plugins,
   masters : SUBSET (Plugins \X Plugins), loadAfter : SUBSET (Plugins \X Plugins),
   priority : [Plugins -> Priority], overrides : [Plugins -> Nat],
   overlaps : SUBSET SUBSET Plugins, archives : SUBSET Plugins,
   loadOrder : Seq(Plugins)]

ASSUME GameStates \subseteq GameType

VARIABLES
  game,        \* the snapshot being sorted (never changes)
  pc,          \* where Sort is
  vertices,    \* graph_ vertex list, in insertion order
  prio,        \* priorities held by the PluginSortingData of each vertex
  edges,       \* graph_ edge set, <<from, to>>: from loads before to
  result,      \* the returned plugin list
  cycle,       \* the back edge reported by CyclicInteractionError
  backCycle,   \* the cycle CyclicInteractionError lists (CycleDetector's trail)
  tieBreakBase, \* history: edges present when AddTieBreakEdges starts
  added        \* history: the edges each edge-adding phase inserted, in order

vars == <<game, pc, vertices, prio, edges, result, cycle, backCycle, tieBreakBase, added>>

None == <<>>

-----------------------------------------------------------------------------
(* Graph helpers.                                                          *)

\* Vertices reachable from S (S included): boost::breadth_first_search.
RECURSIVE ReachableFrom(_, _)
ReachableFrom(E, S) ==
  LET next == S \cup {e[2] : e \in {x \in E : x[1] \in S}}
  IN  IF next = S THEN S ELSE ReachableFrom(E, next)

\* Edges that lie on a cycle: the back edges a depth-first search can meet.
OnCycle(E) == {e \in E : e[1] \in ReachableFrom(E, {e[2]})}

\* The orders of S that respect every edge of E.
LinearExtensions(E, S) ==
  {s \in [1..Cardinality(S) -> S] :
     /\ \A i, j \in DOMAIN s : i # j => s[i] # s[j]
     /\ \A i, j \in DOMAIN s : <<s[j], s[i]>> \in E => j < i}

\* The ordered pairs (vertex, otherVertex) of two nested loops over vs.
Pairs(vs) ==
  LET n == Len(vs)
  IN  [k \in 1..(n * n) |-> <<vs[((k - 1) \div n) + 1], vs[((k - 1) % n) + 1]>>]

Position(s, p) == CHOOSE i \in DOMAIN s : s[i] = p

-----------------------------------------------------------------------------
(* PluginSortingData accessors.                                            *)

IsMaster(p) == p \in game.masterFlag
NumOverrideFormIDs(p) == game.overrides[p]
LoadsArchive(p) == p \in game.archives
DoFormIDsOverlap(p, q) == {p, q} \in game.overlaps

-----------------------------------------------------------------------------
(* Fault variants of the definitions below, each a plausible slip in the   *)
(* corresponding code; see the mutants of tla/PROJECT.json.                *)

\* A header master that is not installed gets an edge anyway (the result
\* of GetVertexByName not tested).
SpecificEdgesUnresolved ==
  LET V == game.installed
  IN  {<<p, q>> \in V \X V : IsMaster(p) /\ ~IsMaster(q)}
      \cup {e \in game.masters : e[2] \in V}
      \cup {e \in game.loadAfter : e[1] \in V /\ e[2] \in V}

\* The cycle check looks for a direct reverse edge instead of a path.
EdgeCreatesCycleDirect(E, from, to) == from = to \/ <<to, from>> \in E

\* Earlier load-order position compared the wrong way round.
ComparePluginsReversed(p1, p2) ==
  LET lo == game.loadOrder
      in1 == Contains(lo, p1)
      in2 == Contains(lo, p2)
  IN  CASE in1 /\ ~in2 -> -1
        [] ~in1 /\ in2 -> 1
        [] in1 /\ in2 -> IF Position(lo, p1) > Position(lo, p2) THEN -1 ELSE 1
        [] OTHER -> IF LowerStem[p1] # LowerStem[p2]
                    THEN IF LowerStem[p1] < LowerStem[p2] THEN -1 ELSE 1
                    ELSE IF FullName[p1] < FullName[p2] THEN -1 ELSE 1

\* The priority-inheriting visit stops at a vertex whose global priority it
\* just raised (the terminator returns true instead of false).
ContinuesStopOnGlobal(w, r, pr) == pr[w].local < pr[r].local

-----------------------------------------------------------------------------
(* The operations of PluginSorter.                                         *)

\* PluginSorter::EdgeCreatesCycle: a BFS from toVertex that discovers
\* fromVertex (the start vertex is discovered too).
EdgeCreatesCycle(E, from, to) == from \in ReachableFrom(E, {to})

\* PluginSorter::AddEdge: boost::add_edge unless the edge already exists.
AddEdge(E, from, to) == E \cup {<<from, to>>}

\* PluginSorter::AddSpecificEdges: master-flag differences, masters,
\* requirements and load-after files, with no cycle check.
SpecificEdges ==
  LET V == game.installed
  IN  {<<p, q>> \in V \X V : IsMaster(p) /\ ~IsMaster(q)}
      \cup {e \in game.masters : e[1] \in V /\ e[2] \in V}
      \cup {e \in game.loadAfter : e[1] \in V /\ e[2] \in V}

\* The lambda given to std::sort in PropagatePriorities.  It is not a
\* strict weak ordering when local and global priorities disagree.
RootBefore(pr, l, r) == pr[l].local > pr[r].local \/ pr[l].global > pr[r].global

\* libstdc++ std::sort on fewer than 17 elements is __insertion_sort: an
\* element goes to the front if it is "before" the first one, otherwise it
\* moves left while it is "before" its left neighbour.
RECURSIVE InsertPos(_, _, _, _)
InsertPos(pr, t, x, j) == IF RootBefore(pr, x, t[j]) THEN InsertPos(pr, t, x, j - 1) ELSE j

InsertRoot(pr, t, x) ==
  IF t = <<>> THEN <<x>>
  ELSE IF RootBefore(pr, x, t[1]) THEN <<x>> \o t
  ELSE LET j == InsertPos(pr, t, x, Len(t))
       IN  SubSeq(t, 1, j) \o <<x>> \o SubSeq(t, j + 1, Len(t))

SortRoots(pr, roots) == FoldLeft(LAMBDA t, x : InsertRoot(pr, t, x), <<>>, roots)

\* The terminator of depth_first_visit: a discovered vertex whose local,
\* else global, priority is below the root's takes the root's value and
\* the search continues through it; otherwise the search stops there.
Continues(w, r, pr) == pr[w].local < pr[r].local \/ pr[w].global < pr[r].global

Inherit(w, r, pr) ==
  IF pr[w].local < pr[r].local THEN [pr[w] EXCEPT !.local = pr[r].local]
  ELSE IF pr[w].global < pr[r].global THEN [pr[w] EXCEPT !.global = pr[r].global]
  ELSE pr[w]

\* Vertices discovered from the frontier: only white ones (not in seen) are
\* discovered, and only those the terminator lets through are expanded.
RECURSIVE Discover(_, _, _, _, _)
Discover(E, r, pr, frontier, seen) ==
  LET next == {e[2] : e \in {x \in E : x[1] \in frontier}} \ seen
  IN  IF next = {} THEN seen
      ELSE Discover(E, r, pr, {w \in next : Continues(w, r, pr)}, seen \cup next)

\* One boost::depth_first_visit from root r with the colour map st.black
\* shared by every root: the root is greyed again, but a vertex another
\* root's visit already blackened is never discovered.
DfsVisit(E, st, r) ==
  LET found == Discover(E, r, st.prio, {r}, st.black \cup {r})
      new   == found \ (st.black \cup {r})
  IN  [prio  |-> [w \in DOMAIN st.prio |->
                    IF w \in new THEN Inherit(w, r, st.prio) ELSE st.prio[w]],
       black |-> found]

\* PluginSorter::PropagatePriorities on the edge set E.
PropagatedPriorities(E, pr, vs) ==
  LET roots == SelectSeq(vs, LAMBDA v : pr[v].local > 0 \/ pr[v].global > 0)
  IN  FoldLeft(LAMBDA st, r : DfsVisit(E, st, r),
               [prio |-> pr, black |-> {}], SortRoots(pr, roots)).prio

\* AddPriorityEdges' test for which of two plugins loads first.
PriorityLess(pr, v, o) ==
  \/ pr[v].global < pr[o].global
  \/ pr[v].global = pr[o].global /\ pr[v].local < pr[o].local

\* Fault variant: a priority edge added without asking EdgeCreatesCycle.
PriorityEdgeStepUnchecked(pr, E, pair) ==
  LET v == pair[1]
      o == pair[2]
  IN  IF \/ pr[v].global = 0 /\ NumOverrideFormIDs(v) = 0 /\ ~LoadsArchive(v)
         \/ pr[v] = pr[o]
         \/ pr[v].global = 0 /\ pr[o].global = 0 /\ ~DoFormIDsOverlap(v, o)
      THEN E
      ELSE IF PriorityLess(pr, v, o) THEN AddEdge(E, v, o) ELSE AddEdge(E, o, v)

\* One (vertex, otherVertex) iteration of AddPriorityEdges.
PriorityEdgeStep(pr, E, pair) ==
  LET v == pair[1]
      o == pair[2]
      from == IF PriorityLess(pr, v, o) THEN v ELSE o
      to   == IF PriorityLess(pr, v, o) THEN o ELSE v
  IN  IF \/ pr[v].global = 0 /\ NumOverrideFormIDs(v) = 0 /\ ~LoadsArchive(v)
         \/ pr[v] = pr[o]
         \/ pr[v].global = 0 /\ pr[o].global = 0 /\ ~DoFormIDsOverlap(v, o)
      THEN E
      ELSE IF EdgeCreatesCycle(E, from, to) THEN E ELSE AddEdge(E, from, to)

\* One (vertex, otherVertex) iteration of AddOverlapEdges.
OverlapEdgeStep(E, pair) ==
  LET v == pair[1]
      o == pair[2]
      from == IF NumOverrideFormIDs(v) > NumOverrideFormIDs(o) THEN v ELSE o
      to   == IF NumOverrideFormIDs(v) > NumOverrideFormIDs(o) THEN o ELSE v
  IN  IF \/ NumOverrideFormIDs(v) = 0
         \/ v = o \/ <<v, o>> \in E \/ <<o, v>> \in E
         \/ NumOverrideFormIDs(v) = NumOverrideFormIDs(o)
         \/ ~DoFormIDsOverlap(v, o)
      THEN E
      ELSE IF EdgeCreatesCycle(E, from, to) THEN E ELSE AddEdge(E, from, to)

\* PluginSorter::ComparePlugins: load-order position first (a plugin in the
\* load order beats one that is not), then the lower-cased name minus its
\* last 4 characters, then the case-sensitive name.
ComparePlugins(p1, p2) ==
  LET lo == game.loadOrder
      in1 == Contains(lo, p1)
      in2 == Contains(lo, p2)
  IN  CASE in1 /\ ~in2 -> -1
        [] ~in1 /\ in2 -> 1
        [] in1 /\ in2 -> IF Position(lo, p1) < Position(lo, p2) THEN -1 ELSE 1
        [] OTHER -> IF LowerStem[p1] # LowerStem[p2]
                    THEN IF LowerStem[p1] < LowerStem[p2] THEN -1 ELSE 1
                    ELSE IF FullName[p1] < FullName[p2] THEN -1 ELSE 1

\* One (vertex, otherVertex) iteration of AddTieBreakEdges.
TieBreakStep(E, pair) ==
  LET v == pair[1]
      o == pair[2]
      from == IF ComparePlugins(v, o) < 0 THEN v ELSE o
      to   == IF ComparePlugins(v, o) < 0 THEN o ELSE v
  IN  IF v = o \/ <<v, o>> \in E \/ <<o, v>> \in E
      THEN E
      ELSE IF EdgeCreatesCycle(E, from, to) THEN E ELSE AddEdge(E, from, to)

\* Fault variant: the inner loop of AddTieBreakEdges stops ('break' for
\* 'continue') at the first pair it skips.
RECURSIVE TieBreakInnerBreak(_, _, _, _)
TieBreakInnerBreak(E, v, vs, k) ==
  IF k > Len(vs) THEN E
  ELSE IF v = vs[k] \/ <<v, vs[k]>> \in E \/ <<vs[k], v>> \in E THEN E
  ELSE TieBreakInnerBreak(TieBreakStep(E, <<v, vs[k]>>), v, vs, k + 1)

TieBreakEdgesBreak(E, vs) ==
  FoldLeft(LAMBDA E2, v : TieBreakInnerBreak(E2, v, vs, 1), E, vs)

\* PluginSorter::AddTieBreakEdges: both loops over the vertex list.
TieBreakEdges(E, vs) == FoldLeft(TieBreakStep, E, Pairs(vs))

-----------------------------------------------------------------------------
(* CheckForCycles: the depth-first search and its CycleDetector.           *)

\* graph_ is an adjacency_list with listS out-edge lists, so a vertex's
\* out-edges are met in the order add_edge inserted them.  Within
\* AddSpecificEdges an edge is inserted in the iteration of its target
\* (masters, then requirements and 'load after' files), or for a master
\* flag difference in the iteration of whichever end comes first, in
\* the order of the inner loop; AddEdge keeps the first insertion.
SpecificRank(e) ==
  LET n == Len(vertices)
      pu == Position(vertices, e[1])
      pv == Position(vertices, e[2])
      keys == (IF IsMaster(e[1]) /\ ~IsMaster(e[2])
               THEN {(Min({pu, pv}) * 3) * (n + 1) + Max({pu, pv})} ELSE {})
              \cup (IF e \in game.masters THEN {(pv * 3 + 1) * (n + 1)} ELSE {})
              \cup (IF e \in game.loadAfter THEN {(pv * 3 + 2) * (n + 1)} ELSE {})
  IN  Min(keys)

\* The later phases insert at most one edge per (vertex, otherVertex)
\* iteration, and a pair and its reverse insert the same edge.
PairRank(e) ==
  Min({k \in DOMAIN Pairs(vertices) : Pairs(vertices)[k] \in {e, <<e[2], e[1]>>}})

\* When, among all the edges, e was inserted.
InsertionRank(e) ==
  LET phase == CHOOSE i \in DOMAIN added : e \in added[i]
  IN  IF phase = 1 THEN SpecificRank(e) ELSE 1000 * phase + PairRank(e)

\* The out-edge list of every vertex, in insertion order.
OutEdgeLists ==
  [v \in Plugins |->
     SortSeq(SetToSeq({e[2] : e \in {x \in edges : x[1] = v}}),
             LAMBDA a, b : InsertionRank(<<v, a>>) < InsertionRank(<<v, b>>))]

\* CycleDetector::tree_edge: cut the trail at an earlier occurrence of the
\* edge's source, then append the source.
TreeEdgeTrail(trail, name) ==
  IF \E i \in DOMAIN trail : trail[i] = name
  THEN Append(SubSeq(trail, 1, Position(trail, name) - 1), name)
  ELSE Append(trail, name)

\* CycleDetector::back_edge (after it appended the edge's source): the
\* trail from the first occurrence of the edge's target to its end.
BackEdgeCycle(trail, target) == SubSeq(trail, Position(trail, target), Len(trail))

\* One event of the depth-first visit on top of the stack: finish the
\* vertex, or examine its next out-edge (tree edge, back edge, or an edge
\* to a finished vertex).
DfsStep(adj, st) ==
  LET u == Head(st.stack)[1]
      rest == Head(st.stack)[2]
  IN  IF rest = <<>>
      THEN [st EXCEPT !.color[u] = "black", !.stack = Tail(@)]
      ELSE LET v == Head(rest)
               stack == <<<<u, Tail(rest)>>>> \o Tail(st.stack)
           IN  CASE st.color[v] = "white" ->
                      [st EXCEPT !.trail = TreeEdgeTrail(@, u), !.color[v] = "gray",
                                 !.stack = <<<<v, adj[v]>>>> \o stack]
                 [] st.color[v] = "gray" ->
                      [st EXCEPT !.trail = Append(@, u), !.back = <<u, v>>]
                 [] OTHER -> [st EXCEPT !.stack = stack]

RECURSIVE DfsVisitAll(_, _)
DfsVisitAll(adj, st) ==
  IF st.back # None \/ st.stack = <<>> THEN st ELSE DfsVisitAll(adj, DfsStep(adj, st))

\* boost::depth_first_search: a visit from every vertex still white, in
\* vertex order, until a back edge is met.
DepthFirstSearch(adj, vs) ==
  FoldLeft(LAMBDA st, r :
             IF st.back # None \/ st.color[r] # "white" THEN st
             ELSE DfsVisitAll(adj, [st EXCEPT !.color[r] = "gray",
                                              !.stack = <<<<r, adj[r]>>>>]),
           [color |-> [p \in Plugins |-> "white"], stack |-> <<>>,
            trail |-> <<>>, back |-> None],
           vs)

-----------------------------------------------------------------------------
(* Actions: the statements of Sort, in order.                              *)

Init ==
  /\ game \in GameStates
  /\ pc = "vertices"
  /\ vertices = <<>>
  /\ prio = [p \in Plugins |-> game.priority[p]]
  /\ edges = {}
  /\ result = <<>>
  /\ cycle = None
  /\ backCycle = <<>>
  /\ tieBreakBase = {}
  /\ added = <<>>

\* Sort clears the graph and calls AddPluginVertices, which iterates the
\* game cache's plugins in its unspecified (hash) order; with no vertex,
\* Sort returns an empty list at once.
AddPluginVertices ==
  /\ pc = "vertices"
  /\ \E vs \in LinearExtensions({}, game.installed) :
       vertices' = vs
  /\ prio' = [p \in Plugins |-> game.priority[p]]
  /\ pc' = IF game.installed = {} THEN "done" ELSE "specific"
  /\ UNCHANGED <<game, edges, result, cycle, backCycle, tieBreakBase, added>>

AddSpecificEdges ==
  /\ pc = "specific"
  /\ edges' = edges \cup SpecificEdges
  /\ added' = Append(added, edges' \ edges)
  /\ pc' = "propagate"
  /\ UNCHANGED <<game, vertices, prio, result, cycle, backCycle, tieBreakBase>>

PropagatePriorities ==
  /\ pc = "propagate"
  /\ prio' = PropagatedPriorities(edges, prio, vertices)
  /\ pc' = "priority"
  /\ UNCHANGED <<game, vertices, edges, result, cycle, backCycle, tieBreakBase, added>>

AddPriorityEdges ==
  /\ pc = "priority"
  /\ edges' = FoldLeft(LAMBDA E, pair : PriorityEdgeStep(prio, E, pair),
                       edges, Pairs(vertices))
  /\ added' = Append(added, edges' \ edges)
  /\ pc' = "overlap"
  /\ UNCHANGED <<game, vertices, prio, result, cycle, backCycle, tieBreakBase>>

AddOverlapEdges ==
  /\ pc = "overlap"
  /\ edges' = FoldLeft(OverlapEdgeStep, edges, Pairs(vertices))
  /\ added' = Append(added, edges' \ edges)
  /\ pc' = "tiebreak"
  /\ UNCHANGED <<game, vertices, prio, result, cycle, backCycle, tieBreakBase>>

AddTieBreakEdges ==
  /\ pc = "tiebreak"
  /\ tieBreakBase' = edges
  /\ edges' = TieBreakEdges(edges, vertices)
  /\ added' = Append(added, edges' \ edges)
  /\ pc' = "cycles"
  /\ UNCHANGED <<game, vertices, prio, result, cycle, backCycle>>

\* PluginSorter::CheckForCycles: boost::depth_first_search with a
\* CycleDetector visitor, which throws CyclicInteractionError at the first
\* back edge.  The roots are taken in vertex order, each vertex's out-edges
\* in insertion order.
CheckForCycles ==
  /\ pc = "cycles"
  /\ LET st == DepthFirstSearch(OutEdgeLists, vertices)
     IN  IF st.back = None
           THEN pc' = "topo" /\ UNCHANGED <<cycle, backCycle>>
           ELSE /\ pc' = "cyclic"
                /\ cycle' = st.back
                /\ backCycle' = BackEdgeCycle(st.trail, st.back[2])
  /\ UNCHANGED <<game, vertices, prio, edges, result, tieBreakBase, added>>

\* boost::topological_sort into the returned list: one order that respects
\* every edge (which one is the DFS's business).
TopologicalSort ==
  /\ pc = "topo"
  /\ \E s \in LinearExtensions(edges, game.installed) : result' = s
  /\ pc' = "done"
  /\ UNCHANGED <<game, vertices, prio, edges, cycle, backCycle, tieBreakBase, added>>

Next ==
  \/ AddPluginVertices
  \/ AddSpecificEdges
  \/ PropagatePriorities
  \/ AddPriorityEdges
  \/ AddOverlapEdges
  \/ AddTieBreakEdges
  \/ CheckForCycles
  \/ TopologicalSort

Spec == Init /\ [][Next]_vars

-----------------------------------------------------------------------------
(* Properties.                                                             *)

TypeOK ==
  /\ game \in GameStates
  /\ pc \in {"vertices", "specific", "propagate", "priority", "overlap",
             "tiebreak", "cycles", "topo", "done", "cyclic"}
  /\ vertices \in Seq(Plugins)
  /\ prio \in [Plugins -> Priority]
  /\ edges \subseteq game.installed \X game.installed
  /\ result \in Seq(Plugins)
  /\ cycle \in (Plugins \X Plugins) \cup {None}
  /\ backCycle \in Seq(Plugins)
  /\ tieBreakBase \subseteq edges
  /\ added \in Seq(SUBSET edges)

\* What the metadata demands (spec section 8, invariants 1 and 5): among the
\* installed plugins, masters before non-masters, every header master
\* before its dependant, requirements and 'load after' files before the
\* plugin that names them.
MustLoadBefore ==
  {<<p, q>> \in game.installed \X game.installed :
     \/ IsMaster(p) /\ ~IsMaster(q)
     \/ <<p, q>> \in game.masters
     \/ <<p, q>> \in game.loadAfter}

\* Sort throws CyclicInteractionError exactly when the hard constraints
\* themselves are cyclic, and the edge it reports is one of them: the cycle
\* checks of AddPriorityEdges, AddOverlapEdges and AddTieBreakEdges never let
\* a heuristic edge close a cycle, so the error always blames metadata.
FailsOnlyOnHardCycle ==
  pc \in {"done", "cyclic"} =>
    /\ (pc = "cyclic") <=> (OnCycle(MustLoadBefore) # {})
    /\ pc = "cyclic" => cycle \in MustLoadBefore

\* The topological order is unique: every two neighbours of the returned
\* list are joined by an edge, which is what the Hamiltonian-path check at
\* the end of Sort logs an error for when it is not so.
LoadOrderIsUnique ==
  pc = "done" =>
    \A i \in 1..(Len(result) - 1) : <<result[i], result[i + 1]>> \in edges

\* Stability: when the old load order lists every installed plugin in an
\* order that respects every edge added before AddTieBreakEdges, Sort
\* returns it unchanged (ComparePlugins' tie-breaks follow it and none of
\* them is refused by EdgeCreatesCycle).
ConsistentLoadOrderKept ==
  (/\ pc = "done"
   /\ game.loadOrder \in LinearExtensions(tieBreakBase, game.installed))
  => result = game.loadOrder

\* After PropagatePriorities, a plugin that loads after a plugin with a
\* positive global priority (through a master flag, master, requirement or
\* 'load after' edge) has at least that global priority, in a game whose
\* local priorities are all 0: the visitor raises one of the two per visit
\* (it returns after raising a local priority), as spec phase 2 says.
GlobalPriorityInherited ==
  (/\ pc \notin {"vertices", "specific", "propagate"}
   /\ \A p \in game.installed : game.priority[p].local = 0) =>
    \A e \in MustLoadBefore :
      prio[e[1]].global > 0 => prio[e[2]].global >= prio[e[1]].global

\* The same for local priorities: the comment of PropagatePriorities says a
\* positive value is inherited by every plugin that loads after, and the
\* test ...InheritRecursivelyRegardlessOfEvaluationOrder expects it
\* whatever order the roots are visited in.
LocalPriorityInherited ==
  pc \notin {"vertices", "specific", "propagate"} =>
    \A e \in MustLoadBefore :
      prio[e[1]].local > 0 => prio[e[2]].local >= prio[e[1]].local

\* The cycle CyclicInteractionError lists is a cycle of the graph: the
\* plugins in it are distinct, each loads before the next and the last
\* before the first.  CycleDetector's trail is meant to be the path the
\* depth-first search followed to the back edge ("erase everything ... as
\* it doesn't contribute to a forward-cycle").
BackCycleIsACycle ==
  pc = "cyclic" =>
    /\ backCycle # <<>>
    /\ \A i, j \in DOMAIN backCycle : i # j => backCycle[i] # backCycle[j]
    /\ \A i \in 1..(Len(backCycle) - 1) : <<backCycle[i], backCycle[i + 1]>> \in edges
    /\ <<backCycle[Len(backCycle)], backCycle[1]>> \in edges

=============================================================================
