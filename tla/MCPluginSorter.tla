--------------------------- MODULE MCPluginSorter ---------------------------
(***************************************************************************)
(* Model-checking instances of PluginSorter: three plugins and, for each   *)
(* run, the set of game snapshots Sort is called on.                       *)
(***************************************************************************)
EXTENDS PluginSorter, TLC

CONSTANTS A, B, C

\* A = "Blank.esm", B = "Blank.esp", C = "Another.esp": A and B share their
\* lower-cased base name, so ComparePlugins must fall back to full names.
MCPlugins == {A, B, C}
MCLowerStem == A :> 1 @@ B :> 1 @@ C :> 0
MCFullName == A :> 1 @@ B :> 2 @@ C :> 0

Orderings == {<<A, B, C>>, <<A, C, B>>, <<B, A, C>>, <<B, C, A>>, <<C, A, B>>, <<C, B, A>>}
DistinctPairs == {e \in MCPlugins \X MCPlugins : e[1] # e[2]}
NoPriority == [p \in MCPlugins |-> [local |-> 0, global |-> 0]]
NoOverrides == [p \in MCPlugins |-> 0]

\* Hard constraints only: every master flag assignment, every load-after
\* relation, one header master, and old load orders that are complete,
\* partial or empty; also a game where C, a master of A, is missing, and
\* one with nothing installed.
HardGames ==
  [installed : {MCPlugins}, masterFlag : SUBSET MCPlugins,
   masters : {{}, {<<A, C>>}}, loadAfter : SUBSET DistinctPairs,
   priority : {NoPriority}, overrides : {NoOverrides}, overlaps : {{}},
   archives : {{}}, loadOrder : Orderings \cup {<<>>, <<B>>, <<C, A>>}]
  \cup
  [installed : {{A, B}}, masterFlag : SUBSET {A, B}, masters : {{<<C, A>>}},
   loadAfter : SUBSET {<<A, B>>, <<B, A>>}, priority : {NoPriority},
   overrides : {NoOverrides}, overlaps : {{}}, archives : {{}},
   loadOrder : {<<>>, <<C, B, A>>}]
  \cup
  [installed : {{}}, masterFlag : {{}}, masters : {{}}, loadAfter : {{}},
   priority : {NoPriority}, overrides : {NoOverrides}, overlaps : {{}},
   archives : {{}}, loadOrder : {<<>>}]

\* Global priorities only (as masterlists set them), over every load-after
\* relation; the old load order is complete.
PriorityGames ==
  [installed : {MCPlugins}, masterFlag : {{}}, masters : {{}},
   loadAfter : SUBSET DistinctPairs,
   priority : [MCPlugins -> [local : {0}, global : {0, 1, 2}]],
   overrides : {NoOverrides}, overlaps : {{}}, archives : {{}},
   loadOrder : {<<A, B, C>>}]

\* Local and global priorities in {0, 1}, over every load-after relation.
MixedPriorityGames ==
  [installed : {MCPlugins}, masterFlag : {{}}, masters : {{}},
   loadAfter : SUBSET DistinctPairs,
   priority : [MCPlugins -> [local : {0, 1}, global : {0, 1}]],
   overrides : {NoOverrides}, overlaps : {{}}, archives : {{}},
   loadOrder : {<<A, B, C>>}]


\* Priority and overlap edges: global priorities in {0, 1}, a local one on
\* A, override counts in {0, 1, 2}, every overlap relation, an archive on
\* B, and load-after edges that can contradict them.
ConflictGames ==
  [installed : {MCPlugins}, masterFlag : {{}}, masters : {{}},
   loadAfter : {{}, {<<A, B>>}, {<<B, C>>}, {<<C, A>>}},
   priority : {[p \in MCPlugins |-> [local |-> IF p = A THEN l ELSE 0, global |-> g[p]]] :
                 l \in {0, 1}, g \in [MCPlugins -> {0, 1}]},
   overrides : [MCPlugins -> {0, 1, 2}],
   overlaps : SUBSET {{A, B}, {B, C}, {A, C}}, archives : {{}, {B}},
   loadOrder : {<<A, B, C>>}]

\* Hard constraints alone, global priorities over every load-after
\* relation, and the priority and overlap conflicts.
SortGames == HardGames \cup PriorityGames \cup ConflictGames

=============================================================================
