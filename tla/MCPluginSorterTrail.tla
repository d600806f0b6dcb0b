------------------------- MODULE MCPluginSorterTrail -------------------------
(***************************************************************************)
(* PluginSorter with four plugins, for the trail CycleDetector reports: a  *)
(* depth-first search has to leave a cycle for a side branch and come back *)
(* to it, which needs a fourth vertex to start the search from.            *)
(***************************************************************************)
EXTENDS PluginSorter, TLC

CONSTANTS A, B, C, D

\* Four plugins with distinct lower-cased base names.
MCPlugins == {A, B, C, D}
MCLowerStem == A :> 1 @@ B :> 2 @@ C :> 3 @@ D :> 0
MCFullName == A :> 1 @@ B :> 2 @@ C :> 3 @@ D :> 0

NoPriority == [p \in MCPlugins |-> [local |-> 0, global |-> 0]]
NoOverrides == [p \in MCPlugins |-> 0]

\* Load-after relations drawn from six edges: D before A, a cycle between
\* A and B, B before C, and two edges that close longer cycles.
TrailGames ==
  [installed : {MCPlugins}, masterFlag : {{}}, masters : {{}},
   loadAfter : SUBSET {<<D, A>>, <<A, B>>, <<B, A>>, <<B, C>>, <<C, D>>, <<A, C>>},
   priority : {NoPriority}, overrides : {NoOverrides}, overlaps : {{}},
   archives : {{}}, loadOrder : {<<>>}]

=============================================================================
