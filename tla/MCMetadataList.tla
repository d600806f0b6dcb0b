--------------------------- MODULE MCMetadataList ---------------------------
(***************************************************************************)
(* Model-checking instance of MetadataList: two exact names, one regex     *)
(* name, two conditional items (c1 true only in view v1, c2 in both),      *)
(* files that load, that repeat an entry, that hold an unconvertible       *)
(* element and that cannot be opened.                                      *)
(***************************************************************************)
EXTENDS MetadataList, TLC

CONSTANTS n1, n2, r1, c1, c2, t1, v1, v2

\* r1's pattern matches n1 only.
MCMatches == {<<r1, n1>>}

MCHolds == {<<c1, v1>>, <<c2, v1>>, <<c2, v2>>}

E(n, items) == [items |-> items, name |-> n]

\* A good masterlist with two regex entries for r1; one with a second
\* entry for n2 after a regex entry;
\* one whose second element does not convert; one that cannot be opened.
MCFiles ==
  { [bashTags |-> {t1}, globals |-> <<c1, c2>>, isMap |-> TRUE,
     plugins |-> <<E(n1, {c1}), E(r1, {c1}), E(r1, {c2})>>, readable |-> TRUE],
    [bashTags |-> {t1}, globals |-> <<c1>>, isMap |-> TRUE,
     plugins |-> <<E(n2, {c2}), E(r1, {c1}), E(n2, {})>>, readable |-> TRUE],
    [bashTags |-> {}, globals |-> <<>>, isMap |-> TRUE,
     plugins |-> <<E(n1, {c2}), Malformed>>, readable |-> TRUE],
    [bashTags |-> {}, globals |-> <<>>, isMap |-> FALSE,
     plugins |-> <<>>, readable |-> FALSE] }

MCAddInputs == {E(n1, {c1}), E(n2, {c1, c2}), E(r1, {c2})}

=============================================================================
