------------------------ MODULE MCConditionEvaluator ------------------------
(***************************************************************************)
(* Model-checking instance of ConditionEvaluator: two plugins and a text   *)
(* file, data folders where files are present or ghosted, and a set of     *)
(* conditions that reaches every function of the evaluator.                *)
(***************************************************************************)
EXTENDS ConditionEvaluator, TLC

CONSTANTS p1, p2, t1, LOOT

MCNames == {p1, p2, t1}
MCPluginNames == {p1, p2}

\* Every file present, or p2 and t1 present only as ".ghost" files (a
\* ghosted text file is not a file to fileExists).
MCDataFolders ==
  { [present |-> {p1, p2, t1}, ghosted |-> {},
     crc |-> p1 :> 1 @@ p2 :> 2 @@ t1 :> 1, version |-> p1 :> 1 @@ p2 :> 2 @@ t1 :> 1],
    [present |-> {p1}, ghosted |-> {p2, t1},
     crc |-> p1 :> 1 @@ p2 :> 2 @@ t1 :> 1, version |-> p1 :> 2 @@ p2 :> 1 @@ t1 :> 1] }

\* A condition with every field; fn and arg given, the rest defaulted.
Cond(fn, arg) ==
  [fn |-> fn, arg |-> arg, path |-> <<"a">>, syntaxOk |-> TRUE, hex |-> 1,
   ver |-> 1, cmp |-> "==", matches |-> {}, dirExists |-> TRUE]

CFile2     == [Cond("file", p2) EXCEPT !.path = <<"..", "a">>]
CFileText  == Cond("file", t1)
CActive    == Cond("active", p1)
CChecksum  == [Cond("checksum", p2) EXCEPT !.hex = 2]
CVersion   == [Cond("version", p2) EXCEPT !.ver = 2, !.cmp = "<"]
CMany      == [Cond("many", LOOT) EXCEPT !.matches = {p1, p2}]
CManyActive == [Cond("many_active", LOOT) EXCEPT !.matches = {p1, p2}]
CRegexActive == [Cond("active_regex", LOOT) EXCEPT !.matches = {p2, t1}]
CUnsafe    == [Cond("file", p1) EXCEPT !.path = <<"..", ".", "..", "a">>]
CEmpty     == Cond("empty", LOOT)

MCConds == {CFile2, CFileText, CActive, CChecksum, CVersion, CMany,
            CManyActive, CRegexActive, CUnsafe, CEmpty}

\* An exact entry for p2 with two conditional items and dirty info for
\* either CRC, and a regex entry one of whose items has an unsafe path.
MCMetadata ==
  { [name |-> p2, regex |-> FALSE, items |-> <<CChecksum, CMany>>, dirty |-> {1, 2}],
    [name |-> p1, regex |-> TRUE, items |-> <<CActive, CUnsafe>>, dirty |-> {1}] }

\* A checksum condition with the CRC 0, on a file that may be missing.
CChecksumZero == [Cond("checksum", t1) EXCEPT !.hex = 0]
MCZeroConds == {CChecksumZero, CFileText}

=============================================================================
