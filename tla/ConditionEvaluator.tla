------------------------- MODULE ConditionEvaluator -------------------------
(***************************************************************************)
(* loot::ConditionEvaluator (src/src/api/metadata/condition_evaluator.cpp) *)
(* in a game whose plugin cache and active plugins change between calls.   *)
(*                                                                         *)
(* A condition is one predicate of the grammar (the grammar itself,        *)
(* condition_grammar.h, is not under src/): a record naming the function,  *)
(* its file argument and the path components that argument is written     *)
(* with, the checksum, version and comparator it carries, and for the      *)
(* regex functions the data-folder files the regex matches and whether its *)
(* parent directory exists.  syntaxOk is FALSE for a string the grammar or *)
(* std::regex rejects.  The data folder is fixed for a behaviour; the      *)
(* game reloads plugins and changes the load order between evaluations.    *)
(***************************************************************************)
EXTENDS Integers, Sequences, FiniteSets, SequencesExt

CONSTANTS
  Names,        \* file names in the data folder (model values)
  PluginNames,  \* Names that have a plugin file extension
  Loot,         \* the "LOOT" sentinel argument (model value)
  DataFolders,  \* the data folders the game may have
  Conds,        \* the conditions evaluated
  Metadata      \* the PluginMetadata entries evaluateAll is given

ASSUME PluginNames \subseteq Names

VARIABLES
  data,        \* the data folder: present files, ghosted plugins, CRCs, versions
  parseOnly,   \* the evaluator has no game cache or load-order handler
  loaded,      \* names of the plugins in GameCache
  cachedCrc,   \* their GetCRC(): 0 when loaded header-only
  active,      \* the plugins the load-order handler reports active
  cache,       \* GameCache's condition cache: <<condition, result>> pairs
  last         \* what the last call returned, for the properties

vars == <<data, parseOnly, loaded, cachedCrc, active, cache, last>>

None == [kind |-> "none"]

\* boost::filesystem::path::filename() of a path built from components.
Filename(temp) == IF temp = <<>> THEN "" ELSE Last(temp)

-----------------------------------------------------------------------------
(* Fault variants of the definitions below (see PROJECT.json mutants).     *)

\* validatePath comparing with the previous written component, "." included.
ValidatePathRawPrev(path) ==
  \A i \in 2..Len(path) : ~(path[i] = ".." /\ path[i - 1] = "..")

-----------------------------------------------------------------------------

\* ConditionEvaluator::validatePath: walk the components, skipping "." and
\* refusing a ".." when the path walked so far ends in "..".
ValidatePath(path) ==
  LET step(st, c) ==
        IF st.bad \/ c = "." THEN st
        ELSE IF c = ".." /\ Filename(st.temp) = ".." THEN [st EXCEPT !.bad = TRUE]
        ELSE [st EXCEPT !.temp = Append(@, c)]
  IN  ~FoldLeft(step, [temp |-> <<>>, bad |-> FALSE], path).bad

\* The condition parses: grammar, regex compilation and path validation.
Valid(c) == c.syntaxOk /\ ValidatePath(c.path)

\* ConditionEvaluator::fileExists (after validatePath and the parse-only check).
FileExists(n) ==
  \/ n = Loot
  \/ n \in loaded
  \/ n \in data.present
  \/ n \in PluginNames /\ n \in data.ghosted

\* ConditionEvaluator::isPluginActive.
IsPluginActive(n) == n # Loot /\ n \in active

\* checksumMatches using the cached CRC even when it is 0 (header-only).
RealChecksumNoFallback(n) ==
  IF n \in loaded THEN cachedCrc[n]
  ELSE IF n \in data.present THEN data.crc[n]
  ELSE IF n \in PluginNames /\ n \in data.ghosted THEN data.crc[n]
  ELSE 0

\* The CRC checksumMatches compares with: the cached plugin's GetCRC(), and
\* when that is 0 the file's, else (plugin extension) the ghosted file's.
RealChecksum(n) ==
  LET fromCache == IF n \in loaded THEN cachedCrc[n] ELSE 0
  IN  IF fromCache # 0 THEN fromCache
      ELSE IF n \in data.present THEN data.crc[n]
      ELSE IF n \in PluginNames /\ n \in data.ghosted THEN data.crc[n]
      ELSE 0

\* ConditionEvaluator::checksumMatches.
ChecksumMatches(n, hex) == hex = RealChecksum(n)

\* The comparison compareVersions applies to two parsed versions.
VersionCompare(a, b, cmp) ==
  CASE cmp = "==" -> a = b  [] cmp = "!=" -> a # b
    [] cmp = "<"  -> a < b  [] cmp = ">"  -> a > b
    [] cmp = "<=" -> a <= b [] cmp = ">=" -> a >= b

\* ConditionEvaluator::compareVersions: a missing file is older than any
\* version.
CompareVersions(n, v, cmp) ==
  IF ~FileExists(n) THEN cmp \in {"!=", "<", "<="}
  ELSE VersionCompare(data.version[n], v, cmp)

\* The lambda the regex functions pass with the regex: any file for
\* file()/many(), the load-order handler's IsPluginActive for active()/
\* many_active() (no "LOOT" test there).
RegexCondition(activeOnly, f) == ~activeOnly \/ f \in active

\* isRegexMatchInDataDirectory: std::any_of over the entries of the parent
\* directory (false when it is missing) of regex_match && condition.
IsRegexMatchInDataDirectory(c, activeOnly) ==
  c.dirExists /\ \E f \in data.present : f \in c.matches /\ RegexCondition(activeOnly, f)

\* areRegexMatchesInDataDirectory: the same scan with a predicate that is
\* false for the first passing entry (setting foundOneFile) and true from
\* the second on; any_of stops at the first true.
AreRegexMatchesInDataDirectory(c, activeOnly) ==
  LET step(st, f) ==
        IF st.result \/ f \notin c.matches \/ ~RegexCondition(activeOnly, f) THEN st
        ELSE IF st.foundOneFile THEN [st EXCEPT !.result = TRUE]
        ELSE [st EXCEPT !.foundOneFile = TRUE]
  IN  c.dirExists /\
      FoldLeft(step, [foundOneFile |-> FALSE, result |-> FALSE],
               SetToSeq(data.present)).result

\* parseCondition on a valid, non-empty condition in live mode: the
\* grammar's call of the predicate's function.
Predicate(c) ==
  CASE c.fn = "file"        -> FileExists(c.arg)
    [] c.fn = "active"      -> IsPluginActive(c.arg)
    [] c.fn = "checksum"    -> ChecksumMatches(c.arg, c.hex)
    [] c.fn = "version"     -> CompareVersions(c.arg, c.ver, c.cmp)
    [] c.fn = "regex"       -> IsRegexMatchInDataDirectory(c, FALSE)
    [] c.fn = "many"        -> AreRegexMatchesInDataDirectory(c, FALSE)
    [] c.fn = "active_regex" -> IsRegexMatchInDataDirectory(c, TRUE)
    [] c.fn = "many_active" -> AreRegexMatchesInDataDirectory(c, TRUE)

BoolStr(b) == IF b THEN "true" ELSE "false"

\* ConditionEvaluator::evaluate(condition) against condition cache C: the
\* result ("true", "false" or "threw") and the cache after the call.
EvalCond(C, c) ==
  LET cached == {b \in BOOLEAN : <<c, b>> \in C}
  IN  IF parseOnly
      THEN [result |-> IF Valid(c) THEN "false" ELSE "threw", cache |-> C]
      ELSE IF c.fn = "empty" THEN [result |-> "true", cache |-> C]
      ELSE IF cached # {} THEN [result |-> BoolStr(TRUE \in cached), cache |-> C]
      ELSE IF ~Valid(c) THEN [result |-> "threw", cache |-> C]
      ELSE [result |-> BoolStr(Predicate(c)), cache |-> C \cup {<<c, Predicate(c)>>}]

\* Plugin::Plugin without TrimDotGhostExtension: a plugin read from its
\* ".ghost" file enters GameCache under the ghosted file name.
LoadPluginsUntrimmed(S, headerOnly) ==
  /\ loaded' = loaded \cup {IF n \in data.present THEN n ELSE <<n, "ghost">> : n \in S}
  /\ cachedCrc' = [n \in Names |-> IF n \in S THEN (IF headerOnly THEN 0 ELSE data.crc[n])
                                   ELSE cachedCrc[n]]
  /\ cache' = {}
  /\ last' = None
  /\ UNCHANGED <<data, parseOnly, active>>

\* evaluateAll catching the syntax error of one item and going on.
EvaluateItemSkipInvalid(st, c) ==
  LET r == EvalCond(st.cache, c)
  IN  [st EXCEPT !.cache = r.cache,
                 !.items = IF r.result = "true" THEN @ \cup {c} ELSE @]

\* ConditionEvaluator::evaluate(cleaningData, pluginName) in live mode: the
\* cached plugin's CRC, else the file's, else its ".ghost" file's.
CleaningDataMatches(n, crc) ==
  LET fromCache == IF n \in loaded THEN cachedCrc[n] ELSE 0
      real == IF fromCache # 0 THEN fromCache
              ELSE IF n \in data.present \/ n \in data.ghosted THEN data.crc[n]
              ELSE 0
  IN  crc = real

\* One turn of evaluateAll's loops over the conditional items: evaluate
\* the item's condition, keep the item if it is true; a throw leaves the
\* function with the cache as the earlier items left it.
EvaluateItem(st, c) ==
  IF st.threw THEN st
  ELSE LET r == EvalCond(st.cache, c)
       IN  [st EXCEPT !.threw = (r.result = "threw"), !.cache = r.cache,
                      !.items = IF r.result = "true" THEN @ \cup {c} ELSE @]

-----------------------------------------------------------------------------

Init ==
  /\ data \in DataFolders
  /\ parseOnly \in BOOLEAN
  /\ loaded = {}
  /\ cachedCrc = [n \in Names |-> 0]
  /\ active = {}
  /\ cache = {}
  /\ last = None

\* ConditionEvaluator::evaluate(condition).
Evaluate(c) ==
  LET r == EvalCond(cache, c)
  IN  /\ cache' = r.cache
      /\ last' = [kind |-> "cond", cond |-> c, result |-> r.result]
      /\ UNCHANGED <<data, parseOnly, loaded, cachedCrc, active>>

\* ConditionEvaluator::evaluateAll: in parse-only mode the entry is returned
\* as it is; otherwise every conditional item is filtered through evaluate,
\* and the dirty info of an exact entry through evaluate(cleaningData, name).
EvaluateAll(m) ==
  LET st == FoldLeft(EvaluateItem, [threw |-> FALSE, cache |-> cache, items |-> {}],
                     m.items)
  IN  /\ IF parseOnly
         THEN /\ last' = [kind |-> "meta", meta |-> m, threw |-> FALSE,
                          items |-> ToSet(m.items), dirty |-> m.dirty]
              /\ UNCHANGED cache
         ELSE /\ cache' = st.cache
              /\ last' = [kind |-> "meta", meta |-> m, threw |-> st.threw,
                          items |-> st.items,
                          dirty |-> IF m.regex THEN {}
                                    ELSE {d \in m.dirty : CleaningDataMatches(m.name, d)}]
      /\ UNCHANGED <<data, parseOnly, loaded, cachedCrc, active>>

\* The game loads plugins S of its data folder (Plugin::Plugin computes the
\* CRC only when not header-only; GameCache::AddPlugin replaces an entry of
\* the same name) and clears the condition cache.
LoadPlugins(S, headerOnly) ==
  /\ loaded' = loaded \cup S
  /\ cachedCrc' = [n \in Names |-> IF n \in S THEN (IF headerOnly THEN 0 ELSE data.crc[n])
                                   ELSE cachedCrc[n]]
  /\ cache' = {}
  /\ last' = None
  /\ UNCHANGED <<data, parseOnly, active>>

\* The load order changes, and with it the active plugins; the game clears
\* the condition cache.
SetLoadOrder(S) ==
  /\ active' = S
  /\ cache' = {}
  /\ last' = None
  /\ UNCHANGED <<data, parseOnly, loaded, cachedCrc>>

Installed == PluginNames \cap (data.present \cup data.ghosted)

Next ==
  \/ \E c \in Conds : Evaluate(c)
  \/ \E m \in Metadata : EvaluateAll(m)
  \/ \E S \in SUBSET Installed \ {{}}, h \in BOOLEAN : LoadPlugins(S, h)
  \/ \E S \in SUBSET Installed : SetLoadOrder(S)

Spec == Init /\ [][Next]_vars

-----------------------------------------------------------------------------
(* Properties.                                                             *)

TypeOK ==
  /\ data \in DataFolders /\ parseOnly \in BOOLEAN
  /\ loaded \subseteq Installed
  /\ cachedCrc \in [Names -> Nat]
  /\ active \subseteq Installed
  /\ cache \subseteq Conds \X BOOLEAN

\* Spec 4.3, live mode: the 32-bit CRC of the file named, taken from the
\* plugin cache when it holds one, else from the file or (plugin
\* extension) its ghost; a name with no file and no cached CRC has none.
SpecCrcs(n) ==
  IF n \in loaded /\ cachedCrc[n] # 0 THEN {cachedCrc[n]}
  ELSE IF n \in data.present \/ (n \in PluginNames /\ n \in data.ghosted)
  THEN {data.crc[n]} ELSE {}

SpecFileExists(n) ==
  n = Loot \/ n \in loaded \/ n \in data.present \/ (n \in PluginNames /\ n \in data.ghosted)

\* Spec 4.3: what a valid condition means in live mode, the regex
\* functions counted over the matching entries of the data folder.  The
\* spec's sentence on many() says both "at least one" and "at least two";
\* this takes file/active over a regex as at least one and many/
\* many_active as at least two, the reading the code's grammar has.
\* The properties checked here therefore do not rest on that sentence.
SpecHolds(c) ==
  LET passing(act) == {f \in data.present \cap c.matches : ~act \/ f \in active}
  IN  CASE c.fn = "empty"   -> TRUE
        [] c.fn = "file"    -> SpecFileExists(c.arg)
        [] c.fn = "active"  -> c.arg # Loot /\ c.arg \in active
        [] c.fn = "checksum" -> c.hex \in SpecCrcs(c.arg)
        [] c.fn = "version" ->
             IF SpecFileExists(c.arg) THEN VersionCompare(data.version[c.arg], c.ver, c.cmp)
             ELSE c.cmp \in {"!=", "<", "<="}
        [] c.fn = "regex"   -> c.dirExists /\ passing(FALSE) # {}
        [] c.fn = "many"    -> c.dirExists /\ Cardinality(passing(FALSE)) >= 2
        [] c.fn = "active_regex" -> c.dirExists /\ passing(TRUE) # {}
        [] c.fn = "many_active" -> c.dirExists /\ Cardinality(passing(TRUE)) >= 2

\* evaluate(condition) in live mode returns what the condition means in
\* the game as it is now, even when the answer comes from GameCache's
\* condition cache filled before plugins were loaded or the load order
\* changed, and throws exactly on a syntax error or an unsafe path.
EvaluateMatchesSemantics ==
  (last.kind = "cond" /\ ~parseOnly) =>
    last.result = IF Valid(last.cond) THEN BoolStr(SpecHolds(last.cond)) ELSE "threw"

\* evaluateAll in live mode throws exactly when one of the entry's
\* conditions is invalid; otherwise it keeps the items whose conditions
\* hold and, for an exact entry, the dirty info whose CRC is the plugin's
\* (spec 4.3: dirty info is dropped for regex entries).
EvaluateAllFiltersItems ==
  (last.kind = "meta" /\ ~parseOnly) =>
    /\ last.threw <=> \E i \in DOMAIN last.meta.items : ~Valid(last.meta.items[i])
    /\ ~last.threw =>
         /\ last.items = {c \in ToSet(last.meta.items) : SpecHolds(c)}
         /\ last.dirty = IF last.meta.regex THEN {}
                         ELSE {d \in last.meta.dirty : d \in SpecCrcs(last.meta.name)}

\* How far above the data folder each prefix of a path climbs.
Depth(path) ==
  FoldLeft(LAMBDA d, c : IF c = ".." THEN d - 1 ELSE IF c = "." THEN d ELSE d + 1,
           0, path)

\* validatePath is what keeps a condition inside the game: a condition
\* whose path it accepts (in either mode) never climbs more than one
\* level above the data folder at any point of its walk.
AcceptedPathsStayNearDataFolder ==
  (last.kind = "cond" /\ last.result # "threw") =>
    \A k \in 1..Len(last.cond.path) : Depth(SubSeq(last.cond.path, 1, k)) >= -1

====
