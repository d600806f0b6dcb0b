# TLA+ models of libloot

These modules model the stateful parts of libloot (`src/src/api/`) that TLC
can check:

- the plugin sorter, which builds a load order;
- the metadata list, which holds a masterlist or userlist document;
- the condition evaluator, which decides the conditions of metadata against
  the game, with a cache of results;
- the masterlist updater, which keeps a local Git clone of a remote masterlist
  and loads the newest revision that parses;
- the CRC helper, which streams a file through a CRC-32 in fixed-size chunks.

Every definition is translated from the C++ source. `PROJECT.json` maps each
definition to the lines it models, and lists the runs, their mutants, the
findings and the hazards.

## The system and how its parts interact

libloot is a library, called from one thread at a time.

- The **masterlist updater** (`Masterlist::Update`, `masterlist.cpp`) is the only
  part that talks to the outside world between calls. It fetches a remote
  branch, brings the local branch to it, checks the file out, and calls
  `MetadataList::Load`. If Load throws, it rolls the working copy back to
  `HEAD^` and loads again, until a revision parses.
- The **metadata list** (`MetadataList`, `metadata_list.cpp`) holds the
  document: exact plugin entries, regex entries, messages and Bash tags. It
  can evaluate all conditions against the game, keeping the unevaluated
  content so it can evaluate again in another game state.
- The **condition evaluator** (`ConditionEvaluator`, `condition_evaluator.cpp`)
  decides which conditions hold. It reads the game's plugin cache, the
  active plugins and the data folder, and caches each result in the game
  cache, which the game clears when plugins are loaded or the load order
  changes. The game cache, the load-order handler and the metadata entities
  are not in `src/`; they enter the models as inputs.
- The **CRC helper** (`GetCrc32`, `crc.cpp`) computes the CRC of a plugin
  when it is loaded in full, and of any file a `checksum()` condition names.
  The evaluator compares that CRC with the condition's value.
- The **plugin sorter** (`PluginSorter::Sort`, `plugin_sorter.cpp`) takes
  per-plugin data (metadata merged from these lists, plugin headers, the
  current load order) and returns a new load order, or throws
  `CyclicInteractionError`.

The models follow these seams:

- `MetadataList` and `Masterlist` share one interface: Load either succeeds
  or leaves a partial document. `Masterlist` abstracts the list to the commit
  it last loaded, or `Partial`. `MetadataList` models the partial content
  itself.
- The sorter's input is a game snapshot: a record of the metadata the sorter
  reads.

## Modules

### `PluginSorter` / `MCPluginSorter`: `PluginSorter::Sort`

**State:**

- `game`: the snapshot Sort is called on (installed plugins, master flags,
  header masters, load-after and requirement edges, local and global
  priorities, override counts, overlapping pairs, archives, old load order);
- `vertices`: the graph's vertex list;
- `prio`: the priorities as PropagatePriorities leaves them;
- `edges`: the graph's edges;
- `result`: the returned load order;
- `cycle`: the back edge reported by CyclicInteractionError;
- `backCycle`: the list of plugins the error carries (CycleDetector's trail);
- `pc`: the phase.

Two history variables record what the code has at hand but the graph does
not show: `tieBreakBase` (the edges present when AddTieBreakEdges starts) and
`added` (the edges each edge-adding phase inserted).

**Actions:** there is one action per phase, in the order Sort calls them:

| Action | What it does |
|---|---|
| `AddPluginVertices` | Takes any permutation of the installed plugins, because it iterates an `unordered_map` and never sorts. |
| `AddSpecificEdges` | Masters before non-masters, header masters, requirements and load-after, with no cycle check. |
| `PropagatePriorities` | Translates the code step by step. Roots are the plugins with a priority > 0, in vertex order. `std::sort` orders them with the comparator as written, which is not a strict weak ordering; libstdc++ runs insertion sort for fewer than 17 elements, and `SortRoots` models that. Then one `depth_first_visit` per root, with one colour map shared by every visit (`DfsVisit`, `Discover`). |
| `AddPriorityEdges` | A fold over the vertex pairs, in the code's order, each edge gated by `EdgeCreatesCycle` (a BFS from `to` looking for `from`). |
| `AddOverlapEdges` | The same kind of fold, for plugins whose FormIDs overlap. |
| `AddTieBreakEdges` | The same kind of fold, driven by `ComparePlugins`: old load-order positions, then the lower-cased stem, then the full name. |
| `CheckForCycles` | `boost::depth_first_search` event by event (`DfsStep`): roots in vertex order, each vertex's out-edges in insertion order (`OutEdgeLists`), and CycleDetector's `tree_edge` and `back_edge` handlers on the trail. Throws at the first back edge. |
| `TopologicalSort` | Takes any linear extension of the edges. It is only reached when the graph is acyclic. |

The snapshot ranges over three plugins. `A` and `B` share their lower-cased
stem, so `ComparePlugins` has to fall back to the full name.

**Out-edge order.** The graph type is declared in `plugin_sorter.h`, which
is not under `src/`; the `vertexIndexMap_` the code passes to every boost
search is what a `listS` adjacency list needs. With `listS` out-edge lists,
`add_edge` appends, so the search meets a vertex's out-edges in insertion
order. `InsertionRank` orders the edges by phase. Inside
`AddSpecificEdges` the order is the loop's: an edge is added in the
iteration of its target (masters, then requirements and load-after files),
or for a master-flag difference in the iteration of whichever end comes
first. Inside the later phases the order is that of the (vertex,
otherVertex) loop. `MCPluginSorterTrail` has four plugins, so one trace can
both enter a cycle from outside (naming a plugin off the cycle) and leave
it for a side branch (repeating a plugin).

### `MetadataList` / `MCMetadataList`: `MetadataList`

**State:** the seven members of the class: `plugins_`, `regexPlugins_`,
`messages_`, `bashTags_` and the three `unevaluated*` copies.

**Actions:** there is one action per mutating method: `Load`, `Clear`,
`AddPlugin`, `ErasePlugin`, `AppendMessage` and `EvalAllConditions`.

- An entry is a name plus a set of conditional items.
- A file is a record: readable?, map root?, a sequence of `plugins` nodes (a
  node may fail to convert), globals and Bash tags.
- `Load` is a left fold over the sequence, stopping at the first bad or
  duplicate node, as the code's loop does by throwing.
- The evaluator is a relation `Holds` between items and game views.
- `FindPlugin(n)` is the query as an operator: the exact entry of that name
  (or an entry with only the name), into which `MergeMetadata` folds every
  regex entry whose pattern matches `n` (the relation `Matches`), in vector
  order. `MergeMetadata` unions the items, as spec 4.2 says of set fields.

**History variables** say what the list should hold:

- `document`: what the calls put in;
- `evaluatedIn`: the view of the last evaluation;
- `sinceLoad`: whether only a Load and evaluations happened;
- `loadFailed`: whether the last call was a failed Load.

### `ConditionEvaluator` / `MCConditionEvaluator`: `ConditionEvaluator`

A condition is one predicate of the grammar, which is in
`condition_grammar.h` and not under `src/`. It is a record with these
fields:

- the function (`file`, `active`, `checksum`, `version`, `regex`, `many`,
  `active_regex`, `many_active`, or the empty condition);
- its file argument and the path components it is written with;
- the checksum, version and comparator it carries;
- for the regex functions, the data-folder files the regex matches and
  whether its parent directory exists;
- `syntaxOk`: whether the grammar and `std::regex` accept it.

**State:**

- `data`: the data folder: files present, plugins present only as `.ghost`,
  CRCs and versions. It is fixed for a behaviour.
- `parseOnly`: whether the evaluator has no game cache.
- `loaded` and `cachedCrc`: the plugin cache, and each plugin's `GetCRC()`.
- `active`: the active plugins.
- `cache`: the game cache's condition cache, as `<<condition, result>>`
  pairs.
- `last`: what the last call returned.

**Actions:**

| Action | What it does |
|---|---|
| `Evaluate(c)` | `evaluate(condition)` in the code's order: parse-only check, empty condition, cache lookup, parse, store in the cache (`EvalCond`). A condition that fails to parse throws and is not cached. Each predicate is a definition named after its function (`FileExists`, `IsPluginActive`, `ChecksumMatches`, `CompareVersions`, `IsRegexMatchInDataDirectory`, `AreRegexMatchesInDataDirectory`). The "at least two" count of the last is the code's `foundOneFile` flag inside `std::any_of`. `ValidatePath` is a fold over the path components. |
| `EvaluateAll(m)` | `evaluateAll`: the items are filtered through evaluate in order, and a throw ends the call. Dirty info is filtered by the CRC (`CleaningDataMatches`) for an exact entry and dropped for a regex entry. In parse-only mode the entry is returned unchanged. |
| `LoadPlugins(S, headerOnly)` | The game loads plugins. `Plugin::Plugin` trims `.ghost` from the name and computes the CRC only for a full load; the CRC is 0 after a header-only load. The condition cache is cleared. |
| `SetLoadOrder(S)` | The active plugins change and the condition cache is cleared. This is modelled from spec 4.3, because the load-order handler is not under `src/`. |

Versions are abstracted to integers, because version parsing is not under
`src/`.

### `Masterlist` / `MCMasterlist`: `Masterlist::Update`, `IsLatest`, `GetInfo`

**Commits** are model values with a first parent. Some have a masterlist that
parses (`Parses`).

**State:** the remote tip and the local clone: `repo`, `fetched`, `branch`,
`head` (Attached or detached), and `file` (a commit, or `Edited` when the
user changed the file). It also holds what the Masterlist object last
loaded, and a `pc` for the rollback loop. `reply` records what the last
call reported: an Update, a throw, IsLatest's answer, or GetInfo's revision
and `is_modified`. Initially there may be no masterlist file, or one the
user put there without a repository.

**Actions:**

- `Update` covers lines 116-254: argument check, clone or fetch, new branch,
  fast-forward, up to date, diverged, and checkout.
- `ParseAttempt` is one turn of the do/while loop (lines 256-280).
- `Push` is the environment moving the remote tip anywhere, which includes
  force-pushes.
- `EditFile` is the user changing the file.
- `IsLatest` covers lines 88-114. With no repository it throws
  GitStateError. Otherwise it fetches origin, which moves `fetched` to the
  remote tip, and compares that with HEAD.
- `GetInfo` covers lines 44-86. It throws FileAccessError with no file and
  GitStateError with no repository. Otherwise it reports HEAD's revision,
  and whether the working file differs from it. The date and the short-id
  form are formatting and are left out.

**Refinement.** `MasterlistUpdate` is the abstract specification of what
Update promises (spec 4.7). An update begins at a commit and finishes in one
step. It either loads the newest parsable commit of that commit's
first-parent history, or throws with a partial list. It may also return
false or throw without loading anything. `Finish` is weakly fair.
`Masterlist` instantiates it with this mapping:

- `busy` is `pc = "parsing"`;
- `loaded` is `Partial` while the loop runs.

The rollback loop's steps are stuttering steps of the abstract
specification. `UpdateImplementsAtomicLoad` (that `Spec`, as a property)
says that every loop ends at the right commit or throws with nothing
reliable loaded.

Two parts of the code are modelled by what they actually do:

- **Line 219** compares `local_commit_id->id` with `remote_commit_id->id`.
  These are the addresses of arrays inside objects already passed to
  `git_object_free`. libgit2's object cache usually keeps a commit alive,
  so the comparison mostly agrees with comparing ids; a commit too large
  for the cache (over 4 KiB) is really freed, and its block can be reused
  for the other commit. The model therefore chooses `updateBranchHead`
  freely.
- **Line 185** deletes the branch that line 168 just pointed HEAD at, and
  libgit2 refuses to delete the current branch. So in the diverged case,
  Update throws.

### `Crc` / `MCCrc`: `GetCrc32`

**State:** whether the file opens (`exists`), its bytes (`file`), the
stream position (`pos`), `bytesLeft`, the bytes fed to `process_bytes`
(`processed`), and a `pc`. Three history variables record a read failure, a
rewrite by another program, and a truncation below what the loop still had
to read. The register of `boost::crc_32_type` is a definition over
`processed` (`Register`), and `Checksum` applies the final xor.

| action | code |
|---|---|
| `Open` | The `ifstream` and `exceptions(badbit \| failbit)`: a stream that failed to open throws at once (lines 56-57). |
| `GetStreamSize` | `tellg`, seek to the end, `tellg`, seek back (lines 38-46). |
| `ReadChunk` | One turn of the while loop: read `min(bytesLeft, BUFFER_SIZE)` bytes, `process_bytes(gcount)`, `bytesLeft -= gcount` (lines 62-71). |
| `ReadPastEnd` | A read that reaches the end of the file early sets failbit, which throws before `process_bytes`. |
| `ReadFails` | The device fails during a read (badbit). The catch turns any exception into `FileAccessError` (lines 80-83). |
| `Finish` | The loop ends and `result.checksum()` is returned (lines 73-78). |
| `Rewrite` | Another program rewrites the file once during the call. `ifstream` shares the file with writers. |

`boost::crc_32_type` is not in the repository (spec section 1 names CRC
computation as a capability). It is modelled at `Width` bits as the
reflected register: xor a byte in, then eight shifts right, xoring the
reflected polynomial when a 1 drops out, with an all-ones initial value and
final xor. `CrcRef` is an independent reference: the remainder of
x^Width·M(x) + x^n·I(x) divided by the generator polynomial over GF(2),
reflected and inverted. With Width 32 and polynomial 0xEDB88320 both give
0xCBF43926 for "123456789", the standard CRC-32 check value. The run uses an
8-bit register, so that every value fits TLC's integers.

## Runs

| run | cfg | expect | what it shows |
|---|---|---|---|
| sort_hard | `MCPluginSorter_hard.cfg` | pass | See below. |
| sort_cycle_trail | `MCPluginSorter_trail.cfg` | violation | See below. |
| sort_local_priority | `MCPluginSorter_local.cfg` | violation | See below. |
| metadata_eval | `MCMetadataList_doc.cfg` | pass | Exact entries stay unique by name over up to 6 calls. A list filled by one Load reflects the file in whichever view it was last evaluated in, and `FindPlugin` on it returns, for every plugin, the items of its exact entry and of all matching regex entries of the file that hold in that view (`FindPluginAfterEvaluation`). |
| metadata_stale_eval | `MCMetadataList_reflects.cfg` | violation | See below. |
| metadata_partial_load | `MCMetadataList_atomic.cfg` | violation | A Load that throws on a malformed or duplicate entry keeps the entries read before it. Spec 4.2 says a failure leaves the document empty. |
| masterlist_update | `MCMasterlist_update.cfg` | pass | Over pushes, force-pushes, user edits and 3 updates, a `true` result has loaded the newest parsable commit of the history checked out, with HEAD at it. Until the next edit or Update, GetInfo reports that commit, unmodified, and IsLatest answers true exactly when it is the fetched tip (`ReportsDescribeLoadedMasterlist`), so a masterlist the loop fell back to is never "latest". Update implements `MasterlistUpdate`. |
| masterlist_rewound_remote | `MCMasterlist_branch.cfg` | violation | See below. |
| masterlist_diverged_remote | `MCMasterlist_throws.cfg` | violation | After a diverging force-push every Update throws (line 185), although the remote history has a masterlist that parses. |
| condition_eval | `MCConditionEvaluator.cfg` | pass | See below. |
| condition_crc0 | `MCConditionEvaluator_crc0.cfg` | violation | See below. |
| crc_stream | `MCCrc.cfg` | pass | See below. |

**sort_hard** covers every master-flag assignment, every load-after relation,
a header master, a missing master, and complete, partial and empty old load
orders. It also covers global priorities 0-2 over every load-after relation,
and conflicts: priorities, override counts 0-2, every overlap relation and
an archive, against load-after edges that contradict them. It shows that:

- Sort throws exactly when they are cyclic, and blames one of their edges,
  because the cycle checks keep every priority, overlap and tie-break edge
  out of a cycle;
- the order is unique (a Hamiltonian path);
- a consistent old order is kept;
- a global priority is inherited along every hard edge.

The last is stated for games where no local priority is set. The visitor raises one
of the two priorities per visit: it returns right after raising a local
priority. Spec phase 2 describes the same.

**sort_cycle_trail**: the list CyclicInteractionError carries can repeat a
plugin and name plugins off the cycle. `CycleDetector::tree_edge` cuts the
trail only when the edge's source is already in it, and nothing removes a
vertex whose subtree is finished. Take vertices D, B, C, A and load-after
edges D→A, A→B, B→C and B→A. B→C is inserted in C's iteration, before B→A
in A's, so the search goes D, A, B, then C, which finishes. It then meets
the back edge B→A. The trail is D, A, B, B and the error lists "A, B, B".
Spec 4.5 says the trail is a stack of vertex names sliced at the back edge.
The reported back edge itself is right (`FailsOnlyOnHardCycle`).

**sort_local_priority** is a case where local priority is not inherited.
Take A (local 1) before B (global 1). The comparator puts B first. B's own
visit colours B black, so A's visit stops at it and B keeps local 0. This
contradicts the comment on PropagatePriorities and the unit test that
expects inheritance regardless of evaluation order.

**metadata_stale_eval**: EvalAllConditions after a later Load, Clear, Add,
Erase or Append brings back the entries kept by an earlier evaluation. Its
`unevaluated*` copies are never reset.

**masterlist_rewound_remote**: after the remote is moved back, Update can
return `false` with the local branch still ahead. This is the line-219
comparison. The comment at lines 206-208 and spec 4.7 say HEAD is moved
back.

**condition_eval** runs over two data folders: one with every file, and one
where a plugin and a text file exist only as `.ghost`. It covers live and
parse-only evaluators, any sequence of plugin loads (header-only or full)
and load-order changes, and ten conditions. It shows that:

- evaluate in live mode returns what the condition means now (spec 4.3),
  even when the answer comes from the cache;
- evaluateAll throws exactly when one item is invalid, and otherwise keeps
  exactly the items that hold and the dirty info whose CRC matches;
- a path validatePath accepts never climbs more than one level above the
  data folder.

Spec 4.3's sentence on `many()` contradicts itself: it says both "at least
one" and "at least two" matching entries. `SpecHolds` reads a regex in
`file`/`active` as needing at least one entry and `many`/`many_active` as
needing at least two, which is how the code's grammar reads them. No
property depends on the other reading.

**condition_crc0**: `checksum(missing file, 0)` is true. The CRC 0 stands
both for "not computed" (header-only loads) and for "no file", and
checksumMatches compares with whatever is left. Spec 4.3 says the CRC of the
file named.

**crc_stream** covers every file of up to four bytes over 0, 1 and 255, a
two-byte buffer, open failures, read failures, and one rewrite by another
program at any point of the call. It shows that:

- GetCrc32 returns the CRC the polynomial division defines, for an empty
  file, a file shorter than the buffer, a multiple of it, and a remainder,
  whenever the file was not rewritten during the call;
- it throws only when the file cannot be opened, a read fails, or the file
  was truncated below what the loop still had to read;
- it always returns or throws.

An empty file has CRC 0, the value the plugin cache uses for "not
computed" (see condition_crc0). When the file is extended or rewritten
during the call, the result mixes the two versions. No property can say
anything about that CRC, and the code cannot detect it.

One more divergence is not a run, because it needs no interleaving to show:
in parse-only mode evaluate returns false for the empty condition (line 53
comes before line 59), while spec 4.3 says an empty condition is true. The
model has the code's order (`EvalCond`).

### Mutants

Every property of every passing run is broken by a mutant: a plausible bug
written as an operator just above the definition it replaces, in each
module's "Fault variants" section.

| Module | Mutants |
|---|---|
| PluginSorter | An unresolved master. A cycle check that only looks one edge ahead. A reversed tie-break comparator. A depth-first terminator that stops at global priorities. A priority-edge step without the cycle check. A tie-break fold that stops the inner loop early. |
| MetadataList | A multiset `plugins_`. An evaluation that does not clear `plugins_`. A `FindPlugin` that stops after the first matching regex entry. |
| Masterlist | A rollback that does not move (the refinement's liveness fails). A rollback that does not fail at a root. A checkout that leaves the file unchanged. An IsLatest that compares the remote ref with the local branch instead of HEAD. |
| Crc | A stream size measured without seeking back (the first read hits the end). A last chunk that asks for one byte too few (the loop spins). A `bytesLeft` decreased by the buffer size, not by gcount. |
| ConditionEvaluator | A plugin cache that keeps the `.ghost` name. A checksum that trusts a 0 CRC from the cache. An evaluateAll that skips an item that throws. A validatePath that compares with the previous written component, `.` included. |

## Bounds and why they suffice

**Sorter: three plugins.** This is the smallest number with:

- a path of two edges, along which priority is inherited transitively;
- an edge a cycle check must refuse because the reverse path exists;
- a root order that the non-strict comparator gets wrong.

Each run enumerates every snapshot of its class: all master flags and
load-after relations (64 of them), and all priority, override and overlap
assignments within the stated ranges. Vertex order ranges over all 6
permutations.

**Sorter trail: four plugins.** The trail run uses load-after relations drawn
from six edges (64 relations) and all 24 vertex orders. A search has to enter
a cycle from outside and leave it for a side branch. Three vertices are
enough for the repeated plugin alone; the fourth lets the same trace also
name a plugin off the cycle.

**Metadata list:**

- two exact names (the duplicate case needs a second one) and one regex name,
  whose pattern matches `n1` only;
- two items and two views, so that an item can hold in one view and not in the
  other;
- four files: a good one with two regex entries (so that `FindPlugin` merges
  more than one, and the second adds an item the first lacks), one with a duplicate after a regex entry, one with a
  malformed element after a good one, and one that cannot be read;
- up to 6 calls in the passing run. The stale-copy violation needs 4 calls:
  a Load, an evaluation, a second Load and a second evaluation.

**Masterlist:**

- five commits: a root `c0` that parses, `c1` and `c2` that do not, a sibling
  `c3` of `c2` that parses, and an unrelated root `x0` for force-pushes;
- 2 pushes and 3 updates.

These cover every branch of Update: clone, fast-forward, up to date with
either comparison outcome, diverged, and rollbacks of one and two steps. They
also cover a rollback that runs off a root.

**Condition evaluator:**

- three files: two plugins and a text file, so a ghosted text file can be
  told apart from a ghosted plugin;
- two CRCs, so a matching and a mismatching checksum both occur;
- two versions, for both comparator outcomes;
- regex conditions matching two files, so "at least two" and "at least one"
  differ;
- paths `.. a` (accepted) and `.. . .. a` (refused, because `.` is skipped).

The run is unbounded in the number of calls: the state space closes because
loads, load orders and the cache range over finite sets.

**CRC:**

- a two-byte buffer and files of up to four bytes, which give an empty file,
  a file shorter than the buffer, an exact multiple, and a remainder after
  one full chunk;
- bytes 0, 1 and 255, so the register sees no bit, only the low bit, and
  every bit;
- one rewrite per call (the named bound is the `rewritten` flag), which is
  enough for a truncation and for an extension at each point of the loop.

## Fairness

`Masterlist` has a liveness property:

- `ParseAttempt` is weakly fair, because the do/while loop runs on the
  caller's thread with nothing to wait on;
- the abstract `MasterlistUpdate` assumes weak fairness of `Finish`, and
  the refinement check shows the loop provides it;
- pushes, edits and further updates are environment steps, so they are not
  fair.

`Crc` has one: `GetCrc32Terminates`. The call's own steps (`Open`,
`GetStreamSize`, `ReadChunk`, `ReadPastEnd`, `Finish`) are weakly fair,
because GetCrc32 runs on the caller's thread and waits for nothing. A device
failure and a rewrite by another program are not fair: nothing forces them.
`CHECK_DEADLOCK FALSE` holds there because a returned call stops.

The sorter and the metadata list are sequential calls with no liveness
claim. Their runs set `CHECK_DEADLOCK FALSE`: a Sort that has returned, or a
list that receives no further call, may stop. The condition evaluator can
always be called again, so its runs check for deadlock.

## What is not modelled

- **Plugin** (`plugin.cpp`): only the constructor's name trimming and CRC
  are modelled, inside `ConditionEvaluator`. Header parsing and the archive
  scan are file I/O. The archive scan works on the untrimmed path, so a
  plugin present only as `.ghost` never finds its archive
  (`plugin.cpp:80`); the sorter takes `LoadsArchive` as an input, so this
  is a hazard with a note, not a run.
- **`CrcToString`** (`crc.cpp`): formatting with no state, and no caller in
  `src/`. The CRC register itself is boost's and is modelled at 8 bits.
- The **encoding converters**: thin wrappers around Windows conversion calls.
- **ApiDatabase:** only the header is in `src/`.
- **Not in `src/`:** the game cache, the load-order handler, version
  comparison, the condition grammar and the metadata entities.
- **Inside the sorter:** logging, and plugin names that differ only in case.
  ComparePlugins looks names up in the old load order case-sensitively; see
  the hazards in `PROJECT.json`.
- **Sorter vertex order:** `AddPluginVertices` iterates the plugin cache
  unsorted (`plugin_sorter.cpp:245`), although the comment above it and
  `spec.md` require a name-sorted order. The model lets the vertex order be
  any permutation, and every property holds for each one; what differs is
  the result. With `C` loading after `A`, old order `A,B,C` and no
  priorities, vertex order `B,C,A` sorts to `B,C,A` and `A,B,C` sorts to
  `C,A,B`. Saying that two sorts of the same input agree compares two
  behaviours, which no single run states; the hazard records the example.
- **Inside the metadata list:** `Save` (output only), and the regex match
  itself: which pattern matches which name is the constant `Matches`.
- **Inside the masterlist:** Git transport errors, the revision date and
  short-id formatting of `GetInfo`, and the empty-argument checks (the URL
  and the branch are fixed).
- **Inside the condition evaluator:** the string form of conditions, and
  the text of error messages.

## Plan for later work

1. **Sorter:**
   - a property comparing two vertex orders of one input (a run built on
     a product of two sorter instances);
   - a re-sort run: sorting the returned order again gives the same order;
   - more than three plugins for the priority runs, once the state space
     allows it.
2. **`MetadataList`:**
   - composition with `ConditionEvaluator`, replacing the `Holds` relation.
