---------------------------- MODULE MetadataList ----------------------------
(***************************************************************************)
(* loot::MetadataList (src/src/api/metadata_list.cpp): a metadata document *)
(* with exact plugin entries (a std::set keyed by case-folded name), regex *)
(* entries (a vector), general messages and Bash tags, plus the copies     *)
(* EvalAllConditions keeps of the unevaluated entries and messages.        *)
(*                                                                         *)
(* A plugin entry is abstracted to its name and its set of conditional     *)
(* items; a message is a conditional item.  An item either holds or not   *)
(* in the game view the ConditionEvaluator looks at (Holds), and           *)
(* evaluateAll keeps the items that hold.  A YAML file is a record: can    *)
(* it be opened, is its root a map, its 'plugins' sequence (where an       *)
(* element may fail to convert), its 'globals' and its 'bash_tags'.        *)
(***************************************************************************)
EXTENDS Integers, Sequences, FiniteSets, SequencesExt

CONSTANTS
  Names,       \* names of exact plugin entries (one per case-folded name)
  RegexNames,  \* names of regex plugin entries
  Conds,       \* conditional items: metadata inside an entry, or messages
  Tags,        \* Bash tag names
  Views,       \* the game states a ConditionEvaluator may see
  Holds,       \* SUBSET (Conds \X Views): the item's condition is true
  Matches,     \* SUBSET (RegexNames \X Names): the entry's regex matches the name
  Files,       \* the metadata files Load may be given
  AddInputs,   \* the entries AddPlugin may be given
  MaxCalls     \* bound on the number of calls made on the list

Entry == [name : Names \cup RegexNames, items : SUBSET Conds]
Malformed == [malformed |-> TRUE]   \* a 'plugins' element node.as<> rejects

FileType ==
  [readable : BOOLEAN, isMap : BOOLEAN, plugins : Seq(Entry \cup {Malformed}),
   globals : Seq(Conds), bashTags : SUBSET Tags]

ASSUME Files \subseteq FileType /\ AddInputs \subseteq Entry
ASSUME Matches \subseteq RegexNames \X Names

VARIABLES
  plugins,                  \* plugins_
  regexPlugins,             \* regexPlugins_
  messages,                 \* messages_
  bashTags,                 \* bashTags_
  unevaluatedPlugins,       \* unevaluatedPlugins_
  unevaluatedRegexPlugins,  \* unevaluatedRegexPlugins_
  unevaluatedMessages,      \* unevaluatedMessages_
  document,                 \* history: the entries and messages the calls put in
  evaluatedIn,              \* history: view of the last EvalAllConditions, if
                            \*   no other call came after it, else NoView
  sinceLoad,                \* history: "fresh" before any call, "loaded" after
                            \*   a first Load and only evaluations, else "touched"
  loadFailed,               \* history: the last call was a Load that threw
  calls                     \* number of calls made

list == <<plugins, regexPlugins, messages, bashTags>>
copies == <<unevaluatedPlugins, unevaluatedRegexPlugins, unevaluatedMessages>>
vars == <<list, copies, document, evaluatedIn, sinceLoad, loadFailed, calls>>

NoView == "none"
Empty == [messages |-> <<>>, plugins |-> {}, regex |-> <<>>]

IsRegexPlugin(e) == e.name \in RegexNames

HasName(S, n) == \E e \in S : e.name = n

\* PluginMetadata carrying only the items that hold in view v.
EvaluateAll(e, v) == [e EXCEPT !.items = {c \in e.items : <<c, v>> \in Holds}]

EvaluateMessages(ms, v) == SelectSeq(ms, LAMBDA c : <<c, v>> \in Holds)

\* PluginMetadata::MergeMetadata of an entry into another of the same
\* identity: set fields are unions (spec 4.2).
MergeMetadata(a, b) == [a EXCEPT !.items = @ \cup b.items]

\* The regex entries of rx whose pattern matches name n, in vector order.
MatchingRegex(rx, n) == SelectSeq(rx, LAMBDA e : <<e.name, n>> \in Matches)

-----------------------------------------------------------------------------
(* Fault variants of the definitions below (see PROJECT.json mutants).     *)

\* plugins_ as a multiset: insert never refuses a second entry of a name.
InsertMulti(S, e) == [ok |-> TRUE, set |-> S \cup {e}]

\* EvalAllConditions without the plugins_.clear() of its else branch.
EvalPluginsNoClear(S, U) ==
  IF U = {} THEN [now |-> {}, kept |-> S] ELSE [now |-> S, kept |-> U]

\* FindPlugin whose loop stops after the first matching regex entry.
FindPluginFirstRegexOnly(n) ==
  LET exact == {e \in plugins : e.name = n}
      match == IF exact = {} THEN [items |-> {}, name |-> n]
               ELSE CHOOSE e \in exact : TRUE
      rx == MatchingRegex(regexPlugins, n)
  IN  IF rx = <<>> THEN match ELSE MergeMetadata(match, Head(rx))

-----------------------------------------------------------------------------

\* MetadataList::FindPlugin: the exact entry of that name (or an entry
\* with only the name), into which every matching regex entry is merged.
FindPlugin(n) ==
  LET exact == {e \in plugins : e.name = n}
      match == IF exact = {} THEN [items |-> {}, name |-> n]
               ELSE CHOOSE e \in exact : TRUE
  IN  FoldLeft(MergeMetadata, match, MatchingRegex(regexPlugins, n))

\* std::set<PluginMetadata>::insert: refused when an entry of that
\* (case-folded) name is present.
Insert(S, e) ==
  IF HasName(S, e.name) THEN [ok |-> FALSE, set |-> S]
  ELSE [ok |-> TRUE, set |-> S \cup {e}]

\* The swap-or-clear at the head of EvalAllConditions for plugins_: which
\* set is then evaluated ('kept', the new unevaluatedPlugins_) and what
\* plugins_ holds before the evaluated entries are inserted ('now').
EvalPlugins(S, U) ==
  IF U = {} THEN [now |-> {}, kept |-> S] ELSE [now |-> {}, kept |-> U]

\* The loop of Load over the 'plugins' node, which stops at the first
\* element that fails to convert or that duplicates an exact entry.
LoadEntry(st, x) ==
  IF st.failed THEN st
  ELSE IF x = Malformed THEN [st EXCEPT !.failed = TRUE]
  ELSE IF IsRegexPlugin(x) THEN [st EXCEPT !.regex = Append(@, x)]
  ELSE LET r == Insert(st.plugins, x)
       IN  IF r.ok THEN [st EXCEPT !.plugins = r.set]
           ELSE [st EXCEPT !.failed = TRUE]

-----------------------------------------------------------------------------

Init ==
  /\ plugins = {} /\ regexPlugins = <<>> /\ messages = <<>> /\ bashTags = {}
  /\ unevaluatedPlugins = {} /\ unevaluatedRegexPlugins = <<>>
  /\ unevaluatedMessages = <<>>
  /\ document = Empty
  /\ evaluatedIn = NoView
  /\ sinceLoad = "fresh"
  /\ loadFailed = FALSE
  /\ calls = 0

\* MetadataList::Load: Clear(), then open and parse; a failure throws and
\* leaves whatever was read before it.
Load(f) ==
  LET st == FoldLeft(LoadEntry, [failed |-> FALSE, plugins |-> {}, regex |-> <<>>],
                     f.plugins)
      parsed == f.readable /\ f.isMap
      ok == parsed /\ ~st.failed
  IN  /\ plugins' = IF parsed THEN st.plugins ELSE {}
      /\ regexPlugins' = IF parsed THEN st.regex ELSE <<>>
      /\ messages' = IF ok THEN f.globals ELSE <<>>
      /\ bashTags' = IF ok THEN f.bashTags ELSE {}
      /\ document' = [messages |-> messages', plugins |-> plugins',
                      regex |-> regexPlugins']
      /\ loadFailed' = ~ok
      /\ UNCHANGED copies

\* MetadataList::Clear.
Clear ==
  /\ plugins' = {} /\ regexPlugins' = <<>> /\ messages' = <<>> /\ bashTags' = {}
  /\ document' = Empty
  /\ UNCHANGED copies

\* MetadataList::AddPlugin: a duplicate exact entry throws.
AddPlugin(e) ==
  /\ IF IsRegexPlugin(e)
     THEN /\ regexPlugins' = Append(regexPlugins, e)
          /\ document' = [document EXCEPT !.regex = Append(@, e)]
          /\ UNCHANGED plugins
     ELSE LET r == Insert(plugins, e)
          IN  /\ plugins' = r.set
              /\ document' = IF r.ok THEN [document EXCEPT !.plugins = @ \cup {e}]
                             ELSE document
              /\ UNCHANGED regexPlugins
  /\ UNCHANGED <<messages, bashTags, copies>>

\* MetadataList::ErasePlugin: the exact entry of that name, if any.
ErasePlugin(n) ==
  /\ plugins' = {e \in plugins : e.name # n}
  /\ document' = [document EXCEPT !.plugins = {e \in @ : e.name # n}]
  /\ UNCHANGED <<regexPlugins, messages, bashTags, copies>>

\* MetadataList::AppendMessage.
AppendMessage(c) ==
  /\ messages' = Append(messages, c)
  /\ document' = [document EXCEPT !.messages = Append(@, c)]
  /\ UNCHANGED <<plugins, regexPlugins, bashTags, copies>>

\* MetadataList::EvalAllConditions with an evaluator that sees view v:
\* the first call keeps the unevaluated content, later ones evaluate the
\* kept copies again.
EvalAllConditions(v) ==
  LET p == EvalPlugins(plugins, unevaluatedPlugins)
      rx == IF unevaluatedRegexPlugins = <<>> THEN regexPlugins
            ELSE unevaluatedRegexPlugins
      ms == IF unevaluatedMessages = <<>> THEN messages ELSE unevaluatedMessages
  IN  /\ unevaluatedPlugins' = p.kept
      /\ plugins' = FoldSet(LAMBDA e, S : Insert(S, EvaluateAll(e, v)).set,
                            p.now, p.kept)
      /\ unevaluatedRegexPlugins' = rx
      /\ regexPlugins' = [i \in DOMAIN rx |-> EvaluateAll(rx[i], v)]
      /\ unevaluatedMessages' = ms
      /\ messages' = EvaluateMessages(ms, v)
      /\ UNCHANGED <<bashTags, document>>

\* A call other than EvalAllConditions: the list now holds what the calls
\* put in, unevaluated.
Edit(op) ==
  /\ op
  /\ evaluatedIn' = NoView
  /\ sinceLoad' = "touched"

Call(op) == op /\ calls < MaxCalls /\ calls' = calls + 1

Next ==
  \/ \E f \in Files :
       Call(Load(f)) /\ evaluatedIn' = NoView
       /\ sinceLoad' = IF sinceLoad = "fresh" THEN "loaded" ELSE "touched"
  \/ Call(Edit(Clear)) /\ loadFailed' = FALSE
  \/ \E e \in AddInputs : Call(Edit(AddPlugin(e))) /\ loadFailed' = FALSE
  \/ \E n \in Names : Call(Edit(ErasePlugin(n))) /\ loadFailed' = FALSE
  \/ \E c \in Conds : Call(Edit(AppendMessage(c))) /\ loadFailed' = FALSE
  \/ \E v \in Views :
       Call(EvalAllConditions(v)) /\ evaluatedIn' = v
       /\ UNCHANGED sinceLoad /\ loadFailed' = FALSE

Spec == Init /\ [][Next]_vars

-----------------------------------------------------------------------------
(* Properties.                                                             *)

\* Types, and plugins_ holding at most one exact entry per name.
TypeOK ==
  /\ plugins \subseteq Entry /\ unevaluatedPlugins \subseteq Entry
  /\ \A e1, e2 \in plugins : e1.name = e2.name => e1 = e2
  /\ regexPlugins \in Seq(Entry) /\ unevaluatedRegexPlugins \in Seq(Entry)
  /\ messages \in Seq(Conds) /\ unevaluatedMessages \in Seq(Conds)
  /\ bashTags \subseteq Tags
  /\ evaluatedIn \in Views \cup {NoView}
  /\ sinceLoad \in {"fresh", "loaded", "touched"}
  /\ loadFailed \in BOOLEAN
  /\ calls \in 0..MaxCalls

\* Right after EvalAllConditions(v), the list holds exactly the entries
\* and messages its calls put in, each evaluated in v.
Reflects(v) ==
  /\ plugins = {EvaluateAll(e, v) : e \in document.plugins}
  /\ regexPlugins = [i \in DOMAIN document.regex |-> EvaluateAll(document.regex[i], v)]
  /\ messages = EvaluateMessages(document.messages, v)

\* A list filled by one Load and then evaluated any number of times, in
\* changing game states, reflects the file in the latest state: the kept
\* unevaluated copies are evaluated again, never the evaluated entries.
EvaluationOfLoadedListFaithful ==
  (sinceLoad = "loaded" /\ evaluatedIn # NoView) => Reflects(evaluatedIn)

\* What the document says of plugin n: the items of its exact entry and
\* of every regex entry matching it.
DocumentItems(n) ==
  UNION {e.items : e \in {e \in document.plugins : e.name = n}}
  \cup UNION {e.items : e \in Range(MatchingRegex(document.regex, n))}

\* FindPlugin on a list filled by one Load and evaluated in view v returns,
\* for every plugin, exactly the items the file gives it through its exact
\* entry and all matching regex entries that hold in v: merging after
\* evaluation gives what evaluating the merged metadata would.
FindPluginAfterEvaluation ==
  (sinceLoad = "loaded" /\ evaluatedIn # NoView) =>
    \A n \in Names :
      FindPlugin(n).items = {c \in DocumentItems(n) : <<c, evaluatedIn>> \in Holds}

\* The same for any sequence of calls (spec section 3: the document is
\* mutated by Load, AddPlugin, ErasePlugin, AppendMessage,
\* EvalAllConditions and Clear, in any order).
EvalReflectsDocument ==
  evaluatedIn # NoView => Reflects(evaluatedIn)

\* Spec 4.2: every failure of Load leaves the document empty.
LoadFailureLeavesEmpty ==
  loadFailed =>
    plugins = {} /\ regexPlugins = <<>> /\ messages = <<>> /\ bashTags = {}

=============================================================================
