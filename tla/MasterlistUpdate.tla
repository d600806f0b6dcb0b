-------------------------- MODULE MasterlistUpdate --------------------------
(***************************************************************************)
(* What Masterlist::Update promises about the masterlist it loads (spec    *)
(* 4.7), with the retry loop collapsed into one step: an update starts at  *)
(* a commit, and finishes by loading the newest commit of that commit's    *)
(* first-parent history whose masterlist parses, or by throwing with a     *)
(* partial masterlist when none does.  An update may also return false, or *)
(* throw, without loading anything.  Every update that starts finishes.    *)
(***************************************************************************)
CONSTANTS Commits, Parent, Parses, NoCommit, Partial

VARIABLES busy, target, loaded, result

avars == <<busy, target, loaded, result>>

\* The newest commit at or before c, following first parents, whose
\* masterlist parses (NoCommit if none does).
RECURSIVE NewestParsableFrom(_)
NewestParsableFrom(c) ==
  IF c \in Parses THEN c
  ELSE IF Parent[c] = NoCommit THEN NoCommit ELSE NewestParsableFrom(Parent[c])

Init ==
  /\ busy = FALSE
  /\ target = NoCommit
  /\ loaded = NoCommit
  /\ result = "none"

\* An update checks commit c out; what was loaded is no longer reliable.
Begin(c) ==
  /\ ~busy
  /\ busy' = TRUE /\ target' = c /\ loaded' = Partial /\ result' = "none"

\* The update loads the newest parsable commit, or throws.
Finish ==
  /\ busy
  /\ busy' = FALSE
  /\ LET n == NewestParsableFrom(target)
     IN  IF n # NoCommit THEN loaded' = n /\ result' = "true"
         ELSE loaded' = Partial /\ result' = "threw"
  /\ UNCHANGED target

\* The update returns false, or throws, before it loads anything.
Refuse ==
  /\ ~busy
  /\ result' \in {"false", "threw"}
  /\ target' \in Commits \cup {NoCommit}
  /\ UNCHANGED <<busy, loaded>>

Next == (\E c \in Commits : Begin(c)) \/ Finish \/ Refuse

Spec == Init /\ [][Next]_avars /\ WF_avars(Finish)

=============================================================================
