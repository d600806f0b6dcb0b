----------------------------- MODULE Masterlist -----------------------------
(***************************************************************************)
(* loot::Masterlist::Update (src/src/api/masterlist.cpp) against a remote  *)
(* Git repository whose branch tip moves, forward or (force-pushed)        *)
(* anywhere, between calls.                                                *)
(*                                                                         *)
(* A commit is a model value with a Parent (or NoCommit for a root) and a  *)
(* masterlist that either parses (Parses) or makes Load throw.  The local  *)
(* clone is: does it exist, the fetched origin/<branch> ref, the local     *)
(* branch ref, HEAD (following the branch, or detached at a commit) and    *)
(* which commit's masterlist the working file holds, or "edited" when the  *)
(* user changed it.  The Masterlist object is reduced to the commit whose  *)
(* file it last loaded (Partial after a Load that threw).                  *)
(*                                                                         *)
(* Update runs in two steps: Update itself, up to the checkout, and then   *)
(* one ParseAttempt per turn of the do/while loop that rolls back to       *)
(* HEAD^ until Load succeeds.  GetInfo and IsLatest are calls of their     *)
(* own between updates; what they report is kept in reply.                *)
(***************************************************************************)
EXTENDS Naturals, Sequences, FiniteSets

CONSTANTS
  Commits,     \* commit ids (model values)
  Parent,      \* [Commits -> Commits \cup {NoCommit}]: first parent
  Parses,      \* commits whose masterlist Load accepts
  InitialTip,  \* the remote branch tip when the first Update runs
  MaxPushes,   \* bound on moves of the remote tip
  MaxUpdates,  \* bound on calls of Update
  NoCommit,    \* no commit: a root's parent, a missing ref (model value)
  Attached,    \* HEAD follows the local branch (model value)
  Edited,      \* the user changed the working file (model value)
  Partial      \* the Masterlist holds what a throwing Load left (model value)

\* c is an ancestor of d, or d itself.
RECURSIVE IsAncestor(_, _)
IsAncestor(c, d) == c = d \/ (Parent[d] # NoCommit /\ IsAncestor(c, Parent[d]))

VARIABLES
  remoteTip,   \* refs/heads/<branch> on the remote
  pushes,      \* moves of remoteTip so far
  repo,        \* the local clone exists
  fetched,     \* refs/remotes/origin/<branch>
  branch,      \* refs/heads/<branch>, or NoCommit
  head,        \* Attached, or the commit HEAD is detached at
  file,        \* the working copy of the masterlist
  loaded,      \* what the Masterlist object last loaded
  pc,          \* "idle" or "parsing" (inside the retry loop)
  result,      \* what the last Update did: "true", "false", "threw"
  updates,     \* calls of Update so far
  target,      \* history: the commit Update checked out before parsing
  reply        \* history: what the last call reported (see Reply)

vars == <<remoteTip, pushes, repo, fetched, branch, head, file, loaded, pc,
          result, updates, target, reply>>

\* The last call was Update; it threw; IsLatest answered; GetInfo returned
\* a MasterlistInfo (revision_id and is_modified; the date is a function of
\* the revision).
Reply ==
  [kind : {"update", "threw"}]
  \cup [kind : {"isLatest"}, latest : BOOLEAN]
  \cup [kind : {"getInfo"}, revision : Commits, modified : BOOLEAN]

HeadCommit == IF head = Attached THEN branch ELSE head

-----------------------------------------------------------------------------
(* Fault variants of the definitions below (see PROJECT.json mutants).     *)

\* The rollback checks out HEAD instead of HEAD^.
RollBackNoMove(h) == [ok |-> TRUE, to |-> h]

\* The rollback does not fail at a root commit.
RollBackUnchecked(h) == [ok |-> TRUE, to |-> Parent[h]]

\* The checkout leaves the working file as it is (its path filter misses).
CheckoutNoFile(c) ==
  /\ UNCHANGED file
  /\ target' = c
  /\ pc' = "parsing"
  /\ result' = "none"

\* IsLatest compares the remote ref with the local branch, not with HEAD.
IsLatestComparesBranch ==
  /\ pc = "idle"
  /\ IF ~repo
     THEN reply' = [kind |-> "threw"] /\ UNCHANGED fetched
     ELSE /\ fetched' = remoteTip
          /\ reply' = [kind |-> "isLatest", latest |-> fetched' = branch]
  /\ UNCHANGED <<remoteTip, pushes, repo, branch, head, file, loaded, pc, result,
                 updates, target>>

-----------------------------------------------------------------------------

\* GitHelper::CheckoutRevision("HEAD^"): detach HEAD at the first parent;
\* libgit2 fails at a root commit.
RollBack(h) ==
  IF Parent[h] = NoCommit THEN [ok |-> FALSE, to |-> h]
  ELSE [ok |-> TRUE, to |-> Parent[h]]

\* Enter the parse loop with the working file at commit c.
Checkout(c) ==
  /\ file' = c
  /\ target' = c
  /\ pc' = "parsing"
  /\ result' = "none"

Init ==
  /\ remoteTip = InitialTip
  /\ pushes = 0
  /\ repo = FALSE
  /\ fetched = NoCommit
  /\ branch = NoCommit
  /\ head = Attached
  /\ file \in {NoCommit, Edited}   \* no masterlist yet, or one put there by hand
  /\ loaded = NoCommit
  /\ pc = "idle"
  /\ result = "none"
  /\ updates = 0
  /\ target = NoCommit
  /\ reply = [kind |-> "update"]

\* No repository at the masterlist's folder: clone it, checking out the
\* branch (lines 139-140).
UpdateClone ==
  /\ ~repo
  /\ repo' = TRUE
  /\ fetched' = remoteTip
  /\ branch' = remoteTip
  /\ head' = Attached
  /\ Checkout(remoteTip)

\* An existing repository: fetch, then bring the local branch to the
\* fetched tip (lines 141-254).  updateBranchHead compares the addresses of
\* two released git_oid arrays (line 219), not the ids: with a commit too
\* large for libgit2's cache either outcome is possible.
UpdateExisting ==
  /\ repo
  /\ fetched' = remoteTip
  /\ UNCHANGED repo
  /\ \/ /\ branch = NoCommit                      \* CheckoutNewBranch
        /\ branch' = remoteTip /\ head' = Attached
        /\ Checkout(remoteTip)
     \/ /\ branch # NoCommit
        /\ head' = Attached                       \* git_repository_set_head
        /\ ~IsAncestor(branch, remoteTip) /\ ~IsAncestor(remoteTip, branch)
        \* git_branch_delete refuses to delete the branch HEAD now follows,
        \* so git.Call throws before the branch is recreated.
        /\ result' = "threw" /\ pc' = "idle" /\ target' = remoteTip
        /\ UNCHANGED <<branch, file>>
     \/ /\ branch # NoCommit
        /\ head' = Attached
        /\ IsAncestor(branch, remoteTip) /\ branch # remoteTip
        /\ branch' = remoteTip                    \* fast-forward
        /\ Checkout(remoteTip)
     \/ /\ branch # NoCommit
        /\ head' = Attached
        /\ IsAncestor(remoteTip, branch)          \* up to date
        /\ \E updateBranchHead \in BOOLEAN :
             IF updateBranchHead
             THEN branch' = remoteTip /\ Checkout(remoteTip)
             ELSE /\ UNCHANGED branch
                  /\ IF file = branch
                     THEN /\ pc' = "idle" /\ result' = "false"
                          /\ UNCHANGED <<file, target>>
                     ELSE Checkout(branch)

Update ==
  /\ pc = "idle"
  /\ updates < MaxUpdates
  /\ updates' = updates + 1
  /\ reply' = [kind |-> "update"]
  /\ UpdateClone \/ UpdateExisting
  /\ UNCHANGED <<remoteTip, pushes, loaded>>

\* One turn of the do/while loop: Load the working file; on failure roll
\* back to HEAD^, and when that fails too the exception leaves Update.
ParseAttempt ==
  /\ pc = "parsing"
  /\ IF file \in Parses
     THEN /\ loaded' = file /\ result' = "true" /\ pc' = "idle"
          /\ UNCHANGED <<head, file>>
     ELSE LET rb == RollBack(HeadCommit)
          IN  /\ loaded' = Partial
              /\ IF rb.ok
                 THEN head' = rb.to /\ file' = rb.to /\ UNCHANGED <<result, pc>>
                 ELSE result' = "threw" /\ pc' = "idle" /\ UNCHANGED <<head, file>>
  /\ UNCHANGED <<remoteTip, pushes, repo, fetched, branch, updates, target, reply>>

\* The remote branch moves to any commit: a new commit or a force-push.
Push ==
  /\ pushes < MaxPushes
  /\ \E c \in Commits \ {remoteTip} : remoteTip' = c
  /\ pushes' = pushes + 1
  /\ UNCHANGED <<repo, fetched, branch, head, file, loaded, pc, result, updates, target,
                 reply>>

\* The user edits the masterlist file between updates.
EditFile ==
  /\ repo /\ pc = "idle" /\ file # Edited
  /\ file' = Edited
  /\ UNCHANGED <<remoteTip, pushes, repo, fetched, branch, head, loaded, pc,
                 result, updates, target, reply>>

\* Masterlist::IsLatest: with no repository, GitStateError; otherwise
\* fetch origin, then compare refs/remotes/origin/<branch> with HEAD.
IsLatest ==
  /\ pc = "idle"
  /\ IF ~repo
     THEN reply' = [kind |-> "threw"] /\ UNCHANGED fetched
     ELSE /\ fetched' = remoteTip
          /\ reply' = [kind |-> "isLatest", latest |-> fetched' = HeadCommit]
  /\ UNCHANGED <<remoteTip, pushes, repo, branch, head, file, loaded, pc, result,
                 updates, target>>

\* Masterlist::GetInfo: FileAccessError with no masterlist file,
\* GitStateError with no repository; otherwise the revision of HEAD and
\* whether the working file differs from it.
GetInfo ==
  /\ pc = "idle"
  /\ reply' = IF file = NoCommit \/ ~repo THEN [kind |-> "threw"]
              ELSE [kind |-> "getInfo", revision |-> HeadCommit,
                    modified |-> file # HeadCommit]
  /\ UNCHANGED <<remoteTip, pushes, repo, fetched, branch, head, file, loaded, pc,
                 result, updates, target>>

Next == Update \/ ParseAttempt \/ Push \/ EditFile \/ IsLatest \/ GetInfo

\* The parse loop is straight-line code on the caller's thread.
Spec == Init /\ [][Next]_vars /\ WF_vars(ParseAttempt)

-----------------------------------------------------------------------------
(* Properties.                                                             *)

\* The newest commit at or before c, following first parents, whose
\* masterlist parses (NoCommit if none does).
RECURSIVE NewestParsable(_)
NewestParsable(c) ==
  IF c \in Parses THEN c
  ELSE IF Parent[c] = NoCommit THEN NoCommit ELSE NewestParsable(Parent[c])

TypeOK ==
  /\ remoteTip \in Commits /\ pushes \in 0..MaxPushes
  /\ repo \in BOOLEAN
  /\ fetched \in Commits \cup {NoCommit} /\ branch \in Commits \cup {NoCommit}
  /\ head \in Commits \cup {Attached}
  /\ file \in Commits \cup {NoCommit, Edited}
  /\ loaded \in Commits \cup {NoCommit, Partial}
  /\ pc \in {"idle", "parsing"}
  /\ result \in {"true", "false", "threw", "none"}
  /\ updates \in 0..MaxUpdates
  /\ target \in Commits \cup {NoCommit}
  /\ reply \in Reply

\* When Update returns true, the rollback loop has loaded the newest
\* commit at or before the one it checked out whose masterlist parses,
\* and HEAD is at that commit (spec 4.7: detach to HEAD^ and retry until a
\* parse succeeds).
RollbackToNewestParsable ==
  (pc = "idle" /\ result = "true") =>
    /\ loaded = NewestParsable(target)
    /\ HeadCommit = loaded

\* Update implements MasterlistUpdate: seen through the mapping below, the
\* rollback loop is one step that loads the newest parsable commit of the
\* history it checked out, or throws only when none parses, and every
\* loop ends (the detailed steps of the loop are stuttering steps).
AtomicUpdate == INSTANCE MasterlistUpdate
  WITH busy <- pc = "parsing",
       loaded <- IF pc = "parsing" THEN Partial ELSE loaded

UpdateImplementsAtomicLoad == AtomicUpdate!Spec

\* After an Update that returned true, and until the user edits the file or
\* the next Update, GetInfo reports the revision whose masterlist was
\* loaded, unmodified, and IsLatest answers true exactly when that revision
\* is the remote tip it fetched: a masterlist the rollback loop fell back to
\* is never reported as the latest one.
ReportsDescribeLoadedMasterlist ==
  (pc = "idle" /\ result = "true" /\ file # Edited) =>
    /\ reply.kind = "getInfo" => reply.revision = loaded /\ ~reply.modified
    /\ reply.kind = "isLatest" => (reply.latest <=> loaded = fetched)

\* Spec 4.7: Update leaves the local branch at the remote tip ("creating
\* or resetting as needed; fast-forward when possible, else reset to
\* remote"), and returns false only when it is already there with the
\* file unmodified.
BranchFollowsRemote ==
  (pc = "idle" /\ reply.kind = "update" /\ result \in {"true", "false"}) =>
    branch = fetched

\* Update throws only when no commit of the history it checked out has a
\* masterlist that parses.
ThrowsOnlyWhenNothingParses ==
  (pc = "idle" /\ result = "threw") => NewestParsable(target) = NoCommit

=============================================================================
