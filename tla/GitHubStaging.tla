--------------------------- MODULE GitHubStaging ---------------------------
(***************************************************************************)
(* The materialization of a GitHub source (materializer.ts, with the       *)
(* transport of github-transport.ts): resolve the default branch to a      *)
(* commit, fetch that commit's archive and unpack it into the staging      *)
(* workspace, while the repository moves on and the stream may end early.  *)
(***************************************************************************)
EXTENDS Naturals, FiniteSetsExt

CONSTANTS Branch, Commit, Item,
          ItemsOf,              \* [Commit -> SUBSET Item], the files of a commit
          SizeOf,               \* [Item -> Nat]
          MaxFiles, MaxBytes,   \* the limits of a source
          MaxMoves,             \* bound on the changes of the repository
          None

VARIABLES
  default, head,    \* the repository: its default branch, the commit of each
  moves,
  history,          \* the pairs of default and head it has had
  request,          \* what the materializer waits for
  branch, commit,   \* what it resolved
  pending,          \* files of the archive that have not arrived
  writing,          \* the file being written
  staged            \* files in the staging workspace

remote   == <<default, head, moves, history>>
resolved == <<branch, commit>>
vars     == <<remote, request, resolved, pending, writing, staged>>

Asking == {"metadata", "reference", "commit", "archive", "members"}

StagingTypeOK ==
  /\ default \in Branch /\ head \in [Branch -> Commit] /\ moves \in 0..MaxMoves
  /\ history \subseteq (Branch \X [Branch -> Commit])
  /\ request \in {"idle", "staged", "refused"} \cup Asking
  /\ branch \in Branch \cup {None} /\ commit \in Commit \cup {None}
  /\ pending \subseteq Item /\ staged \subseteq Item
  /\ writing \in Item \cup {None}

Init ==
  /\ default \in Branch /\ head \in [Branch -> Commit]
  /\ moves = 0
  /\ history = {<<default, head>>}
  /\ request = "idle"
  /\ branch = None /\ commit = None
  /\ pending = {} /\ writing = None /\ staged = {}

Begin ==
  /\ request = "idle"
  /\ request' = "metadata"
  /\ UNCHANGED <<remote, resolved, pending, writing, staged>>

(* resolveGitHubRevision: one request for the repository, ... *)
Metadata ==
  /\ request = "metadata"
  /\ branch' = default
  /\ request' = "reference"
  /\ UNCHANGED <<remote, commit, pending, writing, staged>>

(* ... one for the branch, ... *)
Reference ==
  /\ request = "reference"
  /\ commit' = head[branch]
  /\ request' = "commit"
  /\ UNCHANGED <<remote, branch, pending, writing, staged>>

(* ... and one for the commit, which must answer with that commit. *)
Authenticate ==
  /\ request = "commit"
  /\ request' = "archive"
  /\ UNCHANGED <<remote, resolved, pending, writing, staged>>

(* Codeload is asked for the archive of the commit, not of the branch. *)
Fetch ==
  /\ request = "archive"
  /\ request' = "members"
  /\ pending' = ItemsOf[commit]
  /\ UNCHANGED <<remote, resolved, writing, staged>>

Fits(items) ==
  /\ Cardinality(items) <= MaxFiles
  /\ MapThenSumSet(LAMBDA i : SizeOf[i], items) <= MaxBytes

(* A member that passes a limit ends the request.  The ledger of the staging *)
(* workspace has the same limits.                                            *)
Open(i) ==
  /\ request = "members" /\ i \in pending /\ writing = None
  /\ IF Fits(staged \cup {i})
       THEN /\ writing' = i /\ pending' = pending \ {i}
            /\ UNCHANGED request
       ELSE request' = "refused" /\ UNCHANGED <<writing, pending>>
  /\ UNCHANGED <<remote, resolved, staged>>

Written ==
  /\ writing # None
  /\ staged' = staged \cup {writing}
  /\ writing' = None
  /\ UNCHANGED <<remote, request, resolved, pending>>

(* Mutant: the end of the stream is the end of the archive. *)
EndOfStream ==
  /\ request = "members" /\ writing = None
  /\ request' = "staged"
  /\ UNCHANGED <<remote, resolved, pending, writing, staged>>

(* Two blocks of zeroes end an archive; then the staging is audited. *)
EndOfArchive ==
  /\ request = "members" /\ pending = {} /\ writing = None
  /\ request' = "staged"
  /\ UNCHANGED <<remote, resolved, pending, writing, staged>>

(* A timeout, a missing revision, a stream that ends or breaks early, an     *)
(* entry that is not accepted.  A file being written is removed.             *)
Refuse ==
  /\ request \in Asking
  /\ request' = "refused"
  /\ writing' = None
  /\ UNCHANGED <<remote, resolved, pending, staged>>

(* The owners of the repository push, or choose another default branch.      *)
Move ==
  /\ request \in Asking /\ moves < MaxMoves
  /\ moves' = moves + 1
  /\ \/ default' \in Branch /\ UNCHANGED head
     \/ UNCHANGED default /\ \E b \in Branch, c \in Commit : head' = [head EXCEPT ![b] = c]
  /\ history' = history \cup {<<default', head'>>}
  /\ UNCHANGED <<request, resolved, pending, writing, staged>>

Step ==
  \/ Begin \/ Metadata \/ Reference \/ Authenticate \/ Fetch
  \/ Written \/ EndOfArchive \/ Refuse
  \/ \E i \in Item : Open(i)

Next == Step \/ Move

Spec == Init /\ [][Next]_vars

-----------------------------------------------------------------------------
(* Properties *)

(* A staging that is accepted holds the whole tree of a commit, within the   *)
(* limits; the branch named with it was the default and had that commit, if  *)
(* not at the same moment, while it was resolved.                            *)
StagedIsCommit ==
  request = "staged" =>
    /\ staged = ItemsOf[commit] /\ Fits(staged)
    /\ \E moment \in history : moment[1] = branch
    /\ \E moment \in history : moment[2][branch] = commit

=============================================================================
