---------------------------- MODULE AnalysisRun ----------------------------
(***************************************************************************)
(* One canonical analysis (scanner-private.ts) with the workspaces it      *)
(* holds, and the observer that writes its progress to the scan's row      *)
(* (analysis-observer.ts).  Progress is delivered by detached fibers the   *)
(* analysis waits for at most 250 ms; it may be interrupted at any moment. *)
(* The server analyzes a GitHub source with that observer; the command     *)
(* line with --quiet captures a local directory and observes nothing.      *)
(***************************************************************************)
EXTENDS Naturals, FiniteSets

CONSTANTS
  File, Directory, DirectoryOf, MaxEdits,     \* of SourceCapture
  Branch, Commit, Item, ItemsOf, SizeOf, MaxFiles, MaxBytes, MaxMoves,    \* of GitHubStaging
  Analyzers,    \* how many analyzers are required
  MaxFaults,    \* bound on failed store calls, clock steps and failed removals
  None

VARIABLES
  tree, edits, seen, phase, listed, todo, first, copy, second,
  default, head, moves, history, request, branch, commit, pending, writing, staged,
  source,       \* "github" or "local"
  pc,           \* where the analysis is; sequence says which of its stages
  sequence,
  work,         \* completedWork
  timedOut,     \* observerTimedOut
  staging,      \* the staging workspace: "none", "open", "sealed"
  scratch,      \* the analyzer's workspace, and the analyzer in it
  bad,          \* a required analyzer was unavailable or incomplete
  orphan,       \* a workspace could not be removed
  snapshot,     \* what was materialized: "none", "real" (Sound), or "torn" (history)
  outcome,      \* Exit of the program
  fibers,       \* deliveries: [event, at, cut]; cut: interrupted by the analysis
  lock,         \* the delivery that holds observerLock
  latest,       \* the last event the observer recorded
  row,          \* the scan's row: its progress, and the event that gave its stage
  leased,       \* the row still carries this worker's lease
  faults

capture  == <<tree, edits, seen, phase, listed, todo, first, copy, second>>
github   == <<default, head, moves, history, request, branch, commit, pending, writing, staged>>
sources  == <<capture, github, source>>
program  == <<pc, sequence, work, timedOut>>
holdings == <<staging, scratch, bad, orphan, snapshot>>
observer == <<fibers, lock, latest, row>>
vars == <<sources, program, holdings, outcome, observer, leased, faults>>

Capture == INSTANCE SourceCapture

Staging == INSTANCE GitHubStaging

TotalWork == Analyzers + 3

(* Events 0, 1, 2 open the first stages, one follows each analyzer, two      *)
(* more announce prioritization and comparison.                              *)
WorkOf(n) == IF n <= Analyzers + 2 THEN n ELSE Analyzers + 2

Events == [seq : 0..(Analyzers + 5), work : 0..TotalWork, last : BOOLEAN]

Fibers == [event : Events, at : {"waiting", "storing", "stored", "refused"}, cut : BOOLEAN]

ASSUME AnalysisAssumption ==
  /\ Analyzers \in Nat \ {0} /\ MaxFaults \in Nat
  /\ MaxEdits \in Nat
  /\ Branch # {} /\ Commit # {} /\ ItemsOf \in [Commit -> SUBSET Item]
  /\ MaxFiles \in Nat /\ MaxBytes \in Nat /\ MaxMoves \in Nat
  /\ None \notin Branch \cup Commit \cup Item \cup Events

(* As its comment says, an analysis leaves at most two detached fibers. *)
TypeOK ==
  /\ Capture!CaptureTypeOK /\ Staging!StagingTypeOK
  /\ source \in {"github", "local"}
  /\ pc \in {"emit", "emitting", "materialize", "inventory", "analyze", "policy",
             "prioritize", "result", "closing", "ending", "terminal", "done"}
  /\ sequence \in 0..(Analyzers + 5)
  /\ work \in 0..TotalWork
  /\ timedOut \in BOOLEAN /\ bad \in BOOLEAN /\ orphan \in BOOLEAN /\ leased \in BOOLEAN
  /\ staging \in {"none", "open", "sealed"}
  /\ snapshot \in {"none", "real", "torn"}
  /\ scratch \in {"none", "open", "running", "used"}
  /\ outcome \in {"none", "succeeded", "failed", "interrupted"}
  /\ fibers \subseteq Fibers /\ Cardinality(fibers) <= 2
  /\ lock \in {None} \cup Events
  /\ latest \in {None} \cup Events
  /\ row \in [work : 0..TotalWork, event : {None} \cup Events]
  /\ faults \in 0..MaxFaults

(* The source is of no consequence before and after it is materialized: its  *)
(* state is one of its initial ones then.                                    *)
CaptureAtRest ==
  /\ tree = Capture!Empty /\ seen = {tree} /\ edits = 0 /\ phase = "idle"
  /\ listed = {} /\ todo = {}
  /\ first = Capture!Empty /\ copy = Capture!Empty /\ second = Capture!Empty

StagingAtRest ==
  /\ default = CHOOSE b \in Branch : TRUE
  /\ head = [b \in Branch |-> CHOOSE c \in Commit : TRUE]
  /\ history = {<<default, head>>} /\ moves = 0 /\ request = "idle"
  /\ branch = None /\ commit = None
  /\ pending = {} /\ writing = None /\ staged = {}

Forget ==
  /\ tree' = Capture!Empty /\ seen' = {Capture!Empty} /\ edits' = 0 /\ phase' = "idle"
  /\ listed' = {} /\ todo' = {}
  /\ first' = Capture!Empty /\ copy' = Capture!Empty /\ second' = Capture!Empty
  /\ default' = CHOOSE b \in Branch : TRUE
  /\ head' = [b \in Branch |-> CHOOSE c \in Commit : TRUE]
  /\ history' = {<<default', head'>>} /\ moves' = 0 /\ request' = "idle"
  /\ branch' = None /\ commit' = None
  /\ pending' = {} /\ writing' = None /\ staged' = {}

(* An attempt may find the progress of an earlier one in the row. *)
Init ==
  /\ \/ source = "github" /\ Staging!Init /\ CaptureAtRest
     \/ source = "local" /\ Capture!Init /\ StagingAtRest
  /\ pc = "emit" /\ sequence = 0 /\ work = 0 /\ timedOut = FALSE
  /\ staging = "none" /\ scratch = "none" /\ bad = FALSE /\ orphan = FALSE
  /\ snapshot = "none"
  /\ outcome = "none"
  /\ fibers = {} /\ lock = None /\ latest = None
  /\ row \in [work : {0, 2}, event : {None}]
  /\ leased = TRUE /\ faults = 0

-----------------------------------------------------------------------------
(* observeSafely.  A delivery starts at once; AnalysisObserverNoop is done   *)
(* with it at once as well.                                                  *)

Deliver(event) == fibers' = fibers \cup {[event |-> event, at |-> "waiting", cut |-> FALSE]}

(* The delivery the analysis waits for. *)
Own == {f \in fibers : f.event.seq = sequence /\ f.event.last = (pc = "terminal")}

Cut == fibers' = {IF f \in Own THEN [f EXCEPT !.cut = TRUE] ELSE f : f \in fibers}

AfterEvent(n) ==
  CASE n = 0 -> "emit"
    [] n = 1 -> "materialize"
    [] n = 2 -> "inventory"
    [] n > 2 /\ n < Analyzers + 2 -> "analyze"
    [] n = Analyzers + 2 -> "policy"
    [] n = Analyzers + 3 -> "prioritize"
    [] OTHER -> "result"

EmitDone == sequence' = sequence + 1 /\ pc' = AfterEvent(sequence)

(* Mutant: a timeout does not disable the deliveries after it. *)
EmitAnyway ==
  /\ pc = "emit"
  /\ work' = WorkOf(sequence)
  /\ IF source = "local"
       THEN EmitDone /\ UNCHANGED fibers
       ELSE /\ Deliver([seq |-> sequence, work |-> work', last |-> FALSE])
            /\ pc' = "emitting" /\ UNCHANGED sequence
  /\ UNCHANGED <<sources, timedOut, holdings, outcome, lock, latest, row, leased, faults>>

Emit ==
  /\ pc = "emit"
  /\ work' = WorkOf(sequence)
  /\ IF timedOut \/ source = "local"
       THEN EmitDone /\ UNCHANGED fibers
       ELSE /\ Deliver([seq |-> sequence, work |-> work', last |-> FALSE])
            /\ pc' = "emitting" /\ UNCHANGED sequence
  /\ UNCHANGED <<sources, timedOut, holdings, outcome, lock, latest, row, leased, faults>>

EmitSettles ==
  /\ pc = "emitting" /\ Own = {}
  /\ EmitDone
  /\ UNCHANGED <<sources, work, timedOut, holdings, outcome, observer, leased, faults>>

(* ObserverDeliveryBound *)
EmitExpires ==
  /\ pc = "emitting" /\ Own # {}
  /\ Cut /\ timedOut' = TRUE
  /\ EmitDone
  /\ UNCHANGED <<sources, work, holdings, outcome, lock, latest, row, leased, faults>>

-----------------------------------------------------------------------------
(* The stages. *)

Close(how) == pc' = "closing" /\ outcome' = how

Fails == Close("failed")

(* A GitHub revision is resolved first. *)
AllocateStaging ==
  /\ pc = "materialize" /\ staging = "none"
  /\ source = "github" => request = "archive"
  /\ \/ staging' = "open" /\ UNCHANGED <<pc, outcome>>
     \/ Fails /\ UNCHANGED staging
  /\ UNCHANGED <<sources, sequence, work, timedOut, scratch, bad, orphan, snapshot, observer,
                 leased, faults>>

CaptureLocal ==
  /\ pc = "materialize" /\ staging = "open" /\ source = "local"
  /\ Capture!Next
  /\ UNCHANGED <<github, source, program, holdings, outcome, observer, leased, faults>>

StageGitHub ==
  /\ pc = "materialize" /\ source = "github"
  /\ request = "archive" => staging = "open"
  /\ Staging!Next
  /\ UNCHANGED <<capture, source, program, holdings, outcome, observer, leased, faults>>

Captured == phase = "captured" \/ request = "staged"

Refused == phase = "failed" \/ request = "refused"

Sound == Capture!SnapshotWasReal /\ Staging!StagedIsCommit

(* The workspace is sealed; the identity may turn out not to be the expected *)
(* one.                                                                      *)
Materialize ==
  /\ pc = "materialize"
  /\ \/ /\ Captured
        /\ staging' = "sealed" /\ pc' = "emit" /\ UNCHANGED outcome
        /\ snapshot' = IF Sound THEN "real" ELSE "torn"
     \/ /\ Captured \/ Refused
        /\ Fails /\ UNCHANGED <<staging, snapshot>>
  /\ Forget
  /\ UNCHANGED <<source, sequence, work, timedOut, scratch, bad, orphan, observer,
                 leased, faults>>

Inventory ==
  /\ pc = "inventory"
  /\ \/ pc' = "analyze" /\ UNCHANGED outcome
     \/ Fails
  /\ UNCHANGED <<sources, sequence, work, timedOut, holdings, observer, leased, faults>>

(* A scratch workspace that cannot be had makes the analyzer unavailable.    *)
AllocateScratch ==
  /\ pc = "analyze" /\ scratch = "none"
  /\ \/ scratch' = "open" /\ UNCHANGED <<pc, bad>>
     \/ bad' = TRUE /\ pc' = "emit" /\ UNCHANGED scratch
  /\ UNCHANGED <<sources, sequence, work, timedOut, staging, orphan, snapshot, outcome,
                 observer, leased, faults>>

RunAnalyzer ==
  /\ pc = "analyze" /\ scratch = "open"
  /\ scratch' = "running"
  /\ UNCHANGED <<sources, program, staging, bad, orphan, snapshot, outcome, observer,
                 leased, faults>>

(* It ends complete, or incomplete, or in a defect that fails the analysis.  *)
AnalyzerEnds ==
  /\ pc = "analyze" /\ scratch = "running"
  /\ scratch' = "used"
  /\ \/ UNCHANGED <<bad, pc, outcome>>
     \/ bad' = TRUE /\ UNCHANGED <<pc, outcome>>
     \/ Fails /\ UNCHANGED bad
  /\ UNCHANGED <<sources, sequence, work, timedOut, staging, orphan, snapshot, observer,
                 leased, faults>>

Policy ==
  /\ pc = "policy"
  /\ \/ ~bad /\ pc' = "emit" /\ UNCHANGED outcome
     \/ Fails
  /\ UNCHANGED <<sources, sequence, work, timedOut, holdings, observer, leased, faults>>

Prioritize ==
  /\ pc = "prioritize"
  /\ \/ pc' = "emit" /\ UNCHANGED outcome
     \/ Fails
  /\ UNCHANGED <<sources, sequence, work, timedOut, holdings, observer, leased, faults>>

Result ==
  /\ pc = "result"
  /\ Close("succeeded") \/ Fails
  /\ UNCHANGED <<sources, sequence, work, timedOut, holdings, observer, leased, faults>>

(* An interruption does not wait for a delivery, nor does it cut it. *)
Interrupt ==
  /\ pc \notin {"closing", "ending", "terminal", "done"}
  /\ Close("interrupted")
  /\ UNCHANGED <<sources, sequence, work, timedOut, holdings, observer, leased, faults>>

-----------------------------------------------------------------------------
(* The scopes end: the analyzer is stopped, its workspace removed, then the  *)
(* staging.  A removal that fails fails the analysis, whatever it came to,   *)
(* and so does a launch that could not be cleaned up: the interruption is    *)
(* not all that happened then.                                               *)

StopAnalyzer ==
  /\ pc = "closing" /\ scratch = "running"
  /\ scratch' = "used"
  /\ UNCHANGED outcome \/ outcome' = "failed"
  /\ UNCHANGED <<sources, program, staging, bad, orphan, snapshot, observer,
                 leased, faults>>

Orphaned == orphan' = TRUE /\ faults < MaxFaults /\ faults' = faults + 1

CloseScratch ==
  /\ \/ pc = "analyze" /\ scratch = "used"
     \/ pc = "closing" /\ scratch \in {"open", "used"}
  /\ scratch' = "none"
  /\ \/ /\ pc' = IF pc = "analyze" THEN "emit" ELSE pc
        /\ UNCHANGED <<outcome, orphan, faults>>
     \/ Orphaned /\ Fails
  /\ UNCHANGED <<sources, sequence, work, timedOut, staging, bad, snapshot, observer, leased>>

(* Mutant: a failed removal is only noted. *)
CloseStagingQuietly ==
  /\ pc = "closing" /\ scratch = "none"
  /\ pc' = "ending"
  /\ staging' = "none"
  /\ Forget
  /\ \/ UNCHANGED <<outcome, orphan, faults>>
     \/ staging # "none" /\ Orphaned /\ UNCHANGED outcome
  /\ UNCHANGED <<source, sequence, work, timedOut, scratch, bad, snapshot, observer, leased>>

(* An interruption that arrives meanwhile may be the outcome of a success.   *)
CloseStaging ==
  /\ pc = "closing" /\ scratch = "none"
  /\ pc' = "ending"
  /\ staging' = "none"
  /\ Forget
  /\ \/ UNCHANGED <<outcome, orphan, faults>>
     \/ outcome = "succeeded" /\ outcome' = "interrupted" /\ UNCHANGED <<orphan, faults>>
     \/ staging # "none" /\ Orphaned /\ outcome' = "failed"
  /\ UNCHANGED <<source, sequence, work, timedOut, scratch, bad, snapshot, observer, leased>>

(* The terminal event is delivered whatever timed out before. *)
EmitTerminal ==
  /\ pc = "ending"
  /\ IF source = "local"
       THEN pc' = "done" /\ UNCHANGED fibers
       ELSE /\ pc' = "terminal"
            /\ Deliver([seq |-> sequence, last |-> TRUE,
                        work |-> IF outcome = "succeeded" THEN TotalWork ELSE work])
  /\ UNCHANGED <<sources, sequence, work, timedOut, holdings, outcome, lock, latest,
                 row, leased, faults>>

TerminalSettles ==
  /\ pc = "terminal" /\ Own = {}
  /\ pc' = "done"
  /\ UNCHANGED <<sources, sequence, work, timedOut, holdings, outcome, observer,
                 leased, faults>>

(* Mutant: the analysis waits for the delivery it interrupts. *)
TerminalJoins ==
  /\ pc = "terminal" /\ Own # {}
  /\ Cut
  /\ UNCHANGED <<sources, program, holdings, outcome, lock, latest, row, leased, faults>>

TerminalExpires ==
  /\ pc = "terminal" /\ Own # {}
  /\ Cut
  /\ pc' = "done"
  /\ UNCHANGED <<sources, sequence, work, timedOut, holdings, outcome, lock, latest,
                 row, leased, faults>>

-----------------------------------------------------------------------------
(* The observer. *)

(* Mutant: the numbers of the events are not looked at. *)
FollowsByWork(event) ==
  IF latest = None THEN event.seq = 0 ELSE event.work >= latest.work

(* isMonotonicProgress *)
Follows(event) ==
  IF latest = None
    THEN event.seq = 0
    ELSE ~latest.last /\ event.seq = latest.seq + 1 /\ event.work >= latest.work

Ended(f) == fibers' = fibers \ {f}

At(f, where) == fibers' = (fibers \ {f}) \cup {[f EXCEPT !.at = where]}

Observing == UNCHANGED <<sources, program, holdings, outcome, leased>>

(* Under the lock, an event that does not follow the last one is dropped; so *)
(* is one with an earlier timestamp, after a step of the clock.              *)
Take(f) ==
  /\ f.at = "waiting" /\ lock = None
  /\ \/ Follows(f.event) /\ lock' = f.event /\ At(f, "storing") /\ UNCHANGED faults
     \/ ~Follows(f.event) /\ Ended(f) /\ UNCHANGED <<lock, faults>>
     \/ /\ latest # None /\ Follows(f.event) /\ faults < MaxFaults
        /\ faults' = faults + 1
        /\ Ended(f) /\ UNCHANGED lock
  /\ Observing /\ UNCHANGED <<latest, row>>

(* updateScan: fenced by the lease, progress never falls, the stage stays    *)
(* that of the highest progress; and the answer says whether it was taken.   *)
Store(f) ==
  /\ f.at = "storing"
  /\ IF leased /\ f.event.work >= row.work
       THEN row' = [work |-> f.event.work, event |-> f.event] /\ At(f, "stored")
       ELSE UNCHANGED row /\ At(f, "refused")
  /\ Observing /\ UNCHANGED <<lock, latest, faults>>

Record(f) ==
  /\ f.at \in {"stored", "refused"}
  /\ latest' = IF f.at = "stored" THEN f.event ELSE latest
  /\ lock' = None /\ Ended(f)
  /\ Observing /\ UNCHANGED <<row, faults>>

StoreFails(f) ==
  /\ f.at = "storing" /\ faults < MaxFaults
  /\ faults' = faults + 1
  /\ lock' = None /\ Ended(f)
  /\ Observing /\ UNCHANGED <<latest, row>>

(* An interrupted delivery gives the lock back if it holds it. *)
Abandon(f) ==
  /\ f.cut
  /\ lock' = IF f.at = "waiting" THEN lock ELSE None
  /\ Ended(f)
  /\ Observing /\ UNCHANGED <<latest, row, faults>>

(* The lease lapses and is taken over, or the scan ends otherwise. *)
LoseLease ==
  /\ leased /\ source = "github"
  /\ leased' = FALSE
  /\ UNCHANGED <<sources, program, holdings, outcome, observer, faults>>

-----------------------------------------------------------------------------
Proceed ==
  \/ Emit \/ EmitSettles \/ EmitExpires
  \/ AllocateStaging \/ (CaptureLocal /\ edits' = edits) \/ (StageGitHub /\ moves' = moves)
  \/ Materialize \/ Inventory
  \/ AllocateScratch \/ RunAnalyzer \/ AnalyzerEnds
  \/ Policy \/ Prioritize \/ Result
  \/ StopAnalyzer \/ CloseScratch \/ CloseStaging
  \/ EmitTerminal \/ TerminalSettles \/ TerminalExpires

Next ==
  \/ Proceed \/ CaptureLocal \/ StageGitHub \/ Interrupt \/ LoseLease
  \/ \E f \in fibers : Take(f) \/ Store(f) \/ Record(f) \/ StoreFails(f) \/ Abandon(f)

Spec == Init /\ [][Next]_vars

(* Work of the analysis itself comes to an end: what it calls is limited in  *)
(* time or in size.  Nothing is assumed of the store.                        *)
FairSpec == Spec /\ WF_vars(Proceed)

-----------------------------------------------------------------------------
(* Properties *)

(* However deliveries overlap, time out, fail or repeat a sequence number,   *)
(* the row gets events in their order only, none after the terminal one, and *)
(* its progress never falls.  Only an interruption can leave a delivery that *)
(* has the number of the terminal event and is stored after it.              *)
StoredInOrder ==
  [][ /\ row'.work >= row.work
      /\ row'.event # row.event /\ row.event # None =>
           \/ ~row.event.last /\ row'.event.seq > row.event.seq
           \/ /\ row'.event.seq = row.event.seq
              /\ outcome = "interrupted" \/ orphan ]_vars

(* A success is announced only when everything it held was removed and every *)
(* analyzer was complete.  What they read is one whole commit; or files that *)
(* all had these contents at one moment, in directories each of which had    *)
(* just these files at some moment of its own (not always one state of the   *)
(* whole tree).  And the row says so only of such an analysis.               *)
SuccessIsSound ==
  /\ outcome = "succeeded" /\ pc \in {"ending", "terminal", "done"} =>
       /\ staging = "none" /\ scratch = "none"
       /\ ~orphan /\ ~bad
       /\ snapshot = "real"
  /\ row.work = TotalWork => outcome = "succeeded" /\ pc \in {"terminal", "done"}

(* No observer, no store and no interruption keeps an analysis from ending.  *)
EveryAnalysisEnds == <>(pc = "done")

=============================================================================
