-------------------------- MODULE AnalysisRunProofs --------------------------
(***************************************************************************)
(* What an analysis promises of its result and of the progress it stores,  *)
(* for any source, number of analyzers and faults.                         *)
(* The only assumption is AnalysisAssumption.                              *)
(***************************************************************************)
EXTENDS AnalysisRun, FiniteSetTheorems, TLAPS

Facts == INSTANCE SourceCaptureProofs

(* What is staged of a commit is whole when nothing is missing: what has     *)
(* arrived, what is being written, and what is to come are its files.        *)
InHand == {writing} \ {None}

Resolved == {"commit", "archive", "members", "staged"}

StagingInv ==
  /\ Staging!StagingTypeOK
  /\ <<default, head>> \in history
  /\ request \in {"idle", "metadata", "reference", "commit", "archive"} =>
       pending = {} /\ writing = None /\ staged = {}
  /\ request \in {"reference"} \cup Resolved =>
       branch \in Branch /\ \E moment \in history : moment[1] = branch
  /\ request \in Resolved =>
       commit \in Commit /\ \E moment \in history : moment[2][branch] = commit
  /\ writing # None => request = "members"
  /\ request = "members" =>
       staged \cup pending \cup InHand = ItemsOf[commit] /\ Staging!Fits(staged \cup InHand)
  /\ Staging!StagedIsCommit

(* The analysis has its outcome; and it has closed its workspaces.           *)
Ending == {"closing", "ending", "terminal", "done"}
Over   == {"ending", "terminal", "done"}

(* What TypeOK says of the program and of what it holds.                     *)
ProgramTypes ==
  /\ source \in {"github", "local"}
  /\ pc \in {"emit", "emitting", "materialize", "inventory", "analyze", "policy",
             "prioritize", "result"} \cup Ending
  /\ sequence \in Nat /\ work \in Nat
  /\ timedOut \in BOOLEAN /\ bad \in BOOLEAN /\ orphan \in BOOLEAN /\ leased \in BOOLEAN
  /\ staging \in {"none", "open", "sealed"}
  /\ snapshot \in {"none", "real", "torn"}
  /\ scratch \in {"none", "open", "running", "used"}
  /\ outcome \in {"none", "succeeded", "failed", "interrupted"}
  /\ faults \in 0..MaxFaults

(* Which event is next in each stage.                                        *)
Numbered ==
  /\ sequence <= Analyzers + 5
  /\ pc \in {"emit", "emitting"} => sequence <= Analyzers + 4
  /\ pc = "materialize" => sequence = 2
  /\ pc = "inventory" => sequence = 3
  /\ pc = "analyze" => sequence \in 3..(Analyzers + 2)
  /\ pc = "policy" => sequence = Analyzers + 3
  /\ pc = "prioritize" => sequence = Analyzers + 4
  /\ pc = "result" => sequence = Analyzers + 5
  /\ work <= Analyzers + 2
  /\ pc = "emitting" => work = WorkOf(sequence)

(* A running analysis has a sound snapshot once it was materialized, and no  *)
(* bad analyzer once the policy let it pass.                                 *)
Materialized == sequence > 2 \/ (sequence = 2 /\ pc \in {"emit", "emitting"})
Accepted     == sequence > Analyzers + 2 /\ pc # "policy"

OutcomeOK ==
  /\ pc \in Ending <=> outcome # "none"
  /\ pc \notin Ending => /\ ~orphan
                         /\ Materialized => snapshot = "real"
                         /\ Accepted => ~bad
  /\ orphan => outcome = "failed"
  /\ outcome = "succeeded" => ~bad /\ snapshot = "real"
  /\ pc \in Over => staging = "none" /\ scratch = "none"
  /\ scratch = "running" => pc \in {"analyze", "closing"}

(* A delivery may have been interrupted, and its number given twice; no      *)
(* analyzer runs during a delivery.                                          *)
MayRepeat == (outcome = "interrupted" \/ orphan) /\ scratch # "running"

(* The events of an analysis: those of its stages, and the terminal one.     *)
EventOK(e) ==
  /\ e \in Events
  /\ ~e.last =>
       /\ e.work = WorkOf(e.seq)
       /\ \/ e.seq < sequence
          \/ e.seq = sequence /\ pc = "emitting"
          \/ e.seq = sequence /\ pc \in Ending /\ MayRepeat
  /\ e.last =>
       /\ pc \in {"terminal", "done"}
       /\ e.seq = sequence
       /\ e.work = IF outcome = "succeeded" THEN TotalWork ELSE work

(* One delivery of a stage's event and one of the terminal event are under   *)
(* way at most.                                                              *)
Deliveries ==
  /\ fibers \subseteq Fibers
  /\ \A f \in fibers : EventOK(f.event)
  /\ \A f, g \in fibers : f.event.last = g.event.last => f = g
  /\ pc \notin Ending \cup {"emitting"} /\ ~timedOut => fibers = {}
  /\ pc = "emitting" => ~timedOut /\ \A f \in fibers : f.event.seq = sequence

(* What is being stored follows what was recorded, and what is in the row    *)
(* was recorded or would follow.                                             *)
Storing ==
  /\ lock \in {None} \cup Events /\ latest \in {None} \cup Events
  /\ row \in [work : 0..TotalWork, event : {None} \cup Events]
  /\ latest # None => EventOK(latest)
  /\ \A f \in fibers : f.at # "waiting" => lock = f.event /\ Follows(f.event)
  /\ \A f \in fibers : f.at = "stored" => row.event = f.event
  /\ row.event # None => /\ EventOK(row.event)
                         /\ row.work = row.event.work
                         /\ row.event = latest \/ Follows(row.event)
  /\ row.event = None => row.work \in {0, 2}

Sources == Capture!CaptureTypeOK /\ Facts!CaptureInv /\ StagingInv

Program == ProgramTypes /\ Numbered /\ OutcomeOK

AnalysisInv == Sources /\ Program /\ Deliveries /\ Storing

-----------------------------------------------------------------------------
(* The source. *)

(* The empty workspace is within the limits.                                 *)
LEMMA EmptyFits == Staging!Fits({})
<1>1. Staging!Cardinality({}) = 0
  BY FS_EmptySet DEF Staging!Cardinality, Cardinality
<1>2. Staging!MapThenSumSet(LAMBDA i : SizeOf[i], {}) = 0
  <2> DEFINE Body(it) ==
               [s \in SUBSET {} |->
                  IF s = {} THEN 0
                  ELSE LET x == CHOOSE y \in s : TRUE IN SizeOf[x] + it[s \ {x}]]
             Nothing == [s \in SUBSET {} |-> 0]
             sum == CHOOSE it : it = Body(it)
  <2>1. Nothing = Body(Nothing)
    OBVIOUS
  <2>2. sum = Body(sum)
    <3> HIDE DEF Body, Nothing
    <3> QED
      BY <2>1
  <2>3. sum[{}] = 0
    <3> HIDE DEF sum
    <3> QED
      BY <2>2
  <2>4. Staging!MapThenSumSet(LAMBDA i : SizeOf[i], {}) = sum[{}]
    BY DEF Staging!MapThenSumSet, Staging!MapThenFoldSet
  <2> QED
    BY <2>3, <2>4
<1> QED
  BY <1>1, <1>2, AnalysisAssumption DEF Staging!Fits

(* Before a source is asked for, nothing is known of it.                     *)
LEMMA StagingInitially ==
  ASSUME default \in Branch, head \in [Branch -> Commit], moves = 0,
         history = {<<default, head>>}, request = "idle", branch = None, commit = None,
         pending = {}, writing = None, staged = {}
  PROVE  StagingInv
BY AnalysisAssumption DEF StagingInv, Staging!StagingTypeOK, Staging!StagedIsCommit, Resolved

(* The same of the states after a step.                                      *)
LEMMA StagingForgets ==
  ASSUME default' \in Branch, head' \in [Branch -> Commit], moves' = 0,
         history' = {<<default', head'>>}, request' = "idle", branch' = None, commit' = None,
         pending' = {}, writing' = None, staged' = {}
  PROVE  StagingInv'
BY AnalysisAssumption DEF StagingInv, Staging!StagingTypeOK, Staging!StagedIsCommit, Resolved

(* What is resolved was there at some moment.                                *)
LEMMA ResolvingKeeps ==
  ASSUME StagingInv,
         Staging!Begin \/ Staging!Metadata \/ Staging!Reference \/ Staging!Authenticate
  PROVE  StagingInv'
<1> USE DEF StagingInv, Staging!StagingTypeOK, Staging!remote, Staging!resolved
<1>1. CASE Staging!Begin
  BY <1>1 DEF Staging!Begin, Staging!StagedIsCommit, Resolved, Staging!Asking
<1>2. CASE Staging!Metadata
  BY <1>2 DEF Staging!Metadata, Staging!StagedIsCommit, Resolved, Staging!Asking
<1>3. CASE Staging!Reference
  BY <1>3 DEF Staging!Reference, Staging!StagedIsCommit, Resolved, Staging!Asking
<1>4. CASE Staging!Authenticate
  BY <1>4 DEF Staging!Authenticate, Staging!StagedIsCommit, Resolved, Staging!Asking
<1> QED
  BY <1>1, <1>2, <1>3, <1>4

(* No file of the commit is lost on its way, and none comes beyond a limit.  *)
LEMMA UnpackingKeeps ==
  ASSUME StagingInv,
         \/ Staging!Fetch \/ Staging!Written \/ Staging!EndOfArchive \/ Staging!Refuse
         \/ \E i \in Item : Staging!Open(i)
  PROVE  StagingInv'
<1> USE DEF StagingInv, Staging!StagingTypeOK, Staging!remote, Staging!resolved, InHand
<1> USE AnalysisAssumption
<1>1. CASE Staging!Fetch
  <2>1. request' = "members" /\ commit \in Commit /\ pending' = ItemsOf[commit]
        /\ staged' = {} /\ writing' = None
    BY <1>1 DEF Staging!Fetch, Resolved
  <2>2. staged' \cup InHand' = {}
    BY <2>1
  <2> QED
    BY <1>1, <2>1, <2>2, EmptyFits
    DEF Staging!Fetch, Staging!StagedIsCommit, Resolved, Staging!Asking
<1>2. CASE Staging!Written
  <2>1. staged' \cup InHand' = staged \cup InHand
    BY <1>2 DEF Staging!Written
  <2>2. request = "members"
    BY <1>2 DEF Staging!Written
  <2> QED
    BY <1>2, <2>1, <2>2 DEF Staging!Written, Staging!StagedIsCommit, Resolved
<1>3. CASE Staging!EndOfArchive
  <2>1. staged \cup InHand = staged /\ staged = ItemsOf[commit]
    BY <1>3 DEF Staging!EndOfArchive
  <2> QED
    BY <1>3, <2>1 DEF Staging!EndOfArchive, Staging!StagedIsCommit, Resolved
<1>4. CASE Staging!Refuse
  BY <1>4 DEF Staging!Refuse, Staging!StagedIsCommit, Resolved, Staging!Asking
<1>5. ASSUME NEW i \in Item, Staging!Open(i) PROVE StagingInv'
  <2>1. CASE Staging!Fits(staged \cup {i})
    <3>1. request' = "members" /\ writing' = i /\ pending' = pending \ {i} /\ UNCHANGED staged
      BY <1>5, <2>1 DEF Staging!Open
    <3>2. staged' \cup InHand' = staged \cup {i}
      BY <3>1
    <3>3. staged' \cup pending' \cup InHand' = staged \cup pending \cup InHand
      BY <1>5, <3>1 DEF Staging!Open
    <3> QED
      BY <1>5, <2>1, <3>1, <3>2, <3>3 DEF Staging!Open, Staging!StagedIsCommit, Resolved
  <2>2. CASE ~Staging!Fits(staged \cup {i})
    BY <1>5, <2>2 DEF Staging!Open, Staging!StagedIsCommit, Resolved
  <2> QED
    BY <2>1, <2>2
<1> QED
  BY <1>1, <1>2, <1>3, <1>4, <1>5

(* A repository that moves has had the moments it had.                       *)
LEMMA MoveKeeps ==
  ASSUME StagingInv, Staging!Move
  PROVE  StagingInv'
<1> USE DEF StagingInv, Staging!StagingTypeOK
<1>1. /\ UNCHANGED <<request, branch, commit, pending, writing, staged>>
      /\ history' = history \cup {<<default', head'>>}
      /\ moves' \in 0..MaxMoves
      /\ default' \in Branch /\ head' \in [Branch -> Commit]
  BY AnalysisAssumption DEF Staging!Move, Staging!resolved
<1>2. history \subseteq history' /\ <<default', head'>> \in history'
  BY <1>1
<1>3. history' \subseteq Branch \X [Branch -> Commit]
  BY <1>1
<1>4. InHand' = InHand
  BY <1>1 DEF InHand
<1>5. Staging!StagedIsCommit'
  BY <1>1, <1>2 DEF Staging!StagedIsCommit
<1> QED
  BY <1>1, <1>2, <1>3, <1>4, <1>5 DEF Resolved

(* A directory's versions are counted by its edits.                          *)
LEMMA CaptureKeeps ==
  ASSUME Capture!CaptureTypeOK, Facts!CaptureInv, Capture!Next
  PROVE  Capture!CaptureTypeOK' /\ Facts!CaptureInv'
<1>1. Facts!CaptureInv'
  <2>1. Facts!Next
    BY DEF Capture!Next, Capture!Step, Capture!Begin, Capture!BeginCopy, Capture!BeginSecond,
           Capture!Compare, Capture!Fail, Capture!List, Capture!Read, Capture!Copy,
           Capture!Edit, Capture!Remove, Capture!Audited, Capture!Capturing,
           Facts!Next, Facts!Step, Facts!Begin, Facts!BeginCopy, Facts!BeginSecond,
           Facts!Compare, Facts!Fail, Facts!List, Facts!Read, Facts!Copy,
           Facts!Edit, Facts!Remove, Facts!Audited, Facts!Capturing
  <2> QED
    BY <2>1, Facts!CaptureNext
<1>2. Capture!CaptureTypeOK'
  <2> USE AnalysisAssumption DEF Capture!CaptureTypeOK, Capture!Versions, Capture!Capturing
  <2>1. CASE Capture!Begin \/ Capture!BeginCopy \/ Capture!BeginSecond \/ Capture!Compare
             \/ Capture!Fail
    BY <2>1 DEF Capture!Begin, Capture!BeginCopy, Capture!BeginSecond, Capture!Compare,
                Capture!Fail
  <2>2. ASSUME NEW d \in Directory, Capture!List(d) PROVE Capture!CaptureTypeOK'
    BY <2>2 DEF Capture!List
  <2>3. ASSUME NEW f \in File, Capture!Read(f) \/ Capture!Copy(f) PROVE Capture!CaptureTypeOK'
    BY <2>3 DEF Capture!Read, Capture!Copy
  <2>4. ASSUME NEW f \in File, Capture!Edit(f) \/ Capture!Remove(f)
        PROVE  Capture!CaptureTypeOK'
    BY <2>4 DEF Capture!Edit, Capture!Remove
  <2> QED
    BY <2>1, <2>2, <2>3, <2>4 DEF Capture!Next, Capture!Step
<1> QED
  BY <1>1, <1>2

(* Before a directory is read, nothing is known of it.                       *)
LEMMA CaptureInitially ==
  ASSUME tree \in [File -> {0, 1}], edits = 0, seen = {tree}, phase = "idle",
         listed = {}, todo = {},
         first = Capture!Empty, copy = Capture!Empty, second = Capture!Empty
  PROVE  Capture!CaptureTypeOK /\ Facts!CaptureInv
<1>1. Facts!Init
  BY DEF Facts!Init, Facts!Empty, Capture!Empty
<1>2. Capture!CaptureTypeOK
  BY AnalysisAssumption DEF Capture!CaptureTypeOK, Capture!Versions, Capture!Empty
<1> QED
  BY <1>1, <1>2, Facts!CaptureInitially

(* The same of the states after a step.                                      *)
LEMMA CaptureForgets ==
  ASSUME tree' = Capture!Empty, edits' = 0, seen' = {Capture!Empty}, phase' = "idle",
         listed' = {}, todo' = {},
         first' = Capture!Empty, copy' = Capture!Empty, second' = Capture!Empty
  PROVE  Capture!CaptureTypeOK' /\ Facts!CaptureInv'
<1> USE AnalysisAssumption DEF Capture!Empty
<1>1. Capture!CaptureTypeOK'
  BY DEF Capture!CaptureTypeOK, Capture!Versions
<1>2. Facts!CaptureInv'
  BY DEF Facts!CaptureInv, Facts!Versioned, Facts!Phases, Facts!Audits,
         Facts!SnapshotWasReal, Facts!Capturing
<1> QED
  BY <1>1, <1>2

(* What one step does to the sources: nothing, a step of one of them, or     *)
(* they are left.                                                            *)
LEMMA StepMovesSource ==
  ASSUME [Next]_vars
  PROVE  \/ UNCHANGED <<capture, github>>
         \/ Capture!Next /\ UNCHANGED github
         \/ Staging!Next /\ UNCHANGED capture
         \/ Forget
<1> USE DEF sources
<1>1. CASE Emit \/ EmitSettles \/ EmitExpires
  BY <1>1 DEF Emit, EmitSettles, EmitExpires
<1>2. CASE AllocateStaging \/ Inventory \/ AllocateScratch \/ RunAnalyzer \/ AnalyzerEnds
           \/ Policy \/ Prioritize \/ Result \/ Interrupt
  BY <1>2 DEF AllocateStaging, Inventory, AllocateScratch, RunAnalyzer, AnalyzerEnds,
              Policy, Prioritize, Result, Interrupt
<1>3. CASE CaptureLocal \/ StageGitHub
  BY <1>3 DEF CaptureLocal, StageGitHub
<1>4. CASE Materialize \/ CloseStaging
  BY <1>4 DEF Materialize, CloseStaging
<1>5. CASE StopAnalyzer \/ CloseScratch \/ EmitTerminal \/ TerminalSettles \/ TerminalExpires
  BY <1>5 DEF StopAnalyzer, CloseScratch, EmitTerminal, TerminalSettles, TerminalExpires
<1>6. ASSUME NEW f \in fibers, Take(f) \/ Store(f) \/ Record(f) \/ StoreFails(f) \/ Abandon(f)
      PROVE  UNCHANGED <<capture, github>>
  BY <1>6 DEF Take, Store, Record, StoreFails, Abandon, Observing
<1>7. CASE LoseLease
  BY <1>7 DEF LoseLease
<1>8. CASE UNCHANGED vars
  BY <1>8 DEF vars
<1> QED
  BY <1>1, <1>2, <1>3, <1>4, <1>5, <1>6, <1>7, <1>8 DEF Next, Proceed

(* A source that does not move is as sound as before.                        *)
LEMMA SourcesStay ==
  ASSUME Sources, UNCHANGED <<capture, github>>
  PROVE  Sources'
BY DEF Sources, capture, github, StagingInv, InHand, Staging!StagingTypeOK,
       Staging!StagedIsCommit, Capture!CaptureTypeOK, Facts!CaptureInv, Facts!Versioned,
       Facts!Phases, Facts!Audits, Facts!Untouched, Facts!Exposed, Facts!Collected,
       Facts!SnapshotWasReal, Facts!Alike

(* Every step keeps what is known of the sources.                            *)
LEMMA SourcesNext ==
  ASSUME Sources, [Next]_vars
  PROVE  Sources'
<1>1. CASE UNCHANGED <<capture, github>>
  BY <1>1, SourcesStay
<1>2. CASE Capture!Next /\ UNCHANGED github
  <2>1. StagingInv'
    BY <1>2 DEF Sources, github, StagingInv, InHand, Staging!StagingTypeOK,
                Staging!StagedIsCommit
  <2> QED
    BY <1>2, <2>1, CaptureKeeps DEF Sources
<1>3. CASE Staging!Next /\ UNCHANGED capture
  <2>1. Capture!CaptureTypeOK' /\ Facts!CaptureInv'
    BY <1>3 DEF Sources, capture, Capture!CaptureTypeOK, Facts!CaptureInv, Facts!Versioned,
       Facts!Phases, Facts!Audits, Facts!Untouched, Facts!Exposed, Facts!Collected,
       Facts!SnapshotWasReal, Facts!Alike
  <2>2. StagingInv'
    BY <1>3, ResolvingKeeps, UnpackingKeeps, MoveKeeps DEF Sources, Staging!Next, Staging!Step
  <2> QED
    BY <2>1, <2>2 DEF Sources
<1>4. CASE Forget
  <2>1. (CHOOSE b \in Branch : TRUE) \in Branch /\ (CHOOSE c \in Commit : TRUE) \in Commit
    BY AnalysisAssumption
  <2>2. default' \in Branch /\ head' \in [Branch -> Commit]
    BY <1>4, <2>1 DEF Forget
  <2>3. StagingInv'
    BY <1>4, <2>2, StagingForgets DEF Forget
  <2> QED
    BY <1>4, <2>3, CaptureForgets DEF Forget, Sources
<1> QED
  BY <1>1, <1>2, <1>3, <1>4, StepMovesSource

(* What is materialized is real.                                             *)
LEMMA SourcesAreSound == Sources => Sound
<1>1. Facts!SnapshotWasReal => Capture!SnapshotWasReal
  BY DEF Facts!SnapshotWasReal, Capture!SnapshotWasReal, Facts!Alike, Capture!Alike
<1> QED
  BY <1>1 DEF Sources, Sound, Facts!CaptureInv, StagingInv

-----------------------------------------------------------------------------
(* The analysis. *)

(* Work is counted by the events, up to the two last stages.                 *)
LEMMA WorkCounts ==
  ASSUME NEW n \in Nat
  PROVE  /\ WorkOf(n) \in Nat /\ WorkOf(n) <= Analyzers + 2
         /\ n <= Analyzers + 5 => WorkOf(n) \in 0..TotalWork
BY AnalysisAssumption DEF WorkOf, TotalWork

(* An event leads to the stage it announces.                                 *)
LEMMA EventLeads ==
  ASSUME Program, pc \in {"emit", "emitting"}, EmitDone, work' = WorkOf(sequence),
         UNCHANGED <<holdings, outcome>>
  PROVE  Numbered' /\ OutcomeOK' /\ sequence' \in Nat /\ work' \in Nat
         /\ pc' \in {"emit", "materialize", "inventory", "analyze", "policy", "prioritize",
                     "result"}
<1> USE AnalysisAssumption DEF Program, ProgramTypes
<1>1. /\ sequence \in 0..(Analyzers + 4)
      /\ sequence' = sequence + 1
      /\ work' \in Nat /\ work' <= Analyzers + 2
  BY WorkCounts DEF Numbered, EmitDone
<1>2. \/ pc' = "emit" /\ sequence = 0
      \/ pc' = "materialize" /\ sequence = 1
      \/ pc' = "inventory" /\ sequence = 2
      \/ pc' = "analyze" /\ sequence \in 3..(Analyzers + 1)
      \/ pc' = "policy" /\ sequence = Analyzers + 2
      \/ pc' = "prioritize" /\ sequence = Analyzers + 3
      \/ pc' = "result" /\ sequence = Analyzers + 4
  BY <1>1 DEF EmitDone, AfterEvent
<1>3. Numbered'
  BY <1>1, <1>2 DEF Numbered
<1>4. OutcomeOK'
  BY <1>1, <1>2 DEF OutcomeOK, Materialized, Accepted, Ending, Over, holdings
<1> QED
  BY <1>1, <1>2, <1>3, <1>4

(* The program as it is announces its stages in order.                       *)
LEMMA EmittingKeeps ==
  ASSUME Program, Emit \/ EmitSettles \/ EmitExpires
  PROVE  Program'
<1> USE AnalysisAssumption DEF Program, ProgramTypes
<1>1. UNCHANGED <<source, leased, faults, holdings, outcome>> /\ timedOut' \in BOOLEAN
  BY DEF Emit, EmitSettles, EmitExpires, sources
<1>2. CASE EmitDone
  <2>1. pc \in {"emit", "emitting"} /\ work' = WorkOf(sequence)
    BY <1>2 DEF Emit, EmitSettles, EmitExpires, Numbered
  <2> QED
    BY <1>1, <1>2, <2>1, EventLeads DEF holdings
<1>3. CASE pc = "emit" /\ pc' = "emitting" /\ UNCHANGED sequence /\ work' = WorkOf(sequence)
  <2>1. Numbered' /\ work' \in Nat
    BY <1>3, WorkCounts DEF Numbered
  <2>2. OutcomeOK'
    BY <1>1, <1>3 DEF OutcomeOK, Materialized, Accepted, Ending, Over, holdings
  <2> QED
    BY <1>1, <1>3, <2>1, <2>2 DEF holdings
<1> QED
  BY <1>2, <1>3 DEF Emit, EmitSettles, EmitExpires

(* The stages up to a result.                                                *)
LEMMA StagesKeep ==
  ASSUME Program, Sources,
         \/ AllocateStaging \/ CaptureLocal \/ StageGitHub \/ Materialize \/ Inventory
         \/ AllocateScratch \/ RunAnalyzer \/ AnalyzerEnds
         \/ Policy \/ Prioritize \/ Result
  PROVE  Program'
<1> USE AnalysisAssumption
    DEF Program, ProgramTypes, Numbered, OutcomeOK, Materialized, Accepted, Ending, Over,
        sources, program, holdings, Close, Fails
<1>1. CASE AllocateStaging \/ CaptureLocal \/ StageGitHub
  BY <1>1 DEF AllocateStaging, CaptureLocal, StageGitHub
<1>2. CASE Materialize
  BY <1>2, SourcesAreSound DEF Materialize
<1>3. CASE Inventory \/ Prioritize
  BY <1>3 DEF Inventory, Prioritize
<1>4. CASE AllocateScratch
  <2>1. CASE scratch' = "open" /\ UNCHANGED <<pc, bad>>
    BY <1>4, <2>1 DEF AllocateScratch
  <2>2. CASE bad' = TRUE /\ pc' = "emit" /\ UNCHANGED scratch
    BY <1>4, <2>2 DEF AllocateScratch
  <2> QED
    BY <1>4, <2>1, <2>2 DEF AllocateScratch
<1>5. CASE RunAnalyzer
  BY <1>5 DEF RunAnalyzer
<1>8. CASE AnalyzerEnds
  <2>1. CASE UNCHANGED <<pc, outcome>>
    <3>1. bad' \in BOOLEAN
      BY <1>8 DEF AnalyzerEnds
    <3>2. ~Accepted
      BY <1>8 DEF AnalyzerEnds
    <3>3. ProgramTypes' /\ Numbered'
      BY <1>8, <2>1, <3>1 DEF AnalyzerEnds
    <3>4. OutcomeOK'
      BY <1>8, <2>1, <3>2 DEF AnalyzerEnds
    <3> QED
      BY <3>3, <3>4
  <2>2. CASE Fails /\ UNCHANGED bad
    BY <1>8, <2>2 DEF AnalyzerEnds
  <2> QED
    BY <1>8, <2>1, <2>2 DEF AnalyzerEnds
<1>6. CASE Policy
  BY <1>6 DEF Policy
<1>7. CASE Result
  BY <1>7 DEF Result
<1> QED
  BY <1>1, <1>2, <1>3, <1>4, <1>5, <1>6, <1>7, <1>8

(* The end of its scopes, and the terminal event.                            *)
LEMMA EndingKeeps ==
  ASSUME Program,
         \/ Interrupt \/ StopAnalyzer \/ CloseScratch \/ CloseStaging
         \/ EmitTerminal \/ TerminalSettles \/ TerminalExpires
  PROVE  Program'
<1> USE AnalysisAssumption
    DEF Program, ProgramTypes, Numbered, OutcomeOK, Materialized, Accepted, Ending, Over,
        sources, program, holdings, Close, Fails, Orphaned
<1>1. CASE Interrupt
  BY <1>1 DEF Interrupt
<1>2. CASE StopAnalyzer
  BY <1>2 DEF StopAnalyzer
<1>3. CASE CloseScratch
  <2>1. CASE UNCHANGED <<outcome, orphan, faults>> /\ pc = "analyze" /\ pc' = "emit"
    BY <1>3, <2>1 DEF CloseScratch
  <2>2. CASE UNCHANGED <<outcome, orphan, faults, pc>>
    BY <1>3, <2>2 DEF CloseScratch
  <2>3. CASE orphan' = TRUE /\ pc' = "closing" /\ outcome' = "failed"
    <3>0. UNCHANGED faults \/ (faults < MaxFaults /\ faults' = faults + 1)
      BY <1>3 DEF CloseScratch
    <3>1. orphan' \in BOOLEAN /\ faults' \in 0..MaxFaults
      BY <2>3, <3>0
    <3>2. ProgramTypes' /\ Numbered'
      BY <1>3, <2>3, <3>1 DEF CloseScratch
    <3>3. OutcomeOK'
      BY <1>3, <2>3 DEF CloseScratch
    <3> QED
      BY <3>2, <3>3
  <2> QED
    BY <1>3, <2>1, <2>2, <2>3 DEF CloseScratch
<1>4. CASE CloseStaging
  <2>1. CASE UNCHANGED <<outcome, orphan, faults>>
    BY <1>4, <2>1 DEF CloseStaging
  <2>2. CASE outcome = "succeeded" /\ outcome' = "interrupted" /\ UNCHANGED <<orphan, faults>>
    BY <1>4, <2>2 DEF CloseStaging
  <2>3. CASE orphan' = TRUE /\ outcome' = "failed"
    <3>0. UNCHANGED faults \/ (faults < MaxFaults /\ faults' = faults + 1)
      BY <1>4 DEF CloseStaging
    <3>1. orphan' \in BOOLEAN /\ faults' \in 0..MaxFaults
      BY <2>3, <3>0
    <3>2. ProgramTypes' /\ Numbered'
      BY <1>4, <2>3, <3>1 DEF CloseStaging
    <3>3. OutcomeOK'
      BY <1>4, <2>3 DEF CloseStaging
    <3> QED
      BY <3>2, <3>3
  <2> QED
    BY <1>4, <2>1, <2>2, <2>3 DEF CloseStaging
<1>5. CASE EmitTerminal \/ TerminalSettles \/ TerminalExpires
  BY <1>5 DEF EmitTerminal, TerminalSettles, TerminalExpires
<1> QED
  BY <1>1, <1>2, <1>3, <1>4, <1>5

Observes(f) == Take(f) \/ Store(f) \/ Record(f) \/ StoreFails(f) \/ Abandon(f)

(* The observer does nothing to the analysis.                                *)
LEMMA ObservingKeeps ==
  ASSUME Program, (\E f \in fibers : Observes(f)) \/ LoseLease \/ UNCHANGED vars
  PROVE  Program'
<1>1. /\ UNCHANGED <<source, program, holdings, outcome>>
      /\ leased' \in BOOLEAN /\ faults' \in 0..MaxFaults
  <2> USE AnalysisAssumption DEF Program, ProgramTypes, sources
  <2>1. ASSUME NEW f \in fibers, Observes(f)
        PROVE  /\ UNCHANGED <<source, program, holdings, outcome>>
               /\ leased' \in BOOLEAN /\ faults' \in 0..MaxFaults
    BY <2>1 DEF Observes, Take, Store, Record, StoreFails, Abandon, Observing
  <2> QED
    BY <2>1 DEF LoseLease, vars
<1> QED
  BY <1>1 DEF Program, ProgramTypes, Numbered, OutcomeOK, Materialized, Accepted, program, holdings

(* Every step keeps the analysis in order.                                   *)
LEMMA ProgramNext ==
  ASSUME Program, Sources, [Next]_vars
  PROVE  Program'
BY EmittingKeeps, StagesKeep, EndingKeeps, ObservingKeeps DEF Next, Proceed, Observes

-----------------------------------------------------------------------------
(* The deliveries. *)

(* What a step of the program means for the events there have been.          *)
GoesOn ==
  /\ sequence' >= sequence
  /\ pc = "emitting" =>
       \/ pc' = "emitting"
       \/ sequence' > sequence
       \/ pc' \in Ending /\ MayRepeat'
  /\ pc \in Ending => pc' \in Ending /\ sequence' = sequence
  /\ pc \in Ending /\ MayRepeat => MayRepeat'
  /\ pc \in {"terminal", "done"} =>
       pc' \in {"terminal", "done"} /\ work' = work /\ outcome' = outcome

(* Every step goes on.                                                       *)
LEMMA StepGoesOn ==
  ASSUME Program, [Next]_vars
  PROVE  GoesOn
<1> USE DEF Program, ProgramTypes, Numbered, OutcomeOK, GoesOn, MayRepeat, Ending, program, holdings
<1>1. CASE Emit \/ EmitSettles \/ EmitExpires
  BY <1>1 DEF Emit, EmitSettles, EmitExpires, EmitDone
<1>2. CASE AllocateStaging \/ CaptureLocal \/ StageGitHub \/ Materialize \/ Inventory
           \/ AllocateScratch \/ RunAnalyzer \/ AnalyzerEnds
           \/ Policy \/ Prioritize \/ Result
  <2>1. sequence' = sequence /\ pc \notin Ending \cup {"emitting"}
    BY <1>2 DEF AllocateStaging, CaptureLocal, StageGitHub, Materialize, Inventory,
           AllocateScratch, RunAnalyzer, AnalyzerEnds, Policy, Prioritize, Result
  <2> QED
    BY <2>1
<1>3. CASE Interrupt
  BY <1>3 DEF Interrupt, Close
<1>4. CASE StopAnalyzer
  BY <1>4 DEF StopAnalyzer
<1>5. CASE CloseScratch
  <2>1. sequence' = sequence /\ pc \in {"analyze", "closing"} /\ (pc = "closing" => pc' = "closing")
        /\ (UNCHANGED <<outcome, orphan>> \/ orphan') /\ scratch' = "none"
    BY <1>5 DEF CloseScratch, Close, Fails, Orphaned
  <2> QED
    BY <2>1
<1>6. CASE CloseStaging
  <2>1. sequence' = sequence /\ pc = "closing" /\ pc' = "ending" /\ UNCHANGED scratch
        /\ \/ UNCHANGED <<outcome, orphan>>
           \/ outcome = "succeeded" /\ UNCHANGED orphan
           \/ orphan'
    BY <1>6 DEF CloseStaging, Orphaned
  <2> QED
    BY <2>1
<1>7. CASE EmitTerminal \/ TerminalSettles \/ TerminalExpires
  BY <1>7 DEF EmitTerminal, TerminalSettles, TerminalExpires
<1>8. ASSUME NEW f \in fibers, Observes(f) PROVE GoesOn
  <2>1. UNCHANGED <<program, outcome, orphan, scratch>>
    BY <1>8 DEF Observes, Take, Store, Record, StoreFails, Abandon, Observing
  <2> QED
    BY <2>1
<1>9. CASE LoseLease \/ UNCHANGED vars
  BY <1>9 DEF LoseLease, vars
<1> QED
  BY <1>1, <1>2, <1>3, <1>4, <1>5, <1>6, <1>7, <1>8, <1>9 DEF Next, Proceed, Observes

(* An event stays one of this analysis.                                      *)
LEMMA EventStays ==
  ASSUME Program, Program', GoesOn, NEW e, EventOK(e)
  PROVE  EventOK(e)'
<1>1. e \in Events /\ e.seq \in Nat
  BY AnalysisAssumption DEF EventOK, Events
<1>2. CASE e.last
  BY <1>1, <1>2 DEF EventOK, GoesOn, Ending, Program, ProgramTypes
<1>3. CASE ~e.last
  BY <1>1, <1>3 DEF EventOK, GoesOn, Ending, Program, ProgramTypes
<1> QED
  BY <1>2, <1>3

(* Deliveries that are none or fewer, or further.                            *)
Fewer == \A f \in fibers' : \E g \in fibers : f.event = g.event
Single == \A f, g \in fibers : f.event.last = g.event.last => f = g

LEMMA FewerDeliveries ==
  ASSUME Program, Program', GoesOn, Deliveries, Fewer, fibers' \subseteq Fibers, Single',
         pc' \notin Ending \cup {"emitting"} /\ ~timedOut' => fibers' = {},
         pc' = "emitting" => pc = "emitting" /\ ~timedOut' /\ sequence' = sequence
  PROVE  Deliveries'
<1>1. \A f \in fibers' : EventOK(f.event)'
  BY EventStays DEF Deliveries, Fewer
<1>2. pc' = "emitting" => \A f \in fibers' : f.event.seq = sequence'
  BY DEF Deliveries, Fewer
<1> QED
  BY <1>1, <1>2 DEF Deliveries, Single

(* One delivery is replaced by one of the same event, or ends.               *)
LEMMA DeliveryMoves ==
  ASSUME Deliveries, NEW f \in fibers, Observes(f)
  PROVE  /\ fibers' \subseteq Fibers /\ Fewer /\ Single'
         /\ fibers = {} => fibers' = {}
         /\ \/ fibers' = fibers \ {f}
            \/ \E where \in {"storing", "stored", "refused"} :
                 fibers' = (fibers \ {f}) \cup {[f EXCEPT !.at = where]}
<1>1. \/ fibers' = fibers \ {f}
      \/ \E where \in {"storing", "stored", "refused"} :
           fibers' = (fibers \ {f}) \cup {[f EXCEPT !.at = where]}
  BY DEF Observes, Take, Store, Record, StoreFails, Abandon, Ended, At
<1>2. CASE fibers' = fibers \ {f}
  BY <1>1, <1>2 DEF Deliveries, Fewer, Single
<1>3. ASSUME NEW where \in {"storing", "stored", "refused"},
             fibers' = (fibers \ {f}) \cup {[f EXCEPT !.at = where]}
      PROVE  fibers' \subseteq Fibers /\ Fewer /\ Single'
  <2> DEFINE g == [f EXCEPT !.at = where]
  <2>1. f \in Fibers
    BY DEF Deliveries
  <2>2. g \in Fibers /\ g.event = f.event
    BY <2>1 DEF Fibers
  <2>3. \A h \in fibers' : h = g \/ (h \in fibers /\ h # f)
    BY <1>3
  <2> HIDE DEF g
  <2>4. \A h \in fibers \ {f} : h.event.last # f.event.last
    BY DEF Deliveries
  <2> QED
    BY <2>2, <2>3, <2>4 DEF Deliveries, Fewer, Single
<1> QED
  BY <1>1, <1>2, <1>3

(* An interrupted delivery is the same delivery.                             *)
LEMMA CutMoves ==
  ASSUME Deliveries, Cut
  PROVE  /\ fibers' \subseteq Fibers /\ Fewer /\ Single'
         /\ \A f \in fibers' : \E g \in fibers : g.event = f.event /\ g.at = f.at
<1> DEFINE C(g) == IF g \in Own THEN [g EXCEPT !.cut = TRUE] ELSE g
<1>1. ASSUME NEW g \in fibers PROVE C(g) \in Fibers /\ C(g).event = g.event /\ C(g).at = g.at
  <2>1. g \in Fibers
    BY DEF Deliveries
  <2> QED
    BY <2>1 DEF Fibers
<1>2. fibers' = {C(g) : g \in fibers}
  BY DEF Cut
<1> HIDE DEF C
<1>3. \A f \in fibers' : \E g \in fibers : f = C(g)
  BY <1>2
<1>4. Single'
  BY <1>1, <1>3 DEF Deliveries, Single
<1> QED
  BY <1>1, <1>3, <1>4 DEF Fewer

(* A new event is delivered beside none of its kind.                         *)
LEMMA NewDelivery ==
  ASSUME Deliveries, NEW e \in Events, Deliver(e), \A f \in fibers : f.event.last # e.last
  PROVE  /\ fibers' \subseteq Fibers /\ Single'
         /\ \A f \in fibers' : f \in fibers \/ (f.event = e /\ f.at = "waiting")
<1> DEFINE n == [event |-> e, at |-> "waiting", cut |-> FALSE]
<1>1. n \in Fibers /\ n.event = e /\ n.at = "waiting"
  BY DEF Fibers
<1>2. fibers' = fibers \cup {n}
  BY DEF Deliver
<1> HIDE DEF n
<1> QED
  BY <1>1, <1>2 DEF Deliveries, Single

(* The analysis waits for all there is while it announces a stage.           *)
LEMMA AllAreOwn ==
  ASSUME Deliveries, pc = "emitting", Own = {}
  PROVE  fibers = {}
<1> SUFFICES ASSUME NEW f \in fibers PROVE FALSE
  OBVIOUS
<1>1. f.event.seq = sequence /\ f.event.last \in BOOLEAN
  BY DEF Deliveries, EventOK, Events
<1>2. ~f.event.last
  BY DEF Deliveries, EventOK
<1>3. f.event.last = (pc = "terminal")
  BY <1>1, <1>2
<1> QED
  BY <1>1, <1>3 DEF Own

(* A stage is announced when nothing is under way, or not at all.            *)
LEMMA EmitDelivers ==
  ASSUME Program, Program', GoesOn, Deliveries, Emit
  PROVE  /\ Deliveries'
         /\ \A f \in fibers' : f \in fibers \/ f.at = "waiting"
<1> USE AnalysisAssumption DEF Program, ProgramTypes
<1>1. CASE fibers' = fibers /\ pc' # "emitting" /\ timedOut' = timedOut
  <2>1. Fewer /\ fibers' \subseteq Fibers /\ Single'
    BY <1>1 DEF Fewer, Single, Deliveries
  <2>2. pc \notin Ending \cup {"emitting"}
    BY DEF Emit, Ending
  <2>3. pc' \notin Ending \cup {"emitting"} /\ ~timedOut' => fibers' = {}
    BY <1>1, <2>2 DEF Deliveries
  <2> QED
    BY <1>1, <2>1, <2>3, FewerDeliveries
<1>2. CASE ~timedOut /\ pc' = "emitting" /\ sequence' = sequence /\ timedOut' = timedOut
           /\ Deliver([seq |-> sequence, work |-> work', last |-> FALSE])
  <2>0. PICK e : e = [seq |-> sequence, work |-> work', last |-> FALSE]
    OBVIOUS
  <2>1. pc = "emit" /\ work' = WorkOf(sequence)
    BY DEF Emit
  <2>2. sequence \in 0..(Analyzers + 5) /\ work' \in 0..TotalWork
    BY <2>1, WorkCounts DEF Numbered
  <2>3. e \in Events /\ e.seq = sequence /\ e.work = work' /\ ~e.last
    BY <2>0, <2>2 DEF Events
  <2>4. fibers = {}
    BY <1>2, <2>1 DEF Deliveries, Ending
  <2>5. Deliver(e)
    BY <1>2, <2>0
  <2>6. EventOK(e)'
    BY <1>2, <2>1, <2>3 DEF EventOK
  <2>7. fibers' \subseteq Fibers /\ Single' /\ \A f \in fibers' : f.event = e /\ f.at = "waiting"
    BY <2>3, <2>4, <2>5, NewDelivery
  <2>8. \A f \in fibers' : EventOK(f.event)'
    BY <2>6, <2>7
  <2> QED
    BY <1>2, <2>3, <2>7, <2>8 DEF Deliveries, Single
<1>3. \/ EmitDone /\ UNCHANGED fibers
      \/ /\ ~timedOut
         /\ Deliver([seq |-> sequence, work |-> work', last |-> FALSE])
         /\ pc' = "emitting" /\ UNCHANGED sequence
  BY DEF Emit
<1>4. EmitDone => pc' # "emitting"
  BY DEF EmitDone, AfterEvent
<1>5. timedOut' = timedOut
  BY DEF Emit
<1> QED
  BY <1>1, <1>2, <1>3, <1>4, <1>5

(* The terminal event is the only one of its kind.                           *)
LEMMA TerminalDelivers ==
  ASSUME Program, Program', GoesOn, Deliveries, EmitTerminal
  PROVE  /\ Deliveries'
         /\ \A f \in fibers' : f \in fibers \/ f.at = "waiting"
<1> USE AnalysisAssumption DEF Program, ProgramTypes
<1>0. pc = "ending" /\ pc' \in {"done", "terminal"}
      /\ UNCHANGED <<sequence, work, timedOut, outcome>>
  BY DEF EmitTerminal
<1>1. CASE fibers' = fibers
  <2>1. Fewer /\ fibers' \subseteq Fibers /\ Single'
    BY <1>1 DEF Fewer, Single, Deliveries
  <2> QED
    BY <1>0, <1>1, <2>1, FewerDeliveries DEF Ending
<1>2. CASE pc' = "terminal"
           /\ Deliver([seq |-> sequence, last |-> TRUE,
                       work |-> IF outcome = "succeeded" THEN TotalWork ELSE work])
  <2>0. PICK e : e = [seq |-> sequence, last |-> TRUE,
                      work |-> IF outcome = "succeeded" THEN TotalWork ELSE work]
    OBVIOUS
  <2>1. sequence \in 0..(Analyzers + 5) /\ work \in 0..TotalWork /\ TotalWork \in 0..TotalWork
    BY DEF Numbered, TotalWork
  <2>2. e \in Events /\ e.seq = sequence /\ e.last
        /\ e.work = IF outcome = "succeeded" THEN TotalWork ELSE work
    BY <2>0, <2>1 DEF Events
  <2>3. Deliver(e)
    BY <1>2, <2>0
  <2>4. EventOK(e)'
    BY <1>0, <1>2, <2>2 DEF EventOK, TotalWork
  <2>5. \A f \in fibers : ~f.event.last
    BY <1>0 DEF Deliveries, EventOK
  <2>6. fibers' \subseteq Fibers /\ Single'
        /\ \A f \in fibers' : f \in fibers \/ (f.event = e /\ f.at = "waiting")
    BY <2>2, <2>3, <2>5, NewDelivery
  <2>7. \A f \in fibers : EventOK(f.event)'
    BY EventStays DEF Deliveries
  <2>8. \A f \in fibers' : EventOK(f.event)'
    BY <2>4, <2>6, <2>7
  <2> QED
    BY <1>2, <2>6, <2>8 DEF Deliveries, Single, Ending
<1> QED
  BY <1>0, <1>1, <1>2 DEF EmitTerminal

(* Every step keeps the deliveries apart.                                    *)
LEMMA DeliveriesNext ==
  ASSUME Program, Program', GoesOn, Deliveries, [Next]_vars
  PROVE  Deliveries'
<1> USE DEF Ending
<1>1. CASE Emit
  BY <1>1, EmitDelivers
<1>2. CASE EmitSettles
  <2>1. pc = "emitting" /\ Own = {} /\ UNCHANGED fibers /\ EmitDone
    BY <1>2 DEF EmitSettles, observer
  <2>2. fibers' = {}
    BY <2>1, AllAreOwn
  <2>3. pc' # "emitting"
    BY <2>1 DEF EmitDone, AfterEvent
  <2> QED
    BY <2>2, <2>3 DEF Deliveries
<1>3. CASE EmitExpires
  <2>1. Cut /\ timedOut' = TRUE /\ EmitDone
    BY <1>3 DEF EmitExpires
  <2>2. pc' # "emitting"
    BY <2>1 DEF EmitDone, AfterEvent
  <2> QED
    BY <2>1, <2>2, CutMoves, FewerDeliveries
<1>4. ASSUME UNCHANGED <<fibers, timedOut>>, pc' # "emitting",
             pc \in Ending => pc' \in Ending, pc # "emitting" \/ pc' \in Ending
      PROVE  Deliveries'
  <2>1. Fewer /\ fibers' \subseteq Fibers /\ Single'
    BY <1>4 DEF Fewer, Single, Deliveries
  <2>2. pc' \notin Ending \cup {"emitting"} /\ ~timedOut' => fibers' = {}
    BY <1>4 DEF Deliveries
  <2> QED
    BY <1>4, <2>1, <2>2, FewerDeliveries
<1>5. CASE AllocateStaging \/ CaptureLocal \/ StageGitHub \/ Materialize \/ Inventory
           \/ AllocateScratch \/ RunAnalyzer \/ AnalyzerEnds
           \/ Policy \/ Prioritize \/ Result
  <2>1. UNCHANGED <<fibers, timedOut>> /\ pc' # "emitting" /\ pc \notin Ending \cup {"emitting"}
    BY <1>5 DEF AllocateStaging, CaptureLocal, StageGitHub, Materialize, Inventory,
                AllocateScratch, RunAnalyzer, AnalyzerEnds, Policy, Prioritize, Result,
                Close, Fails, program, observer
  <2> QED
    BY <1>4, <2>1
<1>6. CASE Interrupt \/ StopAnalyzer \/ CloseScratch \/ CloseStaging \/ TerminalSettles
  <2>1. /\ UNCHANGED <<fibers, timedOut>> /\ pc' # "emitting"
        /\ pc \in Ending => pc' \in Ending
        /\ pc # "emitting" \/ pc' \in Ending
    BY <1>6 DEF Interrupt, StopAnalyzer, CloseScratch, CloseStaging, TerminalSettles,
                Close, Fails, program, observer
  <2> QED
    BY <1>4, <2>1
<1>7. CASE EmitTerminal
  BY <1>7, TerminalDelivers
<1>8. CASE TerminalExpires
  <2>1. Cut /\ pc' = "done"
    BY <1>8 DEF TerminalExpires
  <2> QED
    BY <2>1, CutMoves, FewerDeliveries
<1>9. ASSUME NEW f \in fibers, Observes(f) PROVE Deliveries'
  <2>1. UNCHANGED <<pc, sequence, timedOut>>
    BY <1>9 DEF Observes, Take, Store, Record, StoreFails, Abandon, Observing, program
  <2>2. pc \in Ending \cup {"emitting"} \/ timedOut
    BY <1>9 DEF Deliveries
  <2>3. fibers' \subseteq Fibers /\ Fewer /\ Single'
    BY <1>9, DeliveryMoves
  <2>4. pc = "emitting" => ~timedOut
    BY DEF Deliveries
  <2> QED
    BY <2>1, <2>2, <2>3, <2>4, FewerDeliveries
<1>10. CASE LoseLease \/ UNCHANGED vars
  <2>1. UNCHANGED <<fibers, timedOut, pc, sequence>>
    BY <1>10 DEF LoseLease, vars, program, observer
  <2>2. Fewer /\ fibers' \subseteq Fibers /\ Single'
    BY <2>1 DEF Fewer, Single, Deliveries
  <2> QED
    BY <2>1, <2>2, FewerDeliveries DEF Deliveries
<1> QED
  BY <1>1, <1>2, <1>3, <1>5, <1>6, <1>7, <1>8, <1>9, <1>10 DEF Next, Proceed, Observes

-----------------------------------------------------------------------------
(* The observer. *)

(* Only one delivery has the lock.                                           *)
LEMMA OneHolder ==
  ASSUME Deliveries, Storing, NEW f \in fibers
  PROVE  /\ lock = None => f.at = "waiting"
         /\ f.at # "waiting" => \A g \in fibers \ {f} : g.at = "waiting"
         /\ f \in Fibers /\ f.event \in Events /\ EventOK(f.event)
<1>1. f \in Fibers /\ f.event \in Events /\ EventOK(f.event)
  BY DEF Deliveries, Fibers
<1>2. lock = None => f.at = "waiting"
  BY <1>1, AnalysisAssumption DEF Storing
<1>3. ASSUME f.at # "waiting", NEW g \in fibers \ {f}, g.at # "waiting" PROVE FALSE
  BY <1>3 DEF Deliveries, Storing
<1> QED
  BY <1>1, <1>2, <1>3

(* The analysis starts and interrupts deliveries; it stores nothing.         *)
LEMMA StoringStays ==
  ASSUME Program, Program', GoesOn, Storing, UNCHANGED <<lock, latest, row>>,
         \A f \in fibers' :
           f.at = "waiting" \/ \E g \in fibers : g.event = f.event /\ g.at = f.at
  PROVE  Storing'
<1>1. \A e : Follows(e) => Follows(e)'
  BY DEF Follows
<1>2. \A f \in fibers' : f.at # "waiting" => lock' = f.event /\ Follows(f.event)'
  BY <1>1 DEF Storing
<1>3. \A f \in fibers' : f.at = "stored" => row'.event = f.event
  BY DEF Storing
<1>4. latest' # None => EventOK(latest)'
  BY EventStays DEF Storing
<1>5. row'.event # None => /\ EventOK(row.event)'
                           /\ row'.work = row'.event.work
                           /\ row'.event = latest' \/ Follows(row.event)'
  BY <1>1, EventStays DEF Storing
<1> QED
  BY <1>2, <1>3, <1>4, <1>5 DEF Storing

(* The lock is taken for an event that follows the last one.                 *)
LEMMA TakeStores ==
  ASSUME Program, Program', GoesOn, Deliveries, Storing, NEW f \in fibers, Take(f)
  PROVE  Storing'
<1>1. /\ f.at = "waiting" /\ lock = None /\ UNCHANGED <<latest, row>>
      /\ \A g \in fibers : g.at = "waiting"
      /\ f \in Fibers /\ f.event \in Events
  BY OneHolder DEF Take
<1>2. CASE Ended(f) /\ UNCHANGED lock
  BY <1>1, <1>2, StoringStays DEF Ended
<1>3. CASE Follows(f.event) /\ lock' = f.event /\ At(f, "storing")
  <2> DEFINE n == [f EXCEPT !.at = "storing"]
  <2>1. n.event = f.event /\ n.at = "storing"
    BY <1>1 DEF Fibers
  <2>2. \A g \in fibers' : g = n \/ g.at = "waiting"
    BY <1>1, <1>3 DEF At
  <2> HIDE DEF n
  <2>3. \A e : Follows(e) => Follows(e)'
    BY <1>1 DEF Follows
  <2>4. \A g \in fibers' : /\ g.at # "waiting" => lock' = g.event /\ Follows(g.event)'
                           /\ g.at # "stored"
    BY <1>3, <2>1, <2>2, <2>3
  <2>5. latest' # None => EventOK(latest)'
    BY <1>1, EventStays DEF Storing
  <2>6. row'.event # None => /\ EventOK(row.event)'
                             /\ row'.work = row'.event.work
                             /\ row'.event = latest' \/ Follows(row.event)'
    BY <1>1, <2>3, EventStays DEF Storing
  <2> QED
    BY <1>1, <1>3, <2>4, <2>5, <2>6 DEF Storing
<1> QED
  BY <1>2, <1>3 DEF Take

(* What is stored follows what was recorded.                                 *)
LEMMA StoreStores ==
  ASSUME Program, Program', GoesOn, Deliveries, Storing, NEW f \in fibers, Store(f)
  PROVE  Storing'
<1>1. /\ f.at = "storing" /\ UNCHANGED <<lock, latest>>
      /\ \A g \in fibers \ {f} : g.at = "waiting"
      /\ f \in Fibers /\ f.event \in Events /\ EventOK(f.event)
  BY OneHolder DEF Store
<1>2. lock = f.event /\ Follows(f.event)
  BY <1>1 DEF Storing
<1>3. \A e : Follows(e) => Follows(e)'
  BY <1>1 DEF Follows
<1>4. latest' # None => EventOK(latest)'
  BY <1>1, EventStays DEF Storing
<1>5. CASE UNCHANGED row /\ At(f, "refused")
  <2> DEFINE n == [f EXCEPT !.at = "refused"]
  <2>1. n.event = f.event /\ n.at = "refused"
    BY <1>1 DEF Fibers
  <2>2. \A g \in fibers' : g = n \/ g.at = "waiting"
    BY <1>1, <1>5 DEF At
  <2> HIDE DEF n
  <2>3. \A g \in fibers' : /\ g.at # "waiting" => lock' = g.event /\ Follows(g.event)'
                           /\ g.at # "stored"
    BY <1>1, <1>2, <1>3, <2>1, <2>2
  <2>4. row'.event # None => /\ EventOK(row.event)'
                             /\ row'.work = row'.event.work
                             /\ row'.event = latest' \/ Follows(row.event)'
    BY <1>1, <1>3, <1>5, EventStays DEF Storing
  <2> QED
    BY <1>1, <1>4, <1>5, <2>3, <2>4 DEF Storing
<1>6. CASE row' = [work |-> f.event.work, event |-> f.event] /\ At(f, "stored")
  <2> DEFINE n == [f EXCEPT !.at = "stored"]
  <2>1. n.event = f.event /\ n.at = "stored"
    BY <1>1 DEF Fibers
  <2>2. \A g \in fibers' : g = n \/ g.at = "waiting"
    BY <1>1, <1>6 DEF At
  <2> HIDE DEF n
  <2>3. \A g \in fibers' : /\ g.at # "waiting" => lock' = g.event /\ Follows(g.event)'
                           /\ g.at = "stored" => row'.event = g.event
    BY <1>1, <1>2, <1>3, <1>6, <2>1, <2>2
  <2>4. row'.event = f.event /\ row'.work = f.event.work
        /\ row' \in [work : 0..TotalWork, event : {None} \cup Events]
    BY <1>1, <1>6 DEF Events
  <2>5. f.event # None
    BY <1>1, AnalysisAssumption
  <2>6. EventOK(f.event)'
    BY <1>1, EventStays
  <2>7. EventOK(row.event)' /\ Follows(row.event)'
    BY <1>2, <1>3, <2>4, <2>6
  <2> QED
    BY <1>1, <1>4, <2>3, <2>4, <2>5, <2>7 DEF Storing
<1> QED
  BY <1>5, <1>6 DEF Store

(* What is recorded is what was stored, and the lock is free again.          *)
LEMMA RecordStores ==
  ASSUME Program, Program', GoesOn, Deliveries, Storing, NEW f \in fibers, Record(f)
  PROVE  Storing'
<1>1. /\ f.at \in {"stored", "refused"} /\ lock' = None /\ UNCHANGED row
      /\ latest' = IF f.at = "stored" THEN f.event ELSE latest
      /\ \A g \in fibers \ {f} : g.at = "waiting"
      /\ f \in Fibers /\ f.event \in Events /\ EventOK(f.event)
  BY OneHolder DEF Record
<1>2. \A g \in fibers' : g.at = "waiting"
  BY <1>1 DEF Record, Ended
<1>3. CASE f.at = "stored"
  <2>1. latest' = f.event /\ row'.event = f.event /\ row'.event = row.event
    BY <1>1, <1>3 DEF Storing
  <2>2. EventOK(f.event)'
    BY <1>1, EventStays
  <2>3. EventOK(latest)' /\ EventOK(row.event)'
    BY <2>1, <2>2
  <2> QED
    BY <1>1, <1>2, <2>1, <2>3 DEF Storing
<1>4. CASE f.at = "refused"
  <2>1. latest' = latest
    BY <1>1, <1>4
  <2>2. \A e : Follows(e) => Follows(e)'
    BY <2>1 DEF Follows
  <2>3. latest' # None => EventOK(latest)'
    BY <2>1, EventStays DEF Storing
  <2>4. row'.event # None => /\ EventOK(row.event)'
                             /\ row'.work = row'.event.work
                             /\ row'.event = latest' \/ Follows(row.event)'
    BY <1>1, <2>1, <2>2, EventStays DEF Storing
  <2> QED
    BY <1>1, <1>2, <2>1, <2>3, <2>4 DEF Storing
<1> QED
  BY <1>1, <1>3, <1>4

(* A delivery that fails, or is interrupted, frees the lock if it had it.    *)
LEMMA EndStores ==
  ASSUME Program, Program', GoesOn, Deliveries, Storing, NEW f \in fibers,
         StoreFails(f) \/ Abandon(f)
  PROVE  Storing'
<1>1. /\ fibers' = fibers \ {f} /\ UNCHANGED <<latest, row>>
      /\ lock' = IF f.at = "waiting" THEN lock ELSE None
      /\ f.at # "waiting" => \A g \in fibers \ {f} : g.at = "waiting"
  BY OneHolder DEF StoreFails, Abandon, Ended
<1>2. CASE f.at = "waiting"
  BY <1>1, <1>2, StoringStays
<1>3. CASE f.at # "waiting"
  <2>1. \A e : Follows(e) => Follows(e)'
    BY <1>1 DEF Follows
  <2>2. latest' # None => EventOK(latest)'
    BY <1>1, EventStays DEF Storing
  <2>3. row'.event # None => /\ EventOK(row.event)'
                             /\ row'.work = row'.event.work
                             /\ row'.event = latest' \/ Follows(row.event)'
    BY <1>1, <2>1, EventStays DEF Storing
  <2>4. \A g \in fibers' : g.at = "waiting"
    BY <1>1, <1>3
  <2> QED
    BY <1>1, <1>3, <2>2, <2>3, <2>4 DEF Storing
<1> QED
  BY <1>2, <1>3

(* Every step keeps the order in which events are stored.                    *)
LEMMA StoringNext ==
  ASSUME Program, Program', GoesOn, Deliveries, Storing, [Next]_vars
  PROVE  Storing'
<1>1. ASSUME UNCHANGED <<fibers, lock, latest, row>> PROVE Storing'
  BY <1>1, StoringStays
<1>2. CASE Emit
  <2>1. UNCHANGED <<lock, latest, row>>
    BY <1>2 DEF Emit
  <2>2. \A f \in fibers' : f \in fibers \/ f.at = "waiting"
    BY <1>2, EmitDelivers
  <2> QED
    BY <2>1, <2>2, StoringStays
<1>3. CASE EmitTerminal
  <2>1. UNCHANGED <<lock, latest, row>>
    BY <1>3 DEF EmitTerminal
  <2>2. \A f \in fibers' : f \in fibers \/ f.at = "waiting"
    BY <1>3, TerminalDelivers
  <2> QED
    BY <2>1, <2>2, StoringStays
<1>4. CASE EmitExpires \/ TerminalExpires
  <2>1. Cut /\ UNCHANGED <<lock, latest, row>>
    BY <1>4 DEF EmitExpires, TerminalExpires
  <2> QED
    BY <2>1, CutMoves, StoringStays
<1>5. CASE \/ EmitSettles \/ AllocateStaging \/ CaptureLocal \/ StageGitHub \/ Materialize
           \/ Inventory \/ AllocateScratch \/ RunAnalyzer \/ AnalyzerEnds
           \/ Policy \/ Prioritize \/ Result
  <2>1. UNCHANGED <<fibers, lock, latest, row>>
    BY <1>5 DEF EmitSettles, AllocateStaging, CaptureLocal, StageGitHub, Materialize,
                Inventory, AllocateScratch, RunAnalyzer, AnalyzerEnds, Policy, Prioritize,
                Result, observer
  <2> QED
    BY <1>1, <2>1
<1>6. CASE Interrupt \/ StopAnalyzer \/ CloseScratch \/ CloseStaging \/ TerminalSettles
           \/ LoseLease \/ UNCHANGED vars
  <2>1. UNCHANGED <<fibers, lock, latest, row>>
    BY <1>6 DEF Interrupt, StopAnalyzer, CloseScratch, CloseStaging, TerminalSettles,
                LoseLease, vars, observer
  <2> QED
    BY <1>1, <2>1
<1>7. ASSUME NEW f \in fibers, Observes(f) PROVE Storing'
  BY <1>7, TakeStores, StoreStores, RecordStores, EndStores DEF Observes
<1> QED
  BY <1>2, <1>3, <1>4, <1>5, <1>6, <1>7 DEF Next, Proceed, Observes

-----------------------------------------------------------------------------
(* The theorems. *)

(* An analysis starts with nothing under way.                                *)
LEMMA AnalysisInit == Init => AnalysisInv
<1> SUFFICES ASSUME Init PROVE AnalysisInv
  OBVIOUS
<1> USE AnalysisAssumption
<1>1. Capture!CaptureTypeOK /\ Facts!CaptureInv
  <2>1. CASE CaptureAtRest
    <3>1. tree \in [File -> {0, 1}]
      BY <2>1 DEF CaptureAtRest, Capture!Empty
    <3> QED
      BY <2>1, <3>1, CaptureInitially DEF CaptureAtRest
  <2>2. CASE Capture!Init
    BY <2>2, CaptureInitially DEF Capture!Init
  <2> QED
    BY <2>1, <2>2 DEF Init
<1>2. StagingInv
  <2>1. CASE StagingAtRest
    <3>1. (CHOOSE b \in Branch : TRUE) \in Branch /\ (CHOOSE c \in Commit : TRUE) \in Commit
      OBVIOUS
    <3>2. default \in Branch /\ head \in [Branch -> Commit]
      BY <2>1, <3>1 DEF StagingAtRest
    <3> QED
      BY <2>1, <3>2, StagingInitially DEF StagingAtRest
  <2>2. CASE Staging!Init
    BY <2>2, StagingInitially DEF Staging!Init
  <2> QED
    BY <2>1, <2>2 DEF Init
<1>3. Program
  <2>1. /\ source \in {"github", "local"}
        /\ pc = "emit" /\ sequence = 0 /\ work = 0 /\ ~timedOut
        /\ staging = "none" /\ scratch = "none" /\ ~bad /\ ~orphan
        /\ snapshot = "none" /\ outcome = "none" /\ leased /\ faults = 0
        /\ timedOut \in BOOLEAN /\ bad \in BOOLEAN /\ orphan \in BOOLEAN /\ leased \in BOOLEAN
    BY DEF Init
  <2>2. ProgramTypes
    BY <2>1 DEF ProgramTypes
  <2>3. Numbered /\ OutcomeOK
    BY <2>1 DEF Numbered, OutcomeOK, Ending, Over, Materialized, Accepted
  <2> QED
    BY <2>2, <2>3 DEF Program
<1>4. Deliveries
  BY DEF Init, Deliveries
<1>5. Storing
  <2>1. row \in [work : 0..TotalWork, event : {None}] /\ row.work \in {0, 2}
    BY DEF Init, TotalWork
  <2>2. row.event = None /\ row \in [work : 0..TotalWork, event : {None} \cup Events]
    BY <2>1
  <2> QED
    BY <2>1, <2>2 DEF Init, Storing
<1> QED
  BY <1>1, <1>2, <1>3, <1>4, <1>5 DEF AnalysisInv, Sources

(* Every step keeps the invariant.                                           *)
LEMMA AnalysisNext == AnalysisInv /\ [Next]_vars => AnalysisInv'
<1> SUFFICES ASSUME AnalysisInv, [Next]_vars PROVE AnalysisInv'
  OBVIOUS
<1>1. Sources' /\ Program'
  BY SourcesNext, ProgramNext DEF AnalysisInv
<1>2. GoesOn
  BY StepGoesOn DEF AnalysisInv
<1>3. Deliveries' /\ Storing'
  BY <1>1, <1>2, DeliveriesNext, StoringNext DEF AnalysisInv
<1> QED
  BY <1>1, <1>3 DEF AnalysisInv

(* The invariant holds in every state.                                       *)
LEMMA AnalysisAlways == Spec => []AnalysisInv
BY AnalysisInit, AnalysisNext, PTL DEF Spec

(* A set with one delivery of each kind has two at most.                     *)
LEMMA TwoDeliveries ==
  ASSUME Deliveries
  PROVE  Cardinality(fibers) <= 2
<1> DEFINE a == CHOOSE f \in fibers : f.event.last
           b == CHOOSE f \in fibers : ~f.event.last
<1>1. \A f \in fibers : f.event.last \in BOOLEAN
  BY DEF Deliveries, EventOK, Events
<1>2. ASSUME NEW f \in fibers PROVE f = a \/ f = b
  <2>1. CASE f.event.last
    <3>1. a \in fibers /\ a.event.last
      BY <2>1
    <3>2. f.event.last = a.event.last
      BY <1>1, <2>1, <3>1
    <3> QED
      BY <3>1, <3>2 DEF Deliveries
  <2>2. CASE ~f.event.last
    <3>1. b \in fibers /\ ~b.event.last
      BY <2>2
    <3>2. f.event.last = b.event.last
      BY <1>1, <2>2, <3>1
    <3> QED
      BY <3>1, <3>2 DEF Deliveries
  <2> QED
    BY <2>1, <2>2
<1> HIDE DEF a, b
<1>3. fibers \in SUBSET ({a} \cup {b})
  BY <1>2
<1>4. IsFiniteSet({a}) /\ Cardinality({a}) = 1
  BY FS_Singleton
<1>5. /\ IsFiniteSet({a} \cup {b})
      /\ Cardinality({a} \cup {b}) = IF b \in {a} THEN Cardinality({a}) ELSE Cardinality({a}) + 1
  BY <1>4, FS_AddElement
<1>6. Cardinality(fibers) <= Cardinality({a} \cup {b}) /\ Cardinality(fibers) \in Nat
  BY <1>3, <1>5, FS_Subset, FS_CardinalityType
<1> QED
  BY <1>4, <1>5, <1>6

(* Sources, program, workspaces and deliveries of an analysis stay within    *)
(* their types; in particular, the analysis leaves two detached deliveries   *)
(* at most, as the comment in scanner-private.ts says.                       *)
THEOREM AnalysisTypeCorrect == Spec => []TypeOK
<1>1. AnalysisInv => TypeOK
  <2> SUFFICES ASSUME AnalysisInv PROVE TypeOK
    OBVIOUS
  <2>1. sequence \in 0..(Analyzers + 5) /\ work \in 0..TotalWork
    BY AnalysisAssumption DEF AnalysisInv, Program, ProgramTypes, Numbered, TotalWork
  <2>2. fibers \subseteq Fibers /\ Cardinality(fibers) <= 2
    BY TwoDeliveries DEF AnalysisInv, Deliveries
  <2> QED
    BY <2>1, <2>2
    DEF TypeOK, AnalysisInv, Sources, StagingInv, Program, ProgramTypes, Ending, Storing
<1> QED
  BY AnalysisAlways, <1>1, PTL

(* Whatever happens to the source, to analyzers, workspaces and deliveries,  *)
(* a success is announced only when all workspaces are gone and complete     *)
(* analyzers have read one whole commit, or files whose contents were there  *)
(* at one moment, in directories each of which had just these files at a     *)
(* moment of its own; and the row shows all work done only for a success.    *)
THEOREM SuccessIsAlwaysSound == Spec => []SuccessIsSound
<1>1. AnalysisInv => SuccessIsSound
  <2> SUFFICES ASSUME AnalysisInv PROVE SuccessIsSound
    OBVIOUS
  <2>1. ASSUME outcome = "succeeded", pc \in Over
        PROVE  /\ staging = "none" /\ scratch = "none"
               /\ ~orphan /\ ~bad /\ snapshot = "real"
    BY <2>1 DEF AnalysisInv, Program, OutcomeOK
  <2>2. ASSUME row.work = TotalWork
        PROVE  outcome = "succeeded" /\ pc \in {"terminal", "done"}
    <3> USE AnalysisAssumption DEF AnalysisInv
    <3>1. row.event # None
      BY <2>2 DEF Storing, TotalWork
    <3>2. EventOK(row.event) /\ row.event.work = TotalWork
      BY <2>2, <3>1 DEF Storing
    <3>3. row.event.seq \in Nat
      BY <3>2 DEF EventOK, Events
    <3>4. WorkOf(row.event.seq) \in Nat /\ WorkOf(row.event.seq) <= Analyzers + 2
      BY <3>3, WorkCounts
    <3>5. TotalWork = Analyzers + 3 /\ work <= Analyzers + 2 /\ work \in Nat
      BY DEF TotalWork, Program, ProgramTypes, Numbered
    <3>6. row.event.last
      BY <3>2, <3>4, <3>5 DEF EventOK
    <3> QED
      BY <3>2, <3>5, <3>6 DEF EventOK
  <2> QED
    BY <2>1, <2>2 DEF SuccessIsSound, Over
<1> QED
  BY AnalysisAlways, <1>1, PTL

(* Two events of one analysis with the same number are the same, or one is   *)
(* the terminal event after an interruption.                                 *)
LEMMA SameNumber ==
  ASSUME NEW d, NEW e, EventOK(d), EventOK(e), d.seq = e.seq
  PROVE  d = e \/ outcome = "interrupted" \/ orphan
<1>1. d \in Events /\ e \in Events
  BY DEF EventOK
<1>2. /\ d = [seq |-> d.seq, work |-> d.work, last |-> d.last]
      /\ e = [seq |-> e.seq, work |-> e.work, last |-> e.last]
      /\ d.last \in BOOLEAN /\ e.last \in BOOLEAN /\ d.seq \in Nat /\ e.seq \in Nat
  BY <1>1 DEF Events
<1>3. CASE d.last /\ e.last
  <2>1. d.work = e.work /\ d.last = e.last
    BY <1>2, <1>3 DEF EventOK
  <2> QED
    BY <1>2, <2>1
<1>4. CASE ~d.last /\ ~e.last
  <2>1. d.work = e.work /\ d.last = e.last
    BY <1>2, <1>4 DEF EventOK
  <2> QED
    BY <1>2, <2>1
<1>5. CASE d.last /\ ~e.last
  <2>1. pc \in {"terminal", "done"} /\ e.seq = sequence
    BY <1>5 DEF EventOK
  <2>2. ~(e.seq < sequence)
    BY <1>2, <2>1
  <2> QED
    BY <1>5, <2>1, <2>2 DEF EventOK, MayRepeat
<1>6. CASE ~d.last /\ e.last
  <2>1. pc \in {"terminal", "done"} /\ d.seq = sequence
    BY <1>6 DEF EventOK
  <2>2. ~(d.seq < sequence)
    BY <1>2, <2>1
  <2> QED
    BY <1>6, <2>1, <2>2 DEF EventOK, MayRepeat
<1> QED
  BY <1>2, <1>3, <1>4, <1>5, <1>6

Ordered ==
  /\ row'.work >= row.work
  /\ row'.event # row.event /\ row.event # None =>
       \/ ~row.event.last /\ row'.event.seq > row.event.seq
       \/ /\ row'.event.seq = row.event.seq
          /\ outcome = "interrupted" \/ orphan

(* One write to the row.                                                     *)
LEMMA StoreIsOrdered ==
  ASSUME Deliveries, Storing, NEW f \in fibers, Store(f)
  PROVE  Ordered
<1>1. f.at = "storing" /\ EventOK(f.event) /\ f.event \in Events
  BY OneHolder DEF Store
<1>2. Follows(f.event)
  BY <1>1 DEF Storing
<1>3. CASE UNCHANGED row
  BY <1>3 DEF Ordered, Storing, Events, TotalWork
<1>4. CASE row' = [work |-> f.event.work, event |-> f.event] /\ f.event.work >= row.work
  <2>1. row'.event = f.event /\ row'.work >= row.work
    BY <1>4
  <2>2. ASSUME row'.event # row.event, row.event # None
        PROVE  \/ ~row.event.last /\ row'.event.seq > row.event.seq
               \/ row'.event.seq = row.event.seq /\ (outcome = "interrupted" \/ orphan)
    <3>1. EventOK(row.event) /\ row.event \in Events
      BY <2>2 DEF Storing, EventOK
    <3>2. row.event.seq \in Nat /\ f.event.seq \in Nat
      BY <1>1, <3>1 DEF Events
    <3>3. CASE row.event = latest
      BY <1>2, <2>1, <2>2, <3>2, <3>3 DEF Follows
    <3>4. CASE Follows(row.event)
      <4>1. f.event.seq = row.event.seq
        BY <1>2, <3>4 DEF Follows
      <4> QED
        BY <1>1, <2>1, <2>2, <3>1, <4>1, SameNumber
    <3> QED
      BY <2>2, <3>3, <3>4 DEF Storing
  <2> QED
    BY <2>1, <2>2 DEF Ordered
<1> QED
  BY <1>3, <1>4 DEF Store

(* However deliveries overlap, time out, fail or repeat a number, the row    *)
(* gets events in their order, none after the terminal one, and its progress *)
(* never falls; but for a delivery an interruption left behind.              *)
THEOREM AlwaysStoredInOrder == Spec => StoredInOrder
<1>1. AnalysisInv /\ [Next]_vars => [Ordered]_vars
  <2> SUFFICES ASSUME AnalysisInv, [Next]_vars PROVE [Ordered]_vars
    OBVIOUS
  <2>1. CASE UNCHANGED row
    BY <2>1 DEF AnalysisInv, Storing, Ordered, TotalWork
  <2>2. ASSUME NEW f \in fibers, Store(f) PROVE Ordered
    BY <2>2, StoreIsOrdered DEF AnalysisInv
  <2>3. ASSUME NEW f \in fibers, Take(f) \/ Record(f) \/ StoreFails(f) \/ Abandon(f)
        PROVE  UNCHANGED row
    BY <2>3 DEF Take, Record, StoreFails, Abandon
  <2>4. CASE \/ Emit \/ EmitSettles \/ EmitExpires \/ AllocateStaging \/ CaptureLocal
             \/ StageGitHub \/ Materialize \/ Inventory \/ AllocateScratch \/ RunAnalyzer
             \/ AnalyzerEnds \/ Policy \/ Prioritize \/ Result
    BY <2>1, <2>4 DEF Emit, EmitSettles, EmitExpires, AllocateStaging, CaptureLocal,
       StageGitHub, Materialize, Inventory, AllocateScratch, RunAnalyzer, AnalyzerEnds,
       Policy, Prioritize, Result, observer
  <2>5. CASE \/ Interrupt \/ StopAnalyzer \/ CloseScratch \/ CloseStaging \/ EmitTerminal
             \/ TerminalSettles \/ TerminalExpires \/ LoseLease
    BY <2>1, <2>5 DEF Interrupt, StopAnalyzer, CloseScratch, CloseStaging, EmitTerminal,
       TerminalSettles, TerminalExpires, LoseLease, observer
  <2> QED
    BY <2>1, <2>2, <2>3, <2>4, <2>5 DEF Next, Proceed
<1> QED
  BY <1>1, AnalysisAlways, PTL DEF Spec, StoredInOrder, Ordered

=============================================================================
