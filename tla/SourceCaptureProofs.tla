------------------------ MODULE SourceCaptureProofs ------------------------
(***************************************************************************)
(* A capture that is accepted was there, for any files, directories and    *)
(* edits.  The argument is that of a double collect: at the moment the     *)
(* second audit begins (or lists a directory), a file that differs from    *)
(* what the first audit read never looks like it again.                    *)
(***************************************************************************)
EXTENDS SourceCapture, TLAPS

(* What the first audit read of f and moment contradicts, both the source    *)
(* and the second audit contradict.                                          *)
Exposed(f, moment) ==
  first[f] # 0 /\ moment[f] # first[f] => tree[f] # first[f] /\ second[f] # first[f]

(* The second audit has found, or is about to read, what moment held.        *)
Collected(f, moment) ==
  /\ moment[f] = 0 => f \notin todo /\ second[f] = 0
  /\ moment[f] # 0 => f \in todo \/ second[f] # 0

Untouched(f) == f \notin todo /\ second[f] = 0

Versioned ==
  /\ edits \in Nat
  /\ tree \in [File -> Nat] /\ first \in [File -> Nat]
  /\ copy \in [File -> Nat] /\ second \in [File -> Nat]
  /\ \A f \in File : tree[f] <= edits + 1 /\ first[f] <= edits + 1
  /\ tree \in seen

Phases ==
  /\ phase \in {"idle", "captured", "failed"} \cup Capturing
  /\ listed \subseteq Directory /\ todo \subseteq File
  /\ phase \in {"idle", "auditing", "copying"} => \A f \in File : second[f] = 0
  /\ phase = "copying" => todo = {}
  /\ phase = "reauditing" => copy = first

Audits ==
  phase = "reauditing" =>
    /\ \A f \in File : DirectoryOf[f] \notin listed => Untouched(f)
    /\ \E moment \in seen : \A f \in File : Exposed(f, moment)
    /\ \A d \in listed :
         \E moment \in seen :
           \A f \in File :
             DirectoryOf[f] = d => Exposed(f, moment) /\ Collected(f, moment)

CaptureInv == Versioned /\ Phases /\ Audits /\ SnapshotWasReal

(* Nothing was read at first. *)
LEMMA CaptureInitially == Init => CaptureInv
  BY DEF Init, CaptureInv, Versioned, Phases, Audits, SnapshotWasReal, Empty, Capturing

(* Steps that leave the source and what was read of it alone. *)
LEMMA PhaseStep ==
  ASSUME CaptureInv, Begin \/ BeginCopy \/ Fail
  PROVE  CaptureInv'
<1>1. UNCHANGED <<tree, edits, seen, listed, todo, first, copy, second>>
  BY DEF Begin, BeginCopy, Fail
<1>2. Versioned'
  BY <1>1 DEF CaptureInv, Versioned
<1>3. /\ phase' \in {"auditing", "copying", "failed"}
      /\ phase' \in {"auditing", "copying"} => phase \in {"idle", "auditing"}
      /\ phase' = "copying" => todo = {}
  BY DEF Begin, BeginCopy, Fail, Audited
<1>4. Phases'
  BY <1>1, <1>3 DEF CaptureInv, Phases, Capturing
<1>5. Audits' /\ SnapshotWasReal'
  BY <1>3 DEF Audits, SnapshotWasReal
<1> QED BY <1>2, <1>4, <1>5 DEF CaptureInv

(* The moment a directory is listed for the second time is the one that      *)
(* directory is measured against.                                            *)
LEMMA ListStep ==
  ASSUME CaptureInv, NEW d \in Directory, List(d)
  PROVE  CaptureInv'
<1>1. /\ UNCHANGED <<tree, edits, seen, phase, first, copy, second>>
      /\ listed' = listed \cup {d}
      /\ todo' = todo \cup {f \in File : DirectoryOf[f] = d /\ tree[f] # 0}
      /\ phase \in {"auditing", "reauditing"} /\ d \notin listed
  BY DEF List
<1>2. Versioned' /\ Phases' /\ SnapshotWasReal'
  BY <1>1 DEF CaptureInv, Versioned, Phases, SnapshotWasReal, Capturing
<1>3. ASSUME phase' = "reauditing" PROVE Audits'
  <2> USE <1>1, <1>3
  <2>1. \A f \in File : DirectoryOf[f] \notin listed' => Untouched(f)'
    BY DEF CaptureInv, Audits, Untouched
  <2>2. \E moment \in seen' : \A f \in File : Exposed(f, moment)'
    BY DEF CaptureInv, Audits, Exposed
  <2>3. ASSUME NEW e \in listed'
        PROVE  \E moment \in seen' :
                 \A f \in File :
                   DirectoryOf[f] = e => Exposed(f, moment)' /\ Collected(f, moment)'
    <3>1. CASE e = d
      <4>1. \A f \in File : DirectoryOf[f] = d => Untouched(f)
        BY DEF CaptureInv, Audits
      <4>2. \A f \in File :
              DirectoryOf[f] = d => Exposed(f, tree)' /\ Collected(f, tree)'
        BY <4>1 DEF Untouched, Exposed, Collected
      <4>3. tree \in seen'
        BY DEF CaptureInv, Versioned
      <4> QED BY <3>1, <4>2, <4>3
    <3>2. CASE e \in listed
      <4>1. e # d
        BY <3>2
      <4>2. PICK moment \in seen :
              \A f \in File :
                DirectoryOf[f] = e => Exposed(f, moment) /\ Collected(f, moment)
        BY <3>2 DEF CaptureInv, Audits
      <4>3. \A f \in File :
              DirectoryOf[f] = e => Exposed(f, moment)' /\ Collected(f, moment)'
        BY <4>1, <4>2 DEF Exposed, Collected
      <4> QED BY <4>3
    <3> QED BY <3>1, <3>2
  <2> QED BY <2>1, <2>2, <2>3 DEF Audits
<1> QED BY <1>2, <1>3 DEF CaptureInv, Audits

(* A file that was read and differs from what moment held, or from what the  *)
(* first audit read, shows it to the second audit.                           *)
LEMMA ReadStep ==
  ASSUME CaptureInv, NEW f \in File, Read(f)
  PROVE  CaptureInv'
<1>1. UNCHANGED <<tree, edits, seen, listed, copy>> /\ todo' = todo \ {f} /\ f \in todo
  BY DEF Read
<1>2. CASE tree[f] = 0
  <2>1. phase' = "failed" /\ UNCHANGED <<first, second>>
    BY <1>2 DEF Read
  <2> QED BY <1>1, <2>1 DEF CaptureInv, Versioned, Phases, Audits, SnapshotWasReal, Capturing
<1>3. CASE tree[f] # 0 /\ phase = "auditing"
  <2>1. UNCHANGED <<phase, second>> /\ first' = [first EXCEPT ![f] = tree[f]]
    BY <1>3 DEF Read
  <2> QED
    BY <1>1, <1>3, <2>1
    DEF CaptureInv, Versioned, Phases, Audits, SnapshotWasReal, Capturing
<1>4. CASE tree[f] # 0 /\ phase = "reauditing"
  <2>1. UNCHANGED <<phase, first>> /\ second' = [second EXCEPT ![f] = tree[f]]
    BY <1>4 DEF Read
  <2>2. Versioned' /\ Phases' /\ SnapshotWasReal'
    BY <1>1, <1>4, <2>1 DEF CaptureInv, Versioned, Phases, SnapshotWasReal, Capturing
  <2>3. \A g \in File : second'[g] = IF g = f THEN tree[f] ELSE second[g]
    BY <2>1 DEF CaptureInv, Versioned
  <2>4. ASSUME NEW moment, NEW g \in File, Exposed(g, moment)
        PROVE  Exposed(g, moment)'
    BY <1>1, <2>1, <2>3, <2>4 DEF Exposed
  <2>5. ASSUME NEW moment, NEW g \in File, Collected(g, moment)
        PROVE  Collected(g, moment)'
    BY <1>1, <1>4, <2>3, <2>5 DEF Collected
  <2>6. \A g \in File : DirectoryOf[g] \notin listed' => Untouched(g)'
    BY <1>1, <1>4, <2>3 DEF CaptureInv, Audits, Untouched
  <2>7. \E moment \in seen' : \A g \in File : Exposed(g, moment)'
    BY <1>1, <1>4, <2>4 DEF CaptureInv, Audits
  <2>8. ASSUME NEW e \in listed'
        PROVE  \E moment \in seen' :
                 \A g \in File :
                   DirectoryOf[g] = e => Exposed(g, moment)' /\ Collected(g, moment)'
    <3>1. PICK moment \in seen :
            \A g \in File : DirectoryOf[g] = e => Exposed(g, moment) /\ Collected(g, moment)
      BY <1>1, <1>4 DEF CaptureInv, Audits
    <3> QED BY <1>1, <2>4, <2>5, <3>1
  <2>9. Audits'
    BY <2>6, <2>7, <2>8 DEF Audits
  <2> QED BY <2>2, <2>9 DEF CaptureInv
<1> QED BY <1>2, <1>3, <1>4 DEF Read

(* The copy counts only once it is what the first audit read. *)
LEMMA CopyStep ==
  ASSUME CaptureInv, NEW f \in File, Copy(f)
  PROVE  CaptureInv'
<1>1. /\ UNCHANGED <<tree, edits, seen, listed, todo, first, second>>
      /\ phase = "copying" /\ phase' \in {"copying", "failed"}
      /\ copy' \in {copy, [copy EXCEPT ![f] = tree[f]]}
  BY DEF Copy
<1>2. copy' \in [File -> Nat]
  BY <1>1 DEF CaptureInv, Versioned
<1> QED
  BY <1>1, <1>2 DEF CaptureInv, Versioned, Phases, Audits, SnapshotWasReal, Capturing

(* The moment the second audit begins is the one it is measured against: any *)
(* file that changed since the first audit has a version of its own.         *)
LEMMA BeginSecondStep ==
  ASSUME CaptureInv, BeginSecond
  PROVE  CaptureInv'
<1>1. /\ UNCHANGED <<tree, edits, seen, todo, first, copy, second>>
      /\ phase = "copying" /\ phase' = "reauditing" /\ listed' = {} /\ copy = first
      /\ todo = {} /\ \A f \in File : second[f] = 0
  BY DEF BeginSecond, CaptureInv, Phases
<1>2. Versioned' /\ Phases' /\ SnapshotWasReal'
  BY <1>1 DEF CaptureInv, Versioned, Phases, SnapshotWasReal, Capturing
<1>3. tree \in seen' /\ \A f \in File : Exposed(f, tree)' /\ Untouched(f)'
  BY <1>1 DEF CaptureInv, Versioned, Exposed, Untouched
<1>4. Audits'
  BY <1>1, <1>3 DEF Audits
<1> QED BY <1>2, <1>4 DEF CaptureInv

(* Three trees that agree leave no file exposed.                             *)
LEMMA CompareStep ==
  ASSUME CaptureInv, Compare
  PROVE  CaptureInv'
<1>1. /\ UNCHANGED <<tree, edits, seen, listed, todo, first, copy, second>>
      /\ phase = "reauditing" /\ listed = Directory /\ todo = {}
      /\ phase' \in {"captured", "failed"}
      /\ phase' = "captured" => first = second /\ first = copy
  BY DEF Compare, Audited
<1>2. Versioned' /\ Phases' /\ Audits'
  BY <1>1 DEF CaptureInv, Versioned, Phases, Audits, Capturing
<1>3. ASSUME phase' = "captured" PROVE SnapshotWasReal'
  <2>1. first = second /\ first = copy
    BY <1>1, <1>3
  <2>2. \E moment \in seen : Alike(copy, moment, {f \in File : copy[f] # 0})
    <3>1. PICK moment \in seen : \A f \in File : Exposed(f, moment)
      BY <1>1 DEF CaptureInv, Audits
    <3> QED BY <2>1, <3>1 DEF Exposed, Alike
  <2>3. ASSUME NEW d \in Directory
        PROVE  \E moment \in seen : Alike(copy, moment, {f \in File : DirectoryOf[f] = d})
    <3>1. PICK moment \in seen :
            \A f \in File : DirectoryOf[f] = d => Exposed(f, moment) /\ Collected(f, moment)
      BY <1>1 DEF CaptureInv, Audits
    <3> QED BY <1>1, <2>1, <3>1 DEF Exposed, Collected, Alike
  <2> QED BY <1>1, <2>2, <2>3 DEF SnapshotWasReal, Alike
<1> QED BY <1>2, <1>3 DEF CaptureInv, SnapshotWasReal

(* An edit gives a version no audit has read.                                *)
LEMMA EditStep ==
  ASSUME CaptureInv, NEW f \in File, Edit(f) \/ Remove(f)
  PROVE  CaptureInv'
<1>1. /\ UNCHANGED <<phase, listed, todo, first, copy, second>>
      /\ edits' = edits + 1
      /\ seen' = seen \cup {tree'}
      /\ \E version \in {0, edits + 2} : tree' = [tree EXCEPT ![f] = version]
      /\ phase \in Capturing
  BY DEF Edit, Remove
<1>2. PICK version \in {0, edits + 2} : tree' = [tree EXCEPT ![f] = version]
  BY <1>1
<1>3. \A g \in File : tree'[g] = IF g = f THEN version ELSE tree[g]
  BY <1>2 DEF CaptureInv, Versioned
<1>4. version \in Nat /\ \A g \in File : first[g] # 0 => first[g] # version
  BY DEF CaptureInv, Versioned
<1>5. Versioned'
  BY <1>1, <1>2, <1>3, <1>4 DEF CaptureInv, Versioned
<1>6. Phases' /\ SnapshotWasReal'
  BY <1>1 DEF CaptureInv, Phases, SnapshotWasReal, Capturing
<1>7. ASSUME NEW moment, NEW g \in File, Exposed(g, moment)
      PROVE  Exposed(g, moment)'
  BY <1>1, <1>3, <1>4, <1>7 DEF Exposed
<1>8. ASSUME NEW moment, NEW g \in File
      PROVE  /\ Collected(g, moment) => Collected(g, moment)'
             /\ Untouched(g) => Untouched(g)'
  BY <1>1 DEF Collected, Untouched
<1>9. Audits'
  <2>1. SUFFICES ASSUME phase = "reauditing" PROVE Audits'
    BY <1>1 DEF Audits
  <2>2. \A g \in File : DirectoryOf[g] \notin listed' => Untouched(g)'
    BY <1>1, <1>8, <2>1 DEF CaptureInv, Audits
  <2>3. \E moment \in seen' : \A g \in File : Exposed(g, moment)'
    BY <1>1, <1>7, <2>1 DEF CaptureInv, Audits
  <2>4. ASSUME NEW e \in listed'
        PROVE  \E moment \in seen' :
                 \A g \in File :
                   DirectoryOf[g] = e => Exposed(g, moment)' /\ Collected(g, moment)'
    <3>1. PICK moment \in seen :
            \A g \in File : DirectoryOf[g] = e => Exposed(g, moment) /\ Collected(g, moment)
      BY <1>1, <2>1 DEF CaptureInv, Audits
    <3> QED BY <1>1, <1>7, <1>8, <3>1
  <2> QED BY <2>2, <2>3, <2>4 DEF Audits
<1> QED BY <1>5, <1>6, <1>9 DEF CaptureInv

(* The invariant holds after every step. *)
LEMMA CaptureNext == CaptureInv /\ [Next]_vars => CaptureInv'
<1> SUFFICES ASSUME CaptureInv, [Next]_vars PROVE CaptureInv'
  OBVIOUS
<1>1. CASE Begin \/ BeginCopy \/ Fail
  BY <1>1, PhaseStep
<1>2. CASE BeginSecond
  BY <1>2, BeginSecondStep
<1>3. CASE Compare
  BY <1>3, CompareStep
<1>4. ASSUME NEW d \in Directory, List(d) PROVE CaptureInv'
  BY <1>4, ListStep
<1>5. ASSUME NEW f \in File, Read(f) PROVE CaptureInv'
  BY <1>5, ReadStep
<1>6. ASSUME NEW f \in File, Copy(f) PROVE CaptureInv'
  BY <1>6, CopyStep
<1>7. ASSUME NEW f \in File, Edit(f) \/ Remove(f) PROVE CaptureInv'
  BY <1>7, EditStep
<1>8. CASE UNCHANGED vars
  BY <1>8
  DEF vars, CaptureInv, Versioned, Phases, Audits, SnapshotWasReal, Alike, Exposed,
      Collected, Untouched
<1> QED BY <1>1, <1>2, <1>3, <1>4, <1>5, <1>6, <1>7, <1>8 DEF Next, Step

(* Whatever files a directory has and however often they are edited, what a  *)
(* capture accepts was there.                                                *)
THEOREM SnapshotReal == Spec => []SnapshotWasReal
<1>1. CaptureInv => SnapshotWasReal
  BY DEF CaptureInv
<1> QED BY CaptureInitially, CaptureNext, <1>1, PTL DEF Spec

=============================================================================
