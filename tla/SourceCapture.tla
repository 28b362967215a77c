--------------------------- MODULE SourceCapture ---------------------------
(***************************************************************************)
(* The capture of a local directory for analysis (materializer.ts): audit  *)
(* the tree, copy what was audited, audit the tree again, and accept the   *)
(* copy only if all three agree, while somebody edits the directory.       *)
(* An edited file gets a new version: contents do not come back.           *)
(***************************************************************************)
EXTENDS Naturals

CONSTANTS File, Directory,
          DirectoryOf,      \* [File -> Directory]
          MaxEdits          \* bound on the edits

VARIABLES
  tree,       \* version of each file of the source, 0 where there is none
  edits,
  seen,       \* the trees the source has had
  phase,
  listed,     \* directories the current audit has listed
  todo,       \* files it has listed and not read
  first,      \* what the first audit read
  copy,       \* the staging workspace
  second      \* what the second audit read

vars == <<tree, edits, seen, phase, listed, todo, first, copy, second>>

Versions == [File -> 0..(MaxEdits + 1)]

Empty == [f \in File |-> 0]

Capturing == {"auditing", "copying", "reauditing"}

CaptureTypeOK ==
  /\ tree \in Versions /\ first \in Versions /\ copy \in Versions /\ second \in Versions
  /\ edits \in 0..MaxEdits
  /\ seen \subseteq Versions /\ tree \in seen
  /\ phase \in {"idle", "captured", "failed"} \cup Capturing
  /\ listed \subseteq Directory
  /\ todo \subseteq File

Init ==
  /\ tree \in [File -> {0, 1}]
  /\ edits = 0
  /\ seen = {tree}
  /\ phase = "idle"
  /\ listed = {} /\ todo = {}
  /\ first = Empty /\ copy = Empty /\ second = Empty

Begin ==
  /\ phase = "idle"
  /\ phase' = "auditing"
  /\ UNCHANGED <<tree, edits, seen, listed, todo, first, copy, second>>

(* readDirectory, in either audit *)
List(d) ==
  /\ phase \in {"auditing", "reauditing"} /\ d \notin listed
  /\ listed' = listed \cup {d}
  /\ todo' = todo \cup {f \in File : DirectoryOf[f] = d /\ tree[f] # 0}
  /\ UNCHANGED <<tree, edits, seen, phase, first, copy, second>>

(* stat and digestRegularFile; a file that is gone fails the audit. *)
Read(f) ==
  /\ phase \in {"auditing", "reauditing"} /\ f \in todo
  /\ todo' = todo \ {f}
  /\ IF tree[f] = 0
       THEN phase' = "failed" /\ UNCHANGED <<first, second>>
       ELSE /\ UNCHANGED phase
            /\ \/ /\ phase = "auditing"
                  /\ first' = [first EXCEPT ![f] = tree[f]]
                  /\ UNCHANGED second
               \/ /\ phase = "reauditing"
                  /\ second' = [second EXCEPT ![f] = tree[f]]
                  /\ UNCHANGED first
  /\ UNCHANGED <<tree, edits, seen, listed, copy>>

Audited == listed = Directory /\ todo = {}

BeginCopy ==
  /\ phase = "auditing" /\ Audited
  /\ phase' = "copying"
  /\ UNCHANGED <<tree, edits, seen, listed, todo, first, copy, second>>

(* copyRegularFileTo: what it copied must be what was audited. *)
Copy(f) ==
  /\ phase = "copying" /\ first[f] # 0 /\ copy[f] = 0
  /\ IF tree[f] = first[f]
       THEN copy' = [copy EXCEPT ![f] = tree[f]] /\ UNCHANGED phase
       ELSE phase' = "failed" /\ UNCHANGED copy
  /\ UNCHANGED <<tree, edits, seen, listed, todo, first, second>>

BeginSecond ==
  /\ phase = "copying" /\ copy = first
  /\ phase' = "reauditing"
  /\ listed' = {}
  /\ UNCHANGED <<tree, edits, seen, todo, first, copy, second>>

(* Mutant: only the copy is compared with the first audit. *)
CompareStaged ==
  /\ phase = "reauditing" /\ Audited
  /\ phase' = IF first = copy THEN "captured" ELSE "failed"
  /\ UNCHANGED <<tree, edits, seen, listed, todo, first, copy, second>>

(* The audit of the staging workspace reads the copy itself. *)
Compare ==
  /\ phase = "reauditing" /\ Audited
  /\ phase' = IF first = second /\ first = copy THEN "captured" ELSE "failed"
  /\ UNCHANGED <<tree, edits, seen, listed, todo, first, copy, second>>

(* A limit, an unsafe entry, an error of the file system. *)
Fail ==
  /\ phase \in Capturing
  /\ phase' = "failed"
  /\ UNCHANGED <<tree, edits, seen, listed, todo, first, copy, second>>

(* Somebody writes, creates or removes a file.  What they do later does not  *)
(* reach the copy.                                                           *)
Edit(f) ==
  /\ phase \in Capturing /\ edits < MaxEdits
  /\ edits' = edits + 1
  /\ tree' = [tree EXCEPT ![f] = edits + 2]
  /\ seen' = seen \cup {tree'}
  /\ UNCHANGED <<phase, listed, todo, first, copy, second>>

Remove(f) ==
  /\ phase \in Capturing /\ edits < MaxEdits /\ tree[f] # 0
  /\ edits' = edits + 1
  /\ tree' = [tree EXCEPT ![f] = 0]
  /\ seen' = seen \cup {tree'}
  /\ UNCHANGED <<phase, listed, todo, first, copy, second>>

Step ==
  \/ Begin \/ BeginCopy \/ BeginSecond \/ Compare \/ Fail
  \/ \E d \in Directory : List(d)
  \/ \E f \in File : Read(f) \/ Copy(f)

Next == Step \/ \E f \in File : Edit(f) \/ Remove(f)

Spec == Init /\ [][Next]_vars

-----------------------------------------------------------------------------
(* Properties *)

Alike(left, right, files) == \A f \in files : left[f] = right[f]

(* What a capture accepts was there: all its files had their contents at one *)
(* moment, and each directory held exactly these files at one moment of its  *)
(* own.  The moments of two directories may differ, so the capture need not  *)
(* be a state of the whole tree.                                             *)
SnapshotWasReal ==
  phase = "captured" =>
    /\ \E moment \in seen : Alike(copy, moment, {f \in File : copy[f] # 0})
    /\ \A d \in Directory :
         \E moment \in seen : Alike(copy, moment, {f \in File : DirectoryOf[f] = d})

=============================================================================
