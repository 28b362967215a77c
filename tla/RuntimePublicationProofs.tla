--------------------- MODULE RuntimePublicationProofs ---------------------
(***************************************************************************)
(* What the publication of the prepared analyzer runtime keeps, for any    *)
(* number of publishers and inodes, killed processes and losses of power.  *)
(* The assumption is PublicationAssumption.                                *)
(*                                                                         *)
(* The inductive invariant speaks of every directory image a loss of power *)
(* may leave, not only of the current one: ImageOK says what holds of      *)
(* each, Control where scripts and helpers are, Working what the directory *)
(* looks like at each step of a publisher, and Images, HistoryOK and       *)
(* RanksOK how the images relate to one another and to the history.        *)
(***************************************************************************)
EXTENDS RuntimePublication, SequenceTheorems, TLAPS

-----------------------------------------------------------------------------
(* Scripts, helpers and the lock. *)

Phases == {"idle", "staging", "made", "staged", "copying", "building", "verifying",
           "publishing", "trap", "sweeping"} \cup Recovering \cup Exited
RecoverySteps == {"contents", "entry", "removed", "unlink", "unlinked"}
PublishSteps == {"flush", "prepare", "prepared", "exchange", "exchanged", "mark", "marked"}

(* The helper that does something has the lock, and its script waits for it. *)
Held ==
  \A p \in Publisher :
    /\ step[p] # "none" <=> lock = p
    /\ step[p] \in RecoverySteps => phase[p] \in Recovering
    /\ step[p] \in PublishSteps => phase[p] = "publishing"

Control ==
  /\ lock \in Publisher \cup {None}
  /\ phase \in [Publisher -> Phases]
  /\ step \in [Publisher -> {"none"} \cup RecoverySteps \cup PublishSteps]
  /\ source \in [Publisher -> Generation \cup {"partial", None}]
  /\ status \in [Publisher -> {"running", "published", "failed"}]
  /\ crashes \in 0..MaxCrashes /\ losses \in 0..MaxLosses
  /\ Held

(* How far a script has come: its stage is not made yet, it may have written *)
(* its journal, it may have exchanged the names.                             *)
Unstaged(p) == phase[p] \in {"idle", "opening", "staging"}
Later       == {"closing", "trap", "restoring", "sweeping"} \cup Exited
Wrote(p)    == phase[p] \in Later \/ step[p] \in {"prepared", "exchange", "exchanged", "mark", "marked"}
Swapped(p)  == phase[p] \in Later \/ step[p] \in {"exchanged", "mark", "marked"}

(* A step of p leaves the control of the others alone ... *)
OthersStay(p) ==
  \A q \in Publisher \ {p} :
    phase'[q] = phase[q] /\ step'[q] = step[q] /\ status'[q] = status[q]

(* ... and no script goes back. *)
Onward ==
  \A q \in Publisher :
    /\ Wrote(q) => Wrote(q)'
    /\ Swapped(q) => Swapped(q)'
    /\ Unstaged(q)' => Unstaged(q)

(* Only a script that sweeps, or has no stage yet, ends with "exited". *)
Ends(p) == phase'[p] = "exited" => phase[p] = "exited" \/ Unstaged(p)

(* A status of "published" is that of a script whose publish call returned. *)
Reports(p) == status'[p] = "published" => status[p] = "published" \/ phase[p] = "closing"

(* The helper of p ends well. *)
LEMMA DoneMoves ==
  ASSUME Control, NEW p \in Publisher, HelperDone(p),
         phase[p] \in Recovering \cup {"publishing"},
         UNCHANGED <<source, crashes, losses>>
  PROVE  /\ Control' /\ OthersStay(p) /\ Onward /\ Ends(p) /\ Reports(p)
         /\ step'[p] = "none"
         /\ \/ phase[p] = "opening" /\ phase'[p] = "staging"
            \/ phase[p] = "publishing" /\ phase'[p] = "closing"
            \/ phase[p] = "closing" /\ phase'[p] = "trap"
            \/ phase[p] = "restoring" /\ phase'[p] = "sweeping"
<1>1. /\ step' = [step EXCEPT ![p] = "none"]
      /\ lock' = IF lock = p THEN None ELSE lock
      /\ \E f \in Phases : phase' = [phase EXCEPT ![p] = f]
      /\ \E s \in {"running", "published", "failed"} :
           /\ status' = [status EXCEPT ![p] = s]
           /\ s = "published" => status[p] = "published" \/ phase[p] = "closing"
      /\ \/ phase[p] = "opening" /\ phase'[p] = "staging"
         \/ phase[p] = "publishing" /\ phase'[p] = "closing"
         \/ phase[p] = "closing" /\ phase'[p] = "trap"
         \/ phase[p] = "restoring" /\ phase'[p] = "sweeping"
  BY DEF HelperDone, Released, GoTo, Control, Recovering, Phases
<1>2. Control'
  <2>1. lock' \in Publisher \cup {None} /\ lock' # p
    BY <1>1, PublicationAssumption DEF Control
  <2>2. Held'
    <3>1. SUFFICES ASSUME NEW q \in Publisher
                   PROVE  /\ step'[q] # "none" <=> lock' = q
                          /\ step'[q] \in RecoverySteps => phase'[q] \in Recovering
                          /\ step'[q] \in PublishSteps => phase'[q] = "publishing"
      BY DEF Held
    <3>2. q # None
      BY PublicationAssumption
    <3>3. CASE q = p
      BY <1>1, <2>1, <3>3 DEF Control, RecoverySteps, PublishSteps
    <3>4. CASE q # p
      <4>1. step'[q] = step[q] /\ phase'[q] = phase[q] /\ (lock' = q <=> lock = q)
        BY <1>1, <3>2, <3>4 DEF Control
      <4> QED
        BY <4>1 DEF Control, Held
    <3> QED
      BY <3>3, <3>4
  <2> QED
    BY <1>1, <2>1, <2>2 DEF Control
<1>3. OthersStay(p)
  BY <1>1 DEF Control, OthersStay
<1>4. Onward
  <2>1. /\ (Wrote(p) => Wrote(p)') /\ (Swapped(p) => Swapped(p)') 
         /\ (Unstaged(p)' => Unstaged(p))
    BY <1>1 DEF Control, Held, Wrote, Swapped, Unstaged, Later, Exited, Recovering, PublishSteps
  <2> QED
    BY <1>3, <2>1 DEF OthersStay, Onward, Wrote, Swapped, Unstaged
<1> QED
  BY <1>1, <1>2, <1>3, <1>4 DEF Control, Ends, Reports, Unstaged, Exited

(* A command of the script of p fails. *)
LEMMA FailMoves ==
  ASSUME Control, NEW p \in Publisher, ScriptFails(p),
         phase[p] \notin {"idle", "trap"} \cup Exited,
         source' = source, losses' = losses, crashes' \in 0..MaxCrashes
  PROVE  /\ Control' /\ OthersStay(p) /\ Onward /\ Ends(p) /\ Reports(p)
         /\ step'[p] = "none"
         /\ phase'[p] \in {"exited", "stranded", "unclean", "trap"}
<1>1. /\ step' = [step EXCEPT ![p] = "none"]
      /\ lock' = IF lock = p THEN None ELSE lock
      /\ \E f \in {"exited", "stranded", "unclean", "trap"} :
           /\ phase' = [phase EXCEPT ![p] = f]
           /\ f = "exited" => phase[p] \in {"opening", "staging"}
      /\ \E s \in {"running", "published", "failed"} :
           /\ status' = [status EXCEPT ![p] = s]
           /\ s = "published" => status[p] = "published"
  BY DEF ScriptFails, Released, GoTo, Control, Exited, Phases
<1>2. Control'
  <2>1. lock' \in Publisher \cup {None} /\ lock' # p
    BY <1>1, PublicationAssumption DEF Control
  <2>2. Held'
    <3>1. SUFFICES ASSUME NEW q \in Publisher
                   PROVE  /\ step'[q] # "none" <=> lock' = q
                          /\ step'[q] \in RecoverySteps => phase'[q] \in Recovering
                          /\ step'[q] \in PublishSteps => phase'[q] = "publishing"
      BY DEF Held
    <3>2. q # None
      BY PublicationAssumption
    <3>3. CASE q = p
      BY <1>1, <2>1, <3>3 DEF Control, RecoverySteps, PublishSteps
    <3>4. CASE q # p
      <4>1. step'[q] = step[q] /\ phase'[q] = phase[q] /\ (lock' = q <=> lock = q)
        BY <1>1, <3>2, <3>4 DEF Control
      <4> QED
        BY <4>1 DEF Control, Held
    <3> QED
      BY <3>3, <3>4
  <2> QED
    BY <1>1, <2>1, <2>2 DEF Control, Phases, Exited
<1>3. OthersStay(p)
  BY <1>1 DEF Control, OthersStay
<1>4. Onward
  <2>1. /\ (Wrote(p) => Wrote(p)') /\ (Swapped(p) => Swapped(p)') 
         /\ (Unstaged(p)' => Unstaged(p))
    BY <1>1 DEF Control, Held, Wrote, Swapped, Unstaged, Later, Exited, Recovering, PublishSteps
  <2> QED
    BY <1>3, <2>1 DEF OthersStay, Onward, Wrote, Swapped, Unstaged
<1> QED
  BY <1>1, <1>2, <1>3, <1>4 DEF Control, Ends, Reports, Unstaged, Exited

(* The helper of p, which has the lock, goes on to another step. *)
LEMMA GoOn ==
  ASSUME Control, NEW p \in Publisher, NEW s, GoTo(p, s),
         step[p] # "none",
         \/ step[p] \in RecoverySteps /\ s \in RecoverySteps
         \/ step[p] \in PublishSteps /\ s \in PublishSteps,
         step[p] \in {"prepared", "exchange", "exchanged", "mark", "marked"} =>
           s \in {"exchange", "exchanged", "mark", "marked"},
         step[p] \in {"exchanged", "mark", "marked"} => s \in {"mark", "marked"},
         UNCHANGED <<lock, phase, source, status, crashes, losses>>
  PROVE  /\ Control' /\ OthersStay(p) /\ Onward /\ Ends(p) /\ Reports(p)
         /\ step'[p] = s /\ phase' = phase
<1>1. step' = [step EXCEPT ![p] = s]
  BY DEF GoTo
<1>2. Control'
  BY <1>1 DEF Control, Held, RecoverySteps, PublishSteps
<1> QED
  BY <1>1, <1>2 DEF Control, OthersStay, Onward, Ends, Reports, Wrote, Swapped, Unstaged, Held,
     RecoverySteps, PublishSteps

(* The script of p goes on by itself. *)
LEMMA ScriptMoves ==
  ASSUME Control, NEW p \in Publisher, NEW f \in Phases,
         phase' = [phase EXCEPT ![p] = f], step[p] = "none",
         \/ phase[p] = "idle" /\ f = "opening"
         \/ phase[p] = "made" /\ f = "staged"
         \/ phase[p] = "staging" /\ f = "made"
         \/ phase[p] = "staged" /\ f = "copying"
         \/ phase[p] = "copying" /\ f = "building"
         \/ phase[p] = "building" /\ f = "verifying"
         \/ phase[p] = "verifying" /\ f = "publishing"
         \/ phase[p] = "trap" /\ f \in {"sweeping", "restoring"}
         \/ phase[p] = "sweeping" /\ f = "exited",
         source' \in [Publisher -> Generation \cup {"partial", None}],
         UNCHANGED <<lock, step, status, crashes, losses>>
  PROVE  /\ Control' /\ OthersStay(p) /\ Onward /\ Reports(p)
         /\ f # "exited" => Ends(p)
         /\ phase'[p] = f /\ step' = step
<1>1. Control'
  BY DEF Control, Held, RecoverySteps, PublishSteps, Recovering
<1> QED
  BY <1>1 DEF Control, OthersStay, Onward, Ends, Reports, Wrote, Swapped, Unstaged, Later,
     Exited

(* The script of p is killed. *)
LEMMA KillMoves ==
  ASSUME Control, NEW p \in Publisher, Kill(p)
  PROVE  /\ Control' /\ OthersStay(p) /\ Onward /\ Ends(p) /\ Reports(p)
         /\ step'[p] = "none" /\ phase'[p] = "killed"
<1>1. /\ step' = [step EXCEPT ![p] = "none"]
      /\ lock' = IF lock = p THEN None ELSE lock
      /\ phase' = [phase EXCEPT ![p] = "killed"]
      /\ UNCHANGED <<source, status, losses>>
      /\ crashes' \in 0..MaxCrashes
  BY PublicationAssumption DEF Kill, Released, GoTo, Control
<1>2. Control'
  <2>1. lock' \in Publisher \cup {None} /\ lock' # p
    BY <1>1, PublicationAssumption DEF Control
  <2>2. Held'
    <3>1. SUFFICES ASSUME NEW q \in Publisher
                   PROVE  /\ step'[q] # "none" <=> lock' = q
                          /\ step'[q] \in RecoverySteps => phase'[q] \in Recovering
                          /\ step'[q] \in PublishSteps => phase'[q] = "publishing"
      BY DEF Held
    <3>2. q # None
      BY PublicationAssumption
    <3>3. CASE q = p
      BY <1>1, <2>1, <3>3 DEF Control, RecoverySteps, PublishSteps
    <3>4. CASE q # p
      <4>1. step'[q] = step[q] /\ phase'[q] = phase[q] /\ (lock' = q <=> lock = q)
        BY <1>1, <3>2, <3>4 DEF Control
      <4> QED
        BY <4>1 DEF Control, Held
    <3> QED
      BY <3>3, <3>4
  <2> QED
    BY <1>1, <2>1, <2>2 DEF Control, Phases, Exited
<1> QED
  BY <1>1, <1>2 DEF Control, OthersStay, Onward, Ends, Reports, Wrote, Swapped, Unstaged,
     Later, Exited

(* A loss of power ends every helper and kills every script that runs. *)
LEMMA LossMoves ==
  ASSUME Control, PowerLoss
  PROVE  /\ Control' /\ Onward
         /\ \A q \in Publisher :
              /\ step'[q] = "none"
              /\ phase'[q] \in {"idle"} \cup Exited
              /\ phase'[q] = "exited" => phase[q] = "exited"
              /\ status'[q] = status[q]
<1>1. /\ step' = [q \in Publisher |-> "none"]
      /\ lock' = None
      /\ phase' = [q \in Publisher |-> IF Running(q) THEN "killed" ELSE phase[q]]
      /\ UNCHANGED <<source, status, crashes>>
      /\ losses' \in 0..MaxLosses
  BY PublicationAssumption DEF PowerLoss, Control
<1>2. Control'
  BY <1>1, PublicationAssumption DEF Control, Held, Phases, Exited, RecoverySteps, PublishSteps
<1>3. \A q \in Publisher :
        /\ step'[q] = "none"
        /\ phase'[q] \in {"idle"} \cup Exited
        /\ phase'[q] = "exited" => phase[q] = "exited"
        /\ status'[q] = status[q]
        /\ phase[q] = "idle" <=> phase'[q] = "idle"
  BY <1>1 DEF Control, Running, Exited
<1>4. Onward
  <2>1. SUFFICES ASSUME NEW q \in Publisher
                 PROVE  /\ Wrote(q) => Wrote(q)'
                        /\ Swapped(q) => Swapped(q)'
                        /\ Unstaged(q)' => Unstaged(q)
    BY DEF Onward
  <2>2. phase[q] = "idle" => step[q] = "none"
    BY DEF Control, Held, Recovering, RecoverySteps, PublishSteps
  <2> QED
    BY <1>3, <2>2 DEF Wrote, Swapped, Unstaged, Later, Exited
<1> QED
  BY <1>2, <1>3, <1>4

-----------------------------------------------------------------------------
(* The images of the parent directory. *)

Disk == [runtime : Inode, stage : [Publisher -> Inode \cup {None}],
         tree : [Inode -> Generation \cup {"partial", "free"}],
         journal : {None} \cup Journal]

JournalOf(d, p) == d.journal # None /\ d.journal.stage = p

(* A stage whose script ended is that of a journal that recovery can finish. *)
Left(d, p) == d.stage[p] # None => JournalOf(d, p) /\ Recoverable(d)

(* The names lead to different inodes, none of them free.                    *)
NamesOK(d) ==
  /\ \A p \in Publisher : d.stage[p] # d.runtime
  /\ \A p, q \in Publisher : d.stage[p] = d.stage[q] => p = q \/ d.stage[p] = None
  /\ \A p \in Publisher : d.stage[p] # None => d.tree[d.stage[p]] # "free"

ImageOK(d) ==
  /\ d \in Disk
  /\ NamesOK(d)
  /\ Authority(d) \in synced
  /\ Authority(d) \in Range(history)
  /\ d.journal # None => Wrote(d.journal.stage)
  /\ d.journal # None /\ d.journal.state = "exchanged" =>
       d.runtime = d.journal.candidate /\ d.stage[d.journal.stage] \in {d.journal.old, None}
  /\ \A p \in Publisher : Unstaged(p) => d.stage[p] = None
  /\ \A p \in Publisher : phase[p] = "exited" => Left(d, p)

(* The images of a directory whose journal says "exchanged", or that has no  *)
(* stage of some script, are no worse; and one replacement is not durable.   *)
Vanished ==
  \A p \in Publisher :
    disk.stage[p] = None /\ ~JournalOf(disk, p) => \A image \in survivors : Left(image, p)

Marked ==
  disk.journal # None /\ disk.journal.state = "exchanged" =>
    \A image \in survivors : JournalOf(image, disk.journal.stage) /\ Recoverable(image)

TwoAtMost ==
  \A x, y \in survivors :
    Authority(x) # Authority(disk) /\ Authority(y) # Authority(disk) => Authority(x) = Authority(y)

Images ==
  /\ disk \in survivors
  /\ synced \subseteq Generation
  /\ \A image \in survivors : ImageOK(image)
  /\ Vanished /\ Marked /\ TwoAtMost

(* What the directory looks like while p makes its stage ... *)
Making(p) ==
  /\ phase[p] \in {"made", "staged", "copying", "building", "verifying", "publishing"}
     /\ step[p] \in {"none", "flush", "prepare", "prepared", "exchange"}
       => disk.stage[p] # None
  /\ phase[p] = "publishing"
     /\ step[p] \in {"none", "flush", "prepare", "prepared", "exchange"}
       => disk.tree[disk.stage[p]] = p

(* ... while its helper publishes it ... *)
Entry(p, state, old, candidate) ==
  [stage |-> p, state |-> state, old |-> old, candidate |-> candidate]

Publishing(p) ==
  /\ step[p] \in {"flush", "prepare"} => disk.journal = None
  /\ step[p] \in {"prepare", "prepared", "exchange"} =>
       /\ p \in synced
       /\ \A image \in survivors : Authority(image) = Authority(disk)
  /\ step[p] \in {"prepared", "exchange"} =>
       disk.journal = Entry(p, "prepared", disk.runtime, disk.stage[p])
  /\ step[p] \in {"exchanged", "mark"} =>
       disk.journal = Entry(p, "prepared", disk.stage[p], disk.runtime)
  /\ step[p] = "marked" =>
       disk.journal = Entry(p, "exchanged", disk.stage[p], disk.runtime)
  /\ step[p] \in {"exchanged", "mark", "marked"} => Authority(disk) = p /\ disk.stage[p] # None
  /\ step[p] \in {"exchange", "exchanged", "mark", "marked"} =>
       \A image \in survivors : JournalOf(image, p) /\ PairMatches(image)

(* ... and while it settles the journal of anybody. *)
Settling(p) ==
  /\ step[p] \in {"contents", "entry", "removed", "unlink"} => disk.journal # None
  /\ step[p] \in {"contents", "entry"} => disk.stage[disk.journal.stage] # None
  /\ step[p] \in {"removed", "unlink"} => disk.stage[disk.journal.stage] = None
  /\ step[p] = "unlink" => \A image \in survivors : Left(image, disk.journal.stage)
  /\ step[p] = "unlinked" => disk.journal = None
  /\ phase[p] = "sweeping" => ~JournalOf(disk, p)

Works(p) == Making(p) /\ Publishing(p) /\ Settling(p)

Working == \A p \in Publisher : Works(p)

(* A generation becomes authoritative once, by the exchange of its publisher.*)
HistoryOK ==
  /\ history \in Seq(Generation) /\ IsInjective(history)
  /\ \A p \in Publisher : p \in Range(history) => Swapped(p)

(* What a publisher reported outlasts every loss of power.                   *)
RanksOK ==
  \A p \in Publisher :
    phase[p] = "closing" \/ status[p] = "published" =>
      /\ p \in Range(history)
      /\ \A image \in survivors : Rank(Authority(image)) >= Rank(p)

PublicationInv == Control /\ Images /\ Working /\ HistoryOK /\ RanksOK

-----------------------------------------------------------------------------
(* What every step keeps that does not disturb it. *)

(* An image stays what it was while its inode is flushed, the history grows and *)
(* scripts move on.                                                          *)
LEMMA ImageStays ==
  ASSUME NEW d, ImageOK(d), Authority(d) \in synced', Range(history) \subseteq Range(history)',
         Onward,
         \A q \in Publisher : phase'[q] = "exited" =>
           phase[q] = "exited" \/ Unstaged(q) \/ Left(d, q)
  PROVE  ImageOK(d)'
<1>1. d.journal # None => d.journal.stage \in Publisher
  BY DEF ImageOK, Disk, Journal
<1>2. d.journal # None => Wrote(d.journal.stage)'
  <2> HAVE d.journal # None
  <2> DEFINE r == d.journal.stage
  <2>1. Wrote(r) /\ r \in Publisher
    BY <1>1 DEF ImageOK
  <2> HIDE DEF r
  <2>2. Wrote(r)'
    BY <2>1 DEF Onward
  <2> QED
    BY <2>2 DEF r
<1>3. \A q \in Publisher : phase'[q] = "exited" => Left(d, q)
  BY DEF ImageOK, Left
<1> QED
  BY <1>2, <1>3 DEF ImageOK, Onward

(* The names and what they lead to are the same, or only less may come back. *)
LEMMA ImagesStay ==
  ASSUME Images, disk' = disk, survivors' \subseteq survivors, disk \in survivors',
         synced \subseteq synced', synced' \subseteq Generation, history' = history, Onward,
         \A q \in Publisher : phase'[q] = "exited" =>
           phase[q] = "exited" \/ Unstaged(q) \/ \A image \in survivors : Left(image, q)
  PROVE  Images'
<1>1. ASSUME NEW d \in survivors' PROVE ImageOK(d)'
  <2>1. ImageOK(d)
    BY <1>1 DEF Images
  <2>2. Authority(d) \in synced'
    BY <2>1 DEF ImageOK
  <2>3. \A q \in Publisher : phase'[q] = "exited" =>
          phase[q] = "exited" \/ Unstaged(q) \/ Left(d, q)
    BY <1>1
  <2> QED
    BY <2>1, <2>2, <2>3, ImageStays
<1>2. Vanished'
  BY DEF Images, Vanished
<1>3. Marked'
  BY DEF Images, Marked
<1>4. TwoAtMost'
  BY DEF Images, TwoAtMost
<1> QED
  BY <1>1, <1>2, <1>3, <1>4 DEF Images

(* Ranks are those of the history, which did not change.                     *)
LEMMA SameRanks ==
  ASSUME history' = history,
         \A q \in Publisher : phase'[q] = "closing" \/ status'[q] = "published" =>
           q \in Range(history) /\ \A image \in survivors' : Rank(Authority(image)) >= Rank(q)
  PROVE  RanksOK'
<1>1. \A g : (CHOOSE n \in DOMAIN history' : history'[n] = g) = Rank(g)
  BY DEF Rank
<1> QED
  BY <1>1 DEF RanksOK, Rank

(* No generation becomes authoritative, and no publisher reports one. *)
LEMMA RanksStay ==
  ASSUME HistoryOK, RanksOK, history' = history, Onward,
         \A x \in survivors' : \E y \in survivors : Authority(x) = Authority(y),
         \A q \in Publisher : phase'[q] = "closing" \/ status'[q] = "published" =>
           phase[q] = "closing" \/ status[q] = "published"
  PROVE  HistoryOK' /\ RanksOK'
<1>1. HistoryOK'
  BY DEF HistoryOK, Onward
<1>2. ASSUME NEW q \in Publisher, phase'[q] = "closing" \/ status'[q] = "published"
      PROVE  q \in Range(history) /\ \A image \in survivors' : Rank(Authority(image)) >= Rank(q)
  BY <1>2 DEF RanksOK
<1> QED
  BY <1>1, <1>2, SameRanks

-----------------------------------------------------------------------------
(* How directory images change. *)

(* What the fields of an image are.                                          *)
LEMMA DiskShape ==
  ASSUME NEW d \in Disk
  PROVE  /\ d.runtime \in Inode
         /\ d.stage \in [Publisher -> Inode \cup {None}]
         /\ d.tree \in [Inode -> Generation \cup {"partial", "free"}]
         /\ d.journal # None =>
              /\ d.journal \in Journal
              /\ d.journal.stage \in Publisher
              /\ d.journal.state \in {"prepared", "exchanged"}
              /\ d.journal.old \in Inode /\ d.journal.candidate \in Inode
  BY DEF Disk, Journal

(* Other files in the same directories: the same names, none of them free. *)
SameNames(d, e) ==
  /\ e \in Disk
  /\ e.runtime = d.runtime /\ e.stage = d.stage /\ e.journal = d.journal
  /\ Authority(e) = Authority(d)
  /\ \A p \in Publisher : d.stage[p] # None /\ d.tree[d.stage[p]] # "free" =>
       e.tree[d.stage[p]] # "free"

(* Nothing that is said of the names of an image depends on other files.     *)
LEMMA SameNamesKeep ==
  ASSUME NEW d, NEW e, SameNames(d, e)
  PROVE  /\ \A p : (JournalOf(e, p) <=> JournalOf(d, p)) /\ (Left(e, p) <=> Left(d, p))
         /\ PairMatches(e) <=> PairMatches(d)
         /\ Recoverable(e) <=> Recoverable(d)
         /\ ImageOK(d) => ImageOK(e)
<1>1. /\ PairMatches(e) <=> PairMatches(d)
      /\ OnlyJournalLeft(e) <=> OnlyJournalLeft(d)
  BY DEF SameNames, PairMatches, OnlyJournalLeft
<1>2. Recoverable(e) <=> Recoverable(d)
  BY <1>1 DEF Recoverable
<1>3. \A p : (JournalOf(e, p) <=> JournalOf(d, p)) /\ (Left(e, p) <=> Left(d, p))
  BY <1>2 DEF SameNames, JournalOf, Left
<1>4. ASSUME ImageOK(d) PROVE ImageOK(e)
  <2>1. NamesOK(e)
    BY <1>4 DEF ImageOK, NamesOK, SameNames
  <2> QED
    BY <2>1, <1>3, <1>4 DEF ImageOK, SameNames
<1> QED
  BY <1>1, <1>2, <1>3, <1>4

(* The files of a stage are removed or built. *)
LEMMA StageChanges ==
  ASSUME NEW d \in Disk, NamesOK(d), NEW q \in Publisher, d.stage[q] # None,
         NEW tree \in Generation \cup {"partial"}
  PROVE  LET e == [d EXCEPT !.tree[d.stage[q]] = tree] IN
           /\ SameNames(d, e)
           /\ e.tree[d.stage[q]] = tree
           /\ \A i \in Inode \ {d.stage[q]} : e.tree[i] = d.tree[i]
<1>1. d.stage[q] \in Inode /\ d.stage[q] # d.runtime /\ d.runtime \in Inode
  BY DiskShape DEF NamesOK
<1> DEFINE e == [d EXCEPT !.tree[d.stage[q]] = tree]
<1>2. /\ e.runtime = d.runtime /\ e.stage = d.stage /\ e.journal = d.journal
      /\ e.tree = [d.tree EXCEPT ![d.stage[q]] = tree]
  BY DEF Disk
<1>3. e.tree \in [Inode -> Generation \cup {"partial", "free"}]
  BY <1>1, <1>2, DiskShape
<1>4. e \in Disk
  BY <1>2, <1>3 DEF Disk
<1>5. /\ e.tree[d.stage[q]] = tree
      /\ \A i \in Inode \ {d.stage[q]} : e.tree[i] = d.tree[i]
  BY <1>1, <1>2, DiskShape
<1>6. Authority(e) = Authority(d)
  BY <1>1, <1>2, <1>5 DEF Authority
<1>7. tree # "free"
  BY PublicationAssumption DEF Generation
<1> HIDE DEF e
<1>8. SameNames(d, e)
  <2>1. ASSUME NEW r \in Publisher, d.stage[r] # None, d.tree[d.stage[r]] # "free"
        PROVE  e.tree[d.stage[r]] # "free"
    BY <2>1, <1>5, <1>7, DiskShape
  <2> QED
    BY <2>1, <1>2, <1>4, <1>6 DEF SameNames
<1> QED
  BY <1>5, <1>8 DEF e

(* The entry of a stage is removed and its inode is free. *)
LEMMA StageGoes ==
  ASSUME NEW d \in Disk, NamesOK(d), NEW q \in Publisher, d.stage[q] # None
  PROVE  LET e == [d EXCEPT !.tree[d.stage[q]] = "free", !.stage[q] = None] IN
           /\ e \in Disk /\ NamesOK(e) /\ Authority(e) = Authority(d)
           /\ e.runtime = d.runtime /\ e.journal = d.journal /\ e.stage[q] = None
           /\ \A r \in Publisher \ {q} :
                /\ e.stage[r] = d.stage[r]
                /\ d.stage[r] # None => e.tree[d.stage[r]] = d.tree[d.stage[r]]
<1>1. d.stage[q] \in Inode /\ d.stage[q] # d.runtime /\ d.runtime \in Inode /\ None \notin Inode
  BY DiskShape, PublicationAssumption DEF NamesOK
<1> DEFINE e == [d EXCEPT !.tree[d.stage[q]] = "free", !.stage[q] = None]
<1>2. /\ e.runtime = d.runtime /\ e.journal = d.journal
      /\ e.stage = [d.stage EXCEPT ![q] = None]
      /\ e.tree = [d.tree EXCEPT ![d.stage[q]] = "free"]
  BY DEF Disk
<1>3. /\ e.tree \in [Inode -> Generation \cup {"partial", "free"}]
      /\ e.stage \in [Publisher -> Inode \cup {None}]
  BY <1>1, <1>2, DiskShape
<1>4. e \in Disk
  BY <1>2, <1>3 DEF Disk
<1>5. /\ e.stage[q] = None
      /\ \A r \in Publisher \ {q} : e.stage[r] = d.stage[r]
      /\ \A i \in Inode \ {d.stage[q]} : e.tree[i] = d.tree[i]
  BY <1>1, <1>2, DiskShape
<1> HIDE DEF e
<1>6. Authority(e) = Authority(d)
  BY <1>1, <1>2, <1>5 DEF Authority
<1>7. \A r \in Publisher \ {q} : d.stage[r] # None => e.tree[d.stage[r]] = d.tree[d.stage[r]]
  <2>1. SUFFICES ASSUME NEW r \in Publisher \ {q}, d.stage[r] # None
                 PROVE  e.tree[d.stage[r]] = d.tree[d.stage[r]]
    OBVIOUS
  <2>2. d.stage[r] \in Inode \ {d.stage[q]}
    BY <2>1, DiskShape DEF NamesOK
  <2> QED
    BY <2>2, <1>5
<1>8. NamesOK(e)
  BY <1>1, <1>2, <1>5, <1>7 DEF NamesOK
<1> QED
  BY <1>2, <1>4, <1>5, <1>6, <1>7, <1>8 DEF e

(* The journal is replaced or removed. *)
LEMMA JournalChanges ==
  ASSUME NEW d \in Disk, NamesOK(d), NEW j \in {None} \cup Journal
  PROVE  LET e == [d EXCEPT !.journal = j] IN
           /\ e \in Disk /\ NamesOK(e) /\ Authority(e) = Authority(d)
           /\ e.runtime = d.runtime /\ e.stage = d.stage /\ e.tree = d.tree /\ e.journal = j
  BY DEF Disk, NamesOK, Authority

(* The two names change places. *)
LEMMA NamesExchanged ==
  ASSUME NEW d \in Disk, NamesOK(d), d.tree[d.runtime] # "free",
         NEW p \in Publisher, d.stage[p] # None
  PROVE  LET e == [d EXCEPT !.runtime = d.stage[p], !.stage[p] = d.runtime] IN
           /\ e \in Disk /\ NamesOK(e)
           /\ e.runtime = d.stage[p] /\ e.stage[p] = d.runtime
           /\ \A r \in Publisher \ {p} : e.stage[r] = d.stage[r]
           /\ e.tree = d.tree /\ e.journal = d.journal
<1>1. d.stage[p] \in Inode /\ d.stage[p] # d.runtime /\ d.runtime \in Inode /\ None \notin Inode
  BY DiskShape, PublicationAssumption DEF NamesOK
<1> DEFINE e == [d EXCEPT !.runtime = d.stage[p], !.stage[p] = d.runtime]
<1>2. /\ e.runtime = d.stage[p] /\ e.tree = d.tree /\ e.journal = d.journal
      /\ e.stage = [d.stage EXCEPT ![p] = d.runtime]
  BY DEF Disk
<1>3. e.stage \in [Publisher -> Inode \cup {None}]
  BY <1>1, <1>2, DiskShape
<1>4. e \in Disk
  BY <1>1, <1>2, <1>3 DEF Disk
<1>5. e.stage[p] = d.runtime /\ \A r \in Publisher \ {p} : e.stage[r] = d.stage[r]
  BY <1>1, <1>2, DiskShape
<1> HIDE DEF e
<1>6. NamesOK(e)
  BY <1>1, <1>2, <1>5 DEF NamesOK
<1> QED
  BY <1>2, <1>4, <1>5, <1>6 DEF e

(* A free inode becomes a stage. *)
WithStage(d, p, i) == [d EXCEPT !.stage[p] = i, !.tree[i] = "partial"]

(* The new stage is nobody's, and the authoritative tree is untouched.       *)
LEMMA StageComes ==
  ASSUME NEW d \in Disk, NamesOK(d), d.tree[d.runtime] # "free",
         NEW p \in Publisher, d.stage[p] = None, NEW i \in Inode, d.tree[i] = "free",
         NEW e, e = WithStage(d, p, i)
  PROVE  /\ e \in Disk /\ NamesOK(e) /\ Authority(e) = Authority(d)
         /\ e.runtime = d.runtime /\ e.journal = d.journal /\ e.stage[p] = i
         /\ d.runtime # i
         /\ \A r \in Publisher \ {p} :
              /\ e.stage[r] = d.stage[r] /\ d.stage[r] # i
              /\ d.stage[r] # None => e.tree[d.stage[r]] = d.tree[d.stage[r]]
<1>1. /\ d.runtime \in Inode /\ d.runtime # i /\ None \notin Inode
      /\ \A r \in Publisher : d.stage[r] # i
  BY DiskShape, PublicationAssumption DEF NamesOK
<1>2. /\ e.runtime = d.runtime /\ e.journal = d.journal
      /\ e.stage = [d.stage EXCEPT ![p] = i]
      /\ e.tree = [d.tree EXCEPT ![i] = "partial"]
  BY DEF Disk, WithStage
<1>3. /\ e.tree \in [Inode -> Generation \cup {"partial", "free"}]
      /\ e.stage \in [Publisher -> Inode \cup {None}]
  BY <1>1, <1>2, DiskShape
<1>4. e \in Disk
  BY <1>2, <1>3 DEF Disk, WithStage
<1>5. /\ e.stage[p] = i /\ e.tree[i] = "partial"
      /\ \A r \in Publisher \ {p} : e.stage[r] = d.stage[r]
      /\ \A k \in Inode \ {i} : e.tree[k] = d.tree[k]
  BY <1>1, <1>2, DiskShape
<1>6. Authority(e) = Authority(d)
  BY <1>1, <1>2, <1>5 DEF Authority
<1>7. \A r \in Publisher \ {p} : d.stage[r] # None => e.tree[d.stage[r]] = d.tree[d.stage[r]]
  BY <1>1, <1>5, DiskShape
<1>8. NamesOK(e)
  BY <1>1, <1>2, <1>5, <1>7 DEF NamesOK
<1> QED
  BY <1>1, <1>2, <1>4, <1>5, <1>6, <1>7, <1>8

-----------------------------------------------------------------------------
(* What a step leaves to the publishers that did not take it. *)

(* The directory stays as it is, or becomes durable.                         *)
LEMMA OthersWork ==
  ASSUME NEW q \in Publisher, Works(q), phase'[q] = phase[q], step'[q] = step[q],
         disk' = disk, survivors' \subseteq survivors, synced \subseteq synced'
  PROVE  Works(q)'
<1>1. Making(q)'
  BY DEF Works, Making
<1>2. Publishing(q)'
  BY DEF Works, Publishing
<1>3. Settling(q)'
  BY DEF Works, Settling, JournalOf
<1> QED
  BY <1>1, <1>2, <1>3 DEF Works

(* Another has the lock: the helper of q waits, if it runs. *)
LEMMA OthersWait ==
  ASSUME NEW q \in Publisher, Works(q), phase'[q] = phase[q],
         step[q] = "none", step'[q] = "none",
         phase[q] \in {"made", "staged", "copying", "building", "verifying", "publishing"} =>
           disk'.stage[q] = disk.stage[q] /\ disk'.tree[disk.stage[q]] = disk.tree[disk.stage[q]],
         JournalOf(disk', q) => JournalOf(disk, q)
  PROVE  Works(q)'
<1>1. Making(q)'
  BY DEF Works, Making
<1>2. Publishing(q)'
  BY DEF Works, Publishing
<1>3. Settling(q)'
  BY DEF Works, Settling, JournalOf
<1> QED
  BY <1>1, <1>2, <1>3 DEF Works

(* While one helper has the lock no other does anything.                     *)
LEMMA OneHolds ==
  ASSUME Control, NEW p \in Publisher, step[p] # "none"
  PROVE  \A q \in Publisher \ {p} : step[q] = "none"
BY DEF Control, Held

(* The directory stays as it is, or everything in it becomes durable. *)
LEMMA SameDirectory ==
  ASSUME PublicationInv, NEW p \in Publisher,
         Control', OthersStay(p), Onward, Reports(p),
         Ends(p) \/ \A image \in survivors : Left(image, p),
         disk' = disk, survivors' \subseteq survivors, disk \in survivors',
         synced \subseteq synced', synced' \subseteq Generation, history' = history,
         phase'[p] = "closing" => phase[p] = "closing",
         Works(p)'
  PROVE  PublicationInv'
<1>1. Images'
  BY ImagesStay DEF PublicationInv, OthersStay, Ends
<1>2. Working'
  <2>1. ASSUME NEW q \in Publisher \ {p} PROVE Works(q)'
    BY <2>1, OthersWork DEF PublicationInv, Working, OthersStay
  <2> QED
    BY <2>1 DEF Working
<1>3. HistoryOK' /\ RanksOK'
  <2>1. ASSUME NEW q \in Publisher, phase'[q] = "closing" \/ status'[q] = "published"
        PROVE  phase[q] = "closing" \/ status[q] = "published"
    BY <2>1 DEF OthersStay, Reports
  <2> QED
    BY <2>1, RanksStay DEF PublicationInv
<1> QED
  BY <1>1, <1>2, <1>3 DEF PublicationInv

(* The same when the helper of p is not at work afterwards. *)
LEMMA HelperEnded ==
  ASSUME PublicationInv, NEW p \in Publisher,
         Control', OthersStay(p), Onward, Ends(p), Reports(p), step'[p] = "none",
         \/ phase'[p] \in {"opening", "staging", "trap", "restoring"} \cup Exited
         \/ phase'[p] = "sweeping" /\ disk.journal = None,
         disk' = disk, survivors' \subseteq survivors, disk \in survivors',
         synced' = synced, history' = history
  PROVE  PublicationInv'
<1>1. Works(p)'
  BY DEF Works, Making, Publishing, Settling, JournalOf, Exited
<1>2. synced' \subseteq Generation /\ synced \subseteq synced'
  BY DEF PublicationInv, Images
<1> QED
  BY <1>1, <1>2, SameDirectory DEF Exited

-----------------------------------------------------------------------------
(* The steps that only read or flush the directory. *)

(* The script is started.                                                    *)
LEMMA StartKeeps ==
  ASSUME PublicationInv, NEW p \in Publisher, Start(p)
  PROVE  PublicationInv'
<1>1. step[p] = "none"
  BY DEF PublicationInv, Control, Held, Start, Recovering, RecoverySteps, PublishSteps
<1>2. /\ Control' /\ OthersStay(p) /\ Onward /\ Reports(p) /\ Ends(p)
      /\ phase'[p] = "opening" /\ step' = step
  BY <1>1, ScriptMoves DEF PublicationInv, Control, Start, Phases, Recovering
<1> QED
  BY <1>1, <1>2, HelperEnded DEF Start, PublicationInv, Images

(* recover() takes the lock and finds no journal, one it can settle, or fails. *)
LEMMA RecoverKeeps ==
  ASSUME PublicationInv, NEW p \in Publisher, Recover(p)
  PROVE  PublicationInv'
<1> USE DEF PublicationInv
<1>1. CASE disk.journal = None /\ HelperDone(p)
  <2>1. /\ Control' /\ OthersStay(p) /\ Onward /\ Ends(p) /\ Reports(p)
        /\ step'[p] = "none"
        /\ phase'[p] \in {"staging", "trap", "sweeping"}
    BY <1>1, DoneMoves DEF Recover, Recovering
  <2> QED
    BY <1>1, <2>1, HelperEnded DEF Recover, Images
<1>2. CASE /\ disk.journal # None /\ Recoverable(disk)
           /\ lock' = p
           /\ GoTo(p, IF PairMatches(disk) THEN "contents" ELSE "unlink")
           /\ UNCHANGED <<phase, status>>
  <2>1. step' = [step EXCEPT ![p] = IF PairMatches(disk) THEN "contents" ELSE "unlink"]
    BY <1>2 DEF GoTo
  <2>2. \A q \in Publisher : step[q] = "none"
    BY PublicationAssumption DEF Control, Held, Recover
  <2>3. Control'
    BY <1>2, <2>1, <2>2 DEF Control, Held, Recover, RecoverySteps, PublishSteps
  <2>4. OthersStay(p) /\ Onward /\ Ends(p) /\ Reports(p)
    BY <1>2, <2>1, <2>2 DEF Recover, Control, OthersStay, Onward, Ends, Reports, Wrote, Swapped,
       Unstaged
  <2>5. ImageOK(disk) /\ disk \in Disk /\ None \notin Inode
    BY PublicationAssumption DEF Images, ImageOK
  <2>6. /\ disk.journal \in Journal /\ disk.journal.stage \in Publisher
        /\ disk.journal.old \in Inode /\ disk.journal.candidate \in Inode
    BY <1>2, <2>5, DiskShape
  <2>7. CASE PairMatches(disk)
    <3>1. step'[p] = "contents" /\ disk.stage[disk.journal.stage] # None
      BY <2>1, <2>5, <2>6, <2>7 DEF PairMatches, Control
    <3>2. Works(p)'
      BY <1>2, <3>1 DEF Works, Making, Publishing, Settling, Recover, Recovering
    <3> QED
      BY <1>2, <2>3, <2>4, <3>2, SameDirectory DEF Recover, Images
  <2>8. CASE ~PairMatches(disk)
    <3>1. step'[p] = "unlink" /\ OnlyJournalLeft(disk)
      BY <1>2, <2>1, <2>8 DEF Recoverable, Control
    <3>2. \A image \in survivors : Left(image, disk.journal.stage)
      BY <1>2, <3>1 DEF Images, Marked, OnlyJournalLeft, Left
    <3>3. Works(p)'
      BY <1>2, <3>1, <3>2 DEF Works, Making, Publishing, Settling, Recover, Recovering,
         OnlyJournalLeft
    <3> QED
      BY <1>2, <2>3, <2>4, <3>3, SameDirectory DEF Recover, Images
  <2> QED
    BY <2>7, <2>8
<1>3. CASE disk.journal # None /\ ~Recoverable(disk) /\ ScriptFails(p)
  <2>1. /\ Control' /\ OthersStay(p) /\ Onward /\ Ends(p) /\ Reports(p)
        /\ step'[p] = "none"
        /\ phase'[p] \in {"exited", "stranded", "unclean", "trap"}
    BY <1>3, FailMoves DEF Recover, Recovering, Exited, Control
  <2> QED
    BY <2>1, HelperEnded DEF Recover, Images, Exited
<1> QED
  BY <1>1, <1>2, <1>3 DEF Recover

(* The parent is flushed after the stage of the journal is gone.             *)
LEMMA SyncRemovalKeeps ==
  ASSUME PublicationInv, NEW p \in Publisher, SyncRemoval(p)
  PROVE  PublicationInv'
<1> USE DEF PublicationInv
<1>1. /\ Control' /\ OthersStay(p) /\ Onward /\ Ends(p) /\ Reports(p)
      /\ step'[p] = "unlink" /\ phase' = phase
  BY GoOn DEF SyncRemoval, RecoverySteps
<1>2. Works(p) /\ phase[p] \in Recovering
  BY DEF Working, Control, Held, SyncRemoval, RecoverySteps
<1>3. Works(p)'
  BY <1>1, <1>2 DEF Works, Making, Publishing, Settling, SyncRemoval, FsyncParent, Recovering, Left
<1> QED
  BY <1>1, <1>3, SameDirectory DEF SyncRemoval, FsyncParent, Images

(* The parent is flushed after the journal is gone, and recovery ends.       *)
LEMMA EndRecoveryKeeps ==
  ASSUME PublicationInv, NEW p \in Publisher, EndRecovery(p)
  PROVE  PublicationInv'
<1> USE DEF PublicationInv
<1>1. phase[p] \in Recovering /\ disk.journal = None
  BY DEF Control, Held, EndRecovery, RecoverySteps, Working, Works, Settling
<1>2. /\ Control' /\ OthersStay(p) /\ Onward /\ Ends(p) /\ Reports(p)
      /\ step'[p] = "none"
      /\ phase'[p] \in {"staging", "trap", "sweeping"}
  BY <1>1, DoneMoves DEF EndRecovery, Recovering
<1> QED
  BY <1>1, <1>2, HelperEnded DEF EndRecovery, FsyncParent, Images

(* The script notes which generation it copies.                              *)
LEMMA BeginCopyKeeps ==
  ASSUME PublicationInv, NEW p \in Publisher, BeginCopy(p)
  PROVE  PublicationInv'
<1> USE DEF PublicationInv
<1>1. step[p] = "none"
  BY DEF Control, Held, BeginCopy, Recovering, RecoverySteps, PublishSteps
<1>2. source' \in [Publisher -> Generation \cup {"partial", None}]
  BY DEF BeginCopy, Control, Images, ImageOK, HistoryOK, Range
<1>3. /\ Control' /\ OthersStay(p) /\ Onward /\ Reports(p) /\ Ends(p)
      /\ phase'[p] = "building" /\ step' = step
  BY <1>1, <1>2, ScriptMoves DEF BeginCopy, Phases
<1>4. Works(p)'
  BY <1>1, <1>3 DEF Working, Works, Making, Publishing, Settling, BeginCopy
<1> QED
  BY <1>3, <1>4, SameDirectory DEF BeginCopy, Images

(* Only a verified stage goes on to be published.                            *)
LEMMA VerifyKeeps ==
  ASSUME PublicationInv, NEW p \in Publisher, Verify(p)
  PROVE  PublicationInv'
<1> USE DEF PublicationInv
<1>1. step[p] = "none"
  BY DEF Control, Held, Verify, Recovering, RecoverySteps, PublishSteps
<1>2. CASE ScriptFails(p)
  <2>1. /\ Control' /\ OthersStay(p) /\ Onward /\ Ends(p) /\ Reports(p)
        /\ step'[p] = "none"
        /\ phase'[p] \in {"exited", "stranded", "unclean", "trap"}
    BY <1>2, FailMoves DEF Verify, Exited, Control
  <2> QED
    BY <2>1, HelperEnded DEF Verify, Images, Exited
<1>3. CASE /\ disk.tree[disk.stage[p]] = p
           /\ phase' = [phase EXCEPT ![p] = "publishing"]
           /\ UNCHANGED <<lock, step, status>>
  <2>1. /\ Control' /\ OthersStay(p) /\ Onward /\ Reports(p) /\ Ends(p)
        /\ phase'[p] = "publishing" /\ step' = step
    BY <1>1, <1>3, ScriptMoves DEF Verify, Phases, Control
  <2>2. Works(p)'
    BY <1>1, <1>3, <2>1 DEF Working, Works, Making, Publishing, Settling, Verify
  <2> QED
    BY <2>1, <2>2, SameDirectory DEF Verify, Images
<1> QED
  BY <1>2, <1>3 DEF Verify

(* publish() takes the lock only without a journal.                          *)
LEMMA PublishKeeps ==
  ASSUME PublicationInv, NEW p \in Publisher, Publish(p)
  PROVE  PublicationInv'
<1> USE DEF PublicationInv
<1>1. CASE ScriptFails(p)
  <2>1. /\ Control' /\ OthersStay(p) /\ Onward /\ Ends(p) /\ Reports(p)
        /\ step'[p] = "none"
        /\ phase'[p] \in {"exited", "stranded", "unclean", "trap"}
    BY <1>1, FailMoves DEF Publish, Exited, Control
  <2> QED
    BY <2>1, HelperEnded DEF Publish, Images, Exited
<1>2. CASE /\ disk.journal = None
           /\ lock' = p
           /\ GoTo(p, "flush")
           /\ UNCHANGED <<phase, status>>
  <2>1. step' = [step EXCEPT ![p] = "flush"]
    BY <1>2 DEF GoTo
  <2>2. \A q \in Publisher : step[q] = "none"
    BY PublicationAssumption DEF Control, Held, Publish
  <2>3. Control'
    BY <1>2, <2>1, <2>2 DEF Control, Held, Publish, RecoverySteps, PublishSteps
  <2>4. OthersStay(p) /\ Onward /\ Ends(p) /\ Reports(p)
    BY <1>2, <2>1, <2>2 DEF Publish, Control, OthersStay, Onward, Ends, Reports, Wrote, Swapped,
       Unstaged
  <2>5. Works(p)'
    BY <1>2, <2>1, <2>2 DEF Working, Works, Making, Publishing, Settling, Publish, Control
  <2> QED
    BY <1>2, <2>3, <2>4, <2>5, SameDirectory DEF Publish, Images
<1> QED
  BY <1>1, <1>2 DEF Publish

(* After a flush of the parent every image is the directory. *)
LEMMA FlushKeeps ==
  ASSUME PublicationInv, NEW p \in Publisher, Flush(p)
  PROVE  PublicationInv'
<1> USE DEF PublicationInv
<1>1. /\ Control' /\ OthersStay(p) /\ Onward /\ Ends(p) /\ Reports(p)
      /\ step'[p] = "prepare" /\ phase' = phase
  BY GoOn DEF Flush, PublishSteps
<1>2. Works(p) /\ phase[p] = "publishing"
  BY DEF Working, Control, Held, Flush, PublishSteps
<1>3. p \in Generation
  BY DEF Generation
<1>4. Works(p)'
  BY <1>1, <1>2 DEF Works, Making, Publishing, Settling, Flush, FsyncParent
<1> QED
  BY <1>1, <1>3, <1>4, SameDirectory DEF Flush, FsyncParent, Images

(* The prepared journal is durable in every image before the exchange.       *)
LEMMA SyncPreparedKeeps ==
  ASSUME PublicationInv, NEW p \in Publisher, SyncPrepared(p)
  PROVE  PublicationInv'
<1> USE DEF PublicationInv
<1>1. /\ Control' /\ OthersStay(p) /\ Onward /\ Ends(p) /\ Reports(p)
      /\ step'[p] = "exchange" /\ phase' = phase
  BY GoOn DEF SyncPrepared, PublishSteps
<1>2. Works(p) /\ phase[p] = "publishing"
  BY DEF Working, Control, Held, SyncPrepared, PublishSteps
<1>3. JournalOf(disk, p) /\ PairMatches(disk)
  <2>1. disk.journal \in Journal /\ None \notin Journal
    BY <1>2, PublicationAssumption, DiskShape DEF Works, Publishing, SyncPrepared, Images,
       ImageOK, Disk, Entry, Journal, Making
  <2> QED
    BY <1>2, <2>1 DEF Works, Publishing, SyncPrepared, JournalOf, PairMatches, Entry
<1>4. Works(p)'
  BY <1>1, <1>2, <1>3 DEF Works, Making, Publishing, Settling, SyncPrepared, FsyncParent
<1> QED
  BY <1>1, <1>4, SameDirectory DEF SyncPrepared, FsyncParent, Images

(* The exchange is durable before the journal is marked.                     *)
LEMMA SyncExchangeKeeps ==
  ASSUME PublicationInv, NEW p \in Publisher, SyncExchange(p)
  PROVE  PublicationInv'
<1> USE DEF PublicationInv
<1>1. /\ Control' /\ OthersStay(p) /\ Onward /\ Ends(p) /\ Reports(p)
      /\ step'[p] = "mark" /\ phase' = phase
  BY GoOn DEF SyncExchange, PublishSteps
<1>2. Works(p) /\ phase[p] = "publishing"
  BY DEF Working, Control, Held, SyncExchange, PublishSteps
<1>3. Works(p)'
  BY <1>1, <1>2 DEF Works, Making, Publishing, Settling, SyncExchange, FsyncParent, Images
<1> QED
  BY <1>1, <1>3, SameDirectory DEF SyncExchange, FsyncParent, Images

(* The trap recovers first if it sees a journal.                             *)
LEMMA CleanupKeeps ==
  ASSUME PublicationInv, NEW p \in Publisher, Cleanup(p)
  PROVE  PublicationInv'
<1> USE DEF PublicationInv
<1>1. step[p] = "none"
  BY DEF Control, Held, Cleanup, Recovering, RecoverySteps, PublishSteps
<1> DEFINE f == IF disk.journal = None THEN "sweeping" ELSE "restoring"
<1>2. /\ Control' /\ OthersStay(p) /\ Onward /\ Reports(p) /\ Ends(p)
      /\ phase'[p] = f /\ step' = step
  BY <1>1, ScriptMoves DEF Cleanup, Control, Phases, Recovering
<1> QED
  BY <1>1, <1>2, HelperEnded DEF Cleanup, Images

(* A helper that dies leaves the directory as it is.                         *)
LEMMA HelperFailsKeeps ==
  ASSUME PublicationInv, NEW p \in Publisher, HelperFails(p)
  PROVE  PublicationInv'
<1> USE DEF PublicationInv
<1>1. crashes' \in 0..MaxCrashes
  BY PublicationAssumption DEF HelperFails, Control
<1>2. /\ Control' /\ OthersStay(p) /\ Onward /\ Ends(p) /\ Reports(p)
      /\ step'[p] = "none"
      /\ phase'[p] \in {"exited", "stranded", "unclean", "trap"}
  BY <1>1, FailMoves DEF HelperFails, Running
<1> QED
  BY <1>2, HelperEnded DEF HelperFails, Images, Exited

(* So does a killed script.                                                  *)
LEMMA KillKeeps ==
  ASSUME PublicationInv, NEW p \in Publisher, Kill(p)
  PROVE  PublicationInv'
BY KillMoves, HelperEnded DEF Kill, PublicationInv, Images, Exited

(* publish() returns when the marked journal is durable: from here on nothing may *)
(* undo the exchange.                                                        *)
LEMMA EndPublishKeeps ==
  ASSUME PublicationInv, NEW p \in Publisher, EndPublish(p)
  PROVE  PublicationInv'
<1> USE DEF PublicationInv
<1>1. phase[p] = "publishing" /\ Authority(disk) = p
  BY DEF Control, Held, EndPublish, PublishSteps, Working, Works, Publishing
<1>2. /\ Control' /\ OthersStay(p) /\ Onward /\ Ends(p) /\ Reports(p)
      /\ step'[p] = "none" /\ phase'[p] = "closing"
  BY <1>1, DoneMoves DEF EndPublish, Recovering
<1>3. Images'
  BY <1>1, <1>2, ImagesStay DEF EndPublish, FsyncParent, OthersStay, Images
<1>4. Working'
  <2>1. Works(p)'
    BY <1>2 DEF Works, Making, Publishing, Settling
  <2>2. ASSUME NEW q \in Publisher \ {p} PROVE Works(q)'
    BY <1>2, <2>2, OthersWork DEF Working, OthersStay, EndPublish, FsyncParent, Images
  <2> QED
    BY <2>1, <2>2 DEF Working
<1>5. HistoryOK'
  BY <1>2 DEF HistoryOK, Onward, EndPublish
<1>6. p \in Range(history)
  BY <1>1 DEF Images, ImageOK
<1>7. Rank(p) \in Nat
  BY <1>6 DEF Rank, Range, HistoryOK
<1>8. ASSUME NEW q \in Publisher, phase'[q] = "closing" \/ status'[q] = "published"
      PROVE  q \in Range(history) /\ \A image \in survivors' : Rank(Authority(image)) >= Rank(q)
  <2>1. CASE q = p
    BY <1>1, <1>6, <1>7, <2>1 DEF EndPublish, FsyncParent
  <2>2. CASE q # p
    BY <1>2, <1>8, <2>2 DEF OthersStay, RanksOK, EndPublish, FsyncParent, Images
  <2> QED
    BY <2>1, <2>2
<1>9. RanksOK'
  BY <1>8, SameRanks DEF EndPublish
<1> QED
  BY <1>2, <1>3, <1>4, <1>5, <1>9

-----------------------------------------------------------------------------
(* The steps of a helper that write to the directory. *)

(* What d owes to the images before it and to the publishers other than p.   *)
KeepsVanished(d) ==
  \A q \in Publisher : d.stage[q] = None /\ ~JournalOf(d, q) =>
    \A image \in survivors : Left(image, q)

KeepsMarked(d) ==
  d.journal # None /\ d.journal.state = "exchanged" =>
    \A image \in survivors \cup {d} : JournalOf(image, d.journal.stage) /\ Recoverable(image)

LeavesOthers(p, d) ==
  \A q \in Publisher \ {p} :
    /\ phase[q] \in {"made", "staged", "copying", "building", "verifying", "publishing"} =>
         d.stage[q] = disk.stage[q] /\ d.tree[disk.stage[q]] = disk.tree[disk.stage[q]]
    /\ JournalOf(d, q) => JournalOf(disk, q)

(* Images written earlier stay what they were when the helper writes another. *)
LEMMA ImageWaits ==
  ASSUME NEW d, ImageOK(d), synced' = synced, history' = history, phase' = phase, Onward
  PROVE  ImageOK(d)'
<1>1. Authority(d) \in synced'
  BY DEF ImageOK
<1>2. \A q \in Publisher : phase'[q] = "exited" => phase[q] = "exited"
  OBVIOUS
<1> QED
  BY <1>1, <1>2, ImageStays

(* The directory d is written; its authority is that of the one before.      *)
LEMMA WriteKeeps ==
  ASSUME PublicationInv, NEW p \in Publisher, NEW d,
         Control', OthersStay(p), Onward, Ends(p), Reports(p),
         Write(d), step[p] # "none", phase' = phase, synced' = synced, history' = history,
         ImageOK(d)', Authority(d) = Authority(disk),
         KeepsVanished(d), KeepsMarked(d), LeavesOthers(p, d),
         Works(p)'
  PROVE  PublicationInv'
<1>1. disk' = d /\ survivors' = survivors \cup {d}
  BY DEF Write
<1>2. Images'
  <2>1. ASSUME NEW e \in survivors' PROVE ImageOK(e)'
    <3>1. CASE e = d
      BY <3>1
    <3>2. CASE e # d
      <4>1. ImageOK(e)
        BY <1>1, <2>1, <3>2 DEF PublicationInv, Images
      <4> QED
        BY <4>1, ImageWaits
    <3> QED
      BY <3>1, <3>2
  <2>2. Vanished'
    BY <1>1 DEF Vanished, KeepsVanished, Left, JournalOf
  <2>3. Marked'
    BY <1>1 DEF Marked, KeepsMarked
  <2>4. TwoAtMost'
    BY <1>1 DEF PublicationInv, Images, TwoAtMost
  <2> QED
    BY <1>1, <2>1, <2>2, <2>3, <2>4 DEF PublicationInv, Images
<1>3. Working'
  <2>1. ASSUME NEW q \in Publisher \ {p} PROVE Works(q)'
    <3>1. step[q] = "none" /\ step'[q] = "none" /\ phase'[q] = phase[q] /\ Works(q)
      BY <2>1, OneHolds DEF PublicationInv, Working, OthersStay
    <3> QED
      BY <1>1, <2>1, <3>1, OthersWait DEF LeavesOthers
  <2> QED
    BY <2>1 DEF Working
<1>4. HistoryOK' /\ RanksOK'
  <2>1. ASSUME NEW q \in Publisher, phase'[q] = "closing" \/ status'[q] = "published"
        PROVE  phase[q] = "closing" \/ status[q] = "published"
    BY <2>1 DEF OthersStay, Reports
  <2>2. ASSUME NEW x \in survivors' PROVE \E y \in survivors : Authority(x) = Authority(y)
    BY <1>1, <2>2 DEF PublicationInv, Images
  <2> QED
    BY <2>1, <2>2, RanksStay DEF PublicationInv
<1> QED
  BY <1>2, <1>3, <1>4 DEF PublicationInv

(* The files of the journal's stage are removed.                             *)
LEMMA RemoveContentsKeeps ==
  ASSUME PublicationInv, NEW p \in Publisher, RemoveContents(p)
  PROVE  PublicationInv'
<1> USE DEF PublicationInv
<1> DEFINE j == disk.journal.stage
<1>0. PICK d : d = [disk EXCEPT !.tree[disk.stage[j]] = "partial"]
  OBVIOUS
<1>1. /\ Control' /\ OthersStay(p) /\ Onward /\ Ends(p) /\ Reports(p)
      /\ step'[p] = "entry" /\ phase' = phase
  BY GoOn DEF RemoveContents, RecoverySteps
<1>2. /\ Write(d) /\ synced' = synced /\ history' = history
      /\ phase[p] \in Recovering /\ step[p] = "contents"
  BY <1>0 DEF RemoveContents
<1>3. /\ disk \in Disk /\ ImageOK(disk) /\ NamesOK(disk)
      /\ disk.journal # None /\ disk.stage[j] # None
  BY <1>2 DEF Images, ImageOK, Working, Works, Settling
<1>4. j \in Publisher
  BY <1>3, DiskShape
<1>5. /\ SameNames(disk, d)
      /\ \A i \in Inode \ {disk.stage[j]} : d.tree[i] = disk.tree[i]
  BY <1>0, <1>3, <1>4, StageChanges
<1>6. Wrote(j)
  BY <1>3 DEF ImageOK
<1>7. /\ \A q : (JournalOf(d, q) <=> JournalOf(disk, q)) /\ (Left(d, q) <=> Left(disk, q))
      /\ Recoverable(d) <=> Recoverable(disk)
      /\ ImageOK(d)
  BY <1>3, <1>5, SameNamesKeep
<1>8. ImageOK(d)'
  BY <1>1, <1>2, <1>7, ImageWaits
<1>9. /\ Authority(d) = Authority(disk) /\ d.stage = disk.stage /\ d.journal = disk.journal
  BY <1>5 DEF SameNames
<1>10. LeavesOthers(p, d)
  <2> SUFFICES ASSUME NEW q \in Publisher \ {p},
                      phase[q] \in {"made", "staged", "copying", "building", "verifying", "publishing"}
               PROVE  d.tree[disk.stage[q]] = disk.tree[disk.stage[q]]
    BY <1>7, <1>9 DEF LeavesOthers
  <2>1. step[q] = "none"
    BY <1>2, OneHolds
  <2>2. q # j /\ disk.stage[q] # None
    BY <1>6, <2>1 DEF Wrote, Later, Exited, Working, Works, Making
  <2>3. disk.stage[q] \in Inode \ {disk.stage[j]}
    BY <1>3, <1>4, <2>2, DiskShape DEF NamesOK
  <2> QED
    BY <1>5, <2>3
<1>11. Works(p)'
  <2>1. disk' = d /\ disk'.stage[disk'.journal.stage] # None /\ disk'.journal # None
    BY <1>2, <1>3, <1>9 DEF Write
  <2> QED
    BY <1>1, <1>2, <2>1 DEF Works, Making, Publishing, Settling, Recovering
<1>12. KeepsVanished(d)
  BY <1>7, <1>9 DEF Images, Vanished, KeepsVanished
<1>13. KeepsMarked(d)
  BY <1>7, <1>9 DEF Images, Marked, KeepsMarked
<1> QED
  BY <1>1, <1>2, <1>7, <1>8, <1>9, <1>10, <1>11, <1>12, <1>13, WriteKeeps

(* The entry of the journal's stage is removed.                              *)
LEMMA RemoveEntryKeeps ==
  ASSUME PublicationInv, NEW p \in Publisher, RemoveEntry(p)
  PROVE  PublicationInv'
<1> USE DEF PublicationInv
<1> DEFINE j == disk.journal.stage
<1>0. PICK d : d = [disk EXCEPT !.tree[disk.stage[j]] = "free", !.stage[j] = None]
  OBVIOUS
<1>1. /\ Control' /\ OthersStay(p) /\ Onward /\ Ends(p) /\ Reports(p)
      /\ step'[p] = "removed" /\ phase' = phase
  BY GoOn DEF RemoveEntry, RecoverySteps
<1>2. /\ Write(d) /\ synced' = synced /\ history' = history
      /\ phase[p] \in Recovering /\ step[p] = "entry"
  BY <1>0 DEF RemoveEntry
<1>3. /\ disk \in Disk /\ ImageOK(disk) /\ NamesOK(disk)
      /\ disk.journal # None /\ disk.stage[j] # None
  BY <1>2 DEF Images, ImageOK, Working, Works, Settling
<1>4. j \in Publisher
  BY <1>3, DiskShape
<1>5. /\ d \in Disk /\ NamesOK(d) /\ Authority(d) = Authority(disk)
      /\ d.runtime = disk.runtime /\ d.journal = disk.journal /\ d.stage[j] = None
      /\ \A r \in Publisher \ {j} :
           /\ d.stage[r] = disk.stage[r]
           /\ disk.stage[r] # None => d.tree[disk.stage[r]] = disk.tree[disk.stage[r]]
  BY <1>0, <1>3, <1>4, StageGoes
<1>6. Wrote(j)
  BY <1>3 DEF ImageOK
<1>7. \A q : JournalOf(d, q) <=> JournalOf(disk, q)
  BY <1>5 DEF JournalOf
<1>8. ImageOK(d)
  <2>1. ASSUME NEW q \in Publisher, phase[q] = "exited" PROVE Left(d, q)
    BY <1>3, <1>5, <2>1 DEF ImageOK, Left, JournalOf
  <2>2. \A q \in Publisher : Unstaged(q) => d.stage[q] = None
    BY <1>3, <1>5 DEF ImageOK
  <2> QED
    BY <1>3, <1>5, <2>1, <2>2 DEF ImageOK
<1>9. ImageOK(d)'
  BY <1>1, <1>2, <1>8, ImageWaits
<1>10. LeavesOthers(p, d)
  <2> SUFFICES ASSUME NEW q \in Publisher \ {p},
                      phase[q] \in {"made", "staged", "copying", "building", "verifying", "publishing"}
               PROVE  d.stage[q] = disk.stage[q] /\ d.tree[disk.stage[q]] = disk.tree[disk.stage[q]]
    BY <1>7 DEF LeavesOthers
  <2>1. step[q] = "none"
    BY <1>2, OneHolds
  <2>2. q # j /\ disk.stage[q] # None
    BY <1>6, <2>1 DEF Wrote, Later, Exited, Working, Works, Making
  <2> QED
    BY <1>5, <2>2
<1>11. Works(p)'
  <2>1. disk' = d /\ disk'.stage[disk'.journal.stage] = None /\ disk'.journal # None
    BY <1>2, <1>3, <1>5 DEF Write
  <2> QED
    BY <1>1, <1>2, <2>1 DEF Works, Making, Publishing, Settling, Recovering
<1>12. KeepsVanished(d)
  BY <1>3, <1>5, <1>7 DEF Images, Vanished, KeepsVanished, JournalOf
<1>13. KeepsMarked(d)
  <2> SUFFICES ASSUME d.journal # None, d.journal.state = "exchanged"
               PROVE  \A image \in survivors \cup {d} :
                        JournalOf(image, d.journal.stage) /\ Recoverable(image)
    BY DEF KeepsMarked
  <2>1. JournalOf(d, d.journal.stage) /\ Recoverable(d)
    BY <1>3, <1>5 DEF ImageOK, JournalOf, Recoverable, OnlyJournalLeft
  <2> QED
    BY <1>5, <2>1 DEF Images, Marked
<1> QED
  BY <1>1, <1>2, <1>5, <1>7, <1>9, <1>10, <1>11, <1>12, <1>13, WriteKeeps

(* The journal is removed once no image has its stage without it.            *)
LEMMA RemoveJournalKeeps ==
  ASSUME PublicationInv, NEW p \in Publisher, RemoveJournal(p)
  PROVE  PublicationInv'
<1> USE DEF PublicationInv
<1> DEFINE j == disk.journal.stage
<1>0. PICK d : d = [disk EXCEPT !.journal = None]
  OBVIOUS
<1>1. /\ Control' /\ OthersStay(p) /\ Onward /\ Ends(p) /\ Reports(p)
      /\ step'[p] = "unlinked" /\ phase' = phase
  BY GoOn DEF RemoveJournal, RecoverySteps
<1>2. /\ Write(d) /\ synced' = synced /\ history' = history /\ step[p] = "unlink"
      /\ phase[p] \in Recovering
  BY <1>0 DEF RemoveJournal, Control, Held, RecoverySteps
<1>3. /\ disk \in Disk /\ ImageOK(disk) /\ NamesOK(disk)
      /\ disk.journal # None /\ disk.stage[j] = None
      /\ \A image \in survivors : Left(image, j)
  BY <1>2 DEF Images, ImageOK, Working, Works, Settling
<1>4. j \in Publisher
  BY <1>3, DiskShape
<1>5. /\ d \in Disk /\ NamesOK(d) /\ Authority(d) = Authority(disk)
      /\ d.runtime = disk.runtime /\ d.stage = disk.stage /\ d.tree = disk.tree
      /\ d.journal = None
  BY <1>0, <1>3, JournalChanges
<1>6. ImageOK(d)
  <2>1. ASSUME NEW q \in Publisher, phase[q] = "exited" PROVE Left(d, q)
    BY <1>3, <1>5, <2>1 DEF ImageOK, Left, JournalOf
  <2> QED
    BY <1>3, <1>5, <2>1 DEF ImageOK
<1>7. ImageOK(d)'
  BY <1>1, <1>2, <1>6, ImageWaits
<1>8. Works(p)'
  BY <1>1, <1>2, <1>5 DEF Works, Making, Publishing, Settling, Recovering, Write
<1>9. KeepsVanished(d)
  BY <1>3, <1>5 DEF Images, Vanished, KeepsVanished, JournalOf
<1>10. KeepsMarked(d) /\ LeavesOthers(p, d)
  BY <1>5 DEF KeepsMarked, LeavesOthers, JournalOf
<1> QED
  BY <1>1, <1>2, <1>5, <1>7, <1>8, <1>9, <1>10, WriteKeeps

(* The prepared journal is written.                                          *)
LEMMA PrepareKeeps ==
  ASSUME PublicationInv, NEW p \in Publisher, Prepare(p)
  PROVE  PublicationInv'
<1> USE DEF PublicationInv
<1> DEFINE j == Entry(p, "prepared", disk.runtime, disk.stage[p])
<1>0. PICK d : d = [disk EXCEPT !.journal = j]
  OBVIOUS
<1>1. /\ Control' /\ OthersStay(p) /\ Onward /\ Ends(p) /\ Reports(p)
      /\ step'[p] = "prepared" /\ phase' = phase
  BY GoOn DEF Prepare, PublishSteps
<1>2. /\ Write(d) /\ synced' = synced /\ history' = history /\ step[p] = "prepare"
      /\ phase[p] = "publishing"
  BY <1>0 DEF Prepare, WriteJournal, Entry, Control, Held, PublishSteps
<1>3. /\ disk \in Disk /\ ImageOK(disk) /\ NamesOK(disk) /\ Works(p)
      /\ disk.journal = None /\ disk.stage[p] # None
  BY <1>2 DEF Images, ImageOK, Working, Works, Publishing, Making
<1>4. j \in Journal /\ j # None /\ j.stage = p /\ j.state = "prepared"
  BY <1>3, DiskShape, PublicationAssumption DEF Journal, Entry
<1>5. /\ d \in Disk /\ NamesOK(d) /\ Authority(d) = Authority(disk)
      /\ d.runtime = disk.runtime /\ d.stage = disk.stage /\ d.tree = disk.tree
      /\ d.journal = j
  BY <1>0, <1>3, <1>4, JournalChanges
<1> HIDE DEF j
<1>6. ImageOK(d)'
  <2>1. ASSUME NEW q \in Publisher, phase'[q] = "exited" PROVE Left(d, q)
    BY <1>1, <1>3, <1>5, <2>1 DEF ImageOK, Left, JournalOf
  <2>2. ASSUME NEW q \in Publisher, Unstaged(q)' PROVE d.stage[q] = None
    BY <1>1, <1>3, <1>5, <2>2 DEF ImageOK, Onward
  <2>3. d.journal # None => Wrote(d.journal.stage)'
    BY <1>1, <1>4, <1>5 DEF Wrote
  <2> QED
    BY <1>2, <1>3, <1>4, <1>5, <2>1, <2>2, <2>3 DEF ImageOK
<1>7. Works(p)'
  <2>1. disk' = d /\ survivors' = survivors \cup {d}
    BY <1>2 DEF Write
  <2>2. disk'.journal = Entry(p, "prepared", disk'.runtime, disk'.stage[p])
    BY <1>5, <2>1 DEF j
  <2>3. p \in synced' /\ \A image \in survivors' : Authority(image) = Authority(disk')
    BY <1>2, <1>3, <1>5, <2>1 DEF Works, Publishing
  <2>4. disk'.stage[p] # None /\ disk'.tree[disk'.stage[p]] = p
    BY <1>2, <1>3, <1>5, <2>1 DEF Works, Making
  <2> QED
    BY <1>1, <1>2, <2>2, <2>3, <2>4 DEF Works, Making, Publishing, Settling
<1>8. KeepsVanished(d)
  BY <1>3, <1>5 DEF Images, Vanished, KeepsVanished, JournalOf
<1>9. KeepsMarked(d) /\ LeavesOthers(p, d)
  BY <1>4, <1>5 DEF KeepsMarked, LeavesOthers, JournalOf
<1> QED
  BY <1>1, <1>2, <1>5, <1>6, <1>7, <1>8, <1>9, WriteKeeps

(* The journal is marked as exchanged.                                       *)
LEMMA MarkKeeps ==
  ASSUME PublicationInv, NEW p \in Publisher, Mark(p)
  PROVE  PublicationInv'
<1> USE DEF PublicationInv
<1> DEFINE j == Entry(p, "exchanged", disk.stage[p], disk.runtime)
<1>0. PICK d : d = [disk EXCEPT !.journal = j]
  OBVIOUS
<1>1. /\ Control' /\ OthersStay(p) /\ Onward /\ Ends(p) /\ Reports(p)
      /\ step'[p] = "marked" /\ phase' = phase
  BY GoOn DEF Mark, PublishSteps
<1>2. /\ Write(d) /\ synced' = synced /\ history' = history /\ step[p] = "mark"
      /\ phase[p] = "publishing"
  BY <1>0 DEF Mark, WriteJournal, Entry, Control, Held, PublishSteps
<1>3. /\ disk \in Disk /\ ImageOK(disk) /\ NamesOK(disk) /\ Works(p)
      /\ disk.journal = Entry(p, "prepared", disk.stage[p], disk.runtime)
      /\ disk.stage[p] # None /\ Authority(disk) = p
      /\ \A image \in survivors : JournalOf(image, p) /\ PairMatches(image)
  BY <1>2 DEF Images, ImageOK, Working, Works, Publishing
<1>4. j \in Journal /\ j # None /\ j.stage = p /\ j.state = "exchanged"
      /\ j.old = disk.stage[p] /\ j.candidate = disk.runtime
  BY <1>3, DiskShape, PublicationAssumption DEF Journal, Entry
<1>5. /\ d \in Disk /\ NamesOK(d) /\ Authority(d) = Authority(disk)
      /\ d.runtime = disk.runtime /\ d.stage = disk.stage /\ d.tree = disk.tree
      /\ d.journal = j
  BY <1>0, <1>3, <1>4, JournalChanges
<1>6. JournalOf(disk, p)
  BY <1>3 DEF Images
<1> HIDE DEF j
<1>7. JournalOf(d, p) /\ PairMatches(d)
  BY <1>4, <1>5 DEF JournalOf, PairMatches
<1>8. ImageOK(d)'
  <2>1. ASSUME NEW q \in Publisher, phase'[q] = "exited" PROVE Left(d, q)
    BY <1>1, <1>2, <1>3, <1>5, <1>6, <2>1 DEF ImageOK, Left, JournalOf
  <2>2. ASSUME NEW q \in Publisher, Unstaged(q)' PROVE d.stage[q] = None
    BY <1>1, <1>3, <1>5, <2>2 DEF ImageOK, Onward
  <2>3. d.journal # None => Wrote(d.journal.stage)'
    BY <1>1, <1>4, <1>5 DEF Wrote
  <2> QED
    BY <1>2, <1>3, <1>4, <1>5, <2>1, <2>2, <2>3 DEF ImageOK
<1>9. Works(p)'
  <2>1. disk' = d /\ survivors' = survivors \cup {d}
    BY <1>2 DEF Write
  <2>2. disk'.journal = Entry(p, "exchanged", disk'.stage[p], disk'.runtime)
    BY <1>5, <2>1 DEF j
  <2>3. \A image \in survivors' : JournalOf(image, p) /\ PairMatches(image)
    BY <1>3, <1>7, <2>1
  <2>4. disk'.stage[p] # None /\ Authority(disk') = p
    BY <1>3, <1>5, <2>1
  <2> QED
    BY <1>1, <1>2, <2>2, <2>3, <2>4 DEF Works, Making, Publishing, Settling
<1>10. KeepsVanished(d)
  BY <1>3, <1>5, <1>6, <1>7 DEF Images, Vanished, KeepsVanished, JournalOf
<1>11. \A image \in survivors \cup {d} : JournalOf(image, p) /\ Recoverable(image)
  BY <1>3, <1>7 DEF Recoverable
<1>12. KeepsMarked(d) /\ LeavesOthers(p, d)
  BY <1>4, <1>5, <1>11 DEF KeepsMarked, LeavesOthers, JournalOf
<1> QED
  BY <1>1, <1>2, <1>5, <1>8, <1>9, <1>10, <1>12, WriteKeeps

(* A generation that was not in the history comes after all that were. *)
Position(h, g) == CHOOSE n \in DOMAIN h : h[n] = g

(* In an injective history every generation has one position.                *)
LEMMA PositionInside ==
  ASSUME NEW h \in Seq(Generation), IsInjective(h), NEW n \in DOMAIN h
  PROVE  Position(h, h[n]) = n
BY DEF Position, IsInjective

(* Its position is behind theirs, and theirs keep their order.               *)
LEMMA HistoryGrows ==
  ASSUME NEW h \in Seq(Generation), IsInjective(h), NEW g \in Generation, g \notin Range(h),
         NEW k, k = Append(h, g)
  PROVE  /\ k \in Seq(Generation) /\ IsInjective(k)
         /\ Range(k) = Range(h) \cup {g}
         /\ Position(k, g) = Len(h) + 1
         /\ \A x \in Range(h) : Position(k, x) \in 1..Len(h)
         /\ \A x, y \in Range(h) : Position(h, x) >= Position(h, y) =>
              Position(k, x) >= Position(k, y)
<1>1. /\ k \in Seq(Generation) /\ Len(k) = Len(h) + 1 /\ k[Len(h) + 1] = g
      /\ \A n \in 1..Len(h) : k[n] = h[n]
  OBVIOUS
<1>2. DOMAIN k = 1..Len(h) + 1 /\ DOMAIN h = 1..Len(h) /\ Len(h) \in Nat
  BY <1>1
<1>3. \A n \in 1..Len(h) : h[n] # g
  BY <1>2 DEF Range
<1>4. IsInjective(k)
  <2>1. ASSUME NEW a \in DOMAIN k, NEW b \in DOMAIN k, k[a] = k[b] PROVE a = b
    <3>1. (a \in DOMAIN h \/ a = Len(h) + 1) /\ (b \in DOMAIN h \/ b = Len(h) + 1)
      BY <1>2
    <3> QED
      BY <1>1, <1>2, <1>3, <2>1, <3>1 DEF IsInjective
  <2> QED
    BY <2>1 DEF IsInjective
<1>5. Range(k) = Range(h) \cup {g}
  <2>1. \A n \in DOMAIN k : k[n] \in Range(h) \cup {g}
    <3> TAKE n \in DOMAIN k
    <3>1. n \in DOMAIN h \/ n = Len(h) + 1
      BY <1>2
    <3> QED
      BY <1>1, <1>2, <3>1 DEF Range
  <2>2. \A n \in DOMAIN h : n \in DOMAIN k /\ k[n] = h[n]
    BY <1>1, <1>2
  <2>3. Len(h) + 1 \in DOMAIN k /\ k[Len(h) + 1] = g
    BY <1>1, <1>2
  <2> QED
    BY <2>1, <2>2, <2>3 DEF Range
<1>6. Position(k, g) = Len(h) + 1
  <2>1. Len(h) + 1 \in DOMAIN k
    BY <1>2
  <2> QED
    BY <1>1, <1>4, <2>1, PositionInside
<1>7. ASSUME NEW x \in Range(h)
      PROVE  Position(k, x) = Position(h, x) /\ Position(h, x) \in 1..Len(h)
  <2>1. PICK n \in DOMAIN h : h[n] = x
    BY DEF Range
  <2>2. n \in DOMAIN k /\ k[n] = x /\ n \in 1..Len(h)
    BY <1>1, <1>2, <2>1
  <2>3. Position(h, x) = n
    BY <2>1, PositionInside
  <2>4. Position(k, x) = n
    BY <1>1, <1>4, <2>2, PositionInside
  <2> QED
    BY <2>2, <2>3, <2>4
<1> QED
  BY <1>1, <1>4, <1>5, <1>6, <1>7

(* What the exchange of p finds, and what it makes of the directory. *)
LEMMA ExchangeMoves ==
  ASSUME PublicationInv, NEW p \in Publisher, Exchange(p)
  PROVE  \E d :
           /\ disk' = d /\ survivors' = survivors \cup {d} /\ synced' = synced
           /\ step'[p] = "exchanged" /\ phase' = phase /\ phase[p] = "publishing"
           /\ Control' /\ OthersStay(p) /\ Onward /\ Ends(p) /\ Reports(p)
           /\ step[p] = "exchange" /\ Works(p) /\ ImageOK(disk)
           /\ disk.stage[p] # None /\ p \in synced
           /\ \A image \in survivors :
                /\ Authority(image) = Authority(disk)
                /\ JournalOf(image, p) /\ PairMatches(image)
           /\ disk.journal = Entry(p, "prepared", disk.runtime, disk.stage[p])
           /\ JournalOf(disk, p)
           /\ d \in Disk /\ NamesOK(d) /\ Authority(d) = p
           /\ d.runtime = disk.stage[p] /\ d.stage[p] = disk.runtime
           /\ \A r \in Publisher \ {p} : d.stage[r] = disk.stage[r]
           /\ d.tree = disk.tree /\ d.journal = disk.journal
           /\ history' = Append(history, p)
           /\ p \notin Range(history)
<1> USE DEF PublicationInv
<1>0. PICK d : d = [disk EXCEPT !.runtime = disk.stage[p], !.stage[p] = disk.runtime]
  OBVIOUS
<1>1. /\ Control' /\ OthersStay(p) /\ Onward /\ Ends(p) /\ Reports(p)
      /\ step'[p] = "exchanged" /\ phase' = phase
  BY GoOn DEF Exchange, PublishSteps
<1>2. /\ disk' = d /\ survivors' = survivors \cup {d} /\ synced' = synced
      /\ step[p] = "exchange" /\ phase[p] = "publishing"
      /\ history' = Append(history, Authority(d))
  BY <1>0 DEF Exchange, Write, Control, Held, PublishSteps
<1>3. /\ disk \in Disk /\ ImageOK(disk) /\ NamesOK(disk) /\ Works(p) /\ disk \in survivors
      /\ disk.stage[p] # None /\ disk.tree[disk.stage[p]] = p
      /\ p \in synced
      /\ disk.journal = Entry(p, "prepared", disk.runtime, disk.stage[p])
      /\ \A image \in survivors :
           /\ Authority(image) = Authority(disk)
           /\ JournalOf(image, p) /\ PairMatches(image)
  BY <1>2 DEF Images, ImageOK, Working, Works, Publishing, Making
<1>4. disk.tree[disk.runtime] # "free"
  BY <1>3, PublicationAssumption DEF ImageOK, Authority, HistoryOK, Range, Generation
<1>5. /\ d \in Disk /\ NamesOK(d)
      /\ d.runtime = disk.stage[p] /\ d.stage[p] = disk.runtime
      /\ \A r \in Publisher \ {p} : d.stage[r] = disk.stage[r]
      /\ d.tree = disk.tree /\ d.journal = disk.journal
  BY <1>0, <1>3, <1>4, NamesExchanged
<1>6. Authority(d) = p
  BY <1>3, <1>5 DEF Authority
<1>7. p \notin Range(history)
  BY <1>2 DEF HistoryOK, Swapped, Later, Exited
<1>8. /\ history' = Append(history, p) /\ JournalOf(disk, p)
  BY <1>2, <1>3, <1>6
<1> WITNESS d
<1> QED
  BY <1>1, <1>2, <1>3, <1>5, <1>6, <1>7, <1>8

(* The exchange makes the generation of p, which was flushed, authoritative. *)
LEMMA ExchangeKeeps ==
  ASSUME PublicationInv, NEW p \in Publisher, Exchange(p)
  PROVE  PublicationInv'
<1> USE DEF PublicationInv
<1>1. PICK d :
        /\ disk' = d /\ survivors' = survivors \cup {d} /\ synced' = synced
        /\ step'[p] = "exchanged" /\ phase' = phase /\ phase[p] = "publishing"
        /\ Control' /\ OthersStay(p) /\ Onward /\ Ends(p) /\ Reports(p)
        /\ step[p] = "exchange" /\ Works(p) /\ ImageOK(disk)
        /\ disk.stage[p] # None /\ p \in synced
        /\ \A image \in survivors :
             /\ Authority(image) = Authority(disk)
             /\ JournalOf(image, p) /\ PairMatches(image)
        /\ disk.journal = Entry(p, "prepared", disk.runtime, disk.stage[p])
        /\ JournalOf(disk, p)
        /\ d \in Disk /\ NamesOK(d) /\ Authority(d) = p
        /\ d.runtime = disk.stage[p] /\ d.stage[p] = disk.runtime
        /\ \A r \in Publisher \ {p} : d.stage[r] = disk.stage[r]
        /\ d.tree = disk.tree /\ d.journal = disk.journal
        /\ history' = Append(history, p)
        /\ p \notin Range(history)
  BY ExchangeMoves
<1>2. /\ history' \in Seq(Generation) /\ IsInjective(history')
      /\ Range(history') = Range(history) \cup {p}
      /\ Position(history', p) = Len(history) + 1
      /\ \A x \in Range(history) : Position(history', x) \in 1..Len(history)
      /\ \A x, y \in Range(history) : Position(history, x) >= Position(history, y) =>
           Position(history', x) >= Position(history', y)
      /\ Len(history) \in Nat
  <2>1. /\ p \in Generation /\ history \in Seq(Generation) /\ IsInjective(history)
        /\ p \notin Range(history) /\ history' = Append(history, p)
    BY <1>1 DEF HistoryOK, Generation
  <2>2. Len(history) \in Nat
    BY <2>1
  <2> QED
    BY <2>1, <2>2, HistoryGrows
<1>3. JournalOf(d, p) /\ PairMatches(d)
  BY <1>1 DEF JournalOf, PairMatches, Entry
<1>4. ImageOK(d)'
  <2>1. ASSUME NEW q \in Publisher, phase'[q] = "exited" PROVE Left(d, q)
    BY <1>1, <2>1 DEF ImageOK, Left, JournalOf
  <2>2. ASSUME NEW q \in Publisher, Unstaged(q)' PROVE d.stage[q] = None
    BY <1>1, <2>2 DEF ImageOK, Onward, Unstaged
  <2>3. d.journal # None => Wrote(d.journal.stage)'
    BY <1>1, <1>3 DEF Wrote, JournalOf
  <2>4. d.journal.state = "prepared"
    BY <1>1 DEF Entry
  <2>5. Authority(d) \in Range(history')
    BY <1>1, <1>2
  <2> QED
    BY <1>1, <2>1, <2>2, <2>3, <2>4, <2>5 DEF ImageOK
<1>5. Images'
  <2>1. ASSUME NEW e \in survivors' PROVE ImageOK(e)'
    <3>1. CASE e = d
      BY <1>4, <3>1
    <3>2. CASE e # d
      <4>1. ImageOK(e)
        BY <1>1, <2>1, <3>2 DEF Images
      <4>2. Authority(e) \in synced' /\ Range(history) \subseteq Range(history)'
        BY <1>1, <1>2, <4>1 DEF ImageOK
      <4>3. \A q \in Publisher : phase'[q] = "exited" => phase[q] = "exited"
        BY <1>1
      <4> QED
        BY <1>1, <4>1, <4>2, <4>3, ImageStays
    <3> QED
      BY <3>1, <3>2
  <2>2. Vanished'
    BY <1>1 DEF Images, Vanished, Left, JournalOf, Entry
  <2>3. Marked'
    BY <1>1 DEF Marked, Entry
  <2>4. TwoAtMost'
    BY <1>1 DEF TwoAtMost
  <2> QED
    BY <1>1, <2>1, <2>2, <2>3, <2>4 DEF Images
<1>6. Works(p)'
  <2>1. disk'.journal = Entry(p, "prepared", disk'.stage[p], disk'.runtime)
    BY <1>1
  <2>2. \A image \in survivors' : JournalOf(image, p) /\ PairMatches(image)
    BY <1>1, <1>3
  <2>3. disk'.stage[p] # None /\ Authority(disk') = p
    BY <1>1, DiskShape, PublicationAssumption DEF ImageOK
  <2> QED
    BY <1>1, <2>1, <2>2, <2>3 DEF Works, Making, Publishing, Settling
<1>7. Working'
  <2>1. ASSUME NEW q \in Publisher \ {p} PROVE Works(q)'
    <3>1. step[q] = "none" /\ step'[q] = "none" /\ phase'[q] = phase[q] /\ Works(q)
      BY <1>1, <2>1, OneHolds DEF Working, OthersStay
    <3> QED
      BY <1>1, <3>1, OthersWait DEF JournalOf
  <2> QED
    BY <1>6, <2>1 DEF Working
<1>8. HistoryOK'
  <2>1. Swapped(p)'
    BY <1>1 DEF Swapped
  <2> QED
    BY <1>1, <1>2, <2>1 DEF HistoryOK, Onward
<1>9. RanksOK'
  <2>1. ASSUME NEW q \in Publisher, phase'[q] = "closing" \/ status'[q] = "published"
        PROVE  q \in Range(history) /\ \A image \in survivors : Rank(Authority(image)) >= Rank(q)
    BY <1>1, <2>1 DEF RanksOK, OthersStay, Reports
  <2>2. ASSUME NEW q \in Publisher, phase'[q] = "closing" \/ status'[q] = "published",
               NEW image \in survivors'
        PROVE  Position(history', Authority(image)) >= Position(history', q)
    <3>1. q \in Range(history)
      BY <2>1, <2>2
    <3>2. CASE image \in survivors
      <4>1. Authority(image) \in Range(history)
        BY <3>2 DEF Images, ImageOK
      <4> QED
        BY <1>2, <2>1, <2>2, <3>1, <3>2, <4>1 DEF Rank, Position
    <3>3. CASE image = d
      <4>1. Position(history', q) \in 1..Len(history)
        BY <1>2, <3>1
      <4> QED
        BY <1>1, <1>2, <3>3, <4>1
    <3> QED
      BY <1>1, <2>2, <3>2, <3>3
  <2>3. ASSUME NEW q \in Publisher, phase'[q] = "closing" \/ status'[q] = "published"
        PROVE  q \in Range(history')
    BY <1>2, <2>1, <2>3
  <2> QED
    BY <2>2, <2>3 DEF RanksOK, Rank, Position
<1> QED
  BY <1>1, <1>5, <1>7, <1>8, <1>9

-----------------------------------------------------------------------------
(* The steps of a script that write to the directory and flush it. *)

(* The directory becomes d, and durable, with the names of the others.       *)
LEMMA ReplaceKeeps ==
  ASSUME PublicationInv, NEW p \in Publisher, NEW d,
         Control', OthersStay(p), Onward, Reports(p), step[p] = "none",
         disk' = d, survivors' = {d}, synced' = synced, history' = history,
         phase'[p] # "closing",
         ImageOK(d)', Authority(d) = Authority(disk),
         d.runtime = disk.runtime, d.journal = disk.journal,
         d.stage[p] = disk.stage[p] \/ ~JournalOf(disk, p),
         \A q \in Publisher \ {p} :
           /\ d.stage[q] = disk.stage[q]
           /\ disk.stage[q] # None => d.tree[disk.stage[q]] = disk.tree[disk.stage[q]],
         Works(p)'
  PROVE  PublicationInv'
<1> USE DEF PublicationInv
<1>1. disk \in Disk /\ ImageOK(disk) /\ disk \in survivors
  BY DEF Images, ImageOK
<1>2. d.journal # None => d.stage[d.journal.stage] = disk.stage[d.journal.stage]
  BY <1>1, DiskShape DEF JournalOf
<1>3. \A q \in Publisher :
        /\ JournalOf(d, q) <=> JournalOf(disk, q)
        /\ JournalOf(disk, q) => (PairMatches(d) <=> PairMatches(disk))
  BY <1>1, <1>2 DEF JournalOf, PairMatches
<1>4. d.journal # None /\ d.journal.state = "exchanged" => Recoverable(d)
  BY DEF ImageOK, Recoverable, PairMatches, OnlyJournalLeft
<1>5. Images'
  <2>1. Vanished'
    BY DEF Vanished, Left
  <2>2. Marked'
    BY <1>4 DEF Marked, JournalOf
  <2>3. TwoAtMost'
    BY DEF TwoAtMost
  <2> QED
    BY <2>1, <2>2, <2>3 DEF Images
<1>6. Working'
  <2>1. ASSUME NEW q \in Publisher \ {p} PROVE Works(q)'
    <3>1. /\ Works(q) /\ phase'[q] = phase[q] /\ step'[q] = step[q]
          /\ d.stage[q] = disk.stage[q]
          /\ disk.stage[q] # None => d.tree[disk.stage[q]] = disk.tree[disk.stage[q]]
      BY <2>1 DEF Working, OthersStay
    <3>2. Making(q)'
      BY <3>1 DEF Works, Making
    <3>3. Publishing(q)'
      BY <1>1, <1>3, <3>1 DEF Works, Publishing
    <3>4. Settling(q)'
      BY <1>2, <1>3, <3>1 DEF Works, Settling, Left
    <3> QED
      BY <3>2, <3>3, <3>4 DEF Works
  <2> QED
    BY <2>1 DEF Working
<1>7. HistoryOK' /\ RanksOK'
  <2>1. ASSUME NEW q \in Publisher, phase'[q] = "closing" \/ status'[q] = "published"
        PROVE  phase[q] = "closing" \/ status[q] = "published"
    BY <2>1 DEF OthersStay, Reports
  <2>2. \A x \in survivors' : \E y \in survivors : Authority(x) = Authority(y)
    BY <1>1
  <2> QED
    BY <2>1, <2>2, RanksStay
<1> QED
  BY <1>5, <1>6, <1>7

(* mkdtemp makes a stage from a free inode; the images before it have none.  *)
LEMMA MakeStageMoves ==
  ASSUME PublicationInv, NEW p \in Publisher, MakeStage(p)
  PROVE  \E i \in Inode, d \in Disk :
           /\ disk' = d /\ survivors' = survivors \cup {d}
           /\ synced' = synced /\ history' = history
           /\ step[p] = "none" /\ step' = step /\ phase'[p] = "made"
           /\ Control' /\ OthersStay(p) /\ Onward /\ Reports(p) /\ Ends(p)
           /\ ImageOK(disk) /\ NamesOK(d) /\ Authority(d) = Authority(disk)
           /\ d.runtime = disk.runtime /\ d.journal = disk.journal /\ d.stage[p] = i
           /\ \A r \in Publisher \ {p} :
                /\ d.stage[r] = disk.stage[r]
                /\ disk.stage[r] # None => d.tree[disk.stage[r]] = disk.tree[disk.stage[r]]
           /\ ~JournalOf(disk, p)
           /\ d.journal # None => d.journal.stage \in Publisher \ {p}
<1> USE DEF PublicationInv
<1>1. PICK i \in Inode : /\ disk.tree[i] = "free"
                         /\ Write(WithStage(disk, p, i))
  BY DEF MakeStage, WithStage
<1>2. PICK d : d = WithStage(disk, p, i)
  OBVIOUS
<1>3. /\ disk' = d /\ survivors' = survivors \cup {d} /\ phase[p] = "staging"
      /\ synced' = synced /\ history' = history
      /\ phase' = [phase EXCEPT ![p] = "made"]
  BY <1>1, <1>2 DEF MakeStage, Write
<1>4. step[p] = "none"
  BY <1>3 DEF Control, Held, Recovering, RecoverySteps, PublishSteps
<1>5. /\ Control' /\ OthersStay(p) /\ Onward /\ Reports(p) /\ Ends(p)
      /\ phase'[p] = "made" /\ step' = step
  BY <1>3, <1>4, ScriptMoves DEF MakeStage, Control, Phases
<1>6. disk \in Disk /\ ImageOK(disk) /\ NamesOK(disk) /\ disk.stage[p] = None
  BY <1>3 DEF Images, ImageOK, Unstaged
<1>7. disk.tree[disk.runtime] # "free"
  BY <1>6, PublicationAssumption DEF ImageOK, Authority, HistoryOK, Range, Generation
<1>8. /\ d \in Disk /\ NamesOK(d) /\ Authority(d) = Authority(disk)
      /\ d.runtime = disk.runtime /\ d.journal = disk.journal /\ d.stage[p] = i
      /\ \A r \in Publisher \ {p} :
           /\ d.stage[r] = disk.stage[r]
           /\ disk.stage[r] # None => d.tree[disk.stage[r]] = disk.tree[disk.stage[r]]
  BY <1>1, <1>2, <1>6, <1>7, StageComes
<1>9. ~Wrote(p) /\ ~JournalOf(disk, p)
  BY <1>3, <1>4, <1>6 DEF ImageOK, JournalOf, Wrote, Later, Exited
<1>10. d.journal # None => d.journal.stage \in Publisher \ {p}
  BY <1>6, <1>8, <1>9, DiskShape DEF JournalOf
<1> QED
  BY <1>3, <1>4, <1>5, <1>6, <1>8, <1>9, <1>10

LEMMA MakeStageKeeps ==
  ASSUME PublicationInv, NEW p \in Publisher, MakeStage(p)
  PROVE  PublicationInv'
<1> USE DEF PublicationInv
<1>1. PICK i \in Inode, d \in Disk :
        /\ disk' = d /\ survivors' = survivors \cup {d}
        /\ synced' = synced /\ history' = history
        /\ step[p] = "none" /\ step' = step /\ phase'[p] = "made"
        /\ Control' /\ OthersStay(p) /\ Onward /\ Reports(p) /\ Ends(p)
        /\ ImageOK(disk) /\ NamesOK(d) /\ Authority(d) = Authority(disk)
        /\ d.runtime = disk.runtime /\ d.journal = disk.journal /\ d.stage[p] = i
        /\ \A r \in Publisher \ {p} :
             /\ d.stage[r] = disk.stage[r]
             /\ disk.stage[r] # None => d.tree[disk.stage[r]] = disk.tree[disk.stage[r]]
        /\ ~JournalOf(disk, p)
        /\ d.journal # None => d.journal.stage \in Publisher \ {p}
  BY MakeStageMoves
<1>2. /\ d.journal # None => d.stage[d.journal.stage] = disk.stage[d.journal.stage]
      /\ disk \in survivors /\ i # None
  BY <1>1, PublicationAssumption DEF Images
<1>3. /\ \A q : JournalOf(d, q) <=> JournalOf(disk, q)
      /\ d.journal # None => (PairMatches(d) <=> PairMatches(disk))
      /\ d.journal # None => (Recoverable(d) <=> Recoverable(disk))
  BY <1>1, <1>2 DEF JournalOf, PairMatches, OnlyJournalLeft, Recoverable
<1>4. \A q \in Publisher \ {p} : Left(disk, q) => Left(d, q)
  BY <1>1, <1>3 DEF Left, JournalOf
<1>5. ImageOK(d)'
  <2>1. ASSUME NEW q \in Publisher, phase'[q] = "exited" PROVE Left(d, q)
    BY <1>1, <1>4, <2>1 DEF ImageOK, OthersStay
  <2>2. ASSUME NEW q \in Publisher, Unstaged(q)' PROVE d.stage[q] = None
    BY <1>1, <2>2 DEF ImageOK, Onward, Unstaged
  <2>3. d.journal # None => Wrote(d.journal.stage)'
    <3> SUFFICES ASSUME d.journal # None PROVE Wrote(d.journal.stage)'
      OBVIOUS
    <3>1. PICK r \in Publisher : r = d.journal.stage
      BY <1>1
    <3>2. Wrote(r)'
      BY <1>1, <3>1 DEF ImageOK, Onward
    <3> QED
      BY <3>1, <3>2
  <2>4. d.journal # None /\ d.journal.state = "exchanged" =>
          d.runtime = d.journal.candidate /\ d.stage[d.journal.stage] \in {d.journal.old, None}
    BY <1>1, <1>2 DEF ImageOK
  <2> QED
    BY <1>1, <2>1, <2>2, <2>3, <2>4 DEF ImageOK
<1>6. Images'
  <2>1. ASSUME NEW e \in survivors PROVE ImageOK(e)'
    <3>1. Authority(e) \in synced' /\ ImageOK(e)
      BY <1>1 DEF Images, ImageOK
    <3>2. \A q \in Publisher : phase'[q] = "exited" => phase[q] = "exited"
      BY <1>1 DEF OthersStay
    <3> QED
      BY <1>1, <3>1, <3>2, ImageStays
  <2>2. Vanished'
    <3> SUFFICES ASSUME NEW q \in Publisher, d.stage[q] = None, ~JournalOf(d, q),
                        NEW image \in survivors \cup {d}
                 PROVE  Left(image, q)
      BY <1>1 DEF Vanished, Left, JournalOf
    <3>1. q # p /\ disk.stage[q] = None /\ ~JournalOf(disk, q)
      BY <1>1, <1>2, <1>3
    <3> QED
      BY <3>1 DEF Images, Vanished, Left
  <2>3. Marked'
    <3> SUFFICES ASSUME d.journal # None, d.journal.state = "exchanged",
                        NEW image \in survivors \cup {d}
                 PROVE  JournalOf(image, d.journal.stage) /\ Recoverable(image)
      BY <1>1 DEF Marked, JournalOf
    <3> QED
      BY <1>1, <1>2, <1>3 DEF Images, Marked
  <2>4. TwoAtMost'
    BY <1>1, <1>2 DEF Images, TwoAtMost
  <2>5. synced' \subseteq Generation
    BY <1>1 DEF Images
  <2> QED
    BY <1>1, <1>5, <2>1, <2>2, <2>3, <2>4, <2>5 DEF Images
<1>7. Working'
  <2>1. Works(p)'
    BY <1>1, <1>2, <1>3 DEF Works, Making, Publishing, Settling
  <2>2. ASSUME NEW q \in Publisher \ {p} PROVE Works(q)'
    <3>1. /\ Works(q) /\ phase'[q] = phase[q] /\ step'[q] = step[q]
          /\ d.stage[q] = disk.stage[q]
          /\ disk.stage[q] # None => d.tree[disk.stage[q]] = disk.tree[disk.stage[q]]
      BY <1>1, <2>2 DEF Working, OthersStay
    <3>2. Making(q)'
      BY <1>1, <3>1 DEF Works, Making
    <3>3. Publishing(q)'
      <4>1. step[q] \in {"exchange", "exchanged", "mark", "marked"} =>
              JournalOf(d, q) /\ PairMatches(d)
        BY <1>1, <1>2, <1>3, <3>1 DEF Works, Publishing, JournalOf
      <4> QED
        BY <1>1, <3>1, <4>1 DEF Works, Publishing
    <3>4. Settling(q)'
      <4>1. step[q] = "unlink" => Left(d, d.journal.stage)
        BY <1>1, <1>2, <1>4, <3>1 DEF Works, Settling
      <4> QED
        BY <1>1, <1>2, <1>3, <3>1, <4>1 DEF Works, Settling, Left
    <3> QED
      BY <3>2, <3>3, <3>4 DEF Works
  <2> QED
    BY <2>1, <2>2 DEF Working
<1>8. HistoryOK' /\ RanksOK'
  <2>1. ASSUME NEW q \in Publisher, phase'[q] = "closing" \/ status'[q] = "published"
        PROVE  phase[q] = "closing" \/ status[q] = "published"
    BY <1>1, <2>1 DEF OthersStay, Reports
  <2>2. \A x \in survivors' : \E y \in survivors : Authority(x) = Authority(y)
    BY <1>1, <1>2
  <2> QED
    BY <1>1, <2>1, <2>2, RanksStay
<1> QED
  BY <1>1, <1>6, <1>7, <1>8

(* The end of fresh-dir makes the stage durable.                             *)
LEMMA SyncStageKeeps ==
  ASSUME PublicationInv, NEW p \in Publisher, SyncStage(p)
  PROVE  PublicationInv'
<1> USE DEF PublicationInv
<1>1. step[p] = "none"
  BY DEF Control, Held, SyncStage, Recovering, RecoverySteps, PublishSteps
<1>2. /\ Control' /\ OthersStay(p) /\ Onward /\ Reports(p) /\ Ends(p)
      /\ phase'[p] = "staged" /\ step' = step
  BY <1>1, ScriptMoves DEF SyncStage, Phases, Control
<1>3. Works(p)'
  BY <1>1, <1>2 DEF Working, Works, Making, Publishing, Settling, SyncStage
<1> QED
  BY <1>2, <1>3, SameDirectory DEF SyncStage, FsyncParent, Images

(* The trap is set by a script that knows its stage.                         *)
LEMMA SetTrapKeeps ==
  ASSUME PublicationInv, NEW p \in Publisher, SetTrap(p)
  PROVE  PublicationInv'
<1> USE DEF PublicationInv
<1>1. step[p] = "none"
  BY DEF Control, Held, SetTrap, Recovering, RecoverySteps, PublishSteps
<1>2. /\ Control' /\ OthersStay(p) /\ Onward /\ Reports(p) /\ Ends(p)
      /\ phase'[p] = "copying" /\ step' = step
  BY <1>1, ScriptMoves DEF SetTrap, Phases, Control
<1>3. Works(p)'
  BY <1>1, <1>2 DEF Working, Works, Making, Publishing, Settling, SetTrap
<1> QED
  BY <1>2, <1>3, SameDirectory DEF SetTrap, Images

(* The stage is built, whole or not.                                         *)
LEMMA BuildKeeps ==
  ASSUME PublicationInv, NEW p \in Publisher, Build(p)
  PROVE  PublicationInv'
<1> USE DEF PublicationInv
<1>1. step[p] = "none"
  BY DEF Control, Held, Build, Recovering, RecoverySteps, PublishSteps
<1>2. CASE ScriptFails(p) /\ UNCHANGED <<disk, survivors>>
  <2>1. /\ Control' /\ OthersStay(p) /\ Onward /\ Ends(p) /\ Reports(p)
        /\ step'[p] = "none"
        /\ phase'[p] \in {"exited", "stranded", "unclean", "trap"}
    BY <1>2, FailMoves DEF Build, Exited, Control
  <2> QED
    BY <1>2, <2>1, HelperEnded DEF Build, Images, Exited
<1>3. ASSUME NEW tree \in {"partial", p},
             disk' = [disk EXCEPT !.tree[disk.stage[p]] = tree],
             FsyncParent, phase' = [phase EXCEPT ![p] = "verifying"],
             UNCHANGED <<lock, step, status>>
      PROVE  PublicationInv'
  <2>1. PICK d : d = [disk EXCEPT !.tree[disk.stage[p]] = tree]
    OBVIOUS
  <2>2. /\ disk' = d /\ survivors' = {d} /\ phase[p] = "building" /\ history' = history
        /\ synced' = synced
    BY <1>3, <2>1 DEF Build, FsyncParent
  <2>3. /\ Control' /\ OthersStay(p) /\ Onward /\ Reports(p) /\ Ends(p)
        /\ phase'[p] = "verifying" /\ step' = step
    BY <1>1, <1>3, <2>2, ScriptMoves DEF Build, Control, Phases
  <2>4. /\ disk \in Disk /\ ImageOK(disk) /\ NamesOK(disk) /\ disk.stage[p] # None
    BY <1>1, <2>2 DEF Images, ImageOK, Working, Works, Making
  <2>5. tree \in Generation \cup {"partial"}
    BY DEF Generation
  <2>6. /\ SameNames(disk, d)
        /\ \A i \in Inode \ {disk.stage[p]} : d.tree[i] = disk.tree[i]
    BY <2>1, <2>4, <2>5, StageChanges
  <2>7. ImageOK(d)
    BY <2>4, <2>6, SameNamesKeep
  <2>8. ImageOK(d)'
    <3>1. Authority(d) \in synced' /\ Range(history) \subseteq Range(history)'
      BY <2>2, <2>7 DEF ImageOK
    <3>2. \A q \in Publisher : phase'[q] = "exited" => phase[q] = "exited" \/ Unstaged(q)
      BY <2>3 DEF OthersStay
    <3> QED
      BY <2>3, <2>7, <3>1, <3>2, ImageStays
  <2>9. /\ d.runtime = disk.runtime /\ d.journal = disk.journal /\ d.stage = disk.stage
        /\ Authority(d) = Authority(disk)
    BY <2>6 DEF SameNames
  <2>10. \A q \in Publisher \ {p} :
           disk.stage[q] # None => d.tree[disk.stage[q]] = disk.tree[disk.stage[q]]
    <3> SUFFICES ASSUME NEW q \in Publisher \ {p}, disk.stage[q] # None
                 PROVE  d.tree[disk.stage[q]] = disk.tree[disk.stage[q]]
      OBVIOUS
    <3>1. disk.stage[q] \in Inode \ {disk.stage[p]}
      BY <2>4, DiskShape DEF NamesOK
    <3> QED
      BY <2>6, <3>1
  <2>11. Works(p)'
    <3>1. disk'.stage[p] # None
      BY <2>2, <2>4, <2>9
    <3> QED
      BY <1>1, <2>3, <3>1 DEF Works, Making, Publishing, Settling
  <2> QED
    BY <1>1, <2>2, <2>3, <2>8, <2>9, <2>10, <2>11, ReplaceKeeps
<1> QED
  BY <1>2, <1>3 DEF Build

(* The trap removes the stage of its own script, which no journal names.     *)
LEMMA RemoveStageKeeps ==
  ASSUME PublicationInv, NEW p \in Publisher, RemoveStage(p)
  PROVE  PublicationInv'
<1> USE DEF PublicationInv
<1>1. step[p] = "none" /\ phase[p] = "sweeping"
  BY DEF Control, Held, RemoveStage, Recovering, RecoverySteps, PublishSteps
<1>2. /\ Control' /\ OthersStay(p) /\ Onward /\ Reports(p)
      /\ phase'[p] = "exited" /\ step' = step
  BY <1>1, ScriptMoves DEF RemoveStage, Control, Phases, Exited
<1>3. /\ disk \in Disk /\ ImageOK(disk) /\ NamesOK(disk) /\ ~JournalOf(disk, p)
      /\ synced' = synced /\ history' = history
  BY <1>1 DEF Images, ImageOK, Working, Works, Settling, RemoveStage
<1>4. CASE disk.stage[p] = None
  <2>1. Works(p)'
    BY <1>1, <1>2 DEF Works, Making, Publishing, Settling
  <2>2. \A image \in survivors : Left(image, p)
    BY <1>3, <1>4 DEF Images, Vanished
  <2> QED
    BY <1>2, <1>3, <1>4, <2>1, <2>2, SameDirectory DEF RemoveStage, Images
<1>5. CASE disk.stage[p] # None
  <2>1. PICK d : d = [disk EXCEPT !.tree[disk.stage[p]] = "free", !.stage[p] = None]
    OBVIOUS
  <2>2. disk' = d /\ survivors' = {d}
    BY <1>5, <2>1 DEF RemoveStage, FsyncParent
  <2>3. /\ d \in Disk /\ NamesOK(d) /\ Authority(d) = Authority(disk)
        /\ d.runtime = disk.runtime /\ d.journal = disk.journal /\ d.stage[p] = None
        /\ \A r \in Publisher \ {p} :
             /\ d.stage[r] = disk.stage[r]
             /\ disk.stage[r] # None => d.tree[disk.stage[r]] = disk.tree[disk.stage[r]]
    BY <1>3, <1>5, <2>1, StageGoes
  <2>4. d.journal # None => d.stage[d.journal.stage] = disk.stage[d.journal.stage]
    BY <1>3, <2>3, DiskShape DEF JournalOf
  <2>5. ImageOK(d)
    <3>1. ASSUME NEW q \in Publisher, phase[q] = "exited" PROVE Left(d, q)
      <4>1. q # p /\ Left(disk, q) /\ d.stage[q] = disk.stage[q]
        BY <1>1, <1>3, <2>3, <3>1 DEF ImageOK
      <4>2. JournalOf(disk, q) => JournalOf(d, q) /\ (Recoverable(d) <=> Recoverable(disk))
        BY <2>3, <2>4 DEF JournalOf, Recoverable, PairMatches, OnlyJournalLeft
      <4> QED
        BY <4>1, <4>2 DEF Left
    <3>2. \A q \in Publisher : Unstaged(q) => d.stage[q] = None
      BY <1>3, <2>3 DEF ImageOK
    <3> QED
      BY <1>3, <2>3, <2>4, <3>1, <3>2 DEF ImageOK
  <2>6. ImageOK(d)'
    <3>1. Authority(d) \in synced' /\ Range(history) \subseteq Range(history)'
      BY <1>3, <2>5 DEF ImageOK
    <3>2. \A q \in Publisher : phase'[q] = "exited" => phase[q] = "exited" \/ Left(d, q)
      BY <1>2, <2>3 DEF OthersStay, Left
    <3> QED
      BY <1>2, <2>5, <3>1, <3>2, ImageStays
  <2>7. Works(p)'
    BY <1>1, <1>2 DEF Works, Making, Publishing, Settling
  <2> QED
    BY <1>1, <1>2, <1>3, <2>2, <2>3, <2>6, <2>7, ReplaceKeeps
<1> QED
  BY <1>4, <1>5

(* A loss of power leaves one of the images, with torn files where nothing   *)
(* was flushed; no script runs and no helper does anything afterwards.       *)
LEMMA PowerLossImage ==
  ASSUME PublicationInv, PowerLoss
  PROVE  \E image \in survivors : \E d :
           disk' = d /\ survivors' = {d} /\ SameNames(image, d)
<1> USE DEF PublicationInv
<1>0. PICK image \in survivors :
        \E torn \in SUBSET {i \in Inode : image.tree[i] \in Generation \ synced} :
          disk' = [image EXCEPT !.tree =
                     [i \in Inode |-> IF i \in torn THEN "partial" ELSE image.tree[i]]]
  BY DEF PowerLoss
<1>1. PICK torn \in SUBSET {i \in Inode : image.tree[i] \in Generation \ synced} :
        disk' = [image EXCEPT !.tree =
                   [i \in Inode |-> IF i \in torn THEN "partial" ELSE image.tree[i]]]
  BY <1>0
<1>2. PICK d : d = [image EXCEPT !.tree =
                      [i \in Inode |-> IF i \in torn THEN "partial" ELSE image.tree[i]]]
  OBVIOUS
<1>3. disk' = d /\ survivors' = {d}
  BY <1>1, <1>2 DEF PowerLoss
<1>4. image \in Disk /\ ImageOK(image) /\ NamesOK(image)
  BY DEF Images, ImageOK
<1>5. /\ d.runtime = image.runtime /\ d.stage = image.stage /\ d.journal = image.journal
      /\ d.tree = [i \in Inode |-> IF i \in torn THEN "partial" ELSE image.tree[i]]
  BY <1>2, <1>4 DEF Disk
<1>6. d.tree \in [Inode -> Generation \cup {"partial", "free"}]
  BY <1>4, <1>5, DiskShape
<1>7. d \in Disk
  <2>1. d = [image EXCEPT !.tree = d.tree]
    BY <1>2, <1>5
  <2> QED
    BY <1>4, <1>6, <2>1 DEF Disk
<1>8. Authority(d) = Authority(image)
  <2>1. d.runtime \in Inode /\ d.runtime \notin torn
    <3>1. d.runtime = image.runtime /\ d.runtime \in Inode
      BY <1>4, <1>5, DiskShape
    <3>2. image.tree[image.runtime] \in synced
      BY <1>4 DEF ImageOK, Authority
    <3> QED
      BY <1>1, <3>1, <3>2
  <2> QED
    BY <1>5, <2>1 DEF Authority
<1>9. ASSUME NEW p \in Publisher, image.stage[p] # None, image.tree[image.stage[p]] # "free"
      PROVE  d.tree[image.stage[p]] # "free"
  <2>1. image.stage[p] \in Inode
    BY <1>4, <1>9, DiskShape
  <2> QED
    BY <1>5, <1>9, <2>1
<1>10. SameNames(image, d)
  BY <1>5, <1>7, <1>8, <1>9 DEF SameNames
<1> QED
  BY <1>3, <1>10

(* A loss of power keeps the invariant: every image already satisfied it.    *)
LEMMA PowerLossKeeps ==
  ASSUME PublicationInv, PowerLoss
  PROVE  PublicationInv'
<1> USE DEF PublicationInv
<1>0. PICK image \in survivors : \E d :
          disk' = d /\ survivors' = {d} /\ SameNames(image, d)
  BY PowerLossImage
<1>1. PICK d : disk' = d /\ survivors' = {d} /\ SameNames(image, d)
  BY <1>0
<1>2. /\ Control' /\ Onward
      /\ \A q \in Publisher :
           /\ step'[q] = "none"
           /\ phase'[q] \in {"idle"} \cup Exited
           /\ phase'[q] = "exited" => phase[q] = "exited"
           /\ status'[q] = status[q]
  BY LossMoves
<1>3. synced' = synced /\ history' = history
  BY DEF PowerLoss
<1>4. ImageOK(d)
  BY <1>1, SameNamesKeep DEF Images
<1>5. ImageOK(d)'
  <2>1. Authority(d) \in synced' /\ Range(history) \subseteq Range(history)'
    BY <1>3, <1>4 DEF ImageOK
  <2>2. \A q \in Publisher : phase'[q] = "exited" => phase[q] = "exited"
    BY <1>2
  <2> QED
    BY <1>2, <1>4, <2>1, <2>2, ImageStays
<1>6. Images'
  <2>1. Vanished'
    BY <1>1 DEF Vanished, Left
  <2>2. d.journal # None /\ d.journal.state = "exchanged" => Recoverable(d)
    BY <1>4 DEF ImageOK, Recoverable, PairMatches, OnlyJournalLeft
  <2>3. Marked'
    BY <1>1, <2>2 DEF Marked, JournalOf
  <2>4. TwoAtMost'
    BY <1>1 DEF TwoAtMost
  <2> QED
    BY <1>1, <1>3, <1>5, <2>1, <2>3, <2>4 DEF Images
<1>7. Working'
  BY <1>2 DEF Working, Works, Making, Publishing, Settling, Exited
<1>8. HistoryOK' /\ RanksOK'
  <2>1. ASSUME NEW q \in Publisher, phase'[q] = "closing" \/ status'[q] = "published"
        PROVE  phase[q] = "closing" \/ status[q] = "published"
    BY <1>2, <2>1 DEF Exited
  <2>2. \A x \in survivors' : \E y \in survivors : Authority(x) = Authority(y)
    BY <1>1 DEF SameNames
  <2> QED
    BY <1>2, <1>3, <2>1, <2>2, RanksStay
<1> QED
  BY <1>2, <1>6, <1>7, <1>8

-----------------------------------------------------------------------------
(* The inductive invariant. *)

(* The invariant holds of a checkout as it was shipped.                      *)
LEMMA PublicationInit ==
  Init => PublicationInv
<1> SUFFICES ASSUME Init PROVE PublicationInv
  OBVIOUS
<1>1. PICK i \in Inode :
        /\ disk = [runtime |-> i, stage |-> [p \in Publisher |-> None], journal |-> None,
                   tree |-> [j \in Inode |-> IF j = i THEN Shipped ELSE "free"]]
        /\ synced = {Shipped}
  BY DEF Init
<1>2. None \notin Inode /\ None \notin Publisher
  BY PublicationAssumption
<1>3. Control
  BY <1>2, PublicationAssumption DEF Init, Control, Held, Phases, RecoverySteps, PublishSteps
<1>4. /\ history = <<Shipped>> /\ Range(history) = {Shipped}
      /\ history \in Seq(Generation) /\ IsInjective(history)
  BY DEF Init, Range, Generation, IsInjective
<1>5. ImageOK(disk)
  <2>1. /\ disk \in Disk /\ disk.runtime = i /\ disk.journal = None
        /\ \A p \in Publisher : disk.stage[p] = None
        /\ Authority(disk) = Shipped
    BY <1>1 DEF Disk, Authority, Generation
  <2> QED
    BY <1>1, <1>2, <1>4, <2>1 DEF ImageOK, NamesOK, Left
<1>6. Images
  <2>1. survivors = {disk}
    BY DEF Init
  <2>2. disk.journal = None
    BY <1>1
  <2>3. Vanished
    BY <2>1 DEF Vanished, Left
  <2> QED
    BY <1>1, <1>5, <2>1, <2>2, <2>3 DEF Images, Marked, TwoAtMost, Generation
<1>7. Working
  BY DEF Init, Working, Works, Making, Publishing, Settling
<1>8. HistoryOK
  BY <1>4, PublicationAssumption DEF HistoryOK
<1>9. RanksOK
  BY DEF Init, RanksOK
<1> QED
  BY <1>3, <1>6, <1>7, <1>8, <1>9 DEF PublicationInv

(* Every step keeps the invariant.                                           *)
LEMMA PublicationNext ==
  PublicationInv /\ [Next]_vars => PublicationInv'
<1> SUFFICES ASSUME PublicationInv, [Next]_vars PROVE PublicationInv'
  OBVIOUS
<1>1. ASSUME NEW p \in Publisher, HelperStep(p) PROVE PublicationInv'
  BY <1>1, RecoverKeeps, RemoveContentsKeeps, RemoveEntryKeeps, SyncRemovalKeeps,
     RemoveJournalKeeps, EndRecoveryKeeps, PublishKeeps, FlushKeeps, PrepareKeeps,
     SyncPreparedKeeps, ExchangeKeeps, SyncExchangeKeeps, MarkKeeps, EndPublishKeeps
     DEF HelperStep
<1>2. ASSUME NEW p \in Publisher, ScriptStep(p) PROVE PublicationInv'
  BY <1>2, MakeStageKeeps, SyncStageKeeps, SetTrapKeeps, BeginCopyKeeps, BuildKeeps,
     VerifyKeeps, CleanupKeeps, RemoveStageKeeps DEF ScriptStep
<1>3. CASE UNCHANGED vars
  BY <1>3 DEF vars, PublicationInv, Control, Held, Images, ImageOK, NamesOK, Vanished, Marked,
     TwoAtMost, Working, Works, Making, Publishing, Settling, HistoryOK, RanksOK, Rank, Wrote,
     Swapped, Unstaged
<1> QED
  BY <1>1, <1>2, <1>3, StartKeeps, HelperFailsKeeps, KillKeeps, PowerLossKeeps DEF Next

(* The invariant holds in every state.                                       *)
LEMMA PublicationInvariant ==
  Spec => []PublicationInv
BY PublicationInit, PublicationNext, PTL DEF Spec

-----------------------------------------------------------------------------
(* The properties. *)

(* Scripts, helpers, the lock, the directory and its journal always have the *)
(* states the code gives them, whatever was killed.                          *)
THEOREM PublicationTypeCorrect == Spec => []TypeOK
<1>1. PublicationInv => TypeOK
  <2> SUFFICES ASSUME PublicationInv PROVE TypeOK
    OBVIOUS
  <2>1. /\ disk \in Disk /\ disk \in survivors /\ synced \subseteq Generation
        /\ history \in Seq(Generation) /\ IsInjective(history)
    BY DEF PublicationInv, Images, ImageOK, HistoryOK
  <2>2. Range(history) \subseteq Generation
    BY <2>1 DEF Range
  <2>3. Control
    BY DEF PublicationInv
  <2> QED
    BY <2>1, <2>2, <2>3 DEF TypeOK, Disk, Control, Phases, RecoverySteps, PublishSteps
<1> QED
  BY <1>1, PublicationInvariant, PTL

(* Processes opening the authoritative name find a whole, verified           *)
(* generation in every state, and what a publisher reported is never undone, *)
(* for any number of publishers, killed helpers and losses of power.         *)
THEOREM RuntimeAlwaysSurvives == Spec => []RuntimeSurvives
<1>1. PublicationInv => RuntimeSurvives
  BY DEF PublicationInv, Images, ImageOK, HistoryOK, RanksOK, RuntimeSurvives, Range
<1> QED
  BY <1>1, PublicationInvariant, PTL

(* recover() knows how to go on from every journal that says "exchanged",    *)
(* whoever finds it and whichever of its removals were done.                 *)
THEOREM ExchangedAlwaysRecovers == Spec => []ExchangedIsRecoverable
<1>1. PublicationInv => ExchangedIsRecoverable
  <2> SUFFICES ASSUME PublicationInv, disk.journal # None, disk.journal.state # "prepared"
               PROVE  Recoverable(disk)
    BY DEF ExchangedIsRecoverable
  <2>1. ImageOK(disk) /\ disk \in Disk
    BY DEF PublicationInv, Images, ImageOK
  <2>2. disk.journal.state = "exchanged"
    BY <2>1, DiskShape
  <2> QED
    BY <2>1, <2>2 DEF ImageOK, Recoverable, PairMatches, OnlyJournalLeft
<1> QED
  BY <1>1, PublicationInvariant, PTL

(* A script that ran to the end of its trap, or failed before it had a       *)
(* stage, leaves a stage only to a journal from which the next recovery      *)
(* removes it.                                                               *)
THEOREM EndedAlwaysLeavesNoStage == Spec => []EndedLeavesNoStage
<1>1. PublicationInv => EndedLeavesNoStage
  BY DEF PublicationInv, Images, ImageOK, Left, JournalOf, EndedLeavesNoStage
<1> QED
  BY <1>1, PublicationInvariant, PTL

-----------------------------------------------------------------------------
(* Publication implements RuntimeGenerations. *)

(* Images with another authority than d agree on it, and durable chooses it. *)
LEMMA OneEarlier ==
  ASSUME NEW d, NEW images, d \in images,
         \A x, y \in images :
           Authority(x) # Authority(d) /\ Authority(y) # Authority(d) => Authority(x) = Authority(y),
         NEW durable,
         durable = LET earlier == {Authority(image) : image \in images} \ {Authority(d)}
                   IN  IF earlier = {} THEN Authority(d) ELSE CHOOSE g \in earlier : TRUE
  PROVE  /\ (\A image \in images : Authority(image) = Authority(d)) => durable = Authority(d)
         /\ \A image \in images : Authority(image) # Authority(d) => durable = Authority(image)
<1> DEFINE earlier == {Authority(image) : image \in images} \ {Authority(d)}
<1>1. durable = IF earlier = {} THEN Authority(d) ELSE CHOOSE g \in earlier : TRUE
  OBVIOUS
<1>2. ASSUME NEW image \in images, Authority(image) # Authority(d)
      PROVE  earlier = {Authority(image)}
  BY <1>2
<1>3. (\A image \in images : Authority(image) = Authority(d)) => earlier = {}
  OBVIOUS
<1> HIDE DEF earlier
<1> QED
  BY <1>1, <1>2, <1>3

(* What Durable is in a state,                                               *)
LEMMA DurableIs ==
  ASSUME Images
  PROVE  /\ (\A image \in survivors : Authority(image) = Authority(disk)) =>
              Durable = Authority(disk)
         /\ \A image \in survivors : Authority(image) # Authority(disk) =>
              Durable = Authority(image)
BY OneEarlier DEF Images, TwoAtMost, Durable

(* and in the next one.                                                      *)
LEMMA DurableIsNext ==
  ASSUME Images'
  PROVE  /\ (\A image \in survivors' : Authority(image) = Authority(disk')) =>
              Durable' = Authority(disk')
         /\ \A image \in survivors' : Authority(image) # Authority(disk') =>
              Durable' = Authority(image)
<1>1. PICK d, images : d = disk' /\ images = survivors'
  OBVIOUS
<1>2. PICK durable : durable = Durable'
  OBVIOUS
<1>3. /\ d \in images
      /\ \A x, y \in images :
           Authority(x) # Authority(d) /\ Authority(y) # Authority(d) => Authority(x) = Authority(y)
      /\ durable = LET earlier == {Authority(image) : image \in images} \ {Authority(d)}
                   IN  IF earlier = {} THEN Authority(d) ELSE CHOOSE g \in earlier : TRUE
  BY <1>1, <1>2 DEF Images, TwoAtMost, Durable
<1>4. /\ (\A image \in images : Authority(image) = Authority(d)) => durable = Authority(d)
      /\ \A image \in images : Authority(image) # Authority(d) => durable = Authority(image)
  BY <1>3, OneEarlier
<1> QED
  BY <1>1, <1>2, <1>4

(* No other directory becomes authoritative, and either all that happened is *)
(* durable or a loss of power could leave what it could before.              *)
Quiet ==
  /\ history' = history
  /\ Authority(disk') = Authority(disk)
  /\ \/ survivors' = {disk'}
     \/ {Authority(x) : x \in survivors'} = {Authority(x) : x \in survivors}

(* Nothing is written.                                                       *)
LEMMA SameDirectoryIsQuiet ==
  ASSUME disk' = disk, history' = history, survivors' = survivors \/ FsyncParent
  PROVE  Quiet
BY DEF Quiet, FsyncParent

(* Something else than the authoritative tree is written.                    *)
LEMMA WriteIsQuiet ==
  ASSUME disk \in survivors, NEW d, Write(d), history' = history, Authority(d) = Authority(disk)
  PROVE  Quiet
<1>1. disk' = d /\ survivors' = survivors \cup {d}
  BY DEF Write
<1>2. {Authority(x) : x \in survivors \cup {d}} = {Authority(x) : x \in survivors}
  OBVIOUS
<1> QED
  BY <1>1, <1>2 DEF Quiet

(* Every step of a helper but the exchange is quiet,                         *)
LEMMA HelperIsQuiet ==
  ASSUME PublicationInv, NEW p \in Publisher, HelperStep(p), ~Exchange(p)
  PROVE  Quiet
<1>1. /\ disk \in Disk /\ ImageOK(disk) /\ NamesOK(disk) /\ disk \in survivors /\ Works(p)
  BY DEF PublicationInv, Images, ImageOK, Working
<1>2. CASE Recover(p) \/ SyncRemoval(p) \/ EndRecovery(p) \/ Publish(p) \/ Flush(p)
           \/ SyncPrepared(p) \/ SyncExchange(p) \/ EndPublish(p)
  BY <1>2, SameDirectoryIsQuiet DEF Recover, SyncRemoval, EndRecovery, Publish, Flush,
     SyncPrepared, SyncExchange, EndPublish
<1>3. CASE RemoveContents(p)
  <2> DEFINE j == disk.journal.stage
  <2>1. PICK d : d = [disk EXCEPT !.tree[disk.stage[j]] = "partial"]
    OBVIOUS
  <2>2. disk.journal # None /\ disk.stage[j] # None /\ Write(d) /\ history' = history
    BY <1>1, <1>3, <2>1 DEF RemoveContents, Works, Settling
  <2>3. j \in Publisher
    BY <1>1, <2>2, DiskShape
  <2>4. Authority(d) = Authority(disk)
    BY <1>1, <2>1, <2>2, <2>3, StageChanges DEF SameNames
  <2> QED
    BY <1>1, <2>2, <2>4, WriteIsQuiet
<1>4. CASE RemoveEntry(p)
  <2> DEFINE j == disk.journal.stage
  <2>1. PICK d : d = [disk EXCEPT !.tree[disk.stage[j]] = "free", !.stage[j] = None]
    OBVIOUS
  <2>2. disk.journal # None /\ disk.stage[j] # None /\ Write(d) /\ history' = history
    BY <1>1, <1>4, <2>1 DEF RemoveEntry, Works, Settling
  <2>3. j \in Publisher
    BY <1>1, <2>2, DiskShape
  <2>4. Authority(d) = Authority(disk)
    BY <1>1, <2>1, <2>2, <2>3, StageGoes
  <2> QED
    BY <1>1, <2>2, <2>4, WriteIsQuiet
<1>5. ASSUME NEW j, Write([disk EXCEPT !.journal = j]), history' = history PROVE Quiet
  <2>1. PICK d : d = [disk EXCEPT !.journal = j]
    OBVIOUS
  <2>2. Write(d)
    BY <1>5, <2>1
  <2>3. Authority(d) = Authority(disk)
    BY <1>1, <2>1 DEF Disk, Authority
  <2> QED
    BY <1>1, <1>5, <2>2, <2>3, WriteIsQuiet
<1> QED
  BY <1>2, <1>3, <1>4, <1>5 DEF HelperStep, RemoveJournal, Prepare, Mark, WriteJournal

(* and so is every step of a script.                                         *)
LEMMA ScriptIsQuiet ==
  ASSUME PublicationInv, NEW p \in Publisher, ScriptStep(p)
  PROVE  Quiet
<1>1. /\ disk \in Disk /\ ImageOK(disk) /\ NamesOK(disk) /\ disk \in survivors /\ Works(p)
  BY DEF PublicationInv, Images, ImageOK, Working
<1>2. CASE SyncStage(p) \/ SetTrap(p) \/ BeginCopy(p) \/ Verify(p) \/ Cleanup(p)
  BY <1>2, SameDirectoryIsQuiet DEF SyncStage, SetTrap, BeginCopy, Verify, Cleanup
<1>3. CASE MakeStage(p)
  <2>1. PICK d : disk' = d /\ survivors' = survivors \cup {d} /\ history' = history
                 /\ Authority(d) = Authority(disk)
    BY <1>3, MakeStageMoves
  <2> QED
    BY <1>1, <2>1, WriteIsQuiet DEF Write
<1>4. CASE Build(p)
  <2>1. CASE UNCHANGED <<disk, survivors>>
    BY <1>4, <2>1, SameDirectoryIsQuiet DEF Build
  <2>2. ASSUME NEW tree \in {"partial", p},
               disk' = [disk EXCEPT !.tree[disk.stage[p]] = tree], FsyncParent
        PROVE  Quiet
    <3>1. PICK d : d = [disk EXCEPT !.tree[disk.stage[p]] = tree]
      OBVIOUS
    <3>2. step[p] = "none" /\ phase[p] = "building"
      BY <1>4 DEF Build, PublicationInv, Control, Held, Recovering, RecoverySteps, PublishSteps
    <3>3. disk.stage[p] # None /\ tree \in Generation \cup {"partial"}
      BY <1>1, <3>2 DEF Works, Making, Generation
    <3>4. Authority(d) = Authority(disk)
      BY <1>1, <3>1, <3>3, StageChanges DEF SameNames
    <3> QED
      BY <1>4, <2>2, <3>1, <3>4 DEF Build, FsyncParent, Quiet
  <2> QED
    BY <1>4, <2>1, <2>2 DEF Build
<1>5. CASE RemoveStage(p)
  <2>1. CASE disk.stage[p] = None
    BY <1>5, <2>1, SameDirectoryIsQuiet DEF RemoveStage
  <2>2. CASE disk.stage[p] # None
    <3>1. PICK d : d = [disk EXCEPT !.tree[disk.stage[p]] = "free", !.stage[p] = None]
      OBVIOUS
    <3>2. Authority(d) = Authority(disk)
      BY <1>1, <2>2, <3>1, StageGoes
    <3> QED
      BY <1>5, <2>2, <3>1, <3>2 DEF RemoveStage, FsyncParent, Quiet
  <2> QED
    BY <2>1, <2>2
<1> QED
  BY <1>2, <1>3, <1>4, <1>5 DEF ScriptStep

(* What is quiet only makes the current generation durable, or nothing.      *)
LEMMA QuietSettles ==
  ASSUME Images, Images', Quiet
  PROVE  Generations!Settle \/ UNCHANGED Generations!vars
<1>1. Authority(disk)' = Authority(disk) /\ Range(history)' = Range(history)
  BY DEF Quiet
<1>2. CASE survivors' = {disk'}
  <2>1. \A image \in survivors' : Authority(image) = Authority(disk')
    BY <1>2
  <2>2. Durable' = Authority(disk)'
    BY <2>1, DurableIsNext
  <2> QED
    BY <1>1, <2>2 DEF Generations!Settle
<1>3. CASE {Authority(x) : x \in survivors'} = {Authority(x) : x \in survivors}
  <2>1. Durable' = Durable
    BY <1>1, <1>3 DEF Durable
  <2> QED
    BY <1>1, <2>1 DEF Generations!vars
<1> QED
  BY <1>2, <1>3 DEF Quiet

(* The exchange is the abstract replacement: all images agreed before it.    *)
LEMMA ExchangeReplaces ==
  ASSUME PublicationInv, PublicationInv', NEW p \in Publisher, Exchange(p)
  PROVE  Generations!Replace(p)
<1>1. PICK d :
        /\ disk' = d /\ survivors' = survivors \cup {d}
        /\ \A image \in survivors : Authority(image) = Authority(disk)
        /\ Authority(d) = p
        /\ history' = Append(history, p)
        /\ p \notin Range(history)
  BY ExchangeMoves
<1>2. disk \in survivors /\ Authority(disk) \in Range(history) /\ HistoryOK
  BY DEF PublicationInv, Images, ImageOK
<1>3. Durable = Authority(disk)
  BY <1>1, DurableIs DEF PublicationInv
<1>4. Durable' = Authority(disk)
  <2>1. disk \in survivors' /\ Authority(disk) # Authority(disk')
    BY <1>1, <1>2
  <2>2. \A image \in survivors' : Authority(image) # Authority(disk') =>
          Durable' = Authority(image)
    BY DurableIsNext DEF PublicationInv
  <2> QED
    BY <2>1, <2>2
<1>5. Range(history') = Range(history) \cup {p}
  <2>1. p \in Generation /\ history \in Seq(Generation) /\ IsInjective(history)
    BY <1>2 DEF HistoryOK, Generation
  <2> QED
    BY <1>1, <2>1, HistoryGrows
<1> QED
  BY <1>1, <1>3, <1>4, <1>5 DEF Generations!Replace

(* A loss of power brings back the durable generation, or keeps the current one. *)
LEMMA PowerLossLoses ==
  ASSUME PublicationInv, PublicationInv', PowerLoss
  PROVE  Generations!Settle \/ Generations!LosePower
<1>0. PICK image \in survivors : \E d :
          disk' = d /\ survivors' = {d} /\ SameNames(image, d)
  BY PowerLossImage
<1>1. PICK d : disk' = d /\ survivors' = {d} /\ SameNames(image, d)
  BY <1>0
<1>2. Authority(disk') = Authority(image) /\ history' = history
  BY <1>1 DEF SameNames, PowerLoss
<1>3. Durable' = Authority(disk')
  <2>1. \A x \in survivors' : Authority(x) = Authority(disk')
    BY <1>1
  <2>2. (\A x \in survivors' : Authority(x) = Authority(disk')) => Durable' = Authority(disk')
    BY DurableIsNext DEF PublicationInv
  <2> QED
    BY <2>1, <2>2
<1>4. CASE Authority(image) = Authority(disk)
  BY <1>2, <1>3, <1>4 DEF Generations!Settle
<1>5. CASE Authority(image) # Authority(disk)
  <2>1. Durable = Authority(image)
    BY <1>5, DurableIs DEF PublicationInv
  <2> QED
    BY <1>2, <1>3, <2>1 DEF Generations!LosePower
<1> QED
  BY <1>4, <1>5

(* Every step of the scripts, their helpers and the faults is a step of      *)
(* RuntimeGenerations, or none: generations replace one another in one step  *)
(* each, and power undoes only what was not flushed.                         *)
THEOREM PublicationImplementsGenerations == Spec => PublishesInOneStep
<1>1. Init => Generations!Init
  <2> SUFFICES ASSUME Init PROVE Generations!Init
    OBVIOUS
  <2>1. Images /\ survivors = {disk}
    BY PublicationInit DEF PublicationInv, Init
  <2>2. Durable = Authority(disk)
    BY <2>1, DurableIs
  <2>3. Authority(disk) = Shipped /\ Range(history) = {Shipped}
    BY DEF Init, Authority, Range
  <2> QED
    BY <2>2, <2>3 DEF Generations!Init
<1>2. PublicationInv /\ PublicationInv' /\ [Next]_vars => [Generations!Next]_Generations!vars
  <2> SUFFICES ASSUME PublicationInv, PublicationInv', [Next]_vars
               PROVE  [Generations!Next]_Generations!vars
    OBVIOUS
  <2>1. ASSUME Quiet PROVE [Generations!Next]_Generations!vars
    BY <2>1, QuietSettles DEF PublicationInv, Generations!Next
  <2>2. ASSUME NEW p \in Publisher, Exchange(p) PROVE [Generations!Next]_Generations!vars
    <3>1. Generations!Replace(p) /\ p \in Generation
      BY <2>2, ExchangeReplaces DEF Generation
    <3> QED
      BY <3>1 DEF Generations!Next
  <2>3. ASSUME NEW p \in Publisher, Start(p) \/ HelperFails(p) \/ Kill(p) PROVE Quiet
    BY <2>3, SameDirectoryIsQuiet DEF Start, HelperFails, Kill
  <2>4. CASE UNCHANGED vars
    BY <2>1, <2>4, SameDirectoryIsQuiet DEF vars
  <2>5. CASE PowerLoss
    BY <2>5, PowerLossLoses DEF Generations!Next
  <2> QED
    BY <2>1, <2>2, <2>3, <2>4, <2>5, HelperIsQuiet, ScriptIsQuiet DEF Next
<1> QED
  BY <1>1, <1>2, PublicationInvariant, PTL DEF Spec, PublishesInOneStep, Generations!Spec

=============================================================================
