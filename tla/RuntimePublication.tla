------------------------ MODULE RuntimePublication ------------------------
(***************************************************************************)
(* Publication of the prepared analyzer runtime: prepare-runtime-tools.sh, *)
(* of which any number may run at once, builds a candidate beside the      *)
(* authoritative directory, verifies it and calls the helper               *)
(* runtime-atomic-exchange.py, which journals the pair of inodes,          *)
(* exchanges the two names, marks the journal and, in a second call or in  *)
(* somebody else's, removes the loser of the exchange and the journal.     *)
(* Processes are killed and the power fails between any two steps.  The    *)
(* file system keeps the order of directory operations (a journaling one): *)
(* a loss of power leaves some state since the last fsync of the parent.   *)
(***************************************************************************)
EXTENDS Naturals, FiniteSets, SequencesExt

CONSTANTS Publisher,    \* runs of the script, each with a stage path of its own
          Inode,        \* inodes of the file system, reused when they are free
          Shipped,      \* the generation the checkout came with
          None,
          MaxCrashes,   \* bound on killed or failing processes
          MaxLosses     \* bound on losses of power

(* write_journal: the stage, how far it got, and the inodes of the pair. *)
Journal == [stage : Publisher, state : {"prepared", "exchanged"},
            old : Inode, candidate : Inode]

ASSUME PublicationAssumption ==
  /\ Shipped \notin Publisher
  /\ None \notin Publisher \cup Inode \cup Journal
  /\ {"partial", "free"} \cap (Publisher \cup {Shipped}) = {}
  /\ IsFiniteSet(Inode) /\ Cardinality(Inode) > Cardinality(Publisher)
  /\ MaxCrashes \in Nat /\ MaxLosses \in Nat

VARIABLES
  disk,         \* the parent directory: names, journal and what each inode holds
  survivors,    \* the states of it that a loss of power may leave
  synced,       \* generations whose files were flushed
  lock,         \* holder of the flock on <journal>.lock
  phase,        \* where each script is
  step,         \* where the helper it called is
  source,       \* the generation a script began to copy
  status,       \* exit status the script will have
  history,      \* generations in the order in which they became authoritative
  crashes, losses

vars == <<disk, survivors, synced, lock, phase, step, source, status, history,
          crashes, losses>>

Generation == Publisher \cup {Shipped}
Recovering == {"opening", "closing", "restoring"}
Exited     == {"exited", "stranded", "unclean", "killed"}

TypeOK ==
  /\ disk \in [runtime : Inode, stage : [Publisher -> Inode \cup {None}],
               tree : [Inode -> Generation \cup {"partial", "free"}],
               journal : {None} \cup Journal]
  /\ disk \in survivors
  /\ synced \subseteq Generation
  /\ lock \in Publisher \cup {None}
  /\ phase \in [Publisher -> {"idle", "staging", "made", "staged", "copying", "building",
                              "verifying", "publishing", "trap", "sweeping"}
                             \cup Recovering \cup Exited]
  /\ step \in [Publisher -> {"none", "contents", "entry", "removed", "unlink", "unlinked",
                             "flush", "prepare", "prepared", "exchange", "exchanged",
                             "mark", "marked"}]
  /\ source \in [Publisher -> Generation \cup {"partial", None}]
  /\ status \in [Publisher -> {"running", "published", "failed"}]
  /\ IsInjective(history) /\ Range(history) \subseteq Generation
  /\ crashes \in 0..MaxCrashes /\ losses \in 0..MaxLosses

Init ==
  \E i \in Inode :
    /\ disk = [runtime |-> i, stage |-> [p \in Publisher |-> None], journal |-> None,
               tree |-> [j \in Inode |-> IF j = i THEN Shipped ELSE "free"]]
    /\ survivors = {disk}
    /\ synced = {Shipped}
    /\ lock = None
    /\ phase = [p \in Publisher |-> "idle"]
    /\ step = [p \in Publisher |-> "none"]
    /\ source = [p \in Publisher |-> None]
    /\ status = [p \in Publisher |-> "running"]
    /\ history = <<Shipped>>
    /\ crashes = 0 /\ losses = 0

-----------------------------------------------------------------------------
(* The parent directory. *)

Authority(d) == d.tree[d.runtime]

Write(d) == disk' = d /\ survivors' = survivors \cup {d}

(* Mutant: the directory is opened and closed, never flushed. *)
FsyncNothing == survivors' = survivors \cup {disk'}

(* fsync_directory(parent): every earlier operation in it becomes durable. *)
FsyncParent == survivors' = {disk'}

GoTo(p, s) == step' = [step EXCEPT ![p] = s]

(* The two states in which recover() knows what to remove, and the one in    *)
(* which only the journal is left.                                           *)
PairMatches(d) ==
  LET j == d.journal IN
    \/ d.runtime = j.old /\ d.stage[j.stage] = j.candidate
    \/ d.runtime = j.candidate /\ d.stage[j.stage] = j.old

OnlyJournalLeft(d) ==
  LET j == d.journal IN
    /\ d.stage[j.stage] = None
    /\ j.state = "exchanged" /\ d.runtime = j.candidate

Recoverable(d) == PairMatches(d) \/ OnlyJournalLeft(d)

-----------------------------------------------------------------------------
(* What the script does when the helper it called ends. *)

(* Mutant: a helper that fails keeps the lock. *)
ReleasedAtTheEnd(p) ==
  lock' = IF lock = p /\ step[p] \in {"unlinked", "marked"} THEN None ELSE lock

Released(p) == lock' = IF lock = p THEN None ELSE lock

HelperDone(p) ==
  /\ Released(p)
  /\ GoTo(p, "none")
  /\ phase' = [phase EXCEPT ![p] = CASE @ = "opening" -> "staging"
                                     [] @ = "publishing" -> "closing"
                                     [] @ = "closing" -> "trap"
                                     [] @ = "restoring" -> "sweeping"]
  /\ status' = [status EXCEPT ![p] = IF phase[p] = "closing" THEN "published" ELSE @]

(* Mutant: a script that fails ends at once, without its trap. *)
ScriptStops(p) ==
  /\ Released(p)
  /\ GoTo(p, "none")
  /\ phase' = [phase EXCEPT ![p] = "exited"]
  /\ status' = [status EXCEPT ![p] = IF @ = "running" THEN "failed" ELSE @]

(* set -e: before the trap is set the script just ends, and a stage that was *)
(* made by then stays; afterwards the trap runs; in the trap a failed        *)
(* recovery keeps the stage.                                                 *)
ScriptFails(p) ==
  /\ Released(p)
  /\ GoTo(p, "none")
  /\ phase' = [phase EXCEPT ![p] = CASE @ \in {"opening", "staging"} -> "exited"
                                     [] @ \in {"made", "staged"} -> "stranded"
                                     [] @ \in {"restoring", "sweeping"} -> "unclean"
                                     [] OTHER -> "trap"]
  /\ status' = [status EXCEPT ![p] = IF @ = "running" THEN "failed" ELSE @]

-----------------------------------------------------------------------------
(* recover RUNTIME JOURNAL *)

Recover(p) ==
  /\ phase[p] \in Recovering /\ step[p] = "none"
  /\ lock = None
  /\ \/ disk.journal = None /\ HelperDone(p)
     \/ /\ disk.journal # None /\ Recoverable(disk)
        /\ lock' = p
        /\ GoTo(p, IF PairMatches(disk) THEN "contents" ELSE "unlink")
        /\ UNCHANGED <<phase, status>>
     \/ disk.journal # None /\ ~Recoverable(disk) /\ ScriptFails(p)
  /\ UNCHANGED <<disk, survivors, synced, source, history, crashes, losses>>

(* Mutant: recovery undoes an exchange whose journal was not marked. *)
RollBackContents(p) ==
  /\ phase[p] \in Recovering /\ step[p] = "contents"
  /\ LET j == disk.journal IN
       IF j.state = "prepared" /\ disk.runtime = j.candidate
         THEN /\ Write([disk EXCEPT !.runtime = j.old, !.stage[j.stage] = j.candidate])
              /\ history' = Append(history, Authority(disk'))
              /\ UNCHANGED step
         ELSE /\ Write([disk EXCEPT !.tree[disk.stage[j.stage]] = "partial"])
              /\ GoTo(p, "entry")
              /\ UNCHANGED history
  /\ UNCHANGED <<synced, lock, phase, source, status, crashes, losses>>

(* remove_tree: the files go first, then the entry, then the fsync. *)
RemoveContents(p) ==
  /\ phase[p] \in Recovering /\ step[p] = "contents"
  /\ Write([disk EXCEPT !.tree[disk.stage[disk.journal.stage]] = "partial"])
  /\ GoTo(p, "entry")
  /\ UNCHANGED <<synced, lock, phase, source, status, history, crashes, losses>>

RemoveEntry(p) ==
  /\ phase[p] \in Recovering /\ step[p] = "entry"
  /\ LET q == disk.journal.stage IN
       Write([disk EXCEPT !.tree[disk.stage[q]] = "free", !.stage[q] = None])
  /\ GoTo(p, "removed")
  /\ UNCHANGED <<synced, lock, phase, source, status, history, crashes, losses>>

SyncRemoval(p) ==
  /\ step[p] = "removed"
  /\ UNCHANGED disk /\ FsyncParent
  /\ GoTo(p, "unlink")
  /\ UNCHANGED <<synced, lock, phase, source, status, history, crashes, losses>>

RemoveJournal(p) ==
  /\ step[p] = "unlink"
  /\ Write([disk EXCEPT !.journal = None])
  /\ GoTo(p, "unlinked")
  /\ UNCHANGED <<synced, lock, phase, source, status, history, crashes, losses>>

EndRecovery(p) ==
  /\ step[p] = "unlinked"
  /\ UNCHANGED disk /\ FsyncParent
  /\ HelperDone(p)
  /\ UNCHANGED <<synced, source, history, crashes, losses>>

-----------------------------------------------------------------------------
(* The script up to publication. *)

Start(p) ==
  /\ phase[p] = "idle"
  /\ phase' = [phase EXCEPT ![p] = "opening"]
  /\ UNCHANGED <<disk, survivors, synced, lock, step, source, status, history,
                 crashes, losses>>

(* mkdtemp in fresh-dir: an inode that is free, whatever it held before.     *)
MakeStage(p) ==
  /\ phase[p] = "staging"
  /\ \E i \in Inode :
       /\ disk.tree[i] = "free"
       /\ Write([disk EXCEPT !.stage[p] = i, !.tree[i] = "partial"])
  /\ phase' = [phase EXCEPT ![p] = "made"]
  /\ UNCHANGED <<synced, lock, step, source, status, history, crashes, losses>>

SyncStage(p) ==
  /\ phase[p] = "made"
  /\ UNCHANGED disk /\ FsyncParent
  /\ phase' = [phase EXCEPT ![p] = "staged"]
  /\ UNCHANGED <<synced, lock, step, source, status, history, crashes, losses>>

(* The script knows the name of its stage; from here on it ends by its trap. *)
SetTrap(p) ==
  /\ phase[p] = "staged"
  /\ phase' = [phase EXCEPT ![p] = "copying"]
  /\ UNCHANGED <<disk, survivors, synced, lock, step, source, status, history,
                 crashes, losses>>

BeginCopy(p) ==
  /\ phase[p] = "copying"
  /\ source' = [source EXCEPT ![p] = Authority(disk)]
  /\ phase' = [phase EXCEPT ![p] = "building"]
  /\ UNCHANGED <<disk, survivors, synced, lock, step, status, history, crashes, losses>>

(* copy-source compares the source root by name and by descriptor, before    *)
(* and after: another directory in its place makes it fail.                  *)
SourceUnchanged(p) == source[p] = Authority(disk)

(* What is downloaded and installed may or may not be what the manifest asks.*)
Build(p) ==
  /\ phase[p] = "building"
  /\ \/ /\ SourceUnchanged(p)
        /\ \E tree \in {"partial", p} :
             disk' = [disk EXCEPT !.tree[disk.stage[p]] = tree]
        /\ FsyncParent
        /\ phase' = [phase EXCEPT ![p] = "verifying"]
        /\ UNCHANGED <<lock, step, status>>
     \/ ~SourceUnchanged(p) /\ ScriptFails(p) /\ UNCHANGED <<disk, survivors>>
  /\ UNCHANGED <<synced, source, history, crashes, losses>>

Verify(p) ==
  /\ phase[p] = "verifying"
  /\ \/ /\ disk.tree[disk.stage[p]] = p
        /\ phase' = [phase EXCEPT ![p] = "publishing"]
        /\ UNCHANGED <<lock, step, status>>
     \/ disk.tree[disk.stage[p]] # p /\ ScriptFails(p)
  /\ UNCHANGED <<disk, survivors, synced, source, history, crashes, losses>>

-----------------------------------------------------------------------------
(* publish RUNTIME STAGE JOURNAL *)

Publish(p) ==
  /\ phase[p] = "publishing" /\ step[p] = "none"
  /\ lock = None
  /\ \/ /\ disk.journal = None
        /\ lock' = p
        /\ GoTo(p, "flush")
        /\ UNCHANGED <<phase, status>>
     \/ disk.journal # None /\ ScriptFails(p)
  /\ UNCHANGED <<disk, survivors, synced, source, history, crashes, losses>>

(* Mutant: the files of the stage are not flushed before it is published. *)
FlushParentOnly(p) ==
  /\ step[p] = "flush"
  /\ UNCHANGED disk /\ FsyncParent
  /\ GoTo(p, "prepare")
  /\ UNCHANGED <<synced, lock, phase, source, status, history, crashes, losses>>

(* fsync_tree(stage), then the stage, the runtime and the parent. *)
Flush(p) ==
  /\ step[p] = "flush"
  /\ synced' = synced \cup {p}
  /\ UNCHANGED disk /\ FsyncParent
  /\ GoTo(p, "prepare")
  /\ UNCHANGED <<lock, phase, source, status, history, crashes, losses>>

(* write_journal replaces the journal with a flushed file of another name. *)
WriteJournal(p, state, old, candidate) ==
  Write([disk EXCEPT !.journal = [stage |-> p, state |-> state,
                                  old |-> old, candidate |-> candidate]])

(* Mutant: the journal says "exchanged" before the exchange. *)
PrepareMarked(p) ==
  /\ step[p] = "prepare"
  /\ WriteJournal(p, "exchanged", disk.runtime, disk.stage[p])
  /\ GoTo(p, "prepared")
  /\ UNCHANGED <<synced, lock, phase, source, status, history, crashes, losses>>

Prepare(p) ==
  /\ step[p] = "prepare"
  /\ WriteJournal(p, "prepared", disk.runtime, disk.stage[p])
  /\ GoTo(p, "prepared")
  /\ UNCHANGED <<synced, lock, phase, source, status, history, crashes, losses>>

SyncPrepared(p) ==
  /\ step[p] = "prepared"
  /\ UNCHANGED disk /\ FsyncParent
  /\ GoTo(p, "exchange")
  /\ UNCHANGED <<synced, lock, phase, source, status, history, crashes, losses>>

(* renameat2(RENAME_EXCHANGE): the two names change places in one step. *)
Exchange(p) ==
  /\ step[p] = "exchange"
  /\ Write([disk EXCEPT !.runtime = disk.stage[p], !.stage[p] = disk.runtime])
  /\ history' = Append(history, Authority(disk'))
  /\ GoTo(p, "exchanged")
  /\ UNCHANGED <<synced, lock, phase, source, status, crashes, losses>>

SyncExchange(p) ==
  /\ step[p] = "exchanged"
  /\ UNCHANGED disk /\ FsyncParent
  /\ GoTo(p, "mark")
  /\ UNCHANGED <<synced, lock, phase, source, status, history, crashes, losses>>

Mark(p) ==
  /\ step[p] = "mark"
  /\ WriteJournal(p, "exchanged", disk.stage[p], disk.runtime)
  /\ GoTo(p, "marked")
  /\ UNCHANGED <<synced, lock, phase, source, status, history, crashes, losses>>

EndPublish(p) ==
  /\ step[p] = "marked"
  /\ UNCHANGED disk /\ FsyncParent
  /\ HelperDone(p)
  /\ UNCHANGED <<synced, source, history, crashes, losses>>

-----------------------------------------------------------------------------
(* The EXIT trap: it recovers only if it sees a journal, without the lock,   *)
(* and then removes the stage this script made.                              *)

Cleanup(p) ==
  /\ phase[p] = "trap"
  /\ phase' = [phase EXCEPT ![p] = IF disk.journal = None THEN "sweeping" ELSE "restoring"]
  /\ UNCHANGED <<disk, survivors, synced, lock, step, source, status, history,
                 crashes, losses>>

RemoveStage(p) ==
  /\ phase[p] = "sweeping"
  /\ IF disk.stage[p] = None
       THEN UNCHANGED <<disk, survivors>>
       ELSE /\ disk' = [disk EXCEPT !.tree[disk.stage[p]] = "free", !.stage[p] = None]
            /\ FsyncParent
  /\ phase' = [phase EXCEPT ![p] = "exited"]
  /\ UNCHANGED <<synced, lock, step, source, status, history, crashes, losses>>

-----------------------------------------------------------------------------
(* Faults. *)

Running(p) == phase[p] \notin {"idle"} \cup Exited

(* A helper dies or meets an error of the file system: what it did so far    *)
(* stays, its lock is gone, the script sees a failed command.                *)
HelperFails(p) ==
  /\ crashes < MaxCrashes
  /\ Running(p) /\ phase[p] # "trap"
  /\ ScriptFails(p)
  /\ crashes' = crashes + 1
  /\ UNCHANGED <<disk, survivors, synced, source, history, losses>>

(* SIGKILL of the script with its helper: no trap runs. *)
Kill(p) ==
  /\ crashes < MaxCrashes
  /\ Running(p)
  /\ Released(p)
  /\ GoTo(p, "none")
  /\ phase' = [phase EXCEPT ![p] = "killed"]
  /\ crashes' = crashes + 1
  /\ UNCHANGED <<disk, survivors, synced, source, status, history, losses>>

(* Any state since the last fsync of the parent; a tree whose files were     *)
(* never flushed may be torn.                                                *)
PowerLoss ==
  /\ losses < MaxLosses
  /\ \E image \in survivors :
       \E torn \in SUBSET {i \in Inode : image.tree[i] \in Generation \ synced} :
         disk' = [image EXCEPT !.tree =
                    [i \in Inode |-> IF i \in torn THEN "partial" ELSE image.tree[i]]]
  /\ survivors' = {disk'}
  /\ lock' = None
  /\ phase' = [p \in Publisher |-> IF Running(p) THEN "killed" ELSE phase[p]]
  /\ step' = [p \in Publisher |-> "none"]
  /\ losses' = losses + 1
  /\ UNCHANGED <<synced, source, status, history, crashes>>

-----------------------------------------------------------------------------
HelperStep(p) ==
  \/ Recover(p) \/ RemoveContents(p) \/ RemoveEntry(p) \/ SyncRemoval(p)
  \/ RemoveJournal(p) \/ EndRecovery(p)
  \/ Publish(p) \/ Flush(p) \/ Prepare(p) \/ SyncPrepared(p) \/ Exchange(p)
  \/ SyncExchange(p) \/ Mark(p) \/ EndPublish(p)

ScriptStep(p) ==
  \/ MakeStage(p) \/ SyncStage(p) \/ SetTrap(p)
  \/ BeginCopy(p) \/ Build(p) \/ Verify(p) \/ Cleanup(p) \/ RemoveStage(p)

Next ==
  \/ \E p \in Publisher : Start(p) \/ HelperStep(p) \/ ScriptStep(p)
                          \/ HelperFails(p) \/ Kill(p)
  \/ PowerLoss

(* A script that was started and is not killed keeps running; flock is       *)
(* granted to one of those who wait.                                         *)
Fairness == \A p \in Publisher : WF_vars(HelperStep(p) \/ ScriptStep(p))

Spec == Init /\ [][Next]_vars

FairSpec == Spec /\ Fairness

-----------------------------------------------------------------------------
(* Properties *)

Rank(g) == CHOOSE n \in DOMAIN history : history[n] = g

(* Whatever was killed and whenever the power failed, the authoritative name *)
(* leads to a whole, verified generation: the one that shipped or one that a *)
(* publisher built and verified.  And a publisher whose publish command      *)
(* returned has its generation, or one that became authoritative later, in   *)
(* every state a loss of power can leave.                                    *)
RuntimeSurvives ==
  /\ Authority(disk) \in Generation
  /\ \A p \in Publisher :
       phase[p] = "closing" \/ status[p] = "published" =>
         /\ p \in Range(history)
         /\ \A image \in survivors : Rank(Authority(image)) >= Rank(p)

(* A journal marked as exchanged never stops anybody: whichever of its       *)
(* cleanup steps were done, recovery knows how to go on.                     *)
ExchangedIsRecoverable ==
  disk.journal # None => disk.journal.state = "prepared" \/ Recoverable(disk)

(* A script that ran to the end of its trap, or failed before it had a       *)
(* stage, leaves no stage behind but one that the journal names and recovery *)
(* removes, whether it published or failed, alone or among others.  (A loss  *)
(* of power can bring a removed stage back, together with its journal.)      *)
(* Nothing is promised of the stage of a script that was killed, that could  *)
(* not recover or remove it in its trap ("unclean"), or whose fresh-dir or   *)
(* next command failed between mkdtemp and the trap ("stranded").            *)
EndedLeavesNoStage ==
  \A p \in Publisher :
    phase[p] = "exited" /\ disk.stage[p] # None =>
      /\ disk.journal # None /\ disk.journal.stage = p
      /\ Recoverable(disk)

(* A script that started comes to an end: no wait on the lock is for ever.   *)
EveryScriptEnds == \A p \in Publisher : Running(p) ~> ~Running(p)

(* What the docs of the helper promise of a crash: recovery can settle the   *)
(* journal it finds.  The code does not keep this for a prepared one.        *)
JournalIsRecoverable == disk.journal # None /\ lock = None => Recoverable(disk)

(* Every step is one of the promised ones: a new generation replaces the     *)
(* current one in one step, and a loss of power undoes only a replacement    *)
(* that was not durable.                                                     *)
Durable ==
  LET earlier == {Authority(image) : image \in survivors} \ {Authority(disk)}
  IN  IF earlier = {} THEN Authority(disk) ELSE CHOOSE g \in earlier : TRUE

Generations == INSTANCE RuntimeGenerations
  WITH current <- Authority(disk), durable <- Durable, used <- Range(history)

PublishesInOneStep == Generations!Spec

=============================================================================
