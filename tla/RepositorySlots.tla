----------------------------- MODULE RepositorySlots ------------------------------
(***************************************************************************)
(* What the durable scan store promises its users, with nothing of how:    *)
(* every repository has one slot, a scan occupies the slot of its          *)
(* repository from the moment it is accepted until it gets its one         *)
(* outcome, and an outcome is final.  ScanStore implements this module.    *)
(***************************************************************************)
CONSTANTS Scan, RepoOf, None

VARIABLES slot,      \* the scan that occupies the slot of each repository
          outcome    \* what became of each scan

slotVars == <<slot, outcome>>

Repository == {RepoOf[s] : s \in Scan}
Outcome == {"absent", "open", "completed", "failed"}

SlotTypeOK ==
  /\ slot \in [Repository -> Scan \cup {None}]
  /\ outcome \in [Scan -> Outcome]

SlotInit ==
  /\ slot = [r \in Repository |-> None]
  /\ outcome = [s \in Scan |-> "absent"]

Open(s) ==
  /\ outcome[s] = "absent"
  /\ slot[RepoOf[s]] = None
  /\ slot' = [slot EXCEPT ![RepoOf[s]] = s]
  /\ outcome' = [outcome EXCEPT ![s] = "open"]

Close(s, result) ==
  /\ slot[RepoOf[s]] = s
  /\ slot' = [slot EXCEPT ![RepoOf[s]] = None]
  /\ outcome' = [outcome EXCEPT ![s] = result]

SlotNext ==
  \E s \in Scan : \/ Open(s)
                  \/ Close(s, "completed")
                  \/ Close(s, "failed")

SlotSpec == SlotInit /\ [][SlotNext]_slotVars
=============================================================================
