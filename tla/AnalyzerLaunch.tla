-------------------------- MODULE AnalyzerLaunch --------------------------
(***************************************************************************)
(* Resource-governed launches of analyzers (resource-governance.mjs): the  *)
(* service admits one at a time, first come first served; an admitted one  *)
(* gets a cgroup of its own, which a launcher process makes, runs the      *)
(* analyzer in and removes; service and launcher talk over a channel, and  *)
(* either may die at any moment.  A service that died is replaced by one   *)
(* that remembers nothing.                                                 *)
(***************************************************************************)
EXTENDS Naturals, SequencesExt

CONSTANTS Launch,       \* calls of launchResourceGovernedAnalyzer, and their cgroups
          MaxFaults     \* bound on deaths and failed removals

ASSUME LaunchAssumption == MaxFaults \in Nat

VARIABLES
  queue,      \* launchAdmissionQueue: waiters, also those that gave up
  held,       \* launchAdmissionHeld
  call,       \* what the caller of each launch has been told, and waits for
  aborted,    \* launches whose signal was aborted
  active,     \* activeAnalysisCgroups
  report,     \* outcome of the cleanup in the launch's completion
  launcher,   \* the launcher process of each launch
  analyzer,   \* the analyzer process it spawned
  dir,        \* cgroups that exist under the delegated root
  channel,    \* messages of each launcher to the service
  faults

vars == <<queue, held, call, aborted, active, report, launcher, analyzer, dir,
          channel, faults>>

processes == <<launcher, analyzer, dir>>
service   == <<queue, held, call, active, report>>

Admitted == {"granted", "handshake", "rejected", "session"}
Pending  == {"waiting"} \cup Admitted
Alive    == {"running", "dying"}

TypeOK ==
  /\ queue \in Seq(Launch) /\ IsInjective(queue)
  /\ held \in BOOLEAN
  /\ call \in [Launch -> {"idle", "refused", "returned", "lost"} \cup Pending]
  /\ aborted \subseteq Launch
  /\ active = {l \in Launch : call[l] \in {"handshake", "rejected", "session"}}
  /\ report \in [Launch -> {"none", "passed", "failed"}]
  /\ launcher \in [Launch -> {"none", "booting", "allocated", "attached", "serving",
                              "releasing", "emptying", "ended", "dead"}]
  /\ analyzer \in [Launch -> {"none", "gone"} \cup Alive]
  /\ dir \subseteq Launch
  /\ channel \in [Launch -> Seq({"ready", "terminated", "error"})]
  /\ faults \in 0..MaxFaults

Init ==
  /\ queue = <<>> /\ held = FALSE /\ active = {} /\ aborted = {} /\ dir = {}
  /\ call = [l \in Launch |-> "idle"]
  /\ report = [l \in Launch |-> "none"]
  /\ launcher = [l \in Launch |-> "none"]
  /\ analyzer = [l \in Launch |-> "none"]
  /\ channel = [l \in Launch |-> <<>>]
  /\ faults = 0

-----------------------------------------------------------------------------
(* Admission. *)

(* Mutant: a waiter that gave up is granted the admission. *)
GrantHead(q, c, h) ==
  IF h \/ q = <<>>
    THEN queue' = q /\ call' = c /\ held' = h
    ELSE /\ queue' = Tail(q)
         /\ call' = [c EXCEPT ![Head(q)] = IF @ = "waiting" THEN "granted" ELSE @]
         /\ held' = TRUE

(* grantNextLaunchAdmission, in the state with queue q, callers c, holder h:  *)
(* the first that still waits is granted, those before it are dropped.       *)
Grant(q, c, h) ==
  IF h \/ \A n \in DOMAIN q : c[q[n]] # "waiting"
    THEN queue' = (IF h THEN q ELSE <<>>) /\ call' = c /\ held' = h
    ELSE LET n == SelectInSeq(q, LAMBDA l : c[l] = "waiting")
         IN  /\ queue' = SubSeq(q, n + 1, Len(q))
             /\ call' = [c EXCEPT ![q[n]] = "granted"]
             /\ held' = TRUE

Ends(l, outcome) == [call EXCEPT ![l] = outcome]

(* acquireLaunchAdmission; a signal that is aborted already is refused. *)
Acquire(l) ==
  /\ call[l] = "idle"
  /\ \/ call' = Ends(l, "refused") /\ UNCHANGED <<queue, held>>
     \/ Grant(Append(queue, l), Ends(l, "waiting"), held)
  /\ UNCHANGED <<aborted, active, report, processes, channel, faults>>

Expire(l) ==
  /\ call[l] = "waiting"
  /\ Grant(queue, Ends(l, "refused"), held)
  /\ UNCHANGED <<aborted, active, report, processes, channel, faults>>

(* A waiter gives up at once.  (After its start the launch gets a message    *)
(* that makes the launcher do what its timer may do at any time anyway.)     *)
Abort(l) ==
  /\ l \notin aborted
  /\ call[l] \in {"waiting", "granted"}
  /\ aborted' = aborted \cup {l}
  /\ IF call[l] = "waiting"
       THEN Grant(queue, Ends(l, "refused"), held)
       ELSE UNCHANGED <<queue, held, call>>
  /\ UNCHANGED <<active, report, processes, channel, faults>>

-----------------------------------------------------------------------------
(* Start.  The admission goes back in the finally of an unfinished start.    *)

NoUnownedCgroups == dir \subseteq active

Refuse(l) == Grant(queue, Ends(l, "refused"), FALSE) /\ UNCHANGED <<active, launcher>>

(* Mutant: a cgroup that somebody left behind is not looked for. *)
StartBlindly(l) ==
  /\ call[l] = "granted"
  /\ \/ Refuse(l)
     \/ /\ l \notin aborted
        /\ active' = active \cup {l}
        /\ launcher' = [launcher EXCEPT ![l] = "booting"]
        /\ call' = Ends(l, "handshake")
        /\ UNCHANGED <<queue, held>>
  /\ UNCHANGED <<aborted, report, analyzer, dir, channel, faults>>

(* The deadline, the host's tools, the runtime or the request may be found   *)
(* wanting; an aborted signal and an unowned cgroup always are.              *)
Start(l) ==
  /\ call[l] = "granted"
  /\ \/ Refuse(l)
     \/ /\ l \notin aborted /\ NoUnownedCgroups
        /\ active' = active \cup {l}
        /\ launcher' = [launcher EXCEPT ![l] = "booting"]
        /\ call' = Ends(l, "handshake")
        /\ UNCHANGED <<queue, held>>
  /\ UNCHANGED <<aborted, report, analyzer, dir, channel, faults>>

Ready(l) ==
  /\ channel[l] # <<>> /\ Head(channel[l]) = "ready"
  /\ channel' = [channel EXCEPT ![l] = Tail(@)]
  /\ call' = [call EXCEPT ![l] = IF @ = "handshake" THEN "session" ELSE @]
  /\ UNCHANGED <<queue, held, aborted, active, report, processes, faults>>

(* The launcher's exit, or five seconds without its word.  The error waits   *)
(* for the completion of the launch.                                         *)
HandshakeFails(l) ==
  /\ call[l] = "handshake"
  /\ call' = Ends(l, "rejected")
  /\ UNCHANGED <<queue, held, aborted, active, report, processes, channel, faults>>

-----------------------------------------------------------------------------
(* Completion. *)

Exited(l) == launcher[l] \in {"ended", "dead"}

(* cleanupReportedCgroup kills what is in the cgroup, waits for at most five *)
(* seconds and removes it.                                                   *)
CleanUp(l) ==
  \/ /\ dir' = dir \ {l}
     /\ analyzer' = [analyzer EXCEPT ![l] = IF @ \in Alive THEN "gone" ELSE @]
     /\ report' = [report EXCEPT ![l] = "passed"]
     /\ UNCHANGED faults
  \/ /\ l \in dir /\ faults < MaxFaults
     /\ faults' = faults + 1
     /\ analyzer' = [analyzer EXCEPT ![l] = IF @ \in Alive THEN "dying" ELSE @]
     /\ report' = [report EXCEPT ![l] = "failed"]
     /\ UNCHANGED dir

(* Mutant: the admission is not kept until the launcher has cleaned up. *)
CompleteEarly(l) ==
  /\ active' = active \ {l}
  /\ report' = [report EXCEPT ![l] = "passed"]
  /\ Grant(queue, Ends(l, IF call[l] = "session" THEN "returned" ELSE "refused"), FALSE)
  /\ UNCHANGED <<dir, analyzer, faults>>

(* Mutant: the cgroup of a completed launch stays registered. *)
CompleteForgetting(l) ==
  /\ CleanUp(l)
  /\ UNCHANGED active
  /\ Grant(queue, Ends(l, IF call[l] = "session" THEN "returned" ELSE "refused"), FALSE)

Complete(l) ==
  /\ CleanUp(l)
  /\ active' = active \ {l}
  /\ Grant(queue, Ends(l, IF call[l] = "session" THEN "returned" ELSE "refused"), FALSE)

Terminal(l) ==
  /\ channel[l] # <<>> /\ Head(channel[l]) # "ready"
  /\ Complete(l)
  /\ channel' = [channel EXCEPT ![l] = Tail(@)]
  /\ UNCHANGED <<aborted, launcher>>

(* Mutant: only a launcher's own last message completes a launch. *)
CloseOfEnded(l) ==
  /\ launcher[l] = "ended"
  /\ analyzer[l] \notin Alive /\ channel[l] = <<>>
  /\ call[l] \in {"rejected", "session"}
  /\ Complete(l)
  /\ UNCHANGED <<aborted, launcher, channel>>

(* Mutant: a launcher that said nothing is taken to have cleaned up. *)
CloseTrusting(l) ==
  /\ Exited(l) /\ analyzer[l] \notin Alive /\ channel[l] = <<>>
  /\ call[l] \in {"rejected", "session"}
  /\ CompleteEarly(l)
  /\ UNCHANGED <<aborted, launcher, channel>>

(* 'close': the process is gone, its channel read, and nobody has its output *)
(* open.  'exit' came before.                                                *)
Close(l) ==
  /\ Exited(l) /\ analyzer[l] \notin Alive /\ channel[l] = <<>>
  /\ call[l] \in {"rejected", "session"}
  /\ Complete(l)
  /\ UNCHANGED <<aborted, launcher, channel>>

-----------------------------------------------------------------------------
(* The launcher. *)

Send(l, message) ==
  channel' = [channel EXCEPT ![l] = IF call[l] = "lost" THEN @ ELSE Append(@, message)]

LauncherAllocates(l) ==
  /\ launcher[l] = "booting"
  /\ launcher' = [launcher EXCEPT ![l] = "allocated"]
  /\ dir' = dir \cup {l}
  /\ UNCHANGED <<service, aborted, analyzer, channel, faults>>

(* Before it has a cgroup, or when the configuration of one fails.           *)
LauncherRejects(l) ==
  /\ launcher[l] = "booting"
  /\ launcher' = [launcher EXCEPT ![l] = "ended"]
  /\ Send(l, "error")
  /\ UNCHANGED <<service, aborted, analyzer, dir, faults>>

LauncherAttaches(l) ==
  /\ launcher[l] = "allocated"
  /\ launcher' = [launcher EXCEPT ![l] = "attached"]
  /\ UNCHANGED <<service, aborted, analyzer, dir, channel, faults>>

LauncherSpawns(l) ==
  /\ launcher[l] = "attached"
  /\ launcher' = [launcher EXCEPT ![l] = "serving"]
  /\ analyzer' = [analyzer EXCEPT ![l] = "running"]
  /\ Send(l, "ready")
  /\ UNCHANGED <<service, aborted, dir, faults>>

LauncherFails(l) ==
  /\ launcher[l] \in {"allocated", "attached"}
  /\ launcher' = [launcher EXCEPT ![l] = "releasing"]
  /\ UNCHANGED <<service, aborted, analyzer, dir, channel, faults>>

(* The analyzer's end, a cancel, the end of the channel, a signal, or the    *)
(* timer, which may fire at any time.                                        *)
Terminate(l) ==
  /\ launcher[l] = "serving"
  /\ launcher' = [launcher EXCEPT ![l] = "releasing"]
  /\ UNCHANGED <<service, aborted, analyzer, dir, channel, faults>>

(* release(): leave the cgroup, kill it, wait until it is empty, remove it.  *)
LauncherKills(l) ==
  /\ launcher[l] = "releasing"
  /\ launcher' = [launcher EXCEPT ![l] = "emptying"]
  /\ analyzer' = [analyzer EXCEPT ![l] = IF @ = "running" THEN "dying" ELSE @]
  /\ UNCHANGED <<service, aborted, dir, channel, faults>>

LauncherRemoves(l) ==
  /\ launcher[l] = "emptying" /\ analyzer[l] \notin Alive
  /\ dir' = dir \ {l}
  /\ launcher' = [launcher EXCEPT ![l] = "ended"]
  /\ Send(l, IF analyzer[l] = "none" THEN "error" ELSE "terminated")
  /\ UNCHANGED <<service, aborted, analyzer, faults>>

(* Its last word is an error; it stays as long as the analyzer does. *)
LauncherGivesUp(l) ==
  /\ launcher[l] \in {"releasing", "emptying"} /\ faults < MaxFaults
  /\ launcher' = [launcher EXCEPT ![l] = "ended"]
  /\ Send(l, "error")
  /\ faults' = faults + 1
  /\ UNCHANGED <<service, aborted, analyzer, dir>>

-----------------------------------------------------------------------------
(* Ends of processes. *)

AnalyzerExits(l) ==
  /\ analyzer[l] = "running"
  /\ analyzer' = [analyzer EXCEPT ![l] = "gone"]
  /\ UNCHANGED <<service, aborted, launcher, dir, channel, faults>>

AnalyzerDies(l) ==
  /\ analyzer[l] = "dying"
  /\ analyzer' = [analyzer EXCEPT ![l] = "gone"]
  /\ UNCHANGED <<service, aborted, launcher, dir, channel, faults>>

(* Killed, by the memory limit of the cgroup it is in or by somebody: the    *)
(* sandbox dies with it.                                                     *)
LauncherDies(l) ==
  /\ faults < MaxFaults
  /\ launcher[l] \notin {"none", "ended", "dead"}
  /\ launcher' = [launcher EXCEPT ![l] = "dead"]
  /\ analyzer' = [analyzer EXCEPT ![l] = IF @ = "running" THEN "dying" ELSE @]
  /\ faults' = faults + 1
  /\ UNCHANGED <<service, aborted, dir, channel>>

ServiceDies ==
  /\ faults < MaxFaults
  /\ \E l \in Launch : call[l] \in Pending
  /\ call' = [l \in Launch |-> IF call[l] \in Pending THEN "lost" ELSE call[l]]
  /\ channel' = [l \in Launch |-> <<>>]
  /\ queue' = <<>> /\ held' = FALSE /\ active' = {}
  /\ faults' = faults + 1
  /\ UNCHANGED <<aborted, report, processes>>

-----------------------------------------------------------------------------
(* Steps that somebody takes sooner or later; timers are among them.         *)
Proceed(l) ==
  \/ Expire(l) \/ Start(l) \/ Ready(l) \/ HandshakeFails(l) \/ Terminal(l) \/ Close(l)

LauncherStep(l) ==
  \/ LauncherAllocates(l) \/ LauncherRejects(l) \/ LauncherAttaches(l) \/ LauncherSpawns(l)
  \/ LauncherFails(l) \/ Terminate(l) \/ LauncherKills(l) \/ LauncherRemoves(l)

Next ==
  \/ \E l \in Launch :
       \/ Acquire(l) \/ Abort(l) \/ Proceed(l) \/ LauncherStep(l)
       \/ LauncherGivesUp(l) \/ AnalyzerExits(l) \/ AnalyzerDies(l) \/ LauncherDies(l)
  \/ ServiceDies

Fairness ==
  \A l \in Launch :
    WF_vars(Proceed(l)) /\ WF_vars(LauncherStep(l)) /\ WF_vars(AnalyzerDies(l))

Spec == Init /\ [][Next]_vars

FairSpec == Spec /\ Fairness

-----------------------------------------------------------------------------
(* Properties *)

(* Two analyzers never run at once, not even while one of them is being      *)
(* killed or could not be; only one that a dead service's launcher started   *)
(* may overlap with those of the next service.                               *)
OneAnalyzer ==
  \A l, k \in Launch :
    l # k /\ analyzer[l] \in Alive /\ analyzer[k] \in Alive =>
      "lost" \in {call[l], call[k]}

(* The admission is held exactly while one launch is between its grant and   *)
(* the end of its cleanup.                                                   *)
AdmissionAccounted ==
  /\ held <=> \E l \in Launch : call[l] \in Admitted
  /\ \A l, k \in Launch : {call[l], call[k]} \subseteq Admitted => l = k

(* A launch that came to an end, however its launcher ended, left no cgroup, *)
(* unless its completion says that the cleanup failed.                       *)
NothingLeftBehind ==
  \A l \in Launch :
    call[l] \in {"refused", "returned"} /\ l \in dir => report[l] = "failed"

(* Whatever dies, each call ends, and no analyzer outlives its time, not     *)
(* even if the service died, unless its launcher could not kill it either.   *)
EveryLaunchEnds ==
  \A l \in Launch :
    /\ call[l] \in Pending ~> call[l] \notin Pending
    /\ analyzer[l] \in Alive ~>
         analyzer[l] \notin Alive \/ (call[l] = "lost" /\ launcher[l] = "ended")

=============================================================================
