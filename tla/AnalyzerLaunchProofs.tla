------------------------ MODULE AnalyzerLaunchProofs ------------------------
(***************************************************************************)
(* What governed launches promise for any number of launches and faults.   *)
(* The only assumption is LaunchAssumption: the bound on faults is a       *)
(* number.                                                                 *)
(***************************************************************************)
EXTENDS AnalyzerLaunch, SequenceTheorems, WellFoundedInduction, TLAPS

-----------------------------------------------------------------------------
(***************************************************************************)
(* The inductive invariant.                                                *)
(***************************************************************************)

Owning   == {"handshake", "rejected", "session"}
Done     == {"refused", "returned"}
Outcomes == {"idle", "lost"} \cup Done \cup Pending

(* Who is in the queue has called; who has not called is not in it.          *)
QueuedHaveCalled == \A n \in DOMAIN queue : call[queue[n]] # "idle"

(* How far a launch's processes can be, given what its caller was told.      *)
PhasesAgree(l) ==
  /\ call[l] \in {"idle", "waiting", "granted"} => launcher[l] = "none"
  /\ call[l] \in Owning => launcher[l] # "none"
  /\ call[l] \in Done => launcher[l] \in {"none", "ended", "dead"}

(* Analyzers live in cgroups, and only launchers make either.                *)
ConfinedTo(l) ==
  /\ launcher[l] = "none" => analyzer[l] = "none" /\ l \notin dir
  /\ launcher[l] \in {"allocated", "attached", "serving"} => l \in dir
  /\ analyzer[l] \in Alive => l \in dir

(* A launcher's messages: perhaps "ready", then at most one last word, which *)
(* only one that has ended has spoken.  Nobody reads them but the service    *)
(* that started it.                                                          *)
ChannelAgrees(l) ==
  /\ \/ channel[l] = <<>>
     \/ channel[l] = <<"ready">>
     \/ /\ launcher[l] = "ended"
        /\ \E m \in {"terminated", "error"} : channel[l] \in {<<m>>, <<"ready", m>>}
  /\ launcher[l] \in {"none", "booting", "allocated", "attached"} => channel[l] = <<>>
  /\ channel[l] # <<>> => call[l] \in Owning

LaunchAgrees(l) == PhasesAgree(l) /\ ConfinedTo(l) /\ ChannelAgrees(l)

(* The delegated root has room for one launch: the one under way, or one     *)
(* whose cleanup failed.  Lost ones are what the next service finds.         *)
Occupants == active \cup {l \in dir : call[l] \in Done}
OneOccupant == \A l, k \in Occupants : l = k

LaunchInv ==
  /\ TypeOK
  /\ AdmissionAccounted
  /\ QueuedHaveCalled
  /\ \A l \in Launch : LaunchAgrees(l)
  /\ OneOccupant
  /\ NothingLeftBehind

-----------------------------------------------------------------------------
(***************************************************************************)
(* Admission.                                                              *)
(***************************************************************************)

(* A set of numbers that is not empty has a least one. *)
LEMMA LeastNumber ==
  ASSUME NEW S \in SUBSET Nat, S # {}
  PROVE  Min(S) \in S
<1> DEFINE R == OpToRel(<, Nat)
<1>1. IsWellFoundedOn(R, Nat)
  BY NatLessThanWellFounded
<1> HIDE DEF R
<1>2. PICK x \in S : \A y \in S : <<y, x>> \notin R
  BY <1>1, WFMin
<1>3. R = {pair \in Nat \X Nat : pair[1] < pair[2]}
  BY DEF R, OpToRel
<1>4. ASSUME NEW y \in S PROVE x <= y
  <2>1. <<y, x>> \in Nat \X Nat /\ <<y, x>>[1] = y /\ <<y, x>>[2] = x
    OBVIOUS
  <2>2. ~(y < x)
    BY <1>2, <1>3, <2>1
  <2> QED
    BY <2>2
<1> QED
  BY <1>4 DEF Min

(* The first that still waits, if somebody does. *)
FirstWaiting(q, c) == SelectInSeq(q, LAMBDA l : c[l] = "waiting")

\* SelectInSeq finds a waiter whenever the queue has one.
LEMMA FirstWaitingWaits ==
  ASSUME NEW q \in Seq(Launch), NEW c, \E n \in DOMAIN q : c[q[n]] = "waiting"
  PROVE  FirstWaiting(q, c) \in 1..Len(q) /\ c[q[FirstWaiting(q, c)]] = "waiting"
<1> DEFINE I == {k \in 1..Len(q) : c[q[k]] = "waiting"}
<1>1. I # {} /\ I \in SUBSET Nat
  BY LenProperties
<1>2. Min(I) \in I
  BY <1>1, LeastNumber
<1>3. FirstWaiting(q, c) = Min(I)
  BY <1>1 DEF FirstWaiting, SelectInSeq
<1> QED
  BY <1>2, <1>3

(* A queue keeps its order when its head is dropped, and nobody in it comes  *)
(* twice.                                                                    *)
LEMMA DropFront ==
  ASSUME NEW q \in Seq(Launch), IsInjective(q), NEW n \in 1..Len(q)
  PROVE  LET r == SubSeq(q, n + 1, Len(q)) IN
         /\ r \in Seq(Launch)
         /\ IsInjective(r)
         /\ \A k \in DOMAIN r : \E j \in DOMAIN q : r[k] = q[j]
<1> DEFINE r == SubSeq(q, n + 1, Len(q))
<1>1. Len(q) \in Nat /\ DOMAIN q = 1..Len(q) /\ q \in [1..Len(q) -> Launch]
  BY LenProperties
<1>2. /\ r \in Seq(Launch)
      /\ Len(r) = IF n + 1 <= Len(q) THEN Len(q) - (n + 1) + 1 ELSE 0
      /\ \A k \in 1..Len(q) - (n + 1) + 1 : r[k] = q[(n + 1) + k - 1]
  <2>1. \A i \in n + 1 .. Len(q) : q[i] \in Launch
    BY <1>1
  <2> QED
    BY <1>1, <2>1, SubSeqProperties
<1>3. DOMAIN r = 1..Len(q) - n
  BY <1>1, <1>2, LenProperties
<1>4. \A k \in DOMAIN r : k + n \in DOMAIN q /\ r[k] = q[k + n]
  BY <1>1, <1>2, <1>3
<1>5. IsInjective(r)
  BY <1>1, <1>3, <1>4 DEF IsInjective
<1> QED
  BY <1>2, <1>4, <1>5

(* What granting the admission does: nothing, or it goes to one that waits.  *)
LEMMA GrantGrants ==
  ASSUME NEW q \in Seq(Launch), IsInjective(q), NEW c \in [Launch -> Outcomes],
         NEW h \in BOOLEAN, Grant(q, c, h)
  PROVE  /\ queue' \in Seq(Launch) /\ IsInjective(queue')
         /\ \A k \in DOMAIN queue' : \E j \in DOMAIN q : queue'[k] = q[j]
         /\ \/ call' = c /\ held' = h
            \/ /\ ~h /\ held' = TRUE
               /\ \E w \in Launch : c[w] = "waiting" /\ call' = [c EXCEPT ![w] = "granted"]
<1>1. CASE h
  BY <1>1 DEF Grant
<1>2. CASE ~h /\ \A n \in DOMAIN q : c[q[n]] # "waiting"
  <2>1. queue' = <<>> /\ call' = c /\ held' = h
    BY <1>2 DEF Grant
  <2>2. DOMAIN queue' = {}
    BY <2>1
  <2> QED
    BY <2>1, <2>2, EmptySeq DEF IsInjective
<1>3. CASE ~h /\ \E n \in DOMAIN q : c[q[n]] = "waiting"
  <2> DEFINE n == FirstWaiting(q, c)
  <2>1. n \in 1..Len(q) /\ c[q[n]] = "waiting"
    BY <1>3, FirstWaitingWaits
  <2>2. /\ queue' = SubSeq(q, n + 1, Len(q))
        /\ call' = [c EXCEPT ![q[n]] = "granted"]
        /\ held' = TRUE
    BY <1>3 DEF Grant, FirstWaiting, SelectInSeq
  <2> HIDE DEF n
  <2>3. q[n] \in Launch
    BY <2>1, ElementOfSeq
  <2> QED
    BY <1>3, <2>1, <2>2, <2>3, DropFront
<1> QED
  BY <1>1, <1>2, <1>3

(* How a step may tell the others: one that waits may be granted.            *)
OthersMayBeGranted(l) ==
  \A k \in Launch \ {l} : \/ call'[k] = call[k]
                          \/ call[k] = "waiting" /\ call'[k] = "granted"

(* What a step that tells a caller o does to the admission.                  *)
Told(l, o) ==
  /\ queue' \in Seq(Launch) /\ IsInjective(queue')
  /\ QueuedHaveCalled'
  /\ held' \in BOOLEAN
  /\ call' \in [Launch -> Outcomes]
  /\ AdmissionAccounted'
  /\ OthersMayBeGranted(l)
  /\ call'[l] = o \/ (o = "waiting" /\ call'[l] = "granted")

(* A call that ends or begins to wait, and gives the admission back if it    *)
(* had it, keeps the admission accounted for.                                *)
LEMMA AdmissionKept ==
  ASSUME LaunchInv, NEW l \in Launch, NEW q, NEW o \in {"refused", "returned", "waiting"},
         NEW h \in BOOLEAN, Grant(q, Ends(l, o), h),
         q = queue \/ (q = Append(queue, l) /\ call[l] = "idle"),
         \/ h = held /\ call[l] \notin Admitted
         \/ h = FALSE /\ call[l] \in Admitted
  PROVE  Told(l, o)
<1> DEFINE c == Ends(l, o)
<1>0. /\ queue \in Seq(Launch) /\ IsInjective(queue)
      /\ call \in [Launch -> Outcomes]
      /\ QueuedHaveCalled
      /\ AdmissionAccounted
  BY DEF LaunchInv, TypeOK, Outcomes, Done
<1>1. /\ c \in [Launch -> Outcomes]
      /\ c[l] = o
      /\ \A k \in Launch \ {l} : c[k] = call[k]
  BY <1>0 DEF Ends, Outcomes, Done, Pending
<1>2. /\ q \in Seq(Launch) /\ IsInjective(q)
      /\ \A k \in DOMAIN q : q[k] \in Launch /\ c[q[k]] # "idle"
  <2>1. \A k \in DOMAIN queue : queue[k] \in Launch /\ call[queue[k]] # "idle"
    BY <1>0, LenProperties DEF QueuedHaveCalled
  <2>2. CASE q = queue
    BY <1>0, <1>1, <2>1, <2>2
  <2>3. CASE q = Append(queue, l) /\ call[l] = "idle"
    <3>1. /\ q \in Seq(Launch) /\ Len(q) = Len(queue) + 1
          /\ \A k \in 1..Len(queue) : q[k] = queue[k]
          /\ q[Len(queue) + 1] = l
      BY <1>0, <2>3, AppendProperties
    <3>2. /\ DOMAIN queue = 1..Len(queue) /\ Len(queue) \in Nat
          /\ DOMAIN q = 1..Len(queue) + 1
      BY <1>0, <3>1, LenProperties
    <3>3. IsInjective(q)
      BY <1>0, <2>1, <2>3, <3>1, <3>2 DEF IsInjective
    <3> QED
      BY <1>1, <2>1, <3>1, <3>2, <3>3
  <2> QED
    BY <2>2, <2>3
<1> HIDE DEF c
<1>3. /\ h <=> \E k \in Launch : c[k] \in Admitted
      /\ \A k, j \in Launch : {c[k], c[j]} \subseteq Admitted => k = j
  BY <1>0, <1>1 DEF AdmissionAccounted, Admitted
<1>4. /\ queue' \in Seq(Launch) /\ IsInjective(queue')
      /\ \A k \in DOMAIN queue' : \E j \in DOMAIN q : queue'[k] = q[j]
      /\ \/ call' = c /\ held' = h
         \/ /\ ~h /\ held' = TRUE
            /\ \E w \in Launch : c[w] = "waiting" /\ call' = [c EXCEPT ![w] = "granted"]
  <2>1. Grant(q, c, h)
    BY DEF c
  <2> QED
    <3>1. q \in Seq(Launch) /\ IsInjective(q) /\ c \in [Launch -> Outcomes] /\ h \in BOOLEAN
      BY <1>1, <1>2
    <3> QED
      BY <2>1, <3>1, GrantGrants, Zenon
<1>5. CASE call' = c /\ held' = h
  BY <1>1, <1>2, <1>3, <1>4, <1>5
     DEF Told, QueuedHaveCalled, AdmissionAccounted, OthersMayBeGranted
<1>6. ASSUME ~h, held' = TRUE, NEW w \in Launch, c[w] = "waiting",
             call' = [c EXCEPT ![w] = "granted"]
      PROVE  Told(l, o)
  <2>1. /\ call' \in [Launch -> Outcomes]
        /\ call'[w] = "granted"
        /\ \A k \in Launch \ {w} : call'[k] = c[k]
    BY <1>1, <1>6 DEF Outcomes, Pending, Admitted
  <2>2. AdmissionAccounted'
    BY <1>3, <1>6, <2>1 DEF AdmissionAccounted, Admitted
  <2>3. QueuedHaveCalled'
    BY <1>2, <1>4, <2>1 DEF QueuedHaveCalled
  <2> QED
    BY <1>1, <1>4, <1>6, <2>1, <2>2, <2>3 DEF Told, OthersMayBeGranted
<1> QED
  BY <1>4, <1>5, <1>6

-----------------------------------------------------------------------------
(***************************************************************************)
(* What a step leaves alone.                                               *)
(***************************************************************************)

SameProcesses(k) ==
  /\ launcher'[k] = launcher[k]
  /\ analyzer'[k] = analyzer[k]
  /\ k \in dir' <=> k \in dir
  /\ channel'[k] = channel[k]

(* A launch agrees after a step that at most grants it the admission.        *)
LEMMA StillAgrees ==
  ASSUME NEW k \in Launch, LaunchAgrees(k), SameProcesses(k),
         call'[k] = call[k] \/ (call[k] = "waiting" /\ call'[k] = "granted")
  PROVE  LaunchAgrees(k)'
  BY DEF LaunchAgrees, PhasesAgree, ConfinedTo, ChannelAgrees, SameProcesses, Owning, Done

(* Moves of callers without processes: they start to wait, or give up.       *)
LEMMA CallerMoves ==
  ASSUME LaunchInv, NEW l \in Launch, NEW o \in {"refused", "waiting"}, Told(l, o),
         call[l] \in {"idle", "waiting", "granted"},
         aborted' \in SUBSET Launch,
         UNCHANGED <<active, report, processes, channel, faults>>
  PROVE  LaunchInv'
<1> USE DEF Owning, Done, Pending, Admitted, processes
<1>0. /\ TypeOK /\ LaunchAgrees(l) /\ launcher[l] = "none" /\ l \notin dir
      /\ call[l] \notin Owning
  BY DEF LaunchInv, LaunchAgrees, PhasesAgree, ConfinedTo
<1>1. /\ queue' \in Seq(Launch) /\ IsInjective(queue')
      /\ QueuedHaveCalled'
      /\ held' \in BOOLEAN
      /\ call' \in [Launch -> Outcomes]
      /\ AdmissionAccounted'
      /\ OthersMayBeGranted(l)
      /\ call'[l] = o \/ (o = "waiting" /\ call'[l] = "granted")
  BY DEF Told
<1>2. \A k \in Launch : SameProcesses(k)
  BY DEF SameProcesses
<1>3. \A k \in Launch : call'[k] \in Owning <=> call[k] \in Owning
  BY <1>0, <1>1 DEF OthersMayBeGranted
<1>4. TypeOK'
  BY <1>0, <1>1, <1>3 DEF TypeOK, Outcomes
<1>5. ASSUME NEW k \in Launch PROVE LaunchAgrees(k)'
  <2>1. CASE k = l
    BY <1>0, <1>1, <1>2, <2>1
       DEF LaunchAgrees, PhasesAgree, ConfinedTo, ChannelAgrees, SameProcesses
  <2>2. CASE k # l
    BY <1>1, <1>2, <2>2, StillAgrees DEF LaunchInv, OthersMayBeGranted
  <2> QED
    BY <2>1, <2>2
<1>6. \A k \in dir : call'[k] \in Done => call[k] \in Done
  BY <1>0, <1>1 DEF OthersMayBeGranted, TypeOK
<1>7. OneOccupant'
  BY <1>6 DEF LaunchInv, OneOccupant, Occupants
<1>8. NothingLeftBehind'
  BY <1>6 DEF LaunchInv, NothingLeftBehind
<1> QED
  BY <1>1, <1>4, <1>5, <1>7, <1>8 DEF LaunchInv

Stages   == {"none", "booting", "allocated", "attached", "serving", "releasing",
             "emptying", "ended", "dead"}
Lives    == {"none", "gone"} \cup Alive
Messages == {"ready", "terminated", "error"}

ProcessTypes ==
  /\ launcher \in [Launch -> Stages]
  /\ analyzer \in [Launch -> Lives]
  /\ dir \in SUBSET Launch
  /\ channel \in [Launch -> Seq(Messages)]
  /\ faults \in 0..MaxFaults

(* Moves of a launcher and of its analyzer, which tell the service at most   *)
(* a message.                                                                *)
LEMMA ProcessesMove ==
  ASSUME LaunchInv, NEW l \in Launch, UNCHANGED <<service, aborted>>,
         ProcessTypes',
         \A k \in Launch \ {l} : SameProcesses(k),
         LaunchAgrees(l)',
         l \in dir' => l \in dir \/ call[l] \notin Done
  PROVE  LaunchInv'
<1> USE DEF service
<1>1. TypeOK'
  BY DEF LaunchInv, TypeOK, ProcessTypes, Stages, Lives, Messages
<1>2. AdmissionAccounted' /\ QueuedHaveCalled'
  BY DEF LaunchInv, AdmissionAccounted, QueuedHaveCalled
<1>3. \A k \in Launch : LaunchAgrees(k)'
  BY StillAgrees DEF LaunchInv
<1>4. \A k \in Launch : k \in dir' => k \in dir \/ call[k] \notin Done
  BY DEF SameProcesses
<1>5. OneOccupant'
  <2>1. Occupants' \subseteq Occupants
    BY <1>4 DEF Occupants, ProcessTypes
  <2> QED
    BY <2>1 DEF LaunchInv, OneOccupant
<1>6. NothingLeftBehind'
  BY <1>4 DEF LaunchInv, NothingLeftBehind, Done
<1> QED
  BY <1>1, <1>2, <1>3, <1>5, <1>6 DEF LaunchInv


-----------------------------------------------------------------------------
(***************************************************************************)
(* The launchers.                                                          *)
(***************************************************************************)

(* What the types say of one launch. *)
LEMMA LaunchTypes ==
  ASSUME LaunchInv, NEW l \in Launch
  PROVE  /\ call[l] \in Outcomes
         /\ launcher[l] \in Stages
         /\ analyzer[l] \in Lives
         /\ channel[l] \in Seq(Messages)
         /\ ProcessTypes
         /\ LaunchAgrees(l)
  BY DEF LaunchInv, TypeOK, Outcomes, Done, ProcessTypes, Stages, Lives, Messages

(* A message goes to the end of the channel, unless nobody listens.          *)
LEMMA Sends ==
  ASSUME LaunchInv, NEW l \in Launch, NEW m \in Messages,
         Send(l, m)
  PROVE  /\ channel' \in [Launch -> Seq(Messages)]
         /\ \A k \in Launch \ {l} : channel'[k] = channel[k]
         /\ call[l] = "lost" => channel'[l] = channel[l]
         /\ call[l] # "lost" /\ channel[l] = <<>> => channel'[l] = <<m>>
         /\ call[l] # "lost" /\ channel[l] = <<"ready">> => channel'[l] = <<"ready", m>>
<1>1. channel \in [Launch -> Seq(Messages)]
  BY LaunchTypes DEF ProcessTypes
<1>2. Append(channel[l], m) \in Seq(Messages)
  BY <1>1, AppendProperties
<1>3. channel'[l] = IF call[l] = "lost" THEN channel[l] ELSE Append(channel[l], m)
  BY <1>1 DEF Send
<1>4. Append(<<>>, m) = <<m>> /\ Append(<<"ready">>, m) = <<"ready", m>>
  <2>1. /\ <<>> \in Seq(Messages) /\ <<"ready">> \in Seq(Messages)
        /\ <<m>> \in Seq(Messages) /\ <<"ready", m>> \in Seq(Messages)
    BY DEF Messages
  <2>2. Append(<<>>, m) = <<>> \o <<m>> /\ Append(<<"ready">>, m) = <<"ready">> \o <<m>>
    BY <2>1, AppendIsConcat
  <2>3. <<>> \o <<m>> = <<m>>
    BY <2>1, ConcatEmptySeq
  <2>4. <<"ready">> \o <<m>> = <<"ready", m>>
    <3> DEFINE s == <<"ready">> \o <<m>>
               t == <<"ready", m>>
    <3>1. s \in Seq(Messages) /\ Len(s) = 2 /\ \A i \in 1..2 : s[i] = IF i <= 1 THEN "ready" ELSE m
      BY <2>1, ConcatProperties
    <3>2. t \in Seq(Messages) /\ Len(t) = 2 /\ \A i \in 1..2 : t[i] = IF i <= 1 THEN "ready" ELSE m
      BY <2>1
    <3> HIDE DEF s, t
    <3>3. Len(s) = Len(t) /\ \A i \in 1..Len(s) : s[i] = t[i]
      BY <3>1, <3>2
    <3>4. s = t
      BY <3>1, <3>2, <3>3, SeqEqual
    <3> QED
      BY <3>4 DEF s, t
  <2> QED
    BY <2>2, <2>3, <2>4
<1> QED
  BY <1>1, <1>2, <1>3, <1>4 DEF Send

(* A launch whose launcher has not told that it ended is not over.           *)
LEMMA BusyIsNotDone ==
  ASSUME LaunchInv, NEW l \in Launch, launcher[l] \notin {"none", "ended", "dead"}
  PROVE  call[l] \in Owning \cup {"lost"}
  BY LaunchTypes DEF LaunchAgrees, PhasesAgree, Outcomes, Owning, Done, Pending, Admitted

\* A launch whose cgroup is made keeps the invariant.
LEMMA AllocatesKeeps ==
  ASSUME LaunchInv, NEW l \in Launch, LauncherAllocates(l) PROVE LaunchInv'
<1> USE DEF LauncherAllocates
<1>1. call[l] \in Owning \cup {"lost"}
  BY BusyIsNotDone
<1>2. LaunchAgrees(l)'
  BY <1>1, LaunchTypes DEF LaunchInv, TypeOK, LaunchAgrees, PhasesAgree, ConfinedTo, ChannelAgrees,
                           service, Owning, Done, Alive
<1>3. \A k \in Launch \ {l} : SameProcesses(k)
  BY DEF SameProcesses, LaunchInv, TypeOK
<1>4. call[l] \notin Done
  BY <1>1 DEF Owning, Done
<1>5. ProcessTypes'
  BY LaunchTypes DEF ProcessTypes, Stages
<1> QED
  BY <1>2, <1>3, <1>4, <1>5, ProcessesMove

(* The launcher's moves that neither make a cgroup nor speak.                *)
SilentMove(l) ==
  \/ LauncherAttaches(l) \/ LauncherFails(l) \/ Terminate(l) \/ LauncherKills(l)
  \/ AnalyzerExits(l) \/ AnalyzerDies(l) \/ LauncherDies(l)

\* So does one that changes nothing but where its launcher is.
LEMMA SilentKeeps ==
  ASSUME LaunchInv, NEW l \in Launch, SilentMove(l) PROVE LaunchInv'
<1> USE DEF SilentMove, LauncherAttaches, LauncherFails, Terminate, LauncherKills,
            AnalyzerExits, AnalyzerDies, LauncherDies
<1>1. ProcessTypes'
  <2>0. ProcessTypes
    BY LaunchTypes
  <2>1. \A p \in Stages : [launcher EXCEPT ![l] = p] \in [Launch -> Stages]
    BY <2>0 DEF ProcessTypes
  <2>2. /\ [analyzer EXCEPT ![l] = "gone"] \in [Launch -> Lives]
        /\ [analyzer EXCEPT ![l] = IF analyzer[l] = "running" THEN "dying" ELSE analyzer[l]]
             \in [Launch -> Lives]
    BY <2>0 DEF ProcessTypes, Lives, Alive
  <2>3. launcher' = launcher \/ \E p \in Stages : launcher' = [launcher EXCEPT ![l] = p]
    BY DEF Stages
  <2>4. \/ analyzer' = analyzer
        \/ analyzer' = [analyzer EXCEPT ![l] = "gone"]
        \/ analyzer' = [analyzer EXCEPT ![l] =
                           IF analyzer[l] = "running" THEN "dying" ELSE analyzer[l]]
    OBVIOUS
  <2>5. dir' = dir /\ channel' = channel
    OBVIOUS
  <2>6. faults' \in 0..MaxFaults
    BY <2>0, LaunchAssumption DEF ProcessTypes
  <2> HIDE DEF SilentMove, LauncherAttaches, LauncherFails, Terminate, LauncherKills,
               AnalyzerExits, AnalyzerDies, LauncherDies
  <2> QED
    BY <2>0, <2>1, <2>2, <2>3, <2>4, <2>5, <2>6 DEF ProcessTypes
<1>2. UNCHANGED <<service, aborted, dir, channel>>
  OBVIOUS
<1>3. \A k \in Launch \ {l} : SameProcesses(k)
  BY DEF SameProcesses, LaunchInv, TypeOK
<1>4. LaunchAgrees(l)'
  <2>1. PhasesAgree(l)'
    BY LaunchTypes DEF LaunchInv, TypeOK, LaunchAgrees, PhasesAgree, ConfinedTo, service,
                       Owning, Done, Alive
  <2>2. ConfinedTo(l)'
    BY LaunchTypes DEF LaunchInv, TypeOK, LaunchAgrees, ConfinedTo, Alive
  <2>3. ChannelAgrees(l)'
    BY LaunchTypes DEF LaunchInv, TypeOK, LaunchAgrees, ConfinedTo, ChannelAgrees, service, Alive
  <2> QED
    BY <2>1, <2>2, <2>3 DEF LaunchAgrees
<1> QED
  BY <1>1, <1>2, <1>3, <1>4, ProcessesMove


(* The launcher's moves that speak: its last word, or "ready".               *)
LEMMA SpeaksLast ==
  ASSUME LaunchInv, NEW l \in Launch, NEW m \in {"terminated", "error"},
         launcher[l] \in {"booting", "releasing", "emptying"},
         launcher' = [launcher EXCEPT ![l] = "ended"],
         Send(l, m),
         UNCHANGED <<service, aborted, analyzer>>,
         dir' = dir \/ (dir' = dir \ {l} /\ analyzer[l] \notin Alive),
         faults' \in 0..MaxFaults
  PROVE  LaunchInv'
<1>1. /\ channel' \in [Launch -> Seq(Messages)]
      /\ \A k \in Launch \ {l} : channel'[k] = channel[k]
      /\ call[l] = "lost" => channel'[l] = channel[l]
      /\ call[l] # "lost" /\ channel[l] = <<>> => channel'[l] = <<m>>
      /\ call[l] # "lost" /\ channel[l] = <<"ready">> => channel'[l] = <<"ready", m>>
  <2>1. m \in Messages
    BY DEF Messages
  <2> QED
    BY <2>1, Sends
<1>2. ProcessTypes'
  BY <1>1, LaunchTypes DEF ProcessTypes, Stages
<1>3. \A k \in Launch \ {l} : SameProcesses(k)
  BY <1>1, LaunchTypes DEF SameProcesses, ProcessTypes
<1>4. launcher'[l] = "ended"
  BY LaunchTypes DEF ProcessTypes
<1>5. call[l] \in Owning \cup {"lost"}
  BY BusyIsNotDone
<1>6. ChannelAgrees(l)'
  <2>1. channel[l] = <<>> \/ channel[l] = <<"ready">>
    BY LaunchTypes DEF LaunchAgrees, ChannelAgrees
  <2>2. CASE call[l] = "lost"
    BY <1>1, <1>4, <2>2, LaunchTypes DEF LaunchAgrees, ChannelAgrees, service, Owning
  <2>3. CASE call[l] \in Owning
    <3>1. channel'[l] \in {<<m>>, <<"ready", m>>}
      BY <1>1, <2>1, <2>3 DEF Owning
    <3> QED
      BY <1>4, <2>3, <3>1 DEF ChannelAgrees, service
  <2> QED
    BY <1>5, <2>2, <2>3
<1>7. LaunchAgrees(l)'
  BY <1>4, <1>5, <1>6, LaunchTypes
     DEF LaunchAgrees, PhasesAgree, ConfinedTo, service, Owning, Done
<1> QED
  BY <1>2, <1>3, <1>7, ProcessesMove

\* And one whose analyzer starts in the cgroup that was made for it.
LEMMA SpawnsKeeps ==
  ASSUME LaunchInv, NEW l \in Launch, LauncherSpawns(l) PROVE LaunchInv'
<1> USE DEF LauncherSpawns
<1>1. /\ channel' \in [Launch -> Seq(Messages)]
      /\ \A k \in Launch \ {l} : channel'[k] = channel[k]
      /\ call[l] = "lost" => channel'[l] = channel[l]
      /\ call[l] # "lost" /\ channel[l] = <<>> => channel'[l] = <<"ready">>
  <2>1. "ready" \in Messages
    BY DEF Messages
  <2> QED
    BY <2>1, Sends
<1>2. /\ launcher'[l] = "serving" /\ analyzer'[l] = "running" /\ l \in dir
      /\ channel[l] = <<>>
  BY LaunchTypes DEF ProcessTypes, LaunchAgrees, ConfinedTo, ChannelAgrees
<1>3. ProcessTypes'
  <2>1. [launcher EXCEPT ![l] = "serving"] \in [Launch -> Stages]
    BY LaunchTypes DEF ProcessTypes, Stages
  <2>2. [analyzer EXCEPT ![l] = "running"] \in [Launch -> Lives]
    BY LaunchTypes DEF ProcessTypes, Lives, Alive
  <2> QED
    BY <1>1, <2>1, <2>2, LaunchTypes DEF ProcessTypes
<1>4. \A k \in Launch \ {l} : SameProcesses(k)
  BY <1>1, LaunchTypes DEF SameProcesses, ProcessTypes
<1>5. call[l] \in Owning \cup {"lost"}
  BY BusyIsNotDone
<1>6. ChannelAgrees(l)'
  BY <1>1, <1>2, <1>5 DEF ChannelAgrees, service, Owning
<1>7. LaunchAgrees(l)'
  BY <1>2, <1>5, <1>6 DEF LaunchAgrees, PhasesAgree, ConfinedTo, service, Owning, Done
<1> QED
  BY <1>2, <1>3, <1>4, <1>7, ProcessesMove

\* Every step of a launcher is one of those.
LEMMA LauncherKeeps ==
  ASSUME LaunchInv, NEW l \in Launch, LauncherStep(l) \/ LauncherGivesUp(l)
  PROVE  LaunchInv'
<1>0. faults \in 0..MaxFaults
  BY LaunchTypes DEF ProcessTypes
<1>1. CASE LauncherRejects(l)
  BY <1>0, <1>1, SpeaksLast DEF LauncherRejects
<1>2. CASE LauncherRemoves(l)
  <2>1. PICK m \in {"terminated", "error"} : Send(l, m)
    BY <1>2 DEF LauncherRemoves
  <2> QED
    BY <1>0, <1>2, <2>1, SpeaksLast DEF LauncherRemoves
<1>3. CASE LauncherGivesUp(l)
  <2>1. faults + 1 \in 0..MaxFaults
    BY <1>0, <1>3, LaunchAssumption DEF LauncherGivesUp
  <2> QED
    BY <1>3, <2>1, SpeaksLast DEF LauncherGivesUp
<1>4. CASE LauncherAllocates(l)
  BY <1>4, AllocatesKeeps
<1>5. CASE LauncherSpawns(l)
  BY <1>5, SpawnsKeeps
<1>6. CASE LauncherAttaches(l) \/ LauncherFails(l) \/ Terminate(l) \/ LauncherKills(l)
  BY <1>6, SilentKeeps DEF SilentMove
<1> QED
  BY <1>1, <1>2, <1>3, <1>4, <1>5, <1>6 DEF LauncherStep


-----------------------------------------------------------------------------
(***************************************************************************)
(* The service.                                                            *)
(***************************************************************************)

(* The admission is exclusive. *)
LEMMA OneAdmitted ==
  ASSUME LaunchInv, NEW l \in Launch, NEW k \in Launch, call[l] \in Admitted, call[k] \in Admitted
  PROVE  l = k
  BY DEF LaunchInv, AdmissionAccounted

\* A service that starts a launch registers it and queues or grants it.
LEMMA StartKeeps ==
  ASSUME LaunchInv, NEW l \in Launch, Start(l) PROVE LaunchInv'
<1>0. call[l] = "granted" /\ aborted' = aborted /\ TypeOK
  BY DEF Start, LaunchInv
<1>1. CASE Refuse(l)
  <2>1. /\ Grant(queue, Ends(l, "refused"), FALSE)
        /\ UNCHANGED <<active, report, processes, channel, faults>>
        /\ aborted' \in SUBSET Launch
    BY <1>0, <1>1 DEF Start, Refuse, processes, TypeOK
  <2>2. Told(l, "refused")
    BY <1>0, <2>1, AdmissionKept DEF Admitted
  <2> QED
    BY <1>0, <2>1, <2>2, CallerMoves
<1>2. CASE /\ NoUnownedCgroups
           /\ active' = active \cup {l}
           /\ launcher' = [launcher EXCEPT ![l] = "booting"]
           /\ call' = Ends(l, "handshake")
           /\ UNCHANGED <<queue, held>>
  <2>1. UNCHANGED <<aborted, report, analyzer, dir, channel, faults>>
    BY DEF Start
  <2>2. /\ call' \in [Launch -> Outcomes]
        /\ call'[l] = "handshake"
        /\ \A k \in Launch \ {l} : call'[k] = call[k]
    BY <1>0, <1>2 DEF TypeOK, Ends, Outcomes, Pending, Admitted, Done
  <2>3. active = {}
    BY <1>0, OneAdmitted DEF TypeOK, Admitted
  <2>4. dir = {}
    BY <1>2, <2>3 DEF NoUnownedCgroups
  <2>5. /\ launcher' \in [Launch -> Stages] /\ launcher'[l] = "booting"
        /\ \A k \in Launch \ {l} : launcher'[k] = launcher[k]
    BY <1>2, LaunchTypes DEF ProcessTypes, Stages
  <2>6. TypeOK'
    <3>1. active' = {k \in Launch : call'[k] \in Owning}
      BY <1>0, <1>2, <2>2 DEF TypeOK, Owning
    <3> QED
      BY <1>0, <1>2, <2>1, <2>2, <2>5, <3>1 DEF TypeOK, Outcomes, Done, Owning, Stages
  <2>7. AdmissionAccounted'
    BY <1>0, <1>2, <2>2 DEF LaunchInv, AdmissionAccounted, Admitted
  <2>8. QueuedHaveCalled'
    <3>1. \A n \in DOMAIN queue : queue[n] \in Launch
      BY <1>0, LenProperties DEF TypeOK
    <3> QED
      BY <1>2, <2>2, <3>1 DEF LaunchInv, QueuedHaveCalled
  <2>9. ASSUME NEW k \in Launch PROVE LaunchAgrees(k)'
    <3>1. CASE k # l
      BY <2>1, <2>2, <2>5, <3>1, StillAgrees DEF LaunchInv, SameProcesses
    <3>2. CASE k = l
      <4>1. channel[l] = <<>> /\ analyzer[l] = "none"
        BY <1>0, LaunchTypes DEF LaunchAgrees, PhasesAgree, ConfinedTo, ChannelAgrees
      <4> QED
        BY <2>1, <2>2, <2>5, <3>2, <4>1
           DEF LaunchAgrees, PhasesAgree, ConfinedTo, ChannelAgrees, Owning, Done, Alive
    <3> QED
      BY <3>1, <3>2
  <2>10. OneOccupant' /\ NothingLeftBehind'
    BY <1>2, <2>1, <2>3, <2>4 DEF OneOccupant, Occupants, NothingLeftBehind
  <2> QED
    BY <2>6, <2>7, <2>8, <2>9, <2>10 DEF LaunchInv
<1> QED
  BY <1>1, <1>2 DEF Start

(* "ready" is heard, or nothing is heard in time.                            *)
LEMMA HandshakeKeeps ==
  ASSUME LaunchInv, NEW l \in Launch, Ready(l) \/ HandshakeFails(l) PROVE LaunchInv'
<1>0. /\ UNCHANGED <<queue, held, aborted, active, report, processes, faults>>
      /\ TypeOK /\ LaunchAgrees(l)
  BY LaunchTypes DEF Ready, HandshakeFails, LaunchInv
<1>1. call[l] \in Owning
  BY <1>0 DEF Ready, HandshakeFails, LaunchAgrees, ChannelAgrees, Owning
<1>2. /\ call' \in [Launch -> Outcomes]
      /\ call'[l] \in Owning
      /\ \A k \in Launch \ {l} : call'[k] = call[k]
  BY <1>0, <1>1
     DEF Ready, HandshakeFails, TypeOK, Ends, Outcomes, Pending, Admitted, Done, Owning
<1>3. /\ channel' \in [Launch -> Seq(Messages)]
      /\ \A k \in Launch \ {l} : channel'[k] = channel[k]
  <2>1. channel \in [Launch -> Seq(Messages)]
    BY LaunchTypes DEF ProcessTypes
  <2>2. channel[l] # <<>> => Tail(channel[l]) \in Seq(Messages)
    BY <2>1, HeadTailProperties
  <2> QED
    BY <2>1, <2>2 DEF Ready, HandshakeFails
<1>4. ChannelAgrees(l)'
  <2>1. CASE HandshakeFails(l)
    BY <1>0, <1>2, <2>1 DEF HandshakeFails, LaunchAgrees, ChannelAgrees, processes
  <2>2. CASE Ready(l)
    <3>1. channel'[l] = Tail(channel[l])
      BY <2>2, LaunchTypes DEF Ready, ProcessTypes
    <3>2. \A m \in {"terminated", "error"} :
            /\ Head(<<m>>) = m
            /\ Tail(<<"ready">>) = <<>> /\ Tail(<<"ready", m>>) = <<m>>
      OBVIOUS
    <3> QED
      BY <1>0, <1>2, <2>2, <3>1, <3>2 DEF Ready, LaunchAgrees, ChannelAgrees, processes
  <2> QED
    BY <2>1, <2>2
<1>5. ASSUME NEW k \in Launch PROVE LaunchAgrees(k)'
  <2>1. CASE k # l
    BY <1>0, <1>2, <1>3, <2>1, StillAgrees DEF LaunchInv, SameProcesses, processes
  <2>2. CASE k = l
    BY <1>0, <1>1, <1>2, <1>4, <2>2
       DEF LaunchAgrees, PhasesAgree, ConfinedTo, processes, Owning, Done
  <2> QED
    BY <2>1, <2>2
<1>6. \A k \in Launch : /\ call'[k] \in Owning <=> call[k] \in Owning
                        /\ call'[k] \in Admitted <=> call[k] \in Admitted
                        /\ call'[k] \in Done <=> call[k] \in Done
                        /\ call'[k] = "idle" => call[k] = "idle"
  BY <1>1, <1>2 DEF Owning, Admitted, Done
<1>7. TypeOK'
  <2>1. active' = {k \in Launch : call'[k] \in Owning}
    BY <1>0, <1>6 DEF TypeOK, Owning
  <2> QED
    BY <1>0, <1>2, <1>3, <2>1 DEF TypeOK, processes, Owning, Outcomes, Done, Messages
<1>8. AdmissionAccounted'
  BY <1>0, <1>6 DEF LaunchInv, AdmissionAccounted
<1>9. QueuedHaveCalled'
  <2>1. \A n \in DOMAIN queue : queue[n] \in Launch
    BY <1>0, LenProperties DEF TypeOK
  <2> QED
    BY <1>0, <1>6, <2>1 DEF LaunchInv, QueuedHaveCalled
<1>10. OneOccupant' /\ NothingLeftBehind'
  BY <1>0, <1>6 DEF LaunchInv, TypeOK, OneOccupant, Occupants, NothingLeftBehind, processes, Done
<1> QED
  BY <1>5, <1>7, <1>8, <1>9, <1>10 DEF LaunchInv


(* The end of a launch: its cgroup is cleaned up, or its report says that it *)
(* could not be, and the admission goes to the next.                         *)
LEMMA CompleteKeeps ==
  ASSUME LaunchInv, NEW l \in Launch, Complete(l), Exited(l), call[l] \in Owning,
         UNCHANGED <<aborted, launcher>>,
         channel' \in [Launch -> Seq(Messages)], channel'[l] = <<>>,
         \A k \in Launch \ {l} : channel'[k] = channel[k]
  PROVE  LaunchInv'
<1>0. TypeOK /\ LaunchAgrees(l) /\ ProcessTypes
  BY LaunchTypes DEF LaunchInv
<1>1. PICK o \in {"returned", "refused"} : Grant(queue, Ends(l, o), FALSE)
  BY DEF Complete
<1>2. /\ queue' \in Seq(Launch) /\ IsInjective(queue')
      /\ QueuedHaveCalled'
      /\ held' \in BOOLEAN
      /\ call' \in [Launch -> Outcomes]
      /\ AdmissionAccounted'
      /\ OthersMayBeGranted(l)
      /\ call'[l] = o
  <2>1. Told(l, o)
    BY <1>1, AdmissionKept DEF Admitted, Owning
  <2> QED
    BY <2>1 DEF Told
<1>3. /\ dir' \subseteq Launch
      /\ analyzer' \in [Launch -> Lives]
      /\ faults' \in 0..MaxFaults
      /\ report' \in [Launch -> {"none", "passed", "failed"}]
      /\ \A k \in Launch \ {l} : analyzer'[k] = analyzer[k] /\ (k \in dir' <=> k \in dir)
      /\ \A k \in Launch \ {l} : report'[k] = report[k]
      /\ l \in dir' => l \in dir /\ report'[l] = "failed"
      /\ analyzer'[l] \in Alive => l \in dir'
      /\ analyzer[l] = "none" => analyzer'[l] = "none"
  <2>1. report \in [Launch -> {"none", "passed", "failed"}]
    BY <1>0 DEF TypeOK
  <2>2. CASE /\ dir' = dir \ {l}
             /\ analyzer' = [analyzer EXCEPT ![l] = IF @ \in Alive THEN "gone" ELSE @]
             /\ report' = [report EXCEPT ![l] = "passed"]
             /\ UNCHANGED faults
    BY <1>0, <2>1, <2>2 DEF ProcessTypes, Lives, Alive
  <2>3. CASE /\ l \in dir /\ faults < MaxFaults
             /\ faults' = faults + 1
             /\ analyzer' = [analyzer EXCEPT ![l] = IF @ \in Alive THEN "dying" ELSE @]
             /\ report' = [report EXCEPT ![l] = "failed"]
             /\ UNCHANGED dir
    <3>1. faults' \in 0..MaxFaults
      BY <1>0, <2>3, LaunchAssumption DEF ProcessTypes
    <3> QED
      BY <1>0, <2>1, <2>3, <3>1 DEF ProcessTypes, Lives, Alive
  <2> QED
    BY <2>2, <2>3 DEF Complete, CleanUp
<1>4. \A k \in Launch \ {l} : call[k] \notin Owning /\ call'[k] \notin Owning
  BY <1>2, OneAdmitted DEF OthersMayBeGranted, Owning, Admitted
<1>5. active' = {} /\ active = {l}
  BY <1>0, <1>4 DEF Complete, TypeOK, Owning
<1>6. TypeOK'
  <2>1. active' = {k \in Launch : call'[k] \in Owning}
    BY <1>2, <1>4, <1>5 DEF Owning
  <2> QED
    BY <1>0, <1>2, <1>3, <2>1 DEF TypeOK, ProcessTypes, Owning, Outcomes, Done, Lives, Messages
<1>7. ASSUME NEW k \in Launch PROVE LaunchAgrees(k)'
  <2>1. CASE k # l
    BY <1>2, <1>3, <2>1, StillAgrees DEF LaunchInv, SameProcesses, OthersMayBeGranted
  <2>2. CASE k = l
    BY <1>0, <1>2, <1>3, <2>2
       DEF LaunchAgrees, PhasesAgree, ConfinedTo, ChannelAgrees, Exited, Owning, Done
  <2> QED
    BY <2>1, <2>2
<1>8. \A k \in dir' : call'[k] \in Done => k = l \/ call[k] \in Done
  BY <1>2, <1>3 DEF OthersMayBeGranted, Done
<1>9. OneOccupant'
  <2>1. Occupants' \subseteq Occupants
    BY <1>3, <1>5, <1>8 DEF Occupants
  <2> QED
    BY <2>1 DEF LaunchInv, OneOccupant
<1>10. NothingLeftBehind'
  BY <1>3, <1>8 DEF LaunchInv, NothingLeftBehind, Done
<1> QED
  BY <1>2, <1>6, <1>7, <1>9, <1>10 DEF LaunchInv

\* A launch that ends gives its admission to the first that waits.
LEMMA EndKeeps ==
  ASSUME LaunchInv, NEW l \in Launch, Terminal(l) \/ Close(l) PROVE LaunchInv'
<1>0. LaunchAgrees(l) /\ channel \in [Launch -> Seq(Messages)]
  BY LaunchTypes DEF ProcessTypes
<1>1. CASE Terminal(l)
  <2>1. \A m \in {"terminated", "error"} :
          Head(<<"ready", m>>) = "ready" /\ Head(<<"ready">>) = "ready" /\ Tail(<<m>>) = <<>>
    OBVIOUS
  <2>2. /\ launcher[l] = "ended" /\ call[l] \in Owning
        /\ \E m \in {"terminated", "error"} : channel[l] = <<m>>
    BY <1>0, <1>1, <2>1 DEF Terminal, LaunchAgrees, ChannelAgrees
  <2>3. Tail(channel[l]) = <<>>
    BY <2>1, <2>2
  <2>4. /\ channel' \in [Launch -> Seq(Messages)] /\ channel'[l] = <<>>
        /\ \A k \in Launch \ {l} : channel'[k] = channel[k]
    BY <1>0, <1>1, <2>3 DEF Terminal
  <2> QED
    BY <1>1, <2>2, <2>4, CompleteKeeps DEF Terminal, Exited
<1>2. CASE Close(l)
  BY <1>0, <1>2, CompleteKeeps DEF Close, Owning
<1> QED
  BY <1>1, <1>2

(* The next service starts with nothing; what its predecessor had under way  *)
(* is lost, and no launcher of it talks to anybody.                          *)
LEMMA ServiceDiesKeeps == ASSUME LaunchInv, ServiceDies PROVE LaunchInv'
<1> USE DEF ServiceDies
<1>0. TypeOK /\ UNCHANGED <<aborted, report, processes>>
  BY DEF LaunchInv
<1>1. \A l \in Launch : /\ call'[l] = IF call[l] \in Pending THEN "lost" ELSE call[l]
                        /\ call'[l] \notin Pending
                        /\ channel'[l] = <<>>
  BY DEF Pending, Admitted
<1>2. TypeOK'
  <2>1. active' = {l \in Launch : call'[l] \in Owning}
    BY <1>1 DEF Owning, Pending, Admitted
  <2>2. call' \in [Launch -> Outcomes]
    BY <1>0 DEF TypeOK, Outcomes, Done
  <2>3. queue' \in Seq(Launch) /\ IsInjective(queue')
    BY DEF IsInjective
  <2>4. faults' \in 0..MaxFaults
    BY <1>0, LaunchAssumption DEF TypeOK
  <2>5. channel' \in [Launch -> Seq(Messages)]
    OBVIOUS
  <2> QED
    BY <1>0, <2>1, <2>2, <2>3, <2>4, <2>5
       DEF TypeOK, processes, Owning, Outcomes, Done, Messages
<1>3. AdmissionAccounted' /\ QueuedHaveCalled'
  BY <1>1 DEF AdmissionAccounted, QueuedHaveCalled, Pending
<1>4. ASSUME NEW l \in Launch PROVE LaunchAgrees(l)'
  BY <1>0, <1>1, LaunchTypes
     DEF LaunchAgrees, PhasesAgree, ConfinedTo, ChannelAgrees, processes,
         Owning, Done, Pending, Admitted
<1>5. \A l \in Launch : call'[l] \in Done => call[l] \in Done
  BY <1>1 DEF Done
<1>6. OneOccupant' /\ NothingLeftBehind'
  BY <1>0, <1>5 DEF LaunchInv, TypeOK, OneOccupant, Occupants, NothingLeftBehind, processes, Done
<1> QED
  BY <1>2, <1>3, <1>4, <1>6 DEF LaunchInv


-----------------------------------------------------------------------------
(***************************************************************************)
(* The theorems.                                                           *)
(***************************************************************************)

\* The invariant holds of services that launched nothing.
LEMMA LaunchInit == Init => LaunchInv
<1> SUFFICES ASSUME Init PROVE LaunchInv
  OBVIOUS
<1> USE DEF Init
<1>1. TypeOK
  <2>1. queue \in Seq(Launch) /\ IsInjective(queue)
    BY DEF IsInjective
  <2>2. faults \in 0..MaxFaults
    BY LaunchAssumption
  <2>3. channel \in [Launch -> Seq({"ready", "terminated", "error"})]
    OBVIOUS
  <2>4. active = {l \in Launch : call[l] \in {"handshake", "rejected", "session"}}
    OBVIOUS
  <2> QED
    BY <2>1, <2>2, <2>3, <2>4 DEF TypeOK
<1>2. AdmissionAccounted /\ QueuedHaveCalled
  BY DEF AdmissionAccounted, QueuedHaveCalled, Admitted
<1>3. \A l \in Launch : LaunchAgrees(l)
  BY DEF LaunchAgrees, PhasesAgree, ConfinedTo, ChannelAgrees, Owning, Done, Alive
<1>4. OneOccupant /\ NothingLeftBehind
  BY DEF OneOccupant, Occupants, NothingLeftBehind
<1> QED
  BY <1>1, <1>2, <1>3, <1>4 DEF LaunchInv

\* Every step keeps the invariant.
LEMMA LaunchNext == LaunchInv /\ [Next]_vars => LaunchInv'
<1> SUFFICES ASSUME LaunchInv, [Next]_vars PROVE LaunchInv'
  OBVIOUS
<1>0. aborted \in SUBSET Launch /\ held \in BOOLEAN
  BY DEF LaunchInv, TypeOK
<1>1. ASSUME NEW l \in Launch, Acquire(l) PROVE LaunchInv'
  <2>1. /\ UNCHANGED <<aborted, active, report, processes, channel, faults>>
        /\ call[l] = "idle"
    BY <1>1 DEF Acquire
  <2>2. CASE call' = Ends(l, "refused") /\ UNCHANGED <<queue, held>>
    <3>1. /\ TypeOK /\ QueuedHaveCalled /\ AdmissionAccounted
          /\ \A n \in DOMAIN queue : queue[n] \in Launch
      BY LenProperties DEF LaunchInv, TypeOK
    <3>2. /\ call' \in [Launch -> Outcomes]
          /\ call'[l] = "refused"
          /\ \A k \in Launch \ {l} : call'[k] = call[k]
      BY <2>2, <3>1 DEF TypeOK, Ends, Outcomes, Done
    <3>3. QueuedHaveCalled'
      BY <2>2, <3>1, <3>2 DEF QueuedHaveCalled
    <3>4. AdmissionAccounted'
      BY <2>1, <2>2, <3>1, <3>2 DEF AdmissionAccounted, Admitted
    <3>5. Told(l, "refused")
      BY <2>2, <3>1, <3>2, <3>3, <3>4 DEF TypeOK, Told, OthersMayBeGranted
    <3> QED
      BY <1>0, <2>1, <3>5, CallerMoves
  <2>3. CASE Grant(Append(queue, l), Ends(l, "waiting"), held)
    <3>1. Told(l, "waiting")
      BY <1>0, <2>1, <2>3, AdmissionKept DEF Admitted
    <3> QED
      BY <1>0, <2>1, <3>1, CallerMoves
  <2> QED
    BY <1>1, <2>2, <2>3 DEF Acquire
<1>2. ASSUME NEW l \in Launch, call[l] = "waiting", Grant(queue, Ends(l, "refused"), held),
             aborted' \in SUBSET Launch,
             UNCHANGED <<active, report, processes, channel, faults>>
      PROVE  LaunchInv'
  <2>1. Told(l, "refused")
    BY <1>0, <1>2, AdmissionKept DEF Admitted
  <2> QED
    BY <1>2, <2>1, CallerMoves
<1>3. ASSUME aborted' \in SUBSET Launch,
             UNCHANGED <<queue, held, call, active, report, processes, channel, faults>>
      PROVE  LaunchInv'
  <2>1. TypeOK'
    BY <1>3 DEF LaunchInv, TypeOK, processes
  <2>2. AdmissionAccounted' /\ QueuedHaveCalled' /\ OneOccupant' /\ NothingLeftBehind'
    BY <1>3 DEF LaunchInv, AdmissionAccounted, QueuedHaveCalled, OneOccupant, Occupants,
                NothingLeftBehind, processes
  <2>3. \A l \in Launch : LaunchAgrees(l)'
    BY <1>3, StillAgrees DEF LaunchInv, SameProcesses, processes
  <2> QED
    BY <2>1, <2>2, <2>3 DEF LaunchInv
<1>4. ASSUME NEW l \in Launch, Expire(l) \/ Abort(l) PROVE LaunchInv'
  BY <1>0, <1>2, <1>3, <1>4 DEF Expire, Abort
<1>5. ASSUME NEW l \in Launch, Proceed(l) PROVE LaunchInv'
  BY <1>4, <1>5, StartKeeps, HandshakeKeeps, EndKeeps DEF Proceed
<1>6. ASSUME NEW l \in Launch, LauncherStep(l) \/ LauncherGivesUp(l) PROVE LaunchInv'
  BY <1>6, LauncherKeeps
<1>7. ASSUME NEW l \in Launch, AnalyzerExits(l) \/ AnalyzerDies(l) \/ LauncherDies(l)
      PROVE  LaunchInv'
  BY <1>7, SilentKeeps DEF SilentMove
<1>8. CASE ServiceDies
  BY <1>8, ServiceDiesKeeps
<1>9. CASE UNCHANGED vars
  BY <1>0, <1>3, <1>9 DEF vars, processes
<1> QED
  BY <1>1, <1>4, <1>5, <1>6, <1>7, <1>8, <1>9 DEF Next

\* The invariant holds in every state.
LEMMA LaunchSafety == Spec => []LaunchInv
  BY LaunchInit, LaunchNext, PTL DEF Spec

\* Type correctness of services, launchers and analyzers; with it, the cgroups
\* that activeAnalysisCgroups registers are those of launches under way.
THEOREM LaunchTypeCorrect == Spec => []TypeOK
<1>1. LaunchInv => TypeOK
  BY DEF LaunchInv
<1> QED
  BY <1>1, LaunchSafety, PTL

\* The admission is held exactly while one launch is between its grant and the end
\* of its cleanup, whoever gives up, expires, fails or dies (acquireLaunchAdmission,
\* grantNextLaunchAdmission, releaseLaunchAdmission).
THEOREM AdmissionIsAccounted == Spec => []AdmissionAccounted
<1>1. LaunchInv => AdmissionAccounted
  BY DEF LaunchInv
<1> QED
  BY <1>1, LaunchSafety, PTL

\* A launch that ended, however its launcher did, left no cgroup without saying so
\* (cleanupReportedCgroup).
THEOREM NothingIsLeft == Spec => []NothingLeftBehind
<1>1. LaunchInv => NothingLeftBehind
  BY DEF LaunchInv
<1> QED
  BY <1>1, LaunchSafety, PTL

\* One service never has two analyzers alive, not even one it could not kill: it
\* lives in a cgroup, and a cgroup left behind stops the next start
\* (assertNoUnownedCgroups).
THEOREM OneAnalyzerAtATime == Spec => []OneAnalyzer
<1>1. ASSUME LaunchInv, NEW l \in Launch, analyzer[l] \in Alive, call[l] # "lost"
      PROVE  l \in Occupants
  <2>1. l \in dir /\ launcher[l] # "none"
    BY <1>1, LaunchTypes DEF LaunchAgrees, ConfinedTo, Alive
  <2>2. call[l] \in Owning \cup Done
    BY <1>1, <2>1, LaunchTypes
       DEF LaunchAgrees, PhasesAgree, Outcomes, Owning, Done, Pending, Admitted
  <2>3. call[l] \in Owning => l \in active
    BY <1>1 DEF LaunchInv, TypeOK, Owning
  <2> QED
    BY <2>1, <2>2, <2>3 DEF Occupants
<1>2. LaunchInv => OneAnalyzer
  BY <1>1 DEF LaunchInv, OneOccupant, OneAnalyzer
<1> QED
  BY <1>2, LaunchSafety, PTL

=============================================================================
