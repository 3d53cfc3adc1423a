----------------------- MODULE NeighborPipelineProofs -----------------------
(***************************************************************************)
(* Proofs about NeighborPipeline for any number of process ids, requests    *)
(* and crashes.                                                             *)
(***************************************************************************)
EXTENDS NeighborPipeline, FiniteSetTheorems, TLAPS

\* One process writes into the ring directory, and one more for each failure of pidof.
OwnCount == IsFiniteSet(Own) /\ OneCollector

\* The mutex protects the managed pid while stopManagedDiagLocked sleeps.
StopOK ==
    stopping # NoStop => /\ stopping.pid \in Pids
                         /\ stopping.at # "ensure" => pid = stopping.pid

IInv == TypeOK /\ OwnCount /\ StopOK /\ ChildIsManaged
-----------------------------------------------------------------------------
(***************************************************************************)
(* Counting collectors.                                                     *)
(***************************************************************************)

\* No new collector: the count still holds.
LEMMA FewerOwn ==
  ASSUME IInv, Own' \subseteq Own, blind' \in {blind, blind + 1}, blind' \in Nat
  PROVE  OwnCount'
<1>1. IsFiniteSet(Own') /\ Cardinality(Own') <= Cardinality(Own)
  BY FS_Subset DEF IInv, OwnCount
<1>2. Cardinality(Own) \in Nat /\ Cardinality(Own') \in Nat
  BY <1>1, FS_CardinalityType DEF IInv, OwnCount
<1>3. blind \in Nat /\ Cardinality(Own) <= 1 + blind
  BY BoundAssumption DEF IInv, TypeOK, OwnCount, OneCollector
<1> QED
  BY <1>1, <1>2, <1>3 DEF OwnCount, OneCollector

\* One more collector is the first one, or pidof has failed once more.
LEMMA OneMoreOwn ==
  ASSUME IInv, NEW p, Own' = Own \cup {p},
         \/ Own = {} /\ blind' = blind
         \/ blind' = blind + 1
  PROVE  OwnCount'
<1>1. IsFiniteSet(Own) /\ Cardinality(Own) \in Nat
  BY FS_CardinalityType DEF IInv, OwnCount
<1>2. blind \in Nat /\ Cardinality(Own) <= 1 + blind
  BY BoundAssumption DEF IInv, TypeOK, OwnCount, OneCollector
<1>3. /\ IsFiniteSet(Own \cup {p})
      /\ Cardinality(Own \cup {p}) = Cardinality(Own)
         \/ Cardinality(Own \cup {p}) = Cardinality(Own) + 1
  BY <1>1, FS_AddElement
<1>4. Own = {} => Cardinality(Own) = 0
  BY FS_EmptySet
<1> QED
  BY <1>1, <1>2, <1>3, <1>4 DEF OwnCount, OneCollector

-----------------------------------------------------------------------------
(***************************************************************************)
(* refreshManagedPIDLocked.                                                 *)
(***************************************************************************)

\* What it answers is a collector that runs, and the only one; without a managed
\* one there is no child that nobody has stopped.
LEMMA RefreshedFacts ==
  ASSUME IInv
  PROVE  /\ Refreshed.pid \in Own \cup {NoPid}
         /\ Refreshed.file \in Pids \cup {NoPid}
         /\ \A p \in Pids : proc[p] = "own" /\ reaper[p] = "waiting" => Refreshed.pid = p
<1>1. CASE IsNeighborDiag(pid)
  <2>1. Refreshed.pid = pid /\ Refreshed.file = pidFile
    BY <1>1 DEF Refreshed
  <2>2. pid \in Own
    BY <1>1 DEF IInv, TypeOK, Own, IsNeighborDiag
  <2> QED
    BY <2>1, <2>2 DEF IInv, TypeOK, ChildIsManaged
<1>2. CASE ~IsNeighborDiag(pid)
  <2>1. /\ Refreshed.pid = IF IsNeighborDiag(pidFile) THEN pidFile ELSE NoPid
        /\ Refreshed.file = IF IsNeighborDiag(pidFile) THEN pidFile ELSE NoPid
    BY <1>2 DEF Refreshed
  <2>2. IsNeighborDiag(pidFile) => pidFile \in Own
    BY DEF IInv, TypeOK, Own, IsNeighborDiag
  <2>3. \A p \in Pids : ~(proc[p] = "own" /\ reaper[p] = "waiting")
    BY <1>2, NoPidAssumption DEF IInv, ChildIsManaged, IsNeighborDiag
  <2> QED
    BY <2>1, <2>2, <2>3 DEF IInv, TypeOK
<1> QED
  BY <1>1, <1>2

\* Only the managed pid and diag.pid change, outside a stop that sleeps.
LEMMA Repoint ==
  ASSUME IInv, UNCHANGED <<proc, reaper, crashes>>,
         blind' \in {blind, blind + 1}, blind' \in 0..MaxBlind,
         req' \in [Requests -> {"idle", "collect"}], access' \in BOOLEAN,
         monitor' \in BOOLEAN,
         pid' \in Pids \cup {NoPid}, pidFile' \in Pids \cup {NoPid},
         stopping' \in Stops,
         StopOK',
         \A p \in Pids : proc[p] = "own" /\ reaper[p] = "waiting" => pid' = p
  PROVE  IInv'
<1>1. TypeOK'
  BY DEF IInv, TypeOK
<1>2. OwnCount'
  <2>1. Own' = Own
    BY DEF Own, IsNeighborDiag
  <2> QED
    BY <2>1, FewerOwn, BoundAssumption
<1>3. ChildIsManaged'
  BY DEF IInv, ChildIsManaged
<1> QED
  BY <1>1, <1>2, <1>3 DEF IInv

\* blind counts at most to its bound.
LEMMA BlindType ==
  ASSUME IInv, blind' = blind \/ PidofFails
  PROVE  blind' \in {blind, blind + 1} /\ blind' \in 0..MaxBlind
  BY BoundAssumption DEF IInv, TypeOK, PidofFails

\* No stop sleeps: the type and what StopOK says of it.
LEMMA NotStopping ==
  ASSUME stopping' = NoStop
  PROVE  /\ stopping' \in Stops
         /\ StopOK'
  BY DEF NoStop, Stops, StopOK

-----------------------------------------------------------------------------
(***************************************************************************)
(* ensureManagedDiagLocked and the first half of stopManagedDiagLocked,     *)
(* whoever calls them.                                                      *)
(***************************************************************************)
LEMMA EnsureFindsInv ==
  ASSUME IInv, EnsureFinds, stopping' = NoStop, UNCHANGED crashes,
         req' \in [Requests -> {"idle", "collect"}], access' \in BOOLEAN,
         monitor' \in BOOLEAN
  PROVE  IInv'
<1>1. CASE Refreshed.pid # NoPid
  <2>1. pid' = Refreshed.pid /\ pidFile' = Refreshed.file /\ UNCHANGED <<proc, reaper, blind>>
    BY <1>1 DEF EnsureFinds
  <2>2. Own \subseteq Pids
    BY DEF Own
  <2> QED
    BY <2>1, <2>2, RefreshedFacts, NotStopping, BlindType, Repoint
<1>2. CASE Refreshed.pid = NoPid
  <2>1. PICK p \in Own : pid' = p /\ WritePid(p)
    BY <1>2 DEF EnsureFinds
  <2>2. UNCHANGED <<proc, reaper, blind>> /\ p \in Pids /\ pidFile' \in {p, Refreshed.file}
    BY <2>1 DEF EnsureFinds, Own, WritePid
  <2>4. \A q \in Pids : ~(proc[q] = "own" /\ reaper[q] = "waiting")
    BY <1>2, RefreshedFacts, NoPidAssumption
  <2> QED
    BY <2>1, <2>2, <2>4, RefreshedFacts, NotStopping, BlindType, Repoint
<1> QED
  BY <1>1, <1>2

LEMMA EnsureStartsInv ==
  ASSUME IInv, EnsureStarts, stopping' = NoStop, UNCHANGED crashes,
         req' \in [Requests -> {"idle", "collect"}], access' \in BOOLEAN,
         monitor' \in BOOLEAN
  PROVE  IInv'
<1>1. PICK p \in Pids :
        /\ proc[p] = "none" /\ reaper[p] = "none"
        /\ proc' = [proc EXCEPT ![p] = "own"]
        /\ reaper' = [reaper EXCEPT ![p] = "waiting"]
        /\ pid' = p /\ WritePid(p)
  BY DEF EnsureStarts, StartDiag
<1>2. /\ (Own = {} /\ blind' = blind) \/ PidofFails
      /\ Refreshed.pid = NoPid
  BY DEF EnsureStarts
<1>3. /\ proc \in [Pids -> ProcKinds]
      /\ reaper \in [Pids -> {"none", "waiting", "reaped"}]
  BY DEF IInv, TypeOK
<1>4. /\ proc'[p] = "own" /\ reaper'[p] = "waiting"
      /\ \A q \in Pids : q # p => proc'[q] = proc[q] /\ reaper'[q] = reaper[q]
      /\ proc' \in [Pids -> ProcKinds]
      /\ reaper' \in [Pids -> {"none", "waiting", "reaped"}]
  BY <1>1, <1>3 DEF ProcKinds
<1>5. pidFile' \in Pids \cup {NoPid}
  BY <1>1, RefreshedFacts DEF WritePid
<1>6. TypeOK'
  BY <1>1, <1>2, <1>4, <1>5, NotStopping, BlindType DEF IInv, TypeOK
<1>7. Own' = Own \cup {p}
  BY <1>1, <1>4, NoPidAssumption DEF Own, IsNeighborDiag
<1>8. OwnCount'
  BY <1>2, <1>7, OneMoreOwn DEF PidofFails
<1>9. ChildIsManaged'
  <2>1. \A q \in Pids : ~(proc[q] = "own" /\ reaper[q] = "waiting")
    BY <1>2, RefreshedFacts, NoPidAssumption
  <2> QED
    BY <1>1, <1>4, <2>1 DEF ChildIsManaged
<1> QED
  BY <1>6, <1>8, <1>9, NotStopping DEF IInv

LEMMA EnsureFailsInv ==
  ASSUME IInv, EnsureFails, stopping' = NoStop, UNCHANGED crashes,
         req' \in [Requests -> {"idle", "collect"}], access' \in BOOLEAN,
         monitor' \in BOOLEAN
  PROVE  IInv'
<1>1. \A p \in Pids : ~(proc[p] = "own" /\ reaper[p] = "waiting")
  BY RefreshedFacts, NoPidAssumption DEF EnsureFails
<1> QED
  BY <1>1, NotStopping, BlindType, Repoint DEF EnsureFails

LEMMA BeginStopInv ==
  ASSUME IInv, NEW after \in {"idle", "restart"}, BeginStop(after),
         UNCHANGED crashes,
         req' \in [Requests -> {"idle", "collect"}], access' \in BOOLEAN,
         monitor' \in BOOLEAN
  PROVE  IInv'
<1>1. /\ pid' = Refreshed.pid /\ pidFile' = Refreshed.file
      /\ UNCHANGED <<proc, reaper, blind>>
      /\ stopping' = IF Refreshed.pid = NoPid THEN NoStop
                     ELSE [pid |-> Refreshed.pid, at |-> "wait", after |-> after]
  BY DEF BeginStop
<1>2. Own \subseteq Pids
  BY DEF Own
<1>3. CASE Refreshed.pid = NoPid
  BY <1>1, <1>2, <1>3, RefreshedFacts, NotStopping, BlindType, Repoint
<1>4. CASE Refreshed.pid # NoPid
  <2>1. Refreshed.pid \in Pids
    BY <1>2, <1>4, RefreshedFacts
  <2>2. stopping' = [pid |-> Refreshed.pid, at |-> "wait", after |-> after]
    BY <1>1, <1>4
  <2>3. /\ stopping'.pid = Refreshed.pid
        /\ stopping' \in Stops
    BY <2>1, <2>2 DEF Stops
  <2>4. StopOK'
    BY <1>1, <2>1, <2>3 DEF StopOK
  <2> QED
    BY <1>1, <2>1, <2>3, <2>4, RefreshedFacts, BlindType, Repoint
<1> QED
  BY <1>3, <1>4

-----------------------------------------------------------------------------
(***************************************************************************)
(* The actions.                                                             *)
(***************************************************************************)
LEMMA RequestEnsureInv ==
  ASSUME IInv, NEW r \in Requests, RequestEnsure(r)
  PROVE  IInv'
<1>1. /\ stopping' = NoStop /\ UNCHANGED crashes
      /\ access' = TRUE /\ monitor' = TRUE
  BY DEF RequestEnsure, Unlocked
<1>2. req' \in [Requests -> {"idle", "collect"}]
  BY DEF RequestEnsure, IInv, TypeOK
<1> QED
  BY <1>1, <1>2, EnsureFindsInv, EnsureStartsInv, EnsureFailsInv DEF RequestEnsure

LEMMA RequestDoneInv ==
  ASSUME IInv, NEW r \in Requests, RequestDone(r)
  PROVE  IInv'
<1>1. /\ UNCHANGED <<crashes, monitor>> /\ access' = FALSE
      /\ BeginStop("idle")
  BY DEF RequestDone
<1>2. req' \in [Requests -> {"idle", "collect"}] /\ monitor' \in BOOLEAN
  BY DEF RequestDone, IInv, TypeOK
<1> QED
  BY <1>1, <1>2, BeginStopInv

\* NeighborServiceStopHandler, the idle and the stale timeout of the monitor.
LEMMA StopsInv ==
  ASSUME IInv, StopHandler \/ MonitorIdle \/ MonitorStale
  PROVE  IInv'
<1>1. /\ UNCHANGED <<crashes, req, monitor>> /\ access' \in {FALSE, access}
      /\ BeginStop("idle") \/ BeginStop("restart")
  BY DEF StopHandler, MonitorIdle, MonitorStale
<1>2. /\ req' \in [Requests -> {"idle", "collect"}]
      /\ access' \in BOOLEAN /\ monitor' \in BOOLEAN
  BY <1>1 DEF IInv, TypeOK
<1> QED
  BY <1>1, <1>2, BeginStopInv

LEMMA RefreshInv ==
  ASSUME IInv, Refresh
  PROVE  IInv'
<1>1. /\ stopping' = NoStop /\ pid' = Refreshed.pid /\ pidFile' = Refreshed.file
      /\ UNCHANGED <<proc, reaper, access, req, monitor, crashes, blind>>
  BY DEF Refresh, Unlocked
<1>2. /\ req' \in [Requests -> {"idle", "collect"}]
      /\ access' \in BOOLEAN /\ monitor' \in BOOLEAN /\ Own \subseteq Pids
  BY <1>1 DEF IInv, TypeOK, Own
<1> QED
  BY <1>1, <1>2, RefreshedFacts, NotStopping, BlindType, Repoint

\* The monitor ensures, on its own or after it stopped a stale collector.
LEMMA MonitorEnsureInv ==
  ASSUME IInv, MonitorEnsure \/ MonitorRestart
  PROVE  IInv'
<1>1. /\ stopping' = NoStop /\ UNCHANGED <<access, req, monitor, crashes>>
      /\ EnsureFinds \/ EnsureStarts \/ EnsureFails
  BY DEF MonitorEnsure, MonitorRestart, Ensure, Unlocked
<1>2. /\ req' \in [Requests -> {"idle", "collect"}]
      /\ access' \in BOOLEAN /\ monitor' \in BOOLEAN
  BY <1>1 DEF IInv, TypeOK
<1> QED
  BY <1>1, <1>2, EnsureFindsInv, EnsureStartsInv, EnsureFailsInv

\* The end of the stop, whatever became of the process: what was managed is no collector
\* any more, or one that SIGKILL is about to end.
LEMMA FinishStopInv ==
  ASSUME IInv, FinishStop, stopping # NoStop, stopping.at # "ensure",
         proc' \in [Pids -> ProcKinds],
         \A p \in Pids : p # pid => proc'[p] = proc[p],
         proc'[pid] = "killed" => proc[pid] \in {"own", "killed"},
         proc'[pid] # "own",
         reaper[pid] = "waiting" => proc'[pid] \in {"own", "killed", "zombie"}
  PROVE  IInv'
<1>1. /\ pid' = NoPid /\ pidFile' = NoPid
      /\ UNCHANGED <<reaper, access, req, monitor, crashes, blind>>
  BY DEF FinishStop
<1>2. pid = stopping.pid /\ pid \in Pids
  BY DEF IInv, StopOK
<1>3. stopping' \in Stops /\ StopOK'
  <2>1. CASE stopping.after = "restart"
    <3>1. stopping' = [stopping EXCEPT !.at = "ensure"]
      BY <2>1 DEF FinishStop
    <3>2. stopping \in Stops
      BY DEF IInv, TypeOK
    <3>3. /\ stopping'.pid = stopping.pid /\ stopping'.at = "ensure"
          /\ stopping' \in Stops
      BY <3>1, <3>2 DEF Stops
    <3> QED
      BY <1>2, <3>3 DEF StopOK
  <2>2. CASE stopping.after # "restart"
    BY <2>2, NotStopping DEF FinishStop
  <2> QED
    BY <2>1, <2>2
<1>4. TypeOK'
  BY <1>1, <1>2, <1>3 DEF IInv, TypeOK
<1>5. OwnCount'
  <2>1. Own' \subseteq Own
    BY <1>2 DEF Own, IsNeighborDiag
  <2>2. blind' = blind /\ blind \in Nat
    BY <1>1, BoundAssumption DEF IInv, TypeOK
  <2> QED
    BY <2>1, <2>2, FewerOwn
<1>6. ChildIsManaged'
  <2>1. \A p \in Pids : proc'[p] = "own" => p # pid /\ proc[p] = "own"
    OBVIOUS
  <2> QED
    BY <1>1, <2>1 DEF IInv, ChildIsManaged
<1> QED
  BY <1>3, <1>4, <1>5, <1>6 DEF IInv

\* The second half of the stop: the child that is still managed gets SIGKILL.
LEMMA EndStopInv ==
  ASSUME IInv, StopLooks \/ StopKills
  PROVE  IInv'
<1>1. stopping # NoStop /\ stopping.at # "ensure"
  BY DEF StopLooks, StopKills, NoStop
<1>2. pid = stopping.pid /\ pid \in Pids
  BY <1>1 DEF IInv, StopOK
<1>3. proc \in [Pids -> ProcKinds]
      /\ (reaper[pid] = "waiting" => proc[pid] \in {"own", "killed", "zombie"})
  BY <1>2 DEF IInv, TypeOK
<1>4. CASE StopLooks /\ IsNeighborDiag(stopping.pid)
  <2>1. /\ stopping' = [stopping EXCEPT !.at = "kill"]
        /\ UNCHANGED <<proc, reaper, managed, req, monitor, crashes, blind>>
    BY <1>4 DEF StopLooks
  <2>2. stopping \in Stops
    BY DEF IInv, TypeOK
  <2>3. stopping'.pid = stopping.pid /\ stopping' \in Stops
    BY <2>1, <2>2 DEF Stops
  <2>4. StopOK'
    BY <1>2, <2>1, <2>3 DEF StopOK, managed
  <2>5. /\ pid' \in Pids \cup {NoPid} /\ pidFile' \in Pids \cup {NoPid}
        /\ req' \in [Requests -> {"idle", "collect"}]
        /\ access' \in BOOLEAN /\ monitor' \in BOOLEAN
        /\ \A p \in Pids : proc[p] = "own" /\ reaper[p] = "waiting" => pid' = p
    BY <2>1 DEF managed, IInv, TypeOK, ChildIsManaged
  <2> QED
    BY <2>1, <2>3, <2>4, <2>5, BlindType, Repoint
<1>5. CASE StopLooks /\ ~IsNeighborDiag(stopping.pid)
  <2>1. FinishStop /\ UNCHANGED proc
    BY <1>5 DEF StopLooks
  <2>2. proc[pid] \notin {"own", "killed"}
    BY <1>2, <1>5, NoPidAssumption DEF IsNeighborDiag
  <2> QED
    BY <1>1, <1>3, <2>1, <2>2, FinishStopInv
<1>6. CASE StopKills
  <2>1. FinishStop /\ Kill(pid)
    BY <1>2, <1>6 DEF StopKills
  <2>2. /\ proc' \in [Pids -> ProcKinds]
        /\ \A p \in Pids : p # pid => proc'[p] = proc[p]
        /\ proc[pid] \in {"own", "killed"} => proc'[pid] = "killed"
        /\ proc[pid] \in {"foreign", "other"} => proc'[pid] = "none"
        /\ proc[pid] \in {"none", "zombie"} => proc'[pid] = proc[pid]
    BY <1>2, <1>3, <2>1 DEF Kill, ProcKinds
  <2>3. proc[pid] \in ProcKinds
    BY <1>2, <1>3
  <2> QED
    BY <1>1, <1>3, <2>1, <2>2, <2>3, FinishStopInv DEF ProcKinds
<1> QED
  BY <1>4, <1>5, <1>6

\* Processes end, are waited for, and take over process ids: no new collector.
LEMMA ProcessInv ==
  ASSUME IInv, NEW p \in Pids,
         UNCHANGED <<managed, stopping, req, monitor, crashes, blind>>,
         proc' \in [Pids -> ProcKinds],
         reaper' \in [Pids -> {"none", "waiting", "reaped"}],
         \A q \in Pids : q # p => proc'[q] = proc[q] /\ reaper'[q] = reaper[q],
         proc'[p] \notin {"own", "killed"},
         reaper'[p] = "waiting" => proc'[p] = "zombie"
  PROVE  IInv'
<1>1. TypeOK'
  BY DEF IInv, TypeOK, managed
<1>2. OwnCount'
  <2>1. Own' \subseteq Own
    BY DEF Own, IsNeighborDiag
  <2>2. blind' = blind /\ blind \in Nat
    BY BoundAssumption DEF IInv, TypeOK
  <2> QED
    BY <2>1, <2>2, FewerOwn
<1>3. ChildIsManaged' /\ StopOK'
  BY DEF IInv, ChildIsManaged, StopOK, managed
<1> QED
  BY <1>1, <1>2, <1>3 DEF IInv

LEMMA ReapInv ==
  ASSUME IInv, NEW p \in Pids, Reap(p) \/ Dies(p) \/ Others(p)
  PROVE  IInv'
<1>0. /\ proc \in [Pids -> ProcKinds]
      /\ reaper \in [Pids -> {"none", "waiting", "reaped"}]
      /\ UNCHANGED <<managed, stopping, req, monitor, crashes, blind>>
  BY DEF IInv, TypeOK, Reap, Dies, Others
<1>1. CASE Reap(p)
  BY <1>0, <1>1, ProcessInv DEF Reap, ProcKinds
<1>2. CASE Dies(p)
  BY <1>0, <1>2, ProcessInv DEF Dies, ProcKinds
<1>3. CASE Others(p)
  BY <1>0, <1>3, ProcessInv DEF Others, ProcKinds
<1> QED
  BY <1>1, <1>2, <1>3

\* The goroutine that waited reports the end of its own child only.
LEMMA ReapLockedInv ==
  ASSUME IInv, NEW p \in Pids, ReapLocked(p)
  PROVE  IInv'
<1>1. /\ reaper[p] = "reaped" /\ reaper' = [reaper EXCEPT ![p] = "none"]
      /\ stopping = NoStop /\ stopping' = NoStop
      /\ IF pid = p THEN pid' = NoPid /\ pidFile' = NoPid ELSE UNCHANGED <<pid, pidFile>>
      /\ UNCHANGED <<proc, access, req, monitor, crashes, blind>>
  BY DEF ReapLocked, Unlocked
<1>2. /\ reaper' \in [Pids -> {"none", "waiting", "reaped"}]
      /\ \A q \in Pids : q # p => reaper'[q] = reaper[q]
      /\ reaper'[p] = "none"
  BY <1>1 DEF IInv, TypeOK
<1>3. TypeOK'
  BY <1>1, <1>2 DEF IInv, TypeOK
<1>4. OwnCount'
  <2>1. Own' = Own /\ blind' = blind /\ blind \in Nat
    BY <1>1, BoundAssumption DEF Own, IsNeighborDiag, IInv, TypeOK
  <2> QED
    BY <2>1, FewerOwn
<1>5. ChildIsManaged'
  BY <1>1, <1>2 DEF IInv, ChildIsManaged
<1> QED
  BY <1>1, <1>3, <1>4, <1>5, NotStopping DEF IInv

\* The children live on without a goroutine that waits for them.
LEMMA CrashInv ==
  ASSUME IInv, Crash
  PROVE  IInv'
<1>1. /\ crashes < MaxCrashes /\ crashes' = crashes + 1
      /\ proc' = [p \in Pids |-> IF proc[p] = "zombie" THEN "none" ELSE proc[p]]
      /\ reaper' = [p \in Pids |-> "none"]
      /\ pid' = NoPid /\ access' = FALSE /\ stopping' = NoStop
      /\ req' = [r \in Requests |-> "idle"] /\ monitor' = FALSE
      /\ UNCHANGED <<pidFile, blind>>
  BY DEF Crash
<1>2. crashes' \in 0..MaxCrashes
  BY <1>1, BoundAssumption DEF IInv, TypeOK
<1>3. proc' \in [Pids -> ProcKinds]
  BY <1>1 DEF IInv, TypeOK, ProcKinds
<1>4. /\ \A p \in Pids : proc'[p] \in {"own", "killed"} => proc[p] \in {"own", "killed"}
      /\ \A p \in Pids : reaper'[p] = "none"
      /\ reaper' \in [Pids -> {"none", "waiting", "reaped"}]
      /\ req' \in [Requests -> {"idle", "collect"}]
  BY <1>1
<1>5. TypeOK'
  BY <1>1, <1>2, <1>3, <1>4, NotStopping DEF IInv, TypeOK
<1>6. OwnCount'
  <2>1. Own' \subseteq Own
    BY <1>4 DEF Own, IsNeighborDiag
  <2>2. blind' = blind /\ blind \in Nat
    BY <1>1, BoundAssumption DEF IInv, TypeOK
  <2> QED
    BY <2>1, <2>2, FewerOwn
<1>7. ChildIsManaged'
  BY <1>1, <1>4 DEF IInv, ChildIsManaged
<1> QED
  BY <1>1, <1>5, <1>6, <1>7, NotStopping DEF IInv

LEMMA InitIInv == Init => IInv
<1> SUFFICES ASSUME Init
             PROVE  IInv
  OBVIOUS
<1>1. TypeOK
  <2>1. crashes \in 0..MaxCrashes /\ blind \in 0..MaxBlind
    BY BoundAssumption DEF Init
  <2>2. stopping \in Stops
    BY DEF Init, NoStop, Stops
  <2> QED
    BY <2>1, <2>2 DEF Init, TypeOK, ProcKinds
<1>2. StopOK /\ ChildIsManaged
  BY DEF Init, StopOK, ChildIsManaged
<1>3. OwnCount
  <2>1. Own = {} /\ blind = 0
    BY DEF Init, Own, IsNeighborDiag
  <2> QED
    BY <2>1, FS_EmptySet DEF OwnCount, OneCollector
<1> QED
  BY <1>1, <1>2, <1>3 DEF IInv

LEMMA NextIInv ==
  ASSUME IInv, [Next]_vars
  PROVE  IInv'
<1>1. ASSUME NEW r \in Requests, RequestEnsure(r) \/ RequestDone(r)
      PROVE  IInv'
  BY <1>1, RequestEnsureInv, RequestDoneInv
<1>2. CASE StopLooks \/ StopKills
  BY <1>2, EndStopInv
<1>3. CASE StopHandler \/ MonitorIdle \/ MonitorStale
  BY <1>3, StopsInv
<1>4. CASE Refresh
  BY <1>4, RefreshInv
<1>5. CASE MonitorEnsure \/ MonitorRestart
  BY <1>5, MonitorEnsureInv
<1>6. ASSUME NEW p \in Pids, Reap(p) \/ ReapLocked(p) \/ Dies(p) \/ Others(p)
      PROVE  IInv'
  BY <1>6, ReapInv, ReapLockedInv
<1>7. CASE Crash
  BY <1>7, CrashInv
<1>8. CASE UNCHANGED vars
  <2>1. Own' = Own /\ blind' = blind /\ blind \in Nat
    BY <1>8, BoundAssumption DEF vars, Own, IsNeighborDiag, IInv, TypeOK
  <2>2. OwnCount'
    BY <2>1, FewerOwn
  <2> QED
    BY <1>8, <2>2 DEF vars, managed, IInv, TypeOK, StopOK, ChildIsManaged
<1> QED
  BY <1>1, <1>2, <1>3, <1>4, <1>5, <1>6, <1>7, <1>8 DEF Next

LEMMA Inductive == Spec => []IInv
  BY InitIInv, NextIInv, PTL DEF Spec
-----------------------------------------------------------------------------

\* Every variable has its type, and a goroutine waits for a child that is there.
THEOREM TypeCorrect == Spec => []TypeOK
<1>1. IInv => TypeOK
  BY DEF IInv
<1> QED
  BY <1>1, Inductive, PTL

\* Two diag_mdlog write into the ring directory only where pidof has failed, one more for
\* each failure: otherwise a new one is started only when discoverDiagProcesses finds
\* none, under the lock.
THEOREM OneCollectorAlways == Spec => []OneCollector
<1>1. IInv => OneCollector
  BY DEF IInv, OwnCount
<1> QED
  BY <1>1, Inductive, PTL

\* A child that nobody has stopped is the managed one: the mutex is held while
\* stopManagedDiagLocked sleeps, and reapManagedDiag compares the pid.
THEOREM ChildIsManagedAlways == Spec => []ChildIsManaged
<1>1. IInv => ChildIsManaged
  BY DEF IInv
<1> QED
  BY <1>1, Inductive, PTL
=============================================================================
