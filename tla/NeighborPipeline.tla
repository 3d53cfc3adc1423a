-------------------------- MODULE NeighborPipeline --------------------------
(***************************************************************************)
(* The diag_mdlog process behind the neighbour cell requests                *)
(* (gossh/app/service/neighbor_cell.go).  A request starts or adopts a      *)
(* diag_mdlog that writes into the program's own ring directory and stops   *)
(* it when it is done; a monitor restarts it, and stops it when idle; a     *)
(* goroutine per child waits for its end.                                   *)
(*                                                                          *)
(* neighborManager's mutex makes every locked section one step, but for     *)
(* stopManagedDiagLocked, which sleeps for up to a second with the mutex    *)
(* held while processes live, die and take over process ids around it.      *)
(* Processes other than the server are external.                            *)
(***************************************************************************)
EXTENDS Naturals, FiniteSets

CONSTANTS
    Pids,        \* process ids
    NoPid,       \* 0
    Requests,    \* concurrently running NeighborCellHandlers
    MaxCrashes,  \* bound: ends of the server process
    MaxBlind     \* bound: failures of pidof while a diag_mdlog runs

ASSUME NoPidAssumption == NoPid \notin Pids
ASSUME BoundAssumption == MaxCrashes \in Nat /\ MaxBlind \in Nat

VARIABLES
    proc,      \* what runs under each process id
    reaper,    \* the reapManagedDiag goroutine of each child
    pid,       \* neighborManager.pid
    access,    \* whether neighborManager.lastAccess is set
    pidFile,   \* diag.pid
    stopping,  \* the stopManagedDiagLocked that holds the mutex
    req,       \* the NeighborCellHandlers
    monitor,   \* whether monitorNeighborPipeline has been started
    crashes,   \* ends of the server process so far
    blind      \* history: how often pidof has hidden a running diag_mdlog

managed == <<pid, access, pidFile>>
vars == <<proc, reaper, managed, stopping, req, monitor, crashes, blind>>

\* "own" is a diag_mdlog on the ring directory, "killed" one that SIGKILL is about
\* to end, "zombie" a child that has ended, "foreign" another diag_mdlog.
ProcKinds == {"none", "own", "killed", "zombie", "foreign", "other"}

NoStop == [pid |-> NoPid, at |-> "none", after |-> "none"]
Stops == [pid : Pids \cup {NoPid}, at : {"none", "wait", "kill", "ensure"},
          after : {"none", "idle", "restart"}]
Unlocked == stopping = NoStop

IsNeighborDiag(p) == p # NoPid /\ proc[p] \in {"own", "killed"}
Own == {p \in Pids : IsNeighborDiag(p)}
Foreign == {p \in Pids : proc[p] = "foreign"}

Init ==
    /\ proc = [p \in Pids |-> "none"]
    /\ reaper = [p \in Pids |-> "none"]
    /\ pid = NoPid
    /\ access = FALSE
    /\ pidFile = NoPid
    /\ stopping = NoStop
    /\ req = [r \in Requests |-> "idle"]
    /\ monitor = FALSE
    /\ crashes = 0
    /\ blind = 0

-----------------------------------------------------------------------------
(***************************************************************************)
(* Sections that run with the mutex held.                                   *)
(***************************************************************************)

\* refreshManagedPIDLocked: the pid and the content of diag.pid after it.
Refreshed ==
    IF IsNeighborDiag(pid) THEN [pid |-> pid, file |-> pidFile]
    ELSE IF IsNeighborDiag(pidFile) THEN [pid |-> pidFile, file |-> pidFile]
    ELSE [pid |-> NoPid, file |-> NoPid]

\* Writing diag.pid may fail, which is ignored: the old content stays.
WritePid(p) == pidFile' \in {p, Refreshed.file}

\* ensureManagedDiagLocked finds the process it manages already, or another one
\* on its ring directory, left by an earlier server.
EnsureFinds ==
    /\ IF Refreshed.pid # NoPid
       THEN pid' = Refreshed.pid /\ pidFile' = Refreshed.file
       ELSE \E p \in Own : pid' = p /\ WritePid(p)
    /\ UNCHANGED <<proc, reaper, blind>>

\* discoverDiagProcesses answers that nobody is there also when pidof fails.
PidofFails ==
    /\ blind < MaxBlind
    /\ Own \cup Foreign # {}
    /\ blind' = blind + 1

StartDiag ==
    \E p \in Pids :
        /\ proc[p] = "none"
        /\ reaper[p] = "none"
        /\ proc' = [proc EXCEPT ![p] = "own"]
        /\ reaper' = [reaper EXCEPT ![p] = "waiting"]
        /\ pid' = p
        /\ WritePid(p)

\* Mutation: discoverDiagProcesses is not asked.
EnsureStartsBug ==
    /\ Refreshed.pid = NoPid
    /\ UNCHANGED blind
    /\ StartDiag

\* It starts one.  The kernel hands process ids out in turn, so that one is not used
\* again before the goroutine that waited for its process has run.
EnsureStarts ==
    /\ Refreshed.pid = NoPid
    /\ \/ Own = {} /\ Foreign = {} /\ UNCHANGED blind
       \/ PidofFails
    /\ StartDiag

\* It is blocked by a foreign diag_mdlog, or the log or the command cannot be opened.
EnsureFails ==
    /\ Refreshed.pid = NoPid
    /\ \/ Own = {} /\ UNCHANGED blind
       \/ PidofFails
    /\ pid' = NoPid
    /\ pidFile' = NoPid
    /\ UNCHANGED <<proc, reaper>>

Ensure == EnsureFinds \/ EnsureStarts \/ EnsureFails

\* The first half of stopManagedDiagLocked: SIGTERM, which whoever runs under the
\* process id when it arrives may obey at any time (Dies, Others).  Nothing to stop:
\* the function returns.
BeginStop(after) ==
    /\ pid' = Refreshed.pid
    /\ pidFile' = Refreshed.file
    /\ stopping' = IF Refreshed.pid = NoPid THEN NoStop
                   ELSE [pid |-> Refreshed.pid, at |-> "wait", after |-> after]
    /\ UNCHANGED <<proc, reaper, blind>>

\* The end of stopManagedDiagLocked.
FinishStop ==
    /\ pid' = NoPid
    /\ pidFile' = NoPid
    /\ stopping' = IF stopping.after = "restart" THEN [stopping EXCEPT !.at = "ensure"]
                   ELSE NoStop
    /\ UNCHANGED <<reaper, access, req, monitor, crashes, blind>>

\* After the second: is the process still there and still the same?
StopLooks ==
    /\ stopping.at = "wait"
    /\ UNCHANGED proc
    /\ \/ /\ IsNeighborDiag(stopping.pid)
          /\ stopping' = [stopping EXCEPT !.at = "kill"]
          /\ UNCHANGED <<reaper, managed, req, monitor, crashes, blind>>
       \/ ~IsNeighborDiag(stopping.pid) /\ FinishStop

\* SIGKILL, to whoever runs under the process id by now.
Kill(p) ==
    proc' = [proc EXCEPT ![p] = CASE @ \in {"own", "killed"} -> "killed"
                                  [] @ \in {"foreign", "other"} -> "none"
                                  [] OTHER -> @]

StopKills ==
    /\ stopping.at = "kill"
    /\ Kill(stopping.pid)
    /\ FinishStop

-----------------------------------------------------------------------------
(***************************************************************************)
(* Handlers.                                                                *)
(***************************************************************************)

\* ensureNeighborPipeline.  On an error the handler answers with ubus data, and the
\* deferred stop is never registered.
RequestEnsure(r) ==
    /\ Unlocked
    /\ req[r] = "idle"
    /\ access' = TRUE
    /\ monitor' = TRUE
    /\ \/ (EnsureFinds \/ EnsureStarts) /\ req' = [req EXCEPT ![r] = "collect"]
       \/ EnsureFails /\ UNCHANGED req
    /\ UNCHANGED <<stopping, crashes>>

\* waitForFirstQMDL and the parser are done; the deferred stopNeighborCollection.
RequestDone(r) ==
    /\ Unlocked
    /\ req[r] = "collect"
    /\ req' = [req EXCEPT ![r] = "idle"]
    /\ access' = FALSE
    /\ BeginStop("idle")
    /\ UNCHANGED <<monitor, crashes>>

\* NeighborServiceStopHandler
StopHandler ==
    /\ Unlocked
    /\ access' = FALSE
    /\ BeginStop("idle")
    /\ UNCHANGED <<req, monitor, crashes>>

\* NeighborServiceStatusHandler, and a tick of the monitor without lastAccess.
Refresh ==
    /\ Unlocked
    /\ pid' = Refreshed.pid
    /\ pidFile' = Refreshed.file
    /\ UNCHANGED <<proc, reaper, access, stopping, req, monitor, crashes, blind>>

-----------------------------------------------------------------------------
(***************************************************************************)
(* monitorNeighborPipeline and reapManagedDiag.                             *)
(***************************************************************************)

\* Mutation: the idle timeout clears lastAccess and stops nothing.
MonitorIdleBug ==
    /\ Unlocked
    /\ monitor
    /\ access
    /\ \A r \in Requests : req[r] = "idle"
    /\ access' = FALSE
    /\ UNCHANGED <<proc, reaper, pid, pidFile, stopping, req, monitor, crashes, blind>>

\* neighborIdleTimeout, half an hour: much longer than any request takes.
MonitorIdle ==
    /\ Unlocked
    /\ monitor
    /\ access
    /\ \A r \in Requests : req[r] = "idle"
    /\ access' = FALSE
    /\ BeginStop("idle")
    /\ UNCHANGED <<req, monitor, crashes>>

\* Nothing runs: start it again, as long as lastAccess is set.
MonitorEnsure ==
    /\ Unlocked
    /\ monitor
    /\ access
    /\ Refreshed.pid = NoPid
    /\ Ensure
    /\ UNCHANGED <<access, stopping, req, monitor, crashes>>

\* neighborStaleTimeout: no new QMDL data; stop, then ensure under the same lock.
MonitorStale ==
    /\ Unlocked
    /\ monitor
    /\ access
    /\ Refreshed.pid # NoPid
    /\ BeginStop("restart")
    /\ UNCHANGED <<access, req, monitor, crashes>>

MonitorRestart ==
    /\ stopping.at = "ensure"
    /\ Ensure
    /\ stopping' = NoStop
    /\ UNCHANGED <<access, req, monitor, crashes>>

\* Mutation: the goroutine waits for the same child again.
ReapBug(p) ==
    /\ reaper[p] = "waiting"
    /\ proc[p] = "zombie"
    /\ proc' = [proc EXCEPT ![p] = "none"]
    /\ UNCHANGED <<reaper, managed, stopping, req, monitor, crashes, blind>>

\* cmd.Wait returns: the process id is free.
Reap(p) ==
    /\ reaper[p] = "waiting"
    /\ proc[p] = "zombie"
    /\ proc' = [proc EXCEPT ![p] = "none"]
    /\ reaper' = [reaper EXCEPT ![p] = "reaped"]
    /\ UNCHANGED <<managed, stopping, req, monitor, crashes, blind>>

\* Mutation: the goroutine does not ask whose turn it is.
ReapLockedBug(p) ==
    /\ Unlocked
    /\ reaper[p] = "reaped"
    /\ reaper' = [reaper EXCEPT ![p] = "none"]
    /\ pid' = NoPid
    /\ pidFile' = NoPid
    /\ UNCHANGED <<proc, access, stopping, req, monitor, crashes, blind>>

ReapLocked(p) ==
    /\ Unlocked
    /\ reaper[p] = "reaped"
    /\ reaper' = [reaper EXCEPT ![p] = "none"]
    /\ IF pid = p THEN pid' = NoPid /\ pidFile' = NoPid ELSE UNCHANGED <<pid, pidFile>>
    /\ UNCHANGED <<proc, access, stopping, req, monitor, crashes, blind>>

-----------------------------------------------------------------------------
(***************************************************************************)
(* The system around it.                                                    *)
(***************************************************************************)

\* A diag_mdlog ends: of SIGTERM, of SIGKILL, or by itself.
Dies(p) ==
    /\ proc[p] \in {"own", "killed"}
    /\ proc' = [proc EXCEPT ![p] = IF reaper[p] = "waiting" THEN "zombie" ELSE "none"]
    /\ UNCHANGED <<reaper, managed, stopping, req, monitor, crashes, blind>>

\* Another program starts, under any free process id, or ends.
Others(p) ==
    /\ reaper[p] = "none"
    /\ \/ /\ proc[p] = "none"
          /\ \E kind \in {"foreign", "other"} : proc' = [proc EXCEPT ![p] = kind]
       \/ /\ proc[p] \in {"foreign", "other"}
          /\ proc' = [proc EXCEPT ![p] = "none"]
    /\ UNCHANGED <<reaper, managed, stopping, req, monitor, crashes, blind>>

\* The server ends and starts again; its children live on.
Crash ==
    /\ crashes < MaxCrashes
    /\ crashes' = crashes + 1
    /\ proc' = [p \in Pids |-> IF proc[p] = "zombie" THEN "none" ELSE proc[p]]
    /\ reaper' = [p \in Pids |-> "none"]
    /\ pid' = NoPid
    /\ access' = FALSE
    /\ stopping' = NoStop
    /\ req' = [r \in Requests |-> "idle"]
    /\ monitor' = FALSE
    /\ UNCHANGED <<pidFile, blind>>

Next ==
    \/ \E r \in Requests : RequestEnsure(r) \/ RequestDone(r)
    \/ StopLooks \/ StopKills \/ StopHandler \/ Refresh
    \/ MonitorIdle \/ MonitorEnsure \/ MonitorStale \/ MonitorRestart
    \/ \E p \in Pids : Reap(p) \/ ReapLocked(p) \/ Dies(p) \/ Others(p)
    \/ Crash

\* A request ends (its waits have timeouts), whoever holds the mutex gives it back,
\* the monitor's ticker fires, and SIGKILL works.
Fairness ==
    /\ \A r \in Requests : SF_vars(RequestDone(r))
    /\ WF_vars(StopLooks \/ StopKills)
    /\ WF_vars(MonitorRestart)
    /\ WF_vars(MonitorIdle)
    /\ \A p \in Pids : WF_vars(proc[p] = "killed" /\ Dies(p))

Spec == Init /\ [][Next]_vars

FairSpec == Spec /\ Fairness
-----------------------------------------------------------------------------
(***************************************************************************)
(* Properties                                                               *)
(***************************************************************************)

\* Every variable has its type, and a process id with a waiting goroutine is a child's.
TypeOK ==
    /\ proc \in [Pids -> ProcKinds]
    /\ reaper \in [Pids -> {"none", "waiting", "reaped"}]
    /\ pid \in Pids \cup {NoPid}
    /\ access \in BOOLEAN
    /\ pidFile \in Pids \cup {NoPid}
    /\ stopping \in Stops
    /\ req \in [Requests -> {"idle", "collect"}]
    /\ monitor \in BOOLEAN
    /\ crashes \in 0..MaxCrashes
    /\ blind \in 0..MaxBlind
    /\ \A p \in Pids : reaper[p] = "waiting" => proc[p] \in {"own", "killed", "zombie"}

\* Two diag_mdlog write into the ring directory at once only where pidof has failed, one
\* more for each failure: otherwise no server process, monitor or request starts one
\* beside another, although the last server's may live on and diag.pid may be lost.
OneCollector == Cardinality(Own) <= 1 + blind

\* A child that nobody has stopped is the managed one: a goroutine that reports the end
\* of an old child late does not make the manager forget the new one.
ChildIsManaged ==
    \A p \in Pids : proc[p] = "own" /\ reaper[p] = "waiting" => pid = p

\* A collector does not run for ever in a server that has served a request: the last
\* request, a stop or the idle timeout ends it.  Where pidof failed there may be a
\* second one that nobody knows of.
CollectionEnds == (monitor /\ Own # {}) ~> (Own = {} \/ ~monitor \/ blind > 0)
=============================================================================
