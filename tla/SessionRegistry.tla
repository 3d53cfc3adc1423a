--------------------------- MODULE SessionRegistry ---------------------------
(***************************************************************************)
(* The registry of online SSH sessions: OnlineClients, a concurrent map     *)
(* from session id to *SshConn (gossh/app/service/service_init.go), the     *)
(* HTTP and websocket handlers that fill, use and empty it (ssh_conn.go,    *)
(* ssh_status.go) and the goroutine that removes inactive sessions.         *)
(*                                                                          *)
(* A process is a request handler or the cleaner.  Every read or write of   *)
(* shared state that another process can interleave with is a step of its   *)
(* own; DeleteOnlineClient in particular is six steps, because its deferred *)
(* calls run one by one and the map entry goes last, by key.                *)
(***************************************************************************)
EXTENDS Naturals, FiniteSets

CONSTANTS
    SessionIds,   \* session ids in use
    SuppliedIds,  \* the ids clients may put in ?session_id= of create_session
    Conns,        \* *SshConn objects, a bound on the sessions ever created
    Handlers,     \* concurrently running request goroutines
    Cleaner,      \* the goroutine of initApp
    SftpResults,  \* what sftp.NewClient may give: "open", "nil" on an error
    NoConn,       \* absent map entry / nil pointer
    NoId,         \* no session id
    NoWs          \* nil or no longer existing websocket

ASSUME SuppliedAssumption == SuppliedIds \subseteq SessionIds
ASSUME SftpAssumption == SftpResults \subseteq {"nil", "open"}
ASSUME NullAssumption ==
    /\ NoConn \notin Conns
    /\ NoId \notin SessionIds
    /\ NoWs \notin Handlers
    /\ Cleaner \notin Handlers

VARIABLES
    online,  \* OnlineClients
    conn,    \* the SshConn objects
    proc,    \* the goroutines
    wsOpen,  \* the handlers whose websocket is open
    todo     \* the ids the cleaner's current Range has still to visit

vars == <<online, conn, proc, wsOpen, todo>>

Procs == Handlers \cup {Cleaner}

(***************************************************************************)
(* An SshConn.  "stage" is how far CreateSessionId got with it, "stale"     *)
(* that LastActiveTime is more than a minute old, "alive" that the remote   *)
(* end still serves the session channel, "hung" that the host answers       *)
(* nothing although the connection stands, "started" sshSession.started,    *)
(* "twice" that a second shell was started, "taken" that the one value of   *)
(* sshSession.exitStatus has been received.                                 *)
(***************************************************************************)
Resource == {"nil", "open", "closed"}

ConnType ==
    [id      : SessionIds \cup {NoId},
     stage   : {"new", "dialing", "ready", "stored", "failed"},
     client  : Resource,
     sftp    : Resource,
     session : Resource,
     ws      : Handlers \cup {NoWs},
     alive   : BOOLEAN,
     hung    : BOOLEAN,
     started : BOOLEAN,
     twice   : BOOLEAN,
     taken   : BOOLEAN,
     stale   : BOOLEAN]

NewConn ==
    [id |-> NoId, stage |-> "new", client |-> "nil", sftp |-> "nil",
     session |-> "nil", ws |-> NoWs, alive |-> FALSE, hung |-> FALSE,
     started |-> FALSE, twice |-> FALSE, taken |-> FALSE, stale |-> FALSE]

ClosePcs == {"closeWs", "closeSession", "closeSftp", "closeClient", "remove"}

UsePcs ==
    {"connect", "store", "attach", "shell", "ask", "start", "wait", "resize"} \cup ClosePcs

(***************************************************************************)
(* A process: where it is, the session id it works on, the SshConn pointer  *)
(* it holds, and how many more DeleteOnlineClient calls follow the current  *)
(* one before it returns.                                                   *)
(***************************************************************************)
ProcType ==
    [pc   : {"idle", "load"} \cup UsePcs,
     key  : SessionIds \cup {NoId},
     held : Conns \cup {NoConn},
     left : 0..2]

IdleProc == [pc |-> "idle", key |-> NoId, held |-> NoConn, left |-> 0]

At(p, pc) == proc[p].pc = pc

Held(p) == conn[proc[p].held]

Goto(p, pc) == proc' = [proc EXCEPT ![p].pc = pc]

\* Process p calls DeleteOnlineClient on its id, and n more times after that.
CallDelete(p, n) ==
    proc' = [proc EXCEPT ![p] = [pc |-> "load", key |-> proc[p].key,
                                 held |-> NoConn, left |-> n]]

Registered(c) == \E id \in SessionIds : online[id] = c

Init ==
    /\ online = [id \in SessionIds |-> NoConn]
    /\ conn = [c \in Conns |-> NewConn]
    /\ proc = [p \in Procs |-> IdleProc]
    /\ wsOpen = {}
    /\ todo = {}

-----------------------------------------------------------------------------
(***************************************************************************)
(* CreateSessionId: the id is the client's or a random one no session has   *)
(* had; then connect; then OnlineClients.Store.  LastActiveTime is set      *)
(* before the dial.                                                         *)
(***************************************************************************)
MayUseId(id) == id \in SuppliedIds \/ \A c \in Conns : conn[c].id # id

CreateSessionId(p, id, c) ==
    /\ At(p, "idle")
    /\ conn[c].stage = "new"
    /\ MayUseId(id)
    /\ conn' = [conn EXCEPT ![c] = [@ EXCEPT !.id = id, !.stage = "dialing"]]
    /\ proc' = [proc EXCEPT ![p] = [pc |-> "connect", key |-> id, held |-> c,
                                    left |-> 0]]
    /\ UNCHANGED <<online, wsOpen, todo>>

\* ssh.Dial (or the key) fails: the object is dropped with nothing open.
ConnectFails(p) ==
    /\ At(p, "connect")
    /\ conn' = [conn EXCEPT ![proc[p].held] = NewConn]
    /\ proc' = [proc EXCEPT ![p] = IdleProc]
    /\ UNCHANGED <<online, wsOpen, todo>>

\* Dial succeeds, sftp.NewClient may fail, NewSession fails: connect returns
\* the error and nobody closes the client it dialled.
NewSessionFails(p) ==
    /\ At(p, "connect")
    /\ \E sftp \in SftpResults :
          conn' = [conn EXCEPT ![proc[p].held] =
                      [@ EXCEPT !.stage = "failed", !.client = "open", !.sftp = sftp]]
    /\ proc' = [proc EXCEPT ![p] = IdleProc]
    /\ UNCHANGED <<online, wsOpen, todo>>

\* connect returns nil; an sftp client that could not be made stays nil.
Connected(p) ==
    /\ At(p, "connect")
    /\ \E sftp \in SftpResults :
          conn' = [conn EXCEPT ![proc[p].held] =
                      [@ EXCEPT !.stage = "ready", !.client = "open", !.sftp = sftp,
                                !.session = "open", !.alive = TRUE]]
    /\ Goto(p, "store")
    /\ UNCHANGED <<online, wsOpen, todo>>

\* OnlineClients.Store, over whatever the key held before.
StoreOver(p) == online' = [online EXCEPT ![proc[p].key] = proc[p].held]

Store(p) ==
    /\ At(p, "store")
    /\ StoreOver(p)
    /\ conn' = [conn EXCEPT ![proc[p].held].stage = "stored"]
    /\ proc' = [proc EXCEPT ![p] = IdleProc]
    /\ UNCHANGED <<wsOpen, todo>>

-----------------------------------------------------------------------------
(***************************************************************************)
(* DeleteOnlineClient(key), called from every handler.  A process at "load" *)
(* is about to call it; Return is what the caller does afterwards: the next *)
(* DeleteOnlineClient of its error path, or its end, where a terminal       *)
(* handler's first defer closes its websocket.  Closing a nil ws or sftp    *)
(* client panics inside its deferred call; the remaining deferred calls     *)
(* still run and the panic is recovered, so the step just goes on.          *)
(***************************************************************************)
\* Mutation: the first defer of NewSshConn, ws.Close(), is missing.
FinishBug(p) ==
    /\ proc' = [proc EXCEPT ![p] = IdleProc]
    /\ UNCHANGED <<wsOpen, conn>>

Finish(p) ==
    /\ proc' = [proc EXCEPT ![p] = IdleProc]
    /\ wsOpen' = wsOpen \ {p}
    /\ conn' = [c \in Conns |->
                   IF conn[c].ws = p THEN [conn[c] EXCEPT !.ws = NoWs] ELSE conn[c]]

Return(p) ==
    IF proc[p].left > 0
    THEN /\ CallDelete(p, proc[p].left - 1)
         /\ UNCHANGED <<conn, wsOpen>>
    ELSE Finish(p)

\* Mutation: the result of Load is used without a check.
DelLoadBug(p) ==
    /\ At(p, "load")
    /\ proc' = [proc EXCEPT ![p].pc = "closeWs", ![p].held = online[proc[p].key]]
    /\ UNCHANGED <<online, conn, wsOpen, todo>>

DelLoad(p) ==
    /\ At(p, "load")
    /\ IF online[proc[p].key] = NoConn
       THEN Return(p)
       ELSE /\ proc' = [proc EXCEPT ![p].pc = "closeWs",
                                    ![p].held = online[proc[p].key]]
            /\ UNCHANGED <<conn, wsOpen>>
    /\ UNCHANGED <<online, todo>>

\* Mutation: the closes are plain statements, so that the panic on a nil
\* websocket skips the others.
DelCloseWsBug(p) ==
    /\ At(p, "closeWs")
    /\ wsOpen' = wsOpen \ {Held(p).ws}
    /\ Goto(p, IF Held(p).ws = NoWs THEN "remove" ELSE "closeSession")
    /\ UNCHANGED <<online, conn, todo>>

DelCloseWs(p) ==
    /\ At(p, "closeWs")
    /\ wsOpen' = wsOpen \ {Held(p).ws}
    /\ Goto(p, "closeSession")
    /\ UNCHANGED <<online, conn, todo>>

\* Mutation: io.EOF from sshSession.Close returns from the whole function.
DelCloseSessionBug(p) ==
    /\ At(p, "closeSession")
    /\ conn' = [conn EXCEPT ![proc[p].held].session = "closed"]
    /\ Goto(p, IF Held(p).alive THEN "closeSftp" ELSE "remove")
    /\ UNCHANGED <<online, wsOpen, todo>>

DelCloseSession(p) ==
    /\ At(p, "closeSession")
    /\ conn' = [conn EXCEPT ![proc[p].held].session = "closed"]
    /\ Goto(p, "closeSftp")
    /\ UNCHANGED <<online, wsOpen, todo>>

\* sftpClient.Close waits for the end of its receiving goroutine, that is for the
\* host, or for another call that closes the client.
DelCloseSftp(p) ==
    /\ At(p, "closeSftp")
    /\ Held(p).sftp = "nil" \/ ~Held(p).hung
    /\ conn' = [conn EXCEPT ![proc[p].held].sftp =
                               IF @ = "nil" THEN "nil" ELSE "closed"]
    /\ Goto(p, "closeClient")
    /\ UNCHANGED <<online, wsOpen, todo>>

\* Mutation: the deferred OnlineClients.Delete is missing.
DelCloseClientBug(p) ==
    /\ At(p, "closeClient")
    /\ conn' = [conn EXCEPT ![proc[p].held] =
                               [@ EXCEPT !.client = "closed", !.alive = FALSE, !.hung = FALSE]]
    /\ proc' = [proc EXCEPT ![p] = IdleProc]
    /\ UNCHANGED <<online, wsOpen, todo>>

\* Whoever waits for the host waits no longer.
DelCloseClient(p) ==
    /\ At(p, "closeClient")
    /\ conn' = [conn EXCEPT ![proc[p].held] =
                               [@ EXCEPT !.client = "closed", !.alive = FALSE, !.hung = FALSE]]
    /\ Goto(p, "remove")
    /\ UNCHANGED <<online, wsOpen, todo>>

\* OnlineClients.Delete(sessionId): by key, whatever is there by now.
DelRemove(p) ==
    /\ At(p, "remove")
    /\ online' = [online EXCEPT ![proc[p].key] = NoConn]
    /\ Return(p)
    /\ UNCHANGED todo

-----------------------------------------------------------------------------
(***************************************************************************)
(* NewSshConn and RunTerminal: upgrade to a websocket, check the window,    *)
(* find the session, run a shell on it, and delete the session on every way *)
(* out.  A way out with an error of RunTerminal calls DeleteOnlineClient    *)
(* three times (RunTerminal's defer, the error branch, NewSshConn's defer), *)
(* the others twice.                                                        *)
(***************************************************************************)
Terminal(p, id, pc, c) ==
    /\ At(p, "idle")
    /\ wsOpen' = wsOpen \cup {p}
    /\ proc' = [proc EXCEPT ![p] = [pc |-> pc, key |-> id, held |-> c,
                                    left |-> 1]]
    /\ UNCHANGED <<online, conn, todo>>

\* Width or height out of range, whether or not the session exists.
NewSshConnBadWindow(p, id) == Terminal(p, id, "load", NoConn)

NewSshConn(p, id) ==
    IF online[id] = NoConn
    THEN Terminal(p, id, "load", NoConn)
    ELSE Terminal(p, id, "attach", online[id])

\* Mutation: the session with its new websocket is put into the map again.
AttachWsBug(p) ==
    /\ At(p, "attach")
    /\ conn' = [conn EXCEPT ![proc[p].held].ws = p]
    /\ online' = [online EXCEPT ![proc[p].key] = proc[p].held]
    /\ Goto(p, "shell")
    /\ UNCHANGED <<wsOpen, todo>>

\* s.ws = ws, over the websocket of another terminal on the same session.
AttachWs(p) ==
    /\ At(p, "attach")
    /\ conn' = [conn EXCEPT ![proc[p].held].ws = p]
    /\ Goto(p, "shell")
    /\ UNCHANGED <<online, wsOpen, todo>>

Usable(c) == conn[c].client = "open" /\ conn[c].session = "open" /\ conn[c].alive

\* RequestPty succeeds, and Shell finds the session not started.
ShellAsks(p) ==
    /\ At(p, "shell")
    /\ Usable(proc[p].held) /\ ~Held(p).hung
    /\ ~Held(p).started
    /\ Goto(p, "ask")
    /\ UNCHANGED <<online, conn, wsOpen, todo>>

\* The host grants the shell, a second one, too, if it likes.
ShellGranted(p) ==
    /\ At(p, "ask")
    /\ Usable(proc[p].held) /\ ~Held(p).hung
    /\ Goto(p, "start")
    /\ UNCHANGED <<online, conn, wsOpen, todo>>

\* Session.start, whatever has happened since the check.
ShellStarts(p) ==
    /\ At(p, "start")
    /\ conn' = [conn EXCEPT ![proc[p].held] =
                   [@ EXCEPT !.started = TRUE, !.twice = Held(p).twice \/ Held(p).started]]
    /\ Goto(p, "wait")
    /\ UNCHANGED <<online, wsOpen, todo>>

\* RequestPty or Shell returns an error (the remote end may always refuse).
ShellFails(p) ==
    /\ At(p, "shell") \/ At(p, "ask")
    /\ ~Held(p).hung
    /\ CallDelete(p, 2)
    /\ UNCHANGED <<online, conn, wsOpen, todo>>

\* The session channel has ended: the host closed it, at its own will or in answer
\* to the close, or the connection is gone.  Its one exit status can be received.
ExitStatus(c) ==
    /\ ~conn[c].alive \/ (conn[c].session = "closed" /\ ~conn[c].hung)
    /\ ~conn[c].taken

Take(c) == conn' = [conn EXCEPT ![c].taken = TRUE]

\* sshSession.Wait returns, with or without an error.
WaitReturns(p) ==
    /\ At(p, "wait")
    /\ ExitStatus(proc[p].held)
    /\ Take(proc[p].held)
    /\ \E n \in {1, 2} : CallDelete(p, n)
    /\ UNCHANGED <<online, wsOpen, todo>>

\* Two starts have made two channels for the errors of the copying goroutines; who
\* waits on the wrong one waits for ever.
WaitHangs(p) ==
    /\ At(p, "wait")
    /\ ExitStatus(proc[p].held)
    /\ Held(p).twice
    /\ Take(proc[p].held)
    /\ UNCHANGED <<online, proc, wsOpen, todo>>

\* The shell exits, or the connection to the host is lost.
RemoteEnds(c) ==
    /\ conn[c].alive
    /\ conn' = [conn EXCEPT ![c] = [@ EXCEPT !.alive = FALSE, !.hung = FALSE]]
    /\ UNCHANGED <<online, proc, wsOpen, todo>>

\* The host stops to answer, and answers again or is found to be lost.
HostHangs(c) ==
    /\ conn[c].client = "open" /\ conn[c].session # "nil"
    /\ conn' = [conn EXCEPT ![c].hung = ~conn[c].hung]
    /\ UNCHANGED <<online, proc, wsOpen, todo>>

-----------------------------------------------------------------------------
(***************************************************************************)
(* The other requests on a session.  A request whose Load finds nothing     *)
(* answers an error and changes nothing, so only the found case is a step.  *)
(***************************************************************************)
Disconnect(p, id) ==
    /\ At(p, "idle")
    /\ proc' = [proc EXCEPT ![p] = [pc |-> "load", key |-> id,
                                    held |-> NoConn, left |-> 0]]
    /\ UNCHANGED <<online, conn, wsOpen, todo>>

ResizeWindow(p, id) ==
    /\ At(p, "idle")
    /\ online[id] # NoConn
    /\ proc' = [proc EXCEPT ![p] = [pc |-> "resize", key |-> id,
                                    held |-> online[id], left |-> 0]]
    /\ UNCHANGED <<online, conn, wsOpen, todo>>

\* WindowChange: an error deletes the session, success ends the request.
WindowChange(p) ==
    /\ At(p, "resize")
    /\ IF Usable(proc[p].held)
       THEN proc' = [proc EXCEPT ![p] = IdleProc]
       ELSE CallDelete(p, 0)
    /\ UNCHANGED <<online, conn, wsOpen, todo>>

\* RefreshConnTime, the browser's heartbeat; one id of its list.
RefreshConnTime(id) ==
    /\ online[id] # NoConn
    /\ conn[online[id]].stale
    /\ conn' = [conn EXCEPT ![online[id]].stale = FALSE]
    /\ UNCHANGED <<online, proc, wsOpen, todo>>

\* A minute passes without a heartbeat.  Nobody reads the time of an object
\* that has left the map.
Expire(c) ==
    /\ conn[c].stage \in {"dialing", "ready"} \/ Registered(c)
    /\ ~conn[c].stale
    /\ conn' = [conn EXCEPT ![c].stale = TRUE]
    /\ UNCHANGED <<online, proc, wsOpen, todo>>

-----------------------------------------------------------------------------
(***************************************************************************)
(* initApp's loop: cleanNoActiveSession Ranges over the map.  A key present *)
(* when Range starts is visited; one stored later may or may not be.  The   *)
(* check uses the value Range read; DeleteOnlineClient loads the key again. *)
(***************************************************************************)
CleanRange ==
    /\ At(Cleaner, "idle")
    /\ todo = {}
    /\ \E later \in SUBSET SessionIds :
          todo' = later \cup {id \in SessionIds : online[id] # NoConn}
    /\ todo' # {}
    /\ UNCHANGED <<online, conn, proc, wsOpen>>

\* Mutation: sessions on which no terminal was opened are not considered.
InactiveBug(id) ==
    /\ online[id] # NoConn
    /\ conn[online[id]].stale
    /\ conn[online[id]].ws # NoWs

Inactive(id) == online[id] # NoConn /\ conn[online[id]].stale

CleanCheck(id) ==
    /\ At(Cleaner, "idle")
    /\ id \in todo
    /\ todo' = todo \ {id}
    /\ proc' = [proc EXCEPT ![Cleaner] =
                   IF Inactive(id)
                   THEN [pc |-> "load", key |-> id, held |-> NoConn, left |-> 0]
                   ELSE IdleProc]
    /\ UNCHANGED <<online, conn, wsOpen>>

-----------------------------------------------------------------------------
DeleteOnlineClient(p) ==
    \/ DelLoad(p)
    \/ DelCloseWs(p)
    \/ DelCloseSession(p)
    \/ DelCloseSftp(p)
    \/ DelCloseClient(p)
    \/ DelRemove(p)

\* connect comes to an end, which a host that accepts and says nothing prevents.
Connect(p) ==
    \/ ConnectFails(p)
    \/ NewSessionFails(p)
    \/ Connected(p)

\* What a running goroutine does next.
Step(p) ==
    \/ Store(p)
    \/ AttachWs(p)
    \/ ShellAsks(p)
    \/ ShellGranted(p)
    \/ ShellStarts(p)
    \/ ShellFails(p)
    \/ WaitReturns(p)
    \/ WaitHangs(p)
    \/ WindowChange(p)
    \/ DeleteOnlineClient(p)

CleanerStep ==
    \/ CleanRange
    \/ \E id \in SessionIds : CleanCheck(id)
    \/ DeleteOnlineClient(Cleaner)

\* A new request of a browser.
Request(p, id) ==
    \/ \E c \in Conns : CreateSessionId(p, id, c)
    \/ NewSshConnBadWindow(p, id)
    \/ NewSshConn(p, id)
    \/ Disconnect(p, id)
    \/ ResizeWindow(p, id)

Next ==
    \/ \E p \in Handlers : Connect(p) \/ Step(p)
    \/ \E p \in Handlers, id \in SessionIds : Request(p, id)
    \/ CleanerStep
    \/ \E id \in SessionIds : RefreshConnTime(id)
    \/ \E c \in Conns : RemoteEnds(c) \/ HostHangs(c) \/ Expire(c)

\* Goroutines that can go on do so; nothing is expected of hosts.
Fairness ==
    /\ \A p \in Handlers : WF_vars(Step(p))
    /\ WF_vars(CleanerStep)

Spec == Init /\ [][Next]_vars

FairSpec == Spec /\ Fairness
-----------------------------------------------------------------------------
(***************************************************************************)
(* Properties                                                               *)
(***************************************************************************)

\* Every variable has its type, and a handler that uses its SshConn pointer or
\* its session id has one: the nil checks after OnlineClients.Load suffice.
TypeOK ==
    /\ online \in [SessionIds -> Conns \cup {NoConn}]
    /\ conn \in [Conns -> ConnType]
    /\ proc \in [Procs -> ProcType]
    /\ wsOpen \subseteq Handlers
    /\ todo \subseteq SessionIds
    /\ \A p \in Procs :
          /\ proc[p].pc \in UsePcs => proc[p].held \in Conns
          /\ proc[p].pc \in UsePcs \cup {"load"} => proc[p].key \in SessionIds

\* DeleteOnlineClient closes first and unregisters last: an entry of
\* OnlineClients whose ssh client is already closed is always about to be
\* removed by the very call that closed it, so no dead session can stay listed,
\* whatever other creates, deletes and terminals do meanwhile.
ClosedIsBeingRemoved ==
    \A id \in SessionIds :
        (online[id] # NoConn /\ conn[online[id]].client = "closed")
            => \E p \in Procs : /\ At(p, "remove")
                                /\ proc[p].key = id
                                /\ proc[p].held = online[id]

Released(c) ==
    /\ conn[c].client = "closed"
    /\ conn[c].session = "closed"
    /\ conn[c].sftp # "open"

\* A session that was stored and is no longer in OnlineClients has been closed
\* completely (DeleteOnlineClient's three ssh closes), even when terminals,
\* Disconnect, ResizeWindow and the cleaner delete it concurrently.  Holds when
\* no session id is used twice.
RemovedIsReleased ==
    \A c \in Conns :
        (conn[c].stage = "stored" /\ ~Registered(c)) => Released(c)

(***************************************************************************)
(* The refinement mapping to SessionLifecycle.  A session is live while it  *)
(* is listed and neither its session channel nor its client is closed.      *)
(***************************************************************************)
Life(c) ==
    CASE conn[c].stage # "stored" -> "unborn"
      [] conn[c].stage = "stored" /\ Registered(c)
            -> IF conn[c].client = "open" /\ conn[c].session = "open"
               THEN "live" ELSE "closing"
      [] conn[c].stage = "stored" /\ ~Registered(c)
            -> IF Released(c) THEN "gone" ELSE "lost"

Lifecycle == INSTANCE SessionLifecycle WITH
    Sessions <- Conns,
    life <- [c \in Conns |-> Life(c)]

\* As long as no session id is used twice, the six steps of every racing
\* DeleteOnlineClient, the terminals and the cleaner together look like one
\* atomic life per session: opened once, closed once, unlisted only when closed
\* completely and never revived.
RefinesLifecycle == Lifecycle!LifeSpec

\* The host of c does not hang for ever.
Reachable(c) == <>[]~conn[c].hung

\* A session that some handler or the cleaner has begun to close leaves the
\* map completely closed, whoever takes the remaining steps of the delete, unless
\* its host hangs: sftpClient.Close then waits in front of the other closes.
CloseCompletes == \A c \in Conns : Reachable(c) => Lifecycle!Completes(c)

\* The only way to lose track of an open SSH client that was once stored is a
\* second CreateSessionId with the same id: its Store overwrites the entry, and
\* a delete of the other object removes the entry by key.
OrphanOnlyByReuse ==
    \A c \in Conns :
        (conn[c].stage = "stored" /\ ~Registered(c) /\ ~Released(c))
            => \E d \in Conns \ {c} : /\ conn[d].id = conn[c].id
                                      /\ conn[d].stage = "stored"

\* A terminal handler whose session has left the map comes to its end and
\* closes its websocket (RunTerminal's Wait returns because the delete closed
\* the client), so no browser keeps a dead terminal.  The exception is a session
\* on which two terminals got a shell, there being one exit status for both.
TerminalDrains ==
    \A p \in Handlers, c \in Conns :
        (proc[p].pc \in {"attach", "shell", "ask", "start", "wait"} /\ proc[p].held = c
            /\ ~Registered(c))
        ~> ((At(p, "idle") /\ p \notin wsOpen) \/ conn[c].twice)

\* The cleaner does its job as long as no host hangs for ever, which would keep it
\* in one DeleteOnlineClient: no session stays both registered and without a
\* heartbeat for ever, nil websockets and concurrent deletes notwithstanding.
InactiveReaped ==
    (\A c \in Conns : Reachable(c))
        => \A c \in Conns : []<>~(Registered(c) /\ conn[c].stale)
=============================================================================
