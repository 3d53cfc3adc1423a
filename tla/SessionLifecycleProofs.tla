----------------------- MODULE SessionLifecycleProofs -----------------------
(***************************************************************************)
(* SessionRegistry implements SessionLifecycle when clients never supply a  *)
(* session id, for any number of sessions and handlers.                     *)
(***************************************************************************)
EXTENDS SessionRegistryProofs

\* A handler in the middle of a request that uses the session it has found.
UserPcs == {"attach", "shell", "ask", "start", "wait", "resize"}

\* connect has opened the session channel, too.
ReadySession == \A c \in Conns : conn[c].stage = "ready" => conn[c].session = "open"

\* The session a terminal or a resize has found was once stored.
UsersStored == \A p \in Procs : proc[p].pc \in UserPcs => Held(p).stage = "stored"

\* The invariant under which a step of the registry is a step of the lifecycle.
RInv ==
    /\ IInv
    /\ HaveIds
    /\ IdsUnique
    /\ ReadySession
    /\ UsersStored

LifeKept(c) == Life(c)' = Life(c)

\* The life of every session, as the mapping shows it.
Lives == [c \in Conns |-> Life(c)]
-----------------------------------------------------------------------------
(***************************************************************************)
(* Facts about the refinement mapping.                                      *)
(***************************************************************************)

\* A stored session outside the map has been closed.
LEMMA UnlistedIsReleased ==
  ASSUME RInv, NEW c \in Conns, conn[c].stage = "stored", ~Registered(c)
  PROVE  Released(c)
<1> SUFFICES ASSUME ~Released(c)
             PROVE  FALSE
  OBVIOUS
<1>1. PICK d \in Conns \ {c} : conn[d].id = conn[c].id /\ conn[d].stage = "stored"
  BY DEF RInv, IInv, OrphanOnlyByReuse
<1>2. conn[c].id = NoId
  BY <1>1 DEF RInv, IdsUnique
<1> QED
  BY <1>2 DEF RInv, HaveIds

\* The key under which a session is listed is its own, and no other's.
LEMMA ListedAlone ==
  ASSUME RInv, NEW c \in Conns, NEW d \in Conns, conn[c].stage = "stored",
         conn[c].id \in SessionIds, online[conn[c].id] = d
  PROVE  d = c
<1>1. d # NoConn
  BY NullAssumption
<1>2. conn[d].id = conn[c].id
  BY <1>1 DEF RInv, IInv, RegisteredOK
<1>3. conn[c].id # NoId
  BY NullAssumption
<1> QED
  BY <1>2, <1>3 DEF RInv, IdsUnique

\* Sessions whose record and listing do not change keep their place in life.
LEMMA KeptWhenSame ==
  ASSUME NEW c \in Conns, SameConn(c), Registered(c)' = Registered(c)
  PROVE  LifeKept(c)
  BY DEF LifeKept, Life, SameConn, Released

\* So do sessions that are not stored yet.
LEMMA KeptWhenUnborn ==
  ASSUME NEW c \in Conns, conn[c].stage # "stored", conn'[c].stage # "stored"
  PROVE  LifeKept(c)
  BY DEF LifeKept, Life

\* A step that keeps every life is a stutter of the lifecycle.
LEMMA Stutter ==
  ASSUME \A c \in Conns : LifeKept(c)
  PROVE  UNCHANGED Lives
  BY DEF LifeKept, Lives

\* A step that moves one life is a move of the lifecycle.
LEMMA OneMoves ==
  ASSUME NEW c \in Conns,
         \A d \in Conns \ {c} : LifeKept(d),
         NEW from, NEW to, Life(c) = from, Life(c)' = to
  PROVE  Lifecycle!Move(c, from, to)
<1>1. [d \in Conns |-> Life(d)]' = [[d \in Conns |-> Life(d)] EXCEPT ![c] = to]
  BY DEF LifeKept
<1> QED
  BY <1>1 DEF Lifecycle!Move
-----------------------------------------------------------------------------
(***************************************************************************)
(* Steps that leave the map and what the lifecycle sees of the objects.     *)
(***************************************************************************)

\* The part of the invariant that this module adds.
Added == ReadySession /\ UsersStored

\* What a process may do in such a step.
QuietProc(q) ==
    \/ proc'[q] = proc[q]
    \/ proc'[q].pc \notin UserPcs
    \/ proc'[q].held \in Conns /\ conn[proc'[q].held].stage = "stored"

\* They keep the invariant and are stutters.
LEMMA QuietStep ==
  ASSUME RInv, TypeOK', online' = online, \A c \in Conns : SameConn(c),
         \A q \in Procs : QuietProc(q)
  PROVE  Added' /\ UNCHANGED Lives
<1>1. ReadySession'
  BY DEF RInv, SameConn, ReadySession
<1>2. UsersStored'
  <2> SUFFICES ASSUME NEW q \in Procs, proc'[q].pc \in UserPcs
               PROVE  conn'[proc'[q].held].stage = "stored"
    BY DEF UsersStored, Held
  <2>1. proc'[q].held \in Conns
    BY DEF TypeOK, UsePcs, UserPcs
  <2>2. conn[proc'[q].held].stage = "stored"
    BY DEF QuietProc, RInv, UsersStored, Held
  <2> QED
    BY <2>1, <2>2 DEF SameConn
<1>3. \A c \in Conns : LifeKept(c)
  <2> TAKE c \in Conns
  <2>1. Registered(c)' = Registered(c)
    BY DEF Registered
  <2> QED
    BY <2>1, KeptWhenSame
<1> QED
  BY <1>1, <1>2, <1>3, Stutter DEF Added

\* Steps of handlers that are quiet.
LEMMA QuietHandler ==
  ASSUME RInv, TypeOK', NEW p \in Handlers,
         \/ AttachWs(p) \/ ShellAsks(p) \/ ShellGranted(p) \/ ShellStarts(p)
         \/ ShellFails(p) \/ WaitReturns(p) \/ WaitHangs(p) \/ WindowChange(p)
  PROVE  Added' /\ UNCHANGED Lives
<1>p. p \in Procs /\ TypeOK
  BY DEF Procs, RInv, IInv
<1>o. online' = online
  BY DEF AttachWs, ShellAsks, ShellGranted, ShellStarts, ShellFails, WaitReturns,
     WaitHangs, WindowChange
<1>1. \A c \in Conns : SameConn(c)
  <2>1. CASE ShellStarts(p)
    BY <2>1, <1>p, StartSame
  <2>2. CASE AttachWs(p) \/ WaitReturns(p) \/ WaitHangs(p)
    BY <2>2, <1>p DEF AttachWs, WaitReturns, WaitHangs, Take, SameConn, TypeOK, ConnType
  <2>3. CASE ShellAsks(p) \/ ShellGranted(p) \/ ShellFails(p) \/ WindowChange(p)
    BY <2>3 DEF ShellAsks, ShellGranted, ShellFails, WindowChange, SameConn
  <2> QED
    BY <2>1, <2>2, <2>3
<1>2. \A q \in Procs \ {p} : proc'[q] = proc[q]
  BY <1>p DEF AttachWs, ShellAsks, ShellGranted, ShellStarts, Goto, ShellFails,
     WaitReturns, WaitHangs, WindowChange, CallDelete, TypeOK
<1>3. QuietProc(p)
  <2>1. CASE AttachWs(p) \/ ShellAsks(p) \/ ShellGranted(p) \/ ShellStarts(p)
    <3>1. proc[p].pc \in UserPcs
      BY <2>1 DEF AttachWs, ShellAsks, ShellGranted, ShellStarts, At, UserPcs
    <3>2. proc[p].held \in Conns /\ conn[proc[p].held].stage = "stored"
      BY <3>1, <1>p DEF RInv, UsersStored, UserPcs, Held, TypeOK, UsePcs
    <3>3. proc'[p].held = proc[p].held
      BY <2>1, <1>p DEF AttachWs, ShellAsks, ShellGranted, ShellStarts, Goto, TypeOK,
         ProcType
    <3> QED
      BY <3>2, <3>3 DEF QuietProc
  <2>2. CASE ShellFails(p) \/ WaitReturns(p) \/ WindowChange(p)
    <3>1. proc'[p].pc \in {"load", "idle"}
      BY <2>2, <1>p DEF ShellFails, WaitReturns, WindowChange, CallDelete, IdleProc, TypeOK
    <3> QED
      BY <3>1 DEF QuietProc, UserPcs
  <2>3. CASE WaitHangs(p)
    BY <2>3 DEF WaitHangs, QuietProc
  <2> QED
    BY <2>1, <2>2, <2>3
<1>4. \A q \in Procs : QuietProc(q)
  BY <1>2, <1>3 DEF QuietProc
<1> QED
  BY <1>o, <1>1, <1>4, QuietStep

\* The quiet steps of DeleteOnlineClient: it looks the session up, and closes the
\* websocket, which the lifecycle does not see.
LEMMA QuietDelete ==
  ASSUME RInv, TypeOK', NEW p \in Procs, DelLoad(p) \/ DelCloseWs(p)
  PROVE  Added' /\ UNCHANGED Lives
<1>t. TypeOK
  BY DEF RInv, IInv
<1>1. online' = online
  BY DEF DelLoad, DelCloseWs
<1>2. CASE DelLoad(p) /\ online[proc[p].key] = NoConn
  <2>1. Return(p)
    BY <1>2 DEF DelLoad
  <2>2. /\ \A c \in Conns : SameConn(c)
        /\ \A q \in Procs \ {p} : proc'[q] = proc[q]
        /\ proc'[p].pc \in {"load", "idle"}
    BY <1>t, <2>1, ReturnFrame
  <2>3. \A c \in Conns : SameConn(c)
    BY <2>1, <2>2, <1>t DEF Return, Finish, TypeOK, ConnType
  <2>4. \A q \in Procs : QuietProc(q)
    BY <2>2 DEF QuietProc, UserPcs
  <2> QED
    BY <1>1, <2>3, <2>4, QuietStep
<1>3. CASE ~(DelLoad(p) /\ online[proc[p].key] = NoConn)
  <2>1. \A c \in Conns : SameConn(c)
    BY <1>3 DEF DelLoad, DelCloseWs, SameConn
  <2>2. /\ \A q \in Procs \ {p} : proc'[q] = proc[q]
        /\ proc'[p].pc \in {"closeWs", "closeSession"}
    BY <1>3, <1>t DEF DelLoad, DelCloseWs, Goto, TypeOK, ProcType
  <2>3. \A q \in Procs : QuietProc(q)
    BY <2>2 DEF QuietProc, UserPcs
  <2> QED
    BY <1>1, <2>1, <2>3, QuietStep
<1> QED
  BY <1>2, <1>3

\* Requests but CreateSessionId.
LEMMA QuietRequest ==
  ASSUME RInv, TypeOK', NEW p \in Handlers, NEW id \in SessionIds, Request(p, id),
         \A c \in Conns : ~CreateSessionId(p, id, c)
  PROVE  Added' /\ UNCHANGED Lives
<1>p. p \in Procs /\ TypeOK
  BY DEF Procs, RInv, IInv
<1>r. \/ NewSshConnBadWindow(p, id) \/ NewSshConn(p, id) \/ Disconnect(p, id)
      \/ ResizeWindow(p, id)
  BY DEF Request
<1>1. online' = online /\ conn' = conn
  BY <1>r DEF NewSshConnBadWindow, NewSshConn, Terminal, Disconnect, ResizeWindow
<1>2. \A c \in Conns : SameConn(c)
  BY <1>1 DEF SameConn
<1>3. /\ \A q \in Procs \ {p} : proc'[q] = proc[q]
      /\ proc'[p].pc = "load" \/ (online[id] # NoConn /\ proc'[p].held = online[id])
  BY <1>r, <1>p DEF NewSshConnBadWindow, NewSshConn, Terminal, Disconnect, ResizeWindow,
     TypeOK
<1>4. online[id] # NoConn => online[id] \in Conns /\ conn[online[id]].stage = "stored"
  BY <1>p DEF TypeOK, RInv, IInv, RegisteredOK
<1>5. \A q \in Procs : QuietProc(q)
  BY <1>3, <1>4 DEF QuietProc, UserPcs
<1> QED
  BY <1>1, <1>2, <1>5, QuietStep

\* The heartbeat, the end of the remote side, the clock, the cleaner's loop.
LEMMA QuietOthers ==
  ASSUME RInv, TypeOK',
         \/ CleanRange \/ \E id \in SessionIds : CleanCheck(id) \/ RefreshConnTime(id)
         \/ \E c \in Conns : RemoteEnds(c) \/ HostHangs(c) \/ Expire(c)
         \/ UNCHANGED vars
  PROVE  Added' /\ UNCHANGED Lives
<1>t. TypeOK
  BY DEF RInv, IInv
<1>1. online' = online
  BY DEF CleanRange, CleanCheck, RefreshConnTime, RemoteEnds, HostHangs, Expire, vars
<1>2. \A c \in Conns : SameConn(c)
  <2>1. CASE CleanRange \/ (\E id \in SessionIds : CleanCheck(id)) \/ UNCHANGED vars
    BY <2>1 DEF CleanRange, CleanCheck, vars, SameConn
  <2>2. CASE \E id \in SessionIds : RefreshConnTime(id)
    BY <2>2, <1>t DEF RefreshConnTime, SameConn, TypeOK, ConnType
  <2>3. CASE \E c \in Conns : RemoteEnds(c) \/ HostHangs(c) \/ Expire(c)
    BY <2>3, <1>t, EnvironmentSame
  <2> QED
    BY <2>1, <2>2, <2>3
<1>3. \A q \in Procs : proc'[q] = proc[q] \/ proc'[q].pc \in {"load", "idle"}
  <2>1. CASE \E id \in SessionIds : CleanCheck(id)
    BY <2>1, <1>t DEF CleanCheck, IdleProc, TypeOK, Procs
  <2>2. CASE ~\E id \in SessionIds : CleanCheck(id)
    BY <2>2 DEF CleanRange, RefreshConnTime, RemoteEnds, HostHangs, Expire, vars
  <2> QED
    BY <2>1, <2>2
<1>4. \A q \in Procs : QuietProc(q)
  BY <1>3 DEF QuietProc, UserPcs
<1> QED
  BY <1>1, <1>2, <1>4, QuietStep
-----------------------------------------------------------------------------
(***************************************************************************)
(* Steps on one object.                                                     *)
(***************************************************************************)

\* Such a step keeps what this module adds to the invariant.
LEMMA AddedStep ==
  ASSUME RInv, TypeOK', NEW p \in Procs, NEW c \in Conns,
         \A d \in Conns \ {c} : conn'[d] = conn[d],
         conn[c].stage = "stored" => conn'[c].stage = "stored",
         conn'[c].stage = "ready" => conn'[c].session = "open",
         \A q \in Procs \ {p} : proc'[q] = proc[q],
         proc'[p].pc \in UserPcs => proc'[p].held = c /\ conn'[c].stage = "stored"
  PROVE  Added'
<1>1. ReadySession'
  BY DEF RInv, ReadySession
<1>2. UsersStored'
  <2> SUFFICES ASSUME NEW q \in Procs, proc'[q].pc \in UserPcs
               PROVE  conn'[proc'[q].held].stage = "stored"
    BY DEF UsersStored, Held
  <2>1. proc'[q].held \in Conns
    BY DEF TypeOK, UsePcs, UserPcs
  <2>2. q # p => conn[proc'[q].held].stage = "stored"
    BY DEF RInv, UsersStored, Held
  <2> QED
    BY <2>1, <2>2
<1> QED
  BY <1>1, <1>2 DEF Added

\* An object that is not stored before or after the step: a stutter.
LEMMA UnbornStep ==
  ASSUME RInv, TypeOK', NEW p \in Procs, NEW c \in Conns, online' = online,
         \A d \in Conns \ {c} : conn'[d] = conn[d],
         conn[c].stage # "stored", conn'[c].stage # "stored",
         conn'[c].stage = "ready" => conn'[c].session = "open",
         \A q \in Procs \ {p} : proc'[q] = proc[q],
         proc'[p].pc \notin UserPcs
  PROVE  Added' /\ UNCHANGED Lives
<1>1. Added'
  BY AddedStep
<1>3. ASSUME NEW d \in Conns
      PROVE  LifeKept(d)
  <2>1. CASE d = c
    BY <2>1, KeptWhenUnborn
  <2>2. CASE d # c
    <3>1. SameConn(d)
      BY <2>2 DEF SameConn
    <3>2. Registered(d)' = Registered(d)
      BY DEF Registered
    <3> QED
      BY <3>1, <3>2, KeptWhenSame
  <2> QED
    BY <2>1, <2>2
<1> QED
  BY <1>1, <1>3, Stutter

\* CreateSessionId takes an unused object.
LEMMA CreateUnborn ==
  ASSUME RInv, TypeOK', NEW p \in Procs, NEW id \in SessionIds, NEW c \in Conns,
         CreateSessionId(p, id, c)
  PROVE  Added' /\ UNCHANGED Lives
<1>t. TypeOK
  BY DEF RInv, IInv
<1>1. /\ online' = online
      /\ \A d \in Conns \ {c} : conn'[d] = conn[d]
      /\ conn[c].stage = "new"
      /\ conn'[c] = [conn[c] EXCEPT !.id = id, !.stage = "dialing"]
  BY <1>t DEF CreateSessionId, TypeOK
<1>2. conn'[c].stage = "dialing"
  BY <1>1, <1>t DEF TypeOK, ConnType
<1>4. /\ \A q \in Procs \ {p} : proc'[q] = proc[q]
      /\ proc'[p].pc = "connect"
  BY <1>t DEF CreateSessionId, TypeOK
<1> QED
  BY <1>1, <1>2, <1>4, UnbornStep DEF UserPcs

\* The object connect works on.
LEMMA Dialing ==
  ASSUME RInv, NEW p \in Procs, At(p, "connect"), NEW c, proc[p].held = c
  PROVE  c \in Conns /\ conn[c].stage = "dialing" /\ conn[c] \in ConnType
  BY DEF RInv, IInv, At, TypeOK, UsePcs, CreatorsOK, Held

\* connect fails before anything is open.
LEMMA ConnectFailsUnborn ==
  ASSUME RInv, TypeOK', NEW p \in Procs, ConnectFails(p), NEW c, proc[p].held = c
  PROVE  Added' /\ UNCHANGED Lives
<1>t. TypeOK /\ At(p, "connect")
  BY DEF RInv, IInv, ConnectFails
<1>1. c \in Conns /\ conn[c].stage = "dialing" /\ conn[c] \in ConnType
  BY <1>t, Dialing
<1>2. online' = online /\ \A d \in Conns \ {c} : conn'[d] = conn[d]
  BY <1>t DEF ConnectFails, TypeOK
<1>3. conn'[c] = NewConn
  BY <1>t, <1>1 DEF ConnectFails, TypeOK
<1>4. conn'[c].stage = "new"
  BY <1>3 DEF NewConn
<1>5. /\ \A q \in Procs \ {p} : proc'[q] = proc[q]
      /\ proc'[p].pc = "idle"
  BY <1>t DEF ConnectFails, IdleProc, TypeOK
<1> QED
  BY <1>1, <1>2, <1>4, <1>5, UnbornStep DEF UserPcs

\* connect fails after the client was dialled.
LEMMA NewSessionFailsUnborn ==
  ASSUME RInv, TypeOK', NEW p \in Procs, NewSessionFails(p), NEW c, proc[p].held = c
  PROVE  Added' /\ UNCHANGED Lives
<1>t. TypeOK /\ At(p, "connect")
  BY DEF RInv, IInv, NewSessionFails
<1>1. c \in Conns /\ conn[c].stage = "dialing" /\ conn[c] \in ConnType
  BY <1>t, Dialing
<1>2. online' = online /\ \A d \in Conns \ {c} : conn'[d] = conn[d]
  BY <1>t DEF NewSessionFails, TypeOK
<1>3. \E sftp \in SftpResults :
         conn'[c] = [conn[c] EXCEPT !.stage = "failed", !.client = "open", !.sftp = sftp]
  BY <1>t, <1>1 DEF NewSessionFails, TypeOK
<1>4. conn'[c].stage = "failed"
  BY <1>1, <1>3 DEF ConnType
<1>5. /\ \A q \in Procs \ {p} : proc'[q] = proc[q]
      /\ proc'[p].pc = "idle"
  BY <1>t DEF NewSessionFails, IdleProc, TypeOK
<1> QED
  BY <1>1, <1>2, <1>4, <1>5, UnbornStep DEF UserPcs

\* connect succeeds.
LEMMA ConnectedUnborn ==
  ASSUME RInv, TypeOK', NEW p \in Procs, Connected(p), NEW c, proc[p].held = c
  PROVE  Added' /\ UNCHANGED Lives
<1>t. TypeOK /\ At(p, "connect")
  BY DEF RInv, IInv, Connected
<1>1. c \in Conns /\ conn[c].stage = "dialing" /\ conn[c] \in ConnType
  BY <1>t, Dialing
<1>2. online' = online /\ \A d \in Conns \ {c} : conn'[d] = conn[d]
  BY <1>t DEF Connected, TypeOK
<1>3. PICK sftp \in SftpResults :
         conn'[c] = [conn[c] EXCEPT !.stage = "ready", !.client = "open",
                        !.sftp = sftp, !.session = "open", !.alive = TRUE]
  BY <1>t, <1>1 DEF Connected, TypeOK
<1>4. /\ conn'[c].stage = "ready" /\ conn'[c].session = "open"
     
  BY <1>1, <1>3 DEF ConnType
<1>5. /\ \A q \in Procs \ {p} : proc'[q] = proc[q]
      /\ proc'[p].pc = "store"
  BY <1>t DEF Connected, Goto, ProcType, TypeOK
<1> QED
  BY <1>1, <1>2, <1>4, <1>5, UnbornStep DEF UserPcs

\* Store is the birth of the session: no other one loses its entry.
LEMMA StoreOpens ==
  ASSUME RInv, TypeOK', NEW p \in Procs, Store(p),
         NEW c, proc[p].held = c, NEW key, proc[p].key = key
  PROVE  Added' /\ c \in Conns /\ Lifecycle!Open(c)
<1>t. TypeOK
  BY DEF RInv, IInv
<1>1. /\ c \in Conns /\ conn[c] \in ConnType /\ key \in SessionIds
      /\ conn[c].stage = "ready" /\ conn[c].id = key
      /\ conn[c].client = "open" /\ conn[c].session = "open"
  BY <1>t DEF Store, At, TypeOK, UsePcs, RInv, IInv, CreatorsOK, Held, ReadyIsOpen,
     ReadySession
<1>2. /\ \A d \in Conns \ {c} : conn'[d] = conn[d]
      /\ conn'[c] = [conn[c] EXCEPT !.stage = "stored"]
  BY <1>1, <1>t DEF Store, TypeOK
<1>3. /\ conn'[c].stage = "stored" /\ conn'[c].client = "open"
      /\ conn'[c].session = "open"
  BY <1>1, <1>2 DEF ConnType
<1>4. online'[key] = c /\ \A id \in SessionIds \ {key} : online'[id] = online[id]
  BY <1>1, <1>t DEF Store, StoreOver, TypeOK
<1>5. /\ \A q \in Procs \ {p} : proc'[q] = proc[q]
      /\ proc'[p].pc = "idle"
  BY <1>t DEF Store, IdleProc, TypeOK
<1>6. Added'
  BY <1>1, <1>2, <1>3, <1>5, AddedStep DEF UserPcs
<1>8. Life(c) = "unborn"
  BY <1>1 DEF Life
<1>9. Registered(c)'
  BY <1>1, <1>4 DEF Registered
<1>10. Life(c)' = "live"
  BY <1>3, <1>9 DEF Life
<1>11. ASSUME NEW d \in Conns \ {c}
       PROVE  LifeKept(d)
  <2>1. CASE conn[d].stage = "stored"
    <3>1. online[key] # d
      <4> SUFFICES ASSUME online[key] = d
                   PROVE  FALSE
        OBVIOUS
      <4>1. d # NoConn
        BY NullAssumption
      <4>2. conn[d].id = key
        BY <1>1, <4>1 DEF RInv, IInv, RegisteredOK
      <4> QED
        BY <1>1, <4>2, NullAssumption DEF RInv, IdsUnique
    <3>2. Registered(d)' = Registered(d)
      BY <1>1, <1>4, <3>1 DEF Registered
    <3>3. SameConn(d)
      BY <1>2 DEF SameConn
    <3> QED
      BY <3>2, <3>3, KeptWhenSame
  <2>2. CASE conn[d].stage # "stored"
    BY <2>2, <1>2, KeptWhenUnborn
  <2> QED
    BY <2>1, <2>2
<1>12. Lifecycle!Move(c, "unborn", "live")
  BY <1>1, <1>8, <1>10, <1>11, OneMoves
<1> QED
  BY <1>1, <1>6, <1>12 DEF Lifecycle!Open

\* The object DeleteOnlineClient works on.
LEMMA Closing ==
  ASSUME RInv, NEW p \in Procs, proc[p].pc \in ClosePcs, NEW c, proc[p].held = c
  PROVE  /\ c \in Conns /\ conn[c] \in ConnType
         /\ conn[c].stage = "stored" /\ conn[c].id = proc[p].key
         /\ proc[p].pc \in {"closeClient", "remove"} => conn[c].session = "closed"
         /\ proc[p].pc = "closeSftp" => conn[c].session = "closed"
  BY DEF RInv, IInv, TypeOK, UsePcs, ClosePcs, DeletersOK, Held

\* Closing the session channel begins the end of a live session.
LEMMA CloseSessionBegins ==
  ASSUME RInv, TypeOK', NEW p \in Procs, DelCloseSession(p), NEW c, proc[p].held = c
  PROVE  /\ Added' /\ c \in Conns
         /\ Lifecycle!BeginClose(c) \/ UNCHANGED Lives
<1>t. TypeOK /\ proc[p].pc \in ClosePcs
  BY DEF RInv, IInv, DelCloseSession, At, ClosePcs
<1>1. c \in Conns /\ conn[c] \in ConnType /\ conn[c].stage = "stored"
  BY <1>t, Closing
<1>2. /\ \A d \in Conns \ {c} : conn'[d] = conn[d]
      /\ conn'[c] = [conn[c] EXCEPT !.session = "closed"]
      /\ online' = online
  BY <1>1, <1>t DEF DelCloseSession, TypeOK
<1>3. /\ conn'[c].stage = "stored" /\ conn'[c].session = "closed"
      /\ conn'[c].client = conn[c].client /\ conn'[c].sftp = conn[c].sftp
  BY <1>1, <1>2 DEF ConnType
<1>4. /\ \A q \in Procs \ {p} : proc'[q] = proc[q]
      /\ proc'[p].pc = "closeSftp"
  BY <1>t DEF DelCloseSession, Goto, TypeOK, ProcType
<1>5. Added'
  BY <1>1, <1>2, <1>3, <1>4, AddedStep DEF UserPcs
<1>7. \A d \in Conns : Registered(d)' = Registered(d)
  BY <1>2 DEF Registered
<1>8. \A d \in Conns \ {c} : LifeKept(d)
  BY <1>2, <1>7, KeptWhenSame DEF SameConn
<1>9. CASE Registered(c) /\ conn[c].client = "open" /\ conn[c].session = "open"
  <2>1. Life(c) = "live"
    BY <1>1, <1>9 DEF Life
  <2>2. Registered(c)'
    BY <1>1, <1>7, <1>9
  <2>3. conn'[c].session # "open"
    BY <1>3
  <2>4. Life(c)' = "closing"
    BY <1>3, <2>2, <2>3 DEF Life
  <2> QED
    BY <1>1, <1>5, <1>8, <2>1, <2>4, OneMoves DEF Lifecycle!BeginClose
<1>10. CASE Registered(c) /\ ~(conn[c].client = "open" /\ conn[c].session = "open")
  <2>1. Life(c) = "closing"
    BY <1>1, <1>10 DEF Life
  <2>2. Registered(c)'
    BY <1>1, <1>7, <1>10
  <2>3. conn'[c].session # "open"
    BY <1>3
  <2>4. Life(c)' = "closing"
    BY <1>3, <2>2, <2>3 DEF Life
  <2> QED
    BY <1>1, <1>5, <1>8, <2>1, <2>4, Stutter DEF LifeKept
<1>11. CASE ~Registered(c)
  <2>1. Released(c)
    BY <1>1, <1>11, UnlistedIsReleased
  <2>2. SameConn(c)
    <3>1. conn'[c].id = conn[c].id
      BY <1>1, <1>2 DEF ConnType
    <3> QED
      BY <2>1, <3>1, <1>1, <1>3 DEF SameConn, Released
  <2>3. LifeKept(c)
    BY <2>2, <1>1, <1>7, KeptWhenSame
  <2> QED
    BY <1>1, <1>5, <1>8, <2>3, Stutter
<1> QED
  BY <1>9, <1>10, <1>11

\* Closing the sftp client does not show.
LEMMA CloseSftpStutters ==
  ASSUME RInv, TypeOK', NEW p \in Procs, DelCloseSftp(p), NEW c, proc[p].held = c
  PROVE  Added' /\ UNCHANGED Lives
<1>t. TypeOK /\ proc[p].pc \in ClosePcs
  BY DEF RInv, IInv, DelCloseSftp, At, ClosePcs
<1>1. c \in Conns /\ conn[c] \in ConnType /\ conn[c].stage = "stored"
  BY <1>t, Closing
<1>2. /\ \A d \in Conns \ {c} : conn'[d] = conn[d]
      /\ \E v \in {"nil", "closed"} : conn'[c] = [conn[c] EXCEPT !.sftp = v]
      /\ online' = online
  BY <1>1, <1>t DEF DelCloseSftp, TypeOK
<1>3. /\ conn'[c].stage = "stored" /\ conn'[c].session = conn[c].session
      /\ conn'[c].client = conn[c].client /\ conn'[c].sftp # "open"
  BY <1>1, <1>2 DEF ConnType
<1>4. /\ \A q \in Procs \ {p} : proc'[q] = proc[q]
      /\ proc'[p].pc = "closeClient"
  BY <1>t DEF DelCloseSftp, Goto, TypeOK, ProcType
<1>5. Added'
  BY <1>1, <1>2, <1>3, <1>4, AddedStep DEF UserPcs
<1>7. \A d \in Conns : Registered(d)' = Registered(d)
  BY <1>2 DEF Registered
<1>8. \A d \in Conns \ {c} : LifeKept(d)
  BY <1>2, <1>7, KeptWhenSame DEF SameConn
<1>9. LifeKept(c)
  <2>1. CASE Registered(c)
    <3>1. Registered(c)'
      BY <1>1, <1>7, <2>1
    <3> QED
      BY <1>1, <1>3, <2>1, <3>1 DEF LifeKept, Life
  <2>2. CASE ~Registered(c)
    <3>1. Released(c)
      BY <1>1, <2>2, UnlistedIsReleased
    <3>2. ~Registered(c)' /\ Released(c)'
      BY <1>1, <1>3, <1>7, <2>2, <3>1 DEF Released
    <3> QED
      BY <1>1, <1>3, <2>2, <3>1, <3>2 DEF LifeKept, Life
  <2> QED
    BY <2>1, <2>2
<1> QED
  BY <1>1, <1>5, <1>8, <1>9, Stutter

\* Closing the client does not show either: the session channel is closed.
LEMMA CloseClientStutters ==
  ASSUME RInv, TypeOK', NEW p \in Procs, DelCloseClient(p), NEW c, proc[p].held = c
  PROVE  Added' /\ UNCHANGED Lives
<1>t. TypeOK /\ proc[p].pc = "closeClient" /\ proc[p].pc \in ClosePcs
  BY DEF RInv, IInv, DelCloseClient, At, ClosePcs
<1>1. /\ c \in Conns /\ conn[c] \in ConnType /\ conn[c].stage = "stored"
      /\ conn[c].session = "closed"
  BY <1>t, Closing
<1>2. /\ \A d \in Conns \ {c} : conn'[d] = conn[d]
      /\ conn'[c] = [conn[c] EXCEPT !.client = "closed", !.alive = FALSE, !.hung = FALSE]
      /\ online' = online
  BY <1>1, <1>t DEF DelCloseClient, TypeOK
<1>3. /\ conn'[c].stage = "stored" /\ conn'[c].session = "closed"
      /\ conn'[c].client = "closed" /\ conn'[c].sftp = conn[c].sftp
  BY <1>1, <1>2 DEF ConnType
<1>4. /\ \A q \in Procs \ {p} : proc'[q] = proc[q]
      /\ proc'[p].pc = "remove"
  BY <1>t DEF DelCloseClient, Goto, TypeOK, ProcType
<1>5. Added'
  BY <1>1, <1>2, <1>3, <1>4, AddedStep DEF UserPcs
<1>7. \A d \in Conns : Registered(d)' = Registered(d)
  BY <1>2 DEF Registered
<1>8. \A d \in Conns \ {c} : LifeKept(d)
  BY <1>2, <1>7, KeptWhenSame DEF SameConn
<1>9. conn[c].session # "open" /\ conn'[c].session # "open"
  BY <1>1, <1>3
<1>10. LifeKept(c)
  <2>1. CASE Registered(c)
    <3>1. Registered(c)'
      BY <1>1, <1>7, <2>1
    <3>2. Life(c) = "closing"
      BY <1>1, <1>9, <2>1 DEF Life
    <3>3. Life(c)' = "closing"
      BY <1>3, <1>9, <3>1 DEF Life
    <3> QED
      BY <3>2, <3>3 DEF LifeKept
  <2>2. CASE ~Registered(c)
    <3>1. Released(c)
      BY <1>1, <2>2, UnlistedIsReleased
    <3>2. ~Registered(c)' /\ Released(c)'
      BY <1>1, <1>3, <1>7, <2>2, <3>1 DEF Released
    <3> QED
      BY <1>1, <1>3, <2>2, <3>1, <3>2 DEF LifeKept, Life
  <2> QED
    BY <2>1, <2>2
<1> QED
  BY <1>1, <1>5, <1>8, <1>10, Stutter

\* The removal of the entry is the end of a session that is closed completely;
\* when another call was faster, it is nothing.
LEMMA RemoveForgets ==
  ASSUME RInv, TypeOK', NEW p \in Procs, DelRemove(p),
         NEW c, proc[p].held = c, NEW key, proc[p].key = key
  PROVE  /\ Added' /\ c \in Conns
         /\ Lifecycle!Forget(c) \/ UNCHANGED Lives
<1>t. TypeOK /\ proc[p].pc = "remove" /\ proc[p].pc \in ClosePcs /\ Return(p)
  BY DEF RInv, IInv, DelRemove, At, ClosePcs
<1>1. c \in Conns /\ conn[c] \in ConnType /\ conn[c].stage = "stored" /\ conn[c].id = key
  BY <1>t, Closing
<1>2. Released(c) /\ key \in SessionIds
  BY <1>t DEF RInv, IInv, DeletersOK, Held, Released, TypeOK, UsePcs, ClosePcs
<1>3. /\ \A d \in Conns : SameConn(d)
      /\ \A q \in Procs \ {p} : proc'[q] = proc[q]
      /\ proc'[p].pc \in {"load", "idle"}
  BY <1>t, ReturnFrame
<1>5. online'[key] = NoConn /\ \A id \in SessionIds \ {key} : online'[id] = online[id]
  BY <1>2, <1>t DEF DelRemove, TypeOK
<1>6. Added'
  <2>1. ReadySession'
    BY <1>3 DEF RInv, ReadySession, SameConn
  <2>2. UsersStored'
    <3> SUFFICES ASSUME NEW q \in Procs, proc'[q].pc \in UserPcs
                 PROVE  conn'[proc'[q].held].stage = "stored"
      BY DEF UsersStored, Held
    <3>1. q # p /\ proc'[q] = proc[q] /\ proc'[q].held \in Conns
      BY <1>3 DEF UserPcs, TypeOK, UsePcs
    <3> QED
      BY <1>3, <3>1 DEF RInv, UsersStored, Held, SameConn
  <2> QED
    BY <2>1, <2>2 DEF Added
<1>7. \A d \in Conns \ {c} : online[key] # d
  BY <1>1, <1>2, ListedAlone
<1>8. ASSUME NEW d \in Conns \ {c}
      PROVE  LifeKept(d)
  <2>1. d # NoConn
    BY NullAssumption
  <2>2. Registered(d)' = Registered(d)
    BY <1>2, <1>5, <1>7, <2>1 DEF Registered
  <2> QED
    BY <1>3, <2>2, KeptWhenSame
<1>9. ~Registered(c)'
  <2> SUFFICES ASSUME NEW id \in SessionIds, online'[id] = c
               PROVE  FALSE
    BY DEF Registered
  <2>1. c # NoConn
    BY <1>1, NullAssumption
  <2>2. id # key /\ online[id] = c
    BY <1>5, <2>1
  <2> QED
    BY <1>1, <2>1, <2>2 DEF RInv, IInv, RegisteredOK
<1>10. conn'[c].stage = "stored" /\ Released(c)'
  BY <1>1, <1>2, <1>3 DEF SameConn, Released
<1>11. Life(c)' = "gone"
  BY <1>9, <1>10 DEF Life
<1>12. CASE Registered(c)
  <2>1. conn[c].client # "open"
    BY <1>2 DEF Released
  <2>2. Life(c) = "closing"
    BY <1>1, <1>12, <2>1 DEF Life
  <2> QED
    BY <1>1, <1>6, <1>8, <1>11, <2>2, OneMoves DEF Lifecycle!Forget
<1>13. CASE ~Registered(c)
  <2>1. Life(c) = "gone"
    BY <1>1, <1>2, <1>13 DEF Life
  <2> QED
    BY <1>1, <1>6, <1>8, <1>11, <2>1, Stutter DEF LifeKept
<1> QED
  BY <1>12, <1>13
-----------------------------------------------------------------------------
(***************************************************************************)
(* The refinement.                                                          *)
(***************************************************************************)

\* A step of the lifecycle, or none.
LifeStep == [Lifecycle!LifeNext]_Lives

\* Every step of DeleteOnlineClient.
LEMMA DeleteRefines ==
  ASSUME RInv, TypeOK', NEW p \in Procs, DeleteOnlineClient(p)
  PROVE  Added' /\ LifeStep
<1>1. CASE DelLoad(p) \/ DelCloseWs(p)
  BY <1>1, QuietDelete DEF LifeStep
<1>2. CASE DelCloseSession(p)
  BY <1>2, CloseSessionBegins DEF LifeStep, Lifecycle!LifeNext
<1>3. CASE DelCloseSftp(p)
  BY <1>3, CloseSftpStutters DEF LifeStep
<1>4. CASE DelCloseClient(p)
  BY <1>4, CloseClientStutters DEF LifeStep
<1>5. CASE DelRemove(p)
  BY <1>5, RemoveForgets DEF LifeStep, Lifecycle!LifeNext
<1> QED
  BY <1>1, <1>2, <1>3, <1>4, <1>5 DEF DeleteOnlineClient

\* Every other step of a handler.
LEMMA StepRefines ==
  ASSUME RInv, TypeOK', NEW p \in Handlers, Connect(p) \/ Step(p)
  PROVE  Added' /\ LifeStep
<1>p. p \in Procs
  BY DEF Procs
<1>1. CASE ConnectFails(p) \/ NewSessionFails(p) \/ Connected(p)
  BY <1>p, <1>1, ConnectFailsUnborn, NewSessionFailsUnborn, ConnectedUnborn DEF LifeStep
<1>2. CASE Store(p)
  BY <1>p, <1>2, StoreOpens DEF LifeStep, Lifecycle!LifeNext
<1>3. CASE \/ AttachWs(p) \/ ShellAsks(p) \/ ShellGranted(p) \/ ShellStarts(p)
           \/ ShellFails(p) \/ WaitReturns(p) \/ WaitHangs(p) \/ WindowChange(p)
  BY <1>3, QuietHandler DEF LifeStep
<1>4. CASE DeleteOnlineClient(p)
  BY <1>p, <1>4, DeleteRefines
<1> QED
  BY <1>1, <1>2, <1>3, <1>4 DEF Connect, Step

\* Every step keeps the invariant and is a step of the lifecycle.
LEMMA NextRefines ==
  ASSUME SuppliedIds = {}, RInv, [Next]_vars
  PROVE  RInv' /\ LifeStep
<1>1. IInv' /\ HaveIds' /\ IdsUnique'
  BY NextIInv, UniqueStep DEF RInv
<1>t. TypeOK'
  BY <1>1 DEF IInv
<1> SUFFICES Added' /\ LifeStep
  BY <1>1 DEF RInv, Added
<1>2. ASSUME NEW p \in Handlers, Connect(p) \/ Step(p)
      PROVE  Added' /\ LifeStep
  BY <1>t, <1>2, StepRefines
<1>3. ASSUME NEW p \in Handlers, NEW id \in SessionIds, Request(p, id)
      PROVE  Added' /\ LifeStep
  <2>1. CASE \E c \in Conns : CreateSessionId(p, id, c)
    BY <1>t, <2>1, CreateUnborn DEF LifeStep, Procs
  <2>2. CASE ~\E c \in Conns : CreateSessionId(p, id, c)
    BY <1>t, <1>3, <2>2, QuietRequest DEF LifeStep
  <2> QED
    BY <2>1, <2>2
<1>4. CASE CleanerStep
  BY <1>t, <1>4, QuietOthers, DeleteRefines DEF CleanerStep, LifeStep, Procs
<1>5. CASE \/ \E id \in SessionIds : RefreshConnTime(id)
           \/ \E c \in Conns : RemoteEnds(c) \/ HostHangs(c) \/ Expire(c)
           \/ UNCHANGED vars
  BY <1>t, <1>5, QuietOthers DEF LifeStep
<1> QED
  BY <1>2, <1>3, <1>4, <1>5 DEF Next

\* The empty registry is the empty lifecycle.
LEMMA InitRefines == Init => RInv /\ Lifecycle!LifeInit
<1> SUFFICES ASSUME Init
             PROVE  RInv /\ Lifecycle!LifeInit
  OBVIOUS
<1>1. \A c \in Conns : conn[c] = NewConn
  BY DEF Init
<1>2. HaveIds /\ IdsUnique /\ ReadySession
  BY <1>1 DEF NewConn, HaveIds, IdsUnique, ReadySession
<1>3. UsersStored
  BY DEF Init, IdleProc, UsersStored, UserPcs
<1>4. \A c \in Conns : Life(c) = "unborn"
  BY <1>1 DEF Life, NewConn
<1>6. Lifecycle!LifeInit
  BY <1>4 DEF Lifecycle!LifeInit
<1> QED
  BY <1>2, <1>3, <1>6, InitIInv DEF RInv

\* With server-made ids, the handlers, the terminals, the cleaner and the racing
\* six-step DeleteOnlineClient calls implement one atomic life per session:
\* opened once, closed once, unlisted only when completely closed, never revived.
THEOREM RegistryRefinesLifecycle ==
  ASSUME SuppliedIds = {}
  PROVE  Spec => RefinesLifecycle
<1>1. RInv /\ [Next]_vars => RInv' /\ [Lifecycle!LifeNext]_[c \in Conns |-> Life(c)]
  BY NextRefines DEF LifeStep, Lives
<1> QED
  BY <1>1, InitRefines, PTL DEF Spec, RefinesLifecycle, Lifecycle!LifeSpec

=============================================================================
