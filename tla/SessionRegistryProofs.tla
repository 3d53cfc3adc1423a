----------------------- MODULE SessionRegistryProofs -----------------------
(***************************************************************************)
(* Proofs about SessionRegistry for any number of ids, sessions and         *)
(* handlers.                                                                *)
(***************************************************************************)
EXTENDS SessionRegistry, TLAPS

\* What is in the map is a finished object under its own id.
RegisteredOK ==
    \A id \in SessionIds :
        online[id] # NoConn => /\ conn[online[id]].stage = "stored"
                               /\ conn[online[id]].id = id

\* What a deleter has closed so far, and that its object was once stored under
\* the key it is going to remove.
DeletersOK ==
    \A p \in Procs :
        proc[p].pc \in ClosePcs =>
            /\ Held(p).stage = "stored"
            /\ Held(p).id = proc[p].key
            /\ proc[p].pc \in {"closeSftp", "closeClient", "remove"}
                  => Held(p).session = "closed"
            /\ proc[p].pc \in {"closeClient", "remove"} => Held(p).sftp # "open"
            /\ proc[p].pc = "remove" => Held(p).client = "closed"

\* A creator's object is its own until it is stored, and open when ready.
CreatorsOK ==
    \A p \in Procs :
        /\ At(p, "connect") => /\ Held(p).stage = "dialing"
                               /\ Held(p).id = proc[p].key
        /\ At(p, "store") => /\ Held(p).stage = "ready"
                             /\ Held(p).id = proc[p].key
        /\ \A q \in Procs \ {p} :
              (proc[p].pc \in {"connect", "store"} /\ proc[q].pc \in {"connect", "store"})
                  => proc[p].held # proc[q].held

ReadyIsOpen == \A c \in Conns : conn[c].stage = "ready" => conn[c].client = "open"

IInv ==
    /\ TypeOK
    /\ RegisteredOK
    /\ DeletersOK
    /\ CreatorsOK
    /\ ReadyIsOpen
    /\ ClosedIsBeingRemoved
    /\ OrphanOnlyByReuse
-----------------------------------------------------------------------------
(***************************************************************************)
(* Type correctness: every action keeps TypeOK.                             *)
(***************************************************************************)

\* The empty registry is well typed.
LEMMA InitType == Init => TypeOK
  BY NullAssumption DEF Init, TypeOK, ConnType, ProcType, NewConn, IdleProc,
     Resource, UsePcs, ClosePcs, Procs

\* Only two parts of TypeOK can be disturbed by a step of one process.
ConnsTyped == conn \in [Conns -> ConnType]

ProcsTyped ==
    /\ proc \in [Procs -> ProcType]
    /\ \A p \in Procs :
          /\ proc[p].pc \in UsePcs => proc[p].held \in Conns
          /\ proc[p].pc \in UsePcs \cup {"load"} => proc[p].key \in SessionIds

\* Replacing one process record by a well-formed one.
LEMMA SetProc ==
  ASSUME ProcsTyped, NEW p \in Procs, NEW r \in ProcType,
         r.pc \in UsePcs => r.held \in Conns,
         r.pc \in UsePcs \cup {"load"} => r.key \in SessionIds,
         proc' = [proc EXCEPT ![p] = r]
  PROVE  ProcsTyped'
  BY DEF ProcsTyped

\* Replacing one SshConn record by a well-formed one.
LEMMA SetConn ==
  ASSUME ConnsTyped, NEW c \in Conns, NEW r \in ConnType,
         conn' = [conn EXCEPT ![c] = r]
  PROVE  ConnsTyped'
  BY DEF ConnsTyped

\* Calling DeleteOnlineClient n + 1 times is well typed.
LEMMA CallDeleteType ==
  ASSUME ProcsTyped, NEW p \in Procs, proc[p].key \in SessionIds, NEW n \in 0..2,
         CallDelete(p, n)
  PROVE  ProcsTyped'
<1> DEFINE r == [pc |-> "load", key |-> proc[p].key, held |-> NoConn, left |-> n]
<1>1. r \in ProcType
  BY DEF ProcType
<1>2. r.pc \notin UsePcs
  BY DEF UsePcs, ClosePcs
<1> QED
  BY <1>1, <1>2, SetProc DEF CallDelete

\* So is every step of a handler outside DeleteOnlineClient.
LEMMA StepType ==
  ASSUME TypeOK, NEW p \in Handlers, Connect(p) \/ Step(p), ~DeleteOnlineClient(p)
  PROVE  TypeOK'
<1> DEFINE P == proc[p]
           C == conn[P.held]
<1>p. /\ p \in Procs /\ P \in ProcType /\ ProcsTyped /\ ConnsTyped
      /\ P.pc \in UsePcs => P.held \in Conns /\ P.key \in SessionIds
      /\ P.pc \in UsePcs => C \in ConnType
  BY DEF TypeOK, ProcsTyped, ConnsTyped, Procs
<1>i. IdleProc \in ProcType /\ IdleProc.pc = "idle" /\ "idle" \notin UsePcs \cup {"load"}
  BY DEF IdleProc, ProcType, UsePcs, ClosePcs
<1>t. ASSUME P.pc \in UsePcs, Take(P.held)
      PROVE  ConnsTyped'
  <2>1. [C EXCEPT !.taken = TRUE] \in ConnType
    BY <1>p, <1>t DEF ConnType
  <2> QED
    BY <1>p, <1>t, <2>1, SetConn DEF Take
<1>1. CASE ConnectFails(p)
  <2>h. P.pc \in UsePcs /\ P.held \in Conns /\ P.key \in SessionIds /\ C \in ConnType
    BY <1>p, <1>1 DEF ConnectFails, At, UsePcs, ClosePcs
  <2>c. NewConn \in ConnType
    BY <2>h DEF ConnType, Resource, NewConn
  <2>1. ConnsTyped'
    BY <1>1, <1>p, <2>h, <2>c, SetConn DEF ConnectFails
  <2>2. ProcsTyped'
    BY <1>p, <1>i, <1>1, SetProc DEF ConnectFails
  <2> QED
    BY <2>1, <2>2, <2>h, <1>1 DEF ConnectFails, TypeOK, ConnsTyped, ProcsTyped
<1>2. CASE NewSessionFails(p)
  <2>h. P.pc \in UsePcs /\ P.held \in Conns /\ P.key \in SessionIds /\ C \in ConnType
    BY <1>p, <1>2 DEF NewSessionFails, At, UsePcs, ClosePcs
  <2>k. PICK sftp \in {"nil", "open"} : 
          conn' = [conn EXCEPT ![P.held] =
            [C EXCEPT !.stage = "failed", !.client = "open", !.sftp = sftp]]
    BY <1>2, SftpAssumption DEF NewSessionFails
  <2>c. [C EXCEPT !.stage = "failed", !.client = "open", !.sftp = sftp] \in ConnType
    BY <2>h, <2>k DEF ConnType, Resource, NewConn
  <2>1. ConnsTyped'
    BY <1>2, <2>k, <1>p, <2>h, <2>c, SetConn DEF NewSessionFails
  <2>2. ProcsTyped'
    BY <1>p, <1>i, <1>2, SetProc DEF NewSessionFails
  <2> QED
    BY <2>1, <2>2, <2>h, <1>2 DEF NewSessionFails, TypeOK, ConnsTyped, ProcsTyped
<1>3. CASE Connected(p)
  <2>h. P.pc \in UsePcs /\ P.held \in Conns /\ P.key \in SessionIds /\ C \in ConnType
    BY <1>p, <1>3 DEF Connected, At, UsePcs, ClosePcs
  <2>k. PICK sftp \in {"nil", "open"} : 
          conn' = [conn EXCEPT ![P.held] =
            [C EXCEPT !.stage = "ready", !.client = "open", !.sftp = sftp,
                      !.session = "open", !.alive = TRUE]]
    BY <1>3, SftpAssumption DEF Connected
  <2>c. [C EXCEPT !.stage = "ready", !.client = "open", !.sftp = sftp,
                  !.session = "open", !.alive = TRUE] \in ConnType
    BY <2>h, <2>k DEF ConnType, Resource, NewConn
  <2>1. ConnsTyped'
    BY <1>3, <2>k, <1>p, <2>h, <2>c, SetConn DEF Connected
  <2>d. [P EXCEPT !.pc = "store"] \in ProcType
    BY <1>p, <2>h, <2>k DEF ProcType, UsePcs, ClosePcs
  <2>2. ProcsTyped'
    BY <1>3, <2>k, <1>p, <2>h, <2>d, SetProc DEF Connected, Goto, UsePcs, ClosePcs, ProcType
  <2> QED
    BY <2>1, <2>2, <2>h, <1>3 DEF Connected, TypeOK, ConnsTyped, ProcsTyped
<1>4. CASE Store(p)
  <2>h. P.pc \in UsePcs /\ P.held \in Conns /\ P.key \in SessionIds /\ C \in ConnType
    BY <1>p, <1>4 DEF Store, At, UsePcs, ClosePcs
  <2>c. [C EXCEPT !.stage = "stored"] \in ConnType
    BY <2>h DEF ConnType, Resource, NewConn
  <2>1. ConnsTyped'
    BY <1>4, <1>p, <2>h, <2>c, SetConn DEF Store
  <2>2. ProcsTyped'
    BY <1>p, <1>i, <1>4, SetProc DEF Store
  <2> QED
    BY <2>1, <2>2, <2>h, <1>4 DEF Store, StoreOver, TypeOK, ConnsTyped, ProcsTyped
<1>5. CASE AttachWs(p)
  <2>h. P.pc \in UsePcs /\ P.held \in Conns /\ P.key \in SessionIds /\ C \in ConnType
    BY <1>p, <1>5 DEF AttachWs, At, UsePcs, ClosePcs
  <2>c. [C EXCEPT !.ws = p] \in ConnType
    BY <2>h DEF ConnType, Resource, NewConn
  <2>1. ConnsTyped'
    BY <1>5, <1>p, <2>h, <2>c, SetConn DEF AttachWs
  <2>d. [P EXCEPT !.pc = "shell"] \in ProcType
    BY <1>p, <2>h DEF ProcType, UsePcs, ClosePcs
  <2>2. ProcsTyped'
    BY <1>5, <1>p, <2>h, <2>d, SetProc DEF AttachWs, Goto, UsePcs, ClosePcs, ProcType
  <2> QED
    BY <2>1, <2>2, <2>h, <1>5 DEF AttachWs, TypeOK, ConnsTyped, ProcsTyped
<1>6. CASE ShellStarts(p)
  <2>h. P.pc \in UsePcs /\ P.held \in Conns /\ P.key \in SessionIds /\ C \in ConnType
    BY <1>p, <1>6 DEF ShellStarts, At, UsePcs, ClosePcs
  <2>c. [C EXCEPT !.started = TRUE, !.twice = C.twice \/ C.started] \in ConnType
    BY <2>h DEF ConnType, Resource, NewConn
  <2>k. conn' = [conn EXCEPT ![P.held] =
                    [C EXCEPT !.started = TRUE, !.twice = C.twice \/ C.started]]
    BY <1>6 DEF ShellStarts, Held
  <2>1. ConnsTyped'
    BY <1>p, <2>k, <2>h, <2>c, SetConn
  <2>d. [P EXCEPT !.pc = "wait"] \in ProcType
    BY <1>p, <2>h DEF ProcType, UsePcs, ClosePcs
  <2>2. ProcsTyped'
    BY <1>6, <1>p, <2>h, <2>d, SetProc DEF ShellStarts, Goto, UsePcs, ClosePcs, ProcType
  <2> QED
    BY <2>1, <2>2, <2>h, <1>6 DEF ShellStarts, TypeOK, ConnsTyped, ProcsTyped
<1>7. CASE ShellFails(p)
  <2>1. P.key \in SessionIds
    BY <1>p, <1>7 DEF ShellFails, At, UsePcs
  <2>2. ProcsTyped'
    BY <1>7, <1>p, <2>1, 2 \in 0..2, CallDeleteType DEF ShellFails
  <2> QED
    BY <2>2, <1>7 DEF ShellFails, TypeOK, ProcsTyped
<1>8. CASE WaitReturns(p)
  <2>1. P.key \in SessionIds
    BY <1>p, <1>8 DEF WaitReturns, At, UsePcs
  <2>2. ProcsTyped'
    BY <1>8, <1>p, <2>1, {1, 2} \subseteq 0..2, CallDeleteType DEF WaitReturns
  <2>3. ConnsTyped'
    BY <1>8, <1>t DEF WaitReturns, At, UsePcs
  <2> QED
    BY <2>2, <2>3, <1>8 DEF WaitReturns, TypeOK, ConnsTyped, ProcsTyped
<1>9. CASE WindowChange(p)
  <2>1. P.key \in SessionIds
    BY <1>p, <1>9 DEF WindowChange, At, UsePcs
  <2>2. ProcsTyped'
    BY <1>9, <1>p, <1>i, <2>1, 0 \in 0..2, CallDeleteType, SetProc DEF WindowChange
  <2> QED
    BY <2>2, <1>9 DEF WindowChange, TypeOK, ProcsTyped
<1>10. CASE ShellAsks(p) \/ ShellGranted(p)
  <2>h. P.held \in Conns /\ P.key \in SessionIds
    BY <1>p, <1>10 DEF ShellAsks, ShellGranted, At, UsePcs
  <2>1. PICK pc \in {"ask", "start"} : Goto(p, pc)
    BY <1>10 DEF ShellAsks, ShellGranted
  <2>d. [P EXCEPT !.pc = pc] \in ProcType
    BY <1>p DEF ProcType, UsePcs
  <2>2. ProcsTyped'
    BY <2>1, <1>p, <2>h, <2>d, SetProc DEF Goto, UsePcs, ProcType
  <2> QED
    BY <2>2, <1>10 DEF ShellAsks, ShellGranted, TypeOK, ProcsTyped
<1>11. CASE WaitHangs(p)
  <2>1. ConnsTyped'
    BY <1>11, <1>t DEF WaitHangs, At, UsePcs
  <2> QED
    BY <2>1, <1>11 DEF WaitHangs, TypeOK, ConnsTyped
<1> QED
  BY <1>1, <1>2, <1>3, <1>4, <1>5, <1>6, <1>7, <1>8, <1>9, <1>10, <1>11 DEF Connect, Step

\* The end of DeleteOnlineClient, whatever is done to the map.
LEMMA ReturnType ==
  ASSUME TypeOK, NEW p \in Procs, proc[p].pc \in ClosePcs \cup {"load"}, Return(p)
  PROVE  ConnsTyped' /\ ProcsTyped' /\ wsOpen' \subseteq Handlers
<1> DEFINE P == proc[p]
           C == conn[P.held]
<1>p. /\ P \in ProcType /\ ProcsTyped /\ ConnsTyped
      /\ P.pc \in UsePcs => P.held \in Conns /\ P.key \in SessionIds
      /\ P.pc \in UsePcs => C \in ConnType
      /\ P.pc = "load" => P.key \in SessionIds
  BY DEF TypeOK, ProcsTyped, ConnsTyped, Procs
<1>i. IdleProc \in ProcType /\ IdleProc.pc = "idle" /\ "idle" \notin UsePcs \cup {"load"}
  BY DEF IdleProc, ProcType, UsePcs, ClosePcs
<1>k. P.key \in SessionIds
  BY <1>p DEF UsePcs
<1>1. CASE P.left > 0
  <2>1. P.left - 1 \in 0..2
    BY <1>p, <1>1 DEF ProcType
  <2>2. CallDelete(p, P.left - 1) /\ UNCHANGED <<conn, wsOpen>>
    BY <1>1 DEF Return
  <2>3. ProcsTyped'
    BY <2>1, <2>2, <1>k, <1>p, CallDeleteType
  <2> QED
    BY <2>2, <2>3, <1>p DEF ConnsTyped, TypeOK
<1>2. CASE ~(P.left > 0)
  <2>1. Finish(p)
    BY <1>2 DEF Return
  <2>2. ProcsTyped'
    BY <2>1, <1>p, <1>i, SetProc DEF Finish
  <2>3. ASSUME NEW c \in Conns
        PROVE  [conn[c] EXCEPT !.ws = NoWs] \in ConnType /\ conn[c] \in ConnType
    BY <1>p DEF ConnsTyped, ConnType
  <2>4. ConnsTyped'
    BY <2>1, <2>3 DEF Finish, ConnsTyped
  <2> QED
    BY <2>1, <2>2, <2>4 DEF Finish, TypeOK
<1> QED
  BY <1>1, <1>2

\* So is every step of DeleteOnlineClient.
LEMMA DeleteType ==
  ASSUME TypeOK, NEW p \in Procs, DeleteOnlineClient(p)
  PROVE  TypeOK'
<1> DEFINE P == proc[p]
           C == conn[P.held]
<1>p. /\ P \in ProcType /\ ProcsTyped /\ ConnsTyped
      /\ P.pc \in UsePcs => P.held \in Conns /\ P.key \in SessionIds
      /\ P.pc \in UsePcs => C \in ConnType
      /\ P.pc = "load" => P.key \in SessionIds
  BY DEF TypeOK, ProcsTyped, ConnsTyped, Procs
<1>i. IdleProc \in ProcType /\ IdleProc.pc = "idle" /\ "idle" \notin UsePcs \cup {"load"}
  BY DEF IdleProc, ProcType, UsePcs, ClosePcs
<1>1. CASE DelLoad(p)
  <2>1. CASE online[P.key] = NoConn
    <3>1. Return(p) /\ P.pc = "load"
      BY <1>1, <2>1 DEF DelLoad, At
    <3> QED
      BY <1>1, <3>1, ReturnType DEF DelLoad, TypeOK, ConnsTyped, ProcsTyped
  <2>2. CASE online[P.key] # NoConn
    <3> DEFINE r == [P EXCEPT !.pc = "closeWs", !.held = online[P.key]]
    <3>1. P.key \in SessionIds /\ online[P.key] \in Conns
      BY <1>1, <1>p, <2>2 DEF DelLoad, At, TypeOK
    <3>2. r \in ProcType
      BY <1>p, <3>1 DEF ProcType, UsePcs, ClosePcs
    <3>3. r.held \in Conns /\ r.key \in SessionIds
      BY <1>p, <3>1 DEF ProcType
    <3>4. proc' = [proc EXCEPT ![p] = r]
      BY <1>1, <2>2 DEF DelLoad
    <3>5. ProcsTyped'
      BY <3>4, <1>p, <3>2, <3>3, SetProc
    <3> QED
      BY <1>1, <2>2, <3>5 DEF DelLoad, TypeOK, ConnsTyped, ProcsTyped
  <2> QED
    BY <2>1, <2>2
<1>2. CASE DelCloseWs(p)
  <2>h. P.held \in Conns /\ P.key \in SessionIds /\ C \in ConnType
    BY <1>p, <1>2 DEF DelCloseWs, At, UsePcs, ClosePcs
  <2>1. ConnsTyped'
    BY <1>p, <1>2 DEF DelCloseWs, ConnsTyped
  <2>d. [P EXCEPT !.pc = "closeSession"] \in ProcType
    BY <1>p DEF ProcType, UsePcs, ClosePcs
  <2>2. ProcsTyped'
    BY <1>2, <1>p, <2>h, <2>d, SetProc DEF DelCloseWs, Goto, ProcType
  <2> QED
    BY <2>1, <2>2, <1>2 DEF DelCloseWs, TypeOK, ConnsTyped, ProcsTyped
<1>3. CASE DelCloseSession(p)
  <2>h. P.held \in Conns /\ P.key \in SessionIds /\ C \in ConnType
    BY <1>p, <1>3 DEF DelCloseSession, At, UsePcs, ClosePcs
  <2>c. [C EXCEPT !.session = "closed"] \in ConnType
    BY <2>h DEF ConnType, Resource
  <2>1. ConnsTyped'
    BY <1>3, <1>p, <2>h, <2>c, SetConn DEF DelCloseSession
  <2>d. [P EXCEPT !.pc = "closeSftp"] \in ProcType
    BY <1>p DEF ProcType, UsePcs, ClosePcs
  <2>2. ProcsTyped'
    BY <1>3, <1>p, <2>h, <2>d, SetProc DEF DelCloseSession, Goto, ProcType
  <2> QED
    BY <2>1, <2>2, <1>3 DEF DelCloseSession, TypeOK, ConnsTyped, ProcsTyped
<1>4. CASE DelCloseSftp(p)
  <2>h. P.held \in Conns /\ P.key \in SessionIds /\ C \in ConnType
    BY <1>p, <1>4 DEF DelCloseSftp, At, UsePcs, ClosePcs
  <2>c. [C EXCEPT !.sftp = IF @ = "nil" THEN "nil" ELSE "closed"] \in ConnType
    BY <2>h DEF ConnType, Resource
  <2>1. ConnsTyped'
    BY <1>4, <1>p, <2>h, <2>c, SetConn DEF DelCloseSftp
  <2>d. [P EXCEPT !.pc = "closeClient"] \in ProcType
    BY <1>p DEF ProcType, UsePcs, ClosePcs
  <2>2. ProcsTyped'
    BY <1>4, <1>p, <2>h, <2>d, SetProc DEF DelCloseSftp, Goto, ProcType
  <2> QED
    BY <2>1, <2>2, <1>4 DEF DelCloseSftp, TypeOK, ConnsTyped, ProcsTyped
<1>5. CASE DelCloseClient(p)
  <2>h. P.held \in Conns /\ P.key \in SessionIds /\ C \in ConnType
    BY <1>p, <1>5 DEF DelCloseClient, At, UsePcs, ClosePcs
  <2>c. [C EXCEPT !.client = "closed", !.alive = FALSE, !.hung = FALSE] \in ConnType
    BY <2>h DEF ConnType, Resource
  <2>1. ConnsTyped'
    BY <1>5, <1>p, <2>h, <2>c, SetConn DEF DelCloseClient
  <2>d. [P EXCEPT !.pc = "remove"] \in ProcType
    BY <1>p DEF ProcType, UsePcs, ClosePcs
  <2>2. ProcsTyped'
    BY <1>5, <1>p, <2>h, <2>d, SetProc DEF DelCloseClient, Goto, ProcType
  <2> QED
    BY <2>1, <2>2, <1>5 DEF DelCloseClient, TypeOK, ConnsTyped, ProcsTyped
<1>6. CASE DelRemove(p)
  <2>1. Return(p) /\ P.pc \in ClosePcs
    BY <1>6 DEF DelRemove, At, ClosePcs
  <2>2. online' \in [SessionIds -> Conns \cup {NoConn}]
    BY <1>6 DEF DelRemove, TypeOK
  <2> QED
    BY <1>6, <2>1, <2>2, ReturnType DEF DelRemove, TypeOK, ConnsTyped, ProcsTyped
<1> QED
  BY <1>1, <1>2, <1>3, <1>4, <1>5, <1>6 DEF DeleteOnlineClient

\* So is the start of every request.
LEMMA RequestType ==
  ASSUME TypeOK, NEW p \in Handlers, NEW id \in SessionIds, Request(p, id)
  PROVE  TypeOK'
<1> DEFINE rec(pc, c, n) == [pc |-> pc, key |-> id, held |-> c, left |-> n]
<1>p. /\ p \in Procs /\ ProcsTyped /\ ConnsTyped
      /\ online[id] \in Conns \cup {NoConn}
  BY DEF TypeOK, ProcsTyped, ConnsTyped, Procs
<1>1. ASSUME NEW pc \in {"idle", "load"} \cup UsePcs, NEW c \in Conns \cup {NoConn},
             NEW n \in {0, 1}, pc \in UsePcs => c \in Conns,
             proc' = [proc EXCEPT ![p] = rec(pc, c, n)]
      PROVE  ProcsTyped'
  <2>1. rec(pc, c, n) \in ProcType
    BY DEF ProcType
  <2> QED
    BY <1>1, <1>p, <2>1, SetProc
<1>2. /\ {"connect", "attach", "resize"} \subseteq UsePcs
      /\ "load" \notin UsePcs
  BY DEF UsePcs, ClosePcs
<1>3. ASSUME NEW c \in Conns, CreateSessionId(p, id, c)
      PROVE  TypeOK'
  <2>1. [conn[c] EXCEPT !.id = id, !.stage = "dialing"] \in ConnType
    BY <1>p DEF ConnsTyped, ConnType
  <2>2. ConnsTyped'
    BY <1>3, <1>p, <2>1, SetConn DEF CreateSessionId
  <2>3. ProcsTyped'
    BY <1>3, <1>1, <1>2 DEF CreateSessionId
  <2> QED
    BY <1>3, <2>2, <2>3 DEF CreateSessionId, TypeOK, ConnsTyped, ProcsTyped
<1>4. CASE NewSshConnBadWindow(p, id)
  BY <1>4, <1>1, <1>2 DEF NewSshConnBadWindow, Terminal, TypeOK, ProcsTyped
<1>5. CASE NewSshConn(p, id)
  BY <1>5, <1>1, <1>2, <1>p DEF NewSshConn, Terminal, TypeOK, ProcsTyped
<1>6. CASE Disconnect(p, id)
  BY <1>6, <1>1, <1>2 DEF Disconnect, TypeOK, ProcsTyped
<1>7. CASE ResizeWindow(p, id)
  BY <1>7, <1>1, <1>2, <1>p DEF ResizeWindow, TypeOK, ProcsTyped
<1> QED
  BY <1>3, <1>4, <1>5, <1>6, <1>7 DEF Request

\* A step that touches only the flags of one object.
LEMMA FlagType ==
  ASSUME TypeOK, NEW c \in Conns, NEW b \in BOOLEAN,
         UNCHANGED <<online, proc, wsOpen, todo>>,
         \/ conn' = [conn EXCEPT ![c] = [conn[c] EXCEPT !.alive = b, !.hung = b]]
         \/ conn' = [conn EXCEPT ![c].hung = b]
         \/ conn' = [conn EXCEPT ![c].stale = b]
  PROVE  TypeOK'
<1>c. conn[c] \in ConnType
  BY DEF TypeOK
<1>1. /\ [conn[c] EXCEPT !.alive = b, !.hung = b] \in ConnType
      /\ [conn[c] EXCEPT !.hung = b] \in ConnType
      /\ [conn[c] EXCEPT !.stale = b] \in ConnType
  BY <1>c DEF ConnType
<1>2. ConnsTyped'
  BY <1>1, SetConn DEF TypeOK, ConnsTyped
<1> QED
  BY <1>2 DEF TypeOK, ConnsTyped

\* So is every step of the cleaning loop.
LEMMA CleanType ==
  ASSUME TypeOK, CleanRange \/ (\E id \in SessionIds : CleanCheck(id))
  PROVE  TypeOK'
<1>1. CASE CleanRange
  BY <1>1 DEF CleanRange, TypeOK
<1>2. ASSUME NEW id \in SessionIds, CleanCheck(id)
      PROVE  TypeOK'
  <2> DEFINE r == IF Inactive(id)
                  THEN [pc |-> "load", key |-> id, held |-> NoConn, left |-> 0]
                  ELSE IdleProc
  <2>1. r \in ProcType /\ r.pc \notin UsePcs /\ (r.pc = "load" => r.key \in SessionIds)
    BY DEF ProcType, IdleProc, UsePcs, ClosePcs
  <2>2. Cleaner \in Procs /\ ProcsTyped
    BY DEF Procs, TypeOK, ProcsTyped
  <2>3. proc' = [proc EXCEPT ![Cleaner] = r]
    BY <1>2 DEF CleanCheck
  <2>4. ProcsTyped'
    BY <2>1, <2>2, <2>3, SetProc
  <2> QED
    BY <1>2, <2>4 DEF CleanCheck, TypeOK, ProcsTyped
<1> QED
  BY <1>1, <1>2

\* Every step keeps the types.
LEMMA NextType == TypeOK /\ [Next]_vars => TypeOK'
<1> SUFFICES ASSUME TypeOK, [Next]_vars
             PROVE  TypeOK'
  OBVIOUS
<1>1. ASSUME NEW p \in Handlers, Connect(p) \/ Step(p)
      PROVE  TypeOK'
  BY <1>1, StepType, DeleteType DEF Procs
<1>2. ASSUME NEW p \in Handlers, NEW id \in SessionIds, Request(p, id)
      PROVE  TypeOK'
  BY <1>2, RequestType
<1>3. CASE CleanerStep
  BY <1>3, CleanType, DeleteType DEF CleanerStep, Procs
<1>4. ASSUME NEW id \in SessionIds, RefreshConnTime(id)
      PROVE  TypeOK'
  <2>1. online[id] \in Conns
    BY <1>4 DEF RefreshConnTime, TypeOK
  <2> QED
    BY <1>4, <2>1, FlagType DEF RefreshConnTime
<1>5. ASSUME NEW c \in Conns, RemoteEnds(c) \/ HostHangs(c) \/ Expire(c)
      PROVE  TypeOK'
  BY <1>5, FlagType DEF RemoteEnds, HostHangs, Expire
<1>6. CASE UNCHANGED vars
  BY <1>6 DEF vars, TypeOK
<1> QED
  BY <1>1, <1>2, <1>3, <1>4, <1>5, <1>6 DEF Next

\* The nil checks and types hold for any number of sessions and handlers.
THEOREM TypeCorrect == Spec => []TypeOK
  BY InitType, NextType, PTL DEF Spec

-----------------------------------------------------------------------------
(***************************************************************************)
(* The inductive invariant.                                                 *)
(***************************************************************************)

\* The fields of an SshConn the invariant speaks of.
SameConn(c) ==
    /\ conn'[c].id = conn[c].id
    /\ conn'[c].stage = conn[c].stage
    /\ conn'[c].client = conn[c].client
    /\ conn'[c].session = conn[c].session
    /\ conn'[c].sftp = conn[c].sftp

\* A step on one object whose new record keeps them.
LEMMA OneSame ==
  ASSUME TypeOK, NEW c \in Conns, NEW r, conn' = [conn EXCEPT ![c] = r],
         r.id = conn[c].id, r.stage = conn[c].stage, r.client = conn[c].client,
         r.session = conn[c].session, r.sftp = conn[c].sftp
  PROVE  \A d \in Conns : SameConn(d)
<1>1. \A d \in Conns : conn'[d] = IF d = c THEN r ELSE conn[d]
  BY DEF TypeOK
<1> QED
  BY <1>1 DEF SameConn

\* The host and the clock leave them alone.
LEMMA EnvironmentSame ==
  ASSUME TypeOK, NEW c \in Conns, RemoteEnds(c) \/ HostHangs(c) \/ Expire(c)
  PROVE  \A d \in Conns : SameConn(d)
<1>c. conn[c] \in ConnType
  BY DEF TypeOK
<1>1. CASE RemoteEnds(c)
  <2> DEFINE r == [conn[c] EXCEPT !.alive = FALSE, !.hung = FALSE]
  <2>1. conn' = [conn EXCEPT ![c] = r]
    BY <1>1 DEF RemoteEnds
  <2>2. /\ r.id = conn[c].id /\ r.stage = conn[c].stage /\ r.client = conn[c].client
        /\ r.session = conn[c].session /\ r.sftp = conn[c].sftp
    BY <1>c DEF ConnType
  <2> QED
    BY <2>1, <2>2, OneSame
<1>2. CASE HostHangs(c)
  <2> DEFINE r == [conn[c] EXCEPT !.hung = ~conn[c].hung]
  <2>1. conn' = [conn EXCEPT ![c] = r]
    BY <1>2 DEF HostHangs
  <2>2. /\ r.id = conn[c].id /\ r.stage = conn[c].stage /\ r.client = conn[c].client
        /\ r.session = conn[c].session /\ r.sftp = conn[c].sftp
    BY <1>c DEF ConnType
  <2> QED
    BY <2>1, <2>2, OneSame
<1>3. CASE Expire(c)
  <2> DEFINE r == [conn[c] EXCEPT !.stale = TRUE]
  <2>1. conn' = [conn EXCEPT ![c] = r]
    BY <1>3 DEF Expire
  <2>2. /\ r.id = conn[c].id /\ r.stage = conn[c].stage /\ r.client = conn[c].client
        /\ r.session = conn[c].session /\ r.sftp = conn[c].sftp
    BY <1>c DEF ConnType
  <2> QED
    BY <2>1, <2>2, OneSame
<1> QED
  BY <1>1, <1>2, <1>3

\* So does the start of a shell.
LEMMA StartSame ==
  ASSUME TypeOK, NEW p \in Procs, ShellStarts(p)
  PROVE  \A d \in Conns : SameConn(d)
<1> DEFINE C == conn[proc[p].held]
           r == [C EXCEPT !.started = TRUE, !.twice = C.twice \/ C.started]
<1>1. proc[p].held \in Conns /\ C \in ConnType
  BY DEF ShellStarts, At, TypeOK, UsePcs
<1>2. conn' = [conn EXCEPT ![proc[p].held] = r]
  BY DEF ShellStarts, Held
<1>3. /\ r.id = C.id /\ r.stage = C.stage /\ r.client = C.client
      /\ r.session = C.session /\ r.sftp = C.sftp
  BY <1>1 DEF ConnType
<1> QED
  BY <1>1, <1>2, <1>3, OneSame

\* A step that leaves the map and those fields alone, and moves processes only
\* between places the invariant says nothing about.
LEMMA Frame ==
  ASSUME IInv, TypeOK', online' = online,
         \A c \in Conns : SameConn(c),
         \A q \in Procs :
            \/ proc'[q] = proc[q]
            \/ /\ proc[q].pc # "remove"
               /\ proc'[q].pc \notin ClosePcs \cup {"connect", "store"}
  PROVE  IInv'
<1> USE DEF IInv, SameConn, At, Held
<1>1. RegisteredOK'
  BY DEF RegisteredOK, TypeOK
<1>2. DeletersOK'
  BY DEF DeletersOK, TypeOK, UsePcs
<1>3. CreatorsOK'
  BY DEF CreatorsOK, TypeOK, UsePcs
<1>4. ReadyIsOpen'
  BY DEF ReadyIsOpen
<1>5. ClosedIsBeingRemoved'
  BY DEF ClosedIsBeingRemoved, TypeOK
<1>6. OrphanOnlyByReuse'
  BY DEF OrphanOnlyByReuse, Registered, Released
<1> QED
  BY <1>1, <1>2, <1>3, <1>4, <1>5, <1>6

\* connect fails before anything is open.
LEMMA ConnectFailsInv ==
  ASSUME IInv, TypeOK', NEW p \in Procs, ConnectFails(p)
  PROVE  IInv'
<1>f0. proc[p].held \in Conns /\ conn[proc[p].held].stage = "dialing" /\ proc[p].pc = "connect"
  BY DEF IInv, TypeOK, UsePcs, CreatorsOK, ConnectFails, At, Held
<1>f1. /\ \A c \in Conns \ {proc[p].held} : conn'[c] = conn[c]
      /\ conn'[proc[p].held].stage = "new"
      /\ online' = online
  BY DEF ConnectFails, NewConn, IInv, TypeOK
<1>f2. /\ \A q \in Procs \ {p} : proc'[q] = proc[q]
      /\ proc'[p].pc = "idle"
  BY DEF ConnectFails, IdleProc, IInv, TypeOK
<1>f3. "idle" \notin ClosePcs /\ "connect" \notin ClosePcs
  BY DEF ClosePcs
<1> USE <1>f0, <1>f1, <1>f2, <1>f3 DEF IInv, At, Held, TypeOK
<1>1. RegisteredOK'
  BY DEF RegisteredOK
<1>2. DeletersOK'
  BY DEF DeletersOK, UsePcs
<1>3. CreatorsOK'
  BY DEF CreatorsOK, UsePcs
<1>4. ReadyIsOpen'
  BY DEF ReadyIsOpen
<1>5. ClosedIsBeingRemoved'
  BY DEF ClosedIsBeingRemoved, RegisteredOK
<1>6. OrphanOnlyByReuse'
  BY DEF OrphanOnlyByReuse, Registered, Released, RegisteredOK
<1> QED
  BY <1>1, <1>2, <1>3, <1>4, <1>5, <1>6

\* connect fails after the client was dialled.
LEMMA NewSessionFailsInv ==
  ASSUME IInv, TypeOK', NEW p \in Procs, NewSessionFails(p)
  PROVE  IInv'
<1>f0. proc[p].held \in Conns /\ conn[proc[p].held].stage = "dialing" /\ proc[p].pc = "connect"
  BY DEF IInv, TypeOK, UsePcs, CreatorsOK, NewSessionFails, At, Held
<1>f1. /\ \A c \in Conns \ {proc[p].held} : conn'[c] = conn[c]
      /\ conn'[proc[p].held].stage = "failed"
      /\ online' = online
  BY DEF NewSessionFails, IInv, TypeOK, ConnType
<1>f2. /\ \A q \in Procs \ {p} : proc'[q] = proc[q]
      /\ proc'[p].pc = "idle"
  BY DEF NewSessionFails, IdleProc, IInv, TypeOK
<1>f3. "idle" \notin ClosePcs /\ "connect" \notin ClosePcs
  BY DEF ClosePcs
<1> USE <1>f0, <1>f1, <1>f2, <1>f3 DEF IInv, At, Held, TypeOK
<1>1. RegisteredOK'
  BY DEF RegisteredOK
<1>2. DeletersOK'
  BY DEF DeletersOK, UsePcs
<1>3. CreatorsOK'
  BY DEF CreatorsOK, UsePcs
<1>4. ReadyIsOpen'
  BY DEF ReadyIsOpen
<1>5. ClosedIsBeingRemoved'
  BY DEF ClosedIsBeingRemoved, RegisteredOK
<1>6. OrphanOnlyByReuse'
  BY DEF OrphanOnlyByReuse, Registered, Released, RegisteredOK
<1> QED
  BY <1>1, <1>2, <1>3, <1>4, <1>5, <1>6

\* The object connect leaves behind, as one record.
LEMMA ConnectedConn ==
  ASSUME NEW p, Connected(p)
  PROVE  \E sftp \in {"nil", "open"} :
            conn' = [conn EXCEPT ![proc[p].held] =
              [conn[proc[p].held] EXCEPT !.stage = "ready", !.client = "open",
                  !.sftp = sftp, !.session = "open", !.alive = TRUE]]
  BY SftpAssumption DEF Connected

\* connect succeeds.
LEMMA ConnectedInv ==
  ASSUME IInv, TypeOK', NEW p \in Procs, Connected(p)
  PROVE  IInv'
<1>f0. proc[p].held \in Conns /\ conn[proc[p].held].stage = "dialing" /\ proc[p].pc = "connect"
  BY DEF IInv, TypeOK, UsePcs, CreatorsOK, Connected, At, Held
<1>f1. /\ \A c \in Conns \ {proc[p].held} : conn'[c] = conn[c]
      /\ conn'[proc[p].held].stage = "ready" /\ conn'[proc[p].held].client = "open"
      /\ conn'[proc[p].held].id = conn[proc[p].held].id
      /\ online' = online
  <2>1. PICK sftp \in {"nil", "open"} :
          conn' = [conn EXCEPT ![proc[p].held] =
            [conn[proc[p].held] EXCEPT !.stage = "ready", !.client = "open",
                !.sftp = sftp, !.session = "open", !.alive = TRUE]]
    BY ConnectedConn
  <2>2. conn[proc[p].held] \in ConnType
    BY <1>f0 DEF IInv, TypeOK
  <2>3. /\ \A c \in Conns \ {proc[p].held} : conn'[c] = conn[c]
        /\ conn'[proc[p].held] =
            [conn[proc[p].held] EXCEPT !.stage = "ready", !.client = "open",
                !.sftp = sftp, !.session = "open", !.alive = TRUE]
    BY <1>f0, <2>1 DEF IInv, TypeOK
  <2> QED
    BY <2>2, <2>3 DEF Connected, ConnType
<1>f2. /\ \A q \in Procs \ {p} : proc'[q] = proc[q]
      /\ proc'[p].pc = "store" /\ proc'[p].held = proc[p].held /\ proc'[p].key = proc[p].key
  BY DEF Connected, Goto, IInv, TypeOK, ProcType
<1>f3. "store" \notin ClosePcs /\ "connect" \notin ClosePcs
  BY DEF ClosePcs
<1> USE <1>f0, <1>f1, <1>f2, <1>f3 DEF IInv, At, Held, TypeOK
<1>1. RegisteredOK'
  BY DEF RegisteredOK
<1>2. DeletersOK'
  BY DEF DeletersOK, UsePcs
<1>3. CreatorsOK'
  BY DEF CreatorsOK, UsePcs
<1>4. ReadyIsOpen'
  BY DEF ReadyIsOpen
<1>5. ClosedIsBeingRemoved'
  BY DEF ClosedIsBeingRemoved, RegisteredOK
<1>6. OrphanOnlyByReuse'
  BY DEF OrphanOnlyByReuse, Registered, Released, RegisteredOK
<1> QED
  BY <1>1, <1>2, <1>3, <1>4, <1>5, <1>6

\* Store replaces an entry: the object it replaces gets a twin.
LEMMA StoreInv ==
  ASSUME IInv, TypeOK', NEW p \in Procs, Store(p)
  PROVE  IInv'
<1>f0. /\ proc[p].held \in Conns /\ conn[proc[p].held].stage = "ready" /\ proc[p].pc = "store"
      /\ proc[p].key \in SessionIds /\ conn[proc[p].held].id = proc[p].key
      /\ conn[proc[p].held].client = "open"
  BY DEF IInv, TypeOK, UsePcs, CreatorsOK, ReadyIsOpen, Store, At, Held
<1>f1. /\ \A c \in Conns \ {proc[p].held} : conn'[c] = conn[c]
      /\ conn'[proc[p].held].stage = "stored" /\ conn'[proc[p].held].client = "open"
      /\ conn'[proc[p].held].id = proc[p].key
  BY <1>f0 DEF Store, IInv, TypeOK, ConnType
<1>f2. /\ online'[proc[p].key] = proc[p].held
      /\ \A id \in SessionIds \ {proc[p].key} : online'[id] = online[id]
  BY <1>f0 DEF Store, StoreOver, IInv, TypeOK
<1>f3. /\ \A q \in Procs \ {p} : proc'[q] = proc[q]
      /\ proc'[p].pc = "idle"
  BY DEF Store, IdleProc, IInv, TypeOK
<1>f4. "idle" \notin ClosePcs /\ "store" \notin ClosePcs /\ proc[p].held # NoConn
  BY <1>f0, NullAssumption DEF ClosePcs
<1> USE <1>f0, <1>f1, <1>f2, <1>f3, <1>f4 DEF IInv, At, Held, TypeOK
<1>1. RegisteredOK'
  BY DEF RegisteredOK
<1>2. DeletersOK'
  BY DEF DeletersOK, UsePcs
<1>3. CreatorsOK'
  BY DEF CreatorsOK, UsePcs
<1>4. ReadyIsOpen'
  BY DEF ReadyIsOpen
<1>5. ClosedIsBeingRemoved'
  BY DEF ClosedIsBeingRemoved, RegisteredOK
<1>6. OrphanOnlyByReuse'
  <2> SUFFICES ASSUME NEW c \in Conns, conn'[c].stage = "stored",
                      ~Registered(c)', ~Released(c)'
               PROVE  \E d \in Conns \ {c} : /\ conn'[d].id = conn'[c].id
                                              /\ conn'[d].stage = "stored"
    BY DEF OrphanOnlyByReuse
  <2>1. c # proc[p].held
    BY DEF Registered
  <2>2. CASE Registered(c)
    <3>1. online[proc[p].key] = c /\ conn[c].id = proc[p].key
      BY <2>2, NullAssumption DEF Registered, RegisteredOK
    <3> QED
      BY <2>1, <3>1
  <2>3. CASE ~Registered(c)
    <3>1. conn[c].stage = "stored" /\ ~Released(c)
      BY <2>1 DEF Released
    <3>2. PICK d \in Conns \ {c} : conn[d].id = conn[c].id /\ conn[d].stage = "stored"
      BY <2>3, <3>1 DEF OrphanOnlyByReuse
    <3> QED
      BY <2>1, <3>2
  <2> QED
    BY <2>2, <2>3
<1> QED
  BY <1>1, <1>2, <1>3, <1>4, <1>5, <1>6

\* A request takes an unused object.
LEMMA CreateInv ==
  ASSUME IInv, TypeOK', NEW p \in Procs, NEW id \in SessionIds, NEW c \in Conns,
         CreateSessionId(p, id, c)
  PROVE  IInv'
<1>f0. conn[c].stage = "new" /\ proc[p].pc = "idle"
  BY DEF CreateSessionId, At
<1>f1. /\ \A d \in Conns \ {c} : conn'[d] = conn[d]
      /\ conn'[c].stage = "dialing" /\ conn'[c].id = id
      /\ online' = online
  BY DEF CreateSessionId, IInv, TypeOK, ConnType
<1>f2. /\ \A q \in Procs \ {p} : proc'[q] = proc[q]
      /\ proc'[p].pc = "connect" /\ proc'[p].held = c /\ proc'[p].key = id
  BY DEF CreateSessionId, IInv, TypeOK
<1>f3. "idle" \notin ClosePcs /\ "connect" \notin ClosePcs
  BY DEF ClosePcs
<1> USE <1>f0, <1>f1, <1>f2, <1>f3 DEF IInv, At, Held, TypeOK
<1>1. RegisteredOK'
  BY DEF RegisteredOK
<1>2. DeletersOK'
  BY DEF DeletersOK, UsePcs
<1>3. CreatorsOK'
  BY DEF CreatorsOK, UsePcs
<1>4. ReadyIsOpen'
  BY DEF ReadyIsOpen
<1>5. ClosedIsBeingRemoved'
  BY DEF ClosedIsBeingRemoved, RegisteredOK
<1>6. OrphanOnlyByReuse'
  BY DEF OrphanOnlyByReuse, Registered, Released, RegisteredOK
<1> QED
  BY <1>1, <1>2, <1>3, <1>4, <1>5, <1>6

\* DelLoad finds an object: it is stored, under the key.
LEMMA DelFoundInv ==
  ASSUME IInv, TypeOK', NEW p \in Procs, DelLoad(p), online[proc[p].key] # NoConn
  PROVE  IInv'
<1>f0. /\ proc[p].pc = "load" /\ proc[p].key \in SessionIds
       /\ online[proc[p].key] \in Conns
       /\ conn[online[proc[p].key]].stage = "stored"
       /\ conn[online[proc[p].key]].id = proc[p].key
  BY DEF DelLoad, At, IInv, TypeOK, RegisteredOK
<1>f1. conn' = conn /\ online' = online
  BY DEF DelLoad
<1>f2. /\ \A q \in Procs \ {p} : proc'[q] = proc[q]
       /\ proc'[p].pc = "closeWs" /\ proc'[p].held = online[proc[p].key]
       /\ proc'[p].key = proc[p].key
  BY DEF DelLoad, IInv, TypeOK, ProcType
<1> USE <1>f0, <1>f1, <1>f2 DEF IInv, At, Held, TypeOK
<1>1. RegisteredOK'
  BY DEF RegisteredOK
<1>2. DeletersOK'
  BY DEF DeletersOK, UsePcs
<1>3. CreatorsOK'
  BY DEF CreatorsOK, UsePcs
<1>4. ReadyIsOpen'
  BY DEF ReadyIsOpen
<1>5. ClosedIsBeingRemoved'
  BY DEF ClosedIsBeingRemoved, RegisteredOK
<1>6. OrphanOnlyByReuse'
  BY DEF OrphanOnlyByReuse, Registered, Released, RegisteredOK
<1> QED
  BY <1>1, <1>2, <1>3, <1>4, <1>5, <1>6

\* Closing the websocket.
LEMMA CloseWsInv ==
  ASSUME IInv, TypeOK', NEW p \in Procs, DelCloseWs(p)
  PROVE  IInv'
<1>f0. /\ proc[p].held \in Conns /\ conn[proc[p].held].stage = "stored" /\ proc[p].pc = "closeWs"
      /\ conn[proc[p].held].id = proc[p].key /\ conn[proc[p].held] \in ConnType
  BY DEF IInv, TypeOK, UsePcs, ClosePcs, DeletersOK, DelCloseWs, At, Held
<1>f1. conn' = conn /\ online' = online
  BY DEF DelCloseWs
<1>f2. /\ \A q \in Procs \ {p} : proc'[q] = proc[q]
      /\ proc'[p].pc = "closeSession" /\ proc'[p].held = proc[p].held /\ proc'[p].key = proc[p].key
  BY DEF DelCloseWs, Goto, IInv, TypeOK, ProcType
<1>f3. {"closeWs", "closeSession"} \subseteq ClosePcs
  BY DEF ClosePcs
<1> USE <1>f0, <1>f1, <1>f2, <1>f3 DEF IInv, At, Held, TypeOK
<1>1. RegisteredOK'
  BY DEF RegisteredOK
<1>2. DeletersOK'
  BY DEF DeletersOK, UsePcs
<1>3. CreatorsOK'
  BY DEF CreatorsOK, UsePcs
<1>4. ReadyIsOpen'
  BY DEF ReadyIsOpen
<1>5. ClosedIsBeingRemoved'
  BY DEF ClosedIsBeingRemoved, RegisteredOK
<1>6. OrphanOnlyByReuse'
  BY DEF OrphanOnlyByReuse, Registered, Released, RegisteredOK
<1> QED
  BY <1>1, <1>2, <1>3, <1>4, <1>5, <1>6

\* Closing the ssh session.
LEMMA CloseSessionInv ==
  ASSUME IInv, TypeOK', NEW p \in Procs, DelCloseSession(p)
  PROVE  IInv'
<1>f0. /\ proc[p].held \in Conns /\ conn[proc[p].held].stage = "stored" /\ proc[p].pc = "closeSession"
      /\ conn[proc[p].held].id = proc[p].key /\ conn[proc[p].held] \in ConnType
  BY DEF IInv, TypeOK, UsePcs, ClosePcs, DeletersOK, DelCloseSession, At, Held
<1>f1. /\ \A c \in Conns \ {proc[p].held} : conn'[c] = conn[c]
      /\ conn'[proc[p].held].id = proc[p].key /\ conn'[proc[p].held].stage = "stored"
      /\ conn'[proc[p].held].session = "closed"
      /\ conn'[proc[p].held].client = conn[proc[p].held].client
      /\ conn'[proc[p].held].sftp = conn[proc[p].held].sftp
      /\ online' = online
  BY <1>f0 DEF DelCloseSession, IInv, TypeOK, ConnType
<1>f2. /\ \A q \in Procs \ {p} : proc'[q] = proc[q]
      /\ proc'[p].pc = "closeSftp" /\ proc'[p].held = proc[p].held /\ proc'[p].key = proc[p].key
  BY DEF DelCloseSession, Goto, IInv, TypeOK, ProcType
<1>f3. {"closeSession", "closeSftp"} \subseteq ClosePcs
  BY DEF ClosePcs
<1> USE <1>f0, <1>f1, <1>f2, <1>f3 DEF IInv, At, Held, TypeOK
<1>1. RegisteredOK'
  BY DEF RegisteredOK
<1>2. DeletersOK'
  BY DEF DeletersOK, UsePcs
<1>3. CreatorsOK'
  BY DEF CreatorsOK, UsePcs
<1>4. ReadyIsOpen'
  BY DEF ReadyIsOpen
<1>5. ClosedIsBeingRemoved'
  BY DEF ClosedIsBeingRemoved, RegisteredOK
<1>6. OrphanOnlyByReuse'
  BY DEF OrphanOnlyByReuse, Registered, Released, RegisteredOK
<1> QED
  BY <1>1, <1>2, <1>3, <1>4, <1>5, <1>6

\* Closing the sftp client, which may be nil.
LEMMA CloseSftpInv ==
  ASSUME IInv, TypeOK', NEW p \in Procs, DelCloseSftp(p)
  PROVE  IInv'
<1>f0. /\ proc[p].held \in Conns /\ conn[proc[p].held].stage = "stored" /\ proc[p].pc = "closeSftp"
      /\ conn[proc[p].held].id = proc[p].key /\ conn[proc[p].held] \in ConnType
      /\ conn[proc[p].held].session = "closed"
  BY DEF IInv, TypeOK, UsePcs, ClosePcs, DeletersOK, DelCloseSftp, At, Held
<1>f1. /\ \A c \in Conns \ {proc[p].held} : conn'[c] = conn[c]
      /\ conn'[proc[p].held].id = proc[p].key /\ conn'[proc[p].held].stage = "stored"
      /\ conn'[proc[p].held].sftp # "open"
      /\ conn'[proc[p].held].client = conn[proc[p].held].client
      /\ conn'[proc[p].held].session = conn[proc[p].held].session
      /\ online' = online
  BY <1>f0 DEF DelCloseSftp, IInv, TypeOK, ConnType
<1>f2. /\ \A q \in Procs \ {p} : proc'[q] = proc[q]
      /\ proc'[p].pc = "closeClient" /\ proc'[p].held = proc[p].held /\ proc'[p].key = proc[p].key
  BY DEF DelCloseSftp, Goto, IInv, TypeOK, ProcType
<1>f3. {"closeSftp", "closeClient"} \subseteq ClosePcs
  BY DEF ClosePcs
<1> USE <1>f0, <1>f1, <1>f2, <1>f3 DEF IInv, At, Held, TypeOK
<1>1. RegisteredOK'
  BY DEF RegisteredOK
<1>2. DeletersOK'
  BY DEF DeletersOK, UsePcs
<1>3. CreatorsOK'
  BY DEF CreatorsOK, UsePcs
<1>4. ReadyIsOpen'
  BY DEF ReadyIsOpen
<1>5. ClosedIsBeingRemoved'
  BY DEF ClosedIsBeingRemoved, RegisteredOK
<1>6. OrphanOnlyByReuse'
  BY DEF OrphanOnlyByReuse, Registered, Released, RegisteredOK
<1> QED
  BY <1>1, <1>2, <1>3, <1>4, <1>5, <1>6

\* Closing the ssh client: the closer becomes the witness of ClosedIsBeingRemoved.
LEMMA CloseClientInv ==
  ASSUME IInv, TypeOK', NEW p \in Procs, DelCloseClient(p)
  PROVE  IInv'
<1>f0. /\ proc[p].held \in Conns /\ conn[proc[p].held].stage = "stored" /\ proc[p].pc = "closeClient"
      /\ conn[proc[p].held].id = proc[p].key /\ conn[proc[p].held] \in ConnType
      /\ conn[proc[p].held].session = "closed"
      /\ conn[proc[p].held].sftp # "open"
  BY DEF IInv, TypeOK, UsePcs, ClosePcs, DeletersOK, DelCloseClient, At, Held
<1>f1. /\ \A c \in Conns \ {proc[p].held} : conn'[c] = conn[c]
      /\ conn'[proc[p].held].id = proc[p].key /\ conn'[proc[p].held].stage = "stored"
      /\ conn'[proc[p].held].client = "closed"
      /\ conn'[proc[p].held].session = conn[proc[p].held].session
      /\ conn'[proc[p].held].sftp = conn[proc[p].held].sftp
      /\ online' = online
  BY <1>f0 DEF DelCloseClient, IInv, TypeOK, ConnType
<1>f2. /\ \A q \in Procs \ {p} : proc'[q] = proc[q]
      /\ proc'[p].pc = "remove" /\ proc'[p].held = proc[p].held /\ proc'[p].key = proc[p].key
  BY DEF DelCloseClient, Goto, IInv, TypeOK, ProcType
<1>f3. {"closeClient", "remove"} \subseteq ClosePcs
  BY DEF ClosePcs
<1> USE <1>f0, <1>f1, <1>f2, <1>f3 DEF IInv, At, Held, TypeOK
<1>1. RegisteredOK'
  BY DEF RegisteredOK
<1>2. DeletersOK'
  BY DEF DeletersOK, UsePcs
<1>3. CreatorsOK'
  BY DEF CreatorsOK, UsePcs
<1>4. ReadyIsOpen'
  BY DEF ReadyIsOpen
<1>5. ClosedIsBeingRemoved'
  BY DEF ClosedIsBeingRemoved, RegisteredOK
<1>6. OrphanOnlyByReuse'
  BY DEF OrphanOnlyByReuse, Registered, Released, RegisteredOK
<1> QED
  BY <1>1, <1>2, <1>3, <1>4, <1>5, <1>6

\* What a return from DeleteOnlineClient leaves alone.
LEMMA ReturnFrame ==
  ASSUME TypeOK, NEW p \in Procs, Return(p)
  PROVE  /\ \A c \in Conns : SameConn(c)
         /\ \A q \in Procs \ {p} : proc'[q] = proc[q]
         /\ proc'[p].pc \in {"load", "idle"}
<1>1. CASE proc[p].left > 0
  BY <1>1 DEF Return, CallDelete, SameConn, TypeOK
<1>2. CASE ~(proc[p].left > 0)
  <2>1. Finish(p)
    BY <1>2 DEF Return
  <2>2. \A c \in Conns : SameConn(c)
    BY <2>1 DEF Finish, SameConn, TypeOK, ConnType
  <2> QED
    BY <2>1, <2>2 DEF Finish, TypeOK, IdleProc
<1> QED
  BY <1>1, <1>2

\* The entry removed is the object this process closed, or its twin.
LEMMA RemoveInv ==
  ASSUME IInv, TypeOK', NEW p \in Procs, DelRemove(p)
  PROVE  IInv'
<1>f0. /\ proc[p].held \in Conns /\ conn[proc[p].held].stage = "stored"
       /\ proc[p].pc = "remove" /\ proc[p].key \in SessionIds
       /\ conn[proc[p].held].id = proc[p].key /\ Released(proc[p].held)
  BY DEF IInv, TypeOK, UsePcs, ClosePcs, DeletersOK, DelRemove, At, Held, Released
<1>f1. /\ online'[proc[p].key] = NoConn
       /\ \A id \in SessionIds \ {proc[p].key} : online'[id] = online[id]
  BY <1>f0 DEF DelRemove, IInv, TypeOK
<1>f2. /\ \A c \in Conns : SameConn(c)
       /\ \A q \in Procs \ {p} : proc'[q] = proc[q]
       /\ proc'[p].pc \in {"load", "idle"}
  BY ReturnFrame DEF DelRemove, IInv
<1>f3. "load" \notin ClosePcs /\ "idle" \notin ClosePcs
  BY DEF ClosePcs
<1> USE <1>f0, <1>f1, <1>f2, <1>f3 DEF IInv, At, Held, TypeOK, SameConn
<1>1. RegisteredOK'
  BY DEF RegisteredOK
<1>2. DeletersOK'
  BY DEF DeletersOK, UsePcs
<1>3. CreatorsOK'
  BY DEF CreatorsOK, UsePcs
<1>4. ReadyIsOpen'
  BY DEF ReadyIsOpen
<1>5. ClosedIsBeingRemoved'
  BY DEF ClosedIsBeingRemoved
<1>6. OrphanOnlyByReuse'
  <2> SUFFICES ASSUME NEW c \in Conns, conn'[c].stage = "stored",
                      ~Registered(c)', ~Released(c)'
               PROVE  \E d \in Conns \ {c} : /\ conn'[d].id = conn'[c].id
                                              /\ conn'[d].stage = "stored"
    BY DEF OrphanOnlyByReuse
  <2>1. ~Released(c) /\ c # proc[p].held
    BY DEF Released
  <2>2. CASE Registered(c)
    <3>1. online[proc[p].key] = c /\ conn[c].id = proc[p].key
      BY <2>2, NullAssumption DEF Registered, RegisteredOK
    <3> QED
      BY <2>1, <3>1
  <2>3. CASE ~Registered(c)
    <3>1. PICK d \in Conns \ {c} : conn[d].id = conn[c].id /\ conn[d].stage = "stored"
      BY <2>1, <2>3 DEF OrphanOnlyByReuse
    <3> QED
      BY <3>1
  <2> QED
    BY <2>2, <2>3
<1> QED
  BY <1>1, <1>2, <1>3, <1>4, <1>5, <1>6

\* Every step of DeleteOnlineClient keeps the invariant.
LEMMA DeleteInv ==
  ASSUME IInv, TypeOK', NEW p \in Procs, DeleteOnlineClient(p)
  PROVE  IInv'
<1>1. CASE DelLoad(p) /\ online[proc[p].key] = NoConn
  <2>1. Return(p) /\ proc[p].pc = "load" /\ online' = online
    BY <1>1 DEF DelLoad, At
  <2>2. /\ \A c \in Conns : SameConn(c)
        /\ \A q \in Procs \ {p} : proc'[q] = proc[q]
        /\ proc'[p].pc \in {"load", "idle"}
    BY <2>1, ReturnFrame DEF IInv
  <2>3. {"load", "idle"} \cap (ClosePcs \cup {"connect", "store"}) = {}
    BY DEF ClosePcs
  <2> QED
    BY <2>1, <2>2, <2>3, Frame
<1> QED
  BY <1>1, DelFoundInv, CloseWsInv, CloseSessionInv, CloseSftpInv, CloseClientInv,
     RemoveInv DEF DeleteOnlineClient

\* So does every other step of a handler.
LEMMA StepInv ==
  ASSUME IInv, TypeOK', NEW p \in Handlers, Connect(p) \/ Step(p)
  PROVE  IInv'
<1>p. p \in Procs
  BY DEF Procs
<1> DEFINE Elsewhere == {"shell", "ask", "start", "wait", "load", "idle"}
<1>e. Elsewhere \cap (ClosePcs \cup {"connect", "store"}) = {}
  BY DEF ClosePcs
<1>1. CASE AttachWs(p) \/ ShellStarts(p)
  <2>a. AttachWs(p) => \A c \in Conns : SameConn(c)
    BY DEF AttachWs, SameConn, IInv, TypeOK, ConnType
  <2>b. ShellStarts(p) => \A c \in Conns : SameConn(c)
    BY <1>p, StartSame DEF IInv
  <2>1. /\ \A c \in Conns : SameConn(c)
        /\ online' = online
    BY <1>1, <2>a, <2>b DEF AttachWs, ShellStarts
  <2>2. /\ proc[p].pc # "remove" /\ proc'[p].pc \in Elsewhere
        /\ \A q \in Procs \ {p} : proc'[q] = proc[q]
    BY <1>1, <1>p DEF AttachWs, ShellStarts, Goto, At, IInv, TypeOK, ProcType
  <2> QED
    BY <2>1, <2>2, <1>e, Frame
<1>2. CASE ShellFails(p) \/ WaitReturns(p) \/ WindowChange(p)
  <2>1. /\ \A c \in Conns : SameConn(c)
        /\ online' = online
    BY <1>2 DEF ShellFails, WaitReturns, WindowChange, Take, SameConn, IInv, TypeOK, ConnType
  <2>2. /\ proc[p].pc # "remove" /\ proc'[p].pc \in Elsewhere
        /\ \A q \in Procs \ {p} : proc'[q] = proc[q]
    BY <1>2, <1>p DEF ShellFails, WaitReturns, WindowChange, CallDelete, At, IInv,
       TypeOK, IdleProc
  <2> QED
    BY <2>1, <2>2, <1>e, Frame
<1>3. CASE ShellAsks(p) \/ ShellGranted(p)
  <2>1. /\ \A c \in Conns : SameConn(c)
        /\ online' = online
    BY <1>3 DEF ShellAsks, ShellGranted, SameConn
  <2>2. /\ proc[p].pc # "remove" /\ proc'[p].pc \in Elsewhere
        /\ \A q \in Procs \ {p} : proc'[q] = proc[q]
    BY <1>3, <1>p DEF ShellAsks, ShellGranted, Goto, At, IInv, TypeOK, ProcType
  <2> QED
    BY <2>1, <2>2, <1>e, Frame
<1>4. CASE WaitHangs(p)
  <2>1. /\ \A c \in Conns : SameConn(c)
        /\ online' = online /\ proc' = proc
    BY <1>4 DEF WaitHangs, Take, SameConn, IInv, TypeOK, ConnType
  <2> QED
    BY <2>1, Frame
<1> QED
  BY <1>p, <1>1, <1>2, <1>3, <1>4, ConnectFailsInv, NewSessionFailsInv, ConnectedInv,
     StoreInv, DeleteInv DEF Connect, Step

\* Requests only start processes.
LEMMA RequestInv ==
  ASSUME IInv, TypeOK', NEW p \in Handlers, NEW id \in SessionIds, Request(p, id)
  PROVE  IInv'
<1>p. p \in Procs
  BY DEF Procs
<1>1. CASE NewSshConnBadWindow(p, id) \/ NewSshConn(p, id) \/ Disconnect(p, id)
              \/ ResizeWindow(p, id)
  <2>1. conn' = conn /\ online' = online /\ proc[p].pc = "idle"
    BY <1>1 DEF NewSshConnBadWindow, NewSshConn, Terminal, Disconnect, ResizeWindow, At
  <2>2. /\ proc'[p].pc \in {"load", "attach", "resize"}
        /\ \A q \in Procs \ {p} : proc'[q] = proc[q]
    BY <1>1, <1>p DEF NewSshConnBadWindow, NewSshConn, Terminal, Disconnect,
       ResizeWindow, IInv, TypeOK
  <2>3. {"load", "attach", "resize"} \cap (ClosePcs \cup {"connect", "store"}) = {}
    BY DEF ClosePcs
  <2>4. \A c \in Conns : SameConn(c)
    BY <2>1 DEF SameConn
  <2> QED
    BY <2>1, <2>2, <2>3, <2>4, Frame
<1> QED
  BY <1>p, <1>1, CreateInv DEF Request

\* Init, and the step of the whole system.
LEMMA InitIInv == Init => IInv
<1> SUFFICES ASSUME Init
             PROVE  IInv
  OBVIOUS
<1>1. \A p \in Procs : proc[p].pc = "idle"
  BY DEF Init, IdleProc
<1>2. \A c \in Conns : conn[c].stage = "new"
  BY DEF Init, NewConn
<1>3. \A id \in SessionIds : online[id] = NoConn
  BY DEF Init
<1> QED
  BY <1>1, <1>2, <1>3, InitType DEF IInv, RegisteredOK, DeletersOK, CreatorsOK,
     ReadyIsOpen, ClosedIsBeingRemoved, OrphanOnlyByReuse, ClosePcs, At

\* Every step keeps the inductive invariant.
LEMMA NextIInv == IInv /\ [Next]_vars => IInv'
<1> SUFFICES ASSUME IInv, [Next]_vars
             PROVE  IInv'
  OBVIOUS
<1>t. TypeOK'
  BY NextType DEF IInv
<1>1. ASSUME NEW p \in Handlers, Connect(p) \/ Step(p)
      PROVE  IInv'
  BY <1>t, <1>1, StepInv
<1>2. ASSUME NEW p \in Handlers, NEW id \in SessionIds, Request(p, id)
      PROVE  IInv'
  BY <1>t, <1>2, RequestInv
<1>3. CASE CleanerStep
  <2>1. CASE CleanRange \/ \E id \in SessionIds : CleanCheck(id)
    <3>1. conn' = conn /\ online' = online /\ proc[Cleaner].pc = "idle"
      BY <2>1 DEF CleanRange, CleanCheck, At
    <3>2. /\ \A q \in Procs \ {Cleaner} : proc'[q] = proc[q]
          /\ proc'[Cleaner] = proc[Cleaner] \/ proc'[Cleaner].pc \in {"load", "idle"}
      BY <2>1 DEF CleanRange, CleanCheck, IInv, TypeOK, Procs, IdleProc
    <3>3. {"load", "idle"} \cap (ClosePcs \cup {"connect", "store"}) = {}
      BY DEF ClosePcs
    <3>4. \A c \in Conns : SameConn(c)
      BY <3>1 DEF SameConn
    <3> QED
      BY <1>t, <3>1, <3>2, <3>3, <3>4, Frame
  <2>2. CASE DeleteOnlineClient(Cleaner)
    BY <1>t, <2>2, DeleteInv DEF Procs
  <2> QED
    BY <1>3, <2>1, <2>2 DEF CleanerStep
<1>4. ASSUME NEW id \in SessionIds, RefreshConnTime(id)
      PROVE  IInv'
  <2>1. /\ \A c \in Conns : SameConn(c)
        /\ online' = online /\ proc' = proc
    BY <1>4 DEF RefreshConnTime, SameConn, IInv, TypeOK, ConnType
  <2> QED
    BY <1>t, <2>1, Frame
<1>5. ASSUME NEW c \in Conns, RemoteEnds(c) \/ HostHangs(c) \/ Expire(c)
      PROVE  IInv'
  <2>1. /\ \A d \in Conns : SameConn(d)
        /\ online' = online /\ proc' = proc
    BY <1>5, EnvironmentSame DEF RemoteEnds, HostHangs, Expire, IInv
  <2> QED
    BY <1>t, <2>1, Frame
<1>6. CASE UNCHANGED vars
  <2>1. \A d \in Conns : SameConn(d)
    BY <1>6 DEF vars, SameConn
  <2> QED
    BY <1>t, <1>6, <2>1, Frame DEF vars
<1> QED
  BY <1>1, <1>2, <1>3, <1>4, <1>5, <1>6 DEF Next

\* DeleteOnlineClient closes first and removes last, so a dead entry of
\* OnlineClients always has a process about to remove it.
THEOREM ClosedIsBeingRemovedAlways == Spec => []ClosedIsBeingRemoved
<1>1. Spec => []IInv
  BY InitIInv, NextIInv, PTL DEF Spec
<1>2. IInv => ClosedIsBeingRemoved
  BY DEF IInv
<1> QED
  BY <1>1, <1>2, PTL

\* An open SSH client that left OnlineClients shares its id with another
\* session: overwriting and deletion by key are the only ways to lose one.
THEOREM OrphanOnlyByReuseAlways == Spec => []OrphanOnlyByReuse
<1>1. Spec => []IInv
  BY InitIInv, NextIInv, PTL DEF Spec
<1>2. IInv => OrphanOnlyByReuse
  BY DEF IInv
<1> QED
  BY <1>1, <1>2, PTL

-----------------------------------------------------------------------------
(***************************************************************************)
(* When clients never supply an id, ids are unique and nothing is lost.     *)
(***************************************************************************)
IdsUnique ==
    \A c, d \in Conns : (c # d /\ conn[c].id = conn[d].id) => conn[c].id = NoId

HaveIds == \A c \in Conns : conn[c].stage # "new" => conn[c].id # NoId

IdsKept ==
    \A c \in Conns : /\ conn'[c].id = conn[c].id
                     /\ conn[c].stage = "new" => conn'[c].stage = "new"

\* DeleteOnlineClient never changes the id of an object.
LEMMA DeleteKeepsIds ==
  ASSUME TypeOK, NEW p \in Procs, DeleteOnlineClient(p)
  PROVE  IdsKept
<1> USE DEF IdsKept, TypeOK, ConnType
<1>1. CASE DelLoad(p)
  BY <1>1, ReturnFrame DEF DelLoad, SameConn
<1>2. CASE DelCloseWs(p)
  BY <1>2 DEF DelCloseWs
<1>3. CASE DelCloseSession(p)
  BY <1>3 DEF DelCloseSession
<1>4. CASE DelCloseSftp(p)
  BY <1>4 DEF DelCloseSftp
<1>5. CASE DelCloseClient(p)
  BY <1>5 DEF DelCloseClient
<1>6. CASE DelRemove(p)
  BY <1>6, ReturnFrame DEF DelRemove, SameConn
<1> QED
  BY <1>1, <1>2, <1>3, <1>4, <1>5, <1>6 DEF DeleteOnlineClient

\* Neither does any other step but the two ends of CreateSessionId.
LEMMA NextKeepsIds ==
  ASSUME IInv, [Next]_vars
  PROVE  \/ IdsKept
         \/ \E p \in Handlers : ConnectFails(p)
         \/ \E p \in Handlers, id \in SessionIds, c \in Conns : CreateSessionId(p, id, c)
<1> USE DEF IdsKept, IInv
<1>1. ASSUME NEW p \in Handlers, Connect(p) \/ Step(p), ~ConnectFails(p)
      PROVE  IdsKept
  <2>c. /\ At(p, "connect") => conn[proc[p].held].stage = "dialing"
        /\ At(p, "store") => conn[proc[p].held].stage = "ready"
    BY DEF CreatorsOK, Procs, Held
  <2>1. CASE DeleteOnlineClient(p)
    BY <2>1, DeleteKeepsIds DEF Procs
  <2>2. CASE NewSessionFails(p)
    BY <2>2, <2>c DEF NewSessionFails, TypeOK, ConnType
  <2>3. CASE Connected(p)
    BY <2>3, <2>c DEF Connected, TypeOK, ConnType
  <2>4. CASE Store(p) \/ AttachWs(p)
    BY <2>4, <2>c DEF Store, AttachWs, TypeOK, ConnType
  <2>7. CASE ShellStarts(p)
    BY <2>7, StartSame DEF SameConn, Procs
  <2>5. CASE ShellAsks(p) \/ ShellGranted(p) \/ ShellFails(p) \/ WindowChange(p)
    BY <2>5 DEF ShellAsks, ShellGranted, ShellFails, WindowChange
  <2>6. CASE WaitReturns(p) \/ WaitHangs(p)
    BY <2>6 DEF WaitReturns, WaitHangs, Take, TypeOK, ConnType
  <2> QED
    BY <1>1, <2>1, <2>2, <2>3, <2>4, <2>5, <2>6, <2>7 DEF Connect, Step
<1>2. ASSUME NEW p \in Handlers, NEW id \in SessionIds, Request(p, id),
             \A c \in Conns : ~CreateSessionId(p, id, c)
      PROVE  IdsKept
  BY <1>2 DEF Request, NewSshConnBadWindow, NewSshConn, Terminal, Disconnect, ResizeWindow
<1>3. CASE CleanerStep
  <2>1. CASE DeleteOnlineClient(Cleaner)
    BY <2>1, DeleteKeepsIds DEF Procs
  <2> QED
    BY <1>3, <2>1 DEF CleanerStep, CleanRange, CleanCheck
<1>4. ASSUME NEW id \in SessionIds, RefreshConnTime(id)
      PROVE  IdsKept
  BY <1>4 DEF RefreshConnTime, TypeOK, ConnType
<1>5. ASSUME NEW c \in Conns, RemoteEnds(c) \/ HostHangs(c) \/ Expire(c)
      PROVE  IdsKept
  BY <1>5, EnvironmentSame DEF SameConn
<1>6. CASE UNCHANGED vars
  BY <1>6 DEF vars
<1> QED
  BY <1>1, <1>2, <1>3, <1>4, <1>5, <1>6 DEF Next

\* Objects in use have an id, and a random id is one that no object carries.
LEMMA UniqueStep ==
  ASSUME SuppliedIds = {}, IInv, HaveIds, IdsUnique, [Next]_vars
  PROVE  HaveIds' /\ IdsUnique'
<1>1. CASE IdsKept
  BY <1>1 DEF IdsKept, IdsUnique, HaveIds
<1>2. ASSUME NEW p \in Handlers, ConnectFails(p)
      PROVE  HaveIds' /\ IdsUnique'
  <2>1. \A c \in Conns : conn'[c] = conn[c] \/ (conn'[c].id = NoId /\ conn'[c].stage = "new")
    BY <1>2 DEF ConnectFails, NewConn, IInv, TypeOK
  <2> QED
    BY <2>1 DEF IdsUnique, HaveIds
<1>3. ASSUME NEW p \in Handlers, NEW id \in SessionIds, NEW c \in Conns,
             CreateSessionId(p, id, c)
      PROVE  HaveIds' /\ IdsUnique'
  <2>1. \A d \in Conns : conn[d].id # id
    BY <1>3 DEF CreateSessionId, MayUseId
  <2>2. /\ \A d \in Conns \ {c} : conn'[d] = conn[d]
        /\ conn'[c].id = id
    BY <1>3 DEF CreateSessionId, IInv, TypeOK, ConnType
  <2> QED
    BY <2>1, <2>2, NullAssumption DEF IdsUnique, HaveIds
<1> QED
  BY <1>1, <1>2, <1>3, NextKeepsIds

\* With server-made ids only, a session that left OnlineClients was closed
\* completely by DeleteOnlineClient, however many of its callers raced.
THEOREM RemovedIsReleasedAlways ==
  ASSUME SuppliedIds = {}
  PROVE  Spec => []RemovedIsReleased
<1> DEFINE UInv == IInv /\ HaveIds /\ IdsUnique
<1>1. Init => UInv
  BY InitIInv DEF Init, IdsUnique, HaveIds, NewConn
<1>2. UInv /\ [Next]_vars => UInv'
  BY NextIInv, UniqueStep
<1>3. UInv => RemovedIsReleased
  <2> SUFFICES ASSUME UInv, NEW c \in Conns, conn[c].stage = "stored",
                      ~Registered(c), ~Released(c)
               PROVE  FALSE
    BY DEF RemovedIsReleased
  <2>1. PICK d \in Conns \ {c} : conn[d].id = conn[c].id /\ conn[d].stage = "stored"
    BY DEF IInv, OrphanOnlyByReuse
  <2>2. conn[c].id = NoId
    BY <2>1 DEF IdsUnique
  <2> QED
    BY <2>2 DEF HaveIds
<1>4. Init /\ [][Next]_vars => []UInv
  <2> HIDE DEF UInv
  <2> QED
    BY <1>1, <1>2, PTL
<1> QED
  BY <1>3, <1>4, PTL DEF Spec

=============================================================================
