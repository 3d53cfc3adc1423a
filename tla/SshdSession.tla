---------------------------- MODULE SshdSession ----------------------------
(***************************************************************************)
(* One session channel of the built-in SSH server (sshd_server.go): the     *)
(* goroutine of handleRequests reads the client's requests one by one and   *)
(* passes window sizes through the channel "resizes" to the goroutine that  *)
(* attachShell starts; two goroutines copy between channel and pty, and     *)
(* whichever ends first closes the session.  A window size is a number, the *)
(* position at which the client sent it, so that a larger one is newer.     *)
(***************************************************************************)
EXTENDS Naturals, Sequences

CONSTANTS
    Cap,       \* the capacity of resizes, 10 in the code
    MaxSizes   \* bound on the window sizes a client sends

ASSUME BoundsAssumption == Cap \in Nat \ {0} /\ MaxSizes \in Nat

VARIABLES
    wire,     \* requests of the client that handleRequests has not read yet
    sent,     \* the client's latest window size; 0 for none
    asked,    \* what the client has asked for besides sizes
    client,   \* "open", or "gone": it closed the channel or lost the connection
    handler,  \* the goroutine of handleRequests
    size,     \* the size it is about to put into resizes
    resizes,  \* the channel
    shell,    \* the process behind the pty
    ptySize,  \* the pty's window size; 0 for the default
    copyIn,   \* io.Copy(shellPty, connection) runs
    copyOut,  \* io.Copy(connection, shellPty) runs
    held,     \* a background child of the ended shell has the pty open
    full,     \* copyOut waits to write: the client does not read
    closed,   \* connection.Close was called
    ticking   \* the keepAlive goroutine runs

vars == <<wire, sent, asked, client, handler, size, resizes, shell, ptySize,
          copyIn, copyOut, held, full, closed, ticking>>

Sizes == 1..MaxSizes
Short == 0                        \* a payload too short to hold a size
Payloads == Sizes \cup {Short}

\* "shortSize" is a window-change, or a pty-req that parsePtyReq lets through, with a
\* short payload; "shortAsk" an exec, subsystem or pty-req whose payload ends before
\* the slice that is taken of it.
Asks == {"shell", "exec", "sftp", "shortSize", "shortAsk"}

Request == [type : {"pty-req", "window-change"}, size : Sizes] \cup [type : Asks]

Init ==
    /\ wire = <<>>
    /\ sent = 0
    /\ asked = {}
    /\ client = "open"
    /\ handler = "loop"
    /\ size = 0
    /\ resizes = <<>>
    /\ shell = "none"
    /\ ptySize = 0
    /\ copyIn = FALSE
    /\ copyOut = FALSE
    /\ held = FALSE
    /\ full = FALSE
    /\ closed = FALSE
    /\ ticking = TRUE

-----------------------------------------------------------------------------
(***************************************************************************)
(* The client.  It asks for a pty first, if at all, and for one shell,      *)
(* command or sftp session; it may send sizes as it likes, and a malformed  *)
(* request of each kind.                                                    *)
(***************************************************************************)
ServerPart == <<handler, size, resizes, shell, ptySize, copyIn, copyOut, held, closed,
                ticking>>

SendSize ==
    /\ client = "open"
    /\ sent < MaxSizes
    /\ sent' = sent + 1
    /\ wire' = Append(wire, [type |-> IF sent = 0 THEN "pty-req" ELSE "window-change",
                             size |-> sent + 1])
    /\ UNCHANGED <<asked, client, full, ServerPart>>

Services == {"shell", "exec", "sftp"}

Ask(type) ==
    /\ client = "open"
    /\ type \notin asked
    /\ type \in Services => asked \cap Services = {}
    /\ asked' = asked \cup {type}
    /\ wire' = Append(wire, [type |-> type])
    /\ UNCHANGED <<sent, client, full, ServerPart>>

\* The client stops reading, and the window of the channel is used up; or reads on.
Stall ==
    /\ client = "open" /\ copyOut /\ ~full
    /\ full' = TRUE
    /\ UNCHANGED <<wire, sent, asked, client, ServerPart>>

ReadOn ==
    /\ client = "open" /\ full
    /\ full' = FALSE
    /\ UNCHANGED <<wire, sent, asked, client, ServerPart>>

\* The client leaves at any time.
Leave ==
    /\ client = "open"
    /\ client' = "gone"
    /\ UNCHANGED <<wire, sent, asked, full, ServerPart>>

-----------------------------------------------------------------------------
(***************************************************************************)
(* handleRequests.                                                          *)
(***************************************************************************)
Take(type) ==
    /\ handler = "loop"
    /\ wire # <<>>
    /\ Head(wire).type = type
    /\ wire' = Tail(wire)
    /\ UNCHANGED <<sent, asked, client, held, full>>

\* The deferred calls: close(resizes) and close(ticking).
EndHandler(how) ==
    /\ handler' = how
    /\ ticking' = FALSE

TakeSize(type) ==
    /\ Take(type)
    /\ handler' = "resize"
    /\ size' = Head(wire).size
    /\ UNCHANGED <<resizes, shell, ptySize, copyIn, copyOut, closed, ticking>>

\* A payload that holds no size goes the same way.
TakeShortSize ==
    /\ Take("shortSize")
    /\ handler' = "resize"
    /\ size' = Short
    /\ UNCHANGED <<resizes, shell, ptySize, copyIn, copyOut, closed, ticking>>

\* req.Payload[4:] panics: the deferred recover ends the handler, and with it the
\* reading of requests, but leaves the channel open.
TakeShortAsk ==
    /\ Take("shortAsk")
    /\ EndHandler("panicked")
    /\ UNCHANGED <<size, resizes, shell, ptySize, copyIn, copyOut, closed>>

\* Mutation: a size that does not fit is dropped rather than waited for.
PutSizeBug ==
    /\ handler = "resize"
    /\ resizes' = IF Len(resizes) < Cap THEN Append(resizes, size) ELSE resizes
    /\ handler' = "loop"
    /\ size' = 0
    /\ UNCHANGED <<wire, sent, asked, client, shell, ptySize, copyIn, copyOut, held, full,
                   closed, ticking>>

\* Mutation: the sizes wait in a queue without a limit.
PutSizeUnboundedBug ==
    /\ handler = "resize"
    /\ resizes' = Append(resizes, size)
    /\ handler' = "loop"
    /\ size' = 0
    /\ UNCHANGED <<wire, sent, asked, client, shell, ptySize, copyIn, copyOut, held, full,
                   closed, ticking>>

\* resizes <- payload, which waits while the channel is full.
PutSize ==
    /\ handler = "resize"
    /\ Len(resizes) < Cap
    /\ resizes' = Append(resizes, size)
    /\ handler' = "loop"
    /\ size' = 0
    /\ UNCHANGED <<wire, sent, asked, client, shell, ptySize, copyIn, copyOut, held, full,
                   closed, ticking>>

\* Mutation: the latest size becomes the initial one, the others stay queued.
InitialSizeBug ==
    IF resizes = <<>>
    THEN UNCHANGED <<resizes, ptySize>>
    ELSE /\ ptySize' = resizes[Len(resizes)]
         /\ resizes' = SubSeq(resizes, 1, Len(resizes) - 1)

\* The first queued payload, if there is one, and its size, if it holds one.
InitialSize ==
    IF resizes = <<>>
    THEN UNCHANGED <<resizes, ptySize>>
    ELSE /\ ptySize' = IF Head(resizes) = Short THEN ptySize ELSE Head(resizes)
         /\ resizes' = Tail(resizes)

AttachShell ==
    /\ Take("shell")
    /\ InitialSize
    /\ shell' = "running"
    /\ copyIn' = TRUE
    /\ copyOut' = TRUE
    /\ UNCHANGED <<handler, size, closed, ticking>>

\* pty.StartWithSize fails: closeFunc, and the loop goes on.
AttachShellFails ==
    /\ Take("shell")
    /\ resizes' = IF resizes = <<>> THEN <<>> ELSE Tail(resizes)
    /\ shell' = "failed"
    /\ closed' = TRUE
    /\ UNCHANGED <<handler, size, ptySize, copyIn, copyOut, ticking>>

Serve(type) ==
    /\ Take(type)
    /\ handler' = type
    /\ UNCHANGED <<size, resizes, shell, ptySize, copyIn, copyOut, closed, ticking>>

\* The command, or the sftp server, ends.
ServeEnds ==
    /\ handler \in {"exec", "sftp"}
    /\ closed' = TRUE
    /\ EndHandler("ended")
    /\ UNCHANGED <<wire, sent, asked, client, size, resizes, shell, ptySize,
                   copyIn, copyOut, held, full>>

\* The request channel is closed and read to its end.
RequestsEnd ==
    /\ handler = "loop"
    /\ wire = <<>>
    /\ client = "gone"
    /\ EndHandler("ended")
    /\ UNCHANGED <<wire, sent, asked, client, size, resizes, shell, ptySize,
                   copyIn, copyOut, held, full, closed>>

-----------------------------------------------------------------------------
(***************************************************************************)
(* The goroutines of attachShell.  The one that drains resizes goes on when *)
(* the shell has ended, until resizes is closed and empty.                  *)
(***************************************************************************)
\* Mutation: that goroutine ends with the shell.
DrainSizeBug ==
    /\ shell = "running"
    /\ resizes # <<>>
    /\ Head(resizes) # Short
    /\ ptySize' = Head(resizes)
    /\ resizes' = Tail(resizes)
    /\ UNCHANGED <<wire, sent, asked, client, handler, size, shell, copyIn, copyOut, held,
                   full, closed, ticking>>

DrainSize ==
    /\ shell \in {"running", "exited"}
    /\ resizes # <<>>
    /\ Head(resizes) # Short
    /\ ptySize' = Head(resizes)
    /\ resizes' = Tail(resizes)
    /\ UNCHANGED <<wire, sent, asked, client, handler, size, shell, copyIn, copyOut, held,
                   full, closed, ticking>>

\* parseDims panics where nothing recovers: the process ends, with every session.
DrainShort ==
    /\ shell \in {"running", "exited"}
    /\ resizes # <<>>
    /\ Head(resizes) = Short
    /\ EndHandler("crashed")
    /\ wire' = <<>> /\ resizes' = <<>> /\ size' = 0
    /\ client' = "gone" /\ shell' = "exited" /\ closed' = TRUE
    /\ copyIn' = FALSE /\ copyOut' = FALSE /\ held' = FALSE /\ full' = FALSE
    /\ UNCHANGED <<sent, asked, ptySize>>

\* The shell ends, and perhaps leaves a child behind that has the pty open.
ShellExits ==
    /\ shell = "running"
    /\ shell' = "exited"
    /\ held' \in BOOLEAN
    /\ UNCHANGED <<wire, sent, asked, client, handler, size, resizes, ptySize,
                   copyIn, copyOut, full, closed, ticking>>

ChildExits ==
    /\ held
    /\ held' = FALSE
    /\ UNCHANGED <<wire, sent, asked, client, handler, size, resizes, shell, ptySize,
                   copyIn, copyOut, full, closed, ticking>>

\* Mutation: only the other direction closes the session.
CopyOutEndsBug ==
    /\ copyOut
    /\ IF full THEN closed \/ client = "gone" ELSE shell = "exited" /\ ~held
    /\ copyOut' = FALSE
    /\ full' = FALSE
    /\ UNCHANGED <<wire, sent, asked, client, handler, size, resizes, shell,
                   ptySize, copyIn, held, closed, ticking>>

\* Reading the pty fails once nobody has its other end open (the call that would
\* close it when the shell has ended is commented out); a write that waits for the
\* client fails once the channel is closed.
CopyOutEnds ==
    /\ copyOut
    /\ IF full THEN closed \/ client = "gone" ELSE shell = "exited" /\ ~held
    /\ copyOut' = FALSE
    /\ full' = FALSE
    /\ closed' = TRUE
    /\ UNCHANGED <<wire, sent, asked, client, handler, size, resizes, shell,
                   ptySize, copyIn, held, ticking>>

\* Output that comes when the channel is closed already.
ShellWritesInVain ==
    /\ copyOut /\ ~full
    /\ shell = "running" \/ held
    /\ closed \/ client = "gone"
    /\ copyOut' = FALSE
    /\ closed' = TRUE
    /\ UNCHANGED <<wire, sent, asked, client, handler, size, resizes, shell,
                   ptySize, copyIn, held, full, ticking>>

\* Reading the channel gives EOF when the client has left.
CopyInEnds ==
    /\ copyIn
    /\ client = "gone"
    /\ copyIn' = FALSE
    /\ closed' = TRUE
    /\ UNCHANGED <<wire, sent, asked, client, handler, size, resizes, shell,
                   ptySize, copyOut, held, full, ticking>>

-----------------------------------------------------------------------------
ClientAsks == SendSize \/ \E type \in Asks : Ask(type)

HandlerStep ==
    \/ TakeSize("pty-req")
    \/ TakeSize("window-change")
    \/ TakeShortSize
    \/ TakeShortAsk
    \/ PutSize
    \/ AttachShell
    \/ AttachShellFails
    \/ Serve("exec")
    \/ Serve("sftp")
    \/ RequestsEnd

Next ==
    \/ ClientAsks
    \/ Stall
    \/ ReadOn
    \/ Leave
    \/ HandlerStep
    \/ ServeEnds
    \/ DrainSize
    \/ DrainShort
    \/ ShellExits
    \/ ChildExits
    \/ CopyOutEnds
    \/ ShellWritesInVain
    \/ CopyInEnds

\* Every goroutine of the server goes on where nothing outside holds it.  sftp ends
\* with its client; a command need not end, nor a shell or its children, and a shell
\* need not read what CopyIn has for it.  Nothing is asked of the client.
Fairness ==
    /\ WF_vars(HandlerStep)
    /\ WF_vars(handler = "sftp" /\ client = "gone" /\ ServeEnds)
    /\ WF_vars(DrainSize \/ DrainShort)
    /\ WF_vars(CopyOutEnds)

Spec == Init /\ [][Next]_vars

FairSpec == Spec /\ Fairness
-----------------------------------------------------------------------------
(***************************************************************************)
(* Properties                                                               *)
(***************************************************************************)

\* Every variable has its type; resizes never holds more than its capacity.
TypeOK ==
    /\ wire \in Seq(Request)
    /\ sent \in 0..MaxSizes
    /\ asked \subseteq Asks
    /\ client \in {"open", "gone"}
    /\ handler \in {"loop", "resize", "exec", "sftp", "ended", "panicked", "crashed"}
    /\ size \in 0..MaxSizes
    /\ resizes \in Seq(Payloads)
    /\ Len(resizes) <= Cap
    /\ shell \in {"none", "running", "exited", "failed"}
    /\ ptySize \in 0..MaxSizes
    /\ copyIn \in BOOLEAN
    /\ copyOut \in BOOLEAN
    /\ held \in BOOLEAN
    /\ full \in BOOLEAN
    /\ closed \in BOOLEAN
    /\ ticking \in BOOLEAN

\* The terminal never goes back to an earlier window size: the sizes that were
\* queued before the shell started, the initial one among them, and the later
\* ones reach the pty in the order in which the client sent them.
SizesInOrder == [][ptySize' >= ptySize]_vars

\* The latest window size of the client reaches a running shell, however many
\* sizes were queued before it started and whatever the channel's capacity, unless a
\* malformed request has ended handleRequests.
LatestSizeArrives ==
    (shell = "running") ~>
        (ptySize = sent \/ shell # "running" \/ client = "gone" \/ handler = "panicked")

\* More sizes than fit into resizes came before the request for the shell that would
\* start its reader, or that shell could not start.
Jammed ==
    handler = "resize" /\ Len(resizes) = Cap /\ shell \in {"none", "failed"}

\* When the client has left, handleRequests returns and the keep-alive goroutine
\* with it, unless a command of the client still runs, or it waits for ever to pass
\* a size on to a goroutine that was never started.  Once a shell has been started
\* no size holds it up, not even when the shell has ended.
HandlerEnds ==
    (client = "gone") ~>
        ((handler \in {"ended", "panicked", "crashed"} /\ ~ticking)
         \/ handler = "exec" \/ Jammed)

\* A session whose shell has ended is closed, so that the client does not wait in
\* front of a dead terminal, as long as no child of the shell keeps the pty open for
\* ever and the client does not stop reading for ever; whatever became of the
\* handler, and with sizes still on their way.
SessionCloses ==
    <>[](~held /\ ~full) => ((shell = "exited") ~> closed)
=============================================================================
