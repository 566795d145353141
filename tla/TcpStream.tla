------------------------------ MODULE TcpStream ------------------------------
(***************************************************************************)
(* TcpStream::connect and the life of sockets (src/src/net/tcp/stream.rs,  *)
(* split.rs, socket.rs).  connect is an async function: it runs from one   *)
(* await to the next without being disturbed, and its future may be        *)
(* dropped at each of them.  A SOCKET is an integer that nothing closes    *)
(* until an IoHandle or a Socket is made of it, so what becomes of it on   *)
(* every way out is part of the model.                                     *)
(*                                                                         *)
(* The event of the attempts is reduced to AsyncOp, which IoEvent          *)
(* implements.  TcpListener extends this module by bind and accept, which  *)
(* start like connect, and has the specification of both.                  *)
(***************************************************************************)
EXTENDS Resolve

CONSTANT MaxSockets  \* sockets that can be created

ASSUME TcpAssumption ==
  /\ MaxAddrs \in Nat \ {0}
  /\ MaxSockets \in Nat \ {0}

VARIABLES
  role,    \* "connect" or "bind"
  pc,      \* where the async function is, or how it ended
  sock,    \* the sockets
  refused, \* addresses the operating system did not connect to
  past,    \* what has happened: "dropped" (a suspended future), "reset"
           \* (ResetEvent failed on the event of an attempt)
  en, ephase, eout, egiven  \* the event of connect or of the current Accept

E == INSTANCE AsyncOp WITH
  MaxOps <- MaxAddrs, HasHandle <- TRUE, ResetMayFail <- TRUE,
  n <- en, phase <- ephase, out <- eout, given <- egiven

eventVars == <<en, ephase, eout, egiven>>
tcpVars == <<role, pc, sock, refused, past, eventVars>>

Sockets == 1 .. MaxSockets
Astray == MaxAddrs + 1  \* a peer nobody asked for

\* by: who will close it.  peer: the address connected to, 0 if none.
\* refs: halves of the TcpStream.
Socket == [state : {"none", "open", "closed"},
           by : {"nobody", "future", "listener", "stream"},
           peer : 0 .. Astray, refs : 0 .. 2]
NoSocket == [state |-> "none", by |-> "nobody", peer |-> 0, refs |-> 0]

Failed == {"err", "notfound", "dropped"}

TcpTypeOK ==
  /\ ResolveTypeOK
  /\ role \in {"connect", "bind"}
  /\ pc \in {"start", "resolve", "leaving", "loop", "attempt", "closing", "ok",
             "listening", "closed"} \cup Failed
  /\ sock \in [Sockets -> Socket]
  /\ refused \subseteq 1 .. MaxAddrs
  /\ past \subseteq {"dropped", "reset"}
  /\ E!TypeOK

TcpInit ==
  /\ ResolveInit
  /\ role \in {"connect", "bind"}
  /\ pc = "start"
  /\ sock = [s \in Sockets |-> NoSocket]
  /\ refused = {}
  /\ past = {}
  /\ E!Init

-----------------------------------------------------------------------------
(***************************************************************************)
(* Sockets.                                                                *)
(***************************************************************************)

\* socket::new
Opened(s) == [sock EXCEPT ![s].state = "open", ![s].by = "future"]

\* The SOCKET goes out of scope.
Orphan(s) == [sock EXCEPT ![s].by = "nobody"]

\* IoHandle::new makes the socket the IoHandle's; when it fails, it drops the
\* Arc it has made already, and Drop for IoHandle closes the socket.
Streams(s) ==
  {[sock EXCEPT ![s].by = "stream", ![s].refs = 1],
   [sock EXCEPT ![s].by = "nobody", ![s].state = "closed"]}

\* TcpStream::split: the halves share the Arc.
Split(s) ==
  /\ sock[s].refs = 1
  /\ sock' = [sock EXCEPT ![s].refs = 2]
  /\ UNCHANGED <<role, pc, refused, past, eventVars, resolveVars>>

\* Mutant: the first half to go closes the socket.
DropStream_FirstHalf(s) ==
  /\ sock[s].refs > 0
  /\ sock' = [sock EXCEPT ![s].refs = @ - 1, ![s].state = "closed"]
  /\ UNCHANGED <<role, pc, refused, past, eventVars, resolveVars>>

\* The last clone of the Arc closes the socket.
DropStream(s) ==
  /\ sock[s].refs > 0
  /\ sock' = [sock EXCEPT ![s] =
       IF @.refs = 1 THEN [@ EXCEPT !.refs = 0, !.by = "nobody", !.state = "closed"]
                     ELSE [@ EXCEPT !.refs = 1]]
  /\ UNCHANGED <<role, pc, refused, past, eventVars, resolveVars>>

-----------------------------------------------------------------------------
(***************************************************************************)
(* What connect and bind have in common.                                   *)
(***************************************************************************)

\* Up to the first await: the socket is made; a later call may fail (bind to
\* any address, WSAIoctl, IoEvent::new); the addresses are asked for.
Begin ==
  /\ pc = "start"
  /\ \/ pc' = "err" /\ UNCHANGED <<sock, resolveVars>>
     \/ pc' = "err" /\ sock' = [Opened(1) EXCEPT ![1].by = "nobody"] /\ UNCHANGED resolveVars
     \/ pc' = "resolve" /\ sock' = Opened(1) /\ to_socket_addrs
  /\ UNCHANGED <<role, refused, past, eventVars>>

\* addr.to_socket_addrs().await: polls, and the drop of the future after them.
AwaitAddrs ==
  /\ pc = "resolve"
  /\ \/ ResolvePoll
     \/ ready # "none" /\ DropResolve
     \/ DropResolveEvent
  /\ UNCHANGED tcpVars

\* `?`
Resolved ==
  /\ pc = "resolve"
  /\ rpc = "gone"
  /\ IF ready = "ok" THEN pc' = "loop" /\ UNCHANGED sock
                     ELSE pc' = "err" /\ sock' = Orphan(1)
  /\ UNCHANGED <<role, refused, past, eventVars, resolveVars>>

\* The suspended future is dropped: first the lookup ...
DropResolving ==
  /\ pc = "resolve"
  /\ lphase \in {"inflight", "done"}
  /\ DropResolve
  /\ pc' = "leaving"
  /\ past' = past \cup {"dropped"}
  /\ UNCHANGED <<role, sock, refused, eventVars>>

\* ... and when that has ended, the rest.
DropResolved ==
  /\ pc = "leaving"
  /\ DropResolveEvent
  /\ pc' = "dropped"
  /\ sock' = Orphan(1)
  /\ UNCHANGED <<role, refused, past, eventVars>>

-----------------------------------------------------------------------------
(***************************************************************************)
(* The loop of connect over the addresses.                                 *)
(***************************************************************************)

NextAttempt ==
  /\ pc = "loop" /\ role = "connect"
  /\ NextAddr
  /\ pc' = "attempt"
  /\ IF egiven = "err" THEN E!Retry ELSE UNCHANGED eventVars
  /\ UNCHANGED <<role, sock, refused, past>>

\* Mutant: only a list without addresses ends the loop.
NoneLeft_Untried ==
  /\ pc = "loop" /\ role = "connect"
  /\ Remaining = {}
  /\ en = 0
  /\ DropIter
  /\ pc' = "notfound"
  /\ sock' = Orphan(1)
  /\ UNCHANGED <<role, refused, past, eventVars>>

\* No address is left: the last error, or NotFound if nothing was tried.
NoneLeft ==
  /\ pc = "loop" /\ role = "connect"
  /\ Remaining = {}
  /\ DropIter
  /\ pc' = IF en = 0 THEN "notfound" ELSE "err"
  /\ sock' = Orphan(1)
  /\ UNCHANGED <<role, refused, past, eventVars>>

\* Where a successful ConnectEx may lead.  connect copies a SOCKADDR, 16 bytes,
\* but passes the length of the address, so that of a v6 address the second
\* half is whatever lies behind the copy.
Reached == IF list # <<>> /\ list[cur] = "v4" THEN {cur} ELSE {cur, Astray}

\* The socket after a ConnectEx that ended with o.
Connected(o) ==
  IF o = "ok" /\ sock[1].peer = 0
    THEN {[sock EXCEPT ![1].peer = a] : a \in Reached}
    ELSE {sock}

ConnectBegin ==
  /\ pc = "attempt"
  /\ sock[1].peer = 0
  /\ E!Begin
  /\ UNCHANGED <<role, pc, sock, refused, past, resolveVars>>

\* ConnectEx answers at once; on a connected socket with WSAEISCONN, which
\* Connect::poll takes for success.
ConnectInline(o) ==
  /\ pc = "attempt"
  /\ sock[1].peer # 0 => o = "ok"
  /\ E!Inline(o)
  /\ sock' \in Connected(o)
  /\ UNCHANGED <<role, pc, refused, past, resolveVars>>

ConnectEnds(o) ==
  /\ role = "connect"
  /\ E!Finish(o)
  /\ sock' \in Connected(o)
  /\ UNCHANGED <<role, pc, refused, past, resolveVars>>

\* A failed ResetEvent leaves the wait of the event disarmed for good: the end
\* of a later attempt is not noticed (event.rs 94-98).
Armed == "reset" \notin past

ConnectAnswer ==
  /\ pc = "attempt"
  /\ Armed
  /\ E!Answer
  /\ egiven' = eout
  /\ UNCHANGED <<role, pc, sock, refused, past, resolveVars>>

\* ResetEvent fails: an error, whatever became of the attempt.
ConnectResetFails ==
  /\ pc = "attempt"
  /\ Armed
  /\ E!Answer
  /\ egiven' = "err"
  /\ past' = past \cup {"reset"}
  /\ UNCHANGED <<role, pc, sock, refused, resolveVars>>

AttemptFailed ==
  /\ pc = "attempt"
  /\ egiven = "err"
  /\ pc' = "loop"
  /\ refused' = IF eout = "err" THEN refused \cup {cur} ELSE refused
  /\ UNCHANGED <<role, sock, past, eventVars, resolveVars>>

\* Mutant: no break, the loop goes on after a success.
AttemptOk_NoBreak ==
  /\ pc = "attempt"
  /\ egiven = "ok"
  /\ pc' = "loop"
  /\ UNCHANGED <<role, sock, refused, past, eventVars, resolveVars>>

\* break, and IoHandle::new.
AttemptOk ==
  /\ pc = "attempt"
  /\ egiven = "ok"
  /\ DropIter
  /\ sock' \in Streams(1)
  /\ pc' = IF sock'[1].refs = 1 THEN "ok" ELSE "err"
  /\ UNCHANGED <<role, refused, past, eventVars>>

\* The suspended future is dropped: the iterator goes first, then the event,
\* whose drop waits for the end of the attempt.
DropAttempt ==
  /\ pc = "attempt"
  /\ ephase \in {"inflight", "done"}
  /\ DropIter
  /\ pc' = "closing"
  /\ past' = past \cup {"dropped"}
  /\ UNCHANGED <<role, sock, refused, eventVars>>

DropAttempted ==
  /\ pc = "closing"
  /\ Armed
  /\ E!Close
  /\ pc' = "dropped"
  /\ sock' = Orphan(1)
  /\ UNCHANGED <<role, refused, past, resolveVars>>

\* What the thread that polls or drops the future does.
ConnectStep ==
  \/ role = "connect" /\ Begin
  \/ AwaitAddrs
  \/ Resolved
  \/ DropResolved
  \/ NextAttempt
  \/ NoneLeft
  \/ ConnectBegin
  \/ \E o \in E!Outcome : ConnectInline(o)
  \/ ConnectAnswer
  \/ AttemptFailed
  \/ AttemptOk
  \/ DropAttempted

=============================================================================
