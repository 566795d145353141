----------------------------- MODULE TcpListener -----------------------------
(***************************************************************************)
(* TcpListener::bind, Accept and Incoming (src/src/net/tcp/listener.rs),   *)
(* and the specification of both ends of TCP: one call of connect, or one  *)
(* of bind with the Accepts made one after another on the listener.        *)
(*                                                                         *)
(* An Accept makes the client's socket, its event and its buffer when it   *)
(* is created; a failure of the first two is kept and reported by the      *)
(* first poll.                                                             *)
(***************************************************************************)
EXTENDS TcpStream

VARIABLES
  apc,      \* the Accept: "none", "made", "pending", "given", "dropping"
  client,   \* its socket, 0 if socket::new failed
  aev,      \* its IoEvent was made
  buf,      \* its buffer is allocated
  incoming  \* it belongs to an Incoming

acceptVars == <<apc, client, aev, buf, incoming>>
vars == <<acceptVars, tcpVars, resolveVars>>

TypeOK ==
  /\ TcpTypeOK
  /\ apc \in {"none", "made", "pending", "given", "dropping"}
  /\ client \in Sockets \cup {0}
  /\ aev \in BOOLEAN
  /\ buf \in BOOLEAN
  /\ incoming \in BOOLEAN

Init ==
  /\ TcpInit
  /\ apc = "none"
  /\ client = 0
  /\ aev = FALSE
  /\ buf = FALSE
  /\ incoming = FALSE

-----------------------------------------------------------------------------
\* bind up to its await: here the calls that may fail are the two WSAIoctl.
bind ==
  /\ role = "bind"
  /\ Begin
  /\ UNCHANGED acceptVars

\* The rest of bind, which has no await: one address after another until the
\* socket is bound, then listen.
BindLoop ==
  /\ pc = "loop" /\ role = "bind"
  /\ \/ Remaining = {} /\ pc' = "notfound"
     \/ Remaining # {} /\ pc' \in {"err", "listening"}
  /\ sock' = IF pc' = "listening" THEN [sock EXCEPT ![1].by = "listener"] ELSE Orphan(1)
  /\ DropIter
  /\ UNCHANGED <<role, refused, past, eventVars, acceptVars>>

\* Drop for socket2::Socket.  An Accept borrows the listener.
DropListener ==
  /\ pc = "listening"
  /\ apc = "none"
  /\ pc' = "closed"
  /\ sock' = [sock EXCEPT ![1].by = "nobody", ![1].state = "closed"]
  /\ UNCHANGED <<role, refused, past, eventVars, acceptVars, resolveVars>>

-----------------------------------------------------------------------------
(***************************************************************************)
(* Accept.  `base` are the sockets as the step leaves them otherwise.      *)
(***************************************************************************)

NewEvent ==
  /\ en' = 0
  /\ ephase' = "idle"
  /\ eout' = "none"
  /\ egiven' = "none"

\* TcpListener::accept
MakeAccept(base) ==
  /\ apc' = "made"
  /\ \/ client' = 0 /\ sock' = base
     \/ \E s \in Sockets :
          /\ base[s].state = "none"
          /\ \A r \in 1 .. s - 1 : base[r].state # "none"
          /\ client' = s
          /\ sock' = [base EXCEPT ![s].state = "open", ![s].by = "future"]
  /\ aev' \in BOOLEAN
  /\ buf' = TRUE
  /\ NewEvent

EndAccept(base) ==
  /\ apc' = "none"
  /\ client' = 0
  /\ aev' = FALSE
  /\ buf' = FALSE
  /\ sock' = base
  /\ NewEvent

\* The sockets once the Accept has gone without having made a TcpStream.
ClientOrphaned == IF client = 0 THEN sock ELSE Orphan(client)

\* Mutant: Incoming polls the same Accept again.
AcceptOver_Reused(base) ==
  IF incoming
    THEN apc' = "made" /\ sock' = base /\ NewEvent /\ UNCHANGED <<client, aev, buf>>
    ELSE EndAccept(base)

\* The Accept is over: its owner drops it, Incoming replaces it.
AcceptOver(base) == IF incoming THEN MakeAccept(base) ELSE EndAccept(base)

accept ==
  /\ pc = "listening"
  /\ apc = "none"
  /\ MakeAccept(sock)
  /\ incoming' \in BOOLEAN
  /\ UNCHANGED <<role, pc, refused, past, resolveVars>>

\* The first poll finds an error of accept.
AcceptPollErr ==
  /\ apc = "made"
  /\ client = 0 \/ ~aev
  /\ AcceptOver(ClientOrphaned)
  /\ UNCHANGED <<incoming, role, pc, refused, past, resolveVars>>

AcceptBegin ==
  /\ apc = "made"
  /\ client # 0 /\ aev
  /\ E!Begin
  /\ apc' = "pending"
  /\ UNCHANGED <<client, aev, buf, incoming, role, pc, sock, refused, past, resolveVars>>

\* The client's socket after an AcceptEx that ended with o.
Accepted(o) == IF o = "ok" THEN [sock EXCEPT ![client].peer = 1] ELSE sock

AcceptInline(o) ==
  /\ apc = "made"
  /\ client # 0 /\ aev
  /\ E!Inline(o)
  /\ apc' = "given"
  /\ sock' = Accepted(o)
  /\ UNCHANGED <<client, aev, buf, incoming, role, pc, refused, past, resolveVars>>

\* A client connects, or the operation fails.
AcceptEnds(o) ==
  /\ role = "bind"
  /\ E!Finish(o)
  /\ sock' = Accepted(o)
  /\ UNCHANGED <<acceptVars, role, pc, refused, past, resolveVars>>

AcceptAnswer ==
  /\ apc = "pending"
  /\ E!Answer
  /\ apc' = "given"
  /\ past' = IF egiven' = eout THEN past ELSE past \cup {"reset"}
  /\ UNCHANGED <<client, aev, buf, incoming, role, pc, sock, refused, resolveVars>>

\* The end of Accept::poll: IoHandle::new and the TcpStream, or the error.
AcceptDone ==
  /\ apc = "given"
  /\ \E base \in IF egiven = "ok" THEN Streams(client) ELSE {ClientOrphaned} :
       AcceptOver(base)
  /\ UNCHANGED <<incoming, role, pc, refused, past, resolveVars>>

\* Mutant: the buffer is declared before the event and goes first.
DropAccept_BufFirst ==
  /\ apc = "pending"
  /\ apc' = "dropping"
  /\ buf' = FALSE
  /\ past' = past \cup {"dropped"}
  /\ UNCHANGED <<client, aev, incoming, role, pc, sock, refused, eventVars, resolveVars>>

\* An Accept or Incoming is dropped: before its first poll, or suspended, when
\* the drop of its event waits for the operation, and then the buffer goes.
DropAccept ==
  \/ /\ apc = "made"
     /\ EndAccept(ClientOrphaned)
     /\ UNCHANGED <<incoming, role, pc, refused, past, resolveVars>>
  \/ /\ apc = "pending"
     /\ apc' = "dropping"
     /\ past' = past \cup {"dropped"}
     /\ UNCHANGED <<client, aev, buf, incoming, role, pc, sock, refused, eventVars, resolveVars>>

AcceptDropped ==
  /\ apc = "dropping"
  /\ ephase \in {"idle", "done"}
  /\ EndAccept(ClientOrphaned)
  /\ UNCHANGED <<incoming, role, pc, refused, past, resolveVars>>

-----------------------------------------------------------------------------
AcceptStep ==
  \/ DropListener
  \/ accept
  \/ AcceptPollErr
  \/ AcceptBegin
  \/ \E o \in E!Outcome : AcceptInline(o) \/ AcceptEnds(o)
  \/ AcceptAnswer
  \/ AcceptDone
  \/ DropAccept
  \/ AcceptDropped

\* The operating system ends a lookup or an attempt to connect.
LookupOver == \E o \in L!Outcome : LookupEnds(o) /\ UNCHANGED <<tcpVars, acceptVars>>
AttemptOver == \E o \in E!Outcome : ConnectEnds(o) /\ UNCHANGED acceptVars

\* The thread that carries on with connect or bind.
Carry == (ConnectStep /\ UNCHANGED acceptVars) \/ bind \/ BindLoop

Drops == (DropResolving \/ DropAttempt) /\ UNCHANGED acceptVars

Next ==
  \/ Carry
  \/ LookupOver
  \/ AttemptOver
  \/ ConnectResetFails /\ UNCHANGED acceptVars
  \/ Drops
  \/ AcceptStep
  \/ \E s \in Sockets : (Split(s) \/ DropStream(s)) /\ UNCHANGED acceptVars

Spec == Init /\ [][Next]_vars

\* A future that is polled is carried on with, lookups and attempts to connect
\* end.  Nothing makes a client connect to a listener.
FairSpec == Spec /\ WF_vars(Carry) /\ WF_vars(LookupOver) /\ WF_vars(AttemptOver)

-----------------------------------------------------------------------------
(***************************************************************************)
(* Properties.                                                             *)
(***************************************************************************)

Ended == pc \in {"ok", "listening", "closed"} \cup Failed

\* When connect or bind has ended, the addresses that the operating system
\* allocated are freed, once; they are lost only with a future that was
\* dropped while its lookup ran, or whose event could not be reset.
ListReleased ==
  /\ Ended => holder \notin {"iter", "slot"}
  /\ holder = "lost" => (pc \in {"leaving", "dropped"} \/ ready = "err")

\* connect tries the addresses in the order of the list and leaves out none
\* that is an IP address: it goes on to a later one, or gives up, only when
\* those before have been refused (or the answer was lost).
AllTried ==
  [][(pc = "loop" /\ pc' \in {"attempt"} \cup Failed /\ role = "connect") =>
       \A i \in DOMAIN list :
         (list[i] \in Ip /\ (pc' = "attempt" => i < cur')) =>
            (i \in refused \/ "reset" \in past)]_vars

\* Whoever holds half of a TcpStream, or the listener, holds an open socket:
\* nothing is closed twice or while it is in use.  And a TcpStream is connected,
\* to an address that was not refused.
StreamUsable ==
  \A s \in Sockets :
    /\ (sock[s].refs > 0 \/ sock[s].by = "listener") => sock[s].state = "open"
    /\ sock[s].refs > 0 =>
         sock[s].peer # 0 /\ (role = "connect" => sock[s].peer \notin refused)

\* The socket that AcceptEx is given is open, has no peer yet, and nobody else
\* uses or closes it: Incoming never hands a client's socket out twice.
ClientExclusive ==
  (apc \in {"made", "pending"} /\ client # 0) =>
    /\ sock[client].state = "open"
    /\ sock[client].by = "future"
    /\ ephase = "idle" => sock[client].peer = 0

\* Memory lent to the operating system stays.  The buffer for the addresses
\* outlives the AcceptEx that writes to it, also when the Accept is dropped.
\* The strings, hints and slot of a lookup do not: the drop order of their
\* future frees them first, but only within its drop, and no other code of the
\* owner runs before the lookup has ended.
LentMemoryKept ==
  /\ (role = "bind" /\ ephase = "inflight") => buf
  /\ lphase = "inflight" => (mem \/ rpc = "dropping")

\* A connection that was made is handed out or closed; it is lost, open and
\* without an owner, only if a suspended future was dropped or ResetEvent
\* failed.  (A socket without connection is lost on every error path.)
NoLostConnection ==
  \A s \in Sockets :
    (sock[s].state = "open" /\ sock[s].by = "nobody" /\ sock[s].peer # 0) => past # {}

\* A connect or bind that has begun returns, or its drop does: whatever fails
\* on the way, as long as lookups and attempts end.  The one exception is an
\* event that could not be reset, which is used for the next address all the
\* same.
ConnectReturns == (pc # "start") ~> (Ended \/ "reset" \in past)

=============================================================================
