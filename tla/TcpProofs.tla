------------------------------ MODULE TcpProofs ------------------------------
(***************************************************************************)
(* Proofs about connect, bind and the Accepts (TcpListener), for every     *)
(* number of addresses and sockets: what happens to the sockets, to the    *)
(* list of addresses and to the memory that is lent to the operating       *)
(* system, whatever fails and wherever a future is dropped; and that       *)
(* connect passes over no address.                                         *)
(***************************************************************************)
EXTENDS TcpListener, WellFoundedInduction, TLAPS

\* A socket on its own, and the connection of one that nobody owns.
SocketOk(x) ==
  /\ x.state = "none" => x = NoSocket
  /\ x.refs > 0 => x.by = "stream" /\ x.state = "open" /\ x.peer # 0
  /\ x.by = "listener" => x.state = "open"
  /\ (x.state = "open" /\ x.by = "nobody" /\ x.peer # 0) => past # {}

\* The types of everything but the sockets.
Types ==
  /\ role \in {"connect", "bind"}
  /\ pc \in {"start", "resolve", "leaving", "loop", "attempt", "closing", "ok",
             "listening", "closed", "err", "notfound", "dropped"}
  /\ refused \subseteq 1 .. MaxAddrs
  /\ past \subseteq {"dropped", "reset"}
  /\ cur \in 0 .. MaxAddrs
  /\ list \in Seq(Family) /\ Len(list) <= MaxAddrs
  /\ source \in {"immediate", "slice", "lookup", "noevent", "none"}
  /\ rpc \in {"off", "live", "dropping", "gone"}
  /\ ready \in {"none", "ok", "err"}
  /\ mem \in BOOLEAN
  /\ holder \in {"none", "slot", "iter", "freed", "lost"}
  /\ client \in Sockets \cup {0}
  /\ apc \in {"none", "made", "pending", "given", "dropping"}
  /\ aev \in BOOLEAN
  /\ buf \in BOOLEAN
  /\ incoming \in BOOLEAN

\* The types of the lookup and of the event.
OpTypes ==
  /\ L!TypeOK
  /\ E!TypeOK

\* The lookup: where its future is, and who has to free the list.
ResolveInv ==
  /\ pc = "start" => rpc = "off"
  /\ rpc = "off" => lphase = "idle" /\ holder = "none" /\ ready = "none" /\ lgiven = "none"
  /\ rpc = "live" => pc = "resolve" /\ (source = "lookup" => mem)
  /\ rpc # "live" => ~mem
  /\ rpc = "dropping" => pc \in {"resolve", "leaving"} /\ (ready = "none" => pc = "leaving")
  /\ pc = "leaving" => rpc = "dropping" /\ ready = "none"
  /\ lphase \in {"inflight", "done"} =>
       rpc \in {"live", "dropping"} /\ ready = "none" /\ source = "lookup"
  /\ holder = "slot" => rpc = "live" /\ ready # "ok" /\ source = "lookup"
  /\ holder = "iter" => ready = "ok" /\ pc \in {"resolve", "loop", "attempt"}
  /\ holder = "lost" => pc \in {"leaving", "dropped"} \/ ready = "err"
  /\ pc = "resolve" => rpc # "off"
  /\ (rpc = "gone" /\ pc = "resolve") => ready # "none"
  /\ pc \in {"loop", "attempt"} => rpc = "gone" /\ ready = "ok"

\* The event, of connect or of the current Accept.
EventInv ==
  /\ egiven = "ok" => eout = "ok"
  /\ egiven # "none" => eout \in {"ok", "err"} /\ ephase \in {"idle", "closed"}
  /\ ephase = "done" => eout \in {"ok", "err"}
  /\ ephase = "inflight" => eout = "inflight"
  /\ ephase = "closed" => pc = "dropped"

\* The Accept: its event tells whether its socket has a peer.
AcceptInv ==
  /\ role = "bind" => pc \notin {"attempt", "closing", "ok"}
  /\ role = "connect" => pc \notin {"listening", "closed"}
  /\ apc # "none" => role = "bind" /\ pc = "listening" /\ buf
  /\ role = "bind" /\ apc \in {"none", "made"} =>
       ephase = "idle" /\ eout = "none" /\ egiven = "none"
  /\ apc = "given" => ephase = "idle" /\ egiven # "none"
  /\ apc = "pending" => ephase \in {"inflight", "done"} /\ egiven = "none"
  /\ apc \in {"pending", "given", "dropping"} => client # 0
  /\ apc = "dropping" => "dropped" \in past
  /\ (apc # "none" /\ client # 0) =>
       /\ sock[client].state = "open"
       /\ sock[client].by = "future"
       /\ sock[client].peer # 0 <=> eout = "ok"
  /\ apc = "given" /\ egiven = "err" /\ eout = "ok" => "reset" \in past

\* The sockets, whoever uses them.
SocketInv ==
  /\ sock \in [Sockets -> Socket]
  /\ \A s \in Sockets : SocketOk(sock[s])

\* The first socket is the future's, and then the listener's.
FirstInv ==
  /\ pc = "start" => \A s \in Sockets : sock[s] = NoSocket
  /\ pc \in {"resolve", "leaving", "loop", "attempt", "closing"} =>
       /\ sock[1].state = "open" /\ sock[1].by = "future"
       /\ role = "bind" => sock[1].peer = 0
  /\ pc = "listening" => sock[1].by = "listener"

\* The attempts of connect: only the first socket is used, it has a peer if the
\* event says so, and no attempt has been made on a later address.
ConnectInv ==
  role = "connect" =>
    /\ \A s \in Sockets : s # 1 => sock[s].refs = 0
    /\ eout = "ok" <=> sock[1].peer # 0
    /\ sock[1].peer \notin refused
    /\ ephase = "inflight" => pc \in {"attempt", "closing"}
    /\ pc \in {"attempt", "closing"} => cur > 0 /\ \A r \in refused : r < cur
    /\ pc = "loop" => \A r \in refused : r <= cur
    /\ pc \in {"start", "resolve", "leaving"} =>
         /\ refused = {} /\ cur = 0
         /\ eout = "none" /\ egiven = "none" /\ ephase = "idle"
    /\ pc = "loop" => ephase = "idle" /\ egiven # "ok" /\ (eout = "ok" => "reset" \in past)
    /\ (pc = "loop" /\ egiven = "none") => eout = "none"
    /\ (pc = "attempt" /\ ephase = "idle" /\ egiven # "ok" /\ eout = "ok") => "reset" \in past
    /\ pc = "closing" => "dropped" \in past

\* The addresses before the current one have been tried.
Tried(i) == list[i] \in Ip => (i \in refused \/ "reset" \in past)

OrderInv ==
  role = "connect" =>
    /\ pc = "loop" => \A i \in 1 .. Len(list) : i <= cur => Tried(i)
    /\ pc = "attempt" => \A i \in 1 .. Len(list) : i < cur => Tried(i)

IInv ==
  /\ Types
  /\ OpTypes
  /\ ResolveInv
  /\ EventInv
  /\ AcceptInv
  /\ SocketInv
  /\ FirstInv
  /\ ConnectInv
  /\ OrderInv

-----------------------------------------------------------------------------
(***************************************************************************)
(* Facts about the operators of the model.                                 *)
(***************************************************************************)

\* The socket of connect and bind is one of the sockets.
LEMMA FirstSocket == 1 \in Sockets
  BY TcpAssumption DEF Sockets

\* A set of numbers has a least one: there is a next address.
LEMMA Least ==
  ASSUME NEW S, S \subseteq Nat, S # {}
  PROVE  \E x \in S : \A y \in S : x <= y
<1>1. PICK x \in S : \A y \in S : ~ (<<y, x>> \in OpToRel(<, Nat))
  BY WFMin, NatLessThanWellFounded, Zenon
<1>2. \A y \in S : ~ (y < x)
  BY <1>1 DEF OpToRel
<1> QED
  BY <1>2

\* The empty list, which an iterator leaves.
LEMMA EmptyList == <<>> \in Seq(Family) /\ Len(<<>>) = 0
  OBVIOUS

\* What is in Lists is a sequence, not longer than the bound ...
LEMMA ListsAreSeqs ==
  ASSUME NEW S, S \subseteq Family, NEW k \in Nat, NEW l \in Lists(S, k)
  PROVE  l \in Seq(Family) /\ Len(l) <= MaxAddrs
<1>1. PICK j \in k .. MaxAddrs : l \in [1 .. j -> S]
  BY DEF Lists
<1>2. l \in Seq(Family) /\ Len(l) = j
  BY <1>1, TcpAssumption
<1> QED
  BY <1>1, <1>2, TcpAssumption

\* ... and the other way round.
LEMMA SeqsAreLists ==
  ASSUME NEW l \in Seq(Family), Len(l) <= MaxAddrs
  PROVE  l \in Lists(Family, 0)
<1>1. Len(l) \in 0 .. MaxAddrs /\ l \in [1 .. Len(l) -> Family]
  BY TcpAssumption
<1> QED
  BY <1>1 DEF Lists

\* What the owners write into a socket is well-typed.
LEMMA SocketUpdates ==
  ASSUME NEW x \in Socket
  PROVE  /\ [x EXCEPT !.state = "open", !.by = "future"] \in Socket
         /\ [x EXCEPT !.refs = 0, !.by = "nobody", !.state = "closed"] \in Socket
         /\ [x EXCEPT !.refs = 1] \in Socket
<1>1. ASSUME NEW y \in Socket
      PROVE  /\ [y EXCEPT !.state = "open"] \in Socket
             /\ [y EXCEPT !.state = "closed"] \in Socket
             /\ [y EXCEPT !.by = "future"] \in Socket
             /\ [y EXCEPT !.by = "nobody"] \in Socket
             /\ [y EXCEPT !.refs = 0] \in Socket
             /\ [y EXCEPT !.refs = 1] \in Socket
  BY DEF Socket
<1>2. [x EXCEPT !.state = "open", !.by = "future"] \in Socket
  BY <1>1, Zenon
<1>3. [x EXCEPT !.refs = 0, !.by = "nobody", !.state = "closed"] \in Socket
  BY <1>1, Zenon
<1> QED
  BY <1>1, <1>2, <1>3

\* A step that changes one socket, or none, and forgets nothing.
LEMMA OneSocket ==
  ASSUME SocketInv, NEW s \in Sockets, sock' \in [Sockets -> Socket],
         \A r \in Sockets : r # s => sock'[r] = sock[r],
         SocketOk(sock'[s]), past \subseteq past'
  PROVE  SocketInv'
  BY DEF SocketInv, SocketOk

\* A socket that goes out of scope.
LEMMA OrphanIs ==
  ASSUME SocketInv, NEW s \in Sockets, sock[s].state = "open", sock[s].by # "stream",
         sock[s].peer # 0 => past # {}
  PROVE  /\ Orphan(s) \in [Sockets -> Socket]
         /\ \A r \in Sockets : SocketOk(Orphan(s)[r])
         /\ \A r \in Sockets : r # s => Orphan(s)[r] = sock[r]
         /\ Orphan(s)[s].state = "open" /\ Orphan(s)[s].by = "nobody"
         /\ Orphan(s)[s].peer = sock[s].peer /\ Orphan(s)[s].refs = sock[s].refs
  BY DEF SocketInv, SocketOk, Orphan, Socket

\* A socket with a peer that an IoHandle takes over.
LEMMA StreamsAre ==
  ASSUME SocketInv, NEW s \in Sockets, sock[s].state = "open", sock[s].by = "future",
         sock[s].peer # 0, NEW b \in Streams(s)
  PROVE  /\ b \in [Sockets -> Socket]
         /\ \A r \in Sockets : SocketOk(b[r])
         /\ \A r \in Sockets : r # s => b[r] = sock[r]
         /\ b[s].peer = sock[s].peer
         /\ b[s].refs \in {0, 1}
<1>1. CASE b = [sock EXCEPT ![s].by = "stream", ![s].refs = 1]
  BY <1>1 DEF SocketInv, SocketOk, Socket
<1>2. CASE b = [sock EXCEPT ![s].by = "nobody", ![s].state = "closed"]
  BY <1>2 DEF SocketInv, SocketOk, Socket
<1> QED
  BY <1>1, <1>2 DEF Streams

\* A ConnectEx that ended gives the first socket a peer or leaves all alone.
LEMMA ConnectedIs ==
  ASSUME SocketInv, Types, sock[1].state = "open", sock[1].by = "future",
         NEW o \in {"ok", "err"}, NEW b \in Connected(o), cur > 0
  PROVE  /\ b \in [Sockets -> Socket]
         /\ \A r \in Sockets : SocketOk(b[r])
         /\ \A r \in Sockets : r # 1 => b[r] = sock[r]
         /\ b[1].state = "open" /\ b[1].by = "future" /\ b[1].refs = sock[1].refs
         /\ b[1].peer # 0 <=> (o = "ok" \/ sock[1].peer # 0)
         /\ b[1].peer \in {sock[1].peer, cur, Astray}
<1>1. CASE o = "ok" /\ sock[1].peer = 0
  <2>1. PICK a \in Reached : b = [sock EXCEPT ![1].peer = a]
    BY <1>1 DEF Connected
  <2>2. a \in {cur, Astray}
    BY <2>1 DEF Reached
  <2>3. a \in 1 .. Astray
    BY <2>2, TcpAssumption DEF Types, Astray
  <2>4. a # 0 /\ a \in 0 .. Astray
    BY <2>3, TcpAssumption DEF Astray
  <2> HIDE DEF Astray
  <2> QED
    BY <1>1, <2>1, <2>2, <2>4, FirstSocket DEF SocketInv, SocketOk, Socket
<1>2. CASE ~ (o = "ok" /\ sock[1].peer = 0)
  <2>1. b = sock
    BY <1>2 DEF Connected
  <2> QED
    BY <1>2, <2>1 DEF SocketInv
<1> QED
  BY <1>1, <1>2

\* An Accept is made on the sockets b: its own was not used before.
LEMMA MakeAcceptKeeps ==
  ASSUME NEW b \in [Sockets -> Socket], \A s \in Sockets : SocketOk(b[s]),
         b[1].by = "listener",
         MakeAccept(b), role = "bind", pc = "listening",
         UNCHANGED <<role, pc, past>>
  PROVE  SocketInv' /\ FirstInv' /\ AcceptInv' /\ client' \in Sockets \cup {0}
<1>1. CASE client' = 0 /\ sock' = b
  BY <1>1 DEF MakeAccept, NewEvent, SocketInv, SocketOk, FirstInv, AcceptInv
<1>2. CASE \E s \in Sockets :
             /\ b[s].state = "none"
             /\ client' = s
             /\ sock' = [b EXCEPT ![s].state = "open", ![s].by = "future"]
  <2>1. PICK s \in Sockets : /\ b[s].state = "none"
                             /\ client' = s
                             /\ sock' = [b EXCEPT ![s].state = "open", ![s].by = "future"]
    BY <1>2
  <2>2. b[s] = NoSocket
    BY <2>1 DEF SocketOk
  <2>3. sock' \in [Sockets -> Socket]
    <3>1. [b[s] EXCEPT !.state = "open", !.by = "future"] \in Socket
      BY SocketUpdates
    <3>2. sock' = [b EXCEPT ![s] = [b[s] EXCEPT !.state = "open", !.by = "future"]]
      BY <2>1
    <3> QED
      BY <3>1, <3>2
  <2>4. sock'[s].state = "open" /\ sock'[s].by = "future" /\ sock'[s].peer = 0 /\ sock'[s].refs = 0
    BY <2>1, <2>2 DEF NoSocket
  <2>5. \A r \in Sockets : SocketOk(sock[r])'
    BY <2>1, <2>3, <2>4 DEF SocketOk
  <2>6. sock'[1].by = "listener"
    BY <2>1, <2>2, FirstSocket DEF NoSocket
  <2> QED
    BY <2>1, <2>3, <2>4, <2>5, <2>6 DEF MakeAccept, NewEvent, SocketInv, FirstInv, AcceptInv
<1> QED
  BY <1>1, <1>2 DEF MakeAccept

\* An Accept ends and leaves the sockets b.
LEMMA EndAcceptKeeps ==
  ASSUME NEW b \in [Sockets -> Socket], \A s \in Sockets : SocketOk(b[s]),
         b[1].by = "listener",
         EndAccept(b), role = "bind", pc = "listening",
         UNCHANGED <<role, pc, past>>
  PROVE  SocketInv' /\ FirstInv' /\ AcceptInv' /\ client' \in Sockets \cup {0}
  BY DEF EndAccept, NewEvent, SocketInv, SocketOk, FirstInv, AcceptInv

\* Incoming goes on with another Accept, or not.
LEMMA AcceptOverKeeps ==
  ASSUME NEW b \in [Sockets -> Socket], \A s \in Sockets : SocketOk(b[s]),
         b[1].by = "listener",
         AcceptOver(b), role = "bind", pc = "listening",
         UNCHANGED <<role, pc, past>>
  PROVE  SocketInv' /\ FirstInv' /\ AcceptInv' /\ client' \in Sockets \cup {0}
  BY MakeAcceptKeeps, EndAcceptKeeps DEF AcceptOver

\* The socket of an Accept is open, its own, and not the listener's.
LEMMA ClientIs ==
  ASSUME IInv, apc # "none", client # 0
  PROVE  /\ client \in Sockets /\ client # 1
         /\ sock[client].state = "open" /\ sock[client].by = "future"
         /\ sock[client].peer # 0 <=> eout = "ok"
  BY DEF IInv, Types, AcceptInv, FirstInv

\* The sockets that an Accept leaves which made no TcpStream: a connection is
\* lost only if an operation was cut short.
LEMMA OrphanedIs ==
  ASSUME IInv, apc # "none", eout = "ok" => past # {}
  PROVE  /\ ClientOrphaned \in [Sockets -> Socket]
         /\ \A s \in Sockets : SocketOk(ClientOrphaned[s])
         /\ ClientOrphaned[1].by = "listener"
<1>1. sock[1].by = "listener" /\ SocketInv
  BY DEF IInv, AcceptInv, FirstInv
<1>2. CASE client = 0
  BY <1>1, <1>2 DEF ClientOrphaned, SocketInv
<1>3. CASE client # 0
  <2>1. sock[client].by # "stream" /\ (sock[client].peer # 0 => past # {})
    BY <1>3, ClientIs
  <2> QED
    BY <1>1, <1>3, <2>1, ClientIs, OrphanIs, FirstSocket DEF ClientOrphaned
<1> QED
  BY <1>2, <1>3

\* An AcceptEx that ended gives the Accept's socket a peer or leaves all alone.
LEMMA AcceptedIs ==
  ASSUME IInv, apc # "none", client # 0, NEW o \in {"ok", "err"}
  PROVE  /\ Accepted(o) \in [Sockets -> Socket]
         /\ \A r \in Sockets : SocketOk(Accepted(o)[r])
         /\ \A r \in Sockets : r # client => Accepted(o)[r] = sock[r]
         /\ Accepted(o)[client].state = "open" /\ Accepted(o)[client].by = "future"
         /\ Accepted(o)[client].peer # 0 <=> (o = "ok" \/ sock[client].peer # 0)
<1>1. 1 \in 0 .. Astray
  BY TcpAssumption DEF Astray
<1>2. CASE o = "ok"
  BY <1>1, <1>2, ClientIs DEF IInv, SocketInv, SocketOk, Socket, Accepted
<1>3. CASE o = "err"
  BY <1>3, ClientIs DEF IInv, SocketInv, Accepted
<1> QED
  BY <1>2, <1>3

\* The next address: the least of those that are left.
LEMMA NextIs ==
  ASSUME Types, NextAddr
  PROVE  /\ cur' \in cur + 1 .. Len(list)
         /\ \A i \in cur + 1 .. Len(list) : list[i] \in Ip => cur' <= i
<1>1. Remaining \subseteq Nat /\ Remaining # {}
  BY DEF Types, NextAddr, Remaining
<1>2. \E i \in Remaining : \A j \in Remaining : i <= j
  BY <1>1, Least
<1>3. cur' \in Remaining /\ \A j \in Remaining : cur' <= j
  BY <1>2, Zenon DEF NextAddr
<1> QED
  BY <1>3 DEF Remaining

-----------------------------------------------------------------------------
(***************************************************************************)
(* The initial state, and one lemma for each action.                       *)
(***************************************************************************)

\* The program starts with nothing made.
LEMMA InitIInv == Init => IInv
<1> SUFFICES ASSUME Init PROVE IInv
  OBVIOUS
<1> USE DEF Init, TcpInit, ResolveInit, L!Init, E!Init
<1>1. Types
  <2>1. list \in Seq(Family) /\ Len(list) <= MaxAddrs /\ cur \in 0 .. MaxAddrs
    BY EmptyList, TcpAssumption
  <2>2. mem \in BOOLEAN /\ aev \in BOOLEAN /\ buf \in BOOLEAN /\ incoming \in BOOLEAN
    OBVIOUS
  <2> QED
    BY <2>1, <2>2 DEF Types
<1>2. OpTypes
  BY TcpAssumption DEF OpTypes, L!TypeOK, E!TypeOK, L!Outcome, E!Outcome
<1>3. ResolveInv /\ EventInv /\ AcceptInv /\ OrderInv
  BY DEF ResolveInv, EventInv, AcceptInv, OrderInv
<1>4. SocketInv /\ FirstInv /\ ConnectInv
  BY FirstSocket, TcpAssumption
  DEF SocketInv, SocketOk, FirstInv, ConnectInv, Socket, NoSocket, Astray
<1> QED
  BY <1>1, <1>2, <1>3, <1>4 DEF IInv

\* connect and bind up to their first await: at most the first socket is made.
LEMMA BeginKeeps ==
  ASSUME IInv, Begin, UNCHANGED acceptVars
  PROVE  IInv'
<1> USE DEF Begin, to_socket_addrs, get_addr_info, Opened, Immediate, Lookup,
    Ip, acceptVars, tcpVars, eventVars, resolveVars, lookupVars
<1>1. Types'
  <2>1. list' \in Seq(Family) /\ Len(list') <= MaxAddrs
    <3>1. CASE list' \in [1 .. 1 -> Ip]
      <4>1. list' \in Lists(Ip, 0)
        BY <3>1, TcpAssumption DEF Lists
      <4> QED
        BY <4>1, ListsAreSeqs DEF Family
    <3>2. CASE list' \in Lists(Ip, 0)
      BY <3>2, ListsAreSeqs DEF Family
    <3>3. CASE UNCHANGED list
      BY <3>3 DEF IInv, Types
    <3> QED
      BY <3>1, <3>2, <3>3
  <2>2. /\ pc' \in {"resolve", "err"}
        /\ source' \in {"immediate", "slice", "lookup", "noevent", source}
        /\ rpc' \in {"live", rpc}
    OBVIOUS
  <2>3. UNCHANGED <<role, refused, past, ready, holder, cur>>
    OBVIOUS
  <2>4. mem' \in BOOLEAN
    BY DEF IInv, Types
  <2> HIDE DEF Begin
  <2> QED
    BY <2>1, <2>2, <2>3, <2>4 DEF IInv, Types
<1>2. OpTypes'
  BY DEF IInv, OpTypes, L!TypeOK, E!TypeOK, L!Outcome, E!Outcome
<1>3. ResolveInv'
  BY DEF IInv, ResolveInv
<1>4. EventInv'
  BY DEF IInv, EventInv
<1>5. AcceptInv'
  BY DEF IInv, AcceptInv
<1>6. SocketInv'
  BY FirstSocket DEF IInv, SocketInv, SocketOk, Socket, NoSocket
<1>7. FirstInv'
  BY FirstSocket
  DEF IInv, FirstInv, AcceptInv, Types, SocketInv, SocketOk, Socket, NoSocket
<1>8. ConnectInv'
  BY FirstSocket
  DEF IInv, ConnectInv, AcceptInv, Types, EventInv, SocketInv, FirstInv,
      SocketOk, Socket, NoSocket
<1>9. OrderInv'
  BY DEF IInv, OrderInv, Tried
<1> QED
  BY <1>1, <1>2, <1>3, <1>4, <1>5, <1>6, <1>7, <1>8, <1>9 DEF IInv

\* The lookup is polled and its future dropped.
LEMMA AwaitAddrsKeeps ==
  ASSUME IInv, AwaitAddrs, UNCHANGED acceptVars
  PROVE  IInv'
<1> USE DEF PollAtOnce, PollBegin, PollInline, PollAnswer, Resolving,
    DropResolve, DropResolveEvent, L!Begin, L!Inline, L!Answer, L!Close,
    L!Outcome, Immediate, Lookup, Ip, acceptVars, tcpVars, eventVars,
    resolveVars, lookupVars
<1>1. Types'
  <2>1. list' \in Seq(Family) /\ Len(list') <= MaxAddrs
    <3>1. UNCHANGED list \/ list' \in Lists(Family, 1)
      BY DEF AwaitAddrs, ResolvePoll
    <3> QED
      BY <3>1, ListsAreSeqs DEF IInv, Types
  <2>2. mem' \in BOOLEAN
    BY DEF IInv, Types, AwaitAddrs, ResolvePoll
  <2>3. rpc' \in {"live", "dropping", "gone"} /\ UNCHANGED <<source, cur, tcpVars>>
    BY DEF IInv, ResolveInv, AwaitAddrs, ResolvePoll
  <2>4. ready' \in {"ok", "err", ready} /\ holder' \in {"iter", "lost", holder}
    BY DEF AwaitAddrs, ResolvePoll
  <2> QED
    BY <2>1, <2>2, <2>3, <2>4 DEF IInv, Types
<1>2. OpTypes'
  BY TcpAssumption
  DEF IInv, OpTypes, L!TypeOK, E!TypeOK, E!Outcome, AwaitAddrs, ResolvePoll
<1>3. ResolveInv'
  <2>1. pc = "resolve" /\ UNCHANGED tcpVars
    BY DEF AwaitAddrs
  <2>2. CASE PollAtOnce
    BY <2>1, <2>2 DEF IInv, ResolveInv
  <2>3. CASE PollBegin
    BY <2>1, <2>3 DEF IInv, ResolveInv
  <2>4. ASSUME NEW o \in L!Outcome, PollInline(o) PROVE ResolveInv'
    BY <2>1, <2>4 DEF IInv, ResolveInv
  <2>5. CASE PollAnswer
    <3>1. ready' \in {"ok", "err"} /\ lphase' = "idle" /\ rpc = "live" /\ ready = "none"
      BY <2>5
    <3>2. holder' = IF ready' = "ok" /\ holder = "slot" THEN "iter" ELSE holder
      BY <2>5
    <3>3. UNCHANGED <<rpc, source, mem>>
      BY <2>5
    <3> HIDE DEF PollAnswer
    <3>4. CASE ready' = "ok"
      BY <2>1, <3>1, <3>2, <3>3, <3>4 DEF IInv, ResolveInv
    <3>5. CASE ready' = "err"
      BY <2>1, <3>1, <3>2, <3>3, <3>5 DEF IInv, ResolveInv
    <3> QED
      BY <3>1, <3>4, <3>5
  <2>6. CASE ready # "none" /\ DropResolve
    BY <2>1, <2>6 DEF IInv, Types, ResolveInv
  <2>7. CASE DropResolveEvent
    BY <2>1, <2>7 DEF IInv, ResolveInv
  <2> QED
    BY <2>2, <2>3, <2>4, <2>5, <2>6, <2>7 DEF AwaitAddrs, ResolvePoll
<1>4. EventInv'
  BY DEF IInv, EventInv, AwaitAddrs, ResolvePoll
<1>5. AcceptInv'
  BY DEF IInv, AcceptInv, AwaitAddrs, ResolvePoll
<1>6. SocketInv'
  BY DEF IInv, SocketInv, SocketOk, AwaitAddrs, ResolvePoll
<1>7. FirstInv'
  BY DEF IInv, FirstInv, AwaitAddrs, ResolvePoll
<1>8. ConnectInv'
  BY DEF IInv, ConnectInv, AwaitAddrs, ResolvePoll
<1>9. OrderInv'
  BY DEF IInv, OrderInv, Tried, AwaitAddrs, ResolvePoll
<1> QED
  BY <1>1, <1>2, <1>3, <1>4, <1>5, <1>6, <1>7, <1>8, <1>9 DEF IInv

\* The addresses are known, or connect and bind give up.
LEMMA ResolvedKeeps ==
  ASSUME IInv, Resolved, UNCHANGED acceptVars
  PROVE  IInv'
<1> USE DEF Resolved, acceptVars, tcpVars, eventVars, resolveVars, lookupVars
<1>1. Types'
  BY DEF IInv, Types
<1>2. OpTypes'
  BY DEF IInv, OpTypes, L!TypeOK, E!TypeOK, L!Outcome, E!Outcome
<1>3. ResolveInv'
  BY DEF IInv, ResolveInv
<1>4. EventInv'
  BY DEF IInv, EventInv
<1>5. AcceptInv'
  BY DEF IInv, AcceptInv
<1>6. SocketInv'
  <2>1. sock[1].state = "open" /\ sock[1].by = "future" /\ sock[1].peer = 0
    BY DEF IInv, Types, FirstInv, ConnectInv
  <2>2. SocketInv
    BY DEF IInv
  <2>3. sock' = sock \/ sock' = Orphan(1)
    OBVIOUS
  <2> QED
    BY <2>1, <2>2, <2>3, OrphanIs, FirstSocket DEF SocketInv, SocketOk
<1>7. FirstInv'
  BY DEF IInv, FirstInv
<1>8. ConnectInv'
  BY FirstSocket
  DEF IInv, ConnectInv, AcceptInv, Types, EventInv, SocketInv, FirstInv,
      SocketOk, Socket, NoSocket, Orphan
<1>9. OrderInv'
  BY DEF IInv, OrderInv, Tried, Types, ConnectInv, EventInv
<1> QED
  BY <1>1, <1>2, <1>3, <1>4, <1>5, <1>6, <1>7, <1>8, <1>9 DEF IInv

\* The rest of a future that was dropped during its lookup.
LEMMA DropResolvedKeeps ==
  ASSUME IInv, DropResolved, UNCHANGED acceptVars
  PROVE  IInv'
<1> USE DEF DropResolved, DropResolveEvent, L!Close, acceptVars, tcpVars,
    eventVars, resolveVars, lookupVars
<1>1. Types'
  BY DEF IInv, Types
<1>2. OpTypes'
  BY DEF IInv, OpTypes, L!TypeOK, E!TypeOK, L!Outcome, E!Outcome
<1>3. ResolveInv'
  BY DEF IInv, ResolveInv
<1>4. EventInv'
  BY DEF IInv, EventInv
<1>5. AcceptInv'
  BY DEF IInv, AcceptInv
<1>6. SocketInv'
  <2>1. sock[1].state = "open" /\ sock[1].by = "future" /\ (sock[1].peer # 0 => past # {})
    BY DEF IInv, Types, FirstInv, ConnectInv
  <2>2. SocketInv
    BY DEF IInv
  <2> QED
    BY <2>1, <2>2, OrphanIs, FirstSocket DEF SocketInv, SocketOk
<1>7. FirstInv'
  BY DEF IInv, FirstInv
<1>8. ConnectInv'
  BY DEF IInv, ConnectInv, Orphan
<1>9. OrderInv'
  BY DEF IInv, OrderInv, Tried
<1> QED
  BY <1>1, <1>2, <1>3, <1>4, <1>5, <1>6, <1>7, <1>8, <1>9 DEF IInv

\* The next address is the least that is left, so none is passed over.
LEMMA NextAttemptKeeps ==
  ASSUME IInv, NextAttempt, UNCHANGED acceptVars
  PROVE  IInv'
<1> USE DEF NextAttempt, E!Retry, acceptVars, tcpVars, eventVars, resolveVars,
    lookupVars
<1>1. Types'
  <2>1. cur' \in 0 .. MaxAddrs
    BY NextIs, TcpAssumption DEF IInv, Types
  <2>2. UNCHANGED <<source, rpc, ready, mem, list, holder>>
    BY DEF NextAddr
  <2> QED
    BY <2>1, <2>2 DEF IInv, Types
<1>2. OpTypes'
  BY DEF IInv, OpTypes, L!TypeOK, E!TypeOK, L!Outcome, E!Outcome, NextAddr
<1>3. ResolveInv'
  BY DEF IInv, ResolveInv, NextAddr
<1>4. EventInv'
  BY DEF IInv, EventInv, NextAddr
<1>5. AcceptInv'
  BY DEF IInv, AcceptInv
<1>6. SocketInv'
  BY DEF IInv, SocketInv, SocketOk
<1>7. FirstInv'
  BY DEF IInv, FirstInv
<1>8. ConnectInv'
  <2>1. cur' > cur
    BY NextIs DEF IInv, Types
  <2>2. cur \in Nat /\ cur' \in Nat /\ \A r \in refused : r \in Nat
    BY NextIs DEF IInv, Types
  <2> QED
    BY <2>1, <2>2 DEF IInv, ConnectInv
<1>9. OrderInv'
  <2> SUFFICES ASSUME NEW i \in 1 .. Len(list), i < cur', list[i] \in Ip
               PROVE  i \in refused \/ "reset" \in past
    BY DEF OrderInv, Tried, NextAddr
  <2>1. i <= cur
    BY NextIs DEF IInv, Types
  <2> QED
    BY <2>1 DEF IInv, OrderInv, Tried
<1> QED
  BY <1>1, <1>2, <1>3, <1>4, <1>5, <1>6, <1>7, <1>8, <1>9 DEF IInv

\* The loop ends without a connection, except one that a failed ResetEvent hid.
LEMMA NoneLeftKeeps ==
  ASSUME IInv, NoneLeft, UNCHANGED acceptVars
  PROVE  IInv'
<1> USE DEF NoneLeft, DropIter, acceptVars, tcpVars, eventVars, resolveVars,
    lookupVars
<1>1. Types'
  BY EmptyList, TcpAssumption DEF IInv, Types
<1>2. OpTypes'
  BY DEF IInv, OpTypes, L!TypeOK, E!TypeOK, L!Outcome, E!Outcome
<1>3. ResolveInv'
  BY DEF IInv, ResolveInv
<1>4. EventInv'
  BY DEF IInv, EventInv
<1>5. AcceptInv'
  BY DEF IInv, AcceptInv
<1>6. SocketInv'
  <2>1. sock[1].state = "open" /\ sock[1].by = "future" /\ (sock[1].peer # 0 => past # {})
    BY DEF IInv, FirstInv, ConnectInv
  <2>2. SocketInv
    BY DEF IInv
  <2> QED
    BY <2>1, <2>2, OrphanIs, FirstSocket DEF SocketInv, SocketOk
<1>7. FirstInv'
  BY DEF IInv, FirstInv
<1>8. ConnectInv'
  BY DEF IInv, ConnectInv, Orphan
<1>9. OrderInv'
  BY DEF IInv, OrderInv, Tried
<1> QED
  BY <1>1, <1>2, <1>3, <1>4, <1>5, <1>6, <1>7, <1>8, <1>9 DEF IInv

\* ConnectEx goes pending.
LEMMA ConnectBeginKeeps ==
  ASSUME IInv, ConnectBegin, UNCHANGED acceptVars
  PROVE  IInv'
<1> USE DEF ConnectBegin, E!Begin, acceptVars, tcpVars, eventVars,
    resolveVars, lookupVars
<1>1. Types'
  BY DEF IInv, Types
<1>2. OpTypes'
  BY TcpAssumption DEF IInv, OpTypes, L!TypeOK, E!TypeOK, L!Outcome, E!Outcome
<1>3. ResolveInv'
  BY DEF IInv, ResolveInv
<1>4. EventInv'
  BY DEF IInv, EventInv
<1>5. AcceptInv'
  BY DEF IInv, AcceptInv
<1>6. SocketInv'
  BY DEF IInv, SocketInv, SocketOk
<1>7. FirstInv'
  BY DEF IInv, FirstInv
<1>8. ConnectInv'
  BY DEF IInv, ConnectInv
<1>9. OrderInv'
  BY DEF IInv, OrderInv, Tried
<1> QED
  BY <1>1, <1>2, <1>3, <1>4, <1>5, <1>6, <1>7, <1>8, <1>9 DEF IInv

\* ConnectEx answers at once.
LEMMA ConnectInlineKeeps ==
  ASSUME IInv, NEW o \in {"ok", "err"}, ConnectInline(o), UNCHANGED acceptVars
  PROVE  IInv'
<1> USE DEF ConnectInline, E!Inline, acceptVars, tcpVars, eventVars,
    resolveVars, lookupVars
<1>1. Types'
  BY DEF IInv, Types
<1>2. OpTypes'
  BY TcpAssumption DEF IInv, OpTypes, L!TypeOK, E!TypeOK, L!Outcome, E!Outcome
<1>3. ResolveInv'
  BY DEF IInv, ResolveInv
<1>4. EventInv'
  BY DEF IInv, EventInv
<1>5. AcceptInv'
  BY DEF IInv, AcceptInv
<1>6. SocketInv' /\ FirstInv' /\ ConnectInv'
  <2>1. role = "connect" /\ pc \in {"attempt", "closing"} /\ cur > 0 /\ cur \notin refused
    BY DEF IInv, Types, AcceptInv, ConnectInv
  <2>2. SocketInv /\ Types /\ sock[1].state = "open" /\ sock[1].by = "future"
    BY <2>1 DEF IInv, FirstInv
  <2>3. /\ sock' \in [Sockets -> Socket]
        /\ \A r \in Sockets : SocketOk(sock'[r])
        /\ \A r \in Sockets : r # 1 => sock'[r] = sock[r]
        /\ sock'[1].state = "open" /\ sock'[1].by = "future"
        /\ sock'[1].peer # 0 <=> (o = "ok" \/ sock[1].peer # 0)
        /\ sock'[1].peer \in {sock[1].peer, cur, Astray}
    BY <2>1, <2>2, ConnectedIs
  <2>4. Astray \notin refused
    BY TcpAssumption DEF IInv, Types, Astray
  <2>5. sock'[1].peer \notin refused
    BY <2>1, <2>3, <2>4 DEF IInv, ConnectInv
  <2>6. o = "err" => sock[1].peer = 0
    BY <2>1
  <2>7. SocketInv' /\ FirstInv'
    BY <2>1, <2>3 DEF SocketInv, SocketOk, FirstInv
  <2>8. ConnectInv'
    BY <2>1, <2>3, <2>5, <2>6 DEF IInv, ConnectInv
  <2> QED
    BY <2>7, <2>8
<1>9. OrderInv'
  BY DEF IInv, OrderInv, Tried
<1> QED
  BY <1>1, <1>2, <1>3, <1>4, <1>5, <1>6, <1>9 DEF IInv

\* The poll of an attempt that has ended.
LEMMA ConnectAnswerKeeps ==
  ASSUME IInv, ConnectAnswer, UNCHANGED acceptVars
  PROVE  IInv'
<1> USE DEF ConnectAnswer, E!Answer, Armed, acceptVars, tcpVars, eventVars,
    resolveVars, lookupVars
<1>1. Types'
  BY DEF IInv, Types
<1>2. OpTypes'
  BY DEF IInv, OpTypes, EventInv, L!TypeOK, E!TypeOK, L!Outcome, E!Outcome
<1>3. ResolveInv'
  BY DEF IInv, ResolveInv
<1>4. EventInv'
  BY DEF IInv, EventInv
<1>5. AcceptInv'
  BY DEF IInv, AcceptInv
<1>6. SocketInv'
  BY DEF IInv, SocketInv, SocketOk
<1>7. FirstInv'
  BY DEF IInv, FirstInv
<1>8. ConnectInv'
  BY DEF IInv, ConnectInv
<1>9. OrderInv'
  BY DEF IInv, OrderInv, Tried
<1> QED
  BY <1>1, <1>2, <1>3, <1>4, <1>5, <1>6, <1>7, <1>8, <1>9 DEF IInv

\* The loop goes on to the next address.
LEMMA AttemptFailedKeeps ==
  ASSUME IInv, AttemptFailed, UNCHANGED acceptVars
  PROVE  IInv'
<1> USE DEF AttemptFailed, acceptVars, tcpVars, eventVars, resolveVars,
    lookupVars
<1>1. Types'
  BY DEF IInv, Types, AcceptInv, ConnectInv
<1>2. OpTypes'
  BY DEF IInv, OpTypes, L!TypeOK, E!TypeOK, L!Outcome, E!Outcome
<1>3. ResolveInv'
  BY DEF IInv, ResolveInv
<1>4. EventInv'
  BY DEF IInv, EventInv
<1>5. AcceptInv'
  BY DEF IInv, AcceptInv
<1>6. SocketInv'
  BY DEF IInv, SocketInv, SocketOk
<1>7. FirstInv'
  BY DEF IInv, FirstInv
<1>8. ConnectInv'
  BY DEF IInv, ConnectInv, AcceptInv, Types, EventInv
<1>9. OrderInv'
  BY DEF IInv, OrderInv, Tried, Types, ConnectInv, EventInv
<1> QED
  BY <1>1, <1>2, <1>3, <1>4, <1>5, <1>6, <1>7, <1>8, <1>9 DEF IInv

\* The connected socket becomes a TcpStream, or is closed.
LEMMA AttemptOkKeeps ==
  ASSUME IInv, AttemptOk, UNCHANGED acceptVars
  PROVE  IInv'
<1> USE DEF AttemptOk, DropIter, acceptVars, tcpVars, eventVars, resolveVars,
    lookupVars
<1>1. Types'
  <2>1. list' \in Seq(Family) /\ Len(list') <= MaxAddrs
    BY EmptyList, TcpAssumption
  <2> QED
    BY <2>1 DEF IInv, Types
<1>2. OpTypes'
  BY DEF IInv, OpTypes, L!TypeOK, E!TypeOK, L!Outcome, E!Outcome
<1>3. ResolveInv'
  BY DEF IInv, ResolveInv
<1>4. EventInv'
  BY DEF IInv, EventInv
<1>5. AcceptInv'
  BY DEF IInv, AcceptInv
<1>6. SocketInv' /\ ConnectInv'
  <2>1. role = "connect" /\ eout = "ok" /\ sock[1].peer # 0
    BY DEF IInv, Types, AcceptInv, EventInv, ConnectInv
  <2>2. SocketInv /\ sock[1].state = "open" /\ sock[1].by = "future"
    BY DEF IInv, FirstInv
  <2>3. /\ sock' \in [Sockets -> Socket]
        /\ \A r \in Sockets : SocketOk(sock'[r])
        /\ \A r \in Sockets : r # 1 => sock'[r] = sock[r]
        /\ sock'[1].peer = sock[1].peer
    BY <2>1, <2>2, StreamsAre, FirstSocket
  <2>4. SocketInv'
    <3>1. past \subseteq past' /\ SocketOk(sock'[1])
      BY <2>3, FirstSocket
    <3> HIDE DEF AttemptOk
    <3> QED
      BY <2>2, <2>3, <3>1, FirstSocket, OneSocket
  <2>5. ConnectInv'
    BY <2>1, <2>3 DEF IInv, EventInv, ConnectInv
  <2> QED
    BY <2>4, <2>5
<1>7. FirstInv'
  BY DEF IInv, FirstInv
<1>9. OrderInv'
  BY DEF IInv, OrderInv, Tried
<1> QED
  BY <1>1, <1>2, <1>3, <1>4, <1>5, <1>6, <1>7, <1>9 DEF IInv

\* The rest of a future that was dropped during an attempt.
LEMMA DropAttemptedKeeps ==
  ASSUME IInv, DropAttempted, UNCHANGED acceptVars
  PROVE  IInv'
<1> USE DEF DropAttempted, E!Close, Armed, acceptVars, tcpVars, eventVars,
    resolveVars, lookupVars
<1>1. Types'
  BY DEF IInv, Types
<1>2. OpTypes'
  BY DEF IInv, OpTypes, L!TypeOK, E!TypeOK, L!Outcome, E!Outcome
<1>3. ResolveInv'
  BY DEF IInv, ResolveInv
<1>4. EventInv'
  BY DEF IInv, EventInv
<1>5. AcceptInv'
  BY DEF IInv, AcceptInv
<1>6. SocketInv'
  <2>1. sock[1].state = "open" /\ sock[1].by = "future" /\ (sock[1].peer # 0 => past # {})
    BY DEF IInv, Types, AcceptInv, FirstInv, ConnectInv
  <2>2. SocketInv
    BY DEF IInv
  <2> QED
    BY <2>1, <2>2, OrphanIs, FirstSocket DEF SocketInv, SocketOk
<1>7. FirstInv'
  BY DEF IInv, FirstInv
<1>8. ConnectInv'
  BY DEF IInv, ConnectInv, Orphan
<1>9. OrderInv'
  BY DEF IInv, OrderInv, Tried
<1> QED
  BY <1>1, <1>2, <1>3, <1>4, <1>5, <1>6, <1>7, <1>8, <1>9 DEF IInv

\* bind ends: the socket is the listener's, or nobody's.
LEMMA BindLoopKeeps ==
  ASSUME IInv, BindLoop
  PROVE  IInv'
<1> USE DEF BindLoop, DropIter, acceptVars, tcpVars, eventVars, resolveVars,
    lookupVars
<1>1. Types'
  BY EmptyList, TcpAssumption DEF IInv, Types
<1>2. OpTypes'
  BY DEF IInv, OpTypes, L!TypeOK, E!TypeOK, L!Outcome, E!Outcome
<1>3. ResolveInv'
  BY DEF IInv, ResolveInv
<1>4. EventInv'
  BY DEF IInv, EventInv
<1>5. AcceptInv'
  BY DEF IInv, AcceptInv
<1>6. SocketInv'
  <2>1. sock[1].state = "open" /\ sock[1].by = "future" /\ sock[1].peer = 0 /\ SocketInv
    BY DEF IInv, FirstInv
  <2>2. CASE pc' = "listening"
    BY <2>1, <2>2, FirstSocket DEF SocketInv, SocketOk, Socket
  <2>3. CASE pc' # "listening"
    BY <2>1, <2>3, OrphanIs, FirstSocket DEF SocketInv, SocketOk
  <2> QED
    BY <2>2, <2>3
<1>7. FirstInv'
  BY FirstSocket DEF IInv, FirstInv, SocketInv, Socket
<1>8. ConnectInv'
  BY DEF IInv, ConnectInv
<1>9. OrderInv'
  BY DEF IInv, OrderInv, Tried
<1> QED
  BY <1>1, <1>2, <1>3, <1>4, <1>5, <1>6, <1>7, <1>8, <1>9 DEF IInv

\* The operating system ends a lookup.
LEMMA LookupEndsKeeps ==
  ASSUME IInv, NEW o \in {"ok", "err"}, LookupEnds(o), UNCHANGED <<tcpVars, acceptVars>>
  PROVE  IInv'
<1> USE DEF LookupEnds, L!Finish, Ip, acceptVars, tcpVars, eventVars,
    resolveVars, lookupVars
<1>1. Types'
  <2>1. list' \in Seq(Family) /\ Len(list') <= MaxAddrs
    <3>1. UNCHANGED list \/ list' \in Lists(Family, 1)
      OBVIOUS
    <3> QED
      BY <3>1, ListsAreSeqs DEF IInv, Types
  <2> QED
    BY <2>1 DEF IInv, Types
<1>2. OpTypes'
  BY DEF IInv, OpTypes, L!TypeOK, E!TypeOK, L!Outcome, E!Outcome
<1>3. ResolveInv'
  BY DEF IInv, ResolveInv
<1>4. EventInv'
  BY DEF IInv, EventInv
<1>5. AcceptInv'
  BY DEF IInv, AcceptInv
<1>6. SocketInv'
  BY DEF IInv, SocketInv, SocketOk
<1>7. FirstInv'
  BY DEF IInv, FirstInv
<1>8. ConnectInv'
  BY DEF IInv, ConnectInv
<1>9. OrderInv'
  BY DEF IInv, OrderInv, Tried, Types, ConnectInv, EventInv, ResolveInv
<1> QED
  BY <1>1, <1>2, <1>3, <1>4, <1>5, <1>6, <1>7, <1>8, <1>9 DEF IInv

\* The operating system ends an attempt.
LEMMA ConnectEndsKeeps ==
  ASSUME IInv, NEW o \in {"ok", "err"}, ConnectEnds(o), UNCHANGED acceptVars
  PROVE  IInv'
<1> USE DEF ConnectEnds, E!Finish, acceptVars, tcpVars, eventVars,
    resolveVars, lookupVars
<1>1. Types'
  BY DEF IInv, Types
<1>2. OpTypes'
  BY DEF IInv, OpTypes, L!TypeOK, E!TypeOK, L!Outcome, E!Outcome
<1>3. ResolveInv'
  BY DEF IInv, ResolveInv
<1>4. EventInv'
  BY DEF IInv, EventInv
<1>5. AcceptInv'
  BY DEF IInv, AcceptInv
<1>6. SocketInv' /\ FirstInv' /\ ConnectInv'
  <2>1. role = "connect" /\ pc \in {"attempt", "closing"} /\ cur > 0 /\ cur \notin refused
    BY DEF IInv, Types, AcceptInv, ConnectInv
  <2>2. SocketInv /\ Types /\ sock[1].state = "open" /\ sock[1].by = "future"
    BY <2>1 DEF IInv, FirstInv
  <2>3. /\ sock' \in [Sockets -> Socket]
        /\ \A r \in Sockets : SocketOk(sock'[r])
        /\ \A r \in Sockets : r # 1 => sock'[r] = sock[r]
        /\ sock'[1].state = "open" /\ sock'[1].by = "future"
        /\ sock'[1].peer # 0 <=> (o = "ok" \/ sock[1].peer # 0)
        /\ sock'[1].peer \in {sock[1].peer, cur, Astray}
    BY <2>1, <2>2, ConnectedIs
  <2>4. Astray \notin refused
    BY TcpAssumption DEF IInv, Types, Astray
  <2>5. sock'[1].peer \notin refused
    BY <2>1, <2>3, <2>4 DEF IInv, ConnectInv
  <2>6. o = "err" => sock[1].peer = 0
    BY <2>1 DEF IInv, EventInv, ConnectInv
  <2>7. SocketInv' /\ FirstInv'
    BY <2>1, <2>3 DEF SocketInv, SocketOk, FirstInv
  <2>8. ConnectInv'
    BY <2>1, <2>3, <2>5, <2>6 DEF IInv, ConnectInv
  <2> QED
    BY <2>7, <2>8
<1>9. OrderInv'
  BY DEF IInv, OrderInv, Tried
<1> QED
  BY <1>1, <1>2, <1>3, <1>4, <1>5, <1>6, <1>9 DEF IInv

\* ResetEvent fails: the answer is an error, whatever became of the attempt.
LEMMA ConnectResetFailsKeeps ==
  ASSUME IInv, ConnectResetFails, UNCHANGED acceptVars
  PROVE  IInv'
<1> USE DEF ConnectResetFails, E!Answer, Armed, acceptVars, tcpVars,
    eventVars, resolveVars, lookupVars
<1>1. Types'
  BY DEF IInv, Types
<1>2. OpTypes'
  BY DEF IInv, OpTypes, L!TypeOK, E!TypeOK, L!Outcome, E!Outcome
<1>3. ResolveInv'
  BY DEF IInv, ResolveInv
<1>4. EventInv'
  BY DEF IInv, EventInv
<1>5. AcceptInv'
  BY DEF IInv, AcceptInv
<1>6. SocketInv'
  BY DEF IInv, SocketInv, SocketOk
<1>7. FirstInv'
  BY DEF IInv, FirstInv
<1>8. ConnectInv'
  BY DEF IInv, ConnectInv
<1>9. OrderInv'
  BY DEF IInv, OrderInv, Tried
<1> QED
  BY <1>1, <1>2, <1>3, <1>4, <1>5, <1>6, <1>7, <1>8, <1>9 DEF IInv

\* The future is dropped during its lookup.
LEMMA DropResolvingKeeps ==
  ASSUME IInv, DropResolving, UNCHANGED acceptVars
  PROVE  IInv'
<1> USE DEF DropResolving, DropResolve, acceptVars, tcpVars, eventVars,
    resolveVars, lookupVars
<1>1. Types'
  <2>1. Types
    BY DEF IInv
  <2>2. mem' \in BOOLEAN
    OBVIOUS
  <2>3. /\ rpc' \in {"off", "live", "dropping", "gone"}
        /\ holder' \in {"none", "slot", "iter", "freed", "lost"}
    BY <2>1 DEF Types
  <2>4. pc' = "leaving" /\ past' \subseteq {"dropped", "reset"}
    BY <2>1 DEF Types
  <2>5. UNCHANGED <<role, refused, cur, list, source, ready, client, apc, aev, buf, incoming>>
    OBVIOUS
  <2> HIDE DEF DropResolving, DropResolve, acceptVars
  <2> QED
    BY <2>1, <2>2, <2>3, <2>4, <2>5 DEF Types
<1>2. OpTypes'
  BY DEF IInv, OpTypes, L!TypeOK, E!TypeOK, L!Outcome, E!Outcome
<1>3. ResolveInv'
  BY DEF IInv, ResolveInv
<1>4. EventInv'
  BY DEF IInv, EventInv
<1>5. AcceptInv'
  BY DEF IInv, AcceptInv
<1>6. SocketInv'
  BY DEF IInv, SocketInv, SocketOk
<1>7. FirstInv'
  BY DEF IInv, FirstInv
<1>8. ConnectInv'
  BY DEF IInv, ConnectInv
<1>9. OrderInv'
  BY DEF IInv, OrderInv, Tried
<1> QED
  BY <1>1, <1>2, <1>3, <1>4, <1>5, <1>6, <1>7, <1>8, <1>9 DEF IInv

\* The future is dropped during an attempt.
LEMMA DropAttemptKeeps ==
  ASSUME IInv, DropAttempt, UNCHANGED acceptVars
  PROVE  IInv'
<1> USE DEF DropAttempt, DropIter, acceptVars, tcpVars, eventVars,
    resolveVars, lookupVars
<1>1. Types'
  BY EmptyList, TcpAssumption DEF IInv, Types
<1>2. OpTypes'
  BY DEF IInv, OpTypes, L!TypeOK, E!TypeOK, L!Outcome, E!Outcome
<1>3. ResolveInv'
  BY DEF IInv, ResolveInv
<1>4. EventInv'
  BY DEF IInv, EventInv
<1>5. AcceptInv'
  BY DEF IInv, AcceptInv
<1>6. SocketInv'
  BY DEF IInv, SocketInv, SocketOk
<1>7. FirstInv'
  BY DEF IInv, FirstInv
<1>8. ConnectInv'
  BY DEF IInv, ConnectInv
<1>9. OrderInv'
  BY DEF IInv, OrderInv, Tried
<1> QED
  BY <1>1, <1>2, <1>3, <1>4, <1>5, <1>6, <1>7, <1>8, <1>9 DEF IInv

\* The listener is dropped; no Accept borrows it.
LEMMA DropListenerKeeps ==
  ASSUME IInv, DropListener
  PROVE  IInv'
<1> USE DEF DropListener, acceptVars, tcpVars, eventVars, resolveVars,
    lookupVars
<1>1. Types'
  BY DEF IInv, Types
<1>2. OpTypes'
  BY DEF IInv, OpTypes, L!TypeOK, E!TypeOK, L!Outcome, E!Outcome
<1>3. ResolveInv'
  BY DEF IInv, ResolveInv
<1>4. EventInv'
  BY DEF IInv, EventInv
<1>5. AcceptInv'
  BY DEF IInv, AcceptInv
<1>6. SocketInv'
  <2>1. sock[1] \in Socket /\ sock[1].refs = 0
    BY FirstSocket DEF IInv, FirstInv, SocketInv, SocketOk, Socket
  <2>2. sock' \in [Sockets -> Socket]
    BY <2>1, FirstSocket DEF IInv, SocketInv, Socket
  <2>3. sock'[1].state = "closed" /\ sock'[1].by = "nobody" /\ sock'[1].refs = 0
    BY <2>1, FirstSocket DEF IInv, SocketInv, Socket
  <2>4. SocketOk(sock'[1])
    BY <2>3 DEF SocketOk
  <2> QED
    BY <2>2, <2>4, FirstSocket, OneSocket DEF IInv, SocketInv
<1>7. FirstInv'
  BY DEF IInv, FirstInv
<1>8. ConnectInv'
  BY DEF IInv, ConnectInv, AcceptInv
<1>9. OrderInv'
  BY DEF IInv, OrderInv, Tried
<1> QED
  BY <1>1, <1>2, <1>3, <1>4, <1>5, <1>6, <1>7, <1>8, <1>9 DEF IInv

\* An Accept is made.
LEMMA acceptKeeps ==
  ASSUME IInv, accept
  PROVE  IInv'
<1> USE DEF accept, acceptVars, tcpVars, eventVars, resolveVars, lookupVars
<1>1. (client' \in Sockets \cup {0}) => Types'
  BY DEF IInv, Types, MakeAccept, EndAccept, AcceptOver
<1>2. OpTypes'
  BY TcpAssumption
  DEF IInv, OpTypes, L!TypeOK, E!TypeOK, E!Outcome, MakeAccept, EndAccept,
      AcceptOver, NewEvent
<1>3. ResolveInv'
  BY DEF IInv, ResolveInv
<1>4. EventInv'
  BY DEF IInv, EventInv, MakeAccept, EndAccept, AcceptOver, NewEvent
<1>5. SocketInv' /\ FirstInv' /\ AcceptInv' /\ client' \in Sockets \cup {0}
  <2>1. sock \in [Sockets -> Socket] /\ \A s \in Sockets : SocketOk(sock[s])
    BY DEF IInv, SocketInv
  <2>2. role = "bind" /\ sock[1].by = "listener"
    BY DEF IInv, Types, AcceptInv, FirstInv
  <2> QED
    BY <2>1, <2>2, MakeAcceptKeeps
<1>8. ConnectInv'
  BY DEF IInv, ConnectInv, AcceptInv
<1>9. OrderInv'
  BY DEF IInv, OrderInv, Tried
<1> QED
  BY <1>1, <1>2, <1>3, <1>4, <1>5, <1>8, <1>9 DEF IInv

\* An Accept without a socket or without an event ends.
LEMMA AcceptPollErrKeeps ==
  ASSUME IInv, AcceptPollErr
  PROVE  IInv'
<1> USE DEF AcceptPollErr, acceptVars, tcpVars, eventVars, resolveVars,
    lookupVars
<1>1. (client' \in Sockets \cup {0}) => Types'
  BY DEF IInv, Types, MakeAccept, EndAccept, AcceptOver
<1>2. OpTypes'
  BY TcpAssumption
  DEF IInv, OpTypes, L!TypeOK, E!TypeOK, E!Outcome, MakeAccept, EndAccept,
      AcceptOver, NewEvent
<1>3. ResolveInv'
  BY DEF IInv, ResolveInv
<1>4. EventInv'
  BY DEF IInv, EventInv, MakeAccept, EndAccept, AcceptOver, NewEvent
<1>5. SocketInv' /\ FirstInv' /\ AcceptInv' /\ client' \in Sockets \cup {0}
  <2>1. role = "bind" /\ pc = "listening" /\ (eout = "ok" => past # {})
    BY DEF IInv, AcceptInv
  <2>2. PICK b : b = ClientOrphaned
    OBVIOUS
  <2>3. b \in [Sockets -> Socket] /\ (\A s \in Sockets : SocketOk(b[s])) /\ b[1].by = "listener"
    BY <2>1, <2>2, OrphanedIs
  <2> QED
    BY <2>1, <2>2, <2>3, AcceptOverKeeps
<1>8. ConnectInv'
  BY DEF IInv, ConnectInv, AcceptInv
<1>9. OrderInv'
  BY DEF IInv, OrderInv, Tried
<1> QED
  BY <1>1, <1>2, <1>3, <1>4, <1>5, <1>8, <1>9 DEF IInv

\* AcceptEx goes pending.
LEMMA AcceptBeginKeeps ==
  ASSUME IInv, AcceptBegin
  PROVE  IInv'
<1> USE DEF AcceptBegin, E!Begin, acceptVars, tcpVars, eventVars, resolveVars,
    lookupVars
<1>1. Types'
  BY DEF IInv, Types
<1>2. OpTypes'
  BY TcpAssumption DEF IInv, OpTypes, L!TypeOK, E!TypeOK, L!Outcome, E!Outcome
<1>3. ResolveInv'
  BY DEF IInv, ResolveInv
<1>4. EventInv'
  BY DEF IInv, EventInv
<1>5. AcceptInv'
  BY DEF IInv, AcceptInv
<1>6. SocketInv'
  BY DEF IInv, SocketInv, SocketOk
<1>7. FirstInv'
  BY DEF IInv, FirstInv
<1>8. ConnectInv'
  BY DEF IInv, ConnectInv, AcceptInv
<1>9. OrderInv'
  BY DEF IInv, OrderInv, Tried
<1> QED
  BY <1>1, <1>2, <1>3, <1>4, <1>5, <1>6, <1>7, <1>8, <1>9 DEF IInv

\* AcceptEx answers at once.
LEMMA AcceptInlineKeeps ==
  ASSUME IInv, NEW o \in {"ok", "err"}, AcceptInline(o)
  PROVE  IInv'
<1> USE DEF AcceptInline, E!Inline, acceptVars, tcpVars, eventVars,
    resolveVars, lookupVars
<1>1. Types'
  BY DEF IInv, Types
<1>2. OpTypes'
  BY TcpAssumption DEF IInv, OpTypes, L!TypeOK, E!TypeOK, L!Outcome, E!Outcome
<1>3. ResolveInv'
  BY DEF IInv, ResolveInv
<1>4. EventInv'
  BY DEF IInv, EventInv
<1>5. SocketInv' /\ FirstInv' /\ AcceptInv'
  <2>1. apc # "none" /\ client # 0 /\ eout # "ok"
    BY DEF IInv, AcceptInv
  <2>2. /\ sock' \in [Sockets -> Socket]
        /\ \A r \in Sockets : SocketOk(sock'[r])
        /\ \A r \in Sockets : r # client => sock'[r] = sock[r]
        /\ sock'[client].state = "open" /\ sock'[client].by = "future"
        /\ sock'[client].peer # 0 <=> (o = "ok" \/ sock[client].peer # 0)
    BY <2>1, AcceptedIs
  <2>3. SocketInv'
    BY <2>2 DEF SocketInv, SocketOk
  <2>4. FirstInv' /\ AcceptInv'
    BY <2>1, <2>2, ClientIs, FirstSocket DEF IInv, Types, AcceptInv, FirstInv
  <2> QED
    BY <2>3, <2>4
<1>8. ConnectInv'
  BY DEF IInv, ConnectInv, AcceptInv
<1>9. OrderInv'
  BY DEF IInv, OrderInv, Tried
<1> QED
  BY <1>1, <1>2, <1>3, <1>4, <1>5, <1>8, <1>9 DEF IInv

\* A client connects, or AcceptEx fails.
LEMMA AcceptEndsKeeps ==
  ASSUME IInv, NEW o \in {"ok", "err"}, AcceptEnds(o)
  PROVE  IInv'
<1> USE DEF AcceptEnds, E!Finish, acceptVars, tcpVars, eventVars, resolveVars,
    lookupVars
<1>1. Types'
  BY DEF IInv, Types
<1>2. OpTypes'
  BY DEF IInv, OpTypes, L!TypeOK, E!TypeOK, L!Outcome, E!Outcome
<1>3. ResolveInv'
  BY DEF IInv, ResolveInv
<1>4. EventInv'
  BY DEF IInv, EventInv
<1>5. SocketInv' /\ FirstInv' /\ AcceptInv'
  <2>1. apc # "none" /\ client # 0 /\ eout # "ok"
    BY DEF IInv, Types, AcceptInv, EventInv
  <2>2. /\ sock' \in [Sockets -> Socket]
        /\ \A r \in Sockets : SocketOk(sock'[r])
        /\ \A r \in Sockets : r # client => sock'[r] = sock[r]
        /\ sock'[client].state = "open" /\ sock'[client].by = "future"
        /\ sock'[client].peer # 0 <=> (o = "ok" \/ sock[client].peer # 0)
    BY <2>1, AcceptedIs
  <2>3. SocketInv'
    BY <2>2 DEF SocketInv, SocketOk
  <2>4. FirstInv' /\ AcceptInv'
    BY <2>1, <2>2, ClientIs, FirstSocket DEF IInv, Types, AcceptInv, FirstInv
  <2> QED
    BY <2>3, <2>4
<1>8. ConnectInv'
  BY DEF IInv, ConnectInv
<1>9. OrderInv'
  BY DEF IInv, OrderInv, Tried
<1> QED
  BY <1>1, <1>2, <1>3, <1>4, <1>5, <1>8, <1>9 DEF IInv

\* The poll of an AcceptEx that has ended.
LEMMA AcceptAnswerKeeps ==
  ASSUME IInv, AcceptAnswer
  PROVE  IInv'
<1> USE DEF AcceptAnswer, E!Answer, acceptVars, tcpVars, eventVars,
    resolveVars, lookupVars
<1>1. Types'
  BY DEF IInv, Types
<1>2. OpTypes'
  BY DEF IInv, OpTypes, EventInv, L!TypeOK, E!TypeOK, L!Outcome, E!Outcome
<1>3. ResolveInv'
  BY DEF IInv, ResolveInv
<1>4. EventInv'
  BY DEF IInv, EventInv
<1>5. AcceptInv'
  BY DEF IInv, AcceptInv, Types, EventInv
<1>6. SocketInv'
  BY DEF IInv, SocketInv, SocketOk
<1>7. FirstInv'
  BY DEF IInv, FirstInv
<1>8. ConnectInv'
  BY DEF IInv, ConnectInv
<1>9. OrderInv'
  BY DEF IInv, OrderInv, Tried
<1> QED
  BY <1>1, <1>2, <1>3, <1>4, <1>5, <1>6, <1>7, <1>8, <1>9 DEF IInv

\* The client's socket becomes a TcpStream, is closed, or goes.
LEMMA AcceptDoneKeeps ==
  ASSUME IInv, AcceptDone
  PROVE  IInv'
<1> USE DEF AcceptDone, acceptVars, tcpVars, eventVars, resolveVars,
    lookupVars
<1>1. (client' \in Sockets \cup {0}) => Types'
  BY DEF IInv, Types, MakeAccept, EndAccept, AcceptOver
<1>2. OpTypes'
  BY TcpAssumption
  DEF IInv, OpTypes, L!TypeOK, E!TypeOK, E!Outcome, MakeAccept, EndAccept,
      AcceptOver, NewEvent
<1>3. ResolveInv'
  BY DEF IInv, ResolveInv
<1>4. EventInv'
  BY DEF IInv, EventInv, MakeAccept, EndAccept, AcceptOver, NewEvent
<1>5. SocketInv' /\ FirstInv' /\ AcceptInv' /\ client' \in Sockets \cup {0}
  <2>1. role = "bind" /\ pc = "listening" /\ client # 0 /\ sock[1].by = "listener" /\ SocketInv
    BY DEF IInv, AcceptInv, FirstInv
  <2>2. PICK b \in IF egiven = "ok" THEN Streams(client) ELSE {ClientOrphaned} : AcceptOver(b)
    OBVIOUS
  <2>3. b \in [Sockets -> Socket] /\ (\A s \in Sockets : SocketOk(b[s])) /\ b[1].by = "listener"
    <3>1. CASE egiven = "ok"
      <4>1. sock[client].peer # 0
        BY <2>1, <3>1, ClientIs DEF IInv, EventInv
      <4> QED
        BY <2>1, <2>2, <3>1, <4>1, ClientIs, StreamsAre, FirstSocket
    <3>2. CASE egiven # "ok"
      <4>1. eout = "ok" => past # {}
        BY <3>2 DEF IInv, AcceptInv, OpTypes, E!TypeOK, E!Outcome
      <4> QED
        BY <2>2, <3>2, <4>1, OrphanedIs
    <3> QED
      BY <3>1, <3>2
  <2> QED
    BY <2>1, <2>2, <2>3, AcceptOverKeeps
<1>8. ConnectInv'
  BY DEF IInv, ConnectInv, AcceptInv
<1>9. OrderInv'
  BY DEF IInv, OrderInv, Tried
<1> QED
  BY <1>1, <1>2, <1>3, <1>4, <1>5, <1>8, <1>9 DEF IInv

\* An Accept is dropped.
LEMMA DropAcceptKeeps ==
  ASSUME IInv, DropAccept
  PROVE  IInv'
<1> USE DEF DropAccept, acceptVars, tcpVars, eventVars, resolveVars,
    lookupVars
<1>1. (client' \in Sockets \cup {0}) => Types'
  BY DEF IInv, Types, MakeAccept, EndAccept, AcceptOver
<1>2. OpTypes'
  BY TcpAssumption
  DEF IInv, OpTypes, L!TypeOK, E!TypeOK, E!Outcome, MakeAccept, EndAccept,
      AcceptOver, NewEvent
<1>3. ResolveInv'
  BY DEF IInv, ResolveInv
<1>4. EventInv'
  BY DEF IInv, EventInv, MakeAccept, EndAccept, AcceptOver, NewEvent
<1>5. SocketInv' /\ FirstInv' /\ AcceptInv' /\ client' \in Sockets \cup {0}
  <2>1. CASE apc = "made" /\ EndAccept(ClientOrphaned) /\ UNCHANGED <<role, pc, past>>
    <3>1. role = "bind" /\ pc = "listening" /\ (eout = "ok" => past # {})
      BY <2>1 DEF IInv, AcceptInv
    <3>2. PICK b : b = ClientOrphaned
      OBVIOUS
    <3>3. b \in [Sockets -> Socket] /\ (\A s \in Sockets : SocketOk(b[s])) /\ b[1].by = "listener"
      BY <2>1, <3>1, <3>2, OrphanedIs
    <3> QED
      BY <2>1, <3>1, <3>2, <3>3, EndAcceptKeeps
  <2>2. CASE apc = "pending" /\ apc' = "dropping"
    BY <2>2 DEF IInv, Types, AcceptInv, SocketInv, SocketOk, FirstInv
  <2> QED
    BY <2>1, <2>2
<1>8. ConnectInv'
  BY DEF IInv, ConnectInv, AcceptInv
<1>9. OrderInv'
  BY DEF IInv, OrderInv, Tried
<1> QED
  BY <1>1, <1>2, <1>3, <1>4, <1>5, <1>8, <1>9 DEF IInv

\* The rest of an Accept that was dropped while suspended.
LEMMA AcceptDroppedKeeps ==
  ASSUME IInv, AcceptDropped
  PROVE  IInv'
<1> USE DEF AcceptDropped, acceptVars, tcpVars, eventVars, resolveVars,
    lookupVars
<1>1. (client' \in Sockets \cup {0}) => Types'
  BY DEF IInv, Types, MakeAccept, EndAccept, AcceptOver
<1>2. OpTypes'
  BY TcpAssumption
  DEF IInv, OpTypes, L!TypeOK, E!TypeOK, E!Outcome, MakeAccept, EndAccept,
      AcceptOver, NewEvent
<1>3. ResolveInv'
  BY DEF IInv, ResolveInv
<1>4. EventInv'
  BY DEF IInv, EventInv, MakeAccept, EndAccept, AcceptOver, NewEvent
<1>5. SocketInv' /\ FirstInv' /\ AcceptInv' /\ client' \in Sockets \cup {0}
  <2>1. role = "bind" /\ pc = "listening" /\ (eout = "ok" => past # {})
    BY DEF IInv, AcceptInv
  <2>2. PICK b : b = ClientOrphaned
    OBVIOUS
  <2>3. b \in [Sockets -> Socket] /\ (\A s \in Sockets : SocketOk(b[s])) /\ b[1].by = "listener"
    BY <2>1, <2>2, OrphanedIs
  <2> QED
    BY <2>1, <2>2, <2>3, EndAcceptKeeps
<1>8. ConnectInv'
  BY DEF IInv, ConnectInv, AcceptInv
<1>9. OrderInv'
  BY DEF IInv, OrderInv, Tried
<1> QED
  BY <1>1, <1>2, <1>3, <1>4, <1>5, <1>8, <1>9 DEF IInv

\* A TcpStream is split.
LEMMA SplitKeeps ==
  ASSUME IInv, NEW s \in Sockets, Split(s), UNCHANGED acceptVars
  PROVE  IInv'
<1> USE DEF Split, acceptVars, tcpVars, eventVars, resolveVars, lookupVars
<1>1. Types'
  BY DEF IInv, Types
<1>2. OpTypes'
  BY DEF IInv, OpTypes, L!TypeOK, E!TypeOK, L!Outcome, E!Outcome
<1>3. ResolveInv'
  BY DEF IInv, ResolveInv
<1>4. EventInv'
  BY DEF IInv, EventInv
<1>5. AcceptInv'
  BY DEF IInv, AcceptInv
<1>6. SocketInv'
  BY FirstSocket DEF IInv, SocketInv, SocketOk, Socket, NoSocket
<1>7. FirstInv'
  BY FirstSocket DEF IInv, FirstInv, SocketInv, SocketOk, Socket, NoSocket
<1>8. ConnectInv'
  BY DEF IInv, ConnectInv
<1>9. OrderInv'
  BY DEF IInv, OrderInv, Tried
<1> QED
  BY <1>1, <1>2, <1>3, <1>4, <1>5, <1>6, <1>7, <1>8, <1>9 DEF IInv

\* A TcpStream or a half of it is dropped.
LEMMA DropStreamKeeps ==
  ASSUME IInv, NEW s \in Sockets, DropStream(s), UNCHANGED acceptVars
  PROVE  IInv'
<1> USE DEF DropStream, acceptVars, tcpVars, eventVars, resolveVars,
    lookupVars
<1>1. Types'
  BY DEF IInv, Types
<1>2. OpTypes'
  BY DEF IInv, OpTypes, L!TypeOK, E!TypeOK, L!Outcome, E!Outcome
<1>3. ResolveInv'
  BY DEF IInv, ResolveInv
<1>4. EventInv'
  BY DEF IInv, EventInv
<1>5. AcceptInv'
  BY DEF IInv, Types, AcceptInv, SocketInv, SocketOk
<1>6. SocketInv'
  <2>1. sock[s].by = "stream" /\ sock[s].state = "open" /\ sock[s].peer # 0
    BY DEF IInv, SocketInv, SocketOk
  <2>2. /\ sock' \in [Sockets -> Socket]
        /\ \A r \in Sockets : r # s => sock'[r] = sock[r]
    BY SocketUpdates DEF IInv, SocketInv
  <2>3. SocketOk(sock'[s])
    <3>1. CASE sock[s].refs = 1
      BY <3>1 DEF IInv, SocketInv, SocketOk, Socket
    <3>2. CASE sock[s].refs # 1
      BY <2>1, <3>2 DEF IInv, SocketInv, SocketOk, Socket
    <3> QED
      BY <3>1, <3>2
  <2> QED
    BY <2>2, <2>3, OneSocket DEF IInv
<1>7. FirstInv'
  BY FirstSocket DEF IInv, FirstInv, SocketInv, SocketOk, Socket, NoSocket
<1>8. ConnectInv'
  BY DEF IInv, ConnectInv
<1>9. OrderInv'
  BY DEF IInv, OrderInv, Tried
<1> QED
  BY <1>1, <1>2, <1>3, <1>4, <1>5, <1>6, <1>7, <1>8, <1>9 DEF IInv

\* Every step of the futures, the operating system and the owners keeps IInv.
LEMMA NextKeeps == IInv /\ [Next]_vars => IInv'
<1> SUFFICES ASSUME IInv, [Next]_vars PROVE IInv'
  OBVIOUS
<1>1. CASE ConnectStep /\ UNCHANGED acceptVars
  BY <1>1, BeginKeeps, AwaitAddrsKeeps, ResolvedKeeps, DropResolvedKeeps,
      NextAttemptKeeps, NoneLeftKeeps, ConnectBeginKeeps, ConnectInlineKeeps,
      ConnectAnswerKeeps, AttemptFailedKeeps, AttemptOkKeeps,
      DropAttemptedKeeps
  DEF ConnectStep, E!Outcome
<1>2. CASE bind \/ BindLoop
  BY <1>2, BeginKeeps, BindLoopKeeps DEF bind
<1>3. CASE LookupOver \/ AttemptOver
  BY <1>3, LookupEndsKeeps, ConnectEndsKeeps
  DEF LookupOver, AttemptOver, L!Outcome, E!Outcome
<1>4. CASE ConnectResetFails /\ UNCHANGED acceptVars
  BY <1>4, ConnectResetFailsKeeps
<1>5. CASE Drops
  BY <1>5, DropResolvingKeeps, DropAttemptKeeps DEF Drops
<1>6. CASE AcceptStep
  BY <1>6, DropListenerKeeps, acceptKeeps, AcceptPollErrKeeps,
      AcceptBeginKeeps, AcceptInlineKeeps, AcceptEndsKeeps, AcceptAnswerKeeps,
      AcceptDoneKeeps, DropAcceptKeeps, AcceptDroppedKeeps
  DEF AcceptStep, E!Outcome
<1>7. CASE \E s \in Sockets : (Split(s) \/ DropStream(s)) /\ UNCHANGED acceptVars
  BY <1>7, SplitKeeps, DropStreamKeeps
<1>8. CASE UNCHANGED vars
  BY <1>8
  DEF vars, acceptVars, tcpVars, eventVars, resolveVars, lookupVars, IInv,
      Types, OpTypes, L!TypeOK, E!TypeOK, ResolveInv, EventInv, AcceptInv,
      SocketInv, SocketOk, FirstInv, ConnectInv, OrderInv, Tried
<1> QED
  BY <1>1, <1>2, <1>3, <1>4, <1>5, <1>6, <1>7, <1>8 DEF Next, Carry

\* The invariant holds in every behaviour.
LEMMA Invariance == Spec => []IInv
  BY InitIInv, NextKeeps, PTL DEF Spec

-----------------------------------------------------------------------------
(***************************************************************************)
(* The theorems.                                                           *)
(***************************************************************************)

\* Type correctness of TcpListener, with TcpStream and Resolve.
THEOREM TypeCorrect == Spec => []TypeOK
<1>1. IInv => TypeOK
  <2> SUFFICES ASSUME IInv PROVE TypeOK
    OBVIOUS
  <2>1. list \in Lists(Family, 0)
    BY SeqsAreLists DEF IInv, Types
  <2>2. ResolveTypeOK
    BY <2>1 DEF IInv, Types, OpTypes, ResolveTypeOK, Immediate, Lookup
  <2>3. TcpTypeOK
    BY <2>2 DEF IInv, Types, OpTypes, SocketInv, TcpTypeOK, Failed
  <2> QED
    BY <2>3 DEF IInv, Types, TypeOK
<1> QED
  BY <1>1, Invariance, PTL

\* The list of addresses is freed when connect or bind has ended, and lost only
\* with a future that was dropped during the lookup, or whose event could not
\* be reset.
THEOREM ListReleasedHolds == Spec => []ListReleased
<1>1. IInv => ListReleased
  BY DEF IInv, ResolveInv, ListReleased, Ended, Failed
<1> QED
  BY <1>1, Invariance, PTL

\* Whoever holds half of a TcpStream, or the listener, holds an open socket, and
\* a TcpStream is connected, to an address that was not refused.
THEOREM StreamUsableHolds == Spec => []StreamUsable
<1>1. IInv => StreamUsable
  <2> SUFFICES ASSUME IInv, NEW s \in Sockets
               PROVE  /\ (sock[s].refs > 0 \/ sock[s].by = "listener") => sock[s].state = "open"
                      /\ sock[s].refs > 0 =>
                           sock[s].peer # 0 /\ (role = "connect" => sock[s].peer \notin refused)
    BY DEF StreamUsable
  <2>1. SocketOk(sock[s])
    BY DEF IInv, SocketInv
  <2>2. (role = "connect" /\ sock[s].refs > 0) => s = 1
    BY DEF IInv, ConnectInv
  <2> QED
    BY <2>1, <2>2 DEF SocketOk, IInv, ConnectInv
<1> QED
  BY <1>1, Invariance, PTL

\* The socket that AcceptEx is given is open, has no peer yet, and is nobody
\* else's.
THEOREM ClientExclusiveHolds == Spec => []ClientExclusive
<1>1. IInv => ClientExclusive
  BY DEF IInv, AcceptInv, ClientExclusive
<1> QED
  BY <1>1, Invariance, PTL

\* The memory that AcceptEx and the lookup write to stays until they have ended,
\* or until the drop of the lookup's future has begun.
THEOREM LentMemoryKeptHolds == Spec => []LentMemoryKept
<1>1. IInv => LentMemoryKept
  BY DEF IInv, Types, ResolveInv, AcceptInv, LentMemoryKept
<1> QED
  BY <1>1, Invariance, PTL

\* A connection that was made is handed out or closed, unless a suspended future
\* was dropped or ResetEvent failed.
THEOREM NoLostConnectionHolds == Spec => []NoLostConnection
<1>1. IInv => NoLostConnection
  BY DEF IInv, SocketInv, SocketOk, NoLostConnection
<1> QED
  BY <1>1, Invariance, PTL

\* Only the loop's own two steps leave the loop of connect.
LEMMA LoopSteps ==
  ASSUME IInv, [Next]_vars, pc = "loop", role = "connect", pc' # "loop"
  PROVE  NextAttempt \/ NoneLeft
<1> USE DEF tcpVars, vars
<1>1. CASE ConnectStep
  BY <1>1 DEF ConnectStep, Begin, AwaitAddrs, Resolved, DropResolved, ConnectBegin,
      ConnectInline, ConnectAnswer, AttemptFailed, AttemptOk, DropAttempted
<1>2. CASE bind \/ BindLoop
  BY <1>2 DEF bind, BindLoop
<1>3. CASE LookupOver \/ AttemptOver \/ ConnectResetFails \/ Drops
  BY <1>3 DEF LookupOver, AttemptOver, ConnectEnds, ConnectResetFails, Drops,
      DropResolving, DropAttempt
<1>4. CASE AcceptStep
  BY <1>4 DEF AcceptStep, DropListener, accept, AcceptPollErr, AcceptBegin,
      AcceptInline, AcceptEnds, AcceptAnswer, AcceptDone, DropAccept, AcceptDropped
<1>5. CASE \E s \in Sockets : Split(s) \/ DropStream(s)
  BY <1>5 DEF Split, DropStream
<1>6. CASE UNCHANGED vars
  BY <1>6
<1> QED
  BY <1>1, <1>2, <1>3, <1>4, <1>5, <1>6 DEF Next, Carry

\* connect passes over no IP address: it goes on to a later one, or gives up,
\* only when those before have been refused, or the answer was lost.
THEOREM AllTriedHolds == Spec => AllTried
<1> DEFINE A == (pc = "loop" /\ pc' \in {"attempt"} \cup Failed /\ role = "connect") =>
                  \A i \in DOMAIN list :
                    (list[i] \in Ip /\ (pc' = "attempt" => i < cur')) =>
                       (i \in refused \/ "reset" \in past)
<1>1. IInv /\ [Next]_vars => A
  <2> SUFFICES ASSUME IInv, [Next]_vars, pc = "loop", pc' \in {"attempt"} \cup Failed,
                      role = "connect", NEW i \in DOMAIN list, list[i] \in Ip,
                      pc' = "attempt" => i < cur'
               PROVE  i \in refused \/ "reset" \in past
    OBVIOUS
  <2>1. NextAttempt \/ NoneLeft
    BY LoopSteps DEF Failed
  <2>2. i \in 1 .. Len(list) /\ cur \in Nat
    BY DEF IInv, Types
  <2>3. i <= cur
    <3>1. CASE NextAttempt
      BY <2>2, <3>1, NextIs DEF NextAttempt, IInv
    <3>2. CASE NoneLeft
      BY <2>2, <3>2 DEF NoneLeft, Remaining
    <3> QED
      BY <2>1, <3>1, <3>2
  <2> QED
    BY <2>2, <2>3 DEF IInv, OrderInv, Tried
<1> QED
  BY <1>1, Invariance, PTL DEF Spec, AllTried

=============================================================================
