------------------------------- MODULE Resolve -------------------------------
(***************************************************************************)
(* Name resolution: ToSocketAddrs (src/src/net/sockaddr/to_socket_addrs.rs)*)
(* and the lookup behind it (get_addr_info.rs).  The future is made, polled*)
(* to its end or dropped, and leaves an iterator over addresses.  The      *)
(* lookup's IoEvent is reduced to AsyncOp, which it implements: one        *)
(* operation, whose outcome nobody asks for (poll is given no handle).     *)
(*                                                                         *)
(* The module has no next-state relation of its own: connect and bind      *)
(* take its steps (TcpStream, TcpListener).                                *)
(***************************************************************************)
EXTENDS Naturals, Sequences

CONSTANT MaxAddrs  \* addresses in a slice or in the answer to a lookup

VARIABLES
  source, \* the variant of ToSocketAddrsInner
  rpc,    \* the ToSocketAddrs future: "off", "live", "dropping", "gone"
  ready,  \* what its last poll answered: "none" (nothing yet), "ok", "err"
  mem,    \* host, port, hints and the result slot are allocated
  list,   \* the addresses
  holder, \* who has to free the list of the operating system
  cur,    \* the address the iterator gave last
  ln, lphase, lout, lgiven  \* the lookup

L == INSTANCE AsyncOp WITH
  MaxOps <- 1, HasHandle <- FALSE, ResetMayFail <- TRUE,
  n <- ln, phase <- lphase, out <- lout, given <- lgiven

lookupVars == <<ln, lphase, lout, lgiven>>
resolveVars == <<source, rpc, ready, mem, list, holder, cur, lookupVars>>

\* Families of addresses; SockAddr::as_std gives None for the last.
Ip == {"v4", "v6"}
Family == Ip \cup {"other"}

Lists(S, least) == UNION {[1 .. k -> S] : k \in least .. MaxAddrs}

\* A string that parses, an address or a pair; a slice; anything else, which
\* takes a lookup, whose IoEvent may have failed to be made.
Immediate == {"immediate", "slice"}
Lookup == {"lookup", "noevent"}

ResolveTypeOK ==
  /\ source \in Immediate \cup Lookup \cup {"none"}
  /\ rpc \in {"off", "live", "dropping", "gone"}
  /\ ready \in {"none", "ok", "err"}
  /\ mem \in BOOLEAN
  /\ list \in Lists(Family, 0)
  /\ holder \in {"none", "slot", "iter", "freed", "lost"}
  /\ cur \in 0 .. MaxAddrs
  /\ L!TypeOK

ResolveInit ==
  /\ source = "none"
  /\ rpc = "off"
  /\ ready = "none"
  /\ mem = FALSE
  /\ list = <<>>
  /\ holder = "none"
  /\ cur = 0
  /\ L!Init

\* The strings, hints and slot are allocated, and the event made or not.
get_addr_info == source' \in Lookup /\ mem' = TRUE /\ UNCHANGED list

to_socket_addrs ==
  /\ rpc = "off"
  /\ rpc' = "live"
  /\ \/ source' = "immediate" /\ list' \in [1 .. 1 -> Ip] /\ UNCHANGED mem
     \/ source' = "slice" /\ list' \in Lists(Ip, 0) /\ UNCHANGED mem
     \/ get_addr_info
  /\ UNCHANGED <<ready, holder, cur, lookupVars>>

-----------------------------------------------------------------------------
(***************************************************************************)
(* Future for ToSocketAddrs and for GetAddrInfoFuture.                     *)
(***************************************************************************)

Resolving == rpc = "live" /\ ready = "none"

\* The addresses are known, or there is no event: answered at once.
PollAtOnce ==
  /\ Resolving
  /\ source # "lookup"
  /\ ready' = IF source \in Immediate THEN "ok" ELSE "err"
  /\ UNCHANGED <<source, rpc, mem, list, holder, cur, lookupVars>>

\* GetAddrInfoExW goes pending ...
PollBegin ==
  /\ Resolving
  /\ source = "lookup"
  /\ L!Begin
  /\ UNCHANGED <<source, rpc, ready, mem, list, holder, cur>>

\* ... or answers, with the list in the slot, which the iterator takes over.
PollInline(o) ==
  /\ Resolving
  /\ source = "lookup"
  /\ L!Inline(o)
  /\ ready' = o
  /\ IF o = "ok" THEN holder' = "iter" /\ list' \in Lists(Family, 1)
                 ELSE UNCHANGED <<holder, list>>
  /\ UNCHANGED <<source, rpc, mem, cur>>

\* The lookup ends: the pointer to the list is stored in the slot, wherever
\* that memory is now.
LookupEnds(o) ==
  /\ L!Finish(o)
  /\ IF o = "ok"
       THEN IF mem THEN holder' = "slot" /\ list' \in Lists(Family, 1)
                   ELSE holder' = "lost" /\ UNCHANGED list
       ELSE UNCHANGED <<holder, list>>
  /\ UNCHANGED <<source, rpc, ready, mem, cur>>

\* The lookup is over.  A failed one is answered Ok with an empty list, as its
\* outcome is not asked for; a failure of ResetEvent is answered Err.
PollAnswer ==
  /\ Resolving
  /\ L!Answer
  /\ ready' = lgiven'
  /\ holder' = IF lgiven' = "ok" /\ holder = "slot" THEN "iter" ELSE holder
  /\ UNCHANGED <<source, rpc, mem, list, cur>>

\* The future is dropped, after its last poll or while it is suspended.  Its
\* fields go in the order of their declaration: host, port and inner with the
\* result slot ...
DropResolve ==
  /\ rpc = "live"
  /\ rpc' = IF source = "lookup" THEN "dropping" ELSE "gone"
  /\ mem' = FALSE
  /\ holder' = IF holder = "slot" THEN "lost" ELSE holder
  /\ UNCHANGED <<source, ready, list, cur, lookupVars>>

\* ... and then event, whose drop waits for the end of the lookup.
DropResolveEvent ==
  /\ rpc = "dropping"
  /\ L!Close
  /\ rpc' = "gone"
  /\ UNCHANGED <<source, ready, mem, list, holder, cur>>

-----------------------------------------------------------------------------
(***************************************************************************)
(* The iterator.                                                           *)
(***************************************************************************)

\* Mutant: entries that are not IP addresses are not skipped but end it.
Remaining_StopsAtOther ==
  {i \in cur + 1 .. Len(list) : list[i] \in Ip /\ i = cur + 1}

\* What next() can still return: entries with another family are skipped.
Remaining == {i \in cur + 1 .. Len(list) : list[i] \in Ip}

NextAddr ==
  /\ Remaining # {}
  /\ cur' = CHOOSE i \in Remaining : \A j \in Remaining : i <= j
  /\ UNCHANGED <<source, rpc, ready, mem, list, holder, lookupVars>>

\* Mutant: GetAddrInfoIter has no Drop.
DropIter_Forgets ==
  /\ list' = <<>>
  /\ UNCHANGED <<source, rpc, ready, mem, holder, cur, lookupVars>>

\* Drop for GetAddrInfoIter frees the list; the others own nothing.
DropIter ==
  /\ holder' = IF holder = "iter" THEN "freed" ELSE holder
  /\ list' = <<>>
  /\ UNCHANGED <<source, rpc, ready, mem, cur, lookupVars>>

ResolvePoll ==
  \/ PollAtOnce
  \/ PollBegin
  \/ \E o \in L!Outcome : PollInline(o)
  \/ PollAnswer

=============================================================================
