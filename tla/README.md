# A TLA+ model of wae

wae is an async executor and a small TCP library built on the Win32 thread pool.
Its hard parts are not algorithms but hand-shakes: between a task that polls, the
operating system that finishes overlapped operations, thread pool callbacks that
announce them, and destructors that must not free what the other three still use.
This project models those hand-shakes, checks them with TLC on small instances and
proves every safety property of the passing runs, for all values of the constants, with
TLAPS.

Paths below are relative to the repository (`src/` is its library).

## 1. Inventory

| component | state it keeps | operations | interacts with | what is hard | what makes it correct |
|---|---|---|---|---|---|
| state word, result cell (`io/shared/state.rs`, `result.rs`) | one atomic, one uninitialised cell | compare-exchanges, swaps, `set`, `get` | both I/O objects and their callbacks | unconditional swaps; the cell is guarded only by the word | the cell has one user at a time and is set before it is read |
| `IoEvent` (`io/shared/event.rs`) | state, result, waker, OVERLAPPED, thread pool wait | `poll`, wait callback, `drop` | `Connect`, `Accept`, `GetAddrInfoFuture`; the kernel's event | re-arming, callbacks overlapping the next operation, drop during an operation | one answer per operation, with its outcome; no lost wake-up; nothing freed early |
| `IoHandle` (`io/shared/handle.rs`) | for each half: state, result, waker, OVERLAPPED | `poll`, `cancel(wait)`, I/O callback, `drop` | `Read`, `Write` and the TCP socket functions | cancellation racing completion, completion packets of operations that were already answered | buffer and OVERLAPPED outlive the operation; results go to their own future |
| `Read`, `Write`, `ReadExact`, `WriteAll`, `Chain` (`io/read/ext.rs`, `io/write/ext.rs`) | borrowed stream, window of the buffer, counter | `poll`, `cancel`, `drop` | `AsyncRead`/`AsyncWrite` | short transfers, end of stream, which reader to cancel | bytes in order, none lost; no operation after the buffer is gone |
| TCP (`net/tcp/*`) | a socket, which nothing closes before a `TcpStream` or `TcpListener` is made of it; an event; the client socket and address buffer of an `Accept` | `connect`, `bind`, `accept`, `Incoming`, `split`, drops at every await | `IoEvent`, `IoHandle`, resolver | several attempts on one socket and one event; every error path and every drop decides who closes the socket; `Incoming` replaces its `Accept` after each answer | every address is tried in order; a stream is open and connected; no socket is handed out or closed twice; a made connection is not lost; the call returns |
| name resolution (`net/sockaddr/*`) | strings, hints, the slot of the result list, an `IoEvent`; the iterator over the list | `poll`, iterate, `drop` | `IoEvent`, `TcpStream`, `TcpListener` | the fields are dropped before the event has waited for the lookup; the list belongs to the system | the list is freed once; memory is exposed only inside the drop |
| executor (`threadpool.rs`, `task/spawn.rs`) | a queue and a work object per priority; reference counts | `spawn`, `push_task`, work callback, `JoinHandle`, drop of the pool | async-task, thread pool | queue and work items are updated in two steps; anyone may drop the last reference | every queued task meets a callback, none is run twice or lost |
| `block_on` (`task/block_on.rs`, `task/waker.rs`) | a latch in the caller's frame | `poll`, `wait`, `wake` | executor | wait/wake race, pointer into a stack frame, nesting | no lost wake, returns |
| `Builder` (`threadpool.rs`), entry macros (`macros/`) | limits, handles while building | setters, `build`, `create_work`, drop | operating system | every call may fail half way | everything made is closed; limits are what was asked for |
| context (`context.rs`), `may_block`, `yield_now` (`task/util.rs`) | a `Handle` per thread, of some callback or none; guards with what they will restore | `current`, `enter`, drop of a guard, the context of work callbacks | executor, `Drop for IoEvent` (through `try_current`) | a guard is `Send`: kept over an await it is dropped on another thread, in another order | pool threads are clean between callbacks; `may_block` is about the caller's own callback; no `Handle` is left behind that keeps the pool |
| I/O traits and buffers (`io/read/mod.rs`, `io/write/mod.rs`) | pointer and 32-bit length | forwarding | Winsock | a longer slice is cut to its length modulo 2^32 | what is counted is what was transferred |

`PROJECT.json` lists every component with its status, and under `hazards` what is
hard to test, line by line.

## 2. Modules

| module | models | state and actions |
|---|---|---|
| `IoState` | state word and result cell | each method is a predicate on the old value or the value stored, with the code's name |
| `AsyncOp` | nothing in the code: the promise of an `IoEvent` to its owner | operations in sequence; `Begin`, `Inline`, `Finish`, `Answer`, `Retry`, `Close` |
| `IoEvent` | `IoEvent` with its owner, the kernel and the wait callbacks | one action per atomic access of `poll`, `callback`, `drop`; `cb[n]` is the callback of operation n, so callbacks of successive operations overlap |
| `IoEventProofs` | | its invariants and the refinement of `AsyncOp`, proved |
| `IoHandle` | one half of an `IoHandle` with the `Read`/`Write` futures and the socket functions | as above, plus the futures, whose buffers are lent to operations (`lent`), and `cancel` in its four steps |
| `IoHandleProofs` | | its five invariants, proved |
| `Transfer` | `ReadExact` (and `WriteAll`) over a `TcpStream` or a `Chain` of two | which byte of which stream is where. Each reader is the read half of an `IoHandle` with its state word (`st`), result cell, operation (`op`, with the window it was `lent`) and packets: those of operations that completed at once are in `late`, operations that the half was made to forget in `left`. A poll of a half, and a callback, are one step each; the interleavings inside them are `IoHandle`'s. `cancel(false)`, and `cancel(true)` by the drop, are in their steps. The length of the buffer (`Given`) is cut to `Wrap`, which stands for 2^32 |
| `TransferProofs` | | its three invariants, proved |
| `Resolve` | `ToSocketAddrs`, `GetAddrInfoFuture`, `GetAddrInfoIter` | where the addresses come from (`source`), who owns the list (`holder`), whether the memory lent to the lookup is there (`mem`); the drop in its two steps, fields and event |
| `TcpStream` | `connect`, `split`, the sockets | extends `Resolve`. `connect` runs from await to await; per socket its state, who will close it (`by`), its peer and the halves that share it |
| `TcpListener` | `bind`, `accept`, `Accept`, `Incoming` | extends `TcpStream`, since `bind` starts like `connect`; has the specification of both |
| `TcpProofs` | | the five invariants and the action property of the run `tcp`, proved |
| `Executor`, `MCExecutor` | executor and pool life | tasks in async-task's states; `Push` and `Submit` are the two steps of `push_task`, after which the schedule function gives up its own reference (`ScheduleReturns`), on whatever thread; the last reference closes the pool, which waits for the callbacks of work objects, waits and I/O (`Callbacks`), the closer's own included; `yield_now`; `JoinHandle` with its `cancel` dropped at the await, after which the task is detached twice (`wild` collects the tasks whose memory the second time touches after they are gone) |
| `ExecutorProofs` | | its four invariants, proved |
| `BlockOn` | nested `block_on` calls | caller and pool thread, access by access |
| `BlockOnProofs` | | its three invariants, proved |
| `Builder` | builder, macros' call chain, objects | one action per call of `build`; `closes` counts the close calls of each object. `DropThreadpool` is `Drop for HandleInner`, `DropInside` the same inside a callback of the pool, where its first call waits for that callback: the pool is then "stuck" |
| `Context` | thread-local context, guards, `may_block` | extends `Builder`: a pool is built, then used. A `Handle` is reduced to its `callback_instance`. A task has one in its schedule function until it is deallocated: a finished task that a `JoinHandle` or a waker refers to is "over", and "gone" after `Release`. The step that drops the last `Handle` is `DropThreadpool`, or `DropInside` |
| `ContextProofs` | | its four invariants, that of `Builder` included, proved |

How they fit. `Resolve`, `TcpStream` and `TcpListener` use their events only as
`AsyncOp` (`INSTANCE AsyncOp`), and `IoEvent` is proved to implement `AsyncOp`, so
the interleavings inside the event need not be repeated there. `Context` composes
with `Builder`, so that building, use and end of a pool are one behaviour. In
`Executor` a task is where it is; in `Context` the same callbacks appear with the
thread they run on and the `Handle` they carry.

Common conventions. `upc`, `pc`, `bpc`, `rpc` say where a thread is between two
shared accesses; steps that no other actor can observe or disturb are merged, and
the comment at the action says why. Memory is sequentially consistent: the code uses
acquire/release where data is handed over, and the `Relaxed` accesses (the spins,
`is_cancellable`, `cancel`) are on the state word alone, which has a single
modification order. What a callback does to freed memory is undefined and appears
as the action `CallbackWild` (`WakeWild` in `BlockOn`): the model shows it reachable
and stops following that callback. Reading an unset result yields any outcome.
async-task and Win32 are external: modelled from how the code uses them.

Definitions named `X_Something` above a definition `X` are deliberate faults, used
to show that a property notices them; `Next` never uses them.

## 3. Runs

All runs take seconds, except `iohandle_half` and `context` (about a minute each) and
`transfer_chain`, `executor_safety` and `executor_live` (about two each).

| run | question | bounds and why they suffice |
|---|---|---|
| `ioevent_safety` | result cell exclusive, nothing freed early, first wake-up not lost, `AsyncOp` implemented | 3 operations: a callback of the first can be late for the second and the third is issued in the meantime; all answers, `ResetEvent` failures, spurious polls |
| `ioevent_connect` | no completion missed, every attempt answered (so no wake-up lost either), drop ends | 3 attempts of an owner that polls when woken |
| `iohandle_half` | buffers, OVERLAPPED, result cell, completion, under everything the owner and the system can do | 3 operations of 2 futures: enough for a late packet or a stale state to meet an operation of the next future, and to be followed by one more |
| `executor_safety` | accounting, uniqueness, closing | 2 tasks, 2 pool threads, 2 other threads and an I/O callback, 2 priorities, with symmetry |
| `executor_live` | scheduled tasks run, cancel and close end | 2 tasks, 2 pool threads, 1 other thread and an I/O callback, one priority (the pool may starve the lower of two) |
| `blockon` | latch, lost wakes, stack frame, every call returns unless nested calls hold every thread | 3 nested calls on 2 threads, so both the normal end and the deadlock occur |
| `context` | nothing leaks whichever call of `build` fails; pool threads clean, `may_block` about the own callback, closed when unused | 2 pool threads and 1 other, 2 tasks, 2 callbacks, 2 guards: a guard kept over an await can be dropped in another callback on another thread, and two guards in the wrong order |
| `transfer_chain` | bytes in order, full when done, no count larger than the rest, the recursion of `ReadExact::poll` ends | buffer of 7 with lengths cut to 4, so 3 are asked for, from streams of 0 to 2 bytes each: the first stream may end before, in the middle of or between reads, and one byte more than asked for may be there. An operation completes at once only while fewer than `MaxLate` = 1 packets that nobody waits for are under way, so one at a time is late for a following operation |
| `tcp` | streams usable, client sockets exclusive, memory and lists kept and released, no connection lost, every address tried, the call returns | 3 addresses of every mixture of kinds, so that a first, a middle and a last one can fail; 4 sockets, so that a listener can accept three times |

A type invariant is part of every module; the runs check the one of `IoEvent`. It is
proved for `IoEvent`, `IoHandle`, `Executor` and `TcpListener` (`TypeCorrect` of each
proof module) and part of the invariant in `TransferProofs`; the other proofs carry the
types that their argument needs.

Three runs state what a comment or a test of the repository says, and TLC refutes
it. They are described under `findings`:

| run | property | in short |
|---|---|---|
| `iohandle_wakeup` | `PendingAnswered` | the pending branch of `IoHandle::poll` registers no waker |
| `builder_limits` | `MaxRespected` | `max_threads` and `min_threads` are swapped |
| `transfer_unpinned` | `BufferPinned` | `Chain` cancels its first reader although the second is pending |

Most promises of an `IoHandle` half are lost once something happens that the code
does not allow for. The history variable `past` records it, and the condition
`Never(..)` of each property says what the property does not survive:

| event | what goes wrong afterwards | survives |
|---|---|---|
| `"done"`: an operation completes at once (`net/tcp/read.rs`, `write.rs`) | its packet still arrives and is taken for the completion of the next pending operation, whose future gets the old byte count while the new operation is in flight | the first part of `ResultIsOwn`: the cell was set |
| `"nowait"`: `Cancelable::cancel` | `IoHandle::cancel` returns at once unless the word is PENDING, so a future cancelled without waiting and then dropped is not waited for and its buffer goes first | `OverlappedFree`, `ResultExclusive`, `ResultIsOwn`, `CompletionPublished` |
| `"dropped"`: a future is dropped while pending | READY is left behind with no result, or with the old one, for the next future, which reads a cell that was never set although `result.rs:24` demands it | `BufferPinned`, `OverlappedFree`, `ResultExclusive`, `FreedWhenQuiet`, `CompletionPublished` |

Each condition is as weak as it can be: TLC refutes the property when one of its
events is left out. A fourth matter is not a state of the model: `CancelIoEx` fails
when the operation has just ended, and `Drop for Write` and `Drop for IoHandle`
unwrap that error.

`Transfer`, `TcpStream` and `Context` have such a history too. In `Transfer` it is
`"stray"`, the consequence of `"done"` that matters to the bytes: a late packet has been
taken for the completion of a pending operation, whose future counts bytes that are not
there while its operation is in flight. All three invariants hold until then, that is
also after operations that completed at once, as long as their packets find the half
idle or ready, and whatever is cancelled or polled. `"nowait"` is recorded for
`BufferPinned` alone, whose violation needs neither. In `TcpStream`, `"dropped"` is the
drop of a suspended `connect`, `bind` or `Accept`, which leaves its socket open and
without an owner, and `"reset"` a `ResetEvent` that failed: the answer of the attempt
is lost, and the next attempt uses an event whose wait was not armed again, so it is
never answered. `NoLostConnection`, `AllTried` and `ConnectReturns` name them. (A
socket that was never connected is lost on every error path of `connect`, `bind` and
`Accept`: nothing closes it. No property can say otherwise.) In `Context`, `"order"`
is a guard dropped before a later one or on another thread or callback, and `"moved"`
a `Handle` of one callback entered in another. `PoolThreadClean` survives both,
because the callback's own guard is dropped last; `ClosedWhenUnused` survives
`"moved"`. It allows the state "stuck": the last `Handle` went inside a callback of the
pool (the work callback's own at its end, or that of a finished task whose last waker
an I/O callback drops), and `CloseThreadpoolCleanupGroupMembers` waits for that
callback. Nothing is closed then. `CloseEnds` excepts the same closers in `Executor`.

What an address that is not there costs: `connect` copies a `SOCKADDR` of 16 bytes for
any address and passes the length of the real one, so the rest of a v6 address is
whatever lies behind the copy. The model lets such an attempt reach any peer
(`Astray`).

Deadlock is not checked: owners may stop using any object. Two properties of
`IoEvent` hold only under a restriction. `NoLostWakeup` after the first operation
needs `SpuriousPolls = FALSE`: with spurious polls the callback of an earlier
attempt can take the waker of a later one. And `NoMissedCompletion` needs
`ResetMayFail = FALSE`: the early return leaves the wait disarmed.

### Fairness

Weak fairness throughout, of steps the environment really takes: a thread inside
`poll`, `cancel`, `push_task` or a destructor runs on; a woken or new future is
polled (what the executor promises, `ScheduledRuns`); the thread pool fires
signalled waits, delivers packets and starts work items when a thread is free;
operations end. The last is an assumption about the peer: connects and lookups time
out, a receive ends when the peer answers or closes, but an `AcceptEx` may never end,
and then neither does dropping it. Nothing is assumed of the owners' free choices
(new futures, cancels, drops, spawns, wakes). In `transfer_chain` the only assumption is
that a thread inside `poll` runs on (`PollStep`). In `tcp` three actions are weakly fair:
`Carry` (an async function that can go on does), `LookupOver` and `AttemptOver`
(lookups and connects end); nothing is assumed of `AcceptEx`.

## 4. Proofs

Every invariant and every action property of a passing run is a theorem. All proofs are
for every value of the constants, from the named assumptions of the modules
(`EventAssumption`, `HandleAssumption`, `TransferAssumption`, `TcpAssumption`,
`ExecutorAssumption`, `BlockOnAssumption`, `ContextAssumption`), which
say that bounds are numbers, options what they should be, and the sets of tasks and
threads of `Executor` finite and apart. One theorem has a hypothesis, which the property needs: `CompletionNoticed`
(`~ResetMayFail`).

None of the properties is inductive, so each module states an invariant that is, in
named parts. Each part was checked with TLC on the instances of the runs before it was proved. The layout is
the same everywhere: the operators of the model first, one lemma per action with one
step per part, `NextKeeps` to join them, `Invariance`, and a short theorem for each
property.

`IoEventProofs`: `TypeCorrect`, `ResultSafe`, `FreeSafe`, `Refinement`,
`CompletionNoticed`, `WakeupNotLost`. `ResultExclusive` speaks about the moment of
reading; why no callback is writing then rests on the parts of `IInv`:

- `PhaseInv`: the state word, the place of the task in its poll and the answer it
  gave last determine each other (`SCHEDULING` exactly while issuing, `READY` while
  collecting, an unanswered poll exactly while `PENDING`, `CALLBACK` or `READY`);
- `CallbackInv`: `CALLBACK` is a lock: the callback between its claim and
  `set_ready` belongs to the current operation, and `READY` means that the result
  of the current operation has been written;
- `SignalInv`: the wait fires once per operation: a callback that has not yet
  claimed implies a disarmed wait, and between two operations no callback is on
  its way and none can start (the event is reset before the wait is armed again);
- `KernelInv`: the operating system works only while the word is `PENDING` or about
  to be.

`SignalInv` is the heart: without it a second callback could claim the word of the
next operation. The refinement (`Spec => Implements`) maps the answer of a poll to
`Answer`, the end of the spin in `Drop` to `Close`, and hides everything the callbacks
do. On top of `IInv`, `WaitInv` says when the wait must be armed, which a failed
`ResetEvent` breaks. `WakeInv` says that whoever will have to be woken is covered: its
waker is registered before the callback looks, or it is awake already. `PunctualInv`
carries the difference between a task polled only when woken, whose earlier callbacks
have all taken their waker, and one polled at any time, for which only the first
operation is safe.

`IoHandleProofs`: `BufferPinnedHolds`, `OverlappedFreeHolds`, `ResultExclusiveHolds`,
`ResultIsOwnHolds`, `FreedWhenQuietHolds`. Here packets, not a wait, start callbacks, and
nothing ties a packet to its operation except the order of things. Until an operation
completes at once (`Clean`), `OpInv` says that there is one operation at a time: all
earlier ones are `Quiet`, and the state word tells how far the last has come. `PhaseInv`
ties the word to the task; `CancelInv` remembers why a cancel runs; `ResultInv` and
`OwnInv` follow the result from the callback to the poll of the future that asked for
it, as long as no pending future was dropped; `LoanInv` follows the buffer through
cancellation with and without wait. The conditions `Never(..)` of section 3 appear as
hypotheses of these parts, so the proof shows where each is used.

`TransferProofs`: `ReceivedInOrderHolds`, `DoneMeansFullHolds`, `CountFitsHolds`. The
invariant is `NoStray => Kept`. `Kept` looks at each reader through two functions of its
half: `stage`, whether an answer is awaited, there (in a packet or in the result cell)
or not asked for, and `answer`, what it is. `WordInv` ties the state word to them, which is where
a packet that is not the half's own would break in. `WindowInv` says that what an
operation was lent is still the window; `OrderInv` that the second reader of a `Chain`
starts only at the end of the first; `ContentInv`, byte by byte, what is in the buffer,
with the bytes that a reader has written and `read_exact` has not counted yet. They hold
while the future is in use (`InUse`), after which the counted bytes stay (`CountedInv`).
Late packets and forgotten operations need no part of their own: a forgotten operation
exists only after a stray packet.

`ExecutorProofs`: `AccountingHolds`, `RunnableUniqueHolds`, `CloseDiscardsNothingHolds`,
`WildOnlyIfOverHolds`. `Accounting` is about the cardinality of the actors between the
two steps of `push_task` or of the work callback, so each action needs to know how that
set changes (`FiniteSetTheorems`). `QueueInv`, `HandsInv` and `PlaceInv` say where a
runnable task is, position by position, and from them the cardinality in
`RunnableUnique` follows. `CloseInv` and `Accounting` together give
`CloseDiscardsNothing`: a callback or a task in a queue holds a `Handle`.

`BlockOnProofs`: `LatchOver`, `WakeupSafe` and `FrameSafe`, that is `LatchMeansOver`,
`NoLostWakeup` and `WaitedFrameSafe` for every depth and every pool. Levels meet only
in the guards, so the invariant is a conjunction over them, and a step of one keeps
the others (`OthersKeep`). For one level: `RunnerInv` (the pool thread has passed the
latch once it is set), `CallerInv` (a caller that has waited goes on only with the
latch set) and `HandOver`, the point of it: a caller that waits is registered with a
task that is not over, or its waker is on the way to the latch, or the latch is set.
`NoLostWakeup` alone is not inductive because it says nothing of the time before the
task ends, when the registration must already be there.

`ContextProofs`: `ThreadClean`, `InstanceOwn`, `NothingLeaks`, `UnusedIsClosed`, that is
`PoolThreadClean`, `InstanceIsOwn`, `NoLeak` and `ClosedWhenUnused`. `CleanInv` adds that
what the callback's own guard will restore is always nothing; `NestInv` extends
`InstanceIsOwn` to what the guards will restore; `OpenInv` lists what `build` has
created at each of its calls, and how often each was closed. For `ClosedWhenUnused`, `GuardInv` says that guards
dropped in order peel off: a thread outside the pool has a context only inside a guard
of its own, and the outermost restores none; `HeldInv` that `Drop for HandleInner` has
not begun as long as someone has a `Handle`, a task that is over but referred to
included.

`TcpProofs`: `ListReleasedHolds`, `StreamUsableHolds`, `ClientExclusiveHolds`,
`LentMemoryKeptHolds`, `NoLostConnectionHolds` and the action property `AllTriedHolds`
(`Spec => AllTried`). `ResolveInv` follows the lookup's future and its list through the
two steps of its drop; `EventInv` and `AcceptInv` say what the event tells about the
peer of the socket that an `Accept` or an attempt works on, which decides whether a
socket that goes out of scope carries a connection; `SocketInv` and `FirstInv` are about
the sockets, one by one and the first; `ConnectInv` about the attempts; `OrderInv` that
every IP address before the current one has been tried. `AllTried` follows from
`OrderInv` and from the fact that the next address is the least that is left
(`NextIs`, by the well-foundedness of the numbers). The steps inside the events are not
repeated: they are `AsyncOp`'s, and `IoEventProofs` proves that an `IoEvent` takes no
others.

Only model-checked: the liveness properties (`PendingAnswered`, `DropEnds`,
`CompletionPublished`, `ScheduledRuns`, `CancelEnds`, `CloseEnds`, `Returns`, `LoopEnds`,
`ConnectReturns`), since fairness and `ENABLED` are outside the prover's reach. The
three properties that a run refutes have no theorem.

## 5. Not modelled

- Weak memory beyond what is said above.
- The thread pool's count of expected packets: `StartThreadpoolIo` is not followed by
  `CancelThreadpoolIo` when an operation is refused (`handle.rs:119`). What it costs
  happens inside the thread pool, of which nothing in the repository tells.
- Socket options (`with_socket`, `set_nodelay` and the like), formatting, tracing:
  they change no state of the program. A failing `IoEvent::new` or `IoHandle::new`
  appears where its owner sees it, in `connect`, `accept` and `build`.
- Several `Accept`s of one listener at a time: each has a socket, an event and a
  buffer of its own, and they share only the listening socket, which is borrowed.
- `Handle::current()` outside any context panics; the model takes the step only when
  there is one. Guards that are forgotten with `mem::forget` are guards never dropped,
  which the model includes.
- The second half of an `IoHandle` beside the first: they share only the drop.
- The wake-ups of `read_exact`, and what its streams are left with after its drop: both
  are the half's, in `IoHandle`. `Transfer` polls the future at any time instead, woken
  or not.
- What the code gets wrong and no property excludes: a property names it as its
  exception, and the note of the hazard says so. These are the use of a freed waker
  (`event.rs:158`), the write of a lookup into freed memory during its drop
  (`get_addr_info.rs:60`), the state word stuck after `cancel` (`handle.rs:161`),
  callbacks still running when a handle is freed (`handle.rs:209`), the pool that waits
  for itself (`spawn.rs:71`), the second detach of a finished task (`spawn.rs:35`), the
  fast path of `block_on` (`waker.rs:37`), the objects closed twice
  (`threadpool.rs:260`), the endless read at the end of a stream (`read/ext.rs:157`),
  the error of a failed lookup (`get_addr_info.rs:115`), the cut address
  (`stream.rs:125`), `may_block` on a kept `Handle` (`util.rs:14`) and the cut length
  (`read/mod.rs:51`, under `read/ext.rs:162`).
- The rest of the I/O traits and buffer types: implementations for references, boxes
  and slices that forward, and layout casts.
- Parsing and code generation in the entry macros; re-exports and helper traits.

## 6. Plan

Done: `IoState`, `AsyncOp`, `IoEvent`, `IoHandle`, `Executor`, `BlockOn`, `Builder`,
`Transfer`, `Resolve`, `TcpStream`, `TcpListener`, `Context`; proofs of all safety
properties of the passing runs. Left, in this order:

1. An abstract executor (a task that is woken is run once more, on one thread at a
   time) that `Executor` is proved to implement, from the invariant of `ExecutorProofs`.
2. Action properties for the hand-shakes (what a step of `IoHandle` or `Executor` may
   never do), from the invariants that are proved.
