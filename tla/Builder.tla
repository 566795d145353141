------------------------------- MODULE Builder -------------------------------
(***************************************************************************)
(* Builder::build and the life of the operating system objects behind a    *)
(* Threadpool (src/src/threadpool.rs).  One thread runs the setters that   *)
(* the entry macros generate (src/macros/src/lib.rs), then build, in which *)
(* every call may fail, and finally drops what it got.                     *)
(***************************************************************************)
EXTENDS Naturals

CONSTANTS MaxArgs, \* values the max_threads argument of the macros may have
          MinArgs, \* values the min_threads argument may have
          DefaultMax, DefaultMin  \* what Builder::new sets

ASSUME BuilderAssumption ==
  /\ MaxArgs \subseteq Nat
  /\ MinArgs \subseteq Nat
  /\ DefaultMax \in Nat
  /\ DefaultMin \in Nat

VARIABLES
  args,    \* the arguments of wae::main or wae::test
  builder, \* the fields of the Builder
  pc,      \* the next call of build, "built", "failed", "dropped", or
           \* "stuck" in a close that waits for itself
  open,    \* objects created
  closes,  \* how often each was closed
  limits,  \* what the pool was told
  at,      \* the priority each work object was created with
  env      \* callback_environ.CallbackPriority while building

NotGiven == 0  \* the argument is left out

vars == <<args, builder, pc, open, closes, limits, at, env>>

Prios == {"high", "normal", "low"}
Objects == {"pool", "group"} \cup Prios
Steps == {"max", "min", "pool", "limit", "group", "high", "normal", "low",
          "wsa", "built", "failed", "dropped", "stuck"}
None == [max |-> NotGiven, min |-> NotGiven]

TypeOK ==
  /\ args \in [max : MaxArgs \cup {NotGiven}, min : MinArgs \cup {NotGiven}]
  /\ builder \in [max : Nat, min : Nat]
  /\ pc \in Steps
  /\ open \subseteq Objects
  /\ closes \in [Objects -> 0 .. 2]
  /\ limits \in [max : Nat, min : Nat]
  /\ at \in [Prios -> Prios \cup {"unset"}]
  /\ env \in Prios

Init ==
  /\ args \in [max : MaxArgs \cup {NotGiven}, min : MinArgs \cup {NotGiven}]
  /\ builder = [max |-> DefaultMax, min |-> DefaultMin]
  /\ pc = "max"
  /\ open = {}
  /\ closes = [o \in Objects |-> 0]
  /\ limits = None
  /\ at = [p \in Prios |-> "unset"]
  /\ env = "normal"

-----------------------------------------------------------------------------
\* Builder::max_threads and Builder::min_threads, as the code has them.
max_threads(b, n) == [b EXCEPT !.min = n]
min_threads(b, n) == [b EXCEPT !.max = n]

\* The generated .max_threads(..) and .min_threads(..), where given.
SetMax ==
  /\ pc = "max"
  /\ pc' = "min"
  /\ builder' = IF args.max = NotGiven THEN builder ELSE max_threads(builder, args.max)
  /\ UNCHANGED <<args, open, closes, limits, at, env>>

SetMin ==
  /\ pc = "min"
  /\ pc' = "pool"
  /\ builder' = IF args.min = NotGiven THEN builder ELSE min_threads(builder, args.min)
  /\ UNCHANGED <<args, open, closes, limits, at, env>>

-----------------------------------------------------------------------------
\* The close calls that a step makes, as a function of the objects closed
\* once (`a`) and once more (`b`).  CloseThreadpoolCleanupGroupMembers closes
\* the work objects that exist.
Close(a, b) ==
  closes' = [o \in Objects |->
    closes[o] + (IF o \in a THEN 1 ELSE 0) + (IF o \in b THEN 1 ELSE 0)]

\* Drop for HandleInner: members, group, pool.  Work objects are gone from
\* the group once they were closed.
DropInner == open

\* build: CreateThreadpool
CreatePool ==
  /\ pc = "pool"
  /\ \/ pc' = "limit" /\ open' = {"pool"}
     \/ pc' = "failed" /\ UNCHANGED open
  /\ UNCHANGED <<args, builder, closes, limits, at, env>>

\* SetThreadpoolThreadMaximum, SetThreadpoolThreadMinimum
SetLimits ==
  /\ pc = "limit"
  /\ limits' = builder
  /\ \/ pc' = "group" /\ UNCHANGED closes
     \/ pc' = "failed" /\ Close({"pool"}, {})
  /\ UNCHANGED <<args, builder, open, at, env>>

\* Mutant: the failure path forgets the pool.
CreateGroup_Leaks ==
  /\ pc = "group"
  /\ \/ pc' = "high" /\ open' = open \cup {"group"}
     \/ pc' = "failed" /\ UNCHANGED open
  /\ UNCHANGED <<args, builder, closes, limits, at, env>>

\* CreateThreadpoolCleanupGroup
CreateGroup ==
  /\ pc = "group"
  /\ \/ pc' = "high" /\ open' = open \cup {"group"} /\ UNCHANGED closes
     \/ pc' = "failed" /\ UNCHANGED open /\ Close({"pool"}, {})
  /\ UNCHANGED <<args, builder, limits, at, env>>

After(p) == CASE p = "high" -> "normal" [] p = "normal" -> "low" [] OTHER -> "wsa"

\* create_work(p).  Its failure path closes everything, and `?` then drops
\* inner, whose Drop closes group and pool a second time.
create_work(p) ==
  /\ pc = p
  /\ env' = p
  /\ \/ /\ pc' = After(p)
        /\ open' = open \cup {p}
        /\ at' = [at EXCEPT ![p] = p]
        /\ UNCHANGED closes
     \/ /\ pc' = "failed"
        /\ Close(open, {"pool", "group"})
        /\ UNCHANGED <<open, at>>
  /\ UNCHANGED <<args, builder, limits>>

\* WSAStartup.  Its failure path closes the pool, and inner is dropped.
Startup ==
  /\ pc = "wsa"
  /\ \/ pc' = "built" /\ UNCHANGED closes
     \/ pc' = "failed" /\ Close({"pool"}, DropInner)
  /\ UNCHANGED <<args, builder, open, limits, at, env>>

\* Handle::set_max_threads, try_set_min_threads (which may fail), through the
\* running program.
SetMaxThreads(n) ==
  /\ pc = "built"
  /\ limits' = [limits EXCEPT !.max = n]
  /\ UNCHANGED <<args, builder, pc, open, closes, at, env>>

SetMinThreads(n) ==
  /\ pc = "built"
  /\ limits' \in {limits, [limits EXCEPT !.min = n]}
  /\ UNCHANGED <<args, builder, pc, open, closes, at, env>>

\* The last Handle goes.
DropThreadpool ==
  /\ pc = "built"
  /\ pc' = "dropped"
  /\ Close(DropInner, {})
  /\ UNCHANGED <<args, builder, open, limits, at, env>>

\* The last Handle goes inside a callback of the pool: the first call of Drop
\* for HandleInner waits for that callback, and nothing is ever closed.
DropInside ==
  /\ pc = "built"
  /\ pc' = "stuck"
  /\ UNCHANGED <<args, builder, open, closes, limits, at, env>>

\* Everything but the end.
Building ==
  \/ SetMax
  \/ SetMin
  \/ CreatePool
  \/ SetLimits
  \/ CreateGroup
  \/ \E p \in Prios : create_work(p)
  \/ Startup
  \/ \E n \in MaxArgs : SetMaxThreads(n)
  \/ \E n \in MinArgs : SetMinThreads(n)

Next == Building \/ DropThreadpool \/ DropInside

Spec == Init /\ [][Next]_vars

-----------------------------------------------------------------------------
\* Whichever call of build fails, and when the pool is dropped, every object
\* that was created is closed, and once; as long as the pool is in use, or its
\* close waits for itself, none is.  Only where create_work or WSAStartup fails
\* are the pool and the group, and nothing else, closed by both the failure
\* path and Drop for HandleInner.
NoLeak ==
  /\ pc \in {"failed", "dropped"} => \A o \in open :
       \/ closes[o] = 1
       \/ closes[o] = 2 /\ pc = "failed" /\ "group" \in open /\ o \in {"pool", "group"}
  /\ pc \in {"built", "stuck"} => \A o \in Objects : o \in open /\ closes[o] = 0

\* "Some(maximum) => .max_threads(#maximum)" (macros/src/lib.rs): a pool built
\* with a max_threads argument has that maximum until the program changes it.
MaxRespected ==
  (pc \in {"group"} \cup Prios /\ args.max # NotGiven) => limits.max = args.max

=============================================================================
