# A TLA+ model of mruby's run time

This directory holds a formal development about the C implementation of mruby in
this repository. It models the parts of the interpreter whose correctness depends
on the order of many small steps: the incremental, generational collector of
`src/gc.c`, the preemptive task scheduler of `mrbgems/mruby-task`, control flow
across call frames, fibers and C functions, closures that outlive their frames,
method lookup and its caches, hash tables, and arrays that share memory. TLC checks
the models on small instances; TLAPS proves the central results about the collector,
the scheduler, fibers with their stacks, closures, method lookup, hashes and arrays for every
instance.

## Inventory

mruby is a single-threaded interpreter. Its parts, the state they keep and what
makes each of them correct:

| part | state | operations | what has to hold | module |
|---|---|---|---|---|
| collector (`src/gc.c`) | a colour per slot, current white, phase, gray stack with overflow flag, generational and full flags, old flag per page, sweep cursor, arena, pinned roots | allocate, two write barriers, incremental step, minor, full and emergency collection, mode switch | nothing reachable is freed; a full collection frees all the rest; calls return | `GcHeap`, `ManagedHeap` |
| tasks (`mruby-task`) | four priority queues, a context per task, the tick counter, the next wake-up tick, the switch flag, the scheduler lock | create, sleep, join, pass, suspend, resume, terminate, stop, close, set priority, tick interrupt, scheduler loop | queue and status agree; a sleeper is woken; joiners are woken; slices end | `TaskSched` |
| task queues (`task_queue.c`) | items, limit, closed flag, tasks waiting to pop | push, pop with timeout, close, clear | no lost wake-up, no waiter while items are left | `TaskSched` |
| VM (`src/vm.c`) | call frames, activations of `mrb_vm_exec`, environments, exception | calls, returns, raise, rescue, ensure, break, C functions that call back | C code goes on at the frame it left; ensure clauses run; unwinding ends | `FiberVM` |
| fibers (`mruby-fiber`) | a context (stack, call frames, status, who resumed it) per fiber | new, resume, yield, transfer, end | one context runs; the links name those that wait | `FiberVM`, `GcHeap`, `ClosureEnv` |
| closures (`src/vm.c`, `src/proc.c`, `src/gc.c`) | environments, on a stack or closed; containers of special variables | make a block, return, end or collect a fiber, end a task, load nested code, write `$~` | an environment never points into a freed stack; one scope has one container | `ClosureEnv` |
| classes (`src/class.c`) | super chains, method tables, method cache, operator slots, the `==` mark | define, undefine, remove, visibility, include, prepend, singleton classes, lookup | what is cached agrees with the chains | `ClassTree` |
| hashes (`src/hash.c`) | entry array, index buckets | store, delete, shift, clear, replace, rehash, compact, each | the table is an ordered map; iteration reads live entries | `HashTable`, `OrderedMap` |
| arrays (`src/array.c`) | embedded, owned and shared buffers, reference counts | push, pop, shift, unshift, store, splice, slice, replace, free | sharing never shows; a buffer is freed once | `SharedArray`, `ArrayValues` |
| strings, symbols, variables | shared buffers, interning table, instance variable tables and shapes | share, intern, get, set, remove | one symbol per name; a shape describes its values | not modelled |
| compiler, loader, tools | trees, bytecode | translate, encode | out of the scope of a state machine model | not modelled |

How they interact: the VM and every library function are the collector's
mutator. They call it (through an allocation, through `malloc`, through
`GC.start`) and it runs on their C stack to the end of a step. A fiber or task
switch changes which stack is a root that carries no barrier, and the sweep of a
fiber closes the environments its frames leave behind. The task scheduler calls the
collector from its idle loop. A timer interrupt, `mrb_tick`, runs between any two
instructions of tasks and scheduler, except inside a section that has masked it.
Hashes, C functions and the scheduler call Ruby code back, which may change what
they are working on or never return to them.

What is hard in this code: the collector's invariants are temporal. A store
between two incremental steps shows its effect one cycle later, after a
different phase has run in a different mode. The scheduler is a set of linked
lists shared with an interrupt handler, in which each wake-up must be matched to
a wait that may be suspended, terminated or resumed in between. A break or the end
of a fiber leaves several stacks at once, and marks set long before decide which.
Caches and windows stand for something that other operations change. PROJECT.json
lists these hazards with their lines and the properties that cover them.

## GcHeap: the collector

`GcHeap.tla` models `src/gc.c`. A member of `Obj` is a slot of the heap and lies
on the page `PageOf[o]`. The variables stand for:

| variable | code |
|---|---|
| `ref`, `roots`, `cxt` | fields of objects, everything `root_scan_phase()` reads, the running fiber |
| `color`, `white` | `gc_color` and `MRB_TT_FREE`, `current_white_part` |
| `state` | `gc->state`, with `FINAL` for the atomic part of marking |
| `gray_stack`, `gray_overflow` | the fixed stack, as a set: the order of scanning is left open |
| `generational`, `full`, `old`, `unswept` | the mode flags, `page->old`, the pages from `gc->sweeps` on |
| `op` | which entry point is on the C stack and where it is in its sequence of cycles |

The mutator moves when `op` is `idle`. An entry point sets `op`; the collector's
steps then run until the entry point is done. An incremental step may give up
after any unit of marking or any page; a minor, full, emergency or mode-switch
collection goes on to the end, and the actions named `...Done` hold what the
caller does when `incremental_gc_finish()` returns. The amount of work per step
(`gc_debt`, `step_ratio`, `malloc_increase`, the thresholds) only decides when
calls come and how long they are, so it is a nondeterministic choice here;
`disabled` and `iterating` suppress calls, which is the choice never to make
one. Objects are leaves (strings, integers), fibers, or containers. A fiber is entered
from the root context and left to it; a nested resume or a transfer is the one after the
other.

`ManagedHeap.tla` is the promise: slots are allocated, references move among
reachable objects, and only unreachable slots are taken back. `GcHeap` is shown
to implement it with allocated meaning *not coloured free*.

### Runs

Every run has three objects on two pages and a gray stack of one entry, so the
stack overflows as soon as two objects are gray. One reference per object is
enough for chains, cycles and sharing of a target. Two pages let a sweep stop
half way with an object on either side, and one page has two slots so that it
can be half dead.

- `gc_heap`: the default build with a fiber, a container and a leaf, and
  `GC.generational_mode=` at any idle moment; all structural invariants, the
  refinement of `ManagedHeap`, and liveness. Weak fairness of `Collector` is what a C
  call stack gives: once called, the collector runs. Nothing is assumed of the
  mutator.
- `gc_emergency_sweep` is a counterexample. A major sweep is parked, `malloc`
  fails, and `mrb_realloc_simple()` finishes the sweep without the bookkeeping
  that ends a cycle, so `full` stays set with black objects on the heap. Stores
  then gray young objects and record them on the gray stack. The next cycle is
  not minor, empties the stack, and sweeps the children of those gray objects
  while they are reachable.

`PoppedIsGray` is the assertion at the top of `gc_mark_children()`, which no run checks.
Added to `GcHeap.cfg` it holds while the mode stays the same (`ModeSwitch` false). With
mode switches it does not: switching generational mode on during a sweep leaves
repainted objects on the gray stack. Without assertions that is harmless, as `gc_heap`
shows.

### Proofs

`GcHeapProofs.tla` proves `NoLiveFree`, `NoLiveCondemned`, `TriColor`,
`GrayTracked`, `OldPagesHoldNoWhite`, `NoBlackBetweenCycles`, type correctness and the
refinement for every set of objects, page layout, gray stack capacity and build
option. The assumptions are `HeapAssumption` and that `SweepOom` is false: with
it true the result is refuted by `gc_emergency_sweep`.

`NoLiveFree` is not inductive. The argument uses a *shield*: some set of objects
that holds the roots, the gray stack and everything marked, is closed under
references, and contains nothing free nor, during a sweep, anything condemned.
`Live` lies in every such set. Mutator steps keep the old shield or add a fresh
slot to it. `FinalDone` is the one place where a new shield is chosen: nothing is
gray then, roots are marked, and by `TriColor` the black objects are closed, so
the marked objects themselves are the new shield and have nothing condemned
among them. `TriColor` in turn needs `GrayTracked`, `FreshStart` (a cycle that
empties the gray stack finds nothing marked) and `OpMode` (which flags each entry
point can meet); `FreshStart` needs `SweptWhite` and `SweptClean`, which say what
a partly done sweep has achieved.

`FullGcExact`, that a full collection leaves nothing allocated that is unreachable,
needs the converse, `FullCycle`. The cycle a full collection starts finds nothing
marked (`FreshStart`), and the mutator does not run before it ends, so everything
marked in it was reached from the roots and `Live` stays what it was. When its sweep
begins, what is not condemned is therefore reachable, and each page swept keeps that.

`CallReturns` is liveness and is model-checked only.

## TaskSched: the task scheduler and its queues

`TaskSched.tla` models `mruby-task`: `src/task.c`, `src/task_queue.c`, the loop of
`Queue#pop` in `mrblib/queue.rb`, and the macro of `src/vm.c` by which a task gives
up the processor. A member of `Task` is a task structure.

| variable | code |
|---|---|
| `queue` | the four linked lists of `mrb->task.queues`, as sequences |
| `status`, `stopped`, `priority`, `reason` | `t->status` (`FREE` before creation and after close), `t->c.status == MRB_TASK_STOPPED`, `t->priority`, `t->reason` |
| `target`, `wake` | the members of the union `t->wait` |
| `popping` | the local `deadline` of the `Queue#pop` the task is in the loop of |
| `timeslice` | `t->timeslice` of the task that was entered last, the only one that is read |
| `tick`, `wakeup_tick`, `switching` | the fields of `mrb->task` |
| `pc`, `driver`, `cur` | where the thread is, which entry point called the scheduler, the local `t` of the scheduler |
| `inC` | a call frame with `cci > 0` lies between the scheduler and the task's code |
| `resumed`, `waking` | a `Task#resume` between its two masked sections; a walk of the waiting list in progress |
| `items`, `closed` | the `Task::Queue` |

Two actors share this state. The *thread* executes root code (`pc = "root"`), the
scheduler (`top`, `enter`, `switch`, `return`, `requeue`) or a task (`run` at an
instruction boundary, `call` in an instruction). The *interrupt* `mrb_tick` comes
between any two steps. A section between `mrb_task_excl_enter()` and
`mrb_task_excl_exit()` is one step. Three windows outside such sections matter and
are steps of their own: between picking a task and entering it, between making it
RUNNING and clearing the switch flag, and between the two sections of
`Task#resume`. In the other places a tick between the section and the lines around
it can only set `switching` where the next line sets it too, where nobody reads it
before `execute_task()` clears it, or wake a task, which sets it anyway. A tick between the
deadline test of `queue_pop_try()` and the section that parks the task leaves it with a
deadline that is due, and the next tick wakes it.

`May(c)` says where a call can come from: root code, a scheduler hook the host
installed, or an instruction of the running task. `MayPark` adds the checks for a C
function on the stack; where these raise an exception nothing changes and there is
no action. `Calls` selects the calls the programs of an instance make. At a
boundary the VM leaves the task if its context is stopped, or if a switch is wanted
and no C function is on the stack. An exception in flight and an object walk defer
a switch in the same way and are covered by `inC`.

Idling (`mrb_hal_task_idle_cpu`) and the collector steps of the idle loop are
stuttering of the thread while ticks go on. `loop_running` makes a nested `Task.run`
return at once, so only root code starts the scheduler.

### Runs

- `task_lists`: two tasks, every call that moves one from list to list, priorities 0
  and 1, a scheduler hook, C functions on the stack, `Task.run` and `Task.pass`, and
  sleeps of one and two ticks on a counter that wraps at 8, so that every alignment
  of deadline, wrap and sentinel occurs.
- `task_waits`: three tasks, and the wake-ups of joiners and of queue waiters, with
  sleeps and timeouts. Suspension, termination and `mrb_stop_task` are left out of
  the calls because they break the two properties, as the list below says.
- `task_slices`: liveness with tasks of one priority, under `Task.run` and
  `mrb_task_run_once`.

Where the code does less than its documentation says. Each can be seen by changing
the constants of a run:

- `task.c:974`, `Prio = {0, 1}` in `TaskSched_slices.cfg`: a task creates one of higher
  priority. Nothing asks for a switch, since the head of the list is compared after
  the insertion, and ticks count against the head and no longer against the task that
  runs. `SliceEnds` fails.
- `task.c:379`, `"suspend"` among the calls of `TaskSched_waits.cfg`: a suspended waiter
  is not on the list that is walked when its target completes, and goes back to
  waiting when resumed. `JoinTargetAlive` fails, and `ItemsFetched` in the same way.
- `task.c:274`, `"stop"`: the scheduler retires a stopped task without waking joiners.
- `task_queue.c:109`, `"terminate"`: the one waiter that a push woke is terminated
  before it fetches the item, and nobody else is woken.

Two more can be seen by changing constants of `TaskSched_slices.cfg`. With
`SlowEntry` true, ticks of a whole timeslice between `status = RUNNING` and
`switching_ = FALSE` in `execute_task()` leave a task that is never preempted. With
`"pass"` among the calls, `ReadyRuns` fails: `Task.pass` in root code does not rotate
the ready list.

Bounds. `TickRange` stands for 2^32: the arithmetic only depends on which half of
the range a difference lies in. `Delays` are below half the range, as
`queue_deadline()` enforces and the caps of `sleep` imply. `Horizon` stops the clock
before a deadline left with a suspended or starved task is half the range old (99
days of ticks). `QuickEntry`, where `SlowEntry` is false, keeps the ticks that come
while a task is entered below a timeslice. `MaxItems` bounds the queue. One
`Task::Queue` is enough for what is asked: waiters of another queue are tasks the
walk passes by, as sleepers and joiners are here.

Fairness (`FairSpec`): the timer ticks, and the thread takes its next step, which
may be to go on computing. Root code that has returned from the scheduler calls it
again, as the host loops of the README do. Nothing is assumed about which call a
task makes or that it ever ends. Symmetry over tasks is used in the safety runs
only.

### Proofs

`TaskSchedProofs.tla` proves `TypeOK`, `ListsMatchStatus`, `ReadyInOrder` and
`OneRuns` for any finite set of tasks, any priorities, any tick range above 3, any timeslice
and any set of calls, from `TaskAssumption` alone.

The lemmas about lists come first. `InsertPlace` shows that the place where a task
is inserted exists, by the least-number principle; `InsertFacts` and `RemoveFacts`
say that an insertion keeps a list sorted and free of duplicates and adds one
member, and that a removal takes one away. The invariant `IInv` joins the four
properties with `PickedInUse`: the task the scheduler holds in its local `t` has not
been freed, and is READY until it is entered. Without it `EnterTask` could give the
status RUNNING to a task that is on another list. `CreateOrder` and `PriorityOrder`
are the two places where a priority changes; all other moves go through
`ChangeState`. The priority of a waiting or suspended task may change without its
list being sorted again, so the invariant claims order of the ready list only.

The second part of the module proves the three properties about waiting, on top of `IInv`
and each for the calls for which it holds.

`SleepersCovered` is a statement about signed differences modulo `TickRange`. `Modulo`
evaluates the remainder of a number less than one range away; `DiffValue`, `DiffFrom`
and `DiffNext` derive what the 32-bit comparison of two ticks says when both lie in a
window around the clock, and how that changes with a tick. The invariant `SInv` places
every deadline (of a sleeper, of a pop in its loop, and `wakeup_tick`) in such a window
and says that `wakeup_tick` is not later than that of any sleeper. The longest delay is
the upper end of the window, and `Horizon` keeps its lower end. The theorem assumes
`DelaysApart`: a program does not use both a delay of 0 and one of half the range less
one tick. A sleep of 0 whose deadline falls on the sentinel `UINT32_MAX` is moved one
tick, and then is half a range away from the deadline that `queue_deadline()` gives the
longest timeout (`task_queue.c:151`), a distance at which comparisons have no
meaning. Sleeps of under one tick and timeouts of exactly `INT32_MAX` ticks (99 days)
would have to meet.

`JoinTargetAlive` assumes `NoneSuspended` (no `suspend`, no `stop`) and `ItemsFetched`
assumes `NoneEnded` (no `terminate`, `close` or `reset` either, which all end a task): the
calls left out are those that break the properties, as listed above, or their like. For the first the invariant adds that
a stopped task has ended or is on its way to the scheduler (`StoppedEnds`). For the second
it counts (`ItemsReached`): while a task waits for an item, the queue is open and there are
no more items than tasks that are awake in the loop of `Queue#pop` and will fetch one.

`SliceEnds` and `ReadyRuns` are liveness, out of the prover's reach.

## FiberVM: call frames, fibers and the C stack

`FiberVM.tla` models how control moves over three stacks: the call frames of every
context, the links from a fiber to the one that resumed it, and the C stack, on which
`mrb_vm_exec()` runs again whenever a C function yields to a block or resumes a fiber.

| variable | code |
|---|---|
| `cur`, `status`, `prev`, `vmexec` | `mrb->c` and the fields of `mrb_context` |
| `ci` | call frames: who pushed the frame (`cci`), the handler that covers its pc, what its ensure clause will raise again, the frame its block belongs to |
| `nest` | activations of `mrb_vm_exec()`, each with the context and depth of its caller |
| `pc`, `brk` | bytecode, a C function, or one of the unwinding loops, and where a break goes |

Values are left out: an exception is an exception, and a program may raise, return,
break, call or switch at any point where the code lets it. The error paths of
`fiber_switch()` (a double resume, a dead fiber, a switch across a C function) raise.

- `fiber_switch`: two fibers, four frames deep, seven frames and three activations in
  all. That is enough for a fiber that C code resumed, in which a C function calls a
  block that breaks, raises or yields, over an ensure clause. `FiberSpec` has weak
  fairness of the whole next-state relation: the interpreter is sequential and takes
  its next step as long as there is one.
- `fiber_break` is a counterexample. A break that leaves an `mrb_vm_exec()` clears
  `vmexec` of the running context, although the activation of `fiber_switch()` that
  runs the context is another one and goes on. When the fiber ends, `OP_RETURN` takes it
  for one that bytecode resumed and pops the frame of a C function that still waits.
  `fibertest.c` raises `[BUG] INVALID CI POSITION` in just that state.

Left out: a break out of a method that has called itself since the block was made
(`vm.c:4261` looks for the nearest frame of the method), a break through `mrb_protect()`, which takes it
for a result, and the return of a frame whose `keep_context` is cleared (`vm.c:4388`),
which no frame that bytecode returns from has.

With `TransferInResumed` true, `CiPosition` fails too (`vm.c:4379`): a fiber that
transfers away while `mrb_fiber_resume()` waits for it lets another fiber's end be taken
for its own.

`FiberLinks` speaks of the chain of contexts that control goes back through, `Chain`, and not
of all contexts with status RESUMED. Root resumes `f1`, which resumes `f2`, which transfers to `f3`,
which ends: Root runs again, while `f1` and `f2` are abandoned, `f1` still RESUMED with `prev`
Root. Root may then resume another fiber, and two contexts have the same `prev`.

### Proofs

`FiberVMProofs.tla` proves `FiberTypeOK`, `StacksInStep`, `FiberLinks`, `CiPosition` and
`EnsureRuns` for any set of fibers and any bound on frames and activations, under the
hypothesis `Contained`: `BreakInResumed` and `TransferInResumed` are false. With either of
them true `CiPosition` is refuted.

The invariant `FInv` has three parts.

- `Contexts`, about each context by itself: which frame may lie on which (`Stack`: a frame
  that C code pushed lies on that of the C function, every other one on bytecode), and that
  a context that does not run has the C function on top by which it was left.
- `Position`, about the unwinding loops: where a break or an exception has got to, and that
  in a context that C code resumed the frames a break still has to leave were all pushed by
  bytecode (`Plain`), which a break across a C function would contradict.
- `Story(S, pos)`, about all stacks together, for some set `S` of contexts numbered by `pos`:
  `S` is the chain of resumers of the running context, and the activations on the C stack
  are ordered along it, by context and then by depth, one for every frame with `cci` SKIP and
  one for every fiber whose `vmexec` is set. The set and its numbering are existentially
  quantified, because defining them from `prev` needs recursion. `ChainIsPath` shows that
  the `Chain` of the model is such a set.

Every action has a lemma `Keep...` that proves the invariant of the next state and `Tidy`, what
the two action properties say of the step; resuming, yielding, transferring and ending
have lemmas on how the chain grows or loses its end. The method a block breaks to is found by
the model through a recursive function on frames. That this function exists is shown by
looking at a least frame for which it does not (`MethodExists`).

`UnwindingEnds` is liveness and is model-checked only.

## ClosureEnv: scopes that outlive their frames

`ClosureEnv.tla` models environments and special variables (`$~`). A frame that makes a
block gets an environment, on the stack while the frame stands and closed, with a copy
of the locals, when it goes: by a return (`cipop`), at the end of a fiber
(`fiber_terminate`), when a task ends (`task_unshare_envs`), when the host starts another
chunk (`mrb_vm_ci_env_clear`), or in the sweep of a fiber that nobody can resume. The
container of a scope's special variables is made at the first write and is found by
`svar_owner_from()`, which walks frames, blocks, nested loads and contexts. It lies
beside the frame, in a slot of the closed environment, or one forward further.

| variable | code |
|---|---|
| `fr` | the frames of the root context and of one fiber or task, each with its proc, its environment and its entry of `c->svars` |
| `blk`, `env`, `sv` | `RProc` (environment, `upper`), `REnv` (`cxt`, whether it has its locals, the slot), `RSvar` |
| `c` | the running context, the kind of the other one and whether the program holds it, whether it has `svars` |
| `gc` | the phase, the black and the gray objects while marking, and those with the white of before the root scan, which die unless they are marked. What is made from the root scan on has the other white and is in none of these sets, as in `gc.c:873` |
| `first` | history: the container made by the first write to every scope |

The collector works between any two steps of the program: `StartMark` is the root scan with
the flip of the white, `Mark` scans one gray object, `FinishMark` is the atomic end of marking, and
`Sweep` frees what is dead on one page. The cells of a swept page are free at once and are
used again. A collection may also run inside the allocations of `svar_owner_force()`, `cipop()`,
`mrb_vm_ci_env_clear()` and `fiber_terminate()`, where it finishes the cycle under way and does
another one.

- `closure_env`: three blocks, one in each scope; a fiber or task with a method and a
  nested load; one collection; two pages, so that the fiber is swept before or after
  what its frames refer to. That is the smallest program in which a load forwards to
  the environment of the scope below. A second container is not needed: two containers
  for one scope need a read that misses the first, which `SvarsShared` refutes at once.
  The program ends when its calls are used up, so deadlock is not checked.
  The bounds: calling a block counts as two calls (`Push`), blocks and the fiber are
  dropped before the collection begins (during one, a dropped object is either marked or as
  if dropped before), nothing new is made after the last collection (`Going`), and of the gray
  objects one is scanned first, whichever TLC chooses (`MarkNext`). With any order of
  scanning the instance has 1.5 million states and no error.
- `closure_recycled` is a counterexample, with `StaleReuse` true. A suspended fiber is dropped
  together with the block it made. The page with the environment of the fiber's frame is swept
  before that of the fiber, and the program, which runs in between, makes a block whose
  environment gets the freed cell. Then the fiber is swept. `mrb_env_detach_all()` finds in
  the cell its frame names an environment that is not dead (`mrb_object_dead_p()`) and is on
  a stack, does not compare `e->cxt` with the context it is called for, and closes it. The frame
  that runs is left with a closed environment, and its block no longer shares its locals.

Three situations are excluded from `closure_env` by constants, because the code does not do in them what
the properties say:

- `StaleReuse`: a cell that a frame of a dead fiber still names is reused before the fiber is
  swept. `EnvOwned` fails, as `closure_recycled` shows.
- `UnmarkedEnd`: a fiber ends (`vm.c:969`) while the collector is marking and has not come to its
  environment. `is_dead()` (`gc.c:279`) is true for whatever has the old white, marked later or
  not, so `fiber_terminate()` frees the stack and leaves the environment, which a block
  may hold, on it. `EnvOwned` fails after ten states.
- `LateWrite`: after the environment of a nested load was marked, and with it what the load will
  carry (`gc.c:1087`), a block of the load writes `$~` of a method without an environment on a
  fiber that is being collected. The container is put beside the method's frame and is gone
  with it. `SvarsShared` fails; nothing dangles.

Writes of `$~` into frames of a fiber that is being collected are otherwise part of the
run. The new container has the new white and is not swept in this cycle, and the sweep of the
fiber hands it to the environment. What values a container holds is not modelled.

`SvarsShared` is checked with enough memory (`Oom` false). An adoption that fails
(`vm.c:1146`) leaves the slot empty and raises after the pop, and with `Oom` true the model does
so as well: the exception then is the frames it pops. `EnvOwned` is proved for that case too.
Left out of closing: the path for an environment without locals (`vm.c:997`), which
closes it without a slot and without an allocation, a raise of `mrb_vm_ci_env_clear()` to the host, and a collection in
the allocation of the array beside the frames (`mrb_ci_svar_set()`), which follows directly
on that of the container.

With `SvarUsed` false, `SvarsShared` fails: before the first special variable of a program
is written a context has no array to record forwards in, so that two blocks that shared a
scope on a fiber's stack stop sharing it when the fiber is collected in the allocation of
that first write (`vm.c:1158` says they still do).

The loops of the code are recursive functions of a number of turns: as many as there are
blocks, environments, frames or objects to visit, so that each has come to its end when the
turns are used up.

### Proofs

`ClosureEnvProofs.tla` proves `EnvOwned` from `ClosureAssumption` and `PageAssumption`, for any number of
blocks, environments, containers, frames, calls, collections and pages, with any order of marking
and sweeping, with closing allocations that fail and with the writes that `LateWrite` leaves out
of the run. The hypotheses are that `StaleReuse` and `UnmarkedEnd` are false; with either true
the result is refuted.

The inductive invariant is `OwnedInv`, which TLC checked first with `Oom` and `LateWrite` both true, as far
as 400 thousand states.
An environment that is not dead and on the stack lies on a frame of the context it names (`OnFrames`), a closed
one on none (`Closed`), no two frames have the same (`OneHolder`), and one that a frame has is
not free, unless the frame is that of a dead fiber (`HeldMade`): `MakeBlock` takes a free one,
which with `StaleReuse` false no frame has. The rest is about the colours. What is white was made
(`DeadMade`) and is not on the stack of a task (`TaskKept`), and Fib is white only as a fiber
that nobody can resume (`FibKept`). What is dead is on no stack but that of a dead fiber
(`HeldKept`). While marking, an object has one colour (`Disjoint`), and once Fib is black nothing
white is on its stack (`Shaded`); this makes `HeldKept` true when marking ends. Without `TaskKept` the end of
a task between marking and sweep could skip an environment as dead; without `FibKept` a fiber
could be freed while it runs.

The operators of the model pass a state on, so the invariant is one of states, `Ok(s, X)`, where X
are the environments excused from `OnFrames`. `fiber_terminate()` drops the frames before it closes
their environment, with an allocation that may collect in between, and the collection is
followed with that environment in X. Four arguments carry the rest. What a root refers to is
not dead after `FinalMark`: the marking loop sees its roots in the first turn and never
forgets one. If it reaches a white object it reaches that object's children: every turn that finds
something new makes the set of white objects seen larger, so that nothing is left to scan when the turns,
one more than there are white objects, are used up. The walk of `mrb_env_detach_all()` is followed by induction on the frames it has
passed: their environments are closed or dead and the others as they were. And a special
variable is only installed where a walk ended: on a frame, in a closed environment with its locals, or
nowhere, so that no slot appears in an environment on the stack or in one closed out of memory. Each
recursive function is shown to exist before its values are used.

`NothingDangles` and `SvarsShared` are model-checked only. `NothingDangles` says what the forwards and
loads recorded at a marking still reach when a later step walks them again. `SvarsShared` relates such walks in two states. Either needs an invariant
of the shape of all chains of blocks, loads and forwards.

## ClassTree: ancestors, methods and what is cached of them

`ClassTree.tla` models `src/class.c`. `h` holds the `RClass` structures field by field
(`super`, `mt`, the class an ICLASS stands for, the flags), `tbl` the method tables,
`cache` one set of the two-way method cache, `armed` the slot that lets an opcode answer
for `==` of a builtin class. `include_module_at()` and `mrb_prepend_module()` insert ICLASSes,
pass the inclusion on to the descendants of a module, drop cache entries, refresh the
slot and set the `==` marks, each in the order of the code.

- `classes`: a root, a class, its singleton class and two modules, of which
  the program changes one; three ICLASSes and two definitions. Every derived thing has a
  chain in which the change that matters is in a superclass, in a module, or in a module of
  a module. One method name is enough, since
  names only meet in a set of the cache, which holds two entries.

`ChainsSound` does not say that a module stands once on a chain, because it may stand there
twice: `Y.include M; Y.include N; M.include N` leaves two ICLASSes of `N` behind `Y`, as
`fix_include_module()` searches from the ICLASS of `M` on. With four ICLASSes TLC shows it.

With `Programs = {"late"}`, `AncestorsClosed` and `EqSound` fail. `include_module_at()` passes
over a module that has been prepended to, so the flag that says it is included goes to
its origin, and `M.prepend N; C.include M; M.include K` leaves `K` out of the ancestors of
`C`, which the comment above `mrb_include_module()` says it does not. With `{"cyclic"}`, a
cyclic include that a program rescues keeps the ICLASSes it had already inserted, without
clearing the cache.

Left out: the `NameError` of a visibility change for a name that is not defined, which comes
after the table was made writable, and `protected`; the tombstone by which a method in
read-only memory is removed; the copies of the `==` mark for nil, true and false;
singleton classes of singleton classes; and the copy that `module_function` makes.

### Proofs

`ClassTreeProofs.tla` proves all five invariants for any classes, modules, singleton classes and
method names and any number of ICLASSes. `ClassAssumption` says that the classes are a finite
tree with one root, whose inner nodes are no singleton classes. `ChainsSound` needs nothing else.
`CacheCoherent` and `ArmedCoherent` are proved for programs that rescue no cyclic include,
`AncestorsClosed` and `EqSound` for `Programs = {}`; with the other programs TLC refutes them.

Everything rests on `Sound(h, rank, owner)`, the inductive invariant of the heap (`HeapInv`). Every
ICLASS belongs to the *thread* of the class or module it was put behind, its `owner`, and
`rank` falls along every super pointer. A chain is the thread of its head, then those of the
superclasses, so that walks end, and an insertion behind a place changes the chains that pass
it and no others. `rank` and `owner` are existentially quantified: an insertion renumbers the ranks.
`Standing` says what an ICLASS stands for, that an origin belongs to the class whose table it
holds, and that tables are shared with what they are named after.

The loop of `include_module_at()` is followed by `Including`: what has been inserted so far belongs to
the thread of `c`, and everything passed on the chain of `m` is there (`Seen`). `IncludeEach` is an
induction over the members of its set (`Brought`). The lemmas `...Heap` then give for every action
the next heap's soundness and, if programs are well behaved, two more parts. `Closed` is
`AncestorsClosed`, and its proof needs `Flagged`: a module with an ICLASS that was not prepended to
carries the flag that sends `mrb_include_module()` on to `fix_include_module()`. `EqClosed` says
that the mark reaches all heirs. `EqSound` adds `Marked`: a table with another `==` than the
builtin belongs to something marked.

For the cache, `Find` depends on the chain and the tables on it alone (`FindAlike`). A definition at
`c` changes what is found for that name only, also when it makes the table (`Blank`: a table
nobody refers to is empty), and the entries of the name are dropped. What `obj_free()` frees is the
thread of the singleton class, so no other chain passes it, and the entries of the class
itself are dropped.

## HashTable: the two tables of a hash

`HashTable.tla` models `src/hash.c`: the entry array, searched linearly while it is small
and through index buckets when it is large. `OrderedMap.tla` says what a hash is, a
sequence of pairs with distinct keys; `HashTable` is shown to implement it. Keys are
objects with a content that may change while they are stored. The callback of an
iteration makes any two changes between two entries, and the iterator has
`H_CHECK_MODIFIED` and `entry_check_vacated()` to notice. `realloc` may return the same or
another address.

- `hash_map`: seven keys on colliding codes, limits of 2, 3 and 8 slots instead of 4, 16
  and 32, so that the table turns into its indexed form and back, doubles its index, and
  compresses its entries. One key is stored and deleted by the program over tables that
  were filled before, which reaches every arrangement of tombstones around it.

Every `hash` and `eql?` of a key may be a method that raises, and `StoreRaises` is a store that
one ends after it began to change the table. `Indexes` stands for the loop of `ib_init()`, which asks each key for its hash
after `ht_init()` has made the table an indexed one: it stops at any entry. `RaiseIn` says where
programs raise. Two of the places are excluded from the run, because the code does not
survive them:

- `"index"`, in `ib_init()` (`hash.c:940`), of a store that promotes, grows or compresses the table: the entries the
  loop has not come to are not in the index. With `RaiseIn = {"ar", "index"}` TLC finds
  `TableWellFormed` and `LookupAgrees` violated after one store. `ImplementsOrderedMap` is violated by
  the store after it, which appends a second entry of a key it does not find. (`mrb_hash_shift` has a
  guard for such tables: the loop of `ht_shift()` would not end.)
- `"ht"`, in `ht_rehash()`: it sets the number of used slots to 0 before it walks them, so that
  a raise leaves entries where the next store will write, and `EntriesCounted` fails; the comment
  at `hash.c:1226` says that the array is not broken.

Left out: hashes too big for `IB_MAX_CAPA` (`hash.c:920`, `hash.c:1054`), far above `MaxUsed`; and `replace`
takes over a hash that was just filled, not one with a history of its own. The instance has 65 thousand states.

### Proofs

`HashTableProofs.tla` proves `TableWellFormed`, `LookupAgrees` and `EachReadsLive` for any keys, hash
codes, limits and bounds that `HashAssumption` admits, under the hypothesis that neither `"ht"` nor `"index"` is in
`RaiseIn`: no method raises in a rehash of an indexed table nor while an index is built. Without it
the three results are refuted, as said above.

The inductive invariant `HInv` has three parts. `Good` is about the table: entries are counted and lie
below `used` (`Entries`), every entry has one bucket and every bucket is empty, deleted or
names a slot in use (`Index`), and a small table is within its limits (`Small`). `Keyed` holds unless a
stored key has changed: keys are distinct, a bucket lies on the probe sequence of its key
(`OnProbe`), and the buckets before it on that sequence are not empty (`Reachable`). `Watching` relates
a running iteration to the table it was started on.

Two facts carry the lookup. Triangular probing visits every bucket: two steps of a probe that
meet differ by a product that a power of two divides only if they are the same step
(`ProbeInjective`), so as many steps as buckets reach all of them (`ProbeReaches`). And the buckets
taken, deleted ones included, are at most `used`, which stays below the capacity, so that an
empty bucket exists and every search ends. A rehash is followed entry by entry by an invariant
of its walk (`Midway`): what has been written back is a table without duplicates, and what is ahead is
still to be read. The recursive functions of the model (`ib_bit_to_capa`, `IndexUpTo`, `Walk`, `Filled`)
are handled by showing that a solution exists and by induction on its argument
(`InductionInSet`, from the least counterexample).

`HashMapProofs.tla` proves `ImplementsOrderedMap` under the same hypothesis. The mapping `PairsOf` is a
recursive function; it is shown once to be the entries in the order of their slots (`PairsAre`), and
any list of the active slots in order gives it (`PairsFrom`). Resizing, compressing, indexing and the
conversions then leave the pairs alone, a store overwrites a pair or appends one (`h_setPairs`), a
deletion takes one out (`h_deletePairs`), and `compact!` keeps those that are not nil
(`CompactPairs`). For a rehash the invariant of the walk is strengthened to say what was written
(`WalkedPairs`): after n turns the front holds one pair for each content among the first n, with
the first key and the last value (`MergedPairs`), whether the walk was ended there or went through
and the table was then trimmed or turned into the linear form. Filling a hash needs one more
invariant, that an object which cannot change keeps its content (`Own`).

## SharedArray: arrays that look into one buffer

`SharedArray.tla` models the storage of arrays: embedded in the structure, in a buffer of
its own with a capacity, or a window of a reference-counted buffer. `ArrayValues.tla` says
that arrays are independent values; `SharedArray` implements it.

- `arrays`: three arrays of up to two elements, with thresholds that make them share from
  one element on, so that three windows on one buffer, at different offsets, are written,
  shifted, spliced into one another, replaced by one another and freed in any order. Two
  arrays of three elements and two values pass as well.

Left out: `unshift` of several values, and of a value in the array's own buffer; that an array
grown too big raises after it was unshared (here it is not grown); and the errors of `splice` for a
negative index or length.

### Proofs

`SharedArrayProofs.tla` proves `WindowsInside`, `RefcntExact` and the refinement of `ArrayValues`
from `ArrayAssumption`: finitely many arrays, positive limits, and the order of the thresholds
in `array.c` (an array that shares its buffer is longer than an embedded one). The length of an
embedded array may be 0, as in builds with `MRB_ARY_NO_EMBED`.

The inductive invariant is `Good` of the heap: structures have their types, a window lies inside a
buffer that is in use, an array fits its capacity and `ARY_MAX_SIZE`, and every reference count is
the number of arrays whose windows name the buffer. Neither property is inductive alone. A
decrement frees the buffer when the count was one, and only exactness says that nobody else
looks into it; exactness in turn needs the type and finiteness of the set of holders.
The functions of the code are operators from heap to heap in the model, so each has a
lemma with two parts: it keeps a heap `Good`, and what it does to `View`, the values that a program
sees. `ary_modify` and the change of capacity leave `View` alone, and the operations change it at one
array as `ArrayValues` says, whichever arrays share the buffer. The refinement follows action by action.

## What is proved and what is only checked

`GcHeapProofs`, `TaskSchedProofs`, `FiberVMProofs`, `ClosureEnvProofs`, `ClassTreeProofs`,
`HashTableProofs`, `HashMapProofs` and `SharedArrayProofs` hold the theorems, for every value of
the constants that the named assumptions and hypotheses admit: every invariant and action property
that the runs check of the collector, the scheduler, fibers, classes, hashes and arrays, the ownership
of environments, and the three refinements.

Checked on the instances above only: liveness everywhere (`CallReturns`, `SliceEnds`,
`ReadyRuns`, `UnwindingEnds`), which with `ENABLED` is out of the provers' reach, and `NothingDangles` and
`SvarsShared` of `ClosureEnv`, for the reason given there.

Mutants: for every property PROJECT.json names a definition and a version of it with a
mistake (operators called *Mutant* in the modules), under which TLC refutes the property.

## What is not modelled

PROJECT.json gives the reason for each part. In short: the compiler, loader and
command line tools have no state machine to check; number formatting, packing,
regular expressions and other library code are algorithms on data better served by
tests; ports and I/O are system calls.

Within the modelled parts:

- collector: pacing (`gc_debt` and the thresholds) and the freeing of each type of object;
- scheduler: synchronous execution and allocation failures;
- VM: instructions that compute on registers, keyword and block arguments, backtraces;
- closures: loads in a block's frame, several fibers, generational marking, the values in a
  container of special variables, and the
  environment `mrb_vm_run()` closes when the host runs another chunk over the same frame;
- classes: refinements, copies of classes, aliases, hooks, constants, frozen receivers;
- hashes: default values, merges and copies, the packed layout of buckets;
- arrays: searching, sorting, joining, and operations that only read. Strings share their
  buffers by the same scheme and are not modelled separately.

## Plan

1. Proofs: `NothingDangles` of `ClosureEnv` on top of `OwnedInv` and its colours, with an invariant of the chains of
   blocks, loads and forwards, and then `SvarsShared`.
2. `SyncExec`: `mrb_execute_proc_synchronously`, its lock counter and the switch flag it
   parks, on top of `TaskSched`; allocation failure in `task_init_context`.
3. `GcPacing`: `gc_debt`, `step_ratio`, `GC.scheduler_driven`; signed arithmetic at its limits,
   and that debt is worked off.
4. `Shapes` (instance variable tables of `src/variable.c`) and `Symbols`.
