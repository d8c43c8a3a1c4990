------------------------------ MODULE TaskSched ------------------------------
(***************************************************************************)
(* The task scheduler of mruby-task: src/task.c and src/task_queue.c.      *)
(*                                                                         *)
(* One thread runs root code, the scheduler loop and one task at a time;   *)
(* pc says where it is.  The timer interrupt, mrb_tick(), comes between    *)
(* any two of its steps and shares the lists with it.  A section between   *)
(* mrb_task_excl_enter() and mrb_task_excl_exit() is one step; a walk that *)
(* wakes several tasks is a run of WakeNext steps nothing comes between.   *)
(* What a task computes is left open: between two VM instructions it may   *)
(* make any call of the set Calls.                                         *)
(***************************************************************************)
EXTENDS Integers, Sequences, FiniteSets

CONSTANTS
    Task, NoTask,              \* task structures, and the null pointer
    Prio,                      \* priorities in use; 0 is the highest
    TickRange,                 \* 2^32 in the code: tick counters wrap there
    Delays,                    \* lengths of sleeps and pop timeouts, in ticks
    MRB_TIMESLICE_TICK_COUNT,
    MaxItems,                  \* bound: items in the Task::Queue
    SlowEntry,                 \* ticks of a whole timeslice may come in EnterTask
    Calls                      \* the calls programs make

ASSUME TaskAssumption ==
    /\ NoTask \notin Task /\ IsFiniteSet(Task)
    /\ Prio \subseteq Nat /\ Prio # {}
    /\ TickRange \in Nat /\ TickRange > 3
    /\ Delays \subseteq 0 .. (TickRange \div 2 - 1)
    /\ MRB_TIMESLICE_TICK_COUNT \in Nat \ {0}
    /\ MaxItems \in Nat
    /\ SlowEntry \in BOOLEAN

VARIABLES
    queue,        \* mrb->task.queues: the four linked lists
    status,       \* t->status, "FREE" for a structure not in use
    stopped,      \* t->c.status = MRB_TASK_STOPPED
    priority,
    reason,       \* t->reason
    target,       \* t->wait.join
    wake,         \* t->wait.wakeup_tick or t->wait.queue.wakeup_tick
    popping,      \* deadline of the Queue#pop a task is in the loop of
    timeslice,    \* t->timeslice of the task that runs
    switching, tick, wakeup_tick,
    pc,           \* where the thread is
    driver,       \* what called the scheduler: Task.run, run_once, Task.pass
    cur,          \* the task picked or running, the t of execute_task()
    inC,          \* a C function lies between the scheduler and the task's code
    resumed,      \* the task of a resume_task_internal() half done
    waking,       \* tasks the walk of q_waiting_ in progress has yet to move
    items, closed \* the Task::Queue

tasks == <<queue, status, stopped, priority, reason, target, wake, popping>>
clock == <<tick, wakeup_tick, timeslice>>
cpu   == <<driver, cur, inC, resumed>>
q     == <<items, closed>>
vars  == <<queue, status, stopped, priority, reason, target, wake, popping,
           timeslice, switching, tick, wakeup_tick, pc, driver, cur, inC,
           resumed, waking, items, closed>>

Status  == {"FREE", "DORMANT", "READY", "RUNNING", "WAITING", "SUSPENDED"}
QueueId == {"dormant", "ready", "waiting", "suspended"}

-----------------------------------------------------------------------------
(* Ticks.                                                                  *)

UINT32_MAX == TickRange - 1
Ticks      == 0 .. UINT32_MAX
NotPopping == TickRange

\* (int32_t)(a - b)
Diff(a, b) ==
    LET d == (a - b) % TickRange
    IN  IF d < TickRange \div 2 THEN d ELSE d - TickRange

mrb_task_normalize_wakeup(d) == IF d = UINT32_MAX THEN UINT32_MAX - 1 ELSE d
Deadline(n) == mrb_task_normalize_wakeup((tick + n) % TickRange)

\* Mutant: the comparison with the sentinel of no sleepers.
EarliestWithoutSentinel(w) ==
    IF w # UINT32_MAX /\ Diff(w, wakeup_tick) < 0 THEN w ELSE wakeup_tick

\* wakeup_tick_ after a task that wakes at w has been parked.
Earliest(w) ==
    IF w # UINT32_MAX /\ (wakeup_tick = UINT32_MAX \/ Diff(w, wakeup_tick) < 0)
    THEN w ELSE wakeup_tick

\* The least of some ticks, if they lie close enough together to have one.
Soonest(S) == {w \in S : \A v \in S : Diff(w, v) <= 0}

Timed(t) == reason[t] \in {"SLEEP", "QUEUE"} /\ wake[t] # UINT32_MAX

-----------------------------------------------------------------------------
(* The lists.                                                              *)

q_get_queue(s) ==
    CASE s \in {"READY", "RUNNING"} -> "ready"
      [] s = "WAITING"              -> "waiting"
      [] s = "SUSPENDED"            -> "suspended"
      [] OTHER                      -> "dormant"

\* t goes in front of the first task of lower priority.
Insert(l, t, prio) ==
    LET k == CHOOSE i \in 0 .. Len(l) :
                 /\ \A j \in 1 .. i : prio[l[j]] <= prio[t]
                 /\ i < Len(l) => prio[l[i + 1]] > prio[t]
    IN  [i \in 1 .. Len(l) + 1 |->
            IF i <= k THEN l[i] ELSE IF i = k + 1 THEN t ELSE l[i - 1]]

Listed(l, t) == \E i \in 1 .. Len(l) : l[i] = t

Remove(l, t) ==
    IF ~Listed(l, t) THEN l
    ELSE LET k == CHOOSE i \in 1 .. Len(l) : l[i] = t
         IN  [i \in 1 .. Len(l) - 1 |-> IF i < k THEN l[i] ELSE l[i + 1]]

mrb_task_q_insert(Q, s, t) == [Q EXCEPT ![q_get_queue(s)] = Insert(@, t, priority)]
mrb_task_q_delete(Q, s, t) == [Q EXCEPT ![q_get_queue(s)] = Remove(@, t)]

Relinked(t, s) == mrb_task_q_insert(mrb_task_q_delete(queue, status[t], t), s, t)

\* Mutant: the status is changed before the task is taken off its list.
ChangeStatusFirst(t, s) ==
    /\ queue' = mrb_task_q_insert(mrb_task_q_delete(queue, s, t), s, t)
    /\ status' = [status EXCEPT ![t] = s]

task_change_state(t, s) ==
    /\ queue' = Relinked(t, s)
    /\ status' = [status EXCEPT ![t] = s]

q_ready_  == IF queue.ready = <<>> THEN NoTask ELSE queue.ready[1]
Waiting   == {t \in Task : Listed(queue.waiting, t)}
Waiters   == {t \in Waiting : reason[t] = "QUEUE"}

\* Mutant: only the most urgent of the tasks that joined u is woken.
UrgentJoiners(u) ==
    LET all == {t \in Waiting : reason[t] = "JOIN" /\ target[t] = u}
    IN  {t \in all : \A s \in all : priority[t] <= priority[s]}

Joiners(u) == {t \in Waiting : reason[t] = "JOIN" /\ target[t] = u}

\* The task of S that a walk of q_waiting_ meets first.
FirstWaiting(t, S) ==
    \E i \in 1 .. Len(queue.waiting) :
        /\ queue.waiting[i] = t
        /\ \A j \in 1 .. i - 1 : queue.waiting[j] \notin S

\* One iteration of such a walk: in wake_up_join_waiters(), mrb_tick(),
\* queue_wake_one_waiter() and queue_wake_all_waiters().
WakeNext ==
    \E t \in waking :
        /\ FirstWaiting(t, waking)
        /\ task_change_state(t, "READY")
        /\ reason' = [reason EXCEPT ![t] = "NONE"]
        /\ target' = [target EXCEPT ![t] = NoTask]
        /\ wake' = [wake EXCEPT ![t] = UINT32_MAX]
        /\ waking' = waking \ {t}
        /\ UNCHANGED <<stopped, priority, popping, clock, switching, pc, cpu, q>>

-----------------------------------------------------------------------------
(* The timer interrupt.                                                    *)

\* Bound: a deadline that a task not scheduled any more leaves behind, and the
\* longest delay after it, are less than half the range of the counter apart,
\* 99 days of ticks.  A dormant task comes back with its deadline by suspend and
\* resume only.
Horizon ==
    \A t \in Task, n \in Delays :
        LET Near(d) == Diff(d, tick) > n + 1 - TickRange \div 2
        IN  /\ Timed(t) /\ (status[t] = "DORMANT" => "suspend" \in Calls) => Near(wake[t])
            /\ ~stopped[t] /\ popping[t] < UINT32_MAX => Near(popping[t])

\* Bound, unless SlowEntry: fewer ticks than a timeslice come between the two
\* assignments at either end of the context switch in execute_task().
QuickEntry == pc = "switch" => SlowEntry \/ timeslice > 1

\* Mutants: a timeslice that is used up is counted down on, and the timeslice
\* of a task that does not run yet is.
SlicedAtZero == q_ready_ # NoTask /\ status[q_ready_] = "RUNNING"
SlicedWhenReady == q_ready_ # NoTask /\ status[q_ready_] = "READY" /\ timeslice > 0

\* The tick counts against the head of the ready list.
Sliced == q_ready_ # NoTask /\ status[q_ready_] = "RUNNING" /\ timeslice > 0

mrb_tick ==
    LET now   == (tick + 1) % TickRange
        walk  == wakeup_tick # UINT32_MAX /\ Diff(wakeup_tick, now) <= 0
        timed == {t \in Waiting : Timed(t)}
        due   == {t \in timed : Diff(wake[t], now) <= 0}
        later == {wake[t] : t \in timed \ due}
    IN  /\ Horizon /\ QuickEntry
        /\ tick' = now
        /\ timeslice' = IF Sliced THEN timeslice - 1 ELSE timeslice
        /\ switching' = (switching \/ (Sliced /\ timeslice = 1) \/ (walk /\ due # {}))
        /\ waking' = IF walk THEN due ELSE {}
        /\ wakeup_tick' \in IF ~walk THEN {wakeup_tick}
                            ELSE IF later = {} THEN {UINT32_MAX}
                            ELSE IF Soonest(later) # {} THEN Soonest(later)
                            ELSE later
        /\ UNCHANGED <<tasks, pc, cpu, q>>

-----------------------------------------------------------------------------
(* The scheduler loop: mrb_task_run(), mrb_task_run_once() and             *)
(* task_run_one_iteration() differ in what follows a step.                 *)

After == IF driver = "run" THEN "top" ELSE "root"

StartScheduler(d) ==
    /\ pc = "root" /\ d \in Calls
    /\ pc' = "top" /\ driver' = d
    /\ UNCHANGED <<tasks, clock, switching, cur, inC, resumed, waking, q>>

\* No task is ready: the loop ends when all are dormant and idles otherwise,
\* the single steps return.
NothingReady ==
    /\ pc = "top" /\ q_ready_ = NoTask
    /\ driver = "run" => queue.waiting = <<>> /\ queue.suspended = <<>>
    /\ pc' = "root"
    /\ UNCHANGED <<tasks, clock, switching, driver, cur, inC, resumed, waking, q>>

\* t = q_ready_
Pick ==
    /\ pc = "top" /\ q_ready_ # NoTask
    /\ status[q_ready_] # "DORMANT" /\ ~stopped[q_ready_]
    /\ pc' = "enter" /\ cur' = q_ready_
    /\ UNCHANGED <<tasks, clock, switching, driver, inC, resumed, waking, q>>

task_cleanup_if_stopped ==
    LET t == q_ready_
    IN  /\ pc = "top" /\ t # NoTask
        /\ status[t] = "DORMANT" \/ stopped[t]
        /\ IF status[t] # "DORMANT"
           THEN task_change_state(t, "DORMANT")
           ELSE queue' = mrb_task_q_delete(queue, status[t], t) /\ UNCHANGED status
        /\ pc' = After
        /\ UNCHANGED <<stopped, priority, reason, target, wake, popping, clock,
                       switching, driver, cur, inC, resumed, waking, q>>

\* The first half of execute_task(): the task is RUNNING with a full timeslice,
\* and then, the contexts switched, the request to switch is cleared.
EnterTask ==
    /\ pc = "enter"
    /\ timeslice' = MRB_TIMESLICE_TICK_COUNT
    /\ status' = [status EXCEPT ![cur] = "RUNNING"]
    /\ pc' = "switch"
    /\ UNCHANGED <<queue, stopped, priority, reason, target, wake, popping, tick,
                   wakeup_tick, switching, driver, cur, inC, resumed, waking, q>>

SwitchContext ==
    /\ pc = "switch"
    /\ switching' = FALSE
    /\ pc' = "run"
    /\ UNCHANGED <<tasks, clock, cpu, waking, q>>

\* RETURN_IF_TASK_STOPPED, between two instructions: the VM returns to the
\* scheduler, or takes the next instruction.
Boundary == stopped[cur] \/ (switching /\ ~inC)

Dispatch ==
    /\ pc = "run" /\ ~Boundary
    /\ pc' = "call"
    /\ UNCHANGED <<tasks, clock, switching, cpu, waking, q>>

VmReturn ==
    /\ pc = "run" /\ Boundary
    /\ pc' = "return" /\ inC' = FALSE
    /\ UNCHANGED <<tasks, clock, switching, driver, cur, resumed, waking, q>>

\* Mutant: a preempted task keeps the status RUNNING.
LeaveWithoutReady ==
    /\ pc = "return"
    /\ switching' = FALSE
    /\ IF stopped[cur]
       THEN task_change_state(cur, "DORMANT") /\ waking' = Joiners(cur)
       ELSE UNCHANGED <<queue, status, waking>>
    /\ pc' = "requeue"
    /\ UNCHANGED <<stopped, priority, reason, target, wake, popping, clock, cpu, q>>

\* The second half of execute_task().
LeaveTask ==
    /\ pc = "return"
    /\ switching' = FALSE
    /\ IF stopped[cur]
       THEN task_change_state(cur, "DORMANT") /\ waking' = Joiners(cur)
       ELSE /\ status' = [status EXCEPT ![cur] = IF @ = "RUNNING" THEN "READY" ELSE @]
            /\ UNCHANGED <<queue, waking>>
    /\ pc' = "requeue"
    /\ UNCHANGED <<stopped, priority, reason, target, wake, popping, clock, driver,
                   cur, inC, resumed, q>>

\* Mutant: the task that ran stays at the head of the ready list.
RequeueInPlace ==
    /\ pc = "requeue"
    /\ pc' = After /\ cur' = NoTask
    /\ UNCHANGED <<tasks, clock, switching, driver, inC, resumed, waking, q>>

\* Round robin, which the step from Task.pass in root code does without.
Requeue ==
    /\ pc = "requeue"
    /\ IF driver # "pass" /\ status[cur] = "READY"
       THEN task_change_state(cur, "READY")
       ELSE UNCHANGED <<queue, status>>
    /\ pc' = After /\ cur' = NoTask
    /\ UNCHANGED <<stopped, priority, reason, target, wake, popping, clock, switching,
                   driver, inC, resumed, waking, q>>

Scheduler ==
    \/ NothingReady \/ Pick \/ task_cleanup_if_stopped \/ EnterTask
    \/ SwitchContext \/ Dispatch \/ VmReturn \/ LeaveTask \/ Requeue

-----------------------------------------------------------------------------
(* Calls: from root code, from the scheduler_hook a host installs, or from *)
(* an instruction of the running task, which the interrupt may have come   *)
(* into.  A task in the loop of Queue#pop does nothing but try again.      *)

May(c) ==
    /\ c \in Calls
    /\ \/ pc = "root"
       \/ pc = "top" /\ "hook" \in Calls
       \/ pc = "call" /\ popping[cur] = NotPopping
MayPark(c) == May(c) /\ pc = "call" /\ ~inC

\* The instruction that made the call is over; root code just goes on.
Returns == pc' = IF pc = "call" THEN "run" ELSE pc

\* An instruction that calls nothing.
Compute ==
    /\ pc = "call"
    /\ UNCHANGED <<tasks, clock, switching, cpu, waking, q>>

\* Task.new and mrb_create_task(); the head of the list is read after the
\* new task has been inserted.
task_create_common(t, p) ==
    LET prio == [priority EXCEPT ![t] = p]
        l    == Insert(queue.ready, t, prio)
    IN  /\ May("create") /\ status[t] = "FREE"
        /\ priority' = prio
        /\ status' = [status EXCEPT ![t] = "READY"]
        /\ stopped' = [stopped EXCEPT ![t] = FALSE]
        /\ queue' = [queue EXCEPT !.ready = l]
        /\ switching' = (switching \/ (status[l[1]] = "RUNNING" /\ p < prio[l[1]]))
        /\ UNCHANGED <<reason, target, wake, popping, clock, cpu, waking, q>>

\* The running task leaves the ready list for good reason.
Park(s, r, u, w) ==
    /\ task_change_state(cur, s)
    /\ reason' = [reason EXCEPT ![cur] = r]
    /\ target' = [target EXCEPT ![cur] = u]
    /\ wake' = [wake EXCEPT ![cur] = w]
    /\ wakeup_tick' = Earliest(w)
    /\ switching' = TRUE
    /\ UNCHANGED <<stopped, priority, timeslice, tick, cpu, waking, q>>

sleep_us_impl(n) ==
    /\ MayPark("sleep")
    /\ Park("WAITING", "SLEEP", NoTask, Deadline(n))
    /\ UNCHANGED popping

\* Under a C function, and in root code, sleep blocks the thread; ticks go on
\* and their request to switch is dropped at the end.
BlockingSleep ==
    /\ May("sleep") /\ (pc = "call" => inC)
    /\ switching' = FALSE
    /\ UNCHANGED <<tasks, clock, cpu, waking, q>>

\* sleep without an argument; the reason is left as it is.
SleepForever ==
    /\ MayPark("suspend")
    /\ task_change_state(cur, "SUSPENDED")
    /\ switching' = TRUE
    /\ UNCHANGED <<stopped, priority, reason, target, wake, popping, clock, cpu, waking, q>>

mrb_task_join(u) ==
    /\ MayPark("join")
    /\ u # cur /\ status[u] \notin {"FREE", "DORMANT"}
    /\ Park("WAITING", "JOIN", u, UINT32_MAX)
    /\ UNCHANGED popping

mrb_task_s_pass ==
    /\ MayPark("yield")
    /\ switching' = TRUE
    /\ UNCHANGED <<tasks, clock, cpu, waking, q>>

\* Mutant: a ready task keeps its place.
SetPriorityInPlace(u, p) ==
    /\ May("priority") /\ status[u] # "FREE"
    /\ priority' = [priority EXCEPT ![u] = p]
    /\ UNCHANGED <<queue, status, stopped, reason, target, wake, popping, clock,
                   switching, cpu, waking, q>>

mrb_task_set_priority(u, p) ==
    LET prio == [priority EXCEPT ![u] = p]
    IN  /\ May("priority") /\ status[u] # "FREE"
        /\ priority' = prio
        /\ queue' = IF status[u] \in {"READY", "RUNNING"}
                    THEN [queue EXCEPT !.ready = Insert(Remove(@, u), u, prio)]
                    ELSE queue
        /\ UNCHANGED <<status, stopped, reason, target, wake, popping, clock, switching,
                       cpu, waking, q>>

suspend_task_internal(u) ==
    /\ May("suspend") /\ status[u] \notin {"FREE", "SUSPENDED"}
    /\ task_change_state(u, "SUSPENDED")
    /\ switching' = (switching \/ u = q_ready_ \/ status[u] = "RUNNING")
    /\ UNCHANGED <<stopped, priority, reason, target, wake, popping, clock, cpu, waking, q>>

\* The list is changed in one section that masks the interrupt ...
resume_task_internal(u) ==
    LET s == IF reason[u] = "NONE" THEN "READY" ELSE "WAITING"
        l == Relinked(u, s).ready
    IN  /\ May("suspend") /\ status[u] = "SUSPENDED"
        /\ task_change_state(u, s)
        /\ switching' = (switching \/ /\ s = "READY"
                                      /\ status'[l[1]] = "RUNNING"
                                      /\ priority[u] < priority[l[1]])
        /\ resumed' = u
        /\ UNCHANGED <<stopped, priority, reason, target, wake, popping, clock, pc,
                       driver, cur, inC, waking, q>>

\* ... and the next wake-up in another.
ResumeWakeup ==
    /\ resumed # NoTask
    /\ wakeup_tick' = IF Timed(resumed) THEN Earliest(wake[resumed]) ELSE wakeup_tick
    /\ resumed' = NoTask
    /\ Returns
    /\ UNCHANGED <<tasks, timeslice, tick, switching, driver, cur, inC, waking, q>>

\* terminate_task_internal() and the switch it asks for: when the running task
\* ends itself, or a joiner of higher priority than the caller is woken.
Terminated(u) ==
    /\ waking' = Joiners(u)
    /\ switching' = \/ switching
                    \/ status[u] = "RUNNING"
                    \/ pc = "call" /\ \E t \in Joiners(u) : priority[t] < priority[cur]

terminate_task_internal(u) ==
    /\ May("terminate") /\ status[u] \notin {"FREE", "DORMANT"}
    /\ task_change_state(u, "DORMANT")
    /\ stopped' = [stopped EXCEPT ![u] = TRUE]
    /\ Terminated(u)
    /\ UNCHANGED <<priority, reason, target, wake, popping, clock, cpu, q>>

\* The structure is freed; whoever still names it holds a dangling pointer,
\* which may come to name a task created later.
mrb_close_task(u) ==
    /\ May("close") /\ status[u] # "FREE"
    /\ pc = "call" => u # cur
    /\ IF status[u] = "DORMANT" THEN UNCHANGED <<waking, switching>> ELSE Terminated(u)
    /\ queue' = mrb_task_q_delete(queue, status[u], u)
    /\ status' = [status EXCEPT ![u] = "FREE"]
    /\ stopped' = [stopped EXCEPT ![u] = FALSE]
    /\ reason' = [reason EXCEPT ![u] = "NONE"]
    /\ target' = [target EXCEPT ![u] = NoTask]
    /\ wake' = [wake EXCEPT ![u] = UINT32_MAX]
    /\ popping' = [popping EXCEPT ![u] = NotPopping]
    /\ UNCHANGED <<priority, clock, cpu, q>>

mrb_stop_task(u) ==
    /\ May("stop") /\ status[u] # "FREE" /\ ~stopped[u]
    /\ stopped' = [stopped EXCEPT ![u] = TRUE]
    /\ UNCHANGED <<queue, status, priority, reason, target, wake, popping, clock,
                   switching, cpu, waking, q>>

\* mrb_task_init_context() and mrb_task_reset_context(): the task is to be used
\* again and its program starts over.  No task does it to the context it runs on.
mrb_task_reset_context(u) ==
    /\ May("reset") /\ status[u] # "FREE"
    /\ pc = "call" => u # cur
    /\ stopped' = [stopped EXCEPT ![u] = FALSE]
    /\ popping' = [popping EXCEPT ![u] = NotPopping]
    /\ UNCHANGED <<queue, status, priority, reason, target, wake, clock, switching,
                   cpu, waking, q>>

\* The task's code returns, or ends with an exception: TASK_STOP.
Finish ==
    /\ pc = "call" /\ ~inC
    /\ popping[cur] = NotPopping
    /\ stopped' = [stopped EXCEPT ![cur] = TRUE]
    /\ UNCHANGED <<queue, status, priority, reason, target, wake, popping, clock,
                   switching, cpu, waking, q>>

\* A C function calls back into the VM, and returns.
CallC ==
    /\ May("c") /\ pc = "call"
    /\ inC' = ~inC
    /\ UNCHANGED <<tasks, clock, switching, driver, cur, resumed, waking, q>>

-----------------------------------------------------------------------------
(* Task::Queue.                                                            *)

\* Mutant: the item is stored and no waiter woken.
PushSilently ==
    /\ May("queue") /\ ~closed /\ items < MaxItems
    /\ items' = items + 1
    /\ UNCHANGED <<tasks, clock, switching, cpu, waking, closed>>

mrb_task_queue_push ==
    /\ May("queue") /\ ~closed /\ items < MaxItems
    /\ items' = items + 1
    /\ waking' = {t \in Waiters : FirstWaiting(t, Waiters)}
    /\ switching' = (switching \/ Waiters # {})
    /\ UNCHANGED <<tasks, clock, cpu, closed>>

queue_close ==
    /\ May("queue") /\ ~closed
    /\ closed' = TRUE
    /\ waking' = Waiters
    /\ switching' = (switching \/ Waiters # {})
    /\ UNCHANGED <<tasks, clock, cpu, items>>

queue_clear ==
    /\ May("queue") /\ items > 0
    /\ items' = 0
    /\ UNCHANGED <<tasks, clock, switching, cpu, waking, closed>>

\* __pop_try with deadline d: an item, nil from a closed queue or after the
\* deadline, or WAIT_RETRY with the task parked.  The test of the deadline and the
\* section that parks are one step: a tick between them leaves a task parked with
\* a deadline that is due, which the next tick wakes.
queue_pop_try(d) ==
    \/ /\ items > 0
       /\ items' = items - 1
       /\ popping' = [popping EXCEPT ![cur] = NotPopping]
       /\ UNCHANGED <<queue, status, stopped, priority, reason, target, wake, clock,
                      switching, cpu, waking, closed>>
    \/ /\ items = 0
       /\ closed \/ (d # UINT32_MAX /\ Diff(d, tick) <= 0)
       /\ popping' = [popping EXCEPT ![cur] = NotPopping]
       /\ UNCHANGED <<queue, status, stopped, priority, reason, target, wake, clock,
                      switching, cpu, waking, q>>
    \/ /\ items = 0 /\ ~closed
       /\ d = UINT32_MAX \/ Diff(d, tick) > 0
       /\ popping' = [popping EXCEPT ![cur] = d]
       /\ Park("WAITING", "QUEUE", NoTask, d)

\* Queue#pop, without a timeout or with one.
Pop ==
    /\ MayPark("queue")
    /\ \E d \in {UINT32_MAX} \cup {Deadline(n) : n \in Delays} : queue_pop_try(d)

\* The loop of Queue#pop goes round after a wake-up.
PopAgain ==
    /\ pc = "call"
    /\ popping[cur] # NotPopping
    /\ queue_pop_try(popping[cur])

\* pop in root code or under a C function, which cannot wait: it takes an item
\* or returns, with nil or an exception.
PopAtOnce ==
    /\ May("queue") /\ ~MayPark("queue") /\ items > 0
    /\ items' = items - 1
    /\ UNCHANGED <<tasks, clock, switching, cpu, waking, closed>>

-----------------------------------------------------------------------------

Init ==
    /\ queue = [i \in QueueId |-> <<>>]
    /\ status = [t \in Task |-> "FREE"]
    /\ stopped = [t \in Task |-> FALSE]
    /\ priority \in [Task -> {CHOOSE p \in Prio : TRUE}]
    /\ reason = [t \in Task |-> "NONE"]
    /\ target = [t \in Task |-> NoTask]
    /\ wake = [t \in Task |-> UINT32_MAX]
    /\ popping = [t \in Task |-> NotPopping]
    /\ timeslice = 0
    /\ switching = FALSE
    /\ tick = 0 /\ wakeup_tick = UINT32_MAX
    /\ pc = "root" /\ driver = "run" /\ cur = NoTask /\ inC = FALSE
    /\ resumed = NoTask /\ waking = {}
    /\ items = 0 /\ closed = FALSE

\* The calls that are over in one step.
Whole ==
    \/ \E t \in Task, p \in Prio : task_create_common(t, p) \/ mrb_task_set_priority(t, p)
    \/ \E n \in Delays : sleep_us_impl(n)
    \/ BlockingSleep \/ SleepForever \/ mrb_task_s_pass \/ Compute \/ Finish \/ CallC
    \/ \E u \in Task :
          \/ mrb_task_join(u)            \/ suspend_task_internal(u)
          \/ terminate_task_internal(u)  \/ mrb_close_task(u)
          \/ mrb_stop_task(u)            \/ mrb_task_reset_context(u)
    \/ mrb_task_queue_push \/ queue_close \/ queue_clear
    \/ Pop \/ PopAtOnce \/ PopAgain

Call ==
    \/ Whole /\ Returns
    \/ \E u \in Task : resume_task_internal(u)
    \/ \E d \in {"run", "once", "pass"} : StartScheduler(d)

Next ==
    \/ WakeNext
    \/ /\ waking = {}
       /\ \/ mrb_tick
          \/ ResumeWakeup
          \/ resumed = NoTask /\ (Scheduler \/ Call)

Spec == Init /\ [][Next]_vars

-----------------------------------------------------------------------------
(* Properties.                                                             *)

\* Every variable stays in its type: a uint8_t timeslice that mrb_tick() counts
\* down never goes below zero, and list nodes are never the null pointer.
TypeOK ==
    /\ queue \in [QueueId -> Seq(Task)]
    /\ status \in [Task -> Status]
    /\ stopped \in [Task -> BOOLEAN]
    /\ priority \in [Task -> Prio]
    /\ reason \in [Task -> {"NONE", "SLEEP", "JOIN", "QUEUE"}]
    /\ target \in [Task -> Task \cup {NoTask}]
    /\ wake \in [Task -> Ticks]
    /\ popping \in [Task -> Ticks \cup {NotPopping}]
    /\ timeslice \in 0 .. MRB_TIMESLICE_TICK_COUNT
    /\ switching \in BOOLEAN
    /\ tick \in Ticks /\ wakeup_tick \in Ticks
    /\ pc \in {"root", "top", "enter", "switch", "run", "call", "return", "requeue"}
    /\ driver \in {"run", "once", "pass"}
    /\ cur \in Task \cup {NoTask} /\ inC \in BOOLEAN
    /\ resumed \in Task \cup {NoTask} /\ waking \subseteq Task
    /\ items \in 0 .. MaxItems /\ closed \in BOOLEAN

\* The four lists partition the tasks in use, and a task is on the list of its
\* status: mrb_task_q_delete() looks for it there and nowhere else.
ListsMatchStatus ==
    \A t \in Task, i \in QueueId :
        /\ Listed(queue[i], t) <=> status[t] # "FREE" /\ q_get_queue(status[t]) = i
        /\ \A j, k \in 1 .. Len(queue[i]) : queue[i][j] = t /\ queue[i][k] = t => j = k

\* The ready list is in order of priority, whatever is suspended, woken or
\* given another priority, so that its head is the task to run.
ReadyInOrder ==
    \A j, k \in 1 .. Len(queue.ready) :
        j < k => priority[queue.ready[j]] <= priority[queue.ready[k]]

\* The task whose status is RUNNING is the one whose context the VM executes.
OneRuns ==
    \A t \in Task : status[t] = "RUNNING" =>
        pc \in {"switch", "run", "call", "return"} /\ t = cur

\* No sleeper is forgotten: wakeup_tick_, the one tick at which mrb_tick()
\* looks at the waiting tasks, is no later than any of their deadlines.
SleepersCovered ==
    waking = {} =>
        \A t \in Task \ {resumed} : status[t] = "WAITING" /\ Timed(t) =>
            wakeup_tick # UINT32_MAX /\ Diff(wakeup_tick, wake[t]) <= 0

\* Task#join waits for a task that can still complete.
JoinTargetAlive ==
    waking = {} =>
        \A t \in Task : status[t] = "WAITING" /\ reason[t] = "JOIN" =>
            status[target[t]] \notin {"FREE", "DORMANT"}

\* A pushed item reaches a waiter: while a task waits on the queue, every item
\* in it has a task on its way to fetch it, and a closed queue has no waiters.
ItemsFetched ==
    waking = {} /\ (\E t \in Task : status[t] = "WAITING" /\ reason[t] = "QUEUE") =>
        /\ ~closed
        /\ items <= Cardinality({t \in Task : popping[t] # NotPopping
                                              /\ status[t] \in {"READY", "RUNNING"}})

\* The timer ticks, the thread goes on whatever the task computes, and root
\* code that lives on the scheduler calls it again.
Thread ==
    \/ WakeNext
    \/ waking = {} /\ ResumeWakeup
    \/ waking = {} /\ resumed = NoTask /\ Scheduler
    \/ waking = {} /\ resumed = NoTask /\ pc = "call" /\ Call
    \/ waking = {} /\ resumed = NoTask /\ \E d \in {"run", "once", "pass"} : StartScheduler(d)

FairSpec == Spec /\ WF_vars(Thread) /\ WF_vars(waking = {} /\ mrb_tick)

\* A task that computes on and on is preempted when its timeslice is over.
SliceEnds == pc \in {"run", "call"} ~> pc \notin {"run", "call"}

\* Round robin: a ready task gets its turn.
ReadyRuns == \A t \in Task : status[t] = "READY" ~> status[t] # "READY"
=============================================================================
