--------------------------- MODULE TaskSchedProofs ---------------------------
(***************************************************************************)
(* Proofs about TaskSched, for every set of tasks and priorities, every    *)
(* range of the tick counter and every set of calls.                       *)
(***************************************************************************)
EXTENDS TaskSched, TLAPS, FiniteSetTheorems, WellFoundedInduction

Distinct(l) == \A j, k \in 1 .. Len(l) : l[j] = l[k] => j = k
Ordered(l, prio) == \A j, k \in 1 .. Len(l) : j < k => prio[l[j]] <= prio[l[k]]

-----------------------------------------------------------------------------
(* The lists.                                                              *)

\* The walk of mrb_task_q_insert() finds a place: the first task of lower
\* priority, or the end of the list.
LEMMA InsertPlace ==
    ASSUME NEW l \in Seq(Task), NEW t \in Task, NEW prio \in [Task -> Nat]
    PROVE  \E i \in 0 .. Len(l) :
               /\ \A j \in 1 .. i : prio[l[j]] <= prio[t]
               /\ i < Len(l) => prio[l[i + 1]] > prio[t]
<1>. DEFINE S == {i \in 0 .. Len(l) : i < Len(l) => prio[l[i + 1]] > prio[t]}
<1>1. S \subseteq Nat /\ Len(l) \in S
    OBVIOUS
<1>2. PICK x \in S : \A y \in S : ~(<<y, x>> \in OpToRel(<, Nat))
    BY <1>1, WFMin, NatLessThanWellFounded
<1>3. \A y \in S : ~(y < x)
    BY <1>1, <1>2 DEF OpToRel
<1>4. ASSUME NEW j \in 1 .. x PROVE prio[l[j]] <= prio[t]
  <2>1. j - 1 \in 0 .. Len(l) /\ j - 1 < x /\ j - 1 < Len(l) /\ (j - 1) + 1 = j
      OBVIOUS
  <2>2. j - 1 \notin S
      BY <1>3, <2>1
  <2>3. l[j] \in Task
      BY <2>1
  <2>. QED BY <2>1, <2>2, <2>3
<1>. QED BY <1>4

\* mrb_task_q_insert() on one list: it adds t, once, and keeps the order.
LEMMA InsertFacts ==
    ASSUME NEW l \in Seq(Task), NEW t \in Task, NEW prio \in [Task -> Nat]
    PROVE  /\ Insert(l, t, prio) \in Seq(Task)
           /\ Insert(l, t, prio) # <<>>
           /\ \A u \in Task : Listed(Insert(l, t, prio), u) <=> u = t \/ Listed(l, u)
           /\ Distinct(l) /\ ~Listed(l, t) => Distinct(Insert(l, t, prio))
           /\ Ordered(l, prio) => Ordered(Insert(l, t, prio), prio)
<1>. DEFINE P(i) == /\ \A j \in 1 .. i : prio[l[j]] <= prio[t]
                    /\ i < Len(l) => prio[l[i + 1]] > prio[t]
            k == CHOOSE i \in 0 .. Len(l) : P(i)
            m == [i \in 1 .. Len(l) + 1 |->
                     IF i <= k THEN l[i] ELSE IF i = k + 1 THEN t ELSE l[i - 1]]
<1>1. k \in 0 .. Len(l) /\ P(k)
    BY InsertPlace
<1>2. Insert(l, t, prio) = m
    BY DEF Insert
<1>. HIDE DEF k
<1>3. m \in Seq(Task) /\ Len(m) = Len(l) + 1
    BY <1>1
<1>4. m[k + 1] = t /\ k + 1 \in 1 .. Len(m)
    BY <1>1, <1>3
<1>5. \A i \in 1 .. Len(l) : IF i <= k THEN m[i] = l[i] ELSE m[i + 1] = l[i]
    BY <1>1
<1>6. \A u \in Task : Listed(m, u) <=> u = t \/ Listed(l, u)
  <2>. SUFFICES ASSUME NEW u \in Task PROVE Listed(m, u) <=> u = t \/ Listed(l, u)
      OBVIOUS
  <2>1. ASSUME Listed(m, u) PROVE u = t \/ Listed(l, u)
    <3>1. PICK i \in 1 .. Len(l) + 1 : m[i] = u
        BY <2>1, <1>3 DEF Listed
    <3>2. CASE i <= k
        BY <3>1, <3>2, <1>1 DEF Listed
    <3>3. CASE i = k + 1
        BY <3>1, <3>3, <1>4
    <3>4. CASE i > k + 1
      <4>1. i - 1 \in 1 .. Len(l) /\ m[i] = l[i - 1]
          BY <3>4, <1>1
      <4>. QED BY <4>1, <3>1 DEF Listed
    <3>. QED BY <3>2, <3>3, <3>4, <1>1
  <2>2. u = t => Listed(m, u)
      BY <1>4 DEF Listed
  <2>3. ASSUME Listed(l, u) PROVE Listed(m, u)
    <3>1. PICK i \in 1 .. Len(l) : l[i] = u
        BY <2>3 DEF Listed
    <3>2. i \in 1 .. Len(m) /\ i + 1 \in 1 .. Len(m)
        BY <1>3
    <3>. QED BY <3>1, <3>2, <1>5 DEF Listed
  <2>. QED BY <2>1, <2>2, <2>3
<1>7. \A i \in 1 .. Len(l) + 1 :
          \/ i <= k /\ i \in 1 .. Len(l) /\ m[i] = l[i]
          \/ i = k + 1 /\ m[i] = t
          \/ i > k + 1 /\ i - 1 \in 1 .. Len(l) /\ m[i] = l[i - 1]
    BY <1>1
<1>. HIDE DEF m
<1>8. ASSUME Distinct(l), ~Listed(l, t) PROVE Distinct(m)
  <2>. SUFFICES ASSUME NEW i \in 1 .. Len(l) + 1, NEW j \in 1 .. Len(l) + 1, m[i] = m[j]
                PROVE  i = j
      BY <1>3 DEF Distinct
  <2>1. \A a, b \in 1 .. Len(l) : l[a] = l[b] => a = b
      BY <1>8 DEF Distinct
  <2>2. \A a \in 1 .. Len(l) : l[a] # t
      BY <1>8 DEF Listed
  <2>3. \A a \in 1 .. Len(l) + 1 :
            \/ a <= k /\ a \in 1 .. Len(l) /\ m[a] = l[a]
            \/ a = k + 1 /\ m[a] = t
            \/ a > k + 1 /\ a - 1 \in 1 .. Len(l) /\ m[a] = l[a - 1]
      BY <1>7
  <2>4. CASE m[i] = t
      BY <2>2, <2>3, <2>4, <1>1
  <2>5. CASE m[i] # t
    <3>1. m[j] # t
        BY <2>5
    <3>2. CASE i <= k /\ j <= k
        BY <3>2, <2>1, <2>3, <1>1
    <3>3. CASE i <= k /\ j > k + 1
      <4>1. i \in 1 .. Len(l) /\ j - 1 \in 1 .. Len(l) /\ l[i] = l[j - 1]
          BY <3>3, <2>3, <1>1
      <4>. QED BY <4>1, <2>1, <3>3, <1>1
    <3>4. CASE i > k + 1 /\ j <= k
      <4>1. i - 1 \in 1 .. Len(l) /\ j \in 1 .. Len(l) /\ l[i - 1] = l[j]
          BY <3>4, <2>3, <1>1
      <4>. QED BY <4>1, <2>1, <3>4, <1>1
    <3>5. CASE i > k + 1 /\ j > k + 1
      <4>1. i - 1 \in 1 .. Len(l) /\ j - 1 \in 1 .. Len(l) /\ l[i - 1] = l[j - 1]
          BY <3>5, <2>3, <1>1
      <4>2. i - 1 = j - 1
          BY <4>1, <2>1
      <4>. QED BY <4>2
    <3>6. i # k + 1 /\ j # k + 1
        BY <2>5, <3>1, <1>4
    <3>. QED BY <3>2, <3>3, <3>4, <3>5, <3>6, <1>1
  <2>. QED BY <2>4, <2>5
<1>9. ASSUME Ordered(l, prio) PROVE Ordered(m, prio)
  <2>. SUFFICES ASSUME NEW i \in 1 .. Len(l) + 1, NEW j \in 1 .. Len(l) + 1, i < j
                PROVE  prio[m[i]] <= prio[m[j]]
      BY <1>3 DEF Ordered
  <2>1. \A a, b \in 1 .. Len(l) : a < b => prio[l[a]] <= prio[l[b]]
      BY <1>9 DEF Ordered
  <2>2. \A a \in 1 .. Len(l) : prio[l[a]] \in Nat
      OBVIOUS
  <2>3. \A a \in 1 .. Len(l) : a <= k => prio[l[a]] <= prio[t]
      BY <1>1
  <2>4. ASSUME NEW a \in 1 .. Len(l), a > k PROVE prio[t] <= prio[l[a]]
    <3>1. k + 1 \in 1 .. Len(l) /\ prio[t] < prio[l[k + 1]]
        BY <1>1, <2>2, <2>4
    <3>2. CASE a = k + 1
        BY <3>1, <3>2, <2>2
    <3>3. CASE a > k + 1
      <4>1. prio[l[k + 1]] <= prio[l[a]]
          BY <3>1, <3>3, <2>1
      <4>. QED BY <3>1, <4>1, <2>2
    <3>. QED BY <3>2, <3>3, <2>4, <1>1
  <2>5. CASE j <= k
      BY SMTT(30), <2>5, <2>1, <1>7, <1>1
  <2>6. CASE j = k + 1
      BY SMTT(30), <2>6, <2>3, <1>7, <1>1
  <2>7. CASE j > k + 1 /\ i <= k
    <3>1. m[i] = l[i] /\ m[j] = l[j - 1] /\ i < j - 1
          /\ i \in 1 .. Len(l) /\ j - 1 \in 1 .. Len(l)
        BY <2>7, <1>7, <1>1
    <3>. QED BY <3>1, <2>1
  <2>8. CASE j > k + 1 /\ i = k + 1
    <3>1. m[i] = t /\ m[j] = l[j - 1] /\ j - 1 > k /\ j - 1 \in 1 .. Len(l)
        BY <2>8, <1>7, <1>1
    <3>. QED BY <3>1, <2>4
  <2>9. CASE j > k + 1 /\ i > k + 1
    <3>1. m[i] = l[i - 1] /\ m[j] = l[j - 1] /\ i - 1 < j - 1
          /\ i - 1 \in 1 .. Len(l) /\ j - 1 \in 1 .. Len(l)
        BY <2>9, <1>7, <1>1
    <3>. QED BY <3>1, <2>1
  <2>. QED BY <2>5, <2>6, <2>7, <2>8, <2>9, <1>1
<1>10. m # <<>>
    BY <1>3
<1>. QED BY <1>2, <1>3, <1>6, <1>8, <1>9, <1>10

\* mrb_task_q_delete() on one list: it takes t off and keeps the rest in order.
LEMMA RemoveFacts ==
    ASSUME NEW l \in Seq(Task), NEW t \in Task
    PROVE  /\ Remove(l, t) \in Seq(Task)
           /\ \A u \in Task : u # t => (Listed(Remove(l, t), u) <=> Listed(l, u))
           /\ \A u \in Task : Listed(Remove(l, t), u) => Listed(l, u)
           /\ Distinct(l) => Distinct(Remove(l, t)) /\ ~Listed(Remove(l, t), t)
           /\ \A prio \in [Task -> Nat] :
                  Ordered(l, prio) => Ordered(Remove(l, t), prio)
<1>1. CASE ~Listed(l, t)
    BY <1>1 DEF Remove
<1>2. CASE Listed(l, t)
  <2>. DEFINE k == CHOOSE i \in 1 .. Len(l) : l[i] = t
              m == [i \in 1 .. Len(l) - 1 |-> IF i < k THEN l[i] ELSE l[i + 1]]
  <2>1. k \in 1 .. Len(l) /\ l[k] = t
      BY <1>2 DEF Listed
  <2>2. Remove(l, t) = m
      BY <1>2 DEF Remove
  <2>. HIDE DEF k
  <2>3. m \in Seq(Task) /\ Len(m) = Len(l) - 1
      BY <2>1
  <2>4. ASSUME NEW u \in Task, Listed(m, u) PROVE Listed(l, u)
      BY <2>1, <2>3, <2>4 DEF Listed
  <2>5. ASSUME NEW u \in Task, u # t, Listed(l, u) PROVE Listed(m, u)
    <3>1. PICK i \in 1 .. Len(l) : l[i] = u
        BY <2>5 DEF Listed
    <3>2. CASE i < k
        BY <3>1, <3>2, <2>1, <2>3 DEF Listed
    <3>3. CASE i > k
      <4>1. i - 1 \in 1 .. Len(m) /\ m[i - 1] = l[i]
          BY <3>3, <2>1, <2>3
      <4>. QED BY <4>1, <3>1 DEF Listed
    <3>. QED BY <3>1, <3>2, <3>3, <2>1, <2>5
  <2>6. \A i \in 1 .. Len(l) - 1 :
            \/ i < k /\ i \in 1 .. Len(l) /\ m[i] = l[i]
            \/ i >= k /\ i + 1 \in 1 .. Len(l) /\ m[i] = l[i + 1]
      BY <2>1
  <2>. HIDE DEF m
  <2>7. ASSUME Distinct(l) PROVE Distinct(m) /\ ~Listed(m, t)
    <3>1. \A a, b \in 1 .. Len(l) : l[a] = l[b] => a = b
        BY <2>7 DEF Distinct
    <3>2. \A i, j \in 1 .. Len(l) - 1 : m[i] = m[j] => i = j
        BY <3>1, <2>1, <2>6
    <3>3. \A i \in 1 .. Len(l) - 1 : m[i] # t
        BY <3>1, <2>1, <2>6
    <3>. QED BY <3>2, <3>3, <2>3 DEF Distinct, Listed
  <2>8. ASSUME NEW prio \in [Task -> Nat], Ordered(l, prio)
        PROVE  Ordered(m, prio)
    <3>1. \A a, b \in 1 .. Len(l) : a < b => prio[l[a]] <= prio[l[b]]
        BY <2>8 DEF Ordered
    <3>2. ASSUME NEW i \in 1 .. Len(l) - 1, NEW j \in 1 .. Len(l) - 1, i < j
          PROVE  prio[m[i]] <= prio[m[j]]
      <4>1. PICK a \in {i, i + 1} : a \in 1 .. Len(l) /\ m[i] = l[a] /\ (a = i + 1 => i >= k)
          BY <2>6
      <4>2. PICK b \in {j, j + 1} : b \in 1 .. Len(l) /\ m[j] = l[b] /\ (b = j => j < k)
          BY <2>6
      <4>3. a < b
        <5>1. i \in Int /\ j \in Int /\ k \in Int /\ i < j
            BY <2>1, <3>2
        <5>2. CASE a = i
            BY <5>1, <5>2, <4>2
        <5>3. CASE b = j + 1
            BY <5>1, <5>3, <4>1
        <5>4. CASE a = i + 1 /\ b = j
            BY <5>1, <5>4, <4>1, <4>2
        <5>. QED BY <5>2, <5>3, <5>4, <4>1, <4>2
      <4>. QED BY <4>1, <4>2, <4>3, <3>1
    <3>. QED BY <3>2, <2>3 DEF Ordered
  <2>. QED BY <2>2, <2>3, <2>4, <2>5, <2>7, <2>8
<1>. QED BY <1>1, <1>2

-----------------------------------------------------------------------------
(* The inductive invariant.                                                *)

\* ListsMatchStatus, in the form the lemmas on lists use.
Lists ==
    /\ \A i \in QueueId : Distinct(queue[i])
    /\ \A t \in Task, i \in QueueId :
           Listed(queue[i], t) <=> status[t] # "FREE" /\ q_get_queue(status[t]) = i

\* From the pick to the requeue the scheduler's t is a task in use, and until
\* execute_task() makes it RUNNING nothing takes it off the ready list.
PickedInUse ==
    /\ pc \in {"enter", "switch", "run", "call", "return", "requeue"} =>
           cur \in Task /\ status[cur] # "FREE"
    /\ pc = "enter" => status[cur] = "READY"

IInv == TypeOK /\ Lists /\ ReadyInOrder /\ OneRuns /\ PickedInUse

\* The part about lists and statuses, for steps that change neither.
Order == Lists /\ ReadyInOrder

\* The walks of mrb_task_q_delete() and mrb_task_q_insert() end on the list
\* that q_get_queue() names, for every status.
LEMMA QueueOfStatus ==
    \A s \in Status : q_get_queue(s) \in QueueId
BY DEF Status, QueueId, q_get_queue

\* Lists is what ListsMatchStatus says.
LEMMA ListsAgree ==
    ASSUME queue \in [QueueId -> Seq(Task)]
    PROVE  Lists <=> ListsMatchStatus
<1>1. ASSUME NEW i \in QueueId, Distinct(queue[i]), NEW t \in Task
      PROVE  \A j, k \in 1 .. Len(queue[i]) : queue[i][j] = t /\ queue[i][k] = t => j = k
    BY <1>1 DEF Distinct
<1>2. ASSUME NEW i \in QueueId,
             \A t \in Task : \A j, k \in 1 .. Len(queue[i]) :
                 queue[i][j] = t /\ queue[i][k] = t => j = k
      PROVE  Distinct(queue[i])
  <2>1. \A j \in 1 .. Len(queue[i]) : queue[i][j] \in Task
      OBVIOUS
  <2>. QED BY <1>2, <2>1 DEF Distinct
<1>. QED BY <1>1, <1>2 DEF Lists, ListsMatchStatus

\* task_change_state() keeps the lists in agreement with the statuses and the
\* ready list in order, whatever the old and the new status.
LEMMA ChangeState ==
    ASSUME TypeOK, Order, NEW t \in Task, status[t] # "FREE",
           NEW s \in Status, s # "FREE",
           task_change_state(t, s), UNCHANGED priority
    PROVE  /\ queue' \in [QueueId -> Seq(Task)]
           /\ status' = [status EXCEPT ![t] = s] /\ status' \in [Task -> Status]
           /\ Order'
<1>. DEFINE a == q_get_queue(status[t])
            b == q_get_queue(s)
            R == Remove(queue[a], t)
            Q == [queue EXCEPT ![a] = R]
            I == Insert(Q[b], t, priority)
<1>1. priority \in [Task -> Nat] /\ a \in QueueId /\ b \in QueueId
    BY TaskAssumption, QueueOfStatus DEF TypeOK
<1>2. queue \in [QueueId -> Seq(Task)] /\ status \in [Task -> Status]
    BY DEF TypeOK
<1>3. queue' = [Q EXCEPT ![b] = I] /\ status' = [status EXCEPT ![t] = s]
    BY DEF task_change_state, Relinked, mrb_task_q_insert, mrb_task_q_delete
<1>. HIDE DEF a, b
<1>4. /\ R \in Seq(Task) /\ Distinct(R) /\ ~Listed(R, t)
      /\ \A u \in Task : u # t => (Listed(R, u) <=> Listed(queue[a], u))
      /\ a = "ready" => Ordered(R, priority)
    BY <1>1, <1>2, RemoveFacts DEF Order, Lists, ReadyInOrder, Ordered
<1>. HIDE DEF R
<1>5. /\ Q \in [QueueId -> Seq(Task)] /\ \A i \in QueueId : Distinct(Q[i])
      /\ \A i \in QueueId : ~Listed(Q[i], t)
      /\ \A i \in QueueId, u \in Task : u # t => (Listed(Q[i], u) <=> Listed(queue[i], u))
  <2>1. \A i \in QueueId : i # a => Q[i] = queue[i]
      BY <1>2
  <2>2. Q[a] = R
      BY <1>1, <1>2
  <2>3. \A i \in QueueId : i # a => ~Listed(queue[i], t)
      BY DEF Order, Lists, a
  <2>4. \A i \in QueueId : Distinct(queue[i])
      BY DEF Order, Lists
  <2>5. Q \in [QueueId -> Seq(Task)]
      BY <1>2, <1>4
  <2>. QED BY <2>1, <2>2, <2>3, <2>4, <2>5, <1>4
<1>6. Ordered(Q["ready"], priority)
    BY <1>2, <1>4 DEF Order, ReadyInOrder, Ordered, QueueId
<1>. HIDE DEF Q
<1>7. /\ I \in Seq(Task) /\ Distinct(I)
      /\ \A u \in Task : Listed(I, u) <=> u = t \/ Listed(Q[b], u)
      /\ b = "ready" => Ordered(I, priority)
    BY <1>1, <1>5, <1>6, InsertFacts
<1>. HIDE DEF I
<1>8. queue' \in [QueueId -> Seq(Task)] /\ status' \in [Task -> Status]
    BY <1>2, <1>3, <1>5, <1>7
<1>9. Lists'
  <2>1. \A i \in QueueId : queue'[i] = IF i = b THEN I ELSE Q[i]
      BY <1>1, <1>3, <1>5
  <2>2. \A i \in QueueId : Distinct(queue'[i])
      BY <2>1, <1>5, <1>7
  <2>3. ASSUME NEW u \in Task, NEW i \in QueueId
        PROVE  Listed(queue'[i], u) <=> status'[u] # "FREE" /\ q_get_queue(status'[u]) = i
    <3>1. CASE u = t
      <4>1. status'[u] = s
          BY <3>1, <1>2, <1>3
      <4>. QED BY <4>1, <3>1, <2>1, <1>5, <1>7 DEF b
    <3>2. CASE u # t
      <4>1. status'[u] = status[u]
          BY <3>2, <1>2, <1>3
      <4>2. Listed(queue'[i], u) <=> Listed(queue[i], u)
          BY <3>2, <2>1, <1>1, <1>5, <1>7
      <4>. QED BY <4>1, <4>2 DEF Order, Lists
    <3>. QED BY <3>1, <3>2
  <2>. QED BY <2>2, <2>3 DEF Lists
<1>10. ReadyInOrder'
  <2>1. Ordered(queue'["ready"], priority)
      BY <1>1, <1>3, <1>5, <1>6, <1>7 DEF QueueId
  <2>. QED BY <2>1 DEF ReadyInOrder, Ordered
<1>. QED BY <1>3, <1>8, <1>9, <1>10 DEF Order

\* So does the deletion of a task that is freed.
LEMMA Unlink ==
    ASSUME TypeOK, Order, NEW t \in Task, status[t] # "FREE",
           queue' = mrb_task_q_delete(queue, status[t], t),
           status' = [status EXCEPT ![t] = "FREE"], UNCHANGED priority
    PROVE  queue' \in [QueueId -> Seq(Task)] /\ Order'
<1>. DEFINE a == q_get_queue(status[t])
            R == Remove(queue[a], t)
<1>1. priority \in [Task -> Nat] /\ a \in QueueId
    BY TaskAssumption, QueueOfStatus DEF TypeOK
<1>2. queue \in [QueueId -> Seq(Task)] /\ status \in [Task -> Status]
    BY DEF TypeOK
<1>3. queue' = [queue EXCEPT ![a] = R]
    BY DEF mrb_task_q_delete
<1>. HIDE DEF a
<1>4. /\ R \in Seq(Task) /\ Distinct(R) /\ ~Listed(R, t)
      /\ \A u \in Task : u # t => (Listed(R, u) <=> Listed(queue[a], u))
      /\ a = "ready" => Ordered(R, priority)
    BY <1>1, <1>2, RemoveFacts DEF Order, Lists, ReadyInOrder, Ordered
<1>. HIDE DEF R
<1>5. \A i \in QueueId : queue'[i] = IF i = a THEN R ELSE queue[i]
    BY <1>1, <1>2, <1>3
<1>6. Lists'
  <2>1. \A i \in QueueId : Distinct(queue'[i])
      BY <1>4, <1>5 DEF Order, Lists
  <2>2. ASSUME NEW u \in Task, NEW i \in QueueId
        PROVE  Listed(queue'[i], u) <=> status'[u] # "FREE" /\ q_get_queue(status'[u]) = i
    <3>1. CASE u = t
      <4>1. status'[u] = "FREE"
          BY <3>1, <1>2
      <4>2. i # a => ~Listed(queue[i], u)
          BY <3>1 DEF Order, Lists, a
      <4>. QED BY <4>1, <4>2, <3>1, <1>4, <1>5
    <3>2. CASE u # t
      <4>1. status'[u] = status[u]
          BY <3>2, <1>2
      <4>2. Listed(queue'[i], u) <=> Listed(queue[i], u)
          BY <3>2, <1>1, <1>4, <1>5
      <4>. QED BY <4>1, <4>2 DEF Order, Lists
    <3>. QED BY <3>1, <3>2
  <2>. QED BY <2>1, <2>2 DEF Lists
<1>7. ReadyInOrder'
  <2>1. Ordered(queue'["ready"], priority)
      BY <1>2, <1>4, <1>5 DEF Order, ReadyInOrder, Ordered, QueueId
  <2>. QED BY <2>1 DEF ReadyInOrder, Ordered
<1>. QED BY <1>2, <1>3, <1>4, <1>6, <1>7 DEF Order

\* A list that t is not on is in order for the priorities before t's changes
\* as it is for those after.
LEMMA OrderWithout ==
    ASSUME NEW l \in Seq(Task), NEW t \in Task, ~Listed(l, t),
           NEW f \in [Task -> Nat], NEW p \in Nat, Ordered(l, f)
    PROVE  Ordered(l, [f EXCEPT ![t] = p])
<1>1. \A j \in 1 .. Len(l) : l[j] \in Task /\ l[j] # t
    BY DEF Listed
<1>. QED BY <1>1 DEF Ordered

\* Task.new: a structure that was on no list joins the ready list at its place.
LEMMA CreateOrder ==
    ASSUME TypeOK, Order, NEW t \in Task, NEW p \in Prio, status[t] = "FREE",
           priority' = [priority EXCEPT ![t] = p],
           status' = [status EXCEPT ![t] = "READY"],
           queue' = [queue EXCEPT !.ready = Insert(queue.ready, t, priority')]
    PROVE  queue' \in [QueueId -> Seq(Task)] /\ Order'
<1>. DEFINE l == queue["ready"]
            I == Insert(l, t, priority')
<1>1. priority \in [Task -> Nat] /\ priority' \in [Task -> Nat] /\ p \in Nat
    BY TaskAssumption DEF TypeOK
<1>2. queue \in [QueueId -> Seq(Task)] /\ status \in [Task -> Status] /\ l \in Seq(Task)
    BY DEF TypeOK, QueueId
<1>3. \A i \in QueueId : Distinct(queue[i]) /\ ~Listed(queue[i], t)
    BY DEF Order, Lists
<1>4. Ordered(l, priority')
    BY <1>1, <1>2, <1>3, OrderWithout DEF Order, ReadyInOrder, Ordered, QueueId
<1>5. /\ I \in Seq(Task) /\ Distinct(I) /\ Ordered(I, priority')
      /\ \A u \in Task : Listed(I, u) <=> u = t \/ Listed(l, u)
    BY <1>1, <1>2, <1>3, <1>4, InsertFacts DEF QueueId
<1>. HIDE DEF I
<1>6. \A i \in QueueId : queue'[i] = IF i = "ready" THEN I ELSE queue[i]
    BY <1>2 DEF I
<1>7. queue' \in [QueueId -> Seq(Task)]
    BY <1>2, <1>5 DEF I
<1>8. Lists'
  <2>1. \A i \in QueueId : Distinct(queue'[i])
      BY <1>3, <1>5, <1>6
  <2>2. ASSUME NEW u \in Task, NEW i \in QueueId
        PROVE  Listed(queue'[i], u) <=> status'[u] # "FREE" /\ q_get_queue(status'[u]) = i
    <3>1. CASE u = t
      <4>1. status'[u] = "READY" /\ q_get_queue("READY") = "ready"
          BY <3>1, <1>2 DEF q_get_queue
      <4>. QED BY <4>1, <3>1, <1>3, <1>5, <1>6
    <3>2. CASE u # t
      <4>1. status'[u] = status[u]
          BY <3>2, <1>2
      <4>2. Listed(queue'[i], u) <=> Listed(queue[i], u)
          BY <3>2, <1>5, <1>6
      <4>. QED BY <4>1, <4>2 DEF Order, Lists
    <3>. QED BY <3>1, <3>2
  <2>. QED BY <2>1, <2>2 DEF Lists
<1>9. ReadyInOrder'
  <2>1. Ordered(queue'["ready"], priority')
      BY <1>5, <1>6 DEF QueueId
  <2>. QED BY <2>1 DEF ReadyInOrder, Ordered
<1>. QED BY <1>7, <1>8, <1>9 DEF Order

\* Task#priority=: a ready task is put in its new place, any other is not on
\* the ready list.
LEMMA PriorityOrder ==
    ASSUME TypeOK, Order, NEW t \in Task, NEW p \in Prio,
           mrb_task_set_priority(t, p)
    PROVE  queue' \in [QueueId -> Seq(Task)] /\ Order'
<1>. DEFINE l == queue["ready"]
            R == Remove(l, t)
            I == Insert(R, t, priority')
<1>1. /\ priority' = [priority EXCEPT ![t] = p] /\ status' = status /\ status[t] # "FREE"
      /\ queue' = IF status[t] \in {"READY", "RUNNING"}
                  THEN [queue EXCEPT !["ready"] = I] ELSE queue
    BY DEF mrb_task_set_priority
<1>2. priority \in [Task -> Nat] /\ priority' \in [Task -> Nat] /\ p \in Nat
    BY <1>1, TaskAssumption DEF TypeOK
<1>3. queue \in [QueueId -> Seq(Task)] /\ status \in [Task -> Status] /\ l \in Seq(Task)
    BY DEF TypeOK, QueueId
<1>4. "ready" \in QueueId /\ Distinct(l) /\ Ordered(l, priority)
    BY DEF Order, Lists, ReadyInOrder, Ordered, QueueId
<1>5. CASE status[t] \in {"READY", "RUNNING"}
  <2>1. Listed(l, t)
      BY <1>1, <1>4, <1>5 DEF Order, Lists, q_get_queue
  <2>2. /\ R \in Seq(Task) /\ Distinct(R) /\ ~Listed(R, t) /\ Ordered(R, priority)
        /\ \A u \in Task : u # t => (Listed(R, u) <=> Listed(l, u))
      BY <1>2, <1>3, <1>4, RemoveFacts
  <2>. HIDE DEF R
  <2>3. Ordered(R, priority')
      BY <1>1, <1>2, <2>2, OrderWithout
  <2>4. /\ I \in Seq(Task) /\ Distinct(I) /\ Ordered(I, priority')
        /\ \A u \in Task : Listed(I, u) <=> u = t \/ Listed(R, u)
      BY <1>2, <2>2, <2>3, InsertFacts
  <2>. HIDE DEF I
  <2>5. \A i \in QueueId : queue'[i] = IF i = "ready" THEN I ELSE queue[i]
      BY <1>1, <1>3, <1>5
  <2>6. queue' \in [QueueId -> Seq(Task)]
      BY <1>1, <1>3, <1>5, <2>4
  <2>7. \A u \in Task, i \in QueueId : Listed(queue'[i], u) <=> Listed(queue[i], u)
      BY <2>1, <2>2, <2>4, <2>5
  <2>8. Lists'
      BY <1>1, <2>4, <2>5, <2>7 DEF Order, Lists
  <2>9. ReadyInOrder'
      BY <1>4, <2>4, <2>5 DEF ReadyInOrder, Ordered
  <2>. QED BY <2>6, <2>8, <2>9 DEF Order
<1>6. CASE status[t] \notin {"READY", "RUNNING"}
  <2>1. ~Listed(l, t)
      BY <1>3, <1>4, <1>6 DEF Order, Lists, q_get_queue, Status
  <2>2. Ordered(l, priority') /\ queue' = queue
      BY <1>1, <1>2, <1>3, <1>4, <1>6, <2>1, OrderWithout
  <2>3. Lists'
      BY <1>1, <2>2 DEF Order, Lists
  <2>4. ReadyInOrder'
      BY <2>2 DEF ReadyInOrder, Ordered
  <2>. QED BY <1>3, <2>2, <2>3, <2>4 DEF Order
<1>. QED BY <1>5, <1>6

-----------------------------------------------------------------------------
(* Types and steps.                                                        *)

\* Tick arithmetic stays in the range of the counter.
LEMMA TickTypes ==
    ASSUME TypeOK
    PROVE  /\ UINT32_MAX \in Ticks
           /\ (tick + 1) % TickRange \in Ticks
           /\ \A n \in Delays : Deadline(n) \in Ticks
           /\ \A w \in Ticks : Earliest(w) \in Ticks
<1>1. TickRange \in Nat /\ TickRange > 3 /\ Delays \subseteq Nat
    BY TaskAssumption
<1>2. UINT32_MAX \in Ticks
    BY <1>1 DEF UINT32_MAX, Ticks
<1>3. \A n \in Nat : n % TickRange \in Ticks
    BY <1>1 DEF Ticks, UINT32_MAX
<1>4. tick \in Nat /\ wakeup_tick \in Ticks
    BY <1>1 DEF TypeOK, Ticks, UINT32_MAX
<1>5. ASSUME NEW n \in Delays PROVE Deadline(n) \in Ticks
  <2>1. n \in Nat /\ tick + n \in Nat
      BY <1>1, <1>4
  <2>2. (tick + n) % TickRange \in Ticks
      BY <1>3, <2>1
  <2>3. UINT32_MAX - 1 \in Ticks
      BY <1>1 DEF UINT32_MAX, Ticks
  <2>. QED BY <2>2, <2>3 DEF Deadline, mrb_task_normalize_wakeup
<1>6. (tick + 1) % TickRange \in Ticks
    BY <1>3, <1>4
<1>. QED BY <1>2, <1>4, <1>5, <1>6 DEF Earliest

\* Tasks at the head of the ready list are ready or running.
LEMMA HeadReady ==
    ASSUME TypeOK, Lists, q_ready_ # NoTask
    PROVE  q_ready_ \in Task /\ status[q_ready_] \in {"READY", "RUNNING"}
<1>1. queue["ready"] \in Seq(Task) /\ "ready" \in QueueId /\ queue["ready"] # <<>>
    BY DEF TypeOK, QueueId, q_ready_
<1>2. q_ready_ = queue["ready"][1] /\ 1 \in 1 .. Len(queue["ready"])
    BY <1>1 DEF q_ready_
<1>3. q_ready_ \in Task /\ Listed(queue["ready"], q_ready_)
    BY <1>1, <1>2 DEF Listed
<1>4. status[q_ready_] \in Status /\ q_get_queue(status[q_ready_]) = "ready" /\ status[q_ready_] # "FREE"
    BY <1>1, <1>3 DEF TypeOK, Lists
<1>. QED BY <1>3, <1>4 DEF Status, q_get_queue

\* One iteration of a walk that wakes tasks.
LEMMA WakeStep ==
    ASSUME IInv, WakeNext
    PROVE  IInv'
<1>1. PICK t \in waking :
          /\ FirstWaiting(t, waking)
          /\ task_change_state(t, "READY")
          /\ reason' = [reason EXCEPT ![t] = "NONE"]
          /\ target' = [target EXCEPT ![t] = NoTask]
          /\ wake' = [wake EXCEPT ![t] = UINT32_MAX]
          /\ waking' = waking \ {t}
          /\ UNCHANGED <<stopped, priority, popping, clock, switching, pc, cpu, q>>
    BY DEF WakeNext
<1>2. t \in Task /\ Listed(queue["waiting"], t) /\ "waiting" \in QueueId
    BY <1>1 DEF IInv, TypeOK, FirstWaiting, Listed, QueueId
<1>3. status[t] # "FREE" /\ q_get_queue(status[t]) = "waiting"
    BY <1>2 DEF IInv, Lists
<1>4. status[t] = "WAITING"
    BY <1>2, <1>3 DEF IInv, TypeOK, Status, q_get_queue
<1>5. /\ queue' \in [QueueId -> Seq(Task)] /\ Order'
      /\ status' = [status EXCEPT ![t] = "READY"] /\ status' \in [Task -> Status]
    BY <1>1, <1>2, <1>3, ChangeState DEF IInv, Order, Status
<1>6. TypeOK'
    BY <1>1, <1>2, <1>5, TickTypes DEF IInv, TypeOK, clock, cpu, q
<1>7. OneRuns' /\ PickedInUse'
    BY <1>1, <1>2, <1>4, <1>5 DEF IInv, OneRuns, PickedInUse, cpu, TypeOK
<1>. QED BY <1>5, <1>6, <1>7 DEF IInv, Order

\* The interrupt changes no list by itself.
LEMMA TickStep ==
    ASSUME IInv, mrb_tick
    PROVE  IInv'
<1>. USE DEF IInv
<1>1. /\ tick' = (tick + 1) % TickRange
      /\ timeslice' = IF Sliced THEN timeslice - 1 ELSE timeslice
      /\ switching' \in BOOLEAN
      /\ waking' \subseteq Task
      /\ UNCHANGED <<tasks, pc, cpu, q>>
    BY DEF mrb_tick, Waiting
<1>2. wakeup_tick' \in Ticks
  <2>. DEFINE now == (tick + 1) % TickRange
              timed == {t \in Waiting : Timed(t)}
              later == {wake[t] : t \in timed \ {t \in timed : Diff(wake[t], now) <= 0}}
  <2>1. later \subseteq Ticks /\ Soonest(later) \subseteq later
      BY DEF TypeOK, Waiting, Soonest
  <2>2. wakeup_tick' \in {wakeup_tick, UINT32_MAX} \cup later
      BY <2>1 DEF mrb_tick
  <2>. QED BY <2>1, <2>2, TickTypes DEF TypeOK
<1>3. timeslice' \in 0 .. MRB_TIMESLICE_TICK_COUNT
    BY <1>1, TaskAssumption DEF TypeOK, Sliced
<1>4. TypeOK'
    BY <1>1, <1>2, <1>3, TickTypes DEF TypeOK, tasks, cpu, q
<1>5. Lists' /\ ReadyInOrder' /\ OneRuns' /\ PickedInUse'
    BY <1>1 DEF Lists, ReadyInOrder, OneRuns, PickedInUse, tasks, cpu
<1>. QED BY <1>4, <1>5

\* The second half of Task#resume touches the next wake-up only.
LEMMA ResumeWakeupStep ==
    ASSUME IInv, ResumeWakeup
    PROVE  IInv'
<1>1. resumed \in Task /\ wake[resumed] \in Ticks
    BY DEF ResumeWakeup, IInv, TypeOK
<1>2. wakeup_tick' \in Ticks
    BY <1>1, TickTypes DEF ResumeWakeup, IInv, TypeOK
<1>3. TypeOK'
    BY <1>2 DEF IInv, TypeOK, ResumeWakeup, Returns, tasks, q
<1>4. Lists' /\ ReadyInOrder' /\ OneRuns' /\ PickedInUse'
    BY DEF IInv, Lists, ReadyInOrder, OneRuns, PickedInUse, ResumeWakeup, Returns, tasks
<1>. QED BY <1>3, <1>4 DEF IInv

\* The scheduler loop: picking, entering, leaving and requeueing a task.
LEMMA SchedulerStep ==
    ASSUME IInv, Scheduler
    PROVE  IInv'
<1>. USE DEF IInv
<1>1. CASE NothingReady
  <2>1. TypeOK'
      BY <1>1 DEF NothingReady, TypeOK, tasks, clock, q
  <2>2. Lists' /\ ReadyInOrder' /\ OneRuns' /\ PickedInUse'
      BY <1>1 DEF NothingReady, Lists, ReadyInOrder, OneRuns, PickedInUse, tasks
  <2>. QED BY <2>1, <2>2
<1>2. CASE Pick
  <2>1. q_ready_ \in Task /\ status[q_ready_] = "READY"
      BY <1>2, HeadReady DEF Pick, OneRuns
  <2>2. TypeOK'
      BY <1>2, <2>1 DEF Pick, TypeOK, tasks, clock, q
  <2>3. Lists' /\ ReadyInOrder' /\ OneRuns' /\ PickedInUse'
      BY <1>2, <2>1 DEF Pick, Lists, ReadyInOrder, OneRuns, PickedInUse, tasks
  <2>. QED BY <2>2, <2>3
<1>3. CASE task_cleanup_if_stopped
  <2>. DEFINE t == q_ready_
  <2>1. /\ t \in Task /\ status[t] = "READY" /\ pc = "top"
        /\ task_change_state(t, "DORMANT") /\ pc' = After
        /\ UNCHANGED <<stopped, priority, reason, target, wake, popping, clock,
                       switching, driver, cur, inC, resumed, waking, q>>
      BY <1>3, HeadReady DEF task_cleanup_if_stopped, OneRuns
  <2>. HIDE DEF t
  <2>2. /\ queue' \in [QueueId -> Seq(Task)] /\ Order'
        /\ status' = [status EXCEPT ![t] = "DORMANT"] /\ status' \in [Task -> Status]
      BY <2>1, ChangeState DEF Order, Status
  <2>3. pc' \in {"root", "top"}
      BY <2>1 DEF After
  <2>4. TypeOK'
      BY <2>1, <2>2, <2>3 DEF TypeOK, clock, q
  <2>5. OneRuns' /\ PickedInUse'
      BY <2>1, <2>2, <2>3 DEF OneRuns, PickedInUse, TypeOK
  <2>. QED BY <2>2, <2>4, <2>5 DEF Order
<1>4. CASE EnterTask
  <2>1. /\ cur \in Task /\ status[cur] = "READY" /\ pc = "enter" /\ pc' = "switch"
        /\ status' = [status EXCEPT ![cur] = "RUNNING"]
        /\ UNCHANGED <<queue, priority, cur>>
      BY <1>4 DEF EnterTask, PickedInUse
  <2>2. TypeOK'
    <3>1. timeslice' \in 0 .. MRB_TIMESLICE_TICK_COUNT
        BY <1>4, TaskAssumption DEF EnterTask
    <3>2. status' \in [Task -> Status]
        BY <2>1 DEF TypeOK, Status
    <3>. QED BY <1>4, <3>1, <3>2 DEF EnterTask, TypeOK, q
  <2>3. \A u \in Task : u # cur => status'[u] = status[u]
      BY <2>1 DEF TypeOK
  <2>4. status'[cur] = "RUNNING" /\ q_get_queue("RUNNING") = q_get_queue("READY")
      BY <2>1 DEF TypeOK, q_get_queue
  <2>5. Lists' /\ ReadyInOrder'
      BY <2>1, <2>3, <2>4 DEF Lists, ReadyInOrder
  <2>6. OneRuns' /\ PickedInUse'
      BY <2>1, <2>3, <2>4 DEF OneRuns, PickedInUse
  <2>. QED BY <2>2, <2>5, <2>6
<1>5. CASE Dispatch
  <2>1. TypeOK'
      BY <1>5 DEF Dispatch, TypeOK, tasks, clock, cpu, q
  <2>2. Lists' /\ ReadyInOrder' /\ OneRuns' /\ PickedInUse'
      BY <1>5 DEF Dispatch, Lists, ReadyInOrder, OneRuns, PickedInUse, tasks, cpu
  <2>. QED BY <2>1, <2>2
<1>6. CASE VmReturn
  <2>1. TypeOK'
      BY <1>6 DEF VmReturn, TypeOK, tasks, clock, q
  <2>2. Lists' /\ ReadyInOrder' /\ OneRuns' /\ PickedInUse'
      BY <1>6 DEF VmReturn, Lists, ReadyInOrder, OneRuns, PickedInUse, tasks
  <2>. QED BY <2>1, <2>2
<1>7. CASE LeaveTask
  <2>1. /\ cur \in Task /\ status[cur] # "FREE" /\ pc = "return" /\ pc' = "requeue"
        /\ switching' = FALSE
        /\ UNCHANGED <<stopped, priority, reason, target, wake, popping, clock, driver,
                       cur, inC, resumed, q>>
      BY <1>7 DEF LeaveTask, PickedInUse
  <2>2. CASE stopped[cur]
    <3>1. /\ queue' \in [QueueId -> Seq(Task)] /\ Order'
          /\ status' = [status EXCEPT ![cur] = "DORMANT"] /\ status' \in [Task -> Status]
        BY <1>7, <2>1, <2>2, ChangeState DEF LeaveTask, Order, Status
    <3>2. waking' \subseteq Task
        BY <1>7, <2>2 DEF LeaveTask, Joiners, Waiting
    <3>3. TypeOK'
        BY <2>1, <3>1, <3>2 DEF TypeOK, clock, q
    <3>4. OneRuns' /\ PickedInUse'
        BY <2>1, <3>1 DEF OneRuns, PickedInUse, TypeOK
    <3>. QED BY <3>1, <3>3, <3>4 DEF Order
  <2>3. CASE ~stopped[cur]
    <3>1. /\ status' = [status EXCEPT ![cur] = IF @ = "RUNNING" THEN "READY" ELSE @]
          /\ UNCHANGED <<queue, waking>>
        BY <1>7, <2>3 DEF LeaveTask
    <3>2. \A u \in Task : u # cur => status'[u] = status[u]
        BY <3>1 DEF TypeOK
    <3>3. /\ status'[cur] # "FREE" /\ status'[cur] # "RUNNING"
          /\ q_get_queue(status'[cur]) = q_get_queue(status[cur])
        BY <2>1, <3>1 DEF TypeOK, q_get_queue
    <3>4. TypeOK'
        BY <2>1, <3>1 DEF TypeOK, Status, clock, q
    <3>5. Lists' /\ ReadyInOrder'
        BY <2>1, <3>1, <3>2, <3>3 DEF Lists, ReadyInOrder
    <3>6. OneRuns' /\ PickedInUse'
        BY <2>1, <3>2, <3>3 DEF OneRuns, PickedInUse
    <3>. QED BY <3>4, <3>5, <3>6
  <2>. QED BY <2>2, <2>3
<1>8. CASE Requeue
  <2>1. /\ cur \in Task /\ status[cur] # "FREE" /\ pc = "requeue"
        /\ pc' \in {"root", "top"} /\ cur' = NoTask
        /\ UNCHANGED <<stopped, priority, reason, target, wake, popping, clock,
                       switching, driver, inC, resumed, waking, q>>
      BY <1>8 DEF Requeue, PickedInUse, After
  <2>2. CASE driver # "pass" /\ status[cur] = "READY"
    <3>1. /\ queue' \in [QueueId -> Seq(Task)] /\ Order'
          /\ status' = [status EXCEPT ![cur] = "READY"] /\ status' \in [Task -> Status]
        BY <1>8, <2>1, <2>2, ChangeState DEF Requeue, Order, Status
    <3>2. TypeOK'
        BY <2>1, <3>1 DEF TypeOK, clock, q
    <3>3. OneRuns' /\ PickedInUse'
        BY <2>1, <3>1 DEF OneRuns, PickedInUse, TypeOK
    <3>. QED BY <3>1, <3>2, <3>3 DEF Order
  <2>3. CASE ~(driver # "pass" /\ status[cur] = "READY")
    <3>1. UNCHANGED <<queue, status>>
        BY <1>8, <2>3 DEF Requeue
    <3>2. TypeOK'
        BY <2>1, <3>1 DEF TypeOK, clock, q
    <3>3. Lists' /\ ReadyInOrder' /\ OneRuns' /\ PickedInUse'
        BY <2>1, <3>1 DEF Lists, ReadyInOrder, OneRuns, PickedInUse
    <3>. QED BY <3>2, <3>3
  <2>. QED BY <2>2, <2>3
<1>9. CASE SwitchContext
  <2>1. TypeOK'
      BY <1>9 DEF SwitchContext, TypeOK, tasks, clock, cpu, q
  <2>2. Lists' /\ ReadyInOrder' /\ OneRuns' /\ PickedInUse'
      BY <1>9 DEF SwitchContext, Lists, ReadyInOrder, OneRuns, PickedInUse, tasks, cpu
  <2>. QED BY <2>1, <2>2
<1>. QED BY <1>1, <1>2, <1>3, <1>4, <1>5, <1>6, <1>7, <1>8, <1>9 DEF Scheduler

\* A call that moves a task to another list, itself included.
LEMMA MoveStep ==
    ASSUME IInv, NEW t \in Task, status[t] # "FREE",
           NEW s \in Status \ {"FREE", "RUNNING"},
           task_change_state(t, s), UNCHANGED <<priority, cur>>,
           pc \in {"root", "top", "call"}, pc' = pc \/ Returns
    PROVE  /\ queue' \in [QueueId -> Seq(Task)] /\ status' \in [Task -> Status]
           /\ Lists' /\ ReadyInOrder' /\ OneRuns' /\ PickedInUse'
<1>1. /\ queue' \in [QueueId -> Seq(Task)] /\ Order'
      /\ status' = [status EXCEPT ![t] = s] /\ status' \in [Task -> Status]
    BY ChangeState DEF IInv, Order
<1>2. \A u \in Task : status'[u] = IF u = t THEN s ELSE status[u]
    BY <1>1 DEF IInv, TypeOK
<1>3. OneRuns' /\ PickedInUse'
    BY <1>2 DEF IInv, OneRuns, PickedInUse, Returns
<1>. QED BY <1>1, <1>3 DEF Order

\* A call that moves none.
LEMMA StayStep ==
    ASSUME IInv, UNCHANGED <<queue, status, priority, cur>>,
           pc \in {"root", "top", "call"}, Returns
    PROVE  Lists' /\ ReadyInOrder' /\ OneRuns' /\ PickedInUse'
BY DEF IInv, Lists, ReadyInOrder, OneRuns, PickedInUse, Returns

\* Where calls come from.
LEMMA CallSite ==
    ASSUME IInv, NEW c
    PROVE  /\ May(c) => pc \in {"root", "top", "call"}
           /\ MayPark(c) => pc = "call" /\ cur \in Task /\ status[cur] # "FREE"
           /\ Returns => pc' \in {"root", "top", "enter", "switch", "run", "call", "return", "requeue"}
BY DEF IInv, TypeOK, May, MayPark, PickedInUse, Returns

\* Sleep, join and pop: the running task leaves the ready list.
LEMMA ParkStep ==
    ASSUME IInv, pc = "call", Returns, NEW u \in Task \cup {NoTask},
           NEW r \in {"SLEEP", "JOIN", "QUEUE"}, NEW w \in Ticks,
           Park("WAITING", r, u, w), popping' \in [Task -> Ticks \cup {NotPopping}]
    PROVE  IInv'
<1>1. /\ cur \in Task /\ status[cur] # "FREE" /\ "WAITING" \in Status \ {"FREE", "RUNNING"}
      /\ task_change_state(cur, "WAITING") /\ UNCHANGED <<priority, cur>>
    BY DEF IInv, PickedInUse, Status, Park, cpu
<1>2. /\ queue' \in [QueueId -> Seq(Task)] /\ status' \in [Task -> Status]
      /\ Lists' /\ ReadyInOrder' /\ OneRuns' /\ PickedInUse'
    BY <1>1, MoveStep
<1>3. Earliest(w) \in Ticks
    BY TickTypes DEF IInv
<1>4. TypeOK'
    BY <1>2, <1>3 DEF IInv, TypeOK, Park, Returns, cpu, q
<1>. QED BY <1>2, <1>4 DEF IInv

\* Queue#pop, first try and retries.
LEMMA PopStep ==
    ASSUME IInv, pc = "call", Returns, NEW d \in Ticks, queue_pop_try(d)
    PROVE  IInv'
<1>. USE DEF IInv
<1>1. cur \in Task
    BY DEF PickedInUse
<1>2. CASE /\ items > 0
           /\ items' = items - 1
           /\ popping' = [popping EXCEPT ![cur] = NotPopping]
           /\ UNCHANGED <<queue, status, stopped, priority, reason, target, wake, clock,
                          switching, cpu, waking, closed>>
  <2>1. items' \in 0 .. MaxItems
      BY <1>2, TaskAssumption DEF TypeOK
  <2>2. TypeOK'
      BY <1>1, <1>2, <2>1 DEF TypeOK, Returns, clock, cpu
  <2>3. Lists' /\ ReadyInOrder' /\ OneRuns' /\ PickedInUse'
      BY <1>2, StayStep DEF cpu
  <2>. QED BY <2>2, <2>3
<1>3. CASE /\ popping' = [popping EXCEPT ![cur] = NotPopping]
           /\ UNCHANGED <<queue, status, stopped, priority, reason, target, wake, clock,
                          switching, cpu, waking, q>>
  <2>1. TypeOK'
      BY <1>1, <1>3 DEF TypeOK, Returns, clock, cpu, q
  <2>2. Lists' /\ ReadyInOrder' /\ OneRuns' /\ PickedInUse'
      BY <1>3, StayStep DEF cpu
  <2>. QED BY <2>1, <2>2
<1>4. CASE popping' = [popping EXCEPT ![cur] = d] /\ Park("WAITING", "QUEUE", NoTask, d)
  <2>1. popping' \in [Task -> Ticks \cup {NotPopping}]
      BY <1>4 DEF TypeOK
  <2>. QED BY <1>4, <2>1, ParkStep
<1>. QED BY <1>2, <1>3, <1>4 DEF queue_pop_try

\* The calls of one step.
LEMMA WholeStep ==
    ASSUME IInv, Whole, Returns
    PROVE  IInv'
<1>. USE DEF IInv
<1>1. ASSUME NEW t \in Task, NEW p \in Prio, task_create_common(t, p) PROVE IInv'
  <2>1. /\ pc \in {"root", "top", "call"} /\ status[t] = "FREE"
        /\ priority' = [priority EXCEPT ![t] = p]
        /\ status' = [status EXCEPT ![t] = "READY"]
        /\ queue' = [queue EXCEPT !.ready = Insert(queue.ready, t, priority')]
        /\ switching' \in BOOLEAN
        /\ stopped' = [stopped EXCEPT ![t] = FALSE]
        /\ UNCHANGED <<reason, target, wake, popping, clock, cpu, waking, q>>
      BY <1>1, CallSite DEF task_create_common, TypeOK
  <2>2. queue' \in [QueueId -> Seq(Task)] /\ Order'
      BY <2>1, CreateOrder DEF Order
  <2>3. TypeOK'
      BY <2>1, <2>2 DEF TypeOK, Status, clock, cpu, q, Returns
  <2>4. \A u \in Task : status'[u] = IF u = t THEN "READY" ELSE status[u]
      BY <2>1 DEF TypeOK
  <2>5. OneRuns' /\ PickedInUse'
      BY <2>1, <2>4 DEF OneRuns, PickedInUse, Returns, cpu
  <2>. QED BY <2>2, <2>3, <2>5 DEF Order
<1>2. ASSUME NEW t \in Task, NEW p \in Prio, mrb_task_set_priority(t, p) PROVE IInv'
  <2>1. /\ pc \in {"root", "top", "call"}
        /\ priority' = [priority EXCEPT ![t] = p]
        /\ UNCHANGED <<status, stopped, reason, target, wake, popping, clock, switching,
                       cpu, waking, q>>
      BY <1>2, CallSite DEF mrb_task_set_priority
  <2>2. queue' \in [QueueId -> Seq(Task)] /\ Order'
      BY <1>2, PriorityOrder DEF Order
  <2>3. TypeOK'
      BY <2>1, <2>2 DEF TypeOK, clock, cpu, q, Returns
  <2>4. OneRuns' /\ PickedInUse'
      BY <2>1 DEF OneRuns, PickedInUse, Returns, cpu
  <2>. QED BY <2>2, <2>3, <2>4 DEF Order
<1>3. ASSUME NEW n \in Delays, sleep_us_impl(n) PROVE IInv'
    BY <1>3, CallSite, TickTypes, ParkStep DEF sleep_us_impl, TypeOK
<1>4. CASE BlockingSleep
  <2>1. TypeOK'
      BY <1>4, CallSite DEF BlockingSleep, TypeOK, tasks, clock, cpu, q, Returns
  <2>2. Lists' /\ ReadyInOrder' /\ OneRuns' /\ PickedInUse'
      BY <1>4, CallSite, StayStep DEF BlockingSleep, tasks, cpu
  <2>. QED BY <2>1, <2>2
<1>5. CASE SleepForever
  <2>1. /\ pc = "call" /\ cur \in Task /\ status[cur] # "FREE"
        /\ task_change_state(cur, "SUSPENDED") /\ switching' = TRUE
        /\ UNCHANGED <<stopped, priority, reason, target, wake, popping, clock, cpu, waking, q>>
      BY <1>5, CallSite DEF SleepForever
  <2>2. /\ queue' \in [QueueId -> Seq(Task)] /\ status' \in [Task -> Status]
        /\ Lists' /\ ReadyInOrder' /\ OneRuns' /\ PickedInUse'
      BY <2>1, MoveStep DEF Status, cpu
  <2>3. TypeOK'
      BY <2>1, <2>2 DEF TypeOK, clock, cpu, q, Returns
  <2>. QED BY <2>2, <2>3
<1>6. CASE mrb_task_s_pass
  <2>1. TypeOK'
      BY <1>6, CallSite DEF mrb_task_s_pass, MayPark, TypeOK, tasks, clock, cpu, q, Returns
  <2>2. Lists' /\ ReadyInOrder' /\ OneRuns' /\ PickedInUse'
      BY <1>6, CallSite, StayStep DEF mrb_task_s_pass, MayPark, tasks, cpu
  <2>. QED BY <2>1, <2>2
<1>7. CASE Compute
  <2>1. TypeOK'
      BY <1>7, CallSite DEF Compute, TypeOK, tasks, clock, cpu, q, Returns
  <2>2. Lists' /\ ReadyInOrder' /\ OneRuns' /\ PickedInUse'
      BY <1>7, CallSite, StayStep DEF Compute, tasks, cpu
  <2>. QED BY <2>1, <2>2
<1>8. CASE Finish
  <2>1. TypeOK'
      BY <1>8, CallSite DEF Finish, TypeOK, tasks, clock, cpu, q, Returns
  <2>2. Lists' /\ ReadyInOrder' /\ OneRuns' /\ PickedInUse'
      BY <1>8, CallSite, StayStep DEF Finish, tasks, cpu
  <2>. QED BY <2>1, <2>2
<1>9. CASE CallC
  <2>1. TypeOK'
      BY <1>9, CallSite DEF CallC, TypeOK, tasks, clock, cpu, q, Returns
  <2>2. Lists' /\ ReadyInOrder' /\ OneRuns' /\ PickedInUse'
      BY <1>9, CallSite, StayStep DEF CallC, tasks, cpu
  <2>. QED BY <2>1, <2>2
<1>10. ASSUME NEW u \in Task, mrb_task_join(u) PROVE IInv'
    BY <1>10, CallSite, TickTypes, ParkStep DEF mrb_task_join, TypeOK
<1>11. ASSUME NEW u \in Task, suspend_task_internal(u) PROVE IInv'
  <2>1. /\ pc \in {"root", "top", "call"} /\ status[u] # "FREE"
        /\ task_change_state(u, "SUSPENDED") /\ switching' \in BOOLEAN
        /\ UNCHANGED <<stopped, priority, reason, target, wake, popping, clock, cpu, waking, q>>
      BY <1>11, CallSite DEF suspend_task_internal, TypeOK
  <2>2. /\ queue' \in [QueueId -> Seq(Task)] /\ status' \in [Task -> Status]
        /\ Lists' /\ ReadyInOrder' /\ OneRuns' /\ PickedInUse'
      BY <2>1, MoveStep DEF Status, cpu
  <2>3. TypeOK'
      BY <2>1, <2>2 DEF TypeOK, clock, cpu, q, Returns
  <2>. QED BY <2>2, <2>3
<1>12. ASSUME NEW u \in Task, terminate_task_internal(u) PROVE IInv'
  <2>1. /\ pc \in {"root", "top", "call"} /\ status[u] # "FREE"
        /\ task_change_state(u, "DORMANT") /\ switching' \in BOOLEAN
        /\ stopped' = [stopped EXCEPT ![u] = TRUE] /\ waking' \subseteq Task
        /\ UNCHANGED <<priority, reason, target, wake, popping, clock, cpu, q>>
      BY <1>12, CallSite DEF terminate_task_internal, Terminated, TypeOK, Joiners, Waiting
  <2>2. /\ queue' \in [QueueId -> Seq(Task)] /\ status' \in [Task -> Status]
        /\ Lists' /\ ReadyInOrder' /\ OneRuns' /\ PickedInUse'
      BY <2>1, MoveStep DEF Status, cpu
  <2>3. TypeOK'
      BY <2>1, <2>2 DEF TypeOK, clock, cpu, q, Returns
  <2>. QED BY <2>2, <2>3
<1>13. ASSUME NEW u \in Task, mrb_close_task(u) PROVE IInv'
  <2>1. /\ pc \in {"root", "top", "call"} /\ status[u] # "FREE" /\ (pc = "call" => u # cur)
        /\ switching' \in BOOLEAN /\ waking' \subseteq Task
        /\ queue' = mrb_task_q_delete(queue, status[u], u)
        /\ status' = [status EXCEPT ![u] = "FREE"]
        /\ stopped' = [stopped EXCEPT ![u] = FALSE]
        /\ reason' = [reason EXCEPT ![u] = "NONE"]
        /\ target' = [target EXCEPT ![u] = NoTask]
        /\ wake' = [wake EXCEPT ![u] = UINT32_MAX]
        /\ popping' = [popping EXCEPT ![u] = NotPopping]
        /\ UNCHANGED <<priority, clock, cpu, q>>
      BY <1>13, CallSite DEF mrb_close_task, Terminated, TypeOK, Joiners, Waiting
  <2>2. queue' \in [QueueId -> Seq(Task)] /\ Order'
      BY <2>1, Unlink DEF Order
  <2>3. TypeOK'
      BY <2>1, <2>2, TickTypes DEF TypeOK, Status, clock, cpu, q, Returns
  <2>4. \A v \in Task : status'[v] = IF v = u THEN "FREE" ELSE status[v]
      BY <2>1 DEF TypeOK
  <2>5. OneRuns' /\ PickedInUse'
      BY <2>1, <2>4 DEF OneRuns, PickedInUse, Returns, cpu
  <2>. QED BY <2>2, <2>3, <2>5 DEF Order
<1>14. ASSUME NEW u \in Task, mrb_stop_task(u) PROVE IInv'
  <2>1. TypeOK'
      BY <1>14, CallSite DEF mrb_stop_task, TypeOK, tasks, clock, cpu, q, Returns
  <2>2. Lists' /\ ReadyInOrder' /\ OneRuns' /\ PickedInUse'
      BY <1>14, CallSite, StayStep DEF mrb_stop_task, tasks, cpu
  <2>. QED BY <2>1, <2>2
<1>15. ASSUME NEW u \in Task, mrb_task_reset_context(u) PROVE IInv'
  <2>1. TypeOK'
      BY <1>15, CallSite DEF mrb_task_reset_context, TypeOK, tasks, clock, cpu, q, Returns
  <2>2. Lists' /\ ReadyInOrder' /\ OneRuns' /\ PickedInUse'
      BY <1>15, CallSite, StayStep DEF mrb_task_reset_context, tasks, cpu
  <2>. QED BY <2>1, <2>2
<1>16. CASE mrb_task_queue_push
  <2>1. waking' \subseteq Task /\ switching' \in BOOLEAN /\ items' \in 0 .. MaxItems
      BY <1>16, TaskAssumption DEF mrb_task_queue_push, Waiters, Waiting, TypeOK
  <2>2. TypeOK'
      BY <1>16, <2>1, CallSite DEF mrb_task_queue_push, TypeOK, tasks, clock, cpu
  <2>3. Lists' /\ ReadyInOrder' /\ OneRuns' /\ PickedInUse'
      BY <1>16, CallSite, StayStep DEF mrb_task_queue_push, tasks, cpu
  <2>. QED BY <2>2, <2>3
<1>17. CASE queue_close
  <2>1. waking' \subseteq Task /\ switching' \in BOOLEAN
      BY <1>17 DEF queue_close, Waiters, Waiting, TypeOK
  <2>2. TypeOK'
      BY <1>17, <2>1, CallSite DEF queue_close, TypeOK, tasks, clock, cpu
  <2>3. Lists' /\ ReadyInOrder' /\ OneRuns' /\ PickedInUse'
      BY <1>17, CallSite, StayStep DEF queue_close, tasks, cpu
  <2>. QED BY <2>2, <2>3
<1>18. CASE queue_clear
  <2>1. items' \in 0 .. MaxItems
      BY <1>18, TaskAssumption DEF queue_clear
  <2>2. TypeOK'
      BY <1>18, <2>1, CallSite DEF queue_clear, TypeOK, tasks, clock, cpu
  <2>3. Lists' /\ ReadyInOrder' /\ OneRuns' /\ PickedInUse'
      BY <1>18, CallSite, StayStep DEF queue_clear, tasks, cpu
  <2>. QED BY <2>2, <2>3
<1>19. CASE Pop
  <2>1. pc = "call" /\ \E d \in Ticks : queue_pop_try(d)
      BY <1>19, CallSite, TickTypes DEF Pop
  <2>. QED BY <2>1, PopStep
<1>20. CASE PopAgain
  <2>1. pc = "call" /\ popping[cur] \in Ticks /\ queue_pop_try(popping[cur])
      BY <1>20 DEF PopAgain, PickedInUse, TypeOK
  <2>. QED BY <2>1, PopStep
<1>21. CASE PopAtOnce
  <2>1. items' \in 0 .. MaxItems
      BY <1>21, TaskAssumption DEF PopAtOnce, TypeOK
  <2>2. TypeOK'
      BY <1>21, <2>1, CallSite DEF PopAtOnce, TypeOK, tasks, clock, cpu
  <2>3. Lists' /\ ReadyInOrder' /\ OneRuns' /\ PickedInUse'
      BY <1>21, CallSite, StayStep DEF PopAtOnce, tasks, cpu
  <2>. QED BY <2>2, <2>3
<1>. QED
    BY <1>1, <1>2, <1>3, <1>4, <1>5, <1>6, <1>7, <1>8, <1>9, <1>10, <1>11, <1>12, <1>13,
       <1>14, <1>15, <1>16, <1>17, <1>18, <1>19, <1>20, <1>21 DEF Whole

\* All calls.
LEMMA CallStep ==
    ASSUME IInv, Call
    PROVE  IInv'
<1>. USE DEF IInv
<1>1. CASE Whole /\ Returns
    BY <1>1, WholeStep
<1>2. ASSUME NEW u \in Task, resume_task_internal(u) PROVE IInv'
  <2>. DEFINE s == IF reason[u] = "NONE" THEN "READY" ELSE "WAITING"
  <2>1. /\ pc \in {"root", "top", "call"} /\ status[u] # "FREE"
        /\ task_change_state(u, s) /\ switching' \in BOOLEAN /\ resumed' = u
        /\ UNCHANGED <<stopped, priority, reason, target, wake, popping, clock, pc,
                       driver, cur, inC, waking, q>>
      BY <1>2, CallSite DEF resume_task_internal, TypeOK
  <2>2. s \in Status \ {"FREE", "RUNNING"}
      BY DEF Status
  <2>. HIDE DEF s
  <2>3. /\ queue' \in [QueueId -> Seq(Task)] /\ status' \in [Task -> Status]
        /\ Lists' /\ ReadyInOrder' /\ OneRuns' /\ PickedInUse'
      BY <2>1, <2>2, MoveStep
  <2>4. TypeOK'
      BY <2>1, <2>3 DEF TypeOK, clock, q
  <2>. QED BY <2>3, <2>4
<1>3. ASSUME NEW d \in {"run", "once", "pass"}, StartScheduler(d) PROVE IInv'
  <2>1. TypeOK'
      BY <1>3 DEF StartScheduler, TypeOK, tasks, clock, q
  <2>2. Lists' /\ ReadyInOrder' /\ OneRuns' /\ PickedInUse'
      BY <1>3 DEF StartScheduler, Lists, ReadyInOrder, OneRuns, PickedInUse, tasks
  <2>. QED BY <2>1, <2>2
<1>. QED BY <1>1, <1>2, <1>3 DEF Call

-----------------------------------------------------------------------------
(* The theorems.                                                           *)

\* An interpreter with no task yet satisfies the invariant.
LEMMA InitIInv == Init => IInv
<1>. SUFFICES ASSUME Init PROVE IInv
    OBVIOUS
<1>1. (CHOOSE p \in Prio : TRUE) \in Prio
    BY TaskAssumption
<1>2. priority \in [Task -> Prio]
    BY <1>1 DEF Init
<1>3. queue \in [QueueId -> Seq(Task)] /\ \A i \in QueueId : queue[i] = <<>>
    BY DEF Init
<1>4. UINT32_MAX \in Ticks /\ 0 \in Ticks /\ 0 \in 0 .. MaxItems
      /\ 0 \in 0 .. MRB_TIMESLICE_TICK_COUNT
    BY TaskAssumption DEF UINT32_MAX, Ticks
<1>5. TypeOK
    BY <1>2, <1>3, <1>4 DEF Init, TypeOK, Status
<1>6. Lists /\ ReadyInOrder
    BY <1>3 DEF Init, Lists, ReadyInOrder, Distinct, Listed, QueueId
<1>7. OneRuns /\ PickedInUse
    BY DEF Init, OneRuns, PickedInUse
<1>. QED BY <1>5, <1>6, <1>7 DEF IInv

\* Every step of the thread and of the interrupt keeps it.
LEMMA NextIInv == IInv /\ [Next]_vars => IInv'
<1>. SUFFICES ASSUME IInv, [Next]_vars PROVE IInv'
    OBVIOUS
<1>1. CASE Next
    BY <1>1, WakeStep, TickStep, ResumeWakeupStep, SchedulerStep, CallStep DEF Next
<1>2. CASE UNCHANGED vars
    BY <1>2 DEF vars, IInv, TypeOK, Lists, ReadyInOrder, OneRuns, PickedInUse
<1>. QED BY <1>1, <1>2

\* So it holds in every reachable state.
LEMMA Invariance == Spec => []IInv
BY InitIInv, NextIInv, PTL DEF Spec

\* Lists, statuses, ticks, timeslice and program counter keep their types: the
\* uint8_t timeslice, for one, never wraps below zero.
THEOREM SchedTypeCorrect == Spec => []TypeOK
<1>1. IInv => TypeOK
    BY DEF IInv
<1>. QED BY <1>1, Invariance, PTL

\* The four lists of mrb->task.queues partition the tasks in use by status, so
\* mrb_task_q_delete() always finds what it is to take off.
THEOREM ListsConsistent == Spec => []ListsMatchStatus
<1>1. IInv => ListsMatchStatus
    BY ListsAgree DEF IInv, TypeOK
<1>. QED BY <1>1, Invariance, PTL

\* The ready list is in order of priority: its head, the task the scheduler
\* picks, is one of the highest priority among the ready.
THEOREM ReadyListOrdered == Spec => []ReadyInOrder
<1>1. IInv => ReadyInOrder
    BY DEF IInv
<1>. QED BY <1>1, Invariance, PTL

\* At most one task is RUNNING, and it is the one whose context the VM executes.
THEOREM RunningIsCurrent == Spec => []OneRuns
<1>1. IInv => OneRuns
    BY DEF IInv
<1>. QED BY <1>1, Invariance, PTL

-----------------------------------------------------------------------------
(* Tasks that wait: for a deadline, for another task to end, for an item of*)
(* a Task::Queue.                                                          *)

\* The waiting list holds the tasks with the status WAITING.
LEMMA WaitingTasks ==
    ASSUME IInv
    PROVE  Waiting = {t \in Task : status[t] = "WAITING"}
<1>1. "waiting" \in QueueId /\ \A t \in Task : status[t] \in Status
    BY DEF IInv, TypeOK, QueueId
<1>2. \A s \in Status : s = "WAITING" <=> s # "FREE" /\ q_get_queue(s) = "waiting"
    BY DEF Status, q_get_queue
<1>3. \A t \in Task : Listed(queue["waiting"], t) <=> status[t] = "WAITING"
    BY <1>1, <1>2 DEF IInv, Lists
<1>. QED BY <1>3 DEF Waiting

-----------------------------------------------------------------------------
(* Signed distances between ticks.                                         *)

Half == TickRange \div 2

\* Half the range is what an int32_t has on either side of zero.
LEMMA HalfRange ==
    /\ TickRange \in Nat /\ TickRange > 3
    /\ Half \in Nat /\ Half > 1 /\ 2 * Half <= TickRange /\ TickRange <= 2 * Half + 1
    /\ Delays \subseteq 0 .. Half - 1
    /\ Ticks = 0 .. TickRange - 1 /\ UINT32_MAX = TickRange - 1
<1>1. TickRange \in Nat /\ TickRange > 3 /\ Delays \subseteq 0 .. Half - 1
    BY TaskAssumption DEF Half
<1>2. \A n \in Nat : /\ n \div 2 \in Nat /\ 2 * (n \div 2) <= n /\ n <= 2 * (n \div 2) + 1
    OBVIOUS
<1>. QED BY <1>1, <1>2 DEF Half, Ticks, UINT32_MAX

\* A remainder by the range, of a number less than one range away.
LEMMA Modulo ==
    ASSUME NEW R \in Nat, R > 0, NEW x \in Int, -R < x, x < 2 * R
    PROVE  x % R = IF x < 0 THEN x + R ELSE IF x < R THEN x ELSE x - R
<1>1. x = R * (x \div R) + (x % R) /\ x % R \in 0 .. R - 1 /\ x \div R \in Int
    OBVIOUS
<1>. DEFINE d == x \div R
            m == x % R
<1>. HIDE DEF d, m
<1>2. x = R * d + m /\ m \in 0 .. R - 1 /\ d \in Int
    BY <1>1 DEF d, m
<1>3. d \in {-1, 0, 1}
  <2>1. ASSUME d >= 2 PROVE FALSE
    <3>1. R * d >= R * 2
        BY <2>1, <1>2
    <3>. QED BY <3>1, <1>2
  <2>2. ASSUME d <= -2 PROVE FALSE
    <3>1. R * d <= R * (-2)
        BY <2>2, <1>2
    <3>. QED BY <3>1, <1>2
  <2>. QED BY <2>1, <2>2, <1>2
<1>4. CASE d = -1
    BY <1>2, <1>4 DEF m
<1>5. CASE d = 0
    BY <1>2, <1>5 DEF m
<1>6. CASE d = 1
    BY <1>2, <1>6 DEF m
<1>. QED BY <1>3, <1>4, <1>5, <1>6

\* (int32_t)(a - b) is the difference, give or take one range.
LEMMA DiffValue ==
    ASSUME NEW a \in Ticks, NEW b \in Ticks
    PROVE  /\ Diff(a, b) \in {a - b, a - b - TickRange, a - b + TickRange}
           /\ Diff(a, b) \in Int /\ -Half - 1 <= Diff(a, b) /\ Diff(a, b) < Half
           /\ Half - TickRange <= Diff(a, b)
<1>1. a \in Int /\ b \in Int /\ -TickRange < a - b /\ a - b < TickRange
    BY HalfRange
<1>2. (a - b) % TickRange = IF a - b < 0 THEN a - b + TickRange ELSE a - b
    BY <1>1, HalfRange, Modulo
<1>3. Diff(a, b) = LET d == (a - b) % TickRange IN IF d < Half THEN d ELSE d - TickRange
    BY DEF Diff, Half
<1>. QED BY <1>1, <1>2, <1>3, HalfRange

\* Two ticks less than half a range apart, seen from a third, are ordered as
\* they are seen from there.
LEMMA DiffFrom ==
    ASSUME NEW a \in Ticks, NEW b \in Ticks, NEW c \in Ticks,
           -Half < Diff(a, c) - Diff(b, c), Diff(a, c) - Diff(b, c) < Half
    PROVE  Diff(a, b) = Diff(a, c) - Diff(b, c)
<1>. DEFINE p == Diff(a, c)
            r == Diff(b, c)
            s == Diff(a, b)
<1>1. /\ p \in {a - c, a - c - TickRange, a - c + TickRange} /\ p \in Int
      /\ r \in {b - c, b - c - TickRange, b - c + TickRange} /\ r \in Int
      /\ s \in {a - b, a - b - TickRange, a - b + TickRange} /\ s \in Int
      /\ Half - TickRange <= s /\ s < Half /\ -Half < p - r /\ p - r < Half
    BY DiffValue
<1>. HIDE DEF p, r, s
<1>2. a \in Int /\ b \in Int /\ c \in Int /\ Half \in Int /\ TickRange \in Int
      /\ 2 * Half <= TickRange /\ TickRange <= 2 * Half + 1 /\ Half > 1
      /\ a < TickRange /\ b < TickRange /\ c < TickRange /\ 0 <= a /\ 0 <= b /\ 0 <= c
    BY HalfRange
<1>3. s = p - r
    BY <1>1, <1>2
<1>. QED BY <1>3 DEF p, r, s

\* What the next tick does to a distance.
LEMMA DiffNext ==
    ASSUME NEW a \in Ticks, NEW c \in Ticks, Diff(a, c) > Half - TickRange
    PROVE  Diff(a, (c + 1) % TickRange) = Diff(a, c) - 1
<1>. DEFINE n == (c + 1) % TickRange
            p == Diff(a, c)
            s == Diff(a, n)
<1>1. a \in Int /\ c \in Int /\ Half \in Int /\ TickRange \in Int
      /\ 2 * Half <= TickRange /\ TickRange <= 2 * Half + 1 /\ Half > 1
      /\ a < TickRange /\ c < TickRange /\ 0 <= a /\ 0 <= c
    BY HalfRange
<1>2. n = IF c + 1 < TickRange THEN c + 1 ELSE c + 1 - TickRange
    BY <1>1, HalfRange, Modulo
<1>3. n \in Ticks
    BY <1>1, <1>2, HalfRange
<1>. HIDE DEF n
<1>4. /\ p \in {a - c, a - c - TickRange, a - c + TickRange} /\ p \in Int
      /\ s \in {a - n, a - n - TickRange, a - n + TickRange} /\ s \in Int
      /\ Half - TickRange <= s /\ s < Half /\ Half - TickRange < p /\ p < Half
    BY <1>3, DiffValue
<1>. HIDE DEF p, s
<1>5. s = p - 1
    BY <1>1, <1>2, <1>4
<1>. QED BY <1>5 DEF p, s, n

\* A deadline lies as far ahead as it was asked for, or one tick less where it
\* would be the value that means none.
LEMMA DeadlineAhead ==
    ASSUME NEW n \in Delays, tick \in Ticks
    PROVE  /\ Deadline(n) \in Ticks /\ Deadline(n) # UINT32_MAX
           /\ Diff(Deadline(n), tick) \in {n, n - 1}
<1>. DEFINE w == (tick + n) % TickRange
            e == Deadline(n)
            p == Diff(e, tick)
<1>1. tick \in Int /\ n \in Int /\ Half \in Int /\ TickRange \in Int
      /\ 2 * Half <= TickRange /\ TickRange <= 2 * Half + 1 /\ Half > 1 /\ TickRange > 3
      /\ tick < TickRange /\ 0 <= tick /\ 0 <= n /\ n < Half
    BY HalfRange
<1>2. w = IF tick + n < TickRange THEN tick + n ELSE tick + n - TickRange
    BY <1>1, HalfRange, Modulo
<1>3. e = IF w = TickRange - 1 THEN TickRange - 2 ELSE w
    BY <1>1, HalfRange DEF Deadline, mrb_task_normalize_wakeup
<1>4. e \in Ticks /\ e # UINT32_MAX
    BY <1>1, <1>2, <1>3, HalfRange
<1>. HIDE DEF w, e
<1>5. /\ p \in {e - tick, e - tick - TickRange, e - tick + TickRange} /\ p \in Int
      /\ Half - TickRange <= p /\ p < Half
    BY <1>4, DiffValue
<1>. HIDE DEF p
<1>6. p \in {n, n - 1}
    BY <1>1, <1>2, <1>3, <1>5
<1>. QED BY <1>4, <1>6 DEF p, e
-----------------------------------------------------------------------------
(* Sleepers.  All deadlines that matter lie in a window around the present *)
(* less than half a range wide, in which Diff orders them; Horizon keeps   *)
(* its lower end and the longest delay its upper end.                      *)

Ahead(w) == Diff(w, tick)
InWindow(a) == (\A n \in Delays : a > n - Half) /\ (\E n \in Delays : a <= n)

\* The bound of Horizon covers the deadline of t.
Scheduled(t) == status[t] = "DORMANT" => "suspend" \in Calls

DeadlinesNear == \A t \in Task : Timed(t) /\ Scheduled(t) => InWindow(Ahead(wake[t]))
PopsNear      == \A t \in Task : ~stopped[t] /\ popping[t] < UINT32_MAX
                                   => InWindow(Ahead(popping[t]))
WakeupNear    == wakeup_tick # UINT32_MAX => InWindow(Ahead(wakeup_tick))

\* SleepersCovered, seen from the present and in the middle of a walk too.
Covered ==
    \A t \in Task \ (waking \cup {resumed}) : status[t] = "WAITING" /\ Timed(t) =>
        wakeup_tick # UINT32_MAX /\ Ahead(wakeup_tick) <= Ahead(wake[t])

\* A structure not in use is in no Queue#pop, a stopped task takes no further
\* instruction, and only programs that suspend tasks resume them.
FreeNotPopping == \A t \in Task : status[t] = "FREE" => popping[t] = NotPopping
CallerRuns     == pc = "call" => ~stopped[cur]
ResumeAllowed  == resumed # NoTask => "suspend" \in Calls

SInv == /\ DeadlinesNear /\ PopsNear /\ WakeupNear /\ Covered
        /\ FreeNotPopping /\ CallerRuns /\ ResumeAllowed

\* No program both sleeps for no time at all and pops with a timeout of
\* INT32_MAX ticks: a deadline moved from UINT32_MAX to the tick before it may
\* lie in the past, and is then half a range from the other.
DelaysApart == 0 \in Delays => Half - 1 \notin Delays

\* Inside the window distances are differences.
LEMMA WindowDiff ==
    ASSUME NEW a \in Ticks, NEW b \in Ticks, tick \in Ticks,
           InWindow(Ahead(a)), InWindow(Ahead(b))
    PROVE  Diff(a, b) = Ahead(a) - Ahead(b) /\ Ahead(a) \in Int /\ Ahead(b) \in Int
<1>1. Ahead(a) \in Int /\ Ahead(b) \in Int
    BY DiffValue DEF Ahead
<1>2. Delays \subseteq Int /\ Half \in Int
    BY HalfRange
<1>3. PICK n \in Delays : Ahead(a) <= n /\ Ahead(b) > n - Half
    BY DEF InWindow
<1>4. PICK m \in Delays : Ahead(b) <= m /\ Ahead(a) > m - Half
    BY DEF InWindow
<1>5. -Half < Ahead(a) - Ahead(b) /\ Ahead(a) - Ahead(b) < Half
    BY <1>1, <1>2, <1>3, <1>4
<1>. QED BY <1>1, <1>5, DiffFrom DEF Ahead

\* A new deadline is in the window.
LEMMA DeadlineNear ==
    ASSUME DelaysApart, NEW n \in Delays, tick \in Ticks
    PROVE  /\ Deadline(n) \in Ticks /\ Deadline(n) # UINT32_MAX
           /\ InWindow(Ahead(Deadline(n)))
<1>. DEFINE a == Ahead(Deadline(n))
<1>1. Deadline(n) \in Ticks /\ Deadline(n) # UINT32_MAX /\ a \in {n, n - 1}
    BY DeadlineAhead DEF Ahead
<1>. HIDE DEF a
<1>2. /\ n \in Nat /\ Half \in Int /\ \A m \in Delays : m \in Nat /\ m <= Half - 1
      /\ n = 0 => \A m \in Delays : m # Half - 1
    BY HalfRange DEF DelaysApart
<1>3. \A m \in Delays : a > m - Half
    BY <1>1, <1>2
<1>4. a <= n
    BY <1>1, <1>2
<1>. QED BY <1>1, <1>3, <1>4 DEF InWindow, a

\* The wake-up tick after a task has been parked covers what it covered, and
\* that task.
LEMMA EarliestCovers ==
    ASSUME tick \in Ticks, wakeup_tick \in Ticks, WakeupNear,
           NEW w \in Ticks, w # UINT32_MAX => InWindow(Ahead(w))
    PROVE  /\ Earliest(w) # UINT32_MAX => InWindow(Ahead(Earliest(w)))
           /\ w # UINT32_MAX => Earliest(w) # UINT32_MAX /\ Ahead(Earliest(w)) <= Ahead(w)
           /\ wakeup_tick # UINT32_MAX =>
                 Earliest(w) # UINT32_MAX /\ Ahead(Earliest(w)) <= Ahead(wakeup_tick)
<1>1. CASE w = UINT32_MAX
  <2>1. Earliest(w) = wakeup_tick
      BY <1>1 DEF Earliest
  <2>2. Ahead(wakeup_tick) \in Int
      BY DiffValue DEF Ahead
  <2>. QED BY <1>1, <2>1, <2>2 DEF WakeupNear
<1>2. CASE w # UINT32_MAX /\ wakeup_tick = UINT32_MAX
  <2>1. Earliest(w) = w
      BY <1>2 DEF Earliest
  <2>2. Ahead(w) \in Int
      BY DiffValue DEF Ahead
  <2>. QED BY <1>2, <2>1, <2>2
<1>3. CASE w # UINT32_MAX /\ wakeup_tick # UINT32_MAX
  <2>1. /\ Diff(w, wakeup_tick) = Ahead(w) - Ahead(wakeup_tick)
        /\ Ahead(w) \in Int /\ Ahead(wakeup_tick) \in Int
        /\ InWindow(Ahead(w)) /\ InWindow(Ahead(wakeup_tick))
      BY <1>3, WindowDiff DEF WakeupNear
  <2>2. CASE Ahead(w) < Ahead(wakeup_tick)
    <3>1. Earliest(w) = w
        BY <1>3, <2>1, <2>2 DEF Earliest
    <3>. QED BY <1>3, <2>1, <2>2, <3>1
  <2>3. CASE ~(Ahead(w) < Ahead(wakeup_tick))
    <3>1. Earliest(w) = wakeup_tick
        BY <1>3, <2>1, <2>3 DEF Earliest
    <3>. QED BY <1>3, <2>1, <2>3, <3>1
  <2>. QED BY <2>2, <2>3
<1>. QED BY <1>1, <1>2, <1>3

\* A step that moves neither the clock nor a deadline, and makes no task wait
\* for one.
QuietStep ==
    /\ UNCHANGED <<tick, wakeup_tick>>
    /\ \A t \in Task : Timed(t)' => Timed(t) /\ wake'[t] = wake[t]
    /\ \A t \in Task : Timed(t)' /\ Scheduled(t)' => Scheduled(t)
    /\ \A t \in Task \ (waking' \cup {resumed'}) :
           status'[t] = "WAITING" => status[t] = "WAITING" /\ t \notin waking \cup {resumed}
    /\ \A t \in Task : ~stopped'[t] /\ popping'[t] < UINT32_MAX =>
                           ~stopped[t] /\ popping'[t] = popping[t]

\* It keeps the deadlines in the window and the sleepers covered.
LEMMA QuietKeeps ==
    ASSUME SInv, QuietStep
    PROVE  DeadlinesNear' /\ PopsNear' /\ WakeupNear' /\ Covered'
<1>1. \A w, w2 : w2 = w => Diff(w2, tick') = Diff(w, tick)
    BY DEF QuietStep
<1>2. DeadlinesNear'
  <2>. SUFFICES ASSUME NEW t \in Task, Timed(t)', Scheduled(t)'
                PROVE  InWindow(Ahead(wake[t]))'
      BY DEF DeadlinesNear
  <2>1. Timed(t) /\ Scheduled(t) /\ wake'[t] = wake[t]
      BY DEF QuietStep
  <2>2. InWindow(Ahead(wake[t]))
      BY <2>1 DEF SInv, DeadlinesNear
  <2>. QED BY <2>1, <2>2, <1>1 DEF InWindow, Ahead
<1>3. PopsNear'
  <2>. SUFFICES ASSUME NEW t \in Task, ~stopped'[t], popping'[t] < UINT32_MAX
                PROVE  InWindow(Ahead(popping[t]))'
      BY DEF PopsNear
  <2>1. ~stopped[t] /\ popping'[t] = popping[t]
      BY DEF QuietStep
  <2>2. InWindow(Ahead(popping[t]))
      BY <2>1 DEF SInv, PopsNear
  <2>. QED BY <2>1, <2>2, <1>1 DEF InWindow, Ahead
<1>4. WakeupNear'
    BY <1>1 DEF SInv, WakeupNear, InWindow, Ahead, QuietStep
<1>5. Covered'
  <2>. SUFFICES ASSUME NEW t \in Task \ (waking' \cup {resumed'}),
                       status'[t] = "WAITING", Timed(t)'
                PROVE  wakeup_tick' # UINT32_MAX /\ Diff(wakeup_tick', tick') <= Diff(wake'[t], tick')
      BY DEF Covered, Ahead
  <2>1. /\ t \in Task \ (waking \cup {resumed}) /\ status[t] = "WAITING" /\ Timed(t)
        /\ wake'[t] = wake[t]
      BY DEF QuietStep
  <2>2. wakeup_tick # UINT32_MAX /\ Ahead(wakeup_tick) <= Ahead(wake[t])
      BY <2>1 DEF SInv, Covered
  <2>. QED BY <2>1, <2>2 DEF QuietStep, Ahead
<1>. QED BY <1>2, <1>3, <1>4, <1>5

\* A walk wakes a task: it waits for nothing any more.
LEMMA WakeSleepers ==
    ASSUME IInv, SInv, WakeNext
    PROVE  SInv'
<1>. USE DEF IInv
<1>1. PICK t \in waking :
          /\ status' = [status EXCEPT ![t] = "READY"]
          /\ reason' = [reason EXCEPT ![t] = "NONE"]
          /\ wake' = [wake EXCEPT ![t] = UINT32_MAX]
          /\ waking' = waking \ {t}
          /\ UNCHANGED <<stopped, priority, popping, clock, switching, pc, cpu, q>>
    BY DEF WakeNext, task_change_state
<1>2. /\ t \in Task
      /\ \A u \in Task : /\ status'[u] = IF u = t THEN "READY" ELSE status[u]
                         /\ reason'[u] = IF u = t THEN "NONE" ELSE reason[u]
                         /\ wake'[u] = IF u = t THEN UINT32_MAX ELSE wake[u]
    BY <1>1 DEF TypeOK
<1>3. QuietStep
    BY <1>1, <1>2 DEF QuietStep, Timed, Scheduled, clock, cpu
<1>4. FreeNotPopping' /\ CallerRuns' /\ ResumeAllowed'
    BY <1>1, <1>2 DEF SInv, FreeNotPopping, CallerRuns, ResumeAllowed, cpu
<1>. QED BY <1>3, <1>4, QuietKeeps DEF SInv

\* The thread between calls.
LEMMA SchedulerSleepers ==
    ASSUME IInv, SInv, Scheduler, waking = {}, resumed = NoTask
    PROVE  SInv'
<1>. USE DEF IInv
<1>1. /\ UNCHANGED <<tick, wakeup_tick, reason, wake, popping, stopped, resumed>>
      /\ \A t \in Task : status'[t] # status[t] =>
             status'[t] \in {"DORMANT", "RUNNING", "READY"}
             /\ (status[t] = "DORMANT" => status'[t] = "DORMANT")
             /\ status[t] # "FREE" /\ status'[t] # "FREE"
  <2>1. CASE NothingReady \/ Pick \/ SwitchContext \/ Dispatch \/ VmReturn
      BY <2>1 DEF NothingReady, Pick, SwitchContext, Dispatch, VmReturn, tasks, clock, cpu
  <2>2. CASE task_cleanup_if_stopped
    <3>1. q_ready_ \in Task /\ status[q_ready_] # "DORMANT" /\ status[q_ready_] # "FREE"
        BY <2>2, HeadReady DEF task_cleanup_if_stopped
    <3>2. status' = [status EXCEPT ![q_ready_] = "DORMANT"]
        BY <2>2, <3>1 DEF task_cleanup_if_stopped, task_change_state
    <3>. QED BY <2>2, <3>1, <3>2 DEF task_cleanup_if_stopped, clock, TypeOK
  <2>3. CASE EnterTask
      BY <2>3 DEF EnterTask, PickedInUse, TypeOK
  <2>4. CASE LeaveTask
    <3>1. cur \in Task /\ status[cur] # "FREE"
        BY <2>4 DEF LeaveTask, PickedInUse
    <3>2. \/ status' = [status EXCEPT ![cur] = "DORMANT"]
          \/ status' = [status EXCEPT ![cur] = IF status[cur] = "RUNNING" THEN "READY" ELSE status[cur]]
        BY <2>4 DEF LeaveTask, task_change_state
    <3>. QED BY <2>4, <3>1, <3>2 DEF LeaveTask, clock, TypeOK
  <2>5. CASE Requeue
    <3>1. cur \in Task
        BY <2>5 DEF Requeue, PickedInUse
    <3>2. \/ status' = [status EXCEPT ![cur] = "READY"] /\ status[cur] = "READY"
          \/ status' = status
        BY <2>5 DEF Requeue, task_change_state
    <3>. QED BY <2>5, <3>1, <3>2 DEF Requeue, clock, TypeOK
  <2>. QED BY <2>1, <2>2, <2>3, <2>4, <2>5 DEF Scheduler
<1>2. pc' = "call" => ~stopped'[cur']
  <2>1. CASE Dispatch
      BY <2>1 DEF Dispatch, Boundary, tasks, cpu
  <2>. QED BY <2>1 DEF Scheduler, NothingReady, Pick, SwitchContext, VmReturn, EnterTask,
                       task_cleanup_if_stopped, LeaveTask, Requeue, After
<1>3. QuietStep
    BY <1>1, TaskAssumption DEF QuietStep, Timed, Scheduled
<1>4. FreeNotPopping' /\ CallerRuns' /\ ResumeAllowed'
    BY <1>1, <1>2 DEF SInv, FreeNotPopping, CallerRuns, ResumeAllowed
<1>. QED BY <1>3, <1>4, QuietKeeps DEF SInv

\* What a tick does to a distance in the window, and to one that Horizon says
\* is not yet at the window's end.
LEMMA TickAhead ==
    ASSUME NEW w \in Ticks, tick \in Ticks, InWindow(Ahead(w))
    PROVE  /\ Diff(w, (tick + 1) % TickRange) = Ahead(w) - 1 /\ Ahead(w) \in Int
           /\ (\A n \in Delays : Ahead(w) > n + 1 - Half) => InWindow(Ahead(w) - 1)
           /\ Ahead(w) - 1 > 0 => InWindow(Ahead(w) - 1)
<1>. DEFINE a == Ahead(w)
<1>1. a \in Int
    BY DiffValue DEF Ahead
<1>2. (\A n \in Delays : a > n - Half) /\ (\E n \in Delays : a <= n)
    BY DEF InWindow
<1>3. Ahead(w) = Diff(w, tick)
    BY DEF Ahead
<1>. HIDE DEF a
<1>4. /\ \A n \in Delays : n \in Int /\ 0 <= n /\ n < Half
      /\ Half \in Int /\ TickRange \in Int /\ 2 * Half <= TickRange
    BY HalfRange
<1>5. a > Half - TickRange
    BY <1>1, <1>2, <1>4
<1>6. Diff(w, (tick + 1) % TickRange) = Ahead(w) - 1
    BY <1>3, <1>5, DiffNext DEF a
<1>7. \E n \in Delays : a - 1 <= n
    BY <1>1, <1>2, <1>4
<1>8. ASSUME \A n \in Delays : a > n + 1 - Half PROVE \A n \in Delays : a - 1 > n - Half
    BY <1>8, <1>1, <1>4
<1>9. ASSUME a - 1 > 0 PROVE \A n \in Delays : a - 1 > n - Half
    BY <1>9, <1>1, <1>4
<1>. QED BY <1>1, <1>6, <1>7, <1>8, <1>9 DEF InWindow, a

\* The walk in mrb_tick() finds the least of the deadlines it leaves.
LEMMA SoonestLeast ==
    ASSUME NEW now \in Ticks, NEW S \in SUBSET Ticks, \A w \in S : Diff(w, now) > 0
    PROVE  /\ S # {} => Soonest(S) # {}
           /\ \A w \in Soonest(S), v \in S : Diff(w, now) <= Diff(v, now)
<1>1. \A w \in S : Diff(w, now) \in Nat /\ Diff(w, now) > 0 /\ Diff(w, now) < Half
  <2>1. \A w \in S : Diff(w, now) \in Int /\ Diff(w, now) < Half
      BY DiffValue
  <2>. QED BY <2>1
<1>2. \A w, v \in S : Diff(w, v) = Diff(w, now) - Diff(v, now)
  <2>. SUFFICES ASSUME NEW w \in S, NEW v \in S
                PROVE  Diff(w, v) = Diff(w, now) - Diff(v, now)
      OBVIOUS
  <2>1. Half \in Int
      BY HalfRange
  <2>2. -Half < Diff(w, now) - Diff(v, now) /\ Diff(w, now) - Diff(v, now) < Half
      BY <1>1, <2>1
  <2>. QED BY <2>2, DiffFrom
<1>3. ASSUME S # {} PROVE Soonest(S) # {}
  <2>. DEFINE D == {Diff(w, now) : w \in S}
  <2>1. D \subseteq Nat /\ D # {}
      BY <1>1, <1>3
  <2>2. PICK x \in D : \A y \in D : ~(<<y, x>> \in OpToRel(<, Nat))
      BY <2>1, WFMin, NatLessThanWellFounded
  <2>3. \A y \in D : ~(y < x)
      BY <2>1, <2>2 DEF OpToRel
  <2>4. PICK w \in S : x = Diff(w, now)
      OBVIOUS
  <2>5. \A v \in S : Diff(w, v) <= 0
      BY <1>1, <1>2, <2>3, <2>4
  <2>. QED BY <2>5 DEF Soonest
<1>4. ASSUME NEW w \in Soonest(S), NEW v \in S PROVE Diff(w, now) <= Diff(v, now)
  <2>1. w \in S /\ Diff(w, v) <= 0
      BY DEF Soonest
  <2>. QED BY <2>1, <1>1, <1>2
<1>. QED BY <1>3, <1>4

\* The interrupt, between two of its walks.
LEMMA TickSleepers ==
    ASSUME IInv, SInv, mrb_tick, waking = {}
    PROVE  SInv'
<1>. USE DEF IInv
<1>. DEFINE now   == (tick + 1) % TickRange
            walk  == wakeup_tick # UINT32_MAX /\ Diff(wakeup_tick, now) <= 0
            timed == {t \in Waiting : Timed(t)}
            due   == {t \in timed : Diff(wake[t], now) <= 0}
            later == {wake[t] : t \in timed \ due}
<1>1. /\ tick \in Ticks /\ now \in Ticks /\ wakeup_tick \in Ticks
      /\ \A t \in Task : wake[t] \in Ticks
      /\ \A t \in Task : popping[t] < UINT32_MAX => popping[t] \in Ticks
  <2>1. now \in Ticks
      BY TickTypes
  <2>2. \A t \in Task : popping[t] < UINT32_MAX => popping[t] \in Ticks
      BY HalfRange DEF TypeOK, NotPopping
  <2>. QED BY <2>1, <2>2 DEF TypeOK
<1>2. /\ Horizon /\ tick' = now /\ waking' = IF walk THEN due ELSE {}
      /\ wakeup_tick' \in IF ~walk THEN {wakeup_tick}
                          ELSE IF later = {} THEN {UINT32_MAX}
                          ELSE IF Soonest(later) # {} THEN Soonest(later)
                          ELSE later
      /\ UNCHANGED <<tasks, pc, cpu>>
    BY DEF mrb_tick
<1>3. UNCHANGED <<status, stopped, reason, wake, popping, pc, cur, resumed>>
    BY <1>2 DEF tasks, cpu
<1>4. Waiting = {t \in Task : status[t] = "WAITING"}
    BY WaitingTasks
<1>. HIDE DEF now
<1>5. ASSUME NEW t \in Task, Timed(t), Scheduled(t)
      PROVE  /\ Diff(wake[t], now) = Ahead(wake[t]) - 1 /\ Ahead(wake[t]) \in Int
             /\ InWindow(Diff(wake[t], now))
  <2>1. InWindow(Ahead(wake[t])) /\ wake[t] \in Ticks
      BY <1>1, <1>5 DEF SInv, DeadlinesNear
  <2>2. \A n \in Delays : Ahead(wake[t]) > n + 1 - Half
      BY <1>2, <1>5 DEF Horizon, Scheduled, Ahead, Half
  <2>. QED BY <1>1, <2>1, <2>2, TickAhead DEF now
<1>6. ASSUME NEW t \in Task, ~stopped[t], popping[t] < UINT32_MAX
      PROVE  InWindow(Diff(popping[t], now))
  <2>1. InWindow(Ahead(popping[t])) /\ popping[t] \in Ticks
      BY <1>1, <1>6 DEF SInv, PopsNear
  <2>2. \A n \in Delays : Ahead(popping[t]) > n + 1 - Half
      BY <1>2, <1>6 DEF Horizon, Ahead, Half
  <2>. QED BY <1>1, <2>1, <2>2, TickAhead DEF now
<1>7. wakeup_tick # UINT32_MAX =>
          /\ Diff(wakeup_tick, now) = Ahead(wakeup_tick) - 1 /\ Ahead(wakeup_tick) \in Int
          /\ ~walk => InWindow(Diff(wakeup_tick, now))
  <2>. SUFFICES ASSUME wakeup_tick # UINT32_MAX
                PROVE  /\ Diff(wakeup_tick, now) = Ahead(wakeup_tick) - 1
                       /\ Ahead(wakeup_tick) \in Int
                       /\ ~walk => InWindow(Diff(wakeup_tick, now))
      OBVIOUS
  <2>1. InWindow(Ahead(wakeup_tick))
      BY DEF SInv, WakeupNear
  <2>. QED BY <1>1, <2>1, TickAhead DEF now
<1>8. timed \subseteq {t \in Task : status[t] = "WAITING" /\ Timed(t) /\ Scheduled(t)}
    BY <1>4 DEF Scheduled
<1>9. \A w \in later : w \in Ticks /\ InWindow(Diff(w, now)) /\ Diff(w, now) > 0
  <2>. SUFFICES ASSUME NEW t \in timed \ due
                PROVE  wake[t] \in Ticks /\ InWindow(Diff(wake[t], now)) /\ Diff(wake[t], now) > 0
      OBVIOUS
  <2>1. t \in Task /\ Timed(t) /\ Scheduled(t)
      BY <1>8
  <2>2. ~(Diff(wake[t], now) <= 0)
      OBVIOUS
  <2>3. wake[t] \in Ticks /\ InWindow(Diff(wake[t], now))
        /\ Diff(wake[t], now) = Ahead(wake[t]) - 1 /\ Ahead(wake[t]) \in Int
      BY <1>1, <1>5, <2>1
  <2>. QED BY <2>2, <2>3
<1>10. /\ later # {} => Soonest(later) # {}
       /\ \A w \in Soonest(later), v \in later : Diff(w, now) <= Diff(v, now)
  <2>. HIDE DEF later
  <2>1. later \in SUBSET Ticks /\ \A w \in later : Diff(w, now) > 0
      BY <1>9
  <2>. QED BY <1>1, <2>1, SoonestLeast
<1>11. walk => /\ later = {} => wakeup_tick' = UINT32_MAX
               /\ later # {} => wakeup_tick' \in later
                                /\ \A v \in later : Diff(wakeup_tick', now) <= Diff(v, now)
  <2>. HIDE DEF later, walk
  <2>1. Soonest(later) \subseteq later
      BY DEF Soonest
  <2>. QED BY <1>2, <1>10, <2>1
<1>12. DeadlinesNear'
    BY <1>2, <1>3, <1>5 DEF DeadlinesNear, Ahead, Timed, Scheduled, InWindow
<1>13. PopsNear'
    BY <1>2, <1>3, <1>6 DEF PopsNear, Ahead, InWindow
<1>14. WakeupNear'
  <2>. SUFFICES ASSUME wakeup_tick' # UINT32_MAX PROVE InWindow(Diff(wakeup_tick', now))
      BY <1>2 DEF WakeupNear, Ahead, InWindow
  <2>1. CASE walk
    <3>. HIDE DEF later, walk
    <3>. QED BY <2>1, <1>9, <1>11
  <2>2. CASE ~walk
      BY <2>2, <1>2, <1>7
  <2>. QED BY <2>1, <2>2
<1>15. Covered'
  <2>. SUFFICES ASSUME NEW t \in Task \ (waking' \cup {resumed}), status[t] = "WAITING", Timed(t)
                PROVE  wakeup_tick' # UINT32_MAX /\ Diff(wakeup_tick', now) <= Diff(wake[t], now)
      BY <1>2, <1>3 DEF Covered, Ahead, Timed
  <2>1. CASE walk
    <3>1. t \in timed \ due
        BY <2>1, <1>2, <1>4
    <3>2. wake[t] \in later
        BY <3>1
    <3>3. UINT32_MAX \notin later
        BY <1>8 DEF Timed
    <3>. HIDE DEF later, walk
    <3>. QED BY <2>1, <1>11, <3>2, <3>3
  <2>2. CASE ~walk
    <3>1. wakeup_tick # UINT32_MAX /\ Ahead(wakeup_tick) <= Ahead(wake[t]) /\ wakeup_tick' = wakeup_tick
        BY <2>2, <1>2 DEF SInv, Covered
    <3>2. Scheduled(t)
        BY DEF Scheduled
    <3>3. /\ Diff(wake[t], now) = Ahead(wake[t]) - 1 /\ Ahead(wake[t]) \in Int
          /\ Diff(wakeup_tick, now) = Ahead(wakeup_tick) - 1 /\ Ahead(wakeup_tick) \in Int
        BY <1>5, <1>7, <3>1, <3>2
    <3>. QED BY <3>1, <3>3
  <2>. QED BY <2>1, <2>2
<1>16. FreeNotPopping' /\ CallerRuns' /\ ResumeAllowed'
    BY <1>3 DEF SInv, FreeNotPopping, CallerRuns, ResumeAllowed
<1>. QED BY <1>12, <1>13, <1>14, <1>15, <1>16 DEF SInv

\* The second half of Task#resume.
LEMMA ResumeSleepers ==
    ASSUME IInv, SInv, ResumeWakeup, waking = {}
    PROVE  SInv'
<1>. USE DEF IInv
<1>1. /\ resumed \in Task /\ resumed' = NoTask /\ NoTask \notin Task
      /\ wakeup_tick' = IF Timed(resumed) THEN Earliest(wake[resumed]) ELSE wakeup_tick
      /\ UNCHANGED <<status, stopped, reason, wake, popping, tick, cur, waking>>
      /\ pc' # "call"
    BY TaskAssumption DEF ResumeWakeup, TypeOK, Returns, tasks
<1>2. wake[resumed] \in Ticks /\ tick \in Ticks /\ wakeup_tick \in Ticks
    BY <1>1 DEF TypeOK
<1>3. Scheduled(resumed)
    BY <1>1 DEF SInv, ResumeAllowed, Scheduled
<1>4. \A t \in Task \ {resumed} : status[t] = "WAITING" /\ Timed(t) =>
          wakeup_tick # UINT32_MAX /\ Ahead(wakeup_tick) <= Ahead(wake[t])
    BY <1>1 DEF SInv, Covered
<1>5. CASE ~Timed(resumed)
  <2>1. wakeup_tick' = wakeup_tick
      BY <1>1, <1>5
  <2>2. DeadlinesNear' /\ PopsNear' /\ WakeupNear'
      BY <1>1, <2>1 DEF SInv, DeadlinesNear, PopsNear, WakeupNear, Ahead, InWindow, Timed, Scheduled
  <2>3. Covered'
      BY <1>1, <1>4, <1>5, <2>1 DEF Covered, Ahead, Timed
  <2>. QED BY <1>1, <2>2, <2>3 DEF SInv, FreeNotPopping, CallerRuns, ResumeAllowed
<1>6. CASE Timed(resumed)
  <2>. DEFINE e == Earliest(wake[resumed])
  <2>1. wakeup_tick' = e
      BY <1>1, <1>6
  <2>2. InWindow(Ahead(wake[resumed])) /\ wake[resumed] # UINT32_MAX
      BY <1>1, <1>3, <1>6 DEF SInv, DeadlinesNear, Timed
  <2>3. /\ e # UINT32_MAX /\ InWindow(Ahead(e)) /\ Ahead(e) <= Ahead(wake[resumed])
        /\ wakeup_tick # UINT32_MAX => Ahead(e) <= Ahead(wakeup_tick)
      BY <1>2, <2>2, EarliestCovers DEF SInv
  <2>4. e \in Ticks
      BY <1>2, TickTypes
  <2>. HIDE DEF e
  <2>5. DeadlinesNear' /\ PopsNear'
      BY <1>1 DEF SInv, DeadlinesNear, PopsNear, Ahead, InWindow, Timed, Scheduled
  <2>6. WakeupNear'
      BY <1>1, <2>1, <2>3 DEF WakeupNear, Ahead, InWindow
  <2>7. \A t \in Task : status[t] = "WAITING" /\ Timed(t) => Ahead(e) <= Ahead(wake[t])
    <3>. SUFFICES ASSUME NEW t \in Task, status[t] = "WAITING", Timed(t), t # resumed
                  PROVE  Ahead(e) <= Ahead(wake[t])
        BY <2>3
    <3>1. Ahead(e) <= Ahead(wakeup_tick) /\ Ahead(wakeup_tick) <= Ahead(wake[t])
        BY <1>4, <2>3
    <3>2. Ahead(e) \in Int /\ Ahead(wakeup_tick) \in Int /\ Ahead(wake[t]) \in Int
        BY <1>2, <2>4, DiffValue DEF Ahead, TypeOK
    <3>. QED BY <3>1, <3>2
  <2>8. Covered'
      BY <1>1, <2>1, <2>3, <2>7 DEF Covered, Ahead, Timed
  <2>. QED BY <1>1, <2>5, <2>6, <2>8 DEF SInv, FreeNotPopping, CallerRuns, ResumeAllowed
<1>. QED BY <1>5, <1>6

\* Sleep, join and pop: the running task waits for the deadline w, if it is one.
LEMMA ParkSleepers ==
    ASSUME IInv, SInv, pc = "call", Returns, waking = {}, resumed = NoTask,
           NEW r \in {"SLEEP", "JOIN", "QUEUE"}, NEW u, NEW w \in Ticks,
           w # UINT32_MAX => InWindow(Ahead(w)),
           Park("WAITING", r, u, w),
           UNCHANGED popping \/ popping' = [popping EXCEPT ![cur] = w]
    PROVE  SInv'
<1>. USE DEF IInv
<1>. DEFINE e == Earliest(w)
<1>1. /\ cur \in Task /\ status[cur] # "FREE" /\ NoTask \notin Task
      /\ status' = [status EXCEPT ![cur] = "WAITING"]
      /\ reason' = [reason EXCEPT ![cur] = r]
      /\ wake' = [wake EXCEPT ![cur] = w]
      /\ wakeup_tick' = e
      /\ UNCHANGED <<stopped, tick, cur, resumed, waking>>
      /\ pc' # "call"
    BY TaskAssumption DEF PickedInUse, Park, task_change_state, cpu, Returns
<1>2. \A t \in Task : /\ status'[t] = IF t = cur THEN "WAITING" ELSE status[t]
                      /\ reason'[t] = IF t = cur THEN r ELSE reason[t]
                      /\ wake'[t] = IF t = cur THEN w ELSE wake[t]
                      /\ popping'[t] = popping[t] \/ (t = cur /\ popping'[t] = w)
    BY <1>1 DEF TypeOK
<1>3. tick \in Ticks /\ wakeup_tick \in Ticks /\ e \in Ticks
    BY TickTypes DEF TypeOK
<1>4. /\ e # UINT32_MAX => InWindow(Ahead(e))
      /\ w # UINT32_MAX => e # UINT32_MAX /\ Ahead(e) <= Ahead(w)
      /\ wakeup_tick # UINT32_MAX => e # UINT32_MAX /\ Ahead(e) <= Ahead(wakeup_tick)
    BY <1>3, EarliestCovers DEF SInv
<1>. HIDE DEF e
<1>5. \A v : Ahead(v)' = Diff(v, tick) /\ Ahead(v) = Diff(v, tick)
    BY <1>1 DEF Ahead
<1>6. DeadlinesNear'
  <2>. SUFFICES ASSUME NEW t \in Task, Timed(t)', Scheduled(t)'
                PROVE  InWindow(Diff(wake'[t], tick))
      BY <1>1 DEF DeadlinesNear, Ahead, InWindow
  <2>1. CASE t = cur
      BY <1>2, <2>1 DEF Timed, Ahead
  <2>2. CASE t # cur
      BY <1>2, <2>2 DEF Timed, Scheduled, SInv, DeadlinesNear, Ahead
  <2>. QED BY <2>1, <2>2
<1>7. PopsNear'
  <2>. SUFFICES ASSUME NEW t \in Task, ~stopped[t], popping'[t] < UINT32_MAX
                PROVE  InWindow(Diff(popping'[t], tick))
      BY <1>1 DEF PopsNear, Ahead, InWindow
  <2>1. CASE popping'[t] = popping[t]
      BY <2>1 DEF SInv, PopsNear, Ahead
  <2>2. CASE popping'[t] = w
    <3>1. w # UINT32_MAX
        BY <2>2, HalfRange
    <3>. QED BY <2>2, <3>1 DEF Ahead
  <2>. QED BY <1>2, <2>1, <2>2
<1>8. WakeupNear'
    BY <1>1, <1>4 DEF WakeupNear, Ahead, InWindow
<1>9. Covered'
  <2>. SUFFICES ASSUME NEW t \in Task, status'[t] = "WAITING", Timed(t)'
                PROVE  e # UINT32_MAX /\ Diff(e, tick) <= Diff(wake'[t], tick)
      BY <1>1 DEF Covered, Ahead
  <2>1. CASE t = cur
      BY <1>2, <1>4, <2>1 DEF Timed, Ahead
  <2>2. CASE t # cur
    <3>1. wake'[t] = wake[t] /\ wakeup_tick # UINT32_MAX /\ Ahead(wakeup_tick) <= Ahead(wake[t])
        BY <1>1, <1>2, <2>2 DEF Timed, SInv, Covered
    <3>2. e # UINT32_MAX /\ Ahead(e) <= Ahead(wakeup_tick)
        BY <1>4, <3>1
    <3>3. Ahead(e) \in Int /\ Ahead(wakeup_tick) \in Int /\ Ahead(wake[t]) \in Int
        BY <1>3, DiffValue DEF Ahead, TypeOK
    <3>4. Ahead(e) <= Ahead(wake[t])
        BY <3>1, <3>2, <3>3
    <3>. QED BY <3>1, <3>2, <3>4 DEF Ahead
  <2>. QED BY <2>1, <2>2
<1>10. FreeNotPopping' /\ CallerRuns' /\ ResumeAllowed'
    BY <1>1, <1>2 DEF SInv, FreeNotPopping, CallerRuns, ResumeAllowed
<1>. QED BY <1>6, <1>7, <1>8, <1>9, <1>10 DEF SInv

\* Queue#pop, first try and retries, with a deadline in the window or none.
LEMMA PopSleepers ==
    ASSUME IInv, SInv, pc = "call", Returns, waking = {}, resumed = NoTask,
           NEW d \in Ticks, d # UINT32_MAX => InWindow(Ahead(d)), queue_pop_try(d)
    PROVE  SInv'
<1>. USE DEF IInv
<1>1. CASE popping' = [popping EXCEPT ![cur] = d] /\ Park("WAITING", "QUEUE", NoTask, d)
    BY <1>1, ParkSleepers
<1>2. CASE /\ popping' = [popping EXCEPT ![cur] = NotPopping]
           /\ UNCHANGED <<status, stopped, reason, wake, tick, wakeup_tick, cur, resumed, waking>>
  <2>1. cur \in Task /\ pc' # "call"
      BY DEF PickedInUse, Returns
  <2>2. \A t \in Task : popping'[t] = IF t = cur THEN NotPopping ELSE popping[t]
      BY <1>2 DEF TypeOK
  <2>3. ~(NotPopping < UINT32_MAX)
      BY HalfRange DEF NotPopping
  <2>4. QuietStep
      BY <1>2, <2>2, <2>3, TaskAssumption DEF QuietStep, Timed, Scheduled
  <2>5. FreeNotPopping' /\ CallerRuns' /\ ResumeAllowed'
      BY <1>2, <2>1, <2>2 DEF SInv, FreeNotPopping, CallerRuns, ResumeAllowed
  <2>. QED BY <2>4, <2>5, QuietKeeps DEF SInv
<1>. QED BY <1>1, <1>2 DEF queue_pop_try, clock, cpu

\* A call that leaves the waiting tasks, and their deadlines, as they are.
LEMMA StaySleepers ==
    ASSUME SInv, waking = {}, resumed = NoTask, pc' # "call",
           UNCHANGED <<status, reason, wake, popping, tick, wakeup_tick, resumed>>,
           \A t \in Task : stopped[t] => stopped'[t] \/ popping[t] = NotPopping
    PROVE  SInv'
<1>1. NoTask \notin Task /\ ~(NotPopping < UINT32_MAX)
    BY TaskAssumption, HalfRange DEF NotPopping
<1>2. QuietStep
    BY <1>1 DEF QuietStep, Timed, Scheduled
<1>3. FreeNotPopping' /\ CallerRuns' /\ ResumeAllowed'
    BY DEF SInv, FreeNotPopping, CallerRuns, ResumeAllowed
<1>. QED BY <1>2, <1>3, QuietKeeps DEF SInv

\* A call that moves task u to another list, where it does not sleep.
LEMMA MoveSleepers ==
    ASSUME TypeOK, SInv, waking = {}, resumed = NoTask, NEW u \in Task, status[u] # "FREE",
           NEW s \in {"SUSPENDED", "DORMANT"}, s = "SUSPENDED" => "suspend" \in Calls,
           status' = [status EXCEPT ![u] = s], pc' # "call",
           UNCHANGED <<reason, wake, popping, tick, wakeup_tick, resumed>>,
           \A t \in Task : stopped[t] => stopped'[t]
    PROVE  SInv'
<1>1. NoTask \notin Task
    BY TaskAssumption
<1>2. \A t \in Task : status'[t] = IF t = u THEN s ELSE status[t]
    BY DEF TypeOK
<1>3. QuietStep
    BY <1>1, <1>2 DEF QuietStep, Timed, Scheduled
<1>4. FreeNotPopping' /\ CallerRuns' /\ ResumeAllowed'
    BY <1>2 DEF SInv, FreeNotPopping, CallerRuns, ResumeAllowed
<1>. QED BY <1>3, <1>4, QuietKeeps DEF SInv

\* The calls of one step.
LEMMA WholeSleepers ==
    ASSUME DelaysApart, IInv, SInv, Whole, Returns, waking = {}, resumed = NoTask
    PROVE  SInv'
<1>. USE DEF IInv
<1>0. /\ NoTask \notin Task /\ ~(NotPopping < UINT32_MAX) /\ pc' # "call" /\ tick \in Ticks
      /\ \A n \in Delays : Deadline(n) \in Ticks /\ InWindow(Ahead(Deadline(n)))
      /\ UINT32_MAX \in Ticks
    BY TaskAssumption, HalfRange, DeadlineNear, TickTypes DEF NotPopping, Returns, TypeOK
<1>1. ASSUME NEW t \in Task, NEW p \in Prio, task_create_common(t, p) PROVE SInv'
  <2>1. /\ status[t] = "FREE"
        /\ status' = [status EXCEPT ![t] = "READY"]
        /\ stopped' = [stopped EXCEPT ![t] = FALSE]
        /\ UNCHANGED <<reason, target, wake, popping, tick, wakeup_tick, resumed, waking>>
      BY <1>1 DEF task_create_common, clock, cpu
  <2>2. \A u \in Task : /\ status'[u] = IF u = t THEN "READY" ELSE status[u]
                        /\ stopped'[u] = IF u = t THEN FALSE ELSE stopped[u]
      BY <2>1 DEF TypeOK
  <2>3. QuietStep
      BY <1>0, <2>1, <2>2 DEF QuietStep, Timed, Scheduled, SInv, FreeNotPopping
  <2>4. FreeNotPopping' /\ CallerRuns' /\ ResumeAllowed'
      BY <1>0, <2>1, <2>2 DEF SInv, FreeNotPopping, CallerRuns, ResumeAllowed
  <2>. QED BY <2>3, <2>4, QuietKeeps DEF SInv
<1>2. ASSUME NEW t \in Task, NEW p \in Prio, mrb_task_set_priority(t, p) PROVE SInv'
    BY <1>0, <1>2, StaySleepers DEF mrb_task_set_priority, clock, cpu
<1>3. ASSUME NEW n \in Delays, sleep_us_impl(n) PROVE SInv'
    BY <1>0, <1>3, ParkSleepers DEF sleep_us_impl, MayPark
<1>4. CASE BlockingSleep \/ mrb_task_s_pass \/ Compute \/ CallC
    BY <1>0, <1>4, StaySleepers DEF BlockingSleep, mrb_task_s_pass, Compute, CallC, tasks, clock, cpu
<1>5. CASE SleepForever
  <2>1. cur \in Task /\ status[cur] # "FREE"
      BY <1>5, CallSite DEF SleepForever
  <2>. QED BY <1>0, <1>5, <2>1, MoveSleepers
           DEF SleepForever, MayPark, May, task_change_state, clock, cpu
<1>6. CASE Finish
  <2>1. stopped' = [stopped EXCEPT ![cur] = TRUE]
      BY <1>6 DEF Finish
  <2>2. \A t \in Task : stopped[t] => stopped'[t]
      BY <2>1 DEF TypeOK
  <2>. QED BY <1>0, <1>6, <2>2, StaySleepers DEF Finish, clock, cpu
<1>7. ASSUME NEW u \in Task, mrb_task_join(u) PROVE SInv'
    BY <1>0, <1>7, ParkSleepers DEF mrb_task_join, MayPark
<1>8. ASSUME NEW u \in Task, suspend_task_internal(u) PROVE SInv'
    BY <1>0, <1>8, MoveSleepers
       DEF suspend_task_internal, May, task_change_state, clock, cpu
<1>9. ASSUME NEW u \in Task, terminate_task_internal(u) PROVE SInv'
  <2>1. stopped' = [stopped EXCEPT ![u] = TRUE]
      BY <1>9 DEF terminate_task_internal
  <2>2. \A t \in Task : stopped[t] => stopped'[t]
      BY <2>1 DEF TypeOK
  <2>. QED BY <1>0, <1>9, <2>2, MoveSleepers
           DEF terminate_task_internal, task_change_state, clock, cpu
<1>10. ASSUME NEW u \in Task, mrb_close_task(u) PROVE SInv'
  <2>1. /\ status' = [status EXCEPT ![u] = "FREE"]
        /\ stopped' = [stopped EXCEPT ![u] = FALSE]
        /\ reason' = [reason EXCEPT ![u] = "NONE"]
        /\ wake' = [wake EXCEPT ![u] = UINT32_MAX]
        /\ popping' = [popping EXCEPT ![u] = NotPopping]
        /\ UNCHANGED <<tick, wakeup_tick, resumed, cur>>
      BY <1>10 DEF mrb_close_task, clock, cpu
  <2>2. \A t \in Task : /\ status'[t] = IF t = u THEN "FREE" ELSE status[t]
                        /\ stopped'[t] = IF t = u THEN FALSE ELSE stopped[t]
                        /\ reason'[t] = IF t = u THEN "NONE" ELSE reason[t]
                        /\ wake'[t] = IF t = u THEN UINT32_MAX ELSE wake[t]
                        /\ popping'[t] = IF t = u THEN NotPopping ELSE popping[t]
      BY <2>1 DEF TypeOK
  <2>3. \A t \in Task : Timed(t)' => t # u /\ Timed(t) /\ wake'[t] = wake[t]
      BY <2>2 DEF Timed
  <2>4. \A t \in Task : Timed(t)' /\ Scheduled(t)' => Scheduled(t)
      BY <2>2, <2>3 DEF Scheduled
  <2>5. \A t \in Task : ~stopped'[t] /\ popping'[t] < UINT32_MAX =>
                           ~stopped[t] /\ popping'[t] = popping[t]
      BY <1>0, <2>2
  <2>6. QuietStep
      BY <1>0, <2>1, <2>2, <2>3, <2>4, <2>5 DEF QuietStep
  <2>7. FreeNotPopping' /\ CallerRuns' /\ ResumeAllowed'
      BY <1>0, <2>1, <2>2 DEF SInv, FreeNotPopping, CallerRuns, ResumeAllowed
  <2>. QED BY <2>6, <2>7, QuietKeeps DEF SInv
<1>11. ASSUME NEW u \in Task, mrb_stop_task(u) PROVE SInv'
  <2>1. stopped' = [stopped EXCEPT ![u] = TRUE]
      BY <1>11 DEF mrb_stop_task
  <2>2. \A t \in Task : stopped[t] => stopped'[t]
      BY <2>1 DEF TypeOK
  <2>. QED BY <1>0, <1>11, <2>2, StaySleepers DEF mrb_stop_task, clock, cpu
<1>12. ASSUME NEW u \in Task, mrb_task_reset_context(u) PROVE SInv'
  <2>1. /\ stopped' = [stopped EXCEPT ![u] = FALSE]
        /\ popping' = [popping EXCEPT ![u] = NotPopping]
        /\ UNCHANGED <<status, reason, wake, tick, wakeup_tick, resumed, waking>>
      BY <1>12 DEF mrb_task_reset_context, clock, cpu
  <2>2. \A t \in Task : /\ stopped'[t] = IF t = u THEN FALSE ELSE stopped[t]
                        /\ popping'[t] = IF t = u THEN NotPopping ELSE popping[t]
      BY <2>1 DEF TypeOK
  <2>3. QuietStep
      BY <1>0, <2>1, <2>2 DEF QuietStep, Timed, Scheduled
  <2>4. FreeNotPopping' /\ CallerRuns' /\ ResumeAllowed'
      BY <1>0, <2>1, <2>2 DEF SInv, FreeNotPopping, CallerRuns, ResumeAllowed
  <2>. QED BY <2>3, <2>4, QuietKeeps DEF SInv
<1>13. CASE mrb_task_queue_push \/ queue_close \/ queue_clear \/ PopAtOnce
    BY <1>0, <1>13, StaySleepers
       DEF mrb_task_queue_push, queue_close, queue_clear, PopAtOnce, tasks, clock, cpu
<1>14. CASE Pop
  <2>1. PICK d \in {UINT32_MAX} \cup {Deadline(n) : n \in Delays} : queue_pop_try(d)
      BY <1>14 DEF Pop
  <2>2. pc = "call" /\ d \in Ticks /\ (d # UINT32_MAX => InWindow(Ahead(d)))
      BY <1>0, <1>14 DEF Pop, MayPark
  <2>. QED BY <2>1, <2>2, PopSleepers
<1>15. CASE PopAgain
  <2>1. pc = "call" /\ cur \in Task /\ popping[cur] \in Ticks /\ queue_pop_try(popping[cur])
      BY <1>15 DEF PopAgain, PickedInUse, TypeOK
  <2>2. popping[cur] # UINT32_MAX => popping[cur] < UINT32_MAX
      BY <2>1, HalfRange
  <2>3. ~stopped[cur]
      BY <2>1 DEF SInv, CallerRuns
  <2>4. popping[cur] # UINT32_MAX => InWindow(Ahead(popping[cur]))
      BY <2>1, <2>2, <2>3 DEF SInv, PopsNear
  <2>. QED BY <2>1, <2>4, PopSleepers
<1>. QED BY <1>1, <1>2, <1>3, <1>4, <1>5, <1>6, <1>7, <1>8, <1>9, <1>10, <1>11, <1>12,
            <1>13, <1>14, <1>15 DEF Whole

\* All calls.
LEMMA CallSleepers ==
    ASSUME DelaysApart, IInv, SInv, Call, waking = {}, resumed = NoTask
    PROVE  SInv'
<1>. USE DEF IInv
<1>1. CASE Whole /\ Returns
    BY <1>1, WholeSleepers
<1>2. ASSUME NEW u \in Task, resume_task_internal(u) PROVE SInv'
  <2>. DEFINE s == IF reason[u] = "NONE" THEN "READY" ELSE "WAITING"
  <2>1. /\ "suspend" \in Calls /\ status[u] = "SUSPENDED"
        /\ status' = [status EXCEPT ![u] = s] /\ resumed' = u
        /\ UNCHANGED <<stopped, reason, wake, popping, tick, wakeup_tick, pc, cur, waking>>
      BY <1>2 DEF resume_task_internal, May, task_change_state, clock
  <2>2. s \in {"READY", "WAITING"} /\ NoTask \notin Task
      BY TaskAssumption
  <2>. HIDE DEF s
  <2>3. \A t \in Task : status'[t] = IF t = u THEN s ELSE status[t]
      BY <2>1 DEF TypeOK
  <2>4. QuietStep
      BY <2>1, <2>2, <2>3 DEF QuietStep, Timed, Scheduled
  <2>5. FreeNotPopping' /\ CallerRuns' /\ ResumeAllowed'
      BY <2>1, <2>2, <2>3 DEF SInv, FreeNotPopping, CallerRuns, ResumeAllowed
  <2>. QED BY <2>4, <2>5, QuietKeeps DEF SInv
<1>3. ASSUME NEW d \in {"run", "once", "pass"}, StartScheduler(d) PROVE SInv'
    BY <1>3, StaySleepers DEF StartScheduler, tasks, clock
<1>. QED BY <1>1, <1>2, <1>3 DEF Call

\* An interpreter with no task has no sleepers.
LEMMA InitSleepers == Init => SInv
<1>1. Init => \A t \in Task : ~Timed(t) /\ ~(popping[t] < UINT32_MAX)
    BY HalfRange DEF Init, Timed, NotPopping
<1>. QED BY <1>1 DEF Init, SInv, DeadlinesNear, PopsNear, WakeupNear, Covered, FreeNotPopping,
                     CallerRuns, ResumeAllowed

\* Every step of the thread and of the interrupt keeps the sleepers covered.
LEMMA NextSleepers ==
    ASSUME DelaysApart
    PROVE  IInv /\ SInv /\ [Next]_vars => SInv'
<1>. SUFFICES ASSUME IInv, SInv, [Next]_vars PROVE SInv'
    OBVIOUS
<1>1. CASE Next
    BY <1>1, WakeSleepers, TickSleepers, ResumeSleepers, SchedulerSleepers, CallSleepers DEF Next
<1>2. CASE UNCHANGED vars
    BY <1>2 DEF vars, SInv, DeadlinesNear, PopsNear, WakeupNear, Covered, FreeNotPopping,
                CallerRuns, ResumeAllowed, Ahead, InWindow, Timed, Scheduled
<1>. QED BY <1>1, <1>2

\* Whatever programs do to their tasks and however the counter wraps,
\* wakeup_tick_ is no later than the deadline of any task that waits for one:
\* mrb_tick() wakes every sleeper at its time.
THEOREM SleepersAreCovered ==
    ASSUME DelaysApart
    PROVE  Spec => []SleepersCovered
<1>1. IInv /\ SInv => SleepersCovered
  <2>. SUFFICES ASSUME IInv, SInv, waking = {}, NEW t \in Task \ {resumed},
                       status[t] = "WAITING", Timed(t)
                PROVE  wakeup_tick # UINT32_MAX /\ Diff(wakeup_tick, wake[t]) <= 0
      BY DEF SleepersCovered
  <2>1. wakeup_tick # UINT32_MAX /\ Ahead(wakeup_tick) <= Ahead(wake[t])
      BY DEF SInv, Covered
  <2>2. InWindow(Ahead(wakeup_tick)) /\ InWindow(Ahead(wake[t]))
      BY <2>1 DEF SInv, WakeupNear, DeadlinesNear, Scheduled
  <2>3. Diff(wakeup_tick, wake[t]) = Ahead(wakeup_tick) - Ahead(wake[t])
        /\ Ahead(wakeup_tick) \in Int /\ Ahead(wake[t]) \in Int
      BY <2>2, WindowDiff DEF IInv, TypeOK
  <2>. QED BY <2>1, <2>3
<1>2. Spec => []SInv
  <2>1. Init => SInv
      BY InitSleepers
  <2>2. IInv /\ SInv /\ [Next]_vars => SInv'
      BY NextSleepers
  <2>. QED BY <2>1, <2>2, Invariance, PTL DEF Spec
<1>. QED BY <1>1, <1>2, Invariance, PTL

-----------------------------------------------------------------------------
(* Joiners, for programs that neither suspend tasks nor stop them from     *)
(* outside: a task that a resume makes wait again, and one that is stopped *)
(* before it runs, are the two ways to miss the end of a task.             *)

NoneSuspended == "suspend" \notin Calls /\ "stop" \notin Calls

Joins(t) == status[t] = "WAITING" /\ reason[t] = "JOIN"
Gone == {"FREE", "DORMANT"}

\* JoinTargetAlive, in the middle of a walk too.
JoinAlive ==
    \A t \in Task \ waking : Joins(t) => target[t] \in Task /\ status[target[t]] \notin Gone

\* A task that has ended is on its way to the end of execute_task(), where the
\* joiners are woken, or has been there.
StoppedEnds ==
    \A t \in Task : stopped[t] =>
        status[t] = "DORMANT" \/ (t = cur /\ pc \in {"run", "return"})

JInv == JoinAlive /\ StoppedEnds /\ resumed = NoTask

\* A step that ends no task and makes none join.
LEMMA KeepJoiners ==
    ASSUME JoinAlive,
           \A t \in Task \ waking' : Joins(t)' => Joins(t) /\ t \notin waking /\ target'[t] = target[t],
           \A t \in Task : status'[t] \in Gone => status[t] \in Gone
    PROVE  JoinAlive'
<1>. SUFFICES ASSUME NEW t \in Task \ waking', Joins(t)'
              PROVE  target'[t] \in Task /\ status'[target'[t]] \notin Gone
    BY DEF JoinAlive, Gone
<1>1. t \in Task \ waking /\ Joins(t) /\ target'[t] = target[t]
    OBVIOUS
<1>2. target[t] \in Task /\ status[target[t]] \notin Gone
    BY <1>1 DEF JoinAlive
<1>. QED BY <1>1, <1>2

\* A step that ends task u and wakes those that joined it.
LEMMA EndJoined ==
    ASSUME IInv, JoinAlive, waking = {}, NEW u \in Task, NEW s \in Gone,
           status' = [status EXCEPT ![u] = s],
           status[u] \notin Gone => waking' = Joiners(u),
           \A t \in Task : t # u => reason'[t] = reason[t] /\ target'[t] = target[t]
    PROVE  JoinAlive'
<1>. SUFFICES ASSUME NEW t \in Task \ waking', Joins(t)'
              PROVE  target'[t] \in Task /\ status'[target'[t]] \notin Gone
    BY DEF JoinAlive, Gone
<1>1. \A v \in Task : status'[v] = IF v = u THEN s ELSE status[v]
    BY DEF IInv, TypeOK
<1>2. t # u
    BY <1>1 DEF Joins, Gone
<1>3. Joins(t) /\ target'[t] = target[t]
    BY <1>1, <1>2 DEF Joins
<1>4. target[t] \in Task /\ status[target[t]] \notin Gone
    BY <1>3 DEF JoinAlive
<1>5. target[t] # u
  <2>. SUFFICES ASSUME target[t] = u PROVE FALSE
      OBVIOUS
  <2>1. t \in Joiners(u)
      BY <1>3, WaitingTasks DEF Joiners, Joins
  <2>. QED BY <1>4, <2>1
<1>. QED BY <1>1, <1>3, <1>4, <1>5

\* A walk wakes a task: it joins nothing any more.
LEMMA WakeJoiners ==
    ASSUME IInv, JInv, WakeNext
    PROVE  JInv'
<1>. USE DEF IInv
<1>1. PICK t \in waking :
          /\ status' = [status EXCEPT ![t] = "READY"]
          /\ reason' = [reason EXCEPT ![t] = "NONE"]
          /\ target' = [target EXCEPT ![t] = NoTask]
          /\ waking' = waking \ {t} /\ FirstWaiting(t, waking)
          /\ UNCHANGED <<stopped, cur, pc, resumed>>
    BY DEF WakeNext, task_change_state, cpu
<1>2. /\ t \in Task
      /\ \A u \in Task : /\ status'[u] = IF u = t THEN "READY" ELSE status[u]
                         /\ reason'[u] = IF u = t THEN "NONE" ELSE reason[u]
                         /\ target'[u] = IF u = t THEN NoTask ELSE target[u]
    BY <1>1 DEF TypeOK
<1>3. t \in Waiting
    BY <1>1, <1>2 DEF FirstWaiting, Waiting, Listed, TypeOK, QueueId
<1>4. status[t] = "WAITING"
    BY <1>3, WaitingTasks
<1>5. JoinAlive'
    BY <1>1, <1>2, KeepJoiners DEF JInv, Joins, Gone
<1>6. StoppedEnds'
    BY <1>1, <1>2, <1>4 DEF JInv, StoppedEnds
<1>. QED BY <1>1, <1>5, <1>6 DEF JInv

\* The scheduler loop: a task ends where execute_task() wakes its joiners, and
\* the loop never meets one that has ended elsewhere.
LEMMA SchedulerJoiners ==
    ASSUME IInv, JInv, Scheduler, waking = {}
    PROVE  JInv'
<1>. USE DEF IInv
<1>1. UNCHANGED <<stopped, reason, target, resumed>>
    BY DEF Scheduler, NothingReady, Pick, task_cleanup_if_stopped, EnterTask, SwitchContext,
           Dispatch, VmReturn, LeaveTask, Requeue, tasks, cpu
<1>2. CASE NothingReady \/ Pick \/ SwitchContext \/ Dispatch \/ VmReturn
  <2>1. UNCHANGED <<status, waking>>
      BY <1>2 DEF NothingReady, Pick, SwitchContext, Dispatch, VmReturn, tasks
  <2>2. JoinAlive'
      BY <1>1, <2>1, KeepJoiners DEF JInv, Joins
  <2>3. ASSUME NEW t \in Task, stopped[t], t = cur, pc \in {"run", "return"}
        PROVE  t = cur' /\ pc' \in {"run", "return"}
      BY <1>2, <2>3 DEF NothingReady, Pick, SwitchContext, Dispatch, VmReturn, Boundary, cpu
  <2>4. StoppedEnds'
      BY <1>1, <2>1, <2>3 DEF JInv, StoppedEnds
  <2>. QED BY <1>1, <2>2, <2>4 DEF JInv
<1>3. CASE task_cleanup_if_stopped
  <2>1. q_ready_ \in Task /\ status[q_ready_] \in {"READY", "RUNNING"}
      BY <1>3, HeadReady DEF task_cleanup_if_stopped
  <2>2. pc = "top" /\ stopped[q_ready_]
      BY <1>3, <2>1 DEF task_cleanup_if_stopped
  <2>. QED BY <2>1, <2>2 DEF JInv, StoppedEnds
<1>4. CASE EnterTask
  <2>1. /\ cur \in Task /\ status[cur] = "READY" /\ pc = "enter" /\ pc' = "switch"
        /\ status' = [status EXCEPT ![cur] = "RUNNING"] /\ UNCHANGED <<cur, waking>>
      BY <1>4 DEF EnterTask, PickedInUse
  <2>2. \A t \in Task : status'[t] = IF t = cur THEN "RUNNING" ELSE status[t]
      BY <2>1 DEF TypeOK
  <2>3. JoinAlive'
      BY <1>1, <2>1, <2>2, KeepJoiners DEF JInv, Joins, Gone
  <2>4. StoppedEnds'
      BY <1>1, <2>1, <2>2 DEF JInv, StoppedEnds
  <2>. QED BY <1>1, <2>3, <2>4 DEF JInv
<1>5. CASE LeaveTask /\ stopped[cur]
  <2>1. /\ cur \in Task /\ status' = [status EXCEPT ![cur] = "DORMANT"]
        /\ waking' = Joiners(cur) /\ pc = "return"
      BY <1>5 DEF LeaveTask, task_change_state, PickedInUse
  <2>2. \A t \in Task : status'[t] = IF t = cur THEN "DORMANT" ELSE status[t]
      BY <2>1 DEF TypeOK
  <2>3. JoinAlive'
      BY <1>1, <2>1, EndJoined DEF JInv, Gone
  <2>4. StoppedEnds'
      BY <1>1, <2>2 DEF JInv, StoppedEnds
  <2>. QED BY <1>1, <2>3, <2>4 DEF JInv
<1>6. CASE LeaveTask /\ ~stopped[cur]
  <2>1. /\ cur \in Task /\ UNCHANGED waking
        /\ status' = [status EXCEPT ![cur] = IF status[cur] = "RUNNING" THEN "READY" ELSE status[cur]]
      BY <1>6 DEF LeaveTask, PickedInUse
  <2>2. \A t \in Task : \/ status'[t] = status[t]
                        \/ t = cur /\ status[t] = "RUNNING" /\ status'[t] = "READY"
      BY <2>1 DEF TypeOK
  <2>3. JoinAlive'
      BY <1>1, <2>1, <2>2, KeepJoiners DEF JInv, Joins, Gone
  <2>4. StoppedEnds'
      BY <1>1, <1>6, <2>2 DEF JInv, StoppedEnds
  <2>. QED BY <1>1, <2>3, <2>4 DEF JInv
<1>7. CASE Requeue
  <2>1. /\ cur \in Task /\ UNCHANGED waking /\ pc = "requeue"
        /\ \/ status' = [status EXCEPT ![cur] = "READY"] /\ status[cur] = "READY"
           \/ status' = status
      BY <1>7 DEF Requeue, PickedInUse, task_change_state
  <2>2. \A t \in Task : status'[t] = status[t]
      BY <2>1 DEF TypeOK
  <2>3. JoinAlive'
      BY <1>1, <2>1, <2>2, KeepJoiners DEF JInv, Joins
  <2>4. StoppedEnds'
      BY <1>1, <2>1, <2>2 DEF JInv, StoppedEnds
  <2>. QED BY <1>1, <2>3, <2>4 DEF JInv
<1>. QED BY <1>2, <1>3, <1>4, <1>5, <1>6, <1>7 DEF Scheduler

\* A call that neither ends a task nor makes one join.
LEMMA StayJoiners ==
    ASSUME JInv, waking = {}, Returns, pc \in {"root", "top", "call"},
           UNCHANGED <<status, reason, target, cur, resumed>>,
           \A t \in Task : stopped'[t] => stopped[t] \/ (t = cur /\ pc = "call")
    PROVE  JInv'
<1>1. JoinAlive'
    BY KeepJoiners DEF JInv, Joins
<1>2. StoppedEnds'
    BY DEF JInv, StoppedEnds, Returns
<1>. QED BY <1>1, <1>2 DEF JInv

\* The running task waits: for a task in use, if it is to join one.
LEMMA ParkJoiners ==
    ASSUME IInv, JInv, waking = {}, Returns, pc = "call",
           NEW r, NEW w, NEW u \in Task \cup {NoTask},
           r = "JOIN" => u \in Task /\ u # cur /\ status[u] \notin Gone,
           Park("WAITING", r, u, w)
    PROVE  JInv'
<1>. USE DEF IInv
<1>1. /\ cur \in Task
      /\ status' = [status EXCEPT ![cur] = "WAITING"]
      /\ reason' = [reason EXCEPT ![cur] = r]
      /\ target' = [target EXCEPT ![cur] = u]
      /\ UNCHANGED <<stopped, cur, resumed, waking>> /\ pc' = "run"
    BY DEF PickedInUse, Park, task_change_state, cpu, Returns
<1>2. \A t \in Task : /\ status'[t] = IF t = cur THEN "WAITING" ELSE status[t]
                      /\ reason'[t] = IF t = cur THEN r ELSE reason[t]
                      /\ target'[t] = IF t = cur THEN u ELSE target[t]
    BY <1>1 DEF TypeOK
<1>3. JoinAlive'
  <2>. SUFFICES ASSUME NEW t \in Task, Joins(t)'
                PROVE  target'[t] \in Task /\ status'[target'[t]] \notin Gone
      BY <1>1 DEF JoinAlive, Gone
  <2>1. CASE t = cur
      BY <1>2, <2>1 DEF Joins
  <2>2. CASE t # cur
    <3>1. target'[t] = target[t] /\ target[t] \in Task /\ status[target[t]] \notin Gone
        BY <1>2, <2>2 DEF Joins, JInv, JoinAlive
    <3>. QED BY <1>2, <3>1 DEF Gone
  <2>. QED BY <2>1, <2>2
<1>4. StoppedEnds'
    BY <1>1, <1>2 DEF JInv, StoppedEnds
<1>. QED BY <1>1, <1>3, <1>4 DEF JInv

\* The calls, and who they end.
LEMMA CallJoiners ==
    ASSUME NoneSuspended, IInv, JInv, Call, waking = {}
    PROVE  JInv'
<1>. USE DEF IInv
<1>1. ASSUME NEW u \in Task, resume_task_internal(u) PROVE FALSE
    BY <1>1 DEF resume_task_internal, May, NoneSuspended
<1>2. ASSUME NEW d \in {"run", "once", "pass"}, StartScheduler(d) PROVE JInv'
  <2>1. /\ UNCHANGED <<status, stopped, reason, target, resumed, cur, waking>>
        /\ pc = "root" /\ pc' = "top"
      BY <1>2 DEF StartScheduler, tasks
  <2>2. JoinAlive'
      BY <2>1, KeepJoiners DEF JInv, Joins
  <2>3. StoppedEnds'
      BY <2>1 DEF JInv, StoppedEnds
  <2>. QED BY <2>1, <2>2, <2>3 DEF JInv
<1>. SUFFICES ASSUME Whole, Returns PROVE JInv'
    BY <1>1, <1>2 DEF Call
<1>3. ASSUME NEW t \in Task, NEW p \in Prio, task_create_common(t, p) PROVE JInv'
  <2>1. /\ status[t] = "FREE" /\ pc \in {"root", "top", "call"}
        /\ status' = [status EXCEPT ![t] = "READY"]
        /\ stopped' = [stopped EXCEPT ![t] = FALSE]
        /\ UNCHANGED <<reason, target, resumed, cur, waking>>
      BY <1>3, CallSite DEF task_create_common, cpu
  <2>2. \A u \in Task : /\ status'[u] = IF u = t THEN "READY" ELSE status[u]
                        /\ stopped'[u] = IF u = t THEN FALSE ELSE stopped[u]
      BY <2>1 DEF TypeOK
  <2>3. JoinAlive'
      BY <2>1, <2>2, KeepJoiners DEF JInv, Joins, Gone
  <2>4. StoppedEnds'
      BY <2>1, <2>2 DEF JInv, StoppedEnds, Returns
  <2>. QED BY <2>1, <2>3, <2>4 DEF JInv
<1>4. ASSUME NEW t \in Task, NEW p \in Prio, mrb_task_set_priority(t, p) PROVE JInv'
    BY <1>4, CallSite, StayJoiners DEF mrb_task_set_priority, cpu
<1>5. ASSUME NEW n \in Delays, sleep_us_impl(n) PROVE JInv'
    BY <1>5, ParkJoiners DEF sleep_us_impl, MayPark
<1>6. CASE BlockingSleep \/ mrb_task_s_pass \/ Compute \/ CallC
  <2>1. pc \in {"root", "top", "call"} /\ UNCHANGED <<status, stopped, reason, target, cur, resumed>>
      BY <1>6, CallSite DEF BlockingSleep, mrb_task_s_pass, Compute, CallC, MayPark, tasks, cpu
  <2>. QED BY <2>1, StayJoiners
<1>7. CASE SleepForever
    BY <1>7 DEF SleepForever, MayPark, May, NoneSuspended
<1>8. CASE Finish
  <2>1. /\ pc = "call" /\ UNCHANGED <<status, reason, target, cur, resumed>>
        /\ stopped' = [stopped EXCEPT ![cur] = TRUE]
      BY <1>8 DEF Finish, cpu
  <2>2. \A t \in Task : stopped'[t] => stopped[t] \/ t = cur
      BY <2>1 DEF TypeOK
  <2>. QED BY <2>1, <2>2, StayJoiners
<1>9. ASSUME NEW u \in Task, mrb_task_join(u) PROVE JInv'
    BY <1>9, ParkJoiners DEF mrb_task_join, MayPark, Gone
<1>10. ASSUME NEW u \in Task, suspend_task_internal(u) PROVE FALSE
    BY <1>10 DEF suspend_task_internal, May, NoneSuspended
<1>11. ASSUME NEW u \in Task, terminate_task_internal(u) PROVE JInv'
  <2>1. /\ pc \in {"root", "top", "call"}
        /\ status' = [status EXCEPT ![u] = "DORMANT"] /\ waking' = Joiners(u)
        /\ stopped' = [stopped EXCEPT ![u] = TRUE]
        /\ UNCHANGED <<reason, target, cur, resumed>>
      BY <1>11, CallSite DEF terminate_task_internal, Terminated, task_change_state, cpu
  <2>2. \A t \in Task : /\ status'[t] = IF t = u THEN "DORMANT" ELSE status[t]
                        /\ stopped'[t] = IF t = u THEN TRUE ELSE stopped[t]
      BY <2>1 DEF TypeOK
  <2>3. JoinAlive'
      BY <2>1, EndJoined DEF JInv, Gone
  <2>4. StoppedEnds'
      BY <2>1, <2>2 DEF JInv, StoppedEnds, Returns
  <2>. QED BY <2>1, <2>3, <2>4 DEF JInv
<1>12. ASSUME NEW u \in Task, mrb_close_task(u) PROVE JInv'
  <2>1. /\ pc \in {"root", "top", "call"} /\ status[u] # "FREE"
        /\ status[u] # "DORMANT" => waking' = Joiners(u)
        /\ status' = [status EXCEPT ![u] = "FREE"]
        /\ stopped' = [stopped EXCEPT ![u] = FALSE]
        /\ reason' = [reason EXCEPT ![u] = "NONE"]
        /\ target' = [target EXCEPT ![u] = NoTask]
        /\ UNCHANGED <<cur, resumed>>
      BY <1>12, CallSite DEF mrb_close_task, Terminated, cpu
  <2>2. \A t \in Task : /\ status'[t] = IF t = u THEN "FREE" ELSE status[t]
                        /\ stopped'[t] = IF t = u THEN FALSE ELSE stopped[t]
                        /\ t # u => reason'[t] = reason[t] /\ target'[t] = target[t]
      BY <2>1 DEF TypeOK
  <2>3. JoinAlive'
      BY <2>1, <2>2, EndJoined DEF JInv, Gone
  <2>4. StoppedEnds'
      BY <2>1, <2>2 DEF JInv, StoppedEnds, Returns
  <2>. QED BY <2>1, <2>3, <2>4 DEF JInv
<1>13. ASSUME NEW u \in Task, mrb_stop_task(u) PROVE FALSE
    BY <1>13 DEF mrb_stop_task, May, NoneSuspended
<1>14. ASSUME NEW u \in Task, mrb_task_reset_context(u) PROVE JInv'
  <2>1. /\ pc \in {"root", "top", "call"} /\ UNCHANGED <<status, reason, target, cur, resumed>>
        /\ stopped' = [stopped EXCEPT ![u] = FALSE]
      BY <1>14, CallSite DEF mrb_task_reset_context, cpu
  <2>2. \A t \in Task : stopped'[t] => stopped[t]
      BY <2>1 DEF TypeOK
  <2>. QED BY <2>1, <2>2, StayJoiners
<1>15. CASE mrb_task_queue_push \/ queue_close \/ queue_clear \/ PopAtOnce
  <2>1. pc \in {"root", "top", "call"} /\ UNCHANGED <<status, stopped, reason, target, cur, resumed>>
      BY <1>15, CallSite
         DEF mrb_task_queue_push, queue_close, queue_clear, PopAtOnce, tasks, cpu
  <2>. QED BY <2>1, StayJoiners
<1>16. ASSUME NEW d, pc = "call", queue_pop_try(d) PROVE JInv'
  <2>1. CASE Park("WAITING", "QUEUE", NoTask, d)
      BY <1>16, <2>1, ParkJoiners
  <2>2. CASE UNCHANGED <<status, stopped, reason, target, cur, resumed>>
      BY <1>16, <2>2, StayJoiners
  <2>. QED BY <1>16, <2>1, <2>2 DEF queue_pop_try, cpu
<1>17. CASE Pop \/ PopAgain
    BY <1>16, <1>17 DEF Pop, PopAgain, MayPark
<1>. QED BY <1>3, <1>4, <1>5, <1>6, <1>7, <1>8, <1>9, <1>10, <1>11, <1>12, <1>13, <1>14,
            <1>15, <1>17 DEF Whole

\* Every step keeps the joined tasks alive.
LEMMA NextJoiners ==
    ASSUME NoneSuspended
    PROVE  IInv /\ JInv /\ [Next]_vars => JInv'
<1>. SUFFICES ASSUME IInv, JInv, [Next]_vars PROVE JInv'
    OBVIOUS
<1>1. CASE waking = {} /\ mrb_tick
  <2>1. UNCHANGED <<status, stopped, reason, target, cur, resumed, pc>> /\ waking = {}
      BY <1>1 DEF mrb_tick, tasks, cpu
  <2>2. JoinAlive'
      BY <2>1, KeepJoiners DEF JInv, Joins
  <2>3. StoppedEnds'
      BY <2>1 DEF JInv, StoppedEnds
  <2>. QED BY <2>1, <2>2, <2>3 DEF JInv
<1>2. CASE ResumeWakeup
    BY <1>2 DEF ResumeWakeup, JInv
<1>3. CASE UNCHANGED vars
    BY <1>3 DEF vars, JInv, JoinAlive, StoppedEnds, Joins, Gone
<1>. QED BY <1>1, <1>2, <1>3, WakeJoiners, SchedulerJoiners, CallJoiners DEF Next

\* Task#join never waits for a task that has ended, be it by itself, by
\* Task#terminate or by mrb_close_task(): whoever ends it wakes its joiners.
THEOREM JoinedTasksLive ==
    ASSUME NoneSuspended
    PROVE  Spec => []JoinTargetAlive
<1>1. Init => JInv
    BY DEF Init, JInv, JoinAlive, StoppedEnds, Joins
<1>2. IInv /\ JInv /\ [Next]_vars => JInv'
    BY NextJoiners
<1>3. JInv => JoinTargetAlive
    BY DEF JInv, JoinAlive, JoinTargetAlive, Joins, Gone
<1>. QED BY <1>1, <1>2, <1>3, Invariance, PTL DEF Spec

-----------------------------------------------------------------------------
(* Task::Queue, for programs that end a task only by letting it end: a     *)
(* task that is ended while it is on its way to an item leaves the item to *)
(* nobody.                                                                 *)

NoneEnded == {"suspend", "stop", "terminate", "close", "reset"} \cap Calls = {}

Pops(t) == status[t] = "WAITING" /\ reason[t] = "QUEUE"

\* The tasks on their way to fetch an item, or about to be woken for it.
Fetching == {t \in Task : popping[t] # NotPopping
                          /\ (status[t] \in {"READY", "RUNNING"} \/ t \in waking)}

\* ItemsFetched, in the middle of a walk too.
ItemsReached ==
    (\E t \in Task \ waking : Pops(t)) => ~closed /\ items <= Cardinality(Fetching)

StoppedNotPopping == \A t \in Task : stopped[t] => popping[t] = NotPopping
WaitersPop        == \A t \in Task : Pops(t) => popping[t] # NotPopping

\* The task that takes an instruction is RUNNING: one that has parked itself or
\* has ended returns to the scheduler first, and no C function lies in between.
CurRunning ==
    /\ pc = "switch" => status[cur] = "RUNNING"
    /\ pc = "run" => status[cur] = "RUNNING" \/ stopped[cur] \/ (switching /\ ~inC)
    /\ pc = "call" => status[cur] = "RUNNING" /\ ~stopped[cur]
    /\ inC => pc \in {"run", "call"} /\ popping[cur] = NotPopping

FInv == ItemsReached /\ StoppedNotPopping /\ WaitersPop

\* Sets of tasks are finite; how their sizes compare.
LEMMA TaskCounts ==
    ASSUME NEW A \in SUBSET Task, NEW B \in SUBSET Task
    PROVE  /\ Cardinality(A) \in Nat /\ Cardinality(B) \in Nat
           /\ A \subseteq B => Cardinality(A) <= Cardinality(B)
           /\ \A x \in Task : A \ {x} \subseteq B => Cardinality(A) - 1 <= Cardinality(B)
           /\ \A x \in Task : x \notin A /\ A \cup {x} \subseteq B
                                => Cardinality(A) + 1 <= Cardinality(B)
<1>1. IsFiniteSet(A) /\ IsFiniteSet(B)
    BY TaskAssumption, FS_Subset
<1>2. Cardinality(A) \in Nat /\ Cardinality(B) \in Nat
    BY <1>1, FS_CardinalityType
<1>3. A \subseteq B => Cardinality(A) <= Cardinality(B)
    BY <1>1, FS_Subset
<1>4. ASSUME NEW x \in Task, A \ {x} \subseteq B PROVE Cardinality(A) - 1 <= Cardinality(B)
  <2>1. IsFiniteSet(A \ {x})
        /\ Cardinality(A \ {x}) = IF x \in A THEN Cardinality(A) - 1 ELSE Cardinality(A)
      BY <1>1, FS_RemoveElement
  <2>2. Cardinality(A \ {x}) <= Cardinality(B)
      BY <1>1, <1>4, FS_Subset
  <2>. QED BY <1>2, <2>1, <2>2
<1>5. ASSUME NEW x \in Task, x \notin A, A \cup {x} \subseteq B
      PROVE  Cardinality(A) + 1 <= Cardinality(B)
  <2>1. Cardinality(A \cup {x}) = Cardinality(A) + 1
      BY <1>1, <1>5, FS_AddElement
  <2>2. Cardinality(A \cup {x}) <= Cardinality(B)
      BY <1>1, <1>5, FS_Subset
  <2>. QED BY <2>1, <2>2
<1>. QED BY <1>2, <1>3, <1>4, <1>5

\* A step that takes nobody off the way and makes nobody wait.
LEMMA KeepItems ==
    ASSUME TypeOK, ItemsReached, closed' = closed, items' = items,
           Fetching \subseteq Fetching',
           \A t \in Task \ waking' : Pops(t)' => Pops(t) /\ t \notin waking
    PROVE  ItemsReached'
<1>1. Fetching \in SUBSET Task /\ Fetching' \in SUBSET Task
    BY DEF Fetching
<1>2. Cardinality(Fetching) \in Nat /\ Cardinality(Fetching') \in Nat
      /\ Cardinality(Fetching) <= Cardinality(Fetching')
    BY <1>1, TaskCounts
<1>3. ASSUME NEW t \in Task \ waking', Pops(t)' PROVE ~closed' /\ items' <= Cardinality(Fetching')
  <2>1. ~closed /\ items <= Cardinality(Fetching)
      BY <1>3 DEF ItemsReached
  <2>2. items \in Int
      BY TaskAssumption DEF TypeOK
  <2>. QED BY <1>2, <2>1, <2>2
<1>. QED BY <1>3 DEF ItemsReached

\* Nothing the queue depends on changes.
LEMMA StayItems ==
    ASSUME TypeOK, FInv, UNCHANGED <<status, stopped, reason, popping, waking, items, closed>>
    PROVE  FInv'
<1>1. Fetching' = Fetching
    BY DEF Fetching
<1>2. ItemsReached'
    BY <1>1, KeepItems DEF FInv, Pops
<1>. QED BY <1>2 DEF FInv, StoppedNotPopping, WaitersPop, Pops

\* A walk wakes a task: it is on its way.
LEMMA WakeItems ==
    ASSUME IInv, FInv, WakeNext
    PROVE  FInv'
<1>. USE DEF IInv
<1>1. PICK t \in waking :
          /\ status' = [status EXCEPT ![t] = "READY"]
          /\ reason' = [reason EXCEPT ![t] = "NONE"]
          /\ waking' = waking \ {t}
          /\ UNCHANGED <<stopped, popping, items, closed>>
    BY DEF WakeNext, task_change_state, q
<1>2. /\ t \in Task
      /\ \A u \in Task : /\ status'[u] = IF u = t THEN "READY" ELSE status[u]
                         /\ reason'[u] = IF u = t THEN "NONE" ELSE reason[u]
    BY <1>1 DEF TypeOK
<1>3. Fetching \subseteq Fetching'
    BY <1>1, <1>2 DEF Fetching
<1>4. \A u \in Task : Pops(u)' => u # t /\ Pops(u)
    BY <1>2 DEF Pops
<1>5. ItemsReached'
    BY <1>1, <1>3, <1>4, KeepItems DEF FInv
<1>. QED BY <1>1, <1>4, <1>5 DEF FInv, StoppedNotPopping, WaitersPop

\* The scheduler loop takes no task off the way to an item.
LEMMA SchedulerItems ==
    ASSUME IInv, FInv, Scheduler, waking = {}
    PROVE  FInv'
<1>. USE DEF IInv
<1>1. UNCHANGED <<stopped, reason, popping, items, closed>>
    BY DEF Scheduler, NothingReady, Pick, task_cleanup_if_stopped, EnterTask, SwitchContext,
           Dispatch, VmReturn, LeaveTask, Requeue, tasks, q
<1>2. \A t \in Task : status'[t] # status[t] =>
          status'[t] \in {"READY", "RUNNING"} \/ (status'[t] = "DORMANT" /\ stopped[t])
  <2>1. CASE NothingReady \/ Pick \/ SwitchContext \/ Dispatch \/ VmReturn
      BY <2>1 DEF NothingReady, Pick, SwitchContext, Dispatch, VmReturn, tasks
  <2>2. CASE task_cleanup_if_stopped
    <3>1. q_ready_ \in Task /\ status[q_ready_] \in {"READY", "RUNNING"}
        BY <2>2, HeadReady DEF task_cleanup_if_stopped
    <3>2. status' = [status EXCEPT ![q_ready_] = "DORMANT"] /\ stopped[q_ready_]
        BY <2>2, <3>1 DEF task_cleanup_if_stopped, task_change_state
    <3>. QED BY <3>1, <3>2 DEF TypeOK
  <2>3. CASE EnterTask
      BY <2>3 DEF EnterTask, PickedInUse, TypeOK
  <2>4. CASE LeaveTask
    <3>1. cur \in Task
        BY <2>4 DEF LeaveTask, PickedInUse
    <3>2. \/ status' = [status EXCEPT ![cur] = "DORMANT"] /\ stopped[cur]
          \/ status' = [status EXCEPT ![cur] = IF status[cur] = "RUNNING" THEN "READY" ELSE status[cur]]
        BY <2>4 DEF LeaveTask, task_change_state
    <3>. QED BY <3>1, <3>2 DEF TypeOK
  <2>5. CASE Requeue
    <3>1. cur \in Task
        BY <2>5 DEF Requeue, PickedInUse
    <3>2. status' = [status EXCEPT ![cur] = "READY"] \/ status' = status
        BY <2>5 DEF Requeue, task_change_state
    <3>. QED BY <3>1, <3>2 DEF TypeOK
  <2>. QED BY <2>1, <2>2, <2>3, <2>4, <2>5 DEF Scheduler
<1>3. Fetching \subseteq Fetching'
    BY <1>1, <1>2 DEF Fetching, FInv, StoppedNotPopping
<1>4. \A t \in Task : Pops(t)' => Pops(t)
    BY <1>1, <1>2 DEF Pops
<1>5. ItemsReached'
    BY <1>1, <1>3, <1>4, KeepItems DEF FInv
<1>. QED BY <1>1, <1>4, <1>5 DEF FInv, StoppedNotPopping, WaitersPop

\* The running task, which is in no pop, sleeps or joins.
LEMMA ParkItems ==
    ASSUME IInv, FInv, waking = {}, cur \in Task, popping[cur] = NotPopping, UNCHANGED popping,
           NEW r \in {"SLEEP", "JOIN"}, NEW u, NEW w, Park("WAITING", r, u, w)
    PROVE  FInv'
<1>. USE DEF IInv
<1>1. /\ status' = [status EXCEPT ![cur] = "WAITING"]
      /\ reason' = [reason EXCEPT ![cur] = r]
      /\ UNCHANGED <<stopped, waking, items, closed>>
    BY DEF Park, task_change_state, q
<1>2. \A t \in Task : /\ status'[t] = IF t = cur THEN "WAITING" ELSE status[t]
                      /\ reason'[t] = IF t = cur THEN r ELSE reason[t]
    BY <1>1 DEF TypeOK
<1>3. Fetching \subseteq Fetching'
    BY <1>1, <1>2 DEF Fetching
<1>4. \A t \in Task : Pops(t)' => Pops(t)
    BY <1>2 DEF Pops
<1>5. ItemsReached'
    BY <1>1, <1>3, <1>4, KeepItems DEF FInv
<1>. QED BY <1>1, <1>4, <1>5 DEF FInv, StoppedNotPopping, WaitersPop

\* Queue#pop takes an item, gives up, or waits because there is none.
LEMMA PopItems ==
    ASSUME IInv, FInv, CurRunning, waking = {}, pc = "call", NEW d \in Ticks, queue_pop_try(d)
    PROVE  FInv'
<1>. USE DEF IInv
<1>0. /\ NotPopping \notin Ticks /\ items \in Nat
      /\ cur \in Task /\ status[cur] = "RUNNING" /\ ~stopped[cur]
    BY HalfRange, TaskAssumption DEF NotPopping, TypeOK, PickedInUse, CurRunning
<1>1. CASE /\ items > 0 /\ items' = items - 1
           /\ popping' = [popping EXCEPT ![cur] = NotPopping]
           /\ UNCHANGED <<status, stopped, reason, waking, closed>>
  <2>1. \A t \in Task : popping'[t] = IF t = cur THEN NotPopping ELSE popping[t]
      BY <1>1 DEF TypeOK
  <2>2. Fetching \ {cur} \subseteq Fetching'
      BY <1>1, <2>1 DEF Fetching
  <2>3. Fetching \in SUBSET Task /\ Fetching' \in SUBSET Task
      BY DEF Fetching
  <2>4. Cardinality(Fetching) - 1 <= Cardinality(Fetching')
        /\ Cardinality(Fetching) \in Nat /\ Cardinality(Fetching') \in Nat
      BY <1>0, <2>2, <2>3, TaskCounts
  <2>5. ItemsReached'
    <3>1. (\E t \in Task \ waking' : Pops(t)') => (\E t \in Task \ waking : Pops(t))
        BY <1>1 DEF Pops
    <3>2. (\E t \in Task \ waking' : Pops(t)') => ~closed /\ items <= Cardinality(Fetching)
        BY <3>1 DEF FInv, ItemsReached
    <3>. QED BY <1>0, <1>1, <2>4, <3>2 DEF ItemsReached
  <2>6. StoppedNotPopping' /\ WaitersPop'
      BY <1>0, <1>1, <2>1 DEF FInv, StoppedNotPopping, WaitersPop, Pops
  <2>. QED BY <2>5, <2>6 DEF FInv
<1>2. CASE /\ items = 0
           /\ popping' = [popping EXCEPT ![cur] = NotPopping]
           /\ UNCHANGED <<status, stopped, reason, waking, items, closed>>
  <2>1. \A t \in Task : popping'[t] = IF t = cur THEN NotPopping ELSE popping[t]
      BY <1>2 DEF TypeOK
  <2>2. Cardinality(Fetching') \in Nat
    <3>1. Fetching' \in SUBSET Task
        BY DEF Fetching
    <3>. QED BY <3>1, TaskCounts
  <2>3. (\E t \in Task \ waking' : Pops(t)') => ~closed
      BY <1>2 DEF FInv, ItemsReached, Pops
  <2>4. ItemsReached'
      BY <1>2, <2>2, <2>3 DEF ItemsReached
  <2>5. StoppedNotPopping' /\ WaitersPop'
      BY <1>0, <1>2, <2>1 DEF FInv, StoppedNotPopping, WaitersPop, Pops
  <2>. QED BY <2>4, <2>5 DEF FInv
<1>3. CASE /\ items = 0 /\ ~closed
           /\ popping' = [popping EXCEPT ![cur] = d]
           /\ Park("WAITING", "QUEUE", NoTask, d)
  <2>1. /\ status' = [status EXCEPT ![cur] = "WAITING"]
        /\ reason' = [reason EXCEPT ![cur] = "QUEUE"]
        /\ UNCHANGED <<stopped, items, closed>>
      BY <1>3 DEF Park, task_change_state, q
  <2>2. \A t \in Task : /\ popping'[t] = IF t = cur THEN d ELSE popping[t]
                        /\ t # cur => status'[t] = status[t] /\ reason'[t] = reason[t]
      BY <1>3, <2>1 DEF TypeOK
  <2>3. Cardinality(Fetching') \in Nat
    <3>1. Fetching' \in SUBSET Task
        BY DEF Fetching
    <3>. QED BY <3>1, TaskCounts
  <2>4. ItemsReached'
      BY <1>3, <2>1, <2>3 DEF ItemsReached
  <2>5. StoppedNotPopping'
      BY <1>0, <2>1, <2>2 DEF FInv, StoppedNotPopping
  <2>6. WaitersPop'
      BY <1>0, <2>2 DEF FInv, WaitersPop, Pops
  <2>. QED BY <2>4, <2>5, <2>6 DEF FInv
<1>. QED BY <1>1, <1>2, <1>3 DEF queue_pop_try, q

\* A push finds the first waiter, if there is one, and puts it on its way.
LEMMA PushItems ==
    ASSUME IInv, FInv, mrb_task_queue_push, waking = {}
    PROVE  FInv'
<1>. USE DEF IInv
<1>1. /\ items' = items + 1 /\ waking' = {t \in Waiters : FirstWaiting(t, Waiters)}
      /\ UNCHANGED <<status, stopped, reason, popping, closed>> /\ items \in Nat
    BY TaskAssumption DEF mrb_task_queue_push, tasks, TypeOK
<1>2. Waiters = {t \in Task : Pops(t)}
    BY WaitingTasks DEF Waiters, Pops
<1>3. ASSUME NEW x \in Waiters PROVE \E t \in Waiters : FirstWaiting(t, Waiters)
  <2>. DEFINE l == queue.waiting
              S == {i \in 1 .. Len(l) : l[i] \in Waiters}
  <2>1. l \in Seq(Task)
      BY DEF TypeOK, QueueId
  <2>2. Listed(l, x)
      BY DEF Waiters, Waiting
  <2>3. S \subseteq Nat /\ S # {}
      BY <2>1, <2>2 DEF Listed
  <2>4. PICK i \in S : \A j \in S : ~(<<j, i>> \in OpToRel(<, Nat))
      BY <2>3, WFMin, NatLessThanWellFounded
  <2>5. \A j \in S : ~(j < i)
      BY <2>3, <2>4 DEF OpToRel
  <2>6. i \in 1 .. Len(l) /\ l[i] \in Waiters
      BY <2>4
  <2>7. \A j \in 1 .. i - 1 : l[j] \notin Waiters
    <3>. SUFFICES ASSUME NEW j \in 1 .. i - 1, l[j] \in Waiters PROVE FALSE
        OBVIOUS
    <3>1. j \in S /\ j < i
        BY <2>1, <2>6
    <3>. QED BY <2>5, <3>1
  <2>. QED BY <2>6, <2>7 DEF FirstWaiting
<1>4. ItemsReached'
  <2>. SUFFICES ASSUME NEW t \in Task \ waking', Pops(t)'
                PROVE  ~closed' /\ items' <= Cardinality(Fetching')
      BY DEF ItemsReached
  <2>1. Pops(t) /\ t \in Waiters
      BY <1>1, <1>2 DEF Pops
  <2>2. ~closed /\ items <= Cardinality(Fetching)
      BY <2>1 DEF FInv, ItemsReached
  <2>3. PICK x \in Waiters : FirstWaiting(x, Waiters)
      BY <1>3, <2>1
  <2>4. x \in Task /\ Pops(x) /\ popping[x] # NotPopping /\ x \in waking'
      BY <1>1, <1>2, <2>3 DEF FInv, WaitersPop
  <2>5. x \notin Fetching /\ Fetching \cup {x} \subseteq Fetching'
      BY <1>1, <2>4 DEF Fetching, Pops
  <2>6. Fetching \in SUBSET Task /\ Fetching' \in SUBSET Task
      BY DEF Fetching
  <2>7. Cardinality(Fetching) + 1 <= Cardinality(Fetching')
        /\ Cardinality(Fetching) \in Nat /\ Cardinality(Fetching') \in Nat
      BY <2>4, <2>5, <2>6, TaskCounts
  <2>. QED BY <1>1, <2>2, <2>7
<1>5. StoppedNotPopping' /\ WaitersPop'
    BY <1>1 DEF FInv, StoppedNotPopping, WaitersPop, Pops
<1>. QED BY <1>4, <1>5 DEF FInv

\* Fewer items than before, and nobody new who waits.
LEMMA TakeItems ==
    ASSUME TypeOK, FInv, items' \in Int, items' <= items, closed' = closed,
           UNCHANGED <<status, stopped, reason, popping, waking>>
    PROVE  FInv'
<1>1. Fetching' = Fetching /\ Fetching \in SUBSET Task
    BY DEF Fetching
<1>2. Cardinality(Fetching) \in Nat
    BY <1>1, TaskCounts
<1>3. items \in Int
    BY TaskAssumption DEF TypeOK
<1>4. (\E t \in Task \ waking' : Pops(t)') => ~closed /\ items <= Cardinality(Fetching)
    BY DEF FInv, ItemsReached, Pops
<1>5. ItemsReached'
    BY <1>1, <1>2, <1>3, <1>4 DEF ItemsReached
<1>. QED BY <1>5 DEF FInv, StoppedNotPopping, WaitersPop, Pops

\* The calls, on the queue.
LEMMA CallItems ==
    ASSUME NoneEnded, IInv, FInv, CurRunning, Call, waking = {}
    PROVE  FInv'
<1>. USE DEF IInv
<1>1. ASSUME NEW c \in {"suspend", "stop", "terminate", "close", "reset"}, May(c) PROVE FALSE
    BY <1>1 DEF May, NoneEnded
<1>2. ASSUME NEW u \in Task, resume_task_internal(u) PROVE FALSE
    BY <1>1, <1>2 DEF resume_task_internal
<1>3. ASSUME NEW d \in {"run", "once", "pass"}, StartScheduler(d) PROVE FInv'
    BY <1>3, StayItems DEF StartScheduler, tasks, q
<1>. SUFFICES ASSUME Whole, Returns PROVE FInv'
    BY <1>2, <1>3 DEF Call
<1>4. ASSUME NEW t \in Task, NEW p \in Prio, task_create_common(t, p) PROVE FInv'
  <2>1. /\ status[t] = "FREE" /\ status' = [status EXCEPT ![t] = "READY"]
        /\ stopped' = [stopped EXCEPT ![t] = FALSE]
        /\ UNCHANGED <<reason, popping, waking, items, closed>>
      BY <1>4 DEF task_create_common, q
  <2>2. \A u \in Task : /\ status'[u] = IF u = t THEN "READY" ELSE status[u]
                        /\ stopped'[u] = IF u = t THEN FALSE ELSE stopped[u]
      BY <2>1 DEF TypeOK
  <2>3. Fetching \subseteq Fetching'
      BY <2>1, <2>2 DEF Fetching
  <2>4. \A u \in Task : Pops(u)' => Pops(u)
      BY <2>1, <2>2 DEF Pops
  <2>5. ItemsReached'
      BY <2>1, <2>3, <2>4, KeepItems DEF FInv
  <2>. QED BY <2>1, <2>2, <2>4, <2>5 DEF FInv, StoppedNotPopping, WaitersPop
<1>5. ASSUME NEW t \in Task, NEW p \in Prio, mrb_task_set_priority(t, p) PROVE FInv'
    BY <1>5, StayItems DEF mrb_task_set_priority, q
<1>6. ASSUME NEW n \in Delays, sleep_us_impl(n) PROVE FInv'
    BY <1>6, CallSite, ParkItems DEF sleep_us_impl, MayPark, May
<1>7. CASE BlockingSleep \/ mrb_task_s_pass \/ Compute \/ CallC
    BY <1>7, StayItems DEF BlockingSleep, mrb_task_s_pass, Compute, CallC, tasks, q
<1>8. CASE SleepForever
    BY <1>1, <1>8 DEF SleepForever, MayPark
<1>9. CASE Finish
  <2>1. /\ popping[cur] = NotPopping /\ stopped' = [stopped EXCEPT ![cur] = TRUE]
        /\ UNCHANGED <<status, reason, popping, waking, items, closed>>
      BY <1>9 DEF Finish, q
  <2>2. \A t \in Task : stopped'[t] => stopped[t] \/ t = cur
      BY <2>1 DEF TypeOK
  <2>3. Fetching' = Fetching
      BY <2>1 DEF Fetching
  <2>4. ItemsReached'
      BY <2>1, <2>3, KeepItems DEF FInv, Pops
  <2>. QED BY <2>1, <2>2, <2>4 DEF FInv, StoppedNotPopping, WaitersPop, Pops
<1>10. ASSUME NEW u \in Task, mrb_task_join(u) PROVE FInv'
    BY <1>10, CallSite, ParkItems DEF mrb_task_join, MayPark, May
<1>11. ASSUME NEW u \in Task,
              \/ suspend_task_internal(u) \/ terminate_task_internal(u) \/ mrb_close_task(u)
              \/ mrb_stop_task(u) \/ mrb_task_reset_context(u)
       PROVE  FALSE
    BY <1>1, <1>11 DEF suspend_task_internal, terminate_task_internal, mrb_close_task,
                       mrb_stop_task, mrb_task_reset_context
<1>12. CASE mrb_task_queue_push
    BY <1>12, PushItems
<1>13. CASE queue_close
  <2>1. /\ closed' = TRUE /\ waking' = Waiters
        /\ UNCHANGED <<status, stopped, reason, popping, items>>
      BY <1>13 DEF queue_close, tasks
  <2>2. \A t \in Task : Pops(t)' => t \in waking'
      BY <2>1, WaitingTasks DEF Pops, Waiters
  <2>3. ItemsReached'
      BY <2>2 DEF ItemsReached
  <2>. QED BY <2>1, <2>3 DEF FInv, StoppedNotPopping, WaitersPop, Pops
<1>14. CASE queue_clear \/ PopAtOnce
  <2>1. items' \in Int /\ items' <= items
      BY <1>14, TaskAssumption DEF queue_clear, PopAtOnce, TypeOK
  <2>. QED BY <1>14, <2>1, TakeItems DEF queue_clear, PopAtOnce, tasks
<1>15. CASE Pop
  <2>1. pc = "call" /\ \E d \in Ticks : queue_pop_try(d)
      BY <1>15, CallSite, TickTypes DEF Pop
  <2>. QED BY <2>1, PopItems
<1>16. CASE PopAgain
  <2>1. pc = "call" /\ popping[cur] \in Ticks /\ queue_pop_try(popping[cur])
      BY <1>16 DEF PopAgain, PickedInUse, TypeOK
  <2>. QED BY <2>1, PopItems
<1>. QED BY <1>4, <1>5, <1>6, <1>7, <1>8, <1>9, <1>10, <1>11, <1>12, <1>13, <1>14, <1>15,
            <1>16 DEF Whole

\* The task that takes an instruction stays RUNNING up to the call that parks
\* or ends it.
LEMMA WholeRunning ==
    ASSUME NoneEnded, IInv, CurRunning, Whole, Returns, pc = "call"
    PROVE  CurRunning'
<1>. USE DEF IInv
<1>1. ASSUME NEW c \in {"suspend", "stop", "terminate", "close", "reset"}, May(c) PROVE FALSE
    BY <1>1 DEF May, NoneEnded
<1>2. cur \in Task /\ status[cur] = "RUNNING" /\ ~stopped[cur] /\ pc' = "run"
    BY DEF PickedInUse, CurRunning, Returns
<1>. SUFFICES /\ status'[cur'] = "RUNNING" \/ stopped'[cur'] \/ (switching' /\ ~inC')
              /\ inC' => popping'[cur'] = NotPopping
    BY <1>2 DEF CurRunning
<1>3. inC => popping[cur] = NotPopping
    BY DEF CurRunning
<1>4. ASSUME NEW t \in Task, NEW p \in Prio,
             task_create_common(t, p) \/ mrb_task_set_priority(t, p)
      PROVE  /\ status'[cur'] = "RUNNING" \/ stopped'[cur'] \/ (switching' /\ ~inC')
             /\ inC' => popping'[cur'] = NotPopping
  <2>1. UNCHANGED <<cur, inC, popping>>
      BY <1>4 DEF task_create_common, mrb_task_set_priority, cpu
  <2>2. status'[cur] = "RUNNING"
      BY <1>2, <1>4 DEF task_create_common, mrb_task_set_priority, TypeOK
  <2>. QED BY <1>3, <2>1, <2>2
<1>5. ASSUME NEW r, NEW u, NEW w, Park("WAITING", r, u, w), ~inC
      PROVE  /\ status'[cur'] = "RUNNING" \/ stopped'[cur'] \/ (switching' /\ ~inC')
             /\ inC' => popping'[cur'] = NotPopping
    BY <1>5 DEF Park, cpu
<1>6. CASE BlockingSleep \/ mrb_task_s_pass \/ Compute \/ mrb_task_queue_push
           \/ queue_close \/ queue_clear \/ PopAtOnce
    BY <1>2, <1>3, <1>6 DEF BlockingSleep, mrb_task_s_pass, Compute, mrb_task_queue_push,
                            queue_close, queue_clear, PopAtOnce, tasks, cpu
<1>7. CASE CallC
    BY <1>2, <1>7 DEF CallC, May, tasks
<1>8. CASE Finish
  <2>1. stopped'[cur] /\ UNCHANGED <<cur, inC, popping>>
      BY <1>2, <1>8 DEF Finish, cpu, TypeOK
  <2>. QED BY <1>3, <2>1
<1>9. ASSUME NEW d, ~inC, queue_pop_try(d)
      PROVE  /\ status'[cur'] = "RUNNING" \/ stopped'[cur'] \/ (switching' /\ ~inC')
             /\ inC' => popping'[cur'] = NotPopping
    BY <1>2, <1>5, <1>9 DEF queue_pop_try, cpu
<1>10. CASE Pop \/ PopAgain
    BY <1>3, <1>9, <1>10 DEF Pop, PopAgain, MayPark
<1>11. CASE SleepForever
    BY <1>1, <1>11 DEF SleepForever, MayPark
<1>12. ASSUME NEW u \in Task,
              \/ suspend_task_internal(u) \/ terminate_task_internal(u) \/ mrb_close_task(u)
              \/ mrb_stop_task(u) \/ mrb_task_reset_context(u)
       PROVE  FALSE
    BY <1>1, <1>12 DEF suspend_task_internal, terminate_task_internal, mrb_close_task,
                       mrb_stop_task, mrb_task_reset_context
<1>13. CASE (\E n \in Delays : sleep_us_impl(n)) \/ (\E u \in Task : mrb_task_join(u))
    BY <1>5, <1>13 DEF sleep_us_impl, mrb_task_join, MayPark
<1>. QED BY <1>4, <1>6, <1>7, <1>8, <1>10, <1>11, <1>12, <1>13 DEF Whole

\* Every step keeps the task that takes an instruction RUNNING.
LEMMA NextRunning ==
    ASSUME NoneEnded
    PROVE  IInv /\ CurRunning /\ [Next]_vars => CurRunning'
<1>. SUFFICES ASSUME IInv, CurRunning, [Next]_vars PROVE CurRunning'
    OBVIOUS
<1>. USE DEF IInv
<1>1. CASE WakeNext
  <2>1. PICK t \in waking :
            /\ status' = [status EXCEPT ![t] = "READY"] /\ FirstWaiting(t, waking)
            /\ UNCHANGED <<stopped, popping, switching, cur, inC, pc>>
      BY <1>1 DEF WakeNext, task_change_state, cpu
  <2>2. t \in Task /\ t \in Waiting
      BY <2>1 DEF FirstWaiting, Waiting, Listed, TypeOK, QueueId
  <2>3. status[t] = "WAITING"
      BY <2>2, WaitingTasks
  <2>4. \A u \in Task : status[u] = "RUNNING" => status'[u] = "RUNNING"
      BY <2>1, <2>3 DEF TypeOK
  <2>5. pc \in {"switch", "run", "call"} => cur \in Task
      BY DEF PickedInUse
  <2>. QED BY <2>1, <2>4, <2>5 DEF CurRunning
<1>2. CASE mrb_tick
  <2>1. UNCHANGED <<status, stopped, popping, cur, inC, pc>> /\ (switching => switching')
      BY <1>2 DEF mrb_tick, tasks, cpu
  <2>. QED BY <2>1 DEF CurRunning
<1>3. CASE ResumeWakeup
    BY <1>3 DEF ResumeWakeup, Returns, tasks, CurRunning
<1>4. CASE Scheduler
  <2>1. CASE EnterTask
      BY <2>1 DEF EnterTask, CurRunning, PickedInUse, TypeOK
  <2>2. CASE SwitchContext
      BY <2>2 DEF SwitchContext, CurRunning, tasks, cpu
  <2>3. CASE Dispatch
      BY <2>3 DEF Dispatch, CurRunning, Boundary, tasks, cpu
  <2>4. CASE NothingReady \/ Pick \/ task_cleanup_if_stopped \/ VmReturn \/ LeaveTask \/ Requeue
    <3>1. pc' \in {"root", "top", "enter", "return", "requeue"} /\ ~inC'
      <4>1. CASE VmReturn
          BY <4>1 DEF VmReturn
      <4>2. CASE NothingReady \/ Pick \/ task_cleanup_if_stopped \/ LeaveTask \/ Requeue
        <5>1. pc \in {"top", "return", "requeue"} /\ inC' = inC
            BY <4>2 DEF NothingReady, Pick, task_cleanup_if_stopped, LeaveTask, Requeue
        <5>2. ~inC
            BY <5>1 DEF CurRunning
        <5>. QED BY <4>2, <5>1, <5>2
                 DEF NothingReady, Pick, task_cleanup_if_stopped, LeaveTask, Requeue, After
      <4>. QED BY <2>4, <4>1, <4>2
    <3>. QED BY <3>1 DEF CurRunning
  <2>. QED BY <1>4, <2>1, <2>2, <2>3, <2>4 DEF Scheduler
<1>5. CASE Whole /\ Returns /\ pc = "call"
    BY <1>5, WholeRunning
<1>6. CASE Whole /\ Returns /\ pc # "call"
  <2>1. pc \in {"root", "top"} /\ UNCHANGED <<pc, inC>>
    <3>1. \A c : May(c) => pc \in {"root", "top"}
        BY <1>6 DEF May
    <3>2. \A c : ~MayPark(c)
        BY <1>6 DEF MayPark
    <3>. QED BY <1>6, <3>1, <3>2
             DEF Whole, Returns, task_create_common, mrb_task_set_priority, sleep_us_impl,
                 BlockingSleep, SleepForever, mrb_task_s_pass, Compute, Finish, CallC,
                 mrb_task_join, suspend_task_internal, terminate_task_internal,
                 mrb_close_task, mrb_stop_task, mrb_task_reset_context, mrb_task_queue_push,
                 queue_close, queue_clear, Pop, PopAtOnce, PopAgain, cpu
  <2>. QED BY <2>1 DEF CurRunning
<1>7. ASSUME NEW u \in Task, resume_task_internal(u) PROVE FALSE
    BY <1>7 DEF resume_task_internal, May, NoneEnded
<1>8. ASSUME NEW d \in {"run", "once", "pass"}, StartScheduler(d) PROVE CurRunning'
    BY <1>8 DEF StartScheduler, CurRunning
<1>9. CASE UNCHANGED vars
    BY <1>9 DEF vars, CurRunning
<1>. QED BY <1>1, <1>2, <1>3, <1>4, <1>5, <1>6, <1>7, <1>8, <1>9 DEF Next, Call

\* Every step leaves each item a task on the way, while others wait.
LEMMA NextItems ==
    ASSUME NoneEnded
    PROVE  IInv /\ CurRunning /\ FInv /\ [Next]_vars => FInv'
<1>. SUFFICES ASSUME IInv, CurRunning, FInv, [Next]_vars PROVE FInv'
    OBVIOUS
<1>1. CASE waking = {} /\ mrb_tick
  <2>1. UNCHANGED <<status, stopped, reason, popping, items, closed>> /\ waking = {}
      BY <1>1 DEF mrb_tick, tasks, q
  <2>2. Fetching \subseteq Fetching'
      BY <2>1 DEF Fetching
  <2>3. ItemsReached'
      BY <2>1, <2>2, KeepItems DEF IInv, FInv, Pops
  <2>. QED BY <2>1, <2>3 DEF FInv, StoppedNotPopping, WaitersPop, Pops
<1>2. CASE ResumeWakeup
    BY <1>2, StayItems DEF IInv, ResumeWakeup, tasks, q
<1>3. CASE UNCHANGED vars
    BY <1>3, StayItems DEF IInv, vars
<1>. QED BY <1>1, <1>2, <1>3, WakeItems, SchedulerItems, CallItems DEF Next

\* No wake-up is lost: as long as a task waits on a Task::Queue the queue is
\* open, and every item in it has a task of its own on the way to fetch it.
THEOREM QueueItemsFetched ==
    ASSUME NoneEnded
    PROVE  Spec => []ItemsFetched
<1>1. Init => CurRunning /\ FInv
    BY DEF Init, CurRunning, FInv, ItemsReached, StoppedNotPopping, WaitersPop, Pops
<1>2. IInv /\ CurRunning /\ [Next]_vars => CurRunning'
    BY NextRunning
<1>3. IInv /\ CurRunning /\ FInv /\ [Next]_vars => FInv'
    BY NextItems
<1>4. FInv => ItemsFetched
  <2>. SUFFICES ASSUME FInv, waking = {}, NEW t \in Task, Pops(t)
                PROVE  /\ ~closed
                       /\ items <= Cardinality({u \in Task : popping[u] # NotPopping
                                                  /\ status[u] \in {"READY", "RUNNING"}})
      BY DEF ItemsFetched, Pops
  <2>1. Fetching = {u \in Task : popping[u] # NotPopping /\ status[u] \in {"READY", "RUNNING"}}
      BY DEF Fetching
  <2>. QED BY <2>1 DEF FInv, ItemsReached
<1>. QED BY <1>1, <1>2, <1>3, <1>4, Invariance, PTL DEF Spec
=============================================================================
