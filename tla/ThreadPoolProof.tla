--------------------------- MODULE ThreadPoolProof ---------------------------
(***************************************************************************)
(* The list of the thread pool is a queue, for every number of threads and *)
(* every set of tasks.                                                     *)
(***************************************************************************)
EXTENDS ThreadPool, TLAPS

Addresses == Tasks \cup {NULL}

\* The ranges of the list, and of its history.
ListTypeOK ==
  /\ header_next \in Addresses /\ tail \in Addresses
  /\ next \in [Tasks -> Addresses]
  /\ aborted \in BOOLEAN
  /\ added \in Seq(Tasks) /\ taken \in Seq(Tasks)

\* No task is added twice.
AddedOnce == \A m, n \in 1 .. Len(added) : m # n => added[m] # added[n]

PoolListInv == ListTypeOK /\ AddedOnce /\ TasksInOrder

listVars == <<list, aborted, added, taken>>

LEMMA ListInit == Init => PoolListInv
PROOF
  <1> SUFFICES ASSUME Init PROVE PoolListInv
    OBVIOUS
  <1>1. ListTypeOK
    <2>1. added \in Seq(Tasks) /\ taken \in Seq(Tasks)
      BY DEF Init
    <2>2. tail \in Addresses /\ header_next \in Addresses
      BY DEF Init, Addresses
    <2>3. next \in [Tasks -> Addresses] /\ aborted \in BOOLEAN
      BY DEF Init, Addresses
    <2> QED
      BY <2>1, <2>2, <2>3 DEF ListTypeOK
  <1>2. added = <<>> /\ taken = <<>> /\ tail = NULL /\ aborted = FALSE
    BY DEF Init
  <1>3. AddedOnce
    BY <1>2 DEF AddedOnce
  <1>4. TasksInOrder
    BY <1>2 DEF TasksInOrder
  <1> QED
    BY <1>1, <1>3, <1>4 DEF PoolListInv

\* The steps that leave the list, the history and the assertion alone.
LEMMA ListUnchanged ==
  PoolListInv /\ UNCHANGED listVars => PoolListInv'
  BY DEF PoolListInv, ListTypeOK, AddedOnce, TasksInOrder, listVars, list

\* Taking the first task: the assertion holds, and the list is left with the
\* tasks after it.
LEMMA ListTake ==
  ASSUME PoolListInv, NEW w \in Threads, Take(w)
  PROVE  PoolListInv'
PROOF
  <1> DEFINE n == Len(taken) + 1
  <1> USE DEF PoolListInv
  <1>1. /\ tail \in Tasks /\ tail # NULL
        /\ Len(taken) \in Nat /\ Len(added) \in Nat /\ n <= Len(added)
        /\ added[n] \in Tasks
        /\ header_next = added[n] /\ header_next # NULL
        /\ tail = added[Len(added)]
    BY NullAssumption DEF Take, ListTypeOK, TasksInOrder, Addresses
  <1>2. /\ header_next' = next[header_next]
        /\ tail' = IF header_next = tail THEN NULL ELSE tail
        /\ taken' = Append(taken, header_next)
        /\ UNCHANGED <<next, aborted, added>>
    BY <1>1 DEF Take
  <1>3. ListTypeOK'
    BY <1>1, <1>2 DEF ListTypeOK, Addresses
  <1>4. AddedOnce'
    BY <1>2 DEF AddedOnce
  <1>5. /\ Len(taken') = n
        /\ \A k \in 1 .. n : taken'[k] = added[k]
    <2>1. /\ Len(taken') = n /\ taken'[n] = header_next
          /\ \A k \in 1 .. Len(taken) : taken'[k] = taken[k]
      BY <1>1, <1>2 DEF ListTypeOK
    <2> QED
      BY <2>1, <1>1 DEF TasksInOrder
  <1>6. CASE n = Len(added)
    <2>1. tail' = NULL
      BY <1>6, <1>1, <1>2
    <2> QED
      BY <2>1, <1>6, <1>1, <1>2, <1>3, <1>4, <1>5 DEF TasksInOrder
  <1>7. CASE n < Len(added)
    <2>1. header_next # tail
      BY <1>7, <1>1 DEF AddedOnce
    <2>2. tail' = tail
      BY <2>1, <1>2
    <2>3. next[added[n]] = added[n + 1]
      BY <1>7, <1>1 DEF TasksInOrder
    <2> QED
      BY <2>2, <2>3, <1>7, <1>1, <1>2, <1>3, <1>4, <1>5 DEF TasksInOrder
  <1> QED
    BY <1>1, <1>6, <1>7

\* Adding a task: it becomes the last one, and the link of no task that is
\* still before another one in the list is changed.
LEMMA ListAdd ==
  ASSUME PoolListInv, NEW t \in Tasks, Add(t)
  PROVE  PoolListInv'
PROOF
  <1> DEFINE m == Len(added) + 1
  <1> USE DEF PoolListInv
  <1>1. /\ tail' = t /\ t # NULL
        /\ added' = Append(added, t)
        /\ \A k \in 1 .. Len(added) : added[k] # t
        /\ UNCHANGED <<aborted, taken>>
        /\ tail = NULL => header_next' = t /\ next' = next
        /\ tail # NULL => header_next' = header_next /\ next' = [next EXCEPT ![tail] = t]
    BY NullAssumption DEF Add, WasAdded, ListTypeOK
  <1>2. /\ Len(added) \in Nat /\ Len(taken) \in Nat
        /\ Len(added') = m /\ added'[m] = t
        /\ \A k \in 1 .. Len(added) : added'[k] = added[k] /\ added[k] \in Tasks
    BY <1>1 DEF ListTypeOK
  <1>3. ListTypeOK'
    <2>1. next' \in [Tasks -> Addresses]
      BY <1>1 DEF ListTypeOK, Addresses
    <2> QED
      BY <2>1, <1>1 DEF ListTypeOK, Addresses
  <1>4. AddedOnce'
    BY <1>1, <1>2 DEF AddedOnce
  <1>5. /\ aborted' = FALSE /\ Len(taken') < Len(added')
        /\ \A k \in 1 .. Len(taken') : taken'[k] = added'[k]
    BY <1>1, <1>2 DEF TasksInOrder
  <1>6. CASE tail = NULL
    <2>1. Len(taken) = Len(added)
      BY <1>6 DEF TasksInOrder
    <2> QED
      BY <2>1, <1>6, <1>1, <1>2, <1>3, <1>4, <1>5 DEF TasksInOrder
  <1>7. CASE tail # NULL
    <2>1. /\ Len(taken) < Len(added)
          /\ tail = added[Len(added)]
          /\ header_next = added[Len(taken) + 1]
          /\ \A k \in Len(taken) + 1 .. Len(added) - 1 : next[added[k]] = added[k + 1]
      <3>1. Len(taken) <= Len(added)
        BY DEF TasksInOrder
      <3>2. Len(taken) # Len(added)
        BY <1>7, Zenon DEF TasksInOrder
      <3>3. /\ tail = added[Len(added)]
            /\ header_next = added[Len(taken) + 1]
            /\ \A k \in Len(taken) + 1 .. Len(added) - 1 : next[added[k]] = added[k + 1]
        BY <1>7, Zenon DEF TasksInOrder
      <3>4. Len(taken) < Len(added)
        BY <3>1, <3>2, <1>2, SMT
      <3> QED
        BY <3>3, <3>4, Zenon
    <2>2. next'[added[Len(added)]] = t
      BY <2>1, <1>7, <1>1, <1>2 DEF ListTypeOK
    <2>3. ASSUME NEW k \in Len(taken) + 1 .. Len(added) - 1
          PROVE  next'[added[k]] = added[k + 1]
      <3>1. added[k] # tail /\ added[k] \in Tasks
        BY <2>1, <1>2 DEF AddedOnce
      <3> QED
        BY <3>1, <2>1, <1>7, <1>1 DEF ListTypeOK
    <2>4. \A k \in Len(taken') + 1 .. Len(added') - 1 : next'[added'[k]] = added'[k + 1]
      BY <2>1, <2>2, <2>3, <1>1, <1>2
    <2> QED
      BY <2>1, <2>4, <1>7, <1>1, <1>2, <1>3, <1>4, <1>5 DEF TasksInOrder
  <1> QED
    BY <1>6, <1>7

LEMMA ListNext == PoolListInv /\ [Next]_vars => PoolListInv'
PROOF
  <1> SUFFICES ASSUME PoolListInv, [Next]_vars PROVE PoolListInv'
    OBVIOUS
  <1>1. ASSUME NEW w \in Threads, Take(w) PROVE PoolListInv'
    BY <1>1, ListTake
  <1>2. ASSUME NEW t \in Tasks, Add(t) PROVE PoolListInv'
    BY <1>2, ListAdd
  <1>3. ASSUME NEW w \in Threads, Wait(w) \/ Exit(w) \/ Finish(w) \/ WakeUp(w)
        PROVE  UNCHANGED listVars
    BY <1>3 DEF Wait, Exit, Finish, WakeUp, listVars
  <1>4. ASSUME Adjust \/ ShutDown \/ Destroy PROVE UNCHANGED listVars
    BY <1>4 DEF Adjust, AdjustTest, AdjustSignal, ShutDown, Destroy, Broadcast, Join, listVars
  <1>5. CASE UNCHANGED vars
    BY <1>5, ListUnchanged DEF vars, listVars, list
  <1>6. ASSUME Next PROVE PoolListInv'
    <2>1. CASE \E w \in Threads : Handle(w) \/ Finish(w) \/ WakeUp(w)
      BY <2>1, <1>1, <1>3, ListUnchanged DEF Handle
    <2>2. CASE \E t \in Tasks : Add(t)
      BY <2>2, <1>2
    <2>3. CASE Adjust \/ ShutDown \/ Destroy
      BY <2>3, <1>4, ListUnchanged
    <2> QED
      BY <1>6, <2>1, <2>2, <2>3 DEF Next
  <1> QED
    BY <1>5, <1>6

\* The inductive invariant: beside the order of the list, no task is in the
\* history of threadpool_add() twice.
THEOREM ThreadPoolInvariant == Spec => []PoolListInv
  <1>1. Init => PoolListInv
    BY ListInit
  <1>2. PoolListInv /\ [Next]_vars => PoolListInv'
    BY ListNext
  <1> QED
    BY <1>1, <1>2, PTL DEF Spec

\* threadpool_handle() runs the tasks in the order of threadpool_add(), each
\* once, and its assertion never fails.
THEOREM ThreadPoolTasksInOrder == Spec => []TasksInOrder
  <1>1. PoolListInv => TasksInOrder
    BY DEF PoolListInv
  <1> QED
    BY <1>1, ThreadPoolInvariant, PTL
=============================================================================
