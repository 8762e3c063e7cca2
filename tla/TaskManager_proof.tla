------------------------- MODULE TaskManager_proof -------------------------
(***************************************************************************)
(* Proofs about TaskManager, for every finite set of task objects and      *)
(* every width of the task id.                                             *)
(***************************************************************************)
EXTENDS TaskManager, FiniteSetTheorems, WellFoundedInduction, TLAPS

\* The inductive invariant: the four invariants of the runs support each other.
\* The count is exact because the map owns its objects, and a file is closed
\* once because no two ids lead to the same object.
Inv == TypeOK /\ CountExact /\ MapOwns /\ FileClosedOnce

\* A nonempty set of naturals has a minimum, and Min returns it.
LEMMA MinOfNats ==
  ASSUME NEW S, S \subseteq Nat, S # {}
  PROVE  Min(S) \in S
<1> DEFINE lt == {ss \in Nat \X Nat : ss[1] < ss[2]}
<1>1. IsWellFoundedOn(lt, Nat)
  BY NatLessThanWellFounded, Zenon DEF OpToRel
<1> PICK x \in S : \A y \in S : ~ (<<y, x>> \in lt)
  <2> HIDE DEF lt
  <2> QED BY <1>1, WFMin
<1>2. \A y \in S : x <= y
  <2> TAKE y \in S
  <2>1. <<y, x>> \in Nat \X Nat /\ <<y, x>> \notin lt
    OBVIOUS
  <2>2. <<y, x>>[1] = y /\ <<y, x>>[2] = x
    OBVIOUS
  <2>3. ~ (y < x)
    BY <2>1, <2>2
  <2> QED BY <2>3
<1>3. QED
  BY <1>2 DEF Min

\* get_free_tid returns 0 or an id in range that is not in the map.
LEMMA FreeTid ==
  ASSUME TypeOK
  PROVE  /\ get_free_tid \in Tids
         /\ get_free_tid # 0 => task_map[get_free_tid] = NoTask
<1> DEFINE free  == (1 .. MaxTid) \ Used
           after == {tid \in free : tid > next_tid}
<1>1. free \subseteq Nat /\ after \subseteq Nat
  OBVIOUS
<1>2. free # {} => Min(free) \in free
  BY <1>1, MinOfNats
<1>3. after # {} => Min(after) \in free
  BY <1>1, MinOfNats
<1>4. \A tid \in free : tid \in Tids /\ task_map[tid] = NoTask
  BY TaskAssumption DEF Used, Tids
<1>5. 0 \in Tids
  BY TaskAssumption DEF Tids
<1> HIDE DEF free, after
<1>6. get_free_tid = IF task_map[next_tid] = NoTask THEN next_tid
                     ELSE IF free = {} THEN 0
                     ELSE IF after # {} THEN Min(after) ELSE Min(free)
  BY DEF get_free_tid, free, after
<1>7. QED
  BY <1>2, <1>3, <1>4, <1>5, <1>6 DEF TypeOK

\* The keys in use are finitely many, at most MaxTid when 0 is not one of them.
LEMMA UsedFinite ==
  ASSUME NEW S, S \subseteq Tids
  PROVE  /\ IsFiniteSet(S)
         /\ Cardinality(S) \in Nat
         /\ 0 \notin S => Cardinality(S) <= MaxTid
<1>1. IsFiniteSet(Tids)
  BY FS_Interval, TaskAssumption DEF Tids
<1>2. IsFiniteSet(S)
  BY <1>1, FS_Subset
<1>3. ASSUME 0 \notin S PROVE Cardinality(S) <= MaxTid
  <2>1. S \in SUBSET (1 .. MaxTid)
    BY <1>3, TaskAssumption DEF Tids
  <2>2. IsFiniteSet(1 .. MaxTid) /\ Cardinality(1 .. MaxTid) = MaxTid
    BY FS_Interval, TaskAssumption
  <2>3. QED
    BY <2>1, <2>2, FS_Subset
<1>4. QED
  BY <1>2, <1>3, FS_CardinalityType

\* What Remove does to the keys in use and to the count.
LEMMA RemoveKeys ==
  ASSUME Inv, NEW gone, gone \subseteq Used, Remove(gone)
  PROVE  /\ Used' = Used \ gone
         /\ task_map' \in [Tids -> Tasks \cup {NoTask}]
         /\ \A tid \in Used \ gone : task_map'[tid] = task_map[tid]
         /\ task_map'[0] = NoTask
         /\ task_count' \in 0 .. MaxTid
         /\ CountExact'
<1>1. /\ Used' = Used \ gone
      /\ task_map' \in [Tids -> Tasks \cup {NoTask}]
      /\ \A tid \in Used \ gone : task_map'[tid] = task_map[tid]
  BY DEF Remove, Used, Inv, TypeOK
<1>2. task_map'[0] = NoTask
  BY TaskAssumption DEF Remove, Inv, MapOwns, Tids
<1>3. Used \subseteq Tids /\ gone \subseteq Tids /\ Used \ gone \subseteq Tids
  BY DEF Used
<1>4. 0 \notin Used
  BY DEF Used, Inv, MapOwns
<1>5. Cardinality(Used \ gone) = Cardinality(Used) - Cardinality(Used \cap gone)
  BY <1>3, UsedFinite, FS_Difference
<1>6. Used \cap gone = gone
  OBVIOUS
<1>7. task_count' = Cardinality(Used \ gone)
  BY <1>5, <1>6 DEF Remove, Inv, CountExact
<1>8. Cardinality(Used \ gone) \in 0 .. MaxTid
  BY <1>3, <1>4, UsedFinite, TaskAssumption
<1>9. QED
  BY <1>1, <1>2, <1>7, <1>8 DEF CountExact

\* CloseFiles closes the file of every task it is given once, because the map
\* is injective.
LEMMA CloseOnce ==
  ASSUME Inv, NEW closing, closing \subseteq Used, CloseFiles(closing)
  PROVE  \A t \in Tasks :
           open_fh'[t] = IF \E tid \in closing : task_map[tid] = t
                         THEN open_fh[t] - 1 ELSE open_fh[t]
<1> TAKE t \in Tasks
<1> DEFINE hits == {tid \in closing : task_map[tid] = t}
<1>1. open_fh'[t] = open_fh[t] - Cardinality(hits)
  BY DEF CloseFiles
<1>2. open_fh[t] \in Int
  BY DEF Inv, TypeOK
<1>3. CASE \E tid \in closing : task_map[tid] = t
  <2>1. PICK tid \in closing : task_map[tid] = t
    BY <1>3
  <2>2. hits = {tid}
    BY <2>1 DEF Inv, MapOwns
  <2>3. QED
    BY <1>1, <1>2, <1>3, <2>2, FS_Singleton
<1>4. CASE ~ \E tid \in closing : task_map[tid] = t
  <2>1. hits = {}
    BY <1>4
  <2>2. QED
    BY <1>1, <1>2, <1>4, <2>1, FS_EmptySet
<1>5. QED
  BY <1>3, <1>4

-----------------------------------------------------------------------------
\* Removing a set of ids, closing their files and deleting their objects keeps
\* the invariant; newstate gives the states of the objects that stay.
LEMMA RemovePreserves ==
  ASSUME Inv, NEW gone, gone \subseteq Used, Remove(gone), CloseFiles(gone),
         next_tid' = next_tid, up' \in BOOLEAN,
         state' \in [Tasks -> States],
         \A t \in Tasks :
           IF \E tid \in gone : task_map[tid] = t
           THEN state'[t] = "NONE"
           ELSE /\ (state'[t] = "NONE" <=> state[t] = "NONE")
                /\ (state'[t] = "LEAKED" <=> state[t] = "LEAKED")
  PROVE  Inv'
<1>1. /\ Used' = Used \ gone
      /\ \A tid \in Used \ gone : task_map'[tid] = task_map[tid]
      /\ CountExact'
  BY RemoveKeys
<1>2. \A t \in Tasks : (\E tid \in gone : task_map[tid] = t) =>
         ~ \E tid \in Used \ gone : task_map[tid] = t
  BY DEF Inv, MapOwns
<1>3. \A t \in Tasks :
        open_fh'[t] = IF \E tid \in gone : task_map[tid] = t
                      THEN open_fh[t] - 1 ELSE open_fh[t]
  BY CloseOnce
<1>4. \A t \in Tasks : (\E tid \in gone : task_map[tid] = t) =>
        state[t] \in {"READY", "RUNNING", "PAUSED"}
  BY DEF Inv, MapOwns
<1>5. \A t \in Tasks : open_fh'[t] = IF state'[t] = "NONE" THEN 0 ELSE 1
  BY <1>3, <1>4 DEF Inv, FileClosedOnce
<1>6. TypeOK'
  <2>1. open_fh' \in [Tasks -> 0 .. 1]
    <3>1. \A t \in Tasks : open_fh'[t] \in 0 .. 1
      BY <1>5
    <3>2. QED
      BY <3>1 DEF CloseFiles
  <2>2. QED
    BY <2>1, RemoveKeys DEF Inv, TypeOK
<1>7. MapOwns'
  <2>1. \A a, b \in Used' : task_map'[a] = task_map'[b] => a = b
    BY <1>1 DEF Inv, MapOwns
  <2>2. ASSUME NEW t \in Tasks
        PROVE  state'[t] \in {"READY", "RUNNING", "PAUSED"}
                 <=> \E tid \in Used' : task_map'[tid] = t
    <3>1. (\E tid \in Used' : task_map'[tid] = t)
            <=> \E tid \in Used \ gone : task_map[tid] = t
      BY <1>1
    <3>2. state[t] \in States /\ state'[t] \in States
      BY DEF Inv, TypeOK
    <3>3. CASE \E tid \in gone : task_map[tid] = t
      BY <1>2, <3>1, <3>3
    <3>4. CASE ~ \E tid \in gone : task_map[tid] = t
      <4>1. state'[t] \in {"READY", "RUNNING", "PAUSED"}
              <=> state[t] \in {"READY", "RUNNING", "PAUSED"}
        BY <3>2, <3>4 DEF States
      <4>2. QED
        BY <3>1, <3>4, <4>1 DEF Inv, MapOwns
    <3>5. QED
      BY <3>3, <3>4
  <2>3. QED
    BY <2>1, <2>2, RemoveKeys DEF MapOwns
<1>8. FileClosedOnce'
  BY <1>5 DEF FileClosedOnce
<1>9. QED
  BY <1>1, <1>6, <1>7, <1>8 DEF Inv

\* A submit keeps the invariant, whether or not it finds an id.
LEMMA SubmitPreserves ==
  ASSUME Inv, NEW t \in Tasks, submit_task(t)
  PROVE  Inv'
<1> DEFINE tid == get_free_tid
<1>1. tid \in Tids /\ (tid # 0 => task_map[tid] = NoTask)
  BY FreeTid DEF Inv
<1>2. state[t] = "NONE" /\ \A k \in Used : task_map[k] # t
  BY DEF submit_task, Inv, MapOwns
<1>3. /\ open_fh' = [open_fh EXCEPT ![t] = 1]
      /\ up' = up
  BY DEF submit_task
<1> HIDE DEF tid
<1>4. CASE tid = 0
  <2>1. /\ state' = [state EXCEPT ![t] = "LEAKED"]
        /\ UNCHANGED <<task_map, next_tid, task_count>>
    BY <1>4 DEF submit_task, tid
  <2>2. Used' = Used
    BY <2>1 DEF Used
  <2>3. TypeOK'
    BY <1>3, <2>1 DEF Inv, TypeOK, States
  <2>4. CountExact'
    BY <2>1, <2>2 DEF Inv, CountExact
  <2>5. MapOwns'
    BY <1>2, <2>1, <2>2 DEF Inv, MapOwns, TypeOK
  <2>6. FileClosedOnce'
    BY <1>3, <2>1 DEF Inv, FileClosedOnce, TypeOK
  <2>7. QED
    BY <2>3, <2>4, <2>5, <2>6 DEF Inv
<1>5. CASE tid # 0
  <2>1. /\ state' = [state EXCEPT ![t] = "READY"]
        /\ task_map' = [task_map EXCEPT ![tid] = t]
        /\ task_count' = task_count + 1
        /\ next_tid' = (tid + 1) % (MaxTid + 1)
    BY <1>5 DEF submit_task, tid
  <2>2. Used' = Used \cup {tid} /\ tid \notin Used
    BY <1>1, <1>5, <2>1, TaskAssumption DEF Used, Inv, TypeOK
  <2>3. CountExact' /\ task_count' \in 0 .. MaxTid
    <3>1. Used \subseteq Tids /\ Used' \subseteq Tids
      BY DEF Used
    <3>2. Cardinality(Used') = Cardinality(Used) + 1
      BY <2>2, <3>1, UsedFinite, FS_AddElement
    <3>3. 0 \notin Used'
      BY <1>5, <2>2 DEF Used, Inv, MapOwns
    <3>4. Cardinality(Used') \in Nat /\ Cardinality(Used') <= MaxTid
      BY <3>1, <3>3, UsedFinite
    <3>5. QED
      BY <2>1, <3>2, <3>4, TaskAssumption DEF Inv, CountExact
  <2>4. next_tid' \in Tids
    BY <1>1, <2>1, TaskAssumption DEF Tids
  <2>5. TypeOK'
    BY <1>1, <1>3, <2>1, <2>3, <2>4 DEF Inv, TypeOK, States
  <2>6. MapOwns'
    <3>1. task_map'[0] = NoTask
      BY <1>1, <1>5, <2>1, TaskAssumption DEF Inv, MapOwns, TypeOK, Tids
    <3>2. /\ task_map'[tid] = t
          /\ \A k \in Used : task_map'[k] = task_map[k]
      BY <1>1, <2>1, <2>2 DEF Inv, TypeOK
    <3>3. \A a, b \in Used' : task_map'[a] = task_map'[b] => a = b
      BY <1>2, <2>2, <3>2 DEF Inv, MapOwns
    <3>4. \A u \in Tasks : state'[u] \in {"READY", "RUNNING", "PAUSED"}
                             <=> \E k \in Used' : task_map'[k] = u
      BY <1>2, <2>1, <2>2, <3>2 DEF Inv, MapOwns, TypeOK
    <3>5. QED
      BY <3>1, <3>3, <3>4 DEF MapOwns
  <2>7. FileClosedOnce'
    BY <1>3, <2>1 DEF Inv, FileClosedOnce, TypeOK
  <2>8. QED
    BY <2>3, <2>5, <2>6, <2>7 DEF Inv
<1>6. QED
  BY <1>4, <1>5

-----------------------------------------------------------------------------
\* Pausing and resuming only move an object between states of the map.
LEMMA StatePreserves ==
  ASSUME Inv, NEW tid \in Used, NEW s \in {"RUNNING", "PAUSED"},
         state' = [state EXCEPT ![task_map[tid]] = s],
         UNCHANGED <<task_map, next_tid, task_count, open_fh, up>>
  PROVE  Inv'
<1> DEFINE t == task_map[tid]
<1>1. t \in Tasks /\ state[t] \in {"READY", "RUNNING", "PAUSED"}
  BY DEF Used, Inv, TypeOK, MapOwns
<1>2. Used' = Used
  BY DEF Used
<1> HIDE DEF t
<1>3. state' = [state EXCEPT ![t] = s]
  BY DEF t
<1>4. TypeOK'
  BY <1>1, <1>3 DEF Inv, TypeOK, States
<1>5. CountExact'
  BY <1>2 DEF Inv, CountExact
<1>6. MapOwns'
  BY <1>1, <1>2, <1>3 DEF Inv, MapOwns, TypeOK
<1>7. FileClosedOnce'
  BY <1>1, <1>3 DEF Inv, FileClosedOnce, TypeOK
<1>8. QED
  BY <1>4, <1>5, <1>6, <1>7 DEF Inv

\* abort_task removes one id.
LEMMA AbortPreserves ==
  ASSUME Inv, NEW tid \in Tids, abort_task(tid)
  PROVE  Inv'
<1>1. tid \in Used /\ task_map[tid] \in Tasks
  BY DEF abort_task, Used, Inv, TypeOK
<1>2. state' = [state EXCEPT ![task_map[tid]] = "NONE"]
  BY DEF abort_task
<1>3. state' \in [Tasks -> States]
  BY <1>1, <1>2 DEF Inv, TypeOK, States
<1>4. \A t \in Tasks : IF \E k \in {tid} : task_map[k] = t
                       THEN state'[t] = "NONE" ELSE state'[t] = state[t]
  BY <1>1, <1>2 DEF Inv, TypeOK
<1>5. Remove({tid}) /\ CloseFiles({tid}) /\ next_tid' = next_tid /\ up' \in BOOLEAN
  BY DEF abort_task, Inv, TypeOK
<1>6. QED
  BY <1>1, <1>3, <1>4, <1>5, RemovePreserves

\* A pass of service() removes the ids that failed or completed and lets the
\* started ones run.
LEMMA ServicePreserves ==
  ASSUME Inv, service
  PROVE  Inv'
<1>1. PICK result \in [Active -> {-1, 0, 1}] :
       LET IsIn(tid, s) == tid \in Active /\ state[task_map[tid]] = s
           failed    == {tid \in Active : result[tid] < 0}
           started   == {tid \in Active : IsIn(tid, "READY") /\ result[tid] >= 0}
           completed == {tid \in Active : IsIn(tid, "RUNNING") /\ result[tid] > 0}
           gone      == failed \cup completed
           Hit(t, S) == \E tid \in S : task_map[tid] = t
       IN  /\ CloseFiles(gone)
           /\ state' = [t \in Tasks |->
                          CASE Hit(t, gone)    -> "NONE"
                            [] Hit(t, started) -> "RUNNING"
                            [] OTHER           -> state[t]]
           /\ Remove(gone)
  BY DEF service
<1> DEFINE gone    == {tid \in Active : result[tid] < 0}
                        \cup {tid \in Active : /\ tid \in Active
                                               /\ state[task_map[tid]] = "RUNNING"
                                               /\ result[tid] > 0}
           started == {tid \in Active : /\ tid \in Active
                                        /\ state[task_map[tid]] = "READY"
                                        /\ result[tid] >= 0}
           HitG(t) == \E tid \in gone : task_map[tid] = t
           HitS(t) == \E tid \in started : task_map[tid] = t
<1>2. /\ CloseFiles(gone)
      /\ Remove(gone)
      /\ state' = [t \in Tasks |-> CASE HitG(t) -> "NONE"
                                     [] HitS(t) -> "RUNNING"
                                     [] OTHER   -> state[t]]
  BY <1>1
<1>3. gone \subseteq Used /\ started \subseteq Used
  BY DEF Active
<1>4. \A t \in Tasks : HitS(t) => state[t] = "READY"
  BY DEF Active
<1>5. \A t \in Tasks : HitG(t) => state[t] # "NONE"
  BY DEF Active
<1> HIDE DEF gone, started
<1>6. \A t \in Tasks : HitG(t) /\ HitS(t) =>
        \E tid \in gone \cap started : task_map[tid] = t
  BY <1>3 DEF Inv, MapOwns
<1>7. gone \cap started = {}
  BY DEF gone, started, Active
<1>8. \A t \in Tasks : ~ (HitG(t) /\ HitS(t))
  BY <1>6, <1>7
<1> HIDE DEF HitG, HitS
<1>9. \A t \in Tasks : state'[t] = IF HitG(t) THEN "NONE"
                                   ELSE IF HitS(t) THEN "RUNNING" ELSE state[t]
  BY <1>2, <1>8
<1>10. state' \in [Tasks -> States]
  <2>1. \A t \in Tasks : state'[t] \in States
    BY <1>9 DEF Inv, TypeOK, States
  <2>2. QED
    BY <1>2, <2>1
<1>11. \A t \in Tasks :
           IF \E tid \in gone : task_map[tid] = t
           THEN state'[t] = "NONE"
           ELSE /\ (state'[t] = "NONE" <=> state[t] = "NONE")
                /\ (state'[t] = "LEAKED" <=> state[t] = "LEAKED")
  <2> TAKE t \in Tasks
  <2>1. (\E tid \in gone : task_map[tid] = t) <=> HitG(t)
    BY DEF HitG
  <2>2. QED
    BY <1>4, <1>9, <2>1
<1>12. next_tid' = next_tid /\ up' \in BOOLEAN
  BY DEF service, Inv, TypeOK
<1>13. QED
  BY <1>2, <1>3, <1>10, <1>11, <1>12, RemovePreserves

\* Shutdown removes every id at once.
LEMMA ShutdownPreserves ==
  ASSUME Inv, shutdown
  PROVE  Inv'
<1>1. /\ CloseFiles(Used)
      /\ task_map' = [tid \in Tids |-> NoTask]
      /\ task_count' = 0
      /\ next_tid' = next_tid /\ up' = FALSE
      /\ state' = [t \in Tasks |-> IF \E tid \in Used : task_map[tid] = t
                                   THEN "NONE" ELSE state[t]]
  BY DEF shutdown
<1>2. Remove(Used)
  <2>1. [tid \in Tids |-> NoTask]
          = [tid \in Tids |-> IF tid \in Used THEN NoTask ELSE task_map[tid]]
    BY DEF Used
  <2>2. task_count - Cardinality(Used) = 0
    BY DEF Inv, CountExact, TypeOK
  <2>3. QED
    BY <1>1, <2>1, <2>2 DEF Remove
<1>3. state' \in [Tasks -> States]
  BY <1>1 DEF Inv, TypeOK, States
<1>4. QED
  BY <1>1, <1>2, <1>3, RemovePreserves

-----------------------------------------------------------------------------
\* The manager's invariants hold in every reachable state, for every number of
\* task objects and every width of the task id: _task_count equals the size of
\* _task_map, the map owns every live object exactly once, and every file is
\* closed exactly once.
THEOREM TaskManagerSafe == Spec => [](TypeOK /\ CountExact /\ MapOwns /\ FileClosedOnce)
<1>1. Init => Inv
  <2> SUFFICES ASSUME Init PROVE Inv
    OBVIOUS
  <2>1. Used = {}
    BY DEF Init, Used
  <2>2. TypeOK
    BY TaskAssumption DEF Init, TypeOK, States, Tids
  <2>3. CountExact
    BY <2>1, FS_EmptySet DEF Init, CountExact
  <2>4. MapOwns
    BY <2>1, TaskAssumption DEF Init, MapOwns, Tids
  <2>5. FileClosedOnce
    BY DEF Init, FileClosedOnce
  <2>6. QED
    BY <2>2, <2>3, <2>4, <2>5 DEF Inv
<1>2. Inv /\ [Next]_vars => Inv'
  <2> SUFFICES ASSUME Inv, [Next]_vars PROVE Inv'
    OBVIOUS
  <2>1. ASSUME NEW t \in Tasks, submit_task(t) PROVE Inv'
    BY <2>1, SubmitPreserves
  <2>2. ASSUME NEW tid \in Tids, pause_task(tid) PROVE Inv'
    BY <2>2, StatePreserves DEF pause_task
  <2>3. ASSUME NEW tid \in Tids, resume_task(tid) PROVE Inv'
    BY <2>3, StatePreserves DEF resume_task
  <2>4. ASSUME NEW tid \in Tids, abort_task(tid) PROVE Inv'
    BY <2>4, AbortPreserves
  <2>5. CASE service
    BY <2>5, ServicePreserves
  <2>6. CASE shutdown
    BY <2>6, ShutdownPreserves
  <2>7. CASE UNCHANGED vars
    BY <2>7 DEF vars, Inv, TypeOK, CountExact, MapOwns, FileClosedOnce, Used
  <2>8. QED
    BY <2>1, <2>2, <2>3, <2>4, <2>5, <2>6, <2>7 DEF Next
<1>3. Inv => TypeOK /\ CountExact /\ MapOwns /\ FileClosedOnce
  BY DEF Inv
<1>4. QED
  BY <1>1, <1>2, <1>3, PTL DEF Spec

\* The members of the manager keep their types: in particular the count never
\* goes below zero, which in the code would be a count of 255.
THEOREM TypeCorrect == Spec => []TypeOK
BY TaskManagerSafe, PTL

\* No submission, abort, completion or turn of service() leaves a task in the
\* map twice, under a key that is not its id, or after it has ended.
THEOREM TasksOwned == Spec => []MapOwns
BY TaskManagerSafe, PTL

\* The file of a download is closed by exactly one of abort, the last step and
\* shutdown.
THEOREM FilesClosed == Spec => []FileClosedOnce
BY TaskManagerSafe, PTL
=============================================================================
