---------------------------- MODULE TaskManager ----------------------------
(***************************************************************************)
(* The cooperative task manager (lib/task/fnTaskManager.cpp) together with *)
(* its only client, the web browser's file download                        *)
(* (lib/http/httpServiceBrowser.cpp).                                      *)
(*                                                                         *)
(* _task_map maps 8-bit task ids to task objects.  The map is a total      *)
(* function here, NoTask standing for "key absent".  MaxTid is 2^w - 1 for *)
(* the w-bit ids of the code (255 there), so id arithmetic is modulo       *)
(* MaxTid + 1 and wraps to 0, the id that is never valid.                  *)
(*                                                                         *)
(* open_fh[t] counts the file handles owned by task object t: one from its *)
(* creation, minus one for every close the task performs on it.            *)
(***************************************************************************)
EXTENDS Integers, FiniteSets, FiniteSetsExt

CONSTANTS
  Tasks,    \* task objects (a deleted object's name may be allocated again)
  NoTask,   \* "no such key" in _task_map
  MaxTid    \* largest value of a task id

ASSUME TaskAssumption ==
  /\ IsFiniteSet(Tasks)
  /\ NoTask \notin Tasks
  /\ MaxTid \in Nat \ {0}

VARIABLES
  task_map,    \* _task_map
  next_tid,    \* _next_tid
  task_count,  \* _task_count
  state,       \* _state of every task object; "NONE" when it is not allocated,
               \* "LEAKED" when its creator lost it
  open_fh,     \* file handles held by the object
  up           \* FALSE once the manager has been destroyed

vars == <<task_map, next_tid, task_count, state, open_fh, up>>

Tids == 0 .. MaxTid
Used == {tid \in Tids : task_map[tid] # NoTask}

-----------------------------------------------------------------------------
\* Mutant: the search trusts _next_tid and does not look into the map.
get_free_tid_NoProbe == IF next_tid = 0 THEN 1 ELSE next_tid

\* Probes _next_tid, _next_tid + 1, ... skipping 0 after an increment, until a
\* key that is not in the map or until the search is back where it began.
get_free_tid ==
  LET free  == (1 .. MaxTid) \ Used
      after == {tid \in free : tid > next_tid}
  IN  IF task_map[next_tid] = NoTask THEN next_tid
      ELSE IF free = {} THEN 0
      ELSE IF after # {} THEN Min(after)
      ELSE Min(free)

\* Keys of the READY and RUNNING tasks, the ones service() works on.
Active == {tid \in Used : state[task_map[tid]] \in {"READY", "RUNNING"}}

Init ==
  /\ task_map = [tid \in Tids |-> NoTask]
  /\ next_tid = 1
  /\ task_count = 0
  /\ state = [t \in Tasks |-> "NONE"]
  /\ open_fh = [t \in Tasks |-> 0]
  /\ up = TRUE

\* browse_sendfile: create the task around the open file, then submit_task.
\* When no id is found the object stays behind: the caller drops its pointer
\* and neither deletes it nor closes the file handle.
submit_task(t) ==
  /\ up
  /\ state[t] = "NONE"
  /\ open_fh' = [open_fh EXCEPT ![t] = 1]
  /\ LET tid == get_free_tid
     IN  IF tid = 0
         THEN /\ state' = [state EXCEPT ![t] = "LEAKED"]
              /\ UNCHANGED <<task_map, next_tid, task_count>>
         ELSE /\ state' = [state EXCEPT ![t] = "READY"]
              /\ task_map' = [task_map EXCEPT ![tid] = t]
              /\ task_count' = task_count + 1
              /\ next_tid' = (tid + 1) % (MaxTid + 1)
  /\ UNCHANGED up

pause_task(tid) ==
  /\ up
  /\ tid \in Used
  /\ state[task_map[tid]] = "RUNNING"
  /\ state' = [state EXCEPT ![task_map[tid]] = "PAUSED"]
  /\ UNCHANGED <<task_map, next_tid, task_count, open_fh, up>>

resume_task(tid) ==
  /\ up
  /\ tid \in Used
  /\ state[task_map[tid]] = "PAUSED"
  /\ state' = [state EXCEPT ![task_map[tid]] = "RUNNING"]
  /\ UNCHANGED <<task_map, next_tid, task_count, open_fh, up>>

\* Mutant: service() decrements the count and so do the calls it makes.
Remove_CountTwice(gone) ==
  /\ task_map' = [tid \in Tids |-> IF tid \in gone THEN NoTask ELSE task_map[tid]]
  /\ task_count' = task_count - 2 * Cardinality(gone)

\* Mutant: an aborted task does not count.
Remove_KeepCount(gone) ==
  /\ task_map' = [tid \in Tids |-> IF tid \in gone THEN NoTask ELSE task_map[tid]]
  /\ UNCHANGED task_count

\* Erase the tids of the set from the map and delete their tasks; used by
\* abort_task, complete_task and service.
Remove(gone) ==
  /\ task_map' = [tid \in Tids |-> IF tid \in gone THEN NoTask ELSE task_map[tid]]
  /\ task_count' = task_count - Cardinality(gone)

\* Mutant: a task that ends leaves its file open.
CloseFiles_Forget(closing) == UNCHANGED open_fh

\* fnTask::abort() and a step() that returns "done" both close the file and
\* delete the file system (fnHttpSendFileTask).
CloseFiles(closing) ==
  open_fh' = [t \in Tasks |-> open_fh[t] - Cardinality({tid \in closing : task_map[tid] = t})]

abort_task(tid) ==
  /\ up
  /\ tid \in Used
  /\ CloseFiles({tid})
  /\ state' = [state EXCEPT ![task_map[tid]] = "NONE"]
  /\ Remove({tid})
  /\ UNCHANGED <<next_tid, up>>

\* Mutant: the idle test is off by one.
service_IdleAtOne ==
  /\ up
  /\ task_count > 1
  /\ state' = [t \in Tasks |-> IF \E tid \in Active : task_map[tid] = t
                               THEN "RUNNING" ELSE state[t]]
  /\ UNCHANGED <<task_map, next_tid, task_count, open_fh, up>>

\* One pass over the map: start() the READY tasks and step() the RUNNING ones,
\* then abort the tasks that failed and delete the tasks that completed.
service ==
  /\ up
  /\ task_count # 0
  /\ \E result \in [Active -> {-1, 0, 1}] :
       LET IsIn(tid, s) == tid \in Active /\ state[task_map[tid]] = s
           failed    == {tid \in Active : result[tid] < 0}
           started   == {tid \in Active : IsIn(tid, "READY") /\ result[tid] >= 0}
           completed == {tid \in Active : IsIn(tid, "RUNNING") /\ result[tid] > 0}
           gone      == failed \cup completed
           Hit(t, S) == \E tid \in S : task_map[tid] = t
       IN  /\ CloseFiles(gone)
           /\ state' = [t \in Tasks |->
                          CASE Hit(t, gone)    -> "NONE"
                            [] Hit(t, started) -> "RUNNING"
                            [] OTHER           -> state[t]]
           /\ Remove(gone)
  /\ UNCHANGED <<next_tid, up>>

\* The destructor: abort() and delete every task still in the map.
shutdown ==
  /\ up
  /\ CloseFiles(Used)
  /\ state' = [t \in Tasks |-> IF \E tid \in Used : task_map[tid] = t THEN "NONE" ELSE state[t]]
  /\ task_map' = [tid \in Tids |-> NoTask]
  /\ task_count' = 0
  /\ up' = FALSE
  /\ UNCHANGED next_tid

Next ==
  \/ \E t \in Tasks : submit_task(t)
  \/ \E tid \in Tids : pause_task(tid)
  \/ \E tid \in Tids : resume_task(tid)
  \/ \E tid \in Tids : abort_task(tid)
  \/ service
  \/ shutdown

\* The main loop (fn_service_loop) calls service() on every turn.
Fairness == WF_vars(service)

Spec == Init /\ [][Next]_vars /\ Fairness

-----------------------------------------------------------------------------
States == {"NONE", "LEAKED", "READY", "RUNNING", "PAUSED"}

\* Type correctness.  task_count never leaves the range of the uint8_t that
\* holds it, whatever sequence of submits and removals is made.
TypeOK ==
  /\ task_map \in [Tids -> Tasks \cup {NoTask}]
  /\ next_tid \in Tids
  /\ task_count \in 0 .. MaxTid
  /\ state \in [Tasks -> States]
  /\ open_fh \in [Tasks -> 0 .. 1]
  /\ up \in BOOLEAN

\* _task_count is kept by hand beside the map and service() trusts it to decide
\* that there is nothing to do: it equals the number of keys at every moment.
CountExact == task_count = Cardinality(Used)

\* The map owns its objects (abort_task, complete_task and shutdown delete what
\* they find): no object is under two ids, none is under the invalid id 0, and
\* an object is READY, RUNNING or PAUSED exactly while some id leads to it.
MapOwns ==
  /\ task_map[0] = NoTask
  /\ \A a, b \in Used : task_map[a] = task_map[b] => a = b
  /\ \A t \in Tasks : state[t] \in {"READY", "RUNNING", "PAUSED"}
                        <=> \E tid \in Used : task_map[tid] = t

\* The file of a download is closed exactly once, whichever of completion,
\* failure, abort and shutdown ends its task: an object in the map holds its
\* handle, an object that was deleted does not.
FileClosedOnce ==
  \A t \in Tasks : open_fh[t] = IF state[t] = "NONE" THEN 0 ELSE 1

\* A submitted task is not forgotten: the main loop starts it, unless it is
\* aborted or the manager goes down first.
SubmittedTaskStarts ==
  \A t \in Tasks : state[t] = "READY" ~> state[t] # "READY"

\* get_free_tid's own comments say a search ends without an id only when it
\* "wrapped around, no free ID": while some id of 1 .. MaxTid is unused, the
\* next submit_task gets one.
FreeTidFound ==
  up /\ (\E tid \in 1 .. MaxTid : task_map[tid] = NoTask) => get_free_tid # 0
=============================================================================
