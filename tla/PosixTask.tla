-------------------------------- MODULE PosixTask --------------------------------
(***************************************************************************)
(* The POSIX tasks of adapter/posix/task.c, step by step: the table TASKS, *)
(* which no lock protects, one thread that creates tasks (main, on the     *)
(* emulator) and the tasks, which ask for their name and delete themselves.*)
(*                                                                         *)
(* A thread is never joined nor detached, so that its pthread_t is not     *)
(* used again.  The memory of a freed task is.  TASKS[i] is read anew or   *)
(* kept in a register, as the compiler likes; reading a task that has been *)
(* freed, or NULL, is undefined.                                           *)
(***************************************************************************)
EXTENDS Naturals

CONSTANTS
  MAX_TASKS,
  MaxThreads,   \* bound: threads created
  Addresses,    \* where a Task may be allocated
  Malloc(_),    \* Malloc(S): those the allocator may give when S are free
  NULL

ASSUME TaskAssumption ==
  /\ MAX_TASKS \in Nat \ {0}
  /\ MaxThreads \in Nat
  /\ NULL \notin Nat /\ NULL \notin Addresses
  /\ \A S \in SUBSET Addresses : Malloc(S) \subseteq S

VARIABLES
  TASKS,        \* the table: addresses or NULL
  allocated,    \* the addresses in use
  thread,       \* thread[a]: the field of the Task at a
  mpc,          \* where the creator is in Task_Create
  result,       \* its local: the new task
  current,      \* the thread just created
  mindex,       \* its i
  returned,     \* the threads whose handle Task_Create has returned
  pc,           \* where thread k is
  caller,       \* what thread k calls Task_GetSelf for
  index,        \* index[k]: its i
  task,         \* task[k]: the entry it looks at, or the task it deletes
  cancelled,    \* threads with a pending pthread_cancel
  own,          \* own[k]: the Task made for thread k, for the properties
  crowded,      \* the threads created when TASKS was full, likewise
  sys           \* "up" or "undefined"

creator == <<mpc, result, current, mindex, returned>>
threads == <<pc, caller, index, task, cancelled>>
history == <<own, crowded>>
vars == <<TASKS, allocated, thread, creator, threads, history, sys>>

Entries == 1 .. MAX_TASKS

\* The threads, in the order they are created.
Ids == 1 .. MaxThreads

Init ==
  /\ TASKS = [n \in Entries |-> NULL]
  /\ allocated = {} /\ thread = [a \in Addresses |-> NULL]
  /\ mpc = "idle" /\ result = NULL /\ current = NULL /\ mindex = 1 /\ returned = {}
  /\ pc = [k \in Ids |-> "none"] /\ caller = [k \in Ids |-> "name"]
  /\ index = [k \in Ids |-> 1] /\ task = [k \in Ids |-> NULL]
  /\ cancelled = {}
  /\ own = [k \in Ids |-> NULL] /\ crowded = {}
  /\ sys = "up"

-------------------------------------------------------------------------------
(* Task_Create                                                             *)

GoMain(from, to) ==
  /\ sys = "up" /\ mpc = from /\ mpc' = to
  /\ UNCHANGED <<threads, sys>>

\* xcalloc, which aborts when there is no memory.
CallCreate ==
  /\ GoMain("idle", "spawn")
  /\ \E a \in Malloc(Addresses \ allocated) :
       /\ allocated' = allocated \cup {a}
       /\ result' = a
  /\ UNCHANGED <<TASKS, thread, current, mindex, returned, history>>

\* The thread may run from here on.
Spawn ==
  /\ sys = "up" /\ mpc = "spawn" /\ mpc' = "search" /\ mindex' = 1
  /\ \E k \in Ids :
       /\ pc[k] = "none" /\ (k > 1 => pc[k - 1] # "none")
       /\ pc' = [pc EXCEPT ![k] = "run"]
       /\ thread' = [thread EXCEPT ![result] = k]
       /\ current' = k
       /\ own' = [own EXCEPT ![k] = result]
       /\ crowded' = IF \E n \in Entries : TASKS[n] = NULL THEN crowded ELSE crowded \cup {k}
  /\ UNCHANGED <<TASKS, allocated, result, returned, caller, index, task, cancelled, sys>>

\* Mutant of SpawnFails: the error is not looked at.
SpawnFailsIgnored ==
  /\ GoMain("spawn", "search") /\ mindex' = 1
  /\ UNCHANGED <<TASKS, allocated, thread, result, current, returned, history>>

\* pthread_create fails: NULL is returned, and the Task is not freed.
SpawnFails ==
  /\ GoMain("spawn", "idle") /\ result' = NULL
  /\ UNCHANGED <<TASKS, allocated, thread, current, mindex, returned, history>>

\* Mutant of Search: the first entry is taken, whatever is there.
SearchOverwrites ==
  /\ GoMain("search", "enter")
  /\ UNCHANGED <<TASKS, allocated, thread, result, current, mindex, returned, history>>

\* The search for a free entry.
Search ==
  /\ mindex \in Entries
  /\ \/ TASKS[mindex] = NULL /\ GoMain("search", "enter") /\ UNCHANGED mindex
     \/ TASKS[mindex] # NULL /\ GoMain("search", "search") /\ mindex' = mindex + 1
  /\ UNCHANGED <<TASKS, allocated, thread, result, current, returned, history>>

\* The task is returned, entered in TASKS or, when no entry was free, not.
Return ==
  /\ returned' = returned \cup {current}
  /\ result' = NULL /\ current' = NULL /\ mindex' = 1
  /\ UNCHANGED <<allocated, thread, history>>

Enter ==
  /\ GoMain("enter", "idle")
  /\ TASKS' = [TASKS EXCEPT ![mindex] = result]
  /\ Return

NoEntry ==
  /\ GoMain("search", "idle") /\ mindex > MAX_TASKS
  /\ UNCHANGED TASKS
  /\ Return

-------------------------------------------------------------------------------
(* Task_GetSelf, in Task_GetName(NULL) and Task_Delete(NULL)               *)

\* Thread k moves on.
Go(k, from, to) ==
  /\ sys = "up" /\ pc[k] = from /\ pc' = [pc EXCEPT ![k] = to]
  /\ UNCHANGED <<creator, history, sys>>

\* The call of thread k is over, and with it its locals.
Locals(k) ==
  /\ caller' = [caller EXCEPT ![k] = "name"]
  /\ index' = [index EXCEPT ![k] = 1]
  /\ task' = [task EXCEPT ![k] = NULL]

\* Memory that is not a task is read.
Undefined ==
  /\ sys' = "undefined"
  /\ UNCHANGED <<TASKS, allocated, thread, creator, threads, history>>

CallGetSelf(k) ==
  /\ Go(k, "run", "test")
  /\ index' = [index EXCEPT ![k] = 1]
  /\ \E what \in {"name", "delete"} : caller' = [caller EXCEPT ![k] = what]
  /\ UNCHANGED <<TASKS, allocated, thread, task, cancelled>>

\* TASKS[i] != NULL
Test(k) ==
  /\ index[k] \in Entries
  /\ \/ /\ TASKS[index[k]] = NULL /\ Go(k, "test", "test")
        /\ index' = [index EXCEPT ![k] = @ + 1] /\ UNCHANGED task
     \/ /\ TASKS[index[k]] # NULL /\ Go(k, "test", "compare")
        /\ task' = [task EXCEPT ![k] = TASKS[index[k]]] /\ UNCHANGED index
  /\ UNCHANGED <<TASKS, allocated, thread, caller, cancelled>>

\* Mutant of IsSelf: the first task there is.
IsAnybody(k, a) == thread[a] # NULL

IsSelf(k, a) == thread[a] = k

\* TASKS[i]->thread == self, and TASKS[i] is returned.
Compare(k) ==
  /\ sys = "up" /\ pc[k] = "compare"
  /\ \E a \in {task[k], TASKS[index[k]]} :
       \/ a \notin allocated /\ Undefined
       \/ /\ a \in allocated /\ ~IsSelf(k, a)
          /\ Go(k, "compare", "test")
          /\ index' = [index EXCEPT ![k] = @ + 1]
          /\ task' = [task EXCEPT ![k] = NULL]
          /\ UNCHANGED <<TASKS, allocated, thread, caller, cancelled>>
       \/ /\ a \in allocated /\ IsSelf(k, a)
          /\ Go(k, "compare", "found")
          /\ task' = [task EXCEPT ![k] = a]
          /\ UNCHANGED <<TASKS, allocated, thread, caller, index, cancelled>>

\* The name is read, or the task is deleted.  It is the caller's own, which
\* nobody else frees (DeletesItself).
Found(k) ==
  /\ sys = "up" /\ pc[k] = "found"
  /\ \E a \in {task[k], TASKS[index[k]]} :
       \/ /\ caller[k] = "name"
          /\ Go(k, "found", "run") /\ Locals(k)
          /\ UNCHANGED <<TASKS, allocated, thread, cancelled>>
       \/ /\ caller[k] = "delete"
          /\ Go(k, "found", "clear")
          /\ task' = [task EXCEPT ![k] = a] /\ index' = [index EXCEPT ![k] = 1]
          /\ UNCHANGED <<TASKS, allocated, thread, caller, cancelled>>

\* The name is NULL, or Task_Delete returns and has done nothing.
NotFound(k) ==
  /\ index[k] > MAX_TASKS
  /\ Go(k, "test", IF caller[k] = "name" THEN "run" ELSE "leave") /\ Locals(k)
  /\ UNCHANGED <<TASKS, allocated, thread, cancelled>>

-------------------------------------------------------------------------------
(* Task_Delete                                                             *)

\* With the handle that Task_Create returned.
CallDelete(k) ==
  /\ k \in returned
  /\ Go(k, "run", "clear")
  /\ task' = [task EXCEPT ![k] = own[k]] /\ index' = [index EXCEPT ![k] = 1]
  /\ UNCHANGED <<TASKS, allocated, thread, caller, cancelled>>

\* Mutant of Clear: the loop ends at the first free entry.
ClearToNull(k) ==
  /\ \/ /\ index[k] \in Entries /\ TASKS[index[k]] \notin {NULL, task[k]}
        /\ Go(k, "clear", "clear") /\ index' = [index EXCEPT ![k] = @ + 1]
     \/ index[k] \in Entries /\ TASKS[index[k]] = task[k] /\ Go(k, "clear", "erase") /\ UNCHANGED index
     \/ index[k] \in Entries /\ TASKS[index[k]] = NULL /\ Go(k, "clear", "cancel") /\ UNCHANGED index
     \/ index[k] > MAX_TASKS /\ Go(k, "clear", "cancel") /\ UNCHANGED index
  /\ UNCHANGED <<TASKS, allocated, thread, caller, task, cancelled>>

\* The search for the entry of the task.
Clear(k) ==
  /\ \/ /\ index[k] \in Entries /\ TASKS[index[k]] # task[k]
        /\ Go(k, "clear", "clear") /\ index' = [index EXCEPT ![k] = @ + 1]
     \/ index[k] \in Entries /\ TASKS[index[k]] = task[k] /\ Go(k, "clear", "erase") /\ UNCHANGED index
     \/ index[k] > MAX_TASKS /\ Go(k, "clear", "cancel") /\ UNCHANGED index
  /\ UNCHANGED <<TASKS, allocated, thread, caller, task, cancelled>>

Erase(k) ==
  /\ Go(k, "erase", "cancel")
  /\ TASKS' = [TASKS EXCEPT ![index[k]] = NULL]
  /\ UNCHANGED <<allocated, thread, caller, index, task, cancelled>>

\* Mutant of Cancel: it is left out.
CancelNobody(k) ==
  /\ Go(k, "cancel", "free")
  /\ UNCHANGED <<TASKS, allocated, thread, caller, index, task, cancelled>>

\* pthread_cancel(task->thread)
Cancel(k) ==
  /\ Go(k, "cancel", "free")
  /\ cancelled' = cancelled \cup {thread[task[k]]}
  /\ UNCHANGED <<TASKS, allocated, thread, caller, index, task>>

\* free(task), after which the caller goes on.
Free(k) ==
  /\ Go(k, "free", "leave")
  /\ allocated' = allocated \ {task[k]}
  /\ thread' = [thread EXCEPT ![task[k]] = NULL]
  /\ Locals(k)
  /\ UNCHANGED <<TASKS, cancelled>>

\* The cancellation takes effect at the first cancellation point, which a
\* service reaches at the latest in the loop at its end.
Die(k) ==
  /\ k \in cancelled
  /\ Go(k, "leave", "dead")
  /\ UNCHANGED <<TASKS, allocated, thread, caller, index, task, cancelled>>

-------------------------------------------------------------------------------
CreateStep == CallCreate \/ Spawn \/ SpawnFails \/ Search \/ Enter \/ NoEntry

\* What thread k owes once it has made a call.
ThreadStep(k) ==
  \/ Test(k) \/ Compare(k) \/ Found(k) \/ NotFound(k)
  \/ Clear(k) \/ Erase(k) \/ Cancel(k) \/ Free(k) \/ Die(k)

Next == CreateStep \/ \E k \in Ids : CallGetSelf(k) \/ CallDelete(k) \/ ThreadStep(k)

Spec == Init /\ [][Next]_vars

\* The scheduler runs every thread that can run; nobody has to make a call.
FairSpec == Spec /\ \A k \in Ids : WF_vars(ThreadStep(k))
-------------------------------------------------------------------------------
(* Properties                                                              *)

Deleting == {"clear", "erase", "cancel", "free"}

TypeOK ==
  /\ TASKS \in [Entries -> Addresses \cup {NULL}]
  /\ allocated \subseteq Addresses
  /\ thread \in [Addresses -> Ids \cup {NULL}]
  /\ mpc \in {"idle", "spawn", "search", "enter"}
  /\ IF mpc = "idle" THEN result = NULL ELSE result \in allocated
  /\ IF mpc \in {"search", "enter"} THEN current \in Ids ELSE current = NULL
  /\ mindex \in 1 .. (MAX_TASKS + 1) /\ (mpc = "enter" => mindex \in Entries)
  /\ returned \subseteq Ids
  /\ pc \in [Ids -> {"none", "run", "test", "compare", "found", "leave", "dead"} \cup Deleting]
  /\ caller \in [Ids -> {"name", "delete"}]
  /\ index \in [Ids -> 1 .. (MAX_TASKS + 1)]
  /\ \A k \in Ids : pc[k] \in {"compare", "found", "erase"} => index[k] \in Entries
  /\ task \in [Ids -> Addresses \cup {NULL}]
  /\ cancelled \subseteq Ids /\ crowded \subseteq Ids
  /\ own \in [Ids -> Addresses \cup {NULL}]
  /\ \A k \in Ids : pc[k] # "none" => own[k] # NULL
  /\ sys \in {"up", "undefined"}

\* No entry of TASKS outlives its task, in spite of the missing lock: a task
\* leaves the table before it is freed, and cannot come back.
NoDanglingEntry == \A n \in Entries : TASKS[n] # NULL => TASKS[n] \in allocated

\* A thread finds itself in TASKS once Task_Create has returned its handle, and
\* until it deletes itself, unless the table was full when it was created:
\* entries that become free in the middle of the search are not missed, and
\* those that others give up are not taken for its own.
SelfFound ==
  \A k \in returned \ crowded :
    pc[k] \notin {"cancel", "free", "leave", "dead"} => \E n \in Entries : TASKS[n] = own[k]

\* Task_GetSelf finds its caller's own task, if it finds one, and that is the
\* task Task_Delete deletes, whatever entries come and go between the two loops
\* and under them.  It is freed once.
DeletesItself ==
  \A k \in Ids : pc[k] \in {"found"} \cup Deleting =>
    /\ task[k] = own[k] /\ own[k] \in allocated /\ thread[own[k]] = k
    /\ pc[k] = "found" => TASKS[index[k]] = own[k]

\* Task_Delete ends a thread whose handle was returned and that was entered: the
\* thread goes on after the call, but not for ever.
DeletedEnds ==
  \A k \in Ids :
    \/ pc[k] = "clear"
    \/ pc[k] = "test" /\ caller[k] = "delete" /\ index[k] = 1 /\ k \in returned \ crowded
    ~> pc[k] = "dead" \/ sys # "up"
===============================================================================
