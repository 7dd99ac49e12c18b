----------------------------- MODULE PosixTaskProofs -----------------------------
(***************************************************************************)
(* Proofs about PosixTask, for any size of the table, any number of        *)
(* threads and any allocator.                                              *)
(***************************************************************************)
EXTENDS PosixTask, TLAPS

\* Where the task of a thread is certainly still allocated.
Living == {"run", "test", "compare", "found"} \cup Deleting

\* Whose a task is: the field and the history agree while the thread lives.
Owners ==
  /\ \A a \in Addresses : thread[a] # NULL =>
       a \in allocated /\ own[thread[a]] = a /\ pc[thread[a]] # "none"
  /\ \A k \in Ids : pc[k] \in Living => own[k] \in Addresses /\ thread[own[k]] = k

\* The entries are tasks of different threads, none of which is past its own
\* removal from the table.
TableOwned ==
  /\ \A n \in Entries : TASKS[n] # NULL =>
       thread[TASKS[n]] # NULL /\ pc[thread[TASKS[n]]] \notin {"cancel", "free"}
  /\ \A m, n \in Entries : TASKS[m] # NULL /\ TASKS[m] = TASKS[n] => m = n

\* The task being created is not in the table yet, so that its thread cannot
\* have found itself; the free entry that was seen is still free, and one that
\* was free at the start of the search is still ahead.
Creation ==
  /\ mpc = "spawn" => thread[result] = NULL
  /\ mpc # "idle" => \A n \in Entries : TASKS[n] # result
  /\ mpc \in {"search", "enter"} =>
       /\ own[current] = result /\ thread[result] = current
       /\ current \notin returned
       /\ pc[current] \in {"run", "test", "compare", "leave", "dead"}
  /\ mpc = "enter" => TASKS[mindex] = NULL
  /\ mpc = "search" /\ current \notin crowded =>
       \E n \in Entries : n >= mindex /\ TASKS[n] = NULL

\* The threads whose handle was returned have been started.
ReturnedStarted == \A k \in returned : pc[k] # "none"

\* What thread k knows about the entry it looks at: its own is still there, and
\* those it has passed are not its own.
Knows(k) ==
  /\ pc[k] = "compare" /\ task[k] = own[k] => TASKS[index[k]] = own[k]
  /\ pc[k] = "clear" => \A n \in Entries : n < index[k] => TASKS[n] # own[k]
  /\ pc[k] = "erase" => TASKS[index[k]] = own[k]
  /\ pc[k] \in {"cancel", "free"} => \A n \in Entries : TASKS[n] # own[k]

IndInv ==
  /\ TypeOK /\ Owners /\ TableOwned /\ Creation /\ ReturnedStarted
  /\ DeletesItself /\ SelfFound
  /\ \A k \in Ids : Knows(k)

-------------------------------------------------------------------------------
\* Threads are numbers, and NULL is neither a thread nor an address.
LEMMA Apart == NULL \notin Ids /\ NULL \notin Addresses /\ Ids \subseteq Nat
  BY TaskAssumption DEF Ids

\* Initially nothing is there.
LEMMA Base == Init => IndInv
<1> SUFFICES ASSUME Init PROVE IndInv
  OBVIOUS
<1> USE TaskAssumption DEF Init
<1>1. TypeOK
  BY DEF TypeOK, Deleting, Entries
<1>2. Owners /\ TableOwned /\ Creation
  BY DEF Owners, TableOwned, Creation, Living, Deleting
<1>3. ReturnedStarted /\ DeletesItself /\ SelfFound /\ \A k \in Ids : Knows(k)
  BY DEF ReturnedStarted, DeletesItself, SelfFound, Knows, Deleting
<1> QED  BY <1>1, <1>2, <1>3 DEF IndInv

-------------------------------------------------------------------------------
(* What a thread does alone                                                *)

shared == <<TASKS, allocated, thread, creator, history>>

\* A step of thread k that touches nothing shared keeps the invariant if k does
\* not begin to live, does not come back to the points where it must be listed,
\* and knows what it has to at its new point.
LEMMA AloneStep ==
  ASSUME IndInv, NEW k \in Ids, UNCHANGED shared, TypeOK',
         \A j \in Ids \ {k} : pc'[j] = pc[j] /\ index'[j] = index[j] /\ task'[j] = task[j],
         pc[k] \in Living \cup {"leave"}, pc'[k] # "none",
         pc'[k] \in Living => pc[k] \in Living,
         pc[k] \in {"cancel", "free", "leave"} => pc'[k] \in {"cancel", "free", "leave", "dead"},
         pc'[k] \in {"found"} \cup Deleting =>
           /\ task'[k] = own[k]
           /\ pc'[k] = "found" => TASKS[index'[k]] = own[k],
         mpc \in {"search", "enter"} /\ k = current =>
           pc'[k] \in {"run", "test", "compare", "leave", "dead"},
         Knows(k)'
  PROVE  IndInv'
<1> USE Apart DEF IndInv, shared, creator, history
<1>1. Owners'
  <2>1. ASSUME NEW a \in Addresses, thread[a] # NULL
        PROVE  pc'[thread[a]] # "none"
    <3>1. thread[a] \in Ids
      BY <2>1 DEF TypeOK
    <3>2. pc[thread[a]] # "none"
      BY <2>1 DEF Owners
    <3> QED  BY <3>1, <3>2
  <2>2. \A j \in Ids : pc'[j] \in Living => pc[j] \in Living
    OBVIOUS
  <2> QED  BY <2>1, <2>2 DEF Owners
<1>2. TableOwned'
  <2> SUFFICES ASSUME NEW n \in Entries, TASKS[n] # NULL
               PROVE  thread[TASKS[n]] # NULL /\ pc'[thread[TASKS[n]]] \notin {"cancel", "free"}
    BY DEF TableOwned
  <2>1. thread[TASKS[n]] \in Ids /\ own[thread[TASKS[n]]] = TASKS[n]
    BY DEF TableOwned, TypeOK, Owners
  <2>2. CASE thread[TASKS[n]] = k
    BY <2>1, <2>2 DEF Knows
  <2>3. CASE thread[TASKS[n]] # k
    BY <2>1, <2>3 DEF TableOwned
  <2> QED  BY <2>2, <2>3
<1>3. Creation'
  BY DEF Creation, TypeOK
<1>4. ReturnedStarted'
  BY DEF ReturnedStarted, TypeOK
<1>5. DeletesItself'
  <2>1. ASSUME NEW j \in Ids, pc'[j] \in Living
        PROVE  own[j] \in allocated /\ thread[own[j]] = j
    <3>1. pc[j] \in Living
      BY <2>1
    <3>2. own[j] \in Addresses /\ thread[own[j]] = j /\ j # NULL
      BY <3>1 DEF Owners
    <3> QED  BY <3>2 DEF Owners
  <2>2. \A j \in Ids \ {k} : pc'[j] = pc[j] /\ index'[j] = index[j] /\ task'[j] = task[j]
    OBVIOUS
  <2> QED  BY <2>1, <2>2 DEF DeletesItself, Living, Deleting
<1>6. SelfFound'
  <2> SUFFICES ASSUME NEW j \in returned \ crowded,
                      pc'[j] \notin {"cancel", "free", "leave", "dead"}
               PROVE  \E n \in Entries : TASKS[n] = own[j]
    BY DEF SelfFound
  <2>1. j \in Ids
    BY DEF TypeOK
  <2>2. pc[j] \notin {"cancel", "free", "leave", "dead"}
    BY <2>1 DEF Living, Deleting
  <2> QED  BY <2>2 DEF SelfFound
<1>7. \A j \in Ids : Knows(j)'
  BY DEF Knows
<1> QED  BY <1>1, <1>2, <1>3, <1>4, <1>5, <1>6, <1>7

Callers == [Ids -> {"name", "delete"}]
Indices == [Ids -> 1 .. (MAX_TASKS + 1)]
Pointers == [Ids -> Addresses \cup {NULL}]

\* The types of such a step.
LEMMA TypeAlone ==
  ASSUME TypeOK, NEW k \in Ids, UNCHANGED <<shared, sys>>,
         NEW to \in {"run", "test", "compare", "found", "leave", "dead"} \cup Deleting,
         pc[k] # "none", pc' = [pc EXCEPT ![k] = to],
         index' = index \/ \E i \in 1 .. (MAX_TASKS + 1) : index' = [index EXCEPT ![k] = i],
         to \in {"compare", "found", "erase"} => index'[k] \in Entries,
         caller' = caller \/ caller' \in Callers,
         task' = task \/ \E a \in Addresses \cup {NULL} : task' = [task EXCEPT ![k] = a],
         cancelled' = cancelled \/ cancelled' = cancelled \cup {k}
  PROVE  /\ TypeOK'
         /\ \A j \in Ids \ {k} : pc'[j] = pc[j] /\ index'[j] = index[j] /\ task'[j] = task[j]
         /\ pc'[k] = to
<1> USE DEF TypeOK, Callers
<1>1. \A j \in Ids \ {k} : pc'[j] = pc[j] /\ index'[j] = index[j] /\ task'[j] = task[j]
  OBVIOUS
<1>2. pc' \in [Ids -> {"none", "run", "test", "compare", "found", "leave", "dead"} \cup Deleting]
  OBVIOUS
<1>3. index' \in [Ids -> 1 .. (MAX_TASKS + 1)]
  OBVIOUS
<1>4. task' \in [Ids -> Addresses \cup {NULL}]
  OBVIOUS
<1>5. \A j \in Ids : pc'[j] \in {"compare", "found", "erase"} => index'[j] \in Entries
  BY <1>1
<1>6. \A j \in Ids : pc'[j] # "none" => own[j] # NULL
  BY <1>1
<1> QED  BY <1>1, <1>2, <1>3, <1>4, <1>5, <1>6 DEF shared, creator, history

\* The numbers the loops use.
LEMMA Indexing ==
  /\ 1 \in 1 .. (MAX_TASKS + 1)
  /\ \A n \in Entries : n + 1 \in 1 .. (MAX_TASKS + 1) /\ ~(n < 1)
  BY TaskAssumption DEF Entries

-------------------------------------------------------------------------------
(* Task_GetSelf                                                            *)

\* A thread starts its lookup: no entry is passed yet.
LEMMA CallGetSelfStep ==
  ASSUME IndInv, NEW k \in Ids, CallGetSelf(k)
  PROVE  IndInv'
<1>1. TypeOK /\ Knows(k)
  BY DEF IndInv
<1>2. /\ pc[k] = "run" /\ pc' = [pc EXCEPT ![k] = "test"]
      /\ index' = [index EXCEPT ![k] = 1]
      /\ UNCHANGED <<shared, task, cancelled, sys>>
  BY DEF CallGetSelf, Go, shared
<1>3. caller' \in Callers
  BY <1>1 DEF CallGetSelf, TypeOK, Callers
<1>4. TypeOK' /\ (\A j \in Ids \ {k} : pc'[j] = pc[j] /\ index'[j] = index[j] /\ task'[j] = task[j])
      /\ pc'[k] = "test"
  BY <1>1, <1>2, <1>3, Indexing, TypeAlone
<1>5. Knows(k)'
  BY <1>4 DEF Knows
<1> QED  BY <1>2, <1>4, <1>5, AloneStep DEF Living, Deleting, IndInv, Creation

\* The test of an entry: one that is empty is not the thread's own.
LEMMA TestStep ==
  ASSUME IndInv, NEW k \in Ids, Test(k)
  PROVE  IndInv'
<1>1. TypeOK /\ Knows(k)
  BY DEF IndInv
<1>2. index[k] \in Entries /\ TASKS[index[k]] \in Addresses \cup {NULL}
  BY <1>1 DEF Test, TypeOK
<1>3. PICK to \in {"test", "compare"} :
        /\ pc[k] = "test" /\ pc' = [pc EXCEPT ![k] = to]
        /\ \/ to = "test" /\ index' = [index EXCEPT ![k] = index[k] + 1] /\ UNCHANGED task
           \/ to = "compare" /\ task' = [task EXCEPT ![k] = TASKS[index[k]]] /\ UNCHANGED index
        /\ UNCHANGED <<shared, caller, cancelled, sys>>
  BY <1>1 DEF Test, Go, shared
<1>4. TypeOK' /\ (\A j \in Ids \ {k} : pc'[j] = pc[j] /\ index'[j] = index[j] /\ task'[j] = task[j])
      /\ pc'[k] = to
  BY <1>1, <1>2, <1>3, Indexing, TypeAlone
<1>5. Knows(k)'
  <2>1. UNCHANGED <<TASKS, own>>
    BY <1>3 DEF shared, history
  <2> QED  BY <1>1, <1>3, <1>4, <2>1 DEF Knows, TypeOK
<1> QED  BY <1>3, <1>4, <1>5, AloneStep DEF Living, Deleting, IndInv, Creation

\* All entries are passed: the thread has none.
LEMMA NotFoundStep ==
  ASSUME IndInv, NEW k \in Ids, NotFound(k)
  PROVE  IndInv'
<1>1. TypeOK /\ Knows(k)
  BY DEF IndInv
<1>2. PICK to \in {"run", "leave"} :
        /\ pc[k] = "test" /\ pc' = [pc EXCEPT ![k] = to]
        /\ index' = [index EXCEPT ![k] = 1]
        /\ task' = [task EXCEPT ![k] = NULL]
        /\ caller' = [caller EXCEPT ![k] = "name"]
        /\ UNCHANGED <<shared, cancelled, sys>>
  BY DEF NotFound, Go, Locals, shared
<1>3. caller' \in Callers
  BY <1>1, <1>2 DEF TypeOK, Callers
<1>4. TypeOK' /\ (\A j \in Ids \ {k} : pc'[j] = pc[j] /\ index'[j] = index[j] /\ task'[j] = task[j])
      /\ pc'[k] = to
  BY <1>1, <1>2, <1>3, Indexing, TypeAlone
<1>5. Knows(k)'
  BY <1>2, <1>4 DEF Knows
<1> QED  BY <1>2, <1>4, <1>5, AloneStep DEF Living, Deleting, IndInv, Creation

\* A task that is looked at and is the caller's is the one made for it, and the
\* entry still holds it.
LEMMA CompareStep ==
  ASSUME IndInv, NEW k \in Ids, Compare(k)
  PROVE  IndInv'
<1>1. TypeOK /\ Owners /\ Knows(k) /\ pc[k] = "compare"
  BY DEF IndInv, Compare
<1>2. index[k] \in Entries /\ TASKS[index[k]] \in Addresses \cup {NULL}
  BY <1>1 DEF TypeOK
<1>3. CASE Undefined
  <2>1. UNCHANGED <<shared, pc, index, task, cancelled, caller>> /\ sys' = "undefined"
    BY <1>3 DEF Undefined, shared, threads
  <2>2. TypeOK' /\ Knows(k)'
    BY <1>1, <2>1 DEF TypeOK, Knows, shared, creator, history
  <2> QED  BY <1>1, <2>1, <2>2, AloneStep DEF Living, Deleting, IndInv, Creation
<1>4. CASE ~Undefined
  <2>1. PICK a \in {task[k], TASKS[index[k]]}, to \in {"test", "found"} :
          /\ pc' = [pc EXCEPT ![k] = to]
          /\ \/ /\ to = "test" /\ index' = [index EXCEPT ![k] = index[k] + 1]
                /\ task' = [task EXCEPT ![k] = NULL]
             \/ /\ to = "found" /\ a \in allocated /\ IsSelf(k, a) /\ UNCHANGED index
                /\ task' = [task EXCEPT ![k] = a]
          /\ UNCHANGED <<shared, caller, cancelled, sys>>
    BY <1>4 DEF Compare, Go, shared
  <2>2. to = "found" => a = own[k] /\ TASKS[index[k]] = own[k] /\ own[k] \in Addresses
    BY <1>1, <1>2, <2>1, Apart DEF IsSelf, Owners, Knows, TypeOK
  <2>3. TypeOK' /\ (\A j \in Ids \ {k} : pc'[j] = pc[j] /\ index'[j] = index[j] /\ task'[j] = task[j])
        /\ pc'[k] = to
    <3>1. NULL \in Addresses \cup {NULL} /\ a \in Addresses \cup {NULL}
      BY <1>1, <1>2, <2>1 DEF TypeOK
    <3>2. CASE to = "test"
      BY <1>1, <1>2, <2>1, <3>1, <3>2, Indexing, TypeAlone
    <3>3. CASE to = "found"
      BY <1>1, <1>2, <2>1, <3>1, <3>3, TypeAlone
    <3> QED  BY <3>2, <3>3
  <2>4. Knows(k)'
    BY <2>1, <2>3 DEF Knows
  <2>5. to = "found" => task'[k] = own[k] /\ TASKS[index'[k]] = own[k]
    BY <1>1, <2>1, <2>2 DEF TypeOK
  <2>6. mpc \in {"search", "enter"} /\ k = current => to # "found"
    BY <1>2, <2>2 DEF IndInv, Creation
  <2> QED  BY <1>1, <2>1, <2>3, <2>4, <2>5, <2>6, AloneStep DEF Living, Deleting, IndInv, Creation
<1> QED  BY <1>3, <1>4

\* The entry whose thread compares equal is the thread's own.
LEMMA FoundStep ==
  ASSUME IndInv, NEW k \in Ids, Found(k)
  PROVE  IndInv'
<1>1. TypeOK /\ Knows(k) /\ pc[k] = "found"
  BY DEF IndInv, Found
<1>2. task[k] = own[k] /\ TASKS[index[k]] = own[k] /\ own[k] \in Addresses
  BY <1>1 DEF IndInv, DeletesItself, Owners, Living
<1>3. PICK to \in {"run", "clear"} :
        /\ pc' = [pc EXCEPT ![k] = to]
        /\ index' = [index EXCEPT ![k] = 1]
        /\ \/ /\ to = "run" /\ task' = [task EXCEPT ![k] = NULL]
              /\ caller' = [caller EXCEPT ![k] = "name"]
           \/ to = "clear" /\ task' = [task EXCEPT ![k] = own[k]] /\ UNCHANGED caller
        /\ UNCHANGED <<shared, cancelled, sys>>
  BY <1>2 DEF Found, Go, Locals, shared
<1>4. caller' = caller \/ caller' \in Callers
  BY <1>1, <1>3 DEF TypeOK, Callers
<1>5. \E a \in Addresses \cup {NULL} : task' = [task EXCEPT ![k] = a]
  BY <1>2, <1>3
<1>6. TypeOK' /\ (\A j \in Ids \ {k} : pc'[j] = pc[j] /\ index'[j] = index[j] /\ task'[j] = task[j])
      /\ pc'[k] = to
  BY <1>1, <1>3, <1>4, <1>5, Indexing, TypeAlone DEF Deleting
<1>7. Knows(k)'
  BY <1>1, <1>3, <1>6, Indexing DEF Knows, TypeOK
<1>8. to = "clear" => task'[k] = own[k]
  BY <1>1, <1>3 DEF TypeOK
<1>9. ~(mpc \in {"search", "enter"} /\ k = current)
  BY <1>1 DEF IndInv, Creation
<1> QED  BY <1>1, <1>3, <1>6, <1>7, <1>8, <1>9, AloneStep DEF Living, Deleting, IndInv, Creation

-------------------------------------------------------------------------------
(* Task_Delete, up to the cancellation                                     *)

\* Task_Delete(NULL) starts the same lookup.
LEMMA CallDeleteStep ==
  ASSUME IndInv, NEW k \in Ids, CallDelete(k)
  PROVE  IndInv'
<1>1. TypeOK /\ Knows(k) /\ pc[k] = "run" /\ k \in returned
  BY DEF IndInv, CallDelete, Go
<1>2. own[k] \in Addresses
  BY <1>1 DEF IndInv, Owners, Living
<1>3. /\ pc' = [pc EXCEPT ![k] = "clear"]
      /\ index' = [index EXCEPT ![k] = 1]
      /\ task' = [task EXCEPT ![k] = own[k]]
      /\ UNCHANGED <<shared, caller, cancelled, sys>>
  BY DEF CallDelete, Go, shared
<1>4. \E a \in Addresses \cup {NULL} : task' = [task EXCEPT ![k] = a]
  BY <1>2, <1>3
<1>5. TypeOK' /\ (\A j \in Ids \ {k} : pc'[j] = pc[j] /\ index'[j] = index[j] /\ task'[j] = task[j])
      /\ pc'[k] = "clear"
  BY <1>1, <1>3, <1>4, Indexing, TypeAlone DEF Deleting
<1>6. Knows(k)'
  BY <1>1, <1>3, <1>5, Indexing DEF Knows, TypeOK
<1>7. task'[k] = own[k]
  BY <1>1, <1>3 DEF TypeOK
<1>8. ~(mpc \in {"search", "enter"} /\ k = current)
  BY <1>1 DEF IndInv, Creation
<1> QED  BY <1>1, <1>3, <1>5, <1>6, <1>7, <1>8, AloneStep DEF Living, Deleting, IndInv, Creation

\* The entry that is cleared is the thread's own.
LEMMA ClearStep ==
  ASSUME IndInv, NEW k \in Ids, Clear(k)
  PROVE  IndInv'
<1>1. TypeOK /\ Knows(k) /\ TableOwned /\ pc[k] = "clear" /\ task[k] = own[k] /\ own[k] \in Addresses
  BY DEF IndInv, Clear, Go, DeletesItself, Owners, Living, Deleting
<1>2. PICK to \in {"clear", "erase", "cancel"} :
        /\ pc' = [pc EXCEPT ![k] = to]
        /\ \/ /\ to = "clear" /\ index[k] \in Entries /\ TASKS[index[k]] # own[k]
              /\ index' = [index EXCEPT ![k] = index[k] + 1]
           \/ to = "erase" /\ index[k] \in Entries /\ TASKS[index[k]] = own[k] /\ UNCHANGED index
           \/ to = "cancel" /\ index[k] > MAX_TASKS /\ UNCHANGED index
        /\ UNCHANGED <<shared, caller, task, cancelled, sys>>
  BY <1>1 DEF Clear, Go, shared
<1>3. index' = index \/ \E i \in 1 .. (MAX_TASKS + 1) : index' = [index EXCEPT ![k] = i]
  BY <1>2, Indexing
<1>4. TypeOK' /\ (\A j \in Ids \ {k} : pc'[j] = pc[j] /\ index'[j] = index[j] /\ task'[j] = task[j])
      /\ pc'[k] = to
  BY <1>1, <1>2, <1>3, TypeAlone DEF Deleting
<1>5. Knows(k)'
  <2>1. UNCHANGED <<TASKS, own>>
    BY <1>2 DEF shared, history
  <2>2. CASE to = "clear"
    <3>1. index[k] \in Nat /\ index'[k] = index[k] + 1
      BY <1>1, <1>2, <2>2 DEF TypeOK
    <3>2. \A n \in Entries : n < index'[k] => n < index[k] \/ n = index[k]
      BY <3>1 DEF Entries
    <3> QED  BY <1>1, <1>2, <1>4, <2>1, <2>2, <3>2 DEF Knows
  <2>3. CASE to = "erase"
    BY <1>2, <1>4, <2>1, <2>3 DEF Knows
  <2>4. CASE to = "cancel"
    <3>1. \A n \in Entries : n < index[k]
      BY <1>1, <1>2, <2>4, TaskAssumption DEF Entries, TypeOK
    <3> QED  BY <1>1, <1>4, <2>1, <2>4, <3>1 DEF Knows
  <2> QED  BY <2>2, <2>3, <2>4
<1>6. ~(mpc \in {"search", "enter"} /\ k = current)
  BY <1>1 DEF IndInv, Creation
<1> QED  BY <1>1, <1>2, <1>4, <1>5, <1>6, AloneStep DEF Living, Deleting, IndInv, Creation

\* The thread that is cancelled is the caller.
LEMMA CancelStep ==
  ASSUME IndInv, NEW k \in Ids, Cancel(k)
  PROVE  IndInv'
<1>1. TypeOK /\ Knows(k) /\ pc[k] = "cancel" /\ task[k] = own[k] /\ thread[own[k]] = k
  BY DEF IndInv, Cancel, Go, DeletesItself, Deleting
<1>2. /\ pc' = [pc EXCEPT ![k] = "free"] /\ cancelled' = cancelled \cup {k}
      /\ UNCHANGED <<shared, caller, index, task, sys>>
  BY <1>1 DEF Cancel, Go, shared
<1>3. TypeOK' /\ (\A j \in Ids \ {k} : pc'[j] = pc[j] /\ index'[j] = index[j] /\ task'[j] = task[j])
      /\ pc'[k] = "free"
  BY <1>1, <1>2, TypeAlone DEF Deleting
<1>4. Knows(k)'
  BY <1>1, <1>2, <1>3 DEF Knows, shared, history
<1>5. ~(mpc \in {"search", "enter"} /\ k = current)
  BY <1>1 DEF IndInv, Creation
<1> QED  BY <1>1, <1>2, <1>3, <1>4, <1>5, AloneStep DEF Living, Deleting, IndInv, Creation

\* A cancelled thread ends at a cancellation point.
LEMMA DieStep ==
  ASSUME IndInv, NEW k \in Ids, Die(k)
  PROVE  IndInv'
<1>1. TypeOK /\ Knows(k) /\ pc[k] = "leave" /\ k \in cancelled
  BY DEF IndInv, Die, Go
<1>2. /\ pc' = [pc EXCEPT ![k] = "dead"]
      /\ UNCHANGED <<shared, caller, index, task, cancelled, sys>>
  BY DEF Die, Go, shared
<1>3. TypeOK' /\ (\A j \in Ids \ {k} : pc'[j] = pc[j] /\ index'[j] = index[j] /\ task'[j] = task[j])
      /\ pc'[k] = "dead"
  BY <1>1, <1>2, TypeAlone
<1>4. Knows(k)'
  BY <1>3 DEF Knows
<1> QED  BY <1>1, <1>2, <1>3, <1>4, AloneStep DEF Living, Deleting, IndInv, Creation

-------------------------------------------------------------------------------
(* What changes the table or the memory                                    *)

\* Tasks that live are different.
LEMMA Different ==
  ASSUME Owners, NEW i \in Ids, NEW j \in Ids, pc[i] \in Living, pc[j] \in Living,
         own[i] = own[j]
  PROVE  i = j
  BY DEF Owners

\* The task that leaves the table was there once.
LEMMA EraseStep ==
  ASSUME IndInv, NEW k \in Ids, Erase(k)
  PROVE  IndInv'
<1>1. TypeOK /\ Owners /\ TableOwned /\ Creation /\ ReturnedStarted
      /\ DeletesItself /\ SelfFound /\ \A j \in Ids : Knows(j)
  BY DEF IndInv
<1>2. /\ pc[k] = "erase" /\ pc' = [pc EXCEPT ![k] = "cancel"]
      /\ TASKS' = [TASKS EXCEPT ![index[k]] = NULL]
      /\ UNCHANGED <<allocated, thread, mpc, result, current, mindex, returned,
                     caller, index, task, cancelled, own, crowded, sys>>
  BY DEF Erase, Go, creator, history
<1>3. index[k] \in Entries /\ TASKS[index[k]] = own[k] /\ own[k] \in Addresses /\ own[k] # NULL
  BY <1>1, <1>2, Apart DEF TypeOK, Knows, Owners, Living, Deleting
<1>4. \A n \in Entries : TASKS'[n] = IF n = index[k] THEN NULL ELSE TASKS[n]
  BY <1>1, <1>2, <1>3 DEF TypeOK
<1>5. \A n \in Entries : TASKS'[n] # own[k]
  BY <1>1, <1>3, <1>4 DEF TableOwned
<1>6. \A j \in Ids \ {k} : pc'[j] = pc[j] /\ (pc[j] \in Living => own[j] # own[k])
  BY <1>1, <1>2, Different DEF TypeOK, Living, Deleting
<1>7. pc'[k] = "cancel"
  BY <1>1, <1>2 DEF TypeOK
<1>8. TypeOK'
  BY <1>1, <1>2, <1>3 DEF TypeOK, Deleting
<1>9. Owners'
  BY <1>1, <1>2, <1>6, <1>7, Apart DEF Owners, Living, Deleting, TypeOK
<1>10. TableOwned'
  <2>1. ASSUME NEW n \in Entries, TASKS'[n] # NULL
        PROVE  thread[TASKS'[n]] # NULL /\ pc'[thread[TASKS'[n]]] \notin {"cancel", "free"}
    <3>1. TASKS'[n] = TASKS[n] /\ TASKS[n] \in Addresses
      BY <1>1, <1>4, <2>1 DEF TypeOK
    <3>2. thread[TASKS[n]] \in Ids /\ own[thread[TASKS[n]]] = TASKS[n]
      BY <1>1, <2>1, <3>1 DEF TableOwned, Owners, TypeOK
    <3>3. thread[TASKS[n]] # k
      BY <1>5, <3>1, <3>2
    <3> QED  BY <1>1, <1>6, <2>1, <3>1, <3>2, <3>3 DEF TableOwned
  <2> QED  BY <1>1, <1>2, <1>4, <2>1 DEF TableOwned
<1>11. Creation'
  <2>1. mpc # "idle" => \A n \in Entries : TASKS'[n] # result
    BY <1>1, <1>4, Apart DEF Creation, TypeOK
  <2>2. mpc \in {"search", "enter"} => pc'[current] = pc[current]
    BY <1>1, <1>2, <1>6 DEF Creation, TypeOK
  <2>3. /\ mpc = "enter" => TASKS'[mindex] = NULL
        /\ mpc = "search" /\ current \notin crowded =>
             \E n \in Entries : n >= mindex /\ TASKS'[n] = NULL
    BY <1>1, <1>4 DEF Creation, TypeOK
  <2> QED  BY <1>1, <1>2, <2>1, <2>2, <2>3 DEF Creation
<1>12. ReturnedStarted' /\ DeletesItself'
  <2>1. \A j \in Ids : pc'[j] \in {"found"} \cup Deleting => pc[j] \in {"found"} \cup Deleting
    BY <1>2, <1>6 DEF Deleting
  <2>2. \A j \in Ids : pc'[j] = "found" => j # k /\ pc[j] = "found" /\ index[j] # index[k]
    BY <1>1, <1>3, <1>6, <1>7 DEF DeletesItself, Living
  <2>3. ReturnedStarted'
    BY <1>1, <1>2, <1>6, <1>7 DEF ReturnedStarted, TypeOK
  <2> QED  BY <1>1, <1>2, <1>4, <2>1, <2>2, <2>3 DEF DeletesItself, TypeOK
<1>13. SelfFound'
  <2> SUFFICES ASSUME NEW j \in returned \ crowded,
                      pc'[j] \notin {"cancel", "free", "leave", "dead"}
               PROVE  \E n \in Entries : TASKS'[n] = own[j]
    BY <1>2 DEF SelfFound
  <2>1. j \in Ids \ {k} /\ pc[j] \in Living
    BY <1>1, <1>6, <1>7 DEF TypeOK, ReturnedStarted, Living, Deleting
  <2>2. PICK n \in Entries : TASKS[n] = own[j]
    BY <1>1, <1>6, <2>1 DEF SelfFound
  <2> QED  BY <1>3, <1>4, <1>6, <2>1, <2>2
<1>14. ASSUME NEW j \in Ids PROVE Knows(j)'
  <2>1. CASE j = k
    BY <1>2, <1>5, <1>7, <2>1 DEF Knows
  <2>2. CASE j # k
    <3>1. pc[j] \in Living => own[j] # NULL /\ own[j] # own[k]
      BY <1>1, <1>6, <2>2, Apart DEF Owners
    <3>2. pc[j] \in {"compare", "erase"} => index[j] \in Entries
      BY <1>1 DEF TypeOK
    <3>3. Knows(j) /\ pc'[j] = pc[j] /\ index'[j] = index[j] /\ task'[j] = task[j] /\ own' = own
      BY <1>1, <1>2, <1>6, <2>2
    <3> QED  BY <1>3, <1>4, <3>1, <3>2, <3>3 DEF Knows, Living, Deleting
  <2> QED  BY <2>1, <2>2
<1> QED  BY <1>8, <1>9, <1>10, <1>11, <1>12, <1>13, <1>14 DEF IndInv

\* The memory that is freed is neither in the table nor that of the task being
\* created, nor that of another thread.
LEMMA FreeStep ==
  ASSUME IndInv, NEW k \in Ids, Free(k)
  PROVE  IndInv'
<1>1. TypeOK /\ Owners /\ TableOwned /\ Creation /\ ReturnedStarted
      /\ DeletesItself /\ SelfFound /\ \A j \in Ids : Knows(j)
  BY DEF IndInv
<1>2. /\ pc[k] = "free" /\ task[k] = own[k] /\ own[k] \in Addresses /\ thread[own[k]] = k
  BY <1>1 DEF Free, Go, DeletesItself, Owners, Living, Deleting
<1>3. /\ pc' = [pc EXCEPT ![k] = "leave"]
      /\ allocated' = allocated \ {own[k]}
      /\ thread' = [thread EXCEPT ![own[k]] = NULL]
      /\ caller' = [caller EXCEPT ![k] = "name"]
      /\ index' = [index EXCEPT ![k] = 1] /\ task' = [task EXCEPT ![k] = NULL]
      /\ UNCHANGED <<TASKS, mpc, result, current, mindex, returned, cancelled, own, crowded, sys>>
  BY <1>2 DEF Free, Go, Locals, creator, history
<1>4. \A j \in Ids \ {k} : /\ pc'[j] = pc[j] /\ index'[j] = index[j] /\ task'[j] = task[j]
                           /\ pc[j] \in Living => own[j] # own[k]
  <2>1. \A j \in Ids \ {k} : pc[j] \in Living => own[j] # own[k]
    BY <1>1, <1>2, Different DEF Living, Deleting
  <2> QED  BY <1>1, <1>3, <2>1 DEF TypeOK
<1>5. pc'[k] = "leave" /\ thread'[own[k]] = NULL
      /\ \A a \in Addresses : a # own[k] => thread'[a] = thread[a]
  BY <1>1, <1>2, <1>3 DEF TypeOK
<1>6. mpc # "idle" => result # own[k]
  <2>1. mpc \in {"search", "enter"} => current # k
    BY <1>1, <1>2 DEF Creation
  <2>2. mpc \in {"spawn", "search", "enter"} \/ mpc = "idle"
    BY <1>1 DEF TypeOK
  <2> QED  BY <1>1, <1>2, <2>1, <2>2, Apart DEF Creation
<1>7. \A n \in Entries : TASKS[n] # own[k]
  BY <1>1, <1>2 DEF Knows
<1>8. TypeOK'
  <2>1. TypeOK /\ NULL \in Ids \cup {NULL} /\ 1 \in 1 .. (MAX_TASKS + 1)
    BY <1>1, Indexing
  <2>2. \A j \in Ids : pc'[j] \in {"compare", "found", "erase"} => index'[j] \in Entries
    BY <1>1, <1>4, <1>5 DEF TypeOK
  <2>3. \A j \in Ids : pc'[j] # "none" => own[j] # NULL
    BY <1>1, <1>2, <1>4 DEF TypeOK
  <2>4. pc' \in [Ids -> {"none", "run", "test", "compare", "found", "leave", "dead"} \cup Deleting]
        /\ caller' \in [Ids -> {"name", "delete"}]
        /\ index' \in [Ids -> 1 .. (MAX_TASKS + 1)]
    BY <1>3, <2>1 DEF TypeOK
  <2>5. task' \in [Ids -> Addresses \cup {NULL}] /\ thread' \in [Addresses -> Ids \cup {NULL}]
    BY <1>3, <2>1 DEF TypeOK
  <2>6. allocated' \subseteq Addresses /\ (mpc # "idle" => result \in allocated')
    BY <1>1, <1>3, <1>6 DEF TypeOK
  <2> QED  BY <1>1, <1>3, <2>2, <2>3, <2>4, <2>5, <2>6 DEF TypeOK
<1>9. Owners'
  <2>1. ASSUME NEW a \in Addresses, thread'[a] # NULL
        PROVE  a \in allocated' /\ own[thread'[a]] = a /\ pc'[thread'[a]] # "none"
    <3>1. a # own[k] /\ thread'[a] = thread[a]
      BY <1>5, <2>1
    <3>2. a \in allocated /\ own[thread[a]] = a /\ pc[thread[a]] # "none" /\ thread[a] \in Ids
      BY <1>1, <2>1, <3>1 DEF Owners, TypeOK
    <3> QED  BY <1>3, <1>4, <1>5, <3>1, <3>2
  <2>2. \A j \in Ids : pc'[j] \in Living => own[j] \in Addresses /\ thread'[own[j]] = j
    BY <1>1, <1>4, <1>5 DEF Owners, Living, Deleting
  <2> QED  BY <1>3, <2>1, <2>2 DEF Owners
<1>10. TableOwned'
  <2> SUFFICES ASSUME NEW n \in Entries, TASKS[n] # NULL
               PROVE  thread'[TASKS[n]] # NULL /\ pc'[thread'[TASKS[n]]] \notin {"cancel", "free"}
    BY <1>1, <1>3 DEF TableOwned
  <2>1. TASKS[n] \in Addresses /\ thread'[TASKS[n]] = thread[TASKS[n]]
    BY <1>1, <1>5, <1>7 DEF TypeOK
  <2>2. thread[TASKS[n]] \in Ids
    BY <1>1, <2>1 DEF TableOwned, TypeOK
  <2> QED  BY <1>1, <1>4, <1>5, <2>1, <2>2 DEF TableOwned
<1>11. Creation'
  <2>1. mpc # "idle" => thread'[result] = thread[result]
    BY <1>1, <1>5, <1>6 DEF TypeOK
  <2>2. mpc \in {"search", "enter"} => pc'[current] = pc[current]
    BY <1>1, <1>2, <1>4 DEF Creation, TypeOK
  <2> QED  BY <1>1, <1>3, <2>1, <2>2 DEF Creation
<1>12. ReturnedStarted'
  BY <1>1, <1>3, <1>4, <1>5 DEF ReturnedStarted, TypeOK
<1>13. DeletesItself'
  <2> SUFFICES ASSUME NEW j \in Ids, pc'[j] \in {"found"} \cup Deleting
               PROVE  /\ task'[j] = own[j] /\ own[j] \in allocated' /\ thread'[own[j]] = j
                      /\ pc'[j] = "found" => TASKS[index'[j]] = own[j]
    BY <1>3 DEF DeletesItself
  <2>1. j # k
    BY <1>5 DEF Deleting
  <2>2. own[j] \in Addresses /\ own[j] # own[k]
    BY <1>1, <1>4, <2>1 DEF Owners, Living
  <2> QED  BY <1>1, <1>3, <1>4, <1>5, <2>1, <2>2 DEF DeletesItself
<1>14. SelfFound'
  BY <1>1, <1>3, <1>4, <1>5 DEF SelfFound, TypeOK
<1>15. \A j \in Ids : Knows(j)'
  BY <1>1, <1>3, <1>4, <1>5 DEF Knows
<1> QED  BY <1>8, <1>9, <1>10, <1>11, <1>12, <1>13, <1>14, <1>15 DEF IndInv

-------------------------------------------------------------------------------
(* The creator                                                             *)

\* The parts of the invariant, for steps that cite it whole.
LEMMA Parts ==
  ASSUME IndInv
  PROVE  /\ TypeOK /\ Owners /\ TableOwned /\ Creation /\ ReturnedStarted
         /\ DeletesItself /\ SelfFound /\ \A j \in Ids : Knows(j)
  BY DEF IndInv

\* What the allocator gives is in nobody's hands.
LEMMA CallCreateStep ==
  ASSUME IndInv, CallCreate
  PROVE  IndInv'
<1>1. /\ TypeOK /\ Owners /\ TableOwned /\ Creation /\ ReturnedStarted
      /\ DeletesItself /\ SelfFound /\ \A j \in Ids : Knows(j)
  BY Parts
<1>2. PICK a \in Addresses :
        /\ a \notin allocated /\ allocated' = allocated \cup {a} /\ result' = a
        /\ mpc = "idle" /\ mpc' = "spawn"
        /\ UNCHANGED <<TASKS, thread, current, mindex, returned, own, crowded,
                       pc, caller, index, task, cancelled, sys>>
  BY TaskAssumption DEF CallCreate, GoMain, history, threads
<1>3. thread[a] = NULL
  BY <1>1, <1>2 DEF Owners
<1>4. \A n \in Entries : TASKS[n] # a
  BY <1>1, <1>2, <1>3, Apart DEF TableOwned
<1>5. TypeOK'
  BY <1>1, <1>2 DEF TypeOK
<1>6. Owners' /\ TableOwned'
  BY <1>1, <1>2 DEF Owners, TableOwned
<1>7. Creation' /\ ReturnedStarted'
  BY <1>1, <1>2, <1>3, <1>4 DEF Creation, ReturnedStarted
<1>8. DeletesItself' /\ SelfFound' /\ \A j \in Ids : Knows(j)'
  BY <1>1, <1>2 DEF DeletesItself, SelfFound, Knows
<1> QED  BY <1>5, <1>6, <1>7, <1>8 DEF IndInv

\* The thread that begins has its task, which nobody else has.
LEMMA SpawnStep ==
  ASSUME IndInv, Spawn
  PROVE  IndInv'
<1>1. /\ TypeOK /\ Owners /\ TableOwned /\ Creation /\ ReturnedStarted
      /\ DeletesItself /\ SelfFound /\ \A j \in Ids : Knows(j)
  BY Parts
<1>2. PICK k \in Ids :
        /\ mpc = "spawn" /\ mpc' = "search" /\ mindex' = 1
        /\ pc[k] = "none" /\ pc' = [pc EXCEPT ![k] = "run"]
        /\ thread' = [thread EXCEPT ![result] = k]
        /\ current' = k /\ own' = [own EXCEPT ![k] = result]
        /\ crowded' = IF \E n \in Entries : TASKS[n] = NULL THEN crowded ELSE crowded \cup {k}
        /\ UNCHANGED <<TASKS, allocated, result, returned, caller, index, task, cancelled, sys>>
  BY DEF Spawn
<1>3. result \in Addresses /\ result \in allocated /\ result # NULL /\ thread[result] = NULL
      /\ (\A n \in Entries : TASKS[n] # result) /\ k \notin returned
  BY <1>1, <1>2, Apart DEF TypeOK, Creation, ReturnedStarted
<1>4. /\ pc'[k] = "run" /\ own'[k] = result /\ thread'[result] = k
      /\ \A j \in Ids \ {k} : pc'[j] = pc[j] /\ own'[j] = own[j]
      /\ \A a \in Addresses \ {result} : thread'[a] = thread[a]
  BY <1>1, <1>2, <1>3 DEF TypeOK
<1>5. TypeOK'
  <2>1. /\ pc' \in [Ids -> {"none", "run", "test", "compare", "found", "leave", "dead"} \cup Deleting]
        /\ own' \in [Ids -> Addresses \cup {NULL}]
        /\ thread' \in [Addresses -> Ids \cup {NULL}]
    BY <1>1, <1>2, <1>3 DEF TypeOK
  <2>2. \A j \in Ids : /\ pc'[j] \in {"compare", "found", "erase"} => index[j] \in Entries
                       /\ pc'[j] # "none" => own'[j] # NULL
    BY <1>1, <1>3, <1>4 DEF TypeOK
  <2>3. crowded' \subseteq Ids /\ mindex' \in 1 .. (MAX_TASKS + 1)
    BY <1>1, <1>2, Indexing DEF TypeOK
  <2> QED  BY <1>1, <1>2, <2>1, <2>2, <2>3 DEF TypeOK
<1>6. Owners'
  <2>1. ASSUME NEW a \in Addresses, thread'[a] # NULL
        PROVE  a \in allocated /\ own'[thread'[a]] = a /\ pc'[thread'[a]] # "none"
    <3>1. CASE a = result
      BY <1>3, <1>4, <3>1
    <3>2. CASE a # result
      <4>1. thread'[a] = thread[a] /\ thread[a] \in Ids \ {k} /\ a \in allocated
            /\ own[thread[a]] = a /\ pc[thread[a]] # "none"
        BY <1>1, <1>2, <1>4, <2>1, <3>2 DEF Owners, TypeOK
      <4> QED  BY <1>4, <4>1
    <3> QED  BY <3>1, <3>2
  <2>2. ASSUME NEW j \in Ids, pc'[j] \in Living
        PROVE  own'[j] \in Addresses /\ thread'[own'[j]] = j
    <3>1. CASE j = k
      BY <1>3, <1>4, <3>1
    <3>2. CASE j # k
      BY <1>1, <1>3, <1>4, <2>2, <3>2, Apart DEF Owners
    <3> QED  BY <3>1, <3>2
  <2> QED  BY <1>2, <2>1, <2>2 DEF Owners
<1>7. TableOwned'
  <2> SUFFICES ASSUME NEW n \in Entries, TASKS[n] # NULL
               PROVE  thread'[TASKS[n]] # NULL /\ pc'[thread'[TASKS[n]]] \notin {"cancel", "free"}
    BY <1>1, <1>2 DEF TableOwned
  <2>1. TASKS[n] \in Addresses \ {result} /\ thread[TASKS[n]] \in Ids
    BY <1>1, <1>3 DEF TypeOK, TableOwned
  <2> QED  BY <1>1, <1>4, <2>1 DEF TableOwned
<1>8. Creation'
  <2>1. k \notin crowded' => \E n \in Entries : n >= 1 /\ TASKS[n] = NULL
    BY <1>2 DEF Entries
  <2> QED  BY <1>1, <1>2, <1>3, <1>4, <2>1 DEF Creation
<1>9. ReturnedStarted'
  BY <1>1, <1>2, <1>4 DEF ReturnedStarted, TypeOK
<1>10. DeletesItself'
  <2> SUFFICES ASSUME NEW j \in Ids, pc'[j] \in {"found"} \cup Deleting
               PROVE  /\ task[j] = own'[j] /\ own'[j] \in allocated /\ thread'[own'[j]] = j
                      /\ pc'[j] = "found" => TASKS[index[j]] = own'[j]
    BY <1>2 DEF DeletesItself
  <2>1. j # k
    BY <1>4 DEF Deleting
  <2>2. own[j] \in Addresses \ {result}
    BY <1>1, <1>3, <1>4, <2>1, Apart DEF Owners, Living
  <2> QED  BY <1>1, <1>4, <2>1, <2>2 DEF DeletesItself
<1>11. SelfFound'
  <2> SUFFICES ASSUME NEW j \in returned \ crowded',
                      pc'[j] \notin {"cancel", "free", "leave", "dead"}
               PROVE  \E n \in Entries : TASKS[n] = own'[j]
    BY <1>2 DEF SelfFound
  <2>1. j \in Ids \ {k} /\ j \in returned \ crowded
    BY <1>1, <1>2, <1>3 DEF TypeOK
  <2> QED  BY <1>1, <1>4, <2>1 DEF SelfFound
<1>12. \A j \in Ids : Knows(j)'
  BY <1>1, <1>2, <1>4 DEF Knows
<1> QED  BY <1>5, <1>6, <1>7, <1>8, <1>9, <1>10, <1>11, <1>12 DEF IndInv

\* pthread_create fails: the new task is freed, and in no entry.
LEMMA SpawnFailsStep ==
  ASSUME IndInv, SpawnFails
  PROVE  IndInv'
<1>1. /\ TypeOK /\ Owners /\ TableOwned /\ Creation /\ ReturnedStarted
      /\ DeletesItself /\ SelfFound /\ \A j \in Ids : Knows(j)
  BY Parts
<1>2. /\ mpc = "spawn" /\ mpc' = "idle" /\ result' = NULL
      /\ UNCHANGED <<TASKS, allocated, thread, current, mindex, returned, own, crowded,
                     pc, caller, index, task, cancelled, sys>>
  BY DEF SpawnFails, GoMain, history, threads
<1>3. TypeOK'
  BY <1>1, <1>2 DEF TypeOK
<1>4. Owners' /\ TableOwned' /\ Creation' /\ ReturnedStarted'
  BY <1>1, <1>2 DEF Owners, TableOwned, Creation, ReturnedStarted
<1>5. DeletesItself' /\ SelfFound' /\ \A j \in Ids : Knows(j)'
  BY <1>1, <1>2 DEF DeletesItself, SelfFound, Knows
<1> QED  BY <1>3, <1>4, <1>5 DEF IndInv

\* A free entry that the search has not reached is not passed.
LEMMA SearchStep ==
  ASSUME IndInv, Search
  PROVE  IndInv'
<1>1. /\ TypeOK /\ Owners /\ TableOwned /\ Creation /\ ReturnedStarted
      /\ DeletesItself /\ SelfFound /\ \A j \in Ids : Knows(j)
  BY Parts
<1>2. /\ mpc = "search" /\ mindex \in Entries
      /\ \/ TASKS[mindex] = NULL /\ mpc' = "enter" /\ UNCHANGED mindex
         \/ TASKS[mindex] # NULL /\ mpc' = "search" /\ mindex' = mindex + 1
      /\ UNCHANGED <<TASKS, allocated, thread, result, current, returned, own, crowded,
                     pc, caller, index, task, cancelled, sys>>
  BY DEF Search, GoMain, history, threads
<1>3. TypeOK'
  BY <1>1, <1>2, Indexing DEF TypeOK
<1>4. Creation'
  <2>1. mpc' = "search" /\ current \notin crowded =>
          \E n \in Entries : n >= mindex' /\ TASKS[n] = NULL
    BY <1>1, <1>2 DEF Creation, Entries
  <2> QED  BY <1>1, <1>2, <2>1 DEF Creation
<1>5. Owners' /\ TableOwned' /\ ReturnedStarted'
  BY <1>1, <1>2 DEF Owners, TableOwned, ReturnedStarted
<1>6. DeletesItself' /\ SelfFound' /\ \A j \in Ids : Knows(j)'
  BY <1>1, <1>2 DEF DeletesItself, SelfFound, Knows
<1> QED  BY <1>3, <1>4, <1>5, <1>6 DEF IndInv

\* The entry is still free, and the task is entered once.
LEMMA EnterStep ==
  ASSUME IndInv, Enter
  PROVE  IndInv'
<1>1. /\ TypeOK /\ Owners /\ TableOwned /\ Creation /\ ReturnedStarted
      /\ DeletesItself /\ SelfFound /\ \A j \in Ids : Knows(j)
  BY Parts
<1>2. /\ mpc = "enter" /\ mpc' = "idle"
      /\ TASKS' = [TASKS EXCEPT ![mindex] = result]
      /\ returned' = returned \cup {current}
      /\ result' = NULL /\ current' = NULL /\ mindex' = 1
      /\ UNCHANGED <<allocated, thread, own, crowded, pc, caller, index, task, cancelled, sys>>
  BY DEF Enter, Return, GoMain, history, threads
<1>3. /\ mindex \in Entries /\ TASKS[mindex] = NULL /\ result \in Addresses
      /\ (\A n \in Entries : TASKS[n] # result)
      /\ current \in Ids /\ own[current] = result /\ thread[result] = current
      /\ pc[current] \in {"run", "test", "compare", "leave", "dead"}
  BY <1>1, <1>2 DEF TypeOK, Creation
<1>4. \A n \in Entries : TASKS'[n] = IF n = mindex THEN result ELSE TASKS[n]
  BY <1>1, <1>2, <1>3 DEF TypeOK
<1>5. TypeOK'
  BY <1>1, <1>2, <1>3, Indexing DEF TypeOK
<1>6. Owners' /\ Creation' /\ ReturnedStarted'
  BY <1>1, <1>2, <1>3 DEF Owners, Creation, ReturnedStarted
<1>7. TableOwned'
  BY <1>1, <1>2, <1>3, <1>4, Apart DEF TableOwned
<1>8. DeletesItself'
  <2>1. \A j \in Ids : pc[j] = "found" => TASKS'[index[j]] = own[j]
    BY <1>1, <1>3, <1>4 DEF DeletesItself, TypeOK
  <2> QED  BY <1>1, <1>2, <2>1 DEF DeletesItself
<1>9. SelfFound'
  <2> SUFFICES ASSUME NEW j \in (returned \cup {current}) \ crowded,
                      pc[j] \notin {"cancel", "free", "leave", "dead"}
               PROVE  \E n \in Entries : TASKS'[n] = own[j]
    BY <1>2 DEF SelfFound
  <2>1. CASE j = current
    BY <1>3, <1>4, <2>1
  <2>2. CASE j # current
    <3>1. j \in returned \ crowded /\ j \in Ids /\ own[j] # NULL
      BY <1>1, <2>2 DEF TypeOK, ReturnedStarted
    <3>2. PICK n \in Entries : TASKS[n] = own[j]
      BY <1>1, <3>1 DEF SelfFound
    <3> QED  BY <1>3, <1>4, <3>1, <3>2
  <2> QED  BY <2>1, <2>2
<1>10. ASSUME NEW j \in Ids PROVE Knows(j)'
  <2>1. pc[j] # "none" => own[j] # NULL
    BY <1>1 DEF TypeOK
  <2>2. pc[j] \in Deleting => own[j] # result
    BY <1>1, <1>3 DEF DeletesItself, Deleting
  <2>3. pc[j] \in {"compare", "erase"} => index[j] \in Entries
    BY <1>1 DEF TypeOK
  <2>4. Knows(j)
    BY <1>1
  <2> QED  BY <1>2, <1>3, <1>4, <2>1, <2>2, <2>3, <2>4 DEF Knows, Deleting
<1> QED  BY <1>5, <1>6, <1>7, <1>8, <1>9, <1>10 DEF IndInv

\* A task that finds no entry was created when the table was full.
LEMMA NoEntryStep ==
  ASSUME IndInv, NoEntry
  PROVE  IndInv'
<1>1. /\ TypeOK /\ Owners /\ TableOwned /\ Creation /\ ReturnedStarted
      /\ DeletesItself /\ SelfFound /\ \A j \in Ids : Knows(j)
  BY Parts
<1>2. /\ mpc = "search" /\ mindex > MAX_TASKS /\ mpc' = "idle"
      /\ returned' = returned \cup {current}
      /\ result' = NULL /\ current' = NULL /\ mindex' = 1
      /\ UNCHANGED <<TASKS, allocated, thread, own, crowded, pc, caller, index, task, cancelled, sys>>
  BY DEF NoEntry, Return, GoMain, history, threads
<1>3. /\ current \in Ids
      /\ pc[current] \in {"run", "test", "compare", "leave", "dead"}
  BY <1>1, <1>2 DEF TypeOK, Creation
<1>4. current \in crowded
  <2>1. mindex \in Nat /\ \A n \in Entries : ~(n >= mindex)
    BY <1>1, <1>2, TaskAssumption DEF TypeOK, Entries
  <2> QED  BY <1>1, <1>2, <2>1 DEF Creation
<1>5. TypeOK'
  BY <1>1, <1>2, <1>3, Indexing DEF TypeOK
<1>6. Owners' /\ TableOwned' /\ Creation' /\ ReturnedStarted'
  BY <1>1, <1>2, <1>3 DEF Owners, TableOwned, Creation, ReturnedStarted
<1>7. DeletesItself' /\ SelfFound' /\ \A j \in Ids : Knows(j)'
  BY <1>1, <1>2, <1>4 DEF DeletesItself, SelfFound, Knows
<1> QED  BY <1>5, <1>6, <1>7 DEF IndInv

-------------------------------------------------------------------------------
(* The theorems                                                            *)

\* The actions together.
LEMMA Inductive == IndInv /\ [Next]_vars => IndInv'
<1> SUFFICES ASSUME IndInv, [Next]_vars PROVE IndInv'
  OBVIOUS
<1>1. CASE CreateStep
  BY <1>1, CallCreateStep, SpawnStep, SpawnFailsStep, SearchStep, EnterStep, NoEntryStep
     DEF CreateStep
<1>2. ASSUME NEW k \in Ids, CallGetSelf(k) \/ CallDelete(k) \/ ThreadStep(k)
      PROVE  IndInv'
  BY <1>2, CallGetSelfStep, CallDeleteStep, TestStep, CompareStep, FoundStep, NotFoundStep,
     ClearStep, EraseStep, CancelStep, FreeStep, DieStep DEF ThreadStep
<1>3. CASE UNCHANGED vars
  <2>1. UNCHANGED <<TASKS, allocated, thread, mpc, result, current, mindex, returned,
                    pc, caller, index, task, cancelled, own, crowded, sys>>
    BY <1>3 DEF vars, creator, threads, history
  <2>2. /\ TypeOK /\ Owners /\ TableOwned /\ Creation /\ ReturnedStarted
        /\ DeletesItself /\ SelfFound /\ \A j \in Ids : Knows(j)
    BY Parts
  <2>3. TypeOK'
    BY <2>1, <2>2 DEF TypeOK
  <2>4. Owners' /\ TableOwned' /\ Creation' /\ ReturnedStarted'
    BY <2>1, <2>2 DEF Owners, TableOwned, Creation, ReturnedStarted
  <2>5. DeletesItself' /\ SelfFound' /\ \A j \in Ids : Knows(j)'
    BY <2>1, <2>2 DEF DeletesItself, SelfFound, Knows
  <2> QED  BY <2>3, <2>4, <2>5 DEF IndInv
<1> QED  BY <1>1, <1>2, <1>3 DEF Next

\* The invariant holds always.
LEMMA Invariance == Spec => []IndInv
  BY Base, Inductive, PTL DEF Spec

\* The types are right in every reachable state.
THEOREM TypeCorrect == Spec => []TypeOK
<1>1. IndInv => TypeOK
  BY DEF IndInv
<1> QED  BY <1>1, Invariance, PTL

\* An entry of TASKS is a task that is allocated: Task_Delete of task.c takes it
\* out before it frees it, and Task_Create enters it once, although neither
\* takes a lock.
THEOREM EntriesAllocated == Spec => []NoDanglingEntry
<1>1. IndInv => NoDanglingEntry
  <2> SUFFICES ASSUME IndInv, NEW n \in Entries, TASKS[n] # NULL
               PROVE  TASKS[n] \in allocated
    BY DEF NoDanglingEntry
  <2>1. TASKS[n] \in Addresses /\ thread[TASKS[n]] # NULL
    BY DEF IndInv, TypeOK, TableOwned
  <2> QED  BY <2>1 DEF IndInv, Owners
<1> QED  BY <1>1, Invariance, PTL

\* A thread whose handle was returned, and that was created when TASKS had a
\* free entry, is in the table until it deletes itself.
THEOREM ReturnedIsEntered == Spec => []SelfFound
<1>1. IndInv => SelfFound
  BY DEF IndInv
<1> QED  BY <1>1, Invariance, PTL

\* What Task_GetSelf finds, and Task_Delete deletes, is the caller's own task,
\* which is still allocated, whatever the others do to the table meanwhile.
THEOREM OnlyItself == Spec => []DeletesItself
<1>1. IndInv => DeletesItself
  BY DEF IndInv
<1> QED  BY <1>1, Invariance, PTL
===============================================================================
