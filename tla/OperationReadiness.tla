------------------------ MODULE OperationReadiness ------------------------
(***************************************************************************)
(* The calls of NSOperation and of its queue that change or watch isReady  *)
(* and isFinished, one lock and one step of key-value observing after the  *)
(* other, in any number of threads; OperationQueue, where a step is a      *)
(* section of code in which nothing else of these matters, has no locks of *)
(* key-value observing.  The queue is neither limited nor suspended here,  *)
(* and -main takes no time: an operation that was handed over begins as it *)
(* finishes.  Changes of keys that nobody observes take the same locks to  *)
(* find that out; those of operationCount, made together with operations,  *)
(* are left out.                                                           *)
(***************************************************************************)
EXTENDS KeyValueObserving

CONSTANTS
  Queue,       \* the queue
  MayDepend    \* pairs <<op, dependency>> the program may make

ASSUME QueueAssumption == Queue \in Objects

Ops == Objects \ {Queue}

VARIABLES
  ready, cancelled, finished,  \* the flags of each operation
  dependencies,                \* what it depends on
  cond,                        \* its condition lock, when somebody waits
  unseen,                      \* history: <<op, dependency>> where the
                               \* dependency finished after addDependency:
                               \* had tested it and before it was observed
  operations, waiting,         \* the queue's
  started                      \* history: handed to a thread to be run

opVars == <<ready, cancelled, finished, dependencies, cond, unseen>>
queueVars == <<operations, waiting, started>>
vars == <<kvoVars, stack, opVars, queueVars>>

TypeOK ==
  /\ KvoTypeOK
  /\ {ready, cancelled, finished} \subseteq [Ops -> BOOLEAN]
  /\ dependencies \in [Ops -> SUBSET Ops]
  /\ cond \in [Ops -> {"none", "closed", "open"}]
  /\ unseen \subseteq Ops \X Ops
  /\ operations \subseteq Ops /\ waiting \subseteq Ops /\ started \subseteq Ops

Init ==
  /\ KvoInit
  /\ ready = [o \in Ops |-> TRUE]
  /\ cancelled = [o \in Ops |-> FALSE]
  /\ finished = [o \in Ops |-> FALSE]
  /\ dependencies = [o \in Ops |-> {}]
  /\ cond = [o \in Ops |-> "none"] /\ unseen = {}
  /\ operations = {} /\ waiting = {} /\ started = {}

OpLock(o) == <<"lock", o>>
QueueLock == <<"queueLock">>

--------------------------------------------------------------------------
(* observeValueForKeyPath:ofObject:change:context: of an operation, about   *)
(* itself or a dependency, and of the queue.                                *)
Observe(x, k, o) ==
  IF x = Queue
  THEN <<With(QueueLock, <<Do("queueSees", <<o>>)>>),
         With(QueueLock, <<Do("execute", <<>>)>>)>>
  ELSE <<With(OpLock(x), <<RemoveObserver(o, "isFinished", x),
                           Do(IF x = o THEN "open" ELSE "recheck", <<x>>)>>)>>

Reaction == [x \in Observers, k \in Keys, o \in Ops |-> Observe(x, k, o)]

SetReady(o, to) ==
  <<Will(o, "isReady"), Do("setReady", <<o, to>>), Did(o, "isReady")>>

Recheck(t) ==
  /\ At(t, "recheck")
  /\ LET o == Args(t)[1] IN
     stack' = Become(t, IF ~ ready[o] /\ \A d \in dependencies[o] : finished[d]
                        THEN SetReady(o, TRUE) ELSE <<>>)
  /\ UNCHANGED <<kvoVars, opVars, queueVars>>

AssignReady(t) ==
  /\ At(t, "setReady")
  /\ ready' = [ready EXCEPT ![Args(t)[1]] = Args(t)[2]]
  /\ stack' = Become(t, <<>>)
  /\ UNCHANGED <<kvoVars, cancelled, finished, dependencies, cond, unseen, queueVars>>

Open(t) ==
  /\ At(t, "open")
  /\ cond' = [cond EXCEPT ![Args(t)[1]] = "open"]
  /\ stack' = Become(t, <<>>)
  /\ UNCHANGED <<kvoVars, ready, cancelled, finished, dependencies, unseen, queueVars>>

QueueSees(t) ==
  /\ At(t, "queueSees")
  /\ LET o == Args(t)[1] IN
     stack' = Become(t,
       CASE finished[o] -> <<RemoveObserver(o, "isFinished", Queue),
                             Will(Queue, "operations"), Do("leave", <<o>>),
                             Did(Queue, "operations")>>
         [] ~ finished[o] /\ ready[o] -> <<RemoveObserver(o, "isReady", Queue),
                                           Do("wait", <<o>>)>>
         [] OTHER -> <<>>)
  /\ UNCHANGED <<kvoVars, opVars, queueVars>>

Leave(t) ==
  /\ At(t, "leave")
  /\ operations' = operations \ {Args(t)[1]}
  /\ stack' = Become(t, <<>>)
  /\ UNCHANGED <<kvoVars, opVars, waiting, started>>

Wait(t) ==
  /\ At(t, "wait")
  /\ waiting' = waiting \cup {Args(t)[1]}
  /\ stack' = Become(t, <<>>)
  /\ UNCHANGED <<kvoVars, opVars, operations, started>>

Execute_handsFirst(t) ==  \* mutant: observes what has been handed over
  /\ At(t, "execute")
  /\ IF waiting = {}
     THEN stack' = Become(t, <<>>) /\ UNCHANGED waiting
     ELSE \E o \in waiting :
            /\ waiting' = waiting \ {o}
            /\ stack' = Become(t, <<Do("hand", <<o>>), AddObserver(o, "isFinished", Queue),
                                    Do("execute", <<>>)>>)
  /\ UNCHANGED <<kvoVars, opVars, operations, started>>

(* _execute: one operation after the other, in any order.                   *)
Execute(t) ==
  /\ At(t, "execute")
  /\ IF waiting = {}
     THEN stack' = Become(t, <<>>) /\ UNCHANGED waiting
     ELSE \E o \in waiting :
            /\ waiting' = waiting \ {o}
            /\ stack' = Become(t, <<AddObserver(o, "isFinished", Queue),
                                    Do("hand", <<o>>), Do("execute", <<>>)>>)
  /\ UNCHANGED <<kvoVars, opVars, operations, started>>

Hand(t) ==
  /\ At(t, "hand")
  /\ started' = started \cup {Args(t)[1]}
  /\ stack' = Become(t, <<>>)
  /\ UNCHANGED <<kvoVars, opVars, operations, waiting>>

--------------------------------------------------------------------------
(* The calls, by a thread that is in none.                                  *)
Begin(t, steps) ==
  /\ ~ Busy(t)
  /\ stack' = [stack EXCEPT ![t] = steps]
  /\ UNCHANGED <<kvoVars, opVars, queueVars>>

AddDependency_bothLocks(t, o, d) ==  \* mutant: so that it cannot finish meanwhile
  /\ d \notin dependencies[o]
  /\ Begin(t, <<With(OpLock(o), <<With(OpLock(d),
                    <<Do("addDependency", <<o, d>>)>>)>>)>>)

AddDependency(t, o, d) ==
  /\ d \notin dependencies[o]
  /\ Begin(t, <<With(OpLock(o), <<Do("addDependency", <<o, d>>)>>)>>)

AddingDependency(t) ==
  /\ At(t, "addDependency")
  /\ LET o == Args(t)[1] IN
     stack' = Become(t, IF Args(t)[2] \in dependencies[o] THEN <<>>
                        ELSE <<Will(o, "dependencies"), Do("depend", Args(t)),
                               Did(o, "dependencies")>>)
  /\ UNCHANGED <<kvoVars, opVars, queueVars>>

Depend_untested(t) ==  \* mutant: observes whatever is added
  /\ At(t, "depend")
  /\ LET o == Args(t)[1]
         d == Args(t)[2]
     IN /\ dependencies' = [dependencies EXCEPT ![o] = @ \cup {d}]
        /\ stack' = Become(t,
             IF cancelled[o] \/ finished[o] THEN <<>>
             ELSE <<AddObserver(d, "isFinished", o), Do("unready", <<o, d>>)>>)
  /\ UNCHANGED <<kvoVars, ready, cancelled, finished, cond, unseen, queueVars>>

(* The dependency is watched only if it is still to finish, tested first.   *)
Depend(t) ==
  /\ At(t, "depend")
  /\ LET o == Args(t)[1]
         d == Args(t)[2]
     IN /\ dependencies' = [dependencies EXCEPT ![o] = @ \cup {d}]
        /\ stack' = Become(t,
             IF finished[d] \/ cancelled[o] \/ finished[o] THEN <<>>
             ELSE <<AddObserver(d, "isFinished", o), Do("unready", <<o, d>>)>>)
  /\ UNCHANGED <<kvoVars, ready, cancelled, finished, cond, unseen, queueVars>>

Unready(t) ==
  /\ At(t, "unready")
  /\ LET o == Args(t)[1] IN
     stack' = Become(t, IF ready[o] THEN SetReady(o, FALSE) ELSE <<>>)
  /\ UNCHANGED <<kvoVars, opVars, queueVars>>

RemoveDependency(t, o, d) ==
  /\ d \in dependencies[o]
  /\ Begin(t, <<With(OpLock(o), <<Do("removeDependency", <<o, d>>)>>)>>)

Undepend(t) ==
  /\ At(t, "removeDependency")
  /\ LET o == Args(t)[1]
         d == Args(t)[2]
     IN stack' = Become(t, IF d \in dependencies[o]
                           THEN <<RemoveObserver(d, "isFinished", o),
                                  Will(o, "dependencies"), Do("drop", <<o, d>>),
                                  Did(o, "dependencies")>>
                           ELSE <<>>)
  /\ UNCHANGED <<kvoVars, opVars, queueVars>>

Drop(t) ==
  /\ At(t, "drop")
  /\ LET o == Args(t)[1]
         d == Args(t)[2]
     IN /\ dependencies' = [dependencies EXCEPT ![o] = @ \ {d}]
        /\ stack' = Become(t, IF ready[o] THEN <<>> ELSE Observe(o, "isFinished", d))
  /\ UNCHANGED <<kvoVars, ready, cancelled, finished, cond, unseen, queueVars>>

Cancel(t, o) ==
  /\ ~ cancelled[o] /\ ~ finished[o]
  /\ Begin(t, <<With(OpLock(o), <<Do("cancel", <<o>>)>>)>>)

Cancelling(t) ==
  /\ At(t, "cancel")
  /\ LET o == Args(t)[1] IN
     stack' = Become(t, IF cancelled[o] \/ finished[o] THEN <<>>
                        ELSE <<Will(o, "isCancelled"), Do("setCancelled", <<o>>),
                               Did(o, "isCancelled")>>)
  /\ UNCHANGED <<kvoVars, opVars, queueVars>>

AssignCancelled(t) ==
  /\ At(t, "setCancelled")
  /\ LET o == Args(t)[1] IN
     /\ cancelled' = [cancelled EXCEPT ![o] = TRUE]
     /\ stack' = Become(t, IF ready[o] THEN <<>> ELSE SetReady(o, TRUE))
  /\ UNCHANGED <<kvoVars, ready, finished, dependencies, cond, unseen, queueVars>>

(* _finish, by a thread of the pool that has taken the operation.           *)
Finish(t, o) ==
  /\ o \in started
  /\ ~ Busy(t)
  /\ started' = started \ {o}
  /\ stack' = [stack EXCEPT ![t] = <<With(OpLock(o), <<Do("finish", <<o>>)>>)>>]
  /\ UNCHANGED <<kvoVars, opVars, operations, waiting>>

Finishing(t) ==
  /\ At(t, "finish")
  /\ LET o == Args(t)[1] IN
     stack' = Become(t, IF finished[o] THEN <<>>
                        ELSE <<Will(o, "isExecuting"), Will(o, "isFinished"),
                               Do("setFinished", <<o>>),
                               Did(o, "isFinished"), Did(o, "isExecuting")>>)
  /\ UNCHANGED <<kvoVars, opVars, queueVars>>

\* Who has found d unfinished and is on the way to observing it.
AboutToObserve(d) ==
  {o \in Ops : /\ \E u \in Threads : Contains(stack[u], Do("unready", <<o, d>>))
               /\ ~ Contains(observers[<<d, "isFinished">>], o)}

AssignFinished(t) ==
  /\ At(t, "setFinished")
  /\ LET d == Args(t)[1] IN
     /\ finished' = [finished EXCEPT ![d] = TRUE]
     /\ unseen' = unseen \cup (AboutToObserve(d) \X {d})
  /\ stack' = Become(t, <<>>)
  /\ UNCHANGED <<kvoVars, ready, cancelled, dependencies, cond, queueVars>>

WaitUntilFinished(t, o) ==
  /\ ~ finished[o]
  /\ Begin(t, <<With(OpLock(o), <<Do("watch", <<o>>)>>), Do("await", <<o>>)>>)

(* The first to wait makes the condition lock and observes the operation.   *)
Watch(t) ==
  /\ At(t, "watch")
  /\ LET o == Args(t)[1] IN
     /\ cond' = [cond EXCEPT ![o] = IF @ = "none" THEN "closed" ELSE @]
     /\ stack' = Become(t, IF cond[o] # "none" THEN <<>>
                           ELSE <<AddObserver(o, "isFinished", o),
                                  Do("watched", <<o>>)>>)
  /\ UNCHANGED <<kvoVars, ready, cancelled, finished, dependencies, unseen, queueVars>>

Watched_trusting(t) ==  \* mutant: does not test again after observing
  /\ At(t, "watched")
  /\ stack' = Become(t, <<>>)
  /\ UNCHANGED <<kvoVars, opVars, queueVars>>

Watched(t) ==
  /\ At(t, "watched")
  /\ LET o == Args(t)[1] IN
     stack' = Become(t, IF finished[o] THEN Observe(o, "isFinished", o) ELSE <<>>)
  /\ UNCHANGED <<kvoVars, opVars, queueVars>>

Await(t) ==
  /\ At(t, "await")
  /\ cond[Args(t)[1]] = "open"
  /\ stack' = Become(t, <<>>)
  /\ UNCHANGED <<kvoVars, opVars, queueVars>>

AddOperation(t, o) ==
  /\ o \notin operations /\ ~ finished[o]
  /\ Begin(t, <<With(QueueLock, <<Do("addOperation", <<o>>)>>)>>)

Adding(t) ==
  /\ At(t, "addOperation")
  /\ LET o == Args(t)[1] IN
     stack' = Become(t, IF o \in operations \/ finished[o] THEN <<>>
                        ELSE <<AddObserver(o, "isReady", Queue),
                               Will(Queue, "operations"), Do("insert", <<o>>),
                               Did(Queue, "operations"), Do("added", <<o>>)>>)
  /\ UNCHANGED <<kvoVars, opVars, queueVars>>

Add(t) ==
  /\ At(t, "insert")
  /\ operations' = operations \cup {Args(t)[1]}
  /\ stack' = Become(t, <<>>)
  /\ UNCHANGED <<kvoVars, opVars, waiting, started>>

Added_untested(t) ==  \* mutant: relies on being told
  /\ At(t, "added")
  /\ stack' = Become(t, <<>>)
  /\ UNCHANGED <<kvoVars, opVars, queueVars>>

Added(t) ==
  /\ At(t, "added")
  /\ LET o == Args(t)[1] IN
     stack' = Become(t, IF ready[o] THEN Observe(Queue, "isReady", o) ELSE <<>>)
  /\ UNCHANGED <<kvoVars, opVars, queueVars>>

--------------------------------------------------------------------------
Call(t) ==
  \/ \E p \in MayDepend : AddDependency(t, p[1], p[2])
  \/ \E p \in MayDepend : RemoveDependency(t, p[1], p[2])
  \/ \E o \in Ops : \/ Cancel(t, o) \/ Finish(t, o)
                   \/ WaitUntilFinished(t, o) \/ AddOperation(t, o)

OperationStep(t) ==
  \/ Recheck(t) \/ AssignReady(t) \/ Open(t)
  \/ AddingDependency(t) \/ Depend(t) \/ Unready(t) \/ Undepend(t) \/ Drop(t)
  \/ Cancelling(t) \/ AssignCancelled(t)
  \/ Finishing(t) \/ AssignFinished(t)
  \/ Watch(t) \/ Watched(t) \/ Await(t)

QueueStep(t) ==
  \/ QueueSees(t) \/ Leave(t) \/ Wait(t) \/ Execute(t) \/ Hand(t)
  \/ Adding(t) \/ Add(t) \/ Added(t)

Next ==
  \E t \in Threads :
    \/ Call(t) \/ OperationStep(t) \/ QueueStep(t)
    \/ KvoStep(t, Reaction) /\ UNCHANGED <<opVars, queueVars>>

Spec == Init /\ [][Next]_vars

--------------------------------------------------------------------------
Idle(t) == ~ Busy(t) \/ At(t, "await")
Quiet == \A t \in Threads : Idle(t)

(* When all calls have returned, an operation of the queue that is ready    *)
(* has been put in the waiting list or was handed to a thread; or the queue *)
(* began to observe it between the will and the did of a change of its      *)
(* readiness (addOperation: does not have the operation's lock), and is the *)
(* one observer that was not told.                                          *)
ReadinessSeen ==
  Quiet => \A o \in operations :
    ready[o] => \/ ~ Contains(observers[<<o, "isReady">>], Queue)
                \/ <<o, "isReady", Queue>> \in late

(* When all calls have returned, an operation that is not ready observes a  *)
(* dependency that is still to finish, and so will tell it.  Or it is one   *)
(* that addDependency: (it has the lock of the dependent operation only)    *)
(* found unfinished and that finished before it was observed: nobody tells  *)
(* of it, and its observer stays.                                           *)
DependencySeen ==
  Quiet => \A o \in Ops :
    ready[o] \/ \E d \in dependencies[o] :
                  /\ Contains(observers[<<d, "isFinished">>], o)
                  /\ ~ finished[d] \/ <<o, d>> \in unseen

(* A thread that waits for an operation that has finished is let through by *)
(* the thread that finished it, or by its own test after it began to        *)
(* observe: nobody waits for what is over, whoever came first.              *)
WaitersWoken ==
  \A t \in Threads :
    At(t, "await") => LET o == Args(t)[1] IN
      \/ cond[o] = "open"
      \/ ~ finished[o] /\ Contains(observers[<<o, "isFinished">>], o)
      \/ \E u \in Threads : Holds(u, OpLock(o))

(* Threads may come to wait for each other in a circle.  Whenever they do,  *)
(* one of them is adding or removing an observer, with the lock of the      *)
(* whole module, of an object another is telling the observers of; the      *)
(* locks of operations and queues alone, always taken in the order          *)
(* dependency, dependent, queue, form no circle.                            *)
OnlyKvoDeadlocks ==
  \A T \in SUBSET Threads :
    Stuck(T) => \E t \in T : Holds(t, Kvo)

(* When all calls have returned, no operation that has finished is left in  *)
(* the queue: the queue observes isFinished before it hands an operation to *)
(* another thread.                                                          *)
FinishedLeave == Quiet => \A o \in operations : ~ finished[o]
============================================================================
