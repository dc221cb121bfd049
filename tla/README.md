# A verification project for GNUstep Base

GNUstep Base (`src/`) is the Foundation library of GNUstep: strings, collections,
run loops, threads, locks, notifications, key-value observing, undo, distributed
objects, URL loading and the tools (`gdomap`, `gdnc`, ...) that go with them.  Most
of its 1.2 million lines are data, encodings, tests and documents; the program logic
that is hard to get right is in `Source/*.m`, `Source/unix`, `Source/Additions`,
`Source/ObjectiveC2` and `Tools/`.  This directory holds TLA+ modules for the parts of
that logic in which several actors, or a long sequence of calls, can do what a unit
test would hardly reach.

## Inventory of the system

| component | source | state it keeps | operations | what is hard |
|---|---|---|---|---|
| condition locks | `Source/NSLock.m` | mutex, condition variable, integer condition | lock, try, limit and condition variants, unlock, unlockWithCondition: | lost wake-ups, time-outs that race a broadcast, conversion of the condition |
| operations | `Source/NSOperation.m` 80-550 | cancelled, executing, finished, ready, dependencies, a condition lock | addDependency:, removeDependency:, cancel, start, waitUntilFinished, _finish | state changes are notified by KVO from any thread, in the middle of other calls |
| operation queues | `Source/NSOperation.m` 550-1050 | operations, waiting, starting, executing, threadCount, suspended, count | addOperation:, addOperations:..., cancelAll, setSuspended:, setMax..., waitUntilAll..., _execute, _thread | a pool of threads that come and go with a time-out; lock order against KVO |
| key-value observing | `Source/NSKeyValueObserving.m` | observers per object and key, recursion depth, a lock per observed object and a global one | add/removeObserver, will/didChangeValueForKey: | notifications under a lock, observers added between will and did |
| threads | `Source/NSThread.m` | active threads, per-thread performers and wake-up pipe | detach, exit, cancel, performSelector:onThread:... | a thread that exits while others ask it to perform and wait for it |
| run loop | `Source/NSRunLoop.m`, `Source/unix/GSRunLoopCtxt.m` | per mode timers, watchers, performers; nested polls | add/remove/cancel, limitDateForMode:, acceptInputForMode:beforeDate:, runMode:beforeDate: | re-entrance from every callback, fairness between timers and watchers |
| timers | `Source/NSTimer.m` | fire date, interval, invalidated | fire, invalidate, setFireDate: | a timer that invalidates or reschedules itself while it fires |
| notification queue | `Source/NSNotificationQueue.m` | ASAP and idle queues, list of queues of a thread | enqueue, dequeue, coalesce, post | posting re-enters the queue, queues die while the list is walked |
| notification centre | `Source/NSNotificationCenter.m` | observers by name and object | add, remove, post | observers added and removed while a post is under way |
| distributed notifications | `Source/NSDistributedNotificationCenter.m`, `Tools/gdnc.m` | clients, observers, suspended queues | register, add, remove, post, suspend | lost connections, suspended delivery and coalescing |
| undo | `Source/NSUndoManager.m` | undo and redo stacks, open group, isUndoing/isRedoing, levels | begin/endUndoGrouping, undo, redo, register, remove, set levels | re-entrance (undo registers redo), nested groups, run-loop grouping |
| distributed objects | `Source/NSConnection.m`, `NSDistantObject.m`, `NSPortCoder.m` | connections, proxies by target, requests and reply map | root proxy, forward, handle request/reply/release/retain/shutdown, invalidate | replies out of order, nested requests, a connection that dies under a request |
| ports | `Source/NSPort.m`, `NSMessagePort.m`, `NSSocketPort.m`, port name servers | handles, message queues, states of a handle | send, receive, accept, invalidate | partial reads and writes, dead peers |
| port names | `Source/NSSocketPortNameServer.m` | names of each port, ports by name | register, look up, remove one name or all | a request given up that comes into force later, names of a process that died |
| name server | `Tools/gdomap.c` | table of services, list of other servers, queue of datagrams | register, unregister, lookup, list, probe | sorted table, dead registrations, datagrams lost or late |
| distributed lock | `Source/NSDistributedLock.m` | a lock file and the time of the lock | tryLock, unlock, breakLock | another process breaks and takes the lock |
| cache | `Source/NSCache.m`, `NSURLCache.m` | objects by access order, cost, limits | set, get, remove, evict | eviction that calls out, counters at their limits |
| property and `@synchronized` support | `Source/ObjectiveC2` | spin locks, lock per object | objc_sync_enter/exit, atomic accessors | first use of a lock by two threads |
| thread-aware locks | `Source/Additions/GSLock.m` | lock, locked flag | lock, unlock, become-threaded notification | a lock created while the program turns multi-threaded |
| index sets, sorts | `Source/NSIndexSet.m`, `GSTimSort.m`, `GSShellSort.m`, `GSQuickSort.m` | ranges / an array | add, remove, shift; sort | boundaries, order kept |
| tasks, file handles, streams, URL loading | `Source/NSTask.m`, `GSFileHandle.m`, `GSStream.m`, `GSSocketStream.m`, `NSURL*.m`, `GSHTTPURLHandle.m` | descriptors, states, buffers | open, read, write, close, load | event order, partial I/O |
| user defaults | `Source/NSUserDefaults.m` | search list, domains, changed domains | synchronize, set | another process writes the same file |
| autorelease pools, root object | `Source/NSAutoreleasePool.m`, `NSObject.m` | pool chain, reference counts | | memory management, below the level of these models |
| strings, encodings, property lists, XML, MIME, dates, numbers, archiving, formatters, predicates | the rest of `Source/` | values | conversions | sequential and data heavy |
| tools and documentation generator | `Tools/autogsdoc` ..., `Tools/*.m` | | | sequential |

How they interact: an operation queue observes its operations with KVO, and KVO calls
back from the thread that changed the state with the lock of the observed object held; the queue's
workers wait on a condition lock; `performSelector:onThread:` hands work to another
thread's run loop over a pipe and waits on a condition lock; the run loop posts queued
notifications when it is idle, and ends undo groups with a performer; a connection registers
the name of its port with `gdomap`, by requests that the run loop serves, and the `gdomap`s of a
network find one another with datagrams.

Further hazards, of parts that are not modelled: an observer that removes other observers while a
key's live array of observations is walked backwards (`NSKeyValueObserving.m:1055`); a wake-up pipe that
is full (`NSThread.m:914`); a lazy lock whose `lockBeforeDate:` answers YES without locking in a
single-threaded program (`Additions/GSLock.m:127`); the window between test and removal in
`NSDistributedLock.m:265`; eviction that calls out while it walks the list of accesses (`NSCache.m:215`); posts that outlive
the removal of an observer (`NSNotificationCenter.m:1181`); the lock of the `@synchronized` table,
allocated by two threads at once (`ObjectiveC2/sync.m:59`); replies to nested requests out of order
(`NSConnection.m:3129`); the arithmetic by which a late repeating timer is advanced (`NSRunLoop.m:922`)
and the rotation of the descriptors of a poll (`GSRunLoopCtxt.m:520`).

## Plan

In the order of how much of the rest depends on them, and of how hard they are to test:

1. `NSConditionLock` against `AbstractConditionLock` - done, and proved to implement its
   safety part.
2. `OperationQueue`: operations, queue and pool - done; all its safety properties proved.
3. `NSUndoManager` against `AbstractUndo` - done; its invariants and the refinement proved.
4. `NSNotificationQueue` - done; all its properties proved.
5. `NSRunLoop`, which extends 4 and composes it with timers, performers and polls - done;
   all its properties proved.
6. `OperationReadiness`, which extends `KeyValueObserving`: what `OperationQueue` does in few steps, one
   after the other with the locks of KVO, operations and queue - done; model-checked.
7. `ThreadPerform`: `performSelector:onThread:`, the pipe, and the exit of the target; its callers wait on
   a lock as 1 justifies - done; its safety properties proved.
8. `gdomap` (pure operators), `PortNames`, which composes it with the processes that register names - done;
   all its properties proved.
9. `NameServerPeers`: name servers, lost datagrams and crashes - done; two theorems.

The set of runs is kept small, one for each question; a later module takes the place of
a run whose question it answers better.  Candidates for more modules, each with what it would show:
the distributed lock (processes between test, `mkdir` and `rmdir`), requests and replies of distributed
objects, the notification centre, index sets and sorts against reference definitions.

Theorems that would come next: `ReadinessSeen`, `WaitersWoken` and `FinishedLeave` of `OperationReadiness`, whose inductive invariant has to
say of every stack of steps of two calls which locks, counts and observations it stands for.

## The modules

| module | stands for | uses |
|---|---|---|
| `AbstractConditionLock` | what a condition lock promises | |
| `NSConditionLock` | `NSLock.m`, `NSCondition` and `NSConditionLock` | implements the above |
| `NSConditionLock_proofs` | its theorems | |
| `OperationQueue` | `NSOperation.m` | what `NSConditionLock` implements, as its pool's lock |
| `OperationQueue_proofs` | its types, what the queue and its operations see, where operations are, what is counted, what comes first | |
| `AbstractUndo` | what an undo manager promises | |
| `NSUndoManager` | `NSUndoManager.m` | implements the above |
| `NSUndoManager_proofs` | its theorems | extends `Subsequences_proofs` |
| `Subsequences` | what the loops that take some entries out of an array leave | |
| `Subsequences_proofs` | what `Only` keeps: elements, order, what comes before and after | |
| `NSNotificationQueue` | `NSNotificationQueue.m` | `Subsequences` |
| `NSRunLoop` | `NSRunLoop.m`, `unix/GSRunLoopCtxt.m`, `NSTimer.m` | extends `NSNotificationQueue` |
| `NSRunLoop_proofs` | the theorems of both | extends `Subsequences_proofs` |
| `KeyValueObserving` | `NSKeyValueObserving.m`, the locks and counts | |
| `OperationReadiness` | `NSOperation.m`, lock by lock | extends the above |
| `ThreadPerform` | `NSThread.m`, `NSRunLoop.m` as the target sees it | `Subsequences` |
| `ThreadPerform_proofs` | its theorems | |
| `gdomap` | the table of `Tools/gdomap.c` and its requests, as operators | `Subsequences` |
| `PortNames` | `NSSocketPortNameServer.m`, its clients and `gdomap` | extends the above |
| `PortNames_proofs` | the theorems of both | extends `Subsequences_proofs` |
| `NameServerPeers` | the probes of `Tools/gdomap.c` | |
| `NameServerPeers_proofs` | its theorems | |
| `MC...` | instances: symmetry sets, small graphs and sets of modes | the module they name |

The comment `mutant` marks a definition that the specifications do not use: a plausible
mistake in the code, kept beside the definition it would replace, with which each
property was seen to fail.

### NSConditionLock

The mutex of `_condition` is `owner`, `_condition_value` is `value`; `pc` and `request` say
where each thread is in its call and with which arguments.  A step is one pthread call or
the code between two.  `Call` begins any of the seven acquiring methods (a request names
a condition or `Any`, and waits for ever, to a limit or not at all); `Enter`, `Refused`,
`TestMeets`, `TestWaits`, `TestFails`, `TimeOut`, `SpuriousWakeup`, `Reacquire` and `Leave` are
the rest of them, `Unlock` and `Store`, `Broadcast`, `UnlockTold` the two ways to unlock.
Users are disciplined: only the holder unlocks, and it does not lock again; the
deadlock detection of `-lock` and the exceptions for misuse are left out, and with them
`NSLock` and `NSRecursiveLock`, which are the pthread calls themselves.

Run `condition_lock`: three threads, two conditions (with a condition for each thread and
one more than two values no new interleaving of test, store and broadcast appears: a
waiter only compares the value with its own).  `MutualExclusion` ties the mutex to the calls;
`NoLostWakeup` says that a thread sleeps on a condition that is met only between the store
and the broadcast; `ImplementsLock` is the refinement of `AbstractConditionLock`, in which
`holder` is who the lock was granted to and not who has the mutex for a moment to look at
the value.  Its fairness, WF of `Grant`, is the liveness of the component: a free lock is not
kept for ever from a thread that waits for the condition it has.

### OperationQueue

An operation's flags, priority, dependencies and those of them it observes (`watching`);
the queue's `operations`, its `waiting` ones, its counts, its limit and `suspended`; `awaited` and
`watched` are the operations whose `isReady` and `isFinished` it observes; the pool's `starting`,
the condition `cond` of its lock and `threadCount`.  `lock` is the queue's lock where it is held
from one step to the next (by `_execute` and while new operations are announced).  A thread's
`pc` says which method it is in, `todo` whom KVO has still to tell there.

An operation's own lock is kept by the thread that has it in `held`, or that is telling others of its end (`Unlocked`).

`AddDependency` ... `Start` and `AddOperation` ... `SetMaxConcurrentOperationCount` are what the
program calls; `TellDependent`, `TellQueue`, `MakeReady` and `Announce` are
`observeValueForKeyPath:` in the thread that makes the change; `Execute`, `StartFirst` (one
iteration) and `Executed` are `_execute`; `Take`, `TimeOut`, `Exit` and `EnterMain` ... `Finished` are
`_thread`, and `-start` as well.  `First` allows any of the operations of the highest priority, because the sort in
use is not stable.  Calls that test first and act later have two steps, with those of others in between:

- `AddDependency` tests whether the dependency has finished, `Depend` observes it and changes `isReady` (`NSOperation.m:125`, 130-142);
- `BeginReady` is `willChangeValueForKey:` of `isReady`, `MakeReady` the assignment and `didChangeValueForKey:`, which tells
  whoever observed when the change began: not a queue that came in between (`late`; 313-317, 615);
- `AddOperations` tests which operations have finished before it has the queue's lock, `Insert` and `Announce` come with it (665, 673);
  `AddOperation` tests with the lock.

`HandStarted` are the operations the program may start itself, queued or not (`-start` does not ask; 410-455), `Batches` the
sets it may add together.  With `LateDependencies` operations get dependencies also when they are queued.  What goes wrong in the code is in
history variables, so that each property can except exactly that: `byHand` (started by the program), `missed` (a dependency that had
finished when it was observed), `late`, and `strays` (operations that had finished when they were added).  All of them are
under Disagreements.

- `queue`: three operations of which the last depends on both others, one of them concurrent and one that the program may
  start by hand; two are added together; a program thread and two pool threads, which time out at any moment; limits of one and two that change; the
  program cancels, suspends, removes dependencies.
- `queue_drains`: liveness.  Every operation whose dependencies have finished leaves the queue,
  unless the queue is suspended or its limit may be used up by operations that were started by hand, or one of the exceptions above holds
  it.  Two operations and one pool thread, two priorities, dependencies also added after the
  operation was queued.  It holds only with `IdleTimeout = FALSE`: no pool
  thread is idle for the five seconds after which it gives up.
- `queue_stranded` (violated): with the time-out it fails.  A pool thread that has timed out still
  counts in `threadCount` until it gets the queue's lock; an operation handed over in between
  starts no thread, and nobody takes it until another operation is added.

`NoOperationLost` places every operation of the queue where something will happen to it, and of those that
the program did not start itself says that they come out of the started ones;
`NoReadinessMissed` and `NoDependencyMissed` say that no KVO change is missed but by `late` and `missed`; `WorkConserving`
that a queue at rest holds back nothing; `CountsExact` (but for `strays`), `RunsOnce` (but for `byHand`) and `DependenciesFirst` what
their names say.  The run of the last has no late dependencies.  Two pool threads stand for POOL, which the code sets to 8: with two, all of
"none", "some" and "all busy" occur, and `threadCount` reaches its limit.  Two or three
operations are enough for a chain, a queue behind a limit and an operation that ends while others
wait.

### NSUndoManager

`doc` is a document of the program, whose methods register the action that sets a key back.
`open` is `_group` with its parents; `call` is an undo or redo that is invoking actions, each of which is a
step, so that the methods invoked may use the manager, raise or run the loop.  `Calls` says
which of the class's calls an instance makes.

- `undo`: `ImplementsUndo` refines `AbstractUndo`, which knows documents and no actions: the
  mapping turns each stack into the documents it leads back to, by performing its actions from
  the last to the first.  So every undo and redo gives back exactly the document promised,
  under groups of events, nested groups, names, limits and removals.
- `undo_inside`: registering, removing and setting also from inside an undo, with exceptions and the run loop; undo, redo,
  grouping and `setLevelsOfUndo:` are called between undos only.  What can
  be redone still belongs to the document (`RedoIsFresh`) and the stacks keep to their limit
  without empty groups (`StacksFit`).  After an exception `isUndoing` stays set, and `RedoIsFresh` says nothing any more.

`MaxActions` bounds what is registered at a time, to 3: enough for two groups and a third one
that pushes out the first at `levels` 2.  Values are compared and nothing else, so the instances
are symmetric in them.

### NSNotificationQueue

`list` is the list of queues of a thread, `queued` the items of their two lists, `passes` the calls of
`GSPrivateNotifyASAP` and `GSPrivateNotifyIdle` in progress, the innermost last: each knows the
queue it is at and the batch that `notify` has taken out and not yet posted.  What is posted
calls observers; between two postings they may enqueue, dequeue, make queues, let them die and begin
an inner pass.  `fate` says what becomes of the thread when `unregisterQueue:` goes wrong: `hung` if the queue is beyond the
second, `freed` if it is the first of several or the second of three or more, so that an element that stays on the list is freed (see
below).  The properties are about threads that keep running with a list that is whole: only the last of one or two queues
can be taken from it, during passes too.

Run `notification_queue`: `PostedOnce`, `PassLosesNone`, `PassServesAll`, `Coalesced` and `PostsOldest`.
Three queues, because only from the third one on does the walk over the list matter; three notifications, so that
a batch of two is in progress while another is enqueued; two passes, one inside the other.

### NSRunLoop

`frames` are the runs of the loop in progress, one inside another, each with its step in
`limitDateForMode:` and `acceptInputForMode:beforeDate:` (or the latter alone, `AcceptInput`).
`FireTimer`, `FiredTimer`, `UpdateTimer`, `Limit` are the first; `TakePerformers`, `Perform`,
`NotifyAlone`, `IdleAlone`, `Poll`, `PollReady`, `Wait`, `PollQuiet`, `Dispatch`, `Dispatched`, `EventsDone`,
`LastDone`, `Return` and `Raise` the second with `pollUntil:within:`.  Wherever the code calls out,
the frame is marked `user`, and the program may make any call, begin a run in any mode among them; an observer is
called when a pass of `NSNotificationQueue` is deeper than the frame's.  `completed`, `fdMap` and
`contextStack` are those of the contexts, by which nested polls tell one another what has been handled.

Dates are not numbers: `due` says which timers' dates have passed.  The clock (`Tick`) and
input (`Arrive`) move only where the loop looks at them, since in between nobody can tell.  A program
does not add a timer again while it fires, and sets a fire date only where `NSTimer.m:322-328` allows it.
A run begins with any watchers, timers and performers already in place, which spares the instance the calls
that would put them there.

- `run_loop`: `NoStaleEvent`, `PerformedOnce`, `ModeRestored`, `TimerNotReentered`, `TimersHeeded`.  Three runs
  deep (the outermost, one in another mode, and one back in the first mode, which is what the
  context stack has to survive), three calls of the program after the set-up, two descriptors, one
  repeating timer, one performer, one notification.

### KeyValueObserving and OperationReadiness

`stack[t]` is what a thread has still to do, call inside call: a step is the code between two locks.
`With` takes a lock and does its body; a thread holds the locks whose release is on its stack, so that
the recursive locks of the code need no counts.  `FindInfo`, `Register`, `ForgetInfo` and `Unregister` are the two
methods that begin and end an observation, with `kvoLock` and then the lock of the information;
`WillChange`, `CountChange`, `DidChange`, `EndChange`, `Notify` and `Uncount` a change of a property.
An information that is given up while another thread waits for its lock is another one than that
made next (`info` numbers them).  Not in it: replaced setters, dependent keys, key paths and collections,
change dictionaries and prior notifications, which take no other locks.

`OperationReadiness` adds the methods of `NSOperation` and of its queue that change or watch `isReady`
and `isFinished`, with the lock of each operation and of the queue: the names of its actions are those of the
methods, and `Depend`, `Unready`, `Undepend`, `Drop`, `Watch`, `Watched`, `Add`, `Added`, `Leave`, `Wait` the parts after a call into KVO.
Changes of keys nobody observes (`dependencies`, `isCancelled`, `isExecuting`, `operations`) are in it for the locks they take.
A thread that has taken an operation makes it finish (`Finish`); running it, limits, suspension and priorities are in
`OperationQueue`.

Run `readiness`: two operations, one of which may depend on the other, and two threads, which make any
calls in any order.  Two threads are enough for each of the races (one that changes, one that begins or ends to
observe), and two operations for all the locks there are between a dependency, its dependent and the queue.
`ReadinessSeen`, `DependencySeen` and `WaitersWoken` say what a quiet system may not have missed; the first two name the
one way in which the code does miss it (`late` and `unseen`; see Disagreements): whoever is not ready observes a dependency that is
unfinished, or one that finished after `addDependency:` had tested it and before it was observed.  `OnlyKvoDeadlocks` says which circles of
locks there are: all of them go through `kvoLock`.  `FinishedLeave`: no finished operation stays in the queue.

### ThreadPerform

A job is one call of `performSelector:onThread:withObject:waitUntilDone:modes:`.  `Perform`, `AddPerformer` and `Answered`
are the caller; `performers` and `signal` are the target's `GSRunLoopThreadInfo` and its pipe, which `Poll` empties into `loop`, the
performers of the target's run loop (`fire`).  `RunMode`, `Begin`, `Poll`, `EndPass` are one pass of that loop; `stack` has a
frame for each pass and each method performed at once.  The program's methods may call again, run the loop, return,
raise (`Return`, `Raise`) or end the thread: `Exit` sets `isFinished`, `Invalidate` comes later, and calls of others
fall in between.  `lock` and `invalidated` are those of the holder by which a caller is told.  `known` is FALSE in a pass whose mode
has no context yet when the pass begins: the code looks it up once, and does not see jobs that make one.

Run `thread_perform`: the main thread and another, three calls, two modes, two frames deep.  Three calls are one
that waits, one performed by the method of another and one that is overtaken.  `ToldTheTruth`: a caller that is let go without an
exception finds its method performed to its end, and one that gets an exception can rely on it never being performed.
`StrandsTakenOnly`: who waits for ever, and for what.  `OrderKept`: the order of the calls is the order of the performances, except
for what outer passes hold.  `Begun`: what was handed over is begun at last.  The pipe is never full, and the
locks of the run-loop information are one step.

### gdomap and PortNames

`gdomap` has the table as a sequence: `map_add`, `map_del`, `map_by_name` (the search by halves, as a
recursive function) and the requests `Register`, `Lookup`, `UnregisterName`, `UnregisterPort`.  To
tell a live registration from a dead one the server tries to bind a socket to the port: here that fails exactly
for the ports somebody listens on.  Names are numbers, for `compare`, which orders by length first: any strict order
will do.  Types of ports are left out, since distributed objects use one.

`PortNames` has processes with one port each.  `todo` are the steps a call has still to make; the request of the first one
is on its way to `gdomap` until there is an `answer`, which is on its way back; `known` are the names of the port in `_portMap`, `registered` the name
of the connection.  `Open`, `RegisterName`, `RegisterNil`, `LookUp` and `Invalidate` are the calls of the program.  `serverLock`
makes the calls of a process one at a time.  Faults: `GiveUp` (a time-out; the request, if it is still on its way, becomes an
orphan that `gdomap` serves at any later time), `Crash` of a process, `Restart` of `gdomap`, whose table is lost, and with it
any answers it has not yet written (`gdomap.c:3394`).
`by`, in an entry, and `lost` are history: who asked for an entry, and which names were taken from their
owners by a restart, by others or by an own removal that was given up.

Run `port_names`: two processes, two names, two ports (so that a port is used again by the other process), and one fault anywhere.
`Findable`: the table stays in strict order and the search finds what is there.  `KnownNamesServed`: a name leads to the port of the
process that was told it has it, unless its connection registers that name again (`NSConnection.m:1489`, below).  `NoStaleNames`: a port that is used again does not answer to names of the earlier
process.  `NothingLeft`: after an invalidation nothing of the port is left in the table.

### NameServerPeers

Hosts that run `gdomap`, each with the list of the others it knows (`prb`, as the age of the last contact), its queue of
datagrams (`u_queue`) and what is on the way (`net`).  `init_probe`, `prb_add`, `prb_tim`, `handle_send`, `handle_recv` and
`Timeout` (the branch of `handle_io` for a `select()` that timed out) have the names of the code.  A host goes down with
all it knows and may start again; a message is lost when it is sent or on its way, and when nobody listens.
Time passes in units (`Tick`) that are longer than a datagram is on its way.  `Busy` is how long other descriptors may keep `select()` from
timing out, and so both probes and dropping from happening.  Each host has one interface that can broadcast;
probing address by address (networks of class C without broadcast), the list of hosts from a file and the
servers of servers, which replies carry, are left out: they add other ways to meet.

Run `peers`: two hosts, four faults.  `DropsSilentOnly`: a server is dropped only if a message between the two was lost, it went down,
or it has not answered yet; time alone is no reason.  `PeersMeet` and `DeadForgotten` are liveness: servers that stay up
know each other again and again, and one that stays down is forgotten for good.  All three speak of two hosts, and
a third one changes no more than the age of contacts of its own; `DropsSilentOnly` is proved for any number.

`CHECK_DEADLOCK FALSE` stands in every configuration but that of the condition lock (whose idle
threads can always call): a program may stop calling, and the bounds end its calls; in `readiness` threads may
also wait for each other for ever, which `OnlyKvoDeadlocks` is about.  The type invariants (`TypeOK`, `QTypeOK`) hold in the
instances of the runs and are not listed there; where they are part of an inductive invariant they are proved.

### Bounds

`MaxActions` (`NSUndoManager`), `MaxEntries` and `MaxPasses` (`NSNotificationQueue`), `MaxFrames` and
`MaxCalls` (`NSRunLoop`) bound what the program does; they are in the guards of its calls and nowhere
else (a pass of the run loop also needs room for one more pass; three in `run_loop` are more than one
notification can begin).  `MaxJobs` and `MaxDepth` (`ThreadPerform`) bound calls and frames, `MaxFaults` the faults of `PortNames` and
`NameServerPeers`; `Busy` bounds the time between two time-outs of a server, and with it the ages of contacts: beyond `Silence` they only grow.
`interval` 1 and `Silence` 2 keep the order of the ten and the thirty minutes of the code.  `MaxInfos` follows from the number of threads.
`HalfRange` is the width of the `int` in a condition lock.  `Workers` stands for POOL.
Nothing else is bounded.

### Fairness

`NSConditionLock`: strong fairness of acquiring the mutex (a thread that contends for a mutex that is freed
again and again gets it some time: the assumption under which a mutex is usable at all), weak fairness of
what a thread does in a call.  Nothing makes a holder unlock or an idle thread call.
`OperationQueue`: strong fairness of what a thread does in the queue, since it contends for the queue's lock, and of a pool
thread's taking an operation; weak fairness of its exit.  `-main` returns and concurrent operations finish; the program
need not call.  `ThreadPerform`: weak fairness of what a thread does by itself (a thread that was detached starts; the steps of a
call and of a pass), strong fairness of the end of a method it performs (it may run the loop again and again before it
returns) and of running the loop in each mode when it is not in a method: the documentation of the method asks the program for that.
Nothing makes a thread call or end.  `NameServerPeers`: weak fairness of `Goes`, that is, time passes and what is on its way arrives or is
lost; not more, since `Busy` and `Tick` make every server time out before time goes on, and a bounded number of
messages is lost.  Nobody has to start or crash.  The other modules state safety only: their actors are callbacks of one thread,
or processes that need not call, and what would be live in them depends on the program returning from each.

## What is proved

`NSConditionLock_proofs`, for any threads and any integer conditions:
`IInv` is the type invariant, `RequestInv` (a thread has a request exactly while its call is open),
`MutualExclusion` and `NoLostWakeup`.  The first two are needed because a step of one thread changes `owner`
and `pc` of several; `RequestInv` because `NoLostWakeup` speaks of a waiter's request.  `LockExcludes` and
`WakeupsAreKept` follow; `ImplementsLockSafely` maps every step to a step of the abstract lock or a
stutter, assuming that the conditions fit an `int` (`HalfRange`).

`OperationQueue_proofs`, for any set of operations and program threads, any finite pool, any
limits, priorities and dependencies:
- `TypeCorrect`, from `Types`, the type invariant in four groups of variables so that each action is looked at
  only for the groups it changes;
- `QueueIsWorkConserving`, from `Types` and `ThreadInv` (what each `pc` says of `cur`, `todo`, `held`, `resume` and the
  queue's lock): whatever makes `MayStart` true leaves some thread owing an `_execute` or holding the lock;
- `ReadinessIsSeen`, from `ReadyInv` as well: the operations still to be announced are those of the thread that
  holds the queue's lock.  A change that began before the queue observed is in `late`, one that began after tells it;
- `DependenciesAreSeen`, from `LockInv` (no two threads have the lock of one operation, and who is about to observe a dependency has that
  of the dependent) and `WatchInv` (each dependency of an operation that has not begun has finished, is observed, or is about to
  be).  The lemmas `FinishedStays`, `PendingBefore` and `ToldStays` are its steps.  Without the locks an operation could be
  found with an unfinished dependency by the last to finish, and get no other.

The second part of the module goes on from there, for the same constants:
- `NoOperationIsLost` and `OperationsRunOnce`, from `PlaceInv`: what the queue holds is split into what it observes, what waits and what was
  started (`SetsOK`); of the latter each operation is in the array of the pool, on its own, or with a thread (`StartedOK`, `NoneAstray`), in the array
  once (`HandedOnce`), and with one thread only (`HolderOK`, `OneHolder`).  `RunOK` says that nobody has begun what is observed, waiting or handed over,
  which is why whoever takes it is the first - of operations that the program has not started itself: of those it says that they are marked
  as executing, so that `-start` will not take them a second time, and nothing of the pool, which will.
- `CountsAreExact`, from `CountInv` as well: the count of the queue is the number of operations it watches less the `strays`, that of the pool
  the number of its threads that have not ended, and the condition of the pool's lock is 1 exactly while something is there to take.
  Each step changes a count and a set; `PlaceInv` says that what is added was not in the set, and what is taken out was or is a stray.
- `DependenciesComeFirst`, from `DepInv`: an operation that is ready and not cancelled has no unfinished dependency but one it is just being given,
  one that is becoming ready has none at all, and what waits, was handed to the pool or taken from it is ready; `ApartInv` keeps what is given a dependency
  apart from what is queued.  It assumes `~ LateDependencies`,
  as the run does: with late ones it is false (`NSOperation.m:904`, below).

`Subsequences_proofs`: entries are taken out of arrays by loops in many places (coalescing, passes, batches of performers, timers that are no longer valid).
`Only(seq, S)` is what is left, defined by the ranks of the indices instead of the recursive `SelectSeq`, because the
prover has no induction over data: `OnlyComesFrom` gives an increasing map from the indices of the result to those of
the sequence, since ranks are an injection between sets of the same cardinality (`FS_Injection`); `OnlyKeeps`, `OnlyKeepsOrder` and the
others follow from it.

`NSUndoManager_proofs`, for any keys, values, names, levels and number of actions:
- `UndoTypeOK`, `RedoStaysFresh` and `StacksStayFit`, from `UInv`, for whatever is called in the middle of an undo or redo, exceptions and the run
  loop included.  `RedoIsFresh` and `Fits` (a stack is within the levels and has no empty group) are its parts; what they rest on besides is that
  the groups a redo puts aside are unused, and that an undo has no more to invoke than its group says.
- `UndoImplementsUndo`: every step of the manager is one of `AbstractUndo` or a stutter, from `SInv`, that is `UInv` and `CInv`.  `CInv` says
  of an undo in progress that the document is the one at its beginning with the invoked actions performed, and that the open group holds as many
  actions as were invoked: that each of them undoes an invoked one is what makes the finished undo a change that can be redone.  The
  documents a stack leads back to are not defined by a fold but in closed form: a key has the value of the first action on it among
  the groups from the i-th on (`Perform`, `Before`, `LeadsTo`), so that `PerformConcat`, `BeforeAppend`, `BeforeShift` and `LeadsSuffix` can be proved without
  induction.  The theorem assumes `Undisturbed`, which the run `undo` meets too: an exception, a removal or a run of the loop in the middle of an
  undo (Disagreements), disabled registration and the removal of one target's actions leave changes that no action undoes, so that `AbstractUndo` would not be implemented.

The notification queue (first part of `NSRunLoop_proofs`), for any queues, notifications, modes, masks and bounds:
- `NotificationsPostedOnce` and `NotificationsCoalesced`, from `IInv`.  Its parts: entries are in the order in which they were enqueued
  (`QueuesSound`, `BatchesSound`); each is in one place (`QueuesApart`, `BatchesApart`: else an entry a batch posts could be posted again by
  the next); no queue holds what a younger entry was to be coalesced with (`Uncoalesced`).
- `PassesPostOldest` needs `Behind`: what is due in the queue of a pass is younger than its batch, since the batch took all there was; an
  observer adds at the end.
- `PassesServeAll` needs `Visited`: in the queues from the first to the one a pass is at, all that is due is younger than the pass.
  Observers add and remove queues during a pass, so this is a statement about the list as it is now.
- `PassesLoseNothing`: a step that begins, advances or ends a pass leaves what was in a queue or a batch there or among the posted.

The run loop (second part), for any modes, timers, performers, descriptors and nesting: each step of the loop is one of the queues
or leaves them alone (`QueueSteps`), so that `LoopKeepsQueues` and `LoopServesQueues` carry those theorems
over to passes begun by nested runs.  `LInv` is the rest, one part for each theorem:
- `Nested` (the saved mode of a run is the mode of the one it is in) for `LoopModeRestored`;
- `TimersApart` (a timer that fires is not in the array of its mode, nor fires in another run of that mode) for
  `LoopTimersNotReentered`: the array is what excludes it, not a flag;
- `Heeded` for `LoopTimersHeeded`: a run that is about to wait knows of each timer of its mode and of each that a run
  inside it holds and will put back, or the timer came after the date was computed;
- `PerformersApart` (a performer is in arrays or in one batch, once) for `LoopPerformsOnce`;
- `Handled` for `LoopCallsForInput`: what is in the map of a run's context has input, unless a run inside it polls in the same mode or has
  polled, and then the context is marked completed before the outer run looks again.

`ThreadPerform_proofs`, for any threads, modes and number of calls:
- `ThreadTypeOK`, `CallersAreToldTheTruth` and `StrandedWereTaken`, from `PInv`.  `Home`: a job is once in one of the performers of
  the thread's information, its loop and the passes on its stack, it is that thread's, and not begun; what a pass performs is begun and nowhere else.
  `Caller`: what is being added is nowhere yet.  `Told`: the lock of a job somebody waits for is released exactly if the job is done
  or invalidated, and it is never both.  `Somewhere`: a job that is in none of these places is over.
- `OrderIsKept`, from `OInv`: `Ordered` says that jobs of one caller are sorted in each array, that those further on the way were called earlier, and that
  a job of the mode of a pass, which the pass did not find, comes later than those it found; `Latest` that what a caller
  adds is its last call.  A job that overtakes another must then have found it begun, or held by a pass outside.

`PortNames_proofs`, for any processes, names, ports and number of faults:
- `SearchFinds`: `map_by_name()` finds a name exactly when it is in the table, for a table in strict order of any length.  The search is a
  recursive function.  That there is one is shown by a function known in closed form (`Cut`: the place before which all names are smaller
  and from which none is) which satisfies its equation, because each half keeps the cut in the span; that there is only one, by the length of the spans:
  among the spans on which two solutions differed there would be a shortest, whose half is shorter.  `AllNumbers` is that induction, stated for sets,
  since the prover cannot instantiate an operator.
- `AddIs`, `DelIs`, `ReplaceIs` and `WithoutPortIs` say what the operations make of the set of entries and that they keep the order;
  `RegisterIs`, `LookupIs`, `UnregisterNameIs` and `UnregisterPortIs` the same of the requests.
- `TableFindable`, `KnownNamesAreServed`, `NoNamesAreStale`, `NothingIsLeft` and `PortNamesTypeOK`, from `PInv`: the types, the order of the table,
  `PortsApart` (no two processes listen on one port), `OrphansFit` (what orphans ask) and, of each process, `ProcessFits`.  That relates what is left of its call, the answer
  it has not read, its ports and names to the entries of the table: `CallFits` (the few shapes a call can have, and which of them has an answer to come),
  `HeldBy` (names it knows, and the one just given and not yet read, are in the table under its port, or in `lost`), `FreshFor` (from the answer to its first
  `unregisterPort:` on, only entries of its own or late ones are at its port) and `OwnedBy` (entries it asked for are of names it knows or
  is about to).  Answers that are not yet read are why the properties alone are not inductive.  A step of one process
  leaves the others fit if it is `Undisturbing`: it may take an entry of another only by adding to `lost`, and adds none at another's port.

`NameServerPeers_proofs`, for any hosts (three or more as well), any interval, silence and bounds:
`SilenceExplained` is the inductive invariant `IInv`: the types, `NotItself` (no server lists itself), `DownIsEmpty` (what a stopped server
had is gone) and `Asked`: if h last heard q before its last probe, then h may have missed something from q, or the
probe or its answer is on its way.  `Asked` is the heart: a probe makes every contact older than it, and only a message from q, its loss or
a stop of q changes that.  `OnlyTheLostAreDropped` follows: who is dropped is older than the last probe.

The assumptions are the named `ASSUME`s of the modules; the runs evaluate them.  The theorems are about
`SafeSpec`, without fairness, or about `Spec` and `LoopSpec` where a module states none.

Only model-checked:
- all liveness (`ImplementsLock` as a whole, `QueueDrains`, `Begun`, `PeersMeet`, `DeadForgotten`), which is beyond the prover used, as is `ENABLED`;
- the five invariants of `OperationReadiness`: no inductive invariant has been written for its stacks of steps; two threads and
  two operations are the instance that is checked.

## Disagreements between code and documentation

The one with a run is in `PROJECT.json` under "findings": `queue_stranded`.
These were met too, were seen as counterexamples of earlier instances or follow from the line, and have no run of their own:

- `NSLock.m:456`: the `NSInteger` given to `unlockWithCondition:` is stored in an `int`; a wider one never meets the
  condition it was set to.  The model has the conversion (`ToInt`); the theorem needs conditions that fit.
- `NSLock.m:415`, `NSLock.h:223`: `lockWhenCondition:beforeDate:` waits for the mutex without a limit after its date
  has passed, so that a holder delays the answer NO past the limit.
- `NSOperation.m:904`, `NSOperation.h:66`: a dependency added to an operation the queue has already found ready
  is not waited for (the model: `AddDependency` with `LateDependencies`).
- `NSOperation.m:931`, `NSOperation.h:287`: operations already handed to the pool are run after
  `setSuspended: YES`.
- `NSOperation.m:961`, `NSOperation.h:109`: `isExecuting` answers NO while the pool runs an operation.
- `NSOperation.m:1027`, 1031: `pending` is what was starting before the new operation, so that one busy
  thread does not bring a second one for the next operation, only for the one after it.
- `NSOperation.m:125`: a dependency that finishes between the test and `addObserver:` is never seen, and the operation never
  becomes ready (`DependencySeen`: `unseen`; `NoDependencyMissed`: `missed`).  615: a queue that begins to observe `isReady` in the middle of a change is not told
  (`ReadinessSeen` and `NoReadinessMissed`: `late`).
- `NSOperation.m:416`, 612: neither `-start` nor the queue asks whether the other has the operation, so that one that is queued and
  started by hand runs its `-main` twice, once in each thread, even after it has finished; finished before the queue watches it, it stays in
  `operations` and keeps a place of the limit for ever (`byHand`).
- `NSOperation.m:465`: if the `-main` of an operation that was started by hand raises, `_finish` is not reached: it is executing for ever,
  and what depends on it is never ready (`LeaveMain`).
- `NSOperation.m:665`: `addOperations:waitUntilFinished:` tests `isFinished` before it has the lock.  An operation that
  finishes in between is added, and as `observeValueForKeyPath:` goes by `isFinished` alone, it is taken off `executing`
  (894), where it never was: the queue runs one more than its limit from then on (`strays`).
- `NSKeyValueObserving.m:1504`, 1764: `kvoLock` is held while the lock of an information is awaited, and the lock of
  an information while observers are told, which add and remove observers: two threads can wait for each other for ever
  (`OnlyKvoDeadlocks` would fail without its exception).
- `NSThread.m:1263`: a job that is added after the target invalidated its performers, taken by a loop that does not run again in its mode,
  dropped by the exit of the thread in its middle, or that raises, leaves its caller waiting for ever
  (`StrandsTakenOnly` names them; `NSThread.h:285` warns only of a loop that is not run).
- `NSThread.h:276`: "the order in which the operations in the thread is done is the same as that in which they were added": not if
  the target runs its loop in a method it performs, while the pass outside it holds earlier jobs (`OrderKept` excepts them), nor
  between its own calls and those of others, since its own go to the loop at once.
- `NSSocketPortNameServer.m:1220`: "iff it is registered by this process": an invalidated port does not listen any more, so
  that another process can get its name before the removal, which then removes the other's (`lost`).
- `NSSocketPortNameServer.m:1202`: `removePort:` never ends while `gdomap` cannot be reached, with `serverLock` held.
- `NSConnection.m:1489`: registering the same name twice removes it: the previous name, which is the same, is removed after the new one
  is registered (`Answered`).
- `gdomap.c:420`, 3218: `is_local_net` and the choice of an address combine mask and address with `&&` instead of `&`: any two addresses are on
  one network.  2473: "at least five minutes" is the interval, ten.  Both are outside the model, which has one network.
- `gdomap.c:2802`: whether the registered port is free is tried with the protocol of the new request, not with that of the old entry.
- `NSCache.m:121`: removal leaves the cost of the object in `_totalCost`.
- `NSUndoManager.m:1042`: when a method that undo invokes raises, `isUndoing` stays YES for ever (Calls with
  "raise"), and what is edited afterwards is registered for redo.
- `NSUndoManager.m:792`: `removeAllActionsWithTarget:` forgets the open groups.
- `GSRunLoopCtxt.m:416`, `NSNotificationQueue.m:492`: the loop may wait for input with an `NSPostASAP` notification queued
  for its mode: only idle ones are looked for before it waits.
- `NSUndoManager.m:1049`: if what an undo invokes registers nothing, the last group of the redo stack is renamed,
  which is another change's.
- `NSUndoManager.m:192`: the run loop run inside an undo ends the group that the undo began.
- `NSNotificationQueue.m:143`: the loop that looks for a queue beyond the second place of the list does not advance: it
  never ends.  129-135: when the first queue of several is unregistered, the element that follows it becomes the
  head and is released.  145-151: when the second of three is, the element of the third stays on the list and is freed by
  the `dealloc` of the second (80-90), whose `next` is still set.  `Unregister` has all of these (`fate`).
- `NSNotificationQueue.m:402`, 396: with `NSNotificationNoCoalescing` nothing is removed, though the comment says
  "match only the given instance exactly".
- `NSRunLoop.m:1015`: a timer that is in two modes and whose handler runs the loop in the other one is called again
  inside itself.  847: one that its handler adds again is then scheduled twice.
- `NSRunLoop.m:489`, 1417: a performer cancelled by an earlier one of the same batch is sent nevertheless.  1256: performers
  alone do not make `runMode:beforeDate:` run the loop, and are not sent.
- `NSRunLoop.m:1255`: a timer that a performer adds before the poll is not in the date the poll waits until; the
  thread oversleeps it (`TimersHeeded` says: only such a timer).

## Not modelled, and why

The table of components in `PROJECT.json` has the reason for each.  In short: the candidates of the plan; what is pure
I/O or the platform's (sockets, pthread start-up, file attributes); memory management, except where the lifetime of an
object decides what happens (the queues of a thread); and sequential conversions over large data, which tests reach better
and which are most of the lines of the repository (one C header of character sets alone has 770 thousand).
Within the modelled parts: key paths, dependent keys and collections in KVO; the housekeeping timer, tasks and triggered watchers in
the run loop; the lists of names and servers that `gdomap` gives to clients, its interfaces and options; message ports; the win32 contexts.
