--------------------------- MODULE ThreadPerform ---------------------------
(***************************************************************************)
(* performSelector:onThread:withObject:waitUntilDone:modes: (NSThread.m),  *)
(* the run loops that perform what it was asked, and the end of threads.   *)
(*                                                                         *)
(* A job is one call.  It goes to the performers of the target's           *)
(* GSRunLoopThreadInfo, whose pipe wakes the target's loop; the loop moves *)
(* it to its own performers, and begins it when it runs in one of its      *)
(* modes.  Methods that are performed may call, run the loop, raise, and   *)
(* end the thread.  The lock a caller waits for is granted once its        *)
(* condition is 1, which NSConditionLock shows.  The pipe is never full.   *)
(***************************************************************************)
EXTENDS Subsequences, SequencesExt

CONSTANTS
  Threads,
  Main,        \* the default thread, which does not end before the process
  Modes,
  NoMode,
  Wanted(_),   \* the calls that are made (a choice of inputs)
  MaxJobs,     \* bound: calls
  MaxDepth     \* bound: passes and methods inside each other

ASSUME MainAssumption == Main \in Threads
ASSUME NoModeAssumption == NoMode \notin Modes
ASSUME BoundsAssumption == MaxJobs \in Nat /\ MaxDepth \in Nat

Jobs == 1 .. MaxJobs
NoJob == 0

VARIABLES
  thr,         \* "created", "active", "ending" once it isFinished, "ended"
               \* once its GSRunLoopThreadInfo is invalid
  calls,       \* how many calls there were
  job,         \* what each asked: the caller, the target, modes, wait
  pc,          \* what a thread does in such a call
  performers,  \* of each GSRunLoopThreadInfo
  signal,      \* the pipe of the target is readable
  loop,        \* the performers of each loop, in order
  contexts,    \* the modes a loop has a context for
  hasLoop,     \* the threads with a run loop
  stack,       \* the passes of each loop, and methods performed directly
  lock,        \* the condition of the lock of each job
  invalidated, \* the flag of each GSPerformHolder
  performed    \* history: "no", "begun", "done", "raised" or, when
               \* the thread ended before, "dropped"

jobVars == <<lock, invalidated, performed>>
loopVars == <<performers, signal, loop, contexts, hasLoop>>
vars == <<thr, calls, job, pc, loopVars, stack, jobVars>>

Call == [by : Threads, to : Threads, modes : (SUBSET Modes) \ {{}}, wait : BOOLEAN]
Frames == [mode : Modes \cup {NoMode}, phase : {"first", "last"},
           known : BOOLEAN, todo : Seq(Jobs), now : Jobs \cup {NoJob}]

(* In the program's own code: not in a call, nor between two methods of a   *)
(* pass.                                                                    *)
Top(t) == Last(stack[t])
Free(t) == /\ thr[t] = "active"
           /\ pc[t].step = "free"
           /\ stack[t] # <<>> => Top(t).now # NoJob
InPass(t) == pc[t].step = "free" /\ stack[t] # <<>> /\ Top(t).now = NoJob

WithTop(t, frame) == [stack EXCEPT ![t] = Append(Front(@), frame)]
Pushed(t, frame) == [stack EXCEPT ![t] = Append(@, frame)]
Popped(t) == [stack EXCEPT ![t] = Front(@)]
Doing(t, step, j) == [pc EXCEPT ![t] = [step |-> step, job |-> j]]

Init ==
  /\ thr = [t \in Threads |-> IF t = Main THEN "active" ELSE "created"]
  /\ calls = 0
  /\ job = <<>>
  /\ pc = [t \in Threads |-> [step |-> "free", job |-> NoJob]]
  /\ performers = [t \in Threads |-> <<>>]
  /\ signal = [t \in Threads |-> FALSE]
  /\ loop = [t \in Threads |-> <<>>]
  /\ contexts = [t \in Threads |-> {}]
  /\ hasLoop = {}
  /\ stack = [t \in Threads |-> <<>>]
  /\ lock = [j \in Jobs |-> 0]
  /\ invalidated = {}
  /\ performed = [j \in Jobs |-> "no"]

--------------------------------------------------------------------------
Start(t) ==
  /\ thr[t] = "created"
  /\ thr' = [thr EXCEPT ![t] = "active"]
  /\ UNCHANGED <<calls, job, pc, loopVars, stack, jobVars>>

NewCall(c) == /\ calls < MaxJobs
              /\ calls' = calls + 1
              /\ job' = Append(job, c)

(* On the current thread: at once, or by the loop.                          *)
PerformHere(t, c) ==
  /\ c.to = t
  /\ NewCall(c)
  /\ IF c.wait \/ t \notin hasLoop
     THEN /\ Len(stack[t]) < MaxDepth
          /\ stack' = Pushed(t, [mode |-> NoMode, phase |-> "last", known |-> FALSE,
                                 todo |-> <<>>, now |-> calls + 1])
          /\ performed' = [performed EXCEPT ![calls + 1] = "begun"]
          /\ UNCHANGED <<loop, contexts>>
     ELSE /\ loop' = [loop EXCEPT ![t] = Append(@, calls + 1)]
          /\ contexts' = [contexts EXCEPT ![t] = @ \cup c.modes]
          /\ UNCHANGED <<stack, performed>>
  /\ UNCHANGED <<thr, pc, performers, signal, hasLoop, lock, invalidated>>

(* On another one: a finished thread makes the caller raise, and between    *)
(* the test and the next step the target may end.                          *)
Finished(u) == thr[u] \in {"ending", "ended"}

PerformThere(t, c) ==
  /\ c.to # t
  /\ ~ Finished(c.to)
  /\ NewCall(c)
  /\ pc' = Doing(t, "adding", calls + 1)
  /\ UNCHANGED <<thr, loopVars, stack, jobVars>>

Perform(t) ==
  /\ Free(t)
  /\ \E c \in Call : c.by = t /\ Wanted(c) /\ (PerformHere(t, c) \/ PerformThere(t, c))

(* addPerformer:, and the holder's lock if the caller waits.                *)
Queue_first(queue, j) == <<j>> \o queue  \* mutant: adds at the wrong end
Queue(queue, j) == Append(queue, j)

AddPerformer(t) ==
  LET j == pc[t].job  u == job[j].to IN
  /\ pc[t].step = "adding"
  /\ performers' = [performers EXCEPT ![u] = Queue(@, j)]
  /\ signal' = [signal EXCEPT ![u] = thr[u] # "ended"]
  /\ pc' = IF job[j].wait THEN Doing(t, "waiting", j) ELSE Doing(t, "free", NoJob)
  /\ UNCHANGED <<thr, calls, job, loop, contexts, hasLoop, stack, jobVars>>

(* lockWhenCondition: returns; the caller raises if the holder is invalid.  *)
Answered(t) ==
  /\ pc[t].step = "waiting"
  /\ lock[pc[t].job] = 1
  /\ pc' = Doing(t, "free", NoJob)
  /\ UNCHANGED <<thr, calls, job, loopVars, stack, jobVars>>

--------------------------------------------------------------------------
(* A pass of the loop, acceptInputForMode:beforeDate:.  It takes the jobs of *)
(* its mode out of every mode and begins them one by one, polls, and does   *)
(* so again; a mode nobody used yet has no context at the second check.     *)
InMode(queue, m) == Only(queue, {j \in 1 .. calls : m \in job[j].modes})
NotInMode(queue, m) == Only(queue, {j \in 1 .. calls : m \notin job[j].modes})

RunMode(t, m) ==
  /\ Free(t)
  /\ Len(stack[t]) < MaxDepth
  /\ hasLoop' = hasLoop \cup {t}
  /\ stack' = Pushed(t, [mode |-> m, phase |-> "first", known |-> m \in contexts[t],
                         todo |-> InMode(loop[t], m), now |-> NoJob])
  /\ loop' = [loop EXCEPT ![t] = NotInMode(@, m)]
  /\ UNCHANGED <<thr, calls, job, pc, performers, signal, contexts, jobVars>>

Begin(t) ==
  /\ InPass(t)
  /\ Top(t).todo # <<>>
  /\ stack' = WithTop(t, [Top(t) EXCEPT !.now = Head(Top(t).todo), !.todo = Tail(@)])
  /\ performed' = [performed EXCEPT ![Head(Top(t).todo)] = "begun"]
  /\ UNCHANGED <<thr, calls, job, pc, loopVars, lock, invalidated>>

(* The poll and, if the pipe is readable, the fire of GSRunLoopThreadInfo:  *)
(* all its performers go to the loop.                                       *)
Fired_first(queue) == <<Head(queue)>>  \* mutant: one performer for one byte
Fired(queue) == queue

Poll(t) ==
  LET fired == IF signal[t] /\ performers[t] # <<>> THEN Fired(performers[t]) ELSE <<>>
      queue == loop[t] \o fired
      m == Top(t).mode
  IN
  /\ InPass(t)
  /\ Top(t).todo = <<>> /\ Top(t).phase = "first"
  /\ signal' = [signal EXCEPT ![t] = FALSE]
  /\ performers' = [performers EXCEPT ![t] = SubSeq(@, Len(fired) + 1, Len(@))]
  /\ contexts' = [contexts EXCEPT ![t] =
                    @ \cup UNION {job[j].modes : j \in ToSet(fired)}]
  /\ loop' = [loop EXCEPT ![t] = IF Top(t).known THEN NotInMode(queue, m) ELSE queue]
  /\ stack' = WithTop(t, [Top(t) EXCEPT !.phase = "last",
                            !.todo = IF Top(t).known THEN InMode(queue, m) ELSE <<>>])
  /\ UNCHANGED <<thr, calls, job, pc, hasLoop, jobVars>>

EndPass(t) ==
  /\ InPass(t)
  /\ Top(t).todo = <<>> /\ Top(t).phase = "last"
  /\ stack' = Popped(t)
  /\ UNCHANGED <<thr, calls, job, pc, loopVars, jobVars>>

(* The method that is performed returns: to a pass or to its caller.  A     *)
(* holder tells its caller; an exception gets past it.                      *)
Performing(t) == Free(t) /\ stack[t] # <<>>
AfterMethod(t) ==
  stack' = IF Top(t).mode = NoMode THEN Popped(t)
           ELSE WithTop(t, [Top(t) EXCEPT !.now = NoJob])

Unlocked(j) == IF job[j].wait THEN 1 ELSE 0

Return(t) ==
  /\ Performing(t)
  /\ AfterMethod(t)
  /\ performed' = [performed EXCEPT ![Top(t).now] = "done"]
  /\ lock' = [lock EXCEPT ![Top(t).now] = Unlocked(Top(t).now)]
  /\ UNCHANGED <<thr, calls, job, pc, loopVars, invalidated>>

Raise_unlocks(t) ==  \* mutant: lets the caller go in any case
  /\ Performing(t)
  /\ AfterMethod(t)
  /\ performed' = [performed EXCEPT ![Top(t).now] = "raised"]
  /\ lock' = [lock EXCEPT ![Top(t).now] = Unlocked(Top(t).now)]
  /\ UNCHANGED <<thr, calls, job, pc, loopVars, invalidated>>

Raise(t) ==
  /\ Performing(t)
  /\ AfterMethod(t)
  /\ performed' = [performed EXCEPT ![Top(t).now] = "raised"]
  /\ UNCHANGED <<thr, calls, job, pc, loopVars, lock, invalidated>>

--------------------------------------------------------------------------
(* +exit, from wherever the thread is: what it was doing is dropped.        *)
Dropped(t) ==
  UNION {ToSet(stack[t][i].todo) \cup {stack[t][i].now} : i \in 1 .. Len(stack[t])}

Exit(t) ==
  /\ Free(t)
  /\ t # Main
  /\ thr' = [thr EXCEPT ![t] = "ending"]
  /\ stack' = [stack EXCEPT ![t] = <<>>]
  /\ performed' = [j \in Jobs |-> IF j \in Dropped(t) THEN "dropped" ELSE performed[j]]
  /\ UNCHANGED <<calls, job, pc, loopVars, lock, invalidated>>

(* Every holder the loop did not take is invalidated, and its caller told.  *)
Refused_none(t) == {}  \* mutant: forgets the performers
Refused(t) == ToSet(performers[t])

Invalidate(t) ==
  /\ thr[t] = "ending"
  /\ thr' = [thr EXCEPT ![t] = "ended"]
  /\ invalidated' = invalidated \cup Refused(t)
  /\ lock' = [j \in Jobs |-> IF j \in Refused(t) THEN Unlocked(j) ELSE lock[j]]
  /\ performers' = [performers EXCEPT ![t] = <<>>]
  /\ signal' = [signal EXCEPT ![t] = FALSE]
  /\ UNCHANGED <<calls, job, pc, loop, contexts, hasLoop, stack, performed>>

Step(t) == AddPerformer(t) \/ Answered(t) \/ Begin(t) \/ Poll(t) \/ EndPass(t) \/ Invalidate(t)

Next ==
  \E t \in Threads :
    \/ Start(t) \/ Perform(t) \/ Step(t)
    \/ \E m \in Modes : RunMode(t, m)
    \/ Return(t) \/ Raise(t) \/ Exit(t)

(* A thread goes on, what it performs ends, and, which the header leaves to *)
(* the program, it runs its loop in every mode again and again.             *)
Fairness ==
  \A t \in Threads :
    /\ WF_vars(Start(t))
    /\ WF_vars(Step(t))
    /\ SF_vars(Return(t) \/ Raise(t))
    /\ \A m \in Modes : SF_vars(stack[t] = <<>> /\ RunMode(t, m))

SafeSpec == Init /\ [][Next]_vars
Spec == SafeSpec /\ Fairness

--------------------------------------------------------------------------
TypeOK ==
  /\ thr \in [Threads -> {"created", "active", "ending", "ended"}]
  /\ calls \in 0 .. MaxJobs
  /\ job \in Seq(Call) /\ Len(job) = calls
  /\ pc \in [Threads -> [step : {"free", "adding", "waiting"}, job : Jobs \cup {NoJob}]]
  /\ performers \in [Threads -> Seq(Jobs)]
  /\ signal \in [Threads -> BOOLEAN]
  /\ loop \in [Threads -> Seq(Jobs)]
  /\ contexts \in [Threads -> SUBSET Modes]
  /\ hasLoop \subseteq Threads
  /\ stack \in [Threads -> Seq(Frames)]
  /\ lock \in [Jobs -> {0, 1}]
  /\ invalidated \subseteq Jobs
  /\ performed \in [Jobs -> {"no", "begun", "done", "raised", "dropped"}]

Waits(j) == pc[job[j].by] = [step |-> "waiting", job |-> j]

(* A caller that is let go is told the truth: without an exception the      *)
(* method has been performed to its end, with one it never will be.         *)
ToldTheTruth ==
  \A j \in 1 .. calls : lock[j] = 1 =>
    IF j \in invalidated
    THEN performed[j] = "no" /\ j \notin ToSet(loop[job[j].to])
    ELSE performed[j] = "done"

(* A thread that ends leaves a caller waiting only for what its loop had    *)
(* taken, or was handed over after the holders were invalidated (addPerformer *)
(* does not look whether they were).                                         *)
StrandsTakenOnly ==
  \A j \in 1 .. calls :
    Waits(j) /\ thr[job[j].to] = "ended" /\ lock[j] = 0 =>
      \/ performed[j] \in {"raised", "dropped"}
      \/ j \in ToSet(loop[job[j].to])
      \/ j \in ToSet(performers[job[j].to])

(* What a thread asked for first is begun first, unless the target runs its *)
(* loop again from a method it performs: then the jobs that outer passes    *)
(* hold come after those the inner one finds.                               *)
Held(t, j) == \E i \in 1 .. Len(stack[t]) - 1 : j \in ToSet(stack[t][i].todo)
Beginning(j) == performed[j] = "no" /\ performed'[j] = "begun"
Alike(i, j) == job[i].by = job[j].by /\ job[i].to = job[j].to /\ job[i].by # job[i].to

OrderKept ==
  [][\A j \in 1 .. calls : \A i \in 1 .. j - 1 :
       Beginning(j) /\ Alike(i, j) /\ Top(job[j].to).mode \in job[i].modes
         => performed[i] # "no" \/ Held(job[i].to, i)]_vars

(* What was handed to a thread is begun, unless that ends or itself waits.  *)
Given(j) == j \in 1 .. calls /\ j \in ToSet(performers[job[j].to]) \cup ToSet(loop[job[j].to])
Excused(j) == j \in 1 .. calls /\ (Finished(job[j].to) \/ pc[job[j].to].step = "waiting")

Begun == \A j \in Jobs : Given(j) ~> performed[j] # "no" \/ Excused(j)
=============================================================================
