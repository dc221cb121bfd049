------------------------ MODULE ThreadPerform_proofs ------------------------
(***************************************************************************)
(* What a caller that waits is told is true, who is left waiting when a    *)
(* thread ends is known, and jobs are begun in the order of the calls:     *)
(* properties of ThreadPerform for every number of threads, calls and      *)
(* modes, whatever the methods that are performed do.  They rest on where  *)
(* a job is: in one place at a time, once, of the thread it was sent to,   *)
(* and what was done with it says which places are left; and on the order  *)
(* of the jobs of one caller along those places.                           *)
(***************************************************************************)
EXTENDS ThreadPerform, Subsequences_proofs

(* S stands for the stack of a thread, or for a value it has after a step.  *)
Todos(S) == UNION {ToSet(S[i].todo) : i \in 1 .. Len(S)}
Nows(S) == {S[i].now : i \in 1 .. Len(S)} \ {NoJob}

(* A job is held by one pass, once, or performed by one; a method performed *)
(* directly is no pass.                                                     *)
StackApart(S) ==
  \A i \in 1 .. Len(S) :
    /\ IsInjective(S[i].todo)
    /\ S[i].mode = NoMode => S[i].todo = <<>> /\ S[i].now # NoJob
    /\ \A k \in 1 .. Len(S) : i # k =>
         /\ ToSet(S[i].todo) \cap ToSet(S[k].todo) = {}
         /\ S[i].now # NoJob => S[i].now # S[k].now

(* The jobs a thread was handed and has not begun: those of its info, of    *)
(* its loop and of the passes.                                              *)
Waiting(u) == ToSet(performers[u]) \cup ToSet(loop[u]) \cup Todos(stack[u])

Apart(P, L, S) ==
  /\ IsInjective(P) /\ IsInjective(L) /\ StackApart(S)
  /\ ToSet(P) \cap ToSet(L) = {}
  /\ Todos(S) \cap (ToSet(P) \cup ToSet(L)) = {}

Home(u) ==
  /\ Apart(performers[u], loop[u], stack[u])
  /\ \A j \in Waiting(u) : /\ j \in 1 .. calls /\ job[j].to = u
                           /\ performed[j] = "no" /\ j \notin invalidated
  /\ \A j \in Nows(stack[u]) : j \in 1 .. calls /\ job[j].to = u /\ performed[j] = "begun"
  /\ thr[u] # "active" => stack[u] = <<>>

(* What a caller is adding is nowhere yet; what it waits for is its call.   *)
Caller(t) ==
  /\ pc[t].step = "adding" =>
       /\ pc[t].job \in 1 .. calls /\ job[pc[t].job].by = t
       /\ performed[pc[t].job] = "no" /\ pc[t].job \notin invalidated
       /\ pc[t].job \notin Waiting(job[pc[t].job].to)
  /\ pc[t].step = "waiting" => pc[t].job \in 1 .. calls /\ job[pc[t].job].wait

(* What has been answered is over, and what is over has been answered.      *)
Told(j) ==
  /\ lock[j] = 1 => j \in 1 .. calls /\ (j \in invalidated \/ performed[j] = "done")
  /\ j \in invalidated => j \in 1 .. calls /\ performed[j] = "no"
  /\ j \notin 1 .. calls => performed[j] = "no"
  /\ j \in 1 .. calls /\ (j \in invalidated \/ performed[j] = "done") /\ job[j].wait =>
       lock[j] = 1

(* No job is forgotten without a reason.                                    *)
Adding(j) == pc[job[j].by] = [step |-> "adding", job |-> j]
Over(j) == performed[j] \in {"raised", "dropped", "done"} \/ j \in invalidated

Somewhere(j) ==
  Adding(j) \/ j \in Waiting(job[j].to) \/ j \in Nows(stack[job[j].to]) \/ Over(j)

PInv ==
  /\ TypeOK
  /\ \A t \in Threads : Home(t) /\ Caller(t)
  /\ \A j \in Jobs : Told(j)
  /\ \A j \in 1 .. calls : Somewhere(j)

(* A step that moves the jobs of one thread.                                *)
OnlyOf(t) ==
  /\ \A u \in Threads : u # t =>
       /\ performers'[u] = performers[u] /\ loop'[u] = loop[u]
       /\ stack'[u] = stack[u] /\ thr'[u] = thr[u]
  /\ \A j \in 1 .. calls :
       /\ j \in 1 .. calls' /\ job'[j] = job[j]
       /\ job[j].to # t => /\ performed'[j] = performed[j]
                           /\ j \in invalidated' <=> j \in invalidated

(* Which leaves alone what the thread was not handed.                       *)
LeavesOut(t) ==
  \A k \in 1 .. calls :
    /\ job[k].to = t /\ performed[k] = "no" /\ k \notin invalidated /\ k \notin Waiting(t)
    => performed'[k] = "no" /\ k \notin invalidated' /\ k \notin Waiting(t)'

--------------------------------------------------------------------------
LEMMA SetsOfStack ==
  ASSUME NEW S \in Seq(Frames)
  PROVE  /\ \A x : x \in Todos(S) <=> \E i \in 1 .. Len(S) : x \in ToSet(S[i].todo)
         /\ \A x : x \in Nows(S) <=> x # NoJob /\ \E i \in 1 .. Len(S) : x = S[i].now
         /\ \A i \in 1 .. Len(S) : S[i] \in Frames
BY DEF Todos, Nows

LEMMA StackEmpty == StackApart(<<>>) /\ Todos(<<>>) = {} /\ Nows(<<>>) = {}
BY DEF StackApart, Todos, Nows

(* A frame on top whose jobs are new to the stack.                          *)
LEMMA StackPush ==
  ASSUME NEW S \in Seq(Frames), NEW f \in Frames, StackApart(S), IsInjective(f.todo),
         f.mode = NoMode => f.todo = <<>> /\ f.now # NoJob,
         \A x \in ToSet(f.todo) : x \notin Todos(S), f.now \notin Nows(S)
  PROVE  /\ Append(S, f) \in Seq(Frames)
         /\ StackApart(Append(S, f))
         /\ \A x : x \in Todos(Append(S, f)) <=> x \in Todos(S) \/ x \in ToSet(f.todo)
         /\ \A x : x \in Nows(Append(S, f)) <=> x \in Nows(S) \/ (x = f.now /\ x # NoJob)
<1> DEFINE r == Append(S, f)
           n == Len(S)
<1>0. /\ r \in Seq(Frames) /\ n \in Nat /\ r[n + 1] = f
      /\ \A i \in 1 .. n : r[i] = S[i]
      /\ 1 .. Len(r) = 1 .. n \cup {n + 1} /\ n + 1 \notin 1 .. n
  BY AppendIs
<1>1. \A x : x \in Todos(r) <=> \E i \in 1 .. Len(r) : x \in ToSet(r[i].todo)
  BY <1>0, SetsOfStack
<1>2. \A x : x \in Nows(r) <=> x # NoJob /\ \E i \in 1 .. Len(r) : x = r[i].now
  BY <1>0, SetsOfStack
<1>3. \A x : x \in Todos(S) <=> \E i \in 1 .. n : x \in ToSet(S[i].todo)
  BY SetsOfStack
<1>4. \A x : x \in Nows(S) <=> x # NoJob /\ \E i \in 1 .. n : x = S[i].now
  BY SetsOfStack
<1> HIDE DEF r, n
<1>5. \A x : x \in Todos(r) <=> x \in Todos(S) \/ x \in ToSet(f.todo)
  BY <1>0, <1>1, <1>3
<1>6. \A x : x \in Nows(r) <=> x \in Nows(S) \/ (x = f.now /\ x # NoJob)
  BY <1>0, <1>2, <1>4
<1>7. ASSUME NEW i \in 1 .. Len(r)
      PROVE  IsInjective(r[i].todo) /\ (r[i].mode = NoMode => r[i].todo = <<>> /\ r[i].now # NoJob)
  BY <1>0 DEF StackApart, n
<1>8. ASSUME NEW i \in 1 .. Len(r), NEW k \in 1 .. Len(r), i # k
      PROVE  /\ ToSet(r[i].todo) \cap ToSet(r[k].todo) = {}
             /\ r[i].now # NoJob => r[i].now # r[k].now
  <2>1. CASE i \in 1 .. n /\ k \in 1 .. n
    <3>1. r[i] = S[i] /\ r[k] = S[k]
      BY <2>1, <1>0
    <3> QED BY <2>1, <3>1, <1>8 DEF StackApart, n
  <2>2. CASE i = n + 1 /\ k \in 1 .. n
    <3>1. r[i] = f /\ r[k] = S[k]
      BY <2>2, <1>0
    <3>2. \A x \in ToSet(f.todo) : x \notin ToSet(S[k].todo)
      BY <2>2, <1>3
    <3>3. f.now # NoJob => f.now # S[k].now
      BY <2>2, <1>4
    <3> QED BY <3>1, <3>2, <3>3
  <2>3. CASE i \in 1 .. n /\ k = n + 1
    <3>1. r[k] = f /\ r[i] = S[i]
      BY <2>3, <1>0
    <3>2. \A x \in ToSet(f.todo) : x \notin ToSet(S[i].todo)
      BY <2>3, <1>3
    <3>3. S[i].now # NoJob => f.now # S[i].now
      BY <2>3, <1>4
    <3> QED BY <3>1, <3>2, <3>3
  <2> QED BY <2>1, <2>2, <2>3, <1>0, <1>8
<1>9. StackApart(r)
  BY <1>7, <1>8 DEF StackApart
<1> QED BY <1>0, <1>5, <1>6, <1>9 DEF r

(* The frame on top, and the stack without it.                              *)
LEMMA StackPop ==
  ASSUME NEW S \in Seq(Frames), S # <<>>, StackApart(S)
  PROVE  /\ Front(S) \in Seq(Frames) /\ Last(S) \in Frames
         /\ StackApart(Front(S)) /\ IsInjective(Last(S).todo)
         /\ Last(S).mode = NoMode => Last(S).todo = <<>> /\ Last(S).now # NoJob
         /\ \A x : x \in Todos(S) <=> x \in Todos(Front(S)) \/ x \in ToSet(Last(S).todo)
         /\ \A x \in ToSet(Last(S).todo) : x \notin Todos(Front(S))
         /\ \A x : x \in Nows(S) <=> x \in Nows(Front(S)) \/ (x = Last(S).now /\ x # NoJob)
         /\ Last(S).now \notin Nows(Front(S))
<1> DEFINE r == Front(S)
           f == Last(S)
           n == Len(r)
<1>0. /\ r \in Seq(Frames) /\ Len(S) \in Nat /\ Len(r) = Len(S) - 1
      /\ \A i \in 1 .. Len(r) : i \in 1 .. Len(S) /\ r[i] = S[i]
  BY FrontIs
<1>1. Len(r) \in Nat /\ Len(S) > 0 /\ f = S[Len(S)]
  BY <1>0 DEF Last
<1>2. 1 .. Len(S) = 1 .. n \cup {n + 1} /\ n + 1 \notin 1 .. n /\ S[n + 1] = f
  BY <1>0, <1>1
<1>3. \A x : x \in Todos(r) <=> \E i \in 1 .. n : x \in ToSet(r[i].todo)
  BY <1>0, SetsOfStack
<1>4. \A x : x \in Nows(r) <=> x # NoJob /\ \E i \in 1 .. n : x = r[i].now
  BY <1>0, SetsOfStack
<1>5. \A x : x \in Todos(S) <=> \E i \in 1 .. Len(S) : x \in ToSet(S[i].todo)
  BY SetsOfStack
<1>6. \A x : x \in Nows(S) <=> x # NoJob /\ \E i \in 1 .. Len(S) : x = S[i].now
  BY SetsOfStack
<1>7. f \in Frames
  BY <1>2, SetsOfStack
<1> HIDE DEF r, f, n
<1>8. \A i \in 1 .. n : i # n + 1 /\ n + 1 # i /\ r[i] = S[i] /\ i \in 1 .. Len(S) /\ n + 1 \in 1 .. Len(S)
  BY <1>0, <1>2 DEF n
<1>9. \A x : x \in Todos(S) <=> x \in Todos(r) \/ x \in ToSet(f.todo)
  BY <1>2, <1>3, <1>5, <1>8
<1>10. \A x : x \in Nows(S) <=> x \in Nows(r) \/ (x = f.now /\ x # NoJob)
  BY <1>2, <1>4, <1>6, <1>8
<1>11. IsInjective(f.todo) /\ (f.mode = NoMode => f.todo = <<>> /\ f.now # NoJob)
  BY <1>2 DEF StackApart
<1>12. \A i \in 1 .. n :
         IsInjective(r[i].todo) /\ (r[i].mode = NoMode => r[i].todo = <<>> /\ r[i].now # NoJob)
  BY <1>8 DEF StackApart
<1>13. ASSUME NEW i \in 1 .. n
       PROVE  /\ ToSet(f.todo) \cap ToSet(r[i].todo) = {}
              /\ f.now # NoJob => f.now # r[i].now
  BY <1>2, <1>8 DEF StackApart
<1>14. ASSUME NEW i \in 1 .. n, NEW k \in 1 .. n, i # k
       PROVE  /\ ToSet(r[i].todo) \cap ToSet(r[k].todo) = {}
              /\ r[i].now # NoJob => r[i].now # r[k].now
  BY <1>8, <1>14 DEF StackApart
<1>15. StackApart(r)
  BY <1>12, <1>14 DEF StackApart, n
<1>16. \A x \in ToSet(f.todo) : x \notin Todos(r)
  BY <1>3, <1>13
<1>17. f.now \notin Nows(r)
  BY <1>4, <1>13
<1> QED BY <1>0, <1>7, <1>9, <1>10, <1>11, <1>15, <1>16, <1>17 DEF r, f

--------------------------------------------------------------------------
(* What another thread has stays as it was.                                 *)
LEMMA OthersKeep ==
  ASSUME NEW t \in Threads, NEW u \in Threads, u # t, Home(u), OnlyOf(t)
  PROVE  Home(u)' /\ Waiting(u)' = Waiting(u) /\ Nows(stack[u])' = Nows(stack[u])
<1>1. /\ performers'[u] = performers[u] /\ loop'[u] = loop[u]
      /\ stack'[u] = stack[u] /\ thr'[u] = thr[u]
  BY DEF OnlyOf
<1>2. Waiting(u)' = Waiting(u) /\ Nows(stack[u])' = Nows(stack[u])
  BY <1>1 DEF Waiting
<1>3. Apart(performers[u], loop[u], stack[u])'
  BY <1>1 DEF Home
<1>4. ASSUME NEW j \in Waiting(u)
      PROVE  j \in 1 .. calls' /\ job'[j].to = u /\ performed'[j] = "no" /\ j \notin invalidated'
  BY <1>4 DEF Home, OnlyOf
<1>5. ASSUME NEW j \in Nows(stack[u])
      PROVE  j \in 1 .. calls' /\ job'[j].to = u /\ performed'[j] = "begun"
  BY <1>5 DEF Home, OnlyOf
<1>6. thr'[u] # "active" => stack'[u] = <<>>
  BY <1>1 DEF Home
<1> QED BY <1>2, <1>3, <1>4, <1>5, <1>6 DEF Home

LEMMA JobTypes ==
  ASSUME PInv
  PROVE  /\ calls \in Nat /\ calls <= MaxJobs /\ MaxJobs \in Nat /\ 1 .. calls \subseteq Jobs
         /\ \A j \in 1 .. calls : /\ job[j] \in Call /\ job[j].to \in Threads
                                  /\ job[j].by \in Threads /\ job[j].wait \in BOOLEAN
<1>1. calls \in 0 .. MaxJobs /\ job \in Seq(Call) /\ Len(job) = calls
  BY DEF PInv, TypeOK
<1>2. calls \in Nat /\ calls <= MaxJobs /\ MaxJobs \in Nat /\ 1 .. calls \subseteq Jobs
  BY <1>1, BoundsAssumption DEF Jobs
<1>3. ASSUME NEW j \in 1 .. calls PROVE job[j] \in Call
  BY <1>1, <1>2
<1>4. \A c \in Call : c.to \in Threads /\ c.by \in Threads /\ c.wait \in BOOLEAN
  BY DEF Call
<1> QED BY <1>2, <1>3, <1>4

(* And what a caller does stays true.                                       *)
LEMMA CallersKeep ==
  ASSUME NEW t \in Threads, NEW v \in Threads, PInv, OnlyOf(t), pc'[v] = pc[v],
         NEW k, pc[v].job = k,
         pc[v].step = "adding" /\ job[k].to = t =>
           performed'[k] = "no" /\ k \notin invalidated' /\ k \notin Waiting(t)'
  PROVE  Caller(v)'
<1>1. Caller(v) /\ pc'[v].job = k /\ pc'[v].step = pc[v].step
  BY DEF PInv
<1>2. ASSUME pc[v].step = "adding"
      PROVE  /\ k \in 1 .. calls' /\ job'[k].by = v
             /\ performed'[k] = "no" /\ k \notin invalidated'
             /\ k \notin Waiting(job[k].to)'
  <2>1. /\ k \in 1 .. calls /\ job[k].by = v
        /\ performed[k] = "no" /\ k \notin invalidated
        /\ k \notin Waiting(job[k].to)
    BY <1>1, <1>2 DEF Caller
  <2>2. k \in 1 .. calls' /\ job'[k] = job[k]
    BY <2>1 DEF OnlyOf
  <2> PICK u \in Threads : u = job[k].to
    BY <2>1, JobTypes
  <2>3. CASE u = t
    <3>1. performed'[k] = "no" /\ k \notin invalidated' /\ k \notin Waiting(u)'
      BY <2>3, <1>2
    <3> QED BY <2>1, <2>2, <3>1
  <2>4. CASE u # t
    <3>1. Home(u)
      BY DEF PInv
    <3>2. Waiting(u)' = Waiting(u)
      BY <3>1, <2>4, OthersKeep
    <3>3. performed'[k] = "no" /\ k \notin invalidated'
      BY <2>1, <2>4 DEF OnlyOf
    <3>4. job'[k].to = u
      BY <2>2
    <3> QED BY <2>1, <2>2, <3>2, <3>3, <3>4
  <2> QED BY <2>3, <2>4
<1>3. ASSUME pc[v].step = "waiting" PROVE k \in 1 .. calls' /\ job'[k].wait
  BY <1>1, <1>3 DEF Caller, OnlyOf
<1> QED BY <1>1, <1>2, <1>3 DEF Caller

(* Nor is a job of another thread forgotten.                                *)
LEMMA OthersFound ==
  ASSUME NEW t \in Threads, PInv, OnlyOf(t), NEW j \in 1 .. calls, job[j].to # t,
         Adding(j) => Adding(j)'
  PROVE  Somewhere(j)'
<1> PICK u \in Threads : u = job[j].to
  BY JobTypes
<1>1. u # t /\ Home(u) /\ Somewhere(j)
  BY DEF PInv
<1>2. Waiting(u)' = Waiting(u) /\ Nows(stack[u])' = Nows(stack[u])
  BY <1>1, OthersKeep
<1>3. job'[j] = job[j] /\ performed'[j] = performed[j] /\ (j \in invalidated' <=> j \in invalidated)
  BY DEF OnlyOf
<1>4. Over(j) => Over(j)'
  BY <1>3 DEF Over
<1>5. job'[j].to = u
  BY <1>3
<1> QED BY <1>1, <1>2, <1>5, <1>4 DEF Somewhere

(* So a step of one thread keeps the invariant when that thread's part is. *)
LEMMA Assemble ==
  ASSUME NEW t \in Threads, PInv, TypeOK', OnlyOf(t), LeavesOut(t), UNCHANGED pc, Home(t)',
         \A j \in Jobs : Told(j)',
         \A j \in 1 .. calls' : (j \in 1 .. calls => job[j].to = t) => Somewhere(j)'
  PROVE  PInv'
<1>1. ASSUME NEW u \in Threads PROVE Home(u)'
  BY OthersKeep DEF PInv
<1>2. ASSUME NEW v \in Threads PROVE Caller(v)'
  <2> PICK k : pc[v].job = k
    OBVIOUS
  <2>1. Caller(v)
    BY DEF PInv
  <2>2. pc[v].step = "adding" /\ job[k].to = t =>
          performed'[k] = "no" /\ k \notin invalidated' /\ k \notin Waiting(t)'
    BY <2>1 DEF Caller, LeavesOut
  <2>3. pc'[v] = pc[v]
    OBVIOUS
  <2> QED BY <2>2, <2>3, CallersKeep
<1>3. ASSUME NEW j \in 1 .. calls' PROVE Somewhere(j)'
  <2>1. CASE j \in 1 .. calls /\ job[j].to # t
    <3>1. Adding(j) => Adding(j)'
      BY <2>1 DEF Adding, OnlyOf
    <3> QED BY <2>1, <3>1, OthersFound
  <2> QED BY <2>1
<1> QED BY <1>1, <1>2, <1>3 DEF PInv

(* The jobs a step does not touch.                                          *)
LEMMA ToldKept ==
  ASSUME NEW j \in Jobs, Told(j), UNCHANGED <<lock[j], invalidated>>,
         j \in 1 .. calls => j \in 1 .. calls' /\ job'[j] = job[j],
         j \notin 1 .. calls' => performed'[j] = performed[j],
         performed'[j] # performed[j] =>
           performed[j] # "done" /\ performed'[j] # "done" /\ j \notin invalidated
  PROVE  Told(j)'
BY DEF Told

(* A pass or a method that stops is a stack without its top; a pass goes on *)
(* with another.                                                            *)
LEMMA HomeTypes ==
  ASSUME NEW t \in Threads, PInv
  PROVE  /\ performers[t] \in Seq(Jobs) /\ loop[t] \in Seq(Jobs) /\ stack[t] \in Seq(Frames)
         /\ Home(t) /\ Apart(performers[t], loop[t], stack[t])
         /\ StackApart(stack[t])
         /\ stack[t] # <<>> => thr[t] = "active"
BY DEF PInv, TypeOK, Home, Apart

--------------------------------------------------------------------------
(* Jobs go from one place of a thread to another.                           *)
LEMMA JobsMove ==
  ASSUME NEW t \in Threads, PInv, TypeOK', OnlyOf(t), UNCHANGED <<thr, calls, job, pc, jobVars>>,
         Apart(performers[t], loop[t], stack[t])',
         \A x : x \in Waiting(t)' <=> x \in Waiting(t),
         \A x : x \in Nows(stack[t])' <=> x \in Nows(stack[t]),
         thr[t] = "active"
  PROVE  PInv'
<1>1. UNCHANGED <<performed, invalidated, lock>>
  BY DEF jobVars
<1>2. Home(t)'
  BY <1>1, HomeTypes DEF Home
<1>3. LeavesOut(t)
  BY <1>1 DEF LeavesOut
<1>4. \A j \in Jobs : Told(j)'
  BY <1>1 DEF PInv, Told
<1>5. ASSUME NEW j \in 1 .. calls', j \in 1 .. calls => job[j].to = t PROVE Somewhere(j)'
  <2>1. Somewhere(j) /\ job[j].to = t /\ job' = job
    BY <1>5 DEF PInv
  <2>2. Adding(j) => Adding(j)'
    BY DEF Adding
  <2>3. Over(j) => Over(j)'
    BY <1>1 DEF Over
  <2> QED BY <2>1, <2>2, <2>3 DEF Somewhere
<1> QED BY <1>2, <1>3, <1>4, <1>5, Assemble

LEMMA ModesSplit ==
  ASSUME NEW L \in Seq(Jobs), NEW m, IsInjective(L), \A j \in ToSet(L) : j \in 1 .. calls
  PROVE  /\ InMode(L, m) \in Seq(Jobs) /\ IsInjective(InMode(L, m))
         /\ NotInMode(L, m) \in Seq(Jobs) /\ IsInjective(NotInMode(L, m))
         /\ \A x : x \in ToSet(L) <=> x \in ToSet(InMode(L, m)) \/ x \in ToSet(NotInMode(L, m))
         /\ \A x \in ToSet(InMode(L, m)) : x \notin ToSet(NotInMode(L, m))
<1> DEFINE A == {j \in 1 .. calls : m \in job[j].modes}
           B == {j \in 1 .. calls : m \notin job[j].modes}
<1>1. InMode(L, m) = Only(L, A) /\ NotInMode(L, m) = Only(L, B)
  BY DEF InMode, NotInMode
<1>2. \A x \in ToSet(L) : (x \in A \/ x \in B) /\ ~ (x \in A /\ x \in B)
  OBVIOUS
<1> HIDE DEF A, B
<1>3. /\ Only(L, A) \in Seq(Jobs) /\ ToSet(Only(L, A)) = ToSet(L) \cap A
      /\ IsInjective(Only(L, A))
  BY OnlyKeeps
<1>4. /\ Only(L, B) \in Seq(Jobs) /\ ToSet(Only(L, B)) = ToSet(L) \cap B
      /\ IsInjective(Only(L, B))
  BY OnlyKeeps
<1> QED BY <1>1, <1>2, <1>3, <1>4

LEMMA RunModeKeeps ==
  ASSUME NEW t \in Threads, NEW m \in Modes, PInv, RunMode(t, m)
  PROVE  PInv'
<1> DEFINE A == InMode(loop[t], m)
           B == NotInMode(loop[t], m)
           f == [mode |-> m, phase |-> "first", known |-> m \in contexts[t],
                 todo |-> A, now |-> NoJob]
<1>0. /\ performers[t] \in Seq(Jobs) /\ loop[t] \in Seq(Jobs) /\ stack[t] \in Seq(Frames)
      /\ Home(t) /\ Apart(performers[t], loop[t], stack[t]) /\ StackApart(stack[t])
  BY HomeTypes
<1>1. /\ A \in Seq(Jobs) /\ IsInjective(A) /\ B \in Seq(Jobs) /\ IsInjective(B)
      /\ \A x : x \in ToSet(loop[t]) <=> x \in ToSet(A) \/ x \in ToSet(B)
      /\ \A x \in ToSet(A) : x \notin ToSet(B)
  <2>1. IsInjective(loop[t]) /\ \A j \in ToSet(loop[t]) : j \in 1 .. calls
    BY <1>0 DEF Home, Apart, Waiting
  <2> QED BY <1>0, <2>1, ModesSplit
<1>2. /\ f \in Frames /\ f.todo = A /\ f.now = NoJob /\ f.mode = m /\ m # NoMode
  <2>1. A \in Seq(Jobs)
    BY <1>1
  <2> HIDE DEF A
  <2> QED BY <2>1, NoModeAssumption DEF Frames
<1>3. /\ loop' = [loop EXCEPT ![t] = B] /\ stack' = [stack EXCEPT ![t] = Append(stack[t], f)]
      /\ UNCHANGED <<thr, calls, job, pc, performers, signal, contexts, jobVars>>
      /\ hasLoop' = hasLoop \cup {t} /\ thr[t] = "active"
  BY DEF RunMode, Pushed, Free
<1> HIDE DEF A, B, f
<1>4. \A x \in ToSet(f.todo) : x \notin Todos(stack[t])
  BY <1>0, <1>1, <1>2 DEF Apart
<1>5. f.now \notin Nows(stack[t])
  BY <1>2 DEF Nows
<1>6. /\ Append(stack[t], f) \in Seq(Frames) /\ StackApart(Append(stack[t], f))
      /\ \A x : x \in Todos(Append(stack[t], f)) <=> x \in Todos(stack[t]) \/ x \in ToSet(f.todo)
      /\ \A x : x \in Nows(Append(stack[t], f)) <=>
                  x \in Nows(stack[t]) \/ (x = f.now /\ x # NoJob)
  BY <1>0, <1>1, <1>2, <1>4, <1>5, StackPush
<1>7. /\ stack'[t] = Append(stack[t], f) /\ loop'[t] = B /\ performers'[t] = performers[t]
      /\ \A u \in Threads : u # t => stack'[u] = stack[u] /\ loop'[u] = loop[u]
  BY <1>3 DEF PInv, TypeOK
<1>8. TypeOK'
  BY <1>1, <1>3, <1>6 DEF PInv, TypeOK, jobVars
<1>9. OnlyOf(t)
  BY <1>3, <1>7 DEF OnlyOf, jobVars
<1>10. Apart(performers[t], loop[t], stack[t])'
  <2>1. Apart(performers[t], B, Append(stack[t], f))
    BY <1>0, <1>1, <1>2, <1>6 DEF Apart
  <2> QED BY <2>1, <1>7
<1>11. \A x : x \in Waiting(t)' <=> x \in Waiting(t)
  <2>1. Waiting(t)' = ToSet(performers[t]) \cup ToSet(B) \cup Todos(Append(stack[t], f))
    BY <1>7 DEF Waiting
  <2> QED BY <2>1, <1>1, <1>2, <1>6 DEF Waiting
<1>12. \A x : x \in Nows(stack[t])' <=> x \in Nows(stack[t])
  BY <1>2, <1>6, <1>7
<1> QED BY <1>3, <1>8, <1>9, <1>10, <1>11, <1>12, JobsMove

LEMMA EndPassKeeps ==
  ASSUME NEW t \in Threads, PInv, EndPass(t)
  PROVE  PInv'
<1> DEFINE S == stack[t]
<1>0. /\ performers[t] \in Seq(Jobs) /\ loop[t] \in Seq(Jobs) /\ S \in Seq(Frames)
      /\ Home(t) /\ Apart(performers[t], loop[t], S) /\ StackApart(S) /\ S # <<>>
      /\ thr[t] = "active"
  BY HomeTypes DEF EndPass, InPass
<1>1. /\ stack' = [stack EXCEPT ![t] = Front(S)] /\ Last(S).todo = <<>> /\ Last(S).now = NoJob
      /\ UNCHANGED <<thr, calls, job, pc, loopVars, jobVars>>
  BY DEF EndPass, InPass, Popped, Top
<1> HIDE DEF S
<1>2. /\ Front(S) \in Seq(Frames) /\ StackApart(Front(S))
      /\ \A x : x \in Todos(S) <=> x \in Todos(Front(S)) \/ x \in ToSet(Last(S).todo)
      /\ \A x : x \in Nows(S) <=> x \in Nows(Front(S)) \/ (x = Last(S).now /\ x # NoJob)
  BY <1>0, StackPop
<1>3. /\ \A x : x \in Todos(S) <=> x \in Todos(Front(S))
      /\ \A x : x \in Nows(S) <=> x \in Nows(Front(S))
  BY <1>1, <1>2, SetOfEmpty
<1>4. /\ stack'[t] = Front(S) /\ \A u \in Threads : u # t => stack'[u] = stack[u]
      /\ performers' = performers /\ loop' = loop
  BY <1>1 DEF PInv, TypeOK, loopVars
<1>5. TypeOK'
  BY <1>1, <1>2 DEF PInv, TypeOK, loopVars, jobVars
<1>6. OnlyOf(t)
  BY <1>1, <1>4 DEF OnlyOf, jobVars
<1>7. Apart(performers[t], loop[t], stack[t])'
  <2>1. Apart(performers[t], loop[t], Front(S))
    BY <1>0, <1>2, <1>3 DEF Apart
  <2> QED BY <2>1, <1>4
<1>8. \A x : x \in Waiting(t)' <=> x \in Waiting(t)
  <2>1. Waiting(t)' = ToSet(performers[t]) \cup ToSet(loop[t]) \cup Todos(Front(S))
    BY <1>4 DEF Waiting
  <2> QED BY <2>1, <1>3 DEF Waiting, S
<1>9. \A x : x \in Nows(stack[t])' <=> x \in Nows(stack[t])
  BY <1>3, <1>4 DEF S
<1> QED BY <1>0, <1>1, <1>5, <1>6, <1>7, <1>8, <1>9, JobsMove

(* The jobs that a poll moves to the loop leave the info.                   *)
LEMMA FiredLeave ==
  ASSUME NEW P \in Seq(Jobs), NEW F \in {P, <<>>}
  PROVE  /\ F \in Seq(Jobs) /\ SubSeq(P, Len(F) + 1, Len(P)) \in Seq(Jobs)
         /\ F = P => SubSeq(P, Len(F) + 1, Len(P)) = <<>>
         /\ F = <<>> => SubSeq(P, Len(F) + 1, Len(P)) = P
<1>1. Len(P) \in Nat /\ Len(<<>>) = 0 /\ <<>> \in Seq(Jobs)
  OBVIOUS
<1>2. SubSeq(P, Len(P) + 1, Len(P)) = <<>>
  BY <1>1
<1>3. SubSeq(P, 0 + 1, Len(P)) = P
  BY <1>1
<1> QED BY <1>1, <1>2, <1>3

LEMMA PollKeeps ==
  ASSUME NEW t \in Threads, PInv, Poll(t)
  PROVE  PInv'
<1> DEFINE P == performers[t]
           S == stack[t]
           m == Top(t).mode
           F == IF signal[t] /\ P # <<>> THEN P ELSE <<>>
           D == SubSeq(P, Len(F) + 1, Len(P))
           Q == loop[t] \o F
           B == IF Top(t).known THEN NotInMode(Q, m) ELSE Q
           A == IF Top(t).known THEN InMode(Q, m) ELSE <<>>
           f == [Top(t) EXCEPT !.phase = "last", !.todo = A]
<1>0. /\ P \in Seq(Jobs) /\ loop[t] \in Seq(Jobs) /\ S \in Seq(Frames)
      /\ Home(t) /\ Apart(P, loop[t], S) /\ StackApart(S) /\ S # <<>> /\ thr[t] = "active"
  BY HomeTypes DEF Poll, InPass
<1>1. /\ stack' = [stack EXCEPT ![t] = Append(Front(S), f)]
      /\ performers' = [performers EXCEPT ![t] = D] /\ loop' = [loop EXCEPT ![t] = B]
      /\ signal' = [signal EXCEPT ![t] = FALSE]
      /\ contexts' = [contexts EXCEPT ![t] = @ \cup UNION {job[j].modes : j \in ToSet(F)}]
      /\ Top(t) = Last(S) /\ Last(S).todo = <<>> /\ Last(S).now = NoJob
      /\ UNCHANGED <<thr, calls, job, pc, hasLoop, jobVars>>
  BY DEF Poll, InPass, WithTop, Top, Fired
<1>2. F \in {P, <<>>} /\ \A x : x \in ToSet(P) <=> x \in ToSet(F) \/ x \in ToSet(D)
  <2>1. CASE F = P
    BY <2>1, <1>0, FiredLeave, SetOfEmpty
  <2>2. CASE F = <<>>
    BY <2>2, <1>0, FiredLeave, SetOfEmpty
  <2> QED BY <2>1, <2>2
<1>3. D \in Seq(Jobs) /\ IsInjective(D) /\ F \in Seq(Jobs) /\ IsInjective(F)
      /\ \A x \in ToSet(F) : x \notin ToSet(D)
  <2>1. CASE F = P
    BY <2>1, <1>0, FiredLeave, SetOfEmpty DEF Apart
  <2>2. CASE F = <<>>
    BY <2>2, <1>0, FiredLeave, SetOfEmpty DEF Apart
  <2> QED BY <1>2, <2>1, <2>2
<1> HIDE DEF F, D, P
<1>4. /\ Q \in Seq(Jobs) /\ IsInjective(Q)
      /\ \A x : x \in ToSet(Q) <=> x \in ToSet(loop[t]) \/ x \in ToSet(F)
  <2>1. ToSet(loop[t]) \cap ToSet(F) = {} /\ IsInjective(loop[t])
    BY <1>0, <1>2 DEF Apart
  <2> QED BY <2>1, <1>0, <1>3, SetOfConcat
<1>5. \A j \in ToSet(Q) : j \in 1 .. calls
  BY <1>0, <1>2, <1>4 DEF Home, Waiting, P
<1> HIDE DEF Q
<1>6. /\ A \in Seq(Jobs) /\ IsInjective(A) /\ B \in Seq(Jobs) /\ IsInjective(B)
      /\ \A x : x \in ToSet(Q) <=> x \in ToSet(A) \/ x \in ToSet(B)
      /\ \A x \in ToSet(A) : x \notin ToSet(B)
  <2>1. CASE Top(t).known
    <3>1. A = InMode(Q, m) /\ B = NotInMode(Q, m)
      BY <2>1
    <3> QED BY <1>4, <1>5, <3>1, ModesSplit
  <2>2. CASE ~ Top(t).known
    <3>1. A = <<>> /\ B = Q /\ <<>> \in Seq(Jobs)
      BY <2>2
    <3> QED BY <1>4, <3>1, SetOfEmpty
  <2> QED BY <2>1, <2>2
<1> HIDE DEF A, B
<1>7. /\ Front(S) \in Seq(Frames) /\ Last(S) \in Frames /\ StackApart(Front(S))
      /\ \A x : x \in Todos(S) <=> x \in Todos(Front(S)) \/ x \in ToSet(Last(S).todo)
      /\ \A x : x \in Nows(S) <=> x \in Nows(Front(S)) \/ (x = Last(S).now /\ x # NoJob)
      /\ Last(S).mode = NoMode => Last(S).now # NoJob
  BY <1>0, StackPop
<1>8. f \in Frames /\ f.todo = A /\ f.now = NoJob /\ f.mode = Last(S).mode
  BY <1>1, <1>6, <1>7 DEF Frames
<1> HIDE DEF f, S
<1>9. f.mode # NoMode
  BY <1>1, <1>7, <1>8
<1>10. \A x \in ToSet(f.todo) : x \notin Todos(Front(S))
  BY <1>0, <1>2, <1>4, <1>6, <1>7, <1>8 DEF Apart
<1>11. f.now \notin Nows(Front(S))
  BY <1>8 DEF Nows
<1> DEFINE R == Append(Front(S), f)
<1>12. /\ R \in Seq(Frames) /\ StackApart(R)
       /\ \A x : x \in Todos(R) <=> x \in Todos(Front(S)) \/ x \in ToSet(f.todo)
       /\ \A x : x \in Nows(R) <=> x \in Nows(Front(S)) \/ (x = f.now /\ x # NoJob)
  BY <1>6, <1>7, <1>8, <1>9, <1>10, <1>11, StackPush
<1>13. /\ stack' = [stack EXCEPT ![t] = R] /\ stack'[t] = R /\ loop'[t] = B /\ performers'[t] = D
       /\ \A u \in Threads : u # t =>
            stack'[u] = stack[u] /\ loop'[u] = loop[u] /\ performers'[u] = performers[u]
  BY <1>1 DEF PInv, TypeOK
<1> HIDE DEF R
<1>14. TypeOK'
  <2>1. \A j \in ToSet(F) : job[j] \in Call
    BY <1>4, <1>5, JobTypes
  <2>2. \A c \in Call : c.modes \subseteq Modes
    BY DEF Call
  <2>3. UNION {job[j].modes : j \in ToSet(F)} \subseteq Modes
    BY <2>1, <2>2
  <2>4. contexts' \in [Threads -> SUBSET Modes]
    BY <2>3, <1>1 DEF PInv, TypeOK
  <2> QED BY <2>4, <1>1, <1>3, <1>6, <1>12, <1>13 DEF PInv, TypeOK, jobVars
<1>15. OnlyOf(t)
  BY <1>1, <1>13 DEF OnlyOf, jobVars
<1>16. \A x : x \in Todos(S) <=> x \in Todos(Front(S))
  BY <1>1, <1>7, SetOfEmpty
<1>17. Apart(performers[t], loop[t], stack[t])'
  <2>1. \A x \in ToSet(D) : x \notin ToSet(B)
    BY <1>0, <1>2, <1>3, <1>4, <1>6 DEF Apart
  <2>2. \A x \in Todos(R) : x \notin ToSet(D) /\ x \notin ToSet(B)
    <3>1. \A x \in Todos(Front(S)) : x \notin ToSet(P) /\ x \notin ToSet(loop[t])
      BY <1>0, <1>16 DEF Apart
    <3>2. \A x \in ToSet(A) : x \notin ToSet(D) /\ x \notin ToSet(B)
      BY <1>0, <1>2, <1>3, <1>4, <1>6 DEF Apart
    <3> QED BY <3>1, <3>2, <1>2, <1>4, <1>6, <1>8, <1>12
  <2>3. Apart(D, B, R)
    BY <2>1, <2>2, <1>3, <1>6, <1>12 DEF Apart
  <2> QED BY <2>3, <1>13
<1>18. \A x : x \in Waiting(t)' <=> x \in Waiting(t)
  <2>1. Waiting(t)' = ToSet(D) \cup ToSet(B) \cup Todos(R)
    BY <1>13 DEF Waiting
  <2>2. Waiting(t) = ToSet(P) \cup ToSet(loop[t]) \cup Todos(S)
    BY DEF Waiting, P, S
  <2> QED BY <2>1, <2>2, <1>2, <1>4, <1>6, <1>8, <1>12, <1>16
<1>19. \A x : x \in Nows(stack[t])' <=> x \in Nows(stack[t])
  BY <1>1, <1>7, <1>8, <1>12, <1>13 DEF S
<1> QED BY <1>0, <1>1, <1>14, <1>15, <1>17, <1>18, <1>19, JobsMove

LEMMA BeginKeeps ==
  ASSUME NEW t \in Threads, PInv, Begin(t)
  PROVE  PInv'
<1> DEFINE S == stack[t]
           A == Last(S).todo
           f == [Top(t) EXCEPT !.now = Head(A), !.todo = Tail(A)]
           R == Append(Front(S), f)
<1>0. /\ performers[t] \in Seq(Jobs) /\ loop[t] \in Seq(Jobs) /\ S \in Seq(Frames)
      /\ Home(t) /\ Apart(performers[t], loop[t], S) /\ StackApart(S) /\ S # <<>>
      /\ thr[t] = "active"
  BY HomeTypes DEF Begin, InPass
<1>1. /\ stack' = [stack EXCEPT ![t] = R] /\ performed' = [performed EXCEPT ![Head(A)] = "begun"]
      /\ Top(t) = Last(S) /\ A # <<>> /\ Last(S).now = NoJob
      /\ UNCHANGED <<thr, calls, job, pc, loopVars, lock, invalidated>>
  BY DEF Begin, InPass, WithTop, Top
<1>2. /\ Front(S) \in Seq(Frames) /\ Last(S) \in Frames /\ StackApart(Front(S))
      /\ IsInjective(A) /\ \A x \in ToSet(A) : x \notin Todos(Front(S))
      /\ \A x : x \in Todos(S) <=> x \in Todos(Front(S)) \/ x \in ToSet(A)
      /\ \A x : x \in Nows(S) <=> x \in Nows(Front(S)) \/ (x = Last(S).now /\ x # NoJob)
      /\ Last(S).mode = NoMode => Last(S).now # NoJob
  BY <1>0, StackPop
<1>3. A \in Seq(Jobs)
  BY <1>2 DEF Frames
<1> PICK j : j = Head(A)
  OBVIOUS
<1>4. /\ Tail(A) \in Seq(Jobs) /\ j \in Jobs /\ IsInjective(Tail(A)) /\ j \notin ToSet(Tail(A))
      /\ \A x : x \in ToSet(A) <=> x \in ToSet(Tail(A)) \/ x = j
  BY <1>1, <1>2, <1>3, SetOfTail
<1>5. f \in Frames /\ f.todo = Tail(A) /\ f.now = j /\ f.mode = Last(S).mode
  BY <1>1, <1>2, <1>4 DEF Frames
<1>6. /\ j \in Waiting(t) /\ j \in 1 .. calls /\ job[j].to = t /\ performed[j] = "no"
      /\ j \notin invalidated
  BY <1>0, <1>2, <1>4 DEF Home, Waiting
<1>7. j # NoJob /\ j \notin Nows(Front(S))
  <2>1. j \in Nows(S) => performed[j] = "begun"
    BY <1>0 DEF Home
  <2> QED BY <2>1, <1>2, <1>4, <1>6 DEF Jobs, NoJob
<1> HIDE DEF S, A, f
<1>8. /\ R \in Seq(Frames) /\ StackApart(R)
      /\ \A x : x \in Todos(R) <=> x \in Todos(Front(S)) \/ x \in ToSet(f.todo)
      /\ \A x : x \in Nows(R) <=> x \in Nows(Front(S)) \/ (x = f.now /\ x # NoJob)
  <2>1. \A x \in ToSet(f.todo) : x \notin Todos(Front(S))
    BY <1>2, <1>4, <1>5
  <2>2. f.mode # NoMode /\ IsInjective(f.todo) /\ f.now \notin Nows(Front(S))
    BY <1>1, <1>2, <1>4, <1>5, <1>7
  <2> QED BY <2>1, <2>2, <1>2, <1>5, StackPush
<1>9. /\ \A x : x \in Todos(R) <=> x \in Todos(S) /\ x # j
      /\ \A x : x \in Nows(R) <=> x \in Nows(S) \/ x = j
  BY <1>1, <1>2, <1>4, <1>5, <1>7, <1>8
<1> HIDE DEF R
<1>10. /\ stack'[t] = R /\ \A u \in Threads : u # t => stack'[u] = stack[u]
       /\ performers' = performers /\ loop' = loop
       /\ performed'[j] = "begun" /\ \A k \in Jobs : k # j => performed'[k] = performed[k]
       /\ UNCHANGED <<thr, calls, job, pc, lock, invalidated>>
  BY <1>1, <1>4 DEF PInv, TypeOK, loopVars
<1>11. TypeOK'
  BY <1>1, <1>4, <1>8 DEF PInv, TypeOK, loopVars
<1>12. \A k \in 1 .. calls : k \in Jobs
  BY JobTypes
<1>13. OnlyOf(t)
  BY <1>6, <1>10, <1>12 DEF OnlyOf
<1>14. \A x : x \in Waiting(t)' <=> x \in Waiting(t) /\ x # j
  <2>1. Waiting(t)' = ToSet(performers[t]) \cup ToSet(loop[t]) \cup Todos(R)
    BY <1>10 DEF Waiting
  <2>2. j \notin ToSet(performers[t]) /\ j \notin ToSet(loop[t])
    BY <1>0, <1>2, <1>4 DEF Apart
  <2> QED BY <2>1, <2>2, <1>9 DEF Waiting, S
<1>15. Home(t)'
  <2>1. Apart(performers[t], loop[t], R)
    BY <1>0, <1>8, <1>9 DEF Apart
  <2>2. \A k \in Waiting(t)' : /\ k \in 1 .. calls /\ job[k].to = t
                               /\ performed'[k] = "no" /\ k \notin invalidated
    BY <1>0, <1>10, <1>12, <1>14 DEF Home
  <2>3. \A k \in Nows(R) : k \in 1 .. calls /\ job[k].to = t /\ performed'[k] = "begun"
    BY <1>0, <1>6, <1>9, <1>10, <1>12 DEF Home, S
  <2> QED BY <2>1, <2>2, <2>3, <1>0, <1>10 DEF Home
<1>16. LeavesOut(t)
  BY <1>6, <1>10, <1>12, <1>14 DEF LeavesOut
<1>17. ASSUME NEW k \in Jobs PROVE Told(k)'
  <2>1. Told(k)
    BY DEF PInv
  <2>2. performed'[k] # performed[k] => k = j
    BY <1>10
  <2>3. k = j => k \in 1 .. calls /\ performed[k] # "done" /\ performed'[k] # "done" /\ k \notin invalidated
    BY <1>6, <1>10
  <2> QED BY <2>1, <2>2, <2>3, <1>10, ToldKept
<1>18. ASSUME NEW k \in 1 .. calls', k \in 1 .. calls => job[k].to = t PROVE Somewhere(k)'
  <2>1. Somewhere(k) /\ job[k].to = t /\ job'[k].to = t /\ k \in Jobs
    BY <1>10, <1>12, <1>18 DEF PInv
  <2>2. CASE k = j
    BY <2>1, <2>2, <1>9, <1>10 DEF Somewhere
  <2>3. CASE k # j
    <3>1. (Adding(k) => Adding(k)') /\ (Over(k) => Over(k)')
      BY <2>1, <2>3, <1>10 DEF Adding, Over
    <3>2. k \in Waiting(t) => k \in Waiting(t)'
      BY <2>3, <1>14
    <3>3. k \in Nows(stack[t]) => k \in Nows(stack[t])'
      BY <1>9, <1>10 DEF S
    <3> QED BY <2>1, <3>1, <3>2, <3>3 DEF Somewhere
  <2> QED BY <2>2, <2>3
<1> QED BY <1>10, <1>11, <1>13, <1>15, <1>16, <1>17, <1>18, Assemble

--------------------------------------------------------------------------
(* A method that ends, in whatever way, was the one on top.                 *)
LEMMA AfterMethodIs ==
  ASSUME NEW t \in Threads, PInv, Performing(t), AfterMethod(t), NEW j, Top(t).now = j
  PROVE  /\ stack' \in [Threads -> Seq(Frames)] /\ StackApart(stack'[t])
         /\ \A u \in Threads : u # t => stack'[u] = stack[u]
         /\ \A x : x \in Todos(stack'[t]) <=> x \in Todos(stack[t])
         /\ \A x : x \in Nows(stack'[t]) <=> x \in Nows(stack[t]) /\ x # j
         /\ j \in Nows(stack[t]) /\ thr[t] = "active"
<1> DEFINE S == stack[t]
           f == [Last(S) EXCEPT !.now = NoJob]
           R == Append(Front(S), f)
<1>0. /\ S \in Seq(Frames) /\ StackApart(S) /\ S # <<>> /\ thr[t] = "active"
      /\ stack \in [Threads -> Seq(Frames)]
  BY HomeTypes DEF Performing, Free, PInv, TypeOK
<1>1. /\ Top(t) = Last(S) /\ Last(S).now = j /\ j # NoJob
      /\ stack' = [stack EXCEPT ![t] = IF Last(S).mode = NoMode THEN Front(S) ELSE R]
  BY DEF Performing, Free, AfterMethod, Popped, WithTop, Top
<1>2. /\ Front(S) \in Seq(Frames) /\ Last(S) \in Frames /\ StackApart(Front(S))
      /\ IsInjective(Last(S).todo) /\ \A x \in ToSet(Last(S).todo) : x \notin Todos(Front(S))
      /\ \A x : x \in Todos(S) <=> x \in Todos(Front(S)) \/ x \in ToSet(Last(S).todo)
      /\ \A x : x \in Nows(S) <=> x \in Nows(Front(S)) \/ (x = Last(S).now /\ x # NoJob)
      /\ Last(S).mode = NoMode => Last(S).todo = <<>>
      /\ Last(S).now \notin Nows(Front(S))
  BY <1>0, StackPop
<1>3. f \in Frames /\ f.todo = Last(S).todo /\ f.now = NoJob /\ f.mode = Last(S).mode
  BY <1>2 DEF Frames
<1> HIDE DEF S, f
<1>4. CASE Last(S).mode = NoMode
  <2>1. stack' = [stack EXCEPT ![t] = Front(S)] /\ stack'[t] = Front(S)
    BY <1>0, <1>1, <1>4
  <2>2. \A x : x \in Todos(Front(S)) <=> x \in Todos(S)
    BY <1>2, <1>4, SetOfEmpty
  <2>3. \A x : x \in Nows(Front(S)) <=> x \in Nows(S) /\ x # j
    BY <1>1, <1>2
  <2> QED BY <2>1, <2>2, <2>3, <1>0, <1>1, <1>2 DEF S
<1>5. CASE Last(S).mode # NoMode
  <2>1. stack' = [stack EXCEPT ![t] = R] /\ stack'[t] = R
    BY <1>0, <1>1, <1>5
  <2>2. f.now \notin Nows(Front(S))
    BY <1>3 DEF Nows
  <2>3. /\ R \in Seq(Frames) /\ StackApart(R)
        /\ \A x : x \in Todos(R) <=> x \in Todos(Front(S)) \/ x \in ToSet(f.todo)
        /\ \A x : x \in Nows(R) <=> x \in Nows(Front(S)) \/ (x = f.now /\ x # NoJob)
    BY <2>2, <1>2, <1>3, <1>5, StackPush
  <2>4. \A x : x \in Todos(R) <=> x \in Todos(S)
    BY <2>3, <1>2, <1>3
  <2>5. \A x : x \in Nows(R) <=> x \in Nows(S) /\ x # j
    BY <2>3, <1>1, <1>2, <1>3
  <2> HIDE DEF R
  <2> QED BY <2>1, <2>3, <2>4, <2>5, <1>0, <1>1, <1>2 DEF S
<1> QED BY <1>4, <1>5

LEMMA MethodOver ==
  ASSUME NEW t \in Threads, PInv, Performing(t), AfterMethod(t), NEW j, Top(t).now = j,
         NEW s \in {"done", "raised"}, performed' = [performed EXCEPT ![j] = s],
         lock' \in [Jobs -> {0, 1}], \A k \in Jobs : k # j => lock'[k] = lock[k],
         s = "done" => lock'[j] = Unlocked(j), s = "raised" => lock'[j] = lock[j],
         UNCHANGED <<thr, calls, job, pc, loopVars, invalidated>>
  PROVE  PInv'
<1>1. /\ stack' \in [Threads -> Seq(Frames)] /\ StackApart(stack'[t])
      /\ \A u \in Threads : u # t => stack'[u] = stack[u]
      /\ \A x : x \in Todos(stack'[t]) <=> x \in Todos(stack[t])
      /\ \A x : x \in Nows(stack'[t]) <=> x \in Nows(stack[t]) /\ x # j
      /\ j \in Nows(stack[t]) /\ thr[t] = "active"
  BY AfterMethodIs
<1>2. /\ Home(t) /\ Apart(performers[t], loop[t], stack[t])
      /\ j \in 1 .. calls /\ job[j].to = t /\ performed[j] = "begun" /\ j \notin Waiting(t)
  <2>1. Home(t) /\ Apart(performers[t], loop[t], stack[t])
    BY HomeTypes
  <2>2. j \in 1 .. calls /\ job[j].to = t /\ performed[j] = "begun"
    BY <2>1, <1>1 DEF Home
  <2>3. j \in Waiting(t) => performed[j] = "no"
    BY <2>1 DEF Home
  <2> QED BY <2>1, <2>2, <2>3
<1>3. \A k \in 1 .. calls : k \in Jobs
  BY JobTypes
<1>4. /\ performers' = performers /\ loop' = loop
      /\ performed'[j] = s /\ \A k \in Jobs : k # j => performed'[k] = performed[k]
      /\ performed' \in [Jobs -> {"no", "begun", "done", "raised", "dropped"}]
  BY <1>2, <1>3 DEF PInv, TypeOK, loopVars
<1>5. TypeOK'
  BY <1>1, <1>4 DEF PInv, TypeOK, loopVars
<1>6. OnlyOf(t)
  BY <1>1, <1>2, <1>3, <1>4 DEF OnlyOf
<1>7. Waiting(t)' = Waiting(t)
  BY <1>1, <1>4 DEF Waiting
<1>8. Home(t)'
  <2>1. Apart(performers[t], loop[t], stack[t])'
    BY <1>1, <1>2, <1>4 DEF Apart
  <2>2. \A k \in Waiting(t)' : /\ k \in 1 .. calls /\ job[k].to = t
                               /\ performed'[k] = "no" /\ k \notin invalidated
    BY <1>2, <1>3, <1>4, <1>7 DEF Home
  <2>3. \A k \in Nows(stack[t])' : k \in 1 .. calls /\ job[k].to = t /\ performed'[k] = "begun"
    BY <1>1, <1>2, <1>3, <1>4 DEF Home
  <2> QED BY <2>1, <2>2, <2>3, <1>1 DEF Home
<1>9. LeavesOut(t)
  BY <1>2, <1>3, <1>4, <1>7 DEF LeavesOut
<1>10. ASSUME NEW k \in Jobs PROVE Told(k)'
  <2>1. Told(k)
    BY DEF PInv
  <2>2. CASE k # j
    <3>1. performed'[k] = performed[k] /\ lock'[k] = lock[k]
      BY <2>2, <1>4
    <3> QED BY <2>1, <3>1, ToldKept
  <2>3. CASE k = j
    <3>1. j \notin invalidated /\ lock[j] # 1
      BY <2>1, <2>3, <1>2 DEF Told
    <3>2. s = "done" => (lock'[j] = 1 <=> job[j].wait)
      BY <1>2, JobTypes DEF Unlocked
    <3>3. s # "done" => lock'[j] # 1
      BY <3>1
    <3> QED BY <2>3, <3>1, <3>2, <3>3, <1>2, <1>4 DEF Told
  <2> QED BY <2>2, <2>3
<1>11. ASSUME NEW k \in 1 .. calls', k \in 1 .. calls => job[k].to = t PROVE Somewhere(k)'
  <2>1. Somewhere(k) /\ job[k].to = t /\ job'[k].to = t /\ k \in Jobs
    BY <1>3, <1>11 DEF PInv
  <2>2. CASE k = j
    BY <2>2, <1>4 DEF Somewhere, Over
  <2>3. CASE k # j
    <3>1. (Adding(k) => Adding(k)') /\ (Over(k) => Over(k)')
      BY <2>1, <2>3, <1>4 DEF Adding, Over
    <3>2. k \in Nows(stack[t]) => k \in Nows(stack[t])'
      BY <2>3, <1>1
    <3> QED BY <2>1, <3>1, <3>2, <1>7 DEF Somewhere
  <2> QED BY <2>2, <2>3
<1>12. UNCHANGED pc
  OBVIOUS
<1> QED BY <1>5, <1>6, <1>8, <1>9, <1>10, <1>11, <1>12, Assemble

LEMMA ReturnKeeps ==
  ASSUME NEW t \in Threads, PInv, Return(t)
  PROVE  PInv'
<1> PICK j : Top(t).now = j
  OBVIOUS
<1>1. /\ Performing(t) /\ AfterMethod(t) /\ performed' = [performed EXCEPT ![j] = "done"]
      /\ lock' = [lock EXCEPT ![j] = Unlocked(j)]
      /\ UNCHANGED <<thr, calls, job, pc, loopVars, invalidated>>
  BY DEF Return
<1>2. j \in Jobs
  <2>1. j \in Nows(stack[t]) /\ Home(t)
    BY <1>1, AfterMethodIs, HomeTypes
  <2> QED BY <2>1, JobTypes DEF Home
<1>3. lock \in [Jobs -> {0, 1}] /\ Unlocked(j) \in {0, 1}
  BY DEF PInv, TypeOK, Unlocked
<1>4. /\ lock' \in [Jobs -> {0, 1}] /\ lock'[j] = Unlocked(j)
      /\ \A k \in Jobs : k # j => lock'[k] = lock[k]
  BY <1>1, <1>2, <1>3
<1> QED BY <1>1, <1>4, MethodOver

LEMMA RaiseKeeps ==
  ASSUME NEW t \in Threads, PInv, Raise(t)
  PROVE  PInv'
<1> PICK j : Top(t).now = j
  OBVIOUS
<1>1. /\ Performing(t) /\ AfterMethod(t) /\ performed' = [performed EXCEPT ![j] = "raised"]
      /\ UNCHANGED <<thr, calls, job, pc, loopVars, invalidated>> /\ lock' = lock
  BY DEF Raise
<1>2. lock' \in [Jobs -> {0, 1}] /\ lock'[j] = lock[j] /\ \A k \in Jobs : k # j => lock'[k] = lock[k]
  BY <1>1 DEF PInv, TypeOK
<1> QED BY <1>1, <1>2, MethodOver

--------------------------------------------------------------------------
(* A call that is made is nowhere yet, and nothing was done with it.        *)
LEMMA NewCallIs ==
  ASSUME PInv, NEW c \in Call, NewCall(c), NEW n, n = calls + 1
  PROVE  /\ n \in Jobs /\ n # NoJob /\ calls' = n /\ n \notin 1 .. calls
         /\ \A j : j \in 1 .. calls' <=> j \in 1 .. calls \/ j = n
         /\ job' \in Seq(Call) /\ Len(job') = n /\ job'[n] = c
         /\ \A j \in 1 .. calls : j \in Jobs /\ j \in 1 .. calls' /\ job'[j] = job[j]
         /\ \A u \in Threads : n \notin Waiting(u) /\ n \notin Nows(stack[u])
         /\ performed[n] = "no" /\ n \notin invalidated /\ lock[n] # 1
         /\ calls' \in 0 .. MaxJobs
<1>1. calls \in Nat /\ MaxJobs \in Nat /\ calls < MaxJobs /\ job \in Seq(Call) /\ Len(job) = calls
  BY JobTypes DEF NewCall, PInv, TypeOK
<1>2. n \in Jobs /\ n # NoJob /\ n \notin 1 .. calls /\ calls' = n /\ calls' \in 0 .. MaxJobs
  BY <1>1 DEF Jobs, NoJob, NewCall
<1>3. \A j : j \in 1 .. calls' <=> j \in 1 .. calls \/ j = n
  BY <1>1, <1>2
<1>4. job' = Append(job, c)
  BY DEF NewCall
<1>5. /\ job' \in Seq(Call) /\ Len(job') = n /\ job'[n] = c
      /\ \A j \in 1 .. calls : job'[j] = job[j]
  BY <1>1, <1>4, AppendIs
<1>6. \A j \in 1 .. calls : j \in Jobs /\ j \in 1 .. calls'
  BY <1>3, JobTypes
<1>7. \A u \in Threads : n \notin Waiting(u) /\ n \notin Nows(stack[u])
  BY <1>2 DEF PInv, Home
<1>8. Told(n)
  BY <1>2 DEF PInv
<1>9. performed[n] = "no" /\ n \notin invalidated /\ lock[n] # 1
  BY <1>2, <1>8 DEF Told
<1> QED BY <1>2, <1>3, <1>5, <1>6, <1>7, <1>9

(* Performed at once, by the thread that asks.                              *)
LEMMA PerformAtOnceKeeps ==
  ASSUME NEW t \in Threads, NEW c \in Call, PInv, Free(t), c.to = t, PerformHere(t, c),
         c.wait \/ t \notin hasLoop
  PROVE  PInv'
<1> PICK n : n = calls + 1
  OBVIOUS
<1> DEFINE S == stack[t]
           f == [mode |-> NoMode, phase |-> "last", known |-> FALSE, todo |-> <<>>, now |-> n]
           R == Append(S, f)
<1>0. /\ S \in Seq(Frames) /\ StackApart(S) /\ thr[t] = "active"
      /\ Home(t) /\ Apart(performers[t], loop[t], S)
  BY HomeTypes DEF Free
<1>1. /\ NewCall(c) /\ stack' = [stack EXCEPT ![t] = R]
      /\ performed' = [performed EXCEPT ![n] = "begun"]
      /\ UNCHANGED <<thr, pc, performers, signal, loop, contexts, hasLoop, lock, invalidated>>
  BY DEF PerformHere, Pushed
<1>2. /\ n \in Jobs /\ n # NoJob /\ calls' = n /\ n \notin 1 .. calls
      /\ \A j : j \in 1 .. calls' <=> j \in 1 .. calls \/ j = n
      /\ job' \in Seq(Call) /\ Len(job') = n /\ job'[n] = c
      /\ \A j \in 1 .. calls : j \in Jobs /\ j \in 1 .. calls' /\ job'[j] = job[j]
      /\ \A u \in Threads : n \notin Waiting(u) /\ n \notin Nows(stack[u])
      /\ performed[n] = "no" /\ n \notin invalidated /\ lock[n] # 1
      /\ calls' \in 0 .. MaxJobs
  BY <1>1, NewCallIs
<1>3. f \in Frames /\ f.todo = <<>> /\ f.now = n /\ f.mode = NoMode
  <2>1. <<>> \in Seq(Jobs)
    OBVIOUS
  <2> QED BY <2>1, <1>2 DEF Frames
<1> HIDE DEF S, f
<1>4. /\ R \in Seq(Frames) /\ StackApart(R)
      /\ \A x : x \in Todos(R) <=> x \in Todos(S) \/ x \in ToSet(f.todo)
      /\ \A x : x \in Nows(R) <=> x \in Nows(S) \/ (x = f.now /\ x # NoJob)
  <2>1. \A x \in ToSet(f.todo) : x \notin Todos(S)
    BY <1>3, SetOfEmpty
  <2>2. IsInjective(f.todo) /\ f.now \notin Nows(S) /\ f.now # NoJob
    BY <1>2, <1>3, SetOfEmpty DEF S
  <2> QED BY <2>1, <2>2, <1>0, <1>3, StackPush
<1>5. /\ \A x : x \in Todos(R) <=> x \in Todos(S)
      /\ \A x : x \in Nows(R) <=> x \in Nows(S) \/ x = n
  BY <1>2, <1>3, <1>4, SetOfEmpty
<1> HIDE DEF R
<1>6. /\ stack'[t] = R /\ \A u \in Threads : u # t => stack'[u] = stack[u]
      /\ performed'[n] = "begun" /\ \A k \in Jobs : k # n => performed'[k] = performed[k]
      /\ UNCHANGED <<thr, pc, performers, loop, lock, invalidated>>
  BY <1>1, <1>2 DEF PInv, TypeOK
<1>7. TypeOK'
  BY <1>1, <1>2, <1>4 DEF PInv, TypeOK
<1>8. OnlyOf(t)
  BY <1>2, <1>6 DEF OnlyOf
<1>9. \A x : x \in Waiting(t)' <=> x \in Waiting(t)
  BY <1>5, <1>6 DEF Waiting, S
<1>10. Home(t)'
  <2>1. Apart(performers[t], loop[t], stack[t])'
    BY <1>0, <1>4, <1>5, <1>6 DEF Apart
  <2>2. \A k \in Waiting(t)' : /\ k \in 1 .. calls' /\ job'[k].to = t
                               /\ performed'[k] = "no" /\ k \notin invalidated
    BY <1>0, <1>2, <1>6, <1>9 DEF Home
  <2>3. \A k \in Nows(stack[t])' : k \in 1 .. calls' /\ job'[k].to = t /\ performed'[k] = "begun"
    BY <1>0, <1>2, <1>5, <1>6 DEF Home, S
  <2> QED BY <2>1, <2>2, <2>3, <1>0, <1>6 DEF Home
<1>11. LeavesOut(t)
  BY <1>2, <1>6, <1>9 DEF LeavesOut
<1>12. ASSUME NEW k \in Jobs PROVE Told(k)'
  <2>1. CASE k = n
    BY <2>1, <1>2, <1>6 DEF Told
  <2>2. CASE k # n
    <3>1. Told(k) /\ performed'[k] = performed[k] /\ (k \in 1 .. calls' <=> k \in 1 .. calls)
      BY <2>2, <1>2, <1>6 DEF PInv
    <3>2. k \in 1 .. calls => job'[k] = job[k]
      BY <1>2
    <3> QED BY <3>1, <3>2, <1>6, ToldKept
  <2> QED BY <2>1, <2>2
<1>13. ASSUME NEW k \in 1 .. calls', k \in 1 .. calls => job[k].to = t PROVE Somewhere(k)'
  <2>1. CASE k = n
    <3>1. job'[k].to = t /\ k \in Nows(stack[t])'
      BY <2>1, <1>2, <1>5, <1>6
    <3> QED BY <3>1 DEF Somewhere
  <2>2. CASE k # n
    <3>1. k \in 1 .. calls /\ Somewhere(k) /\ job[k].to = t /\ job'[k] = job[k] /\ k \in Jobs
      BY <2>2, <1>2, <1>13 DEF PInv
    <3>2. (Adding(k) => Adding(k)') /\ (Over(k) => Over(k)')
      BY <2>2, <3>1, <1>6 DEF Adding, Over
    <3>3. k \in Nows(stack[t]) => k \in Nows(stack[t])'
      BY <1>5, <1>6 DEF S
    <3> QED BY <3>1, <3>2, <3>3, <1>9 DEF Somewhere
  <2> QED BY <2>1, <2>2
<1> QED BY <1>6, <1>7, <1>8, <1>10, <1>11, <1>12, <1>13, Assemble

(* Or left to its loop.                                                     *)
LEMMA PerformLaterKeeps ==
  ASSUME NEW t \in Threads, NEW c \in Call, PInv, Free(t), c.to = t, PerformHere(t, c),
         ~ (c.wait \/ t \notin hasLoop)
  PROVE  PInv'
<1> PICK n : n = calls + 1
  OBVIOUS
<1> DEFINE L == Append(loop[t], n)
<1>0. /\ Home(t) /\ Apart(performers[t], loop[t], stack[t]) /\ loop[t] \in Seq(Jobs)
  BY HomeTypes
<1>1. /\ NewCall(c) /\ loop' = [loop EXCEPT ![t] = L]
      /\ contexts' = [contexts EXCEPT ![t] = @ \cup c.modes]
      /\ UNCHANGED <<thr, pc, performers, signal, hasLoop, stack, performed, lock, invalidated>>
  BY DEF PerformHere
<1>2. /\ n \in Jobs /\ n # NoJob /\ calls' = n /\ n \notin 1 .. calls
      /\ \A j : j \in 1 .. calls' <=> j \in 1 .. calls \/ j = n
      /\ job' \in Seq(Call) /\ Len(job') = n /\ job'[n] = c
      /\ \A j \in 1 .. calls : j \in Jobs /\ j \in 1 .. calls' /\ job'[j] = job[j]
      /\ \A u \in Threads : n \notin Waiting(u) /\ n \notin Nows(stack[u])
      /\ performed[n] = "no" /\ n \notin invalidated /\ lock[n] # 1
      /\ calls' \in 0 .. MaxJobs
  BY <1>1, NewCallIs
<1>3. L \in Seq(Jobs) /\ IsInjective(L) /\ \A x : x \in ToSet(L) <=> x \in ToSet(loop[t]) \/ x = n
  <2>1. n \notin ToSet(loop[t]) /\ IsInjective(loop[t])
    BY <1>0, <1>2 DEF Waiting, Apart
  <2> QED BY <2>1, <1>0, <1>2, SetOfAppend
<1> HIDE DEF L
<1>4. /\ loop'[t] = L /\ \A u \in Threads : u # t => loop'[u] = loop[u]
      /\ UNCHANGED <<thr, pc, performers, stack, performed, lock, invalidated>>
  BY <1>1 DEF PInv, TypeOK
<1>5. TypeOK'
  <2>1. c.modes \subseteq Modes
    BY DEF Call
  <2>2. contexts' \in [Threads -> SUBSET Modes]
    BY <2>1, <1>1 DEF PInv, TypeOK
  <2> QED BY <2>2, <1>1, <1>2, <1>3 DEF PInv, TypeOK
<1>6. OnlyOf(t)
  BY <1>2, <1>4 DEF OnlyOf
<1>7. \A x : x \in Waiting(t)' <=> x \in Waiting(t) \/ x = n
  BY <1>3, <1>4 DEF Waiting
<1>8. Home(t)'
  <2>1. Apart(performers[t], L, stack[t])
    BY <1>0, <1>2, <1>3 DEF Apart, Waiting
  <2>2. \A k \in Waiting(t)' : /\ k \in 1 .. calls' /\ job'[k].to = t
                               /\ performed'[k] = "no" /\ k \notin invalidated
    BY <1>0, <1>2, <1>4, <1>7 DEF Home
  <2>3. \A k \in Nows(stack[t]) : k \in 1 .. calls' /\ job'[k].to = t /\ performed'[k] = "begun"
    BY <1>0, <1>2, <1>4 DEF Home
  <2>4. thr'[t] # "active" => stack'[t] = <<>>
    BY <1>0, <1>4 DEF Home
  <2> QED BY <2>1, <2>2, <2>3, <2>4, <1>4 DEF Home
<1>9. LeavesOut(t)
  BY <1>2, <1>4, <1>7 DEF LeavesOut
<1>10. ASSUME NEW k \in Jobs PROVE Told(k)'
  <2>1. CASE k = n
    BY <2>1, <1>2, <1>4 DEF Told
  <2>2. CASE k # n
    <3>1. Told(k) /\ performed'[k] = performed[k] /\ (k \in 1 .. calls' <=> k \in 1 .. calls)
      BY <2>2, <1>2, <1>4 DEF PInv
    <3>2. k \in 1 .. calls => job'[k] = job[k]
      BY <1>2
    <3> QED BY <3>1, <3>2, <1>4, ToldKept
  <2> QED BY <2>1, <2>2
<1>11. ASSUME NEW k \in 1 .. calls', k \in 1 .. calls => job[k].to = t PROVE Somewhere(k)'
  <2>1. CASE k = n
    <3>1. job'[k].to = t /\ k \in Waiting(t)'
      BY <2>1, <1>2, <1>7
    <3> QED BY <3>1 DEF Somewhere
  <2>2. CASE k # n
    <3>1. k \in 1 .. calls /\ Somewhere(k) /\ job[k].to = t /\ job'[k] = job[k]
      BY <2>2, <1>2, <1>11 DEF PInv
    <3>2. (Adding(k) => Adding(k)') /\ (Over(k) => Over(k)')
      BY <3>1, <1>4 DEF Adding, Over
    <3>3. (k \in Waiting(t) => k \in Waiting(t)') /\ Nows(stack[t])' = Nows(stack[t])
      BY <1>4, <1>7
    <3> QED BY <3>1, <3>2, <3>3 DEF Somewhere
  <2> QED BY <2>1, <2>2
<1> QED BY <1>4, <1>5, <1>6, <1>8, <1>9, <1>10, <1>11, Assemble

--------------------------------------------------------------------------
(* Steps that move no job.                                                  *)
LEMMA StartKeeps ==
  ASSUME NEW t \in Threads, PInv, Start(t)
  PROVE  PInv'
<1>1. /\ thr' = [thr EXCEPT ![t] = "active"]
      /\ UNCHANGED <<calls, job, pc, performers, signal, loop, contexts, hasLoop, stack,
                     lock, invalidated, performed>>
  BY DEF Start, loopVars, jobVars
<1>2. TypeOK'
  BY <1>1 DEF PInv, TypeOK
<1>3. ASSUME NEW u \in Threads PROVE Home(u)' /\ Caller(u)'
  <2>1. Home(u) /\ Caller(u)
    BY DEF PInv
  <2>2. thr'[u] # "active" => stack'[u] = <<>>
    BY <1>1, <2>1 DEF Home, PInv, TypeOK
  <2>3. Waiting(u)' = Waiting(u)
    BY <1>1 DEF Waiting
  <2>4. Home(u)'
    BY <1>1, <2>1, <2>2, <2>3 DEF Home
  <2>5. Caller(u)'
    BY <1>1, <2>1 DEF Caller, Waiting
  <2> QED BY <2>4, <2>5
<1>4. \A j \in Jobs : Told(j)'
  BY <1>1 DEF PInv, Told
<1>5. \A j \in 1 .. calls' : Somewhere(j)'
  BY <1>1 DEF PInv, Somewhere, Adding, Over, Waiting
<1> QED BY <1>2, <1>3, <1>4, <1>5 DEF PInv

LEMMA PerformThereKeeps ==
  ASSUME NEW t \in Threads, NEW c \in Call, PInv, Free(t), c.by = t, PerformThere(t, c)
  PROVE  PInv'
<1> PICK n : n = calls + 1
  OBVIOUS
<1>1. /\ NewCall(c) /\ pc' = [pc EXCEPT ![t] = [step |-> "adding", job |-> n]]
      /\ UNCHANGED <<thr, performers, signal, loop, contexts, hasLoop, stack,
                     lock, invalidated, performed>>
  BY DEF PerformThere, Doing, loopVars, jobVars
<1>2. /\ n \in Jobs /\ n # NoJob /\ calls' = n /\ n \notin 1 .. calls
      /\ \A j : j \in 1 .. calls' <=> j \in 1 .. calls \/ j = n
      /\ job' \in Seq(Call) /\ Len(job') = n /\ job'[n] = c
      /\ \A j \in 1 .. calls : j \in Jobs /\ j \in 1 .. calls' /\ job'[j] = job[j]
      /\ \A u \in Threads : n \notin Waiting(u) /\ n \notin Nows(stack[u])
      /\ performed[n] = "no" /\ n \notin invalidated /\ lock[n] # 1
      /\ calls' \in 0 .. MaxJobs
  BY <1>1, NewCallIs
<1>3. /\ pc'[t] = [step |-> "adding", job |-> n] /\ pc[t].step = "free"
      /\ \A v \in Threads : v # t => pc'[v] = pc[v]
      /\ pc' \in [Threads -> [step : {"free", "adding", "waiting"}, job : Jobs \cup {NoJob}]]
  BY <1>1, <1>2 DEF Free, PInv, TypeOK
<1>4. TypeOK'
  BY <1>1, <1>2, <1>3 DEF PInv, TypeOK
<1>5. OnlyOf(t)
  BY <1>1, <1>2 DEF OnlyOf
<1>6. \A u \in Threads : Waiting(u)' = Waiting(u) /\ Nows(stack[u])' = Nows(stack[u])
  BY <1>1 DEF Waiting
<1>7. ASSUME NEW u \in Threads PROVE Home(u)'
  <2>1. Home(u)
    BY DEF PInv
  <2>2. \A k \in Waiting(u) : /\ k \in 1 .. calls' /\ job'[k].to = u
                              /\ performed'[k] = "no" /\ k \notin invalidated'
    BY <1>1, <1>2, <2>1 DEF Home
  <2>3. \A k \in Nows(stack[u]) : k \in 1 .. calls' /\ job'[k].to = u /\ performed'[k] = "begun"
    BY <1>1, <1>2, <2>1 DEF Home
  <2> QED BY <1>1, <1>6, <2>1, <2>2, <2>3 DEF Home
<1>8. ASSUME NEW v \in Threads PROVE Caller(v)'
  <2>1. CASE v = t
    <3>1. c.to \in Threads
      BY DEF Call
    <3>2. n \notin Waiting(c.to)'
      BY <1>2, <1>6, <3>1
    <3> QED BY <2>1, <3>2, <1>1, <1>2, <1>3 DEF Caller
  <2>2. CASE v # t
    <3> PICK k : pc[v].job = k
      OBVIOUS
    <3>1. pc'[v] = pc[v] /\ Caller(v)
      BY <2>2, <1>3 DEF PInv
    <3>2. pc[v].step = "adding" /\ job[k].to = t =>
            performed'[k] = "no" /\ k \notin invalidated' /\ k \notin Waiting(t)'
      BY <3>1, <1>1, <1>6 DEF Caller
    <3> QED BY <3>1, <3>2, <1>5, CallersKeep
  <2> QED BY <2>1, <2>2
<1>9. ASSUME NEW k \in Jobs PROVE Told(k)'
  <2>1. CASE k = n
    BY <2>1, <1>1, <1>2 DEF Told
  <2>2. CASE k # n
    <3>1. Told(k) /\ (k \in 1 .. calls' <=> k \in 1 .. calls)
      BY <2>2, <1>2 DEF PInv
    <3>2. k \in 1 .. calls => job'[k] = job[k]
      BY <1>2
    <3> QED BY <3>1, <3>2, <1>1, ToldKept
  <2> QED BY <2>1, <2>2
<1>10. ASSUME NEW k \in 1 .. calls' PROVE Somewhere(k)'
  <2>1. CASE k = n
    <3>1. Adding(k)'
      BY <2>1, <1>2, <1>3 DEF Adding
    <3> QED BY <3>1 DEF Somewhere
  <2>2. CASE k # n
    <3>1. /\ k \in 1 .. calls /\ Somewhere(k) /\ job'[k] = job[k]
          /\ job[k].to \in Threads /\ job[k].by \in Threads
      BY <2>2, <1>2, JobTypes DEF PInv
    <3>2. Adding(k) => Adding(k)'
      <4>1. Adding(k) => job[k].by # t
        BY <1>3 DEF Adding
      <4> QED BY <4>1, <3>1, <1>3 DEF Adding
    <3>3. Over(k) => Over(k)'
      BY <1>1 DEF Over
    <3>4. (k \in Waiting(job[k].to) => k \in Waiting(job[k].to)')
          /\ (k \in Nows(stack[job[k].to]) => k \in Nows(stack[job[k].to])')
      <4> PICK u \in Threads : u = job[k].to
        BY <3>1
      <4>1. u = job'[k].to
        BY <3>1
      <4> QED BY <4>1, <1>6
    <3> QED BY <3>1, <3>2, <3>3, <3>4 DEF Somewhere
  <2> QED BY <2>1, <2>2
<1> QED BY <1>4, <1>7, <1>8, <1>9, <1>10 DEF PInv

LEMMA AnsweredKeeps ==
  ASSUME NEW t \in Threads, PInv, Answered(t)
  PROVE  PInv'
<1>1. /\ pc[t].step = "waiting" /\ pc' = [pc EXCEPT ![t] = [step |-> "free", job |-> NoJob]]
      /\ UNCHANGED <<thr, calls, job, performers, signal, loop, contexts, hasLoop, stack,
                     lock, invalidated, performed>>
  BY DEF Answered, Doing, loopVars, jobVars
<1>2. /\ pc'[t].step = "free" /\ \A v \in Threads : v # t => pc'[v] = pc[v]
      /\ pc' \in [Threads -> [step : {"free", "adding", "waiting"}, job : Jobs \cup {NoJob}]]
  BY <1>1 DEF PInv, TypeOK
<1>3. TypeOK'
  BY <1>1, <1>2 DEF PInv, TypeOK
<1>4. \A u \in Threads : Home(u)'
  BY <1>1 DEF PInv, Home, Waiting
<1>5. ASSUME NEW v \in Threads PROVE Caller(v)'
  <2>1. CASE v = t
    BY <2>1, <1>2 DEF Caller
  <2>2. CASE v # t
    <3>1. Caller(v) /\ pc'[v] = pc[v]
      BY <2>2, <1>2 DEF PInv
    <3> QED BY <3>1, <1>1 DEF Caller, Waiting
  <2> QED BY <2>1, <2>2
<1>6. \A j \in Jobs : Told(j)'
  BY <1>1 DEF PInv, Told
<1>7. ASSUME NEW j \in 1 .. calls' PROVE Somewhere(j)'
  <2>1. Somewhere(j) /\ job[j].by \in Threads /\ job' = job
    BY <1>1, JobTypes DEF PInv
  <2>2. Adding(j) => Adding(j)'
    <3>1. Adding(j) => job[j].by # t
      BY <1>1 DEF Adding
    <3> QED BY <3>1, <2>1, <1>2 DEF Adding
  <2>3. Over(j) => Over(j)'
    BY <1>1 DEF Over
  <2> QED BY <1>1, <2>1, <2>2, <2>3 DEF Somewhere, Waiting
<1> QED BY <1>3, <1>4, <1>5, <1>6, <1>7 DEF PInv

(* A performer is added to another thread.                                  *)
LEMMA AddPerformerKeeps ==
  ASSUME NEW t \in Threads, PInv, AddPerformer(t)
  PROVE  PInv'
<1>j. PICK j : j = pc[t].job
  OBVIOUS
<1>1. /\ pc[t] = [step |-> "adding", job |-> j] /\ Caller(t)
      /\ j \in 1 .. calls /\ job[j].by = t /\ performed[j] = "no" /\ j \notin invalidated
      /\ j \notin Waiting(job[j].to)
  BY <1>j DEF AddPerformer, PInv, TypeOK, Caller
<1>u. PICK u \in Threads : u = job[j].to
  BY <1>1, JobTypes
<1> DEFINE P == Append(performers[u], j)
           w == IF job[j].wait THEN [step |-> "waiting", job |-> j]
                               ELSE [step |-> "free", job |-> NoJob]
<1>2. /\ performers' = [performers EXCEPT ![u] = P]
      /\ signal' = [signal EXCEPT ![u] = thr[u] # "ended"]
      /\ pc' = [pc EXCEPT ![t] = w]
      /\ UNCHANGED <<thr, calls, job, loop, contexts, hasLoop, stack, lock, invalidated, performed>>
  BY <1>j, <1>u DEF AddPerformer, Queue, Doing, jobVars
<1>3. /\ Home(u) /\ Apart(performers[u], loop[u], stack[u]) /\ performers[u] \in Seq(Jobs)
      /\ j \in Jobs
  BY <1>1, HomeTypes, JobTypes
<1>4. P \in Seq(Jobs) /\ IsInjective(P) /\ \A x : x \in ToSet(P) <=> x \in ToSet(performers[u]) \/ x = j
  <2>1. j \notin ToSet(performers[u]) /\ IsInjective(performers[u])
    BY <1>u, <1>1, <1>3 DEF Waiting, Apart
  <2> QED BY <2>1, <1>3, SetOfAppend
<1>5. /\ w \in [step : {"free", "adding", "waiting"}, job : Jobs \cup {NoJob}]
      /\ w.step # "adding" /\ (w.step = "waiting" => w.job = j /\ job[j].wait)
  BY <1>3
<1> HIDE DEF P, w
<1>6. /\ performers'[u] = P /\ \A v \in Threads : v # u => performers'[v] = performers[v]
      /\ pc'[t] = w /\ \A v \in Threads : v # t => pc'[v] = pc[v]
      /\ UNCHANGED <<thr, calls, job, loop, stack, lock, invalidated, performed>>
  BY <1>2 DEF PInv, TypeOK
<1>7. TypeOK'
  BY <1>2, <1>4, <1>5 DEF PInv, TypeOK
<1>8. OnlyOf(u)
  BY <1>6 DEF OnlyOf
<1>9. \A x : x \in Waiting(u)' <=> x \in Waiting(u) \/ x = j
  BY <1>4, <1>6 DEF Waiting
<1>10. ASSUME NEW v \in Threads PROVE Home(v)'
  <2>1. CASE v # u
    BY <2>1, <1>8, OthersKeep DEF PInv
  <2>2. CASE v = u
    <3>1. Apart(P, loop[u], stack[u])
      <4>1. j \notin ToSet(loop[u]) /\ j \notin Todos(stack[u])
        BY <1>u, <1>1 DEF Waiting
      <4> QED BY <4>1, <1>3, <1>4 DEF Apart
    <3>2. \A k \in Waiting(u)' : /\ k \in 1 .. calls /\ job[k].to = u
                                 /\ performed[k] = "no" /\ k \notin invalidated
      BY <1>u, <1>1, <1>3, <1>9 DEF Home
    <3> QED BY <2>2, <3>1, <3>2, <1>3, <1>6 DEF Home
  <2> QED BY <2>1, <2>2
<1>11. ASSUME NEW v \in Threads PROVE Caller(v)'
  <2>1. CASE v = t
    BY <2>1, <1>1, <1>5, <1>6 DEF Caller
  <2>2. CASE v # t
    <3> PICK k : pc[v].job = k
      OBVIOUS
    <3>1. pc'[v] = pc[v] /\ Caller(v)
      BY <2>2, <1>6 DEF PInv
    <3>2. ASSUME pc[v].step = "adding", job[k].to = u
          PROVE  performed'[k] = "no" /\ k \notin invalidated' /\ k \notin Waiting(u)'
      <4>1. job[k].by = v /\ performed[k] = "no" /\ k \notin invalidated /\ k \notin Waiting(u)
        BY <3>1, <3>2 DEF Caller
      <4>2. k # j
        BY <4>1, <2>2, <1>1
      <4> QED BY <4>1, <4>2, <1>6, <1>9
    <3> QED BY <3>1, <3>2, <1>8, CallersKeep
  <2> QED BY <2>1, <2>2
<1>12. \A k \in Jobs : Told(k)'
  BY <1>6 DEF PInv, Told
<1>13. ASSUME NEW k \in 1 .. calls' PROVE Somewhere(k)'
  <2>1. k \in 1 .. calls /\ Somewhere(k) /\ job' = job /\ job[k].by \in Threads
    BY <1>6, JobTypes DEF PInv
  <2>2. CASE k = j
    <3>1. k \in Waiting(u)' /\ u = job'[k].to
      BY <2>2, <1>u, <1>6, <1>9
    <3> QED BY <3>1 DEF Somewhere
  <2>3. CASE k # j
    <3>1. Adding(k) => Adding(k)'
      <4>1. Adding(k) => job[k].by # t
        BY <2>3, <1>1 DEF Adding
      <4> QED BY <4>1, <2>1, <1>6 DEF Adding
    <3>2. CASE job[k].to # u
      BY <3>1, <3>2, <2>1, <1>8, OthersFound
    <3>3. CASE job[k].to = u
      <4>1. Over(k) => Over(k)'
        BY <1>6 DEF Over
      <4>2. (k \in Waiting(u) => k \in Waiting(u)') /\ Nows(stack[u])' = Nows(stack[u])
        BY <1>6, <1>9
      <4>3. job'[k].to = u
        BY <3>3, <2>1
      <4> QED BY <2>1, <3>1, <3>3, <4>1, <4>2, <4>3 DEF Somewhere
    <3> QED BY <3>2, <3>3
  <2> QED BY <2>2, <2>3
<1> QED BY <1>7, <1>10, <1>11, <1>12, <1>13 DEF PInv

(* What a thread that ends had begun, or held, is dropped.                  *)
LEMMA ExitKeeps ==
  ASSUME NEW t \in Threads, PInv, Exit(t)
  PROVE  PInv'
<1>1. /\ thr' = [thr EXCEPT ![t] = "ending"] /\ stack' = [stack EXCEPT ![t] = <<>>]
      /\ performed' = [j \in Jobs |-> IF j \in Dropped(t) THEN "dropped" ELSE performed[j]]
      /\ UNCHANGED <<calls, job, pc, performers, signal, loop, contexts, hasLoop, lock, invalidated>>
  BY DEF Exit, loopVars
<1>2. /\ stack'[t] = <<>> /\ thr'[t] = "ending"
      /\ \A u \in Threads : u # t => stack'[u] = stack[u] /\ thr'[u] = thr[u]
      /\ \A j \in Jobs : performed'[j] = IF j \in Dropped(t) THEN "dropped" ELSE performed[j]
      /\ UNCHANGED <<calls, job, pc, performers, loop, lock, invalidated>>
  BY <1>1 DEF PInv, TypeOK
<1>3. /\ Home(t) /\ Apart(performers[t], loop[t], stack[t]) /\ stack[t] \in Seq(Frames)
  BY HomeTypes
<1>4. \A x \in Jobs : x \in Dropped(t) <=> x \in Todos(stack[t]) \/ x \in Nows(stack[t])
  <2>1. \A x : x \in Dropped(t) <=>
          \E i \in 1 .. Len(stack[t]) : x \in ToSet(stack[t][i].todo) \/ x = stack[t][i].now
    BY DEF Dropped
  <2>2. \A x \in Jobs : x # NoJob
    BY BoundsAssumption DEF Jobs, NoJob
  <2> QED BY <2>1, <2>2, <1>3, SetsOfStack
<1>5. \A k \in 1 .. calls : k \in Jobs
  BY JobTypes
<1>6. \A k \in Jobs : k \in Dropped(t) =>
        /\ k \in 1 .. calls /\ job[k].to = t /\ k \notin invalidated
        /\ performed[k] \in {"no", "begun"}
        /\ k \notin ToSet(performers[t]) /\ k \notin ToSet(loop[t])
  <2>1. ASSUME NEW k \in Todos(stack[t])
        PROVE  /\ k \in 1 .. calls /\ job[k].to = t /\ k \notin invalidated /\ performed[k] = "no"
               /\ k \notin ToSet(performers[t]) /\ k \notin ToSet(loop[t])
    BY <1>3 DEF Home, Waiting, Apart
  <2>2. ASSUME NEW k \in Nows(stack[t])
        PROVE  /\ k \in 1 .. calls /\ job[k].to = t /\ k \notin invalidated /\ performed[k] = "begun"
               /\ k \notin ToSet(performers[t]) /\ k \notin ToSet(loop[t])
    <3>1. k \in 1 .. calls /\ job[k].to = t /\ performed[k] = "begun" /\ k \in Jobs
      BY <1>3, <1>5 DEF Home
    <3>2. k \in Waiting(t) => performed[k] = "no"
      BY <1>3 DEF Home
    <3>3. k \in invalidated => performed[k] = "no"
      BY <3>1 DEF PInv, Told
    <3> QED BY <3>1, <3>2, <3>3 DEF Waiting
  <2> QED BY <2>1, <2>2, <1>4
<1>7. TypeOK'
  <2>1. <<>> \in Seq(Frames)
    OBVIOUS
  <2>2. performed' \in [Jobs -> {"no", "begun", "done", "raised", "dropped"}]
    BY <1>1 DEF PInv, TypeOK
  <2> QED BY <2>1, <2>2, <1>1 DEF PInv, TypeOK
<1>8. OnlyOf(t)
  BY <1>2, <1>5, <1>6 DEF OnlyOf
<1>9. \A x : x \in Waiting(t)' <=> x \in ToSet(performers[t]) \/ x \in ToSet(loop[t])
  BY <1>2, StackEmpty DEF Waiting
<1>10. Home(t)'
  <2>1. Apart(performers[t], loop[t], <<>>)
    BY <1>3, StackEmpty DEF Apart
  <2>2. ASSUME NEW k \in Waiting(t)'
        PROVE  k \in 1 .. calls /\ job[k].to = t /\ performed'[k] = "no" /\ k \notin invalidated
    <3>1. k \in 1 .. calls /\ job[k].to = t /\ performed[k] = "no" /\ k \notin invalidated
      BY <1>3, <1>9 DEF Home, Waiting
    <3>2. k \notin Dropped(t)
      BY <3>1, <1>5, <1>6, <1>9
    <3> QED BY <3>1, <3>2, <1>2, <1>5
  <2> QED BY <2>1, <2>2, <1>2, StackEmpty DEF Home
<1>11. LeavesOut(t)
  <2>1. ASSUME NEW k \in 1 .. calls, performed[k] = "no", k \notin invalidated, k \notin Waiting(t)
        PROVE  performed'[k] = "no" /\ k \notin Waiting(t)'
    <3>1. k \notin Dropped(t)
      BY <2>1, <1>3, <1>4, <1>5 DEF Home, Waiting
    <3> QED BY <2>1, <3>1, <1>2, <1>5, <1>9 DEF Waiting
  <2> QED BY <2>1, <1>2 DEF LeavesOut
<1>12. ASSUME NEW k \in Jobs PROVE Told(k)'
  <2>1. Told(k)
    BY DEF PInv
  <2>2. performed'[k] # performed[k] =>
          /\ k \in 1 .. calls /\ performed[k] # "done" /\ performed'[k] # "done" /\ k \notin invalidated
    BY <1>2, <1>6
  <2> QED BY <2>1, <2>2, <1>2, ToldKept
<1>13. ASSUME NEW k \in 1 .. calls', k \in 1 .. calls => job[k].to = t PROVE Somewhere(k)'
  <2>1. Somewhere(k) /\ job[k].to = t /\ job'[k].to = t /\ k \in Jobs
    BY <1>2, <1>5, <1>13 DEF PInv
  <2>2. CASE k \in Dropped(t)
    BY <2>1, <2>2, <1>2 DEF Somewhere, Over
  <2>3. CASE k \notin Dropped(t)
    <3>1. (Adding(k) => Adding(k)') /\ (Over(k) => Over(k)')
      BY <2>1, <2>3, <1>2 DEF Adding, Over
    <3>2. k \notin Nows(stack[t]) /\ (k \in Waiting(t) => k \in Waiting(t)')
      BY <2>1, <2>3, <1>4, <1>9 DEF Waiting
    <3> QED BY <2>1, <3>1, <3>2 DEF Somewhere
  <2> QED BY <2>2, <2>3
<1>14. UNCHANGED pc
  BY <1>2
<1> QED BY <1>7, <1>8, <1>10, <1>11, <1>12, <1>13, <1>14, Assemble

LEMMA InvalidateKeeps ==
  ASSUME NEW t \in Threads, PInv, Invalidate(t)
  PROVE  PInv'
<1> DEFINE P == ToSet(performers[t])
<1>1. /\ thr[t] = "ending" /\ thr' = [thr EXCEPT ![t] = "ended"]
      /\ invalidated' = invalidated \cup P
      /\ lock' = [j \in Jobs |-> IF j \in P THEN Unlocked(j) ELSE lock[j]]
      /\ performers' = [performers EXCEPT ![t] = <<>>]
      /\ signal' = [signal EXCEPT ![t] = FALSE]
      /\ UNCHANGED <<calls, job, pc, loop, contexts, hasLoop, stack, performed>>
  BY DEF Invalidate, Refused
<1>2. /\ performers'[t] = <<>> /\ thr'[t] = "ended"
      /\ \A u \in Threads : u # t => performers'[u] = performers[u] /\ thr'[u] = thr[u]
      /\ \A j \in Jobs : lock'[j] = IF j \in P THEN Unlocked(j) ELSE lock[j]
      /\ UNCHANGED <<calls, job, pc, loop, stack, performed>>
  BY <1>1 DEF PInv, TypeOK
<1>3. /\ Home(t) /\ Apart(performers[t], loop[t], stack[t]) /\ stack[t] = <<>>
      /\ performers[t] \in Seq(Jobs)
  BY <1>1, HomeTypes
<1>4. \A k \in P : /\ k \in Jobs /\ k \in 1 .. calls /\ job[k].to = t /\ performed[k] = "no"
                   /\ k \notin ToSet(loop[t]) /\ job[k].wait \in BOOLEAN
  <2>1. \A k \in P : k \in Waiting(t) /\ k \notin ToSet(loop[t])
    BY <1>3 DEF Waiting, Apart
  <2> QED BY <2>1, <1>3, JobTypes DEF Home
<1> HIDE DEF P
<1>5. \A k \in 1 .. calls : k \in Jobs
  BY JobTypes
<1>6. TypeOK'
  <2>1. lock' \in [Jobs -> {0, 1}]
    BY <1>1 DEF PInv, TypeOK, Unlocked
  <2>2. invalidated' \subseteq Jobs
    BY <1>1, <1>4 DEF PInv, TypeOK
  <2>3. <<>> \in Seq(Jobs)
    OBVIOUS
  <2> QED BY <2>1, <2>2, <2>3, <1>1 DEF PInv, TypeOK
<1>7. OnlyOf(t)
  BY <1>1, <1>2, <1>4 DEF OnlyOf
<1>8. \A x : x \in Waiting(t)' <=> x \in ToSet(loop[t])
  BY <1>2, <1>3, StackEmpty, SetOfEmpty DEF Waiting
<1>9. Home(t)'
  <2>1. Apart(<<>>, loop[t], stack[t])
    BY <1>3, StackEmpty, SetOfEmpty DEF Apart
  <2>2. \A k \in Waiting(t)' : /\ k \in 1 .. calls /\ job[k].to = t
                               /\ performed[k] = "no" /\ k \notin invalidated'
    BY <1>1, <1>3, <1>4, <1>8 DEF Home, Waiting
  <2> QED BY <2>1, <2>2, <1>2, <1>3 DEF Home
<1>10. LeavesOut(t)
  <2>1. \A k \in P : k \in Waiting(t)
    BY DEF P, Waiting
  <2>2. \A x : x \in ToSet(loop[t]) => x \in Waiting(t)
    BY DEF Waiting
  <2> QED BY <2>1, <2>2, <1>1, <1>2, <1>8 DEF LeavesOut
<1>11. ASSUME NEW k \in Jobs PROVE Told(k)'
  <2>1. Told(k)
    BY DEF PInv
  <2>2. CASE k \in P
    <3>1. /\ k \in invalidated' /\ k \in 1 .. calls' /\ performed'[k] = "no"
          /\ (job'[k].wait => lock'[k] = 1)
      BY <2>2, <1>1, <1>2, <1>4 DEF Unlocked
    <3> QED BY <3>1 DEF Told
  <2>3. CASE k \notin P
    <3>1. (k \in invalidated' <=> k \in invalidated) /\ lock'[k] = lock[k]
      BY <2>3, <1>1, <1>2
    <3> QED BY <2>1, <3>1, <1>2 DEF Told
  <2> QED BY <2>2, <2>3
<1>12. ASSUME NEW k \in 1 .. calls', k \in 1 .. calls => job[k].to = t PROVE Somewhere(k)'
  <2>1. Somewhere(k) /\ job[k].to = t /\ job'[k].to = t
    BY <1>2, <1>12 DEF PInv
  <2>2. CASE k \in P
    BY <2>2, <1>1 DEF Somewhere, Over
  <2>3. CASE k \notin P
    <3>1. (Adding(k) => Adding(k)') /\ (Over(k) => Over(k)')
      BY <1>1, <1>2 DEF Adding, Over
    <3>2. Nows(stack[t])' = Nows(stack[t]) /\ (k \in Waiting(t) => k \in Waiting(t)')
      BY <2>3, <1>2, <1>3, <1>8, StackEmpty DEF Waiting, P
    <3> QED BY <2>1, <3>1, <3>2 DEF Somewhere
  <2> QED BY <2>2, <2>3
<1>13. UNCHANGED pc
  BY <1>2
<1> QED BY <1>6, <1>7, <1>9, <1>10, <1>11, <1>12, <1>13, Assemble

--------------------------------------------------------------------------
LEMMA StartsRight == Init => PInv
<1> SUFFICES ASSUME Init PROVE PInv
  OBVIOUS
<1>0. MaxJobs \in Nat /\ Main \in Threads
  BY BoundsAssumption, MainAssumption
<1>1. calls = 0 /\ 1 .. calls = {} /\ <<>> \in Seq(Call) /\ Len(<<>>) = 0
  BY DEF Init
<1>2. TypeOK
  BY <1>0, <1>1 DEF Init, TypeOK
<1>3. ASSUME NEW t \in Threads PROVE Home(t) /\ Caller(t)
  <2>1. performers[t] = <<>> /\ loop[t] = <<>> /\ stack[t] = <<>> /\ pc[t].step = "free"
    BY DEF Init
  <2>2. Apart(<<>>, <<>>, <<>>)
    BY SetOfEmpty, StackEmpty DEF Apart
  <2>3. Waiting(t) = {} /\ Nows(stack[t]) = {}
    BY <2>1, SetOfEmpty, StackEmpty DEF Waiting
  <2>4. Home(t)
    BY <2>1, <2>2, <2>3 DEF Home
  <2>5. Caller(t)
    BY <2>1 DEF Caller
  <2> QED BY <2>4, <2>5
<1>4. \A j \in Jobs : Told(j)
  BY <1>1 DEF Init, Told
<1> QED BY <1>1, <1>2, <1>3, <1>4 DEF PInv

LEMMA StepsKeep == PInv /\ [Next]_vars => PInv'
<1> SUFFICES ASSUME PInv, [Next]_vars PROVE PInv'
  OBVIOUS
<1>1. CASE UNCHANGED vars
  <2>1. UNCHANGED <<thr, calls, job, pc, performers, signal, loop, contexts, hasLoop, stack,
                    lock, invalidated, performed>>
    BY <1>1 DEF vars, loopVars, jobVars
  <2> QED BY <2>1 DEF PInv, TypeOK, Home, Caller, Told, Somewhere, Adding, Over, Waiting
<1>2. ASSUME NEW t \in Threads, Perform(t) PROVE PInv'
  <2> PICK c \in Call : Free(t) /\ c.by = t /\ (PerformHere(t, c) \/ PerformThere(t, c))
    BY <1>2 DEF Perform
  <2>1. CASE PerformHere(t, c)
    <3>1. c.to = t
      BY <2>1 DEF PerformHere
    <3> QED BY <2>1, <3>1, PerformAtOnceKeeps, PerformLaterKeeps
  <2>2. CASE PerformThere(t, c)
    BY <2>2, PerformThereKeeps
  <2> QED BY <2>1, <2>2
<1>3. ASSUME NEW t \in Threads, Step(t) PROVE PInv'
  BY <1>3, AddPerformerKeeps, AnsweredKeeps, BeginKeeps, PollKeeps, EndPassKeeps,
     InvalidateKeeps DEF Step
<1>4. ASSUME NEW t \in Threads, NEW m \in Modes, RunMode(t, m) PROVE PInv'
  BY <1>4, RunModeKeeps
<1> QED BY <1>1, <1>2, <1>3, <1>4, StartKeeps, ReturnKeeps, RaiseKeeps, ExitKeeps DEF Next

LEMMA AlwaysPInv == SafeSpec => []PInv
BY StartsRight, StepsKeep, PTL DEF SafeSpec

(* The types of the queues, stacks and locks that the methods of NSThread   *)
(* and of the run loops keep.                                               *)
THEOREM ThreadTypeOK == SafeSpec => []TypeOK
<1>1. PInv => TypeOK
  BY DEF PInv
<1> QED BY <1>1, AlwaysPInv, PTL

(* A caller that is let go without an exception had its method performed to *)
(* the end, and one whose call raises never will have it performed          *)
(* (performSelector:onThread:withObject:waitUntilDone:modes:, -fire and     *)
(* -invalidate of NSThread.m), however threads run loops, raise and end.    *)
THEOREM CallersAreToldTheTruth == SafeSpec => []ToldTheTruth
<1>1. PInv => ToldTheTruth
  <2> SUFFICES ASSUME PInv, NEW j \in 1 .. calls, lock[j] = 1
               PROVE  IF j \in invalidated
                      THEN performed[j] = "no" /\ j \notin ToSet(loop[job[j].to])
                      ELSE performed[j] = "done"
    BY DEF ToldTheTruth
  <2>1. Told(j)
    BY JobTypes DEF PInv
  <2> PICK u \in Threads : u = job[j].to
    BY JobTypes
  <2>2. j \in ToSet(loop[u]) => j \notin invalidated
    BY DEF PInv, Home, Waiting
  <2> QED BY <2>1, <2>2 DEF Told
<1> QED BY <1>1, AlwaysPInv, PTL

(* Who is left waiting by a thread that ended: only the caller of a method  *)
(* that raised or was cut off, of one the loop had taken or of one added    *)
(* after +exit invalidated the others (NSThread.m, -invalidate).            *)
THEOREM StrandedWereTaken == SafeSpec => []StrandsTakenOnly
<1>1. PInv => StrandsTakenOnly
  <2> SUFFICES ASSUME PInv, NEW j \in 1 .. calls, Waits(j), thr[job[j].to] = "ended", lock[j] = 0
               PROVE  \/ performed[j] \in {"raised", "dropped"}
                      \/ j \in ToSet(loop[job[j].to])
                      \/ j \in ToSet(performers[job[j].to])
    BY DEF StrandsTakenOnly
  <2> PICK u \in Threads, v \in Threads : u = job[j].to /\ v = job[j].by
    BY JobTypes
  <2>1. pc[v].step = "waiting" /\ pc[v].job = j
    BY DEF Waits
  <2>2. job[j].wait
    BY <2>1 DEF PInv, Caller
  <2>3. stack[u] = <<>>
    BY DEF PInv, Home
  <2>4. Todos(stack[u]) = {} /\ Nows(stack[u]) = {}
    BY <2>3, StackEmpty
  <2>5. j \notin invalidated /\ performed[j] # "done"
    <3>1. Told(j)
      BY JobTypes DEF PInv
    <3> QED BY <2>2, <3>1 DEF Told
  <2>6. ~ Adding(j)
    BY <2>1 DEF Adding
  <2>7. Somewhere(j)
    BY DEF PInv
  <2> QED BY <2>4, <2>5, <2>6, <2>7 DEF Somewhere, Over, Waiting
<1> QED BY <1>1, AlwaysPInv, PTL
--------------------------------------------------------------------------
(* Jobs of one caller, for another thread, keep their order in every queue; *)
(* what is further on the way was called earlier; and a job of its mode     *)
(* that a pass did not find comes later than those it found.                *)
Ahead(x, y) == Alike(x, y) => x < y
Sorted(Q) == \A a, b \in 1 .. Len(Q) : a < b => Ahead(Q[a], Q[b])

Ordered(P, L, S) ==
  /\ Sorted(P) /\ Sorted(L) /\ \A g \in ToSet(S) : Sorted(g.todo)
  /\ \A x \in ToSet(P) :
       /\ \A y \in ToSet(L) : Ahead(y, x)
       /\ \A g \in ToSet(S) : \A y \in ToSet(g.todo) : Ahead(y, x)
  /\ \A x \in ToSet(L) : \A g \in ToSet(S) :
       g.mode \in job[x].modes => \A y \in ToSet(g.todo) : Ahead(y, x)

(* What is being added is the last call of its caller.                      *)
Latest(t) ==
  pc[t].step = "adding" => \A k \in 1 .. calls : job[k].by = t => k <= pc[t].job

OInv ==
  /\ PInv
  /\ \A u \in Threads : Ordered(performers[u], loop[u], stack[u]) /\ Latest(u)
  /\ \A j \in invalidated : thr[job[j].to] = "ended"

LEMMA SortedEmpty == Sorted(<<>>)
BY DEF Sorted

LEMMA SortedAppend ==
  ASSUME NEW Q \in Seq(Jobs), NEW x \in Jobs, Sorted(Q), \A y \in ToSet(Q) : Ahead(y, x)
  PROVE  Sorted(Append(Q, x))
<1> DEFINE r == Append(Q, x)
           n == Len(Q)
<1>1. /\ n \in Nat /\ r[n + 1] = x /\ \A i \in 1 .. n : r[i] = Q[i]
      /\ 1 .. Len(r) = 1 .. n \cup {n + 1}
  BY AppendIs
<1>2. \A i \in 1 .. n : Q[i] \in ToSet(Q)
  BY InSetOf
<1>3. \A a, b \in 1 .. n : a < b => Ahead(Q[a], Q[b])
  BY DEF Sorted
<1> HIDE DEF r, n
<1>4. ASSUME NEW a \in 1 .. Len(r), NEW b \in 1 .. Len(r), a < b
      PROVE  Ahead(r[a], r[b])
  <2>1. a \in 1 .. n
    BY <1>1, <1>4
  <2>2. CASE b \in 1 .. n
    BY <2>1, <2>2, <1>1, <1>3, <1>4
  <2>3. CASE b = n + 1
    BY <2>1, <2>3, <1>1, <1>2
  <2> QED BY <2>2, <2>3, <1>1
<1> QED BY <1>4 DEF Sorted, r

LEMMA SortedConcat ==
  ASSUME NEW p \in Seq(Jobs), NEW q \in Seq(Jobs), Sorted(p), Sorted(q),
         \A x \in ToSet(p) : \A y \in ToSet(q) : Ahead(x, y)
  PROVE  Sorted(p \o q)
<1> DEFINE r == p \o q
           n == Len(p)
           m == Len(q)
<1>1. /\ n \in Nat /\ m \in Nat /\ Len(r) = n + m
      /\ \A i \in 1 .. n : r[i] = p[i]
      /\ \A i \in 1 .. Len(r) : ~ i <= n => i - n \in 1 .. m /\ r[i] = q[i - n]
  OBVIOUS
<1>2. /\ \A i \in 1 .. n : p[i] \in ToSet(p)
      /\ \A i \in 1 .. m : q[i] \in ToSet(q)
  BY InSetOf
<1>3. /\ \A a, b \in 1 .. n : a < b => Ahead(p[a], p[b])
      /\ \A a, b \in 1 .. m : a < b => Ahead(q[a], q[b])
  BY DEF Sorted
<1> HIDE DEF r, n, m
<1>4. ASSUME NEW a \in 1 .. Len(r), NEW b \in 1 .. Len(r), a < b
      PROVE  Ahead(r[a], r[b])
  <2>1. CASE b <= n
    <3>1. a \in 1 .. n /\ b \in 1 .. n
      BY <2>1, <1>1, <1>4
    <3> QED BY <3>1, <1>1, <1>3, <1>4
  <2>2. CASE a <= n /\ ~ b <= n
    <3>1. a \in 1 .. n /\ b - n \in 1 .. m /\ r[b] = q[b - n]
      BY <2>2, <1>1
    <3> QED BY <3>1, <1>1, <1>2
  <2>3. CASE ~ a <= n
    <3>1. /\ a - n \in 1 .. m /\ b - n \in 1 .. m /\ r[a] = q[a - n] /\ r[b] = q[b - n]
          /\ a - n < b - n
      BY <2>3, <1>1, <1>4
    <3> QED BY <3>1, <1>3
  <2> QED BY <2>1, <2>2, <2>3
<1> QED BY <1>4 DEF Sorted, r

LEMMA SortedOnly ==
  ASSUME NEW Q \in Seq(Jobs), Sorted(Q), NEW T
  PROVE  Sorted(Only(Q, T))
<1> DEFINE R == {p \in Jobs \X Jobs : Ahead(p[1], p[2])}
<1>1. \A x, y \in Jobs : <<x, y>> \in R <=> Ahead(x, y)
  OBVIOUS
<1>2. /\ Only(Q, T) \in Seq(Jobs)
      /\ \A i \in 1 .. Len(Q) : Q[i] \in Jobs
      /\ \A i \in 1 .. Len(Only(Q, T)) : Only(Q, T)[i] \in Jobs
  <2>1. Only(Q, T) \in Seq(Jobs)
    BY OnlyKeeps
  <2> HIDE DEF Jobs
  <2> QED BY <2>1
<1> HIDE DEF R
<1>3. \A i, j \in 1 .. Len(Q) : i < j => <<Q[i], Q[j]>> \in R
  BY <1>1, <1>2 DEF Sorted
<1>4. \A i, j \in 1 .. Len(Only(Q, T)) : i < j => <<Only(Q, T)[i], Only(Q, T)[j]>> \in R
  BY <1>3, OnlyKeepsOrder
<1> QED BY <1>1, <1>2, <1>4 DEF Sorted

LEMMA SortedTail ==
  ASSUME NEW Q \in Seq(Jobs), Q # <<>>, Sorted(Q)
  PROVE  Sorted(Tail(Q)) /\ \A y \in ToSet(Tail(Q)) : Ahead(Head(Q), y)
<1>1. /\ Len(Q) \in Nat /\ Head(Q) = Q[1] /\ Tail(Q) \in Seq(Jobs)
      /\ \A i \in 1 .. Len(Tail(Q)) : i + 1 \in 1 .. Len(Q) /\ Tail(Q)[i] = Q[i + 1]
      /\ 1 \in 1 .. Len(Q)
  OBVIOUS
<1>2. \A a, b \in 1 .. Len(Tail(Q)) : a < b => a + 1 < b + 1
  OBVIOUS
<1>3. Sorted(Tail(Q))
  BY <1>1, <1>2 DEF Sorted
<1>4. \A i \in 1 .. Len(Tail(Q)) : 1 < i + 1
  OBVIOUS
<1>5. \A y \in ToSet(Tail(Q)) : \E i \in 1 .. Len(Tail(Q)) : y = Tail(Q)[i]
  <2> PICK r \in Seq(Jobs) : r = Tail(Q)
    BY <1>1
  <2>1. \A y \in ToSet(r) : \E i \in 1 .. Len(r) : r[i] = y
    BY InSetOf
  <2> QED BY <2>1
<1> QED BY <1>1, <1>3, <1>4, <1>5 DEF Sorted

LEMMA FramesSplit ==
  ASSUME NEW S \in Seq(Frames), S # <<>>
  PROVE  \A g : g \in ToSet(S) <=> g \in ToSet(Front(S)) \/ g = Last(S)
<1>1. /\ Front(S) \in Seq(Frames) /\ Len(S) \in Nat /\ Len(Front(S)) = Len(S) - 1
      /\ \A i \in 1 .. Len(Front(S)) : i \in 1 .. Len(S) /\ Front(S)[i] = S[i]
  BY FrontIs
<1>2. /\ Last(S) = S[Len(S)] /\ Len(S) \in 1 .. Len(S)
      /\ 1 .. Len(S) = 1 .. Len(Front(S)) \cup {Len(S)}
  BY <1>1 DEF Last
<1>3. /\ \A g : g \in ToSet(S) <=> \E i \in 1 .. Len(S) : S[i] = g
      /\ \A g : g \in ToSet(Front(S)) <=> \E i \in 1 .. Len(Front(S)) : Front(S)[i] = g
  BY <1>1, InSetOf
<1> QED BY <1>1, <1>2, <1>3

(* The jobs of a thread, one frame after the other.                         *)
LEMMA TodosAreHeld ==
  ASSUME NEW S \in Seq(Frames)
  PROVE  \A x : x \in Todos(S) <=> \E g \in ToSet(S) : x \in ToSet(g.todo)
BY SetsOfStack, InSetOf

(* The order depends only on the calls, which do not change.                *)
LEMMA OrderedKept ==
  ASSUME NEW P, NEW L, NEW S, Ordered(P, L, S), NEW J,
         \A j \in J : job'[j] = job[j],
         \A i \in 1 .. Len(P) : P[i] \in J, \A i \in 1 .. Len(L) : L[i] \in J,
         \A g \in ToSet(S) : \A i \in 1 .. Len(g.todo) : g.todo[i] \in J,
         ToSet(P) \subseteq J, ToSet(L) \subseteq J, \A g \in ToSet(S) : ToSet(g.todo) \subseteq J
  PROVE  Ordered(P, L, S)'
<1>1. \A x, y \in J : Ahead(x, y)' <=> Ahead(x, y)
  BY DEF Ahead, Alike
<1>2. Sorted(P)' /\ Sorted(L)' /\ \A g \in ToSet(S) : Sorted(g.todo)'
  BY <1>1 DEF Sorted, Ordered
<1>3. /\ \A x \in ToSet(P), y \in ToSet(L) : Ahead(y, x)'
      /\ \A x \in ToSet(P) : \A g \in ToSet(S) : \A y \in ToSet(g.todo) : Ahead(y, x)'
  BY <1>1 DEF Ordered
<1>4. \A x \in ToSet(L) : \A g \in ToSet(S) :
        g.mode \in job'[x].modes => \A y \in ToSet(g.todo) : Ahead(y, x)'
  BY <1>1 DEF Ordered
<1> QED BY <1>2, <1>3, <1>4 DEF Ordered

LEMMA OrderedNow ==
  ASSUME NEW u \in Threads, OInv
  PROVE  /\ Ordered(performers[u], loop[u], stack[u])
         /\ performers[u] \in Seq(Jobs) /\ loop[u] \in Seq(Jobs) /\ stack[u] \in Seq(Frames)
         /\ \A g \in ToSet(stack[u]) : g \in Frames /\ g.todo \in Seq(Jobs)
         /\ \A x \in ToSet(performers[u]) : x \in 1 .. calls
         /\ \A x \in ToSet(loop[u]) : x \in 1 .. calls
         /\ \A g \in ToSet(stack[u]) : \A x \in ToSet(g.todo) : x \in 1 .. calls
<1>1. /\ performers[u] \in Seq(Jobs) /\ loop[u] \in Seq(Jobs) /\ stack[u] \in Seq(Frames)
      /\ Home(u)
  BY HomeTypes DEF OInv
<1>2. \A g \in ToSet(stack[u]) : g \in Frames /\ g.todo \in Seq(Jobs)
  <2>1. ToSet(stack[u]) \subseteq Frames
    BY <1>1, InSetOf
  <2>2. \A g \in Frames : g.todo \in Seq(Jobs)
    BY DEF Frames
  <2> QED BY <2>1, <2>2
<1>3. \A x \in Waiting(u) : x \in 1 .. calls
  BY <1>1 DEF Home
<1>4. \A g \in ToSet(stack[u]) : \A x \in ToSet(g.todo) : x \in Waiting(u)
  BY <1>1, TodosAreHeld DEF Waiting
<1> QED BY <1>1, <1>2, <1>3, <1>4 DEF OInv, Waiting

(* A step of one thread that adds no call.                                  *)
LEMMA OrderStays ==
  ASSUME NEW t \in Threads, OInv, PInv', UNCHANGED <<calls, job, pc>>,
         \A u \in Threads : u # t =>
           performers'[u] = performers[u] /\ loop'[u] = loop[u] /\ stack'[u] = stack[u],
         NEW P, NEW L, NEW S, performers'[t] = P, loop'[t] = L, stack'[t] = S,
         Ordered(P, L, S), \A j \in invalidated' : thr'[job[j].to] = "ended"
  PROVE  OInv'
<1>1. \A p, l, s : Ordered(p, l, s)' <=> Ordered(p, l, s)
  BY DEF Ordered, Sorted, Ahead, Alike
<1>2. ASSUME NEW u \in Threads PROVE Ordered(performers[u], loop[u], stack[u])'
  <2> PICK p, l, s : p = performers'[u] /\ l = loop'[u] /\ s = stack'[u]
    OBVIOUS
  <2>1. Ordered(p, l, s)
    <3>1. CASE u = t
      BY <3>1
    <3>2. CASE u # t
      BY <3>2 DEF OInv
    <3> QED BY <3>1, <3>2
  <2>2. Ordered(p, l, s)'
    BY <1>1, <2>1
  <2> QED BY <2>2
<1>3. \A u \in Threads : Latest(u)'
  BY DEF OInv, Latest
<1> QED BY <1>2, <1>3 DEF OInv

(* One that adds a call leaves the order of the others.                     *)
LEMMA OrderOfOthers ==
  ASSUME NEW u \in Threads, OInv, \A j \in 1 .. calls : job'[j] = job[j],
         performers'[u] = performers[u], loop'[u] = loop[u], stack'[u] = stack[u]
  PROVE  Ordered(performers[u], loop[u], stack[u])'
<1> PICK P, L, S : P = performers[u] /\ L = loop[u] /\ S = stack[u]
  OBVIOUS
<1>1. /\ Ordered(P, L, S) /\ P \in Seq(Jobs) /\ L \in Seq(Jobs)
      /\ \A g \in ToSet(S) : g.todo \in Seq(Jobs)
      /\ ToSet(P) \subseteq 1 .. calls /\ ToSet(L) \subseteq 1 .. calls
      /\ \A g \in ToSet(S) : ToSet(g.todo) \subseteq 1 .. calls
  BY OrderedNow
<1>2. /\ \A i \in 1 .. Len(P) : P[i] \in 1 .. calls
      /\ \A i \in 1 .. Len(L) : L[i] \in 1 .. calls
      /\ \A g \in ToSet(S) : \A i \in 1 .. Len(g.todo) : g.todo[i] \in 1 .. calls
  BY <1>1, InSetOf
<1> PICK J : J = 1 .. calls
  OBVIOUS
<1>3. Ordered(P, L, S)'
  BY <1>1, <1>2, OrderedKept
<1> QED BY <1>3

LEMMA RunModeOrders ==
  ASSUME NEW t \in Threads, NEW m \in Modes, OInv, RunMode(t, m)
  PROVE  OInv'
<1> DEFINE A == InMode(loop[t], m)
           B == NotInMode(loop[t], m)
           f == [mode |-> m, phase |-> "first", known |-> m \in contexts[t],
                 todo |-> A, now |-> NoJob]
<1>0. PInv' /\ PInv
  BY RunModeKeeps DEF OInv
<1>1. /\ loop' = [loop EXCEPT ![t] = B] /\ stack' = [stack EXCEPT ![t] = Append(stack[t], f)]
      /\ f.todo = A /\ f.mode = m
      /\ UNCHANGED <<thr, calls, job, pc, performers, invalidated>>
  BY DEF RunMode, Pushed, jobVars
<1>2. /\ stack'[t] = Append(stack[t], f) /\ loop'[t] = B /\ performers'[t] = performers[t]
      /\ \A u \in Threads : u # t =>
           performers'[u] = performers[u] /\ stack'[u] = stack[u] /\ loop'[u] = loop[u]
  BY <1>0, <1>1 DEF PInv, TypeOK
<1>3. /\ Ordered(performers[t], loop[t], stack[t]) /\ loop[t] \in Seq(Jobs)
      /\ stack[t] \in Seq(Frames) /\ \A x \in ToSet(loop[t]) : x \in 1 .. calls
      /\ IsInjective(loop[t])
  BY <1>0, OrderedNow, HomeTypes DEF Apart
<1>4. /\ Sorted(A) /\ Sorted(B) /\ \A x : x \in ToSet(A) => x \in ToSet(loop[t])
      /\ \A x \in ToSet(B) : x \in ToSet(loop[t]) /\ m \notin job[x].modes /\ A \in Seq(Jobs)
  <2>1. Sorted(loop[t])
    BY <1>3 DEF Ordered
  <2>2. Sorted(A) /\ Sorted(B)
    BY <1>3, <2>1, SortedOnly DEF InMode, NotInMode
  <2> DEFINE T == {j \in 1 .. calls : m \notin job[j].modes}
  <2>3. ToSet(B) = ToSet(loop[t]) \cap T
    <3> HIDE DEF T
    <3>1. ToSet(Only(loop[t], T)) = ToSet(loop[t]) \cap T
      BY <1>3, OnlyKeeps
    <3> QED BY <3>1 DEF NotInMode, T
  <2>4. \A x : x \in ToSet(A) => x \in ToSet(loop[t])
    BY <1>3, ModesSplit, <1>0
  <2>5. A \in Seq(Jobs)
    BY <1>3, ModesSplit, <1>0
  <2> QED BY <2>2, <2>3, <2>4, <2>5
<1>5. f \in Frames
  <2> HIDE DEF A
  <2>1. A \in Seq(Jobs)
    BY <1>3, ModesSplit, <1>0 DEF A
  <2> QED BY <2>1 DEF Frames
<1> HIDE DEF A, B, f
<1> PICK R : R = Append(stack[t], f)
  OBVIOUS
<1>6. \A g : g \in ToSet(R) <=> g \in ToSet(stack[t]) \/ g = f
  BY <1>3, <1>5, SetOfAppend
<1>7. Ordered(performers[t], B, R)
  <2>1. \A g \in ToSet(R) : Sorted(g.todo)
    BY <1>1, <1>3, <1>4, <1>6 DEF Ordered
  <2>2. ASSUME NEW x \in ToSet(performers[t])
        PROVE  /\ \A y \in ToSet(B) : Ahead(y, x)
               /\ \A g \in ToSet(R) : \A y \in ToSet(g.todo) : Ahead(y, x)
    BY <1>1, <1>3, <1>4, <1>6 DEF Ordered
  <2>3. ASSUME NEW x \in ToSet(B), NEW g \in ToSet(R), g.mode \in job[x].modes
        PROVE  \A y \in ToSet(g.todo) : Ahead(y, x)
    <3>1. g # f
      BY <2>3, <1>1, <1>4
    <3> QED BY <2>3, <3>1, <1>3, <1>4, <1>6 DEF Ordered
  <2> QED BY <2>1, <2>2, <2>3, <1>3, <1>4 DEF Ordered
<1> PICK P, L : P = performers[t] /\ L = B
  OBVIOUS
<1>8. Ordered(P, L, R)
  BY <1>7
<1>9. performers'[t] = P /\ loop'[t] = L /\ stack'[t] = R
  BY <1>2
<1>10. \A j \in invalidated' : thr'[job[j].to] = "ended"
  BY <1>1 DEF OInv
<1>11. UNCHANGED <<calls, job, pc>>
  BY <1>1
<1> QED BY <1>0, <1>2, <1>8, <1>9, <1>10, <1>11, OrderStays

(* With fewer jobs in the passes, the order stays.                          *)
LEMMA OrderedLess ==
  ASSUME NEW P, NEW L, NEW S, NEW R, Ordered(P, L, S),
         \A g \in ToSet(R) :
           /\ Sorted(g.todo)
           /\ \A y \in ToSet(g.todo) : \E h \in ToSet(S) : g.mode = h.mode /\ y \in ToSet(h.todo)
  PROVE  Ordered(P, L, R)
<1>1. Sorted(P) /\ Sorted(L) /\ \A x \in ToSet(P) : \A y \in ToSet(L) : Ahead(y, x)
  BY DEF Ordered
<1>2. ASSUME NEW x \in ToSet(P), NEW g \in ToSet(R), NEW y \in ToSet(g.todo) PROVE Ahead(y, x)
  <2> PICK h \in ToSet(S) : g.mode = h.mode /\ y \in ToSet(h.todo)
    OBVIOUS
  <2> QED BY DEF Ordered
<1>3. ASSUME NEW x \in ToSet(L), NEW g \in ToSet(R), g.mode \in job[x].modes,
             NEW y \in ToSet(g.todo)
      PROVE  Ahead(y, x)
  <2> PICK h \in ToSet(S) : g.mode = h.mode /\ y \in ToSet(h.todo)
    OBVIOUS
  <2> QED BY <1>3 DEF Ordered
<1> QED BY <1>1, <1>2, <1>3 DEF Ordered

LEMMA EndPassOrders ==
  ASSUME NEW t \in Threads, OInv, EndPass(t)
  PROVE  OInv'
<1>0. PInv' /\ PInv
  BY EndPassKeeps DEF OInv
<1> PICK P, L, S, R : /\ P = performers[t] /\ L = loop[t] /\ S = stack[t] /\ R = Front(S)
  OBVIOUS
<1>1. /\ stack' = [stack EXCEPT ![t] = R] /\ S # <<>> /\ S \in Seq(Frames) /\ Ordered(P, L, S)
      /\ UNCHANGED <<thr, calls, job, pc, performers, loop, invalidated>>
  BY OrderedNow DEF EndPass, InPass, Popped, loopVars, jobVars
<1>2. \A g \in ToSet(R) : g \in ToSet(S) /\ Sorted(g.todo)
  BY <1>1, FramesSplit DEF Ordered
<1>3. Ordered(P, L, R)
  BY <1>1, <1>2, OrderedLess
<1>4. /\ performers'[t] = P /\ loop'[t] = L /\ stack'[t] = R
      /\ \A u \in Threads : u # t =>
           performers'[u] = performers[u] /\ stack'[u] = stack[u] /\ loop'[u] = loop[u]
  BY <1>0, <1>1 DEF PInv, TypeOK
<1>5. \A j \in invalidated' : thr'[job[j].to] = "ended"
  BY <1>1 DEF OInv
<1>6. UNCHANGED <<calls, job, pc>>
  BY <1>1
<1> QED BY <1>0, <1>3, <1>4, <1>5, <1>6, OrderStays

LEMMA BeginOrders ==
  ASSUME NEW t \in Threads, OInv, Begin(t)
  PROVE  OInv'
<1> DEFINE A == Last(stack[t]).todo
           f == [Top(t) EXCEPT !.now = Head(A), !.todo = Tail(A)]
<1>0. PInv' /\ PInv
  BY BeginKeeps DEF OInv
<1> PICK P, L, S, R :
      P = performers[t] /\ L = loop[t] /\ S = stack[t] /\ R = Append(Front(S), f)
  OBVIOUS
<1>1. /\ stack' = [stack EXCEPT ![t] = R] /\ S # <<>> /\ S \in Seq(Frames) /\ Ordered(P, L, S)
      /\ A # <<>> /\ Top(t) = Last(S)
      /\ UNCHANGED <<thr, calls, job, pc, performers, loop, invalidated>>
  BY OrderedNow DEF Begin, InPass, WithTop, Top, loopVars
<1>2. /\ Last(S) \in Frames /\ Front(S) \in Seq(Frames)
      /\ \A g : g \in ToSet(S) <=> g \in ToSet(Front(S)) \/ g = Last(S)
  <2>1. StackApart(S)
    BY <1>0, HomeTypes
  <2> QED BY <1>1, <2>1, StackPop, FramesSplit
<1>3. A \in Seq(Jobs) /\ Tail(A) \in Seq(Jobs) /\ Head(A) \in Jobs
      /\ \A x \in ToSet(Tail(A)) : x \in ToSet(A)
  <2>1. A \in Seq(Jobs)
    BY <1>2 DEF Frames
  <2> HIDE DEF A
  <2> QED BY <2>1, <1>1, SetOfTail
<1>4. Sorted(Tail(A))
  <2>1. Sorted(A)
    BY <1>1, <1>2 DEF Ordered
  <2> HIDE DEF A
  <2> QED BY <2>1, <1>1, <1>3, SortedTail
<1>5. f \in Frames /\ f.todo = Tail(A) /\ f.mode = Last(S).mode
  BY <1>1, <1>2, <1>3 DEF Frames
<1>6. \A g : g \in ToSet(R) => g \in ToSet(Front(S)) \/ g = f
  <2> HIDE DEF f
  <2> QED BY <1>2, <1>5, SetOfAppend
<1>7. ASSUME NEW g \in ToSet(R)
      PROVE  /\ Sorted(g.todo)
             /\ \A y \in ToSet(g.todo) : \E h \in ToSet(S) : g.mode = h.mode /\ y \in ToSet(h.todo)
  <2>1. CASE g \in ToSet(Front(S))
    BY <2>1, <1>1, <1>2 DEF Ordered
  <2>2. CASE g = f
    <3> PICK h \in ToSet(S) : h = Last(S)
      BY <1>2
    <3> HIDE DEF f
    <3>1. g.todo = Tail(A) /\ g.mode = h.mode /\ h.todo = A
      BY <2>2, <1>5
    <3> QED BY <3>1, <1>3, <1>4
  <2> QED BY <2>1, <2>2, <1>6
<1>8. Ordered(P, L, R)
  BY <1>1, <1>7, OrderedLess
<1>9. /\ performers'[t] = P /\ loop'[t] = L /\ stack'[t] = R
      /\ \A u \in Threads : u # t =>
           performers'[u] = performers[u] /\ stack'[u] = stack[u] /\ loop'[u] = loop[u]
  BY <1>0, <1>1 DEF PInv, TypeOK
<1>10. \A j \in invalidated' : thr'[job[j].to] = "ended"
  BY <1>1 DEF OInv
<1>11. UNCHANGED <<calls, job, pc>>
  BY <1>1
<1> QED BY <1>0, <1>8, <1>9, <1>10, <1>11, OrderStays

LEMMA MethodOrders ==
  ASSUME NEW t \in Threads, OInv, PInv', Performing(t), AfterMethod(t),
         UNCHANGED <<thr, calls, job, pc, loopVars, invalidated>>
  PROVE  OInv'
<1> DEFINE f == [Last(stack[t]) EXCEPT !.now = NoJob]
<1>0. PInv' /\ PInv
  BY DEF OInv
<1> PICK P, L, S, R :
      /\ P = performers[t] /\ L = loop[t] /\ S = stack[t]
      /\ R = IF Last(S).mode = NoMode THEN Front(S) ELSE Append(Front(S), f)
  OBVIOUS
<1>1. /\ stack' = [stack EXCEPT ![t] = R] /\ S # <<>> /\ S \in Seq(Frames) /\ Ordered(P, L, S)
      /\ performers' = performers /\ loop' = loop
  BY OrderedNow DEF Performing, AfterMethod, WithTop, Popped, Top, loopVars
<1>2. /\ Last(S) \in Frames /\ Front(S) \in Seq(Frames)
      /\ \A g : g \in ToSet(S) <=> g \in ToSet(Front(S)) \/ g = Last(S)
  <2>1. StackApart(S)
    BY <1>0, HomeTypes
  <2> QED BY <1>1, <2>1, StackPop, FramesSplit
<1>3. f \in Frames /\ f.todo = Last(S).todo /\ f.mode = Last(S).mode
  BY <1>2 DEF Frames
<1> HIDE DEF f
<1>4. \A g : g \in ToSet(R) => g \in ToSet(Front(S)) \/ g = f
  BY <1>2, <1>3, SetOfAppend
<1>5. ASSUME NEW g \in ToSet(R)
      PROVE  /\ Sorted(g.todo)
             /\ \A y \in ToSet(g.todo) : \E h \in ToSet(S) : g.mode = h.mode /\ y \in ToSet(h.todo)
  <2> PICK h \in ToSet(S) : g.mode = h.mode /\ g.todo = h.todo
    BY <1>2, <1>3, <1>4
  <2> QED BY <1>1 DEF Ordered
<1>6. Ordered(P, L, R)
  BY <1>1, <1>5, OrderedLess
<1>7. /\ performers'[t] = P /\ loop'[t] = L /\ stack'[t] = R
      /\ \A u \in Threads : u # t =>
           performers'[u] = performers[u] /\ stack'[u] = stack[u] /\ loop'[u] = loop[u]
  BY <1>0, <1>1 DEF PInv, TypeOK
<1>8. \A j \in invalidated' : thr'[job[j].to] = "ended"
  BY DEF OInv
<1>9. UNCHANGED <<calls, job, pc>>
  OBVIOUS
<1> QED BY <1>0, <1>6, <1>7, <1>8, <1>9, OrderStays

LEMMA ExitOrders ==
  ASSUME NEW t \in Threads, OInv, Exit(t)
  PROVE  OInv'
<1>0. PInv' /\ PInv
  BY ExitKeeps DEF OInv
<1> PICK P, L, S, R : P = performers[t] /\ L = loop[t] /\ S = stack[t] /\ R = <<>>
  OBVIOUS
<1>1. /\ stack' = [stack EXCEPT ![t] = R] /\ Ordered(P, L, S)
      /\ thr[t] = "active" /\ thr' = [thr EXCEPT ![t] = "ending"]
      /\ UNCHANGED <<calls, job, pc, performers, loop, invalidated>>
  BY OrderedNow DEF Exit, Free, loopVars
<1>2. \A g : g \notin ToSet(R)
  BY SetOfEmpty
<1>3. Ordered(P, L, R)
  BY <1>1, <1>2, OrderedLess
<1>4. /\ performers'[t] = P /\ loop'[t] = L /\ stack'[t] = R
      /\ \A u \in Threads : u # t =>
           performers'[u] = performers[u] /\ stack'[u] = stack[u] /\ loop'[u] = loop[u]
  BY <1>0, <1>1 DEF PInv, TypeOK
<1>5. ASSUME NEW j \in invalidated' PROVE thr'[job[j].to] = "ended"
  <2>1. thr[job[j].to] = "ended"
    BY <1>1 DEF OInv
  <2> QED BY <2>1, <1>0, <1>1 DEF PInv, TypeOK
<1>6. UNCHANGED <<calls, job, pc>>
  BY <1>1
<1> QED BY <1>0, <1>3, <1>4, <1>5, <1>6, OrderStays

LEMMA InvalidateOrders ==
  ASSUME NEW t \in Threads, OInv, Invalidate(t)
  PROVE  OInv'
<1>0. PInv' /\ PInv
  BY InvalidateKeeps DEF OInv
<1> PICK P, L, S : P = <<>> /\ L = loop[t] /\ S = stack[t]
  OBVIOUS
<1>1. /\ performers' = [performers EXCEPT ![t] = P] /\ Ordered(performers[t], L, S)
      /\ thr' = [thr EXCEPT ![t] = "ended"]
      /\ invalidated' = invalidated \cup ToSet(performers[t])
      /\ UNCHANGED <<calls, job, pc, stack, loop>>
  BY OrderedNow DEF Invalidate, Refused
<1>2. Ordered(P, L, S)
  BY <1>1, SetOfEmpty, SortedEmpty DEF Ordered
<1>3. /\ performers'[t] = P /\ loop'[t] = L /\ stack'[t] = S
      /\ \A u \in Threads : u # t =>
           performers'[u] = performers[u] /\ stack'[u] = stack[u] /\ loop'[u] = loop[u]
  BY <1>0, <1>1 DEF PInv, TypeOK
<1>4. ASSUME NEW j \in invalidated' PROVE thr'[job[j].to] = "ended"
  <2>1. CASE j \in invalidated
    <3>1. thr[job[j].to] = "ended"
      BY <2>1 DEF OInv
    <3> QED BY <3>1, <1>0, <1>1 DEF PInv, TypeOK
  <2>2. CASE j \in ToSet(performers[t])
    <3>1. job[j].to = t
      BY <2>2, <1>0 DEF PInv, Home, Waiting
    <3> QED BY <3>1, <1>0, <1>1 DEF PInv, TypeOK
  <2> QED BY <2>1, <2>2, <1>1
<1>5. UNCHANGED <<calls, job, pc>>
  BY <1>1
<1> QED BY <1>0, <1>2, <1>3, <1>4, <1>5, OrderStays

LEMMA PollOrders ==
  ASSUME NEW t \in Threads, OInv, Poll(t)
  PROVE  OInv'
<1> DEFINE F == IF signal[t] /\ performers[t] # <<>> THEN performers[t] ELSE <<>>
           D == SubSeq(performers[t], Len(F) + 1, Len(performers[t]))
           Q == loop[t] \o F
           m == Top(t).mode
           B == IF Top(t).known THEN NotInMode(Q, m) ELSE Q
           A == IF Top(t).known THEN InMode(Q, m) ELSE <<>>
           f == [Top(t) EXCEPT !.phase = "last", !.todo = A]
<1>0. PInv' /\ PInv
  BY PollKeeps DEF OInv
<1> PICK P, L, S : P = performers[t] /\ L = loop[t] /\ S = stack[t]
  OBVIOUS
<1>1. /\ stack' = [stack EXCEPT ![t] = Append(Front(S), f)]
      /\ performers' = [performers EXCEPT ![t] = D] /\ loop' = [loop EXCEPT ![t] = B]
      /\ Top(t) = Last(S) /\ S # <<>>
      /\ UNCHANGED <<thr, calls, job, pc, invalidated>>
  BY DEF Poll, InPass, WithTop, Top, Fired, jobVars
<1>2. /\ Ordered(P, L, S) /\ P \in Seq(Jobs) /\ L \in Seq(Jobs) /\ S \in Seq(Frames)
      /\ \A x \in ToSet(P) : x \in 1 .. calls
      /\ \A x \in ToSet(L) : x \in 1 .. calls
      /\ Sorted(P) /\ Sorted(L) /\ Apart(P, L, S)
  <2>1. Apart(P, L, S)
    BY <1>0, HomeTypes
  <2> QED BY <2>1, OrderedNow DEF Ordered
<1>3. /\ F \in Seq(Jobs) /\ Sorted(F) /\ Sorted(D) /\ IsInjective(F)
      /\ \A x \in ToSet(D) : x \in ToSet(P) /\ \A y : y \notin ToSet(F)
      /\ \A x \in ToSet(F) : x \in ToSet(P)
  <2>1. F \in {P, <<>>}
    BY DEF F
  <2>2. F \in Seq(Jobs)
    BY <2>1, <1>2, FiredLeave
  <2>3. (F = P /\ D = <<>>) \/ (F = <<>> /\ D = P)
    BY <2>1, <1>2, FiredLeave
  <2> HIDE DEF F, D
  <2> QED BY <2>2, <2>3, <1>2, SetOfEmpty, SortedEmpty DEF Apart
<1> HIDE DEF F, D
<1>4. /\ Q \in Seq(Jobs) /\ Sorted(Q) /\ IsInjective(Q)
      /\ \A x : x \in ToSet(Q) <=> x \in ToSet(L) \/ x \in ToSet(F)
  <2>1. \A x \in ToSet(L) : \A y \in ToSet(F) : Ahead(x, y)
    BY <1>2, <1>3 DEF Ordered
  <2>2. ToSet(L) \cap ToSet(F) = {} /\ IsInjective(L)
    BY <1>2, <1>3 DEF Apart
  <2> QED BY <2>1, <2>2, <1>2, <1>3, SetOfConcat, SortedConcat
<1>5. \A x \in ToSet(Q) : x \in 1 .. calls
  BY <1>2, <1>3, <1>4
<1> HIDE DEF Q
<1>6. /\ Sorted(A) /\ Sorted(B) /\ A \in Seq(Jobs)
      /\ \A x \in ToSet(A) : x \in ToSet(Q)
      /\ \A x \in ToSet(B) : x \in ToSet(Q) /\ (m \in job[x].modes => \A y : y \notin ToSet(A))
  <2>1. CASE Top(t).known
    <3> DEFINE T == {j \in 1 .. calls : m \notin job[j].modes}
    <3>1. A = InMode(Q, m) /\ B = NotInMode(Q, m)
      BY <2>1
    <3>2. Sorted(A) /\ Sorted(B)
      BY <3>1, <1>4, SortedOnly DEF InMode, NotInMode
    <3>3. A \in Seq(Jobs) /\ \A x \in ToSet(A) : x \in ToSet(Q)
      BY <3>1, <1>4, <1>5, ModesSplit
    <3>4. ToSet(B) = ToSet(Q) \cap T
      <4> HIDE DEF T
      <4>1. ToSet(Only(Q, T)) = ToSet(Q) \cap T
        BY <1>4, OnlyKeeps
      <4> QED BY <4>1, <3>1 DEF NotInMode, T
    <3> QED BY <3>2, <3>3, <3>4
  <2>2. CASE ~ Top(t).known
    <3>1. A = <<>> /\ B = Q /\ <<>> \in Seq(Jobs)
      BY <2>2
    <3> QED BY <3>1, <1>4, SortedEmpty, SetOfEmpty
  <2> QED BY <2>1, <2>2
<1> HIDE DEF A, B
<1>7. /\ Last(S) \in Frames /\ Front(S) \in Seq(Frames)
      /\ \A g : g \in ToSet(S) <=> g \in ToSet(Front(S)) \/ g = Last(S)
  BY <1>1, <1>2, StackPop, FramesSplit DEF Apart
<1>8. f \in Frames /\ f.todo = A /\ f.mode = m
  BY <1>1, <1>6, <1>7 DEF Frames
<1> HIDE DEF f, m
<1> PICK p, l, R : p = D /\ l = B /\ R = Append(Front(S), f)
  OBVIOUS
<1>9. \A g : g \in ToSet(R) <=> g \in ToSet(Front(S)) \/ g = f
  BY <1>7, <1>8, SetOfAppend
<1>10. Ordered(p, l, R)
  <2>1. Sorted(p) /\ Sorted(l) /\ \A g \in ToSet(R) : Sorted(g.todo)
    BY <1>2, <1>3, <1>6, <1>7, <1>8, <1>9 DEF Ordered
  <2>2. ASSUME NEW x \in ToSet(p)
        PROVE  /\ \A y \in ToSet(l) : Ahead(y, x)
               /\ \A g \in ToSet(R) : \A y \in ToSet(g.todo) : Ahead(y, x)
    <3>1. x \in ToSet(P) /\ \A y \in ToSet(Q) : y \in ToSet(L)
      BY <2>2, <1>3, <1>4
    <3>2. \A y \in ToSet(L) : Ahead(y, x)
      BY <3>1, <1>2 DEF Ordered
    <3>3. \A y \in ToSet(l) : Ahead(y, x)
      BY <3>1, <3>2, <1>6
    <3>4. ASSUME NEW g \in ToSet(R), NEW y \in ToSet(g.todo) PROVE Ahead(y, x)
      <4>1. CASE g = f
        BY <4>1, <3>1, <3>2, <1>6, <1>8
      <4>2. CASE g \in ToSet(Front(S))
        BY <4>2, <3>1, <1>2, <1>7 DEF Ordered
      <4> QED BY <4>1, <4>2, <1>9
    <3> QED BY <3>3, <3>4
  <2>3. ASSUME NEW x \in ToSet(l), NEW g \in ToSet(R), g.mode \in job[x].modes,
               NEW y \in ToSet(g.todo)
        PROVE  Ahead(y, x)
    <3>1. x \in ToSet(Q)
      BY <1>6
    <3>2. CASE g = f
      BY <2>3, <3>2, <1>6, <1>8
    <3>3. CASE g \in ToSet(Front(S))
      <4>1. g \in ToSet(S)
        BY <3>3, <1>7
      <4>2. CASE x \in ToSet(L)
        BY <2>3, <4>1, <4>2, <1>2 DEF Ordered
      <4>3. CASE x \in ToSet(F)
        BY <4>1, <4>3, <1>2, <1>3 DEF Ordered
      <4> QED BY <3>1, <4>2, <4>3, <1>4
    <3> QED BY <3>2, <3>3, <1>9
  <2> QED BY <2>1, <2>2, <2>3 DEF Ordered
<1>11. /\ performers'[t] = p /\ loop'[t] = l /\ stack'[t] = R
       /\ \A u \in Threads : u # t =>
            performers'[u] = performers[u] /\ stack'[u] = stack[u] /\ loop'[u] = loop[u]
  BY <1>0, <1>1 DEF PInv, TypeOK
<1>12. \A j \in invalidated' : thr'[job[j].to] = "ended"
  BY <1>1 DEF OInv
<1>13. UNCHANGED <<calls, job, pc>>
  BY <1>1
<1> QED BY <1>0, <1>10, <1>11, <1>12, <1>13, OrderStays

--------------------------------------------------------------------------
(* Calls that are made, and threads that start and are answered.            *)
LEMMA LatestStays ==
  ASSUME NEW v \in Threads, OInv, NEW n, pc'[v] = pc[v],
         \A j : j \in 1 .. calls' <=> j \in 1 .. calls \/ j = n,
         \A j \in 1 .. calls : job'[j] = job[j],
         pc[v].step = "adding" => job'[n].by # v
  PROVE  Latest(v)'
<1>1. Latest(v)
  BY DEF OInv
<1> QED BY <1>1 DEF Latest

LEMMA EndedStay ==
  ASSUME OInv, UNCHANGED <<thr, invalidated>>, \A j \in 1 .. calls : job'[j] = job[j]
  PROVE  \A j \in invalidated' : thr'[job'[j].to] = "ended"
<1>1. \A j \in invalidated : j \in 1 .. calls
  BY DEF OInv, PInv, TypeOK, Told
<1> QED BY <1>1 DEF OInv

LEMMA PerformAtOnceOrders ==
  ASSUME NEW t \in Threads, NEW c \in Call, OInv, Free(t), c.to = t, c.by = t,
         PerformHere(t, c), c.wait \/ t \notin hasLoop
  PROVE  OInv'
<1> PICK n : n = calls + 1
  OBVIOUS
<1> DEFINE f == [mode |-> NoMode, phase |-> "last", known |-> FALSE, todo |-> <<>>, now |-> n]
<1>0. PInv' /\ PInv
  BY PerformAtOnceKeeps DEF OInv
<1> PICK P, L, S, R : P = performers[t] /\ L = loop[t] /\ S = stack[t] /\ R = Append(S, f)
  OBVIOUS
<1>1. /\ NewCall(c) /\ stack' = [stack EXCEPT ![t] = R]
      /\ UNCHANGED <<thr, pc, performers, loop, invalidated>>
  BY DEF PerformHere, Pushed
<1>2. /\ n \in Jobs /\ calls' = n /\ job'[n] = c
      /\ \A j : j \in 1 .. calls' <=> j \in 1 .. calls \/ j = n
      /\ \A j \in 1 .. calls : job'[j] = job[j]
  BY <1>0, <1>1, NewCallIs
<1>3. f \in Frames /\ f.todo = <<>>
  <2>1. <<>> \in Seq(Jobs)
    OBVIOUS
  <2> QED BY <2>1, <1>2 DEF Frames
<1> HIDE DEF f
<1>4. /\ Ordered(P, L, S) /\ P \in Seq(Jobs) /\ L \in Seq(Jobs) /\ S \in Seq(Frames)
      /\ \A g \in ToSet(S) : g.todo \in Seq(Jobs)
      /\ ToSet(P) \subseteq 1 .. calls /\ ToSet(L) \subseteq 1 .. calls
      /\ \A g \in ToSet(S) : ToSet(g.todo) \subseteq 1 .. calls
  BY OrderedNow
<1>5. \A g : g \in ToSet(R) <=> g \in ToSet(S) \/ g = f
  BY <1>3, <1>4, SetOfAppend
<1>6. ASSUME NEW g \in ToSet(R)
      PROVE  /\ Sorted(g.todo)
             /\ \A y \in ToSet(g.todo) : \E h \in ToSet(S) : g.mode = h.mode /\ y \in ToSet(h.todo)
  <2>1. CASE g \in ToSet(S)
    BY <2>1, <1>4 DEF Ordered
  <2>2. CASE g = f
    BY <2>2, <1>3, SetOfEmpty, SortedEmpty
  <2> QED BY <2>1, <2>2, <1>5
<1>7. Ordered(P, L, R)
  <2>1. Ordered(P, L, S)
    BY <1>4
  <2> QED BY <2>1, <1>6, OrderedLess
<1>8. /\ \A g \in ToSet(R) : ToSet(g.todo) \subseteq 1 .. calls
      /\ \A i \in 1 .. Len(P) : P[i] \in 1 .. calls
      /\ \A i \in 1 .. Len(L) : L[i] \in 1 .. calls
      /\ \A g \in ToSet(R) : \A i \in 1 .. Len(g.todo) : g.todo[i] \in 1 .. calls
  <2>1. <<>> \in Seq(Jobs)
    OBVIOUS
  <2>2. \A g \in ToSet(R) : g.todo \in Seq(Jobs) /\ ToSet(g.todo) \subseteq 1 .. calls
    BY <2>1, <1>3, <1>4, <1>5, SetOfEmpty
  <2> QED BY <2>2, <1>4, InSetOf
<1> PICK J : J = 1 .. calls
  OBVIOUS
<1>9. Ordered(P, L, R)'
  BY <1>2, <1>4, <1>7, <1>8, OrderedKept
<1>10. /\ performers'[t] = P /\ loop'[t] = L /\ stack'[t] = R
       /\ \A u \in Threads : u # t =>
            performers'[u] = performers[u] /\ stack'[u] = stack[u] /\ loop'[u] = loop[u]
  BY <1>0, <1>1 DEF PInv, TypeOK
<1>11. ASSUME NEW u \in Threads PROVE Ordered(performers[u], loop[u], stack[u])'
  <2>1. CASE u = t
    BY <2>1, <1>9, <1>10
  <2>2. CASE u # t
    BY <2>2, <1>2, <1>10, OrderOfOthers
  <2> QED BY <2>1, <2>2
<1>12. ASSUME NEW v \in Threads PROVE Latest(v)'
  <2>1. pc'[v] = pc[v] /\ (pc[v].step = "adding" => job'[n].by # v)
    BY <1>1, <1>2 DEF Free
  <2> QED BY <2>1, <1>2, LatestStays
<1>13. \A j \in invalidated' : thr'[job'[j].to] = "ended"
  BY <1>1, <1>2, EndedStay
<1> QED BY <1>0, <1>11, <1>12, <1>13 DEF OInv

LEMMA PerformLaterOrders ==
  ASSUME NEW t \in Threads, NEW c \in Call, OInv, Free(t), c.to = t, c.by = t,
         PerformHere(t, c), ~ (c.wait \/ t \notin hasLoop)
  PROVE  OInv'
<1> PICK n : n = calls + 1
  OBVIOUS
<1>0. PInv' /\ PInv
  BY PerformLaterKeeps DEF OInv
<1> PICK P, L, S, r : P = performers[t] /\ L = loop[t] /\ S = stack[t] /\ r = Append(L, n)
  OBVIOUS
<1>1. /\ NewCall(c) /\ loop' = [loop EXCEPT ![t] = r]
      /\ UNCHANGED <<thr, pc, performers, stack, invalidated>>
  BY DEF PerformHere
<1>2. /\ n \in Jobs /\ calls' = n /\ job'[n] = c
      /\ \A j : j \in 1 .. calls' <=> j \in 1 .. calls \/ j = n
      /\ \A j \in 1 .. calls : job'[j] = job[j]
  BY <1>0, <1>1, NewCallIs
<1>3. /\ Ordered(P, L, S) /\ P \in Seq(Jobs) /\ L \in Seq(Jobs)
      /\ \A g \in ToSet(S) : g.todo \in Seq(Jobs)
      /\ ToSet(P) \subseteq 1 .. calls /\ ToSet(L) \subseteq 1 .. calls
      /\ \A g \in ToSet(S) : ToSet(g.todo) \subseteq 1 .. calls
  BY OrderedNow
<1>4. /\ \A i \in 1 .. Len(P) : P[i] \in 1 .. calls
      /\ \A i \in 1 .. Len(L) : L[i] \in 1 .. calls
      /\ \A g \in ToSet(S) : \A i \in 1 .. Len(g.todo) : g.todo[i] \in 1 .. calls
  <2>1. \A q \in Seq(Jobs) : \A i \in 1 .. Len(q) : q[i] \in ToSet(q)
    BY InSetOf
  <2> QED BY <2>1, <1>3
<1> PICK J : J = 1 .. calls
  OBVIOUS
<1>5. Ordered(P, L, S)'
  BY <1>2, <1>3, <1>4, OrderedKept
<1>6. \A x : Ahead(x, n)' /\ Ahead(n, x)'
  BY <1>2 DEF Ahead, Alike
<1>7. \A x : x \in ToSet(r) <=> x \in ToSet(L) \/ x = n
  BY <1>2, <1>3, SetOfAppend
<1>8. Sorted(r)'
  <2>1. /\ Len(L) \in Nat /\ r[Len(L) + 1] = n /\ \A i \in 1 .. Len(L) : r[i] = L[i]
        /\ 1 .. Len(r) = 1 .. Len(L) \cup {Len(L) + 1}
    BY <1>2, <1>3, AppendIs
  <2>2. \A a, b \in 1 .. Len(L) : a < b => Ahead(L[a], L[b])'
    BY <1>5 DEF Ordered, Sorted
  <2>3. \A a, b \in 1 .. Len(r) : a < b => Ahead(r[a], r[b])'
    BY <2>1, <2>2, <1>6
  <2> QED BY <2>3 DEF Sorted
<1>9. Ordered(P, r, S)'
  BY <1>5, <1>6, <1>7, <1>8 DEF Ordered
<1>10. /\ performers'[t] = P /\ loop'[t] = r /\ stack'[t] = S
       /\ \A u \in Threads : u # t =>
            performers'[u] = performers[u] /\ stack'[u] = stack[u] /\ loop'[u] = loop[u]
  BY <1>0, <1>1 DEF PInv, TypeOK
<1>11. ASSUME NEW u \in Threads PROVE Ordered(performers[u], loop[u], stack[u])'
  <2>1. CASE u = t
    BY <2>1, <1>9, <1>10
  <2>2. CASE u # t
    BY <2>2, <1>2, <1>10, OrderOfOthers
  <2> QED BY <2>1, <2>2
<1>12. ASSUME NEW v \in Threads PROVE Latest(v)'
  <2>1. pc'[v] = pc[v] /\ (pc[v].step = "adding" => job'[n].by # v)
    BY <1>1, <1>2 DEF Free
  <2> QED BY <2>1, <1>2, LatestStays
<1>13. \A j \in invalidated' : thr'[job'[j].to] = "ended"
  BY <1>1, <1>2, EndedStay
<1> QED BY <1>0, <1>11, <1>12, <1>13 DEF OInv

LEMMA PerformThereOrders ==
  ASSUME NEW t \in Threads, NEW c \in Call, OInv, Free(t), c.by = t, PerformThere(t, c)
  PROVE  OInv'
<1> PICK n : n = calls + 1
  OBVIOUS
<1>0. PInv' /\ PInv
  BY PerformThereKeeps DEF OInv
<1>1. /\ NewCall(c) /\ pc' = [pc EXCEPT ![t] = [step |-> "adding", job |-> n]]
      /\ UNCHANGED <<thr, performers, loop, stack, invalidated>>
  BY DEF PerformThere, Doing, loopVars, jobVars
<1>2. /\ n \in Jobs /\ calls' = n /\ job'[n] = c
      /\ \A j : j \in 1 .. calls' <=> j \in 1 .. calls \/ j = n
      /\ \A j \in 1 .. calls : job'[j] = job[j]
  BY <1>0, <1>1, NewCallIs
<1>3. ASSUME NEW u \in Threads PROVE Ordered(performers[u], loop[u], stack[u])'
  BY <1>1, <1>2, OrderOfOthers
<1>4. ASSUME NEW v \in Threads PROVE Latest(v)'
  <2>1. CASE v = t
    <3>1. pc'[v].job = n
      BY <2>1, <1>0, <1>1 DEF PInv, TypeOK
    <3>2. \A k \in 1 .. calls' : k <= n
      BY <1>2 DEF Jobs
    <3> QED BY <3>1, <3>2 DEF Latest
  <2>2. CASE v # t
    <3>1. pc'[v] = pc[v] /\ job'[n].by # v
      BY <2>2, <1>0, <1>1, <1>2 DEF PInv, TypeOK
    <3> QED BY <3>1, <1>2, LatestStays
  <2> QED BY <2>1, <2>2
<1>5. \A j \in invalidated' : thr'[job'[j].to] = "ended"
  BY <1>1, <1>2, EndedStay
<1> QED BY <1>0, <1>3, <1>4, <1>5 DEF OInv

LEMMA AddPerformerOrders ==
  ASSUME NEW t \in Threads, OInv, AddPerformer(t)
  PROVE  OInv'
<1>0. PInv' /\ PInv
  BY AddPerformerKeeps DEF OInv
<1>j. PICK j : j = pc[t].job
  OBVIOUS
<1>1. /\ j \in 1 .. calls /\ job[j].by = t /\ j \notin Waiting(job[j].to)
      /\ \A k \in 1 .. calls : job[k].by = t => k <= j
  <2>1. Latest(t) /\ Caller(t) /\ pc[t].step = "adding"
    BY DEF OInv, PInv, AddPerformer
  <2> QED BY <2>1, <1>j DEF Caller, Latest
<1>u. PICK u \in Threads : u = job[j].to
  BY <1>0, <1>1, JobTypes
<1>p. PICK P, L, S, r : /\ P = performers[u] /\ L = loop[u] /\ S = stack[u] /\ r = Append(P, j)
  OBVIOUS
<1>2. /\ performers' = [performers EXCEPT ![u] = r]
      /\ pc'[t].step # "adding" /\ \A v \in Threads : v # t => pc'[v] = pc[v]
      /\ UNCHANGED <<thr, calls, job, loop, stack, invalidated>>
  BY <1>j, <1>u, <1>p, <1>0 DEF AddPerformer, Queue, Doing, jobVars, PInv, TypeOK
<1>3. /\ Ordered(P, L, S) /\ P \in Seq(Jobs) /\ j \in Jobs
      /\ \A x \in ToSet(P) : x \in 1 .. calls /\ x # j
      /\ \A x \in ToSet(L) : x \in 1 .. calls /\ x # j
      /\ \A g \in ToSet(S) : \A x \in ToSet(g.todo) : x \in 1 .. calls /\ x # j
  <2>1. stack[u] \in Seq(Frames) /\ j \in Jobs
    BY <1>0, <1>1, OrderedNow, JobTypes
  <2>2. j \notin ToSet(P) /\ j \notin ToSet(L) /\ j \notin Todos(S)
    BY <1>u, <1>p, <1>1 DEF Waiting
  <2>3. \A g \in ToSet(S) : j \notin ToSet(g.todo)
    BY <1>p, <2>1, <2>2, TodosAreHeld
  <2> QED BY <1>p, <2>1, <2>2, <2>3, OrderedNow
<1>4. \A x \in 1 .. calls : x # j => Ahead(x, j)
  <2>1. \A x \in 1 .. calls : x # j /\ x <= j => x < j
    BY <1>1
  <2> QED BY <2>1, <1>1 DEF Ahead, Alike
<1>5. \A x : x \in ToSet(r) <=> x \in ToSet(P) \/ x = j
  <2>1. r = Append(P, j)
    BY <1>p
  <2> QED BY <2>1, <1>3, SetOfAppend
<1>6. Sorted(r)
  <2>1. r = Append(P, j) /\ Sorted(P)
    BY <1>p, <1>3 DEF Ordered
  <2> QED BY <2>1, <1>3, <1>4, SortedAppend
<1>7. Ordered(r, L, S)
  BY <1>3, <1>4, <1>5, <1>6 DEF Ordered
<1>8. Ordered(r, L, S)'
  <2>1. job' = job
    BY <1>2
  <2>2. \A p, l, s : Ordered(p, l, s)' <=> Ordered(p, l, s)
    BY <2>1 DEF Ordered, Sorted, Ahead, Alike
  <2> QED BY <2>2, <1>7
<1>9. ASSUME NEW v \in Threads PROVE Ordered(performers[v], loop[v], stack[v])'
  <2>1. CASE v = u
    <3>1. performers'[v] = r /\ loop'[v] = L /\ stack'[v] = S
      BY <2>1, <1>p, <1>0, <1>2 DEF PInv, TypeOK
    <3> QED BY <3>1, <1>8
  <2>2. CASE v # u
    <3>1. performers'[v] = performers[v] /\ loop'[v] = loop[v] /\ stack'[v] = stack[v]
      BY <2>2, <1>0, <1>2 DEF PInv, TypeOK
    <3>2. \A k \in 1 .. calls : job'[k] = job[k]
      BY <1>2
    <3> QED BY <3>1, <3>2, OrderOfOthers
  <2> QED BY <2>1, <2>2
<1>10. ASSUME NEW v \in Threads PROVE Latest(v)'
  <2>1. Latest(v)
    BY DEF OInv
  <2>2. CASE v = t
    BY <2>2, <1>2 DEF Latest
  <2>3. CASE v # t
    BY <2>1, <2>3, <1>2 DEF Latest
  <2> QED BY <2>2, <2>3
<1>11. \A k \in invalidated' : thr'[job'[k].to] = "ended"
  BY <1>2, EndedStay
<1> QED BY <1>0, <1>9, <1>10, <1>11 DEF OInv

(* Steps that leave the queues.                                             *)
LEMMA QuietOrders ==
  ASSUME NEW t \in Threads, OInv, Start(t) \/ Answered(t)
  PROVE  OInv'
<1>0. PInv' /\ PInv
  BY StartKeeps, AnsweredKeeps DEF OInv
<1>1. /\ UNCHANGED <<calls, job, performers, loop, stack, invalidated>>
      /\ \A v \in Threads : pc'[v].step = "adding" => pc'[v] = pc[v]
      /\ \A u \in Threads : thr[u] = "ended" => thr'[u] = "ended"
  BY <1>0 DEF Start, Answered, Doing, loopVars, jobVars, PInv, TypeOK
<1>2. ASSUME NEW u \in Threads PROVE Ordered(performers[u], loop[u], stack[u])'
  BY <1>1, OrderOfOthers
<1>3. ASSUME NEW v \in Threads PROVE Latest(v)'
  <2>1. Latest(v)
    BY DEF OInv
  <2> QED BY <2>1, <1>1 DEF Latest
<1>4. ASSUME NEW j \in invalidated' PROVE thr'[job'[j].to] = "ended"
  <2>1. thr[job[j].to] = "ended" /\ j \in 1 .. calls
    BY <1>1 DEF OInv, PInv, TypeOK, Told
  <2>2. job[j].to \in Threads
    BY <1>0, <2>1, JobTypes
  <2> QED BY <2>1, <2>2, <1>1
<1> QED BY <1>0, <1>2, <1>3, <1>4 DEF OInv

--------------------------------------------------------------------------
LEMMA StartsInOrder == Init => OInv
<1> SUFFICES ASSUME Init PROVE OInv
  OBVIOUS
<1>1. PInv
  BY StartsRight
<1>2. \A u \in Threads : performers[u] = <<>> /\ loop[u] = <<>> /\ stack[u] = <<>>
  BY DEF Init
<1>3. Ordered(<<>>, <<>>, <<>>)
  BY SortedEmpty, SetOfEmpty DEF Ordered
<1>4. \A u \in Threads : Latest(u)
  BY DEF Init, Latest
<1>5. invalidated = {}
  BY DEF Init
<1> QED BY <1>1, <1>2, <1>3, <1>4, <1>5 DEF OInv

LEMMA StepsKeepOrder == OInv /\ [Next]_vars => OInv'
<1> SUFFICES ASSUME OInv, [Next]_vars PROVE OInv'
  OBVIOUS
<1>0. PInv /\ PInv'
  BY StepsKeep DEF OInv
<1>1. CASE UNCHANGED vars
  <2>1. UNCHANGED <<thr, calls, job, pc, performers, loop, stack, invalidated>>
    BY <1>1 DEF vars, loopVars, jobVars
  <2>2. \A u \in Threads : Ordered(performers[u], loop[u], stack[u])'
    BY <2>1, OrderOfOthers
  <2>3. \A u \in Threads : Latest(u)'
    BY <2>1 DEF OInv, Latest
  <2>4. \A j \in invalidated' : thr'[job'[j].to] = "ended"
    BY <2>1 DEF OInv
  <2> QED BY <1>0, <2>2, <2>3, <2>4 DEF OInv
<1>2. ASSUME NEW t \in Threads, Perform(t) PROVE OInv'
  <2> PICK c \in Call : Free(t) /\ c.by = t /\ (PerformHere(t, c) \/ PerformThere(t, c))
    BY <1>2 DEF Perform
  <2>1. CASE PerformHere(t, c)
    <3>1. c.to = t
      BY <2>1 DEF PerformHere
    <3> QED BY <2>1, <3>1, PerformAtOnceOrders, PerformLaterOrders
  <2>2. CASE PerformThere(t, c)
    BY <2>2, PerformThereOrders
  <2> QED BY <2>1, <2>2
<1>3. ASSUME NEW t \in Threads, Step(t) PROVE OInv'
  BY <1>3, AddPerformerOrders, QuietOrders, BeginOrders, PollOrders, EndPassOrders,
     InvalidateOrders DEF Step
<1>4. ASSUME NEW t \in Threads, NEW m \in Modes, RunMode(t, m) PROVE OInv'
  BY <1>4, RunModeOrders
<1>5. ASSUME NEW t \in Threads, Return(t) \/ Raise(t) PROVE OInv'
  <2>1. PInv' /\ Performing(t) /\ AfterMethod(t)
        /\ UNCHANGED <<thr, calls, job, pc, loopVars, invalidated>>
    BY <1>0, <1>5 DEF Return, Raise
  <2> QED BY <2>1, MethodOrders
<1> QED BY <1>1, <1>2, <1>3, <1>4, <1>5, QuietOrders, ExitOrders DEF Next

(* A job in a pass is on top, or held by a pass below.                      *)
LEMMA TopOrHeld ==
  ASSUME NEW t \in Threads, PInv, NEW x \in Todos(stack[t])
  PROVE  stack[t] # <<>> /\ (x \in ToSet(Top(t).todo) \/ Held(t, x))
<1> PICK S \in Seq(Frames) : S = stack[t]
  BY HomeTypes
<1> PICK i \in 1 .. Len(S) : x \in ToSet(S[i].todo)
  BY SetsOfStack
<1>1. Len(S) \in Nat /\ S # <<>> /\ Top(t) = S[Len(S)]
  BY DEF Top, Last
<1>2. i = Len(S) \/ i \in 1 .. Len(S) - 1
  BY <1>1
<1> QED BY <1>1, <1>2 DEF Held

(* A pass begins the jobs of a caller in the order of its calls.            *)
LEMMA BeginsInOrder ==
  ASSUME NEW t \in Threads, OInv, Begin(t), NEW i \in 1 .. calls, NEW j \in 1 .. calls,
         i < j, Beginning(j), Alike(i, j), Top(job[j].to).mode \in job[i].modes
  PROVE  performed[i] # "no" \/ Held(job[i].to, i)
<1> PICK A : A = Last(stack[t]).todo
  OBVIOUS
<1>0. PInv /\ \A k \in 1 .. calls : k \in Jobs
  BY JobTypes DEF OInv
<1>1. /\ stack[t] # <<>> /\ A # <<>> /\ Top(t) = Last(stack[t])
      /\ performed' = [performed EXCEPT ![Head(A)] = "begun"]
  BY DEF Begin, InPass, Top
<1>2. j = Head(A)
  BY <1>0, <1>1 DEF Beginning, PInv, TypeOK
<1>3. /\ stack[t] \in Seq(Frames) /\ Home(t) /\ Ordered(performers[t], loop[t], stack[t])
      /\ Last(stack[t]) \in Frames /\ Last(stack[t]) \in ToSet(stack[t])
  <2>1. stack[t] \in Seq(Frames) /\ Home(t) /\ StackApart(stack[t])
    BY <1>0, HomeTypes
  <2> QED BY <1>1, <2>1, OrderedNow, StackPop, FramesSplit
<1>4. A \in Seq(Jobs) /\ Sorted(A) /\ j \in ToSet(A)
      /\ \A y \in ToSet(A) : y = j \/ Ahead(j, y)
  <2>1. A \in Seq(Jobs) /\ Sorted(A)
    BY <1>3 DEF Frames, Ordered
  <2>2. \A y : y \in ToSet(A) <=> y \in ToSet(Tail(A)) \/ y = Head(A)
    BY <2>1, <1>1, SetOfTail
  <2>3. \A y \in ToSet(Tail(A)) : Ahead(Head(A), y)
    BY <2>1, <1>1, SortedTail
  <2> QED BY <2>1, <2>2, <2>3, <1>2
<1>5. job[j].to = t
  <2>1. j \in Todos(stack[t])
    BY <1>3, <1>4, TodosAreHeld
  <2> QED BY <2>1, <1>3 DEF Home, Waiting
<1>6. job[i].to = t /\ Top(t).mode \in job[i].modes /\ ~ Ahead(j, i) /\ i # j
  <2>1. ~ j < i /\ i # j
    OBVIOUS
  <2>2. Alike(j, i)
    BY DEF Alike
  <2> QED BY <1>5, <2>1, <2>2 DEF Ahead, Alike
<1> SUFFICES ASSUME performed[i] = "no" PROVE Held(t, i)
  BY <1>6
<1>7. ~ Adding(i)
  <2> PICK v \in Threads : v = job[i].by
    BY <1>0, JobTypes
  <2>1. Latest(v) /\ job[j].by = v
    BY DEF OInv, Alike
  <2> QED BY <2>1 DEF Latest, Adding
<1>8. i \notin invalidated
  <2>1. i \in invalidated => thr[t] = "ended"
    BY <1>6 DEF OInv
  <2> QED BY <2>1, <1>1, <1>3 DEF Home
<1>9. i \notin Nows(stack[t])
  BY <1>3 DEF Home
<1>10. i \in Waiting(t)
  <2>1. Somewhere(i) /\ ~ Over(i)
    BY <1>0, <1>8 DEF PInv, Over
  <2> QED BY <2>1, <1>6, <1>7, <1>9 DEF Somewhere
<1>11. i \notin ToSet(performers[t]) /\ i \notin ToSet(loop[t])
  BY <1>1, <1>3, <1>4, <1>6 DEF Ordered
<1>12. i \in Todos(stack[t])
  BY <1>10, <1>11 DEF Waiting
<1>13. i \notin ToSet(A)
  BY <1>4, <1>6
<1> QED BY <1>0, <1>1, <1>12, <1>13, TopOrHeld

(* Of the jobs of one caller for one other thread, the one asked for first  *)
(* is begun first, when it could be begun at all: it has the mode of the    *)
(* pass and no outer pass holds it (GSRunLoopThreadInfo -fire and           *)
(* GSPerformHolder of NSThread.m, -_checkPerformers: of NSRunLoop.m).       *)
THEOREM OrderIsKept == SafeSpec => OrderKept
<1> DEFINE InOrder == \A j \in 1 .. calls : \A i \in 1 .. j - 1 :
             Beginning(j) /\ Alike(i, j) /\ Top(job[j].to).mode \in job[i].modes
               => performed[i] # "no" \/ Held(job[i].to, i)
<1>1. OInv /\ [Next]_vars => [InOrder]_vars
  <2> SUFFICES ASSUME OInv, Next, NEW j \in 1 .. calls, NEW i \in 1 .. j - 1,
                      Beginning(j), Alike(i, j), Top(job[j].to).mode \in job[i].modes
               PROVE  performed[i] # "no" \/ Held(job[i].to, i)
    OBVIOUS
  <2>0. /\ PInv /\ j \in Jobs /\ i \in 1 .. calls /\ i < j /\ calls \in Nat
        /\ performed[j] = "no" /\ performed'[j] = "begun"
    BY JobTypes DEF OInv, Beginning
  <2>1. PICK t \in Threads : \/ Start(t) \/ Perform(t) \/ Step(t)
                             \/ \E m \in Modes : RunMode(t, m)
                             \/ Return(t) \/ Raise(t) \/ Exit(t)
    BY DEF Next
  <2>2. CASE Begin(t)
    BY <2>0, <2>2, BeginsInOrder
  <2>3. ~ (Start(t) \/ AddPerformer(t) \/ Answered(t) \/ Poll(t) \/ EndPass(t) \/ Invalidate(t))
    BY <2>0 DEF Start, AddPerformer, Answered, Poll, EndPass, Invalidate, jobVars
  <2>4. ~ \E m \in Modes : RunMode(t, m)
    BY <2>0 DEF RunMode, jobVars
  <2>5. ~ (Return(t) \/ Raise(t))
    BY <2>0 DEF Return, Raise, PInv, TypeOK
  <2>6. ~ Exit(t)
    BY <2>0 DEF Exit
  <2>7. ~ Perform(t)
    <3>1. calls + 1 # j
      BY <2>0
    <3>2. \A c \in Call : ~ PerformHere(t, c) /\ ~ PerformThere(t, c)
      BY <2>0, <3>1 DEF PerformHere, PerformThere, jobVars, PInv, TypeOK
    <3> QED BY <3>2 DEF Perform
  <2> QED BY <2>1, <2>2, <2>3, <2>4, <2>5, <2>6, <2>7 DEF Step
<1>2. SafeSpec => []OInv
  BY StartsInOrder, StepsKeepOrder, PTL DEF SafeSpec
<1>3. SafeSpec => [][InOrder]_vars
  BY <1>1, <1>2, PTL DEF SafeSpec
<1> QED BY <1>3 DEF OrderKept
=============================================================================
