------------------------- MODULE KeyValueObserving -------------------------
(***************************************************************************)
(* Source/NSKeyValueObserving.m as threads see it: who observes which key  *)
(* of an object, the depth of the changes in progress, the lock of the     *)
(* module and the lock of each object's observation information.           *)
(*                                                                         *)
(* A thread is in the middle of calls: stack[t] has what it has still to   *)
(* do, the innermost call first.  A call that takes a lock is replaced by  *)
(* its body and the release of the lock, so that a thread holds the locks  *)
(* whose release is on its stack.  The module that extends this one says   *)
(* what an observer does when it is told (reaction) and adds its own steps.*)
(***************************************************************************)
EXTENDS Integers, Sequences, SequencesExt, FiniteSets

CONSTANTS
  Threads,
  Objects,     \* what is observed
  Keys,        \* its keys
  Observers    \* who observes

VARIABLES
  info,        \* infoTable: the information of each object, 0 for none
  observers,   \* the observations of each key of the information in use
  recursion,   \* the changes in progress that it has counted
  changing,    \* history: the changes between their will and their did
  late,        \* history: observations that began in the middle of a change
  stack        \* what each thread has to do

MaxInfos == Cardinality(Threads) + 1

kvoVars == <<info, observers, recursion, changing, late>>

KvoTypeOK ==
  /\ info \in [Objects -> 0 .. MaxInfos]
  /\ observers \in [Objects \X Keys -> Seq(Observers)]
  /\ recursion \in [Objects \X Keys -> Nat]
  /\ changing \subseteq Threads \X Objects \X Keys
  /\ late \subseteq Objects \X Keys \X Observers
  /\ DOMAIN stack = Threads

KvoInit ==
  /\ info = [o \in Objects |-> 0]
  /\ observers = [p \in Objects \X Keys |-> <<>>]
  /\ recursion = [p \in Objects \X Keys |-> 0]
  /\ changing = {} /\ late = {}
  /\ stack = [t \in Threads |-> <<>>]

--------------------------------------------------------------------------
(* Steps, and the stack.                                                    *)
Do(what, args) == [do |-> what, args |-> args]
With(lock, body) == [do |-> "lock", lock |-> lock, body |-> body]
Release(lock) == [do |-> "unlock", lock |-> lock]

Kvo == <<"kvoLock">>
InfoLock(o, g) == <<"iLock", o, g>>

Busy(t) == stack[t] # <<>>
At(t, what) == Busy(t) /\ Head(stack[t]).do = what
Args(t) == Head(stack[t]).args

\* What it waits for, when somebody has it.
Wants(t) == CASE At(t, "lock") -> Head(stack[t]).lock
              [] At(t, "will") \/ At(t, "did") -> Kvo
              [] OTHER -> <<>>

Holds(t, lock) == Contains(stack[t], Release(lock))
FreeFor(t, lock) == \A u \in Threads \ {t} : ~ Holds(u, lock)

(* A release waits for nobody, so it goes with the step before it.          *)
IsRelease(step) == step.do = "unlock"
Settled(steps) ==
  LET kept == {i \in 1 .. Len(steps) : ~ IsRelease(steps[i])} IN
  IF kept = {} THEN <<>>
  ELSE SubSeq(steps, CHOOSE i \in kept : \A j \in kept : i <= j, Len(steps))

Become(t, steps) == [stack EXCEPT ![t] = Settled(steps \o Tail(@))]

Lock(t) ==
  /\ At(t, "lock")
  /\ LET top == Head(stack[t]) IN
     /\ FreeFor(t, top.lock)
     /\ stack' = Become(t, Append(top.body, Release(top.lock)))
  /\ UNCHANGED kvoVars

--------------------------------------------------------------------------
(* addObserver:forKeyPath:options:context: and removeObserver:forKeyPath:,  *)
(* to the object and then to its information.  Nothing else changes what is *)
(* observed, and both have kvoLock, so that the three times a removal takes *)
(* the information's lock are one.                                          *)
AddObserver(o, k, x) == With(Kvo, <<Do("add", <<o, k, x>>)>>)
RemoveObserver(o, k, x) == With(Kvo, <<Do("remove", <<o, k, x>>)>>)

(* An information that was given up lives on while a thread is about to use *)
(* it, so that a new one is another.                                        *)
InUse(o, g) ==
  \E u \in Threads :
    Busy(u) /\ (Holds(u, InfoLock(o, g)) \/ Wants(u) = InfoLock(o, g))
NewInfo(o) == CHOOSE g \in 1 .. MaxInfos :
                ~ InUse(o, g) /\ \A h \in 1 .. g - 1 : InUse(o, h)

FindInfo(t) ==
  /\ At(t, "add")
  /\ LET o == Args(t)[1]
         g == IF info[o] = 0 THEN NewInfo(o) ELSE info[o]
     IN /\ info' = [info EXCEPT ![o] = g]
        /\ stack' = Become(t, <<With(InfoLock(o, g), <<Do("register", Args(t))>>)>>)
  /\ UNCHANGED <<observers, recursion, changing, late>>

Changing(o, k) == \E u \in Threads : <<u, o, k>> \in changing

Register(t) ==
  /\ At(t, "register")
  /\ LET p == <<Args(t)[1], Args(t)[2]>>
         x == Args(t)[3]
     IN /\ observers' = [observers EXCEPT ![p] =
                           IF Contains(@, x) THEN @ ELSE Append(@, x)]
        /\ late' = IF Changing(p[1], p[2]) THEN late \cup {Args(t)} ELSE late
  /\ stack' = Become(t, <<>>)
  /\ UNCHANGED <<info, recursion, changing>>

ForgetInfo(t) ==
  /\ At(t, "remove")
  /\ LET o == Args(t)[1] IN
     stack' = Become(t, IF info[o] = 0 THEN <<>>
                        ELSE <<With(InfoLock(o, info[o]),
                                    <<Do("unregister", Args(t))>>)>>)
  /\ UNCHANGED kvoVars

Unobserved(o, obs) == \A k \in Keys : obs[<<o, k>>] = <<>>

(* The last observation of a key takes the key's count with it, and the     *)
(* last of an object its information.                                       *)
Unregister(t) ==
  /\ At(t, "unregister")
  /\ LET o == Args(t)[1]
         p == <<o, Args(t)[2]>>
         x == Args(t)[3]
     IN /\ observers' = [observers EXCEPT ![p] = SelectSeq(@, LAMBDA y : y # x)]
        /\ recursion' = IF observers'[p] = <<>> THEN [recursion EXCEPT ![p] = 0]
                                                ELSE recursion
        /\ info' = IF Unobserved(o, observers') THEN [info EXCEPT ![o] = 0]
                                                ELSE info
        /\ late' = late \ {Args(t)}
  /\ stack' = Become(t, <<>>)
  /\ UNCHANGED <<changing>>

--------------------------------------------------------------------------
(* willChangeValueForKey: and didChangeValueForKey:.  Each looks up the     *)
(* information, which may be another's, or nobody's, when its lock has been *)
(* obtained; without an observation of the key neither counts.              *)
Will(o, k) == Do("will", <<o, k>>)
Did(o, k) == Do("did", <<o, k>>)

ThenLocked(t, what) ==
  LET o == Args(t)[1] IN
  IF info[o] = 0 THEN <<>>
  ELSE <<With(InfoLock(o, info[o]), <<Do(what, Append(Args(t), info[o]))>>)>>

Begun(t) == changing \cup {<<t, Args(t)[1], Args(t)[2]>>}
Ended(t) == changing \ {<<t, Args(t)[1], Args(t)[2]>>}

WillChange(t) ==
  /\ At(t, "will")
  /\ FreeFor(t, Kvo)
  /\ changing' = Begun(t)
  /\ stack' = Become(t, ThenLocked(t, "begin"))
  /\ UNCHANGED <<info, observers, recursion, late>>

DidChange(t) ==
  /\ At(t, "did")
  /\ FreeFor(t, Kvo)
  /\ changing' = IF info[Args(t)[1]] = 0 THEN Ended(t) ELSE changing
  /\ stack' = Become(t, ThenLocked(t, "end"))
  /\ UNCHANGED <<info, observers, recursion, late>>

Observed(o, k, g) == g = info[o] /\ observers[<<o, k>>] # <<>>

CountChange(t) ==
  /\ At(t, "begin")
  /\ LET o == Args(t)[1]
         k == Args(t)[2]
     IN recursion' = IF Observed(o, k, Args(t)[3])
                     THEN [recursion EXCEPT ![<<o, k>>] = @ + 1] ELSE recursion
  /\ stack' = Become(t, <<>>)
  /\ UNCHANGED <<info, observers, changing, late>>

(* Only the end of the outermost change tells anybody.                      *)
Tells(o, k) == recursion[<<o, k>>] = 1

EndChange(t) ==
  /\ At(t, "end")
  /\ LET o == Args(t)[1]
         k == Args(t)[2]
     IN stack' = Become(t, IF Observed(o, k, Args(t)[3]) /\ Tells(o, k)
                    THEN <<Do("notify", <<o, k, Len(observers[<<o, k>>])>>),
                           Do("uncount", <<o, k>>)>>
                    ELSE IF Observed(o, k, Args(t)[3])
                         THEN <<Do("uncount", <<o, k>>)>>
                         ELSE <<>>)
  /\ changing' = Ended(t)
  /\ UNCHANGED <<info, observers, recursion, late>>

Uncount(t) ==
  /\ At(t, "uncount")
  /\ LET p == Args(t) IN
     recursion' = [recursion EXCEPT ![p] = IF @ > 0 THEN @ - 1 ELSE 0]
  /\ stack' = Become(t, <<>>)
  /\ UNCHANGED <<info, observers, changing, late>>

(* notifyForKey:ofInstance:prior:, from the last observation to the first,  *)
(* with the information locked.  reaction[x, k, o] is what x does then.     *)
Notify(t, reaction) ==
  /\ At(t, "notify")
  /\ LET o == Args(t)[1]
         k == Args(t)[2]
         n == Args(t)[3]
     IN stack' = Become(t,
          IF n = 0 THEN <<>>
          ELSE reaction[observers[<<o, k>>][n], k, o]
                 \o <<Do("notify", <<o, k, n - 1>>)>>)
  /\ UNCHANGED kvoVars

KvoStep(t, reaction) ==
  \/ Lock(t)
  \/ FindInfo(t) \/ Register(t) \/ ForgetInfo(t) \/ Unregister(t)
  \/ WillChange(t) \/ CountChange(t)
  \/ DidChange(t) \/ EndChange(t) \/ Uncount(t)
  \/ Notify(t, reaction)

--------------------------------------------------------------------------
(* Waiting.                                                                 *)
WaitsFor(t, u) == t # u /\ Wants(t) # <<>> /\ Holds(u, Wants(t))

(* A set of threads each of which waits for another of them.                *)
Stuck(T) == T # {} /\ \A t \in T : \E u \in T : WaitsFor(t, u)
============================================================================
