----------------------------- MODULE NSRunLoop -----------------------------
(***************************************************************************)
(* NSRunLoop.m and unix/GSRunLoopCtxt.m: the run loop of a thread, with    *)
(* timers, performers, watchers of descriptors and the notification queues *)
(* of NSNotificationQueue.  Whatever the loop calls - timers, performers,  *)
(* the handlers of watchers, observers - is code of the program, which may *)
(* change all of these and run the loop again, in any mode.                *)
(*                                                                         *)
(* Dates are not numbers: a timer becomes due, the one with the earliest   *)
(* date first.  The housekeeping timer of the main thread, tasks, watchers *)
(* that trigger and performers from other threads are left out.            *)
(***************************************************************************)
EXTENDS NSNotificationQueue

CONSTANTS
  Fds, Timers, Performers,
  Repeating,   \* the timers that repeat
  Order,       \* of each performer
  NoTimer,
  MaxFrames,   \* bound: runs of the loop inside each other
  MaxCalls     \* bound: calls of the program

ASSUME TimersAssumption == Repeating \subseteq Timers /\ NoTimer \notin Timers
ASSUME OrderAssumption == Order \in [Performers -> Nat]
ASSUME LoopBoundsAssumption == MaxFrames \in Nat /\ MaxCalls \in Nat

VARIABLES
  currentMode,
  watchers,      \* in each mode, the descriptors watched
  performers,    \* in each mode, in the order they will be fired
  timers,        \* in each mode
  valid, due,    \* the timers not invalidated, and those whose date has passed
  ready,         \* the descriptors with input
  fdMap,         \* _rfdMap of each mode: whom a poll in progress will call
  completed,     \* of each mode: its poll is over, or an inner run did it
  contextStack,  \* the modes with a poll in progress
  frames,        \* the runs of the loop in progress, the innermost last
  calls          \* how many calls the program has made

tables == <<watchers, performers, timers, valid, due, ready>>
polls == <<fdMap, completed, contextStack>>
notes == <<queued, passes, posted>>
loopVars == <<currentMode, tables, polls, frames>>
vars == <<qvars, loopVars, calls>>

(* A run: its step, the mode to restore, the performers it has yet to fire  *)
(* and the ready descriptors it has yet to look at, the timer it fires and  *)
(* whether its date was set meanwhile, the timers its limit date was made   *)
(* from, whether that has passed, the timers added since, and how many      *)
(* passes were in progress.  user: it has called the program.               *)
Frame == [pc : {"timers", "fired", "update", "limit", "accept", "before", "alone",
                "poll", "asleep", "event", "dispatched", "after", "last", "return"},
          mode : Modes, saved : Modes \cup {NoMode},
          batch : Seq(Performers), left : SUBSET Fds,
          timer : Timers \cup {NoTimer}, moved : BOOLEAN,
          limits : SUBSET Timers, expired : BOOLEAN, late : SUBSET Timers,
          depth : 0 .. MaxPasses, polled : BOOLEAN, user : BOOLEAN]

TypeOK ==
  /\ QTypeOK
  /\ currentMode \in Modes \cup {NoMode}
  /\ watchers \in [Modes -> SUBSET Fds] /\ fdMap \in [Modes -> SUBSET Fds]
  /\ performers \in [Modes -> Seq(Performers)]
  /\ timers \in [Modes -> Seq(Timers)] /\ \A m \in Modes : IsInjective(timers[m])
  /\ valid \subseteq Timers /\ due \subseteq Timers /\ ready \subseteq Fds
  /\ completed \in [Modes -> BOOLEAN] /\ contextStack \subseteq Modes
  /\ frames \in Seq(Frame) /\ Len(frames) <= MaxFrames
  /\ calls \in 0 .. MaxCalls

(* The program has set up the loop, and is about to run it.                 *)
Init ==
  /\ \E q \in Queues : list = <<q>>
  /\ Nothing
  /\ currentMode = NoMode
  /\ watchers \in [Modes -> SUBSET Fds]
  /\ performers \in [Modes -> {<<>>} \cup {<<p>> : p \in Performers}]
  /\ timers \in [Modes -> {<<>>} \cup {<<t>> : t \in Timers}] /\ valid = Timers /\ due = {} /\ ready = {}
  /\ fdMap = [m \in Modes |-> {}] /\ completed = [m \in Modes |-> FALSE]
  /\ contextStack = {} /\ frames = <<>> /\ calls = 0

Top == Last(frames)
At(pc) == /\ Alive /\ frames # <<>>
          /\ Len(passes) = Top.depth
          /\ Top.pc = pc
Becomes(f) == frames' = [frames EXCEPT ![Len(frames)] = f]

(* The program is running: outside of the loop, as an observer, or called.  *)
Program == /\ Alive /\ calls < MaxCalls
           /\ frames # <<>> => Top.user \/ Len(passes) > Top.depth

(* GSPrivateNotifyASAP and GSPrivateNotifyIdle, called by a step.           *)
Notify(style) ==
  IF Places(style, Top.mode, 1) = {}
  THEN UNCHANGED notes
  ELSE Len(passes) < MaxPasses /\ Serve(style, Top.mode, 1, passes, serial)

--------------------------------------------------------------------------
(* runMode:beforeDate:, or acceptInputForMode:beforeDate: by itself.        *)
Enter(m, pc, late) ==
  /\ Program
  /\ Len(frames) < MaxFrames
  /\ frames' = Append(frames,
       [pc |-> pc, mode |-> m, saved |-> currentMode,
        batch |-> <<>>, left |-> {}, timer |-> NoTimer, moved |-> FALSE,
        limits |-> {}, expired |-> FALSE, late |-> late,
        depth |-> Len(passes), polled |-> FALSE, user |-> FALSE])
  /\ currentMode' = m
  /\ UNCHANGED <<qvars, tables, polls>>

RunMode(m) == Enter(m, "timers", {})
AcceptInput(m) == Enter(m, "accept", Timers)

(* limitDateForMode: fires the first timer that is due.                     *)
Removed_stays(m, i) == timers  \* mutant: stays in the array while it fires
Removed(m, i) == [timers EXCEPT ![m] = RemoveAt(@, i)]

FireTimer ==
  /\ At("timers")
  /\ LET m == Top.mode
         fire == {i \in 1 .. Len(timers[m]) : timers[m][i] \in valid \cap due}
     IN IF fire = {}
        THEN Becomes([Top EXCEPT !.pc = "limit"]) /\ UNCHANGED timers
        ELSE LET i == CHOOSE j \in fire : \A k \in fire : j <= k IN
             /\ timers' = Removed(m, i)
             /\ Becomes([Top EXCEPT !.pc = "fired", !.timer = timers[m][i],
                                    !.moved = FALSE, !.user = TRUE])
  /\ UNCHANGED <<qvars, currentMode, watchers, performers, valid, due, ready, polls>>

(* The handler has returned: the end of -[NSTimer fire].                    *)
FiredTimer ==
  /\ At("fired")
  /\ valid' = IF Top.timer \in Repeating THEN valid ELSE valid \ {Top.timer}
  /\ Notify("asap")
  /\ Becomes([Top EXCEPT !.pc = "update", !.user = FALSE])
  /\ UNCHANGED <<list, serial, fate, currentMode, watchers, performers, timers,
                 due, ready, polls>>

(* updateTimer advances the date unless the handler has set it, or an inner *)
(* run that has fired the timer in another mode.                            *)
UpdateTimer ==
  /\ At("update")
  /\ LET t == Top.timer
         next == [Top EXCEPT !.pc = "limit", !.timer = NoTimer, !.moved = FALSE]
         advance == ~ Top.moved
     IN IF t \in valid
        THEN /\ timers' = [timers EXCEPT ![Top.mode] = Append(@, t)]
             /\ due' = IF advance THEN due \ {t} ELSE due
             /\ frames' = [i \in 1 .. Len(frames) |->
                             IF i = Len(frames) THEN next
                             ELSE [frames[i] EXCEPT
                                     !.moved = @ \/ (advance /\ frames[i].timer = t)]]
        ELSE Becomes(next) /\ UNCHANGED <<timers, due>>
  /\ UNCHANGED <<qvars, currentMode, watchers, performers, valid, ready, polls>>

(* The limit date, of the valid timers; without any, and without watchers,  *)
(* the loop is not run.                                                     *)
Limits_future(m) == (ToSet(timers[m]) \cap valid) \ due  \* mutant: not the past
Limits(m) == ToSet(timers[m]) \cap valid

Limit ==
  /\ At("limit")
  /\ LET m == Top.mode IN
     /\ timers' = [timers EXCEPT ![m] = Only(@, valid)]
     /\ IF Limits(m) = {} /\ watchers[m] = {}
        THEN frames' = Front(frames) /\ currentMode' = Top.saved
        ELSE /\ Becomes([Top EXCEPT !.pc = "accept", !.limits = Limits(m),
                                    !.expired = Limits(m) \cap due # {},
                                    !.late = {}])
             /\ UNCHANGED currentMode
  /\ UNCHANGED <<qvars, watchers, performers, valid, due, ready, polls>>

--------------------------------------------------------------------------
(* _checkPerformers: takes the performers out of every mode, then fires     *)
(* them.                                                                    *)
Remaining_others(m) == [performers EXCEPT ![m] = <<>>]  \* mutant: of this mode
Remaining(m) ==
  [n \in Modes |-> Only(performers[n], Performers \ ToSet(performers[m]))]

TakePerformers(from, to) ==
  /\ At(from)
  /\ performers' = Remaining(Top.mode)
  /\ Becomes([Top EXCEPT !.pc = to, !.batch = performers[Top.mode], !.user = FALSE])
  /\ UNCHANGED <<qvars, currentMode, watchers, timers, valid, due, ready, polls>>

Perform(pc) ==
  /\ At(pc)
  /\ Top.batch # <<>>
  /\ Becomes([Top EXCEPT !.batch = Tail(@), !.user = TRUE])
  /\ UNCHANGED <<qvars, currentMode, tables, polls>>

(* With neither watchers nor timers the loop polls nothing.                 *)
Alone(m) == watchers[m] = {} /\ timers[m] = <<>>

NotifyAlone ==
  /\ At("before")
  /\ Top.batch = <<>>
  /\ Alone(Top.mode)
  /\ Notify("asap")
  /\ Becomes([Top EXCEPT !.pc = "alone", !.user = FALSE])
  /\ UNCHANGED <<list, serial, fate, currentMode, tables, polls>>

IdleAlone ==
  /\ At("alone")
  /\ Notify("idle")
  /\ Becomes([Top EXCEPT !.pc = "after"])
  /\ UNCHANGED <<list, serial, fate, currentMode, tables, polls>>

(* pollUntil:within:, up to the poll.                                       *)
Poll ==
  /\ At("before")
  /\ Top.batch = <<>>
  /\ ~ Alone(Top.mode)
  /\ contextStack' = contextStack \cup {Top.mode}
  /\ fdMap' = [fdMap EXCEPT ![Top.mode] = watchers[Top.mode]]
  /\ Becomes([Top EXCEPT !.pc = "poll", !.polled = TRUE, !.user = FALSE])
  /\ UNCHANGED <<qvars, currentMode, tables, completed>>

Input == ready \cap fdMap[Top.mode]

PollReady ==
  /\ At("poll") \/ At("asleep")
  /\ Input # {}
  /\ completed' = [completed EXCEPT ![Top.mode] = FALSE]
  /\ Becomes([Top EXCEPT !.pc = "event", !.left = Input])
  /\ UNCHANGED <<qvars, currentMode, tables, fdMap, contextStack>>

(* A poll waits unless there are idle notifications or its date has passed; *)
(* the date the caller gave may pass at any moment, or never.               *)
Wait ==
  /\ At("poll")
  /\ Input = {} /\ ~ More(Top.mode) /\ ~ Top.expired
  /\ Becomes([Top EXCEPT !.pc = "asleep"])
  /\ UNCHANGED <<qvars, currentMode, tables, polls>>

PollQuiet ==
  /\ At("poll") \/ At("asleep")
  /\ Input = {}
  /\ completed' = [completed EXCEPT ![Top.mode] = TRUE]
  /\ Notify("idle")
  /\ Becomes([Top EXCEPT !.pc = "after"])
  /\ UNCHANGED <<list, serial, fate, currentMode, tables, fdMap, contextStack>>

(* The handler of a ready descriptor is called, if the watcher is still in  *)
(* the map; the outer polls are told that they need not (endEvent:for:).    *)
EndEvent_inner(f) == fdMap  \* mutant: outer polls are not told
EndEvent(f) == [m \in Modes |->
                  IF m \in contextStack \ {Top.mode} /\ ~ completed[m]
                  THEN fdMap[m] \ {f} ELSE fdMap[m]]

Dispatch(f) ==
  /\ At("event")
  /\ ~ completed[Top.mode] /\ f \in Top.left
  /\ LET called == f \in fdMap[Top.mode] IN
     /\ Becomes([Top EXCEPT !.pc = "dispatched", !.left = @ \ {f}, !.user = called])
     /\ fdMap' = IF called THEN EndEvent(f) ELSE fdMap
     /\ ready' \in IF called THEN {ready, ready \ {f}} ELSE {ready}
  /\ UNCHANGED <<qvars, currentMode, watchers, performers, timers, valid, due,
                 completed, contextStack>>

Dispatched ==
  /\ At("dispatched")
  /\ Notify("asap")
  /\ Becomes([Top EXCEPT !.pc = "event", !.user = FALSE])
  /\ UNCHANGED <<list, serial, fate, currentMode, tables, polls>>

(* All descriptors were looked at, or an inner poll has done the job.       *)
EventsDone ==
  /\ At("event")
  /\ completed[Top.mode] \/ Top.left = {}
  /\ completed' = [completed EXCEPT ![Top.mode] = TRUE]
  /\ Becomes([Top EXCEPT !.pc = "after", !.left = {}])
  /\ UNCHANGED <<qvars, currentMode, tables, fdMap, contextStack>>

LastDone ==
  /\ At("last")
  /\ Top.batch = <<>>
  /\ Notify("asap")
  /\ Becomes([Top EXCEPT !.pc = "return", !.user = FALSE])
  /\ UNCHANGED <<list, serial, fate, currentMode, tables, polls>>

Restored_polled ==  \* mutant: the early return forgets the mode
  IF Top.polled THEN Top.saved ELSE currentMode
Restored == Top.saved

End ==
  /\ frames' = Front(frames)
  /\ currentMode' = Restored
  /\ IF Top.polled
     THEN /\ completed' = [completed EXCEPT ![Top.mode] = TRUE]
          /\ contextStack' = contextStack \ {Top.mode}
     ELSE UNCHANGED <<completed, contextStack>>
  /\ UNCHANGED <<qvars, tables, fdMap>>

Return == At("return") /\ End

(* The handler of a descriptor raises: the poll is ended, and the exception *)
(* goes on to whoever ran the loop.  Timers, performers and posting catch   *)
(* what is raised.                                                          *)
Raise == At("dispatched") /\ Top.user /\ End

--------------------------------------------------------------------------
(* What the program calls.                                                  *)
AddWatcher(f, m) ==
  /\ Program
  /\ f \notin watchers[m]
  /\ watchers' = [watchers EXCEPT ![m] = @ \cup {f}]
  /\ UNCHANGED <<qvars, currentMode, performers, timers, valid, due, ready, polls,
                 frames>>

(* The watcher is invalidated: a poll in progress does not call it.         *)
RemoveWatcher(f, m) ==
  /\ Program
  /\ f \in watchers[m]
  /\ watchers' = [watchers EXCEPT ![m] = @ \ {f}]
  /\ fdMap' = [fdMap EXCEPT ![m] = @ \ {f}]
  /\ UNCHANGED <<qvars, currentMode, performers, timers, valid, due, ready,
                 completed, contextStack, frames>>

(* A timer that fires is not added to a mode where it fires.                *)
Firing(t, m) == \E i \in 1 .. Len(frames) :
                  frames[i].timer = t /\ frames[i].mode = m

AddTimer(t, m) ==
  /\ Program
  /\ t \in valid /\ ~ Firing(t, m)
  /\ t \notin ToSet(timers[m])
  /\ timers' = [timers EXCEPT ![m] = Append(@, t)]
  /\ frames' = [i \in 1 .. Len(frames) |-> [frames[i] EXCEPT !.late = @ \cup {t}]]
  /\ UNCHANGED <<qvars, currentMode, watchers, performers, valid, due, ready,
                 polls>>

Invalidate(t) ==
  /\ Program
  /\ t \in valid
  /\ valid' = valid \ {t}
  /\ UNCHANGED <<qvars, currentMode, watchers, performers, timers, due, ready,
                 polls, frames>>

(* Allowed only while the timer fires; the new date may be past or not.     *)
SetFireDate(t) ==
  /\ Program
  /\ t \in Repeating /\ \E m \in Modes : Firing(t, m)
  /\ due' \in {due \cup {t}, due \ {t}}
  /\ frames' = [i \in 1 .. Len(frames) |->
                  [frames[i] EXCEPT !.moved = @ \/ frames[i].timer = t]]
  /\ UNCHANGED <<qvars, currentMode, watchers, performers, timers, valid, ready,
                 polls>>

(* performSelector:target:argument:order:modes:                             *)
Scheduled(p) == \/ \E m \in Modes : p \in ToSet(performers[m])
                \/ \E i \in 1 .. Len(frames) : p \in ToSet(frames[i].batch)
Inserted(p, seq) ==
  Only(seq, {x \in Performers : Order[x] <= Order[p]}) \o <<p>>
    \o Only(seq, {x \in Performers : Order[x] > Order[p]})

PerformSelector(p, modes) ==
  /\ Program
  /\ ~ Scheduled(p)
  /\ performers' = [m \in Modes |-> IF m \in modes THEN Inserted(p, performers[m])
                                    ELSE performers[m]]
  /\ UNCHANGED <<qvars, currentMode, watchers, timers, valid, due, ready, polls,
                 frames>>

CancelPerformSelector(p) ==
  /\ Program
  /\ performers' = [m \in Modes |-> Only(performers[m], Performers \ {p})]
  /\ UNCHANGED <<qvars, currentMode, watchers, timers, valid, due, ready, polls,
                 frames>>

EnqueueNotification(q, n, style, mask, modes) ==
  /\ Program
  /\ Enqueue(q, n, style, mask, modes, currentMode)
  /\ UNCHANGED loopVars

(* An observer returns.                                                     *)
ContinuePass ==
  /\ frames # <<>> /\ Len(passes) > Top.depth
  /\ Continue
  /\ UNCHANGED loopVars

(* What happens around the thread, at the moments at which it can tell.     *)
Tick(t) ==
  /\ At("timers") \/ At("poll") \/ At("asleep")
  /\ t \in valid \ due
  /\ due' = due \cup {t}
  /\ frames' = [i \in 1 .. Len(frames) |->
                  [frames[i] EXCEPT !.expired = @ \/ t \in frames[i].limits]]
  /\ UNCHANGED <<qvars, currentMode, watchers, performers, timers, valid, ready,
                 polls>>

Arrive(f) ==
  /\ At("poll") \/ At("asleep")
  /\ f \notin ready
  /\ ready' = ready \cup {f}
  /\ UNCHANGED <<qvars, currentMode, watchers, performers, timers, valid, due, polls,
                 frames>>

Loop ==
  \/ FireTimer \/ FiredTimer \/ UpdateTimer \/ Limit
  \/ TakePerformers("accept", "before") \/ Perform("before")
  \/ NotifyAlone \/ IdleAlone \/ Poll \/ PollReady \/ Wait \/ PollQuiet
  \/ \E f \in Fds : Dispatch(f)
  \/ Dispatched \/ EventsDone
  \/ TakePerformers("after", "last") \/ Perform("last") \/ LastDone \/ Return \/ Raise
  \/ ContinuePass

Calls ==
  \/ \E m \in Modes : RunMode(m) \/ AcceptInput(m)
  \/ \E m \in Modes, f \in Fds : AddWatcher(f, m) \/ RemoveWatcher(f, m)
  \/ \E t \in Timers : Invalidate(t) \/ SetFireDate(t) \/ \E m \in Modes : AddTimer(t, m)
  \/ \E p \in Performers : \/ CancelPerformSelector(p)
                           \/ \E modes \in ModeChoices : PerformSelector(p, modes)
  \/ \E q \in Queues, n \in Notification, style \in Styles \cup {"now"},
        mask \in MaskChoices, modes \in ModeChoices :
       EnqueueNotification(q, n, style, mask, modes)

Around == (\E t \in Timers : Tick(t)) \/ (\E f \in Fds : Arrive(f))

LoopNext == \/ Calls /\ calls' = calls + 1
            \/ (Loop \/ Around) /\ UNCHANGED calls

LoopSpec == Init /\ [][LoopNext]_vars

--------------------------------------------------------------------------
(* A handler is called for a descriptor that has input: what an inner run   *)
(* has handled is not handled again by the outer ones, which still hold it  *)
(* among the results of their poll (endEvent:for:, 60-66, endPoll, 152-157).*)
NoStaleEvent ==
  [][frames # <<>> /\ Len(frames') = Len(frames) /\ Top.pc = "event"
       /\ Last(frames').user
     => Top.left \ Last(frames').left \subseteq ready]_vars

(* A performer is fired once, whatever modes it was given and whatever runs *)
(* of the loop are inside the one that fires it.                            *)
PerformedOnce ==
  /\ \A m \in Modes : IsInjective(performers[m])
  /\ \A i \in 1 .. Len(frames) :
       /\ IsInjective(frames[i].batch)
       /\ \A m \in Modes : ToSet(frames[i].batch) \cap ToSet(performers[m]) = {}
       /\ \A j \in 1 .. Len(frames) :
            i # j => ToSet(frames[i].batch) \cap ToSet(frames[j].batch) = {}

(* Code called by the loop finds the mode of the innermost run, and after   *)
(* every way out of it that of the run around it.                           *)
ModeRestored == currentMode = IF frames = <<>> THEN NoMode ELSE Top.mode

(* A timer whose handler runs the loop in the same mode is not fired again  *)
(* inside it.                                                               *)
TimerNotReentered ==
  \A i, j \in 1 .. Len(frames) :
    i # j /\ frames[i].timer = frames[j].timer /\ frames[i].timer # NoTimer
      => frames[i].mode # frames[j].mode

(* A thread sleeps no longer than any timer of the mode allows, but for     *)
(* those that were added by performers after the limit date was computed.   *)
TimersHeeded == At("asleep") => Limits(Top.mode) \subseteq Top.limits \cup Top.late
=============================================================================
