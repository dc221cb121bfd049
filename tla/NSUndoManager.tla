--------------------------- MODULE NSUndoManager ---------------------------
(***************************************************************************)
(* NSUndoManager.m: groups of registered actions, the two stacks, and the  *)
(* run loop that closes the groups of an event.                            *)
(*                                                                         *)
(* The program has a document, some keys with values; the method that sets *)
(* a key registers the action that sets it back, as every user of the      *)
(* class does.  An undo or a redo invokes the actions of a group one by    *)
(* one (call): each is a step, between which the methods invoked may call  *)
(* the manager again or raise.                                             *)
(***************************************************************************)
EXTENDS Integers, Subsequences, SequencesExt

CONSTANTS
  Keys, Values,  \* the document; a key is the target of its actions
  Names,         \* the names of actions, with NoName
  NoName,
  Levels,        \* the values of levelsOfUndo
  MaxActions,    \* bound: the actions registered at a time
  Calls          \* what else the program does, see AllCalls

AllCalls == {"group", "levels", "byEvent", "remove", "removeTarget", "disable",
             "raise", "removeInside", "loopInside"}

ASSUME CallsAssumption == Calls \subseteq AllCalls
ASSUME NamesAssumption == NoName \in Names
ASSUME LevelsAssumption == Levels \subseteq Nat /\ MaxActions \in Nat

VARIABLES
  doc,            \* the document
  open,           \* the open groups, _group and its parents, _group last
  undoStack, redoStack,
  isUndoing, isRedoing,
  disableCount, groupsByEvent, levels,
  pending,        \* _runLoopGroupingPending: _loop: is in the run loop
  call            \* the -undo or -redo that invokes actions

stacks == <<undoStack, redoStack>>
settings == <<disableCount, groupsByEvent, levels>>
vars == <<doc, open, stacks, isUndoing, isRedoing, settings, pending, call>>

Action == [key : Keys, value : Values]
Group == [actions : Seq(Action), name : Names]
NewGroup == [actions |-> <<>>, name |-> NoName]

(* kind of call, the group it took, how many of its actions are left, and   *)
(* the groups that were open when it began.                                 *)
NoCall == [kind |-> "none", group |-> NewGroup, left |-> 0, saved |-> <<>>]
Idle == call.kind = "none"
Busy == isUndoing \/ isRedoing

TypeOK ==
  /\ doc \in [Keys -> Values]
  /\ open \in Seq(Group) /\ undoStack \in Seq(Group) /\ redoStack \in Seq(Group)
  /\ {isUndoing, isRedoing, groupsByEvent, pending} \subseteq BOOLEAN
  /\ disableCount \in Nat /\ levels \in Levels \cup {0}
  /\ call \in [kind : {"none", "undo", "redo"}, group : Group, left : Nat,
               saved : Seq(Group)]

Init ==
  /\ doc \in [Keys -> Values]
  /\ open = <<>> /\ undoStack = <<>> /\ redoStack = <<>>
  /\ isUndoing = FALSE /\ isRedoing = FALSE
  /\ disableCount = 0 /\ groupsByEvent = TRUE /\ levels = 0
  /\ pending = FALSE /\ call = NoCall

--------------------------------------------------------------------------
(* A finished group goes on a stack if it has actions, and pushes out the   *)
(* oldest one if the stack is full.                                         *)

Push(stack, g) ==
  IF g.actions = <<>> THEN stack
  ELSE Append(IF levels > 0 /\ Len(stack) = levels THEN Tail(stack) ELSE stack,
              g)

(* endUndoGrouping, with a group open: what becomes of it and the stacks.   *)
EndGroup ==
  LET g == Last(open)
      p == Front(open)
  IN IF p # <<>>
     THEN /\ open' = [p EXCEPT ![Len(p)].actions = @ \o g.actions]
          /\ UNCHANGED stacks
     ELSE /\ open' = <<>>
          /\ IF isUndoing
             THEN redoStack' = Push(redoStack, g) /\ UNCHANGED undoStack
             ELSE undoStack' = Push(undoStack, g) /\ UNCHANGED redoStack

CanRegister == disableCount > 0 \/ open # <<>> \/ groupsByEvent

(* registerUndoWithTarget:selector:object:, and forwardInvocation: after    *)
(* prepareWithInvocationTarget:.                                            *)
WithAction(a) == LET o == IF open = <<>> THEN <<NewGroup>> ELSE open IN
                 open' = [o EXCEPT ![Len(o)].actions = Append(@, a)]

Register_keepsRedo(a) ==  \* mutant: does not clear the redo stack
  IF disableCount > 0
  THEN UNCHANGED <<open, redoStack, pending>>
  ELSE WithAction(a) /\ pending' = (pending \/ groupsByEvent) /\ UNCHANGED redoStack
Register(a) ==
  IF disableCount > 0
  THEN UNCHANGED <<open, redoStack, pending>>
  ELSE /\ WithAction(a)
       /\ redoStack' = IF Busy THEN redoStack ELSE <<>>
       /\ pending' = (pending \/ groupsByEvent)

(* The program's method that sets a key, here and when an action invokes it.*)
SetKey(k, v) ==
  /\ CanRegister
  /\ doc' = [doc EXCEPT ![k] = v]
  /\ Register([key |-> k, value |-> doc[k]])

Registered == LET all == open \o undoStack \o redoStack IN
              FoldLeft(LAMBDA n, g : n + Len(g.actions), 0, all)

Edit(k, v) ==
  /\ Idle
  /\ v # doc[k] /\ Registered < MaxActions
  /\ SetKey(k, v)
  /\ UNCHANGED <<undoStack, isUndoing, isRedoing, settings, call>>

BeginUndoGrouping ==
  /\ "group" \in Calls
  /\ Idle /\ Len(open) < 2
  /\ open' = (IF open = <<>> /\ groupsByEvent THEN <<NewGroup>> ELSE open)
               \o <<NewGroup>>
  /\ UNCHANGED <<doc, stacks, isUndoing, isRedoing, settings, pending, call>>

EndUndoGrouping ==
  /\ "group" \in Calls
  /\ Idle /\ open # <<>>
  /\ EndGroup
  /\ UNCHANGED <<doc, isUndoing, isRedoing, settings, pending, call>>

(* _loop:, at the end of an event.                                          *)
Loop ==
  /\ pending
  /\ Idle \/ "loopInside" \in Calls
  /\ pending' = FALSE
  /\ IF groupsByEvent /\ open # <<>> THEN EndGroup ELSE UNCHANGED <<open, stacks>>
  /\ UNCHANGED <<doc, isUndoing, isRedoing, settings, call>>

(* -undo, which ends a single open group, and the start of undoNestedGroup. *)
(* With nested groups it raises, and while undoing or redoing it does after *)
(* it has ended the group.                                                  *)
Undo ==
  /\ Idle /\ Len(open) <= 1
  /\ open # <<>> \/ undoStack # <<>>
  /\ LET ended == IF open = <<>> THEN NewGroup ELSE open[1]
         undos == IF isUndoing THEN undoStack ELSE Push(undoStack, ended)
     IN /\ redoStack' = IF isUndoing THEN Push(redoStack, ended) ELSE redoStack
        /\ IF Busy \/ undos = <<>>
           THEN /\ undoStack' = undos /\ open' = <<>>
                /\ UNCHANGED <<isUndoing, call>>
           ELSE /\ undoStack' = Front(undos)
                /\ open' = <<NewGroup>>
                /\ isUndoing' = TRUE
                /\ call' = [kind |-> "undo", group |-> Last(undos),
                            left |-> Len(Last(undos).actions), saved |-> <<>>]
  /\ UNCHANGED <<doc, isRedoing, settings, pending>>

Redo ==
  /\ Idle /\ ~ Busy
  /\ redoStack # <<>>
  /\ redoStack' = Front(redoStack)
  /\ open' = <<NewGroup>>
  /\ isRedoing' = TRUE
  /\ LET g == Last(redoStack) IN
     call' = [kind |-> "redo", group |-> g, left |-> Len(g.actions), saved |-> open]
  /\ UNCHANGED <<doc, undoStack, isUndoing, settings, pending>>

(* perform: invokes the actions, the last one first.                        *)
ToInvoke_first ==  \* mutant: in the order of registration
  call.group.actions[Len(call.group.actions) - call.left + 1]
ToInvoke == call.group.actions[call.left]

Invoke ==
  /\ call.left > 0
  /\ SetKey(ToInvoke.key, ToInvoke.value)
  /\ call' = [call EXCEPT !.left = @ - 1]
  /\ UNCHANGED <<undoStack, isUndoing, isRedoing, settings>>

(* The group of the actions registered meanwhile is ended and gets the name *)
(* of the one that was invoked.                                             *)
Renamed(stack) == IF stack = <<>> THEN stack
                  ELSE [stack EXCEPT ![Len(stack)].name = call.group.name]

Stop == IF call.kind = "undo"
        THEN isUndoing' = FALSE /\ UNCHANGED isRedoing
        ELSE isRedoing' = FALSE /\ UNCHANGED isUndoing

Finish ==
  /\ ~ Idle /\ call.left = 0
  /\ open # <<>>
  /\ LET undos == IF isUndoing THEN undoStack ELSE Push(undoStack, Last(open))
         redos == IF isUndoing THEN Push(redoStack, Last(open)) ELSE redoStack
     IN \/ /\ call.kind = "undo"
           /\ undoStack' = undos /\ redoStack' = Renamed(redos)
        \/ /\ call.kind = "redo"
           /\ undoStack' = Renamed(undos) /\ redoStack' = redos
  /\ Stop
  /\ open' = call.saved
  /\ call' = NoCall
  /\ UNCHANGED <<doc, settings, pending>>

(* A method that is invoked raises, or registers where it may not, or the   *)
(* group that the call began is no longer there to be ended: the exception  *)
(* ends the call.                                                           *)
Raise ==
  /\ ~ Idle
  /\ \/ "raise" \in Calls /\ call.left > 0
     \/ call.left > 0 /\ ~ CanRegister
     \/ call.left = 0 /\ open = <<>>
  /\ call' = NoCall
  /\ UNCHANGED <<doc, open, stacks, isUndoing, isRedoing, settings, pending>>

RemoveAllActions ==
  /\ "remove" \in Calls
  /\ Idle \/ "removeInside" \in Calls
  /\ open' = <<>> /\ undoStack' = <<>> /\ redoStack' = <<>>
  /\ isUndoing' = FALSE /\ isRedoing' = FALSE /\ disableCount' = 0
  /\ UNCHANGED <<doc, groupsByEvent, levels, pending, call>>

(* Without the actions of a target, and the groups that had no other.       *)
Without_empty(stack, k) ==  \* mutant: leaves the empty groups
  [i \in 1 .. Len(stack) |->
     [stack[i] EXCEPT !.actions = Only(@, {a \in Action : a.key # k})]]

Without(stack, k) ==
  LET left == [i \in 1 .. Len(stack) |->
                 [stack[i] EXCEPT !.actions = Only(@, {a \in Action : a.key # k})]]
  IN Only(left, {g \in ToSet(left) : g.actions # <<>>})

RemoveAllActionsWithTarget(k) ==
  /\ "removeTarget" \in Calls
  /\ Idle \/ "removeInside" \in Calls
  /\ undoStack' = Without(undoStack, k) /\ redoStack' = Without(redoStack, k)
  /\ UNCHANGED <<doc, open, isUndoing, isRedoing, settings, pending, call>>

SetActionName(n) ==
  /\ open # <<>>
  /\ open' = [open EXCEPT ![Len(open)].name = n]
  /\ UNCHANGED <<doc, stacks, isUndoing, isRedoing, settings, pending, call>>

SetGroupsByEvent ==
  /\ "byEvent" \in Calls /\ Idle
  /\ groupsByEvent' = ~ groupsByEvent
  /\ UNCHANGED <<doc, open, stacks, isUndoing, isRedoing, disableCount, levels,
                 pending, call>>

LastOf(n, stack) == SubSeq(stack, Len(stack) - n + 1, Len(stack))
Truncated(n, stack) == IF n > 0 /\ Len(stack) > n THEN LastOf(n, stack) ELSE stack

SetLevelsOfUndo(n) ==
  /\ "levels" \in Calls /\ Idle
  /\ n # levels
  /\ levels' = n
  /\ undoStack' = Truncated(n, undoStack) /\ redoStack' = Truncated(n, redoStack)
  /\ UNCHANGED <<doc, open, isUndoing, isRedoing, disableCount, groupsByEvent,
                 pending, call>>

DisableUndoRegistration ==
  /\ "disable" \in Calls /\ Idle
  /\ disableCount < 1
  /\ disableCount' = disableCount + 1
  /\ UNCHANGED <<doc, open, stacks, isUndoing, isRedoing, groupsByEvent, levels,
                 pending, call>>

EnableUndoRegistration ==
  /\ Idle /\ disableCount > 0
  /\ disableCount' = disableCount - 1
  /\ UNCHANGED <<doc, open, stacks, isUndoing, isRedoing, groupsByEvent, levels,
                 pending, call>>

Next ==
  \/ \E k \in Keys, v \in Values : Edit(k, v)
  \/ BeginUndoGrouping \/ EndUndoGrouping \/ Loop
  \/ Undo \/ Redo \/ Invoke \/ Finish \/ Raise
  \/ RemoveAllActions \/ \E k \in Keys : RemoveAllActionsWithTarget(k)
  \/ \E n \in Names : SetActionName(n)
  \/ SetGroupsByEvent \/ \E n \in Levels : SetLevelsOfUndo(n)
  \/ DisableUndoRegistration \/ EnableUndoRegistration

Spec == Init /\ [][Next]_vars

--------------------------------------------------------------------------
(* What invoking actions makes of a document.  They are invoked from the    *)
(* last to the first, so that for each key the first one on it remains.     *)
On(actions, k) == {i \in 1 .. Len(actions) : actions[i].key = k}
Perform(actions, d) ==
  [k \in Keys |-> IF On(actions, k) = {} THEN d[k]
                  ELSE actions[Min(On(actions, k))].value]

(* The document from which the actions of groups i, i + 1, ... led to d:    *)
(* the first of these groups that sets a key says what it was.              *)
Setting(groups, i, k) == {j \in i .. Len(groups) : On(groups[j].actions, k) # {}}
Before(groups, i, d) ==
  [k \in Keys |-> IF Setting(groups, i, k) = {} THEN d[k]
                  ELSE Perform(groups[Min(Setting(groups, i, k))].actions, d)[k]]

(* A stack as the documents it leads back to from d, each with its name.    *)
LeadsTo(stack, d) ==
  [i \in 1 .. Len(stack) |-> [doc |-> Before(stack, i, d), name |-> stack[i].name]]

Unused(groups) == \A i \in 1 .. Len(groups) : groups[i].actions = <<>>
IsOpen == ~ Busy /\ ~ Unused(open)

(* A call in progress has changed nothing yet.                              *)
BeforeOpen == Before(open, 1, doc)
Present == IF Busy THEN BeforeOpen ELSE doc
Taken(flag) == IF flag THEN <<call.group>> ELSE <<>>

Past == LeadsTo(undoStack \o Taken(isUndoing), BeforeOpen)
          \o IF IsOpen THEN <<[doc |-> BeforeOpen, name |-> open[1].name]>> ELSE <<>>
Future == LeadsTo(redoStack \o Taken(isRedoing), Present)

Abstract == INSTANCE AbstractUndo WITH
  Documents <- [Keys -> Values],
  present <- Present, past <- Past, future <- Future, open <- IsOpen

(* Whatever is grouped, nested, named, limited or removed: an undo gives    *)
(* back the document of before the last change and a redo the one after it, *)
(* each change keeps its name, and only the oldest ones are forgotten.      *)
ImplementsUndo == Abstract!ASpec

(* What can be redone goes on from the document as it is: nothing was       *)
(* registered since, not even in a group that is still open.                *)
RedoIsFresh == ~ Busy /\ redoStack # <<>> => Unused(open)

(* Neither stack is longer than levelsOfUndo, and every group on them does  *)
(* something: an undo is never spent on an empty group.                     *)
StacksFit ==
  \A stack \in {undoStack, redoStack} :
    /\ levels > 0 => Len(stack) <= levels
    /\ \A i \in 1 .. Len(stack) : stack[i].actions # <<>>
============================================================================
