---------------------------- MODULE AbstractUndo ----------------------------
(***************************************************************************)
(* What an undo manager promises: it knows the documents before each of    *)
(* the last changes, goes back to them one by one, and forward again.      *)
(***************************************************************************)
EXTENDS Sequences, SequencesExt

CONSTANTS Documents, Names

VARIABLES
  present,  \* the document
  past,     \* the documents one can undo to, each with the name of the
            \* change that left it
  future,   \* those one can redo, with the name of the change to them
  open      \* may the last change go on?

avars == <<present, past, future, open>>

Entry(d, n) == [doc |-> d, name |-> n]

AInit == present \in Documents /\ past = <<>> /\ future = <<>> /\ open = FALSE

(* The document changes: a new change, or the same one going on.            *)
Change ==
  /\ present' \in Documents
  /\ past' \in IF open THEN {past}
                       ELSE {Append(past, Entry(present, n)) : n \in Names}
  /\ future' = <<>>
  /\ open' = TRUE

Name ==
  /\ open
  /\ past' \in {[past EXCEPT ![Len(past)].name = n] : n \in Names}
  /\ UNCHANGED <<present, future, open>>

(* Only the oldest entries are forgotten.                                   *)
Later(entries) == {SubSeq(entries, i, Len(entries)) : i \in 1 .. Len(entries) + 1}

Close == /\ open /\ open' = FALSE
         /\ past' \in Later(past)
         /\ UNCHANGED <<present, future>>

AUndo == /\ ~ open /\ past # <<>>
         /\ present' = Last(past).doc
         /\ past' = Front(past)
         /\ future' \in {Append(f, Entry(present, Last(past).name)) : f \in Later(future)}
         /\ UNCHANGED open

ARedo == /\ ~ open /\ future # <<>>
         /\ present' = Last(future).doc
         /\ future' = Front(future)
         /\ past' \in {Append(p, Entry(present, Last(future).name)) : p \in Later(past)}
         /\ UNCHANGED open

Forget == /\ past' \in Later(past) /\ future' \in Later(future)
          /\ open => past' # <<>>
          /\ UNCHANGED <<present, open>>

(* Every action is removed, maybe in the middle of an undo or a redo.       *)
ForgetAll == /\ past' = <<>> /\ future' = <<>> /\ open' = FALSE
             /\ present' \in Documents

ANext == Change \/ Name \/ Close \/ AUndo \/ ARedo \/ Forget \/ ForgetAll
ASpec == AInit /\ [][ANext]_avars
=============================================================================
