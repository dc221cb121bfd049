-------------------------- MODULE MCThreadPerform --------------------------
(* Instances of ThreadPerform.                                              *)
EXTENDS ThreadPerform, TLC

CONSTANT quiet

\* The main thread asks the other and waits, in one mode, or does not wait, in
\* all; the other asks the main thread and waits, or asks its own loop.
ToOthers(c) ==
  IF c.by = Main THEN c.to # Main /\ c.modes = IF c.wait THEN {quiet} ELSE Modes
  ELSE c.modes = {quiet} /\ c.wait = (c.by # c.to)
============================================================================
