------------------------------ MODULE Debounce ------------------------------
(***************************************************************************)
(* What a debounced condition promises, whoever measures it: an incident   *)
(* is opened only on ToOpen bad observations in a row and closed only on   *)
(* ToClose good ones. A decision that is due may be missed and made at a   *)
(* later observation; users open and close the incident as they like, and  *)
(* a change of what is observed starts a new row.                          *)
(***************************************************************************)
EXTENDS Integers

CONSTANTS
  ToOpen, ToClose,  \* observations in a row
  MaxRun            \* longer runs are not told apart: no less than those two

VARIABLES
  run,    \* the observations since the last one that differed
  open,   \* there is an open incident
  byUser  \* a user opened or closed it last

vars == <<run, open, byUser>>

NewRun(bad) == [bad |-> bad, length |-> 1]
LongerRun == [run EXCEPT !.length = IF @ < MaxRun THEN @ + 1 ELSE @]

Opens == run'.bad /\ run'.length >= ToOpen /\ ~open /\ open'
Closes == ~run'.bad /\ run'.length >= ToClose /\ open /\ ~open'

Observe(bad) ==
  /\ run' = IF bad = run.bad THEN LongerRun ELSE NewRun(bad)
  /\ \/ UNCHANGED <<open, byUser>>
     \/ (Opens \/ Closes) /\ ~byUser'

StartAfresh == run' = [bad |-> FALSE, length |-> 0] /\ UNCHANGED <<open, byUser>>
UserDecides == UNCHANGED run /\ open' = ~open /\ byUser'

Init == run = [bad |-> FALSE, length |-> 0] /\ ~open /\ ~byUser
Next == (\E bad \in BOOLEAN : Observe(bad)) \/ StartAfresh \/ UserDecides
Spec == Init /\ [][Next]_vars
=============================================================================
