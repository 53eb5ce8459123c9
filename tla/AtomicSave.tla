------------------------------ MODULE AtomicSave ------------------------------
(***************************************************************************)
(* What ControlModel.save() promises of the control file and its backup:   *)
(* the control that can be read back is replaced by a later one in one     *)
(* step, or not at all, until it is lost.                                  *)
(***************************************************************************)
CONSTANTS Values, Missing, None

VARIABLES
  current,  \* what the tool would save now
  taken,    \* what a save has taken of it, or None
  stored,   \* what can be read back, or Missing
  lost      \* nothing is promised any more

vars == <<current, taken, stored, lost>>

Init ==
  /\ current \in Values /\ taken = None
  /\ stored \in Values \union {Missing}
  /\ lost = FALSE

Change == current' \in Values /\ UNCHANGED <<taken, stored, lost>>
Take == taken' = current /\ UNCHANGED <<current, stored, lost>>
Store == taken # None /\ stored' = taken /\ taken' = None /\ UNCHANGED <<current, lost>>
Drop == taken' = None /\ current' \in Values /\ UNCHANGED <<stored, lost>>

Lose ==
  /\ lost'
  /\ current' \in Values /\ taken' \in Values \union {None}
  /\ stored' \in Values \union {Missing}

Next == Change \/ Take \/ Store \/ Drop \/ Lose

Spec == Init /\ [][Next]_vars
===============================================================================
