---- MODULE WorkSlot ----
(***************************************************************************)
(* What the lifecycle promises about execution, and no more (INV-1): work  *)
(* goes through a single slot.  An assignment takes the slot only when it  *)
(* is free and gives it up before another takes it; it is closed only      *)
(* while it does not hold the slot; and an assignment that is closed or    *)
(* dropped stays so and never takes the slot again.                        *)
(***************************************************************************)
CONSTANTS Task,      \* the assignments that may ever exist
          Nobody     \* the holder of a free slot

VARIABLES holder,    \* the task in the slot, or Nobody
          closed,    \* the tasks completed and approved
          dropped    \* the tasks cancelled

vars == <<holder, closed, dropped>>

Over == closed \union dropped

Init == /\ holder = Nobody
        /\ closed = {}
        /\ dropped = {}

Take(t) == /\ holder = Nobody
           /\ t \notin Over
           /\ holder' = t
           /\ UNCHANGED <<closed, dropped>>

Release == /\ holder # Nobody
           /\ holder' = Nobody
           /\ UNCHANGED <<closed, dropped>>

Close(t) == /\ holder # t
            /\ t \notin Over
            /\ closed' = closed \union {t}
            /\ UNCHANGED <<holder, dropped>>

Drop(t) == /\ t \notin Over
           /\ dropped' = dropped \union {t}
           /\ holder' = IF holder = t THEN Nobody ELSE holder
           /\ UNCHANGED closed

Next == \/ Release
        \/ \E t \in Task : Take(t) \/ Close(t) \/ Drop(t)

Spec == Init /\ [][Next]_vars
====
