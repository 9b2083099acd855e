----------------------------- MODULE TurnTaking -----------------------------
(***************************************************************************)
(* What a voice session promises the person who talks to it, with nothing  *)
(* said of tasks, cancellation or events: one turn is being answered at a  *)
(* time, and a turn that was given up or answered never comes back.        *)
(***************************************************************************)
CONSTANTS Turn, Nobody

VARIABLES serving,  \* the turn being answered, or Nobody
          over      \* the turns answered or given up

Init == serving = Nobody /\ over = {}

Take(t) == /\ serving = Nobody
           /\ t \notin over
           /\ serving' = t
           /\ UNCHANGED over

Release == /\ serving # Nobody
           /\ serving' = Nobody
           /\ over' = over \cup {serving}

Next == (\E t \in Turn : Take(t)) \/ Release

Spec == Init /\ [][Next]_<<serving, over>>
=============================================================================
