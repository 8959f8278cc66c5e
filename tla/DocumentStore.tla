--------------------------- MODULE DocumentStore ---------------------------
(***************************************************************************)
(* What a settings repository promises: the stored document is at every    *)
(* moment, also after a crash, one whole document, the one last saved or   *)
(* the one before it; a save either replaces it or reports a failure and   *)
(* leaves it; a document that is not the program's is never replaced.      *)
(***************************************************************************)
CONSTANTS Documents, Foreign

VARIABLES stored, saving

Nothing == "nothing"

Init == stored \in Documents \cup Foreign /\ saving = Nothing

\* A save is asked for, of a document the program understands.
Begin == /\ saving = Nothing /\ stored \in Documents
         /\ saving' \in Documents
         /\ UNCHANGED stored

\* It takes effect, or it does not; the process may die after either.
Commit == /\ saving # Nothing /\ stored' = saving /\ saving' = Nothing

Abandon == /\ saving # Nothing /\ saving' = Nothing /\ UNCHANGED stored

Next == Begin \/ Commit \/ Abandon

Spec == Init /\ [][Next]_<<stored, saving>>
=============================================================================
