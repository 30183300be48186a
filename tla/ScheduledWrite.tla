--------------------------- MODULE ScheduledWrite ---------------------------
(***************************************************************************)
(* What lib/undoable-mutation.ts promises of the server.  A write is sent   *)
(* at once, or is first held back and then either sent or dropped; what is  *)
(* sent is taken once or refused; a delete that was taken may be reversed.  *)
(* Dropped, refused and reversed writes are over: whatever the toast, the   *)
(* answers and the Undo do afterwards, the server hears no more of them.    *)
(* A stored row can only be deleted, a new one only be created.             *)
(* UndoableMutation implements this module.                                 *)
(***************************************************************************)
CONSTANT Rows

VARIABLES
    stage,     \* per row, how far its one write has come
    stored     \* the rows the server holds

vars == <<stage, stored>>

Stages == {"idle", "held", "sent", "taken", "refused", "dropped", "reversed"}

TypeOK ==
    /\ stage \in [Rows -> Stages]
    /\ stored \in SUBSET Rows

Init ==
    /\ stage = [r \in Rows |-> "idle"]
    /\ stored \in SUBSET Rows

Moves(r, from, to) ==
    /\ stage[r] = from
    /\ stage' = [stage EXCEPT ![r] = to]

(* Only a delete is held back: a creation has no Undo. *)
Hold(r) == Moves(r, "idle", "held") /\ r \in stored /\ UNCHANGED stored

SendAtOnce(r) == Moves(r, "idle", "sent") /\ UNCHANGED stored

SendHeld(r) == Moves(r, "held", "sent") /\ UNCHANGED stored

Drop(r) == Moves(r, "held", "dropped") /\ UNCHANGED stored

Take(r) ==
    /\ Moves(r, "sent", "taken")
    /\ stored' = IF r \in stored THEN stored \ {r} ELSE stored \cup {r}

Refuse(r) == Moves(r, "sent", "refused") /\ UNCHANGED stored

Reverse(r) ==
    /\ Moves(r, "taken", "reversed")
    /\ r \notin stored
    /\ stored' = stored \cup {r}

Step(r) ==
    \/ Hold(r) \/ SendAtOnce(r) \/ SendHeld(r) \/ Drop(r)
    \/ Take(r) \/ Refuse(r) \/ Reverse(r)

Next == \E r \in Rows : Step(r)

Spec == Init /\ [][Next]_vars
=============================================================================
