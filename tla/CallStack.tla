----------------------------- MODULE CallStack -----------------------------
(***************************************************************************)
(* What nested calls promise.  A call that fails leaves the world as it    *)
(* was when the call was made, whatever happened within it, calls that     *)
(* succeeded included.  Each call keeps a whole copy of the world.         *)
(***************************************************************************)
EXTENDS Sequences, SequencesExt

CONSTANTS Failure,       \* the outcomes that undo a call
          Raised(_, _)   \* a world and that with the nonce of a creator raised

VARIABLES world,    \* the state
          saved,    \* the world at the start of each open call, outermost first
          outcome   \* of the call that ended in the last step, if one did

Init == saved = <<>> /\ outcome \notin Failure

\* A call begins, with whatever its beginning changes.
Enter == saved' = Append(saved, world) /\ outcome' \notin Failure

\* The innermost call does something; it may make calls that end at once.
Work == saved' = saved /\ (outcome' \in Failure => world' = world)

\* A creation raises its creator's nonce for good.
Leave ==
    /\ saved # <<>>
    /\ saved' = Front(saved)
    /\ outcome' \in Failure => world' = Last(saved) \/ Raised(Last(saved), world')

Spec == Init /\ [][Enter \/ Work \/ Leave]_<<world, saved, outcome>>
=============================================================================
