------------------------------ MODULE Register ------------------------------
(***************************************************************************)
(* What sys::write_file_atomically promises of a file: the file is a       *)
(* register.  A call that returns has stored its content in one step, a    *)
(* call that throws has stored nothing, and nobody ever sees a third thing.*)
(***************************************************************************)
CONSTANTS Procs, Contents, None

VARIABLES value,     \* what the file holds, None if it does not exist
          pending    \* what each process is writing, None if nothing

vars == <<value, pending>>

Init == value = None /\ pending = [p \in Procs |-> None]

Begin(p, c) ==
  /\ pending[p] = None
  /\ pending' = [pending EXCEPT ![p] = c]
  /\ UNCHANGED value

Store(p) ==
  /\ pending[p] # None
  /\ value' = pending[p]
  /\ pending' = [pending EXCEPT ![p] = None]

Abandon(p) ==
  /\ pending[p] # None
  /\ pending' = [pending EXCEPT ![p] = None]
  /\ UNCHANGED value

(* The file is deleted. *)
Delete == value' = None /\ UNCHANGED pending

Next ==
  \/ \E p \in Procs : Store(p) \/ Abandon(p) \/ \E c \in Contents : Begin(p, c)
  \/ Delete

Spec == Init /\ [][Next]_vars
=============================================================================
