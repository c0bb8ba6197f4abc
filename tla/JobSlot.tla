------------------------------- MODULE JobSlot -------------------------------
(***************************************************************************)
(* What the table of verification jobs promises about one contract: at     *)
(* most one submitted job is in flight at a time, and a job that left the  *)
(* slot never comes back to it.  VerificationJobs implements this          *)
(* specification with a table that has no unique constraint.               *)
(***************************************************************************)
CONSTANT Job

VARIABLES slot,      \* the jobs in flight
          released   \* the jobs that were in flight once

Init == slot = {} /\ released = {}

\* A job takes the free slot.
Claim(j) ==
    /\ slot = {}
    /\ j \notin released
    /\ slot' = {j}
    /\ UNCHANGED released

\* The job in flight ends, in any way.
Release(j) ==
    /\ slot = {j}
    /\ slot' = {}
    /\ released' = released \cup {j}

Next == \E j \in Job : Claim(j) \/ Release(j)

Spec == Init /\ [][Next]_<<slot, released>>

=============================================================================
