-------------------------- MODULE MCRetrySchedule --------------------------
(* Policies for model checking. *)
EXTENDS RetrySchedule

\* A doubling policy like the default one, one whose first delay is cut off, one
\* that starts at zero, and one whose zero multiplier means one.
MCPolicy ==
  {[initial |-> 2, maximum |-> 9, multiplier |-> 2],
   [initial |-> 5, maximum |-> 3, multiplier |-> 2],
   [initial |-> 0, maximum |-> 4, multiplier |-> 3],
   [initial |-> 2, maximum |-> 6, multiplier |-> 0]}
=============================================================================
