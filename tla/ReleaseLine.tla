----------------------------- MODULE ReleaseLine -----------------------------
(***************************************************************************)
(* What one class is promised about its published knowledge: releases form *)
(* a line, each job adds at most one release to its end, the last one is   *)
(* the one students see, and a release never changes once it is published. *)
(***************************************************************************)
EXTENDS Naturals, Sequences

CONSTANTS Contents,    \* what a release can hold
          Jobs         \* the jobs that may publish

VARIABLES line,        \* the releases, oldest first: [job, holds]
          shown        \* the position of the release students see, 0 for none

vars == <<line, shown>>

Init == line = <<>> /\ shown = 0

\* A job publishes: the new release gets the next version number and is shown.
Publish(job, holds) ==
    /\ \A n \in 1..Len(line) : line[n].job # job
    /\ line' = Append(line, [job |-> job, holds |-> holds])
    /\ shown' = Len(line')

Next == \E job \in Jobs, holds \in Contents : Publish(job, holds)

Spec == Init /\ [][Next]_vars
=============================================================================
