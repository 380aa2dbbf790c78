--------------------------- MODULE MCAccountPool ---------------------------
(***************************************************************************)
(* Model checking of AccountPool on two accounts, two requests and one     *)
(* session.                                                                *)
(***************************************************************************)
EXTENDS AccountPool, TLC

CONSTANTS a1, a2, r1, r2, s1

Symmetry == Permutations({a1, a2}) \cup Permutations({r1, r2})

\* The state without what no step lets a request, a permit or a flag depend on: the
\* versions of account records, recorded reasons of ineligibility, and the observers
\* of the properties that the run `pool` does not check.
Deciding ==
    <<present, gen, cooling, disabled, quotaOut, until, errs, sess, snap, requests,
      tasks, diskHas, diskOn, saved.known, saved.cool, saved.errs, churned, shut, firm,
      events>>
============================================================================
