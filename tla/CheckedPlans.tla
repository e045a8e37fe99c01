---------------------------- MODULE CheckedPlans ----------------------------
(***************************************************************************)
(* What the planning functions of the graphics code share: checks in their *)
(* order, the first of which to refuse names the error, and arithmetic      *)
(* that is checked against the largest 64-bit value.                        *)
(***************************************************************************)
EXTENDS Integers, Sequences, FiniteSetsExt

CONSTANT MaxWord  \* stands for 2^64 - 1

\* The error of the first check that refuses.
Refusal(checks) ==
    LET refused == {i \in DOMAIN checks : checks[i][1]}
    IN  IF refused = {} THEN "none" ELSE checks[Min(refused)][2]

\* astraea::Result: a value, or the error alone.
Outcome(checks, value) ==
    LET error == Refusal(checks)
    IN  IF error = "none" THEN [error |-> "none", value |-> value] ELSE [error |-> error]
Succeeded(result) == result.error = "none"

\* checked_end and checked_multiply fail.
EndOverflows(base, size) == base + size > MaxWord
ProductOverflows(left, right) == left * right > MaxWord
=============================================================================
