------------------------------- MODULE MCOffers -------------------------------
(* Two users and two revisions of one offer. *)
EXTENDS Offers, TLC

CONSTANTS u1, u2, a, b

Form(s, from, to) == [status |-> s, start |-> from, end |-> to]

\* An approval is in force for ever, until 2, or from 2 on.
Entered ==
  {Form("DRAFT", 0, 0), Form("PENDING_REVIEW", 0, 0), Form("OBSOLETE", 0, 0),
   Form("APPROVED", 0, 0), Form("APPROVED", 0, 2), Form("APPROVED", 2, 0)}

Symmetry == Permutations({u1, u2}) \cup Permutations({a, b})
==============================================================================
