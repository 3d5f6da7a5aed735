---------------------------- MODULE PaymentLedger ----------------------------
(***************************************************************************)
(* What a payment service promises about the operations it asks of a       *)
(* provider: none is accepted, let alone carried out, of which no          *)
(* committed record tells, and none is answered for that was not accepted. *)
(* An accepted operation may be carried out before or after it is answered *)
(* for, or never: a request may stop between any two steps, and then stays *)
(* where it is.                                                            *)
(***************************************************************************)
CONSTANT Requests

VARIABLES intended,   \* announced by a committed event
          accepted,   \* taken on by the provider
          performed,  \* carried out by it
          recorded    \* entered under its tracking UUID, as a success

vars == <<intended, accepted, performed, recorded>>

Init == intended = {} /\ accepted = {} /\ performed = {} /\ recorded = {}

Intend(r) ==
  /\ intended' = intended \cup {r}
  /\ UNCHANGED <<accepted, performed, recorded>>

Accept(r) ==
  /\ r \in intended \ accepted
  /\ accepted' = accepted \cup {r}
  /\ UNCHANGED <<intended, performed, recorded>>

\* An operation may be accepted and carried out at once.
Perform(r) ==
  /\ r \in intended \ performed
  /\ accepted' = accepted \cup {r}
  /\ performed' = performed \cup {r}
  /\ UNCHANGED <<intended, recorded>>

Record(r) ==
  /\ r \in accepted \ recorded
  /\ recorded' = recorded \cup {r}
  /\ UNCHANGED <<intended, accepted, performed>>

Next == \E r \in Requests : Intend(r) \/ Accept(r) \/ Perform(r) \/ Record(r)

Spec == Init /\ [][Next]_vars
==============================================================================
