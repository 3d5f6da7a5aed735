------------------------------- MODULE Replica -------------------------------
(***************************************************************************)
(* What dual writing promises of one store that follows another: the copy  *)
(* of a document only ever moves forward to ages the primary has reached,  *)
(* and it disappears only once the primary has deleted the document.  How  *)
(* late it is, and how many ages it skips, is left open.                   *)
(***************************************************************************)
EXTENDS Naturals

CONSTANT Docs

VARIABLES primary,  \* primary[d] = [age, live]; age 0 before it is created
          copy      \* copy[d] = the age of the copy, 0 when there is none

Init == /\ primary = [d \in Docs |-> [age |-> 0, live |-> TRUE]]
        /\ copy = [d \in Docs |-> 0]

\* The primary saves or deletes the document: its age grows.
Advance(d) == /\ primary[d].live
              /\ primary'[d].age > primary[d].age
              /\ primary' = [primary EXCEPT ![d] = primary'[d]]
              /\ UNCHANGED copy

Follow(d) == /\ copy'[d] > copy[d]
             /\ copy'[d] <= primary[d].age
             /\ copy' = [copy EXCEPT ![d] = copy'[d]]
             /\ UNCHANGED primary

Vanish(d) == /\ ~primary[d].live
             /\ copy' = [copy EXCEPT ![d] = 0]
             /\ UNCHANGED primary

Next == \E d \in Docs : Advance(d) \/ Follow(d) \/ Vanish(d)

Spec == Init /\ [][Next]_<<primary, copy>>
==============================================================================
