------------------------------ MODULE MCLooper ------------------------------
(* Programs for Looper: which continuation listens to what, and who waits. *)
EXTENDS Looper

CONSTANTS w1, w2, w3, o1, o2, f1, f2, f3, c1, c2, c3, c4, c5

(* The request returns its promise; c1 and c4 follow one call, and each waits
   for what another call starts: a chain, and a single continuation.        *)
ChainOn == [c \in {c1, c2, c3, c4, c5} |->
  CASE c = c1 -> f1 [] c = c2 -> f2 [] c = c3 -> c2 [] c = c4 -> f1 [] c = c5 -> f3]
ChainBy == [c \in {c1, c2, c3, c4, c5} |->
  CASE c \in {c2, c3} -> c1 [] c = c5 -> c4 [] OTHER -> Main]
ChainWaits == [c \in {Main, c1, c2, c3, c4, c5} |->
  CASE c = c1 -> c3 [] c = c4 -> c5 [] OTHER -> NoFuture]

(* The request itself waits for the last of three independent chains. *)
FanOn == [c \in {c1, c2, c3} |-> CASE c = c1 -> f1 [] c = c2 -> f2 [] c = c3 -> f3]
FanBy == [c \in {c1, c2, c3} |-> Main]
FanWaits == [c \in {Main, c1, c2, c3} |-> IF c = Main THEN c3 ELSE NoFuture]

(* c1 waits for a link that the thread answering f2 must run, while the request
   itself waits for f3: two threads may sleep, each in a get() of its own.  *)
LinkOn == [c \in {c1, c2, c3, c4} |-> CASE c = c1 -> f1 [] c = c2 -> f2 [] c = c3 -> c2 [] c = c4 -> f3]
LinkBy == [c \in {c1, c2, c3, c4} |-> IF c \in {c2, c3} THEN c1 ELSE Main]
LinkWaits == [c \in {Main, c1, c2, c3, c4} |->
  CASE c = c1 -> c3 [] c = Main -> f3 [] OTHER -> NoFuture]
=============================================================================
