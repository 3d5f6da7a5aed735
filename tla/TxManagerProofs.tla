-------------------------- MODULE TxManagerProofs --------------------------
(***************************************************************************)
(* What holds of the transaction manager for any number of requests, of    *)
(* transactions, of data sources and connections, in any nesting.          *)
(*                                                                         *)
(* Shape(i) says what completion has done to the connections of i so far,  *)
(* Stacks who holds which transaction; with ConnectionsAccounted they are  *)
(* inductive.                                                              *)
(***************************************************************************)
EXTENDS TxManager, SequenceTheorems, TLAPS

InProgress == {"active", "marked", "committing", "rolling"}

(* All that completion has visited was rolled back. *)
Uncommitted(i) == \A n \in DOMAIN out[i] : out[i][n] = "rolledback"

(* All was committed before the first connection that threw, none after it. *)
CommittedUpTo(i) ==
  \A n \in DOMAIN out[i] :
    /\ fault[i] = 0 \/ n < fault[i] => out[i][n] = "committed"
    /\ fault[i] # 0 /\ n > fault[i] => out[i][n] = "rolledback"

Shape(i) ==
  /\ status[i] = "none" => cons[i] = <<>>
  /\ status[i] \in {"none", "active", "marked"} => out[i] = <<>> /\ fault[i] = 0
  /\ Uncommitted(i) \/ CommittedUpTo(i)
  /\ status[i] = "committing" => CommittedUpTo(i)
  /\ status[i] = "rolling" => Uncommitted(i)
  /\ status[i] = "committed" => CommittedUpTo(i) /\ fault[i] = 0 /\ Len(out[i]) = Len(cons[i])
  /\ status[i] = "rolledback" => Uncommitted(i) \/ (CommittedUpTo(i) /\ fault[i] = 1)

(* A transaction in progress is on one stack, once; the context that waits for
   a connection has an active one.                                          *)
Stacks ==
  /\ \A c \in Contexts : \A n \in DOMAIN running[c] : status[running[c][n]] \in InProgress
  /\ \A c, e \in Contexts : \A m \in DOMAIN running[c], n \in DOMAIN running[e] :
       running[c][m] = running[e][n] => c = e /\ m = n
  /\ \A c \in Contexts : want[c] # NoSource => Busy(c) /\ status[Current(c)] = "active"

IInv == TypeOK /\ (\A i \in Txs : Shape(i)) /\ Stacks /\ ConnectionsAccounted

(* The current transaction of a busy context is the last of its stack. *)
LEMMA CurrentIsLast ==
  ASSUME TypeOK, NEW c \in Contexts, Busy(c)
  PROVE  /\ Len(running[c]) \in Nat /\ Len(running[c]) \in DOMAIN running[c]
         /\ DOMAIN running[c] = 1 .. Len(running[c])
         /\ Current(c) \in Txs /\ Current(c) = running[c][Len(running[c])]
         /\ Live(Current(c))
<1>1. running[c] \in Seq(Txs) /\ running[c] # <<>>
  BY DEF TypeOK, Busy
<1>2. Len(running[c]) \in Nat \ {0} /\ DOMAIN running[c] = 1 .. Len(running[c])
  BY <1>1
<1> QED
  BY <1>1, <1>2 DEF Current, Live

(* The first states satisfy the invariant. *)
LEMMA InitIInv == Init => IInv
<1> SUFFICES ASSUME Init PROVE IInv
  OBVIOUS
<1>1. TypeOK
  BY BoundsAssumption DEF Init, TypeOK, Statuses, Enlisted
<1>2. ASSUME NEW i \in Txs PROVE Shape(i)
  BY DEF Init, Shape, Uncommitted, CommittedUpTo
<1>3. Stacks
  BY DEF Init, Stacks
<1>4. ConnectionsAccounted
  BY DEF Init, ConnectionsAccounted, Live
<1> QED
  BY <1>1, <1>2, <1>3, <1>4 DEF IInv

(* A step that leaves the stacks and the enlisted connections alone leaves the
   connections accounted for.                                               *)
LEMMA SameHolders ==
  ASSUME ConnectionsAccounted, UNCHANGED <<running, cons, free>>
  PROVE  ConnectionsAccounted'
  BY DEF ConnectionsAccounted, Live, ConsOf

(* Asking for a connection, and being refused one. *)
LEMMA WantIInv ==
  ASSUME IInv, NEW c \in Contexts, NEW w \in Sources \cup {NoSource},
         want' = [want EXCEPT ![c] = w],
         w # NoSource => Busy(c) /\ status[Current(c)] = "active",
         UNCHANGED <<running, status, cons, out, fault, free>>
  PROVE  IInv'
<1>1. TypeOK'
  BY DEF IInv, TypeOK
<1>2. ASSUME NEW i \in Txs PROVE Shape(i)'
  BY DEF IInv, Shape, Uncommitted, CommittedUpTo
<1>3. Stacks'
  BY DEF IInv, TypeOK, Stacks, Busy, Current
<1>4. ConnectionsAccounted'
  BY SameHolders DEF IInv
<1> QED
  BY <1>1, <1>2, <1>3, <1>4 DEF IInv, Txs

(* The code decides what becomes of its transaction. *)
LEMMA DecideIInv ==
  ASSUME IInv, NEW c \in Contexts, Open(c),
         NEW st \in {"marked", "committing", "rolling"},
         status' = [status EXCEPT ![Current(c)] = st],
         UNCHANGED <<running, cons, out, fault, want, free>>
  PROVE  IInv'
<1>1. /\ Current(c) \in Txs /\ Len(running[c]) \in DOMAIN running[c]
      /\ Current(c) = running[c][Len(running[c])]
  BY CurrentIsLast DEF IInv, Open
<1>2. TypeOK'
  BY <1>1 DEF IInv, TypeOK, Statuses
<1>3. ASSUME NEW i \in Txs PROVE Shape(i)'
  <2>1. out[i]' = out[i] /\ fault[i]' = fault[i] /\ cons[i]' = cons[i] /\ Shape(i)
    BY DEF IInv
  <2>2. CASE i = Current(c)
    <3>1. status[i]' = st /\ out[i] = <<>> /\ fault[i] = 0
      BY <1>1, <2>1, <2>2 DEF IInv, TypeOK, Open, Shape
    <3>2. Uncommitted(i)' /\ CommittedUpTo(i)'
      BY <2>1, <3>1 DEF Uncommitted, CommittedUpTo
    <3> QED
      BY <2>1, <3>1, <3>2 DEF Shape
  <2>3. CASE i # Current(c)
    BY <1>1, <2>1, <2>3 DEF IInv, TypeOK, Shape, Uncommitted, CommittedUpTo
  <2> QED
    BY <2>2, <2>3
<1>4. Stacks'
  <2>1. ASSUME NEW e \in Contexts, NEW n \in DOMAIN running[e]
        PROVE  status[running[e][n]]' \in InProgress
    BY <1>1, SMTT(30) DEF IInv, TypeOK, Stacks, InProgress
  <2>2. ASSUME NEW e \in Contexts, want[e] # NoSource
        PROVE  status[Current(e)]' = "active" /\ Busy(e)
    <3>1. e # c /\ Busy(e) /\ status[Current(e)] = "active"
      BY <2>2 DEF IInv, Stacks, Open
    <3>2. Current(e) # Current(c)
      BY <1>1, <3>1, CurrentIsLast DEF IInv, Stacks
    <3> QED
      BY <3>1, <3>2, <1>1, CurrentIsLast DEF IInv, TypeOK, Current
  <2> QED
    BY <2>1, <2>2 DEF IInv, Stacks, Busy, Current
<1>5. ConnectionsAccounted'
  BY SameHolders DEF IInv
<1> QED
  BY <1>2, <1>3, <1>4, <1>5 DEF IInv, Txs

(* Completion visits one more connection. *)
LEMMA VisitIInv ==
  ASSUME IInv, NEW c \in Contexts, NEW st \in {"committing", "rolling"}, Due(c, st),
         NEW outcome \in {"committed", "rolledback"}, NEW threw \in BOOLEAN,
         Visit(Current(c), outcome, threw),
         st = "rolling" => outcome = "rolledback",
         st = "committing" /\ fault[Current(c)] # 0 => outcome = "rolledback" /\ ~ threw,
         st = "committing" /\ fault[Current(c)] = 0 /\ ~ threw => outcome = "committed"
  PROVE  IInv'
<1>0. PICK i \in Txs : i = Current(c)
  BY CurrentIsLast DEF IInv, Due
<1>1. status[i] = st /\ Len(out[i]) < Len(cons[i])
  BY <1>0 DEF Due
<1>2. /\ out[i] \in Seq({"committed", "rolledback"}) /\ cons[i] \in Seq(Enlisted)
      /\ fault[i] \in Nat /\ fault[i] <= Len(out[i])
  BY <1>1 DEF IInv, TypeOK
<1>3. /\ Len(out'[i]) = Len(out[i]) + 1
      /\ out'[i] \in Seq({"committed", "rolledback"})
      /\ DOMAIN out'[i] = 1 .. Len(out[i]) + 1 /\ DOMAIN out[i] = 1 .. Len(out[i])
      /\ \A n \in DOMAIN out[i] : out'[i][n] = out[i][n]
      /\ out'[i][Len(out[i]) + 1] = outcome
  <2>1. out'[i] = Append(out[i], outcome)
    BY <1>0, <1>1 DEF IInv, TypeOK, Visit
  <2> QED
    BY <1>2, <2>1
<1>4. /\ fault'[i] = IF threw /\ fault[i] = 0 THEN Len(out[i]) + 1 ELSE fault[i]
      /\ \A j \in Txs : j # i => out'[j] = out[j] /\ fault'[j] = fault[j]
      /\ UNCHANGED <<running, status, cons, want, free>>
  BY <1>0, <1>1 DEF IInv, TypeOK, Visit
<1>5. out' \in [Txs -> Seq({"committed", "rolledback"})] /\ fault' \in [Txs -> Nat]
  BY <1>0, <1>2, <1>3 DEF IInv, TypeOK, Visit
<1>6. TypeOK'
  <2>1. ASSUME NEW j \in Txs
        PROVE  fault'[j] <= Len(out'[j]) /\ Len(out'[j]) <= Len(cons'[j])
    <3>1. /\ Len(out[j]) \in Nat /\ Len(cons[j]) \in Nat /\ fault[j] \in Nat
          /\ fault[j] <= Len(out[j]) /\ Len(out[j]) <= Len(cons[j])
      BY DEF IInv, TypeOK
    <3>2. CASE j = i
      BY <1>1, <1>3, <1>4, <3>1, <3>2
    <3>3. CASE j # i
      BY <1>4, <3>1, <3>3
    <3> QED
      BY <3>2, <3>3
  <2> QED
    BY <1>4, <1>5, <2>1 DEF IInv, TypeOK
<1>7. ASSUME NEW j \in Txs PROVE Shape(j)'
  <2>1. CASE j # i
    BY <1>4, <2>1 DEF IInv, Shape, Uncommitted, CommittedUpTo
  <2>2. CASE j = i
    <3>1. CASE st = "rolling"
      <4>1. Uncommitted(i)
        BY <1>1, <3>1 DEF IInv, Shape
      <4>2. Uncommitted(i)'
        BY <1>2, <1>3, <3>1, <4>1 DEF Uncommitted
      <4> QED
        BY <1>1, <1>4, <2>2, <3>1, <4>2 DEF Shape
    <3>2. CASE st = "committing"
      <4>1. CommittedUpTo(i)
        BY <1>1, <3>2 DEF IInv, Shape
      <4>2. CommittedUpTo(i)'
        BY <1>0, <1>2, <1>3, <1>4, <3>2, <4>1 DEF CommittedUpTo
      <4> QED
        BY <1>1, <1>4, <2>2, <3>2, <4>2 DEF Shape
    <3> QED
      BY <3>1, <3>2
  <2> QED
    BY <2>1, <2>2
<1>8. Stacks'
  BY <1>4 DEF IInv, Stacks, Busy, Current
<1>9. ConnectionsAccounted'
  BY <1>4, SameHolders DEF IInv
<1> QED
  BY <1>6, <1>7, <1>8, <1>9 DEF IInv, Txs

(* A transaction begins: it holds nothing yet. *)
LEMMA StartIInv ==
  ASSUME IInv, NEW c \in Contexts, NEW i \in Txs, Start(c, i)
  PROVE  IInv'
<1>1. /\ running' = [running EXCEPT ![c] = Append(@, i)]
      /\ status' = [status EXCEPT ![i] = "active"]
      /\ UNCHANGED <<cons, out, fault, want, free>>
      /\ status[i] = "none" /\ want[c] = NoSource
  BY DEF Start
<1>2. running[c] \in Seq(Txs) /\ DOMAIN running[c] = 1 .. Len(running[c]) /\ Len(running[c]) \in Nat
  BY DEF IInv, TypeOK
<1>3. /\ running'[c] \in Seq(Txs) /\ DOMAIN running'[c] = 1 .. Len(running[c]) + 1
      /\ \A n \in DOMAIN running[c] : running'[c][n] = running[c][n]
      /\ running'[c][Len(running[c]) + 1] = i
      /\ \A e \in Contexts : e # c => running'[e] = running[e]
  BY <1>1, <1>2 DEF IInv, TypeOK
<1>4. \A e \in Contexts : \A n \in DOMAIN running[e] : running[e][n] # i
  BY <1>1 DEF IInv, Stacks, InProgress
<1>5. TypeOK'
  <2>1. running' \in [Contexts -> Seq(Txs)]
    BY <1>1, <1>3 DEF IInv, TypeOK
  <2> QED
    BY <1>1, <2>1 DEF IInv, TypeOK, Statuses
<1>6. ASSUME NEW j \in Txs PROVE Shape(j)'
  <2>1. CASE j = i
    BY <1>1, <2>1 DEF IInv, TypeOK, Shape, Uncommitted, CommittedUpTo
  <2>2. CASE j # i
    BY <1>1, <2>2 DEF IInv, TypeOK, Shape, Uncommitted, CommittedUpTo
  <2> QED
    BY <2>1, <2>2
<1>7. Stacks'
  <2>1. ASSUME NEW e \in Contexts, NEW n \in DOMAIN running'[e]
        PROVE  status'[running'[e][n]] \in InProgress
    BY <1>1, <1>2, <1>3, <1>4 DEF IInv, TypeOK, Stacks, InProgress
  <2>2. ASSUME NEW d \in Contexts, NEW e \in Contexts,
               NEW m \in DOMAIN running'[d], NEW n \in DOMAIN running'[e],
               running'[d][m] = running'[e][n]
        PROVE  d = e /\ m = n
    <3>1. \/ d = c /\ m = Len(running[c]) + 1 /\ running'[d][m] = i
          \/ m \in DOMAIN running[d] /\ running'[d][m] = running[d][m] /\ running[d][m] # i
      BY <1>2, <1>3, <1>4, SMTT(30)
    <3>2. \/ e = c /\ n = Len(running[c]) + 1 /\ running'[e][n] = i
          \/ n \in DOMAIN running[e] /\ running'[e][n] = running[e][n] /\ running[e][n] # i
      BY <1>2, <1>3, <1>4, SMTT(30)
    <3>3. CASE running'[d][m] = i
      BY <2>2, <3>1, <3>2, <3>3
    <3>4. CASE running'[d][m] # i
      <4>1. m \in DOMAIN running[d] /\ n \in DOMAIN running[e] /\ running[d][m] = running[e][n]
        BY <2>2, <3>1, <3>2, <3>4
      <4> QED
        BY <4>1 DEF IInv, Stacks
    <3> QED
      BY <3>3, <3>4
  <2>3. ASSUME NEW e \in Contexts, want'[e] # NoSource
        PROVE  (Busy(e) /\ status[Current(e)] = "active")'
    <3>1. e # c /\ Busy(e) /\ status[Current(e)] = "active" /\ running'[e] = running[e]
      BY <1>1, <1>3, <2>3 DEF IInv, Stacks
    <3> QED
      BY <1>1, <1>4, <3>1, CurrentIsLast DEF IInv, TypeOK, Busy, Current
  <2> QED
    BY <2>1, <2>2, <2>3 DEF Stacks
<1>8. \A j \in Txs : Live(j)' <=> Live(j) \/ j = i
  BY <1>2, <1>3, SMTT(30) DEF Live
<1>9. ConsOf(i) = {} /\ DOMAIN cons[i] = {}
  BY <1>1 DEF IInv, Shape, ConsOf
<1>10. ConnectionsAccounted'
  <2>1. \A j \in Txs : ConsOf(j)' = ConsOf(j)
    BY <1>1 DEF ConsOf
  <2>2. (\A k \in Conns : k \in free \/ \E j \in Txs : Live(j) /\ k \in ConsOf(j))'
    BY <1>1, <1>8, <2>1 DEF IInv, ConnectionsAccounted
  <2>3. (\A j \in Txs : Live(j) => ConsOf(j) \cap free = {})'
    BY <1>1, <1>8, <1>9, <2>1 DEF IInv, ConnectionsAccounted
  <2>4. (\A j, l \in Txs : Live(j) /\ Live(l) =>
           \A m \in DOMAIN cons[j], n \in DOMAIN cons[l] :
             cons[j][m].con = cons[l][n].con => j = l /\ m = n)'
    BY <1>1, <1>8, <1>9 DEF IInv, ConnectionsAccounted
  <2> QED
    BY <2>2, <2>3, <2>4 DEF ConnectionsAccounted
<1> QED
  BY <1>5, <1>6, <1>7, <1>10 DEF IInv, Txs

(* A connection leaves its pool for a transaction. *)
LEMMA ConnectIInv ==
  ASSUME IInv, NEW c \in Contexts, NEW k \in Conns, Connect(c, k)
  PROVE  IInv'
<1>0. PICK i \in Txs : i = Current(c)
  BY CurrentIsLast DEF IInv, Stacks, Connect
<1>1. Busy(c) /\ status[i] = "active" /\ Live(i)
  BY <1>0, CurrentIsLast DEF IInv, Stacks, Connect
<1>2. /\ free' = free \ {k} /\ k \in free
      /\ cons' = [cons EXCEPT ![i] = Append(@, [source |-> want[c], con |-> k])]
      /\ want' = [want EXCEPT ![c] = NoSource] /\ want[c] \in Sources
      /\ UNCHANGED <<running, status, out, fault>>
  BY <1>0 DEF IInv, TypeOK, Connect, Idle
<1>3. PICK e \in Enlisted : e = [source |-> want[c], con |-> k] /\ e.con = k
  BY <1>2 DEF Enlisted
<1>4. cons[i] \in Seq(Enlisted) /\ DOMAIN cons[i] = 1 .. Len(cons[i]) /\ Len(cons[i]) \in Nat
  BY <1>1 DEF IInv, TypeOK
<1>5. cons'[i] = Append(cons[i], e) /\ \A j \in Txs : j # i => cons'[j] = cons[j]
  BY <1>1, <1>2, <1>3 DEF IInv, TypeOK
<1>6. /\ cons'[i] \in Seq(Enlisted) /\ DOMAIN cons'[i] = 1 .. Len(cons[i]) + 1
      /\ Len(cons'[i]) = Len(cons[i]) + 1
      /\ \A n \in DOMAIN cons[i] : cons'[i][n] = cons[i][n]
      /\ cons'[i][Len(cons[i]) + 1] = e
  BY <1>3, <1>4, <1>5
<1>7. TypeOK'
  <2>1. cons' \in [Txs -> Seq(Enlisted)]
    BY <1>1, <1>2, <1>3, <1>6 DEF IInv, TypeOK
  <2>2. ASSUME NEW j \in Txs
        PROVE  fault'[j] <= Len(out'[j]) /\ Len(out'[j]) <= Len(cons'[j])
    BY <1>1, <1>2, <1>4, <1>5, <1>6 DEF IInv, TypeOK
  <2> QED
    BY <1>2, <2>1, <2>2 DEF IInv, TypeOK
<1>8. ASSUME NEW j \in Txs PROVE Shape(j)'
  BY <1>1, <1>2, <1>5 DEF IInv, Shape, Uncommitted, CommittedUpTo
<1>9. Stacks'
  BY <1>2 DEF IInv, TypeOK, Stacks, Busy, Current
<1>10. \A j \in Txs : Live(j)' <=> Live(j)
  BY <1>2 DEF Live
<1>11. ConsOf(i)' = ConsOf(i) \cup {k} /\ \A j \in Txs : j # i => ConsOf(j)' = ConsOf(j)
  BY <1>3, <1>4, <1>5, <1>6 DEF ConsOf
<1>12. ConnectionsAccounted'
  <2>1. (\A l \in Conns : l \in free \/ \E j \in Txs : Live(j) /\ l \in ConsOf(j))'
    BY <1>1, <1>2, <1>10, <1>11 DEF IInv, ConnectionsAccounted
  <2>2. (\A j \in Txs : Live(j) => ConsOf(j) \cap free = {})'
    BY <1>2, <1>10, <1>11 DEF IInv, ConnectionsAccounted
  <2>3. \A j \in Txs : Live(j) => \A n \in DOMAIN cons[j] : cons[j][n].con # k
    BY <1>2 DEF IInv, ConnectionsAccounted, ConsOf
  <2>4. ASSUME NEW j \in Txs, NEW l \in Txs, Live(j)', Live(l)',
               NEW m \in DOMAIN cons'[j], NEW n \in DOMAIN cons'[l],
               cons'[j][m].con = cons'[l][n].con
        PROVE  j = l /\ m = n
    <3>1. \/ m \in DOMAIN cons[j] /\ cons'[j][m] = cons[j][m]
          \/ j = i /\ m = Len(cons[i]) + 1 /\ cons'[j][m].con = k
      BY <1>3, <1>4, <1>5, <1>6, SMTT(30)
    <3>2. \/ n \in DOMAIN cons[l] /\ cons'[l][n] = cons[l][n]
          \/ l = i /\ n = Len(cons[i]) + 1 /\ cons'[l][n].con = k
      BY <1>3, <1>4, <1>5, <1>6, SMTT(30)
    <3> QED
      BY <1>10, <2>3, <2>4, <3>1, <3>2 DEF IInv, ConnectionsAccounted
  <2> QED
    BY <2>1, <2>2, <2>4 DEF ConnectionsAccounted
<1> QED
  BY <1>7, <1>8, <1>9, <1>12 DEF IInv, Txs

(* The transaction is over: its connections go back to their pools, and the one
   below it on the stack is current again.                                  *)
LEMMA CompleteIInv ==
  ASSUME IInv, NEW c \in Contexts, Complete(c)
  PROVE  IInv'
<1>0. PICK i \in Txs : i = Current(c)
  BY CurrentIsLast DEF IInv, Complete
<1>1. /\ Busy(c) /\ status[i] \in {"committing", "rolling"} /\ Len(out[i]) = Len(cons[i])
      /\ status' = [status EXCEPT ![i] =
           IF @ = "committing" THEN Verdict(i)
           ELSE IF fault[i] = 0 THEN "rolledback" ELSE "unknown"]
      /\ free' = free \cup ConsOf(i)
      /\ running' = [running EXCEPT ![c] = SubSeq(@, 1, Len(@) - 1)]
      /\ UNCHANGED <<cons, out, fault, want>>
  BY <1>0 DEF Complete, Returned
<1>2. /\ running[c] \in Seq(Txs) /\ Len(running[c]) \in Nat \ {0}
      /\ DOMAIN running[c] = 1 .. Len(running[c]) /\ running[c][Len(running[c])] = i /\ Live(i)
  BY <1>0, <1>1, CurrentIsLast DEF IInv, TypeOK
<1>3. /\ running'[c] \in Seq(Txs) /\ DOMAIN running'[c] = 1 .. Len(running[c]) - 1
      /\ \A n \in DOMAIN running'[c] : running'[c][n] = running[c][n] /\ n \in DOMAIN running[c]
      /\ \A e \in Contexts : e # c => running'[e] = running[e]
  <2>1. \A n \in 1 .. Len(running[c]) - 1 : running[c][n] \in Txs
    BY <1>2
  <2>2. running'[c] = SubSeq(running[c], 1, Len(running[c]) - 1)
    BY <1>1 DEF IInv, TypeOK
  <2>3. /\ running'[c] \in Seq(Txs)
        /\ Len(running'[c]) = Len(running[c]) - 1
        /\ \A n \in 1 .. Len(running[c]) - 1 : running'[c][n] = running[c][n]
    BY <1>2, <2>1, <2>2, SubSeqProperties
  <2>4. DOMAIN running'[c] = 1 .. Len(running[c]) - 1
    BY <1>2, <2>3
  <2>5. \A n \in 1 .. Len(running[c]) - 1 : n \in 1 .. Len(running[c])
    BY <1>2
  <2>6. \A e \in Contexts : e # c => running'[e] = running[e]
    BY <1>1 DEF IInv, TypeOK
  <2> QED
    BY <1>2, <2>3, <2>4, <2>5, <2>6
<1>4. \A e \in Contexts : \A n \in DOMAIN running'[e] :
        n \in DOMAIN running[e] /\ running'[e][n] = running[e][n] /\ running[e][n] # i
  BY <1>2, <1>3 DEF IInv, Stacks
<1>5. Verdict(i) \in {"committed", "rolledback", "unknown"}
  BY DEF Verdict
<1>6. TypeOK'
  <2>1. running' \in [Contexts -> Seq(Txs)]
    BY <1>1, <1>3 DEF IInv, TypeOK
  <2>2. ConsOf(i) \subseteq Conns
    <3>1. \A n \in DOMAIN cons[i] : cons[i][n] \in Enlisted
      BY DEF IInv, TypeOK
    <3> QED
      BY <3>1 DEF ConsOf, Enlisted
  <2> QED
    BY <1>1, <1>5, <2>1, <2>2 DEF IInv, TypeOK, Statuses
<1>7. ASSUME NEW j \in Txs PROVE Shape(j)'
  <2>1. CASE j = i
    <3>1. CASE status[i] = "committing"
      <4>1. status'[i] = Verdict(i) /\ CommittedUpTo(i)
        BY <1>1, <3>1 DEF IInv, TypeOK, Shape
      <4>2. CommittedUpTo(i)'
        BY <1>1, <4>1 DEF CommittedUpTo
      <4> QED
        BY <1>1, <2>1, <4>1, <4>2 DEF Shape, Verdict
    <3>2. CASE status[i] = "rolling"
      <4>1. status'[i] \in {"rolledback", "unknown"} /\ Uncommitted(i)
        BY <1>1, <3>2 DEF IInv, TypeOK, Shape
      <4>2. Uncommitted(i)'
        BY <1>1, <4>1 DEF Uncommitted
      <4> QED
        BY <1>1, <2>1, <4>1, <4>2 DEF Shape
    <3> QED
      BY <1>1, <3>1, <3>2
  <2>2. CASE j # i
    BY <1>1, <2>2 DEF IInv, TypeOK, Shape, Uncommitted, CommittedUpTo
  <2> QED
    BY <2>1, <2>2
<1>8. Stacks'
  <2>1. ASSUME NEW e \in Contexts, NEW n \in DOMAIN running'[e]
        PROVE  status'[running'[e][n]] \in InProgress
    <3>1. running[e][n] \in Txs /\ n \in DOMAIN running[e]
      BY <1>4 DEF IInv, TypeOK
    <3> QED
      BY <1>1, <1>4, <3>1, SMTT(30) DEF IInv, TypeOK, Stacks
  <2>2. ASSUME NEW d \in Contexts, NEW e \in Contexts,
               NEW m \in DOMAIN running'[d], NEW n \in DOMAIN running'[e],
               running'[d][m] = running'[e][n]
        PROVE  d = e /\ m = n
    BY <1>4, <2>2 DEF IInv, Stacks
  <2>3. ASSUME NEW e \in Contexts, want'[e] # NoSource
        PROVE  (Busy(e) /\ status[Current(e)] = "active")'
    <3>1. Busy(e) /\ status[Current(e)] = "active"
      BY <1>1, <2>3 DEF IInv, Stacks
    <3>2. e # c /\ running'[e] = running[e]
      BY <1>0, <1>1, <1>3, <3>1
    <3>3. Current(e) # i /\ Current(e) \in Txs
      BY <1>1, <3>1, CurrentIsLast DEF IInv
    <3> QED
      BY <1>1, <3>1, <3>2, <3>3 DEF IInv, TypeOK, Busy, Current
  <2> QED
    BY <2>1, <2>2, <2>3 DEF Stacks
<1>9. \A j \in Txs : Live(j)' <=> Live(j) /\ j # i
  <2>1. ASSUME NEW j \in Txs, Live(j), j # i PROVE Live(j)'
    <3>1. PICK e \in Contexts : \E n \in DOMAIN running[e] : running[e][n] = j
      BY <2>1 DEF Live
    <3>2. PICK n \in DOMAIN running[e] : running[e][n] = j
      BY <3>1
    <3>3. e = c => n \in 1 .. Len(running[c]) - 1
      BY <1>2, <2>1, <3>2
    <3>4. n \in DOMAIN running'[e] /\ running'[e][n] = j
      BY <1>3, <3>2, <3>3
    <3> QED
      BY <3>4 DEF Live
  <2> QED
    BY <1>4, <2>1 DEF Live
<1>10. ConnectionsAccounted'
  <2>1. \A j \in Txs : ConsOf(j)' = ConsOf(j)
    BY <1>1 DEF ConsOf
  <2>2. (\A k \in Conns : k \in free \/ \E j \in Txs : Live(j) /\ k \in ConsOf(j))'
    BY <1>1, <1>9, <2>1 DEF IInv, ConnectionsAccounted
  <2>3. ASSUME NEW j \in Txs, Live(j), j # i PROVE ConsOf(j) \cap ConsOf(i) = {}
    BY <1>2, <2>3 DEF IInv, ConnectionsAccounted, ConsOf
  <2>4. (\A j \in Txs : Live(j) => ConsOf(j) \cap free = {})'
    BY <1>1, <1>9, <2>1, <2>3 DEF IInv, ConnectionsAccounted
  <2>5. (\A j, l \in Txs : Live(j) /\ Live(l) =>
           \A m \in DOMAIN cons[j], n \in DOMAIN cons[l] :
             cons[j][m].con = cons[l][n].con => j = l /\ m = n)'
    BY <1>1, <1>9 DEF IInv, ConnectionsAccounted
  <2> QED
    BY <2>2, <2>4, <2>5 DEF ConnectionsAccounted
<1> QED
  BY <1>6, <1>7, <1>8, <1>10 DEF IInv, Txs

(* A crash: nothing is held, and what was in progress stays as it was. *)
LEMMA CrashIInv ==
  ASSUME IInv, Crash
  PROVE  IInv'
<1>1. TypeOK'
  BY DEF IInv, TypeOK, Crash, Statuses
<1>2. ASSUME NEW i \in Txs PROVE Shape(i)'
  BY DEF IInv, TypeOK, Crash, Shape, Uncommitted, CommittedUpTo
<1>3. Stacks' /\ ConnectionsAccounted'
  BY DEF Crash, Stacks, ConnectionsAccounted, Live
<1> QED
  BY <1>1, <1>2, <1>3 DEF IInv, Txs
-----------------------------------------------------------------------------
(* No step breaks the invariant. *)
LEMMA NextIInv == IInv /\ [Next]_vars => IInv'
<1> SUFFICES ASSUME IInv, [Next]_vars PROVE IInv'
  OBVIOUS
<1>1. CASE UNCHANGED vars
  <2>1. TypeOK' /\ Stacks' /\ ConnectionsAccounted'
    BY <1>1, SameHolders DEF IInv, vars, TypeOK, Stacks, Busy, Current
  <2>2. \A i \in Txs : Shape(i)'
    BY <1>1 DEF IInv, vars, Shape, Uncommitted, CommittedUpTo
  <2> QED
    BY <2>1, <2>2 DEF IInv, Txs
<1>2. CASE Crash
  BY <1>2, CrashIInv
<1>3. ASSUME NEW c \in Contexts, Step(c) PROVE IInv'
  <2>1. ASSUME NEW k \in Conns, Connect(c, k) PROVE IInv'
    BY <2>1, ConnectIInv
  <2>2. CASE SchemaFails(c) \/ TimeOut(c)
    BY <2>2, WantIInv DEF SchemaFails, TimeOut
  <2>3. CASE CommitNext(c)
    <3>1. Due(c, "committing")
      BY <2>3 DEF CommitNext
    <3>2. CASE fault[Current(c)] = 0
      <4>1. \/ Visit(Current(c), "committed", FALSE)
            \/ \E outcome \in {"committed", "rolledback"} : Visit(Current(c), outcome, TRUE)
        BY <2>3, <3>2 DEF CommitNext, StillCommits
      <4>2. CASE Visit(Current(c), "committed", FALSE)
        BY <3>1, <3>2, <4>2, VisitIInv
      <4>3. ASSUME NEW outcome \in {"committed", "rolledback"}, Visit(Current(c), outcome, TRUE)
            PROVE  IInv'
        BY <3>1, <3>2, <4>3, VisitIInv
      <4> QED
        BY <4>1, <4>2, <4>3
    <3>3. CASE fault[Current(c)] # 0
      <4>1. Visit(Current(c), "rolledback", FALSE)
        BY <2>3, <3>3 DEF CommitNext, StillCommits
      <4> QED
        BY <3>1, <3>3, <4>1, VisitIInv
    <3> QED
      BY <3>2, <3>3
  <2>4. CASE RollbackNext(c)
    <3>1. PICK threw \in BOOLEAN : Due(c, "rolling") /\ Visit(Current(c), "rolledback", threw)
      BY <2>4 DEF RollbackNext
    <3> QED
      BY <3>1, VisitIInv
  <2>5. CASE Complete(c)
    BY <2>5, CompleteIInv
  <2> QED
    BY <1>3, <2>1, <2>2, <2>3, <2>4, <2>5 DEF Step
<1>4. ASSUME NEW c \in Contexts, End(c) PROVE IInv'
  <2>1. Open(c) /\ UNCHANGED <<running, cons, out, fault, want, free>>
    BY <1>4 DEF End, Commit, Rollback
  <2>2. PICK st \in {"committing", "rolling"} : status' = [status EXCEPT ![Current(c)] = st]
    BY <1>4 DEF End, Commit, Rollback, Decided
  <2> QED
    BY <2>1, <2>2, DecideIInv
<1>5. ASSUME NEW c \in Contexts, Code(c) PROVE IInv'
  <2>1. ASSUME NEW i \in Txs, Start(c, i) PROVE IInv'
    BY <2>1, StartIInv
  <2>2. ASSUME NEW d \in Sources, Ask(c, d) PROVE IInv'
    BY <2>2, WantIInv DEF Ask, Open
  <2>3. CASE SetRollbackOnly(c)
    BY <2>3, DecideIInv DEF SetRollbackOnly
  <2> QED
    BY <1>5, <2>1, <2>2, <2>3 DEF Code
<1> QED
  BY <1>1, <1>2, <1>3, <1>4, <1>5 DEF Next

(* The invariant holds in every reachable state, fairness or not. *)
THEOREM TxInvariant == Spec => []IInv
  BY InitIInv, NextIInv, PTL DEF Spec

(* Types hold, and completion never visits more than what is enlisted. *)
THEOREM TxTypes == Spec => []TypeOK
<1>1. IInv => TypeOK
  BY DEF IInv
<1> QED
  BY <1>1, TxInvariant, PTL

(* No connection leaks and none is shared, whatever fails. *)
THEOREM TxConnections == Spec => []ConnectionsAccounted
<1>1. IInv => ConnectionsAccounted
  BY DEF IInv
<1> QED
  BY <1>1, TxInvariant, PTL

(* A partial commit is a prefix of the data sources in order of first use. *)
THEOREM TxPrefix == Spec => []CommittedPrefix
<1>1. IInv => CommittedPrefix
  <2> SUFFICES ASSUME IInv, NEW i \in Txs, NEW m \in DOMAIN out[i], NEW n \in DOMAIN out[i],
                      m < n, out[i][n] = "committed"
               PROVE  out[i][m] = "committed"
    BY DEF CommittedPrefix
  <2>1. CommittedUpTo(i)
    BY DEF IInv, Shape, Uncommitted
  <2>2. m \in Nat /\ n \in Nat /\ fault[i] \in Nat
    BY DEF IInv, TypeOK
  <2> QED
    BY <2>1, <2>2 DEF CommittedUpTo
<1> QED
  BY <1>1, TxInvariant, PTL

(* The reported status is true of the databases. *)
THEOREM TxVerdict == Spec => []VerdictTrue
<1>1. IInv => VerdictTrue
  <2> SUFFICES ASSUME IInv, NEW i \in Txs
               PROVE  /\ status[i] = "committed" =>
                            Len(out[i]) = Len(cons[i]) /\ \A n \in DOMAIN out[i] : out[i][n] = "committed"
                      /\ status[i] = "rolledback" =>
                            \A n \in DOMAIN out[i] : n > 1 => out[i][n] = "rolledback"
    BY DEF VerdictTrue
  <2>1. Shape(i)
    BY DEF IInv
  <2>2. CASE status[i] = "committed"
    BY <2>1, <2>2 DEF Shape, CommittedUpTo
  <2>3. CASE status[i] = "rolledback"
    BY <2>1, <2>3 DEF Shape, Uncommitted, CommittedUpTo
  <2> QED
    BY <2>2, <2>3
<1> QED
  BY <1>1, TxInvariant, PTL
-----------------------------------------------------------------------------
(* Marked rollback-only once, or rolled back, and with nothing committed. *)
Doomed(i) == status[i] \in {"marked", "rolling", "rolledback", "unknown", "lost"} /\ Uncommitted(i)

(* No step takes a doomed transaction back. *)
LEMMA DoomedStays ==
  ASSUME NEW i \in Txs
  PROVE  IInv /\ Doomed(i) /\ [Next]_vars => Doomed(i)'
<1> SUFFICES ASSUME IInv, Doomed(i), [Next]_vars PROVE Doomed(i)'
  OBVIOUS
<1>1. CASE UNCHANGED <<status, out>>
  BY <1>1 DEF Doomed, Uncommitted
<1>2. CASE Crash
  BY <1>2 DEF IInv, TypeOK, Crash, Doomed, Uncommitted
<1>3. ASSUME NEW c \in Contexts, CommitNext(c) \/ RollbackNext(c) PROVE Doomed(i)'
  <2>1. PICK st \in {"committing", "rolling"}, outcome \in {"committed", "rolledback"} :
          /\ Due(c, st) /\ (st = "rolling" => outcome = "rolledback")
          /\ out' = [out EXCEPT ![Current(c)] = Append(@, outcome)] /\ UNCHANGED status
    BY <1>3 DEF CommitNext, RollbackNext, Visit
  <2>2. CASE Current(c) = i
    <3>1. outcome = "rolledback" /\ out[i] \in Seq({"committed", "rolledback"})
      BY <2>1, <2>2 DEF IInv, TypeOK, Due, Doomed
    <3>2. out'[i] = Append(out[i], "rolledback")
      BY <2>1, <2>2, <3>1 DEF IInv, TypeOK
    <3>3. \A n \in DOMAIN out'[i] : (n \in DOMAIN out[i] /\ out'[i][n] = out[i][n]) \/ out'[i][n] = "rolledback"
      BY <3>1, <3>2
    <3> QED
      BY <2>1, <3>3 DEF Doomed, Uncommitted
  <2>3. CASE Current(c) # i
    BY <2>1, <2>3 DEF IInv, TypeOK, Doomed, Uncommitted
  <2> QED
    BY <2>2, <2>3
<1>4. ASSUME NEW c \in Contexts, Complete(c) PROVE Doomed(i)'
  <2>1. out' = out /\ Current(c) \in Txs
    BY <1>4, CurrentIsLast DEF IInv, Complete
  <2>2. status'[i] = status[i] \/ (status[i] = "rolling" /\ status'[i] \in {"rolledback", "unknown"})
    BY <1>4, <2>1 DEF IInv, TypeOK, Complete, Doomed
  <2> QED
    BY <2>1, <2>2 DEF Doomed, Uncommitted
<1>5. ASSUME NEW c \in Contexts, End(c) \/ SetRollbackOnly(c) PROVE Doomed(i)'
  <2>1. Current(c) \in Txs /\ Open(c) /\ out' = out
    BY <1>5, CurrentIsLast DEF IInv, Open, End, Commit, Rollback, SetRollbackOnly
  <2>2. status'[i] = status[i] \/ status'[i] \in {"marked", "rolling"}
    BY <1>5, <2>1 DEF IInv, TypeOK, End, Commit, Rollback, SetRollbackOnly, Decided, Open, Doomed
  <2> QED
    BY <2>1, <2>2 DEF Doomed, Uncommitted
<1>6. ASSUME NEW c \in Contexts, NEW j \in Txs, Start(c, j) PROVE Doomed(i)'
  BY <1>6 DEF IInv, TypeOK, Start, Doomed, Uncommitted
<1> QED
  BY <1>1, <1>2, <1>3, <1>4, <1>5, <1>6
     DEF Next, Step, Code, Connect, SchemaFails, TimeOut, Ask, vars

(* What is marked rollback-only is never committed, not even in part. *)
THEOREM TxMarked == Spec => MarkedNeverCommits
<1> SUFFICES ASSUME NEW i \in Txs
             PROVE  Spec => [](status[i] = "marked" => [](\A n \in DOMAIN out[i] : out[i][n] = "rolledback"))
  BY DEF MarkedNeverCommits
<1>1. IInv /\ status[i] = "marked" => Doomed(i)
  BY DEF IInv, Shape, Doomed, Uncommitted
<1>2. Doomed(i) => \A n \in DOMAIN out[i] : out[i][n] = "rolledback"
  BY DEF Doomed, Uncommitted
<1> QED
  BY <1>1, <1>2, TxInvariant, DoomedStays, PTL DEF Spec
-----------------------------------------------------------------------------
(* What completion leaves behind.                                          *)

Reported == {"committed", "rolledback", "unknown"}

(* Only a transaction that is current somewhere, or begins, is touched. *)
LEMMA TouchesCurrent ==
  ASSUME IInv, [Next]_vars, NEW i \in Txs, status[i] \notin InProgress
  PROVE  /\ cons'[i] = cons[i] /\ out'[i] = out[i]
         /\ status'[i] = status[i] \/ (status[i] = "none" /\ status'[i] = "active")
<1>1. \A c \in Contexts : Busy(c) => Current(c) # i
  <2> SUFFICES ASSUME NEW c \in Contexts, Busy(c) PROVE Current(c) # i
    OBVIOUS
  <2> QED
    BY CurrentIsLast DEF IInv, Stacks
<1>2. ~Live(i)
  BY DEF IInv, Stacks, Live
<1>3. CASE UNCHANGED vars
  BY <1>3 DEF vars
<1>4. CASE Crash
  BY <1>2, <1>4 DEF Crash
<1>5. ASSUME NEW c \in Contexts, NEW k \in Conns, Connect(c, k)
      PROVE  cons'[i] = cons[i] /\ out' = out /\ status' = status
  BY <1>1, <1>5 DEF Connect, IInv, TypeOK, Stacks
<1>6. ASSUME NEW c \in Contexts, CommitNext(c) \/ RollbackNext(c)
      PROVE  cons' = cons /\ out'[i] = out[i] /\ status' = status
  BY <1>1, <1>6 DEF CommitNext, RollbackNext, Due, Visit, IInv, TypeOK
<1>7. ASSUME NEW c \in Contexts, Complete(c)
      PROVE  cons' = cons /\ out' = out /\ status'[i] = status[i]
  BY <1>1, <1>7 DEF Complete, IInv, TypeOK
<1>8. ASSUME NEW c \in Contexts, End(c) \/ SetRollbackOnly(c)
      PROVE  cons' = cons /\ out' = out /\ status'[i] = status[i]
  BY <1>1, <1>8 DEF End, Commit, Rollback, SetRollbackOnly, Open, IInv, TypeOK
<1>9. ASSUME NEW c \in Contexts, NEW j \in Txs, Start(c, j)
      PROVE  /\ cons' = cons /\ out' = out
             /\ status'[i] = status[i] \/ (status[i] = "none" /\ status'[i] = "active")
  BY <1>9 DEF Start, IInv, TypeOK
<1>10. ASSUME NEW c \in Contexts, SchemaFails(c) \/ TimeOut(c) \/ \E d \in Sources : Ask(c, d)
       PROVE  cons' = cons /\ out' = out /\ status' = status
  BY <1>10 DEF SchemaFails, TimeOut, Ask
<1> QED
  BY <1>3, <1>4, <1>5, <1>6, <1>7, <1>8, <1>9, <1>10 DEF Next, Step, Code

(* Nothing is given back unfinished: of a transaction whose end was reported,
   whatever the report, each enlisted connection has been committed or rolled
   back, those after a failure included.                                    *)
NoneReturnedOpen == \A i \in Txs : status[i] \in Reported => Len(out[i]) = Len(cons[i])

(* What Complete reports of is finished, and no step enlists or visits a
   connection of what is over.                                              *)
LEMMA NextReturned == IInv /\ NoneReturnedOpen /\ [Next]_vars => NoneReturnedOpen'
<1> SUFFICES ASSUME IInv, NoneReturnedOpen, [Next]_vars, NEW i \in Txs, status'[i] \in Reported
             PROVE  Len(out'[i]) = Len(cons'[i])
  BY DEF NoneReturnedOpen, Txs
<1>1. CASE status[i] \notin InProgress
  BY <1>1, TouchesCurrent DEF NoneReturnedOpen, Reported
<1>2. CASE status[i] \in InProgress
  <2>1. PICK c \in Contexts : Complete(c)
    <3>1. status'[i] # status[i] /\ status'[i] \notin InProgress /\ status'[i] # "lost"
      BY <1>2 DEF InProgress, Reported
    <3>2. ~UNCHANGED status /\ ~Crash
      BY <1>2, <3>1 DEF Crash, IInv, TypeOK
    <3>3. ASSUME NEW c \in Contexts, End(c) \/ SetRollbackOnly(c) PROVE FALSE
      BY <3>1, <3>3 DEF End, Commit, Rollback, SetRollbackOnly, Decided, IInv, TypeOK, InProgress
    <3>4. ASSUME NEW c \in Contexts, NEW j \in Txs, Start(c, j) PROVE FALSE
      BY <3>1, <3>4 DEF Start, IInv, TypeOK, InProgress
    <3> QED
      BY <3>2, <3>3, <3>4
         DEF Next, Step, Code, Connect, SchemaFails, TimeOut, CommitNext, RollbackNext, Visit, Ask, vars
  <2>2. out' = out /\ cons' = cons /\ Len(out[Current(c)]) = Len(cons[Current(c)])
    BY <2>1 DEF Complete
  <2>3. Current(c) = i
    BY <1>2, <2>1 DEF Complete, IInv, TypeOK, InProgress, Reported
  <2> QED
    BY <2>2, <2>3
<1> QED
  BY <1>1, <1>2

(* No connection goes back to its pool with a transaction open in the database,
   whichever of the others failed.                                          *)
THEOREM TxAllVisited == Spec => []NoneReturnedOpen
<1>1. Init => NoneReturnedOpen
  BY DEF Init, NoneReturnedOpen, Reported
<1> QED
  BY <1>1, TxInvariant, NextReturned, PTL DEF Spec

(* Once a transaction is over, by its report or by a crash, neither the report
   nor what it did changes, whatever the contexts that held it go on to do; and
   none that is marked or being completed takes another connection.         *)
VerdictFinal ==
  [][\A i \in Txs :
       /\ status[i] \in Reported \cup {"lost"} =>
            status'[i] = status[i] /\ out'[i] = out[i] /\ cons'[i] = cons[i]
       /\ status[i] \in {"marked", "committing", "rolling"} => cons'[i] = cons[i]]_vars

LEMMA ConsFrozen ==
  ASSUME IInv, [Next]_vars, NEW i \in Txs, status[i] \in {"marked", "committing", "rolling"}
  PROVE  cons'[i] = cons[i]
<1>1. ASSUME NEW c \in Contexts, NEW k \in Conns, Connect(c, k) PROVE cons'[i] = cons[i]
  <2>1. status[Current(c)] = "active"
    BY <1>1 DEF Connect, IInv, Stacks
  <2> QED
    BY <1>1, <2>1 DEF Connect, IInv, TypeOK
<1>2. CASE UNCHANGED cons
  BY <1>2
<1> QED
  BY <1>1, <1>2
     DEF Next, Step, End, Code, Start, Ask, SchemaFails, TimeOut, SetRollbackOnly, Commit, Rollback,
         CommitNext, RollbackNext, Visit, Complete, Crash, vars

(* A report is never revised. *)
THEOREM TxFinal == Spec => VerdictFinal
<1>1. IInv /\ [Next]_vars =>
        [\A i \in Txs :
           /\ status[i] \in Reported \cup {"lost"} =>
                status'[i] = status[i] /\ out'[i] = out[i] /\ cons'[i] = cons[i]
           /\ status[i] \in {"marked", "committing", "rolling"} => cons'[i] = cons[i]]_vars
  BY TouchesCurrent, ConsFrozen DEF Reported, InProgress
<1> QED
  BY <1>1, TxInvariant, PTL DEF Spec, VerdictFinal

(* When no request is in a transaction every connection is idle: none leaks. *)
NoLeak == (\A c \in Contexts : ~Busy(c)) => free = Conns

(* The pools are whole again when all transactions are over, whatever failed. *)
THEOREM TxNoLeak == Spec => []NoLeak
<1>1. IInv => NoLeak
  <2> SUFFICES ASSUME IInv, \A c \in Contexts : ~Busy(c) PROVE free = Conns
    BY DEF NoLeak
  <2>1. \A i \in Txs : ~Live(i)
    BY DEF Live, Busy
  <2> QED
    BY <2>1 DEF IInv, ConnectionsAccounted, TypeOK
<1> QED
  BY <1>1, TxInvariant, PTL
=============================================================================
