-------------------------- MODULE WalletMoneyProofs --------------------------
(***************************************************************************)
(* Where the money is, in every interleaving: lots and debits account for  *)
(* each other to the unit, and the service implements the atomic account   *)
(* of WalletLedger.  The argument adds up rows, so it rests on the laws of *)
(* totals, and on WalletProofs for what a request's reads are worth.       *)
(***************************************************************************)
EXTENDS WalletProofs

(* A refund was posted on a debit that exists. *)
RefundsOfDebits ==
  \A r \in Requests : txns[r].type = "REFUND" => txns[in[r].target].type = "DEBIT"

MoneyInv == IInv /\ RefundsOfDebits /\ LotsConserved /\ DebitsBacked

(* The amounts that are added up are natural numbers. *)
LEMMA AmountTypes ==
  ASSUME TypeOK, NEW r \in Requests
  PROVE  /\ Held(r) \in [Requests -> Nat] /\ Total(Held(r)) \in Nat
         /\ Refundable(r) \in [Requests -> Nat] /\ Total(Refundable(r)) \in Nat
         /\ Refunded(r) \in [Requests -> Nat] /\ Total(Refunded(r)) \in Nat
         /\ Remaining \in [Requests -> Nat] /\ Total(Remaining) \in Nat
<1>1. Held(r) \in [Requests -> Nat] /\ Refundable(r) \in [Requests -> Nat]
  BY DEF TypeOK, LotTxnRow, Held, Refundable
<1>2. Refunded(r) \in [Requests -> Nat]
  BY DEF TypeOK, TxnRow, Refunded
<1>3. Remaining \in [Requests -> Nat]
  BY DEF TypeOK, LotRow, Remaining
<1> QED
  BY <1>1, <1>2, <1>3, TotalType, RequestsAssumption

(* A total of nothing is nothing. *)
LEMMA TotalZero == Total([x \in Requests |-> 0]) = 0
<1>1. [x \in Requests |-> 0] \in [Requests -> Nat]
  OBVIOUS
<1>2. \A x \in Requests : [y \in Requests |-> 0][x] = 0
  OBVIOUS
<1> QED
  BY <1>1, <1>2, TotalType, RequestsAssumption

(* A refund gives back to the lots exactly its amount. *)
LEMMA RefundGivesAmount ==
  ASSUME MoneyInv, NEW r \in Requests, pc[r] = "write", in[r].op = "refund", FreshDebit(r),
         NEW give \in RefundShares(in[r].target, in[r].amount)
  PROVE  /\ give \in [Requests -> Nat]
         /\ \A l \in Requests : give[l] <= lotTxns[in[r].target][l].unrefunded
         /\ Total(give) = in[r].amount
<1> DEFINE t == in[r].target
<1>1. TypeOK /\ t \in Requests /\ in[r].amount \in Nat
  BY AmountsAssumption DEF MoneyInv, IInv, TypeOK, Inputs
<1>2. txns[t].type = "DEBIT" /\ in[r].amount <= txns[t].unrefunded
  BY DEF MoneyInv, IInv, DebitRead, FreshDebit
<1>3. in[r].amount <= Total(Refundable(t))
  BY <1>1, <1>2 DEF MoneyInv, DebitsBacked
<1> QED
  BY <1>1, <1>3, RefundSharesType
-----------------------------------------------------------------------------
(* The first states: nothing credited, nothing held. *)
LEMMA InitMoney == Init => MoneyInv
<1> SUFFICES ASSUME Init PROVE MoneyInv
  OBVIOUS
<1>1. IInv
  BY InitIInv
<1>2. ASSUME NEW l \in Requests PROVE Total(Held(l)) = 0
  <2>1. Held(l) = [t \in Requests |-> 0]
    BY DEF Init, Held, NoLotTxn
  <2> QED
    BY <2>1, TotalZero
<1>3. LotsConserved
  BY <1>2 DEF Init, LotsConserved, NoLot
<1>4. RefundsOfDebits /\ DebitsBacked
  BY DEF Init, RefundsOfDebits, DebitsBacked, NoTxn
<1> QED
  BY <1>1, <1>3, <1>4 DEF MoneyInv

(* A step that moves no money. *)
LEMMA QuietMoney ==
  ASSUME MoneyInv, IInv', UNCHANGED <<txns, lotTxns, in>>,
         \A l \in Requests : lots'[l].remaining = lots[l].remaining /\ lots'[l].total = lots[l].total
  PROVE  MoneyInv'
<1>1. LotsConserved'
  BY DEF MoneyInv, LotsConserved, Held
<1>2. RefundsOfDebits' /\ DebitsBacked'
  BY DEF MoneyInv, RefundsOfDebits, DebitsBacked, Refundable, Refunded
<1> QED
  BY <1>1, <1>2 DEF MoneyInv

(* A credit: the new lot is whole, and nothing held any of it. *)
LEMMA CreditMoney ==
  ASSUME MoneyInv, IInv', NEW r \in Requests, Credit(r)
  PROVE  MoneyInv'
<1>t. /\ TypeOK /\ in[r].amount \in Nat /\ in' = in /\ pc[r] = "write"
      /\ \A l \in Requests : in[l].target \in Requests
  BY AmountsAssumption DEF MoneyInv, IInv, TypeOK, Inputs, Credit
<1>1. CASE Conflict(r)
  BY <1>t, <1>1, QuietMoney DEF Conflict, db
<1>2. ASSUME txns' = [txns EXCEPT ![r] = Post(r, "CREDIT", 0)],
             lots' = [lots EXCEPT ![r] =
                       [total |-> in[r].amount, remaining |-> in[r].amount,
                        life |-> IF in[r].dated THEN "dated" ELSE "never"]],
             UNCHANGED lotTxns
      PROVE  MoneyInv'
  <2>1. /\ txns[r].type = "NONE"
        /\ \A t \in Requests : lotTxns[t][r].unrefunded = 0
    BY <1>t DEF MoneyInv, IInv, Unposted, NoTxn
  <2>2. ASSUME NEW l \in Requests PROVE lots'[l].remaining + Total(Held(l)') = lots'[l].total
    <3>1. Held(l)' = Held(l)
      BY <1>2 DEF Held
    <3>2. CASE l = r
      <4>1. Held(r) = [t \in Requests |-> 0]
        BY <2>1 DEF Held
      <4> QED
        BY <1>t, <1>2, <3>1, <3>2, <4>1, TotalZero DEF TypeOK
    <3>3. CASE l # r
      BY <1>t, <1>2, <3>1, <3>3 DEF MoneyInv, LotsConserved, TypeOK
    <3> QED
      BY <3>2, <3>3
  <2>3. /\ \A t \in Requests : txns'[t] = IF t = r THEN Post(r, "CREDIT", 0) ELSE txns[t]
        /\ Post(r, "CREDIT", 0).type = "CREDIT"
    BY <1>t, <1>2 DEF TypeOK, Post
  <2>4. RefundsOfDebits'
    BY <1>t, <2>1, <2>3 DEF MoneyInv, RefundsOfDebits
  <2>5. ASSUME NEW t \in Requests, txns'[t].type = "DEBIT"
        PROVE  /\ Total(Refundable(t)') = txns'[t].unrefunded
               /\ txns'[t].unrefunded + Total(Refunded(t)') = txns'[t].amount
    <3>1. txns'[t] = txns[t]
      BY <2>3, <2>5
    <3>2. Refundable(t)' = Refundable(t)
      BY <1>2 DEF Refundable
    <3>3. Refunded(t)' = Refunded(t)
      BY <1>t, <2>1, <2>3 DEF Refunded
    <3> QED
      BY <2>5, <3>1, <3>2, <3>3 DEF MoneyInv, DebitsBacked
  <2> QED
    BY <2>2, <2>4, <2>5 DEF MoneyInv, LotsConserved, DebitsBacked
<1> QED
  BY <1>1, <1>2, Zenon DEF Credit

(* A debit: what it takes from each lot it holds, and it took its amount. *)
LEMMA DebitMoney ==
  ASSUME MoneyInv, IInv', NEW r \in Requests, Debit(r)
  PROVE  MoneyInv'
<1>t. /\ TypeOK /\ in[r].amount \in Nat /\ in' = in /\ pc[r] = "write"
      /\ \A l \in Requests : in[l].target \in Requests
  BY AmountsAssumption DEF MoneyInv, IInv, TypeOK, Inputs, Debit
<1>1. CASE Conflict(r) \/ UNCHANGED db
  BY <1>t, <1>1, QuietMoney DEF Conflict, db
<1>2. ASSUME NEW take \in DebitShares(in[r].amount),
             txns' = [txns EXCEPT ![r] = Post(r, "DEBIT", in[r].amount)],
             lots' = [l \in Requests |-> [lots[l] EXCEPT !.remaining = @ - take[l]]],
             lotTxns' = [lotTxns EXCEPT ![r] =
                           [l \in Requests |-> [amount |-> take[l], unrefunded |-> take[l]]]]
      PROVE  MoneyInv'
  <2>1. /\ take \in [Requests -> Nat]
        /\ \A l \in Requests : take[l] <= lots[l].remaining
        /\ Total(take) = in[r].amount
    BY <1>t, DebitSharesType
  <2>2. /\ txns[r].type = "NONE"
        /\ \A l \in Requests : lotTxns[r][l].unrefunded = 0
    BY <1>t DEF MoneyInv, IInv, Unposted, NoTxn, NoLotTxn
  <2>3. ASSUME NEW l \in Requests PROVE lots'[l].remaining + Total(Held(l)') = lots'[l].total
    <3>1. Held(l)' = [Held(l) EXCEPT ![r] = take[l]]
      BY <1>t, <1>2 DEF TypeOK, Held
    <3>2. Held(l) \in [Requests -> Nat] /\ Held(l)[r] = 0 /\ Total(Held(l)) \in Nat
      BY <1>t, <2>2, AmountTypes DEF Held
    <3>3. Total(Held(l)') = Total(Held(l)) - 0 + take[l]
      <4>1. Total([Held(l) EXCEPT ![r] = take[l]]) = Total(Held(l)) - Held(l)[r] + take[l]
        <5>1. take[l] \in Nat
          BY <2>1
        <5> QED
          BY <3>2, <5>1, TotalUpdate, RequestsAssumption, Zenon
      <4> QED
        BY <3>1, <3>2, <4>1
    <3>4. /\ lots'[l].remaining = lots[l].remaining - take[l]
          /\ lots'[l].total = lots[l].total
          /\ lots[l].remaining \in Nat /\ lots[l].total \in Nat /\ take[l] \in Nat
      BY <1>t, <1>2, <2>1, ZenonT(30) DEF TypeOK, LotRow
    <3>5. lots[l].remaining + Total(Held(l)) = lots[l].total
      BY DEF MoneyInv, LotsConserved
    <3> QED
      BY <3>2, <3>3, <3>4, <3>5
  <2>4. /\ \A t \in Requests : txns'[t] = IF t = r THEN Post(r, "DEBIT", in[r].amount) ELSE txns[t]
        /\ Post(r, "DEBIT", in[r].amount).type = "DEBIT"
        /\ Post(r, "DEBIT", in[r].amount).amount = in[r].amount
        /\ Post(r, "DEBIT", in[r].amount).unrefunded = in[r].amount
    BY <1>t, <1>2 DEF TypeOK, Post
  <2>5. RefundsOfDebits'
    BY <1>t, <2>2, <2>4 DEF MoneyInv, RefundsOfDebits
  <2>6. ASSUME NEW t \in Requests, txns'[t].type = "DEBIT"
        PROVE  /\ Total(Refundable(t)') = txns'[t].unrefunded
               /\ txns'[t].unrefunded + Total(Refunded(t)') = txns'[t].amount
    <3>1. CASE t = r
      <4>1. Refundable(r)' = take
        BY <1>t, <1>2, <2>1 DEF TypeOK, Refundable
      <4>2. \A s \in Requests : ~ (txns'[s].type = "REFUND" /\ in[s].target = r)
        BY <1>t, <2>2, <2>4 DEF MoneyInv, RefundsOfDebits
      <4>3. Refunded(r)' = [s \in Requests |-> 0]
        BY <1>t, <4>2 DEF Refunded
      <4> QED
        BY <1>t, <2>1, <2>4, <3>1, <4>1, <4>3, TotalZero
    <3>2. CASE t # r
      <4>1. txns'[t] = txns[t]
        BY <2>4, <3>2
      <4>2. Refundable(t)' = Refundable(t)
        BY <1>t, <1>2, <3>2 DEF TypeOK, Refundable
      <4>3. Refunded(t)' = Refunded(t)
        BY <1>t, <2>2, <2>4 DEF Refunded
      <4> QED
        BY <2>6, <4>1, <4>2, <4>3 DEF MoneyInv, DebitsBacked
    <3> QED
      BY <3>1, <3>2
  <2> QED
    BY <2>3, <2>5, <2>6 DEF MoneyInv, LotsConserved, DebitsBacked
<1> QED
  BY <1>1, <1>2, Zenon DEF Debit

(* A refund: what each lot gets back its debit no longer holds. *)
LEMMA RefundMoney ==
  ASSUME MoneyInv, IInv', NEW r \in Requests, Refund(r)
  PROVE  MoneyInv'
<1> DEFINE t == in[r].target
<1>t. /\ TypeOK /\ in[r].amount \in Nat /\ t \in Requests
      /\ \A l \in Requests : in[l].target \in Requests
  BY AmountsAssumption DEF MoneyInv, IInv, TypeOK, Inputs
<1>u. in' = in /\ pc[r] = "write" /\ in[r].op = "refund"
  BY DEF Refund
<1>1. CASE Conflict(r)
  BY <1>u, <1>1, QuietMoney DEF Conflict, db
<1>2. ASSUME FreshDebit(r), NEW give \in RefundShares(t, in[r].amount),
             txns' = [txns EXCEPT
               ![t] = [tsnap[r] EXCEPT !.unrefunded = @ - in[r].amount, !.ver = @ + 1],
               ![r] = Post(r, "REFUND", 0)],
             lots' = [l \in Requests |->
               [lots[l] EXCEPT
                  !.remaining = @ + give[l],
                  !.life = IF @ = "expired" /\ give[l] > 0 THEN "never" ELSE @]],
             lotTxns' = [lotTxns EXCEPT ![t] = Returned(t, give)]
      PROVE  MoneyInv'
  <2>1. /\ give \in [Requests -> Nat]
        /\ \A l \in Requests : give[l] <= lotTxns[t][l].unrefunded
        /\ Total(give) = in[r].amount
    BY <1>u, <1>2, RefundGivesAmount
  <2>2. /\ tsnap[r] = txns[t] /\ txns[t] \in TxnRow /\ txns[t].type = "DEBIT"
        /\ txns[r].type = "NONE" /\ t # r
    <3>1. tsnap[r] = txns[t] /\ txns[t].type = "DEBIT"
      BY <1>u, <1>2 DEF MoneyInv, IInv, DebitRead, FreshDebit
    <3>2. txns[r] = NoTxn
      BY <1>u DEF MoneyInv, IInv, Unposted
    <3> QED
      BY <1>t, <3>1, <3>2 DEF TypeOK, NoTxn
  <2>a. \A l \in Requests : lotTxns'[t][l].unrefunded = lotTxns[t][l].unrefunded - give[l]
    <3>1. lotTxns'[t] = Returned(t, give)
      BY <1>t, <1>2 DEF TypeOK
    <3>2. \A l \in Requests : lotTxns[t][l] \in LotTxnRow
      BY <1>t DEF TypeOK
    <3> QED
      BY <3>1, <3>2 DEF LotTxnRow, Returned
  <2>3. ASSUME NEW l \in Requests PROVE lots'[l].remaining + Total(Held(l)') = lots'[l].total
    <3>1. lotTxns'[t][l].unrefunded = lotTxns[t][l].unrefunded - give[l]
      BY <2>a
    <3>2. Held(l)' = [Held(l) EXCEPT ![t] = lotTxns[t][l].unrefunded - give[l]]
      BY <1>t, <1>2, <3>1 DEF TypeOK, Held
    <3>3. /\ Held(l) \in [Requests -> Nat] /\ Held(l)[t] = lotTxns[t][l].unrefunded
          /\ Total(Held(l)) \in Nat
          /\ lotTxns[t][l].unrefunded - give[l] \in Nat
          /\ give[l] \in Nat /\ lotTxns[t][l].unrefunded \in Nat
      <4>1. lotTxns[t][l].unrefunded \in Nat
        BY <1>t DEF TypeOK, LotTxnRow
      <4>2. Held(l) \in [Requests -> Nat] /\ Total(Held(l)) \in Nat
        BY <1>t, AmountTypes
      <4>3. Held(l)[t] = lotTxns[t][l].unrefunded
        BY <1>t DEF Held
      <4>4. give[l] \in Nat /\ give[l] <= lotTxns[t][l].unrefunded
        BY <2>1
      <4> QED
        BY <4>1, <4>2, <4>3, <4>4
    <3>4. Total(Held(l)') = Total(Held(l)) - Held(l)[t] + (lotTxns[t][l].unrefunded - give[l])
      <4> DEFINE v == lotTxns[t][l].unrefunded - give[l]
      <4>1. v \in Nat
        BY <3>3
      <4> HIDE DEF v
      <4>2. Total([Held(l) EXCEPT ![t] = v]) = Total(Held(l)) - Held(l)[t] + v
        <5>1. t \in Requests /\ Held(l) \in [Requests -> Nat]
          BY <1>t, <3>3
        <5> HIDE DEF t
        <5> QED
          BY <4>1, <5>1, TotalUpdate, RequestsAssumption, Zenon
      <4> QED
        BY <3>2, <4>2 DEF v
    <3>5. /\ lots'[l].remaining = lots[l].remaining + give[l]
          /\ lots'[l].total = lots[l].total
          /\ lots[l].remaining \in Nat /\ lots[l].total \in Nat
      BY <1>t, <1>2, <2>1, ZenonT(30) DEF TypeOK, LotRow
    <3>6. lots[l].remaining + Total(Held(l)) = lots[l].total
      BY DEF MoneyInv, LotsConserved
    <3> QED
      BY <3>3, <3>4, <3>5, <3>6
  <2> DEFINE t1 == [tsnap[r] EXCEPT !.unrefunded = @ - in[r].amount, !.ver = @ + 1]
             r1 == Post(r, "REFUND", 0)
  <2>4. /\ t1.type = "DEBIT" /\ t1.amount = txns[t].amount
        /\ t1.unrefunded = txns[t].unrefunded - in[r].amount
        /\ r1.type = "REFUND" /\ r1.amount = in[r].amount
    BY <2>2 DEF TxnRow, Post
  <2> HIDE DEF t1, r1
  <2>5. \A s \in Requests : txns'[s] = IF s = r THEN r1 ELSE IF s = t THEN t1 ELSE txns[s]
    BY <1>t, <1>2, <2>2 DEF TypeOK, t1, r1
  <2>6. RefundsOfDebits'
    <3>1. ASSUME NEW s \in Requests, txns'[s].type = "REFUND"
          PROVE  txns'[in[s].target].type = "DEBIT"
      <4>1. CASE s = r
        BY <1>t, <2>2, <2>4, <2>5, <4>1
      <4>2. CASE s # r
        <5>1. txns[s].type = "REFUND"
          BY <2>4, <2>5, <3>1, <4>2
        <5>2. txns[in[s].target].type = "DEBIT" /\ in[s].target \in Requests
          BY <1>t, <5>1 DEF MoneyInv, RefundsOfDebits
        <5> QED
          BY <2>2, <2>4, <2>5, <5>2
      <4> QED
        BY <4>1, <4>2
    <3> QED
      BY <1>u, <3>1 DEF RefundsOfDebits
  <2>7. ASSUME NEW d \in Requests, txns'[d].type = "DEBIT"
        PROVE  /\ Total(Refundable(d)') = txns'[d].unrefunded
               /\ txns'[d].unrefunded + Total(Refunded(d)') = txns'[d].amount
    <3>1. d # r /\ txns[d].type = "DEBIT"
      BY <2>2, <2>4, <2>5, <2>7
    <3>2. /\ Total(Refundable(d)) = txns[d].unrefunded
          /\ txns[d].unrefunded + Total(Refunded(d)) = txns[d].amount
          /\ txns[d].unrefunded \in Nat /\ txns[d].amount \in Nat
      BY <1>t, <3>1 DEF MoneyInv, DebitsBacked, TypeOK, TxnRow
    <3>3. CASE d = t
      <4>1. /\ Refundable(t) \in [Requests -> Nat]
            /\ Refunded(t) \in [Requests -> Nat] /\ Total(Refunded(t)) \in Nat
        BY <1>t, AmountTypes
      <4>2. Refundable(t)' = [l \in Requests |-> Refundable(t)[l] - give[l]]
        <5>2. Refundable(t)' = [l \in Requests |-> lotTxns'[t][l].unrefunded]
          BY <1>u DEF Refundable
        <5> QED
          BY <2>a, <5>2 DEF Refundable
      <4>3. \A l \in Requests : give[l] <= Refundable(t)[l]
        BY <2>1 DEF Refundable
      <4>4. Total(Refundable(t)') = Total(Refundable(t)) - in[r].amount
        BY <2>1, <4>1, <4>2, <4>3, TotalDifference, RequestsAssumption
      <4>5. Refunded(t)' = [Refunded(t) EXCEPT ![r] = in[r].amount] /\ Refunded(t)[r] = 0
        <5>1. \A s \in Requests : Refunded(t)'[s] = IF s = r THEN in[r].amount ELSE Refunded(t)[s]
          BY <1>u, <2>2, <2>4, <2>5 DEF Refunded
        <5>2. Refunded(t)[r] = 0
          BY <2>2 DEF Refunded
        <5>3. DOMAIN Refunded(t)' = Requests /\ Refunded(t)' = [s \in Requests |-> Refunded(t)'[s]]
          BY <1>u DEF Refunded
        <5> QED
          BY <4>1, <5>1, <5>2, <5>3
      <4>6. Total(Refunded(t)') = Total(Refunded(t)) - 0 + in[r].amount
        BY <1>t, <4>1, <4>5, TotalUpdate, RequestsAssumption
      <4>7. txns'[t].unrefunded = txns[t].unrefunded - in[r].amount /\ txns'[t].amount = txns[t].amount
        BY <1>t, <2>2, <2>4, <2>5
      <4> QED
        BY <1>t, <1>u, <3>2, <3>3, <4>1, <4>4, <4>6, <4>7
    <3>4. CASE d # t
      <4>1. txns'[d] = txns[d]
        BY <2>5, <3>1, <3>4
      <4>2. Refundable(d)' = Refundable(d)
        BY <1>t, <1>2, <3>4 DEF TypeOK, Refundable
      <4>3. Refunded(d)' = Refunded(d)
        <5>1. \A s \in Requests : Refunded(d)'[s] = Refunded(d)[s]
          BY <1>u, <2>2, <2>4, <2>5, <3>4 DEF Refunded
        <5>2. /\ Refunded(d)' = [s \in Requests |-> Refunded(d)'[s]]
              /\ Refunded(d) = [s \in Requests |-> Refunded(d)[s]]
          BY <1>u DEF Refunded
        <5> QED
          BY <5>1, <5>2
      <4> QED
        BY <3>2, <4>1, <4>2, <4>3
    <3> QED
      BY <3>3, <3>4
  <2> QED
    BY <2>3, <2>6, <2>7 DEF MoneyInv, LotsConserved, DebitsBacked
<1> QED
  BY <1>1, <1>2, Zenon DEF Refund
-----------------------------------------------------------------------------
(* Every step keeps the books. *)
LEMMA NextMoney == MoneyInv /\ IInv' /\ [Next]_vars => MoneyInv'
<1> SUFFICES ASSUME MoneyInv, IInv', [Next]_vars PROVE MoneyInv'
  OBVIOUS
<1>1. CASE UNCHANGED vars
  BY <1>1, QuietMoney DEF vars
<1>2. ASSUME NEW r \in Requests,
             \/ Arrive(r) \/ ReadDebit(r) \/ ReadWallet(r)
             \/ CorrectRead(r) \/ CorrectGet(r) \/ Answer(r) \/ Crash(r)
      PROVE  MoneyInv'
  BY <1>2, QuietMoney DEF Arrive, ReadDebit, ReadWallet, CorrectRead, CorrectGet, Answer, Crash, db
<1>3. ASSUME NEW r \in Requests, CorrectWrite(r) \/ Put(r) \/ Update(r) PROVE MoneyInv'
  BY <1>3, QuietMoney DEF CorrectWrite, Put, Update, Conflict, db
<1>4. ASSUME NEW l \in Requests, Expire(l) PROVE MoneyInv'
  BY <1>4, QuietMoney DEF MoneyInv, IInv, TypeOK, LotRow, Expire
<1> QED
  BY <1>1, <1>2, <1>3, <1>4, CreditMoney, DebitMoney, RefundMoney DEF Next

(* The invariant of the money holds in every reachable state. *)
THEOREM WalletMoney == Spec => []MoneyInv
<1>1. Spec => []IInv
  BY WalletInvariant
<1> QED
  BY <1>1, InitMoney, NextMoney, PTL DEF Spec

(* No interleaving loses money in the lots or makes it. *)
THEOREM WalletLotsConserved == Spec => []LotsConserved
<1>1. MoneyInv => LotsConserved
  BY DEF MoneyInv
<1> QED
  BY <1>1, WalletMoney, PTL

(* Refunds return no more than their debit took, even when they race. *)
THEOREM WalletDebitsBacked == Spec => []DebitsBacked
<1>1. MoneyInv => DebitsBacked
  BY DEF MoneyInv
<1> QED
  BY <1>1, WalletMoney, PTL
-----------------------------------------------------------------------------
(* A request that is about to tell its client so has posted. *)
Backed(r) == pc[r] = "reply" /\ in[r].op # "update" => txns[r].type # "NONE"

OnceInv == PostedOnce /\ \A r \in Requests : Backed(r)

(* The request whose transaction is posted is the only one under its UUID. *)
LEMMA PostOnce ==
  ASSUME IInv, OnceInv, NEW r \in Requests, pc[r] = "write", UuidFree(in[r].uuid),
         Goto(r, "reply"), in' = in,
         txns'[r].type # "NONE", txns'[r].uuid = in[r].uuid,
         \A s \in Requests \ {r} :
           (txns'[s].type = "NONE" <=> txns[s].type = "NONE") /\ txns'[s].uuid = txns[s].uuid
  PROVE  OnceInv'
<1>1. txns[r].type = "NONE" /\ answer[r] = "none" /\ answer' = answer
  BY DEF IInv, Unposted, NoTxn, Goto
<1>2. in[r].uuid # NoUuid =>
        \A s \in Requests : txns[s].type # "NONE" => txns[s].uuid # in[r].uuid
  BY DEF UuidFree, Posted
<1>3. ASSUME NEW s \in Requests, txns'[s].type # "NONE", txns'[s].uuid # NoUuid,
             NEW q \in Requests \ {s}, txns'[q].type # "NONE"
      PROVE  txns'[q].uuid # txns'[s].uuid
  BY <1>2, <1>3 DEF OnceInv, PostedOnce
<1>4. ASSUME NEW s \in Requests, answer'[s] = "existing", in[s].op # "update"
      PROVE  \E q \in Requests : txns'[q].type # "NONE" /\ txns'[q].uuid = in[s].uuid
  <2>1. PICK q \in Requests : txns[q].type # "NONE" /\ txns[q].uuid = in[s].uuid
    BY <1>1, <1>4 DEF OnceInv, PostedOnce
  <2>2. q # r
    BY <1>1, <2>1
  <2> QED
    BY <2>1, <2>2
<1>5. ASSUME NEW s \in Requests
      PROVE  /\ answer'[s] = "posted" /\ in[s].op # "update" => txns'[s].type # "NONE"
             /\ answer'[s] \in {"refused", "insufficient", "conflict"} => txns'[s].type = "NONE"
  BY <1>1 DEF OnceInv, PostedOnce
<1>6. ASSUME NEW s \in Requests PROVE Backed(s)'
  <2>1. s # r => pc'[s] = pc[s]
    BY DEF IInv, TypeOK, Goto
  <2> QED
    BY <2>1 DEF OnceInv, Backed
<1>7. PostedOnce'
  BY <1>3, <1>4, <1>5 DEF PostedOnce
<1> QED
  BY <1>6, <1>7 DEF OnceInv

(* A step that posts nothing answers no more than what was posted. *)
LEMMA QuietOnce ==
  ASSUME OnceInv, UNCHANGED <<txns, in>>,
         \A s \in Requests : pc'[s] = "reply" /\ in[s].op # "update" => pc[s] = "reply",
         \A s \in Requests :
           \/ answer'[s] = answer[s]
           \/ answer'[s] = "lost"
           \/ answer'[s] = "existing" /\ (in[s].op # "update" => Posted(in[s].uuid))
           \/ answer'[s] = "posted" /\ (in[s].op # "update" => txns[s].type # "NONE")
           \/ answer'[s] \in {"refused", "insufficient", "conflict"} /\ txns[s].type = "NONE"
  PROVE  OnceInv'
<1>1. ASSUME NEW s \in Requests PROVE Backed(s)'
  BY DEF OnceInv, Backed
<1>2. PostedOnce'
  BY DEF OnceInv, PostedOnce, Posted
<1> QED
  BY <1>1, <1>2 DEF OnceInv

(* A request that is refused before it has written. *)
LEMMA RefuseOnce ==
  ASSUME IInv, OnceInv, UNCHANGED <<txns, in>>, NEW r \in Requests, pc[r] \notin {"reply", "done"},
         NEW a \in {"refused", "insufficient", "conflict"}, Reply(r, a)
  PROVE  OnceInv'
<1>1. txns[r].type = "NONE"
  BY DEF IInv, Unposted, NoTxn
<1>2. \A s \in Requests : /\ s # r => answer'[s] = answer[s] /\ pc'[s] = pc[s]
                          /\ s = r => answer'[s] = a /\ pc'[s] = "done"
  BY DEF IInv, TypeOK, Reply
<1> QED
  BY <1>1, <1>2, QuietOnce

LEMMA NextOnce == IInv /\ OnceInv /\ [Next]_vars => OnceInv'
<1> SUFFICES ASSUME IInv, OnceInv, [Next]_vars PROVE OnceInv'
  OBVIOUS
<1>t. /\ answer \in [Requests -> Answers] /\ pc \in [Requests -> PCs]
      /\ txns \in [Requests -> TxnRow] /\ in \in [Requests -> Inputs] /\ tsnap \in [Requests -> TxnRow]
  BY DEF IInv, TypeOK
<1>1. CASE UNCHANGED vars
  BY <1>1, QuietOnce DEF vars
<1>2. ASSUME NEW r \in Requests, NEW l \in PCs \ {"reply"}, Goto(r, l), UNCHANGED <<txns, in>>
      PROVE  OnceInv'
  BY <1>t, <1>2, QuietOnce DEF Goto
<1>3. ASSUME NEW r \in Requests, Arrive(r) PROVE OnceInv'
  <2>1. UNCHANGED <<txns, in>>
    BY <1>3 DEF Arrive, db
  <2>2. CASE \E l \in PCs \ {"reply"} : Goto(r, l)
    BY <1>2, <2>1, <2>2
  <2>3. CASE Reply(r, "existing") /\ Posted(in[r].uuid)
    BY <1>t, <2>1, <2>3, QuietOnce DEF Reply
  <2>4. \/ Goto(r, "put") \/ Goto(r, IF in[r].op = "refund" THEN "readDebit" ELSE "readWallet")
        \/ Reply(r, "existing") /\ Posted(in[r].uuid)
    BY <1>3, Zenon DEF Arrive
  <2> QED
    BY <2>2, <2>3, <2>4 DEF PCs
<1>4. ASSUME NEW r \in Requests, ReadDebit(r) \/ ReadWallet(r) \/ CorrectRead(r) \/ CorrectGet(r)
      PROVE  OnceInv'
  <2>1. UNCHANGED <<txns, in>> /\ pc[r] \notin {"reply", "done"}
    BY <1>4 DEF ReadDebit, ReadWallet, CorrectRead, CorrectGet, db
  <2>2. \/ \E l \in {"readWallet", "write", "correctGet", "correctWrite"} : Goto(r, l)
        \/ Reply(r, "refused") \/ Reply(r, "insufficient")
    BY <1>4 DEF ReadDebit, ReadWallet, CorrectRead, CorrectGet
  <2> QED
    BY <1>2, <2>1, <2>2, RefuseOnce DEF PCs
<1>5. ASSUME NEW r \in Requests, Conflict(r), UNCHANGED in, pc[r] \notin {"reply", "done"} PROVE OnceInv'
  BY <1>5, RefuseOnce DEF Conflict, db
<1>6. ASSUME NEW r \in Requests, Credit(r) PROVE OnceInv'
  <2>1. CASE Conflict(r)
    BY <1>5, <1>6, <2>1 DEF Credit
  <2>2. ASSUME UuidFree(in[r].uuid), Goto(r, "reply"),
               txns' = [txns EXCEPT ![r] = Post(r, "CREDIT", 0)]
        PROVE  OnceInv'
    BY <1>t, <1>6, <2>2, PostOnce DEF Credit, Post
  <2> QED
    BY <1>6, <2>1, <2>2, Zenon DEF Credit
<1>7. ASSUME NEW r \in Requests, Debit(r) PROVE OnceInv'
  <2>1. CASE Conflict(r)
    BY <1>5, <1>7, <2>1 DEF Debit
  <2>2. CASE Goto(r, "correctRead") /\ UNCHANGED db
    BY <1>2, <1>7, <2>2 DEF Debit, db, PCs
  <2>3. ASSUME UuidFree(in[r].uuid), Goto(r, "reply"),
               txns' = [txns EXCEPT ![r] = Post(r, "DEBIT", in[r].amount)]
        PROVE  OnceInv'
    BY <1>t, <1>7, <2>3, PostOnce DEF Debit, Post
  <2> QED
    BY <1>7, <2>1, <2>2, <2>3, Zenon DEF Debit
<1>8. ASSUME NEW r \in Requests, Refund(r) PROVE OnceInv'
  <2> DEFINE t == in[r].target
  <2>0. pc[r] = "write" /\ in[r].op = "refund" /\ in' = in
    BY <1>8 DEF Refund
  <2>1. CASE Conflict(r)
    BY <1>5, <2>0, <2>1
  <2>2. ASSUME FreshDebit(r), UuidFree(in[r].uuid), Goto(r, "reply"),
               txns' = [txns EXCEPT
                 ![t] = [tsnap[r] EXCEPT !.unrefunded = @ - in[r].amount, !.ver = @ + 1],
                 ![r] = Post(r, "REFUND", 0)]
        PROVE  OnceInv'
    <3>1. tsnap[r] = txns[t] /\ txns[t].type = "DEBIT" /\ txns[t] \in TxnRow /\ t \in Requests /\ t # r
      <4>1. txns[r].type = "NONE"
        BY <2>0 DEF IInv, Unposted, NoTxn
      <4>2. tsnap[r] = txns[t] /\ txns[t].type = "DEBIT"
        BY <2>0, <2>2 DEF IInv, DebitRead, FreshDebit
      <4> QED
        BY <1>t, <4>1, <4>2 DEF Inputs
    <3>2. /\ txns'[t].type = "DEBIT" /\ txns'[t].uuid = txns[t].uuid
          /\ txns'[r] = Post(r, "REFUND", 0)
          /\ \A s \in Requests \ {r, t} : txns'[s] = txns[s]
      BY <1>t, <2>2, <3>1, ZenonT(30) DEF TxnRow
    <3> QED
      <4>1. txns'[r].type = "REFUND" /\ txns'[r].uuid = in[r].uuid
        BY <3>2 DEF Post
      <4>2. \A s \in Requests \ {r} :
              (txns'[s].type = "NONE" <=> txns[s].type = "NONE") /\ txns'[s].uuid = txns[s].uuid
        BY <3>1, <3>2
      <4> HIDE DEF t
      <4> QED
        BY <2>0, <2>2, <4>1, <4>2, PostOnce
  <2> QED
    BY <1>8, <2>1, <2>2, Zenon DEF Refund
<1>9. ASSUME NEW r \in Requests, CorrectWrite(r) PROVE OnceInv'
  <2>1. UNCHANGED <<in, txns>> /\ pc[r] = "correctWrite"
    BY <1>9 DEF CorrectWrite, Conflict, db
  <2>2. Goto(r, "refuse") \/ Conflict(r)
    BY <1>9, Zenon DEF CorrectWrite
  <2> QED
    BY <1>2, <1>5, <2>1, <2>2 DEF PCs
<1>10. ASSUME NEW r \in Requests, Put(r) \/ Update(r) PROVE OnceInv'
  <2>1. in[r].op = "update" /\ UNCHANGED <<in, txns>> /\ pc[r] \in {"put", "update"}
    BY <1>10 DEF Put, Update, Conflict, db, IInv, Placed
  <2>2. \/ Reply(r, "existing") \/ Goto(r, "update") \/ Goto(r, "reply") \/ Conflict(r)
    BY <1>10, Zenon DEF Put, Update
  <2>3. CASE Goto(r, "reply") \/ Reply(r, "existing")
    BY <1>t, <2>1, <2>3, QuietOnce DEF Goto, Reply
  <2> QED
    BY <1>2, <1>5, <2>1, <2>2, <2>3 DEF PCs
<1>11. ASSUME NEW r \in Requests, Answer(r) \/ Crash(r) PROVE OnceInv'
  <2>1. UNCHANGED <<in, txns>>
    BY <1>11 DEF Answer, Crash, db
  <2>2. CASE pc[r] = "reply" /\ Reply(r, "posted")
    BY <1>t, <2>1, <2>2, QuietOnce DEF Reply, OnceInv, Backed
  <2>3. CASE pc[r] = "refuse" /\ Reply(r, "insufficient")
    BY <2>1, <2>3, RefuseOnce
  <2>4. CASE Reply(r, "lost")
    BY <1>t, <2>1, <2>4, QuietOnce DEF Reply
  <2> QED
    BY <1>11, <2>2, <2>3, <2>4 DEF Answer, Crash
<1>12. ASSUME NEW l \in Requests, Expire(l) PROVE OnceInv'
  BY <1>12, QuietOnce DEF Expire
<1> QED
  BY <1>1, <1>3, <1>4, <1>6, <1>7, <1>8, <1>9, <1>10, <1>11, <1>12 DEF Next

(* Retries under one tracking UUID post once, although the service looks the
   UUID up in one step, posts in another and answers in a third, between any
   two of which it may die; and an answer is true of what was posted.       *)
THEOREM WalletPostedOnce == Spec => []PostedOnce
<1>1. Init => OnceInv
  BY DEF Init, OnceInv, PostedOnce, Backed, NoTxn
<1>2. OnceInv => PostedOnce
  BY DEF OnceInv
<1> QED
  BY <1>1, <1>2, NextOnce, WalletInvariant, PTL DEF Spec
-----------------------------------------------------------------------------
(* The abstract account, as the service's rows hold it. *)
Owed == [r \in Requests |-> txns[r].unrefunded]
Used == {u \in Uuids : Posted(u)}
PostedRequests == {r \in Requests : txns[r].type # "NONE"}
LedgerStep ==
  \/ \E r \in Requests, u \in Uuids \cup {NoUuid}, a \in Amounts :
       \/ Ledger!Credit(r, u, a)
       \/ Ledger!Debit(r, u, a)
       \/ \E t \in Requests : Ledger!Refund(r, u, a, t)
  \/ \E b \in BOOLEAN : Ledger!Freeze(b)
  \/ UNCHANGED <<Total(Remaining), Owed, Used, PostedRequests, wallet.status = "LOCKED">>

(* The initial account is empty. *)
LEMMA InitLedger == Init => Ledger!Init
<1> SUFFICES ASSUME Init PROVE Ledger!Init
  OBVIOUS
<1>1. Remaining = [l \in Requests |-> 0]
  BY DEF Init, Remaining, NoLot
<1>2. Total(Remaining) = 0
  BY <1>1, TotalZero
<1> QED
  BY <1>2 DEF Init, Ledger!Init, NoTxn, NewWallet, Posted

(* Posting: the request and its UUID were not used, and now they are. *)
LEMMA LedgerPosts ==
  ASSUME IInv, NEW r \in Requests, pc[r] = "write", UuidFree(in[r].uuid), Fresh(r),
         NEW b \in Nat, Save(r, b), UNCHANGED snap,
         txns'[r].type # "NONE", txns'[r].uuid = in[r].uuid,
         \A s \in Requests \ {r} :
           (txns'[s].type = "NONE" <=> txns[s].type = "NONE") /\ txns'[s].uuid = txns[s].uuid
  PROVE  Ledger!Posts(r, in[r].uuid)
<1>1. /\ txns[r].type = "NONE"
      /\ in[r].uuid \in Uuids \cup {NoUuid}
  <2>1. txns[r] = NoTxn
    BY DEF IInv, Unposted
  <2> QED
    BY <2>1 DEF IInv, TypeOK, NoTxn, Inputs
<1>2. wallet.status # "LOCKED" /\ wallet'.status = wallet.status
  <2>1. wallet.status # "LOCKED" /\ wallet \in WalletRow
    BY WriteSound DEF IInv, TypeOK
  <2>2. wallet' = [wallet EXCEPT !.balance = b, !.ver = @ + 1]
    BY SaveSound
  <2> QED
    BY <2>1, <2>2 DEF WalletRow
<1>3. r \notin PostedRequests /\ PostedRequests' = PostedRequests \cup {r}
  BY <1>1 DEF PostedRequests
<1>4. in[r].uuid \notin Used
  BY DEF Used, UuidFree
<1>5. Used' = Used \cup ({in[r].uuid} \ {NoUuid})
  <2>1. ASSUME NEW u \in Uuids
        PROVE  Posted(u)' <=> Posted(u) \/ u = in[r].uuid
    BY <1>1, UuidAssumption DEF Posted
  <2> QED
    BY <1>1, <2>1, UuidAssumption DEF Used
<1> QED
  BY <1>2, <1>3, <1>4, <1>5 DEF Ledger!Posts, PostedRequests, Used

(* A step that moves no money, posts nothing and keeps the lock as it is. *)
LEMMA QuietLedger ==
  ASSUME UNCHANGED txns, wallet'.status = wallet.status,
         \A l \in Requests : lots'[l].remaining = lots[l].remaining
  PROVE  LedgerStep
<1>1. UNCHANGED <<Remaining, Owed, Used, PostedRequests>>
  BY DEF Remaining, Owed, Used, PostedRequests, Posted
<1> QED
  BY <1>1 DEF LedgerStep

(* A credit of the service is a credit of the account. *)
LEMMA CreditLedger ==
  ASSUME MoneyInv, NEW r \in Requests, Credit(r)
  PROVE  LedgerStep
<1>t. /\ TypeOK /\ IInv /\ in[r].amount \in Nat /\ in[r].amount \in Amounts
      /\ in[r].uuid \in Uuids \cup {NoUuid} /\ snap[r].balance \in Nat
  BY AmountsAssumption DEF MoneyInv, IInv, TypeOK, Inputs, WalletRow
<1>u. pc[r] = "write" /\ UNCHANGED snap
  BY DEF Credit
<1>1. CASE Conflict(r)
  BY <1>1, QuietLedger DEF Conflict, db
<1>2. ASSUME Fresh(r), UuidFree(in[r].uuid), Save(r, snap[r].balance + in[r].amount),
             txns' = [txns EXCEPT ![r] = Post(r, "CREDIT", 0)],
             lots' = [lots EXCEPT ![r] =
                       [total |-> in[r].amount, remaining |-> in[r].amount,
                        life |-> IF in[r].dated THEN "dated" ELSE "never"]]
      PROVE  LedgerStep
  <2>1. /\ \A s \in Requests : txns'[s] = IF s = r THEN Post(r, "CREDIT", 0) ELSE txns[s]
        /\ Post(r, "CREDIT", 0).type = "CREDIT" /\ Post(r, "CREDIT", 0).unrefunded = 0
        /\ Post(r, "CREDIT", 0).uuid = in[r].uuid
    BY <1>t, <1>2 DEF TypeOK, Post
  <2>2. /\ txns[r].unrefunded = 0 /\ lots[r].remaining = 0
    BY <1>u DEF MoneyInv, IInv, Unposted, NoTxn, NoLot
  <2>3. Ledger!Posts(r, in[r].uuid)
    <3>1. snap[r].balance + in[r].amount \in Nat
      BY <1>t
    <3>2. /\ txns'[r].type # "NONE" /\ txns'[r].uuid = in[r].uuid
          /\ \A s \in Requests \ {r} :
               (txns'[s].type = "NONE" <=> txns[s].type = "NONE") /\ txns'[s].uuid = txns[s].uuid
      BY <2>1
    <3> QED
      BY <1>t, <1>u, <1>2, <3>1, <3>2, LedgerPosts
  <2>4. Total(Remaining)' = Total(Remaining) + in[r].amount
    <3>1. Remaining' = [Remaining EXCEPT ![r] = in[r].amount] /\ Remaining[r] = 0
      BY <1>t, <1>2, <2>2 DEF TypeOK, Remaining
    <3>2. Remaining \in [Requests -> Nat] /\ Total(Remaining) \in Nat
      BY <1>t, AmountTypes
    <3>3. Total([Remaining EXCEPT ![r] = in[r].amount]) = Total(Remaining) - Remaining[r] + in[r].amount
      BY <1>t, <3>2, TotalUpdate, RequestsAssumption, Zenon
    <3> QED
      BY <1>t, <3>1, <3>2, <3>3
  <2>5. Owed' = Owed
    BY <2>1, <2>2 DEF Owed
  <2>6. Ledger!Credit(r, in[r].uuid, in[r].amount)
    BY <2>3, <2>4, <2>5 DEF Ledger!Credit, Owed
  <2> QED
    BY <1>t, <2>6 DEF LedgerStep
<1> QED
  BY <1>1, <1>2, Zenon DEF Credit

(* A debit of the service is a debit the account can afford. *)
LEMMA DebitLedger ==
  ASSUME MoneyInv, NEW r \in Requests, Debit(r)
  PROVE  LedgerStep
<1>t. /\ TypeOK /\ IInv /\ in[r].amount \in Nat /\ in[r].amount \in Amounts
      /\ in[r].uuid \in Uuids \cup {NoUuid} /\ snap[r].balance \in Nat
  BY AmountsAssumption DEF MoneyInv, IInv, TypeOK, Inputs, WalletRow
<1>u. pc[r] = "write" /\ in[r].op = "debit" /\ UNCHANGED snap
  BY DEF Debit
<1>1. CASE Conflict(r) \/ UNCHANGED db
  BY <1>1, QuietLedger DEF Conflict, db
<1>2. ASSUME Fresh(r), UuidFree(in[r].uuid), Save(r, snap[r].balance - in[r].amount),
             NEW take \in DebitShares(in[r].amount),
             txns' = [txns EXCEPT ![r] = Post(r, "DEBIT", in[r].amount)],
             lots' = [l \in Requests |-> [lots[l] EXCEPT !.remaining = @ - take[l]]]
      PROVE  LedgerStep
  <2>1. /\ \A s \in Requests :
             txns'[s] = IF s = r THEN Post(r, "DEBIT", in[r].amount) ELSE txns[s]
        /\ Post(r, "DEBIT", in[r].amount).type = "DEBIT"
        /\ Post(r, "DEBIT", in[r].amount).unrefunded = in[r].amount
        /\ Post(r, "DEBIT", in[r].amount).uuid = in[r].uuid
    BY <1>t, <1>2 DEF TypeOK, Post
  <2>2. /\ take \in [Requests -> Nat]
        /\ \A l \in Requests : take[l] <= lots[l].remaining
        /\ Total(take) = in[r].amount
    BY <1>t, DebitSharesType
  <2>3. Ledger!Posts(r, in[r].uuid)
    <3>1. in[r].amount <= snap[r].balance
      BY <1>u DEF MoneyInv, IInv, Checked
    <3>2. snap[r].balance - in[r].amount \in Nat
      BY <1>t, <3>1
    <3>3. /\ txns'[r].type # "NONE" /\ txns'[r].uuid = in[r].uuid
          /\ \A s \in Requests \ {r} :
               (txns'[s].type = "NONE" <=> txns[s].type = "NONE") /\ txns'[s].uuid = txns[s].uuid
      BY <2>1
    <3> QED
      BY <1>t, <1>u, <1>2, <3>2, <3>3, LedgerPosts
  <2>4. /\ Total(Remaining)' = Total(Remaining) - in[r].amount
        /\ in[r].amount <= Total(Remaining)
    <3>1. Remaining' = [l \in Requests |-> Remaining[l] - take[l]]
      BY <1>t, <1>2 DEF TypeOK, LotRow, Remaining
    <3>2. Remaining \in [Requests -> Nat] /\ \A l \in Requests : take[l] <= Remaining[l]
      BY <1>t, <2>2, AmountTypes DEF Remaining
    <3>3. /\ Total([l \in Requests |-> Remaining[l] - take[l]]) = Total(Remaining) - Total(take)
          /\ Total(take) <= Total(Remaining)
      BY <2>2, <3>2, TotalDifference, RequestsAssumption
    <3> QED
      BY <2>2, <3>1, <3>3
  <2>5. Owed' = [Owed EXCEPT ![r] = in[r].amount]
    BY <2>1 DEF Owed
  <2>6. PICK u \in Uuids \cup {NoUuid}, a \in Amounts : u = in[r].uuid /\ a = in[r].amount
    BY <1>t
  <2>7. Ledger!Debit(r, u, a)
    <3>1. Ledger!Posts(r, u)
      BY <2>3, <2>6 DEF Ledger!Posts
    <3>2. a <= Total(Remaining) /\ Total(Remaining)' = Total(Remaining) - a
      BY <2>4, <2>6
    <3>3. Owed' = [Owed EXCEPT ![r] = a]
      BY <2>5, <2>6
    <3> QED
      BY <3>1, <3>2, <3>3 DEF Ledger!Debit, Owed
  <2> QED
    BY <2>7 DEF LedgerStep
<1> QED
  BY <1>1, <1>2, Zenon DEF Debit

(* A refund of the service gives back what the account still owes. *)
LEMMA RefundLedger ==
  ASSUME MoneyInv, NEW r \in Requests, Refund(r)
  PROVE  LedgerStep
<1> DEFINE t == in[r].target
<1>t. /\ TypeOK /\ IInv /\ in[r].amount \in Nat /\ in[r].amount \in Amounts
      /\ in[r].uuid \in Uuids \cup {NoUuid} /\ snap[r].balance \in Nat /\ t \in Requests
  BY AmountsAssumption DEF MoneyInv, IInv, TypeOK, Inputs, WalletRow
<1>u. pc[r] = "write" /\ in[r].op = "refund" /\ UNCHANGED snap
  BY DEF Refund
<1>1. CASE Conflict(r)
  BY <1>1, QuietLedger DEF Conflict, db
<1>2. ASSUME Fresh(r), FreshDebit(r), UuidFree(in[r].uuid),
             Save(r, snap[r].balance + in[r].amount),
             NEW give \in RefundShares(t, in[r].amount),
             txns' = [txns EXCEPT
               ![t] = [tsnap[r] EXCEPT !.unrefunded = @ - in[r].amount, !.ver = @ + 1],
               ![r] = Post(r, "REFUND", 0)],
             lots' = [l \in Requests |->
               [lots[l] EXCEPT
                  !.remaining = @ + give[l],
                  !.life = IF @ = "expired" /\ give[l] > 0 THEN "never" ELSE @]]
      PROVE  LedgerStep
  <2>1. /\ give \in [Requests -> Nat]
        /\ Total(give) = in[r].amount
    BY <1>u, <1>2, RefundGivesAmount
  <2>2. /\ tsnap[r] = txns[t] /\ txns[t].type = "DEBIT" /\ in[r].amount <= txns[t].unrefunded
        /\ txns[r] = NoTxn /\ t # r /\ txns[t] \in TxnRow
    <3>1. tsnap[r] = txns[t] /\ txns[t].type = "DEBIT" /\ in[r].amount <= txns[t].unrefunded
      BY <1>u, <1>2 DEF MoneyInv, IInv, DebitRead, FreshDebit
    <3>2. txns[r] = NoTxn
      BY <1>u DEF MoneyInv, IInv, Unposted
    <3> QED
      BY <1>t, <3>1, <3>2 DEF TypeOK, NoTxn
  <2>3. /\ txns'[r] = Post(r, "REFUND", 0)
        /\ txns'[t].type = "DEBIT" /\ txns'[t].uuid = txns[t].uuid
        /\ txns'[t].unrefunded = txns[t].unrefunded - in[r].amount
        /\ \A s \in Requests \ {r, t} : txns'[s] = txns[s]
    BY <1>t, <1>2, <2>2 DEF TypeOK, TxnRow
  <2>4. Ledger!Posts(r, in[r].uuid)
    <3>1. snap[r].balance + in[r].amount \in Nat
      BY <1>t
    <3>2. txns'[r].type # "NONE" /\ txns'[r].uuid = in[r].uuid
      BY <2>3 DEF Post
    <3>3. \A s \in Requests \ {r} :
            (txns'[s].type = "NONE" <=> txns[s].type = "NONE") /\ txns'[s].uuid = txns[s].uuid
      BY <2>2, <2>3
    <3> HIDE DEF t
    <3> QED
      BY <1>t, <1>u, <1>2, <3>1, <3>2, <3>3, LedgerPosts
  <2>5. Total(Remaining)' = Total(Remaining) + in[r].amount
    <3>1. Remaining' = [l \in Requests |-> Remaining[l] + give[l]]
      BY <1>t, <1>2 DEF TypeOK, LotRow, Remaining
    <3>2. Remaining \in [Requests -> Nat]
      BY <1>t, AmountTypes
    <3>3. Total([l \in Requests |-> Remaining[l] + give[l]]) = Total(Remaining) + Total(give)
      BY <2>1, <3>2, TotalSum, RequestsAssumption
    <3> QED
      BY <2>1, <3>1, <3>3
  <2>6. Owed' = [Owed EXCEPT ![t] = @ - in[r].amount] /\ in[r].amount <= Owed[t]
    <3>1. txns[r].unrefunded = 0 /\ txns'[r].unrefunded = 0
      BY <2>2, <2>3 DEF NoTxn, Post
    <3>2. \A s \in Requests :
            txns'[s].unrefunded = IF s = t THEN txns[t].unrefunded - in[r].amount ELSE txns[s].unrefunded
      BY <2>2, <2>3, <3>1
    <3> QED
      BY <1>t, <2>2, <3>2 DEF Owed
  <2>7. PICK u \in Uuids \cup {NoUuid}, a \in Amounts, d \in Requests :
          u = in[r].uuid /\ a = in[r].amount /\ d = t
    BY <1>t
  <2>8. Ledger!Refund(r, u, a, d)
    <3>1. Ledger!Posts(r, u)
      BY <2>4, <2>7 DEF Ledger!Posts
    <3>2. Total(Remaining)' = Total(Remaining) + a
      BY <2>5, <2>7
    <3>3. Owed' = [Owed EXCEPT ![d] = @ - a] /\ a <= Owed[d]
      BY <2>6, <2>7
    <3> QED
      BY <3>1, <3>2, <3>3 DEF Ledger!Refund, Owed
  <2> QED
    BY <2>8 DEF LedgerStep
<1> QED
  BY <1>1, <1>2, Zenon DEF Refund

(* Every step of the service is a step of the account or leaves it alone. *)
LEMMA NextLedger == MoneyInv /\ [Next]_vars => [Ledger!Next]_(Ledger!vars)
<1> SUFFICES ASSUME MoneyInv, [Next]_vars PROVE LedgerStep
  BY DEF LedgerStep, Ledger!Next, Ledger!vars, Owed, Used, PostedRequests
<1>t. TypeOK /\ IInv
  BY DEF MoneyInv, IInv
<1>1. CASE UNCHANGED vars
  BY <1>1, QuietLedger DEF vars
<1>2. ASSUME NEW r \in Requests,
             \/ Arrive(r) \/ ReadDebit(r) \/ ReadWallet(r)
             \/ CorrectRead(r) \/ CorrectGet(r) \/ Answer(r) \/ Crash(r)
      PROVE  LedgerStep
  BY <1>2, QuietLedger DEF Arrive, ReadDebit, ReadWallet, CorrectRead, CorrectGet, Answer, Crash, db
<1>3. ASSUME NEW r \in Requests, CorrectWrite(r) PROVE LedgerStep
  <2>1. CASE Conflict(r)
    BY <2>1, QuietLedger DEF Conflict, db
  <2>2. CASE Fresh(r) /\ Save(r, valid[r]) /\ UNCHANGED <<lots, txns>>
    <3>1. snap[r] = wallet /\ wallet \in WalletRow
      BY <1>t, <2>2 DEF IInv, TypeOK, Fresh, SnapSound
    <3>2. wallet'.status = wallet.status
      BY <2>2, <3>1 DEF Save, WalletRow
    <3> QED
      BY <2>2, <3>2, QuietLedger
  <2> QED
    BY <1>3, <2>1, <2>2, Zenon DEF CorrectWrite
<1>4. ASSUME NEW r \in Requests, Put(r) \/ Update(r) PROVE LedgerStep
  <2>1. UNCHANGED <<lots, txns>>
    BY <1>4 DEF Put, Update, Conflict, db
  <2>2. UNCHANGED <<Remaining, Owed, Used, PostedRequests>>
    BY <2>1 DEF Remaining, Owed, Used, PostedRequests, Posted
  <2>3. Ledger!Freeze((wallet.status = "LOCKED")')
    BY <2>2 DEF Ledger!Freeze, Owed, Used, PostedRequests
  <2>4. (wallet.status = "LOCKED")' \in BOOLEAN
    OBVIOUS
  <2> QED
    BY <2>3, <2>4 DEF LedgerStep
<1>5. ASSUME NEW l \in Requests, Expire(l) PROVE LedgerStep
  BY <1>t, <1>5, QuietLedger DEF TypeOK, LotRow, Expire
<1> QED
  BY <1>1, <1>2, <1>3, <1>4, <1>5, CreditLedger, DebitLedger, RefundLedger DEF Next

(* The service, with its stale reads, retries, crashes and expiring lots,
   implements the atomic account: what it holds is what its lots hold.      *)
THEOREM WalletImplementsLedger == Spec => ImplementsLedger
<1>1. Init => Ledger!Init
  BY InitLedger
<1>2. MoneyInv /\ [Next]_vars => [Ledger!Next]_(Ledger!vars)
  BY NextLedger
<1> QED
  BY <1>1, <1>2, WalletMoney, PTL DEF Spec, ImplementsLedger, Ledger!Spec
-----------------------------------------------------------------------------
(* A step that posts moves the money in the lots by what it posts. *)
Moves(r) ==
  /\ txns[r].type = "NONE" /\ txns'[r].type # "NONE"
  /\ \A s \in Requests \ {r} : txns'[s].type = txns[s].type /\ txns'[s].amount = txns[s].amount
  /\ Total(Remaining)' = Total(Remaining) + Delta(r)

(* Any other leaves the transactions and that money as they are. *)
Rests ==
  /\ \A s \in Requests : txns'[s].type = txns[s].type /\ txns'[s].amount = txns[s].amount
  /\ Total(Remaining)' = Total(Remaining)

MoneyStep == Rests \/ \E r \in Requests : Moves(r)

LEMMA QuietRests ==
  ASSUME UNCHANGED txns, \A l \in Requests : lots'[l].remaining = lots[l].remaining
  PROVE  Rests
<1>1. Remaining' = Remaining
  BY DEF Remaining
<1> QED
  BY <1>1 DEF Rests

LEMMA CreditMoves ==
  ASSUME MoneyInv, NEW r \in Requests, Credit(r)
  PROVE  Rests \/ Moves(r)
<1>t. /\ TypeOK /\ IInv /\ in[r].amount \in Nat /\ pc[r] = "write"
  BY AmountsAssumption DEF MoneyInv, IInv, TypeOK, Inputs, Credit
<1>1. CASE Conflict(r)
  BY <1>1, QuietRests DEF Conflict, db
<1>2. ASSUME txns' = [txns EXCEPT ![r] = Post(r, "CREDIT", 0)],
             lots' = [lots EXCEPT ![r] =
                       [total |-> in[r].amount, remaining |-> in[r].amount,
                        life |-> IF in[r].dated THEN "dated" ELSE "never"]]
      PROVE  Moves(r)
  <2>1. /\ \A s \in Requests : txns'[s] = IF s = r THEN Post(r, "CREDIT", 0) ELSE txns[s]
        /\ Post(r, "CREDIT", 0).type = "CREDIT" /\ Post(r, "CREDIT", 0).amount = in[r].amount
    BY <1>t, <1>2 DEF TypeOK, Post
  <2>2. txns[r].type = "NONE" /\ lots[r].remaining = 0
    BY <1>t DEF IInv, Unposted, NoTxn, NoLot
  <2>3. Remaining' = [Remaining EXCEPT ![r] = in[r].amount] /\ Remaining[r] = 0
    BY <1>t, <1>2, <2>2 DEF TypeOK, Remaining
  <2>4. Remaining \in [Requests -> Nat] /\ Total(Remaining) \in Nat
    BY <1>t, AmountTypes
  <2>5. Total([Remaining EXCEPT ![r] = in[r].amount]) = Total(Remaining) - Remaining[r] + in[r].amount
    BY <1>t, <2>4, TotalUpdate, RequestsAssumption, Zenon
  <2>6. Total(Remaining)' = Total(Remaining) + in[r].amount
    BY <1>t, <2>3, <2>4, <2>5
  <2> QED
    BY <2>1, <2>2, <2>6 DEF Moves, Delta
<1> QED
  BY <1>1, <1>2, Zenon DEF Credit

LEMMA DebitMoves ==
  ASSUME MoneyInv, NEW r \in Requests, Debit(r)
  PROVE  Rests \/ Moves(r)
<1>t. /\ TypeOK /\ IInv /\ in[r].amount \in Nat /\ pc[r] = "write"
  BY AmountsAssumption DEF MoneyInv, IInv, TypeOK, Inputs, Debit
<1>1. CASE Conflict(r) \/ UNCHANGED db
  BY <1>1, QuietRests DEF Conflict, db
<1>2. ASSUME NEW take \in DebitShares(in[r].amount),
             txns' = [txns EXCEPT ![r] = Post(r, "DEBIT", in[r].amount)],
             lots' = [l \in Requests |-> [lots[l] EXCEPT !.remaining = @ - take[l]]]
      PROVE  Moves(r)
  <2>1. /\ \A s \in Requests :
             txns'[s] = IF s = r THEN Post(r, "DEBIT", in[r].amount) ELSE txns[s]
        /\ Post(r, "DEBIT", in[r].amount).type = "DEBIT"
        /\ Post(r, "DEBIT", in[r].amount).amount = in[r].amount
    BY <1>t, <1>2 DEF TypeOK, Post
  <2>2. txns[r].type = "NONE"
    BY <1>t DEF IInv, Unposted, NoTxn
  <2>3. /\ take \in [Requests -> Nat]
        /\ \A l \in Requests : take[l] <= lots[l].remaining
        /\ Total(take) = in[r].amount
    BY <1>t, DebitSharesType
  <2>4. Remaining' = [l \in Requests |-> Remaining[l] - take[l]]
    BY <1>t, <1>2 DEF TypeOK, LotRow, Remaining
  <2>5. Remaining \in [Requests -> Nat] /\ Total(Remaining) \in Nat
        /\ \A l \in Requests : take[l] <= Remaining[l]
    BY <1>t, <2>3, AmountTypes DEF Remaining
  <2>6. Total([l \in Requests |-> Remaining[l] - take[l]]) = Total(Remaining) - Total(take)
    BY <2>3, <2>5, TotalDifference, RequestsAssumption
  <2>7. Total(Remaining)' = Total(Remaining) + (- in[r].amount)
    BY <1>t, <2>3, <2>4, <2>5, <2>6
  <2> QED
    BY <2>1, <2>2, <2>7 DEF Moves, Delta
<1> QED
  BY <1>1, <1>2, Zenon DEF Debit

LEMMA RefundMoves ==
  ASSUME MoneyInv, NEW r \in Requests, Refund(r)
  PROVE  Rests \/ Moves(r)
<1> DEFINE t == in[r].target
<1>t. /\ TypeOK /\ IInv /\ in[r].amount \in Nat /\ t \in Requests
  BY AmountsAssumption DEF MoneyInv, IInv, TypeOK, Inputs
<1>u. pc[r] = "write" /\ in[r].op = "refund"
  BY DEF Refund
<1>1. CASE Conflict(r)
  BY <1>1, QuietRests DEF Conflict, db
<1>2. ASSUME FreshDebit(r), NEW give \in RefundShares(t, in[r].amount),
             txns' = [txns EXCEPT
               ![t] = [tsnap[r] EXCEPT !.unrefunded = @ - in[r].amount, !.ver = @ + 1],
               ![r] = Post(r, "REFUND", 0)],
             lots' = [l \in Requests |->
               [lots[l] EXCEPT
                  !.remaining = @ + give[l],
                  !.life = IF @ = "expired" /\ give[l] > 0 THEN "never" ELSE @]]
      PROVE  Moves(r)
  <2>1. give \in [Requests -> Nat] /\ Total(give) = in[r].amount
    BY <1>u, <1>2, RefundGivesAmount
  <2>2. /\ tsnap[r] = txns[t] /\ txns[t].type = "DEBIT" /\ txns[t] \in TxnRow
        /\ txns[r].type = "NONE" /\ t # r
    <3>1. tsnap[r] = txns[t] /\ txns[t].type = "DEBIT"
      BY <1>u, <1>2 DEF MoneyInv, IInv, DebitRead, FreshDebit
    <3>2. txns[r] = NoTxn
      BY <1>u DEF MoneyInv, IInv, Unposted
    <3> QED
      BY <1>t, <3>1, <3>2 DEF TypeOK, NoTxn
  <2>3. /\ txns'[r] = Post(r, "REFUND", 0)
        /\ txns'[t].type = "DEBIT" /\ txns'[t].amount = txns[t].amount
        /\ \A s \in Requests \ {r, t} : txns'[s] = txns[s]
    BY <1>t, <1>2, <2>2 DEF TypeOK, TxnRow
  <2>4. Total(Remaining)' = Total(Remaining) + in[r].amount
    <3>1. Remaining' = [l \in Requests |-> Remaining[l] + give[l]]
      BY <1>t, <1>2 DEF TypeOK, LotRow, Remaining
    <3>2. Remaining \in [Requests -> Nat]
      BY <1>t, AmountTypes
    <3>3. Total([l \in Requests |-> Remaining[l] + give[l]]) = Total(Remaining) + Total(give)
      BY <2>1, <3>2, TotalSum, RequestsAssumption
    <3> QED
      BY <2>1, <3>1, <3>3
  <2>5. txns'[r].type = "REFUND" /\ txns'[r].amount = in[r].amount
    BY <2>3 DEF Post
  <2> QED
    BY <2>2, <2>3, <2>4, <2>5 DEF Moves, Delta
<1> QED
  BY <1>1, <1>2, Zenon DEF Refund

LEMMA NextMoves == MoneyInv /\ [Next]_vars => MoneyStep
<1> SUFFICES ASSUME MoneyInv, [Next]_vars PROVE MoneyStep
  OBVIOUS
<1>1. CASE UNCHANGED vars
  BY <1>1, QuietRests DEF vars, MoneyStep
<1>2. ASSUME NEW r \in Requests,
             \/ Arrive(r) \/ ReadDebit(r) \/ ReadWallet(r)
             \/ CorrectRead(r) \/ CorrectGet(r) \/ Answer(r) \/ Crash(r)
      PROVE  Rests
  BY <1>2, QuietRests DEF Arrive, ReadDebit, ReadWallet, CorrectRead, CorrectGet, Answer, Crash, db
<1>3. ASSUME NEW r \in Requests, CorrectWrite(r) \/ Put(r) \/ Update(r) PROVE Rests
  BY <1>3, QuietRests DEF CorrectWrite, Put, Update, Conflict, db
<1>4. ASSUME NEW l \in Requests, Expire(l) PROVE Rests
  BY <1>4, QuietRests DEF MoneyInv, IInv, TypeOK, LotRow, Expire
<1> QED
  BY <1>1, <1>2, <1>3, <1>4, CreditMoves, DebitMoves, RefundMoves DEF Next, MoneyStep
-----------------------------------------------------------------------------
(* What the transactions of one type come to is a natural number. *)
LEMMA PostedAsType ==
  ASSUME TypeOK, NEW k
  PROVE  PostedAs(k) \in [Requests -> Nat] /\ Total(PostedAs(k)) \in Nat
<1>1. PostedAs(k) \in [Requests -> Nat]
  BY DEF TypeOK, TxnRow, PostedAs
<1> QED
  BY <1>1, TotalType, RequestsAssumption

(* A posting adds its amount to those of its type, and to no other. *)
LEMMA PostingAdds ==
  ASSUME TypeOK, TypeOK', NEW r \in Requests, Moves(r), NEW k \in {"CREDIT", "DEBIT", "REFUND"}
  PROVE  Total(PostedAs(k)') =
           Total(PostedAs(k)) + IF txns'[r].type = k THEN txns'[r].amount ELSE 0
<1> DEFINE v == IF txns'[r].type = k THEN txns'[r].amount ELSE 0
<1>1. v \in Nat
  BY DEF TypeOK, TxnRow
<1>2. PostedAs(k) \in [Requests -> Nat] /\ Total(PostedAs(k)) \in Nat
  BY PostedAsType
<1>3. PostedAs(k)[r] = 0
  BY DEF Moves, PostedAs
<1>4. PostedAs(k)' = [PostedAs(k) EXCEPT ![r] = v]
  BY DEF Moves, PostedAs
<1> HIDE DEF v
<1>5. Total([PostedAs(k) EXCEPT ![r] = v]) = Total(PostedAs(k)) - PostedAs(k)[r] + v
  BY <1>1, <1>2, TotalUpdate, RequestsAssumption, Zenon
<1>6. Total(PostedAs(k)') = Total(PostedAs(k)) + v
  BY <1>1, <1>2, <1>3, <1>4, <1>5
<1> QED
  BY <1>6 DEF v

LEMMA BooksStep ==
  ASSUME TypeOK, TypeOK', BooksBalance, MoneyStep
  PROVE  BooksBalance'
<1>t. /\ Total(PostedAs("CREDIT")) \in Nat /\ Total(PostedAs("DEBIT")) \in Nat
      /\ Total(PostedAs("REFUND")) \in Nat
  BY PostedAsType
<1>r. Total(Remaining) \in Nat
  <2>1. Remaining \in [Requests -> Nat]
    BY DEF TypeOK, LotRow, Remaining
  <2> QED
    BY <2>1, TotalType, RequestsAssumption
<1>1. CASE Rests
  <2>1. \A k : PostedAs(k)' = PostedAs(k)
    BY <1>1 DEF Rests, PostedAs
  <2> QED
    BY <1>1, <2>1 DEF Rests, BooksBalance
<1>2. ASSUME NEW r \in Requests, Moves(r) PROVE BooksBalance'
  <2>1. txns'[r].type \in {"CREDIT", "DEBIT", "REFUND"} /\ txns'[r].amount \in Nat
    BY <1>2 DEF Moves, TypeOK, TxnRow
  <2>2. \A k \in {"CREDIT", "DEBIT", "REFUND"} :
          Total(PostedAs(k)') =
            Total(PostedAs(k)) + IF txns'[r].type = k THEN txns'[r].amount ELSE 0
    BY <1>2, PostingAdds
  <2>3. Total(Remaining') = Total(Remaining) + Delta(r)
    BY <1>2 DEF Moves
  <2>4. CASE txns'[r].type = "DEBIT"
    <3>1. Delta(r) = - txns'[r].amount
      BY <2>4 DEF Delta
    <3>2. /\ Total(PostedAs("DEBIT")') = Total(PostedAs("DEBIT")) + txns'[r].amount
          /\ Total(PostedAs("CREDIT")') = Total(PostedAs("CREDIT")) + 0
          /\ Total(PostedAs("REFUND")') = Total(PostedAs("REFUND")) + 0
      BY <2>2, <2>4
    <3> QED
      BY <1>t, <1>r, <2>1, <2>3, <3>1, <3>2 DEF BooksBalance
  <2>5. CASE txns'[r].type # "DEBIT"
    <3>1. Delta(r) = txns'[r].amount
      BY <2>5 DEF Delta
    <3>2. CASE txns'[r].type = "CREDIT"
      <4>1. /\ Total(PostedAs("DEBIT")') = Total(PostedAs("DEBIT")) + 0
            /\ Total(PostedAs("CREDIT")') = Total(PostedAs("CREDIT")) + txns'[r].amount
            /\ Total(PostedAs("REFUND")') = Total(PostedAs("REFUND")) + 0
        BY <2>2, <3>2
      <4> QED
        BY <1>t, <1>r, <2>1, <2>3, <3>1, <4>1 DEF BooksBalance
    <3>3. CASE txns'[r].type = "REFUND"
      <4>1. /\ Total(PostedAs("DEBIT")') = Total(PostedAs("DEBIT")) + 0
            /\ Total(PostedAs("CREDIT")') = Total(PostedAs("CREDIT")) + 0
            /\ Total(PostedAs("REFUND")') = Total(PostedAs("REFUND")) + txns'[r].amount
        BY <2>2, <3>3
      <4> QED
        BY <1>t, <1>r, <2>1, <2>3, <3>1, <4>1 DEF BooksBalance
    <3> QED
      BY <2>1, <2>5, <3>2, <3>3
  <2> QED
    BY <2>4, <2>5
<1> QED
  BY <1>1, <1>2 DEF MoneyStep

(* Over all requests together no money is lost and none is made. *)
THEOREM WalletBooksBalance == Spec => []BooksBalance
<1>1. Init => BooksBalance
  <2> SUFFICES ASSUME Init PROVE BooksBalance
    OBVIOUS
  <2>1. /\ Remaining = [x \in Requests |-> 0]
        /\ PostedAs("CREDIT") = [x \in Requests |-> 0]
        /\ PostedAs("DEBIT") = [x \in Requests |-> 0]
        /\ PostedAs("REFUND") = [x \in Requests |-> 0]
    BY DEF Init, Remaining, PostedAs, NoLot, NoTxn
  <2> QED
    BY <2>1, TotalZero DEF BooksBalance
<1>2. MoneyInv /\ MoneyInv' /\ BooksBalance /\ [Next]_vars => BooksBalance'
  BY NextMoves, BooksStep DEF MoneyInv, IInv
<1> QED
  BY <1>1, <1>2, WalletMoney, PTL DEF Spec
-----------------------------------------------------------------------------
(* No credit carries an expiration date. *)
Undated == \A r \in Requests : in[r].op = "credit" => ~ in[r].dated

(* The balance is what the lots hold.  It stays so because no lot expires, so
   that a debit may spend all that they hold, and because nothing is corrected. *)
Exact ==
  /\ wallet.balance = Total(Remaining)
  /\ \A r \in Requests :
       lots[r].life = "never" /\ pc[r] \notin {"correctRead", "correctGet", "correctWrite"}

(* Where lots never expire a debit may spend all that they hold. *)
LEMMA AllSpendable ==
  ASSUME \A l \in Requests : lots[l].life = "never"
  PROVE  ValidAmount = Total(Remaining)
<1>1. Spendable = Remaining
  BY DEF Spendable, Remaining
<1> QED
  BY <1>1 DEF ValidAmount

(* A debit the balance covers finds the lots to take it from. *)
LEMMA DebitCovered ==
  ASSUME MoneyInv, Exact, NEW r \in Requests, Debit(r)
  PROVE  Reply(r, "conflict") \/ Goto(r, "reply")
<1>1. ASSUME Fresh(r) PROVE ~ (ValidAmount < in[r].amount)
  <2>1. snap[r] = wallet /\ in[r].amount <= snap[r].balance
    BY <1>1 DEF MoneyInv, IInv, Fresh, SnapSound, Checked, Debit
  <2>2. ValidAmount = wallet.balance
    BY AllSpendable DEF Exact
  <2>3. in[r].amount \in Nat /\ wallet.balance \in Nat
    BY AmountsAssumption DEF MoneyInv, IInv, TypeOK, WalletRow, Inputs
  <2> QED
    BY <2>1, <2>2, <2>3
<1> QED
  BY <1>1, Zenon DEF Debit, Conflict

(* No lot gets a date, and none expires. *)
LEMMA LivesOn ==
  ASSUME MoneyInv, Undated, Exact, [Next]_vars
  PROVE  \A l \in Requests : lots'[l].life = "never"
<1>t. /\ lots \in [Requests -> LotRow] /\ \A l \in Requests : lots[l].life = "never"
  BY DEF MoneyInv, IInv, TypeOK, Exact
<1>1. CASE UNCHANGED lots
  BY <1>t, <1>1
<1>2. ASSUME NEW r \in Requests, Credit(r) PROVE \A l \in Requests : lots'[l].life = "never"
  <2>1. CASE UNCHANGED lots
    BY <1>t, <2>1
  <2>2. CASE lots' = [lots EXCEPT ![r] =
                       [total |-> in[r].amount, remaining |-> in[r].amount,
                        life |-> IF in[r].dated THEN "dated" ELSE "never"]]
    <3>1. ~ in[r].dated
      BY <1>2 DEF Undated, Credit
    <3> QED
      BY <1>t, <2>2, <3>1
  <2> QED
    BY <1>2, <2>1, <2>2, Zenon DEF Credit, Conflict, db
<1>3. ASSUME NEW r \in Requests, Debit(r) PROVE \A l \in Requests : lots'[l].life = "never"
  <2>1. ASSUME NEW take, lots' = [l \in Requests |-> [lots[l] EXCEPT !.remaining = @ - take[l]]]
        PROVE  \A l \in Requests : lots'[l].life = "never"
    BY <1>t, <2>1 DEF LotRow
  <2>2. CASE UNCHANGED lots
    BY <1>1, <2>2
  <2> QED
    BY <1>3, <2>1, <2>2, Zenon DEF Debit, Conflict, db
<1>4. ASSUME NEW r \in Requests, Refund(r) PROVE \A l \in Requests : lots'[l].life = "never"
  <2>1. ASSUME NEW give,
               lots' = [l \in Requests |->
                 [lots[l] EXCEPT
                    !.remaining = @ + give[l],
                    !.life = IF @ = "expired" /\ give[l] > 0 THEN "never" ELSE @]]
        PROVE  \A l \in Requests : lots'[l].life = "never"
    BY <1>t, <2>1 DEF LotRow
  <2>2. CASE UNCHANGED lots
    BY <1>1, <2>2
  <2> QED
    BY <1>4, <2>1, <2>2, Zenon DEF Refund, Conflict, db
<1>5. ASSUME NEW l \in Requests, Expire(l) PROVE FALSE
  BY <1>t, <1>5 DEF Expire
<1>6. ASSUME NEW r \in Requests,
             \/ Arrive(r) \/ ReadDebit(r) \/ ReadWallet(r) \/ CorrectRead(r) \/ CorrectGet(r)
             \/ CorrectWrite(r) \/ Put(r) \/ Update(r) \/ Answer(r) \/ Crash(r)
      PROVE  UNCHANGED lots
  BY <1>6 DEF Arrive, ReadDebit, ReadWallet, CorrectRead, CorrectGet, CorrectWrite, Put, Update,
              Answer, Crash, Conflict, db
<1> QED
  BY <1>1, <1>2, <1>3, <1>4, <1>5, <1>6 DEF Next, vars

(* No request sets out to correct the balance. *)
LEMMA NoneCorrects ==
  ASSUME MoneyInv, Exact, [Next]_vars
  PROVE  \A r \in Requests : pc'[r] \notin {"correctRead", "correctGet", "correctWrite"}
<1> DEFINE Fine == \A s \in Requests : pc'[s] \notin {"correctRead", "correctGet", "correctWrite"}
<1>t. /\ pc \in [Requests -> PCs]
      /\ \A s \in Requests : pc[s] \notin {"correctRead", "correctGet", "correctWrite"}
  BY DEF MoneyInv, IInv, TypeOK, Exact
<1>1. ASSUME NEW r \in Requests,
             \/ \E a \in Answers : Reply(r, a)
             \/ \E l \in PCs \ {"correctRead", "correctGet", "correctWrite"} : Goto(r, l)
      PROVE  Fine
  BY <1>t, <1>1 DEF Reply, Goto
<1>2. CASE UNCHANGED vars
  BY <1>t, <1>2 DEF vars
<1>3. ASSUME NEW r \in Requests, Arrive(r) \/ ReadDebit(r) \/ ReadWallet(r) \/ Put(r) PROVE Fine
  BY <1>1, <1>3 DEF Arrive, ReadDebit, ReadWallet, Put, PCs, Answers
<1>4. ASSUME NEW r \in Requests, Credit(r) \/ Refund(r) \/ Update(r) \/ Answer(r) \/ Crash(r) PROVE Fine
  BY <1>1, <1>4 DEF Credit, Refund, Update, Answer, Crash, Conflict, Answers, PCs
<1>5. ASSUME NEW r \in Requests, Debit(r) PROVE Fine
  BY <1>1, <1>5, DebitCovered DEF Answers, PCs
<1>6. ASSUME NEW r \in Requests, CorrectRead(r) \/ CorrectGet(r) \/ CorrectWrite(r) PROVE FALSE
  BY <1>t, <1>6 DEF CorrectRead, CorrectGet, CorrectWrite
<1>7. ASSUME NEW l \in Requests, Expire(l) PROVE Fine
  BY <1>t, <1>7 DEF Expire
<1> QED
  BY <1>2, <1>3, <1>4, <1>5, <1>6, <1>7 DEF Next

(* A step posts a transaction, corrects the balance or keeps it. *)
LEMMA PostsOrKeeps ==
  ASSUME IInv, [Next]_vars
  PROVE  \/ wallet'.balance = wallet.balance /\ UNCHANGED <<txns, Remaining>>
         \/ \E r \in Requests : txns'[r].type # txns[r].type
         \/ \E r \in Requests : CorrectWrite(r)
<1> DEFINE Keeps == wallet'.balance = wallet.balance /\ UNCHANGED <<txns, Remaining>>
<1>1. ASSUME UNCHANGED db PROVE Keeps
  BY <1>1 DEF db, Remaining
<1>2. ASSUME NEW r \in Requests, Credit(r) \/ Debit(r) \/ Refund(r), ~ UNCHANGED db
      PROVE  txns'[r].type # txns[r].type
  <2>1. txns \in [Requests -> TxnRow] /\ txns[r].type = "NONE"
    <3>1. pc[r] = "write"
      BY <1>2, Zenon DEF Credit, Debit, Refund
    <3> QED
      BY <3>1 DEF IInv, TypeOK, Unposted, NoTxn
  <2>2. \E k \in {"CREDIT", "DEBIT", "REFUND"} : \E n : txns'[r] = Post(r, k, n)
    <3>1. ASSUME Credit(r) PROVE txns' = [txns EXCEPT ![r] = Post(r, "CREDIT", 0)]
      BY <1>2, <3>1, Zenon DEF Credit, Conflict
    <3>2. ASSUME Debit(r) PROVE txns' = [txns EXCEPT ![r] = Post(r, "DEBIT", in[r].amount)]
      BY <1>2, <3>2, Zenon DEF Debit, Conflict
    <3>3. ASSUME Refund(r)
          PROVE  txns' = [txns EXCEPT
                   ![in[r].target] = [tsnap[r] EXCEPT !.unrefunded = @ - in[r].amount, !.ver = @ + 1],
                   ![r] = Post(r, "REFUND", 0)]
      BY <1>2, <3>3, Zenon DEF Refund, Conflict
    <3>4. \A v : [txns EXCEPT ![r] = v][r] = v
      BY <2>1
    <3>5. \A t, w, v : [txns EXCEPT ![t] = w, ![r] = v][r] = v
      BY <2>1
    <3> QED
      BY <1>2, <3>1, <3>2, <3>3, <3>4, <3>5
  <2> QED
    BY <2>1, <2>2 DEF Post
<1>3. ASSUME NEW r \in Requests, Update(r) PROVE Keeps
  <2>1. CASE Conflict(r)
    BY <1>1, <2>1 DEF Conflict
  <2>2. CASE /\ snap[r].balance = wallet.balance
             /\ wallet' = [snap[r] EXCEPT !.status = in[r].status, !.uuid = in[r].uuid, !.ver = @ + 1]
             /\ UNCHANGED <<lots, txns>>
    <3>1. snap[r] \in WalletRow
      BY DEF IInv, TypeOK
    <3>2. wallet'.balance = wallet.balance
      BY <2>2, <3>1 DEF WalletRow
    <3> QED
      BY <2>2, <3>2 DEF Remaining
  <2> QED
    BY <1>3, <2>1, <2>2, Zenon DEF Update
<1>4. ASSUME NEW l \in Requests, Expire(l) PROVE Keeps
  <2>1. \A k \in Requests : lots'[k].remaining = lots[k].remaining
    BY <1>4 DEF IInv, TypeOK, LotRow, Expire
  <2> QED
    BY <1>4, <2>1 DEF Expire, Remaining
<1>5. ASSUME NEW r \in Requests,
             \/ Arrive(r) \/ ReadDebit(r) \/ ReadWallet(r) \/ CorrectRead(r) \/ CorrectGet(r)
             \/ Put(r) \/ Answer(r) \/ Crash(r)
      PROVE  UNCHANGED db
  BY <1>5 DEF Arrive, ReadDebit, ReadWallet, CorrectRead, CorrectGet, Put, Answer, Crash, db
<1>6. CASE UNCHANGED vars
  BY <1>1, <1>6 DEF vars, db
<1> QED
  BY <1>1, <1>2, <1>3, <1>4, <1>5, <1>6 DEF Next

(* Balance and lots move together. *)
LEMMA ExactStep ==
  ASSUME MoneyInv, Undated, Exact, [Next]_vars
  PROVE  Exact'
<1>1. wallet'.balance = Total(Remaining)'
  <2>1. CASE wallet'.balance = wallet.balance /\ UNCHANGED <<txns, Remaining>>
    BY <2>1 DEF Exact
  <2>2. ASSUME NEW r \in Requests, txns'[r].type # txns[r].type
        PROVE  wallet'.balance = Total(Remaining)'
    <3>1. wallet'.balance = wallet.balance + Delta(r)
      BY <2>2, NextPosts DEF MoneyInv, PostingStep
    <3>2. Moves(r)
      BY <2>2, NextMoves DEF MoneyStep, Rests, Moves
    <3> QED
      BY <3>1, <3>2 DEF Exact, Moves
  <2>3. ASSUME NEW r \in Requests, CorrectWrite(r) PROVE FALSE
    BY <2>3 DEF Exact, CorrectWrite
  <2> QED
    BY <2>1, <2>2, <2>3, PostsOrKeeps DEF MoneyInv
<1> QED
  BY <1>1, LivesOn, NoneCorrects DEF Exact

(* If no credit carries an expiration date the stored balance never departs
   from the lots, and the correction of a balance never runs.               *)
THEOREM WalletBalanceIsMoney == Spec => []BalanceIsMoney
<1>1. Init => (Undated => Exact)
  <2> SUFFICES ASSUME Init PROVE Exact
    OBVIOUS
  <2>1. Remaining = [x \in Requests |-> 0]
    BY DEF Init, Remaining, NoLot
  <2>2. wallet.balance = Total(Remaining)
    BY <2>1, TotalZero DEF Init, NewWallet
  <2> QED
    BY <2>2 DEF Init, Exact, NoLot
<1>2. MoneyInv /\ (Undated => Exact) /\ [Next]_vars => (Undated => Exact)'
  <2>1. [Next]_vars => UNCHANGED in
    BY DEF Next, vars, Arrive, ReadDebit, ReadWallet, Credit, Debit, Refund, CorrectRead,
           CorrectGet, CorrectWrite, Put, Update, Answer, Crash, Expire
  <2>2. [Next]_vars /\ Undated' => Undated
    BY <2>1 DEF Undated
  <2> QED
    BY <2>2, ExactStep
<1>3. (Undated => Exact) => BalanceIsMoney
  BY DEF Undated, Exact, BalanceIsMoney
<1> QED
  BY <1>1, <1>2, <1>3, WalletMoney, PTL DEF Spec
=============================================================================
