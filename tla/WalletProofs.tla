---------------------------- MODULE WalletProofs ----------------------------
(***************************************************************************)
(* What no interleaving of requests can break, for any number of requests, *)
(* any amounts and any tracking UUIDs.                                     *)
(*                                                                         *)
(* A type invariant alone is not inductive: a balance stays natural only   *)
(* because what a request decided on a wallet it read still holds of it    *)
(* when its write succeeds.  IInv says what a request's reads are worth.   *)
(***************************************************************************)
EXTENDS Wallet, TotalsTheorems

(* A wallet read earlier is the current one unless its version moved on. *)
SnapSound(r) ==
  /\ snap[r].ver <= wallet.ver
  /\ snap[r].ver = wallet.ver => snap[r] = wallet

(* A request that is about to write has validated the wallet it read. *)
Checked(r) ==
  pc[r] = "write" =>
    /\ snap[r].status = "ACTIVE"
    /\ in[r].op = "debit" => in[r].amount <= snap[r].balance

(* A refund under way names a debit, still has enough of it in the copy it
   read, and that copy is current unless the version of the debit moved on. *)
DebitRead(r) ==
  in[r].op = "refund" /\ pc[r] \in {"readWallet", "write"} =>
    LET now == txns[in[r].target]
    IN  /\ tsnap[r].type = "DEBIT" /\ now.type = "DEBIT"
        /\ tsnap[r].uuid = now.uuid
        /\ tsnap[r].amount = now.amount
        /\ in[r].amount <= tsnap[r].unrefunded
        /\ tsnap[r].ver <= now.ver
        /\ tsnap[r].ver = now.ver => tsnap[r] = now

(* A request that has not written has left nothing behind, and one that is
   still being served has not been answered.                                *)
Unposted(r) ==
  /\ pc[r] \notin {"reply", "done"} =>
       /\ txns[r] = NoTxn /\ lots[r] = NoLot
       /\ lotTxns[r] = [l \in Requests |-> NoLotTxn]
       /\ \A t \in Requests : lotTxns[t][r].unrefunded = 0
  /\ pc[r] # "done" => answer[r] = "none"

(* A request takes only the steps of its own operation. *)
Placed(r) ==
  /\ pc[r] \in {"readWallet", "write"} => in[r].op \in {"credit", "debit", "refund"}
  /\ pc[r] = "readDebit" => in[r].op = "refund"
  /\ pc[r] \in {"put", "update"} => in[r].op = "update"

IInv ==
  /\ TypeOK
  /\ \A r \in Requests :
       SnapSound(r) /\ Checked(r) /\ DebitRead(r) /\ Unposted(r) /\ Placed(r)

(* The valid amount is a natural number. *)
LEMMA ValidAmountType ==
  ASSUME TypeOK
  PROVE  ValidAmount \in Nat /\ Spendable \in [Requests -> Nat]
<1>1. Spendable \in [Requests -> Nat]
  BY DEF TypeOK, LotRow, Spendable
<1> QED
  BY <1>1, TotalType, RequestsAssumption DEF ValidAmount

(* What a refund gives back to the lots stays within what the debit holds. *)
LEMMA RefundSharesType ==
  ASSUME TypeOK, NEW t \in Requests, NEW amount \in Nat, NEW give \in RefundShares(t, amount)
  PROVE  /\ Refundable(t) \in [Requests -> Nat]
         /\ give \in [Requests -> Nat]
         /\ \A l \in Requests : give[l] <= lotTxns[t][l].unrefunded
         /\ Total(give) = IF amount <= Total(Refundable(t)) THEN amount ELSE Total(Refundable(t))
<1>1. Refundable(t) \in [Requests -> Nat]
  BY DEF TypeOK, LotTxnRow, Refundable
<1>2. Total(Refundable(t)) \in Nat
  BY <1>1, TotalType, RequestsAssumption
<1> DEFINE sum == IF amount <= Total(Refundable(t)) THEN amount ELSE Total(Refundable(t))
<1>3. sum \in Nat
  BY <1>2
<1> HIDE DEF sum
<1>4. give \in Shares(Refundable(t), sum)
  BY DEF RefundShares, sum
<1>5. /\ give \in [Requests -> 0 .. sum]
      /\ Total(give) = sum
      /\ \A l \in Requests : give[l] <= Refundable(t)[l]
  BY <1>4 DEF Shares
<1>6. give \in [Requests -> Nat]
  BY <1>3, <1>5
<1> QED
  BY <1>1, <1>5, <1>6 DEF Refundable, sum

(* What a debit takes from the lots stays within what each of them holds. *)
LEMMA DebitSharesType ==
  ASSUME TypeOK, NEW amount \in Nat, NEW take \in DebitShares(amount)
  PROVE  /\ take \in [Requests -> Nat]
         /\ \A l \in Requests : take[l] <= lots[l].remaining
         /\ Total(take) = amount
<1>1. /\ take \in [Requests -> 0 .. amount]
      /\ Total(take) = amount
      /\ \A l \in Requests : take[l] <= Spendable[l]
  BY DEF DebitShares, Shares
<1>2. \A l \in Requests : Spendable[l] <= lots[l].remaining
  BY DEF TypeOK, LotRow, Spendable
<1>3. Spendable \in [Requests -> Nat] /\ \A l \in Requests : lots[l].remaining \in Nat
  BY ValidAmountType DEF TypeOK, LotRow
<1> QED
  BY <1>1, <1>2, <1>3
-----------------------------------------------------------------------------
(* The first states satisfy the invariant. *)
LEMMA InitIInv == Init => IInv
<1> SUFFICES ASSUME Init PROVE IInv
  OBVIOUS
<1>1. in \in [Requests -> Inputs]
  BY MenuAssumption DEF Init
<1>2. TypeOK
  BY <1>1 DEF Init, TypeOK, NewWallet, NoLot, NoTxn, NoLotTxn, WalletRow, LotRow, TxnRow,
              LotTxnRow, PCs, Answers, Statuses
<1>3. ASSUME NEW r \in Requests
      PROVE  SnapSound(r) /\ Checked(r) /\ DebitRead(r) /\ Unposted(r) /\ Placed(r)
  BY DEF Init, SnapSound, Checked, DebitRead, Unposted, Placed, NewWallet, NoLotTxn
<1> QED
  BY <1>2, <1>3 DEF IInv

(* Arriving and reading change no row: what was read is still sound. *)
LEMMA ArriveIInv ==
  ASSUME IInv, NEW r \in Requests, Arrive(r)
  PROVE  IInv'
<1>1. TypeOK'
  BY ZenonT(30) DEF IInv, TypeOK, Arrive, Reply, Goto, PCs, Answers, db
<1>2. ASSUME NEW s \in Requests
      PROVE  (SnapSound(s) /\ Checked(s) /\ DebitRead(s) /\ Unposted(s) /\ Placed(s))'
  <2>1. UNCHANGED <<wallet, lots, txns, lotTxns, in, tsnap>>
    BY DEF Arrive, db
  <2>2. CASE s = r
    <3>1. pc[r] = "idle" /\ snap'[r] \in {snap[r], wallet}
          /\ (pc'[r] = "done" \/ answer'[r] = answer[r])
      BY DEF IInv, TypeOK, Arrive, Reply, Goto
    <3>2. \/ pc'[r] = "done"
          \/ pc'[r] = "put" /\ in[r].op = "update"
          \/ pc'[r] = "readDebit" /\ in[r].op = "refund"
          \/ pc'[r] = "readWallet" /\ in[r].op \in {"credit", "debit"}
      BY DEF IInv, TypeOK, Arrive, Reply, Goto, Inputs, Ops
    <3> QED
      BY <2>1, <2>2, <3>1, <3>2 DEF IInv, TypeOK, SnapSound, Checked, DebitRead, Unposted, Placed,
                                    WalletRow
  <2>3. CASE s # r
    <3>1. pc'[s] = pc[s] /\ answer'[s] = answer[s] /\ snap'[s] = snap[s]
      BY <2>3 DEF IInv, TypeOK, Arrive, Reply, Goto
    <3> QED
      BY <2>1, <3>1 DEF IInv, SnapSound, Checked, DebitRead, Unposted, Placed
  <2> QED
    BY <2>2, <2>3
<1> QED
  BY <1>1, <1>2 DEF IInv

(* A refund reads its debit: the copy it keeps is the current row. *)
LEMMA ReadDebitIInv ==
  ASSUME IInv, NEW r \in Requests, ReadDebit(r)
  PROVE  IInv'
<1>1. TypeOK'
  <2>1. txns[in[r].target] \in TxnRow
    BY DEF IInv, TypeOK, Inputs
  <2> QED
    BY <2>1 DEF IInv, TypeOK, ReadDebit, Reply, Goto, PCs, Answers, db
<1>2. ASSUME NEW s \in Requests
      PROVE  (SnapSound(s) /\ Checked(s) /\ Unposted(s) /\ Placed(s))'
  BY DEF IInv, TypeOK, ReadDebit, Reply, Goto, db, SnapSound, Checked, Unposted, Placed
<1>3. ASSUME NEW s \in Requests PROVE DebitRead(s)'
  <2>1. txns[in[r].target].ver \in Nat /\ in[r].amount \in Nat
        /\ txns[in[r].target].unrefunded \in Nat
    BY AmountsAssumption DEF IInv, TypeOK, TxnRow, Inputs
  <2>2. CASE s = r
    BY <2>1, <2>2 DEF IInv, TypeOK, ReadDebit, Reply, Goto, db, DebitRead
  <2>3. CASE s # r
    BY <2>3 DEF IInv, TypeOK, ReadDebit, Reply, Goto, db, DebitRead
  <2> QED
    BY <2>2, <2>3
<1> QED
  BY <1>1, <1>2, <1>3 DEF IInv

(* A request reads the wallet and goes on only if it may post. *)
LEMMA ReadWalletIInv ==
  ASSUME IInv, NEW r \in Requests, ReadWallet(r)
  PROVE  IInv'
<1>1. TypeOK'
  BY DEF IInv, TypeOK, ReadWallet, Reply, Goto, PCs, Answers, db
<1>2. ASSUME NEW s \in Requests PROVE (SnapSound(s) /\ Unposted(s) /\ Placed(s))'
  BY DEF IInv, TypeOK, ReadWallet, Reply, Goto, db, SnapSound, Unposted, Placed, WalletRow
<1>3. ASSUME NEW s \in Requests PROVE DebitRead(s)'
  BY DEF IInv, TypeOK, ReadWallet, Reply, Goto, db, DebitRead
<1>4. ASSUME NEW s \in Requests PROVE Checked(s)'
  <2>1. wallet.status \in Statuses /\ wallet.balance \in Nat /\ in[r].amount \in Nat
    BY AmountsAssumption DEF IInv, TypeOK, WalletRow, Inputs
  <2> QED
    BY <2>1 DEF IInv, TypeOK, ReadWallet, Reply, Goto, db, Checked, Statuses
<1> QED
  BY <1>1, <1>2, <1>3, <1>4 DEF IInv

(* A correction sums the valid lots. *)
LEMMA CorrectReadIInv ==
  ASSUME IInv, NEW r \in Requests, CorrectRead(r)
  PROVE  IInv'
<1>1. TypeOK'
  BY ValidAmountType DEF IInv, TypeOK, CorrectRead, Reply, Goto, PCs, Answers, db
<1>2. ASSUME NEW s \in Requests
      PROVE  (SnapSound(s) /\ Checked(s) /\ DebitRead(s) /\ Unposted(s) /\ Placed(s))'
  BY DEF IInv, TypeOK, CorrectRead, Reply, Goto, PCs, Answers, db, SnapSound, Checked, DebitRead,
         Unposted, Placed, WalletRow, TxnRow, Inputs, Ops, Statuses
<1> QED
  BY <1>1, <1>2 DEF IInv

(* A correction reads the wallet. *)
LEMMA CorrectGetIInv ==
  ASSUME IInv, NEW r \in Requests, CorrectGet(r)
  PROVE  IInv'
<1>1. TypeOK'
  BY ValidAmountType DEF IInv, TypeOK, CorrectGet, Reply, Goto, PCs, Answers, db
<1>2. ASSUME NEW s \in Requests
      PROVE  (SnapSound(s) /\ Checked(s) /\ DebitRead(s) /\ Unposted(s) /\ Placed(s))'
  BY DEF IInv, TypeOK, CorrectGet, Reply, Goto, PCs, Answers, db, SnapSound, Checked, DebitRead,
         Unposted, Placed, WalletRow, TxnRow, Inputs, Ops, Statuses
<1> QED
  BY <1>1, <1>2 DEF IInv

(* A request that leaves without a write, dead or refused, changes no row. *)
LEMMA LeaveIInv ==
  ASSUME IInv, NEW r \in Requests, NEW a \in Answers, Reply(r, a),
         UNCHANGED <<db, in, snap, tsnap, valid>>
  PROVE  IInv'
<1>1. TypeOK'
  BY DEF IInv, TypeOK, Reply, Goto, PCs, db
<1>2. ASSUME NEW s \in Requests
      PROVE  (SnapSound(s) /\ Checked(s) /\ DebitRead(s) /\ Unposted(s) /\ Placed(s))'
  BY DEF IInv, TypeOK, Reply, Goto, PCs, db, SnapSound, Checked, DebitRead, Unposted, Placed
<1> QED
  BY <1>1, <1>2 DEF IInv

LEMMA ConflictIInv ==
  ASSUME IInv, NEW r \in Requests, Conflict(r), UNCHANGED <<in, snap, tsnap, valid>>
  PROVE  IInv'
  BY LeaveIInv DEF Conflict, Answers

(* A saved wallet is newer than every copy of it. *)
LEMMA SaveSound ==
  ASSUME IInv, NEW r \in Requests, NEW b \in Nat, Fresh(r), Save(r, b), UNCHANGED snap
  PROVE  /\ snap[r] = wallet
         /\ wallet' = [wallet EXCEPT !.balance = b, !.ver = @ + 1]
         /\ wallet' \in WalletRow
         /\ \A s \in Requests : SnapSound(s)'
<1>1. snap[r] = wallet /\ wallet \in WalletRow /\ snap \in [Requests -> WalletRow]
  BY DEF IInv, TypeOK, Fresh, SnapSound
<1>2. /\ wallet' = [wallet EXCEPT !.balance = b, !.ver = @ + 1]
      /\ wallet' \in WalletRow
  <2>1. wallet' = [wallet EXCEPT !.balance = b, !.ver = @ + 1]
    BY <1>1 DEF Save
  <2>2. wallet.ver + 1 \in Nat
    BY <1>1 DEF WalletRow
  <2> QED
    BY <1>1, <2>1, <2>2 DEF WalletRow
<1>3. wallet'.ver = wallet.ver + 1 /\ wallet.ver \in Nat
  BY <1>1, <1>2 DEF WalletRow
<1>4. ASSUME NEW s \in Requests PROVE SnapSound(s)'
  <2>1. snap[s].ver <= wallet.ver /\ snap[s].ver \in Nat
    BY <1>1 DEF IInv, SnapSound, WalletRow
  <2>2. snap'[s] = snap[s]
    OBVIOUS
  <2> QED
    BY <1>3, <2>1, <2>2 DEF SnapSound
<1> QED
  BY <1>1, <1>2, <1>4

(* A credit adds a transaction and a lot of its own. *)
LEMMA CreditIInv ==
  ASSUME IInv, NEW r \in Requests, Credit(r)
  PROVE  IInv'
<1>t. TypeOK /\ in[r].amount \in Nat /\ snap[r].balance \in Nat /\ in[r] \in Inputs
  BY AmountsAssumption DEF IInv, TypeOK, WalletRow, Inputs
<1>u. UNCHANGED <<in, snap, tsnap, valid>> /\ pc[r] = "write"
  BY DEF Credit
<1>1. CASE Conflict(r)
  BY <1>u, <1>1, ConflictIInv
<1>2. CASE Fresh(r) /\ ~ Conflict(r)
  <2>0. /\ Save(r, snap[r].balance + in[r].amount)
        /\ txns' = [txns EXCEPT ![r] = Post(r, "CREDIT", 0)]
        /\ lots' = [lots EXCEPT ![r] =
                      [total |-> in[r].amount, remaining |-> in[r].amount,
                       life |-> IF in[r].dated THEN "dated" ELSE "never"]]
        /\ UNCHANGED lotTxns
        /\ Goto(r, "reply")
    BY <1>2, Zenon DEF Credit
  <2>1. wallet' \in WalletRow /\ \A s \in Requests : SnapSound(s)'
    <3>1. snap[r].balance + in[r].amount \in Nat
      BY <1>t
    <3> QED
      BY <1>u, <1>2, <2>0, <3>1, SaveSound
  <2>2. Post(r, "CREDIT", 0) \in TxnRow
    BY <1>t DEF Post, TxnRow, Inputs
  <2>3. TypeOK'
    BY <1>t, <1>u, <2>0, <2>1, <2>2 DEF TypeOK, Reply, Goto, LotRow, PCs, Answers
  <2>4. ASSUME NEW s \in Requests PROVE (Checked(s) /\ Unposted(s) /\ Placed(s))'
    BY <1>u, <2>0 DEF IInv, TypeOK, Reply, Goto, Checked, Unposted, Placed
  <2>5. ASSUME NEW s \in Requests PROVE DebitRead(s)'
    <3>1. txns[r].type = "NONE" /\ in[s].target \in Requests
      BY <1>u DEF IInv, TypeOK, Unposted, NoTxn, Inputs
    <3> QED
      BY <1>u, <2>0, <3>1 DEF IInv, TypeOK, Reply, Goto, DebitRead
  <2> QED
    BY <2>1, <2>3, <2>4, <2>5 DEF IInv
<1> QED
  BY <1>1, <1>2, Zenon DEF Credit

(* A debit takes from the lots no more than each holds, from a balance that
   was validated and has not moved; or goes on to correct the balance.      *)
LEMMA DebitIInv ==
  ASSUME IInv, NEW r \in Requests, Debit(r)
  PROVE  IInv'
<1>t. TypeOK /\ in[r].amount \in Nat /\ snap[r].balance \in Nat /\ in[r] \in Inputs
  BY AmountsAssumption DEF IInv, TypeOK, WalletRow, Inputs
<1>u. UNCHANGED <<in, snap, tsnap, valid>> /\ pc[r] = "write" /\ in[r].op = "debit"
  BY DEF Debit
<1>1. CASE Conflict(r)
  BY <1>u, <1>1, ConflictIInv
<1>2. CASE Goto(r, "correctRead") /\ UNCHANGED db
  <2>1. TypeOK'
    BY <1>t, <1>u, <1>2 DEF TypeOK, Goto, PCs, db
  <2>2. ASSUME NEW s \in Requests
        PROVE  (SnapSound(s) /\ Checked(s) /\ DebitRead(s) /\ Unposted(s) /\ Placed(s))'
    BY <1>u, <1>2 DEF IInv, TypeOK, Goto, db, SnapSound, Checked, DebitRead, Unposted, Placed
  <2> QED
    BY <2>1, <2>2 DEF IInv
<1>3. ASSUME Fresh(r), NEW take \in DebitShares(in[r].amount),
             Save(r, snap[r].balance - in[r].amount),
             txns' = [txns EXCEPT ![r] = Post(r, "DEBIT", in[r].amount)],
             lots' = [l \in Requests |-> [lots[l] EXCEPT !.remaining = @ - take[l]]],
             lotTxns' = [lotTxns EXCEPT ![r] =
                           [l \in Requests |-> [amount |-> take[l], unrefunded |-> take[l]]]],
             Goto(r, "reply")
      PROVE  IInv'
  <2>1. take \in [Requests -> Nat] /\ \A l \in Requests : take[l] <= lots[l].remaining
    BY <1>t, DebitSharesType
  <2>2. wallet' \in WalletRow /\ \A s \in Requests : SnapSound(s)'
    <3>1. in[r].amount <= snap[r].balance
      BY <1>u DEF IInv, Checked
    <3>2. snap[r].balance - in[r].amount \in Nat
      BY <1>t, <3>1
    <3> QED
      BY <1>u, <1>3, <3>2, SaveSound
  <2>3. Post(r, "DEBIT", in[r].amount) \in TxnRow
    BY <1>t DEF Post, TxnRow, Inputs
  <2>4. lots' \in [Requests -> LotRow]
    <3>1. ASSUME NEW l \in Requests PROVE [lots[l] EXCEPT !.remaining = @ - take[l]] \in LotRow
      <4>1. lots[l] \in LotRow /\ lots[l].remaining - take[l] \in Nat
        BY <1>t, <2>1 DEF TypeOK, LotRow
      <4> QED
        BY <4>1 DEF LotRow
    <3> QED
      BY <1>3, <3>1
  <2>5. lotTxns' \in [Requests -> [Requests -> LotTxnRow]]
    BY <1>t, <1>3, <2>1 DEF TypeOK, LotTxnRow
  <2>6. TypeOK'
    BY <1>t, <1>u, <1>3, <2>2, <2>3, <2>4, <2>5 DEF TypeOK, Reply, Goto, PCs, Answers
  <2>7. ASSUME NEW s \in Requests PROVE (Checked(s) /\ Placed(s))'
    BY <1>u, <1>3 DEF IInv, TypeOK, Reply, Goto, Checked, Placed
  <2>8. ASSUME NEW s \in Requests PROVE Unposted(s)'
    <3>1. CASE s = r
      BY <1>t, <1>u, <1>3, <3>1 DEF IInv, TypeOK, Reply, Goto, Unposted
    <3>2. CASE s # r /\ pc[s] \notin {"reply", "done"}
      <4>1. lots[s] = NoLot /\ txns'[s] = NoTxn /\ lotTxns'[s] = [l \in Requests |-> NoLotTxn]
            /\ answer'[s] = "none"
        BY <1>t, <1>3, <3>2 DEF IInv, TypeOK, Reply, Goto, Unposted
      <4>2. take[s] = 0 /\ lots'[s] = [lots[s] EXCEPT !.remaining = @ - take[s]]
        BY <1>3, <2>1, <4>1 DEF NoLot
      <4>3. lots'[s] = NoLot
        BY <4>1, <4>2 DEF NoLot
      <4>4. \A t \in Requests : lotTxns'[t][s].unrefunded = 0
        BY <1>t, <1>3, <3>2, <4>2 DEF IInv, TypeOK, Unposted
      <4> QED
        BY <4>1, <4>3, <4>4 DEF Unposted
    <3>3. CASE s # r /\ pc[s] \in {"reply", "done"}
      <4>1. pc'[s] = pc[s] /\ answer'[s] = answer[s]
        BY <1>t, <1>3, <3>3 DEF TypeOK, Goto
      <4>2. pc[s] # "done" => answer[s] = "none"
        BY DEF IInv, Unposted
      <4> QED
        BY <3>3, <4>1, <4>2 DEF Unposted
    <3> QED
      BY <3>1, <3>2, <3>3
  <2>9. ASSUME NEW s \in Requests PROVE DebitRead(s)'
    <3>1. txns[r].type = "NONE" /\ in[s].target \in Requests
      <4>1. txns[r] = NoTxn
        BY <1>u DEF IInv, Unposted
      <4> QED
        BY <1>t, <4>1 DEF TypeOK, NoTxn, Inputs
    <3> QED
      BY <1>u, <1>3, <3>1 DEF IInv, TypeOK, Reply, Goto, DebitRead
  <2> QED
    BY <2>2, <2>6, <2>7, <2>8, <2>9 DEF IInv
<1> QED
  BY <1>1, <1>2, <1>3, Zenon DEF Debit

(* A refund takes from the debit no more than its copy of it still has. *)
LEMMA RefundIInv ==
  ASSUME IInv, NEW r \in Requests, Refund(r)
  PROVE  IInv'
<1> DEFINE t == in[r].target
<1>t. /\ TypeOK /\ in[r].amount \in Nat /\ snap[r].balance \in Nat /\ in[r] \in Inputs
      /\ t \in Requests /\ tsnap[r] \in TxnRow
  BY AmountsAssumption DEF IInv, TypeOK, WalletRow, Inputs
<1>u. UNCHANGED <<in, snap, tsnap, valid>> /\ pc[r] = "write" /\ in[r].op = "refund"
  BY DEF Refund
<1>1. CASE Conflict(r)
  BY <1>u, <1>1, ConflictIInv
<1>2. ASSUME Fresh(r), FreshDebit(r), NEW give \in RefundShares(t, in[r].amount),
             Save(r, snap[r].balance + in[r].amount),
             txns' = [txns EXCEPT
               ![t] = [tsnap[r] EXCEPT !.unrefunded = @ - in[r].amount, !.ver = @ + 1],
               ![r] = Post(r, "REFUND", 0)],
             lots' = [l \in Requests |->
               [lots[l] EXCEPT
                  !.remaining = @ + give[l],
                  !.life = IF @ = "expired" /\ give[l] > 0 THEN "never" ELSE @]],
             lotTxns' = [lotTxns EXCEPT ![t] = Returned(t, give)],
             Goto(r, "reply")
      PROVE  IInv'
  <2>1. give \in [Requests -> Nat] /\ \A l \in Requests : give[l] <= lotTxns[t][l].unrefunded
    BY <1>t, RefundSharesType
  <2>2. wallet' \in WalletRow /\ \A s \in Requests : SnapSound(s)'
    <3>1. snap[r].balance + in[r].amount \in Nat
      BY <1>t
    <3> QED
      BY <1>u, <1>2, <3>1, SaveSound
  <2>3. /\ tsnap[r].type = "DEBIT" /\ txns[t].type = "DEBIT"
        /\ in[r].amount <= tsnap[r].unrefunded
        /\ tsnap[r] = txns[t]
    BY <1>u, <1>2 DEF IInv, DebitRead, FreshDebit
  <2>4. /\ txns[r] = NoTxn /\ lots[r] = NoLot /\ t # r
        /\ lotTxns[r] = [l \in Requests |-> NoLotTxn]
    BY <1>u, <2>3 DEF IInv, Unposted, NoTxn
  <2> DEFINE t1 == [tsnap[r] EXCEPT !.unrefunded = @ - in[r].amount, !.ver = @ + 1]
  <2>5. /\ t1 \in TxnRow
        /\ t1.type = "DEBIT" /\ t1.uuid = txns[t].uuid /\ t1.amount = txns[t].amount
        /\ t1.ver = txns[t].ver + 1 /\ txns[t].ver \in Nat
    <3>1. tsnap[r].unrefunded - in[r].amount \in Nat /\ tsnap[r].ver + 1 \in Nat
      BY <1>t, <2>3 DEF TxnRow
    <3> QED
      BY <1>t, <2>3, <3>1 DEF TxnRow
  <2>6. Post(r, "REFUND", 0) \in TxnRow
    BY <1>t DEF Post, TxnRow, Inputs
  <2> HIDE DEF t1
  <2>7. txns' = [txns EXCEPT ![t] = t1, ![r] = Post(r, "REFUND", 0)]
    BY <1>2 DEF t1
  <2>8. lots' \in [Requests -> LotRow]
    <3>1. ASSUME NEW l \in Requests PROVE lots'[l] \in LotRow
      <4>1. lots[l] \in LotRow /\ lots[l].remaining + give[l] \in Nat
        BY <1>t, <2>1 DEF TypeOK, LotRow
      <4> QED
        BY <1>2, <4>1 DEF LotRow
    <3> QED
      BY <1>2, <3>1
  <2>9. lotTxns' \in [Requests -> [Requests -> LotTxnRow]]
    <3>1. ASSUME NEW l \in Requests
          PROVE  [lotTxns[t][l] EXCEPT !.unrefunded = @ - give[l]] \in LotTxnRow
      <4>1. lotTxns[t][l] \in LotTxnRow /\ lotTxns[t][l].unrefunded - give[l] \in Nat
        BY <1>t, <2>1 DEF TypeOK, LotTxnRow
      <4> QED
        BY <4>1 DEF LotTxnRow
    <3>2. Returned(t, give) \in [Requests -> LotTxnRow]
      BY <3>1 DEF Returned
    <3> QED
      BY <1>t, <1>2, <3>2 DEF TypeOK
  <2>10. TypeOK'
    <3>1. txns' \in [Requests -> TxnRow]
      BY <1>t, <2>5, <2>6, <2>7 DEF TypeOK
    <3> QED
      BY <1>t, <1>u, <1>2, <2>2, <2>8, <2>9, <3>1 DEF TypeOK, Reply, Goto, PCs, Answers
  <2>11. ASSUME NEW s \in Requests PROVE (Checked(s) /\ Placed(s))'
    BY <1>u, <1>2 DEF IInv, TypeOK, Reply, Goto, Checked, Placed
  <2>12. ASSUME NEW s \in Requests PROVE Unposted(s)'
    <3>1. CASE s = r \/ pc[s] \in {"reply", "done"}
      BY <1>t, <1>u, <1>2, <3>1 DEF IInv, TypeOK, Reply, Goto, Unposted
    <3>2. CASE s # r /\ pc[s] \notin {"reply", "done"}
      <4>1. /\ lots[s] = NoLot /\ txns[s] = NoTxn
            /\ lotTxns[s] = [l \in Requests |-> NoLotTxn] /\ answer[s] = "none"
        BY <3>2 DEF IInv, Unposted
      <4>2. s # t
        BY <2>3, <4>1 DEF NoTxn
      <4>3. lotTxns'[s] = lotTxns[s] /\ txns'[s] = txns[s] /\ answer'[s] = answer[s]
        BY <1>t, <1>2, <2>7, <3>2, <4>2 DEF TypeOK, Reply, Goto
      <4>4. give[s] = 0 /\ lotTxns[t][s].unrefunded = 0
        <5>1. lotTxns[t][s].unrefunded = 0
          BY <1>t, <3>2 DEF IInv, Unposted
        <5>2. give[s] \in Nat /\ give[s] <= lotTxns[t][s].unrefunded
          BY <2>1
        <5> QED
          BY <5>1, <5>2
      <4>5. lots'[s] = NoLot
        <5>1. lots'[s] = [NoLot EXCEPT
                 !.remaining = @ + 0, !.life = IF @ = "expired" /\ 0 > 0 THEN "never" ELSE @]
          BY <1>2, <4>1, <4>4
        <5>2. 0 + 0 = 0 /\ "never" # "expired"
          OBVIOUS
        <5> QED
          BY <5>1, <5>2 DEF NoLot
      <4>6. ASSUME NEW k \in Requests PROVE lotTxns'[k][s].unrefunded = 0
        <5>1. lotTxns[k][s].unrefunded = 0
          BY <3>2 DEF IInv, Unposted
        <5>2. CASE k # t
          BY <1>t, <1>2, <5>1, <5>2 DEF TypeOK
        <5>3. CASE k = t
          <6>1. lotTxns'[t] = Returned(t, give) /\ lotTxns[t][s] \in LotTxnRow
            BY <1>t, <1>2 DEF TypeOK
          <6> QED
            BY <4>4, <5>3, <6>1 DEF Returned, LotTxnRow
        <5> QED
          BY <5>2, <5>3
      <4> QED
        BY <4>1, <4>3, <4>5, <4>6 DEF Unposted
    <3> QED
      BY <3>1, <3>2
  <2>13. ASSUME NEW s \in Requests PROVE DebitRead(s)'
    <3> DEFINE q == in[s].target
    <3>1. SUFFICES ASSUME in[s].op = "refund", pc'[s] \in {"readWallet", "write"}
                   PROVE  DebitRead(s)'
      BY <1>u DEF DebitRead
    <3>2. pc[s] = pc'[s] /\ s # r
      BY <1>t, <1>2, <3>1 DEF TypeOK, Reply, Goto
    <3>3. /\ tsnap[s].type = "DEBIT" /\ txns[q].type = "DEBIT"
          /\ tsnap[s].uuid = txns[q].uuid
          /\ tsnap[s].amount = txns[q].amount
          /\ in[s].amount <= tsnap[s].unrefunded
          /\ tsnap[s].ver <= txns[q].ver
          /\ tsnap[s].ver = txns[q].ver => tsnap[s] = txns[q]
      BY <3>1, <3>2 DEF IInv, DebitRead
    <3>4. q # r /\ q \in Requests
      BY <1>t, <2>4, <3>3 DEF TypeOK, Inputs, NoTxn
    <3>5. CASE q = t
      <4>1. txns'[q] = t1
        BY <1>t, <2>4, <2>7, <3>5 DEF TypeOK
      <4>2. tsnap[s].ver \in Nat
        BY <1>t DEF TypeOK, TxnRow
      <4> QED
        BY <1>u, <2>5, <3>3, <3>5, <4>1, <4>2 DEF DebitRead
    <3>6. CASE q # t
      <4>1. txns'[q] = txns[q]
        BY <1>t, <2>7, <3>4, <3>6 DEF TypeOK
      <4> QED
        BY <1>u, <3>3, <4>1 DEF DebitRead
    <3> QED
      BY <3>5, <3>6
  <2> QED
    BY <2>2, <2>10, <2>11, <2>12, <2>13 DEF IInv
<1> QED
  BY <1>1, <1>2, Zenon DEF Refund

(* The expiration of a lot leaves its request posted. *)
LEMMA ExpireIInv ==
  ASSUME IInv, NEW l \in Requests, Expire(l)
  PROVE  IInv'
<1>1. TypeOK'
  BY DEF IInv, TypeOK, Expire, LotRow
<1>2. ASSUME NEW s \in Requests
      PROVE  (SnapSound(s) /\ Checked(s) /\ DebitRead(s) /\ Unposted(s) /\ Placed(s))'
  BY DEF IInv, TypeOK, Expire, SnapSound, Checked, DebitRead, Unposted, Placed, NoLot
<1> QED
  BY <1>1, <1>2 DEF IInv

(* An update whose tracking UUID is not there yet goes on. *)
LEMMA PutIInv ==
  ASSUME IInv, NEW r \in Requests, Put(r)
  PROVE  IInv'
<1>1. CASE Reply(r, "existing")
  BY <1>1, LeaveIInv DEF Put, Answers
<1>2. CASE Goto(r, "update")
  <2>1. TypeOK'
    BY <1>2 DEF IInv, TypeOK, Put, Goto, PCs, db
  <2>2. ASSUME NEW s \in Requests
        PROVE  (SnapSound(s) /\ Checked(s) /\ DebitRead(s) /\ Unposted(s) /\ Placed(s))'
    BY <1>2 DEF IInv, TypeOK, Put, Goto, db, SnapSound, Checked, DebitRead, Unposted, Placed
  <2> QED
    BY <2>1, <2>2 DEF IInv
<1> QED
  BY <1>1, <1>2, Zenon DEF Put

(* An update saves the wallet its client read, if that is still the wallet. *)
LEMMA UpdateIInv ==
  ASSUME IInv, NEW r \in Requests, Update(r)
  PROVE  IInv'
<1>t. TypeOK /\ in[r] \in Inputs
  BY DEF IInv, TypeOK
<1>u. UNCHANGED <<in, snap, tsnap, valid>> /\ pc[r] = "update"
  BY DEF Update
<1>2. CASE Conflict(r)
  BY <1>u, <1>2, ConflictIInv
<1>3. ASSUME Fresh(r), UNCHANGED <<lots, txns, lotTxns>>, Goto(r, "reply"),
             wallet' = [snap[r] EXCEPT !.status = in[r].status, !.uuid = in[r].uuid, !.ver = @ + 1]
      PROVE  IInv'
  <2>1. snap[r] = wallet /\ wallet \in WalletRow
    BY <1>t, <1>3 DEF IInv, TypeOK, Fresh, SnapSound
  <2>2. wallet' \in WalletRow /\ wallet'.ver = wallet.ver + 1 /\ wallet.ver \in Nat
    <3>1. snap[r] \in WalletRow /\ snap[r].ver + 1 \in Nat
      BY <2>1 DEF WalletRow
    <3> QED
      BY <1>t, <1>3, <2>1, <3>1 DEF WalletRow, Inputs
  <2>3. TypeOK'
    BY <1>t, <1>u, <1>3, <2>2 DEF TypeOK, Reply, Goto, PCs, Answers
  <2>4. ASSUME NEW s \in Requests PROVE SnapSound(s)'
    <3>1. snap[s].ver <= wallet.ver /\ snap[s].ver \in Nat /\ snap' = snap
      BY <1>t, <1>u DEF IInv, TypeOK, SnapSound, WalletRow
    <3> QED
      BY <2>2, <3>1 DEF SnapSound
  <2>5. ASSUME NEW s \in Requests PROVE (Checked(s) /\ DebitRead(s) /\ Unposted(s) /\ Placed(s))'
    BY <1>u, <1>3 DEF IInv, TypeOK, Reply, Goto, Checked, DebitRead, Unposted, Placed
  <2> QED
    BY <2>3, <2>4, <2>5 DEF IInv
<1> QED
  BY <1>2, <1>3, Zenon DEF Update

(* A correction saves the valid amount as the balance. *)
LEMMA CorrectWriteIInv ==
  ASSUME IInv, NEW r \in Requests, CorrectWrite(r)
  PROVE  IInv'
<1>t. TypeOK /\ valid[r] \in Nat
  BY DEF IInv, TypeOK
<1>u. UNCHANGED <<in, snap, tsnap, valid>> /\ pc[r] = "correctWrite"
  BY DEF CorrectWrite
<1>1. CASE Conflict(r)
  BY <1>u, <1>1, ConflictIInv
<1>2. ASSUME Fresh(r), Save(r, valid[r]), Goto(r, "refuse"), UNCHANGED <<lots, txns, lotTxns>>
      PROVE  IInv'
  <2>1. wallet' \in WalletRow /\ \A s \in Requests : SnapSound(s)'
    BY <1>t, <1>u, <1>2, SaveSound
  <2>2. TypeOK'
    BY <1>t, <1>u, <1>2, <2>1 DEF TypeOK, Reply, Goto, PCs, Answers
  <2>3. ASSUME NEW s \in Requests PROVE (Checked(s) /\ DebitRead(s) /\ Unposted(s) /\ Placed(s))'
    BY <1>u, <1>2 DEF IInv, TypeOK, Reply, Goto, Checked, DebitRead, Unposted, Placed
  <2> QED
    BY <2>1, <2>2, <2>3 DEF IInv
<1> QED
  BY <1>1, <1>2, Zenon DEF CorrectWrite
-----------------------------------------------------------------------------
(* Every step preserves the invariant, one action at a time. *)
LEMMA NextIInv == IInv /\ [Next]_vars => IInv'
<1> SUFFICES ASSUME IInv, [Next]_vars PROVE IInv'
  OBVIOUS
<1>1. CASE UNCHANGED vars
  BY <1>1 DEF IInv, TypeOK, SnapSound, Checked, DebitRead, Unposted, Placed, vars
<1>2. ASSUME NEW r \in Requests, Answer(r) \/ Crash(r) PROVE IInv'
  BY <1>2, LeaveIInv DEF Answer, Crash, Answers
<1>3. ASSUME NEW r \in Requests, Arrive(r) \/ ReadDebit(r) \/ ReadWallet(r) PROVE IInv'
  BY <1>3, ArriveIInv, ReadDebitIInv, ReadWalletIInv
<1>4. ASSUME NEW r \in Requests, Credit(r) \/ Debit(r) \/ Refund(r) PROVE IInv'
  BY <1>4, CreditIInv, DebitIInv, RefundIInv
<1>5. ASSUME NEW r \in Requests, CorrectRead(r) \/ CorrectGet(r) \/ CorrectWrite(r) PROVE IInv'
  BY <1>5, CorrectReadIInv, CorrectGetIInv, CorrectWriteIInv
<1>6. ASSUME NEW r \in Requests, Put(r) \/ Update(r) PROVE IInv'
  BY <1>6, PutIInv, UpdateIInv
<1>7. ASSUME NEW l \in Requests, Expire(l) PROVE IInv'
  BY <1>7, ExpireIInv
<1> QED
  BY <1>1, <1>2, <1>3, <1>4, <1>5, <1>6, <1>7 DEF Next

(* IInv is an invariant of the service. *)
THEOREM WalletInvariant == Spec => []IInv
BY InitIInv, NextIInv, PTL DEF Spec

(* No balance, lot or refundable amount ever becomes negative, whatever was
   decided on rows read earlier.                                            *)
THEOREM WalletTypes == Spec => []TypeOK
<1>1. IInv => TypeOK
  BY DEF IInv
<1> QED
  BY <1>1, WalletInvariant, PTL
-----------------------------------------------------------------------------
(* What each step does to a posted transaction and to the balance. *)
PostingStep ==
  /\ \A r \in Requests : txns'[r].type # txns[r].type =>
       wallet'.balance = wallet.balance + Delta(r)
  /\ wallet.status = "LOCKED" =>
       UNCHANGED <<txns, lotTxns>> /\ \A l \in Requests : lots'[l].remaining = lots[l].remaining

(* A step that posts nothing and leaves the lots' money where it is. *)
LEMMA QuietStep ==
  ASSUME UNCHANGED <<lots, txns, lotTxns>>
  PROVE  PostingStep
BY DEF PostingStep

(* A request writes from the current wallet, which is not locked. *)
LEMMA WriteSound ==
  ASSUME IInv, NEW r \in Requests, pc[r] = "write", Fresh(r), NEW b \in Int, Save(r, b)
  PROVE  snap[r] = wallet /\ wallet.status # "LOCKED" /\ wallet'.balance = b
<1>1. snap[r] = wallet /\ wallet \in WalletRow /\ snap[r].status = "ACTIVE"
  BY DEF IInv, TypeOK, Fresh, SnapSound, Checked
<1> QED
  BY <1>1 DEF Save, WalletRow

LEMMA CreditPosts ==
  ASSUME IInv, NEW r \in Requests, Credit(r)
  PROVE  PostingStep
<1>1. CASE Conflict(r)
  BY <1>1, QuietStep DEF Conflict, db
<1>2. ASSUME Fresh(r), Save(r, snap[r].balance + in[r].amount),
             txns' = [txns EXCEPT ![r] = Post(r, "CREDIT", 0)]
      PROVE  PostingStep
  <2>1. in[r].amount \in Nat /\ snap[r].balance \in Nat /\ txns \in [Requests -> TxnRow]
    BY AmountsAssumption DEF IInv, TypeOK, WalletRow, Inputs
  <2>2. /\ wallet.status # "LOCKED"
        /\ wallet'.balance = wallet.balance + in[r].amount
    BY <1>2, <2>1, WriteSound DEF Credit
  <2>3. ASSUME NEW s \in Requests, txns'[s].type # txns[s].type
        PROVE  wallet'.balance = wallet.balance + Delta(s)
    BY <1>2, <2>1, <2>2, <2>3 DEF Delta, Post
  <2> QED
    BY <2>2, <2>3 DEF PostingStep
<1> QED
  BY <1>1, <1>2, Zenon DEF Credit

LEMMA DebitPosts ==
  ASSUME IInv, NEW r \in Requests, Debit(r)
  PROVE  PostingStep
<1>1. CASE Conflict(r) \/ UNCHANGED db
  BY <1>1, QuietStep DEF Conflict, db
<1>2. ASSUME Fresh(r), Save(r, snap[r].balance - in[r].amount),
             txns' = [txns EXCEPT ![r] = Post(r, "DEBIT", in[r].amount)]
      PROVE  PostingStep
  <2>1. in[r].amount \in Nat /\ snap[r].balance \in Nat /\ txns \in [Requests -> TxnRow]
    BY AmountsAssumption DEF IInv, TypeOK, WalletRow, Inputs
  <2>2. /\ wallet.status # "LOCKED" /\ wallet.balance \in Nat
        /\ wallet'.balance = wallet.balance - in[r].amount
    BY <1>2, <2>1, WriteSound DEF Debit
  <2>3. ASSUME NEW s \in Requests, txns'[s].type # txns[s].type
        PROVE  wallet'.balance = wallet.balance + Delta(s)
    <3>1. s = r /\ txns'[s].type = "DEBIT" /\ txns'[s].amount = in[r].amount
      BY <1>2, <2>1, <2>3 DEF Post
    <3> QED
      BY <2>1, <2>2, <3>1 DEF Delta
  <2> QED
    BY <2>2, <2>3 DEF PostingStep
<1> QED
  BY <1>1, <1>2, Zenon DEF Debit

LEMMA RefundPosts ==
  ASSUME IInv, NEW r \in Requests, Refund(r)
  PROVE  PostingStep
<1> DEFINE t == in[r].target
<1>1. CASE Conflict(r)
  BY <1>1, QuietStep DEF Conflict, db
<1>2. ASSUME Fresh(r), Save(r, snap[r].balance + in[r].amount),
             txns' = [txns EXCEPT
               ![t] = [tsnap[r] EXCEPT !.unrefunded = @ - in[r].amount, !.ver = @ + 1],
               ![r] = Post(r, "REFUND", 0)]
      PROVE  PostingStep
  <2>1. /\ in[r].amount \in Nat /\ snap[r].balance \in Nat /\ txns \in [Requests -> TxnRow]
        /\ t \in Requests /\ tsnap[r] \in TxnRow
    BY AmountsAssumption DEF IInv, TypeOK, WalletRow, Inputs
  <2>2. /\ wallet.status # "LOCKED"
        /\ wallet'.balance = wallet.balance + in[r].amount
    <3>0. pc[r] = "write"
      BY Zenon DEF Refund
    <3>1. pc[r] = "write" /\ snap[r].balance + in[r].amount \in Int
      BY <2>1, <3>0
    <3>2. snap[r] = wallet /\ wallet.status # "LOCKED"
          /\ wallet'.balance = snap[r].balance + in[r].amount
      BY <1>2, <3>1, WriteSound
    <3> QED
      BY <3>2
  <2>3. tsnap[r].type = "DEBIT" /\ txns[t].type = "DEBIT"
    BY DEF IInv, DebitRead, Refund
  <2>4. ASSUME NEW s \in Requests, txns'[s].type # txns[s].type
        PROVE  wallet'.balance = wallet.balance + Delta(s)
    <3>1. CASE s = r
      <4>1. txns'[s] = Post(r, "REFUND", 0)
        BY <1>2, <2>1, <3>1
      <4> QED
        BY <2>2, <4>1 DEF Delta, Post
    <3>2. CASE s # r /\ s = t
      <4>1. txns'[s] = [tsnap[r] EXCEPT !.unrefunded = @ - in[r].amount, !.ver = @ + 1]
        BY <1>2, <2>1, <3>2
      <4>2. txns'[s].type = "DEBIT"
        BY <2>1, <2>3, <4>1 DEF TxnRow
      <4> QED
        BY <2>3, <2>4, <3>2, <4>2
    <3>3. CASE s # r /\ s # t
      BY <1>2, <2>1, <2>4, <3>3
    <3> QED
      BY <3>1, <3>2, <3>3
  <2> QED
    BY <2>2, <2>4 DEF PostingStep
<1> QED
  BY <1>1, <1>2, Zenon DEF Refund

LEMMA NextPosts == IInv /\ [Next]_vars => PostingStep
<1> SUFFICES ASSUME IInv, [Next]_vars PROVE PostingStep
  OBVIOUS
<1>1. CASE UNCHANGED vars
  BY <1>1, QuietStep DEF vars
<1>2. ASSUME NEW r \in Requests,
             \/ Arrive(r) \/ ReadDebit(r) \/ ReadWallet(r)
             \/ CorrectRead(r) \/ CorrectGet(r)
             \/ Answer(r) \/ Crash(r)
      PROVE  PostingStep
  BY <1>2, QuietStep DEF Arrive, ReadDebit, ReadWallet, CorrectRead, CorrectGet, Answer, Crash, db
<1>3. ASSUME NEW r \in Requests, CorrectWrite(r) \/ Put(r) \/ Update(r) PROVE PostingStep
  BY <1>3, QuietStep DEF CorrectWrite, Put, Update, Conflict, db
<1>4. ASSUME NEW l \in Requests, Expire(l) PROVE PostingStep
  BY <1>4 DEF IInv, TypeOK, LotRow, Expire, PostingStep
<1> QED
  BY <1>1, <1>2, <1>3, <1>4, CreditPosts, DebitPosts, RefundPosts DEF Next

(* A posted transaction moves the balance by exactly its amount, although the
   new balance is computed from a wallet read before the transaction began.  *)
THEOREM WalletNoLostUpdate == Spec => NoLostUpdate
<1>1. IInv /\ [Next]_vars =>
        [\A r \in Requests : txns'[r].type # txns[r].type =>
           wallet'.balance = wallet.balance + Delta(r)]_vars
  BY NextPosts DEF PostingStep
<1> QED
  BY <1>1, WalletInvariant, PTL DEF Spec, NoLostUpdate

(* Nothing is posted on a wallet while it is locked, although its status is
   checked before the transaction that posts begins.                        *)
THEOREM WalletLockedFrozen == Spec => LockedFrozen
<1>1. IInv /\ [Next]_vars =>
        [wallet.status = "LOCKED" =>
           UNCHANGED <<txns, lotTxns>> /\ \A l \in Requests : lots'[l].remaining = lots[l].remaining]_vars
  BY NextPosts DEF PostingStep
<1> QED
  BY <1>1, WalletInvariant, PTL DEF Spec, LockedFrozen
=============================================================================
