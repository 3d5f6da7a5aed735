------------------------------- MODULE Wallet -------------------------------
(***************************************************************************)
(* The eWallet service: one wallet row, its lots and the transactions      *)
(* posted on it, under concurrent requests.                                *)
(*                                                                         *)
(* A request is served in several database steps.  Under READ COMMITTED    *)
(* (SimpleDataSourceProxy never asks for more) every read sees the latest  *)
(* committed rows.  Each writing transaction updates the wallet row first, *)
(* so it either fails its version check or holds the row lock until it     *)
(* ends: from that update to its commit nothing it reads can change, and   *)
(* the model takes it as one step.  What happened since the wallet was     *)
(* read is what the interleavings below are about.                         *)
(*                                                                         *)
(* Rows need no generated ids: a request posts at most one transaction and *)
(* a credit creates one lot, so both are indexed by the request.  A        *)
(* transaction of type NONE, and a lot whose total is 0, do not exist.     *)
(***************************************************************************)
EXTENDS Integers, FiniteSets, Totals

CONSTANTS
  Requests,  \* the HTTP requests that reach the service
  Amounts,   \* the amounts a request may name
  Uuids,     \* the tracking UUIDs clients generate
  NoUuid,    \* the request carries no tracking UUID
  Menu       \* for each request, the inputs its client may send

Ops == {"credit", "debit", "refund", "update"}
Statuses == {"ACTIVE", "LOCKED"}

(* The fields of CreditRequest, DebitRequest, RefundRequest and Wallet the
   handlers look at: target is the debit a refund names, dated whether a
   credit carries an expiration date, status what an update asks for.      *)
Inputs == [op: Ops, amount: Amounts, uuid: Uuids \cup {NoUuid},
           target: Requests, dated: BOOLEAN, status: Statuses]

ASSUME RequestsAssumption == IsFiniteSet(Requests)
ASSUME AmountsAssumption == Amounts \subseteq Nat \ {0}
ASSUME MenuAssumption == Menu \in [Requests -> SUBSET Inputs]
ASSUME UuidAssumption == NoUuid \notin Uuids

VARIABLES
  wallet,   \* the row of table ewallet
  lots,     \* table ewallet_lot, by the request that credited it
  txns,     \* table transaction, by the request that posted it
  lotTxns,  \* table lot_transaction: the DEBIT row of a debit on a lot
  pc,       \* where each request is
  in,       \* its input
  snap,     \* the wallet row it read
  tsnap,    \* the debit transaction a refund read
  valid,    \* the valid amount correctBalance read
  answer    \* what its client was told

db == <<wallet, lots, txns, lotTxns>>
vars == <<wallet, lots, txns, lotTxns, pc, in, snap, tsnap, valid, answer>>

WalletRow == [balance: Nat, status: Statuses, uuid: Uuids \cup {NoUuid}, ver: Nat]
LotRow == [total: Nat, remaining: Nat, life: {"dated", "expired", "never"}]
TxnRow == [type: {"NONE", "CREDIT", "DEBIT", "REFUND"}, amount: Nat,
           unrefunded: Nat, uuid: Uuids \cup {NoUuid}, ver: Nat]
LotTxnRow == [amount: Nat, unrefunded: Nat]

NewWallet == [balance |-> 0, status |-> "ACTIVE", uuid |-> NoUuid, ver |-> 0]
NoLot == [total |-> 0, remaining |-> 0, life |-> "never"]
NoTxn == [type |-> "NONE", amount |-> 0, unrefunded |-> 0, uuid |-> NoUuid, ver |-> 0]
NoLotTxn == [amount |-> 0, unrefunded |-> 0]

PCs == {"idle", "readDebit", "readWallet", "write", "put", "update",
        "correctRead", "correctGet", "correctWrite", "reply", "refuse", "done"}
Answers == {"none", "posted", "existing", "refused", "insufficient", "conflict", "lost"}

-----------------------------------------------------------------------------
(* A wallet as POST /wallets leaves it: active, empty, at version 0. *)
Init ==
  /\ wallet = NewWallet
  /\ lots = [r \in Requests |-> NoLot]
  /\ txns = [r \in Requests |-> NoTxn]
  /\ lotTxns = [r \in Requests |-> [l \in Requests |-> NoLotTxn]]
  /\ pc = [r \in Requests |-> "idle"]
  /\ in \in [Requests -> UNION {Menu[r] : r \in Requests}]
  /\ \A r \in Requests : in[r] \in Menu[r]
  /\ snap = [r \in Requests |-> NewWallet]
  /\ tsnap = [r \in Requests |-> NoTxn]
  /\ valid = [r \in Requests |-> 0]
  /\ answer = [r \in Requests |-> "none"]

(* The request leaves the server with answer a. *)
Reply(r, a) ==
  /\ pc' = [pc EXCEPT ![r] = "done"]
  /\ answer' = [answer EXCEPT ![r] = a]

Goto(r, label) == pc' = [pc EXCEPT ![r] = label] /\ UNCHANGED answer

(* Mutants, which the runs must notice: a check that is not made, a lot used
   beyond what it holds, a refund that leaves no trace on the debit's lots, one
   that stops after the first of them.                                      *)
Unchecked(x) == TRUE
SharesUncapped(cap, amount) == {f \in [Requests -> 0 .. amount] : Total(f) = amount}
ReturnedUnrecorded(t, give) == lotTxns[t]

RefundSharesOneLot(t, amount) ==
  {[l \in Requests |-> IF l # k THEN 0 ELSE IF amount <= lotTxns[t][k].unrefunded
                       THEN amount ELSE lotTxns[t][k].unrefunded] : k \in Requests}

(* TransactionDao.getByTrackingUuid, and the unique index behind it. *)
Posted(u) == u # NoUuid /\ \E t \in Requests : txns[t].type # "NONE" /\ txns[t].uuid = u
UuidFree(u) == ~ Posted(u)

(* BaseDaoImpl.update: merge and flush of a row read earlier succeed only at
   the version that was read, else StaleObjectStateException.              *)
Fresh(r) == snap[r].ver = wallet.ver
FreshDebit(r) == tsnap[r].ver = txns[in[r].target].ver

(* What getValidLot and getValidAmount see of a lot, and their sum. *)
Spendable == [l \in Requests |-> IF lots[l].life = "expired" THEN 0 ELSE lots[l].remaining]
ValidAmount == Total(Spendable)

(* The ways to spread amount over the lots, none beyond what cap allows. *)
Shares(cap, amount) ==
  {f \in [Requests -> 0 .. amount] :
     (\A l \in Requests : f[l] <= cap[l]) /\ Total(f) = amount}

(* A loop over lots uses up each before it touches the next. *)
FullFirst(f, cap) ==
  \A k, l \in Requests :
    k # l /\ f[l] > 0 /\ f[k] < cap[k] => f[l] = cap[l] \/ f[k] = 0

(* debit(lots, sum, txn) sorts the valid lots by what remains, ascending. *)
DebitShares(amount) ==
  {f \in Shares(Spendable, amount) :
     /\ FullFirst(f, Spendable)
     /\ \A k, l \in Requests : f[l] > 0 /\ f[k] < Spendable[k] => Spendable[l] <= Spendable[k]}

(* refund(lotTransactions, amount, txn) follows its query, which leaves lots
   of one type unordered, and stops early if they run out.                 *)
Refundable(t) == [l \in Requests |-> lotTxns[t][l].unrefunded]
RefundShares(t, amount) ==
  LET all == Total(Refundable(t))
  IN  {f \in Shares(Refundable(t), IF amount <= all THEN amount ELSE all) :
         FullFirst(f, Refundable(t))}
Returned(t, give) == [l \in Requests |-> [lotTxns[t][l] EXCEPT !.unrefunded = @ - give[l]]]
-----------------------------------------------------------------------------
(* WalletResourceImpl.credit, debit, refund: the transaction already posted
   under the tracking UUID is the answer; else the service is called.  For
   an update the client first reads the wallet it will send back.          *)
Arrive(r) ==
  /\ pc[r] = "idle"
  /\ IF in[r].op = "update"
     THEN Goto(r, "put") /\ snap' = [snap EXCEPT ![r] = wallet]
     ELSE /\ IF Posted(in[r].uuid)
             THEN Reply(r, "existing")
             ELSE Goto(r, IF in[r].op = "refund" THEN "readDebit" ELSE "readWallet")
          /\ UNCHANGED snap
  /\ UNCHANGED <<db, in, tsnap, valid>>

(* WalletServiceImpl.refund up to the wallet: a debit with enough left to refund. *)
ReadDebit(r) ==
  LET t == txns[in[r].target]
  IN  /\ pc[r] = "readDebit"
      /\ IF t.type = "DEBIT" /\ t.unrefunded >= in[r].amount
         THEN Goto(r, "readWallet") /\ tsnap' = [tsnap EXCEPT ![r] = t]
         ELSE Reply(r, "refused") /\ UNCHANGED tsnap
      /\ UNCHANGED <<db, in, snap, valid>>

(* credit, debit, refund: the wallet is read and validated. *)
ReadWallet(r) ==
  /\ pc[r] = "readWallet"
  /\ IF wallet.status = "LOCKED"
     THEN Reply(r, "refused") /\ UNCHANGED snap
     ELSE IF in[r].op = "debit" /\ wallet.balance < in[r].amount
     THEN Reply(r, "insufficient") /\ UNCHANGED snap
     ELSE Goto(r, "write") /\ snap' = [snap EXCEPT ![r] = wallet]
  /\ UNCHANGED <<db, in, tsnap, valid>>

(* The wallet row with balance b, saved from the copy request r read. *)
Save(r, b) == wallet' = [snap[r] EXCEPT !.balance = b, !.ver = @ + 1]

Post(r, type, unrefunded) ==
  [type |-> type, amount |-> in[r].amount, unrefunded |-> unrefunded,
   uuid |-> in[r].uuid, ver |-> 0]

(* The write fails: stale wallet, stale debit or duplicate tracking UUID. *)
Conflict(r) == Reply(r, "conflict") /\ UNCHANGED db

(* WalletRepositoryFacade.credit *)
Credit(r) ==
  /\ pc[r] = "write" /\ in[r].op = "credit"
  /\ IF Fresh(r) /\ UuidFree(in[r].uuid)
     THEN /\ Save(r, snap[r].balance + in[r].amount)
          /\ txns' = [txns EXCEPT ![r] = Post(r, "CREDIT", 0)]
          /\ lots' = [lots EXCEPT ![r] =
                        [total |-> in[r].amount, remaining |-> in[r].amount,
                         life |-> IF in[r].dated THEN "dated" ELSE "never"]]
          /\ UNCHANGED lotTxns
          /\ Goto(r, "reply")
     ELSE Conflict(r)
  /\ UNCHANGED <<in, snap, tsnap, valid>>

(* WalletRepositoryFacade.debit in its own transaction: balance, transaction
   and lots, or nothing at all when the valid lots do not cover the amount. *)
Debit(r) ==
  /\ pc[r] = "write" /\ in[r].op = "debit"
  /\ IF ~ Fresh(r) \/ ~ UuidFree(in[r].uuid)
     THEN Conflict(r)
     ELSE IF ValidAmount < in[r].amount
     THEN Goto(r, "correctRead") /\ UNCHANGED db
     ELSE \E take \in DebitShares(in[r].amount) :
            /\ Save(r, snap[r].balance - in[r].amount)
            /\ txns' = [txns EXCEPT ![r] = Post(r, "DEBIT", in[r].amount)]
            /\ lots' = [l \in Requests |-> [lots[l] EXCEPT !.remaining = @ - take[l]]]
            /\ lotTxns' = [lotTxns EXCEPT ![r] =
                             [l \in Requests |-> [amount |-> take[l], unrefunded |-> take[l]]]]
            /\ Goto(r, "reply")
  /\ UNCHANGED <<in, snap, tsnap, valid>>

(* WalletRepositoryFacade.refund: balance, debit, refund and lots; a lot that
   has expired in the meantime is enabled again for good.                  *)
Refund(r) ==
  LET t == in[r].target
  IN  /\ pc[r] = "write" /\ in[r].op = "refund"
      /\ IF Fresh(r) /\ FreshDebit(r) /\ UuidFree(in[r].uuid)
         THEN \E give \in RefundShares(t, in[r].amount) :
                /\ Save(r, snap[r].balance + in[r].amount)
                /\ txns' = [txns EXCEPT
                     ![t] = [tsnap[r] EXCEPT !.unrefunded = @ - in[r].amount, !.ver = @ + 1],
                     ![r] = Post(r, "REFUND", 0)]
                /\ lots' = [l \in Requests |->
                     [lots[l] EXCEPT
                        !.remaining = @ + give[l],
                        !.life = IF @ = "expired" /\ give[l] > 0 THEN "never" ELSE @]]
                /\ lotTxns' = [lotTxns EXCEPT ![t] = Returned(t, give)]
                /\ Goto(r, "reply")
         ELSE Conflict(r)
      /\ UNCHANGED <<in, snap, tsnap, valid>>

(* correctBalance, in a transaction of its own after a debit ran out of lots:
   the sum of the valid lots, then the wallet, then the write.             *)
CorrectRead(r) ==
  /\ pc[r] = "correctRead"
  /\ valid' = [valid EXCEPT ![r] = ValidAmount]
  /\ Goto(r, "correctGet")
  /\ UNCHANGED <<db, in, snap, tsnap>>

CorrectGet(r) ==
  /\ pc[r] = "correctGet"
  /\ snap' = [snap EXCEPT ![r] = wallet]
  /\ Goto(r, "correctWrite")
  /\ UNCHANGED <<db, in, tsnap, valid>>

CorrectWrite(r) ==
  /\ pc[r] = "correctWrite"
  /\ IF Fresh(r)
     THEN /\ Save(r, valid[r])
          /\ Goto(r, "refuse")
          /\ UNCHANGED <<lots, txns, lotTxns>>
     ELSE Conflict(r)
  /\ UNCHANGED <<in, snap, tsnap, valid>>

(* WalletResourceImpl.updateWallet: PUT /wallets/{id} with the copy the client
   read is done already if a wallet has its tracking UUID.                  *)
Put(r) ==
  /\ pc[r] = "put"
  /\ IF in[r].uuid # NoUuid /\ wallet.uuid = in[r].uuid
     THEN Reply(r, "existing")
     ELSE Goto(r, "update")
  /\ UNCHANGED <<db, in, snap, tsnap, valid>>

(* WalletServiceImpl.update: the client's copy is saved, status and tracking
   UUID replaced, if its balance and its version are those of the row.      *)
Update(r) ==
  /\ pc[r] = "update"
  /\ IF snap[r].balance = wallet.balance /\ Fresh(r)
     THEN /\ wallet' = [snap[r] EXCEPT !.status = in[r].status, !.uuid = in[r].uuid, !.ver = @ + 1]
          /\ Goto(r, "reply")
          /\ UNCHANGED <<lots, txns, lotTxns>>
     ELSE Conflict(r)
  /\ UNCHANGED <<in, snap, tsnap, valid>>

(* What follows the commit of the writing transaction: the outer transaction
   of a debit ends, after a correction with insufficientFund, and the client
   is answered.                                                            *)
Answer(r) ==
  /\ \/ pc[r] = "reply" /\ Reply(r, "posted")
     \/ pc[r] = "refuse" /\ Reply(r, "insufficient")
  /\ UNCHANGED <<db, in, snap, tsnap, valid>>

(* The request dies with its server or its connection, or its outer
   transaction fails: what it had not committed is rolled back, what it had
   committed stays, and its client does not know which.                    *)
Crash(r) ==
  /\ pc[r] \notin {"idle", "done"}
  /\ Reply(r, "lost")
  /\ UNCHANGED <<db, in, snap, tsnap, valid>>

(* The expiration date of a dated lot passes. *)
Expire(l) ==
  /\ lots[l].total > 0 /\ lots[l].life = "dated"
  /\ lots' = [lots EXCEPT ![l].life = "expired"]
  /\ UNCHANGED <<wallet, txns, lotTxns, pc, in, snap, tsnap, valid, answer>>

Next ==
  \/ \E r \in Requests :
       \/ Arrive(r) \/ ReadDebit(r) \/ ReadWallet(r)
       \/ Credit(r) \/ Debit(r) \/ Refund(r)
       \/ CorrectRead(r) \/ CorrectGet(r) \/ CorrectWrite(r)
       \/ Put(r) \/ Update(r) \/ Answer(r) \/ Crash(r)
  \/ \E l \in Requests : Expire(l)

Spec == Init /\ [][Next]_vars
-----------------------------------------------------------------------------
(* Every row has its type; in particular no balance, lot or refundable amount
   is ever negative, although each is computed from a row read earlier.     *)
TypeOK ==
  /\ wallet \in WalletRow
  /\ lots \in [Requests -> LotRow]
  /\ txns \in [Requests -> TxnRow]
  /\ lotTxns \in [Requests -> [Requests -> LotTxnRow]]
  /\ pc \in [Requests -> PCs]
  /\ in \in [Requests -> Inputs]
  /\ snap \in [Requests -> WalletRow]
  /\ tsnap \in [Requests -> TxnRow]
  /\ valid \in [Requests -> Nat]
  /\ answer \in [Requests -> Answers]

(* What each debit holds of lot l, and each refund returned of debit t. *)
Held(l) == [t \in Requests |-> lotTxns[t][l].unrefunded]
Refunded(t) ==
  [r \in Requests |->
     IF txns[r].type = "REFUND" /\ in[r].target = t THEN txns[r].amount ELSE 0]

(* What debits hold of a lot and have not given back, and what is left in it,
   is what was credited: no interleaving of debits, refunds and expiry loses
   money or makes it.                                                       *)
LotsConserved ==
  \A l \in Requests : lots[l].remaining + Total(Held(l)) = lots[l].total

(* A debit is backed: its lot transactions account for what it may still
   refund, and what it may not is what its refunds returned, even when two
   refunds of one debit race.                                               *)
DebitsBacked ==
  \A t \in Requests : txns[t].type = "DEBIT" =>
    /\ Total(Refundable(t)) = txns[t].unrefunded
    /\ txns[t].unrefunded + Total(Refunded(t)) = txns[t].amount

(* Retries under one tracking UUID post once however they interleave, deaths
   after the commit included.  A client told that its request is posted, or
   was before, may rely on it; one told that it is not may send it again under
   another UUID.  One that is told nothing knows nothing.                   *)
PostedOnce ==
  \A r \in Requests :
    /\ txns[r].type # "NONE" /\ txns[r].uuid # NoUuid =>
         \A s \in Requests \ {r} : txns[s].type # "NONE" => txns[s].uuid # txns[r].uuid
    /\ answer[r] = "existing" /\ in[r].op # "update" =>
         \E s \in Requests : txns[s].type # "NONE" /\ txns[s].uuid = in[r].uuid
    /\ answer[r] = "posted" /\ in[r].op # "update" => txns[r].type # "NONE"
    /\ answer[r] \in {"refused", "insufficient", "conflict"} => txns[r].type = "NONE"

(* What is left in the lots, and what the transactions of one type come to. *)
Remaining == [l \in Requests |-> lots[l].remaining]
PostedAs(type) == [r \in Requests |-> IF txns[r].type = type THEN txns[r].amount ELSE 0]

(* The books balance: what the lots hold and what has been debited is what has
   been credited and refunded, over all requests that raced, died or were sent
   again.                                                                   *)
BooksBalance ==
  Total(Remaining) + Total(PostedAs("DEBIT")) =
    Total(PostedAs("CREDIT")) + Total(PostedAs("REFUND"))

(* If no credit carries an expiration date the stored balance is what the lots
   hold, at every moment: a debit that the balance covers never runs out of
   lots, and nothing is ever corrected.                                     *)
BalanceIsMoney ==
  (\A r \in Requests : in[r].op = "credit" => ~ in[r].dated) =>
    /\ wallet.balance = Total(Remaining)
    /\ \A r \in Requests : pc[r] # "correctRead"

Delta(r) ==
  IF txns'[r].type = "DEBIT" THEN - txns'[r].amount ELSE txns'[r].amount

(* A posted transaction moves the balance by exactly its amount: none is lost
   to a write computed from a stale row.                                    *)
NoLostUpdate ==
  [][\A r \in Requests : txns'[r].type # txns[r].type =>
       wallet'.balance = wallet.balance + Delta(r)]_vars

(* Once a lock is committed nothing is posted until it is released, although
   the status is checked before the writing transaction starts.             *)
LockedFrozen ==
  [][wallet.status = "LOCKED" =>
       UNCHANGED <<txns, lotTxns>> /\ \A l \in Requests : lots'[l].remaining = lots[l].remaining]_vars

(* "Correct the wallet balance", "because some of the walletLots have expired"
   (WalletServiceImpl): a correction writes off lots that expired, and never
   money that lots still hold and may spend.                                *)
CorrectionKeepsValidMoney ==
  [][\A r \in Requests : pc[r] = "correctWrite" /\ pc'[r] = "refuse" =>
       wallet'.balance >= ValidAmount]_vars

Ledger == INSTANCE WalletLedger WITH
  money <- Total(Remaining),
  owed <- [r \in Requests |-> txns[r].unrefunded],
  used <- {u \in Uuids : Posted(u)},
  posted <- {r \in Requests : txns[r].type # "NONE"},
  frozen <- wallet.status = "LOCKED"

(* The detailed service implements the atomic account: its money is what the
   lots hold, expired or not, and not the stored balance.                   *)
ImplementsLedger == Ledger!Spec
=============================================================================
