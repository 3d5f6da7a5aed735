------------------------------ MODULE MCWallet ------------------------------
(* Instances of Wallet for TLC. *)
EXTENDS Wallet

CONSTANTS c1, c2, d1, d2, f1, f2, l1, l2, u1, u2

In(op, amount, uuid, target, dated, status) ==
  [op |-> op, amount |-> amount, uuid |-> uuid, target |-> target,
   dated |-> dated, status |-> status]
CreditOf(amount, uuid, dated) == In("credit", amount, uuid, c1, dated, "ACTIVE")
DebitOf(amount, uuid) == In("debit", amount, uuid, c1, FALSE, "ACTIVE")
RefundOf(amount, uuid, t) == In("refund", amount, uuid, t, FALSE, "ACTIVE")
UpdateTo(status, uuid) == In("update", 1, uuid, c1, FALSE, status)

(* A credit, a debit, a retry of either under its UUID or a second debit, and
   an operator who locks the wallet, retries that, or releases it.          *)
RetryMenu == [r \in {c1, d1, d2, l1, l2} |->
  CASE r = c1 -> {CreditOf(2, u1, FALSE)}
    [] r = d1 -> {DebitOf(1, u2)}
    [] r = d2 -> {CreditOf(2, u1, FALSE), DebitOf(2, u2), DebitOf(1, NoUuid)}
    [] r = l1 -> {UpdateTo("LOCKED", u1)}
    [] r = l2 -> {UpdateTo("LOCKED", u1), UpdateTo("ACTIVE", NoUuid)}]

(* Two credits, one dated; a debit, two refunds of it that race. *)
RefundMenu == [r \in {c1, c2, d1, f1, f2} |->
  CASE r = c1 -> {CreditOf(2, NoUuid, TRUE)}
    [] r = c2 -> {CreditOf(1, NoUuid, FALSE)}
    [] r = d1 -> {DebitOf(3, NoUuid), DebitOf(2, NoUuid)}
    [] r = f1 -> {RefundOf(2, NoUuid, d1)}
    [] r = f2 -> {RefundOf(1, u1, d1)}]
=============================================================================
