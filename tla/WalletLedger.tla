---------------------------- MODULE WalletLedger ----------------------------
(***************************************************************************)
(* What the eWallet promises: an account on which credits, debits and      *)
(* refunds are atomic, never spends what it does not hold, never gives     *)
(* back more than a debit took, and posts a tracking UUID once.  Wallet    *)
(* implements it, whatever its stored balance says.                        *)
(***************************************************************************)
EXTENDS Integers

CONSTANTS Requests, Amounts, Uuids, NoUuid

VARIABLES
  money,  \* what the account holds
  owed,   \* for each debit, what may still be refunded
  used,   \* the tracking UUIDs that have posted
  posted, \* the requests that have posted
  frozen  \* nothing may be posted

vars == <<money, owed, used, posted, frozen>>

Init ==
  /\ money = 0
  /\ owed = [r \in Requests |-> 0]
  /\ used = {}
  /\ posted = {}
  /\ frozen = FALSE

(* Request r posts under UUID u, at most once, and never on a frozen account. *)
Posts(r, u) ==
  /\ ~ frozen
  /\ r \notin posted /\ posted' = posted \cup {r}
  /\ u \notin used /\ used' = used \cup ({u} \ {NoUuid})
  /\ UNCHANGED frozen

Credit(r, u, a) == Posts(r, u) /\ money' = money + a /\ UNCHANGED owed

Debit(r, u, a) ==
  /\ Posts(r, u)
  /\ a <= money
  /\ money' = money - a
  /\ owed' = [owed EXCEPT ![r] = a]

Refund(r, u, a, t) ==
  /\ Posts(r, u)
  /\ a <= owed[t]
  /\ money' = money + a
  /\ owed' = [owed EXCEPT ![t] = @ - a]

Freeze(b) == frozen' = b /\ UNCHANGED <<money, owed, used, posted>>

Next ==
  \/ \E r \in Requests, u \in Uuids \cup {NoUuid}, a \in Amounts :
       \/ Credit(r, u, a)
       \/ Debit(r, u, a)
       \/ \E t \in Requests : Refund(r, u, a, t)
  \/ \E b \in BOOLEAN : Freeze(b)

Spec == Init /\ [][Next]_vars
=============================================================================
