------------------------------ MODULE MCPayment ------------------------------
(* Requests about a payment: one that makes it, the others race about it.  A  *)
(* callback where no user is sent away never comes, and a capture of what was *)
(* not authorized is refused: they fill the rows of three requests.           *)
EXTENDS Payment

CONSTANTS r1, r2, r3, r4

At(a, w, x, y, z) ==
  [adapter |-> a,
   op |-> [r \in Requests |-> CASE r = r1 -> w [] r = r2 -> x [] r = r3 -> y [] OTHER -> z]]

Races ==
  {At("adyen", "charge", "reverse", "callback", "capture"),
   At("adyen", "charge", "confirm", "poll", "capture"),
   At("adyenCC", "authorize", "capture", "capture", "callback"),
   At("adyenCC", "authorize", "capture", "reverse", "callback"),
   At("adyenCC", "charge", "reverse", "poll", "callback"),
   At("adyenCC", "charge", "refund", "callback", "callback"),
   At("braintree", "authorize", "capture", "poll", "callback"),
   At("braintree", "authorize", "reverse", "poll", "callback"),
   At("braintree", "charge", "refund", "poll", "capture"),
   At("paypal", "charge", "confirm", "callback", "poll"),
   At("paypal", "charge", "confirm", "callback", "refund"),
   At("facebook", "authorize", "capture", "reverse", "poll"),
   At("facebook", "charge", "refund", "poll", "callback"),
   At("ewallet", "credit", "refund", "poll", "capture"),
   At("ewallet", "charge", "refund", "refund", "poll")}
==============================================================================
