------------------------------- MODULE Payment -------------------------------
(***************************************************************************)
(* One payment of the payment service, the requests about it, the adapter  *)
(* it goes through and the provider behind it.  Every write to the         *)
(* database is a transaction of its own, around a call to the provider     *)
(* that may fail, be lost, or be carried out after the service has given   *)
(* up on it.                                                               *)
(*                                                                         *)
(* Sources: payment-core PaymentTransactionServiceImpl and its base,       *)
(* PaymentCallbackServiceImpl, the provider adapters, the two reconcile    *)
(* jobs.  Payments do not touch each other: the look-up by tracking UUID,  *)
(* the only link, compares an enum with a string and never finds anything  *)
(* (AbstractPaymentTransactionServiceImpl:119).  Amounts are left out.     *)
(***************************************************************************)
EXTENDS Naturals

CONSTANTS Requests,  \* requests about the payment, the first of which makes it
          Menu,      \* the adapter, and which operation each request is
          None

Adapters == {"adyen", "adyenCC", "braintree", "paypal", "facebook", "ewallet"}
Makes    == {"authorize", "charge", "credit"}
Changes  == {"capture", "confirm", "reverse", "refund"}
Moves    == Makes \cup Changes
Ops      == Moves \cup {"poll", "callback"}

ASSUME MenuAssumption == Menu \subseteq [adapter : Adapters, op : [Requests -> Ops]]

\* PaymentStatus, but for CHARGE_BACK and DISCREPANT, which nothing writes.
Statuses ==
  {"AUTH_CREATED", "AUTHORIZED", "AUTH_DECLINED", "SETTLEMENT_SUBMIT_CREATED",
   "SETTLEMENT_SUBMITTED", "SETTLEMENT_SUBMIT_DECLINED", "REVERSE_CREATED",
   "REVERSED", "REVERSE_DECLINED", "SETTLE_CREATED", "SETTLED", "SETTLE_DECLINED",
   "SETTLING", "REFUND_CREATED", "REFUNDED", "REFUND_DECLINED", "UNCONFIRMED",
   "CREDIT_CREATED", "CREDIT_DECLINED", "UNRECOGNIZED", "RISK_PENDING",
   "RISK_ASYNC_REJECT"}

VARIABLES
  adapter,  \* payment.paymentProvider
  op,       \* the operation of each request
  pc,       \* where it is
  read,     \* the status it read
  named,    \* the requests that read a payment with an external token
  ans,      \* the status the adapter answered with
  status,   \* payment.status; None: there is no payment yet
  token,    \* "external": payment.externalToken; "params": the callback's
  log,      \* payment_event: the event, and the request that wrote it, if any
  tracked,  \* payment_tracking_uuid: the request and the answer kept for it
  asked,    \* the call of each request, as the provider knows it
  held,     \* the provider's own status of the payment
  notes     \* notifications and settlement reports under way

vars == <<adapter, op, pc, read, named, ans, status, token, log, tracked, asked, held, notes>>
fixed        == <<adapter, op>>
rowVars      == <<status, token, log, tracked>>
providerVars == <<asked, held, notes>>

Places == {"new", "announce", "send", "wait", "answered", "failed", "overrule",
           "look", "report", "stale", "notify", "done"}
Calls  == {"no", "sent", "taken", "done", "failed"}
Provided == {"AUTHORIZED", "RISK_PENDING", "SETTLEMENT_SUBMITTED", "SETTLING", "SETTLED",
             "REVERSED", "FAILED", "EXPIRED"}
Noticed == {"SETTLEMENT_SUBMITTED", "SETTLED", "REVERSED", "REFUNDED", "SETTLE_DECLINED",
            "REFUND_DECLINED", "RISK_ASYNC_REJECT"}

ASSUME NoneAssumption == None \notin Statuses \cup Provided \cup Requests

TypeOK ==
  /\ adapter \in Adapters
  /\ op \in [Requests -> Ops]
  /\ pc \in [Requests -> Places]
  /\ read \in [Requests -> Statuses \cup {None}]
  /\ named \subseteq Requests
  /\ ans \in [Requests -> Statuses \cup {None}]
  /\ status \in Statuses \cup {None}
  /\ token \subseteq {"external", "params"}
  /\ log \subseteq [by : Requests \cup {None}, status : Statuses]
  /\ tracked \subseteq [by : Requests, status : Statuses]
  /\ asked \in [Requests -> Calls]
  /\ held \in Provided \cup {None}
  /\ notes \subseteq Noticed
  /\ \A r \in Requests :
       /\ pc[r] \in {"announce", "look", "report", "stale"} => read[r] # None
       /\ pc[r] \in {"answered", "report"} => ans[r] # None

Init ==
  /\ \E m \in Menu : adapter = m.adapter /\ op = m.op
  /\ pc = [r \in Requests |-> "new"]
  /\ read = [r \in Requests |-> None] /\ named = {}
  /\ ans = [r \in Requests |-> None]
  /\ status = None /\ token = {}
  /\ log = {} /\ tracked = {}
  /\ asked = [r \in Requests |-> "no"]
  /\ held = None
  /\ notes = {}

Goto(r, p) == pc' = [pc EXCEPT ![r] = p]
Answer(r, s) == ans' = [ans EXCEPT ![r] = s]

\* The request is over, or a poll is: what it has read and heard is forgotten.
Leave(r, p) ==
  /\ Goto(r, p)
  /\ read' = [read EXCEPT ![r] = None]
  /\ named' = named \ {r}
  /\ ans' = [ans EXCEPT ![r] = None]

------------------------------------------------------------------------------
\* The statuses an operation goes through.

Created(o) ==
  CASE o = "authorize" -> "AUTH_CREATED"
    [] o \in {"charge", "capture"} -> "SETTLEMENT_SUBMIT_CREATED"
    [] o = "confirm" -> "SETTLE_CREATED"
    [] o = "reverse" -> "REVERSE_CREATED"
    [] o = "refund" -> "REFUND_CREATED"
    [] OTHER -> "CREDIT_CREATED"

Accepted(o) ==
  CASE o = "authorize" -> "AUTHORIZED"
    [] o \in {"charge", "capture"} -> "SETTLEMENT_SUBMITTED"
    [] o = "reverse" -> "REVERSED"
    [] o = "refund" -> "REFUNDED"
    [] OTHER -> "SETTLED"

\* A mutant, which the runs must notice: a refusal is recorded as a success.
DeclinedAsAccepted(o) == Accepted(o)

Declined(o) ==
  CASE o = "authorize" -> "AUTH_DECLINED"
    [] o \in {"charge", "capture"} -> "SETTLEMENT_SUBMIT_DECLINED"
    [] o = "confirm" -> "SETTLE_DECLINED"
    [] o = "reverse" -> "REVERSE_DECLINED"
    [] o = "refund" -> "REFUND_DECLINED"
    [] OTHER -> "CREDIT_DECLINED"

\* OPEN_STATUS
Open == {"AUTH_CREATED", "AUTHORIZED", "UNCONFIRMED", "SETTLEMENT_SUBMIT_CREATED",
         "SETTLEMENT_SUBMITTED", "SETTLE_CREATED", "SETTLED", "SETTLING",
         "REVERSE_CREATED", "REFUND_CREATED", "CREDIT_CREATED", "RISK_PENDING"}

\* A mutant, which the runs must notice: a capture does not look at the status.
AllowedAlways(o, s) == o = "confirm" => s # "SETTLED"

\* validateCapturable and its like; nothing in the code writes CHARGE_BACK,
\* the one status that refuses a refund.
Allowed(o, s) ==
  /\ o = "capture" => s = "AUTHORIZED"
  /\ o = "confirm" => s # "SETTLED"

\* A mutant, which the runs must notice: the status is written, the event is not.
WriteSilently(r, s) ==
  /\ status' = s
  /\ log' = log

\* updatePaymentAndSaveEvent, saveAndCommitPayment: the status, whatever it
\* has become since it was read, and the event, in one transaction.
Write(r, s) ==
  /\ status' = s
  /\ log' = log \cup {[by |-> r, status |-> s]}

------------------------------------------------------------------------------
\* The adapters.

\* What an adapter has more than an exception for.
Serves(a) ==
  CASE a = "adyen" -> {"charge", "confirm", "reverse", "refund"}
    [] a = "adyenCC" -> {"authorize", "capture", "charge", "confirm", "reverse", "refund"}
    [] a \in {"braintree", "facebook"} -> {"authorize", "capture", "charge", "reverse", "refund"}
    [] a = "paypal" -> {"charge", "confirm", "refund"}
    [] OTHER -> {"charge", "credit", "refund"}

\* The operations Adyen answers as received ("[refund-received]"), and carries
\* out, or does not, later on; a charge of adyenCC ends with such a capture.
Queued(a, o) ==
  \/ a \in {"adyen", "adyenCC"} /\ o \in {"capture", "reverse", "refund"}
  \/ a = "adyenCC" /\ o = "charge"

\* The operations for which the user is sent to the provider's page.
Redirects(a, o) == a \in {"adyen", "paypal"} /\ o = "charge"

Taken     == {r \in Requests : asked[r] \in {"taken", "done", "failed"}}
Performed == {r \in Requests : asked[r] = "done"}
Took(ops) == \E r \in Taken : op[r] \in ops
Did(ops)  == \E r \in Performed : op[r] \in ops

\* The call names the payment by the token that was read; PayPal's confirmation
\* by the parameters of the callback.  Adyen has nothing to confirm.
Reaches(r) ==
  /\ op[r] \in {"capture", "reverse", "refund"} => r \in named
  /\ op[r] = "confirm" => adapter = "paypal" /\ "params" \in token

\* A refusal or a lost answer is recovered from, unless the adapter made the
\* call before it made a promise of it, as the authorisation of adyenCC.
Recovers(r) ==
  /\ adapter = "adyenCC" /\ op[r] \in {"authorize", "charge"} => r \in Taken /\ op[r] = "charge"
  /\ op[r] = "confirm" => adapter = "paypal"

\* What an adapter answers once the provider has taken the operation.
Results(r) ==
  CASE adapter = "facebook" /\ held = "RISK_PENDING" /\ op[r] \in Makes -> {"RISK_PENDING"}
    [] adapter \in {"adyen", "ewallet"} /\ op[r] = "charge" -> {"SETTLED"}
    [] adapter = "adyenCC" /\ op[r] = "charge" -> {"SETTLEMENT_SUBMITTED", "AUTHORIZED"}
    [] OTHER -> {Accepted(op[r])}

\* mapBraintreePaymentStatus, mapPayPalPaymentStatus; None: it is not known there.
Told(a, h) ==
  CASE a = "paypal" /\ h = None -> "UNCONFIRMED"
    [] a = "paypal" /\ h = "FAILED" -> "SETTLE_DECLINED"
    [] a # "paypal" /\ h = "FAILED" -> "AUTH_DECLINED"
    [] h = "EXPIRED" -> "UNRECOGNIZED"
    [] OTHER -> h

\* getByTransactionToken: the other adapters have no query, and PayPal's is by
\* the token of the callback, which an external token hides.
Askable ==
  /\ \/ adapter = "braintree" /\ "external" \in token
     \/ adapter = "paypal" /\ token = {"params"}
  /\ Told(adapter, held) # None

------------------------------------------------------------------------------
\* Requests that move the payment.

Create(r) ==
  /\ pc[r] = "new" /\ op[r] \in Makes
  /\ status = None
  /\ Write(r, Created(op[r]))
  /\ Goto(r, "send")
  /\ UNCHANGED <<fixed, read, named, ans, token, tracked, providerVars>>

\* A mutant, which the runs must notice: a payment that is not there is read.
Found == TRUE

\* getPaymentById refuses an id it does not find.
Exists == status # None

\* getPaymentById and the checks on what it returned.
Read(r) ==
  /\ pc[r] = "new" /\ op[r] \in Changes
  /\ Exists
  /\ Allowed(op[r], status)
  /\ read' = [read EXCEPT ![r] = status]
  /\ named' = IF "external" \in token THEN named \cup {r} ELSE named
  /\ Goto(r, "announce")
  /\ UNCHANGED <<fixed, ans, rowVars, providerVars>>

Refuse(r) ==
  /\ pc[r] = "new" /\ op[r] \in Changes
  /\ Exists
  /\ ~Allowed(op[r], status)
  /\ Leave(r, "done")
  /\ UNCHANGED <<fixed, rowVars, providerVars>>

Announce(r) ==
  /\ pc[r] = "announce"
  /\ Write(r, Created(op[r]))
  /\ Goto(r, "send")
  /\ UNCHANGED <<fixed, read, named, ans, token, tracked, providerVars>>

\* An adapter that does not serve the operation throws, and nothing recovers
\* from that (Crash); so does ewallet for a refund that names no transaction.
Send(r) ==
  /\ pc[r] = "send" /\ op[r] \in Serves(adapter)
  /\ adapter = "ewallet" => Reaches(r)
  /\ asked' = [asked EXCEPT ![r] = IF Reaches(r) THEN "sent" ELSE @]
  /\ Goto(r, "wait")
  /\ UNCHANGED <<fixed, read, named, ans, rowVars, held, notes>>

Receive(r) ==
  /\ pc[r] = "wait" /\ r \in Taken
  /\ \E s \in Results(r) : Answer(r, s)
  /\ Goto(r, "answered")
  /\ UNCHANGED <<fixed, read, named, rowVars, providerVars>>

\* A charge that the user has yet to approve at the provider.
Redirect(r) ==
  /\ pc[r] = "wait" /\ Redirects(adapter, op[r]) /\ asked[r] = "sent"
  /\ Answer(r, "UNCONFIRMED")
  /\ Goto(r, "answered")
  /\ UNCHANGED <<fixed, read, named, rowVars, providerVars>>

\* A capture that adyenCC was not told is received: the request comes back as
\* it went, and with it the status announced.
Unacknowledged(r) ==
  /\ pc[r] = "wait" /\ adapter = "adyenCC" /\ op[r] = "capture" /\ asked[r] # "no"
  /\ Answer(r, Created(op[r]))
  /\ Goto(r, "answered")
  /\ UNCHANGED <<fixed, read, named, rowVars, providerVars>>

\* An adapter that has nothing to confirm answers null.
NoAnswer(r) ==
  /\ pc[r] = "wait" /\ op[r] = "confirm" /\ adapter # "paypal"
  /\ Leave(r, "done")
  /\ UNCHANGED <<fixed, rowVars, providerVars>>

\* A refusal, or no answer in time: the provider may still act, or have acted.
Fail(r) ==
  /\ pc[r] = "wait" /\ Recovers(r)
  /\ Goto(r, "failed")
  /\ UNCHANGED <<fixed, read, named, ans, rowVars, providerVars>>

Succeed(r) ==
  /\ pc[r] = "answered"
  /\ Write(r, ans[r])
  /\ tracked' = tracked \cup {[by |-> r, status |-> ans[r]]}
  /\ token' = IF op[r] \in {"authorize", "charge", "confirm"} /\ ans[r] # "UNCONFIRMED"
              THEN token \cup {"external"} ELSE token
  /\ Leave(r, "done")
  /\ UNCHANGED <<fixed, providerVars>>

\* handleProviderException.  In a reversal its failed promise is dropped and
\* the request goes on as after an answer.
Decline(r) ==
  /\ pc[r] = "failed"
  /\ Write(r, Declined(op[r]))
  /\ Leave(r, IF op[r] = "reverse" THEN "overrule" ELSE "done")
  /\ UNCHANGED <<fixed, token, tracked, providerVars>>

Overrule(r) ==
  /\ pc[r] = "overrule"
  /\ Write(r, "REVERSED")
  /\ tracked' = tracked \cup {[by |-> r, status |-> "REVERSED"]}
  /\ Leave(r, "done")
  /\ UNCHANGED <<fixed, token, providerVars>>

\* A mutant, which the runs must notice: the status of the failed transaction
\* is kept, its event is not.
RestoreDeclined(r) ==
  /\ pc[r] = "failed" /\ op[r] = "reverse"
  /\ status' = Declined(op[r])
  /\ Leave(r, "done")
  /\ UNCHANGED <<fixed, token, log, tracked, providerVars>>

\* The transaction of handleProviderException fails: "do not affect the
\* current status".
Restore(r) ==
  /\ pc[r] = "failed" /\ op[r] = "reverse"
  /\ status' = read[r]
  /\ Leave(r, "done")
  /\ UNCHANGED <<fixed, token, log, tracked, providerVars>>

\* The server dies, a transaction fails, or an adapter throws before it makes a
\* promise: the request is over, what it has committed stays.
Crash(r) ==
  /\ pc[r] \notin {"new", "done"} /\ op[r] # "poll"
  /\ Leave(r, "done")
  /\ UNCHANGED <<fixed, rowVars, providerVars>>

------------------------------------------------------------------------------
\* Those that hear of it: a client that polls, the user's return from the
\* provider's page, the provider's notifications, the reconcile jobs.

\* getUpdatedTransaction
Look(r) ==
  /\ pc[r] = "new" /\ op[r] = "poll"
  /\ Exists /\ status \in Open
  /\ read' = [read EXCEPT ![r] = status]
  /\ Goto(r, "look")
  /\ UNCHANGED <<fixed, named, ans, rowVars, providerVars>>

\* getProviderTransaction
Learn(r) ==
  /\ pc[r] = "look"
  /\ Askable
  /\ Answer(r, Told(adapter, held))
  /\ Goto(r, "report")
  /\ UNCHANGED <<fixed, read, named, rowVars, providerVars>>

LearnNothing(r) ==
  /\ pc[r] = "look"
  /\ Leave(r, "new")
  /\ UNCHANGED <<fixed, rowVars, providerVars>>

\* A mutant, which the runs must notice: the comparison is the wrong way round.
ReportSame(r) ==
  /\ pc[r] = "report"
  /\ IF ans[r] = read[r] THEN Write(r, ans[r]) ELSE UNCHANGED <<status, log>>
  /\ Leave(r, "new")
  /\ UNCHANGED <<fixed, token, tracked, providerVars>>

\* reportPaymentEvent, when the answer differs from the status read before.  No
\* adapter's query answers with an external token, the other reason for it.
Report(r) ==
  /\ pc[r] = "report"
  /\ IF ans[r] # read[r] THEN Write(r, ans[r]) ELSE UNCHANGED <<status, log>>
  /\ Leave(r, "new")
  /\ UNCHANGED <<fixed, token, tracked, providerVars>>

\* addPaymentProperties: an event with the status read, which reportPaymentEvent
\* writes back, ...
Return(r) ==
  /\ pc[r] = "new" /\ op[r] = "callback"
  /\ \E q \in Requests : Redirects(adapter, op[q]) /\ asked[q] # "no"
  /\ Exists
  /\ read' = [read EXCEPT ![r] = status]
  /\ Goto(r, "stale")
  /\ UNCHANGED <<fixed, named, ans, rowVars, providerVars>>

WriteBack(r) ==
  /\ pc[r] = "stale"
  /\ Write(r, read[r])
  /\ Goto(r, "notify")
  /\ UNCHANGED <<fixed, read, named, ans, token, tracked, providerVars>>

\* ... then confirmNotify, which writes Adyen's word without an event and leaves
\* PayPal's status alone, and last the parameters of the callback.
ConfirmNotify(r) ==
  /\ pc[r] = "notify"
  /\ \/ adapter = "adyen" /\ Did({"charge"}) /\ status' = "SETTLEMENT_SUBMITTED"
     \/ adapter = "adyen" /\ status' = "UNCONFIRMED"
     \/ adapter = "paypal" /\ UNCHANGED status
  /\ token' = token \cup {IF adapter = "adyen" THEN "external" ELSE "params"}
  /\ Leave(r, "done")
  /\ UNCHANGED <<fixed, log, tracked, providerVars>>

\* processNotification and the reconcile jobs: late, twice or never, and the
\* status is what they say.  Adyen's notifications bring a token, too.
Deliver(n) ==
  /\ Exists /\ n \in notes
  /\ Write(None, n)
  /\ token' = IF adapter \in {"adyen", "adyenCC"} /\ n # "SETTLED"
              THEN token \cup {"external"} ELSE token
  /\ UNCHANGED <<fixed, pc, read, named, ans, tracked, providerVars>>

------------------------------------------------------------------------------
\* The provider, which may act after the service has given up.

\* The payment as it may become by an operation; the empty set: it refuses.
Becomes(r) ==
  CASE op[r] \in {"authorize", "charge"} /\ adapter = "facebook" /\ held = None ->
         {Accepted(op[r]), "RISK_PENDING"}
    [] op[r] = "charge" /\ adapter = "adyenCC" /\ held = "AUTHORIZED" -> {"SETTLEMENT_SUBMITTED"}
    [] op[r] = "authorize" /\ held = None -> {"AUTHORIZED"}
    [] op[r] = "charge" /\ adapter \in {"adyen", "braintree"} /\ held = None ->
         {"SETTLEMENT_SUBMITTED"}
    [] op[r] \in {"charge", "credit"} /\ adapter = "ewallet" /\ held = None -> {"SETTLED"}
    [] op[r] = "confirm" /\ held = None -> {"SETTLING"}
    [] op[r] = "capture" /\ held = "AUTHORIZED" -> {"SETTLEMENT_SUBMITTED"}
    [] op[r] = "reverse" /\ held \in {"AUTHORIZED", "SETTLEMENT_SUBMITTED"} -> {"REVERSED"}
    [] op[r] = "refund" /\ held \in {"SETTLEMENT_SUBMITTED", "SETTLING", "SETTLED"} -> {held}
    [] OTHER -> {}

\* AdyenProviderServiceImpl.process: what Adyen notifies of what it has done, or
\* of what it could not do after all.  A refund may be reported, and then fail.
Noted(o) ==
  CASE o \in {"authorize", "charge"} -> {"SETTLEMENT_SUBMITTED"}
    [] o = "reverse" -> {"REVERSED"}
    [] o = "refund" -> {"REFUNDED"}
    [] OTHER -> {}

NotedFailed(o) ==
  CASE o \in {"charge", "capture"} -> {"SETTLE_DECLINED"}
    [] o = "refund" -> {"REFUNDED", "REFUND_DECLINED"}
    [] OTHER -> {}

\* Adyen has received the operation; a charge it has authorized, and says so.
Take(r) ==
  /\ asked[r] = "sent" /\ Queued(adapter, op[r])
  /\ asked' = [asked EXCEPT ![r] = "taken"]
  /\ IF op[r] = "charge"
     THEN held = None /\ held' = "AUTHORIZED" /\ notes' = notes \cup Noted("charge")
     ELSE UNCHANGED <<held, notes>>
  /\ UNCHANGED <<fixed, pc, read, named, ans, rowVars>>

Perform(r) ==
  /\ asked[r] = IF Queued(adapter, op[r]) THEN "taken" ELSE "sent"
  /\ held' \in Becomes(r)
  /\ asked' = [asked EXCEPT ![r] = "done"]
  /\ notes' = IF adapter \in {"adyen", "adyenCC"} THEN notes \cup Noted(op[r]) ELSE notes
  /\ UNCHANGED <<fixed, pc, read, named, ans, rowVars>>

\* What it has received it cannot do.
Reject(r) ==
  /\ asked[r] = "taken"
  /\ asked' = [asked EXCEPT ![r] = "failed"]
  /\ notes' = notes \cup NotedFailed(op[r])
  /\ UNCHANGED <<fixed, pc, read, named, ans, rowVars, held>>

\* The money moves, or in the end it does not, which Adyen notifies; what has
\* moved is in the settlement reports of Adyen and PayPal.
Settle ==
  /\ \/ /\ held = "SETTLEMENT_SUBMITTED" /\ held' = "SETTLING"
        /\ UNCHANGED notes
     \/ /\ held = "SETTLING" /\ held' = "SETTLED"
        /\ notes' = IF adapter \in {"adyen", "adyenCC", "paypal"}
                    THEN notes \cup {"SETTLED"} ELSE notes
     \/ /\ held = "SETTLING" /\ held' = "FAILED"
        /\ notes' = IF adapter \in {"adyen", "adyenCC"}
                    THEN notes \cup {"SETTLE_DECLINED"} ELSE notes
  /\ UNCHANGED <<fixed, pc, read, named, ans, rowVars, asked>>

\* An authorisation that was not captured in time, at Braintree.
Expire ==
  /\ adapter = "braintree" /\ held = "AUTHORIZED"
  /\ held' = "EXPIRED"
  /\ UNCHANGED <<fixed, pc, read, named, ans, rowVars, asked, notes>>

\* Facebook lets go of a payment it has held back, and has answered so, or blocks
\* it.  The adapter makes SETTLEMENT_SUBMITTED of the former, an authorisation
\* included.
Review ==
  /\ held = "RISK_PENDING"
  /\ \A r \in Performed : pc[r] # "wait"
  /\ \/ /\ held' = IF Did({"charge"}) THEN "SETTLEMENT_SUBMITTED" ELSE "AUTHORIZED"
        /\ notes' = notes \cup {"SETTLEMENT_SUBMITTED"}
     \/ /\ held' = "FAILED"
        /\ notes' = notes \cup {"RISK_ASYNC_REJECT"}
  /\ UNCHANGED <<fixed, pc, read, named, ans, rowVars, asked>>

------------------------------------------------------------------------------
Request(r) ==
  \/ Create(r) \/ Read(r) \/ Refuse(r) \/ Announce(r) \/ Send(r)
  \/ Receive(r) \/ Redirect(r) \/ Unacknowledged(r) \/ NoAnswer(r) \/ Fail(r)
  \/ Succeed(r) \/ Decline(r) \/ Overrule(r) \/ Restore(r) \/ Crash(r)

Watch(r) == Look(r) \/ Learn(r) \/ LearnNothing(r) \/ Report(r)
              \/ Return(r) \/ WriteBack(r) \/ ConfirmNotify(r)

Provider(r) == Take(r) \/ Perform(r) \/ Reject(r)

Next ==
  \/ \E r \in Requests : Request(r) \/ Watch(r) \/ Provider(r)
  \/ \E n \in notes : Deliver(n)
  \/ Settle \/ Expire \/ Review

Spec == Init /\ [][Next]_vars

\* The client polls while the payment is open, its server runs, and a provider
\* that has a query, asked again and again, answers at last.
Fairness ==
  \A r \in Requests : /\ WF_vars(Look(r)) /\ WF_vars(LearnNothing(r))
                      /\ SF_vars(Learn(r)) /\ WF_vars(Report(r))

FairSpec == Spec /\ Fairness

------------------------------------------------------------------------------
\* Properties.

\* What an authorisation may be taken from: one that was given, also on the way
\* of a charge of adyenCC.
Authorised == Did({"authorize"}) \/ (adapter = "adyenCC" /\ Took({"charge"}))

\* The status never claims more than the provider has accepted or done, whoever
\* wrote it last: an answer, a poll or a notification that comes late, a callback
\* that writes back what it read.  It does not say that the operation is, or will
\* be, performed: REFUNDED, REVERSED and SETTLEMENT_SUBMITTED stand for what Adyen
\* has received; the notified AUTHORISATION of adyenCC, and a release by Facebook,
\* are written as SETTLEMENT_SUBMITTED; a charge at Adyen and a confirmation at
\* PayPal as SETTLED, before the money has moved.  Of REVERSED nothing is true
\* where a reversal was declined, which is recorded first and then overruled.
StatusBacked ==
  /\ status = "AUTHORIZED" => Authorised
  /\ status = "RISK_PENDING" => Did({"authorize", "charge"})
  /\ status = "SETTLEMENT_SUBMITTED" =>
       Took({"charge", "capture"}) \/ (adapter \in {"adyenCC", "facebook"} /\ Authorised)
  /\ status = "SETTLING" => held \in {"SETTLING", "SETTLED", "FAILED"}
  /\ status = "SETTLED" =>
       held = "SETTLED" \/ Did({"confirm"}) \/ (adapter = "adyen" /\ Did({"charge"}))
  /\ status = "REFUNDED" => Took({"refund"})
  /\ status = "REVERSED" =>
       \/ Took({"reverse"})
       \/ \E r \in Requests : op[r] = "reverse" /\ [by |-> r, status |-> "REVERSE_DECLINED"] \in log
  /\ status = "RISK_ASYNC_REJECT" => held = "FAILED"
  /\ status = "UNRECOGNIZED" => held = "EXPIRED"

\* The words an operation has for being under way and for being refused, and the
\* provider's word for a failure that only shows later.
Own(o) == {Created(o), Declined(o)}
OwnWords == UNION {Own(o) : o \in Moves}
Failed(s) ==
  \/ held = "FAILED" /\ s \in {"AUTH_DECLINED", "SETTLE_DECLINED"}
  \/ \E r \in Requests : asked[r] = "failed" /\ s \in NotedFailed(op[r])

\* Whatever the row says has been written with an event that says it, a status
\* restored or written back from an old copy included; what Adyen's callback
\* writes is the exception.  And it says that an operation is under way, or was
\* refused, only if a request of that very operation has recorded it, or the
\* provider has failed the payment or what it had accepted.
AuditTrail ==
  /\ \/ status = None \/ \E e \in log : e.status = status
     \/ adapter = "adyen" /\ status \in {"SETTLEMENT_SUBMITTED", "UNCONFIRMED"}
  /\ status \in OwnWords =>
       \/ Failed(status)
       \/ \E r \in Requests : /\ [by |-> r, status |-> status] \in log
                              /\ op[r] \in Moves /\ status \in Own(op[r])

\* The provider is asked to capture only what it has authorized, although the
\* status is checked on a copy that may be out of date and has been
\* overwritten by then.
CaptureBacked ==
  \A r \in Requests : op[r] = "capture" /\ asked[r] # "no" => Authorised

\* Whatever crashes or is lost, the provider accepts only what a committed event
\* announces, carries out only what it has accepted, and a request is kept under
\* its tracking UUID as a success only if the provider has accepted it; what it
\* has accepted may still fail.  No success are the answers that claim nothing,
\* and those to reversals, which a declined one gets, too.
Intended == {r \in Requests : [by |-> r, status |-> Created(op[r])] \in log}
Recorded ==
  {r \in Requests : op[r] # "reverse" /\ \E s \in Statuses \ {"UNCONFIRMED", Created(op[r])} :
                      [by |-> r, status |-> s] \in tracked}
Ledger == INSTANCE PaymentLedger
            WITH intended <- Intended, accepted <- Taken, performed <- Performed,
                 recorded <- Recorded
IsLedger == Ledger!Spec

\* A poll heals what a crash or a late write has left behind, at the adapters that
\* have a query: while the payment is open and can be asked about, the status
\* agrees with the provider's again and again, its refusals included.
Heals ==
  (\E r \in Requests : op[r] = "poll")
    => []<>(Askable /\ status \in Open => status = Told(adapter, held))
==============================================================================
