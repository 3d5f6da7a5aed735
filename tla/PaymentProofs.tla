---------------------------- MODULE PaymentProofs ----------------------------
(***************************************************************************)
(* What holds of a payment for any number of requests, of any operations,  *)
(* through any adapter.                                                    *)
(*                                                                         *)
(* The argument: what has been announced, what the provider has accepted   *)
(* or done and what it has failed for good only grow (Grows), so a status  *)
(* the provider once backed stays backed, wherever it is kept meanwhile:   *)
(* in the row, in a request that has read it or heard it, in a             *)
(* notification, at the provider.                                          *)
(***************************************************************************)
EXTENDS Payment, TLAPS

Event(r, s) == [by |-> r, status |-> s]

(* StatusBacked, of any status. *)
Backed(s) ==
  /\ s = "AUTHORIZED" => Authorised
  /\ s = "RISK_PENDING" => Did({"authorize", "charge"})
  /\ s = "SETTLEMENT_SUBMITTED" =>
       Took({"charge", "capture"}) \/ (adapter \in {"adyenCC", "facebook"} /\ Authorised)
  /\ s = "SETTLING" => held \in {"SETTLING", "SETTLED", "FAILED"}
  /\ s = "SETTLED" =>
       held = "SETTLED" \/ Did({"confirm"}) \/ (adapter = "adyen" /\ Did({"charge"}))
  /\ s = "REFUNDED" => Took({"refund"})
  /\ s = "REVERSED" =>
       \/ Took({"reverse"})
       \/ \E r \in Requests : op[r] = "reverse" /\ Event(r, "REVERSE_DECLINED") \in log
  /\ s = "RISK_ASYNC_REJECT" => held = "FAILED"
  /\ s = "UNRECOGNIZED" => held = "EXPIRED"

Remembered == Backed(status) /\ \A r \in Requests : Backed(read[r]) /\ Backed(ans[r])

Memories == Remembered /\ \A n \in notes : Backed(n)

(* What the provider's own status tells of what it has been asked. *)
Holds ==
  /\ held = "AUTHORIZED" => Authorised
  /\ held = "RISK_PENDING" => adapter = "facebook" /\ Did({"authorize", "charge"})
  /\ held = "SETTLEMENT_SUBMITTED" => Took({"charge", "capture"})
  /\ held = "REVERSED" => Did({"reverse"})
  /\ adapter = "ewallet" /\ Did({"charge", "credit"}) => held = "SETTLED"

Announced == \A r \in Requests :
  /\ asked[r] # "no" \/ pc[r] = "send" => Event(r, Created(op[r])) \in log
  /\ pc[r] \in {"announce", "send"} => op[r] \in Moves
  /\ asked[r] # "no" => op[r] \in Serves(adapter)
  /\ asked[r] \in {"taken", "failed"} => Queued(adapter, op[r])

Unasked == \A r \in Requests :
  pc[r] \in {"new", "announce", "send", "look", "report"} => asked[r] = "no"

Answered == \A r \in Requests :
  pc[r] = "answered" => /\ asked[r] # "no"
                        /\ ans[r] \in {"UNCONFIRMED", Created(op[r])} \/ r \in Taken

Overruled == \A r \in Requests :
  pc[r] = "overrule" => op[r] = "reverse" /\ Event(r, "REVERSE_DECLINED") \in log

Capturing == \A r \in Requests :
  op[r] = "capture" /\ (asked[r] # "no" \/ pc[r] \in {"announce", "send"})
    => Authorised

IInv == /\ TypeOK /\ Memories /\ Holds /\ Announced /\ Unasked /\ Answered /\ Overruled
        /\ Capturing

------------------------------------------------------------------------------
(* The statuses an operation announces, fails with and succeeds with are
   different ones. *)
LEMMA Operations ==
  ASSUME NEW o \in Ops
  PROVE  /\ Created(o) \in Statuses /\ Declined(o) \in Statuses /\ Accepted(o) \in Statuses
         /\ Created(o) # "UNCONFIRMED" /\ Created(o) # Declined(o)
         /\ o = "reverse" => Created(o) # "REVERSED" /\ Declined(o) = "REVERSE_DECLINED"
  BY DEF Ops, Moves, Makes, Changes, Created, Declined, Accepted, Statuses

(* An adapter serves operations that move a payment, and of those queues some. *)
LEMMA Serving ==
  ASSUME NEW a \in Adapters, NEW o \in Serves(a)
  PROVE  /\ o \in Moves
         /\ a = "adyen" => o \in {"charge", "confirm", "reverse", "refund"}
         /\ o = "authorize" => a \in {"adyenCC", "braintree", "facebook"}
         /\ o = "credit" => a = "ewallet"
         /\ a = "ewallet" => o \in {"charge", "credit", "refund"}
  BY DEF Adapters, Serves, Moves, Makes, Changes

(* What a request announces or fails with claims nothing. *)
LEMMA ClaimsNothing ==
  ASSUME NEW o \in Ops
  PROVE  Backed(Created(o)) /\ Backed(Declined(o)) /\ Backed("UNCONFIRMED") /\ Backed(None)
  BY NoneAssumption
     DEF Ops, Moves, Makes, Changes, Created, Declined, Backed, Statuses

(* What an adapter answers of an operation the provider has taken is a status,
   and backed. *)
LEMMA ResultsBacked ==
  ASSUME TypeOK, Holds, Announced, NEW r \in Taken, NEW s \in Results(r)
  PROVE  s \in Statuses /\ Backed(s)
<1>1. /\ r \in Requests /\ asked[r] \in {"taken", "done", "failed"}
      /\ adapter \in Adapters /\ op[r] \in Ops /\ op[r] \in Serves(adapter)
  BY DEF TypeOK, Announced, Taken
<1>2. /\ op[r] \in Moves
      /\ adapter = "adyen" => op[r] \in {"charge", "confirm", "reverse", "refund"}
      /\ op[r] = "authorize" => adapter \in {"adyenCC", "braintree", "facebook"}
      /\ op[r] = "credit" => adapter = "ewallet"
      /\ adapter = "ewallet" => op[r] \in {"charge", "credit", "refund"}
  BY <1>1, Serving
<1>3. ~Queued(adapter, op[r]) => asked[r] = "done"
  BY <1>1 DEF Announced
<1>4. \A ops : op[r] \in ops => Took(ops)
  BY DEF Took
<1>5. \A ops : op[r] \in ops /\ ~Queued(adapter, op[r]) => Did(ops)
  BY <1>1, <1>3 DEF Did, Performed
<1>6. CASE adapter = "facebook" /\ held = "RISK_PENDING" /\ op[r] \in Makes
  <2>1. s = "RISK_PENDING"
    BY <1>6 DEF Results
  <2> QED
    BY <1>6, <2>1 DEF Holds, Backed, Statuses
<1>7. CASE adapter \in {"adyen", "ewallet"} /\ op[r] = "charge"
  <2>1. s = "SETTLED" /\ ~Queued(adapter, op[r])
    BY <1>7 DEF Results, Queued
  <2>2. Did({"charge"}) /\ Did({"charge", "credit"})
    BY <1>5, <1>7, <2>1
  <2> QED
    BY <1>7, <2>1, <2>2 DEF Holds, Backed, Statuses
<1>8. CASE adapter = "adyenCC" /\ op[r] = "charge"
  <2>1. s \in {"SETTLEMENT_SUBMITTED", "AUTHORIZED"}
    BY <1>8 DEF Results
  <2>2. Took({"charge"}) /\ Took({"charge", "capture"}) /\ Authorised
    BY <1>4, <1>8 DEF Authorised
  <2> QED
    BY <2>1, <2>2 DEF Backed, Statuses
<1>9. CASE /\ ~(adapter = "facebook" /\ held = "RISK_PENDING" /\ op[r] \in Makes)
           /\ ~(adapter \in {"adyen", "ewallet", "adyenCC"} /\ op[r] = "charge")
  <2>1. s = Accepted(op[r])
    BY <1>9 DEF Results
  <2>2. CASE op[r] = "authorize"
    <3>1. s = "AUTHORIZED" /\ ~Queued(adapter, op[r])
      BY <2>1, <2>2 DEF Accepted, Queued
    <3>2. Authorised
      BY <1>5, <2>2, <3>1 DEF Authorised
    <3> QED
      BY <3>1, <3>2 DEF Backed, Statuses
  <2>3. CASE op[r] \in {"charge", "capture"}
    <3>1. s = "SETTLEMENT_SUBMITTED" /\ Took({"charge", "capture"})
      BY <1>4, <2>1, <2>3 DEF Accepted
    <3> QED
      BY <3>1 DEF Backed, Statuses
  <2>4. CASE op[r] \in {"reverse", "refund"}
    <3>1. \/ s = "REVERSED" /\ Took({"reverse"})
          \/ s = "REFUNDED" /\ Took({"refund"})
      BY <1>4, <2>1, <2>4 DEF Accepted
    <3> QED
      BY <3>1 DEF Backed, Statuses
  <2>5. CASE op[r] \in {"confirm", "credit"}
    <3>1. s = "SETTLED" /\ ~Queued(adapter, op[r])
      BY <2>1, <2>5 DEF Accepted, Queued
    <3>2. CASE op[r] = "confirm"
      <4>1. Did({"confirm"})
        BY <1>5, <3>1, <3>2
      <4> QED
        BY <3>1, <4>1 DEF Backed, Statuses
    <3>3. CASE op[r] = "credit"
      <4>1. adapter = "ewallet" /\ Did({"charge", "credit"})
        BY <1>2, <1>5, <3>1, <3>3
      <4> QED
        BY <3>1, <4>1 DEF Backed, Statuses, Holds
    <3> QED
      BY <2>5, <3>2, <3>3
  <2> QED
    BY <1>2, <2>2, <2>3, <2>4, <2>5 DEF Moves, Makes, Changes
<1> QED
  BY <1>6, <1>7, <1>8, <1>9

(* What a query answers is a status, and backed. *)
LEMMA ToldBacked ==
  ASSUME TypeOK, Holds
  PROVE  /\ Told(adapter, held) \in Statuses \cup {None} /\ Backed(Told(adapter, held))
         /\ Told(adapter, held) \in {"AUTH_DECLINED", "SETTLE_DECLINED"} => held = "FAILED"
         /\ Told(adapter, held) \in
              {None, "UNCONFIRMED", "AUTHORIZED", "RISK_PENDING", "SETTLEMENT_SUBMITTED",
               "SETTLING", "SETTLED", "REVERSED", "UNRECOGNIZED", "AUTH_DECLINED",
               "SETTLE_DECLINED"}
<1> DEFINE t == Told(adapter, held)
<1>1. held \in Provided \cup {None} /\ None \notin Statuses
  BY NoneAssumption DEF TypeOK
<1>2. \/ held = None /\ t \in {None, "UNCONFIRMED"}
      \/ held = "FAILED" /\ t \in {"AUTH_DECLINED", "SETTLE_DECLINED"}
      \/ held = "EXPIRED" /\ t = "UNRECOGNIZED"
      \/ /\ held \in {"AUTHORIZED", "RISK_PENDING", "SETTLEMENT_SUBMITTED", "SETTLING",
                      "SETTLED", "REVERSED"}
         /\ t = held
  BY <1>1 DEF Told, Provided, Statuses
<1>3. t \in Statuses \cup {None}
  BY <1>2 DEF Statuses
<1>4. Did({"reverse"}) => Took({"reverse"})
  BY DEF Did, Took, Performed, Taken
<1>5. Backed(t)
  BY <1>1, <1>2, <1>4 DEF Holds, Backed, Statuses
<1> HIDE DEF t
<1>6. t \in {"AUTH_DECLINED", "SETTLE_DECLINED"} => held = "FAILED"
  BY <1>1, <1>2 DEF Statuses
<1> QED
  BY <1>2, <1>3, <1>5, <1>6 DEF t

(* The initial states satisfy the invariant. *)
LEMMA InitIInv == Init => IInv
<1> SUFFICES ASSUME Init PROVE IInv
  OBVIOUS
<1>1. TypeOK
  BY MenuAssumption DEF Init, TypeOK, Places, Calls, Ops
<1>2. Memories /\ Holds
  BY NoneAssumption DEF Init, Memories, Remembered, Holds, Backed, Statuses, Did, Performed
<1>3. Announced /\ Unasked /\ Answered /\ Overruled /\ Capturing
  BY DEF Init, Announced, Unasked, Answered, Overruled, Capturing
<1> QED
  BY <1>1, <1>2, <1>3 DEF IInv

------------------------------------------------------------------------------
(* Types. *)

(* A write of a status by a request, or by none, keeps the row typed. *)
LEMMA WriteTyped ==
  ASSUME TypeOK, NEW r \in Requests \cup {None}, NEW s \in Statuses, Write(r, s)
  PROVE  /\ status' \in Statuses
         /\ log' \subseteq [by : Requests \cup {None}, status : Statuses]
  BY DEF TypeOK, Write

(* Every step keeps the state typed. *)
LEMMA NextTyped == IInv /\ [Next]_vars => TypeOK'
<1> SUFFICES ASSUME IInv, [Next]_vars PROVE TypeOK'
  OBVIOUS
<1>0. TypeOK /\ Holds /\ Announced
  BY DEF IInv
<1> USE <1>0 DEF TypeOK
<1>1. ASSUME NEW r \in Requests, Create(r) PROVE TypeOK'
  <2>1. Created(op[r]) \in Statuses
    BY Operations
  <2> QED
    BY <1>1, <2>1, WriteTyped DEF Create, Goto, Places, fixed, providerVars
<1>2. ASSUME NEW r \in Requests, Read(r) PROVE TypeOK'
  BY <1>2 DEF Read, Exists, Goto, Places, fixed, rowVars, providerVars
<1>3. ASSUME NEW r \in Requests, Refuse(r) PROVE TypeOK'
  BY <1>3 DEF Refuse, Leave, Goto, Places, fixed, rowVars, providerVars
<1>4. ASSUME NEW r \in Requests, Announce(r) PROVE TypeOK'
  <2>1. Created(op[r]) \in Statuses
    BY Operations
  <2> QED
    BY <1>4, <2>1, WriteTyped DEF Announce, Goto, Places, fixed, providerVars
<1>5. ASSUME NEW r \in Requests, Send(r) PROVE TypeOK'
  BY <1>5 DEF Send, Goto, Places, Calls, fixed, rowVars
<1>6. ASSUME NEW r \in Requests, Receive(r) PROVE TypeOK'
  <2>1. \E s \in Statuses : Answer(r, s)
    BY <1>6, ResultsBacked DEF Receive
  <2> QED
    BY <1>6, <2>1, NoneAssumption
       DEF Receive, Answer, Goto, Places, fixed, rowVars, providerVars
<1>7. ASSUME NEW r \in Requests, Redirect(r) PROVE TypeOK'
  BY <1>7, NoneAssumption
     DEF Redirect, Answer, Goto, Places, Statuses, fixed, rowVars, providerVars
<1>8. ASSUME NEW r \in Requests, Unacknowledged(r) PROVE TypeOK'
  <2>1. Created(op[r]) \in Statuses
    BY Operations
  <2> QED
    BY <1>8, <2>1, NoneAssumption
       DEF Unacknowledged, Answer, Goto, Places, fixed, rowVars, providerVars
<1>9. ASSUME NEW r \in Requests, NoAnswer(r) PROVE TypeOK'
  BY <1>9 DEF NoAnswer, Leave, Goto, Places, fixed, rowVars, providerVars
<1>10. ASSUME NEW r \in Requests, Fail(r) PROVE TypeOK'
  BY <1>10 DEF Fail, Goto, Places, fixed, rowVars, providerVars
<1>11. ASSUME NEW r \in Requests, Succeed(r) PROVE TypeOK'
  <2>1. ans[r] \in Statuses
    BY <1>11 DEF Succeed
  <2> QED
    BY <1>11, <2>1, WriteTyped DEF Succeed, Leave, Goto, Places, fixed, providerVars
<1>12. ASSUME NEW r \in Requests, Decline(r) PROVE TypeOK'
  <2>1. Declined(op[r]) \in Statuses
    BY Operations
  <2> QED
    BY <1>12, <2>1, WriteTyped DEF Decline, Leave, Goto, Places, fixed, providerVars
<1>13. ASSUME NEW r \in Requests, Overrule(r) PROVE TypeOK'
  <2>1. "REVERSED" \in Statuses
    BY DEF Statuses
  <2> QED
    BY <1>13, <2>1, WriteTyped DEF Overrule, Leave, Goto, Places, fixed, providerVars
<1>14. ASSUME NEW r \in Requests, Restore(r) PROVE TypeOK'
  BY <1>14 DEF Restore, Leave, Goto, Places, fixed, providerVars
<1>15. ASSUME NEW r \in Requests, Crash(r) PROVE TypeOK'
  BY <1>15 DEF Crash, Leave, Goto, Places, fixed, rowVars, providerVars
<1>16. ASSUME NEW r \in Requests, Look(r) PROVE TypeOK'
  BY <1>16 DEF Look, Exists, Goto, Places, fixed, rowVars, providerVars
<1>17. ASSUME NEW r \in Requests, Learn(r) PROVE TypeOK'
  <2>1. Told(adapter, held) \in Statuses
    BY <1>17, ToldBacked DEF Learn, Askable
  <2> QED
    BY <1>17, <2>1, NoneAssumption
       DEF Learn, Answer, Goto, Places, fixed, rowVars, providerVars
<1>18. ASSUME NEW r \in Requests, LearnNothing(r) PROVE TypeOK'
  BY <1>18 DEF LearnNothing, Leave, Goto, Places, fixed, rowVars, providerVars
<1>19. ASSUME NEW r \in Requests, Report(r) PROVE TypeOK'
  <2>1. ans[r] \in Statuses
    BY <1>19 DEF Report
  <2>2. status' \in Statuses \cup {None} /\ log' \subseteq [by : Requests \cup {None}, status : Statuses]
    BY <1>19, <2>1, WriteTyped DEF Report
  <2> QED
    BY <1>19, <2>2 DEF Report, Leave, Goto, Places, fixed, providerVars
<1>20. ASSUME NEW r \in Requests, Return(r) PROVE TypeOK'
  BY <1>20 DEF Return, Exists, Goto, Places, fixed, rowVars, providerVars
<1>21. ASSUME NEW r \in Requests, WriteBack(r) PROVE TypeOK'
  <2>1. read[r] \in Statuses
    BY <1>21 DEF WriteBack
  <2> QED
    BY <1>21, <2>1, WriteTyped DEF WriteBack, Goto, Places, fixed, providerVars
<1>22. ASSUME NEW r \in Requests, ConfirmNotify(r) PROVE TypeOK'
  <2>1. status' \in Statuses \cup {None} /\ token' \subseteq {"external", "params"}
    BY <1>22 DEF ConfirmNotify, Statuses
  <2> QED
    BY <1>22, <2>1 DEF ConfirmNotify, Leave, Goto, Places, fixed, providerVars
<1>23. ASSUME NEW n \in notes, Deliver(n) PROVE TypeOK'
  <2>1. n \in Statuses
    BY DEF Noticed, Statuses
  <2> QED
    BY <1>23, <2>1, WriteTyped DEF Deliver, fixed, providerVars
<1>24. ASSUME NEW r \in Requests, Provider(r) PROVE TypeOK'
  <2>1. Noted(op[r]) \subseteq Noticed /\ NotedFailed(op[r]) \subseteq Noticed /\ Noted("charge") \subseteq Noticed
    BY DEF Noted, NotedFailed, Noticed
  <2>2. Becomes(r) \subseteq Provided \cup {None}
    <3>1. op[r] = "authorize" => Accepted(op[r]) \in Provided
      BY DEF Accepted, Provided
    <3>2. op[r] = "charge" => Accepted(op[r]) \in Provided
      BY DEF Accepted, Provided
    <3> QED
      BY <3>1, <3>2 DEF Becomes, Provided
  <2>3. CASE Take(r)
    BY <2>1, <2>3 DEF Take, Calls, Provided, fixed, rowVars
  <2>4. CASE Perform(r)
    <3>1. held' \in Provided \cup {None} /\ notes' \subseteq Noticed
      BY <2>1, <2>2, <2>4 DEF Perform
    <3>2. asked' \in [Requests -> Calls]
      BY <2>4 DEF Perform, Calls
    <3> QED
      BY <2>4, <3>1, <3>2 DEF Perform, fixed, rowVars
  <2>5. CASE Reject(r)
    BY <2>1, <2>5 DEF Reject, Calls, fixed, rowVars
  <2> QED
    BY <1>24, <2>3, <2>4, <2>5 DEF Provider
<1>25. CASE Settle
  BY <1>25 DEF Settle, Provided, Noticed, fixed, rowVars
<1>26. CASE Expire \/ Review
  BY <1>26 DEF Expire, Review, Provided, Noticed, fixed, rowVars
<1>27. CASE UNCHANGED vars
  BY <1>27 DEF vars
<1> QED
  BY <1>1, <1>2, <1>3, <1>4, <1>5, <1>6, <1>7, <1>8, <1>9, <1>10, <1>11, <1>12,
     <1>13, <1>14, <1>15, <1>16, <1>17, <1>18, <1>19, <1>20, <1>21, <1>22, <1>23,
     <1>24, <1>25, <1>26, <1>27 DEF Next, Request, Watch

------------------------------------------------------------------------------
(* What only grows: the events, what the provider has accepted, done or failed,
   and its own status once the money moves. *)
Grows ==
  /\ adapter' = adapter /\ op' = op /\ log \subseteq log'
  /\ Taken \subseteq Taken' /\ Performed \subseteq Performed'
  /\ \A r \in Requests : asked[r] = "failed" => asked'[r] = "failed"
  /\ held \in {"SETTLED", "FAILED", "EXPIRED"} => held' = held
  /\ held = "SETTLING" => held' \in {"SETTLING", "SETTLED", "FAILED"}

LEMMA NextGrows == IInv /\ [Next]_vars => Grows
<1> SUFFICES ASSUME IInv, [Next]_vars PROVE Grows
  OBVIOUS
<1>1. asked \in [Requests -> Calls] /\ held \in Provided \cup {None} /\ Unasked
      /\ None \notin Provided
  BY NoneAssumption DEF IInv, TypeOK
<1>2. ASSUME asked' = asked, held' = held, adapter' = adapter, op' = op, log \subseteq log'
      PROVE  Grows
  BY <1>2 DEF Grows, Taken, Performed
<1>3. ASSUME NEW r \in Requests, Send(r) PROVE Grows
  BY <1>1, <1>3 DEF Send, fixed, rowVars, Unasked, Grows, Taken, Performed
<1>4. ASSUME NEW r \in Requests,
             Create(r) \/ Announce(r) \/ Succeed(r) \/ Decline(r) \/ Overrule(r)
      PROVE  Grows
  BY <1>2, <1>4 DEF Create, Announce, Succeed, Decline, Overrule, Write, fixed, providerVars
<1>5. ASSUME NEW r \in Requests,
             \/ Read(r) \/ Refuse(r) \/ Receive(r) \/ Redirect(r) \/ Unacknowledged(r)
             \/ NoAnswer(r) \/ Fail(r) \/ Restore(r) \/ Crash(r)
      PROVE  Grows
  BY <1>2, <1>5 DEF Read, Refuse, Receive, Redirect, Unacknowledged, NoAnswer, Fail,
                    Restore, Crash, fixed, rowVars, providerVars
<1>6. ASSUME NEW r \in Requests, Watch(r) PROVE Grows
  BY <1>2, <1>6 DEF Watch, Look, Learn, LearnNothing, Report, Return, WriteBack,
                    ConfirmNotify, Write, fixed, rowVars, providerVars
<1>7. ASSUME NEW n \in notes, Deliver(n) PROVE Grows
  BY <1>2, <1>7 DEF Deliver, Write, fixed, providerVars
<1>8. ASSUME NEW r \in Requests, Take(r) \/ Reject(r) PROVE Grows
  <2>1. /\ adapter' = adapter /\ op' = op /\ log' = log
        /\ \/ held' = held
           \/ held = None
    BY <1>8 DEF Take, Reject, fixed, rowVars
  <2>2. Taken \subseteq Taken' /\ Performed \subseteq Performed'
        /\ \A q \in Requests : asked[q] = "failed" => asked'[q] = "failed"
    BY <1>1, <1>8 DEF Take, Reject, Taken, Performed
  <2> QED
    BY <1>1, <2>1, <2>2 DEF Grows, Provided
<1>9. ASSUME NEW r \in Requests, Perform(r) PROVE Grows
  <2>1. /\ adapter' = adapter /\ op' = op /\ log' = log /\ held' \in Becomes(r)
        /\ asked[r] \in {"sent", "taken"} /\ asked' = [asked EXCEPT ![r] = "done"]
    BY <1>9 DEF Perform, fixed, rowVars
  <2>2. Taken \subseteq Taken' /\ Performed \subseteq Performed'
        /\ \A q \in Requests : asked[q] = "failed" => asked'[q] = "failed"
    BY <1>1, <2>1 DEF Taken, Performed
  <2>3. \/ held \in {"SETTLING", "SETTLED"} /\ held' = held
        \/ held \in {None, "AUTHORIZED", "SETTLEMENT_SUBMITTED"}
    BY <2>1 DEF Becomes
  <2> QED
    BY <1>1, <2>1, <2>2, <2>3 DEF Grows, Provided
<1>10. CASE Settle \/ Expire \/ Review
  BY <1>10 DEF Settle, Expire, Review, fixed, rowVars, Grows, Taken, Performed
<1>11. CASE UNCHANGED vars
  BY <1>2, <1>11 DEF vars
<1> QED
  BY <1>3, <1>4, <1>5, <1>6, <1>7, <1>8, <1>9, <1>10, <1>11 DEF Next, Request, Provider

(* What was backed stays backed. *)
LEMMA Lasting ==
  ASSUME Grows
  PROVE  /\ \A ops : Did(ops) => Did(ops)'
         /\ \A ops : Took(ops) => Took(ops)'
         /\ Authorised => Authorised'
  BY DEF Grows, Did, Took, Authorised

LEMMA BackedStays ==
  ASSUME Grows, NEW s, Backed(s)
  PROVE  Backed(s)'
<1>1. (\E r \in Requests : op[r] = "reverse" /\ Event(r, "REVERSE_DECLINED") \in log)
        => (\E q \in Requests : op[q] = "reverse" /\ Event(q, "REVERSE_DECLINED") \in log)'
  BY DEF Grows, Event
<1>2. /\ adapter' = adapter
      /\ held \in {"SETTLED", "FAILED", "EXPIRED"} => held' = held
      /\ held = "SETTLING" => held' \in {"SETTLING", "SETTLED", "FAILED"}
  BY DEF Grows
<1>3. /\ Authorised => Authorised'
      /\ Did({"authorize", "charge"}) => Did({"authorize", "charge"})'
      /\ Did({"charge"}) => Did({"charge"})'
      /\ Did({"confirm"}) => Did({"confirm"})'
      /\ Took({"charge", "capture"}) => Took({"charge", "capture"})'
      /\ Took({"refund"}) => Took({"refund"})'
      /\ Took({"reverse"}) => Took({"reverse"})'
  BY Lasting
<1> QED
  BY <1>1, <1>2, <1>3 DEF Backed

(* Every step keeps the requests in order: what was announced, what was not
   asked yet, what was answered and which reversals are overruled. *)
LEMMA NextOrderly ==
  ASSUME IInv, [Next]_vars
  PROVE  (Unasked /\ Announced /\ Answered /\ Overruled)'
<1>0. TypeOK /\ Unasked /\ Announced /\ Answered /\ Overruled
  BY DEF IInv
<1> DEFINE Orderly == Unasked /\ Announced /\ Answered /\ Overruled
<1> USE <1>0 DEF TypeOK, Unasked, Announced, Answered, Overruled, Event, Taken
<1>1. ASSUME NEW r \in Requests, Create(r) PROVE Orderly'
  BY <1>1 DEF Create, Write, Goto, fixed, providerVars, Moves
<1>2. ASSUME NEW r \in Requests, Read(r) PROVE Orderly'
  BY <1>2 DEF Read, Goto, fixed, rowVars, providerVars, Moves
<1>3. ASSUME NEW r \in Requests, Refuse(r) PROVE Orderly'
  BY <1>3 DEF Refuse, Leave, Goto, fixed, rowVars, providerVars
<1>4. ASSUME NEW r \in Requests, Announce(r) PROVE Orderly'
  BY <1>4 DEF Announce, Write, Goto, fixed, providerVars
<1>5. ASSUME NEW r \in Requests, Send(r) PROVE Orderly'
  BY <1>5 DEF Send, Goto, fixed, rowVars
<1>6. ASSUME NEW r \in Requests, Receive(r) PROVE Orderly'
  BY <1>6 DEF Receive, Answer, Goto, fixed, rowVars, providerVars
<1>7. ASSUME NEW r \in Requests, Redirect(r) \/ Unacknowledged(r) PROVE Orderly'
  BY <1>7 DEF Redirect, Unacknowledged, Answer, Goto, fixed, rowVars, providerVars
<1>8. ASSUME NEW r \in Requests, NoAnswer(r) \/ Fail(r) \/ Crash(r) PROVE Orderly'
  BY <1>8 DEF NoAnswer, Fail, Crash, Leave, Goto, fixed, rowVars, providerVars
<1>9. ASSUME NEW r \in Requests, Succeed(r) \/ Overrule(r) PROVE Orderly'
  BY <1>9 DEF Succeed, Overrule, Write, Leave, Goto, fixed, providerVars
<1>10. ASSUME NEW r \in Requests, Decline(r) PROVE Orderly'
  <2>1. op[r] = "reverse" => Declined(op[r]) = "REVERSE_DECLINED"
    BY DEF Declined
  <2> QED
    BY <1>10, <2>1 DEF Decline, Write, Leave, Goto, fixed, providerVars
<1>11. ASSUME NEW r \in Requests, Restore(r) PROVE Orderly'
  BY <1>11 DEF Restore, Leave, Goto, fixed, providerVars
<1>12. ASSUME NEW r \in Requests, Look(r) \/ Learn(r) \/ LearnNothing(r) PROVE Orderly'
  BY <1>12 DEF Look, Learn, LearnNothing, Leave, Goto, Answer, fixed, rowVars, providerVars
<1>13. ASSUME NEW r \in Requests, Report(r) PROVE Orderly'
  BY <1>13 DEF Report, Write, Leave, Goto, fixed, providerVars
<1>14. ASSUME NEW r \in Requests, Return(r) \/ WriteBack(r) PROVE Orderly'
  BY <1>14 DEF Return, WriteBack, Write, Goto, fixed, rowVars, providerVars
<1>15. ASSUME NEW r \in Requests, ConfirmNotify(r) PROVE Orderly'
  BY <1>15 DEF ConfirmNotify, Leave, Goto, fixed, providerVars
<1>16. ASSUME NEW n \in notes, Deliver(n) PROVE Orderly'
  BY <1>16 DEF Deliver, Write, fixed, providerVars
<1>17. ASSUME NEW r \in Requests, Take(r) PROVE Orderly'
  BY <1>17 DEF Take, fixed, rowVars
<1>18. ASSUME NEW r \in Requests, Perform(r) PROVE Orderly'
  BY <1>18 DEF Perform, fixed, rowVars
<1>19. ASSUME NEW r \in Requests, Reject(r) PROVE Orderly'
  BY <1>19 DEF Reject, fixed, rowVars
<1>20. CASE Settle \/ Expire \/ Review
  BY <1>20 DEF Settle, Expire, Review, fixed, rowVars
<1>21. CASE UNCHANGED vars
  BY <1>21 DEF vars
<1> QED
  BY <1>1, <1>2, <1>3, <1>4, <1>5, <1>6, <1>7, <1>8, <1>9, <1>10, <1>11, <1>12,
     <1>13, <1>14, <1>15, <1>16, <1>17, <1>18, <1>19, <1>20, <1>21
     DEF Next, Request, Watch, Provider

(* A capture has been allowed because the status was AUTHORIZED, and backed. *)
LEMMA NextCapturing ==
  ASSUME IInv, [Next]_vars, Grows
  PROVE  Capturing'
<1>1. ASSUME Authorised PROVE Capturing'
  BY <1>1, Lasting DEF Capturing
<1>2. ASSUME ~Authorised PROVE Capturing'
  <2>1. status # "AUTHORIZED"
    BY <1>2 DEF IInv, Memories, Remembered, Backed
  <2>2. \A r \in Requests :
          op[r] = "capture" => asked[r] = "no" /\ pc[r] \notin {"announce", "send"}
    BY <1>2 DEF IInv, Capturing
  <2>3. op' = op /\ op \in [Requests -> Ops] /\ pc \in [Requests -> Places]
        /\ asked \in [Requests -> Calls]
    BY DEF Grows, IInv, TypeOK
  <2>4. SUFFICES ASSUME NEW r \in Requests, op[r] = "capture"
                 PROVE  asked'[r] = "no" /\ pc'[r] \notin {"announce", "send"}
    BY <2>3 DEF Capturing
  <2>5. asked[r] = "no" /\ pc[r] \notin {"announce", "send"}
    BY <2>2, <2>4
  <2>6. ~Allowed(op[r], status)
    BY <2>1, <2>4 DEF Allowed
  <2>7. op[r] \notin Makes
    BY <2>4 DEF Makes
  <2>8. ASSUME NEW q \in Requests, Create(q) \/ Read(q) \/ Announce(q) \/ Send(q)
        PROVE  asked'[r] = "no" /\ pc'[r] \notin {"announce", "send"}
    BY <2>3, <2>5, <2>6, <2>7, <2>8
       DEF Create, Read, Announce, Send, Goto, rowVars, providerVars
  <2>9. ASSUME NEW q \in Requests,
               \/ Refuse(q) \/ Receive(q) \/ Redirect(q) \/ Unacknowledged(q) \/ NoAnswer(q)
               \/ Fail(q) \/ Restore(q) \/ Crash(q)
        PROVE  asked'[r] = "no" /\ pc'[r] \notin {"announce", "send"}
    BY <2>3, <2>5, <2>9
       DEF Refuse, Receive, Redirect, Unacknowledged, NoAnswer, Fail, Restore, Crash, Leave,
           Goto, rowVars, providerVars
  <2>10. ASSUME NEW q \in Requests, Succeed(q) \/ Decline(q) \/ Overrule(q)
         PROVE  asked'[r] = "no" /\ pc'[r] \notin {"announce", "send"}
    BY <2>3, <2>5, <2>10 DEF Succeed, Decline, Overrule, Leave, Goto, providerVars
  <2>11. ASSUME NEW q \in Requests, Watch(q)
         PROVE  asked'[r] = "no" /\ pc'[r] \notin {"announce", "send"}
    BY <2>3, <2>5, <2>11
       DEF Watch, Look, Learn, LearnNothing, Report, Return, WriteBack, ConfirmNotify,
           Leave, Goto, rowVars, providerVars
  <2>12. ASSUME NEW q \in Requests, Provider(q)
         PROVE  asked'[r] = "no" /\ pc'[r] \notin {"announce", "send"}
    BY <2>3, <2>5, <2>12 DEF Provider, Take, Perform, Reject
  <2>13. CASE (\E n \in notes : Deliver(n)) \/ Settle \/ Expire \/ Review \/ UNCHANGED vars
    BY <2>5, <2>13 DEF Deliver, Settle, Expire, Review, vars, providerVars
  <2> QED
    BY <2>8, <2>9, <2>10, <2>11, <2>12, <2>13 DEF Next, Request
<1> QED
  BY <1>1, <1>2

(* What the provider has performed it has taken, of the operation asked. *)
LEMMA PerformedDid ==
  ASSUME NEW r \in Requests
  PROVE  /\ \A ops : asked[r] = "done" /\ op[r] \in ops => Did(ops)
         /\ \A ops : asked[r] \in {"taken", "done", "failed"} /\ op[r] \in ops => Took(ops)
         /\ \A ops : asked'[r] = "done" /\ op'[r] \in ops => Did(ops)'
         /\ \A ops : asked'[r] \in {"taken", "done", "failed"} /\ op'[r] \in ops => Took(ops)'
  BY DEF Did, Took, Performed, Taken

(* The provider's own status tells what it has been asked, whatever it does. *)
LEMMA NextHolds ==
  ASSUME IInv, [Next]_vars, Grows
  PROVE  Holds'
<1>1. /\ Holds /\ held \in Provided \cup {None} /\ None \notin Provided
      /\ asked \in [Requests -> Calls] /\ op \in [Requests -> Ops]
      /\ adapter \in Adapters /\ adapter' = adapter /\ op' = op
  BY NoneAssumption DEF IInv, TypeOK, Grows
<1>2. ASSUME held' = held, Did({"charge", "credit"})' => Did({"charge", "credit"})
      PROVE  Holds'
  BY <1>1, <1>2, Lasting DEF Holds
<1>3. ASSUME held' = held, asked' = asked PROVE Holds'
  BY <1>1, <1>2, <1>3 DEF Did, Performed
<1>4. ASSUME NEW r \in Requests, Request(r) PROVE Holds'
  <2>1. CASE Send(r)
    <3>1. held' = held /\ \A q \in Requests : asked'[q] = "done" => asked[q] = "done"
      BY <1>1, <2>1 DEF Send
    <3> QED
      BY <1>1, <1>2, <3>1 DEF Did, Performed
  <2>2. CASE Create(r) \/ Announce(r) \/ Succeed(r) \/ Decline(r) \/ Overrule(r)
    BY <1>3, <2>2 DEF Create, Announce, Succeed, Decline, Overrule, providerVars
  <2>3. CASE \/ Read(r) \/ Refuse(r) \/ Receive(r) \/ Redirect(r) \/ Unacknowledged(r)
             \/ NoAnswer(r) \/ Fail(r) \/ Restore(r) \/ Crash(r)
    BY <1>3, <2>3 DEF Read, Refuse, Receive, Redirect, Unacknowledged, NoAnswer, Fail,
                      Restore, Crash, providerVars
  <2> QED
    BY <1>4, <2>1, <2>2, <2>3 DEF Request
<1>5. ASSUME NEW r \in Requests, Watch(r) PROVE Holds'
  BY <1>3, <1>5 DEF Watch, Look, Learn, LearnNothing, Report, Return, WriteBack,
                    ConfirmNotify, providerVars
<1>6. CASE (\E n \in notes : Deliver(n)) \/ UNCHANGED vars
  BY <1>3, <1>6 DEF Deliver, providerVars, vars
<1>7. ASSUME NEW r \in Requests, Take(r) PROVE Holds'
  <2>1. asked' = [asked EXCEPT ![r] = "taken"] /\ Queued(adapter, op[r])
    BY <1>7 DEF Take
  <2>2. CASE op[r] = "charge"
    <3>1. adapter = "adyenCC" /\ held' = "AUTHORIZED"
      BY <1>7, <2>1, <2>2 DEF Take, Queued
    <3>2. asked'[r] = "taken" /\ op'[r] \in {"charge"}
      BY <1>1, <2>1, <2>2
    <3>3. Took({"charge"})'
      BY <3>2, PerformedDid
    <3> QED
      BY <1>1, <3>1, <3>3 DEF Holds, Authorised
  <2>3. CASE op[r] # "charge"
    <3>1. held' = held /\ \A q \in Requests : asked'[q] = "done" => asked[q] = "done"
      BY <1>1, <1>7, <2>1, <2>3 DEF Take
    <3> QED
      BY <1>1, <1>2, <3>1 DEF Did, Performed
  <2> QED
    BY <2>2, <2>3
<1>8. ASSUME NEW r \in Requests, Reject(r) PROVE Holds'
  <2>1. held' = held /\ \A q \in Requests : asked'[q] = "done" => asked[q] = "done"
    BY <1>1, <1>8 DEF Reject
  <2> QED
    BY <1>1, <1>2, <2>1 DEF Did, Performed
<1>9. ASSUME NEW r \in Requests, Perform(r) PROVE Holds'
  <2>1. /\ asked[r] # "no" /\ asked' = [asked EXCEPT ![r] = "done"] /\ asked'[r] = "done"
        /\ held' \in Becomes(r)
    BY <1>1, <1>9 DEF Perform
  <2>2. /\ \A ops : op[r] \in ops => Did(ops)'
        /\ \A ops : op[r] \in ops => Took(ops)'
    BY <1>1, <2>1, PerformedDid
  <2>3. op[r] \in Serves(adapter)
    BY <2>1 DEF IInv, Announced
  <2>4. CASE op[r] = "refund"
    <3>1. held' = held
      BY <2>1, <2>4 DEF Becomes
    <3>2. Did({"charge", "credit"})' => Did({"charge", "credit"})
      BY <1>1, <2>1, <2>4 DEF Did, Performed
    <3> QED
      BY <1>2, <3>1, <3>2
  <2>5. CASE op[r] = "authorize"
    <3>1. /\ held' = "AUTHORIZED" \/ (adapter = "facebook" /\ held' = "RISK_PENDING")
          /\ adapter # "ewallet"
      BY <1>1, <2>1, <2>3, <2>5, Serving DEF Becomes, Accepted
    <3>2. Did({"authorize"})' /\ Did({"authorize", "charge"})'
      BY <2>2, <2>5
    <3> QED
      BY <1>1, <3>1, <3>2 DEF Holds, Authorised
  <2>6. CASE op[r] = "charge"
    <3>1. \/ held' = "SETTLEMENT_SUBMITTED" /\ adapter # "ewallet"
          \/ adapter = "facebook" /\ held' = "RISK_PENDING"
          \/ held' = "SETTLED"
      BY <1>1, <2>1, <2>6 DEF Becomes, Accepted
    <3>2. Took({"charge", "capture"})' /\ Did({"authorize", "charge"})'
      BY <2>2, <2>6
    <3> QED
      BY <1>1, <3>1, <3>2 DEF Holds
  <2>7. CASE op[r] = "credit"
    <3>1. held' = "SETTLED"
      BY <2>1, <2>7 DEF Becomes
    <3> QED
      BY <3>1 DEF Holds
  <2>8. CASE op[r] \in {"confirm", "capture", "reverse"}
    <3>1. /\ \/ op[r] = "confirm" /\ held' = "SETTLING"
             \/ op[r] = "capture" /\ held' = "SETTLEMENT_SUBMITTED"
             \/ op[r] = "reverse" /\ held' = "REVERSED"
          /\ adapter # "ewallet"
      BY <2>1, <2>3, <2>8, <1>1, Serving DEF Becomes
    <3>2. /\ op[r] = "capture" => Took({"charge", "capture"})'
          /\ op[r] = "reverse" => Did({"reverse"})'
      BY <2>2
    <3> QED
      BY <1>1, <3>1, <3>2 DEF Holds
  <2> QED
    BY <1>1, <2>3, <2>4, <2>5, <2>6, <2>7, <2>8, Serving DEF Moves, Makes, Changes
<1>10. CASE Settle \/ Expire
  <2>1. /\ held' \in {"SETTLING", "SETTLED", "FAILED", "EXPIRED"} /\ held # "SETTLED"
        /\ asked' = asked
    BY <1>10 DEF Settle, Expire
  <2>2. adapter # "ewallet" \/ ~Did({"charge", "credit"})'
    BY <1>1, <2>1 DEF Holds, Did, Performed
  <2> QED
    BY <1>1, <2>1, <2>2 DEF Holds
<1>11. CASE Review
  <2>1. /\ held = "RISK_PENDING" /\ asked' = asked
        /\ \/ Did({"charge"}) /\ held' = "SETTLEMENT_SUBMITTED"
           \/ ~Did({"charge"}) /\ held' = "AUTHORIZED"
           \/ held' = "FAILED"
    BY <1>11 DEF Review
  <2>2. adapter = "facebook" /\ (~Did({"charge"}) => Did({"authorize"}))
    BY <1>1, <2>1 DEF Holds, Did
  <2>3. Did({"charge"}) => Took({"charge", "capture"})
    BY DEF Did, Took, Performed, Taken
  <2>4. (Did({"charge"}) => Took({"charge", "capture"})') /\ (Did({"authorize"}) => Authorised')
    BY <2>3, Lasting DEF Authorised
  <2> QED
    BY <1>1, <2>1, <2>2, <2>4 DEF Holds
<1> QED
  BY <1>4, <1>5, <1>6, <1>7, <1>8, <1>9, <1>10, <1>11 DEF Next, Provider

(* What the provider notifies is backed by what it has taken or done. *)
LEMMA NotesBacked ==
  ASSUME IInv, [Next]_vars, Grows
  PROVE  \A n \in notes' : Backed(n)'
<1>1. \A n \in notes : Backed(n)'
  BY BackedStays DEF IInv, Memories
<1>2. /\ Holds /\ asked \in [Requests -> Calls] /\ op \in [Requests -> Ops]
      /\ adapter \in Adapters /\ adapter' = adapter /\ op' = op
  BY DEF IInv, TypeOK, Grows
<1>3. Backed("SETTLE_DECLINED")' /\ Backed("REFUND_DECLINED")'
  BY NoneAssumption DEF Backed, Statuses
<1>4. ASSUME NEW r \in Requests, Request(r) \/ Watch(r) PROVE notes' = notes
  BY <1>4 DEF Request, Create, Read, Refuse, Announce, Send, Receive, Redirect,
              Unacknowledged, NoAnswer, Fail, Succeed, Decline, Overrule, Restore, Crash,
              Watch, Look, Learn, LearnNothing, Report, Return, WriteBack, ConfirmNotify,
              providerVars
<1>5. ASSUME NEW r \in Requests, Take(r) \/ Perform(r) \/ Reject(r), NEW n \in notes' \ notes
      PROVE  Backed(n)'
  <2>1. /\ asked'[r] \in {"taken", "done", "failed"}
        /\ \/ op[r] = "charge" /\ n \in Noted("charge")
           \/ n \in NotedFailed(op[r])
           \/ adapter \in {"adyen", "adyenCC"} /\ n \in Noted(op[r]) /\ asked'[r] = "done"
    BY <1>2, <1>5 DEF Take, Perform, Reject
  <2>2. /\ \A ops : op[r] \in ops => Took(ops)'
        /\ \A ops : asked'[r] = "done" /\ op[r] \in ops => Did(ops)'
    BY <1>2, <2>1, PerformedDid
  <2>3. asked[r] # "no"
    BY <1>5 DEF Take, Perform, Reject
  <2>4. op[r] \in Serves(adapter)
    BY <2>3 DEF IInv, Announced
  <2>5. op[r] = "authorize" => adapter # "adyen"
    BY <1>2, <2>4, Serving
  <2>6. \/ n \in {"SETTLE_DECLINED", "REFUND_DECLINED"}
        \/ n = "SETTLEMENT_SUBMITTED" /\ op[r] = "charge"
        \/ n = "SETTLEMENT_SUBMITTED" /\ op[r] = "authorize" /\ adapter = "adyenCC" /\ asked'[r] = "done"
        \/ n = "REVERSED" /\ op[r] = "reverse"
        \/ n = "REFUNDED" /\ op[r] = "refund"
    BY <2>1, <2>5 DEF Noted, NotedFailed
  <2>7. /\ op[r] = "charge" => Took({"charge", "capture"})'
        /\ op[r] = "authorize" /\ asked'[r] = "done" => Did({"authorize"})'
        /\ op[r] = "reverse" => Took({"reverse"})'
        /\ op[r] = "refund" => Took({"refund"})'
    BY <2>2
  <2> QED
    BY <1>2, <1>3, <2>6, <2>7 DEF Backed, Authorised
<1>6. ASSUME Settle, NEW n \in notes' \ notes PROVE Backed(n)'
  <2>1. (n = "SETTLED" /\ held' = "SETTLED") \/ n = "SETTLE_DECLINED"
    BY <1>6 DEF Settle
  <2> QED
    BY <1>3, <2>1 DEF Backed
<1>7. ASSUME Review, NEW n \in notes' \ notes PROVE Backed(n)'
  <2>1. /\ held = "RISK_PENDING"
        /\ n = "SETTLEMENT_SUBMITTED" \/ (n = "RISK_ASYNC_REJECT" /\ held' = "FAILED")
    BY <1>7 DEF Review
  <2>2. adapter = "facebook" /\ (Did({"charge"}) \/ Did({"authorize"}))
    BY <1>2, <2>1 DEF Holds, Did
  <2>3. Took({"charge", "capture"}) \/ Authorised
    BY <2>2 DEF Authorised, Did, Took, Performed, Taken
  <2>4. Took({"charge", "capture"})' \/ Authorised'
    BY <2>3, Lasting
  <2> QED
    BY <1>2, <2>1, <2>2, <2>4 DEF Backed
<1>8. CASE (\E n \in notes : Deliver(n)) \/ Expire \/ UNCHANGED vars
  BY <1>1, <1>8 DEF Deliver, Expire, vars, providerVars
<1> QED
  BY <1>1, <1>4, <1>5, <1>6, <1>7, <1>8 DEF Next, Provider

(* So is every status that is written, read or heard. *)
LEMMA NextMemories ==
  ASSUME IInv, [Next]_vars, Grows
  PROVE  Memories'
<1> DEFINE Claims == {status} \cup notes \cup {read[q] : q \in Requests}
                       \cup {ans[q] : q \in Requests}
<1>1. \A s \in Claims : Backed(s)
  BY DEF IInv, Memories, Remembered
<1>2. \A s \in Claims : Backed(s)'
  BY <1>1, BackedStays
<1>3. \A o \in Ops : Backed(Created(o))' /\ Backed(Declined(o))'
  BY ClaimsNothing, BackedStays
<1>4. Backed("UNCONFIRMED")' /\ Backed(None)'
  BY NoneAssumption DEF Backed, Statuses
<1>5. /\ op \in [Requests -> Ops]
      /\ read \in [Requests -> Statuses \cup {None}]
      /\ ans \in [Requests -> Statuses \cup {None}]
      /\ TypeOK /\ Holds /\ Announced
  BY DEF IInv, TypeOK
<1> USE <1>2, <1>3, <1>4, <1>5 DEF Remembered
<1>6. ASSUME NEW r \in Requests, Create(r) \/ Announce(r) \/ Decline(r) PROVE Remembered'
  BY <1>6 DEF Create, Announce, Decline, Write, Leave
<1>7. ASSUME NEW r \in Requests,
             \/ Read(r) \/ Refuse(r) \/ Send(r) \/ Redirect(r) \/ Unacknowledged(r)
             \/ NoAnswer(r) \/ Fail(r) \/ Crash(r)
      PROVE  Remembered'
  BY <1>7 DEF Read, Refuse, Send, Redirect, Unacknowledged, NoAnswer, Fail, Crash, Leave,
              Answer, rowVars
<1>8. ASSUME NEW r \in Requests, Receive(r) PROVE Remembered'
  <2>1. \A s \in Results(r) : Backed(s)'
    BY <1>8, ResultsBacked, BackedStays DEF Receive
  <2> QED
    BY <1>8, <2>1 DEF Receive, Answer, rowVars
<1>9. ASSUME NEW r \in Requests, Succeed(r) \/ Restore(r) PROVE Remembered'
  BY <1>9 DEF Succeed, Restore, Write, Leave
<1>10. ASSUME NEW r \in Requests, Overrule(r) PROVE Remembered'
  <2>1. op[r] = "reverse" /\ Event(r, "REVERSE_DECLINED") \in log
    BY <1>10 DEF Overrule, IInv, Overruled
  <2>2. Backed("REVERSED")
    BY <2>1, NoneAssumption DEF Event, Backed
  <2>3. Backed("REVERSED")'
    BY <2>2, BackedStays
  <2> QED
    BY <1>10, <2>3 DEF Overrule, Write, Leave
<1>11. ASSUME NEW r \in Requests,
              Look(r) \/ LearnNothing(r) \/ Report(r) \/ Return(r) \/ WriteBack(r)
       PROVE  Remembered'
  BY <1>11 DEF Look, LearnNothing, Report, Return, WriteBack, Write, Leave, rowVars
<1>12. ASSUME NEW r \in Requests, Learn(r) PROVE Remembered'
  <2>1. \A s : s = Told(adapter, held) => Backed(s)
    BY ToldBacked
  <2>2. \A s : s = Told(adapter, held) => Backed(s)'
    BY <2>1, BackedStays
  <2> QED
    BY <1>12, <2>2 DEF Learn, Answer, rowVars
<1>13. ASSUME NEW r \in Requests, ConfirmNotify(r) PROVE Remembered'
  <2>1. Did({"charge"}) => Took({"charge", "capture"})
    BY DEF Did, Took, Performed, Taken
  <2>2. Did({"charge"}) => Backed("SETTLEMENT_SUBMITTED")
    BY <2>1, NoneAssumption DEF Backed
  <2>3. Did({"charge"}) => Backed("SETTLEMENT_SUBMITTED")'
    BY <2>2, BackedStays
  <2> QED
    BY <1>13, <2>3 DEF ConfirmNotify, Leave
<1>14. ASSUME NEW n \in notes, Deliver(n) PROVE Remembered'
  BY <1>14 DEF Deliver, Write
<1>15. ASSUME NEW r \in Requests, Provider(r) PROVE Remembered'
  BY <1>15 DEF Provider, Take, Perform, Reject, rowVars
<1>16. ASSUME status' = status, read' = read, ans' = ans PROVE Remembered'
  <2>1. \A q \in Requests : Backed(read[q])' /\ Backed(ans[q])'
    BY <1>16
  <2>2. Backed(status)'
    BY <1>16
  <2> QED
    BY <2>1, <2>2
<1> HIDE <1>2, <1>3, <1>4, <1>5 DEF Claims, Remembered
<1>17. ASSUME Settle \/ Expire \/ Review \/ UNCHANGED vars PROVE Remembered'
  BY <1>16, <1>17 DEF Settle, Expire, Review, rowVars, vars
<1>18. ASSUME NEW r \in Requests, Request(r) PROVE Remembered'
  BY <1>6, <1>7, <1>8, <1>9, <1>10, <1>18 DEF Request
<1>19. ASSUME NEW r \in Requests, Watch(r) PROVE Remembered'
  BY <1>11, <1>12, <1>13, <1>19 DEF Watch
<1>20. Remembered'
  BY <1>14, <1>15, <1>17, <1>18, <1>19 DEF Next
<1> QED
  BY <1>20, NotesBacked DEF Memories

------------------------------------------------------------------------------
(* The invariant holds. *)
LEMMA Invariant == Spec => []IInv
<1>1. IInv /\ [Next]_vars => IInv'
  <2> SUFFICES ASSUME IInv, [Next]_vars PROVE IInv'
    OBVIOUS
  <2>1. Grows
    BY NextGrows
  <2> QED
    BY <2>1, NextTyped, NextOrderly, NextHolds, NextCapturing, NextMemories DEF IInv
<1> QED
  BY <1>1, InitIInv, PTL DEF Spec

(* Every state of the payment service, of its requests and of the provider is
   typed: whatever is read is there, whatever is answered is a status. *)
THEOREM PaymentTyped == Spec => []TypeOK
<1>1. IInv => TypeOK
  BY DEF IInv
<1> QED
  BY <1>1, Invariant, PTL

(* The status of the row claims only what the provider has accepted or done,
   whichever adapter it goes through and whoever wrote it last, but for a
   reversal that was declined and overruled. *)
THEOREM StatusIsBacked == Spec => []StatusBacked
<1>1. IInv => StatusBacked
  BY DEF IInv, Memories, Remembered, Backed, StatusBacked, Event
<1> QED
  BY <1>1, Invariant, PTL

(* The provider is asked to capture only a payment it has authorized. *)
THEOREM CaptureIsBacked == Spec => []CaptureBacked
<1>1. IInv => CaptureBacked
  BY DEF IInv, Capturing, CaptureBacked
<1> QED
  BY <1>1, Invariant, PTL

------------------------------------------------------------------------------
(* A step of the payment service is one of the ledger's. *)
LEMMA NextLedger ==
  ASSUME IInv, [Next]_vars
  PROVE  [Ledger!Next]_(Ledger!vars)
<1>1. /\ op \in [Requests -> Ops] /\ op' = op /\ pc \in [Requests -> Places]
      /\ asked \in [Requests -> Calls] /\ None \notin Requests
      /\ ans \in [Requests -> Statuses \cup {None}]
  BY NextGrows, NoneAssumption DEF IInv, TypeOK, Grows
<1>2. ASSUME Intended' = Intended, Taken' = Taken, Performed' = Performed, Recorded' = Recorded
      PROVE  [Ledger!Next]_(Ledger!vars)
  BY <1>2 DEF Ledger!vars
<1>3. ASSUME log' = log, tracked' = tracked, asked' = asked
      PROVE  [Ledger!Next]_(Ledger!vars)
  BY <1>1, <1>2, <1>3 DEF Intended, Recorded, Performed, Taken
<1>4. ASSUME NEW r \in Requests \cup {None}, NEW s, Write(r, s)
      PROVE  Intended' = Intended \/ (r \in Requests /\ Intended' = Intended \cup {r})
  BY <1>1, <1>4 DEF Write, Intended
<1>5. ASSUME asked' = asked PROVE Taken' = Taken /\ Performed' = Performed
  BY <1>5 DEF Taken, Performed
<1>6. ASSUME tracked' = tracked PROVE Recorded' = Recorded
  BY <1>1, <1>6 DEF Recorded
<1>7. ASSUME NEW r \in Requests \cup {None}, NEW s, Write(r, s),
             asked' = asked, tracked' = tracked
      PROVE  [Ledger!Next]_(Ledger!vars)
  <2>1. Taken' = Taken /\ Performed' = Performed /\ Recorded' = Recorded
    BY <1>5, <1>6, <1>7
  <2> QED
    BY <1>2, <1>4, <1>7, <2>1 DEF Ledger!Next, Ledger!Intend
<1>8. ASSUME NEW r \in Requests, Create(r) \/ Announce(r) \/ Decline(r) \/ WriteBack(r)
      PROVE  [Ledger!Next]_(Ledger!vars)
  BY <1>7, <1>8 DEF Create, Announce, Decline, WriteBack, providerVars
<1>9. ASSUME NEW r \in Requests, Report(r) PROVE [Ledger!Next]_(Ledger!vars)
  BY <1>3, <1>7, <1>9 DEF Report, providerVars
<1>10. ASSUME NEW n \in notes, Deliver(n) PROVE [Ledger!Next]_(Ledger!vars)
  BY <1>7, <1>10 DEF Deliver, providerVars
<1>11. ASSUME NEW r \in Requests, Succeed(r) PROVE [Ledger!Next]_(Ledger!vars)
  <2>1. /\ Write(r, ans[r]) /\ asked' = asked
        /\ tracked' = tracked \cup {[by |-> r, status |-> ans[r]]}
        /\ asked[r] # "no" /\ (ans[r] \in {"UNCONFIRMED", Created(op[r])} \/ r \in Taken)
    BY <1>11 DEF Succeed, providerVars, IInv, Answered
  <2>2. Taken' = Taken /\ Performed' = Performed
    BY <1>5, <2>1
  <2>3. r \in Intended
    BY <2>1 DEF IInv, Announced, Intended, Event
  <2>4. Intended' = Intended
    BY <1>4, <2>1, <2>3
  <2>5. Recorded' = Recorded \/ Recorded' = Recorded \cup {r}
    BY <1>1, <2>1 DEF Recorded
  <2>6. CASE Recorded' = Recorded
    BY <1>2, <2>2, <2>4, <2>6
  <2>7. CASE Recorded' # Recorded
    <3>1. ans[r] \notin {"UNCONFIRMED", Created(op[r])}
      BY <1>1, <2>1, <2>7 DEF Recorded
    <3>2. r \in Taken \ Recorded /\ Recorded' = Recorded \cup {r}
      BY <2>1, <2>5, <2>7, <3>1
    <3> QED
      BY <2>2, <2>4, <3>2 DEF Ledger!Next, Ledger!Record
  <2> QED
    BY <2>6, <2>7
<1>12. ASSUME NEW r \in Requests, Overrule(r) PROVE [Ledger!Next]_(Ledger!vars)
  <2>1. /\ op[r] = "reverse" /\ Write(r, "REVERSED") /\ asked' = asked
        /\ tracked' = tracked \cup {[by |-> r, status |-> "REVERSED"]}
    BY <1>12 DEF Overrule, IInv, Overruled, providerVars
  <2>2. Taken' = Taken /\ Performed' = Performed /\ Recorded' = Recorded
    BY <1>1, <1>5, <2>1 DEF Recorded
  <2> QED
    BY <1>2, <1>4, <2>1, <2>2 DEF Ledger!Next, Ledger!Intend
<1>13. ASSUME NEW r \in Requests, Send(r) PROVE [Ledger!Next]_(Ledger!vars)
  <2>1. /\ asked[r] = "no" /\ log' = log /\ tracked' = tracked
        /\ \A q \in Requests : asked'[q] = asked[q] \/ (asked[q] = "no" /\ asked'[q] = "sent")
    BY <1>1, <1>13 DEF Send, rowVars, IInv, Unasked
  <2>2. Taken' = Taken /\ Performed' = Performed
    BY <2>1 DEF Taken, Performed
  <2>3. Intended' = Intended /\ Recorded' = Recorded
    BY <1>1, <1>6, <2>1 DEF Intended
  <2> QED
    BY <1>2, <2>2, <2>3
<1>14. ASSUME NEW r \in Requests, Provider(r) PROVE [Ledger!Next]_(Ledger!vars)
  <2>1. log' = log /\ tracked' = tracked
    BY <1>14 DEF Provider, Take, Perform, Reject, rowVars
  <2>2. Intended' = Intended /\ Recorded' = Recorded
    BY <1>1, <1>6, <2>1 DEF Intended
  <2>3. asked[r] # "no"
    BY <1>14 DEF Provider, Take, Perform, Reject
  <2>4. r \in Intended
    BY <2>3 DEF IInv, Announced, Intended, Event
  <2>5. CASE Take(r)
    <3>1. r \notin Taken /\ Taken' = Taken \cup {r} /\ Performed' = Performed
      BY <1>1, <2>5 DEF Take, Taken, Performed
    <3> QED
      BY <2>2, <2>4, <3>1 DEF Ledger!Next, Ledger!Accept
  <2>6. CASE Perform(r)
    <3>1. asked[r] # "done" /\ asked' = [asked EXCEPT ![r] = "done"]
      BY <2>6 DEF Perform
    <3>2. r \notin Performed /\ Taken' = Taken \cup {r} /\ Performed' = Performed \cup {r}
      BY <1>1, <3>1 DEF Taken, Performed
    <3> QED
      BY <2>2, <2>4, <3>2 DEF Ledger!Next, Ledger!Perform
  <2>7. CASE Reject(r)
    <3>1. Taken' = Taken /\ Performed' = Performed
      BY <1>1, <2>7 DEF Reject, Taken, Performed
    <3> QED
      BY <1>2, <2>2, <3>1
  <2> QED
    BY <1>14, <2>5, <2>6, <2>7 DEF Provider
<1>15. ASSUME NEW r \in Requests,
              \/ Read(r) \/ Refuse(r) \/ Receive(r) \/ Redirect(r) \/ Unacknowledged(r)
              \/ NoAnswer(r) \/ Fail(r) \/ Restore(r) \/ Crash(r)
       PROVE  [Ledger!Next]_(Ledger!vars)
  BY <1>3, <1>15 DEF Read, Refuse, Receive, Redirect, Unacknowledged, NoAnswer, Fail,
                     Restore, Crash, rowVars, providerVars
<1>16. ASSUME NEW r \in Requests,
              Look(r) \/ Learn(r) \/ LearnNothing(r) \/ Return(r) \/ ConfirmNotify(r)
       PROVE  [Ledger!Next]_(Ledger!vars)
  BY <1>3, <1>16 DEF Look, Learn, LearnNothing, Return, ConfirmNotify, rowVars, providerVars
<1>17. CASE Settle \/ Expire \/ Review \/ UNCHANGED vars
  BY <1>3, <1>17 DEF Settle, Expire, Review, vars, rowVars
<1>18. ASSUME NEW r \in Requests, Request(r) PROVE [Ledger!Next]_(Ledger!vars)
  BY <1>8, <1>11, <1>12, <1>13, <1>15, <1>18 DEF Request
<1>19. ASSUME NEW r \in Requests, Watch(r) PROVE [Ledger!Next]_(Ledger!vars)
  BY <1>8, <1>9, <1>16, <1>19 DEF Watch
<1> QED
  BY <1>10, <1>14, <1>17, <1>18, <1>19 DEF Next

(* The payment service keeps the promise of the ledger: the provider accepts and
   carries out only what a committed event announced, and nothing is kept as a
   success that it has not accepted, whatever crashes, is lost or comes late. *)
THEOREM ImplementsLedger == Spec => IsLedger
<1>1. Init => Ledger!Init
  BY DEF Init, Ledger!Init, Intended, Taken, Performed, Recorded
<1> QED
  BY <1>1, Invariant, NextLedger, PTL DEF Spec, IsLedger, Ledger!Spec

(* What the ledger promises, and hence the service, of what is done and of what is
   answered for. *)
AnsweredFor ==
  Recorded \subseteq Taken /\ Performed \subseteq Taken /\ Taken \subseteq Intended

(* The provider takes only what a committed event announced, and only of what it
   has taken does the service keep a success: through the refinement. *)
THEOREM OnlyAnnouncedIsTaken == Spec => []AnsweredFor
<1>1. Ledger!Init => AnsweredFor
  BY DEF Ledger!Init, AnsweredFor
<1>2. AnsweredFor /\ [Ledger!Next]_(Ledger!vars) => AnsweredFor'
  BY DEF AnsweredFor, Ledger!vars, Ledger!Next, Ledger!Intend, Ledger!Accept,
         Ledger!Perform, Ledger!Record
<1> QED
  BY <1>1, <1>2, ImplementsLedger, PTL DEF IsLedger, Ledger!Spec

------------------------------------------------------------------------------
(* AuditTrail, of any status: it was said in an event, and a word of an
   operation's own is that operation's, or tells of a failure. *)
Said(s) ==
  \/ s = None \/ \E e \in log : e.status = s
  \/ adapter = "adyen" /\ s \in {"SETTLEMENT_SUBMITTED", "UNCONFIRMED"}
Meant(s) ==
  s \in OwnWords =>
    \/ Failed(s)
    \/ \E r \in Requests : Event(r, s) \in log /\ op[r] \in Moves /\ s \in Own(op[r])

(* The row, and what a request has read of it, is trailed; what the provider
   answers or notifies is no word of the service's own but of a failure; a
   request that calls the provider moves the payment. *)
TrailInv ==
  /\ Said(status) /\ Meant(status)
  /\ \A n \in notes : n \in OwnWords => Failed(n)
  /\ \A r \in Requests :
       /\ Said(read[r]) /\ Meant(read[r])
       /\ ans[r] \in OwnWords =>
            Failed(ans[r]) \/ (op[r] \in Moves /\ ans[r] \in Own(op[r]))
       /\ pc[r] \in {"announce", "send", "wait", "failed"} => op[r] \in Moves

(* The service's own words are no answers to an operation, no word of the provider
   but for a failure, and no reversal. *)
LEMMA OwnWordsApart ==
  /\ None \notin OwnWords
  /\ \A s \in {"UNCONFIRMED", "REVERSED", "REFUNDED", "AUTHORIZED", "SETTLEMENT_SUBMITTED",
               "SETTLING", "SETTLED", "RISK_PENDING", "RISK_ASYNC_REJECT", "UNRECOGNIZED"} :
       s \notin OwnWords
  /\ \A o \in Moves : {Created(o), Declined(o)} \subseteq Own(o) /\ Own(o) \subseteq OwnWords
<1>1. OwnWords \subseteq {"AUTH_CREATED", "SETTLEMENT_SUBMIT_CREATED", "SETTLE_CREATED",
                          "REVERSE_CREATED", "REFUND_CREATED", "CREDIT_CREATED",
                          "AUTH_DECLINED", "SETTLEMENT_SUBMIT_DECLINED", "SETTLE_DECLINED",
                          "REVERSE_DECLINED", "REFUND_DECLINED", "CREDIT_DECLINED"}
  BY DEF OwnWords, Own, Moves, Makes, Changes, Created, Declined
<1>2. OwnWords \subseteq Statuses
  BY <1>1 DEF Statuses
<1>3. None \notin OwnWords
  BY <1>2, NoneAssumption
<1>4. \A o \in Moves : {Created(o), Declined(o)} \subseteq Own(o) /\ Own(o) \subseteq OwnWords
  BY DEF Own, OwnWords
<1> QED
  BY <1>1, <1>3, <1>4

(* Nor does an adapter answer with one. *)
LEMMA ResultsApart ==
  ASSUME NEW r \in Requests, op[r] \in Moves, NEW s \in Results(r)
  PROVE  s \notin OwnWords
<1>1. s \in {"RISK_PENDING", "SETTLED", "SETTLEMENT_SUBMITTED", "AUTHORIZED", Accepted(op[r])}
  BY DEF Results
<1>2. Accepted(op[r]) \in {"AUTHORIZED", "SETTLEMENT_SUBMITTED", "REVERSED", "REFUNDED", "SETTLED"}
  BY DEF Accepted
<1> QED
  BY <1>1, <1>2, OwnWordsApart

(* A trail is not lost: events are kept, and failures are for good. *)
LEMMA TrailStays ==
  ASSUME Grows, NEW s
  PROVE  /\ Said(s) => Said(s)'
         /\ Failed(s) => Failed(s)'
         /\ Meant(s) => Meant(s)'
<1>1. adapter' = adapter /\ op' = op /\ log \subseteq log'
      /\ (held = "FAILED" => held' = "FAILED")
      /\ \A r \in Requests : asked[r] = "failed" => asked'[r] = "failed"
  BY DEF Grows
<1>2. Said(s) => Said(s)'
  BY <1>1 DEF Said
<1>3. Failed(s) => Failed(s)'
  BY <1>1 DEF Failed
<1>4. Meant(s) => Meant(s)'
  BY <1>1, <1>3 DEF Meant, Event
<1> QED
  BY <1>2, <1>3, <1>4

(* A status written with its event is trailed, unless it is the word of another
   operation that has not failed. *)
LEMMA WriteTrailed ==
  ASSUME Grows, NEW r \in Requests \cup {None}, NEW s, Write(r, s),
         \/ Meant(s)
         \/ Failed(s)
         \/ s \notin OwnWords
         \/ r \in Requests /\ op[r] \in Moves /\ s \in Own(op[r])
  PROVE  (Said(status) /\ Meant(status))'
<1>1. status' = s /\ op' = op /\ Event(r, s) \in log'
  BY DEF Write, Grows, Event
<1>2. Said(s)'
  BY <1>1 DEF Said, Event
<1>3. Meant(s)'
  <2>1. CASE Meant(s)
    BY <2>1, TrailStays
  <2>2. CASE Failed(s) \/ s \notin OwnWords
    BY <2>2, TrailStays DEF Meant
  <2>3. CASE r \in Requests /\ op[r] \in Moves /\ s \in Own(op[r])
    BY <1>1, <2>3 DEF Meant
  <2> QED
    BY <2>1, <2>2, <2>3
<1>4. \A t : t = s => Said(t)' /\ Meant(t)'
  BY <1>2, <1>3
<1> QED
  BY <1>1, <1>4

(* What the provider notifies in the service's words is a failure. *)
LEMMA NotesFailed ==
  ASSUME IInv, TrailInv, Grows, [Next]_vars
  PROVE  \A n \in notes' : n \in OwnWords => Failed(n)'
<1>1. ASSUME NEW n \in notes, n \in OwnWords PROVE Failed(n)'
  BY <1>1, TrailStays DEF TrailInv
<1>2. asked \in [Requests -> Calls] /\ op' = op
  BY DEF IInv, TypeOK, Grows
<1>3. \A o : Noted(o) \cap OwnWords = {}
  BY OwnWordsApart DEF Noted
<1>4. ASSUME NEW r \in Requests, Request(r) \/ Watch(r) PROVE notes' = notes
  BY <1>4 DEF Request, Create, Read, Refuse, Announce, Send, Receive, Redirect,
              Unacknowledged, NoAnswer, Fail, Succeed, Decline, Overrule, Restore, Crash,
              Watch, Look, Learn, LearnNothing, Report, Return, WriteBack, ConfirmNotify,
              providerVars
<1>5. ASSUME NEW r \in Requests, Take(r) \/ Perform(r) PROVE \A n \in notes' \ notes : n \notin OwnWords
  BY <1>3, <1>5 DEF Take, Perform
<1>6. ASSUME NEW r \in Requests, Reject(r), NEW n \in notes' \ notes PROVE Failed(n)'
  <2>1. asked'[r] = "failed" /\ n \in NotedFailed(op[r])
    BY <1>2, <1>6 DEF Reject
  <2> QED
    BY <1>2, <2>1 DEF Failed
<1>7. ASSUME Settle, NEW n \in notes' \ notes PROVE n \notin OwnWords \/ Failed(n)'
  <2>1. n = "SETTLED" \/ (held' = "FAILED" /\ n = "SETTLE_DECLINED")
    BY <1>7 DEF Settle
  <2> QED
    BY <2>1, OwnWordsApart DEF Failed
<1>8. ASSUME Review PROVE \A n \in notes' \ notes : n \notin OwnWords
  BY <1>8, OwnWordsApart DEF Review
<1>9. CASE (\E n \in notes : Deliver(n)) \/ Expire \/ UNCHANGED vars
  BY <1>1, <1>9 DEF Deliver, Expire, vars, providerVars
<1>10. ASSUME NEW r \in Requests, Provider(r) PROVE \A n \in notes' : n \in OwnWords => Failed(n)'
  BY <1>1, <1>5, <1>6, <1>10 DEF Provider
<1> QED
  BY <1>1, <1>4, <1>7, <1>8, <1>9, <1>10 DEF Next

(* Every step leaves the row with a trail. *)
LEMMA RowTrailed ==
  ASSUME IInv, TrailInv, Grows, [Next]_vars
  PROVE  (Said(status) /\ Meant(status))'
<1>1. /\ op \in [Requests -> Ops] /\ None \notin Requests /\ adapter' = adapter
      /\ \A r \in Requests :
           pc[r] \in {"announce", "send", "wait", "failed"} => op[r] \in Moves
  BY NoneAssumption DEF IInv, TypeOK, TrailInv, Grows
<1>2. /\ Said(status) /\ Meant(status)
      /\ \A r \in Requests : Said(read[r]) /\ Meant(read[r])
  BY DEF TrailInv
<1>3. ASSUME NEW s, status' = s, Said(s), Meant(s) PROVE (Said(status) /\ Meant(status))'
  <2>1. Said(s)' /\ Meant(s)'
    BY <1>3, TrailStays
  <2>2. \A t : t = s => Said(t)' /\ Meant(t)'
    BY <2>1
  <2> QED
    BY <1>3, <2>2
<1>4. ASSUME NEW r \in Requests, Create(r) \/ Announce(r) \/ Decline(r)
      PROVE  (Said(status) /\ Meant(status))'
  <2>1. op[r] \in Moves
    BY <1>1, <1>4 DEF Create, Announce, Decline, Moves
  <2>2. \E s \in Own(op[r]) : Write(r, s)
    BY <1>4, <2>1, OwnWordsApart DEF Create, Announce, Decline
  <2> QED
    BY <2>1, <2>2, WriteTrailed
<1>5. ASSUME NEW r \in Requests, Succeed(r) PROVE (Said(status) /\ Meant(status))'
  <2>1. /\ Write(r, ans[r])
        /\ ans[r] \in OwnWords => Failed(ans[r]) \/ (op[r] \in Moves /\ ans[r] \in Own(op[r]))
    BY <1>5 DEF Succeed, TrailInv
  <2> QED
    BY <2>1, WriteTrailed
<1>6. ASSUME NEW r \in Requests, Overrule(r) PROVE (Said(status) /\ Meant(status))'
  BY <1>6, WriteTrailed, OwnWordsApart DEF Overrule
<1>7. ASSUME NEW r \in Requests, WriteBack(r) PROVE (Said(status) /\ Meant(status))'
  BY <1>2, <1>7, WriteTrailed DEF WriteBack
<1>8. ASSUME NEW r \in Requests, Restore(r) PROVE (Said(status) /\ Meant(status))'
  BY <1>2, <1>3, <1>8 DEF Restore
<1>9. ASSUME NEW r \in Requests, Report(r) PROVE (Said(status) /\ Meant(status))'
  <2>1. /\ status' = status \/ Write(r, ans[r])
        /\ ans[r] \in OwnWords => Failed(ans[r]) \/ (op[r] \in Moves /\ ans[r] \in Own(op[r]))
    BY <1>9 DEF Report, TrailInv
  <2> QED
    BY <1>2, <1>3, <2>1, WriteTrailed
<1>10. ASSUME NEW r \in Requests, ConfirmNotify(r) PROVE (Said(status) /\ Meant(status))'
  <2>1. \/ status' = status
        \/ adapter = "adyen" /\ status' \in {"SETTLEMENT_SUBMITTED", "UNCONFIRMED"}
    BY <1>10 DEF ConfirmNotify
  <2>2. ASSUME adapter = "adyen", NEW s \in {"SETTLEMENT_SUBMITTED", "UNCONFIRMED"}
        PROVE  Said(s) /\ Meant(s)
    BY <2>2, OwnWordsApart DEF Said, Meant
  <2> QED
    BY <1>2, <1>3, <2>1, <2>2
<1>11. ASSUME NEW n \in notes, Deliver(n) PROVE (Said(status) /\ Meant(status))'
  <2>1. Write(None, n) /\ (n \in OwnWords => Failed(n))
    BY <1>11 DEF Deliver, TrailInv
  <2> QED
    BY <2>1, WriteTrailed
<1>12. ASSUME status' = status PROVE (Said(status) /\ Meant(status))'
  BY <1>2, <1>3, <1>12
<1>13. ASSUME NEW r \in Requests,
              \/ Read(r) \/ Refuse(r) \/ Send(r) \/ Receive(r) \/ Redirect(r)
              \/ Unacknowledged(r) \/ NoAnswer(r) \/ Fail(r) \/ Crash(r) \/ Look(r)
              \/ Learn(r) \/ LearnNothing(r) \/ Return(r) \/ Provider(r)
       PROVE  (Said(status) /\ Meant(status))'
  BY <1>12, <1>13 DEF Read, Refuse, Send, Receive, Redirect, Unacknowledged, NoAnswer, Fail,
                      Crash, Look, Learn, LearnNothing, Return, Provider, Take, Perform,
                      Reject, rowVars
<1>14. CASE Settle \/ Expire \/ Review \/ UNCHANGED vars
  BY <1>12, <1>14 DEF Settle, Expire, Review, vars, rowVars
<1>15. ASSUME NEW r \in Requests, Request(r) PROVE (Said(status) /\ Meant(status))'
  BY <1>4, <1>5, <1>6, <1>8, <1>13, <1>15 DEF Request
<1>16. ASSUME NEW r \in Requests, Watch(r) PROVE (Said(status) /\ Meant(status))'
  BY <1>7, <1>9, <1>10, <1>13, <1>16 DEF Watch
<1> QED
  BY <1>11, <1>13, <1>14, <1>15, <1>16 DEF Next

(* What a request reads and hears, and which requests call the provider. *)
LEMMA RequestsTrailed ==
  ASSUME IInv, TrailInv, Grows, [Next]_vars, NEW r \in Requests
  PROVE  /\ read'[r] \in {read[r], status, None}
         /\ \/ ans'[r] = ans[r] \/ ans'[r] \notin OwnWords \/ Failed(ans'[r])
            \/ op[r] \in Moves /\ ans'[r] \in Own(op[r])
         /\ pc'[r] \in {"announce", "send", "wait", "failed"} => op[r] \in Moves
<1> DEFINE Calling == {"announce", "send", "wait", "failed"}
           Trails == /\ read'[r] \in {read[r], status, None}
                     /\ \/ ans'[r] = ans[r] \/ ans'[r] \notin OwnWords \/ Failed(ans'[r])
                        \/ op[r] \in Moves /\ ans'[r] \in Own(op[r])
                     /\ pc'[r] \in Calling => op[r] \in Moves
<1>1. /\ op \in [Requests -> Ops] /\ pc \in [Requests -> Places]
      /\ read \in [Requests -> Statuses \cup {None}]
      /\ ans \in [Requests -> Statuses \cup {None}]
      /\ \A q \in Requests : pc[q] \in Calling => op[q] \in Moves
  BY DEF IInv, TypeOK, TrailInv
<1>2. ASSUME NEW q \in Requests, Create(q) \/ Announce(q) \/ Send(q) \/ Fail(q) PROVE Trails
  BY <1>1, <1>2 DEF Create, Announce, Send, Fail, Goto, Moves
<1>3. ASSUME NEW q \in Requests, Read(q) \/ Look(q) \/ Return(q) PROVE Trails
  BY <1>1, <1>3 DEF Read, Look, Return, Goto, Moves
<1>4. ASSUME NEW q \in Requests, NEW p \in Places \ Calling, Leave(q, p) PROVE Trails
  BY <1>1, <1>4, OwnWordsApart DEF Leave, Goto
<1>5. ASSUME NEW q \in Requests,
             \/ Refuse(q) \/ NoAnswer(q) \/ Succeed(q) \/ Decline(q) \/ Overrule(q)
             \/ Restore(q) \/ Crash(q) \/ LearnNothing(q) \/ Report(q) \/ ConfirmNotify(q)
      PROVE  Trails
  BY <1>4, <1>5 DEF Refuse, NoAnswer, Succeed, Decline, Overrule, Restore, Crash,
                    LearnNothing, Report, ConfirmNotify, Places
<1>6. ASSUME NEW q \in Requests, NEW p \in Places \ Calling, NEW s,
             \/ s \notin OwnWords \/ Failed(s)
             \/ op[q] \in Moves /\ s \in Own(op[q]),
             Answer(q, s), Goto(q, p), read' = read
      PROVE  Trails
  BY <1>1, <1>6 DEF Answer, Goto
<1>7. ASSUME NEW q \in Requests, Receive(q) PROVE Trails
  <2>1. op[q] \in Moves /\ \A s \in Results(q) : s \notin OwnWords
    BY <1>1, <1>7, ResultsApart DEF Receive
  <2> QED
    BY <1>6, <1>7, <2>1 DEF Receive, Places
<1>8. ASSUME NEW q \in Requests, Redirect(q) \/ Unacknowledged(q) PROVE Trails
  <2>1. /\ op[q] \in Moves /\ Goto(q, "answered") /\ read' = read
        /\ Answer(q, "UNCONFIRMED") \/ Answer(q, Created(op[q]))
    BY <1>1, <1>8 DEF Redirect, Unacknowledged
  <2>2. "UNCONFIRMED" \notin OwnWords /\ Created(op[q]) \in Own(op[q]) /\ "answered" \in Places \ Calling
    BY <2>1, OwnWordsApart DEF Places
  <2> QED
    BY <1>6, <2>1, <2>2
<1>9. ASSUME NEW q \in Requests, Learn(q) PROVE Trails
  <2>1. Told(adapter, held) \in {"AUTH_DECLINED", "SETTLE_DECLINED"} => held = "FAILED"
    BY ToldBacked DEF IInv
  <2>2. Told(adapter, held) \notin OwnWords \/ Failed(Told(adapter, held))
    BY <2>1, ToldBacked, OwnWordsApart DEF IInv, Failed
  <2> QED
    BY <1>6, <1>9, <2>2 DEF Learn, Places
<1>10. ASSUME NEW q \in Requests, WriteBack(q) PROVE Trails
  BY <1>1, <1>10 DEF WriteBack, Goto
<1>11. ASSUME UNCHANGED <<pc, read, ans>> PROVE Trails
  BY <1>1, <1>11
<1>12. ASSUME (\E n \in notes : Deliver(n)) \/ Settle \/ Expire \/ Review \/ UNCHANGED vars
       PROVE  UNCHANGED <<pc, read, ans>>
  BY <1>12 DEF Deliver, Settle, Expire, Review, vars
<1>13. ASSUME NEW q \in Requests, Provider(q) PROVE UNCHANGED <<pc, read, ans>>
  BY <1>13 DEF Provider, Take, Perform, Reject
<1>14. ASSUME NEW q \in Requests, Request(q) \/ Watch(q) PROVE Trails
  BY <1>2, <1>3, <1>5, <1>7, <1>8, <1>9, <1>10, <1>14 DEF Request, Watch
<1> QED
  BY <1>11, <1>12, <1>13, <1>14 DEF Next

(* Every step leaves a trail. *)
LEMMA NextTrail ==
  ASSUME IInv, TrailInv, Grows, [Next]_vars
  PROVE  TrailInv'
<1>1. ASSUME NEW r \in Requests PROVE (Said(read[r]) /\ Meant(read[r]))'
  <2>1. Said(read'[r]) /\ Meant(read'[r])
    BY RequestsTrailed, OwnWordsApart DEF TrailInv, Said, Meant
  <2>2. \A s : Said(s) /\ Meant(s) => Said(s)' /\ Meant(s)'
    BY TrailStays
  <2> QED
    BY <2>1, <2>2
<1>2. ASSUME NEW r \in Requests
      PROVE  (ans[r] \in OwnWords =>
                Failed(ans[r]) \/ (op[r] \in Moves /\ ans[r] \in Own(op[r])))'
  <2>1. /\ ans'[r] \in OwnWords =>
             Failed(ans'[r]) \/ (op[r] \in Moves /\ ans'[r] \in Own(op[r]))
        /\ op' = op
    BY RequestsTrailed DEF TrailInv, Grows
  <2>2. \A s : Failed(s) => Failed(s)'
    BY TrailStays
  <2> QED
    BY <2>1, <2>2 DEF OwnWords, Own
<1>3. ASSUME NEW r \in Requests
      PROVE  (pc[r] \in {"announce", "send", "wait", "failed"} => op[r] \in Moves)'
  BY RequestsTrailed DEF Grows
<1> QED
  BY <1>1, <1>2, <1>3, RowTrailed, NotesFailed DEF TrailInv

(* Whatever the row says has been written with an event that says it, but for what
   Adyen's callback writes; and of every operation it says is under way or was
   refused there is an event of a request of that operation, or the provider has
   failed it: although statuses are written back and restored from copies that
   are out of date. *)
THEOREM TrailIsKept == Spec => []AuditTrail
<1>1. Init => TrailInv
  <2>1. Init => /\ status = None /\ pc = [r \in Requests |-> "new"] /\ notes = {}
                /\ read = [r \in Requests |-> None] /\ ans = [r \in Requests |-> None]
    BY DEF Init
  <2> QED
    BY <2>1, OwnWordsApart DEF TrailInv, Said, Meant
<1>2. IInv /\ TrailInv /\ [Next]_vars => TrailInv'
  BY NextGrows, NextTrail
<1>3. TrailInv => AuditTrail
  BY DEF TrailInv, Said, Meant, AuditTrail, Event
<1> QED
  BY <1>1, <1>2, <1>3, Invariant, PTL DEF Spec
==============================================================================
