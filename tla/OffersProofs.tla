----------------------------- MODULE OffersProofs -----------------------------
(***************************************************************************)
(* What holds of an offer for any number of users and revisions, however   *)
(* long they go on.                                                        *)
(*                                                                         *)
(* The argument: each write of a document raises its tag, and a write is   *)
(* taken only with the tag of the document it was made from.  So what a    *)
(* request is about to write was made from the document as it is now, or   *)
(* will not be taken.                                                      *)
(***************************************************************************)
EXTENDS Offers, TLAPS, WellFoundedInduction

Pending == {"offer", "put", "write", "finish"}

(* What the checks on a request leave. *)
AcceptedBy(u) == req[u].pc \in Pending =>
  /\ req[u].at \in Times /\ req[u].doc.status \in Statuses
  /\ req[u].doc.status = "APPROVED" => req[u].doc.start \in Times /\ req[u].pc # "write"
  /\ req[u].pc # "write" =>
       \/ req[u].doc.status = "APPROVED"
       \/ req[u].doc.status = "OBSOLETE" /\ req[u].doc.end = req[u].at
Accepted == \A u \in Users : AcceptedBy(u)

TagsGrowBy(u) ==
  /\ req[u].pc \in Pending => req[u].doc.tag <= rev[req[u].rev].tag
  /\ req[u].pc = "put" => req[u].copy.tag <= offer.tag
TagsGrow == \A u \in Users : TagsGrowBy(u)

(* The document a request is about to write was made from the one that is
   stored, unless that has changed since. *)
BasedBy(u) ==
  LET r == req[u].rev
      d == req[u].doc
  IN  req[u].pc \in Pending /\ d.tag = rev[r].tag =>
        /\ rev[r].status \notin {"NONE", "DELETED"}
        /\ Permitted(rev[r].status, d.status)
        /\ d.status = "OBSOLETE" =>
             /\ d.start = rev[r].start
             /\ rev[r].end # NoDate => d.end <= rev[r].end
             /\ req[u].pc = "write" => d.end = rev[r].end
Based == \A u \in Users : BasedBy(u)

Listed(o) == {e.rev : e \in o.approved}

(* The offer as an approval or an obsoletion makes it. *)
Made(o, copy, r, d, t) ==
  \/ d.status = "APPROVED" /\ copy = Approved(o, r, d, t)
  \/ /\ d.status = "OBSOLETE"
     /\ \E c \in Listed(o) \cup {None} : copy = Obsoleted(o, c, r, t)

CopyBasedBy(u) ==
  req[u].pc = "put" /\ req[u].copy.tag = offer.tag =>
    Made(offer, req[u].copy, req[u].rev, req[u].doc, req[u].at)
CopyBased == \A u \in Users : CopyBasedBy(u)

(* Between its two writes a request has listed the dates it is about to give
   the revision. *)
Alone(u) == /\ req[u].rev \notin torn
            /\ \A v \in Users \ {u} : req[v].pc = "finish" => req[v].rev # req[u].rev
FinishingBy(u) ==
  req[u].pc = "finish" /\ req[u].doc.tag = rev[req[u].rev].tag /\ Alone(u) =>
    \A e \in offer.approved :
      e.rev = req[u].rev => e = Entry(req[u].rev, req[u].doc, e.at)
Finishing == \A u \in Users : FinishingBy(u)

(* A revision that is not there has never been written. *)
Blank == \A r \in Revisions : rev[r].status = "NONE" => rev[r].tag = 0

IInv == /\ TypeOK /\ Accepted /\ TagsGrow /\ Based /\ CopyBased /\ Blank
        /\ DocumentsAgree /\ Finishing

------------------------------------------------------------------------------
(* Typing. *)

LEMMA Bounds ==
  /\ MaxTime \in Nat \ {0} /\ MaxTag \in Nat /\ MaxPuts \in Nat
  /\ Times \subseteq Nat /\ Dates \subseteq Nat /\ NoDate \notin Times /\ NoDate \in Dates
  /\ Forever \in Nat /\ Forever \notin Dates
  /\ \A t \in Times : t < Forever
  /\ NoDoc \in Docs /\ NoOffer \in Offers
BY BoundsAssumption DEF Times, Dates, NoDate, Forever, Docs, NoDoc, Offers, NoOffer

(* The type of the request of one user. *)
Requests ==
  [pc : Places, rev : Revisions \cup {None}, doc : Docs, copy : Offers, at : Dates]

LEMMA IdleTyped == Idle \in Requests
BY Bounds DEF Idle, Requests, Places

LEMMA BecomeTyped ==
  ASSUME TypeOK, NEW u \in Users, NEW q, q \in Requests,
         q.pc # "idle" => q.rev # None, Become(u, q)
  PROVE  /\ req' \in [Users -> Requests]
         /\ \A v \in Users : req'[v].pc # "idle" => req'[v].rev # None
         /\ req'[u] = q /\ \A v \in Users \ {u} : req'[v] = req[v]
BY DEF TypeOK, Become, Requests

LEMMA LeaveTyped ==
  ASSUME TypeOK, NEW u \in Users, Leave(u)
  PROVE  /\ req' \in [Users -> Requests]
         /\ \A v \in Users : req'[v].pc # "idle" => req'[v].rev # None
         /\ req'[u] = Idle /\ \A v \in Users \ {u} : req'[v] = req[v]
<1>1. Idle.pc = "idle"
  BY DEF Idle
<1> QED
  BY <1>1, IdleTyped, BecomeTyped DEF Leave

LEMMA EntryTyped ==
  ASSUME NEW r \in Revisions, NEW d \in Docs, d.start \in Times, NEW t \in Times
  PROVE  /\ Entry(r, d, t) \in Entries
         /\ Entry(r, d, t).rev = r /\ Entry(r, d, t).at = t
         /\ d.end = NoDate => Entry(r, d, t).end = Forever
BY Bounds DEF Entry, Entries, Docs, Dates

LEMMA ApprovedTyped ==
  ASSUME NEW o \in Offers, NEW r \in Revisions, NEW d \in Docs, d.start \in Times,
         NEW t \in Times
  PROVE  /\ Approved(o, r, d, t) \in Offers
         /\ Approved(o, r, d, t).tag = o.tag
BY EntryTyped DEF Approved, Offers, Others

LEMMA ObsoletedTyped ==
  ASSUME NEW o \in Offers, NEW r \in Revisions, NEW c \in Revisions \cup {None},
         NEW t \in Times
  PROVE  /\ Obsoleted(o, c, r, t) \in Offers
         /\ Obsoleted(o, c, r, t).tag = o.tag
<1>1. \A e \in o.approved : [e EXCEPT !.end = t] \in Entries
  BY DEF Offers, Entries
<1> QED
  BY <1>1 DEF Obsoleted, Offers, Others

(* Who is served is a listed revision. *)
LEMMA ResolvedListed ==
  ASSUME NEW o \in Offers, NEW t, o.current # None => o.current \in Listed(o)
  PROVE  Resolved(o, t) \subseteq Listed(o) /\ Listed(o) \subseteq Revisions
BY DEF Resolved, Listed, Latest, Live, Offers, Entries

LEMMA StampedTyped ==
  ASSUME TypeOK, NEW r \in Revisions, NEW d \in Docs, NEW e, e = Stamped(r, d)
  PROVE  /\ e \in Docs
         /\ d.status # "OBSOLETE" => e.status = d.status /\ e.tag = d.tag
         /\ d.status = "OBSOLETE" => /\ e.status = "OBSOLETE" /\ e.tag = rev[r].tag
                                     /\ e.start = rev[r].start
         /\ d.status = "APPROVED" => e.start \in Times
         /\ d.status = "OBSOLETE" =>
              IF rev[r].end = NoDate \/ rev[r].end > now THEN e.end = now
                                                         ELSE e.end = rev[r].end
<1>1. rev[r] \in Docs /\ now \in Times
  BY DEF TypeOK
<1>2. CASE d.status = "APPROVED"
  BY <1>1, <1>2, Bounds DEF Stamped, Docs, Dates, Times, NoDate
<1>3. CASE d.status = "OBSOLETE"
  BY <1>1, <1>3, Bounds DEF Stamped, Docs, Dates
<1>4. CASE d.status # "APPROVED" /\ d.status # "OBSOLETE"
  BY <1>4 DEF Stamped
<1> QED
  BY <1>2, <1>3, <1>4

------------------------------------------------------------------------------
(* What each step of a request does, and what it was entitled to. *)

(* Only the request of u moves, and becomes what it may. *)
Moves(u) ==
  /\ req' \in [Users -> Requests]
  /\ \A v \in Users : req'[v].pc # "idle" => req'[v].rev # None
  /\ \A v \in Users \ {u} : req'[v] = req[v]

LEMMA OpenStep ==
  ASSUME IInv, NEW u \in Users, NEW r \in Revisions, Open(u, r) \/ CheckDelete(u, r)
  PROVE  /\ Moves(u) /\ UNCHANGED <<now, rev, offer, torn>>
         /\ req[u].pc = "idle" /\ req'[u].pc \in {"page", "delete"}
<1> USE Bounds, NoneAssumption DEF IInv
<1>1. rev[r] \in Docs
  BY DEF TypeOK
<1>2. CASE Open(u, r)
  <2> DEFINE q == [Idle EXCEPT !.pc = "page", !.rev = r, !.doc.tag = rev[r].tag]
  <2>1. q \in Requests /\ q.pc = "page" /\ q.rev = r
    BY <1>1, IdleTyped DEF Requests, Places, Docs, Idle, NoDoc
  <2>2. Become(u, q)
    BY <1>2 DEF Open
  <2> HIDE DEF q
  <2> QED
    BY <1>2, <2>1, <2>2, BecomeTyped DEF Open, Moves
<1>3. CASE CheckDelete(u, r)
  <2> DEFINE q == [Idle EXCEPT !.pc = "delete", !.rev = r]
  <2>1. q \in Requests /\ q.pc = "delete" /\ q.rev = r
    BY IdleTyped DEF Requests, Places, Idle
  <2>2. Become(u, q)
    BY <1>3 DEF CheckDelete
  <2> HIDE DEF q
  <2> QED
    BY <1>3, <2>1, <2>2, BecomeTyped DEF CheckDelete, Moves
<1> QED
  BY <1>2, <1>3

LEMMA SubmitStep ==
  ASSUME IInv, NEW u \in Users, Submit(u)
  PROVE  /\ Moves(u) /\ UNCHANGED <<now, rev, offer, torn>>
         /\ req[u].pc = "page" /\ req'[u].pc \in {"offer", "write"}
         /\ AcceptedBy(u)' /\ BasedBy(u)'
         /\ req'[u].doc.tag = rev[req'[u].rev].tag
<1> USE Bounds, NoneAssumption DEF IInv
<1> DEFINE r == req[u].rev
<1>1. /\ req[u] \in Requests /\ req[u].pc = "page" /\ r \in Revisions /\ now \in Times
      /\ rev[r] \in Docs
  BY DEF Submit, TypeOK, Requests
<1>2. PICK f \in Forms :
        LET d == [status |-> f.status, start |-> f.start, end |-> f.end, tag |-> req[u].doc.tag]
        IN  /\ rev[r].status \notin {"NONE", "DELETED"}
            /\ Permitted(rev[r].status, d.status)
            /\ Valid(r, d)
            /\ Become(u, [pc |-> IF TellsOffer(r, d) THEN "offer" ELSE "write",
                          rev |-> r, doc |-> Stamped(r, d), copy |-> NoOffer, at |-> now])
  BY DEF Submit
<1> DEFINE d == [status |-> f.status, start |-> f.start, end |-> f.end, tag |-> req[u].doc.tag]
           e == Stamped(r, d)
           q == [pc |-> IF TellsOffer(r, d) THEN "offer" ELSE "write",
                 rev |-> r, doc |-> e, copy |-> NoOffer, at |-> now]
<1>3. d \in Docs /\ d.status \in Statuses /\ d.tag = rev[r].tag
  BY <1>1, <1>2, FormsAssumption DEF Requests, Docs, Valid
<1>4. e \in Docs
  BY <1>1, <1>3, StampedTyped
<1>5. /\ q \in Requests /\ q.rev = r /\ q.doc = e /\ q.at = now
      /\ q.pc = IF TellsOffer(r, d) THEN "offer" ELSE "write"
  <2> HIDE DEF d, e, r
  <2> QED
    BY <1>1, <1>4 DEF Requests, Places, Dates
<1>6. Become(u, q)
  BY <1>2
<1>7. /\ Moves(u) /\ req'[u] = q /\ UNCHANGED <<now, rev, offer, torn>>
  BY <1>1, <1>5, <1>6, BecomeTyped DEF Submit, Moves
<1>8. e.tag = rev[r].tag /\ e.status = d.status
  BY <1>1, <1>3, StampedTyped
<1>9. /\ d.status = "OBSOLETE" => e.start = rev[r].start
      /\ d.status = "APPROVED" => e.start \in Times
      /\ d.status = "OBSOLETE" =>
           IF rev[r].end = NoDate \/ rev[r].end > now THEN e.end = now
                                                     ELSE e.end = rev[r].end
  BY <1>1, <1>3, StampedTyped
<1>10. TellsOffer(r, d) <=>
         \/ d.status = "APPROVED"
         \/ d.status = "OBSOLETE" /\ (rev[r].end = NoDate \/ rev[r].end > now)
  BY DEF TellsOffer
<1>11. rev[r].end \in Nat /\ now \in Nat /\ e.end \in Nat
  BY <1>1, <1>4 DEF Docs
<1> HIDE DEF d, e, q
<1>12. AcceptedBy(u)'
  BY <1>1, <1>3, <1>5, <1>7, <1>8, <1>9, <1>10 DEF AcceptedBy
<1>13. BasedBy(u)'
  BY <1>2, <1>5, <1>7, <1>8, <1>9, <1>10, <1>11 DEF BasedBy, d
<1> QED
  BY <1>1, <1>5, <1>7, <1>8, <1>12, <1>13

LEMMA ReadOfferStep ==
  ASSUME IInv, NEW u \in Users, ReadOffer(u)
  PROVE  /\ Moves(u) /\ UNCHANGED <<now, rev, offer, torn>>
         /\ req[u].pc = "offer" /\ req'[u].pc = "put"
         /\ req'[u].rev = req[u].rev /\ req'[u].doc = req[u].doc /\ req'[u].at = req[u].at
         /\ req'[u].copy.tag = offer.tag
         /\ Made(offer, req'[u].copy, req[u].rev, req[u].doc, req[u].at)
<1> DEFINE r == req[u].rev
           d == req[u].doc
           t == req[u].at
<1>1. /\ req[u] \in Requests /\ req[u].pc = "offer" /\ r \in Revisions
      /\ d \in Docs /\ t \in Times /\ offer \in Offers
      /\ d.status = "APPROVED" => d.start \in Times
  BY NoneAssumption DEF ReadOffer, IInv, TypeOK, Requests, Accepted, AcceptedBy, Pending
<1>2. PICK copy : /\ Made(offer, copy, r, d, t)
                  /\ Become(u, [req[u] EXCEPT !.pc = "put", !.copy = copy])
  <2>1. CASE d.status = "APPROVED" /\ Become(u, [req[u] EXCEPT !.pc = "put",
                                            !.copy = Approved(offer, r, d, t)])
    BY <2>1 DEF Made
  <2>2. ASSUME d.status = "OBSOLETE",
               NEW c \in IF Resolved(offer, now) = {} THEN {None} ELSE Resolved(offer, now),
               Become(u, [req[u] EXCEPT !.pc = "put", !.copy = Obsoleted(offer, c, r, t)])
        PROVE  \E copy : /\ Made(offer, copy, r, d, t)
                         /\ Become(u, [req[u] EXCEPT !.pc = "put", !.copy = copy])
    <3>1. offer.current # None => offer.current \in Listed(offer)
      BY DEF IInv, DocumentsAgree, Listed
    <3>2. c \in Listed(offer) \cup {None}
      BY <1>1, <3>1, ResolvedListed
    <3> QED
      BY <2>2, <3>2 DEF Made
  <2> QED
    BY <2>1, <2>2 DEF ReadOffer
<1>3. copy \in Offers /\ copy.tag = offer.tag
  <2>1. Listed(offer) \subseteq Revisions
    BY <1>1 DEF Listed, Offers, Entries
  <2> QED
    BY <1>1, <1>2, <2>1, ApprovedTyped, ObsoletedTyped DEF Made
<1> DEFINE q == [req[u] EXCEPT !.pc = "put", !.copy = copy]
<1>4. /\ q \in Requests /\ q.pc = "put" /\ q.copy = copy
      /\ q.rev = r /\ q.doc = d /\ q.at = t
  BY <1>1, <1>3 DEF Requests, Places
<1>5. Become(u, q)
  BY <1>2
<1> HIDE DEF q
<1>6. Moves(u) /\ req'[u] = q
  BY <1>1, <1>4, <1>5, NoneAssumption, BecomeTyped DEF IInv, Moves
<1> QED
  BY <1>1, <1>2, <1>3, <1>4, <1>6 DEF ReadOffer

LEMMA PutOfferStep ==
  ASSUME IInv, NEW u \in Users, PutOffer(u)
  PROVE  /\ Moves(u) /\ UNCHANGED <<now, rev, torn>>
         /\ offer' \in Offers /\ offer'.tag = offer.tag + 1
         /\ offer'.current = req[u].copy.current /\ offer'.approved = req[u].copy.approved
         /\ req[u].pc = "put" /\ req'[u].pc = "finish"
         /\ req'[u].rev = req[u].rev /\ req'[u].doc = req[u].doc /\ req'[u].at = req[u].at
         /\ Made(offer, req[u].copy, req[u].rev, req[u].doc, req[u].at)
<1>1. /\ req[u] \in Requests /\ req[u].pc = "put" /\ offer \in Offers
      /\ req[u].rev \in Revisions /\ req[u].copy \in Offers
      /\ req[u].copy.tag = offer.tag
  BY NoneAssumption DEF PutOffer, SameOffer, IInv, TypeOK, Requests
<1> DEFINE q == [req[u] EXCEPT !.pc = "finish", !.copy = NoOffer]
<1>2. /\ q \in Requests /\ q.pc = "finish"
      /\ q.rev = req[u].rev /\ q.doc = req[u].doc /\ q.at = req[u].at
  BY <1>1, Bounds DEF Requests, Places
<1>3. Become(u, q)
  BY DEF PutOffer
<1> HIDE DEF q
<1>4. Moves(u) /\ req'[u] = q
  BY <1>1, <1>2, <1>3, NoneAssumption, BecomeTyped DEF IInv, Moves
<1>5. /\ offer' \in Offers /\ offer'.tag = offer.tag + 1
      /\ offer'.current = req[u].copy.current /\ offer'.approved = req[u].copy.approved
  BY <1>1 DEF PutOffer, Offers
<1>6. Made(offer, req[u].copy, req[u].rev, req[u].doc, req[u].at)
  BY <1>1 DEF IInv, CopyBased, CopyBasedBy
<1> QED
  BY <1>1, <1>2, <1>4, <1>5, <1>6 DEF PutOffer

(* A revision changes, and its tag with it. *)
Changed(r) ==
  /\ rev' \in [Revisions -> Docs] /\ rev'[r].tag = rev[r].tag + 1
  /\ \A s \in Revisions \ {r} : rev'[s] = rev[s]

LEMMA PutRevisionStep ==
  ASSUME IInv, NEW u \in Users, PutRevision(u)
  PROVE  LET r == req[u].rev
             d == req[u].doc
         IN  /\ Moves(u) /\ UNCHANGED <<now, offer, torn>>
             /\ req[u].pc \in {"write", "finish"} /\ req'[u].pc = "idle"
             /\ r \in Revisions /\ Changed(r) /\ d.tag = rev[r].tag /\ d \in Docs
             /\ rev'[r].status = d.status
             /\ rev'[r].start = d.start /\ rev'[r].end = d.end
<1> DEFINE r == req[u].rev
           d == req[u].doc
<1>1. /\ req[u] \in Requests /\ req[u].pc \in {"write", "finish"} /\ r \in Revisions
      /\ d \in Docs /\ d.tag = rev[r].tag /\ rev \in [Revisions -> Docs]
  BY NoneAssumption DEF PutRevision, SameDoc, IInv, TypeOK, Requests
<1>2. Moves(u) /\ req'[u] = Idle
  BY LeaveTyped DEF IInv, PutRevision, Moves
<1>3. rev' = [rev EXCEPT ![r] = [d EXCEPT !.tag = rev[r].tag + 1]]
  BY DEF PutRevision
<1>4. /\ Changed(r) /\ rev'[r].status = d.status
      /\ rev'[r].start = d.start /\ rev'[r].end = d.end
  BY <1>1, <1>3 DEF Docs, Changed
<1> QED
  BY <1>1, <1>2, <1>4 DEF PutRevision, Idle

LEMMA StopStep ==
  ASSUME IInv, NEW u \in Users, Stop(u)
  PROVE  /\ Moves(u) /\ UNCHANGED <<now, rev, offer>>
         /\ req'[u].pc = "idle" /\ torn \subseteq torn' /\ torn' \subseteq Revisions
         /\ req[u].pc = "finish" => req[u].rev \in torn'
<1>1. Moves(u) /\ req'[u] = Idle
  BY LeaveTyped DEF IInv, Stop, Moves
<1>2. /\ torn \subseteq torn' /\ req[u].pc = "finish" => req[u].rev \in torn'
  BY DEF Stop
<1>3. torn' \subseteq Revisions
  BY NoneAssumption DEF Stop, IInv, TypeOK
<1> QED
  BY <1>1, <1>2, <1>3 DEF Stop, Idle

LEMMA DeleteStep ==
  ASSUME IInv, NEW u \in Users, Delete(u)
  PROVE  LET r == req[u].rev
         IN  /\ Moves(u) /\ UNCHANGED <<now, offer, torn>>
             /\ req[u].pc = "delete" /\ req'[u].pc = "idle"
             /\ r \in Revisions /\ Changed(r) /\ rev'[r].status = "DELETED"
<1> DEFINE r == req[u].rev
<1>1. /\ req[u].pc = "delete" /\ r \in Revisions /\ rev \in [Revisions -> Docs]
  BY NoneAssumption DEF Delete, IInv, TypeOK
<1>2. Moves(u) /\ req'[u] = Idle
  BY LeaveTyped DEF IInv, Delete, Moves
<1>3. rev' = [rev EXCEPT ![r] = [NoDoc EXCEPT !.status = "DELETED", !.tag = rev[r].tag + 1]]
  BY DEF Delete
<1> DEFINE n == [NoDoc EXCEPT !.status = "DELETED", !.tag = rev[r].tag + 1]
<1>4. n \in Docs /\ n.status = "DELETED" /\ n.tag = rev[r].tag + 1
  <2>1. rev[r].tag + 1 \in Nat
    BY <1>1 DEF Docs
  <2> DEFINE k == rev[r].tag + 1
  <2> HIDE DEF k
  <2>2. [NoDoc EXCEPT !.status = "DELETED", !.tag = k] \in Docs
    BY <2>1, Bounds DEF Docs, k
  <2> QED
    BY <2>2, Bounds DEF Docs, k
<1>5. rev' = [rev EXCEPT ![r] = n]
  BY <1>3
<1> HIDE DEF n
<1>6. Changed(r) /\ rev'[r].status = "DELETED"
  BY <1>1, <1>4, <1>5 DEF Changed
<1> QED
  BY <1>1, <1>2, <1>6 DEF Delete, Idle

LEMMA CreateStep ==
  ASSUME IInv, NEW r \in Revisions, Create(r)
  PROVE  /\ UNCHANGED <<now, offer, req, torn>>
         /\ rev[r].status = "NONE" /\ Changed(r) /\ rev'[r].status \in Statuses
<1>1. rev \in [Revisions -> Docs] /\ rev[r].status = "NONE" /\ rev[r].tag = 0
  BY DEF Create, IInv, TypeOK, Blank
<1>2. PICK f \in Forms : rev' = [rev EXCEPT ![r] = Draft(f)]
  BY DEF Create
<1>3. Draft(f) \in Docs /\ Draft(f).tag = 1
  BY FormsAssumption DEF Draft, Docs
<1>4. rev' \in [Revisions -> Docs] /\ rev'[r] = Draft(f)
      /\ \A s \in Revisions \ {r} : rev'[s] = rev[s]
  BY <1>1, <1>2, <1>3
<1> QED
  BY <1>1, <1>3, <1>4, FormsAssumption DEF Create, Changed, Draft

LEMMA EditStep ==
  ASSUME IInv, EditOffer
  PROVE  /\ UNCHANGED <<now, rev, req, torn>>
         /\ offer' \in Offers /\ offer'.tag = offer.tag + 1
         /\ offer'.current = offer.current /\ offer'.approved = offer.approved
<1>1. offer \in Offers
  BY DEF IInv, TypeOK
<1> QED
  BY <1>1 DEF EditOffer, Offers

------------------------------------------------------------------------------
(* A document that has been made from an older version of the one it replaces
   stays so; another was made from the present version. *)

Grow ==
  /\ \A r \in Revisions : rev'[r] = rev[r] \/ rev'[r].tag = rev[r].tag + 1
  /\ offer' = offer \/ offer'.tag = offer.tag + 1

MadeBy(u) == AcceptedBy(u) /\ TagsGrowBy(u) /\ BasedBy(u) /\ CopyBasedBy(u)

LEMMA IdleMade ==
  ASSUME NEW u \in Users, req'[u].pc \notin Pending
  PROVE  MadeBy(u)'
BY DEF MadeBy, AcceptedBy, TagsGrowBy, BasedBy, CopyBasedBy, Pending

LEMMA UnmovedMade ==
  ASSUME IInv, Grow, NEW u \in Users, req'[u] = req[u]
  PROVE  MadeBy(u)'
<1>1. CASE req[u].pc \notin Pending
  BY <1>1, IdleMade
<1>2. CASE req[u].pc \in Pending
  <2> DEFINE r == req[u].rev
             d == req[u].doc
             o == req[u].copy
  <2>1. /\ r \in Revisions /\ d.tag \in Nat /\ o.tag \in Nat
        /\ rev[r].tag \in Nat /\ offer.tag \in Nat
    BY <1>2, NoneAssumption DEF IInv, TypeOK, Docs, Offers, Pending
  <2>2. /\ req'[u].pc = req[u].pc /\ req'[u].rev = r /\ req'[u].doc = d
        /\ req'[u].copy = o /\ req'[u].at = req[u].at
    OBVIOUS
  <2>3. MadeBy(u)
    BY DEF IInv, Accepted, TagsGrow, Based, CopyBased, MadeBy
  <2>4. AcceptedBy(u)'
    BY <2>2, <2>3 DEF AcceptedBy, MadeBy
  <2>5. d.tag <= rev[r].tag /\ (req[u].pc = "put" => o.tag <= offer.tag)
    BY <1>2, <2>3 DEF MadeBy, TagsGrowBy
  <2>6. rev'[r] = rev[r] \/ d.tag # rev'[r].tag
    BY <2>1, <2>5 DEF Grow
  <2>7. TagsGrowBy(u)'
    BY <2>1, <2>2, <2>5 DEF Grow, TagsGrowBy
  <2>8. BasedBy(u)'
    BY <2>2, <2>3, <2>6 DEF MadeBy, BasedBy
  <2>9. offer' = offer \/ offer'.tag = offer.tag + 1
    BY DEF Grow
  <2>10. CopyBasedBy(u)'
    <3>1. CASE offer' = offer
      BY <2>2, <2>3, <3>1 DEF MadeBy, CopyBasedBy
    <3>2. CASE offer'.tag = offer.tag + 1
      BY <2>1, <2>2, <2>5, <3>2 DEF CopyBasedBy
    <3> QED
      BY <2>9, <3>1, <3>2
  <2> QED
    BY <2>4, <2>7, <2>8, <2>10 DEF MadeBy
<1> QED
  BY <1>1, <1>2

(* Grow, typing, Blank, and what each request is about to write, of a step in
   which only the request of u moves. *)
LEMMA MovesMade ==
  ASSUME IInv, NEW u \in Users, Moves(u), Grow, MadeBy(u)'
  PROVE  \A v \in Users : MadeBy(v)'
BY UnmovedMade DEF Moves

Sound == TypeOK /\ Blank /\ \A v \in Users : MadeBy(v)

LEMMA NextSound ==
  ASSUME IInv, [Next]_vars
  PROVE  Sound' /\ Grow
<1>0. /\ now \in Times /\ rev \in [Revisions -> Docs] /\ offer \in Offers
      /\ torn \subseteq Revisions /\ Blank
  BY DEF IInv, TypeOK
<1>1. ASSUME NEW u \in Users, NEW r \in Revisions, Open(u, r) \/ CheckDelete(u, r)
      PROVE  Sound' /\ Grow
  <2>1. /\ Moves(u) /\ UNCHANGED <<now, rev, offer, torn>>
        /\ req'[u].pc \notin Pending
    BY <1>1, OpenStep DEF Pending
  <2>2. Grow /\ MadeBy(u)'
    BY <2>1, IdleMade DEF Grow
  <2>3. TypeOK' /\ Blank'
    BY <1>0, <2>1 DEF TypeOK, Moves, Requests, Blank
  <2> QED
    BY <2>1, <2>2, <2>3, MovesMade DEF Sound
<1>2. ASSUME NEW u \in Users, Submit(u) PROVE Sound' /\ Grow
  <2>1. /\ Moves(u) /\ UNCHANGED <<now, rev, offer, torn>>
        /\ req'[u].pc \in {"offer", "write"} /\ AcceptedBy(u)' /\ BasedBy(u)'
        /\ req'[u].doc.tag = rev[req'[u].rev].tag
    BY <1>2, SubmitStep
  <2>2. req'[u].rev \in Revisions
    BY <2>1, NoneAssumption DEF Moves, Requests
  <2>3. TagsGrowBy(u)'
    BY <1>0, <2>1, <2>2 DEF TagsGrowBy, Docs
  <2>4. CopyBasedBy(u)'
    BY <2>1 DEF CopyBasedBy
  <2>5. Grow /\ MadeBy(u)'
    BY <2>1, <2>3, <2>4 DEF Grow, MadeBy
  <2>6. TypeOK' /\ Blank'
    BY <1>0, <2>1 DEF TypeOK, Moves, Requests, Blank
  <2> QED
    BY <2>1, <2>5, <2>6, MovesMade DEF Sound
<1>3. ASSUME NEW u \in Users, ReadOffer(u) PROVE Sound' /\ Grow
  <2>1. /\ Moves(u) /\ UNCHANGED <<now, rev, offer, torn>>
        /\ req[u].pc = "offer" /\ req'[u].pc = "put"
        /\ req'[u].rev = req[u].rev /\ req'[u].doc = req[u].doc /\ req'[u].at = req[u].at
        /\ req'[u].copy.tag = offer.tag
        /\ Made(offer, req'[u].copy, req[u].rev, req[u].doc, req[u].at)
    BY <1>3, ReadOfferStep
  <2>2. AcceptedBy(u) /\ TagsGrowBy(u) /\ BasedBy(u)
    BY DEF IInv, Accepted, TagsGrow, Based
  <2>3. AcceptedBy(u)'
    BY <2>1, <2>2 DEF AcceptedBy, Pending
  <2>4. TagsGrowBy(u)'
    BY <1>0, <2>1, <2>2 DEF TagsGrowBy, Pending, Offers
  <2>5. BasedBy(u)'
    BY <2>1, <2>2 DEF BasedBy, Pending
  <2>6. CopyBasedBy(u)'
    BY <2>1 DEF CopyBasedBy
  <2>7. Grow /\ MadeBy(u)'
    BY <2>1, <2>3, <2>4, <2>5, <2>6 DEF Grow, MadeBy
  <2>8. TypeOK' /\ Blank'
    BY <1>0, <2>1 DEF TypeOK, Moves, Requests, Blank
  <2> QED
    BY <2>1, <2>7, <2>8, MovesMade DEF Sound
<1>4. ASSUME NEW u \in Users, PutOffer(u) PROVE Sound' /\ Grow
  <2>1. /\ Moves(u) /\ UNCHANGED <<now, rev, torn>>
        /\ offer' \in Offers /\ offer'.tag = offer.tag + 1
        /\ req[u].pc = "put" /\ req'[u].pc = "finish"
        /\ req'[u].rev = req[u].rev /\ req'[u].doc = req[u].doc /\ req'[u].at = req[u].at
    BY <1>4, PutOfferStep
  <2>2. AcceptedBy(u) /\ TagsGrowBy(u) /\ BasedBy(u)
    BY DEF IInv, Accepted, TagsGrow, Based
  <2>3. AcceptedBy(u)'
    BY <2>1, <2>2 DEF AcceptedBy, Pending
  <2>4. TagsGrowBy(u)'
    BY <2>1, <2>2 DEF TagsGrowBy, Pending
  <2>5. BasedBy(u)'
    BY <2>1, <2>2 DEF BasedBy, Pending
  <2>6. CopyBasedBy(u)'
    BY <2>1 DEF CopyBasedBy
  <2>7. Grow /\ MadeBy(u)'
    BY <2>1, <2>3, <2>4, <2>5, <2>6 DEF Grow, MadeBy
  <2>8. TypeOK' /\ Blank'
    BY <1>0, <2>1 DEF TypeOK, Moves, Requests, Blank
  <2> QED
    BY <2>1, <2>7, <2>8, MovesMade DEF Sound
<1>5. ASSUME NEW u \in Users, PutRevision(u) \/ Delete(u) PROVE Sound' /\ Grow
  <2> DEFINE r == req[u].rev
  <2>1. /\ Moves(u) /\ UNCHANGED <<now, offer, torn>>
        /\ req'[u].pc = "idle" /\ r \in Revisions /\ Changed(r)
    BY <1>5, PutRevisionStep, DeleteStep
  <2>2. rev'[r].status # "NONE"
    <3>1. CASE PutRevision(u)
      <4>1. /\ rev'[r].status = req[u].doc.status /\ req[u].pc \in Pending
        BY <3>1, PutRevisionStep DEF Pending
      <4> QED
        BY <4>1 DEF IInv, Accepted, AcceptedBy, Statuses
    <3>2. CASE Delete(u)
      BY <3>2, DeleteStep
    <3> QED
      BY <1>5, <3>1, <3>2
  <2>3. Grow /\ MadeBy(u)'
    BY <2>1, IdleMade DEF Grow, Changed, Pending
  <2>4. TypeOK' /\ Blank'
    BY <1>0, <2>1, <2>2 DEF TypeOK, Moves, Requests, Blank, Changed
  <2> QED
    BY <2>1, <2>3, <2>4, MovesMade DEF Sound
<1>6. ASSUME NEW u \in Users, Stop(u) PROVE Sound' /\ Grow
  <2>1. /\ Moves(u) /\ UNCHANGED <<now, rev, offer>>
        /\ req'[u].pc = "idle" /\ torn' \subseteq Revisions
    BY <1>6, StopStep
  <2>2. Grow /\ MadeBy(u)'
    BY <2>1, IdleMade DEF Grow, Pending
  <2>3. TypeOK' /\ Blank'
    BY <1>0, <2>1 DEF TypeOK, Moves, Requests, Blank
  <2> QED
    BY <2>1, <2>2, <2>3, MovesMade DEF Sound
<1>7. ASSUME NEW r \in Revisions, Create(r) PROVE Sound' /\ Grow
  <2>1. /\ UNCHANGED <<now, offer, req, torn>>
        /\ Changed(r) /\ rev'[r].status # "NONE"
    BY <1>7, CreateStep DEF Statuses
  <2>2. Grow
    BY <2>1 DEF Grow, Changed
  <2>3. TypeOK' /\ Blank'
    BY <1>0, <2>1 DEF IInv, TypeOK, Blank, Changed
  <2> QED
    BY <2>1, <2>2, <2>3, UnmovedMade DEF Sound
<1>8. ASSUME EditOffer \/ Tick \/ UNCHANGED vars PROVE Sound' /\ Grow
  <2>1. /\ UNCHANGED <<rev, req, torn>> /\ offer' \in Offers
        /\ offer' = offer \/ offer'.tag = offer.tag + 1
    BY <1>0, <1>8, EditStep DEF Tick, vars
  <2>2. now' \in Times
    BY <1>0, <1>8, EditStep, Bounds DEF Tick, Times, vars
  <2>3. Grow
    BY <2>1 DEF Grow
  <2>4. TypeOK' /\ Blank'
    BY <2>1, <2>2 DEF IInv, TypeOK, Blank
  <2> QED
    BY <2>1, <2>3, <2>4, UnmovedMade DEF Sound
<1> QED
  BY <1>1, <1>2, <1>3, <1>4, <1>5, <1>6, <1>7, <1>8 DEF Next

------------------------------------------------------------------------------
(* The two documents. *)

(* What an approval or an obsoletion of r leaves of the entries of an offer. *)
LEMMA MadeListed ==
  ASSUME NEW o \in Offers, NEW copy, NEW r \in Revisions, NEW d \in Docs, NEW t \in Times,
         Made(o, copy, r, d, t), d.status = "APPROVED" => d.start \in Times,
         o.current # None => o.current \in Listed(o)
  PROVE  /\ copy.current # None => copy.current \in Listed(copy)
         /\ \A e \in copy.approved : e.rev # r => e \in o.approved
         /\ \/ \A e \in o.approved : e.rev # r => e \in copy.approved
            \/ copy.current = r
         /\ d.status = "APPROVED" =>
              \A e \in copy.approved : e.rev = r => e = Entry(r, d, e.at)
         /\ d.status = "OBSOLETE" =>
              /\ Listed(o) \subseteq Listed(copy)
              /\ \A e \in copy.approved : e.rev = r =>
                   \E f \in o.approved : f.rev = r /\ e = [f EXCEPT !.end = t]
<1>1. \A e \in o.approved : e \in Entries
  BY DEF Offers
<1>2. CASE d.status = "APPROVED" /\ copy = Approved(o, r, d, t)
  <2> DEFINE n == Entry(r, d, t)
  <2>1. n.rev = r /\ n = Entry(r, d, n.at)
    BY <1>2, EntryTyped
  <2> HIDE DEF n
  <2>2. \/ copy.current = r /\ copy.approved = {n}
        \/ copy.current = None /\ copy.approved = Others(o, r) \cup {n}
    BY <1>2 DEF Approved, n
  <2> QED
    BY <1>2, <2>1, <2>2 DEF Others, Listed
<1>3. ASSUME d.status = "OBSOLETE", NEW c \in Listed(o) \cup {None}, copy = Obsoleted(o, c, r, t)
      PROVE  /\ copy.current # None => copy.current \in Listed(copy)
             /\ \A e \in copy.approved : e.rev # r => e \in o.approved
             /\ \A e \in o.approved : e.rev # r => e \in copy.approved
             /\ Listed(o) \subseteq Listed(copy)
             /\ \A e \in copy.approved : e.rev = r =>
                   \E f \in o.approved : f.rev = r /\ e = [f EXCEPT !.end = t]
  <2>1. /\ copy.approved = Others(o, r) \cup {[e EXCEPT !.end = t] : e \in o.approved \ Others(o, r)}
        /\ copy.current = IF c = r THEN None ELSE c
    BY <1>3 DEF Obsoleted
  <2>2. \A e \in o.approved \ Others(o, r) : e.rev = r /\ [e EXCEPT !.end = t].rev = r
    BY <1>1 DEF Others, Entries
  <2>3. \A e \in copy.approved : e.rev # r => e \in o.approved
    BY <2>1, <2>2 DEF Others
  <2>4. \A e \in o.approved : e.rev # r => e \in copy.approved
    BY <2>1 DEF Others
  <2>5. \A e \in copy.approved : e.rev = r =>
          \E f \in o.approved : f.rev = r /\ e = [f EXCEPT !.end = t]
    BY <2>1, <2>2 DEF Others
  <2>6. Listed(o) \subseteq Listed(copy)
    <3> SUFFICES ASSUME NEW e \in o.approved PROVE \E f \in copy.approved : f.rev = e.rev
      BY DEF Listed
    <3>1. CASE e.rev # r
      BY <2>4, <3>1
    <3>2. CASE e.rev = r
      <4>1. e \notin Others(o, r)
        BY <3>2 DEF Others
      <4>2. [e EXCEPT !.end = t] \in copy.approved
        BY <2>1, <4>1
      <4> QED
        BY <2>2, <3>2, <4>1, <4>2
    <3> QED
      BY <3>1, <3>2
  <2> QED
    BY <2>1, <2>3, <2>4, <2>5, <2>6
<1>4. CASE d.status = "OBSOLETE" /\ \E c \in Listed(o) \cup {None} : copy = Obsoleted(o, c, r, t)
  BY <1>3, <1>4
<1> QED
  BY <1>2, <1>4 DEF Made

(* An entry of the offer agrees with its revision. *)
Agrees(e) ==
  \/ Ahead(e.rev)
  \/ rev[e.rev].status = "DELETED"
  \/ /\ rev[e.rev].status \in {"APPROVED", "OBSOLETE"}
     /\ e = Entry(e.rev, rev[e.rev], e.at)

LEMMA Agreement ==
  DocumentsAgree <=> /\ offer.current # None => offer.current \in Listed(offer)
                     /\ \A e \in offer.approved : Agrees(e)
BY DEF DocumentsAgree, Listed, Agrees

(* A step that writes neither document, and after which a request that was
   between the two writes is there still, or its revision is torn. *)
LEMMA UnwrittenAgree ==
  ASSUME IInv, rev' = rev,
         offer'.current = offer.current, offer'.approved = offer.approved,
         torn \subseteq torn',
         \A v \in Users : req'[v].pc = "finish" => req'[v] = req[v],
         \A v \in Users : req[v].pc = "finish" => req'[v] = req[v] \/ req[v].rev \in torn'
  PROVE  DocumentsAgree' /\ Finishing'
<1>1. \A s : Ahead(s) => Ahead(s)'
  BY DEF Ahead
<1>2. \A e \in offer.approved : Agrees(e) => Agrees(e)'
  BY <1>1 DEF Agrees
<1>3. DocumentsAgree'
  BY <1>2, Agreement DEF IInv, DocumentsAgree, Agrees
<1>4. ASSUME NEW v \in Users, req'[v].pc = "finish", Alone(v)'
      PROVE  Alone(v)
  BY <1>4 DEF Alone
<1>5. Finishing'
  <2> SUFFICES ASSUME NEW v \in Users PROVE FinishingBy(v)'
    BY DEF Finishing
  <2>1. FinishingBy(v)
    BY DEF IInv, Finishing
  <2> QED
    BY <1>4, <2>1 DEF FinishingBy
<1> QED
  BY <1>3, <1>5

LEMMA PutOfferAgree ==
  ASSUME IInv, NEW u \in Users, PutOffer(u)
  PROVE  DocumentsAgree' /\ Finishing'
<1> DEFINE r == req[u].rev
           d == req[u].doc
           t == req[u].at
           copy == req[u].copy
<1>1. /\ Moves(u) /\ rev' = rev /\ torn' = torn
      /\ offer'.current = copy.current /\ offer'.approved = copy.approved
      /\ req[u].pc = "put" /\ req'[u].pc = "finish" /\ req'[u].rev = r /\ req'[u].doc = d
      /\ Made(offer, copy, r, d, t)
  BY PutOfferStep
<1>2. /\ r \in Revisions /\ d \in Docs /\ t \in Times /\ offer \in Offers
      /\ d.status = "APPROVED" => d.start \in Times
      /\ d.status = "OBSOLETE" => d.end = t
      /\ d.status \in {"APPROVED", "OBSOLETE"}
      /\ \A s \in Revisions : rev[s] \in Docs
      /\ \A e \in offer.approved : e \in Entries
  BY <1>1, NoneAssumption DEF IInv, TypeOK, Accepted, AcceptedBy, Pending, Offers
<1>3. /\ offer.current # None => offer.current \in Listed(offer)
      /\ \A e \in offer.approved : Agrees(e)
  BY Agreement DEF IInv
<1>4. /\ copy.current # None => copy.current \in Listed(copy)
      /\ \A e \in copy.approved : e.rev # r => e \in offer.approved
      /\ d.status = "APPROVED" =>
           \A e \in copy.approved : e.rev = r => e = Entry(r, d, e.at)
      /\ d.status = "OBSOLETE" =>
           \A e \in copy.approved : e.rev = r =>
             \E f \in offer.approved : f.rev = r /\ e = [f EXCEPT !.end = t]
  BY <1>1, <1>2, <1>3, MadeListed
<1>5. \A s : Ahead(s) => Ahead(s)'
  BY <1>1 DEF Ahead, Moves
<1>6. Ahead(r)'
  BY <1>1 DEF Ahead
<1>7. DocumentsAgree'
  <2>1. \A e \in copy.approved : Agrees(e)'
    BY <1>1, <1>3, <1>4, <1>5, <1>6 DEF Agrees
  <2>2. offer'.current # None => \E e \in offer'.approved : e.rev = offer'.current
    BY <1>1, <1>4 DEF Listed
  <2> QED
    BY <1>1, <2>1, <2>2 DEF DocumentsAgree, Agrees
<1>8. ASSUME NEW v \in Users \ {u} PROVE FinishingBy(v)'
  <2> SUFFICES ASSUME req'[v].pc = "finish", req'[v].doc.tag = rev'[req'[v].rev].tag, Alone(v)',
                      NEW e \in offer'.approved, e.rev = req'[v].rev
               PROVE  e = Entry(req'[v].rev, req'[v].doc, e.at)
    BY DEF FinishingBy
  <2>1. req'[v] = req[v] /\ req[v].rev # r
    BY <1>1 DEF Moves, Alone
  <2>2. Alone(v)
    BY <1>1, <2>1 DEF Alone, Moves
  <2>3. e \in offer.approved
    BY <1>1, <1>4, <2>1
  <2> QED
    BY <1>1, <2>1, <2>2, <2>3 DEF IInv, Finishing, FinishingBy
<1>9. FinishingBy(u)'
  <2> SUFFICES ASSUME d.tag = rev[r].tag, Alone(u)', NEW e \in copy.approved, e.rev = r
               PROVE  e = Entry(r, d, e.at)
    BY <1>1 DEF FinishingBy
  <2>1. CASE d.status = "APPROVED"
    BY <1>4, <2>1
  <2>2. CASE d.status = "OBSOLETE"
    <3>1. PICK f \in offer.approved : f.rev = r /\ e = [f EXCEPT !.end = t]
      BY <1>4, <2>2
    <3>2. ~Ahead(r)
      BY <1>1 DEF Alone, Ahead, Moves
    <3>3. rev[r].status \notin {"NONE", "DELETED"} /\ d.start = rev[r].start
      BY <1>1, <2>2 DEF IInv, Based, BasedBy, Pending
    <3>4. f = Entry(r, rev[r], f.at)
      BY <1>3, <3>1, <3>2, <3>3 DEF Agrees
    <3>5. d.end = t /\ t # NoDate
      BY <1>2, <2>2, Bounds
    <3>6. /\ f.start = rev[r].start /\ f \in Entries
      BY <1>2, <3>4 DEF Entry
    <3>7. e = [rev |-> r, at |-> f.at, start |-> f.start, end |-> t]
      BY <3>1, <3>6 DEF Entries
    <3> QED
      BY <3>3, <3>5, <3>6, <3>7 DEF Entry
  <2> QED
    BY <1>2, <2>1, <2>2
<1> QED
  BY <1>7, <1>8, <1>9 DEF Finishing

(* A step that changes one revision, and the offer not: the entries of that
   revision remain to be shown. *)
LEMMA ChangedAgree ==
  ASSUME IInv, NEW r \in Revisions, Changed(r), UNCHANGED <<offer, torn>>,
         \A v \in Users : req'[v].pc = "finish" => req'[v] = req[v],
         \A v \in Users : req[v].pc = "finish" => req'[v] = req[v] \/ req[v].rev = r,
         \A e \in offer.approved : e.rev = r => Agrees(e)'
  PROVE  DocumentsAgree' /\ Finishing'
<1>1. /\ offer.current # None => offer.current \in Listed(offer)
      /\ \A e \in offer.approved : Agrees(e) /\ e.rev \in Revisions
      /\ \A s \in Revisions : rev[s].tag \in Nat
  BY Agreement DEF IInv, TypeOK, Offers, Entries, Docs
<1>2. ASSUME NEW e \in offer.approved, e.rev # r PROVE Agrees(e)'
  <2>1. rev'[e.rev] = rev[e.rev]
    BY <1>1, <1>2 DEF Changed
  <2>2. Ahead(e.rev) => Ahead(e.rev)'
    BY <1>2 DEF Ahead
  <2> QED
    BY <1>1, <1>2, <2>1, <2>2 DEF Agrees
<1>3. DocumentsAgree'
  BY <1>1, <1>2 DEF DocumentsAgree, Agrees, Listed
<1>4. ASSUME NEW v \in Users PROVE FinishingBy(v)'
  <2> SUFFICES ASSUME req'[v].pc = "finish", req'[v].doc.tag = rev'[req'[v].rev].tag, Alone(v)',
                      NEW e \in offer'.approved, e.rev = req'[v].rev
               PROVE  e = Entry(req'[v].rev, req'[v].doc, e.at)
    BY DEF FinishingBy
  <2>1. req'[v] = req[v] /\ req[v].rev \in Revisions
    BY NoneAssumption DEF IInv, TypeOK
  <2>2. req[v].doc.tag <= rev[req[v].rev].tag /\ req[v].doc.tag \in Nat
    BY <2>1 DEF IInv, TypeOK, TagsGrow, TagsGrowBy, Pending, Docs
  <2>3. req[v].rev # r
    BY <1>1, <2>1, <2>2 DEF Changed
  <2>4. rev'[req[v].rev] = rev[req[v].rev]
    BY <2>1, <2>3 DEF Changed
  <2>5. Alone(v)
    BY <2>1, <2>3 DEF Alone
  <2> QED
    BY <2>1, <2>4, <2>5 DEF IInv, Finishing, FinishingBy
<1> QED
  BY <1>3, <1>4 DEF Finishing

LEMMA PutRevisionAgree ==
  ASSUME IInv, NEW u \in Users, PutRevision(u)
  PROVE  DocumentsAgree' /\ Finishing'
<1> DEFINE r == req[u].rev
           d == req[u].doc
<1>1. /\ Moves(u) /\ UNCHANGED <<now, offer, torn>>
      /\ req[u].pc \in {"write", "finish"} /\ req'[u].pc = "idle"
      /\ r \in Revisions /\ Changed(r) /\ d.tag = rev[r].tag
      /\ rev'[r].status = d.status /\ rev'[r].start = d.start /\ rev'[r].end = d.end
  BY PutRevisionStep
<1>2. /\ rev[r].status # "DELETED" /\ Permitted(rev[r].status, d.status)
      /\ d.status = "OBSOLETE" => /\ d.start = rev[r].start
                                  /\ req[u].pc = "write" => d.end = rev[r].end
      /\ req[u].pc = "finish" => d.status \in {"APPROVED", "OBSOLETE"}
  BY <1>1 DEF IInv, Based, BasedBy, Accepted, AcceptedBy, Pending
<1>3. \A s, t : Entry(s, rev'[r], t) = Entry(s, d, t)
  BY <1>1 DEF Entry
<1>4. \A v \in Users \ {u} : req'[v] = req[v]
  BY <1>1 DEF Moves
<1>5. ASSUME NEW e \in offer.approved, e.rev = r PROVE Agrees(e)'
  <2>1. CASE req[u].pc = "finish" /\ Alone(u)
    <3>1. e = Entry(r, d, e.at)
      BY <1>1, <1>5, <2>1 DEF IInv, Finishing, FinishingBy
    <3>2. rev'[r].status \in {"APPROVED", "OBSOLETE"} /\ e = Entry(r, rev'[r], e.at)
      BY <1>1, <1>2, <1>3, <2>1, <3>1
    <3> QED
      BY <1>5, <3>2 DEF Agrees
  <2>2. CASE req[u].pc = "finish" /\ ~Alone(u)
    <3>1. Ahead(e.rev)'
      BY <1>1, <1>4, <1>5, <2>2 DEF Alone, Ahead
    <3> QED
      BY <3>1 DEF Agrees
  <2>3. CASE req[u].pc = "write" /\ Ahead(r)
    <3>1. Ahead(e.rev)'
      BY <1>1, <1>4, <1>5, <2>3 DEF Ahead
    <3> QED
      BY <3>1 DEF Agrees
  <2>4. CASE req[u].pc = "write" /\ ~Ahead(r)
    <3>1. rev[r].status \in {"APPROVED", "OBSOLETE"} /\ e = Entry(r, rev[r], e.at)
      BY <1>2, <1>5, <2>4, Agreement DEF IInv, Agrees
    <3>2. d.status = "OBSOLETE"
      BY <1>2, <3>1 DEF Permitted
    <3>3. Entry(r, rev[r], e.at) = Entry(r, d, e.at)
      BY <1>2, <2>4, <3>2 DEF Entry
    <3>4. rev'[r].status \in {"APPROVED", "OBSOLETE"} /\ e = Entry(r, rev'[r], e.at)
      BY <1>1, <1>3, <3>1, <3>2, <3>3
    <3> QED
      BY <1>5, <3>4 DEF Agrees
  <2> QED
    BY <1>1, <2>1, <2>2, <2>3, <2>4
<1> QED
  BY <1>1, <1>4, <1>5, ChangedAgree

LEMMA DeleteAgree ==
  ASSUME IInv, NEW u \in Users, Delete(u)
  PROVE  DocumentsAgree' /\ Finishing'
<1> DEFINE r == req[u].rev
<1>1. /\ Moves(u) /\ UNCHANGED <<now, offer, torn>>
      /\ req[u].pc = "delete" /\ req'[u].pc = "idle"
      /\ r \in Revisions /\ Changed(r) /\ rev'[r].status = "DELETED"
  BY DeleteStep
<1>2. \A v \in Users \ {u} : req'[v] = req[v]
  BY <1>1 DEF Moves
<1>3. \A e \in offer.approved : e.rev = r => Agrees(e)'
  BY <1>1 DEF Agrees
<1> QED
  BY <1>1, <1>2, <1>3, ChangedAgree

LEMMA CreateAgree ==
  ASSUME IInv, NEW r \in Revisions, Create(r)
  PROVE  DocumentsAgree' /\ Finishing'
<1>1. /\ UNCHANGED <<now, offer, req, torn>> /\ rev[r].status = "NONE" /\ Changed(r)
  BY CreateStep
<1>2. ASSUME NEW e \in offer.approved, e.rev = r PROVE Agrees(e)'
  <2>1. Ahead(r)
    BY <1>1, <1>2, Agreement DEF IInv, Agrees
  <2> QED
    BY <1>1, <1>2, <2>1 DEF Agrees, Ahead
<1> QED
  BY <1>1, <1>2, ChangedAgree

LEMMA NextAgree ==
  ASSUME IInv, [Next]_vars
  PROVE  DocumentsAgree' /\ Finishing'
<1>1. ASSUME NEW u \in Users, NEW r \in Revisions, Open(u, r) \/ CheckDelete(u, r)
      PROVE  DocumentsAgree' /\ Finishing'
  <2>1. /\ Moves(u) /\ UNCHANGED <<now, rev, offer, torn>>
        /\ req[u].pc = "idle" /\ req'[u].pc \in {"page", "delete"}
    BY <1>1, OpenStep
  <2> QED
    BY <2>1, UnwrittenAgree DEF Moves
<1>2. ASSUME NEW u \in Users, Submit(u) PROVE DocumentsAgree' /\ Finishing'
  <2>1. /\ Moves(u) /\ UNCHANGED <<now, rev, offer, torn>>
        /\ req[u].pc = "page" /\ req'[u].pc \in {"offer", "write"}
    BY <1>2, SubmitStep
  <2> QED
    BY <2>1, UnwrittenAgree DEF Moves
<1>3. ASSUME NEW u \in Users, ReadOffer(u) PROVE DocumentsAgree' /\ Finishing'
  <2>1. /\ Moves(u) /\ UNCHANGED <<now, rev, offer, torn>>
        /\ req[u].pc = "offer" /\ req'[u].pc = "put"
    BY <1>3, ReadOfferStep
  <2> QED
    BY <2>1, UnwrittenAgree DEF Moves
<1>4. ASSUME NEW u \in Users, Stop(u) PROVE DocumentsAgree' /\ Finishing'
  <2>1. /\ Moves(u) /\ UNCHANGED <<now, rev, offer>>
        /\ req'[u].pc = "idle" /\ torn \subseteq torn'
        /\ req[u].pc = "finish" => req[u].rev \in torn'
    BY <1>4, StopStep
  <2> QED
    BY <2>1, UnwrittenAgree DEF Moves
<1>5. CASE EditOffer \/ Tick \/ UNCHANGED vars
  <2>1. /\ UNCHANGED <<rev, req, torn>>
        /\ offer'.current = offer.current /\ offer'.approved = offer.approved
    BY <1>5, EditStep DEF Tick, vars
  <2> QED
    BY <2>1, UnwrittenAgree
<1> QED
  BY <1>1, <1>2, <1>3, <1>4, <1>5, PutOfferAgree, PutRevisionAgree, DeleteAgree, CreateAgree
     DEF Next

------------------------------------------------------------------------------
(* The invariant, and what it shows. *)

LEMMA InitIInv == Init => IInv
<1> SUFFICES ASSUME Init PROVE IInv
  OBVIOUS
<1>1. /\ now = 1 /\ rev = [r \in Revisions |-> NoDoc] /\ offer = NoOffer
      /\ req = [u \in Users |-> Idle] /\ torn = {}
  BY DEF Init
<1>2. Idle.pc = "idle" /\ Idle \in Requests
  BY IdleTyped DEF Idle
<1>3. 1 \in Times
  BY Bounds DEF Times
<1>4. TypeOK
  BY <1>1, <1>2, <1>3, Bounds DEF TypeOK, Requests
<1>5. Accepted /\ TagsGrow /\ Based /\ CopyBased /\ Finishing
  BY <1>1, <1>2 DEF Accepted, AcceptedBy, TagsGrow, TagsGrowBy, Based, BasedBy, CopyBased,
                    CopyBasedBy, Finishing, FinishingBy, Pending
<1>6. Blank /\ DocumentsAgree
  BY <1>1 DEF Blank, DocumentsAgree, NoDoc, NoOffer
<1> QED
  BY <1>4, <1>5, <1>6 DEF IInv

LEMMA Invariant == Spec => []IInv
<1>1. IInv /\ [Next]_vars => IInv'
  BY NextSound, NextAgree DEF IInv, Sound, MadeBy, Accepted, TagsGrow, Based, CopyBased
<1> QED
  BY <1>1, InitIInv, PTL DEF Spec

(* Every document, and every request about one, is typed: an approval always
   lists a start and an end. *)
THEOREM OffersTyped == Spec => []TypeOK
<1>1. IInv => TypeOK
  BY DEF IInv
<1> QED
  BY <1>1, Invariant, PTL

(* What the offer lists has been approved with the dates it lists, unless a
   request is, or was left, between its two writes. *)
THEOREM OfferAndRevisionsAgree == Spec => []DocumentsAgree
<1>1. IInv => DocumentsAgree
  BY DEF IInv
<1> QED
  BY <1>1, Invariant, PTL

------------------------------------------------------------------------------
(* What a step may never do. *)

LEMMA NextFinal ==
  ASSUME IInv, [Next]_vars,
         NEW r \in Revisions, rev[r].status \in {"APPROVED", "OBSOLETE"}, rev'[r] # rev[r]
  PROVE  \/ /\ rev[r].status = "APPROVED" /\ rev'[r].status = "OBSOLETE"
            /\ rev'[r].start = rev[r].start
            /\ rev[r].end # NoDate => rev'[r].end <= rev[r].end
         \/ \E u \in Users : req[u].pc = "delete" /\ req[u].rev = r
<1>1. CASE \E u \in Users : PutRevision(u)
  <2>1. PICK u \in Users : PutRevision(u)
    BY <1>1
  <2> DEFINE d == req[u].doc
  <2>2. /\ req[u].pc \in Pending /\ req[u].rev = r /\ d.tag = rev[r].tag
        /\ rev'[r].status = d.status /\ rev'[r].start = d.start /\ rev'[r].end = d.end
    BY <2>1, PutRevisionStep DEF Changed, Pending
  <2>3. /\ Permitted(rev[r].status, d.status)
        /\ d.status = "OBSOLETE" => /\ d.start = rev[r].start
                                    /\ rev[r].end # NoDate => d.end <= rev[r].end
    BY <2>2 DEF IInv, Based, BasedBy
  <2> QED
    BY <2>2, <2>3 DEF Permitted
<1>2. CASE \E u \in Users : Delete(u)
  <2>1. PICK u \in Users : Delete(u)
    BY <1>2
  <2> QED
    BY <2>1, DeleteStep DEF Changed
<1>3. CASE \E s \in Revisions : Create(s)
  <2>1. PICK s \in Revisions : Create(s)
    BY <1>3
  <2>2. rev[s].status = "NONE" /\ (s # r => rev'[r] = rev[r])
    BY <2>1, CreateStep DEF Changed
  <2> QED
    BY <2>2
<1>4. CASE rev' = rev
  BY <1>4
<1> QED
  BY <1>1, <1>2, <1>3, <1>4
  DEF Next, Submit, ReadOffer, PutOffer, Stop, Open, CheckDelete, EditOffer, Tick, vars

(* What has been approved changes only to be made obsolete, and then for ever,
   whatever out of date pages are submitted. *)
THEOREM ApprovalIsFinal == Spec => ApprovedIsFinal
<1>1. IInv /\ [Next]_vars => [\A r \in Revisions :
        rev[r].status \in {"APPROVED", "OBSOLETE"} /\ rev'[r] # rev[r] =>
          \/ /\ rev[r].status = "APPROVED" /\ rev'[r].status = "OBSOLETE"
             /\ rev'[r].start = rev[r].start
             /\ rev[r].end # NoDate => rev'[r].end <= rev[r].end
          \/ \E u \in Users : req[u].pc = "delete" /\ req[u].rev = r]_vars
  BY NextFinal
<1> QED
  BY <1>1, Invariant, PTL DEF Spec, ApprovedIsFinal

(* The offer changes only in an edit, which keeps the entries, and in the first
   write of a request, which builds on the offer as it is. *)
LEMMA NextListed ==
  ASSUME IInv, [Next]_vars
  PROVE  \/ offer'.current = offer.current /\ offer'.approved = offer.approved
         \/ \E u \in Users :
              /\ req[u].pc = "put"
              /\ offer'.current # None => offer'.current \in Listed(offer')
              /\ \/ \A e \in offer.approved : e.rev # req[u].rev => e \in offer'.approved
                 \/ offer'.current = req[u].rev
              /\ \/ Listed(offer) \subseteq Listed(offer')
                 \/ \E e \in offer'.approved : offer'.current = e.rev /\ e.end = Forever
<1>1. CASE \E u \in Users : PutOffer(u)
  <2>1. PICK u \in Users : PutOffer(u)
    BY <1>1
  <2> DEFINE r == req[u].rev
             d == req[u].doc
             t == req[u].at
             copy == req[u].copy
  <2>2. /\ offer'.current = copy.current /\ offer'.approved = copy.approved
        /\ req[u].pc = "put" /\ Made(offer, copy, r, d, t)
    BY <2>1, PutOfferStep
  <2>3. /\ r \in Revisions /\ d \in Docs /\ t \in Times /\ offer \in Offers
        /\ d.status = "APPROVED" => d.start \in Times
        /\ offer.current # None => offer.current \in Listed(offer)
    BY <2>2, NoneAssumption, Agreement DEF IInv, TypeOK, Accepted, AcceptedBy, Pending
  <2>4. /\ copy.current # None => copy.current \in Listed(copy)
        /\ \/ \A e \in offer.approved : e.rev # r => e \in copy.approved
           \/ copy.current = r
        /\ d.status = "OBSOLETE" => Listed(offer) \subseteq Listed(copy)
    BY <2>2, <2>3, MadeListed
  <2>5. \/ Listed(offer) \subseteq Listed(copy)
        \/ \E e \in copy.approved : copy.current = e.rev /\ e.end = Forever
    <3>1. CASE d.status = "APPROVED" /\ copy = Approved(offer, r, d, t)
      <4> DEFINE n == Entry(r, d, t)
      <4>1. n.rev = r /\ (d.end = NoDate => n.end = Forever)
        BY <2>3, <3>1, EntryTyped
      <4> HIDE DEF n
      <4>2. \/ d.end = NoDate /\ copy.current = r /\ copy.approved = {n}
            \/ copy.approved = Others(offer, r) \cup {n}
        BY <3>1 DEF Approved, n
      <4> QED
        BY <4>1, <4>2 DEF Listed, Others
    <3>2. CASE d.status = "OBSOLETE"
      BY <2>4, <3>2
    <3> QED
      BY <2>2, <3>1, <3>2 DEF Made
  <2>6. Listed(copy) = Listed(offer')
    BY <2>2 DEF Listed
  <2> QED
    BY <2>2, <2>4, <2>5, <2>6
<1>2. CASE EditOffer
  BY <1>2, EditStep
<1>3. CASE offer' = offer
  BY <1>3
<1> QED
  BY <1>1, <1>2, <1>3
  DEF Next, Submit, ReadOffer, PutRevision, Delete, Create, Stop, Open, CheckDelete, Tick, vars

(* No approval is lost to another that overlaps it. *)
THEOREM ApprovalsAreKept == Spec => ApprovalsKept
<1>1. ASSUME IInv, [Next]_vars
      PROVE  [\A r \in {e.rev : e \in offer.approved} \ {e.rev : e \in offer'.approved} :
                \E e \in offer'.approved : offer'.current = e.rev /\ e.end = Forever]_vars
  BY <1>1, NextListed DEF Listed
<1> QED
  BY <1>1, Invariant, PTL DEF Spec, ApprovalsKept

(* Of the entries in force there is one that was approved last. *)
LEMMA LatestExists ==
  ASSUME NEW T, T \subseteq Entries, T # {}
  PROVE  Latest(T) # {}
<1> DEFINE Left == {Forever - e.at : e \in T}
           Less == {ss \in Nat \X Nat : ss[1] < ss[2]}
<1>1. \A e \in T : e.at \in Nat /\ Forever - e.at \in Nat /\ e.at <= Forever
  BY Bounds DEF Entries, Times, Forever
<1>2. IsWellFoundedOn(Less, Nat)
  BY NatLessThanWellFounded DEF OpToRel
<1>3. PICK x \in Left : \A y \in Left : <<y, x>> \notin Less
  <2> HIDE DEF Less
  <2>1. Left \subseteq Nat /\ Left # {}
    BY <1>1
  <2> HIDE DEF Left
  <2> QED
    BY <1>2, <2>1, WFMin
<1>4. PICK e \in T : x = Forever - e.at
  BY <1>3
<1>5. \A f \in T : f.at <= e.at
  <2> SUFFICES ASSUME NEW f \in T PROVE f.at <= e.at
    OBVIOUS
  <2>1. ~ (Forever - f.at < Forever - e.at)
    BY <1>1, <1>3, <1>4
  <2> QED
    BY <1>1, <2>1, Bounds
<1> QED
  BY <1>4, <1>5 DEF Latest

LEMMA NextSold ==
  ASSUME IInv, [Next]_vars, OnSale(offer, now) # {}, Resolved(offer', now) = {}
  PROVE  \E u \in Users : req[u].pc = "put" /\ req[u].rev \in OnSale(offer, now)
<1>1. offer \in Offers /\ offer' \in Offers /\ \A e \in offer'.approved : e \in Entries
  BY NextSound DEF IInv, Sound, TypeOK, Offers
<1>2. PICK e \in Live(offer, now) : e.rev \in OnSale(offer, now)
  BY DEF OnSale
<1>3. offer'.current = None /\ Live(offer', now) = {}
  <2>1. offer'.current = None
    BY DEF Resolved
  <2>2. Latest(Live(offer', now)) = {}
    BY <2>1 DEF Resolved
  <2>3. Live(offer', now) \subseteq Entries
    BY <1>1 DEF Live
  <2> QED
    BY <2>1, <2>2, <2>3, LatestExists
<1>4. e \notin offer'.approved
  BY <1>2, <1>3 DEF Live
<1>5. e \in offer.approved
  BY <1>2 DEF Live
<1>6. PICK u \in Users :
        /\ req[u].pc = "put"
        /\ \/ \A f \in offer.approved : f.rev # req[u].rev => f \in offer'.approved
           \/ offer'.current = req[u].rev
  BY <1>4, <1>5, NextListed
<1>7. req[u].rev \in Revisions
  BY <1>6, NoneAssumption DEF IInv, TypeOK
<1> QED
  BY <1>2, <1>3, <1>4, <1>5, <1>6, <1>7, NoneAssumption

(* An offer on sale is taken off it only by a request about the revision it is
   sold by. *)
THEOREM SaleStays == Spec => StaysOnSale
<1>1. IInv /\ [Next]_vars =>
        [OnSale(offer, now) # {} /\ Resolved(offer', now) = {} =>
           \E u \in Users : /\ req[u].pc = "put"
                            /\ req[u].rev \in OnSale(offer, now)]_vars
  BY NextSold
<1> QED
  BY <1>1, Invariant, PTL DEF Spec, StaysOnSale

------------------------------------------------------------------------------
(* What is sold. *)

(* What is obsolete, or about to be written so, has ended. *)
Past(d) == d.status = "OBSOLETE" => d.end # NoDate /\ d.end <= now
Ended == /\ \A r \in Revisions : Past(rev[r])
         /\ \A u \in Users : req[u].pc \in Pending => Past(req[u].doc)

(* The stamp of an obsoletion ends it: now, or at the earlier end it had. *)
LEMMA SubmitEnds ==
  ASSUME IInv, NEW u \in Users, Submit(u)
  PROVE  Past(req'[u].doc)
<1> USE Bounds, NoneAssumption DEF IInv
<1> DEFINE r == req[u].rev
<1>1. /\ req[u] \in Requests /\ r \in Revisions /\ now \in Times /\ rev[r] \in Docs
  BY DEF Submit, TypeOK, Requests
<1>2. PICK f \in Forms :
        LET d == [status |-> f.status, start |-> f.start, end |-> f.end, tag |-> req[u].doc.tag]
        IN  Become(u, [pc |-> IF TellsOffer(r, d) THEN "offer" ELSE "write",
                       rev |-> r, doc |-> Stamped(r, d), copy |-> NoOffer, at |-> now])
  BY DEF Submit
<1> DEFINE d == [status |-> f.status, start |-> f.start, end |-> f.end, tag |-> req[u].doc.tag]
           e == Stamped(r, d)
<1>3. d \in Docs
  BY <1>1, FormsAssumption DEF Requests, Docs
<1>4. /\ d.status # "OBSOLETE" => e.status = d.status
      /\ d.status = "OBSOLETE" =>
           IF rev[r].end = NoDate \/ rev[r].end > now THEN e.end = now
                                                      ELSE e.end = rev[r].end
  BY <1>1, <1>3, StampedTyped
<1>5. req'[u].doc = e
  BY <1>2 DEF TypeOK, Become
<1>6. rev[r].end \in Nat /\ now \in Nat /\ now # NoDate
  BY <1>1 DEF Docs
<1> HIDE DEF d, e
<1> QED
  BY <1>4, <1>5, <1>6 DEF Past

(* What has ended stays so: documents are written as they were stamped, and the
   clock goes on. *)
LEMMA NextEnded == IInv /\ Ended /\ [Next]_vars => Ended'
<1> SUFFICES ASSUME IInv, Ended, [Next]_vars PROVE Ended'
  OBVIOUS
<1>1. /\ now \in Nat /\ now' \in Nat /\ now <= now'
      /\ \A r \in Revisions : rev[r].end \in Nat
      /\ \A v \in Users : req[v].doc.end \in Nat
  <2>1. now \in Nat /\ now' \in Nat /\ now <= now'
    <3>1. now \in Nat
      BY Bounds DEF IInv, TypeOK
    <3>2. now' = now \/ now' = now + 1
      BY DEF Next, Submit, ReadOffer, PutOffer, PutRevision, Stop, Delete, Open,
             CheckDelete, Create, EditOffer, Tick, vars
    <3> QED
      BY <3>1, <3>2
  <2> QED
    BY <2>1, Bounds DEF IInv, TypeOK, Docs
<1>2. ASSUME NEW d, d.end \in Nat, Past(d) PROVE Past(d)'
  BY <1>1, <1>2 DEF Past
<1>3. \A r \in Revisions : Past(rev[r])'
  <2> SUFFICES ASSUME NEW r \in Revisions PROVE Past(rev[r])'
    OBVIOUS
  <2>1. CASE rev'[r] = rev[r]
    BY <1>1, <2>1 DEF Ended, Past
  <2>2. CASE \E u \in Users : PutRevision(u)
    <3>1. PICK u \in Users : PutRevision(u)
      BY <2>2
    <3>2. /\ req[u].pc \in Pending /\ (req[u].rev # r => rev'[r] = rev[r])
          /\ req[u].rev = r =>
               rev'[r].status = req[u].doc.status /\ rev'[r].end = req[u].doc.end
      BY <3>1, PutRevisionStep DEF Changed, Pending
    <3> QED
      BY <1>1, <2>1, <3>2 DEF Ended, Past
  <2>3. CASE \E u \in Users : Delete(u)
    <3>1. PICK u \in Users : Delete(u)
      BY <2>3
    <3>2. rev'[r] = rev[r] \/ rev'[r].status = "DELETED"
      BY <3>1, DeleteStep DEF Changed
    <3> QED
      BY <2>1, <3>2 DEF Past
  <2>4. CASE \E s \in Revisions : Create(s)
    <3>1. PICK s \in Revisions : Create(s)
      BY <2>4
    <3>2. rev'[r] = rev[r] \/ rev'[r].status = "DRAFT"
      BY <3>1 DEF Create, Draft, IInv, TypeOK
    <3> QED
      BY <2>1, <3>2 DEF Past
  <2> QED
    BY <2>1, <2>2, <2>3, <2>4
    DEF Next, Submit, ReadOffer, PutOffer, Stop, Open, CheckDelete, EditOffer, Tick, vars
<1>4. ASSUME NEW v \in Users, req'[v].pc \in Pending PROVE Past(req[v].doc)'
  <2>1. CASE req'[v] = req[v]
    BY <1>1, <1>4, <2>1 DEF Ended, Past
  <2>2. CASE Submit(v)
    <3>1. Past(req'[v].doc) /\ now' = now
      BY <2>2, SubmitEnds DEF Submit
    <3> QED
      BY <3>1 DEF Past
  <2>3. CASE ReadOffer(v) \/ PutOffer(v)
    <3>1. req'[v].doc = req[v].doc /\ req[v].pc \in Pending
      BY <2>3, ReadOfferStep, PutOfferStep DEF Pending
    <3> QED
      BY <1>1, <3>1 DEF Ended, Past
  <2>4. ASSUME NEW u \in Users, u # v,
               Submit(u) \/ ReadOffer(u) \/ PutOffer(u) \/ PutRevision(u) \/ Delete(u) \/ Stop(u)
        PROVE  req'[v] = req[v]
    BY <2>4, SubmitStep, ReadOfferStep, PutOfferStep, PutRevisionStep, DeleteStep, StopStep DEF Moves
  <2>5. ~(PutRevision(v) \/ Delete(v) \/ Stop(v))
    BY <1>4, PutRevisionStep, DeleteStep, StopStep DEF Pending
  <2>6. ASSUME NEW u \in Users, NEW r \in Revisions, Open(u, r) \/ CheckDelete(u, r)
        PROVE  req'[v] = req[v]
    BY <1>4, <2>6, OpenStep DEF Moves, Pending
  <2>7. CASE UNCHANGED req
    BY <2>1, <2>7
  <2> QED
    BY <2>1, <2>2, <2>3, <2>4, <2>5, <2>6, <2>7 DEF Next, Create, EditOffer, Tick, vars
<1> QED
  BY <1>3, <1>4 DEF Ended

(* The current revision that is stored is listed, and has begun. *)
Begun(o) ==
  o.current # None => \E e \in o.approved : e.rev = o.current /\ e.start <= now

(* If it has an end, an obsoletion of another revision stored it. *)
KeptBy(u) == req[u].pc = "put" =>
  \A e \in req[u].copy.approved : e.rev = req[u].copy.current =>
    e.end = Forever \/ (req[u].doc.status = "OBSOLETE" /\ req[u].rev # e.rev)
Kept == \A e \in offer.approved : e.rev = offer.current =>
          e.end = Forever \/ \E s \in Revisions \ {e.rev} : Retired(s)

StoredBy(u) == /\ req[u].pc \in Pending => req[u].at <= now
               /\ req[u].pc = "put" => Begun(req[u].copy)
               /\ KeptBy(u)
Stored == Begun(offer) /\ Kept /\ \A u \in Users : StoredBy(u)

LEMMA ClockGoesOn ==
  ASSUME IInv, [Next]_vars
  PROVE  now \in Nat /\ now' \in Nat /\ now <= now'
<1>1. now \in Nat
  BY Bounds DEF IInv, TypeOK
<1>2. now' = now \/ now' = now + 1
  BY DEF Next, Submit, ReadOffer, PutOffer, PutRevision, Stop, Delete, Open,
         CheckDelete, Create, EditOffer, Tick, vars
<1> QED
  BY <1>1, <1>2

LEMMA BegunStays ==
  ASSUME IInv, [Next]_vars, NEW o, o \in Offers, Begun(o)
  PROVE  o.current # None => \E e \in o.approved : e.rev = o.current /\ e.start <= now'
<1>1. \A e \in o.approved : e.start \in Nat
  BY Bounds DEF Offers, Entries
<1> QED
  BY <1>1, ClockGoesOn DEF Begun

(* What was made obsolete stays so. *)
LEMMA RetiredStays ==
  ASSUME IInv, [Next]_vars, NEW s \in Revisions, Retired(s)
  PROVE  Retired(s)'
<1>1. CASE \E u \in Users : PutRevision(u) \/ Delete(u)
  <2>1. PICK u \in Users : PutRevision(u) \/ Delete(u)
    BY <1>1
  <2>2. /\ req[u].rev \in Revisions /\ Changed(req[u].rev) /\ torn' = torn
        /\ \A v \in Users \ {u} : req'[v] = req[v]
    BY <2>1, PutRevisionStep, DeleteStep DEF Moves
  <2>3. CASE req[u].rev # s
    <3>1. rev'[s] = rev[s]
      BY <2>2, <2>3 DEF Changed
    <3>2. \A v \in Users : req[v].rev = s => req'[v] = req[v]
      BY <2>2, <2>3
    <3> QED
      BY <2>2, <3>1, <3>2 DEF Retired
  <2>4. CASE req[u].rev = s /\ Delete(u)
    BY <2>4, DeleteStep DEF Retired
  <2>5. CASE req[u].rev = s /\ PutRevision(u)
    <3>1. /\ rev'[s].status = req[u].doc.status /\ req[u].pc \in Pending
          /\ req[u].doc.tag = rev[s].tag
      BY <2>5, PutRevisionStep DEF Pending
    <3>2. rev[s].status \notin {"OBSOLETE", "DELETED"}
      BY <2>5, <3>1 DEF IInv, Based, BasedBy, Permitted
    <3>3. CASE s \in torn
      BY <2>2, <3>3 DEF Retired
    <3>4. CASE \E v \in Users : /\ req[v].pc = "finish" /\ req[v].rev = s
                                /\ req[v].doc.status = "OBSOLETE"
      <4>1. PICK v \in Users : /\ req[v].pc = "finish" /\ req[v].rev = s
                               /\ req[v].doc.status = "OBSOLETE"
        BY <3>4
      <4>2. CASE v = u
        BY <3>1, <4>1, <4>2 DEF Retired
      <4>3. CASE v # u
        BY <2>2, <4>1, <4>3 DEF Retired
      <4> QED
        BY <4>2, <4>3
    <3> QED
      BY <3>2, <3>3, <3>4 DEF Retired
  <2> QED
    BY <2>1, <2>3, <2>4, <2>5
<1>2. CASE \E r \in Revisions : Create(r)
  <2>1. PICK r \in Revisions : Create(r)
    BY <1>2
  <2>2. UNCHANGED <<req, torn>> /\ rev[r].status = "NONE" /\ Changed(r)
    BY <2>1, CreateStep
  <2>3. rev[s].status \in {"OBSOLETE", "DELETED"} => rev'[s] = rev[s]
    BY <2>2 DEF Changed
  <2> QED
    BY <2>2, <2>3 DEF Retired
<1>3. CASE \E u \in Users : Stop(u)
  <2>1. PICK u \in Users : Stop(u)
    BY <1>3
  <2>2. /\ rev' = rev /\ torn \subseteq torn'
        /\ req[u].pc = "finish" => req[u].rev \in torn'
        /\ \A v \in Users \ {u} : req'[v] = req[v]
    BY <2>1, StopStep DEF Moves
  <2> QED
    BY <2>2 DEF Retired
<1>4. CASE \/ \E u \in Users : Submit(u) \/ ReadOffer(u) \/ PutOffer(u)
           \/ \E u \in Users, r \in Revisions : Open(u, r) \/ CheckDelete(u, r)
  <2>1. PICK u \in Users : /\ Moves(u) /\ rev' = rev /\ torn' = torn
                           /\ req[u].pc # "finish"
    BY <1>4, SubmitStep, ReadOfferStep, PutOfferStep, OpenStep
  <2>2. \A v \in Users : req[v].pc = "finish" => req'[v] = req[v]
    BY <2>1 DEF Moves
  <2> QED
    BY <2>1, <2>2 DEF Retired
<1>5. CASE UNCHANGED <<rev, req, torn>>
  BY <1>5 DEF Retired
<1> QED
  BY <1>1, <1>2, <1>3, <1>4, <1>5 DEF Next, EditOffer, Tick, vars

(* A copy of the offer is made from what was served when it was read. *)
LEMMA ReadOfferStored ==
  ASSUME IInv, Stored, NEW u \in Users, ReadOffer(u)
  PROVE  Begun(req'[u].copy) /\ KeptBy(u)'
<1> DEFINE r == req[u].rev
           d == req[u].doc
           t == req[u].at
<1>1. /\ req[u] \in Requests /\ req[u].pc = "offer" /\ r \in Revisions
      /\ d \in Docs /\ t \in Times /\ offer \in Offers /\ t <= now
      /\ d.status = "APPROVED" => d.start \in Times
  BY NoneAssumption DEF ReadOffer, IInv, TypeOK, Requests, Accepted, AcceptedBy, Pending,
                        Stored, StoredBy
<1>2. d.start \in Nat /\ d.end \in Nat /\ t \in Nat /\ now \in Nat
  BY <1>1, Bounds DEF IInv, TypeOK, Docs
<1>3. ASSUME d.status = "APPROVED",
             Become(u, [req[u] EXCEPT !.pc = "put", !.copy = Approved(offer, r, d, t)])
      PROVE  Begun(req'[u].copy) /\ KeptBy(u)'
  <2> DEFINE copy == Approved(offer, r, d, t)
  <2>1. req'[u].copy = copy
    BY <1>1, <1>3 DEF Become, IInv, TypeOK, Requests
  <2>2. CASE d.start <= t /\ d.end = NoDate
    <3>1. copy.current = r /\ copy.approved = {Entry(r, d, t)}
      BY <2>2 DEF Approved
    <3>2. /\ Entry(r, d, t).rev = r /\ Entry(r, d, t).end = Forever
          /\ Entry(r, d, t).start = d.start
      BY <2>2 DEF Entry
    <3>3. d.start <= now
      BY <1>1, <1>2, <2>2
    <3> HIDE DEF copy
    <3> QED
      BY <2>1, <3>1, <3>2, <3>3 DEF Begun, KeptBy
  <2>3. CASE ~(d.start <= t /\ d.end = NoDate)
    <3>1. copy.current = None /\ copy.approved = Others(offer, r) \cup {Entry(r, d, t)}
      BY <2>3 DEF Approved
    <3>2. \A e \in copy.approved : e.rev \in Revisions
      BY <1>1, <3>1 DEF Others, Entry, Offers, Entries
    <3> HIDE DEF copy
    <3> QED
      BY <2>1, <3>1, <3>2, NoneAssumption DEF Begun, KeptBy
  <2> QED
    BY <2>2, <2>3
<1>4. ASSUME d.status = "OBSOLETE",
             NEW c \in IF Resolved(offer, now) = {} THEN {None} ELSE Resolved(offer, now),
             Become(u, [req[u] EXCEPT !.pc = "put", !.copy = Obsoleted(offer, c, r, t)])
      PROVE  Begun(req'[u].copy) /\ KeptBy(u)'
  <2> DEFINE copy == Obsoleted(offer, c, r, t)
  <2>1. req'[u].copy = copy
    BY <1>1, <1>4 DEF Become, IInv, TypeOK, Requests
  <2>2. req'[u].rev = r /\ req'[u].doc = d
    BY <1>4, ReadOfferStep
  <2>3. /\ copy.current = IF c = r THEN None ELSE c
        /\ Others(offer, r) \subseteq copy.approved
        /\ \A e \in copy.approved : e.rev \in Revisions
    BY <1>1 DEF Obsoleted, Others, Offers, Entries
  <2>4. c # None => \E e \in offer.approved : e.rev = c /\ e.start <= now
    BY <1>4 DEF Resolved, Latest, Live, Stored, Begun
  <2> HIDE DEF copy
  <2>5. Begun(copy)
    BY <2>3, <2>4 DEF Begun, Others
  <2>6. copy.current # r
    BY <1>1, <2>3, NoneAssumption
  <2> QED
    BY <1>4, <2>1, <2>2, <2>5, <2>6 DEF KeptBy
<1> QED
  BY <1>3, <1>4 DEF ReadOffer

LEMMA NextStored == IInv /\ Stored /\ [Next]_vars => Stored'
<1> SUFFICES ASSUME IInv, Stored, [Next]_vars PROVE Stored'
  OBVIOUS
<1>1. offer \in Offers /\ \A v \in Users : req[v].copy \in Offers /\ req[v].at \in Nat
  BY Bounds DEF IInv, TypeOK
<1>2. \A s \in Revisions : Retired(s) => Retired(s)'
  BY RetiredStays
<1>3. now \in Nat /\ now' \in Nat /\ now <= now'
  BY ClockGoesOn
(* Of the requests, *)
<1>4. ASSUME NEW v \in Users, req'[v] = req[v] PROVE StoredBy(v)'
  <2>1. StoredBy(v)
    BY DEF Stored
  <2>2. req[v].pc \in Pending => req[v].at <= now'
    BY <1>1, <1>3, <2>1 DEF StoredBy
  <2>3. req[v].pc = "put" => Begun(req[v].copy)'
    BY <1>1, <1>4, <2>1, BegunStays DEF StoredBy, Begun
  <2>4. KeptBy(v)'
    BY <1>4, <2>1 DEF StoredBy, KeptBy
  <2> QED
    BY <1>4, <2>2, <2>3, <2>4 DEF StoredBy
<1>5. ASSUME NEW v \in Users, req'[v].pc \notin Pending PROVE StoredBy(v)'
  BY <1>5 DEF StoredBy, KeptBy, Pending
<1>6. ASSUME NEW v \in Users, Submit(v) PROVE StoredBy(v)'
  <2>1. req'[v].pc # "put"
    BY <1>6, SubmitStep
  <2>2. req'[v].at = now /\ now' = now
    BY <1>6 DEF Submit, Become, IInv, TypeOK
  <2> QED
    BY <1>3, <2>1, <2>2 DEF StoredBy, KeptBy
<1>7. ASSUME NEW v \in Users, ReadOffer(v) PROVE StoredBy(v)'
  <2>1. now' = now /\ req'[v].at = req[v].at /\ req[v].pc \in Pending
    BY <1>7, ReadOfferStep DEF Pending
  <2>2. req[v].at <= now
    BY <2>1 DEF Stored, StoredBy
  <2>3. Begun(req'[v].copy) /\ KeptBy(v)'
    BY <1>7, ReadOfferStored
  <2> QED
    BY <2>1, <2>2, <2>3 DEF StoredBy, Begun
<1>8. ASSUME NEW v \in Users, PutOffer(v) PROVE StoredBy(v)'
  <2>1. now' = now /\ req'[v].at = req[v].at /\ req[v].pc \in Pending /\ req'[v].pc = "finish"
    BY <1>8, PutOfferStep DEF Pending
  <2>2. req[v].at <= now
    BY <2>1 DEF Stored, StoredBy
  <2> QED
    BY <2>1, <2>2 DEF StoredBy, KeptBy
<1>9. \A v \in Users : StoredBy(v)'
  <2> SUFFICES ASSUME NEW v \in Users PROVE StoredBy(v)'
    OBVIOUS
  <2>1. ASSUME NEW u \in Users,
               \/ Submit(u) \/ ReadOffer(u) \/ PutOffer(u) \/ PutRevision(u) \/ Stop(u) \/ Delete(u)
               \/ \E r \in Revisions : Open(u, r) \/ CheckDelete(u, r)
        PROVE  StoredBy(v)'
    <3>1. CASE v # u
      <4>1. Moves(u)
        BY <2>1, SubmitStep, ReadOfferStep, PutOfferStep, PutRevisionStep, StopStep,
           DeleteStep, OpenStep
      <4> QED
        BY <1>4, <3>1, <4>1 DEF Moves
    <3>2. CASE v = u
      <4>1. PutRevision(u) \/ Stop(u) \/ Delete(u)
              \/ (\E r \in Revisions : Open(u, r) \/ CheckDelete(u, r))
              => req'[u].pc \notin Pending
        BY PutRevisionStep, StopStep, DeleteStep, OpenStep DEF Pending
      <4> QED
        BY <1>5, <1>6, <1>7, <1>8, <2>1, <3>2, <4>1
    <3> QED
      BY <3>1, <3>2
  <2>2. CASE UNCHANGED req
    BY <1>4, <2>2
  <2> QED
    BY <2>1, <2>2 DEF Next, Create, EditOffer, Tick, vars
(* and of the offer. *)
<1>10. ASSUME offer'.current = offer.current, offer'.approved = offer.approved
       PROVE  Begun(offer)' /\ Kept'
  <2>1. Begun(offer)'
    BY <1>1, <1>10, BegunStays DEF Stored, Begun
  <2>2. Kept'
    BY <1>2, <1>10 DEF Stored, Kept
  <2> QED
    BY <2>1, <2>2
<1>11. ASSUME NEW u \in Users, PutOffer(u) PROVE Begun(offer)' /\ Kept'
  <2>1. /\ now' = now /\ offer'.current = req[u].copy.current
        /\ offer'.approved = req[u].copy.approved
        /\ req[u].pc = "put" /\ req'[u].pc = "finish"
        /\ req'[u].rev = req[u].rev /\ req'[u].doc = req[u].doc
    BY <1>11, PutOfferStep
  <2>2. Begun(req[u].copy) /\ KeptBy(u)
    BY <2>1 DEF Stored, StoredBy
  <2>3. Begun(offer)'
    BY <2>1, <2>2 DEF Begun
  <2>4. req[u].rev \in Revisions
    BY <2>1, NoneAssumption DEF IInv, TypeOK
  <2>5. req[u].doc.status = "OBSOLETE" => Retired(req[u].rev)'
    BY <2>1 DEF Retired
  <2>6. Kept'
    BY <2>1, <2>2, <2>4, <2>5 DEF Kept, KeptBy
  <2> QED
    BY <2>3, <2>6
<1>12. offer' = offer \/ EditOffer \/ \E u \in Users : PutOffer(u)
  BY DEF Next, Submit, ReadOffer, PutRevision, Stop, Delete, Open, CheckDelete, Create,
         Tick, vars
<1> QED
  BY <1>9, <1>10, <1>11, <1>12, EditStep DEF Stored

LEMMA ServedAgrees ==
  ASSUME IInv, Ended, Stored
  PROVE  ServedIsApproved
<1> SUFFICES ASSUME NEW r \in Resolved(offer, now), ~Ahead(r), rev[r].status # "DELETED"
             PROVE  \/ InForce(r)
                    \/ /\ r = offer.current /\ \E s \in Revisions \ {r} : Retired(s)
                       /\ rev[r].status \in {"APPROVED", "OBSOLETE"} /\ rev[r].start <= now
                       /\ rev[r].end # NoDate /\ rev[r].end <= now
  BY DEF ServedIsApproved
<1>1. PICK e \in offer.approved :
        /\ e.rev = r /\ e.start <= now
        /\ r = offer.current \/ e.end > now
  BY DEF Resolved, Latest, Live, Stored, Begun
<1>2. r \in Revisions /\ now \in Nat /\ now < Forever /\ Forever \in Nat
  BY <1>1, Bounds DEF IInv, TypeOK, Offers, Entries
<1>3. rev[r].status \in {"APPROVED", "OBSOLETE"} /\ e = Entry(r, rev[r], e.at)
  BY <1>1 DEF IInv, DocumentsAgree
<1>4. /\ e.start = rev[r].start
      /\ rev[r].end # NoDate => e.end = rev[r].end
      /\ rev[r].end = NoDate => e.end = Forever
  BY <1>3 DEF Entry
<1>5. rev[r].end \in Dates /\ rev[r].end \in Nat /\ Past(rev[r])
  BY <1>2, Bounds DEF IInv, TypeOK, Docs, Ended
<1>6. CASE e.end > now
  BY <1>1, <1>2, <1>3, <1>4, <1>5, <1>6 DEF Past, InForce
<1>7. CASE ~(e.end > now)
  <2>1. r = offer.current /\ rev[r].end # NoDate /\ rev[r].end <= now
    BY <1>1, <1>2, <1>4, <1>5, <1>7
  <2>2. e.end # Forever
    BY <1>2, <1>7
  <2>3. \E s \in Revisions \ {r} : Retired(s)
    BY <1>1, <2>1, <2>2 DEF Stored, Kept
  <2> QED
    BY <1>1, <1>3, <1>4, <2>1, <2>3
<1> QED
  BY <1>6, <1>7

(* What an offer serves was approved and has begun; and it is approved and in
   force still, unless it is the current revision an obsoletion of another one
   stored. *)
THEOREM OnlyApprovedIsServed == Spec => []ServedIsApproved
<1>1. Init => Ended /\ Stored
  BY DEF Init, Ended, Past, Pending, Idle, NoDoc, NoOffer, Stored, StoredBy, KeptBy, Kept,
         Begun
<1> QED
  BY <1>1, NextEnded, NextStored, ServedAgrees, Invariant, PTL DEF Spec
==============================================================================
