-------------------------------- MODULE Offers --------------------------------
(***************************************************************************)
(* One offer of the catalog and its revisions: drafted, submitted for      *)
(* review, approved, made obsolete or deleted, by users whose pages are    *)
(* out of date.  An approval writes two documents, the offer first and     *)
(* then the revision, each of them only if it is still the one that was    *)
(* read (Cloudant answers 409 otherwise), and nothing undoes the first     *)
(* when the second fails.                                                  *)
(*                                                                         *)
(* Sources: catalog-core OfferServiceImpl, BaseRevisionedServiceImpl and   *)
(* OfferRevisionValidator, catalog-db OfferRepositoryImpl, the catalog     *)
(* admin page (controllers.js), CloudantClientImpl.  Of the contents of a  *)
(* revision the dates are kept, which tell one content from another; the   *)
(* copy of the active revision kept in the offer for searching is not.     *)
(* The deletion of the whole offer (deleteEntity), which ends the history  *)
(* told here, is left out.                                                 *)
(***************************************************************************)
EXTENDS Naturals

CONSTANTS Users, Revisions,
          MaxTime,  \* bound: the clock runs from 1 to MaxTime
          MaxTag,   \* bound: a draft that has been written so often is left alone
          MaxPuts,  \* bound: how often the offer is written
          Forms,    \* bound: the states and dates users enter, a set of records
          None

ASSUME BoundsAssumption == MaxTime \in Nat \ {0} /\ MaxTag \in Nat /\ MaxPuts \in Nat
ASSUME NoneAssumption == None \notin Revisions

Times   == 1 .. MaxTime
NoDate  == 0              \* null
Forever == MaxTime + 1    \* Utils.maxDate()
Dates   == Times \cup {NoDate}

Statuses == {"DRAFT", "PENDING_REVIEW", "REJECTED", "APPROVED", "OBSOLETE"}

ASSUME FormsAssumption == Forms \subseteq [status : Statuses, start : Dates, end : Dates]

\* The documents, with the tag the store gives to each version (_rev).
Docs    == [status : Statuses \cup {"NONE", "DELETED"}, start : Dates, end : Dates, tag : Nat]
Entries == [rev : Revisions, at : Times, start : Times, end : Times \cup {Forever}]
Offers  == [current : Revisions \cup {None}, approved : SUBSET Entries, tag : Nat]

VARIABLES
  now,    \* the clock of the servers
  rev,    \* the revisions
  offer,  \* the offer: its current revision, if it is persisted, and approvedRevisions
  req,    \* where the request, or the page, of each user is
  torn    \* history: revisions of which a request wrote the offer, but not the revision

vars == <<now, rev, offer, req, torn>>

\* A request: on revision rev, with the document to write, the offer to write,
\* and the time it was accepted.
NoDoc   == [status |-> "NONE", start |-> NoDate, end |-> NoDate, tag |-> 0]
NoOffer == [current |-> None, approved |-> {}, tag |-> 0]
Idle    == [pc |-> "idle", rev |-> None, doc |-> NoDoc, copy |-> NoOffer, at |-> NoDate]

Places == {"idle", "page", "offer", "put", "write", "finish", "delete"}

TypeOK ==
  /\ now \in Times
  /\ rev \in [Revisions -> Docs]
  /\ offer \in Offers
  /\ req \in [Users -> [pc : Places, rev : Revisions \cup {None}, doc : Docs,
                        copy : Offers, at : Dates]]
  /\ \A u \in Users : req[u].pc # "idle" => req[u].rev # None
  /\ torn \subseteq Revisions

Init ==
  /\ now = 1
  /\ rev = [r \in Revisions |-> NoDoc]
  /\ offer = NoOffer
  /\ req = [u \in Users |-> Idle]
  /\ torn = {}

Become(u, q) == req' = [req EXCEPT ![u] = q]
Leave(u)     == Become(u, Idle)

------------------------------------------------------------------------------
\* Which revision is served.

\* getCurrentRevisionId: the latest approved of those whose time it is.  Of two
\* approved at one instant the order of a hash map decides.
Live(o, t) == {e \in o.approved : e.start <= t /\ e.end > t}
Latest(entries) == {e \in entries : \A f \in entries : f.at <= e.at}
Resolved(o, t) ==
  IF o.current # None THEN {o.current}
  ELSE {e.rev : e \in Latest(Live(o, t))}

------------------------------------------------------------------------------
\* What an approval, or an obsoletion, makes of the offer.

\* A mutant, which the runs must notice: a missing end stays missing.
EntryAsIs(r, d, t) == [rev |-> r, at |-> t, start |-> d.start, end |-> d.end]

\* getRevisionInfo
Entry(r, d, t) ==
  [rev |-> r, at |-> t, start |-> d.start,
   end |-> IF d.end = NoDate THEN Forever ELSE d.end]

Others(o, r) == {e \in o.approved : e.rev # r}

\* A mutant, which the runs must notice: every approval clears the others.
AlwaysClears(o, r, d, t) ==
  [current |-> IF d.start <= t /\ d.end = NoDate THEN r ELSE None,
   approved |-> {Entry(r, d, t)}, tag |-> o.tag]

\* updateOfferForApprovedRevision: a revision in force without an end replaces
\* all others; after any other approval the current one is found at each GET.
Approved(o, r, d, t) ==
  IF d.start <= t /\ d.end = NoDate
  THEN [current |-> r, approved |-> {Entry(r, d, t)}, tag |-> o.tag]
  ELSE [current |-> None, approved |-> Others(o, r) \cup {Entry(r, d, t)}, tag |-> o.tag]

\* A mutant, which the runs must notice: the entry of the revision is forgotten.
StaysListed(o, c, r, t) ==
  [current |-> IF c = r THEN None ELSE c, approved |-> o.approved, tag |-> o.tag]

\* updateOfferForObsoleteRevision, c being the current revision getEntity found.
Obsoleted(o, c, r, t) ==
  [current |-> IF c = r THEN None ELSE c,
   approved |-> Others(o, r) \cup {[e EXCEPT !.end = t] : e \in o.approved \ Others(o, r)},
   tag |-> o.tag]

------------------------------------------------------------------------------
\* Users and their requests.

Draft(f) == [status |-> f.status, start |-> f.start, end |-> f.end, tag |-> 1]

\* createRevision: "status" must match DRAFT.
Create(r) ==
  /\ rev[r].status = "NONE"
  /\ \E f \in Forms : f.status = "DRAFT" /\ rev' = [rev EXCEPT ![r] = Draft(f)]
  /\ UNCHANGED <<now, offer, req, torn>>

\* The page of a revision loads it; of what it shows the tag matters, the rest
\* is edited.  An obsolete revision can be looked at, no more.
Open(u, r) ==
  /\ req[u].pc = "idle"
  /\ rev[r].status \notin {"NONE", "DELETED", "OBSOLETE"}
  /\ rev[r].status = "APPROVED" \/ rev[r].tag < MaxTag
  /\ Become(u, [Idle EXCEPT !.pc = "page", !.rev = r, !.doc.tag = rev[r].tag])
  /\ UNCHANGED <<now, rev, offer, torn>>

\* "obsolete is the final status", "approved status can only be changed to
\* obsolete", and only that.
Permitted(old, new) ==
  /\ old # "OBSOLETE"
  /\ old = "APPROVED" <=> new = "OBSOLETE"

\* validateFull, validateUpdateBasic: the page shows the latest version, and an
\* end does not precede its start.
Valid(r, d) ==
  /\ d.tag = rev[r].tag
  /\ d.status \in {"APPROVED", "PENDING_REVIEW"}
       => d.start = NoDate \/ d.end = NoDate \/ d.start <= d.end

\* An approval starts now at the earliest; an obsoletion keeps the stored
\* content and ends now at the latest.
Stamped(r, d) ==
  CASE d.status = "APPROVED" -> [d EXCEPT !.start = IF @ < now THEN now ELSE @]
    [] d.status = "OBSOLETE" ->
         [rev[r] EXCEPT !.status = "OBSOLETE",
                        !.end = IF @ = NoDate \/ @ > now THEN now ELSE @]
    [] OTHER -> d

\* A mutant, which the runs must notice: the offer hears of approvals alone.
ApprovalsOnly(r, d) == d.status = "APPROVED"

\* An approval, and the obsoletion of what has not ended, go to the offer first.
TellsOffer(r, d) ==
  \/ d.status = "APPROVED"
  \/ d.status = "OBSOLETE" /\ (rev[r].end = NoDate \/ rev[r].end > now)

\* updateRevision, on a page that has been edited, up to its first write.
Submit(u) ==
  /\ req[u].pc = "page"
  /\ \E f \in Forms :
       LET r == req[u].rev
           d == [status |-> f.status, start |-> f.start, end |-> f.end, tag |-> req[u].doc.tag]
       IN  /\ rev[r].status \notin {"NONE", "DELETED"}
           /\ Permitted(rev[r].status, d.status)
           /\ Valid(r, d)
           /\ Become(u, [pc |-> IF TellsOffer(r, d) THEN "offer" ELSE "write",
                         rev |-> r, doc |-> Stamped(r, d), copy |-> NoOffer, at |-> now])
  /\ UNCHANGED <<now, rev, offer, torn>>

\* The offer is read, and what the request will make of it.
ReadOffer(u) ==
  /\ req[u].pc = "offer" /\ offer.tag < MaxPuts
  /\ LET r == req[u].rev
         d == req[u].doc
     IN  \/ /\ d.status = "APPROVED"
            /\ Become(u, [req[u] EXCEPT !.pc = "put", !.copy = Approved(offer, r, d, req[u].at)])
         \/ /\ d.status = "OBSOLETE"
            /\ \E c \in IF Resolved(offer, now) = {} THEN {None} ELSE Resolved(offer, now) :
                 Become(u, [req[u] EXCEPT !.pc = "put",
                                          !.copy = Obsoleted(offer, c, r, req[u].at)])
  /\ UNCHANGED <<now, rev, offer, torn>>

\* A mutant, which the runs must notice: the store takes the offer as it comes.
AnyOffer(copy) == TRUE

\* Cloudant takes a document only with the tag of the one it has.
SameOffer(copy) == copy.tag = offer.tag

PutOffer(u) ==
  /\ req[u].pc = "put"
  /\ SameOffer(req[u].copy)
  /\ offer' = [req[u].copy EXCEPT !.tag = offer.tag + 1]
  /\ Become(u, [req[u] EXCEPT !.pc = "finish", !.copy = NoOffer])
  /\ UNCHANGED <<now, rev, torn>>

\* A mutant, which the runs must notice: the store takes the revision as it comes.
AnyDoc(r, d) == TRUE

SameDoc(r, d) == d.tag = rev[r].tag

PutRevision(u) ==
  /\ req[u].pc \in {"write", "finish"}
  /\ SameDoc(req[u].rev, req[u].doc)
  /\ rev' = [rev EXCEPT ![req[u].rev] = [req[u].doc EXCEPT !.tag = rev[req[u].rev].tag + 1]]
  /\ Leave(u)
  /\ UNCHANGED <<now, offer, torn>>

\* The request is over: refused, in conflict (409), or its server died.
Stop(u) ==
  /\ req[u].pc # "idle"
  /\ torn' = torn \cup (IF req[u].pc = "finish" THEN {req[u].rev} ELSE {})
  /\ Leave(u)
  /\ UNCHANGED <<now, rev, offer>>

\* deleteRevision: the status is looked at, ...
CheckDelete(u, r) ==
  /\ req[u].pc = "idle"
  /\ rev[r].status \in {"DRAFT", "PENDING_REVIEW", "REJECTED"}
  /\ Become(u, [Idle EXCEPT !.pc = "delete", !.rev = r])
  /\ UNCHANGED <<now, rev, offer, torn>>

\* ... and the revision is read again and deleted, whatever it has become.
Delete(u) ==
  /\ req[u].pc = "delete"
  /\ rev' = [rev EXCEPT ![req[u].rev] = [NoDoc EXCEPT !.status = "DELETED",
                                                      !.tag = rev[req[u].rev].tag + 1]]
  /\ Leave(u)
  /\ UNCHANGED <<now, offer, torn>>

\* updateEntity: the rest of the offer is edited.
EditOffer ==
  /\ offer.tag < MaxPuts
  /\ offer' = [offer EXCEPT !.tag = @ + 1]
  /\ UNCHANGED <<now, rev, req, torn>>

Tick ==
  /\ now < MaxTime
  /\ now' = now + 1
  /\ UNCHANGED <<rev, offer, req, torn>>

Next ==
  \/ \E u \in Users : \/ Submit(u) \/ ReadOffer(u) \/ PutOffer(u) \/ PutRevision(u)
                      \/ Stop(u) \/ Delete(u)
                      \/ \E r \in Revisions : Open(u, r) \/ CheckDelete(u, r)
  \/ \E r \in Revisions : Create(r)
  \/ EditOffer \/ Tick

Spec == Init /\ [][Next]_vars

------------------------------------------------------------------------------
\* Properties.

\* What has been approved keeps its content and its start until it is made
\* obsolete, and that is final, although pages are out of date and requests
\* overlap.  Only a deletion that was accepted while the revision was not
\* approved may still remove it.
ApprovedIsFinal ==
  [][\A r \in Revisions :
       rev[r].status \in {"APPROVED", "OBSOLETE"} /\ rev'[r] # rev[r] =>
         \/ /\ rev[r].status = "APPROVED" /\ rev'[r].status = "OBSOLETE"
            /\ rev'[r].start = rev[r].start
            /\ rev[r].end # NoDate => rev'[r].end <= rev[r].end
         \/ \E u \in Users : req[u].pc = "delete" /\ req[u].rev = r]_vars

\* Of two approvals that overlap neither is lost: an entry leaves the offer only
\* when an approval without an end takes its place.
ApprovalsKept ==
  [][\A r \in {e.rev : e \in offer.approved} \ {e.rev : e \in offer'.approved} :
       \E e \in offer'.approved : offer'.current = e.rev /\ e.end = Forever]_vars

\* An offer on sale stays on sale: while the revision it serves is in force, it
\* ceases only because of a request about that very revision, an obsoletion or a
\* second approval that overlaps the first.
OnSale(o, t) == {e.rev : e \in Live(o, t)} \cap Resolved(o, t)
StaysOnSale ==
  [][OnSale(offer, now) # {} /\ Resolved(offer', now) = {} =>
       \E u \in Users : /\ req[u].pc = "put"
                        /\ req[u].rev \in OnSale(offer, now)]_vars

\* The two documents agree: unless a request stopped, or has yet to go on,
\* between writing the one and the other, what the offer lists has been
\* approved, with the dates it lists, and the current revision is listed.
Ahead(r) == r \in torn \/ \E u \in Users : req[u].pc = "finish" /\ req[u].rev = r
DocumentsAgree ==
  /\ offer.current # None => \E e \in offer.approved : e.rev = offer.current
  /\ \A e \in offer.approved :
       \/ Ahead(e.rev)
       \/ rev[e.rev].status = "DELETED"
       \/ /\ rev[e.rev].status \in {"APPROVED", "OBSOLETE"}
          /\ e = Entry(e.rev, rev[e.rev], e.at)

\* What an offer serves was approved and has begun, although pages are out of
\* date, requests overlap and the two documents are written apart; and it is
\* approved and in force still, but for one case.  The obsoletion of a revision
\* stores the current revision it found, with an end or without, and that is
\* served from then on, also when its end is over, and when it has been made
\* obsolete after its end, of which the offer is not told.  So what is served
\* out of force is the stored current revision, and another one was made
\* obsolete before.  Between the two writes of a request, or when the second was
\* never made, the offer may be ahead of the revision.
InForce(r) == /\ rev[r].status = "APPROVED" /\ rev[r].start <= now
              /\ rev[r].end = NoDate \/ rev[r].end > now
Retired(s) ==
  \/ s \in torn \/ rev[s].status \in {"OBSOLETE", "DELETED"}
  \/ \E u \in Users : /\ req[u].pc = "finish" /\ req[u].rev = s
                       /\ req[u].doc.status = "OBSOLETE"
ServedIsApproved ==
  \A r \in Resolved(offer, now) :
    \/ Ahead(r) \/ rev[r].status = "DELETED"
    \/ InForce(r)
    \/ /\ r = offer.current /\ \E s \in Revisions \ {r} : Retired(s)
       /\ rev[r].status \in {"APPROVED", "OBSOLETE"} /\ rev[r].start <= now
       /\ rev[r].end # NoDate /\ rev[r].end <= now
==============================================================================
