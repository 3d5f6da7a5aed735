------------------------------ MODULE TxManager ------------------------------
(***************************************************************************)
(* Transactions over several data sources (com.junbo.sharding.transaction) *)
(* driven by Spring's JtaTransactionManager, which is outside the          *)
(* repository: REQUIRED begins a transaction where none is current,        *)
(* REQUIRES_NEW suspends the current one and begins another, and resumes   *)
(* the first when the second is over.                                      *)
(*                                                                         *)
(* A context is the set of thread locals of a request.  Its transactions   *)
(* are a stack: the last is CURRENT_TRANSACTION, the others are suspended. *)
(* The first connection a transaction takes from a data source is enlisted *)
(* until the transaction is over; commit and rollback visit the enlisted   *)
(* connections one after the other, and the process may die between two.   *)
(***************************************************************************)
EXTENDS Integers, Sequences, FiniteSets

CONSTANTS
  Contexts,   \* requests in service
  MaxTx,      \* bound: how many transactions are begun
  MaxDepth,   \* bound: how many transactions of a context are suspended, plus one
  Sources,    \* SimpleDataSourceProxy: a schema at some JDBC url
  Conns,      \* the connections of all pools
  PoolOf,     \* the connections of the pool a source draws from: one per url
  NoSource    \* not waiting for a connection

ASSUME BoundsAssumption == MaxTx \in Nat /\ MaxDepth \in Nat
ASSUME SourcesAssumption == NoSource \notin Sources /\ PoolOf \in [Sources -> SUBSET Conns]

VARIABLES
  running,  \* the transactions of each context, the current one last
  status,   \* SimpleTransactionObject.status
  cons,     \* SimpleTransactionObject.enlistedDataSources, in order
  out,      \* what became of the first of them in the database
  fault,    \* the place of the connection that threw first; 0 if none has
  want,     \* the source a context waits for a connection of
  free      \* the idle connections of the pools

vars == <<running, status, cons, out, fault, want, free>>

Txs == 1 .. MaxTx
Statuses == {"none", "active", "marked", "committing", "rolling",
             "committed", "rolledback", "unknown", "lost"}
Enlisted == [source: Sources, con: Conns]

Busy(c) == running[c] # <<>>
Current(c) == running[c][Len(running[c])]

(* The application's code has the thread: no transaction is being completed,
   and it does not wait for a connection.                                   *)
Open(c) == Busy(c) /\ status[Current(c)] \in {"active", "marked"} /\ want[c] = NoSource

Live(i) == \E c \in Contexts : \E n \in DOMAIN running[c] : running[c][n] = i
ConsOf(i) == {cons[i][n].con : n \in DOMAIN cons[i]}
SourcesOf(i) == {cons[i][n].source : n \in DOMAIN cons[i]}
Idle(d) == free \cap PoolOf[d]

(* Mutants, which the runs must notice. *)
NothingOnFault(i) == IF fault[i] = 0 THEN ConsOf(i) ELSE {}
GoesOn(i) == TRUE
RolledBackAlways(i) == IF fault[i] = 0 THEN "committed" ELSE "rolledback"
Never(c) == FALSE
Heedless(i) == "committing"
Overrun(c, st) == Busy(c) /\ status[Current(c)] = st
-----------------------------------------------------------------------------
Init ==
  /\ running = [c \in Contexts |-> <<>>]
  /\ status = [i \in Txs |-> "none"]
  /\ cons = [i \in Txs |-> <<>>] /\ out = [i \in Txs |-> <<>>]
  /\ fault = [i \in Txs |-> 0]
  /\ want = [c \in Contexts |-> NoSource]
  /\ free = Conns

(* SimpleTransactionManager.begin, after suspend() if one is current. *)
Start(c, i) ==
  /\ Busy(c) => Open(c)
  /\ Len(running[c]) < MaxDepth /\ want[c] = NoSource
  /\ status[i] = "none" /\ \A j \in Txs : j < i => status[j] # "none"
  /\ running' = [running EXCEPT ![c] = Append(@, i)]
  /\ status' = [status EXCEPT ![i] = "active"]
  /\ UNCHANGED <<cons, out, fault, want, free>>

(* SimpleDataSourceProxy.getConnection: none of this source is enlisted, so
   the pool is asked; a transaction marked rollback-only is refused one.    *)
Ask(c, d) ==
  /\ Open(c) /\ status[Current(c)] = "active" /\ d \notin SourcesOf(Current(c))
  /\ want' = [want EXCEPT ![c] = d]
  /\ UNCHANGED <<running, status, cons, out, fault, free>>

(* doGetConnection has a connection in the right schema: it is enlisted. *)
Connect(c, k) ==
  /\ want[c] # NoSource /\ k \in Idle(want[c])
  /\ free' = free \ {k}
  /\ cons' = [cons EXCEPT ![Current(c)] = Append(@, [source |-> want[c], con |-> k])]
  /\ want' = [want EXCEPT ![c] = NoSource]
  /\ UNCHANGED <<running, status, out, fault>>

(* SET SCHEMA fails: the connection is closed and the code gets an exception. *)
SchemaFails(c) ==
  /\ want[c] # NoSource /\ Idle(want[c]) # {}
  /\ want' = [want EXCEPT ![c] = NoSource]
  /\ UNCHANGED <<running, status, cons, out, fault, free>>

(* The pool throws when connectionTimeout has passed and it is still empty. *)
Expired(c) == want[c] # NoSource /\ Idle(want[c]) = {}
TimeOut(c) ==
  /\ Expired(c)
  /\ want' = [want EXCEPT ![c] = NoSource]
  /\ UNCHANGED <<running, status, cons, out, fault, free>>

(* A method that takes part in the transaction of its caller throws. *)
SetRollbackOnly(c) ==
  /\ Open(c)
  /\ status' = [status EXCEPT ![Current(c)] = "marked"]
  /\ UNCHANGED <<running, cons, out, fault, want, free>>

(* commit(): a transaction marked rollback-only, or whose beforeCompletion
   (the flush of its Hibernate sessions) throws, is rolled back.           *)
Decided(i) == IF status[i] = "marked" THEN "rolling" ELSE "committing"
Commit(c) ==
  /\ Open(c)
  /\ \E next \in {Decided(Current(c)), "rolling"} :
       status' = [status EXCEPT ![Current(c)] = next]
  /\ UNCHANGED <<running, cons, out, fault, want, free>>

Rollback(c) ==
  /\ Open(c)
  /\ status' = [status EXCEPT ![Current(c)] = "rolling"]
  /\ UNCHANGED <<running, cons, out, fault, want, free>>

(* The next enlisted connection of a transaction that is being completed. *)
Due(c, st) ==
  Busy(c) /\ status[Current(c)] = st /\ Len(out[Current(c)]) < Len(cons[Current(c)])
Visit(i, outcome, threw) ==
  /\ out' = [out EXCEPT ![i] = Append(@, outcome)]
  /\ fault' = [fault EXCEPT ![i] = IF threw /\ @ = 0 THEN Len(out[i]) + 1 ELSE @]
  /\ UNCHANGED <<running, status, cons, want, free>>

(* The loop of commit(): it commits until a commit throws (the database may
   have committed all the same), and rolls back the connections after that. *)
StillCommits(i) == fault[i] = 0
CommitNext(c) ==
  LET i == Current(c)
  IN  /\ Due(c, "committing")
      /\ IF StillCommits(i)
         THEN \/ Visit(i, "committed", FALSE)
              \/ \E outcome \in {"committed", "rolledback"} : Visit(i, outcome, TRUE)
         ELSE Visit(i, "rolledback", FALSE)

(* The loop of rollback(): whatever a connection throws, the next is visited. *)
RollbackNext(c) ==
  Due(c, "rolling") /\ \E threw \in BOOLEAN : Visit(Current(c), "rolledback", threw)

(* The status reported: after a failed commit, by whether it was the first. *)
Verdict(i) ==
  IF fault[i] = 0 THEN "committed" ELSE IF fault[i] = 1 THEN "rolledback" ELSE "unknown"

(* cleanup() gives the connections back to their pools. *)
Returned(i) == ConsOf(i)

(* fireAfterCompletionEvent: cleanup, no transaction is current; Spring then
   resumes the suspended one.                                               *)
Complete(c) ==
  LET i == Current(c)
  IN  /\ Busy(c) /\ status[i] \in {"committing", "rolling"} /\ Len(out[i]) = Len(cons[i])
      /\ status' = [status EXCEPT ![i] =
           IF @ = "committing" THEN Verdict(i)
           ELSE IF fault[i] = 0 THEN "rolledback" ELSE "unknown"]
      /\ free' = free \cup Returned(i)
      /\ running' = [running EXCEPT ![c] = SubSeq(@, 1, Len(@) - 1)]
      /\ UNCHANGED <<cons, out, fault, want>>

(* The process dies; the databases roll back what has not been committed. *)
Crash ==
  /\ running' = [c \in Contexts |-> <<>>]
  /\ status' = [i \in Txs |-> IF Live(i) THEN "lost" ELSE status[i]]
  /\ want' = [c \in Contexts |-> NoSource]
  /\ free' = Conns
  /\ UNCHANGED <<cons, out, fault>>

Step(c) ==
  \/ \E k \in Conns : Connect(c, k)
  \/ SchemaFails(c) \/ TimeOut(c)
  \/ CommitNext(c) \/ RollbackNext(c) \/ Complete(c)
End(c) == Commit(c) \/ Rollback(c)
Code(c) == (\E i \in Txs : Start(c, i)) \/ (\E d \in Sources : Ask(c, d)) \/ SetRollbackOnly(c)

Next == Crash \/ \E c \in Contexts : Step(c) \/ End(c) \/ Code(c)

Spec == Init /\ [][Next]_vars

(* A waiting or completing thread goes on; the code of a transaction ends it
   sooner or later, for it asks for connections finitely often.             *)
Fairness == \A c \in Contexts : WF_vars(Step(c)) /\ SF_vars(End(c))
FairSpec == Spec /\ Fairness
-----------------------------------------------------------------------------
(* Every variable has its type, and completion visits no more connections than
   are enlisted.                                                            *)
TypeOK ==
  /\ running \in [Contexts -> Seq(Txs)]
  /\ status \in [Txs -> Statuses]
  /\ cons \in [Txs -> Seq(Enlisted)]
  /\ out \in [Txs -> Seq({"committed", "rolledback"})]
  /\ fault \in [Txs -> Nat]
  /\ \A i \in Txs : fault[i] <= Len(out[i]) /\ Len(out[i]) <= Len(cons[i])
  /\ want \in [Contexts -> Sources \cup {NoSource}]
  /\ free \subseteq Conns

(* No connection is lost and none is shared: each is idle or enlisted once, in
   one transaction that is current or suspended somewhere, on every path of
   commit, rollback and failure.                                            *)
ConnectionsAccounted ==
  /\ \A k \in Conns : k \in free \/ \E i \in Txs : Live(i) /\ k \in ConsOf(i)
  /\ \A i \in Txs : Live(i) => ConsOf(i) \cap free = {}
  /\ \A i, j \in Txs : Live(i) /\ Live(j) =>
       \A m \in DOMAIN cons[i], n \in DOMAIN cons[j] :
         cons[i][m].con = cons[j][n].con => i = j /\ m = n

(* "Just One Phase Commit": a transaction may be committed in part, after a
   failed commit or a crash, but then in the data sources it used first: where
   a later one has committed, every earlier one has.                        *)
CommittedPrefix ==
  \A i \in Txs : \A m, n \in DOMAIN out[i] :
    m < n /\ out[i][n] = "committed" => out[i][m] = "committed"

(* The status a caller is told of is true of the databases: COMMITTED, that all
   have committed; ROLLEDBACK, that none has, the first one's failed commit
   excepted.                                                                *)
VerdictTrue ==
  \A i \in Txs :
    /\ status[i] = "committed" => Len(out[i]) = Len(cons[i]) /\ \A n \in DOMAIN out[i] : out[i][n] = "committed"
    /\ status[i] = "rolledback" => \A n \in DOMAIN out[i] : n > 1 => out[i][n] = "rolledback"

(* Nothing of a transaction once marked rollback-only is ever committed,
   whatever the code that marked it or its callers do next.                 *)
MarkedNeverCommits ==
  \A i \in Txs : [](status[i] = "marked" => [](\A n \in DOMAIN out[i] : out[i][n] = "rolledback"))

(* Whatever waits for whom, every transaction ends: one that holds a connection
   and waits for another of an exhausted pool gets one or is told no.       *)
EveryTxEnds == \A i \in Txs : Live(i) ~> ~ Live(i)
=============================================================================
