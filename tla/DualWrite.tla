------------------------------ MODULE DualWrite ------------------------------
(***************************************************************************)
(* Dual writing of documents: the SQL database is the primary store, and   *)
(* every committed change is recorded beside it as a pending action, which *)
(* is replayed on the Cloudant store: once by a task of the request that   *)
(* committed it, and by a periodic job for as long as it stays pending.    *)
(* The replay reads and writes Cloudant through a shared memcached.        *)
(*                                                                         *)
(* Sources: silkcloud-core sharding/dualwrite and common/cloudant/client,  *)
(* silkcloud-jobs DualWriteJob and DualWriteProcessorImpl.  An age is the  *)
(* resourceAge (the @Version of the row) plus one, so that 0 is absence.   *)
(***************************************************************************)
EXTENDS Naturals, FiniteSets

CONSTANTS Docs,       \* documents, each one row of the primary
          Workers,    \* threads that replay: of requests and of the job
          MaxAge,     \* bound: saves and deletes of one document
          MaxRetry,   \* common.sharding.pendingAction.maxRetryCount
          MaxFaults,  \* bound: crashes and failing requests
          Miss,       \* no entry in memcached
          NoAction

ASSUME BoundAssumption == MaxAge \in Nat /\ MaxRetry \in Nat /\ MaxFaults \in Nat

Row    == [age : Nat, live : BOOLEAN]
Value  == [age : Nat, rev : Nat]          \* a document; age 0: there is none
Action == [doc : Docs, kind : {"save", "delete"}, age : Nat,
           typed : BOOLEAN, retry : Nat]

ASSUME MarkerAssumption == Miss \notin Value /\ NoAction \notin Action

VARIABLES
  sql,      \* sql[d] = the committed row
  tx,       \* tx[d] = pending action of the open transaction on d
  pending,  \* pending_action table
  tasks,    \* replays registered by afterCommit, not yet started
  store,    \* store[d] = document or tombstone in Cloudant, with its _rev
  cache,    \* cache[d] = memcached entry
  phase, act, byJob, seen, wrote,  \* the replay worker w is in
  faults

vars == <<sql, tx, pending, tasks, store, cache,
          phase, act, byJob, seen, wrote, faults>>
primaryVars == <<sql, tx, pending, tasks>>
workerVars  == <<phase, act, byJob, seen, wrote>>

Phases  == {"idle", "read", "fill", "write", "sync", "forget"}
Null    == [age |-> 0, rev |-> 0]

Same(a, b) == a.doc = b.doc /\ a.age = b.age     \* one row of pending_action

TypeOK ==
  /\ sql \in [Docs -> Row]
  /\ tx \in [Docs -> Action \cup {NoAction}]
  /\ pending \in SUBSET Action /\ tasks \in SUBSET Action
  /\ store \in [Docs -> Value]
  /\ cache \in [Docs -> Value \cup {Miss}]
  /\ phase \in [Workers -> Phases]
  /\ act \in [Workers -> Action \cup {NoAction}]
  /\ \A w \in Workers : phase[w] # "idle" => act[w] \in Action
  /\ byJob \in [Workers -> BOOLEAN]
  /\ seen \in [Workers -> Value]
  /\ wrote \in [Workers -> Value]
  /\ faults \in 0..MaxFaults

Init ==
  /\ sql = [d \in Docs |-> [age |-> 0, live |-> TRUE]]
  /\ tx = [d \in Docs |-> NoAction]
  /\ pending = {} /\ tasks = {}
  /\ store = [d \in Docs |-> Null]
  /\ cache = [d \in Docs |-> Miss]
  /\ phase = [w \in Workers |-> "idle"]
  /\ act = [w \in Workers |-> NoAction]
  /\ byJob = [w \in Workers |-> FALSE]
  /\ seen = [w \in Workers |-> Null]
  /\ wrote = [w \in Workers |-> Null]
  /\ faults = 0

------------------------------------------------------------------------------
\* The transaction on the primary: a row lock admits one writer of a document.

NewAction(d, k, n, t) ==
  [doc |-> d, kind |-> k, age |-> n, typed |-> t, retry |-> 0]

AgeIn(d) == IF tx[d] = NoAction THEN sql[d].age ELSE tx[d].age

\* invokeWriteMethod: the row is written and its action saved, one per
\* document and transaction: a second save replaces the entity of the first.
Save(d) ==
  /\ sql[d].live
  /\ tx[d] # NoAction => tx[d].kind = "save"
  /\ AgeIn(d) < MaxAge
  /\ tx' = [tx EXCEPT ![d] = NewAction(d, "save", AgeIn(d) + 1, TRUE)]
  /\ UNCHANGED <<sql, pending, tasks, store, cache, workerVars, faults>>

\* invokeDeleteMethod.  After a save in the same transaction the queue copies
\* deletedEntityType from the save action, where it is null.
Delete(d) ==
  /\ sql[d].live
  /\ tx[d] # NoAction => tx[d].kind = "save"
  /\ AgeIn(d) \in 1..(MaxAge - 1)
  /\ tx' = [tx EXCEPT ![d] =
              NewAction(d, "delete", AgeIn(d) + 1, tx[d] = NoAction)]
  /\ UNCHANGED <<sql, pending, tasks, store, cache, workerVars, faults>>

Commit(d) ==
  /\ tx[d] # NoAction
  /\ sql' = [sql EXCEPT ![d] = [age |-> tx[d].age, live |-> tx[d].kind = "save"]]
  /\ pending' = pending \cup {tx[d]}
  /\ tasks' = tasks \cup {tx[d]}          \* afterCommit
  /\ tx' = [tx EXCEPT ![d] = NoAction]
  /\ UNCHANGED <<store, cache, workerVars, faults>>

Rollback(d) ==
  /\ tx[d] # NoAction
  /\ tx' = [tx EXCEPT ![d] = NoAction]
  /\ UNCHANGED <<sql, pending, tasks, store, cache, workerVars, faults>>

------------------------------------------------------------------------------
\* The two sources of replays.

Begin(w, a, job) ==
  /\ phase' = [phase EXCEPT ![w] = "read"]
  /\ act' = [act EXCEPT ![w] = a]
  /\ byJob' = [byJob EXCEPT ![w] = job]
  /\ UNCHANGED <<seen, wrote>>

\* A mutant, which the runs must notice: the worker keeps its phase.
EndKeepsPhase(w) ==
  /\ act' = [act EXCEPT ![w] = NoAction]
  /\ byJob' = [byJob EXCEPT ![w] = FALSE]
  /\ seen' = [seen EXCEPT ![w] = Null]
  /\ wrote' = [wrote EXCEPT ![w] = Null]
  /\ UNCHANGED phase

End(w) ==
  /\ phase' = [phase EXCEPT ![w] = "idle"]
  /\ act' = [act EXCEPT ![w] = NoAction]
  /\ byJob' = [byJob EXCEPT ![w] = FALSE]
  /\ seen' = [seen EXCEPT ![w] = Null]
  /\ wrote' = [wrote EXCEPT ![w] = Null]

StartTask(w) ==
  /\ phase[w] = "idle"
  /\ \E a \in tasks : /\ tasks' = tasks \ {a}
                      /\ Begin(w, a, FALSE)
  /\ UNCHANGED <<sql, tx, pending, store, cache, faults>>

\* A mutant, which the runs must notice: only rows already retried are selected.
CandidatesRetried == {a \in pending : a.retry \in 1..MaxRetry}

\* readCandidates: any row old enough and not retried too often, in any order.
\* The copy a thread of the pool works on may outlive the row.
Candidates == {a \in pending : a.retry <= MaxRetry}

\* createInNewTran: the copy of the job, one retry older, over the row.
Bump(a) == IF \E b \in pending : Same(a, b)
           THEN {b \in pending : ~Same(a, b)} \cup {[a EXCEPT !.retry = @ + 1]}
           ELSE pending

StartJob(w) ==
  /\ phase[w] = "idle"
  /\ \E a \in Candidates :
       IF a.typed
       THEN Begin(w, a, TRUE) /\ UNCHANGED pending
       ELSE pending' = Bump(a) /\ UNCHANGED workerVars  \* loadClass(null)
  /\ UNCHANGED <<sql, tx, tasks, store, cache, faults>>

------------------------------------------------------------------------------
\* replay: get, compare, write, cache, and delete the pending action.

Goto(w, p) == phase' = [phase EXCEPT ![w] = p]

\* cloudantGet: a cached entry, null included, or else the store.
Read(w) ==
  LET d == act[w].doc IN
  /\ phase[w] = "read"
  /\ IF cache[d] # Miss
     THEN seen' = [seen EXCEPT ![w] = cache[d]] /\ Goto(w, "write")
     ELSE /\ seen' = [seen EXCEPT ![w] =
                        IF store[d].age = 0 THEN Null ELSE store[d]]
          /\ Goto(w, "fill")
  /\ UNCHANGED <<primaryVars, store, cache, act, byJob, wrote, faults>>

\* addCache: memcached's add; an entry that is there is dropped.
AddCache(d, v) ==
  cache' = [cache EXCEPT ![d] = IF cache[d] = Miss THEN v ELSE Miss]

Fill(w) ==
  /\ phase[w] = "fill"
  /\ AddCache(act[w].doc, seen[w])
  /\ Goto(w, "write")
  /\ UNCHANGED <<primaryVars, store, act, byJob, seen, wrote, faults>>

\* A mutant, which the runs must notice: the revision is not compared.
AcceptedAnyRevision(w) == (seen[w].age = 0) = (store[act[w].doc].age = 0)

\* Whether the request the replay makes is accepted: POST of a document that
\* is not there, PUT and DELETE of the revision that was read.
Accepted(w) ==
  LET d == act[w].doc IN
  IF seen[w].age = 0 THEN store[d].age = 0
                     ELSE store[d].age # 0 /\ store[d].rev = seen[w].rev

\* A mutant, which the runs must notice: a save of a document that exists is skipped.
OutdoneByAny(w) ==
  IF act[w].kind = "save" THEN seen[w].age # 0 ELSE seen[w].age = 0

\* replaySave and replayDelete have nothing to write.
Outdone(w) ==
  IF act[w].kind = "save" THEN act[w].age < seen[w].age ELSE seen[w].age = 0

\* The document to delete is not there any more: a DELETE is answered 404.
Gone(w) ==
  act[w].kind = "delete" /\ seen[w].age # 0 /\ store[act[w].doc].age = 0

Written(w) ==
  [age |-> IF act[w].kind = "save" THEN act[w].age ELSE 0,
   rev |-> store[act[w].doc].rev + 1]

\* The documents read and written go out of scope.
GotoForget(w) ==
  /\ Goto(w, "forget")
  /\ seen' = [seen EXCEPT ![w] = Null]
  /\ wrote' = [wrote EXCEPT ![w] = Null]
  /\ UNCHANGED <<act, byJob>>

Skip(w) ==
  /\ phase[w] = "write" /\ Outdone(w)
  /\ GotoForget(w)
  /\ UNCHANGED <<primaryVars, store, cache, faults>>

Write(w) ==
  /\ phase[w] = "write" /\ ~Outdone(w) /\ Accepted(w)
  /\ store' = [store EXCEPT ![act[w].doc] = Written(w)]
  /\ wrote' = [wrote EXCEPT ![w] =
                 IF act[w].kind = "save" THEN Written(w) ELSE Null]
  /\ Goto(w, "sync")
  /\ UNCHANGED <<primaryVars, cache, act, byJob, seen, faults>>

\* A 404 is a success ("already deleted"), and the cache is told of it.
FindGone(w) ==
  /\ phase[w] = "write" /\ Gone(w)
  /\ wrote' = [wrote EXCEPT ![w] = Null]
  /\ Goto(w, "sync")
  /\ UNCHANGED <<primaryVars, store, cache, act, byJob, seen, faults>>

\* cloudantPut and cloudantDelete drop the entry when they fail, cloudantPost
\* does not.
DropOnError(w) ==
  cache' = IF seen[w].age = 0 THEN cache
           ELSE [cache EXCEPT ![act[w].doc] = Miss]

\* A mutant, which the runs must notice: a conflict counts as a success.
ConflictForgets(w) ==
  /\ phase[w] = "write" /\ ~Outdone(w) /\ ~Accepted(w) /\ ~Gone(w)
  /\ DropOnError(w)
  /\ GotoForget(w)
  /\ UNCHANGED <<primaryVars, store, faults>>

\* A mutant, which the runs must notice: a conflict counts as a retry.
ConflictRetries(w) ==
  /\ phase[w] = "write" /\ ~Outdone(w) /\ ~Accepted(w) /\ ~Gone(w)
  /\ DropOnError(w)
  /\ pending' = IF byJob[w] THEN Bump(act[w]) ELSE pending
  /\ End(w)
  /\ UNCHANGED <<sql, tx, tasks, store, faults>>

\* The request is refused with a conflict; replay recovers it to false, and
\* the action stays as it was.
Conflict(w) ==
  /\ phase[w] = "write" /\ ~Outdone(w) /\ ~Accepted(w) /\ ~Gone(w)
  /\ DropOnError(w)
  /\ End(w)
  /\ UNCHANGED <<primaryVars, store, faults>>

\* addCache after a POST, updateCache after a PUT or DELETE.
Sync(w) ==
  LET d == act[w].doc IN
  /\ phase[w] = "sync"
  /\ IF seen[w].age = 0 \/ cache[d] = Miss THEN AddCache(d, wrote[w])
     ELSE cache' = [cache EXCEPT ![d] =
                      IF @.rev = seen[w].rev THEN wrote[w]
                      ELSE IF @.rev = wrote[w].rev THEN @ ELSE Miss]
  /\ GotoForget(w)
  /\ UNCHANGED <<primaryVars, store, faults>>

\* pendingActionRepository.delete and the commit of the replay.  When the row
\* has gone the exception ends the replay and changes nothing.
Forget(w) ==
  /\ phase[w] = "forget"
  /\ pending' = {b \in pending : ~Same(act[w], b)}
  /\ End(w)
  /\ UNCHANGED <<sql, tx, tasks, store, cache, faults>>

------------------------------------------------------------------------------
\* Faults: a budget of MaxFaults.

Fault == faults < MaxFaults /\ faults' = faults + 1

\* A request to Cloudant fails, or is performed and its answer lost.
Lose(w) ==
  /\ Fault
  /\ \/ /\ phase[w] = "read"
        /\ UNCHANGED <<store, cache>>
     \/ /\ phase[w] = "write" /\ ~Outdone(w)
        /\ DropOnError(w)
        /\ \/ UNCHANGED store
           \/ Accepted(w) /\ store' = [store EXCEPT ![act[w].doc] = Written(w)]
  /\ End(w)
  /\ UNCHANGED primaryVars

\* The transaction that deletes the action fails: the job counts a retry.
Abort(w) ==
  /\ Fault
  /\ phase[w] = "forget"
  /\ pending' = IF byJob[w] THEN Bump(act[w]) ELSE pending
  /\ End(w)
  /\ UNCHANGED <<sql, tx, tasks, store, cache>>

\* The process stops: what is not in a database is lost.
Crash ==
  /\ Fault
  /\ tx' = [d \in Docs |-> NoAction]
  /\ tasks' = {}
  /\ phase' = [w \in Workers |-> "idle"]
  /\ act' = [w \in Workers |-> NoAction]
  /\ byJob' = [w \in Workers |-> FALSE]
  /\ seen' = [w \in Workers |-> Null]
  /\ wrote' = [w \in Workers |-> Null]
  /\ UNCHANGED <<sql, pending, store, cache>>

\* The entry expires, is evicted, or is dropped by the sniffer of changes.
Evict(d) ==
  /\ cache[d] # Miss
  /\ cache' = [cache EXCEPT ![d] = Miss]
  /\ UNCHANGED <<primaryVars, store, workerVars, faults>>

------------------------------------------------------------------------------
Step(w) == Read(w) \/ Fill(w) \/ Skip(w) \/ Write(w) \/ FindGone(w)
             \/ Conflict(w) \/ Sync(w) \/ Forget(w)

Next ==
  \/ \E d \in Docs : Save(d) \/ Delete(d) \/ Commit(d) \/ Rollback(d) \/ Evict(d)
  \/ \E w \in Workers : StartTask(w) \/ StartJob(w) \/ Step(w) \/ Lose(w) \/ Abort(w)
  \/ Crash

Spec == Init /\ [][Next]_vars

\* The threads run, the job is triggered again and again, entries expire.
Fairness ==
  /\ \A w \in Workers : WF_vars(Step(w)) /\ WF_vars(StartTask(w) \/ StartJob(w))
  /\ \A d \in Docs : WF_vars(Evict(d))

FairSpec == Spec /\ Fairness

------------------------------------------------------------------------------
\* Properties.

\* A committed change of a document that lives on the primary is never
\* forgotten: Cloudant has it, or its own pending action is still there,
\* whatever failed or crashed between the commit, the write and the deletion.
NothingForgotten ==
  \A d \in Docs :
    sql[d].live /\ store[d].age < sql[d].age
      => \E a \in pending : /\ a.doc = d /\ a.kind = "save"
                            /\ a.age = sql[d].age

\* A pending save is one retry older for each fault at most: the conflicts of
\* replays that overlap, and the copies the job works on after the row has
\* changed, never use up the retries of an action.
RetriesCounted == \A a \in pending : a.kind = "save" => a.retry <= faults

\* A replay deletes a save action only when Cloudant has that change or a
\* later one, unless the document has been deleted since: the answer of a
\* cache that may be stale never makes it skip a write that was needed.
DroppedWhenDone ==
  [][\A a \in pending :
       a.kind = "save" /\ (\A b \in pending' : ~Same(a, b))
         => ~sql[a.doc].live \/ store[a.doc].age >= a.age]_vars

\* The secondary is a replica: it moves forward only, to committed ages only,
\* and never loses a document the primary has, although two replays of one
\* document overlap and each may have read a stale entry of the cache.
copyOf == [d \in Docs |-> store[d].age]
Replicated == INSTANCE Replica WITH primary <- sql, copy <- copyOf
IsReplica == Replicated!Spec

\* Every document that lives catches up, again and again, after the crashes,
\* conflicts and stale cache entries of the model.
CatchesUp == \A d \in Docs : []<>(sql[d].live => store[d].age = sql[d].age)

\* "There is still a backend job to write secondary repository if the write
\* fails" (SyncDualWriteStrategy): once nothing is left to replay the two
\* stores agree, deleted documents included.
Outstanding == pending \cup tasks \cup {act[w] : w \in {v \in Workers : phase[v] # "idle"}}
Settled ==
  Outstanding = {} =>
    \A d \in Docs : store[d].age = IF sql[d].live THEN sql[d].age ELSE 0
==============================================================================
