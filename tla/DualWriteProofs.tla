--------------------------- MODULE DualWriteProofs ---------------------------
(***************************************************************************)
(* What holds of dual writing for any documents, any number of replaying   *)
(* threads, of saves, of retries and of faults.                            *)
(*                                                                         *)
(* The argument: the row of a document and its document in Cloudant only   *)
(* move forward (Later), and what a thread or memcached remembers of them  *)
(* (Known), as well as what an action says of its row (Covered), stays     *)
(* true while they do.                                                     *)
(***************************************************************************)
EXTENDS DualWrite, TLAPS

(* A value read or written earlier: it is the document of its revision, and
   no newer than the row, nor than the document unless that was deleted.    *)
Known(v, row, doc) ==
  /\ v.rev <= doc.rev
  /\ v.age > 0 /\ v.rev = doc.rev => v = doc
  /\ v.age <= row.age
  /\ row.live => v.age <= doc.age

(* A recorded change is committed; a deletion has happened. *)
Covered(a, row) == a.age <= row.age /\ (a.kind = "delete" => ~row.live)

(* Where a row and its document may go from (row, doc). *)
Later(row, doc, row2, doc2) ==
  /\ row.age <= row2.age
  /\ row2.live => row.live
  /\ doc2 = doc \/ doc.rev < doc2.rev
  /\ row2.live => doc.age <= doc2.age

KnownHere(v, d) == Known(v, sql[d], store[d])
CoveredHere(a) == Covered(a, sql[a.doc])

CacheKnown   == \A d \in Docs : cache[d] # Miss => KnownHere(cache[d], d)
WorkersKnow  == \A w \in Workers :
                  phase[w] # "idle" => /\ KnownHere(seen[w], act[w].doc)
                                       /\ KnownHere(wrote[w], act[w].doc)
WorkersRest  == \A w \in Workers : phase[w] = "idle" => seen[w] = Null /\ wrote[w] = Null
ActionsCovered == /\ \A a \in pending \cup tasks : CoveredHere(a)
                  /\ \A w \in Workers : phase[w] # "idle" => CoveredHere(act[w])
TxAhead      == \A d \in Docs : tx[d] # NoAction =>
                  tx[d].doc = d /\ tx[d].age > sql[d].age /\ sql[d].live
CopyBehind   == \A d \in Docs : store[d].age <= sql[d].age
SaveDone     == \A w \in Workers :
                  /\ phase[w] \in {"sync", "forget"}
                  /\ act[w].kind = "save" /\ sql[act[w].doc].live
                  => act[w].age <= store[act[w].doc].age

IInv == /\ TypeOK /\ CacheKnown /\ WorkersKnow /\ WorkersRest /\ ActionsCovered
        /\ TxAhead /\ CopyBehind /\ SaveDone /\ NothingForgotten

------------------------------------------------------------------------------
(* What is remembered stays true while the row and the document move on. *)
LEMMA KnownStays ==
  ASSUME NEW v \in Value, NEW row \in Row, NEW doc \in Value,
         NEW row2 \in Row, NEW doc2 \in Value,
         Known(v, row, doc), Later(row, doc, row2, doc2)
  PROVE  Known(v, row2, doc2)
  BY DEF Known, Later, Value, Row

(* So does what an action says of its row. *)
LEMMA CoveredStays ==
  ASSUME NEW a \in Action, NEW row \in Row, NEW doc \in Value,
         NEW row2 \in Row, NEW doc2 \in Value,
         Covered(a, row), Later(row, doc, row2, doc2)
  PROVE  Covered(a, row2)
  BY DEF Covered, Later, Action, Row

(* That there is no document is always a possible memory. *)
LEMMA NullKnown ==
  ASSUME NEW row \in Row, NEW doc \in Value
  PROVE  Null \in Value /\ Known(Null, row, doc)
  BY DEF Known, Value, Row, Null

(* A bumped action is the same action, one retry older. *)
LEMMA BumpKeeps ==
  ASSUME NEW a \in Action, pending \in SUBSET Action
  PROVE  /\ Bump(a) \in SUBSET Action
         /\ \A b \in Bump(a) : b \in pending \/
              (b.doc = a.doc /\ b.kind = a.kind /\ b.age = a.age)
         /\ \A b \in pending : b \in Bump(a) \/
              \E c \in Bump(a) : Same(b, c) /\ c.kind = a.kind /\ Same(a, b)
<1> DEFINE older == [a EXCEPT !.retry = @ + 1]
<1>1. /\ older \in Action
      /\ older.doc = a.doc /\ older.kind = a.kind /\ older.age = a.age
  BY DEF Action
<1>2. CASE \E b \in pending : Same(a, b)
  <2>1. Bump(a) = {b \in pending : ~Same(a, b)} \cup {older}
    BY <1>2 DEF Bump
  <2> QED
    BY <1>1, <2>1 DEF Same
<1>3. CASE ~\E b \in pending : Same(a, b)
  BY <1>3 DEF Bump
<1> QED
  BY <1>2, <1>3

(* What a request of a replay that Cloudant performs does to the document. *)
LEMMA WriteMovesOn ==
  ASSUME IInv, NEW w \in Workers, phase[w] = "write", ~Outdone(w), Accepted(w),
         store' = [store EXCEPT ![act[w].doc] = Written(w)], sql' = sql
  PROVE  /\ act[w] \in Action /\ Written(w) \in Value
         /\ store'[act[w].doc] = Written(w)
         /\ \A d \in Docs : /\ store'[d] \in Value
                            /\ Later(sql[d], store[d], sql'[d], store'[d])
                            /\ store'[d].age <= sql'[d].age
<1> DEFINE a == act[w]
           d == act[w].doc
<1>1. /\ a \in Action /\ d \in Docs /\ seen[w] \in Value
      /\ store[d] \in Value /\ sql[d] \in Row
      /\ store \in [Docs -> Value] /\ sql \in [Docs -> Row]
  BY DEF IInv, TypeOK, Action
<1>2. Covered(a, sql[d]) /\ Known(seen[w], sql[d], store[d])
  BY DEF IInv, ActionsCovered, CoveredHere, WorkersKnow, KnownHere
<1>3. Written(w) \in Value /\ store'[d] = Written(w)
  BY <1>1 DEF Written, Value, Action
<1>4. store[d].rev < Written(w).rev
  BY <1>1 DEF Written, Value
<1>5. CASE a.kind = "save"
  <2>1. Written(w).age = a.age /\ seen[w].age <= a.age
    BY <1>1, <1>5 DEF Written, Outdone, Value, Action
  <2>2. store[d].age = 0 \/ store[d] = seen[w]
    BY <1>1, <1>2 DEF Accepted, Known, Value
  <2>3. store[d].age <= a.age /\ a.age <= sql[d].age
    BY <1>1, <1>2, <2>1, <2>2 DEF Covered, Value, Action
  <2> QED
    BY <1>1, <1>3, <1>4, <2>1, <2>3 DEF Later, CopyBehind, IInv, Value, Row
<1>6. CASE a.kind = "delete"
  <2>1. Written(w).age = 0 /\ ~sql[d].live
    BY <1>1, <1>2, <1>6 DEF Written, Covered
  <2> QED
    BY <1>1, <1>3, <1>4, <2>1 DEF Later, CopyBehind, IInv, Value, Row
<1> QED
  BY <1>1, <1>3, <1>5, <1>6 DEF Action

(* The first states satisfy the invariant. *)
LEMMA InitIInv == Init => IInv
<1> SUFFICES ASSUME Init PROVE IInv
  OBVIOUS
<1>1. TypeOK
  BY BoundAssumption DEF Init, TypeOK, Row, Value, Null, Phases
<1>2. CacheKnown /\ WorkersKnow /\ WorkersRest /\ SaveDone
  BY DEF Init, CacheKnown, WorkersKnow, WorkersRest, SaveDone
<1>3. ActionsCovered /\ TxAhead
  BY DEF Init, ActionsCovered, TxAhead
<1>4. CopyBehind /\ NothingForgotten
  BY DEF Init, CopyBehind, NothingForgotten, Null
<1> QED
  BY <1>1, <1>2, <1>3, <1>4 DEF IInv

(* Every step is typed. *)
LEMMA NextTypeOK ==
  ASSUME IInv, Next
  PROVE  TypeOK'
<1>0. TypeOK /\ Null \in Value
  BY DEF IInv, Null, Value
<1>1. ASSUME NEW d \in Docs, Save(d) \/ Delete(d) PROVE TypeOK'
  <2>1. AgeIn(d) \in Nat
    BY <1>0, <1>1, MarkerAssumption DEF AgeIn, TypeOK, Row, Action
  <2>2. /\ NewAction(d, "save", AgeIn(d) + 1, TRUE) \in Action
        /\ NewAction(d, "delete", AgeIn(d) + 1, tx[d] = NoAction) \in Action
    BY <2>1 DEF NewAction, Action
  <2> QED
    BY <1>0, <1>1, <2>2 DEF Save, Delete, TypeOK, workerVars
<1>2. ASSUME NEW d \in Docs, Commit(d) PROVE TypeOK'
  <2>1. tx[d] \in Action /\ [age |-> tx[d].age, live |-> tx[d].kind = "save"] \in Row
    BY <1>0, <1>2 DEF Commit, TypeOK, Action, Row
  <2> QED
    BY <1>0, <1>2, <2>1 DEF Commit, TypeOK, workerVars
<1>3. ASSUME NEW d \in Docs, Rollback(d) \/ Evict(d) PROVE TypeOK'
  BY <1>0, <1>3 DEF Rollback, Evict, TypeOK, workerVars, primaryVars
<1>4. ASSUME NEW w \in Workers, StartTask(w) PROVE TypeOK'
  BY <1>0, <1>4 DEF StartTask, Begin, TypeOK, Phases
<1>5. ASSUME NEW w \in Workers, StartJob(w) PROVE TypeOK'
  <2>1. PICK a \in Candidates :
          IF a.typed THEN Begin(w, a, TRUE) /\ UNCHANGED pending
          ELSE pending' = Bump(a) /\ UNCHANGED workerVars
    BY <1>5 DEF StartJob
  <2>2. a \in Action /\ Bump(a) \in SUBSET Action
    BY <1>0, BumpKeeps DEF Candidates, TypeOK
  <2>3. UNCHANGED <<sql, tx, tasks, store, cache, faults>>
    BY <1>5 DEF StartJob
  <2>4. CASE a.typed
    BY <1>0, <2>1, <2>2, <2>3, <2>4 DEF Begin, TypeOK, Phases
  <2>5. CASE ~a.typed
    BY <1>0, <2>1, <2>2, <2>3, <2>5 DEF TypeOK, workerVars
  <2> QED
    BY <2>4, <2>5
<1>6. ASSUME NEW w \in Workers, Read(w) PROVE TypeOK'
  <2>1. /\ act[w].doc \in Docs /\ seen'[w] \in Value
        /\ seen' = [seen EXCEPT ![w] = seen'[w]]
    BY <1>0, <1>6 DEF Read, TypeOK, Action
  <2> QED
    BY <1>0, <1>6, <2>1 DEF Read, Goto, TypeOK, Phases, primaryVars
<1>7. ASSUME NEW w \in Workers, Fill(w) PROVE TypeOK'
  BY <1>0, <1>7 DEF Fill, AddCache, Goto, TypeOK, Phases, primaryVars
<1>8. ASSUME NEW w \in Workers, Skip(w) \/ FindGone(w) PROVE TypeOK'
  BY <1>0, <1>8 DEF Skip, FindGone, GotoForget, Goto, TypeOK, Phases, primaryVars
<1>9. ASSUME NEW w \in Workers, Write(w) PROVE TypeOK'
  <2>1. Written(w) \in Value
    BY <1>0, <1>9 DEF Write, Written, TypeOK, Action, Value
  <2> QED
    BY <1>0, <1>9, <2>1 DEF Write, Goto, TypeOK, Phases, primaryVars
<1>10. ASSUME NEW w \in Workers, Conflict(w) PROVE TypeOK'
  BY <1>0, <1>10 DEF Conflict, DropOnError, End, TypeOK, Phases, primaryVars
<1>11. ASSUME NEW w \in Workers, Sync(w) PROVE TypeOK'
  <2>1. /\ cache' = [cache EXCEPT ![act[w].doc] = cache'[act[w].doc]]
        /\ cache'[act[w].doc] \in Value \cup {Miss}
    <3>1. act[w].doc \in Docs
      BY <1>0, <1>11 DEF Sync, TypeOK, Action
    <3> QED
      BY <1>0, <1>11, <3>1 DEF Sync, AddCache, TypeOK
  <2> QED
    BY <1>0, <1>11, <2>1 DEF Sync, GotoForget, Goto, TypeOK, Phases, primaryVars
<1>12. ASSUME NEW w \in Workers, Forget(w) PROVE TypeOK'
  BY <1>0, <1>12 DEF Forget, End, TypeOK, Phases
<1>13. ASSUME NEW w \in Workers, Lose(w) PROVE TypeOK'
  <2>1. store' \in [Docs -> Value] /\ cache' \in [Docs -> Value \cup {Miss}]
    <3>1. CASE UNCHANGED <<store, cache>>
      BY <1>0, <3>1 DEF TypeOK
    <3>2. CASE phase[w] = "write"
      <4>1. Written(w) \in Value
        BY <1>0, <3>2 DEF Written, TypeOK, Action, Value
      <4> QED
        BY <1>0, <1>13, <3>2, <4>1 DEF Lose, DropOnError, TypeOK
    <3> QED
      BY <1>13, <3>1, <3>2 DEF Lose
  <2>2. faults' \in 0..MaxFaults
    BY <1>0, <1>13, BoundAssumption DEF Lose, Fault, TypeOK
  <2> QED
    BY <1>0, <1>13, <2>1, <2>2 DEF Lose, End, TypeOK, Phases, primaryVars
<1>14. ASSUME NEW w \in Workers, Abort(w) PROVE TypeOK'
  <2>1. pending' \in SUBSET Action
    BY <1>0, <1>14, BumpKeeps DEF Abort, TypeOK
  <2>2. faults' \in 0..MaxFaults
    BY <1>0, <1>14, BoundAssumption DEF Abort, Fault, TypeOK
  <2> QED
    BY <1>0, <1>14, <2>1, <2>2 DEF Abort, End, TypeOK, Phases
<1>15. ASSUME Crash PROVE TypeOK'
  BY <1>0, <1>15, BoundAssumption DEF Crash, Fault, TypeOK, Phases
<1> QED
  BY <1>1, <1>2, <1>3, <1>4, <1>5, <1>6, <1>7, <1>8, <1>9, <1>10, <1>11,
     <1>12, <1>13, <1>14, <1>15 DEF Next, Step

(* Every step moves the rows and the documents on, and keeps the copies behind
   the rows.                                                                *)
LEMMA NextMovesOn ==
  ASSUME IInv, Next
  PROVE  \A d \in Docs : /\ Later(sql[d], store[d], sql'[d], store'[d])
                         /\ store'[d].age <= sql'[d].age
<1>0. /\ sql \in [Docs -> Row] /\ store \in [Docs -> Value]
      /\ \A d \in Docs : store[d].age <= sql[d].age
  BY DEF IInv, TypeOK, CopyBehind
<1>1. CASE UNCHANGED <<sql, store>>
  BY <1>0, <1>1 DEF Later, Row, Value
<1>2. ASSUME NEW d \in Docs, Commit(d)
      PROVE  \A e \in Docs : /\ Later(sql[e], store[e], sql'[e], store'[e])
                             /\ store'[e].age <= sql'[e].age
  <2>1. /\ tx[d] \in Action /\ sql[d].age < tx[d].age /\ sql[d].live
        /\ sql' = [sql EXCEPT ![d] = [age |-> tx[d].age, live |-> tx[d].kind = "save"]]
        /\ store' = store
    BY <1>2 DEF Commit, IInv, TypeOK, TxAhead
  <2>2. /\ sql'[d].age = tx[d].age /\ sql'[d].age \in Nat
        /\ \A e \in Docs \ {d} : sql'[e] = sql[e]
    BY <1>0, <2>1 DEF Action
  <2> QED
    BY <1>0, <2>1, <2>2 DEF Later, Row, Value
<1>3. ASSUME NEW w \in Workers, Write(w) \/ Lose(w)
      PROVE  \A d \in Docs : /\ Later(sql[d], store[d], sql'[d], store'[d])
                             /\ store'[d].age <= sql'[d].age
  <2>1. \/ UNCHANGED <<sql, store>>
        \/ /\ phase[w] = "write" /\ ~Outdone(w) /\ Accepted(w)
           /\ store' = [store EXCEPT ![act[w].doc] = Written(w)] /\ sql' = sql
    BY <1>3 DEF Write, Lose, primaryVars
  <2> QED
    BY <1>1, <2>1, WriteMovesOn
<1>4. \/ UNCHANGED <<sql, store>>
      \/ \E d \in Docs : Commit(d)
      \/ \E w \in Workers : Write(w) \/ Lose(w)
  BY DEF Next, Step, Save, Delete, Rollback, Evict, StartTask, StartJob, Read, Fill,
         Skip, FindGone, Conflict, Sync, Forget, Abort, Crash, primaryVars
<1> QED
  BY <1>1, <1>2, <1>3, <1>4

(* An open transaction is ahead of its row. *)
LEMMA NextTxAhead ==
  ASSUME IInv, Next
  PROVE  TxAhead'
<1>0. TypeOK /\ TxAhead
  BY DEF IInv
<1>1. CASE UNCHANGED <<sql, tx>>
  BY <1>0, <1>1 DEF TxAhead
<1>2. ASSUME NEW d \in Docs, Save(d) \/ Delete(d) PROVE TxAhead'
  <2>1. AgeIn(d) \in Nat /\ sql[d].age <= AgeIn(d) /\ sql[d].age \in Nat
    BY <1>0, MarkerAssumption DEF AgeIn, TypeOK, TxAhead, Row, Action
  <2>2. /\ sql[d].live /\ sql' = sql
        /\ tx'[d].doc = d /\ tx'[d].age = AgeIn(d) + 1
        /\ \A e \in Docs \ {d} : tx'[e] = tx[e]
    BY <1>0, <1>2 DEF Save, Delete, NewAction, TypeOK
  <2> QED
    BY <1>0, <2>1, <2>2 DEF TxAhead
<1>3. ASSUME NEW d \in Docs, Commit(d) \/ Rollback(d) PROVE TxAhead'
  BY <1>0, <1>3 DEF Commit, Rollback, TypeOK, TxAhead
<1>4. CASE Crash
  BY <1>0, <1>4 DEF Crash, TxAhead
<1>5. \/ UNCHANGED <<sql, tx>>
      \/ \E d \in Docs : Save(d) \/ Delete(d) \/ Commit(d) \/ Rollback(d)
      \/ Crash
  BY DEF Next, Step, Evict, StartTask, StartJob, Read, Fill, Skip, FindGone, Write, Conflict,
         Sync, Forget, Lose, Abort, primaryVars
<1> QED
  BY <1>1, <1>2, <1>3, <1>4, <1>5

(* Where actions come from: a commit, or the same action before the step. *)
LEMMA NextActions ==
  ASSUME IInv, Next
  PROVE  /\ \A b \in pending' \cup tasks' :
              \/ \E a \in pending \cup tasks :
                   b.doc = a.doc /\ b.kind = a.kind /\ b.age = a.age
              \/ \E w \in Workers : /\ phase[w] # "idle"
                                    /\ b.doc = act[w].doc /\ b.kind = act[w].kind
                                    /\ b.age = act[w].age
              \/ \E d \in Docs : Commit(d) /\ b = tx[d]
         /\ \A w \in Workers : phase'[w] # "idle" =>
              \/ phase[w] # "idle" /\ act'[w] = act[w]
              \/ phase[w] = "idle" /\ act'[w] \in pending \cup tasks
                   /\ phase'[w] = "read" /\ UNCHANGED <<seen, wrote, sql, store, cache>>
<1> DEFINE From(b) ==
      \/ \E a \in pending \cup tasks :
           b.doc = a.doc /\ b.kind = a.kind /\ b.age = a.age
      \/ \E w \in Workers : /\ phase[w] # "idle"
                            /\ b.doc = act[w].doc /\ b.kind = act[w].kind
                            /\ b.age = act[w].age
      \/ \E d \in Docs : Commit(d) /\ b = tx[d]
    On(w) == \/ phase[w] # "idle" /\ act'[w] = act[w]
             \/ phase[w] = "idle" /\ act'[w] \in pending \cup tasks
                  /\ phase'[w] = "read" /\ UNCHANGED <<seen, wrote, sql, store, cache>>
    Goal == /\ \A b \in pending' \cup tasks' : From(b)
            /\ \A w \in Workers : phase'[w] # "idle" => On(w)
<1>0. TypeOK
  BY DEF IInv
<1>1. ASSUME NEW d \in Docs, Save(d) \/ Delete(d) \/ Commit(d) \/ Rollback(d) \/ Evict(d)
      PROVE  Goal
  BY <1>1 DEF Save, Delete, Commit, Rollback, Evict, workerVars, primaryVars
<1>2. ASSUME NEW w \in Workers, StartTask(w) PROVE Goal
  BY <1>0, <1>2 DEF StartTask, Begin, TypeOK
<1>3. ASSUME NEW w \in Workers, StartJob(w) PROVE Goal
  <2>1. PICK a \in Candidates :
          IF a.typed THEN Begin(w, a, TRUE) /\ UNCHANGED pending
          ELSE pending' = Bump(a) /\ UNCHANGED workerVars
    BY <1>3 DEF StartJob
  <2>2. /\ a \in pending /\ a \in Action /\ phase[w] = "idle"
        /\ UNCHANGED <<sql, tasks, store, cache>>
    BY <1>0, <1>3 DEF StartJob, Candidates, TypeOK
  <2>3. CASE a.typed
    BY <1>0, <2>1, <2>2, <2>3 DEF Begin, TypeOK
  <2>4. CASE ~a.typed
    <3>1. pending' = Bump(a) /\ UNCHANGED <<phase, act>>
      BY <2>1, <2>4 DEF workerVars
    <3>2. \A b \in Bump(a) : From(b)
      BY <1>0, <2>2, BumpKeeps DEF TypeOK
    <3> QED
      BY <2>2, <3>1, <3>2
  <2> QED
    BY <2>3, <2>4
<1>4. ASSUME NEW w \in Workers,
             Read(w) \/ Fill(w) \/ Skip(w) \/ Write(w) \/ FindGone(w) \/ Conflict(w)
               \/ Sync(w) \/ Forget(w) \/ Lose(w)
      PROVE  Goal
  <2>1. tasks' = tasks /\ pending' \subseteq pending /\ phase[w] # "idle"
    BY <1>4 DEF Read, Fill, Skip, FindGone, Write, Conflict, Sync, Forget, Lose, primaryVars
  <2>2. \A v \in Workers : phase'[v] # "idle" => phase[v] # "idle" /\ act'[v] = act[v]
    BY <1>0, <1>4, <2>1 DEF Read, Fill, Skip, FindGone, Write, Conflict, Sync, Forget, Lose,
       GotoForget, Goto, End, TypeOK
  <2> QED
    BY <2>1, <2>2
<1>5. ASSUME NEW w \in Workers, Abort(w) PROVE Goal
  <2>1. tasks' = tasks /\ phase[w] # "idle" /\ act[w] \in Action
    BY <1>0, <1>5 DEF Abort, TypeOK
  <2>2. \A b \in pending' : From(b)
    BY <1>0, <1>5, <2>1, BumpKeeps DEF Abort, TypeOK
  <2>3. \A v \in Workers : phase'[v] # "idle" => phase[v] # "idle" /\ act'[v] = act[v]
    BY <1>0, <1>5 DEF Abort, End, TypeOK
  <2> QED
    BY <2>1, <2>2, <2>3
<1>6. CASE Crash
  BY <1>6 DEF Crash
<1>7. Goal
  BY <1>1, <1>2, <1>3, <1>4, <1>5, <1>6 DEF Next, Step
<1> QED
  BY <1>7

(* The row and the action of a commit. *)
LEMMA CommittedRow ==
  ASSUME IInv, NEW d \in Docs, Commit(d)
  PROVE  /\ tx[d] \in pending' /\ tx[d] \in Action /\ tx[d].doc = d
         /\ sql'[d].age = tx[d].age /\ sql'[d].live = (tx[d].kind = "save")
<1>1. /\ tx[d] \in pending' /\ tx[d] \in Action /\ tx[d].doc = d
      /\ sql'[d] = [age |-> tx[d].age, live |-> tx[d].kind = "save"]
  BY DEF Commit, IInv, TypeOK, TxAhead
<1>2. sql'[d].age = tx[d].age /\ sql'[d].live = (tx[d].kind = "save")
  BY <1>1
<1> QED
  BY <1>1, <1>2

(* The actions keep agreeing with their rows. *)
LEMMA NextCovered ==
  ASSUME IInv, Next
  PROVE  ActionsCovered'
<1>0. /\ TypeOK /\ TypeOK' /\ ActionsCovered /\ TxAhead
  BY NextTypeOK DEF IInv
<1>1. ASSUME NEW a \in Action, CoveredHere(a) PROVE Covered(a, sql'[a.doc])
  <2>1. a.doc \in Docs
    BY DEF Action
  <2> QED
    BY <1>0, <1>1, <2>1, NextMovesOn, CoveredStays DEF CoveredHere, TypeOK
<1>2. ASSUME NEW d \in Docs, Commit(d) PROVE Covered(tx[d], sql'[tx[d].doc])
  <2>1. /\ tx[d].doc = d /\ tx[d] \in Action
        /\ sql'[d].age = tx[d].age /\ sql'[d].live = (tx[d].kind = "save")
    BY <1>2, CommittedRow
  <2>2. tx[d].age <= sql'[d].age
    BY <2>1 DEF Action
  <2> QED
    BY <2>1, <2>2, Zenon DEF Covered
<1>3. ASSUME NEW b \in pending' \cup tasks' PROVE Covered(b, sql'[b.doc])
  <2>1. CASE \E a \in pending \cup tasks :
               b.doc = a.doc /\ b.kind = a.kind /\ b.age = a.age
    BY <1>0, <1>1, <2>1 DEF ActionsCovered, TypeOK, Covered
  <2>2. CASE \E w \in Workers : /\ phase[w] # "idle"
                                /\ b.doc = act[w].doc /\ b.kind = act[w].kind
                                /\ b.age = act[w].age
    BY <1>0, <1>1, <2>2 DEF ActionsCovered, TypeOK, Covered
  <2> QED
    BY <1>2, <1>3, <2>1, <2>2, NextActions
<1>4. ASSUME NEW w \in Workers, phase'[w] # "idle" PROVE Covered(act'[w], sql'[act'[w].doc])
  <2>1. act'[w] \in Action /\ CoveredHere(act'[w])
    BY <1>0, <1>4, NextActions DEF ActionsCovered, TypeOK
  <2> QED
    BY <2>1, <1>1
<1> QED
  BY <1>3, <1>4 DEF ActionsCovered, CoveredHere

(* What was known before a step is known after it. *)
LEMMA StillKnown ==
  ASSUME IInv, Next
  PROVE  /\ \A d \in Docs : /\ Known(Null, sql'[d], store'[d])
                            /\ Known(store'[d], sql'[d], store'[d])
                            /\ cache[d] # Miss => Known(cache[d], sql'[d], store'[d])
         /\ \A w \in Workers : phase[w] # "idle" =>
              /\ act[w] \in Action /\ act[w].doc \in Docs
              /\ Known(seen[w], sql'[act[w].doc], store'[act[w].doc])
              /\ Known(wrote[w], sql'[act[w].doc], store'[act[w].doc])
<1>0. /\ TypeOK /\ TypeOK' /\ CacheKnown /\ WorkersKnow
  BY NextTypeOK DEF IInv
<1>1. \A d \in Docs : /\ sql[d] \in Row /\ sql'[d] \in Row
                      /\ store[d] \in Value /\ store'[d] \in Value
                      /\ Later(sql[d], store[d], sql'[d], store'[d])
                      /\ store'[d].age <= sql'[d].age
  BY <1>0, NextMovesOn DEF TypeOK
<1>2. ASSUME NEW d \in Docs
      PROVE  /\ Known(Null, sql'[d], store'[d])
             /\ Known(store'[d], sql'[d], store'[d])
             /\ cache[d] # Miss => Known(cache[d], sql'[d], store'[d])
  <2>1. Known(Null, sql'[d], store'[d])
    BY <1>1, NullKnown
  <2>2. Known(store'[d], sql'[d], store'[d])
    BY <1>1 DEF Known, Value, Row
  <2>3. ASSUME cache[d] # Miss PROVE Known(cache[d], sql'[d], store'[d])
    BY <1>0, <1>1, <2>3, KnownStays DEF CacheKnown, KnownHere, TypeOK
  <2> QED
    BY <2>1, <2>2, <2>3
<1>3. ASSUME NEW w \in Workers, phase[w] # "idle"
      PROVE  /\ act[w] \in Action /\ act[w].doc \in Docs
             /\ Known(seen[w], sql'[act[w].doc], store'[act[w].doc])
             /\ Known(wrote[w], sql'[act[w].doc], store'[act[w].doc])
  <2>1. act[w] \in Action /\ act[w].doc \in Docs /\ seen[w] \in Value /\ wrote[w] \in Value
    BY <1>0, <1>3 DEF TypeOK, Action
  <2>2. /\ Known(seen[w], sql[act[w].doc], store[act[w].doc])
        /\ Known(wrote[w], sql[act[w].doc], store[act[w].doc])
    BY <1>0, <1>3 DEF WorkersKnow, KnownHere
  <2>3. Known(seen[w], sql'[act[w].doc], store'[act[w].doc])
    BY <1>1, <2>1, <2>2, KnownStays
  <2>4. Known(wrote[w], sql'[act[w].doc], store'[act[w].doc])
    BY <1>1, <2>1, <2>2, KnownStays
  <2> QED
    BY <2>1, <2>3, <2>4
<1> QED
  BY <1>2, <1>3

(* A thread that replays knows the document it read and the one it wrote. *)
LEMMA NextWorkersKnow ==
  ASSUME IInv, Next
  PROVE  WorkersKnow' /\ WorkersRest'
<1> DEFINE Fits(v, d) == Known(v, sql'[d], store'[d])
           Good(w) == /\ phase'[w] # "idle" => /\ Fits(seen'[w], act'[w].doc)
                                               /\ Fits(wrote'[w], act'[w].doc)
                      /\ phase'[w] = "idle" => seen'[w] = Null /\ wrote'[w] = Null
<1>0. TypeOK /\ WorkersRest /\ ActionsCovered
  BY DEF IInv
<1>1. \A d \in Docs : /\ Fits(Null, d) /\ Fits(store'[d], d)
                      /\ cache[d] # Miss => Fits(cache[d], d)
  BY StillKnown
<1>2. \A w \in Workers : phase[w] # "idle" =>
        /\ act[w].doc \in Docs
        /\ Fits(seen[w], act[w].doc) /\ Fits(wrote[w], act[w].doc)
  BY StillKnown
<1>3. ASSUME NEW w \in Workers, phase'[w] = phase[w], act'[w] = act[w],
             seen'[w] = seen[w], wrote'[w] = wrote[w]
      PROVE  Good(w)
  BY <1>0, <1>2, <1>3 DEF WorkersRest
<1>4. ASSUME NEW d \in Docs, Save(d) \/ Delete(d) \/ Commit(d) \/ Rollback(d) \/ Evict(d),
             NEW w \in Workers
      PROVE  Good(w)
  BY <1>3, <1>4 DEF Save, Delete, Commit, Rollback, Evict, workerVars
<1>5. ASSUME NEW v \in Workers, StartTask(v) \/ StartJob(v), NEW w \in Workers
      PROVE  Good(w)
  <2>1. seen' = seen /\ wrote' = wrote
    BY <1>5 DEF StartTask, StartJob, Begin, workerVars
  <2>2. CASE phase'[w] = phase[w] /\ act'[w] = act[w]
    BY <1>3, <2>1, <2>2
  <2>3. CASE phase[w] = "idle" /\ phase'[w] # "idle"
    <3>1. act'[w].doc \in Docs
      <4>1. TypeOK'
        BY NextTypeOK
      <4> QED
        BY <2>3, <4>1 DEF TypeOK, Action
    <3> QED
      BY <1>0, <1>1, <2>1, <2>3, <3>1 DEF WorkersRest
  <2>4. \/ phase'[w] = phase[w] /\ act'[w] = act[w]
        \/ phase[w] = "idle" /\ phase'[w] # "idle"
    BY <1>0, <1>5 DEF StartTask, StartJob, Begin, TypeOK, workerVars
  <2> QED
    BY <2>2, <2>3, <2>4
<1>6. ASSUME NEW v \in Workers, Read(v), NEW w \in Workers
      PROVE  Good(w)
  <2>1. CASE w # v
    BY <1>0, <1>3, <1>6, <2>1 DEF Read, Goto, TypeOK
  <2>2. CASE w = v
    <3>1. /\ phase[w] = "read" /\ phase'[w] # "idle"
          /\ act'[w] = act[w] /\ wrote'[w] = wrote[w] /\ store' = store
          /\ \/ cache[act[w].doc] # Miss /\ seen'[w] = cache[act[w].doc]
             \/ seen'[w] = Null
             \/ seen'[w] = store[act[w].doc]
      BY <1>0, <1>6, <2>2 DEF Read, Goto, TypeOK
    <3> QED
      BY <1>1, <1>2, <3>1
  <2> QED
    BY <2>1, <2>2
<1>7. ASSUME NEW v \in Workers, Fill(v) \/ Skip(v) \/ FindGone(v) \/ Sync(v), NEW w \in Workers
      PROVE  Good(w)
  <2>1. /\ phase[v] # "idle" /\ act' = act
        /\ phase'[w] = phase[w] \/ (w = v /\ phase'[w] # "idle")
        /\ seen'[w] = seen[w] \/ seen'[w] = Null
        /\ wrote'[w] = wrote[w] \/ wrote'[w] = Null
    BY <1>0, <1>7 DEF Fill, Skip, FindGone, Sync, GotoForget, Goto, TypeOK
  <2> QED
    BY <1>0, <1>1, <1>2, <2>1 DEF WorkersRest
<1>8. ASSUME NEW v \in Workers, Write(v), NEW w \in Workers
      PROVE  Good(w)
  <2>1. CASE w # v
    BY <1>0, <1>3, <1>8, <2>1 DEF Write, Goto, TypeOK
  <2>2. CASE w = v
    <3>1. phase[w] = "write" /\ sql' = sql
      BY <1>8, <2>2 DEF Write, primaryVars
    <3>2. store'[act[w].doc] = Written(w)
      BY <1>8, <2>2, <3>1, WriteMovesOn DEF Write
    <3>3. /\ phase'[w] = "sync" /\ act'[w] = act[w] /\ seen'[w] = seen[w]
          /\ wrote'[w] = store'[act[w].doc] \/ wrote'[w] = Null
      BY <1>0, <1>8, <2>2, <3>2 DEF Write, Goto, TypeOK
    <3> QED
      BY <1>1, <1>2, <3>1, <3>3
  <2> QED
    BY <2>1, <2>2
<1>9. ASSUME NEW v \in Workers, End(v), NEW w \in Workers
      PROVE  Good(w)
  <2>1. CASE w # v
    BY <1>0, <1>3, <1>9, <2>1 DEF End, TypeOK
  <2>2. CASE w = v
    BY <1>0, <1>9, <2>2 DEF End, TypeOK
  <2> QED
    BY <2>1, <2>2
<1>10. ASSUME Crash, NEW w \in Workers
       PROVE  Good(w)
  BY <1>10 DEF Crash
<1>11. \A w \in Workers : Good(w)
  BY <1>4, <1>5, <1>6, <1>7, <1>8, <1>9, <1>10
     DEF Next, Step, Conflict, Forget, Lose, Abort
<1> QED
  BY <1>11 DEF WorkersKnow, WorkersRest, KnownHere

(* A save that a replay is done with has reached the document. *)
LEMMA NextSaveDone ==
  ASSUME IInv, Next
  PROVE  SaveDone'
<1> DEFINE Done(w) == /\ phase'[w] \in {"sync", "forget"}
                      /\ act'[w].kind = "save" /\ sql'[act'[w].doc].live
                      => act'[w].age <= store'[act'[w].doc].age
<1>0. TypeOK /\ SaveDone /\ WorkersKnow
  BY DEF IInv
<1>1. ASSUME NEW w \in Workers, phase[w] \in {"sync", "forget"}, act'[w] = act[w]
      PROVE  Done(w)
  <2>1. /\ act[w] \in Action /\ act[w].doc \in Docs
        /\ store[act[w].doc] \in Value /\ store'[act[w].doc] \in Value
    BY <1>0, <1>1, NextTypeOK DEF TypeOK, Action
  <2>2. Later(sql[act[w].doc], store[act[w].doc], sql'[act[w].doc], store'[act[w].doc])
    BY <2>1, NextMovesOn
  <2> QED
    BY <1>0, <1>1, <2>1, <2>2 DEF SaveDone, Later, Value, Action
<1>2. ASSUME NEW w \in Workers, Write(w) PROVE Done(w)
  <2>1. phase[w] = "write" /\ act' = act /\ store'[act[w].doc] = Written(w)
    BY <1>2, WriteMovesOn DEF Write, primaryVars
  <2>2. act[w] \in Action
    BY <1>0, <2>1 DEF TypeOK
  <2> QED
    BY <2>1, <2>2 DEF Written, Action
<1>3. ASSUME NEW w \in Workers, Skip(w) \/ FindGone(w) PROVE Done(w)
  <2>1. /\ phase[w] = "write" /\ act' = act /\ sql' = sql /\ store' = store
        /\ act[w] \in Action /\ act[w].doc \in Docs /\ (Outdone(w) \/ Gone(w))
        /\ seen[w] \in Value /\ store[act[w].doc] \in Value
    BY <1>0, <1>3 DEF Skip, FindGone, GotoForget, TypeOK, Action, primaryVars
  <2>2. Known(seen[w], sql[act[w].doc], store[act[w].doc])
    BY <1>0, <2>1 DEF WorkersKnow, KnownHere
  <2> QED
    BY <2>1, <2>2 DEF Outdone, Gone, Known, Action, Value
<1>4. ASSUME NEW w \in Workers, phase'[w] \in {"sync", "forget"}
      PROVE  \/ phase[w] \in {"sync", "forget"} /\ act'[w] = act[w]
             \/ Write(w) \/ Skip(w) \/ FindGone(w)
  <2>1. CASE UNCHANGED <<phase, act>>
    BY <1>4, <2>1
  <2>2. ASSUME NEW v \in Workers, StartTask(v) \/ StartJob(v)
        PROVE  phase[w] \in {"sync", "forget"} /\ act'[w] = act[w]
    BY <1>0, <1>4, <2>2 DEF StartTask, StartJob, Begin, TypeOK, workerVars
  <2>3. ASSUME NEW v \in Workers, Read(v) \/ Fill(v) \/ Sync(v) \/ End(v)
        PROVE  phase[w] \in {"sync", "forget"} /\ act'[w] = act[w]
    BY <1>0, <1>4, <2>3 DEF Read, Fill, Sync, End, GotoForget, Goto, TypeOK
  <2>4. ASSUME NEW v \in Workers, v # w, Write(v) \/ Skip(v) \/ FindGone(v)
        PROVE  phase[w] \in {"sync", "forget"} /\ act'[w] = act[w]
    BY <1>0, <1>4, <2>4 DEF Write, Skip, FindGone, GotoForget, Goto, TypeOK
  <2>5. ~Crash
    BY <1>4 DEF Crash
  <2>6. \/ UNCHANGED <<phase, act>>
        \/ \E v \in Workers : StartTask(v) \/ StartJob(v) \/ Read(v) \/ Fill(v)
                                \/ Sync(v) \/ End(v) \/ Write(v) \/ Skip(v)
                                \/ FindGone(v)
    BY <2>5 DEF Next, Step, Save, Delete, Commit, Rollback, Evict, Conflict, Forget,
       Lose, Abort, workerVars
  <2> QED
    BY <2>1, <2>2, <2>3, <2>4, <2>6
<1> QED
  BY <1>1, <1>2, <1>3, <1>4 DEF SaveDone

(* What memcached is given is what a thread knows. *)
LEMMA NextCacheKnown ==
  ASSUME IInv, Next
  PROVE  CacheKnown'
<1>0. TypeOK
  BY DEF IInv
<1> DEFINE FromThread(d) == \E w \in Workers : /\ phase[w] # "idle" /\ d = act[w].doc
                                              /\ cache'[d] \in {seen[w], wrote[w]}
           Fine == \A d \in Docs : cache'[d] \in {cache[d], Miss} \/ FromThread(d)
<1>1. ASSUME UNCHANGED cache PROVE Fine
  BY <1>1
<1>2. ASSUME NEW d \in Docs, Evict(d) PROVE Fine
  BY <1>0, <1>2 DEF Evict, TypeOK
<1>3. ASSUME NEW w \in Workers, Fill(w) \/ Sync(w) PROVE Fine
  <2>1. phase[w] # "idle" /\ act[w].doc \in Docs
    BY <1>0, <1>3 DEF Fill, Sync, TypeOK, Action
  <2>2. /\ cache'[act[w].doc] \in {cache[act[w].doc], Miss, seen[w], wrote[w]}
        /\ \A d \in Docs : d # act[w].doc => cache'[d] = cache[d]
    BY <1>0, <1>3, <2>1 DEF Fill, Sync, AddCache, TypeOK
  <2> QED
    BY <2>1, <2>2
<1>4. ASSUME NEW w \in Workers, DropOnError(w) PROVE Fine
  BY <1>0, <1>4 DEF DropOnError, TypeOK
<1>5. Fine
  <2>1. \/ UNCHANGED cache
        \/ \E d \in Docs : Evict(d)
        \/ \E w \in Workers : Fill(w) \/ Sync(w) \/ DropOnError(w)
    BY DEF Next, Step, Save, Delete, Commit, Rollback, StartTask, StartJob, Read, Skip, FindGone,
       Write, Conflict, Forget, Lose, Abort, Crash
  <2> QED
    BY <1>1, <1>2, <1>3, <1>4, <2>1
<1> QED
  BY <1>5, StillKnown DEF CacheKnown, KnownHere

(* The pending actions that a step takes away: those a replay has done with. *)
LEMMA Forgotten ==
  ASSUME IInv, Next, NEW a \in pending
  PROVE  \/ \E b \in pending' : Same(a, b) /\ (a.kind = "delete" \/ b.kind = a.kind)
         \/ \E b \in pending' : Same(a, b) /\ ~sql[a.doc].live
         \/ a.kind = "save" /\ sql[a.doc].live
              => UNCHANGED <<sql, store>> /\ a.age <= store[a.doc].age
<1> DEFINE Kept == \E b \in pending' : Same(a, b) /\ (a.kind = "delete" \/ b.kind = a.kind)
           Replaced == \E b \in pending' : Same(a, b) /\ ~sql[a.doc].live
           Finished == a.kind = "save" /\ sql[a.doc].live
                         => UNCHANGED <<sql, store>> /\ a.age <= store[a.doc].age
<1>0. /\ TypeOK /\ ActionsCovered /\ SaveDone
      /\ a \in Action /\ pending \in SUBSET Action
  BY DEF IInv, TypeOK
<1>1. ASSUME pending \subseteq pending' PROVE Kept
  BY <1>1 DEF Same
<1>2. ASSUME NEW c \in Action, Covered(c, sql[c.doc]), pending' = Bump(c)
      PROVE  Kept \/ Replaced
  <2>1. CASE a \in pending'
    BY <2>1 DEF Same
  <2>2. CASE a \notin pending'
    <3>1. PICK b \in pending' : Same(a, b) /\ b.kind = c.kind /\ Same(c, a)
      BY <1>0, <1>2, <2>2, BumpKeeps
    <3>2. CASE c.kind = "save"
      BY <1>0, <3>1, <3>2 DEF Action
    <3>3. CASE c.kind = "delete"
      BY <1>2, <3>1, <3>3 DEF Covered, Same
    <3> QED
      BY <3>2, <3>3 DEF Action
  <2> QED
    BY <2>1, <2>2
<1>3. ASSUME NEW w \in Workers, StartJob(w) PROVE Kept \/ Replaced
  <2>1. PICK c \in Candidates :
          IF c.typed THEN Begin(w, c, TRUE) /\ UNCHANGED pending
          ELSE pending' = Bump(c) /\ UNCHANGED workerVars
    BY <1>3 DEF StartJob
  <2>2. c \in Action /\ Covered(c, sql[c.doc])
    BY <1>0 DEF Candidates, ActionsCovered, CoveredHere
  <2>3. pending' = pending \/ pending' = Bump(c)
    BY <2>1, Zenon
  <2> QED
    BY <1>1, <1>2, <2>2, <2>3
<1>4. ASSUME NEW w \in Workers, Abort(w) PROVE Kept \/ Replaced
  <2>1. act[w] \in Action /\ Covered(act[w], sql[act[w].doc])
    BY <1>0, <1>4 DEF Abort, TypeOK, ActionsCovered, CoveredHere
  <2>2. pending' = pending \/ pending' = Bump(act[w])
    BY <1>4, Zenon DEF Abort
  <2> QED
    BY <1>1, <1>2, <2>1, <2>2
<1>5. ASSUME NEW w \in Workers, Forget(w) PROVE Kept \/ Finished
  <2>1. /\ phase[w] = "forget" /\ act[w] \in Action
        /\ Covered(act[w], sql[act[w].doc])
        /\ pending' = {b \in pending : ~Same(act[w], b)}
        /\ UNCHANGED <<sql, store>>
    BY <1>0, <1>5 DEF Forget, TypeOK, ActionsCovered, CoveredHere
  <2>2. CASE ~Same(act[w], a)
    BY <2>1, <2>2 DEF Same
  <2>3. CASE Same(act[w], a)
    <3>1. sql[a.doc].live => act[w].kind = "save"
      BY <2>1, <2>3 DEF Covered, Same, Action
    <3> QED
      BY <1>0, <2>1, <2>3, <3>1 DEF SaveDone, Same
  <2> QED
    BY <2>2, <2>3
<1>6. \/ pending \subseteq pending'
      \/ \E w \in Workers : StartJob(w) \/ Abort(w) \/ Forget(w)
  BY DEF Next, Step, Save, Delete, Commit, Rollback, Evict, StartTask, Read, Fill, Skip, FindGone,
     Write, Conflict, Sync, Lose, Crash, primaryVars
<1> QED
  BY <1>1, <1>3, <1>4, <1>5, <1>6

(* Hence nothing is forgotten. *)
LEMMA NextNothingForgotten ==
  ASSUME IInv, Next
  PROVE  NothingForgotten'
<1>0. TypeOK /\ TypeOK' /\ NothingForgotten /\ TxAhead
  BY NextTypeOK DEF IInv
<1> SUFFICES ASSUME NEW d \in Docs, sql'[d].live, store'[d].age < sql'[d].age
             PROVE  \E b \in pending' : b.doc = d /\ b.kind = "save" /\ b.age = sql'[d].age
  BY DEF NothingForgotten
<1>1. CASE Commit(d)
  <2>1. /\ tx[d] \in pending' /\ tx[d].doc = d /\ sql'[d].age = tx[d].age
        /\ sql'[d].live = (tx[d].kind = "save")
    BY <1>1, CommittedRow
  <2>2. tx[d].kind = "save"
    BY <2>1, Zenon
  <2> QED
    BY <2>1, <2>2
<1>2. CASE ~Commit(d)
  <2>1. sql'[d] = sql[d]
    BY <1>0, <1>2 DEF Next, Step, Save, Delete, Commit, Rollback, Evict, StartTask,
       StartJob, Read, Fill, Skip, FindGone, Write, Conflict, Sync, Forget, Lose, Abort, Crash,
       TypeOK, primaryVars
  <2>2. store[d].age <= store'[d].age /\ store[d].age \in Nat /\ store'[d].age \in Nat
        /\ sql[d].age \in Nat
    BY <1>0, NextMovesOn DEF Later, TypeOK, Value, Row
  <2>3. PICK a \in pending : a.doc = d /\ a.kind = "save" /\ a.age = sql[d].age
    BY <1>0, <2>1, <2>2 DEF NothingForgotten
  <2>4. PICK b \in pending' : Same(a, b) /\ b.kind = "save"
    BY <2>1, <2>2, <2>3, Forgotten
  <2> QED
    BY <2>1, <2>3, <2>4 DEF Same
<1> QED
  BY <1>1, <1>2

(* The invariant is inductive. *)
LEMMA NextIInv ==
  ASSUME IInv, [Next]_vars
  PROVE  IInv'
<1>1. CASE Next
  <2>1. CopyBehind'
    BY <1>1, NextMovesOn DEF CopyBehind
  <2> QED
    BY <1>1, <2>1, NextTypeOK, NextTxAhead, NextCovered, NextWorkersKnow, NextSaveDone,
       NextCacheKnown, NextNothingForgotten DEF IInv
<1>2. CASE UNCHANGED vars
  <2>1. /\ TypeOK' /\ NothingForgotten' /\ CopyBehind' /\ TxAhead' /\ SaveDone'
    BY <1>2 DEF vars, IInv, TypeOK, NothingForgotten, CopyBehind, TxAhead, SaveDone
  <2>2. CacheKnown' /\ WorkersKnow' /\ WorkersRest' /\ ActionsCovered'
    BY <1>2 DEF vars, IInv, CacheKnown, WorkersKnow, WorkersRest, ActionsCovered,
       KnownHere, CoveredHere
  <2> QED
    BY <2>1, <2>2 DEF IInv
<1> QED
  BY <1>1, <1>2

(* The state of dual writing stays typed. *)
THEOREM DualWriteTyped == Spec => []TypeOK
<1>1. IInv => TypeOK
  BY DEF IInv
<1> QED
  BY <1>1, InitIInv, NextIInv, PTL DEF Spec

(* Whatever fails or crashes, a committed change that Cloudant does not have
   keeps its pending action.                                                *)
THEOREM NothingIsForgotten == Spec => []NothingForgotten
<1>1. IInv => NothingForgotten
  BY DEF IInv
<1> QED
  BY <1>1, InitIInv, NextIInv, PTL DEF Spec

(* A pending save is deleted only when Cloudant has it or a later change, or
   the document is deleted.                                                 *)
THEOREM DroppedOnlyWhenDone == Spec => DroppedWhenDone
<1> DEFINE Dropping == \A a \in pending :
      a.kind = "save" /\ (\A b \in pending' : ~Same(a, b))
        => ~sql[a.doc].live \/ store[a.doc].age >= a.age
<1>1. IInv /\ Next => Dropping
  BY Forgotten
<1>2. IInv /\ [Next]_vars => [Dropping]_vars
  BY <1>1
<1> QED
  BY <1>2, InitIInv, NextIInv, PTL DEF Spec, DroppedWhenDone

(* Dual writing implements a replica that only moves forward: the detailed
   specification refines the abstract one.                                  *)
THEOREM ImplementsReplica == Spec => IsReplica
<1>1. Init => Replicated!Init
  BY DEF Init, Replicated!Init, copyOf, Null
<1>2. IInv /\ [Next]_vars => [Replicated!Next]_<<sql, copyOf>>
  <2> SUFFICES ASSUME IInv, [Next]_vars
               PROVE  Replicated!Next \/ UNCHANGED <<sql, copyOf>>
    OBVIOUS
  <2>0. /\ sql \in [Docs -> Row] /\ store \in [Docs -> Value] /\ TypeOK
    BY DEF IInv, TypeOK
  <2>1. CASE UNCHANGED <<sql, store>>
    BY <2>1 DEF copyOf
  <2>2. ASSUME NEW d \in Docs, Commit(d)
        PROVE  Replicated!Next
    <3>1. /\ sql[d].live /\ tx[d] \in Action /\ sql[d].age < tx[d].age /\ store' = store
          /\ sql' = [sql EXCEPT ![d] = [age |-> tx[d].age, live |-> tx[d].kind = "save"]]
      BY <2>0, <2>2 DEF Commit, IInv, TypeOK, TxAhead
    <3>2. sql'[d].age = tx[d].age /\ sql' = [sql EXCEPT ![d] = sql'[d]] /\ copyOf' = copyOf
      BY <2>0, <3>1 DEF copyOf
    <3>3. Replicated!Advance(d)
      BY <2>0, <3>1, <3>2 DEF Replicated!Advance, Row, Action
    <3> QED
      BY <3>3 DEF Replicated!Next
  <2>3. ASSUME NEW w \in Workers, phase[w] = "write", ~Outdone(w), Accepted(w),
               store' = [store EXCEPT ![act[w].doc] = Written(w)], sql' = sql
        PROVE  Replicated!Next \/ UNCHANGED <<sql, copyOf>>
    <3> DEFINE d == act[w].doc
    <3>1. /\ act[w] \in Action /\ d \in Docs /\ Written(w) \in Value
          /\ store'[d] = Written(w)
          /\ Later(sql[d], store[d], sql'[d], store'[d])
          /\ store'[d].age <= sql[d].age
      BY <2>3, WriteMovesOn DEF Action
    <3>2. copyOf' = [copyOf EXCEPT ![d] = store'[d].age] /\ copyOf'[d] = store'[d].age
          /\ copyOf[d] = store[d].age
      BY <2>0, <2>3, <3>1 DEF copyOf
    <3>3. CASE store'[d].age = store[d].age
      BY <2>0, <2>3, <3>2, <3>3 DEF copyOf
    <3>4. CASE store'[d].age > store[d].age
      <4>1. Replicated!Follow(d)
        BY <2>3, <3>1, <3>2, <3>4 DEF Replicated!Follow
      <4> QED
        BY <3>1, <4>1 DEF Replicated!Next
    <3>5. CASE store'[d].age < store[d].age
      <4>1. ~sql[d].live
        BY <2>0, <2>3, <3>1, <3>5 DEF Later, Value
      <4>2. act[w].kind = "delete"
        <5>1. CASE act[w].kind = "save"
          <6>1. seen[w].age <= act[w].age /\ Written(w).age = act[w].age
            BY <5>1, <2>0, <2>3, <3>1 DEF Outdone, Written, TypeOK, Value, Action
          <6>2. store[d].age = 0 \/ store[d] = seen[w]
            BY <2>0, <2>3, <3>1 DEF IInv, WorkersKnow, KnownHere, Known, Accepted,
               TypeOK, Value
          <6> QED
            BY <2>0, <2>3, <3>1, <3>5, <6>1, <6>2 DEF TypeOK, Value, Action
        <5> QED
          BY <3>1, <5>1 DEF Action
      <4>3. store'[d].age = 0
        BY <3>1, <4>2 DEF Written
      <4>4. Replicated!Vanish(d)
        BY <2>3, <3>2, <4>1, <4>3 DEF Replicated!Vanish
      <4> QED
        BY <3>1, <4>4 DEF Replicated!Next
    <3>6. store'[d].age \in Nat /\ store[d].age \in Nat
      BY <2>0, <3>1 DEF Value
    <3> QED
      BY <3>3, <3>4, <3>5, <3>6
  <2>4. \/ UNCHANGED <<sql, store>>
        \/ \E d \in Docs : Commit(d)
        \/ \E w \in Workers :
             /\ phase[w] = "write" /\ ~Outdone(w) /\ Accepted(w)
             /\ store' = [store EXCEPT ![act[w].doc] = Written(w)] /\ sql' = sql
    BY DEF Next, Step, Save, Delete, Rollback, Evict, StartTask, StartJob, Read, Fill,
       Skip, FindGone, Write, Conflict, Sync, Forget, Lose, Abort, Crash, primaryVars, vars
  <2> QED
    BY <2>1, <2>2, <2>3, <2>4
<1> QED
  BY <1>1, <1>2, InitIInv, NextIInv, PTL DEF Spec, IsReplica, Replicated!Spec

------------------------------------------------------------------------------
(* When nothing is pending, every document that lives is in Cloudant as it is
   in its row, whatever tasks of requests are still to run: the half of the
   claim of SyncDualWriteStrategy that does hold.                           *)
SettledWhenQuiet ==
  pending = {} => \A d \in Docs : sql[d].live => store[d].age = sql[d].age

(* With nothing left to replay, no living document of Cloudant is behind. *)
THEOREM QuietMeansSettled == Spec => []SettledWhenQuiet
<1>1. IInv => SettledWhenQuiet
  <2> SUFFICES ASSUME IInv, pending = {}, NEW d \in Docs, sql[d].live
               PROVE  store[d].age = sql[d].age
    BY DEF SettledWhenQuiet
  <2>1. store[d].age <= sql[d].age /\ store[d].age \in Nat /\ sql[d].age \in Nat
    BY DEF IInv, CopyBehind, TypeOK, Value, Row
  <2>2. ~(store[d].age < sql[d].age)
    BY DEF IInv, NothingForgotten
  <2> QED
    BY <2>1, <2>2
<1> QED
  BY <1>1, InitIInv, NextIInv, PTL DEF Spec

(* Nothing but what was committed is ever read: the document in Cloudant, the
   entry of memcached and what a replay has read of them carry committed ages,
   although replays run beside open transactions and rollbacks.             *)
CommittedOnly ==
  /\ \A d \in Docs : /\ store[d].age <= sql[d].age
                      /\ cache[d] # Miss => cache[d].age <= sql[d].age
  /\ \A w \in Workers : phase[w] # "idle" => seen[w].age <= sql[act[w].doc].age

(* What was never committed is never seen beside the database. *)
THEOREM OnlyCommittedIsRead == Spec => []CommittedOnly
<1>1. IInv => CommittedOnly
  BY DEF IInv, CommittedOnly, CopyBehind, CacheKnown, WorkersKnow, KnownHere, Known
<1> QED
  BY <1>1, InitIInv, NextIInv, PTL DEF Spec

------------------------------------------------------------------------------
(* A save names its type and has been retried at most n times. *)
Counted(a, n) == a.kind = "save" => a.typed /\ a.retry <= n

(* So has every copy of it: in the open transaction, in the table, with a task
   and with a replay.  A copy of the job may be older than its row, and counts
   its retry on from there.                                                 *)
CopiesCounted ==
  /\ \A a \in pending \cup tasks : Counted(a, faults)
  /\ \A w \in Workers : phase[w] # "idle" => Counted(act[w], faults)
  /\ \A d \in Docs : tx[d] # NoAction => Counted(tx[d], faults)

(* Faults are counted up. *)
LEMMA NextFaults ==
  ASSUME IInv, Next
  PROVE  faults \in Nat /\ faults' \in Nat /\ faults <= faults'
<1>1. faults \in Nat
  BY BoundAssumption DEF IInv, TypeOK
<1>2. faults' = faults \/ faults' = faults + 1
  BY DEF Next, Step, Save, Delete, Commit, Rollback, Evict, StartTask, StartJob, Read,
     Fill, Skip, FindGone, Write, Conflict, Sync, Forget, Lose, Abort, Crash, Fault
<1> QED
  BY <1>1, <1>2

LEMMA CountedStays ==
  ASSUME NEW a \in Action, NEW m \in Nat, NEW n \in Nat, m <= n, Counted(a, m)
  PROVE  Counted(a, n)
BY DEF Counted, Action

(* A bumped action is one retry older. *)
LEMMA BumpCounted ==
  ASSUME NEW a \in Action, NEW n, Counted([a EXCEPT !.retry = @ + 1], n),
         \A b \in pending : Counted(b, n)
  PROVE  \A b \in Bump(a) : Counted(b, n)
<1>1. \A b \in Bump(a) : b \in pending \/ b = [a EXCEPT !.retry = @ + 1]
  BY DEF Bump
<1> QED
  BY <1>1

(* Where the actions of the table come from, and what they count. *)
LEMMA NextPendingCounted ==
  ASSUME IInv, CopiesCounted, Next
  PROVE  \A b \in pending' : Counted(b, faults')
<1>0. /\ TypeOK /\ faults \in Nat /\ faults' \in Nat /\ faults <= faults'
      /\ pending \in SUBSET Action
  BY NextFaults DEF IInv, TypeOK
<1>1. \A b \in pending : Counted(b, faults')
  BY <1>0, CountedStays DEF CopiesCounted
<1>2. ASSUME NEW d \in Docs, Commit(d) PROVE \A b \in pending' : Counted(b, faults')
  <2>1. pending' = pending \cup {tx[d]} /\ tx[d] \in Action /\ tx[d] # NoAction
    BY <1>0, <1>2 DEF Commit, TypeOK
  <2>2. Counted(tx[d], faults')
    BY <1>0, <2>1, CountedStays DEF CopiesCounted
  <2> QED
    BY <1>1, <2>1, <2>2
<1>3. ASSUME NEW w \in Workers, StartJob(w) PROVE \A b \in pending' : Counted(b, faults')
  <2>1. PICK c \in Candidates :
          IF c.typed THEN Begin(w, c, TRUE) /\ UNCHANGED pending
          ELSE pending' = Bump(c) /\ UNCHANGED workerVars
    BY <1>3 DEF StartJob
  <2>2. c \in Action /\ Counted(c, faults)
    BY <1>0 DEF Candidates, CopiesCounted
  <2>3. CASE c.typed
    <3>1. pending' = pending
      BY <2>1, <2>3, Zenon
    <3> QED
      BY <1>1, <3>1
  <2>4. CASE ~c.typed
    <3>1. pending' = Bump(c)
      BY <2>1, <2>4, Zenon
    <3>2. Counted([c EXCEPT !.retry = @ + 1], faults')
      BY <2>2, <2>4 DEF Counted, Action
    <3> QED
      BY <1>1, <2>2, <3>1, <3>2, BumpCounted
  <2> QED
    BY <2>3, <2>4
<1>4. ASSUME NEW w \in Workers, Abort(w) PROVE \A b \in pending' : Counted(b, faults')
  <2>1. /\ act[w] \in Action /\ Counted(act[w], faults) /\ faults' = faults + 1
        /\ pending' = pending \/ pending' = Bump(act[w])
    BY <1>0, <1>4 DEF Abort, Fault, TypeOK, CopiesCounted
  <2>2. Counted([act[w] EXCEPT !.retry = @ + 1], faults')
    BY <1>0, <2>1 DEF Counted, Action
  <2> QED
    BY <1>1, <2>1, <2>2, BumpCounted
<1>5. \/ pending' \subseteq pending
      \/ \E d \in Docs : Commit(d)
      \/ \E w \in Workers : StartJob(w) \/ Abort(w)
  BY DEF Next, Step, Save, Delete, Rollback, Evict, StartTask, Read, Fill, Skip, FindGone, Write,
     Conflict, Sync, Forget, Lose, Crash, primaryVars
<1> QED
  BY <1>1, <1>2, <1>3, <1>4, <1>5

(* A replay starts from a copy of the table or of a task. *)
LEMMA NextActCounted ==
  ASSUME IInv, CopiesCounted, Next
  PROVE  \A w \in Workers : phase'[w] # "idle" => Counted(act'[w], faults')
<1>0. /\ TypeOK /\ TypeOK' /\ faults \in Nat /\ faults' \in Nat /\ faults <= faults'
  BY NextFaults, NextTypeOK DEF IInv
<1> SUFFICES ASSUME NEW w \in Workers, phase'[w] # "idle"
             PROVE  Counted(act'[w], faults')
  OBVIOUS
<1>1. Counted(act'[w], faults)
  BY NextActions DEF CopiesCounted
<1> QED
  BY <1>0, <1>1, CountedStays DEF TypeOK

(* A task is the action of the transaction that was committed. *)
LEMMA NextTasksCounted ==
  ASSUME IInv, CopiesCounted, Next
  PROVE  \A b \in tasks' : Counted(b, faults')
<1>0. /\ TypeOK /\ faults \in Nat /\ faults' \in Nat /\ faults <= faults'
      /\ tasks \in SUBSET Action
  BY NextFaults DEF IInv, TypeOK
<1>1. \A b \in tasks' : b \in tasks \/ \E d \in Docs : b = tx[d] /\ tx[d] # NoAction
  BY DEF Next, Step, Save, Delete, Commit, Rollback, Evict, StartTask, StartJob, Read,
     Fill, Skip, FindGone, Write, Conflict, Sync, Forget, Lose, Abort, Crash, primaryVars
<1>2. \A d \in Docs : tx[d] # NoAction => tx[d] \in Action
  BY <1>0 DEF TypeOK
<1> QED
  BY <1>0, <1>1, <1>2, CountedStays DEF CopiesCounted

(* An action is written with its type and no retry. *)
LEMMA NextTxCounted ==
  ASSUME IInv, CopiesCounted, Next
  PROVE  \A d \in Docs : tx'[d] # NoAction => Counted(tx'[d], faults')
<1>0. /\ TypeOK /\ faults \in Nat /\ faults' \in Nat /\ faults <= faults'
  BY NextFaults DEF IInv
<1>1. \A d \in Docs : \A n, t :
        /\ Counted(NewAction(d, "save", n, TRUE), faults')
        /\ Counted(NewAction(d, "delete", n, t), faults')
  BY <1>0 DEF Counted, NewAction
<1>2. ASSUME NEW d \in Docs, Save(d) \/ Delete(d), NEW e \in Docs
      PROVE  tx'[e] = tx[e] \/ Counted(tx'[e], faults')
  <2>1. CASE tx' = [tx EXCEPT ![d] = NewAction(d, "save", AgeIn(d) + 1, TRUE)]
    BY <1>0, <1>1, <2>1 DEF TypeOK
  <2>2. CASE tx' = [tx EXCEPT ![d] =
                      NewAction(d, "delete", AgeIn(d) + 1, tx[d] = NoAction)]
    BY <1>0, <1>1, <2>2 DEF TypeOK
  <2> QED
    BY <1>2, <2>1, <2>2, Zenon DEF Save, Delete
<1>3. ASSUME NEW d \in Docs, Commit(d) \/ Rollback(d), NEW e \in Docs
      PROVE  tx'[e] = tx[e] \/ tx'[e] = NoAction
  BY <1>0, <1>3 DEF Commit, Rollback, TypeOK
<1>4. CASE Crash
  BY <1>4 DEF Crash
<1>5. \/ UNCHANGED tx
      \/ \E d \in Docs : Save(d) \/ Delete(d) \/ Commit(d) \/ Rollback(d)
      \/ Crash
  BY DEF Next, Step, Evict, StartTask, StartJob, Read, Fill, Skip, FindGone, Write, Conflict,
     Sync, Forget, Lose, Abort, primaryVars
<1>6. \A d \in Docs : tx[d] # NoAction => Counted(tx[d], faults')
  BY <1>0, CountedStays DEF CopiesCounted, TypeOK
<1> QED
  BY <1>2, <1>3, <1>4, <1>5, <1>6

LEMMA CopiesAreCounted == Spec => []CopiesCounted
<1>1. Init => CopiesCounted
  BY DEF Init, CopiesCounted
<1>2. IInv /\ CopiesCounted /\ [Next]_vars => CopiesCounted'
  <2>1. CASE UNCHANGED vars
    BY <2>1 DEF vars, CopiesCounted
  <2> QED
    BY <2>1, NextPendingCounted, NextActCounted, NextTasksCounted, NextTxCounted DEF CopiesCounted
<1> QED
  BY <1>1, <1>2, InitIInv, NextIInv, PTL DEF Spec

(* The retries of a pending save are faults that happened: no overlap of
   replays and no conflict of theirs ages it.                               *)
THEOREM RetriesAreFaults == Spec => []RetriesCounted
<1>1. CopiesCounted => RetriesCounted
  BY DEF CopiesCounted, RetriesCounted, Counted
<1> QED
  BY <1>1, CopiesAreCounted, PTL

(* Hence, as long as there have not been more faults than retries allowed, the
   job still selects every pending save: what CatchesUp needs at its last.  *)
Selected == faults <= MaxRetry => \A a \in pending : a.kind = "save" => a \in Candidates

(* The job does not give up a save before there were too many faults. *)
THEOREM NeverGivenUp == Spec => []Selected
<1>1. TypeOK /\ RetriesCounted => Selected
  BY BoundAssumption DEF TypeOK, RetriesCounted, Selected, Candidates, Action
<1> QED
  BY <1>1, DualWriteTyped, RetriesAreFaults, PTL
==============================================================================
