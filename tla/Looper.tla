------------------------------- MODULE Looper -------------------------------
(***************************************************************************)
(* The promise runtime: the continuations of one request, the threads that *)
(* may run them, and the looper that lets a thread which waits in          *)
(* Promise.get() run them itself.                                          *)
(*                                                                         *)
(* A continuation captures the thread locals of the code that registers it *)
(* and, with them, one lock and one looper (RunnableWrapper); the module   *)
(* models one such context.  A future is named after what completes it: a  *)
(* call an IO thread answers, or the continuation whose result it is.      *)
(*                                                                         *)
(* stack[t] is what thread t is in the middle of, outermost first:         *)
(*   body  the code of a continuation, or of the request itself (Main);    *)
(*   wait  the loop inside the Promise.get() of the body below;            *)
(*   fire  the listeners of a completed future still to be executed;       *)
(*   tail  a body that has returned, while its listeners are fired.        *)
(***************************************************************************)
EXTENDS Integers, Sequences, FiniteSets, SequencesExt

CONSTANTS
  Workers,    \* threads of JunboThreadPool
  Home,       \* the worker that serves the request
  Outsiders,  \* threads of the HTTP client, timers
  Calls,      \* asynchronous calls the request makes
  Conts,      \* its continuations
  Main,       \* the request's own code
  NoFuture,   \* nothing to wait for
  On,         \* the future a continuation listens to
  By,         \* the code that registers it
  Same,       \* continuations executed by sameThreadExecutor
  Waits,      \* the future whose get() a body calls before it returns
  QueueLimit, \* apphost.threadPool.queueLimit
  Slow        \* whether a wait may last 30 seconds

Threads == Workers \cup Outsiders
Code == Conts \cup {Main}
Futures == Conts \cup Calls

ASSUME ThreadsAssumption ==
  Home \in Workers /\ Workers \cap Outsiders = {} /\ IsFiniteSet(Threads)
ASSUME NamesAssumption == Main \notin Conts /\ NoFuture \notin Futures /\ Calls \cap Conts = {}
ASSUME ProgramAssumption ==
  /\ On \in [Conts -> Futures] /\ By \in [Conts -> Code]
  /\ Waits \in [Code -> Futures \cup {NoFuture}]
(* Only the links Guava adds to chain and collect futures are run by the
   thread that completes one, and all they do is complete the next.        *)
ASSUME LinksAssumption ==
  Same \subseteq Conts /\ \A c \in Same : Waits[c] = NoFuture /\ \A d \in Conts : By[d] # c
ASSUME BoundsAssumption == QueueLimit \in Nat /\ Slow \in BOOLEAN

VARIABLES
  stack,      \* what each thread is in the middle of
  listeners,  \* of each future not yet done: in order of registration
  done,       \* the completed futures
  registered, \* the continuations that exist
  ran,        \* RunnableOnce.tag: those whose code has been entered
  queue,      \* Looper.runnableWrapperQueue
  nested,     \* Looper.nestedLevel
  stopped,    \* the bodies whose stop holder is set
  expired,    \* the bodies whose get() has thrown
  asleep,     \* the threads waiting on Looper.notEmpty, in order of arrival
  pool        \* JunboThreadPool.workQueue

vars == <<stack, listeners, done, registered, ran, queue, nested, stopped, expired, asleep, pool>>
looper == <<queue, nested, stopped, asleep>>

Listener == [kind: {"run"}, of: Conts] \cup [kind: {"stop"}, of: Code]
RunOf(c) == [kind |-> "run", of |-> c]
StopOf(k) == [kind |-> "stop", of |-> k]

Frame == [k: {"body", "tail", "wait"}, of: Code, lock: BOOLEAN]
           \cup [k: {"fire"}, lock: {FALSE}, q: Seq(Listener)]
Body(c, locked) == [k |-> "body", of |-> c, lock |-> locked]
Returned(c, locked) == [k |-> "tail", of |-> c, lock |-> locked]
Wait(c) == [k |-> "wait", of |-> c, lock |-> FALSE]
Fire(q) == [k |-> "fire", lock |-> FALSE, q |-> q]
-----------------------------------------------------------------------------
Init ==
  /\ stack = [t \in Threads |-> IF t = Home THEN <<Body(Main, FALSE)>> ELSE <<>>]
  /\ listeners = [f \in Futures |-> <<>>]
  /\ done = {} /\ registered = {} /\ ran = {}
  /\ queue = <<>> /\ nested = 0 /\ stopped = {} /\ expired = {}
  /\ asleep = <<>> /\ pool = {}

(* Mutants, which the runs must notice. *)
Always(x) == TRUE
Nobody == nested < 0
Endless(t) == FALSE
Silent == asleep' = asleep
Uncounted == nested

Idle(t) == stack[t] = <<>>
At(t, k) == ~ Idle(t) /\ Last(stack[t]).k = k
Push(t, frame) == stack' = [stack EXCEPT ![t] = Append(@, frame)]

(* A thread returns from what is over: fired listeners, and bodies with all
   their listeners fired, the lock of a locked one being released.         *)
Spent(frame) == frame.k = "tail" \/ (frame.k = "fire" /\ frame.q = <<>>)
Unwound(s) == SubSeq(s, 1, Max({0} \cup {i \in DOMAIN s : ~ Spent(s[i])}))

(* RunnableWrapper.lock, reentrant: held by the thread of a locked body. *)
LockFree(t) ==
  \A u \in Threads \ {t} : \A i \in DOMAIN stack[u] : ~ stack[u][i].lock

(* RunnableOnce.run: whether the code of c is still to be entered. *)
Fresh(c) == c \notin ran

(* notEmpty.signal: wakes the thread that has waited longest, and no other. *)
Signal == asleep' = IF asleep = <<>> THEN <<>> ELSE Tail(asleep)

(* Looper.offerRunnable finds nestedLevel <= 0: "no thread waiting". *)
NoneWaiting == nested <= 0

(* offerRunnable first drops what has run from the head of the queue. *)
Pruned ==
  LET left == {i \in DOMAIN queue : queue[i] \notin ran}
  IN  IF left = {} THEN <<>> ELSE SubSeq(queue, Min(left), Len(queue))

(* The listeners thread t still has to fire, its next one excepted. *)
Rest(t) == Append(Front(stack[t]), Fire(Tail(Last(stack[t]).q)))
Next1(t) == Head(Last(stack[t]).q)

(* ExecutorContext.theExecutor, sameThreadExecutor: run it here and now. *)
RunsInline(t, c) == t \in Workers \/ c \in Same
-----------------------------------------------------------------------------
(* ListenableFutureWrapper.addListener: the listener of a future that is done
   is executed at once.                                                     *)
Register(t, c) ==
  /\ At(t, "body") /\ Last(stack[t]).of = By[c]
  /\ c \notin registered /\ On[c] \in registered \cup Calls
  /\ registered' = registered \cup {c}
  /\ IF On[c] \in done
     THEN Push(t, Fire(<<RunOf(c)>>)) /\ UNCHANGED listeners
     ELSE listeners' = [listeners EXCEPT ![On[c]] = Append(@, RunOf(c))] /\ UNCHANGED stack
  /\ UNCHANGED <<done, ran, looper, expired, pool>>

Registered(k) == \A c \in Conts : By[c] = k => c \in registered

(* Looper.start: one more get() in progress. *)
Deeper == nested + 1

(* Promise.get() of a future that is not done, through Looper.tryToWait. *)
Get(t) ==
  LET k == Last(stack[t]).of
  IN  /\ At(t, "body") /\ t \in Workers
      /\ Registered(k) /\ k \notin expired
      /\ Waits[k] \in Futures \ done
      /\ nested' = Deeper
      /\ listeners' = [listeners EXCEPT ![Waits[k]] = Append(@, StopOf(k))]
      /\ Push(t, Wait(k))
      /\ UNCHANGED <<done, registered, ran, queue, stopped, expired, asleep, pool>>

(* pollRunnable has nothing to run and its stop holder is not set. *)
Sleep(t) ==
  /\ At(t, "wait") /\ queue = <<>> /\ Last(stack[t]).of \notin stopped
  /\ t \notin ToSet(asleep)
  /\ asleep' = Append(asleep, t)
  /\ UNCHANGED <<stack, listeners, done, registered, ran, queue, nested, stopped, expired, pool>>

(* Looper.run: the thread runs what it polls, with no lock taken. *)
Poll(t) ==
  /\ At(t, "wait") /\ t \notin ToSet(asleep) /\ queue # <<>>
  /\ queue' = Tail(queue)
  /\ IF Fresh(Head(queue))
     THEN ran' = ran \cup {Head(queue)} /\ Push(t, Body(Head(queue), FALSE))
     ELSE UNCHANGED <<ran, stack>>
  /\ UNCHANGED <<listeners, done, registered, nested, stopped, expired, asleep, pool>>

(* Its stop holder is set and the queue is empty: get() returns. *)
Leave(t) ==
  /\ At(t, "wait") /\ t \notin ToSet(asleep)
  /\ queue = <<>> /\ Last(stack[t]).of \in stopped
  /\ stack' = [stack EXCEPT ![t] = Front(@)]
  /\ UNCHANGED <<listeners, done, registered, ran, looper, expired, pool>>

(* pollRunnable throws when 30 seconds pass without a signal to this thread,
   whatever its stop holder and the queue say by then.                      *)
TimedOut(t) == Slow /\ t \in ToSet(asleep)
Expire(t) ==
  /\ At(t, "wait") /\ TimedOut(t)
  /\ expired' = expired \cup {Last(stack[t]).of}
  /\ stack' = [stack EXCEPT ![t] = Front(@)]
  /\ \E i \in DOMAIN asleep : asleep[i] = t /\ asleep' = RemoveAt(asleep, i)
  /\ UNCHANGED <<listeners, done, registered, ran, queue, nested, stopped, pool>>

(* The body returns, or throws after its get() has: its future is completed,
   and the thread goes on with the listeners, inside the lock if it has it. *)
Finish(t) ==
  LET k == Last(stack[t]).of
  IN  /\ At(t, "body") /\ Registered(k)
      /\ Waits[k] \in done \cup {NoFuture} \/ k \in expired
      /\ IF k = Main
         THEN stack' = [stack EXCEPT ![t] = Unwound(Front(@))] /\ UNCHANGED done
         ELSE /\ done' = done \cup {k}
              /\ stack' = [stack EXCEPT ![t] =
                   Unwound(Front(@) \o <<Returned(k, Last(@).lock), Fire(listeners[k])>>)]
      /\ UNCHANGED <<listeners, registered, ran, looper, expired, pool>>

(* An IO thread completes the future of a call. *)
Answer(t, f) ==
  /\ t \in Outsiders /\ Idle(t) /\ f \notin done
  /\ done' = done \cup {f}
  /\ stack' = [stack EXCEPT ![t] = Unwound(<<Fire(listeners[f])>>)]
  /\ UNCHANGED <<listeners, registered, ran, looper, expired, pool>>

(* Looper.stop, the listener of a get(). *)
Stop(t) ==
  /\ At(t, "fire") /\ Next1(t).kind = "stop"
  /\ nested' = nested - 1
  /\ stopped' = stopped \cup {Next1(t).of}
  /\ Signal
  /\ stack' = [stack EXCEPT ![t] = Unwound(Rest(t))]
  /\ UNCHANGED <<listeners, done, registered, ran, queue, expired, pool>>

(* RunnableWrapper.run: the code is run, once, with the lock. *)
Inline(t) ==
  LET c == Next1(t).of
  IN  /\ At(t, "fire") /\ Next1(t).kind = "run" /\ RunsInline(t, c)
      /\ LockFree(t)
      /\ IF Fresh(c)
         THEN ran' = ran \cup {c} /\ stack' = [stack EXCEPT ![t] = Append(Rest(t), Body(c, TRUE))]
         ELSE UNCHANGED ran /\ stack' = [stack EXCEPT ![t] = Unwound(Rest(t))]
      /\ UNCHANGED <<listeners, done, registered, looper, expired, pool>>

(* JunboThreadPool.execute: the looper queues the continuation; if no thread
   waits, the pool does too, or drops it when its queue is full.            *)
Offer(t) ==
  LET c == Next1(t).of
  IN  /\ At(t, "fire") /\ Next1(t).kind = "run" /\ ~ RunsInline(t, c)
      /\ queue' = Append(Pruned, c)
      /\ Signal
      /\ IF NoneWaiting /\ Cardinality(pool) < QueueLimit
         THEN pool' = pool \cup {c}
         ELSE UNCHANGED pool
      /\ stack' = [stack EXCEPT ![t] = Unwound(Rest(t))]
      /\ UNCHANGED <<listeners, done, registered, ran, nested, stopped, expired>>

(* An idle worker takes a continuation from the pool's queue. *)
Take(t, c) ==
  /\ t \in Workers /\ Idle(t) /\ c \in pool
  /\ pool' = pool \ {c}
  /\ Push(t, Fire(<<RunOf(c)>>))
  /\ UNCHANGED <<listeners, done, registered, ran, looper, expired>>

Step(t) ==
  \/ \E c \in Conts : Register(t, c) \/ Take(t, c)
  \/ \E f \in Calls : Answer(t, f)
  \/ Get(t) \/ Sleep(t) \/ Poll(t) \/ Leave(t) \/ Finish(t)
  \/ Stop(t) \/ Inline(t) \/ Offer(t)

Next == \E t \in Threads : Step(t) \/ Expire(t)

Spec == Init /\ [][Next]_vars

(* The operating system runs every thread, the HTTP client answers every call
   (it has a request timeout of its own), and a wait that lasts times out.  *)
Fairness == \A t \in Threads : WF_vars(Step(t)) /\ WF_vars(Expire(t))
FairSpec == Spec /\ Fairness
-----------------------------------------------------------------------------
(* Every variable has its type; nestedLevel never goes below zero. *)
TypeOK ==
  /\ stack \in [Threads -> Seq(Frame)] /\ listeners \in [Futures -> Seq(Listener)]
  /\ done \subseteq Futures /\ registered \subseteq Conts /\ ran \subseteq registered
  /\ pool \subseteq registered /\ queue \in Seq(registered)
  /\ nested \in Nat /\ stopped \subseteq Code /\ expired \subseteq Code
  /\ asleep \in Seq(Threads) /\ IsInjective(asleep)

Runs(t, c) == \E i \in DOMAIN stack[t] : stack[t][i].k = "body" /\ stack[t][i].of = c

(* A continuation may wait in the looper's queue and in the pool's at once:
   its code is entered once all the same, and never after it has returned.  *)
RunOnce ==
  \A c \in Conts :
    /\ \A t, u \in Threads : Runs(t, c) /\ Runs(u, c) => t = u
    /\ \A t \in Threads : Runs(t, c) =>
         c \notin done /\ Cardinality({i \in DOMAIN stack[t] : stack[t][i].k = "body" /\ stack[t][i].of = c}) = 1

(* PromiseTest: "checkNotReentry", continuations of one context never overlap. *)
NotReentrant ==
  \A t, u \in Threads :
    (At(t, "body") /\ At(u, "body") /\ Last(stack[t]).of # Main /\ Last(stack[u]).of # Main) => t = u

InLoop == \E t \in Threads : \E i \in DOMAIN stack[t] : stack[t][i].k = "wait"

(* A continuation whose future is done and that has not run is on its way: a
   thread has it, the pool has it, or a thread in its loop will poll it.    *)
NeverStranded ==
  \A c \in registered \ ran : On[c] \in done =>
    \/ \E t \in Threads : \E i \in DOMAIN stack[t] :
         stack[t][i].k = "fire" /\ RunOf(c) \in ToSet(stack[t][i].q)
    \/ c \in pool
    \/ c \in ToSet(queue) /\ InLoop

(* The threads in their loop that are awake: each will look into the queue. *)
Looking == {t \in Threads : At(t, "wait") /\ t \notin ToSet(asleep)}

(* signal() wakes one thread, whichever get() it is in.  Also when several sleep,
   none does so while more continuations are queued than there are threads
   awake to poll them.  (The signal of a stop() may go to the wrong one: then
   only the time limit ends the get() that could return, EveryGetEnds.)      *)
NoLostWakeup == asleep # <<>> => Len(queue) <= Cardinality(Looking)

(* Looper.offerRunnable says of nestedLevel <= 0 "no thread waiting", and keeps
   a continuation from the pool otherwise: then a thread must be waiting.   *)
NestedMeansWaiting == nested > 0 => InLoop

(* Whatever interleaving, every continuation eventually runs to its end. *)
AllRun == \A c \in Conts : c \in registered ~> c \in done

(* Promise.get() eventually returns or throws, even when the future it waits
   for is behind the lock its own thread holds.                             *)
EveryGetEnds ==
  \A k \in Code :
    (\E t \in Threads : \E i \in DOMAIN stack[t] : stack[t][i] = Wait(k))
      ~> ~ \E t \in Threads : \E i \in DOMAIN stack[t] : stack[t][i] = Wait(k)
=============================================================================
