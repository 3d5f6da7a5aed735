---------------------------- MODULE LooperProofs ----------------------------
(***************************************************************************)
(* The safety of the promise runtime, for every program of continuations,  *)
(* every set of threads and every queue limit.                             *)
(*                                                                         *)
(* A step moves the stack of one thread (Moves): it leaves what is below   *)
(* the top alone, and either adds one frame (Risen) or does not (Fallen).  *)
(* What it does to the listeners still to be fired is one of three things: *)
(* nothing (OwedSame), a new list (Adds), or one listener less (Drops).    *)
(* One lemma per action says which (RegisterDoes ... OfferDoes), and the   *)
(* invariants are then preserved without a look at the stacks:             *)
(*   Known, Entered     a body is on one stack, once, and has not ended;   *)
(*   OneLock            the context's lock is below all the code of its    *)
(*                      continuations, so of one thread;                   *)
(*   Awake              there are threads awake for all that is queued;    *)
(*   Placed, Waiting    each get() has one listener, and its loop;         *)
(*   Counts             nestedLevel is the number of those listeners;      *)
(*   Deliveries         where a continuation that is to run can be.        *)
(***************************************************************************)
EXTENDS Looper, TLAPS, WellFoundedInduction, SequenceTheorems, FiniteSetTheorems

(* What a step leaves of the stack it moves: everything below the top. *)
Keeps(s, r) ==
  /\ r \in Seq(Frame)
  /\ \A i \in DOMAIN s : i < Len(s) /\ ~ Spent(s[i]) => i \in DOMAIN r
  /\ \A i \in DOMAIN r : i < Len(s) => i \in DOMAIN s /\ r[i] = s[i]

(* The top of a stack is never over, and a wait is on top of its body. *)
Shaped(s) ==
  /\ s # <<>> => ~ Spent(s[Len(s)])
  /\ \A i \in DOMAIN s : s[i].k = "wait" =>
       i - 1 \in DOMAIN s /\ s[i - 1].k = "body" /\ s[i - 1].of = s[i].of

Typed ==
  /\ stack \in [Threads -> Seq(Frame)] /\ listeners \in [Futures -> Seq(Listener)]
  /\ done \subseteq Futures /\ registered \subseteq Conts /\ ran \subseteq registered
  /\ pool \subseteq registered /\ queue \in Seq(registered)
  /\ nested \in Int /\ stopped \subseteq Code /\ expired \subseteq Code
  /\ asleep \in Seq(Threads) /\ IsInjective(asleep)
  /\ \A t \in Threads : Shaped(stack[t])

(* One thread moves its own stack. *)
Moves(t) ==
  /\ stack' \in [Threads -> Seq(Frame)]
  /\ \A u \in Threads \ {t} : stack'[u] = stack[u]
  /\ Keeps(stack[t], stack'[t]) /\ Shaped(stack'[t])

(* What becomes of the bodies, the waits and the locks of the stack. *)
Inherits(s, r, i) ==
  /\ i \in DOMAIN s /\ i \in DOMAIN r /\ r[i].lock = s[i].lock
  /\ r[i].k \in {"body", "wait"} => r[i] = s[i]
Fallen(s, r) ==
  \A i \in DOMAIN r : Inherits(s, r, i) \/ (i = Len(s) + 1 /\ r[i].k = "fire")
Risen(s, r, f) ==
  Len(r) = Len(s) + 1 /\ r[Len(s) + 1] = f /\ \A i \in DOMAIN s : Inherits(s, r, i)

(* The listeners that a frame still owes a call. *)
Owed(s, i) == IF i \in DOMAIN s /\ s[i].k = "fire" THEN s[i].q ELSE <<>>
OthersOwed(t, n) ==
  \A u \in Threads : \A i \in Nat :
    u # t \/ i # n => Owed(stack'[u], i) = Owed(stack[u], i)

OwedSame ==
  \A u \in Threads : \A i \in Nat : Owed(stack'[u], i) = Owed(stack[u], i)
Adds(t, q) ==
  \E n \in Nat : /\ OthersOwed(t, n)
                 /\ Owed(stack[t], n) = <<>> /\ Owed(stack'[t], n) = q
Drops(t, x) ==
  \E n \in Nat : /\ OthersOwed(t, n)
                 /\ Owed(stack[t], n) # <<>> /\ Owed(stack[t], n)[1] = x
                 /\ Owed(stack'[t], n) = Tail(Owed(stack[t], n))
WaitsStay(t) ==
  \A i \in DOMAIN stack[t] : stack[t][i].k = "wait" =>
    i \in DOMAIN stack'[t] /\ stack'[t][i] = stack[t][i]

In(q, x) == \E a \in DOMAIN q : q[a] = x
Owes(x) == \E u \in Threads : \E i \in Nat : In(Owed(stack[u], i), x)

(* Listeners of continuations are those of continuations that exist. *)
Known ==
  \A c \in Conts : c \notin registered =>
    /\ \A f \in Futures : ~ In(listeners[f], RunOf(c))
    /\ ~ Owes(RunOf(c))

FrameAt(u, i, k, c) == i \in DOMAIN stack[u] /\ stack[u][i].k = k /\ stack[u][i].of = c

(* A body is on one stack, once, and its continuation has begun, not ended. *)
Entered ==
  /\ Conts \cap done \subseteq ran
  /\ \A c \in Code, u \in Threads : \A i \in Nat : FrameAt(u, i, "body", c) =>
       /\ c # Main => c \in ran \ done
       /\ \A v \in Threads : \A j \in Nat : FrameAt(v, j, "body", c) => u = v /\ i = j

(* The lock of the context is with one thread, and below all the code of
   continuations: that which is entered with it, and that which is polled.  *)
Locked(u, i) == i \in DOMAIN stack[u] /\ stack[u][i].lock
Covered(k, c) == (k = "body" /\ c # Main) \/ k = "wait"
OneLock ==
  /\ \A u, v \in Threads : \A i, j \in Nat : Locked(u, i) /\ Locked(v, j) => u = v
  /\ \A u \in Threads : \A i \in Nat : \A k \in {"body", "wait"}, c \in Code :
       FrameAt(u, i, k, c) /\ Covered(k, c) => \E j \in Nat : j <= i /\ Locked(u, j)

(* Who sleeps is in the loop of its get(); and while anyone does, there are as
   many threads awake in theirs as there are continuations queued.          *)
Awake == (\A u \in Threads : In(asleep, u) => At(u, "wait")) /\ NoLostWakeup

(* The listeners of the get() of k: fired, or still to be.  Each is in one
   place, and moves from the future's list to the thread that completes it. *)
Single(q) == \A a, b \in DOMAIN q : q[a] = q[b] /\ q[a].kind = "stop" => a = b
OwedAt(u, i, a, k) == a \in DOMAIN Owed(stack[u], i) /\ Owed(stack[u], i)[a] = StopOf(k)
Unique ==
  \A u, v \in Threads : \A i, j \in Nat : \A k \in Code : \A a, b :
    OwedAt(u, i, a, k) /\ OwedAt(v, j, b, k) => u = v /\ i = j /\ a = b
Placed ==
  /\ Unique
  /\ \A f \in Futures : Single(listeners[f])
  /\ \A f \in Futures, k \in Code : In(listeners[f], StopOf(k)) => f = Waits[k] /\ (k # Main => k \in ran)
  /\ \A k \in Code : Owes(StopOf(k)) => Waits[k] \in done
  /\ \A k \in stopped : Waits[k] \in done /\ ~ Owes(StopOf(k))

(* The get()s that are counted: each has its listener somewhere, and, until it
   throws, its loop on the stack above its body.                            *)
Pending(k) == Waits[k] \in Futures \ done /\ In(listeners[Waits[k]], StopOf(k))
Waiting ==
  \A k \in Code, u \in Threads : \A i \in Nat :
    FrameAt(u, i, "body", k) /\ k \notin expired /\ Pending(k) => FrameAt(u, i + 1, "wait", k)
Counted == {k \in Code : Pending(k) \/ Owes(StopOf(k))}
Counts == IsFiniteSet(Counted) /\ nested = Cardinality(Counted)

LEMMA Singles ==
  ASSUME NEW S, NEW x \in S
  PROVE  /\ <<x>> \in Seq(S) /\ Len(<<x>>) = 1 /\ <<x>>[1] = x /\ DOMAIN <<x>> = {1}
         /\ <<>> \in Seq(S)
OBVIOUS

LEMMA FrameTypes ==
  ASSUME NEW f \in Frame
  PROVE  /\ f.k \in {"body", "tail", "wait", "fire"} /\ f.lock \in BOOLEAN
         /\ f.k = "fire" => f.lock = FALSE /\ f.q \in Seq(Listener)
         /\ f.k # "fire" => f.of \in Code
BY DEF Frame

LEMMA Frames ==
  /\ \A c \in Code, l \in BOOLEAN :
       /\ Body(c, l) \in Frame /\ Body(c, l).k = "body" /\ Body(c, l).of = c /\ Body(c, l).lock = l
       /\ Returned(c, l) \in Frame /\ Returned(c, l).k = "tail" /\ Returned(c, l).lock = l
  /\ \A c \in Code : Wait(c) \in Frame /\ Wait(c).k = "wait" /\ Wait(c).of = c /\ ~ Wait(c).lock
  /\ \A q \in Seq(Listener) : Fire(q) \in Frame /\ Fire(q).k = "fire" /\ Fire(q).q = q /\ ~ Fire(q).lock
BY DEF Frame, Body, Wait, Fire, Returned

LEMMA Listeners ==
  /\ \A c \in Conts : RunOf(c) \in Listener /\ RunOf(c).kind = "run" /\ RunOf(c).of = c
  /\ \A k \in Code : StopOf(k) \in Listener /\ StopOf(k).kind = "stop" /\ StopOf(k).of = k
  /\ \A x \in Listener : /\ x.kind = "run" => x.of \in Conts /\ x = RunOf(x.of)
                         /\ x.kind = "stop" => x.of \in Code /\ x = StopOf(x.of)
                         /\ x.kind \in {"run", "stop"}
BY DEF Listener, RunOf, StopOf

LEMMA MaxExists ==
  ASSUME NEW n \in Nat, NEW T, T \subseteq 0 .. n, T # {}
  PROVE  Max(T) \in T /\ \A x \in T : x <= Max(T)
<1> DEFINE Left == {n - x : x \in T}
           Less == {ss \in Nat \X Nat : ss[1] < ss[2]}
<1>0. \A x \in T : x \in Nat /\ x <= n /\ n - x \in Nat
  OBVIOUS
<1>1. IsWellFoundedOn(Less, Nat)
  BY NatLessThanWellFounded DEF OpToRel
<1>2. PICK y \in Left : \A z \in Left : <<z, y>> \notin Less
  <2> HIDE DEF Less
  <2>1. Left \subseteq Nat /\ Left # {}
    BY <1>0
  <2> HIDE DEF Left
  <2> QED
    BY <1>1, <2>1, WFMin
<1>3. PICK x \in T : y = n - x
  BY <1>2
<1>4. \A z \in T : z <= x
  <2> SUFFICES ASSUME NEW z \in T PROVE z <= x
    OBVIOUS
  <2>1. ~ (n - z < n - x)
    BY <1>0, <1>2, <1>3
  <2> QED
    BY <1>0, <2>1
<1>5. \E m \in T : \A z \in T : m >= z
  BY <1>0, <1>4
<1>6. Max(T) \in T /\ \A z \in T : Max(T) >= z
  BY <1>5 DEF Max
<1> QED
  BY <1>0, <1>6

LEMMA MinExists ==
  ASSUME NEW T, T \subseteq Nat, T # {}
  PROVE  Min(T) \in T /\ \A x \in T : Min(T) <= x
<1> DEFINE Less == {ss \in Nat \X Nat : ss[1] < ss[2]}
<1>1. IsWellFoundedOn(Less, Nat)
  BY NatLessThanWellFounded DEF OpToRel
<1>2. PICK y \in T : \A z \in T : <<z, y>> \notin Less
  <2> HIDE DEF Less
  <2> QED
    BY <1>1, WFMin
<1>3. \A z \in T : z \in Nat /\ y \in Nat /\ ~ (z < y)
  BY <1>2
<1>4. \E m \in T : \A z \in T : m <= z
  BY <1>3
<1> QED
  BY <1>4 DEF Min

LEMMA UnwoundPrefix ==
  ASSUME NEW s \in Seq(Frame)
  PROVE  /\ Unwound(s) \in Seq(Frame) /\ Len(Unwound(s)) <= Len(s)
         /\ \A i \in DOMAIN Unwound(s) : i \in DOMAIN s /\ Unwound(s)[i] = s[i]
         /\ \A i \in DOMAIN s : ~ Spent(s[i]) => i \in DOMAIN Unwound(s)
         /\ Unwound(s) # <<>> => ~ Spent(Unwound(s)[Len(Unwound(s))])
<1> DEFINE T == {0} \cup {i \in DOMAIN s : ~ Spent(s[i])}
           m == Max(T)
<1>1. T \subseteq 0 .. Len(s) /\ T # {}
  OBVIOUS
<1>2. m \in T /\ \A x \in T : x <= m
  <2>1. Len(s) \in Nat
    OBVIOUS
  <2> HIDE DEF T
  <2> QED
    BY <1>1, <2>1, MaxExists
<1>3. m \in 0 .. Len(s)
  BY <1>1, <1>2
<1>4. Unwound(s) = SubSeq(s, 1, m)
  BY DEF Unwound
<1>5. Unwound(s) \in Seq(Frame) /\ Len(Unwound(s)) = m /\ \A i \in 1 .. m : Unwound(s)[i] = s[i]
  <2> HIDE DEF m
  <2> QED
    BY <1>3, <1>4
<1>6. DOMAIN Unwound(s) = 1 .. m
  BY <1>5
<1>7. m # 0 => ~ Spent(s[m])
  BY <1>2
<1> HIDE DEF m
<1> QED
  BY <1>2, <1>3, <1>5, <1>6, <1>7

LEMMA Fronts ==
  ASSUME NEW S, NEW s \in Seq(S), s # <<>>
  PROVE  /\ Front(s) \in Seq(S) /\ Len(Front(s)) = Len(s) - 1
         /\ Len(s) \in Nat /\ Len(s) > 0 /\ Len(s) \in DOMAIN s
         /\ \A i \in 1 .. Len(s) - 1 : Front(s)[i] = s[i]
         /\ Last(s) = s[Len(s)] /\ Last(s) \in S
<1>1. Len(s) \in Nat /\ Len(s) > 0 /\ Len(s) \in DOMAIN s
  OBVIOUS
<1>2. Last(s) = s[Len(s)] /\ Last(s) \in S
  BY <1>1 DEF Last
<1>3. /\ Front(s) \in Seq(S) /\ Len(Front(s)) = Len(s) - 1
      /\ \A i \in 1 .. Len(s) - 1 : Front(s)[i] = s[i]
  <2> DEFINE m == Len(s) - 1
  <2>1. m \in 0 .. Len(s)
    BY <1>1
  <2>2. SubSeq(s, 1, m) \in Seq(S) /\ Len(SubSeq(s, 1, m)) = m /\ \A i \in 1 .. m : SubSeq(s, 1, m)[i] = s[i]
    <3> HIDE DEF m
    <3> QED
      BY <2>1
  <2> QED
    BY <2>2 DEF Front
<1> QED
  BY <1>1, <1>2, <1>3

LEMMA Pushed ==
  ASSUME NEW s \in Seq(Frame), NEW f \in Frame, Shaped(s), ~ Spent(f),
         f.k = "wait" => s # <<>> /\ s[Len(s)].k = "body" /\ s[Len(s)].of = f.of
  PROVE  /\ Keeps(s, Append(s, f)) /\ Shaped(Append(s, f))
         /\ Len(Append(s, f)) = Len(s) + 1 /\ Append(s, f)[Len(s) + 1] = f
         /\ \A i \in DOMAIN s : i \in DOMAIN Append(s, f) /\ Append(s, f)[i] = s[i]
<1> DEFINE r == Append(s, f)
<1>1. r \in Seq(Frame) /\ Len(r) = Len(s) + 1 /\ Len(s) \in Nat
  OBVIOUS
<1>2. DOMAIN r = 1 .. Len(s) + 1 /\ DOMAIN s = 1 .. Len(s)
  BY <1>1
<1>3. r[Len(s) + 1] = f /\ \A i \in 1 .. Len(s) : r[i] = s[i]
  OBVIOUS
<1> HIDE DEF r
<1>4. Shaped(r)
  BY <1>1, <1>2, <1>3 DEF Shaped
<1> QED
  BY <1>1, <1>2, <1>3, <1>4 DEF Keeps, r

LEMMA Popped ==
  ASSUME NEW s \in Seq(Frame), Shaped(s), s # <<>>, s[Len(s)].k = "wait"
  PROVE  /\ Keeps(s, Front(s)) /\ Shaped(Front(s)) /\ Len(Front(s)) = Len(s) - 1
<1>1. /\ Front(s) \in Seq(Frame) /\ Len(Front(s)) = Len(s) - 1
      /\ Len(s) \in Nat /\ Len(s) > 0 /\ Len(s) \in DOMAIN s
      /\ \A i \in 1 .. Len(s) - 1 : Front(s)[i] = s[i]
  BY Fronts
<1>2. DOMAIN Front(s) = 1 .. Len(s) - 1 /\ DOMAIN s = 1 .. Len(s)
  BY <1>1
<1>3. Len(s) - 1 \in DOMAIN s /\ ~ Spent(s[Len(s) - 1])
  BY <1>1 DEF Shaped, Spent
<1> QED
  BY <1>1, <1>2, <1>3 DEF Keeps, Shaped

(* A top that is replaced by frames of which the spent ones then go. *)
LEMMA Replaced ==
  ASSUME NEW s \in Seq(Frame), NEW x \in Seq(Frame), Shaped(s), Len(x) >= Len(s) - 1,
         \A i \in 1 .. Len(s) - 1 : x[i] = s[i],
         \A i \in DOMAIN x : i >= Len(s) => x[i].k # "wait"
  PROVE  /\ Keeps(s, Unwound(x)) /\ Shaped(Unwound(x)) /\ Len(Unwound(x)) <= Len(x)
         /\ \A i \in DOMAIN Unwound(x) : i \in DOMAIN x /\ Unwound(x)[i] = x[i]
         /\ \A i \in DOMAIN x : ~ Spent(x[i]) => i \in DOMAIN Unwound(x)
<1> DEFINE r == Unwound(x)
<1>1. /\ r \in Seq(Frame) /\ Len(r) <= Len(x)
      /\ \A i \in DOMAIN r : i \in DOMAIN x /\ r[i] = x[i]
      /\ \A i \in DOMAIN x : ~ Spent(x[i]) => i \in DOMAIN r
      /\ r # <<>> => ~ Spent(r[Len(r)])
  BY UnwoundPrefix
<1> HIDE DEF r
<1>2. DOMAIN s = 1 .. Len(s) /\ DOMAIN x = 1 .. Len(x) /\ DOMAIN r = 1 .. Len(r)
      /\ Len(s) \in Nat /\ Len(x) \in Nat /\ Len(r) \in Nat
  BY <1>1
<1>3. Keeps(s, r)
  <2>1. \A i \in DOMAIN s : i < Len(s) /\ ~ Spent(s[i]) => i \in DOMAIN r
    BY <1>1, <1>2
  <2>2. \A i \in DOMAIN r : i < Len(s) => i \in DOMAIN s /\ r[i] = s[i]
    BY <1>1, <1>2
  <2> QED
    BY <1>1, <2>1, <2>2 DEF Keeps
<1>4. ASSUME NEW i \in DOMAIN r, r[i].k = "wait"
      PROVE  i - 1 \in DOMAIN r /\ r[i - 1].k = "body" /\ r[i - 1].of = r[i].of
  <2>1. i < Len(s) /\ r[i] = s[i]
    BY <1>1, <1>2, <1>4
  <2>2. i - 1 \in DOMAIN s /\ s[i - 1].k = "body" /\ s[i - 1].of = s[i].of
    BY <1>2, <1>4, <2>1 DEF Shaped
  <2>3. i - 1 \in DOMAIN r
    BY <1>2, <2>2
  <2> QED
    BY <1>1, <1>2, <2>1, <2>2, <2>3
<1>5. Shaped(r)
  BY <1>1, <1>4 DEF Shaped
<1> QED
  BY <1>1, <1>3, <1>5 DEF r

LEMMA Starts == Init => Typed
<1> SUFFICES ASSUME Init PROVE Typed
  OBVIOUS
<1> DEFINE b == Body(Main, FALSE)
<1>1. b \in Frame /\ ~ Spent(b) /\ b.k = "body"
  BY Frames DEF Code, Spent
<1>2. stack \in [Threads -> Seq(Frame)] /\ \A t \in Threads : Shaped(stack[t])
  <2>1. \A t \in Threads : stack[t] \in {<<>>, <<Body(Main, FALSE)>>}
    BY DEF Init
  <2>2. <<>> \in Seq(Frame) /\ <<b>> \in Seq(Frame) /\ Len(<<b>>) = 1 /\ <<b>>[1] = b /\ DOMAIN <<b>> = {1}
    <3> HIDE DEF b
    <3> QED
      BY <1>1, Singles
  <2>3. Shaped(<<>>)
    BY DEF Shaped
  <2>4. Shaped(<<b>>)
    <3> HIDE DEF b
    <3> QED
      BY <1>1, <2>2 DEF Shaped
  <2>5. stack = [t \in Threads |-> stack[t]]
    BY DEF Init
  <2> QED
    BY <2>1, <2>2, <2>3, <2>4, <2>5
<1>3. IsInjective(asleep)
  BY DEF Init, IsInjective
<1>4. listeners \in [Futures -> Seq(Listener)] /\ queue \in Seq(registered) /\ asleep \in Seq(Threads)
  BY DEF Init
<1>5. /\ done \subseteq Futures /\ registered \subseteq Conts /\ ran \subseteq registered
      /\ pool \subseteq registered /\ nested \in Int /\ stopped \subseteq Code /\ expired \subseteq Code
  BY DEF Init
<1> QED
  BY <1>2, <1>3, <1>4, <1>5 DEF Typed

(* The pushes: all but one need no more than a live frame. *)
LEMMA Pushes ==
  ASSUME Typed, NEW t \in Threads, NEW f \in Frame, Push(t, f), ~ Spent(f),
         f.k = "wait" => At(t, "body") /\ Last(stack[t]).of = f.of
  PROVE  /\ Moves(t) /\ stack'[t] = Append(stack[t], f)
         /\ Len(stack'[t]) = Len(stack[t]) + 1 /\ stack'[t][Len(stack[t]) + 1] = f
         /\ \A i \in DOMAIN stack[t] : i \in DOMAIN stack'[t] /\ stack'[t][i] = stack[t][i]
<1>1. stack[t] \in Seq(Frame) /\ Shaped(stack[t])
  BY DEF Typed
<1>2. f.k = "wait" =>
        stack[t] # <<>> /\ stack[t][Len(stack[t])].k = "body" /\ stack[t][Len(stack[t])].of = f.of
  BY DEF At, Idle, Last
<1>3. stack'[t] = Append(stack[t], f) /\ \A u \in Threads \ {t} : stack'[u] = stack[u]
  BY DEF Push, Typed
<1>4. Append(stack[t], f) \in Seq(Frame)
  BY <1>1
<1>5. stack' \in [Threads -> Seq(Frame)]
  BY <1>4 DEF Push, Typed
<1> QED
  BY <1>1, <1>2, <1>3, <1>5, Pushed DEF Moves

LEMMA Pops ==
  ASSUME Typed, NEW t \in Threads, At(t, "wait"), stack' = [stack EXCEPT ![t] = Front(@)]
  PROVE  /\ Moves(t) /\ Len(stack'[t]) = Len(stack[t]) - 1
         /\ stack[t] # <<>> /\ stack[t][Len(stack[t])].k = "wait"
<1>1. stack[t] \in Seq(Frame) /\ Shaped(stack[t])
  BY DEF Typed
<1>2. stack[t] # <<>> /\ stack[t][Len(stack[t])].k = "wait"
  BY DEF At, Idle, Last
<1>3. stack'[t] = Front(stack[t]) /\ \A u \in Threads \ {t} : stack'[u] = stack[u]
  BY DEF Typed
<1>4. Front(stack[t]) \in Seq(Frame)
  BY <1>1, <1>2, Fronts
<1>5. stack' \in [Threads -> Seq(Frame)]
  BY <1>4 DEF Typed
<1> QED
  BY <1>1, <1>2, <1>3, <1>5, Popped DEF Moves

(* The top of t is a fire frame: its next listener, and the rest of them. *)
LEMMA Firing ==
  ASSUME Typed, NEW t \in Threads, At(t, "fire")
  PROVE  LET n == Len(stack[t])
             q == stack[t][n].q
         IN  /\ n \in DOMAIN stack[t] /\ stack[t][n].k = "fire" /\ ~ stack[t][n].lock
             /\ q \in Seq(Listener) /\ q # <<>> /\ Next1(t) = q[1] /\ Next1(t) \in Listener
             /\ Rest(t) \in Seq(Frame) /\ Len(Rest(t)) = n /\ Rest(t)[n] = Fire(Tail(q))
             /\ \A i \in 1 .. n - 1 : Rest(t)[i] = stack[t][i]
             /\ Tail(q) \in Seq(Listener)
<1> DEFINE n == Len(stack[t])
           q == stack[t][n].q
<1>1. stack[t] \in Seq(Frame) /\ stack[t] # <<>> /\ Shaped(stack[t])
  BY DEF Typed, At, Idle
<1>2. /\ Front(stack[t]) \in Seq(Frame) /\ Len(Front(stack[t])) = n - 1
      /\ n \in Nat /\ n > 0 /\ n \in DOMAIN stack[t]
      /\ \A i \in 1 .. n - 1 : Front(stack[t])[i] = stack[t][i]
      /\ Last(stack[t]) = stack[t][n] /\ stack[t][n] \in Frame
  BY <1>1, Fronts
<1>3. stack[t][n].k = "fire"
  BY <1>2 DEF At
<1>4. stack[t][n].lock = FALSE /\ q \in Seq(Listener)
  BY <1>2, <1>3, FrameTypes
<1>5. q # <<>>
  BY <1>1, <1>3 DEF Shaped, Spent
<1>6. Tail(q) \in Seq(Listener) /\ Next1(t) = q[1] /\ q[1] \in Listener
  BY <1>2, <1>4, <1>5 DEF Next1
<1>7. Fire(Tail(q)) \in Frame
  BY <1>6, Frames
<1>8. Rest(t) = Append(Front(stack[t]), Fire(Tail(q)))
  BY <1>2 DEF Rest
<1> HIDE DEF n, q
<1>9. /\ Rest(t) \in Seq(Frame) /\ Len(Rest(t)) = n /\ Rest(t)[n] = Fire(Tail(q))
      /\ \A i \in 1 .. n - 1 : Rest(t)[i] = stack[t][i]
  BY <1>2, <1>7, <1>8
<1> QED
  BY <1>2, <1>3, <1>4, <1>5, <1>6, <1>9 DEF n, q

(* The next listener of t has been dealt with and left nothing to run here. *)
LEMMA Consumes ==
  ASSUME Typed, NEW t \in Threads, At(t, "fire"), stack' = [stack EXCEPT ![t] = Unwound(Rest(t))]
  PROVE  LET n == Len(stack[t])
             q == stack[t][n].q
             r == stack'[t]
         IN  /\ Moves(t) /\ n \in Nat /\ n > 0 /\ Len(r) <= n
             /\ n \in DOMAIN r <=> Tail(q) # <<>>
             /\ n \in DOMAIN r => r[n] = Fire(Tail(q))
<1> DEFINE n == Len(stack[t])
           q == stack[t][n].q
           r == stack'[t]
<1>1. stack[t] \in Seq(Frame) /\ Shaped(stack[t])
  BY DEF Typed
<1>2. /\ n \in DOMAIN stack[t] /\ stack[t][n].k = "fire" /\ ~ stack[t][n].lock
      /\ q \in Seq(Listener) /\ q # <<>> /\ Next1(t) = q[1] /\ Next1(t) \in Listener
      /\ Rest(t) \in Seq(Frame) /\ Len(Rest(t)) = n /\ Rest(t)[n] = Fire(Tail(q))
      /\ \A i \in 1 .. n - 1 : Rest(t)[i] = stack[t][i]
      /\ Tail(q) \in Seq(Listener)
  BY Firing
<1>3. n \in Nat /\ n > 0 /\ DOMAIN Rest(t) = 1 .. n
  BY <1>1, <1>2
<1>4. Fire(Tail(q)).k = "fire" /\ Fire(Tail(q)).q = Tail(q)
  BY <1>2, Frames
<1>5. r = Unwound(Rest(t)) /\ \A u \in Threads \ {t} : stack'[u] = stack[u]
  BY DEF Typed
<1> HIDE DEF n, q, r
<1>6. /\ Keeps(stack[t], r) /\ Shaped(r) /\ Len(r) <= n
      /\ \A i \in DOMAIN r : i \in DOMAIN Rest(t) /\ r[i] = Rest(t)[i]
      /\ \A i \in DOMAIN Rest(t) : ~ Spent(Rest(t)[i]) => i \in DOMAIN r
  <2>1. Len(Rest(t)) >= n - 1 /\ \A i \in DOMAIN Rest(t) : i >= n => Rest(t)[i].k # "wait"
    BY <1>2, <1>3, <1>4
  <2>2. /\ Len(Rest(t)) >= Len(stack[t]) - 1 /\ Len(Rest(t)) = n
        /\ \A i \in DOMAIN Rest(t) : i >= Len(stack[t]) => Rest(t)[i].k # "wait"
        /\ \A i \in 1 .. Len(stack[t]) - 1 : Rest(t)[i] = stack[t][i]
        /\ Rest(t) \in Seq(Frame)
    BY <1>2, <2>1 DEF n
  <2>3. /\ Keeps(stack[t], Unwound(Rest(t))) /\ Shaped(Unwound(Rest(t)))
        /\ Len(Unwound(Rest(t))) <= Len(Rest(t))
        /\ \A i \in DOMAIN Unwound(Rest(t)) : i \in DOMAIN Rest(t) /\ Unwound(Rest(t))[i] = Rest(t)[i]
        /\ \A i \in DOMAIN Rest(t) : ~ Spent(Rest(t)[i]) => i \in DOMAIN Unwound(Rest(t))
    BY <1>1, <2>2, Replaced
  <2> QED
    BY <1>5, <2>2, <2>3
<1>7. r \in Seq(Frame)
  BY <1>6 DEF Keeps
<1>8. stack' \in [Threads -> Seq(Frame)]
  BY <1>7 DEF Typed, r
<1>9. Moves(t)
  BY <1>5, <1>6, <1>8 DEF Moves, r
<1>10. n \in DOMAIN r => ~ Spent(r[n])
  <2> SUFFICES ASSUME n \in DOMAIN r PROVE ~ Spent(r[n])
    OBVIOUS
  <2>1. Len(r) = n /\ r # <<>>
    BY <1>3, <1>6, <1>7
  <2> QED
    BY <1>6, <2>1 DEF Shaped
<1>11. n \in DOMAIN r => r[n] = Fire(Tail(q))
  BY <1>2, <1>6
<1>12. n \in DOMAIN r => Tail(q) # <<>>
  BY <1>4, <1>10, <1>11 DEF Spent
<1>13. Tail(q) # <<>> => n \in DOMAIN r
  BY <1>2, <1>3, <1>4, <1>6 DEF Spent
<1> QED
  BY <1>3, <1>6, <1>9, <1>11, <1>12, <1>13 DEF n, q, r

(* ... and left one continuation to run on top of it. *)
LEMMA Enters ==
  ASSUME Typed, NEW t \in Threads, NEW c \in Conts, At(t, "fire"),
         stack' = [stack EXCEPT ![t] = Append(Rest(t), Body(c, TRUE))]
  PROVE  LET n == Len(stack[t])
             q == stack[t][n].q
             r == stack'[t]
         IN  /\ Moves(t) /\ n \in Nat /\ n > 0 /\ Len(r) = n + 1
             /\ n \in DOMAIN r /\ r[n] = Fire(Tail(q)) /\ r[n + 1] = Body(c, TRUE)
<1> DEFINE n == Len(stack[t])
           q == stack[t][n].q
           r == stack'[t]
           b == Body(c, TRUE)
<1>1. stack[t] \in Seq(Frame) /\ Shaped(stack[t])
  BY DEF Typed
<1>2. /\ n \in DOMAIN stack[t] /\ stack[t][n].k = "fire" /\ ~ stack[t][n].lock
      /\ q \in Seq(Listener) /\ q # <<>> /\ Next1(t) = q[1] /\ Next1(t) \in Listener
      /\ Rest(t) \in Seq(Frame) /\ Len(Rest(t)) = n /\ Rest(t)[n] = Fire(Tail(q))
      /\ \A i \in 1 .. n - 1 : Rest(t)[i] = stack[t][i]
      /\ Tail(q) \in Seq(Listener)
  BY Firing
<1>3. n \in Nat /\ n > 0 /\ DOMAIN Rest(t) = 1 .. n
  BY <1>1, <1>2
<1>4. Fire(Tail(q)).k = "fire" /\ b \in Frame /\ b.k = "body" /\ ~ Spent(b)
  BY <1>2, Frames DEF Spent, Code
<1>5. r = Append(Rest(t), b) /\ \A u \in Threads \ {t} : stack'[u] = stack[u]
  BY DEF Typed
<1>6. Len(stack[t]) = n /\ DOMAIN stack[t] = 1 .. n
  BY <1>1
<1> HIDE DEF n, q, r, b
<1>7. r \in Seq(Frame) /\ Len(r) = n + 1 /\ r[n + 1] = b /\ \A i \in 1 .. n : r[i] = Rest(t)[i]
  BY <1>2, <1>3, <1>4, <1>5
<1>8. DOMAIN r = 1 .. n + 1
  BY <1>7
<1>9. Keeps(stack[t], r)
  BY <1>2, <1>3, <1>6, <1>7, <1>8 DEF Keeps
<1>10. Shaped(r)
  <2>1. r # <<>> => ~ Spent(r[Len(r)])
    BY <1>4, <1>7
  <2>2. ASSUME NEW i \in DOMAIN r, r[i].k = "wait"
        PROVE  i - 1 \in DOMAIN r /\ r[i - 1].k = "body" /\ r[i - 1].of = r[i].of
    <3>1. i \in 1 .. n - 1
      BY <1>2, <1>3, <1>4, <1>7, <1>8, <2>2
    <3>2. r[i] = stack[t][i] /\ i \in DOMAIN stack[t]
      BY <1>2, <1>3, <1>6, <1>7, <3>1
    <3>3. i - 1 \in DOMAIN stack[t] /\ stack[t][i - 1].k = "body" /\ stack[t][i - 1].of = stack[t][i].of
      BY <1>1, <2>2, <3>2 DEF Shaped
    <3>4. i - 1 \in 1 .. n - 1
      BY <1>6, <3>1, <3>3
    <3>5. r[i - 1] = stack[t][i - 1]
      BY <1>2, <1>3, <1>7, <3>4
    <3> QED
      BY <1>3, <1>8, <3>2, <3>3, <3>4, <3>5
  <2> QED
    BY <2>1, <2>2 DEF Shaped
<1>11. stack' \in [Threads -> Seq(Frame)]
  BY <1>7 DEF Typed, r
<1>12. Moves(t)
  BY <1>5, <1>9, <1>10, <1>11 DEF Moves, r
<1>13. n \in DOMAIN r /\ r[n] = Fire(Tail(q))
  BY <1>2, <1>3, <1>7, <1>8
<1> QED
  BY <1>3, <1>7, <1>12, <1>13 DEF n, q, r, b

LEMMA Pairs ==
  ASSUME NEW S, NEW s \in Seq(S), NEW a \in S, NEW b \in S
  PROVE  LET x == s \o <<a, b>>
         IN  /\ x \in Seq(S) /\ Len(x) = Len(s) + 2 /\ x[Len(s) + 1] = a /\ x[Len(s) + 2] = b
             /\ \A i \in 1 .. Len(s) : x[i] = s[i]
OBVIOUS

(* The body on top of t has returned, with its listeners q to fire. *)
LEMMA Finishes ==
  ASSUME Typed, NEW t \in Threads, At(t, "body"), NEW k \in Code, NEW q \in Seq(Listener),
         stack' = [stack EXCEPT ![t] = Unwound(Front(@) \o <<Returned(k, Last(@).lock), Fire(q)>>)]
  PROVE  LET n == Len(stack[t])
             r == stack'[t]
         IN  /\ Moves(t) /\ n \in Nat /\ n > 0 /\ Len(r) <= n + 1
             /\ n + 1 \in DOMAIN r <=> q # <<>>
             /\ n + 1 \in DOMAIN r => r[n + 1] = Fire(q)
             /\ n \in DOMAIN r => r[n].k = "tail" /\ r[n].lock = stack[t][n].lock
<1> DEFINE n == Len(stack[t])
           r == stack'[t]
           a == Returned(k, Last(stack[t]).lock)
           x == Front(stack[t]) \o <<a, Fire(q)>>
<1>1. stack[t] \in Seq(Frame) /\ stack[t] # <<>> /\ Shaped(stack[t])
  BY DEF Typed, At, Idle
<1>2. /\ Front(stack[t]) \in Seq(Frame) /\ Len(Front(stack[t])) = n - 1
      /\ n \in Nat /\ n > 0 /\ n \in DOMAIN stack[t]
      /\ \A i \in 1 .. n - 1 : Front(stack[t])[i] = stack[t][i]
      /\ Last(stack[t]) = stack[t][n] /\ stack[t][n] \in Frame
  BY <1>1, Fronts
<1>3. a \in Frame /\ a.k = "tail" /\ a.lock = stack[t][n].lock
  <2>1. stack[t][n].lock \in BOOLEAN
    <3> HIDE DEF n
    <3> QED
      BY <1>2, FrameTypes
  <2>2. a = Returned(k, stack[t][n].lock)
    BY <1>2
  <2> HIDE DEF n, a
  <2> QED
    BY <2>1, <2>2, Frames
<1>4. Fire(q) \in Frame /\ Fire(q).k = "fire" /\ Fire(q).q = q
  BY Frames
<1>5. r = Unwound(x) /\ \A u \in Threads \ {t} : stack'[u] = stack[u]
  BY DEF Typed
<1>6. x \in Seq(Frame) /\ Len(x) = n + 1 /\ x[n] = a /\ x[n + 1] = Fire(q)
      /\ \A i \in 1 .. n - 1 : x[i] = stack[t][i]
  <2> DEFINE s == Front(stack[t])
             f == Fire(q)
             y == s \o <<a, f>>
  <2>1. /\ y \in Seq(Frame) /\ Len(y) = Len(s) + 2 /\ y[Len(s) + 1] = a /\ y[Len(s) + 2] = f
        /\ \A i \in 1 .. Len(s) : y[i] = s[i]
    <3>1. s \in Seq(Frame) /\ a \in Frame /\ f \in Frame
      BY <1>2, <1>3, <1>4
    <3> HIDE DEF s, a, f
    <3> QED
      BY <3>1, Pairs
  <2>2. Len(s) = n - 1
    BY <1>2
  <2>3. n - 1 + 1 = n /\ n - 1 + 2 = n + 1
    BY <1>2
  <2>4. y = x
    OBVIOUS
  <2> HIDE DEF y, n, x, a, f
  <2> QED
    BY <1>2, <2>1, <2>2, <2>3, <2>4 DEF f
<1>7. Len(stack[t]) = n /\ DOMAIN x = 1 .. n + 1
  BY <1>6
<1> HIDE DEF n, r, x, a
<1>8. /\ Keeps(stack[t], r) /\ Shaped(r) /\ Len(r) <= n + 1
      /\ \A i \in DOMAIN r : i \in DOMAIN x /\ r[i] = x[i]
      /\ \A i \in DOMAIN x : ~ Spent(x[i]) => i \in DOMAIN r
  <2>1. Len(x) >= n - 1 /\ \A i \in DOMAIN x : i >= n => x[i].k # "wait"
    BY <1>2, <1>3, <1>4, <1>6, <1>7
  <2>2. /\ Len(x) >= Len(stack[t]) - 1
        /\ \A i \in DOMAIN x : i >= Len(stack[t]) => x[i].k # "wait"
        /\ \A i \in 1 .. Len(stack[t]) - 1 : x[i] = stack[t][i]
        /\ x \in Seq(Frame)
    BY <1>6, <1>7, <2>1
  <2>3. /\ Keeps(stack[t], Unwound(x)) /\ Shaped(Unwound(x)) /\ Len(Unwound(x)) <= Len(x)
        /\ \A i \in DOMAIN Unwound(x) : i \in DOMAIN x /\ Unwound(x)[i] = x[i]
        /\ \A i \in DOMAIN x : ~ Spent(x[i]) => i \in DOMAIN Unwound(x)
    BY <1>1, <2>2, Replaced
  <2> QED
    BY <1>5, <1>6, <2>3
<1>9. r \in Seq(Frame)
  BY <1>8 DEF Keeps
<1>10. stack' \in [Threads -> Seq(Frame)]
  BY <1>9 DEF Typed, r
<1>11. Moves(t)
  BY <1>5, <1>8, <1>10 DEF Moves, r
<1>12. n + 1 \in DOMAIN r => r[n + 1] = Fire(q) /\ ~ Spent(r[n + 1])
  <2> SUFFICES ASSUME n + 1 \in DOMAIN r PROVE r[n + 1] = Fire(q) /\ ~ Spent(r[n + 1])
    OBVIOUS
  <2>1. Len(r) = n + 1 /\ r # <<>>
    BY <1>2, <1>8, <1>9
  <2> QED
    BY <1>6, <1>8, <2>1 DEF Shaped
<1>13. n + 1 \in DOMAIN r <=> q # <<>>
  BY <1>2, <1>4, <1>6, <1>7, <1>8, <1>12 DEF Spent
<1>14. n \in DOMAIN r => r[n].k = "tail" /\ r[n].lock = stack[t][n].lock
  BY <1>3, <1>6, <1>8
<1> QED
  BY <1>2, <1>8, <1>11, <1>12, <1>13, <1>14 DEF n, r

LEMMA Returns ==
  ASSUME Typed, NEW t \in Threads, At(t, "body"), stack' = [stack EXCEPT ![t] = Unwound(Front(@))]
  PROVE  /\ Moves(t) /\ Len(stack[t]) \in Nat /\ Len(stack[t]) > 0
         /\ Len(stack'[t]) < Len(stack[t])
<1> DEFINE n == Len(stack[t])
           x == Front(stack[t])
<1>1. stack[t] \in Seq(Frame) /\ stack[t] # <<>> /\ Shaped(stack[t])
  BY DEF Typed, At, Idle
<1>2. /\ x \in Seq(Frame) /\ Len(x) = n - 1 /\ n \in Nat /\ n > 0
      /\ \A i \in 1 .. n - 1 : x[i] = stack[t][i]
  BY <1>1, Fronts
<1>3. DOMAIN x = 1 .. n - 1
  BY <1>2
<1>4. /\ Len(x) >= Len(stack[t]) - 1
      /\ \A i \in DOMAIN x : i >= Len(stack[t]) => x[i].k # "wait"
      /\ \A i \in 1 .. Len(stack[t]) - 1 : x[i] = stack[t][i]
  BY <1>2, <1>3
<1>5. Keeps(stack[t], Unwound(x)) /\ Shaped(Unwound(x)) /\ Len(Unwound(x)) <= Len(x)
  BY <1>1, <1>2, <1>4, Replaced
<1>6. Unwound(x) \in Seq(Frame)
  BY <1>5 DEF Keeps
<1>7. stack'[t] = Unwound(x) /\ \A u \in Threads \ {t} : stack'[u] = stack[u]
  BY DEF Typed
<1>8. stack' \in [Threads -> Seq(Frame)]
  BY <1>6 DEF Typed
<1>9. Len(Unwound(x)) < n
  BY <1>2, <1>5, <1>6
<1> QED
  BY <1>2, <1>5, <1>7, <1>8, <1>9 DEF Moves

LEMMA Answers ==
  ASSUME Typed, NEW t \in Threads, Idle(t), NEW q \in Seq(Listener),
         stack' = [stack EXCEPT ![t] = Unwound(<<Fire(q)>>)]
  PROVE  /\ Moves(t) /\ Len(stack[t]) = 0 /\ Len(stack'[t]) <= 1
         /\ 1 \in DOMAIN stack'[t] <=> q # <<>>
         /\ 1 \in DOMAIN stack'[t] => stack'[t][1] = Fire(q)
<1> DEFINE f == Fire(q)
           x == <<f>>
           r == stack'[t]
<1>1. stack[t] = <<>> /\ stack[t] \in Seq(Frame) /\ Shaped(stack[t]) /\ Len(stack[t]) = 0
  BY DEF Typed, Idle
<1>2. f \in Frame /\ f.k = "fire" /\ f.q = q
  BY Frames
<1>3. r = Unwound(x) /\ \A u \in Threads \ {t} : stack'[u] = stack[u]
  BY DEF Typed
<1> HIDE DEF f, r
<1>4. x \in Seq(Frame) /\ Len(x) = 1 /\ x[1] = f /\ DOMAIN x = {1}
  BY <1>2, Singles
<1> HIDE DEF x
<1>5. /\ Keeps(stack[t], r) /\ Shaped(r) /\ Len(r) <= 1
      /\ \A i \in DOMAIN r : i \in DOMAIN x /\ r[i] = x[i]
      /\ \A i \in DOMAIN x : ~ Spent(x[i]) => i \in DOMAIN r
  <2>1. /\ Len(x) >= Len(stack[t]) - 1
        /\ \A i \in DOMAIN x : i >= Len(stack[t]) => x[i].k # "wait"
        /\ \A i \in 1 .. Len(stack[t]) - 1 : x[i] = stack[t][i]
    BY <1>1, <1>2, <1>4
  <2>2. /\ Keeps(stack[t], Unwound(x)) /\ Shaped(Unwound(x)) /\ Len(Unwound(x)) <= Len(x)
        /\ \A i \in DOMAIN Unwound(x) : i \in DOMAIN x /\ Unwound(x)[i] = x[i]
        /\ \A i \in DOMAIN x : ~ Spent(x[i]) => i \in DOMAIN Unwound(x)
    BY <1>1, <1>4, <2>1, Replaced
  <2> QED
    BY <1>3, <1>4, <2>2
<1>6. r \in Seq(Frame)
  BY <1>5 DEF Keeps
<1>7. stack' \in [Threads -> Seq(Frame)]
  BY <1>6 DEF Typed, r
<1>8. Moves(t)
  BY <1>3, <1>5, <1>7 DEF Moves, r
<1>9. 1 \in DOMAIN r => r[1] = f /\ ~ Spent(r[1])
  <2> SUFFICES ASSUME 1 \in DOMAIN r PROVE r[1] = f /\ ~ Spent(r[1])
    OBVIOUS
  <2>1. Len(r) = 1 /\ r # <<>>
    BY <1>5, <1>6
  <2> QED
    BY <1>4, <1>5, <2>1 DEF Shaped
<1>10. 1 \in DOMAIN r <=> q # <<>>
  BY <1>2, <1>4, <1>5, <1>9 DEF Spent
<1> QED
  BY <1>1, <1>5, <1>8, <1>9, <1>10 DEF f, r

LEMMA BelowOwed ==
  ASSUME NEW s \in Seq(Frame), NEW r, Keeps(s, r), NEW i \in Nat, i < Len(s)
  PROVE  Owed(r, i) = Owed(s, i)
<1>1. CASE i \in DOMAIN r
  BY <1>1 DEF Keeps, Owed
<1>2. CASE i \notin DOMAIN r
  <2>1. i \in DOMAIN s => Spent(s[i])
    BY <1>2 DEF Keeps
  <2> QED
    BY <1>2, <2>1 DEF Owed, Spent
<1> QED
  BY <1>1, <1>2

LEMMA AboveOwed ==
  ASSUME NEW s \in Seq(Frame), NEW i \in Nat, i > Len(s)
  PROVE  Owed(s, i) = <<>> /\ i \notin DOMAIN s
BY DEF Owed

LEMMA OwedTyped ==
  ASSUME NEW s \in Seq(Frame), NEW i \in Nat
  PROVE  Owed(s, i) \in Seq(Listener)
<1>1. i \in DOMAIN s => s[i] \in Frame
  OBVIOUS
<1>2. i \in DOMAIN s /\ s[i].k = "fire" => s[i].q \in Seq(Listener)
  BY <1>1, FrameTypes
<1>3. <<>> \in Seq(Listener)
  OBVIOUS
<1> QED
  BY <1>2, <1>3 DEF Owed

(* A stack that moves below its n-th frame and no more. *)
LEMMA OwedApart ==
  ASSUME Typed, NEW t \in Threads, Moves(t), NEW n \in Nat, n >= Len(stack[t]),
         \A i \in Nat : i >= Len(stack[t]) /\ i # n => Owed(stack'[t], i) = Owed(stack[t], i)
  PROVE  OthersOwed(t, n)
<1>1. stack[t] \in Seq(Frame) /\ Len(stack[t]) \in Nat
  BY DEF Typed
<1>2. \A i \in Nat : i < Len(stack[t]) => Owed(stack'[t], i) = Owed(stack[t], i)
  BY <1>1, BelowOwed DEF Moves
<1>3. \A i \in Nat : i # n => Owed(stack'[t], i) = Owed(stack[t], i)
  BY <1>1, <1>2
<1> QED
  BY <1>3 DEF Moves, OthersOwed

LEMMA PushOwes ==
  ASSUME Typed, NEW t \in Threads, NEW f \in Frame, Push(t, f), ~ Spent(f),
         f.k = "wait" => At(t, "body") /\ Last(stack[t]).of = f.of
  PROVE  LET n == Len(stack[t])
         IN  /\ Moves(t) /\ n + 1 \in Nat
             /\ f.k # "fire" => OthersOwed(t, 0) /\ Risen(stack[t], stack'[t], f)
             /\ f.k = "fire" => /\ OthersOwed(t, n + 1) /\ Owed(stack[t], n + 1) = <<>>
                                /\ Owed(stack'[t], n + 1) = f.q /\ Fallen(stack[t], stack'[t])
             /\ Owed(stack'[t], 0) = Owed(stack[t], 0)
<1> DEFINE n == Len(stack[t])
           s == stack[t]
           r == stack'[t]
<1>1. /\ Moves(t) /\ r = Append(s, f)
      /\ Len(r) = n + 1 /\ r[n + 1] = f
      /\ \A i \in DOMAIN s : i \in DOMAIN r /\ r[i] = s[i]
  BY Pushes
<1>2. s \in Seq(Frame) /\ r \in Seq(Frame) /\ n \in Nat /\ Len(s) = n
  BY <1>1 DEF Typed, Moves
<1>3. DOMAIN s = 1 .. n /\ DOMAIN r = 1 .. n + 1
  BY <1>1, <1>2
<1> HIDE DEF n, s, r
<1>4. \A i \in Nat : i # n + 1 => Owed(r, i) = Owed(s, i)
  BY <1>1, <1>2, <1>3 DEF Owed
<1>5. Owed(s, n + 1) = <<>> /\ Owed(r, n + 1) = (IF f.k = "fire" THEN f.q ELSE <<>>)
  BY <1>1, <1>2, <1>3 DEF Owed
<1>6. OthersOwed(t, n + 1)
  BY <1>1, <1>4 DEF Moves, OthersOwed, r, s
<1>7. f.k # "fire" => OthersOwed(t, 0)
  <2>1. f.k # "fire" => \A i \in Nat : Owed(r, i) = Owed(s, i)
    BY <1>4, <1>5
  <2> QED
    BY <1>1, <2>1 DEF Moves, OthersOwed, r, s
<1>8. \A i \in DOMAIN s : Inherits(s, r, i)
  BY <1>1 DEF Inherits
<1>9. f.k # "fire" => Risen(s, r, f)
  BY <1>1, <1>2, <1>8 DEF Risen
<1>10. f.k = "fire" => Fallen(s, r)
  BY <1>1, <1>2, <1>3, <1>8 DEF Fallen
<1> QED
  BY <1>1, <1>2, <1>4, <1>5, <1>6, <1>7, <1>9, <1>10 DEF n, s, r

LEMMA PopOwes ==
  ASSUME Typed, NEW t \in Threads, At(t, "wait"), stack' = [stack EXCEPT ![t] = Front(@)]
  PROVE  Moves(t) /\ OthersOwed(t, 0) /\ Owed(stack'[t], 0) = Owed(stack[t], 0) /\ Fallen(stack[t], stack'[t])
<1> DEFINE n == Len(stack[t])
           s == stack[t]
           r == stack'[t]
<1>1. Moves(t) /\ Len(r) = n - 1 /\ s # <<>> /\ s[n].k = "wait"
  BY Pops
<1>2. s \in Seq(Frame) /\ r \in Seq(Frame) /\ n \in Nat /\ n > 0 /\ Keeps(s, r) /\ Len(s) = n
  BY <1>1 DEF Typed, Moves
<1>3. DOMAIN s = 1 .. n /\ DOMAIN r = 1 .. n - 1
  BY <1>1, <1>2
<1> HIDE DEF n, s, r
<1>4. \A i \in Nat : i >= n => Owed(r, i) = Owed(s, i)
  BY <1>1, <1>2, <1>3 DEF Owed
<1>5. \A i \in Nat : i < n => Owed(r, i) = Owed(s, i)
  BY <1>2, BelowOwed
<1>6. \A i \in Nat : Owed(r, i) = Owed(s, i)
  BY <1>2, <1>4, <1>5
<1>7. Fallen(s, r)
  BY <1>2, <1>3 DEF Keeps, Fallen, Inherits
<1> QED
  BY <1>1, <1>6, <1>7 DEF Moves, OthersOwed, s, r

LEMMA ConsumeOwes ==
  ASSUME Typed, NEW t \in Threads, At(t, "fire"), stack' = [stack EXCEPT ![t] = Unwound(Rest(t))]
  PROVE  LET n == Len(stack[t])
         IN  /\ Moves(t) /\ n \in Nat /\ OthersOwed(t, n)
             /\ Owed(stack'[t], n) = Tail(Owed(stack[t], n))
             /\ Owed(stack[t], n) # <<>> /\ Next1(t) = Owed(stack[t], n)[1]
             /\ Fallen(stack[t], stack'[t])
<1> DEFINE n == Len(stack[t])
           s == stack[t]
           q == s[n].q
           r == stack'[t]
<1>1. /\ Moves(t) /\ n \in Nat /\ n > 0 /\ Len(r) <= n
      /\ n \in DOMAIN r <=> Tail(q) # <<>>
      /\ n \in DOMAIN r => r[n] = Fire(Tail(q))
  BY Consumes
<1>2. /\ n \in DOMAIN s /\ s[n].k = "fire" /\ ~ s[n].lock
      /\ q # <<>> /\ Next1(t) = q[1] /\ Tail(q) \in Seq(Listener)
  BY Firing
<1>3. s \in Seq(Frame) /\ r \in Seq(Frame) /\ Keeps(s, r) /\ Len(s) = n
  BY <1>1 DEF Typed, Moves
<1>4. DOMAIN s = 1 .. n /\ \A i \in DOMAIN r : i \in 1 .. n
  BY <1>1, <1>3
<1>5. Fire(Tail(q)).k = "fire" /\ Fire(Tail(q)).q = Tail(q) /\ ~ Fire(Tail(q)).lock
  BY <1>2, Frames
<1> HIDE DEF n, s, r, q
<1>6. Owed(s, n) = q
  BY <1>2 DEF Owed, q
<1>7. Owed(r, n) = Tail(q)
  BY <1>1, <1>5 DEF Owed
<1>8. \A i \in Nat : i >= Len(stack[t]) /\ i # n => Owed(r, i) = Owed(s, i)
  BY <1>1, <1>3, <1>4 DEF Owed, s
<1>9. OthersOwed(t, n)
  BY <1>1, <1>3, <1>8, OwedApart DEF s, r
<1>10. Fallen(s, r)
  <2>1. ASSUME NEW i \in DOMAIN r PROVE Inherits(s, r, i)
    <3>1. CASE i = n
      <4>1. r[n].lock = s[n].lock
        <5>1. s[n] \in Frame /\ r[n] \in Frame
          BY <1>2, <1>3, <2>1, <3>1
        <5>2. s[n].lock \in BOOLEAN /\ r[n].lock \in BOOLEAN
          BY <5>1, FrameTypes
        <5> QED
          BY <1>1, <1>2, <1>5, <2>1, <3>1, <5>2
      <4> QED
        BY <1>1, <1>2, <1>5, <2>1, <3>1, <4>1 DEF Inherits
    <3>2. CASE i # n
      BY <1>1, <1>3, <1>4, <2>1, <3>2 DEF Keeps, Inherits
    <3> QED
      BY <3>1, <3>2
  <2> QED
    BY <2>1 DEF Fallen
<1> QED
  BY <1>1, <1>2, <1>6, <1>7, <1>9, <1>10 DEF n, s, r

LEMMA EnterOwes ==
  ASSUME Typed, NEW t \in Threads, NEW c \in Conts, At(t, "fire"),
         stack' = [stack EXCEPT ![t] = Append(Rest(t), Body(c, TRUE))]
  PROVE  LET n == Len(stack[t])
         IN  /\ Moves(t) /\ n \in Nat /\ OthersOwed(t, n)
             /\ Owed(stack'[t], n) = Tail(Owed(stack[t], n))
             /\ Owed(stack[t], n) # <<>> /\ Next1(t) = Owed(stack[t], n)[1]
             /\ Risen(stack[t], stack'[t], Body(c, TRUE))
<1> DEFINE n == Len(stack[t])
           s == stack[t]
           q == s[n].q
           r == stack'[t]
           b == Body(c, TRUE)
<1>1. /\ Moves(t) /\ n \in Nat /\ n > 0 /\ Len(r) = n + 1
      /\ n \in DOMAIN r /\ r[n] = Fire(Tail(q)) /\ r[n + 1] = b
  BY Enters
<1>2. /\ n \in DOMAIN s /\ s[n].k = "fire" /\ ~ s[n].lock
      /\ q # <<>> /\ Next1(t) = q[1] /\ Tail(q) \in Seq(Listener)
  BY Firing
<1>3. s \in Seq(Frame) /\ r \in Seq(Frame) /\ Keeps(s, r) /\ Len(s) = n
  BY <1>1 DEF Typed, Moves
<1>4. DOMAIN s = 1 .. n /\ DOMAIN r = 1 .. n + 1
  BY <1>1, <1>3
<1>5. /\ Fire(Tail(q)).k = "fire" /\ Fire(Tail(q)).q = Tail(q) /\ ~ Fire(Tail(q)).lock
      /\ b.k = "body"
  BY <1>2, Frames DEF Code
<1> HIDE DEF n, s, r, q, b
<1>6. Owed(s, n) = q
  BY <1>2 DEF Owed, q
<1>7. Owed(r, n) = Tail(q)
  BY <1>1, <1>5 DEF Owed
<1>8. \A i \in Nat : i >= n /\ i # n => Owed(r, i) = Owed(s, i)
  <2>1. \A i \in Nat : i > n + 1 => i \notin DOMAIN r /\ i \notin DOMAIN s
    BY <1>1, <1>4
  <2>2. n + 1 \notin DOMAIN s /\ r[n + 1].k # "fire"
    BY <1>1, <1>4, <1>5
  <2> QED
    BY <1>1, <2>1, <2>2 DEF Owed
<1>9. OthersOwed(t, n)
  <2>1. n >= Len(stack[t]) /\ \A i \in Nat : i >= Len(stack[t]) /\ i # n => Owed(stack'[t], i) = Owed(stack[t], i)
    <3>1. n >= Len(s) /\ \A i \in Nat : i >= Len(s) /\ i # n => Owed(r, i) = Owed(s, i)
      BY <1>1, <1>3, <1>8
    <3> QED
      BY <3>1, Zenon DEF s, r
  <2> QED
    BY <1>1, <2>1, OwedApart
<1>10. ASSUME NEW i \in DOMAIN s PROVE Inherits(s, r, i)
  <2>1. CASE i = n
    <3>1. r[n].lock = s[n].lock
      <4>1. s[n] \in Frame /\ r[n] \in Frame
        BY <1>1, <1>2, <1>3
      <4>2. s[n].lock \in BOOLEAN /\ r[n].lock \in BOOLEAN
        BY <4>1, FrameTypes
      <4> QED
        BY <1>1, <1>2, <1>5, <4>2
    <3> QED
      BY <1>1, <1>2, <1>5, <2>1, <3>1 DEF Inherits
  <2>2. CASE i # n
    BY <1>1, <1>3, <1>4, <2>2 DEF Keeps, Inherits
  <2> QED
    BY <2>1, <2>2
<1>11. Risen(s, r, b)
  BY <1>1, <1>3, <1>10 DEF Risen
<1> QED
  BY <1>1, <1>2, <1>6, <1>7, <1>9, <1>11 DEF n, s, r, b

LEMMA FinishOwes ==
  ASSUME Typed, NEW t \in Threads, At(t, "body"), NEW k \in Code, NEW q \in Seq(Listener),
         stack' = [stack EXCEPT ![t] = Unwound(Front(@) \o <<Returned(k, Last(@).lock), Fire(q)>>)]
  PROVE  LET n == Len(stack[t])
         IN  /\ Moves(t) /\ n + 1 \in Nat /\ n > 0 /\ OthersOwed(t, n + 1)
             /\ Owed(stack'[t], n + 1) = q /\ Owed(stack[t], n + 1) = <<>>
             /\ Fallen(stack[t], stack'[t])
             /\ n \in DOMAIN stack'[t] => stack'[t][n].k = "tail"
<1> DEFINE n == Len(stack[t])
           s == stack[t]
           r == stack'[t]
<1>1. /\ Moves(t) /\ n \in Nat /\ n > 0 /\ Len(r) <= n + 1
      /\ n + 1 \in DOMAIN r <=> q # <<>>
      /\ n + 1 \in DOMAIN r => r[n + 1] = Fire(q)
      /\ n \in DOMAIN r => r[n].k = "tail" /\ r[n].lock = s[n].lock
  BY Finishes
<1>2. Fire(q).k = "fire" /\ Fire(q).q = q
  BY Frames
<1>3. s \in Seq(Frame) /\ r \in Seq(Frame) /\ Keeps(s, r) /\ Len(s) = n
  BY <1>1 DEF Typed, Moves
<1>4. DOMAIN s = 1 .. n /\ \A i \in DOMAIN r : i \in 1 .. n + 1
  BY <1>1, <1>3
<1>5. s[n].k = "body"
  BY DEF At, Idle, Last
<1> HIDE DEF n, s, r
<1>6. Owed(s, n + 1) = <<>>
  BY <1>1, <1>4 DEF Owed
<1>7. Owed(r, n + 1) = q
  BY <1>1, <1>2 DEF Owed
<1>8. \A i \in Nat : i >= n /\ i # n + 1 => Owed(r, i) = Owed(s, i)
  <2>1. \A i \in Nat : i > n + 1 => i \notin DOMAIN r /\ i \notin DOMAIN s
    BY <1>1, <1>4
  <2>2. n \in DOMAIN r => r[n].k # "fire"
    BY <1>1
  <2> QED
    BY <1>1, <1>5, <2>1, <2>2 DEF Owed
<1>9. OthersOwed(t, n + 1)
  <2>1. /\ n + 1 >= Len(stack[t]) /\ n + 1 \in Nat
        /\ \A i \in Nat : i >= Len(stack[t]) /\ i # n + 1 => Owed(stack'[t], i) = Owed(stack[t], i)
    BY <1>1, <1>3, <1>8 DEF s, r
  <2> QED
    BY <1>1, <2>1, OwedApart
<1>10. ASSUME NEW i \in DOMAIN r PROVE Inherits(s, r, i) \/ (i = Len(s) + 1 /\ r[i].k = "fire")
  <2>1. CASE i = n + 1
    BY <1>1, <1>2, <1>3, <2>1
  <2>2. CASE i = n
    BY <1>1, <1>4, <2>2 DEF Inherits
  <2>3. CASE i # n /\ i # n + 1
    BY <1>1, <1>3, <1>4, <2>3 DEF Keeps, Inherits
  <2> QED
    BY <2>1, <2>2, <2>3
<1>11. Fallen(s, r)
  BY <1>10 DEF Fallen
<1> QED
  BY <1>1, <1>6, <1>7, <1>9, <1>11 DEF n, s, r

LEMMA ReturnOwes ==
  ASSUME Typed, NEW t \in Threads, At(t, "body"), stack' = [stack EXCEPT ![t] = Unwound(Front(@))]
  PROVE  /\ Moves(t) /\ OthersOwed(t, 0) /\ Owed(stack'[t], 0) = Owed(stack[t], 0)
         /\ Fallen(stack[t], stack'[t])
<1> DEFINE n == Len(stack[t])
           s == stack[t]
           r == stack'[t]
<1>1. Moves(t) /\ n \in Nat /\ n > 0 /\ Len(r) < n
  BY Returns
<1>2. s \in Seq(Frame) /\ r \in Seq(Frame) /\ Keeps(s, r) /\ Len(s) = n
  BY <1>1 DEF Typed, Moves
<1>3. DOMAIN s = 1 .. n /\ \A i \in DOMAIN r : i \in 1 .. n - 1
  BY <1>1, <1>2
<1>4. s[n].k = "body"
  BY DEF At, Idle, Last
<1> HIDE DEF n, s, r
<1>5. \A i \in Nat : i >= n => Owed(r, i) = Owed(s, i)
  BY <1>1, <1>3, <1>4 DEF Owed
<1>6. \A i \in Nat : i < n => Owed(r, i) = Owed(s, i)
  BY <1>2, BelowOwed
<1>7. \A i \in Nat : Owed(r, i) = Owed(s, i)
  BY <1>1, <1>5, <1>6
<1>8. Fallen(s, r)
  BY <1>1, <1>2, <1>3 DEF Keeps, Fallen, Inherits
<1> QED
  BY <1>1, <1>7, <1>8 DEF Moves, OthersOwed, s, r

LEMMA AnswerOwes ==
  ASSUME Typed, NEW t \in Threads, Idle(t), NEW q \in Seq(Listener),
         stack' = [stack EXCEPT ![t] = Unwound(<<Fire(q)>>)]
  PROVE  /\ Moves(t) /\ OthersOwed(t, 1) /\ Owed(stack'[t], 1) = q /\ Owed(stack[t], 1) = <<>>
         /\ Fallen(stack[t], stack'[t])
<1> DEFINE s == stack[t]
           r == stack'[t]
<1>1. /\ Moves(t) /\ Len(s) = 0 /\ Len(r) <= 1
      /\ 1 \in DOMAIN r <=> q # <<>>
      /\ 1 \in DOMAIN r => r[1] = Fire(q)
  BY Answers
<1>2. Fire(q).k = "fire" /\ Fire(q).q = q
  BY Frames
<1>3. s \in Seq(Frame) /\ r \in Seq(Frame)
  BY <1>1 DEF Typed, Moves
<1>4. DOMAIN s = {} /\ \A i \in DOMAIN r : i = 1
  BY <1>1, <1>3
<1> HIDE DEF s, r
<1>5. Owed(s, 1) = <<>> /\ Owed(r, 1) = q
  BY <1>1, <1>2, <1>4 DEF Owed
<1>6. \A i \in Nat : i # 1 => Owed(r, i) = Owed(s, i)
  BY <1>4 DEF Owed
<1>7. Fallen(s, r)
  BY <1>1, <1>2, <1>4 DEF Fallen
<1> QED
  BY <1>1, <1>5, <1>6, <1>7 DEF Moves, OthersOwed, s, r

LEMMA Tops ==
  ASSUME Typed, NEW t \in Threads, NEW k, At(t, k)
  PROVE  LET n == Len(stack[t])
         IN  /\ n \in Nat /\ n > 0 /\ n \in DOMAIN stack[t] /\ stack[t][n].k = k
             /\ Last(stack[t]) = stack[t][n] /\ stack[t][n] \in Frame
             /\ k # "fire" => Last(stack[t]).of \in Code
<1>1. stack[t] \in Seq(Frame) /\ stack[t] # <<>>
  BY DEF Typed, At, Idle
<1>2. /\ Len(stack[t]) \in Nat /\ Len(stack[t]) > 0 /\ Len(stack[t]) \in DOMAIN stack[t]
      /\ Last(stack[t]) = stack[t][Len(stack[t])] /\ Last(stack[t]) \in Frame
  BY <1>1, Fronts
<1>3. Last(stack[t]).k = k
  BY DEF At
<1>4. k # "fire" => Last(stack[t]).of \in Code
  BY <1>2, <1>3, FrameTypes
<1> QED
  BY <1>2, <1>3, <1>4

LEMMA Still ==
  ASSUME Typed, NEW t \in Threads, stack' = stack
  PROVE  Moves(t) /\ Fallen(stack[t], stack'[t]) /\ OwedSame /\ WaitsStay(t)
<1>1. stack[t] \in Seq(Frame) /\ Shaped(stack[t])
  BY DEF Typed
<1>2. Keeps(stack[t], stack'[t])
  BY <1>1 DEF Keeps
<1>3. Fallen(stack[t], stack'[t])
  BY DEF Fallen, Inherits
<1> QED
  BY <1>1, <1>2, <1>3 DEF Moves, OwedSame, WaitsStay, Typed

LEMMA SameOwed ==
  ASSUME NEW t \in Threads, OthersOwed(t, 0), Owed(stack'[t], 0) = Owed(stack[t], 0)
  PROVE  OwedSame
BY DEF OthersOwed, OwedSame

LEMMA TopWaits ==
  ASSUME Typed, NEW t \in Threads, Moves(t), stack[t] # <<>> => stack[t][Len(stack[t])].k # "wait"
  PROVE  WaitsStay(t)
<1>1. stack[t] \in Seq(Frame) /\ Keeps(stack[t], stack'[t])
  BY DEF Typed, Moves
<1>2. ASSUME NEW i \in DOMAIN stack[t], stack[t][i].k = "wait"
      PROVE  i \in DOMAIN stack'[t] /\ stack'[t][i] = stack[t][i]
  <2>1. i < Len(stack[t])
    BY <1>1, <1>2
  <2>2. ~ Spent(stack[t][i])
    BY <1>2 DEF Spent
  <2> QED
    BY <1>1, <2>1, <2>2 DEF Keeps
<1> QED
  BY <1>2 DEF WaitsStay

LEMMA PushWaits ==
  ASSUME Typed, NEW t \in Threads, NEW f \in Frame, Push(t, f), ~ Spent(f),
         f.k = "wait" => At(t, "body") /\ Last(stack[t]).of = f.of
  PROVE  WaitsStay(t)
BY Pushes DEF WaitsStay

LEMMA PushRun ==
  ASSUME Typed, NEW t \in Threads, NEW c \in Conts, Push(t, Fire(<<RunOf(c)>>))
  PROVE  /\ Moves(t) /\ Fallen(stack[t], stack'[t]) /\ WaitsStay(t)
         /\ Adds(t, <<RunOf(c)>>)
<1> DEFINE x == RunOf(c)
           q == <<x>>
           f == Fire(q)
<1>1. q \in Seq(Listener) /\ q # <<>>
  <2>1. x \in Listener
    BY Listeners
  <2> HIDE DEF x
  <2> QED
    BY <2>1, Singles
<1> HIDE DEF x, q
<1>2. f \in Frame /\ f.k = "fire" /\ f.q = q
  BY <1>1, Frames
<1>3. ~ Spent(f) /\ Push(t, f)
  BY <1>1, <1>2 DEF Spent, x, q
<1> HIDE DEF f
<1>4. WaitsStay(t)
  BY <1>2, <1>3, PushWaits
<1>5. /\ Moves(t) /\ Len(stack[t]) + 1 \in Nat
      /\ OthersOwed(t, Len(stack[t]) + 1) /\ Owed(stack[t], Len(stack[t]) + 1) = <<>>
      /\ Owed(stack'[t], Len(stack[t]) + 1) = q /\ Fallen(stack[t], stack'[t])
  BY <1>2, <1>3, PushOwes
<1> QED
  BY <1>4, <1>5 DEF Adds, x, q

LEMMA RegisterDoes ==
  ASSUME Typed, NEW t \in Threads, NEW c \in Conts, Register(t, c)
  PROVE  /\ Moves(t) /\ Fallen(stack[t], stack'[t]) /\ WaitsStay(t)
         /\ \/ /\ On[c] \in done /\ Adds(t, <<RunOf(c)>>) /\ listeners' = listeners
            \/ /\ On[c] \notin done /\ OwedSame
               /\ listeners' = [listeners EXCEPT ![On[c]] = Append(@, RunOf(c))]
<1>1. CASE On[c] \in done
  BY <1>1, PushRun DEF Register
<1>2. CASE On[c] \notin done
  BY <1>2, Still DEF Register
<1> QED
  BY <1>1, <1>2

LEMMA TakeDoes ==
  ASSUME Typed, NEW t \in Threads, NEW c \in Conts, Take(t, c)
  PROVE  Moves(t) /\ Fallen(stack[t], stack'[t]) /\ WaitsStay(t) /\ Adds(t, <<RunOf(c)>>)
BY PushRun DEF Take

LEMMA AnswerDoes ==
  ASSUME Typed, NEW t \in Threads, NEW f \in Calls, Answer(t, f)
  PROVE  Moves(t) /\ Fallen(stack[t], stack'[t]) /\ WaitsStay(t) /\ Adds(t, listeners[f])
<1>1. listeners[f] \in Seq(Listener)
  BY DEF Typed, Futures
<1>2. /\ Moves(t) /\ OthersOwed(t, 1) /\ Owed(stack'[t], 1) = listeners[f] /\ Owed(stack[t], 1) = <<>>
      /\ Fallen(stack[t], stack'[t])
  BY <1>1, AnswerOwes DEF Answer
<1>3. WaitsStay(t)
  BY <1>2, TopWaits DEF Answer, Idle
<1> QED
  BY <1>2, <1>3 DEF Adds

LEMMA GetDoes ==
  ASSUME Typed, NEW t \in Threads, Get(t)
  PROVE  LET k == Last(stack[t]).of
         IN  /\ Moves(t) /\ Risen(stack[t], stack'[t], Wait(k)) /\ WaitsStay(t) /\ OwedSame /\ k \in Code
<1> DEFINE k == Last(stack[t]).of
           f == Wait(k)
<1>1. At(t, "body") /\ Push(t, f)
  BY DEF Get
<1>2. k \in Code
  BY <1>1, Tops
<1>3. f \in Frame /\ f.k = "wait" /\ f.of = k
  BY <1>2, Frames
<1>4. ~ Spent(f)
  BY <1>3 DEF Spent
<1> HIDE DEF f
<1>5. WaitsStay(t)
  BY <1>1, <1>3, <1>4, PushWaits
<1>6. /\ Moves(t) /\ OthersOwed(t, 0) /\ Risen(stack[t], stack'[t], f)
      /\ Owed(stack'[t], 0) = Owed(stack[t], 0)
  BY <1>1, <1>3, <1>4, PushOwes
<1>7. OwedSame
  BY <1>6, SameOwed
<1> QED
  BY <1>2, <1>5, <1>6, <1>7 DEF f

LEMMA SleepDoes ==
  ASSUME Typed, NEW t \in Threads, Sleep(t)
  PROVE  Moves(t) /\ Fallen(stack[t], stack'[t]) /\ OwedSame /\ WaitsStay(t)
BY Still DEF Sleep

LEMMA PollDoes ==
  ASSUME Typed, NEW t \in Threads, Poll(t)
  PROVE  /\ Moves(t) /\ WaitsStay(t) /\ OwedSame /\ Head(queue) \in registered
         /\ \/ /\ Fresh(Head(queue)) /\ ran' = ran \cup {Head(queue)}
               /\ Risen(stack[t], stack'[t], Body(Head(queue), FALSE))
            \/ /\ ~ Fresh(Head(queue)) /\ ran' = ran
               /\ Fallen(stack[t], stack'[t])
<1> DEFINE c == Head(queue)
           b == Body(c, FALSE)
<1>1. c \in registered /\ c \in Code
  BY DEF Poll, Typed, Code
<1>2. CASE Fresh(c)
  <2>1. b \in Frame /\ b.k = "body"
    BY <1>1, Frames
  <2>2. ~ Spent(b)
    BY <2>1 DEF Spent
  <2>3. Push(t, b) /\ ran' = ran \cup {c}
    BY <1>2 DEF Poll
  <2> HIDE DEF b, c
  <2>4. WaitsStay(t)
    BY <2>1, <2>2, <2>3, PushWaits
  <2>5. /\ Moves(t) /\ OthersOwed(t, 0) /\ Risen(stack[t], stack'[t], b)
        /\ Owed(stack'[t], 0) = Owed(stack[t], 0)
    BY <2>1, <2>2, <2>3, PushOwes
  <2>6. OwedSame
    BY <2>5, SameOwed
  <2> QED
    BY <1>1, <1>2, <2>3, <2>4, <2>5, <2>6 DEF b, c
<1>3. CASE ~ Fresh(c)
  BY <1>1, <1>3, Still DEF Poll
<1> QED
  BY <1>2, <1>3

LEMMA LeaveDoes ==
  ASSUME Typed, NEW t \in Threads, Leave(t) \/ Expire(t)
  PROVE  Moves(t) /\ Fallen(stack[t], stack'[t]) /\ OwedSame
<1>1. At(t, "wait") /\ stack' = [stack EXCEPT ![t] = Front(@)]
  BY DEF Leave, Expire
<1> QED
  BY <1>1, PopOwes, SameOwed

LEMMA FinishDoes ==
  ASSUME Typed, NEW t \in Threads, Finish(t)
  PROVE  LET k == Last(stack[t]).of
         IN  /\ Moves(t) /\ Fallen(stack[t], stack'[t]) /\ WaitsStay(t) /\ k \in Code
             /\ k = Main => OwedSame
             /\ k # Main => Adds(t, listeners[k])
             /\ Len(stack[t]) \in DOMAIN stack'[t] => stack'[t][Len(stack[t])].k = "tail"
<1> DEFINE k == Last(stack[t]).of
<1>1. At(t, "body")
  BY DEF Finish
<1>2. k \in Code /\ stack[t][Len(stack[t])].k # "wait" /\ Len(stack[t]) \in Nat
  BY <1>1, Tops
<1>3. CASE k = Main
  <2>1. stack' = [stack EXCEPT ![t] = Unwound(Front(@))]
    BY <1>3 DEF Finish
  <2>2. /\ Moves(t) /\ OthersOwed(t, 0) /\ Owed(stack'[t], 0) = Owed(stack[t], 0)
        /\ Fallen(stack[t], stack'[t])
    BY <1>1, <2>1, ReturnOwes
  <2>3. OwedSame
    BY <2>2, SameOwed
  <2>4. Len(stack'[t]) < Len(stack[t]) /\ stack'[t] \in Seq(Frame)
    BY <1>1, <2>1, <2>2, Returns DEF Moves
  <2>5. Len(stack[t]) \notin DOMAIN stack'[t]
    BY <1>2, <2>4
  <2>6. WaitsStay(t)
    BY <1>2, <2>2, TopWaits
  <2> QED
    BY <1>2, <1>3, <2>2, <2>3, <2>5, <2>6
<1>4. CASE k # Main
  <2>1. stack' = [stack EXCEPT ![t] =
                   Unwound(Front(@) \o <<Returned(k, Last(@).lock), Fire(listeners[k])>>)]
    BY <1>4 DEF Finish
  <2>2. listeners[k] \in Seq(Listener)
    BY <1>2, <1>4 DEF Typed, Code, Futures
  <2> HIDE DEF k
  <2>3. /\ Moves(t) /\ Len(stack[t]) + 1 \in Nat /\ OthersOwed(t, Len(stack[t]) + 1)
        /\ Owed(stack'[t], Len(stack[t]) + 1) = listeners[k] /\ Owed(stack[t], Len(stack[t]) + 1) = <<>>
        /\ Fallen(stack[t], stack'[t])
        /\ Len(stack[t]) \in DOMAIN stack'[t] => stack'[t][Len(stack[t])].k = "tail"
    BY <1>1, <1>2, <2>1, <2>2, FinishOwes
  <2>4. Adds(t, listeners[k])
    BY <2>3 DEF Adds
  <2>5. WaitsStay(t)
    BY <1>2, <2>3, TopWaits
  <2> QED
    BY <1>2, <1>4, <2>3, <2>4, <2>5 DEF k
<1> QED
  BY <1>3, <1>4

LEMMA ConsumeDoes ==
  ASSUME Typed, NEW t \in Threads, At(t, "fire"), stack' = [stack EXCEPT ![t] = Unwound(Rest(t))]
  PROVE  Moves(t) /\ Fallen(stack[t], stack'[t]) /\ WaitsStay(t) /\ Drops(t, Next1(t))
<1>1. LET n == Len(stack[t])
      IN  /\ Moves(t) /\ n \in Nat /\ OthersOwed(t, n)
          /\ Owed(stack'[t], n) = Tail(Owed(stack[t], n))
          /\ Owed(stack[t], n) # <<>> /\ Next1(t) = Owed(stack[t], n)[1]
          /\ Fallen(stack[t], stack'[t])
  BY ConsumeOwes
<1>2. stack[t][Len(stack[t])].k # "wait"
  BY Tops
<1>3. WaitsStay(t)
  BY <1>1, <1>2, TopWaits
<1> QED
  BY <1>1, <1>3 DEF Drops

LEMMA EnterDoes ==
  ASSUME Typed, NEW t \in Threads, NEW c \in Conts, At(t, "fire"),
         stack' = [stack EXCEPT ![t] = Append(Rest(t), Body(c, TRUE))]
  PROVE  /\ Moves(t) /\ Risen(stack[t], stack'[t], Body(c, TRUE)) /\ WaitsStay(t)
         /\ Drops(t, Next1(t))
<1> DEFINE b == Body(c, TRUE)
<1>1. LET n == Len(stack[t])
      IN  /\ Moves(t) /\ n \in Nat /\ OthersOwed(t, n)
          /\ Owed(stack'[t], n) = Tail(Owed(stack[t], n))
          /\ Owed(stack[t], n) # <<>> /\ Next1(t) = Owed(stack[t], n)[1]
          /\ Risen(stack[t], stack'[t], b)
  BY EnterOwes
<1>2. stack[t][Len(stack[t])].k # "wait"
  BY Tops
<1> HIDE DEF b
<1>3. WaitsStay(t)
  BY <1>1, <1>2, TopWaits
<1> QED
  BY <1>1, <1>3 DEF Drops, b

LEMMA StopDoes ==
  ASSUME Typed, NEW t \in Threads, Stop(t)
  PROVE  LET k == Next1(t).of
         IN  /\ Moves(t) /\ Fallen(stack[t], stack'[t]) /\ WaitsStay(t) /\ k \in Code
             /\ Next1(t) = StopOf(k) /\ Drops(t, StopOf(k))
<1>1. At(t, "fire") /\ Next1(t).kind = "stop" /\ stack' = [stack EXCEPT ![t] = Unwound(Rest(t))]
  BY DEF Stop
<1>2. Next1(t) \in Listener
  BY <1>1, Firing
<1> QED
  BY <1>1, <1>2, ConsumeDoes, Listeners

LEMMA OfferDoes ==
  ASSUME Typed, NEW t \in Threads, Offer(t)
  PROVE  LET c == Next1(t).of
         IN  /\ Moves(t) /\ Fallen(stack[t], stack'[t]) /\ WaitsStay(t) /\ c \in Conts
             /\ Next1(t) = RunOf(c) /\ Drops(t, RunOf(c))
<1>1. At(t, "fire") /\ Next1(t).kind = "run" /\ stack' = [stack EXCEPT ![t] = Unwound(Rest(t))]
  BY DEF Offer
<1>2. Next1(t) \in Listener
  BY <1>1, Firing
<1> QED
  BY <1>1, <1>2, ConsumeDoes, Listeners

LEMMA InlineDoes ==
  ASSUME Typed, NEW t \in Threads, Inline(t)
  PROVE  LET c == Next1(t).of
         IN  /\ Moves(t) /\ WaitsStay(t) /\ c \in Conts
             /\ Next1(t) = RunOf(c) /\ Drops(t, RunOf(c))
             /\ \/ /\ Fresh(c) /\ ran' = ran \cup {c}
                   /\ Risen(stack[t], stack'[t], Body(c, TRUE))
                \/ /\ ~ Fresh(c) /\ ran' = ran
                   /\ Fallen(stack[t], stack'[t])
<1> DEFINE c == Next1(t).of
<1>1. At(t, "fire") /\ Next1(t).kind = "run"
  BY DEF Inline
<1>2. Next1(t) \in Listener
  BY <1>1, Firing
<1>3. c \in Conts /\ Next1(t) = RunOf(c)
  BY <1>1, <1>2, Listeners
<1>4. CASE Fresh(c)
  <2>1. ran' = ran \cup {c} /\ stack' = [stack EXCEPT ![t] = Append(Rest(t), Body(c, TRUE))]
    BY <1>4 DEF Inline
  <2> HIDE DEF c
  <2>2. /\ Moves(t) /\ Risen(stack[t], stack'[t], Body(c, TRUE)) /\ WaitsStay(t)
        /\ Drops(t, Next1(t))
    BY <1>1, <1>3, <2>1, EnterDoes
  <2> QED
    BY <1>3, <1>4, <2>1, <2>2 DEF c
<1>5. CASE ~ Fresh(c)
  <2>1. ran' = ran /\ stack' = [stack EXCEPT ![t] = Unwound(Rest(t))]
    BY <1>5 DEF Inline
  <2> QED
    BY <1>1, <1>3, <1>5, <2>1, ConsumeDoes
<1> QED
  BY <1>4, <1>5

LEMMA InTail ==
  ASSUME NEW S, NEW q \in Seq(S), q # <<>>, NEW x
  PROVE  /\ In(Tail(q), x) => In(q, x)
         /\ In(q, x) => x = q[1] \/ In(Tail(q), x)
<1>1. Len(q) \in Nat /\ Len(q) > 0 /\ DOMAIN q = 1 .. Len(q)
  OBVIOUS
<1>2. Tail(q) \in Seq(S) /\ Len(Tail(q)) = Len(q) - 1 /\ \A a \in 1 .. Len(q) - 1 : Tail(q)[a] = q[a + 1]
  OBVIOUS
<1>3. DOMAIN Tail(q) = 1 .. Len(q) - 1
  BY <1>2
<1>4. ASSUME NEW a \in DOMAIN Tail(q), Tail(q)[a] = x PROVE In(q, x)
  <2>1. a + 1 \in DOMAIN q /\ q[a + 1] = x
    BY <1>1, <1>2, <1>3, <1>4
  <2> QED
    BY <2>1 DEF In
<1>5. ASSUME NEW a \in DOMAIN q, q[a] = x, x # q[1] PROVE In(Tail(q), x)
  <2>1. a - 1 \in DOMAIN Tail(q) /\ a - 1 + 1 = a
    BY <1>1, <1>3, <1>5
  <2>2. Tail(q)[a - 1] = x
    BY <1>2, <1>3, <1>5, <2>1
  <2> QED
    BY <2>1, <2>2 DEF In
<1> QED
  BY <1>4, <1>5 DEF In

LEMMA InAppend ==
  ASSUME NEW S, NEW q \in Seq(S), NEW y \in S, NEW x
  PROVE  In(Append(q, y), x) <=> In(q, x) \/ x = y
<1>1. Len(q) \in Nat /\ DOMAIN q = 1 .. Len(q) /\ DOMAIN Append(q, y) = 1 .. Len(q) + 1
  OBVIOUS
<1>2. Append(q, y)[Len(q) + 1] = y /\ \A a \in 1 .. Len(q) : Append(q, y)[a] = q[a]
  OBVIOUS
<1>3. \A a \in DOMAIN q : a \in DOMAIN Append(q, y) /\ Append(q, y)[a] = q[a]
  BY <1>1, <1>2
<1>4. \A a \in DOMAIN Append(q, y) : a \in DOMAIN q \/ a = Len(q) + 1
  BY <1>1
<1>5. Len(q) + 1 \in DOMAIN Append(q, y)
  BY <1>1
<1> QED
  BY <1>2, <1>3, <1>4, <1>5 DEF In

LEMMA InSingle ==
  ASSUME NEW S, NEW y \in S, NEW x
  PROVE  In(<<y>>, x) <=> x = y
BY Singles DEF In

LEMMA AddsOwes ==
  ASSUME NEW t \in Threads, NEW q, Adds(t, q), NEW x
  PROVE  Owes(x)' <=> Owes(x) \/ In(q, x)
<1>1. PICK n \in Nat : /\ OthersOwed(t, n)
                       /\ Owed(stack[t], n) = <<>> /\ Owed(stack'[t], n) = q
  BY DEF Adds
<1>2. ~ In(Owed(stack[t], n), x)
  BY <1>1 DEF In
<1>3. \A u \in Threads : \A i \in Nat : u # t \/ i # n => Owed(stack'[u], i) = Owed(stack[u], i)
  BY <1>1 DEF OthersOwed
<1>4. Owes(x)' <=> \E u \in Threads : \E i \in Nat : In(Owed(stack'[u], i), x)
  BY DEF Owes, In, Owed
<1>5. Owes(x) <=> \E u \in Threads : \E i \in Nat : In(Owed(stack[u], i), x)
  BY DEF Owes
<1> QED
  BY <1>1, <1>2, <1>3, <1>4, <1>5

LEMMA DropsOwes ==
  ASSUME Typed, NEW t \in Threads, NEW y, Drops(t, y), NEW x
  PROVE  /\ Owes(x)' => Owes(x)
         /\ Owes(x) => x = y \/ Owes(x)'
         /\ Owes(y)
<1>1. PICK n \in Nat : /\ OthersOwed(t, n)
                       /\ Owed(stack[t], n) # <<>> /\ Owed(stack[t], n)[1] = y
                       /\ Owed(stack'[t], n) = Tail(Owed(stack[t], n))
  BY DEF Drops
<1>2. Owed(stack[t], n) \in Seq(Listener)
  BY OwedTyped DEF Typed
<1>3. /\ In(Owed(stack'[t], n), x) => In(Owed(stack[t], n), x)
      /\ In(Owed(stack[t], n), x) => x = y \/ In(Owed(stack'[t], n), x)
  BY <1>1, <1>2, InTail
<1>4. In(Owed(stack[t], n), y)
  <2>1. 1 \in DOMAIN Owed(stack[t], n)
    BY <1>1, <1>2
  <2> QED
    BY <1>1, <2>1 DEF In
<1>5. \A u \in Threads : \A i \in Nat : u # t \/ i # n => Owed(stack'[u], i) = Owed(stack[u], i)
  BY <1>1 DEF OthersOwed
<1>6. Owes(x)' <=> \E u \in Threads : \E i \in Nat : In(Owed(stack'[u], i), x)
  BY DEF Owes, In, Owed
<1>7. /\ Owes(x) <=> \E u \in Threads : \E i \in Nat : In(Owed(stack[u], i), x)
      /\ Owes(y) <=> \E u \in Threads : \E i \in Nat : In(Owed(stack[u], i), y)
  BY DEF Owes
<1> QED
  BY <1>1, <1>3, <1>4, <1>5, <1>6, <1>7

LEMMA SameOwes ==
  ASSUME OwedSame, NEW x
  PROVE  Owes(x)' <=> Owes(x)
<1>1. Owes(x)' <=> \E u \in Threads : \E i \in Nat : In(Owed(stack'[u], i), x)
  BY DEF Owes, In, Owed
<1> QED
  BY <1>1 DEF Owes, OwedSame

LEMMA Widens ==
  ASSUME NEW S, NEW T, S \subseteq T, NEW q \in Seq(S)
  PROVE  q \in Seq(T)
OBVIOUS

LEMMA TailOnce ==
  ASSUME NEW S, NEW q \in Seq(S), q # <<>>
  PROVE  /\ Tail(q) \in Seq(S) /\ IsInjective(q) => IsInjective(Tail(q)) /\ ~ In(Tail(q), q[1])
         /\ q[1] \in S /\ Head(q) = q[1]
<1>1. Len(q) \in Nat /\ Len(q) > 0 /\ DOMAIN q = 1 .. Len(q) /\ q[1] \in S /\ Head(q) = q[1]
  OBVIOUS
<1>2. Tail(q) \in Seq(S) /\ Len(Tail(q)) = Len(q) - 1 /\ \A a \in 1 .. Len(q) - 1 : Tail(q)[a] = q[a + 1]
  OBVIOUS
<1>3. DOMAIN Tail(q) = 1 .. Len(q) - 1
  BY <1>2
<1>4. ASSUME IsInjective(q), NEW a \in DOMAIN Tail(q), NEW b \in DOMAIN Tail(q), Tail(q)[a] = Tail(q)[b]
      PROVE  a = b
  <2>1. a + 1 \in DOMAIN q /\ b + 1 \in DOMAIN q /\ q[a + 1] = q[b + 1]
    BY <1>1, <1>2, <1>3, <1>4
  <2>2. a + 1 = b + 1
    BY <1>4, <2>1 DEF IsInjective
  <2> QED
    BY <1>3, <2>2
<1>5. ASSUME IsInjective(q), NEW a \in DOMAIN Tail(q), Tail(q)[a] = q[1] PROVE FALSE
  <2>1. a + 1 \in DOMAIN q /\ q[a + 1] = q[1] /\ 1 \in DOMAIN q
    BY <1>1, <1>2, <1>3, <1>5
  <2>2. a + 1 = 1
    BY <1>5, <2>1 DEF IsInjective
  <2> QED
    BY <1>3, <2>2
<1>6. IsInjective(q) => IsInjective(Tail(q))
  BY <1>4 DEF IsInjective
<1> QED
  BY <1>1, <1>2, <1>5, <1>6 DEF In

LEMMA AppendOnce ==
  ASSUME NEW S, NEW q \in Seq(S), NEW x \in S, ~ In(q, x), IsInjective(q)
  PROVE  Append(q, x) \in Seq(S) /\ IsInjective(Append(q, x))
<1>1. Append(q, x) \in Seq(S) /\ Len(q) \in Nat
  OBVIOUS
<1>2. DOMAIN q = 1 .. Len(q) /\ DOMAIN Append(q, x) = 1 .. Len(q) + 1
  OBVIOUS
<1>3. Append(q, x)[Len(q) + 1] = x /\ \A a \in 1 .. Len(q) : Append(q, x)[a] = q[a]
  OBVIOUS
<1>4. \A a \in 1 .. Len(q) : q[a] # x
  BY <1>2 DEF In
<1>5. ASSUME NEW a \in DOMAIN Append(q, x), NEW b \in DOMAIN Append(q, x), Append(q, x)[a] = Append(q, x)[b]
      PROVE  a = b
  <2>1. CASE a \in 1 .. Len(q) /\ b \in 1 .. Len(q)
    BY <1>2, <1>3, <1>5, <2>1 DEF IsInjective
  <2>2. CASE a = Len(q) + 1 \/ b = Len(q) + 1
    BY <1>1, <1>2, <1>3, <1>4, <1>5, <2>2
  <2> QED
    BY <1>1, <1>2, <2>1, <2>2
<1> QED
  BY <1>1, <1>5 DEF IsInjective

LEMMA Joins ==
  ASSUME NEW S, NEW p \in Seq(S), NEW z \in Seq(S)
  PROVE  p \o z \in Seq(S) /\ Len(p \o z) = Len(p) + Len(z)
OBVIOUS

LEMMA RemoveOnce ==
  ASSUME NEW S, NEW q \in Seq(S), NEW i \in DOMAIN q, IsInjective(q)
  PROVE  /\ RemoveAt(q, i) \in Seq(S) /\ IsInjective(RemoveAt(q, i))
         /\ \A x : In(RemoveAt(q, i), x) <=> In(q, x) /\ x # q[i]
         /\ Len(RemoveAt(q, i)) = Len(q) - 1
<1> DEFINE n == Len(q)
           r == RemoveAt(q, i)
           p == SubSeq(q, 1, i - 1)
           z == SubSeq(q, i + 1, n)
<1>1. n \in Nat /\ DOMAIN q = 1 .. n /\ i \in 1 .. n
  OBVIOUS
<1>2. p \in Seq(S) /\ Len(p) = i - 1 /\ \A a \in 1 .. i - 1 : p[a] = q[a]
  <2>1. i - 1 \in 0 .. n
    BY <1>1
  <2> QED
    BY <1>1, <2>1
<1>3. z \in Seq(S) /\ Len(z) = n - i /\ \A a \in 1 .. n - i : z[a] = q[i + a]
  BY <1>1
<1>4. r = p \o z
  BY DEF RemoveAt
<1> HIDE DEF r, p, z, n
<1>5. r \in Seq(S) /\ Len(r) = n - 1 /\ DOMAIN r = 1 .. n - 1
  <2>1. p \o z \in Seq(S) /\ Len(p \o z) = Len(p) + Len(z)
    <3>1. p \in Seq(S) /\ z \in Seq(S)
      BY <1>2, <1>3
    <3> QED
      BY <3>1, Joins
  <2>2. (i - 1) + (n - i) = n - 1
    BY <1>1
  <2>3. r \in Seq(S) /\ Len(r) = n - 1
    BY <1>2, <1>3, <1>4, <2>1, <2>2
  <2> QED
    BY <2>3
<1>6. \A a \in 1 .. n - 1 : a < i => r[a] = q[a]
  BY <1>1, <1>2, <1>3, <1>4
<1>7. \A a \in 1 .. n - 1 : a >= i => r[a] = q[a + 1]
  <2> SUFFICES ASSUME NEW a \in 1 .. n - 1, a >= i PROVE r[a] = q[a + 1]
    OBVIOUS
  <2>1. a - (i - 1) \in 1 .. n - i /\ a > i - 1 /\ a <= i - 1 + (n - i)
    BY <1>1
  <2>2. r[a] = z[a - (i - 1)]
    BY <1>1, <1>2, <1>3, <1>4, <2>1
  <2>3. i + (a - (i - 1)) = a + 1
    BY <1>1
  <2> QED
    BY <1>3, <2>1, <2>2, <2>3
<1>8. ASSUME NEW a \in DOMAIN r, NEW b \in DOMAIN r, r[a] = r[b] PROVE a = b
  <2> DEFINE up(c) == IF c < i THEN c ELSE c + 1
  <2>1. r[a] = q[up(a)] /\ r[b] = q[up(b)] /\ up(a) \in 1 .. n /\ up(b) \in 1 .. n
    BY <1>1, <1>5, <1>6, <1>7
  <2>2. up(a) = up(b)
    BY <1>1, <1>8, <2>1 DEF IsInjective
  <2> QED
    BY <1>1, <1>5, <2>2
<1>9. ASSUME NEW x, In(r, x) PROVE In(q, x) /\ x # q[i]
  <2>1. PICK a \in 1 .. n - 1 : r[a] = x
    BY <1>5, <1>9 DEF In
  <2>2. PICK b \in 1 .. n : b # i /\ q[b] = x
    BY <1>1, <1>6, <1>7, <2>1
  <2> QED
    BY <1>1, <2>2 DEF In, IsInjective
<1>10. ASSUME NEW x, In(q, x), x # q[i] PROVE In(r, x)
  <2>1. PICK b \in 1 .. n : q[b] = x /\ b # i
    BY <1>1, <1>10 DEF In
  <2>2. CASE b < i
    <3>1. b \in 1 .. n - 1 /\ r[b] = x
      BY <1>1, <1>6, <2>1, <2>2
    <3> QED
      BY <1>5, <3>1 DEF In
  <2>3. CASE b > i
    <3>1. b - 1 \in 1 .. n - 1 /\ b - 1 >= i /\ b - 1 + 1 = b
      BY <1>1, <2>1, <2>3
    <3>2. r[b - 1] = x
      BY <1>7, <2>1, <3>1
    <3> QED
      BY <1>5, <3>1, <3>2 DEF In
  <2> QED
    BY <1>1, <2>1, <2>2, <2>3
<1> QED
  BY <1>5, <1>8, <1>9, <1>10 DEF IsInjective, r, n

LEMMA PrunedKeeps ==
  ASSUME Typed
  PROVE  /\ Pruned \in Seq(registered)
         /\ \A c : In(queue, c) /\ c \notin ran => In(Pruned, c)
<1> DEFINE T == {i \in DOMAIN queue : queue[i] \notin ran}
           n == Len(queue)
           m == Min(T)
<1>1. queue \in Seq(registered) /\ n \in Nat /\ DOMAIN queue = 1 .. n
  BY DEF Typed
<1>2. CASE T = {}
  <2>1. Pruned = <<>>
    BY <1>2 DEF Pruned
  <2>2. Pruned \in Seq(registered)
    BY <2>1
  <2> QED
    BY <1>2, <2>2 DEF In
<1>3. CASE T # {}
  <2>1. m \in T /\ \A i \in T : m <= i
    <3>1. T \subseteq Nat
      BY <1>1
    <3> HIDE DEF T
    <3> QED
      BY <1>3, <3>1, MinExists
  <2>2. Pruned = SubSeq(queue, m, n)
    BY <1>3 DEF Pruned
  <2>3. m \in 1 .. n
    BY <1>1, <2>1
  <2> HIDE DEF m, n
  <2>4. /\ Pruned \in Seq(registered) /\ Len(Pruned) = n - m + 1
        /\ \A a \in 1 .. n - m + 1 : Pruned[a] = queue[m + a - 1]
    BY <1>1, <2>2, <2>3
  <2>5. ASSUME NEW c, In(queue, c), c \notin ran PROVE In(Pruned, c)
    <3>1. PICK i \in 1 .. n : queue[i] = c
      BY <1>1, <2>5 DEF In
    <3>2. m <= i
      BY <1>1, <2>1, <2>5, <3>1
    <3>3. i - m + 1 \in 1 .. n - m + 1 /\ m + (i - m + 1) - 1 = i
      BY <1>1, <2>3, <3>1, <3>2
    <3>4. Pruned[i - m + 1] = c /\ DOMAIN Pruned = 1 .. n - m + 1
      BY <1>1, <2>3, <2>4, <3>1, <3>3
    <3> QED
      BY <3>3, <3>4 DEF In
  <2> QED
    BY <2>4, <2>5
<1> QED
  BY <1>2, <1>3

(* The parts of the types that change together with a stack. *)
LEMMA MovesTyped ==
  ASSUME Typed, NEW t \in Threads, Moves(t)
  PROVE  stack' \in [Threads -> Seq(Frame)] /\ \A u \in Threads : Shaped(stack'[u])
BY DEF Moves, Typed

LEMMA ListenersTyped ==
  ASSUME Typed, NEW f \in Futures, NEW x \in Listener,
         listeners' = [listeners EXCEPT ![f] = Append(@, x)]
  PROVE  /\ listeners' \in [Futures -> Seq(Listener)]
         /\ \A g \in Futures, y \in Listener : In(listeners'[g], y) <=> In(listeners[g], y) \/ (g = f /\ y = x)
<1>1. listeners[f] \in Seq(Listener)
  BY DEF Typed
<1>2. Append(listeners[f], x) \in Seq(Listener)
  BY <1>1
<1>3. \A y : In(Append(listeners[f], x), y) <=> In(listeners[f], y) \/ y = x
  BY <1>1, InAppend
<1>4. listeners' \in [Futures -> Seq(Listener)]
  BY <1>2 DEF Typed
<1>5. listeners'[f] = Append(listeners[f], x) /\ \A g \in Futures \ {f} : listeners'[g] = listeners[g]
  BY DEF Typed
<1> QED
  BY <1>3, <1>4, <1>5

LEMMA Wakes ==
  ASSUME Typed, Signal
  PROVE  asleep' \in Seq(Threads) /\ IsInjective(asleep') /\ \A t : In(asleep', t) => In(asleep, t)
<1>1. CASE asleep = <<>>
  BY <1>1 DEF Signal, Typed
<1>2. CASE asleep # <<>>
  BY <1>2, TailOnce, InTail DEF Signal, Typed
<1> QED
  BY <1>1, <1>2

LEMMA Asleep ==
  ASSUME Typed, NEW t
  PROVE  t \in ToSet(asleep) <=> In(asleep, t)
BY DEF Typed, ToSet, In

LEMMA StepTyped ==
  ASSUME Typed, Known, NEW t \in Threads, Step(t) \/ Expire(t)
  PROVE  Typed'
<1>1. ASSUME NEW c \in Conts, Register(t, c) PROVE Typed'
  <2>1. Moves(t) /\ registered' = registered \cup {c} /\ UNCHANGED <<done, ran, looper, expired, pool>>
    BY <1>1, RegisterDoes DEF Register
  <2>2. queue' \in Seq(registered')
    BY <2>1, Widens DEF Typed, looper
  <2>3. On[c] \in Futures /\ RunOf(c) \in Listener
    BY ProgramAssumption, Listeners
  <2>4. listeners' \in [Futures -> Seq(Listener)]
    BY <1>1, <2>3, RegisterDoes, ListenersTyped DEF Typed
  <2> QED
    BY <2>1, <2>2, <2>4, MovesTyped DEF Typed, looper
<1>2. ASSUME NEW c \in Conts, Take(t, c) PROVE Typed'
  <2>1. Moves(t) /\ pool' \subseteq pool /\ UNCHANGED <<listeners, done, registered, ran, looper, expired>>
    BY <1>2, TakeDoes DEF Take
  <2> QED
    BY <2>1, MovesTyped DEF Typed, looper
<1>3. ASSUME NEW f \in Calls, Answer(t, f) PROVE Typed'
  <2>1. Moves(t) /\ done' = done \cup {f} /\ UNCHANGED <<listeners, registered, ran, looper, expired, pool>>
    BY <1>3, AnswerDoes DEF Answer
  <2> QED
    BY <2>1, MovesTyped DEF Typed, looper, Futures
<1>4. CASE Get(t)
  <2> DEFINE k == Last(stack[t]).of
  <2>1. /\ Moves(t) /\ k \in Code /\ Waits[k] \in Futures /\ nested' = nested + 1
        /\ listeners' = [listeners EXCEPT ![Waits[k]] = Append(@, StopOf(k))]
        /\ UNCHANGED <<done, registered, ran, queue, stopped, expired, asleep, pool>>
    BY <1>4, GetDoes DEF Get, Deeper
  <2> HIDE DEF k
  <2>2. StopOf(k) \in Listener
    BY <2>1, Listeners
  <2>3. listeners' \in [Futures -> Seq(Listener)]
    BY <2>1, <2>2, ListenersTyped
  <2> QED
    BY <2>1, <2>3, MovesTyped DEF Typed
<1>5. CASE Sleep(t)
  <2>1. /\ Moves(t) /\ asleep' = Append(asleep, t) /\ ~ In(asleep, t)
        /\ UNCHANGED <<listeners, done, registered, ran, queue, nested, stopped, expired, pool>>
    BY <1>5, SleepDoes, Asleep DEF Sleep
  <2>2. asleep' \in Seq(Threads) /\ IsInjective(asleep')
    BY <2>1, AppendOnce DEF Typed
  <2> QED
    BY <2>1, <2>2, MovesTyped DEF Typed
<1>6. CASE Poll(t)
  <2>1. /\ Moves(t) /\ Head(queue) \in registered /\ ran' \subseteq ran \cup {Head(queue)}
        /\ queue' = Tail(queue) /\ queue # <<>>
        /\ UNCHANGED <<listeners, done, registered, nested, stopped, expired, asleep, pool>>
    BY <1>6, PollDoes DEF Poll
  <2>2. queue' \in Seq(registered)
    BY <2>1, TailOnce DEF Typed
  <2> QED
    BY <2>1, <2>2, MovesTyped DEF Typed
<1>7. CASE Leave(t)
  <2>1. Moves(t) /\ UNCHANGED <<listeners, done, registered, ran, looper, expired, pool>>
    BY <1>7, LeaveDoes DEF Leave
  <2> QED
    BY <2>1, MovesTyped DEF Typed, looper
<1>8. CASE Expire(t)
  <2>1. PICK i \in DOMAIN asleep : asleep' = RemoveAt(asleep, i)
    BY <1>8 DEF Expire
  <2>2. asleep' \in Seq(Threads) /\ IsInjective(asleep')
    BY <2>1, RemoveOnce DEF Typed
  <2>3. Last(stack[t]).of \in Code
    BY <1>8, Tops DEF Expire
  <2>4. /\ Moves(t) /\ expired' \subseteq Code
        /\ UNCHANGED <<listeners, done, registered, ran, queue, nested, stopped, pool>>
    BY <1>8, <2>3, LeaveDoes DEF Expire, Typed
  <2> QED
    BY <2>2, <2>4, MovesTyped DEF Typed
<1>9. CASE Finish(t)
  <2>1. /\ Moves(t) /\ Last(stack[t]).of \in Code
        /\ done' = done \/ (Last(stack[t]).of # Main /\ done' = done \cup {Last(stack[t]).of})
        /\ UNCHANGED <<listeners, registered, ran, looper, expired, pool>>
    BY <1>9, FinishDoes DEF Finish
  <2>2. done' \subseteq Futures
    BY <2>1 DEF Typed, Code, Futures
  <2> QED
    BY <2>1, <2>2, MovesTyped DEF Typed, looper
<1>10. CASE Stop(t)
  <2>1. /\ Moves(t) /\ Next1(t).of \in Code /\ nested' = nested - 1 /\ stopped' = stopped \cup {Next1(t).of}
        /\ Signal /\ UNCHANGED <<listeners, done, registered, ran, queue, expired, pool>>
    BY <1>10, StopDoes DEF Stop
  <2> QED
    BY <2>1, Wakes, MovesTyped DEF Typed
<1>11. CASE Inline(t)
  <2>1. /\ Moves(t) /\ Next1(t).of \in Conts /\ Drops(t, RunOf(Next1(t).of))
        /\ ran' \subseteq ran \cup {Next1(t).of}
        /\ UNCHANGED <<listeners, done, registered, looper, expired, pool>>
    BY <1>11, InlineDoes DEF Inline
  <2>2. Next1(t).of \in registered
    BY <2>1, DropsOwes DEF Known
  <2> QED
    BY <2>1, <2>2, MovesTyped DEF Typed, looper
<1>12. CASE Offer(t)
  <2> DEFINE c == Next1(t).of
  <2>1. /\ Moves(t) /\ c \in Conts /\ Drops(t, RunOf(c))
        /\ queue' = Append(Pruned, c) /\ pool' \subseteq pool \cup {c} /\ Signal
        /\ UNCHANGED <<listeners, done, registered, ran, nested, stopped, expired>>
    BY <1>12, OfferDoes DEF Offer
  <2> HIDE DEF c
  <2>2. c \in registered
    BY <2>1, DropsOwes DEF Known
  <2>3. queue' \in Seq(registered)
    BY <2>1, <2>2, PrunedKeeps
  <2> QED
    BY <2>1, <2>2, <2>3, Wakes, MovesTyped DEF Typed
<1> QED
  BY <1>1, <1>2, <1>3, <1>4, <1>5, <1>6, <1>7, <1>8, <1>9, <1>10, <1>11, <1>12 DEF Step

LEMMA StepKnown ==
  ASSUME Typed, Known, NEW t \in Threads, Step(t) \/ Expire(t)
  PROVE  Known'
<1> SUFFICES ASSUME NEW d \in Conts, d \notin registered'
             PROVE  /\ \A f \in Futures : ~ In(listeners'[f], RunOf(d))
                    /\ ~ Owes(RunOf(d))'
  BY DEF Known, In
<1> DEFINE x == RunOf(d)
<1>x. x \in Listener /\ \A c \in Conts : x = RunOf(c) => c = d
  BY Listeners DEF RunOf
<1>y. \A k : x # StopOf(k)
  BY DEF RunOf, StopOf
<1>o. d \notin registered => ~ Owes(x) /\ \A f \in Futures : ~ In(listeners[f], x)
  BY DEF Known
<1> DEFINE Goal == (\A f \in Futures : ~ In(listeners'[f], x)) /\ ~ Owes(x)'
<1>1. ASSUME NEW c \in Conts, Register(t, c) PROVE Goal
  <2>1. registered' = registered \cup {c} /\ c # d /\ d \notin registered
    BY <1>1 DEF Register
  <2>2. On[c] \in Futures /\ RunOf(c) \in Listener /\ x # RunOf(c)
    BY <1>x, <2>1, ProgramAssumption, Listeners
  <2>3. ~ In(<<RunOf(c)>>, x)
    BY <2>2, InSingle
  <2>4. CASE On[c] \in done /\ Adds(t, <<RunOf(c)>>) /\ listeners' = listeners
    BY <1>o, <2>1, <2>3, <2>4, AddsOwes
  <2>5. CASE OwedSame /\ listeners' = [listeners EXCEPT ![On[c]] = Append(@, RunOf(c))]
    BY <1>x, <1>o, <2>1, <2>2, <2>5, SameOwes, ListenersTyped
  <2> QED
    BY <1>1, <2>4, <2>5, RegisterDoes
<1>2. ASSUME NEW c \in Conts, Take(t, c) PROVE Goal
  <2>1. registered' = registered /\ listeners' = listeners /\ c \in registered /\ Adds(t, <<RunOf(c)>>)
    BY <1>2, TakeDoes DEF Take, Typed
  <2>2. RunOf(c) \in Listener /\ x # RunOf(c)
    BY <1>x, <2>1, Listeners
  <2> QED
    BY <1>o, <2>1, <2>2, InSingle, AddsOwes
<1>3. ASSUME NEW f \in Calls, Answer(t, f) PROVE Goal
  BY <1>3, <1>o, AnswerDoes, AddsOwes DEF Answer, Futures
<1>4. CASE Get(t)
  <2> DEFINE k == Last(stack[t]).of
  <2>1. /\ OwedSame /\ k \in Code /\ Waits[k] \in Futures /\ registered' = registered
        /\ listeners' = [listeners EXCEPT ![Waits[k]] = Append(@, StopOf(k))]
    BY <1>4, GetDoes DEF Get
  <2> HIDE DEF k
  <2>2. StopOf(k) \in Listener
    BY <2>1, Listeners
  <2>3. \A g \in Futures : In(listeners'[g], x) <=> In(listeners[g], x)
    <3>1. x # StopOf(k)
      BY <1>y
    <3> HIDE DEF x
    <3> QED
      BY <1>x, <2>1, <2>2, <3>1, ListenersTyped
  <2>4. Owes(x)' <=> Owes(x)
    BY <2>1, SameOwes
  <2> QED
    BY <1>o, <2>1, <2>3, <2>4
<1>5. CASE Sleep(t)
  BY <1>5, <1>o, SleepDoes, SameOwes DEF Sleep
<1>6. CASE Poll(t)
  BY <1>6, <1>o, PollDoes, SameOwes DEF Poll
<1>7. CASE Leave(t) \/ Expire(t)
  BY <1>7, <1>o, LeaveDoes, SameOwes DEF Leave, Expire
<1>8. CASE Finish(t)
  <2> DEFINE k == Last(stack[t]).of
  <2>1. listeners' = listeners /\ registered' = registered /\ k \in Code
    BY <1>8, FinishDoes DEF Finish
  <2>2. CASE k = Main
    BY <1>8, <1>o, <2>1, <2>2, FinishDoes, SameOwes
  <2>3. CASE k # Main
    BY <1>8, <1>o, <2>1, <2>3, FinishDoes, AddsOwes DEF Code, Futures
  <2> QED
    BY <2>2, <2>3
<1>9. CASE Stop(t)
  BY <1>9, <1>o, StopDoes, DropsOwes DEF Stop
<1>10. CASE Inline(t)
  BY <1>10, <1>o, InlineDoes, DropsOwes DEF Inline
<1>11. CASE Offer(t)
  BY <1>11, <1>o, OfferDoes, DropsOwes DEF Offer
<1> QED
  BY <1>1, <1>2, <1>3, <1>4, <1>5, <1>6, <1>7, <1>8, <1>9, <1>10, <1>11 DEF Step

(* A step brings no body and no wait but the one it pushes. *)
LEMMA FallenFrames ==
  ASSUME NEW t \in Threads, Moves(t), Fallen(stack[t], stack'[t]),
         NEW u \in Threads, NEW i, NEW k \in {"body", "wait"}, NEW c, FrameAt(u, i, k, c)'
  PROVE  FrameAt(u, i, k, c)
<1>1. i \in DOMAIN stack'[u] /\ stack'[u][i].k = k /\ stack'[u][i].of = c
  BY DEF FrameAt
<1>2. CASE u # t
  BY <1>1, <1>2 DEF Moves, FrameAt
<1>3. CASE u = t
  BY <1>1, <1>3 DEF Fallen, Inherits, FrameAt
<1> QED
  BY <1>2, <1>3

LEMMA RisenFrames ==
  ASSUME Typed, NEW t \in Threads, Moves(t), NEW f, Risen(stack[t], stack'[t], f)
  PROVE  \A u \in Threads, k \in {"body", "wait"}, c \in Code : \A i \in Nat :
           FrameAt(u, i, k, c)' =>
             FrameAt(u, i, k, c) \/ (u = t /\ i = Len(stack[t]) + 1 /\ f.k = k /\ f.of = c)
<1> SUFFICES ASSUME NEW u \in Threads, NEW k \in {"body", "wait"}, NEW c \in Code, NEW i \in Nat,
                    FrameAt(u, i, k, c)'
             PROVE  FrameAt(u, i, k, c) \/ (u = t /\ i = Len(stack[t]) + 1 /\ f.k = k /\ f.of = c)
  OBVIOUS
<1>1. i \in DOMAIN stack'[u] /\ stack'[u][i].k = k /\ stack'[u][i].of = c
  BY DEF FrameAt
<1>2. CASE u # t
  BY <1>1, <1>2 DEF Moves, FrameAt
<1>3. CASE u = t
  <2>1. stack[t] \in Seq(Frame) /\ stack'[t] \in Seq(Frame)
    BY DEF Typed, Moves
  <2>2. i \in 1 .. Len(stack[t]) + 1 /\ DOMAIN stack[t] = 1 .. Len(stack[t]) /\ Len(stack[t]) \in Nat
    BY <1>1, <1>3, <2>1 DEF Risen
  <2>3. CASE i = Len(stack[t]) + 1
    BY <1>1, <1>3, <2>3 DEF Risen
  <2>4. CASE i \in DOMAIN stack[t]
    BY <1>1, <1>3, <2>4 DEF Risen, Inherits, FrameAt
  <2> QED
    BY <2>2, <2>3, <2>4
<1> QED
  BY <1>2, <1>3

LEMMA FallenEntered ==
  ASSUME Entered, NEW t \in Threads, Moves(t), Fallen(stack[t], stack'[t]), done' = done, ran' = ran
  PROVE  Entered'
<1>1. \A d \in Code, u \in Threads : \A i \in Nat : FrameAt(u, i, "body", d)' => FrameAt(u, i, "body", d)
  BY FallenFrames
<1> QED
  BY <1>1 DEF Entered

LEMMA RisenEntered ==
  ASSUME Typed, Entered, NEW t \in Threads, Moves(t), NEW c \in Conts, c \notin ran,
         NEW f, f.k = "body" /\ f.of = c,
         Risen(stack[t], stack'[t], f), done' = done, ran' = ran \cup {c}
  PROVE  Entered'
<1>1. \A d \in Code, u \in Threads : \A i \in Nat : FrameAt(u, i, "body", d)' =>
        FrameAt(u, i, "body", d) \/ (u = t /\ i = Len(stack[t]) + 1 /\ d = c)
  BY RisenFrames
<1>2. \A u \in Threads : \A i \in Nat : ~ FrameAt(u, i, "body", c)
  BY NamesAssumption DEF Entered, Code
<1>3. c # Main /\ c \notin done
  BY NamesAssumption DEF Entered
<1>4. Conts \cap done' \subseteq ran'
  BY DEF Entered
<1>5. ASSUME NEW d \in Code, NEW u \in Threads, NEW i \in Nat, FrameAt(u, i, "body", d)'
      PROVE  /\ d # Main => d \in ran' \ done'
             /\ \A v \in Threads : \A j \in Nat : FrameAt(v, j, "body", d)' => u = v /\ i = j
  <2>1. CASE d = c
    BY <1>1, <1>2, <1>3, <1>5, <2>1
  <2>2. CASE d # c
    BY <1>1, <1>5, <2>2 DEF Entered
  <2> QED
    BY <2>1, <2>2
<1> QED
  BY <1>4, <1>5 DEF Entered

LEMMA StepEntered ==
  ASSUME Typed, Entered, NEW t \in Threads, Step(t) \/ Expire(t)
  PROVE  Entered'
<1>1. ASSUME NEW c \in Conts, Register(t, c) PROVE Entered'
  BY <1>1, RegisterDoes, FallenEntered DEF Register
<1>2. ASSUME NEW c \in Conts, Take(t, c) PROVE Entered'
  BY <1>2, TakeDoes, FallenEntered DEF Take
<1>3. ASSUME NEW f \in Calls, Answer(t, f) PROVE Entered'
  <2>1. Moves(t) /\ Fallen(stack[t], stack'[t]) /\ done' = done \cup {f} /\ ran' = ran
    BY <1>3, AnswerDoes DEF Answer
  <2>2. f \notin Code \ {Main} /\ f \notin Conts
    BY NamesAssumption DEF Code
  <2>3. \A d \in Code, u \in Threads : \A i \in Nat : FrameAt(u, i, "body", d)' => FrameAt(u, i, "body", d)
    BY <2>1, FallenFrames
  <2> QED
    BY <2>1, <2>2, <2>3 DEF Entered
<1>4. CASE Get(t)
  <2> DEFINE k == Last(stack[t]).of
             f == Wait(k)
  <2>1. Moves(t) /\ Risen(stack[t], stack'[t], f) /\ k \in Code /\ done' = done /\ ran' = ran
    BY <1>4, GetDoes DEF Get
  <2>2. f.k = "wait"
    BY <2>1, Frames
  <2> HIDE DEF f
  <2>3. \A d \in Code, u \in Threads : \A i \in Nat : FrameAt(u, i, "body", d)' => FrameAt(u, i, "body", d)
    BY <2>1, <2>2, RisenFrames
  <2> QED
    BY <2>1, <2>3 DEF Entered
<1>5. CASE Sleep(t)
  BY <1>5, SleepDoes, FallenEntered DEF Sleep
<1>6. CASE Poll(t)
  <2> DEFINE c == Head(queue)
             f == Body(c, FALSE)
  <2>1. Moves(t) /\ c \in Conts /\ c \in Code /\ done' = done
    BY <1>6, PollDoes DEF Poll, Typed, Code
  <2>2. CASE Fresh(c)
    <3>1. Risen(stack[t], stack'[t], f) /\ ran' = ran \cup {c} /\ c \notin ran
      BY <1>6, <2>2, PollDoes DEF Fresh
    <3>2. f.k = "body" /\ f.of = c
      BY <2>1, Frames
    <3> HIDE DEF f, c
    <3> QED
      BY <2>1, <3>1, <3>2, RisenEntered
  <2>3. CASE ~ Fresh(c)
    BY <1>6, <2>1, <2>3, PollDoes, FallenEntered
  <2> QED
    BY <2>2, <2>3
<1>7. CASE Leave(t) \/ Expire(t)
  BY <1>7, LeaveDoes, FallenEntered DEF Leave, Expire
<1>8. CASE Finish(t)
  <2>0. PICK k, n : k = Last(stack[t]).of /\ n = Len(stack[t])
    OBVIOUS
  <2>1. /\ Moves(t) /\ Fallen(stack[t], stack'[t]) /\ k \in Code /\ ran' = ran
        /\ n \in DOMAIN stack'[t] => stack'[t][n].k = "tail"
        /\ (k = Main /\ done' = done) \/ (k # Main /\ done' = done \cup {k})
    BY <1>8, <2>0, FinishDoes DEF Finish
  <2>2. FrameAt(t, n, "body", k) /\ n \in Nat
    BY <1>8, <2>0, Tops DEF Finish, FrameAt
  <2>3. CASE k = Main
    BY <2>1, <2>3, FallenEntered
  <2>4. CASE k # Main
    <3>1. \A d \in Code, u \in Threads : \A i \in Nat : FrameAt(u, i, "body", d)' => FrameAt(u, i, "body", d)
      BY <2>1, FallenFrames
    <3>2. \A u \in Threads : \A i \in Nat : ~ FrameAt(u, i, "body", k)'
      <4> SUFFICES ASSUME NEW u \in Threads, NEW i \in Nat, FrameAt(u, i, "body", k)' PROVE FALSE
        OBVIOUS
      <4>1. FrameAt(u, i, "body", k)
        BY <2>1, <3>1
      <4>2. u = t /\ i = n
        BY <2>1, <2>2, <4>1 DEF Entered
      <4> QED
        BY <2>1, <4>2 DEF FrameAt
    <3>3. k \in ran
      BY <2>1, <2>2, <2>4 DEF Entered
    <3>4. Conts \cap done' \subseteq ran'
      BY <2>1, <2>4, <3>3 DEF Entered
    <3>5. ASSUME NEW d \in Code, NEW u \in Threads, NEW i \in Nat, FrameAt(u, i, "body", d)'
          PROVE  /\ d # Main => d \in ran' \ done'
                 /\ \A v \in Threads : \A j \in Nat : FrameAt(v, j, "body", d)' => u = v /\ i = j
      <4>1. d # k /\ FrameAt(u, i, "body", d)
        BY <3>1, <3>2, <3>5
      <4>2. d # Main => d \in ran' \ done'
        BY <2>1, <2>4, <4>1 DEF Entered
      <4>3. \A v \in Threads : \A j \in Nat : FrameAt(v, j, "body", d)' => u = v /\ i = j
        BY <3>1, <4>1 DEF Entered
      <4> QED
        BY <4>2, <4>3
    <3> QED
      BY <3>4, <3>5 DEF Entered
  <2> QED
    BY <2>3, <2>4
<1>9. CASE Stop(t)
  BY <1>9, StopDoes, FallenEntered DEF Stop
<1>10. CASE Inline(t)
  <2> DEFINE c == Next1(t).of
             f == Body(c, TRUE)
  <2>1. Moves(t) /\ c \in Conts /\ c \in Code /\ done' = done
    BY <1>10, InlineDoes DEF Inline, Code
  <2>2. CASE Fresh(c)
    <3>1. Risen(stack[t], stack'[t], f) /\ ran' = ran \cup {c} /\ c \notin ran
      BY <1>10, <2>2, InlineDoes DEF Fresh
    <3>2. f.k = "body" /\ f.of = c
      BY <2>1, Frames
    <3> HIDE DEF f, c
    <3> QED
      BY <2>1, <3>1, <3>2, RisenEntered
  <2>3. CASE ~ Fresh(c)
    BY <1>10, <2>1, <2>3, InlineDoes, FallenEntered
  <2> QED
    BY <2>2, <2>3
<1>11. CASE Offer(t)
  BY <1>11, OfferDoes, FallenEntered DEF Offer
<1> QED
  BY <1>1, <1>2, <1>3, <1>4, <1>5, <1>6, <1>7, <1>8, <1>9, <1>10, <1>11 DEF Step

LEMMA StartsEntered == Init => Known /\ Entered
<1> SUFFICES ASSUME Init PROVE Known /\ Entered
  OBVIOUS
<1>1. Body(Main, FALSE).k = "body" /\ Body(Main, FALSE).of = Main
  BY Frames DEF Code
<1> DEFINE b == Body(Main, FALSE)
<1>2. \A u \in Threads : stack[u] = (IF u = Home THEN <<b>> ELSE <<>>)
  BY DEF Init
<1>3. <<b>>[1] = b /\ DOMAIN <<b>> = {1}
  OBVIOUS
<1>4. b.k = "body" /\ b.of = Main
  BY <1>1
<1> HIDE DEF b
<1>5. \A u \in Threads : \A i \in DOMAIN stack[u] : u = Home /\ i = 1 /\ stack[u][i] = b
  BY <1>2, <1>3
<1>6. \A u \in Threads : \A i \in Nat : Owed(stack[u], i) = <<>>
  BY <1>4, <1>5 DEF Owed
<1>7. \A x : ~ Owes(x) /\ \A f \in Futures : ~ In(listeners[f], x)
  <2>1. \A f \in Futures : listeners[f] = <<>>
    BY DEF Init
  <2>2. \A x : ~ In(<<>>, x)
    BY DEF In
  <2> QED
    BY <1>6, <2>1, <2>2 DEF Owes
<1>8. Known
  BY <1>7 DEF Known
<1>9. \A u \in Threads : \A i \in Nat : \A c : FrameAt(u, i, "body", c) => c = Main /\ u = Home /\ i = 1
  BY <1>4, <1>5 DEF FrameAt
<1>10. done = {}
  BY DEF Init
<1>11. Entered
  BY <1>9, <1>10 DEF Entered
<1> QED
  BY <1>8, <1>11

Basics == Typed /\ Known /\ Entered

LEMMA BasicsHold == Spec => []Basics
<1>1. Init => Basics
  BY Starts, StartsEntered DEF Basics
<1>2. Basics /\ [Next]_vars => Basics'
  <2> SUFFICES ASSUME Basics, [Next]_vars PROVE Basics'
    OBVIOUS
  <2>1. CASE Next
    <3>1. PICK t \in Threads : Step(t) \/ Expire(t)
      BY <2>1 DEF Next
    <3> QED
      BY <3>1, StepTyped, StepKnown, StepEntered DEF Basics
  <2>2. CASE UNCHANGED vars
    BY <2>2 DEF vars, looper, Basics, Typed, Known, Entered, Owes, FrameAt
  <2> QED
    BY <2>1, <2>2
<1> QED
  BY <1>1, <1>2, PTL DEF Spec

LEMMA EnteredRunOnce == Typed /\ Entered => RunOnce
<1> SUFFICES ASSUME Typed, Entered, NEW c \in Conts
             PROVE  /\ \A t, u \in Threads : Runs(t, c) /\ Runs(u, c) => t = u
                    /\ \A t \in Threads : Runs(t, c) =>
                         /\ c \notin done
                         /\ Cardinality({i \in DOMAIN stack[t] : stack[t][i].k = "body" /\ stack[t][i].of = c}) = 1
  BY DEF RunOnce
<1>1. c \in Code /\ c # Main
  BY NamesAssumption DEF Code
<1>2. \A u \in Threads : \A i \in DOMAIN stack[u] :
        i \in Nat /\ (stack[u][i].k = "body" /\ stack[u][i].of = c => FrameAt(u, i, "body", c))
  BY DEF FrameAt, Typed
<1>3. \A t, u \in Threads : Runs(t, c) /\ Runs(u, c) => t = u
  BY <1>1, <1>2 DEF Runs, Entered
<1>4. ASSUME NEW t \in Threads, Runs(t, c)
      PROVE  /\ c \notin done
             /\ Cardinality({i \in DOMAIN stack[t] : stack[t][i].k = "body" /\ stack[t][i].of = c}) = 1
  <2>1. PICK i \in DOMAIN stack[t] : stack[t][i].k = "body" /\ stack[t][i].of = c
    BY <1>4 DEF Runs
  <2>2. {j \in DOMAIN stack[t] : stack[t][j].k = "body" /\ stack[t][j].of = c} = {i}
    BY <1>1, <1>2, <2>1 DEF Entered
  <2>3. Cardinality({i}) = 1
    BY FS_Singleton
  <2>4. c \notin done
    BY <1>1, <1>2, <2>1 DEF Entered
  <2> QED
    BY <2>2, <2>3, <2>4
<1> QED
  BY <1>3, <1>4

(* The code of a continuation is entered at most once, by one thread, and not
   after it has ended, though the looper's queue and the pool may both hold it. *)
THEOREM CodeRunsOnce == Spec => []RunOnce
BY BasicsHold, EnteredRunOnce, PTL DEF Basics

LEMMA FallenLocks ==
  ASSUME Typed, OneLock, NEW t \in Threads, Moves(t), Fallen(stack[t], stack'[t])
  PROVE  OneLock'
<1>1. stack[t] \in Seq(Frame) /\ stack'[t] \in Seq(Frame)
  BY DEF Typed, Moves
<1>2. ASSUME NEW u \in Threads, NEW i \in Nat, Locked(u, i)' PROVE Locked(u, i)
  <2>1. i \in DOMAIN stack'[u] /\ stack'[u][i].lock
    BY <1>2 DEF Locked
  <2>2. CASE u # t
    BY <2>1, <2>2 DEF Moves, Locked
  <2>3. CASE u = t
    <3>1. stack'[t][i] \in Frame
      BY <1>1, <2>1, <2>3
    <3>2. stack'[t][i].k # "fire"
      BY <2>1, <2>3, <3>1, FrameTypes
    <3>3. Inherits(stack[t], stack'[t], i)
      BY <2>1, <2>3, <3>2 DEF Fallen
    <3> QED
      BY <2>1, <2>3, <3>3 DEF Inherits, Locked
  <2> QED
    BY <2>2, <2>3
<1>3. ASSUME NEW u \in Threads, NEW i \in Nat, NEW k \in {"body", "wait"}, NEW c \in Code,
             FrameAt(u, i, k, c)', Covered(k, c)
      PROVE  \E j \in Nat : j <= i /\ Locked(u, j)'
  <2>1. FrameAt(u, i, k, c)
    BY <1>3, FallenFrames
  <2>2. PICK j \in Nat : j <= i /\ Locked(u, j)
    BY <1>3, <2>1 DEF OneLock
  <2>3. CASE u # t
    BY <2>2, <2>3 DEF Moves, Locked
  <2>4. CASE u = t
    <3>1. i \in DOMAIN stack'[t] /\ j \in DOMAIN stack[t] /\ stack[t][j].lock
      BY <1>3, <2>2, <2>4 DEF FrameAt, Locked
    <3>2. j \in DOMAIN stack'[t] /\ j # Len(stack[t]) + 1
      BY <1>1, <2>2, <3>1
    <3>3. Inherits(stack[t], stack'[t], j)
      BY <3>2 DEF Fallen
    <3> QED
      BY <2>2, <2>4, <3>1, <3>3 DEF Inherits, Locked
  <2> QED
    BY <2>3, <2>4
<1>4. \A u, v \in Threads : \A i, j \in Nat : Locked(u, i)' /\ Locked(v, j)' => u = v
  BY <1>2 DEF OneLock
<1>5. \A u \in Threads : \A i \in Nat : \A k \in {"body", "wait"}, c \in Code :
        FrameAt(u, i, k, c)' /\ Covered(k, c) => \E j \in Nat : j <= i /\ Locked(u, j)'
  BY <1>3
<1> QED
  BY <1>4, <1>5 DEF OneLock, Covered

LEMMA RisenLocks ==
  ASSUME Typed, OneLock, NEW t \in Threads, Moves(t), NEW f, Risen(stack[t], stack'[t], f),
         f.lock => LockFree(t),
         Covered(f.k, f.of) => f.lock \/ \E j \in Nat : Locked(t, j)
  PROVE  OneLock'
<1>0. PICK n : n = Len(stack[t])
  OBVIOUS
<1>1. stack[t] \in Seq(Frame) /\ stack'[t] \in Seq(Frame) /\ n \in Nat /\ DOMAIN stack[t] = 1 .. n
  BY <1>0 DEF Typed, Moves
<1>2. Len(stack'[t]) = n + 1 /\ stack'[t][n + 1] = f /\ DOMAIN stack'[t] = 1 .. n + 1
  BY <1>0, <1>1 DEF Risen
<1>3. \A j \in Nat : Locked(t, j) => Locked(t, j)' /\ j <= n
  BY <1>1 DEF Risen, Inherits, Locked
<1>4. ASSUME NEW u \in Threads, NEW i \in Nat, Locked(u, i)'
      PROVE  Locked(u, i) \/ (u = t /\ f.lock)
  <2>1. CASE u # t
    BY <1>4, <2>1 DEF Moves, Locked
  <2>2. CASE u = t
    <3>1. i \in DOMAIN stack'[t] /\ stack'[t][i].lock
      BY <1>4, <2>2 DEF Locked
    <3>2. CASE i = n + 1
      BY <1>2, <2>2, <3>1, <3>2
    <3>3. CASE i \in DOMAIN stack[t]
      BY <2>2, <3>1, <3>3 DEF Risen, Inherits, Locked
    <3> QED
      BY <1>1, <1>2, <3>1, <3>2, <3>3
  <2> QED
    BY <2>1, <2>2
<1>5. \A u, v \in Threads : \A i, j \in Nat : Locked(u, i)' /\ Locked(v, j)' => u = v
  <2>1. f.lock => \A u \in Threads \ {t} : \A i \in Nat : ~ Locked(u, i)
    BY DEF LockFree, Locked
  <2> QED
    BY <1>4, <2>1 DEF OneLock
<1>7. \A u \in Threads, k \in {"body", "wait"}, c \in Code : \A i \in Nat :
        FrameAt(u, i, k, c)' =>
          FrameAt(u, i, k, c) \/ (u = t /\ i = Len(stack[t]) + 1 /\ f.k = k /\ f.of = c)
  BY RisenFrames
<1>6. ASSUME NEW u \in Threads, NEW i \in Nat, NEW k \in {"body", "wait"}, NEW c \in Code,
             FrameAt(u, i, k, c)', Covered(k, c)
      PROVE  \E j \in Nat : j <= i /\ Locked(u, j)'
  <2>1. CASE u = t /\ i = n + 1 /\ f.k = k /\ f.of = c
    <3>1. CASE f.lock
      <4>1. Locked(t, n + 1)'
        BY <1>1, <1>2, <3>1 DEF Locked
      <4> QED
        BY <1>1, <2>1, <4>1
    <3>2. CASE \E j \in Nat : Locked(t, j)
      BY <1>1, <1>3, <2>1, <3>2
    <3> QED
      BY <1>6, <2>1, <3>1, <3>2
  <2>2. CASE FrameAt(u, i, k, c)
    <3>1. PICK j \in Nat : j <= i /\ Locked(u, j)
      BY <1>6, <2>2 DEF OneLock
    <3>2. CASE u # t
      BY <3>1, <3>2 DEF Moves, Locked
    <3>3. CASE u = t
      BY <1>3, <3>1, <3>3
    <3> QED
      BY <3>2, <3>3
  <2>3. FrameAt(u, i, k, c) \/ (u = t /\ i = Len(stack[t]) + 1 /\ f.k = k /\ f.of = c)
    BY <1>6, <1>7
  <2> QED
    BY <1>0, <2>1, <2>2, <2>3
<1> QED
  BY <1>5, <1>6 DEF OneLock, Covered

LEMMA StepOneLock ==
  ASSUME Typed, OneLock, Waits[Main] = NoFuture, NEW t \in Threads, Step(t) \/ Expire(t)
  PROVE  OneLock'
<1>1. ASSUME NEW c \in Conts, Register(t, c) PROVE OneLock'
  BY <1>1, RegisterDoes, FallenLocks
<1>2. ASSUME NEW c \in Conts, Take(t, c) PROVE OneLock'
  BY <1>2, TakeDoes, FallenLocks
<1>3. ASSUME NEW f \in Calls, Answer(t, f) PROVE OneLock'
  BY <1>3, AnswerDoes, FallenLocks
<1>4. CASE Get(t)
  <2>0. PICK k, n, f : k = Last(stack[t]).of /\ n = Len(stack[t]) /\ f = Wait(k)
    OBVIOUS
  <2>1. Moves(t) /\ Risen(stack[t], stack'[t], f) /\ k \in Code /\ Waits[k] \in Futures
    BY <1>4, <2>0, GetDoes DEF Get
  <2>2. f.k = "wait" /\ ~ f.lock
    BY <2>0, <2>1, Frames
  <2>3. FrameAt(t, n, "body", k) /\ n \in Nat /\ k # Main
    BY <1>4, <2>0, <2>1, Tops, NamesAssumption DEF Get, FrameAt
  <2>4. \E j \in Nat : Locked(t, j)
    BY <2>1, <2>3 DEF OneLock, Covered
  <2> QED
    BY <2>1, <2>2, <2>4, RisenLocks
<1>5. CASE Sleep(t)
  BY <1>5, SleepDoes, FallenLocks
<1>6. CASE Poll(t)
  <2>0. PICK c, n, f, k : /\ c = Head(queue) /\ n = Len(stack[t]) /\ f = Body(c, FALSE)
                          /\ k = Last(stack[t]).of
    OBVIOUS
  <2>1. Moves(t) /\ c \in Conts /\ c \in Code
    BY <1>6, <2>0, PollDoes DEF Typed, Code
  <2>2. CASE Fresh(c)
    <3>1. Risen(stack[t], stack'[t], f)
      BY <1>6, <2>0, <2>2, PollDoes
    <3>2. ~ f.lock
      BY <2>0, <2>1, Frames
    <3>3. FrameAt(t, n, "wait", k) /\ n \in Nat /\ k \in Code
      BY <1>6, <2>0, Tops DEF Poll, FrameAt
    <3>4. \E j \in Nat : Locked(t, j)
      BY <3>3 DEF OneLock, Covered
    <3> QED
      BY <2>1, <3>1, <3>2, <3>4, RisenLocks
  <2>3. CASE ~ Fresh(c)
    BY <1>6, <2>0, <2>1, <2>3, PollDoes, FallenLocks
  <2> QED
    BY <2>2, <2>3
<1>7. CASE Leave(t) \/ Expire(t)
  BY <1>7, LeaveDoes, FallenLocks
<1>8. CASE Finish(t)
  BY <1>8, FinishDoes, FallenLocks
<1>9. CASE Stop(t)
  BY <1>9, StopDoes, FallenLocks
<1>10. CASE Inline(t)
  <2>0. PICK c, f : c = Next1(t).of /\ f = Body(c, TRUE)
    OBVIOUS
  <2>1. Moves(t) /\ c \in Conts /\ c \in Code /\ LockFree(t)
    BY <1>10, <2>0, InlineDoes DEF Inline, Code
  <2>2. CASE Fresh(c)
    <3>1. Risen(stack[t], stack'[t], f)
      BY <1>10, <2>0, <2>2, InlineDoes
    <3>2. f.lock
      BY <2>0, <2>1, Frames
    <3> QED
      BY <2>1, <3>1, <3>2, RisenLocks
  <2>3. CASE ~ Fresh(c)
    BY <1>10, <2>0, <2>1, <2>3, InlineDoes, FallenLocks
  <2> QED
    BY <2>2, <2>3
<1>11. CASE Offer(t)
  BY <1>11, OfferDoes, FallenLocks
<1> QED
  BY <1>1, <1>2, <1>3, <1>4, <1>5, <1>6, <1>7, <1>8, <1>9, <1>10, <1>11 DEF Step

(* What the stacks are at first. *)
LEMMA FirstFrames ==
  ASSUME Init
  PROVE  /\ \A u \in Threads : \A i \in DOMAIN stack[u] :
              stack[u][i].k = "body" /\ stack[u][i].of = Main /\ ~ stack[u][i].lock
         /\ \A u \in Threads : \A i \in Nat : Owed(stack[u], i) = <<>>
<1> DEFINE b == Body(Main, FALSE)
<1>1. b.k = "body" /\ b.of = Main /\ ~ b.lock
  BY Frames DEF Code
<1>2. \A u \in Threads : stack[u] = (IF u = Home THEN <<b>> ELSE <<>>)
  BY DEF Init
<1>3. <<b>>[1] = b /\ DOMAIN <<b>> = {1}
  OBVIOUS
<1> HIDE DEF b
<1>4. \A u \in Threads : \A i \in DOMAIN stack[u] : stack[u][i] = b
  BY <1>2, <1>3
<1>5. \A u \in Threads : \A i \in Nat : Owed(stack[u], i) = <<>>
  BY <1>1, <1>4 DEF Owed
<1> QED
  BY <1>1, <1>4, <1>5

LEMMA LockHolds ==
  ASSUME Waits[Main] = NoFuture
  PROVE  Spec => []OneLock
<1>1. Init => OneLock
  BY FirstFrames DEF OneLock, FrameAt, Locked, Covered
<1>2. Typed /\ OneLock /\ [Next]_vars => OneLock'
  <2> SUFFICES ASSUME Typed, OneLock, [Next]_vars PROVE OneLock'
    OBVIOUS
  <2>1. CASE Next
    BY <2>1, StepOneLock DEF Next
  <2>2. CASE UNCHANGED vars
    BY <2>2 DEF vars, OneLock, FrameAt, Locked, Covered
  <2> QED
    BY <2>1, <2>2
<1> QED
  BY <1>1, <1>2, BasicsHold, PTL DEF Spec, Basics

LEMMA OneLockNotReentrant == Typed /\ OneLock => NotReentrant
<1> SUFFICES ASSUME Typed, OneLock, NEW t \in Threads, NEW u \in Threads, At(t, "body"), At(u, "body"),
                    Last(stack[t]).of # Main, Last(stack[u]).of # Main
             PROVE  t = u
  BY DEF NotReentrant
<1>1. \A v \in Threads : At(v, "body") /\ Last(stack[v]).of # Main => \E j \in Nat : Locked(v, j)
  <2> SUFFICES ASSUME NEW v \in Threads, At(v, "body"), Last(stack[v]).of # Main PROVE \E j \in Nat : Locked(v, j)
    OBVIOUS
  <2>1. PICK k \in Code, n \in Nat : FrameAt(v, n, "body", k) /\ k # Main
    BY Tops DEF FrameAt
  <2> QED
    BY <2>1 DEF OneLock, Covered
<1> QED
  BY <1>1 DEF OneLock

(* When the request's own code does not wait, continuations never overlap. *)
THEOREM ContinuationsNeverOverlap ==
  ASSUME Waits[Main] = NoFuture
  PROVE  Spec => []NotReentrant
BY BasicsHold, LockHolds, OneLockNotReentrant, PTL DEF Basics

LEMMA LookingFinite ==
  /\ Looking \subseteq Threads /\ IsFiniteSet(Looking) /\ Cardinality(Looking) \in Nat
  /\ Looking' \subseteq Threads /\ IsFiniteSet(Looking') /\ Cardinality(Looking') \in Nat
<1>1. Looking \subseteq Threads /\ Looking' \subseteq Threads
  BY DEF Looking
<1> HIDE DEF Looking
<1> QED
  BY <1>1, ThreadsAssumption, FS_Subset, FS_CardinalityType

(* A thread that was not in its loop moves: nobody in a loop notices. *)
LEMMA OthersLook ==
  ASSUME Typed, Awake, NEW t \in Threads, Moves(t), ~ At(t, "wait"), asleep' = asleep, queue' = queue
  PROVE  Awake'
<1>1. ~ In(asleep, t)
  BY DEF Awake
<1>2. \A u \in Threads : u # t => stack'[u] = stack[u]
  BY DEF Moves
<1>3. \A u \in Threads : In(asleep', u) => At(u, "wait")'
  BY <1>1, <1>2 DEF Awake, At, Idle
<1>4. Looking \subseteq Looking'
  BY <1>2 DEF Looking, At, Idle
<1>5. Cardinality(Looking) <= Cardinality(Looking') /\ Cardinality(Looking') \in Nat
  BY <1>4, LookingFinite, FS_Subset
<1>6. queue \in Seq(registered) /\ Len(queue) \in Nat
  BY DEF Typed
<1>7. NoLostWakeup'
  BY <1>5, <1>6, LookingFinite DEF Awake, NoLostWakeup
<1> QED
  BY <1>3, <1>7 DEF Awake

(* Where nothing is queued there is nothing to be awake for. *)
LEMMA NothingQueued ==
  ASSUME queue' = <<>>, \A u \in Threads : In(asleep', u) => At(u, "wait")'
  PROVE  Awake'
<1>1. Cardinality(Looking') \in Nat
  BY LookingFinite
<1> QED
  BY <1>1 DEF Awake, NoLostWakeup

(* A signal: one more thread is awake for at most one more continuation. *)
LEMMA SignalWakes ==
  ASSUME Typed, Awake, NEW t \in Threads, Moves(t), At(t, "fire"), Signal,
         Len(queue') \in Nat, Len(queue') <= Len(queue) + 1
  PROVE  Awake'
<1>1. asleep \in Seq(Threads) /\ IsInjective(asleep) /\ Len(queue) \in Nat
  BY DEF Typed
<1>2. ~ At(t, "wait")
  BY DEF At
<1>3. ~ In(asleep, t) /\ \A u \in Threads : u # t => stack'[u] = stack[u]
  BY <1>2 DEF Awake, Moves
<1>4. \A u : In(asleep', u) => In(asleep, u)
  BY Wakes
<1>5. \A u \in Threads : In(asleep', u) => At(u, "wait")'
  BY <1>3, <1>4 DEF Awake, At, Idle
<1>6. CASE asleep = <<>>
  BY <1>5, <1>6 DEF Signal, Awake, NoLostWakeup
<1>7. CASE asleep # <<>>
  <2>0. PICK w \in Threads : w = asleep[1]
    BY <1>1, <1>7, TailOnce
  <2>1. /\ asleep' = Tail(asleep) /\ w \in Threads
        /\ In(asleep, w) /\ ~ In(asleep', w) /\ asleep' \in Seq(Threads)
    <3>1. asleep' = Tail(asleep)
      BY <1>7 DEF Signal
    <3>2. Tail(asleep) \in Seq(Threads) /\ ~ In(Tail(asleep), w) /\ w \in Threads
      BY <1>1, <1>7, <2>0, TailOnce
    <3>3. 1 \in DOMAIN asleep
      BY <1>1, <1>7
    <3> QED
      BY <2>0, <3>1, <3>2, <3>3 DEF In
  <2>2. w \notin Looking
    BY <2>1, Asleep DEF Looking
  <2>3. w \in Looking'
    <3>1. At(w, "wait")'
      <4>1. At(w, "wait")
        BY <2>1 DEF Awake
      <4>2. stack'[w] = stack[w]
        BY <1>3, <2>1
      <4> QED
        BY <4>1, <4>2 DEF At, Idle
    <3>2. w \notin ToSet(asleep')
      BY <2>1 DEF ToSet, In
    <3> QED
      BY <2>1, <3>1, <3>2 DEF Looking
  <2>4. ASSUME NEW u \in Looking PROVE u \in Looking'
    <3>1. u \in Threads /\ At(u, "wait") /\ ~ In(asleep, u)
      BY Asleep DEF Looking
    <3>2. u # t
      BY <1>2, <3>1
    <3>3. At(u, "wait")'
      BY <1>3, <3>1, <3>2 DEF At, Idle
    <3>4. ~ In(asleep', u)
      BY <1>4, <3>1
    <3>5. u \notin ToSet(asleep')
      BY <2>1, <3>4 DEF ToSet, In
    <3> QED
      BY <3>1, <3>3, <3>5 DEF Looking
  <2>5. Cardinality(Looking \cup {w}) = Cardinality(Looking) + 1
    BY <2>2, LookingFinite, FS_AddElement
  <2>6. Looking \cup {w} \subseteq Looking'
    BY <2>3, <2>4
  <2>7. Cardinality(Looking \cup {w}) <= Cardinality(Looking')
    BY <2>6, LookingFinite, FS_Subset
  <2>8. Len(queue) <= Cardinality(Looking)
    BY <1>7 DEF Awake, NoLostWakeup
  <2>9. Len(queue') <= Cardinality(Looking')
    BY <1>1, <2>5, <2>7, <2>8, LookingFinite
  <2> QED
    BY <1>5, <2>9 DEF Awake, NoLostWakeup
<1> QED
  BY <1>6, <1>7

(* A thread that polls takes one continuation away with it. *)
LEMMA PollAwake ==
  ASSUME Typed, Awake, NEW t \in Threads, Poll(t)
  PROVE  Awake'
<1>1. /\ At(t, "wait") /\ ~ In(asleep, t) /\ queue # <<>> /\ queue' = Tail(queue) /\ asleep' = asleep
      /\ Moves(t) /\ queue \in Seq(registered)
  BY PollDoes, Asleep DEF Poll, Typed
<1>2. Len(queue) \in Nat /\ Len(queue') = Len(queue) - 1
  BY <1>1
<1>3. \A u \in Threads : u # t => stack'[u] = stack[u]
  BY <1>1 DEF Moves
<1>4. \A u \in Threads : In(asleep', u) => At(u, "wait")'
  BY <1>1, <1>3 DEF Awake, At, Idle
<1>5. t \in Looking
  BY <1>1, Asleep DEF Looking
<1>6. Looking \ {t} \subseteq Looking'
  BY <1>1, <1>3 DEF Looking, At, Idle
<1>7. Cardinality(Looking \ {t}) = Cardinality(Looking) - 1
  BY <1>5, LookingFinite, FS_RemoveElement
<1>8. Cardinality(Looking \ {t}) <= Cardinality(Looking')
  BY <1>6, LookingFinite, FS_Subset
<1>9. NoLostWakeup'
  BY <1>1, <1>2, <1>7, <1>8, LookingFinite DEF Awake, NoLostWakeup
<1> QED
  BY <1>4, <1>9 DEF Awake

(* A wait that lasts too long throws in a thread that is asleep. *)
LEMMA ExpireAwake ==
  ASSUME Typed, Awake, NEW t \in Threads, Expire(t)
  PROVE  Awake'
<1>1. PICK i \in DOMAIN asleep : asleep[i] = t /\ asleep' = RemoveAt(asleep, i)
  BY DEF Expire
<1>2. asleep' \in Seq(Threads) /\ \A u : In(asleep', u) <=> In(asleep, u) /\ u # t
  BY <1>1, RemoveOnce DEF Typed
<1>3. Moves(t) /\ queue' = queue /\ asleep # <<>> /\ In(asleep, t)
  <2>1. Moves(t) /\ queue' = queue
    BY LeaveDoes DEF Expire
  <2>2. In(asleep, t) /\ asleep # <<>>
    BY <1>1 DEF In, Typed
  <2> QED
    BY <2>1, <2>2
<1>4. \A u \in Threads : u # t => stack'[u] = stack[u]
  BY <1>3 DEF Moves
<1>5. \A u \in Threads : In(asleep', u) => At(u, "wait")'
  BY <1>2, <1>4 DEF Awake, At, Idle
<1>6. ASSUME NEW u \in Looking PROVE u \in Looking'
  <2>1. u \in Threads /\ At(u, "wait") /\ ~ In(asleep, u)
    BY Asleep DEF Looking
  <2>2. u # t /\ stack'[u] = stack[u] /\ ~ In(asleep', u)
    BY <1>2, <1>3, <1>4, <2>1
  <2>3. u \notin ToSet(asleep')
    BY <1>2, <2>2 DEF ToSet, In
  <2> QED
    BY <2>1, <2>2, <2>3 DEF Looking, At, Idle
<1>7. Cardinality(Looking) <= Cardinality(Looking')
  BY <1>6, LookingFinite, FS_Subset
<1>8. Len(queue) \in Nat /\ Len(queue) <= Cardinality(Looking)
  BY <1>3 DEF Awake, NoLostWakeup, Typed
<1>9. NoLostWakeup'
  BY <1>3, <1>7, <1>8, LookingFinite DEF NoLostWakeup
<1> QED
  BY <1>5, <1>9 DEF Awake

(* What offerRunnable drops from the queue makes it no longer. *)
LEMMA PrunedShorter ==
  ASSUME Typed
  PROVE  Pruned \in Seq(registered) /\ Len(Pruned) <= Len(queue)
<1> DEFINE T == {i \in DOMAIN queue : queue[i] \notin ran}
           n == Len(queue)
           m == Min(T)
<1>1. queue \in Seq(registered) /\ n \in Nat /\ DOMAIN queue = 1 .. n
  BY DEF Typed
<1>2. CASE T = {}
  <2>1. Pruned = <<>>
    BY <1>2 DEF Pruned
  <2> QED
    BY <1>1, <2>1, PrunedKeeps
<1>3. CASE T # {}
  <2>1. m \in T
    <3>1. T \subseteq Nat
      BY <1>1
    <3> HIDE DEF T
    <3> QED
      BY <1>3, <3>1, MinExists
  <2>2. Pruned = SubSeq(queue, m, n)
    BY <1>3 DEF Pruned
  <2>3. m \in 1 .. n
    BY <1>1, <2>1
  <2> HIDE DEF m, n
  <2>4. Len(Pruned) = n - m + 1
    BY <1>1, <2>2, <2>3
  <2>5. Len(Pruned) <= n
    BY <1>1, <2>3, <2>4
  <2> QED
    BY <2>5, PrunedKeeps DEF n
<1> QED
  BY <1>2, <1>3

LEMMA StepAwake ==
  ASSUME Typed, Awake, NEW t \in Threads, Step(t) \/ Expire(t)
  PROVE  Awake'
<1>1. ASSUME NEW c \in Conts, Register(t, c) \/ Take(t, c) PROVE Awake'
  <2>1. ~ At(t, "wait") /\ Moves(t) /\ UNCHANGED looper
    BY <1>1, RegisterDoes, TakeDoes DEF Register, Take, At
  <2> QED
    BY <2>1, OthersLook DEF looper
<1>2. ASSUME NEW f \in Calls, Answer(t, f) PROVE Awake'
  <2>1. ~ At(t, "wait") /\ Moves(t) /\ UNCHANGED looper
    BY <1>2, AnswerDoes DEF Answer, At
  <2> QED
    BY <2>1, OthersLook DEF looper
<1>3. CASE Get(t)
  <2>1. ~ At(t, "wait") /\ Moves(t) /\ UNCHANGED <<queue, asleep>>
    BY <1>3, GetDoes DEF Get, At
  <2> QED
    BY <2>1, OthersLook
<1>4. CASE Finish(t)
  <2>1. ~ At(t, "wait") /\ Moves(t) /\ UNCHANGED looper
    BY <1>4, FinishDoes DEF Finish, At
  <2> QED
    BY <2>1, OthersLook DEF looper
<1>5. CASE Inline(t)
  <2>1. ~ At(t, "wait") /\ Moves(t) /\ UNCHANGED looper
    BY <1>5, InlineDoes DEF Inline, At
  <2> QED
    BY <2>1, OthersLook DEF looper
<1>6. CASE Sleep(t)
  <2>1. stack' = stack /\ asleep' = Append(asleep, t) /\ At(t, "wait") /\ queue' = <<>>
    BY <1>6 DEF Sleep
  <2>2. \A u : In(asleep', u) => In(asleep, u) \/ u = t
    BY <2>1, InAppend DEF Typed
  <2>3. \A u \in Threads : In(asleep', u) => At(u, "wait")'
    BY <2>1, <2>2 DEF Awake, At, Idle
  <2> QED
    BY <2>1, <2>3, NothingQueued
<1>7. CASE Leave(t)
  <2>1. Moves(t) /\ ~ In(asleep, t) /\ asleep' = asleep /\ queue' = <<>>
    BY <1>7, LeaveDoes, Asleep DEF Leave, looper
  <2>2. ASSUME NEW u \in Threads, In(asleep', u) PROVE At(u, "wait")'
    <3>1. At(u, "wait") /\ u # t
      BY <2>1, <2>2 DEF Awake
    <3>2. stack'[u] = stack[u]
      BY <2>1, <3>1 DEF Moves
    <3> QED
      BY <3>1, <3>2 DEF At, Idle
  <2> QED
    BY <2>1, <2>2, NothingQueued
<1>8. CASE Stop(t)
  <2>1. At(t, "fire") /\ Moves(t) /\ Signal /\ queue' = queue /\ Len(queue) \in Nat
    <3>1. At(t, "fire") /\ Signal /\ queue' = queue
      BY <1>8 DEF Stop
    <3>2. Moves(t)
      BY <1>8, StopDoes
    <3>3. Len(queue) \in Nat
      BY DEF Typed
    <3> QED
      BY <3>1, <3>2, <3>3
  <2>2. Len(queue') \in Nat /\ Len(queue') <= Len(queue) + 1
    BY <2>1
  <2> QED
    BY <2>1, <2>2, SignalWakes
<1>9. CASE Offer(t)
  <2>1. At(t, "fire") /\ Moves(t) /\ Signal /\ queue' = Append(Pruned, Next1(t).of)
    BY <1>9, OfferDoes DEF Offer
  <2>2. Len(queue) \in Nat /\ Len(Pruned) \in Nat /\ Len(queue') = Len(Pruned) + 1
    BY <2>1, PrunedShorter DEF Typed
  <2>3. Len(queue') \in Nat /\ Len(queue') <= Len(queue) + 1
    BY <2>2, PrunedShorter
  <2> QED
    BY <2>1, <2>3, SignalWakes
<1> QED
  BY <1>1, <1>2, <1>3, <1>4, <1>5, <1>6, <1>7, <1>8, <1>9, PollAwake, ExpireAwake DEF Step

(* However many threads sleep, no signal of an offer is wasted: none sleeps
   while more is queued than there are threads awake to poll it.            *)
THEOREM WakeupsReach == Spec => []NoLostWakeup
<1>1. Init => Awake
  BY DEF Init, Awake, In, NoLostWakeup
<1>2. Typed /\ Awake /\ [Next]_vars => Awake'
  <2> SUFFICES ASSUME Typed, Awake, [Next]_vars PROVE Awake'
    OBVIOUS
  <2>1. CASE Next
    BY <2>1, StepAwake DEF Next
  <2>2. CASE UNCHANGED vars
    <3>1. stack' = stack /\ asleep' = asleep /\ queue' = queue
      BY <2>2 DEF vars, looper
    <3>2. Looking' = Looking
      BY <3>1 DEF Looking, At, Idle
    <3> QED
      BY <3>1, <3>2 DEF Awake, NoLostWakeup, In, At, Idle
  <2> QED
    BY <2>1, <2>2
<1>3. Awake => NoLostWakeup
  BY DEF Awake
<1> QED
  BY <1>1, <1>2, <1>3, BasicsHold, PTL DEF Spec, Basics

LEMMA UniqueSame ==
  ASSUME Unique, OwedSame
  PROVE  Unique'
<1>1. ASSUME NEW u \in Threads, NEW i \in Nat, NEW a, NEW k, OwedAt(u, i, a, k)' PROVE OwedAt(u, i, a, k)
  <2>1. a \in DOMAIN Owed(stack'[u], i) /\ Owed(stack'[u], i)[a] = StopOf(k)
    BY <1>1 DEF OwedAt, Owed
  <2> QED
    BY <2>1 DEF OwedSame, OwedAt
<1> QED
  BY <1>1 DEF Unique

LEMMA UniqueAdds ==
  ASSUME Unique, NEW t \in Threads, NEW q, Adds(t, q), Single(q),
         \A k \in Code : In(q, StopOf(k)) => ~ Owes(StopOf(k))
  PROVE  Unique'
<1>1. PICK n \in Nat : /\ OthersOwed(t, n)
                       /\ Owed(stack[t], n) = <<>> /\ Owed(stack'[t], n) = q
  BY DEF Adds
<1>2. ASSUME NEW u \in Threads, NEW i \in Nat, NEW a, NEW k \in Code, OwedAt(u, i, a, k)'
      PROVE  \/ OwedAt(u, i, a, k) /\ Owes(StopOf(k))
             \/ u = t /\ i = n /\ a \in DOMAIN q /\ q[a] = StopOf(k) /\ In(q, StopOf(k))
  <2>1. a \in DOMAIN Owed(stack'[u], i) /\ Owed(stack'[u], i)[a] = StopOf(k)
    BY <1>2 DEF OwedAt, Owed
  <2>2. CASE u = t /\ i = n
    BY <1>1, <2>1, <2>2 DEF In
  <2>3. CASE ~ (u = t /\ i = n)
    BY <1>1, <2>1, <2>3 DEF OthersOwed, OwedAt, Owes, In
  <2> QED
    BY <2>2, <2>3
<1>3. \A k \in Code : StopOf(k).kind = "stop"
  BY Listeners
<1>4. ASSUME NEW u \in Threads, NEW v \in Threads, NEW i \in Nat, NEW j \in Nat, NEW k \in Code,
             NEW a, NEW b, OwedAt(u, i, a, k)', OwedAt(v, j, b, k)'
      PROVE  u = v /\ i = j /\ a = b
  <2>1. CASE OwedAt(u, i, a, k) /\ OwedAt(v, j, b, k)
    BY <2>1 DEF Unique
  <2>2. CASE ~ (OwedAt(u, i, a, k) /\ OwedAt(v, j, b, k))
    <3>1. In(q, StopOf(k))
      BY <1>2, <1>4, <2>2
    <3>2. /\ u = t /\ i = n /\ a \in DOMAIN q /\ q[a] = StopOf(k)
          /\ v = t /\ j = n /\ b \in DOMAIN q /\ q[b] = StopOf(k)
      BY <1>2, <1>4, <3>1
    <3> QED
      BY <1>3, <3>2 DEF Single
  <2> QED
    BY <2>1, <2>2
<1> QED
  BY <1>4 DEF Unique

LEMMA UniqueDrops ==
  ASSUME Typed, Unique, NEW t \in Threads, NEW x, Drops(t, x)
  PROVE  Unique' /\ \A k \in Code : x = StopOf(k) => ~ Owes(StopOf(k))'
<1>1. PICK n \in Nat : /\ OthersOwed(t, n)
                       /\ Owed(stack[t], n) # <<>> /\ Owed(stack[t], n)[1] = x
                       /\ Owed(stack'[t], n) = Tail(Owed(stack[t], n))
  BY DEF Drops
<1>2. PICK q \in Seq(Listener) : q = Owed(stack[t], n)
  BY OwedTyped DEF Typed
<1>3. /\ DOMAIN q = 1 .. Len(q) /\ Len(q) \in Nat /\ Len(q) > 0
      /\ DOMAIN Tail(q) = 1 .. Len(q) - 1 /\ \A a \in 1 .. Len(q) - 1 : Tail(q)[a] = q[a + 1]
  BY <1>1, <1>2
(* Where a listener still owed was before. *)
<1> DEFINE Was(u, i, a) == IF u = t /\ i = n THEN a + 1 ELSE a
<1>4. ASSUME NEW u \in Threads, NEW i \in Nat, NEW a, NEW k, OwedAt(u, i, a, k)'
      PROVE  OwedAt(u, i, Was(u, i, a), k) /\ (u = t /\ i = n => a \in 1 .. Len(q) - 1)
  <2>1. a \in DOMAIN Owed(stack'[u], i) /\ Owed(stack'[u], i)[a] = StopOf(k)
    BY <1>4 DEF OwedAt, Owed
  <2>2. CASE u = t /\ i = n
    <3>1. a \in 1 .. Len(q) - 1 /\ q[a + 1] = StopOf(k) /\ a + 1 \in DOMAIN q
      BY <1>1, <1>2, <1>3, <2>1, <2>2
    <3> QED
      BY <1>2, <2>2, <3>1 DEF OwedAt
  <2>3. CASE ~ (u = t /\ i = n)
    BY <1>1, <2>1, <2>3 DEF OthersOwed, OwedAt
  <2> QED
    BY <2>2, <2>3
<1>5. ASSUME NEW u \in Threads, NEW v \in Threads, NEW i \in Nat, NEW j \in Nat, NEW k \in Code,
             NEW a, NEW b, OwedAt(u, i, a, k)', OwedAt(v, j, b, k)'
      PROVE  u = v /\ i = j /\ a = b
  <2>1. OwedAt(u, i, Was(u, i, a), k) /\ OwedAt(v, j, Was(v, j, b), k)
    BY <1>4, <1>5
  <2>2. u = v /\ i = j /\ Was(u, i, a) = Was(v, j, b)
    <3> HIDE DEF Was
    <3> QED
      BY <2>1 DEF Unique
  <2>3. CASE u = t /\ i = n
    <3>1. a \in 1 .. Len(q) - 1 /\ b \in 1 .. Len(q) - 1
      BY <1>4, <1>5, <2>2, <2>3
    <3> QED
      BY <2>2, <2>3, <3>1
  <2>4. CASE ~ (u = t /\ i = n)
    BY <2>2, <2>4
  <2> QED
    BY <2>3, <2>4
<1>6. ASSUME NEW k \in Code, x = StopOf(k), NEW u \in Threads, NEW i \in Nat, NEW a, OwedAt(u, i, a, k)'
      PROVE  FALSE
  <2>1. OwedAt(u, i, Was(u, i, a), k)
    BY <1>4, <1>6
  <2>2. OwedAt(t, n, 1, k)
    BY <1>1, <1>2, <1>3, <1>6 DEF OwedAt
  <2>3. u = t /\ i = n /\ Was(u, i, a) = 1
    <3> HIDE DEF Was
    <3> QED
      BY <2>1, <2>2 DEF Unique
  <2>4. a + 1 = 1 /\ a \in 1 .. Len(q) - 1
    BY <1>4, <1>6, <2>3
  <2> QED
    BY <1>3, <2>4
<1>7. \A k \in Code : x = StopOf(k) => ~ Owes(StopOf(k))'
  <2> SUFFICES ASSUME NEW k \in Code, x = StopOf(k), Owes(StopOf(k))' PROVE FALSE
    OBVIOUS
  <2>1. PICK u \in Threads : \E i \in Nat : In(Owed(stack'[u], i), StopOf(k))
    BY DEF Owes, In, Owed
  <2>2. PICK i \in Nat : In(Owed(stack'[u], i), StopOf(k))
    BY <2>1
  <2>3. PICK a : OwedAt(u, i, a, k)'
    BY <2>2 DEF In, OwedAt, Owed
  <2> QED
    BY <1>6, <2>3
<1> QED
  BY <1>5, <1>7 DEF Unique

LEMMA SingleAppend ==
  ASSUME NEW q \in Seq(Listener), NEW y \in Listener, Single(q), y.kind = "stop" => ~ In(q, y)
  PROVE  Single(Append(q, y))
<1>1. Len(q) \in Nat /\ DOMAIN q = 1 .. Len(q) /\ DOMAIN Append(q, y) = 1 .. Len(q) + 1
  OBVIOUS
<1>2. Append(q, y)[Len(q) + 1] = y /\ \A a \in 1 .. Len(q) : Append(q, y)[a] = q[a]
  OBVIOUS
<1>3. y.kind = "stop" => \A a \in 1 .. Len(q) : q[a] # y
  BY <1>1 DEF In
<1>4. ASSUME NEW a \in DOMAIN Append(q, y), NEW b \in DOMAIN Append(q, y),
             Append(q, y)[a] = Append(q, y)[b], Append(q, y)[a].kind = "stop"
      PROVE  a = b
  <2>1. CASE a \in 1 .. Len(q) /\ b \in 1 .. Len(q)
    BY <1>1, <1>2, <1>4, <2>1 DEF Single
  <2>2. CASE a = Len(q) + 1 \/ b = Len(q) + 1
    BY <1>1, <1>2, <1>3, <1>4, <2>2
  <2> QED
    BY <1>1, <2>1, <2>2
<1> QED
  BY <1>4 DEF Single

LEMMA SingleRun ==
  ASSUME NEW c \in Conts
  PROVE  Single(<<RunOf(c)>>) /\ \A k \in Code : ~ In(<<RunOf(c)>>, StopOf(k)) /\ RunOf(c) # StopOf(k)
<1>1. RunOf(c) \in Listener /\ RunOf(c).kind = "run"
  BY Listeners
<1>2. \A k \in Code : RunOf(c) # StopOf(k)
  BY <1>1, Listeners
<1>3. \A k \in Code : ~ In(<<RunOf(c)>>, StopOf(k))
  BY <1>1, <1>2, InSingle
<1>4. DOMAIN <<RunOf(c)>> = {1}
  BY <1>1, Singles
<1> QED
  BY <1>2, <1>3, <1>4 DEF Single

(* What the steps do to the listeners of the get()s: most steps nothing. *)
Quiet ==
  /\ done' = done /\ stopped' = stopped /\ nested' = nested /\ ran \subseteq ran' /\ Unique'
  /\ \A f \in Futures : Single(listeners'[f])
  /\ \A f \in Futures, k \in Code : In(listeners'[f], StopOf(k)) <=> In(listeners[f], StopOf(k))
  /\ \A k \in Code : Owes(StopOf(k))' <=> Owes(StopOf(k))

LEMMA QuietAdds ==
  ASSUME Placed, NEW t \in Threads, NEW c \in Conts, Adds(t, <<RunOf(c)>>),
         UNCHANGED <<listeners, done, stopped, nested, ran>>
  PROVE  Quiet
<1>1. Single(<<RunOf(c)>>) /\ \A k \in Code : ~ In(<<RunOf(c)>>, StopOf(k))
  BY SingleRun
<1>2. PICK q : q = <<RunOf(c)>>
  OBVIOUS
<1>3. Unique'
  BY <1>1, <1>2, UniqueAdds DEF Placed
<1>4. \A k \in Code : Owes(StopOf(k))' <=> Owes(StopOf(k))
  BY <1>1, <1>2, AddsOwes
<1> QED
  BY <1>3, <1>4 DEF Quiet, Placed

LEMMA QuietDrops ==
  ASSUME Typed, Placed, NEW t \in Threads, NEW c \in Conts, Drops(t, RunOf(c)),
         UNCHANGED <<listeners, done, stopped, nested>>, ran \subseteq ran'
  PROVE  Quiet
<1>1. \A k \in Code : RunOf(c) # StopOf(k)
  BY SingleRun
<1>2. Unique'
  BY UniqueDrops DEF Placed
<1>3. \A k \in Code : Owes(StopOf(k))' <=> Owes(StopOf(k))
  BY <1>1, DropsOwes
<1> QED
  BY <1>2, <1>3 DEF Quiet, Placed

LEMMA QuietSame ==
  ASSUME Placed, OwedSame, UNCHANGED <<listeners, done, stopped, nested>>, ran \subseteq ran'
  PROVE  Quiet
<1>1. Unique'
  BY UniqueSame DEF Placed
<1>2. \A k \in Code : Owes(StopOf(k))' <=> Owes(StopOf(k))
  BY SameOwes
<1> QED
  BY <1>1, <1>2 DEF Quiet, Placed

LEMMA QuietRegister ==
  ASSUME Typed, Placed, NEW t \in Threads, NEW c \in Conts, Register(t, c)
  PROVE  Quiet
<1>1. UNCHANGED <<done, stopped, nested, ran>>
  BY DEF Register, looper
<1>2. CASE On[c] \in done
  BY <1>1, <1>2, RegisterDoes, QuietAdds
<1>3. CASE On[c] \notin done
  <2>1. PICK f \in Futures, x \in Listener : f = On[c] /\ x = RunOf(c)
    BY Listeners, ProgramAssumption
  <2>2. OwedSame /\ listeners' = [listeners EXCEPT ![f] = Append(@, x)]
    BY <1>3, <2>1, RegisterDoes
  <2>3. x.kind = "run" /\ \A k \in Code : x # StopOf(k) /\ StopOf(k) \in Listener
    BY <2>1, SingleRun, Listeners
  <2>4. \A g \in Futures, k \in Code : In(listeners'[g], StopOf(k)) <=> In(listeners[g], StopOf(k))
    BY <2>2, <2>3, ListenersTyped
  <2>5. \A g \in Futures : Single(listeners'[g])
    <3>1. listeners[f] \in Seq(Listener) /\ Single(listeners[f])
      BY DEF Typed, Placed
    <3>2. Single(Append(listeners[f], x))
      BY <2>3, <3>1, SingleAppend
    <3>3. \A g \in Futures : listeners'[g] = IF g = f THEN Append(listeners[f], x) ELSE listeners[g]
      BY <2>2 DEF Typed
    <3> QED
      BY <3>2, <3>3 DEF Placed
  <2>6. Unique'
    BY <2>2, UniqueSame DEF Placed
  <2>7. \A k \in Code : Owes(StopOf(k))' <=> Owes(StopOf(k))
    BY <2>2, SameOwes
  <2> QED
    BY <1>1, <2>4, <2>5, <2>6, <2>7 DEF Quiet
<1> QED
  BY <1>2, <1>3

LEMMA QuietSteps ==
  ASSUME Typed, Placed, NEW t \in Threads,
         \/ \E c \in Conts : Register(t, c) \/ Take(t, c)
         \/ Sleep(t) \/ Poll(t) \/ Leave(t) \/ Expire(t) \/ Inline(t) \/ Offer(t)
         \/ (Finish(t) /\ Last(stack[t]).of = Main)
  PROVE  Quiet
<1>1. ASSUME NEW c \in Conts, Register(t, c) PROVE Quiet
  BY <1>1, QuietRegister
<1>2. ASSUME NEW c \in Conts, Take(t, c) PROVE Quiet
  BY <1>2, TakeDoes, QuietAdds DEF Take, looper
<1>3. CASE Sleep(t) \/ Leave(t) \/ Expire(t)
  BY <1>3, SleepDoes, LeaveDoes, QuietSame DEF Sleep, Leave, Expire, looper
<1>4. CASE Poll(t)
  <2>1. OwedSame /\ ran \subseteq ran'
    BY <1>4, PollDoes
  <2> QED
    BY <1>4, <2>1, QuietSame DEF Poll
<1>5. CASE Inline(t)
  <2>1. PICK c : c = Next1(t).of
    OBVIOUS
  <2>2. c \in Conts /\ Drops(t, RunOf(c)) /\ ran \subseteq ran'
    BY <1>5, <2>1, InlineDoes
  <2>3. UNCHANGED <<listeners, done, stopped, nested>>
    BY <1>5 DEF Inline, looper
  <2> QED
    BY <2>2, <2>3, QuietDrops
<1>6. CASE Offer(t)
  <2>1. PICK c : c = Next1(t).of
    OBVIOUS
  <2>2. c \in Conts /\ Drops(t, RunOf(c))
    BY <1>6, <2>1, OfferDoes
  <2>3. UNCHANGED <<listeners, done, stopped, nested, ran>>
    BY <1>6 DEF Offer
  <2> QED
    BY <2>2, <2>3, QuietDrops
<1>7. CASE Finish(t) /\ Last(stack[t]).of = Main
  <2>1. UNCHANGED <<listeners, done, stopped, nested, ran>>
    BY <1>7 DEF Finish, looper
  <2> QED
    BY <1>7, <2>1, FinishDoes, QuietSame
<1> QED
  BY <1>1, <1>2, <1>3, <1>4, <1>5, <1>6, <1>7

(* A future is completed: its listeners are now owed by the thread. *)
Completes(t, f) ==
  /\ f \in Futures \ done /\ done' = done \cup {f} /\ Adds(t, listeners[f])
  /\ UNCHANGED <<listeners, stopped, nested, ran>>

LEMMA AnswerCompletes ==
  ASSUME Typed, NEW t \in Threads, NEW f \in Calls, Answer(t, f)
  PROVE  Completes(t, f)
BY AnswerDoes DEF Answer, Completes, Futures, looper

LEMMA FinishCompletes ==
  ASSUME Typed, Entered, NEW t \in Threads, Finish(t), Last(stack[t]).of # Main
  PROVE  Completes(t, Last(stack[t]).of)
<1>0. PICK k, n : k = Last(stack[t]).of /\ n = Len(stack[t])
  OBVIOUS
<1>1. k \in Code /\ Adds(t, listeners[k]) /\ done' = done \cup {k} /\ UNCHANGED <<listeners, stopped, nested, ran>>
  BY <1>0, FinishDoes DEF Finish, looper
<1>2. FrameAt(t, n, "body", k) /\ n \in Nat
  BY <1>0, Tops DEF Finish, FrameAt
<1>3. k \notin done /\ k \in Futures
  BY <1>0, <1>1, <1>2 DEF Entered, Code, Futures
<1> QED
  BY <1>0, <1>1, <1>3 DEF Completes

LEMMA PlacedNext ==
  ASSUME Unique', \A f \in Futures : Single(listeners'[f]),
         \A f \in Futures, k \in Code :
           In(listeners'[f], StopOf(k)) => f = Waits[k] /\ (k # Main => k \in ran'),
         \A k \in Code : Owes(StopOf(k))' => Waits[k] \in done',
         \A k \in stopped' : Waits[k] \in done' /\ ~ Owes(StopOf(k))'
  PROVE  Placed'
<1>1. \A f \in Futures : Single(listeners[f])'
  BY DEF Single
<1>2. \A f \in Futures, k \in Code : In(listeners[f], StopOf(k))' <=> In(listeners'[f], StopOf(k))
  BY DEF In
<1> QED
  BY <1>1, <1>2 DEF Placed

LEMMA PlacedQuiet ==
  ASSUME Typed, Placed, Quiet
  PROVE  Placed'
<1>1. \A k \in stopped' : Waits[k] \in done' /\ ~ Owes(StopOf(k))'
  BY DEF Placed, Quiet, Typed
<1>2. \A k \in Code : Owes(StopOf(k))' => Waits[k] \in done'
  BY DEF Placed, Quiet
<1>3. \A f \in Futures, k \in Code :
        In(listeners'[f], StopOf(k)) => f = Waits[k] /\ (k # Main => k \in ran')
  BY DEF Placed, Quiet
<1> QED
  BY <1>1, <1>2, <1>3, PlacedNext DEF Quiet

LEMMA PlacedCompletes ==
  ASSUME Typed, Placed, NEW t \in Threads, NEW f, Completes(t, f)
  PROVE  /\ Placed'
         /\ \A k \in Code : Owes(StopOf(k))' <=> Owes(StopOf(k)) \/ In(listeners[f], StopOf(k))
<1>1. \A k \in Code : Owes(StopOf(k))' <=> Owes(StopOf(k)) \/ In(listeners[f], StopOf(k))
  BY AddsOwes DEF Completes
<1>2. Unique'
  BY UniqueAdds DEF Placed, Completes
<1>3. /\ \A g \in Futures : Single(listeners'[g])
      /\ \A g \in Futures, k \in Code :
           In(listeners'[g], StopOf(k)) => g = Waits[k] /\ (k # Main => k \in ran')
  BY DEF Placed, Completes
<1>4. \A k \in Code : Owes(StopOf(k))' => Waits[k] \in done'
  BY <1>1 DEF Placed, Completes
<1>5. \A k \in stopped' : Waits[k] \in done' /\ ~ Owes(StopOf(k))'
  BY <1>1 DEF Placed, Completes, Typed
<1> QED
  BY <1>1, <1>2, <1>3, <1>4, <1>5, PlacedNext

(* A get() begins only if its body has none in progress. *)
LEMMA GetFresh ==
  ASSUME Typed, Waiting, NEW t \in Threads, Get(t)
  PROVE  ~ Pending(Last(stack[t]).of)
<1>0. PICK k, n : k = Last(stack[t]).of /\ n = Len(stack[t])
  OBVIOUS
<1>1. FrameAt(t, n, "body", k) /\ n \in Nat /\ k \in Code /\ k \notin expired
  BY <1>0, Tops DEF Get, FrameAt
<1>2. ~ FrameAt(t, n + 1, "wait", k)
  BY <1>0, <1>1 DEF FrameAt, Typed
<1> QED
  BY <1>0, <1>1, <1>2 DEF Waiting

LEMMA PlacedGet ==
  ASSUME Typed, Entered, Placed, Waiting, NEW t \in Threads, Get(t)
  PROVE  LET k == Last(stack[t]).of
         IN  /\ Placed' /\ k \in Code /\ Waits[k] \in Futures \ done
             /\ \A m \in Code : Owes(StopOf(m))' <=> Owes(StopOf(m))
             /\ \A g \in Futures, m \in Code :
                  In(listeners'[g], StopOf(m)) <=> In(listeners[g], StopOf(m)) \/ (g = Waits[k] /\ m = k)
<1>0. PICK k, n : k = Last(stack[t]).of /\ n = Len(stack[t])
  OBVIOUS
<1>1. PICK f \in Futures \ done, x \in Listener : f = Waits[k] /\ x = StopOf(k)
  BY <1>0, GetDoes, Listeners DEF Get
<1>2. /\ k \in Code /\ OwedSame /\ listeners' = [listeners EXCEPT ![f] = Append(@, x)]
      /\ UNCHANGED <<done, stopped, ran>>
  BY <1>0, <1>1, GetDoes DEF Get
<1>3. k # Main => k \in ran
  <2>1. FrameAt(t, n, "body", k) /\ n \in Nat
    BY <1>0, Tops DEF Get, FrameAt
  <2> QED
    BY <1>2, <2>1 DEF Entered
<1>4. \A m \in Code : StopOf(m) \in Listener /\ (x = StopOf(m) <=> m = k)
  BY <1>1, <1>2, Listeners
<1>5. \A g \in Futures, m \in Code :
        In(listeners'[g], StopOf(m)) <=> In(listeners[g], StopOf(m)) \/ (g = f /\ m = k)
  <2>1. listeners' = [listeners EXCEPT ![f] = Append(@, x)] /\ f \in Futures /\ x \in Listener
    BY <1>2
  <2>2. \A g \in Futures, y \in Listener :
          In(listeners'[g], y) <=> In(listeners[g], y) \/ (g = f /\ y = x)
    BY ONLY Typed, <2>1, ListenersTyped
  <2> TAKE g \in Futures, m \in Code
  <2>3. StopOf(m) \in Listener /\ (x = StopOf(m) <=> m = k)
    BY <1>4
  <2> QED
    BY <2>2, <2>3
<1>6. \A g \in Futures : Single(listeners'[g])
  <2>1. listeners[f] \in Seq(Listener) /\ Single(listeners[f])
    BY DEF Typed, Placed
  <2>2. ~ In(listeners[f], x)
    BY <1>0, <1>1, GetFresh DEF Pending
  <2>3. Single(Append(listeners[f], x))
    BY <2>1, <2>2, SingleAppend
  <2>4. \A g \in Futures : listeners'[g] = IF g = f THEN Append(listeners[f], x) ELSE listeners[g]
    BY <1>2 DEF Typed
  <2> QED
    BY <2>3, <2>4 DEF Placed
<1>7. Unique'
  BY <1>2, UniqueSame DEF Placed
<1>8. \A m \in Code : Owes(StopOf(m))' <=> Owes(StopOf(m))
  BY <1>2, SameOwes
<1>9. \A g \in Futures, m \in Code : In(listeners'[g], StopOf(m)) => g = Waits[m] /\ (m # Main => m \in ran')
  BY <1>1, <1>2, <1>3, <1>5 DEF Placed
<1>10. \A m \in Code : Owes(StopOf(m))' => Waits[m] \in done'
  BY <1>2, <1>8 DEF Placed
<1>11. \A m \in stopped' : Waits[m] \in done' /\ ~ Owes(StopOf(m))'
  BY <1>2, <1>8 DEF Placed, Typed
<1>12. Placed'
  BY <1>6, <1>7, <1>9, <1>10, <1>11, PlacedNext
<1> QED
  BY <1>0, <1>1, <1>2, <1>5, <1>8, <1>12

LEMMA PlacedStop ==
  ASSUME Typed, Placed, NEW t \in Threads, Stop(t)
  PROVE  LET k == Next1(t).of
         IN  /\ Placed' /\ k \in Code /\ Owes(StopOf(k)) /\ Waits[k] \in done
             /\ \A m \in Code : Owes(StopOf(m))' <=> Owes(StopOf(m)) /\ m # k
<1>0. PICK k : k = Next1(t).of
  OBVIOUS
<1>1. k \in Code /\ Drops(t, StopOf(k))
  BY <1>0, StopDoes
<1>2. UNCHANGED <<done, listeners, ran>> /\ stopped' = stopped \cup {k}
  BY <1>0 DEF Stop
<1>3. Unique' /\ ~ Owes(StopOf(k))'
  BY <1>1, UniqueDrops DEF Placed
<1>4. Owes(StopOf(k)) /\ \A m \in Code : /\ Owes(StopOf(m))' => Owes(StopOf(m))
                                         /\ Owes(StopOf(m)) => StopOf(m) = StopOf(k) \/ Owes(StopOf(m))'
  BY <1>1, DropsOwes
<1>5. \A m \in Code : Owes(StopOf(m))' <=> Owes(StopOf(m)) /\ m # k
  BY <1>1, <1>3, <1>4, Listeners
<1>6. Waits[k] \in done
  BY <1>1, <1>4 DEF Placed
<1>7. \A m \in stopped' : Waits[m] \in done' /\ ~ Owes(StopOf(m))'
  BY <1>1, <1>2, <1>5, <1>6 DEF Placed, Typed
<1>8. \A m \in Code : Owes(StopOf(m))' => Waits[m] \in done'
  BY <1>2, <1>5 DEF Placed
<1>9. \A f \in Futures : Single(listeners'[f])
  BY <1>2 DEF Placed
<1>10. \A f \in Futures, m \in Code : In(listeners'[f], StopOf(m)) => f = Waits[m] /\ (m # Main => m \in ran')
  BY <1>2 DEF Placed
<1>11. Placed'
  BY <1>3, <1>7, <1>8, <1>9, <1>10, PlacedNext
<1> QED
  BY <1>0, <1>1, <1>4, <1>5, <1>6, <1>11

(* Every step is one of four, as far as the get()s are concerned. *)
LEMMA Kinds ==
  ASSUME Typed, Entered, Placed, NEW t \in Threads, Step(t) \/ Expire(t)
  PROVE  \/ Quiet \/ Get(t) \/ Stop(t)
         \/ (\E f \in Futures : Completes(t, f)) /\ ((\E f \in Calls : Answer(t, f)) \/ Finish(t))
<1>1. ASSUME NEW c \in Conts, Register(t, c) \/ Take(t, c) PROVE Quiet
  BY <1>1, QuietSteps
<1>2. CASE Sleep(t) \/ Poll(t) \/ Leave(t) \/ Expire(t) \/ Inline(t) \/ Offer(t)
  BY <1>2, QuietSteps
<1>3. CASE Finish(t)
  <2>1. CASE Last(stack[t]).of = Main
    BY <1>3, <2>1, QuietSteps
  <2>2. CASE Last(stack[t]).of # Main
    <3>1. Completes(t, Last(stack[t]).of)
      BY <1>3, <2>2, FinishCompletes
    <3> QED
      BY <1>3, <3>1 DEF Completes
  <2> QED
    BY <2>1, <2>2
<1>4. ASSUME NEW f \in Calls, Answer(t, f) PROVE f \in Futures /\ Completes(t, f)
  BY <1>4, AnswerCompletes DEF Futures
<1> QED
  BY <1>1, <1>2, <1>3, <1>4 DEF Step

LEMMA StepPlaced ==
  ASSUME Typed, Entered, Placed, Waiting, NEW t \in Threads, Step(t) \/ Expire(t)
  PROVE  Placed'
<1>1. CASE Quiet
  BY <1>1, PlacedQuiet
<1>2. CASE Get(t)
  BY <1>2, PlacedGet
<1>3. CASE Stop(t)
  BY <1>3, PlacedStop
<1>4. ASSUME NEW f \in Futures, Completes(t, f) PROVE Placed'
  BY <1>4, PlacedCompletes
<1> QED
  BY <1>1, <1>2, <1>3, <1>4, Kinds

LEMMA WaitsRemain ==
  ASSUME NEW t \in Threads, Moves(t), WaitsStay(t)
  PROVE  \A u \in Threads, k \in Code : \A i \in Nat : FrameAt(u, i, "wait", k) => FrameAt(u, i, "wait", k)'
<1> SUFFICES ASSUME NEW u \in Threads, NEW k \in Code, NEW i \in Nat, FrameAt(u, i, "wait", k)
             PROVE  FrameAt(u, i, "wait", k)'
  OBVIOUS
<1>1. CASE u = t
  BY <1>1 DEF WaitsStay, FrameAt
<1>2. CASE u # t
  BY <1>2 DEF Moves, FrameAt
<1> QED
  BY <1>1, <1>2

(* The code of a continuation that appears on a stack had not run. *)
LEMMA StepBodies ==
  ASSUME Typed, NEW t \in Threads, Step(t) \/ Expire(t)
  PROVE  \A u \in Threads, k \in Code : \A i \in Nat :
           FrameAt(u, i, "body", k)' => FrameAt(u, i, "body", k) \/ (k # Main /\ k \notin ran)
<1>1. ASSUME Moves(t), Fallen(stack[t], stack'[t])
      PROVE  \A u \in Threads, k \in Code : \A i \in Nat :
               FrameAt(u, i, "body", k)' => FrameAt(u, i, "body", k)
  BY <1>1, FallenFrames
<1>2. ASSUME NEW c \in Conts, NEW l \in BOOLEAN, Moves(t), Risen(stack[t], stack'[t], Body(c, l)), Fresh(c)
      PROVE  \A u \in Threads, k \in Code : \A i \in Nat :
               FrameAt(u, i, "body", k)' => FrameAt(u, i, "body", k) \/ (k # Main /\ k \notin ran)
  <2>1. PICK b : b = Body(c, l)
    OBVIOUS
  <2>2. b.k = "body" /\ b.of = c /\ c # Main /\ c \notin ran
    BY <1>2, <2>1, Frames, NamesAssumption DEF Code, Fresh
  <2> QED
    BY <1>2, <2>1, <2>2, RisenFrames
<1>3. ASSUME NEW c \in Conts, Register(t, c) \/ Take(t, c) PROVE Moves(t) /\ Fallen(stack[t], stack'[t])
  BY <1>3, RegisterDoes, TakeDoes
<1>4. ASSUME NEW f \in Calls, Answer(t, f) PROVE Moves(t) /\ Fallen(stack[t], stack'[t])
  BY <1>4, AnswerDoes
<1>5. ASSUME Sleep(t) \/ Leave(t) \/ Expire(t) PROVE Moves(t) /\ Fallen(stack[t], stack'[t])
  BY <1>5, SleepDoes, LeaveDoes
<1>6. ASSUME Finish(t) \/ Stop(t) \/ Offer(t) PROVE Moves(t) /\ Fallen(stack[t], stack'[t])
  BY <1>6, FinishDoes, StopDoes, OfferDoes
<1>7. CASE Get(t)
  <2>1. PICK k, f : k = Last(stack[t]).of /\ f = Wait(k)
    OBVIOUS
  <2>2. Moves(t) /\ Risen(stack[t], stack'[t], f) /\ k \in Code
    BY <1>7, <2>1, GetDoes
  <2>3. f.k = "wait"
    BY <2>1, <2>2, Frames
  <2> QED
    BY <2>2, <2>3, RisenFrames
<1>8. CASE Poll(t)
  <2>1. PICK c : c = Head(queue)
    OBVIOUS
  <2>2. /\ Moves(t) /\ c \in Conts
        /\ (Fresh(c) /\ Risen(stack[t], stack'[t], Body(c, FALSE))) \/ Fallen(stack[t], stack'[t])
    BY <1>8, <2>1, PollDoes DEF Typed
  <2> QED
    BY <1>1, <1>2, <2>2
<1>9. CASE Inline(t)
  <2>1. PICK c : c = Next1(t).of
    OBVIOUS
  <2>2. /\ Moves(t) /\ c \in Conts
        /\ (Fresh(c) /\ Risen(stack[t], stack'[t], Body(c, TRUE))) \/ Fallen(stack[t], stack'[t])
    BY <1>9, <2>1, InlineDoes
  <2> QED
    BY <1>1, <1>2, <2>2
<1> QED
  BY <1>1, <1>3, <1>4, <1>5, <1>6, <1>7, <1>8, <1>9 DEF Step

(* A wait goes only when it is over, or throws. *)
LEMMA StepWaits ==
  ASSUME Typed, NEW t \in Threads, Step(t) \/ Expire(t)
  PROVE  \A u \in Threads, k \in Code : \A i \in Nat :
           FrameAt(u, i, "wait", k) =>
             FrameAt(u, i, "wait", k)' \/ (Leave(t) /\ k \in stopped) \/ (Expire(t) /\ k \in expired')
<1>1. CASE Leave(t) \/ Expire(t)
  <2>1. /\ At(t, "wait") /\ stack' = [stack EXCEPT ![t] = Front(@)]
        /\ (Leave(t) /\ Last(stack[t]).of \in stopped) \/ (Expire(t) /\ Last(stack[t]).of \in expired')
    BY <1>1 DEF Leave, Expire
  <2>2. PICK n \in Nat : n = Len(stack[t])
    BY <2>1, Tops
  <2>3. stack[t] \in Seq(Frame) /\ stack[t] # <<>> /\ DOMAIN stack[t] = 1 .. n
    BY <2>1, <2>2 DEF Typed, At, Idle
  <2>4. PICK r \in Seq(Frame) : r = Front(stack[t])
    BY <2>3, Fronts
  <2>5. Len(r) = n - 1 /\ (\A i \in 1 .. n - 1 : r[i] = stack[t][i]) /\ Last(stack[t]) = stack[t][n]
    BY <2>2, <2>3, <2>4, Fronts
  <2>6. DOMAIN r = 1 .. n - 1
    BY <2>4, <2>5
  <2>7. stack'[t] = r /\ \A u \in Threads \ {t} : stack'[u] = stack[u]
    BY <2>1, <2>4 DEF Typed
  <2>8. ASSUME NEW u \in Threads, NEW k \in Code, NEW i \in Nat, FrameAt(u, i, "wait", k)
        PROVE  \/ FrameAt(u, i, "wait", k)'
               \/ u = t /\ i = n /\ k = Last(stack[t]).of
    <3>1. CASE u # t
      BY <2>7, <2>8, <3>1 DEF FrameAt
    <3>2. CASE u = t /\ i = n
      BY <2>5, <2>8, <3>2 DEF FrameAt
    <3>3. CASE u = t /\ i # n
      <4>1. i \in 1 .. n - 1
        BY <2>3, <2>8, <3>3 DEF FrameAt
      <4> QED
        BY <2>5, <2>6, <2>7, <2>8, <3>3, <4>1 DEF FrameAt
    <3> QED
      BY <3>1, <3>2, <3>3
  <2> QED
    BY <2>1, <2>8
<1>2. ASSUME NEW c \in Conts, Register(t, c) \/ Take(t, c) PROVE Moves(t) /\ WaitsStay(t)
  BY <1>2, RegisterDoes, TakeDoes
<1>3. ASSUME NEW f \in Calls, Answer(t, f) PROVE Moves(t) /\ WaitsStay(t)
  BY <1>3, AnswerDoes
<1>4. ASSUME Sleep(t) \/ Finish(t) \/ Stop(t) \/ Offer(t) PROVE Moves(t) /\ WaitsStay(t)
  BY <1>4, SleepDoes, FinishDoes, StopDoes, OfferDoes
<1>5. ASSUME Get(t) \/ Poll(t) \/ Inline(t) PROVE Moves(t) /\ WaitsStay(t)
  BY <1>5, GetDoes, PollDoes, InlineDoes
<1> QED
  BY <1>1, <1>2, <1>3, <1>4, <1>5, WaitsRemain DEF Step

LEMMA PendingNext ==
  ASSUME NEW k
  PROVE  Pending(k)' <=> Waits[k] \in Futures \ done' /\ In(listeners'[Waits[k]], StopOf(k))
BY DEF Pending, In

LEMMA StepWaiting ==
  ASSUME Typed, Entered, Placed, Waiting, NEW t \in Threads, Step(t) \/ Expire(t)
  PROVE  Waiting'
<1>1. \A u \in Threads, k \in Code : \A i \in Nat :
        FrameAt(u, i, "body", k)' => FrameAt(u, i, "body", k) \/ (k # Main /\ k \notin ran)
  BY StepBodies
<1>2. \A u \in Threads, k \in Code : \A i \in Nat :
        FrameAt(u, i, "wait", k) =>
          FrameAt(u, i, "wait", k)' \/ (Leave(t) /\ k \in stopped) \/ (Expire(t) /\ k \in expired')
  BY StepWaits
<1>3. expired \subseteq expired' /\ (Leave(t) => done' = done)
  BY DEF Step, Register, Take, Answer, Get, Sleep, Poll, Leave, Finish, Stop, Inline, Offer, Expire
<1>4. \A k \in Code : Pending(k) => k = Main \/ k \in ran
  BY DEF Pending, Placed
<1>5. \A k \in Code : Leave(t) /\ k \in stopped => ~ Pending(k)'
  BY <1>3 DEF Pending, Placed
<1>6. CASE \A k \in Code : Pending(k)' => Pending(k)
  <2> SUFFICES ASSUME NEW k \in Code, NEW u \in Threads, NEW i \in Nat,
                      FrameAt(u, i, "body", k)', k \notin expired', Pending(k)'
               PROVE  FrameAt(u, i + 1, "wait", k)'
    BY DEF Waiting
  <2>1. FrameAt(u, i, "body", k) /\ k \notin expired /\ Pending(k) /\ i + 1 \in Nat
    BY <1>1, <1>3, <1>4, <1>6
  <2>2. FrameAt(u, i + 1, "wait", k)
    BY <2>1 DEF Waiting
  <2> QED
    BY <1>2, <1>5, <2>1, <2>2
<1>7. CASE Get(t)
  <2>0. PICK c, n, f : c = Last(stack[t]).of /\ n = Len(stack[t]) /\ f = Wait(c)
    OBVIOUS
  <2>1. /\ c \in Code /\ done' = done
        /\ \A g \in Futures, m \in Code :
             In(listeners'[g], StopOf(m)) <=> In(listeners[g], StopOf(m)) \/ (g = Waits[c] /\ m = c)
    BY <1>7, <2>0, PlacedGet DEF Get
  <2>2. FrameAt(t, n, "body", c) /\ n \in Nat
    BY <1>7, <2>0, Tops DEF Get, FrameAt
  <2>3. \A m \in Code : Pending(m)' => Pending(m) \/ m = c
    BY <2>1, PendingNext DEF Pending
  <2>4. Risen(stack[t], stack'[t], f) /\ Moves(t)
    BY <1>7, <2>0, GetDoes
  <2>5. f.k = "wait" /\ f.of = c
    BY <2>0, <2>1, Frames
  <2>6. FrameAt(t, n + 1, "wait", c)'
    <3>1. n + 1 \in DOMAIN stack'[t] /\ stack'[t][n + 1] = f
      BY <2>0, <2>2, <2>4 DEF Risen, Moves
    <3> QED
      BY <2>5, <3>1 DEF FrameAt
  <2>7. \A u \in Threads, k \in Code : \A i \in Nat : FrameAt(u, i, "body", k)' => FrameAt(u, i, "body", k)
    BY <2>4, <2>5, RisenFrames
  <2> SUFFICES ASSUME NEW k \in Code, NEW u \in Threads, NEW i \in Nat,
                      FrameAt(u, i, "body", k)', k \notin expired', Pending(k)'
               PROVE  FrameAt(u, i + 1, "wait", k)'
    BY DEF Waiting
  <2>8. CASE k = c
    <3>1. u = t /\ i = n
      BY <2>2, <2>7, <2>8 DEF Entered
    <3> QED
      BY <2>6, <2>8, <3>1
  <2>9. CASE k # c
    <3>1. FrameAt(u, i + 1, "wait", k) /\ i + 1 \in Nat
      BY <1>3, <2>3, <2>7, <2>9 DEF Waiting
    <3> QED
      BY <1>2, <1>5, <3>1
  <2> QED
    BY <2>8, <2>9
<1>8. CASE Quiet
  <2>1. \A k \in Code : Pending(k)' => Pending(k)
    BY <1>8, PendingNext DEF Quiet, Pending
  <2> QED
    BY <1>6, <2>1
<1>9. ASSUME NEW f, Completes(t, f) PROVE Waiting'
  <2>1. \A k \in Code : Pending(k)' => Pending(k)
    BY <1>9, PendingNext DEF Completes, Pending
  <2> QED
    BY <1>6, <2>1
<1>10. CASE Stop(t)
  <2>1. \A k \in Code : Pending(k)' => Pending(k)
    BY <1>10, PendingNext DEF Stop, Pending
  <2> QED
    BY <1>6, <2>1
<1> QED
  BY <1>7, <1>8, <1>9, <1>10, Kinds

LEMMA CountedNext ==
  Counted' = {k \in Code : \/ Waits[k] \in Futures \ done' /\ In(listeners'[Waits[k]], StopOf(k))
                           \/ Owes(StopOf(k))'}
BY PendingNext DEF Counted

(* nestedLevel counts the get()s: start() adds one, stop() takes it away. *)
LEMMA StepCounted ==
  ASSUME Typed, Entered, Placed, Waiting, NEW t \in Threads, Step(t) \/ Expire(t)
  PROVE  \/ Counted' = Counted /\ nested' = nested
         \/ /\ Get(t) /\ Last(stack[t]).of \in Code \ Counted /\ nested' = nested + 1
            /\ Counted' = Counted \cup {Last(stack[t]).of}
         \/ /\ Stop(t) /\ Next1(t).of \in Counted /\ nested' = nested - 1
            /\ Counted' = Counted \ {Next1(t).of}
<1>1. CASE Quiet
  BY <1>1, CountedNext DEF Quiet, Counted, Pending
<1>2. ASSUME NEW f, Completes(t, f) PROVE Counted' = Counted /\ nested' = nested
  <2>1. \A k \in Code : Owes(StopOf(k))' <=> Owes(StopOf(k)) \/ In(listeners[f], StopOf(k))
    BY <1>2, PlacedCompletes
  <2>2. /\ f \in Futures \ done /\ done' = done \cup {f} /\ listeners' = listeners /\ nested' = nested
        /\ \A k \in Code : In(listeners[f], StopOf(k)) => f = Waits[k]
    BY <1>2 DEF Completes, Placed
  <2> QED
    BY <2>1, <2>2, CountedNext DEF Counted, Pending
<1>3. CASE Get(t)
  <2>0. PICK k : k = Last(stack[t]).of
    OBVIOUS
  <2>1. /\ k \in Code /\ Waits[k] \in Futures \ done /\ done' = done /\ nested' = nested + 1
        /\ \A m \in Code : Owes(StopOf(m))' <=> Owes(StopOf(m))
        /\ \A g \in Futures, m \in Code :
             In(listeners'[g], StopOf(m)) <=> In(listeners[g], StopOf(m)) \/ (g = Waits[k] /\ m = k)
    BY <1>3, <2>0, PlacedGet DEF Get, Deeper
  <2>2. k \notin Counted
    BY <1>3, <2>0, <2>1, GetFresh DEF Counted, Placed
  <2>3. Counted' = Counted \cup {k}
    BY <2>1, CountedNext DEF Counted, Pending
  <2> QED
    BY <1>3, <2>0, <2>1, <2>2, <2>3
<1>4. CASE Stop(t)
  <2>0. PICK k : k = Next1(t).of
    OBVIOUS
  <2>1. /\ k \in Code /\ Owes(StopOf(k)) /\ Waits[k] \in done /\ done' = done /\ listeners' = listeners
        /\ nested' = nested - 1
        /\ \A m \in Code : Owes(StopOf(m))' <=> Owes(StopOf(m)) /\ m # k
    BY <1>4, <2>0, PlacedStop DEF Stop
  <2>2. k \in Counted /\ Counted' = Counted \ {k}
    BY <2>1, CountedNext DEF Counted, Pending
  <2> QED
    BY <1>4, <2>0, <2>1, <2>2
<1> QED
  BY <1>1, <1>2, <1>3, <1>4, Kinds

LEMMA StepCounts ==
  ASSUME Typed, Entered, Placed, Waiting, Counts, NEW t \in Threads, Step(t) \/ Expire(t)
  PROVE  Counts'
<1>1. CASE Counted' = Counted /\ nested' = nested
  BY <1>1 DEF Counts
<1>2. ASSUME NEW k, k \notin Counted, nested' = nested + 1, Counted' = Counted \cup {k} PROVE Counts'
  <2>1. IsFiniteSet(Counted \cup {k}) /\ Cardinality(Counted \cup {k}) = Cardinality(Counted) + 1
    BY <1>2, FS_AddElement DEF Counts
  <2> QED
    BY <1>2, <2>1 DEF Counts
<1>3. ASSUME NEW k, k \in Counted, nested' = nested - 1, Counted' = Counted \ {k} PROVE Counts'
  <2>1. IsFiniteSet(Counted \ {k}) /\ Cardinality(Counted \ {k}) = Cardinality(Counted) - 1
    BY <1>3, FS_RemoveElement DEF Counts
  <2> QED
    BY <1>3, <2>1 DEF Counts
<1> QED
  BY <1>1, <1>2, <1>3, StepCounted

Gets == Placed /\ Waiting /\ Counts

LEMMA GetsHold == Spec => [](Basics /\ Gets)
<1>1. Init => Gets
  <2> SUFFICES ASSUME Init PROVE Gets
    OBVIOUS
  <2>1. \A f \in Futures : listeners[f] = <<>> /\ DOMAIN listeners[f] = {}
    BY DEF Init
  <2>2. \A u \in Threads : \A i \in Nat : Owed(stack[u], i) = <<>> /\ DOMAIN Owed(stack[u], i) = {}
    <3>1. PICK b : b = Body(Main, FALSE)
      OBVIOUS
    <3>2. b.k = "body"
      BY <3>1, Frames DEF Code
    <3>3. DOMAIN <<b>> = {1} /\ <<b>>[1] = b
      OBVIOUS
    <3>4. \A u \in Threads : stack[u] = <<>> \/ stack[u] = <<b>>
      BY <3>1 DEF Init
    <3> QED
      BY <3>2, <3>3, <3>4 DEF Owed
  <2>3. \A k : ~ Owes(StopOf(k))
    BY <2>2 DEF Owes, In
  <2>4. \A f \in Futures, k \in Code : ~ In(listeners[f], StopOf(k))
    BY <2>1 DEF In
  <2>5. Placed
    <3>1. Unique
      BY <2>2 DEF Unique, OwedAt
    <3>2. \A f \in Futures : Single(listeners[f])
      BY <2>1 DEF Single
    <3> QED
      BY <2>3, <2>4, <3>1, <3>2 DEF Placed, Init
  <2>6. Counted = {} /\ \A k \in Code : ~ Pending(k)
    BY <2>3, <2>4 DEF Counted, Pending
  <2>7. IsFiniteSet({}) /\ Cardinality({}) = 0
    BY FS_EmptySet
  <2> QED
    BY <2>5, <2>6, <2>7 DEF Gets, Waiting, Counts, Init
<1>2. Basics /\ Gets /\ [Next]_vars => Gets'
  <2> SUFFICES ASSUME Basics, Gets, [Next]_vars PROVE Gets'
    OBVIOUS
  <2>1. CASE Next
    <3>1. PICK t \in Threads : Step(t) \/ Expire(t)
      BY <2>1 DEF Next
    <3> QED
      BY <3>1, StepPlaced, StepWaiting, StepCounts DEF Basics, Gets
  <2>2. CASE UNCHANGED vars
    <3>1. \A k \in Code : Pending(k)' <=> Pending(k)
      BY <2>2 DEF vars, Pending, In
    <3>2. \A k \in Code : Owes(StopOf(k))' <=> Owes(StopOf(k))
      BY <2>2 DEF vars, Owes, Owed, In
    <3>3. Counted' = Counted /\ nested' = nested
      BY <2>2, <3>1, <3>2 DEF Counted, vars, looper
    <3>4. Placed'
      BY <2>2 DEF vars, looper, Gets, Placed, Unique, OwedAt, Owed, Single, In, Owes
    <3>5. Waiting'
      BY <2>2, <3>1 DEF vars, Gets, Waiting, FrameAt
    <3> QED
      BY <3>3, <3>4, <3>5 DEF Gets, Counts
  <2> QED
    BY <2>1, <2>2
<1> QED
  BY <1>1, <1>2, BasicsHold, PTL DEF Spec

(* Every variable keeps its type, and nestedLevel, which each get() raises and
   each completed one lowers, never goes below zero: no stop() comes twice.  *)
THEOREM TypesHold == Spec => []TypeOK
<1>1. Basics /\ Gets => TypeOK
  <2> SUFFICES ASSUME Basics, Gets PROVE TypeOK
    OBVIOUS
  <2>1. nested \in Nat
    BY FS_CardinalityType DEF Gets, Counts
  <2> QED
    BY <2>1 DEF Basics, Typed, TypeOK
<1> QED
  BY <1>1, GetsHold, PTL

(* The continuations that are to run, when no wait throws. *)
Listening == \A c \in registered \ ran : On[c] \notin done => In(listeners[On[c]], RunOf(c))
Reached ==
  \A c \in registered \ ran : On[c] \in done =>
    Owes(RunOf(c)) \/ c \in pool \/ (In(queue, c) /\ InLoop)
Looping == \A k \in Counted : \E u \in Threads : \E i \in Nat : FrameAt(u, i, "wait", k)

LEMMA StepLooping ==
  ASSUME Slow = FALSE, Typed, Entered, Placed, Waiting, Looping, NEW t \in Threads, Step(t) \/ Expire(t)
  PROVE  Looping'
<1>1. ~ Expire(t)
  BY DEF Expire, TimedOut
<1>2. \A k \in Counted \cap stopped : FALSE
  BY DEF Counted, Pending, Placed
<1>3. \A k \in Counted : \E u \in Threads : \E i \in Nat : FrameAt(u, i, "wait", k)'
  BY <1>1, <1>2, StepWaits DEF Looping, Counted
<1>4. CASE Counted' \subseteq Counted
  BY <1>3, <1>4 DEF Looping
<1>5. CASE Get(t) /\ Counted' = Counted \cup {Last(stack[t]).of}
  <2>0. PICK c, n, f : c = Last(stack[t]).of /\ n = Len(stack[t]) /\ f = Wait(c)
    OBVIOUS
  <2>1. Risen(stack[t], stack'[t], f) /\ Moves(t) /\ c \in Code /\ n \in Nat
    BY <1>5, <2>0, GetDoes DEF Typed
  <2>2. f.k = "wait" /\ f.of = c
    BY <2>0, <2>1, Frames
  <2>3. n + 1 \in DOMAIN stack'[t] /\ stack'[t][n + 1] = f
    BY <2>0, <2>1 DEF Risen, Moves
  <2>4. FrameAt(t, n + 1, "wait", c)' /\ n + 1 \in Nat
    BY <2>1, <2>2, <2>3 DEF FrameAt
  <2> QED
    BY <1>3, <1>5, <2>0, <2>4 DEF Looping
<1> QED
  BY <1>4, <1>5, StepCounted

LEMMA LoopingInLoop ==
  ASSUME Typed, Counts, Looping, ~ NoneWaiting
  PROVE  InLoop
<1>1. Counted # {}
  BY FS_EmptySet DEF Counts, NoneWaiting
<1> QED
  BY <1>1 DEF Looping, InLoop, FrameAt

LEMMA InLoopStays ==
  ASSUME Slow = FALSE, Typed, InLoop, NEW t \in Threads, Step(t), ~ Leave(t)
  PROVE  InLoop'
<1>0. PICK u \in Threads : \E i \in DOMAIN stack[u] : stack[u][i].k = "wait"
  BY DEF InLoop
<1>1. PICK i \in DOMAIN stack[u] : stack[u][i].k = "wait"
  BY <1>0
<1>2. PICK k \in Code : FrameAt(u, i, "wait", k) /\ i \in Nat
  <2>1. stack[u] \in Seq(Frame)
    BY DEF Typed
  <2>2. stack[u][i] \in Frame /\ i \in Nat
    BY <2>1
  <2>3. stack[u][i].of \in Code
    BY <1>1, <2>2, FrameTypes
  <2> QED
    BY <1>1, <2>2, <2>3 DEF FrameAt
<1>3. FrameAt(u, i, "wait", k)'
  <2>1. ~ Expire(t)
    BY DEF Expire, TimedOut
  <2> QED
    BY <1>2, <2>1, StepWaits
<1> QED
  BY <1>3 DEF FrameAt, InLoop

LEMMA StepListening ==
  ASSUME Typed, Listening, NEW t \in Threads, Step(t) \/ Expire(t)
  PROVE  Listening'
<1> SUFFICES ASSUME NEW c \in Conts, c \in registered', c \notin ran', On[c] \notin done'
             PROVE  In(listeners'[On[c]], RunOf(c))
  <2>1. registered' \subseteq Conts => \A c \in registered' \ ran' : c \in Conts
    OBVIOUS
  <2>2. registered' \subseteq Conts
    BY DEF Typed, Step, Register, Take, Answer, Get, Sleep, Poll, Leave, Finish, Stop, Inline, Offer, Expire
  <2> QED
    BY <2>2 DEF Listening, In
<1>0. PICK g \in Futures, y \in Listener : g = On[c] /\ y = RunOf(c)
  BY ProgramAssumption, Listeners
<1>1. ASSUME NEW d \in Conts, Register(t, d) PROVE In(listeners'[g], y)
  <2>1. CASE On[d] \in done
    <3>1. listeners' = listeners /\ c # d /\ c \in registered \ ran /\ On[c] \notin done
      BY <1>0, <1>1, <2>1, RegisterDoes DEF Register
    <3> QED
      BY <1>0, <3>1 DEF Listening
  <2>2. CASE On[d] \notin done
    <3>1. PICK f \in Futures, x \in Listener : f = On[d] /\ x = RunOf(d)
      BY ProgramAssumption, Listeners
    <3>2. /\ listeners' = [listeners EXCEPT ![f] = Append(@, x)] /\ On[c] \notin done
          /\ c = d \/ c \in registered \ ran
      BY <1>1, <2>2, <3>1, RegisterDoes DEF Register
    <3>3. In(listeners'[g], y) <=> In(listeners[g], y) \/ (g = f /\ y = x)
      BY <3>2, ListenersTyped
    <3> QED
      BY <1>0, <3>1, <3>2, <3>3 DEF Listening
  <2> QED
    BY <2>1, <2>2
<1>2. CASE Get(t)
  <2>1. PICK f \in Futures, x \in Listener : f = Waits[Last(stack[t]).of] /\ x = StopOf(Last(stack[t]).of)
    BY <1>2, GetDoes, Listeners DEF Get
  <2>2. listeners' = [listeners EXCEPT ![f] = Append(@, x)] /\ On[c] \notin done /\ c \in registered \ ran
    BY <1>2, <2>1 DEF Get
  <2>3. In(listeners[g], y) => In(listeners'[g], y)
    BY <2>2, ListenersTyped
  <2> QED
    BY <1>0, <2>2, <2>3 DEF Listening
<1>3. ASSUME UNCHANGED <<listeners, registered>>, done \subseteq done', ran \subseteq ran'
      PROVE  In(listeners'[On[c]], RunOf(c))
  BY <1>3 DEF Listening
<1>4. CASE Poll(t) \/ Inline(t)
  <2>1. ran \subseteq ran'
    BY <1>4, PollDoes, InlineDoes
  <2> QED
    BY <1>3, <1>4, <2>1 DEF Poll, Inline
<1>5. CASE Sleep(t) \/ Leave(t) \/ Expire(t) \/ Finish(t) \/ Stop(t) \/ Offer(t)
           \/ (\E d \in Conts : Take(t, d)) \/ \E f \in Calls : Answer(t, f)
  BY <1>3, <1>5 DEF Sleep, Leave, Expire, Finish, Stop, Offer, Take, Answer
<1> QED
  BY <1>0, <1>1, <1>2, <1>4, <1>5 DEF Step

(* A pool that could hold every continuation drops none. *)
LEMMA PoolHasRoom ==
  ASSUME Typed, IsFiniteSet(Conts), Cardinality(Conts) < QueueLimit
  PROVE  Cardinality(pool) < QueueLimit
<1>1. pool \subseteq Conts
  BY DEF Typed
<1>2. IsFiniteSet(pool) /\ Cardinality(pool) <= Cardinality(Conts)
  BY <1>1, FS_Subset
<1>3. Cardinality(pool) \in Nat /\ Cardinality(Conts) \in Nat /\ QueueLimit \in Nat
  BY <1>2, FS_CardinalityType, BoundsAssumption
<1> QED
  BY <1>2, <1>3

LEMMA StepReached ==
  ASSUME Slow = FALSE, IsFiniteSet(Conts), Cardinality(Conts) < QueueLimit,
         Typed, Known, Entered, Gets, Looping, Listening, Reached, NEW t \in Threads, Step(t)
  PROVE  Reached'
<1>0. \A c \in Conts : RunOf(c) \in Listener
  BY Listeners
<1> SUFFICES ASSUME NEW c \in Conts, c \in registered', c \notin ran', On[c] \in done'
             PROVE  Owes(RunOf(c))' \/ c \in pool' \/ (In(queue', c) /\ InLoop')
  <2>1. registered' \subseteq Conts
    BY DEF Typed, Step, Register, Take, Answer, Get, Sleep, Poll, Leave, Finish, Stop, Inline, Offer
  <2> QED
    BY <2>1 DEF Reached, In
<1> DEFINE There == Owes(RunOf(c)) \/ c \in pool \/ (In(queue, c) /\ InLoop)
<1>1. c \in registered /\ c \notin ran /\ On[c] \in done => There
  BY DEF Reached
<1>2. InLoop => InLoop' \/ Leave(t)
  BY InLoopStays
<1> HIDE DEF There
(* The code that registers it finds its future done. *)
<1>3. ASSUME NEW d \in Conts, Register(t, d)
      PROVE  Owes(RunOf(c))' \/ c \in pool' \/ (In(queue', c) /\ InLoop')
  <2>1. UNCHANGED <<done, ran, queue, pool>> /\ ~ Leave(t)
    BY <1>3 DEF Register, looper, Leave, At
  <2>2. Owes(RunOf(c)) => Owes(RunOf(c))'
    BY <1>3, RegisterDoes, AddsOwes, SameOwes
  <2>3. CASE c = d
    <3>1. Adds(t, <<RunOf(c)>>)
      BY <1>3, <2>1, <2>3, RegisterDoes
    <3>2. In(<<RunOf(c)>>, RunOf(c))
      BY <1>0, InSingle
    <3> QED
      BY <3>1, <3>2, AddsOwes
  <2>4. CASE c # d
    <3>1. There
      BY <1>1, <1>3, <2>1, <2>4 DEF Register
    <3> QED
      BY <1>2, <2>1, <2>2, <3>1 DEF There
  <2> QED
    BY <2>3, <2>4
<1>4. ASSUME NEW d \in Conts, Take(t, d)
      PROVE  Owes(RunOf(c))' \/ c \in pool' \/ (In(queue', c) /\ InLoop')
  <2>1. /\ UNCHANGED <<registered, done, ran, queue>> /\ pool' = pool \ {d} /\ ~ Leave(t)
        /\ Adds(t, <<RunOf(d)>>)
    BY <1>4, TakeDoes DEF Take, looper, Leave, At
  <2>2. In(<<RunOf(d)>>, RunOf(d))
    BY <1>0, InSingle
  <2>3. Owes(RunOf(d))' /\ (Owes(RunOf(c)) => Owes(RunOf(c))')
    BY <2>1, <2>2, AddsOwes
  <2> QED
    BY <1>1, <1>2, <2>1, <2>3 DEF There
(* A future is completed: the thread owes its listeners. *)
<1>5. ASSUME NEW f \in Futures, Completes(t, f), UNCHANGED <<registered, queue, pool>>, ~ Leave(t)
      PROVE  Owes(RunOf(c))' \/ c \in pool' \/ (In(queue', c) /\ InLoop')
  <2>1. Owes(RunOf(c))' <=> Owes(RunOf(c)) \/ In(listeners[f], RunOf(c))
    BY <1>5, AddsOwes DEF Completes
  <2>2. CASE On[c] \in done
    BY <1>1, <1>2, <1>5, <2>1, <2>2 DEF There, Completes
  <2>3. CASE On[c] \notin done
    BY <1>5, <2>1, <2>3 DEF Listening, Completes
  <2> QED
    BY <2>2, <2>3
<1>6. ASSUME NEW f \in Calls, Answer(t, f)
      PROVE  Owes(RunOf(c))' \/ c \in pool' \/ (In(queue', c) /\ InLoop')
  <2>1. f \in Futures /\ Completes(t, f) /\ UNCHANGED <<registered, queue, pool>> /\ ~ Leave(t)
    BY <1>6, AnswerCompletes DEF Answer, looper, Futures, Leave, At
  <2> QED
    BY <1>5, <2>1
<1>7. CASE Finish(t)
  <2>1. UNCHANGED <<registered, ran, queue, pool>> /\ ~ Leave(t)
    BY <1>7 DEF Finish, looper, Leave, At
  <2>2. CASE Last(stack[t]).of = Main
    <3>1. done' = done /\ (Owes(RunOf(c))' <=> Owes(RunOf(c)))
      BY <1>7, <2>2, FinishDoes, SameOwes DEF Finish
    <3> QED
      BY <1>1, <1>2, <2>1, <3>1 DEF There
  <2>3. CASE Last(stack[t]).of # Main
    <3>1. PICK f : f = Last(stack[t]).of
      OBVIOUS
    <3>2. Completes(t, f) /\ f \in Futures
      BY <1>7, <2>3, <3>1, FinishCompletes DEF Completes
    <3> QED
      BY <1>5, <2>1, <3>2
  <2> QED
    BY <2>2, <2>3
<1>8. CASE Get(t) \/ Sleep(t)
  <2>1. UNCHANGED <<registered, done, ran, queue, pool>> /\ ~ Leave(t)
    BY <1>8 DEF Get, Sleep, Leave, At
  <2>2. Owes(RunOf(c))' <=> Owes(RunOf(c))
    BY <1>8, GetDoes, SleepDoes, SameOwes
  <2> QED
    BY <1>1, <1>2, <2>1, <2>2 DEF There
<1>9. CASE Poll(t)
  <2>1. /\ UNCHANGED <<registered, done, pool>> /\ ~ Leave(t) /\ queue' = Tail(queue) /\ queue # <<>>
        /\ ran \subseteq ran' /\ Head(queue) \in ran'
    BY <1>9, PollDoes DEF Poll, Leave, Fresh
  <2>2. Owes(RunOf(c))' <=> Owes(RunOf(c))
    BY <1>9, PollDoes, SameOwes
  <2>3. In(queue, c) => In(queue', c)
    <3>1. Head(queue) = queue[1] /\ (In(queue, c) => c = queue[1] \/ In(Tail(queue), c))
      BY <2>1, InTail, TailOnce DEF Typed
    <3> QED
      BY <2>1, <3>1
  <2> QED
    BY <1>1, <1>2, <2>1, <2>2, <2>3 DEF There
<1>10. CASE Leave(t)
  <2>1. UNCHANGED <<registered, done, ran, queue, pool>> /\ queue = <<>>
    BY <1>10 DEF Leave, looper
  <2>2. Owes(RunOf(c))' <=> Owes(RunOf(c))
    BY <1>10, LeaveDoes, SameOwes
  <2> QED
    BY <1>1, <2>1, <2>2 DEF There, In
<1>11. CASE Stop(t)
  <2>1. UNCHANGED <<registered, done, ran, queue, pool>> /\ ~ Leave(t)
    BY <1>11 DEF Stop, Leave, At
  <2>2. PICK k : k = Next1(t).of
    OBVIOUS
  <2>3. k \in Code /\ Drops(t, StopOf(k))
    BY <1>11, <2>2, StopDoes
  <2>4. Owes(RunOf(c)) => Owes(RunOf(c))'
    <3>1. RunOf(c) # StopOf(k)
      BY <2>3, SingleRun
    <3> QED
      BY <2>3, <3>1, DropsOwes
  <2> QED
    BY <1>1, <1>2, <2>1, <2>4 DEF There
<1>12. CASE Inline(t)
  <2>1. UNCHANGED <<registered, done, queue, pool>> /\ ~ Leave(t)
    BY <1>12 DEF Inline, looper, Leave, At
  <2>2. PICK d : d = Next1(t).of
    OBVIOUS
  <2>3. Drops(t, RunOf(d)) /\ d \in ran' /\ ran \subseteq ran' /\ d \in Conts
    BY <1>12, <2>2, InlineDoes DEF Fresh
  <2>4. Owes(RunOf(c)) => Owes(RunOf(c))'
    <3>1. RunOf(c) # RunOf(d)
      BY <2>3, Listeners
    <3> QED
      BY <2>3, <3>1, DropsOwes
  <2> QED
    BY <1>1, <1>2, <2>1, <2>3, <2>4 DEF There
(* The looper has it, and if no get() is in progress so has the pool. *)
<1>13. CASE Offer(t)
  <2>1. PICK d : d = Next1(t).of
    OBVIOUS
  <2>2. /\ UNCHANGED <<registered, done, ran>> /\ ~ Leave(t) /\ queue' = Append(Pruned, d)
        /\ d \in Conts /\ Drops(t, RunOf(d)) /\ pool \subseteq pool' /\ (NoneWaiting => d \in pool')
    BY <1>13, <2>1, OfferDoes, PoolHasRoom DEF Offer, Leave, At
  <2>3. Owes(RunOf(d)) /\ (c # d /\ Owes(RunOf(c)) => Owes(RunOf(c))')
    <3>1. c # d => RunOf(c) # RunOf(d)
      BY <2>2, Listeners
    <3> QED
      BY <2>2, <3>1, DropsOwes
  <2>4. d \in registered
    BY <2>2, <2>3 DEF Known
  <2>5. /\ In(queue', d)
        /\ In(queue, c) => In(queue', c)
    BY <2>2, <2>4, PrunedKeeps, InAppend
  <2>6. CASE c = d
    BY <1>2, <2>2, <2>5, <2>6, LoopingInLoop DEF Gets
  <2>7. CASE c # d
    BY <1>1, <1>2, <2>2, <2>3, <2>5, <2>7 DEF There
  <2> QED
    BY <2>6, <2>7
<1> QED
  BY <1>3, <1>4, <1>6, <1>7, <1>8, <1>9, <1>10, <1>11, <1>12, <1>13 DEF Step

Deliveries == Listening /\ Reached /\ Looping

LEMMA DeliveriesHold ==
  ASSUME Slow = FALSE, IsFiniteSet(Conts), Cardinality(Conts) < QueueLimit
  PROVE  Spec => []Deliveries
<1>1. Init /\ Gets => Deliveries
  <2> SUFFICES ASSUME Init, Gets PROVE Deliveries
    OBVIOUS
  <2>1. registered = {} /\ nested = 0
    BY DEF Init
  <2>2. Counted = {}
    BY <2>1, FS_EmptySet DEF Gets, Counts
  <2> QED
    BY <2>1, <2>2 DEF Deliveries, Listening, Reached, Looping
<1>2. Basics /\ Gets /\ Deliveries /\ [Next]_vars => Deliveries'
  <2> SUFFICES ASSUME Basics, Gets, Deliveries, [Next]_vars PROVE Deliveries'
    OBVIOUS
  <2>1. CASE Next
    <3>1. PICK t \in Threads : Step(t)
      BY <2>1 DEF Next, Expire, TimedOut
    <3> QED
      BY <3>1, StepListening, StepReached, StepLooping DEF Basics, Gets, Deliveries
  <2>2. CASE UNCHANGED vars
    <3>1. \A x : Owes(x)' <=> Owes(x)
      BY <2>2 DEF vars, Owes, Owed, In
    <3>2. Counted' = Counted
      BY <2>2, <3>1, CountedNext DEF Counted, Pending, vars
    <3>3. Listening'
      BY <2>2 DEF vars, Deliveries, Listening, In
    <3>4. Looping'
      BY <2>2, <3>2 DEF vars, Deliveries, Looping, FrameAt
    <3>5. Reached'
      BY <2>2, <3>1 DEF vars, looper, Deliveries, Reached, InLoop, In
    <3> QED
      BY <3>3, <3>4, <3>5 DEF Deliveries
  <2> QED
    BY <2>1, <2>2
<1> QED
  BY <1>1, <1>2, GetsHold, PTL DEF Spec

(* When no wait throws and the pool has room, no continuation is lost between
   the future it listens to, the pool, the looper and the threads.          *)
THEOREM NothingStranded ==
  ASSUME Slow = FALSE, IsFiniteSet(Conts), Cardinality(Conts) < QueueLimit
  PROVE  Spec => []NeverStranded
<1>1. Basics /\ Deliveries => NeverStranded
  <2> SUFFICES ASSUME Basics, Deliveries, NEW c \in registered \ ran, On[c] \in done,
                      c \notin pool, ~ (c \in ToSet(queue) /\ InLoop)
               PROVE  \E t \in Threads : \E i \in DOMAIN stack[t] :
                        stack[t][i].k = "fire" /\ RunOf(c) \in ToSet(stack[t][i].q)
    BY DEF NeverStranded
  <2>1. In(queue, c) <=> c \in ToSet(queue)
    BY DEF In, ToSet, Basics, Typed
  <2>2. Owes(RunOf(c))
    BY <2>1 DEF Deliveries, Reached
  <2>3. PICK u \in Threads : \E i \in Nat : In(Owed(stack[u], i), RunOf(c))
    BY <2>2 DEF Owes
  <2>4. PICK i \in Nat : In(Owed(stack[u], i), RunOf(c))
    BY <2>3
  <2>5. i \in DOMAIN stack[u] /\ stack[u][i].k = "fire" /\ In(stack[u][i].q, RunOf(c))
    BY <2>4 DEF Owed, In
  <2>6. stack[u][i].q \in Seq(Listener)
    <3>1. stack[u] \in Seq(Frame)
      BY DEF Basics, Typed
    <3>2. stack[u][i] \in Frame
      BY <2>5, <3>1
    <3> QED
      BY <2>5, <3>2, FrameTypes
  <2>7. RunOf(c) \in ToSet(stack[u][i].q)
    BY <2>5, <2>6 DEF In, ToSet
  <2> QED
    BY <2>5, <2>7
<1> QED
  BY <1>1, BasicsHold, DeliveriesHold, PTL
-----------------------------------------------------------------------------
(* What is left when all is quiet.                                         *)

(* The body of k is somewhere on a stack. *)
Underway(k) == \E u \in Threads : \E i \in Nat : FrameAt(u, i, "body", k)

(* Code that has been entered is on a stack until it has ended, and ends with
   all it has to register registered.                                       *)
Carried ==
  \A k \in Code : k = Main \/ k \in ran =>
    Underway(k) \/ (Registered(k) /\ (k # Main => k \in done))

(* A continuation listens to what was there before it. *)
Rooted ==
  /\ \A c \in registered : On[c] \in registered \cup Calls
  /\ \A S \in SUBSET registered : S # {} => \E c \in S : On[c] \notin S

(* A body goes only when it returns. *)
LEMMA BodiesRemain ==
  ASSUME Typed, NEW t \in Threads, Step(t) \/ Expire(t), NEW k \in Code, Underway(k)
  PROVE  Underway(k)' \/ (Finish(t) /\ k = Last(stack[t]).of)
<1>0. PICK u \in Threads : \E i \in Nat : FrameAt(u, i, "body", k)
  BY DEF Underway
<1>1. PICK i \in Nat : FrameAt(u, i, "body", k)
  BY <1>0
<1>2. Moves(t)
  <2>1. ASSUME NEW c \in Conts, Register(t, c) \/ Take(t, c) PROVE Moves(t)
    BY <2>1, RegisterDoes, TakeDoes
  <2>2. ASSUME NEW f \in Calls, Answer(t, f) PROVE Moves(t)
    BY <2>2, AnswerDoes
  <2>3. CASE Sleep(t) \/ Finish(t) \/ Stop(t) \/ Offer(t)
    BY <2>3, SleepDoes, FinishDoes, StopDoes, OfferDoes
  <2>4. CASE Get(t) \/ Poll(t) \/ Inline(t)
    BY <2>4, GetDoes, PollDoes, InlineDoes
  <2>5. CASE Leave(t) \/ Expire(t)
    BY <2>5, LeaveDoes
  <2> QED
    BY <2>1, <2>2, <2>3, <2>4, <2>5 DEF Step
<1>3. /\ stack[t] \in Seq(Frame) /\ stack'[t] \in Seq(Frame)
      /\ Len(stack[t]) \in Nat /\ DOMAIN stack[t] = 1 .. Len(stack[t])
  BY <1>2 DEF Typed, Moves
<1>4. CASE u # t
  BY <1>1, <1>2, <1>4 DEF Moves, FrameAt, Underway
<1>5. CASE u = t /\ i < Len(stack[t])
  <2>1. i \in DOMAIN stack[t] /\ ~ Spent(stack[t][i])
    BY <1>1, <1>5 DEF FrameAt, Spent
  <2>2. i \in DOMAIN stack'[t] /\ stack'[t][i] = stack[t][i]
    BY <1>2, <1>5, <2>1 DEF Moves, Keeps
  <2> QED
    BY <1>1, <1>5, <2>2 DEF FrameAt, Underway
<1>6. CASE u = t /\ i = Len(stack[t])
  <2>1. /\ At(t, "body") /\ Last(stack[t]) = stack[t][i] /\ Last(stack[t]).of = k
        /\ Last(stack[t]).k = "body"
    BY <1>1, <1>3, <1>6 DEF FrameAt, At, Idle, Last
  <2>2. ~ (At(t, "wait") \/ At(t, "fire") \/ Idle(t))
    BY <2>1 DEF At
  <2>3. \/ Finish(t)
        \/ stack' = stack \/ \E f : Push(t, f)
    BY <2>2 DEF Step, Register, Take, Answer, Get, Sleep, Poll, Leave, Expire, Stop, Inline, Offer
  <2>4. ASSUME NEW f, Push(t, f) PROVE i \in DOMAIN stack'[t] /\ stack'[t][i] = stack[t][i]
    <3>1. stack'[t] = Append(stack[t], f)
      BY <2>4 DEF Push, Typed
    <3> QED
      BY <1>3, <1>6, <1>1, <3>1 DEF FrameAt
  <2>5. stack' = stack \/ (\E f : Push(t, f)) => Underway(k)'
    BY <1>1, <1>6, <2>4 DEF FrameAt, Underway
  <2> QED
    BY <2>1, <2>3, <2>5
<1> QED
  BY <1>1, <1>3, <1>4, <1>5, <1>6 DEF FrameAt

LEMMA StepCarried ==
  ASSUME Typed, Carried, NEW t \in Threads, Step(t) \/ Expire(t)
  PROVE  Carried'
<1>1. ASSUME NEW c \in Conts, NEW l \in BOOLEAN, Moves(t), Risen(stack[t], stack'[t], Body(c, l))
      PROVE  Underway(c)'
  <2>1. PICK b : b = Body(c, l)
    OBVIOUS
  <2>2. b.k = "body" /\ b.of = c
    BY <2>1, Frames DEF Code
  <2>3. Len(stack[t]) + 1 \in DOMAIN stack'[t] /\ stack'[t][Len(stack[t]) + 1] = b /\ Len(stack[t]) + 1 \in Nat
    BY <1>1, <2>1 DEF Risen, Moves, Typed
  <2> QED
    BY <2>2, <2>3 DEF FrameAt, Underway
<1>2. \A c \in ran' \ ran : Underway(c)'
  <2>1. CASE Poll(t)
    <3>1. PICK c : c = Head(queue)
      OBVIOUS
    <3>2. Moves(t) /\ c \in Conts
          /\ (ran' = ran \/ (ran' = ran \cup {c} /\ Risen(stack[t], stack'[t], Body(c, FALSE))))
      BY <2>1, <3>1, PollDoes DEF Typed
    <3> QED
      BY <1>1, <3>2
  <2>2. CASE Inline(t)
    <3>1. PICK c : c = Next1(t).of
      OBVIOUS
    <3>2. Moves(t) /\ c \in Conts
          /\ (ran' = ran \/ (ran' = ran \cup {c} /\ Risen(stack[t], stack'[t], Body(c, TRUE))))
      BY <2>2, <3>1, InlineDoes
    <3> QED
      BY <1>1, <3>2
  <2>3. CASE ran' = ran
    BY <2>3
  <2> QED
    BY <2>1, <2>2, <2>3
       DEF Step, Register, Take, Answer, Get, Sleep, Leave, Finish, Stop, Offer, Expire
<1>3. registered \subseteq registered' /\ done \subseteq done'
  BY DEF Step, Register, Take, Answer, Get, Sleep, Poll, Leave, Finish, Stop, Inline, Offer, Expire
<1> SUFFICES ASSUME NEW k \in Code, k = Main \/ k \in ran, ~ Underway(k)'
             PROVE  Registered(k)' /\ (k # Main => k \in done')
  BY <1>2 DEF Carried, Underway, FrameAt, Registered
<1>4. CASE Underway(k)
  <2>1. Finish(t) /\ k = Last(stack[t]).of
    BY <1>4, BodiesRemain
  <2>2. Registered(k) /\ (k # Main => k \in done')
    BY <2>1 DEF Finish
  <2> QED
    BY <1>3, <2>2 DEF Registered
<1>5. CASE ~ Underway(k)
  BY <1>3, <1>5 DEF Carried, Registered
<1> QED
  BY <1>4, <1>5

LEMMA StepRooted ==
  ASSUME Typed, Rooted, NEW t \in Threads, Step(t) \/ Expire(t)
  PROVE  Rooted'
<1>1. ASSUME NEW d \in Conts, Register(t, d) PROVE Rooted'
  <2>1. registered' = registered \cup {d} /\ d \notin registered /\ On[d] \in registered \cup Calls
    BY <1>1 DEF Register
  <2>2. d \notin Calls
    BY NamesAssumption
  <2>3. \A c \in registered' : On[c] \in registered' \cup Calls /\ On[c] # d
    BY <2>1, <2>2 DEF Rooted
  <2>4. ASSUME NEW S \in SUBSET registered', S # {} PROVE \E c \in S : On[c] \notin S
    <3>1. CASE S \ {d} = {}
      <4>1. S = {d}
        BY <2>4, <3>1
      <4> QED
        BY <2>1, <2>3, <4>1
    <3>2. CASE S \ {d} # {}
      <4>1. S \ {d} \in SUBSET registered
        BY <2>1, <2>4
      <4>2. PICK c \in S \ {d} : On[c] \notin S \ {d}
        BY <3>2, <4>1 DEF Rooted
      <4> QED
        BY <2>3, <2>4, <4>2
    <3> QED
      BY <3>1, <3>2
  <2> QED
    BY <2>3, <2>4 DEF Rooted
<1>2. CASE registered' = registered
  BY <1>2 DEF Rooted
<1> QED
  BY <1>1, <1>2
     DEF Step, Take, Answer, Get, Sleep, Poll, Leave, Finish, Stop, Inline, Offer, Expire

LEMMA CarriedHolds == Spec => [](Carried /\ Rooted)
<1>1. Init => Carried /\ Rooted
  <2> SUFFICES ASSUME Init PROVE Carried /\ Rooted
    OBVIOUS
  <2>1. stack[Home] = <<Body(Main, FALSE)>> /\ ran = {} /\ registered = {} /\ Home \in Threads
    BY ThreadsAssumption DEF Init, Threads
  <2>2. PICK b : b = Body(Main, FALSE)
    OBVIOUS
  <2>3. b.k = "body" /\ b.of = Main
    BY <2>2, Frames DEF Code
  <2>4. 1 \in DOMAIN stack[Home] /\ stack[Home][1] = b
    BY <2>1, <2>2
  <2>5. Underway(Main)
    BY <2>1, <2>3, <2>4 DEF Underway, FrameAt
  <2> QED
    BY <2>1, <2>5 DEF Carried, Rooted
<1>2. Basics /\ Carried /\ Rooted /\ [Next]_vars => (Carried /\ Rooted)'
  <2> SUFFICES ASSUME Basics, Carried, Rooted, [Next]_vars PROVE (Carried /\ Rooted)'
    OBVIOUS
  <2>1. CASE Next
    <3>1. PICK t \in Threads : Step(t) \/ Expire(t)
      BY <2>1 DEF Next
    <3> QED
      BY <3>1, StepCarried, StepRooted DEF Basics
  <2>2. CASE UNCHANGED vars
    BY <2>2 DEF vars, Carried, Rooted, Underway, FrameAt, Registered
  <2> QED
    BY <2>1, <2>2
<1> QED
  BY <1>1, <1>2, BasicsHold, PTL DEF Spec

(* The calls have been answered, no thread is in the middle of anything, and the
   pool has nothing to do.                                                  *)
AtRest == (\A t \in Threads : Idle(t)) /\ pool = {} /\ Calls \subseteq done

(* Everything that was ever registered has run to its end, and all that the
   request and its continuations register has been registered.              *)
NothingLeft ==
  AtRest => /\ registered \subseteq done
            /\ \A c \in Conts : By[c] \in registered \cup {Main} => c \in registered

(* The request cannot peter out: when no wait throws and the pool has room, the
   threads do not come to rest with a continuation that has not run, whatever
   the program, the interleaving and the waits.                             *)
THEOREM NothingIsLeft ==
  ASSUME Slow = FALSE, IsFiniteSet(Conts), Cardinality(Conts) < QueueLimit
  PROVE  Spec => []NothingLeft
<1>1. Basics /\ Carried /\ Rooted /\ NeverStranded => NothingLeft
  <2> SUFFICES ASSUME Basics, Carried, Rooted, NeverStranded, AtRest
               PROVE  /\ registered \subseteq done
                      /\ \A c \in Conts : By[c] \in registered \cup {Main} => c \in registered
    BY DEF NothingLeft
  <2>1. \A t \in Threads : DOMAIN stack[t] = {}
    BY DEF AtRest, Idle
  <2>2. \A k \in Code : ~ Underway(k)
    BY <2>1 DEF Underway, FrameAt
  <2>3. ~ InLoop
    BY <2>1 DEF InLoop
  <2>4. registered \subseteq done
    <3> SUFFICES ASSUME registered \ done # {} PROVE FALSE
      OBVIOUS
    <3>1. PICK c \in registered \ done : On[c] \notin registered \ done
      BY DEF Rooted
    <3>2. On[c] \in done
      BY <3>1 DEF Rooted, AtRest
    <3>3. c \in ran
      BY <2>1, <2>3, <3>1, <3>2 DEF NeverStranded, AtRest
    <3>4. c \in Code /\ c # Main
      BY NamesAssumption DEF Basics, Typed, Code
    <3> QED
      BY <2>2, <3>1, <3>3, <3>4 DEF Carried
  <2>5. ASSUME NEW c \in Conts, By[c] \in registered \cup {Main} PROVE c \in registered
    <3>1. By[c] \in Code
      BY ProgramAssumption
    <3>2. By[c] = Main \/ By[c] \in ran
      BY <2>4, <2>5 DEF Basics, Typed, Entered
    <3>3. Registered(By[c])
      BY <2>2, <3>1, <3>2 DEF Carried
    <3> QED
      BY <3>3 DEF Registered
  <2> QED
    BY <2>4, <2>5
<1> QED
  BY <1>1, BasicsHold, CarriedHolds, NothingStranded, PTL
=============================================================================
