--------------------------- MODULE TotalsTheorems ---------------------------
(***************************************************************************)
(* What totals are worth: they are naturals, zero when every amount is,    *)
(* additive, and change by what one amount changes.  The ledgers of the    *)
(* eWallet are shown to balance with these.                                *)
(***************************************************************************)
EXTENDS Totals, FiniteSetTheorems, FunctionTheorems, TLAPS

(* The units of a finite domain are finitely many pairs of a member and an
   index up to its amount.                                                  *)
LEMMA UnitsFinite ==
  ASSUME NEW S, IsFiniteSet(S), NEW f \in [S -> Nat]
  PROVE  /\ IsFiniteSet(Units(f))
         /\ \A p : p \in Units(f) <=> \E x \in S, k \in Nat : k \in 1 .. f[x] /\ p = <<x, k>>
<1> DEFINE Rows == {{x} \X (1 .. f[x]) : x \in S}
           row == [x \in S |-> {x} \X (1 .. f[x])]
<1>1. Units(f) = UNION Rows
  BY DEF Units
<1>2. IsFiniteSet(Rows)
  <2>1. row \in [S -> Rows] /\ \A t \in Rows : \E s \in S : row[s] = t
    OBVIOUS
  <2>2. row \in Surjection(S, Rows)
    BY <2>1, Fun_IsSurj
  <2> QED
    BY <2>2, FS_Surjection
<1>3. ASSUME NEW T \in Rows PROVE IsFiniteSet(T)
  <2>1. PICK x \in S : T = {x} \X (1 .. f[x])
    OBVIOUS
  <2>2. IsFiniteSet({x})
    BY FS_Singleton
  <2>3. 1 \in Int /\ f[x] \in Int
    OBVIOUS
  <2>4. IsFiniteSet(1 .. f[x])
    BY <2>3, FS_Interval
  <2> QED
    BY <2>1, <2>2, <2>4, FS_Product
<1>4. IsFiniteSet(Units(f))
  BY <1>1, <1>2, <1>3, FS_UNION
<1>5. ASSUME NEW p
      PROVE p \in Units(f) <=> \E x \in S, k \in Nat : k \in 1 .. f[x] /\ p = <<x, k>>
  BY <1>1
<1> QED
  BY <1>4, <1>5

(* A total is a natural number, and 0 exactly when every amount is. *)
THEOREM TotalType ==
  ASSUME NEW S, IsFiniteSet(S), NEW f \in [S -> Nat]
  PROVE  /\ Total(f) \in Nat
         /\ Total(f) = 0 <=> \A x \in S : f[x] = 0
<1>1. IsFiniteSet(Units(f)) /\ Total(f) \in Nat
  BY UnitsFinite, FS_CardinalityType DEF Total
<1>2. Total(f) = 0 <=> Units(f) = {}
  BY <1>1, FS_EmptySet DEF Total
<1>3. ASSUME NEW x \in S, f[x] # 0 PROVE <<x, 1>> \in Units(f)
  <2>1. 1 \in 1 .. f[x]
    BY <1>3
  <2> QED
    BY <2>1, UnitsFinite
<1>4. ASSUME \A x \in S : f[x] = 0 PROVE Units(f) = {}
  BY <1>4, UnitsFinite
<1> QED
  BY <1>1, <1>2, <1>3, <1>4

(* The total of a sum is the sum of the totals: the units of the second
   function follow those of the first.                                      *)
THEOREM TotalSum ==
  ASSUME NEW S, IsFiniteSet(S), NEW f \in [S -> Nat], NEW g \in [S -> Nat]
  PROVE  Total([x \in S |-> f[x] + g[x]]) = Total(f) + Total(g)
<1> DEFINE h == [x \in S |-> f[x] + g[x]]
           Rest == Units(h) \ Units(f)
           m == [p \in Units(g) |-> <<p[1], f[p[1]] + p[2]>>]
<1> h \in [S -> Nat]
  OBVIOUS
<1>1. /\ IsFiniteSet(Units(f)) /\ IsFiniteSet(Units(g)) /\ IsFiniteSet(Units(h))
      /\ \A p : p \in Units(f) <=> \E x \in S, k \in Nat : k \in 1 .. f[x] /\ p = <<x, k>>
      /\ \A p : p \in Units(g) <=> \E x \in S, k \in Nat : k \in 1 .. g[x] /\ p = <<x, k>>
      /\ \A p : p \in Units(h) <=> \E x \in S, k \in Nat : k \in 1 .. h[x] /\ p = <<x, k>>
  BY UnitsFinite
<1> HIDE DEF h
<1>h. \A x \in S : h[x] = f[x] + g[x] /\ f[x] \in Nat /\ g[x] \in Nat
  BY DEF h
<1>2. Units(f) \subseteq Units(h)
  <2> SUFFICES ASSUME NEW p \in Units(f) PROVE p \in Units(h)
    OBVIOUS
  <2>1. PICK x \in S, k \in Nat : k \in 1 .. f[x] /\ p = <<x, k>>
    BY <1>1
  <2>2. k \in 1 .. h[x]
    BY <2>1, <1>h
  <2> QED
    BY <2>1, <2>2, <1>1
<1>3. m \in [Units(g) -> Rest]
  <2> SUFFICES ASSUME NEW p \in Units(g) PROVE <<p[1], f[p[1]] + p[2]>> \in Rest
    OBVIOUS
  <2>1. PICK x \in S, k \in Nat : k \in 1 .. g[x] /\ p = <<x, k>>
    BY <1>1
  <2>2. f[x] + k \in 1 .. h[x] /\ f[x] + k \notin 1 .. f[x]
    BY <2>1, <1>h
  <2>3. <<x, f[x] + k>> \in Units(h)
    BY <2>2, <1>1
  <2>4. <<x, f[x] + k>> \notin Units(f)
    BY <2>2, <1>1
  <2> QED
    BY <2>1, <2>3, <2>4
<1>4. \A p, q \in Units(g) : m[p] = m[q] => p = q
  <2> SUFFICES ASSUME NEW p \in Units(g), NEW q \in Units(g), m[p] = m[q] PROVE p = q
    OBVIOUS
  <2>1. PICK x \in S, k \in Nat : k \in 1 .. g[x] /\ p = <<x, k>>
    BY <1>1
  <2>2. PICK y \in S, l \in Nat : l \in 1 .. g[y] /\ q = <<y, l>>
    BY <1>1
  <2>3. <<x, f[x] + k>> = <<y, f[y] + l>>
    BY <2>1, <2>2
  <2>4. x = y /\ f[x] + k = f[x] + l
    BY <2>3
  <2> QED
    BY <2>1, <2>2, <2>4, <1>h
<1>5. \A t \in Rest : \E p \in Units(g) : m[p] = t
  <2> SUFFICES ASSUME NEW t \in Rest PROVE \E p \in Units(g) : m[p] = t
    OBVIOUS
  <2>1. PICK x \in S, k \in Nat : k \in 1 .. h[x] /\ t = <<x, k>>
    BY <1>1
  <2>2. k \notin 1 .. f[x]
    BY <2>1, <1>1
  <2>3. k - f[x] \in 1 .. g[x] /\ f[x] + (k - f[x]) = k
    BY <2>1, <2>2, <1>h
  <2>4. <<x, k - f[x]>> \in Units(g)
    BY <2>3, <1>1
  <2>5. m[<<x, k - f[x]>>] = t
    BY <2>1, <2>3, <2>4
  <2> QED
    BY <2>4, <2>5
<1>6. m \in Bijection(Units(g), Rest)
  BY <1>3, <1>4, <1>5, Fun_IsBij
<1>7. Cardinality(Rest) = Cardinality(Units(g)) /\ IsFiniteSet(Rest)
  BY <1>1, <1>6, FS_Bijection DEF ExistsBijection
<1>8. Cardinality(Rest) = Cardinality(Units(h)) - Cardinality(Units(f))
  <2>1. Units(h) \cap Units(f) = Units(f)
    BY <1>2
  <2> QED
    BY <2>1, <1>1, FS_Difference
<1>9. /\ Cardinality(Units(f)) \in Nat /\ Cardinality(Units(g)) \in Nat
      /\ Cardinality(Units(h)) \in Nat
  BY <1>1, FS_CardinalityType
<1> QED
  BY <1>7, <1>8, <1>9 DEF Total, h

(* What pointwise smaller amounts leave of a total. *)
THEOREM TotalDifference ==
  ASSUME NEW S, IsFiniteSet(S), NEW f \in [S -> Nat], NEW g \in [S -> Nat],
         \A x \in S : g[x] <= f[x]
  PROVE  /\ Total([x \in S |-> f[x] - g[x]]) = Total(f) - Total(g)
         /\ Total(g) <= Total(f)
<1> DEFINE d == [x \in S |-> f[x] - g[x]]
<1>1. d \in [S -> Nat]
  OBVIOUS
<1>2. [x \in S |-> d[x] + g[x]] = f
  OBVIOUS
<1>3. Total(d) \in Nat /\ Total(g) \in Nat /\ Total(f) \in Nat
  BY <1>1, TotalType
<1> HIDE DEF d
<1>4. Total(f) = Total(d) + Total(g)
  BY <1>1, <1>2, TotalSum
<1>5. Total(d) = Total(f) - Total(g) /\ Total(g) <= Total(f)
  BY <1>3, <1>4
<1> QED
  BY <1>5 DEF d

(* A function that is zero but at one place totals its value there. *)
LEMMA TotalPoint ==
  ASSUME NEW S, IsFiniteSet(S), NEW x \in S, NEW v \in Nat
  PROVE  Total([y \in S |-> IF y = x THEN v ELSE 0]) = v
<1> DEFINE f == [y \in S |-> IF y = x THEN v ELSE 0]
<1>1. f \in [S -> Nat]
  OBVIOUS
<1>2. Units(f) = {x} \X (1 .. v)
  <2>1. \A p : p \in Units(f) <=> \E y \in S, k \in Nat : k \in 1 .. f[y] /\ p = <<y, k>>
    BY <1>1, UnitsFinite
  <2>2. ASSUME NEW y \in S, NEW k \in Nat, k \in 1 .. f[y] PROVE y = x /\ k \in 1 .. v
    BY <2>2
  <2>3. ASSUME NEW p \in Units(f) PROVE p \in {x} \X (1 .. v)
    BY <2>1, <2>2
  <2>4. ASSUME NEW p \in {x} \X (1 .. v) PROVE p \in Units(f)
    <3>1. PICK k \in 1 .. v : p = <<x, k>>
      OBVIOUS
    <3>2. k \in Nat /\ k \in 1 .. f[x]
      OBVIOUS
    <3> QED
      BY <3>1, <3>2, <2>1
  <2> QED
    BY <2>3, <2>4
<1>3. IsFiniteSet({x}) /\ Cardinality({x}) = 1
  BY FS_Singleton
<1>4. IsFiniteSet(1 .. v) /\ Cardinality(1 .. v) = v
  <2>1. 1 \in Int /\ v \in Int
    OBVIOUS
  <2> QED
    BY <2>1, FS_Interval
<1>5. Cardinality({x} \X (1 .. v)) = v
  <2> DEFINE T == 1 .. v
  <2>1. IsFiniteSet({x}) /\ IsFiniteSet(T) /\ Cardinality(T) = v /\ Cardinality({x}) = 1
    BY <1>3, <1>4
  <2> HIDE DEF T
  <2>2. Cardinality({x} \X T) = Cardinality({x}) * Cardinality(T)
    BY <2>1, FS_Product
  <2>3. 1 * v = v
    OBVIOUS
  <2>4. Cardinality({x} \X T) = v
    BY <2>1, <2>2, <2>3
  <2> QED
    BY <2>4 DEF T
<1>6. Total(f) = v
  BY <1>2, <1>5, Zenon DEF Total
<1> QED
  BY <1>6

(* Changing one amount changes the total by as much. *)
THEOREM TotalUpdate ==
  ASSUME NEW S, IsFiniteSet(S), NEW f \in [S -> Nat], NEW x \in S, NEW v \in Nat
  PROVE  Total([f EXCEPT ![x] = v]) = Total(f) - f[x] + v
<1> DEFINE point(w) == [y \in S |-> IF y = x THEN w ELSE 0]
           rest == [f EXCEPT ![x] = 0]
           new == [f EXCEPT ![x] = v]
<1>1. rest \in [S -> Nat] /\ f[x] \in Nat
  OBVIOUS
<1>2. point(v) \in [S -> Nat] /\ point(f[x]) \in [S -> Nat]
  OBVIOUS
<1>3. f = [y \in S |-> rest[y] + point(f[x])[y]]
  OBVIOUS
<1>4. new = [y \in S |-> rest[y] + point(v)[y]]
  <2>1. \A y \in S : new[y] = IF y = x THEN v ELSE f[y]
    OBVIOUS
  <2>2. \A y \in S : rest[y] + point(v)[y] = IF y = x THEN v ELSE f[y]
    OBVIOUS
  <2>3. new \in [S -> Nat]
    OBVIOUS
  <2> HIDE DEF point, rest, new
  <2> QED
    BY <2>1, <2>2, <2>3
<1>5. Total(point(v)) = v /\ Total(point(f[x])) = f[x]
  BY <1>1, TotalPoint
<1>6. Total(rest) \in Nat
  BY <1>1, TotalType
<1> HIDE DEF point, rest, new
<1>7. Total(f) = Total(rest) + f[x]
  BY <1>1, <1>2, <1>3, <1>5, TotalSum
<1>8. Total(new) = Total(rest) + v
  BY <1>1, <1>2, <1>4, <1>5, TotalSum
<1>9. Total(new) = Total(f) - f[x] + v
  BY <1>1, <1>6, <1>7, <1>8
<1> QED
  BY <1>9 DEF new
=============================================================================
