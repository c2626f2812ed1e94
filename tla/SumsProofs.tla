------------------------------- MODULE SumsProofs -------------------------------
(***************************************************************************)
(* Induction over the natural numbers with the set of the numbers that     *)
(* have a property in place of the property, which is first-order, and     *)
(* what follows for the recursive functions of Sums.                       *)
(***************************************************************************)
EXTENDS Sums, WellFoundedInduction, TLAPS

Less == {p \in Nat \X Nat : p[1] < p[2]}

\* The natural numbers are well founded.
LEMMA LessWellFounded == IsWellFoundedOn(Less, Nat)
  BY NatLessThanWellFounded, Zenon DEF OpToRel, Less

\* A set of numbers that is not empty has a least element.
LEMMA Least ==
  ASSUME NEW T, T \subseteq Nat, T # {}
  PROVE  \E x \in T : \A y \in T : x <= y
<1>1. PICK x \in T : \A y \in T : <<y, x>> \notin Less
  BY LessWellFounded, WFMin
<1>2. ASSUME NEW y \in T PROVE x <= y
  <2>1. x \in Nat /\ y \in Nat /\ <<y, x>> \notin Less
    BY <1>1
  <2> QED
    BY <2>1 DEF Less
<1> QED
  BY <1>2

\* Induction up to n: a set with 0 in it that with each number has the next.
LEMMA UpTo ==
  ASSUME NEW n \in Nat, NEW T, 0 \in T, \A i \in 1..n : i - 1 \in T => i \in T
  PROVE  \A i \in 0..n : i \in T
<1> DEFINE U == {i \in 0..n : i \notin T}
<1>1. SUFFICES ASSUME U # {} PROVE FALSE
  OBVIOUS
<1>2. PICK m \in U : \A y \in U : m <= y
  <2>1. U \subseteq Nat
    OBVIOUS
  <2> HIDE DEF U
  <2> QED
    BY <1>1, <2>1, Least
<1>3. m # 0 /\ m \in 1..n
  OBVIOUS
<1>4. m - 1 \in 0..n /\ ~(m <= m - 1)
  BY <1>3
<1>5. m - 1 \in T
  BY <1>2, <1>4
<1> QED
  BY <1>3, <1>5

\* Two functions that are the same at 0, and then at each number if they are at
\* the one before it, are the same.
LEMMA AgreeUpTo ==
  ASSUME NEW n \in Nat, NEW f, NEW g, f[0] = g[0],
         \A i \in 1..n : f[i - 1] = g[i - 1] => f[i] = g[i]
  PROVE  \A i \in 0..n : f[i] = g[i]
<1> DEFINE T == {i \in 0..n : f[i] = g[i]}
<1>1. 0 \in T /\ \A i \in 1..n : i - 1 \in T => i \in T
  OBVIOUS
<1>2. \A i \in 0..n : i \in T
  <2> HIDE DEF T
  <2> QED
    BY <1>1, UpTo
<1> QED
  BY <1>2

\* A function on 0..n can be given by its value at 0 and a step to each number
\* from the one before it.
Follows(f, a, step, n) == f[0] = a /\ \A i \in 1..n : f[i] = step[i][f[i - 1]]

LEMMA RecursionExists ==
  ASSUME NEW n \in Nat, NEW S, NEW a \in S, NEW step, \A i \in 1..n : step[i] \in [S -> S]
  PROVE  \E f \in [0..n -> S] : Follows(f, a, step, n)
<1> DEFINE T == {m \in 0..n : \E f \in [0..m -> S] : Follows(f, a, step, m)}
<1>1. 0 \in T
  <2>1. [i \in 0..0 |-> a] \in [0..0 -> S] /\ Follows([i \in 0..0 |-> a], a, step, 0)
    BY DEF Follows
  <2> QED
    BY <2>1
<1>2. ASSUME NEW m \in 1..n, m - 1 \in T PROVE m \in T
  <2>1. PICK f \in [0..m - 1 -> S] : Follows(f, a, step, m - 1)
    BY <1>2
  <2> DEFINE next == step[m][f[m - 1]]
             g == [i \in 0..m |-> IF i = m THEN next ELSE f[i]]
  <2>2. next \in S
    BY <2>1
  <2> HIDE DEF next
  <2>3. g \in [0..m -> S]
    <3>1. ASSUME NEW i \in 0..m PROVE (IF i = m THEN next ELSE f[i]) \in S
      BY <2>1, <2>2
    <3> QED
      BY <3>1
  <2>4. g[0] = a /\ g[m - 1] = f[m - 1] /\ g[m] = next
    BY <2>1 DEF Follows
  <2>5. ASSUME NEW i \in 1..m PROVE g[i] = step[i][g[i - 1]]
    <3>1. CASE i = m
      BY <2>4, <3>1 DEF next
    <3>2. CASE i # m
      <4>1. i \in 1..m - 1 /\ i - 1 \in 0..m - 1 /\ i - 1 # m /\ i - 1 \in 0..m /\ i \in 0..m
        BY <3>2
      <4>2. g[i] = f[i] /\ g[i - 1] = f[i - 1]
        BY <3>2, <4>1
      <4>3. f[i] = step[i][f[i - 1]]
        BY <2>1, <4>1 DEF Follows
      <4> QED
        BY <4>2, <4>3
    <3> QED
      BY <3>1, <3>2
  <2>6. Follows(g, a, step, m)
    <3> HIDE DEF g
    <3> QED
      BY <2>4, <2>5 DEF Follows
  <2> QED
    BY <2>3, <2>6
<1>3. n \in T
  <2> HIDE DEF T
  <2>1. \A i \in 0..n : i \in T
    BY <1>1, <1>2, UpTo
  <2> QED
    BY <2>1
<1> QED
  BY <1>3

\* f holds the partial sums of s up to n.
Adds(f, s, n) ==
  /\ f \in [0..n -> Nat] /\ f[0] = 0
  /\ \A i \in 1..n : f[i] = f[i - 1] + s[i]

LEMMA AddsExists ==
  ASSUME NEW s \in Seq(Nat)
  PROVE  \E f : Adds(f, s, Len(s))
<1> DEFINE step == [i \in 1..Len(s) |-> [x \in Nat |-> x + s[i]]]
<1>1. Len(s) \in Nat /\ \A i \in 1..Len(s) : step[i] \in [Nat -> Nat]
  <2>1. ASSUME NEW i \in 1..Len(s) PROVE step[i] \in [Nat -> Nat]
    <3>1. s[i] \in Nat /\ step[i] = [x \in Nat |-> x + s[i]]
      OBVIOUS
    <3>2. [x \in Nat |-> x + s[i]] \in [Nat -> Nat]
      BY <3>1
    <3> QED
      BY <3>1, <3>2
  <2>2. Len(s) \in Nat
    OBVIOUS
  <2> HIDE DEF step
  <2> QED
    BY <2>1, <2>2
<1>2. \A i \in 1..Len(s), x \in Nat : step[i][x] = x + s[i]
  OBVIOUS
<1> HIDE DEF step
<1>3. PICK f \in [0..Len(s) -> Nat] : Follows(f, 0, step, Len(s))
  BY <1>1, RecursionExists, 0 \in Nat
<1>4. \A i \in 1..Len(s) : f[i] = f[i - 1] + s[i]
  <2> TAKE i \in 1..Len(s)
  <2>1. i - 1 \in 0..Len(s)
    OBVIOUS
  <2> QED
    BY <1>2, <1>3, <2>1 DEF Follows
<1> QED
  BY <1>3, <1>4 DEF Adds, Follows

\* Partial is what its recursive definition says.
LEMMA PartialDef ==
  ASSUME NEW s \in Seq(Nat)
  PROVE  Adds(Partial(s), s, Len(s))
<1> DEFINE Is(f) == f = [n \in 0..Len(s) |-> IF n = 0 THEN 0 ELSE f[n - 1] + s[n]]
           g == Partial(s)
<1>1. PICK f : Adds(f, s, Len(s))
  BY AddsExists
<1>2. Is(f)
  BY <1>1 DEF Adds
<1>3. g = CHOOSE h : Is(h)
  BY DEF Partial
<1>4. g = [n \in 0..Len(s) |-> IF n = 0 THEN 0 ELSE g[n - 1] + s[n]]
  BY <1>2, <1>3
<1> HIDE DEF g, Is
<1>5. g[0] = f[0] /\ \A n \in 1..Len(s) : g[n] = g[n - 1] + s[n]
  <2>1. 0 \in 0..Len(s) /\ f[0] = 0
    BY <1>1 DEF Adds
  <2>2. ASSUME NEW n \in 1..Len(s) PROVE g[n] = g[n - 1] + s[n]
    <3>1. n \in 0..Len(s) /\ n # 0
      OBVIOUS
    <3> QED
      BY <1>4, <3>1
  <2> QED
    BY <1>4, <2>1, <2>2
<1>6. \A n \in 1..Len(s) : g[n - 1] = f[n - 1] => g[n] = f[n]
  BY <1>1, <1>5 DEF Adds
<1>7. \A n \in 0..Len(s) : g[n] = f[n]
  BY <1>5, <1>6, AgreeUpTo, Len(s) \in Nat
<1>8. g = f
  BY <1>1, <1>4, <1>7 DEF Adds
<1> QED
  BY <1>1, <1>8 DEF g

\* The sum of no numbers.
LEMMA TotalEmpty == Total(<< >>) = 0
<1>1. << >> \in Seq(Nat) /\ Len(<< >>) = 0
  OBVIOUS
<1>2. Partial(<< >>)[0] = 0
  BY <1>1, PartialDef DEF Adds
<1> QED
  BY <1>1, <1>2 DEF Total

\* A sum is a natural number.
LEMMA TotalType == \A s \in Seq(Nat) : Total(s) \in Nat
<1> TAKE s \in Seq(Nat)
<1>1. Partial(s) \in [0..Len(s) -> Nat] /\ Len(s) \in 0..Len(s)
  BY PartialDef DEF Adds
<1> QED
  BY <1>1 DEF Total

\* The sum of the first n numbers is a matter of those only.
LEMMA SamePrefix ==
  ASSUME NEW n \in Nat, NEW s, NEW a, NEW f, NEW g, Adds(f, s, n), Adds(g, a, n + 1),
         \A i \in 1..n : a[i] = s[i]
  PROVE  g[n] = f[n]
<1>1. g[0] = f[0]
  BY DEF Adds
<1>2. \A i \in 1..n : g[i - 1] = f[i - 1] => g[i] = f[i]
  <2>1. \A i \in 1..n : i \in 1..n + 1
    OBVIOUS
  <2> QED
    BY <2>1 DEF Adds
<1>3. \A i \in 0..n : g[i] = f[i]
  BY <1>1, <1>2, AgreeUpTo
<1> QED
  BY <1>3

\* One more number adds to the sum of those before it.
LEMMA TotalAppend ==
  ASSUME NEW s \in Seq(Nat), NEW x \in Nat
  PROVE  Total(Append(s, x)) = Total(s) + x
<1> DEFINE a == Append(s, x)
           f == Partial(s)
           g == Partial(a)
           n == Len(s)
<1>1. /\ a \in Seq(Nat) /\ Len(a) = n + 1 /\ a[n + 1] = x /\ n \in Nat
      /\ \A i \in 1..n : a[i] = s[i]
  OBVIOUS
<1> HIDE DEF a, n
<1>2. Adds(f, s, n) /\ Adds(g, a, n + 1)
  BY <1>1, PartialDef DEF n
<1>3. Total(s) = f[n] /\ Total(a) = g[n + 1]
  BY <1>1 DEF Total, n
<1> HIDE DEF f, g
<1>5. g[n] = f[n]
  BY <1>1, <1>2, SamePrefix
<1>6. g[n + 1] = g[n] + a[n + 1]
  <2>1. n + 1 - 1 = n /\ n + 1 \in 1..n + 1
    BY <1>1
  <2>2. \A i \in 1..n + 1 : g[i] = g[i - 1] + a[i]
    BY <1>2 DEF Adds
  <2>3. \A i \in 1..n + 1 : i = n + 1 => g[i] = g[n] + a[i]
    BY <1>1, <2>2
  <2> QED
    BY <2>1, <2>3
<1> QED
  BY <1>1, <1>3, <1>5, <1>6 DEF a

\* The same, of numbers given as functions of their positions.
LEMMA TotalGrows ==
  ASSUME NEW n \in Nat, NEW f \in [1..n -> Nat], NEW g \in [1..n + 1 -> Nat],
         \A i \in 1..n : g[i] = f[i]
  PROVE  Total(g) = Total(f) + g[n + 1] /\ Total(f) \in Nat
<1>1. f \in Seq(Nat) /\ g \in Seq(Nat) /\ g[n + 1] \in Nat
  OBVIOUS
<1>2. g = Append(f, g[n + 1])
  <2>1. Len(f) = n /\ Len(g) = n + 1
    OBVIOUS
  <2>2. Append(f, g[n + 1]) \in Seq(Nat) /\ Len(Append(f, g[n + 1])) = n + 1
    BY <1>1, <2>1
  <2>3. \A i \in 1..n + 1 : g[i] = Append(f, g[n + 1])[i]
    BY <1>1, <2>1
  <2> QED
    BY <1>1, <2>1, <2>2, <2>3
<1> QED
  BY <1>1, <1>2, TotalAppend, TotalType

\* f holds the products of the first numbers of s up to n.
Multiplies(f, s, n) ==
  /\ f \in [0..n -> Nat] /\ f[0] = 1
  /\ \A i \in 1..n : f[i] = f[i - 1] * s[i]

LEMMA MultipliesExists ==
  ASSUME NEW s \in Seq(Nat)
  PROVE  \E f : Multiplies(f, s, Len(s))
<1> DEFINE step == [i \in 1..Len(s) |-> [x \in Nat |-> x * s[i]]]
<1>1. Len(s) \in Nat /\ \A i \in 1..Len(s) : step[i] \in [Nat -> Nat]
  <2>1. ASSUME NEW i \in 1..Len(s) PROVE step[i] \in [Nat -> Nat]
    <3>1. s[i] \in Nat /\ step[i] = [x \in Nat |-> x * s[i]]
      OBVIOUS
    <3>2. [x \in Nat |-> x * s[i]] \in [Nat -> Nat]
      BY <3>1
    <3> QED
      BY <3>1, <3>2
  <2>2. Len(s) \in Nat
    OBVIOUS
  <2> HIDE DEF step
  <2> QED
    BY <2>1, <2>2
<1>2. \A i \in 1..Len(s), x \in Nat : step[i][x] = x * s[i]
  OBVIOUS
<1> HIDE DEF step
<1>3. PICK f \in [0..Len(s) -> Nat] : Follows(f, 1, step, Len(s))
  BY <1>1, RecursionExists, 1 \in Nat
<1>4. \A i \in 1..Len(s) : f[i] = f[i - 1] * s[i]
  <2> TAKE i \in 1..Len(s)
  <2>1. i - 1 \in 0..Len(s)
    OBVIOUS
  <2>2. f[i - 1] \in Nat
    BY <2>1
  <2> QED
    BY <1>2, <1>3, <2>2 DEF Follows
<1> QED
  BY <1>3, <1>4 DEF Multiplies, Follows

\* Products is what its recursive definition says.
LEMMA ProductsDef ==
  ASSUME NEW s \in Seq(Nat)
  PROVE  Multiplies(Products(s), s, Len(s))
<1> DEFINE Is(f) == f = [n \in 0..Len(s) |-> IF n = 0 THEN 1 ELSE f[n - 1] * s[n]]
           g == Products(s)
<1>1. PICK f : Multiplies(f, s, Len(s))
  BY MultipliesExists
<1>2. Is(f)
  BY <1>1 DEF Multiplies
<1>3. g = CHOOSE h : Is(h)
  BY DEF Products
<1>4. g = [n \in 0..Len(s) |-> IF n = 0 THEN 1 ELSE g[n - 1] * s[n]]
  BY <1>2, <1>3
<1> HIDE DEF g, Is
<1>5. g[0] = f[0] /\ \A n \in 1..Len(s) : g[n] = g[n - 1] * s[n]
  <2>1. 0 \in 0..Len(s) /\ f[0] = 1
    BY <1>1 DEF Multiplies
  <2>2. ASSUME NEW n \in 1..Len(s) PROVE g[n] = g[n - 1] * s[n]
    <3>1. n \in 0..Len(s) /\ n # 0
      OBVIOUS
    <3> QED
      BY <1>4, <3>1
  <2> QED
    BY <1>4, <2>1, <2>2
<1>6. \A n \in 1..Len(s) : g[n - 1] = f[n - 1] => g[n] = f[n]
  BY <1>1, <1>5 DEF Multiplies
<1>7. \A n \in 0..Len(s) : g[n] = f[n]
  BY <1>5, <1>6, AgreeUpTo, Len(s) \in Nat
<1>8. g = f
  BY <1>1, <1>4, <1>7 DEF Multiplies
<1> QED
  BY <1>1, <1>8 DEF g

\* A product is a natural number.
LEMMA ProductType == \A s \in Seq(Nat) : Product(s) \in Nat
<1> TAKE s \in Seq(Nat)
<1>1. Products(s) \in [0..Len(s) -> Nat] /\ Len(s) \in 0..Len(s)
  BY ProductsDef DEF Multiplies
<1> QED
  BY <1>1 DEF Product

LEMMA BothOne ==
  ASSUME NEW x \in Nat, NEW y \in Nat, x * y = 1
  PROVE  x = 1 /\ y = 1
<1>1. x # 0 /\ y # 0
  OBVIOUS
<1>2. x > 1 => x * y > 1
  BY <1>1
<1>3. y > 1 => x * y > 1
  BY <1>1
<1> QED
  BY <1>1, <1>2, <1>3

\* Two functions take the same step to each number up to n; they are the same.
StepAlike(f, g, n) == f[0] = g[0] /\ \A i \in 1..n : f[i - 1] = g[i - 1] => f[i] = g[i]
Alike(f, g, n) == \A i \in 0..n : f[i] = g[i]

LEMMA AlikeUpTo == \A n \in Nat : \A f, g : StepAlike(f, g, n) => Alike(f, g, n)
  BY AgreeUpTo DEF StepAlike, Alike

\* A product of 1 has no other factors.
LEMMA ProductOne ==
  ASSUME NEW s \in Seq(Nat), Product(s) = 1
  PROVE  \A i \in 1..Len(s) : s[i] = 1
<1> DEFINE f == Products(s)
           n == Len(s)
           T == {i \in 0..n : f[n - i] = 1}
<1>1. Multiplies(f, s, n) /\ f[n] = 1 /\ n \in Nat
  BY ProductsDef DEF Product
<1> HIDE DEF f
<1>2. ASSUME NEW i \in 1..n, f[i] = 1
      PROVE  f[i - 1] = 1 /\ s[i] = 1
  <2>1. f[i - 1] \in Nat /\ s[i] \in Nat /\ f[i - 1] * s[i] = 1
    BY <1>1, <1>2 DEF Multiplies
  <2> QED
    BY <2>1, BothOne
<1>3. 0 \in T
  BY <1>1
<1>4. \A i \in 1..n : i - 1 \in T => i \in T
  <2> SUFFICES ASSUME NEW i \in 1..n, i - 1 \in T
               PROVE  i \in T
    OBVIOUS
  <2>1. n - (i - 1) \in 1..n /\ (n - (i - 1)) - 1 = n - i /\ f[n - (i - 1)] = 1
    BY <1>1
  <2>2. f[(n - (i - 1)) - 1] = 1
    BY <1>2, <2>1
  <2> QED
    BY <2>1, <2>2
<1>5. \A i \in 0..n : i \in T
  <2> HIDE DEF T
  <2> QED
    BY <1>1, <1>3, <1>4, UpTo
<1>6. \A i \in 1..n : f[i] = 1
  <2> TAKE i \in 1..n
  <2>1. n - i \in 0..n /\ n - (n - i) = i
    BY <1>1
  <2> QED
    BY <1>5, <2>1
<1> QED
  BY <1>2, <1>6

\* The product of no numbers.
LEMMA ProductEmpty == Product(<< >>) = 1
<1>1. << >> \in Seq(Nat) /\ Len(<< >>) = 0
  OBVIOUS
<1>2. Products(<< >>)[0] = 1
  BY <1>1, ProductsDef DEF Multiplies
<1> QED
  BY <1>1, <1>2 DEF Product

LEMMA Associates ==
  ASSUME NEW x \in Nat, NEW y \in Nat, NEW z \in Nat
  PROVE  (x * y) * z = x * (y * z) /\ x * y = y * x
  OBVIOUS

\* The first number is a factor of the product, the product of the others the other.
LEMMA ProductFirst ==
  ASSUME NEW n \in Nat, NEW u \in Seq(Nat), NEW v \in Seq(Nat), Len(u) = n + 1, Len(v) = n,
         \A i \in 1..n : v[i] = u[i + 1]
  PROVE  Product(u) = u[1] * Product(v)
<1> DEFINE f == Products(u)
           g == Products(v)
           F == [i \in 0..n |-> f[i + 1]]
           G == [i \in 0..n |-> u[1] * g[i]]
<1>1. Multiplies(f, u, n + 1) /\ Multiplies(g, v, n)
  BY ProductsDef
<1>2. u[1] \in Nat /\ \A i \in 1..n : v[i] \in Nat
  OBVIOUS
<1>3. Product(u) = f[n + 1] /\ Product(v) = g[n]
  BY DEF Product
<1> HIDE DEF f, g
<1>4. F[0] = G[0]
  <2>1. f[1] = f[1 - 1] * u[1] /\ f[0] = 1 /\ g[0] = 1
    BY <1>1 DEF Multiplies
  <2>2. 1 - 1 = 0 /\ 0 + 1 = 1 /\ 0 \in 0..n
    OBVIOUS
  <2>3. f[1] = u[1] /\ u[1] * g[0] = u[1]
    BY <1>2, <2>1, <2>2
  <2> QED
    BY <2>2, <2>3
<1>5. \A i \in 1..n : F[i - 1] = G[i - 1] => F[i] = G[i]
  <2> SUFFICES ASSUME NEW i \in 1..n, F[i - 1] = G[i - 1]
               PROVE  F[i] = G[i]
    OBVIOUS
  <2>1. i - 1 \in 0..n /\ (i - 1) + 1 = i /\ i \in 0..n /\ i + 1 \in 1..n + 1 /\ (i + 1) - 1 = i
    OBVIOUS
  <2>2. f[i] = u[1] * g[i - 1]
    BY <2>1
  <2>3. f[i + 1] = f[i] * u[i + 1]
    <3>1. \A j \in 1..n + 1 : f[j] = f[j - 1] * u[j]
      BY <1>1 DEF Multiplies
    <3>2. f[i + 1] = f[(i + 1) - 1] * u[i + 1]
      BY <2>1, <3>1
    <3> QED
      BY <2>1, <3>2
  <2>4. g[i] = g[i - 1] * v[i]
    BY <1>1 DEF Multiplies
  <2>5. g[i - 1] \in Nat
    BY <1>1, <2>1 DEF Multiplies
  <2>6. f[i + 1] = (u[1] * g[i - 1]) * v[i]
    BY <2>2, <2>3
  <2>7. (u[1] * g[i - 1]) * v[i] = u[1] * (g[i - 1] * v[i])
    <3> DEFINE x == u[1]
               y == g[i - 1]
               z == v[i]
    <3>1. x \in Nat /\ y \in Nat /\ z \in Nat
      BY <1>2, <2>5
    <3>2. (x * y) * z = x * (y * z)
      <4> HIDE DEF x, y, z
      <4> QED
        BY <3>1, Associates
    <3> QED
      BY <3>2
  <2> QED
    BY <2>1, <2>4, <2>6, <2>7
<1> HIDE DEF F, G
<1>6. StepAlike(F, G, n)
  BY <1>4, <1>5 DEF StepAlike
<1>7. Alike(F, G, n)
  BY <1>6, AlikeUpTo
<1>8. F[n] = f[n + 1] /\ G[n] = u[1] * g[n] /\ n \in 0..n
  BY DEF F, G
<1> QED
  BY <1>3, <1>7, <1>8 DEF Alike

\* The product of the first numbers.
LEMMA ProductPrefix ==
  ASSUME NEW s \in Seq(Nat), NEW n \in 0..Len(s)
  PROVE  Product(SubSeq(s, 1, n)) = Products(s)[n]
<1> DEFINE p == SubSeq(s, 1, n)
           f == Products(s)
           g == Products(p)
<1>1. p \in Seq(Nat) /\ Len(p) = n /\ \A i \in 1..n : p[i] = s[i]
  OBVIOUS
<1> HIDE DEF p
<1>2. Multiplies(f, s, Len(s)) /\ Multiplies(g, p, n) /\ Product(p) = g[n]
  BY <1>1, ProductsDef DEF Product
<1> HIDE DEF f, g
<1>3. g[0] = f[0]
  BY <1>2 DEF Multiplies
<1>4. \A i \in 1..n : g[i - 1] = f[i - 1] => g[i] = f[i]
  <2>1. \A i \in 1..n : i \in 1..Len(s)
    OBVIOUS
  <2> QED
    BY <1>1, <1>2, <2>1 DEF Multiplies
<1>5. StepAlike(g, f, n)
  BY <1>3, <1>4 DEF StepAlike
<1>6. Alike(g, f, n)
  BY <1>5, AlikeUpTo, n \in Nat
<1>7. g[n] = f[n]
  BY <1>6, n \in 0..n DEF Alike
<1> QED
  BY <1>2, <1>7 DEF p, f

\* Induction down from n.
LEMMA DownFrom ==
  ASSUME NEW n \in Nat, NEW T, n \in T, \A i \in 1..n : i \in T => i - 1 \in T
  PROVE  \A i \in 0..n : i \in T
<1> DEFINE U == {i \in 0..n : n - i \in T}
<1>1. 0 \in U
  OBVIOUS
<1>2. \A i \in 1..n : i - 1 \in U => i \in U
  <2> SUFFICES ASSUME NEW i \in 1..n, i - 1 \in U
               PROVE  i \in U
    OBVIOUS
  <2>1. n - (i - 1) \in 1..n /\ (n - (i - 1)) - 1 = n - i /\ n - (i - 1) \in T
    OBVIOUS
  <2> QED
    BY <2>1
<1>3. \A i \in 0..n : i \in U
  <2> HIDE DEF U
  <2> QED
    BY <1>1, <1>2, UpTo
<1>4. \A i \in 0..n : n - i \in 0..n /\ n - (n - i) = i
  OBVIOUS
<1> QED
  BY <1>3, <1>4

\* p brings the numbers from 1 to n in another order.
Permutes(p, n) == /\ p \in [1..n -> 1..n]
                  /\ \A i, j \in 1..n : p[i] = p[j] => i = j
                  /\ \A d \in 1..n : \E i \in 1..n : p[i] = d

\* Running sums that differ by d after position j, and not before it.
Apart(f, g, j, d, i) == g[i] = IF i < j THEN f[i] ELSE f[i] + d

\* A sum grows by as much as one of its terms.
LEMMA TotalDiffers ==
  ASSUME NEW n \in Nat, NEW f \in [1..n -> Nat], NEW g \in [1..n -> Nat],
         NEW j \in 1..n, NEW d \in Nat, g[j] = f[j] + d, \A i \in 1..n : i # j => g[i] = f[i]
  PROVE  Total(g) = Total(f) + d
<1> DEFINE p == Partial(f)
           q == Partial(g)
           T == {i \in 0..n : Apart(p, q, j, d, i)}
<1>1. f \in Seq(Nat) /\ g \in Seq(Nat) /\ Len(f) = n /\ Len(g) = n
  OBVIOUS
<1>2. Adds(p, f, n) /\ Adds(q, g, n) /\ Total(f) = p[n] /\ Total(g) = q[n]
  BY <1>1, PartialDef DEF Total
<1> HIDE DEF p, q
<1>3. (\A i \in 0..n : p[i] \in Nat /\ q[i] \in Nat) /\ p[0] = 0 /\ q[0] = 0
  BY <1>2 DEF Adds
<1>4. \A i \in 1..n : p[i] = p[i - 1] + f[i] /\ q[i] = q[i - 1] + g[i]
  BY <1>2 DEF Adds
<1>5. 0 \in T
  BY <1>3 DEF Apart
<1>6. \A i \in 1..n : i - 1 \in T => i \in T
  <2> SUFFICES ASSUME NEW i \in 1..n, Apart(p, q, j, d, i - 1)
               PROVE  Apart(p, q, j, d, i)
    OBVIOUS
  <2>1. i - 1 \in 0..n /\ p[i - 1] \in Nat /\ f[i] \in Nat
    BY <1>3
  <2>0. p[i] = p[i - 1] + f[i] /\ q[i] = q[i - 1] + g[i]
    BY <1>4
  <2>2. CASE i < j
    <3>1. g[i] = f[i] /\ q[i - 1] = p[i - 1]
      BY <2>2 DEF Apart
    <3> QED
      BY <2>0, <2>2, <3>1 DEF Apart
  <2>3. CASE i = j
    BY <1>4, <2>1, <2>3 DEF Apart
  <2>4. CASE i > j
    <3>1. g[i] = f[i] /\ q[i - 1] = p[i - 1] + d
      BY <2>4 DEF Apart
    <3> QED
      BY <2>0, <2>1, <2>4, <3>1 DEF Apart
  <2> QED
    BY <2>2, <2>3, <2>4
<1>7. \A i \in 0..n : i \in T
  <2> HIDE DEF T
  <2> QED
    BY <1>5, <1>6, UpTo
<1>8. Apart(p, q, j, d, n)
  BY <1>7
<1> QED
  BY <1>2, <1>8 DEF Apart

\* A sum of zeros.
LEMMA TotalZeros ==
  ASSUME NEW n \in Nat, NEW f \in [1..n -> Nat], \A i \in 1..n : f[i] = 0
  PROVE  Total(f) = 0
<1> DEFINE p == Partial(f)
           T == {i \in 0..n : p[i] = 0}
<1>1. f \in Seq(Nat) /\ Len(f) = n
  OBVIOUS
<1>2. Adds(p, f, n) /\ Total(f) = p[n]
  BY <1>1, PartialDef DEF Total
<1> HIDE DEF p
<1>3. 0 \in T /\ \A i \in 1..n : i - 1 \in T => i \in T
  BY <1>2 DEF Adds
<1>4. \A i \in 0..n : i \in T
  <2> HIDE DEF T
  <2> QED
    BY <1>3, UpTo
<1> QED
  BY <1>2, <1>4

\* The order in which numbers are added does not matter.
LEMMA TotalPermuted ==
  ASSUME NEW n \in Nat, NEW f \in [1..n -> Nat], NEW p, Permutes(p, n)
  PROVE  Total([i \in 1..n |-> f[p[i]]]) = Total(f)
<1> DEFINE s == Partial(f)
           h(k) == [i \in 1..n |-> IF p[i] <= k THEN f[p[i]] ELSE 0]
           T == {k \in 0..n : Total(h(k)) = s[k]}
<1>1. f \in Seq(Nat) /\ Len(f) = n
  OBVIOUS
<1>2. Adds(s, f, n) /\ Total(f) = s[n]
  BY <1>1, PartialDef DEF Total
<1> HIDE DEF s
<1>3. \A i \in 1..n : p[i] \in 1..n /\ f[p[i]] \in Nat
  BY DEF Permutes
<1>4. \A k \in 0..n : h(k) \in [1..n -> Nat]
  BY <1>3
<1>5. 0 \in T
  <2>1. \A i \in 1..n : h(0)[i] = 0
    BY <1>3
  <2>2. h(0) \in [1..n -> Nat]
    BY <1>4
  <2>3. Total(h(0)) = 0
    <3> HIDE DEF h
    <3> QED
      BY <2>1, <2>2, TotalZeros
  <2> QED
    BY <1>2, <2>3 DEF Adds
<1>6. \A k \in 1..n : k - 1 \in T => k \in T
  <2> SUFFICES ASSUME NEW k \in 1..n, Total(h(k - 1)) = s[k - 1]
               PROVE  Total(h(k)) = s[k]
    <3> HIDE DEF h
    <3> QED
      OBVIOUS
  <2>1. PICK j \in 1..n : p[j] = k
    BY DEF Permutes
  <2>2. h(k)[j] = h(k - 1)[j] + f[k]
    BY <2>1, <1>3
  <2>3. \A i \in 1..n : i # j => h(k)[i] = h(k - 1)[i]
    <3> SUFFICES ASSUME NEW i \in 1..n, i # j
                 PROVE  h(k)[i] = h(k - 1)[i]
      OBVIOUS
    <3>1. p[i] # k /\ p[i] \in 1..n
      BY <2>1, <1>3 DEF Permutes
    <3>2. p[i] <= k <=> p[i] <= k - 1
      BY <3>1
    <3> QED
      BY <3>2
  <2>4. h(k) \in [1..n -> Nat] /\ h(k - 1) \in [1..n -> Nat] /\ f[k] \in Nat
    <3>1. k - 1 \in 0..n /\ k \in 0..n
      OBVIOUS
    <3> HIDE DEF h
    <3> QED
      BY <1>4, <3>1
  <2>5. s[k] = s[k - 1] + f[k]
    BY <1>2 DEF Adds
  <2> HIDE DEF h
  <2>6. Total(h(k)) = Total(h(k - 1)) + f[k]
    BY <2>2, <2>3, <2>4, TotalDiffers
  <2> QED
    BY <2>5, <2>6
<1>7. n \in T
  <2>1. \A k \in 0..n : k \in T
    <3> HIDE DEF T
    <3> QED
      BY <1>5, <1>6, UpTo
  <2> QED
    BY <2>1
<1>8. h(n) = [i \in 1..n |-> f[p[i]]]
  BY <1>3
<1> QED
  BY <1>2, <1>7, <1>8

\* Running products that differ by the factor d from position j on.
Factored(f, g, j, d, i) == g[i] = IF i < j THEN f[i] ELSE f[i] * d

\* A product grows by the factor that one of its numbers does.
LEMMA ProductScaled ==
  ASSUME NEW n \in Nat, NEW f \in [1..n -> Nat], NEW g \in [1..n -> Nat],
         NEW j \in 1..n, NEW d \in Nat, g[j] = f[j] * d, \A i \in 1..n : i # j => g[i] = f[i]
  PROVE  Product(g) = Product(f) * d
<1> DEFINE p == Products(f)
           q == Products(g)
           T == {i \in 0..n : Factored(p, q, j, d, i)}
<1>1. f \in Seq(Nat) /\ g \in Seq(Nat) /\ Len(f) = n /\ Len(g) = n
  OBVIOUS
<1>2. Multiplies(p, f, n) /\ Multiplies(q, g, n) /\ Product(f) = p[n] /\ Product(g) = q[n]
  BY <1>1, ProductsDef DEF Product
<1> HIDE DEF p, q
<1>3. (\A i \in 0..n : p[i] \in Nat /\ q[i] \in Nat) /\ p[0] = 1 /\ q[0] = 1
  BY <1>2 DEF Multiplies
<1>4. \A i \in 1..n : p[i] = p[i - 1] * f[i] /\ q[i] = q[i - 1] * g[i]
  BY <1>2 DEF Multiplies
<1>5. 0 \in T
  BY <1>3 DEF Factored
<1>6. \A i \in 1..n : i - 1 \in T => i \in T
  <2> SUFFICES ASSUME NEW i \in 1..n, Factored(p, q, j, d, i - 1)
               PROVE  Factored(p, q, j, d, i)
    OBVIOUS
  <2>1. i - 1 \in 0..n /\ p[i - 1] \in Nat /\ f[i] \in Nat
    BY <1>3
  <2>2. p[i] = p[i - 1] * f[i] /\ q[i] = q[i - 1] * g[i]
    BY <1>4
  <2>3. CASE i < j
    <3>1. g[i] = f[i] /\ q[i - 1] = p[i - 1]
      BY <2>3 DEF Factored
    <3> QED
      BY <2>2, <2>3, <3>1 DEF Factored
  <2>4. CASE i = j
    <3>1. g[i] = f[i] * d /\ q[i - 1] = p[i - 1]
      BY <2>4 DEF Factored
    <3>2. q[i] = p[i] * d
      BY <2>1, <2>2, <3>1, Associates
    <3> QED
      BY <2>4, <3>2 DEF Factored
  <2>5. CASE i > j
    <3>1. g[i] = f[i] /\ q[i - 1] = p[i - 1] * d
      BY <2>5 DEF Factored
    <3>2. (p[i - 1] * d) * f[i] = (p[i - 1] * f[i]) * d
      <4>1. (p[i - 1] * d) * f[i] = p[i - 1] * (d * f[i]) /\ d * f[i] = f[i] * d
        BY <2>1, Associates
      <4>2. (p[i - 1] * f[i]) * d = p[i - 1] * (f[i] * d)
        BY <2>1, Associates
      <4> QED
        BY <4>1, <4>2
    <3> QED
      BY <2>2, <2>5, <3>1, <3>2 DEF Factored
  <2> QED
    BY <2>3, <2>4, <2>5
<1>7. \A i \in 0..n : i \in T
  <2> HIDE DEF T
  <2> QED
    BY <1>5, <1>6, UpTo
<1>8. Factored(p, q, j, d, n)
  BY <1>7
<1> QED
  BY <1>2, <1>8 DEF Factored

\* A product of ones.
LEMMA ProductOnes ==
  ASSUME NEW n \in Nat, NEW f \in [1..n -> Nat], \A i \in 1..n : f[i] = 1
  PROVE  Product(f) = 1
<1> DEFINE p == Products(f)
           T == {i \in 0..n : p[i] = 1}
<1>1. f \in Seq(Nat) /\ Len(f) = n
  OBVIOUS
<1>2. Multiplies(p, f, n) /\ Product(f) = p[n]
  BY <1>1, ProductsDef DEF Product
<1> HIDE DEF p
<1>3. 0 \in T /\ \A i \in 1..n : i - 1 \in T => i \in T
  BY <1>2 DEF Multiplies
<1>4. \A i \in 0..n : i \in T
  <2> HIDE DEF T
  <2> QED
    BY <1>3, UpTo
<1> QED
  BY <1>2, <1>4

\* The order in which numbers are multiplied does not matter.
LEMMA ProductPermuted ==
  ASSUME NEW n \in Nat, NEW f \in [1..n -> Nat], NEW p, Permutes(p, n)
  PROVE  Product([i \in 1..n |-> f[p[i]]]) = Product(f)
<1> DEFINE s == Products(f)
           h(k) == [i \in 1..n |-> IF p[i] <= k THEN f[p[i]] ELSE 1]
           T == {k \in 0..n : Product(h(k)) = s[k]}
<1>1. f \in Seq(Nat) /\ Len(f) = n
  OBVIOUS
<1>2. Multiplies(s, f, n) /\ Product(f) = s[n]
  BY <1>1, ProductsDef DEF Product
<1> HIDE DEF s
<1>3. \A i \in 1..n : p[i] \in 1..n /\ f[p[i]] \in Nat
  BY DEF Permutes
<1>4. \A k \in 0..n : h(k) \in [1..n -> Nat]
  BY <1>3
<1>5. 0 \in T
  <2>1. \A i \in 1..n : h(0)[i] = 1
    BY <1>3
  <2>2. h(0) \in [1..n -> Nat]
    BY <1>4
  <2>3. Product(h(0)) = 1
    <3> HIDE DEF h
    <3> QED
      BY <2>1, <2>2, ProductOnes
  <2> QED
    BY <1>2, <2>3 DEF Multiplies
<1>6. \A k \in 1..n : k - 1 \in T => k \in T
  <2> SUFFICES ASSUME NEW k \in 1..n, Product(h(k - 1)) = s[k - 1]
               PROVE  Product(h(k)) = s[k]
    <3> HIDE DEF h
    <3> QED
      OBVIOUS
  <2>1. PICK j \in 1..n : p[j] = k
    BY DEF Permutes
  <2>2. h(k)[j] = h(k - 1)[j] * f[k]
    BY <2>1, <1>3
  <2>3. \A i \in 1..n : i # j => h(k)[i] = h(k - 1)[i]
    <3> SUFFICES ASSUME NEW i \in 1..n, i # j
                 PROVE  h(k)[i] = h(k - 1)[i]
      OBVIOUS
    <3>1. p[i] # k /\ p[i] \in 1..n
      BY <2>1, <1>3 DEF Permutes
    <3>2. p[i] <= k <=> p[i] <= k - 1
      BY <3>1
    <3> QED
      BY <3>2
  <2>4. h(k) \in [1..n -> Nat] /\ h(k - 1) \in [1..n -> Nat] /\ f[k] \in Nat
    <3>1. k - 1 \in 0..n /\ k \in 0..n
      OBVIOUS
    <3> HIDE DEF h
    <3> QED
      BY <1>4, <3>1
  <2>5. s[k] = s[k - 1] * f[k]
    BY <1>2 DEF Multiplies
  <2> HIDE DEF h
  <2>6. Product(h(k)) = Product(h(k - 1)) * f[k]
    BY <2>2, <2>3, <2>4, ProductScaled
  <2> QED
    BY <2>5, <2>6
<1>7. n \in T
  <2>1. \A k \in 0..n : k \in T
    <3> HIDE DEF T
    <3> QED
      BY <1>5, <1>6, UpTo
  <2> QED
    BY <2>1
<1>8. h(n) = [i \in 1..n |-> f[p[i]]]
  BY <1>3
<1> QED
  BY <1>2, <1>7, <1>8
=============================================================================
