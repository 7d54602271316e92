------------------------------ MODULE SumLemmas ------------------------------
(***************************************************************************)
(* Lemmas about sums over finite sets, as MapThenSumSet computes them: one *)
(* member at a time, in an order of its own.  A sum of the sizes of the    *)
(* parts of a set is the size of the set, and this is what the proofs of   *)
(* HealthRun and Bandwidth need of one.                                    *)
(***************************************************************************)
EXTENDS Integers, FiniteSets, FiniteSetsExt, FiniteSetTheorems,
        WellFoundedInduction, TLAPS

(* The member that is added last.                                           *)
Pick(set) == CHOOSE x \in set : TRUE

(* The running sum of w: what MapThenSumSet defines over the subsets.       *)
Sums(g, w, set) ==
  g = [part \in SUBSET set |->
         IF part = {} THEN 0 ELSE w[Pick(part)] + g[part \ {Pick(part)}]]

LEMMA SmallestNumber ==
  ASSUME NEW T \in SUBSET Nat, T # {}
  PROVE  \E x \in T : \A y \in T : x <= y
<1>1. PICK x \in T : \A y \in T : <<y, x>> \notin OpToRel(<, Nat)
  BY NatLessThanWellFounded, WFMin
<1>2. \A y \in T : ~(y < x)
  BY <1>1 DEF OpToRel
<1> QED BY <1>2

LEMMA OneLess ==
  ASSUME NEW part, IsFiniteSet(part), part # {}
  PROVE  /\ Pick(part) \in part
         /\ IsFiniteSet(part \ {Pick(part)})
         /\ Cardinality(part \ {Pick(part)}) \in Nat
         /\ Cardinality(part) = Cardinality(part \ {Pick(part)}) + 1
<1>1. Pick(part) \in part
  BY DEF Pick
<1>2. IsFiniteSet(part \ {Pick(part)}) /\ Cardinality(part) \in Nat
      /\ Cardinality(part \ {Pick(part)}) = Cardinality(part) - 1
  BY <1>1, FS_RemoveElement, FS_CardinalityType
<1>3. Cardinality(part \ {Pick(part)}) \in Nat
  BY <1>2, FS_CardinalityType
<1> QED BY <1>1, <1>2, <1>3

(* The running sum exists: it can be written down for the empty set, and    *)
(* for sets of one member more than those it is written down for.           *)
LEMMA SumsExist ==
  ASSUME NEW S, IsFiniteSet(S), NEW w
  PROVE  \E g : Sums(g, w, S)
<1> DEFINE UpTo(k) == {part \in SUBSET S : Cardinality(part) <= k}
           Meets(g, part) ==
             g[part] = IF part = {} THEN 0
                       ELSE w[Pick(part)] + g[part \ {Pick(part)}]
           Some(k) == \E g : g = [part \in UpTo(k) |-> g[part]]
                             /\ \A part \in UpTo(k) : Meets(g, part)
<1>0. \A part \in SUBSET S : IsFiniteSet(part) /\ Cardinality(part) \in Nat
  BY FS_Subset, FS_CardinalityType
<1>1. Some(0)
  <2> DEFINE g == [part \in UpTo(0) |-> 0]
  <2>1. \A part \in UpTo(0) : part = {}
    BY <1>0, FS_EmptySet
  <2>2. \A part \in UpTo(0) : Meets(g, part)
    BY <2>1
  <2>3. g = [part \in UpTo(0) |-> g[part]]
    OBVIOUS
  <2> QED BY <2>2, <2>3
<1>2. ASSUME NEW k \in Nat, Some(k) PROVE Some(k + 1)
  <2> PICK h : h = [part \in UpTo(k) |-> h[part]]
               /\ \A part \in UpTo(k) : Meets(h, part)
    BY <1>2
  <2> DEFINE next(part) == IF part = {} THEN 0
                           ELSE w[Pick(part)] + h[part \ {Pick(part)}]
             g == [part \in UpTo(k + 1) |-> next(part)]
  <2>1. ASSUME NEW part \in UpTo(k)
        PROVE  part \in UpTo(k + 1) /\ g[part] = h[part]
    <3>1. part \in SUBSET S /\ Cardinality(part) \in Nat /\ Cardinality(part) <= k
      BY <1>0
    <3>2. Cardinality(part) <= k + 1
      BY <3>1
    <3>3. part \in UpTo(k + 1)
      BY <3>1, <3>2
    <3>4. Meets(h, part)
      OBVIOUS
    <3> QED BY <3>3, <3>4
  <2>2. ASSUME NEW part \in UpTo(k + 1), part # {}
        PROVE  part \ {Pick(part)} \in UpTo(k)
    <3>1. /\ part \in SUBSET S /\ Cardinality(part) <= k + 1
          /\ Cardinality(part) = Cardinality(part \ {Pick(part)}) + 1
          /\ Cardinality(part \ {Pick(part)}) \in Nat
      BY <1>0, <2>2, OneLess
    <3> QED BY <3>1
  <2>3. ASSUME NEW part \in UpTo(k + 1) PROVE Meets(g, part)
    <3>1. CASE part = {}
      BY <3>1
    <3>2. CASE part # {}
      <4>1. g[part \ {Pick(part)}] = h[part \ {Pick(part)}]
        BY <2>1, <2>2, <3>2
      <4>2. g[part] = w[Pick(part)] + h[part \ {Pick(part)}]
        BY <3>2
      <4> HIDE DEF g
      <4> QED BY <3>2, <4>1, <4>2
    <3> QED BY <3>1, <3>2
  <2>4. g = [part \in UpTo(k + 1) |-> g[part]]
    OBVIOUS
  <2> HIDE DEF g
  <2> QED BY <2>3, <2>4
<1> HIDE DEF Some
<1>3. \A k \in Nat : Some(k)
  <2> DEFINE Bad == {k \in Nat : ~Some(k)}
  <2> SUFFICES ASSUME Bad # {} PROVE FALSE
    OBVIOUS
  <2>1. PICK k \in Bad : \A j \in Bad : k <= j
    BY SmallestNumber
  <2>2. k # 0 /\ k - 1 \in Nat
    BY <1>1, <2>1
  <2>3. Some(k - 1)
    BY <2>1, <2>2
  <2>4. Some((k - 1) + 1)
    BY <1>2, <2>2, <2>3
  <2> QED BY <2>1, <2>4
<1>4. PICK g : g = [part \in UpTo(Cardinality(S)) |-> g[part]]
               /\ \A part \in UpTo(Cardinality(S)) : Meets(g, part)
  <2>1. Some(Cardinality(S))
    BY <1>0, <1>3
  <2> QED BY <2>1 DEF Some
<1>5. UpTo(Cardinality(S)) = SUBSET S
  BY FS_Subset
<1>6. Sums(g, w, S)
  BY <1>4, <1>5 DEF Sums
<1> QED BY <1>6

(* A sum of numbers is one.                                                 *)
LEMMA SumIsNatural ==
  ASSUME NEW S, IsFiniteSet(S), NEW w, \A x \in S : w[x] \in Nat,
         NEW g, Sums(g, w, S)
  PROVE  g[S] \in Nat
<1> DEFINE Good(k) == \A part \in SUBSET S : Cardinality(part) = k => g[part] \in Nat
           Bad == {k \in Nat : ~Good(k)}
<1>0. \A part \in SUBSET S : IsFiniteSet(part) /\ Cardinality(part) \in Nat
  BY FS_Subset, FS_CardinalityType
<1>1. Bad = {}
  <2> SUFFICES ASSUME Bad # {} PROVE FALSE
    OBVIOUS
  <2>1. PICK k \in Bad : \A j \in Bad : k <= j
    BY SmallestNumber
  <2>2. PICK part \in SUBSET S : Cardinality(part) = k /\ g[part] \notin Nat
    BY <2>1
  <2>3. part # {}
    BY <2>2 DEF Sums
  <2> DEFINE x == Pick(part)
             less == part \ {x}
  <2>4. x \in part /\ Cardinality(less) \in Nat /\ k = Cardinality(less) + 1
    BY <1>0, <2>2, <2>3, OneLess
  <2>5. g[part] = w[x] + g[less]
    BY <2>3 DEF Sums
  <2>6. g[less] \in Nat
    <3>1. Cardinality(less) \notin Bad
      <4> SUFFICES ASSUME Cardinality(less) \in Bad PROVE FALSE
        OBVIOUS
      <4>1. k <= Cardinality(less)
        BY <2>1
      <4> QED BY <2>4, <4>1
    <3>2. Good(Cardinality(less))
      BY <2>4, <3>1
    <3> QED BY <3>2
  <2> HIDE DEF x, less
  <2> QED BY <2>2, <2>4, <2>5, <2>6
<1>2. Good(Cardinality(S))
  BY <1>0, <1>1
<1> QED BY <1>2

(* The sizes of the parts add up to the size of the whole: of all members   *)
(* of U, those tagged with one x in S are a part, and w holds their sizes.  *)
LEMMA SumOfParts ==
  ASSUME NEW S, IsFiniteSet(S), NEW U, IsFiniteSet(U), NEW tag \in [U -> S],
         NEW w, \A x \in S : w[x] = Cardinality({u \in U : tag[u] = x}),
         NEW g, Sums(g, w, S)
  PROVE  g[S] = Cardinality(U)
<1> DEFINE Of(part) == {u \in U : tag[u] \in part}
           Good(k) == \A part \in SUBSET S :
                        Cardinality(part) = k => g[part] = Cardinality(Of(part))
           Bad == {k \in Nat : ~Good(k)}
<1>0. \A part \in SUBSET S : IsFiniteSet(part) /\ Cardinality(part) \in Nat
  BY FS_Subset, FS_CardinalityType
<1>1. Bad = {}
  <2> SUFFICES ASSUME Bad # {} PROVE FALSE
    OBVIOUS
  <2>1. PICK k \in Bad : \A j \in Bad : k <= j
    BY SmallestNumber
  <2>2. PICK part \in SUBSET S : Cardinality(part) = k /\ g[part] # Cardinality(Of(part))
    BY <2>1
  <2>3. CASE part = {}
    <3>1. g[part] = 0
      BY <2>3 DEF Sums
    <3>2. Of(part) = {}
      BY <2>3
    <3> HIDE DEF Of
    <3> QED BY <2>2, <3>1, <3>2, FS_EmptySet
  <2>4. CASE part # {}
    <3> DEFINE x == Pick(part)
               less == part \ {x}
               own == {u \in U : tag[u] = x}
    <3>1. /\ x \in part /\ IsFiniteSet(less) /\ Cardinality(less) \in Nat
          /\ k = Cardinality(less) + 1
      BY <1>0, <2>2, <2>4, OneLess
    <3>2. g[part] = w[x] + g[less]
      BY <2>4 DEF Sums
    <3>3. g[less] = Cardinality(Of(less))
      <4>1. Cardinality(less) \notin Bad
        <5> SUFFICES ASSUME Cardinality(less) \in Bad PROVE FALSE
          OBVIOUS
        <5>1. k <= Cardinality(less)
          BY <2>1
        <5> QED BY <3>1, <5>1
      <4>2. Good(Cardinality(less))
        BY <3>1, <4>1
      <4> QED BY <4>2
    <3>4. w[x] = Cardinality(own)
      BY <3>1
    <3>5. Of(part) = own \cup Of(less) /\ own \cap Of(less) = {}
      BY <3>1
    <3>6. IsFiniteSet(own) /\ IsFiniteSet(Of(less))
      <4>1. own \in SUBSET U /\ Of(less) \in SUBSET U
        OBVIOUS
      <4> QED BY <4>1, FS_Subset
    <3>7. /\ Cardinality(own) \in Nat /\ Cardinality(Of(less)) \in Nat
          /\ Cardinality(own \cap Of(less)) = 0
      BY <3>5, <3>6, FS_CardinalityType, FS_EmptySet
    <3> HIDE DEF own, less, Of, x
    <3>8. Cardinality(own \cup Of(less))
            = Cardinality(own) + Cardinality(Of(less)) - Cardinality(own \cap Of(less))
      BY <3>6, FS_Union
    <3> QED BY <2>2, <3>2, <3>3, <3>4, <3>5, <3>7, <3>8
  <2> QED BY <2>3, <2>4
<1>2. g[S] = Cardinality(Of(S))
  <2>1. Good(Cardinality(S))
    BY <1>0, <1>1
  <2> QED BY <2>1
<1>3. Of(S) = U
  OBVIOUS
<1> QED BY <1>2, <1>3

-----------------------------------------------------------------------------
(* A function from S to 0 .. N drawn as columns of cells: so many for each  *)
(* member of S.  Their number is the sum, and it is easier to follow from   *)
(* one state to the next than a sum is.                                     *)
Cells(f, S, N) == {u \in S \X (1 .. N) : u[2] <= f[u[1]]}
Amount(f, S, N) == Cardinality(Cells(f, S, N))

LEMMA CellsAreFinite ==
  ASSUME NEW S, IsFiniteSet(S), NEW N \in Nat, NEW f
  PROVE  /\ IsFiniteSet(Cells(f, S, N)) /\ Amount(f, S, N) \in Nat
         /\ Amount(f, S, N) <= Cardinality(S) * N
<1>1. IsFiniteSet(1 .. N) /\ Cardinality(1 .. N) = N
  BY FS_Interval
<1>2. /\ IsFiniteSet(S \X (1 .. N))
      /\ Cardinality(S \X (1 .. N)) = Cardinality(S) * N
  BY <1>1, FS_Product
<1>3. Cells(f, S, N) \in SUBSET (S \X (1 .. N))
  BY DEF Cells
<1>4. IsFiniteSet(Cells(f, S, N)) /\ Cardinality(Cells(f, S, N)) <= Cardinality(S) * N
  BY <1>2, <1>3, FS_Subset
<1> QED BY <1>4, FS_CardinalityType DEF Amount

LEMMA AmountIsMonotone ==
  ASSUME NEW S, IsFiniteSet(S), NEW N \in Nat,
         NEW f \in [S -> Nat], NEW h \in [S -> Nat], \A x \in S : f[x] <= h[x]
  PROVE  Amount(f, S, N) <= Amount(h, S, N)
<1>1. ASSUME NEW u \in S \X (1 .. N), u[2] <= f[u[1]] PROVE u[2] <= h[u[1]]
  <2>1. u[1] \in S /\ u[2] \in Nat
    OBVIOUS
  <2>2. f[u[1]] \in Nat /\ h[u[1]] \in Nat /\ f[u[1]] <= h[u[1]]
    BY <2>1
  <2> QED BY <1>1, <2>1, <2>2
<1>2. Cells(f, S, N) \in SUBSET Cells(h, S, N)
  BY <1>1 DEF Cells
<1> QED BY <1>2, CellsAreFinite, FS_Subset DEF Amount

LEMMA AmountOfNothing ==
  ASSUME NEW S, NEW N \in Nat, NEW f, \A x \in S : f[x] = 0
  PROVE  Amount(f, S, N) = 0
<1>1. Cells(f, S, N) = {}
  BY DEF Cells
<1> QED BY <1>1, FS_EmptySet DEF Amount

(* n more for one member of S.                                              *)
LEMMA AmountGrows ==
  ASSUME NEW S, IsFiniteSet(S), NEW N \in Nat, NEW f \in [S -> 0 .. N],
         NEW h \in [S -> 0 .. N], NEW x \in S, NEW n \in Nat,
         h[x] = f[x] + n, \A y \in S : y # x => h[y] = f[y]
  PROVE  Amount(h, S, N) = Amount(f, S, N) + n
<1> DEFINE rows == f[x] + 1 .. f[x] + n
           more == {x} \X rows
<1>1. f[x] \in 0 .. N /\ f[x] + n \in 0 .. N
  OBVIOUS
<1>2. Cells(h, S, N) = Cells(f, S, N) \cup more
  <2>1. ASSUME NEW y \in S, NEW k \in 1 .. N
        PROVE  <<y, k>> \in Cells(h, S, N) <=> <<y, k>> \in Cells(f, S, N) \cup more
    <3>1. /\ <<y, k>> \in Cells(h, S, N) <=> k <= h[y]
          /\ <<y, k>> \in Cells(f, S, N) <=> k <= f[y]
          /\ <<y, k>> \in more <=> y = x /\ k \in rows
      BY DEF Cells
    <3>2. CASE y = x
      <4> HIDE DEF more
      <4> QED BY <1>1, <3>1, <3>2
    <3>3. CASE y # x
      <4> HIDE DEF more
      <4> QED BY <3>1, <3>3
    <3> QED BY <3>2, <3>3
  <2>2. more \subseteq S \X (1 .. N)
    BY <1>1
  <2>3. Cells(h, S, N) \subseteq S \X (1 .. N) /\ Cells(f, S, N) \subseteq S \X (1 .. N)
    BY DEF Cells
  <2> HIDE DEF more
  <2> QED BY <2>1, <2>2, <2>3
<1>3. Cells(f, S, N) \cap more = {}
  BY <1>1 DEF Cells
<1>4. IsFiniteSet(more) /\ Cardinality(more) = n
  <2>1. IsFiniteSet({x}) /\ Cardinality({x}) = 1
    BY FS_Singleton
  <2>2. IsFiniteSet(rows) /\ Cardinality(rows) = n
    <3>1. f[x] + 1 \in Int /\ f[x] + n \in Int
      BY <1>1
    <3>2. /\ IsFiniteSet(rows)
          /\ Cardinality(rows) = IF f[x] + 1 > f[x] + n THEN 0
                                 ELSE (f[x] + n) - (f[x] + 1) + 1
      BY <3>1, FS_Interval
    <3> HIDE DEF rows
    <3> QED BY <1>1, <3>2
  <2>3. IsFiniteSet(more) /\ Cardinality(more) = Cardinality({x}) * Cardinality(rows)
    BY <2>1, <2>2, FS_Product, Zenon
  <2> HIDE DEF more, rows
  <2> QED BY <2>1, <2>2, <2>3
<1>5. IsFiniteSet(Cells(f, S, N)) /\ Cardinality(Cells(f, S, N)) \in Nat
  BY CellsAreFinite DEF Amount
<1> HIDE DEF more
<1>6. Cardinality(Cells(f, S, N) \cup more)
        = Cardinality(Cells(f, S, N)) + Cardinality(more)
            - Cardinality(Cells(f, S, N) \cap more)
  BY <1>4, <1>5, FS_Union
<1>7. Cardinality(Cells(f, S, N) \cap more) = 0
  BY <1>3, FS_EmptySet
<1> QED BY <1>2, <1>4, <1>5, <1>6, <1>7 DEF Amount

(* Any change for one member of S.                                          *)
LEMMA AmountChanges ==
  ASSUME NEW S, IsFiniteSet(S), NEW N \in Nat, NEW f \in [S -> 0 .. N],
         NEW h \in [S -> 0 .. N], NEW x \in S,
         \A y \in S : y # x => h[y] = f[y]
  PROVE  Amount(h, S, N) = Amount(f, S, N) + h[x] - f[x]
<1>0. /\ f[x] \in Nat /\ h[x] \in Nat
      /\ Amount(f, S, N) \in Nat /\ Amount(h, S, N) \in Nat
  <2>1. Amount(f, S, N) \in Nat /\ Amount(h, S, N) \in Nat
    BY CellsAreFinite
  <2> QED BY <2>1
<1>1. CASE f[x] <= h[x]
  <2> DEFINE n == h[x] - f[x]
  <2>1. n \in Nat /\ h[x] = f[x] + n
    BY <1>0, <1>1
  <2> HIDE DEF n
  <2>2. Amount(h, S, N) = Amount(f, S, N) + n
    BY <2>1, AmountGrows
  <2> QED BY <1>0, <2>1, <2>2
<1>2. CASE h[x] < f[x]
  <2> DEFINE n == f[x] - h[x]
  <2>1. n \in Nat /\ f[x] = h[x] + n
    BY <1>0, <1>2
  <2> HIDE DEF n
  <2>2. Amount(f, S, N) = Amount(h, S, N) + n
    BY <2>1, AmountGrows
  <2> QED BY <1>0, <2>1, <2>2
<1> QED BY <1>0, <1>1, <1>2

(* The sum of f is the number of its cells.                                 *)
LEMMA SumIsAmount ==
  ASSUME NEW S, IsFiniteSet(S), NEW N \in Nat, NEW f \in [S -> 0 .. N],
         NEW g, Sums(g, f, S)
  PROVE  g[S] = Amount(f, S, N)
<1> DEFINE U == Cells(f, S, N)
           tag == [u \in U |-> u[1]]
<1>1. tag \in [U -> S]
  BY DEF Cells
<1>2. ASSUME NEW x \in S PROVE f[x] = Cardinality({u \in U : tag[u] = x})
  <2> DEFINE rows == 1 .. f[x]
  <2>1. f[x] \in 0 .. N
    OBVIOUS
  <2>2. {u \in U : tag[u] = x} = {x} \X rows
    <3>1. \A u \in U : u = <<u[1], u[2]>> /\ u[1] \in S /\ u[2] \in 1 .. N
                      /\ u[2] <= f[u[1]]
      BY DEF Cells
    <3>2. \A k \in rows : <<x, k>> \in U
      BY <2>1 DEF Cells
    <3>3. {u \in U : tag[u] = x} \subseteq {x} \X rows
      <4> SUFFICES ASSUME NEW u \in U, u[1] = x PROVE u \in {x} \X rows
        OBVIOUS
      <4>1. u = <<x, u[2]>> /\ u[2] \in 1 .. N /\ u[2] <= f[x]
        BY <3>1
      <4> QED BY <2>1, <4>1
    <3>4. ASSUME NEW k \in rows PROVE <<x, k>> \in {u \in U : tag[u] = x}
      BY <3>2
    <3> HIDE DEF U, rows, tag
    <3> QED BY <3>3, <3>4
  <2>3. IsFiniteSet(rows) /\ Cardinality(rows) = f[x]
    <3>1. 1 \in Int /\ f[x] \in Int
      BY <2>1
    <3>2. /\ IsFiniteSet(rows)
          /\ Cardinality(rows) = IF 1 > f[x] THEN 0 ELSE f[x] - 1 + 1
      BY <3>1, FS_Interval
    <3> HIDE DEF rows
    <3> QED BY <2>1, <3>2
  <2>4. IsFiniteSet({x}) /\ Cardinality({x}) = 1
    BY FS_Singleton
  <2>5. Cardinality({x} \X rows) = Cardinality({x}) * Cardinality(rows)
    BY <2>3, <2>4, FS_Product, Zenon
  <2> HIDE DEF rows
  <2>6. Cardinality({x} \X rows) = f[x]
    BY <2>1, <2>3, <2>4, <2>5
  <2> QED BY <2>2, <2>6, Zenon
<1>3. IsFiniteSet(U)
  BY CellsAreFinite
<1> HIDE DEF tag, U
<1>4. g[S] = Cardinality(U)
  BY <1>1, <1>2, <1>3, SumOfParts
<1> QED BY <1>4 DEF U, Amount

(* Two numbers of which one gets less and the other no more.                *)
LEMMA LessTogether ==
  ASSUME NEW a \in Nat, NEW b \in Nat, NEW c \in Nat, NEW d \in Nat,
         \/ c < a /\ d <= b
         \/ c <= a /\ d < b
  PROVE  c + d < a + b
OBVIOUS
=============================================================================
