-------------------------- MODULE ConsensusProofs --------------------------
(***************************************************************************)
(* Theorems about Consensus, for any number of sources and whatever they   *)
(* answered, any ranking of them, any place names and any quorum; the last *)
(* two carry what PlaceNamesProofs shows of one name to all that are given. *)
(***************************************************************************)
EXTENDS PlaceConsensus, PlaceNamesProofs

-----------------------------------------------------------------------------
(* Choosing a least one. *)

LEMMA MinIsLeast ==
  ASSUME NEW T \in SUBSET Nat, T # {}
  PROVE  Min(T) \in T /\ \A y \in T : Min(T) <= y
BY SmallestNumber DEF Min

(* First by one figure, then by another, then by position.                  *)
LEMMA FirstByTwo ==
  ASSUME NEW S \in SUBSET Nat, S # {},
         NEW a \in [S -> Nat], NEW b \in [S -> Nat]
  PROVE  \E i \in S : \A j \in S \ {i} :
           \/ a[i] < a[j]
           \/ a[i] = a[j] /\ b[i] < b[j]
           \/ a[i] = a[j] /\ b[i] = b[j] /\ i < j
<1> DEFINE A == {i \in S : \A j \in S : a[i] <= a[j]}
           B == {i \in A : \A j \in A : b[i] <= b[j]}
<1>1. A # {}
  <2> DEFINE T == {a[i] : i \in S}
  <2>1. T \in SUBSET Nat /\ T # {}
    OBVIOUS
  <2> HIDE DEF T
  <2>2. PICK x \in T : \A y \in T : x <= y
    BY <2>1, SmallestNumber
  <2> QED BY <2>2 DEF T
<1>2. B # {}
  <2> DEFINE T == {b[i] : i \in A}
  <2>1. T \in SUBSET Nat /\ T # {}
    BY <1>1
  <2> HIDE DEF T
  <2>2. PICK x \in T : \A y \in T : x <= y
    BY <2>1, SmallestNumber
  <2> QED BY <2>2 DEF T
<1>3. PICK i \in B : \A j \in B : i <= j
  BY <1>2, SmallestNumber
<1>4. ASSUME NEW j \in S \ {i}
      PROVE  \/ a[i] < a[j]
             \/ a[i] = a[j] /\ b[i] < b[j]
             \/ a[i] = a[j] /\ b[i] = b[j] /\ i < j
  <2>1. a[i] \in Nat /\ a[j] \in Nat /\ b[i] \in Nat /\ b[j] \in Nat
        /\ i \in Nat /\ j \in Nat
    BY <1>4
  <2>2. a[i] <= a[j]
    BY <1>4
  <2>3. a[i] = a[j] => j \in A /\ b[i] <= b[j]
    BY <1>4, <2>1
  <2>4. a[i] = a[j] /\ b[i] = b[j] => j \in B /\ i <= j
    BY <1>3, <2>1, <2>3
  <2> QED BY <1>4, <2>1, <2>2, <2>3, <2>4
<1> QED BY <1>4

-----------------------------------------------------------------------------
(* The answers. *)

Fields == {"city", "region"}

LEMMA Answered ==
  ASSUME results \in Inputs
  PROVE  /\ Len(results) \in Nat /\ ok \subseteq 1 .. Len(results)
         /\ ok \in SUBSET Nat /\ IsFiniteSet(ok)
         /\ \A i \in ok : results[i] \in Result /\ RankAt(i) \in Nat
         /\ \A i \in ok, f \in Fields : results[i][f] \in Names
<1>1. results \in Seq(Result)
  BY InputsAssumption
<1>2. /\ Len(results) \in Nat /\ DOMAIN results = 1 .. Len(results)
      /\ \A i \in 1 .. Len(results) : results[i] \in Result
  BY <1>1
<1>3. ok \subseteq 1 .. Len(results)
  BY <1>2 DEF ok
<1>4. IsFiniteSet(ok)
  <2>1. 1 \in Int /\ Len(results) \in Int
    BY <1>2
  <2> QED BY <1>3, <2>1, FS_Interval, FS_Subset
<1>5. ASSUME NEW i \in ok
      PROVE  /\ results[i] \in Result /\ RankAt(i) \in Nat
             /\ results[i]["city"] \in Names /\ results[i]["region"] \in Names
  BY <1>2, <1>3, <1>5, InputsAssumption DEF RankAt, Result
<1> QED BY <1>2, <1>3, <1>4, <1>5 DEF Fields

LEMMA Counting ==
  ASSUME results \in Inputs, NEW s \in SUBSET ok
  PROVE  /\ IsFiniteSet(s) /\ Cardinality(s) \in Nat
         /\ Cardinality(s) = 0 <=> s = {}
         /\ \A t \in SUBSET s : /\ Cardinality(t) \in Nat
                                /\ Cardinality(t) <= Cardinality(s)
                                /\ Cardinality(t) = Cardinality(s) => t = s
<1>1. IsFiniteSet(s)
  BY Answered, FS_Subset
<1> QED BY <1>1, FS_Subset, FS_CardinalityType, FS_EmptySet

LEMMA RankOfMany ==
  ASSUME results \in Inputs, NEW s \in SUBSET ok, s # {}
  PROVE  RankOf(s) \in Nat
<1> DEFINE T == {RankAt(i) : i \in s}
<1>1. T \in SUBSET Nat /\ T # {}
  BY Answered
<1> HIDE DEF T
<1>2. Min(T) \in T
  BY <1>1, MinIsLeast
<1> QED BY <1>1, <1>2 DEF RankOf, T

-----------------------------------------------------------------------------
(* Prefixes. *)

LEMMA PrefixMeans ==
  ASSUME NEW W, NEW a \in Seq(W), NEW b \in Seq(W)
  PROVE  IsPrefix(a, b) <=>
           Len(a) <= Len(b) /\ \A k \in 1 .. Len(a) : a[k] = b[k]
<1>1. Len(a) \in Nat /\ Len(b) \in Nat
  OBVIOUS
<1>2. ASSUME Len(a) <= Len(b)
      PROVE  SubSeq(a, 1, Len(a)) = SubSeq(b, 1, Len(a)) <=>
               \A k \in 1 .. Len(a) : a[k] = b[k]
  <2>1. \A k \in 1 .. Len(a) : /\ SubSeq(a, 1, Len(a))[k] = a[k]
                               /\ SubSeq(b, 1, Len(a))[k] = b[k]
    BY <1>1, <1>2
  <2>2. /\ SubSeq(a, 1, Len(a)) \in Seq(W) /\ Len(SubSeq(a, 1, Len(a))) = Len(a)
        /\ SubSeq(b, 1, Len(a)) \in Seq(W) /\ Len(SubSeq(b, 1, Len(a))) = Len(a)
    BY <1>1, <1>2
  <2>3. ASSUME \A k \in 1 .. Len(a) : a[k] = b[k]
        PROVE  SubSeq(a, 1, Len(a)) = SubSeq(b, 1, Len(a))
    BY <2>1, <2>2, <2>3, SeqEqual
  <2> QED BY <2>1, <2>3
<1> QED BY <1>2 DEF IsPrefix

(* Two prefixes of one name match, a match is a prefix one way or the other, *)
(* and of two names of one length only the same are prefixes.               *)
LEMMA PrefixFacts ==
  ASSUME NEW W, NEW a \in Seq(W), NEW b \in Seq(W), NEW c \in Seq(W)
  PROVE  /\ a # <<>> => PrefixOrEqual(a, a)
         /\ PrefixOrEqual(a, b) => a # <<>> /\ b # <<>> /\ Len(a) <= Len(b)
         /\ PrefixOrEqual(a, b) /\ PrefixOrEqual(b, c) => PrefixOrEqual(a, c)
         /\ PrefixOrEqual(a, c) /\ PrefixOrEqual(b, c) => Match(a, b)
         /\ PrefixOrEqual(a, c) /\ PrefixOrEqual(b, c) /\ Len(a) <= Len(b)
              => PrefixOrEqual(a, b)
<1>1. Len(a) \in Nat /\ Len(b) \in Nat /\ Len(c) \in Nat
  OBVIOUS
<1>2. PrefixOrEqual(a, a) <=> a # <<>>
  BY <1>1, PrefixMeans DEF PrefixOrEqual
<1>3. PrefixOrEqual(a, b) <=>
        a # <<>> /\ Len(a) <= Len(b) /\ \A k \in 1 .. Len(a) : a[k] = b[k]
  BY PrefixMeans DEF PrefixOrEqual
<1>4. PrefixOrEqual(b, c) <=>
        b # <<>> /\ Len(b) <= Len(c) /\ \A k \in 1 .. Len(b) : b[k] = c[k]
  BY PrefixMeans DEF PrefixOrEqual
<1>5. PrefixOrEqual(a, c) <=>
        a # <<>> /\ Len(a) <= Len(c) /\ \A k \in 1 .. Len(a) : a[k] = c[k]
  BY PrefixMeans DEF PrefixOrEqual
<1>6. PrefixOrEqual(b, a) <=>
        b # <<>> /\ Len(b) <= Len(a) /\ \A k \in 1 .. Len(b) : b[k] = a[k]
  BY PrefixMeans DEF PrefixOrEqual
<1>7. a # <<>> <=> 0 < Len(a)
  BY <1>1
<1>8. b # <<>> <=> 0 < Len(b)
  BY <1>1
<1>9. PrefixOrEqual(a, c) /\ PrefixOrEqual(b, c) /\ Len(a) <= Len(b)
        => PrefixOrEqual(a, b)
  BY <1>1, <1>3, <1>4, <1>5
<1>10. PrefixOrEqual(a, c) /\ PrefixOrEqual(b, c) /\ Len(b) <= Len(a)
         => PrefixOrEqual(b, a)
  BY <1>1, <1>4, <1>5, <1>6
<1> QED BY <1>1, <1>2, <1>3, <1>4, <1>5, <1>7, <1>8, <1>9, <1>10 DEF Match

(* The tokens of a name are words; the empty name has none, and a name as   *)
(* it is shown has those of the name as it came.                            *)
LEMMA TokensOfNames ==
  /\ Tokens[<<>>] = <<>>
  /\ \A n \in Names : /\ Tokens[n] \in Seq(Seq(Letter))
                      /\ Tokens[Display[n]] = Tokens[n]
<1>1. ASSUME NEW n \in Names
      PROVE  Tokens[n] \in Seq(Seq(Letter)) /\ Tokens[Display[n]] = Tokens[n]
  <2>1. n \in Seq(Range(n)) /\ Display[n] \in Names
    BY NamesAssumption, PlacesAssumption
  <2>2. Tokens[n] = PlaceTokens(n) /\ Tokens[Display[n]] = PlaceTokens(PlaceDisplay(n))
    BY <2>1, PlacesAssumption
  <2>3. PlaceTokens(n) \in Seq(Seq(Letter))
    <3>1. Scan(n).out \in Seq(Range(n))
      BY <2>1, ScanType DEF Scans
    <3>2. Spelt(Scan(n).out) \in Spellings
      BY <3>1, ScanType
    <3>3. PlaceTokens(n) = Spelt(Scan(n).out).words
      BY DEF PlaceTokens, Words, reduceParentheticals, Spelt, Unspelt, Scan
    <3> QED BY <3>2, <3>3 DEF Spellings
  <2>4. ShownAsMatched(n)
    BY <2>1, ShownLikeMatched
  <2> QED BY <2>2, <2>3, <2>4 DEF ShownAsMatched
<1>2. Tokens[<<>>] = <<>>
  <2>1. PlaceTokens(<<>>) = Spelt(Scan(<<>>).out).words
    BY DEF PlaceTokens, Words, reduceParentheticals, Spelt, Unspelt, Scan
  <2>2. PlaceTokens(<<>>) = <<>>
    BY <2>1, NothingYet DEF Unread, Unspelt
  <2> QED BY <2>2, NamesAssumption, PlacesAssumption
<1> QED BY <1>1, <1>2

AllWords == Seq(Letter)

LEMMA TokensAnswered ==
  ASSUME results \in Inputs, NEW i \in ok, NEW f \in Fields
  PROVE  TokensOf(i, f) \in Seq(AllWords)
BY Answered, TokensOfNames DEF TokensOf, AllWords

-----------------------------------------------------------------------------
(* Groups. *)

LEMMA NamedAnswers ==
  ASSUME results \in Inputs, NEW s \in SUBSET ok, NEW f \in Fields
  PROVE  /\ Named(s, f) \in SUBSET Nat /\ Named(s, f) \subseteq s
         /\ \A i \in ok : GroupAround(s, f, i) \in SUBSET s
         /\ \A i \in s : TokensOf(i, f) # <<>> => i \in GroupAround(s, f, i)
<1>1. ok \in SUBSET Nat
  BY Answered
<1>2. \A i \in ok : TokensOf(i, f) # <<>>
                      => PrefixOrEqual(TokensOf(i, f), TokensOf(i, f))
  BY TokensAnswered, PrefixFacts
<1> QED BY <1>1, <1>2 DEF Named, GroupAround

(* agreeOnPlace returns the group around one of the names, and no group is  *)
(* larger.                                                                  *)
LEMMA BestGroup ==
  ASSUME results \in Inputs, NEW s \in SUBSET ok, NEW f \in Fields,
         Named(s, f) # {}
  PROVE  \E i \in Named(s, f) :
           /\ agreeOnPlace(s, f) = GroupAround(s, f, i)
           /\ \A j \in Named(s, f) :
                Cardinality(GroupAround(s, f, j))
                  <= Cardinality(GroupAround(s, f, i))
<1> DEFINE S == Named(s, f)
           size(i) == Cardinality(GroupAround(s, f, i))
           rank(i) == RankOf(GroupAround(s, f, i))
           Better(i, j) == \/ size(i) > size(j)
                           \/ size(i) = size(j) /\ rank(i) < rank(j)
                           \/ size(i) = size(j) /\ rank(i) = rank(j) /\ i < j
           best == CHOOSE i \in S : \A j \in S \ {i} : Better(i, j)
           n == Cardinality(s)
           a == [i \in S |-> n - size(i)]
           b == [i \in S |-> rank(i)]
<1>1. S \in SUBSET Nat /\ S # {} /\ S \subseteq s /\ S \subseteq ok
  BY NamedAnswers
<1>2. \A i \in S : /\ GroupAround(s, f, i) \in SUBSET s
                   /\ GroupAround(s, f, i) # {}
  BY <1>1, NamedAnswers DEF Named
<1>3. n \in Nat /\ \A i \in S : size(i) \in Nat /\ size(i) <= n
  BY <1>2, Counting
<1>4. \A i \in S : rank(i) \in Nat
  BY <1>2, RankOfMany
<1>5. a \in [S -> Nat] /\ b \in [S -> Nat]
  BY <1>3, <1>4
<1>6. PICK i \in S : \A j \in S \ {i} :
        \/ a[i] < a[j]
        \/ a[i] = a[j] /\ b[i] < b[j]
        \/ a[i] = a[j] /\ b[i] = b[j] /\ i < j
  <2> HIDE DEF S, a, b
  <2> QED BY <1>1, <1>5, FirstByTwo
<1>7. \A j \in S \ {i} : Better(i, j)
  <2> SUFFICES ASSUME NEW j \in S \ {i} PROVE Better(i, j)
    OBVIOUS
  <2>1. \/ a[i] < a[j]
        \/ a[i] = a[j] /\ b[i] < b[j]
        \/ a[i] = a[j] /\ b[i] = b[j] /\ i < j
    BY <1>6
  <2>2. /\ a[i] = n - size(i) /\ a[j] = n - size(j)
        /\ b[i] = rank(i) /\ b[j] = rank(j)
    OBVIOUS
  <2>3. size(i) \in Nat /\ size(j) \in Nat /\ n \in Nat
    BY <1>3
  <2> HIDE DEF size, rank, a, b, n
  <2> QED BY <2>1, <2>2, <2>3
<1>8. best \in S /\ \A j \in S \ {best} : Better(best, j)
  <2> HIDE DEF Better, S
  <2> QED BY <1>7
<1>9. \A j \in S : size(j) <= size(best)
  <2> SUFFICES ASSUME NEW j \in S PROVE size(j) <= size(best)
    OBVIOUS
  <2>1. size(j) \in Nat /\ size(best) \in Nat
    BY <1>3, <1>8
  <2>2. j = best \/ Better(best, j)
    BY <1>8
  <2> HIDE DEF size, rank, best
  <2> QED BY <2>1, <2>2
<1>10. agreeOnPlace(s, f) = GroupAround(s, f, best)
  BY <1>1 DEF agreeOnPlace
<1> QED BY <1>8, <1>9, <1>10

LEMMA NoGroup ==
  ASSUME NEW s, NEW f, Named(s, f) = {}
  PROVE  agreeOnPlace(s, f) = {}
BY DEF agreeOnPlace

LEMMA GroupType ==
  ASSUME results \in Inputs, NEW s \in SUBSET ok, NEW f \in Fields
  PROVE  agreeOnPlace(s, f) \in SUBSET s
<1>1. CASE Named(s, f) = {}
  BY <1>1, NoGroup
<1>2. CASE Named(s, f) # {}
  <2>1. PICK i \in Named(s, f) : agreeOnPlace(s, f) = GroupAround(s, f, i)
    BY <1>2, BestGroup
  <2> QED BY <2>1, NamedAnswers
<1> QED BY <1>1, <1>2

(* Everyone in a group named a place, and every two of them match.          *)
LEMMA GroupAgrees ==
  ASSUME results \in Inputs, NEW s \in SUBSET ok, NEW f \in Fields
  PROVE  LET g == agreeOnPlace(s, f) IN
         /\ Corroborating(g, f) /\ Named(g, f) = g
         /\ \A i, j \in g : Len(TokensOf(i, f)) <= Len(TokensOf(j, f))
                              => PrefixOrEqual(TokensOf(i, f), TokensOf(j, f))
<1> DEFINE g == agreeOnPlace(s, f)
<1>1. CASE Named(s, f) = {}
  <2>1. g = {}
    BY <1>1, NoGroup
  <2> QED BY <2>1 DEF Corroborating, Named
<1>2. CASE Named(s, f) # {}
  <2>1. PICK b \in Named(s, f) : g = GroupAround(s, f, b)
    BY <1>2, BestGroup
  <2>2. b \in ok /\ g \subseteq ok
    <3>1. b \in s
      BY <2>1, NamedAnswers
    <3> QED BY <2>1, <3>1, NamedAnswers
  <2>3. \A i \in g : PrefixOrEqual(TokensOf(i, f), TokensOf(b, f))
    BY <2>1 DEF GroupAround
  <2>4. TokensOf(b, f) \in Seq(AllWords)
        /\ \A i \in g : TokensOf(i, f) \in Seq(AllWords)
    BY <2>2, TokensAnswered
  <2>5. \A i, j \in g :
          /\ Match(TokensOf(i, f), TokensOf(j, f)) /\ TokensOf(i, f) # <<>>
          /\ Len(TokensOf(i, f)) <= Len(TokensOf(j, f))
               => PrefixOrEqual(TokensOf(i, f), TokensOf(j, f))
    BY <2>3, <2>4, PrefixFacts
  <2> HIDE DEF g
  <2>6. Corroborating(g, f) /\ Named(g, f) = g
    BY <2>5 DEF Corroborating, Named
  <2> QED BY <2>5, <2>6 DEF g
<1> QED BY <1>1, <1>2

(* Any sources that agree all lie in the group around one of them.          *)
LEMMA AgreeingAroundOne ==
  ASSUME results \in Inputs, NEW s \in SUBSET ok, NEW t \in SUBSET s,
         NEW f \in Fields, Corroborating(t, f), t # {}
  PROVE  \E i \in t \cap Named(s, f) : t \subseteq GroupAround(s, f, i)
<1> DEFINE before(i) == GroupAround(t, f, i)
           n == Cardinality(t)
           T == {n - Cardinality(before(i)) : i \in t}
<1>0. t \in SUBSET ok
  OBVIOUS
<1>1. \A i \in t : TokensOf(i, f) \in Seq(AllWords)
  BY <1>0, TokensAnswered
<1>2. \A i, j \in t : \/ PrefixOrEqual(TokensOf(i, f), TokensOf(j, f))
                      \/ PrefixOrEqual(TokensOf(j, f), TokensOf(i, f))
  BY DEF Corroborating, Match
<1>3. \A i \in t : TokensOf(i, f) # <<>>
  BY <1>2 DEF PrefixOrEqual
<1>4. \A i \in t : before(i) \in SUBSET t
  BY DEF GroupAround
<1>5. n \in Nat /\ \A i \in t : /\ Cardinality(before(i)) \in Nat
                               /\ Cardinality(before(i)) <= n
  BY <1>0, <1>4, Counting
<1>6. T \in SUBSET Nat /\ T # {}
  <2> HIDE DEF n, before
  <2> QED BY <1>5
<1>7. PICK i \in t :
        \A j \in t : Cardinality(before(j)) <= Cardinality(before(i))
  <2>1. PICK x \in T : \A y \in T : x <= y
    <3> HIDE DEF T
    <3> QED BY <1>6, SmallestNumber
  <2>2. PICK i \in t : x = n - Cardinality(before(i))
    OBVIOUS
  <2>3. \A j \in t : n - Cardinality(before(i)) <= n - Cardinality(before(j))
    BY <2>1, <2>2
  <2> HIDE DEF n, before
  <2> QED BY <1>5, <2>3
<1>8. \A j \in t : PrefixOrEqual(TokensOf(j, f), TokensOf(i, f))
  <2> SUFFICES ASSUME NEW j \in t,
                      ~PrefixOrEqual(TokensOf(j, f), TokensOf(i, f))
               PROVE  FALSE
    OBVIOUS
  <2>1. PrefixOrEqual(TokensOf(i, f), TokensOf(j, f))
    BY <1>2
  <2>2. before(i) \subseteq before(j)
    BY <1>1, <2>1, PrefixFacts DEF GroupAround
  <2>3. j \in before(j) /\ j \notin before(i)
    BY <1>1, <1>3, PrefixFacts DEF GroupAround
  <2>4. before(i) = before(j)
    <3>1. before(j) \in SUBSET ok
      BY <1>4
    <3>2. Cardinality(before(i)) <= Cardinality(before(j))
      BY <2>2, <3>1, Counting
    <3>3. Cardinality(before(i)) = Cardinality(before(j))
      <4> HIDE DEF before
      <4> QED BY <1>5, <1>7, <3>2
    <3> QED BY <2>2, <3>1, <3>3, Counting
  <2> QED BY <2>3, <2>4
<1> QED BY <1>3, <1>8 DEF Named, GroupAround

(* The name that stands for a group is one of those given in it, as shown,  *)
(* and none of them has fewer words.                                        *)
LEMMA ShortestName ==
  ASSUME results \in Inputs, NEW s \in SUBSET ok, NEW f \in Fields,
         Named(s, f) # {}
  PROVE  \E i \in Named(s, f) :
           /\ canonicalPlace(s, f) = Display[results[i][f]]
           /\ \A j \in Named(s, f) : Len(TokensOf(i, f)) <= Len(TokensOf(j, f))
<1> DEFINE S == Named(s, f)
           words(i) == Len(TokensOf(i, f))
           Shorter(i, j) ==
             \/ words(i) < words(j)
             \/ words(i) = words(j) /\ RankAt(i) < RankAt(j)
             \/ words(i) = words(j) /\ RankAt(i) = RankAt(j) /\ i < j
           best == CHOOSE i \in S : \A j \in S \ {i} : Shorter(i, j)
           a == [i \in S |-> words(i)]
           b == [i \in S |-> RankAt(i)]
<1>1. S \in SUBSET Nat /\ S # {} /\ S \subseteq ok
  BY NamedAnswers
<1>2. \A i \in S : words(i) \in Nat /\ RankAt(i) \in Nat
  BY <1>1, Answered, TokensAnswered, LenProperties
<1>3. a \in [S -> Nat] /\ b \in [S -> Nat]
  BY <1>2
<1>4. PICK i \in S : \A j \in S \ {i} :
        \/ a[i] < a[j]
        \/ a[i] = a[j] /\ b[i] < b[j]
        \/ a[i] = a[j] /\ b[i] = b[j] /\ i < j
  <2> HIDE DEF S, a, b
  <2> QED BY <1>1, <1>3, FirstByTwo
<1>5. \A j \in S \ {i} : Shorter(i, j)
  <2> HIDE DEF words, S
  <2> QED BY <1>4
<1>6. best \in S /\ \A j \in S \ {best} : Shorter(best, j)
  <2> HIDE DEF Shorter, S
  <2> QED BY <1>5
<1>7. \A j \in S : words(best) <= words(j)
  <2> HIDE DEF words, best
  <2> QED BY <1>2, <1>6
<1>8. canonicalPlace(s, f) = Display[results[best][f]]
  BY <1>1 DEF canonicalPlace
<1> QED BY <1>6, <1>7, <1>8

(* Shown or as it came, a name with words has the same words.               *)
LEMMA NameShown ==
  ASSUME results \in Inputs, NEW i \in ok, NEW f \in Fields,
         TokensOf(i, f) # <<>>
  PROVE  /\ Display[results[i][f]] # <<>>
         /\ Tokens[Display[results[i][f]]] = TokensOf(i, f)
BY Answered, TokensOfNames DEF TokensOf

-----------------------------------------------------------------------------
(* The two votes. *)

LEMMA VotesCounted ==
  ASSUME results \in Inputs
  PROVE  /\ \A c \in CountryCodes : /\ c \in Code /\ VotesFor(c) # {}
                                    /\ RankOf(VotesFor(c)) \in Nat
                                    /\ Cardinality(VotesFor(c)) \in Nat \ {0}
         /\ \A x \in ASNs : /\ x \in Nat
                            /\ Cardinality(VotesForASN(x)) \in Nat \ {0}
<1>1. ASSUME NEW c \in CountryCodes
      PROVE  /\ c \in Code /\ VotesFor(c) # {} /\ VotesFor(c) \in SUBSET ok
  BY <1>1, Answered DEF CountryCodes, VotesFor, Result
<1>2. ASSUME NEW x \in ASNs
      PROVE  x \in Nat /\ VotesForASN(x) # {} /\ VotesForASN(x) \in SUBSET ok
  BY <1>2, Answered DEF ASNs, VotesForASN, Result
<1> QED BY <1>1, <1>2, Counting, RankOfMany

(* The codes are in one order.                                              *)
LEMMA CodesOrdered ==
  /\ \A c, d \in Code : c = d \/ Before(c, d) \/ Before(d, c)
  /\ \A c, d, e \in Code : Before(c, d) /\ Before(d, e) => Before(c, e)
<1>1. DOMAIN Codes = 1 .. Len(Codes) /\ Len(Codes) \in Nat
  <2>1. Codes \in Seq(Code)
    BY CodesAssumption
  <2> QED BY <2>1, LenProperties
<1>2. \A c \in Code : \E i \in DOMAIN Codes : Codes[i] = c
  BY DEF Code, Range
<1>3. ASSUME NEW c \in Code, NEW d \in Code, c # d
      PROVE  Before(c, d) \/ Before(d, c)
  <2>1. PICK i \in DOMAIN Codes : Codes[i] = c
    BY <1>2
  <2>2. PICK j \in DOMAIN Codes : Codes[j] = d
    BY <1>2
  <2>3. i < j \/ j < i
    BY <1>1, <1>3, <2>1, <2>2
  <2> QED BY <2>1, <2>2, <2>3 DEF Before
<1>4. ASSUME NEW c \in Code, NEW d \in Code, NEW e \in Code,
             Before(c, d), Before(d, e)
      PROVE  Before(c, e)
  <2>1. PICK i \in DOMAIN Codes, j \in DOMAIN Codes :
          i < j /\ Codes[i] = c /\ Codes[j] = d
    BY <1>4 DEF Before
  <2>2. PICK k \in DOMAIN Codes, l \in DOMAIN Codes :
          k < l /\ Codes[k] = d /\ Codes[l] = e
    BY <1>4 DEF Before
  <2>3. j = k
    BY <2>1, <2>2, CodesAssumption
  <2>4. i < l
    BY <1>1, <2>1, <2>2, <2>3
  <2> QED BY <2>1, <2>2, <2>4 DEF Before
<1> QED BY <1>3, <1>4

(* What a turn of the loops makes of a candidate, and when it is ahead of   *)
(* another.                                                                 *)
Candidate(c) == [code |-> c, n |-> Cardinality(VotesFor(c)),
                 rank |-> RankOf(VotesFor(c))]
Ahead(c, d) ==
  LET n(e) == Cardinality(VotesFor(e))
      r(e) == RankOf(VotesFor(e))
  IN  \/ n(c) > n(d)
      \/ n(c) = n(d) /\ r(c) < r(d)
      \/ n(c) = n(d) /\ r(c) = r(d) /\ Before(c, d)

CandidateASN(x) == [asn |-> x, n |-> Cardinality(VotesForASN(x))]
AheadASN(x, y) ==
  LET n(z) == Cardinality(VotesForASN(z))
  IN  n(x) > n(y) \/ (n(x) = n(y) /\ x < y)

LEMMA AheadOrdered ==
  ASSUME results \in Inputs, NEW c \in CountryCodes, NEW d \in CountryCodes
  PROVE  /\ c = d \/ Ahead(c, d) \/ Ahead(d, c)
         /\ \A e \in CountryCodes : Ahead(c, d) /\ Ahead(d, e) => Ahead(c, e)
         /\ Beats(Candidate(c), Candidate(d)) <=> Ahead(c, d)
<1>1. \A e \in CountryCodes : /\ e \in Code /\ RankOf(VotesFor(e)) \in Nat
                              /\ Cardinality(VotesFor(e)) \in Nat
  BY VotesCounted
<1>2. c = d \/ Ahead(c, d) \/ Ahead(d, c)
  BY <1>1, CodesOrdered DEF Ahead
<1>3. \A e \in CountryCodes : Ahead(c, d) /\ Ahead(d, e) => Ahead(c, e)
  BY <1>1, CodesOrdered DEF Ahead
<1>4. Beats(Candidate(c), Candidate(d)) <=> Ahead(c, d)
  BY DEF Beats, Candidate, Ahead
<1> QED BY <1>2, <1>3, <1>4

LEMMA AheadOrderedASN ==
  ASSUME results \in Inputs, NEW x \in ASNs, NEW y \in ASNs
  PROVE  /\ x = y \/ AheadASN(x, y) \/ AheadASN(y, x)
         /\ \A z \in ASNs : AheadASN(x, y) /\ AheadASN(y, z) => AheadASN(x, z)
         /\ BeatsASN(CandidateASN(x), CandidateASN(y)) <=> AheadASN(x, y)
<1>1. \A z \in ASNs : z \in Nat /\ Cardinality(VotesForASN(z)) \in Nat
  BY VotesCounted
<1> QED BY <1>1 DEF AheadASN, BeatsASN, CandidateASN

-----------------------------------------------------------------------------
(* The invariant: each loop holds the best of what it has read back, and    *)
(* the location is the verdict on that.                                     *)

NoVotes  == [code |-> "", n |-> 0, rank |-> 0]
Country ==
  /\ seen \subseteq CountryCodes
  /\ phase \in {"asn", "done"} => seen = CountryCodes
  /\ seen = {} => top = NoVotes
  /\ seen # {} => /\ top.code \in seen /\ top = Candidate(top.code)
                  /\ \A c \in seen \ {top.code} : Ahead(top.code, c)
System ==
  /\ seenASN \subseteq ASNs
  /\ phase = "done" => seenASN = ASNs
  /\ seenASN = {} => asn = [asn |-> 0, n |-> 0]
  /\ seenASN # {} => /\ asn.asn \in seenASN /\ asn = CandidateASN(asn.asn)
                     /\ \A x \in seenASN \ {asn.asn} : AheadASN(asn.asn, x)
Published ==
  /\ phase = "asn" => loc = Verdict
  /\ phase = "done" => loc = [Verdict EXCEPT !.asn = asn.asn]
IInv == results \in Inputs /\ Country /\ System /\ Published

(* What is made of the answers does not change while they do not.           *)
LEMMA SameAnswers ==
  ASSUME UNCHANGED results
  PROVE  /\ ok' = ok
         /\ \A s, f : agreeOnPlace(s, f)' = agreeOnPlace(s, f)
         /\ \A s, f : canonicalPlace(s, f)' = canonicalPlace(s, f)
         /\ CountryCodes' = CountryCodes /\ ASNs' = ASNs
         /\ \A c : Candidate(c)' = Candidate(c)
         /\ \A c, d : Ahead(c, d)' <=> Ahead(c, d)
         /\ \A x : CandidateASN(x)' = CandidateASN(x)
         /\ \A x, y : AheadASN(x, y)' <=> AheadASN(x, y)
<1>1. ok' = ok
  BY DEF ok
<1>2. \A s, f : agreeOnPlace(s, f)' = agreeOnPlace(s, f)
  BY SMT DEF agreeOnPlace, Named, GroupAround, RankOf, RankAt, TokensOf
<1>3. \A s, f : canonicalPlace(s, f)' = canonicalPlace(s, f)
  BY SMT DEF canonicalPlace, Named, RankAt, TokensOf
<1>4. CountryCodes' = CountryCodes /\ ASNs' = ASNs
  BY <1>1 DEF CountryCodes, ASNs
<1>5. /\ \A c : Candidate(c)' = Candidate(c)
      /\ \A c, d : Ahead(c, d)' <=> Ahead(c, d)
  BY <1>1 DEF Candidate, Ahead, VotesFor, RankOf, RankAt
<1>6. /\ \A x : CandidateASN(x)' = CandidateASN(x)
      /\ \A x, y : AheadASN(x, y)' <=> AheadASN(x, y)
  BY <1>1 DEF CandidateASN, AheadASN, VotesForASN
<1> QED BY <1>1, <1>2, <1>3, <1>4, <1>5, <1>6

LEMMA SameVerdict ==
  ASSUME UNCHANGED <<results, top>>
  PROVE  Verdict' = Verdict
<1>1. Agreeing' = Agreeing
  BY SameAnswers DEF Agreeing
<1>2. Region' = Region
  <2>1. agreeOnPlace(Agreeing, "region")' = agreeOnPlace(Agreeing, "region")
    BY <1>1, SameAnswers
  <2> QED BY <2>1, SameAnswers DEF Region
<1>3. \A c : Rendering(c)' = Rendering(c)
  BY SMT DEF Rendering, VotesFor, RankAt, RankOf, Min, ok
<1>4. \A c : NameOf(c)' = NameOf(c)
  BY <1>3 DEF NameOf
<1>5. CountryVerdict' = CountryVerdict
  BY <1>4 DEF CountryVerdict, Usable
<1>6. canonicalPlace(Agreeing, "city")' = canonicalPlace(Agreeing, "city")
  BY <1>1, SameAnswers
<1> QED BY <1>2, <1>5, <1>6 DEF Verdict

LEMMA CountryStep ==
  ASSUME IInv, NEW c \in Code, ReadCountry(c)
  PROVE  IInv'
<1>0. /\ c \in CountryCodes /\ c \notin seen /\ seen' = seen \cup {c}
      /\ UNCHANGED <<results, phase, seenASN, asn, loc>> /\ phase = "country"
      /\ top' = IF Beats(Candidate(c), top) THEN Candidate(c) ELSE top
  BY DEF ReadCountry, Candidate
<1>1. results \in Inputs /\ results' \in Inputs /\ Country
  BY <1>0 DEF IInv
<1>2. \A d : Candidate(d)' = Candidate(d)
  BY <1>0, SameAnswers
<1>3. \A d, e : Ahead(d, e)' <=> Ahead(d, e)
  BY <1>0, SameAnswers
<1>4. CountryCodes' = CountryCodes /\ seen' \subseteq CountryCodes
  BY <1>0, <1>1, SameAnswers DEF Country
<1>5. /\ top'.code \in seen' /\ top' = Candidate(top'.code)
      /\ \A d \in seen' \ {top'.code} : Ahead(top'.code, d)
  <2>1. CASE seen = {}
    <3>1. Candidate(c).n > 0 /\ top.n = 0
      <4>1. Candidate(c).n \in Nat \ {0}
        BY <1>0, <1>1, VotesCounted DEF Candidate
      <4>2. top = NoVotes
        BY <1>1, <2>1 DEF Country
      <4>3. top.n = 0
        BY <4>2 DEF NoVotes
      <4> QED BY <4>1, <4>3
    <3>2. top' = Candidate(c) /\ Candidate(c).code = c
      BY <1>0, <3>1 DEF Beats, Candidate
    <3> QED BY <1>0, <2>1, <3>2
  <2>2. CASE seen # {}
    <3>1. /\ top.code \in seen /\ top = Candidate(top.code) /\ top.code # c
          /\ top.code \in CountryCodes
          /\ \A d \in seen \ {top.code} :
               d \in CountryCodes /\ Ahead(top.code, d)
      BY <1>0, <1>1, <2>2 DEF Country
    <3>2. Beats(Candidate(c), top) <=> Ahead(c, top.code)
      BY <1>0, <1>1, <3>1, AheadOrdered
    <3>3. CASE Ahead(c, top.code)
      <4>1. top' = Candidate(c) /\ top'.code = c
        BY <1>0, <3>2, <3>3 DEF Candidate
      <4>2. \A d \in seen : Ahead(c, d)
        BY <1>0, <1>1, <3>1, <3>3, AheadOrdered
      <4> QED BY <1>0, <4>1, <4>2
    <3>4. CASE ~Ahead(c, top.code)
      <4>1. top' = top
        BY <1>0, <3>2, <3>4
      <4>2. Ahead(top.code, c)
        BY <1>0, <1>1, <3>1, <3>4, AheadOrdered
      <4> QED BY <1>0, <3>1, <4>1, <4>2
    <3> QED BY <3>3, <3>4
  <2> QED BY <2>1, <2>2
<1>6. Country'
  BY <1>0, <1>2, <1>3, <1>4, <1>5 DEF Country
<1>7. System' /\ Published'
  BY <1>0, SameAnswers DEF IInv, System, Published
<1> QED BY <1>1, <1>6, <1>7 DEF IInv

LEMMA SystemStep ==
  ASSUME IInv, NEW x \in ASNs, ReadASN(x)
  PROVE  IInv'
<1>0. /\ x \in ASNs /\ x \notin seenASN /\ seenASN' = seenASN \cup {x}
      /\ UNCHANGED <<results, phase, seen, top, loc>> /\ phase = "asn"
      /\ asn' = IF BeatsASN(CandidateASN(x), asn) THEN CandidateASN(x) ELSE asn
  BY DEF ReadASN, CandidateASN
<1>1. results \in Inputs /\ results' \in Inputs /\ System
  BY <1>0 DEF IInv
<1>2. \A y : CandidateASN(y)' = CandidateASN(y)
  BY <1>0, SameAnswers
<1>3. \A y, z : AheadASN(y, z)' <=> AheadASN(y, z)
  BY <1>0, SameAnswers
<1>4. ASNs' = ASNs /\ seenASN' \subseteq ASNs
  BY <1>0, <1>1, SameAnswers DEF System
<1>5. /\ asn'.asn \in seenASN' /\ asn' = CandidateASN(asn'.asn)
      /\ \A y \in seenASN' \ {asn'.asn} : AheadASN(asn'.asn, y)
  <2>1. CASE seenASN = {}
    <3>1. CandidateASN(x).n > 0 /\ asn.n = 0
      BY <1>0, <1>1, <2>1, VotesCounted DEF CandidateASN, System
    <3>2. asn' = CandidateASN(x) /\ CandidateASN(x).asn = x
      BY <1>0, <3>1 DEF BeatsASN, CandidateASN
    <3> QED BY <1>0, <2>1, <3>2
  <2>2. CASE seenASN # {}
    <3>1. /\ asn.asn \in seenASN /\ asn = CandidateASN(asn.asn) /\ asn.asn # x
          /\ asn.asn \in ASNs
          /\ \A y \in seenASN \ {asn.asn} : y \in ASNs /\ AheadASN(asn.asn, y)
      BY <1>0, <1>1, <2>2 DEF System
    <3>2. BeatsASN(CandidateASN(x), asn) <=> AheadASN(x, asn.asn)
      BY <1>0, <1>1, <3>1, AheadOrderedASN
    <3>3. CASE AheadASN(x, asn.asn)
      <4>1. asn' = CandidateASN(x) /\ asn'.asn = x
        BY <1>0, <3>2, <3>3 DEF CandidateASN
      <4>2. \A y \in seenASN : AheadASN(x, y)
        BY <1>0, <1>1, <3>1, <3>3, AheadOrderedASN
      <4> QED BY <1>0, <4>1, <4>2
    <3>4. CASE ~AheadASN(x, asn.asn)
      <4>1. asn' = asn
        BY <1>0, <3>2, <3>4
      <4>2. AheadASN(asn.asn, x)
        BY <1>0, <1>1, <3>1, <3>4, AheadOrderedASN
      <4> QED BY <1>0, <3>1, <4>1, <4>2
    <3> QED BY <3>3, <3>4
  <2> QED BY <2>1, <2>2
<1>6. System'
  BY <1>0, <1>2, <1>3, <1>4, <1>5 DEF System
<1>7. Verdict' = Verdict
  BY <1>0, SameVerdict
<1>8. Country'
  BY <1>0, SameAnswers DEF IInv, Country
<1>9. Published'
  BY <1>0, <1>7 DEF IInv, Published
<1> QED BY <1>1, <1>6, <1>8, <1>9 DEF IInv

LEMMA IInvInit == Init => IInv
BY DEF Init, IInv, Country, System, Published, NoVotes

LEMMA IInvNext == IInv /\ [Next]_vars => IInv'
<1> SUFFICES ASSUME IInv, [Next]_vars PROVE IInv'
  OBVIOUS
<1> USE DEF IInv, Country, System, Published
<1>1. CASE NoQuorum
  <2>1. /\ UNCHANGED <<results, seen, seenASN, top, asn>>
        /\ phase' = "no_consensus"
    BY <1>1 DEF NoQuorum
  <2> QED BY <2>1, SameAnswers
<1>2. CASE Quorum
  <2>1. UNCHANGED <<results, seen, seenASN, top, asn>> /\ phase' = "country"
    BY <1>2 DEF Quorum
  <2> QED BY <2>1, SameAnswers
<1>3. ASSUME NEW c \in Code, ReadCountry(c) PROVE IInv'
  BY <1>3, CountryStep
<1>4. CASE Decide
  <2>1. /\ UNCHANGED <<results, seen, seenASN, top, asn>> /\ phase' = "asn"
        /\ seen = CountryCodes /\ loc' = Verdict
    BY <1>4 DEF Decide
  <2>2. Verdict' = Verdict
    BY <2>1, SameVerdict
  <2> QED BY <2>1, <2>2, SameAnswers
<1>5. ASSUME NEW x \in ASNs, ReadASN(x) PROVE IInv'
  BY <1>5, SystemStep
<1>6. CASE Finish
  <2>1. /\ UNCHANGED <<results, seen, seenASN, top, asn>> /\ phase' = "done"
        /\ phase = "asn" /\ seenASN = ASNs
        /\ loc' = [loc EXCEPT !.asn = asn.asn]
    BY <1>6 DEF Finish
  <2>2. Verdict' = Verdict
    BY <2>1, SameVerdict
  <2> QED BY <2>1, <2>2, SameAnswers
<1>7. CASE Finished \/ UNCHANGED vars
  <2>1. UNCHANGED vars
    BY <1>7 DEF Finished
  <2>2. UNCHANGED <<results, phase, seen, seenASN, top, asn, loc>>
    BY <2>1 DEF vars
  <2>3. Verdict' = Verdict
    BY <2>2, SameVerdict
  <2> QED BY <2>2, <2>3, SameAnswers
<1> QED BY <1>1, <1>2, <1>3, <1>4, <1>5, <1>6, <1>7 DEF Next

LEMMA Invariant == Spec => []IInv
BY IInvInit, IInvNext, PTL DEF Spec

-----------------------------------------------------------------------------
(* In whatever order the two maps are read back, the country and the system *)
(* that come out are those ahead of all others: the location is a function  *)
(* of the answers.                                                          *)
THEOREM OrderIsInvisible == Spec => []MapOrderIsInvisible
<1>1. IInv => MapOrderIsInvisible
  <2> SUFFICES ASSUME IInv, phase = "done" PROVE MapOrderIsInvisible
    BY DEF MapOrderIsInvisible
  <2>1. \A c \in CountryCodes \ {top.code} : Ahead(top.code, c)
    BY DEF IInv, Country
  <2>2. \A x \in ASNs \ {asn.asn} : AheadASN(asn.asn, x)
    BY DEF IInv, System
  <2>3. loc.asn = asn.asn
    BY DEF IInv, Published, Verdict, CountryVerdict, Nothing
  <2> QED BY <2>1, <2>2, <2>3 DEF MapOrderIsInvisible, Ahead, AheadASN
<1> QED BY <1>1, Invariant, PTL

(* What the city's verdict rests on. *)
LEMMA CityRests ==
  ASSUME results \in Inputs, Region # <<>>
  PROVE  /\ Agreeing = agreeOnPlace(ok, "city") /\ Agreeing \in SUBSET ok
         /\ Cardinality(Agreeing) >= 2 /\ Named(Agreeing, "city") = Agreeing
         /\ Agreeing # {}
<1> DEFINE g == agreeOnPlace(ok, "city")
<1>1. "city" \in Fields /\ "region" \in Fields
  BY DEF Fields
<1>2. g \in SUBSET ok /\ Named(g, "city") = g
  BY <1>1, GroupType, GroupAgrees
<1>3. Agreeing # {}
  <2> SUFFICES ASSUME Agreeing = {} PROVE FALSE
    OBVIOUS
  <2>1. Named(Agreeing, "region") = {}
    BY DEF Named
  <2>2. agreeOnPlace(Agreeing, "region") = {}
    BY <2>1, NoGroup
  <2>3. Named(agreeOnPlace(Agreeing, "region"), "region") = {}
    BY <2>2 DEF Named
  <2> QED BY <2>3 DEF Region, canonicalPlace
<1>4. Agreeing = g /\ Cardinality(g) >= 2
  BY <1>3 DEF Agreeing
<1> QED BY <1>2, <1>3, <1>4

(* The city that is published, and who agreed on it.                        *)
LEMMA CityPublished ==
  ASSUME results \in Inputs, Region # <<>>
  PROVE  LET city == canonicalPlace(Agreeing, "city") IN
         /\ city # <<>>
         /\ \A j \in Agreeing : PrefixOrEqual(Tokens[city], TokensOf(j, "city"))
<1> DEFINE city == canonicalPlace(Agreeing, "city")
<1>1. "city" \in Fields
  BY DEF Fields
<1>2. /\ Agreeing \in SUBSET ok /\ Named(Agreeing, "city") = Agreeing
      /\ Agreeing = agreeOnPlace(ok, "city") /\ Agreeing # {}
  BY CityRests
<1>3. PICK i \in Agreeing :
        /\ city = Display[results[i]["city"]]
        /\ \A j \in Agreeing :
             Len(TokensOf(i, "city")) <= Len(TokensOf(j, "city"))
  BY <1>1, <1>2, ShortestName
<1>4. TokensOf(i, "city") # <<>>
  BY <1>2 DEF Named
<1>5. city # <<>> /\ Tokens[city] = TokensOf(i, "city")
  BY <1>1, <1>2, <1>3, <1>4, NameShown
<1>6. \A j \in Agreeing :
        PrefixOrEqual(TokensOf(i, "city"), TokensOf(j, "city"))
  BY <1>1, <1>2, <1>3, GroupAgrees
<1> QED BY <1>5, <1>6

(* The verdict on the country. *)
LEMMA CountryPublished ==
  ASSUME IInv, phase \in {"asn", "done"}, loc.countryConfident
  PROVE  /\ loc.code \in Alpha2 /\ loc.country # ""
         /\ Cardinality(VotesFor(loc.code)) >= MinSources
<1>1. /\ loc.code = CountryVerdict.code /\ loc.country = CountryVerdict.country
      /\ loc.countryConfident = CountryVerdict.countryConfident
  BY DEF IInv, Published, Verdict, CountryVerdict, Nothing
<1>2. top.n >= MinSources /\ Usable(top.code)
  BY <1>1 DEF CountryVerdict, Nothing
<1>3. loc.code = top.code /\ loc.country = NameOf(top.code)
  BY <1>1, <1>2 DEF CountryVerdict, Nothing
<1>4. seen # {}
  <2>1. top # NoVotes
    <3>1. NoVotes.n = 0
      BY DEF NoVotes
    <3>2. top.n # 0
      BY <1>2, QuorumAssumption
    <3> QED BY <3>1, <3>2
  <2> QED BY <2>1 DEF IInv, Country
<1>5. top.n = Cardinality(VotesFor(top.code))
  <2>1. top = Candidate(top.code)
    BY <1>4 DEF IInv, Country
  <2> QED BY <2>1 DEF Candidate
<1> QED BY <1>2, <1>3, <1>5 DEF Usable

LEMMA CityVerdict ==
  ASSUME IInv, phase \in {"asn", "done"}, loc.cityConfident
  PROVE  Region # <<>> /\ loc.region = Region
         /\ loc.city = canonicalPlace(Agreeing, "city")
<1>1. loc.cityConfident = Verdict.cityConfident /\ loc.city = Verdict.city
      /\ loc.region = Verdict.region
  BY DEF IInv, Published, Verdict, CountryVerdict, Nothing
<1>2. Region # <<>>
  BY <1>1 DEF Verdict, CountryVerdict, Nothing
<1> QED BY <1>1, <1>2 DEF Verdict, CountryVerdict, Nothing

(* Whatever is called confident is complete: the server has no reason to    *)
(* refuse it for its form.                                                  *)
THEOREM ConfidenceIsComplete == Spec => []ConfidentIsComplete
<1>1. IInv => ConfidentIsComplete
  <2> SUFFICES ASSUME IInv, phase = "done" PROVE ConfidentIsComplete
    BY DEF ConfidentIsComplete
  <2>1. loc.countryConfident => /\ loc.code \in Alpha2 /\ loc.country # ""
                                /\ Cardinality(VotesFor(loc.code)) >= MinSources
    BY CountryPublished
  <2>2. loc.cityConfident => loc.city # <<>> /\ loc.region # <<>>
    BY CityVerdict, CityPublished DEF IInv
  <2> QED BY <2>1, <2>2 DEF ConfidentIsComplete
<1> QED BY <1>1, Invariant, PTL

(* The group around one name is a largest set of sources that agree, and    *)
(* all of it agrees, though the match is not transitive.                    *)
THEOREM GroupsPairwise == Spec => []GroupsArePairwise
<1>1. IInv => GroupsArePairwise
  <2> DEFINE group == agreeOnPlace(ok, "city")
  <2> SUFFICES ASSUME results \in Inputs
               PROVE  /\ Corroborating(group, "city")
                      /\ \A s \in SUBSET ok :
                           Corroborating(s, "city")
                             => Cardinality(s) <= Cardinality(group)
    BY DEF IInv, GroupsArePairwise
  <2>1. "city" \in Fields
    BY DEF Fields
  <2>2. Corroborating(group, "city") /\ group \in SUBSET ok
    BY <2>1, GroupAgrees, GroupType
  <2>3. ASSUME NEW s \in SUBSET ok, Corroborating(s, "city")
        PROVE  Cardinality(s) <= Cardinality(group)
    <3>1. CASE s = {}
      <4>1. Cardinality(s) = 0 /\ Cardinality(group) \in Nat
        BY <2>2, <3>1, Counting
      <4> QED BY <4>1
    <3>2. CASE s # {}
      <4>1. PICK i \in s \cap Named(ok, "city") :
              s \subseteq GroupAround(ok, "city", i)
        BY <2>1, <2>3, <3>2, AgreeingAroundOne
      <4>2. Cardinality(GroupAround(ok, "city", i)) <= Cardinality(group)
        BY <2>1, <4>1, BestGroup
      <4>3. GroupAround(ok, "city", i) \in SUBSET ok
        BY DEF GroupAround
      <4>4. Cardinality(s) <= Cardinality(GroupAround(ok, "city", i))
        BY <4>1, <4>3, Counting
      <4>5. /\ Cardinality(s) \in Nat /\ Cardinality(group) \in Nat
            /\ Cardinality(GroupAround(ok, "city", i)) \in Nat
        BY <2>2, <4>3, Counting
      <4> QED BY <4>2, <4>4, <4>5
    <3> QED BY <3>1, <3>2
  <2> QED BY <2>2, <2>3
<1> QED BY <1>1, Invariant, PTL

(* The published city asserts what all of the group said, and with so few   *)
(* sources that two groups cannot lie apart, one of the group voted for the *)
(* country it is stored under.                                              *)
THEOREM CityIsAgreed == Spec => []CityIsWhatAllSaid
<1>1. IInv => CityIsWhatAllSaid
  <2> SUFFICES ASSUME IInv, phase = "done", loc.cityConfident
               PROVE  CityIsWhatAllSaid
    BY DEF CityIsWhatAllSaid
  <2> DEFINE s == Agreeing
             v == VotesFor(loc.code)
  <2>1. results \in Inputs /\ Region # <<>>
        /\ loc.city = canonicalPlace(Agreeing, "city")
    BY CityVerdict DEF IInv
  <2>2. /\ s = agreeOnPlace(ok, "city") /\ s \in SUBSET ok
        /\ Cardinality(s) >= 2
    BY <2>1, CityRests
  <2>3. \A i \in s : PrefixOrEqual(Tokens[loc.city], TokensOf(i, "city"))
    BY <2>1, CityPublished
  <2>4. ASSUME Len(results) < 2 + MinSources, loc.countryConfident
        PROVE  s \cap v # {}
    <3> SUFFICES ASSUME s \cap v = {} PROVE FALSE
      OBVIOUS
    <3>1. Cardinality(v) >= MinSources /\ v \in SUBSET ok
      BY <2>4, CountryPublished DEF VotesFor
    <3>2. Len(results) \in Nat /\ ok \subseteq 1 .. Len(results)
      BY <2>1, Answered
    <3>3. IsFiniteSet(s) /\ IsFiniteSet(v) /\ Cardinality(s) \in Nat
          /\ Cardinality(v) \in Nat
      BY <2>1, <2>2, <3>1, Counting
    <3>4. Cardinality(s \cup v) = Cardinality(s) + Cardinality(v)
      <4>1. Cardinality(s \cap v) = 0
        BY FS_EmptySet
      <4>2. Cardinality(s \cup v)
              = Cardinality(s) + Cardinality(v) - Cardinality(s \cap v)
        BY <3>3, FS_Union
      <4> HIDE DEF s, v
      <4> QED BY <3>3, <4>1, <4>2
    <3>5. Cardinality(s \cup v) <= Len(results)
      <4>1. 1 \in Int /\ Len(results) \in Int
        BY <3>2
      <4>2. IsFiniteSet(1 .. Len(results))
            /\ Cardinality(1 .. Len(results)) = Len(results)
        BY <3>2, <4>1, FS_Interval
      <4>3. s \cup v \subseteq 1 .. Len(results)
        BY <2>2, <3>1, <3>2
      <4> QED BY <4>2, <4>3, FS_Subset
    <3> HIDE DEF s, v
    <3> QED BY <2>2, <2>4, <3>1, <3>2, <3>3, <3>4, <3>5, QuorumAssumption
  <2> HIDE DEF s, v
  <2>5. /\ s \in SUBSET ok /\ Cardinality(s) >= 2
        /\ s = agreeOnPlace(ok, "city")
        /\ \A i \in s : PrefixOrEqual(Tokens[loc.city], TokensOf(i, "city"))
        /\ Len(results) < 2 + MinSources /\ loc.countryConfident
             => s \cap VotesFor(loc.code) # {}
    BY <2>2, <2>3, <2>4 DEF v
  <2> QED BY <2>5 DEF CityIsWhatAllSaid
<1> QED BY <1>1, Invariant, PTL


-----------------------------------------------------------------------------
(* The names the sources give. *)

LEMMA NamesAreSequences ==
  ASSUME results \in Inputs, NEW n \in NamesGiven
  PROVE  n \in Seq(Range(n))
<1>1. results \in Seq(Result)
  BY InputsAssumption
<1>2. PICK i \in DOMAIN results : n \in {results[i].city, results[i].region}
  BY DEF NamesGiven
<1>3. results[i] \in Result
  BY <1>1
<1>4. n \in Names
  BY <1>2, <1>3 DEF Result
<1> QED BY <1>4, PlacesAssumption

(* Of every name a source gives, whatever its parentheses, exactly the      *)
(* groups that the comment of reduceParentheticals speaks of are removed.   *)
THEOREM EveryNameIsReduced == Spec => []NamesReduceAsSaid
<1>1. IInv => NamesReduceAsSaid
  BY NamesAreSequences, ReducesAsSaid DEF IInv, NamesReduceAsSaid
<1> QED BY <1>1, Invariant, PTL

(* The stored form of every name shows the words that were compared, and    *)
(* compares like the name when it comes back.                               *)
THEOREM EveryNameIsShown == Spec => []NamesShownAsMatched
<1>1. IInv => NamesShownAsMatched
  BY NamesAreSequences, ShownLikeMatched DEF IInv, NamesShownAsMatched
<1> QED BY <1>1, Invariant, PTL
=============================================================================
