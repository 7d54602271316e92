-------------------------- MODULE PlaceNamesProofs --------------------------
(***************************************************************************)
(* Theorems about PlaceNames, for names of any length and any runes.       *)
(*                                                                         *)
(* The scans of PlaceNames are folds.  FoldLeft runs through the sets of   *)
(* positions of a sequence by their greatest members; the first part turns *)
(* each fold into an equation that says what one more rune does to it, and *)
(* everything else is induction over the runes of a name.                  *)
(***************************************************************************)
EXTENDS PlaceNames, SequenceTheorems, SumLemmas

-----------------------------------------------------------------------------
(* Folds. *)

LEMMA MaxIsGreatest ==
  ASSUME NEW T \in SUBSET Int, NEW x \in T, \A y \in T : x >= y
  PROVE  Max(T) = x
<1>1. Max(T) \in T /\ \A y \in T : Max(T) >= y
  BY DEF Max
<1> DEFINE m == Max(T)
<1>2. m \in Int /\ x \in Int /\ m >= x /\ x >= m
  BY <1>1
<1> HIDE DEF m
<1>3. m = x
  BY <1>2
<1> QED BY <1>3 DEF m

LEMMA MaxOfPositions ==
  ASSUME NEW n \in Nat, NEW part \in SUBSET (1 .. n), part # {}
  PROVE  Max(part) \in part
<1> DEFINE T == {n - x : x \in part}
<1>0. \A x \in part : n - x \in Nat
  OBVIOUS
<1>1. T \in SUBSET Nat /\ T # {}
  BY <1>0
<1>2. PICK m \in T : \A y \in T : m <= y
  BY <1>1, SmallestNumber
<1>3. PICK x \in part : m = n - x
  OBVIOUS
<1>4. \A y \in part : x >= y
  <2> SUFFICES ASSUME NEW y \in part PROVE x >= y
    OBVIOUS
  <2>1. n - x <= n - y
    BY <1>2, <1>3
  <2>2. x \in Nat /\ y \in Nat
    OBVIOUS
  <2> HIDE DEF T
  <2> QED BY <2>1, <2>2
<1>5. part \in SUBSET Int
  OBVIOUS
<1> QED BY <1>4, <1>5, MaxIsGreatest

(* What FoldLeft defines over the subsets of 1 .. n exists, and stays among *)
(* the states X that the steps lead from and to.                            *)
Folds(iter, n, X, base, step) ==
  /\ iter \in [SUBSET (1 .. n) -> X]
  /\ iter[{}] = base
  /\ \A part \in SUBSET (1 .. n) : part # {} =>
       iter[part] = step[Max(part)][iter[part \ {Max(part)}]]

LEMMA FoldsExist ==
  ASSUME NEW n \in Nat, NEW X, NEW base \in X, NEW step \in [1 .. n -> [X -> X]]
  PROVE  \E iter : Folds(iter, n, X, base, step)
<1> DEFINE Meets(iter, k) ==
             /\ iter \in [SUBSET (1 .. k) -> X]
             /\ iter[{}] = base
             /\ \A part \in SUBSET (1 .. k) : part # {} =>
                  iter[part] = step[Max(part)][iter[part \ {Max(part)}]]
           Bad == {k \in 0 .. n : ~ \E iter : Meets(iter, k)}
<1> HIDE DEF Meets
<1>0. Bad \in SUBSET Nat
  OBVIOUS
<1>1. Bad = {}
  <2> SUFFICES ASSUME Bad # {} PROVE FALSE
    OBVIOUS
  <2>1. PICK k \in Bad : \A j \in Bad : k <= j
    BY <1>0, SmallestNumber
  <2>2. k # 0
    <3> DEFINE g == [part \in SUBSET (1 .. 0) |-> base]
    <3>1. \A part \in SUBSET (1 .. 0) : part = {}
      OBVIOUS
    <3>2. g \in [SUBSET (1 .. 0) -> X] /\ g[{}] = base
      OBVIOUS
    <3> HIDE DEF g
    <3>3. Meets(g, 0)
      BY <3>1, <3>2 DEF Meets
    <3> QED BY <2>1, <3>3
  <2>3. k - 1 \in 0 .. n /\ k - 1 \notin Bad /\ k \in 1 .. n
    <3>1. k \in 0 .. n /\ k - 1 \in 0 .. n /\ k \in 1 .. n /\ ~(k <= k - 1)
      BY <2>2
    <3> HIDE DEF Bad
    <3> QED BY <2>1, <3>1
  <2>4. PICK h : Meets(h, k - 1)
    BY <2>3
  <2> USE DEF Meets
  <2> HIDE DEF Bad
  <2> DEFINE g == [part \in SUBSET (1 .. k) |->
                     IF k \in part THEN step[k][h[part \ {k}]] ELSE h[part]]
  <2>5. \A part \in SUBSET (1 .. k) :
          /\ part \ {k} \in SUBSET (1 .. k - 1)
          /\ k \notin part => part \in SUBSET (1 .. k - 1)
    BY <2>3
  <2>6. g \in [SUBSET (1 .. k) -> X]
    <3>1. step[k] \in [X -> X]
      BY <2>3
    <3>2. h \in [SUBSET (1 .. k - 1) -> X]
      BY <2>4
    <3> QED BY <2>5, <3>1, <3>2
  <2>7. g[{}] = base
    BY <2>4
  <2>8. ASSUME NEW part \in SUBSET (1 .. k), part # {}
        PROVE  g[part] = step[Max(part)][g[part \ {Max(part)}]]
    <3>1. CASE k \in part
      <4>1. Max(part) = k
        <5>1. part \in SUBSET Int /\ \A y \in part : k >= y
          BY <2>3
        <5> QED BY <3>1, <5>1, MaxIsGreatest
      <4>2. g[part \ {k}] = h[part \ {k}]
        BY <2>5
      <4>3. g[part] = step[k][h[part \ {k}]]
        BY <3>1
      <4> QED BY <4>1, <4>2, <4>3
    <3>2. CASE k \notin part
      <4>1. part \in SUBSET (1 .. k - 1)
        BY <2>5, <3>2
      <4>2. h[part] = step[Max(part)][h[part \ {Max(part)}]]
        BY <2>4, <2>8, <4>1
      <4>3. g[part] = h[part] /\ g[part \ {Max(part)}] = h[part \ {Max(part)}]
        BY <3>2
      <4> QED BY <4>2, <4>3
    <3> QED BY <3>1, <3>2
  <2>9. Meets(g, k)
    <3> HIDE DEF g
    <3> QED BY <2>6, <2>7, <2>8
  <2> HIDE DEF Meets, g
  <2> QED BY <2>1, <2>9 DEF Bad
<1>2. PICK iter : Meets(iter, n)
  BY <1>1
<1> QED BY <1>2 DEF Meets, Folds

(* The sets of the first positions are run through in turn.                 *)
LEMMA FirstPositions ==
  ASSUME NEW n \in Nat, NEW k \in 1 .. n
  PROVE  /\ 1 .. k \in SUBSET (1 .. n) /\ 1 .. k # {}
         /\ Max(1 .. k) = k /\ (1 .. k) \ {k} = 1 .. k - 1
<1>1. Max(1 .. k) = k
  <2>1. 1 .. k \in SUBSET Int /\ k \in 1 .. k /\ \A y \in 1 .. k : k >= y
    OBVIOUS
  <2> QED BY <2>1, MaxIsGreatest
<1> QED BY <1>1

(* Induction: a set that holds 0 and with each number below n the next.     *)
LEMMA StepByStep ==
  ASSUME NEW n \in Nat, NEW T, 0 \in T,
         \A k \in 1 .. n : k - 1 \in T => k \in T
  PROVE  \A k \in 0 .. n : k \in T
<1> DEFINE Bad == {k \in 0 .. n : k \notin T}
<1> SUFFICES ASSUME Bad # {} PROVE FALSE
  OBVIOUS
<1>0. Bad \in SUBSET Nat
  OBVIOUS
<1>1. PICK k \in Bad : \A j \in Bad : k <= j
  BY <1>0, SmallestNumber
<1>2. k # 0
  OBVIOUS
<1>3. k \in 1 .. n /\ k - 1 \in 0 .. n /\ k - 1 \notin Bad
  <2>1. k \in 0 .. n /\ k - 1 \in 0 .. n /\ k \in 1 .. n /\ ~(k <= k - 1)
    BY <1>2
  <2> HIDE DEF Bad
  <2> QED BY <1>1, <2>1
<1> QED BY <1>3

(* Two runs that take the same steps from the same start are the same.      *)
LEMMA SameRun ==
  ASSUME NEW n \in Nat, NEW g, NEW h, g[0] = h[0],
         \A k \in 1 .. n : g[k-1] = h[k-1] => g[k] = h[k]
  PROVE  \A k \in 0 .. n : g[k] = h[k]
<1> DEFINE T == {k \in 0 .. n : g[k] = h[k]}
<1>1. 0 \in T /\ \A k \in 1 .. n : k - 1 \in T => k \in T
  OBVIOUS
<1> HIDE DEF T
<1>2. \A k \in 0 .. n : k \in T
  BY <1>1, StepByStep
<1> QED BY <1>2 DEF T

(* A run stays among the states that its steps do not leave.                *)
LEMMA TypedRun ==
  ASSUME NEW n \in Nat, NEW X, NEW h, h[0] \in X,
         \A k \in 1 .. n : h[k-1] \in X => h[k] \in X
  PROVE  \A k \in 0 .. n : h[k] \in X
<1> DEFINE T == {k \in 0 .. n : h[k] \in X}
<1>1. 0 \in T /\ \A k \in 1 .. n : k - 1 \in T => k \in T
  OBVIOUS
<1> HIDE DEF T
<1>2. \A k \in 0 .. n : k \in T
  BY <1>1, StepByStep
<1> QED BY <1>2 DEF T

-----------------------------------------------------------------------------
(* The scans, one more rune at a time. *)

Scan(s)  == FoldLeft(Read, Unread, s)
Unspelt  == [open |-> FALSE, words |-> <<>>]
Spelt(s) == FoldLeft(AddRune, Unspelt, s)

Scans(W) == [depth : Nat, tokens : Nat, inToken : BOOLEAN, dropping : BOOLEAN,
             out : Seq(W)]
Spellings == [open : BOOLEAN, words : Seq(Seq(Letter))]

(* What a parenthesis makes of the state before its own fate is decided.    *)
Nested(st, r) == IF r = "(" THEN Opened(st)
                 ELSE IF r = ")" THEN ClosedBelow(st) ELSE st

LEMMA ReadIs ==
  ASSUME NEW W, NEW r, NEW st \in Scans(W)
  PROVE  LET nested == Nested(st, r)
             kept   == IF nested.dropping THEN nested ELSE Emit(nested, r)
         IN  Read(st, r) =
               [kept EXCEPT !.dropping = @ /\ ~(r = ")" /\ kept.depth = 0)]
<1>1. (CASE r = "(" -> Opened(st) [] r = ")" -> ClosedBelow(st) [] OTHER -> st)
        = Nested(st, r)
  <2>1. CASE r = "("
    BY <2>1 DEF Nested
  <2>2. CASE r = ")"
    BY <2>2 DEF Nested
  <2>3. CASE r # "(" /\ r # ")"
    BY <2>3 DEF Nested
  <2> QED BY <2>1, <2>2, <2>3
<1> QED BY <1>1 DEF Read

LEMMA NestedType ==
  ASSUME NEW W, NEW r, NEW st \in Scans(W)
  PROVE  /\ Nested(st, r) \in Scans(W)
         /\ Nested(st, r).tokens = st.tokens /\ Nested(st, r).inToken = st.inToken
         /\ Nested(st, r).out = st.out
         /\ Nested(st, r).depth =
              IF r = "(" THEN st.depth + 1
              ELSE IF r = ")" /\ st.depth > 0 THEN st.depth - 1 ELSE st.depth
         /\ Nested(st, r).dropping =
              IF r = "(" /\ st.depth = 0 THEN 2 <= st.tokens ELSE st.dropping
<1>1. /\ st.depth \in Nat /\ st.tokens \in Nat
      /\ st.dropping \in BOOLEAN /\ (2 <= st.tokens) \in BOOLEAN
  BY DEF Scans
<1>2. CASE r = "("
  <2>1. Nested(st, r) =
          [st EXCEPT !.depth = @ + 1,
                     !.dropping = IF st.depth = 0 THEN 2 <= st.tokens ELSE @]
    BY <1>2 DEF Nested, Opened, parentheticalDropMinTokens
  <2>2. (IF st.depth = 0 THEN 2 <= st.tokens ELSE st.dropping) \in BOOLEAN
    BY <1>1, Zenon
  <2>3. st.depth + 1 \in Nat
    BY <1>1
  <2> DEFINE d == IF st.depth = 0 THEN 2 <= st.tokens ELSE st.dropping
             deeper == st.depth + 1
  <2>4. Nested(st, r) = [st EXCEPT !.depth = deeper, !.dropping = d]
    BY <2>1
  <2> HIDE DEF d, deeper
  <2>5. /\ Nested(st, r) \in Scans(W) /\ Nested(st, r).tokens = st.tokens
        /\ Nested(st, r).inToken = st.inToken /\ Nested(st, r).out = st.out
        /\ Nested(st, r).depth = deeper /\ Nested(st, r).dropping = d
    BY <2>2, <2>3, <2>4 DEF Scans, d, deeper
  <2>6. d = IF r = "(" /\ st.depth = 0 THEN 2 <= st.tokens ELSE st.dropping
    BY <1>2, Zenon DEF d
  <2> QED BY <1>2, <2>5, <2>6 DEF deeper
<1>3. CASE r = ")"
  <2>1. Nested(st, r) = [st EXCEPT !.depth = IF @ > 0 THEN @ - 1 ELSE @]
    BY <1>3 DEF Nested, ClosedBelow
  <2> QED BY <1>1, <1>3, <2>1 DEF Scans
<1>4. CASE r # "(" /\ r # ")"
  <2>1. Nested(st, r) = st
    BY <1>4 DEF Nested
  <2> QED BY <1>1, <1>4, <2>1 DEF Scans
<1> QED BY <1>2, <1>3, <1>4

LEMMA EmitType ==
  ASSUME NEW W, NEW r \in W, NEW st \in Scans(W)
  PROVE  /\ Emit(st, r) \in Scans(W)
         /\ Emit(st, r).depth = st.depth /\ Emit(st, r).dropping = st.dropping
         /\ Emit(st, r).out = Append(st.out, r)
         /\ Emit(st, r).inToken = IF r \in Mark THEN st.inToken ELSE r \in Letter
         /\ Emit(st, r).tokens = IF r \in Letter /\ ~st.inToken
                                 THEN st.tokens + 1 ELSE st.tokens
<1>1. st \in [depth : Nat, tokens : Nat, inToken : BOOLEAN, dropping : BOOLEAN,
              out : Seq(W)]
  BY DEF Scans
<1>2. Append(st.out, r) \in Seq(W)
  BY <1>1, AppendProperties
<1>3. (r \in Letter) \in BOOLEAN /\ st.inToken \in BOOLEAN
  BY <1>1
<1>4. st.tokens + 1 \in Nat /\ st.tokens \in Nat
  BY <1>1
<1>5. CASE r \in Mark
  BY <1>1, <1>2, <1>3, <1>4, <1>5 DEF Emit, Scans
<1>6. CASE r \notin Mark
  BY <1>1, <1>2, <1>3, <1>4, <1>6 DEF Emit, Scans
<1> QED BY <1>5, <1>6

(* All that reading one rune does.                                          *)
LEMMA ReadDoes ==
  ASSUME NEW W, NEW r \in W, NEW st \in Scans(W)
  PROVE  LET nested == Nested(st, r)
             next   == Read(st, r) IN
         /\ next \in Scans(W)
         /\ next.depth = nested.depth
         /\ next.dropping = (nested.dropping /\ ~(r = ")" /\ nested.depth = 0))
         /\ nested.dropping => /\ next.tokens = st.tokens
                               /\ next.inToken = st.inToken
                               /\ next.out = st.out
         /\ ~nested.dropping =>
              /\ next.tokens = IF r \in Letter /\ ~st.inToken
                               THEN st.tokens + 1 ELSE st.tokens
              /\ next.inToken = IF r \in Mark THEN st.inToken ELSE r \in Letter
              /\ next.out = Append(st.out, r)
<1> DEFINE nested == Nested(st, r)
           kept == IF nested.dropping THEN nested ELSE Emit(nested, r)
<1>1. nested \in Scans(W) /\ nested.tokens = st.tokens
      /\ nested.inToken = st.inToken /\ nested.out = st.out
  BY NestedType
<1>2. Read(st, r) = [kept EXCEPT !.dropping = @ /\ ~(r = ")" /\ kept.depth = 0)]
  BY ReadIs
<1> HIDE DEF nested
<1>3. kept \in Scans(W) /\ kept.depth = nested.depth /\ kept.dropping = nested.dropping
  BY <1>1, EmitType
<1>4. /\ nested.dropping => kept = nested
      /\ ~nested.dropping =>
           /\ kept.tokens = IF r \in Letter /\ ~st.inToken
                            THEN st.tokens + 1 ELSE st.tokens
           /\ kept.inToken = IF r \in Mark THEN st.inToken ELSE r \in Letter
           /\ kept.out = Append(st.out, r)
  BY <1>1, EmitType
<1> HIDE DEF kept
<1>5. LET next == [kept EXCEPT !.dropping = @ /\ ~(r = ")" /\ kept.depth = 0)] IN
      /\ next \in Scans(W) /\ next.depth = kept.depth
      /\ next.tokens = kept.tokens /\ next.inToken = kept.inToken
      /\ next.out = kept.out
      /\ next.dropping = (kept.dropping /\ ~(r = ")" /\ kept.depth = 0))
  BY <1>3 DEF Scans
<1> QED BY <1>1, <1>2, <1>3, <1>4, <1>5 DEF nested

LEMMA AddRuneDoes ==
  ASSUME NEW r, NEW st \in Spellings
  PROVE  LET next == AddRune(st, r) IN
         /\ next \in Spellings
         /\ r \in Mark => next = st
         /\ r \in Letter =>
              /\ next.open
              /\ Len(next.words) = IF st.open THEN Len(st.words) ELSE Len(st.words) + 1
         /\ r \notin Mark \cup Letter => /\ ~next.open
                                       /\ next.words = st.words
<1>1. st.open \in BOOLEAN /\ st.words \in Seq(Seq(Letter))
  BY DEF Spellings
<1>2. CASE r \in Mark
  <2>1. AddRune(st, r) = st
    BY <1>2, RunesAssumption DEF AddRune
  <2> QED BY <1>2, <2>1, RunesAssumption
<1>3. CASE r \in Letter
  <2> DEFINE longer == [st.words EXCEPT ![Len(st.words)] = @ \o Folded[r]]
             more   == Append(st.words, Folded[r])
  <2>1. r \notin Mark /\ Folded[r] \in Seq(Letter)
    BY <1>3, RunesAssumption
  <2>2. AddRune(st, r) = [open |-> TRUE, words |-> IF st.open THEN longer ELSE more]
    BY <1>3, <2>1 DEF AddRune
  <2>3. more \in Seq(Seq(Letter)) /\ Len(more) = Len(st.words) + 1
    BY <1>1, <2>1
  <2>4. longer \in Seq(Seq(Letter)) /\ Len(longer) = Len(st.words)
    <3>1. Len(st.words) \in Nat /\ DOMAIN st.words = 1 .. Len(st.words)
      BY <1>1
    <3>2. CASE Len(st.words) = 0
      <4>1. longer = st.words
        BY <1>1, <3>1, <3>2
      <4> QED BY <1>1, <4>1
    <3>3. CASE Len(st.words) # 0
      <4>1. Len(st.words) \in 1 .. Len(st.words)
        BY <3>1, <3>3
      <4>2. st.words[Len(st.words)] \o Folded[r] \in Seq(Letter)
        BY <1>1, <2>1, <4>1
      <4> QED BY <1>1, <4>1, <4>2, ExceptSeq
    <3> QED BY <3>2, <3>3
  <2> HIDE DEF longer, more
  <2> QED BY <1>1, <1>3, <2>1, <2>2, <2>3, <2>4 DEF Spellings
<1>4. CASE r \notin Mark \cup Letter
  <2>1. AddRune(st, r) = [st EXCEPT !.open = FALSE]
    BY <1>4 DEF AddRune
  <2> QED BY <1>1, <1>4, <2>1 DEF Spellings
<1> QED BY <1>2, <1>3, <1>4

(* The scan of reduceParentheticals is a run of states, one for each prefix *)
(* of the name, of which each comes from the one before by a Read.          *)
LEMMA ScanRuns ==
  ASSUME NEW W, NEW s \in Seq(W)
  PROVE  \E h : /\ h \in [0 .. Len(s) -> Scans(W)] /\ h[0] = Unread
                /\ \A k \in 1 .. Len(s) : h[k] = Read(h[k-1], s[k])
                /\ Scan(s) = h[Len(s)]
<1> DEFINE n == Len(s)
           X == Scans(W)
           step == [i \in 1 .. n |-> [st \in X |-> Read(st, s[i])]]
           Meets(iter) ==
             iter = [part \in SUBSET (1 .. n) |->
                       IF part = {} THEN Unread
                       ELSE Read(iter[part \ {Max(part)}], s[Max(part)])]
           c == CHOOSE iter : Meets(iter)
<1>0. n \in Nat /\ DOMAIN s = 1 .. n /\ \A i \in 1 .. n : s[i] \in W
  OBVIOUS
<1>1. Unread \in X
  BY DEF Unread, Scans
<1>2. step \in [1 .. n -> [X -> X]]
  BY <1>0, ReadDoes
<1>3. Scan(s) = c[1 .. n]
  BY <1>0 DEF Scan, FoldLeft, MapThenFoldSet
<1>4. Meets(c)
  <2> HIDE DEF X, step, n
  <2>1. PICK iter : Folds(iter, n, X, Unread, step)
    BY <1>0, <1>1, <1>2, FoldsExist
  <2>2. ASSUME NEW part \in SUBSET (1 .. n), part # {}
        PROVE  iter[part] = Read(iter[part \ {Max(part)}], s[Max(part)])
    <3>1. Max(part) \in 1 .. n /\ iter[part \ {Max(part)}] \in X
      BY <1>0, <2>1, <2>2, MaxOfPositions DEF Folds
    <3> QED BY <2>1, <2>2, <3>1 DEF step, Folds
  <2>3. Meets(iter)
    BY <2>1, <2>2 DEF n, Folds
  <2> HIDE DEF Meets
  <2> QED BY <2>3
<1> DEFINE h == [k \in 0 .. n |-> c[1 .. k]]
<1> HIDE DEF c
<1>5. c[{}] = Unread
  BY <1>4
<1>6. h[0] = Unread
  BY <1>0, <1>5
<1>7. ASSUME NEW k \in 1 .. n PROVE h[k] = Read(h[k-1], s[k])
  <2>1. c[1 .. k] = Read(c[1 .. k - 1], s[k])
    <3>1. /\ 1 .. k \in SUBSET (1 .. n) /\ 1 .. k # {}
          /\ Max(1 .. k) = k /\ (1 .. k) \ {k} = 1 .. k - 1
      BY <1>0, FirstPositions
    <3> QED BY <1>4, <3>1
  <2>2. k - 1 \in 0 .. n /\ k \in 0 .. n
    BY <1>0
  <2> QED BY <2>1, <2>2
<1>8. \A k \in 0 .. n : h[k] \in X
  <2> HIDE DEF h, X, n
  <2>1. ASSUME NEW k \in 1 .. n, h[k-1] \in X PROVE h[k] \in X
    BY <1>0, <1>7, <2>1, ReadDoes DEF X
  <2> QED BY <1>0, <1>1, <1>6, <2>1, TypedRun
<1>9. h \in [0 .. n -> X] /\ h[n] = c[1 .. n]
  BY <1>0, <1>8
<1> HIDE DEF h
<1> QED BY <1>3, <1>6, <1>7, <1>9

(* So is the splitting into words, by AddRune.                              *)
LEMMA SpeltRuns ==
  ASSUME NEW W, NEW s \in Seq(W)
  PROVE  \E h : /\ h \in [0 .. Len(s) -> Spellings] /\ h[0] = Unspelt
                /\ \A k \in 1 .. Len(s) : h[k] = AddRune(h[k-1], s[k])
                /\ Spelt(s) = h[Len(s)]
<1> DEFINE n == Len(s)
           X == Spellings
           step == [i \in 1 .. n |-> [st \in X |-> AddRune(st, s[i])]]
           Meets(iter) ==
             iter = [part \in SUBSET (1 .. n) |->
                       IF part = {} THEN Unspelt
                       ELSE AddRune(iter[part \ {Max(part)}], s[Max(part)])]
           c == CHOOSE iter : Meets(iter)
<1>0. n \in Nat /\ DOMAIN s = 1 .. n /\ \A i \in 1 .. n : s[i] \in W
  OBVIOUS
<1>1. Unspelt \in X
  BY DEF Unspelt, Spellings
<1>2. step \in [1 .. n -> [X -> X]]
  BY <1>0, AddRuneDoes
<1>3. Spelt(s) = c[1 .. n]
  BY <1>0 DEF Spelt, FoldLeft, MapThenFoldSet
<1>4. Meets(c)
  <2> HIDE DEF X, step, n
  <2>1. PICK iter : Folds(iter, n, X, Unspelt, step)
    BY <1>0, <1>1, <1>2, FoldsExist
  <2>2. ASSUME NEW part \in SUBSET (1 .. n), part # {}
        PROVE  iter[part] = AddRune(iter[part \ {Max(part)}], s[Max(part)])
    <3>1. Max(part) \in 1 .. n /\ iter[part \ {Max(part)}] \in X
      BY <1>0, <2>1, <2>2, MaxOfPositions DEF Folds
    <3> QED BY <2>1, <2>2, <3>1 DEF step, Folds
  <2>3. Meets(iter)
    BY <2>1, <2>2 DEF n, Folds
  <2> HIDE DEF Meets
  <2> QED BY <2>3
<1> DEFINE h == [k \in 0 .. n |-> c[1 .. k]]
<1> HIDE DEF c
<1>5. c[{}] = Unspelt
  BY <1>4
<1>6. h[0] = Unspelt
  BY <1>0, <1>5
<1>7. ASSUME NEW k \in 1 .. n PROVE h[k] = AddRune(h[k-1], s[k])
  <2>1. c[1 .. k] = AddRune(c[1 .. k - 1], s[k])
    <3>1. /\ 1 .. k \in SUBSET (1 .. n) /\ 1 .. k # {}
          /\ Max(1 .. k) = k /\ (1 .. k) \ {k} = 1 .. k - 1
      BY <1>0, FirstPositions
    <3> QED BY <1>4, <3>1
  <2>2. k - 1 \in 0 .. n /\ k \in 0 .. n
    BY <1>0
  <2> QED BY <2>1, <2>2
<1>8. \A k \in 0 .. n : h[k] \in X
  <2> HIDE DEF h, X, n
  <2>1. ASSUME NEW k \in 1 .. n, h[k-1] \in X PROVE h[k] \in X
    BY <1>0, <1>7, <2>1, AddRuneDoes DEF X
  <2> QED BY <1>0, <1>1, <1>6, <2>1, TypedRun
<1>9. h \in [0 .. n -> X] /\ h[n] = c[1 .. n]
  BY <1>0, <1>8
<1> HIDE DEF h
<1> QED BY <1>3, <1>6, <1>7, <1>9

(* Picking the runes at some positions, one more position at a time.        *)
Picks(h, s, K) ==
  /\ h[0] = <<>> /\ Picked(s, K) = h[Len(s)]
  /\ \A k \in 1 .. Len(s) :
       h[k] = IF k \in K THEN Append(h[k-1], s[k]) ELSE h[k-1]

(* And so are the runes at the positions of a set.                          *)
LEMMA PickedRuns ==
  ASSUME NEW W, NEW s \in Seq(W), NEW K
  PROVE  \E h \in [0 .. Len(s) -> Seq(W)] : Picks(h, s, K)
<1> DEFINE n == Len(s)
           X == Seq(W)
           step == [i \in 1 .. n |->
                      [st \in X |-> IF i \in K THEN Append(st, s[i]) ELSE st]]
           all == [i \in DOMAIN s |-> i]
           Meets(iter) ==
             iter = [part \in SUBSET (DOMAIN all) |->
                       IF part = {} THEN <<>>
                       ELSE IF all[Max(part)] \in K
                            THEN Append(iter[part \ {Max(part)}], s[all[Max(part)]])
                            ELSE iter[part \ {Max(part)}]]
           c == CHOOSE iter : Meets(iter)
<1>0. n \in Nat /\ DOMAIN s = 1 .. n /\ \A i \in 1 .. n : s[i] \in W
  OBVIOUS
<1>1. <<>> \in X
  OBVIOUS
<1>2. step \in [1 .. n -> [X -> X]]
  BY <1>0, AppendProperties
<1>a. DOMAIN all = 1 .. n /\ \A i \in 1 .. n : all[i] = i
  BY <1>0
<1>3. Picked(s, K) = c[1 .. n]
  <2>1. Picked(s, K) = c[DOMAIN all]
    BY DEF Picked, FoldLeftDomain, FoldLeft, MapThenFoldSet
  <2> QED BY <1>a, <2>1
<1> HIDE DEF all
<1>4. Meets(c)
  <2> HIDE DEF X, step, n
  <2>1. PICK iter : Folds(iter, n, X, <<>>, step)
    BY <1>0, <1>1, <1>2, FoldsExist
  <2>2. ASSUME NEW part \in SUBSET (1 .. n), part # {}
        PROVE  iter[part] = IF all[Max(part)] \in K
                            THEN Append(iter[part \ {Max(part)}], s[all[Max(part)]])
                            ELSE iter[part \ {Max(part)}]
    <3>1. Max(part) \in 1 .. n /\ iter[part \ {Max(part)}] \in X
      BY <1>0, <2>1, <2>2, MaxOfPositions DEF Folds
    <3> QED BY <1>a, <2>1, <2>2, <3>1 DEF step, Folds
  <2>3. Meets(iter)
    BY <1>a, <2>1, <2>2 DEF n, Folds
  <2> HIDE DEF Meets
  <2> QED BY <2>3
<1> DEFINE h == [k \in 0 .. n |-> c[1 .. k]]
<1> HIDE DEF c
<1>5. c[{}] = <<>>
  BY <1>a, <1>4
<1>6. h[0] = <<>>
  BY <1>0, <1>5
<1>7. ASSUME NEW k \in 1 .. n PROVE h[k] = IF k \in K THEN Append(h[k-1], s[k]) ELSE h[k-1]
  <2>1. c[1 .. k] = IF k \in K THEN Append(c[1 .. k - 1], s[k]) ELSE c[1 .. k - 1]
    <3>1. /\ 1 .. k \in SUBSET (1 .. n) /\ 1 .. k # {}
          /\ Max(1 .. k) = k /\ (1 .. k) \ {k} = 1 .. k - 1
      BY <1>0, FirstPositions
    <3>2. 1 .. k \in SUBSET (DOMAIN all) /\ all[k] = k
      BY <1>a, <3>1
    <3>3. c[1 .. k] = IF all[Max(1 .. k)] \in K
                      THEN Append(c[(1 .. k) \ {Max(1 .. k)}], s[all[Max(1 .. k)]])
                      ELSE c[(1 .. k) \ {Max(1 .. k)}]
      BY <1>4, <3>1, <3>2
    <3> QED BY <3>1, <3>2, <3>3
  <2>2. k - 1 \in 0 .. n /\ k \in 0 .. n
    BY <1>0
  <2> QED BY <2>1, <2>2
<1>8. \A k \in 0 .. n : h[k] \in X
  <2> HIDE DEF h, X, n
  <2>1. ASSUME NEW k \in 1 .. n, h[k-1] \in X PROVE h[k] \in X
    <3>1. s[k] \in W
      BY <1>0
    <3>2. h[k] = Append(h[k-1], s[k]) \/ h[k] = h[k-1]
      BY <1>7
    <3> QED BY <2>1, <3>1, <3>2, AppendProperties DEF X
  <2> QED BY <1>0, <1>1, <1>6, <2>1, TypedRun
<1>9. h \in [0 .. n -> X] /\ h[n] = c[1 .. n]
  BY <1>0, <1>8
<1> HIDE DEF h
<1>10. Picks(h, s, K)
  BY <1>3, <1>6, <1>7, <1>9 DEF Picks
<1> QED BY <1>9, <1>10

LEMMA ScanAppends ==
  ASSUME NEW W, NEW s \in Seq(W), NEW r \in W
  PROVE  Scan(Append(s, r)) = Read(Scan(s), r)
<1> DEFINE t == Append(s, r)
           n == Len(s)
<1>0. /\ n \in Nat /\ t \in Seq(W) /\ Len(t) = n + 1 /\ t[n + 1] = r
      /\ \A k \in 1 .. n : t[k] = s[k]
  BY AppendProperties
<1> HIDE DEF t
<1>1. PICK g : /\ g[0] = Unread /\ Scan(s) = g[n]
               /\ \A k \in 1 .. n : g[k] = Read(g[k-1], s[k])
  BY ScanRuns
<1>2. PICK h : /\ h[0] = Unread /\ Scan(t) = h[n + 1]
               /\ \A k \in 1 .. n + 1 : h[k] = Read(h[k-1], t[k])
  BY <1>0, ScanRuns
<1>3. \A k \in 1 .. n : g[k-1] = h[k-1] => g[k] = h[k]
  BY <1>0, <1>1, <1>2
<1> HIDE DEF n
<1>4. g[n] = h[n]
  <2>1. g[0] = h[0]
    BY <1>1, <1>2
  <2>2. n \in Nat
    BY <1>0
  <2>3. \A k \in 0 .. n : g[k] = h[k]
    BY <1>3, <2>1, <2>2, SameRun
  <2> QED BY <2>2, <2>3
<1>5. h[n + 1] = Read(h[n], r)
  BY <1>0, <1>2
<1> QED BY <1>1, <1>2, <1>4, <1>5 DEF t, n

LEMMA SpeltAppends ==
  ASSUME NEW W, NEW s \in Seq(W), NEW r \in W
  PROVE  Spelt(Append(s, r)) = AddRune(Spelt(s), r)
<1> DEFINE t == Append(s, r)
           n == Len(s)
<1>0. /\ n \in Nat /\ t \in Seq(W) /\ Len(t) = n + 1 /\ t[n + 1] = r
      /\ \A k \in 1 .. n : t[k] = s[k]
  BY AppendProperties
<1> HIDE DEF t
<1>1. PICK g : /\ g[0] = Unspelt /\ Spelt(s) = g[n]
               /\ \A k \in 1 .. n : g[k] = AddRune(g[k-1], s[k])
  BY SpeltRuns
<1>2. PICK h : /\ h[0] = Unspelt /\ Spelt(t) = h[n + 1]
               /\ \A k \in 1 .. n + 1 : h[k] = AddRune(h[k-1], t[k])
  BY <1>0, SpeltRuns
<1>3. \A k \in 1 .. n : g[k-1] = h[k-1] => g[k] = h[k]
  BY <1>0, <1>1, <1>2
<1> HIDE DEF n
<1>4. g[n] = h[n]
  <2>1. g[0] = h[0]
    BY <1>1, <1>2
  <2>2. n \in Nat
    BY <1>0
  <2>3. \A k \in 0 .. n : g[k] = h[k]
    BY <1>3, <2>1, <2>2, SameRun
  <2> QED BY <2>2, <2>3
<1>5. h[n + 1] = AddRune(h[n], r)
  BY <1>0, <1>2
<1> QED BY <1>1, <1>2, <1>4, <1>5 DEF t, n

LEMMA NothingYet ==
  /\ Scan(<<>>) = Unread /\ Spelt(<<>>) = Unspelt
<1>1. <<>> \in Seq({}) /\ Len(<<>>) = 0
  OBVIOUS
<1>2. Scan(<<>>) = Unread
  BY <1>1, ScanRuns
<1>3. Spelt(<<>>) = Unspelt
  BY <1>1, SpeltRuns
<1> QED BY <1>2, <1>3

LEMMA ScanType ==
  ASSUME NEW W, NEW s \in Seq(W)
  PROVE  Scan(s) \in Scans(W) /\ Spelt(s) \in Spellings
<1>0. Len(s) \in 0 .. Len(s)
  OBVIOUS
<1>1. Scan(s) \in Scans(W)
  BY <1>0, ScanRuns
<1>2. Spelt(s) \in Spellings
  BY <1>0, SpeltRuns
<1> QED BY <1>1, <1>2

-----------------------------------------------------------------------------
(* Along a name: the state of each scan behind its first k runes. *)

At(s, k)      == Scan(SubSeq(s, 1, k))
WordsAt(s, k) == Spelt(SubSeq(s, 1, k))

LEMMA FirstRunes ==
  ASSUME NEW W, NEW s \in Seq(W)
  PROVE  /\ SubSeq(s, 1, 0) = <<>> /\ SubSeq(s, 1, Len(s)) = s
         /\ \A k \in 0 .. Len(s) : /\ SubSeq(s, 1, k) \in Seq(W)
                                   /\ Len(SubSeq(s, 1, k)) = k
         /\ \A k \in 1 .. Len(s) :
              SubSeq(s, 1, k) = Append(SubSeq(s, 1, k - 1), s[k])
<1>0. Len(s) \in Nat /\ \A k \in 1 .. Len(s) : s[k] \in W
  OBVIOUS
<1>1. SubSeq(s, 1, 0) = <<>> /\ SubSeq(s, 1, Len(s)) = s
  BY SubSeqEmpty, SubSeqFull
<1>2. \A k \in 0 .. Len(s) : SubSeq(s, 1, k) \in Seq(W) /\ Len(SubSeq(s, 1, k)) = k
  BY <1>0
<1>3. ASSUME NEW k \in 1 .. Len(s)
      PROVE  SubSeq(s, 1, k) = Append(SubSeq(s, 1, k - 1), s[k])
  <2>1. 1 \in 1 .. Len(s) /\ k \in 1 .. Len(s) /\ k - 1 \in 0 .. Len(s)
    BY <1>0
  <2>2. SubSeq(s, 1, k) = SubSeq(s, 1, k - 1) \o <<s[k]>>
    BY <2>1, SubSeqRecursiveSecond
  <2>3. Append(SubSeq(s, 1, k - 1), s[k]) = SubSeq(s, 1, k - 1) \o <<s[k]>>
    BY <1>0, <1>2, <2>1, AppendIsConcat
  <2> QED BY <2>2, <2>3
<1> QED BY <1>1, <1>2, <1>3

LEMMA AlongTheName ==
  ASSUME NEW W, NEW s \in Seq(W)
  PROVE  /\ At(s, 0) = Unread /\ WordsAt(s, 0) = Unspelt
         /\ At(s, Len(s)) = Scan(s) /\ WordsAt(s, Len(s)) = Spelt(s)
         /\ \A k \in 0 .. Len(s) : At(s, k) \in Scans(W) /\ WordsAt(s, k) \in Spellings
         /\ \A k \in 1 .. Len(s) : /\ At(s, k) = Read(At(s, k - 1), s[k])
                                   /\ WordsAt(s, k) = AddRune(WordsAt(s, k - 1), s[k])
<1>1. /\ At(s, 0) = Unread /\ WordsAt(s, 0) = Unspelt
      /\ At(s, Len(s)) = Scan(s) /\ WordsAt(s, Len(s)) = Spelt(s)
  BY FirstRunes, NothingYet DEF At, WordsAt
<1>2. \A k \in 0 .. Len(s) : At(s, k) \in Scans(W) /\ WordsAt(s, k) \in Spellings
  BY FirstRunes, ScanType DEF At, WordsAt
<1>3. ASSUME NEW k \in 1 .. Len(s)
      PROVE  /\ At(s, k) = Read(At(s, k - 1), s[k])
             /\ WordsAt(s, k) = AddRune(WordsAt(s, k - 1), s[k])
  <2> DEFINE t == SubSeq(s, 1, k - 1)
  <2>1. k - 1 \in 0 .. Len(s) /\ s[k] \in W
    OBVIOUS
  <2>2. t \in Seq(W) /\ SubSeq(s, 1, k) = Append(t, s[k])
    BY <2>1, FirstRunes
  <2> HIDE DEF t
  <2>3. Scan(Append(t, s[k])) = Read(Scan(t), s[k])
    BY <2>1, <2>2, ScanAppends
  <2>4. Spelt(Append(t, s[k])) = AddRune(Spelt(t), s[k])
    BY <2>1, <2>2, SpeltAppends
  <2> QED BY <2>2, <2>3, <2>4 DEF t, At, WordsAt
<1> QED BY <1>1, <1>2, <1>3

-----------------------------------------------------------------------------
(* The depth counter counts open parentheses. *)

Excess(s, a, k) == Count(s, "(", a, k) - Count(s, ")", a, k)

LEMMA CountOneMore ==
  ASSUME NEW s, NEW r, NEW a \in Nat, NEW k \in Nat, a <= k
  PROVE  /\ Count(s, r, a, k - 1) \in Nat
         /\ Count(s, r, a, k) = Count(s, r, a, k - 1) + IF s[k] = r THEN 1 ELSE 0
         /\ a = k => Count(s, r, a, k - 1) = 0
<1> DEFINE Of(b) == {j \in a .. b : s[j] = r}
<1>1. IsFiniteSet(Of(k - 1)) /\ Cardinality(Of(k - 1)) \in Nat
  <2>1. IsFiniteSet(a .. k - 1)
    BY FS_Interval
  <2>2. Of(k - 1) \subseteq a .. k - 1
    OBVIOUS
  <2> HIDE DEF Of
  <2> QED BY <2>1, <2>2, FS_Subset, FS_CardinalityType
<1>2. k \notin Of(k - 1)
  OBVIOUS
<1>c. /\ Count(s, r, a, k) = Cardinality(Of(k))
      /\ Count(s, r, a, k - 1) = Cardinality(Of(k - 1))
  BY DEF Count
<1>3. ASSUME s[k] = r PROVE Cardinality(Of(k)) = Cardinality(Of(k - 1)) + 1
  <2>1. Of(k) = Of(k - 1) \cup {k}
    BY <1>3
  <2> HIDE DEF Of
  <2> QED BY <1>1, <1>2, <2>1, FS_AddElement
<1>4. ASSUME s[k] # r PROVE Cardinality(Of(k)) = Cardinality(Of(k - 1)) + 0
  <2>1. Of(k) = Of(k - 1)
    BY <1>4
  <2> HIDE DEF Of
  <2> QED BY <1>1, <2>1
<1>5. a = k => Of(k - 1) = {}
  OBVIOUS
<1>6. a = k => Count(s, r, a, k - 1) = 0
  BY <1>5, <1>c, FS_EmptySet
<1> HIDE DEF Of
<1> QED BY <1>1, <1>3, <1>4, <1>6, <1>c

(* A number that some a attains and none exceeds is the depth.              *)
Peak(s, d, k) ==
  /\ d \in Nat /\ \A a \in 1 .. k : Excess(s, a, k) \in Int /\ Excess(s, a, k) <= d
  /\ d = 0 \/ \E a \in 1 .. k : d = Excess(s, a, k)

LEMMA PeakIsDepth ==
  ASSUME NEW s, NEW k \in Nat, NEW d, Peak(s, d, k)
  PROVE  Depth(s, k) = d
<1> DEFINE T == {0} \cup {Excess(s, a, k) : a \in 1 .. k}
<1>1. T \in SUBSET Int /\ d \in T /\ \A y \in T : d >= y
  BY DEF Peak
<1>2. Depth(s, k) = Max(T)
  BY DEF Depth, Excess
<1> HIDE DEF T
<1> QED BY <1>1, <1>2, MaxIsGreatest

(* The depth that the scan counts up and down is the number of parentheses  *)
(* that are open there.                                                     *)
LEMMA DepthCounted ==
  ASSUME NEW W, NEW s \in Seq(W)
  PROVE  \A k \in 0 .. Len(s) : Depth(s, k) = At(s, k).depth
<1> DEFINE n == Len(s)
           d(k) == At(s, k).depth
           T == {k \in 0 .. n : Peak(s, d(k), k)}
<1>0. n \in Nat
  OBVIOUS
<1>1. 0 \in T
  <2>1. d(0) = 0
    BY AlongTheName DEF Unread
  <2> QED BY <1>0, <2>1 DEF Peak
<1>2. ASSUME NEW k \in 1 .. n, k - 1 \in T PROVE k \in T
  <2>1. Peak(s, d(k - 1), k - 1)
    BY <1>2
  <2>2. d(k) = IF s[k] = "(" THEN d(k - 1) + 1
               ELSE IF s[k] = ")" /\ d(k - 1) > 0 THEN d(k - 1) - 1 ELSE d(k - 1)
    <3>1. k - 1 \in 0 .. n /\ s[k] \in W
      BY <1>0
    <3>2. At(s, k - 1) \in Scans(W) /\ At(s, k) = Read(At(s, k - 1), s[k])
      BY <3>1, AlongTheName
    <3> QED BY <3>1, <3>2, ReadDoes, NestedType
  <2>3. \A a \in 1 .. k - 1 :
          /\ Excess(s, a, k - 1) \in Int
          /\ Excess(s, a, k) = Excess(s, a, k - 1) +
               IF s[k] = "(" THEN 1 ELSE IF s[k] = ")" THEN -1 ELSE 0
    BY <1>0, CountOneMore DEF Excess
  <2>4. Excess(s, k, k) = IF s[k] = "(" THEN 1 ELSE IF s[k] = ")" THEN -1 ELSE 0
    <3>1. k \in Nat /\ k <= k
      BY <1>0
    <3>2. \A r : /\ Count(s, r, k, k - 1) = 0
                 /\ Count(s, r, k, k)
                      = Count(s, r, k, k - 1) + IF s[k] = r THEN 1 ELSE 0
      BY <3>1, CountOneMore
    <3> QED BY <3>2 DEF Excess
  <2> DEFINE x == d(k - 1)
             y == d(k)
  <2>5. x \in Nat /\ k \in Nat
    BY <1>0, <2>1 DEF Peak
  <2>6. \A a \in 1 .. k - 1 : Excess(s, a, k - 1) <= x
    BY <2>1 DEF Peak
  <2>7. x = 0 \/ \E a \in 1 .. k - 1 : x = Excess(s, a, k - 1)
    BY <2>1 DEF Peak
  <2>8. Peak(s, y, k)
    <3> HIDE DEF x, y, d
    <3>1. CASE s[k] = "("
      BY <2>2, <2>3, <2>4, <2>5, <2>6, <2>7, <3>1 DEF Peak, x, y
    <3>2. CASE s[k] = ")"
      BY <2>2, <2>3, <2>4, <2>5, <2>6, <2>7, <3>2 DEF Peak, x, y
    <3>3. CASE s[k] # "(" /\ s[k] # ")"
      BY <2>2, <2>3, <2>4, <2>5, <2>6, <2>7, <3>3 DEF Peak, x, y
    <3> QED BY <3>1, <3>2, <3>3
  <2> QED BY <2>8
<1> HIDE DEF T, n, d
<1>3. \A k \in 0 .. n : k \in T
  BY <1>0, <1>1, <1>2, StepByStep
<1> QED BY <1>3, PeakIsDepth DEF T, n, d
-----------------------------------------------------------------------------
(* What is removed from a name is what the comment says. *)

(* Outside of groups, the next rune is removed if it opens a group behind   *)
(* two words; inside of one, if the rune before it is.                      *)
LEMMA RemovedNext ==
  ASSUME NEW W, NEW s \in Seq(W), NEW k \in 1 .. Len(s)
  PROVE  /\ At(s, k - 1).depth = 0 =>
              (k \in Removed(s) <=>
                 s[k] = "(" /\ 2 <= Len(WordsAt(s, k - 1).words))
         /\ At(s, k - 1).depth > 0 => (k \in Removed(s) <=> k - 1 \in Removed(s))
<1> DEFINE n == Len(s)
           Behind(a) == 2 <= Len(WordsAt(s, a - 1).words)
<1>0. n \in Nat /\ DOMAIN s = 1 .. n /\ k \in 1 .. n /\ k - 1 \in 0 .. n
  OBVIOUS
<1>1. \A i \in 1 .. n :
        i \in Removed(s) <=> \E a \in 1 .. i : Within(s, a, i) /\ Behind(a)
  BY <1>0 DEF Removed, WordsAt, Words, Spelt, Unspelt
<1>2. Depth(s, k - 1) = At(s, k - 1).depth
  BY <1>0, DepthCounted
<1>3. Depth(s, 0) = 0
  BY <1>0, DepthCounted, AlongTheName DEF Unread
<1> HIDE DEF Behind
<1>4. ASSUME Depth(s, k - 1) = 0
      PROVE  k \in Removed(s) <=> s[k] = "(" /\ Behind(k)
  <2>1. \A a \in 1 .. k : Within(s, a, k) <=> a = k /\ s[k] = "("
    <3> SUFFICES ASSUME NEW a \in 1 .. k
                 PROVE  Within(s, a, k) <=> a = k /\ s[k] = "("
      OBVIOUS
    <3>1. a # k => k - 1 \in a .. k - 1
      BY <1>0
    <3>2. a = k => a .. k - 1 = {}
      BY <1>0
    <3>3. ~(0 > 0) /\ a <= k
      BY <1>0
    <3> QED BY <1>4, <3>1, <3>2, <3>3 DEF Within
  <2>2. k \in 1 .. k
    BY <1>0
  <2> QED BY <1>1, <2>1, <2>2
<1>5. ASSUME Depth(s, k - 1) > 0
      PROVE  k \in Removed(s) <=> k - 1 \in Removed(s)
  <2>1. k - 1 \in 1 .. n
    <3>1. k # 1
      BY <1>3, <1>5
    <3> QED BY <1>0, <3>1
  <2>2. ~Within(s, k, k)
    <3>1. Depth(s, k - 1) # 0
      BY <1>2, <1>5
    <3> QED BY <3>1 DEF Within
  <2>3. \A a \in 1 .. k - 1 : Within(s, a, k) <=> Within(s, a, k - 1)
    <3> SUFFICES ASSUME NEW a \in 1 .. k - 1
                 PROVE  Within(s, a, k) <=> Within(s, a, k - 1)
      OBVIOUS
    <3>1. \A j : j \in a .. k - 1 <=> j = k - 1 \/ j \in a .. (k - 1) - 1
      BY <2>1
    <3>2. a <= k /\ a <= k - 1
      BY <2>1
    <3> QED BY <1>5, <3>1, <3>2 DEF Within
  <2>4. \A a : a \in 1 .. k <=> a = k \/ a \in 1 .. k - 1
    BY <1>0
  <2> QED BY <1>0, <1>1, <2>1, <2>2, <2>3, <2>4
<1> QED BY <1>2, <1>4, <1>5 DEF Behind

(* As long as nothing has been dropped the scan counts the words of the     *)
(* whole name, and once something has been both counts are past the two     *)
(* that are asked for.                                                      *)
Counted(st, w) ==
  \/ st.tokens = Len(w.words) /\ st.inToken = w.open
  \/ 2 <= st.tokens /\ 2 <= Len(w.words)

(* It drops exactly while it is in a removed group that is not closed yet.  *)
Following(s, k) ==
  LET st == At(s, k) IN
  /\ Counted(st, WordsAt(s, k))
  /\ st.dropping => 2 <= st.tokens
  /\ st.dropping <=> k \in Removed(s) /\ st.depth > 0

(* One rune more: it is written unless it is removed.                       *)
LEMMA FollowsNext ==
  ASSUME NEW W, NEW s \in Seq(W), NEW k \in 1 .. Len(s), Following(s, k - 1)
  PROVE  /\ Following(s, k)
         /\ At(s, k).out = IF k \in Removed(s) THEN At(s, k - 1).out
                           ELSE Append(At(s, k - 1).out, s[k])
<1> DEFINE st == At(s, k - 1)
           w == WordsAt(s, k - 1)
           r == s[k]
           nested == Nested(st, r)
           next == At(s, k)
           v == WordsAt(s, k)
<1>0. r \in W /\ k - 1 \in 0 .. Len(s) /\ k \in 0 .. Len(s)
  OBVIOUS
<1>1. /\ st \in Scans(W) /\ w \in Spellings /\ next \in Scans(W)
      /\ next = Read(st, r) /\ v = AddRune(w, r)
  BY <1>0, AlongTheName
<1>2. /\ Counted(st, w)
      /\ st.dropping => 2 <= st.tokens
      /\ st.dropping <=> k - 1 \in Removed(s) /\ st.depth > 0
  BY DEF Following
<1>3. /\ st.depth = 0 => (k \in Removed(s) <=> r = "(" /\ 2 <= Len(w.words))
      /\ st.depth > 0 => (k \in Removed(s) <=> k - 1 \in Removed(s))
  BY RemovedNext
<1>4. /\ nested.depth = IF r = "(" THEN st.depth + 1
                        ELSE IF r = ")" /\ st.depth > 0 THEN st.depth - 1 ELSE st.depth
      /\ nested.dropping = IF r = "(" /\ st.depth = 0 THEN 2 <= st.tokens
                           ELSE st.dropping
  BY <1>1, NestedType
<1>5. /\ next.depth = nested.depth
      /\ next.dropping = (nested.dropping /\ ~(r = ")" /\ nested.depth = 0))
      /\ nested.dropping => /\ next.tokens = st.tokens
                            /\ next.inToken = st.inToken
                            /\ next.out = st.out
      /\ ~nested.dropping =>
           /\ next.tokens = IF r \in Letter /\ ~st.inToken
                            THEN st.tokens + 1 ELSE st.tokens
           /\ next.inToken = IF r \in Mark THEN st.inToken ELSE r \in Letter
           /\ next.out = Append(st.out, r)
  BY <1>0, <1>1, ReadDoes
<1>6. /\ v \in Spellings
      /\ r \in Mark => v = w
      /\ r \in Letter =>
           /\ v.open
           /\ Len(v.words) = IF w.open THEN Len(w.words) ELSE Len(w.words) + 1
      /\ r \notin Mark \cup Letter => ~v.open /\ v.words = w.words
  BY <1>1, AddRuneDoes
<1>7. /\ st.depth \in Nat /\ st.tokens \in Nat /\ next.tokens \in Nat
      /\ st.dropping \in BOOLEAN /\ st.inToken \in BOOLEAN
      /\ next.dropping \in BOOLEAN /\ next.inToken \in BOOLEAN
  BY <1>1 DEF Scans
<1>8. /\ Len(w.words) \in Nat /\ Len(v.words) \in Nat
      /\ w.open \in BOOLEAN /\ v.open \in BOOLEAN
  BY <1>1, <1>6 DEF Spellings
<1> HIDE DEF st, w, r, nested, next, v
<1>9. 2 <= st.tokens <=> 2 <= Len(w.words)
  BY <1>2, <1>7, <1>8 DEF Counted
<1>10. nested.dropping <=> k \in Removed(s)
  <2>1. CASE st.depth = 0
    BY <1>2, <1>3, <1>4, <1>7, <1>9, <2>1
  <2>2. CASE st.depth > 0
    BY <1>2, <1>3, <1>4, <1>7, <2>2
  <2> QED BY <1>7, <2>1, <2>2
<1>11. nested.dropping => 2 <= st.tokens
  BY <1>2, <1>4
<1>12. next.tokens >= st.tokens /\ Len(v.words) >= Len(w.words)
  <2>1. next.tokens >= st.tokens
    BY <1>5, <1>7
  <2>2. r \in Mark \/ r \in Letter \/ r \notin Mark \cup Letter
    OBVIOUS
  <2>3. Len(v.words) >= Len(w.words)
    BY <1>6, <1>8, <2>2
  <2> QED BY <2>1, <2>3
<1>13. Counted(next, v)
  <2>1. CASE 2 <= st.tokens
    BY <1>7, <1>8, <1>9, <1>12, <2>1 DEF Counted
  <2>2. CASE ~(2 <= st.tokens)
    <3>1. ~nested.dropping /\ st.tokens = Len(w.words) /\ st.inToken = w.open
      BY <1>2, <1>11, <2>2 DEF Counted
    <3>2. r \in Letter => r \notin Mark
      BY RunesAssumption
    <3>3. CASE r \in Mark
      BY <1>5, <1>6, <3>1, <3>2, <3>3 DEF Counted
    <3>4. CASE r \in Letter
      <4>1. next.inToken = TRUE /\ v.open = TRUE
        BY <1>5, <1>6, <1>7, <1>8, <3>1, <3>2, <3>4
      <4>2. next.tokens = Len(v.words)
        BY <1>5, <1>6, <1>7, <1>8, <3>1, <3>4
      <4> QED BY <4>1, <4>2 DEF Counted
    <3>5. CASE r \notin Mark \cup Letter
      <4>1. next.inToken = FALSE /\ v.open = FALSE
        BY <1>5, <1>6, <1>7, <1>8, <3>1, <3>5
      <4>2. next.tokens = Len(v.words)
        BY <1>5, <1>6, <3>1, <3>5
      <4> QED BY <4>1, <4>2 DEF Counted
    <3> QED BY <3>3, <3>4, <3>5
  <2> QED BY <2>1, <2>2
<1>14. next.dropping => 2 <= next.tokens
  BY <1>5, <1>7, <1>11, <1>12
<1>15. next.dropping <=> k \in Removed(s) /\ next.depth > 0
  <2>1. nested.dropping /\ nested.depth = 0 => r = ")"
    <3>1. nested.dropping => r = "(" \/ st.depth > 0
      BY <1>2, <1>4, <1>7
    <3> QED BY <1>4, <1>7, <3>1
  <2>2. nested.depth \in Nat
    BY <1>4, <1>7
  <2>3. next.dropping <=> nested.dropping /\ ~(nested.depth = 0)
    BY <1>5, <2>1
  <2>4. nested.depth > 0 <=> ~(nested.depth = 0)
    BY <2>2
  <2> QED BY <1>5, <1>10, <2>3, <2>4
<1>16. next.out = IF k \in Removed(s) THEN st.out ELSE Append(st.out, r)
  BY <1>5, <1>10
<1> QED BY <1>13, <1>14, <1>15, <1>16 DEF Following, st, w, r, next, v

LEMMA FollowsAll ==
  ASSUME NEW W, NEW s \in Seq(W)
  PROVE  \A k \in 0 .. Len(s) : Following(s, k)
<1> DEFINE n == Len(s)
           T == {k \in 0 .. n : Following(s, k)}
<1>0. n \in Nat
  OBVIOUS
<1>1. 0 \in T
  <2>1. At(s, 0) = Unread /\ WordsAt(s, 0) = Unspelt
    BY AlongTheName
  <2>2. /\ Unread.tokens = 0 /\ Unread.inToken = FALSE /\ Unread.dropping = FALSE
        /\ Unread.depth = 0 /\ Unspelt.open = FALSE /\ Len(Unspelt.words) = 0
    BY DEF Unread, Unspelt
  <2>3. ~(0 > 0)
    OBVIOUS
  <2>4. Following(s, 0)
    BY <2>1, <2>2, <2>3 DEF Following, Counted
  <2> QED BY <1>0, <2>4
<1>2. ASSUME NEW k \in 1 .. n, k - 1 \in T PROVE k \in T
  BY <1>2, FollowsNext
<1> HIDE DEF T
<1>3. \A k \in 0 .. n : k \in T
  BY <1>0, <1>1, <1>2, StepByStep
<1> QED BY <1>3 DEF T

(* Whatever its parentheses, a name is reduced as the comment says.         *)
THEOREM ReducesAsSaid ==
  ASSUME NEW W, NEW s \in Seq(W)
  PROVE  ReducedAsSaid(s)
<1> DEFINE n == Len(s)
           K == DOMAIN s \ Removed(s)
<1>0. n \in Nat /\ DOMAIN s = 1 .. n
  OBVIOUS
<1>1. PICK h : /\ h[0] = <<>> /\ Picked(s, K) = h[n]
               /\ \A k \in 1 .. n :
                    h[k] = IF k \in K THEN Append(h[k-1], s[k]) ELSE h[k-1]
  BY PickedRuns DEF Picks
<1> DEFINE T == {k \in 0 .. n : At(s, k).out = h[k]}
<1>2. 0 \in T
  <2>1. At(s, 0) = Unread
    BY AlongTheName
  <2> QED BY <1>0, <1>1, <2>1 DEF Unread
<1>3. ASSUME NEW k \in 1 .. n, k - 1 \in T PROVE k \in T
  <2>1. k - 1 \in 0 .. n /\ k \in 0 .. n /\ (k \in K <=> k \notin Removed(s))
    BY <1>0
  <2>2. At(s, k).out = IF k \in Removed(s) THEN At(s, k - 1).out
                      ELSE Append(At(s, k - 1).out, s[k])
    BY <2>1, FollowsAll, FollowsNext
  <2> HIDE DEF K
  <2> QED BY <1>1, <1>3, <2>1, <2>2
<1> HIDE DEF T
<1>4. \A k \in 0 .. n : k \in T
  BY <1>0, <1>2, <1>3, StepByStep
<1>5. n \in T
  BY <1>0, <1>4
<1>6. At(s, n).out = Picked(s, K)
  BY <1>1, <1>5 DEF T
<1>7. At(s, n) = FoldLeft(Read, Unread, s)
  BY AlongTheName DEF Scan
<1> QED BY <1>6, <1>7 DEF ReducedAsSaid, reduceParentheticals
-----------------------------------------------------------------------------
(* What is left of a name is not reduced any further. *)

(* The state as it would be had the dropped runes not been there.           *)
Settled(st) == [st EXCEPT !.dropping = FALSE,
                          !.depth = IF st.dropping THEN 0 ELSE @]

(* The scan of x keeps every rune.                                          *)
Calm(x) ==
  \A j \in 0 .. Len(x) : At(x, j).out = SubSeq(x, 1, j) /\ At(x, j).dropping = FALSE

LEMMA SettledType ==
  ASSUME NEW W, NEW st \in Scans(W)
  PROVE  /\ Settled(st) \in Scans(W)
         /\ Settled(st).tokens = st.tokens /\ Settled(st).inToken = st.inToken
         /\ Settled(st).out = st.out /\ Settled(st).dropping = FALSE
         /\ Settled(st).depth = IF st.dropping THEN 0 ELSE st.depth
BY DEF Settled, Scans

LEMMA SameState ==
  ASSUME NEW W, NEW a \in Scans(W), NEW b \in Scans(W),
         a.depth = b.depth, a.tokens = b.tokens, a.inToken = b.inToken,
         a.dropping = b.dropping, a.out = b.out
  PROVE  a = b
BY DEF Scans

LEMMA AlreadySettled ==
  ASSUME NEW W, NEW st \in Scans(W), st.dropping = FALSE
  PROVE  Settled(st) = st
<1>1. /\ Settled(st) \in Scans(W) /\ Settled(st).tokens = st.tokens
      /\ Settled(st).inToken = st.inToken /\ Settled(st).out = st.out
      /\ Settled(st).dropping = st.dropping /\ Settled(st).depth = st.depth
  BY SettledType
<1> QED BY <1>1, SameState

LEMMA CalmOneMore ==
  ASSUME NEW W, NEW x \in Seq(W), NEW r \in W, Calm(x),
         Scan(Append(x, r)).out = Append(x, r), Scan(Append(x, r)).dropping = FALSE
  PROVE  Calm(Append(x, r))
<1> DEFINE y == Append(x, r)
           n == Len(x)
<1>0. n \in Nat /\ y \in Seq(W) /\ Len(y) = n + 1
  BY AppendProperties
<1>1. ASSUME NEW j \in 0 .. n PROVE SubSeq(y, 1, j) = SubSeq(x, 1, j)
  <2>1. /\ SubSeq(y, 1, j) \in Seq(W) /\ SubSeq(x, 1, j) \in Seq(W)
        /\ Len(SubSeq(y, 1, j)) = j /\ Len(SubSeq(x, 1, j)) = j
    <3>1. j \in 0 .. Len(y)
      BY <1>0
    <3> HIDE DEF y
    <3> QED BY <1>0, <3>1, FirstRunes
  <2>2. \A i \in 1 .. j : SubSeq(y, 1, j)[i] = y[i] /\ SubSeq(x, 1, j)[i] = x[i]
                         /\ y[i] = x[i]
    BY <1>0
  <2> HIDE DEF y
  <2> QED BY <2>1, <2>2, SeqEqual
<1>2. SubSeq(y, 1, n + 1) = y
  BY <1>0, FirstRunes
<1> HIDE DEF y
<1>3. \A j \in 0 .. n : At(y, j) = At(x, j)
  BY <1>1 DEF At
<1>4. \A j \in 0 .. n + 1 : At(y, j).out = SubSeq(y, 1, j) /\ At(y, j).dropping = FALSE
  <2>1. At(y, n + 1).out = SubSeq(y, 1, n + 1) /\ At(y, n + 1).dropping = FALSE
    BY <1>2 DEF At, y
  <2>2. \A j \in 0 .. n : At(y, j).out = SubSeq(y, 1, j) /\ At(y, j).dropping = FALSE
    BY <1>1, <1>3 DEF Calm
  <2>3. \A j \in 0 .. n + 1 : j \in 0 .. n \/ j = n + 1
    BY <1>0
  <2> QED BY <2>1, <2>2, <2>3
<1> QED BY <1>0, <1>4 DEF Calm, y

(* A reduced name is calm: a second reduction drops nothing of it.          *)
LEMMA ReducedIsCalm ==
  ASSUME NEW W, NEW s \in Seq(W)
  PROVE  Scan(s).out \in Seq(W) /\ Calm(Scan(s).out)
<1> DEFINE n == Len(s)
           T == {k \in 0 .. n : /\ Scan(At(s, k).out) = Settled(At(s, k))
                                /\ Calm(At(s, k).out)}
<1>0. n \in Nat
  OBVIOUS
<1>1. 0 \in T
  <2>1. At(s, 0) = Unread /\ Unread.out = <<>> /\ Unread.dropping = FALSE
    BY AlongTheName DEF Unread
  <2>2. Scan(<<>>) = Settled(Unread)
    <3>1. Unread \in Scans({})
      BY DEF Scans, Unread
    <3> QED BY <2>1, <3>1, AlreadySettled, NothingYet
  <2>3. Calm(<<>>)
    <3>1. <<>> \in Seq({}) /\ 0 .. Len(<<>>) = {0}
      OBVIOUS
    <3>2. At(<<>>, 0) = Unread /\ SubSeq(<<>>, 1, 0) = <<>>
      BY <3>1, AlongTheName, FirstRunes
    <3> QED BY <2>1, <3>1, <3>2 DEF Calm
  <2> QED BY <1>0, <2>1, <2>2, <2>3
<1>2. ASSUME NEW k \in 1 .. n, k - 1 \in T PROVE k \in T
  <2> DEFINE st == At(s, k - 1)
             r == s[k]
             nested == Nested(st, r)
             next == At(s, k)
  <2>0. k - 1 \in 0 .. n /\ k \in 0 .. n /\ r \in W
    BY <1>0
  <2>1. st \in Scans(W) /\ next \in Scans(W) /\ next = Read(st, r)
    BY <2>0, AlongTheName
  <2>2. Scan(st.out) = Settled(st) /\ Calm(st.out)
    BY <1>2
  <2>3. /\ st.dropping => st.depth > 0
        /\ next.dropping => next.depth > 0
    BY <2>0, FollowsAll DEF Following
  <2>4. /\ nested.depth = IF r = "(" THEN st.depth + 1
                          ELSE IF r = ")" /\ st.depth > 0 THEN st.depth - 1 ELSE st.depth
        /\ nested.dropping = IF r = "(" /\ st.depth = 0 THEN 2 <= st.tokens
                             ELSE st.dropping
    BY <2>1, NestedType
  <2>5. /\ next.depth = nested.depth
        /\ next.dropping = (nested.dropping /\ ~(r = ")" /\ nested.depth = 0))
        /\ nested.dropping => /\ next.tokens = st.tokens
                              /\ next.inToken = st.inToken
                              /\ next.out = st.out
        /\ ~nested.dropping => next.out = Append(st.out, r)
    BY <2>0, <2>1, ReadDoes
  <2>6. /\ st.depth \in Nat /\ next.depth \in Nat /\ st.out \in Seq(W)
        /\ st.dropping \in BOOLEAN /\ next.dropping \in BOOLEAN
    BY <2>1 DEF Scans
  <2>7. CASE nested.dropping
    <3>1. Settled(st).depth = 0
      BY <2>1, <2>4, <2>6, <2>7, SettledType
    <3>2. Settled(next).depth = 0
      BY <2>1, <2>5, <2>7, SettledType
    <3>3. Settled(next) = Settled(st)
      <4>1. Settled(next) \in Scans(W) /\ Settled(st) \in Scans(W)
        BY <2>1, SettledType
      <4>2. /\ Settled(next).tokens = Settled(st).tokens
            /\ Settled(next).inToken = Settled(st).inToken
            /\ Settled(next).out = Settled(st).out
            /\ Settled(next).dropping = Settled(st).dropping
        <5> HIDE DEF nested, st, next
        <5> QED BY <2>1, <2>5, <2>7, SettledType
      <4> QED BY <3>1, <3>2, <4>1, <4>2, SameState
    <3>4. next.out = st.out
      BY <2>5, <2>7
    <3> HIDE DEF st, next, nested
    <3> QED BY <2>0, <2>2, <3>3, <3>4 DEF st, next
  <2>8. CASE ~nested.dropping
    <3>1. st.dropping = FALSE
      BY <2>3, <2>4, <2>6, <2>8
    <3>2. next.dropping = FALSE /\ next.out = Append(st.out, r)
      BY <2>5, <2>6, <2>8
    <3> HIDE DEF nested, st, next, r
    <3>3. Settled(st) = st
      BY <2>1, <3>1, AlreadySettled
    <3>4. Settled(next) = next
      BY <2>1, <3>2, AlreadySettled
    <3>5. Scan(next.out) = next
      BY <2>0, <2>1, <2>2, <2>6, <3>2, <3>3, ScanAppends
    <3>6. Calm(next.out)
      BY <2>0, <2>2, <2>6, <3>2, <3>5, CalmOneMore
    <3> QED BY <2>0, <3>4, <3>5, <3>6 DEF next
  <2> QED BY <2>7, <2>8
<1> HIDE DEF T
<1>3. \A k \in 0 .. n : k \in T
  BY <1>0, <1>1, <1>2, StepByStep
<1>4. n \in T
  BY <1>0, <1>3
<1>5. At(s, n) = Scan(s)
  BY AlongTheName
<1>6. Scan(s).out \in Seq(W)
  BY ScanType DEF Scans
<1> QED BY <1>4, <1>5, <1>6 DEF T
-----------------------------------------------------------------------------
(* White space, collapsed, changes neither the words nor what is dropped. *)

OnlyBlanks(x, k) == \A j \in k + 1 .. Len(x) : x[j] \in Blank

(* One rune of a name as Spaced shows it: x up to rune k, y what is shown   *)
(* of that.                                                                 *)
ShownNext(x, k, y, z) ==
  \/ x[k] \notin Blank /\ z = Append(y, x[k]) /\ ~OnlyBlanks(x, k - 1)
  \/ x[k] \in Blank /\ z = Append(y, Space)
  \/ /\ x[k] \in Blank /\ z = y
     /\ k = 1 \/ (k > 1 /\ x[k-1] \in Blank) \/ OnlyBlanks(x, k)

LEMMA SpacedRuns ==
  ASSUME NEW W, NEW x \in Seq(W)
  PROVE  \E h : /\ h \in [0 .. Len(x) -> Seq(W \cup {Space})]
                /\ h[0] = <<>> /\ Spaced(x) = h[Len(x)]
                /\ \A k \in 1 .. Len(x) : ShownNext(x, k, h[k-1], h[k])
<1> DEFINE n == Len(x)
           e == [i \in DOMAIN x |-> IF x[i] \in Blank THEN Space ELSE x[i]]
           K == Shown(x)
<1>0. n \in Nat /\ DOMAIN x = 1 .. n /\ \A i \in 1 .. n : x[i] \in W
  OBVIOUS
<1>1. e \in Seq(W \cup {Space}) /\ Len(e) = n
  <2>1. e = [i \in 1 .. n |-> IF x[i] \in Blank THEN Space ELSE x[i]]
    BY <1>0
  <2>2. \A i \in 1 .. n : (IF x[i] \in Blank THEN Space ELSE x[i]) \in W \cup {Space}
    BY <1>0
  <2> HIDE DEF n, e
  <2> QED BY <1>0, <2>1, <2>2
<1>2. \A i \in 1 .. n : e[i] = IF x[i] \in Blank THEN Space ELSE x[i]
  BY <1>0
<1>3. Spaced(x) = Picked(e, K)
  BY DEF Spaced
<1> HIDE DEF e, K, n
<1>4. PICK h : /\ h \in [0 .. n -> Seq(W \cup {Space})]
               /\ h[0] = <<>> /\ Picked(e, K) = h[n]
               /\ \A k \in 1 .. n :
                    h[k] = IF k \in K THEN Append(h[k-1], e[k]) ELSE h[k-1]
  <2> DEFINE V == W \cup {Space}
  <2>1. e \in Seq(V) /\ Len(e) = n
    BY <1>1
  <2> HIDE DEF V
  <2>2. PICK h \in [0 .. Len(e) -> Seq(V)] : Picks(h, e, K)
    BY <2>1, PickedRuns
  <2> QED BY <2>1, <2>2 DEF V, Picks
<1>5. ASSUME NEW k \in 1 .. n PROVE ShownNext(x, k, h[k-1], h[k])
  <2> USE DEF K
  <2>1. k \in K <=> \/ x[k] \notin Blank
                   \/ /\ k > 1 /\ x[k-1] \notin Blank
                      /\ \E j \in k + 1 .. n : x[j] \notin Blank
    BY <1>0 DEF Shown, n
  <2>2. h[k] = IF k \in K THEN Append(h[k-1], e[k]) ELSE h[k-1]
    BY <1>4
  <2>3. CASE x[k] \notin Blank
    <3>1. k \in (k - 1) + 1 .. n
      BY <1>0
    <3> HIDE DEF K
    <3> QED BY <1>2, <2>1, <2>2, <2>3, <3>1 DEF ShownNext, OnlyBlanks, n
  <2>4. CASE x[k] \in Blank
    <3> HIDE DEF K
    <3>1. CASE k \in K
      BY <1>2, <2>2, <2>4, <3>1 DEF ShownNext
    <3>2. CASE k \notin K
      <4>1. k = 1 \/ (k > 1 /\ x[k-1] \in Blank) \/ OnlyBlanks(x, k)
        <5>1. k = 1 \/ k > 1
          BY <1>0
        <5> QED BY <2>1, <2>4, <3>2, <5>1 DEF OnlyBlanks, n
      <4> QED BY <2>2, <2>4, <3>2, <4>1 DEF ShownNext
    <3> QED BY <3>1, <3>2
  <2> QED BY <2>3, <2>4
<1> QED BY <1>3, <1>4, <1>5 DEF n

LEMMA BlankIsOther ==
  ASSUME NEW b \in Blank
  PROVE  /\ b \notin Mark \cup Letter /\ b # "(" /\ b # ")"
         /\ \A W : \A st \in Scans(W) : Nested(st, b) = st
BY RunesAssumption DEF Nested

(* A name and what is shown of it are spelt alike, and read alike, but for  *)
(* a word that trailing white space closes.                                 *)
SpeltAlike(x, k, y) ==
  LET u == WordsAt(x, k)  v == Spelt(y) IN
  v.words = u.words /\ (v.open = u.open \/ OnlyBlanks(x, k))

ReadAlike(x, k, y) ==
  LET st == At(x, k)  shown == Scan(y) IN
  /\ shown.depth = st.depth /\ shown.tokens = st.tokens
  /\ shown.dropping = FALSE /\ shown.out = y
  /\ shown.inToken = st.inToken \/ OnlyBlanks(x, k)

(* One rune more of a name, and what is shown of it: the same words.        *)
LEMMA SpeltAlikeNext ==
  ASSUME NEW W, NEW x \in Seq(W), NEW k \in 1 .. Len(x),
         NEW V, NEW y \in Seq(V), NEW z, x[k] \in V, Space \in V,
         ShownNext(x, k, y, z), SpeltAlike(x, k - 1, y)
  PROVE  SpeltAlike(x, k, z)
<1> DEFINE u == WordsAt(x, k - 1)
           v == Spelt(y)
<1>0. k - 1 \in 0 .. Len(x) /\ k \in Nat /\ Len(x) \in Nat
  <2>1. Len(x) \in Nat
    BY LenProperties
  <2> QED BY <2>1
<1>1. /\ u \in Spellings /\ v \in Spellings /\ WordsAt(x, k) = AddRune(u, x[k])
  BY <1>0, AlongTheName, ScanType
<1>2. v.words = u.words /\ (v.open = u.open \/ OnlyBlanks(x, k - 1))
  BY DEF SpeltAlike
<1>3. OnlyBlanks(x, k - 1) => OnlyBlanks(x, k)
  <2>1. \A j \in k + 1 .. Len(x) : j \in (k - 1) + 1 .. Len(x)
    BY <1>0
  <2> QED BY <2>1 DEF OnlyBlanks
<1>4. CASE x[k] \notin Blank /\ z = Append(y, x[k]) /\ ~OnlyBlanks(x, k - 1)
  <2>1. v = u
    <3>1. v.words = u.words /\ v.open = u.open
      BY <1>2, <1>4
    <3> HIDE DEF u, v
    <3> QED BY <1>1, <3>1 DEF Spellings
  <2>2. Spelt(z) = AddRune(v, x[k])
    BY <1>4, SpeltAppends
  <2> QED BY <1>1, <2>1, <2>2 DEF SpeltAlike
<1>5. CASE x[k] \in Blank /\ z = Append(y, Space)
  <2>1. Spelt(z) = AddRune(v, Space)
    BY <1>5, SpeltAppends
  <2>2. Space \in Blank
    BY RunesAssumption
  <2> HIDE DEF u, v
  <2>3. AddRune(v, Space).open = FALSE /\ AddRune(v, Space).words = v.words
    BY <1>1, <2>2, AddRuneDoes, BlankIsOther DEF Spellings
  <2>4. AddRune(u, x[k]).open = FALSE /\ AddRune(u, x[k]).words = u.words
    BY <1>1, <1>5, AddRuneDoes, BlankIsOther DEF Spellings
  <2> QED BY <1>1, <1>2, <2>1, <2>3, <2>4 DEF SpeltAlike
<1>6. CASE /\ x[k] \in Blank /\ z = y
           /\ k = 1 \/ (k > 1 /\ x[k-1] \in Blank) \/ OnlyBlanks(x, k)
  <2>1. u.open = FALSE \/ OnlyBlanks(x, k)
    <3>1. CASE k = 1
      <4>1. u = WordsAt(x, 0)
        BY <3>1
      <4> HIDE DEF u
      <4> QED BY <4>1, AlongTheName DEF Unspelt
    <3>2. CASE k > 1 /\ x[k-1] \in Blank
      <4> DEFINE j == k - 1
      <4>1. j \in 1 .. Len(x) /\ j - 1 \in 0 .. Len(x)
        <5> k \in 1 .. Len(x) /\ k > 1
          BY <3>2
        <5> QED BY <1>0
      <4>2. u = AddRune(WordsAt(x, j - 1), x[j]) /\ WordsAt(x, j - 1) \in Spellings
        BY <4>1, AlongTheName
      <4> HIDE DEF u
      <4>3. u.open \in BOOLEAN /\ ~u.open
        BY <1>1, <3>2, <4>2, AddRuneDoes, BlankIsOther DEF Spellings
      <4> QED BY <4>3
    <3> QED BY <1>6, <3>1, <3>2
  <2> HIDE DEF u, v
  <2>2. AddRune(u, x[k]).open = FALSE /\ AddRune(u, x[k]).words = u.words
    BY <1>1, <1>6, AddRuneDoes, BlankIsOther DEF Spellings
  <2>3. v.open = FALSE \/ OnlyBlanks(x, k)
    BY <1>2, <1>3, <2>1
  <2>4. Spelt(z) = v
    BY <1>6 DEF v
  <2> QED BY <1>1, <1>2, <2>2, <2>3, <2>4 DEF SpeltAlike
<1> QED BY <1>4, <1>5, <1>6 DEF ShownNext

(* And a scan of what is shown drops nothing, if none of the name does.     *)
LEMMA ReadAlikeNext ==
  ASSUME NEW W, NEW x \in Seq(W), Calm(x), NEW k \in 1 .. Len(x),
         NEW V, NEW y \in Seq(V), NEW z, x[k] \in V, Space \in V,
         ShownNext(x, k, y, z), ReadAlike(x, k - 1, y)
  PROVE  ReadAlike(x, k, z)
<1> DEFINE r == x[k]
           st == At(x, k - 1)
           next == At(x, k)
           v == Scan(y)
<1>0. k - 1 \in 0 .. Len(x) /\ k \in 0 .. Len(x) /\ Len(x) \in Nat /\ r \in W
  <2>1. Len(x) \in Nat
    BY LenProperties
  <2> QED BY <2>1
<1>1. st \in Scans(W) /\ v \in Scans(V) /\ next \in Scans(W) /\ next = Read(st, r)
  BY <1>0, AlongTheName, ScanType
<1>2. /\ v.depth = st.depth /\ v.tokens = st.tokens /\ v.dropping = FALSE /\ v.out = y
      /\ v.inToken = st.inToken \/ OnlyBlanks(x, k - 1)
  BY DEF ReadAlike
<1>3. OnlyBlanks(x, k - 1) => OnlyBlanks(x, k)
  <2>1. \A j \in k + 1 .. Len(x) : j \in (k - 1) + 1 .. Len(x)
    BY <1>0
  <2> QED BY <2>1 DEF OnlyBlanks
<1>4. st.dropping = FALSE /\ next.dropping = FALSE
  BY <1>0 DEF Calm
<1>5. ~Nested(st, r).dropping
  <2>1. st.out = SubSeq(x, 1, k - 1) /\ next.out = SubSeq(x, 1, k)
    BY <1>0 DEF Calm
  <2>2. Len(st.out) = k - 1 /\ Len(next.out) = k
    BY <1>0, <2>1, FirstRunes
  <2>3. Nested(st, r).dropping => next.out = st.out
    BY <1>0, <1>1, ReadDoes
  <2>4. k - 1 # k
    BY <1>0
  <2> QED BY <2>2, <2>3, <2>4
<1>6. /\ next.depth = Nested(st, r).depth
      /\ next.tokens = IF r \in Letter /\ ~st.inToken
                       THEN st.tokens + 1 ELSE st.tokens
      /\ next.inToken = IF r \in Mark THEN st.inToken ELSE r \in Letter
  BY <1>0, <1>1, <1>5, ReadDoes
(* White space closes a word, and does nothing else to either scan.         *)
<1>7. ASSUME r \in Blank
      PROVE  next.depth = st.depth /\ next.tokens = st.tokens /\ next.inToken = FALSE
  <2>1. r \notin Mark /\ r \notin Letter /\ Nested(st, r) = st
    BY <1>1, <1>7, BlankIsOther
  <2>2. next.inToken = (r \in Letter)
    BY <1>6, <2>1
  <2>3. (r \in Letter) = FALSE
    BY <2>1
  <2> HIDE DEF r, st, next
  <2> QED BY <1>6, <2>1, <2>2, <2>3
<1>8. CASE r \notin Blank /\ z = Append(y, r) /\ ~OnlyBlanks(x, k - 1)
  <2>1. v.inToken = st.inToken
    BY <1>2, <1>8
  <2>2. Scan(z) = Read(v, r)
    BY <1>8, ScanAppends
  <2>3. /\ Nested(v, r).depth = Nested(st, r).depth
        /\ Nested(v, r).dropping = Nested(st, r).dropping
    <3>1. /\ Nested(v, r).depth =
              IF r = "(" THEN v.depth + 1
              ELSE IF r = ")" /\ v.depth > 0 THEN v.depth - 1 ELSE v.depth
          /\ Nested(v, r).dropping =
              IF r = "(" /\ v.depth = 0 THEN 2 <= v.tokens ELSE v.dropping
      BY <1>1, NestedType
    <3>2. /\ Nested(st, r).depth =
              IF r = "(" THEN st.depth + 1
              ELSE IF r = ")" /\ st.depth > 0 THEN st.depth - 1 ELSE st.depth
          /\ Nested(st, r).dropping =
              IF r = "(" /\ st.depth = 0 THEN 2 <= st.tokens ELSE st.dropping
      BY <1>1, NestedType
    <3> HIDE DEF r, st, v
    <3>3. v.depth = st.depth /\ v.tokens = st.tokens /\ v.dropping = st.dropping
      BY <1>2, <1>4
    <3> QED BY <3>1, <3>2, <3>3
  <2>4. ~Nested(v, r).dropping
    BY <1>5, <2>3
  <2>5. /\ Scan(z).depth = Nested(v, r).depth
        /\ Scan(z).dropping =
             (Nested(v, r).dropping /\ ~(r = ")" /\ Nested(v, r).depth = 0))
        /\ Scan(z).tokens = IF r \in Letter /\ ~v.inToken
                            THEN v.tokens + 1 ELSE v.tokens
        /\ Scan(z).inToken = IF r \in Mark THEN v.inToken ELSE r \in Letter
        /\ Scan(z).out = Append(v.out, r)
    <3>1. r \in V
      OBVIOUS
    <3> HIDE DEF r, v
    <3> QED BY <1>1, <2>2, <2>4, <3>1, ReadDoes
  <2>6. Scan(z).dropping = FALSE
    BY <2>4, <2>5
  <2> HIDE DEF r, v, st, next
  <2>7. /\ Scan(z).depth = next.depth /\ Scan(z).tokens = next.tokens
        /\ Scan(z).inToken = next.inToken /\ Scan(z).out = z
    BY <1>2, <1>6, <1>8, <2>1, <2>3, <2>5
  <2> QED BY <2>6, <2>7 DEF ReadAlike, next
<1>9. CASE r \in Blank /\ z = Append(y, Space)
  <2>1. Space \in Blank
    BY RunesAssumption
  <2>2. Scan(z) = Read(v, Space)
    BY <1>9, ScanAppends
  <2>3. Nested(v, Space) = v /\ Space \notin Mark /\ Space \notin Letter
    BY <1>1, <2>1, BlankIsOther
  <2>4. /\ Scan(z).depth = v.depth
        /\ Scan(z).dropping = (v.dropping /\ ~(Space = ")" /\ v.depth = 0))
        /\ Scan(z).tokens = IF Space \in Letter /\ ~v.inToken
                            THEN v.tokens + 1 ELSE v.tokens
        /\ Scan(z).inToken = IF Space \in Mark THEN v.inToken ELSE Space \in Letter
        /\ Scan(z).out = Append(v.out, Space)
    <3>1. ~Nested(v, Space).dropping
      BY <1>2, <2>3
    <3> HIDE DEF v
    <3> QED BY <1>1, <2>2, <2>3, <3>1, ReadDoes
  <2>5. Scan(z).dropping = FALSE /\ Scan(z).inToken = FALSE
    <3>1. (Space \in Letter) = FALSE
      BY <2>3
    <3> HIDE DEF v
    <3> QED BY <1>2, <2>3, <2>4, <3>1
  <2>6. Scan(z).depth = next.depth /\ Scan(z).tokens = next.tokens /\ Scan(z).out = z
    <3> HIDE DEF r, v, st, next
    <3> QED BY <1>2, <1>7, <1>9, <2>3, <2>4
  <2> QED BY <1>7, <1>9, <2>5, <2>6 DEF ReadAlike
<1>10. CASE /\ r \in Blank /\ z = y
            /\ k = 1 \/ (k > 1 /\ x[k-1] \in Blank) \/ OnlyBlanks(x, k)
  <2>1. st.inToken = FALSE \/ OnlyBlanks(x, k)
    <3>1. CASE k = 1
      <4>1. st = At(x, 0)
        BY <3>1
      <4> HIDE DEF st
      <4> QED BY <4>1, AlongTheName DEF Unread
    <3>2. CASE k > 1 /\ x[k-1] \in Blank
      <4> DEFINE j == k - 1
                 q == At(x, j - 1)
      <4>1. j \in 1 .. Len(x) /\ j - 1 \in 0 .. Len(x) /\ x[j] \in W
        <5> k \in 1 .. Len(x) /\ k > 1
          BY <3>2
        <5> QED BY <1>0
      <4>2. st = Read(q, x[j]) /\ q \in Scans(W)
        BY <4>1, AlongTheName
      <4>3. q.dropping = FALSE
        BY <4>1 DEF Calm
      <4>4. /\ Nested(q, x[j]) = q /\ x[j] \notin Mark /\ x[j] \notin Letter
        BY <3>2, <4>2, BlankIsOther
      <4>5. Read(q, x[j]).inToken = IF x[j] \in Mark THEN q.inToken ELSE x[j] \in Letter
        <5> HIDE DEF q
        <5> QED BY <4>1, <4>2, <4>3, <4>4, ReadDoes
      <4>6. (x[j] \in Letter) = FALSE
        BY <4>4
      <4> HIDE DEF q, st
      <4> QED BY <4>2, <4>4, <4>5, <4>6
    <3> QED BY <1>10, <3>1, <3>2
  <2>2. v.inToken = FALSE \/ OnlyBlanks(x, k)
    BY <1>2, <1>3, <2>1
  <2>3. Scan(z) = v
    BY <1>10
  <2> HIDE DEF r, v, st, next
  <2>4. /\ Scan(z).depth = next.depth /\ Scan(z).tokens = next.tokens
        /\ Scan(z).dropping = FALSE /\ Scan(z).out = z
        /\ Scan(z).inToken = next.inToken \/ OnlyBlanks(x, k)
    BY <1>2, <1>7, <1>10, <2>2, <2>3
  <2> QED BY <2>4 DEF ReadAlike, next
<1> QED BY <1>8, <1>9, <1>10 DEF ShownNext

(* Collapsing the white space of a calm name changes neither its words nor  *)
(* what a reduction makes of it.                                            *)
LEMMA ShownAlike ==
  ASSUME NEW W, NEW x \in Seq(W), Calm(x)
  PROVE  /\ Words(Spaced(x)) = Words(x)
         /\ reduceParentheticals(Spaced(x)) = Spaced(x)
<1> DEFINE n == Len(x)
           V == W \cup {Space}
<1>0. n \in Nat /\ \A k \in 1 .. n : x[k] \in V
  OBVIOUS
<1>1. PICK h : /\ h \in [0 .. n -> Seq(V)] /\ h[0] = <<>> /\ Spaced(x) = h[n]
               /\ \A k \in 1 .. n : ShownNext(x, k, h[k-1], h[k])
  BY SpacedRuns
<1> DEFINE T == {k \in 0 .. n : SpeltAlike(x, k, h[k]) /\ ReadAlike(x, k, h[k])}
<1>2. 0 \in T
  <2>1. At(x, 0) = Scan(h[0]) /\ WordsAt(x, 0) = Spelt(h[0]) /\ h[0] = <<>>
    BY <1>1, AlongTheName, NothingYet
  <2>2. At(x, 0).dropping = FALSE /\ At(x, 0).out = <<>>
    BY AlongTheName DEF Unread
  <2> QED BY <1>0, <2>1, <2>2 DEF SpeltAlike, ReadAlike
<1>3. ASSUME NEW k \in 1 .. n, k - 1 \in T PROVE k \in T
  <2>1. k - 1 \in 0 .. n /\ k \in 0 .. n
    BY <1>0
  <2>2. h[k-1] \in Seq(V) /\ ShownNext(x, k, h[k-1], h[k])
    BY <1>1, <2>1
  <2>3. SpeltAlike(x, k - 1, h[k-1]) /\ ReadAlike(x, k - 1, h[k-1])
    BY <1>3
  <2>4. x[k] \in V /\ Space \in V
    BY <1>0
  <2> HIDE DEF V
  <2>5. SpeltAlike(x, k, h[k])
    BY <2>2, <2>3, <2>4, SpeltAlikeNext
  <2>6. ReadAlike(x, k, h[k])
    BY <2>2, <2>3, <2>4, ReadAlikeNext
  <2> QED BY <2>1, <2>5, <2>6
<1> HIDE DEF T
<1>4. \A k \in 0 .. n : k \in T
  BY <1>0, <1>2, <1>3, StepByStep
<1>5. n \in T
  BY <1>0, <1>4
<1>6. Spelt(h[n]).words = WordsAt(x, n).words /\ Scan(h[n]).out = h[n]
  BY <1>5 DEF T, SpeltAlike, ReadAlike
<1>7. WordsAt(x, n) = Spelt(x)
  BY AlongTheName
<1> QED BY <1>1, <1>6, <1>7 DEF Words, Spelt, Unspelt, Scan, reduceParentheticals

(* The words that are shown are those that were compared, and a name in the *)
(* form in which it is stored compares like the name as it came.            *)
THEOREM ShownLikeMatched ==
  ASSUME NEW W, NEW s \in Seq(W)
  PROVE  ShownAsMatched(s)
<1> DEFINE x == reduceParentheticals(s)
<1>1. x \in Seq(W) /\ Calm(x)
  BY ReducedIsCalm DEF reduceParentheticals, Scan
<1> HIDE DEF x
<1>2. Words(Spaced(x)) = Words(x) /\ reduceParentheticals(Spaced(x)) = Spaced(x)
  BY <1>1, ShownAlike
<1> QED BY <1>2 DEF ShownAsMatched, PlaceTokens, PlaceDisplay, x
=============================================================================
