----------------------------- MODULE PlaceNames -----------------------------
(***************************************************************************)
(* What geolocate/placename.go makes of a place name that a source wrote   *)
(* freely: the name with its qualifying parentheses dropped, the tokens it *)
(* is compared by, and the form in which it is stored and shown.           *)
(*                                                                         *)
(* A name is a sequence of runes, and a rune is told apart by what the     *)
(* code asks of it: the two parentheses, a letter (or digit), a combining  *)
(* mark, white space; any other rune separates words like white space.     *)
(***************************************************************************)
EXTENDS Integers, Sequences, FiniteSets, SequencesExt

CONSTANTS
  Letter,   (* runes for which IsLetter or IsDigit holds                    *)
  Folded,   (* what lower case and latinFold make of each: 1 or 2 letters   *)
  Mark,     (* combining marks (Mn, Me)                                     *)
  Blank     (* white space                                                  *)

(* The separator that strings.Join puts between words.                      *)
Space == " "

ASSUME RunesAssumption ==
  /\ DOMAIN Folded = Letter /\ Space \in Blank
  /\ \A r \in Letter : Folded[r] \in Seq(Letter) /\ Folded[r] # <<>>
  /\ Letter \cap Mark = {} /\ (Letter \cup Mark) \cap Blank = {}
  /\ {"(", ")"} \cap (Letter \cup Mark \cup Blank) = {}

parentheticalDropMinTokensOne == 1
parentheticalDropMinTokens    == 2

-----------------------------------------------------------------------------
(* reduceParentheticals, rune by rune.                                      *)

Unread == [depth |-> 0, tokens |-> 0, inToken |-> FALSE, dropping |-> FALSE,
           out |-> <<>>]

(* A mark continues whatever it is attached to.                             *)
Emit(st, r) ==
  [st EXCEPT !.out = Append(@, r),
             !.inToken = IF r \in Mark THEN @ ELSE r \in Letter,
             !.tokens = IF r \in Letter /\ ~st.inToken THEN @ + 1 ELSE @]

(* A group within a group shares the fate of the outer one; a ")" without a *)
(* "(" is ordinary text.                                                    *)
OpenedAnew(st) ==
  [st EXCEPT !.depth = @ + 1,
             !.dropping = parentheticalDropMinTokens <= st.tokens]
Opened(st) ==
  [st EXCEPT !.depth = @ + 1,
             !.dropping = IF st.depth = 0
                          THEN parentheticalDropMinTokens <= st.tokens ELSE @]
ClosedBelow(st) == [st EXCEPT !.depth = IF @ > 0 THEN @ - 1 ELSE @]

Read(st, r) ==
  LET nested == CASE r = "(" -> Opened(st)
                  [] r = ")" -> ClosedBelow(st)
                  [] OTHER   -> st
      kept   == IF nested.dropping THEN nested ELSE Emit(nested, r)
  IN  [kept EXCEPT !.dropping = @ /\ ~(r = ")" /\ kept.depth = 0)]

reduceParentheticals(s) == FoldLeft(Read, Unread, s).out

-----------------------------------------------------------------------------
(* Words: runs of letters, which marks neither belong to nor end.           *)
AddRune(st, r) ==
  CASE r \in Mark   -> st
    [] r \in Letter -> [open  |-> TRUE,
                        words |-> IF st.open
                                  THEN [st.words EXCEPT ![Len(st.words)] = @ \o Folded[r]]
                                  ELSE Append(st.words, Folded[r])]
    [] OTHER        -> [st EXCEPT !.open = FALSE]

Words(s) == FoldLeft(AddRune, [open |-> FALSE, words |-> <<>>], s).words

PlaceTokens(s) == Words(reduceParentheticals(s))

(* The runes of s at the positions of a set, in their order.                *)
Picked(s, positions) ==
  FoldLeftDomain(LAMBDA runes, i : IF i \in positions THEN Append(runes, s[i])
                                   ELSE runes, <<>>, s)

(* strings.Join(strings.Fields(s), " "): white space that follows a word    *)
(* and comes before another is shown, once, as a blank.                     *)
Shown(s) ==
  {i \in DOMAIN s : \/ s[i] \notin Blank
                   \/ /\ i > 1 /\ s[i-1] \notin Blank
                      /\ \E j \in i + 1 .. Len(s) : s[j] \notin Blank}
Spaced(s) ==
  Picked([i \in DOMAIN s |-> IF s[i] \in Blank THEN Space ELSE s[i]], Shown(s))

PlaceDisplayWhole(s) == Spaced(s)
PlaceDisplay(s)      == Spaced(reduceParentheticals(s))

-----------------------------------------------------------------------------
(* What the comment of reduceParentheticals says of the whole name.         *)

Count(s, r, a, b) == Cardinality({k \in a .. b : s[k] = r})

(* How many parentheses are open behind rune k, a ")" without a "(" being   *)
(* none.                                                                    *)
Depth(s, k) ==
  Max({0} \cup {Count(s, "(", a, k) - Count(s, ")", a, k) : a \in 1 .. k})

(* Rune i stands in the outermost group that opens at a.                    *)
Within(s, a, i) ==
  /\ a <= i /\ s[a] = "(" /\ Depth(s, a - 1) = 0
  /\ \A k \in a .. i - 1 : Depth(s, k) > 0

(* "removes a parenthesized group ONLY when at least                        *)
(* parentheticalDropMinTokens tokens already precede it, and otherwise      *)
(* leaves the group in place verbatim".                                     *)
Removed(s) ==
  {i \in DOMAIN s : \E a \in 1 .. i :
     Within(s, a, i) /\ 2 <= Len(Words(SubSeq(s, 1, a - 1)))}

ReducedAsSaid(s) ==
  reduceParentheticals(s) = Picked(s, DOMAIN s \ Removed(s))

(* "Display and matching must reduce parentheticals IDENTICALLY, in both    *)
(* directions" (PlaceDisplay): the words shown are the tokens compared, and *)
(* the name in the form it is stored compares like the name as it came.     *)
ShownAsMatched(s) ==
  /\ Words(PlaceDisplay(s)) = PlaceTokens(s)
  /\ PlaceTokens(PlaceDisplay(s)) = PlaceTokens(s)
=============================================================================
