---------------------------- MODULE MCConsensus ----------------------------
(***************************************************************************)
(* Small instances of Consensus for TLC.                                   *)
(***************************************************************************)
EXTENDS PlaceConsensus

(* The three sources of the program, and for ties four of which two are     *)
(* trusted alike.                                                           *)
Priority == [s \in {"ip.pn", "freeipapi", "ipinfo"} |->
               CASE s = "ip.pn" -> 0 [] s = "freeipapi" -> 1 [] s = "ipinfo" -> 2]
Three == <<"ip.pn", "freeipapi", "ipinfo">>
Four  == <<"ip.pn", "ipinfo", "ipinfo", "freeipapi">>

(* A code with a name, two without (user assigned; not of two letters).     *)
SomeCodes   == <<"de", "usa", "xk">>
TwoLetters  == {"de", "xk"}
TableName   == [c \in {"de", "usa", "xk"} |-> IF c = "de" THEN "Germany" ELSE ""]

(* One letter for each word of a name; f is F in lower case, and the marks  *)
(* and separators are of one kind each.  Two spellings of Frankfurt, two    *)
(* cities that share its first word, one of them with its district.         *)
Runes       == {"F", "f", "a", "m", "o", "h", "b"}
LowerCase   == [r \in Runes |-> IF r = "F" THEN <<"f">>
                                ELSE IF r = "h" THEN <<"h", "h">> ELSE <<r>>]
Frankfurt   == <<"F">>
Lower       == <<"f", "~">>
OnMain      == <<"F", "-", "a", " ", "m">>
Innenstadt  == OnMain \o <<" ", "(", "o", ")">>
Oder        == <<"F", " ", "(", "o", ")">>
Hesse       == <<"h">>
Brandenburg == <<"b">>
Cities      == {<<>>, Frankfurt, Lower, Innenstadt, Oder}

(* Every name of a few runes; and two words with any few behind them.       *)
NamesOf(runes, n) == UNION {[1 .. k -> runes] : k \in 0 .. n}
Scribbles == NamesOf({"F", " ", "(", ")"}, 4) \cup NamesOf({"F", "~", "(", ")"}, 3)
               \cup {<<"F", " ", "F">> \o s : s \in NamesOf({"h", "(", ")"}, 4)}

Written   == Scribbles \cup Cities \cup {OnMain, Hesse, Brandenburg}
Places    == Written \cup {PlaceDisplay(n) : n \in Written}
TokensOfAll  == [n \in Places |-> PlaceTokens(n)]
DisplayOfAll == [n \in Places |-> PlaceDisplay(n)]

Answer(c, n, city, region, a) ==
  [source |-> "", ok |-> TRUE, code |-> c, country |-> n, city |-> city,
   region |-> region, asn |-> a]
Failed == [Answer("", "", <<>>, <<>>, 0) EXCEPT !.ok = FALSE]

(* Answers that differ in the country and the system, and in the place.     *)
Votes  == {Answer(c, n, <<>>, <<>>, a) :
             c \in {"", "de", "usa", "xk"}, n \in {"", "x"}, a \in 0 .. 1}
Ties   == {Answer(c, "", <<>>, <<>>, a) : c \in {"de", "usa", "xk"}, a \in 1 .. 2}
Sights == {Failed}
  \cup {Answer("de", "x", city, region, 0) :
          city \in Cities, region \in {<<>>, Hesse, Brandenburg}}
  \cup {Answer("xk", "x", city, Hesse, 0) : city \in {Frankfurt, Innenstadt}}
Groups == {Answer("de", "", city, Hesse, 0) : city \in Cities}

ListsOf(sources, answers) ==
  {[i \in DOMAIN sources |-> [g[i] EXCEPT !.source = sources[i]]] :
     g \in [DOMAIN sources -> answers]}

Lists == ListsOf(Three, Votes) \cup ListsOf(Three, Sights)
           \cup ListsOf(<<"ip.pn">>, {Answer("de", "", n, <<>>, 0) : n \in Written})
           \cup ListsOf(Four, Ties) \cup ListsOf(Four, Groups)
=============================================================================
