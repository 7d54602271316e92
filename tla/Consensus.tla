------------------------------ MODULE Consensus ------------------------------
(***************************************************************************)
(* How geolocate.consensus makes one location of what several sources      *)
(* answered: a vote for the country and one for the autonomous system,     *)
(* both counted in a Go map and read back in whatever order the map is     *)
(* iterated, and a largest group of sources whose city names agree.        *)
(*                                                                         *)
(* A place name is a sequence of runes; Tokens is what PlaceTokens makes   *)
(* of it and Display what PlaceDisplay does (PlaceNames says how).  <<>>   *)
(* and "" are no answer.                                                   *)
(***************************************************************************)
EXTENDS Integers, Sequences, FiniteSets, FiniteSetsExt, SequencesExt

CONSTANTS
  Inputs,      (* the lists of SourceResults to vote on                     *)
  Rank,        (* SourcePriority of each source, lower is more trusted      *)
  Codes,       (* country codes a source may give, in lexicographic order   *)
  Alpha2,      (* those of two letters                                      *)
  CountryName, (* countryNameForCode, "" for a code outside the table       *)
  Names,       (* place names                                               *)
  Tokens,      (* PlaceTokens of each                                       *)
  Display,     (* PlaceDisplay of each                                      *)
  MinSources   (* the quorum                                                *)

Code   == Range(Codes)
Result == [source : DOMAIN Rank, ok : BOOLEAN, code : Code \cup {""},
           country : STRING, city : Names, region : Names, asn : Nat]

ASSUME InputsAssumption ==
  /\ \A l \in Inputs : l \in Seq(Result)
  /\ Rank \in [DOMAIN Rank -> Nat]
ASSUME CodesAssumption ==
  /\ Codes \in Seq(Code) /\ "" \notin Code
  /\ \A i, j \in DOMAIN Codes : Codes[i] = Codes[j] => i = j
  /\ DOMAIN CountryName = Code /\ Alpha2 \subseteq Code
ASSUME NamesAssumption ==
  /\ <<>> \in Names /\ DOMAIN Tokens = Names /\ DOMAIN Display = Names
  /\ \A n \in Names : Display[n] \in Names
ASSUME QuorumAssumption == MinSources \in Nat \ {0}

VARIABLES
  results,  (* what the sources answered                                    *)
  phase,    (* where consensus stands                                       *)
  seen,     (* codes read back from countryCounts                           *)
  seenASN,  (* systems read back from asnCounts                             *)
  top,      (* the best country so far, with its votes and its rank         *)
  asn,      (* the best autonomous system so far, with its votes            *)
  loc       (* the ConsensusLocation                                        *)

vars == <<results, phase, seen, seenASN, top, asn, loc>>

Nothing == [code |-> "", country |-> "", countryConfident |-> FALSE,
            city |-> <<>>, region |-> <<>>, cityConfident |-> FALSE, asn |-> 0]

-----------------------------------------------------------------------------
(* The votes. *)

(* The sources that answered, by their position.                            *)
ok == {i \in DOMAIN results : results[i].ok}

RankAt(i) == Rank[results[i].source]
RankOf(s) == Min({RankAt(i) : i \in s})

VotesFor(c)  == {i \in ok : results[i].code = c}
CountryCodes == {results[i].code : i \in ok} \ {""}

VotesForASN(a) == {i \in ok : results[i].asn = a}
ASNs           == {results[i].asn : i \in ok} \ {0}

(* displayField: the words of the most trusted voter that has any, the      *)
(* first of them if several are trusted alike.                              *)
Rendering(c) ==
  LET offers == {i \in VotesFor(c) : results[i].country # ""}
      held   == {i \in offers : RankAt(i) = RankOf(offers)}
  IN  IF offers = {} THEN "" ELSE results[Min(held)].country

NameOf(c) == IF Rendering(c) = "" THEN CountryName[c] ELSE Rendering(c)

Before(c, d) ==
  \E i, j \in DOMAIN Codes : i < j /\ Codes[i] = c /\ Codes[j] = d

-----------------------------------------------------------------------------
(* Places: sets s of positions in ok, f the field "city" or "region". *)

TokensOf(i, f) == Tokens[results[i][f]]

PrefixOrEqual(a, b) == a # <<>> /\ IsPrefix(a, b)

Match(a, b) == PrefixOrEqual(a, b) \/ PrefixOrEqual(b, a)

(* The candidate group around one result: everything that prefixes it. *)
GroupMatching(s, f, i) == {j \in s : Match(TokensOf(j, f), TokensOf(i, f))}
GroupAround(s, f, i) ==
  {j \in s : PrefixOrEqual(TokensOf(j, f), TokensOf(i, f))}

Named(s, f) == {i \in s : TokensOf(i, f) # <<>>}

agreeOnPlace(s, f) ==
  LET size(i) == Cardinality(GroupAround(s, f, i))
      rank(i) == RankOf(GroupAround(s, f, i))
      Better(i, j) == \/ size(i) > size(j)
                      \/ size(i) = size(j) /\ rank(i) < rank(j)
                      \/ size(i) = size(j) /\ rank(i) = rank(j) /\ i < j
      best == CHOOSE i \in Named(s, f) :
                \A j \in Named(s, f) \ {i} : Better(i, j)
  IN  IF Named(s, f) = {} THEN {} ELSE GroupAround(s, f, best)

(* The shortest variant in the group, as shown; <<>> for an empty group. *)
LongestPlace(s, f) ==
  IF Named(s, f) = {} THEN <<>>
  ELSE Display[results[CHOOSE i \in Named(s, f) :
            \A j \in s : Len(TokensOf(j, f)) <= Len(TokensOf(i, f))][f]]
canonicalPlace(s, f) ==
  LET words(i) == Len(TokensOf(i, f))
      Shorter(i, j) == \/ words(i) < words(j)
                       \/ words(i) = words(j) /\ RankAt(i) < RankAt(j)
                       \/ words(i) = words(j) /\ RankAt(i) = RankAt(j) /\ i < j
  IN  IF Named(s, f) = {} THEN <<>>
      ELSE Display[results[CHOOSE i \in Named(s, f) :
                \A j \in Named(s, f) \ {i} : Shorter(i, j)][f]]

Agreeing ==
  LET group == agreeOnPlace(ok, "city")
  IN  IF Cardinality(group) >= 2 THEN group ELSE {}

-----------------------------------------------------------------------------
Init ==
  /\ results \in Inputs /\ phase = "fetched" /\ seen = {} /\ seenASN = {}
  /\ top = [code |-> "", n |-> 0, rank |-> 0]
  /\ asn = [asn |-> 0, n |-> 0]
  /\ loc = Nothing

NoQuorum ==
  /\ phase = "fetched" /\ Cardinality(ok) < MinSources
  /\ phase' = "no_consensus"
  /\ UNCHANGED <<results, seen, seenASN, top, asn, loc>>

Quorum ==
  /\ phase = "fetched" /\ Cardinality(ok) >= MinSources
  /\ phase' = "country"
  /\ UNCHANGED <<results, seen, seenASN, top, asn, loc>>

BeatsByVotes(c, t) == c.n > t.n
Beats(c, t) ==
  \/ c.n > t.n
  \/ c.n = t.n /\ c.rank < t.rank
  \/ c.n = t.n /\ c.rank = t.rank /\ Before(c.code, t.code)

(* One turn of the loop over countryCounts. *)
ReadCountry(c) ==
  /\ phase = "country" /\ c \in CountryCodes \ seen
  /\ seen' = seen \cup {c}
  /\ LET it == [code |-> c, n |-> Cardinality(VotesFor(c)),
                rank |-> RankOf(VotesFor(c))]
     IN  top' = IF Beats(it, top) THEN it ELSE top
  /\ UNCHANGED <<results, phase, seenASN, asn, loc>>

UsableWhateverItsName(c) == c \in Alpha2
Usable(c) == c \in Alpha2 /\ NameOf(c) # ""

CountryVerdict ==
  IF top.n >= MinSources /\ Usable(top.code)
  THEN [Nothing EXCEPT !.code = top.code, !.country = NameOf(top.code),
                       !.countryConfident = TRUE]
  ELSE Nothing

(* The region is any that the agreeing sources have most of.                *)
Region == canonicalPlace(agreeOnPlace(Agreeing, "region"), "region")

Verdict ==
  IF Region = <<>> THEN CountryVerdict
  ELSE [CountryVerdict EXCEPT !.city = canonicalPlace(Agreeing, "city"),
                              !.region = Region, !.cityConfident = TRUE]

(* The end of that loop, the country's verdict and the city's. *)
Decide ==
  /\ phase = "country" /\ seen = CountryCodes
  /\ phase' = "asn" /\ loc' = Verdict
  /\ UNCHANGED <<results, seen, seenASN, top, asn>>

(* One turn of the loop over asnCounts. *)
BeatsASNByVotes(a, t) == a.n > t.n
BeatsASN(a, t) == a.n > t.n \/ (a.n = t.n /\ a.asn < t.asn)

ReadASN(a) ==
  /\ phase = "asn" /\ a \in ASNs \ seenASN
  /\ seenASN' = seenASN \cup {a}
  /\ LET it == [asn |-> a, n |-> Cardinality(VotesForASN(a))]
     IN  asn' = IF BeatsASN(it, asn) THEN it ELSE asn
  /\ UNCHANGED <<results, phase, seen, top, loc>>

Finish ==
  /\ phase = "asn" /\ seenASN = ASNs
  /\ phase' = "done"
  /\ loc' = [loc EXCEPT !.asn = asn.asn]
  /\ UNCHANGED <<results, seen, seenASN, top, asn>>

Finished == phase \in {"no_consensus", "done"} /\ UNCHANGED vars

Next ==
  \/ NoQuorum \/ Quorum \/ Decide \/ Finish \/ Finished
  \/ \E c \in Code : ReadCountry(c)
  \/ \E a \in ASNs : ReadASN(a)

Spec == Init /\ [][Next]_vars

-----------------------------------------------------------------------------
(* The location depends on the answers only, never on the order in which a  *)
(* map hands the candidates back: the country and the system are the most   *)
(* voted, ties going to the most trusted voter, then to the first code; to  *)
(* the smallest number.                                                     *)
MapOrderIsInvisible ==
  phase = "done" =>
    /\ \A c \in CountryCodes \ {top.code} :
         LET n(d) == Cardinality(VotesFor(d))
             r(d) == RankOf(VotesFor(d))
         IN  \/ n(top.code) > n(c)
             \/ n(top.code) = n(c) /\ r(top.code) < r(c)
             \/ n(top.code) = n(c) /\ r(top.code) = r(c) /\ Before(top.code, c)
    /\ \A a \in ASNs \ {loc.asn} :
         LET n(b) == Cardinality(VotesForASN(b))
         IN  n(loc.asn) > n(a) \/ (n(loc.asn) = n(a) /\ loc.asn < a)

(* A verdict that is called confident is one the server takes: a country    *)
(* that enough sources voted for, in two letters and with a name, and a     *)
(* city with its region.                                                    *)
ConfidentIsComplete ==
  phase = "done" =>
    /\ loc.countryConfident =>
         /\ loc.code \in Alpha2 /\ loc.country # ""
         /\ Cardinality(VotesFor(loc.code)) >= MinSources
    /\ loc.cityConfident => loc.city # <<>> /\ loc.region # <<>>

(* The group is built around one of its members, but "every member matches  *)
(* every other pairwise" (agreeOnPlace), though the match is not            *)
(* transitive; and no larger set of sources agrees so.                      *)
Corroborating(s, f) ==
  \A i, j \in s : Match(TokensOf(i, f), TokensOf(j, f))
GroupsArePairwise ==
  phase = "done" =>
  LET group == agreeOnPlace(ok, "city")
  IN  /\ Corroborating(group, "city")
      /\ \A s \in SUBSET ok :
           Corroborating(s, "city") => Cardinality(s) <= Cardinality(group)

(* The name that is published for good asserts no more than every source    *)
(* of the group said, and two of them at least; and though the country is   *)
(* voted on apart, one of the group voted for it, where the sources are too *)
(* few for two apart (three for a quorum of two).                           *)
CityIsWhatAllSaid ==
  phase = "done" /\ loc.cityConfident =>
    \E s \in SUBSET ok :
      /\ Cardinality(s) >= 2
      /\ s = agreeOnPlace(ok, "city")
      /\ \A i \in s : PrefixOrEqual(Tokens[loc.city], TokensOf(i, "city"))
      /\ Len(results) < 2 + MinSources /\ loc.countryConfident
           => s \cap VotesFor(loc.code) # {}
=============================================================================
