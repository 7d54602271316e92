--------------------------- MODULE PlaceConsensus ---------------------------
(***************************************************************************)
(* Consensus over the names that the sources really write: what it takes   *)
(* as the tokens and the display of a name are those of PlaceNames.        *)
(***************************************************************************)
EXTENDS Consensus, PlaceNames

ASSUME PlacesAssumption ==
  /\ \A n \in Names : n \in Seq(Range(n))
  /\ Tokens  = [n \in Names |-> PlaceTokens(n)]
  /\ Display = [n \in Names |-> PlaceDisplay(n)]

NamesGiven == UNION {{results[i].city, results[i].region} : i \in DOMAIN results}

(* A scan with a depth, a count and two flags removes exactly the groups    *)
(* that the comment of reduceParentheticals speaks of, of any name however  *)
(* its parentheses nest or fail to close, and counts words as PlaceTokens.  *)
NamesReduceAsSaid ==
  phase = "fetched" => \A n \in NamesGiven : ReducedAsSaid(n)

(* What is stored for good asserts the words that were compared, no         *)
(* district more and no qualifier less, and when the stored name comes back *)
(* it matches what it was made from.                                        *)
NamesShownAsMatched ==
  phase = "fetched" => \A n \in NamesGiven : ShownAsMatched(n)
=============================================================================
