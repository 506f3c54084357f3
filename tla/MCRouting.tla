------------------------------- MODULE MCRouting -------------------------------
(***************************************************************************)
(* Six pools over WETH ("W") and two tokens: four of WETH and A, one on each   *)
(* V2 venue, one of Aerodrome and one of V3, and two that close a triangle.   *)
(* In a state of the pools one of them is priced against the others.         *)
(***************************************************************************)
EXTENDS Routing

CONSTANTS a1, a2, ae, v3, ab, bw

mcKind == [p \in RoutePools |-> CASE p = ae -> "aero" [] p = v3 -> "v3" [] OTHER -> "v2"]

mcPair == [p \in RoutePools |-> CASE p = ab -> <<"A", "B">> [] p = bw -> <<"B", "W">>
                                  [] OTHER  -> <<"W", "A">>]

mcVenue == [p \in RoutePools |-> CASE p = a2 -> 2 [] p \in {ae, v3} -> 0 [] OTHER -> 1]

mcFee == [p \in RoutePools |-> IF p \in {ae, v3} THEN 40 ELSE 3]

mcPriced(odd) ==
    [p \in RoutePools |-> CASE p = odd -> <<60, 20>> [] p = ab -> <<40, 40>> [] OTHER -> <<20, 60>>]

(* A pool with so little WETH that a leg into it rounds to nothing *)
mcThin == [mcPriced(ae) EXCEPT ![a1] = <<2, 60>>]

mcStates == {mcPriced(odd) : odd \in RoutePools \ {ab}} \cup {mcThin}
=============================================================================
