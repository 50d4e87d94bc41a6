--------------------------- MODULE ServiceHandlers ---------------------------
(***************************************************************************)
(* The request handlers outside the karma, PAYG and anchoring modules. A    *)
(* behaviour exercises one of them: focus says which, and the others keep   *)
(* their initial state. They share no table, but for the marketplace, which *)
(* has two: "signing" runs its handlers with signatures and the clock but   *)
(* without raters, "rating" with raters and unsigned requests.              *)
(***************************************************************************)
EXTENDS Marketplace, ProviderTrails, NegotiationRefs, TLC

VARIABLE focus

handlerVars == <<focus, marketVars, providerVars, docuVars>>

Init ==
  /\ focus \in {"signing", "rating", "provider", "negotiation"}
  /\ MarketInit
  /\ focus # "signing" => \A s \in Sig : stamp[s] = 0
  /\ ProviderInit
  /\ DocuInit

Next ==
  /\ UNCHANGED focus
  /\ \/ /\ focus = "signing"
        /\ MarketNext(Sig, {})
        /\ UNCHANGED <<providerVars, docuVars>>
     \/ /\ focus = "rating"
        /\ MarketNext({}, Rater)
        /\ UNCHANGED <<providerVars, docuVars>>
     \/ /\ focus = "provider"
        /\ ProviderNext
        /\ UNCHANGED <<marketVars, docuVars>>
     \/ /\ focus = "negotiation"
        /\ NegotiationNext
        /\ UNCHANGED <<marketVars, providerVars>>

Spec == Init /\ [][Next]_handlerVars

\* Every handler keeps its own part, whichever one is exercised.
HandlersInv ==
  /\ focus \in {"signing", "rating", "provider", "negotiation"}
  /\ MarketInv
  /\ ProviderInv
  /\ DocuInv

Symmetric == Permutations(Sig) \cup Permutations(Rater)
=============================================================================
