-------------------------- MODULE EvidenceVerifiers --------------------------
(***************************************************************************)
(* The verifiers of evidence: the ones of the service (trail heads, parent  *)
(* chains, the anchor plugins) and the reference programs under             *)
(* examples/conformance. They share no state, so a behaviour exercises one  *)
(* of them: focus says which, and the others keep their initial state.      *)
(***************************************************************************)
EXTENDS TrailHead, TrailGraph, DelegationChain, ExecutionJoin, RetrySafety, ToolRetry, EvidenceAnchor

VARIABLE focus

verifierVars == <<focus, headVars, graphVars, chainVars, joinVars, retryVars, toolVars, anchorVars>>

\* The modules with several initial states keep one of them when out of focus.
Init ==
  /\ focus \in {"trail_head", "graph", "delegation", "join", "settlement", "tool", "anchor"}
  /\ HeadInit
  /\ focus # "trail_head" => ~numbered
  /\ GraphInit
  /\ ChainInit
  /\ JoinInit
  /\ RetryInit
  /\ focus # "settlement" => backend.mode = "clean" /\ backend.kind = "x402" /\ client = "control"
  /\ ToolInit
  /\ focus # "tool" => tool = "unguarded"
  /\ AnchorInit
  /\ focus # "anchor" => kept.ref = NoRefGiven /\ kept.id = 0

Next ==
  /\ UNCHANGED focus
  /\ \/ /\ focus = "trail_head"
        /\ HeadNext
        /\ UNCHANGED <<graphVars, chainVars, joinVars, retryVars, toolVars, anchorVars>>
     \/ /\ focus = "graph"
        /\ GraphNext
        /\ UNCHANGED <<headVars, chainVars, joinVars, retryVars, toolVars, anchorVars>>
     \/ /\ focus = "delegation"
        /\ ChainNext
        /\ UNCHANGED <<headVars, graphVars, joinVars, retryVars, toolVars, anchorVars>>
     \/ /\ focus = "join"
        /\ JoinNext
        /\ UNCHANGED <<headVars, graphVars, chainVars, retryVars, toolVars, anchorVars>>
     \/ /\ focus = "settlement"
        /\ RetryNext
        /\ UNCHANGED <<headVars, graphVars, chainVars, joinVars, toolVars, anchorVars>>
     \/ /\ focus = "tool"
        /\ ToolNext
        /\ UNCHANGED <<headVars, graphVars, chainVars, joinVars, retryVars, anchorVars>>
     \/ /\ focus = "anchor"
        /\ AnchorNext
        /\ UNCHANGED <<headVars, graphVars, chainVars, joinVars, retryVars, toolVars>>

Spec == Init /\ [][Next]_verifierVars
=============================================================================
