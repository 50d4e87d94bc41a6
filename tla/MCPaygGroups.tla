---------------------------- MODULE MCPaygGroups ----------------------------
(* One TLC instance of PaygCredits for four groups of operations: a          *)
(* behaviour keeps to one of them, which gives the state space the sum of    *)
(* the four.                                                                 *)
EXTENDS MCPaygCredits

CONSTANTS c1, c2, p1, p2

VARIABLE focus

\* The invoices a group may have, as payment, account and trails; the api_keys
\* that c2 may have had; the deposits, both intents and transfers; and whether
\* it uses /external/trail or records trails.
Group ==
  [trails   |-> [invoices |-> {<<p1, c1, 2>>, <<p2, c2, 1>>},
                 keys |-> 1, deposits |-> 0, claims |-> TRUE, trails |-> TRUE],
   payments |-> [invoices |-> Payment \X Account \X Amount,
                 keys |-> 2, deposits |-> 0, claims |-> TRUE, trails |-> FALSE],
   deposits |-> [invoices |-> {},
                 keys |-> 0, deposits |-> 2, claims |-> FALSE, trails |-> FALSE],
   topups   |-> [invoices |-> {<<p1, c1, 1>>},
                 keys |-> 0, deposits |-> 1, claims |-> TRUE, trails |-> FALSE]]

MCInit == Init /\ focus \in DOMAIN Group

InGroup ==
  LET g == Group[focus]
  IN  /\ \A p \in Payment : invoices'[p] # NoInvoice =>
           <<p, invoices'[p].key.account, invoices'[p].trails>> \in g.invoices
      /\ Len(intents') <= g.deposits
      /\ Cardinality({t \in Tx : chain'[t] # None}) <= g.deposits
      /\ gen'[c2] <= g.keys
      /\ claimed' # {} => g.claims
      /\ loop'.op \in {"consume", "record"} => g.trails

MCNext == Next /\ InGroup /\ UNCHANGED focus

MCSpec == MCInit /\ [][MCNext]_<<vars, focus>> /\ Fairness

=============================================================================
