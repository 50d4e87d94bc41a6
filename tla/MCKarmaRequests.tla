-------------------------- MODULE MCKarmaRequests --------------------------
(* One TLC instance of KarmaEconomy for two groups of endpoints: a behaviour *)
(* keeps to one of them, which gives the state space the sum of the two.     *)
EXTENDS MCKarmaEconomy

VARIABLE focus

\* The endpoints of a group, who calls them, and the bounds that differ.
Group ==
  [awards   |-> [ops |-> {"attest", "mcp_attest", "webhook", "trail"},
                 callers |-> Everyone, days |-> MaxDay],
   disputes |-> [ops |-> {"attest", "report", "slash", "dispute", "ruling"},
                 callers |-> {poster, alice, lightning}, days |-> 0]]

MCInit == Init /\ focus \in DOMAIN Group

InGroup ==
  /\ \A s \in Slot : req'[s] # Free =>
       req'[s].op \in Group[focus].ops /\ req'[s].by \in Group[focus].callers \cup {None}
  /\ "trail" \notin Group[focus].ops => trailKarma' = trailKarma
  /\ day' <= Group[focus].days

MCSpec == MCInit /\ [][Next /\ InGroup /\ UNCHANGED focus]_<<vars, focus>>

=============================================================================
