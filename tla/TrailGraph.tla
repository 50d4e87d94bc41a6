----------------------------- MODULE TrailGraph -----------------------------
(***************************************************************************)
(* The parent links of trails: verify_chain and get_trail_graph, which read *)
(* one row per query while other requests record trails.                    *)
(*                                                                          *)
(* A trail is a number, given in the order of recording; record_trail never *)
(* changes a row, and a parent it is given is any identifier: a trail that  *)
(* exists, or one that does not (Unknown). Edit stands for a change of      *)
(* trails.db outside the service, which verify_chain exists to find. One    *)
(* reader is under way at a time: readers change nothing another one reads. *)
(***************************************************************************)
EXTENDS Naturals, FiniteSets, FiniteSetsExt

CONSTANTS
  MaxTrails,  \* bound: rows
  MaxEdits    \* bound: edits outside the service

ASSUME TrailGraphAssumption == MaxTrails \in Nat /\ MaxEdits \in Nat

Null == 0
Unknown == MaxTrails + 1
Running == [reason |-> "running", at |-> Null]
NoWalk == [start |-> Null, cur |-> Null, visited |-> {}, verdict |-> Running]

VARIABLES
  rows,    \* trail -> parent, what delegation_ref says of it, signature present
  edits,   \* edits so far
  walk,    \* a verify_chain in progress or finished
  climb    \* a get_trail_graph on its way up: the trail it started at, and is at

graphVars == <<rows, edits, walk, climb>>

Ids == DOMAIN rows
Delegations == {"null", "names_parent", "other"}

GraphInit ==
  /\ rows = <<>>
  /\ edits = 0
  /\ walk = NoWalk
  /\ climb = [start |-> Null, at |-> Null]

\* record_trail requires a nonce, so signature_ref is always set.
RecordRow(parent, delegation) ==
  /\ Cardinality(Ids) < MaxTrails
  /\ parent \in Ids \cup {Null, Unknown}
  /\ rows' = [i \in 1..(Cardinality(Ids) + 1) |->
                IF i \in Ids THEN rows[i]
                ELSE [parent |-> parent, delegation |-> delegation, signed |-> TRUE]]
  /\ UNCHANGED <<edits, walk, climb>>

Edit(i, row) ==
  /\ edits < MaxEdits
  /\ walk = NoWalk /\ climb.start = Null
  /\ rows' = [rows EXCEPT ![i] = row]
  /\ edits' = edits + 1
  /\ UNCHANGED <<walk, climb>>

-----------------------------------------------------------------------------
(* verify_chain                                                             *)

WalkStart(i) ==
  /\ walk = NoWalk /\ climb.start = Null
  /\ walk' = [NoWalk EXCEPT !.start = i, !.cur = i]
  /\ UNCHANGED <<rows, edits, climb>>

\* The row's own tests, in the code's order; "parent in delegation_ref".
RowDefect(i) ==
  IF i \notin Ids THEN "trail_not_found"
  ELSE IF ~rows[i].signed THEN "missing_signature_ref"
  ELSE IF rows[i].parent # Null /\ rows[i].delegation = "other" THEN "delegation_ref_parent_mismatch"
  ELSE "none"

\* Mutant of WalkStep: no visited set.
WalkStepForgets ==
  /\ walk.start # Null /\ walk.verdict = Running
  /\ walk' =
       IF walk.cur = Null THEN [walk EXCEPT !.verdict = [reason |-> "valid", at |-> Null]]
       ELSE IF RowDefect(walk.cur) # "none"
       THEN [walk EXCEPT !.verdict = [reason |-> RowDefect(walk.cur), at |-> walk.cur]]
       ELSE [walk EXCEPT !.cur = rows[walk.cur].parent, !.visited = {walk.cur}]
  /\ UNCHANGED <<rows, edits, climb>>

\* One turn of the loop.
WalkStep ==
  /\ walk.start # Null /\ walk.verdict = Running
  /\ walk' =
       IF walk.cur = Null THEN [walk EXCEPT !.verdict = [reason |-> "valid", at |-> Null]]
       ELSE IF walk.cur \in walk.visited
       THEN [walk EXCEPT !.verdict = [reason |-> "cycle_detected", at |-> walk.cur]]
       ELSE IF RowDefect(walk.cur) # "none"
       THEN [walk EXCEPT !.verdict = [reason |-> RowDefect(walk.cur), at |-> walk.cur]]
       ELSE [walk EXCEPT !.cur = rows[walk.cur].parent, !.visited = @ \cup {walk.cur}]
  /\ UNCHANGED <<rows, edits, climb>>

WalkEnd ==
  /\ walk.verdict # Running
  /\ walk' = NoWalk
  /\ UNCHANGED <<rows, edits, climb>>

-----------------------------------------------------------------------------
(* get_trail_graph: the climb to the root, then all that descends from it.  *)

ClimbStart(i) ==
  /\ climb.start = Null /\ walk = NoWalk
  /\ climb' = [start |-> i, at |-> i]
  /\ UNCHANGED <<rows, edits, walk>>

HasParentRow(i) == rows[i].parent # Null /\ rows[i].parent \in Ids

ClimbStep ==
  /\ climb.start # Null
  /\ climb' = IF HasParentRow(climb.at) THEN [climb EXCEPT !.at = rows[climb.at].parent]
              ELSE [start |-> Null, at |-> Null]
  /\ UNCHANGED <<rows, edits, walk>>

\* The k-th ancestor of i by parent links; Null past a root or a missing row.
Ancestor(i, k) ==
  LET up[n \in 0..k] ==
        IF n = 0 THEN i
        ELSE IF up[n - 1] \in Ids THEN rows[up[n - 1]].parent ELSE Null
  IN up[k]

\* The nodes of _build_node(root): its descendants, through children.
Descendants(root) == {i \in Ids : \E k \in 0..MaxTrails : Ancestor(i, k) = root}

GraphNext ==
  \/ \E p \in 0..Unknown, d \in Delegations : RecordRow(p, d)
  \/ \E i \in Ids, p \in 0..Unknown, d \in Delegations, s \in BOOLEAN :
       Edit(i, [parent |-> p, delegation |-> d, signed |-> s])
  \/ \E i \in 1..Unknown : WalkStart(i)
  \/ WalkStep
  \/ WalkEnd
  \/ \E i \in Ids : ClimbStart(i)
  \/ ClimbStep

-----------------------------------------------------------------------------

\* The distances from i at which the chain has something wrong: a defect of the
\* row there, or an ancestor met before.
Faults(i) ==
  {k \in 0..(MaxTrails + 1) :
     LET a == Ancestor(i, k) IN
     a # Null /\ (RowDefect(a) # "none" \/ \E j \in 0..(k - 1) : Ancestor(i, j) = a)}

ReferenceVerdict(i) ==
  IF Faults(i) = {} THEN [reason |-> "valid", at |-> Null]
  ELSE LET k == Min(Faults(i))
           a == Ancestor(i, k)
       IN [reason |-> IF \E j \in 0..(k - 1) : Ancestor(i, j) = a THEN "cycle_detected" ELSE RowDefect(a),
           at |-> a]

(***************************************************************************)
(* verify_chain, reading row by row while trails are recorded, ends with    *)
(* the verdict and broken_at of the fault nearest to where it started       *)
(* (after at most one turn per row), and says "cycle_detected" only of a    *)
(* database edited outside the service. get_trail_graph, on the service's   *)
(* own rows, climbs to a trail whose graph holds the one asked for.         *)
(***************************************************************************)
ChainVerdictIsNearestFault ==
  /\ walk.verdict # Running =>
       \/ walk.verdict = ReferenceVerdict(walk.start)
       \/ walk.verdict.reason = "trail_not_found" /\ walk.verdict.at \in Ids
  /\ walk.verdict.reason = "cycle_detected" => edits > 0
  /\ walk.visited \subseteq Ids
  /\ walk.verdict = Running /\ walk.start # Null /\ walk.cur # Null =>
       \A k \in 0..(Cardinality(walk.visited) - 1) : Ancestor(walk.start, k) \in walk.visited
  /\ edits = 0 /\ climb.start # Null => climb.start \in Descendants(climb.at)

-----------------------------------------------------------------------------
(* The inductive invariant behind ChainVerdictIsNearestFault. A walk has been *)
(* through the first Cardinality(visited) ancestors, all different and none   *)
(* defective, which later records cannot change.                              *)

RowSet == [parent : 0..Unknown, delegation : Delegations, signed : BOOLEAN]
Reasons == {"running", "valid", "cycle_detected", "trail_not_found", "missing_signature_ref",
            "delegation_ref_parent_mismatch"}

GraphTypeOK ==
  /\ \E n \in 0..MaxTrails : rows \in [1..n -> RowSet]
  /\ edits \in Nat
  /\ walk \in [start : 0..Unknown, cur : 0..Unknown, visited : SUBSET Ids,
               verdict : [reason : Reasons, at : 0..Unknown]]
  /\ climb \in [start : {Null} \cup Ids, at : {Null} \cup Ids]
  /\ climb.start # Null => climb.at # Null

Passed ==
  LET s == walk.start
      n == Cardinality(walk.visited)
  IN /\ walk.visited = {Ancestor(s, k) : k \in 0..(n - 1)}
     /\ walk.cur = Ancestor(s, n)
     /\ \A i \in walk.visited : RowDefect(i) = "none"
     /\ \A j, k \in 0..(n - 1) : Ancestor(s, j) = Ancestor(s, k) => j = k

\* A trail that was missing may have been recorded since.
VerdictFits ==
  \/ walk.verdict = Running
  \/ walk.cur = Null /\ walk.verdict = [reason |-> "valid", at |-> Null]
  \/ /\ walk.cur # Null /\ walk.verdict.at = walk.cur
     /\ \/ walk.cur \in walk.visited /\ walk.verdict.reason = "cycle_detected"
        \/ walk.cur \notin walk.visited /\ walk.verdict.reason \in {RowDefect(walk.cur), "trail_not_found"} \ {"none"}

\* The service's own rows name a parent recorded before them, or none that is.
OlderParents ==
  /\ \A i \in Ids : rows[i].parent < i \/ rows[i].parent = Unknown
  /\ \A i \in walk.visited : walk.cur < i \/ walk.cur = Unknown

ClimbFits ==
  \E k \in 0..MaxTrails :
    /\ \A j \in 0..k : Ancestor(climb.start, j) \in Ids
    /\ Ancestor(climb.start, k) = climb.at
    /\ climb.at + k <= climb.start

GraphInv ==
  /\ GraphTypeOK
  /\ IF walk.start = Null THEN walk = NoWalk ELSE Passed /\ VerdictFits
  /\ edits = 0 => OlderParents
  /\ edits = 0 /\ climb.start # Null => ClimbFits
=============================================================================
