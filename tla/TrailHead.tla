------------------------------ MODULE TrailHead ------------------------------
(***************************************************************************)
(* trail_head.py: the per-agent hash chain, the checkpoints that seal it,   *)
(* and verify_trail, which tells a consumer whether a presented log is the  *)
(* whole of it.                                                             *)
(*                                                                          *)
(* The operator appends entries and seals a checkpoint per agent at the end *)
(* of every period; an agent that numbers its actions (agent_seq) lets a    *)
(* consumer see the ones the operator never logged. What a consumer may be  *)
(* shown is any log: an honest one, a doctored one, or one that was chained *)
(* afresh from other actions.                                               *)
(***************************************************************************)
EXTENDS Merkle

CONSTANTS
  ActionRef,   \* action_refs
  MaxEntries,  \* bound: entries per log
  MaxPeriods,  \* bound: sealed periods
  MaxAge       \* max_checkpoint_age_s, in periods


Agents == <<"a", "b", "c">>   \* in the order seal_period sorts them
Absent == <<>>
Junk == "junk"                \* what is not 64 lowercase hex characters

\* append_entry takes nothing else for an action_ref.
ASSUME TrailHeadAssumption ==
  MaxEntries \in Nat /\ MaxPeriods \in Nat /\ MaxAge \in Nat /\ Junk \notin ActionRef

VARIABLES
  log,       \* the log of agent "a"; "b" and "c" have one entry each
  counter,   \* actions agent "a" has numbered
  numbered,  \* whether agent "a" supplies agent_seq
  seals      \* the checkpoints of each sealed period, in leaf order

headVars == <<log, counter, numbered, seals>>

\* compute_head over entry_preimage. prev is absent exactly at seq 1.
ComputeHead(agent, seq, ref, prev, aseq) == <<agent, seq, ref, prev, aseq>>

Entry(agent, seq, ref, prev, aseq) ==
  [agent |-> agent, seq |-> seq, ref |-> ref, prev |-> prev, aseq |-> aseq,
   head |-> ComputeHead(agent, seq, ref, prev, aseq)]

Append1(entries, agent, ref, aseq) ==
  Append(entries, Entry(agent, Len(entries) + 1, ref,
                        IF entries = <<>> THEN Absent ELSE Last(entries).head, aseq))

\* A log chained from a sequence of action_refs, without agent_seq.
ChainOf(refs) ==
  LET chain[n \in 0..Len(refs)] == IF n = 0 THEN <<>> ELSE Append1(chain[n - 1], "a", refs[n], 0)
  IN chain[Len(refs)]

OtherLog(agent) == <<Entry(agent, 1, "other", Absent, 0)>>

LogOf(agent) == IF agent = "a" THEN log ELSE OtherLog(agent)

HeadInit ==
  /\ log = <<>>
  /\ counter = 0
  /\ numbered \in BOOLEAN
  /\ seals = <<>>

\* append_entry. agent_seq is 0 when the agent supplies none.
AppendEntry(ref) ==
  /\ Len(log) < MaxEntries
  /\ counter' = counter + 1
  /\ log' = Append1(log, "a", ref, IF numbered THEN counter + 1 ELSE 0)
  /\ UNCHANGED <<numbered, seals>>

\* The agent numbers an action that the operator does not log.
OmitEntry ==
  /\ counter < MaxEntries
  /\ counter' = counter + 1
  /\ UNCHANGED <<log, numbered, seals>>

\* make_checkpoint of an agent's last entry.
MakeCheckpoint(agent) ==
  [agent |-> agent, end |-> Len(seals) + 1,
   seq |-> Last(LogOf(agent)).seq, head |-> Last(LogOf(agent)).head]

\* A checkpoint of every agent with entries: "b" and "c" always have one.
SealPeriod ==
  /\ Len(seals) < MaxPeriods
  /\ LET present == IF log = <<>> THEN Tail(Agents) ELSE Agents
     IN seals' = Append(seals, [i \in DOMAIN present |-> MakeCheckpoint(present[i])])
  /\ UNCHANGED <<log, counter, numbered>>

HeadNext ==
  \/ \E ref \in ActionRef : AppendEntry(ref)
  \/ OmitEntry
  \/ SealPeriod

-----------------------------------------------------------------------------
(* verify_trail. Each part answers "ok" or the reason of its first failure. *)

Then(first, second) == IF first = "ok" THEN second ELSE first

Shape(es) ==
  LET bad == {i \in DOMAIN es : es[i].ref = Junk \/ es[i].agent # es[1].agent} IN
  IF es = <<>> THEN "empty_or_not_a_list"
  ELSE IF bad = {} THEN "ok"
  ELSE IF es[Min(bad)].ref = Junk THEN "entry_shape" ELSE "agent_mixed"

\* The same seqs k..k+n-1 in another order.
Reordered(es, from) ==
  /\ {es[i].seq : i \in DOMAIN es} = from..(from + Len(es) - 1)
  /\ \E i \in DOMAIN es : es[i].seq # from + i - 1

\* Mutant of EntryDefect: a link is compared with no predecessor.
EntryDefectNoLink(es, from, i) ==
  LET e == es[i] IN
  IF e.seq # from + i - 1 THEN "seq_gap"
  ELSE IF (e.seq = 1) # (e.prev = Absent) THEN "entry_preimage"
  ELSE IF e.head # ComputeHead(es[1].agent, e.seq, e.ref, e.prev, e.aseq) THEN "head_mismatch"
  ELSE "ok"

\* The tests of the continuity loop on entry i; the earlier ones have passed.
EntryDefect(es, from, i) ==
  LET e == es[i] IN
  IF e.seq # from + i - 1 THEN "seq_gap"
  ELSE IF (e.seq = 1) # (e.prev = Absent) THEN "entry_preimage"
  ELSE IF e.head # ComputeHead(es[1].agent, e.seq, e.ref, e.prev, e.aseq) THEN "head_mismatch"
  ELSE IF i > 1 /\ e.prev # es[i - 1].head THEN "link_mismatch"
  ELSE "ok"

Continuity(es, from) ==
  LET bad == {i \in DOMAIN es : EntryDefect(es, from, i) # "ok"} IN
  IF Reordered(es, from) THEN "seq_order"
  ELSE IF bad # {} THEN EntryDefect(es, from, Min(bad)) ELSE "ok"

\* A checkpoint as presented: the checkpoint, its proof and the period's root.
NoCheckpoint == [cp |-> Absent, proof |-> <<>>, root |-> Absent]

Proven(shown) == VerifyInclusion(shown.cp, shown.proof, shown.root)

WindowStart(es, from, anchor) ==
  IF anchor = NoCheckpoint THEN "ok"
  ELSE IF anchor.cp.agent # es[1].agent THEN "anchor_other_agent"
  ELSE IF ~Proven(anchor) THEN "anchor_not_in_root"
  ELSE IF from = 1 \/ anchor.cp.seq # from - 1 THEN "anchor_not_adjacent"
  ELSE IF es[1].prev # anchor.cp.head THEN "prev_head_differs_from_anchor"
  ELSE "ok"

AgentSeq(es, from) ==
  LET with == {i \in DOMAIN es : es[i].aseq # 0} IN
  IF with = {} THEN "ok"
  ELSE IF with # DOMAIN es THEN "agent_seq_partial"
  ELSE IF from = 1 /\ es[1].aseq # 1 THEN "agent_seq_not_contiguous"
  ELSE IF \E i \in 1..(Len(es) - 1) : es[i + 1].aseq # es[i].aseq + 1
       THEN "agent_seq_not_contiguous" ELSE "ok"

Completeness(es, from, shown, now) ==
  LET last == Last(es).seq
      cp == shown.cp
  IN
  IF shown = NoCheckpoint THEN "no_checkpoint"
  ELSE IF cp.agent # es[1].agent THEN "checkpoint_other_agent"
  ELSE IF ~Proven(shown) THEN "not_in_root"
  ELSE IF now - cp.end > MaxAge THEN "checkpoint_too_old"
  ELSE IF cp.seq < from THEN "checkpoint_before_window"
  ELSE IF last < cp.seq THEN "log_shorter_than_checkpoint"
  ELSE IF es[cp.seq - from + 1].head # cp.head THEN "head_differs_from_checkpoint"
  ELSE IF last = cp.seq THEN IF from > 1 THEN "window_complete" ELSE "complete"
  ELSE IF from > 1 THEN "window_complete_unsealed_tail" ELSE "complete_unsealed_tail"

VerifyTrail(es, from, anchor, shown, now) ==
  Then(Shape(es), Then(Continuity(es, from), Then(WindowStart(es, from, anchor),
    Then(AgentSeq(es, from), Completeness(es, from, shown, now)))))

\* verify_checkpoint_cadence on one agent's stream.
CadenceOk(ends, declared) ==
  \A x \in ends : (\E y \in ends : y > x) => \E y \in ends : y > x /\ y - x <= declared

-----------------------------------------------------------------------------
(* What a consumer may be shown.                                            *)

\* A sealed checkpoint, with the proof and the root of its period.
Shown(p, i) ==
  [cp |-> seals[p][i], proof |-> GetProof(seals[p], i - 1), root |-> MerkleRoot(seals[p])]

Sealed == UNION {{Shown(p, i) : i \in DOMAIN seals[p]} : p \in DOMAIN seals}

\* A checkpoint lowered to an earlier entry, under the proof of a sealed one.
Lowered ==
  UNION {{[s EXCEPT !.cp = [@ EXCEPT !.seq = i, !.head = log[i].head]] :
            s \in {t \in Sealed : t.cp.agent = "a" /\ t.cp.seq > i}} : i \in DOMAIN log}

RefSeqs == UNION {[1..n -> ActionRef] : n \in 1..MaxEntries}

\* Cut, thinned, reordered and edited copies of the log (an edited entry with
\* its head recomputed or not), other logs chained afresh, and mixtures.
Presented ==
  LET n == Len(log)
      chains == {ChainOf(refs) : refs \in RefSeqs}
  IN {SubSeq(log, i, j) : i, j \in 1..n}
     \cup {RemoveAt(log, i) : i \in 1..n}
     \cup {[log EXCEPT ![i] = log[j], ![j] = log[i]] : i, j \in 1..n}
     \cup {[log EXCEPT ![i].ref = r] : i \in 1..n, r \in ActionRef \cup {Junk}}
     \cup {[log EXCEPT ![i] = Entry("a", i, r, @.prev, @.aseq)] : i \in 1..n, r \in ActionRef}
     \cup chains \cup {SubSeq(c, 2, Len(c)) : c \in chains}
     \cup {OtherLog("b"), log \o OtherLog("b")}

-----------------------------------------------------------------------------
(* trail-head-window-ref: its vectors, for any log and any window start.    *)

SealedAt(es, end) ==
  LET cp(l) == [agent |-> Last(l).agent, end |-> end, seq |-> Last(l).seq, head |-> Last(l).head]
      leaves == <<cp(es), cp(OtherLog("b"))>>
  IN [cp |-> leaves[1], proof |-> GetProof(leaves, 0), root |-> MerkleRoot(leaves)]

\* rechain: from a prev_head of one's own choosing.
Rechained(refs, from, prev) ==
  LET chain[n \in 0..Len(refs)] ==
        IF n = 0 THEN <<>>
        ELSE Append(chain[n - 1], Entry("a", from + n - 1, refs[n],
                                        IF n = 1 THEN prev ELSE Last(chain[n - 1]).head, 0))
  IN chain[Len(refs)]

WindowAnchor(from, anchor) ==
  IF anchor # NoCheckpoint THEN "certified" ELSE IF from = 1 THEN "genesis" ELSE "uncertified"

Case(es, from, anchor, shown, reason, start) ==
  [es |-> es, from |-> from, anchor |-> anchor, shown |-> shown, reason |-> reason, start |-> start]

\* CASES: the log, the window that starts at k, the window chained afresh and
\* the window cut, with and without an anchor at k - 1 and the tail's seal.
Cases(es, k) ==
  LET win == SubSeq(es, k, Len(es))
      tail == SealedAt(es, 2)
      anchor == SealedAt(SubSeq(es, 1, k - 1), 1)
      fake == Rechained([i \in DOMAIN win |-> "fake"], k, <<"chosen">>)
      none == NoCheckpoint
  IN {Case(es, 1, none, none, "no_checkpoint", "genesis"),
      Case(es, 1, none, tail, "complete", "genesis"),
      Case(win, k, anchor, none, "no_checkpoint", "certified"),
      Case(win, k, none, none, "no_checkpoint", "uncertified"),
      Case(win, k, none, tail, "window_complete", "uncertified"),
      Case(fake, k, none, none, "no_checkpoint", "uncertified"),
      Case(fake, k, anchor, none, "prev_head_differs_from_anchor", "none"),
      Case(fake, k, none, tail, "head_differs_from_checkpoint", "none"),
      Case(Front(win), k, none, none, "no_checkpoint", "uncertified"),
      Case(Front(win), k, none, tail, "log_shorter_than_checkpoint", "none"),
      Case(win, 1, none, none, "seq_gap", "none")}

\* observed against expected; blind is the verifier that drops the anchor.
Scored(c, blind) ==
  LET anchor == IF blind THEN NoCheckpoint ELSE c.anchor IN
  /\ VerifyTrail(c.es, c.from, anchor, c.shown, 2) = c.reason
  /\ c.start # "none" => WindowAnchor(c.from, anchor) = c.start

WindowVectorsHold(es, k) ==
  /\ \A c \in Cases(es, k) : Scored(c, FALSE)
  /\ \E c \in Cases(es, k) : ~Scored(c, TRUE)

(***************************************************************************)
(* verify_trail: whatever list of entries is shown, with whatever sealed    *)
(* checkpoint, "complete" and "window_complete" mean that the list is       *)
(* exactly what the operator had logged from from_seq to the checkpoint,    *)
(* and "_unsealed_tail" that it agrees with the log that far; a sealed      *)
(* checkpoint lowered to hide a tail gets none of these.                    *)
(***************************************************************************)
CompleteMeansWholeLog ==
  seals # <<>> => \A es \in Presented, shown \in Sealed \cup Lowered, from \in 1..MaxEntries,
     anchor \in {NoCheckpoint} \cup {s \in Sealed : s.cp.seq = 1} :
    LET v == VerifyTrail(es, from, anchor, shown, Len(seals))
        covered == SubSeq(LogOf(shown.cp.agent), from, shown.cp.seq)
        whole == v \in {"complete", "window_complete"}
        longer == v \in {"complete_unsealed_tail", "window_complete_unsealed_tail"}
    IN /\ whole => es = covered
       /\ longer => SubSeq(es, 1, Len(covered)) = covered /\ Len(es) > Len(covered)
       /\ whole \/ longer => shown \in Sealed

(***************************************************************************)
(* verify_trail refuses no honest operator: the log under the latest        *)
(* checkpoint is complete up to it, also as a window whose start an earlier *)
(* checkpoint certifies, unless the agent's own numbering shows an action   *)
(* that was never logged; one checkpoint per period keeps the declared      *)
(* cadence; and every agent's checkpoint is proven in the period's root.    *)
(* The vectors of trail-head-window-ref, made from the log and any window   *)
(* of it, score as they declare, and catch a verifier blind to the anchor.  *)
(***************************************************************************)
HonestLogAccepted ==
  LET latest == {s \in Sealed : s.cp.agent = "a" /\ s.cp.end = Len(seals)}
      gap(k) == IF k = 1 THEN \E i \in DOMAIN log : log[i].aseq \notin {0, i}
                ELSE \E i \in (k + 1)..Len(log) : log[i].aseq \notin {0, log[i - 1].aseq + 1}
  IN
  /\ \A s \in Sealed : Proven(s)
  /\ CadenceOk({s.cp.end : s \in {t \in Sealed : t.cp.agent = "a"}}, 1)
  /\ \A s \in latest, k \in DOMAIN log,
       anchor \in {NoCheckpoint} \cup {t \in Sealed : t.cp.agent = "a"} :
       (anchor # NoCheckpoint => anchor.cp.seq = k - 1) =>
         LET v == VerifyTrail(SubSeq(log, k, Len(log)), k, anchor, s, Len(seals)) IN
         IF gap(k) THEN v = "agent_seq_not_contiguous"
         ELSE IF s.cp.seq < k THEN v = "checkpoint_before_window"
         ELSE v = (IF k = 1 THEN IF s.cp.seq = Len(log) THEN "complete" ELSE "complete_unsealed_tail"
                   ELSE IF s.cp.seq = Len(log) THEN "window_complete"
                   ELSE "window_complete_unsealed_tail")
  /\ ~numbered => \A k \in 2..(Len(log) - 1) : WindowVectorsHold(log, k)

-----------------------------------------------------------------------------
(* The inductive invariant behind CompleteMeansWholeLog: every entry holds    *)
(* the head of the one before it, and a checkpoint a head that the log still  *)
(* has.                                                                       *)

Chained(es, agent) ==
  \A i \in 1..Len(es) :
    es[i] = Entry(agent, i, es[i].ref, IF i = 1 THEN Absent ELSE es[i - 1].head, es[i].aseq)

CheckpointStands(cp) ==
  /\ cp.agent \in {"a", "b", "c"}
  /\ cp.seq \in 1..Len(LogOf(cp.agent))
  /\ cp = [agent |-> cp.agent, end |-> cp.end, seq |-> cp.seq, head |-> LogOf(cp.agent)[cp.seq].head]

HeadInv ==
  /\ log \in Seq(Range(log)) /\ Chained(log, "a")
  /\ seals \in Seq(Range(seals))
  /\ \A p \in DOMAIN seals :
       seals[p] \in Seq(Range(seals[p])) /\ \A i \in DOMAIN seals[p] : CheckpointStands(seals[p][i])

\* The one behind HonestLogAccepted: the operator logs action_refs, numbered or
\* not, and an agent that has entries has a checkpoint in every later period.
Continues(p) ==
  (\E i \in DOMAIN seals[p] : seals[p][i].agent = "a") /\ p < Len(seals) =>
    \E i \in DOMAIN seals[p + 1] : seals[p + 1][i].agent = "a"

HonestInv ==
  /\ HeadInv
  /\ numbered \in BOOLEAN /\ counter \in Nat
  /\ \A i \in DOMAIN log :
       /\ log[i].ref \in ActionRef
       /\ IF numbered THEN log[i].aseq \in Nat \ {0} ELSE log[i].aseq = 0
  /\ \A p \in DOMAIN seals : Continues(p) /\ \A i \in DOMAIN seals[p] : seals[p][i].end = p
=============================================================================
