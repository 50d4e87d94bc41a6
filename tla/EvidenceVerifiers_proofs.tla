----------------------- MODULE EvidenceVerifiers_proofs -----------------------
(* Machine-checked proofs about the verifiers of evidence, for any number of  *)
(* rows, entries, periods, rounds and checks.                                 *)
EXTENDS EvidenceVerifiers, LogsAndRetries_proofs, SumLemmas, SequenceTheorems, TLAPS

-----------------------------------------------------------------------------
(* The anchor plugins.                                                       *)

\* The derivations of action_ref agree.
LEMMA RefsAlwaysAgree == RefsAgree
<1> SUFFICES ASSUME NEW f \in Fields, NEW g \in Fields
             PROVE  /\ ComputeActionRef(f) # <<OutOfProfile>> =>
                         /\ ComputeActionRef(f) = NexusRef(f)
                         /\ f # g => ComputeActionRef(g) # ComputeActionRef(f)
                         /\ f.agent = g.agent /\ f.scope = g.scope /\ f # g => ComputeActionRef(g) = <<OutOfProfile>>
                         /\ ActionRefVersion(ComputeActionRef(f)) = "v1"
                         /\ ActionRefVersion(ComputeActionRefV2(f)) = "v2"
                    /\ ComputeMyceliumRef(f) \notin {ComputeActionRef(g), ComputeActionRefV2(g), NexusRef(g)}
  BY DEF RefsAgree
<1> DEFINE InProfile(x) == x.agent = "a" /\ x.scope = "s" /\ x.ts = "rfc3339"
<1>1. ASSUME NEW x \in Fields
      PROVE  /\ ComputeActionRef(x) = IF InProfile(x) THEN <<"v1", <<"a", "s", "rfc3339">>>> ELSE <<"OUT_OF_PROFILE_DOMAIN">>
             /\ ComputeActionRefV2(x) = IF InProfile(x) THEN <<"v2", <<"a", "s", "rfc3339">>>> ELSE <<"OUT_OF_PROFILE_DOMAIN">>
             /\ InProfile(x) => NexusRef(x) = <<"v1", <<"a", "s", "rfc3339">>>>
             /\ NexusRef(x) = <<"v1", Jcs(x)>> \/ NexusRef(x) = <<"OUT_OF_PROFILE_DOMAIN">>
  BY DEF Fields, ComputeActionRef, ComputeActionRefV2, NexusRef, ValidateDomain, Jcs, OutOfProfile
<1>2. InProfile(f) /\ InProfile(g) => f = g
  <2>1. /\ f = [agent |-> f.agent, scope |-> f.scope, ts |-> f.ts]
        /\ g = [agent |-> g.agent, scope |-> g.scope, ts |-> g.ts]
    BY DEF Fields
  <2> QED BY <2>1
<1>3. ComputeMyceliumRef(f) \notin {ComputeActionRef(g), ComputeActionRefV2(g), NexusRef(g)}
  BY <1>1 DEF ComputeMyceliumRef
<1>4. ActionRefVersion(<<"v1", <<"a", "s", "rfc3339">>>>) = "v1" /\ ActionRefVersion(<<"v2", <<"a", "s", "rfc3339">>>>) = "v2"
  BY DEF ActionRefVersion
<1>5. <<"v1", <<"a", "s", "rfc3339">>>> # <<"OUT_OF_PROFILE_DOMAIN">>
  OBVIOUS
<1> HIDE DEF InProfile
<1>6. ASSUME ComputeActionRef(f) # <<OutOfProfile>>
      PROVE  InProfile(f)
  BY <1>1, <1>6 DEF OutOfProfile
<1>7. ~InProfile(g) => ComputeActionRef(g) = <<OutOfProfile>>
  BY <1>1 DEF OutOfProfile
<1> QED BY <1>1, <1>2, <1>3, <1>4, <1>5, <1>6, <1>7

\* anchor() posts what the marketplace never takes for a registration.
LEMMA AnchorAnswersNothing == AnchorNeverAnswers
<1>1. "author_id" \in TrailRegister /\ "author_id" \notin Payload
  BY DEF TrailRegister, Payload
<1> QED BY <1>1 DEF AnchorNeverAnswers, AnchorAnswer

\* The invariant says what the property asks.
LEMMA AnchorInvImplies == AnchorInv => VerifiedIsRecorded
<1> SUFFICES ASSUME AnchorInv PROVE VerifiedIsRecorded
  OBVIOUS
<1>1. ASSUME NEW k \in DOMAIN checks
      PROVE  LET c == checks[k]
                 held == {stored[i].hash : i \in Named}
             IN /\ c.verdict.status = "VERIFIED" => Named # {}
                /\ c.verdict.status = "VERIFIED" /\ c.plugin = "agt" =>
                     held \cap {c.hash, NoHash} # {} /\ (NoHash \notin held => GetTrailByPaymentHash(c.hash) # {})
                /\ c.verdict.status = "HASH_MISMATCH" => c.plugin = "agt" /\ held \ {c.hash, NoHash} # {}
                /\ c.verdict.status = "NOT_FOUND" /\ c.plugin = "mycelium" => kept.ref = NoRefGiven /\ kept.id = 0
                /\ c.verdict.proof => kept.tx \/ \E i \in Named : HasTx(i)
  <2>1. CheckStands(checks[k]) /\ checks[k].hash = "h"
    <3>1. checks[k] \in CheckRow
      BY DEF AnchorInv, AnchorTypeOK
    <3> QED BY <3>1 DEF AnchorInv, CheckRow
  <2>2. Named \subseteq DOMAIN stored
    BY DEF Named, GetTrailByActionRef
  <2>3. PICK held : held = {stored[i].hash : i \in Named}
    OBVIOUS
  <2>4. HeldOrNone => held \cap {"h", NoHash} # {} /\ (NoHash \notin held => GetTrailByPaymentHash("h") # {})
    BY <2>2, <2>3 DEF HeldOrNone, GetTrailByPaymentHash
  <2>5. HeldOther => held \ {"h", NoHash} # {}
    BY <2>3 DEF HeldOther
  <2> QED BY <2>1, <2>3, <2>4, <2>5 DEF CheckStands
<1>2. ASSUME NEW j \in DOMAIN checks, NEW k \in DOMAIN checks, j < k, checks[j].plugin = "agt", checks[k].plugin = "agt",
             checks[j].verdict.status \in {"VERIFIED", "HASH_MISMATCH"}
      PROVE  /\ checks[k].verdict.status # "NOT_FOUND"
             /\ checks[k].verdict.status \in {checks[j].verdict.status, "BACKEND_UNAVAILABLE"} \/ \E x, y \in Named : x # y
  <2>1. checks[k].verdict.status # "NOT_FOUND"
    BY <1>2 DEF AnchorInv, NeverLost
  <2>2. CheckStands(checks[j]) /\ CheckStands(checks[k]) /\ checks[k].verdict.status \in Statuses
    <3>1. checks[k] \in CheckRow
      BY DEF AnchorInv, AnchorTypeOK
    <3> QED BY <3>1 DEF AnchorInv, CheckRow
  <2>3. HeldOrNone /\ HeldOther => \E x, y \in Named : x # y
    BY DEF HeldOrNone, HeldOther
  <2> QED BY <1>2, <2>1, <2>2, <2>3 DEF CheckStands, Statuses
<1> QED BY <1>1, <1>2, RefsAlwaysAgree, AnchorAnswersNothing DEF VerifiedIsRecorded

\* A row keeps its agent and hash, its reference once linked, its transaction once sent.
RowsKept ==
  \A i \in DOMAIN stored :
    /\ i \in DOMAIN stored'
    /\ stored'[i].agent = stored[i].agent /\ stored'[i].hash = stored[i].hash
    /\ stored[i].ref # NoRefGiven => stored'[i].ref = stored[i].ref
    /\ stored[i].tx = "sent" => stored'[i].tx = "sent"

\* So what a verdict said of the rows stays true when the service writes one.
LEMMA RowsKeptInv ==
  ASSUME AnchorInv, AnchorTypeOK', RowsKept, UNCHANGED <<kept, checks>>
  PROVE  AnchorInv'
<1>1. Named \subseteq Named' /\ Named \subseteq DOMAIN stored
  BY DEF Named, GetTrailByActionRef, RowsKept
<1>2. (HeldOrNone => HeldOrNone') /\ (HeldOther => HeldOther')
  BY <1>1 DEF HeldOrNone, HeldOther, RowsKept
<1>3. (\E i \in Named : HasTx(i)) => (\E i \in Named : HasTx(i))'
  BY <1>1 DEF HasTx, RowsKept
<1>4. (Named # {}) => (Named # {})'
  BY <1>1
<1>5. ASSUME NEW k \in DOMAIN checks
      PROVE  CheckStands(checks[k])'
  <2>1. CheckStands(checks[k])
    BY DEF AnchorInv
  <2> QED BY <1>2, <1>3, <1>4, <2>1 DEF CheckStands
<1>6. NeverLost'
  BY DEF AnchorInv, NeverLost
<1> QED BY <1>5, <1>6 DEF AnchorInv

\* What either plugin can answer, of the answers to the receipt's question.
LEMMA VerdictStands ==
  ASSUME AnchorInv, NEW plugin \in Plugins, NEW answer \in Fetched(kept), NEW c,
         c = [plugin |-> plugin, hash |-> "h",
              verdict |-> IF plugin = "agt" THEN AgtVerdict(answer, "h", kept.tx)
                          ELSE MyceliumVerdict(answer, "h", kept.tx)]
  PROVE  /\ c \in CheckRow /\ CheckStands(c)
         /\ plugin = "agt" /\ Named # {} => c.verdict.status # "NOT_FOUND"
<1>1. kept.tx \in BOOLEAN
  <2>1. kept \in Receipts
    BY DEF AnchorInv, AnchorTypeOK
  <2>2. CASE \E ref \in AnchorRefs, tx \in BOOLEAN : kept = [ref |-> ref, id |-> 0, tx |-> tx]
    BY <2>2
  <2>3. CASE \E id \in 0..MaxStored : kept = [ref |-> NoRefGiven, id |-> id, tx |-> FALSE]
    BY <2>3
  <2> QED BY <2>1, <2>2, <2>3 DEF Receipts
<1>2. \/ answer.code = 503
      \/ answer.code = 404 /\ Named = {}
      \/ /\ answer.code = 200 /\ answer.verified \in BOOLEAN
         /\ answer.row \in Named
         /\ answer.row # 0
      \/ answer.code = 200 /\ ~answer.verified /\ answer.row = 0 /\ Named = {} /\ kept.ref = NoRefGiven /\ kept.id = 0
  <2>0. answer.code = 503 \/ answer \in (IF kept.ref # NoRefGiven THEN TrailsVerify(NoHash, "a", kept.ref) ELSE GetTrail(kept.id))
    BY DEF Fetched
  <2>1. DOMAIN stored \subseteq Nat \ {0}
    BY DEF AnchorInv, AnchorTypeOK
  <2>2. CASE kept.ref # NoRefGiven /\ answer \in TrailsVerify(NoHash, "a", kept.ref)
    <3>1. Named = GetTrailByActionRef("a", kept.ref) /\ Named \subseteq DOMAIN stored
      BY <2>2 DEF Named, GetTrailByActionRef
    <3>2. CASE Named = {}
      <4>1. answer = NotFound
        BY <2>2, <3>1, <3>2 DEF TrailsVerify
      <4>2. answer.code = 404
        BY <4>1 DEF NotFound
      <4> QED BY <3>2, <4>2
    <3>3. CASE Named # {}
      <4>1. PICK i \in Named : answer = Answer200(TRUE, i)
        BY <2>2, <3>1, <3>3 DEF TrailsVerify
      <4> QED BY <2>1, <3>1, <4>1 DEF Answer200
    <3> QED BY <3>2, <3>3
  <2>3. CASE kept.ref = NoRefGiven /\ answer \in GetTrail(kept.id)
    <3>1. Named = {kept.id} \cap DOMAIN stored
      BY <2>3 DEF Named
    <3>2. CASE kept.id = 0
      BY <2>1, <2>3, <3>1, <3>2 DEF GetTrail, Answer200
    <3>3. CASE kept.id # 0 /\ kept.id \in DOMAIN stored
      <4>1. answer = Answer200(FALSE, kept.id)
        BY <2>3, <3>3 DEF GetTrail
      <4>2. answer.code = 200 /\ answer.verified = FALSE /\ answer.row = kept.id
        BY <4>1 DEF Answer200
      <4> QED BY <3>1, <3>3, <4>2
    <3>4. CASE kept.id # 0 /\ kept.id \notin DOMAIN stored
      <4>1. answer = NotFound
        BY <2>3, <3>4 DEF GetTrail
      <4>2. answer.code = 404
        BY <4>1 DEF NotFound
      <4> QED BY <3>1, <3>4, <4>2
    <3> QED BY <3>2, <3>3, <3>4
  <2> QED BY <2>0, <2>2, <2>3
<1>3. PICK v : v = IF plugin = "agt" THEN AgtVerdict(answer, "h", kept.tx) ELSE MyceliumVerdict(answer, "h", kept.tx)
  OBVIOUS
<1>4. /\ v \in [status : Statuses, proof : BOOLEAN]
      /\ v.status = "VERIFIED" => Named # {} /\ (plugin = "agt" => HeldOrNone)
      /\ v.status = "HASH_MISMATCH" => plugin = "agt" /\ HeldOther
      /\ v.status = "NOT_FOUND" /\ plugin = "mycelium" => kept.ref = NoRefGiven /\ kept.id = 0
      /\ v.proof => kept.tx \/ \E i \in Named : HasTx(i)
      /\ plugin = "agt" /\ Named # {} => v.status # "NOT_FOUND"
  <2>1. CASE answer.code = 503
    BY <1>3, <2>1 DEF AgtVerdict, MyceliumVerdict, Unavailable, Checked, Statuses
  <2>2. CASE answer.code = 404 /\ Named = {}
    BY <1>3, <2>2 DEF AgtVerdict, MyceliumVerdict, Unavailable, Checked, Statuses
  <2>3. CASE answer.code = 200 /\ answer.verified \in BOOLEAN /\ answer.row \in Named /\ answer.row # 0
    <3>1. PICK i \in Named : i = answer.row
      BY <2>3
    <3>2. CASE plugin = "agt"
      <4>1. v = IF stored[i].hash \notin {NoHash, "h"} THEN Checked("HASH_MISMATCH", FALSE)
                ELSE Checked("VERIFIED", HasTx(i) \/ kept.tx)
        BY <1>3, <2>3, <3>1, <3>2 DEF AgtVerdict
      <4>2. CASE stored[i].hash \notin {NoHash, "h"}
        BY <4>1, <4>2, <3>2 DEF Checked, Statuses, HeldOther
      <4>3. CASE stored[i].hash \in {NoHash, "h"}
        <5>1. v = [status |-> "VERIFIED", proof |-> HasTx(i) \/ kept.tx]
          BY <4>1, <4>3 DEF Checked
        <5>2. HeldOrNone
          BY <4>3 DEF HeldOrNone
        <5>3. (HasTx(i) \/ kept.tx) \in BOOLEAN
          BY DEF HasTx
        <5> QED BY <3>2, <5>1, <5>2, <5>3 DEF Statuses
      <4> QED BY <4>2, <4>3
    <3>3. CASE plugin = "mycelium"
      <4>1. v = [status |-> "VERIFIED", proof |-> kept.tx \/ (~answer.verified /\ HasTx(i))]
        BY <1>3, <2>3, <3>1, <3>3 DEF MyceliumVerdict, Checked
      <4>2. (kept.tx \/ (~answer.verified /\ HasTx(i))) \in BOOLEAN
        BY DEF HasTx
      <4> QED BY <3>3, <4>1, <4>2 DEF Statuses
    <3> QED BY <3>2, <3>3 DEF Plugins
  <2>4. CASE answer.code = 200 /\ ~answer.verified /\ answer.row = 0 /\ Named = {} /\ kept.ref = NoRefGiven /\ kept.id = 0
    BY <1>3, <2>4 DEF AgtVerdict, MyceliumVerdict, Checked, Statuses
  <2> QED BY <1>2, <2>1, <2>2, <2>3, <2>4
<1>5. c.plugin = plugin /\ c.verdict = v /\ c = [plugin |-> plugin, hash |-> "h", verdict |-> v]
  BY <1>3
<1>6. c \in CheckRow
  BY <1>4, <1>5 DEF CheckRow
<1> QED BY <1>4, <1>5, <1>6 DEF CheckStands

\* A verification by either plugin.
LEMMA VerifyAnchorInv == ASSUME AnchorInv, NEW plugin \in Plugins, Verify(plugin, "h") PROVE AnchorInv'
<1>1. PICK answer \in Fetched(kept) :
        checks' = Append(checks,
          [plugin |-> plugin, hash |-> "h",
           verdict |-> IF plugin = "agt" THEN AgtVerdict(answer, "h", kept.tx)
                       ELSE MyceliumVerdict(answer, "h", kept.tx)])
  BY DEF Verify
<1>2. PICK c : c = [plugin |-> plugin, hash |-> "h",
                    verdict |-> IF plugin = "agt" THEN AgtVerdict(answer, "h", kept.tx)
                                ELSE MyceliumVerdict(answer, "h", kept.tx)]
  OBVIOUS
<1>3. c \in CheckRow /\ CheckStands(c) /\ c.plugin = plugin /\ (plugin = "agt" /\ Named # {} => c.verdict.status # "NOT_FOUND")
  BY <1>2, VerdictStands
<1>4. checks' = Append(checks, c) /\ UNCHANGED <<stored, kept>> /\ checks \in Seq(CheckRow)
  BY <1>1, <1>2 DEF Verify, AnchorInv, AnchorTypeOK
<1>5. AnchorTypeOK'
  BY <1>3, <1>4 DEF AnchorInv, AnchorTypeOK
<1>6. DOMAIN checks' = 1..(Len(checks) + 1) /\ DOMAIN checks = 1..Len(checks)
      /\ checks'[Len(checks) + 1] = c /\ \A k \in DOMAIN checks : checks'[k] = checks[k]
  BY <1>4
<1>7. ASSUME NEW k \in DOMAIN checks'
      PROVE  CheckStands(checks[k])'
  <2>1. CheckStands(checks'[k])
    BY <1>3, <1>6 DEF AnchorInv
  <2> QED BY <1>4, <2>1 DEF CheckStands, HeldOrNone, HeldOther, Named, GetTrailByActionRef, HasTx
<1>8. NeverLost'
  <2> SUFFICES ASSUME NEW j \in DOMAIN checks', NEW k \in DOMAIN checks', j < k,
                      checks'[j].plugin = "agt", checks'[k].plugin = "agt",
                      checks'[j].verdict.status \in {"VERIFIED", "HASH_MISMATCH"}
               PROVE  checks'[k].verdict.status # "NOT_FOUND"
    BY DEF NeverLost
  <2>1. j \in DOMAIN checks
    BY <1>6
  <2>2. CASE k \in DOMAIN checks
    BY <1>6, <2>1, <2>2 DEF AnchorInv, NeverLost
  <2>3. CASE k = Len(checks) + 1
    <3>1. CheckStands(checks[j]) /\ checks[j].verdict.status \in {"VERIFIED", "HASH_MISMATCH"}
      BY <1>6, <2>1 DEF AnchorInv
    <3>2. Named # {}
      BY <3>1 DEF CheckStands, HeldOther
    <3> QED BY <1>3, <1>6, <2>3, <3>2
  <2> QED BY <1>6, <2>2, <2>3
<1> QED BY <1>5, <1>7, <1>8 DEF AnchorInv

\* The writers: /nexus/trail, /external/trail, their UPDATE, and the background anchor.
LEMMA AnchorNextInv == AnchorInv /\ AnchorNext => AnchorInv'
<1> SUFFICES ASSUME AnchorInv, AnchorNext PROVE AnchorInv'
  OBVIOUS
<1>1. stored \in Seq(StoredRow) /\ kept \in Receipts /\ checks \in Seq(CheckRow)
  BY DEF AnchorInv, AnchorTypeOK
<1>2. ASSUME NEW row \in StoredRow, stored' = Append(stored, row), UNCHANGED <<kept, checks>>
      PROVE  AnchorInv'
  <2>1. AnchorTypeOK'
    BY <1>1, <1>2 DEF AnchorTypeOK
  <2>2. RowsKept
    BY <1>1, <1>2 DEF RowsKept
  <2> QED BY <1>2, <2>1, <2>2, RowsKeptInv
<1>3. ASSUME NEW i \in DOMAIN stored, NEW row \in StoredRow, stored' = [stored EXCEPT ![i] = row], UNCHANGED <<kept, checks>>,
             row.agent = stored[i].agent, row.hash = stored[i].hash,
             stored[i].ref # NoRefGiven => row.ref = stored[i].ref, stored[i].tx = "sent" => row.tx = "sent"
      PROVE  AnchorInv'
  <2>1. AnchorTypeOK'
    BY <1>1, <1>3 DEF AnchorTypeOK
  <2>2. RowsKept
    BY <1>1, <1>3 DEF RowsKept
  <2> QED BY <1>3, <2>1, <2>2, RowsKeptInv
<1>4. ASSUME NEW ts \in {"rfc3339", "epoch_ms"}, NEW ref \in AnchorRefs, NEW hash \in Hashes \cup {NoHash},
             NexusStored(Recorded(ts), ref, hash)
      PROVE  AnchorInv'
  <2>1. PICK row : row = [agent |-> "a", ref |-> NoRefGiven, due |-> ref, hash |-> hash, tx |-> "none"]
    OBVIOUS
  <2>2. row \in StoredRow
    BY <2>1 DEF StoredRow
  <2>3. stored' = Append(stored, row) /\ UNCHANGED <<kept, checks>>
    BY <1>4, <2>1 DEF NexusStored, Recorded
  <2> QED BY <1>2, <2>2, <2>3
<1>5. ASSUME NEW agent \in {"a", "b"}, NEW ref \in AnchorRefs, ExternalStored(agent, ref)
      PROVE  AnchorInv'
  <2>1. PICK row : row = [agent |-> agent, ref |-> NoRefGiven, due |-> ref, hash |-> NoHash, tx |-> "never"]
    OBVIOUS
  <2>2. row \in StoredRow
    BY <2>1 DEF StoredRow
  <2>3. stored' = Append(stored, row) /\ UNCHANGED <<kept, checks>>
    BY <1>5, <2>1 DEF ExternalStored
  <2> QED BY <1>2, <2>2, <2>3
<1>6. ASSUME NEW i \in DOMAIN stored, RefLinked(i)
      PROVE  AnchorInv'
  <2>1. stored[i] \in StoredRow
    BY <1>1
  <2>2. PICK row : row = [stored[i] EXCEPT !.ref = stored[i].due]
    OBVIOUS
  <2>3. row \in StoredRow /\ row.agent = stored[i].agent /\ row.hash = stored[i].hash /\ row.tx = stored[i].tx
    BY <2>1, <2>2 DEF StoredRow
  <2>4. stored' = [stored EXCEPT ![i] = row] /\ UNCHANGED <<kept, checks>> /\ stored[i].ref = NoRefGiven
    BY <1>6, <2>2 DEF RefLinked
  <2> QED BY <1>3, <2>3, <2>4
<1>7. ASSUME NEW i \in DOMAIN stored, TxStored(i)
      PROVE  AnchorInv'
  <2>1. stored[i] \in StoredRow
    BY <1>1
  <2>2. PICK row : row = [stored[i] EXCEPT !.tx = "sent"]
    OBVIOUS
  <2>3. row \in StoredRow /\ row.agent = stored[i].agent /\ row.hash = stored[i].hash /\ row.ref = stored[i].ref /\ row.tx = "sent"
    BY <2>1, <2>2 DEF StoredRow
  <2>4. stored' = [stored EXCEPT ![i] = row] /\ UNCHANGED <<kept, checks>>
    BY <1>7, <2>2 DEF TxStored
  <2> QED BY <1>3, <2>3, <2>4
<1>8. ASSUME NEW plugin \in Plugins, Verify(plugin, "h")
      PROVE  AnchorInv'
  BY <1>8, VerifyAnchorInv
<1> QED BY <1>4, <1>5, <1>6, <1>7, <1>8 DEF AnchorNext

\* Nothing is stored yet, and nothing checked.
LEMMA AnchorInitInv == AnchorInit => AnchorInv
BY DEF AnchorInit, AnchorInv, AnchorTypeOK, NeverLost

\* Steps of the other verifiers leave all this alone.
LEMMA AnchorFrame == AnchorInv /\ UNCHANGED anchorVars => AnchorInv'
<1> SUFFICES ASSUME AnchorInv, UNCHANGED anchorVars PROVE AnchorInv'
  OBVIOUS
<1>1. stored' = stored /\ kept' = kept /\ checks' = checks
  BY DEF anchorVars
<1>2. AnchorTypeOK' /\ RowsKept
  BY <1>1 DEF AnchorInv, AnchorTypeOK, RowsKept
<1> QED BY <1>1, <1>2, RowsKeptInv


\* What the anchor plugins call verified is what the service had recorded for
\* that reference and hash (plugins/mycelium.py and plugins/argentum.py,
\* verify), for any number of rows and checks.
THEOREM VerifiedIsRecordedHolds == Spec => []VerifiedIsRecorded
<1>1. Init => AnchorInv
  BY AnchorInitInv DEF Init
<1>2. AnchorInv /\ [Next]_verifierVars => AnchorInv'
  <2> SUFFICES ASSUME AnchorInv, [Next]_verifierVars PROVE AnchorInv'
    OBVIOUS
  <2>1. CASE AnchorNext
    BY <2>1, AnchorNextInv
  <2>2. CASE UNCHANGED anchorVars
    BY <2>2, AnchorFrame
  <2>3. AnchorNext \/ UNCHANGED anchorVars
    BY DEF Next, verifierVars
  <2> QED BY <2>1, <2>2, <2>3
<1> QED BY <1>1, <1>2, AnchorInvImplies, PTL DEF Spec


-----------------------------------------------------------------------------
(* Chains of trails.                                                         *)

ParentIn(r, x) == IF x \in DOMAIN r THEN r[x].parent ELSE Null

\* g lists i and its first k ancestors by the parent links of r.
Lineage(g, r, i, k) == g = [n \in 0..k |-> IF n = 0 THEN i ELSE ParentIn(r, g[n - 1])]

\* Ancestor, in a table of rows given as a value.
Up(r, i, k) == (CHOOSE g : Lineage(g, r, i, k))[k]

\* Ancestor walks the rows of the state.
LEMMA AncestorIsUp == \A i, k : Ancestor(i, k) = Up(rows, i, k)
BY DEF Ancestor, Up, Lineage, ParentIn, Ids

\* There is such a list: otherwise take the shortest that is missing.
LEMMA LineageExists ==
  ASSUME NEW r, NEW i, NEW k \in Nat
  PROVE  \E g : Lineage(g, r, i, k)
<1> DEFINE Bad == {n \in Nat : ~ \E g : Lineage(g, r, i, n)}
<1> SUFFICES ASSUME Bad # {} PROVE FALSE
  OBVIOUS
<1>1. PICK n \in Bad : \A m \in Bad : n <= m
  <2> HIDE DEF Bad
  <2>1. Bad \subseteq Nat
    BY DEF Bad
  <2> QED BY <2>1, LeastNatural
<1>2. n # 0
  <2>1. Lineage([m \in 0..0 |-> i], r, i, 0)
    BY DEF Lineage
  <2> QED BY <2>1
<1>3. PICK p : p = n - 1
  OBVIOUS
<1>4. p \in Nat /\ n = p + 1 /\ p \notin Bad
  BY <1>1, <1>2, <1>3
<1>5. PICK g : Lineage(g, r, i, p)
  BY <1>4
<1> DEFINE h == [m \in 0..n |-> IF m = n THEN ParentIn(r, g[p]) ELSE g[m]]
<1>6. Lineage(h, r, i, n)
  <2>1. ASSUME NEW m \in 0..n
        PROVE  h[m] = IF m = 0 THEN i ELSE ParentIn(r, h[m - 1])
    <3>1. CASE m = n
      <4>1. h[m - 1] = g[p] /\ h[m] = ParentIn(r, g[p])
        BY <3>1, <1>2, <1>4
      <4> QED BY <4>1, <3>1, <1>2
    <3>2. CASE m = 0
      BY <3>2, <1>2, <1>4, <1>5 DEF Lineage
    <3>3. CASE m # 0 /\ m # n
      <4>1. PICK q : q = m - 1
        OBVIOUS
      <4>2. q \in 0..p /\ q \in 0..n /\ q # n /\ m \in 0..p
        BY <4>1, <3>3, <1>4
      <4>3. g[m] = ParentIn(r, g[q])
        BY <4>1, <4>2, <3>3, <1>5 DEF Lineage
      <4>4. h[m] = g[m] /\ h[q] = g[q]
        BY <4>2, <3>3
      <4> QED BY <4>1, <4>3, <4>4, <3>3
    <3> QED BY <3>1, <3>2, <3>3
  <2>2. h = [m \in 0..n |-> h[m]]
    OBVIOUS
  <2> HIDE DEF h
  <2> QED BY <2>1, <2>2 DEF Lineage
<1> QED BY <1>6

\* There is only one, however far it goes.
LEMMA LineageAgrees ==
  ASSUME NEW r, NEW i, NEW k \in Nat, NEW l \in Nat, k <= l,
         NEW g, Lineage(g, r, i, k), NEW h, Lineage(h, r, i, l)
  PROVE  \A n \in 0..k : g[n] = h[n]
<1> DEFINE Bad == {n \in 0..k : g[n] # h[n]}
<1> SUFFICES ASSUME Bad # {} PROVE FALSE
  OBVIOUS
<1>1. PICK n \in Bad : \A m \in Bad : n <= m
  <2> HIDE DEF Bad
  <2>1. Bad \subseteq Nat
    BY DEF Bad
  <2> QED BY <2>1, LeastNatural
<1>2. g[0] = i /\ h[0] = i
  BY DEF Lineage
<1>3. PICK p : p = n - 1
  OBVIOUS
<1>4. p \in 0..k /\ p \in 0..l /\ p \notin Bad /\ n # 0
  BY <1>1, <1>2, <1>3
<1>5. g[n] = ParentIn(r, g[p]) /\ h[n] = ParentIn(r, h[p])
  BY <1>1, <1>3, <1>4 DEF Lineage
<1> QED BY <1>1, <1>4, <1>5

\* What Up computes, one link at a time.
LEMMA UpUnfolds ==
  ASSUME NEW r, NEW i
  PROVE  /\ Up(r, i, 0) = i
         /\ \A k \in Nat : Up(r, i, k + 1) = ParentIn(r, Up(r, i, k))
<1> DEFINE G(k) == CHOOSE g : Lineage(g, r, i, k)
<1>1. ASSUME NEW k \in Nat
      PROVE  Lineage(G(k), r, i, k) /\ Up(r, i, k) = G(k)[k]
  BY LineageExists DEF Up
<1>2. Up(r, i, 0) = i
  <2>1. Lineage(G(0), r, i, 0) /\ Up(r, i, 0) = G(0)[0]
    BY <1>1
  <2> HIDE DEF G
  <2> QED BY <2>1 DEF Lineage
<1>3. ASSUME NEW k \in Nat
      PROVE  Up(r, i, k + 1) = ParentIn(r, Up(r, i, k))
  <2>1. PICK l : l = k + 1
    OBVIOUS
  <2>2. l \in Nat /\ k <= l /\ k \in 0..k /\ l \in 0..l /\ l # 0 /\ l - 1 = k
    BY <2>1
  <2>3. /\ Lineage(G(k), r, i, k) /\ Up(r, i, k) = G(k)[k]
        /\ Lineage(G(l), r, i, l) /\ Up(r, i, l) = G(l)[l]
    BY <1>1, <2>2
  <2> HIDE DEF G
  <2>4. G(k)[k] = G(l)[k]
    BY <2>2, <2>3, LineageAgrees
  <2>5. G(l)[l] = ParentIn(r, G(l)[k])
    BY <2>2, <2>3 DEF Lineage
  <2> QED BY <2>1, <2>3, <2>4, <2>5
<1> QED BY <1>2, <1>3


\* q has the rows of r, unchanged.
Extends(q, r) == DOMAIN r \subseteq DOMAIN q /\ \A i \in DOMAIN r : q[i] = r[i]

\* A chain of existing rows is the same in a table with more rows.
LEMMA UpKept ==
  ASSUME NEW r, NEW q, Extends(q, r), NEW i, NEW n \in Nat,
         \A j \in Nat : j < n => Up(r, i, j) \in DOMAIN r
  PROVE  \A k \in Nat : k <= n => Up(q, i, k) = Up(r, i, k)
<1> DEFINE Bad == {k \in Nat : k <= n /\ Up(q, i, k) # Up(r, i, k)}
<1> SUFFICES ASSUME Bad # {} PROVE FALSE
  OBVIOUS
<1>1. PICK k \in Bad : \A m \in Bad : k <= m
  <2> HIDE DEF Bad
  <2>1. Bad \subseteq Nat
    BY DEF Bad
  <2> QED BY <2>1, LeastNatural
<1>2. k # 0
  BY UpUnfolds
<1>3. PICK p : p = k - 1
  OBVIOUS
<1>4. p \in Nat /\ p < n /\ p \notin Bad /\ k = p + 1
  BY <1>1, <1>2, <1>3
<1>5. Up(q, i, p) = Up(r, i, p) /\ Up(r, i, p) \in DOMAIN r
  BY <1>4
<1>6. Up(q, i, k) = ParentIn(q, Up(q, i, p)) /\ Up(r, i, k) = ParentIn(r, Up(r, i, p))
  BY <1>4, UpUnfolds
<1>7. Up(q, i, k) = Up(r, i, k)
  BY <1>5, <1>6 DEF ParentIn, Extends
<1> QED BY <1>1, <1>7

\* Past a root or a missing row there is nothing more.
LEMMA UpEnds ==
  ASSUME NEW r, Null \notin DOMAIN r, NEW i, NEW n \in Nat, Up(r, i, n) = Null
  PROVE  \A k \in Nat : k >= n => Up(r, i, k) = Null
<1> DEFINE Bad == {k \in Nat : k >= n /\ Up(r, i, k) # Null}
<1> SUFFICES ASSUME Bad # {} PROVE FALSE
  OBVIOUS
<1>1. PICK k \in Bad : \A m \in Bad : k <= m
  <2> HIDE DEF Bad
  <2>1. Bad \subseteq Nat
    BY DEF Bad
  <2> QED BY <2>1, LeastNatural
<1>2. k # n
  OBVIOUS
<1>3. PICK p : p = k - 1
  OBVIOUS
<1>4. p \in Nat /\ p >= n /\ p \notin Bad /\ k = p + 1
  BY <1>1, <1>2, <1>3
<1>5. Up(r, i, p) = Null
  BY <1>4
<1>6. Up(r, i, k) = ParentIn(r, Up(r, i, p))
  BY <1>4, UpUnfolds
<1> QED BY <1>1, <1>5, <1>6 DEF ParentIn

DefectIn(r, i) ==
  IF i \notin DOMAIN r THEN "trail_not_found"
  ELSE IF ~r[i].signed THEN "missing_signature_ref"
  ELSE IF r[i].parent # Null /\ r[i].delegation = "other" THEN "delegation_ref_parent_mismatch"
  ELSE "none"

\* V is what a walk from s has been through when it is at c.
WalkChain(r, s, V, c) ==
  LET n == Cardinality(V)
  IN /\ V = {Up(r, s, k) : k \in 0..(n - 1)}
     /\ c = Up(r, s, n)
     /\ \A i \in V : DefectIn(r, i) = "none"
     /\ \A j, k \in 0..(n - 1) : Up(r, s, j) = Up(r, s, k) => j = k

\* Passed says that the walk under way has been along its chain.
LEMMA PassedIsChain == Passed <=> WalkChain(rows, walk.start, walk.visited, walk.cur)
<1>1. \A i : RowDefect(i) = DefectIn(rows, i)
  BY DEF RowDefect, DefectIn, Ids
<1> QED BY <1>1, AncestorIsUp DEF Passed, WalkChain

\* verify_chain starts with nothing visited.
LEMMA ChainStart == ASSUME NEW r, NEW s PROVE WalkChain(r, s, {}, s)
<1>1. Cardinality({}) = 0
  BY FS_EmptySet
<1>2. 0..(0 - 1) = {}
  OBVIOUS
<1>3. Up(r, s, 0) = s
  BY UpUnfolds
<1> QED BY <1>1, <1>2, <1>3 DEF WalkChain

\* A turn of verify_chain's loop over a row without defect.
LEMMA ChainStep ==
  ASSUME NEW r, NEW s, NEW V, NEW c, WalkChain(r, s, V, c), IsFiniteSet(V), c \notin V, DefectIn(r, c) = "none"
  PROVE  WalkChain(r, s, V \cup {c}, r[c].parent)
<1>1. PICK n : n = Cardinality(V)
  OBVIOUS
<1>2. PICK m : m = n + 1
  OBVIOUS
<1>3. n \in Nat /\ m \in Nat /\ Cardinality(V \cup {c}) = m
  BY <1>1, <1>2, FS_CardinalityType, FS_AddElement
<1>4. /\ V = {Up(r, s, k) : k \in 0..(n - 1)}
      /\ c = Up(r, s, n)
      /\ \A i \in V : DefectIn(r, i) = "none"
      /\ \A j, k \in 0..(n - 1) : Up(r, s, j) = Up(r, s, k) => j = k
  BY <1>1 DEF WalkChain
<1>5. 0..(m - 1) = (0..(n - 1)) \cup {n}
  BY <1>2, <1>3
<1>6. V \cup {c} = {Up(r, s, k) : k \in 0..(m - 1)}
  BY <1>4, <1>5
<1>7. c \in DOMAIN r
  BY DEF DefectIn
<1>8. Up(r, s, m) = r[c].parent
  BY <1>2, <1>3, <1>4, <1>7, UpUnfolds DEF ParentIn
<1>9. ASSUME NEW j \in 0..(m - 1), NEW k \in 0..(m - 1), Up(r, s, j) = Up(r, s, k)
      PROVE  j = k
  <2>1. \A l \in 0..(n - 1) : Up(r, s, l) \in V
    BY <1>4
  <2> QED BY <1>4, <1>5, <1>9, <2>1
<1> QED BY <1>3, <1>4, <1>6, <1>8, <1>9 DEF WalkChain

\* Rows recorded meanwhile do not change what was visited.
LEMMA ChainKept ==
  ASSUME NEW r, NEW q, Extends(q, r), NEW s, NEW V, NEW c, WalkChain(r, s, V, c), IsFiniteSet(V)
  PROVE  WalkChain(q, s, V, c)
<1>1. PICK n : n = Cardinality(V)
  OBVIOUS
<1>2. n \in Nat
  BY <1>1, FS_CardinalityType
<1>3. /\ V = {Up(r, s, k) : k \in 0..(n - 1)}
      /\ c = Up(r, s, n)
      /\ \A i \in V : DefectIn(r, i) = "none"
      /\ \A j, k \in 0..(n - 1) : Up(r, s, j) = Up(r, s, k) => j = k
  BY <1>1 DEF WalkChain
<1>4. \A i \in V : i \in DOMAIN r /\ DefectIn(q, i) = "none"
  BY <1>3 DEF DefectIn, Extends
<1>5. \A j \in Nat : j < n => Up(r, s, j) \in DOMAIN r
  <2> SUFFICES ASSUME NEW j \in Nat, j < n PROVE Up(r, s, j) \in DOMAIN r
    OBVIOUS
  <2>1. j \in 0..(n - 1)
    BY <1>2
  <2> QED BY <2>1, <1>3, <1>4
<1>6. \A k \in Nat : k <= n => Up(q, s, k) = Up(r, s, k)
  BY <1>2, <1>5, UpKept
<1>7. Up(q, s, n) = Up(r, s, n) /\ \A k \in 0..(n - 1) : Up(q, s, k) = Up(r, s, k)
  BY <1>2, <1>6
<1>8. V = {Up(q, s, k) : k \in 0..(n - 1)}
  BY <1>3, <1>7
<1>9. \A j, k \in 0..(n - 1) : Up(q, s, j) = Up(q, s, k) => j = k
  BY <1>3, <1>7
<1> QED BY <1>1, <1>3, <1>4, <1>7, <1>8, <1>9 DEF WalkChain


-----------------------------------------------------------------------------
(* The invariant of the graph.                                               *)

\* The trails are the numbers up to the count of rows.
LEMMA GraphFacts ==
  ASSUME GraphTypeOK
  PROVE  \E n \in 0..MaxTrails :
           /\ n \in Nat /\ Ids = 1..n /\ Cardinality(Ids) = n
           /\ rows \in [1..n -> RowSet]
           /\ Null \notin Ids /\ Unknown \notin Ids
           /\ IsFiniteSet(walk.visited) /\ walk.visited \subseteq Ids /\ Cardinality(walk.visited) <= n
<1>1. PICK n \in 0..MaxTrails : rows \in [1..n -> RowSet]
  BY DEF GraphTypeOK
<1>2. n \in Nat /\ n <= MaxTrails /\ MaxTrails \in Nat /\ Ids = 1..n
  BY <1>1, TrailGraphAssumption DEF Ids
<1>3. IsFiniteSet(1..n) /\ Cardinality(1..n) = n
  BY <1>2, FS_Interval
<1>4. Null \notin Ids /\ Unknown \notin Ids
  BY <1>2 DEF Null, Unknown
<1>5. walk.visited \subseteq Ids
  BY DEF GraphTypeOK
<1>6. IsFiniteSet(walk.visited) /\ Cardinality(walk.visited) <= Cardinality(1..n)
  BY <1>2, <1>3, <1>5, FS_Subset
<1> QED BY <1>1, <1>2, <1>3, <1>4, <1>5, <1>6

\* What the invariant says of a walk, with the rows and the walk as values.
WalkFits(r, w) ==
  IF w.start = Null THEN w = NoWalk
  ELSE /\ WalkChain(r, w.start, w.visited, w.cur)
       /\ \/ w.verdict = Running
          \/ w.cur = Null /\ w.verdict = [reason |-> "valid", at |-> Null]
          \/ /\ w.cur # Null /\ w.verdict.at = w.cur
             /\ \/ w.cur \in w.visited /\ w.verdict.reason = "cycle_detected"
                \/ w.cur \notin w.visited /\ w.verdict.reason \in {DefectIn(r, w.cur), "trail_not_found"} \ {"none"}

OlderIn(r, V, c) ==
  /\ \A i \in DOMAIN r : r[i].parent < i \/ r[i].parent = Unknown
  /\ \A i \in V : c < i \/ c = Unknown

ClimbFitsIn(r, s, a) ==
  \E k \in 0..MaxTrails :
    /\ \A j \in 0..k : Up(r, s, j) \in DOMAIN r
    /\ Up(r, s, k) = a
    /\ a + k <= s

GraphFits ==
  /\ GraphTypeOK
  /\ WalkFits(rows, walk)
  /\ edits = 0 => OlderIn(rows, walk.visited, walk.cur)
  /\ edits = 0 /\ climb.start # Null => ClimbFitsIn(rows, climb.start, climb.at)

\* GraphInv in the words of the tables given as values.
LEMMA GraphInvIs == GraphInv <=> GraphFits
<1>1. \A i : RowDefect(i) = DefectIn(rows, i)
  BY DEF RowDefect, DefectIn, Ids
<1>2. (IF walk.start = Null THEN walk = NoWalk ELSE Passed /\ VerdictFits) <=> WalkFits(rows, walk)
  BY <1>1, PassedIsChain DEF VerdictFits, WalkFits
<1>3. OlderParents <=> OlderIn(rows, walk.visited, walk.cur)
  BY DEF OlderParents, OlderIn, Ids
<1>4. ClimbFits <=> ClimbFitsIn(rows, climb.start, climb.at)
  BY AncestorIsUp DEF ClimbFits, ClimbFitsIn, Ids
<1> QED BY <1>2, <1>3, <1>4 DEF GraphInv, GraphFits

\* More rows change neither a walk nor a climb.
LEMMA WalkFitsKept ==
  ASSUME NEW r, NEW q, Extends(q, r), NEW w, IsFiniteSet(w.visited), WalkFits(r, w)
  PROVE  WalkFits(q, w)
<1>1. CASE w.start = Null
  BY <1>1 DEF WalkFits
<1>2. CASE w.start # Null
  <2>1. WalkChain(q, w.start, w.visited, w.cur)
    BY <1>2, ChainKept DEF WalkFits
  <2>2. DefectIn(r, w.cur) \in {DefectIn(q, w.cur), "trail_not_found"}
    BY DEF DefectIn, Extends
  <2> QED BY <1>2, <2>1, <2>2 DEF WalkFits
<1> QED BY <1>1, <1>2

\* ... and so does what climb has found.
LEMMA ClimbFitsKept ==
  ASSUME NEW r, NEW q, Extends(q, r), NEW s, NEW a, ClimbFitsIn(r, s, a)
  PROVE  ClimbFitsIn(q, s, a)
<1>1. PICK k \in 0..MaxTrails :
        /\ \A j \in 0..k : Up(r, s, j) \in DOMAIN r
        /\ Up(r, s, k) = a
        /\ a + k <= s
  BY DEF ClimbFitsIn
<1>2. k \in Nat /\ \A j \in Nat : j < k => Up(r, s, j) \in DOMAIN r
  BY <1>1, TrailGraphAssumption
<1>3. \A j \in Nat : j <= k => Up(q, s, j) = Up(r, s, j)
  BY <1>2, UpKept
<1>4. \A j \in 0..k : Up(q, s, j) = Up(r, s, j) /\ Up(r, s, j) \in DOMAIN q
  BY <1>1, <1>3 DEF Extends
<1>5. \A j \in 0..k : Up(q, s, j) \in DOMAIN q
  BY <1>4
<1>6. Up(q, s, k) = a
  BY <1>1, <1>2, <1>4
<1> QED BY <1>1, <1>5, <1>6 DEF ClimbFitsIn

\* record_trail adds a row that no row under way has been asked about yet.
LEMMA RecordRowInv ==
  ASSUME GraphInv, NEW p \in 0..Unknown, NEW d \in Delegations, RecordRow(p, d)
  PROVE  GraphInv'
<1>1. PICK n \in 0..MaxTrails :
           /\ n \in Nat /\ Ids = 1..n /\ Cardinality(Ids) = n
           /\ rows \in [1..n -> RowSet]
           /\ Null \notin Ids /\ Unknown \notin Ids
           /\ IsFiniteSet(walk.visited) /\ walk.visited \subseteq Ids /\ Cardinality(walk.visited) <= n
  BY GraphFacts DEF GraphInv
<1>2. PICK m : m = n + 1
  OBVIOUS
<1>3. m \in 0..MaxTrails /\ 1..m = (1..n) \cup {m} /\ m \notin 1..n /\ p \in (1..n) \cup {Null, Unknown}
  BY <1>1, <1>2, TrailGraphAssumption DEF RecordRow
<1> DEFINE new == [parent |-> p, delegation |-> d, signed |-> TRUE]
<1>4. rows' = [i \in 1..m |-> IF i \in 1..n THEN rows[i] ELSE new]
  BY <1>1, <1>2 DEF RecordRow
<1>5. new \in RowSet
  BY DEF RowSet
<1>6. /\ rows' \in [1..m -> RowSet] /\ rows'[m] = new /\ DOMAIN rows' = 1..m /\ DOMAIN rows = 1..n
      /\ \A i \in 1..n : rows'[i] = rows[i]
  BY <1>1, <1>3, <1>4, <1>5
<1>7. Extends(rows', rows)
  BY <1>3, <1>6 DEF Extends
<1>8. walk' = walk /\ climb' = climb /\ edits' = edits
  BY DEF RecordRow
<1>9. GraphTypeOK'
  <2>1. Ids \subseteq Ids'
    BY <1>3, <1>6 DEF Ids
  <2>2. \E k \in 0..MaxTrails : rows' \in [1..k -> RowSet]
    BY <1>3, <1>6
  <2> QED BY <1>8, <2>1, <2>2 DEF GraphInv, GraphTypeOK
<1>10. WalkFits(rows', walk')
  BY <1>1, <1>7, <1>8, WalkFitsKept, GraphInvIs DEF GraphFits
<1>11. edits' = 0 => OlderIn(rows', walk'.visited, walk'.cur)
  <2> SUFFICES ASSUME edits = 0 PROVE OlderIn(rows', walk.visited, walk.cur)
    BY <1>8
  <2>1. OlderIn(rows, walk.visited, walk.cur)
    BY GraphInvIs DEF GraphFits
  <2>2. p < m \/ p = Unknown
    BY <1>1, <1>2, <1>3 DEF Null
  <2>3. rows'[m].parent = p
    BY <1>6
  <2>4. \A i \in 1..m : rows'[i].parent < i \/ rows'[i].parent = Unknown
    BY <1>3, <1>6, <2>1, <2>2, <2>3 DEF OlderIn
  <2> QED BY <1>6, <2>1, <2>4 DEF OlderIn
<1>12. edits' = 0 /\ climb'.start # Null => ClimbFitsIn(rows', climb'.start, climb'.at)
  BY <1>7, <1>8, ClimbFitsKept, GraphInvIs DEF GraphFits
<1>13. GraphFits'
  BY <1>9, <1>10, <1>11, <1>12 DEF GraphFits
<1> QED BY <1>13, GraphInvIs, PTL


\* A change from outside, when nobody reads.
LEMMA EditInv ==
  ASSUME GraphInv, NEW i \in Ids, NEW row \in RowSet, Edit(i, row)
  PROVE  GraphInv'
<1>1. GraphTypeOK /\ walk' = walk /\ climb' = climb /\ edits' = edits + 1 /\ edits \in Nat
      /\ walk = NoWalk /\ climb.start = Null /\ rows' = [rows EXCEPT ![i] = row]
  BY DEF Edit, GraphInv, GraphTypeOK
<1>2. PICK n \in 0..MaxTrails : rows \in [1..n -> RowSet]
  BY <1>1 DEF GraphTypeOK
<1>3. rows' \in [1..n -> RowSet] /\ DOMAIN rows' = DOMAIN rows
  BY <1>1, <1>2
<1>4. GraphTypeOK'
  <2>1. \E k \in 0..MaxTrails : rows' \in [1..k -> RowSet]
    BY <1>3
  <2>2. edits' \in Nat
    BY <1>1
  <2> QED BY <1>1, <1>3, <2>1, <2>2 DEF GraphTypeOK, Ids
<1>5. WalkFits(rows', walk')
  BY <1>1 DEF WalkFits, NoWalk
<1>6. edits' # 0
  BY <1>1
<1>7. GraphFits'
  BY <1>4, <1>5, <1>6 DEF GraphFits
<1> QED BY <1>7, GraphInvIs, PTL

\* verify_chain is called.
LEMMA WalkStartInv ==
  ASSUME GraphInv, NEW i \in 1..Unknown, WalkStart(i)
  PROVE  GraphInv'
<1>1. GraphFits
  BY GraphInvIs
<1>2. /\ walk' = [start |-> i, cur |-> i, visited |-> {}, verdict |-> Running]
      /\ rows' = rows /\ edits' = edits /\ climb' = climb
  BY DEF WalkStart, NoWalk
<1>3. i \in 0..Unknown /\ i # Null /\ Null \in 0..Unknown
  BY TrailGraphAssumption DEF Null, Unknown
<1>4. GraphTypeOK'
  <2>1. walk' \in [start : 0..Unknown, cur : 0..Unknown, visited : SUBSET Ids,
               verdict : [reason : Reasons, at : 0..Unknown]]
    BY <1>2, <1>3 DEF Running, Reasons
  <2> QED BY <1>1, <1>2, <2>1 DEF GraphFits, GraphTypeOK, Ids
<1>5. WalkFits(rows', walk')
  BY <1>2, <1>3, ChainStart DEF WalkFits
<1>6. edits' = 0 => OlderIn(rows', walk'.visited, walk'.cur)
  BY <1>1, <1>2 DEF GraphFits, OlderIn
<1>7. edits' = 0 /\ climb'.start # Null => ClimbFitsIn(rows', climb'.start, climb'.at)
  BY <1>1, <1>2 DEF GraphFits
<1>8. GraphFits'
  BY <1>4, <1>5, <1>6, <1>7 DEF GraphFits
<1> QED BY <1>8, GraphInvIs, PTL

\* verify_chain has answered.
LEMMA WalkEndInv ==
  ASSUME GraphInv, WalkEnd
  PROVE  GraphInv'
<1>1. GraphFits
  BY GraphInvIs
<1>2. /\ walk' = [start |-> Null, cur |-> Null, visited |-> {}, verdict |-> Running]
      /\ walk' = NoWalk
      /\ rows' = rows /\ edits' = edits /\ climb' = climb
  BY DEF WalkEnd, NoWalk
<1>3. Null \in 0..Unknown
  BY TrailGraphAssumption DEF Null, Unknown
<1>4. GraphTypeOK'
  <2>1. walk' \in [start : 0..Unknown, cur : 0..Unknown, visited : SUBSET Ids,
               verdict : [reason : Reasons, at : 0..Unknown]]
    BY <1>2, <1>3 DEF Running, Reasons
  <2> QED BY <1>1, <1>2, <2>1 DEF GraphFits, GraphTypeOK, Ids
<1>5. WalkFits(rows', walk')
  BY <1>2 DEF WalkFits
<1>6. edits' = 0 => OlderIn(rows', walk'.visited, walk'.cur)
  BY <1>1, <1>2 DEF GraphFits, OlderIn
<1>7. edits' = 0 /\ climb'.start # Null => ClimbFitsIn(rows', climb'.start, climb'.at)
  BY <1>1, <1>2 DEF GraphFits
<1>8. GraphFits'
  BY <1>4, <1>5, <1>6, <1>7 DEF GraphFits
<1> QED BY <1>8, GraphInvIs, PTL

\* One turn of verify_chain's loop.
LEMMA WalkStepInv ==
  ASSUME GraphInv, WalkStep
  PROVE  GraphInv'
<1>1. GraphFits
  BY GraphInvIs
<1>2. rows' = rows /\ edits' = edits /\ climb' = climb /\ walk.start # Null /\ walk.verdict = Running
  BY DEF WalkStep
<1>3. PICK n \in 0..MaxTrails :
           /\ n \in Nat /\ Ids = 1..n /\ Cardinality(Ids) = n
           /\ rows \in [1..n -> RowSet]
           /\ Null \notin Ids /\ Unknown \notin Ids
           /\ IsFiniteSet(walk.visited) /\ walk.visited \subseteq Ids /\ Cardinality(walk.visited) <= n
  BY <1>1, GraphFacts DEF GraphFits
<1>4. PICK w, s, V, c : w = walk' /\ s = walk.start /\ V = walk.visited /\ c = walk.cur
  OBVIOUS
<1>5. s # Null /\ s \in 0..Unknown /\ c \in 0..Unknown /\ V \subseteq Ids /\ Null \in 0..Unknown
      /\ walk = [start |-> s, cur |-> c, visited |-> V, verdict |-> Running]
  <2>1. walk \in [start : 0..Unknown, cur : 0..Unknown, visited : SUBSET Ids,
               verdict : [reason : Reasons, at : 0..Unknown]]
    BY <1>1 DEF GraphFits, GraphTypeOK
  <2>2. walk = [start |-> walk.start, cur |-> walk.cur, visited |-> walk.visited, verdict |-> walk.verdict]
    BY <2>1
  <2> QED BY <1>2, <1>4, <2>1, <2>2, TrailGraphAssumption DEF Null, Unknown
<1>6. WalkChain(rows, s, V, c)
  BY <1>1, <1>2, <1>4 DEF GraphFits, WalkFits
<1> DEFINE Goal == /\ w \in [start : 0..Unknown, cur : 0..Unknown, visited : SUBSET Ids,
                             verdict : [reason : Reasons, at : 0..Unknown]]
                   /\ WalkFits(rows, w)
                   /\ edits = 0 => OlderIn(rows, w.visited, w.cur)
<1>7. edits = 0 => OlderIn(rows, V, c)
  BY <1>1, <1>4 DEF GraphFits
<1>8. \A reason : LET x == [walk EXCEPT !.verdict = [reason |-> reason, at |-> c]]
                  IN x = [start |-> s, cur |-> c, visited |-> V, verdict |-> [reason |-> reason, at |-> c]]
  BY <1>5
<1>9. ASSUME c = Null
      PROVE  Goal
  <2>1. w = [start |-> s, cur |-> c, visited |-> V, verdict |-> [reason |-> "valid", at |-> c]]
    BY <1>4, <1>8, <1>9 DEF WalkStep
  <2>2. w \in [start : 0..Unknown, cur : 0..Unknown, visited : SUBSET Ids,
               verdict : [reason : Reasons, at : 0..Unknown]]
    BY <2>1, <1>5 DEF Reasons
  <2>3. WalkFits(rows, w)
    BY <2>1, <1>5, <1>6, <1>9 DEF WalkFits
  <2>4. w.visited = V /\ w.cur = c
    BY <2>1
  <2> QED BY <1>7, <2>2, <2>3, <2>4
<1>10. ASSUME c # Null /\ c \in V
      PROVE  Goal
  <2>1. w = [start |-> s, cur |-> c, visited |-> V, verdict |-> [reason |-> "cycle_detected", at |-> c]]
    BY <1>4, <1>8, <1>10 DEF WalkStep
  <2>2. w \in [start : 0..Unknown, cur : 0..Unknown, visited : SUBSET Ids,
               verdict : [reason : Reasons, at : 0..Unknown]]
    BY <2>1, <1>5 DEF Reasons
  <2>3. WalkFits(rows, w)
    BY <2>1, <1>5, <1>6, <1>10 DEF WalkFits
  <2>4. w.visited = V /\ w.cur = c
    BY <2>1
  <2> QED BY <1>7, <2>2, <2>3, <2>4
<1>11. RowDefect(c) = DefectIn(rows, c) /\ RowDefect(c) \in Reasons \cup {"none"}
  BY DEF RowDefect, DefectIn, Ids, Reasons
<1>12. ASSUME c # Null /\ c \notin V /\ RowDefect(c) # "none"
      PROVE  Goal
  <2>1. w = [start |-> s, cur |-> c, visited |-> V, verdict |-> [reason |-> RowDefect(c), at |-> c]]
    BY <1>4, <1>8, <1>12 DEF WalkStep
  <2>2. w \in [start : 0..Unknown, cur : 0..Unknown, visited : SUBSET Ids,
               verdict : [reason : Reasons, at : 0..Unknown]]
    BY <2>1, <1>5, <1>11, <1>12
  <2>3. WalkFits(rows, w)
    BY <2>1, <1>5, <1>6, <1>11, <1>12 DEF WalkFits
  <2>4. w.visited = V /\ w.cur = c
    BY <2>1
  <2> QED BY <1>7, <2>2, <2>3, <2>4
<1>13. ASSUME c # Null /\ c \notin V /\ RowDefect(c) = "none"
      PROVE  Goal
  <2>1. walk' = [walk EXCEPT !.cur = rows[c].parent, !.visited = @ \cup {c}]
    BY <1>4, <1>13 DEF WalkStep
  <2>2. w = [start |-> s, cur |-> rows[c].parent, visited |-> V \cup {c}, verdict |-> Running]
    <3>1. PICK p, u : p = rows[c].parent /\ u = V \cup {c}
      OBVIOUS
    <3>2. walk' = [walk EXCEPT !.cur = p, !.visited = u]
      BY <1>4, <2>1, <3>1
    <3>3. walk' = [start |-> s, cur |-> p, visited |-> u, verdict |-> Running]
      BY ONLY <1>5, <3>2
    <3> QED BY <1>4, <3>1, <3>3
  <2>3. c \in Ids
    BY <1>13 DEF RowDefect
  <2>4. rows[c].parent \in 0..Unknown
    BY <1>3, <2>3 DEF RowSet
  <2>5. w \in [start : 0..Unknown, cur : 0..Unknown, visited : SUBSET Ids,
               verdict : [reason : Reasons, at : 0..Unknown]]
    BY <2>2, <1>5, <2>3, <2>4 DEF Running, Reasons
  <2>6. WalkChain(rows, s, V \cup {c}, rows[c].parent)
    BY <1>3, <1>4, <1>6, <1>11, <1>13, ChainStep
  <2>7. WalkFits(rows, w)
    BY <2>2, <2>6, <1>5 DEF WalkFits
  <2>8. ASSUME edits = 0
        PROVE  OlderIn(rows, V \cup {c}, rows[c].parent)
    <3>1. OlderIn(rows, V, c) /\ c # Unknown
      BY <1>3, <1>7, <2>3, <2>8
    <3>2. PICK p : p = rows[c].parent
      OBVIOUS
    <3>3. p < c \/ p = Unknown
      BY <2>3, <3>1, <3>2 DEF OlderIn, Ids
    <3>4. \A x \in V : c < x
      BY <3>1 DEF OlderIn
    <3>5. p \in Nat /\ c \in Nat /\ \A x \in V : x \in Nat
      <4>1. p \in 0..Unknown /\ c \in 1..n /\ V \subseteq 1..n /\ Unknown \in Nat
        BY <1>3, <1>5, <2>3, <2>4, <3>2, TrailGraphAssumption DEF Unknown
      <4> QED BY <4>1, <1>3
    <3>6. \A x \in V \cup {c} : p < x \/ p = Unknown
      BY <3>3, <3>4, <3>5
    <3> QED BY <3>1, <3>2, <3>6 DEF OlderIn
  <2>9. w.visited = V \cup {c} /\ w.cur = rows[c].parent
    BY <2>2
  <2> QED BY <2>5, <2>7, <2>8, <2>9
<1>14. Goal
  <2> HIDE DEF Goal
  <2> QED BY <1>9, <1>10, <1>12, <1>13
<1>15. GraphTypeOK'
  BY <1>1, <1>2, <1>4, <1>14 DEF GraphFits, GraphTypeOK, Ids
<1>16. GraphFits'
  BY <1>1, <1>2, <1>4, <1>14, <1>15 DEF GraphFits
<1> QED BY <1>16, GraphInvIs, PTL


\* Nothing but climb changes: what the invariant says of the rest stands.
LEMMA ClimbOnly ==
  ASSUME GraphInv, UNCHANGED <<rows, edits, walk>>,
         climb' \in [start : {Null} \cup Ids, at : {Null} \cup Ids],
         climb'.start # Null => climb'.at # Null,
         edits = 0 /\ climb'.start # Null => ClimbFitsIn(rows, climb'.start, climb'.at)
  PROVE  GraphInv'
<1>1. GraphFits
  BY GraphInvIs
<1>2. GraphTypeOK'
  BY <1>1 DEF GraphFits, GraphTypeOK, Ids
<1>3. GraphFits'
  BY <1>1, <1>2 DEF GraphFits
<1> QED BY <1>3, GraphInvIs, PTL

\* get_trail_graph is called.
LEMMA ClimbStartInv ==
  ASSUME GraphInv, NEW i \in Ids, ClimbStart(i)
  PROVE  GraphInv'
<1>1. climb' = [start |-> i, at |-> i] /\ UNCHANGED <<rows, edits, walk>>
  BY DEF ClimbStart
<1>2. i \in Nat /\ i # Null /\ 0 \in 0..MaxTrails
  BY GraphFacts, TrailGraphAssumption DEF GraphInv
<1>3. Up(rows, i, 0) = i /\ 0..0 = {0} /\ i + 0 <= i
  BY <1>2, UpUnfolds
<1>4. ClimbFitsIn(rows, i, i)
  BY <1>2, <1>3 DEF ClimbFitsIn, Ids
<1> QED BY <1>1, <1>2, <1>4, ClimbOnly

\* One query of get_trail_graph's climb: a parent is older.
LEMMA ClimbStepInv ==
  ASSUME GraphInv, ClimbStep
  PROVE  GraphInv'
<1>1. GraphFits
  BY GraphInvIs
<1>2. PICK s, a : s = climb.start /\ a = climb.at
  OBVIOUS
<1>3. climb = [start |-> s, at |-> a] /\ s \in Ids /\ a \in Ids /\ s # Null /\ Null \notin Ids
  <2>1. climb \in [start : {Null} \cup Ids, at : {Null} \cup Ids] /\ climb.start # Null /\ climb.at # Null
    BY <1>1 DEF ClimbStep, GraphFits, GraphTypeOK
  <2>2. Null \notin Ids
    BY GraphFacts, <1>1 DEF GraphFits
  <2> QED BY <1>2, <2>1, <2>2
<1>4. UNCHANGED <<rows, edits, walk>>
  BY DEF ClimbStep
<1>5. CASE ~HasParentRow(a)
  <2>1. climb' = [start |-> Null, at |-> Null]
    BY <1>2, <1>5 DEF ClimbStep
  <2> QED BY <1>4, <2>1, ClimbOnly
<1>6. CASE HasParentRow(a)
  <2>1. PICK p : p = rows[a].parent
    OBVIOUS
  <2>2. p \in Ids /\ p # Null
    BY <1>6, <2>1 DEF HasParentRow
  <2>3. climb' = [climb EXCEPT !.at = p]
    BY <1>2, <1>6, <2>1 DEF ClimbStep
  <2>4. climb' = [start |-> s, at |-> p]
    BY <2>3, <1>3
  <2>5. ASSUME edits = 0
        PROVE  ClimbFitsIn(rows, s, p)
    <3>1. ClimbFitsIn(rows, s, a) /\ OlderIn(rows, walk.visited, walk.cur)
      BY <1>1, <1>2, <1>3, <2>5 DEF GraphFits
    <3>2. PICK k \in 0..MaxTrails :
            /\ \A j \in 0..k : Up(rows, s, j) \in DOMAIN rows
            /\ Up(rows, s, k) = a
            /\ a + k <= s
      BY <3>1 DEF ClimbFitsIn
    <3>3. PICK m : m = k + 1
      OBVIOUS
    <3>4. PICK n \in 0..MaxTrails : Ids = 1..n /\ Unknown \notin Ids
      BY <1>1, GraphFacts DEF GraphFits
    <3>5. p < a
      BY <3>1, <3>4, <1>3, <2>1, <2>2 DEF OlderIn, Ids
    <3>6. p \in Nat /\ a \in Nat /\ s \in Nat /\ s <= MaxTrails /\ p >= 1 /\ k \in Nat /\ MaxTrails \in Nat
      BY <3>4, <1>3, <2>2, TrailGraphAssumption
    <3>7. m \in 0..MaxTrails /\ p + m <= s /\ 0..m = (0..k) \cup {m}
      BY <3>2, <3>3, <3>5, <3>6
    <3>8. Up(rows, s, m) = p
      BY <3>2, <3>3, <3>6, <1>3, <2>1, UpUnfolds DEF ParentIn, Ids
    <3>9. \A j \in 0..m : Up(rows, s, j) \in DOMAIN rows
      BY <3>2, <3>7, <3>8, <2>2 DEF Ids
    <3> QED BY <3>7, <3>8, <3>9 DEF ClimbFitsIn
  <2> QED BY <1>3, <1>4, <2>2, <2>4, <2>5, ClimbOnly
<1> QED BY <1>5, <1>6

\* Every step of the graph keeps the invariant.
LEMMA GraphNextInv == GraphInv /\ GraphNext => GraphInv'
<1> SUFFICES ASSUME GraphInv, GraphNext PROVE GraphInv'
  OBVIOUS
<1>1. ASSUME NEW i \in Ids, NEW p \in 0..Unknown, NEW d \in Delegations, NEW s \in BOOLEAN,
             Edit(i, [parent |-> p, delegation |-> d, signed |-> s])
      PROVE  GraphInv'
  <2>1. [parent |-> p, delegation |-> d, signed |-> s] \in RowSet
    BY DEF RowSet
  <2> QED BY <1>1, <2>1, EditInv
<1> QED BY <1>1, RecordRowInv, WalkStartInv, WalkStepInv, WalkEndInv, ClimbStartInv, ClimbStepInv DEF GraphNext

\* No row, and nobody reads.
LEMMA GraphInitInv == GraphInit => GraphInv
<1> SUFFICES ASSUME GraphInit PROVE GraphInv
  OBVIOUS
<1>1. rows = <<>> /\ edits = 0 /\ walk = [start |-> Null, cur |-> Null, visited |-> {}, verdict |-> Running]
      /\ climb = [start |-> Null, at |-> Null] /\ walk = NoWalk
  BY DEF GraphInit, NoWalk
<1>2. GraphTypeOK
  <2>1. 0 \in 0..MaxTrails /\ rows \in [1..0 -> RowSet]
    BY <1>1, TrailGraphAssumption
  <2>2. Null \in 0..Unknown
    BY TrailGraphAssumption DEF Null, Unknown
  <2>3. \E n \in 0..MaxTrails : rows \in [1..n -> RowSet]
    BY <2>1
  <2> QED BY <1>1, <2>2, <2>3 DEF GraphTypeOK, Running, Reasons
<1>3. GraphFits
  BY <1>1, <1>2 DEF GraphFits, WalkFits, OlderIn
<1> QED BY <1>3, GraphInvIs

\* Steps of the other verifiers leave the graph alone.
LEMMA GraphFrame == GraphInv /\ UNCHANGED graphVars => GraphInv'
<1> SUFFICES ASSUME GraphInv, UNCHANGED graphVars PROVE GraphInv'
  OBVIOUS
<1>1. rows' = rows /\ edits' = edits /\ walk' = walk /\ climb' = climb
  BY DEF graphVars
<1>2. GraphFits
  BY GraphInvIs
<1>3. GraphTypeOK'
  BY <1>1, <1>2 DEF GraphFits, GraphTypeOK, Ids
<1>4. GraphFits'
  BY <1>1, <1>2, <1>3 DEF GraphFits
<1> QED BY <1>4, GraphInvIs, PTL


\* The verdict of a walk is a reason and the trail it names.
LEMMA VerdictForm ==
  ASSUME GraphFits, NEW reason, NEW place, walk.verdict.reason = reason, walk.verdict.at = place
  PROVE  walk.verdict = [reason |-> reason, at |-> place]
<1>1. walk.verdict \in [reason : Reasons, at : 0..Unknown]
  BY DEF GraphFits, GraphTypeOK
<1> QED BY <1>1


\* When a walk has ended where its rows have a fault, that is the nearest one.
LEMMA FaultAt ==
  ASSUME GraphFits, walk.start # Null, walk.verdict # Running
  PROVE  \/ walk.verdict = ReferenceVerdict(walk.start)
         \/ walk.verdict.reason = "trail_not_found" /\ walk.verdict.at \in Ids
<1>1. PICK s, V, c, n : s = walk.start /\ V = walk.visited /\ c = walk.cur /\ n = Cardinality(V)
  OBVIOUS
<1>2. /\ n \in Nat /\ n <= MaxTrails /\ MaxTrails \in Nat /\ V \subseteq Ids
      /\ Null \notin Ids /\ Null \notin V
  BY <1>1, GraphFacts, TrailGraphAssumption, FS_CardinalityType DEF GraphFits
<1>3. WalkChain(rows, s, V, c)
  BY <1>1 DEF GraphFits, WalkFits
<1>4. /\ V = {Up(rows, s, k) : k \in 0..(n - 1)}
      /\ c = Up(rows, s, n)
      /\ \A i \in V : DefectIn(rows, i) = "none"
      /\ \A j, k \in 0..(n - 1) : Up(rows, s, j) = Up(rows, s, k) => j = k
  BY <1>1, <1>3 DEF WalkChain
<1>5. \A i : RowDefect(i) = DefectIn(rows, i)
  BY DEF RowDefect, DefectIn, Ids
<1> DEFINE F == Faults(s)
<1>6. ASSUME NEW k
      PROVE  k \in F <=> /\ k \in 0..(MaxTrails + 1)
                         /\ Up(rows, s, k) # Null
                         /\ \/ DefectIn(rows, Up(rows, s, k)) # "none"
                            \/ \E j \in 0..(k - 1) : Up(rows, s, j) = Up(rows, s, k)
  BY <1>5, AncestorIsUp DEF Faults
<1>7. \A k \in F : k \in Nat /\ k <= MaxTrails + 1
  BY <1>2, <1>6
<1> HIDE DEF F
<1>8. \A k \in F : k >= n
  <2> SUFFICES ASSUME NEW k \in F, k < n PROVE FALSE
    BY <1>2, <1>7
  <2>1. k \in 0..(n - 1) /\ \A j \in 0..(k - 1) : j \in 0..(n - 1) /\ j # k
    BY <1>2, <1>7
  <2>2. Up(rows, s, k) \in V
    BY <1>4, <2>1
  <2>3. DefectIn(rows, Up(rows, s, k)) = "none"
    BY <1>4, <2>2
  <2>4. ~ \E j \in 0..(k - 1) : Up(rows, s, j) = Up(rows, s, k)
    BY <1>4, <2>1
  <2> QED BY <1>6, <2>3, <2>4
<1>9. ReferenceVerdict(s) = IF F = {} THEN [reason |-> "valid", at |-> Null]
                            ELSE [reason |-> IF \E j \in 0..(Min(F) - 1) : Up(rows, s, j) = Up(rows, s, Min(F))
                                             THEN "cycle_detected" ELSE DefectIn(rows, Up(rows, s, Min(F))),
                                  at |-> Up(rows, s, Min(F))]
  BY <1>5, AncestorIsUp DEF ReferenceVerdict, F
<1>10. CASE c = Null /\ walk.verdict = [reason |-> "valid", at |-> Null]
  <2>1. \A k \in Nat : k >= n => Up(rows, s, k) = Null
    <3>1. Up(rows, s, n) = Null /\ Null \notin DOMAIN rows
      BY <1>2, <1>4, <1>10 DEF Ids
    <3> QED BY <1>2, <3>1, UpEnds
  <2>2. F = {}
    BY <1>6, <1>7, <1>8, <2>1
  <2> QED BY <1>1, <1>9, <1>10, <2>2
<1>11. CASE c # Null /\ walk.verdict.at = c /\ c \in V /\ walk.verdict.reason = "cycle_detected"
  <2>1. \E j \in 0..(n - 1) : Up(rows, s, j) = c
    BY <1>4, <1>11
  <2>2. n \in F
    BY <1>2, <1>4, <1>6, <1>11, <2>1
  <2>3. Min(F) = n
    <3>1. \E x \in F : \A y \in F : x <= y
      BY <1>8, <2>2
    <3>2. PICK m : m = Min(F)
      OBVIOUS
    <3>3. m \in F /\ m <= n
      BY <2>2, <3>1, <3>2 DEF Min
    <3>4. m >= n /\ m \in Nat
      BY <1>7, <1>8, <3>3
    <3> QED BY <1>2, <3>2, <3>3, <3>4
  <2>4. ReferenceVerdict(s) = [reason |-> "cycle_detected", at |-> c]
    BY <1>4, <1>9, <2>1, <2>2, <2>3
  <2> QED BY <1>1, <1>11, <2>4, VerdictForm
<1>12. CASE c # Null /\ walk.verdict.at = c /\ c \notin V /\ walk.verdict.reason = DefectIn(rows, c)
            /\ DefectIn(rows, c) # "none"
  <2>1. ~ \E j \in 0..(n - 1) : Up(rows, s, j) = c
    BY <1>4, <1>12
  <2>2. n \in F
    BY <1>2, <1>4, <1>6, <1>12
  <2>3. Min(F) = n
    <3>1. \E x \in F : \A y \in F : x <= y
      BY <1>8, <2>2
    <3>2. PICK m : m = Min(F)
      OBVIOUS
    <3>3. m \in F /\ m <= n
      BY <2>2, <3>1, <3>2 DEF Min
    <3>4. m >= n /\ m \in Nat
      BY <1>7, <1>8, <3>3
    <3> QED BY <1>2, <3>2, <3>3, <3>4
  <2>4. ReferenceVerdict(s) = [reason |-> DefectIn(rows, c), at |-> c]
    BY <1>4, <1>9, <2>1, <2>2, <2>3
  <2> QED BY <1>1, <1>12, <2>4, VerdictForm
<1>13. CASE c # Null /\ walk.verdict.at = c /\ walk.verdict.reason = "trail_not_found" /\ c \in Ids
  BY <1>13
<1>14. c \notin Ids => DefectIn(rows, c) = "trail_not_found"
  BY DEF DefectIn, Ids
<1>15. \/ c = Null /\ walk.verdict = [reason |-> "valid", at |-> Null]
       \/ /\ c # Null /\ walk.verdict.at = c
          /\ \/ c \in V /\ walk.verdict.reason = "cycle_detected"
             \/ c \notin V /\ walk.verdict.reason \in {DefectIn(rows, c), "trail_not_found"} \ {"none"}
  BY <1>1 DEF GraphFits, WalkFits
<1> QED BY <1>10, <1>11, <1>12, <1>13, <1>14, <1>15

\* The invariant says what the property asks.
LEMMA GraphInvImplies == GraphInv => ChainVerdictIsNearestFault
<1> SUFFICES ASSUME GraphInv PROVE ChainVerdictIsNearestFault
  OBVIOUS
<1>1. GraphFits
  BY GraphInvIs
<1>2. PICK n \in 0..MaxTrails :
           /\ n \in Nat /\ Ids = 1..n /\ Unknown \notin Ids /\ walk.visited \subseteq Ids
  BY <1>1, GraphFacts DEF GraphFits
<1>3. walk.verdict # Running => walk.start # Null
  BY <1>1 DEF GraphFits, WalkFits, NoWalk
<1>4. ASSUME walk.verdict.reason = "cycle_detected", edits = 0
      PROVE  FALSE
  <2>1. walk.verdict # Running /\ walk.verdict # [reason |-> "valid", at |-> Null]
    BY <1>4 DEF Running
  <2>2. \A i : DefectIn(rows, i) # "cycle_detected"
    BY DEF DefectIn
  <2>3. walk.cur \in walk.visited
    BY <1>1, <1>3, <1>4, <2>1, <2>2 DEF GraphFits, WalkFits
  <2>4. walk.cur < walk.cur \/ walk.cur = Unknown
    BY <1>1, <1>4, <2>3 DEF GraphFits, OlderIn
  <2>5. walk.cur \in 1..n /\ walk.cur # Unknown
    BY <1>2, <2>3
  <2> QED BY <2>4, <2>5
<1>5. edits \in Nat
  BY <1>1 DEF GraphFits, GraphTypeOK
<1>6. ASSUME walk.start # Null
      PROVE  \A k \in 0..(Cardinality(walk.visited) - 1) : Ancestor(walk.start, k) \in walk.visited
  <2>1. WalkChain(rows, walk.start, walk.visited, walk.cur)
    BY <1>1, <1>6 DEF GraphFits, WalkFits
  <2> QED BY <2>1, AncestorIsUp DEF WalkChain
<1>7. ASSUME edits = 0, climb.start # Null
      PROVE  climb.start \in Descendants(climb.at)
  <2>1. PICK k \in 0..MaxTrails : Up(rows, climb.start, k) = climb.at
    BY <1>1, <1>7 DEF GraphFits, ClimbFitsIn
  <2>2. climb.start \in Ids
    BY <1>1, <1>7 DEF GraphFits, GraphTypeOK
  <2> QED BY <2>1, <2>2, AncestorIsUp DEF Descendants
<1> QED BY <1>1, <1>2, <1>3, <1>4, <1>5, <1>6, <1>7, FaultAt DEF ChainVerdictIsNearestFault

\* What verify_chain answers is the nearest fault of the chain it was asked about
\* (mycelium_trails.py, verify_chain), whatever trails are recorded between its
\* queries and for any number of rows; get_trail_graph's climb ends above the trail
\* it started from.
THEOREM ChainVerdictHolds == Spec => []ChainVerdictIsNearestFault
<1>1. Init => GraphInv
  BY GraphInitInv DEF Init
<1>2. GraphInv /\ [Next]_verifierVars => GraphInv'
  <2> SUFFICES ASSUME GraphInv, [Next]_verifierVars PROVE GraphInv'
    OBVIOUS
  <2>1. CASE GraphNext
    BY <2>1, GraphNextInv
  <2>2. CASE UNCHANGED graphVars
    BY <2>2, GraphFrame
  <2>3. GraphNext \/ UNCHANGED graphVars
    BY DEF Next, verifierVars
  <2> QED BY <2>1, <2>2, <2>3
<1> QED BY <1>1, <1>2, GraphInvImplies, PTL DEF Spec


-----------------------------------------------------------------------------
(* Trail heads: LogsAndRetries_proofs has HeadInv and HonestInv.               *)

\* What verify_trail calls complete is the whole log up to a sealed checkpoint
\* (plugins/agt_evidence_anchor/trail_head.py), for logs and periods of any
\* number, whatever is cut, edited, chained afresh or lowered.
THEOREM CompleteHolds == Spec => []CompleteMeansWholeLog
<1>1. Init => HeadInv
  BY HeadInitInv DEF Init
<1>2. HeadInv /\ [Next]_verifierVars => HeadInv'
  <2> SUFFICES ASSUME HeadInv, [Next]_verifierVars PROVE HeadInv'
    OBVIOUS
  <2>1. CASE HeadNext
    BY <2>1, HeadNextInv
  <2>2. CASE UNCHANGED headVars
    BY <2>2, HeadFrame
  <2>3. HeadNext \/ UNCHANGED headVars
    BY DEF Next, verifierVars
  <2> QED BY <2>1, <2>2, <2>3
<1> QED BY <1>1, <1>2, HeadInvImplies, PTL DEF Spec

\* The same of any list of entries whatever: verify_trail cannot be shown a
\* forged log that it calls complete, unless SHA-256 collides.
THEOREM NoForgedLogComplete == Spec => []AnyLogIsWhole
<1>1. Init => HeadInv
  BY HeadInitInv DEF Init
<1>2. HeadInv /\ [Next]_verifierVars => HeadInv'
  <2> SUFFICES ASSUME HeadInv, [Next]_verifierVars PROVE HeadInv'
    OBVIOUS
  <2>1. CASE HeadNext
    BY <2>1, HeadNextInv
  <2>2. CASE UNCHANGED headVars
    BY <2>2, HeadFrame
  <2>3. HeadNext \/ UNCHANGED headVars
    BY DEF Next, verifierVars
  <2> QED BY <2>1, <2>2, <2>3
<1> QED BY <1>1, <1>2, HeadInvAny, PTL DEF Spec

\* verify_trail refuses no honest operator: the log is complete under its latest
\* checkpoint, from the genesis or from an earlier checkpoint, unless the agent's
\* own numbering has a gap; the cadence of one checkpoint per period is kept; every
\* checkpoint is proven; and the vectors of trail-head-window-ref score as they
\* declare, for logs of any length (trail_head.py).
THEOREM HonestLogHolds == Spec => []HonestLogAccepted
<1>1. Init => HonestInv
  BY HonestInitInv DEF Init
<1>2. HonestInv /\ [Next]_verifierVars => HonestInv'
  <2> SUFFICES ASSUME HonestInv, [Next]_verifierVars PROVE HonestInv'
    OBVIOUS
  <2>1. CASE HeadNext
    BY <2>1, HonestNextInv
  <2>2. CASE UNCHANGED headVars
    BY <2>2, HonestFrame
  <2>3. HeadNext \/ UNCHANGED headVars
    BY DEF Next, verifierVars
  <2> QED BY <2>1, <2>2, <2>3
<1> QED BY <1>1, <1>2, HonestInvImplies, PTL DEF Spec

-----------------------------------------------------------------------------
(* settlement-retry-safety                                                  *)

\* The record that the backend is.
BackendFits ==
  /\ backend = [kind |-> backend.kind, mode |-> backend.mode, ledger |-> backend.ledger,
                settle_calls |-> backend.settle_calls, reconcile_calls |-> backend.reconcile_calls]
  /\ backend.kind \in {"x402", "generic"}
  /\ backend.mode \in IF backend.kind = "x402" THEN MODES ELSE DOMAIN GenericMode

\* generic_backend's modes are the same faults by other names.
LEMMA FaultIsMode == ASSUME BackendFits PROVE Fault \in MODES
<1>1. \A m \in DOMAIN GenericMode : GenericMode[m] \in MODES
  BY DEF GenericMode, MODES, Lost, LostWithRef
<1> QED BY <1>1 DEF BackendFits, Fault

\* The seven faults, and the three ways the first answer is lost.
LEMMA FaultCases ==
  ASSUME BackendFits
  PROVE  \/ Fault \in {"clean", "declared_safe"}
         \/ Fault \in Lost
         \/ Fault = "double_402"
BY FaultIsMode DEF MODES

\* No step turns the backend into another.
LEMMA FaultKept ==
  ASSUME backend'.kind = backend.kind, backend'.mode = backend.mode
  PROVE  Fault' = Fault
BY DEF Fault, GenericMode

\* settle (settlement_fixture.py): one more call, and a line of the ledger if it
\* writes.
LEMMA SettleEffect ==
  ASSUME BackendFits, NEW sig, Settle(sig)
  PROVE  /\ BackendFits' /\ Fault' = Fault
         /\ backend'.reconcile_calls = backend.reconcile_calls
         /\ backend'.settle_calls = backend.settle_calls + 1
         /\ backend'.ledger =
              IF Answer(sig).writes
              THEN Append(backend.ledger,
                          [sig |-> sig, tx |-> IF Fault \in Lost /\ backend.settle_calls > 0 THEN "dup" ELSE "tx"])
              ELSE backend.ledger
<1>1. PICK n, l : /\ n = backend.settle_calls + 1
                  /\ l = IF Answer(sig).writes
                         THEN Append(backend.ledger,
                                     [sig |-> sig,
                                      tx |-> IF Fault \in Lost /\ backend.settle_calls > 0 THEN "dup" ELSE "tx"])
                         ELSE backend.ledger
  OBVIOUS
<1>2. backend' = [backend EXCEPT !.settle_calls = n, !.ledger = l]
  BY <1>1 DEF Settle
<1>3. backend' = [kind |-> backend.kind, mode |-> backend.mode, ledger |-> l,
                  settle_calls |-> n, reconcile_calls |-> backend.reconcile_calls]
  BY <1>2 DEF BackendFits
<1>4. backend'.kind = backend.kind /\ backend'.mode = backend.mode /\ backend'.ledger = l
      /\ backend'.settle_calls = n /\ backend'.reconcile_calls = backend.reconcile_calls
  BY <1>3
<1>5. BackendFits'
  BY <1>3, <1>4 DEF BackendFits, GenericMode
<1> QED BY <1>1, <1>4, <1>5, FaultKept

\* settle's answer to an authorization that the ledger does not have.
LEMMA AnswerNew ==
  ASSUME NEW sig, Entries(sig) = {}, NEW n, backend.settle_calls = n, n \in Nat
  PROVE  /\ Fault \in LostWithRef /\ n = 0 => Answer(sig) = [kind |-> "lost", ref |-> "tx", writes |-> TRUE]
         /\ Fault \in Lost \ LostWithRef /\ n = 0 => Answer(sig) = [kind |-> "lost", ref |-> NoRef, writes |-> TRUE]
         /\ Fault \in Lost /\ n = 1 => Answer(sig) = [kind |-> "settled", ref |-> "dup", writes |-> TRUE]
         /\ Fault = "double_402" /\ n = 0 => Answer(sig) = [kind |-> "lost", ref |-> NoRef, writes |-> FALSE]
         /\ Fault = "double_402" /\ n = 1 => Answer(sig) = [kind |-> "challenge", ref |-> NoRef, writes |-> FALSE]
         /\ Fault = "double_402" /\ n > 1 => Answer(sig) = [kind |-> "settled", ref |-> "tx", writes |-> TRUE]
         /\ Fault \in {"clean", "declared_safe"} =>
              Answer(sig) = [kind |-> "settled", ref |-> "tx", writes |-> TRUE]
<1>1. PICK f, t : f = Fault /\ t = IF f \in Lost /\ n + 1 > 1 THEN "dup" ELSE "tx"
  OBVIOUS
<1>2. Answer(sig) = IF f \in Lost /\ n + 1 = 1
                    THEN [kind |-> "lost", ref |-> IF f \in LostWithRef THEN t ELSE NoRef, writes |-> TRUE]
                    ELSE IF f = "double_402" /\ n + 1 = 1 THEN [kind |-> "lost", ref |-> NoRef, writes |-> FALSE]
                    ELSE IF f = "double_402" /\ n + 1 = 2
                    THEN [kind |-> "challenge", ref |-> NoRef, writes |-> FALSE]
                    ELSE [kind |-> "settled", ref |-> t, writes |-> TRUE]
  BY <1>1 DEF Answer
<1>3. LostWithRef \subseteq Lost /\ Lost \cap {"clean", "declared_safe", "double_402"} = {}
  BY DEF Lost, LostWithRef
<1>4. /\ n = 0 => n + 1 = 1 /\ ~(n + 1 > 1)
      /\ n = 1 => n + 1 = 2 /\ n + 1 # 1 /\ n + 1 > 1
      /\ n > 1 => n + 1 # 1 /\ n + 1 # 2
  OBVIOUS
<1>5. f \in {"clean", "declared_safe"} => Answer(sig) = [kind |-> "settled", ref |-> "tx", writes |-> TRUE]
  BY <1>1, <1>2, <1>3
<1>6. ASSUME n = 0
      PROVE  /\ f \in LostWithRef => Answer(sig) = [kind |-> "lost", ref |-> "tx", writes |-> TRUE]
             /\ f \in Lost \ LostWithRef => Answer(sig) = [kind |-> "lost", ref |-> NoRef, writes |-> TRUE]
             /\ f = "double_402" => Answer(sig) = [kind |-> "lost", ref |-> NoRef, writes |-> FALSE]
  BY <1>1, <1>2, <1>3, <1>4, <1>6
<1>7. ASSUME n = 1
      PROVE  /\ f \in Lost => Answer(sig) = [kind |-> "settled", ref |-> "dup", writes |-> TRUE]
             /\ f = "double_402" => Answer(sig) = [kind |-> "challenge", ref |-> NoRef, writes |-> FALSE]
  BY <1>1, <1>2, <1>3, <1>4, <1>7
<1>8. ASSUME n > 1, f = "double_402"
      PROVE  Answer(sig) = [kind |-> "settled", ref |-> "tx", writes |-> TRUE]
  BY <1>1, <1>2, <1>3, <1>4, <1>8
<1> QED BY <1>1, <1>5, <1>6, <1>7, <1>8

\* ... and to one that it has: the line on file, and none is written.
LEMMA AnswerOld ==
  ASSUME NEW sig, WrittenFor(sig)
  PROVE  Answer(sig) = [kind |-> "settled", ref |-> "tx", writes |-> FALSE]
<1>1. Entries(sig) = {1} /\ backend.ledger[1].tx = "tx"
  BY DEF Entries, WrittenFor
<1> QED BY <1>1 DEF Answer

\* An empty ledger has no authorization, a ledger of another one not this.
LEMMA NoEntries ==
  /\ \A sig : Unwritten => Entries(sig) = {}
  /\ \A sig, other : WrittenFor(other) /\ sig # other => Entries(sig) = {}
BY DEF Unwritten, WrittenFor, Entries

\* mark_indeterminate on a new record: its reference, and nothing else.
LEMMA MarkedIs ==
  \A ref : MarkIndeterminate(Start("sig"), ref) =
    [verdict |-> "indeterminate", authorization |-> "sig", broadcast_ref |-> ref, transaction_ref |-> NoRef]
<1>1. Start("sig") = [verdict |-> "indeterminate", authorization |-> "sig", broadcast_ref |-> NoRef,
                      transaction_ref |-> NoRef]
  BY DEF Start
<1> SUFFICES ASSUME NEW ref
             PROVE  MarkIndeterminate(Start("sig"), ref) =
                      [verdict |-> "indeterminate", authorization |-> "sig", broadcast_ref |-> ref,
                       transaction_ref |-> NoRef]
  OBVIOUS
<1>2. PICK r : r = Start("sig")
  OBVIOUS
<1>3. r = [verdict |-> "indeterminate", authorization |-> "sig", broadcast_ref |-> NoRef, transaction_ref |-> NoRef]
  BY <1>1, <1>2
<1>4. [r EXCEPT !.verdict = "indeterminate", !.broadcast_ref = ref] =
        [verdict |-> "indeterminate", authorization |-> "sig", broadcast_ref |-> ref, transaction_ref |-> NoRef]
  <2>1. [r EXCEPT !.verdict = "indeterminate"] = r
    BY <1>3
  <2>2. [r EXCEPT !.broadcast_ref = ref] =
          [verdict |-> "indeterminate", authorization |-> "sig", broadcast_ref |-> ref, transaction_ref |-> NoRef]
    BY <1>3
  <2>3. [r EXCEPT !.verdict = "indeterminate", !.broadcast_ref = ref] = [r EXCEPT !.broadcast_ref = ref]
    BY ONLY <2>1
  <2> QED BY ONLY <2>2, <2>3
<1> QED BY ONLY <1>2, <1>4 DEF MarkIndeterminate

\* A record of the store is not its absence.
LEMMA OnFile ==
  /\ Start("sig") # NoPending /\ MarkIndeterminate(Start("sig"), "tx") # NoPending
  /\ Start("sig").authorization = "sig" /\ MarkIndeterminate(Start("sig"), "tx").authorization = "sig"
  /\ Start("sig").verdict = "indeterminate" /\ MarkIndeterminate(Start("sig"), "tx").verdict = "indeterminate"
  /\ Start("sig").broadcast_ref = NoRef /\ MarkIndeterminate(Start("sig"), "tx").broadcast_ref = "tx"
  /\ Start("sig").transaction_ref = NoRef /\ MarkIndeterminate(Start("sig"), "tx").transaction_ref = NoRef
  /\ MarkIndeterminate(Start("sig"), NoRef) = Start("sig")
  /\ [Start("sig") EXCEPT !.authorization = "sig"] = Start("sig")
  /\ [MarkIndeterminate(Start("sig"), "tx") EXCEPT !.authorization = "sig"] = MarkIndeterminate(Start("sig"), "tx")
  /\ "tx" # NoRef
<1>1. Start("sig") = [verdict |-> "indeterminate", authorization |-> "sig", broadcast_ref |-> NoRef,
                      transaction_ref |-> NoRef]
  BY DEF Start
<1>2. MarkIndeterminate(Start("sig"), "tx") =
        [verdict |-> "indeterminate", authorization |-> "sig", broadcast_ref |-> "tx", transaction_ref |-> NoRef]
  BY MarkedIs
<1>3. MarkIndeterminate(Start("sig"), NoRef) = Start("sig")
  BY <1>1, MarkedIs
<1>4. [Start("sig") EXCEPT !.authorization = "sig"] = Start("sig")
  BY <1>1
<1>5. [MarkIndeterminate(Start("sig"), "tx") EXCEPT !.authorization = "sig"] = MarkIndeterminate(Start("sig"), "tx")
  BY <1>2
<1>6. NoPending.verdict = "absent" /\ NoRef = "none"
  BY DEF NoPending, NoRef
<1>7. Start("sig").verdict = "indeterminate" /\ MarkIndeterminate(Start("sig"), "tx").verdict = "indeterminate"
  BY <1>1, <1>2
<1>8. Start("sig") # NoPending /\ MarkIndeterminate(Start("sig"), "tx") # NoPending
  BY <1>6, <1>7
<1>9. Start("sig").authorization = "sig" /\ MarkIndeterminate(Start("sig"), "tx").authorization = "sig"
      /\ Start("sig").broadcast_ref = NoRef /\ MarkIndeterminate(Start("sig"), "tx").broadcast_ref = "tx"
      /\ Start("sig").transaction_ref = NoRef /\ MarkIndeterminate(Start("sig"), "tx").transaction_ref = NoRef
  BY <1>1, <1>2
<1> QED BY <1>3, <1>4, <1>5, <1>6, <1>7, <1>8, <1>9

\* The calls that the vectors declare.
LEMMA DeclaredCalls ==
  /\ \A f \in {"clean", "declared_safe"} : ExpectedCalls[f] = <<1, 0>>
  /\ ExpectedCalls["accept_then_timeout"] = <<1, 1>>
  /\ ExpectedCalls["reconcile_unavailable"] = <<2, 1>>
  /\ \A f \in Lost \ LostWithRef : ExpectedCalls[f] = <<2, 0>>
  /\ ExpectedCalls["double_402"] = <<3, 0>>
<1>1. \A f \in {"clean", "declared_safe"} : ExpectedCalls[f] = <<1, 0>>
  BY DEF ExpectedCalls, MODES, Lost, LostWithRef
<1>2. ExpectedCalls["accept_then_timeout"] = <<1, 1>>
  BY DEF ExpectedCalls, MODES, Lost, LostWithRef
<1>3. ExpectedCalls["reconcile_unavailable"] = <<2, 1>>
  BY DEF ExpectedCalls, MODES, Lost, LostWithRef
<1>4. ExpectedCalls["5xx_after_settle"] = <<2, 0>> /\ ExpectedCalls["slow_answer"] = <<2, 0>>
  BY DEF ExpectedCalls, MODES, Lost, LostWithRef
<1>5. Lost \ LostWithRef = {"5xx_after_settle", "slow_answer"}
  BY DEF Lost, LostWithRef
<1>6. ExpectedCalls["double_402"] = <<3, 0>>
  BY DEF ExpectedCalls, MODES, Lost, LostWithRef
<1> QED BY <1>1, <1>2, <1>3, <1>4, <1>5, <1>6

\* A settled record keeps its transaction, which is the ledger's.
LEMMA SettledRecord ==
  ASSUME NEW rec \in {Start("sig"), MarkIndeterminate(Start("sig"), "tx")}
  PROVE  /\ MarkSettled(rec, "tx").verdict = "settled" /\ MarkSettled(rec, "tx").transaction_ref = "tx"
         /\ MarkSettled(rec, "tx").broadcast_ref \in {NoRef, "tx"}
         /\ MarkSettled(rec, "tx") # NoPending
<1>1. PICK b \in {NoRef, "tx"} : rec = [verdict |-> "indeterminate", authorization |-> "sig", broadcast_ref |-> b,
                                     transaction_ref |-> NoRef]
  <2>1. CASE rec = Start("sig")
    BY <2>1 DEF Start
  <2>2. CASE rec = MarkIndeterminate(Start("sig"), "tx")
    BY <2>2, MarkedIs
  <2> QED BY <2>1, <2>2
<1>2. MarkSettled(rec, "tx") = [verdict |-> "settled", authorization |-> "sig", broadcast_ref |-> b, transaction_ref |-> "tx"]
  <2>1. PICK r : r = rec
    OBVIOUS
  <2>2. [r EXCEPT !.verdict = "settled"] =
          [verdict |-> "settled", authorization |-> "sig", broadcast_ref |-> b, transaction_ref |-> NoRef]
    BY <1>1, <2>1
  <2>3. PICK q : q = [r EXCEPT !.verdict = "settled"]
    OBVIOUS
  <2>4. [q EXCEPT !.transaction_ref = "tx"] =
          [verdict |-> "settled", authorization |-> "sig", broadcast_ref |-> b, transaction_ref |-> "tx"]
    <3>1. q = [verdict |-> "settled", authorization |-> "sig", broadcast_ref |-> b, transaction_ref |-> NoRef]
      BY ONLY <2>2, <2>3
    <3> QED BY ONLY <3>1
  <2>5. [r EXCEPT !.verdict = "settled", !.transaction_ref = "tx"] = [q EXCEPT !.transaction_ref = "tx"]
    BY <2>3
  <2> QED BY <2>1, <2>4, <2>5 DEF MarkSettled
<1>3. NoPending.verdict = "absent"
  BY DEF NoPending
<1> QED BY <1>2, <1>3

\* What a step that leaves the backend alone leaves of the rest.
LEMMA BackendSame ==
  ASSUME backend' = backend
  PROVE  /\ Fault' = Fault /\ (BackendFits => BackendFits')
         /\ (Written <=> Written') /\ (Unwritten <=> Unwritten')
         /\ (CallsAsDeclared <=> CallsAsDeclared')
<1>1. Fault' = Fault
  BY FaultKept
<1>2. BackendFits => BackendFits'
  BY DEF BackendFits, GenericMode
<1>3. (Written <=> Written') /\ (Unwritten <=> Unwritten')
  BY DEF Written, WrittenFor, Unwritten
<1>4. ExpectedCalls' = ExpectedCalls
  BY DEF ExpectedCalls
<1>5. CallsAsDeclared <=> CallsAsDeclared'
  BY <1>1, <1>4 DEF CallsAsDeclared
<1> QED BY <1>1, <1>2, <1>3, <1>5

\* The store is what a lost answer left, in a step that does not touch it.
LEMMA AfterLossSame ==
  ASSUME AfterLoss, Fault' = Fault, Written' <=> Written, Unwritten' <=> Unwritten, pending' = pending
  PROVE  AfterLoss'
BY DEF AfterLoss

\* What a lost answer leaves is a record on file, with the reference if there is
\* one.
LEMMA AfterLossRecord ==
  ASSUME AfterLoss
  PROVE  /\ pending \in {Start("sig"), MarkIndeterminate(Start("sig"), "tx")}
         /\ Fault \in LostWithRef => pending.broadcast_ref = "tx" /\ Written
         /\ Fault \notin LostWithRef => pending.broadcast_ref = NoRef
         /\ Fault \in Lost => Written
         /\ Fault = "double_402" => Unwritten
         /\ Fault \in Lost \cup {"double_402"}
<1>1. LostWithRef \subseteq Lost /\ "double_402" \notin Lost
  BY DEF Lost, LostWithRef
<1> QED BY <1>1, OnFile DEF AfterLoss

\* A round begins (execute_payment): with the authorization on file, or with the
\* first one.
LEMMA RoundStartInv ==
  ASSUME RetryInv, RoundStart
  PROVE  RetryInv'
<1>1. BackendFits /\ client = "execute_payment" /\ client' = client /\ backend' = backend
      /\ at_call = "idle" /\ rounds' = rounds + 1
  BY DEF RetryInv, BackendFits, RoundStart
<1>2. Fault' = Fault /\ BackendFits' /\ (Written <=> Written') /\ (Unwritten <=> Unwritten')
  BY <1>1, BackendSame
<1>3. CASE Progress("idle", 0, 0, 0) /\ Unwritten /\ pending = NoPending
  <2>1. pending' = Start("sig")
    BY <1>3 DEF RoundStart, Authorization
  <2>2. at_call' = "settle"
    BY <2>1, OnFile DEF RoundStart
  <2>3. Progress("settle", 1, 0, 0)'
    BY <1>1, <1>3, <2>2 DEF Progress
  <2>4. Paying'
    BY <1>2, <1>3, <2>1, <2>3 DEF Paying
  <2> QED BY <1>1, <1>2, <2>4 DEF RetryInv, BackendFits
<1>4. CASE Progress(at_call, 1, 1, 0) /\ AfterLoss
  <2>1. pending \in {Start("sig"), MarkIndeterminate(Start("sig"), "tx")}
    BY <1>4, AfterLossRecord
  <2>2. pending # NoPending /\ pending.authorization = "sig" /\ [pending EXCEPT !.authorization = "sig"] = pending
    BY <2>1, OnFile
  <2>3. pending' = pending
    BY <2>2 DEF RoundStart, Authorization
  <2>4. AfterLoss'
    BY <1>2, <1>4, <2>3, AfterLossSame
  <2>5. CASE Fault \in LostWithRef
    <3>1. at_call' = "reconcile"
      BY <1>4, <2>3, <2>5, AfterLossRecord, OnFile DEF RoundStart
    <3>2. Progress("reconcile", 2, 1, 0)'
      BY <1>1, <1>4, <3>1 DEF Progress
    <3> QED BY <1>1, <1>2, <2>4, <2>5, <3>2 DEF RetryInv, BackendFits, Paying
  <2>6. CASE Fault \notin LostWithRef
    <3>1. at_call' = "settle"
      BY <1>4, <2>3, <2>6, AfterLossRecord DEF RoundStart
    <3>2. Progress("settle", 2, 1, 0)'
      BY <1>1, <1>4, <3>1 DEF Progress
    <3> QED BY <1>1, <1>2, <2>4, <2>6, <3>2 DEF RetryInv, BackendFits, Paying
  <2> QED BY <2>5, <2>6
<1>5. Paying
  BY <1>1 DEF RetryInv
<1> QED BY <1>1, <1>3, <1>4, <1>5 DEF Paying, Progress

\* reconcile: the broadcast reference is found, or its first call goes
\* unanswered and the authorization is presented again.
LEMMA ReconcileFirstInv ==
  ASSUME RetryInv, ReconcileFirst
  PROVE  RetryInv'
<1>1. BackendFits /\ client' = client /\ at_call = "reconcile" /\ rounds' = rounds
  BY DEF RetryInv, BackendFits, ReconcileFirst
<1>2. client = "execute_payment"
  BY <1>1 DEF RetryInv, Controlled, Progress
<1>3. Progress("reconcile", 2, 1, 0) /\ AfterLoss /\ Fault \in LostWithRef
  BY <1>1, <1>2 DEF RetryInv, Paying, Progress
<1>4. Written /\ pending = MarkIndeterminate(Start("sig"), "tx")
  <2>1. LostWithRef \subseteq Lost /\ "double_402" \notin LostWithRef
    BY DEF Lost, LostWithRef
  <2> QED BY <1>3, <2>1 DEF AfterLoss
<1>5. /\ backend'.kind = backend.kind /\ backend'.mode = backend.mode /\ backend'.ledger = backend.ledger
      /\ backend'.settle_calls = 1 /\ backend'.reconcile_calls = 1
      /\ BackendFits'
  <2>1. PICK n : n = backend.reconcile_calls + 1
    OBVIOUS
  <2>2. backend' = [backend EXCEPT !.reconcile_calls = n]
    BY <2>1 DEF ReconcileFirst
  <2>3. backend' = [kind |-> backend.kind, mode |-> backend.mode, ledger |-> backend.ledger,
                    settle_calls |-> backend.settle_calls, reconcile_calls |-> n]
    BY <1>1, <2>2 DEF BackendFits
  <2>4. backend'.kind = backend.kind /\ backend'.mode = backend.mode /\ backend'.ledger = backend.ledger
        /\ backend'.settle_calls = backend.settle_calls /\ backend'.reconcile_calls = n
    BY <2>3
  <2>5. BackendFits'
    BY <1>1, <2>3, <2>4 DEF BackendFits, GenericMode
  <2> QED BY <1>3, <2>1, <2>4, <2>5 DEF Progress
<1>6. Fault' = Fault /\ Written'
  BY <1>4, <1>5, FaultKept DEF Written, WrittenFor
<1>7. Reconciled(pending.broadcast_ref) <=> Fault # "reconcile_unavailable"
  <2>1. backend.ledger[1].tx = "tx" /\ 1 \in DOMAIN backend.ledger /\ pending.broadcast_ref = "tx"
    BY <1>4, OnFile DEF Written, WrittenFor
  <2> QED BY <1>3, <2>1 DEF Reconciled, Progress
<1>8. CASE Fault = "reconcile_unavailable"
  <2>1. at_call' = "settle" /\ pending' = pending
    BY <1>7, <1>8 DEF ReconcileFirst
  <2>2. AfterLoss'
    BY <1>3, <1>4, <1>6, <2>1 DEF AfterLoss
  <2>3. Progress("settle", 2, 1, 1)'
    BY <1>1, <1>3, <1>5, <2>1 DEF Progress
  <2> QED BY <1>1, <1>2, <1>5, <1>6, <1>8, <2>2, <2>3 DEF RetryInv, BackendFits, Paying
<1>9. CASE Fault # "reconcile_unavailable"
  <2>1. at_call' = "returned" /\ pending' = MarkSettled(MarkIndeterminate(Start("sig"), "tx"), "tx")
    BY <1>4, <1>7, <1>9, OnFile DEF ReconcileFirst
  <2>2. Fault = "accept_then_timeout"
    BY <1>3, <1>9 DEF LostWithRef
  <2>3. CallsAsDeclared'
    <3>1. ExpectedCalls' = ExpectedCalls
      BY DEF ExpectedCalls
    <3> QED BY <1>5, <1>6, <2>2, <3>1, DeclaredCalls DEF CallsAsDeclared
  <2> QED BY <1>1, <1>2, <1>5, <1>6, <2>1, <2>3 DEF RetryInv, BackendFits, Paying
<1> QED BY <1>8, <1>9

\* What execute_payment does with each answer.
LEMMA PresentAnswer ==
  ASSUME Present, pending.authorization = "sig", NEW ref, NEW w
  PROVE  /\ Settle("sig") /\ client' = client /\ rounds' = rounds
         /\ Answer("sig") = [kind |-> "settled", ref |-> ref, writes |-> w] =>
              pending' = MarkSettled(pending, ref) /\ at_call' = "returned"
         /\ Answer("sig") = [kind |-> "lost", ref |-> ref, writes |-> w] =>
              pending' = MarkIndeterminate(pending, ref) /\ at_call' = "returned"
         /\ Answer("sig") = [kind |-> "challenge", ref |-> ref, writes |-> w] /\ at_call = "settle" =>
              pending' = pending /\ at_call' = "represent"
<1>1. PICK k : k = Answer("sig").kind
  OBVIOUS
<1>2. /\ k = "settled" => pending' = MarkSettled(pending, Answer("sig").ref) /\ at_call' = "returned"
      /\ k = "lost" => pending' = MarkIndeterminate(pending, Answer("sig").ref) /\ at_call' = "returned"
      /\ k = "challenge" /\ at_call = "settle" => at_call' = "represent" /\ pending' = pending
  BY <1>1 DEF Present
<1> QED BY <1>1, <1>2 DEF Present

\* A settled answer ends the call, on the ledger's one entry.
LEMMA PresentSettles ==
  ASSUME RetryInv, client = "execute_payment", Present, NEW w \in BOOLEAN,
         pending \in {Start("sig"), MarkIndeterminate(Start("sig"), "tx")},
         Answer("sig") = [kind |-> "settled", ref |-> "tx", writes |-> w],
         IF w THEN Unwritten /\ ~(Fault \in Lost /\ backend.settle_calls > 0) ELSE Written,
         <<backend.settle_calls + 1, backend.reconcile_calls>> = ExpectedCalls[Fault]
  PROVE  RetryInv'
<1>1. BackendFits
  BY DEF RetryInv, BackendFits
<1>2. pending.authorization = "sig"
  BY OnFile
<1>3. Settle("sig") /\ client' = client /\ pending' = MarkSettled(pending, "tx") /\ at_call' = "returned"
  BY <1>2, PresentAnswer
<1>4. /\ BackendFits' /\ Fault' = Fault
      /\ backend'.reconcile_calls = backend.reconcile_calls
      /\ backend'.settle_calls = backend.settle_calls + 1
      /\ backend'.ledger =
           IF Answer("sig").writes
           THEN Append(backend.ledger,
                       [sig |-> "sig", tx |-> IF Fault \in Lost /\ backend.settle_calls > 0 THEN "dup" ELSE "tx"])
           ELSE backend.ledger
  BY <1>1, <1>3, SettleEffect
<1>5. Written'
  <2>1. CASE w
    <3>0. Answer("sig").writes = TRUE /\ backend.ledger = <<>> /\ ~(Fault \in Lost /\ backend.settle_calls > 0)
      BY <2>1 DEF Unwritten
    <3>1. backend'.ledger = Append(<<>>, [sig |-> "sig", tx |-> "tx"])
      BY ONLY <1>4, <3>0
    <3> QED BY <3>1 DEF Written, WrittenFor
  <2>2. CASE ~w
    <3>1. backend'.ledger = backend.ledger
      BY <1>4, <2>2
    <3> QED BY <2>2, <3>1 DEF Written, WrittenFor
  <2> QED BY <2>1, <2>2
<1>6. CallsAsDeclared'
  <2>1. ExpectedCalls' = ExpectedCalls
    BY DEF ExpectedCalls
  <2> QED BY <1>4, <2>1 DEF CallsAsDeclared
<1>7. Paying'
  BY <1>3, <1>5, <1>6 DEF Paying
<1> QED BY <1>3, <1>4, <1>7 DEF RetryInv, BackendFits

\* settle, in the first round: it is answered, or the answer is lost.
LEMMA PresentFirst ==
  ASSUME RetryInv, client = "execute_payment", Present, Progress("settle", 1, 0, 0), Unwritten, pending = Start("sig")
  PROVE  RetryInv'
<1>1. BackendFits /\ Entries("sig") = {} /\ backend.settle_calls = 0 /\ pending.authorization = "sig"
  BY NoEntries, OnFile DEF RetryInv, BackendFits, Progress
<1>2. CASE Fault \in {"clean", "declared_safe"}
  <2>1. Answer("sig") = [kind |-> "settled", ref |-> "tx", writes |-> TRUE]
    BY <1>1, <1>2, AnswerNew
  <2>2. <<backend.settle_calls + 1, backend.reconcile_calls>> = ExpectedCalls[Fault]
    BY <1>2, DeclaredCalls DEF Progress
  <2>3. IF TRUE THEN Unwritten /\ ~(Fault \in Lost /\ backend.settle_calls > 0) ELSE Written
    BY <1>1
  <2>4. pending \in {Start("sig"), MarkIndeterminate(Start("sig"), "tx")}
    OBVIOUS
  <2> QED BY <2>1, <2>2, <2>3, <2>4, PresentSettles
<1>3. CASE Fault \notin {"clean", "declared_safe"}
  <2>1. PICK ref \in {NoRef, "tx"}, w \in BOOLEAN :
          /\ Answer("sig") = [kind |-> "lost", ref |-> ref, writes |-> w]
          /\ ref = "tx" <=> Fault \in LostWithRef
          /\ w <=> Fault \in Lost
    <3>1. "double_402" \notin Lost /\ LostWithRef \subseteq Lost /\ "tx" # NoRef
      BY OnFile DEF Lost, LostWithRef
    <3>2. CASE Fault \in LostWithRef
      <4>1. Answer("sig") = [kind |-> "lost", ref |-> "tx", writes |-> TRUE]
        BY <1>1, <3>2, AnswerNew
      <4> QED BY <3>1, <3>2, <4>1
    <3>3. CASE Fault \in Lost \ LostWithRef
      <4>1. Answer("sig") = [kind |-> "lost", ref |-> NoRef, writes |-> TRUE]
        BY <1>1, <3>3, AnswerNew
      <4> QED BY <3>1, <3>3, <4>1
    <3>4. CASE Fault = "double_402"
      <4>1. Answer("sig") = [kind |-> "lost", ref |-> NoRef, writes |-> FALSE]
        BY <1>1, <3>4, AnswerNew
      <4> QED BY <3>1, <3>4, <4>1
    <3> QED BY <1>1, <1>3, <3>2, <3>3, <3>4, FaultCases
  <2>2. Settle("sig") /\ client' = client /\ rounds' = rounds
        /\ pending' = MarkIndeterminate(Start("sig"), ref) /\ at_call' = "returned"
    BY <1>1, <2>1, PresentAnswer
  <2>3. /\ BackendFits' /\ Fault' = Fault
        /\ backend'.reconcile_calls = backend.reconcile_calls
        /\ backend'.settle_calls = backend.settle_calls + 1
        /\ backend'.ledger =
             IF Answer("sig").writes
             THEN Append(backend.ledger,
                         [sig |-> "sig", tx |-> IF Fault \in Lost /\ backend.settle_calls > 0 THEN "dup" ELSE "tx"])
             ELSE backend.ledger
    BY <1>1, <2>2, SettleEffect
  <2>4. Progress("returned", 1, 1, 0)'
    BY <1>1, <2>2, <2>3 DEF Progress
  <2>5. IF w THEN Written' ELSE Unwritten'
    <3>1. ~(backend.settle_calls > 0) /\ Answer("sig").writes = w
      BY <1>1, <2>1
    <3>2. w => backend'.ledger = Append(<<>>, [sig |-> "sig", tx |-> "tx"])
      BY <2>3, <3>1 DEF Unwritten
    <3>3. ~w => backend'.ledger = <<>>
      BY <2>3, <3>1 DEF Unwritten
    <3> QED BY <3>2, <3>3 DEF Written, WrittenFor, Unwritten
  <2>6. AfterLoss'
    <3>1. ref = NoRef => pending' = Start("sig")
      BY <2>2, OnFile
    <3>2. Fault \in Lost \/ Fault = "double_402"
      BY <1>1, <1>3, FaultCases
    <3>3. LostWithRef' = LostWithRef /\ Lost' = Lost
      BY DEF Lost, LostWithRef
    <3>4. CASE Fault \in LostWithRef
      <4>1. ref = "tx" /\ w
        <5>1. LostWithRef \subseteq Lost
          BY DEF Lost, LostWithRef
        <5> QED BY <2>1, <3>4, <5>1
      <4> QED BY <2>2, <2>3, <2>5, <3>3, <3>4, <4>1 DEF AfterLoss
    <3>5. CASE Fault \in Lost \ LostWithRef
      <4>1. ref = NoRef /\ w
        BY <2>1, <3>5
      <4> QED BY <2>3, <2>5, <3>1, <3>3, <3>5, <4>1 DEF AfterLoss
    <3>6. CASE Fault = "double_402"
      <4>1. ref = NoRef /\ ~w
        <5>1. "double_402" \notin Lost /\ LostWithRef \subseteq Lost
          BY DEF Lost, LostWithRef
        <5> QED BY <2>1, <3>6, <5>1
      <4> QED BY <2>3, <2>5, <3>1, <3>3, <3>6, <4>1 DEF AfterLoss
    <3> QED BY <3>2, <3>4, <3>5, <3>6
  <2>7. Paying'
    BY <2>2, <2>4, <2>6 DEF Paying
  <2> QED BY <2>2, <2>3, <2>7 DEF RetryInv, BackendFits
<1> QED BY <1>2, <1>3

\* settle again: with the authorization on file (the ledger's answer), or in
\* reply to a second challenge.
LEMMA PresentAgain ==
  ASSUME RetryInv, client = "execute_payment", Present, AfterLoss,
         \/ Progress("settle", 2, 1, 1) /\ Fault = "reconcile_unavailable"
         \/ Progress("settle", 2, 1, 0) /\ Fault \notin LostWithRef
         \/ Progress("represent", 2, 2, 0) /\ Fault = "double_402"
  PROVE  RetryInv'
<1>1. BackendFits
  BY DEF RetryInv, BackendFits
<1>2. pending \in {Start("sig"), MarkIndeterminate(Start("sig"), "tx")} /\ pending.authorization = "sig"
  BY AfterLossRecord, OnFile
<1>3. "double_402" \notin Lost /\ "reconcile_unavailable" \in LostWithRef /\ LostWithRef \subseteq Lost
  BY DEF Lost, LostWithRef
<1>4. CASE Fault \in Lost
  <2>1. Written
    BY <1>4, AfterLossRecord
  <2>2. Answer("sig") = [kind |-> "settled", ref |-> "tx", writes |-> FALSE]
    BY <2>1, AnswerOld DEF Written
  <2>3. <<backend.settle_calls + 1, backend.reconcile_calls>> = ExpectedCalls[Fault]
    <3>1. CASE Progress("settle", 2, 1, 1) /\ Fault = "reconcile_unavailable"
      BY <3>1, DeclaredCalls DEF Progress
    <3>2. CASE Progress("settle", 2, 1, 0) /\ Fault \notin LostWithRef
      BY <1>4, <3>2, DeclaredCalls DEF Progress
    <3> QED BY <1>3, <1>4, <3>1, <3>2
  <2>4. IF FALSE THEN Unwritten /\ ~(Fault \in Lost /\ backend.settle_calls > 0) ELSE Written
    BY <2>1
  <2> QED BY <1>2, <2>2, <2>3, <2>4, PresentSettles
<1>5. CASE Fault = "double_402"
  <2>1. Unwritten /\ pending = Start("sig") /\ Entries("sig") = {}
    <3>1. Unwritten
      BY <1>5, AfterLossRecord
    <3>2. "double_402" \notin LostWithRef
      BY <1>3
    <3> QED BY <1>3, <1>5, <3>1, <3>2, NoEntries DEF AfterLoss
  <2>2. CASE Progress("settle", 2, 1, 0)
    <3>1. Answer("sig") = [kind |-> "challenge", ref |-> NoRef, writes |-> FALSE]
      BY <1>5, <2>1, <2>2, AnswerNew DEF Progress
    <3>2. Settle("sig") /\ client' = client /\ rounds' = rounds /\ pending' = pending /\ at_call' = "represent"
      <4>1. at_call = "settle"
        BY <2>2 DEF Progress
      <4> QED BY <1>2, <3>1, <4>1, PresentAnswer
    <3>3. /\ BackendFits' /\ Fault' = Fault
          /\ backend'.reconcile_calls = backend.reconcile_calls
          /\ backend'.settle_calls = backend.settle_calls + 1
          /\ backend'.ledger = backend.ledger
      <4>1. Answer("sig").writes = FALSE
        BY <3>1
      <4> QED BY <1>1, <3>2, <4>1, SettleEffect
    <3>4. Progress("represent", 2, 2, 0)'
      BY <2>2, <3>2, <3>3 DEF Progress
    <3>5. AfterLoss'
      BY <1>5, <2>1, <3>2, <3>3 DEF AfterLoss, Unwritten
    <3>6. Paying'
      BY <1>5, <3>3, <3>4, <3>5 DEF Paying
    <3> QED BY <3>2, <3>3, <3>6 DEF RetryInv, BackendFits
  <2>3. CASE Progress("represent", 2, 2, 0)
    <3>1. backend.settle_calls = 2 /\ backend.reconcile_calls = 0
      BY <2>3 DEF Progress
    <3>2. Answer("sig") = [kind |-> "settled", ref |-> "tx", writes |-> TRUE]
      BY <1>5, <2>1, <3>1, AnswerNew
    <3>3. <<backend.settle_calls + 1, backend.reconcile_calls>> = ExpectedCalls[Fault]
      BY <1>5, <3>1, DeclaredCalls
    <3>4. IF TRUE THEN Unwritten /\ ~(Fault \in Lost /\ backend.settle_calls > 0) ELSE Written
      BY <1>3, <1>5, <2>1
    <3> QED BY <1>2, <3>2, <3>3, <3>4, PresentSettles
  <2>4. Fault # "reconcile_unavailable"
    BY <1>5
  <2> QED BY <2>2, <2>3, <2>4
<1>6. Fault \in Lost \cup {"double_402"}
  BY AfterLossRecord
<1> QED BY <1>4, <1>5, <1>6

\* Every call of settle by execute_payment is one of these.
LEMMA PresentInv ==
  ASSUME RetryInv, Present
  PROVE  RetryInv'
<1>1. client = "execute_payment" /\ Paying /\ at_call \in {"settle", "represent"}
  BY DEF Present, RetryInv
<1>2. CASE Progress("settle", 1, 0, 0) /\ Unwritten /\ pending = Start("sig")
  BY <1>1, <1>2, PresentFirst
<1>3. CASE AfterLoss /\ \/ Progress("settle", 2, 1, 1) /\ Fault = "reconcile_unavailable"
                        \/ Progress("settle", 2, 1, 0) /\ Fault \notin LostWithRef
                        \/ Progress("represent", 2, 2, 0) /\ Fault = "double_402"
  BY <1>1, <1>3, PresentAgain
<1> QED BY <1>1, <1>2, <1>3 DEF Paying, Progress

\* The round ends: another one follows until the key is settled.
LEMMA RoundEndInv ==
  ASSUME RetryInv, RoundEnd
  PROVE  RetryInv'
<1>1. BackendFits /\ client' = client /\ at_call = "returned" /\ backend' = backend /\ pending' = pending
      /\ rounds' = rounds
  BY DEF RetryInv, BackendFits, RoundEnd
<1>2. client = "execute_payment" /\ Paying
  BY <1>1 DEF RetryInv, Controlled, Progress
<1>3. Fault' = Fault /\ BackendFits' /\ (Written <=> Written') /\ (Unwritten <=> Unwritten')
      /\ (CallsAsDeclared <=> CallsAsDeclared')
  BY <1>1, BackendSame
<1>4. CASE Progress(at_call, 1, 1, 0) /\ AfterLoss
  <2>1. pending.verdict # "settled"
    BY <1>4, AfterLossRecord, OnFile
  <2>2. rounds < MAX_ROUNDS
    BY <1>4, RetrySafetyAssumption DEF Progress
  <2>3. at_call' = "idle"
    BY <2>1, <2>2 DEF RoundEnd
  <2>4. AfterLoss'
    BY <1>1, <1>3, <1>4, AfterLossSame
  <2>5. Progress("idle", 1, 1, 0)'
    BY <1>1, <1>4, <2>3 DEF Progress
  <2>6. Paying'
    BY <2>3, <2>4, <2>5 DEF Paying
  <2> QED BY <1>1, <1>2, <1>3, <2>6 DEF RetryInv, BackendFits
<1>5. CASE /\ Written /\ CallsAsDeclared
           /\ pending \in {MarkSettled(rec, "tx") : rec \in {Start("sig"), MarkIndeterminate(Start("sig"), "tx")}}
  <2>1. pending.verdict = "settled"
    BY <1>5, SettledRecord
  <2>2. at_call' \in {"again", "done"}
    BY <2>1 DEF RoundEnd
  <2>3. Paying'
    BY <1>1, <1>3, <1>5, <2>2 DEF Paying
  <2> QED BY <1>1, <1>2, <1>3, <2>3 DEF RetryInv, BackendFits
<1> QED BY <1>1, <1>2, <1>4, <1>5 DEF Paying, Progress

\* A settled key submitted again is answered from the store.
LEMMA DuplicateInv ==
  ASSUME RetryInv, Duplicate
  PROVE  RetryInv'
<1>1. BackendFits /\ client' = client /\ at_call = "again" /\ backend' = backend /\ pending' = pending
      /\ rounds' = rounds /\ at_call' = "done"
  BY DEF RetryInv, BackendFits, Duplicate
<1>2. client = "execute_payment" /\ Paying
  BY <1>1 DEF RetryInv, Controlled, Progress
<1>3. BackendFits' /\ (Written <=> Written') /\ (CallsAsDeclared <=> CallsAsDeclared')
  BY <1>1, BackendSame
<1>4. /\ Written /\ CallsAsDeclared
      /\ pending \in {MarkSettled(rec, "tx") : rec \in {Start("sig"), MarkIndeterminate(Start("sig"), "tx")}}
  BY <1>1, <1>2 DEF Paying, Progress
<1>5. Paying'
  BY <1>1, <1>3, <1>4 DEF Paying
<1> QED BY <1>1, <1>2, <1>3, <1>5 DEF RetryInv, BackendFits

\* The authorization that the control client signs for its round.
SignedNow == IF at_call = "idle" THEN rounds + 1 ELSE rounds

\* A call of the client that signs anew (run_mutation_control), by its answer.
LEMMA ControlStep ==
  ASSUME BackendFits, ControlRound
  PROVE  /\ client' = client /\ pending' = pending /\ rounds' = SignedNow
         /\ BackendFits' /\ Fault' = Fault
         /\ backend'.reconcile_calls = backend.reconcile_calls
         /\ backend'.settle_calls = backend.settle_calls + 1
         /\ backend'.ledger =
              IF Answer(SignedNow).writes
              THEN Append(backend.ledger,
                          [sig |-> SignedNow, tx |-> IF Fault \in Lost /\ backend.settle_calls > 0 THEN "dup" ELSE "tx"])
              ELSE backend.ledger
         /\ at_call' = IF at_call = "idle" /\ Answer(SignedNow).kind = "challenge" THEN "represent"
                       ELSE IF (at_call = "idle" /\ Answer(SignedNow).kind = "settled") \/ SignedNow = MAX_ROUNDS THEN "done"
                       ELSE "idle"
<1>1. /\ Settle(SignedNow) /\ rounds' = SignedNow /\ client' = client /\ pending' = pending
      /\ at_call' = IF at_call = "idle" /\ Answer(SignedNow).kind = "challenge" THEN "represent"
                    ELSE IF (at_call = "idle" /\ Answer(SignedNow).kind = "settled") \/ SignedNow = MAX_ROUNDS THEN "done"
                    ELSE "idle"
  BY DEF ControlRound, SignedNow
<1> QED BY <1>1, SettleEffect

\* The control client is charged as the fault has it.
LEMMA ControlRoundInv ==
  ASSUME RetryInv, ControlRound
  PROVE  RetryInv'
<1>1. BackendFits /\ client = "control" /\ Controlled /\ at_call \in {"idle", "represent"}
  BY DEF RetryInv, BackendFits, ControlRound
<1>2. "double_402" \notin Lost /\ Lost \cap {"clean", "declared_safe"} = {}
  BY DEF Lost, LostWithRef
<1>3. MAX_ROUNDS # 1 /\ MAX_ROUNDS # 2
  BY RetrySafetyAssumption
<1> SUFFICES client' = client /\ BackendFits' /\ Controlled'
  BY <1>1 DEF RetryInv, BackendFits
<1>4. CASE Progress("idle", 0, 0, 0) /\ Unwritten
  <2>1. Entries(1) = {} /\ at_call = "idle" /\ backend.settle_calls = 0 /\ backend.reconcile_calls = 0
        /\ SignedNow = 1
    BY <1>4, NoEntries DEF Progress, SignedNow
  <2>2. ~(Fault \in Lost /\ backend.settle_calls > 0) /\ backend.settle_calls + 1 = 1
    BY <2>1
  <2>3. CASE Fault \in {"clean", "declared_safe"}
    <3>1. Answer(SignedNow).kind = "settled" /\ Answer(SignedNow).writes = TRUE
      <4>1. Answer(1) = [kind |-> "settled", ref |-> "tx", writes |-> TRUE]
        BY <2>1, <2>3, AnswerNew
      <4> QED BY <2>1, <4>1
    <3>2. /\ client' = client /\ pending' = pending /\ BackendFits' /\ Fault' = Fault
          /\ backend'.ledger = Append(backend.ledger, [sig |-> 1, tx |-> "tx"])
          /\ at_call' = "done"
      BY <1>1, <2>1, <2>2, <3>1, ControlStep
    <3>3. Len(backend'.ledger) = 1
      BY <1>4, <3>2 DEF Unwritten
    <3> QED BY <1>1, <2>3, <3>2, <3>3 DEF Controlled
  <2>4. CASE Fault \in Lost
    <3>1. Answer(SignedNow).kind = "lost" /\ Answer(SignedNow).writes = TRUE
      <4>1. PICK ref \in {NoRef, "tx"} : Answer(1) = [kind |-> "lost", ref |-> ref, writes |-> TRUE]
        BY <2>1, <2>4, AnswerNew
      <4> QED BY <2>1, <4>1
    <3>2. /\ client' = client /\ pending' = pending /\ BackendFits' /\ Fault' = Fault /\ rounds' = 1
          /\ backend'.reconcile_calls = 0 /\ backend'.settle_calls = 1
          /\ backend'.ledger = Append(backend.ledger, [sig |-> 1, tx |-> "tx"])
          /\ at_call' = "idle"
      BY <1>1, <1>3, <2>1, <2>2, <3>1, ControlStep
    <3>3. WrittenFor(1)'
      BY <1>4, <3>2 DEF Unwritten, WrittenFor
    <3>4. Lost' = Lost
      BY DEF Lost, LostWithRef
    <3> QED BY <1>1, <2>4, <3>2, <3>3, <3>4 DEF Controlled, Progress
  <2>5. CASE Fault = "double_402"
    <3>1. Answer(SignedNow).kind = "lost" /\ Answer(SignedNow).writes = FALSE
      <4>1. Answer(1) = [kind |-> "lost", ref |-> NoRef, writes |-> FALSE]
        BY <2>1, <2>5, AnswerNew
      <4> QED BY <2>1, <4>1
    <3>2. /\ client' = client /\ pending' = pending /\ BackendFits' /\ Fault' = Fault /\ rounds' = 1
          /\ backend'.reconcile_calls = 0 /\ backend'.settle_calls = 1
          /\ backend'.ledger = backend.ledger
          /\ at_call' = "idle"
      BY <1>1, <1>3, <2>1, <2>2, <3>1, ControlStep
    <3>3. Unwritten'
      BY <1>4, <3>2 DEF Unwritten
    <3> QED BY <1>1, <2>5, <3>2, <3>3 DEF Controlled, Progress
  <2> QED BY <1>1, <2>3, <2>4, <2>5, FaultCases
<1>5. CASE Progress("idle", 1, 1, 0) /\ WrittenFor(1) /\ Fault \in Lost
  <2>1. Entries(2) = {} /\ at_call = "idle" /\ backend.settle_calls = 1
        /\ SignedNow = 2
    BY <1>5, NoEntries DEF Progress, SignedNow
  <2>2. Answer(SignedNow).kind = "settled" /\ Answer(SignedNow).writes = TRUE
    <3>1. Answer(2) = [kind |-> "settled", ref |-> "dup", writes |-> TRUE]
      BY <1>5, <2>1, AnswerNew
    <3> QED BY <2>1, <3>1
  <2>3. /\ client' = client /\ pending' = pending /\ BackendFits' /\ Fault' = Fault
        /\ \E e : backend'.ledger = Append(backend.ledger, e)
        /\ at_call' = "done"
    BY <1>1, <2>1, <2>2, ControlStep
  <2>4. Len(backend'.ledger) = 2
    BY <1>5, <2>3 DEF WrittenFor
  <2> QED BY <1>1, <1>2, <1>5, <2>3, <2>4 DEF Controlled
<1>6. CASE Progress("idle", 1, 1, 0) /\ Unwritten /\ Fault = "double_402"
  <2>1. Entries(2) = {} /\ at_call = "idle" /\ backend.settle_calls = 1 /\ backend.reconcile_calls = 0
        /\ SignedNow = 2
    BY <1>6, NoEntries DEF Progress, SignedNow
  <2>2. Answer(SignedNow).kind = "challenge" /\ Answer(SignedNow).writes = FALSE
    <3>1. Answer(2) = [kind |-> "challenge", ref |-> NoRef, writes |-> FALSE]
      BY <1>6, <2>1, AnswerNew
    <3> QED BY <2>1, <3>1
  <2>3. /\ client' = client /\ pending' = pending /\ BackendFits' /\ Fault' = Fault /\ rounds' = 2
        /\ backend'.reconcile_calls = 0 /\ backend'.settle_calls = 2
        /\ backend'.ledger = backend.ledger
        /\ at_call' = "represent"
    BY <1>1, <2>1, <2>2, ControlStep
  <2>4. Unwritten'
    BY <1>6, <2>3 DEF Unwritten
  <2> QED BY <1>1, <1>6, <2>3, <2>4 DEF Controlled, Progress
<1>7. CASE Progress("represent", 2, 2, 0) /\ Unwritten /\ Fault = "double_402"
  <2>1. Entries(2) = {} /\ at_call # "idle" /\ backend.settle_calls = 2 /\ backend.reconcile_calls = 0
        /\ SignedNow = 2
    BY <1>7, NoEntries DEF Progress, SignedNow
  <2>2. Answer(SignedNow).kind = "settled" /\ Answer(SignedNow).writes = TRUE
    <3>1. Answer(2) = [kind |-> "settled", ref |-> "tx", writes |-> TRUE]
      BY <1>7, <2>1, AnswerNew
    <3> QED BY <2>1, <3>1
  <2>3. /\ client' = client /\ pending' = pending /\ BackendFits' /\ Fault' = Fault /\ rounds' = 2
        /\ backend'.reconcile_calls = 0 /\ backend'.settle_calls = 3
        /\ backend'.ledger = Append(backend.ledger, [sig |-> 2, tx |-> "tx"])
        /\ at_call' = "idle"
    <3>1. ~(Fault \in Lost /\ backend.settle_calls > 0)
      BY <1>2, <1>7
    <3>2. backend.settle_calls + 1 = 3
      BY <2>1
    <3>3. /\ backend'.ledger = Append(backend.ledger, [sig |-> SignedNow, tx |-> "tx"])
          /\ at_call' = "idle"
      BY <1>1, <1>3, <2>1, <2>2, <3>1, ControlStep
    <3> QED BY <1>1, <2>1, <3>2, <3>3, ControlStep
  <2>4. WrittenFor(2)'
    BY <1>7, <2>3 DEF Unwritten, WrittenFor
  <2> QED BY <1>1, <1>7, <2>3, <2>4 DEF Controlled, Progress
<1>8. CASE Progress("idle", 2, 3, 0) /\ WrittenFor(2) /\ Fault = "double_402"
  <2>1. Entries(3) = {} /\ at_call = "idle" /\ backend.settle_calls = 3
        /\ SignedNow = 3
    BY <1>8, NoEntries DEF Progress, SignedNow
  <2>2. Answer(SignedNow).kind = "settled" /\ Answer(SignedNow).writes = TRUE
    <3>1. Answer(3) = [kind |-> "settled", ref |-> "tx", writes |-> TRUE]
      BY <1>8, <2>1, AnswerNew
    <3> QED BY <2>1, <3>1
  <2>3. /\ client' = client /\ pending' = pending /\ BackendFits' /\ Fault' = Fault
        /\ \E e : backend'.ledger = Append(backend.ledger, e)
        /\ at_call' = "done"
    BY <1>1, <2>1, <2>2, ControlStep
  <2>4. Len(backend'.ledger) = 2
    BY <1>8, <2>3 DEF WrittenFor
  <2> QED BY <1>1, <1>8, <2>3, <2>4 DEF Controlled
<1> QED BY <1>1, <1>4, <1>5, <1>6, <1>7, <1>8 DEF Controlled

\* A step of the module keeps the invariant.
LEMMA RetryNextInv ==
  ASSUME RetryInv, RetryNext
  PROVE  RetryInv'
BY RoundStartInv, ReconcileFirstInv, PresentInv, RoundEndInv, DuplicateInv, ControlRoundInv DEF RetryNext

\* ... and so does a step of another.
LEMMA RetryFrame ==
  ASSUME RetryInv, UNCHANGED retryVars
  PROVE  RetryInv'
<1>1. backend' = backend /\ client' = client /\ pending' = pending /\ at_call' = at_call /\ rounds' = rounds
  BY DEF retryVars
<1>2. /\ BackendFits' /\ Fault' = Fault /\ (Written <=> Written') /\ (Unwritten <=> Unwritten')
      /\ (CallsAsDeclared <=> CallsAsDeclared')
  BY <1>1, BackendSame DEF RetryInv, BackendFits
<1>3. Lost' = Lost /\ LostWithRef' = LostWithRef
  BY DEF Lost, LostWithRef
<1>4. AfterLoss => AfterLoss'
  BY <1>1, <1>2, AfterLossSame
<1>5. Paying => Paying'
  BY <1>1, <1>2, <1>3, <1>4 DEF Paying, Progress
<1>6. Controlled => Controlled'
  BY <1>1, <1>2, <1>3 DEF Controlled, Progress, WrittenFor
<1> QED BY <1>1, <1>2, <1>5, <1>6 DEF RetryInv, BackendFits

\* The battery starts with an empty ledger and an empty store.
LEMMA RetryInitInv == RetryInit => RetryInv
<1> SUFFICES ASSUME RetryInit PROVE RetryInv
  OBVIOUS
<1>0. PICK kind \in {"x402", "generic"} : \E mode \in IF kind = "x402" THEN MODES ELSE DOMAIN GenericMode :
        backend = [kind |-> kind, mode |-> mode, ledger |-> <<>>, settle_calls |-> 0, reconcile_calls |-> 0]
  BY DEF RetryInit
<1>1. PICK mode \in IF kind = "x402" THEN MODES ELSE DOMAIN GenericMode :
        backend = [kind |-> kind, mode |-> mode, ledger |-> <<>>, settle_calls |-> 0, reconcile_calls |-> 0]
  BY <1>0
<1>2. /\ backend.kind = kind /\ backend.mode = mode /\ backend.ledger = <<>>
      /\ backend.settle_calls = 0 /\ backend.reconcile_calls = 0
  BY <1>1
<1>3. Progress("idle", 0, 0, 0) /\ Unwritten /\ pending = NoPending
  BY <1>2 DEF RetryInit, Progress, Unwritten
<1> QED BY <1>1, <1>2, <1>3 DEF RetryInit, RetryInv, Paying, Controlled

\* The invariant says what the property asks.
LEMMA RetryInvImplies == RetryInv => SettledExactlyOnce
<1> SUFFICES ASSUME RetryInv PROVE SettledExactlyOnce
  OBVIOUS
<1>1. BackendFits
  BY DEF RetryInv, BackendFits
<1>2. Written => Len(backend.ledger) = 1 /\ 1 \in DOMAIN backend.ledger /\ backend.ledger[1].tx = "tx"
  BY DEF Written, WrittenFor
<1>3. Unwritten => Len(backend.ledger) = 0
  BY DEF Unwritten
<1>4. "double_402" \notin Lost /\ Lost \cap {"clean", "declared_safe"} = {} /\ LostWithRef \subseteq Lost
  BY DEF Lost, LostWithRef
<1>5. ASSUME client = "execute_payment"
      PROVE  /\ Len(backend.ledger) <= 1
             /\ pending # NoPending =>
                  \A ref \in {pending.broadcast_ref, pending.transaction_ref} \ {NoRef} :
                    \E i \in DOMAIN backend.ledger : backend.ledger[i].tx = ref
             /\ at_call = "done" => SettledOnce /\ CallsAsDeclared
  <2>1. Paying
    BY <1>5 DEF RetryInv
  <2>2. CASE AfterLoss /\ at_call # "done"
    <3>1. pending.broadcast_ref \in {NoRef, "tx"} /\ pending.transaction_ref = NoRef
      BY <2>2, AfterLossRecord, OnFile
    <3>2. pending.broadcast_ref = "tx" => Written
      BY <2>2, <1>4, AfterLossRecord, OnFile
    <3>3. Written \/ Unwritten
      BY <2>2 DEF AfterLoss
    <3>4. \A ref \in {pending.broadcast_ref, pending.transaction_ref} \ {NoRef} :
            \E i \in DOMAIN backend.ledger : backend.ledger[i].tx = ref
      BY <1>2, <3>1, <3>2
    <3>5. Len(backend.ledger) <= 1
      <4>1. Len(backend.ledger) = 1 \/ Len(backend.ledger) = 0
        BY <1>2, <1>3, <3>3
      <4>2. PICK n : n = Len(backend.ledger)
        OBVIOUS
      <4>3. n \in {0, 1}
        BY <4>1, <4>2
      <4>4. n <= 1
        BY ONLY <4>3
      <4> QED BY <4>2, <4>4
    <3> QED BY <2>2, <3>4, <3>5
  <2>3. CASE /\ Written /\ CallsAsDeclared
             /\ pending \in {MarkSettled(rec, "tx") : rec \in {Start("sig"), MarkIndeterminate(Start("sig"), "tx")}}
    <3>1. pending.verdict = "settled" /\ pending.transaction_ref = "tx" /\ pending.broadcast_ref \in {NoRef, "tx"}
      BY <2>3, SettledRecord
    <3>2. \A ref \in {pending.broadcast_ref, pending.transaction_ref} \ {NoRef} :
            \E i \in DOMAIN backend.ledger : backend.ledger[i].tx = ref
      BY <1>2, <2>3, <3>1
    <3>3. Len(backend.ledger) = 1
      BY <1>2, <2>3
    <3> QED BY <2>3, <3>1, <3>2, <3>3 DEF SettledOnce
  <2>4. CASE Unwritten /\ pending = NoPending /\ at_call # "done"
    BY <1>3, <2>4
  <2>5. CASE Unwritten /\ pending = Start("sig") /\ at_call # "done"
    BY <1>3, <2>5, OnFile
  <2> QED BY <2>1, <2>2, <2>3, <2>4, <2>5 DEF Paying, Progress
<1>6. ASSUME client = "control", at_call = "done"
      PROVE  Len(backend.ledger) > 1 <=> Fault \in Lost \cup {"double_402"}
  <2>1. Len(backend.ledger) = IF Fault \in {"clean", "declared_safe"} THEN 1 ELSE 2
    BY <1>6 DEF RetryInv, Controlled, Progress
  <2>2. CASE Fault \in {"clean", "declared_safe"}
    BY <1>4, <2>1, <2>2
  <2>3. CASE Fault \notin {"clean", "declared_safe"}
    <3>1. Len(backend.ledger) = 2
      BY <2>1, <2>3
    <3>2. Fault \in Lost \cup {"double_402"}
      BY <1>1, <2>3, FaultCases
    <3> QED BY <3>1, <3>2
  <2> QED BY <2>2, <2>3
<1>7. ASSUME at_call = "done"
      PROVE  VerifyVector /\ VerifyGenericVector
  <2>1. backend.kind = "generic" /\ backend.mode = "reissue_instead_of_resume" => Fault = "double_402"
    BY DEF Fault, GenericMode
  <2>2. client \in {"execute_payment", "control"}
    BY DEF RetryInv
  <2> QED BY <1>5, <1>6, <1>7, <2>1, <2>2 DEF VerifyVector, VerifyGenericVector
<1> QED BY <1>5, <1>6, <1>7 DEF SettledExactlyOnce

\* However the backend fails, execute_payment settles a key once, with the calls
\* that the vectors declare (settlement_fixture.py), whatever MAX_ROUNDS lets it
\* try and the other verifiers do.
THEOREM SettledExactlyOnceHolds == Spec => []SettledExactlyOnce
<1>1. Init => RetryInv
  BY RetryInitInv DEF Init
<1>2. RetryInv /\ [Next]_verifierVars => RetryInv'
  <2> SUFFICES ASSUME RetryInv, [Next]_verifierVars PROVE RetryInv'
    OBVIOUS
  <2>1. CASE RetryNext
    BY <2>1, RetryNextInv
  <2>2. CASE UNCHANGED retryVars
    BY <2>2, RetryFrame
  <2>3. RetryNext \/ UNCHANGED retryVars
    BY DEF Next, verifierVars
  <2> QED BY <2>1, <2>2, <2>3
<1> QED BY <1>1, <1>2, RetryInvImplies, PTL DEF Spec

-----------------------------------------------------------------------------
(* execution-join                                                            *)

\* The names of the invariants, none of which is a sentinel.
InvariantNames ==
  {"canonical_envelope", "chain_integrity", "proof_binding", "effective_call_binding", "post_commit_consistency"}

\* Only these are recomputed, and not the registry's.
LEMMA RecomputableNames ==
  ASSUME NEW r
  PROVE  /\ Recomputable(r) \subseteq InvariantNames
         /\ {"unique", "none", "VERIFIER_OFFLINE", "UNSUPPORTED_CANONICAL_PROFILE"} \cap InvariantNames = {}
         /\ DOMAIN Computed(r) = Recomputable(r)
BY DEF Recomputable, InvariantNames, Computed

\* The invariants a record makes false.
Falsified(r) == False(Computed(r))

\* ... one by one.
LEMMA FalsifiedIs ==
  ASSUME NEW r
  PROVE  /\ "canonical_envelope" \in Falsified(r) <=>
              (HasDecision(r) \/ HasResult(r) \/ HasProof(r) \/ HasObservation(r)) /\ ~CanonicalOk(r)
         /\ "chain_integrity" \in Falsified(r) <=> (HasDecision(r) \/ HasResult(r)) /\ ~ChainOk(r)
         /\ "proof_binding" \in Falsified(r) <=> HasProof(r) /\ r.proof # "bound"
         /\ "effective_call_binding" \in Falsified(r) <=> (HasDecision(r) \/ r.eff # "none") /\ ~EffectiveCallOk(r)
         /\ "post_commit_consistency" \in Falsified(r) <=> HasObservation(r) /\ ~PostCommitOk(r)
         /\ Falsified(r) \subseteq InvariantNames
<1>1. \A k : k \in Falsified(r) <=> k \in Recomputable(r) /\ ~Computed(r)[k]
  BY RecomputableNames DEF Falsified, False
<1>2. "canonical_envelope" \in Falsified(r) <=>
        (HasDecision(r) \/ HasResult(r) \/ HasProof(r) \/ HasObservation(r)) /\ ~CanonicalOk(r)
  <2>1. "canonical_envelope" \in Recomputable(r) <=>
          (HasDecision(r) \/ HasResult(r) \/ HasProof(r) \/ HasObservation(r))
    BY DEF Recomputable
  <2>2. "canonical_envelope" \in Recomputable(r) => Computed(r)["canonical_envelope"] = CanonicalOk(r)
    BY DEF Computed
  <2> QED BY <1>1, <2>1, <2>2
<1>3. "chain_integrity" \in Falsified(r) <=> (HasDecision(r) \/ HasResult(r)) /\ ~ChainOk(r)
  <2>1. "chain_integrity" \in Recomputable(r) <=> HasDecision(r) \/ HasResult(r)
    BY DEF Recomputable
  <2>2. "chain_integrity" \in Recomputable(r) => Computed(r)["chain_integrity"] = ChainOk(r)
    BY DEF Computed
  <2> QED BY <1>1, <2>1, <2>2
<1>4. "proof_binding" \in Falsified(r) <=> HasProof(r) /\ r.proof # "bound"
  <2>1. "proof_binding" \in Recomputable(r) <=> HasProof(r)
    BY DEF Recomputable
  <2>2. "proof_binding" \in Recomputable(r) => Computed(r)["proof_binding"] = (r.proof = "bound")
    BY DEF Computed
  <2> QED BY <1>1, <2>1, <2>2
<1>5. "effective_call_binding" \in Falsified(r) <=> (HasDecision(r) \/ r.eff # "none") /\ ~EffectiveCallOk(r)
  <2>1. "effective_call_binding" \in Recomputable(r) <=> HasDecision(r) \/ r.eff # "none"
    BY DEF Recomputable
  <2>2. "effective_call_binding" \in Recomputable(r) => Computed(r)["effective_call_binding"] = EffectiveCallOk(r)
    BY DEF Computed
  <2> QED BY <1>1, <2>1, <2>2
<1>6. "post_commit_consistency" \in Falsified(r) <=> HasObservation(r) /\ ~PostCommitOk(r)
  <2>1. "post_commit_consistency" \in Recomputable(r) <=> HasObservation(r)
    BY DEF Recomputable
  <2>2. "post_commit_consistency" \in Recomputable(r) => Computed(r)["post_commit_consistency"] = PostCommitOk(r)
    BY DEF Computed
  <2> QED BY <1>1, <2>1, <2>2
<1>7. Falsified(r) \subseteq InvariantNames
  BY <1>1, RecomputableNames
<1> QED BY <1>2, <1>3, <1>4, <1>5, <1>6, <1>7

\* Two records with one falsified invariant are broken in the same way.
LEMMA BrokenAlike ==
  ASSUME NEW r, NEW q, RecordFits(r), RecordFits(q), NEW k, k \in Falsified(r), k \in Falsified(q)
  PROVE  Broken(r) \cap Broken(q) # {}
<1>1. k \in InvariantNames
  BY FalsifiedIs
<1>2. CASE k = "canonical_envelope"
  <2>1. "digest" \in Broken(r) /\ "digest" \in Broken(q)
    BY <1>2, FalsifiedIs DEF Broken
  <2> QED BY <2>1
<1>3. CASE k = "chain_integrity"
  <2>1. "decision_or_result" \in Broken(r) /\ "decision_or_result" \in Broken(q)
    BY <1>3, FalsifiedIs DEF Broken
  <2> QED BY <2>1
<1>4. CASE k = "proof_binding"
  <2>1. HasProof(r) /\ r.proof # "bound" /\ HasProof(q) /\ q.proof # "bound"
    BY <1>4, FalsifiedIs
  <2>2. r.proof = "unbound" /\ q.proof = "unbound"
    BY <2>1 DEF RecordFits, HasProof
  <2>3. "proof" \in Broken(r) /\ "proof" \in Broken(q)
    BY <2>1, <2>2 DEF Broken
  <2> QED BY <2>3
<1>5. CASE k = "effective_call_binding"
  <2>1. "dispatch" \in Broken(r) /\ "dispatch" \in Broken(q)
    BY <1>5, FalsifiedIs DEF Broken
  <2> QED BY <2>1
<1>6. CASE k = "post_commit_consistency"
  <2>1. "observation" \in Broken(r) /\ "observation" \in Broken(q)
    BY <1>6, FalsifiedIs DEF Broken
  <2> QED BY <2>1
<1> QED BY <1>1, <1>2, <1>3, <1>4, <1>5, <1>6 DEF InvariantNames

\* A record with nothing falsified and a free registry has nothing wrong, or has
\* nothing to recompute from.
LEMMA NothingBroken ==
  ASSUME NEW r, RecordFits(r), Falsified(r) = {}, r.unique, ~UnsupportedProfile(r)
  PROVE  Broken(r) \ {"offline"} = {}
<1>1. ~(HasProof(r) /\ r.proof = "unbound")
  BY FalsifiedIs
<1>2. CanonicalOk(r)
  <2>1. CASE HasDecision(r) \/ HasResult(r) \/ HasProof(r) \/ HasObservation(r)
    BY <2>1, FalsifiedIs
  <2>2. CASE ~(HasDecision(r) \/ HasResult(r) \/ HasProof(r) \/ HasObservation(r))
    BY <2>2 DEF CanonicalOk, Malformed
  <2> QED BY <2>1, <2>2
<1>3. ChainOk(r)
  <2>1. CASE HasDecision(r) \/ HasResult(r)
    BY <2>1, FalsifiedIs
  <2>2. CASE ~(HasDecision(r) \/ HasResult(r))
    BY <2>2 DEF ChainOk
  <2> QED BY <2>1, <2>2
<1>4. ~((HasDecision(r) \/ r.eff # "none") /\ ~EffectiveCallOk(r)) /\ ~(HasObservation(r) /\ ~PostCommitOk(r))
  BY FalsifiedIs
<1> QED BY <1>1, <1>2, <1>3, <1>4 DEF Broken

\* What verify_vector fails for, by the three ways out of it.
LEMMA FailuresIs ==
  ASSUME NEW r, NEW declared, NEW mode
  PROVE  /\ Offline(r, mode) => JoinFailures(r, declared, mode) = {"VERIFIER_OFFLINE"}
         /\ ~Offline(r, mode) /\ UnsupportedProfile(r) =>
              JoinFailures(r, declared, mode) = {"UNSUPPORTED_CANONICAL_PROFILE"}
         /\ ~Offline(r, mode) /\ ~UnsupportedProfile(r) =>
              JoinFailures(r, declared, mode) =
                Falsified(r) \cup {k \in Recomputable(r) \cap DOMAIN declared : declared[k] # Computed(r)[k]}
                             \cup (False(declared) \cap {"unique"})
BY RecomputableNames DEF JoinFailures, Falsified

\* A fixture as it was authored.
LEMMA AuthoredIs ==
  ASSUME NEW r
  PROVE  /\ Authored(r).record = r
         /\ Authored(r).mode = IF ~r.supplied /\ r.unique THEN "VERIFIER_OFFLINE"
                               ELSE IF UnsupportedProfile(r) THEN "UNSUPPORTED_CANONICAL_PROFILE" ELSE "none"
         /\ Authored(r).mode # "none" => Authored(r).checks = <<>>
         /\ Authored(r).mode = "none" =>
              Authored(r).checks =
                [k \in {"unique"} \cup Recomputable(r) |-> IF k = "unique" THEN r.unique ELSE Computed(r)[k]]
         /\ Authored(r).expected =
              IF JoinFailures(r, Authored(r).checks, Authored(r).mode) = {} THEN "PASS" ELSE "FAIL"
BY DEF Authored

\* What it declares false is what its record falsified, and the registry.
LEMMA DeclaredFalse ==
  ASSUME NEW r, NEW v, v = Authored(r)
  PROVE  /\ v.mode # "none" => False(v.checks) = {} /\ DOMAIN v.checks = {}
         /\ v.mode = "none" =>
              /\ \A k : k # "unique" => (k \in False(v.checks) <=> k \in Falsified(r))
              /\ "unique" \in False(v.checks) <=> ~r.unique
              /\ \A k \in Recomputable(r) : v.checks[k] = Computed(r)[k]
<1>1. ASSUME v.mode # "none"
      PROVE  False(v.checks) = {} /\ DOMAIN v.checks = {}
  <2>1. v.checks = <<>>
    BY <1>1, AuthoredIs
  <2> QED BY <2>1 DEF False
<1>2. ASSUME v.mode = "none"
      PROVE  /\ \A k : k # "unique" => (k \in False(v.checks) <=> k \in Falsified(r))
             /\ "unique" \in False(v.checks) <=> ~r.unique
             /\ \A k \in Recomputable(r) : v.checks[k] = Computed(r)[k]
  <2>1. PICK f : f = v.checks
    OBVIOUS
  <2>2. f = [k \in {"unique"} \cup Recomputable(r) |-> IF k = "unique" THEN r.unique ELSE Computed(r)[k]]
    BY <1>2, <2>1, AuthoredIs
  <2>3. DOMAIN f = {"unique"} \cup Recomputable(r) /\ f["unique"] = r.unique
    BY <2>2
  <2>4. "unique" \notin Recomputable(r)
    BY RecomputableNames
  <2>5. \A k \in Recomputable(r) : f[k] = Computed(r)[k]
    BY <2>2, <2>4
  <2>6. \A k : k \in False(f) <=> k \in DOMAIN f /\ ~f[k]
    BY DEF False
  <2>7. \A k : k \in Falsified(r) <=> k \in Recomputable(r) /\ ~Computed(r)[k]
    BY RecomputableNames DEF Falsified, False
  <2>8. \A k : k # "unique" => (k \in False(f) <=> k \in Falsified(r))
    BY <2>3, <2>5, <2>6, <2>7
  <2>9. "unique" \in False(f) <=> ~r.unique
    BY <2>3, <2>6
  <2> QED BY <2>1, <2>5, <2>8, <2>9
<1> QED BY <1>1, <1>2

\* A vector authored to halt is rejected while the verifier still halts so.
LEMMA HaltConfirmed ==
  ASSUME NEW r, NEW v, v = Authored(r), v.mode # "none", NEW q, RunnerOk(v, q)
  PROVE  /\ v.expected = "FAIL"
         /\ \/ ~r.supplied /\ ~q.supplied
            \/ UnsupportedProfile(r) /\ UnsupportedProfile(q)
<1>1. False(v.checks) = {}
  BY DeclaredFalse
<1>2. \/ v.mode = "VERIFIER_OFFLINE" /\ ~r.supplied
      \/ v.mode = "UNSUPPORTED_CANONICAL_PROFILE" /\ UnsupportedProfile(r)
  BY AuthoredIs
<1>3. JoinFailures(r, v.checks, v.mode) # {}
  BY <1>2, FailuresIs DEF Offline
<1>4. v.expected = "FAIL"
  BY <1>3, AuthoredIs
<1>5. v.mode \in JoinFailures(q, v.checks, v.mode)
  BY <1>1, <1>4 DEF RunnerOk, ExpectedReasonConfirmed
<1>6. CASE Offline(q, v.mode)
  <2>1. ~q.supplied /\ v.mode = "VERIFIER_OFFLINE"
    BY <1>6 DEF Offline
  <2> QED BY <1>2, <1>4, <2>1
<1>7. CASE ~Offline(q, v.mode) /\ UnsupportedProfile(q)
  <2>1. v.mode = "UNSUPPORTED_CANONICAL_PROFILE"
    BY <1>5, <1>7, FailuresIs
  <2> QED BY <1>2, <1>4, <1>7, <2>1
<1>8. CASE ~Offline(q, v.mode) /\ ~UnsupportedProfile(q)
  <2>1. v.mode \in Falsified(q) \cup Recomputable(q) \cup {"unique"}
    BY <1>5, <1>8, FailuresIs
  <2>2. v.mode \in InvariantNames \cup {"unique"}
    BY <2>1, FalsifiedIs, RecomputableNames
  <2> QED BY <1>2, <2>2, RecomputableNames
<1> QED BY <1>6, <1>7, <1>8

\* _expected_reason_confirmed of a vector authored to fail: a reason it still has.
LEMMA FailStillBroken ==
  ASSUME NEW r, NEW v, v = Authored(r), NEW q, RecordFits(r), RecordFits(q), q.unique = r.unique,
         v.expected = "FAIL", RunnerOk(v, q)
  PROVE  Broken(r) \cap Broken(q) # {}
<1>1. CASE v.mode # "none"
  <2>1. CASE ~r.supplied /\ ~q.supplied
    <3>1. "offline" \in Broken(r) /\ "offline" \in Broken(q)
      BY <2>1 DEF Broken
    <3> QED BY <3>1
  <2>2. CASE UnsupportedProfile(r) /\ UnsupportedProfile(q)
    <3>1. "profile" \in Broken(r) /\ "profile" \in Broken(q)
      BY <2>2 DEF Broken
    <3> QED BY <3>1
  <2> QED BY <1>1, <2>1, <2>2, HaltConfirmed
<1>2. CASE v.mode = "none"
  <2>1. ExpectedReasonConfirmed(q, v.checks, v.mode)
    BY DEF RunnerOk
  <2>2. False(v.checks) # {}
    <3>1. ASSUME False(v.checks) = {} PROVE FALSE
      <4>1. "none" \in JoinFailures(q, v.checks, v.mode)
        BY <1>2, <2>1, <3>1 DEF ExpectedReasonConfirmed
      <4>2. "none" \in Falsified(q) \cup Recomputable(q) \cup {"unique"}
        BY <4>1, FailuresIs
      <4> QED BY <4>2, FalsifiedIs, RecomputableNames
    <3> QED BY <3>1
  <2>3. PICK k : k \in ConfirmedBy(q, v.checks, v.mode)
    BY <2>1, <2>2 DEF ExpectedReasonConfirmed
  <2>4. CASE k = "unique"
    <3>1. "unique" \in False(v.checks)
      BY <2>3, <2>4 DEF ConfirmedBy
    <3>2. ~r.unique /\ ~q.unique
      BY <1>2, <3>1, DeclaredFalse
    <3>3. "registry" \in Broken(r) /\ "registry" \in Broken(q)
      BY <3>2 DEF Broken
    <3> QED BY <3>3
  <2>5. CASE k # "unique"
    <3>1. k \in False(v.checks) /\ k \in Falsified(q)
      BY <2>3, <2>5 DEF ConfirmedBy, Falsified
    <3>2. k \in Falsified(r)
      BY <1>2, <2>5, <3>1, DeclaredFalse
    <3> QED BY <3>1, <3>2, BrokenAlike
  <2> QED BY <2>4, <2>5
<1> QED BY <1>1, <1>2

\* A vector authored to pass passes only with nothing wrong.
LEMMA PassIsWhole ==
  ASSUME NEW r, NEW v, v = Authored(r), NEW q, RecordFits(q), q.unique = r.unique,
         v.expected = "PASS", RunnerOk(v, q)
  PROVE  Broken(q) \ {"offline"} = {}
<1>1. v.mode = "none"
  BY HaltConfirmed
<1>2. JoinFailures(q, v.checks, v.mode) = {}
  BY DEF RunnerOk
<1>3. ~Offline(q, v.mode) /\ ~UnsupportedProfile(q)
  BY <1>2, FailuresIs
<1>4. Falsified(q) = {} /\ "unique" \notin False(v.checks)
  BY <1>2, <1>3, FailuresIs
<1>5. q.unique
  BY <1>1, <1>4, DeclaredFalse DEF RecordFits
<1> QED BY <1>3, <1>4, <1>5, NothingBroken

\* A fixture as authored is reported as expected.
LEMMA UneditedReported ==
  ASSUME NEW r, NEW v, v = Authored(r)
  PROVE  RunnerOk(v, r)
<1>1. v.expected = IF JoinFailures(r, v.checks, v.mode) = {} THEN "PASS" ELSE "FAIL"
  BY AuthoredIs
<1>2. CASE JoinFailures(r, v.checks, v.mode) = {}
  BY <1>1, <1>2 DEF RunnerOk
<1>3. CASE JoinFailures(r, v.checks, v.mode) # {}
  <2> SUFFICES ExpectedReasonConfirmed(r, v.checks, v.mode)
    BY <1>1, <1>3 DEF RunnerOk
  <2>1. CASE v.mode # "none"
    <3>1. False(v.checks) = {}
      BY <2>1, DeclaredFalse
    <3>2. \/ v.mode = "VERIFIER_OFFLINE" /\ Offline(r, v.mode)
          \/ v.mode = "UNSUPPORTED_CANONICAL_PROFILE" /\ UnsupportedProfile(r) /\ ~Offline(r, v.mode)
      BY <2>1, AuthoredIs DEF Offline
    <3>3. v.mode \in JoinFailures(r, v.checks, v.mode)
      BY <3>2, FailuresIs
    <3> QED BY <3>1, <3>3 DEF ExpectedReasonConfirmed
  <2>2. CASE v.mode = "none"
    <3>1. ~Offline(r, v.mode) /\ ~UnsupportedProfile(r)
      BY <2>2, AuthoredIs DEF Offline
    <3>2. {k \in Recomputable(r) \cap DOMAIN v.checks : v.checks[k] # Computed(r)[k]} = {}
      BY <2>2, DeclaredFalse
    <3>3. JoinFailures(r, v.checks, v.mode) = Falsified(r) \cup (False(v.checks) \cap {"unique"})
      BY <3>1, <3>2, FailuresIs
    <3>4. PICK k : k \in Falsified(r) \cup (False(v.checks) \cap {"unique"})
      BY <1>3, <3>3
    <3>5. CASE k = "unique"
      <4>1. "unique" \notin Falsified(r)
        BY FalsifiedIs, RecomputableNames
      <4>2. "unique" \in False(v.checks) /\ "unique" \in JoinFailures(r, v.checks, v.mode)
        BY <3>3, <3>4, <3>5, <4>1
      <4>3. "unique" \in ConfirmedBy(r, v.checks, v.mode)
        BY <4>2 DEF ConfirmedBy
      <4> QED BY <4>2, <4>3 DEF ExpectedReasonConfirmed
    <3>6. CASE k # "unique"
      <4>1. k \in Falsified(r) /\ k \in False(v.checks)
        BY <2>2, <3>4, <3>6, DeclaredFalse
      <4>2. k \in ConfirmedBy(r, v.checks, v.mode)
        BY <3>1, <3>6, <4>1 DEF ConfirmedBy, Falsified
      <4> QED BY <4>1, <4>2 DEF ExpectedReasonConfirmed
    <3> QED BY <3>5, <3>6
  <2> QED BY <2>1, <2>2
<1> QED BY <1>2, <1>3

\* A sound record, and one of its parts changed.
LEMMA SoundFits == RecordFits(Sound)
BY DEF RecordFits, Sound

\* A change of one part leaves a record.
LEMMA ChangedFits ==
  ASSUME NEW r, RecordFits(r), NEW q \in Changed(r)
  PROVE  RecordFits(q)
<1>1. PICK s, l, e, d, o, p, c, u : r = [supplied |-> s, sealed |-> l, eff |-> e, dec |-> d, res |-> o, proof |-> p,
                                         pc |-> c, unique |-> u]
                                    /\ p \in {"none", "bound", "unbound"} /\ u \in BOOLEAN
  BY DEF RecordFits
<1>2. \/ q = [r EXCEPT !.supplied = ~@] \/ q = [r EXCEPT !.sealed = ~@] \/ q = [r EXCEPT !.unique = ~@]
      \/ \E x \in {"none", "same", "rewritten"} : q = [r EXCEPT !.eff = x]
      \/ \E x : q = [r EXCEPT !.dec = x]
      \/ \E x : q = [r EXCEPT !.res = x]
      \/ \E x \in {"none", "bound", "unbound"} : q = [r EXCEPT !.proof = x]
      \/ \E x : q = [r EXCEPT !.pc = x]
  BY DEF Changed
<1>3. ASSUME NEW s2, NEW l2, NEW e2, NEW d2, NEW o2, NEW p2 \in {"none", "bound", "unbound"}, NEW c2,
             NEW u2 \in BOOLEAN,
             q = [supplied |-> s2, sealed |-> l2, eff |-> e2, dec |-> d2, res |-> o2, proof |-> p2,
                  pc |-> c2, unique |-> u2]
      PROVE  RecordFits(q)
  BY <1>3 DEF RecordFits
<1>4. CASE q = [r EXCEPT !.supplied = ~@]
  <2>1. q = [supplied |-> ~s, sealed |-> l, eff |-> e, dec |-> d, res |-> o, proof |-> p, pc |-> c, unique |-> u]
    BY <1>1, <1>4
  <2> QED BY <1>1, <1>3, <2>1
<1>5. CASE q = [r EXCEPT !.sealed = ~@]
  <2>1. q = [supplied |-> s, sealed |-> ~l, eff |-> e, dec |-> d, res |-> o, proof |-> p, pc |-> c, unique |-> u]
    BY <1>1, <1>5
  <2> QED BY <1>1, <1>3, <2>1
<1>6. CASE q = [r EXCEPT !.unique = ~@]
  <2>1. q = [supplied |-> s, sealed |-> l, eff |-> e, dec |-> d, res |-> o, proof |-> p, pc |-> c, unique |-> ~u]
    BY <1>1, <1>6
  <2> QED BY <1>1, <1>3, <2>1
<1>7. ASSUME NEW x, q = [r EXCEPT !.eff = x] PROVE RecordFits(q)
  <2>1. q = [supplied |-> s, sealed |-> l, eff |-> x, dec |-> d, res |-> o, proof |-> p, pc |-> c, unique |-> u]
    BY <1>1, <1>7
  <2> QED BY <1>1, <1>3, <2>1
<1>8. ASSUME NEW x, q = [r EXCEPT !.dec = x] PROVE RecordFits(q)
  <2>1. q = [supplied |-> s, sealed |-> l, eff |-> e, dec |-> x, res |-> o, proof |-> p, pc |-> c, unique |-> u]
    BY <1>1, <1>8
  <2> QED BY <1>1, <1>3, <2>1
<1>9. ASSUME NEW x, q = [r EXCEPT !.res = x] PROVE RecordFits(q)
  <2>1. q = [supplied |-> s, sealed |-> l, eff |-> e, dec |-> d, res |-> x, proof |-> p, pc |-> c, unique |-> u]
    BY <1>1, <1>9
  <2> QED BY <1>1, <1>3, <2>1
<1>10. ASSUME NEW x \in {"none", "bound", "unbound"}, q = [r EXCEPT !.proof = x] PROVE RecordFits(q)
  <2>1. q = [supplied |-> s, sealed |-> l, eff |-> e, dec |-> d, res |-> o, proof |-> x, pc |-> c, unique |-> u]
    BY <1>1, <1>10
  <2> QED BY <1>1, <1>3, <2>1
<1>11. ASSUME NEW x, q = [r EXCEPT !.pc = x] PROVE RecordFits(q)
  <2>1. q = [supplied |-> s, sealed |-> l, eff |-> e, dec |-> d, res |-> o, proof |-> p, pc |-> x, unique |-> u]
    BY <1>1, <1>11
  <2> QED BY <1>1, <1>3, <2>1
<1> QED BY <1>2, <1>4, <1>5, <1>6, <1>7, <1>8, <1>9, <1>10, <1>11

\* Authored keeps its record.
LEMMA AuthoredRecord == \A r : Authored(r).record = r /\ Authored(r) = Authored(Authored(r).record)
BY DEF Authored

\* The decision of map_authority_at_dispatch permits a call that was not
\* rewritten, so such a case is never mapped.
LEMMA BuiltVector == ~~Computed(BuildVector(TRUE))["effective_call_binding"]
<1>1. PICK r : r = BuildVector(TRUE)
  OBVIOUS
<1>2. r = [supplied |-> TRUE, sealed |-> TRUE, eff |-> "same", dec |-> Decision,
           res |-> "none", proof |-> "none", pc |-> "none", unique |-> TRUE]
  BY <1>1 DEF BuildVector, Sound
<1>3. HasDecision(r) /\ ~Malformed(r) /\ r.dec.outcome = "permit" /\ ~r.dec.expired /\ r.dec.names = "action"
  <2>1. Decision.names = "action" /\ Decision.complete = TRUE /\ Decision.outcome = "permit"
        /\ Decision.expired = FALSE
    BY DEF Decision
  <2>2. Decision # NoDecision
    BY <2>1 DEF NoDecision
  <2> QED BY <1>2, <2>1, <2>2 DEF HasDecision, Malformed
<1>4. EffectiveCallOk(r)
  BY <1>2, <1>3 DEF EffectiveCallOk, CanonicalOk, NamesTarget, NamesAction
<1>5. "effective_call_binding" \in Recomputable(r)
  BY <1>3 DEF Recomputable
<1>6. Computed(r)["effective_call_binding"] = EffectiveCallOk(r)
  BY <1>5 DEF Computed
<1> QED BY <1>1, <1>4, <1>6

\* Every step keeps the invariant.
LEMMA JoinNextInv ==
  ASSUME JoinInv, JoinNext
  PROVE  JoinInv'
<1>1. ASSUME NEW r, RecordFits(r), Author(r)
      PROVE  JoinInv'
  <2>1. vector' = Authored(r) /\ now' = r /\ mapping' = mapping
    BY <1>1 DEF Author
  <2>2. vector'.record = r
    BY <2>1, AuthoredRecord
  <2> QED BY <1>1, <2>1, <2>2, AuthoredRecord DEF JoinInv
<1>2. ASSUME NEW r \in Changed(now), EditVector(r)
      PROVE  JoinInv'
  <2>1. vector' = vector /\ now' = r /\ mapping' = mapping /\ r.unique = now.unique
    BY <1>2 DEF EditVector
  <2>2. RecordFits(r)
    BY <1>2, ChangedFits DEF JoinInv
  <2> QED BY <2>1, <2>2 DEF JoinInv
<1>3. ASSUME NEW intact \in BOOLEAN, NEW drifted \in BOOLEAN, NEW same \in BOOLEAN, NEW reason,
             MapDispatch(intact, drifted, reason, same)
      PROVE  JoinInv'
  <2>1. vector' = vector /\ now' = now
    BY <1>3 DEF MapDispatch
  <2>2. PICK result : /\ mapping' = [same |-> same, result |-> result]
                      /\ result \in {"problem", "not_modeled", "mapped"}
                      /\ result = "mapped" => ~Computed(BuildVector(same))["effective_call_binding"]
    BY <1>3 DEF MapDispatch
  <2>3. mapping'.result = result /\ mapping'.same = same
    BY <2>2
  <2>4. result = "mapped" => ~same
    <3>1. CASE same = TRUE
      BY <2>2, <3>1, BuiltVector
    <3>2. CASE same = FALSE
      BY <3>2
    <3> QED BY <3>1, <3>2
  <2> QED BY <2>1, <2>2, <2>3, <2>4 DEF JoinInv
<1>4. ASSUME NEW e \in CaseEInputs, CaseEVector(e)
      PROVE  JoinInv'
  <2>1. vector' = vector /\ now' = now /\ mapping' = [result |-> "case_e", e |-> e, failures |-> CaseE(e)]
    BY <1>4 DEF CaseEVector
  <2>2. mapping'.result = "case_e" /\ mapping'.e = e /\ mapping'.failures = CaseE(e)
    BY <2>1
  <2> QED BY <1>4, <2>1, <2>2 DEF JoinInv
<1>5. \A r1 \in Changed(Sound) : \A r2 \in Changed(r1) : RecordFits(r2)
  BY SoundFits, ChangedFits
<1> QED BY <1>1, <1>2, <1>3, <1>4, <1>5 DEF JoinNext

\* A step of another module leaves it.
LEMMA JoinFrame == ASSUME JoinInv, UNCHANGED joinVars PROVE JoinInv'
BY DEF JoinInv, joinVars

\* The first fixture is a sound one.
LEMMA JoinInitInv == JoinInit => JoinInv
<1> SUFFICES ASSUME JoinInit PROVE JoinInv
  OBVIOUS
<1>1. vector = Authored(Sound) /\ now = Sound /\ mapping = [result |-> "none"]
  BY DEF JoinInit
<1>2. vector.record = Sound /\ mapping.result = "none"
  BY <1>1, AuthoredRecord
<1> QED BY <1>1, <1>2, SoundFits DEF JoinInv

\* Case E accepts exactly what is sound and not declared otherwise.
LEMMA CaseEIs ==
  ASSUME NEW e \in CaseEInputs
  PROVE  CaseE(e) = {} <=> (\A k \in DOMAIN e \ {"declared"} : e[k]) /\ e.declared # "false"
<1>1. DOMAIN e = {"task", "request", "authority", "acceptance", "pc_request", "pc_hash", "declared"}
  BY DEF CaseEInputs
<1>2. (\A k \in DOMAIN e \ {"declared"} : e[k]) <=>
        e.task /\ e.request /\ e.authority /\ e.acceptance /\ e.pc_request /\ e.pc_hash
  BY <1>1
<1>3. CaseE(e) = {} <=> /\ e.task /\ e.request
                        /\ ~(e.declared # "none" /\ (e.declared = "true") # (e.task /\ e.request))
                        /\ e.authority /\ e.acceptance /\ e.pc_request /\ e.pc_hash
  BY DEF CaseE
<1>4. e.declared \in {"none", "true", "false"}
  BY DEF CaseEInputs
<1>5. ASSUME e.task, e.request
      PROVE  e.declared # "none" /\ (e.declared = "true") # (e.task /\ e.request) <=> e.declared = "false"
  BY <1>4, <1>5
<1> QED BY <1>2, <1>3, <1>5

\* The invariant says what the property asks.
LEMMA JoinInvImplies == JoinInv => RejectedForItsReason
<1> SUFFICES ASSUME JoinInv PROVE RejectedForItsReason
  OBVIOUS
<1>1. PICK r, q : r = vector.record /\ q = now
  OBVIOUS
<1>2. vector = Authored(r) /\ RecordFits(r) /\ RecordFits(q) /\ q.unique = r.unique
  BY <1>1 DEF JoinInv
<1>3. RunnerOk(vector, q) /\ vector.expected = "FAIL" => Broken(r) \cap Broken(q) # {}
  BY <1>2, FailStillBroken
<1>4. RunnerOk(vector, q) /\ vector.expected = "PASS" => Broken(q) \ {"offline"} = {}
  BY <1>2, PassIsWhole
<1>5. q = r => RunnerOk(vector, q)
  BY <1>2, UneditedReported
<1>6. mapping.result = "mapped" => ~mapping.same
  BY DEF JoinInv
<1>7. mapping.result = "case_e" =>
        (mapping.failures = {} <=>
           (\A k \in DOMAIN mapping.e \ {"declared"} : mapping.e[k]) /\ mapping.e.declared # "false")
  <2> SUFFICES ASSUME mapping.result = "case_e"
               PROVE  mapping.failures = {} <=>
                        (\A k \in DOMAIN mapping.e \ {"declared"} : mapping.e[k]) /\ mapping.e.declared # "false"
    OBVIOUS
  <2>1. PICK e : e = mapping.e
    OBVIOUS
  <2>2. e \in CaseEInputs /\ mapping.failures = CaseE(e)
    BY <2>1 DEF JoinInv
  <2> QED BY <2>1, <2>2, CaseEIs
<1> QED BY <1>1, <1>3, <1>4, <1>5, <1>6, <1>7 DEF RejectedForItsReason

\* A vector is reported as rejected only for something it was authored to fail
\* for (examples/conformance/execution-join-ref, verify_vector and the test of
\* the reason), after any number of edits to its record.
THEOREM RejectedForItsReasonHolds == Spec => []RejectedForItsReason
<1>1. Init => JoinInv
  BY JoinInitInv DEF Init
<1>2. JoinInv /\ [Next]_verifierVars => JoinInv'
  <2> SUFFICES ASSUME JoinInv, [Next]_verifierVars PROVE JoinInv'
    OBVIOUS
  <2>1. CASE JoinNext
    BY <2>1, JoinNextInv
  <2>2. CASE UNCHANGED joinVars
    BY <2>2, JoinFrame
  <2>3. JoinNext \/ UNCHANGED joinVars
    BY DEF Next, verifierVars
  <2> QED BY <2>1, <2>2, <2>3
<1> QED BY <1>1, <1>2, JoinInvImplies, PTL DEF Spec

-----------------------------------------------------------------------------
(* The delegation chains.                                                    *)

\* Every check but the keys and the registry.
HopsWhole(v) ==
  \A i \in DOMAIN v.chain.hops :
    v.chain.hops[i].sig = NoSig \/ v.chain.hops[i].sig = HopSigningPreimage(v.chain.chain_id, v.chain.hops[i])

Whole(v) == Structural(v) = {} /\ HopsWhole(v)

\* verify_hop_signature, over a chain: whose keys are missing, and what is
\* invalid when none is.
LEMMA AnswersAre ==
  ASSUME NEW v, NEW keys
  PROVE  /\ "key_unresolved" \in SignatureAnswers(v, keys) <=> ~(Delegators(v) \subseteq keys)
         /\ Delegators(v) \subseteq keys => ("invalid" \in SignatureAnswers(v, keys) <=> ~HopsWhole(v))
<1> DEFINE S == {j \in DOMAIN v.chain.hops : v.chain.hops[j].sig # NoSig}
<1> DEFINE A(i) == VerifyHopSignature(v.chain.chain_id, v.chain.hops[i], keys)
<1>1. SignatureAnswers(v, keys) = {A(i) : i \in S}
  BY DEF SignatureAnswers
<1>2. Delegators(v) = {v.chain.hops[i].delegator : i \in S}
  BY DEF Delegators
<1>3. \A i \in S : A(i) = "key_unresolved" <=> v.chain.hops[i].delegator \notin keys
  BY DEF VerifyHopSignature
<1>4. \A i \in S : v.chain.hops[i].delegator \in keys =>
        (A(i) = "invalid" <=> v.chain.hops[i].sig # HopSigningPreimage(v.chain.chain_id, v.chain.hops[i]))
  BY DEF VerifyHopSignature
<1>5. HopsWhole(v) <=> \A i \in S : v.chain.hops[i].sig = HopSigningPreimage(v.chain.chain_id, v.chain.hops[i])
  BY DEF HopsWhole
<1> HIDE DEF S, A
<1> QED BY <1>1, <1>2, <1>3, <1>4, <1>5

\* evaluate_vector passes what is whole, whose signing keys are all at hand,
\* which does not widen where that counts, and which the registry has not seen.
LEMMA PassIs ==
  ASSUME NEW v, NEW reg, NEW keys, NEW complete, NEW narrowing
  PROVE  Verdict(v, reg, keys, complete, narrowing) = "PASS" <=>
           /\ Whole(v) /\ Delegators(v) \subseteq keys
           /\ narrowing => Widening(v) = {}
           /\ ~SeenContains(reg, v)
<1> DEFINE F == Failures(v, reg, keys, complete, narrowing)
<1>1. F = {} <=> /\ Structural(v) = {}
                 /\ "invalid" \notin SignatureAnswers(v, keys)
                 /\ ~(complete /\ "key_unresolved" \in SignatureAnswers(v, keys))
                 /\ narrowing => Widening(v) = {}
                 /\ ~SeenContains(reg, v)
  <2> HIDE DEF F
  <2>1. F = Structural(v)
          \cup {x \in {"hop_signature_invalid"} : "invalid" \in SignatureAnswers(v, keys)}
          \cup {x \in {"delegator_key_not_in_complete_key_set"} : complete /\ "key_unresolved" \in SignatureAnswers(v, keys)}
          \cup (IF narrowing THEN Widening(v) ELSE {})
          \cup {x \in {"replay_detected"} : SeenContains(reg, v)}
    BY DEF F, Failures
  <2> QED BY <2>1
<1>2. Verdict(v, reg, keys, complete, narrowing) = "PASS" <=>
        F = {} /\ ~(~complete /\ "key_unresolved" \in SignatureAnswers(v, keys))
  BY DEF Verdict
<1> HIDE DEF F
<1> QED BY <1>1, <1>2, AnswersAre DEF Whole

\* NOT_ASSESSED is of incomplete keys.
LEMMA NotAssessedIs ==
  ASSUME NEW v, NEW reg, NEW keys, NEW complete, NEW narrowing,
         Verdict(v, reg, keys, complete, narrowing) = "NOT_ASSESSED"
  PROVE  ~complete /\ ~(Delegators(v) \subseteq keys)
BY AnswersAre DEF Verdict

\* The registry of what was accepted has seen what overlaps it.
LEMMA SeenIs ==
  ASSUME NEW reg, NEW accepted, NEW v,
         reg = [ids |-> {w.chain.chain_id : w \in accepted}, refs |-> UNION {Refs(w) : w \in accepted}]
  PROVE  SeenContains(reg, v) <=> \E w \in accepted : Overlap(v, w)
<1>1. reg.ids = {w.chain.chain_id : w \in accepted} /\ reg.refs = UNION {Refs(w) : w \in accepted}
  OBVIOUS
<1> QED BY <1>1 DEF SeenContains, Overlap

\* What evaluate_vector records in its SeenRegistry (delegation-chain-ref/
\* verify.py) is what it accepts, whatever is submitted: what failed or was not
\* assessed leaves no trace, and what is accepted overlaps nothing accepted.
THEOREM RecordsAccepted ==
  ASSUME NEW v, NEW keys, NEW complete, NEW narrowing,
         registry = [ids |-> {w.chain.chain_id : w \in passed}, refs |-> UNION {Refs(w) : w \in passed}],
         \A x, w \in passed : x # w => ~Overlap(x, w),
         Evaluate(v, keys, complete, narrowing)
  PROVE  /\ registry' = [ids |-> {w.chain.chain_id : w \in passed'}, refs |-> UNION {Refs(w) : w \in passed'}]
         /\ \A x, w \in passed' : x # w => ~Overlap(x, w)
         /\ passed' = IF /\ Whole(v) /\ Delegators(v) \subseteq keys
                         /\ narrowing => Widening(v) = {}
                         /\ \A w \in passed : ~Overlap(v, w)
                      THEN passed \cup {v} ELSE passed
<1> DEFINE verdict == Verdict(v, registry, keys, complete, narrowing)
<1>1. /\ registry' = IF verdict = "PASS" THEN SeenRecord(registry, v) ELSE registry
      /\ passed' = IF verdict = "PASS" THEN passed \cup {v} ELSE passed
  BY DEF Evaluate
<1>2. verdict = "PASS" <=>
        /\ Whole(v) /\ Delegators(v) \subseteq keys
        /\ narrowing => Widening(v) = {}
        /\ \A w \in passed : ~Overlap(v, w)
  BY PassIs, SeenIs
<1>3. \A x, w : Overlap(x, w) <=> Overlap(w, x)
  BY DEF Overlap
<1>4. CASE verdict = "PASS"
  <2>1. /\ {w.chain.chain_id : w \in passed \cup {v}} = registry.ids \cup {v.chain.chain_id}
        /\ UNION {Refs(w) : w \in passed \cup {v}} = registry.refs \cup Refs(v)
    <3>1. registry.ids = {w.chain.chain_id : w \in passed} /\ registry.refs = UNION {Refs(w) : w \in passed}
      OBVIOUS
    <3>2. {w.chain.chain_id : w \in passed \cup {v}} = {w.chain.chain_id : w \in passed} \cup {v.chain.chain_id}
      OBVIOUS
    <3>3. UNION {Refs(w) : w \in passed \cup {v}} = (UNION {Refs(w) : w \in passed}) \cup Refs(v)
      OBVIOUS
    <3> QED BY <3>1, <3>2, <3>3
  <2>2. SeenRecord(registry, v) = [ids |-> registry.ids \cup {v.chain.chain_id}, refs |-> registry.refs \cup Refs(v)]
    BY DEF SeenRecord
  <2> HIDE DEF verdict
  <2>3. passed' = passed \cup {v} /\ registry' = SeenRecord(registry, v)
    BY <1>1, <1>4
  <2>4. registry' = [ids |-> {w.chain.chain_id : w \in passed'}, refs |-> UNION {Refs(w) : w \in passed'}]
    BY <2>1, <2>2, <2>3
  <2> QED BY <1>2, <1>3, <1>4, <2>3, <2>4
<1>5. CASE verdict # "PASS"
  <2> HIDE DEF verdict
  <2> QED BY <1>1, <1>2, <1>5
<1> QED BY <1>4, <1>5

\* The frozen copy of the verifier passes what the reference passes with every
\* key declared, narrowing enforced and nothing seen.
LEMMA FrozenIs ==
  ASSUME NEW v, NEW keys
  PROVE  FrozenFailures(v, keys) = {} <=> Verdict(v, NoRegistry, keys, TRUE, TRUE) = "PASS"
<1>1. ~SeenContains(NoRegistry, v)
  BY DEF SeenContains, NoRegistry
<1>2. (\A i \in DOMAIN v.chain.hops : v.chain.hops[i].sig = NoSig \/ FrozenSignature(v.chain.chain_id, v.chain.hops[i], keys))
        <=> HopsWhole(v) /\ Delegators(v) \subseteq keys
  BY DEF HopsWhole, Delegators, FrozenSignature
<1>3. FrozenFailures(v, keys) = {} <=>
        /\ Structural(v) = {} /\ Widening(v) = {}
        /\ \A i \in DOMAIN v.chain.hops : v.chain.hops[i].sig = NoSig \/ FrozenSignature(v.chain.chain_id, v.chain.hops[i], keys)
  BY DEF FrozenFailures
<1> QED BY <1>1, <1>2, <1>3, PassIs DEF Whole

\* The reduced copy, where nothing is signed.
LEMMA LeafScreenIs ==
  ASSUME NEW v, Delegators(v) = {}
  PROVE  Verdict(v, NoRegistry, {}, TRUE, TRUE) = IF LeafScreenFailures(v) = {} THEN "PASS" ELSE "FAIL"
<1>1. ~SeenContains(NoRegistry, v)
  BY DEF SeenContains, NoRegistry
<1>2. HopsWhole(v)
  BY DEF HopsWhole, Delegators
<1>3. LeafScreenFailures(v) = {} <=> Structural(v) = {} /\ Widening(v) = {}
  BY DEF LeafScreenFailures
<1>4. Verdict(v, NoRegistry, {}, TRUE, TRUE) \in {"PASS", "FAIL"}
  BY DEF Verdict
<1> QED BY <1>1, <1>2, <1>3, <1>4, PassIs DEF Whole

\* A hop signed by its delegator, or left unsigned.
Kept(s, id, from, to, scope, ref) ==
  [delegator |-> from, delegatee |-> to, scope |-> scope, ref |-> ref,
   sig |-> IF s THEN <<from, id, from, to, scope, ref>> ELSE NoSig]

\* A sealed chain of whatever root.
Rooted(root, id, hops, ref) == [chain_id |-> id, root |-> root, hops |-> hops, leaf_action_ref |-> ref]

Bare(hops) == [i \in DOMAIN hops |-> [hops[i] EXCEPT !.sig = NoSig]]

\* A chain whose signatures are left out.
LEMMA BareChain ==
  ASSUME NEW root, NEW id, NEW hops, NEW ref
  PROVE  LET c == Rooted(root, id, hops, ref)
         IN [c EXCEPT !.hops = [i \in DOMAIN c.hops |-> [c.hops[i] EXCEPT !.sig = NoSig]]]
              = Rooted(root, id, Bare(hops), ref)
BY DEF Rooted, Bare

\* A submission whose signatures are left out.
LEMMA UnsignedIs ==
  ASSUME NEW root, NEW id, NEW h, NEW ref, NEW root2, NEW id2, NEW g, NEW ref2, NEW leaf
  PROVE  Unsigned([chain |-> Rooted(root, id, h, ref), dcr |-> Rooted(root2, id2, g, ref2), leaf |-> leaf]) =
           [chain |-> Rooted(root, id, Bare(h), ref), dcr |-> Rooted(root2, id2, Bare(g), ref2), leaf |-> leaf]
<1> DEFINE v == [chain |-> Rooted(root, id, h, ref), dcr |-> Rooted(root2, id2, g, ref2), leaf |-> leaf]
           bare(c) == [c EXCEPT !.hops = [i \in DOMAIN c.hops |-> [c.hops[i] EXCEPT !.sig = NoSig]]]
<1>1. Unsigned(v) = [chain |-> bare(v.chain), dcr |-> bare(v.dcr), leaf |-> v.leaf]
  BY DEF Unsigned
<1>2. v.chain = Rooted(root, id, h, ref) /\ v.dcr = Rooted(root2, id2, g, ref2) /\ v.leaf = leaf
  OBVIOUS
<1>3. bare(Rooted(root, id, h, ref)) = Rooted(root, id, Bare(h), ref)
  BY BareChain
<1>4. bare(Rooted(root2, id2, g, ref2)) = Rooted(root2, id2, Bare(g), ref2)
  BY BareChain
<1> HIDE DEF v, bare
<1>5. Unsigned(v) =
        [chain |-> Rooted(root, id, Bare(h), ref), dcr |-> Rooted(root2, id2, Bare(g), ref2), leaf |-> leaf]
  BY <1>1, <1>2, <1>3, <1>4
<1> QED BY <1>5 DEF v

\* The hops of each vector, signed or not.
O1(s) == Kept(s, "k1", "a", "b", Pay, "r1")
O2(s) == Kept(s, "k1", "b", "c", Pay, "r2")
O3(s) == Kept(s, "k1", "c", "d", Route, "r3")

\* The original's hops.
LEMMA OriginalIs ==
  /\ OriginalHops = <<O1(TRUE), O2(TRUE), O3(TRUE)>>
  /\ Bare(<<O1(TRUE), O2(TRUE), O3(TRUE)>>) = <<O1(FALSE), O2(FALSE), O3(FALSE)>>
<1>1. OriginalHops = <<O1(TRUE), O2(TRUE), O3(TRUE)>>
  BY DEF OriginalHops, O1, O2, O3, Hop, Kept, HopSigningPreimage
<1>2. Bare(<<O1(TRUE), O2(TRUE), O3(TRUE)>>) = <<O1(FALSE), O2(FALSE), O3(FALSE)>>
  BY DEF O1, O2, O3, Kept, NoSig, Bare
<1> QED BY <1>1, <1>2

\* A vector: a chain, what it was sealed as, and the action asked for.
Asked(chain, dcr, leaf) == [chain |-> chain, dcr |-> dcr, leaf |-> leaf]

\* The vectors by name.
LEMMA SignedIs ==
  /\ Signed["original"] = Edited(OriginalHops)
  /\ Signed["missing"] = Edited(<<OriginalHops[1], OriginalHops[3]>>)
  /\ Signed["substituted"] = Edited(<<OriginalHops[1], [OriginalHops[2] EXCEPT !.ref = "r9"], OriginalHops[3]>>)
  /\ Signed["misplaced"] = Edited(<<OriginalHops[1], OriginalHops[3], OriginalHops[2]>>)
  /\ Signed["retargeted"] = Submission(Chain("k1", <<OriginalHops[1], OriginalHops[2], [OriginalHops[3] EXCEPT !.delegatee = "e"]>>, Leaf("d", Route)), Leaf("d", Route))
  /\ Signed["rerooted"] = Submission([Original EXCEPT !.root = "e"], Leaf("d", Route))
  /\ Signed["broken"] = Submission(Chain("k1", <<OriginalHops[1], OriginalHops[2], Hop("k1", "x", "d", Route, "r3")>>,
                                        Leaf("d", Route)), Leaf("d", Route))
  /\ Signed["forged"] = Submission(Chain("k6", <<[Hop("k6", "a", "d", Pay, "r10") EXCEPT !.sig = <<"attacker">>]>>,
                                  Leaf("d", Pay)), Leaf("d", Pay))
  /\ Signed["widened"] = Submission(Chain("k2", <<Hop("k2", "a", "b", Pay, "r4"), Hop("k2", "b", "d", All, "r5")>>,
                                  Leaf("d", All)), Leaf("d", All))
  /\ Signed["reused"] = Submission(Chain("k3", <<Hop("k3", "a", "b", All, "r1"), Hop("k3", "b", "d", Route, "r6")>>,
                                  Leaf("d", Route)), Leaf("d", Route))
  /\ Signed["overreach"] = Submission(Chain("k4", <<Hop("k4", "a", "d", Pay, "r7")>>, Leaf("d", All)), Leaf("d", All))
  /\ Signed["otherleaf"] = Submission(Chain("k5", <<Hop("k5", "a", "d", Pay, "r8")>>, Leaf("d", Pay)), Leaf("c", Pay))
  /\ Names = {"original", "missing", "substituted", "misplaced", "retargeted", "rerooted", "broken", "forged",
              "widened", "reused", "overreach", "otherleaf"}
BY DEF Signed, Names

\* The original's hops, by name.
LEMMA HopsAre == OriginalHops[1] = O1(TRUE) /\ OriginalHops[2] = O2(TRUE) /\ OriginalHops[3] = O3(TRUE)
BY OriginalIs

\* The hops whose signature is not of what they say.
Subst(s) == [delegator |-> "b", delegatee |-> "c", scope |-> Pay, ref |-> "r9",
             sig |-> IF s THEN <<"b", "k1", "b", "c", Pay, "r2">> ELSE NoSig]
Retarg(s) == [delegator |-> "c", delegatee |-> "e", scope |-> Route, ref |-> "r3",
              sig |-> IF s THEN <<"c", "k1", "c", "d", Route, "r3">> ELSE NoSig]
Forged(s) == [delegator |-> "a", delegatee |-> "d", scope |-> Pay, ref |-> "r10",
              sig |-> IF s THEN <<"attacker">> ELSE NoSig]

\* A vector, field by field.
IdOf(n) ==
  CASE n = "forged" -> "k6" [] n = "widened" -> "k2" [] n = "reused" -> "k3" [] n = "overreach" -> "k4"
    [] n = "otherleaf" -> "k5" [] OTHER -> "k1"
RootOf(n) == IF n = "rerooted" THEN "e" ELSE "a"
SealedLeaf(n) ==
  CASE n \in {"forged", "otherleaf"} -> Leaf("d", Pay) [] n \in {"widened", "overreach"} -> Leaf("d", All)
    [] OTHER -> Leaf("d", Route)
AskedLeaf(n) == IF n = "otherleaf" THEN Leaf("c", Pay) ELSE SealedLeaf(n)
HopsOf(n, s) ==
  CASE n \in {"original", "rerooted"} -> <<O1(s), O2(s), O3(s)>>
    [] n = "missing" -> <<O1(s), O3(s)>>
    [] n = "substituted" -> <<O1(s), Subst(s), O3(s)>>
    [] n = "misplaced" -> <<O1(s), O3(s), O2(s)>>
    [] n = "retargeted" -> <<O1(s), O2(s), Retarg(s)>>
    [] n = "broken" -> <<O1(s), O2(s), Kept(s, "k1", "x", "d", Route, "r3")>>
    [] n = "forged" -> <<Forged(s)>>
    [] n = "widened" -> <<Kept(s, "k2", "a", "b", Pay, "r4"), Kept(s, "k2", "b", "d", All, "r5")>>
    [] n = "reused" -> <<Kept(s, "k3", "a", "b", All, "r1"), Kept(s, "k3", "b", "d", Route, "r6")>>
    [] n = "overreach" -> <<Kept(s, "k4", "a", "d", Pay, "r7")>>
    [] n = "otherleaf" -> <<Kept(s, "k5", "a", "d", Pay, "r8")>>
SealedHops(n, s) ==
  IF n \in {"missing", "substituted", "misplaced"} THEN <<O1(s), O2(s), O3(s)>> ELSE HopsOf(n, s)
WrittenOut(n, s) ==
  Asked(Rooted(RootOf(n), IdOf(n), HopsOf(n, s), SealedLeaf(n)),
        Rooted(RootOf(n), IdOf(n), SealedHops(n, s), SealedLeaf(n)), AskedLeaf(n))

\* The sealed chains of the builders have the root "a".
LEMMA ChainIs == \A id, hops, ref : Chain(id, hops, ref) = Rooted("a", id, hops, ref)
BY DEF Chain, Rooted

\* The vectors as the builders sign them.
LEMMA WrittenSigned == \A n \in Names : Signed[n] = WrittenOut(n, TRUE)
<1>0. Original = Rooted("a", "k1", <<O1(TRUE), O2(TRUE), O3(TRUE)>>, Leaf("d", Route))
  BY OriginalIs, ChainIs DEF Original
<1> USE DEF IdOf, RootOf, SealedLeaf, AskedLeaf, HopsOf, SealedHops
<1>1. Signed["original"] = WrittenOut("original", TRUE)
  BY <1>0, SignedIs, OriginalIs, ChainIs DEF WrittenOut, Edited, Asked
<1>2. Signed["missing"] = WrittenOut("missing", TRUE)
  BY <1>0, SignedIs, HopsAre, ChainIs DEF WrittenOut, Edited, Asked
<1>3. Signed["substituted"] = WrittenOut("substituted", TRUE)
  <2>1. [O2(TRUE) EXCEPT !.ref = "r9"] = Subst(TRUE)
    BY DEF O2, Kept, Subst
  <2> QED BY <1>0, <2>1, SignedIs, HopsAre, ChainIs DEF WrittenOut, Edited, Asked
<1>4. Signed["misplaced"] = WrittenOut("misplaced", TRUE)
  BY <1>0, SignedIs, HopsAre, ChainIs DEF WrittenOut, Edited, Asked
<1>5. Signed["retargeted"] = WrittenOut("retargeted", TRUE)
  <2>1. [O3(TRUE) EXCEPT !.delegatee = "e"] = Retarg(TRUE)
    BY DEF O3, Kept, Retarg
  <2>2. HopsOf("retargeted", TRUE) = <<O1(TRUE), O2(TRUE), Retarg(TRUE)>>
    OBVIOUS
  <2>3. SealedHops("retargeted", TRUE) = HopsOf("retargeted", TRUE)
    BY DEF SealedHops
  <2>4. Signed["retargeted"] = Submission(Chain("k1", <<O1(TRUE), O2(TRUE), Retarg(TRUE)>>, Leaf("d", Route)), Leaf("d", Route))
    BY ONLY <2>1, SignedIs, HopsAre
  <2> HIDE DEF HopsOf, SealedHops
  <2> QED BY ONLY <2>2, <2>3, <2>4, ChainIs DEF WrittenOut, Submission, Asked, RootOf, IdOf, SealedLeaf, AskedLeaf
<1>6. Signed["rerooted"] = WrittenOut("rerooted", TRUE)
  <2>1. [Original EXCEPT !.root = "e"] = Rooted("e", "k1", <<O1(TRUE), O2(TRUE), O3(TRUE)>>, Leaf("d", Route))
    <3>1. \A h, x : [[chain_id |-> "k1", root |-> "a", hops |-> h, leaf_action_ref |-> x] EXCEPT !.root = "e"]
                     = [chain_id |-> "k1", root |-> "e", hops |-> h, leaf_action_ref |-> x]
      OBVIOUS
    <3> QED BY <1>0, <3>1 DEF Rooted
  <2> QED BY <1>0, <2>1, SignedIs DEF WrittenOut, Submission, Asked
<1>7. Signed["broken"] = WrittenOut("broken", TRUE)
  <2>1. Hop("k1", "x", "d", Route, "r3") = Kept(TRUE, "k1", "x", "d", Route, "r3")
    BY DEF Hop, Kept, HopSigningPreimage
  <2> QED BY <2>1, SignedIs, HopsAre, ChainIs DEF WrittenOut, Submission, Asked
<1>8. Signed["forged"] = WrittenOut("forged", TRUE)
  <2>1. [Hop("k6", "a", "d", Pay, "r10") EXCEPT !.sig = <<"attacker">>] = Forged(TRUE)
    <3>1. Hop("k6", "a", "d", Pay, "r10") = Kept(TRUE, "k6", "a", "d", Pay, "r10")
      BY DEF Hop, Kept, HopSigningPreimage
    <3>2. [Kept(TRUE, "k6", "a", "d", Pay, "r10") EXCEPT !.sig = <<"attacker">>] = Forged(TRUE)
      BY DEF Kept, Forged
    <3> QED BY <3>1, <3>2
  <2> QED BY <2>1, SignedIs, ChainIs DEF WrittenOut, Submission, Asked
<1>9. Signed["widened"] = WrittenOut("widened", TRUE)
  <2>1. /\ Hop("k2", "a", "b", Pay, "r4") = Kept(TRUE, "k2", "a", "b", Pay, "r4")
        /\ Hop("k2", "b", "d", All, "r5") = Kept(TRUE, "k2", "b", "d", All, "r5")
    BY DEF Hop, Kept, HopSigningPreimage
  <2> QED BY <2>1, SignedIs, ChainIs DEF WrittenOut, Submission, Asked
<1>10. Signed["reused"] = WrittenOut("reused", TRUE)
  <2>1. /\ Hop("k3", "a", "b", All, "r1") = Kept(TRUE, "k3", "a", "b", All, "r1")
        /\ Hop("k3", "b", "d", Route, "r6") = Kept(TRUE, "k3", "b", "d", Route, "r6")
    BY DEF Hop, Kept, HopSigningPreimage
  <2> QED BY <2>1, SignedIs, ChainIs DEF WrittenOut, Submission, Asked
<1>11. Signed["overreach"] = WrittenOut("overreach", TRUE)
  <2>1. Hop("k4", "a", "d", Pay, "r7") = Kept(TRUE, "k4", "a", "d", Pay, "r7")
    BY DEF Hop, Kept, HopSigningPreimage
  <2> QED BY <2>1, SignedIs, ChainIs DEF WrittenOut, Submission, Asked
<1>12. Signed["otherleaf"] = WrittenOut("otherleaf", TRUE)
  <2>1. Hop("k5", "a", "d", Pay, "r8") = Kept(TRUE, "k5", "a", "d", Pay, "r8")
    BY DEF Hop, Kept, HopSigningPreimage
  <2> QED BY <2>1, SignedIs, ChainIs DEF WrittenOut, Submission, Asked
<1> QED BY <1>1, <1>2, <1>3, <1>4, <1>5, <1>6, <1>7, <1>8, <1>9, <1>10, <1>11, <1>12, SignedIs

\* The hops without their signatures.
LEMMA BareHops ==
  /\ \A a, b, c : Bare(<<a, b, c>>) = <<[a EXCEPT !.sig = NoSig], [b EXCEPT !.sig = NoSig], [c EXCEPT !.sig = NoSig]>>
  /\ \A a, b : Bare(<<a, b>>) = <<[a EXCEPT !.sig = NoSig], [b EXCEPT !.sig = NoSig]>>
  /\ \A a : Bare(<<a>>) = <<[a EXCEPT !.sig = NoSig]>>
BY DEF Bare

\* Each hop without its signature.
LEMMA BareHop ==
  /\ [O1(TRUE) EXCEPT !.sig = NoSig] = O1(FALSE)
  /\ [O2(TRUE) EXCEPT !.sig = NoSig] = O2(FALSE)
  /\ [O3(TRUE) EXCEPT !.sig = NoSig] = O3(FALSE)
  /\ [Subst(TRUE) EXCEPT !.sig = NoSig] = Subst(FALSE)
  /\ [Retarg(TRUE) EXCEPT !.sig = NoSig] = Retarg(FALSE)
  /\ [Forged(TRUE) EXCEPT !.sig = NoSig] = Forged(FALSE)
  /\ \A id, from, to, scope, ref :
       [Kept(TRUE, id, from, to, scope, ref) EXCEPT !.sig = NoSig] = Kept(FALSE, id, from, to, scope, ref)
BY DEF O1, O2, O3, Subst, Retarg, Forged, Kept

\* UnsignedIs, of any parts.
LEMMA BareAsked ==
  \A root, id, h, ref, root2, id2, g, ref2, leaf :
    Unsigned(Asked(Rooted(root, id, h, ref), Rooted(root2, id2, g, ref2), leaf)) =
      Asked(Rooted(root, id, Bare(h), ref), Rooted(root2, id2, Bare(g), ref2), leaf)
BY UnsignedIs DEF Asked

\* The hops of each vector without their signatures.
LEMMA HopsBare == \A n \in Names : Bare(HopsOf(n, TRUE)) = HopsOf(n, FALSE)
<1>1. Bare(HopsOf("original", TRUE)) = HopsOf("original", FALSE)
  <2>1. HopsOf("original", TRUE) = <<O1(TRUE), O2(TRUE), O3(TRUE)>>
    BY DEF HopsOf
  <2>2. HopsOf("original", FALSE) = <<O1(FALSE), O2(FALSE), O3(FALSE)>>
    BY DEF HopsOf
  <2>3. Bare(<<O1(TRUE), O2(TRUE), O3(TRUE)>>) = <<O1(FALSE), O2(FALSE), O3(FALSE)>>
    BY DEF Bare, O1, O2, O3, Subst, Retarg, Forged, Kept, NoSig
  <2> QED BY <2>1, <2>2, <2>3
<1>2. Bare(HopsOf("missing", TRUE)) = HopsOf("missing", FALSE)
  <2>1. HopsOf("missing", TRUE) = <<O1(TRUE), O3(TRUE)>>
    BY DEF HopsOf
  <2>2. HopsOf("missing", FALSE) = <<O1(FALSE), O3(FALSE)>>
    BY DEF HopsOf
  <2>3. Bare(<<O1(TRUE), O3(TRUE)>>) = <<O1(FALSE), O3(FALSE)>>
    BY DEF Bare, O1, O2, O3, Subst, Retarg, Forged, Kept, NoSig
  <2> QED BY <2>1, <2>2, <2>3
<1>3. Bare(HopsOf("substituted", TRUE)) = HopsOf("substituted", FALSE)
  <2>1. HopsOf("substituted", TRUE) = <<O1(TRUE), Subst(TRUE), O3(TRUE)>>
    BY DEF HopsOf
  <2>2. HopsOf("substituted", FALSE) = <<O1(FALSE), Subst(FALSE), O3(FALSE)>>
    BY DEF HopsOf
  <2>3. Bare(<<O1(TRUE), Subst(TRUE), O3(TRUE)>>) = <<O1(FALSE), Subst(FALSE), O3(FALSE)>>
    <3>1. PICK a, b, c, x, y, z :
            /\ a = O1(TRUE) /\ b = Subst(TRUE) /\ c = O3(TRUE)
            /\ x = O1(FALSE) /\ y = Subst(FALSE) /\ z = O3(FALSE)
      OBVIOUS
    <3>2. [a EXCEPT !.sig = NoSig] = x /\ [b EXCEPT !.sig = NoSig] = y /\ [c EXCEPT !.sig = NoSig] = z
      BY <3>1, BareHop
    <3>3. Bare(<<a, b, c>>) = <<[a EXCEPT !.sig = NoSig], [b EXCEPT !.sig = NoSig], [c EXCEPT !.sig = NoSig]>>
      BY ONLY BareHops
    <3>4. Bare(<<a, b, c>>) = <<x, y, z>>
      BY ONLY <3>2, <3>3
    <3> QED BY ONLY <3>1, <3>4
  <2> QED BY <2>1, <2>2, <2>3
<1>4. Bare(HopsOf("misplaced", TRUE)) = HopsOf("misplaced", FALSE)
  <2>1. HopsOf("misplaced", TRUE) = <<O1(TRUE), O3(TRUE), O2(TRUE)>>
    BY DEF HopsOf
  <2>2. HopsOf("misplaced", FALSE) = <<O1(FALSE), O3(FALSE), O2(FALSE)>>
    BY DEF HopsOf
  <2>3. Bare(<<O1(TRUE), O3(TRUE), O2(TRUE)>>) = <<O1(FALSE), O3(FALSE), O2(FALSE)>>
    BY SMTT(60) DEF Bare, O1, O2, O3, Kept, NoSig
  <2> QED BY <2>1, <2>2, <2>3
<1>5. Bare(HopsOf("retargeted", TRUE)) = HopsOf("retargeted", FALSE)
  <2>1. HopsOf("retargeted", TRUE) = <<O1(TRUE), O2(TRUE), Retarg(TRUE)>>
    BY DEF HopsOf
  <2>2. HopsOf("retargeted", FALSE) = <<O1(FALSE), O2(FALSE), Retarg(FALSE)>>
    BY DEF HopsOf
  <2>3. Bare(<<O1(TRUE), O2(TRUE), Retarg(TRUE)>>) = <<O1(FALSE), O2(FALSE), Retarg(FALSE)>>
    <3>1. PICK a, b, c, x, y, z :
            /\ a = O1(TRUE) /\ b = O2(TRUE) /\ c = Retarg(TRUE)
            /\ x = O1(FALSE) /\ y = O2(FALSE) /\ z = Retarg(FALSE)
      OBVIOUS
    <3>2. [a EXCEPT !.sig = NoSig] = x /\ [b EXCEPT !.sig = NoSig] = y /\ [c EXCEPT !.sig = NoSig] = z
      BY <3>1, BareHop
    <3>3. Bare(<<a, b, c>>) = <<[a EXCEPT !.sig = NoSig], [b EXCEPT !.sig = NoSig], [c EXCEPT !.sig = NoSig]>>
      BY ONLY BareHops
    <3>4. Bare(<<a, b, c>>) = <<x, y, z>>
      BY ONLY <3>2, <3>3
    <3> QED BY ONLY <3>1, <3>4
  <2> QED BY <2>1, <2>2, <2>3
<1>6. Bare(HopsOf("rerooted", TRUE)) = HopsOf("rerooted", FALSE)
  <2>1. HopsOf("rerooted", TRUE) = <<O1(TRUE), O2(TRUE), O3(TRUE)>>
    BY DEF HopsOf
  <2>2. HopsOf("rerooted", FALSE) = <<O1(FALSE), O2(FALSE), O3(FALSE)>>
    BY DEF HopsOf
  <2>3. Bare(<<O1(TRUE), O2(TRUE), O3(TRUE)>>) = <<O1(FALSE), O2(FALSE), O3(FALSE)>>
    BY DEF Bare, O1, O2, O3, Subst, Retarg, Forged, Kept, NoSig
  <2> QED BY <2>1, <2>2, <2>3
<1>7. Bare(HopsOf("broken", TRUE)) = HopsOf("broken", FALSE)
  <2>1. HopsOf("broken", TRUE) = <<O1(TRUE), O2(TRUE), Kept(TRUE, "k1", "x", "d", Route, "r3")>>
    BY DEF HopsOf
  <2>2. HopsOf("broken", FALSE) = <<O1(FALSE), O2(FALSE), Kept(FALSE, "k1", "x", "d", Route, "r3")>>
    BY DEF HopsOf
  <2>3. Bare(<<O1(TRUE), O2(TRUE), Kept(TRUE, "k1", "x", "d", Route, "r3")>>) = <<O1(FALSE), O2(FALSE), Kept(FALSE, "k1", "x", "d", Route, "r3")>>
    BY SMTT(60) DEF Bare, O1, O2, Kept, NoSig
  <2> QED BY <2>1, <2>2, <2>3
<1>8. Bare(HopsOf("forged", TRUE)) = HopsOf("forged", FALSE)
  <2>1. HopsOf("forged", TRUE) = <<Forged(TRUE)>>
    BY DEF HopsOf
  <2>2. HopsOf("forged", FALSE) = <<Forged(FALSE)>>
    BY DEF HopsOf
  <2>3. Bare(<<Forged(TRUE)>>) = <<Forged(FALSE)>>
    BY DEF Bare, O1, O2, O3, Subst, Retarg, Forged, Kept, NoSig
  <2> QED BY <2>1, <2>2, <2>3
<1>9. Bare(HopsOf("widened", TRUE)) = HopsOf("widened", FALSE)
  <2>1. HopsOf("widened", TRUE) = <<Kept(TRUE, "k2", "a", "b", Pay, "r4"), Kept(TRUE, "k2", "b", "d", All, "r5")>>
    BY DEF HopsOf
  <2>2. HopsOf("widened", FALSE) = <<Kept(FALSE, "k2", "a", "b", Pay, "r4"), Kept(FALSE, "k2", "b", "d", All, "r5")>>
    BY DEF HopsOf
  <2>3. Bare(<<Kept(TRUE, "k2", "a", "b", Pay, "r4"), Kept(TRUE, "k2", "b", "d", All, "r5")>>) = <<Kept(FALSE, "k2", "a", "b", Pay, "r4"), Kept(FALSE, "k2", "b", "d", All, "r5")>>
    BY DEF Bare, O1, O2, O3, Subst, Retarg, Forged, Kept, NoSig
  <2> QED BY <2>1, <2>2, <2>3
<1>10. Bare(HopsOf("reused", TRUE)) = HopsOf("reused", FALSE)
  <2>1. HopsOf("reused", TRUE) = <<Kept(TRUE, "k3", "a", "b", All, "r1"), Kept(TRUE, "k3", "b", "d", Route, "r6")>>
    BY DEF HopsOf
  <2>2. HopsOf("reused", FALSE) = <<Kept(FALSE, "k3", "a", "b", All, "r1"), Kept(FALSE, "k3", "b", "d", Route, "r6")>>
    BY DEF HopsOf
  <2>3. Bare(<<Kept(TRUE, "k3", "a", "b", All, "r1"), Kept(TRUE, "k3", "b", "d", Route, "r6")>>) = <<Kept(FALSE, "k3", "a", "b", All, "r1"), Kept(FALSE, "k3", "b", "d", Route, "r6")>>
    BY DEF Bare, O1, O2, O3, Subst, Retarg, Forged, Kept, NoSig
  <2> QED BY <2>1, <2>2, <2>3
<1>11. Bare(HopsOf("overreach", TRUE)) = HopsOf("overreach", FALSE)
  <2>1. HopsOf("overreach", TRUE) = <<Kept(TRUE, "k4", "a", "d", Pay, "r7")>>
    BY DEF HopsOf
  <2>2. HopsOf("overreach", FALSE) = <<Kept(FALSE, "k4", "a", "d", Pay, "r7")>>
    BY DEF HopsOf
  <2>3. Bare(<<Kept(TRUE, "k4", "a", "d", Pay, "r7")>>) = <<Kept(FALSE, "k4", "a", "d", Pay, "r7")>>
    BY DEF Bare, O1, O2, O3, Subst, Retarg, Forged, Kept, NoSig
  <2> QED BY <2>1, <2>2, <2>3
<1>12. Bare(HopsOf("otherleaf", TRUE)) = HopsOf("otherleaf", FALSE)
  <2>1. HopsOf("otherleaf", TRUE) = <<Kept(TRUE, "k5", "a", "d", Pay, "r8")>>
    BY DEF HopsOf
  <2>2. HopsOf("otherleaf", FALSE) = <<Kept(FALSE, "k5", "a", "d", Pay, "r8")>>
    BY DEF HopsOf
  <2>3. Bare(<<Kept(TRUE, "k5", "a", "d", Pay, "r8")>>) = <<Kept(FALSE, "k5", "a", "d", Pay, "r8")>>
    BY DEF Bare, O1, O2, O3, Subst, Retarg, Forged, Kept, NoSig
  <2> QED BY <2>1, <2>2, <2>3
<1> QED BY <1>1, <1>2, <1>3, <1>4, <1>5, <1>6, <1>7, <1>8, <1>9, <1>10, <1>11, <1>12, SignedIs

\* Unsigned, the vectors are the same without the signatures.
LEMMA WrittenBare == \A n \in Names : Unsigned(WrittenOut(n, TRUE)) = WrittenOut(n, FALSE)
<1> TAKE n \in Names
<1>1. Bare(SealedHops(n, TRUE)) = SealedHops(n, FALSE)
  BY HopsBare, OriginalIs DEF SealedHops
<1>2. Unsigned(WrittenOut(n, TRUE)) =
        Asked(Rooted(RootOf(n), IdOf(n), Bare(HopsOf(n, TRUE)), SealedLeaf(n)),
              Rooted(RootOf(n), IdOf(n), Bare(SealedHops(n, TRUE)), SealedLeaf(n)), AskedLeaf(n))
  <2>1. PICK root, id, h, g, ref, leaf :
          /\ root = RootOf(n) /\ id = IdOf(n) /\ h = HopsOf(n, TRUE) /\ g = SealedHops(n, TRUE)
          /\ ref = SealedLeaf(n) /\ leaf = AskedLeaf(n)
    OBVIOUS
  <2>2. Unsigned(Asked(Rooted(root, id, h, ref), Rooted(root, id, g, ref), leaf)) =
          Asked(Rooted(root, id, Bare(h), ref), Rooted(root, id, Bare(g), ref), leaf)
    BY ONLY BareAsked
  <2> QED BY <2>1, <2>2 DEF WrittenOut
<1> QED BY <1>1, <1>2, HopsBare DEF WrittenOut

\* Every vector, written out.
LEMMA VectorIs == \A n \in Names, s \in BOOLEAN : Vector(n, s) = WrittenOut(n, s)
BY WrittenSigned, WrittenBare DEF Vector

\* The parts of a vector.
LEMMA VectorParts ==
  ASSUME NEW n \in Names, NEW s \in BOOLEAN
  PROVE  /\ Vector(n, s).chain.chain_id = IdOf(n) /\ Vector(n, s).chain.root = RootOf(n)
         /\ Vector(n, s).chain.hops = HopsOf(n, s)
         /\ Vector(n, s).chain.leaf_action_ref = SealedLeaf(n) /\ Vector(n, s).leaf = AskedLeaf(n)
         /\ Vector(n, s).dcr = Vector(n, s).chain <=> SealedHops(n, s) = HopsOf(n, s)
<1>1. Vector(n, s) = WrittenOut(n, s)
  BY VectorIs
<1>2. /\ WrittenOut(n, s).chain = Rooted(RootOf(n), IdOf(n), HopsOf(n, s), SealedLeaf(n))
      /\ WrittenOut(n, s).dcr = Rooted(RootOf(n), IdOf(n), SealedHops(n, s), SealedLeaf(n))
      /\ WrittenOut(n, s).leaf = AskedLeaf(n)
  BY DEF WrittenOut, Asked
<1>3. \A root, id, h, g, ref : Rooted(root, id, g, ref) = Rooted(root, id, h, ref) <=> g = h
  <2> TAKE root, id, h, g, ref
  <2>1. Rooted(root, id, h, ref).hops = h /\ Rooted(root, id, g, ref).hops = g
    BY DEF Rooted
  <2> QED BY <2>1
<1>4. WrittenOut(n, s).dcr = WrittenOut(n, s).chain <=> SealedHops(n, s) = HopsOf(n, s)
  BY <1>2, <1>3
<1>5. /\ WrittenOut(n, s).chain.chain_id = IdOf(n) /\ WrittenOut(n, s).chain.root = RootOf(n)
      /\ WrittenOut(n, s).chain.hops = HopsOf(n, s) /\ WrittenOut(n, s).chain.leaf_action_ref = SealedLeaf(n)
  BY <1>2 DEF Rooted
<1> QED BY <1>1, <1>2, <1>4, <1>5

\* Checks 0 to 3, passed.
LEMMA StructuralIs ==
  ASSUME NEW v
  PROVE  Structural(v) = {} <=>
           /\ v.dcr = v.chain
           /\ \A i \in 1..(Len(v.chain.hops) - 1) : v.chain.hops[i].delegatee = v.chain.hops[i + 1].delegator
           /\ v.chain.root = v.chain.hops[1].delegator
           /\ v.leaf = v.chain.leaf_action_ref
           /\ v.leaf.scope = v.chain.hops[Len(v.chain.hops)].scope
BY DEF Structural, Last

\* A hop whose signature is left out or of what it says.
Stands(id, h) == h.sig = NoSig \/ h.sig = HopSigningPreimage(id, h)

\* The same of a vector that is written out, and of its signatures.
LEMMA WrittenWhole ==
  ASSUME NEW n \in Names, NEW s \in BOOLEAN
  PROVE  Whole(Vector(n, s)) <=>
           /\ SealedHops(n, s) = HopsOf(n, s)
           /\ \A i \in 1..(Len(HopsOf(n, s)) - 1) : HopsOf(n, s)[i].delegatee = HopsOf(n, s)[i + 1].delegator
           /\ RootOf(n) = HopsOf(n, s)[1].delegator
           /\ AskedLeaf(n) = SealedLeaf(n)
           /\ AskedLeaf(n).scope = HopsOf(n, s)[Len(HopsOf(n, s))].scope
           /\ \A i \in DOMAIN HopsOf(n, s) : Stands(IdOf(n), HopsOf(n, s)[i])
<1>1. Structural(Vector(n, s)) = {} <=>
           /\ SealedHops(n, s) = HopsOf(n, s)
           /\ \A i \in 1..(Len(HopsOf(n, s)) - 1) : HopsOf(n, s)[i].delegatee = HopsOf(n, s)[i + 1].delegator
           /\ RootOf(n) = HopsOf(n, s)[1].delegator
           /\ AskedLeaf(n) = SealedLeaf(n)
           /\ AskedLeaf(n).scope = HopsOf(n, s)[Len(HopsOf(n, s))].scope
  <2>1. PICK v : v = Vector(n, s)
    OBVIOUS
  <2>2. Structural(v) = {} <=>
           /\ v.dcr = v.chain
           /\ \A i \in 1..(Len(v.chain.hops) - 1) : v.chain.hops[i].delegatee = v.chain.hops[i + 1].delegator
           /\ v.chain.root = v.chain.hops[1].delegator
           /\ v.leaf = v.chain.leaf_action_ref
           /\ v.leaf.scope = v.chain.hops[Len(v.chain.hops)].scope
    BY ONLY StructuralIs
  <2>3. /\ v.chain.root = RootOf(n) /\ v.chain.hops = HopsOf(n, s)
        /\ v.chain.leaf_action_ref = SealedLeaf(n) /\ v.leaf = AskedLeaf(n)
        /\ v.dcr = v.chain <=> SealedHops(n, s) = HopsOf(n, s)
    BY <2>1, VectorParts
  <2> QED BY ONLY <2>1, <2>2, <2>3
<1>2. HopsWhole(Vector(n, s)) <=>
        \A i \in DOMAIN HopsOf(n, s) : Stands(IdOf(n), HopsOf(n, s)[i])
  BY VectorParts DEF HopsWhole, Stands
<1> QED BY <1>1, <1>2 DEF Whole

\* The checks along a chain: each hop delegates on, every signature stands.
Linked(hops) == \A i \in 1..(Len(hops) - 1) : hops[i].delegatee = hops[i + 1].delegator
AllStand(id, hops) == \A i \in DOMAIN hops : Stands(id, hops[i])
Bottom(hops) == hops[Len(hops)]

\* One hop.
LEMMA OneHop == \A id, a : /\ Linked(<<a>>) /\ (AllStand(id, <<a>>) <=> Stands(id, a)) /\ <<a>>[1] = a /\ Bottom(<<a>>) = a
BY DEF Linked, AllStand, Bottom

\* Two hops.
LEMMA TwoHops ==
  \A id, a, b : /\ Linked(<<a, b>>) <=> a.delegatee = b.delegator
                /\ AllStand(id, <<a, b>>) <=> Stands(id, a) /\ Stands(id, b)
                /\ <<a, b>>[1] = a /\ Bottom(<<a, b>>) = b
BY DEF Linked, AllStand, Bottom

\* Three hops.
LEMMA ThreeHops ==
  \A id, a, b, c : /\ Linked(<<a, b, c>>) <=> a.delegatee = b.delegator /\ b.delegatee = c.delegator
                   /\ AllStand(id, <<a, b, c>>) <=> Stands(id, a) /\ Stands(id, b) /\ Stands(id, c)
                   /\ <<a, b, c>>[1] = a /\ Bottom(<<a, b, c>>) = c
<1> TAKE id, a, b, c
<1>1. 1..(Len(<<a, b, c>>) - 1) = {1, 2} /\ DOMAIN <<a, b, c>> = {1, 2, 3}
  OBVIOUS
<1>2. <<a, b, c>>[1] = a /\ <<a, b, c>>[2] = b /\ <<a, b, c>>[1 + 1] = b /\ <<a, b, c>>[3] = c /\ <<a, b, c>>[2 + 1] = c /\ Bottom(<<a, b, c>>) = c
  BY DEF Bottom
<1>3. Linked(<<a, b, c>>) <=> a.delegatee = b.delegator /\ b.delegatee = c.delegator
  BY <1>1, <1>2 DEF Linked
<1>4. AllStand(id, <<a, b, c>>) <=> Stands(id, a) /\ Stands(id, b) /\ Stands(id, c)
  BY <1>1, <1>2 DEF AllStand
<1> QED BY <1>2, <1>3, <1>4

\* When a vector is whole, by its parts.
LEMMA WholeForm ==
  ASSUME NEW n \in Names, NEW s \in BOOLEAN
  PROVE  Whole(Vector(n, s)) <=>
           /\ SealedHops(n, s) = HopsOf(n, s)
           /\ Linked(HopsOf(n, s))
           /\ RootOf(n) = HopsOf(n, s)[1].delegator
           /\ AskedLeaf(n) = SealedLeaf(n)
           /\ AskedLeaf(n).scope = Bottom(HopsOf(n, s)).scope
           /\ AllStand(IdOf(n), HopsOf(n, s))
BY WrittenWhole DEF Linked, AllStand, Bottom

\* What a hop says.
LEMMA KeptSays ==
  \A s, id, from, to, scope, ref :
    /\ Kept(s, id, from, to, scope, ref).delegator = from /\ Kept(s, id, from, to, scope, ref).delegatee = to
    /\ Kept(s, id, from, to, scope, ref).scope = scope /\ Kept(s, id, from, to, scope, ref).ref = ref
    /\ Stands(id, Kept(s, id, from, to, scope, ref))
BY DEF Kept, HopSigningPreimage, Stands

\* What the hops say that were edited and not signed again.
LEMMA EditedSay ==
  \A s \in BOOLEAN :
    /\ Subst(s).ref = "r9"
    /\ Retarg(s).delegator = "c" /\ Retarg(s).scope = Route /\ (Stands("k1", Retarg(s)) <=> ~s)
    /\ Forged(s).delegator = "a" /\ Forged(s).scope = Pay /\ (Stands("k6", Forged(s)) <=> ~s)
<1> TAKE s \in BOOLEAN
<1>1. Retarg(s).sig = (IF s THEN <<"c", "k1", "c", "d", Route, "r3">> ELSE NoSig) /\ Forged(s).sig = (IF s THEN <<"attacker">> ELSE NoSig)
  BY DEF Retarg, Forged
<1>2. HopSigningPreimage("k1", Retarg(s)) = <<"c", "k1", "c", "e", Route, "r3">>
  BY DEF Retarg, HopSigningPreimage
<1>3. HopSigningPreimage("k6", Forged(s)) = <<"a", "k6", "a", "d", Pay, "r10">>
  BY DEF Forged, HopSigningPreimage
<1>4. <<"c", "k1", "c", "d", Route, "r3">> # <<"c", "k1", "c", "e", Route, "r3">>
  OBVIOUS
<1>5. <<"attacker">> # <<"a", "k6", "a", "d", Pay, "r10">>
  OBVIOUS
<1>6. <<"c", "k1", "c", "d", Route, "r3">> # NoSig /\ <<"attacker">> # NoSig
  BY DEF NoSig
<1>7. Stands("k1", Retarg(s)) <=> ~s
  BY <1>1, <1>2, <1>4, <1>6 DEF Stands
<1>8. Stands("k6", Forged(s)) <=> ~s
  BY <1>1, <1>3, <1>5, <1>6 DEF Stands
<1> QED BY <1>7, <1>8 DEF Subst, Retarg, Forged

\* The vectors that are whole: the ones delegated hop by hop, and the ones
\* whose edit only a signature would show.
LEMMA WholeAre ==
  \A n \in Names, s \in BOOLEAN :
    Whole(Vector(n, s)) <=> n \in {"original", "widened", "reused"} \/ (~s /\ n \in {"retargeted", "forged"})
<1> SUFFICES ASSUME NEW n \in Names, NEW s \in BOOLEAN
             PROVE  Whole(Vector(n, s)) <=> n \in {"original", "widened", "reused"} \/ (~s /\ n \in {"retargeted", "forged"})
  OBVIOUS
<1>n. Names = {"original", "missing", "substituted", "misplaced", "retargeted", "rerooted", "broken", "forged",
               "widened", "reused", "overreach", "otherleaf"}
  BY SignedIs
<1>w. Whole(Vector(n, s)) <=>
           /\ SealedHops(n, s) = HopsOf(n, s)
           /\ Linked(HopsOf(n, s))
           /\ RootOf(n) = HopsOf(n, s)[1].delegator
           /\ AskedLeaf(n) = SealedLeaf(n)
           /\ AskedLeaf(n).scope = Bottom(HopsOf(n, s)).scope
           /\ AllStand(IdOf(n), HopsOf(n, s))
  BY WholeForm
<1>o. /\ O1(s).delegator = "a" /\ O1(s).delegatee = "b" /\ O1(s).scope = Pay /\ O1(s).ref = "r1" /\ Stands("k1", O1(s))
      /\ O2(s).delegator = "b" /\ O2(s).delegatee = "c" /\ O2(s).scope = Pay /\ O2(s).ref = "r2" /\ Stands("k1", O2(s))
      /\ O3(s).delegator = "c" /\ O3(s).delegatee = "d" /\ O3(s).scope = Route /\ O3(s).ref = "r3" /\ Stands("k1", O3(s))
  BY KeptSays DEF O1, O2, O3
<1>l. \A x, y : Leaf(x, y).scope = y /\ Leaf(x, y).agent_id = x
  BY DEF Leaf
<1>1. CASE n = "original"
  <2>1. PICK a, b, c : a = O1(s) /\ b = O2(s) /\ c = O3(s)
    OBVIOUS
  <2>2. HopsOf(n, s) = <<a, b, c>>
    BY <1>1, <2>1 DEF HopsOf
  <2>3. /\ Linked(<<a, b, c>>) <=> a.delegatee = b.delegator /\ b.delegatee = c.delegator
        /\ AllStand(IdOf(n), <<a, b, c>>) <=> Stands(IdOf(n), a) /\ Stands(IdOf(n), b) /\ Stands(IdOf(n), c)
        /\ <<a, b, c>>[1] = a /\ Bottom(<<a, b, c>>) = c
    BY ONLY ThreeHops
  <2>4. IdOf(n) = "k1" /\ RootOf(n) = "a" /\ SealedHops(n, s) = HopsOf(n, s) /\ AskedLeaf(n) = SealedLeaf(n)
    BY <1>1 DEF IdOf, RootOf, SealedHops, AskedLeaf
  <2>5. AskedLeaf(n).scope = Route
    BY <1>1, <1>l DEF SealedLeaf, AskedLeaf
  <2>6. /\ a.delegator = "a" /\ a.delegatee = b.delegator /\ b.delegatee = c.delegator /\ c.scope = Route
        /\ Stands("k1", a) /\ Stands("k1", b) /\ Stands("k1", c)
    BY <2>1, <1>o
  <2>7. Whole(Vector(n, s))
    BY ONLY <1>w, <2>2, <2>3, <2>4, <2>5, <2>6
  <2> QED BY <1>1, <2>7
<1>2. CASE n = "missing"
  <2>1. PICK a, b : a = O1(s) /\ b = O3(s)
    OBVIOUS
  <2>2. HopsOf(n, s) = <<a, b>>
    BY <1>2, <2>1 DEF HopsOf
  <2>3. SealedHops(n, s) # HopsOf(n, s)
    <3>1. SealedHops(n, s) = <<O1(s), O2(s), O3(s)>>
      BY <1>2 DEF SealedHops
    <3>2. PICK x, y, z : x = O1(s) /\ y = O2(s) /\ z = O3(s)
      OBVIOUS
    <3>3. <<x, y, z>> # <<a, b>>
      OBVIOUS
    <3> QED BY <2>2, <3>1, <3>2, <3>3
  <2> QED BY <1>w, <1>2, <2>3
<1>3. CASE n = "substituted"
  <2>1. PICK a, b, c : a = O1(s) /\ b = Subst(s) /\ c = O3(s)
    OBVIOUS
  <2>2. HopsOf(n, s) = <<a, b, c>>
    BY <1>3, <2>1 DEF HopsOf
  <2>3. SealedHops(n, s) # HopsOf(n, s)
    <3>1. SealedHops(n, s) = <<O1(s), O2(s), O3(s)>>
      BY <1>3 DEF SealedHops
    <3>2. O2(s) # b
      BY <1>o, <2>1, EditedSay
    <3>3. PICK x, y, z : x = O1(s) /\ y = O2(s) /\ z = O3(s)
      OBVIOUS
    <3>4. <<x, y, z>>[2] = y /\ <<a, b, c>>[2] = b
      OBVIOUS
    <3> QED BY <2>2, <3>1, <3>2, <3>3, <3>4
  <2> QED BY <1>w, <1>3, <2>3
<1>4. CASE n = "misplaced"
  <2>1. PICK a, b, c : a = O1(s) /\ b = O3(s) /\ c = O2(s)
    OBVIOUS
  <2>2. HopsOf(n, s) = <<a, b, c>>
    BY <1>4, <2>1 DEF HopsOf
  <2>3. SealedHops(n, s) # HopsOf(n, s)
    <3>1. SealedHops(n, s) = <<O1(s), O2(s), O3(s)>>
      BY <1>4 DEF SealedHops
    <3>2. O2(s) # b
      BY <1>o, <2>1, <1>o
    <3>3. PICK x, y, z : x = O1(s) /\ y = O2(s) /\ z = O3(s)
      OBVIOUS
    <3>4. <<x, y, z>>[2] = y /\ <<a, b, c>>[2] = b
      OBVIOUS
    <3> QED BY <2>2, <3>1, <3>2, <3>3, <3>4
  <2> QED BY <1>w, <1>4, <2>3
<1>5. CASE n = "retargeted"
  <2>1. PICK a, b, c : a = O1(s) /\ b = O2(s) /\ c = Retarg(s)
    OBVIOUS
  <2>2. HopsOf(n, s) = <<a, b, c>>
    BY <1>5, <2>1 DEF HopsOf
  <2>3. /\ Linked(<<a, b, c>>) <=> a.delegatee = b.delegator /\ b.delegatee = c.delegator
        /\ AllStand(IdOf(n), <<a, b, c>>) <=> Stands(IdOf(n), a) /\ Stands(IdOf(n), b) /\ Stands(IdOf(n), c)
        /\ <<a, b, c>>[1] = a /\ Bottom(<<a, b, c>>) = c
    BY ONLY ThreeHops
  <2>4. IdOf(n) = "k1" /\ RootOf(n) = "a" /\ SealedHops(n, s) = HopsOf(n, s) /\ AskedLeaf(n) = SealedLeaf(n)
    BY <1>5 DEF IdOf, RootOf, SealedHops, AskedLeaf
  <2>5. AskedLeaf(n).scope = Route
    BY <1>5, <1>l DEF SealedLeaf, AskedLeaf
  <2>6. /\ a.delegator = "a" /\ a.delegatee = b.delegator /\ b.delegatee = c.delegator /\ c.scope = Route
        /\ Stands("k1", a) /\ Stands("k1", b) /\ (Stands("k1", c) <=> ~s)
    BY <2>1, <1>o, EditedSay
  <2>7. Whole(Vector(n, s)) <=> ~s
    BY ONLY <1>w, <2>2, <2>3, <2>4, <2>5, <2>6
  <2> QED BY <1>5, <2>7
<1>6. CASE n = "rerooted"
  <2>1. PICK a, b, c : a = O1(s) /\ b = O2(s) /\ c = O3(s)
    OBVIOUS
  <2>2. HopsOf(n, s) = <<a, b, c>>
    BY <1>6, <2>1 DEF HopsOf
  <2>3. /\ Linked(<<a, b, c>>) <=> a.delegatee = b.delegator /\ b.delegatee = c.delegator
        /\ AllStand(IdOf(n), <<a, b, c>>) <=> Stands(IdOf(n), a) /\ Stands(IdOf(n), b) /\ Stands(IdOf(n), c)
        /\ <<a, b, c>>[1] = a /\ Bottom(<<a, b, c>>) = c
    BY ONLY ThreeHops
  <2>4. IdOf(n) = "k1" /\ RootOf(n) = "e" /\ SealedHops(n, s) = HopsOf(n, s) /\ AskedLeaf(n) = SealedLeaf(n)
    BY <1>6 DEF IdOf, RootOf, SealedHops, AskedLeaf
  <2>5. AskedLeaf(n).scope = Route
    BY <1>6, <1>l DEF SealedLeaf, AskedLeaf
  <2>6. a.delegator = "a"
    BY <2>1, <1>o
  <2>7. ~Whole(Vector(n, s))
    BY ONLY <1>w, <2>2, <2>3, <2>4, <2>5, <2>6
  <2> QED BY <1>6, <2>7
<1>7. CASE n = "broken"
  <2>1. PICK a, b, c : a = O1(s) /\ b = O2(s) /\ c = Kept(s, "k1", "x", "d", Route, "r3")
    OBVIOUS
  <2>2. HopsOf(n, s) = <<a, b, c>>
    BY <1>7, <2>1 DEF HopsOf
  <2>3. /\ Linked(<<a, b, c>>) <=> a.delegatee = b.delegator /\ b.delegatee = c.delegator
        /\ AllStand(IdOf(n), <<a, b, c>>) <=> Stands(IdOf(n), a) /\ Stands(IdOf(n), b) /\ Stands(IdOf(n), c)
        /\ <<a, b, c>>[1] = a /\ Bottom(<<a, b, c>>) = c
    BY ONLY ThreeHops
  <2>4. IdOf(n) = "k1" /\ RootOf(n) = "a" /\ SealedHops(n, s) = HopsOf(n, s) /\ AskedLeaf(n) = SealedLeaf(n)
    BY <1>7 DEF IdOf, RootOf, SealedHops, AskedLeaf
  <2>5. AskedLeaf(n).scope = Route
    BY <1>7, <1>l DEF SealedLeaf, AskedLeaf
  <2>6. b.delegatee = "c" /\ c.delegator = "x"
    BY <2>1, <1>o, KeptSays
  <2>7. ~Whole(Vector(n, s))
    BY ONLY <1>w, <2>2, <2>3, <2>4, <2>5, <2>6
  <2> QED BY <1>7, <2>7
<1>8. CASE n = "forged"
  <2>1. PICK a : a = Forged(s)
    OBVIOUS
  <2>2. HopsOf(n, s) = <<a>>
    BY <1>8, <2>1 DEF HopsOf
  <2>3. /\ Linked(<<a>>) <=> TRUE
        /\ AllStand(IdOf(n), <<a>>) <=> Stands(IdOf(n), a)
        /\ <<a>>[1] = a /\ Bottom(<<a>>) = a
    BY ONLY OneHop
  <2>4. IdOf(n) = "k6" /\ RootOf(n) = "a" /\ SealedHops(n, s) = HopsOf(n, s) /\ AskedLeaf(n) = SealedLeaf(n)
    BY <1>8 DEF IdOf, RootOf, SealedHops, AskedLeaf
  <2>5. AskedLeaf(n).scope = Pay
    BY <1>8, <1>l DEF SealedLeaf, AskedLeaf
  <2>6. a.delegator = "a" /\ a.scope = Pay /\ (Stands("k6", a) <=> ~s)
    BY <2>1, EditedSay
  <2>7. Whole(Vector(n, s)) <=> ~s
    BY ONLY <1>w, <2>2, <2>3, <2>4, <2>5, <2>6
  <2> QED BY <1>8, <2>7
<1>9. CASE n = "widened"
  <2>1. PICK a, b : a = Kept(s, "k2", "a", "b", Pay, "r4") /\ b = Kept(s, "k2", "b", "d", All, "r5")
    OBVIOUS
  <2>2. HopsOf(n, s) = <<a, b>>
    BY <1>9, <2>1 DEF HopsOf
  <2>3. /\ Linked(<<a, b>>) <=> a.delegatee = b.delegator
        /\ AllStand(IdOf(n), <<a, b>>) <=> Stands(IdOf(n), a) /\ Stands(IdOf(n), b)
        /\ <<a, b>>[1] = a /\ Bottom(<<a, b>>) = b
    BY ONLY TwoHops
  <2>4. IdOf(n) = "k2" /\ RootOf(n) = "a" /\ SealedHops(n, s) = HopsOf(n, s) /\ AskedLeaf(n) = SealedLeaf(n)
    BY <1>9 DEF IdOf, RootOf, SealedHops, AskedLeaf
  <2>5. AskedLeaf(n).scope = All
    BY <1>9, <1>l DEF SealedLeaf, AskedLeaf
  <2>6. /\ a.delegator = "a" /\ a.delegatee = b.delegator /\ b.scope = All
        /\ Stands("k2", a) /\ Stands("k2", b)
    BY <2>1, KeptSays
  <2>7. Whole(Vector(n, s))
    BY ONLY <1>w, <2>2, <2>3, <2>4, <2>5, <2>6
  <2> QED BY <1>9, <2>7
<1>10. CASE n = "reused"
  <2>1. PICK a, b : a = Kept(s, "k3", "a", "b", All, "r1") /\ b = Kept(s, "k3", "b", "d", Route, "r6")
    OBVIOUS
  <2>2. HopsOf(n, s) = <<a, b>>
    BY <1>10, <2>1 DEF HopsOf
  <2>3. /\ Linked(<<a, b>>) <=> a.delegatee = b.delegator
        /\ AllStand(IdOf(n), <<a, b>>) <=> Stands(IdOf(n), a) /\ Stands(IdOf(n), b)
        /\ <<a, b>>[1] = a /\ Bottom(<<a, b>>) = b
    BY ONLY TwoHops
  <2>4. IdOf(n) = "k3" /\ RootOf(n) = "a" /\ SealedHops(n, s) = HopsOf(n, s) /\ AskedLeaf(n) = SealedLeaf(n)
    BY <1>10 DEF IdOf, RootOf, SealedHops, AskedLeaf
  <2>5. AskedLeaf(n).scope = Route
    BY <1>10, <1>l DEF SealedLeaf, AskedLeaf
  <2>6. /\ a.delegator = "a" /\ a.delegatee = b.delegator /\ b.scope = Route
        /\ Stands("k3", a) /\ Stands("k3", b)
    BY <2>1, KeptSays
  <2>7. Whole(Vector(n, s))
    BY ONLY <1>w, <2>2, <2>3, <2>4, <2>5, <2>6
  <2> QED BY <1>10, <2>7
<1>11. CASE n = "overreach"
  <2>1. PICK a : a = Kept(s, "k4", "a", "d", Pay, "r7")
    OBVIOUS
  <2>2. HopsOf(n, s) = <<a>>
    BY <1>11, <2>1 DEF HopsOf
  <2>3. /\ Linked(<<a>>) <=> TRUE
        /\ AllStand(IdOf(n), <<a>>) <=> Stands(IdOf(n), a)
        /\ <<a>>[1] = a /\ Bottom(<<a>>) = a
    BY ONLY OneHop
  <2>4. IdOf(n) = "k4" /\ RootOf(n) = "a" /\ SealedHops(n, s) = HopsOf(n, s) /\ AskedLeaf(n) = SealedLeaf(n)
    BY <1>11 DEF IdOf, RootOf, SealedHops, AskedLeaf
  <2>5. AskedLeaf(n).scope = All
    BY <1>11, <1>l DEF SealedLeaf, AskedLeaf
  <2>6. a.scope # All
    BY <2>1, KeptSays DEF All, Pay
  <2>7. ~Whole(Vector(n, s))
    BY ONLY <1>w, <2>2, <2>3, <2>4, <2>5, <2>6
  <2> QED BY <1>11, <2>7
<1>12. CASE n = "otherleaf"
  <2>1. PICK a : a = Kept(s, "k5", "a", "d", Pay, "r8")
    OBVIOUS
  <2>2. HopsOf(n, s) = <<a>>
    BY <1>12, <2>1 DEF HopsOf
  <2>3. AskedLeaf(n) # SealedLeaf(n)
    BY <1>12, <1>l DEF AskedLeaf, SealedLeaf
  <2> QED BY <1>w, <1>12, <2>3
<1> QED BY <1>n, <1>1, <1>2, <1>3, <1>4, <1>5, <1>6, <1>7, <1>8, <1>9, <1>10, <1>11, <1>12

\* What was delegated so, or edited with no signature to show it, is what is
\* whole.
LEMMA AcceptedAre ==
  ASSUME NEW v \in Vectors
  PROVE  Whole(v) <=> Delegated(v) \/ Undetected(v)
<1>1. PICK n \in Names, s \in BOOLEAN : v = Vector(n, s)
  BY DEF Vectors
<1>2. {"original", "widened", "reused", "retargeted", "forged"} \subseteq Names
  BY SignedIs
<1>3. ASSUME Delegated(v) PROVE Whole(v)
  <2>1. PICK m \in {"original", "widened", "reused"}, t \in BOOLEAN : v = Vector(m, t)
    BY <1>3 DEF Delegated
  <2> QED BY <1>2, <2>1, WholeAre
<1>4. ASSUME Undetected(v) PROVE Whole(v)
  BY <1>2, <1>4, WholeAre DEF Undetected
<1>5. ASSUME Whole(v) PROVE Delegated(v) \/ Undetected(v)
  <2>1. n \in {"original", "widened", "reused"} \/ (~s /\ n \in {"retargeted", "forged"})
    BY <1>1, <1>5, WholeAre
  <2>2. CASE n \in {"original", "widened", "reused"}
    BY <1>1, <2>2 DEF Delegated
  <2>3. CASE ~s /\ n \in {"retargeted", "forged"}
    <3>1. s = FALSE
      BY <2>3
    <3> QED BY <1>1, <2>3, <3>1 DEF Undetected
  <2> QED BY <2>1, <2>2, <2>3
<1> QED BY <1>3, <1>4, <1>5

\* Every hop of a vector is one of its up to three.
LEMMA HopsFit ==
  ASSUME NEW v \in Vectors
  PROVE  Len(v.chain.hops) \in 1..3 /\ DOMAIN v.chain.hops = 1..Len(v.chain.hops)
<1>1. PICK n \in Names, s \in BOOLEAN : v = Vector(n, s)
  BY DEF Vectors
<1>2. v.chain.hops = HopsOf(n, s)
  BY <1>1, VectorParts
<1>3. (\E a : HopsOf(n, s) = <<a>>) \/ (\E a, b : HopsOf(n, s) = <<a, b>>) \/ (\E a, b, c : HopsOf(n, s) = <<a, b, c>>)
  BY SignedIs DEF HopsOf
<1>4. CASE \E a : HopsOf(n, s) = <<a>>
  BY <1>2, <1>4
<1>5. CASE \E a, b : HopsOf(n, s) = <<a, b>>
  BY <1>2, <1>5
<1>6. CASE \E a, b, c : HopsOf(n, s) = <<a, b, c>>
  BY <1>2, <1>6
<1> QED BY <1>3, <1>4, <1>5, <1>6

\* hop_signature left out of every hop.
LEMMA UnsignedHops ==
  ASSUME NEW n \in Names
  PROVE  Delegators(Vector(n, FALSE)) = {}
<1>1. Vector(n, FALSE).chain.hops = HopsOf(n, FALSE)
  BY VectorParts
<1> DEFINE Plain(x) == x.sig = NoSig
           h == HopsOf(n, FALSE)
<1>3. \A i \in DOMAIN h : Plain(h[i])
  <2>1. /\ Plain(O1(FALSE)) /\ Plain(O2(FALSE)) /\ Plain(O3(FALSE))
        /\ Plain(Subst(FALSE)) /\ Plain(Retarg(FALSE)) /\ Plain(Forged(FALSE))
        /\ \A id, from, to, scope, ref : Plain(Kept(FALSE, id, from, to, scope, ref))
    BY DEF O1, O2, O3, Subst, Retarg, Forged, Kept
  <2> HIDE DEF Plain
  <2>2. \/ \E a : h = <<a>> /\ Plain(a)
        \/ \E a, b : h = <<a, b>> /\ Plain(a) /\ Plain(b)
        \/ \E a, b, c : h = <<a, b, c>> /\ Plain(a) /\ Plain(b) /\ Plain(c)
    <3>n. Names = {"original", "missing", "substituted", "misplaced", "retargeted", "rerooted", "broken", "forged",
                   "widened", "reused", "overreach", "otherleaf"}
      BY SignedIs
    <3>1. CASE n \in {"original", "rerooted", "substituted", "misplaced", "retargeted", "broken"}
      BY <2>1, <3>1 DEF HopsOf
    <3>2. CASE n \in {"missing", "widened", "reused"}
      <4>1. CASE n = "missing"
        BY <2>1, <4>1 DEF HopsOf
      <4>2. CASE n = "widened"
        <5>1. h = <<Kept(FALSE, "k2", "a", "b", Pay, "r4"), Kept(FALSE, "k2", "b", "d", All, "r5")>>
          BY <4>2 DEF HopsOf
        <5> QED BY <2>1, <5>1
      <4>3. CASE n = "reused"
        <5>1. h = <<Kept(FALSE, "k3", "a", "b", All, "r1"), Kept(FALSE, "k3", "b", "d", Route, "r6")>>
          BY <4>3 DEF HopsOf
        <5> QED BY <2>1, <5>1
      <4> QED BY <3>2, <4>1, <4>2, <4>3
    <3>3. CASE n \in {"forged", "overreach", "otherleaf"}
      BY <2>1, <3>3 DEF HopsOf
    <3> QED BY <3>n, <3>1, <3>2, <3>3
  <2> HIDE DEF h
  <2>3. CASE \E a : h = <<a>> /\ Plain(a)
    <3>1. PICK a : h = <<a>> /\ Plain(a)
      BY <2>3
    <3>2. DOMAIN <<a>> = {1} /\ <<a>>[1] = a
      OBVIOUS
    <3> QED BY <3>1, <3>2
  <2>4. CASE \E a, b : h = <<a, b>> /\ Plain(a) /\ Plain(b)
    <3>1. PICK a, b : h = <<a, b>> /\ Plain(a) /\ Plain(b)
      BY <2>4
    <3>2. DOMAIN <<a, b>> = {1, 2} /\ <<a, b>>[1] = a /\ <<a, b>>[2] = b
      OBVIOUS
    <3> QED BY <3>1, <3>2
  <2>5. CASE \E a, b, c : h = <<a, b, c>> /\ Plain(a) /\ Plain(b) /\ Plain(c)
    <3>1. PICK a, b, c : h = <<a, b, c>> /\ Plain(a) /\ Plain(b) /\ Plain(c)
      BY <2>5
    <3>2. DOMAIN <<a, b, c>> = {1, 2, 3} /\ <<a, b, c>>[1] = a /\ <<a, b, c>>[2] = b /\ <<a, b, c>>[3] = c
      OBVIOUS
    <3> QED BY <3>1, <3>2
  <2> QED BY <2>2, <2>3, <2>4, <2>5
<1> QED BY <1>1, <1>3 DEF Delegators

\* scope_is_narrower_or_equal on the scopes of the vectors.
LEMMA Narrowing ==
  /\ ScopeIsNarrowerOrEqual(Pay, Pay) /\ ScopeIsNarrowerOrEqual(Pay, Route) /\ ScopeIsNarrowerOrEqual(All, Route)
  /\ ~ScopeIsNarrowerOrEqual(Pay, All)
<1>1. ScopeIsNarrowerOrEqual(Pay, Pay)
  BY DEF ScopeIsNarrowerOrEqual
<1>2. ScopeIsNarrowerOrEqual(Pay, Route)
  <2>1. Len(Pay) = 2 /\ Len(Route) = 3 /\ Last(Pay) = "pay" /\ Pay # Route
    BY DEF Pay, Route, Last
  <2>2. SubSeq(Pay, 1, 2) = SubSeq(Route, 1, 2)
    BY DEF Pay, Route
  <2> QED BY <2>1, <2>2 DEF ScopeIsNarrowerOrEqual, IsStrictPrefix, IsPrefix
<1>3. ScopeIsNarrowerOrEqual(All, Route)
  <2>1. Len(All) = 2 /\ Len(Route) = 3 /\ Last(All) = "*"
    BY DEF All, Route, Last
  <2>2. Front(All) = <<"m">>
    <3>1. \A i \in 1..1 : All[i] \in {"m"}
      BY DEF All
    <3>2. Front(All) = SubSeq(All, 1, 1)
      BY <2>1 DEF Front
    <3>3. SubSeq(All, 1, 1) \in Seq({"m"}) /\ Len(SubSeq(All, 1, 1)) = 1 
      BY <3>1, SubSeqProperties
    <3>4. \A x \in Seq({"m"}) : Len(x) = 1 => x = <<"m">>
      OBVIOUS
    <3> QED BY <3>2, <3>3, <3>4
  <2>3. SubSeq(<<"m">>, 1, 1) = SubSeq(Route, 1, 1) /\ Len(<<"m">>) = 1 /\ <<"m">> # Route
    <3>1. SubSeq(<<"m">>, 1, 1) = SubSeq(Route, 1, 1)
      BY DEF Route
    <3>2. Len(<<"m">>) = 1
      OBVIOUS
    <3> QED BY <2>1, <3>1, <3>2
  <2>4. IsStrictPrefix(<<"m">>, Route)
    BY <2>1, <2>3 DEF IsStrictPrefix, IsPrefix
  <2> QED BY <2>1, <2>2, <2>4 DEF ScopeIsNarrowerOrEqual
<1>4. ~ScopeIsNarrowerOrEqual(Pay, All)
  <2>1. Len(Pay) = 2 /\ Len(All) = 2 /\ Last(Pay) = "pay" /\ Pay # All
    BY DEF Pay, All, Last
  <2>2. SubSeq(Pay, 1, 2) # SubSeq(All, 1, 2)
    <3>1. /\ \A i \in 1..2 : Pay[i] \in {"m", "pay"}
          /\ \A i \in 1..2 : All[i] \in {"m", "*"}
          /\ Pay[2] = "pay" /\ All[2] = "*"
      BY DEF Pay, All
    <3>2. SubSeq(Pay, 1, 2)[2] = Pay[2] /\ SubSeq(All, 1, 2)[2] = All[2]
      BY <2>1, <3>1, SubSeqProperties
    <3> QED BY <3>1, <3>2
  <2>3. ~IsStrictPrefix(Pay, All)
    BY <2>1, <2>2 DEF IsStrictPrefix, IsPrefix
  <2> QED BY <2>1, <2>3 DEF ScopeIsNarrowerOrEqual
<1> QED BY <1>1, <1>2, <1>3, <1>4

\* Of the whole chains only the one made so widens.
LEMMA WideningAre ==
  ASSUME NEW v \in Vectors, Whole(v)
  PROVE  Widening(v) = {} <=> v.chain.chain_id # "k2"
<1>1. PICK n \in Names, s \in BOOLEAN : v = Vector(n, s)
  BY DEF Vectors
<1>2. v.chain.hops = HopsOf(n, s) /\ v.chain.chain_id = IdOf(n)
  BY <1>1, VectorParts
<1>3. n \in {"original", "widened", "reused", "retargeted", "forged"}
  BY <1>1, WholeAre
<1>4. Widening(v) = {} <=> \A i \in 2..Len(HopsOf(n, s)) :
                             ScopeIsNarrowerOrEqual(HopsOf(n, s)[i - 1].scope, HopsOf(n, s)[i].scope)
  BY <1>2 DEF Widening
<1>5. /\ O1(s).scope = Pay /\ O2(s).scope = Pay /\ O3(s).scope = Route /\ Retarg(s).scope = Route
      /\ \A id, from, to, scope, ref : Kept(s, id, from, to, scope, ref).scope = scope
  BY KeptSays DEF O1, O2, O3, Retarg
<1>6. \A a, b, c : 2..Len(<<a, b, c>>) = {2, 3} /\ <<a, b, c>>[2 - 1] = a /\ <<a, b, c>>[2] = b /\ <<a, b, c>>[3 - 1] = b /\ <<a, b, c>>[3] = c
  OBVIOUS
<1>7. \A a, b : 2..Len(<<a, b>>) = {2} /\ <<a, b>>[2 - 1] = a /\ <<a, b>>[2] = b
  OBVIOUS
<1>8. CASE n \in {"original", "retargeted"}
  <2>1. \E a, b, c : HopsOf(n, s) = <<a, b, c>> /\ a.scope = Pay /\ b.scope = Pay /\ c.scope = Route
    BY <1>5, <1>8 DEF HopsOf
  <2>2. IdOf(n) = "k1"
    BY <1>8 DEF IdOf
  <2> QED BY <1>2, <1>4, <1>6, <2>1, <2>2, Narrowing
<1>9. CASE n = "forged"
  <2>1. \E a : HopsOf(n, s) = <<a>>
    BY <1>9 DEF HopsOf
  <2>2. \A a : 2..Len(<<a>>) = {}
    OBVIOUS
  <2>3. IdOf(n) = "k6"
    BY <1>9 DEF IdOf
  <2> QED BY <1>2, <1>4, <2>1, <2>2, <2>3
<1>10. CASE n = "widened"
  <2>1. \E a, b : HopsOf(n, s) = <<a, b>> /\ a.scope = Pay /\ b.scope = All
    BY <1>5, <1>10 DEF HopsOf
  <2>2. IdOf(n) = "k2"
    BY <1>10 DEF IdOf
  <2> QED BY <1>2, <1>4, <1>7, <2>1, <2>2, Narrowing
<1>11. CASE n = "reused"
  <2>1. \E a, b : HopsOf(n, s) = <<a, b>> /\ a.scope = All /\ b.scope = Route
    BY <1>5, <1>11 DEF HopsOf
  <2>2. IdOf(n) = "k3"
    BY <1>11 DEF IdOf
  <2> QED BY <1>2, <1>4, <1>7, <2>1, <2>2, Narrowing
<1> QED BY <1>3, <1>8, <1>9, <1>10, <1>11

\* The 7.5 layer refuses in addition exactly what has a revoked hop above the
\* last one.
LEMMA EnforcedIs ==
  ASSUME NEW v \in Vectors, NEW revoked
  PROVE  Enforce75(v, revoked) = {} <=>
           {v.chain.hops[i].ref : i \in 1..(Len(v.chain.hops) - 1)} \cap revoked = {}
<1> DEFINE hops == v.chain.hops
           A == RevokedAncestorIndices(v, revoked)
<1>1. Len(hops) \in 1..3 /\ DOMAIN hops = 1..Len(hops)
  BY HopsFit
<1>2. A = {i \in 1..Len(hops) : hops[i].ref \in revoked}
  BY <1>1 DEF RevokedAncestorIndices
<1>3. {hops[i].ref : i \in 1..(Len(hops) - 1)} \cap revoked = {} <=> \A i \in 1..(Len(hops) - 1) : i \notin A
  BY <1>1, <1>2
<1>4. Enforce75(v, revoked) =
        IF A = {} THEN {}
        ELSE {<<"descendant_of_revoked_ancestor", i>> : i \in (Min(A) + 1)..Len(hops)}
             \cup {x \in {<<"leaf_action_under_revoked_ancestor", 0>>} : Min(A) < Len(hops)}
  BY DEF Enforce75
<1> HIDE DEF hops, A
<1>5. ASSUME A = {}
      PROVE  Enforce75(v, revoked) = {} <=> \A i \in 1..(Len(hops) - 1) : i \notin A
  BY <1>4, <1>5
<1>6. ASSUME A # {}
      PROVE  Enforce75(v, revoked) = {} <=> \A i \in 1..(Len(hops) - 1) : i \notin A
  <2>1. Min(A) \in A /\ \A i \in A : Min(A) <= i
    <3>1. A \subseteq Nat
      BY <1>1, <1>2
    <3>2. \E n \in A : \A m \in A : n <= m
      BY <1>6, <3>1, LeastNatural
    <3> QED BY <3>2 DEF Min
  <2>2. PICK m : m = Min(A)
    OBVIOUS
  <2>3. PICK len : len = Len(hops)
    OBVIOUS
  <2>4. m \in A /\ (\A i \in A : m <= i) /\ A \subseteq 1..len /\ len \in 1..3
    BY <1>1, <1>2, <2>1, <2>2, <2>3
  <2>5. Enforce75(v, revoked) = {} <=> ~(m < len)
    <3>1. Enforce75(v, revoked) = {<<"descendant_of_revoked_ancestor", i>> : i \in (m + 1)..len}
             \cup {x \in {<<"leaf_action_under_revoked_ancestor", 0>>} : m < len}
      BY <1>4, <1>6, <2>2, <2>3
    <3>2. (m + 1)..len = {} <=> ~(m < len)
      BY ONLY <2>4
    <3> QED BY <3>1, <3>2
  <2>6. (\A i \in 1..(len - 1) : i \notin A) <=> ~(m < len)
    BY ONLY <2>4
  <2> QED BY <2>3, <2>5, <2>6
<1> QED BY <1>3, <1>5, <1>6 DEF hops

\* A revocation beside a vector leaves what the verifiers read of it.
LEMMA RevocationBeside ==
  ASSUME NEW v \in Vectors, NEW ref
  PROVE  /\ Verdict(WithRevocation(v, ref), NoRegistry, {}, FALSE, FALSE) = Verdict(v, NoRegistry, {}, FALSE, FALSE)
         /\ FrozenFailures(WithRevocation(v, ref), {}) = FrozenFailures(v, {})
<1>1. {"chain", "dcr", "leaf"} \subseteq DOMAIN v
  <2>1. PICK n \in Names, s \in BOOLEAN : v = WrittenOut(n, s)
    BY VectorIs DEF Vectors
  <2> QED BY <2>1 DEF WrittenOut, Asked
<1>2. PICK w : w = WithRevocation(v, ref)
  OBVIOUS
<1>3. w.chain = v.chain /\ w.dcr = v.dcr /\ w.leaf = v.leaf
  BY <1>1, <1>2 DEF WithRevocation
<1>4. Structural(w) = Structural(v) /\ Widening(w) = Widening(v) /\ Refs(w) = Refs(v)
  BY <1>3 DEF Structural, Widening, Refs
<1>5. \A keys : SignatureAnswers(w, keys) = SignatureAnswers(v, keys)
  BY <1>3 DEF SignatureAnswers
<1>6. SeenContains(NoRegistry, w) <=> SeenContains(NoRegistry, v)
  BY <1>3, <1>4 DEF SeenContains
<1>7. Failures(w, NoRegistry, {}, FALSE, FALSE) = Failures(v, NoRegistry, {}, FALSE, FALSE)
  BY <1>4, <1>5, <1>6 DEF Failures
<1>8. Verdict(w, NoRegistry, {}, FALSE, FALSE) = Verdict(v, NoRegistry, {}, FALSE, FALSE)
  <2>1. SignatureAnswers(w, {}) = SignatureAnswers(v, {})
    BY <1>5
  <2> QED BY <1>7, <2>1 DEF Verdict
<1>9. FrozenFailures(w, {}) = FrozenFailures(v, {})
  BY <1>3, <1>4 DEF FrozenFailures
<1> QED BY <1>2, <1>8, <1>9

\* The names that ChainNext takes vectors from.
LEMMA NamesAre == \A n \in Names, s \in BOOLEAN : Vector(n, s) \in Vectors
BY DEF Vectors

\* An evaluation is right, whatever was accepted before it.
LEMMA EvaluateRight ==
  ASSUME RegistryHoldsAccepted, NEW v \in Vectors, NEW keys, NEW complete \in BOOLEAN, NEW narrowing \in BOOLEAN,
         Evaluate(v, keys, complete, narrowing)
  PROVE  RegistryHoldsAccepted' /\ LastIsRight'
<1> DEFINE verdict == Verdict(v, registry, keys, complete, narrowing)
<1>1. /\ registry = [ids |-> {w.chain.chain_id : w \in passed}, refs |-> UNION {Refs(w) : w \in passed}]
      /\ \A x, w \in passed : x # w => ~Overlap(x, w)
      /\ passed \subseteq Vectors
  BY DEF RegistryHoldsAccepted
<1>2. RegistryHoldsAccepted'
  <2>1. /\ registry' = [ids |-> {w.chain.chain_id : w \in passed'}, refs |-> UNION {Refs(w) : w \in passed'}]
        /\ \A x, w \in passed' : x # w => ~Overlap(x, w)
    BY <1>1, RecordsAccepted
  <2>2. passed' \subseteq Vectors
    BY <1>1 DEF Evaluate
  <2> QED BY <2>1, <2>2 DEF RegistryHoldsAccepted
<1>3. /\ last'.by = "reference" /\ last'.vector = v /\ last'.keys = keys /\ last'.complete = complete
      /\ last'.narrowing = narrowing /\ last'.before = passed /\ last'.verdict = verdict
  BY DEF Evaluate
<1>4. verdict = "PASS" <=>
            /\ Delegated(v) \/ Undetected(v)
            /\ narrowing => v.chain.chain_id # "k2"
            /\ Delegators(v) \subseteq keys
            /\ \A w \in passed : ~Overlap(v, w)
  <2>1. SeenContains(registry, v) <=> \E w \in passed : Overlap(v, w)
    BY <1>1, SeenIs
  <2>2. verdict = "PASS" <=>
           /\ Whole(v) /\ Delegators(v) \subseteq keys
           /\ narrowing => Widening(v) = {}
           /\ ~SeenContains(registry, v)
    BY PassIs
  <2>3. Whole(v) <=> Delegated(v) \/ Undetected(v)
    BY AcceptedAre
  <2>4. Whole(v) => (Widening(v) = {} <=> v.chain.chain_id # "k2")
    BY WideningAre
  <2> HIDE DEF verdict
  <2> QED BY <2>1, <2>2, <2>3, <2>4
<1>5. verdict = "NOT_ASSESSED" => ~complete /\ ~(Delegators(v) \subseteq keys)
  BY NotAssessedIs
<1> HIDE DEF verdict
<1>6. LastIsRight'
  BY <1>3, <1>4, <1>5 DEF LastIsRight
<1> QED BY <1>2, <1>6

\* The vector that the recovery file is reached with at each step, and what
\* the registry makes of it.
LEMMA RecoveryStepInv ==
  ASSUME ChainInv, RecoveryStep
  PROVE  ChainInv'
<1>1. RegistryHoldsAccepted /\ RecoveryAccepted
  BY DEF ChainInv
<1> DEFINE n == RecoveryFile[at + 1]
           v == Vector(n, FALSE)
<1>2. at \in 0..4 /\ at' = at + 1
  BY <1>1 DEF RecoveryAccepted, RecoveryStep
<1>3. /\ n \in Names /\ n = (IF at = 0 THEN "missing" ELSE IF at = 1 THEN "substituted" ELSE IF at = 2 THEN "misplaced" ELSE "original")
  BY <1>2, SignedIs DEF RecoveryFile
<1>4. v \in Vectors
  BY <1>3, NamesAre
<1>5. Evaluate(v, {}, FALSE, FALSE)
  BY DEF RecoveryStep
<1> HIDE DEF n
<1>6. RegistryHoldsAccepted' /\ LastIsRight'
  BY <1>1, <1>4, <1>5, EvaluateRight
<1>7. Whole(v) <=> n = "original"
  BY <1>3, WholeAre
<1>8. Delegators(v) = {}
  BY <1>3, UnsignedHops
<1>9. passed' = IF n = "original" /\ \A w \in passed : ~Overlap(v, w) THEN passed \cup {v} ELSE passed
  BY <1>1, <1>5, <1>7, <1>8, RecordsAccepted DEF RegistryHoldsAccepted
<1>10. Overlap(v, v)
  BY DEF Overlap
<1>11. at = 0 => passed = {}
  <2>1. ASSUME at = 0 PROVE passed = {}
    <3>1. registry.ids = {}
      BY <2>1 DEF RecoveryStep, NoRegistry
    <3>2. registry.ids = {w.chain.chain_id : w \in passed}
      BY <1>1 DEF RegistryHoldsAccepted
    <3> QED BY <3>1, <3>2
  <2> QED BY <2>1
<1>12. /\ at \in 1..3 => passed = {}
       /\ at = 4 => passed = {Vector("original", FALSE)}
  <2>1. PICK alone : alone = {Vector("original", FALSE)}
    OBVIOUS
  <2>2. (at \in 1..3 => passed = {}) /\ (at \in 4..5 => passed = alone)
    BY <1>1, <2>1 DEF RecoveryAccepted
  <2>3. at = 4 => at \in 4..5
    OBVIOUS
  <2> QED BY <2>1, <2>2, <2>3
<1> HIDE DEF v
<1>13. /\ at \in 0..2 => passed' = {}
       /\ at = 3 => passed' = {v} /\ n = "original"
       /\ at = 4 => passed' = passed
  <2>1. CASE at \in 0..2
    BY <1>3, <1>9, <1>11, <1>12, <2>1
  <2>2. CASE at = 3
    BY <1>3, <1>9, <1>12, <2>2
  <2>3. CASE at = 4
    <3>1. n = "original"
      BY <1>3, <2>3
    <3>2. passed = {v}
      BY <1>12, <2>3, <3>1 DEF v
    <3> QED BY <1>9, <1>10, <2>3, <3>2
  <2> QED BY <1>2, <2>1, <2>2, <2>3
<1>14. RecoveryAccepted'
  <2>1. PICK alone : alone = {Vector("original", FALSE)}
    OBVIOUS
  <2>2. (n = "original" => {v} = alone) /\ (at = 4 => passed = alone)
    BY <1>12, <2>1 DEF v
  <2>3. at' \in 0..5
    BY <1>2
  <2>4. at' \in 1..3 => passed' = {}
    BY <1>2, <1>13
  <2>5. at' \in 4..5 => passed' = alone
    BY <1>2, <1>13, <2>2
  <2> QED BY <2>1, <2>3, <2>4, <2>5 DEF RecoveryAccepted
<1> QED BY <1>6, <1>14 DEF ChainInv

\* A submission.
LEMMA SubmitInv ==
  ASSUME ChainInv, NEW n \in Names, NEW signed \in BOOLEAN, NEW keys, NEW complete \in BOOLEAN, NEW narrowing \in BOOLEAN,
         Submit(n, signed, keys, complete, narrowing)
  PROVE  ChainInv'
<1>1. Evaluate(Vector(n, signed), keys, complete, narrowing) /\ at = 0 /\ at' = 0
  BY DEF Submit
<1>2. RegistryHoldsAccepted' /\ LastIsRight'
  BY <1>1, NamesAre, EvaluateRight DEF ChainInv
<1> QED BY <1>1, <1>2 DEF ChainInv, RecoveryAccepted

\* The runners that evaluate no vector against the registry of a file.
LEMMA AfreshInv ==
  ASSUME ChainInv, UNCHANGED <<registry, at, passed>>, LastIsRight'
  PROVE  ChainInv'
BY DEF ChainInv, RegistryHoldsAccepted, RecoveryAccepted

\* A pair of vectors, with and without a revocation.
LEMMA PairInv ==
  ASSUME ChainInv, NEW n \in {"original", "broken"}, MidHopPair(n) \/ RevokedAncestorPair(n)
  PROVE  ChainInv'
<1>1. n \in Names
  BY SignedIs
<1>2. PICK v, ref : v = Vector(n, FALSE) /\ ref = v.chain.hops[2].ref
  OBVIOUS
<1>3. v \in Vectors
  BY <1>1, <1>2, NamesAre
<1>4. /\ Verdict(WithRevocation(v, ref), NoRegistry, {}, FALSE, FALSE) = Verdict(v, NoRegistry, {}, FALSE, FALSE)
      /\ FrozenFailures(WithRevocation(v, ref), {}) = FrozenFailures(v, {})
  BY <1>3, RevocationBeside
<1>5. last'.by = "pair" /\ last'.baseline = last'.with_revocation
  <2>1. CASE MidHopPair(n)
    <3>1. last' = [by |-> "pair", baseline |-> Verdict(v, NoRegistry, {}, FALSE, FALSE),
                   with_revocation |-> Verdict(WithRevocation(v, ref), NoRegistry, {}, FALSE, FALSE)]
      BY <1>2, <2>1 DEF MidHopPair
    <3> QED BY <1>4, <3>1
  <2>2. CASE RevokedAncestorPair(n)
    <3>1. last' = [by |-> "pair", baseline |-> FrozenFailures(v, {}),
                   with_revocation |-> FrozenFailures(WithRevocation(v, ref), {})]
      BY <1>2, <2>2 DEF RevokedAncestorPair
    <3> QED BY <1>4, <3>1
  <2> QED BY <2>1, <2>2
<1>6. LastIsRight'
  BY <1>5 DEF LastIsRight
<1>7. UNCHANGED <<registry, at, passed>>
  BY DEF MidHopPair, RevokedAncestorPair
<1> QED BY <1>6, <1>7, AfreshInv

\* A case of verify_enforcement.
LEMMA EnforcementInv ==
  ASSUME ChainInv, NEW n \in Names, NEW signed \in BOOLEAN, NEW keys, NEW model \in {"default", "7.5"}, NEW revoked,
         EnforcementCase(n, signed, keys, model, revoked)
  PROVE  ChainInv'
<1>1. PICK v : v = Vector(n, signed)
  OBVIOUS
<1>2. v \in Vectors
  BY <1>1, NamesAre
<1>3. /\ last'.by = "frozen" /\ last'.vector = v /\ last'.keys = keys /\ last'.model = model
      /\ last'.revoked = revoked /\ last'.verdict = ModelVerdict(v, keys, model, revoked)
  BY <1>1 DEF EnforcementCase
<1>4. ModelVerdict(v, keys, model, revoked) = "PASS" <=>
        /\ Verdict(v, NoRegistry, keys, TRUE, TRUE) = "PASS"
        /\ model = "7.5" => {v.chain.hops[i].ref : i \in 1..(Len(v.chain.hops) - 1)} \cap revoked = {}
  <2>1. FrozenFailures(v, keys) = {} <=> Verdict(v, NoRegistry, keys, TRUE, TRUE) = "PASS"
    BY FrozenIs
  <2>2. Enforce75(v, revoked) = {} <=> {v.chain.hops[i].ref : i \in 1..(Len(v.chain.hops) - 1)} \cap revoked = {}
    BY <1>2, EnforcedIs
  <2>3. ModelVerdict(v, keys, model, revoked) = "PASS" <=>
          FrozenFailures(v, keys) = {} /\ (model = "7.5" => Enforce75(v, revoked) = {})
    BY DEF ModelVerdict
  <2> QED BY ONLY <2>1, <2>2, <2>3
<1>5. LastIsRight'
  <2>1. LastIsRight' <=>
          (last'.verdict = "PASS" <=>
             /\ Verdict(last'.vector, NoRegistry, last'.keys, TRUE, TRUE) = "PASS"
             /\ last'.model = "7.5" => {last'.vector.chain.hops[i].ref : i \in 1..(Len(last'.vector.chain.hops) - 1)} \cap last'.revoked = {})
    BY <1>3 DEF LastIsRight
  <2> QED BY <1>3, <1>4, <2>1
<1>6. UNCHANGED <<registry, at, passed>>
  BY DEF EnforcementCase
<1> QED BY <1>5, <1>6, AfreshInv

\* A case of leaf-screen-halt.
LEMMA LeafScreenInv ==
  ASSUME ChainInv, NEW n \in Names, LeafScreenCase(n)
  PROVE  ChainInv'
<1>1. PICK v : v = Vector(n, FALSE)
  OBVIOUS
<1>2. /\ last'.by = "leaf_screen" /\ last'.vector = v
      /\ last'.verdict = IF LeafScreenFailures(v) = {} THEN "PASS" ELSE "FAIL"
  BY <1>1 DEF LeafScreenCase
<1>3. Verdict(v, NoRegistry, {}, TRUE, TRUE) = IF LeafScreenFailures(v) = {} THEN "PASS" ELSE "FAIL"
  BY <1>1, UnsignedHops, LeafScreenIs
<1>4. LastIsRight'
  BY <1>2, <1>3 DEF LastIsRight
<1>5. UNCHANGED <<registry, at, passed>>
  BY DEF LeafScreenCase
<1> QED BY <1>4, <1>5, AfreshInv

\* Every step of the delegation-chain runners.
LEMMA ChainNextInv == ASSUME ChainInv, ChainNext PROVE ChainInv'
<1>1. ASSUME NEW n \in Names, NEW signed \in BOOLEAN, NEW complete \in BOOLEAN, NEW narrowing \in BOOLEAN, NEW keys \in KeySets,
             Submit(n, signed, keys, complete, narrowing)
      PROVE  ChainInv'
  BY <1>1, SubmitInv
<1>2. ASSUME Report PROVE ChainInv'
  <2>1. LastIsRight'
    BY <1>2 DEF Report, LastIsRight
  <2>2. UNCHANGED <<registry, at, passed>>
    BY <1>2 DEF Report
  <2> QED BY <2>1, <2>2, AfreshInv
<1>3. ASSUME NewFile PROVE ChainInv'
  <2>1. registry' = NoRegistry /\ at' = 0 /\ passed' = {} /\ last'.by = "none"
    BY <1>3 DEF NewFile
  <2>2. RegistryHoldsAccepted'
    <3>1. {w.chain.chain_id : w \in {}} = {} /\ UNION {Refs(w) : w \in {}} = {}
      OBVIOUS
    <3> QED BY <2>1, <3>1 DEF RegistryHoldsAccepted, NoRegistry
  <2> QED BY <2>1, <2>2 DEF ChainInv, RecoveryAccepted, LastIsRight
<1>4. ASSUME RecoveryStep PROVE ChainInv'
  BY <1>4, RecoveryStepInv
<1>5. ASSUME NEW n \in {"original", "broken"}, MidHopPair(n) \/ RevokedAncestorPair(n) PROVE ChainInv'
  BY <1>5, PairInv
<1>6. ASSUME NEW n \in Names, NEW signed \in BOOLEAN, NEW keys \in KeySets, NEW model \in {"default", "7.5"},
             NEW revoked \in SUBSET {"r1", "r2", "r3"}, EnforcementCase(n, signed, keys, model, revoked)
      PROVE  ChainInv'
  BY <1>6, EnforcementInv
<1>7. ASSUME NEW n \in Names, LeafScreenCase(n) PROVE ChainInv'
  BY <1>7, LeafScreenInv
<1> QED BY <1>1, <1>2, <1>3, <1>4, <1>5, <1>6, <1>7 DEF ChainNext

\* The verifiers of another kind leave the chains alone.
LEMMA ChainFrame == ASSUME ChainInv, UNCHANGED chainVars PROVE ChainInv'
BY DEF ChainInv, RegistryHoldsAccepted, RecoveryAccepted, LastIsRight, chainVars

\* Nothing has been accepted yet.
LEMMA ChainInitInv == ChainInit => ChainInv
<1> SUFFICES ASSUME ChainInit PROVE ChainInv
  OBVIOUS
<1>1. {w.chain.chain_id : w \in {}} = {} /\ UNION {Refs(w) : w \in {}} = {}
  OBVIOUS
<1>2. RegistryHoldsAccepted
  BY <1>1 DEF ChainInit, RegistryHoldsAccepted, NoRegistry
<1> QED BY <1>2 DEF ChainInit, ChainInv, RecoveryAccepted, LastIsRight

\* What the registry holds once the recovery file's fourth vector has run.
LEMMA ChainInvImplies == ChainInv => FailedAttemptsDoNotCount
<1> SUFFICES ASSUME ChainInv PROVE FailedAttemptsDoNotCount
  OBVIOUS
<1>1. /\ registry.ids = {w.chain.chain_id : w \in passed} /\ registry.refs = UNION {Refs(w) : w \in passed}
  BY DEF ChainInv, RegistryHoldsAccepted
<1>2. at \in 0..5
  BY DEF ChainInv, RecoveryAccepted
<1>3. CASE at \in 1..3
  <2>1. passed = {}
    BY <1>3 DEF ChainInv, RecoveryAccepted
  <2>2. registry.ids = {} /\ registry.refs = {}
    BY <1>1, <2>1
  <2>3. Cardinality(registry.ids) = 0 /\ Cardinality(registry.refs) = 0
    BY <2>2, FS_EmptySet
  <2> QED BY <1>3, <2>3 DEF FailedAttemptsDoNotCount, ChainInv, RegistryHoldsAccepted
<1>4. CASE at \in 4..5
  <2>1. PICK v : v = Vector("original", FALSE)
    OBVIOUS
  <2>2. passed = {v}
    BY <1>4, <2>1 DEF ChainInv, RecoveryAccepted
  <2>3. v.chain.hops = <<O1(FALSE), O2(FALSE), O3(FALSE)>>
    <3>1. "original" \in Names
      BY SignedIs
    <3> QED BY <2>1, <3>1, VectorParts DEF HopsOf
  <2>4. PICK a, b, c : v.chain.hops = <<a, b, c>> /\ a.ref = "r1" /\ b.ref = "r2" /\ c.ref = "r3"
    <3>1. O1(FALSE).ref = "r1" /\ O2(FALSE).ref = "r2" /\ O3(FALSE).ref = "r3"
      BY DEF O1, O2, O3, Kept
    <3> QED BY <2>3, <3>1
  <2>5. \A x, y, z : DOMAIN <<x, y, z>> = {1, 2, 3} /\ <<x, y, z>>[1] = x /\ <<x, y, z>>[2] = y /\ <<x, y, z>>[3] = z
    OBVIOUS
  <2>6. Refs(v) = {"r1", "r2", "r3"}
    BY <2>4, <2>5 DEF Refs
  <2>7. registry.ids = {v.chain.chain_id} /\ registry.refs = {"r1", "r2", "r3"}
    BY <1>1, <2>2, <2>6
  <2>8. Cardinality({v.chain.chain_id}) = 1
    BY FS_Singleton
  <2>9. Cardinality({"r1", "r2", "r3"}) = 3
    <3>1. IsFiniteSet({"r1"}) /\ Cardinality({"r1"}) = 1
      BY FS_Singleton
    <3>2. IsFiniteSet({"r1"} \cup {"r2"}) /\ Cardinality({"r1"} \cup {"r2"}) = 2
      BY <3>1, FS_AddElement
    <3>3. Cardinality(({"r1"} \cup {"r2"}) \cup {"r3"}) = 3
      BY <3>2, FS_AddElement
    <3>4. ({"r1"} \cup {"r2"}) \cup {"r3"} = {"r1", "r2", "r3"}
      OBVIOUS
    <3> QED BY <3>3, <3>4
  <2>10. Cardinality(registry.ids) = 1 /\ Cardinality(registry.refs) = 3
    BY <2>7, <2>8, <2>9
  <2> QED BY <1>4, <2>10 DEF FailedAttemptsDoNotCount, ChainInv, RegistryHoldsAccepted
<1>5. CASE at = 0
  BY <1>5 DEF FailedAttemptsDoNotCount, ChainInv, RegistryHoldsAccepted
<1> QED BY <1>2, <1>3, <1>4, <1>5

\* A delegation chain is accepted exactly when it was delegated so and nothing
\* accepted before overlaps it, whatever failed before it, and the copies of the
\* verifier agree (delegation-chain-ref, evaluate_vector and SeenRegistry).
THEOREM FailedAttemptsHolds == Spec => []FailedAttemptsDoNotCount
<1>1. Init => ChainInv
  BY ChainInitInv DEF Init
<1>2. ChainInv /\ [Next]_verifierVars => ChainInv'
  <2> SUFFICES ASSUME ChainInv, [Next]_verifierVars PROVE ChainInv'
    OBVIOUS
  <2>1. CASE ChainNext
    BY <2>1, ChainNextInv
  <2>2. CASE UNCHANGED chainVars
    BY <2>2, ChainFrame
  <2>3. ChainNext \/ UNCHANGED chainVars
    BY DEF Next, verifierVars
  <2> QED BY <2>1, <2>2, <2>3
<1> QED BY <1>1, <1>2, ChainInvImplies, PTL DEF Spec

-----------------------------------------------------------------------------
(* The guards of the retry examples.                                          *)

\* Whatever is re-dispatched, changed, lost or raised on either side of its
\* commit, each guard lets through what it says it does, and answers a call with
\* the effect of a call that is its equal (crewai-unguarded-retry and
\* idempotency-ref-v1.1), for any number of attempts, proposals and restarts.
THEOREM OneEffectHolds == Spec => []OneEffectPerLogicalAction
<1>1. Init => ToolInv
  BY ToolInitInv DEF Init
<1>2. ToolInv /\ [Next]_verifierVars => ToolInv'
  <2> SUFFICES ASSUME ToolInv, [Next]_verifierVars PROVE ToolInv'
    OBVIOUS
  <2>1. CASE ToolNext
    BY <2>1, ToolNextInv
  <2>2. CASE UNCHANGED toolVars
    BY <2>2, ToolFrame
  <2>3. ToolNext \/ UNCHANGED toolVars
    BY DEF Next, verifierVars
  <2> QED BY <2>1, <2>2, <2>3
<1> QED BY <1>1, <1>2, ToolInvImplies, PTL DEF Spec
=============================================================================
