---------------------------- MODULE EvidenceAnchor ----------------------------
(***************************************************************************)
(* Evidence and the trail rows that are to hold it: the derivations of      *)
(* action_ref, the two anchor plugins (the current one and the older        *)
(* mycelium_evidence_anchor) and the endpoints of the service they call.    *)
(*                                                                          *)
(* Rows are written by /nexus/trail, whose payment_hash becomes the row's   *)
(* delegation_ref, and by /external/trail, which stores no hash and links   *)
(* its action_ref in a second statement. A receipt is whatever a caller     *)
(* kept: an action_ref and agent, or only a trail_id.                       *)
(***************************************************************************)
EXTENDS Naturals, Sequences

CONSTANTS
  MaxStored,  \* bound: rows in trails.db
  MaxChecks   \* bound: verifications

ASSUME EvidenceAnchorAssumption == MaxStored \in Nat /\ MaxChecks \in Nat

Plugins == {"agt", "mycelium"}
Hashes == {"h", "g"}
NoHash == "null"
NoRefGiven == <<>>

VARIABLES
  stored,      \* trails.db: agent, ref, the ref due to be linked, hash (the
               \* delegation_ref), tx
  kept,        \* the receipt a caller kept
  checks       \* its verifications so far (history)

anchorVars == <<stored, kept, checks>>

-----------------------------------------------------------------------------
(* action_ref. A digest is the preimage it is the digest of. A name is      *)
(* ASCII, or not, and then spelt in one of two compositions; a timestamp is *)
(* the instant in RFC 3339 or epoch ms, or something refused.               *)

Fields == [agent : {"a", "nfc", "nfd"}, scope : {"s", ""},
           ts : {"rfc3339", "epoch_ms", "epoch_far", "no_instant", "malformed"}]

\* _validate_domain: the field that is out of profile, or "ok".
ValidateDomain(f, allowEpochMs) ==
  CASE f.agent # "a" -> "agent_id"
    [] f.agent = "a" /\ f.scope = "" -> "scope"
    [] f.agent = "a" /\ f.scope # "" ->
         IF f.ts = "rfc3339" \/ (allowEpochMs /\ f.ts = "epoch_ms") THEN "ok" ELSE "timestamp"

Jcs(f) == <<f.agent, f.scope, f.ts>>

OutOfProfile == "OUT_OF_PROFILE_DOMAIN"

ComputeActionRef(f) == IF ValidateDomain(f, FALSE) = "ok" THEN <<"v1", Jcs(f)>> ELSE <<OutOfProfile>>

ComputeActionRefV2(f) == IF ValidateDomain(f, FALSE) = "ok" THEN <<"v2", Jcs(f)>> ELSE <<OutOfProfile>>

ActionRefVersion(ref) == IF ref[1] \in {"v1", "v2"} THEN ref[1] ELSE "unrecognized"

\* The older plugin: a hash space of its own, over NFC names.
ComputeMyceliumRef(f) ==
  <<"mycelium", Jcs([f EXCEPT !.agent = IF @ = "nfd" THEN "nfc" ELSE @])>>

PluginRef(plugin, f) == IF plugin = "agt" THEN ComputeActionRef(f) ELSE ComputeMyceliumRef(f)

\* The reference /nexus/trail derives, with the epoch-ms of NEXUS packets.
NexusRef(f) == IF ValidateDomain(f, TRUE) = "ok" THEN <<"v1", Jcs(f)>> ELSE <<OutOfProfile>>

Recorded(ts) == [agent |-> "a", scope |-> "s", ts |-> ts]
AnchorRefs == {NexusRef(Recorded("rfc3339")), NexusRef(Recorded("epoch_ms")), ComputeMyceliumRef(Recorded("rfc3339"))}

-----------------------------------------------------------------------------
(* The service                                                              *)

\* A receipt with a reference, where the transaction is known or not, or with
\* the trail_id alone; 0 is a trail of the marketplace.
Receipts ==
  {[ref |-> ref, id |-> 0, tx |-> tx] : ref \in AnchorRefs, tx \in BOOLEAN}
  \cup {[ref |-> NoRefGiven, id |-> id, tx |-> FALSE] : id \in 0..MaxStored}

AnchorInit ==
  /\ stored = <<>>
  /\ kept \in Receipts
  /\ checks = <<>>

\* /nexus/trail: the domain, then the reference recomputed from the preimage.
\* The row is inserted without it.
NexusStored(f, ref, hash) ==
  /\ Len(stored) < MaxStored
  /\ ValidateDomain(f, TRUE) = "ok" /\ ref = NexusRef(f)
  /\ stored' = Append(stored, [agent |-> f.agent, ref |-> NoRefGiven, due |-> ref, hash |-> hash, tx |-> "none"])
  /\ UNCHANGED <<kept, checks>>

\* /external/trail: any reference of the v1 form, no hash, never anchored.
ExternalStored(agent, ref) ==
  /\ Len(stored) < MaxStored
  /\ ActionRefVersion(ref) = "v1"
  /\ stored' = Append(stored, [agent |-> agent, ref |-> NoRefGiven, due |-> ref, hash |-> NoHash, tx |-> "never"])
  /\ UNCHANGED <<kept, checks>>

\* The UPDATE of either that sets action_ref.
RefLinked(i) ==
  /\ stored[i].ref = NoRefGiven
  /\ stored' = [stored EXCEPT ![i].ref = stored[i].due]
  /\ UNCHANGED <<kept, checks>>

\* The background anchor of a nexus trail stores its transaction.
TxStored(i) ==
  /\ stored[i].tx = "none" /\ stored[i].ref # NoRefGiven
  /\ stored' = [stored EXCEPT ![i].tx = "sent"]
  /\ UNCHANGED <<kept, checks>>

GetTrailByActionRef(agent, ref) == {i \in DOMAIN stored : stored[i].agent = agent /\ stored[i].ref = ref}

GetTrailByPaymentHash(hash) == {i \in DOMAIN stored : stored[i].hash = hash}

\* Answers: row 0 is a trail of the marketplace, which has no trail_id field.
NotFound == [code |-> 404]
Answer200(verified, i) == [code |-> 200, verified |-> verified, row |-> i]

\* GET /trails/verify. The rows of a pair are not unique; fetchone takes any.
TrailsVerify(hash, agent, ref) ==
  LET found == IF hash # NoHash THEN GetTrailByPaymentHash(hash) ELSE GetTrailByActionRef(agent, ref) IN
  IF hash = NoHash /\ ref = NoRefGiven THEN {[code |-> 422]}
  ELSE IF found = {} THEN {NotFound} ELSE {Answer200(TRUE, i) : i \in found}

\* GET /trails/{trail_id}: the marketplace first, then trails.db.
GetTrail(id) ==
  IF id = 0 \/ id \in DOMAIN stored THEN {Answer200(FALSE, id)} ELSE {NotFound}

-----------------------------------------------------------------------------
(* verify()                                                                 *)

Checked(status, proof) == [status |-> status, proof |-> proof]
Unavailable == Checked("BACKEND_UNAVAILABLE", FALSE)

HasTx(i) == stored[i].tx = "sent"

\* Mutant of AgtVerdict: claims and payment_hash read at the top level, where
\* the answers never have them.
AgtVerdictTopLevel(answer, hash, tx) ==
  CASE answer.code = 404 -> Checked("NOT_FOUND", FALSE)
    [] answer.code \notin {200, 404} -> Unavailable
    [] answer.code = 200 ->
         IF answer.row = 0 THEN Checked("NOT_FOUND", FALSE)
         ELSE Checked("VERIFIED", HasTx(answer.row) \/ tx)

\* MyceliumAnchor.verify of plugins/agt_evidence_anchor, on the answer.
AgtVerdict(answer, hash, tx) ==
  CASE answer.code = 404 -> Checked("NOT_FOUND", FALSE)
    [] answer.code \notin {200, 404} -> Unavailable
    [] answer.code = 200 ->
         IF ~answer.verified /\ answer.row = 0 THEN Checked("NOT_FOUND", FALSE)
         ELSE IF stored[answer.row].hash \notin {NoHash, hash} THEN Checked("HASH_MISMATCH", FALSE)
         ELSE Checked("VERIFIED", HasTx(answer.row) \/ tx)

\* The older plugin: a 404 is an HTTP error like any other, the hash is read
\* where it never is, and so is tx_hash in the answer of /trails/verify.
MyceliumVerdict(answer, hash, tx) ==
  IF answer.code # 200 THEN Unavailable
  ELSE IF ~answer.verified /\ answer.row = 0 THEN Checked("NOT_FOUND", FALSE)
  ELSE Checked("VERIFIED", tx \/ (~answer.verified /\ HasTx(answer.row)))

\* The answers to the receipt's question, the failed request included.
Fetched(receipt) ==
  {[code |-> 503]} \cup (IF receipt.ref # NoRefGiven THEN TrailsVerify(NoHash, "a", receipt.ref)
                         ELSE GetTrail(receipt.id))

Verify(plugin, hash) ==
  /\ Len(checks) < MaxChecks
  /\ \E answer \in Fetched(kept) :
       checks' = Append(checks,
         [plugin |-> plugin, hash |-> hash,
          verdict |-> IF plugin = "agt" THEN AgtVerdict(answer, hash, kept.tx)
                      ELSE MyceliumVerdict(answer, hash, kept.tx)])
  /\ UNCHANGED <<stored, kept>>

-----------------------------------------------------------------------------
(* anchor(): a POST to /trails, which is the marketplace's registration     *)

TrailRegister == {"author_id", "author_name", "name", "description", "steps", "price_sats"}

Payload == {"agent_id", "service", "operation", "action_ref", "payment_hash", "timestamp", "claims",
            "success", "scope", "parent_trail_id", "root_trail_id"}

\* It writes nothing unless the service accepts the payload. agt stamps its own
\* time in RFC 3339, the other whole seconds.
AnchorAnswer(plugin, f) ==
  IF PluginRef(plugin, [f EXCEPT !.ts = "rfc3339"]) = <<OutOfProfile>> THEN "OutOfProfileDomainError"
  ELSE IF TrailRegister \subseteq Payload THEN "receipt" ELSE "RuntimeError"

AnchorNext ==
  \/ \E ts \in {"rfc3339", "epoch_ms"}, ref \in AnchorRefs, hash \in Hashes \cup {NoHash} :
       NexusStored(Recorded(ts), ref, hash)
  \/ \E agent \in {"a", "b"}, ref \in AnchorRefs : ExternalStored(agent, ref)
  \/ \E i \in DOMAIN stored : RefLinked(i)
  \/ \E i \in DOMAIN stored : TxStored(i)
  \/ \E plugin \in Plugins : Verify(plugin, "h")

-----------------------------------------------------------------------------

\* Of the fields of an action one spelling is accepted, the row /nexus/trail
\* makes of it is found by it, and the hash spaces share nothing.
RefsAgree ==
  \A f, g \in Fields :
    /\ ComputeActionRef(f) # <<OutOfProfile>> =>
         /\ ComputeActionRef(f) = NexusRef(f)
         /\ f # g => ComputeActionRef(g) # ComputeActionRef(f)
         /\ f.agent = g.agent /\ f.scope = g.scope /\ f # g => ComputeActionRef(g) = <<OutOfProfile>>
         /\ ActionRefVersion(ComputeActionRef(f)) = "v1"
         /\ ActionRefVersion(ComputeActionRefV2(f)) = "v2"
    /\ ComputeMyceliumRef(f) \notin {ComputeActionRef(g), ComputeActionRefV2(g), NexusRef(g)}

AnchorNeverAnswers == \A p \in Plugins, f \in Fields : AnchorAnswer(p, f) # "receipt"

\* The rows the receipt may be about.
Named ==
  IF kept.ref # NoRefGiven THEN GetTrailByActionRef("a", kept.ref) ELSE {kept.id} \cap DOMAIN stored

(***************************************************************************)
(* What verify() says of evidence. The current plugin's VERIFIED names a    *)
(* row that holds the hash or holds none, and a hash it holds can be looked *)
(* up by anyone; its HASH_MISMATCH a row that holds another; neither is     *)
(* ever followed by NOT_FOUND, and the two can only contradict each other   *)
(* over a pair of rows with one (agent_id, action_ref). The older plugin    *)
(* tells no hash from another and an absent row from a failed request: all  *)
(* its VERIFIED means is that some row is there. A proof is claimed only    *)
(* with a transaction on a row, or in the receipt. No receipt comes from    *)
(* anchor() itself, and the derivations of action_ref agree.                *)
(***************************************************************************)
VerifiedIsRecorded ==
  /\ \A k \in DOMAIN checks :
       LET c == checks[k]
           held == {stored[i].hash : i \in Named}
       IN /\ c.verdict.status = "VERIFIED" => Named # {}
          /\ c.verdict.status = "VERIFIED" /\ c.plugin = "agt" =>
               held \cap {c.hash, NoHash} # {} /\ (NoHash \notin held => GetTrailByPaymentHash(c.hash) # {})
          /\ c.verdict.status = "HASH_MISMATCH" => c.plugin = "agt" /\ held \ {c.hash, NoHash} # {}
          /\ c.verdict.status = "NOT_FOUND" /\ c.plugin = "mycelium" => kept.ref = NoRefGiven /\ kept.id = 0
          /\ c.verdict.proof => kept.tx \/ \E i \in Named : HasTx(i)
  /\ \A j, k \in DOMAIN checks :
       LET first == checks[j].verdict.status
           second == checks[k].verdict.status
       IN j < k /\ checks[j].plugin = "agt" /\ checks[k].plugin = "agt"
            /\ first \in {"VERIFIED", "HASH_MISMATCH"} =>
            /\ second # "NOT_FOUND"
            /\ second \in {first, "BACKEND_UNAVAILABLE"} \/ \E x, y \in Named : x # y
  /\ RefsAgree /\ AnchorNeverAnswers

-----------------------------------------------------------------------------
(* The inductive invariant behind VerifiedIsRecorded: what a verdict said is  *)
(* still true of the rows, which keep their hash, a reference once linked and *)
(* a transaction once stored.                                                 *)

StoredRow ==
  [agent : {"a", "b"}, ref : AnchorRefs \cup {NoRefGiven}, due : AnchorRefs,
   hash : Hashes \cup {NoHash}, tx : {"none", "sent", "never"}]
Statuses == {"VERIFIED", "NOT_FOUND", "HASH_MISMATCH", "BACKEND_UNAVAILABLE"}
CheckRow == [plugin : Plugins, hash : {"h"}, verdict : [status : Statuses, proof : BOOLEAN]]

AnchorTypeOK == stored \in Seq(StoredRow) /\ kept \in Receipts /\ checks \in Seq(CheckRow)

\* Some row the receipt may be about holds the hash or none; or another one.
HeldOrNone == \E i \in Named : stored[i].hash \in {"h", NoHash}
HeldOther == \E i \in Named : stored[i].hash \notin {"h", NoHash}

CheckStands(c) ==
  /\ c.verdict.status = "VERIFIED" => Named # {} /\ (c.plugin = "agt" => HeldOrNone)
  /\ c.verdict.status = "HASH_MISMATCH" => c.plugin = "agt" /\ HeldOther
  /\ c.verdict.status = "NOT_FOUND" /\ c.plugin = "mycelium" => kept.ref = NoRefGiven /\ kept.id = 0
  /\ c.verdict.proof => kept.tx \/ \E i \in Named : HasTx(i)

NeverLost ==
  \A j, k \in DOMAIN checks :
    /\ j < k /\ checks[j].plugin = "agt" /\ checks[k].plugin = "agt"
    /\ checks[j].verdict.status \in {"VERIFIED", "HASH_MISMATCH"}
    => checks[k].verdict.status # "NOT_FOUND"

AnchorInv == AnchorTypeOK /\ (\A k \in DOMAIN checks : CheckStands(checks[k])) /\ NeverLost
=============================================================================
