-------------------------- MODULE NegotiationRefs --------------------------
(***************************************************************************)
(* negotiation_ref and its status, from the two handlers that write them.   *)
(*                                                                          *)
(* POST /webhook/docuseal: a signed document becomes a trail, through the   *)
(* Pioneer service or, when it does not answer 200, directly. The handler   *)
(* awaits the document and then Pioneer; DocuSeal delivers at least once,   *)
(* so several deliveries of one submission may be in flight.                *)
(*                                                                          *)
(* POST /nexus/trail: the caller reports the pair, which is normalised and  *)
(* checked before the trail is recorded.                                    *)
(***************************************************************************)
EXTENDS Naturals, Sequences, FiniteSets

CONSTANTS
  Delivery  \* deliveries of the completed event of one submission

VARIABLES
  docu,          \* Delivery -> where its handler stands
  negotiation,   \* Delivery -> <<negotiation_ref, negotiation_ref_status>>
  pioneerTrails, \* trails Pioneer recorded: the delivery and the pair it was sent
  localTrails,   \* trails record_trail recorded here
  silentPioneer, \* history: deliveries whose request Pioneer served without a 200 arriving
  capped,        \* history: deliveries whose record_trail was refused
  nexusPairs     \* pairs stored by /nexus/trail, with the ref its caller sent

docuVars ==
  <<docu, negotiation, pioneerTrails, localTrails, silentPioneer, capped, nexusPairs>>

DocuInit ==
  /\ docu = [d \in Delivery |-> "unsent"]
  /\ negotiation = [d \in Delivery |-> <<"null", "null">>]
  /\ pioneerTrails = {}
  /\ localTrails = {}
  /\ silentPioneer = {}
  /\ capped = {}
  /\ nexusPairs = {}

NEGOTIATION_REF_STATUSES ==
  {"ok", "no_document", "not_allowlisted", "unreachable", "http_error", "empty_body",
   "malformed_empty"}

\* _safe_docuseal_url: https, a DocuSeal host, no private address, no error.
SafeDocusealUrl(url) == url.https /\ url.host = "docuseal" /\ url.resolves = "public"

Urls ==
  [https : BOOLEAN, host : {"docuseal", "other"}, resolves : {"public", "private", "error"}]

\* The token and the event type are right; the others end without an effect.
DocuReceive(d) ==
  /\ docu[d] = "unsent"
  /\ docu' = [docu EXCEPT ![d] = "fetch"]
  /\ UNCHANGED <<negotiation, pioneerTrails, localTrails, silentPioneer, capped, nexusPairs>>

DocuReject(d) ==
  /\ docu[d] = "unsent"
  /\ docu' = [docu EXCEPT ![d] = "refused"]
  /\ UNCHANGED <<negotiation, pioneerTrails, localTrails, silentPioneer, capped, nexusPairs>>

\* _fetch_negotiation_ref: urls holds the document's url, or is empty.
FetchNegotiationRef(urls, answer) ==
  CASE urls = {} -> <<"null", "no_document">>
    [] urls # {} /\ \A u \in urls : ~SafeDocusealUrl(u) -> <<"null", "not_allowlisted">>
    [] OTHER -> IF answer = "ok" THEN <<"sha256", "ok">> ELSE <<"null", answer>>

DocuFetch(d, urls, answer) ==
  /\ docu[d] = "fetch"
  /\ negotiation' = [negotiation EXCEPT ![d] = FetchNegotiationRef(urls, answer)]
  /\ docu' = [docu EXCEPT ![d] = "pioneer"]
  /\ UNCHANGED <<pioneerTrails, localTrails, silentPioneer, capped, nexusPairs>>

\* Mutant of DocuPioneer: an exception counts as an answer.
DocuPioneerAlwaysOk(d, served, answered) ==
  /\ docu[d] = "pioneer"
  /\ answered => served
  /\ pioneerTrails' = IF served THEN pioneerTrails \cup {<<d, negotiation[d]>>} ELSE pioneerTrails
  /\ silentPioneer' = IF served /\ ~answered THEN silentPioneer \cup {d} ELSE silentPioneer
  /\ docu' = [docu EXCEPT ![d] = "done"]
  /\ UNCHANGED <<negotiation, localTrails, capped, nexusPairs>>

\* The POST to Pioneer: served and answered 200, not served, or served without
\* the answer arriving within the 15 s timeout.
DocuPioneer(d, served, answered) ==
  /\ docu[d] = "pioneer"
  /\ answered => served
  /\ pioneerTrails' = IF served THEN pioneerTrails \cup {<<d, negotiation[d]>>} ELSE pioneerTrails
  /\ silentPioneer' = IF served /\ ~answered THEN silentPioneer \cup {d} ELSE silentPioneer
  /\ docu' = [docu EXCEPT ![d] = IF answered THEN "done" ELSE "fallback"]
  /\ UNCHANGED <<negotiation, localTrails, capped, nexusPairs>>

\* record_trail under pioneer-agent-001's own quota; the answer is the same
\* "trail_triggered" when it is refused.
DocuFallback(d, refused) ==
  /\ docu[d] = "fallback"
  /\ localTrails' = IF refused THEN localTrails ELSE localTrails \cup {<<d, negotiation[d]>>}
  /\ capped' = IF refused THEN capped \cup {d} ELSE capped
  /\ docu' = [docu EXCEPT ![d] = "done"]
  /\ UNCHANGED <<negotiation, pioneerTrails, silentPioneer, nexusPairs>>

\* The process stops while it serves d; DocuSeal delivers again.
DocuStop(d) ==
  /\ docu[d] \in {"fetch", "pioneer", "fallback"}
  /\ docu' = [docu EXCEPT ![d] = "lost"]
  /\ UNCHANGED <<negotiation, pioneerTrails, localTrails, silentPioneer, capped, nexusPairs>>

-----------------------------------------------------------------------------
(* /nexus/trail. A caller's "" is stored as NULL.                           *)

StoredRef(ref) == IF ref = "" THEN "null" ELSE ref

NexusStatus(ref, status) ==
  IF ref = "" /\ status = "null" THEN "malformed_empty" ELSE status

NexusNegotiation(ref, status) ==
  LET kept == StoredRef(ref)
      said == NexusStatus(ref, status)
  IN
  /\ said # "null" => /\ said \in NEGOTIATION_REF_STATUSES
                      /\ (said = "ok") = (kept # "null")
  /\ nexusPairs' = nexusPairs \cup {<<ref, kept, said>>}
  /\ UNCHANGED <<docu, negotiation, pioneerTrails, localTrails, silentPioneer, capped>>

DocuNext ==
  \E d \in Delivery :
    \/ DocuReceive(d)
    \/ DocuReject(d)
    \/ \E urls \in {{}} \cup {{u} : u \in Urls},
          answer \in {"ok", "unreachable", "http_error", "empty_body"} : DocuFetch(d, urls, answer)
    \/ \E served, answered \in BOOLEAN : DocuPioneer(d, served, answered)
    \/ \E refused \in BOOLEAN : DocuFallback(d, refused)
    \/ DocuStop(d)

NegotiationNext ==
  \/ DocuNext
  \/ \E ref \in {"null", "", "sha256"}, status \in {"null", "ok", "unreachable", "other"} :
       NexusNegotiation(ref, status)

(***************************************************************************)
(* /webhook/docuseal: a delivery answered "trail_triggered" has a trail,    *)
(* unless record_trail's quota refused it; it has two only if Pioneer       *)
(* served it without answering in time. Each trail, of this handler or of   *)
(* /nexus/trail, carries a negotiation_ref exactly when its status is "ok"  *)
(* (a caller of /nexus/trail may also report no status), and an artefact    *)
(* that could not be read never looks like no negotiation at all.           *)
(***************************************************************************)
DocuSealTrails ==
  LET Of(trails, d) == {t \in trails : t[1] = d} IN
  /\ \A d \in Delivery :
       LET n == Cardinality(Of(pioneerTrails, d)) + Cardinality(Of(localTrails, d)) IN
       /\ docu[d] = "done" /\ n = 0 => d \in capped
       /\ n > 1 => d \in silentPioneer
       /\ docu[d] \in {"unsent", "refused"} => n = 0
  /\ \A t \in pioneerTrails \cup localTrails :
       t[2][2] \in NEGOTIATION_REF_STATUSES /\ (t[2][1] = "sha256" <=> t[2][2] = "ok")
  /\ \A p \in nexusPairs :
       /\ p[3] # "null" => (p[2] = "sha256" <=> p[3] = "ok")
       /\ p[1] = "" => p[3] # "null"

-----------------------------------------------------------------------------
(* The inductive invariant.                                                 *)

Pair == {"null", "sha256"} \X ({"null"} \cup NEGOTIATION_REF_STATUSES)
Sound(pair) == pair[2] \in NEGOTIATION_REF_STATUSES /\ (pair[1] = "sha256" <=> pair[2] = "ok")

\* The trails of a delivery carry the pair its handler fetched.
DeliveryStage ==
  /\ docu \in [Delivery -> {"unsent", "refused", "fetch", "pioneer", "fallback", "done", "lost"}]
  /\ negotiation \in [Delivery -> Pair]
  /\ \A t \in pioneerTrails \cup localTrails :
       t[1] \in Delivery /\ t = <<t[1], negotiation[t[1]]>>
  /\ \A d \in Delivery :
       LET trail == <<d, negotiation[d]>> IN
       /\ docu[d] \in {"unsent", "refused", "fetch", "pioneer"} => trail \notin pioneerTrails
       /\ docu[d] # "done" => trail \notin localTrails
       /\ docu[d] = "fallback" /\ trail \in pioneerTrails => d \in silentPioneer
       /\ docu[d] \in {"pioneer", "fallback", "done"} => Sound(negotiation[d])

DocuInv ==
  /\ DeliveryStage
  /\ DocuSealTrails
=============================================================================
