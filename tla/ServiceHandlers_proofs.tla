------------------------ MODULE ServiceHandlers_proofs ------------------------
(* Machine-checked proofs about the request handlers of ServiceHandlers, for  *)
(* any signatures, raters, action_refs, deliveries and bounds.                *)
EXTENDS ServiceHandlers, SumLemmas, TLAPS

-----------------------------------------------------------------------------
(* /webhook/docuseal and the pairs of /nexus/trail.                          *)

\* The trails of delivery d among some trails.
TrailsOf(trails, d) == {t \in trails : t[1] = d}

\* What DocuSealTrails says of one delivery, of the trails and of the pairs.
DeliveryTraced(d) ==
  LET n == Cardinality(TrailsOf(pioneerTrails, d)) + Cardinality(TrailsOf(localTrails, d)) IN
  /\ docu[d] = "done" /\ n = 0 => d \in capped
  /\ n > 1 => d \in silentPioneer
  /\ docu[d] \in {"unsent", "refused"} => n = 0
TrailSound(t) ==
  t[2][2] \in NEGOTIATION_REF_STATUSES /\ (t[2][1] = "sha256" <=> t[2][2] = "ok")
PairSound(p) ==
  /\ p[3] # "null" => (p[2] = "sha256" <=> p[3] = "ok")
  /\ p[1] = "" => p[3] # "null"

\* DocuSealTrails, by part.
LEMMA DocuSealIs ==
  DocuSealTrails <=>
    /\ \A d \in Delivery : DeliveryTraced(d)
    /\ \A t \in pioneerTrails \cup localTrails : TrailSound(t)
    /\ \A p \in nexusPairs : PairSound(p)
BY DEF DocuSealTrails, DeliveryTraced, TrailsOf, TrailSound, PairSound

\* A delivery has at most one trail with Pioneer and one here, so counting them is
\* asking for each.
LEMMA TrailCount ==
  ASSUME NEW trails, NEW d, NEW pair,
         \A t \in trails : t[1] = d => t = <<d, pair>>
  PROVE  /\ <<d, pair>> \in trails => Cardinality(TrailsOf(trails, d)) = 1
         /\ <<d, pair>> \notin trails => Cardinality(TrailsOf(trails, d)) = 0
<1>1. CASE <<d, pair>> \in trails
  <2>1. TrailsOf(trails, d) = {<<d, pair>>}
    BY <1>1 DEF TrailsOf
  <2> QED BY <1>1, <2>1, FS_Singleton
<1>2. CASE <<d, pair>> \notin trails
  <2>1. TrailsOf(trails, d) = {}
    BY <1>2 DEF TrailsOf
  <2> QED BY <1>2, <2>1, FS_EmptySet
<1> QED BY <1>1, <1>2

\* A delivery is traced when it has a trail, was refused one, or is still on its way.
LEMMA TracedIs ==
  ASSUME NEW d \in Delivery,
         \A t \in pioneerTrails \cup localTrails : t[1] = d => t = <<d, negotiation[d]>>
  PROVE  DeliveryTraced(d) <=>
           LET trail == <<d, negotiation[d]>> IN
           /\ docu[d] = "done" => d \in capped \/ trail \in pioneerTrails \cup localTrails
           /\ trail \in pioneerTrails /\ trail \in localTrails => d \in silentPioneer
           /\ docu[d] \in {"unsent", "refused"} => trail \notin pioneerTrails \cup localTrails
<1> DEFINE trail == <<d, negotiation[d]>>
           m == Cardinality(TrailsOf(pioneerTrails, d))
           n == Cardinality(TrailsOf(localTrails, d))
<1>1. m = IF trail \in pioneerTrails THEN 1 ELSE 0
  BY TrailCount
<1>2. n = IF trail \in localTrails THEN 1 ELSE 0
  BY TrailCount
<1>3. DeliveryTraced(d) <=> /\ docu[d] = "done" /\ m + n = 0 => d \in capped
                            /\ m + n > 1 => d \in silentPioneer
                            /\ docu[d] \in {"unsent", "refused"} => m + n = 0
  BY DEF DeliveryTraced
<1> HIDE DEF trail, m, n
<1>4. DeliveryTraced(d) <=>
        /\ docu[d] = "done" => d \in capped \/ trail \in pioneerTrails \cup localTrails
        /\ trail \in pioneerTrails /\ trail \in localTrails => d \in silentPioneer
        /\ docu[d] \in {"unsent", "refused"} => trail \notin pioneerTrails \cup localTrails
  BY <1>1, <1>2, <1>3
<1> QED BY <1>4 DEF trail

\* Where a delivery stands, without counting.
Standing(d) ==
  LET trail == <<d, negotiation[d]>> IN
  /\ docu[d] \in {"unsent", "refused", "fetch", "pioneer"} => trail \notin pioneerTrails
  /\ docu[d] # "done" => trail \notin localTrails
  /\ trail \in pioneerTrails /\ (docu[d] = "fallback" \/ trail \in localTrails) => d \in silentPioneer
  /\ docu[d] = "done" => d \in capped \/ trail \in pioneerTrails \cup localTrails
  /\ docu[d] \in {"pioneer", "fallback", "done"} => Sound(negotiation[d])

\* Each trail carries the pair of its delivery.
Labelled(t) == t[1] \in Delivery /\ t = <<t[1], negotiation[t[1]]>>

DocuFlat ==
  /\ docu \in [Delivery -> {"unsent", "refused", "fetch", "pioneer", "fallback", "done", "lost"}]
  /\ negotiation \in [Delivery -> Pair]
  /\ \A t \in pioneerTrails \cup localTrails : Labelled(t) /\ TrailSound(t)
  /\ \A d \in Delivery : Standing(d)
  /\ \A p \in nexusPairs : PairSound(p)

\* The invariant is where each delivery stands.
LEMMA DocuFlatIs == DocuInv <=> DocuFlat
<1> DEFINE trail(d) == <<d, negotiation[d]>>
           Labels == \A t \in pioneerTrails \cup localTrails : Labelled(t)
           Typed == /\ docu \in [Delivery -> {"unsent", "refused", "fetch", "pioneer", "fallback", "done", "lost"}]
                    /\ negotiation \in [Delivery -> Pair]
           Stage(d) ==
             /\ docu[d] \in {"unsent", "refused", "fetch", "pioneer"} => trail(d) \notin pioneerTrails
             /\ docu[d] # "done" => trail(d) \notin localTrails
             /\ docu[d] = "fallback" /\ trail(d) \in pioneerTrails => d \in silentPioneer
             /\ docu[d] \in {"pioneer", "fallback", "done"} => Sound(negotiation[d])
<1>1. DeliveryStage <=> Typed /\ Labels /\ \A d \in Delivery : Stage(d)
  BY DEF DeliveryStage, Labelled
<1>2. ASSUME Typed, Labels, NEW d \in Delivery
      PROVE  (Stage(d) /\ DeliveryTraced(d)) <=> Standing(d)
  <2>1. \A t \in pioneerTrails \cup localTrails : t[1] = d => t = <<d, negotiation[d]>>
    BY <1>2 DEF Labelled
  <2>2. DeliveryTraced(d) <=>
           /\ docu[d] = "done" => d \in capped \/ trail(d) \in pioneerTrails \cup localTrails
           /\ trail(d) \in pioneerTrails /\ trail(d) \in localTrails => d \in silentPioneer
           /\ docu[d] \in {"unsent", "refused"} => trail(d) \notin pioneerTrails \cup localTrails
    BY <2>1, TracedIs
  <2> QED BY <2>2 DEF Standing
<1>3. DocuFlat <=> /\ Typed /\ Labels /\ \A d \in Delivery : Standing(d)
                   /\ \A t \in pioneerTrails \cup localTrails : TrailSound(t)
                   /\ \A p \in nexusPairs : PairSound(p)
  BY DEF DocuFlat
<1> HIDE DEF Typed, Labels, Stage
<1>4. CASE Typed /\ Labels
  BY <1>1, <1>2, <1>3, <1>4, DocuSealIs DEF DocuInv
<1>5. CASE ~(Typed /\ Labels)
  BY <1>1, <1>3, <1>5 DEF DocuInv
<1> QED BY <1>4, <1>5

\* The same in the next state.
LEMMA DocuFlatNext == DocuInv' <=> DocuFlat'
BY DocuFlatIs, PTL

\* Every handler of the webhook, and /nexus/trail, keeps deliveries and trails in step.
LEMMA DocuStep == ASSUME DocuInv, NegotiationNext PROVE DocuInv'
<1>1. DocuFlat
  BY DocuFlatIs
<1>2. SUFFICES DocuFlat'
  BY DocuFlatNext
<1>3. /\ docu \in [Delivery -> {"unsent", "refused", "fetch", "pioneer", "fallback", "done", "lost"}]
      /\ negotiation \in [Delivery -> Pair]
      /\ \A t \in pioneerTrails \cup localTrails : Labelled(t) /\ TrailSound(t)
      /\ \A d \in Delivery : Standing(d)
      /\ \A p \in nexusPairs : PairSound(p)
  BY <1>1 DEF DocuFlat
\* Only the status of d changes.
<1>4. ASSUME NEW d \in Delivery, DocuReceive(d) \/ DocuReject(d) \/ DocuStop(d)
      PROVE  DocuFlat'
  <2>1. /\ UNCHANGED <<negotiation, pioneerTrails, localTrails, silentPioneer, capped, nexusPairs>>
        /\ \E s \in {"fetch", "refused", "lost"} : docu' = [docu EXCEPT ![d] = s]
        /\ docu[d] \in {"unsent", "fetch", "pioneer", "fallback"}
        /\ docu'[d] \in {"fetch", "refused"} => docu[d] = "unsent"
    BY <1>3, <1>4 DEF DocuReceive, DocuReject, DocuStop
  <2>2. \A e \in Delivery : Standing(e)'
    BY <1>3, <2>1 DEF Standing
  <2>3. \A t \in pioneerTrails' \cup localTrails' : Labelled(t)' /\ TrailSound(t)'
    BY <1>3, <2>1 DEF Labelled, TrailSound
  <2>4. docu' \in [Delivery -> {"unsent", "refused", "fetch", "pioneer", "fallback", "done", "lost"}]
    BY <1>3, <2>1
  <2> QED BY <1>3, <2>1, <2>2, <2>3, <2>4 DEF DocuFlat, PairSound
<1>5. ASSUME NEW d \in Delivery, NEW urls, NEW answer \in {"ok", "unreachable", "http_error", "empty_body"},
             DocuFetch(d, urls, answer)
      PROVE  DocuFlat'
  <2> DEFINE pair == FetchNegotiationRef(urls, answer)
  <2>1. pair \in Pair /\ Sound(pair)
    <3>1. pair \in {<<"null", "no_document">>, <<"null", "not_allowlisted">>, <<"sha256", "ok">>}
          \/ (answer # "ok" /\ pair = <<"null", answer>>)
      BY DEF FetchNegotiationRef
    <3>2. answer \in {"ok", "unreachable", "http_error", "empty_body"}
      BY <1>5
    <3> HIDE DEF pair
    <3>3. pair \in {<<"null", "no_document">>, <<"null", "not_allowlisted">>, <<"sha256", "ok">>,
                    <<"null", "unreachable">>, <<"null", "http_error">>, <<"null", "empty_body">>}
      BY <3>1, <3>2
    <3>4. pair = <<"null", "no_document">> \/ pair = <<"null", "not_allowlisted">> \/ pair = <<"sha256", "ok">>
          \/ pair = <<"null", "unreachable">> \/ pair = <<"null", "http_error">> \/ pair = <<"null", "empty_body">>
      BY <3>3
    <3>5. pair \in Pair
      BY <3>4 DEF Pair, NEGOTIATION_REF_STATUSES
    <3>6. pair[2] \in {"ok", "no_document", "not_allowlisted", "unreachable", "http_error", "empty_body"}
          /\ (pair[1] = "sha256" <=> pair[2] = "ok")
      BY <3>4
    <3> QED BY <3>5, <3>6 DEF Sound, NEGOTIATION_REF_STATUSES
  <2>2. /\ docu[d] = "fetch" /\ docu' = [docu EXCEPT ![d] = "pioneer"]
        /\ negotiation' = [negotiation EXCEPT ![d] = pair]
        /\ UNCHANGED <<pioneerTrails, localTrails, silentPioneer, capped, nexusPairs>>
    BY <1>5 DEF DocuFetch
  <2> HIDE DEF pair
  <2>3. \A t \in pioneerTrails \cup localTrails : t[1] # d
    BY <1>3, <2>2 DEF Labelled, Standing
  <2>4. \A t \in pioneerTrails \cup localTrails : Labelled(t)'
    BY <1>3, <2>2, <2>3 DEF Labelled
  <2>5. \A e \in Delivery : Standing(e)'
    <3>1. ASSUME NEW e \in Delivery, e # d
          PROVE  Standing(e)'
      BY <1>3, <2>2, <3>1 DEF Standing
    <3>2. <<d, pair>> \notin pioneerTrails \cup localTrails
      BY <2>3
    <3>3. Standing(d)'
      BY <1>3, <2>1, <2>2, <3>2 DEF Standing
    <3> QED BY <3>1, <3>3
  <2> QED BY <1>3, <2>1, <2>2, <2>4, <2>5 DEF DocuFlat, TrailSound, PairSound
\* A trail of d is added, or not.
<1>6. ASSUME NEW d \in Delivery, docu[d] \in {"pioneer", "fallback"}, NEW t, t = <<d, negotiation[d]>>,
             pioneerTrails' \subseteq pioneerTrails \cup {t}, localTrails' \subseteq localTrails \cup {t},
             UNCHANGED <<negotiation, nexusPairs>>,
             docu' \in [Delivery -> {"unsent", "refused", "fetch", "pioneer", "fallback", "done", "lost"}],
             \A e \in Delivery : Standing(e)'
      PROVE  DocuFlat'
  <2>1. Labelled(t) /\ TrailSound(t)
    <3>1. Sound(negotiation[d])
      BY <1>3, <1>6 DEF Standing
    <3> QED BY <1>6, <3>1 DEF Labelled, TrailSound, Sound
  <2>2. \A u \in pioneerTrails' \cup localTrails' : Labelled(u)' /\ TrailSound(u)'
    BY <1>3, <1>6, <2>1 DEF Labelled, TrailSound
  <2> QED BY <1>3, <1>6, <2>2 DEF DocuFlat, PairSound
<1>7. ASSUME NEW d \in Delivery, NEW served \in BOOLEAN, NEW answered \in BOOLEAN, DocuPioneer(d, served, answered)
      PROVE  DocuFlat'
  <2> DEFINE t == <<d, negotiation[d]>>
  <2>1. /\ docu[d] = "pioneer" /\ (answered => served)
        /\ pioneerTrails' = IF served THEN pioneerTrails \cup {t} ELSE pioneerTrails
        /\ silentPioneer' = IF served /\ ~answered THEN silentPioneer \cup {d} ELSE silentPioneer
        /\ docu' = [docu EXCEPT ![d] = IF answered THEN "done" ELSE "fallback"]
        /\ UNCHANGED <<negotiation, localTrails, capped, nexusPairs>>
    BY <1>7 DEF DocuPioneer
  <2>2. ASSUME NEW e \in Delivery, e # d
        PROVE  Standing(e)'
    <3>1. <<e, negotiation[e]>> # t
      BY <2>2
    <3>2. <<e, negotiation[e]>> \in pioneerTrails' <=> <<e, negotiation[e]>> \in pioneerTrails
      BY <2>1, <3>1
    <3>3. docu'[e] = docu[e] /\ (e \in silentPioneer => e \in silentPioneer')
      BY <1>3, <2>1, <2>2
    <3> QED BY <1>3, <2>1, <2>2, <3>2, <3>3 DEF Standing
  <2>3. Standing(d)'
    <3>1. docu'[d] = IF answered THEN "done" ELSE "fallback"
      BY <1>3, <2>1
    <3>2. Standing(d) /\ negotiation' = negotiation
      BY <1>3, <2>1
    <3> QED BY <2>1, <3>1, <3>2 DEF Standing
  <2>4. \A e \in Delivery : Standing(e)'
    BY <2>2, <2>3
  <2> QED BY <1>3, <1>6, <2>1, <2>4
<1>8. ASSUME NEW d \in Delivery, NEW refused \in BOOLEAN, DocuFallback(d, refused)
      PROVE  DocuFlat'
  <2> DEFINE t == <<d, negotiation[d]>>
  <2>1. /\ docu[d] = "fallback"
        /\ localTrails' = IF refused THEN localTrails ELSE localTrails \cup {t}
        /\ capped' = IF refused THEN capped \cup {d} ELSE capped
        /\ docu' = [docu EXCEPT ![d] = "done"]
        /\ UNCHANGED <<negotiation, pioneerTrails, silentPioneer, nexusPairs>>
    BY <1>8 DEF DocuFallback
  <2>2. ASSUME NEW e \in Delivery, e # d
        PROVE  Standing(e)'
    <3>1. <<e, negotiation[e]>> # t
      BY <2>2
    <3>2. <<e, negotiation[e]>> \in localTrails' <=> <<e, negotiation[e]>> \in localTrails
      BY <2>1, <3>1
    <3>3. docu'[e] = docu[e] /\ (e \in capped <=> e \in capped')
      BY <1>3, <2>1, <2>2
    <3> QED BY <1>3, <2>1, <2>2, <3>2, <3>3 DEF Standing
  <2>3. Standing(d)'
    <3>1. docu'[d] = "done" /\ Standing(d)
      BY <1>3, <2>1
    <3> QED BY <2>1, <3>1 DEF Standing
  <2>4. \A e \in Delivery : Standing(e)'
    BY <2>2, <2>3
  <2> QED BY <1>3, <1>6, <2>1, <2>4
<1>9. ASSUME NEW ref \in {"null", "", "sha256"}, NEW status \in {"null", "ok", "unreachable", "other"},
             NexusNegotiation(ref, status)
      PROVE  DocuFlat'
  <2>1. PairSound(<<ref, StoredRef(ref), NexusStatus(ref, status)>>)
    BY <1>9 DEF NexusNegotiation, PairSound, StoredRef, NexusStatus
  <2>2. /\ nexusPairs' = nexusPairs \cup {<<ref, StoredRef(ref), NexusStatus(ref, status)>>}
        /\ UNCHANGED <<docu, negotiation, pioneerTrails, localTrails, silentPioneer, capped>>
    BY <1>9 DEF NexusNegotiation
  <2>3. \A p \in nexusPairs' : PairSound(p)
    BY <1>3, <2>1, <2>2
  <2> QED BY <1>3, <2>2, <2>3 DEF DocuFlat, Labelled, Standing, TrailSound, PairSound
<1> QED BY <1>4, <1>5, <1>7, <1>8, <1>9 DEF NegotiationNext, DocuNext

\* Requests to other handlers leave deliveries alone.
LEMMA DocuStays == ASSUME DocuInv, UNCHANGED docuVars PROVE DocuInv'
<1>1. DocuFlat
  BY DocuFlatIs
<1>2. DocuFlat'
  BY <1>1 DEF docuVars, DocuFlat, Labelled, TrailSound, Standing, PairSound
<1> QED BY <1>2, DocuFlatNext

\* No event has been delivered yet.
LEMMA DocuStart == ASSUME DocuInit PROVE DocuInv
<1>1. \A d \in Delivery : Standing(d)
  BY DEF DocuInit, Standing
<1>2. negotiation \in [Delivery -> Pair]
  BY DEF DocuInit, Pair
<1> QED BY <1>1, <1>2, DocuFlatIs DEF DocuInit, DocuFlat

-----------------------------------------------------------------------------
(* /external/trail, self-certification and the billing events.               *)

\* The rows of a table are where they were inserted.
LEMMA TableRows ==
  ASSUME NEW R, NEW rows \in Seq(R)
  PROVE  /\ DOMAIN rows = 1..Len(rows) /\ Len(rows) \in Nat
         /\ \A x \in DOMAIN rows : rows[x] \in R
OBVIOUS

\* The request on the event loop.
LEMMA ProviderLoop ==
  ASSUME ProviderTypeOK
  PROVE  /\ loop.at \in {"idle", "record", "link", "karma", "bill"}
         /\ loop.at = "idle" <=> loop = NoJob
         /\ loop.at \in {"record", "link", "karma"} =>
              /\ loop.ref \in Ref /\ loop.source \in Source /\ loop.blank \in BOOLEAN
              /\ \A at : [loop EXCEPT !.at = at]
                          = [at |-> at, ref |-> loop.ref, source |-> loop.source, blank |-> loop.blank]
         /\ loop.at = "bill" => loop.row \in Nat
<1>1. \/ loop = NoJob
      \/ loop \in [at : {"record", "link", "karma"}, ref : Ref, source : Source, blank : BOOLEAN]
      \/ loop \in [at : {"bill"}, row : Nat]
  BY DEF ProviderTypeOK
<1>2. CASE loop = NoJob
  BY <1>2 DEF NoJob
<1>3. CASE loop \in [at : {"record", "link", "karma"}, ref : Ref, source : Source, blank : BOOLEAN]
  BY <1>3 DEF NoJob
<1>4. CASE loop \in [at : {"bill"}, row : Nat]
  BY <1>4 DEF NoJob
<1> QED BY <1>1, <1>2, <1>3, <1>4

\* Where the handler of /external/trail is with action_ref r.
At(r) == IF loop.at \in {"record", "link", "karma"} /\ loop.ref = r THEN loop.at ELSE "no"

\* ExternalRefOnce and RefStage for one action_ref.
RefKept(r) ==
  /\ r \notin usedRefs \/ r \in hashes \/ At(r) = "record" => extRows[r] = 0 /\ r \notin linked
  /\ At(r) = "link" => extRows[r] = 1 /\ r \notin linked
  /\ At(r) = "karma" => (extRows[r] = 1 <=> r \in linked)
                        /\ (r \notin linked \cup blanks => loop.source = "null")
  /\ r \notin usedRefs \/ r \in hashes \/ At(r) # "no" => extPaid[r] = <<>>
  /\ extRows[r] <= 1 /\ Len(extPaid[r]) <= 1
  /\ \A w \in {KARMA_PROVIDER_WEIGHT, CONFORMANCE_TIER["nexus"]} :
       extPaid[r] = <<w>> => r \in linked \cup blanks /\ \E g \in granted : Weight(g) = w
  /\ r \in hashes => extRows[r] = 0 /\ extPaid[r] = <<>>
  /\ r \in usedRefs \ hashes /\ At(r) = "no" /\ ~stops =>
       extPaid[r] # <<>> /\ (extRows[r] = 1 <=> r \in linked)

\* The source a request is paid at was granted.
SourcesGranted ==
  /\ account.source \in granted
  /\ loop.at \in {"record", "link", "karma"} =>
       /\ loop.ref \in usedRefs \ hashes /\ loop.source \in granted
       /\ loop.blank => loop.ref \in blanks

\* RefStage and ExternalRefOnce are that for each action_ref.
LEMMA RefKeptIs ==
  (RefStage /\ ExternalRefOnce) <=> (SourcesGranted /\ \A r \in Ref : RefKept(r))
<1>1. ASSUME NEW r
      PROVE  At(r) = "no" <=> ~(loop.at \in {"record", "link", "karma"} /\ loop.ref = r)
  BY DEF At
<1>2. RefStage <=>
        /\ SourcesGranted
        /\ \A r \in Ref :
             /\ r \notin usedRefs \/ r \in hashes \/ At(r) = "record" => extRows[r] = 0 /\ r \notin linked
             /\ At(r) = "link" => extRows[r] = 1 /\ r \notin linked
             /\ At(r) = "karma" => (extRows[r] = 1 <=> r \in linked)
                                  /\ (r \notin linked \cup blanks => loop.source = "null")
             /\ r \notin usedRefs \/ r \in hashes \/ At(r) # "no" => extPaid[r] = <<>>
  BY DEF RefStage, At, SourcesGranted
<1>3. ExternalRefOnce <=>
        \A r \in Ref :
          /\ extRows[r] <= 1 /\ Len(extPaid[r]) <= 1
          /\ \A w \in {KARMA_PROVIDER_WEIGHT, CONFORMANCE_TIER["nexus"]} :
               extPaid[r] = <<w>> => r \in linked \cup blanks /\ \E g \in granted : Weight(g) = w
          /\ r \in hashes => extRows[r] = 0 /\ extPaid[r] = <<>>
          /\ r \in usedRefs \ hashes /\ At(r) = "no" /\ ~stops =>
               extPaid[r] # <<>> /\ (extRows[r] = 1 <=> r \in linked)
  BY <1>1 DEF ExternalRefOnce
<1> QED BY <1>2, <1>3 DEF RefKept

\* The same in the next state.
LEMMA RefKeptNext ==
  (RefStage' /\ ExternalRefOnce') <=> (SourcesGranted' /\ \A r \in Ref : RefKept(r)')
<1>1. (RefStage /\ ExternalRefOnce)' <=> (SourcesGranted /\ \A r \in Ref : RefKept(r))'
  BY RefKeptIs, PTL
<1> QED BY <1>1

\* No handler leaves the types.
LEMMA ProviderTypeStep == ASSUME ProviderInv, ProviderNext PROVE ProviderTypeOK'
<1> USE DEF certVars, extVars, billVars, providerVars
<1>a. ProviderTypeOK
  BY DEF ProviderInv
<1>b. /\ account \in [key : Nat, source : Source] /\ account.key \in Nat /\ account.source \in Source
      /\ account = [key |-> account.key, source |-> account.source]
  BY <1>a DEF ProviderTypeOK
<1>1. ASSUME NEW s \in {"null", "nexus"}, SetConformance(s)
      PROVE  ProviderTypeOK'
  <2>1. s \in Source
    BY DEF Source, Folder
  <2>2. account' \in [key : Nat, source : Source] /\ granted' \subseteq Source
    BY <1>a, <1>b, <1>1, <2>1 DEF SetConformance, SetAccount, ProviderTypeOK
  <2> QED BY <1>a, <1>1, <2>2 DEF SetConformance, ProviderTypeOK
<1>2. CASE RotateKey
  <2>1. account' \in [key : Nat, source : Source]
    BY <1>b, <1>2 DEF RotateKey, SetAccount
  <2> QED BY <1>a, <1>2, <2>1 DEF RotateKey, ProviderTypeOK
<1>3. ASSUME NEW c \in Cert, NEW f \in Folder, SelfCertify(c, f)
      PROVE  ProviderTypeOK'
  <2>1. certJob' \in [Cert -> {NoJob} \cup [at : {"github"}, key : Nat, folder : Folder]]
    BY <1>a, <1>b, <1>3 DEF SelfCertify, ProviderTypeOK
  <2> QED BY <1>a, <1>3, <2>1 DEF SelfCertify, ProviderTypeOK
<1>4. ASSUME NEW c \in Cert, CertifyRefused(c)
      PROVE  ProviderTypeOK'
  BY <1>a, <1>4 DEF CertifyRefused, ProviderTypeOK
<1>5. ASSUME NEW c \in Cert, CertifyActivate(c)
      PROVE  ProviderTypeOK'
  <2>1. certJob' \in [Cert -> {NoJob} \cup [at : {"github"}, key : Nat, folder : Folder]]
    BY <1>a, <1>5 DEF CertifyActivate, ProviderTypeOK
  <2>2. certJob[c].folder \in Source
    BY <1>a, <1>5 DEF CertifyActivate, ProviderTypeOK, NoJob, Source
  <2>3. account' \in [key : Nat, source : Source] /\ granted' \subseteq Source
    <3>1. CASE certJob[c].key = account.key
      BY <1>a, <1>b, <1>5, <2>2, <3>1 DEF CertifyActivate, SetAccount, ProviderTypeOK
    <3>2. CASE certJob[c].key # account.key
      BY <1>a, <1>5, <3>2 DEF CertifyActivate, ProviderTypeOK
    <3> QED BY <3>1, <3>2
  <2> QED BY <1>a, <1>5, <2>1, <2>3 DEF CertifyActivate, ProviderTypeOK
<1>6. CASE CoolDown
  BY <1>a, <1>6 DEF CoolDown, ProviderTypeOK
<1>7. ASSUME NEW r \in Ref, NEW blank \in BOOLEAN, ExternalNonce(r, blank)
      PROVE  ProviderTypeOK'
  <2>1. loop' \in [at : {"record", "link", "karma"}, ref : Ref, source : Source, blank : BOOLEAN]
    BY <1>b, <1>7 DEF ExternalNonce
  <2> QED BY <1>a, <1>7, <2>1 DEF ExternalNonce, ProviderTypeOK
<1>8. ASSUME NEW at \in {"link", "karma"}, loop.at \in {"record", "link", "karma"}, loop' = [loop EXCEPT !.at = at]
      PROVE  loop' \in [at : {"record", "link", "karma"}, ref : Ref, source : Source, blank : BOOLEAN]
  BY <1>a, <1>8, ProviderLoop
<1>9. ASSUME NEW refused \in BOOLEAN, ExternalRecord(refused)
      PROVE  ProviderTypeOK'
  <2>1. loop' \in [at : {"record", "link", "karma"}, ref : Ref, source : Source, blank : BOOLEAN]
    BY <1>8, <1>9 DEF ExternalRecord
  <2>2. extRows' \in [Ref -> Nat]
    BY <1>a, <1>9, ProviderLoop DEF ExternalRecord, ProviderTypeOK
  <2> QED BY <1>a, <1>9, <2>1, <2>2 DEF ExternalRecord, ProviderTypeOK
<1>10. CASE ExternalLink
  <2>1. loop' \in [at : {"record", "link", "karma"}, ref : Ref, source : Source, blank : BOOLEAN]
    BY <1>8, <1>10 DEF ExternalLink
  <2>2. linked' \subseteq Ref
    BY <1>a, <1>10, ProviderLoop DEF ExternalLink, ProviderTypeOK
  <2> QED BY <1>a, <1>10, <2>1, <2>2 DEF ExternalLink, ProviderTypeOK
<1>11. CASE ExternalKarma
  <2>1. loop.source \in Source => Weight(loop.source) \in Nat
    BY DEF Weight, CONFORMANCE_TIER, KARMA_DEFAULT_WEIGHT, KARMA_PROVIDER_WEIGHT
  <2>2. extPaid' \in [Ref -> Seq(Nat)]
    <3>1. extPaid \in [Ref -> Seq(Nat)] /\ loop.ref \in Ref /\ Weight(loop.source) \in Nat
      BY <1>a, <1>11, <2>1, ProviderLoop DEF ExternalKarma, ProviderTypeOK
    <3> DEFINE w == Weight(loop.source)
    <3>2. extPaid' = [extPaid EXCEPT ![loop.ref] = Append(extPaid[loop.ref], w)]
      BY <1>11 DEF ExternalKarma
    <3> HIDE DEF w
    <3>3. Append(extPaid[loop.ref], w) \in Seq(Nat)
      BY <3>1 DEF w
    <3> QED BY <3>1, <3>2, <3>3
  <2> QED BY <1>a, <1>11, <2>2 DEF ExternalKarma, ProviderTypeOK
<1>12. ASSUME NEW key \in 0..account.key, NexusRecord(key)
       PROVE  ProviderTypeOK'
  <2> DEFINE row == [key |-> key, due |-> key = account.key /\ account.source # "null"]
  <2>1. row \in [key : Nat, due : BOOLEAN] /\ nexusRows \in Seq([key : Nat, due : BOOLEAN])
    BY <1>a, <1>b DEF ProviderTypeOK
  <2>2. nexusRows' = Append(nexusRows, row) /\ loop' = [at |-> "bill", row |-> Len(nexusRows) + 1]
    BY <1>12 DEF NexusRecord
  <2> HIDE DEF row
  <2>3. nexusRows' \in Seq([key : Nat, due : BOOLEAN]) /\ loop' \in [at : {"bill"}, row : Nat]
    BY <2>1, <2>2
  <2> QED BY <1>a, <1>12, <2>3 DEF NexusRecord, ProviderTypeOK
<1>13. CASE NexusBill
  <2>1. bills' \in Seq([row : Nat, key : Nat])
    <3> DEFINE bill == [row |-> loop.row, key |-> account.key]
    <3>1. bills \in Seq([row : Nat, key : Nat]) /\ bill \in [row : Nat, key : Nat]
      BY <1>a, <1>b, <1>13, ProviderLoop DEF ProviderTypeOK, NexusBill
    <3>2. bills' = bills \/ bills' = Append(bills, bill)
      BY <1>13 DEF NexusBill
    <3> HIDE DEF bill
    <3>3. Append(bills, bill) \in Seq([row : Nat, key : Nat])
      BY <3>1
    <3> QED BY <3>1, <3>2, <3>3
  <2> QED BY <1>a, <1>13, <2>1 DEF NexusBill, ProviderTypeOK
<1>14. CASE ProviderStop
  BY <1>a, <1>14 DEF ProviderStop, ProviderTypeOK
<1>15. ASSUME NEW r \in Ref, LightningNonce(r)
       PROVE  ProviderTypeOK'
  BY <1>a, <1>15 DEF LightningNonce, ProviderTypeOK
<1> QED
  BY <1>1, <1>2, <1>3, <1>4, <1>5, <1>6, <1>7, <1>9, <1>10, <1>11, <1>12, <1>13, <1>14, <1>15 DEF ProviderNext

\* An action_ref is recorded and paid once, at a weight somebody vouched for.
LEMMA RefStep == ASSUME ProviderInv, ProviderNext PROVE RefStage' /\ ExternalRefOnce'
<1> USE DEF certVars, extVars, billVars, providerVars
<1>a. ProviderTypeOK /\ SourcesGranted /\ \A r \in Ref : RefKept(r)
  BY RefKeptIs DEF ProviderInv
<1> SUFFICES SourcesGranted' /\ \A r \in Ref : RefKept(r)'
  BY RefKeptNext
\* Nothing happens to an action_ref, or the process stops.
<1>1. ASSUME UNCHANGED extVars, granted \subseteq granted',
             (loop' = loop /\ stops' = stops)
               \/ (stops' = stops /\ loop.at \notin {"record", "link", "karma"} /\ loop'.at \notin {"record", "link", "karma"})
               \/ (stops' = TRUE /\ loop' = NoJob)
      PROVE  \A r \in Ref : RefKept(r)'
  <2> SUFFICES ASSUME NEW r \in Ref PROVE RefKept(r)'
    OBVIOUS
  <2>1. (At(r)' = At(r) /\ stops' = stops /\ (At(r) # "no" => loop' = loop)) \/ (At(r)' = "no" /\ stops')
    BY <1>1 DEF At, NoJob
  <2>2. RefKept(r)
    BY <1>a
  <2> QED BY <1>1, <2>1, <2>2 DEF RefKept
<1>2. ASSUME UNCHANGED <<extVars, loop, stops>>, account'.source \in granted', granted \subseteq granted'
      PROVE  SourcesGranted' /\ \A r \in Ref : RefKept(r)'
  <2>1. SourcesGranted'
    BY <1>a, <1>2 DEF SourcesGranted
  <2> QED BY <1>1, <1>2, <2>1
<1>3. ASSUME UNCHANGED <<extVars, account, granted, stops>>,
             loop' = loop \/ (loop.at \notin {"record", "link", "karma"} /\ loop'.at \notin {"record", "link", "karma"})
      PROVE  SourcesGranted' /\ \A r \in Ref : RefKept(r)'
  <2>1. SourcesGranted'
    BY <1>a, <1>3 DEF SourcesGranted
  <2> QED BY <1>1, <1>3, <2>1
<1>4. ASSUME NEW s \in {"null", "nexus"}, SetConformance(s)
      PROVE  SourcesGranted' /\ \A r \in Ref : RefKept(r)'
  <2>1. account'.source \in granted'
    BY <1>a, <1>4 DEF SetConformance, SetAccount, ProviderTypeOK
  <2> QED BY <1>2, <1>4, <2>1 DEF SetConformance
<1>5. CASE RotateKey
  <2>1. account'.source \in granted'
    BY <1>a, <1>5 DEF RotateKey, SetAccount, ProviderTypeOK, SourcesGranted
  <2> QED BY <1>2, <1>5, <2>1 DEF RotateKey
<1>6. ASSUME NEW c \in Cert, CertifyActivate(c)
      PROVE  SourcesGranted' /\ \A r \in Ref : RefKept(r)'
  <2>1. account'.source \in granted' /\ granted \subseteq granted'
    <3>1. CASE certJob[c].key = account.key
      BY <1>a, <1>6, <3>1 DEF CertifyActivate, SetAccount, ProviderTypeOK
    <3>2. CASE certJob[c].key # account.key
      BY <1>a, <1>6, <3>2 DEF CertifyActivate, SourcesGranted
    <3> QED BY <3>1, <3>2
  <2> QED BY <1>2, <1>6, <2>1 DEF CertifyActivate
<1>7. CASE CoolDown \/ (\E c \in Cert, f \in Folder : SelfCertify(c, f)) \/ \E c \in Cert : CertifyRefused(c)
  BY <1>3, <1>7 DEF CoolDown, SelfCertify, CertifyRefused
<1>8. CASE NexusBill \/ \E key \in 0..account.key : NexusRecord(key)
  <2>1. UNCHANGED <<extVars, account, granted, stops>>
    BY <1>8 DEF NexusBill, NexusRecord
  <2>2. /\ loop = NoJob \/ loop.at = "bill"
        /\ loop' = NoJob \/ \E n : loop' = [at |-> "bill", row |-> n]
    BY <1>8 DEF NexusBill, NexusRecord
  <2>3. loop.at \notin {"record", "link", "karma"} /\ loop'.at \notin {"record", "link", "karma"}
    BY <2>2 DEF NoJob
  <2> QED BY <1>3, <2>1, <2>3
<1>9. CASE ProviderStop
  <2>1. UNCHANGED <<extVars, account, granted>> /\ loop' = NoJob /\ stops' = TRUE
    BY <1>9 DEF ProviderStop
  <2>2. SourcesGranted'
    BY <1>a, <2>1 DEF SourcesGranted, NoJob
  <2> QED BY <1>1, <2>1, <2>2
\* A request for q takes a step; the other action_refs stay as they are.
<1>10. ASSUME NEW q \in Ref, NEW r \in Ref, r # q, At(r) = "no", At(r)' = "no", UNCHANGED <<granted, stops>>,
              extRows'[r] = extRows[r], extPaid'[r] = extPaid[r],
              r \in linked' <=> r \in linked, r \in usedRefs' <=> r \in usedRefs,
              r \in hashes' <=> r \in hashes, r \in blanks' <=> r \in blanks
       PROVE  RefKept(r)'
  <2>1. RefKept(r)
    BY <1>a
  <2> QED BY <1>10, <2>1 DEF RefKept
<1>11. ASSUME NEW q \in Ref, NEW blank \in BOOLEAN, ExternalNonce(q, blank)
       PROVE  SourcesGranted' /\ \A r \in Ref : RefKept(r)'
  <2>1. /\ loop = NoJob /\ q \notin usedRefs /\ usedRefs' = usedRefs \cup {q}
        /\ blanks' = IF blank THEN blanks \cup {q} ELSE blanks
        /\ loop' = [at |-> "record", ref |-> q, source |-> account.source, blank |-> blank]
        /\ UNCHANGED <<account, granted, hashes, extRows, linked, extPaid, stops>>
    BY <1>11 DEF ExternalNonce
  <2>a. q \notin hashes
    BY <1>a, <2>1 DEF ProviderTypeOK
  <2>2. SourcesGranted'
    BY <1>a, <2>1, <2>a DEF SourcesGranted
  <2>3. \A r \in Ref : At(r) = "no" /\ At(r)' = IF r = q THEN "record" ELSE "no"
    BY <2>1 DEF At, NoJob
  <2>4. RefKept(q)'
    <3>1. RefKept(q)
      BY <1>a
    <3> QED BY <2>1, <2>3, <2>a, <3>1 DEF RefKept
  <2>5. ASSUME NEW r \in Ref, r # q
        PROVE  RefKept(r)'
    BY <1>10, <2>1, <2>3, <2>5
  <2> QED BY <2>2, <2>4, <2>5
<1>12. ASSUME NEW refused \in BOOLEAN, ExternalRecord(refused)
       PROVE  SourcesGranted' /\ \A r \in Ref : RefKept(r)'
  <2>1. PICK q \in Ref : q = loop.ref
    BY <1>a, <1>12, ProviderLoop DEF ExternalRecord
  <2> DEFINE next == IF refused THEN "karma" ELSE "link"
  <2>2. /\ loop.at = "record" /\ (refused => loop.blank \/ loop.source = "null")
        /\ loop' = [at |-> next, ref |-> q, source |-> loop.source, blank |-> loop.blank]
        /\ extRows' = IF refused THEN extRows ELSE [extRows EXCEPT ![q] = @ + 1]
        /\ UNCHANGED <<account, granted, usedRefs, hashes, blanks, linked, extPaid, stops>>
    BY <1>a, <1>12, <2>1, ProviderLoop DEF ExternalRecord
  <2>3. SourcesGranted'
    BY <1>a, <2>1, <2>2 DEF SourcesGranted
  <2>4. \A r \in Ref : At(r) = (IF r = q THEN "record" ELSE "no") /\ At(r)' = IF r = q THEN next ELSE "no"
    BY <2>1, <2>2 DEF At
  <2>5. extRows \in [Ref -> Nat]
    BY <1>a DEF ProviderTypeOK
  <2>6. RefKept(q)'
    <3>1. RefKept(q) /\ At(q) = "record" /\ At(q)' = next /\ loop'.source = loop.source
      BY <1>a, <2>2, <2>4
    <3>2. extRows'[q] = IF refused THEN 0 ELSE 1
      BY <2>2, <2>5, <3>1 DEF RefKept
    <3>3. extPaid'[q] = <<>> /\ q \notin linked'
      BY <2>2, <3>1 DEF RefKept
    <3>4. /\ q \in usedRefs' \ hashes' /\ next # "no" /\ next # "record"
          /\ next = "karma" => q \in blanks' \/ loop.source = "null"
      BY <1>a, <2>1, <2>2 DEF SourcesGranted
    <3>5. extRows'[q] = 0 \/ (extRows'[q] = 1 /\ next = "link")
      BY <3>2
    <3> HIDE DEF next
    <3>6. Len(extPaid'[q]) = 0 /\ \A w : extPaid'[q] # <<w>>
      BY <3>3
    <3>7. (next = "link" => extRows'[q] = 1) /\ (next = "karma" => extRows'[q] = 0)
      BY <3>2 DEF next
    <3> QED BY <3>1, <3>3, <3>4, <3>5, <3>6, <3>7 DEF RefKept
  <2>7. ASSUME NEW r \in Ref, r # q
        PROVE  RefKept(r)'
    BY <1>10, <2>2, <2>4, <2>5, <2>7
  <2> QED BY <2>3, <2>6, <2>7
<1>13. CASE ExternalLink
  <2>1. PICK q \in Ref : q = loop.ref
    BY <1>a, <1>13, ProviderLoop DEF ExternalLink
  <2>2. /\ loop.at = "link"
        /\ loop' = [at |-> "karma", ref |-> q, source |-> loop.source, blank |-> loop.blank]
        /\ linked' = linked \cup {q}
        /\ UNCHANGED <<account, granted, usedRefs, hashes, blanks, extRows, extPaid, stops>>
    BY <1>a, <1>13, <2>1, ProviderLoop DEF ExternalLink
  <2>3. SourcesGranted'
    BY <1>a, <2>1, <2>2 DEF SourcesGranted
  <2>4. \A r \in Ref : At(r) = (IF r = q THEN "link" ELSE "no") /\ At(r)' = IF r = q THEN "karma" ELSE "no"
    BY <2>1, <2>2 DEF At
  <2>5. RefKept(q)'
    <3>1. RefKept(q) /\ At(q) = "link" /\ At(q)' = "karma"
      BY <1>a, <2>4
    <3>2. q \in usedRefs \ hashes /\ extPaid[q] = <<>> /\ extRows[q] = 1
      BY <1>a, <2>1, <2>2, <3>1 DEF RefKept, SourcesGranted
    <3> QED BY <2>2, <3>1, <3>2 DEF RefKept
  <2>6. ASSUME NEW r \in Ref, r # q
        PROVE  RefKept(r)'
    BY <1>10, <2>2, <2>4, <2>6
  <2> QED BY <2>3, <2>5, <2>6
<1>14. CASE ExternalKarma
  <2>1. PICK q \in Ref : q = loop.ref
    BY <1>a, <1>14, ProviderLoop DEF ExternalKarma
  <2>2. PICK w : w = Weight(loop.source)
    OBVIOUS
  <2>3. /\ loop.at = "karma" /\ loop' = NoJob
        /\ extPaid' = [extPaid EXCEPT ![q] = Append(extPaid[q], w)]
        /\ UNCHANGED <<account, granted, usedRefs, hashes, blanks, extRows, linked, stops>>
    BY <1>14, <2>1, <2>2 DEF ExternalKarma
  <2>4. SourcesGranted'
    BY <1>a, <2>3 DEF SourcesGranted, NoJob
  <2>5. \A r \in Ref : At(r) = (IF r = q THEN "karma" ELSE "no") /\ At(r)' = "no"
    BY <2>1, <2>3 DEF At, NoJob
  <2>6. RefKept(q)'
    <3>1. RefKept(q) /\ At(q) = "karma" /\ At(q)' = "no"
      BY <1>a, <2>5
    <3>2. extPaid \in [Ref -> Seq(Nat)] /\ extPaid[q] = <<>>
      BY <1>a, <3>1 DEF RefKept, ProviderTypeOK
    <3>3. extPaid'[q] = <<w>>
      BY <2>3, <3>2
    <3>4. loop.source \in granted /\ q \in usedRefs \ hashes
      BY <1>a, <2>1, <2>3 DEF SourcesGranted
    <3>5. q \notin linked \cup blanks => w = KARMA_DEFAULT_WEIGHT
      BY <2>2, <3>1 DEF RefKept, Weight, CONFORMANCE_TIER
    <3>6. \A v \in {KARMA_PROVIDER_WEIGHT, CONFORMANCE_TIER["nexus"]} :
            <<w>> = <<v>> => q \in linked \cup blanks /\ \E g \in granted : Weight(g) = v
      <4>1. ASSUME NEW v \in {KARMA_PROVIDER_WEIGHT, CONFORMANCE_TIER["nexus"]}, <<w>> = <<v>>
            PROVE  q \in linked \cup blanks /\ Weight(loop.source) = v
        <5>1. w = v
          BY <4>1
        <5>2. v # KARMA_DEFAULT_WEIGHT
          BY DEF KARMA_PROVIDER_WEIGHT, KARMA_DEFAULT_WEIGHT, CONFORMANCE_TIER
        <5> QED BY <2>2, <3>5, <5>1, <5>2
      <4> QED BY <3>4, <4>1
    <3>7. /\ Len(extPaid'[q]) = 1 /\ extPaid'[q] # <<>>
      BY <3>3
    <3> QED BY <2>3, <3>1, <3>3, <3>4, <3>6, <3>7 DEF RefKept
  <2>7. ASSUME NEW r \in Ref, r # q
        PROVE  RefKept(r)'
    <3>1. extPaid'[r] = extPaid[r]
      BY <1>a, <2>3, <2>7 DEF ProviderTypeOK
    <3> QED BY <1>10, <2>3, <2>5, <2>7, <3>1
  <2> QED BY <2>4, <2>6, <2>7
\* The webhook takes q as the hash of a payment.
<1>15. ASSUME NEW q \in Ref, LightningNonce(q)
       PROVE  SourcesGranted' /\ \A r \in Ref : RefKept(r)'
  <2>1. /\ loop = NoJob /\ q \notin usedRefs /\ usedRefs' = usedRefs \cup {q} /\ hashes' = hashes \cup {q}
        /\ UNCHANGED <<account, granted, blanks, loop, extRows, linked, extPaid, stops>>
    BY <1>15 DEF LightningNonce
  <2>2. SourcesGranted'
    BY <1>a, <2>1 DEF SourcesGranted, NoJob
  <2>3. \A r \in Ref : At(r) = "no" /\ At(r)' = "no"
    BY <2>1 DEF At, NoJob
  <2>4. RefKept(q)'
    <3>1. RefKept(q)
      BY <1>a
    <3> QED BY <2>1, <2>3, <3>1 DEF RefKept
  <2>5. ASSUME NEW r \in Ref, r # q
        PROVE  RefKept(r)'
    BY <1>10, <2>1, <2>3, <2>5
  <2> QED BY <2>2, <2>4, <2>5
<1> QED BY <1>4, <1>5, <1>6, <1>7, <1>8, <1>9, <1>11, <1>12, <1>13, <1>14, <1>15 DEF ProviderNext

\* The bills of each key the account has had, and what BillsMatchTrails says of each
\* bill and each trail.
Billed == [k \in 0..account.key |-> Cardinality(BillsOf(k))]
BillsTraced ==
  /\ \A i, j \in DOMAIN bills : bills[i].row = bills[j].row => i = j
  /\ \A i \in DOMAIN bills : bills[i].row \in DOMAIN nexusRows
                             /\ bills[i].key = nexusRows[bills[i].row].key
                             /\ (nexusRows[bills[i].row].due \/ bills[i].row \in excused)
  /\ \A x \in DOMAIN nexusRows :
       nexusRows[x].due /\ (\A i \in DOMAIN bills : bills[i].row # x) =>
         stops \/ x \in excused \/ (loop.at = "bill" /\ loop.row = x)

\* BillsMatchTrails, with the sum under its name.
LEMMA BillsIs ==
  /\ BillsMatchTrails <=> BillsTraced /\ SumOf(Billed, 0..account.key) = Len(bills)
  /\ BillsMatchTrails' <=> BillsTraced' /\ SumOf(Billed', 0..account'.key) = Len(bills')
<1>1. BillsMatchTrails <=> BillsTraced /\ SumOf(Billed, 0..account.key) = Len(bills)
  BY DEF BillsMatchTrails, BillsTraced, Billed, SumOf
<1>2. BillsMatchTrails' <=> BillsTraced' /\ SumOf(Billed', 0..account'.key) = Len(bills')
  BY DEF BillsMatchTrails, BillsTraced, Billed, SumOf, MapThenSumSet, MapThenFoldSet
<1> QED BY <1>1, <1>2

\* Each key has a finite number of bills.
LEMMA BillsFinite ==
  ASSUME ProviderTypeOK
  PROVE  /\ \A k : IsFiniteSet(BillsOf(k)) /\ Cardinality(BillsOf(k)) \in Nat
         /\ account.key \in Nat /\ IsFiniteSet(0..account.key)
         /\ \A k \in 0..account.key : Billed[k] = Cardinality(BillsOf(k)) /\ Billed[k] \in Int
<1>1. account.key \in Nat /\ bills \in Seq([row : Nat, key : Nat])
  BY DEF ProviderTypeOK
<1>2. IsFiniteSet(0..account.key) /\ IsFiniteSet(DOMAIN bills)
  BY <1>1, FS_Interval
<1>3. ASSUME NEW k
      PROVE  IsFiniteSet(BillsOf(k)) /\ Cardinality(BillsOf(k)) \in Nat
  <2>1. BillsOf(k) \subseteq DOMAIN bills
    BY DEF BillsOf
  <2> QED BY <1>2, <2>1, FS_Subset, FS_CardinalityType
<1> QED BY <1>1, <1>2, <1>3 DEF Billed

\* A trail is billed once, to the key it was sent with.
LEMMA BillTracedStep == ASSUME ProviderInv, ProviderNext PROVE BillStage' /\ BillsTraced'
<1> USE DEF certVars, extVars, billVars, providerVars
<1>a. ProviderTypeOK /\ BillStage /\ BillsTraced
  BY BillsIs DEF ProviderInv
<1>b. /\ account.key \in Nat
      /\ nexusRows \in Seq([key : Nat, due : BOOLEAN]) /\ bills \in Seq([row : Nat, key : Nat])
      /\ DOMAIN bills = 1..Len(bills) /\ DOMAIN nexusRows = 1..Len(nexusRows)
      /\ \A x \in DOMAIN nexusRows : nexusRows[x].key \in Nat
      /\ \A i \in DOMAIN bills : bills[i].key \in Nat
  <2>1. /\ account.key \in Nat
        /\ nexusRows \in Seq([key : Nat, due : BOOLEAN]) /\ bills \in Seq([row : Nat, key : Nat])
    BY <1>a DEF ProviderTypeOK
  <2>2. \A x \in DOMAIN nexusRows : nexusRows[x] \in [key : Nat, due : BOOLEAN]
    BY <2>1, TableRows
  <2>3. \A i \in DOMAIN bills : bills[i] \in [row : Nat, key : Nat]
    BY <2>1, TableRows
  <2> QED BY <2>1, <2>2, <2>3
\* The row, the account and the bills stay.
<1>1. ASSUME UNCHANGED <<nexusRows, bills, account, excused>>,
             loop'.at = "bill" => loop' = loop,
             stops' \/ (stops' = stops /\ (loop.at = "bill" => loop' = loop))
      PROVE  BillStage' /\ BillsTraced'
  <2>1. BillStage'
    BY <1>a, <1>1 DEF BillStage
  <2>2. BillsTraced'
    BY <1>a, <1>1 DEF BillsTraced
  <2> QED BY <2>1, <2>2
\* The account changes: a row on its way to the test is excused.
<1>2. ASSUME NEW a, SetAccount(a), a.key \in Nat, account.key <= a.key, UNCHANGED <<nexusRows, bills, loop, stops>>
      PROVE  BillStage' /\ BillsTraced'
  <2>1. /\ account' = a /\ excused \subseteq excused'
        /\ loop.at = "bill" => loop.row \in excused'
    BY <1>2 DEF SetAccount
  <2>2. BillStage'
    <3>1. \A x \in DOMAIN nexusRows' : nexusRows'[x].key <= account'.key
      BY <1>a, <1>b, <1>2, <2>1 DEF BillStage
    <3>2. \A i \in DOMAIN bills' : bills'[i].key <= account'.key
      BY <1>a, <1>b, <1>2, <2>1 DEF BillStage
    <3> QED BY <1>a, <1>2, <2>1, <3>1, <3>2 DEF BillStage
  <2>3. BillsTraced'
    BY <1>a, <1>2, <2>1 DEF BillsTraced
  <2> QED BY <2>2, <2>3
<1>3. ASSUME NEW s \in {"null", "nexus"}, SetConformance(s)
      PROVE  BillStage' /\ BillsTraced'
  <2>1. PICK a : a = [account EXCEPT !.source = s]
    OBVIOUS
  <2>2. a.key = account.key
    BY <1>a, <2>1 DEF ProviderTypeOK
  <2>3. SetAccount(a) /\ UNCHANGED <<nexusRows, bills, loop, stops>>
    BY <1>3, <2>1 DEF SetConformance
  <2> QED BY <1>2, <1>b, <2>2, <2>3
<1>4. CASE RotateKey
  <2>1. PICK a : a = [account EXCEPT !.key = @ + 1]
    OBVIOUS
  <2>2. a.key = account.key + 1
    BY <1>a, <2>1 DEF ProviderTypeOK
  <2>3. SetAccount(a) /\ UNCHANGED <<nexusRows, bills, loop, stops>>
    BY <1>4, <2>1 DEF RotateKey
  <2> QED BY <1>2, <1>b, <2>2, <2>3
<1>5. ASSUME NEW c \in Cert, CertifyActivate(c)
      PROVE  BillStage' /\ BillsTraced'
  <2>1. CASE certJob[c].key = account.key
    <3>1. PICK a : a = [account EXCEPT !.source = certJob[c].folder]
      OBVIOUS
    <3>2. a.key = account.key
      BY <1>a, <3>1 DEF ProviderTypeOK
    <3>3. SetAccount(a) /\ UNCHANGED <<nexusRows, bills, loop, stops>>
      BY <1>5, <2>1, <3>1 DEF CertifyActivate
    <3> QED BY <1>2, <1>b, <3>2, <3>3
  <2>2. CASE certJob[c].key # account.key
    BY <1>1, <1>5, <2>2 DEF CertifyActivate
  <2> QED BY <2>1, <2>2
<1>6. CASE \/ CoolDown
           \/ \E c \in Cert, f \in Folder : SelfCertify(c, f)
           \/ \E c \in Cert : CertifyRefused(c)
           \/ \E r \in Ref : LightningNonce(r)
  BY <1>1, <1>6 DEF CoolDown, SelfCertify, CertifyRefused, LightningNonce
\* A request for /external/trail takes a step, or the process stops.
<1>7. CASE \E r \in Ref, blank \in BOOLEAN : ExternalNonce(r, blank)
  <2>1. loop = NoJob /\ loop'.at = "record" /\ UNCHANGED <<nexusRows, bills, account, excused, stops>>
    BY <1>7 DEF ExternalNonce
  <2> QED BY <1>1, <2>1 DEF NoJob
<1>8. CASE (\E refused \in BOOLEAN : ExternalRecord(refused)) \/ ExternalLink
  <2>1. loop.at \in {"record", "link"} /\ UNCHANGED <<nexusRows, bills, account, excused, stops>>
    BY <1>8 DEF ExternalRecord, ExternalLink
  <2>2. PICK at \in {"link", "karma"} : loop' = [loop EXCEPT !.at = at]
    BY <1>8 DEF ExternalRecord, ExternalLink
  <2>3. loop'.at = at
    BY <1>a, <2>1, <2>2, ProviderLoop
  <2> QED BY <1>1, <2>1, <2>3
<1>9. CASE ExternalKarma
  <2>1. loop.at = "karma" /\ loop' = NoJob /\ UNCHANGED <<nexusRows, bills, account, excused, stops>>
    BY <1>9 DEF ExternalKarma
  <2> QED BY <1>1, <2>1 DEF NoJob
<1>10. CASE ProviderStop
  <2>1. loop' = NoJob /\ stops' = TRUE /\ UNCHANGED <<nexusRows, bills, account, excused>>
    BY <1>10 DEF ProviderStop
  <2> QED BY <1>1, <2>1 DEF NoJob
<1>11. ASSUME NEW key \in 0..account.key, NexusRecord(key)
       PROVE  BillStage' /\ BillsTraced'
  <2> DEFINE row == [key |-> key, due |-> key = account.key /\ account.source # "null"]
             n == Len(nexusRows) + 1
  <2>1. /\ loop = NoJob /\ nexusRows' = Append(nexusRows, row) /\ loop' = [at |-> "bill", row |-> n]
        /\ UNCHANGED <<bills, account, excused, stops>>
    BY <1>11 DEF NexusRecord
  <2>2. row.key = key /\ (row.due <=> key = account.key /\ account.source # "null")
    OBVIOUS
  <2> HIDE DEF row
  <2>3. /\ DOMAIN nexusRows' = 1..n /\ nexusRows'[n] = row
        /\ \A x \in DOMAIN nexusRows : x # n /\ x \in DOMAIN nexusRows' /\ nexusRows'[x] = nexusRows[x]
    BY <1>b, <2>1
  <2>4. \A x \in DOMAIN nexusRows' : x = n \/ x \in DOMAIN nexusRows
    BY <1>b, <2>3
  <2>5. \A i \in DOMAIN bills : bills[i].row \in DOMAIN nexusRows
    BY <1>a DEF BillsTraced
  <2>6. loop'.at = "bill" /\ loop'.row = n /\ loop.at # "bill"
    BY <2>1 DEF NoJob
  <2> HIDE DEF n
  <2>7. BillStage'
    <3>1. \A x \in DOMAIN nexusRows' : nexusRows'[x].key <= account'.key
      BY <1>a, <1>b, <2>1, <2>2, <2>3, <2>4 DEF BillStage
    <3>2. n \in DOMAIN nexusRows'
      BY <1>b, <2>3 DEF n
    <3> QED BY <1>a, <2>1, <2>2, <2>3, <2>5, <2>6, <3>1, <3>2 DEF BillStage
  <2>8. BillsTraced'
    BY <1>a, <2>1, <2>3, <2>4, <2>5, <2>6 DEF BillsTraced
  <2> QED BY <2>7, <2>8
<1>12. CASE NexusBill
  <2> DEFINE x == loop.row
             n == Len(bills) + 1
             bill == [row |-> loop.row, key |-> account.key]
  <2>1. /\ loop.at = "bill" /\ loop' = NoJob
        /\ bills' = IF nexusRows[x].key = account.key /\ account.source # "null" THEN Append(bills, bill) ELSE bills
        /\ UNCHANGED <<nexusRows, account, excused, stops>>
    BY <1>12 DEF NexusBill
  <2>2. /\ x \in DOMAIN nexusRows /\ \A i \in DOMAIN bills : bills[i].row # x
        /\ x \notin excused => (nexusRows[x].due <=> nexusRows[x].key = account.key /\ account.source # "null")
    BY <1>a, <2>1 DEF BillStage
  <2>3. CASE nexusRows[x].key = account.key /\ account.source # "null"
    <3>1. bill.row = x /\ bill.key = account.key
      OBVIOUS
    <3> HIDE DEF x, bill
    <3>2. /\ DOMAIN bills' = 1..n /\ bills'[n] = bill
          /\ \A i \in DOMAIN bills : i # n /\ i \in DOMAIN bills' /\ bills'[i] = bills[i]
      BY <1>b, <2>1, <2>3
    <3>3. (\A i \in DOMAIN bills' : i = n \/ i \in DOMAIN bills) /\ n \in DOMAIN bills'
      BY <1>b, <3>2
    <3> HIDE DEF n
    <3>4. loop'.at # "bill"
      BY <2>1 DEF NoJob
    <3>5. BillStage'
      BY <1>a, <1>b, <2>1, <3>1, <3>2, <3>3, <3>4 DEF BillStage
    <3>6. \A i, j \in DOMAIN bills' : bills'[i].row = bills'[j].row => i = j
      BY <1>a, <2>2, <3>1, <3>2, <3>3 DEF BillsTraced
    <3>7. nexusRows[x].due \/ x \in excused
      BY <2>2, <2>3
    <3>8. \A i \in DOMAIN bills' : bills'[i].row \in DOMAIN nexusRows
                             /\ bills'[i].key = nexusRows[bills'[i].row].key
                             /\ (nexusRows[bills'[i].row].due \/ bills'[i].row \in excused)
      BY <1>a, <2>2, <2>3, <3>1, <3>2, <3>3, <3>7 DEF BillsTraced
    <3>9. \A y \in DOMAIN nexusRows :
            nexusRows[y].due /\ (\A i \in DOMAIN bills' : bills'[i].row # y) => stops \/ y \in excused
      BY <1>a, <3>1, <3>2, <3>3 DEF BillsTraced, x
    <3>10. BillsTraced'
      BY <2>1, <3>6, <3>8, <3>9 DEF BillsTraced
    <3> QED BY <3>5, <3>10
  <2>4. CASE ~(nexusRows[x].key = account.key /\ account.source # "null")
    <3>1. bills' = bills /\ loop'.at # "bill"
      BY <2>1, <2>4 DEF NoJob
    <3>2. BillStage'
      BY <1>a, <2>1, <3>1 DEF BillStage
    <3>3. BillsTraced'
      BY <1>a, <2>1, <2>2, <2>4, <3>1 DEF BillsTraced
    <3> QED BY <3>2, <3>3
  <2> QED BY <2>3, <2>4
<1> QED BY <1>3, <1>4, <1>5, <1>6, <1>7, <1>8, <1>9, <1>10, <1>11, <1>12 DEF ProviderNext

\* The bills, summed over the keys the account has had, are all the bills.
LEMMA BillSumStep ==
  ASSUME ProviderInv, ProviderNext
  PROVE  SumOf(Billed', 0..account'.key) = Len(bills')
<1> USE DEF certVars, extVars, billVars, providerVars
<1>a. /\ ProviderTypeOK /\ BillStage
      /\ SumOf(Billed, 0..account.key) = Len(bills)
  BY BillsIs DEF ProviderInv
<1>b. /\ account.key \in Nat /\ account \in [key : Nat, source : Source]
      /\ bills \in Seq([row : Nat, key : Nat]) /\ Len(bills) \in Nat /\ DOMAIN bills = 1..Len(bills)
  BY <1>a DEF ProviderTypeOK
<1>1. CASE bills' = bills /\ account'.key = account.key
  <2>1. Billed' = Billed
    BY <1>1 DEF Billed, BillsOf
  <2> QED BY <1>a, <1>1, <2>1
\* No bill has the new key.
<1>2. CASE RotateKey
  <2> DEFINE k == account.key + 1
  <2>1. bills' = bills /\ account'.key = k
    BY <1>b, <1>2 DEF RotateKey, SetAccount
  <2>2. 0..account'.key = 0..account.key \cup {k} /\ k \notin 0..account.key
    BY <1>b, <2>1
  <2>3. \A j \in 0..account.key : Billed'[j] = Billed[j]
    BY <2>1, <2>2 DEF Billed, BillsOf
  <2>4. Billed'[k] = 0
    <3>1. BillsOf(k) = {}
      <4>1. \A i \in DOMAIN bills : bills[i].key # k
        <5>1. \A i \in DOMAIN bills : bills[i] \in [row : Nat, key : Nat] /\ bills[i].key <= account.key
          BY <1>a, <1>b, TableRows DEF BillStage
        <5>2. \A i \in DOMAIN bills : bills[i].key \in Nat /\ bills[i].key <= account.key
          BY <5>1
        <5> QED BY <1>b, <5>2
      <4> QED BY <4>1 DEF BillsOf
    <3>2. Billed'[k] = Cardinality(BillsOf(k))
      BY <2>1, <2>2 DEF Billed, BillsOf
    <3> QED BY <3>1, <3>2, FS_EmptySet
  <2>5. SumOf(Billed', 0..account.key) = Len(bills)
    <3>1. SumOf(Billed', 0..account.key) = SumOf(Billed, 0..account.key)
      BY <1>a, <2>3, BillsFinite, SumSame
    <3> QED BY <1>a, <3>1
  <2>6. \A j \in 0..account.key \cup {k} : Billed'[j] \in Int
    BY <1>a, <2>3, <2>4, BillsFinite
  <2>7. SumOf(Billed', 0..account.key \cup {k}) = SumOf(Billed', 0..account.key) + Billed'[k]
    <3>1. IsFiniteSet(0..account.key)
      BY <1>a, BillsFinite
    <3> HIDE DEF k
    <3> QED BY <2>2, <2>6, <3>1, SumAdd
  <2> HIDE DEF k
  <2>8. SumOf(Billed', 0..account'.key) = SumOf(Billed', 0..account.key \cup {k})
    BY <2>2
  <2> QED BY <1>b, <2>1, <2>4, <2>5, <2>7, <2>8
<1>3. CASE NexusBill
  <2> DEFINE bill == [row |-> loop.row, key |-> account.key]
             n == Len(bills) + 1
  <2>k. PICK k : k = account.key
    OBVIOUS
  <2>1. account' = account /\ (bills' = bills \/ bills' = Append(bills, bill))
    BY <1>3 DEF NexusBill
  <2>2. CASE bills' = Append(bills, bill)
    <3>1. bill.key = k
      BY <2>k
    <3> HIDE DEF bill
    <3>2. /\ DOMAIN bills' = DOMAIN bills \cup {n} /\ bills'[n] = bill /\ n \notin DOMAIN bills
          /\ Len(bills') = n
          /\ \A i \in DOMAIN bills : bills'[i] = bills[i]
      BY <1>b, <2>2
    <3>3. BillsOf(k)' = BillsOf(k) \cup {n} /\ n \notin BillsOf(k)
      BY <2>1, <3>1, <3>2 DEF BillsOf
    <3>4. \A j : j # k => BillsOf(j)' = BillsOf(j)
      BY <3>1, <3>2 DEF BillsOf
    <3>5. Cardinality(BillsOf(k)') = Cardinality(BillsOf(k)) + 1
      <4>1. IsFiniteSet(BillsOf(k))
        BY <1>a, BillsFinite
      <4> HIDE DEF n
      <4> QED BY <3>3, <4>1, FS_AddElement
    <3>6. Billed' = [j \in 0..k |-> Cardinality(BillsOf(j)')]
      BY <2>k, <2>1 DEF Billed
    <3>7. Billed = [j \in 0..k |-> Cardinality(BillsOf(j))]
      BY <2>k DEF Billed
    <3>8. k \in 0..k
      BY <1>b, <2>k
    <3> HIDE DEF n
    <3>a. Billed'[k] = Cardinality(BillsOf(k)') /\ Billed[k] = Cardinality(BillsOf(k))
      BY <3>6, <3>7, <3>8
    <3>b. \A j \in 0..k \ {k} : Billed'[j] = Cardinality(BillsOf(j)') /\ Billed[j] = Cardinality(BillsOf(j))
      BY <3>6, <3>7
    <3>9. Billed'[k] = Billed[k] + 1 /\ \A j \in 0..k \ {k} : Billed'[j] = Billed[j]
      BY <3>4, <3>5, <3>a, <3>b
    <3>10. IsFiniteSet(0..k) /\ \A j \in 0..k : Billed[j] \in Int
      BY <1>a, <2>k, BillsFinite
    <3>11. Billed'[k] \in Int /\ Billed'[k] - Billed[k] = 1
      BY <3>8, <3>9, <3>10
    <3>12. SumOf(Billed', 0..k) = SumOf(Billed, 0..k) + (Billed'[k] - Billed[k])
      <4>1. PICK f, g, S : f = Billed /\ g = Billed' /\ S = 0..k
        OBVIOUS
      <4>2. IsFiniteSet(S) /\ k \in S /\ g[k] \in Int
            /\ (\A j \in S : f[j] \in Int) /\ \A j \in S \ {k} : g[j] = f[j]
        BY <3>8, <3>9, <3>10, <3>11, <4>1
      <4>3. SumOf(g, S) = SumOf(f, S) + (g[k] - f[k])
        BY <4>2, SumChange
      <4> QED BY <4>1, <4>3
    <3>13. SumOf(Billed, 0..k) = Len(bills) /\ account'.key = k /\ Len(bills') = Len(bills) + 1
      BY <1>a, <2>k, <2>1, <3>2 DEF n
    <3> QED BY <1>b, <3>11, <3>12, <3>13
  <2> QED BY <1>1, <2>1, <2>2
<1>4. CASE \E s \in {"null", "nexus"} : SetConformance(s)
  <2>1. bills' = bills /\ account'.key = account.key
    BY <1>b, <1>4 DEF SetConformance, SetAccount
  <2> QED BY <1>1, <2>1
<1>5. CASE \E c \in Cert : CertifyActivate(c)
  <2>1. bills' = bills /\ account'.key = account.key
    BY <1>b, <1>5 DEF CertifyActivate, SetAccount
  <2> QED BY <1>1, <2>1
<1>6. CASE \/ CoolDown
           \/ \E c \in Cert, f \in Folder : SelfCertify(c, f)
           \/ \E c \in Cert : CertifyRefused(c)
           \/ \E r \in Ref : LightningNonce(r) \/ \E blank \in BOOLEAN : ExternalNonce(r, blank)
           \/ \E refused \in BOOLEAN : ExternalRecord(refused)
           \/ ExternalLink
           \/ ExternalKarma
           \/ \E key \in 0..account.key : NexusRecord(key)
           \/ ProviderStop
  <2>1. bills' = bills /\ account' = account
    BY <1>6 DEF CoolDown, SelfCertify, CertifyRefused, LightningNonce, ExternalNonce, ExternalRecord,
                ExternalLink, ExternalKarma, NexusRecord, ProviderStop
  <2> QED BY <1>1, <2>1
<1> QED BY <1>2, <1>3, <1>4, <1>5, <1>6 DEF ProviderNext

\* Every handler of the provider keeps its invariant.
LEMMA ProviderStep == ASSUME ProviderInv, ProviderNext PROVE ProviderInv'
<1>1. BillsMatchTrails'
  BY BillTracedStep, BillSumStep, BillsIs
<1> QED BY <1>1, ProviderTypeStep, RefStep, BillTracedStep DEF ProviderInv

\* Requests to other handlers leave the provider alone.
LEMMA ProviderStays == ASSUME ProviderInv, UNCHANGED providerVars PROVE ProviderInv'
<1> USE DEF providerVars, certVars, extVars, billVars
<1>1. ProviderTypeOK'
  BY DEF ProviderInv, ProviderTypeOK
<1>2. RefStage' /\ ExternalRefOnce'
  <2>1. SourcesGranted /\ \A r \in Ref : RefKept(r)
    BY RefKeptIs DEF ProviderInv
  <2>2. SourcesGranted' /\ \A r \in Ref : RefKept(r)'
    BY <2>1 DEF SourcesGranted, RefKept, At
  <2> QED BY <2>2, RefKeptNext
<1>3. BillStage'
  BY DEF ProviderInv, BillStage
<1>4. BillsMatchTrails'
  <2>1. BillsTraced /\ SumOf(Billed, 0..account.key) = Len(bills)
    BY BillsIs DEF ProviderInv
  <2>2. Billed' = Billed /\ account' = account /\ bills' = bills
    BY DEF Billed, BillsOf
  <2>3. BillsTraced'
    BY <2>1 DEF BillsTraced
  <2> QED BY <2>1, <2>2, <2>3, BillsIs
<1> QED BY <1>1, <1>2, <1>3, <1>4 DEF ProviderInv

\* Nothing has been recorded, paid or billed yet.
LEMMA ProviderStart == ASSUME ProviderInit PROVE ProviderInv
<1>1. ProviderTypeOK
  <2>1. account \in [key : Nat, source : Source] /\ granted \subseteq Source
    BY DEF ProviderInit, Source
  <2>2. nexusRows \in Seq([key : Nat, due : BOOLEAN]) /\ bills \in Seq([row : Nat, key : Nat])
    BY DEF ProviderInit
  <2>3. extPaid \in [Ref -> Seq(Nat)]
    BY DEF ProviderInit
  <2> QED BY <2>1, <2>2, <2>3 DEF ProviderInit, ProviderTypeOK
<1>2. RefStage /\ ExternalRefOnce
  <2>1. SourcesGranted /\ \A r \in Ref : At(r) = "no"
    BY DEF ProviderInit, SourcesGranted, At, NoJob
  <2>2. \A r \in Ref : RefKept(r)
    BY <2>1 DEF ProviderInit, RefKept
  <2> QED BY <2>1, <2>2, RefKeptIs
<1>3. BillStage
  BY DEF ProviderInit, BillStage, NoJob
<1>4. BillsMatchTrails
  <2>1. BillsTraced
    BY DEF ProviderInit, BillsTraced
  <2>2. 0..account.key = {} \cup {0} /\ Len(bills) = 0
    BY DEF ProviderInit
  <2>3. Billed[0] = 0
    <3>1. BillsOf(0) = {} /\ account.key = 0
      BY DEF ProviderInit, BillsOf
    <3> QED BY <3>1, FS_EmptySet DEF Billed
  <2>4. SumOf(Billed, {} \cup {0}) = SumOf(Billed, {}) + Billed[0]
    <3>1. IsFiniteSet({}) /\ 0 \notin {} /\ \A y \in {} \cup {0} : Billed[y] \in Int
      BY <2>3, FS_EmptySet
    <3> QED BY <3>1, SumAdd
  <2>5. SumOf(Billed, 0..account.key) = SumOf(Billed, {} \cup {0})
    BY <2>2
  <2> QED BY <2>1, <2>2, <2>3, <2>4, <2>5, SumEmpty, BillsIs
<1> QED BY <1>1, <1>2, <1>3, <1>4 DEF ProviderInv

-----------------------------------------------------------------------------
(* Signed requests and the nonce cache.                                      *)

\* check_and_store takes a key again only after the key outlived its window, so the
\* second acceptance is past the first by more than the window.
LEMMA CheckAndStoreKeeps == ASSUME SigningInv, NEW s \in Sig, CheckAndStore(s) PROVE SigningInv'
<1>1. SigningTypeOK /\ CacheRemembers /\ ReplayNeedsSkew
  BY DEF SigningInv
<1>2. SIGNATURE_TTL_SECONDS \in Nat
  BY SigningAssumption
<1>3. /\ clock \in Nat /\ storedAt \in [Sig -> Nat] /\ firstAt \in [Sig -> Nat] /\ accepted \in [Sig -> Nat]
      /\ stamp \in [Sig -> Nat] /\ nonceStore \subseteq Sig /\ forgotten \in BOOLEAN
  BY <1>1 DEF SigningTypeOK
<1>4. /\ nonceStore' = Trimmed \cup {s} /\ (forgotten' <=> forgotten \/ Clears)
      /\ storedAt' = IF Accepts(s) THEN [storedAt EXCEPT ![s] = clock] ELSE storedAt
      /\ firstAt' = IF Accepts(s) /\ accepted[s] = 0 THEN [firstAt EXCEPT ![s] = clock] ELSE firstAt
      /\ accepted' = IF Accepts(s) THEN [accepted EXCEPT ![s] = @ + 1] ELSE accepted
      /\ clock' = clock /\ stamp' = stamp
  BY DEF CheckAndStore
<1>5. /\ Trimmed \subseteq nonceStore
      /\ \A t \in nonceStore : t \notin Trimmed =>
           Clears \/ storedAt[t] + SIGNATURE_TTL_SECONDS < clock
  BY DEF Trimmed, Expired
<1>6. SigningTypeOK'
  <2>1. nonceStore' \subseteq Sig
    BY <1>3, <1>4, <1>5
  <2>2. storedAt' \in [Sig -> Nat] /\ firstAt' \in [Sig -> Nat] /\ accepted' \in [Sig -> Nat]
    BY <1>3, <1>4
  <2>3. forgotten' \in BOOLEAN
    <3>1. forgotten' = (forgotten \/ Clears)
      BY DEF CheckAndStore
    <3> QED BY <3>1
  <2> QED BY <1>3, <1>4, <2>1, <2>2, <2>3 DEF SigningTypeOK
<1>7. ASSUME NEW t \in Sig, t # s \/ ~Accepts(s)
      PROVE  storedAt'[t] = storedAt[t] /\ firstAt'[t] = firstAt[t] /\ accepted'[t] = accepted[t]
  BY <1>3, <1>4, <1>7
<1>8. ASSUME Accepts(s)
      PROVE  /\ storedAt'[s] = clock /\ accepted'[s] = accepted[s] + 1
             /\ firstAt'[s] = IF accepted[s] = 0 THEN clock ELSE firstAt[s]
  BY <1>3, <1>4, <1>8
<1>9. CacheRemembers'
  <2> SUFFICES ASSUME NEW t \in Sig, accepted'[t] > 0
               PROVE  /\ firstAt'[t] <= storedAt'[t] /\ storedAt'[t] <= clock'
                      /\ forgotten' \/ t \in nonceStore' \/ storedAt'[t] + SIGNATURE_TTL_SECONDS < clock'
    BY DEF CacheRemembers
  <2>1. accepted[t] > 0 => /\ firstAt[t] <= storedAt[t] /\ storedAt[t] <= clock
                           /\ forgotten \/ t \in nonceStore \/ storedAt[t] + SIGNATURE_TTL_SECONDS < clock
    BY <1>1 DEF CacheRemembers
  <2>2. CASE t = s /\ Accepts(s)
    BY <1>3, <1>4, <1>8, <2>1, <2>2
  <2>3. CASE t # s \/ ~Accepts(s)
    BY <1>3, <1>4, <1>5, <1>7, <2>1, <2>3
  <2> QED BY <2>2, <2>3
<1>10. ReplayNeedsSkew'
  <2> SUFFICES ASSUME NEW t \in Sig, accepted'[t] > 1, ~forgotten'
               PROVE  stamp'[t] > firstAt'[t] \/ storedAt'[t] > stamp'[t] + SIGNATURE_TTL_SECONDS
    BY DEF ReplayNeedsSkew
  <2>1. CASE t = s /\ Accepts(s)
    <3>1. accepted[s] > 0 /\ accepted[s] # 0
      BY <1>3, <1>8, <2>1
    <3>2. firstAt[s] <= storedAt[s] /\ (s \in nonceStore \/ storedAt[s] + SIGNATURE_TTL_SECONDS < clock)
      BY <1>1, <1>4, <3>1 DEF CacheRemembers
    <3>3. storedAt[s] + SIGNATURE_TTL_SECONDS < clock
      BY <1>4, <1>5, <2>1, <3>2 DEF Accepts
    <3>4. firstAt'[s] = firstAt[s] /\ storedAt'[s] = clock
      BY <1>8, <2>1, <3>1
    <3> QED BY <1>2, <1>3, <1>4, <2>1, <3>2, <3>3, <3>4
  <2>2. CASE t # s \/ ~Accepts(s)
    BY <1>1, <1>4, <1>7, <2>2 DEF ReplayNeedsSkew
  <2> QED BY <2>1, <2>2
<1> QED BY <1>6, <1>9, <1>10 DEF SigningInv

\* A request without a signature changes nothing; one with a signature is counted
\* when it is accepted.
LEMMA AuthenticateKeeps ==
  ASSUME SigningInv, NEW s \in Sig \cup {NoSig}, NEW fresh \in BOOLEAN, NEW valid \in BOOLEAN,
         Authenticate(s, fresh, valid)
  PROVE  /\ SigningInv'
         /\ SumOf(accepted, Sig) \in Nat /\ SumOf(accepted', Sig) \in Nat
         /\ SumOf(accepted', Sig) = SumOf(accepted, Sig) + (IF Signed(s, fresh, valid) THEN 1 ELSE 0)
<1>1. accepted \in [Sig -> Nat] /\ IsFiniteSet(Sig)
  BY SigAssumption DEF SigningInv, SigningTypeOK
<1>2. SumOf(accepted, Sig) \in Nat
  BY <1>1, SumType
<1>3. CASE s # NoSig /\ fresh /\ valid
  <2>1. s \in Sig /\ CheckAndStore(s)
    BY <1>3 DEF Authenticate, VerifyRequest
  <2>2. SigningInv'
    BY <2>1, CheckAndStoreKeeps
  <2>3. CASE Accepts(s)
    <3>1. accepted' = [accepted EXCEPT ![s] = accepted[s] + 1]
      BY <2>1, <2>3 DEF CheckAndStore
    <3>2. accepted'[s] = accepted[s] + 1 /\ accepted'[s] \in Int /\ \A t \in Sig \ {s} : accepted'[t] = accepted[t]
      BY <1>1, <2>1, <3>1
    <3>3. SumOf(accepted', Sig) = SumOf(accepted, Sig) + (accepted'[s] - accepted[s])
      <4>1. PICK f, g : f = accepted /\ g = accepted'
        OBVIOUS
      <4>2. (\A t \in Sig : f[t] \in Int) /\ g[s] \in Int /\ \A t \in Sig \ {s} : g[t] = f[t]
        BY <1>1, <3>2, <4>1
      <4>3. SumOf(g, Sig) = SumOf(f, Sig) + (g[s] - f[s])
        BY <1>1, <2>1, <4>2, SumChange
      <4> QED BY <4>1, <4>3
    <3>4. accepted[s] \in Nat /\ accepted'[s] - accepted[s] = 1
      BY <1>1, <2>1, <3>2
    <3>5. Signed(s, fresh, valid)
      BY <1>3, <2>3 DEF Signed, Verified
    <3> QED BY <1>2, <2>2, <3>3, <3>4, <3>5
  <2>4. CASE ~Accepts(s)
    <3>1. accepted' = accepted
      BY <2>1, <2>4 DEF CheckAndStore
    <3>2. ~Signed(s, fresh, valid)
      BY <2>4 DEF Signed, Verified
    <3> QED BY <1>2, <2>2, <3>1, <3>2
  <2> QED BY <2>3, <2>4
<1>4. CASE ~(s # NoSig /\ fresh /\ valid)
  <2>1. UNCHANGED signingVars
    BY <1>4 DEF Authenticate, VerifyRequest
  <2>2. SigningInv'
    BY <2>1 DEF signingVars, SigningInv, SigningTypeOK, CacheRemembers, ReplayNeedsSkew
  <2>3. accepted' = accepted /\ ~Signed(s, fresh, valid)
    BY <1>4, <2>1 DEF signingVars, Signed, Verified
  <2> QED BY <1>2, <2>2, <2>3
<1> QED BY <1>3, <1>4

\* Time passing and restarts keep what the cache remembers.
LEMMA SigningClock == ASSUME SigningInv, SigningTick \/ SigningRestart PROVE SigningInv' /\ accepted' = accepted
<1>1. SIGNATURE_TTL_SECONDS \in Nat
  BY SigningAssumption
<1>2. CASE SigningTick
  <2>1. clock \in Nat /\ clock' = clock + 1
        /\ UNCHANGED <<stamp, nonceStore, storedAt, firstAt, accepted, forgotten>>
    BY <1>2 DEF SigningInv, SigningTypeOK, SigningTick
  <2>2. SigningTypeOK'
    BY <2>1 DEF SigningInv, SigningTypeOK
  <2>3. CacheRemembers'
    BY <1>1, <2>1 DEF SigningInv, SigningTypeOK, CacheRemembers
  <2>4. ReplayNeedsSkew'
    BY <2>1 DEF SigningInv, ReplayNeedsSkew
  <2> QED BY <2>1, <2>2, <2>3, <2>4 DEF SigningInv
<1>3. CASE SigningRestart
  <2>1. /\ nonceStore' = {} /\ forgotten' = TRUE
        /\ UNCHANGED <<clock, stamp, storedAt, firstAt, accepted>>
    BY <1>3 DEF SigningRestart
  <2> QED BY <2>1 DEF SigningInv, SigningTypeOK, CacheRemembers, ReplayNeedsSkew
<1> QED BY <1>2, <1>3

-----------------------------------------------------------------------------
(* The marketplace: the counters of the trails row and the execution rows.   *)

Execution == [who : Person, ok : BOOLEAN, via : {"unsigned", "mcp", "signed"}, rating : {0} \cup Rating]
Counters == [executions : Nat, success_count : Nat, rating_sum : Nat, rating_count : Nat]

\* Succeeded, Via, the paid executions, Rated and the ratings, of any table of
\* executions.
SucceededIn(rows) == {x \in DOMAIN rows : rows[x].ok}
SignedIn(rows) == {x \in DOMAIN rows : rows[x].ok /\ rows[x].via = "signed"}
PaidIn(rows) == {x \in DOMAIN rows : rows[x].ok /\ rows[x].via # "unsigned"}
RatedIn(rows) == {x \in DOMAIN rows : rows[x].rating # 0}
RatingsOf(rows) == [x \in DOMAIN rows |-> rows[x].rating]

\* The counters st and the karma agree with the rows, of which at most the accepted
\* signatures reported a success under a signature.
Agree(rows, st, karma, signatures, twice) ==
  /\ st.executions = Len(rows) /\ st.success_count = Cardinality(SucceededIn(rows))
  /\ karma = TRAIL_AUTHOR_KARMA_REWARD * Cardinality(PaidIn(rows))
  /\ Cardinality(SignedIn(rows)) <= signatures
  /\ twice = {} => /\ st.rating_sum = SumOf(RatingsOf(rows), RatedIn(rows))
                   /\ st.rating_count = Cardinality(RatedIn(rows))
  /\ st.rating_sum \in st.rating_count..(5 * st.rating_count)

\* CountersMatchRows is that, of the tables as they are.
LEMMA CountersIs ==
  ASSUME execRows \in Seq(Execution)
  PROVE  CountersMatchRows <=> Agree(execRows, stats, authorKarma, SumOf(accepted, Sig), overlapped)
<1>1. Succeeded = SucceededIn(execRows) /\ Rated = RatedIn(execRows) /\ Via("signed") = SignedIn(execRows)
  BY DEF Succeeded, Via, Rated, SucceededIn, RatedIn, SignedIn
<1>2. Via("mcp") \cup Via("signed") = PaidIn(execRows)
  <2>1. \A x \in DOMAIN execRows : execRows[x].via \in {"unsigned", "mcp", "signed"}
    <3>1. \A x \in DOMAIN execRows : execRows[x] \in Execution
      BY TableRows
    <3> QED BY <3>1 DEF Execution
  <2> QED BY <2>1 DEF Succeeded, Via, PaidIn
<1>3. Stars = SumOf(RatingsOf(execRows), Rated)
  BY DEF Stars, SumOf, RatingsOf
<1> QED BY <1>1, <1>2, <1>3 DEF CountersMatchRows, Agree, SumOf

\* The sets of rows are finite, and a sum of ratings is a number.
LEMMA RowsCounted ==
  ASSUME NEW rows \in Seq(Execution)
  PROVE  /\ \A S : S \subseteq DOMAIN rows => IsFiniteSet(S) /\ Cardinality(S) \in Nat
         /\ \A x \in DOMAIN rows : RatingsOf(rows)[x] = rows[x].rating /\ rows[x].rating \in {0} \cup Rating
         /\ SumOf(RatingsOf(rows), RatedIn(rows)) \in Int
<1>1. DOMAIN rows = 1..Len(rows) /\ Len(rows) \in Nat /\ \A x \in DOMAIN rows : rows[x] \in Execution
  BY TableRows
<1>2. IsFiniteSet(DOMAIN rows)
  BY <1>1, FS_Interval
<1>3. ASSUME NEW S, S \subseteq DOMAIN rows
      PROVE  IsFiniteSet(S) /\ Cardinality(S) \in Nat
  BY <1>2, <1>3, FS_Subset, FS_CardinalityType
<1>4. \A x \in DOMAIN rows : RatingsOf(rows)[x] = rows[x].rating /\ rows[x].rating \in {0} \cup Rating
  BY <1>1 DEF RatingsOf, Execution
<1>5. SumOf(RatingsOf(rows), RatedIn(rows)) \in Int
  <2>1. RatedIn(rows) \subseteq DOMAIN rows
    BY DEF RatedIn
  <2>2. \A x \in RatedIn(rows) : RatingsOf(rows)[x] \in Int
    BY <1>4, <2>1 DEF Rating
  <2> QED BY <1>3, <2>1, <2>2, SumType
<1> QED BY <1>3, <1>4, <1>5

\* Inserting an execution counts it, and pays a success that is vouched for.
LEMMA ExecutionAgrees ==
  ASSUME NEW rows \in Seq(Execution), NEW st \in Counters, NEW karma \in Nat, NEW signatures \in Nat, NEW twice,
         Agree(rows, st, karma, signatures, twice),
         NEW who \in Person, NEW ok \in BOOLEAN, NEW via \in {"unsigned", "mcp", "signed"},
         NEW more \in Nat, more = signatures + IF via = "signed" THEN 1 ELSE 0,
         NEW row, row = [who |-> who, ok |-> ok, via |-> via, rating |-> 0],
         NEW stNew, stNew = [st EXCEPT !.executions = @ + 1, !.success_count = @ + (IF ok THEN 1 ELSE 0)],
         NEW paid, paid = IF ok /\ via # "unsigned" THEN TRAIL_AUTHOR_KARMA_REWARD ELSE 0
  PROVE  Agree(Append(rows, row), stNew, karma + paid, more, twice)
<1> DEFINE n == Len(rows) + 1
           new == Append(rows, row)
<1>1. row.ok = ok /\ row.via = via /\ row.rating = 0 /\ row \in Execution
  BY DEF Execution
<1>2. /\ stNew.executions = st.executions + 1 /\ stNew.success_count = st.success_count + (IF ok THEN 1 ELSE 0)
      /\ stNew.rating_sum = st.rating_sum /\ stNew.rating_count = st.rating_count
  BY DEF Counters
<1>3. /\ DOMAIN new = DOMAIN rows \cup {n} /\ n \notin DOMAIN rows /\ new[n] = row /\ Len(new) = Len(rows) + 1
      /\ \A x \in DOMAIN rows : new[x] = rows[x]
      /\ new \in Seq(Execution)
  BY <1>1
<1> HIDE DEF new, n
<1>4. ASSUME NEW S, S \subseteq DOMAIN rows, NEW T, T = S \cup {n} \/ T = S
      PROVE  Cardinality(T) = Cardinality(S) + (IF n \in T THEN 1 ELSE 0) /\ Cardinality(S) \in Nat
  <2>1. IsFiniteSet(S) /\ Cardinality(S) \in Nat /\ n \notin S
    BY <1>3, <1>4, RowsCounted
  <2> QED BY <1>4, <2>1, FS_AddElement
<1>5. SucceededIn(new) = IF ok THEN SucceededIn(rows) \cup {n} ELSE SucceededIn(rows)
  BY <1>1, <1>3 DEF SucceededIn
<1>6. SignedIn(new) = IF ok /\ via = "signed" THEN SignedIn(rows) \cup {n} ELSE SignedIn(rows)
  BY <1>1, <1>3 DEF SignedIn
<1>7. PaidIn(new) = IF ok /\ via # "unsigned" THEN PaidIn(rows) \cup {n} ELSE PaidIn(rows)
  BY <1>1, <1>3 DEF PaidIn
<1>8. RatedIn(new) = RatedIn(rows)
  BY <1>1, <1>3 DEF RatedIn
<1>9. SumOf(RatingsOf(new), RatedIn(new)) = SumOf(RatingsOf(rows), RatedIn(rows))
  <2>1. RatedIn(rows) \subseteq DOMAIN rows
    BY DEF RatedIn
  <2>2. \A x \in RatedIn(rows) : RatingsOf(new)[x] = RatingsOf(rows)[x]
    BY <1>3, <2>1 DEF RatingsOf
  <2>3. IsFiniteSet(RatedIn(rows))
    BY <2>1, RowsCounted
  <2> QED BY <1>8, <2>2, <2>3, SumSame
<1>10. SucceededIn(rows) \subseteq DOMAIN rows /\ SignedIn(rows) \subseteq DOMAIN rows /\ PaidIn(rows) \subseteq DOMAIN rows
  BY DEF SucceededIn, SignedIn, PaidIn
<1>11. /\ Cardinality(SucceededIn(new)) = Cardinality(SucceededIn(rows)) + (IF ok THEN 1 ELSE 0)
       /\ Cardinality(SucceededIn(rows)) \in Nat
  BY <1>3, <1>4, <1>5, <1>10
<1>12. /\ Cardinality(SignedIn(new)) = Cardinality(SignedIn(rows)) + (IF ok /\ via = "signed" THEN 1 ELSE 0)
       /\ Cardinality(SignedIn(rows)) \in Nat
  BY <1>3, <1>4, <1>6, <1>10
<1>13. /\ Cardinality(PaidIn(new)) = Cardinality(PaidIn(rows)) + (IF ok /\ via # "unsigned" THEN 1 ELSE 0)
       /\ Cardinality(PaidIn(rows)) \in Nat
  BY <1>3, <1>4, <1>7, <1>10
<1>14. stNew.executions = Len(new) /\ stNew.success_count = Cardinality(SucceededIn(new))
  BY <1>2, <1>3, <1>11 DEF Agree
<1>15. karma + paid = TRAIL_AUTHOR_KARMA_REWARD * Cardinality(PaidIn(new))
  <2>1. karma = 3 * Cardinality(PaidIn(rows))
    BY DEF Agree, TRAIL_AUTHOR_KARMA_REWARD
  <2> QED BY <1>13, <2>1 DEF TRAIL_AUTHOR_KARMA_REWARD
<1>16. Cardinality(SignedIn(new)) <= more
  BY <1>12 DEF Agree
<1>17. Agree(new, stNew, karma + paid, more, twice)
  BY <1>2, <1>8, <1>9, <1>14, <1>15, <1>16 DEF Agree
<1> QED BY <1>17 DEF new

\* Rating a row that nobody rated counts its stars.
LEMMA RatingAgrees ==
  ASSUME NEW rows \in Seq(Execution), NEW st \in Counters, NEW karma \in Nat, NEW signatures \in Nat, NEW twice,
         NEW more \in Nat, signatures <= more,
         Agree(rows, st, karma, signatures, twice),
         NEW x \in DOMAIN rows, twice = {} => rows[x].rating = 0, NEW stars \in Rating
  PROVE  /\ Agree([rows EXCEPT ![x].rating = stars],
                  [st EXCEPT !.rating_sum = @ + stars, !.rating_count = @ + 1], karma, more, twice)
         /\ [rows EXCEPT ![x].rating = stars] \in Seq(Execution)
<1> DEFINE new == [rows EXCEPT ![x].rating = stars]
           stNew == [st EXCEPT !.rating_sum = @ + stars, !.rating_count = @ + 1]
           row == [rows[x] EXCEPT !.rating = stars]
<1>1. \A y \in DOMAIN rows : rows[y] \in Execution
  BY TableRows
<1>2. row.ok = rows[x].ok /\ row.via = rows[x].via /\ row.rating = stars /\ row \in Execution
  BY <1>1 DEF Execution
<1>3. /\ stNew.executions = st.executions /\ stNew.success_count = st.success_count
      /\ stNew.rating_sum = st.rating_sum + stars /\ stNew.rating_count = st.rating_count + 1
      /\ st.rating_sum \in Nat /\ st.rating_count \in Nat
  BY DEF Counters
<1>4. new = [rows EXCEPT ![x] = row]
  OBVIOUS
<1> HIDE DEF row, stNew, new
<1>5. /\ DOMAIN new = DOMAIN rows /\ Len(new) = Len(rows) /\ new[x] = row
      /\ \A y \in DOMAIN rows : y # x => new[y] = rows[y]
      /\ new \in Seq(Execution)
  BY <1>2, <1>4
<1>6. SucceededIn(new) = SucceededIn(rows) /\ SignedIn(new) = SignedIn(rows) /\ PaidIn(new) = PaidIn(rows)
  BY <1>2, <1>5 DEF SucceededIn, SignedIn, PaidIn
<1>7. stars \in Nat /\ stars # 0 /\ 1 <= stars /\ stars <= 5
  BY DEF Rating
<1>8. ASSUME twice = {}
      PROVE  /\ stNew.rating_sum = SumOf(RatingsOf(new), RatedIn(new))
             /\ stNew.rating_count = Cardinality(RatedIn(new))
  <2> DEFINE S == RatedIn(rows)
  <2>1. RatedIn(new) = S \cup {x} /\ x \notin S /\ S \subseteq DOMAIN rows
    BY <1>2, <1>5, <1>7, <1>8 DEF RatedIn
  <2>2. IsFiniteSet(S) /\ Cardinality(S) \in Nat
    BY <2>1, RowsCounted
  <2>3. Cardinality(RatedIn(new)) = Cardinality(S) + 1
    BY <2>1, <2>2, FS_AddElement
  <2>4. \A y \in S : RatingsOf(new)[y] = RatingsOf(rows)[y]
    BY <1>5, <2>1 DEF RatingsOf
  <2>5. RatingsOf(new)[x] = stars
    BY <1>2, <1>5 DEF RatingsOf
  <2>6. SumOf(RatingsOf(new), S) = SumOf(RatingsOf(rows), S)
    BY <2>2, <2>4, SumSame
  <2>7. \A y \in S \cup {x} : RatingsOf(new)[y] \in Int
    <3>1. \A y \in DOMAIN new : RatingsOf(new)[y] \in {0} \cup Rating
      BY <1>5, RowsCounted
    <3> QED BY <1>5, <2>1, <3>1 DEF Rating
  <2>8. SumOf(RatingsOf(new), S \cup {x}) = SumOf(RatingsOf(new), S) + RatingsOf(new)[x]
    BY <2>1, <2>2, <2>7, SumAdd
  <2>9. st.rating_sum = SumOf(RatingsOf(rows), S) /\ st.rating_count = Cardinality(S)
    BY <1>8 DEF Agree
  <2> QED BY <1>3, <2>1, <2>3, <2>5, <2>6, <2>8, <2>9
<1>9. stNew.rating_sum \in stNew.rating_count..(5 * stNew.rating_count)
  BY <1>3, <1>7 DEF Agree
<1>10. Cardinality(SignedIn(new)) <= more
  <2>1. SignedIn(rows) \subseteq DOMAIN rows
    BY DEF SignedIn
  <2>2. Cardinality(SignedIn(rows)) \in Nat
    BY <2>1, RowsCounted
  <2> QED BY <1>6, <2>2 DEF Agree
<1>11. Agree(new, stNew, karma, more, twice)
  BY <1>3, <1>5, <1>6, <1>8, <1>9, <1>10 DEF Agree
<1> QED BY <1>5, <1>11 DEF new, stNew

\* For a typed list of execution rows, CountersMatchRows is Agree of the state's
\* own rows, counters, karma and accepted signatures.
LEMMA CountersTyped ==
  execRows \in Seq(Execution) =>
    (CountersMatchRows <=> Agree(execRows, stats, authorKarma, SumOf(accepted, Sig), overlapped))
BY CountersIs

\* The same in the next state.
LEMMA CountersNext ==
  ASSUME execRows' \in Seq(Execution)
  PROVE  CountersMatchRows' <=> Agree(execRows', stats', authorKarma', SumOf(accepted', Sig), overlapped')
<1>1. (execRows \in Seq(Execution) =>
        (CountersMatchRows <=> Agree(execRows, stats, authorKarma, SumOf(accepted, Sig), overlapped)))'
  BY CountersTyped, PTL
<1> QED BY <1>1

\* The counters stay counters.
LEMMA CountersStay ==
  ASSUME NEW st \in Counters, NEW m \in Nat, NEW n \in Nat
  PROVE  /\ [st EXCEPT !.executions = @ + m, !.success_count = @ + n] \in Counters
         /\ [st EXCEPT !.rating_sum = @ + m, !.rating_count = @ + n] \in Counters
<1>1. /\ st.executions + m \in Nat /\ st.success_count + n \in Nat
      /\ st.rating_sum + m \in Nat /\ st.rating_count + n \in Nat
  BY DEF Counters
<1>2. [st EXCEPT !.executions = @ + m, !.success_count = @ + n] \in Counters
  BY <1>1 DEF Counters
<1>3. [st EXCEPT !.rating_sum = @ + m, !.rating_count = @ + n] \in Counters
  BY <1>1 DEF Counters
<1> QED BY <1>2, <1>3

\* What a step leaves of the marketplace's own tables.
MarketParts ==
  /\ execRows \in Seq(Execution) /\ stats \in Counters /\ authorKarma \in Nat
  /\ registered \in BOOLEAN
  /\ loopJob \in {Idle} \cup [op : {"register", "execute"}, sig : Sig \cup {NoSig}, fresh : BOOLEAN]
  /\ rateJob \in [Rater -> Nat]

\* Every handler of the marketplace keeps the counters in step with the rows.
LEMMA MarketStep ==
  ASSUME MarketInv, NEW sigs, sigs \subseteq Sig, NEW raters, raters \subseteq Rater, MarketNext(sigs, raters)
  PROVE  MarketInv'
<1> USE DEF marketRows, marketVars, signingVars
<1>a. MarketParts /\ SigningInv /\ RatersHold
  BY DEF MarketInv, MarketTypeOK, MarketParts, Execution, Counters
<1>b. Agree(execRows, stats, authorKarma, SumOf(accepted, Sig), overlapped)
  BY <1>a, CountersIs DEF MarketInv, MarketParts
<1>c. SumOf(accepted, Sig) \in Nat
  <2>1. accepted \in [Sig -> Nat] /\ IsFiniteSet(Sig)
    BY <1>a, SigAssumption DEF SigningInv, SigningTypeOK
  <2> QED BY <2>1, SumType
<1>d. ASSUME MarketParts', SigningInv', RatersHold',
             Agree(execRows', stats', authorKarma', SumOf(accepted', Sig), overlapped')
      PROVE  MarketInv'
  <2>1. MarketTypeOK'
    BY <1>d DEF MarketParts, MarketTypeOK, Execution, Counters
  <2>2. CountersMatchRows'
    BY <1>d, CountersNext DEF MarketParts
  <2> QED BY <1>d, <2>1, <2>2 DEF MarketInv
\* What the request on the loop carries.
<1>e. ASSUME loopJob.op \in {"register", "execute"}
      PROVE  loopJob.sig \in Sig \cup {NoSig} /\ loopJob.fresh \in BOOLEAN
  <2>1. loopJob # Idle
    BY <1>e DEF Idle
  <2>2. loopJob \in [op : {"register", "execute"}, sig : Sig \cup {NoSig}, fresh : BOOLEAN]
    BY <1>a, <2>1 DEF MarketParts
  <2> QED BY <2>2
\* The rows and the counters stay; signatures may be accepted.
<1>1. ASSUME UNCHANGED <<execRows, stats, authorKarma, overlapped, rateJob>>, registered' \in BOOLEAN,
             loopJob' \in {Idle} \cup [op : {"register", "execute"}, sig : Sig \cup {NoSig}, fresh : BOOLEAN],
             SigningInv', SumOf(accepted', Sig) \in Nat, SumOf(accepted, Sig) <= SumOf(accepted', Sig)
      PROVE  MarketInv'
  <2>1. MarketParts'
    BY <1>a, <1>1 DEF MarketParts
  <2>2. RatersHold'
    BY <1>a, <1>1 DEF RatersHold
  <2>3. Cardinality(SignedIn(execRows)) \in Nat
    <3>1. SignedIn(execRows) \subseteq DOMAIN execRows
      BY DEF SignedIn
    <3> QED BY <1>a, <3>1, RowsCounted DEF MarketParts
  <2>4. Agree(execRows', stats', authorKarma', SumOf(accepted', Sig), overlapped')
    BY <1>1, <1>b, <1>c, <2>3 DEF Agree
  <2> QED BY <1>1, <1>d, <2>1, <2>2, <2>4
<1>2. ASSUME NEW op \in {"register", "execute"}, NEW s \in sigs \cup {NoSig}, LoopArrive(op, s)
      PROVE  MarketInv'
  <2>1. MaybeFresh(s) \in BOOLEAN
    BY DEF MaybeFresh, Fresh
  <2>2. /\ UNCHANGED <<execRows, stats, authorKarma, overlapped, rateJob, registered>> /\ UNCHANGED signingVars
        /\ loopJob' = [op |-> op, sig |-> s, fresh |-> MaybeFresh(s)]
    BY <1>2 DEF LoopArrive
  <2>3. SigningInv' /\ SumOf(accepted', Sig) = SumOf(accepted, Sig)
    BY <1>a, <2>2 DEF SigningInv, SigningTypeOK, CacheRemembers, ReplayNeedsSkew
  <2>4. loopJob' \in [op : {"register", "execute"}, sig : Sig \cup {NoSig}, fresh : BOOLEAN]
    BY <2>1, <2>2
  <2> QED BY <1>1, <1>a, <1>c, <2>2, <2>3, <2>4 DEF MarketParts
<1>3. ASSUME NEW valid \in BOOLEAN, RegisterTrail(valid)
      PROVE  MarketInv'
  <2>1. /\ UNCHANGED <<execRows, stats, authorKarma, overlapped, rateJob>> /\ registered' = TRUE /\ loopJob' = Idle
        /\ Authenticate(loopJob.sig, loopJob.fresh, valid) /\ loopJob.op = "register"
    BY <1>3 DEF RegisterTrail
  <2>2. SigningInv' /\ SumOf(accepted', Sig) \in Nat /\ SumOf(accepted, Sig) <= SumOf(accepted', Sig)
    BY <1>a, <1>c, <1>e, <2>1, AuthenticateKeeps
  <2> QED BY <1>1, <2>1, <2>2
<1>4. CASE McpRegisterTrail
  <2>1. /\ UNCHANGED <<execRows, stats, authorKarma, overlapped, rateJob, loopJob>> /\ registered' = TRUE
        /\ UNCHANGED signingVars
    BY <1>4 DEF McpRegisterTrail
  <2>2. SigningInv' /\ SumOf(accepted', Sig) = SumOf(accepted, Sig)
    BY <1>a, <2>1 DEF SigningInv, SigningTypeOK, CacheRemembers, ReplayNeedsSkew
  <2> QED BY <1>1, <1>a, <1>c, <2>1, <2>2 DEF MarketParts
\* An execution is inserted.
<1>5. ASSUME NEW who \in Person, NEW ok \in BOOLEAN, NEW via \in {"unsigned", "mcp", "signed"},
             AddExecution(who, ok, via), SigningInv', SumOf(accepted', Sig) \in Nat,
             SumOf(accepted', Sig) = SumOf(accepted, Sig) + (IF via = "signed" THEN 1 ELSE 0),
             loopJob' = loopJob \/ loopJob' = Idle, rateJob' = rateJob
      PROVE  MarketInv'
  <2> DEFINE row == [who |-> who, ok |-> ok, via |-> via, rating |-> 0]
             paid == IF ok /\ via # "unsigned" THEN TRAIL_AUTHOR_KARMA_REWARD ELSE 0
  <2>1. /\ execRows' = Append(execRows, row)
        /\ stats' = [stats EXCEPT !.executions = @ + 1, !.success_count = @ + (IF ok THEN 1 ELSE 0)]
        /\ authorKarma' = authorKarma + paid
        /\ registered' = registered /\ overlapped' = overlapped
    BY <1>5 DEF AddExecution
  <2>2. row \in Execution /\ paid \in Nat
    BY DEF Execution, TRAIL_AUTHOR_KARMA_REWARD
  <2>3. stats' \in Counters
    <3>1. PICK n \in Nat : n = IF ok THEN 1 ELSE 0
      OBVIOUS
    <3>2. stats' = [stats EXCEPT !.executions = @ + 1, !.success_count = @ + n] /\ 1 \in Nat
      BY <2>1, <3>1
    <3> QED BY <1>a, <3>2, CountersStay DEF MarketParts
  <2>4. Agree(execRows', stats', authorKarma', SumOf(accepted', Sig), overlapped')
    <3>1. execRows \in Seq(Execution) /\ stats \in Counters /\ authorKarma \in Nat
      BY <1>a DEF MarketParts
    <3>2. PICK more \in Nat : more = SumOf(accepted', Sig)
      BY <1>5
    <3>3. PICK st : st = [stats EXCEPT !.executions = @ + 1, !.success_count = @ + (IF ok THEN 1 ELSE 0)]
      OBVIOUS
    <3>4. PICK signatures \in Nat : signatures = SumOf(accepted, Sig)
      BY <1>c
    <3>5. Agree(execRows, stats, authorKarma, signatures, overlapped)
          /\ more = signatures + IF via = "signed" THEN 1 ELSE 0
      BY <1>5, <1>b, <3>2, <3>4
    <3>6. row = [who |-> who, ok |-> ok, via |-> via, rating |-> 0]
          /\ paid = IF ok /\ via # "unsigned" THEN TRAIL_AUTHOR_KARMA_REWARD ELSE 0
      OBVIOUS
    <3> HIDE DEF row, paid
    <3>7. Agree(Append(execRows, row), st, authorKarma + paid, more, overlapped)
      BY <3>1, <3>3, <3>5, <3>6, ExecutionAgrees
    <3> QED BY <2>1, <3>2, <3>3, <3>7
  <2> HIDE DEF row, paid
  <2>5. execRows' \in Seq(Execution) /\ authorKarma' \in Nat
        /\ \A x \in DOMAIN execRows : x \in DOMAIN execRows' /\ execRows'[x] = execRows[x]
    BY <1>a, <2>1, <2>2 DEF MarketParts
  <2>6. MarketParts'
    BY <1>5, <1>a, <2>1, <2>3, <2>5 DEF MarketParts
  <2>7. RatersHold'
    BY <1>5, <1>a, <2>1, <2>5 DEF RatersHold
  <2> QED BY <1>5, <1>d, <2>4, <2>6, <2>7
<1>6. ASSUME NEW valid \in BOOLEAN, NEW who \in Person, NEW ok \in BOOLEAN, RecordTrailExecution(valid, who, ok)
      PROVE  MarketInv'
  <2> DEFINE via == IF Signed(loopJob.sig, loopJob.fresh, valid) THEN "signed" ELSE "unsigned"
  <2>1. /\ Authenticate(loopJob.sig, loopJob.fresh, valid) /\ loopJob.op = "execute"
        /\ AddExecution(who, ok, via) /\ loopJob' = Idle /\ rateJob' = rateJob
    BY <1>6 DEF RecordTrailExecution
  <2>2. /\ SigningInv' /\ SumOf(accepted', Sig) \in Nat
        /\ SumOf(accepted', Sig) = SumOf(accepted, Sig) + (IF Signed(loopJob.sig, loopJob.fresh, valid) THEN 1 ELSE 0)
    BY <1>a, <1>e, <2>1, AuthenticateKeeps
  <2>3. via \in {"unsigned", "mcp", "signed"} /\ (via = "signed" <=> Signed(loopJob.sig, loopJob.fresh, valid))
    OBVIOUS
  <2> HIDE DEF via
  <2> QED BY <1>5, <2>1, <2>2, <2>3
<1>7. ASSUME NEW who \in Person, NEW ok \in BOOLEAN, McpExecuteTrail(who, ok)
      PROVE  MarketInv'
  <2>1. AddExecution(who, ok, "mcp") /\ UNCHANGED <<loopJob, rateJob>> /\ UNCHANGED signingVars
    BY <1>7 DEF McpExecuteTrail
  <2>2. SigningInv' /\ SumOf(accepted', Sig) = SumOf(accepted, Sig)
    BY <1>a, <2>1 DEF SigningInv, SigningTypeOK, CacheRemembers, ReplayNeedsSkew
  <2>3. "mcp" \in {"unsigned", "mcp", "signed"} /\ "mcp" # "signed"
    OBVIOUS
  <2> QED BY <1>5, <1>c, <2>1, <2>2, <2>3
<1>8. ASSUME NEW r \in raters, NEW x \in DOMAIN execRows, RateCheck(r, x)
      PROVE  MarketInv'
  <2>1. /\ rateJob' = [rateJob EXCEPT ![r] = x] /\ execRows[x].rating = 0
        /\ overlapped' = IF \E q \in Rater : rateJob[q] = x THEN overlapped \cup {x} ELSE overlapped
        /\ UNCHANGED <<registered, execRows, stats, authorKarma, loopJob>> /\ UNCHANGED signingVars
    BY <1>8 DEF RateCheck, MayRate
  <2>2. SigningInv' /\ SumOf(accepted', Sig) = SumOf(accepted, Sig)
    BY <1>a, <2>1 DEF SigningInv, SigningTypeOK, CacheRemembers, ReplayNeedsSkew
  <2>3. x \in Nat /\ r \in Rater /\ rateJob \in [Rater -> Nat]
    BY <1>a, TableRows DEF MarketParts
  <2>4. MarketParts'
    BY <1>a, <2>1, <2>3 DEF MarketParts
  <2>5. RatersHold'
    <3> SUFFICES ASSUME NEW q \in Rater, rateJob'[q] # 0
                 PROVE  /\ rateJob'[q] \in DOMAIN execRows
                        /\ overlapped' = {} => /\ execRows[rateJob'[q]].rating = 0
                                               /\ \A p \in Rater : rateJob'[p] = rateJob'[q] => p = q
      BY <2>1 DEF RatersHold
    <3>1. overlapped' = {} => overlapped = {} /\ \A p \in Rater : rateJob[p] # x
      BY <2>1
    <3>2. \A p \in Rater : rateJob'[p] = IF p = r THEN x ELSE rateJob[p]
      BY <2>1, <2>3
    <3>3. CASE q = r
      BY <2>1, <3>1, <3>2, <3>3
    <3>4. CASE q # r
      <4>1. /\ rateJob[q] \in DOMAIN execRows
            /\ overlapped = {} => /\ execRows[rateJob[q]].rating = 0
                                  /\ \A p \in Rater : rateJob[p] = rateJob[q] => p = q
        BY <1>a, <3>2, <3>4 DEF RatersHold
      <4> QED BY <3>1, <3>2, <3>4, <4>1
    <3> QED BY <3>3, <3>4
  <2>6. Agree(execRows', stats', authorKarma', SumOf(accepted', Sig), overlapped')
    <3>1. overlapped' = {} => overlapped = {}
      BY <2>1
    <3> QED BY <1>b, <2>1, <2>2, <3>1 DEF Agree
  <2> QED BY <1>d, <2>2, <2>4, <2>5, <2>6
<1>9. ASSUME NEW r \in raters, NEW s \in sigs \cup {NoSig}, NEW valid \in BOOLEAN, NEW stars \in Rating,
             RateCommit(r, s, valid, stars)
      PROVE  MarketInv'
  <2>1. PICK x : x = rateJob[r]
    OBVIOUS
  <2>2. /\ x # 0 /\ Authenticate(s, MaybeFresh(s), valid)
        /\ execRows' = [execRows EXCEPT ![x].rating = stars]
        /\ stats' = [stats EXCEPT !.rating_sum = @ + stars, !.rating_count = @ + 1]
        /\ rateJob' = [rateJob EXCEPT ![r] = 0]
        /\ UNCHANGED <<registered, authorKarma, overlapped, loopJob>>
    BY <1>9, <2>1 DEF RateCommit
  <2>3. /\ SigningInv' /\ SumOf(accepted', Sig) \in Nat /\ SumOf(accepted, Sig) <= SumOf(accepted', Sig)
    <3>1. MaybeFresh(s) \in BOOLEAN /\ s \in Sig \cup {NoSig}
      BY DEF MaybeFresh, Fresh
    <3> QED BY <1>a, <1>c, <2>2, <3>1, AuthenticateKeeps
  <2>4. /\ r \in Rater /\ x \in DOMAIN execRows
        /\ overlapped = {} => /\ execRows[x].rating = 0
                              /\ \A q \in Rater : rateJob[q] = x => q = r
    BY <1>a, <2>1, <2>2 DEF RatersHold
  <2>5. /\ Agree(execRows', stats', authorKarma', SumOf(accepted', Sig), overlapped')
        /\ execRows' \in Seq(Execution)
    BY <1>a, <1>b, <1>c, <2>2, <2>3, <2>4, RatingAgrees DEF MarketParts
  <2>6. stats' \in Counters
    <3>1. stars \in Nat /\ stats \in Counters /\ 1 \in Nat
      BY <1>a DEF MarketParts, Rating
    <3> QED BY <2>2, <3>1, CountersStay
  <2>7. MarketParts'
    BY <1>a, <2>2, <2>4, <2>5, <2>6 DEF MarketParts
  <2>8. RatersHold'
    <3>1. rateJob \in [Rater -> Nat]
      BY <1>a DEF MarketParts
    <3>2. \A q \in Rater : rateJob'[q] = IF q = r THEN 0 ELSE rateJob[q]
      BY <2>2, <2>4, <3>1
    <3>3. DOMAIN execRows' = DOMAIN execRows /\ \A y \in DOMAIN execRows : y # x => execRows'[y] = execRows[y]
      BY <2>2
    <3> SUFFICES ASSUME NEW q \in Rater, rateJob'[q] # 0
                 PROVE  /\ rateJob'[q] \in DOMAIN execRows'
                        /\ overlapped' = {} => /\ execRows'[rateJob'[q]].rating = 0
                                               /\ \A p \in Rater : rateJob'[p] = rateJob'[q] => p = q
      BY DEF RatersHold
    <3>4. q # r /\ rateJob'[q] = rateJob[q] /\ rateJob[q] # 0
      BY <3>2
    <3>5. /\ rateJob[q] \in DOMAIN execRows
          /\ overlapped = {} => /\ execRows[rateJob[q]].rating = 0
                                /\ \A p \in Rater : rateJob[p] = rateJob[q] => p = q
      BY <1>a, <3>4 DEF RatersHold
    <3>6. overlapped = {} => rateJob[q] # x
      BY <2>4, <3>4
    <3> QED BY <2>2, <3>2, <3>3, <3>4, <3>5, <3>6
  <2> QED BY <1>d, <2>3, <2>5, <2>7, <2>8
<1>10. CASE MarketTick
  <2>1. UNCHANGED <<registered, execRows, stats, authorKarma, overlapped, loopJob, rateJob>> /\ SigningTick
    BY <1>10 DEF MarketTick
  <2>2. SigningInv' /\ SumOf(accepted', Sig) = SumOf(accepted, Sig)
    BY <1>a, <2>1, SigningClock
  <2> QED BY <1>1, <1>a, <1>c, <2>1, <2>2 DEF MarketParts
<1>11. CASE MarketRestart
  <2>1. /\ UNCHANGED <<registered, execRows, stats, authorKarma, overlapped>> /\ SigningRestart
        /\ loopJob' = Idle /\ rateJob' = [r \in Rater |-> 0]
    BY <1>11 DEF MarketRestart
  <2>2. SigningInv' /\ SumOf(accepted', Sig) = SumOf(accepted, Sig)
    BY <1>a, <2>1, SigningClock
  <2>3. MarketParts'
    BY <1>a, <2>1 DEF MarketParts
  <2>4. RatersHold'
    BY <2>1 DEF RatersHold
  <2>5. Agree(execRows', stats', authorKarma', SumOf(accepted', Sig), overlapped')
    BY <1>b, <2>1, <2>2
  <2> QED BY <1>d, <2>2, <2>3, <2>4, <2>5
<1> QED BY <1>2, <1>3, <1>4, <1>6, <1>7, <1>8, <1>9, <1>10, <1>11 DEF MarketNext

\* Requests to other handlers leave the marketplace alone.
LEMMA MarketStays == ASSUME MarketInv, UNCHANGED marketVars PROVE MarketInv'
<1> USE DEF marketVars, marketRows, signingVars
<1>1. SigningInv'
  BY DEF MarketInv, SigningInv, SigningTypeOK, CacheRemembers, ReplayNeedsSkew
<1>2. MarketTypeOK'
  BY DEF MarketInv, MarketTypeOK
<1>3. RatersHold'
  BY DEF MarketInv, RatersHold
<1>4. CountersMatchRows'
  <2>1. execRows \in Seq(Execution) /\ execRows' \in Seq(Execution)
    BY DEF MarketInv, MarketTypeOK, Execution
  <2>2. Agree(execRows, stats, authorKarma, SumOf(accepted, Sig), overlapped)
    BY <2>1, CountersIs DEF MarketInv
  <2>3. Agree(execRows', stats', authorKarma', SumOf(accepted', Sig), overlapped')
    BY <2>2
  <2> QED BY <2>1, <2>3, CountersNext
<1> QED BY <1>1, <1>2, <1>3, <1>4 DEF MarketInv

\* No trail is registered and no signature was seen.
LEMMA MarketStart == ASSUME MarketInit PROVE MarketInv
<1>1. SigningInv
  <2>1. MaxClock \in Nat
    BY SigningAssumption
  <2>2. SigningTypeOK
    <3>1. stamp \in [Sig -> Nat]
      BY <2>1 DEF MarketInit, SigningInit
    <3>2. storedAt \in [Sig -> Nat] /\ firstAt \in [Sig -> Nat] /\ accepted \in [Sig -> Nat]
      BY DEF MarketInit, SigningInit
    <3> QED BY <3>1, <3>2 DEF MarketInit, SigningInit, SigningTypeOK
  <2> QED BY <2>2 DEF MarketInit, SigningInit, SigningInv, CacheRemembers, ReplayNeedsSkew
<1>2. MarketTypeOK
  <2>1. /\ execRows \in Seq([who : Person, ok : BOOLEAN, via : {"unsigned", "mcp", "signed"},
                              rating : {0} \cup Rating])
        /\ rateJob \in [Rater -> Nat]
    BY DEF MarketInit
  <2>2. stats \in [executions : Nat, success_count : Nat, rating_sum : Nat, rating_count : Nat]
    BY DEF MarketInit
  <2> QED BY <2>1, <2>2 DEF MarketInit, MarketTypeOK
<1>3. RatersHold
  BY DEF MarketInit, RatersHold
<1>4. CountersMatchRows
  <2>1. execRows \in Seq(Execution) /\ execRows = <<>>
    BY DEF MarketInit
  <2>2. SucceededIn(execRows) = {} /\ SignedIn(execRows) = {} /\ PaidIn(execRows) = {} /\ RatedIn(execRows) = {}
    BY <2>1 DEF SucceededIn, SignedIn, PaidIn, RatedIn
  <2>3. SumOf(accepted, Sig) \in Nat
    <3>1. accepted \in [Sig -> Nat]
      BY <1>1 DEF SigningInv, SigningTypeOK
    <3> QED BY <3>1, SigAssumption, SumType
  <2>4. SumOf(RatingsOf(execRows), RatedIn(execRows)) = 0
    BY <2>2, SumEmpty
  <2>5. Cardinality({}) = 0
    BY FS_EmptySet
  <2>6. Agree(execRows, stats, authorKarma, SumOf(accepted, Sig), overlapped)
    <3>1. /\ stats.executions = 0 /\ stats.success_count = 0 /\ stats.rating_sum = 0 /\ stats.rating_count = 0
          /\ authorKarma = 0 /\ Len(execRows) = 0
      BY DEF MarketInit
    <3> QED BY <2>2, <2>3, <2>4, <2>5, <3>1 DEF Agree, TRAIL_AUTHOR_KARMA_REWARD
  <2> QED BY <2>1, <2>6, CountersIs
<1> QED BY <1>1, <1>2, <1>3, <1>4 DEF MarketInv

\* What is published is read off the counters.
LEMMA PublishedMatches == ASSUME MarketInv PROVE ReputationMatchesRows
<1>1. /\ execRows \in Seq(Execution)
      /\ stats \in Counters
  BY DEF MarketInv, MarketTypeOK, Execution, Counters
<1>2. CountersMatchRows
  BY DEF MarketInv
<1>3. execRows # <<>> => SuccessRate = <<Cardinality(Succeeded), Len(execRows)>>
  <2>1. execRows # <<>> => Len(execRows) # 0
    BY <1>1
  <2> QED BY <1>2, <2>1 DEF SuccessRate, CountersMatchRows
<1>4. overlapped = {} => AvgRating = IF Rated = {} THEN "null" ELSE <<Stars, Cardinality(Rated)>>
  <2>1. IsFiniteSet(Rated)
    <3>1. Rated \subseteq DOMAIN execRows
      BY DEF Rated
    <3> QED BY <1>1, <3>1, RowsCounted
  <2>2. Rated = {} <=> Cardinality(Rated) = 0
    BY <2>1, FS_EmptySet
  <2>3. overlapped = {} => stats.rating_sum = Stars /\ stats.rating_count = Cardinality(Rated)
    BY <1>2 DEF CountersMatchRows
  <2> QED BY <2>2, <2>3 DEF AvgRating
<1>5. AvgRating # "null" => AvgRating[1] \in AvgRating[2]..(5 * AvgRating[2])
  <2>1. stats.rating_sum \in stats.rating_count..(5 * stats.rating_count)
    BY <1>2 DEF CountersMatchRows
  <2>2. AvgRating = "null" \/ AvgRating = <<stats.rating_sum, stats.rating_count>>
    BY DEF AvgRating
  <2>3. CASE AvgRating = <<stats.rating_sum, stats.rating_count>>
    <3>1. AvgRating[1] = stats.rating_sum /\ AvgRating[2] = stats.rating_count
      BY <2>3
    <3> QED BY <2>1, <3>1
  <2> QED BY <2>2, <2>3
<1> QED BY <1>2, <1>3, <1>4, <1>5 DEF ReputationMatchesRows, CountersMatchRows

-----------------------------------------------------------------------------
(* The handlers together.                                                    *)

\* At the start every handler is in order.
LEMMA HandlersStart == ASSUME Init PROVE HandlersInv
BY MarketStart, ProviderStart, DocuStart DEF Init, HandlersInv

\* A step is one of the handler in focus.
LEMMA HandlersStep == ASSUME HandlersInv, [Next]_handlerVars PROVE HandlersInv'
<1>1. MarketInv /\ ProviderInv /\ DocuInv /\ focus \in {"signing", "rating", "provider", "negotiation"}
  BY DEF HandlersInv
<1>2. CASE UNCHANGED handlerVars
  <2>1. UNCHANGED focus /\ UNCHANGED marketVars /\ UNCHANGED providerVars /\ UNCHANGED docuVars
    BY <1>2 DEF handlerVars
  <2> QED BY <1>1, <2>1, MarketStays, ProviderStays, DocuStays DEF HandlersInv
<1>3. CASE Next
  <2>1. UNCHANGED focus
    BY <1>3 DEF Next
  <2>2. CASE (MarketNext(Sig, {}) \/ MarketNext({}, Rater)) /\ UNCHANGED <<providerVars, docuVars>>
    <3>1. MarketInv'
      BY <1>1, <2>2, MarketStep
    <3>2. UNCHANGED providerVars /\ UNCHANGED docuVars
      BY <2>2
    <3> QED BY <1>1, <2>1, <3>1, <3>2, ProviderStays, DocuStays DEF HandlersInv
  <2>3. CASE ProviderNext /\ UNCHANGED <<marketVars, docuVars>>
    <3>1. UNCHANGED marketVars /\ UNCHANGED docuVars
      BY <2>3
    <3> QED BY <1>1, <2>1, <2>3, <3>1, ProviderStep, MarketStays, DocuStays DEF HandlersInv
  <2>4. CASE NegotiationNext /\ UNCHANGED <<marketVars, providerVars>>
    <3>1. UNCHANGED marketVars /\ UNCHANGED providerVars
      BY <2>4
    <3> QED BY <1>1, <2>1, <2>4, <3>1, DocuStep, MarketStays, ProviderStays DEF HandlersInv
  <2> QED BY <1>3, <2>2, <2>3, <2>4 DEF Next
<1> QED BY <1>2, <1>3

\* The invariant of every part holds whichever handler runs.
THEOREM Invariance == Spec => []HandlersInv
<1>1. Init => HandlersInv
  BY HandlersStart
<1>2. HandlersInv /\ [Next]_handlerVars => HandlersInv'
  BY HandlersStep
<1> QED BY <1>1, <1>2, PTL DEF Spec

\* verify_request and NonceCache: one signature is accepted again only if its timestamp
\* was ahead of the clock, if the key lookup outlasted the window, or if the cache
\* forgot.
THEOREM ReplayNeedsSkewHolds == Spec => []ReplayNeedsSkew
<1>1. HandlersInv => ReplayNeedsSkew
  BY DEF HandlersInv, MarketInv, SigningInv
<1> QED BY <1>1, Invariance, PTL

\* record_trail_execution, rate_trail_execution and their MCP twins: the published
\* reputation and the author's karma are those of the execution rows.
THEOREM ReputationMatchesRowsHolds == Spec => []ReputationMatchesRows
<1>1. HandlersInv => ReputationMatchesRows
  BY PublishedMatches DEF HandlersInv
<1> QED BY <1>1, Invariance, PTL

\* /external/trail: an action_ref is recorded and paid at most once, at the weight of a
\* source that was vouched for, and not at all if the webhook had it as a payment hash.
THEOREM ExternalRefOnceHolds == Spec => []ExternalRefOnce
<1>1. HandlersInv => ExternalRefOnce
  BY DEF HandlersInv, ProviderInv
<1> QED BY <1>1, Invariance, PTL

\* /nexus/trail and the summaries: a trail is billed once, under the key it was sent
\* with, and the summary by key adds up to all the bills.
THEOREM BillsMatchTrailsHolds == Spec => []BillsMatchTrails
<1>1. HandlersInv => BillsMatchTrails
  BY DEF HandlersInv, ProviderInv
<1> QED BY <1>1, Invariance, PTL

\* /webhook/docuseal: a delivery answered has its trail, a second one needs a Pioneer
\* that recorded without answering, and a hash is stored only when the document was read.
THEOREM DocuSealTrailsHolds == Spec => []DocuSealTrails
<1>1. HandlersInv => DocuSealTrails
  BY DEF HandlersInv, DocuInv
<1> QED BY <1>1, Invariance, PTL

=============================================================================
