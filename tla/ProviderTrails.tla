--------------------------- MODULE ProviderTrails ---------------------------
(***************************************************************************)
(* One PAYG account as a provider: its conformance_source (set by the admin *)
(* or by self-certification), /external/trail, and the billing events of    *)
(* /nexus/trail.                                                            *)
(*                                                                          *)
(* /external/trail and /nexus/trail never await after reading the body, so  *)
(* each runs alone on the event loop; but every statement commits by        *)
(* itself, the process may stop between two of them, and the admin handlers *)
(* run in threads. Self-certification awaits GitHub. The table of used      *)
(* action_refs is also the Lightning webhook's table of payment hashes.     *)
(***************************************************************************)
EXTENDS Naturals, Sequences, FiniteSets, FiniteSetsExt

CONSTANTS
  Ref,           \* action_refs presented to /external/trail
  Cert,          \* self-certification requests
  MaxRotations,  \* bound: rotations of the api_key
  MaxNexus       \* bound: trails recorded through /nexus/trail

ASSUME ProviderAssumption == MaxRotations \in Nat /\ MaxNexus \in Nat

KARMA_DEFAULT_WEIGHT == 2   \* tenths of a karma point
KARMA_PROVIDER_WEIGHT == 7
CONFORMANCE_TIER == [nexus |-> 10, aps |-> 7]
Folder == {"nexus", "acme"} \* folders a provider may name
NoJob == [at |-> "idle"]

VARIABLES
  account,   \* row of payg_accounts: api_key (a number) and conformance_source
  cooling,   \* keys whose self-certification slot was taken in the last 60 s
  certJob,   \* Cert -> the key and folder it waits on GitHub for
  granted,   \* history: sources the admin set or GitHub confirmed
  usedRefs,  \* external_trail_nonces
  hashes,    \* those that are payment hashes the Lightning webhook recorded
  blanks,    \* history: refs presented with a blank service or operation
  extRows,   \* Ref -> trails recorded with it as nonce
  linked,    \* refs whose trail row carries action_ref
  extPaid,   \* Ref -> weights paid for it, in order
  loop,      \* the request on the event loop
  nexusRows, \* trails recorded through /nexus/trail: the account it was sent for
  bills,     \* billing_events
  excused,   \* history: nexus trails whose account changed before the billing test
  stops      \* history: the process has stopped with a request on the loop

certVars == <<cooling, certJob>>
extVars == <<usedRefs, hashes, blanks, extRows, linked, extPaid>>
billVars == <<nexusRows, bills>>
providerVars == <<account, granted, certVars, extVars, billVars, loop, excused, stops>>

ProviderInit ==
  /\ account = [key |-> 0, source |-> "null"]
  /\ cooling = {}
  /\ certJob = [c \in Cert |-> NoJob]
  /\ granted = {"null"}
  /\ usedRefs = {}
  /\ hashes = {}
  /\ blanks = {}
  /\ extRows = [r \in Ref |-> 0]
  /\ linked = {}
  /\ extPaid = [r \in Ref |-> <<>>]
  /\ loop = NoJob
  /\ nexusRows = <<>>
  /\ bills = <<>>
  /\ excused = {}
  /\ stops = FALSE

\* A write to payg_accounts. A nexus trail between its row and the billing test
\* will see it.
SetAccount(a) ==
  /\ account' = a
  /\ excused' = IF loop.at = "bill" THEN excused \cup {loop.row} ELSE excused

\* set_account_conformance, admin only: any source, or none.
SetConformance(source) ==
  /\ SetAccount([account EXCEPT !.source = source])
  /\ granted' = granted \cup {source}
  /\ UNCHANGED <<certVars, extVars, billVars, loop, stops>>

\* rotate_account_api_key, admin only.
RotateKey ==
  /\ account.key < MaxRotations
  /\ SetAccount([account EXCEPT !.key = @ + 1])
  /\ UNCHANGED <<granted, certVars, extVars, billVars, loop, stops>>

\* self_certify_provider up to the call to GitHub, for the account's key.
SelfCertify(c, folder) ==
  /\ certJob[c] = NoJob
  /\ folder \notin DOMAIN CONFORMANCE_TIER
  /\ account.key \notin cooling
  /\ cooling' = cooling \cup {account.key}
  /\ certJob' = [certJob EXCEPT ![c] = [at |-> "github", key |-> account.key, folder |-> folder]]
  /\ UNCHANGED <<account, granted, extVars, billVars, loop, excused, stops>>

\* GitHub did not list the folder: an error answer, and the slot stays taken.
CertifyRefused(c) ==
  /\ certJob[c].at = "github"
  /\ certJob' = [certJob EXCEPT ![c] = NoJob]
  /\ UNCHANGED <<account, granted, cooling, extVars, billVars, loop, excused, stops>>

\* GitHub listed it. The UPDATE finds no row if the key was rotated meanwhile,
\* and otherwise replaces whatever source the account has by now.
CertifyActivate(c) ==
  /\ certJob[c].at = "github"
  /\ certJob' = [certJob EXCEPT ![c] = NoJob]
  /\ IF certJob[c].key = account.key
     THEN /\ SetAccount([account EXCEPT !.source = certJob[c].folder])
          /\ granted' = granted \cup {certJob[c].folder}
     ELSE UNCHANGED <<account, granted, excused>>
  /\ UNCHANGED <<cooling, extVars, billVars, loop, stops>>

\* 60 seconds pass.
CoolDown ==
  /\ cooling # {}
  /\ cooling' = {}
  /\ UNCHANGED <<account, granted, certJob, extVars, billVars, loop, excused, stops>>

-----------------------------------------------------------------------------
(* POST /external/trail.                                                    *)

Weight(source) ==
  CASE source \in DOMAIN CONFORMANCE_TIER -> CONFORMANCE_TIER[source]
    [] source = "null" -> KARMA_DEFAULT_WEIGHT
    [] OTHER -> KARMA_PROVIDER_WEIGHT

\* The webhook's record_external_nonce, for a payment whose hash is r.
LightningNonce(r) ==
  /\ loop = NoJob
  /\ r \notin usedRefs
  /\ usedRefs' = usedRefs \cup {r}
  /\ hashes' = hashes \cup {r}
  /\ UNCHANGED <<account, granted, certVars, blanks, extRows, linked, extPaid, billVars, loop, excused, stops>>

\* Mutant of ExternalNonce: without has_external_nonce.
ExternalNonceUnchecked(r, blank) ==
  /\ loop = NoJob
  /\ usedRefs' = usedRefs \cup {r}
  /\ blanks' = IF blank THEN blanks \cup {r} ELSE blanks
  /\ loop' = [at |-> "record", ref |-> r, source |-> account.source, blank |-> blank]
  /\ UNCHANGED <<account, granted, certVars, hashes, extRows, linked, extPaid, billVars, excused, stops>>

\* The checks, the weight and record_external_nonce. service and operation are
\* stripped and not looked at again.
ExternalNonce(r, blank) ==
  /\ loop = NoJob
  /\ r \notin usedRefs
  /\ usedRefs' = usedRefs \cup {r}
  /\ blanks' = IF blank THEN blanks \cup {r} ELSE blanks
  /\ loop' = [at |-> "record", ref |-> r, source |-> account.source, blank |-> blank]
  /\ UNCHANGED <<account, granted, certVars, hashes, extRows, linked, extPaid, billVars, excused, stops>>

\* record_trail refuses a blank service or operation from anyone; a provider has
\* no quota, other accounts may be refused for theirs.
ExternalRecord(refused) ==
  /\ loop.at = "record"
  /\ loop.blank => refused
  /\ refused => loop.blank \/ loop.source = "null"
  /\ extRows' = IF refused THEN extRows ELSE [extRows EXCEPT ![loop.ref] = @ + 1]
  /\ loop' = [loop EXCEPT !.at = IF refused THEN "karma" ELSE "link"]
  /\ UNCHANGED <<account, granted, certVars, usedRefs, hashes, blanks, linked, extPaid, billVars, excused, stops>>

ExternalLink ==
  /\ loop.at = "link"
  /\ linked' = linked \cup {loop.ref}
  /\ loop' = [loop EXCEPT !.at = "karma"]
  /\ UNCHANGED <<account, granted, certVars, usedRefs, hashes, blanks, extRows, extPaid, billVars, excused, stops>>

\* Karma, whether or not there is a trail, and the answer.
ExternalKarma ==
  /\ loop.at = "karma"
  /\ extPaid' = [extPaid EXCEPT ![loop.ref] = Append(@, Weight(loop.source))]
  /\ loop' = NoJob
  /\ UNCHANGED <<account, granted, certVars, usedRefs, hashes, blanks, extRows, linked, billVars, excused, stops>>

-----------------------------------------------------------------------------
(* POST /nexus/trail, from record_trail to the billing event. key is the    *)
(* body's api_key: the account's or an old one, which no row has any more.  *)

NexusRecord(key) ==
  /\ loop = NoJob
  /\ Len(nexusRows) < MaxNexus
  /\ nexusRows' = Append(nexusRows, [key |-> key, due |-> key = account.key /\ account.source # "null"])
  /\ loop' = [at |-> "bill", row |-> Len(nexusRows) + 1]
  /\ UNCHANGED <<account, granted, certVars, extVars, bills, excused, stops>>

\* Mutant of NexusBill: an old api_key still bills.
NexusBillAnyKey ==
  /\ loop.at = "bill"
  /\ bills' = IF account.source # "null"
              THEN Append(bills, [row |-> loop.row, key |-> nexusRows[loop.row].key]) ELSE bills
  /\ loop' = NoJob
  /\ UNCHANGED <<account, granted, certVars, extVars, nexusRows, excused, stops>>

NexusBill ==
  /\ loop.at = "bill"
  /\ bills' = IF nexusRows[loop.row].key = account.key /\ account.source # "null"
              THEN Append(bills, [row |-> loop.row, key |-> account.key]) ELSE bills
  /\ loop' = NoJob
  /\ UNCHANGED <<account, granted, certVars, extVars, nexusRows, excused, stops>>

\* The process stops and starts: requests and the in-memory slots are gone.
ProviderStop ==
  /\ ~stops
  /\ loop' = NoJob
  /\ cooling' = {}
  /\ certJob' = [c \in Cert |-> NoJob]
  /\ stops' = TRUE
  /\ UNCHANGED <<account, granted, extVars, billVars, excused>>

ProviderNext ==
  \/ \E s \in {"null", "nexus"} : SetConformance(s)
  \/ RotateKey
  \/ \E c \in Cert, f \in Folder : SelfCertify(c, f)
  \/ \E c \in Cert : CertifyRefused(c) \/ CertifyActivate(c)
  \/ CoolDown
  \/ \E r \in Ref : LightningNonce(r) \/ \E blank \in BOOLEAN : ExternalNonce(r, blank)
  \/ \E refused \in BOOLEAN : ExternalRecord(refused)
  \/ ExternalLink
  \/ ExternalKarma
  \/ \E key \in 0..account.key : NexusRecord(key)
  \/ NexusBill
  \/ ProviderStop

-----------------------------------------------------------------------------
(* get_billing_summary groups by api_key, /billing/summary sums by agent.   *)

BillsOf(key) == {i \in DOMAIN bills : bills[i].key = key}

(***************************************************************************)
(* /external/trail: an action_ref is recorded and paid at most once, at the *)
(* weight of a source the admin or GitHub had vouched for, and not at all   *)
(* if it is a payment hash the webhook had recorded. A weight above the     *)
(* default one goes with a trail, unless the request had no service or      *)
(* operation. Unless the process stopped inside a request, an action_ref    *)
(* used here has been paid and its trail, if there is one, can be found by  *)
(* action_ref.                                                              *)
(***************************************************************************)
ExternalRefOnce ==
  \A r \in Ref :
    LET running == loop.at \in {"record", "link", "karma"} /\ loop.ref = r IN
    /\ extRows[r] <= 1 /\ Len(extPaid[r]) <= 1
    /\ \A w \in {KARMA_PROVIDER_WEIGHT, CONFORMANCE_TIER["nexus"]} :
         extPaid[r] = <<w>> => r \in linked \cup blanks /\ \E g \in granted : Weight(g) = w
    /\ r \in hashes => extRows[r] = 0 /\ extPaid[r] = <<>>
    /\ r \in usedRefs \ hashes /\ ~running /\ ~stops =>
         extPaid[r] # <<>> /\ (extRows[r] = 1 <=> r \in linked)

(***************************************************************************)
(* Billing: a nexus trail is billed at most once and only under the key it  *)
(* was sent with; one sent under the key of a provider's account goes       *)
(* unbilled only while its handler runs, if the process stopped, or if the  *)
(* account changed between the trail row and the billing test. The per-key  *)
(* summary, summed over the keys an account has had, is the agent's.        *)
(***************************************************************************)
BillsMatchTrails ==
  /\ \A i, j \in DOMAIN bills : bills[i].row = bills[j].row => i = j
  /\ \A i \in DOMAIN bills : bills[i].row \in DOMAIN nexusRows
                             /\ bills[i].key = nexusRows[bills[i].row].key
                             /\ (nexusRows[bills[i].row].due \/ bills[i].row \in excused)
  /\ \A x \in DOMAIN nexusRows :
       nexusRows[x].due /\ (\A i \in DOMAIN bills : bills[i].row # x) =>
         stops \/ x \in excused \/ (loop.at = "bill" /\ loop.row = x)
  /\ LET billed == [k \in 0..account.key |-> Cardinality(BillsOf(k))]
     IN  MapThenSumSet(LAMBDA k : billed[k], 0..account.key) = Len(bills)

-----------------------------------------------------------------------------
(* The inductive invariant.                                                 *)

Source == {"null"} \cup Folder

ProviderTypeOK ==
  /\ account \in [key : Nat, source : Source]
  /\ granted \subseteq Source
  /\ certJob \in [Cert -> {NoJob} \cup [at : {"github"}, key : Nat, folder : Folder]]
  /\ usedRefs \subseteq Ref /\ hashes \subseteq usedRefs /\ blanks \subseteq usedRefs
  /\ extRows \in [Ref -> Nat]
  /\ linked \subseteq Ref
  /\ extPaid \in [Ref -> Seq(Nat)]
  /\ loop \in {NoJob} \cup [at : {"record", "link", "karma"}, ref : Ref, source : Source, blank : BOOLEAN]
                       \cup [at : {"bill"}, row : Nat]
  /\ nexusRows \in Seq([key : Nat, due : BOOLEAN])
  /\ bills \in Seq([row : Nat, key : Nat])
  /\ stops \in BOOLEAN

\* How far /external/trail has come with each action_ref.
RefStage ==
  /\ account.source \in granted
  /\ loop.at \in {"record", "link", "karma"} =>
       /\ loop.ref \in usedRefs \ hashes /\ loop.source \in granted
       /\ loop.blank => loop.ref \in blanks
  /\ \A r \in Ref :
       LET at == IF loop.at \in {"record", "link", "karma"} /\ loop.ref = r THEN loop.at ELSE "no" IN
       /\ r \notin usedRefs \/ r \in hashes \/ at = "record" => extRows[r] = 0 /\ r \notin linked
       /\ at = "link" => extRows[r] = 1 /\ r \notin linked
       /\ at = "karma" => (extRows[r] = 1 <=> r \in linked)
                          /\ (r \notin linked \cup blanks => loop.source = "null")
       /\ r \notin usedRefs \/ r \in hashes \/ at # "no" => extPaid[r] = <<>>

\* The row on the way to its billing test, as it was recorded, and the keys so far.
BillStage ==
  /\ \A x \in DOMAIN nexusRows : nexusRows[x].key <= account.key
  /\ \A i \in DOMAIN bills : bills[i].key <= account.key
  /\ loop.at = "bill" =>
       /\ loop.row \in DOMAIN nexusRows
       /\ \A i \in DOMAIN bills : bills[i].row # loop.row
       /\ loop.row \notin excused =>
            (nexusRows[loop.row].due <=>
               nexusRows[loop.row].key = account.key /\ account.source # "null")

ProviderInv ==
  /\ ProviderTypeOK
  /\ RefStage
  /\ BillStage
  /\ ExternalRefOnce
  /\ BillsMatchTrails
=============================================================================
