---------------------------- MODULE AgentSigning ----------------------------
(***************************************************************************)
(* agent_signing: freshness and single use of signed requests.              *)
(*                                                                          *)
(* A signature is what it commits to: an agent, a nonce and a timestamp.    *)
(* Each element of Sig is one signed payload with its own agent:nonce key.  *)
(* verify_request runs in two steps, because the public key is fetched over *)
(* HTTP between the freshness test and NonceCache.check_and_store, which    *)
(* reads the clock again.                                                   *)
(***************************************************************************)
EXTENDS Naturals, FiniteSets

CONSTANTS
  Sig,                    \* signed payloads that clients hold
  SIGNATURE_TTL_SECONDS,
  NONCE_CACHE_MAX,
  MaxClock                \* bound: the clock stops here

ASSUME SigningAssumption ==
  /\ SIGNATURE_TTL_SECONDS \in Nat
  /\ NONCE_CACHE_MAX \in Nat
  /\ MaxClock \in Nat
ASSUME SigAssumption == IsFiniteSet(Sig)

VARIABLES
  clock,      \* time.time()
  stamp,      \* Sig -> the timestamp its client signed, right or skewed
  nonceStore, \* the signatures whose agent:nonce key is in NonceCache._store
  storedAt,   \* Sig -> time at which its key was last stored
  firstAt,    \* history: Sig -> time of its first acceptance
  accepted,   \* history: Sig -> how often it was accepted
  forgotten   \* history: the cache was cleared on overflow, or lost in a restart

signingVars ==
  <<clock, stamp, nonceStore, storedAt, firstAt, accepted, forgotten>>

SigningInit ==
  /\ clock = 0
  /\ stamp \in [Sig -> 0..MaxClock]
  /\ nonceStore = {}
  /\ storedAt = [s \in Sig |-> 0]
  /\ firstAt = [s \in Sig |-> 0]
  /\ accepted = [s \in Sig |-> 0]
  /\ forgotten = FALSE

\* abs(current - timestamp) <= SIGNATURE_TTL_SECONDS
Fresh(s) ==
  /\ clock <= stamp[s] + SIGNATURE_TTL_SECONDS
  /\ stamp[s] <= clock + SIGNATURE_TTL_SECONDS

\* Mutant of Expired: the entry is dropped at the cutoff itself.
ExpiredAtCutoff == {s \in nonceStore : storedAt[s] + SIGNATURE_TTL_SECONDS <= clock}

\* _evict_expired: the keys stored before now - ttl.
Expired == {s \in nonceStore : storedAt[s] + SIGNATURE_TTL_SECONDS < clock}

\* The cache after the size test that check_and_store begins with.
Overflows == Cardinality(nonceStore) > NONCE_CACHE_MAX

Clears == Overflows /\ Cardinality(nonceStore \ Expired) > NONCE_CACHE_MAX

Trimmed ==
  CASE Clears -> {}
    [] Overflows /\ ~Clears -> nonceStore \ Expired
    [] OTHER -> nonceStore

\* check_and_store refuses a key that the trimmed cache still holds. Overflow
\* trims the cache whatever the answer is.
Accepts(s) == s \notin Trimmed

CheckAndStore(s) ==
  /\ nonceStore' = Trimmed \cup {s}
  /\ forgotten' = (forgotten \/ Clears)
  /\ storedAt' = IF Accepts(s) THEN [storedAt EXCEPT ![s] = clock] ELSE storedAt
  /\ firstAt' = IF Accepts(s) /\ accepted[s] = 0
                THEN [firstAt EXCEPT ![s] = clock] ELSE firstAt
  /\ accepted' = IF Accepts(s) THEN [accepted EXCEPT ![s] = @ + 1] ELSE accepted
  /\ UNCHANGED <<clock, stamp>>

\* The rest of verify_request for a signature that passed the freshness test:
\* valid says that a key was fetched and that the signature verifies under it.
VerifyRequest(s, fresh, valid) ==
  IF fresh /\ valid THEN CheckAndStore(s) ELSE UNCHANGED signingVars

Verified(s, fresh, valid) == fresh /\ valid /\ Accepts(s)

SigningTick ==
  /\ clock < MaxClock
  /\ clock' = clock + 1
  /\ UNCHANGED <<stamp, nonceStore, storedAt, firstAt, accepted, forgotten>>

\* The module-level _nonce_cache starts empty in a new process.
SigningRestart ==
  /\ nonceStore' = {}
  /\ forgotten' = TRUE
  /\ UNCHANGED <<clock, stamp, storedAt, firstAt, accepted>>

(***************************************************************************)
(* While the cache is neither cleared nor lost, one signature is accepted   *)
(* again only if its timestamp was ahead of the service's clock the first   *)
(* time, or if the key lookup let the second check run past the freshness   *)
(* window (verify_request and NonceCache.check_and_store).                  *)
(***************************************************************************)
ReplayNeedsSkew ==
  \A s \in Sig :
    accepted[s] > 1 /\ ~forgotten =>
      \/ stamp[s] > firstAt[s]
      \/ storedAt[s] > stamp[s] + SIGNATURE_TTL_SECONDS

-----------------------------------------------------------------------------
(* The inductive invariant.                                                 *)

SigningTypeOK ==
  /\ clock \in Nat
  /\ stamp \in [Sig -> Nat]
  /\ nonceStore \subseteq Sig
  /\ storedAt \in [Sig -> Nat]
  /\ firstAt \in [Sig -> Nat]
  /\ accepted \in [Sig -> Nat]
  /\ forgotten \in BOOLEAN

\* What was accepted is still in the cache, or went when it had outlived its window.
CacheRemembers ==
  \A s \in Sig : accepted[s] > 0 =>
    /\ firstAt[s] <= storedAt[s] /\ storedAt[s] <= clock
    /\ forgotten \/ s \in nonceStore \/ storedAt[s] + SIGNATURE_TTL_SECONDS < clock

SigningInv ==
  /\ SigningTypeOK
  /\ CacheRemembers
  /\ ReplayNeedsSkew
=============================================================================
