----------------------------- MODULE Marketplace -----------------------------
(***************************************************************************)
(* The trail marketplace: /trails, /trails/{id}/execute, /trails/{id}/rate  *)
(* and the MCP tools of the same names, composed with AgentSigning.          *)
(*                                                                          *)
(* The async REST handlers run on the event loop, one at a time; the rating *)
(* handlers are plain functions, each in a thread of its own, and read the  *)
(* execution in autocommit before they open the transaction that rates it.  *)
(***************************************************************************)
EXTENDS AgentSigning, Sequences, FiniteSetsExt

CONSTANTS
  Rater,         \* threads that serve rating requests
  MaxExecutions  \* bound: rows of trail_executions

TRAIL_AUTHOR_KARMA_REWARD == 3
Rating == {1, 5}
Person == {"author", "other"}
NoSig == "none"
Idle == [op |-> "idle"]

VARIABLES
  registered,  \* the trail has been registered
  execRows,    \* rows of trail_executions: executor, status, rating (0 is NULL)
               \* and, as history, how the execution was reported
  stats,       \* the counters of the trails row
  authorKarma, \* karma the author's wisdom row was given for executions
  loopJob,     \* the async request on the event loop
  rateJob,     \* Rater -> the execution it found unrated, 0 when idle
  overlapped   \* history: executions that two raters found unrated

marketRows == <<registered, execRows, stats, authorKarma, overlapped>>
marketVars == <<marketRows, loopJob, rateJob, signingVars>>

MarketInit ==
  /\ SigningInit
  /\ registered = FALSE
  /\ execRows = <<>>
  /\ stats = [executions |-> 0, success_count |-> 0, rating_sum |-> 0, rating_count |-> 0]
  /\ authorKarma = 0
  /\ loopJob = Idle
  /\ rateJob = [r \in Rater |-> 0]
  /\ overlapped = {}

MaybeFresh(s) == s # NoSig /\ Fresh(s)

\* What _verify_agent_signature does to the cache, and its answer: an absent
\* field means False.
Authenticate(s, fresh, valid) ==
  IF s = NoSig THEN UNCHANGED signingVars ELSE VerifyRequest(s, fresh, valid)

Signed(s, fresh, valid) == s # NoSig /\ Verified(s, fresh, valid)

\* The async handlers of POST /trails and POST /trails/{id}/execute up to the
\* key lookup: request validation, the SELECT and the freshness test.
LoopArrive(op, s) ==
  /\ loopJob = Idle
  /\ IF op = "register" THEN ~registered ELSE registered /\ Len(execRows) < MaxExecutions
  /\ loopJob' = [op |-> op, sig |-> s, fresh |-> MaybeFresh(s)]
  /\ UNCHANGED <<marketRows, rateJob, signingVars>>

\* register_trail reports whether the request was signed; the row is written
\* either way.
RegisterTrail(valid) ==
  /\ loopJob.op = "register"
  /\ Authenticate(loopJob.sig, loopJob.fresh, valid)
  /\ registered' = TRUE
  /\ loopJob' = Idle
  /\ UNCHANGED <<execRows, stats, authorKarma, overlapped, rateJob>>

\* MCP register_trail takes no signature.
McpRegisterTrail ==
  /\ ~registered
  /\ registered' = TRUE
  /\ UNCHANGED <<execRows, stats, authorKarma, overlapped, loopJob, rateJob, signingVars>>

\* One transaction: the execution row, the counters and the author's karma.
AddExecution(who, ok, via) ==
  /\ execRows' = Append(execRows, [who |-> who, ok |-> ok, via |-> via, rating |-> 0])
  /\ stats' = [stats EXCEPT !.executions = @ + 1,
                            !.success_count = @ + (IF ok THEN 1 ELSE 0)]
  /\ authorKarma' = authorKarma +
       (IF ok /\ via # "unsigned" THEN TRAIL_AUTHOR_KARMA_REWARD ELSE 0)
  /\ UNCHANGED <<registered, overlapped>>

RecordTrailExecution(valid, who, ok) ==
  /\ loopJob.op = "execute"
  /\ Len(execRows) < MaxExecutions
  /\ Authenticate(loopJob.sig, loopJob.fresh, valid)
  /\ AddExecution(who, ok,
       IF Signed(loopJob.sig, loopJob.fresh, valid) THEN "signed" ELSE "unsigned")
  /\ loopJob' = Idle
  /\ UNCHANGED rateJob

\* MCP execute_trail: no signature, and a success always pays the author.
McpExecuteTrail(who, ok) ==
  /\ registered
  /\ Len(execRows) < MaxExecutions
  /\ AddExecution(who, ok, "mcp")
  /\ UNCHANGED <<loopJob, rateJob, signingVars>>

MayRate(x) ==
  /\ execRows[x].rating = 0
  /\ execRows[x].who # "author"

\* rate_trail_execution (and, with NoSig, MCP rate_trail): the reads. The
\* signature of a rating only fills a field of the answer, so its freshness test
\* and its nonce are taken together, in RateCommit.
RateCheck(r, x) ==
  /\ rateJob[r] = 0
  /\ MayRate(x)
  /\ rateJob' = [rateJob EXCEPT ![r] = x]
  /\ overlapped' = IF \E q \in Rater : rateJob[q] = x
                   THEN overlapped \cup {x} ELSE overlapped
  /\ UNCHANGED <<registered, execRows, stats, authorKarma, loopJob, signingVars>>

\* Mutant of RateCommit: the counters are updated, the row is not.
RateCommitLosesRow(r, s, valid, stars) ==
  /\ rateJob[r] # 0
  /\ Authenticate(s, MaybeFresh(s), valid)
  /\ stats' = [stats EXCEPT !.rating_sum = @ + stars, !.rating_count = @ + 1]
  /\ rateJob' = [rateJob EXCEPT ![r] = 0]
  /\ UNCHANGED <<registered, execRows, authorKarma, overlapped, loopJob>>

\* ... and the transaction. The row is not read again.
RateCommit(r, s, valid, stars) ==
  /\ rateJob[r] # 0
  /\ Authenticate(s, MaybeFresh(s), valid)
  /\ execRows' = [execRows EXCEPT ![rateJob[r]].rating = stars]
  /\ stats' = [stats EXCEPT !.rating_sum = @ + stars, !.rating_count = @ + 1]
  /\ rateJob' = [rateJob EXCEPT ![r] = 0]
  /\ UNCHANGED <<registered, authorKarma, overlapped, loopJob>>

MarketTick == SigningTick /\ UNCHANGED <<marketRows, loopJob, rateJob>>

\* A restart ends every request in flight.
MarketRestart ==
  /\ ~forgotten
  /\ SigningRestart
  /\ loopJob' = Idle
  /\ rateJob' = [r \in Rater |-> 0]
  /\ UNCHANGED marketRows

\* The steps while clients hold the signatures sigs and the threads raters
\* serve ratings. Without signatures nothing reads the clock.
MarketNext(sigs, raters) ==
  \/ \E op \in {"register", "execute"}, s \in sigs \cup {NoSig} : LoopArrive(op, s)
  \/ \E valid \in BOOLEAN : RegisterTrail(valid)
  \/ \E valid \in BOOLEAN, who \in Person, ok \in BOOLEAN :
       RecordTrailExecution(valid, who, ok)
  \/ McpRegisterTrail
  \/ \E who \in Person, ok \in BOOLEAN : McpExecuteTrail(who, ok)
  \/ \E r \in raters, x \in DOMAIN execRows : RateCheck(r, x)
  \/ \E r \in raters, s \in sigs \cup {NoSig}, valid \in BOOLEAN, stars \in Rating :
       RateCommit(r, s, valid, stars)
  \/ sigs # {} /\ MarketTick
  \/ MarketRestart

-----------------------------------------------------------------------------
(* What list_trails and get_trail publish; "null" where the divisor is 0.   *)

SuccessRate ==
  IF stats.executions = 0 THEN "null" ELSE <<stats.success_count, stats.executions>>

AvgRating ==
  IF stats.rating_count = 0 THEN "null" ELSE <<stats.rating_sum, stats.rating_count>>

Rated == {x \in DOMAIN execRows : execRows[x].rating # 0}
Stars ==
  LET rating == [x \in DOMAIN execRows |-> execRows[x].rating]
  IN  MapThenSumSet(LAMBDA x : rating[x], Rated)

Succeeded == {x \in DOMAIN execRows : execRows[x].ok}
Via(v) == {x \in Succeeded : execRows[x].via = v}

(***************************************************************************)
(* The reputation list_trails and get_trail publish, and the karma behind   *)
(* it, agree with trail_executions however the REST and MCP handlers        *)
(* interleave: executions and successes are counted once, the author is     *)
(* paid for each success reported through MCP or under a signature that     *)
(* was accepted, and avg_rating is the average over the rated rows, except  *)
(* that an execution two raters found unrated may count more than once.     *)
(***************************************************************************)
ReputationMatchesRows ==
  /\ execRows # <<>> => SuccessRate = <<Cardinality(Succeeded), Len(execRows)>>
  /\ authorKarma = TRAIL_AUTHOR_KARMA_REWARD * Cardinality(Via("mcp") \cup Via("signed"))
  /\ Cardinality(Via("signed")) <= MapThenSumSet(LAMBDA s : accepted[s], Sig)
  /\ overlapped = {} => AvgRating = IF Rated = {} THEN "null" ELSE <<Stars, Cardinality(Rated)>>
  /\ AvgRating # "null" => AvgRating[1] \in AvgRating[2]..(5 * AvgRating[2])

-----------------------------------------------------------------------------
(* The inductive invariant.                                                 *)

MarketTypeOK ==
  /\ registered \in BOOLEAN
  /\ execRows \in Seq([who : Person, ok : BOOLEAN, via : {"unsigned", "mcp", "signed"},
                        rating : {0} \cup Rating])
  /\ stats \in [executions : Nat, success_count : Nat, rating_sum : Nat, rating_count : Nat]
  /\ authorKarma \in Nat
  /\ loopJob \in {Idle}
        \cup [op : {"register", "execute"}, sig : Sig \cup {NoSig}, fresh : BOOLEAN]
  /\ rateJob \in [Rater -> Nat]

\* A rater holds a row that exists and, unless two found it unrated, is its alone
\* and still unrated.
RatersHold ==
  \A r \in Rater : rateJob[r] # 0 =>
    /\ rateJob[r] \in DOMAIN execRows
    /\ overlapped = {} => /\ execRows[rateJob[r]].rating = 0
                          /\ \A q \in Rater : rateJob[q] = rateJob[r] => q = r

\* The counters, as counters.
CountersMatchRows ==
  /\ stats.executions = Len(execRows) /\ stats.success_count = Cardinality(Succeeded)
  /\ authorKarma = TRAIL_AUTHOR_KARMA_REWARD * Cardinality(Via("mcp") \cup Via("signed"))
  /\ Cardinality(Via("signed")) <= MapThenSumSet(LAMBDA s : accepted[s], Sig)
  /\ overlapped = {} => stats.rating_sum = Stars /\ stats.rating_count = Cardinality(Rated)
  /\ stats.rating_sum \in stats.rating_count..(5 * stats.rating_count)

MarketInv ==
  /\ SigningInv
  /\ MarketTypeOK
  /\ RatersHold
  /\ CountersMatchRows
=============================================================================
