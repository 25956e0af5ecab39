--------------------------- MODULE MarketAnalysis ---------------------------
(***************************************************************************)
(* The market worker's loop: it claims the analyses users asked for, scans *)
(* the market, reviews the shortlist when a review is due, and weighs each *)
(* setup that passes for every active account, which may end in an offer.  *)
(*                                                                         *)
(* Two workers may run at once (the container and an operator's --once),   *)
(* and one that crashed or hangs leaves its claims to the next after a     *)
(* lease. The API stores requests meanwhile, accounts come and go, and     *)
(* offers end. What an account's data, a strategy's evidence and the       *)
(* models say is a choice at the step that asks for it.                    *)
(***************************************************************************)
EXTENDS Naturals, FiniteSets

CONSTANTS
  Accounts,    \* users, each with one active account at most
  Symbols,     \* the setups of the shortlist: strategy and symbol
  Requests,    \* ids of request_analysis calls
  Workers,     \* market workers
  None,        \* no value
  MaxCrashes   \* bound: worker crashes

ASSUME MarketAssumption ==
  /\ None \notin Accounts \cup Symbols \cup Requests
  /\ IsFiniteSet(Workers)
  /\ MaxCrashes \in Nat

VARIABLES
  request,  \* market_analysis_requests
  caller,   \* the request_analysis call that made each id
  worker,   \* what each worker is doing
  active,   \* accounts list_active_accounts returns
  offers,   \* how many proposals has_active would find, by account and symbol
  crashes   \* counter of the bound

vars == <<request, caller, worker, active, offers, crashes>>

-----------------------------------------------------------------------------
(* Types.                                                                  *)

(* covers: the requests that were there when the scan a completed request  *)
(* names was fetched. stale: claimed longer ago than the lease.            *)
Request == [status : {"absent", "queued", "running", "completed", "failed"},
            user : Accounts \cup {None}, stale : BOOLEAN,
            covers : SUBSET Requests, reviewed : BOOLEAN]
NoRequest == [status |-> "absent", user |-> None, stale |-> FALSE, covers |-> {}, reviewed |-> FALSE]

Caller == [at : {"new", "insert", "again", "answered", "raised"},
           user : Accounts \cup {None}, answer : Requests \cup {None}]

Worker == [at : {"idle", "scan", "shortlist", "accounts", "weigh", "complete", "failing"},
           claimed : SUBSET Requests, covers : SUBSET Requests, reviewed : BOOLEAN,
           symbols : SUBSET Symbols, symbol : Symbols \cup {None},
           accounts : SUBSET Accounts, account : Accounts \cup {None}]
IdleWorker == [at |-> "idle", claimed |-> {}, covers |-> {}, reviewed |-> FALSE,
               symbols |-> {}, symbol |-> None, accounts |-> {}, account |-> None]

TypeOK ==
  /\ request \in [Requests -> Request]
  /\ \A r \in Requests : request[r].status = "absent" <=> request[r].user = None
  /\ caller \in [Requests -> Caller]
  /\ worker \in [Workers -> Worker]
  /\ active \subseteq Accounts
  /\ offers \in [Accounts \X Symbols -> Nat]
  /\ crashes \in 0 .. MaxCrashes
  /\ \A w \in Workers : worker[w].at = "weigh" =>
       worker[w].symbol \in Symbols /\ worker[w].account \in Accounts

Init ==
  /\ request = [r \in Requests |-> NoRequest]
  /\ caller \in [Requests -> [at : {"new"}, user : Accounts, answer : {None}]]
  /\ worker = [w \in Workers |-> IdleWorker]
  /\ active = Accounts
  /\ offers = [k \in Accounts \X Symbols |-> 0]
  /\ crashes = 0

-----------------------------------------------------------------------------
(* MarketStore.request_analysis.                                           *)

Live == {r \in Requests : request[r].status \in {"queued", "running"}}
LiveOf(user) == {r \in Live : request[r].user = user}

Answer(r, from, found, else) ==
  /\ caller[r].at = from
  /\ caller' = [caller EXCEPT ![r] = IF found # {} THEN [@ EXCEPT !.at = "answered", !.answer = CHOOSE x \in found : TRUE]
                                     ELSE [@ EXCEPT !.at = else]]

Ask(r) ==
  /\ Answer(r, "new", LiveOf(caller[r].user), "insert")
  /\ UNCHANGED <<request, worker, active, offers, crashes>>

(* uq_market_analysis_requests_active_user_environment.                    *)
Indexed(user) == LiveOf(user) # {}

Queued(user) == [NoRequest EXCEPT !.status = "queued", !.user = user]

Insert(r) ==
  LET user == caller[r].user
  IN /\ caller[r].at = "insert"
     /\ IF Indexed(user)
        THEN /\ caller' = [caller EXCEPT ![r].at = "again"]
             /\ UNCHANGED request
        ELSE /\ request' = [request EXCEPT ![r] = Queued(user)]
             /\ caller' = [caller EXCEPT ![r].at = "answered", ![r].answer = r]
     /\ UNCHANGED <<worker, active, offers, crashes>>

(* After the IntegrityError: the other request, unless it has ended.       *)
AskAgain(r) ==
  /\ Answer(r, "again", LiveOf(caller[r].user), "raised")
  /\ UNCHANGED <<request, worker, active, offers, crashes>>

-----------------------------------------------------------------------------
(* run_scan_loop.                                                          *)

Goto(w, from, to) ==
  /\ worker[w].at = from
  /\ worker' = [worker EXCEPT ![w] = to]

(* Mutant of Claimable: what a worker claimed stays claimed.               *)
ClaimableQueued == {r \in Requests : request[r].status = "queued"}

(* Queued, or running with a started_at older than the lease.              *)
Claimable ==
  {r \in Requests : \/ request[r].status = "queued"
                    \/ request[r].status = "running" /\ request[r].stale}

(* The limit of 100 is not reached.                                        *)
Claim(w) ==
  /\ Goto(w, "idle", [IdleWorker EXCEPT !.at = "scan", !.claimed = Claimable])
  /\ request' = [r \in Requests |-> IF r \in Claimable
                   THEN [request[r] EXCEPT !.status = "running", !.stale = FALSE] ELSE request[r]]
  /\ UNCHANGED <<caller, active, offers, crashes>>

LeaseExpires(r) ==
  /\ request[r].status = "running" /\ ~request[r].stale
  /\ request' = [request EXCEPT ![r].stale = TRUE]
  /\ UNCHANGED <<caller, worker, active, offers, crashes>>

(* A review is due by the clock or a session sweep, and always for a       *)
(* claimed request.                                                        *)
ReviewDue(w) == IF worker[w].claimed # {} THEN {TRUE} ELSE BOOLEAN

(* run_scan: tickers fetched now are ranked. A review that is not due ends *)
(* the cycle, and without models there is one that weighs nothing.         *)
Scan(w) ==
  /\ \E due \in ReviewDue(w), models \in BOOLEAN :
       LET scanned == [worker[w] EXCEPT !.covers = {r \in Requests : request[r].status # "absent"}]
       IN Goto(w, "scan", IF ~due THEN IdleWorker
                          ELSE IF models THEN [scanned EXCEPT !.at = "shortlist", !.symbols = Symbols]
                          ELSE [scanned EXCEPT !.at = "complete", !.reviewed = TRUE])
  /\ UNCHANGED <<request, caller, active, offers, crashes>>

(* InvestmentPipeline.analyze_scan: the next candidate. Without data,      *)
(* strategy, evidence or signal, or when the models decline, it is only    *)
(* reviewed; otherwise it is weighed for every account active now.         *)
NextCandidate(w) ==
  /\ \E s \in worker[w].symbols, passes \in BOOLEAN :
       Goto(w, "shortlist", IF passes
              THEN [worker[w] EXCEPT !.at = "accounts", !.symbols = @ \ {s}, !.symbol = s, !.accounts = active]
              ELSE [worker[w] EXCEPT !.symbols = @ \ {s}])
  /\ UNCHANGED <<request, caller, active, offers, crashes>>

SaveReview(w) ==
  /\ worker[w].symbols = {}
  /\ Goto(w, "shortlist", [worker[w] EXCEPT !.at = "complete", !.reviewed = TRUE])
  /\ UNCHANGED <<request, caller, active, offers, crashes>>

-----------------------------------------------------------------------------
(* InvestmentPipeline._personalize.                                        *)

(* Mutant of HasActive: a setup may be offered twice.                      *)
HasActiveTwice(k) == offers[k] > 1

(* ProposalStore.has_active: a proposal on offer and unexpired, or         *)
(* submitted.                                                              *)
HasActive(k) == offers[k] > 0

(* The next account, for its permission and its active proposals.          *)
Look(w) ==
  /\ \E a \in worker[w].accounts, permitted \in BOOLEAN :
       Goto(w, "accounts", [worker[w] EXCEPT !.accounts = @ \ {a},
              !.at = IF permitted /\ ~HasActive(<<a, worker[w].symbol>>) THEN "weigh" ELSE @,
              !.account = IF permitted /\ ~HasActive(<<a, worker[w].symbol>>) THEN a ELSE None])
  /\ UNCHANGED <<request, caller, active, offers, crashes>>

LastAccount(w) ==
  /\ worker[w].accounts = {}
  /\ Goto(w, "accounts", [worker[w] EXCEPT !.at = "shortlist", !.symbol = None])
  /\ UNCHANGED <<request, caller, active, offers, crashes>>

(* Synchronisation, the freshness of balances and positions, the mandate,  *)
(* preferences, the advisor, the sizing and the gates: each may refuse.    *)
Refuse(w) ==
  /\ Goto(w, "weigh", [worker[w] EXCEPT !.at = "accounts", !.account = None])
  /\ UNCHANGED <<request, caller, active, offers, crashes>>

(* ProposalService.create, for an account that is still the active one;    *)
(* what else it requires may raise too (see Raise).                        *)
Create(w) ==
  LET k == <<worker[w].account, worker[w].symbol>>
  IN /\ worker[w].account \in active
     /\ Goto(w, "weigh", [worker[w] EXCEPT !.at = "accounts", !.account = None])
     /\ offers' = [offers EXCEPT ![k] = @ + 1]
     /\ UNCHANGED <<request, caller, active, crashes>>

-----------------------------------------------------------------------------
(* The end of a cycle.                                                     *)

(* An exception, of the market data, a model or ProposalService.create,    *)
(* ends the cycle for every candidate and account left.                    *)
Raise(w) ==
  /\ worker[w].at \in {"scan", "shortlist", "accounts", "weigh", "complete"}
  /\ Goto(w, worker[w].at, IF worker[w].claimed = {} THEN IdleWorker
                           ELSE [IdleWorker EXCEPT !.at = "failing", !.claimed = worker[w].claimed])
  /\ UNCHANGED <<request, caller, active, offers, crashes>>

(* Mutant of Running: every running request, not only the claimed ones.    *)
RunningAny(w) == {r \in Requests : request[r].status = "running" /\ w \in Workers}

(* _finish_analysis_requests: those of its claims that are still running,  *)
(* by whichever worker.                                                    *)
Running(w) == {r \in worker[w].claimed : request[r].status = "running"}

Finish(w, new) ==
  /\ request' = [r \in Requests |-> IF r \in Running(w)
       THEN [request[r] EXCEPT !.status = new, !.stale = FALSE,
                               !.covers = worker[w].covers, !.reviewed = worker[w].reviewed]
       ELSE request[r]]
  /\ UNCHANGED <<caller, active, offers, crashes>>

CompleteRequests(w) == Goto(w, "complete", IdleWorker) /\ Finish(w, "completed")

FailRequests(w) == Goto(w, "failing", IdleWorker) /\ Finish(w, "failed")

(* A crash, or fail_analysis_requests raising out of the loop: the process *)
(* ends and is started again.                                              *)
Crash(w) ==
  /\ crashes < MaxCrashes /\ worker[w].at # "idle"
  /\ crashes' = crashes + 1
  /\ worker' = [worker EXCEPT ![w] = IdleWorker]
  /\ UNCHANGED <<request, caller, active, offers>>

-----------------------------------------------------------------------------
(* Accounts and offers, as the other components change them.               *)

SwitchAccount(a) ==
  /\ active' = IF a \in active THEN active \ {a} ELSE active \cup {a}
  /\ UNCHANGED <<request, caller, worker, offers, crashes>>

(* Rejected, expired, invalidated or archived.                             *)
EndOffer(k) ==
  /\ offers[k] > 0
  /\ offers' = [offers EXCEPT ![k] = @ - 1]
  /\ UNCHANGED <<request, caller, worker, active, crashes>>

-----------------------------------------------------------------------------

Work(w) ==
  \/ Claim(w) \/ Scan(w) \/ NextCandidate(w) \/ SaveReview(w)
  \/ Look(w) \/ LastAccount(w) \/ Refuse(w) \/ Create(w)
  \/ Raise(w) \/ CompleteRequests(w) \/ FailRequests(w)

Next ==
  \/ \E r \in Requests : Ask(r) \/ Insert(r) \/ AskAgain(r) \/ LeaseExpires(r)
  \/ \E w \in Workers : Work(w) \/ Crash(w)
  \/ \E a \in Accounts : SwitchAccount(a)
  \/ \E k \in Accounts \X Symbols : EndOffer(k)

Spec == Init /\ [][Next]_vars

(* Each worker goes on, and time passes.                                   *)
FairSpec ==
  /\ Spec
  /\ \A w \in Workers : WF_vars(Work(w))
  /\ \A r \in Requests : WF_vars(LeaseExpires(r))

-----------------------------------------------------------------------------
(* Properties.                                                             *)

(* However calls and workers interleave, a user has one request at most    *)
(* that is queued or running, so one press is one analysis.                *)
OneLiveRequest == \A a \in Accounts : Cardinality(LiveOf(a)) <= 1

(* A completed request was answered by a review of market data fetched     *)
(* after it was made, even when a worker took it over from another.        *)
CompletedIsFresh ==
  \A r \in Requests : request[r].status = "completed" => request[r].reviewed /\ r \in request[r].covers

(* No worker reopens or rewrites a request that has ended, though its      *)
(* claim may have passed to another worker long ago.                       *)
EndedStaysEnded ==
  [][\A r \in Requests : request[r].status \in {"completed", "failed"} => request'[r] = request[r]]_vars

(* The check for an active proposal and the creation are separated by the  *)
(* models' work: at most one offer per worker stands for a setup of one    *)
(* account, one in all when a single worker runs.                          *)
OffersPerSetup ==
  \A k \in Accounts \X Symbols :
    offers[k] <= Cardinality(Workers)

(* Every request ends, whatever crashes, hangs or fails on the way.        *)
RequestsEnd == \A r \in Requests : r \in Live ~> r \notin Live

=============================================================================
