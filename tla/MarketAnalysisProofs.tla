------------------------ MODULE MarketAnalysisProofs ------------------------
(***************************************************************************)
(* Proofs, for any number of accounts, setups, requests and workers, of    *)
(* the safety properties of MarketAnalysis.                                *)
(***************************************************************************)
EXTENDS MarketAnalysis, FiniteSetTheorems, TLAPS

-----------------------------------------------------------------------------
(* The inductive invariant.                                                *)

(* A call that has not been answered has stored nothing.                   *)
Unstored ==
  \A r \in Requests :
    /\ caller[r].user \in Accounts
    /\ caller[r].at \in {"new", "insert", "again"} => request[r].status = "absent"

(* What a worker claimed was stored and taken off the queue, and it never  *)
(* goes back there.                                                        *)
Claims ==
  \A w \in Workers : \A r \in worker[w].claimed :
    request[r].status \in {"running", "completed", "failed"}

(* From its scan on, a worker's market data is newer than its claims; at   *)
(* the end of its review there is a review.                                *)
Scanned ==
  \A w \in Workers :
    /\ worker[w].at \in {"shortlist", "accounts", "weigh", "complete"} =>
         worker[w].claimed \subseteq worker[w].covers
    /\ worker[w].at = "complete" => worker[w].reviewed
    /\ worker[w].at \in {"accounts", "weigh"} => worker[w].symbol \in Symbols

(* The live requests of one user are one.                                  *)
Single ==
  \A r, s \in Requests :
    r \in Live /\ s \in Live /\ request[r].user = request[s].user => r = s

(* The workers that have found no offer of a setup and may make one.       *)
Weighing(k) ==
  {w \in Workers : worker[w].at = "weigh" /\ worker[w].account = k[1] /\ worker[w].symbol = k[2]}

(* There is room for the offers these may make.                            *)
Room ==
  \A k \in Accounts \X Symbols : offers[k] + Cardinality(Weighing(k)) <= Cardinality(Workers)

IndInv == TypeOK /\ Unstored /\ Claims /\ Scanned /\ CompletedIsFresh /\ Single /\ Room

-----------------------------------------------------------------------------
(* The offers.                                                             *)

LEMMA WeighingCount ==
  ASSUME NEW k
  PROVE  /\ IsFiniteSet(Weighing(k))
         /\ Cardinality(Weighing(k)) \in Nat
         /\ Cardinality(Weighing(k)) <= Cardinality(Workers)
         /\ Cardinality(Workers) \in Nat
<1>1. Weighing(k) \in SUBSET Workers
  BY DEF Weighing
<1> QED BY <1>1, MarketAssumption, FS_Subset, FS_CardinalityType

(* While no worker starts to weigh a setup, and none is offered, there     *)
(* stays room.                                                             *)
LEMMA RoomStays ==
  ASSUME TypeOK, Room, offers' \in [Accounts \X Symbols -> Nat],
         \A k \in Accounts \X Symbols : offers'[k] <= offers[k] /\ Weighing(k)' \subseteq Weighing(k)
  PROVE  Room'
<1> SUFFICES ASSUME NEW k \in Accounts \X Symbols
             PROVE  offers'[k] + Cardinality(Weighing(k)') <= Cardinality(Workers)
  BY DEF Room
<1>1. /\ Cardinality(Weighing(k)') \in Nat
      /\ Cardinality(Weighing(k)') <= Cardinality(Weighing(k))
  BY WeighingCount, FS_Subset, FS_CardinalityType
<1>2. offers[k] \in Nat /\ offers'[k] \in Nat
  BY DEF TypeOK
<1> QED BY <1>1, <1>2, WeighingCount DEF Room

(* A worker that goes anywhere but to weigh makes no offer.                 *)
LEMMA WorkerLeaves ==
  ASSUME TypeOK, Room, NEW w \in Workers, NEW to, to.at # "weigh",
         worker' = [worker EXCEPT ![w] = to], UNCHANGED offers
  PROVE  Room'
<1>1. \A k \in Accounts \X Symbols : Weighing(k)' \subseteq Weighing(k)
  BY DEF Weighing, TypeOK
<1>2. \A k \in Accounts \X Symbols : offers'[k] <= offers[k]
  BY DEF TypeOK
<1>3. offers' \in [Accounts \X Symbols -> Nat]
  BY DEF TypeOK
<1> QED BY <1>1, <1>2, <1>3, RoomStays

-----------------------------------------------------------------------------
(* Every step keeps the invariant.                                         *)

LEMMA InitInv == Init => IndInv
<1> SUFFICES ASSUME Init PROVE IndInv
  OBVIOUS
<1> USE MarketAssumption
<1>1. TypeOK
  BY DEF Init, TypeOK, Request, NoRequest, Caller, Worker, IdleWorker
<1>2. Unstored
  BY DEF Init, Unstored, NoRequest
<1>3. Claims /\ Scanned
  BY DEF Init, Claims, Scanned, IdleWorker
<1>4. CompletedIsFresh /\ Single
  BY DEF Init, CompletedIsFresh, Single, Live, NoRequest
<1>5. Room
  <2> SUFFICES ASSUME NEW k \in Accounts \X Symbols
               PROVE  offers[k] + Cardinality(Weighing(k)) <= Cardinality(Workers)
    BY DEF Room
  <2>1. offers[k] = 0
    BY DEF Init
  <2> QED BY <2>1, WeighingCount
<1> QED BY <1>1, <1>2, <1>3, <1>4, <1>5 DEF IndInv

(* The calls of users, and the passing of a lease.                         *)
LEMMA RequestInv ==
  ASSUME IndInv, NEW r \in Requests, Ask(r) \/ Insert(r) \/ AskAgain(r) \/ LeaseExpires(r)
  PROVE  IndInv'
<1> USE MarketAssumption DEF IndInv
<1>0. UNCHANGED <<worker, active, offers, crashes>>
  BY DEF Ask, Insert, AskAgain, LeaseExpires
<1>1. Room'
  BY <1>0 DEF Room, Weighing
<1>2. ASSUME NEW from \in {"new", "again"}, NEW found \in SUBSET Requests,
             NEW else \in {"insert", "raised"}, Answer(r, from, found, else), UNCHANGED request
      PROVE  IndInv'
  <2>1. caller' \in [Requests -> Caller]
    <3>1. found # {} => (CHOOSE x \in found : TRUE) \in Requests
      OBVIOUS
    <3>2. caller[r] \in Caller
      BY DEF TypeOK
    <3>3. caller'[r] \in Caller
      BY <1>2, <3>1, <3>2 DEF Answer, TypeOK, Caller
    <3> QED BY <1>2, <3>3 DEF Answer, TypeOK
  <2>2. \A s \in Requests : caller'[s].user = caller[s].user
    BY <1>2 DEF Answer, TypeOK, Caller
  <2>3. \A s \in Requests : caller'[s].at \in {"new", "insert", "again"} =>
                              caller[s].at \in {"new", "insert", "again"}
    BY <1>2 DEF Answer, TypeOK, Caller
  <2>4. TypeOK'
    BY <1>0, <1>2, <2>1 DEF TypeOK
  <2>5. Unstored'
    BY <1>2, <2>2, <2>3 DEF Unstored
  <2>6. Claims' /\ Scanned' /\ CompletedIsFresh' /\ Single'
    BY <1>0, <1>2 DEF Claims, Scanned, CompletedIsFresh, Single, Live
  <2> QED BY <1>1, <2>4, <2>5, <2>6
<1>3. CASE Ask(r)
  BY <1>2, <1>3 DEF Ask, LiveOf, Live
<1>4. CASE AskAgain(r)
  BY <1>2, <1>4 DEF AskAgain, LiveOf, Live
<1>5. CASE Insert(r)
  <2> DEFINE user == caller[r].user
  <2>1. user \in Accounts /\ request[r].status = "absent"
    BY <1>5 DEF Insert, Unstored
  <2>2. CASE Indexed(user)
    <3>1. caller' = [caller EXCEPT ![r].at = "again"] /\ UNCHANGED request
      BY <1>5, <2>2 DEF Insert
    <3>2. TypeOK'
      BY <1>0, <3>1 DEF TypeOK, Caller
    <3>3. Unstored'
      BY <2>1, <3>1 DEF Unstored, TypeOK, Caller
    <3> QED BY <1>0, <1>1, <3>1, <3>2, <3>3 DEF Claims, Scanned, CompletedIsFresh, Single, Live
  <2>3. CASE ~Indexed(user)
    <3>1. /\ request' = [request EXCEPT ![r] = Queued(user)]
          /\ caller' = [caller EXCEPT ![r].at = "answered", ![r].answer = r]
      BY <1>5, <2>3 DEF Insert
    <3>2. Queued(user) \in Request /\ Queued(user).status = "queued" /\ Queued(user).user = user
      BY <2>1 DEF Queued, NoRequest, Request
    <3>3. TypeOK'
      BY <1>0, <2>1, <3>1, <3>2 DEF TypeOK, Caller
    <3>4. Unstored'
      BY <2>1, <3>1 DEF Unstored, TypeOK, Caller
    <3>5. Claims' /\ Scanned'
      BY <1>0, <2>1, <3>1 DEF Claims, Scanned, TypeOK, Worker
    <3>6. CompletedIsFresh'
      BY <3>1, <3>2 DEF CompletedIsFresh, TypeOK
    <3>7. Single'
      BY <2>1, <2>3, <3>1, <3>2 DEF Single, Indexed, LiveOf, Live, TypeOK
    <3> QED BY <1>1, <3>3, <3>4, <3>5, <3>6, <3>7
  <2> QED BY <2>2, <2>3
<1>6. CASE LeaseExpires(r)
  <2>1. request' = [request EXCEPT ![r].stale = TRUE] /\ UNCHANGED caller
    BY <1>6 DEF LeaseExpires
  <2>2. request[r] \in Request
    BY DEF TypeOK
  <2>3. request' \in [Requests -> Request]
    <3>1. [request[r] EXCEPT !.stale = TRUE] \in Request
      BY <2>2 DEF Request
    <3> QED BY <2>1, <3>1 DEF TypeOK
  <2>4. \A s \in Requests : /\ request'[s].status = request[s].status
                            /\ request'[s].user = request[s].user
                            /\ request'[s].covers = request[s].covers
                            /\ request'[s].reviewed = request[s].reviewed
    <3>1. \A s \in Requests : s # r => request'[s] = request[s]
      BY <2>1 DEF TypeOK
    <3>2. request'[r] = [request[r] EXCEPT !.stale = TRUE]
      BY <2>1 DEF TypeOK
    <3>3. /\ request'[r].status = request[r].status
          /\ request'[r].user = request[r].user
          /\ request'[r].covers = request[r].covers
          /\ request'[r].reviewed = request[r].reviewed
      BY <2>2, <3>2 DEF Request
    <3> QED BY <3>1, <3>3
  <2>5. Unstored' /\ CompletedIsFresh' /\ Single'
    BY <2>1, <2>4 DEF Unstored, CompletedIsFresh, Single, Live
  <2>6. Claims' /\ Scanned'
    BY <1>0, <2>4 DEF Claims, Scanned, TypeOK, Worker
  <2>7. TypeOK'
    BY <1>0, <2>1, <2>3, <2>4 DEF TypeOK
  <2> QED BY <1>1, <2>5, <2>6, <2>7
<1> QED BY <1>3, <1>4, <1>5, <1>6

(* Steps that touch neither the requests nor the calls.                    *)
LEMMA WorkerMoves ==
  ASSUME IndInv, NEW w \in Workers, NEW to \in Worker,
         worker' = [worker EXCEPT ![w] = to], UNCHANGED <<request, caller>>,
         active' \subseteq Accounts, crashes' \in 0 .. MaxCrashes,
         offers' \in [Accounts \X Symbols -> Nat], Room',
         \A r \in to.claimed : request[r].status \in {"running", "completed", "failed"},
         to.at \in {"shortlist", "accounts", "weigh", "complete"} => to.claimed \subseteq to.covers,
         to.at = "complete" => to.reviewed,
         to.at \in {"accounts", "weigh"} => to.symbol \in Symbols,
         to.at = "weigh" => to.account \in Accounts
  PROVE  IndInv'
<1> USE DEF IndInv
<1>1. TypeOK'
  BY DEF TypeOK
<1>2. Unstored' /\ CompletedIsFresh' /\ Single'
  BY DEF Unstored, CompletedIsFresh, Single, Live
<1>3. Claims' /\ Scanned'
  BY DEF Claims, Scanned, TypeOK
<1> QED BY <1>1, <1>2, <1>3

LEMMA ClaimInv ==
  ASSUME IndInv, NEW w \in Workers, Claim(w)
  PROVE  IndInv'
<1> USE DEF IndInv
<1> DEFINE to == [IdleWorker EXCEPT !.at = "scan", !.claimed = Claimable]
<1>1. worker' = [worker EXCEPT ![w] = to] /\ UNCHANGED <<caller, active, offers, crashes>>
  BY DEF Claim, Goto
<1>2. to \in Worker /\ to.at = "scan" /\ to.claimed = Claimable
  BY DEF IdleWorker, Worker, Claimable
<1>3. \A r \in Requests :
        /\ request'[r] \in Request
        /\ request'[r].user = request[r].user
        /\ r \in Claimable => request[r].status \in {"queued", "running"} /\ request'[r].status = "running"
        /\ r \notin Claimable => request'[r] = request[r]
  <2> SUFFICES ASSUME NEW r \in Requests
               PROVE  /\ request'[r] \in Request
                      /\ request'[r].user = request[r].user
                      /\ r \in Claimable => /\ request[r].status \in {"queued", "running"}
                                            /\ request'[r].status = "running"
                      /\ r \notin Claimable => request'[r] = request[r]
    OBVIOUS
  <2>1. request[r] \in Request
    BY DEF TypeOK
  <2>2. CASE r \in Claimable
    <3>1. request'[r] = [request[r] EXCEPT !.status = "running", !.stale = FALSE]
      BY <2>2 DEF Claim
    <3> QED BY <2>1, <2>2, <3>1 DEF Request, Claimable
  <2>3. CASE r \notin Claimable
    BY <2>1, <2>3 DEF Claim
  <2> QED BY <2>2, <2>3
<1>4. request' \in [Requests -> Request]
  BY <1>3 DEF Claim
<1>5. TypeOK'
  BY <1>1, <1>2, <1>3, <1>4 DEF TypeOK
<1>6. Unstored'
  BY <1>1, <1>3 DEF Unstored
<1>7. Claims'
  <2> SUFFICES ASSUME NEW v \in Workers, NEW r \in worker'[v].claimed
               PROVE  request'[r].status \in {"running", "completed", "failed"}
    BY DEF Claims
  <2>1. CASE v = w
    BY <1>1, <1>2, <1>3, <2>1 DEF TypeOK, Claimable
  <2>2. CASE v # w
    <3>1. r \in worker[v].claimed /\ r \in Requests
      BY <1>1, <2>2 DEF TypeOK, Worker
    <3> QED BY <1>3, <3>1 DEF Claims
  <2> QED BY <2>1, <2>2
<1>8. Scanned'
  BY <1>1, <1>2 DEF Scanned, TypeOK
<1>9. CompletedIsFresh'
  BY <1>3 DEF CompletedIsFresh
<1>10. Single'
  BY <1>3 DEF Single, Live
<1>11. Room'
  BY <1>1, <1>2, WorkerLeaves
<1> QED BY <1>5, <1>6, <1>7, <1>8, <1>9, <1>10, <1>11

(* The end of a cycle: what the worker knows is written to the requests    *)
(* that are still running.                                                 *)
LEMMA FinishInv ==
  ASSUME IndInv, NEW w \in Workers, CompleteRequests(w) \/ FailRequests(w)
  PROVE  IndInv'
<1> USE DEF IndInv
<1>1. PICK new \in {"completed", "failed"} :
        /\ Finish(w, new)
        /\ new = "completed" => worker[w].at = "complete"
        /\ worker' = [worker EXCEPT ![w] = IdleWorker]
  BY DEF CompleteRequests, FailRequests, Goto
<1>2. UNCHANGED <<caller, active, offers, crashes>>
  BY <1>1 DEF Finish
<1>3. IdleWorker \in Worker /\ IdleWorker.at = "idle" /\ IdleWorker.claimed = {}
  BY DEF IdleWorker, Worker
<1>4. worker[w] \in Worker
  BY DEF TypeOK
<1>5. \A r \in Requests :
        /\ request'[r] \in Request
        /\ request'[r].user = request[r].user
        /\ r \in Running(w) => /\ request[r].status = "running" /\ request'[r].status = new
                               /\ request'[r].covers = worker[w].covers
                               /\ request'[r].reviewed = worker[w].reviewed
        /\ r \notin Running(w) => request'[r] = request[r]
  <2> SUFFICES ASSUME NEW r \in Requests
               PROVE  /\ request'[r] \in Request
                      /\ request'[r].user = request[r].user
                      /\ r \in Running(w) => /\ request[r].status = "running" /\ request'[r].status = new
                                             /\ request'[r].covers = worker[w].covers
                                             /\ request'[r].reviewed = worker[w].reviewed
                      /\ r \notin Running(w) => request'[r] = request[r]
    OBVIOUS
  <2>1. request[r] \in Request
    BY DEF TypeOK
  <2>2. CASE r \in Running(w)
    <3>1. request'[r] = [request[r] EXCEPT !.status = new, !.stale = FALSE,
                           !.covers = worker[w].covers, !.reviewed = worker[w].reviewed]
      BY <1>1, <2>2 DEF Finish
    <3> QED BY <1>4, <2>1, <2>2, <3>1 DEF Request, Worker, Running
  <2>3. CASE r \notin Running(w)
    BY <1>1, <2>1, <2>3 DEF Finish
  <2> QED BY <2>2, <2>3
<1>6. request' \in [Requests -> Request]
  BY <1>1, <1>5 DEF Finish
<1>7. TypeOK'
  BY <1>1, <1>2, <1>3, <1>5, <1>6 DEF TypeOK
<1>8. Unstored'
  BY <1>2, <1>5 DEF Unstored
<1>9. Claims'
  <2> SUFFICES ASSUME NEW v \in Workers, NEW r \in worker'[v].claimed
               PROVE  request'[r].status \in {"running", "completed", "failed"}
    BY DEF Claims
  <2>1. r \in worker[v].claimed /\ r \in Requests
    BY <1>1, <1>3 DEF TypeOK, Worker
  <2> QED BY <1>5, <2>1 DEF Claims
<1>10. Scanned'
  BY <1>1, <1>3 DEF Scanned, TypeOK
<1>11. CompletedIsFresh'
  BY <1>1, <1>5 DEF CompletedIsFresh, Scanned, Running
<1>12. Single'
  BY <1>5 DEF Single, Live
<1>13. Room'
  BY <1>1, <1>2, <1>3, WorkerLeaves
<1> QED BY <1>7, <1>8, <1>9, <1>10, <1>11, <1>12, <1>13

(* The rest of a cycle leaves the requests alone.                          *)
LEMMA ScanInv ==
  ASSUME IndInv, NEW w \in Workers, Scan(w) \/ NextCandidate(w) \/ SaveReview(w)
  PROVE  IndInv'
<1> USE DEF IndInv
<1>0. UNCHANGED <<request, caller, active, offers, crashes>> /\ worker[w] \in Worker
  BY DEF Scan, NextCandidate, SaveReview, TypeOK
<1>1. active' \subseteq Accounts /\ crashes' \in 0 .. MaxCrashes /\ offers' \in [Accounts \X Symbols -> Nat]
  BY <1>0 DEF TypeOK
<1>2. \A r \in worker[w].claimed : request[r].status \in {"running", "completed", "failed"}
  BY DEF Claims
<1>3. ASSUME NEW to \in Worker, worker' = [worker EXCEPT ![w] = to], to.at # "weigh",
             to.claimed \subseteq worker[w].claimed,
             to.at \in {"shortlist", "accounts", "weigh", "complete"} => to.claimed \subseteq to.covers,
             to.at = "complete" => to.reviewed,
             to.at = "accounts" => to.symbol \in Symbols
      PROVE  IndInv'
  <2>1. Room'
    BY <1>0, <1>3, WorkerLeaves
  <2> QED BY <1>0, <1>1, <1>2, <1>3, <2>1, WorkerMoves
<1>4. CASE Scan(w)
  <2> DEFINE stored == {r \in Requests : request[r].status # "absent"}
             scanned == [worker[w] EXCEPT !.covers = stored]
  <2>1. PICK to :
          /\ worker' = [worker EXCEPT ![w] = to]
          /\ to \in {IdleWorker, [scanned EXCEPT !.at = "shortlist", !.symbols = Symbols],
                     [scanned EXCEPT !.at = "complete", !.reviewed = TRUE]}
    BY <1>4 DEF Scan, Goto
  <2>2. worker[w].claimed \subseteq stored
    BY <1>0, <1>2 DEF Worker
  <2>3. scanned \in Worker /\ scanned.claimed = worker[w].claimed /\ scanned.covers = stored
    BY <1>0 DEF Worker
  <2> HIDE DEF scanned, stored
  <2>4. CASE to = IdleWorker
    BY <1>3, <2>1, <2>4 DEF IdleWorker, Worker
  <2>5. CASE to = [scanned EXCEPT !.at = "shortlist", !.symbols = Symbols]
    <3>1. to \in Worker /\ to.at = "shortlist" /\ to.claimed = scanned.claimed /\ to.covers = scanned.covers
      BY <2>3, <2>5 DEF Worker
    <3> QED BY <1>3, <2>1, <2>2, <2>3, <3>1
  <2>6. CASE to = [scanned EXCEPT !.at = "complete", !.reviewed = TRUE]
    <3>1. /\ to \in Worker /\ to.at = "complete" /\ to.reviewed
          /\ to.claimed = scanned.claimed /\ to.covers = scanned.covers
      BY <2>3, <2>6 DEF Worker
    <3> QED BY <1>3, <2>1, <2>2, <2>3, <3>1
  <2> QED BY <2>1, <2>4, <2>5, <2>6
<1>5. CASE NextCandidate(w)
  <2>1. worker[w].at = "shortlist"
    BY <1>5 DEF NextCandidate, Goto
  <2> PICK s \in worker[w].symbols :
        \/ worker' = [worker EXCEPT ![w] = [worker[w] EXCEPT !.at = "accounts", !.symbols = @ \ {s},
                                              !.symbol = s, !.accounts = active]]
        \/ worker' = [worker EXCEPT ![w] = [worker[w] EXCEPT !.symbols = @ \ {s}]]
    BY <1>5 DEF NextCandidate, Goto
  <2>2. PICK to :
          /\ worker' = [worker EXCEPT ![w] = to]
          /\ to \in {[worker[w] EXCEPT !.at = "accounts", !.symbols = @ \ {s}, !.symbol = s,
                                       !.accounts = active],
                     [worker[w] EXCEPT !.symbols = @ \ {s}]}
    OBVIOUS
  <2>3. s \in Symbols /\ active \subseteq Accounts
    BY <1>0 DEF Worker, TypeOK
  <2>4. /\ to \in Worker /\ to.at \in {"shortlist", "accounts"}
        /\ to.claimed = worker[w].claimed /\ to.covers = worker[w].covers
        /\ to.at = "accounts" => to.symbol = s
    BY <1>0, <2>1, <2>2, <2>3 DEF Worker
  <2> QED BY <1>3, <2>1, <2>2, <2>3, <2>4 DEF Scanned
<1>6. CASE SaveReview(w)
  <2> DEFINE to == [worker[w] EXCEPT !.at = "complete", !.reviewed = TRUE]
  <2>1. worker[w].at = "shortlist" /\ worker' = [worker EXCEPT ![w] = to]
    BY <1>6 DEF SaveReview, Goto
  <2>2. /\ to \in Worker /\ to.at = "complete" /\ to.reviewed
        /\ to.claimed = worker[w].claimed /\ to.covers = worker[w].covers
    BY <1>0 DEF Worker
  <2> HIDE DEF to
  <2> QED BY <1>3, <2>1, <2>2 DEF Scanned
<1> QED BY <1>4, <1>5, <1>6

(* A worker weighs a setup only where no offer of it stands.               *)
LEMMA LookInv ==
  ASSUME IndInv, NEW w \in Workers, Look(w)
  PROVE  IndInv'
<1> USE DEF IndInv
<1>1. /\ UNCHANGED <<request, caller, active, offers, crashes>> /\ worker[w] \in Worker
      /\ worker[w].at = "accounts" /\ worker[w].symbol \in Symbols
  BY DEF Look, Goto, TypeOK, Scanned
<1>2. PICK a \in worker[w].accounts, at \in {"accounts", "weigh"} :
        /\ at = "weigh" => ~HasActive(<<a, worker[w].symbol>>)
        /\ worker' = [worker EXCEPT ![w] = [worker[w] EXCEPT !.accounts = @ \ {a}, !.at = at,
                        !.account = IF at = "weigh" THEN a ELSE None]]
  <2>1. PICK a \in worker[w].accounts, permitted \in BOOLEAN :
          LET weighs == permitted /\ ~HasActive(<<a, worker[w].symbol>>)
          IN worker' = [worker EXCEPT ![w] = [worker[w] EXCEPT !.accounts = @ \ {a},
                          !.at = IF weighs THEN "weigh" ELSE @, !.account = IF weighs THEN a ELSE None]]
    BY DEF Look, Goto
  <2>2. CASE permitted /\ ~HasActive(<<a, worker[w].symbol>>)
    <3> WITNESS a \in worker[w].accounts, "weigh" \in {"accounts", "weigh"}
    <3> QED BY <1>1, <2>1, <2>2
  <2>3. CASE ~(permitted /\ ~HasActive(<<a, worker[w].symbol>>))
    <3> WITNESS a \in worker[w].accounts, "accounts" \in {"accounts", "weigh"}
    <3> QED BY <1>1, <2>1, <2>3
  <2> QED BY <2>2, <2>3
<1> DEFINE to == [worker[w] EXCEPT !.accounts = @ \ {a}, !.at = at,
                                   !.account = IF at = "weigh" THEN a ELSE None]
           k == <<a, worker[w].symbol>>
<1>3. /\ to \in Worker /\ to.at = at /\ to.symbol = worker[w].symbol /\ a \in Accounts
      /\ to.claimed = worker[w].claimed /\ to.covers = worker[w].covers
      /\ at = "weigh" => to.account = a
  BY <1>1, <1>2 DEF Worker
<1>4. worker' = [worker EXCEPT ![w] = to]
  BY <1>2
<1>5. Room'
  <2>1. CASE at = "accounts"
    BY <1>1, <1>3, <1>4, <2>1, WorkerLeaves
  <2>2. CASE at = "weigh"
    <3> SUFFICES ASSUME NEW l \in Accounts \X Symbols
                 PROVE  offers'[l] + Cardinality(Weighing(l)') <= Cardinality(Workers)
      BY DEF Room
    <3>1. Weighing(l)' \in SUBSET Workers
      BY DEF Weighing
    <3>2. /\ Cardinality(Weighing(l)') \in Nat
          /\ Cardinality(Weighing(l)') <= Cardinality(Workers)
      BY <3>1, MarketAssumption, FS_Subset, FS_CardinalityType
    <3>3. CASE l = k
      <4>1. offers'[l] = 0
        BY <1>1, <1>2, <2>2, <3>3 DEF HasActive, TypeOK
      <4> QED BY <3>2, <4>1
    <3>4. CASE l # k
      <4>1. l[1] # a \/ l[2] # worker[w].symbol
        BY <3>4
      <4>2. Weighing(l)' \subseteq Weighing(l)
        BY <1>3, <1>4, <2>2, <4>1 DEF Weighing, TypeOK
      <4>3. Cardinality(Weighing(l)') <= Cardinality(Weighing(l))
        BY <4>2, WeighingCount, FS_Subset
      <4>4. offers'[l] = offers[l] /\ offers[l] \in Nat
        BY <1>1 DEF TypeOK
      <4> QED BY <3>2, <4>3, <4>4, WeighingCount DEF Room
    <3> QED BY <3>3, <3>4
  <2> QED BY <2>1, <2>2
<1>6. \A r \in to.claimed : request[r].status \in {"running", "completed", "failed"}
  BY <1>3 DEF Claims
<1>7. to.claimed \subseteq to.covers
  BY <1>1, <1>3 DEF Scanned
<1> HIDE DEF to
<1> QED
  <2>1. active' \subseteq Accounts /\ crashes' \in 0 .. MaxCrashes /\ offers' \in [Accounts \X Symbols -> Nat]
    BY <1>1 DEF TypeOK
  <2> QED BY <1>1, <1>3, <1>4, <1>5, <1>6, <1>7, <2>1, WorkerMoves

(* An offer takes the room its worker had.                                 *)
LEMMA CreateInv ==
  ASSUME IndInv, NEW w \in Workers, Create(w)
  PROVE  IndInv'
<1> USE DEF IndInv
<1> DEFINE k == <<worker[w].account, worker[w].symbol>>
           to == [worker[w] EXCEPT !.at = "accounts", !.account = None]
<1>1. /\ worker[w].at = "weigh" /\ worker[w] \in Worker
      /\ worker' = [worker EXCEPT ![w] = to]
      /\ offers' = [offers EXCEPT ![k] = @ + 1]
      /\ UNCHANGED <<request, caller, active, crashes>>
  BY DEF Create, Goto, TypeOK
<1>2. k \in Accounts \X Symbols
  BY <1>1 DEF TypeOK
<1>3. /\ to \in Worker /\ to.at = "accounts" /\ to.symbol = worker[w].symbol
      /\ to.claimed = worker[w].claimed /\ to.covers = worker[w].covers
  BY <1>1 DEF Worker
<1>4. offers' \in [Accounts \X Symbols -> Nat]
  BY <1>1, <1>2 DEF TypeOK
<1>5. Room'
  <2> SUFFICES ASSUME NEW l \in Accounts \X Symbols
               PROVE  offers'[l] + Cardinality(Weighing(l)') <= Cardinality(Workers)
    BY DEF Room
  <2>1. offers[l] \in Nat
    BY DEF TypeOK
  <2>2. Weighing(l)' \subseteq Weighing(l) \ {w}
    BY <1>1, <1>3 DEF Weighing, TypeOK
  <2>3. IsFiniteSet(Weighing(l) \ {w})
    BY WeighingCount, FS_RemoveElement
  <2>4. /\ Cardinality(Weighing(l)') \in Nat
        /\ Cardinality(Weighing(l)') <= Cardinality(Weighing(l) \ {w})
    BY <2>2, <2>3, FS_Subset, FS_CardinalityType
  <2>5. CASE l = k
    <3>1. w \in Weighing(l)
      BY <1>1, <2>5 DEF Weighing
    <3>2. Cardinality(Weighing(l) \ {w}) = Cardinality(Weighing(l)) - 1
      BY <3>1, WeighingCount, FS_RemoveElement
    <3>3. offers'[l] = offers[l] + 1
      BY <1>1, <1>2, <2>5 DEF TypeOK
    <3> QED BY <2>1, <2>4, <3>2, <3>3, WeighingCount DEF Room
  <2>6. CASE l # k
    <3>1. offers'[l] = offers[l]
      BY <1>1, <2>6 DEF TypeOK
    <3>2. Cardinality(Weighing(l) \ {w}) <= Cardinality(Weighing(l))
      BY WeighingCount, FS_Subset
    <3>3. Cardinality(Weighing(l) \ {w}) \in Nat
      BY <2>3, FS_CardinalityType
    <3> QED BY <2>1, <2>4, <3>1, <3>2, <3>3, WeighingCount DEF Room
  <2> QED BY <2>5, <2>6
<1>6. \A r \in to.claimed : request[r].status \in {"running", "completed", "failed"}
  BY <1>3 DEF Claims
<1>7. to.claimed \subseteq to.covers /\ to.symbol \in Symbols
  BY <1>1, <1>3 DEF Scanned
<1> HIDE DEF to
<1> QED
  <2>1. active' \subseteq Accounts /\ crashes' \in 0 .. MaxCrashes
    BY <1>1 DEF TypeOK
  <2> QED BY <1>1, <1>3, <1>4, <1>5, <1>6, <1>7, <2>1, WorkerMoves

(* A worker that moves on, raises or stops; accounts and offers that come  *)
(* and go.                                                                 *)
LEMMA OtherInv ==
  ASSUME IndInv,
         \/ \E w \in Workers : LastAccount(w) \/ Refuse(w) \/ Raise(w) \/ Crash(w)
         \/ \E a \in Accounts : SwitchAccount(a)
         \/ \E k \in Accounts \X Symbols : EndOffer(k)
  PROVE  IndInv'
<1> USE DEF IndInv
<1>1. ASSUME NEW w \in Workers, NEW to \in Worker, worker' = [worker EXCEPT ![w] = to],
             UNCHANGED <<request, caller, active, offers>>, crashes' \in 0 .. MaxCrashes,
             to.at \notin {"weigh", "complete"}, to.claimed \subseteq worker[w].claimed,
             to.at \in {"shortlist", "accounts"} =>
               /\ to.claimed \subseteq to.covers
               /\ to.at = "accounts" => to.symbol \in Symbols
      PROVE  IndInv'
  <2>1. Room'
    BY <1>1, WorkerLeaves
  <2>2. \A r \in to.claimed : request[r].status \in {"running", "completed", "failed"}
    BY <1>1 DEF Claims
  <2>3. active' \subseteq Accounts /\ offers' \in [Accounts \X Symbols -> Nat]
    BY <1>1 DEF TypeOK
  <2> QED BY <1>1, <2>1, <2>2, <2>3, WorkerMoves
<1>2. ASSUME NEW w \in Workers, LastAccount(w) \/ Refuse(w) PROVE IndInv'
  <2>1. UNCHANGED <<request, caller, active, offers, crashes>> /\ crashes' \in 0 .. MaxCrashes
    BY <1>2 DEF LastAccount, Refuse, TypeOK
  <2>2. worker[w] \in Worker
    BY DEF TypeOK
  <2>3. CASE LastAccount(w)
    <3> DEFINE to == [worker[w] EXCEPT !.at = "shortlist", !.symbol = None]
    <3>1. worker[w].at = "accounts" /\ worker' = [worker EXCEPT ![w] = to]
      BY <2>3 DEF LastAccount, Goto
    <3>2. /\ to \in Worker /\ to.at = "shortlist"
          /\ to.claimed = worker[w].claimed /\ to.covers = worker[w].covers
      BY <2>2 DEF Worker
    <3> HIDE DEF to
    <3> QED BY <1>1, <2>1, <3>1, <3>2 DEF Scanned
  <2>4. CASE Refuse(w)
    <3> DEFINE to == [worker[w] EXCEPT !.at = "accounts", !.account = None]
    <3>1. worker[w].at = "weigh" /\ worker' = [worker EXCEPT ![w] = to]
      BY <2>4 DEF Refuse, Goto
    <3>2. /\ to \in Worker /\ to.at = "accounts" /\ to.symbol = worker[w].symbol
          /\ to.claimed = worker[w].claimed /\ to.covers = worker[w].covers
      BY <2>2 DEF Worker
    <3> HIDE DEF to
    <3> QED BY <1>1, <2>1, <3>1, <3>2 DEF Scanned
  <2> QED BY <1>2, <2>3, <2>4
<1>3. ASSUME NEW w \in Workers, Raise(w) \/ Crash(w) PROVE IndInv'
  <2> DEFINE failing == [IdleWorker EXCEPT !.at = "failing", !.claimed = worker[w].claimed]
  <2>1. UNCHANGED <<request, caller, active, offers>>
    BY <1>3 DEF Raise, Crash
  <2>2. crashes' \in 0 .. MaxCrashes
    <3>1. crashes \in 0 .. MaxCrashes
      BY DEF TypeOK
    <3>2. CASE Raise(w)
      BY <3>1, <3>2 DEF Raise
    <3>3. CASE Crash(w)
      <4>1. crashes < MaxCrashes /\ crashes' = crashes + 1
        BY <3>3 DEF Crash
      <4> QED BY <3>1, <4>1, MarketAssumption
    <3> QED BY <1>3, <3>2, <3>3
  <2>3. IdleWorker \in Worker /\ IdleWorker.at = "idle" /\ IdleWorker.claimed = {}
    BY DEF IdleWorker, Worker
  <2>4. failing \in Worker /\ failing.at = "failing" /\ failing.claimed = worker[w].claimed
    <3>1. worker[w].claimed \in SUBSET Requests
      BY DEF TypeOK, Worker
    <3> QED BY <3>1 DEF IdleWorker, Worker
  <2>5. worker' = [worker EXCEPT ![w] = IdleWorker] \/ worker' = [worker EXCEPT ![w] = failing]
    BY <1>3 DEF Raise, Crash, Goto
  <2> HIDE DEF failing
  <2> QED BY <1>1, <2>1, <2>2, <2>3, <2>4, <2>5
<1>4. ASSUME NEW a \in Accounts, SwitchAccount(a) PROVE IndInv'
  BY <1>4 DEF SwitchAccount, TypeOK, Unstored, Claims, Scanned, CompletedIsFresh, Single, Live,
              Room, Weighing
<1>5. ASSUME NEW k \in Accounts \X Symbols, EndOffer(k) PROVE IndInv'
  <2>1. /\ offers[k] > 0 /\ offers' = [offers EXCEPT ![k] = @ - 1]
        /\ UNCHANGED <<request, caller, worker, active, crashes>>
    BY <1>5 DEF EndOffer
  <2>2. offers' \in [Accounts \X Symbols -> Nat]
    BY <2>1 DEF TypeOK
  <2>3. \A l \in Accounts \X Symbols : offers'[l] <= offers[l]
    BY <2>1 DEF TypeOK
  <2>4. Room'
    BY <2>1, <2>2, <2>3, RoomStays DEF Weighing
  <2>5. TypeOK'
    BY <2>1, <2>2 DEF TypeOK
  <2> QED BY <2>1, <2>4, <2>5 DEF Unstored, Claims, Scanned, CompletedIsFresh, Single, Live
<1> QED BY <1>2, <1>3, <1>4, <1>5

LEMMA NextInv == IndInv /\ [Next]_vars => IndInv'
<1> SUFFICES ASSUME IndInv, [Next]_vars PROVE IndInv'
  OBVIOUS
<1>1. CASE UNCHANGED vars
  BY <1>1 DEF vars, IndInv, TypeOK, Unstored, Claims, Scanned, CompletedIsFresh, Single, Live,
              Room, Weighing
<1>2. ASSUME NEW w \in Workers, Work(w) PROVE IndInv'
  BY <1>2, ClaimInv, FinishInv, ScanInv, LookInv, CreateInv, OtherInv DEF Work
<1>3. CASE Next
  BY <1>2, <1>3, RequestInv, OtherInv DEF Next
<1> QED BY <1>1, <1>3

-----------------------------------------------------------------------------
(* The theorems.                                                           *)

(* The invariant holds in every reachable state.                           *)
THEOREM Invariance == Spec => []IndInv
  BY InitInv, NextInv, PTL DEF Spec

(* Requests, calls, workers and offers keep their types.                   *)
THEOREM TypeCorrect == Spec => []TypeOK
<1>1. IndInv => TypeOK
  BY DEF IndInv
<1> QED BY <1>1, Invariance, PTL

(* However many calls and workers there are, a user never has two analysis *)
(* requests that are queued or running.                                    *)
THEOREM OneRequestLives == Spec => []OneLiveRequest
<1>1. IndInv => OneLiveRequest
  <2> SUFFICES ASSUME IndInv, NEW a \in Accounts PROVE Cardinality(LiveOf(a)) <= 1
    BY DEF OneLiveRequest
  <2>1. CASE LiveOf(a) = {}
    BY <2>1, FS_EmptySet
  <2>2. CASE LiveOf(a) # {}
    <3>1. PICK r \in LiveOf(a) : TRUE
      BY <2>2
    <3>2. \A s \in LiveOf(a) : s = r
      <4>1. \A s \in LiveOf(a) : s \in Requests /\ s \in Live /\ request[s].user = a
        BY DEF LiveOf, Live
      <4>2. Single
        BY DEF IndInv
      <4> QED BY <3>1, <4>1, <4>2 DEF Single
    <3>3. LiveOf(a) = {r}
      BY <3>1, <3>2
    <3>4. Cardinality({r}) = 1
      BY FS_Singleton
    <3> QED BY <3>3, <3>4
  <2> QED BY <2>1, <2>2
<1> QED BY <1>1, Invariance, PTL

(* A completed request was answered by a review of market data fetched     *)
(* after it was made, whoever claimed it before.                           *)
THEOREM CompletedFresh == Spec => []CompletedIsFresh
<1>1. IndInv => CompletedIsFresh
  BY DEF IndInv
<1> QED BY <1>1, Invariance, PTL

(* A setup of an account never has more offers than there are workers, so  *)
(* that the deployed single worker never offers it twice.                  *)
THEOREM OffersBounded == Spec => []OffersPerSetup
<1>1. IndInv => OffersPerSetup
  <2> SUFFICES ASSUME IndInv, NEW k \in Accounts \X Symbols
               PROVE  offers[k] <= Cardinality(Workers)
    BY DEF OffersPerSetup
  <2>1. offers[k] \in Nat
    BY DEF IndInv, TypeOK
  <2> QED BY <2>1, WeighingCount DEF IndInv, Room
<1> QED BY <1>1, Invariance, PTL

(* No call and no worker, late or not, changes a request that has ended.   *)
THEOREM EndedForGood == Spec => EndedStaysEnded
<1> DEFINE Kept == \A r \in Requests : request[r].status \in {"completed", "failed"} => request'[r] = request[r]
<1>1. ASSUME IndInv, [Next]_vars PROVE [Kept]_vars
  <2> USE <1>1 DEF IndInv
  <2>1. ASSUME NEW r \in Requests, Insert(r) PROVE Kept
    <3>1. request[r].status = "absent"
      BY <2>1 DEF Insert, Unstored
    <3> QED BY <2>1, <3>1 DEF Insert, TypeOK
  <2>2. ASSUME NEW r \in Requests, LeaseExpires(r) PROVE Kept
    BY <2>2 DEF LeaseExpires, TypeOK
  <2>3. ASSUME NEW w \in Workers, Claim(w) PROVE Kept
    BY <2>3 DEF Claim, Claimable
  <2>4. ASSUME NEW w \in Workers, CompleteRequests(w) \/ FailRequests(w) PROVE Kept
    BY <2>4 DEF CompleteRequests, FailRequests, Finish, Running
  <2>5. CASE UNCHANGED request
    BY <2>5
  <2> QED BY <2>1, <2>2, <2>3, <2>4, <2>5
          DEF Next, Work, Ask, AskAgain, Scan, NextCandidate, SaveReview, Look, LastAccount, Refuse,
              Create, Raise, Crash, SwitchAccount, EndOffer, vars
<1> QED BY <1>1, Invariance, PTL DEF Spec, EndedStaysEnded

=============================================================================
