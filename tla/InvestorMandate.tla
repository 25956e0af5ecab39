--------------------------- MODULE InvestorMandate ---------------------------
(* The limits an investor's answers put on new risk, and what stands between *)
(* them and an order: the mandate derived from the profile, the drawdown     *)
(* gate over the stored equity of the active account, and the checks of      *)
(* ProposalService.create and of ExecutionService.submit. Each check is a    *)
(* read of its own, while the investor edits the profile, accounts are       *)
(* switched, synchronised or revoked, and time passes. What a submission     *)
(* does at the broker is OrderExecution's subject, connecting and verifying  *)
(* an account BrokerConnections'.                                            *)
EXTENDS Integers

CONSTANTS
  Accounts,   \* broker connections of the investor
  Profiles,   \* profiles the investor may save: answers and disclosures
  Terms,      \* terms an offer may have: leverage, category, loss
  Equities,   \* equities an account may have, in whole units
  MaxAge,     \* ticks a stored snapshot stays usable (five minutes)
  None

ASSUME MandateAssumption ==
  /\ None \notin Accounts \cup Profiles
  /\ Equities \subseteq Nat
  /\ MaxAge \in Nat

VARIABLES
  profile,    \* the stored profile, if any
  context,    \* the active account, if any
  live,       \* accounts that are not revoked
  equity,     \* per account: its latest snapshot and the highest equity
  offer,      \* the offer: its status, account and terms
  draft,      \* the handler that creates it
  call,       \* the handler that submits it
  seen        \* history: what was in force since the submission began

mandateVars == <<profile, context, live, equity, offer, draft, call, seen>>

-----------------------------------------------------------------------------
(* derive_adaptive_mandate. Losses are in hundredths of a percent of the   *)
(* equity, drawdowns in percent, leverage in halves.                       *)

Protective(a) ==
  \/ "capital_preservation" \in a.goals
  \/ a.liquidity = "high"
  \/ "none" \in {a.investing, a.trading}
  \/ a.drawdown \in {"exit", "unsure"}

Eligible(a) ==
  /\ a.products \cap {"futures", "options"} # {}
  /\ a.trading \in {"intermediate", "advanced"}

SelectiveGrowth(a) ==
  /\ "capital_growth" \in a.goals
  /\ a.liquidity = "low"
  /\ a.investing = "advanced"
  /\ a.trading = "advanced"
  /\ a.frequency \in {"weekly", "daily"}
  /\ Eligible(a)

(* Mutant of AdaptiveMandate: growth is looked at before protection.       *)
GrowthFirst(a) ==
  IF SelectiveGrowth(a) THEN [loss |-> 100, drawdown |-> 12, leverage |-> 40, derivatives |-> TRUE]
  ELSE IF Protective(a) THEN [loss |-> 50, drawdown |-> 6, leverage |-> 2, derivatives |-> FALSE]
  ELSE [loss |-> 75, drawdown |-> 8,
        leverage |-> IF Eligible(a) THEN 3 ELSE 2, derivatives |-> Eligible(a)]

AdaptiveMandate(a) ==
  IF Protective(a) THEN [loss |-> 50, drawdown |-> 6, leverage |-> 2, derivatives |-> FALSE]
  ELSE IF SelectiveGrowth(a)
       THEN [loss |-> 100, drawdown |-> 12, leverage |-> 40, derivatives |-> TRUE]
  ELSE [loss |-> 75, drawdown |-> 8,
        leverage |-> IF Eligible(a) THEN 3 ELSE 2, derivatives |-> Eligible(a)]

Mandate(p) == AdaptiveMandate(p.answers)

(* The answers the mandate looks at. Two of the products stand for the     *)
(* six, two of the frequencies for the five, reduce and add for hold.      *)
Experience == {"none", "beginner", "intermediate", "advanced"}

Answers ==
  [goals : (SUBSET {"capital_growth", "income", "capital_preservation"}) \ {{}},
   liquidity : {"low", "moderate", "high"},
   investing : Experience, trading : Experience,
   products : SUBSET {"crypto_spot", "futures"},
   frequency : {"monthly", "weekly"},
   drawdown : {"exit", "hold", "unsure"}]

Less == [none |-> {}, beginner |-> {"none"}, intermediate |-> {"beginner"},
         advanced |-> {"intermediate"}]

(* The answers that are one step more careful than a.                      *)
MoreCareful(a) ==
  {b \in {[a EXCEPT !.goals = @ \cup {"capital_preservation"}],
          [a EXCEPT !.goals = @ \ {"capital_growth"}],
          [a EXCEPT !.liquidity = IF @ = "low" THEN "moderate" ELSE "high"],
          [a EXCEPT !.products = @ \ {"futures"}],
          [a EXCEPT !.drawdown = "exit"], [a EXCEPT !.drawdown = "unsure"]}
         \cup {[a EXCEPT !.investing = e] : e \in Less[a.investing]}
         \cup {[a EXCEPT !.trading = e] : e \in Less[a.trading]} :
    b.goals # {}}

-----------------------------------------------------------------------------
(* PortfolioRiskService.state over a snapshot.                             *)

Drop(s) == IF s.current < s.high THEN s.high - s.current ELSE 0

(* Mutant of DrawdownStatus: a drawdown equal to the limit passes.         *)
StatusAboveLimit(s, limit) ==
  IF s.age > MaxAge THEN "stale"
  ELSE IF Drop(s) * 100 > limit * s.high THEN "breached"
  ELSE IF Drop(s) * 400 >= 3 * limit * s.high THEN "warning" ELSE "normal"

(* A peak of zero means no drawdown.                                       *)
DrawdownStatus(s, limit) ==
  IF s.age > MaxAge THEN "stale"
  ELSE IF s.high = 0 THEN "normal"
  ELSE IF Drop(s) * 100 >= limit * s.high THEN "breached"
  ELSE IF Drop(s) * 400 >= 3 * limit * s.high THEN "warning" ELSE "normal"

NewRiskAllowed(s, limit) == DrawdownStatus(s, limit) \in {"normal", "warning"}

-----------------------------------------------------------------------------
(* States.                                                                 *)

Snapshot == [high : Equities, current : Equities, age : 0 .. MaxAge + 1]

Offer == [status : {"absent", "available", "invalidated", "submitted"},
          account : Accounts \cup {None}, terms : Terms \cup {None}]

NoOffer == [status |-> "absent", account |-> None, terms |-> None]

(* A handler: what it is about, the profile it read first, and the one its *)
(* gate read.                                                              *)
Handler == [at : {"idle", "profile", "limit", "equity", "connection", "context",
                  "portfolio", "insert", "broker", "begin", "place", "sent"},
            account : Accounts \cup {None}, terms : Terms \cup {None},
            profile : Profiles \cup {None}, gate : Profiles \cup {None}]

Resting == [at |-> "idle", account |-> None, terms |-> None, profile |-> None, gate |-> None]

NothingSeen == [profiles |-> {}, limits |-> {}, none |-> {}]

Limits == {Mandate(p).drawdown : p \in Profiles}

MandateTypeOK ==
  /\ profile \in Profiles \cup {None}
  /\ context \in Accounts \cup {None}
  /\ live \subseteq Accounts
  /\ equity \in [Accounts -> Snapshot \cup {None}]
  /\ offer \in Offer
  /\ draft \in Handler
  /\ call \in Handler
  /\ seen \in [profiles : SUBSET Profiles, limits : SUBSET Limits, none : SUBSET {None}]

MandateInit ==
  /\ profile = None
  /\ context = None
  /\ live = Accounts
  /\ equity = [a \in Accounts |-> None]
  /\ offer = NoOffer
  /\ draft = Resting
  /\ call = Resting
  /\ seen = NothingSeen

(* A limit that the snapshot is recent enough to judge, and keeps.         *)
Keeps(s, limit) ==
  /\ s # None
  /\ s.age <= MaxAge
  /\ s.high = 0 \/ (s.high - s.current) * 100 < limit * s.high

(* What is in force, as far as it bears on an offer for an account: the    *)
(* profile, the limits its equity keeps, and whether no account is active. *)
InForce(p, c, s) ==
  [profiles |-> {p} \ {None}, limits |-> {l \in Limits : Keeps(s, l)}, none |-> {c} \ Accounts]

(* History: a submission under way sees what an action leaves in force.    *)
Watch ==
  seen' = IF call.at \in {"idle", "sent"} THEN seen
          ELSE LET now == InForce(profile', context', equity'[call.account])
               IN  [k \in DOMAIN seen |-> seen[k] \cup now[k]]

-----------------------------------------------------------------------------
(* The investor, the accounts and the clock.                               *)

SaveProfile(p) ==
  /\ profile # p
  /\ profile' = p
  /\ UNCHANGED <<context, live, equity, offer, draft, call>>
  /\ Watch

Invalidated == IF offer.status = "available" THEN [offer EXCEPT !.status = "invalidated"] ELSE offer

(* A switch to another account withdraws every offer there is, whosever    *)
(* it was.                                                                 *)
Switch(a) ==
  /\ a \in live \ {context}
  /\ equity[a] # None
  /\ context' = a
  /\ offer' = Invalidated
  /\ UNCHANGED <<profile, live, equity, draft, call>>
  /\ Watch

(* A revocation withdraws the offers of its account only.                  *)
Revoke(a) ==
  /\ a \in live
  /\ live' = live \ {a}
  /\ context' = IF context = a THEN None ELSE context
  /\ offer' = IF offer.account = a THEN Invalidated ELSE offer
  /\ UNCHANGED <<profile, equity, draft, call>>
  /\ Watch

Higher(e, s) == IF s # None /\ s.high > e THEN s.high ELSE e

(* save_snapshot makes its account the active one when there is none.      *)
Sync(a) ==
  /\ a \in live
  /\ \E e \in Equities :
       equity' = [equity EXCEPT ![a] = [high |-> Higher(e, @), current |-> e, age |-> 0]]
  /\ context' = IF context = None THEN a ELSE context
  /\ UNCHANGED <<profile, live, offer, draft, call>>
  /\ Watch

Aged(s) == IF s # None /\ s.age <= MaxAge THEN [s EXCEPT !.age = @ + 1] ELSE s

TimePasses ==
  /\ equity' = [a \in Accounts |-> Aged(equity[a])]
  /\ equity' # equity
  /\ UNCHANGED <<profile, context, live, offer, draft, call>>
  /\ Watch

-----------------------------------------------------------------------------
(* The checks that creating and submitting share. Each reads anew.         *)

Accepted == profile # None /\ profile.accepted

(* The gate reads the profile again, for its limit, and then the equity of *)
(* the account that is active, which need not be the offer's.              *)
GatePasses(h) ==
  /\ context # None
  /\ equity[context] # None
  /\ NewRiskAllowed(equity[context], Mandate(h.gate).drawdown)

(* Mutant of Fits: what was checked at creation is not looked at again.    *)
FitsAsCreated(h) == h.terms # None

Fits(h) ==
  /\ h.terms.leverage <= Mandate(h.profile).leverage
  /\ h.terms.linear => Mandate(h.profile).derivatives

LossFits(h, e) == h.terms.loss * 100 <= e * Mandate(h.profile).loss

(* The steps up to the active account, of a handler in state h that ends   *)
(* in state n.                                                             *)
CheckProfile(h, n) ==
  /\ h.at = "profile"
  /\ Accepted
  /\ n = [h EXCEPT !.at = "limit", !.profile = profile]

CheckLimit(h, n) ==
  /\ h.at = "limit"
  /\ profile # None
  /\ n = [h EXCEPT !.at = "equity", !.gate = profile]

CheckEquity(h, n) ==
  /\ h.at = "equity"
  /\ GatePasses(h)
  /\ n = [h EXCEPT !.at = "connection"]

CheckConnection(h, n) ==
  /\ h.at = "connection"
  /\ h.account \in live
  /\ n = [h EXCEPT !.at = "context"]

CheckContext(h, next, n) ==
  /\ h.at = "context"
  /\ context = h.account
  /\ n = [h EXCEPT !.at = next]

-----------------------------------------------------------------------------
(* ProposalService.create, for an account the worker found active.         *)

StartDraft(a, t) ==
  /\ draft.at = "idle"
  /\ offer.status = "absent"
  /\ context = a
  /\ draft' = [Resting EXCEPT !.at = "profile", !.account = a, !.terms = t]
  /\ UNCHANGED <<profile, context, live, equity, offer, call, seen>>

(* The loss is measured against the stored equity; a spot mandate is       *)
(* looked at by the pipeline, before this call.                            *)
DraftFits ==
  /\ draft.at = "portfolio"
  /\ draft.terms.leverage <= Mandate(draft.profile).leverage
  /\ context = draft.account
  /\ LossFits(draft, equity[context].current)
  /\ draft' = [draft EXCEPT !.at = "insert"]

Check(h, n, next) ==
  CheckProfile(h, n) \/ CheckLimit(h, n) \/ CheckEquity(h, n) \/ CheckConnection(h, n) \/ CheckContext(h, next, n)

Draft ==
  /\ Check(draft, draft', "portfolio") \/ DraftFits
  /\ UNCHANGED <<profile, context, live, equity, offer, call, seen>>

Insert ==
  /\ draft.at = "insert"
  /\ offer' = [status |-> "available", account |-> draft.account, terms |-> draft.terms]
  /\ draft' = Resting
  /\ UNCHANGED <<profile, context, live, equity, call, seen>>

(* Any check refuses, or the process stops.                                *)
DropDraft ==
  /\ draft.at # "idle"
  /\ draft' = Resting
  /\ UNCHANGED <<profile, context, live, equity, offer, call, seen>>

-----------------------------------------------------------------------------
(* ExecutionService.submit of a reviewed offer.                            *)

StartSubmit ==
  /\ call.at = "idle"
  /\ offer.status = "available"
  /\ call' = [Resting EXCEPT !.at = "profile", !.account = offer.account, !.terms = offer.terms]
  /\ seen' = InForce(profile, context, equity[offer.account])
  /\ UNCHANGED <<profile, context, live, equity, offer, draft>>

(* The mandate is compared between the gate and the connection, without a  *)
(* read.                                                                   *)
Confirm ==
  /\ Check(call, call', "broker")
  /\ call.at = "connection" => Fits(call)
  /\ UNCHANGED <<profile, context, live, equity, offer, draft, seen>>

(* The account is asked from the broker: its equity may be another than    *)
(* the stored one.                                                         *)
AskBroker ==
  /\ call.at = "broker"
  /\ \E e \in Equities : LossFits(call, e)
  /\ call' = [call EXCEPT !.at = "begin"]
  /\ UNCHANGED <<profile, context, live, equity, offer, draft, seen>>

(* begin_submission looks at the offer and the active account again, under *)
(* their locks.                                                            *)
BeginSubmission ==
  /\ call.at = "begin"
  /\ offer.status = "available"
  /\ call.account \in live \cap {context}
  /\ offer' = [offer EXCEPT !.status = "submitted"]
  /\ call' = [call EXCEPT !.at = "place"]
  /\ UNCHANGED <<profile, context, live, equity, draft, seen>>

PlaceOrder ==
  /\ call.at = "place"
  /\ call' = [call EXCEPT !.at = "sent"]
  /\ UNCHANGED <<profile, context, live, equity, offer, draft, seen>>

(* Refused, failed or stopped: the client may submit again.                *)
DropSubmit ==
  /\ call.at \notin {"idle", "sent"}
  /\ call' = Resting
  /\ seen' = NothingSeen
  /\ UNCHANGED <<profile, context, live, equity, offer, draft>>

MandateNext ==
  \/ \E p \in Profiles : SaveProfile(p)
  \/ \E a \in Accounts : Switch(a) \/ Revoke(a) \/ Sync(a)
  \/ \E a \in Accounts, t \in Terms : StartDraft(a, t)
  \/ TimePasses \/ Draft \/ Insert \/ DropDraft
  \/ StartSubmit \/ Confirm \/ AskBroker \/ BeginSubmission \/ PlaceOrder \/ DropSubmit

MandateSpec == MandateInit /\ [][MandateNext]_mandateVars

-----------------------------------------------------------------------------
(* Properties.                                                             *)

(* An order that was sent fits, in leverage, category, disclosures and     *)
(* loss at once, one profile that was in force while it was confirmed: the *)
(* checks never mix a bold answer of one profile with another's.           *)
OrdersFitMandate ==
  call.at = "sent" =>
    \E p \in seen.profiles :
      LET m == Mandate(p)
      IN  /\ p.accepted
          /\ call.terms.leverage <= m.leverage
          /\ call.terms.linear => m.derivatives
          /\ \E e \in Equities : call.terms.loss * 100 <= e * m.loss

(* "New risk is paused": an order was sent only if, at some moment while   *)
(* it was confirmed, the last stored equity of the order's own account was *)
(* at most MaxAge old and closer to its peak than the limit of a profile   *)
(* then in force. The gate measures whichever account is active, yet a     *)
(* switch withdraws the offers: only a revocation of the active account    *)
(* meanwhile lets the gate of one account admit an order on another.       *)
BreachStopsRisk ==
  call.at = "sent" /\ seen.none = {} =>
    \E p \in seen.profiles : Mandate(p).drawdown \in seen.limits

=============================================================================
