--------------------------- MODULE Notifications ---------------------------
(***************************************************************************)
(* Push notifications of the proposals of one user. The market worker      *)
(* creates a proposal and notifies the user's devices; the notification    *)
(* worker retries failed deliveries and collects receipts. Both are        *)
(* processes of their own, and the API registers and removes devices       *)
(* meanwhile: a row read by one may be changed or deleted before it is     *)
(* written. Expo keeps the receipts and may answer anything.               *)
(*                                                                         *)
(* A member of Devices is one push_devices row; an installation removed    *)
(* and registered again is another member.                                 *)
(***************************************************************************)
EXTENDS Naturals, FiniteSets, Sequences

CONSTANTS
  Proposals,    \* proposals the market worker will create
  Devices,      \* push_devices rows
  None,         \* no value
  MaxAttempts,  \* the attempts after which a delivery is not retried
  RetryLimit,   \* the proposals failed_proposals returns at most
  MaxEvents     \* bound: changes to devices and preferences, and crashes

ASSUME NotificationAssumption ==
  /\ None \notin Proposals
  /\ MaxAttempts \in Nat \ {0} /\ RetryLimit \in Nat \ {0}
  /\ MaxEvents \in Nat

VARIABLES
  device,    \* push_devices.status
  wanted,    \* notification_frequency is opportunities_only
  delivery,  \* notification_deliveries by proposal and device
  created,   \* trade_proposals
  job,       \* what each process is doing
  push,      \* Expo: the receipt of each push it was sent, by proposal and device
  events     \* how many there were (counter of the bound)

vars == <<device, wanted, delivery, created, job, push, events>>

Processes == {"market", "worker"}

-----------------------------------------------------------------------------
(* Types.                                                                  *)

DeviceStatus == {"absent", "active", "disabled", "removed"}

(* ticket is the push the ticket is for, 0 for none.                       *)
Delivery == [status : {"absent", "pending", "ticketed", "delivered", "failed"},
             ticket : Nat, attempts : Nat]
NoDelivery == [status |-> "absent", ticket |-> 0, attempts |-> 0]

(* A call of mark_ticket (counts) or of mark_receipt still to be made.     *)
Mark == [proposal : Proposals, device : Devices, status : {"ticketed", "delivered", "failed"},
         ticket : Nat, counts : BOOLEAN, unregistered : BOOLEAN]

(* A process: the batch it prepared, the receipts it asks for, the marks   *)
(* left, and the mark and row of the transaction it is in.                 *)
Idle == [at |-> "idle", proposal |-> None, todo |-> {}, batch |-> {}, asked |-> {},
         marks |-> {}, mark |-> {}, row |-> NoDelivery]

TypeOK ==
  /\ device \in [Devices -> DeviceStatus]
  /\ wanted \in BOOLEAN
  /\ delivery \in [Proposals \X Devices -> Delivery]
  /\ \A p \in Proposals, d \in Devices :
       delivery[<<p, d>>].status # "absent" => p \in created /\ device[d] \in {"active", "disabled"}
  /\ created \subseteq Proposals
  /\ \A j \in Processes :
       /\ job[j].at \in {"idle", "notify", "post", "retry", "fetch", "mark", "loaded"}
       /\ job[j].marks \cup job[j].mark \subseteq Mark
       /\ job[j].batch \subseteq Devices
       /\ job[j].row \in Delivery
  /\ events \in 0 .. MaxEvents

(* Some devices are registered before the first proposal.                  *)
Init ==
  /\ device \in [Devices -> {"absent", "active"}]
  /\ wanted = TRUE
  /\ delivery = [k \in Proposals \X Devices |-> NoDelivery]
  /\ created = {}
  /\ job = [j \in Processes |-> Idle]
  /\ push = [k \in Proposals \X Devices |-> <<>>]
  /\ events = 0

-----------------------------------------------------------------------------
(* The user's devices and preference (API).                                *)

(* An edit or a crash, while the bound allows it.                          *)
Event == events < MaxEvents /\ events' = events + 1

(* The deliveries that stay when those of the devices gone are deleted.    *)
Cascaded(gone) ==
  [k \in Proposals \X Devices |-> IF k[2] \in gone THEN NoDelivery ELSE delivery[k]]

(* register_device: the row, new, disabled or with another token, is active *)
(* from now on; a row of another installation that holds the token, if any,*)
(* is deleted.                                                             *)
Register(d) ==
  /\ Event
  /\ device[d] # "removed"
  /\ \E holder \in SUBSET {e \in Devices \ {d} : device[e] \in {"active", "disabled"}} :
       /\ Cardinality(holder) <= 1
       /\ device' = [e \in Devices |-> IF e = d THEN "active"
                                       ELSE IF e \in holder THEN "removed" ELSE device[e]]
       /\ delivery' = Cascaded(holder)
  /\ UNCHANGED <<wanted, created, job, push>>

Remove(d) ==
  /\ Event
  /\ device[d] \in {"active", "disabled"}
  /\ device' = [device EXCEPT ![d] = "removed"]
  /\ delivery' = Cascaded({d})
  /\ UNCHANGED <<wanted, created, job, push>>

SetFrequency ==
  /\ Event
  /\ wanted' = ~wanted
  /\ UNCHANGED <<device, delivery, created, job, push>>

-----------------------------------------------------------------------------
(* NotificationService.notify_proposal.                                    *)

(* ProposalService.create: the proposal is stored, then notified.          *)
Create(p) ==
  /\ job["market"].at = "idle" /\ p \notin created
  /\ created' = created \cup {p}
  /\ job' = [job EXCEPT !["market"] = [Idle EXCEPT !.at = "notify", !.proposal = p]]
  /\ UNCHANGED <<device, wanted, delivery, push, events>>

(* Where a process goes when a proposal is notified or its marks are made. *)
Finished(j) ==
  IF j = "market" \/ job[j].proposal = None THEN Idle
  ELSE [Idle EXCEPT !.at = "retry", !.todo = job[j].todo]

(* Mutant of Sendable: the attempts are not looked at.                     *)
SendableAlways(p, d) == delivery[<<p, d>>].status \in {"absent", "pending", "failed"}

(* What prepare_deliveries selects, once it has inserted the missing rows. *)
Sendable(p, d) ==
  /\ delivery[<<p, d>>].status \in {"absent", "pending", "failed"}
  /\ delivery[<<p, d>>].attempts < MaxAttempts

Active == {d \in Devices : device[d] = "active"}

Notify(j) ==
  LET p == job[j].proposal
      batch == {d \in Active : Sendable(p, d)}
  IN /\ job[j].at = "notify"
     /\ IF ~wanted
        THEN /\ job' = [job EXCEPT ![j] = Finished(j)]
             /\ UNCHANGED delivery
        ELSE /\ delivery' = [k \in Proposals \X Devices |->
                  IF k[1] = p /\ k[2] \in Active /\ delivery[k].status = "absent"
                    THEN [NoDelivery EXCEPT !.status = "pending"] ELSE delivery[k]]
             /\ job' = [job EXCEPT ![j] = IF batch = {} THEN Finished(j)
                                          ELSE [@ EXCEPT !.at = "post", !.batch = batch]]
     /\ UNCHANGED <<device, wanted, created, push, events>>

(* mark_ticket's arguments for what Expo answered for a device.            *)
TicketMark(p, d, answer) ==
  [proposal |-> p, device |-> d,
   status |-> IF answer[d] = "awaited" THEN "ticketed" ELSE "failed",
   ticket |-> IF answer[d] = "awaited" THEN Len(push[<<p, d>>]) + 1 ELSE 0,
   counts |-> TRUE, unregistered |-> answer[d] = "unregistered"]

(* Expo's log once it was sent a batch.                                    *)
Logged(p, receipt) ==
  [k \in Proposals \X Devices |->
     IF k[1] = p /\ k[2] \in DOMAIN receipt THEN Append(push[k], receipt[k[2]]) ELSE push[k]]

(* gateway.send: for each push a ticket, whose receipt is awaited, or an   *)
(* error; an ExpoPushError counts as an error for all of them.             *)
Post(j) ==
  LET p == job[j].proposal
  IN /\ job[j].at = "post"
     /\ \E answer \in [job[j].batch -> {"awaited", "error", "unregistered"}] :
          /\ push' = Logged(p, answer)
          /\ job' = [job EXCEPT ![j].at = "mark", ![j].batch = {},
                                ![j].marks = {TicketMark(p, d, answer) : d \in job[j].batch}]
     /\ UNCHANGED <<device, wanted, delivery, created, events>>

-----------------------------------------------------------------------------
(* mark_ticket and mark_receipt: each is one transaction that reads the    *)
(* row without a lock and writes the columns that differ from what it read. *)

(* The order of a batch is not specified: any fixed one stands for it, as  *)
(* the marks of one batch are of different deliveries.                     *)
(* KeyError, or the update of a deleted row: the market worker logs it and *)
(* goes on; the notification worker abandons its cycle.                    *)
Aborted(j) == job' = [job EXCEPT ![j] = Idle]

Load(j) ==
  /\ job[j].at = "mark"
  /\ LET m == CHOOSE x \in job[j].marks : TRUE
     IN job' = [job EXCEPT ![j] =
          IF delivery[<<m.proposal, m.device>>].status = "absent" THEN Idle
          ELSE [@ EXCEPT !.at = "loaded", !.mark = {m}, !.marks = job[j].marks \ {m},
                         !.row = delivery[<<m.proposal, m.device>>]]]
  /\ UNCHANGED <<device, wanted, delivery, created, push, events>>

Flushed(now, loaded, new) == IF new = loaded THEN now ELSE new

Written(m, now, row) ==
  [status |-> Flushed(now.status, row.status, m.status),
   ticket |-> IF m.counts THEN Flushed(now.ticket, row.ticket, m.ticket) ELSE now.ticket,
   attempts |-> IF m.counts THEN row.attempts + 1 ELSE now.attempts]

(* DeviceNotRegistered disables the device, whatever its token is by now.  *)
Disabling(m) == m.unregistered

Commit(j) ==
  /\ job[j].at = "loaded"
  /\ \E m \in job[j].mark :
       LET k == <<m.proposal, m.device>>
       IN IF delivery[k].status = "absent"
          THEN Aborted(j) /\ UNCHANGED <<device, delivery>>
          ELSE /\ delivery' = [delivery EXCEPT ![k] = Written(m, @, job[j].row)]
               /\ device' = IF Disabling(m) THEN [device EXCEPT ![m.device] = "disabled"]
                            ELSE device
               /\ job' = [job EXCEPT ![j] =
                    IF @.marks = {} THEN Finished(j)
                    ELSE [@ EXCEPT !.at = "mark", !.mark = {}, !.row = NoDelivery]]
  /\ UNCHANGED <<wanted, created, push, events>>

-----------------------------------------------------------------------------
(* run_receipt_loop: retry_failed, then reconcile_receipts.                *)

(* Mutant of FailedProposals: the last attempt is not made.               *)
FailedProposalsEarly ==
  {p \in created : \E d \in Devices :
     delivery[<<p, d>>].status = "failed" /\ delivery[<<p, d>>].attempts + 1 < MaxAttempts}

(* failed_proposals: of any device, even one that is disabled.             *)
FailedProposals ==
  {p \in created : \E d \in Devices :
     delivery[<<p, d>>].status = "failed" /\ delivery[<<p, d>>].attempts < MaxAttempts}

StartCycle ==
  /\ job["worker"].at = "idle"
  /\ \E some \in SUBSET FailedProposals :
       /\ Cardinality(some) <= RetryLimit
       /\ some = FailedProposals \/ Cardinality(some) = RetryLimit
       /\ job' = [job EXCEPT !["worker"] = [Idle EXCEPT !.at = "retry", !.todo = some]]
  /\ UNCHANGED <<device, wanted, delivery, created, push, events>>

RetryNext ==
  /\ job["worker"].at = "retry"
  /\ \E p \in job["worker"].todo :
       job' = [job EXCEPT !["worker"].at = "notify", !["worker"].proposal = p,
                          !["worker"].todo = @ \ {p}]
  /\ UNCHANGED <<device, wanted, delivery, created, push, events>>

(* Mutant of Ticketed: deliveries that were retried are left out.          *)
TicketedOnce ==
  {k \in Proposals \X Devices :
     delivery[k].status = "ticketed" /\ delivery[k].ticket # 0 /\ delivery[k].attempts = 1}

(* ticketed_deliveries.                                                    *)
Ticketed == {k \in Proposals \X Devices : delivery[k].status = "ticketed" /\ delivery[k].ticket # 0}

ListTicketed ==
  /\ job["worker"].at = "retry" /\ job["worker"].todo = {}
  /\ job' = [job EXCEPT !["worker"] =
       IF Ticketed = {} THEN Idle
       ELSE [Idle EXCEPT !.at = "fetch",
                         !.asked = {<<k[1], k[2], delivery[k].ticket>> : k \in Ticketed}]]
  /\ UNCHANGED <<device, wanted, delivery, created, push, events>>

(* The receipts Expo may have of the pushes asked for; one it has stays.   *)
Receipts ==
  {r \in [job["worker"].asked -> {"awaited", "ok", "error", "unregistered"}] :
     \A a \in job["worker"].asked :
       push[<<a[1], a[2]>>][a[3]] # "awaited" => r[a] = push[<<a[1], a[2]>>][a[3]]}

(* The deliveries whose receipts Expo returned.                            *)
Collected(receipts) == {a \in DOMAIN receipts : receipts[a] # "awaited"}

(* Mutant of Received: a receipt means the push was delivered.             *)
ReceivedAny(receipt) == receipt # "awaited"

Received(receipt) == receipt = "ok"

(* mark_receipt's arguments.                                               *)
ReceiptMark(a, receipt) ==
  [proposal |-> a[1], device |-> a[2],
   status |-> IF Received(receipt) THEN "delivered" ELSE "failed",
   ticket |-> a[3], counts |-> FALSE, unregistered |-> receipt = "unregistered"]

Fetch ==
  /\ job["worker"].at = "fetch"
  /\ \E receipts \in Receipts :
       /\ push' = [k \in Proposals \X Devices |-> [n \in DOMAIN push[k] |->
            IF <<k[1], k[2], n>> \in DOMAIN receipts THEN receipts[<<k[1], k[2], n>>] ELSE push[k][n]]]
       /\ job' = [job EXCEPT !["worker"] =
            IF Collected(receipts) = {} THEN Idle
            ELSE [Idle EXCEPT !.at = "mark",
                              !.marks = {ReceiptMark(a, receipts[a]) : a \in Collected(receipts)}]]
  /\ UNCHANGED <<device, wanted, delivery, created, events>>

(* Expo has every receipt that is asked for.                               *)
FetchAll == Fetch /\ \A a \in job["worker"].asked : push'[<<a[1], a[2]>>][a[3]] # "awaited"

(* ExpoPushError ends the cycle.                                           *)
FetchFails ==
  /\ job["worker"].at = "fetch"
  /\ Aborted("worker")
  /\ UNCHANGED <<device, wanted, delivery, created, push, events>>

Crash(j) ==
  /\ Event /\ job[j].at # "idle"
  /\ Aborted(j)
  /\ UNCHANGED <<device, wanted, delivery, created, push>>

-----------------------------------------------------------------------------

Work(j) == Notify(j) \/ Post(j) \/ Load(j) \/ Commit(j)

Worker == Work("worker") \/ StartCycle \/ RetryNext \/ ListTicketed \/ Fetch \/ FetchFails

Next ==
  \/ \E d \in Devices : Register(d)
  \/ \E d \in Devices : Remove(d)
  \/ SetFrequency
  \/ \E p \in Proposals : Create(p)
  \/ Work("market")
  \/ Worker
  \/ \E j \in Processes : Crash(j)

Spec == Init /\ [][Next]_vars

(* The worker's loop never stops, and Expo is not out of reach, or short   *)
(* of receipts, each time it is asked.                                     *)
Fairness == WF_vars(Worker) /\ SF_vars(FetchAll)

-----------------------------------------------------------------------------
(* Properties.                                                             *)

(* A delivery reads delivered only if Expo reported one of its own pushes  *)
(* received, however tickets, receipts and retries of two processes mixed. *)
DeliveredIsTrue ==
  \A k \in Proposals \X Devices :
    delivery[k].status = "delivered" => \E n \in DOMAIN push[k] : push[k][n] = "ok"

(* Retries stop: the attempts of a delivery never pass the limit by more   *)
(* than the send both processes had in flight, and a device is pushed at   *)
(* most twice the limit, even when a write of one process undoes the       *)
(* other's count, plus once per crash or removal that loses a mark.        *)
PushesBounded ==
  \A k \in Proposals \X Devices :
    /\ delivery[k].attempts <= MaxAttempts + 1
    /\ Len(push[k]) <= 2 * MaxAttempts + events

(* The user wants notifications, and a push to an active device failed and *)
(* has attempts left.                                                      *)
WaitsForRetry(p) ==
  wanted /\ \E d \in Active : delivery[<<p, d>>].status = "failed" /\ Sendable(p, d)

(* Other failed proposals, of which a retry can send nothing, are as many  *)
(* as a cycle takes: their devices are disabled, so that they stay failed. *)
KeptOut(p) ==
  Cardinality({q \in FailedProposals \ {p} : \A d \in Active : ~Sendable(q, d)}) >= RetryLimit

(* Whatever else fails, and whichever proposals each cycle takes, what     *)
(* failed on a proposal is sent again until it is through or its attempts  *)
(* are used up, unless from some time on proposals that can not be sent    *)
(* fill every cycle: failed_proposals limits before it looks at devices.   *)
FailedIsRetried ==
  \A p \in Proposals : []<>~KeptOut(p) => (WaitsForRetry(p) ~> ~WaitsForRetry(p))

(* The pushes of a proposal do not stay ticketed, even if the worker fails *)
(* between an answer and its mark.                                         *)
ReceiptSettles ==
  \A p \in Proposals :
    LET Waiting == \E d \in Devices :
                     delivery[<<p, d>>].status = "ticketed" /\ delivery[<<p, d>>].ticket # 0
    IN Waiting ~> ~Waiting

=============================================================================
