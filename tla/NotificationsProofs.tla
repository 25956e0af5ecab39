------------------------ MODULE NotificationsProofs ------------------------
(***************************************************************************)
(* Proofs, for any number of proposals, devices and attempts, that a       *)
(* delivery reads delivered only if the broker of pushes, Expo, said so,   *)
(* that rows of devices that are gone do not come back, and that retries   *)
(* stop: two processes that undo each other's counts still push a device   *)
(* at most twice the limit, and once more per crash or removal.            *)
(***************************************************************************)
EXTENDS Notifications, SequenceTheorems, TLAPS

-----------------------------------------------------------------------------
(* The inductive invariant.                                                *)

Deliveries == Proposals \X Devices

Receipt == {"awaited", "ok", "error", "unregistered"}

Job == [at : {"idle", "notify", "post", "retry", "fetch", "mark", "loaded"},
        proposal : Proposals \cup {None}, todo : SUBSET Proposals, batch : SUBSET Devices,
        asked : SUBSET (Proposals \X Devices \X Nat),
        marks : SUBSET Mark, mark : SUBSET Mark, row : Delivery]

Typed ==
  /\ device \in [Devices -> DeviceStatus]
  /\ wanted \in BOOLEAN
  /\ delivery \in [Deliveries -> Delivery]
  /\ created \subseteq Proposals
  /\ job \in [Processes -> Job]
  /\ push \in [Deliveries -> Seq(Receipt)]
  /\ events \in 0 .. MaxEvents

(* A row is of a proposal that was created and a device that is there.     *)
Registered ==
  \A p \in Proposals, d \in Devices :
    delivery[<<p, d>>].status # "absent" => p \in created /\ device[d] \in {"active", "disabled"}

(* What a process is about to notify was created, and it goes to post or   *)
(* to mark with something to do.                                           *)
Known ==
  \A j \in Processes :
    /\ job[j].at \in {"notify", "post"} => job[j].proposal \in created
    /\ job[j].at = "post" => job[j].batch # {}
    /\ job[j].at = "mark" => job[j].marks # {}
    /\ job[j].todo \subseteq created

(* The pushes a ticket or a mark may speak of.                             *)
Sent(p, d) == 1 .. Len(push[<<p, d>>])

Received_(p, d) == \E n \in Sent(p, d) : push[<<p, d>>][n] = "ok"

(* Tickets are of pushes that were sent, and a mark that says delivered    *)
(* has the receipt for it.                                                 *)
MarkTrue(m) ==
  /\ m.ticket \in {0} \cup Sent(m.proposal, m.device)
  /\ m.status = "delivered" => Received_(m.proposal, m.device)

TicketsTrue ==
  /\ \A k \in Deliveries : delivery[k].ticket \in {0} \cup Sent(k[1], k[2])
  /\ \A j \in Processes :
       /\ \A a \in job[j].asked : a[3] \in Sent(a[1], a[2])
       /\ \A m \in job[j].marks \cup job[j].mark : MarkTrue(m)

IndInv == Typed /\ Registered /\ Known /\ TicketsTrue /\ DeliveredIsTrue

-----------------------------------------------------------------------------
(* Helpers.                                                                *)

LEMMA IdleType == Idle \in Job
  BY DEF Idle, Job, NoDelivery, Delivery

LEMMA CascadedType ==
  ASSUME Typed, NEW gone \in SUBSET Devices
  PROVE  /\ Cascaded(gone) \in [Deliveries -> Delivery]
         /\ \A k \in Deliveries : Cascaded(gone)[k] =
              IF k[2] \in gone THEN NoDelivery ELSE delivery[k]
  BY DEF Typed, Cascaded, Deliveries, NoDelivery, Delivery

LEMMA FinishedType ==
  ASSUME Typed, NEW j \in Processes
  PROVE  /\ Finished(j) \in Job
         /\ Finished(j).at \in {"idle", "retry"}
         /\ Finished(j).todo \subseteq job[j].todo
         /\ Finished(j).asked = {} /\ Finished(j).marks = {} /\ Finished(j).mark = {}
  BY IdleType DEF Typed, Finished, Idle, Job

(* The log of pushes grows, and a receipt stays.                           *)
Grows ==
  /\ push' \in [Deliveries -> Seq(Receipt)]
  /\ \A k \in Deliveries :
       /\ Len(push[k]) <= Len(push'[k])
       /\ \A n \in 1 .. Len(push[k]) : push[k][n] = "ok" => push'[k][n] = "ok"

LEMMA LenType ==
  ASSUME Typed
  PROVE  \A k \in Deliveries : /\ Len(push[k]) \in Nat
                               /\ DOMAIN push[k] = 1 .. Len(push[k])
  BY LenProperties DEF Typed

LEMMA GrowsKeeps ==
  ASSUME Typed, Grows
  PROVE  \A p \in Proposals, d \in Devices :
           /\ Sent(p, d) \subseteq Sent(p, d)'
           /\ Received_(p, d) => Received_(p, d)'
<1> SUFFICES ASSUME NEW p \in Proposals, NEW d \in Devices
             PROVE  /\ Sent(p, d) \subseteq Sent(p, d)'
                    /\ Received_(p, d) => Received_(p, d)'
  OBVIOUS
<1>1. <<p, d>> \in Deliveries
  BY DEF Deliveries
<1>2. Len(push[<<p, d>>]) \in Nat /\ Len(push'[<<p, d>>]) \in Nat
  BY <1>1, LenProperties DEF Typed, Grows
<1>3. 1 .. Len(push[<<p, d>>]) \subseteq 1 .. Len(push'[<<p, d>>])
  BY <1>1, <1>2 DEF Grows
<1> QED BY <1>1, <1>3 DEF Grows, Sent, Received_

LEMMA MarkKept ==
  ASSUME Typed, Grows, NEW m \in Mark, MarkTrue(m)
  PROVE  MarkTrue(m)'
<1>1. m.proposal \in Proposals /\ m.device \in Devices
  BY DEF Mark
<1> QED BY <1>1, GrowsKeeps DEF MarkTrue

(* A step that leaves the rows and the processes' tickets alone.           *)
LEMMA TicketsKept ==
  ASSUME IndInv, Grows, UNCHANGED delivery,
         \A j \in Processes : /\ job'[j].asked \subseteq job[j].asked
                              /\ \A m \in job'[j].marks \cup job'[j].mark :
                                   m \in job[j].marks \cup job[j].mark \/ MarkTrue(m)'
  PROVE  TicketsTrue' /\ DeliveredIsTrue'
<1> USE DEF IndInv
<1>1. \A k \in Deliveries : k[1] \in Proposals /\ k[2] \in Devices /\ k = <<k[1], k[2]>>
  BY DEF Deliveries
<1>2. \A k \in Deliveries : delivery[k].ticket \in {0} \cup Sent(k[1], k[2])'
  BY <1>1, GrowsKeeps DEF TicketsTrue
<1>3. ASSUME NEW j \in Processes, NEW a \in job'[j].asked PROVE a[3] \in Sent(a[1], a[2])'
  <2>1. a \in job[j].asked /\ a[1] \in Proposals /\ a[2] \in Devices
    BY <1>3 DEF Typed, Job
  <2> QED BY <2>1, GrowsKeeps DEF TicketsTrue
<1>4. ASSUME NEW j \in Processes, NEW m \in job'[j].marks \cup job'[j].mark PROVE MarkTrue(m)'
  <2>1. CASE m \in job[j].marks \cup job[j].mark
    <3>1. m \in Mark /\ MarkTrue(m)
      BY <2>1 DEF Typed, Job, TicketsTrue
    <3> QED BY <3>1, MarkKept
  <2> QED BY <1>4, <2>1
<1>5. DeliveredIsTrue'
  <2> SUFFICES ASSUME NEW k \in Deliveries, delivery[k].status = "delivered"
               PROVE  \E n \in DOMAIN push'[k] : push'[k][n] = "ok"
    BY DEF DeliveredIsTrue, Deliveries
  <2>1. PICK n \in DOMAIN push[k] : push[k][n] = "ok"
    BY DEF DeliveredIsTrue, Deliveries
  <2>2. /\ DOMAIN push[k] = 1 .. Len(push[k]) /\ DOMAIN push'[k] = 1 .. Len(push'[k])
        /\ Len(push[k]) \in Nat /\ Len(push'[k]) \in Nat
    BY LenProperties DEF Typed, Grows
  <2> QED BY <2>1, <2>2 DEF Grows
<1>6. TicketsTrue'
  BY <1>2, <1>3, <1>4 DEF TicketsTrue
<1> QED BY <1>5, <1>6

LEMMA UnchangedGrows == ASSUME Typed, UNCHANGED push PROVE Grows
<1>1. \A k \in Deliveries : Len(push[k]) \in Nat
  BY LenProperties DEF Typed
<1> QED BY <1>1 DEF Grows, Typed

-----------------------------------------------------------------------------
(* Every step keeps the invariant.                                         *)

LEMMA InitInv == Init => IndInv
<1> SUFFICES ASSUME Init PROVE IndInv
  OBVIOUS
<1>1. Typed
  <2>1. NoDelivery \in Delivery
    BY DEF NoDelivery, Delivery
  <2>2. <<>> \in Seq(Receipt)
    BY EmptySeq
  <2> QED BY <2>1, <2>2, IdleType, NotificationAssumption DEF Init, Typed, DeviceStatus, Deliveries
<1>2. Registered /\ DeliveredIsTrue
  BY DEF Init, Registered, DeliveredIsTrue, NoDelivery
<1>3. Known /\ TicketsTrue
  BY DEF Init, Known, TicketsTrue, Idle, NoDelivery, Deliveries
<1> QED BY <1>1, <1>2, <1>3 DEF IndInv

(* The user's side: deliveries disappear with their device.                *)
LEMMA CascadeInv ==
  ASSUME IndInv, NEW gone \in SUBSET Devices, delivery' = Cascaded(gone),
         device' \in [Devices -> DeviceStatus], events' \in 0 .. MaxEvents,
         \A d \in Devices \ gone :
           device[d] \in {"active", "disabled"} => device'[d] \in {"active", "disabled"},
         UNCHANGED <<wanted, created, job, push>>
  PROVE  IndInv'
<1> USE DEF IndInv
<1>1. Typed'
  BY CascadedType DEF Typed
<1>2. \A p \in Proposals, d \in Devices : <<p, d>> \in Deliveries
  BY DEF Deliveries
<1>3. Registered'
  BY <1>2, CascadedType DEF Registered, NoDelivery
<1>4. Known'
  BY DEF Known
<1>5. \A k \in Deliveries : \/ delivery'[k] = delivery[k]
                            \/ delivery'[k].status = "absent" /\ delivery'[k].ticket = 0
  BY CascadedType DEF NoDelivery
<1>6. TicketsTrue'
  <2>1. \A k \in Deliveries : delivery'[k].ticket \in {0} \cup Sent(k[1], k[2])'
    BY <1>5 DEF TicketsTrue, Sent
  <2> QED BY <2>1 DEF TicketsTrue, MarkTrue, Sent, Received_
<1>7. DeliveredIsTrue'
  BY <1>5 DEF DeliveredIsTrue, Deliveries
<1> QED BY <1>1, <1>3, <1>4, <1>6, <1>7

LEMMA UserInv ==
  ASSUME IndInv, NEW d \in Devices, Register(d) \/ Remove(d)
  PROVE  IndInv'
<1> USE DEF IndInv
<1>0. Event => events' \in 0 .. MaxEvents
  BY NotificationAssumption DEF Event, Typed
<1>1. CASE Register(d)
  <2>1. PICK holder \in SUBSET {e \in Devices \ {d} : device[e] \in {"active", "disabled"}} :
           /\ device' = [e \in Devices |-> IF e = d THEN "active"
                                           ELSE IF e \in holder THEN "removed" ELSE device[e]]
           /\ delivery' = Cascaded(holder)
    BY <1>1 DEF Register
  <2>2. device' \in [Devices -> DeviceStatus]
    BY <2>1 DEF Typed, DeviceStatus
  <2> QED BY <1>0, <1>1, <2>1, <2>2, CascadeInv DEF Register
<1>2. CASE Remove(d)
  <2>1. device' \in [Devices -> DeviceStatus]
    BY <1>2 DEF Remove, Typed, DeviceStatus
  <2> QED BY <1>0, <1>2, <2>1, CascadeInv DEF Remove, Typed
<1> QED BY <1>1, <1>2

(* A step of a process that writes neither rows nor the log.               *)
LEMMA JobInv ==
  ASSUME IndInv, NEW j \in Processes, NEW next \in Job, job' = [job EXCEPT ![j] = next],
         created \subseteq created', created' \subseteq Proposals, events' \in 0 .. MaxEvents,
         UNCHANGED <<device, wanted, delivery, push>>,
         next.at = "notify" => next.proposal \in created',
         next.at # "post", next.at = "mark" => next.marks # {},
         next.todo \subseteq created',
         \A a \in next.asked : a[3] \in Sent(a[1], a[2]),
         \A m \in next.marks \cup next.mark : m \in job[j].marks \cup job[j].mark
  PROVE  IndInv'
<1> USE DEF IndInv
<1>1. Typed'
  BY DEF Typed
<1>2. Registered'
  BY DEF Registered
<1>3. \A i \in Processes : job'[i] = IF i = j THEN next ELSE job[i]
  BY DEF Typed
<1>4. Known'
  BY <1>3 DEF Known
<1>5. TicketsTrue'
  <2>1. \A i \in Processes : /\ \A a \in job'[i].asked : a[3] \in Sent(a[1], a[2])
                             /\ \A m \in job'[i].marks \cup job'[i].mark : MarkTrue(m)
    BY <1>3 DEF TicketsTrue
  <2> QED BY <2>1 DEF TicketsTrue, MarkTrue, Sent, Received_
<1>6. DeliveredIsTrue'
  BY DEF DeliveredIsTrue
<1> QED BY <1>1, <1>2, <1>4, <1>5, <1>6

(* Job's fields, for the updates below.                                    *)
LEMMA JobType ==
  ASSUME Typed, NEW j \in Processes
  PROVE  /\ job[j] \in Job /\ job[j].proposal \in Proposals \cup {None}
         /\ job[j].todo \subseteq Proposals /\ job[j].batch \subseteq Devices
         /\ job[j].asked \subseteq Proposals \X Devices \X Nat
         /\ job[j].marks \subseteq Mark /\ job[j].mark \subseteq Mark
         /\ job[j].row \in Delivery
  BY DEF Typed, Job

LEMMA StopInv ==
  ASSUME IndInv, NEW j \in Processes, job' = [job EXCEPT ![j] = Idle],
         events' \in 0 .. MaxEvents, UNCHANGED <<device, wanted, delivery, created, push>>
  PROVE  IndInv'
<1>1. Idle.at = "idle" /\ Idle.todo = {} /\ Idle.asked = {} /\ Idle.marks = {} /\ Idle.mark = {}
  BY DEF Idle
<1>2. created \subseteq Proposals
  BY DEF IndInv, Typed
<1> QED BY <1>1, <1>2, IdleType, JobInv

LEMMA CreateInv ==
  ASSUME IndInv, NEW p \in Proposals, Create(p)
  PROVE  IndInv'
<1> DEFINE next == [Idle EXCEPT !.at = "notify", !.proposal = p]
<1>1. /\ next \in Job /\ next.proposal = p /\ next.todo = {} /\ next.asked = {} /\ next.marks = {}
      /\ next.mark = {}
  BY IdleType DEF Idle, Job
<1>0. next.at = "notify"
  BY DEF Idle
<1>2. /\ created' = created \cup {p} /\ job' = [job EXCEPT !["market"] = next]
      /\ UNCHANGED <<device, wanted, delivery, push, events>>
  BY DEF Create
<1>3. created' \subseteq Proposals /\ events' \in 0 .. MaxEvents
  BY <1>2 DEF IndInv, Typed
<1> HIDE DEF next
<1> QED BY <1>0, <1>1, <1>2, <1>3, JobInv DEF Processes

LEMMA NotifyInv ==
  ASSUME IndInv, NEW j \in Processes, Notify(j)
  PROVE  IndInv'
<1> USE DEF IndInv
<1> DEFINE p == job[j].proposal
           batch == {d \in Active : Sendable(p, d)}
<1>1. /\ job[j].at = "notify" /\ p \in created
      /\ UNCHANGED <<device, wanted, created, push, events>>
  BY DEF Notify, Known
<1>2. PICK next \in Job :
         /\ job' = [job EXCEPT ![j] = next]
         /\ next.at \in {"idle", "retry", "post"} /\ next.todo \subseteq job[j].todo
         /\ next.at = "post" => next.proposal = p /\ next.batch # {}
         /\ next.asked \subseteq job[j].asked /\ next.marks \subseteq job[j].marks
         /\ next.mark \subseteq job[j].mark
  <2>1. CASE job' = [job EXCEPT ![j] = Finished(j)]
    BY <2>1, FinishedType
  <2>2. CASE /\ job' = [job EXCEPT ![j] = [@ EXCEPT !.at = "post", !.batch = batch]]
             /\ batch # {}
    <3>1. job' = [job EXCEPT ![j] = [job[j] EXCEPT !.at = "post", !.batch = batch]]
      BY <2>2
    <3>2. batch \subseteq Devices
      BY DEF Active
    <3> HIDE DEF batch
    <3> DEFINE next == [job[j] EXCEPT !.at = "post", !.batch = batch]
    <3>3. /\ next \in Job /\ next.at = "post" /\ next.batch = batch
          /\ next.todo = job[j].todo /\ next.proposal = p
          /\ next.asked = job[j].asked /\ next.marks = job[j].marks /\ next.mark = job[j].mark
      BY <3>2, JobType DEF Job
    <3> QED BY <2>2, <3>1, <3>3
  <2> QED BY <2>1, <2>2 DEF Notify
<1>3. \/ UNCHANGED delivery
      \/ delivery' = [k \in Deliveries |->
                        IF k[1] = p /\ k[2] \in Active /\ delivery[k].status = "absent"
                          THEN [NoDelivery EXCEPT !.status = "pending"] ELSE delivery[k]]
  BY DEF Notify, Deliveries
<1>4. /\ delivery' \in [Deliveries -> Delivery]
      /\ \A k \in Deliveries :
           \/ delivery'[k] = delivery[k]
           \/ /\ k[1] = p /\ device[k[2]] = "active"
              /\ delivery'[k].status = "pending" /\ delivery'[k].ticket = 0
  <2>1. /\ [NoDelivery EXCEPT !.status = "pending"] \in Delivery
        /\ [NoDelivery EXCEPT !.status = "pending"].status = "pending"
        /\ [NoDelivery EXCEPT !.status = "pending"].ticket = 0
    BY DEF NoDelivery, Delivery
  <2> QED BY <1>3, <2>1 DEF Typed, Active
<1>5. Typed'
  BY <1>1, <1>2, <1>4 DEF Typed
<1>6. \A i \in Processes : job'[i] = IF i = j THEN next ELSE job[i]
  BY <1>2 DEF Typed
<1>7. Known'
  BY <1>1, <1>2, <1>6 DEF Known
<1>8. Registered'
  <2>1. \A q \in Proposals, d \in Devices : <<q, d>> \in Deliveries
    BY DEF Deliveries
  <2> QED BY <1>1, <1>4, <2>1 DEF Registered
<1>9. TicketsTrue'
  <2>1. \A k \in Deliveries : delivery'[k].ticket \in {0} \cup Sent(k[1], k[2])'
    BY <1>1, <1>4 DEF TicketsTrue, Sent
  <2>2. \A i \in Processes : /\ job'[i].asked \subseteq job[i].asked
                             /\ job'[i].marks \cup job'[i].mark \subseteq job[i].marks \cup job[i].mark
    BY <1>2, <1>6
  <2> QED BY <1>1, <2>1, <2>2 DEF TicketsTrue, MarkTrue, Sent, Received_
<1>10. DeliveredIsTrue'
  BY <1>1, <1>4 DEF DeliveredIsTrue, Deliveries
<1> QED BY <1>5, <1>7, <1>8, <1>9, <1>10

LEMMA LoadInv ==
  ASSUME IndInv, NEW j \in Processes, Load(j)
  PROVE  IndInv'
<1> DEFINE m == CHOOSE x \in job[j].marks : TRUE
           row == delivery[<<m.proposal, m.device>>]
<1>1. /\ job[j].at = "mark" /\ UNCHANGED <<device, wanted, delivery, created, push, events>>
      /\ job' = [job EXCEPT ![j] =
           IF row.status = "absent" THEN Idle
           ELSE [@ EXCEPT !.at = "loaded", !.mark = {m}, !.marks = job[j].marks \ {m},
                          !.row = row]]
  BY DEF Load
<1>2. created \subseteq Proposals /\ events' \in 0 .. MaxEvents
  BY <1>1 DEF IndInv, Typed
<1>3. m \in job[j].marks /\ m \in Mark
  BY <1>1, JobType DEF IndInv, Known
<1>4. row \in Delivery
  BY <1>3 DEF IndInv, Typed, Deliveries, Mark
<1> HIDE DEF m, row
<1>5. CASE row.status = "absent"
  BY <1>1, <1>2, <1>5, StopInv
<1>6. CASE row.status # "absent"
  <2> DEFINE next == [job[j] EXCEPT !.at = "loaded", !.mark = {m}, !.marks = job[j].marks \ {m},
                                    !.row = row]
  <2>1. job' = [job EXCEPT ![j] = next]
    BY <1>1, <1>6
  <2>2. /\ next \in Job /\ next.at = "loaded" /\ next.todo = job[j].todo
        /\ next.asked = job[j].asked
        /\ next.marks \subseteq job[j].marks /\ next.mark \subseteq job[j].marks
    BY <1>3, <1>4, JobType DEF Job, IndInv
  <2>3. job[j].todo \subseteq created /\ \A a \in job[j].asked : a[3] \in Sent(a[1], a[2])
    BY DEF IndInv, Known, TicketsTrue
  <2> HIDE DEF next
  <2> QED BY <1>1, <1>2, <2>1, <2>2, <2>3, JobInv
<1> QED BY <1>5, <1>6

LEMMA CommitInv ==
  ASSUME IndInv, NEW j \in Processes, Commit(j)
  PROVE  IndInv'
<1> USE DEF IndInv
<1>1. PICK m \in job[j].mark :
        LET k == <<m.proposal, m.device>>
        IN IF delivery[k].status = "absent"
           THEN Aborted(j) /\ UNCHANGED <<device, delivery>>
           ELSE /\ delivery' = [delivery EXCEPT ![k] = Written(m, @, job[j].row)]
                /\ device' = IF Disabling(m) THEN [device EXCEPT ![m.device] = "disabled"]
                             ELSE device
                /\ job' = [job EXCEPT ![j] =
                     IF @.marks = {} THEN Finished(j)
                     ELSE [@ EXCEPT !.at = "mark", !.mark = {}, !.row = NoDelivery]]
  BY DEF Commit
<1>2. UNCHANGED <<wanted, created, push, events>>
  BY DEF Commit
<1> DEFINE k == <<m.proposal, m.device>>
           new == Written(m, delivery[k], job[j].row)
<1>3. m \in Mark /\ k \in Deliveries /\ MarkTrue(m) /\ k[1] = m.proposal /\ k[2] = m.device
  BY JobType DEF Mark, Deliveries, TicketsTrue
<1>4. CASE delivery[k].status = "absent"
  <2>1. job' = [job EXCEPT ![j] = Idle] /\ UNCHANGED <<device, delivery>>
    BY <1>1, <1>4 DEF Aborted
  <2> QED BY <1>2, <2>1, StopInv DEF Typed
<1>5. CASE delivery[k].status # "absent"
  <2>1. /\ delivery' = [delivery EXCEPT ![k] = new]
        /\ \/ device' = device
           \/ device' = [device EXCEPT ![m.device] = "disabled"]
    BY <1>1, <1>5
  <2>2. PICK next \in Job :
          /\ job' = [job EXCEPT ![j] = next]
          /\ next.at \in {"idle", "retry", "mark"} /\ next.todo \subseteq job[j].todo
          /\ next.asked \subseteq job[j].asked
          /\ next.at = "mark" => next.marks # {}
          /\ next.marks \subseteq job[j].marks /\ next.mark \subseteq job[j].mark
    <3>1. CASE job[j].marks = {}
      BY <1>1, <1>5, <3>1, FinishedType
    <3>2. CASE job[j].marks # {}
      <4> DEFINE next == [job[j] EXCEPT !.at = "mark", !.mark = {}, !.row = NoDelivery]
      <4>1. job' = [job EXCEPT ![j] = next]
        BY <1>1, <1>5, <3>2
      <4>2. NoDelivery \in Delivery
        BY DEF NoDelivery, Delivery
      <4>3. /\ next \in Job /\ next.at = "mark" /\ next.todo = job[j].todo
            /\ next.asked = job[j].asked /\ next.marks = job[j].marks /\ next.mark = {}
        BY <4>2, JobType DEF Job
      <4> HIDE DEF next
      <4> QED BY <3>2, <4>1, <4>3
    <3> QED BY <3>1, <3>2
  <2>3. /\ new \in Delivery
        /\ new.status # "absent"
        /\ new.ticket \in {delivery[k].ticket, m.ticket}
        /\ new.status \in {delivery[k].status, m.status}
    <3>1. delivery[k] \in Delivery /\ job[j].row \in Delivery
      BY <1>3, JobType DEF Typed
    <3> HIDE DEF k
    <3>2. /\ new.ticket \in {delivery[k].ticket, m.ticket}
          /\ new.status \in {delivery[k].status, m.status}
      BY <3>1 DEF Written, Flushed
    <3>3. new \in Delivery
      BY <1>3, <3>1 DEF Written, Flushed, Mark, Delivery
    <3>4. m.status # "absent"
      BY <1>3 DEF Mark
    <3> QED BY <1>5, <3>2, <3>3, <3>4
  <2> HIDE DEF new
  <2>4. device' \in [Devices -> DeviceStatus]
    BY <2>1 DEF Typed, DeviceStatus
  <2>5. Typed'
    BY <1>2, <2>1, <2>2, <2>3, <2>4 DEF Typed
  <2>6. \A i \in Processes : job'[i] = IF i = j THEN next ELSE job[i]
    BY <2>2 DEF Typed
  <2>7. Known'
    BY <1>2, <2>2, <2>6 DEF Known
  <2>8. \A x \in Deliveries : delivery'[x] = IF x = k THEN new ELSE delivery[x]
    BY <2>1 DEF Typed
  <2>9. Registered'
    <3> SUFFICES ASSUME NEW p \in Proposals, NEW d \in Devices,
                        delivery'[<<p, d>>].status # "absent"
                 PROVE  p \in created /\ device'[d] \in {"active", "disabled"}
      BY <1>2 DEF Registered
    <3>1. <<p, d>> \in Deliveries
      BY DEF Deliveries
    <3>2. delivery[<<p, d>>].status # "absent"
      BY <1>5, <2>8, <3>1
    <3>3. p \in created /\ device[d] \in {"active", "disabled"}
      BY <3>2 DEF Registered
    <3> QED BY <2>1, <3>3 DEF Typed
  <2>10. TicketsTrue'
    <3>1. \A x \in Deliveries : delivery'[x].ticket \in {0} \cup Sent(x[1], x[2])
      BY <1>3, <2>3, <2>8 DEF TicketsTrue, MarkTrue
    <3>2. \A i \in Processes : /\ \A a \in job'[i].asked : a[3] \in Sent(a[1], a[2])
                               /\ \A x \in job'[i].marks \cup job'[i].mark : MarkTrue(x)
      BY <2>2, <2>6 DEF TicketsTrue
    <3> QED BY <1>2, <3>1, <3>2 DEF TicketsTrue, MarkTrue, Sent, Received_
  <2>11. DeliveredIsTrue'
    <3> SUFFICES ASSUME NEW x \in Deliveries, delivery'[x].status = "delivered"
                 PROVE  \E n \in DOMAIN push[x] : push[x][n] = "ok"
      BY <1>2 DEF DeliveredIsTrue, Deliveries
    <3>1. CASE delivery[x].status = "delivered"
      BY <3>1 DEF DeliveredIsTrue, Deliveries
    <3>2. CASE x = k /\ m.status = "delivered"
      <4>1. DOMAIN push[k] = Sent(m.proposal, m.device) /\ push[k] = push[<<m.proposal, m.device>>]
        BY <1>3, LenType DEF Sent
      <4> HIDE DEF k
      <4> QED BY <1>3, <3>2, <4>1 DEF MarkTrue, Received_
    <3> QED BY <2>3, <2>8, <3>1, <3>2
  <2> QED BY <2>5, <2>7, <2>9, <2>10, <2>11
<1> QED BY <1>4, <1>5

(* A step that extends the log and leaves its process with new marks.      *)
LEMMA MarksInv ==
  ASSUME IndInv, NEW j \in Processes, NEW next \in Job, job' = [job EXCEPT ![j] = next],
         Grows, UNCHANGED <<device, wanted, delivery, created, events>>,
         next.at \in {"idle", "mark"}, next.at = "mark" => next.marks # {},
         next.todo \subseteq job[j].todo, next.asked \subseteq job[j].asked,
         \A m \in next.marks \cup next.mark : m \in job[j].marks \cup job[j].mark \/ MarkTrue(m)'
  PROVE  IndInv'
<1> USE DEF IndInv
<1>1. Typed'
  BY DEF Typed, Grows
<1>2. \A i \in Processes : job'[i] = IF i = j THEN next ELSE job[i]
  BY DEF Typed
<1>3. Registered' /\ Known'
  BY <1>2 DEF Registered, Known
<1>4. TicketsTrue' /\ DeliveredIsTrue'
  BY <1>2, TicketsKept
<1> QED BY <1>1, <1>3, <1>4

LEMMA LoggedGrows ==
  ASSUME Typed, NEW p \in Proposals, NEW batch \in SUBSET Devices,
         NEW answer \in [batch -> {"awaited", "error", "unregistered"}],
         push' = Logged(p, answer)
  PROVE  /\ Grows
         /\ \A d \in batch : Len(push'[<<p, d>>]) = Len(push[<<p, d>>]) + 1
<1>1. \A k \in Deliveries : push[k] \in Seq(Receipt)
  BY DEF Typed
<1>2. ASSUME NEW k \in Deliveries, NEW x \in Receipt
      PROVE  /\ Append(push[k], x) \in Seq(Receipt)
             /\ Len(Append(push[k], x)) = Len(push[k]) + 1
             /\ \A n \in 1 .. Len(push[k]) : Append(push[k], x)[n] = push[k][n]
  BY <1>1, AppendProperties
<1>3. \A d \in batch : answer[d] \in Receipt /\ d \in Devices
  BY DEF Receipt
<1>4. push' = [k \in Deliveries |-> IF k[1] = p /\ k[2] \in batch
                                      THEN Append(push[k], answer[k[2]]) ELSE push[k]]
  BY DEF Logged, Deliveries
<1>5. \A k \in Deliveries : Len(push[k]) \in Nat
  BY <1>1, LenProperties
<1>6. push' \in [Deliveries -> Seq(Receipt)]
  BY <1>1, <1>2, <1>3, <1>4
<1>7. Grows
  BY <1>2, <1>3, <1>4, <1>5, <1>6 DEF Grows
<1>8. \A d \in batch : <<p, d>> \in Deliveries
  BY DEF Deliveries
<1> QED BY <1>2, <1>3, <1>4, <1>7, <1>8

LEMMA PostInv ==
  ASSUME IndInv, NEW j \in Processes, Post(j)
  PROVE  IndInv'
<1> USE DEF IndInv
<1> DEFINE p == job[j].proposal
           batch == job[j].batch
<1>1. /\ job[j].at = "post" /\ p \in Proposals /\ batch \subseteq Devices /\ batch # {}
      /\ UNCHANGED <<device, wanted, delivery, created, events>>
  BY JobType DEF Post, Known, Typed
<1>2. PICK answer \in [batch -> {"awaited", "error", "unregistered"}] :
        /\ push' = Logged(p, answer)
        /\ job' = [job EXCEPT ![j].at = "mark", ![j].batch = {},
                              ![j].marks = {TicketMark(p, d, answer) : d \in batch}]
  BY DEF Post
<1> DEFINE marks == {TicketMark(p, d, answer) : d \in batch}
           next == [job[j] EXCEPT !.at = "mark", !.batch = {}, !.marks = marks]
<1>3. /\ Grows
      /\ \A d \in batch : Len(push'[<<p, d>>]) = Len(push[<<p, d>>]) + 1
  BY <1>1, <1>2, LoggedGrows
<1>4. \A d \in batch : Len(push[<<p, d>>]) \in Nat
  BY <1>1, LenType DEF Deliveries
<1>5. ASSUME NEW m \in marks PROVE m \in Mark /\ MarkTrue(m)'
  <2>1. PICK d \in batch : m = TicketMark(p, d, answer)
    BY DEF marks
  <2>2. /\ m.proposal = p /\ m.device = d /\ m.status \in {"ticketed", "failed"}
        /\ m.ticket \in {0, Len(push[<<p, d>>]) + 1} /\ m \in Mark
    BY <1>1, <1>4, <2>1 DEF TicketMark, Mark
  <2> QED BY <1>3, <1>4, <2>2 DEF MarkTrue, Sent
<1>6. marks # {} /\ marks \subseteq Mark
  BY <1>1, <1>5 DEF marks
<1>7. job' = [job EXCEPT ![j] = next]
  BY <1>2, JobType DEF Typed
<1> HIDE DEF marks
<1>8. /\ next \in Job /\ next.at = "mark" /\ next.marks = marks /\ next.mark = job[j].mark
      /\ next.todo = job[j].todo /\ next.asked = job[j].asked
  BY <1>6, JobType DEF Job
<1> HIDE DEF next
<1> QED BY <1>1, <1>3, <1>5, <1>6, <1>7, <1>8, MarksInv

LEMMA FetchInv ==
  ASSUME IndInv, Fetch
  PROVE  IndInv'
<1> USE DEF IndInv
<1> DEFINE asked == job["worker"].asked
<1>0. "worker" \in Processes
  BY DEF Processes
<1>1. PICK receipts \in Receipts :
        /\ push' = [k \in Deliveries |-> [n \in DOMAIN push[k] |->
             IF <<k[1], k[2], n>> \in DOMAIN receipts THEN receipts[<<k[1], k[2], n>>]
             ELSE push[k][n]]]
        /\ job' = [job EXCEPT !["worker"] =
             IF Collected(receipts) = {} THEN Idle
             ELSE [Idle EXCEPT !.at = "mark",
                               !.marks = {ReceiptMark(a, receipts[a]) : a \in Collected(receipts)}]]
  BY DEF Fetch, Deliveries
<1>2. UNCHANGED <<device, wanted, delivery, created, events>>
  BY DEF Fetch
<1>3. /\ receipts \in [asked -> Receipt] /\ asked \subseteq Proposals \X Devices \X Nat
      /\ \A a \in asked : push[<<a[1], a[2]>>][a[3]] # "awaited" =>
                            receipts[a] = push[<<a[1], a[2]>>][a[3]]
  BY <1>0, JobType DEF Receipts, Receipt
<1>4. \A k \in Deliveries : /\ Len(push[k]) \in Nat /\ push[k] \in Seq(Receipt)
                            /\ DOMAIN push[k] = 1 .. Len(push[k])
                            /\ k[1] \in Proposals /\ k[2] \in Devices /\ k = <<k[1], k[2]>>
  BY LenType DEF Typed, Deliveries
<1>5. ASSUME NEW k \in Deliveries
      PROVE  /\ push'[k] \in Seq(Receipt) /\ Len(push'[k]) = Len(push[k])
             /\ \A n \in 1 .. Len(push[k]) : push'[k][n] =
                  IF <<k[1], k[2], n>> \in asked THEN receipts[<<k[1], k[2], n>>] ELSE push[k][n]
  <2>1. push'[k] = [n \in 1 .. Len(push[k]) |->
           IF <<k[1], k[2], n>> \in asked THEN receipts[<<k[1], k[2], n>>] ELSE push[k][n]]
    BY <1>1, <1>3, <1>4
  <2>2. \A n \in 1 .. Len(push[k]) : push[k][n] \in Receipt
    BY <1>4, ElementOfSeq
  <2>3. push'[k] \in [1 .. Len(push[k]) -> Receipt]
    BY <1>3, <2>1, <2>2
  <2>4. push'[k] \in Seq(Receipt)
    BY <1>4, <2>3, SeqDef
  <2>5. Len(push'[k]) = Len(push[k])
    BY <1>4, <2>3, <2>4, LenProperties
  <2> QED BY <2>1, <2>4, <2>5
<1>6. Grows
  <2>1. push' \in [Deliveries -> Seq(Receipt)]
    BY <1>1, <1>5
  <2>2. ASSUME NEW k \in Deliveries, NEW n \in 1 .. Len(push[k]), push[k][n] = "ok"
        PROVE  push'[k][n] = "ok"
    <3>1. CASE <<k[1], k[2], n>> \in asked
      BY <1>3, <1>4, <1>5, <2>2, <3>1
    <3>2. CASE <<k[1], k[2], n>> \notin asked
      BY <1>5, <2>2, <3>2
    <3> QED BY <3>1, <3>2
  <2> QED BY <1>4, <1>5, <2>1, <2>2 DEF Grows
<1> DEFINE marks == {ReceiptMark(a, receipts[a]) : a \in Collected(receipts)}
<1>7. ASSUME NEW m \in marks PROVE m \in Mark /\ MarkTrue(m)'
  <2>1. PICK a \in asked : m = ReceiptMark(a, receipts[a])
    BY <1>3 DEF marks, Collected
  <2>2. /\ m.proposal = a[1] /\ m.device = a[2] /\ m.ticket = a[3] /\ m \in Mark
        /\ m.status = "delivered" => receipts[a] = "ok"
    BY <1>3, <2>1 DEF ReceiptMark, Received, Mark
  <2>3. /\ a[3] \in Sent(a[1], a[2]) /\ <<a[1], a[2]>> \in Deliveries
        /\ a = <<a[1], a[2], a[3]>>
    BY <1>0, <1>3 DEF TicketsTrue, Deliveries
  <2>4. /\ a[3] \in 1 .. Len(push'[<<a[1], a[2]>>])
        /\ push'[<<a[1], a[2]>>][a[3]] = receipts[a]
    BY <1>5, <2>3 DEF Sent
  <2> QED BY <2>2, <2>4 DEF MarkTrue, Sent, Received_
<1>8. CASE Collected(receipts) = {}
  <2>1. job' = [job EXCEPT !["worker"] = Idle]
    BY <1>1, <1>8
  <2>2. /\ Idle.at = "idle" /\ Idle.todo = {} /\ Idle.asked = {} /\ Idle.marks = {}
        /\ Idle.mark = {}
    BY DEF Idle
  <2> QED BY <1>0, <1>2, <1>6, <2>1, <2>2, IdleType, MarksInv
<1>9. CASE Collected(receipts) # {}
  <2> DEFINE next == [Idle EXCEPT !.at = "mark", !.marks = marks]
  <2>1. job' = [job EXCEPT !["worker"] = next]
    BY <1>1, <1>9
  <2>2. marks # {} /\ marks \subseteq Mark
    BY <1>7, <1>9
  <2> HIDE DEF marks
  <2>3. /\ next \in Job /\ next.at = "mark" /\ next.marks = marks /\ next.mark = {}
        /\ next.todo = {} /\ next.asked = {}
    BY <2>2, IdleType DEF Job, Idle
  <2> HIDE DEF next
  <2> QED BY <1>0, <1>2, <1>6, <1>7, <2>1, <2>2, <2>3, MarksInv
<1> QED BY <1>8, <1>9

LEMMA CycleInv ==
  ASSUME IndInv, StartCycle \/ RetryNext \/ ListTicketed \/ FetchFails
  PROVE  IndInv'
<1> USE DEF IndInv
<1>0. "worker" \in Processes /\ created \subseteq Proposals /\ events \in 0 .. MaxEvents
  BY DEF Processes, Typed
<1>1. CASE StartCycle
  <2>1. PICK some \in SUBSET FailedProposals :
          job' = [job EXCEPT !["worker"] = [Idle EXCEPT !.at = "retry", !.todo = some]]
    BY <1>1 DEF StartCycle
  <2> DEFINE next == [Idle EXCEPT !.at = "retry", !.todo = some]
  <2>2. some \subseteq created
    BY DEF FailedProposals
  <2>3. /\ next \in Job /\ next.at = "retry" /\ next.todo = some /\ next.asked = {}
        /\ next.marks = {} /\ next.mark = {}
    BY <1>0, <2>2, IdleType DEF Job, Idle
  <2>4. job' = [job EXCEPT !["worker"] = next]
    BY <2>1
  <2> HIDE DEF next
  <2> QED BY <1>0, <1>1, <2>2, <2>3, <2>4, JobInv DEF StartCycle
<1>2. CASE RetryNext
  <2>1. PICK p \in job["worker"].todo :
          job' = [job EXCEPT !["worker"].at = "notify", !["worker"].proposal = p,
                             !["worker"].todo = @ \ {p}]
    BY <1>2 DEF RetryNext
  <2> DEFINE next == [job["worker"] EXCEPT !.at = "notify", !.proposal = p,
                                           !.todo = job["worker"].todo \ {p}]
  <2>2. job["worker"].todo \subseteq created /\ job["worker"] \in Job
    BY <1>0, JobType DEF Known
  <2>3. /\ next \in Job /\ next.at = "notify" /\ next.todo \subseteq job["worker"].todo
        /\ next.proposal = p /\ next.asked = job["worker"].asked
        /\ next.marks = job["worker"].marks /\ next.mark = job["worker"].mark
    BY <1>0, <2>2 DEF Job
  <2>4. job' = [job EXCEPT !["worker"] = next]
    BY <1>0, <2>1, <2>2 DEF Typed, Job
  <2>5. \A a \in job["worker"].asked : a[3] \in Sent(a[1], a[2])
    BY <1>0 DEF TicketsTrue
  <2> HIDE DEF next
  <2> QED BY <1>0, <1>2, <2>2, <2>3, <2>4, <2>5, JobInv DEF RetryNext
<1>3. CASE ListTicketed
  <2>1. CASE Ticketed = {}
    BY <1>0, <1>3, <2>1, StopInv DEF ListTicketed
  <2>2. CASE Ticketed # {}
    <3> DEFINE asked == {<<k[1], k[2], delivery[k].ticket>> : k \in Ticketed}
               next == [Idle EXCEPT !.at = "fetch", !.asked = asked]
    <3>1. job' = [job EXCEPT !["worker"] = next]
      BY <1>3, <2>2 DEF ListTicketed
    <3>2. ASSUME NEW a \in asked
          PROVE  a \in Proposals \X Devices \X Nat /\ a[3] \in Sent(a[1], a[2])
      <4>1. PICK k \in Ticketed : a = <<k[1], k[2], delivery[k].ticket>>
        BY DEF asked
      <4>2. /\ k \in Deliveries /\ delivery[k].ticket \in {0} \cup Sent(k[1], k[2])
            /\ delivery[k].ticket # 0 /\ delivery[k].ticket \in Nat
        BY DEF Ticketed, TicketsTrue, Deliveries, Typed, Delivery
      <4> QED BY <4>1, <4>2 DEF Deliveries
    <3>3. asked \subseteq Proposals \X Devices \X Nat
      BY <3>2
    <3> HIDE DEF asked
    <3>4. /\ next \in Job /\ next.at = "fetch" /\ next.asked = asked /\ next.todo = {}
          /\ next.marks = {} /\ next.mark = {}
      BY <3>3, IdleType DEF Job, Idle
    <3> HIDE DEF next
    <3> QED BY <1>0, <1>3, <3>1, <3>2, <3>4, JobInv DEF ListTicketed
  <2> QED BY <2>1, <2>2
<1>4. CASE FetchFails
  BY <1>0, <1>4, StopInv DEF FetchFails, Aborted
<1> QED BY <1>1, <1>2, <1>3, <1>4

LEMMA NextInv == IndInv /\ [Next]_vars => IndInv'
<1> SUFFICES ASSUME IndInv, [Next]_vars PROVE IndInv'
  OBVIOUS
<1>1. ASSUME NEW j \in Processes, Work(j) PROVE IndInv'
  BY <1>1, NotifyInv, PostInv, LoadInv, CommitInv DEF Work
<1>2. ASSUME NEW j \in Processes, Crash(j) PROVE IndInv'
  <2>1. events' \in 0 .. MaxEvents
    BY <1>2, NotificationAssumption DEF Crash, Event, IndInv, Typed
  <2> QED BY <1>2, <2>1, StopInv DEF Crash, Aborted
<1>3. CASE UNCHANGED vars
  BY <1>3 DEF vars, IndInv, Typed, Registered, Known, TicketsTrue, MarkTrue, Sent, Received_,
     DeliveredIsTrue
<1>4. CASE SetFrequency
  <2>1. Typed'
    BY <1>4, NotificationAssumption DEF SetFrequency, Event, IndInv, Typed
  <2>2. TicketsTrue' /\ DeliveredIsTrue'
    BY <1>4, UnchangedGrows, TicketsKept DEF SetFrequency, IndInv
  <2> QED BY <1>4, <2>1, <2>2 DEF SetFrequency, Registered, Known, IndInv
<1> QED BY <1>1, <1>2, <1>3, <1>4, UserInv, CreateInv, FetchInv, CycleInv DEF Next, Worker, Processes

-----------------------------------------------------------------------------
(* The theorems.                                                           *)

(* The invariant holds in every reachable state.                           *)
THEOREM Invariance == Spec => []IndInv
  BY InitInv, NextInv, PTL DEF Spec

(* Rows and processes keep their types, and a delivery whose device was    *)
(* removed does not come back.                                             *)
THEOREM TypeCorrect == Spec => []TypeOK
<1>1. IndInv => TypeOK
  BY JobType DEF IndInv, Typed, Registered, TypeOK, Deliveries, Job
<1> QED BY <1>1, Invariance, PTL

(* A delivery reads delivered only if Expo has reported one of its own     *)
(* pushes received.                                                        *)
THEOREM DeliveryIsTrue == Spec => []DeliveredIsTrue
<1>1. IndInv => DeliveredIsTrue
  BY DEF IndInv
<1> QED BY <1>1, Invariance, PTL

-----------------------------------------------------------------------------
(* How often a device is pushed. A process is sending delivery k from the  *)
(* batch it prepared to the mark that counts the attempt.                  *)

Posting(j, k) == k[1] = job[j].proposal /\ k[2] \in job[j].batch

Marks(j) == job[j].marks \cup job[j].mark

About(m, k) == m.counts /\ m.proposal = k[1] /\ m.device = k[2]

Sending(j, k) == Posting(j, k) \/ \E m \in Marks(j) : About(m, k)

Loaded(j, k) == \E m \in job[j].mark : About(m, k)

(* The worker has a row in hand that is gone: it will give its cycle up,   *)
(* and with it the counts it has not made.                                 *)
Doomed ==
  \/ \E d \in job["worker"].batch : delivery[<<job["worker"].proposal, d>>].status = "absent"
  \/ \E m \in Marks("worker") : delivery[<<m.proposal, m.device>>].status = "absent"

One(b) == IF b THEN 1 ELSE 0

(* The pushes of k, sent or about to be.                                   *)
Pushes(k) == Len(push[k]) + One(Posting("market", k)) + One(Posting("worker", k))

(* An attempt the worker will count, and one it can still count.           *)
Due(k)  == One(Sending("worker", k))
Sure(k) == One(Sending("worker", k) /\ ~Doomed)

(* While the market worker sends k, every push but its own is counted.     *)
BothSend(k) ==
  LET a == delivery[k].attempts
  IN  /\ a + Due(k) <= MaxAttempts
      /\ Pushes(k) <= a + Sure(k) + 1 + events
      /\ Loaded("worker", k) => job["worker"].row.attempts = a
      /\ Loaded("market", k) => job["market"].row.attempts <= a

(* Once it does not, its write may have undone the counts made before it,  *)
(* which are at most MaxAttempts.                                          *)
OneSends(k) ==
  LET a == delivery[k].attempts
      row == job["worker"].row
  IN  /\ a + Due(k) <= MaxAttempts + 1
      /\ Pushes(k) <= a + Sure(k) + MaxAttempts + events
      /\ Loaded("worker", k) =>
           row.attempts <= MaxAttempts /\ Pushes(k) <= row.attempts + 1 + MaxAttempts + events

Count(k) ==
  /\ Pushes(k) <= 2 * MaxAttempts + events
  /\ delivery[k].status # "absent" /\ Sending("market", k) => BothSend(k)
  /\ delivery[k].status # "absent" /\ ~Sending("market", k) => OneSends(k)

Counting == \A k \in Deliveries : Count(k)

(* A row that never was there has no push, and is in no process's hands.   *)
Untouched ==
  \A k \in Deliveries :
    delivery[k].status = "absent" =>
      /\ delivery[k].attempts = 0
      /\ device[k[2]] # "removed" =>
           Len(push[k]) = 0 /\ \A j \in Processes : ~Sending(j, k)

(* The market worker is the first to notify a proposal.                    *)
First ==
  job["market"].at = "notify" =>
    LET p == job["market"].proposal
    IN  /\ \A d \in Devices : delivery[<<p, d>>].status = "absent"
        /\ p \notin job["worker"].todo
        /\ job["worker"].at \in {"notify", "post"} => job["worker"].proposal # p

(* A batch is there to be posted, and its marks are made one by one.       *)
Shaped ==
  \A j \in Processes :
    /\ job[j].at # "post" => job[j].batch = {}
    /\ job[j].at \notin {"mark", "loaded"} => job[j].marks = {}
    /\ job[j].at # "loaded" => job[j].mark = {}
    /\ \A m \in job[j].mark : job[j].mark = {m} /\ m \notin job[j].marks
    /\ \A m \in Marks(j), n \in Marks(j) :
         m.counts /\ n.counts /\ m.proposal = n.proposal /\ m.device = n.device => m = n

CountInv == Counting /\ Untouched /\ First /\ Shaped

(* What the counts are made of are numbers, before a step and after it.    *)
LEMMA Numbers ==
  ASSUME Typed
  PROVE  /\ MaxAttempts \in Nat /\ MaxAttempts >= 1 /\ events \in Nat
         /\ \A k \in Deliveries : Len(push[k]) \in Nat /\ delivery[k].attempts \in Nat
         /\ \A j \in Processes : job[j].row.attempts \in Nat
<1>1. \A k \in Deliveries : Len(push[k]) \in Nat
  BY LenType
<1>2. \A k \in Deliveries : delivery[k].attempts \in Nat
  BY DEF Typed, Delivery
<1>3. \A j \in Processes : job[j].row.attempts \in Nat
  BY JobType DEF Delivery
<1> QED
  BY <1>1, <1>2, <1>3, NotificationAssumption DEF Typed

LEMMA NumbersNext ==
  ASSUME Typed'
  PROVE  /\ events' \in Nat
         /\ \A k \in Deliveries : Len(push'[k]) \in Nat /\ delivery'[k].attempts \in Nat
         /\ \A j \in Processes : job'[j].row.attempts \in Nat
<1>1. \A k \in Deliveries : Len(push'[k]) \in Nat
  BY LenProperties DEF Typed
<1>2. \A k \in Deliveries : delivery'[k].attempts \in Nat
  BY DEF Typed, Delivery
<1>3. \A j \in Processes : job'[j].row.attempts \in Nat
  BY DEF Typed, Job, Delivery
<1> QED
  BY <1>1, <1>2, <1>3 DEF Typed

(* What a process sends counts once, or not at all.                        *)
LEMMA OneType ==
  ASSUME NEW k
  PROVE  /\ One(Posting("market", k)) \in {0, 1} /\ One(Posting("worker", k)) \in {0, 1}
         /\ Due(k) \in {0, 1} /\ Sure(k) \in {0, 1} /\ Sure(k) <= Due(k)
         /\ ~Sending("worker", k) => Due(k) = 0 /\ Sure(k) = 0
         /\ Sending("worker", k) => Due(k) = 1
         /\ Doomed => Sure(k) = 0
  BY DEF One, Due, Sure

LEMMA OneTypeNext ==
  ASSUME NEW k
  PROVE  /\ One(Posting("market", k)') \in {0, 1} /\ One(Posting("worker", k)') \in {0, 1}
         /\ Due(k)' \in {0, 1} /\ Sure(k)' \in {0, 1} /\ Sure(k)' <= Due(k)'
         /\ ~Sending("worker", k)' => Due(k)' = 0 /\ Sure(k)' = 0
         /\ Sending("worker", k)' => Due(k)' = 1
         /\ Sending("worker", k)' /\ ~Doomed' => Sure(k)' = 1
  BY DEF One, Due, Sure

LEMMA PushesType ==
  ASSUME Typed, NEW k \in Deliveries
  PROVE  Pushes(k) \in Nat
<1>1. Len(push[k]) \in Nat
  BY Numbers
<1>2. One(Posting("market", k)) \in {0, 1} /\ One(Posting("worker", k)) \in {0, 1}
  BY OneType
<1> QED
  BY <1>1, <1>2 DEF Pushes

LEMMA PushesTypeNext ==
  ASSUME Typed', NEW k \in Deliveries
  PROVE  Pushes(k)' \in Nat
<1>1. Len(push'[k]) \in Nat
  BY NumbersNext
<1>2. One(Posting("market", k)') \in {0, 1} /\ One(Posting("worker", k)') \in {0, 1}
  BY OneTypeNext
<1> QED
  BY <1>1, <1>2 DEF Pushes

(* A step neither counts nor adds a push of k, and a row that it loads     *)
(* holds the attempts made.                                                *)
Kept(k) ==
  /\ delivery'[k].attempts = delivery[k].attempts
  /\ delivery'[k].status = "absent" <=> delivery[k].status = "absent"
  /\ events <= events'
  /\ Pushes(k)' <= Pushes(k)
  /\ \A j \in Processes : Sending(j, k)' <=> Sending(j, k)
  /\ Doomed' => Doomed \/ ~Sending("worker", k)
  /\ \A j \in Processes :
       Loaded(j, k)' => \/ Loaded(j, k) /\ job'[j].row = job[j].row
                        \/ Sending(j, k) /\ job'[j].row = delivery[k]

LEMMA CountKept ==
  ASSUME Typed, Typed', NEW k \in Deliveries, Count(k), Kept(k)
  PROVE  Count(k)'
<1> DEFINE a == delivery[k].attempts
           rw == job["worker"].row.attempts
           rm == job["market"].row.attempts
           e == events
           f == events'
<1>1. /\ MaxAttempts \in Nat /\ MaxAttempts >= 1 /\ e \in Nat /\ f \in Nat /\ e <= f
      /\ a \in Nat /\ rw \in Nat /\ rm \in Nat
  BY Numbers, NumbersNext DEF Processes, Kept
<1>2. Pushes(k) \in Nat /\ Pushes(k)' \in Nat /\ Pushes(k)' <= Pushes(k)
  BY PushesType, PushesTypeNext DEF Kept
<1>3. /\ Sending("market", k)' <=> Sending("market", k)
      /\ Sending("worker", k)' <=> Sending("worker", k)
      /\ delivery'[k].attempts = a
      /\ delivery'[k].status = "absent" <=> delivery[k].status = "absent"
  BY DEF Kept, Processes
<1>4. /\ Due(k)' = Due(k) /\ Sure(k) <= Sure(k)'
      /\ Due(k) \in {0, 1} /\ Sure(k) \in {0, 1} /\ Sure(k)' \in {0, 1}
  <2>1. Due(k)' = Due(k)
    BY <1>3 DEF Due, One
  <2>2. Sending("worker", k) /\ ~Doomed => Sending("worker", k)' /\ ~Doomed'
    BY <1>3 DEF Kept
  <2>3. Sure(k) <= Sure(k)'
    BY <2>2 DEF Sure, One
  <2> QED
    BY <2>1, <2>3, OneType, OneTypeNext
<1>5. /\ Loaded("worker", k)' => \/ Loaded("worker", k) /\ job'["worker"].row.attempts = rw
                                 \/ Due(k) = 1 /\ job'["worker"].row.attempts = a
      /\ Loaded("market", k)' => \/ Loaded("market", k) /\ job'["market"].row.attempts = rm
                                 \/ job'["market"].row.attempts = a
  BY DEF Kept, Processes, Due, One
<1> HIDE DEF a, rw, rm, e, f
<1>6. ASSUME delivery'[k].status # "absent", Sending("market", k)'
      PROVE  BothSend(k)'
  <2>1. BothSend(k)
    BY <1>3, <1>6 DEF Count
  <2>2. /\ a + Due(k) <= MaxAttempts /\ Pushes(k) <= a + Sure(k) + 1 + e
        /\ Loaded("worker", k) => rw = a
        /\ Loaded("market", k) => rm <= a
    BY <2>1 DEF BothSend, a, rw, rm, e
  <2>3. a + Due(k)' <= MaxAttempts
    BY <1>4, <2>2
  <2>4. Pushes(k)' <= a + Sure(k)' + 1 + f
    BY <1>1, <1>2, <1>4, <2>2
  <2>5. /\ Loaded("worker", k)' => job'["worker"].row.attempts = a
        /\ Loaded("market", k)' => job'["market"].row.attempts <= a
    BY <1>1, <1>5, <2>2
  <2> QED
    BY <1>3, <2>3, <2>4, <2>5 DEF BothSend, f
<1>7. ASSUME delivery'[k].status # "absent", ~Sending("market", k)'
      PROVE  OneSends(k)'
  <2>1. OneSends(k)
    BY <1>3, <1>7 DEF Count
  <2>2. /\ a + Due(k) <= MaxAttempts + 1 /\ Pushes(k) <= a + Sure(k) + MaxAttempts + e
        /\ Loaded("worker", k) => rw <= MaxAttempts /\ Pushes(k) <= rw + 1 + MaxAttempts + e
    BY <2>1 DEF OneSends, a, rw, e
  <2>3. a + Due(k)' <= MaxAttempts + 1
    BY <1>4, <2>2
  <2>4. Pushes(k)' <= a + Sure(k)' + MaxAttempts + f
    BY <1>1, <1>2, <1>4, <2>2
  <2>5. Pushes(k) <= rw + 1 + MaxAttempts + e => Pushes(k)' <= rw + 1 + MaxAttempts + f
    BY <1>1, <1>2
  <2>6. Pushes(k)' <= a + 1 + MaxAttempts + f
    BY <1>1, <1>2, <1>4, <2>4
  <2>7. Due(k) = 1 => a <= MaxAttempts
    BY <1>1, <2>2
  <2>8. Loaded("worker", k)' => /\ job'["worker"].row.attempts <= MaxAttempts
                                /\ Pushes(k)' <= job'["worker"].row.attempts + 1 + MaxAttempts + f
    <3>1. CASE Loaded("worker", k) /\ job'["worker"].row.attempts = rw
      BY <2>2, <2>5, <3>1
    <3>2. CASE Due(k) = 1 /\ job'["worker"].row.attempts = a
      BY <2>6, <2>7, <3>2
    <3> QED
      BY <1>5, <3>1, <3>2
  <2> QED
    BY <1>3, <2>3, <2>4, <2>8 DEF OneSends, f
<1>8. Pushes(k)' <= 2 * MaxAttempts + f
  <2>1. Pushes(k) <= 2 * MaxAttempts + e
    BY DEF Count, e
  <2> QED
    BY <1>1, <1>2, <2>1
<1> QED
  BY <1>6, <1>7, <1>8 DEF Count, f

(* A process whose job stays sends what it sent.                           *)
LEMMA SameJob ==
  ASSUME NEW i, job'[i] = job[i], NEW k
  PROVE  /\ Posting(i, k)' <=> Posting(i, k)
         /\ Sending(i, k)' <=> Sending(i, k)
         /\ Loaded(i, k)' <=> Loaded(i, k)
  BY DEF Posting, Sending, Loaded, Marks

(* What Shaped says of one process.                                        *)
LEMMA Shapes ==
  ASSUME Shaped, NEW j \in Processes
  PROVE  /\ job[j].at # "post" => job[j].batch = {}
         /\ job[j].at \notin {"mark", "loaded"} => job[j].marks = {}
         /\ job[j].at # "loaded" => job[j].mark = {}
         /\ \A m \in job[j].mark : job[j].mark = {m} /\ m \notin job[j].marks
         /\ \A m \in Marks(j), n \in Marks(j) :
              m.counts /\ n.counts /\ m.proposal = n.proposal /\ m.device = n.device => m = n
  BY DEF Shaped

(* One process's new job has the shape.                                    *)
LEMMA ShapeKept ==
  ASSUME Shaped, NEW j \in Processes, NEW next,
         \A i \in Processes : job'[i] = IF i = j THEN next ELSE job[i],
         next.at # "post" => next.batch = {},
         next.at \notin {"mark", "loaded"} => next.marks = {},
         next.at # "loaded" => next.mark = {},
         \A m \in next.mark : next.mark = {m} /\ m \notin next.marks,
         \A m \in next.marks \cup next.mark, n \in next.marks \cup next.mark :
           m.counts /\ n.counts /\ m.proposal = n.proposal /\ m.device = n.device => m = n
  PROVE  Shaped'
<1>1. ASSUME NEW i \in Processes
      PROVE  /\ job'[i].at # "post" => job'[i].batch = {}
             /\ job'[i].at \notin {"mark", "loaded"} => job'[i].marks = {}
             /\ job'[i].at # "loaded" => job'[i].mark = {}
             /\ \A m \in job'[i].mark : job'[i].mark = {m} /\ m \notin job'[i].marks
             /\ \A m \in job'[i].marks \cup job'[i].mark, n \in job'[i].marks \cup job'[i].mark :
                  m.counts /\ n.counts /\ m.proposal = n.proposal /\ m.device = n.device => m = n
  <2>1. CASE i = j
    BY <2>1
  <2>2. CASE i # j
    <3>1. job'[i] = job[i]
      BY <2>2
    <3> QED
      BY <3>1, Shapes DEF Marks
  <2> QED
    BY <2>1, <2>2
<1> QED
  BY <1>1 DEF Shaped, Marks

(* The market worker stays the first to notify its proposal.               *)
LEMMA FirstKept ==
  ASSUME First, NEW j \in Processes, NEW next,
         \A i \in Processes : job'[i] = IF i = j THEN next ELSE job[i],
         \A p \in Proposals, d \in Devices :
           delivery[<<p, d>>].status = "absent" =>
             \/ delivery'[<<p, d>>].status = "absent"
             \/ job[j].at = "notify" /\ p = job[j].proposal,
         job["market"].at = "notify" => job["market"].proposal \in Proposals,
         next.todo \subseteq job[j].todo,
         next.at \in {"notify", "post"} => job[j].at = "notify" /\ next.proposal = job[j].proposal,
         j = "market" => next.at # "notify"
  PROVE  First'
<1> SUFFICES ASSUME job'["market"].at = "notify"
             PROVE  LET p == job'["market"].proposal
                    IN  /\ \A d \in Devices : delivery'[<<p, d>>].status = "absent"
                        /\ p \notin job'["worker"].todo
                        /\ job'["worker"].at \in {"notify", "post"} => job'["worker"].proposal # p
  BY DEF First
<1> DEFINE p == job["market"].proposal
<1>1. j = "worker" /\ job'["market"] = job["market"] /\ job'["worker"] = next
  BY DEF Processes
<1>2. /\ p \in Proposals /\ \A d \in Devices : delivery[<<p, d>>].status = "absent"
      /\ p \notin job["worker"].todo
      /\ job["worker"].at \in {"notify", "post"} => job["worker"].proposal # p
  BY <1>1 DEF First
<1>3. \A d \in Devices : delivery'[<<p, d>>].status = "absent"
  BY <1>1, <1>2
<1> HIDE DEF p
<1>4. /\ p \notin next.todo
      /\ next.at \in {"notify", "post"} => next.proposal # p
  BY <1>1, <1>2
<1> QED
  BY <1>1, <1>3, <1>4 DEF p

(* One event more makes up for a send that was counted as sure.            *)
LEMMA EventCoversSend ==
  ASSUME NEW n \in Nat, NEW a \in Nat, NEW m \in Nat, NEW e \in Nat,
         NEW s \in {0, 1}, NEW t \in {0, 1}, n <= a + s + m + e
  PROVE  n <= a + t + m + (e + 1)
OBVIOUS

(* The user's changes, which add to the events, and delete rows.           *)
LEMMA CascadeCount ==
  ASSUME IndInv, Typed', CountInv, UNCHANGED <<job, push>>, events' = events + 1,
         \A k \in Deliveries :
           \/ delivery'[k] = delivery[k]
           \/ delivery'[k] = NoDelivery /\ device'[k[2]] = "removed",
         \A d \in Devices : device[d] = "removed" => device'[d] = "removed"
  PROVE  CountInv'
<1>0. Typed
  BY DEF IndInv
<1>1. \A i : job'[i] = job[i]
  OBVIOUS
<1>2. ASSUME NEW k \in Deliveries PROVE Count(k)'
  <2> DEFINE a == delivery[k].attempts
             rw == job["worker"].row.attempts
             rm == job["market"].row.attempts
  <2>1. /\ MaxAttempts \in Nat /\ MaxAttempts >= 1 /\ events \in Nat /\ events' = events + 1
        /\ a \in Nat /\ rw \in Nat /\ rm \in Nat /\ Len(push[k]) \in Nat
    BY <1>0, Numbers DEF Processes
  <2>2. Pushes(k) \in Nat /\ Pushes(k)' = Pushes(k)
    <3>1. /\ One(Posting("market", k)') = One(Posting("market", k))
          /\ One(Posting("worker", k)') = One(Posting("worker", k))
      BY <1>1, SameJob DEF One
    <3> QED
      BY <2>1, <3>1, OneType DEF Pushes
  <2>3. /\ Due(k) \in {0, 1} /\ Due(k)' = Due(k)
        /\ Sure(k) \in {0, 1} /\ Sure(k)' \in {0, 1}
    BY <1>1, OneType, OneTypeNext, SameJob DEF Due
  <2>4. Count(k)
    BY DEF CountInv, Counting
  <2>5. Pushes(k)' <= 2 * MaxAttempts + events'
    BY <2>1, <2>2, <2>4 DEF Count
  <2>6. /\ Loaded("worker", k)' <=> Loaded("worker", k)
        /\ Loaded("market", k)' <=> Loaded("market", k)
        /\ Sending("market", k)' <=> Sending("market", k)
    BY <1>1, SameJob
  <2>7. ASSUME delivery'[k].status # "absent" PROVE delivery'[k] = delivery[k]
    BY <2>7 DEF NoDelivery
  <2>8. ASSUME delivery'[k].status # "absent", Sending("market", k)' PROVE BothSend(k)'
    <3>1. BothSend(k) /\ delivery'[k] = delivery[k]
      BY <2>4, <2>6, <2>7, <2>8 DEF Count
    <3>2. a + Due(k) <= MaxAttempts /\ Pushes(k) <= a + Sure(k) + 1 + events
      BY <3>1 DEF BothSend
    <3>3. a + Due(k)' <= MaxAttempts
      BY <2>3, <3>2
    <3>4. Pushes(k)' <= a + Sure(k)' + 1 + events'
      BY <2>1, <2>2, <2>3, <3>2
    <3> QED
      BY <2>6, <3>1, <3>2, <3>3, <3>4 DEF BothSend
  <2>9. ASSUME delivery'[k].status # "absent", ~Sending("market", k)' PROVE OneSends(k)'
    <3>1. OneSends(k) /\ delivery'[k] = delivery[k]
      BY <2>4, <2>6, <2>7, <2>9 DEF Count
    <3>2. /\ a + Due(k) <= MaxAttempts + 1 /\ Pushes(k) <= a + Sure(k) + MaxAttempts + events
          /\ Loaded("worker", k) => rw <= MaxAttempts /\ Pushes(k) <= rw + 1 + MaxAttempts + events
      BY <3>1 DEF OneSends
    <3>3. a + Due(k)' <= MaxAttempts + 1
      BY <2>3, <3>2
    <3>5. Pushes(k)' <= a + Sure(k)' + MaxAttempts + events'
      <4>1. Pushes(k) <= a + Sure(k)' + MaxAttempts + (events + 1)
        <5> HIDE DEF a
        <5> QED
          BY <2>1, <2>2, <2>3, <3>2, EventCoversSend
      <4> QED
        BY <2>1, <2>2, <4>1
    <3>4. Loaded("worker", k)' => rw <= MaxAttempts /\ Pushes(k)' <= rw + 1 + MaxAttempts + events'
      <4>1. Pushes(k) <= rw + 1 + MaxAttempts + events => Pushes(k)' <= rw + 1 + MaxAttempts + events'
        BY <2>1, <2>2
      <4> HIDE DEF rw
      <4> QED
        BY <2>6, <3>2, <4>1
    <3> QED
      BY <3>1, <3>3, <3>4, <3>5 DEF OneSends
  <2> QED
    BY <2>5, <2>8, <2>9 DEF Count
<1>3. Untouched'
  <2> SUFFICES ASSUME NEW k \in Deliveries, delivery'[k].status = "absent"
               PROVE  /\ delivery'[k].attempts = 0
                      /\ device'[k[2]] # "removed" =>
                           Len(push'[k]) = 0 /\ \A j \in Processes : ~Sending(j, k)'
    BY DEF Untouched
  <2>1. CASE delivery'[k] = delivery[k]
    BY <1>1, <2>1, SameJob DEF CountInv, Untouched, Deliveries
  <2>2. CASE delivery'[k] = NoDelivery /\ device'[k[2]] = "removed"
    BY <2>2 DEF NoDelivery
  <2> QED
    BY <2>1, <2>2
<1>4. First'
  <2>1. \A p \in Proposals, d \in Devices :
          delivery[<<p, d>>].status = "absent" => delivery'[<<p, d>>].status = "absent"
    BY DEF Deliveries, NoDelivery
  <2>2. job["market"].at = "notify" => job["market"].proposal \in Proposals
    BY <1>0 DEF IndInv, Known, Typed, Processes
  <2> QED
    BY <2>1, <2>2 DEF CountInv, First
<1>5. Shaped'
  BY DEF CountInv, Shaped, Marks
<1> QED
  BY <1>2, <1>3, <1>4, <1>5 DEF CountInv, Counting

(* A step of a process gives it its next job, and leaves the others theirs. *)
LEMMA JobNext ==
  ASSUME Typed, NEW j \in Processes, NEW next, job' = [job EXCEPT ![j] = next]
  PROVE  \A i \in Processes : job'[i] = IF i = j THEN next ELSE job[i]
  BY DEF Typed

(* What the market worker is to notify is a proposal.                      *)
LEMMA MarketAtNotify ==
  ASSUME IndInv
  PROVE  job["market"].at = "notify" => job["market"].proposal \in Proposals
  BY DEF IndInv, Known, Typed, Processes

(* The pushes of a delivery that is not sent and not posted more.          *)
LEMMA PushesKept ==
  ASSUME Typed, Typed', NEW k \in Deliveries, Len(push'[k]) = Len(push[k]),
         \A i \in Processes : Posting(i, k)' => Posting(i, k)
  PROVE  Pushes(k)' <= Pushes(k)
<1>1. /\ One(Posting("market", k)') <= One(Posting("market", k))
      /\ One(Posting("worker", k)') <= One(Posting("worker", k))
  BY DEF One, Processes
<1>2. Len(push[k]) \in Nat
  BY Numbers
<1> QED
  BY <1>1, <1>2, OneType, OneTypeNext DEF Pushes

(* A process that sends nothing before a step and after it.                *)
LEMMA QuietCount ==
  ASSUME IndInv, Typed', CountInv, NEW j \in Processes, NEW next,
         job' = [job EXCEPT ![j] = next], UNCHANGED <<device, delivery, events>>,
         \A k \in Deliveries : Len(push'[k]) = Len(push[k]),
         job[j].at \notin {"post", "mark", "loaded"},
         next.batch = {}, next.mark = {}, \A m \in next.marks : ~m.counts,
         next.marks # {} => next.at = "mark", First'
  PROVE  CountInv'
<1>0. Typed
  BY DEF IndInv
<1>1. \A i \in Processes : job'[i] = IF i = j THEN next ELSE job[i]
  BY <1>0, JobNext
<1>2. job[j].batch = {} /\ job[j].marks = {} /\ job[j].mark = {}
  BY Shapes DEF CountInv
<1>3. ASSUME NEW i \in Processes, NEW k
      PROVE  /\ Posting(i, k)' <=> Posting(i, k)
             /\ Sending(i, k)' <=> Sending(i, k)
             /\ Loaded(i, k)' <=> Loaded(i, k)
             /\ i = j => ~Sending(i, k)
             /\ Loaded(i, k)' => job'[i].row = job[i].row
  <2>1. CASE i = j
    <3>1. job'[i] = next
      BY <1>1, <2>1
    <3> QED
      BY <1>2, <2>1, <3>1 DEF Posting, Sending, Loaded, Marks, About
  <2>2. CASE i # j
    BY <1>1, <2>2, SameJob
  <2> QED
    BY <2>1, <2>2
<1>4. j # "worker" => (Doomed' => Doomed)
  BY <1>1 DEF Doomed, Marks, Processes
<1>5. ASSUME NEW k \in Deliveries PROVE Count(k)'
  <2>1. Pushes(k)' <= Pushes(k)
    BY <1>0, <1>3, PushesKept
  <2>2. Count(k)
    BY DEF CountInv, Counting
  <2>3. Doomed' => Doomed \/ ~Sending("worker", k)
    BY <1>3, <1>4 DEF Processes
  <2>4. events <= events'
    BY <1>0, Numbers
  <2>5. \A i \in Processes : Sending(i, k)' <=> Sending(i, k)
    BY <1>3
  <2>6. \A i \in Processes : Loaded(i, k)' => Loaded(i, k) /\ job'[i].row = job[i].row
    BY <1>3
  <2> QED
    BY <1>0, <2>1, <2>2, <2>3, <2>4, <2>5, <2>6, CountKept DEF Kept
<1>6. Untouched'
  BY <1>3 DEF CountInv, Untouched
<1>7. Shaped'
  BY <1>1, ShapeKept DEF CountInv
<1> QED
  BY <1>5, <1>6, <1>7 DEF CountInv, Counting

(* A process stops: the market worker, whose sends end, or the worker,     *)
(* whose counts the crash pays for, or which was doomed.                   *)
LEMMA StopCount ==
  ASSUME IndInv, Typed', CountInv, NEW j \in Processes,
         job' = [job EXCEPT ![j] = Idle], UNCHANGED <<device, delivery, push>>,
         \/ events' = events + 1
         \/ events' = events /\ (j = "worker" => Doomed)
  PROVE  CountInv'
<1>0. Typed
  BY DEF IndInv
<1>1. \A i \in Processes : job'[i] = IF i = j THEN Idle ELSE job[i]
  BY <1>0, JobNext
<1>2. /\ Idle.at = "idle" /\ Idle.batch = {} /\ Idle.marks = {} /\ Idle.mark = {} /\ Idle.todo = {}
  BY DEF Idle
<1>3. ASSUME NEW i \in Processes, NEW k
      PROVE  /\ i = j => ~Posting(i, k)' /\ ~Sending(i, k)' /\ ~Loaded(i, k)'
             /\ i # j => /\ Posting(i, k)' <=> Posting(i, k)
                         /\ Sending(i, k)' <=> Sending(i, k)
                         /\ Loaded(i, k)' <=> Loaded(i, k)
                         /\ job'[i].row = job[i].row
  <2>1. CASE i = j
    <3>1. job'[i] = Idle
      BY <1>1, <2>1
    <3> QED
      BY <1>2, <2>1, <3>1 DEF Posting, Sending, Loaded, Marks
  <2>2. CASE i # j
    BY <1>1, <2>2, SameJob
  <2> QED
    BY <2>1, <2>2
<1>4. ASSUME NEW k \in Deliveries PROVE Count(k)'
  <2> DEFINE a == delivery[k].attempts
             rw == job["worker"].row.attempts
             rm == job["market"].row.attempts
             e == events'
  <2>1. /\ MaxAttempts \in Nat /\ MaxAttempts >= 1 /\ events \in Nat /\ e \in Nat /\ events <= e
        /\ a \in Nat /\ rw \in Nat /\ rm \in Nat
    BY <1>0, Numbers DEF Processes
  <2>2. Pushes(k) \in Nat /\ Pushes(k)' \in Nat
    BY <1>0, PushesType, PushesTypeNext
  <2>3. Pushes(k)' <= Pushes(k)
    BY <1>0, <1>3, PushesKept
  <2>4. Count(k)
    BY DEF CountInv, Counting
  <2>5. Pushes(k)' <= 2 * MaxAttempts + e
    BY <2>1, <2>2, <2>3, <2>4 DEF Count
  <2>6. /\ Due(k) \in {0, 1} /\ Due(k)' \in {0, 1}
        /\ Sure(k) \in {0, 1} /\ Sure(k)' \in {0, 1}
    BY OneType, OneTypeNext
  <2>7. Due(k)' <= Due(k) /\ Sure(k) + events <= Sure(k)' + e
    <3>1. CASE j = "worker"
      <4>1. Due(k)' = 0
        BY <1>3, <3>1, OneTypeNext
      <4>2. CASE events' = events + 1
        BY <2>1, <2>6, <4>1, <4>2
      <4>3. CASE events' = events /\ Doomed
        <5>1. Sure(k) = 0
          BY <4>3, OneType
        <5> QED
          BY <2>1, <2>6, <4>1, <4>3, <5>1
      <4> QED
        BY <3>1, <4>2, <4>3
    <3>2. CASE j = "market"
      <4>1. Doomed' <=> Doomed
        BY <1>1, <3>2 DEF Doomed, Marks, Processes
      <4>2. Sending("worker", k)' <=> Sending("worker", k)
        BY <1>3, <3>2 DEF Processes
      <4>3. Due(k)' = Due(k) /\ Sure(k)' = Sure(k)
        BY <4>1, <4>2 DEF Due, Sure, One
      <4> QED
        BY <2>1, <2>6, <4>3
    <3> QED
      BY <3>1, <3>2 DEF Processes
  <2>8. /\ Loaded("worker", k)' => Loaded("worker", k) /\ job'["worker"].row.attempts = rw
        /\ Loaded("market", k)' => Loaded("market", k) /\ job'["market"].row.attempts = rm
        /\ Sending("market", k)' => Sending("market", k)
    BY <1>3 DEF Processes
  <2>9. ASSUME delivery[k].status # "absent", Sending("market", k)' PROVE BothSend(k)'
    <3>1. BothSend(k)
      BY <2>4, <2>8, <2>9 DEF Count
    <3>2. a + Due(k) <= MaxAttempts /\ Pushes(k) <= a + Sure(k) + 1 + events
      BY <3>1 DEF BothSend
    <3>3. a + Due(k)' <= MaxAttempts /\ Pushes(k)' <= a + Sure(k)' + 1 + e
      BY <2>1, <2>2, <2>3, <2>6, <2>7, <3>2
    <3> QED
      BY <2>8, <3>1, <3>3 DEF BothSend
  <2>10. ASSUME delivery[k].status # "absent", ~Sending("market", k)' PROVE OneSends(k)'
    <3> DEFINE Row == rw <= MaxAttempts /\ Pushes(k)' <= rw + 1 + MaxAttempts + e
    <3>1. CASE Sending("market", k)
      <4>1. BothSend(k)
        BY <2>4, <2>10, <3>1 DEF Count
      <4>2. /\ a + Due(k) <= MaxAttempts /\ Pushes(k) <= a + Sure(k) + 1 + events
            /\ Loaded("worker", k) => rw = a
        BY <4>1 DEF BothSend
      <4>3. a + Due(k)' <= MaxAttempts + 1 /\ Pushes(k)' <= a + Sure(k)' + MaxAttempts + e
        BY <2>1, <2>2, <2>3, <2>6, <2>7, <4>2
      <4>4. a <= MaxAttempts /\ Pushes(k)' <= a + 1 + MaxAttempts + e
        BY <2>1, <2>2, <2>3, <2>6, <4>2
      <4>5. Loaded("worker", k)' => Row
        BY <2>8, <4>2, <4>4
      <4> QED
        BY <2>8, <4>3, <4>5 DEF OneSends
    <3>2. CASE ~Sending("market", k)
      <4>1. OneSends(k)
        BY <2>4, <2>10, <3>2 DEF Count
      <4>2. /\ a + Due(k) <= MaxAttempts + 1 /\ Pushes(k) <= a + Sure(k) + MaxAttempts + events
            /\ Loaded("worker", k) => rw <= MaxAttempts /\ Pushes(k) <= rw + 1 + MaxAttempts + events
        BY <4>1 DEF OneSends
      <4>3. a + Due(k)' <= MaxAttempts + 1 /\ Pushes(k)' <= a + Sure(k)' + MaxAttempts + e
        BY <2>1, <2>2, <2>3, <2>6, <2>7, <4>2
      <4>4. Pushes(k) <= rw + 1 + MaxAttempts + events => Pushes(k)' <= rw + 1 + MaxAttempts + e
        BY <2>1, <2>2, <2>3
      <4>5. Loaded("worker", k)' => Row
        BY <2>8, <4>2, <4>4
      <4> QED
        BY <2>8, <4>3, <4>5 DEF OneSends
    <3> QED
      BY <3>1, <3>2
  <2> QED
    BY <2>5, <2>9, <2>10 DEF Count
<1>5. Untouched'
  BY <1>3 DEF CountInv, Untouched
<1>6. First'
  <2> HIDE DEF Idle
  <2> QED
    BY <1>1, <1>2, MarketAtNotify, FirstKept DEF CountInv
<1>7. Shaped'
  BY <1>1, <1>2, ShapeKept DEF CountInv
<1> QED
  BY <1>4, <1>5, <1>6, <1>7 DEF CountInv, Counting

(* What is about to be posted is what the marks of the post will count.    *)
LEMMA PostCount ==
  ASSUME IndInv, Typed', CountInv, NEW j \in Processes, Post(j)
  PROVE  CountInv'
<1> DEFINE p == job[j].proposal
           batch == job[j].batch
<1>0. Typed
  BY DEF IndInv
<1>1. /\ job[j].at = "post" /\ p \in Proposals /\ batch \subseteq Devices
      /\ UNCHANGED <<device, wanted, delivery, created, events>>
  BY JobType DEF IndInv, Post, Known, Typed
<1>2. PICK answer \in [batch -> {"awaited", "error", "unregistered"}] :
        /\ push' = Logged(p, answer)
        /\ job' = [job EXCEPT ![j].at = "mark", ![j].batch = {},
                              ![j].marks = {TicketMark(p, d, answer) : d \in batch}]
  BY DEF Post
<1> DEFINE marks == {TicketMark(p, d, answer) : d \in batch}
           next == [job[j] EXCEPT !.at = "mark", !.batch = {}, !.marks = marks]
<1>3. job' = [job EXCEPT ![j] = next]
  BY <1>0, <1>2, JobType DEF Typed
<1>4. \A m \in marks : \E d \in batch : m = TicketMark(p, d, answer)
  OBVIOUS
<1>5. \A d \in batch : /\ TicketMark(p, d, answer) \in marks
                       /\ TicketMark(p, d, answer).counts
                       /\ TicketMark(p, d, answer).proposal = p
                       /\ TicketMark(p, d, answer).device = d
  BY DEF TicketMark
<1>6. job[j].marks = {} /\ job[j].mark = {}
  BY <1>1, Shapes DEF CountInv
<1> HIDE DEF marks
<1>7. /\ next.at = "mark" /\ next.batch = {} /\ next.marks = marks /\ next.mark = {}
      /\ next.todo = job[j].todo /\ next.row = job[j].row
  BY <1>0, <1>6, JobType DEF Job
<1> HIDE DEF next
<1>8. \A i \in Processes : job'[i] = IF i = j THEN next ELSE job[i]
  BY <1>0, <1>3, JobNext
<1>9. ASSUME NEW k
      PROVE  /\ Sending(j, k) <=> Posting(j, k)
             /\ Sending(j, k)' <=> Posting(j, k)
             /\ ~Posting(j, k)'
             /\ ~Loaded(j, k)'
  <2>1. job'[j] = next
    BY <1>8
  <2>2. Sending(j, k) <=> Posting(j, k)
    BY <1>6 DEF Sending, Marks
  <2>3. ~Posting(j, k)' /\ ~Loaded(j, k)'
    BY <1>7, <2>1 DEF Posting, Loaded
  <2>4. Sending(j, k)' <=> \E m \in marks : About(m, k)
    BY <1>7, <2>1, <2>3 DEF Sending, Marks, About
  <2>5. ASSUME NEW m \in marks, About(m, k) PROVE Posting(j, k)
    <3>1. PICK d \in batch : m = TicketMark(p, d, answer)
      BY <1>4
    <3> QED
      BY <1>5, <2>5, <3>1 DEF About, Posting
  <2>6. ASSUME Posting(j, k) PROVE \E m \in marks : About(m, k)
    <3>1. k[1] = p /\ k[2] \in batch
      BY <2>6 DEF Posting
    <3> QED
      BY <1>5, <3>1 DEF About
  <2> QED
    BY <2>2, <2>3, <2>4, <2>5, <2>6
<1>10. ASSUME NEW i \in Processes, NEW k
       PROVE  /\ Sending(i, k)' <=> Sending(i, k)
              /\ Loaded(i, k)' => Loaded(i, k) /\ job'[i].row = job[i].row
              /\ i # j => (Posting(i, k)' <=> Posting(i, k))
  <2>1. CASE i = j
    BY <1>9, <2>1
  <2>2. CASE i # j
    BY <1>8, <2>2, SameJob
  <2> QED
    BY <2>1, <2>2
<1>11. ASSUME NEW k \in Deliveries
       PROVE  /\ Len(push[k]) \in Nat
              /\ Len(push'[k]) = Len(push[k]) + One(Posting(j, k))
  <2>1. push[k] \in Seq(Receipt) /\ Len(push[k]) \in Nat
    BY <1>0, Numbers DEF Typed
  <2>2. push'[k] = IF Posting(j, k) THEN Append(push[k], answer[k[2]]) ELSE push[k]
    BY <1>2 DEF Logged, Deliveries, Posting
  <2>3. Posting(j, k) => answer[k[2]] \in Receipt
    BY DEF Posting, Receipt
  <2>4. Posting(j, k) => Len(Append(push[k], answer[k[2]])) = Len(push[k]) + 1
    BY <2>1, <2>3, AppendProperties
  <2>5. CASE Posting(j, k)
    <3>1. push'[k] = Append(push[k], answer[k[2]]) /\ One(Posting(j, k)) = 1
      BY <2>2, <2>5 DEF One
    <3> QED
      BY <2>1, <2>4, <2>5, <3>1
  <2>6. CASE ~Posting(j, k)
    <3>1. push'[k] = push[k] /\ One(Posting(j, k)) = 0
      BY <2>2, <2>6 DEF One
    <3> QED
      BY <2>1, <3>1
  <2> QED
    BY <2>5, <2>6
<1>12. Doomed' => Doomed
  <2>1. CASE j = "worker"
    <3> SUFFICES ASSUME Doomed' PROVE Doomed
      OBVIOUS
    <3>1. job'["worker"] = next
      BY <1>8, <2>1
    <3>2. PICK m \in marks : delivery[<<m.proposal, m.device>>].status = "absent"
      BY <1>1, <1>7, <3>1 DEF Doomed, Marks
    <3>3. PICK d \in batch : m = TicketMark(p, d, answer)
      BY <1>4
    <3>4. delivery[<<p, d>>].status = "absent"
      BY <1>5, <3>2, <3>3
    <3> QED
      BY <2>1, <3>4 DEF Doomed
  <2>2. CASE j # "worker"
    <3>1. job'["worker"] = job["worker"]
      BY <1>8, <2>2 DEF Processes
    <3> QED
      BY <1>1, <3>1 DEF Doomed, Marks
  <2> QED
    BY <2>1, <2>2
<1>13. ASSUME NEW k \in Deliveries PROVE Count(k)'
  <2>1. Pushes(k)' <= Pushes(k)
    <3>1. CASE j = "market"
      <4>1. One(Posting("market", k)') = 0 /\ One(Posting("worker", k)') = One(Posting("worker", k))
        BY <1>9, <1>10, <3>1 DEF One, Processes
      <4>2. Len(push'[k]) = Len(push[k]) + One(Posting("market", k)) /\ Len(push[k]) \in Nat
        BY <1>11, <3>1
      <4> QED
        BY <4>1, <4>2, OneType DEF Pushes
    <3>2. CASE j = "worker"
      <4>1. One(Posting("worker", k)') = 0 /\ One(Posting("market", k)') = One(Posting("market", k))
        BY <1>9, <1>10, <3>2 DEF One, Processes
      <4>2. Len(push'[k]) = Len(push[k]) + One(Posting("worker", k)) /\ Len(push[k]) \in Nat
        BY <1>11, <3>2
      <4> QED
        BY <4>1, <4>2, OneType DEF Pushes
    <3> QED
      BY <3>1, <3>2 DEF Processes
  <2>2. Count(k)
    BY DEF CountInv, Counting
  <2>3. events <= events'
    BY <1>0, <1>1, Numbers
  <2>4. \A i \in Processes : Sending(i, k)' <=> Sending(i, k)
    BY <1>10
  <2>5. \A i \in Processes : Loaded(i, k)' => Loaded(i, k) /\ job'[i].row = job[i].row
    BY <1>10
  <2> QED
    BY <1>0, <1>1, <1>12, <2>1, <2>2, <2>3, <2>4, <2>5, CountKept DEF Kept
<1>14. Untouched'
  <2> SUFFICES ASSUME NEW k \in Deliveries, delivery[k].status = "absent"
               PROVE  /\ delivery[k].attempts = 0
                      /\ device[k[2]] # "removed" =>
                           Len(push'[k]) = 0 /\ \A i \in Processes : ~Sending(i, k)'
    BY <1>1 DEF Untouched
  <2>1. /\ delivery[k].attempts = 0
        /\ device[k[2]] # "removed" =>
             Len(push[k]) = 0 /\ \A i \in Processes : ~Sending(i, k)
    BY DEF CountInv, Untouched
  <2>2. ~Sending(j, k) => Len(push'[k]) = Len(push[k])
    <3>1. /\ Len(push[k]) \in Nat /\ Len(push'[k]) = Len(push[k]) + One(Posting(j, k))
          /\ Sending(j, k) <=> Posting(j, k)
      BY <1>9, <1>11
    <3>2. ~Posting(j, k) => One(Posting(j, k)) = 0
      BY DEF One
    <3> QED
      BY <3>1, <3>2
  <2> QED
    BY <1>10, <2>1, <2>2
<1>15. First'
  BY <1>1, <1>7, <1>8, MarketAtNotify, FirstKept DEF CountInv
<1>16. Shaped'
  <2>1. ASSUME NEW m \in next.marks \cup next.mark, NEW n \in next.marks \cup next.mark,
               m.proposal = n.proposal, m.device = n.device
        PROVE  m = n
    <3>1. PICK d \in batch, e \in batch :
            m = TicketMark(p, d, answer) /\ n = TicketMark(p, e, answer)
      BY <1>4, <1>7
    <3> QED
      BY <1>5, <2>1, <3>1
  <2> QED
    BY <1>7, <1>8, <2>1, ShapeKept DEF CountInv
<1> QED
  BY <1>13, <1>14, <1>15, <1>16 DEF CountInv, Counting

(* A row is loaded as it is.                                               *)
LEMMA LoadCount ==
  ASSUME IndInv, Typed', CountInv, NEW j \in Processes, Load(j)
  PROVE  CountInv'
<1> DEFINE m == CHOOSE x \in job[j].marks : TRUE
           k0 == <<m.proposal, m.device>>
<1>0. Typed
  BY DEF IndInv
<1>1. /\ job[j].at = "mark" /\ job[j].marks # {}
      /\ UNCHANGED <<device, wanted, delivery, created, push, events>>
  BY DEF Load, IndInv, Known
<1>2. m \in job[j].marks
  BY <1>1
<1>3. job' = [job EXCEPT ![j] =
          IF delivery[k0].status = "absent" THEN Idle
          ELSE [@ EXCEPT !.at = "loaded", !.mark = {m}, !.marks = job[j].marks \ {m},
                         !.row = delivery[k0]]]
  BY DEF Load
<1> HIDE DEF m
<1>4. job[j].batch = {} /\ job[j].mark = {}
  BY <1>1, Shapes DEF CountInv
<1>5. CASE delivery[k0].status = "absent"
  <2>1. j = "worker" => Doomed
    BY <1>2, <1>5 DEF Doomed, Marks
  <2>2. job' = [job EXCEPT ![j] = Idle]
    BY <1>3, <1>5
  <2> QED
    BY <1>1, <2>1, <2>2, StopCount
<1>6. CASE delivery[k0].status # "absent"
  <2> DEFINE rest == job[j].marks \ {m}
             row == delivery[k0]
             next == [job[j] EXCEPT !.at = "loaded", !.mark = {m}, !.marks = rest, !.row = row]
  <2>1. job' = [job EXCEPT ![j] = next]
    BY <1>3, <1>6
  <2> HIDE DEF rest, row
  <2>2. /\ next.at = "loaded" /\ next.mark = {m} /\ next.marks = rest /\ next.row = row
        /\ next.batch = {} /\ next.todo = job[j].todo /\ next.proposal = job[j].proposal
    BY <1>0, <1>4, JobType DEF Job
  <2> HIDE DEF next
  <2>3. \A i \in Processes : job'[i] = IF i = j THEN next ELSE job[i]
    BY <1>0, <2>1, JobNext
  <2>4. next.marks \cup next.mark = Marks(j) /\ Marks(j)' = Marks(j)
    BY <1>2, <1>4, <2>2, <2>3 DEF Marks, rest
  <2>5. ASSUME NEW i \in Processes, NEW k \in Deliveries
        PROVE  /\ Posting(i, k)' <=> Posting(i, k)
               /\ Sending(i, k)' <=> Sending(i, k)
               /\ Loaded(i, k)' =>
                    \/ Loaded(i, k) /\ job'[i].row = job[i].row
                    \/ Sending(i, k) /\ job'[i].row = delivery[k]
    <3>1. CASE i = j
      <4>1. job'[j] = next
        BY <2>3
      <4>2. ~Posting(j, k)' /\ ~Posting(j, k)
        BY <1>4, <2>2, <4>1 DEF Posting
      <4>3. Sending(j, k)' <=> Sending(j, k)
        BY <2>4, <4>2 DEF Sending, About
      <4>4. ASSUME Loaded(j, k)' PROVE Sending(j, k) /\ job'[j].row = delivery[k]
        <5>1. About(m, k)
          BY <2>2, <4>1, <4>4 DEF Loaded, About
        <5>2. Sending(j, k)
          BY <1>2, <5>1 DEF Sending, Marks
        <5>3. k = k0
          BY <5>1 DEF About, Deliveries
        <5> QED
          BY <2>2, <4>1, <5>2, <5>3 DEF row
      <4> QED
        BY <3>1, <4>2, <4>3, <4>4
    <3>2. CASE i # j
      BY <2>3, <3>2, SameJob
    <3> QED
      BY <3>1, <3>2
  <2>6. Doomed' => Doomed
    <3>1. CASE j = "worker"
      <4>1. job'["worker"].batch = {}
        BY <2>2, <2>3, <3>1
      <4> QED
        BY <1>1, <2>4, <3>1, <4>1 DEF Doomed
    <3>2. CASE j # "worker"
      <4>1. job'["worker"] = job["worker"]
        BY <2>3, <3>2 DEF Processes
      <4> QED
        BY <1>1, <4>1 DEF Doomed, Marks
    <3> QED
      BY <3>1, <3>2
  <2>7. ASSUME NEW k \in Deliveries PROVE Count(k)'
    <3>1. Pushes(k)' <= Pushes(k)
      BY <1>0, <1>1, <2>5, PushesKept
    <3>2. Count(k)
      BY DEF CountInv, Counting
    <3>3. events <= events'
      BY <1>0, <1>1, Numbers
    <3>4. \A i \in Processes : Sending(i, k)' <=> Sending(i, k)
      BY <2>5
    <3>5. \A i \in Processes : Loaded(i, k)' =>
            \/ Loaded(i, k) /\ job'[i].row = job[i].row
            \/ Sending(i, k) /\ job'[i].row = delivery[k]
      BY <2>5
    <3> QED
      BY <1>0, <1>1, <2>6, <3>1, <3>2, <3>3, <3>4, <3>5, CountKept DEF Kept
  <2>8. Untouched'
    BY <1>1, <2>5 DEF CountInv, Untouched
  <2>9. First'
    BY <1>1, <2>2, <2>3, MarketAtNotify, FirstKept DEF CountInv
  <2>10. Shaped'
    <3>1. m \notin rest
      BY DEF rest
    <3>2. \A x \in Marks(j), y \in Marks(j) :
            x.counts /\ y.counts /\ x.proposal = y.proposal /\ x.device = y.device => x = y
      BY Shapes DEF CountInv
    <3> QED
      BY <2>2, <2>3, <2>4, <3>1, <3>2, ShapeKept DEF CountInv
  <2> QED
    BY <2>7, <2>8, <2>9, <2>10 DEF CountInv, Counting
<1> QED
  BY <1>5, <1>6

(* A process that is done with a proposal has nothing left to send.        *)
LEMMA FinishedShape ==
  ASSUME Typed, NEW j \in Processes
  PROVE  /\ Finished(j).at \in {"idle", "retry"}
         /\ Finished(j).batch = {} /\ Finished(j).marks = {} /\ Finished(j).mark = {}
         /\ Finished(j).todo \subseteq job[j].todo
         /\ j = "market" => Finished(j).at = "idle"
  BY DEF Typed, Finished, Idle, Job

(* A batch that is prepared takes an attempt of each of its rows, which    *)
(* are new or have attempts left; the market worker's are all new.         *)
LEMMA NotifyCount ==
  ASSUME IndInv, Typed', CountInv, NEW j \in Processes, Notify(j)
  PROVE  CountInv'
<1> DEFINE p == job[j].proposal
           batch == {d \in Active : Sendable(p, d)}
           Inserted(k) == k[1] = p /\ k[2] \in Active /\ delivery[k].status = "absent"
<1>0. Typed
  BY DEF IndInv
<1>1. /\ job[j].at = "notify" /\ p \in created /\ p \in Proposals
      /\ UNCHANGED <<device, wanted, created, push, events>>
  BY <1>0 DEF Notify, Known, IndInv, Typed
<1>2. job[j].batch = {} /\ job[j].marks = {} /\ job[j].mark = {}
  BY <1>1, Shapes DEF CountInv
<1>3. \A d \in Active : d \in Devices /\ <<p, d>> \in Deliveries /\ device[d] = "active"
  BY <1>1 DEF Active, Deliveries
<1>4. \A k \in Deliveries : Inserted(k) => k[2] \in batch
  <2> SUFFICES ASSUME NEW k \in Deliveries, Inserted(k) PROVE Sendable(p, k[2])
    BY DEF batch
  <2>1. k = <<p, k[2]>> /\ delivery[k].status = "absent"
    BY DEF Deliveries
  <2>2. delivery[k].attempts = 0
    BY <2>1 DEF CountInv, Untouched
  <2> QED
    BY <1>0, <2>1, <2>2, Numbers DEF Sendable
<1>5. CASE job' = [job EXCEPT ![j] = Finished(j)] /\ (UNCHANGED delivery \/ batch = {})
  <2> HIDE DEF batch
  <2>1. UNCHANGED delivery
    <3>1. CASE UNCHANGED delivery
      BY <3>1
    <3>2. CASE batch = {} /\ delivery' # delivery
      <4>1. delivery' = [k \in Deliveries |-> IF Inserted(k)
                           THEN [NoDelivery EXCEPT !.status = "pending"] ELSE delivery[k]]
        BY <3>2 DEF Notify, Deliveries
      <4>2. \A k \in Deliveries : ~Inserted(k)
        BY <1>4, <3>2
      <4> HIDE DEF Inserted
      <4>3. delivery' = [k \in Deliveries |-> delivery[k]]
        BY <4>1, <4>2
      <4> QED
        BY <1>0, <4>3 DEF Typed
    <3> QED
      BY <1>5, <3>1, <3>2
  <2> DEFINE next == Finished(j)
  <2>2. /\ next.at \in {"idle", "retry"} /\ next.batch = {} /\ next.marks = {} /\ next.mark = {}
        /\ next.todo \subseteq job[j].todo
    BY <1>0, FinishedShape
  <2>3. job' = [job EXCEPT ![j] = next]
    BY <1>5
  <2> HIDE DEF next
  <2>4. First'
    <3>1. \A i \in Processes : job'[i] = IF i = j THEN next ELSE job[i]
      BY <1>0, <2>3, JobNext
    <3> QED
      BY <2>1, <2>2, <3>1, MarketAtNotify, FirstKept DEF CountInv
  <2> QED
    BY <1>1, <2>1, <2>2, <2>3, <2>4, QuietCount
<1>6. CASE /\ job' = [job EXCEPT ![j] = [@ EXCEPT !.at = "post", !.batch = batch]]
           /\ delivery' = [k \in Deliveries |-> IF Inserted(k)
                             THEN [NoDelivery EXCEPT !.status = "pending"] ELSE delivery[k]]
  <2> DEFINE next == [job[j] EXCEPT !.at = "post", !.batch = batch]
  <2>1. job' = [job EXCEPT ![j] = next]
    BY <1>6
  <2>2. \A k \in Deliveries :
          delivery'[k] = IF Inserted(k) THEN [NoDelivery EXCEPT !.status = "pending"] ELSE delivery[k]
    BY <1>6
  <2>3. \A d \in batch : d \in Active /\ Sendable(p, d)
    BY DEF batch
  <2> HIDE DEF batch
  <2>4. /\ next.at = "post" /\ next.batch = batch /\ next.marks = {} /\ next.mark = {}
        /\ next.todo = job[j].todo /\ next.proposal = p
    BY <1>0, <1>2, JobType DEF Job
  <2> HIDE DEF next
  <2>5. \A i \in Processes : job'[i] = IF i = j THEN next ELSE job[i]
    BY <1>0, <2>1, JobNext
  <2>6. ASSUME NEW k \in Deliveries
        PROVE  /\ Posting(j, k)' <=> k[1] = p /\ k[2] \in batch
               /\ Sending(j, k)' <=> Posting(j, k)'
               /\ ~Posting(j, k) /\ ~Sending(j, k) /\ ~Loaded(j, k) /\ ~Loaded(j, k)'
    BY <1>2, <2>4, <2>5 DEF Posting, Sending, Loaded, Marks
  <2>7. ASSUME NEW i \in Processes, i # j, NEW k \in Deliveries
        PROVE  /\ Posting(i, k)' <=> Posting(i, k)
               /\ Sending(i, k)' <=> Sending(i, k)
               /\ Loaded(i, k)' <=> Loaded(i, k)
               /\ job'[i].row = job[i].row
    BY <2>5, <2>7, SameJob
  <2>8. ASSUME NEW k \in Deliveries
        PROVE  /\ delivery'[k].attempts = delivery[k].attempts
               /\ delivery'[k].status = "absent" => delivery[k].status = "absent"
               /\ ~Posting(j, k)' => delivery'[k] = delivery[k]
               /\ Posting(j, k)' => /\ delivery'[k].status # "absent"
                                    /\ delivery[k].attempts < MaxAttempts
                                    /\ device[k[2]] = "active"
    <3>1. /\ [NoDelivery EXCEPT !.status = "pending"].status = "pending"
          /\ [NoDelivery EXCEPT !.status = "pending"].attempts = 0
      BY DEF NoDelivery
    <3>2. /\ delivery'[k].attempts = delivery[k].attempts
          /\ delivery'[k].status = "absent" => delivery[k].status = "absent"
      BY <2>2, <3>1 DEF CountInv, Untouched
    <3>3. ~Posting(j, k)' => delivery'[k] = delivery[k]
      BY <1>4, <2>2, <2>6
    <3>4. ASSUME Posting(j, k)'
          PROVE  /\ delivery'[k].status # "absent" /\ delivery[k].attempts < MaxAttempts
                 /\ device[k[2]] = "active"
      <4>1. k[1] = p /\ k[2] \in batch /\ k = <<p, k[2]>>
        BY <2>6, <3>4 DEF Deliveries
      <4>2. k[2] \in Active /\ delivery[k].attempts < MaxAttempts
        BY <2>3, <4>1 DEF Sendable
      <4>3. delivery'[k].status # "absent"
        BY <2>2, <3>1, <4>1, <4>2
      <4> QED
        BY <1>3, <4>2, <4>3
    <3> QED
      BY <3>2, <3>3, <3>4
  <2>9. j = "worker" => ~Doomed'
    <3> SUFFICES ASSUME j = "worker", Doomed' PROVE FALSE
      OBVIOUS
    <3>1. job'["worker"] = next
      BY <2>5
    <3>2. PICK d \in batch : delivery'[<<p, d>>].status = "absent"
      BY <2>4, <3>1 DEF Doomed, Marks
    <3>3. <<p, d>> \in Deliveries /\ <<p, d>>[1] = p /\ <<p, d>>[2] = d
      BY <1>3, <2>3
    <3> QED
      BY <2>6, <2>8, <3>2, <3>3
  <2>10. j = "market" => (Doomed' => Doomed)
    <3> SUFFICES ASSUME j = "market", Doomed' PROVE Doomed
      OBVIOUS
    <3>1. job'["worker"] = job["worker"]
      BY <2>5 DEF Processes
    <3>2. \A d \in job["worker"].batch :
            delivery'[<<job["worker"].proposal, d>>].status = "absent" =>
              delivery[<<job["worker"].proposal, d>>].status = "absent"
      <4> SUFFICES ASSUME NEW d \in job["worker"].batch
                   PROVE  <<job["worker"].proposal, d>> \in Deliveries
        BY <2>8
      <4>1. job["worker"].at = "post"
        BY Shapes DEF CountInv, Processes
      <4> QED
        BY <1>0, <4>1, JobType DEF IndInv, Known, Processes, Deliveries, Typed
    <3>3. \A m \in Marks("worker") : <<m.proposal, m.device>> \in Deliveries
      BY <1>0, JobType DEF Marks, Mark, Deliveries, Processes
    <3> QED
      BY <2>8, <3>1, <3>2, <3>3 DEF Doomed, Marks
  <2>11. ASSUME NEW k \in Deliveries, ~Posting(j, k)' PROVE Count(k)'
    <3>1. \A i \in Processes : /\ Posting(i, k)' <=> Posting(i, k)
                               /\ Sending(i, k)' <=> Sending(i, k)
                               /\ Loaded(i, k)' => Loaded(i, k) /\ job'[i].row = job[i].row
      BY <2>6, <2>7, <2>11
    <3>2. Pushes(k)' <= Pushes(k)
      BY <1>0, <1>1, <3>1, PushesKept
    <3>3. Count(k)
      BY DEF CountInv, Counting
    <3>4. events <= events'
      BY <1>0, <1>1, Numbers
    <3>5. Doomed' => Doomed \/ ~Sending("worker", k)
      BY <2>9, <2>10 DEF Processes
    <3>6. delivery'[k] = delivery[k]
      BY <2>8, <2>11
    <3> QED
      BY <1>0, <3>1, <3>2, <3>3, <3>4, <3>5, <3>6, CountKept DEF Kept
  <2>12. ASSUME NEW k \in Deliveries, Posting(j, k)' PROVE Count(k)'
    <3> DEFINE a == delivery[k].attempts
               rm == job["market"].row.attempts
    <3>1. /\ MaxAttempts \in Nat /\ MaxAttempts >= 1 /\ events \in Nat /\ events' = events
          /\ a \in Nat /\ rm \in Nat /\ Len(push[k]) \in Nat /\ Len(push'[k]) = Len(push[k])
          /\ delivery'[k].attempts = a /\ a < MaxAttempts
      BY <1>0, <1>1, <2>8, <2>12, Numbers DEF Processes
    <3>2. Count(k)
      BY DEF CountInv, Counting
    <3>3. Pushes(k) \in Nat
      BY <3>1, OneType DEF Pushes
    <3>4. Pushes(k)' = Pushes(k) + 1
      <4>1. CASE j = "market"
        <5>1. /\ One(Posting("market", k)') = 1 /\ One(Posting("market", k)) = 0
              /\ One(Posting("worker", k)') = One(Posting("worker", k))
          BY <2>6, <2>7, <2>12, <4>1 DEF One, Processes
        <5> QED
          BY <3>1, <5>1, OneType DEF Pushes
      <4>2. CASE j = "worker"
        <5>1. /\ One(Posting("worker", k)') = 1 /\ One(Posting("worker", k)) = 0
              /\ One(Posting("market", k)') = One(Posting("market", k))
          BY <2>6, <2>7, <2>12, <4>2 DEF One, Processes
        <5> QED
          BY <3>1, <5>1, OneType DEF Pushes
      <4> QED
        BY <4>1, <4>2 DEF Processes
    <3>5. CASE delivery[k].status = "absent"
      <4>1. a = 0 /\ Len(push[k]) = 0 /\ \A i \in Processes : ~Sending(i, k)
        BY <2>8, <2>12, <3>5 DEF CountInv, Untouched
      <4>2. Pushes(k)' = 1
        <5>1. ~Posting("market", k) /\ ~Posting("worker", k)
          BY <4>1 DEF Sending, Processes
        <5>2. Pushes(k) = 0
          BY <4>1, <5>1 DEF Pushes, One
        <5> QED
          BY <3>4, <5>2
      <4>3. ~Loaded("worker", k)' /\ ~Loaded("market", k)'
        BY <2>6, <2>7, <4>1 DEF Processes, Loaded, Sending, Marks
      <4>4. CASE j = "market"
        <5>1. Sending("market", k)' /\ ~Sending("worker", k)'
          BY <2>6, <2>7, <2>12, <4>1, <4>4 DEF Processes
        <5>2. Due(k)' = 0 /\ Sure(k)' = 0
          BY <5>1, OneTypeNext
        <5>3. BothSend(k)'
          BY <3>1, <4>1, <4>2, <4>3, <5>2 DEF BothSend
        <5>4. Pushes(k)' <= 2 * MaxAttempts + events'
          BY <3>1, <4>2
        <5> QED
          BY <5>1, <5>3, <5>4 DEF Count
      <4>5. CASE j = "worker"
        <5>1. ~Sending("market", k)'
          BY <2>7, <4>1, <4>5 DEF Processes
        <5>2. Due(k)' \in {0, 1} /\ Sure(k)' \in {0, 1}
          BY OneTypeNext
        <5>3. OneSends(k)'
          BY <3>1, <4>1, <4>2, <4>3, <5>2 DEF OneSends
        <5>4. Pushes(k)' <= 2 * MaxAttempts + events'
          BY <3>1, <4>2
        <5> QED
          BY <5>1, <5>3, <5>4 DEF Count
      <4> QED
        BY <4>4, <4>5 DEF Processes
    <3>6. CASE delivery[k].status # "absent"
      <4>1. j = "worker"
        <5> SUFFICES ASSUME j = "market" PROVE FALSE
          BY DEF Processes
        <5>1. k = <<p, k[2]>> /\ k[2] \in Devices
          BY <2>6, <2>12 DEF Deliveries
        <5> QED
          BY <1>1, <3>6, <5>1 DEF CountInv, First
      <4>2. /\ Due(k) = 0 /\ Sure(k) = 0 /\ Due(k)' = 1 /\ Sure(k)' = 1
            /\ ~Loaded("worker", k)'
        BY <2>6, <2>9, <2>12, <4>1, OneType, OneTypeNext
      <4>3. /\ Sending("market", k)' <=> Sending("market", k)
            /\ Loaded("market", k)' <=> Loaded("market", k)
            /\ job'["market"].row = job["market"].row
        BY <2>7, <4>1 DEF Processes
      <4>4. CASE Sending("market", k)
        <5>1. BothSend(k)
          BY <3>2, <3>6, <4>4 DEF Count
        <5>2. /\ Pushes(k) <= a + Sure(k) + 1 + events
              /\ Loaded("market", k) => rm <= a
          BY <5>1 DEF BothSend
        <5>3. /\ a + Due(k)' <= MaxAttempts
              /\ Pushes(k)' <= a + Sure(k)' + 1 + events'
              /\ Pushes(k)' <= 2 * MaxAttempts + events'
          BY <3>1, <3>3, <3>4, <4>2, <5>2
        <5>4. BothSend(k)'
          BY <3>1, <4>2, <4>3, <5>2, <5>3 DEF BothSend
        <5> QED
          BY <4>3, <4>4, <5>3, <5>4 DEF Count
      <4>5. CASE ~Sending("market", k)
        <5>1. OneSends(k)
          BY <3>2, <3>6, <4>5 DEF Count
        <5>2. Pushes(k) <= a + Sure(k) + MaxAttempts + events
          BY <5>1 DEF OneSends
        <5>3. /\ a + Due(k)' <= MaxAttempts + 1
              /\ Pushes(k)' <= a + Sure(k)' + MaxAttempts + events'
              /\ Pushes(k)' <= 2 * MaxAttempts + events'
          BY <3>1, <3>3, <3>4, <4>2, <5>2
        <5>4. OneSends(k)'
          BY <3>1, <4>2, <5>3 DEF OneSends
        <5> QED
          BY <4>3, <4>5, <5>3, <5>4 DEF Count
      <4> QED
        BY <4>4, <4>5
    <3> QED
      BY <3>5, <3>6
  <2>13. Untouched'
    <3> SUFFICES ASSUME NEW k \in Deliveries, delivery'[k].status = "absent"
                 PROVE  /\ delivery'[k].attempts = 0
                        /\ device[k[2]] # "removed" =>
                             Len(push[k]) = 0 /\ \A i \in Processes : ~Sending(i, k)'
      BY <1>1 DEF Untouched
    <3>1. ~Posting(j, k)' /\ delivery'[k] = delivery[k]
      BY <2>8
    <3>2. /\ delivery[k].attempts = 0
          /\ device[k[2]] # "removed" =>
               Len(push[k]) = 0 /\ \A i \in Processes : ~Sending(i, k)
      BY <3>1 DEF CountInv, Untouched
    <3> QED
      BY <2>6, <2>7, <3>1, <3>2
  <2>14. First'
    <3>1. \A q \in Proposals, d \in Devices :
            delivery[<<q, d>>].status = "absent" =>
              \/ delivery'[<<q, d>>].status = "absent"
              \/ job[j].at = "notify" /\ q = job[j].proposal
      BY <1>1, <2>2 DEF Deliveries
    <3> QED
      BY <1>1, <2>4, <2>5, <3>1, MarketAtNotify, FirstKept DEF CountInv
  <2>15. Shaped'
    BY <2>4, <2>5, ShapeKept DEF CountInv
  <2> QED
    BY <2>11, <2>12, <2>13, <2>14, <2>15 DEF CountInv, Counting
<1> QED
  BY <1>5, <1>6 DEF Notify, Deliveries

(* A commit counts the attempt of its mark, on the row as it was loaded.   *)
LEMMA CommitCount ==
  ASSUME IndInv, Typed', CountInv, NEW j \in Processes, Commit(j)
  PROVE  CountInv'
<1>0. Typed
  BY DEF IndInv
<1>1. /\ job[j].at = "loaded" /\ UNCHANGED <<wanted, created, push, events>>
  BY DEF Commit
<1>2. PICK m \in job[j].mark :
        LET k == <<m.proposal, m.device>>
        IN IF delivery[k].status = "absent"
           THEN Aborted(j) /\ UNCHANGED <<device, delivery>>
           ELSE /\ delivery' = [delivery EXCEPT ![k] = Written(m, @, job[j].row)]
                /\ device' = IF Disabling(m) THEN [device EXCEPT ![m.device] = "disabled"]
                             ELSE device
                /\ job' = [job EXCEPT ![j] =
                     IF @.marks = {} THEN Finished(j)
                     ELSE [@ EXCEPT !.at = "mark", !.mark = {}, !.row = NoDelivery]]
  BY DEF Commit
<1> DEFINE k0 == <<m.proposal, m.device>>
<1>3. /\ m \in Mark /\ k0 \in Deliveries /\ m.proposal \in Proposals /\ m.device \in Devices
      /\ k0[1] = m.proposal /\ k0[2] = m.device
  BY <1>0, JobType DEF Mark, Deliveries
<1>4. /\ job[j].batch = {} /\ job[j].mark = {m} /\ m \notin job[j].marks
      /\ \A x \in Marks(j), y \in Marks(j) :
           x.counts /\ y.counts /\ x.proposal = y.proposal /\ x.device = y.device => x = y
  BY <1>1, Shapes DEF CountInv
<1>5. CASE delivery[k0].status = "absent"
  <2>1. j = "worker" => Doomed
    BY <1>5 DEF Doomed, Marks
  <2>2. job' = [job EXCEPT ![j] = Idle] /\ UNCHANGED <<device, delivery>>
    BY <1>2, <1>5 DEF Aborted
  <2> QED
    BY <1>1, <2>1, <2>2, StopCount
<1>6. CASE delivery[k0].status # "absent"
  <2> DEFINE new == Written(m, delivery[k0], job[j].row)
  <2>1. delivery' = [delivery EXCEPT ![k0] = new]
    BY <1>2, <1>6
  <2>2. /\ new.status # "absent"
        /\ m.counts => new.attempts = job[j].row.attempts + 1
        /\ ~m.counts => new.attempts = delivery[k0].attempts
    BY <1>3, <1>6 DEF Written, Flushed, Mark
  <2> HIDE DEF new, k0
  <2>3. \A k \in Deliveries : delivery'[k] = IF k = k0 THEN new ELSE delivery[k]
    BY <1>0, <2>1 DEF Typed
  <2>4. \A k \in Deliveries : delivery'[k].status = "absent" <=> delivery[k].status = "absent"
    BY <1>6, <2>2, <2>3
  <2>5. PICK next :
          /\ job' = [job EXCEPT ![j] = next]
          /\ next.at \in {"idle", "retry", "mark"} /\ next.batch = {} /\ next.mark = {}
          /\ next.marks = job[j].marks /\ next.todo \subseteq job[j].todo
          /\ next.marks # {} => next.at = "mark"
    <3>1. CASE job[j].marks = {}
      <4>1. job' = [job EXCEPT ![j] = Finished(j)]
        BY <1>2, <1>6, <3>1 DEF k0
      <4> QED
        BY <1>0, <3>1, <4>1, FinishedShape
    <3>2. CASE job[j].marks # {}
      <4> DEFINE last == [job[j] EXCEPT !.at = "mark", !.mark = {}, !.row = NoDelivery]
      <4>1. job' = [job EXCEPT ![j] = last]
        BY <1>2, <1>6, <3>2 DEF k0
      <4>j. job[j] \in Job
        BY <1>0, JobType
      <4>2. /\ last.at = "mark" /\ last.batch = {} /\ last.mark = {}
            /\ last.marks = job[j].marks /\ last.todo = job[j].todo
        BY <1>4, <4>j DEF Job
      <4> HIDE DEF last
      <4> QED
        BY <4>1, <4>2
    <3> QED
      BY <3>1, <3>2
  <2>6. \A i \in Processes : job'[i] = IF i = j THEN next ELSE job[i]
    BY <1>0, <2>5, JobNext
  <2>7. ASSUME NEW k \in Deliveries
        PROVE  /\ ~Posting(j, k) /\ ~Posting(j, k)' /\ ~Loaded(j, k)'
               /\ Loaded(j, k) <=> About(m, k)
               /\ About(m, k) => k = k0 /\ m.counts /\ Sending(j, k) /\ ~Sending(j, k)'
               /\ ~About(m, k) => (Sending(j, k)' <=> Sending(j, k))
    <3>1. job'[j] = next
      BY <2>6
    <3>2. ~Posting(j, k) /\ ~Posting(j, k)' /\ ~Loaded(j, k)'
      BY <1>4, <2>5, <3>1 DEF Posting, Loaded
    <3>3. Loaded(j, k) <=> About(m, k)
      BY <1>4 DEF Loaded
    <3>4. Sending(j, k) <=> About(m, k) \/ \E n \in job[j].marks : About(n, k)
      BY <1>4, <3>2 DEF Sending, Marks
    <3>5. Sending(j, k)' <=> \E n \in job[j].marks : About(n, k)
      BY <2>5, <3>1, <3>2 DEF Sending, Marks, About
    <3>6. ASSUME About(m, k), NEW n \in job[j].marks, About(n, k) PROVE FALSE
      <4>1. m = n
        BY <1>4, <3>6 DEF About, Marks
      <4> QED
        BY <1>4, <4>1
    <3>7. About(m, k) => k = k0 /\ m.counts
      BY DEF About, Deliveries, k0
    <3> QED
      BY <3>2, <3>3, <3>4, <3>5, <3>6, <3>7
  <2>8. ASSUME NEW i \in Processes, i # j, NEW k \in Deliveries
        PROVE  /\ Posting(i, k)' <=> Posting(i, k)
               /\ Sending(i, k)' <=> Sending(i, k)
               /\ Loaded(i, k)' <=> Loaded(i, k)
               /\ job'[i].row = job[i].row
    BY <2>6, <2>8, SameJob
  <2>9. Doomed' => Doomed
    <3> SUFFICES ASSUME Doomed' PROVE Doomed
      OBVIOUS
    <3>1. /\ job'["worker"].batch \subseteq job["worker"].batch
          /\ Marks("worker")' \subseteq Marks("worker")
          /\ job'["worker"].batch # {} => job'["worker"].proposal = job["worker"].proposal
      BY <2>5, <2>6 DEF Marks, Processes
    <3>2. \A x \in Marks("worker") : <<x.proposal, x.device>> \in Deliveries
      BY <1>0, JobType DEF Marks, Mark, Deliveries, Processes
    <3>3. \A d \in job["worker"].batch : <<job["worker"].proposal, d>> \in Deliveries
      <4> SUFFICES ASSUME NEW d \in job["worker"].batch
                   PROVE  <<job["worker"].proposal, d>> \in Deliveries
        OBVIOUS
      <4>1. job["worker"].at = "post"
        BY Shapes DEF CountInv, Processes
      <4> QED
        BY <1>0, <4>1, JobType DEF IndInv, Known, Processes, Deliveries, Typed
    <3>4. CASE \E d \in job'["worker"].batch :
                 delivery'[<<job'["worker"].proposal, d>>].status = "absent"
      BY <2>4, <3>1, <3>3, <3>4 DEF Doomed
    <3>5. CASE \E x \in Marks("worker")' : delivery'[<<x.proposal, x.device>>].status = "absent"
      BY <2>4, <3>1, <3>2, <3>5 DEF Doomed
    <3> QED
      BY <3>4, <3>5 DEF Doomed
  <2>10. ASSUME NEW k \in Deliveries PROVE Pushes(k)' <= Pushes(k)
    <3>1. \A i \in Processes : Posting(i, k)' => Posting(i, k)
      BY <2>7, <2>8
    <3> QED
      BY <1>0, <1>1, <3>1, PushesKept
  <2>11. ASSUME NEW k \in Deliveries, ~About(m, k) PROVE Count(k)'
    <3>1. \A i \in Processes : /\ Sending(i, k)' <=> Sending(i, k)
                               /\ Loaded(i, k)' => Loaded(i, k) /\ job'[i].row = job[i].row
      BY <2>7, <2>8, <2>11
    <3>2. Count(k)
      BY DEF CountInv, Counting
    <3>3. events <= events'
      BY <1>0, <1>1, Numbers
    <3>4. delivery'[k].attempts = delivery[k].attempts
      BY <1>3, <2>2, <2>3, <2>11 DEF About, k0
    <3> QED
      BY <1>0, <2>4, <2>9, <2>10, <3>1, <3>2, <3>3, <3>4, CountKept DEF Kept
  <2>12. ASSUME NEW k \in Deliveries, About(m, k) PROVE Count(k)'
    <3> DEFINE a == delivery[k].attempts
               b == delivery'[k].attempts
               rw == job["worker"].row.attempts
               rm == job["market"].row.attempts
    <3>1. /\ MaxAttempts \in Nat /\ MaxAttempts >= 1 /\ events \in Nat /\ events' = events
          /\ a \in Nat /\ rm \in Nat /\ rw \in Nat
      BY <1>0, <1>1, Numbers DEF Processes
    <3>2. /\ k = k0 /\ delivery[k].status # "absent"
          /\ b = job[j].row.attempts + 1
      BY <1>6, <2>2, <2>3, <2>7, <2>12
    <3>3. Pushes(k) \in Nat /\ Pushes(k)' \in Nat /\ Pushes(k)' <= Pushes(k)
      BY <1>0, <2>10, PushesType, PushesTypeNext
    <3>4. Count(k)
      BY DEF CountInv, Counting
    <3>5. Pushes(k)' <= 2 * MaxAttempts + events'
      BY <3>1, <3>3, <3>4 DEF Count
    <3>6. /\ Due(k) \in {0, 1} /\ Sure(k) \in {0, 1} /\ Sure(k) <= Due(k)
          /\ Due(k)' \in {0, 1} /\ Sure(k)' \in {0, 1}
      BY OneType, OneTypeNext
    <3>7. CASE j = "worker"
      <4>1. /\ Loaded("worker", k) /\ ~Loaded("worker", k)'
            /\ Due(k) = 1 /\ Due(k)' = 0 /\ Sure(k)' = 0
        BY <2>7, <2>12, <3>7, OneType, OneTypeNext
      <4>2. /\ Sending("market", k)' <=> Sending("market", k)
            /\ Loaded("market", k)' <=> Loaded("market", k)
            /\ job'["market"].row = job["market"].row
        BY <2>8, <3>7 DEF Processes
      <4>3. CASE Sending("market", k)
        <5>1. BothSend(k)
          BY <3>2, <3>4, <4>3 DEF Count
        <5>2. /\ a + Due(k) <= MaxAttempts /\ Pushes(k) <= a + Sure(k) + 1 + events
              /\ rw = a /\ (Loaded("market", k) => rm <= a)
          BY <4>1, <5>1 DEF BothSend
        <5>3. b = a + 1
          BY <3>2, <3>7, <5>2
        <5>4. /\ b + Due(k)' <= MaxAttempts /\ Pushes(k)' <= b + Sure(k)' + 1 + events'
              /\ rm <= a => rm <= b
          BY <3>1, <3>3, <3>6, <4>1, <5>2, <5>3
        <5>5. BothSend(k)'
          BY <4>1, <4>2, <5>2, <5>4 DEF BothSend
        <5> QED
          BY <3>5, <4>2, <4>3, <5>5 DEF Count
      <4>4. CASE ~Sending("market", k)
        <5>1. OneSends(k)
          BY <3>2, <3>4, <4>4 DEF Count
        <5>2. rw <= MaxAttempts /\ Pushes(k) <= rw + 1 + MaxAttempts + events
          BY <4>1, <5>1 DEF OneSends
        <5>3. b = rw + 1
          BY <3>2, <3>7
        <5>4. /\ b + Due(k)' <= MaxAttempts + 1
              /\ Pushes(k)' <= b + Sure(k)' + MaxAttempts + events'
          BY <3>1, <3>3, <3>6, <4>1, <5>2, <5>3
        <5>5. OneSends(k)'
          BY <4>1, <5>4 DEF OneSends
        <5> QED
          BY <3>5, <4>2, <4>4, <5>5 DEF Count
      <4> QED
        BY <4>3, <4>4
    <3>8. CASE j = "market"
      <4>1. Sending("market", k) /\ ~Sending("market", k)' /\ Loaded("market", k)
        BY <2>7, <2>12, <3>8
      <4>2. /\ Sending("worker", k)' <=> Sending("worker", k)
            /\ Loaded("worker", k)' <=> Loaded("worker", k)
            /\ job'["worker"].row = job["worker"].row
        BY <2>8, <3>8 DEF Processes
      <4>3. Due(k)' = Due(k)
        BY <4>2 DEF Due, One
      <4>4. BothSend(k)
        BY <3>2, <3>4, <4>1 DEF Count
      <4>5. /\ a + Due(k) <= MaxAttempts /\ Pushes(k) <= a + Sure(k) + 1 + events
            /\ (Loaded("worker", k) => rw = a) /\ rm <= a
        BY <4>1, <4>4 DEF BothSend
      <4>6. b = rm + 1
        BY <3>2, <3>8
      <4>7. b + Due(k)' <= MaxAttempts + 1
        BY <3>1, <3>6, <4>3, <4>5, <4>6
      <4>8. a + Sure(k) <= MaxAttempts
        BY <3>1, <3>6, <4>5
      <4>9. Pushes(k)' <= MaxAttempts + 1 + events'
        BY <3>1, <3>3, <3>6, <4>5, <4>8
      <4>10. Pushes(k)' <= b + Sure(k)' + MaxAttempts + events'
        BY <3>1, <3>3, <3>6, <4>6, <4>9
      <4>11. rw = a => rw <= MaxAttempts /\ Pushes(k)' <= rw + 1 + MaxAttempts + events'
        BY <3>1, <3>3, <3>6, <4>8, <4>9
      <4>12. OneSends(k)'
        BY <4>2, <4>5, <4>7, <4>10, <4>11 DEF OneSends
      <4> QED
        BY <3>5, <4>1, <4>12 DEF Count
    <3> QED
      BY <3>7, <3>8 DEF Processes
  <2>13. Untouched'
    <3> SUFFICES ASSUME NEW k \in Deliveries, delivery'[k].status = "absent"
                 PROVE  /\ delivery'[k].attempts = 0
                        /\ device'[k[2]] # "removed" =>
                             Len(push[k]) = 0 /\ \A i \in Processes : ~Sending(i, k)'
      BY <1>1 DEF Untouched
    <3>1. delivery[k].status = "absent" /\ delivery'[k] = delivery[k]
      BY <1>6, <2>3, <2>4
    <3>2. /\ delivery[k].attempts = 0
          /\ device[k[2]] # "removed" =>
               Len(push[k]) = 0 /\ \A i \in Processes : ~Sending(i, k)
      BY <3>1 DEF CountInv, Untouched
    <3>3. device[k[2]] = "removed" => device'[k[2]] = "removed"
      <4>1. device[m.device] # "removed"
        BY <1>3, <1>6 DEF IndInv, Registered, k0
      <4>2. device' = device \/ device' = [device EXCEPT ![m.device] = "disabled"]
        BY <1>2, <1>6 DEF k0
      <4>3. k[2] \in Devices
        BY DEF Deliveries
      <4> QED
        BY <1>0, <4>1, <4>2, <4>3 DEF Typed
    <3>4. \A i \in Processes : Sending(i, k)' => Sending(i, k)
      BY <2>7, <2>8
    <3> QED
      BY <3>1, <3>2, <3>3, <3>4
  <2>14. First'
    <3>1. \A q \in Proposals, d \in Devices :
            delivery[<<q, d>>].status = "absent" => delivery'[<<q, d>>].status = "absent"
      BY <2>4 DEF Deliveries
    <3> QED
      BY <2>5, <2>6, <3>1, MarketAtNotify, FirstKept DEF CountInv
  <2>15. Shaped'
    <3>1. \A x \in next.marks \cup next.mark, y \in next.marks \cup next.mark :
            x.counts /\ y.counts /\ x.proposal = y.proposal /\ x.device = y.device => x = y
      BY <1>4, <2>5 DEF Marks
    <3> QED
      BY <2>5, <2>6, <3>1, ShapeKept DEF CountInv
  <2> QED
    BY <2>11, <2>12, <2>13, <2>14, <2>15 DEF CountInv, Counting
<1> QED
  BY <1>5, <1>6

(* The user's changes, and the worker's cycle.                             *)
LEMMA UserCount ==
  ASSUME IndInv, Typed', CountInv,
         \/ \E d \in Devices : Register(d) \/ Remove(d)
         \/ SetFrequency
  PROVE  CountInv'
<1>0. Typed /\ \A k \in Deliveries : k[2] \in Devices
  BY DEF IndInv, Deliveries
<1>1. ASSUME NEW d \in Devices, Register(d) PROVE CountInv'
  <2>1. PICK holder \in SUBSET {e \in Devices \ {d} : device[e] \in {"active", "disabled"}} :
           /\ device' = [e \in Devices |-> IF e = d THEN "active"
                                           ELSE IF e \in holder THEN "removed" ELSE device[e]]
           /\ delivery' = Cascaded(holder)
    BY <1>1 DEF Register
  <2>2. device[d] # "removed" /\ UNCHANGED <<job, push>> /\ events' = events + 1
    BY <1>1 DEF Register, Event
  <2>3. \A e \in Devices : device'[e] = IF e = d THEN "active"
                                        ELSE IF e \in holder THEN "removed" ELSE device[e]
    BY <2>1
  <2>4. \A k \in Deliveries : delivery'[k] = IF k[2] \in holder THEN NoDelivery ELSE delivery[k]
    BY <1>0, <2>1, CascadedType
  <2>5. \A k \in Deliveries : \/ delivery'[k] = delivery[k]
                              \/ delivery'[k] = NoDelivery /\ device'[k[2]] = "removed"
    BY <1>0, <2>3, <2>4
  <2>6. \A e \in Devices : device[e] = "removed" => device'[e] = "removed"
    BY <2>2, <2>3
  <2> QED
    BY <2>2, <2>5, <2>6, CascadeCount
<1>2. ASSUME NEW d \in Devices, Remove(d) PROVE CountInv'
  <2>1. /\ device' = [device EXCEPT ![d] = "removed"] /\ delivery' = Cascaded({d})
        /\ UNCHANGED <<job, push>> /\ events' = events + 1
    BY <1>2 DEF Remove, Event
  <2>2. \A e \in Devices : device'[e] = IF e = d THEN "removed" ELSE device[e]
    BY <1>0, <2>1 DEF Typed
  <2>3. \A k \in Deliveries : delivery'[k] = IF k[2] \in {d} THEN NoDelivery ELSE delivery[k]
    BY <1>0, <2>1, CascadedType
  <2>4. \A k \in Deliveries : \/ delivery'[k] = delivery[k]
                              \/ delivery'[k] = NoDelivery /\ device'[k[2]] = "removed"
    BY <1>0, <2>2, <2>3
  <2>5. \A e \in Devices : device[e] = "removed" => device'[e] = "removed"
    BY <2>2
  <2> QED
    BY <2>1, <2>4, <2>5, CascadeCount
<1>3. CASE SetFrequency
  <2>1. UNCHANGED <<device, delivery, job, push>> /\ events' = events + 1
    BY <1>3 DEF SetFrequency, Event
  <2> QED
    BY <2>1, CascadeCount
<1> QED
  BY <1>1, <1>2, <1>3

(* A new proposal has no rows, and no process has heard of it.             *)
LEMMA CreateCount ==
  ASSUME IndInv, Typed', CountInv, NEW p \in Proposals, Create(p)
  PROVE  CountInv'
<1> DEFINE next == [Idle EXCEPT !.at = "notify", !.proposal = p]
<1>0. Typed /\ "market" \in Processes /\ "worker" \in Processes
  BY DEF IndInv, Processes
<1>1. /\ next.at = "notify" /\ next.proposal = p
      /\ next.batch = {} /\ next.marks = {} /\ next.mark = {}
  BY DEF Idle
<1>2. /\ job["market"].at = "idle" /\ p \notin created
      /\ job' = [job EXCEPT !["market"] = next]
      /\ UNCHANGED <<device, wanted, delivery, push, events>>
  BY DEF Create
<1> HIDE DEF next
<1>3. job'["market"] = next /\ job'["worker"] = job["worker"]
  BY <1>0, <1>2 DEF Typed
<1>4. First'
  <2>1. \A d \in Devices : delivery[<<p, d>>].status = "absent"
    BY <1>2 DEF IndInv, Registered
  <2>2. /\ p \notin job["worker"].todo
        /\ job["worker"].at \in {"notify", "post"} => job["worker"].proposal # p
    BY <1>0, <1>2 DEF IndInv, Known
  <2> QED
    BY <1>1, <1>2, <1>3, <2>1, <2>2 DEF First
<1> QED
  BY <1>0, <1>1, <1>2, <1>4, QuietCount

(* Between a proposal and the next the worker sends nothing, and the marks *)
(* of receipts count nothing.                                              *)
LEMMA CycleCount ==
  ASSUME IndInv, Typed', CountInv, StartCycle \/ RetryNext \/ ListTicketed \/ Fetch \/ FetchFails
  PROVE  CountInv'
<1>0. Typed /\ "worker" \in Processes
  BY DEF IndInv, Processes
(* What is left is the worker's new job.                                   *)
<1>1. ASSUME NEW next, job' = [job EXCEPT !["worker"] = next],
             UNCHANGED <<device, delivery, events>>,
             \A k \in Deliveries : Len(push'[k]) = Len(push[k]),
             job["worker"].at \notin {"post", "mark", "loaded"},
             next.batch = {}, next.mark = {}, \A m \in next.marks : ~m.counts,
             next.marks # {} => next.at = "mark",
             job'["market"].at = "notify" =>
               /\ job["market"].proposal \notin next.todo
               /\ next.at \in {"notify", "post"} => next.proposal # job["market"].proposal
      PROVE  CountInv'
  <2>1. job'["worker"] = next /\ job'["market"] = job["market"]
    BY <1>0, <1>1 DEF Typed
  <2>2. First'
    BY <1>1, <2>1 DEF CountInv, First
  <2> QED
    BY <1>0, <1>1, <2>2, QuietCount
<1>2. job["market"].at = "notify" =>
        LET p == job["market"].proposal
        IN  /\ \A d \in Devices : delivery[<<p, d>>].status = "absent"
            /\ p \notin job["worker"].todo
  BY DEF CountInv, First
<1>3. \A next : job' = [job EXCEPT !["worker"] = next] => job'["market"] = job["market"]
  BY <1>0 DEF Typed
<1>4. CASE StartCycle
  <2>1. PICK some \in SUBSET FailedProposals :
          job' = [job EXCEPT !["worker"] = [Idle EXCEPT !.at = "retry", !.todo = some]]
    BY <1>4 DEF StartCycle
  <2> DEFINE next == [Idle EXCEPT !.at = "retry", !.todo = some]
  <2>2. /\ next.at = "retry" /\ next.todo = some
        /\ next.batch = {} /\ next.marks = {} /\ next.mark = {}
    BY DEF Idle
  <2>3. job' = [job EXCEPT !["worker"] = next]
    BY <2>1
  <2> HIDE DEF next
  <2>4. job["market"].at = "notify" => job["market"].proposal \notin some
    BY <1>2 DEF FailedProposals
  <2>5. /\ job["worker"].at = "idle" /\ UNCHANGED <<device, delivery, push, events>>
    BY <1>4 DEF StartCycle
  <2> QED
    BY <1>1, <1>3, <2>2, <2>3, <2>4, <2>5
<1>5. CASE RetryNext
  <2>1. PICK p \in job["worker"].todo :
          job' = [job EXCEPT !["worker"].at = "notify", !["worker"].proposal = p,
                             !["worker"].todo = @ \ {p}]
    BY <1>5 DEF RetryNext
  <2>2. job["worker"].at = "retry" /\ UNCHANGED <<device, delivery, push, events>>
    BY <1>5 DEF RetryNext
  <2> DEFINE next == [job["worker"] EXCEPT !.at = "notify", !.proposal = p,
                                           !.todo = job["worker"].todo \ {p}]
  <2>3. job["worker"] \in Job /\ job["worker"].batch = {} /\ job["worker"].marks = {}
        /\ job["worker"].mark = {}
    BY <1>0, <2>2, JobType, Shapes DEF CountInv
  <2>4. /\ next.at = "notify" /\ next.proposal = p /\ next.todo \subseteq job["worker"].todo
        /\ next.batch = {} /\ next.marks = {} /\ next.mark = {}
    BY <2>3 DEF Job
  <2>5. job' = [job EXCEPT !["worker"] = next]
    BY <1>0, <2>1, <2>3 DEF Typed, Job
  <2> HIDE DEF next
  <2> QED
    BY <1>1, <1>2, <1>3, <2>2, <2>4, <2>5
<1>6. CASE ListTicketed
  <2>1. PICK next : /\ job' = [job EXCEPT !["worker"] = next] /\ next.at \in {"idle", "fetch"}
                    /\ next.todo = {} /\ next.batch = {} /\ next.marks = {} /\ next.mark = {}
    <3>1. CASE Ticketed = {}
      <4>1. job' = [job EXCEPT !["worker"] = Idle]
        BY <1>6, <3>1 DEF ListTicketed
      <4>2. /\ Idle.at = "idle" /\ Idle.todo = {} /\ Idle.batch = {} /\ Idle.marks = {}
            /\ Idle.mark = {}
        BY DEF Idle
      <4> HIDE DEF Idle
      <4> QED
        BY <4>1, <4>2
    <3>2. CASE Ticketed # {}
      <4> DEFINE asked == {<<k[1], k[2], delivery[k].ticket>> : k \in Ticketed}
                 listed == [Idle EXCEPT !.at = "fetch", !.asked = asked]
      <4>1. job' = [job EXCEPT !["worker"] = listed]
        BY <1>6, <3>2 DEF ListTicketed
      <4> HIDE DEF asked
      <4>2. /\ listed.at = "fetch" /\ listed.todo = {} /\ listed.batch = {} /\ listed.marks = {}
            /\ listed.mark = {}
        BY DEF Idle
      <4> HIDE DEF listed
      <4> QED
        BY <4>1, <4>2
    <3> QED
      BY <3>1, <3>2
  <2>2. job["worker"].at = "retry" /\ UNCHANGED <<device, delivery, push, events>>
    BY <1>6 DEF ListTicketed
  <2> QED
    BY <1>1, <2>1, <2>2
<1>7. CASE Fetch
  <2>1. PICK receipts \in Receipts :
        /\ push' = [k \in Deliveries |-> [n \in DOMAIN push[k] |->
             IF <<k[1], k[2], n>> \in DOMAIN receipts THEN receipts[<<k[1], k[2], n>>]
             ELSE push[k][n]]]
        /\ job' = [job EXCEPT !["worker"] =
             IF Collected(receipts) = {} THEN Idle
             ELSE [Idle EXCEPT !.at = "mark",
                               !.marks = {ReceiptMark(a, receipts[a]) : a \in Collected(receipts)}]]
    BY <1>7 DEF Fetch, Deliveries
  <2>2. job["worker"].at = "fetch" /\ UNCHANGED <<device, delivery, events>>
    BY <1>7 DEF Fetch
  <2>3. ASSUME NEW k \in Deliveries PROVE Len(push'[k]) = Len(push[k])
    <3>1. push[k] \in Seq(Receipt) /\ DOMAIN push[k] = 1 .. Len(push[k]) /\ Len(push[k]) \in Nat
      BY <1>0, LenType DEF Typed
    <3>2. push'[k] \in Seq(Receipt)
      BY DEF Typed
    <3>3. DOMAIN push'[k] = 1 .. Len(push'[k]) /\ Len(push'[k]) \in Nat
      BY <3>2, LenProperties
    <3>4. DOMAIN push'[k] = 1 .. Len(push[k])
      BY <2>1, <3>1
    <3> QED
      BY <3>1, <3>3, <3>4
  <2> DEFINE marks == {ReceiptMark(a, receipts[a]) : a \in Collected(receipts)}
  <2>4. \A m \in marks : ~m.counts
    BY DEF ReceiptMark
  <2>5. job' = [job EXCEPT !["worker"] = IF Collected(receipts) = {} THEN Idle
                                         ELSE [Idle EXCEPT !.at = "mark", !.marks = marks]]
    BY <2>1
  <2> HIDE DEF marks
  <2>6. PICK next : /\ job' = [job EXCEPT !["worker"] = next] /\ next.at \in {"idle", "mark"}
                    /\ next.todo = {} /\ next.batch = {} /\ next.mark = {}
                    /\ next.marks \subseteq marks /\ (next.marks # {} => next.at = "mark")
    <3>1. CASE Collected(receipts) = {}
      <4>1. job' = [job EXCEPT !["worker"] = Idle]
        BY <2>5, <3>1
      <4>2. /\ Idle.at = "idle" /\ Idle.todo = {} /\ Idle.batch = {} /\ Idle.marks = {}
            /\ Idle.mark = {}
        BY DEF Idle
      <4> HIDE DEF Idle
      <4> QED
        BY <4>1, <4>2
    <3>2. CASE Collected(receipts) # {}
      <4> DEFINE collected == [Idle EXCEPT !.at = "mark", !.marks = marks]
      <4>1. job' = [job EXCEPT !["worker"] = collected]
        BY <2>5, <3>2
      <4>2. /\ collected.at = "mark" /\ collected.todo = {} /\ collected.batch = {}
            /\ collected.mark = {} /\ collected.marks = marks
        BY DEF Idle
      <4> HIDE DEF collected
      <4> QED
        BY <4>1, <4>2
    <3> QED
      BY <3>1, <3>2
  <2> QED
    BY <1>1, <2>2, <2>3, <2>4, <2>6
<1>8. CASE FetchFails
  <2>1. job' = [job EXCEPT !["worker"] = Idle]
    BY <1>8 DEF FetchFails, Aborted
  <2>2. job["worker"].at = "fetch" /\ UNCHANGED <<device, delivery, push, events>>
    BY <1>8 DEF FetchFails
  <2>3. /\ Idle.at = "idle" /\ Idle.todo = {} /\ Idle.batch = {} /\ Idle.marks = {}
        /\ Idle.mark = {}
    BY DEF Idle
  <2> HIDE DEF Idle
  <2> QED
    BY <1>1, <2>1, <2>2, <2>3
<1> QED
  BY <1>4, <1>5, <1>6, <1>7, <1>8

(* The counts hold at first and in every step.                             *)
LEMMA InitCount == Init => CountInv
<1> SUFFICES ASSUME Init PROVE CountInv
  OBVIOUS
<1>1. \A j \in Processes : job[j] = Idle
  BY DEF Init
<1>2. /\ Idle.at = "idle" /\ Idle.batch = {} /\ Idle.marks = {} /\ Idle.mark = {}
  BY DEF Idle
<1>3. \A k \in Deliveries : delivery[k] = NoDelivery /\ push[k] = <<>>
  BY DEF Init, Deliveries
<1>4. NoDelivery.status = "absent" /\ NoDelivery.attempts = 0
  BY DEF NoDelivery
<1> HIDE DEF Idle, NoDelivery
<1>5. ASSUME NEW j \in Processes, NEW k PROVE ~Posting(j, k) /\ ~Sending(j, k)
  BY <1>1, <1>2 DEF Posting, Sending, Marks
<1>6. ASSUME NEW k \in Deliveries PROVE Count(k)
  <2>1. Len(push[k]) = 0
    BY <1>3
  <2>2. Pushes(k) = 0
    BY <1>5, <2>1 DEF Pushes, One, Processes
  <2>3. events = 0 /\ MaxAttempts \in Nat
    BY NotificationAssumption DEF Init
  <2> QED
    BY <1>3, <1>4, <2>2, <2>3 DEF Count
<1>7. Untouched
  BY <1>3, <1>4, <1>5 DEF Untouched
<1>8. First /\ Shaped
  BY <1>1, <1>2 DEF First, Shaped, Marks, Processes
<1> QED
  BY <1>6, <1>7, <1>8 DEF CountInv, Counting

LEMMA NextCount == IndInv /\ CountInv /\ [Next]_vars => CountInv'
<1> SUFFICES ASSUME IndInv, CountInv, [Next]_vars PROVE CountInv'
  OBVIOUS
<1>1. Typed'
  BY NextInv DEF IndInv
<1>2. ASSUME NEW j \in Processes, Work(j) PROVE CountInv'
  BY <1>1, <1>2, NotifyCount, PostCount, LoadCount, CommitCount DEF Work
<1>3. ASSUME NEW j \in Processes, Crash(j) PROVE CountInv'
  BY <1>1, <1>3, StopCount DEF Crash, Event, Aborted
<1>4. CASE UNCHANGED vars
  <2>1. UNCHANGED <<device, delivery, job, push, events>>
    BY <1>4 DEF vars
  <2>2. ASSUME NEW i, NEW k
        PROVE  /\ Posting(i, k)' <=> Posting(i, k)
               /\ Sending(i, k)' <=> Sending(i, k)
               /\ Loaded(i, k)' <=> Loaded(i, k)
    BY <2>1, SameJob
  <2>3. Doomed' <=> Doomed
    BY <2>1 DEF Doomed, Marks
  <2>4. ASSUME NEW k \in Deliveries PROVE Count(k)'
    <3>1. Pushes(k)' <= Pushes(k)
      BY <1>1, <2>1, <2>2, PushesKept DEF IndInv
    <3>2. Count(k) /\ Typed /\ events <= events'
      BY <2>1, Numbers DEF CountInv, Counting, IndInv
    <3> QED
      BY <1>1, <2>1, <2>2, <2>3, <3>1, <3>2, CountKept DEF Kept
  <2>5. Untouched'
    BY <2>1, <2>2 DEF CountInv, Untouched
  <2>6. First' /\ Shaped'
    BY <2>1 DEF CountInv, First, Shaped, Marks
  <2> QED
    BY <2>4, <2>5, <2>6 DEF CountInv, Counting
<1> QED
  BY <1>1, <1>2, <1>3, <1>4, UserCount, CreateCount, CycleCount DEF Next, Worker, Processes

(* How often a delivery was pushed and counted, in every reachable state.  *)
THEOREM CountInvariance == Spec => []CountInv
<1>1. Init => IndInv /\ CountInv
  BY InitInv, InitCount
<1>2. IndInv /\ CountInv /\ [Next]_vars => (IndInv /\ CountInv)'
  BY NextInv, NextCount
<1> QED
  BY <1>1, <1>2, PTL DEF Spec

(* Retries stop: the attempts counted pass the limit by one at most, and   *)
(* the pushes of a device by the limit once more and what was lost.        *)
THEOREM PushesAreBounded == Spec => []PushesBounded
<1>1. IndInv /\ CountInv => PushesBounded
  <2> SUFFICES ASSUME IndInv, CountInv, NEW k \in Deliveries
               PROVE  /\ delivery[k].attempts <= MaxAttempts + 1
                      /\ Len(push[k]) <= 2 * MaxAttempts + events
    BY DEF PushesBounded, Deliveries
  <2> DEFINE a == delivery[k].attempts
  <2>1. /\ MaxAttempts \in Nat /\ events \in Nat /\ a \in Nat /\ Len(push[k]) \in Nat
        /\ Due(k) \in {0, 1}
    BY Numbers, OneType DEF IndInv
  <2>2. Len(push[k]) <= Pushes(k) /\ Pushes(k) \in Nat
    BY <2>1, OneType DEF Pushes
  <2>3. Count(k)
    BY DEF CountInv, Counting
  <2>4. Len(push[k]) <= 2 * MaxAttempts + events
    BY <2>1, <2>2, <2>3 DEF Count
  <2>5. a <= MaxAttempts + 1
    <3>1. CASE delivery[k].status = "absent"
      <4>1. a = 0
        BY <3>1 DEF CountInv, Untouched
      <4> QED
        BY <2>1, <4>1
    <3>2. CASE delivery[k].status # "absent" /\ Sending("market", k)
      BY <2>1, <2>3, <3>2 DEF Count, BothSend
    <3>3. CASE delivery[k].status # "absent" /\ ~Sending("market", k)
      BY <2>1, <2>3, <3>3 DEF Count, OneSends
    <3> QED
      BY <3>1, <3>2, <3>3
  <2> QED
    BY <2>4, <2>5
<1> QED
  BY <1>1, Invariance, CountInvariance, PTL

=============================================================================
