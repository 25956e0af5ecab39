-------------------------- MODULE MCNotifications --------------------------
(***************************************************************************)
(* A small instance of Notifications, in which a cycle takes fewer         *)
(* proposals than may have failed. A behaviour is of one of two kinds:     *)
(*                                                                         *)
(* - one proposal is pushed to two devices, with any event;                *)
(* - a second one is pushed after an earlier one, of which a push to a     *)
(*   device now disabled has failed, and perhaps others; the only event is *)
(*   that the device registers again, once it keeps the second one out.    *)
(***************************************************************************)
EXTENDS Notifications, TLC

CONSTANTS
  Early,  \* the proposal that was pushed before, if any was
  Gone    \* the device that Expo did not know, or that changes

(* The earlier proposal failed on Gone at its first push or its retry, and *)
(* on the others Expo's receipt said that it was delivered, or that it     *)
(* failed.                                                                 *)
Earlier ==
  /\ device = [d \in Devices |-> IF d = Gone THEN "disabled" ELSE "active"]
  /\ wanted = TRUE
  /\ created = {Early}
  /\ \E failures \in {<<"unregistered">>, <<"error", "unregistered">>}, receipt \in {"ok", "error"} :
       /\ push = [k \in Proposals \X Devices |->
            CASE k = <<Early, Gone>> -> failures
              [] k[1] = Early /\ k[2] # Gone -> <<receipt>>
              [] OTHER -> <<>>]
       /\ delivery = [k \in Proposals \X Devices |->
            CASE k = <<Early, Gone>> ->
                   [status |-> "failed", ticket |-> 0, attempts |-> Len(failures)]
              [] k[1] = Early /\ k[2] # Gone ->
                   [status |-> IF Received(receipt) THEN "delivered" ELSE "failed",
                    ticket |-> 1, attempts |-> 1]
              [] OTHER -> NoDelivery]
  /\ job = [j \in Processes |-> Idle]
  /\ events = 0

MCInit == Earlier \/ (Init /\ \A d \in Devices \ {Gone} : device[d] = "active")

(* Bounds of the instance: the earlier proposal is not made again, and the *)
(* other devices are like Gone, so that it is enough that events change it. *)
First == Early \notin created
OnlyGone == \A d \in Devices \ {Gone} : device'[d] = device[d]

FirstRegister == First /\ (\E d \in Devices : Register(d)) /\ OnlyGone /\ device' # device
FirstRemove == First /\ Remove(Gone)
FirstFrequency == First /\ SetFrequency
FirstCrash(j) == First /\ Crash(j)

Returns ==
  /\ ~First
  /\ device[Gone] = "disabled"
  /\ \E p \in created : WaitsForRetry(p) /\ KeptOut(p)
  /\ Register(Gone) /\ OnlyGone

MCNext ==
  \/ FirstRegister \/ FirstRemove \/ FirstFrequency
  \/ \E j \in Processes : FirstCrash(j)
  \/ Returns
  \/ \E p \in Proposals \ {Early} : Create(p)
  \/ Work("market")
  \/ Worker

MCSpec == MCInit /\ [][MCNext]_vars /\ Fairness

=============================================================================
