----------------------------- MODULE MCAdapters -----------------------------
(* Instances of Courier, Operations and OrderStatuses for TLC: each        *)
(* behaviour is one of one of them, in which the others stand still.       *)
EXTENDS Courier, Operations, OrderStatuses, Payments, Shops, AdCalls,
        SocialCalls, MessagingCalls, CourierCalls, StorageCalls, EmailCalls,
        ServiceCalls

MCSetups == Couriers

MCCatalogue ==
    PaymentCalls @@ ShopCalls @@ AdvertisingCalls @@ SocialNetworkCalls
      @@ ChatCalls @@ ParcelCalls @@ FileCalls @@ MailCalls @@ OtherCalls

MCShops == DOMAIN Inbounds

\* A tenant maps a status of his own in one direction, or in both; one maps as
\* in the comment of status_mapping.py; one claims the raw statuses of others
\* and misspells one; one writes and reads cancellations as he likes.
Maps(in, out) == [inbound |-> in, outbound |-> out]
MCConfigs == {
    Maps(<<>>, <<>>), Maps("own" :> "shipped", <<>>),
    Maps(<<>>, "shipped" :> "own"), Maps("own" :> "shipped", "shipped" :> "own"),
    Maps(("wc-shipped" :> "shipped") @@ ("processing" :> "processing"),
         ("shipped" :> "wc-shipped") @@ ("delivered" :> "completed")),
    Maps(("completed" :> "shipped") @@ ("2" :> "sent"),
         ("sent" :> "3") @@ ("cancelled" :> "")),
    Maps(("restocked" :> "cancelled") @@ ("cancelled" :> "cancelled")
           @@ ("6" :> "cancelled"),
         "cancelled" :> "6")}

MCSymmetry == Permutations(Callers)

VARIABLE part  \* the module whose behaviour this is

CourierIdle == courier = "gls" /\ Init

OpIdle ==
    /\ provider = "none" /\ operation = "none" /\ todo = <<>>
    /\ error = "none" /\ last = "none" /\ repeated = {} /\ hidden = {}
    /\ blind = FALSE /\ refused = FALSE /\ told = FALSE
    /\ outcome = "returned"

StatusIdle ==
    /\ shop = "altex" /\ config = Maps(<<>>, <<>>) /\ raw = "1"
    /\ known = "pending" /\ drifted = FALSE

MCInit ==
    \/ part = "courier" /\ Init /\ OpIdle /\ StatusIdle
    \/ part = "operations" /\ CourierIdle /\ OpInit /\ StatusIdle
    \/ part = "statuses" /\ CourierIdle /\ OpIdle /\ StatusInit

Books == part = "courier" /\ UNCHANGED <<part, opVars, statusVars>>
Asks == part = "operations" /\ UNCHANGED <<part, vars, statusVars>>
Moves == part = "statuses" /\ UNCHANGED <<part, vars, opVars>>

\* The disjuncts of Next, OpNext and StatusNext, each for itself.
MCNext ==
    \/ Books /\ Elapse
    \/ \E t \in alive : Books /\ Revoke(t)
    \/ \E c \in Callers :
         \/ Books /\ Generate(c)
         \/ Books /\ NextShipment(c)
         \/ Books /\ Look(c)
         \/ Books /\ Take(c)
         \/ Books /\ LogIn(c)
         \/ Books /\ Store(c)
         \/ Books /\ Unauthorized(c)
         \/ Books /\ Prepare(c)
         \/ Books /\ Book(c)
         \/ Books /\ Refuse(c)
         \/ Books /\ Fail(c)
         \/ Books /\ Wait(c)
         \/ Books /\ Label(c)
    \/ Asks /\ \E way \in {"ok"} \cup Failures : Send(way)
    \/ Asks /\ Branch
    \/ Asks /\ Repeat
    \/ Asks /\ Enter
    \/ Asks /\ Leave
    \/ Asks /\ Report
    \/ Asks /\ Overlook
    \/ Asks /\ Fails
    \/ Asks /\ Finish
    \/ Moves /\ \E status \in DOMAIN Reads \cup {Other} : MoveOrder(status)
    \/ Moves /\ ReadOrder
    \/ Moves /\ \E status \in OrderStatus : UpdateOrderStatus(status)

MCSpec == MCInit /\ [][MCNext]_<<part, vars, opVars, statusVars>>

=============================================================================
