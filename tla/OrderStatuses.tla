--------------------------- MODULE OrderStatuses ---------------------------
(***************************************************************************)
(* The status of an order between a shop and the application: what an      *)
(* adapter reads the shop's status as, what it writes for a status of the  *)
(* application, and what a tenant may override (StatusMapper).             *)
(*                                                                         *)
(* One order.  The shop moves it as it likes; the application reads it and *)
(* writes a status, its own or the one it read.                            *)
(***************************************************************************)

CONSTANTS
    StatusShops, \* the shops the order may be in
    Configs      \* what tenants map: a record of inbound, a function of raw
                 \* statuses, and outbound, a function of statuses

\* OrderStatus
OrderStatus == {"pending", "accepted", "processing", "shipped", "delivered",
                "cancelled", "returned", "refunded"}

-----------------------------------------------------------------------------
(* The tables of the mappers: the raw statuses that are read as a status,  *)
(* and the one that is written for it                                      *)

WooInbound == [
    pending |-> {"pending", "processing", "on-hold"},
    delivered |-> {"completed"},
    cancelled |-> {"cancelled", "refunded", "failed"}]

WooOutbound == [
    pending |-> "pending", accepted |-> "processing",
    processing |-> "processing", shipped |-> "completed",
    delivered |-> "completed", cancelled |-> "cancelled",
    returned |-> "refunded", refunded |-> "refunded"]

\* What is read is the fulfilment; what can be written is a cancellation.
ShopifyInbound == [
    pending |-> {"unfulfilled"}, processing |-> {"partial"},
    delivered |-> {"fulfilled"}, returned |-> {"restocked"}]

ShopifyOutbound == [cancelled |-> "cancelled"]

PrestaInbound == [
    pending |-> {"1", "9", "10"}, accepted |-> {"2"},
    processing |-> {"3", "11", "12"}, shipped |-> {"4"}, delivered |-> {"5"},
    cancelled |-> {"6", "8"}, refunded |-> {"7"}]

PrestaOutbound == [
    pending |-> "1", accepted |-> "2", processing |-> "3", shipped |-> "4",
    delivered |-> "5", cancelled |-> "6", refunded |-> "7", returned |-> "7"]

GomagInbound == [
    pending |-> {"Comanda NEW", "Comanda email", "Comanda telefonica",
                 "Comanda in asteptare"},
    accepted |-> {"Comanda depozitata", "Comanda depozit"},
    processing |-> {"In curs de procesare"},
    shipped |-> {"Comanda in curs de livrare"},
    delivered |-> {"Livrata", "Comanda incheiata"}, cancelled |-> {"Anulata"},
    returned |-> {"Retur", "Returnata"}]

GomagOutbound == [
    pending |-> "Comanda NEW", accepted |-> "Comanda depozitata",
    processing |-> "In curs de procesare",
    shipped |-> "Comanda in curs de livrare", delivered |-> "Livrata",
    cancelled |-> "Anulata", returned |-> "Retur", refunded |-> "Retur"]

EmagInbound == [
    cancelled |-> {"0"}, pending |-> {"1"}, accepted |-> {"2"},
    shipped |-> {"3"}, delivered |-> {"4"}, returned |-> {"5"}]

EmagOutbound == [
    pending |-> "1", accepted |-> "2", processing |-> "2", shipped |-> "3",
    delivered |-> "4", cancelled |-> "0", returned |-> "5", refunded |-> "5"]

\* Faulty variant: what is delivered is written as closed.
MagentoOutboundClosed == [
    pending |-> "pending", accepted |-> "processing",
    processing |-> "processing", shipped |-> "complete",
    delivered |-> "closed", cancelled |-> "canceled",
    refunded |-> "closed", returned |-> "closed"]

MagentoInbound == [
    pending |-> {"pending", "pending_payment", "holded", "payment_review"},
    processing |-> {"processing"}, delivered |-> {"complete"},
    refunded |-> {"closed"}, cancelled |-> {"canceled", "fraud"}]

MagentoOutbound == [
    pending |-> "pending", accepted |-> "processing",
    processing |-> "processing", shipped |-> "complete",
    delivered |-> "complete", cancelled |-> "canceled",
    refunded |-> "closed", returned |-> "closed"]

AltexInbound == [
    pending |-> {"1"}, accepted |-> {"2"}, processing |-> {"3", "8"},
    shipped |-> {"4"}, delivered |-> {"5", "9"}, returned |-> {"6"},
    cancelled |-> {"7", "10"}, refunded |-> {"11"}]

AltexOutbound == [
    accepted |-> "2", processing |-> "2", shipped |-> "4", delivered |-> "9",
    cancelled |-> "7", returned |-> "6"]

\* The dictionary of such a table.
Table(raws) == [
    raw \in UNION {raws[status] : status \in DOMAIN raws} |->
      CHOOSE status \in DOMAIN raws : raw \in raws[status]]

Inbounds == [
    woocommerce |-> Table(WooInbound), shopify |-> Table(ShopifyInbound),
    prestashop |-> Table(PrestaInbound), gomag |-> Table(GomagInbound),
    emag |-> Table(EmagInbound), magento |-> Table(MagentoInbound),
    altex |-> Table(AltexInbound)]

Outbounds == [
    woocommerce |-> WooOutbound, shopify |-> ShopifyOutbound,
    prestashop |-> PrestaOutbound, gomag |-> GomagOutbound,
    emag |-> EmagOutbound, magento |-> MagentoOutbound,
    altex |-> AltexOutbound]

ASSUME StatusShopsAssumption == StatusShops \subseteq DOMAIN Inbounds

-----------------------------------------------------------------------------
VARIABLES
    shop,    \* the shop of the order
    config,  \* what the tenant maps
    raw,     \* the status of the order in the shop
    known,   \* the status the application read last
    drifted  \* history: writing what was read changed what is read

statusVars == <<shop, config, raw, known, drifted>>

\* What the tenant maps in place of the table; what is no OrderStatus is
\* skipped.  The orders of PrestaShop and Altex are read without it, and those
\* of Shopify and Altex written.
OwnInbound ==
    LET own == config.inbound
    IN [r \in {x \in DOMAIN own : /\ own[x] \in OrderStatus
                                 /\ shop \notin {"prestashop", "altex"}}
          |-> own[r]]

OwnOutbound ==
    [s \in {x \in DOMAIN config.outbound : /\ x \in OrderStatus
                                          /\ shop \notin {"shopify", "altex"}}
       |-> config.outbound[s]]

Merged(own, default) ==
    [x \in DOMAIN own \cup DOMAIN default |->
       IF x \in DOMAIN own THEN own[x] ELSE default[x]]

Reads == Merged(OwnInbound, Inbounds[shop])
Writes == Merged(OwnOutbound, Outbounds[shop])

\* to_framework
ToFramework(status) ==
    IF status \in DOMAIN Reads THEN Reads[status] ELSE "pending"

StatusInit ==
    /\ shop \in StatusShops
    /\ config \in Configs
    /\ raw \in DOMAIN Inbounds[shop]
    /\ known = ToFramework(raw)
    /\ drifted = FALSE

\* A status of the shop that no table knows.
Other == "other"

\* The shop moves the order.
MoveOrder(status) ==
    /\ raw' = status
    /\ UNCHANGED <<shop, config, known, drifted>>

\* get_order
ReadOrder ==
    /\ known' = ToFramework(raw)
    /\ UNCHANGED <<shop, config, raw, drifted>>

\* The statuses that can be written: Shopify cancels and no more, and one
\* without a raw status is refused before anything is sent.
Writable == {status \in DOMAIN Writes : Writes[status] # ""}

\* What the order is once this status is written: Shopify keeps the fulfilment.
Written(status) == IF shop = "shopify" THEN raw ELSE Writes[status]

\* update_order_status, which reads the order again.
UpdateOrderStatus(status) ==
    /\ status \in Writable
    /\ raw' = Written(status)
    /\ known' = ToFramework(raw')
    /\ drifted' = (drifted \/ (status = known /\ known' # known))
    /\ UNCHANGED <<shop, config>>

StatusNext ==
    \/ \E status \in DOMAIN Reads \cup {Other} : MoveOrder(status)
    \/ ReadOrder
    \/ \E status \in OrderStatus : UpdateOrderStatus(status)

StatusSpec == StatusInit /\ [][StatusNext]_statusVars

-----------------------------------------------------------------------------
\* What the tenant maps is read as it is written, and he claims no raw status
\* for anything but the status that the table writes it for.
Agrees ==
    /\ \A status \in DOMAIN OwnOutbound
                       \cup {OwnInbound[r] : r \in DOMAIN OwnInbound} :
         status \in Writable => ToFramework(Writes[status]) = status
    /\ \A status \in DOMAIN Outbounds[shop] \ DOMAIN OwnOutbound :
         LET r == Outbounds[shop][status]
         IN (\E x \in DOMAIN Inbounds[shop] : Inbounds[shop][x] = status)
              /\ r \in DOMAIN OwnInbound
            => OwnInbound[r] = status

\* The application may write back the status it knows, whatever the shop did to
\* the order since: what it reads then is the same status, and so an order that
\* two sides keep writing settles, if what its tenant maps agrees.  Left out are
\* Altex, where an order that is processing is written as in progress and read
\* as accepted, and tenants of Shopify who read an order as cancelled, for what
\* they read there is the fulfilment and a cancellation does not change it.
StatusSettles ==
    drifted => \/ shop = "altex"
               \/ ~Agrees
               \/ shop = "shopify"
                    /\ \E r \in DOMAIN OwnInbound : OwnInbound[r] = "cancelled"

=============================================================================
