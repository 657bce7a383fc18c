------------------------------ MODULE CourierCalls ------------------------------
(***************************************************************************)
(* What the operations of the courier adapters ask of their providers.     *)
(***************************************************************************)
EXTENDS Calls

-----------------------------------------------------------------------------
(* Cargus. A raw answer is judged by the adapters of this family           *)
(* themselves: of an error status only 401 is told apart.                  *)

CargusLogin ==
    Renamed(Renamed(Once(Ask), Answered, "auth"), {"lost"}, "server")
      \o Optional(Raise("auth"))

\* A status of 401 becomes an AuthenticationError, 403 and the rest a
\* ProviderError.
Judged(request) ==
    Renamed(Try(request, {"auth"}, RaiseAny({"auth", "server"})),
            {"limited", "missing", "client", "lost"}, "server")

\* A token that is not accepted is replaced once.
CargusCall(request) ==
    Optional(CargusLogin)
      \o Try(Judged(request) \o Optional(Raise("auth")), {"auth"},
             CargusLogin \o Judged(request) \o Optional(Raise("auth")))

CargusClient == [
    pickup_locations |-> CargusCall(Ask),
    create_awb |-> CargusCall(Once(Make("awb"))) \o Optional(Raise("server")),
    awb_documents |-> CargusCall(Ask),
    trace |-> CargusCall(Ask),
    delete_awb |-> CargusCall(Once(Drop)),
    awbs_by_date |-> CargusCall(Ask)]

Cargus == [
    validate_credentials |-> Local,
    test_connection |-> Told(CargusClient.pickup_locations) \o Optional(Tell),
    generate_awb |->
        Optional(Raise("invalid"))
          \o Optional(CargusClient.pickup_locations
                        \o Optional(Raise("invalid")))
          \o Try(CargusClient.create_awb, {"server"},
                 Either(Raise("invalid"), Reraise))
          \o Optional(Raise("server"))
          \o Try(CargusClient.awb_documents, {"server"}, Forget),
    get_tracking |-> CargusClient.trace,
    cancel_shipment |->
        Try(CargusClient.delete_awb \o Optional(Tell), {"server"}, Tell),
    get_shipments |-> CargusClient.awbs_by_date]

-----------------------------------------------------------------------------
(* FAN Courier                                                             *)

\* The body alone says whether the login went well.
FanLogin ==
    Renamed(Renamed(Once(Ask), Answered, "auth"), {"lost"}, "server")
      \o Optional(Raise("auth"))

FanCall(request) ==
    Optional(FanLogin)
      \o Try(Judged(request), {"auth"}, FanLogin \o Judged(request))
      \o Optional(Raise("server"))

FanClient == [
    branches |-> FanCall(Ask),
    services |-> FanCall(Ask),
    create_awb |-> FanCall(Once(Make("awb"))) \o Optional(Raise("server")),
    label |-> FanCall(Ask),
    tracking |-> FanCall(Ask),
    delete_awb |-> FanCall(Once(Drop)),
    awb_report |-> FanCall(Ask)]

FanBranch == Optional(FanClient.branches \o Optional(Raise("invalid")))

FanCourier == [
    validate_credentials |-> Local,
    test_connection |-> Told(FanClient.branches) \o Optional(Tell),
    generate_awb |->
        Optional(Raise("invalid"))
          \o FanBranch \o FanClient.create_awb \o Optional(Raise("invalid"))
          \o Try(FanClient.label, {"server"}, Forget),
    get_tracking |-> FanBranch \o FanClient.tracking,
    cancel_shipment |->
        Try(FanBranch \o FanClient.delete_awb, {"server"}, Tell),
    get_shipments |-> FanBranch \o FanClient.awb_report]

-----------------------------------------------------------------------------
(* DPD: the body holds the error, whatever the status.                     *)

DpdCall(request) ==
    Renamed(Try(request, Answered, RaiseAny({"auth", "server"})), {"lost"},
            "server")
      \o Optional(RaiseAny({"auth", "server"}))

DpdClient == [
    own_client_id |-> DpdCall(Ask),
    contract_clients |-> DpdCall(Ask),
    find_sites |-> DpdCall(Ask),
    find_streets |-> DpdCall(Ask),
    create_shipment |-> DpdCall(Once(Make("shipment"))),
    print_labels |-> DpdCall(Ask),
    track |-> DpdCall(Ask),
    cancel_shipment |-> DpdCall(Once(Change))]

Dpd == [
    validate_credentials |-> Local,
    test_connection |-> Told(DpdClient.own_client_id),
    generate_awb |->
        Optional(Raise("invalid"))
          \o Optional(Optional(DpdClient.find_sites)
                        \o Optional(DpdClient.find_sites)
                        \o Optional(DpdClient.find_streets))
          \o Try(DpdClient.create_shipment, {"server"},
                 Either(Raise("invalid"), Reraise))
          \o Optional(Raise("server"))
          \o Try(DpdClient.print_labels, {"server"}, Forget),
    get_tracking |-> DpdClient.track \o Optional(Forget),
    cancel_shipment |-> Try(DpdClient.cancel_shipment, {"server"}, Tell),
    get_shipments |-> Local]

-----------------------------------------------------------------------------
(* eColet books in the background, and its adapter waits for the order.    *)

EcoletGrant ==
    Renamed(Renamed(Once(Ask), Answered, "auth"), {"lost"}, "server")
      \o Optional(Raise("auth"))

\* A refresh token that is not accepted is replaced by the password.
EcoletLogin ==
    Optional(Either(Try(EcoletGrant, {"auth"}, EcoletGrant), EcoletGrant))

EcoletCall(request) == EcoletLogin \o Judged(request)

EcoletClient == [
    me |-> EcoletCall(Ask) \o Optional(Raise("auth")),
    services |-> EcoletCall(Ask),
    address_book |-> EcoletCall(Ask),
    search_localities |-> EcoletCall(Ask),
    reload_form |-> EcoletCall(Ask),
    send_order |-> EcoletCall(Once(Make("order"))),
    order_to_send |-> EcoletCall(Ask),
    order |-> EcoletCall(Ask),
    download_waybill |-> EcoletCall(Ask),
    statuses_by_awb |-> EcoletCall(Ask),
    cancel_order |-> EcoletCall(Once(Drop)),
    list_orders |-> EcoletCall(Ask)]

\* It waits no longer than it may.
EcoletBooked ==
    EcoletClient.order_to_send
      \o Each(EcoletClient.order_to_send) \o Optional(Raise("server"))

Ecolet == [
    validate_credentials |-> Local,
    test_connection |-> Told(EcoletClient.me) \o Optional(Tell),
    generate_awb |->
        Optional(Raise("invalid"))
          \o Optional(EcoletClient.me
                        \o EcoletClient.address_book
                        \o Optional(Raise("invalid")))
          \o Optional(EcoletClient.search_localities)
          \o Optional(EcoletClient.search_localities)
          \o EcoletClient.reload_form \o Optional(Raise("invalid"))
          \o EcoletClient.send_order \o EcoletBooked \o EcoletClient.order
          \o Try(EcoletClient.download_waybill, {"server"}, Forget),
    get_tracking |-> EcoletClient.statuses_by_awb,
    cancel_shipment |->
        EcoletClient.statuses_by_awb
          \o Either(Tell, Try(EcoletClient.cancel_order, {"server"}, Tell)),
    get_shipments |-> EcoletClient.list_orders]

-----------------------------------------------------------------------------
(* GLS answers with status 200 and a list of errors.                       *)

GlsClient == [
    test_auth |-> Told(Ask) \o Optional(Tell),
    generate_awb |-> Once(Make("awb")),
    delete_parcel |-> Once(Drop),
    get_parcel_status |-> Ask,
    get_parcel_list_statuses |-> Optional(Raise("broken")) \o Ask,
    get_parcel_list |-> Ask,
    get_printed_labels |-> Ask,
    get_delivery_points |-> Ask]

GlsRefusal == Optional(RaiseAny({"auth", "limited", "server", "invalid"}))

Gls == [
    validate_credentials |-> Local,
    test_connection |-> Told(GlsClient.test_auth),
    generate_awb |->
        GlsClient.generate_awb
          \o Optional(GlsRefusal \o Raise("invalid")) \o Optional(Forget)
          \o Optional(Try(GlsClient.get_printed_labels, {"server"}, Forget)),
    get_tracking |-> GlsClient.get_parcel_status \o Optional(Forget),
    cancel_shipment |->
        Optional(Raise("invalid"))
          \o GlsClient.delete_parcel \o GlsRefusal \o Optional(Tell),
    get_shipments |-> GlsClient.get_parcel_list \o GlsRefusal,
    get_tracking_batch |->
        Each(GlsClient.get_parcel_list_statuses
               \o Optional(Raise("auth")) \o Optional(Forget)),
    get_delivery_points |-> GlsClient.get_delivery_points \o GlsRefusal]

-----------------------------------------------------------------------------
(* Sameday                                                                 *)

SamedayLogin == Optional(Ask \o Optional(Raise("broken")))

SamedayClient == [
    test_auth |-> Told(Ask \o Optional(Raise("broken"))),
    generate_awb |-> SamedayLogin \o Make("awb"),
    delete_parcel |-> SamedayLogin \o Drop,
    download_awb |-> SamedayLogin \o Unread(Ask),
    get_parcel_status |-> SamedayLogin \o Ask,
    get_pickup_points |-> SamedayLogin \o Ask,
    get_awb_list |-> SamedayLogin \o Ask]

Sameday == [
    validate_credentials |-> Local,
    test_connection |-> Told(SamedayClient.test_auth),
    generate_awb |->
        Optional(SamedayClient.get_pickup_points \o Optional(Raise("broken")))
          \o SamedayClient.generate_awb
          \o Optional(Swallowed(SamedayClient.download_awb)),
    get_tracking |-> SamedayClient.get_parcel_status,
    cancel_shipment |-> Told(SamedayClient.delete_parcel),
    get_shipments |-> SamedayClient.get_awb_list]

-----------------------------------------------------------------------------
(* Colete Online                                                           *)

ColeteLogin == Optional(Ask \o Optional(Raise("broken")))

ColeteClient == [
    test_auth |-> Told(Ask \o Optional(Raise("broken"))),
    create_order |-> ColeteLogin \o Make("order"),
    get_order_status |-> ColeteLogin \o Ask,
    download_awb |-> ColeteLogin \o Unread(Ask),
    get_price |-> ColeteLogin \o Ask,
    get_services |-> ColeteLogin \o Ask,
    get_addresses |-> ColeteLogin \o Ask,
    get_balance |-> ColeteLogin \o Ask,
    search_location |-> ColeteLogin \o Ask,
    search_city |-> ColeteLogin \o Ask,
    get_shipping_points_localities |-> ColeteLogin \o Ask,
    get_shipping_points_list |-> ColeteLogin \o Ask]

ColeteOnline == [
    validate_credentials |-> Local,
    test_connection |-> Told(ColeteClient.test_auth),
    generate_awb |->
        ColeteClient.create_order
          \o Optional(Swallowed(ColeteClient.download_awb)),
    get_tracking |-> ColeteClient.get_order_status,
    cancel_shipment |-> Unsupported,
    get_shipments |-> Local]

-----------------------------------------------------------------------------
ParcelCalls == [
    courier_cargus_client |-> CargusClient,
    courier_cargus |-> Cargus,
    courier_fancourier_client |-> FanClient,
    courier_fancourier |-> FanCourier,
    courier_dpd_client |-> DpdClient,
    courier_dpd |-> Dpd,
    courier_ecolet_client |-> EcoletClient,
    courier_ecolet |-> Ecolet,
    courier_gls_client |-> GlsClient,
    courier_gls |-> Gls,
    courier_sameday_client |-> SamedayClient,
    courier_sameday |-> Sameday,
    courier_colete_online_client |-> ColeteClient,
    courier_colete_online |-> ColeteOnline]

=============================================================================
