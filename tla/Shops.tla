------------------------------ MODULE Shops ------------------------------
(***************************************************************************)
(* What the operations of the shop adapters ask of their providers.        *)
(***************************************************************************)
EXTENDS Calls

-----------------------------------------------------------------------------
(* WooCommerce: a client made for a domain has no retry policy, so it      *)
(* sends each request once.                                                *)

WooClient == [
    test_auth |-> Told(Ask),
    get_orders |-> Once(Ask),
    get_order |-> Once(Ask),
    update_order |-> Once(Change),
    get_order_status_totals |-> Once(Ask),
    get_refunds |-> Once(Ask),
    get_products |-> Once(Ask),
    get_product |-> Once(Ask),
    create_product |-> Once(Make("product")),
    delete_product |-> Once(Drop),
    update_product |-> Once(Change),
    batch_update_products |-> Once(Change),
    batch_products |-> Once(Make("batch_products")),
    get_categories |-> Once(Ask),
    create_category |-> Once(Make("category")),
    update_category |-> Once(Change)]

WooClientAttributes == [
    get_attributes |-> Once(Ask),
    get_attribute |-> Once(Ask),
    create_attribute |-> Once(Make("attribute")),
    update_attribute |-> Once(Change),
    delete_attribute |-> Once(Drop),
    get_attribute_terms |-> Once(Ask),
    create_attribute_term |-> Once(Make("attribute_term")),
    get_variations |-> Once(Ask),
    get_variation |-> Once(Ask),
    create_variation |-> Once(Make("variation")),
    update_variation |-> Once(Change),
    delete_variation |-> Once(Drop),
    get_settings_group |-> Once(Ask),
    get_taxes |-> Once(Ask),
    get_webhooks |-> Once(Ask),
    create_webhook |-> Once(Make("webhook")),
    delete_webhook |-> Once(Drop)]

WooConnection == [
    detect_settings |->
        Swallowed(WooClientAttributes.get_settings_group)
          \o Swallowed(WooClientAttributes.get_taxes),
    validate_credentials |-> Local,
    test_connection |-> Told(WooClient.test_auth),
    get_authorize_url |-> Local,
    exchange_code_for_token |-> Local,
    refresh_token |-> Unsupported]

WooOrders == [
    get_orders |-> WooClient.get_orders,
    get_order |-> WooClient.get_order,
    find_order_by_reference |-> Optional(WooClient.get_orders),
    list_order_statuses |-> WooClient.get_order_status_totals,
    mark_order_paid |-> WooClient.update_order,
    set_order_status_raw |->
        Optional(Raise("broken")) \o WooClient.update_order,
    update_order_status |->
        Optional(Raise("broken")) \o WooClient.update_order]

WooProducts == [
    get_products |-> WooClient.get_products,
    update_product_stock |-> WooClient.update_product,
    update_product_price |-> WooClient.update_product,
    create_product |-> WooClient.create_product,
    delete_product |-> WooClient.delete_product,
    find_product_by_sku |-> Optional(WooClient.get_products),
    update_product |-> WooClient.update_product,
    get_categories |-> Each(WooClient.get_categories),
    create_category |-> WooClient.create_category,
    update_category |-> WooClient.update_category,
    get_attributes |->
        WooClientAttributes.get_attributes
          \o Each(Optional(WooClientAttributes.get_attribute_terms)),
    get_attribute |->
        WooClientAttributes.get_attribute
          \o WooClientAttributes.get_attribute_terms,
    create_attribute |->
        WooClientAttributes.create_attribute
          \o Optional(Each(WooClientAttributes.create_attribute_term)),
    update_attribute |->
        WooClientAttributes.update_attribute
          \o WooClientAttributes.get_attribute
          \o WooClientAttributes.get_attribute_terms,
    delete_attribute |-> WooClientAttributes.delete_attribute,
    add_attribute_value |-> WooClientAttributes.create_attribute_term]

WooVariants == [
    get_variants |-> Each(WooClientAttributes.get_variations),
    create_variant |-> WooClientAttributes.create_variation,
    update_variant |-> WooClientAttributes.update_variation,
    delete_variant |-> WooClientAttributes.delete_variation,
    get_variant |-> WooClientAttributes.get_variation,
    get_related_products |-> WooClient.get_product,
    set_related_products |-> Optional(WooClient.update_product),
    get_returns |-> Each(WooClient.get_refunds),
    bulk_update_products |-> Each(Told(WooClient.batch_update_products))]

WooBulk == [
    bulk_upsert_products |->
        Optional(Optional(Raise("broken")) \o WooClient.batch_products),
    verify_webhook |-> Local,
    parse_webhook |-> Local,
    register_webhook |-> Each(WooClientAttributes.create_webhook),
    list_webhooks |-> WooClientAttributes.get_webhooks]

-----------------------------------------------------------------------------
(* eMAG answers with status 200 and says in the body that a request        *)
(* failed.                                                                 *)

EmagRefusal == Optional(Raise("server"))

EmagClient == [
    test_auth |-> Try(Ask \o EmagRefusal, Errors \ {"invalid"}, Tell),
    get_orders |-> Ask \o EmagRefusal,
    get_order |-> Ask \o EmagRefusal,
    order_acknowledge |->
        Try(Change \o EmagRefusal, {"server"},
            Either(Optional(Reraise),
                   Try(Change \o EmagRefusal, {"server"},
                       Either(Optional(Reraise),
                              Try(Change \o EmagRefusal, {"server"},
                                  Optional(Reraise)))))),
    update_order_status |-> Change \o EmagRefusal,
    get_products |-> Ask \o EmagRefusal,
    update_product |-> Change \o EmagRefusal,
    update_offer |-> Change \o EmagRefusal,
    update_offer_stock |-> Change \o EmagRefusal,
    get_categories |-> Ask \o EmagRefusal,
    get_product_count |-> Ask \o EmagRefusal,
    get_couriers |-> Ask \o EmagRefusal]

EmagClientDeliveries == [
    get_vat_list |-> Ask \o EmagRefusal,
    get_locality |-> Ask \o EmagRefusal,
    generate_awb |-> Make("awb") \o EmagRefusal,
    read_rma |-> Ask \o EmagRefusal,
    read_awb |-> Ask \o EmagRefusal,
    read_awb_pdf |-> Unread(Ask)]

EmagClientInvoices == [
    get_invoice_categories |-> Ask,
    get_invoices |-> Ask,
    get_customer_invoices |-> Ask,
    order_attachment_save |-> Make("attachment") \o EmagRefusal]

EmagOrders == [
    validate_credentials |-> Local,
    test_connection |-> Told(EmagClient.test_auth),
    get_orders |-> EmagClient.get_orders,
    get_order |-> EmagClient.get_order,
    acknowledge_order |-> EmagClient.order_acknowledge,
    get_products |-> EmagClient.get_products,
    update_product_stock |-> EmagClient.update_product,
    update_product_price |-> EmagClient.update_product,
    update_order_status |->
        Optional(Raise("broken"))
          \o EmagClient.update_order_status \o EmagClient.get_order,
    bulk_update_products |-> Optional(Told(EmagClient.update_product))]

EmagDeliveries == [
    attach_invoice |-> Told(EmagClientInvoices.order_attachment_save),
    verify_webhook |-> Local,
    parse_webhook |-> Local,
    generate_awb |-> EmagClientDeliveries.generate_awb,
    read_awb |-> EmagClientDeliveries.read_awb,
    read_awb_pdf |-> EmagClientDeliveries.read_awb_pdf,
    get_order_awbs |-> Swallowed(EmagClientDeliveries.read_awb),
    get_awb_pdf |-> EmagClientDeliveries.read_awb_pdf,
    get_locality_id |->
        EmagClientDeliveries.get_locality \o Optional(Raise("broken"))]

EmagFinances == [
    get_financial_transactions |-> EmagClientInvoices.get_invoices,
    get_invoices |-> EmagClientInvoices.get_invoices,
    get_customer_invoices |-> EmagClientInvoices.get_customer_invoices,
    get_returns |-> Each(EmagClientDeliveries.read_rma),
    resolve_return_awb |-> Optional(EmagClientDeliveries.read_awb)]

-----------------------------------------------------------------------------
(* Gomag                                                                   *)

GomagClient == [
    test_auth |-> Told(Ask),
    get_products |-> Ask,
    create_product |-> Make("product"),
    update_product |-> Change,
    update_product_inventory |-> Change,
    delete_product |-> Drop,
    get_orders |-> Ask,
    get_order |-> Ask,
    update_order_status |-> Change,
    create_order |-> Make("order"),
    add_order_note |-> Make("order_note"),
    add_order_file |-> Make("order_file"),
    get_order_statuses |-> Ask]

GomagClientRecords == [
    get_categories |-> Ask,
    create_category |-> Make("category"),
    update_category |-> Change,
    delete_category |-> Drop,
    get_carriers |-> Ask,
    get_awbs |-> Ask,
    create_awb |-> Make("awb"),
    generate_awb |-> Make("awb"),
    delete_awb |-> Drop,
    print_awb |-> Ask,
    update_awb_status |-> Change,
    create_invoice |-> Make("invoice"),
    generate_invoice |-> Make("invoice"),
    cancel_invoice |-> Change,
    get_attributes |-> Ask,
    create_attribute |-> Make("attribute"),
    update_attribute |-> Change,
    get_customers |-> Ask,
    get_payment_methods |-> Ask]

GomagOrderId ==
    Optional(Raise("broken"))
      \o GomagClient.get_order \o Optional(Raise("broken"))

GomagOrders == [
    validate_credentials |-> Local,
    test_connection |-> Told(GomagClient.test_auth),
    get_orders |-> GomagClient.get_orders,
    get_order |-> GomagClient.get_order,
    find_order_by_reference |-> Optional(GomagClient.get_order),
    get_products |-> GomagClient.get_products,
    update_product_stock |-> GomagClient.update_product_inventory,
    update_product_price |-> GomagClient.update_product_inventory,
    update_order_status |->
        GomagOrderId
          \o Optional(GomagClient.get_order_statuses
                        \o Optional(Raise("broken")))
          \o GomagClient.update_order_status \o GomagClient.get_order,
    list_order_statuses |-> GomagClient.get_order_statuses,
    set_order_status_raw |->
        GomagOrderId
          \o Optional(GomagClient.get_order_statuses
                        \o Optional(Raise("broken")))
          \o GomagClient.update_order_status \o GomagClient.get_order]

GomagProducts == [
    create_order |-> GomagClient.create_order,
    add_order_note |-> GomagClient.add_order_note,
    add_order_file |-> GomagClient.add_order_file,
    create_product |-> GomagClient.create_product,
    delete_product |-> GomagClient.delete_product,
    update_product |-> GomagClient.update_product,
    bulk_update_products |-> Optional(GomagClient.update_product_inventory),
    get_categories |-> Each(GomagClientRecords.get_categories),
    create_category |-> GomagClientRecords.create_category,
    update_category |-> GomagClientRecords.update_category,
    delete_category |-> GomagClientRecords.delete_category,
    get_attributes |-> Each(GomagClientRecords.get_attributes),
    get_attribute |->
        GomagClientRecords.get_attributes \o Optional(Raise("broken")),
    create_attribute |-> GomagClientRecords.create_attribute,
    update_attribute |-> GomagClientRecords.update_attribute,
    add_attribute_value |->
        GomagClientRecords.get_attributes
          \o Optional(Raise("broken")) \o GomagClientRecords.update_attribute]

GomagDeliveries == [
    get_carriers |-> GomagClientRecords.get_carriers,
    get_order_awbs |-> GomagClientRecords.get_awbs,
    get_awb_pdf |-> GomagClientRecords.print_awb,
    get_awbs |-> GomagClientRecords.get_awbs,
    create_awb |-> GomagClientRecords.create_awb,
    generate_awb |-> GomagClientRecords.generate_awb,
    delete_awb |-> GomagClientRecords.delete_awb,
    print_awb |-> GomagClientRecords.print_awb,
    update_awb_status |-> GomagClientRecords.update_awb_status]

GomagInvoices == [
    create_invoice |-> GomagClientRecords.create_invoice,
    generate_invoice |-> GomagClientRecords.generate_invoice,
    cancel_invoice |-> GomagClientRecords.cancel_invoice,
    get_customers |-> GomagClientRecords.get_customers,
    get_payment_methods |-> GomagClientRecords.get_payment_methods]

-----------------------------------------------------------------------------
(* PrestaShop                                                              *)

\* The address of the shop may be missing.
PrestaAddress == Optional(Raise("invalid"))

PrestaClient == [
    api_resources |-> Swallowed(PrestaAddress \o Unread(Ask)),
    test_auth |->
        PrestaAddress
          \o Ask \o Optional(Swallowed(PrestaAddress \o Unread(Ask))),
    get_orders |-> PrestaAddress \o Ask,
    get_order |-> PrestaAddress \o Ask,
    get_customer |-> PrestaAddress \o Ask,
    get_address |-> PrestaAddress \o Ask,
    get_country |-> PrestaAddress \o Ask,
    get_state |-> PrestaAddress \o Ask,
    get_products |-> PrestaAddress \o Ask,
    get_product |-> PrestaAddress \o Ask,
    get_categories |-> PrestaAddress \o Ask]

PrestaClientStocks == [
    get_stock_available |-> PrestaAddress \o Ask,
    update_stock_available |-> PrestaAddress \o Change,
    update_product |-> PrestaAddress \o Change,
    create_product |-> PrestaAddress \o Make("product"),
    delete_product |-> PrestaAddress \o Drop,
    create_category |-> PrestaAddress \o Make("category"),
    update_order |-> PrestaAddress \o Change,
    get_order_states |-> PrestaAddress \o Ask,
    create_order_history |-> PrestaAddress \o Make("order_history")]

PrestaClientRecords == [
    get_product_features |-> PrestaAddress \o Ask,
    get_product_feature |-> PrestaAddress \o Ask,
    create_product_feature |-> PrestaAddress \o Make("product_feature"),
    get_product_feature_values |-> PrestaAddress \o Ask,
    create_product_feature_value |->
        PrestaAddress \o Make("product_feature_value"),
    get_product_options |-> PrestaAddress \o Ask,
    get_product_option_values |-> PrestaAddress \o Ask,
    create_product_option |-> PrestaAddress \o Make("product_option"),
    create_product_option_value |->
        PrestaAddress \o Make("product_option_value"),
    get_combinations |-> PrestaAddress \o Ask,
    get_combination |-> PrestaAddress \o Ask,
    create_combination |-> PrestaAddress \o Make("combination"),
    update_combination |-> PrestaAddress \o Change,
    delete_combination |-> PrestaAddress \o Drop,
    get_images |-> PrestaAddress \o Ask]

PrestaConnection == [
    validate_credentials |-> Local,
    test_connection |-> Told(PrestaClient.test_auth)]

PrestaPlace ==
    Optional(PrestaClient.get_address
               \o Optional(PrestaClient.get_country)
               \o Optional(PrestaClient.get_state))

PrestaBuyer ==
    PrestaPlace \o PrestaPlace \o Optional(PrestaClient.get_customer)

PrestaOrders == [
    get_orders |-> PrestaClient.get_orders \o Each(PrestaBuyer),
    get_order |-> PrestaClient.get_order \o PrestaBuyer,
    find_order_by_reference |->
        Optional(PrestaClient.get_orders \o Each(Optional(PrestaBuyer))),
    list_order_statuses |-> PrestaClientStocks.get_order_states,
    paid_state_id |-> Optional(Swallowed(PrestaClientStocks.get_order_states)),
    mark_order_paid |->
        Optional(Swallowed(PrestaClientStocks.get_order_states))
          \o Optional(Raise("broken"))
          \o PrestaClientStocks.create_order_history \o PrestaClient.get_order
          \o PrestaBuyer,
    set_order_status_raw |->
        Optional(Raise("broken"))
          \o PrestaClientStocks.create_order_history \o PrestaClient.get_order
          \o PrestaBuyer,
    update_order_status |->
        Optional(Raise("broken"))
          \o PrestaClientStocks.create_order_history \o PrestaClient.get_order
          \o PrestaBuyer]

PrestaProducts == [
    get_products |-> PrestaClient.get_products,
    update_product_stock |-> PrestaClientStocks.update_stock_available,
    update_product_price |->
        PrestaClient.get_product \o Optional(PrestaClientStocks.update_product),
    create_product |-> PrestaClientStocks.create_product,
    delete_product |-> PrestaClientStocks.delete_product,
    update_product |->
        PrestaClient.get_product
          \o Optional(Raise("broken")) \o PrestaClientStocks.update_product
          \o Optional(PrestaClientStocks.update_stock_available),
    get_categories |-> PrestaClient.get_categories,
    create_category |-> PrestaClientStocks.create_category,
    get_attributes |->
        PrestaClientRecords.get_product_features
          \o Each(PrestaClientRecords.get_product_feature_values)
          \o PrestaClientRecords.get_product_options
          \o Each(PrestaClientRecords.get_product_option_values),
    get_attribute |->
        Swallowed(PrestaClientRecords.get_product_feature
                    \o Optional(PrestaClientRecords.get_product_feature_values))]

PrestaVariants == [
    create_attribute |->
        Either(PrestaClientRecords.create_product_option
                 \o Each(PrestaClientRecords.create_product_option_value),
               PrestaClientRecords.create_product_feature
                 \o Each(PrestaClientRecords.create_product_feature_value)),
    add_attribute_value |-> PrestaClientRecords.create_product_feature_value,
    get_variants |->
        PrestaClientRecords.get_combinations
          \o PrestaClientRecords.get_product_options
          \o Each(PrestaClientRecords.get_product_option_values),
    create_variant |-> PrestaClientRecords.create_combination,
    update_variant |->
        PrestaClientRecords.update_combination
          \o PrestaClientRecords.get_combination,
    delete_variant |-> PrestaClientRecords.delete_combination,
    bulk_update_products |->
        Each(Told(Optional(PrestaClient.get_product
                             \o Optional(PrestaClientStocks.update_product))
                    \o Optional(PrestaClientStocks.update_stock_available)
                    \o Optional(PrestaClient.get_product
                                  \o Optional(Raise("broken"))
                                  \o PrestaClientStocks.update_product
                                  \o Optional(PrestaClientStocks.update_stock_available)))),
    verify_webhook |-> Local,
    parse_webhook |-> Local]

-----------------------------------------------------------------------------
(* Temu answers with status 200 and a code of the refusal.                 *)

TemuRefusal ==
    Optional(Raise("server"))
      \o Optional(RaiseAny(ConnectorErrors \ {"missing", "client"}))

Temu(request) == Renamed(request, {"lost"}, "server") \o TemuRefusal

TemuClient == [
    call |-> Temu(Ask),
    download_signed |->
        Renamed(Ask, {"lost"}, "server") \o Optional(Raise("server")),
    token_info |-> Temu(Ask),
    settle_status |-> Temu(Ask),
    warehouses |-> Temu(Ask)]

TemuClientRecords == [
    list_orders |-> Temu(Ask),
    order_detail |-> Temu(Ask),
    shipping_info |-> Temu(Ask),
    decrypt_shipping_info |-> Temu(Ask),
    order_amounts_v2 |-> Temu(Ask),
    invoice_detail |-> Temu(Ask),
    upload_invoice |-> Temu(Once(Make("invoice"))),
    list_goods |-> Temu(Ask),
    goods_detail |-> Temu(Ask),
    add_goods_v3 |-> Temu(Once(Make("product"))),
    delete_goods |-> Temu(Once(Drop)),
    partial_update_goods |-> Temu(Once(Change)),
    edit_stock |-> Temu(Once(Change)),
    sku_stock_query |-> Temu(Ask),
    change_sku_price |-> Temu(Once(Change))]

TemuClientShipments == [
    list_carriers |-> Temu(Ask),
    confirm_shipment_v2 |-> Temu(Once(Change)),
    shipping_services |-> Temu(Ask),
    create_shipment |-> Temu(Once(Make("shipment"))),
    shipment_result |-> Temu(Ask),
    shipment_document |-> Temu(Ask),
    confirm_shipped_package |-> Temu(Once(Change)),
    create_bill_task |-> Temu(Once(Make("bill_task"))),
    get_bill_task |-> Temu(Ask),
    list_aftersales |-> Temu(Ask),
    aftersales_detail |-> Temu(Ask),
    list_cancellations |-> Temu(Ask),
    update_webhook_subscription |-> Temu(Once(Change))]

TemuOrders == [
    validate_credentials |-> Local,
    test_connection |->
        Told(TemuClient.token_info \o TemuClient.settle_status),
    detect_credentials |-> Swallowed(TemuClient.token_info),
    default_warehouse_id |-> Optional(TemuClient.warehouses),
    get_orders |->
        TemuClientRecords.list_orders
          \o Each(Try(TemuClientRecords.shipping_info, {"server"},
                      Either(Reraise, Forget))
                    \o Try(Try(TemuClientRecords.order_amounts_v2,
                               {"auth", "unsupported"},
                               TemuClientRecords.invoice_detail
                                 \o Optional(Reraise)),
                           {"auth", "unsupported"}, Forget)),
    get_order |->
        TemuClientRecords.order_detail
          \o Try(TemuClientRecords.shipping_info, {"server"},
                 Either(Reraise, Forget))
          \o Try(Try(TemuClientRecords.order_amounts_v2,
                     {"auth", "unsupported"},
                     TemuClientRecords.invoice_detail \o Optional(Reraise)),
                 {"auth", "unsupported"}, Forget),
    get_customer_details |-> TemuClientRecords.decrypt_shipping_info,
    find_order_by_reference |->
        Optional(TemuClientRecords.order_detail
                   \o Try(TemuClientRecords.shipping_info, {"server"},
                          Either(Reraise, Forget))
                   \o Try(Try(TemuClientRecords.order_amounts_v2,
                              {"auth", "unsupported"},
                              TemuClientRecords.invoice_detail
                                \o Optional(Reraise)), {"auth", "unsupported"},
                          Forget))]

TemuProducts == [
    get_products |-> TemuClientRecords.list_goods,
    update_product_stock |->
        TemuClientRecords.sku_stock_query
          \o Optional(Raise("invalid")) \o TemuClientRecords.edit_stock,
    update_product_price |->
        TemuClientRecords.sku_stock_query
          \o Optional(Raise("invalid")) \o TemuClientRecords.change_sku_price,
    update_order_status |-> Unsupported,
    create_product |->
        Optional(Raise("invalid")) \o TemuClientRecords.add_goods_v3,
    delete_product |-> TemuClientRecords.delete_goods,
    update_product |->
        Optional(TemuClientRecords.partial_update_goods)
          \o Optional(TemuClientRecords.sku_stock_query
                        \o Optional(Raise("invalid"))
                        \o Optional(TemuClientRecords.edit_stock)
                        \o Optional(TemuClientRecords.change_sku_price)),
    bulk_update_products |->
        Each(Try(Optional(TemuClientRecords.sku_stock_query
                            \o Optional(Raise("invalid"))
                            \o Optional(TemuClientRecords.edit_stock)
                            \o Optional(TemuClientRecords.change_sku_price)),
                 Errors \ {"lost"}, Tell)),
    verify_webhook |-> Local,
    parse_webhook |-> Local]

TemuShipments == [
    register_webhook |-> TemuClientShipments.update_webhook_subscription,
    list_webhooks |-> Local,
    attach_invoice |-> TemuClientRecords.upload_invoice,
    list_carriers |->
        Optional(Try(TemuClient.token_info, ConnectorErrors, Forget))
          \o TemuClientShipments.list_carriers,
    confirm_shipment |->
        TemuClientRecords.order_detail
          \o Optional(Raise("invalid"))
          \o TemuClientShipments.confirm_shipment_v2,
    list_shipping_services |->
        TemuClientRecords.order_detail
          \o Optional(Raise("invalid"))
          \o TemuClientShipments.shipping_services,
    create_shipment |->
        TemuClientRecords.order_detail
          \o Optional(Raise("invalid"))
          \o TemuClientShipments.shipping_services
          \o Optional(Raise("invalid")) \o TemuClientRecords.order_detail
          \o Optional(Raise("invalid")) \o TemuClientShipments.create_shipment
          \o Optional(Raise("server")),
    get_shipment_result |-> TemuClientShipments.shipment_result,
    confirm_package_shipped |-> TemuClientShipments.confirm_shipped_package]

TemuFinances == [
    get_order_awbs |->
        TemuClientRecords.order_detail
          \o Optional(TemuClientShipments.shipment_result),
    get_awb_pdf |->
        TemuClientShipments.shipment_document
          \o Optional(Raise("server")) \o TemuClient.download_signed,
    get_order_amounts |->
        Try(TemuClientRecords.order_amounts_v2, {"auth", "unsupported"},
            TemuClientRecords.invoice_detail \o Optional(Reraise)),
    get_financial_transactions |->
        TemuClientShipments.create_bill_task
          \o Optional(Raise("server"))
          \o Each(TemuClientShipments.get_bill_task
                    \o Optional(Raise("server")))
          \o Optional(Raise("server")) \o TemuClient.download_signed
          \o Optional(Unsupported),
    get_invoices |-> Unsupported,
    get_returns |->
        Each(TemuClientShipments.list_aftersales
               \o Each(Try(TemuClientShipments.aftersales_detail,
                           ConnectorErrors, Tell))),
    resolve_return_awb |-> Local]

-----------------------------------------------------------------------------
(* Magento: a product is looked up by its SKU when its name is no number.  *)

MagentoClient == [
    test_auth |-> Told(Ask),
    get_products |-> Ask,
    get_product |-> Ask,
    create_product |-> Make("product"),
    update_product |-> Change,
    delete_product |-> Drop,
    get_stock_item |-> Ask,
    update_stock |-> Change,
    get_orders |-> Ask,
    get_order |-> Ask,
    add_order_comment |-> Make("comment"),
    get_categories |-> Ask,
    get_category_list |-> Ask,
    create_category |-> Make("category"),
    get_attributes |-> Ask,
    get_attribute |-> Ask,
    create_attribute |-> Make("attribute"),
    get_attribute_options |-> Ask,
    add_attribute_option |-> Make("option"),
    get_configurable_children |-> Ask,
    link_configurable_child |-> Change,
    remove_configurable_child |-> Drop,
    get_product_links |-> Ask,
    set_product_links |-> Change,
    add_product_media |-> Make("media")]

MagentoSku == Swallowed(MagentoClient.get_product)

\* The stock is sent with the number of the stock item of the product: when the
\* product cannot be read there is none, and UnboundLocalError instead.
MagentoStock ==
    Try(MagentoClient.get_product, Errors, Raise("broken"))
      \o MagentoClient.update_stock

MagentoOrders == [
    validate_credentials |-> Local,
    test_connection |-> Told(MagentoClient.test_auth),
    get_orders |-> MagentoClient.get_orders,
    get_order |-> MagentoClient.get_order,
    update_order_status |->
        Optional(Raise("broken"))
          \o MagentoClient.add_order_comment \o MagentoClient.get_order,
    get_products |-> MagentoClient.get_products,
    update_product_stock |-> MagentoStock,
    update_product_price |-> MagentoSku \o MagentoClient.update_product,
    create_product |-> MagentoClient.create_product]

MagentoProducts == [
    delete_product |->
        Try(MagentoClient.delete_product, Errors,
            MagentoClient.get_product \o MagentoClient.delete_product),
    update_product |->
        MagentoClient.update_product
          \o Optional(MagentoStock),
    get_categories |-> MagentoClient.get_category_list,
    create_category |-> MagentoClient.create_category,
    get_attributes |-> Each(MagentoClient.get_attributes),
    get_attribute |-> MagentoClient.get_attribute,
    create_attribute |-> MagentoClient.create_attribute,
    add_attribute_value |-> MagentoClient.add_attribute_option,
    get_variants |-> MagentoSku \o MagentoClient.get_configurable_children]

MagentoVariants == [
    create_variant |->
        MagentoSku
          \o MagentoClient.create_product
          \o MagentoClient.link_configurable_child,
    update_variant |->
        MagentoClient.update_product
          \o Optional(MagentoStock),
    delete_variant |->
        MagentoSku
          \o Swallowed(MagentoClient.remove_configurable_child)
          \o Swallowed(MagentoClient.delete_product),
    get_related_products |->
        MagentoSku \o Each(Swallowed(MagentoClient.get_product_links)),
    set_related_products |->
        MagentoSku \o Optional(MagentoClient.set_product_links),
    bulk_update_products |->
        Each(Told(Optional(MagentoClient.update_product)
                    \o Optional(MagentoStock)))]

-----------------------------------------------------------------------------
(* Shopify                                                                 *)

ShopifyClient == [
    test_auth |-> Told(Ask),
    get_products |-> Ask,
    get_product |-> Ask,
    create_product |-> Make("product"),
    update_product |-> Change,
    delete_product |-> Drop,
    count_products |-> Ask,
    get_variants |-> Ask,
    get_variant |-> Ask,
    create_variant |-> Make("variant"),
    update_variant |-> Change,
    delete_variant |-> Drop,
    get_orders |-> Ask,
    get_order |-> Ask,
    update_order |-> Change,
    cancel_order |-> Change,
    close_order |-> Change,
    reopen_order |-> Change,
    get_custom_collections |-> Ask,
    create_custom_collection |-> Make("custom_collection"),
    delete_custom_collection |-> Drop,
    get_smart_collections |-> Ask,
    get_webhooks |-> Ask,
    create_webhook |-> Make("webhook"),
    delete_webhook |-> Drop,
    get_inventory_level |-> Ask,
    set_inventory_level |-> Change]

ShopifyOrders == [
    validate_credentials |-> Local,
    test_connection |-> Told(ShopifyClient.test_auth),
    get_authorize_url |-> Local,
    exchange_code_for_token |-> Ask,
    refresh_token |-> Unsupported,
    get_orders |-> ShopifyClient.get_orders,
    get_order |-> ShopifyClient.get_order,
    find_order_by_reference |-> Optional(ShopifyClient.get_orders),
    update_order_status |->
        Optional(Raise("broken")) \o ShopifyClient.cancel_order]

ShopifyStock ==
    ShopifyClient.get_product
      \o Optional(ShopifyClient.get_inventory_level
                    \o Optional(ShopifyClient.set_inventory_level))

ShopifyPrice ==
    ShopifyClient.get_product \o Optional(ShopifyClient.update_variant)

ShopifyProducts == [
    get_products |-> ShopifyClient.get_products,
    update_product_stock |-> ShopifyStock,
    update_product_price |-> ShopifyPrice,
    create_product |-> ShopifyClient.create_product,
    delete_product |-> ShopifyClient.delete_product,
    get_categories |->
        ShopifyClient.get_custom_collections
          \o ShopifyClient.get_smart_collections,
    create_category |-> ShopifyClient.create_custom_collection,
    update_product |->
        Optional(ShopifyClient.update_product)
          \o Optional(ShopifyPrice) \o Optional(ShopifyStock),
    get_variants |-> ShopifyClient.get_variants,
    create_variant |-> ShopifyClient.create_variant,
    update_variant |-> ShopifyClient.update_variant,
    delete_variant |-> ShopifyClient.delete_variant,
    get_variant |-> ShopifyClient.get_variant,
    bulk_update_products |->
        Each(Told(Optional(ShopifyClient.update_product)
                    \o Optional(ShopifyPrice) \o Optional(ShopifyStock))),
    verify_webhook |-> Local,
    parse_webhook |-> Local,
    register_webhook |-> Each(ShopifyClient.create_webhook),
    list_webhooks |-> ShopifyClient.get_webhooks]

-----------------------------------------------------------------------------
(* Trendyol: writes go in batches, whose results are asked for later.      *)

TrendyolClient == [
    get_webhooks |-> Ask,
    test_auth |-> Told(Ask),
    get_orders |-> Ask,
    get_order |-> Ask,
    get_claims |-> Ask,
    get_products |-> Ask,
    batch_update_content |-> Change,
    batch_update_price_inventory |-> Change,
    get_batch_result |-> Ask,
    get_categories |-> Ask,
    read_awb |-> Ask \o Optional(Renamed(Once(Ask), Answered, "lost")),
    order_attachment |-> Make("attachment")]

TrendyolClientFinances == [
    get_settlements |-> Ask,
    get_other_financials |-> Ask,
    create_webhook |-> Make("webhook"),
    list_webhooks |-> Ask,
    update_webhook |-> Change,
    delete_webhook |-> Drop,
    activate_webhook |-> Change,
    deactivate_webhook |-> Change]

TrendyolProducts == [
    validate_credentials |-> Local,
    test_connection |-> Told(TrendyolClient.test_auth),
    get_orders |-> TrendyolClient.get_orders,
    get_order |-> TrendyolClient.get_order,
    get_products |-> TrendyolClient.get_products,
    update_product_stock |-> TrendyolClient.batch_update_price_inventory,
    update_product_price |-> TrendyolClient.batch_update_price_inventory,
    update_order_status |-> Unsupported,
    bulk_update_products |->
        Optional(Told(TrendyolClient.batch_update_price_inventory))
          \o Optional(Each(Told(Optional(TrendyolClient.get_products)))
                        \o Optional(Told(TrendyolClient.batch_update_content)))]

TrendyolOrders == [
    get_order_awbs |-> TrendyolClient.get_order,
    get_awb_pdf |-> TrendyolClient.read_awb,
    attach_invoice |-> Told(TrendyolClient.order_attachment),
    get_financial_transactions |->
        Optional(Raise("broken"))
          \o Either(TrendyolClientFinances.get_settlements,
                    TrendyolClientFinances.get_other_financials),
    get_settlements |->
        Optional(Raise("broken")) \o TrendyolClientFinances.get_settlements,
    get_other_financials |->
        Optional(Raise("broken"))
          \o TrendyolClientFinances.get_other_financials]

TrendyolReturns == [
    get_returns |-> Each(TrendyolClient.get_claims),
    verify_webhook |-> Local,
    parse_webhook |-> Local,
    register_webhook |-> TrendyolClientFinances.create_webhook,
    list_webhooks |-> TrendyolClientFinances.list_webhooks]

-----------------------------------------------------------------------------
(* Altex answers an error with a body of its own.                          *)

\* The status of an answer is looked at here, and only 401 is told apart, when
\* the body can be read.
Altex(request) ==
    Renamed(Try(request, {"auth"}, Either(Reraise, Raise("server"))),
            {"limited", "missing", "client", "lost"}, "server")
      \o Optional(Raise("server"))

AltexClient == [
    list_orders |-> Altex(Ask),
    get_order |-> Altex(Ask),
    update_order_status |-> Altex(Once(Change)),
    upload_invoice |-> Altex(Once(Make("invoice"))),
    attach_awb |-> Altex(Once(Make("awb"))),
    couriers |-> Altex(Ask),
    locations |-> Altex(Ask),
    regions |-> Altex(Ask),
    localities |-> Each(Altex(Ask)),
    generate_awb |-> Altex(Once(Make("awb"))),
    list_rmas |-> Altex(Ask),
    get_rma |-> Altex(Ask),
    list_offers |-> Altex(Ask),
    update_offer |-> Altex(Once(Change)),
    update_offer_stock |-> Altex(Once(Change))]

AltexOrders == [
    validate_credentials |-> Local,
    test_connection |-> Told(AltexClient.list_orders),
    get_orders |-> AltexClient.list_orders \o Each(AltexClient.get_order),
    get_order |-> AltexClient.get_order,
    update_order_status |->
        Optional(Raise("invalid"))
          \o AltexClient.update_order_status \o AltexClient.get_order,
    acknowledge_order |->
        Optional(Raise("invalid"))
          \o AltexClient.update_order_status \o AltexClient.get_order,
    get_products |-> AltexClient.list_offers,
    update_product_stock |-> AltexClient.update_offer_stock,
    update_product_price |->
        Optional(Raise("invalid")) \o AltexClient.update_offer]

AltexCourier == AltexClient.couriers \o Optional(Raise("invalid"))

AltexDeliveries == [
    get_returns |->
        Each(AltexClient.list_rmas
               \o Each(AltexClient.get_rma
                         \o Optional(Swallowed(AltexClient.get_order)))),
    generate_awb |->
        AltexCourier
          \o Optional(AltexClient.locations \o Optional(Raise("invalid")))
          \o AltexClient.generate_awb,
    list_locations |-> AltexClient.locations,
    upload_invoice |->
        Optional(AltexClient.get_order) \o AltexClient.upload_invoice,
    attach_awb |-> AltexCourier \o AltexClient.attach_awb]

-----------------------------------------------------------------------------
(* The BApp store: writes are tasks that say what became of each item.     *)

BappStore(request) == Renamed(request, {"lost"}, "server")

BappStoreCalls == [
    test_auth |-> Try(BappStore(Ask), {"auth"}, Tell),
    sync_task |->
        BappStore(Once(Make("task")))
          \o Optional(RaiseAny(ConnectorErrors \ {"invalid", "unsupported"})),
    list_categories |-> BappStore(Ask) \o Each(BappStore(Ask)),
    find_products |-> BappStore(Ask),
    export_orders |-> BappStore(Ask),
    export_order |-> BappStore(Ask),
    set_webhook |->
        BappStore(Once(Make("task")))
          \o Optional(RaiseAny(ConnectorErrors \ {"invalid", "unsupported"}))]

BappStoreProducts == [
    validate_credentials |-> Local,
    test_connection |-> Try(BappStoreCalls.test_auth, ConnectorErrors, Tell),
    get_products |-> BappStoreCalls.find_products,
    find_product_by_sku |-> Optional(BappStoreCalls.find_products),
    bulk_upsert_products |->
        Optional(Optional(Raise("broken")) \o BappStoreCalls.sync_task),
    create_product |->
        Optional(Optional(Raise("broken")) \o BappStoreCalls.sync_task)
          \o Optional(Raise("client")),
    update_product |->
        Optional(Optional(Raise("broken")) \o BappStoreCalls.sync_task)
          \o Optional(Raise("client")),
    delete_product |-> Unsupported,
    update_product_stock |-> Unsupported,
    update_product_price |-> Unsupported,
    get_categories |-> BappStoreCalls.list_categories,
    create_category |->
        Optional(Raise("broken"))
          \o BappStoreCalls.sync_task \o Optional(Raise("client")),
    update_category |-> BappStoreCalls.sync_task \o Optional(Raise("client")),
    push_shop_rules |-> BappStoreCalls.sync_task \o Optional(Raise("client")),
    push_customer_pricing |->
        BappStoreCalls.sync_task \o Optional(Raise("client"))]

BappStoreOrders == [
    get_orders |-> BappStoreCalls.export_orders,
    get_order |-> BappStoreCalls.export_order,
    update_order_status |-> Unsupported,
    verify_webhook |-> Local,
    parse_webhook |-> Local,
    get_authorize_url |-> Local,
    exchange_code_for_token |-> Local,
    refresh_token |-> Unsupported]

-----------------------------------------------------------------------------
(* Okazii                                                                  *)

OkaziiClient == [
    get_countries |-> Ask,
    test_auth |-> Told(Ask),
    get_orders |-> Ask,
    get_order |-> Ask,
    get_order_courier |-> Ask,
    get_couriers |-> Ask,
    get_order_invoices |-> Ask,
    attach_invoice |-> Make("invoice"),
    attach_invoice_url |-> Make("invoice_url"),
    get_cities |-> Ask,
    get_counties |-> Ask,
    get_gdl_awb |-> Ask,
    create_gdl_awb |-> Make("gdl_awb"),
    get_gdl_awb_pdf |-> Unread(Ask),
    update_awb |-> Change,
    get_seller_pickup_address |-> Ask,
    update_seller_pickup_address |-> Change]

Okazii == [
    validate_credentials |-> Local,
    test_connection |-> Told(OkaziiClient.test_auth),
    get_orders |-> OkaziiClient.get_orders,
    get_order |-> OkaziiClient.get_order,
    get_products |-> Local,
    update_product_stock |-> Unsupported,
    update_product_price |-> Unsupported,
    update_order_status |-> Unsupported,
    attach_invoice |-> Told(OkaziiClient.attach_invoice_url),
    get_order_awbs |-> OkaziiClient.get_order,
    get_awb_pdf |-> OkaziiClient.get_gdl_awb_pdf,
    get_returns |-> Each(OkaziiClient.get_orders)]

-----------------------------------------------------------------------------
(* Vendigo                                                                 *)

VendigoClient == [
    get_groups |-> Ask,
    test_auth |-> Told(Ask),
    get_orders |-> Ask,
    get_order |-> Ask,
    set_order_status |-> Change,
    order_acknowledge |-> Change,
    order_attachment |-> Make("attachment"),
    get_products |-> Ask,
    get_product_by_external_id |-> Ask,
    get_payment_options |-> Ask,
    get_delivery_options |-> Ask]

Vendigo == [
    validate_credentials |-> Local,
    test_connection |-> Told(VendigoClient.test_auth),
    get_orders |-> VendigoClient.get_orders,
    get_order |-> VendigoClient.get_order,
    get_products |-> VendigoClient.get_products,
    update_product_stock |-> Unsupported,
    update_product_price |-> Unsupported,
    update_order_status |-> Unsupported,
    attach_invoice |-> Told(VendigoClient.order_attachment)]

-----------------------------------------------------------------------------
(* CEL: a login that fails leaves an empty token, and the requests go on   *)
(* with it.                                                                *)

CelLogin == Optional(Swallowed(Ask))

CelClient == [
    test_auth |-> CelLogin,
    get_orders |-> CelLogin \o Ask,
    get_order |-> CelLogin \o Ask,
    get_categories |-> CelLogin \o Ask,
    get_products |-> CelLogin \o Ask]

Cel == [
    validate_credentials |-> Local,
    test_connection |-> Told(CelClient.test_auth),
    get_orders |-> CelClient.get_orders,
    get_order |-> CelClient.get_order,
    get_products |-> CelClient.get_products,
    update_product_stock |-> Unsupported,
    update_product_price |-> Unsupported,
    update_order_status |-> Unsupported]

-----------------------------------------------------------------------------
ShopCalls == [
    woocommerce_client |-> WooClient @@ WooClientAttributes,
    woocommerce |-> WooConnection @@ WooOrders @@ WooProducts @@ WooVariants
        @@ WooBulk,
    emag_client |-> EmagClient @@ EmagClientDeliveries @@ EmagClientInvoices,
    emag |-> EmagOrders @@ EmagDeliveries @@ EmagFinances,
    gomag_client |-> GomagClient @@ GomagClientRecords,
    gomag |-> GomagOrders @@ GomagProducts @@ GomagDeliveries @@ GomagInvoices,
    prestashop_client |-> PrestaClient @@ PrestaClientStocks
        @@ PrestaClientRecords,
    prestashop |-> PrestaConnection @@ PrestaOrders @@ PrestaProducts
        @@ PrestaVariants,
    temu_client |-> TemuClient @@ TemuClientRecords @@ TemuClientShipments,
    temu |-> TemuOrders @@ TemuProducts @@ TemuShipments @@ TemuFinances,
    magento_client |-> MagentoClient,
    magento |-> MagentoOrders @@ MagentoProducts @@ MagentoVariants,
    shopify_client |-> ShopifyClient,
    shopify |-> ShopifyOrders @@ ShopifyProducts,
    trendyol_client |-> TrendyolClient @@ TrendyolClientFinances,
    trendyol |-> TrendyolProducts @@ TrendyolOrders @@ TrendyolReturns,
    altex_client |-> AltexClient,
    altex |-> AltexOrders @@ AltexDeliveries,
    bapp_store_client |-> BappStoreCalls,
    bapp_store |-> BappStoreProducts @@ BappStoreOrders,
    okazii_client |-> OkaziiClient,
    okazii |-> Okazii,
    vendigo_client |-> VendigoClient,
    vendigo |-> Vendigo,
    cel_client |-> CelClient,
    cel |-> Cel]

=============================================================================
