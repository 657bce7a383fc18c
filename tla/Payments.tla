------------------------------ MODULE Payments ------------------------------
(***************************************************************************)
(* What the operations of the payment adapters ask of their providers.     *)
(* Methods of the clients first, then those of the adapters.               *)
(***************************************************************************)
EXTENDS Calls

-----------------------------------------------------------------------------
(* Stripe                                                                  *)

StripeClient == [
    test_auth |-> Told(Ask),
    create_checkout_session |-> Make("checkout"),
    get_payment_intent |-> Ask,
    list_payment_intents |-> Ask,
    create_refund |-> Make("refund"),
    create_subscription_checkout |-> Make("checkout"),
    get_subscription |-> Ask,
    cancel_subscription |-> Drop]

StripeClientCustomers == [
    update_subscription |-> Change,
    create_price |-> Make("price"),
    create_customer |-> Make("customer"),
    get_customer |-> Ask,
    update_customer |-> Change,
    create_setup_checkout |-> Make("checkout"),
    list_payment_methods |-> Ask,
    detach_payment_method |-> Drop,
    list_payouts |-> Ask,
    get_payout |-> Ask,
    list_balance_transactions |-> Ask,
    get_charge |-> Ask]

StripeClientCharge == [create_payment_intent |-> Make("charge")]

StripePayments == [
    test_connection |-> Told(StripeClient.test_auth),
    create_checkout_session |-> StripeClient.create_checkout_session,
    get_payment |-> StripeClient.get_payment_intent,
    refund |-> Optional(StripeClient.get_payment_intent)
                 \o StripeClient.create_refund,
    list_payments |-> StripeClient.list_payment_intents]

StripeSubscriptions == [
    create_subscription_checkout |-> StripeClient.create_subscription_checkout,
    get_subscription |-> StripeClient.get_subscription,
    cancel_subscription |->
        Either(StripeClient.cancel_subscription,
               StripeClientCustomers.update_subscription),
    update_subscription |->
        StripeClient.get_subscription
          \o Either(StripeClientCustomers.update_subscription,
                    Raise("client")),
    pause_subscription |-> StripeClientCustomers.update_subscription,
    resume_subscription |-> StripeClientCustomers.update_subscription,
    create_customer |-> StripeClientCustomers.create_customer,
    create_setup_checkout |-> StripeClientCustomers.create_setup_checkout,
    list_payment_methods |-> StripeClientCustomers.get_customer
                               \o StripeClientCustomers.list_payment_methods,
    delete_payment_method |-> StripeClientCustomers.detach_payment_method,
    charge_saved_method |-> StripeClientCharge.create_payment_intent,
    get_customer |-> StripeClientCustomers.get_customer,
    set_default_payment_method |-> StripeClientCustomers.update_customer]

StripeFinances == [
    get_financial_transactions |->
        StripeClientCustomers.list_balance_transactions,
    list_payouts |-> StripeClientCustomers.list_payouts,
    verify_webhook |-> Local,
    parse_webhook |-> Optional(Raise("invalid"))]

-----------------------------------------------------------------------------
(* PayPal: the client logs in when its token is old.                       *)

PayPalClient == [
    create_order |-> Login \o Make("checkout"),
    get_order |-> Login \o Ask,
    capture_order |-> Login \o Change,
    create_refund |-> Login \o Make("refund"),
    test_auth |-> Told(Login),
    list_transactions |-> Login \o Ask,
    get_balances |-> Login \o Ask]

\* An order that is captured already is read instead.
PayPalAdapter == [
    test_connection |-> Either(Tell, Told(PayPalClient.test_auth)),
    create_checkout_session |-> PayPalClient.create_order,
    get_payment |-> PayPalClient.get_order,
    capture_payment |->
        Try(PayPalClient.capture_order, Permanent,
            Either(Reraise, PayPalClient.get_order)),
    refund |-> PayPalClient.create_refund,
    get_financial_transactions |-> PayPalClient.list_transactions,
    verify_webhook |-> Local,
    parse_webhook |-> Optional(Raise("invalid"))]

-----------------------------------------------------------------------------
(* Netopia answers a refused operation with status 200.                    *)

NetopiaClient == [
    test_auth |-> Try(Ask, {"auth"}, Tell),
    start_payment |-> Make("checkout"),
    verify_auth |-> Change]

NetopiaClientOperations == [
    start_bnpl_payment |-> Make("checkout"),
    bnpl_return |-> Ask,
    applepay_merchant_check |-> Ask,
    get_status |-> Ask,
    capture |-> Change,
    void |-> Change,
    credit |-> Make("refund"),
    expire |-> Change,
    get_payment_options |-> Ask]

\* raise_for_netopia_error
NetopiaRefusal == Optional(Raise("client"))

NetopiaAdapter == [
    test_connection |-> Told(NetopiaClient.test_auth),
    create_checkout_session |-> NetopiaClient.start_payment \o NetopiaRefusal,
    get_payment |-> NetopiaClientOperations.get_status \o NetopiaRefusal,
    refund |-> NetopiaClientOperations.credit \o NetopiaRefusal,
    cancel_payment |->
        NetopiaClientOperations.get_status \o NetopiaRefusal
          \o Either(Either(NetopiaClientOperations.void,
                           NetopiaClientOperations.expire) \o NetopiaRefusal,
                    Raise("client"))]

\* The signed token of a notification, against one key after another.
NetopiaToken == Optional(Raise("broken"))

NetopiaWebhooks == [
    verify_webhook |-> Try(NetopiaToken, {"broken"}, Tell),
    webhook_response |-> Local,
    parse_webhook |-> Local]

-----------------------------------------------------------------------------
(* EuPlatesc: the form of a checkout is built here, and the shopper's      *)
(* browser sends it.                                                       *)

EuPlatescClient == [
    check_status |-> Ask,
    get_invoice_list |-> Ask,
    get_invoice_transactions |-> Ask,
    get_captured_total |-> Ask,
    check_mid |-> Ask,
    capture |-> Change,
    reversal |-> Change,
    partial_capture |-> Make("charge"),
    refund |-> Make("refund"),
    get_saved_cards |-> Ask,
    remove_card |-> Drop]

EuPlatescAdapter == [
    test_connection |-> Optional(Tell),
    create_checkout_session |-> Local,
    get_payment |-> Unsupported,
    refund |-> Unsupported]

EuPlatescFinances == [
    get_financial_transactions |->
        Either(EuPlatescClient.get_invoice_transactions,
               EuPlatescClient.get_invoice_list
                 \o Optional(EuPlatescClient.get_invoice_transactions)),
    get_invoices |-> EuPlatescClient.get_invoice_list,
    verify_webhook |-> Local,
    parse_webhook |-> Local,
    get_payment_from_ipn |-> Local]

-----------------------------------------------------------------------------
(* LibraPay: a refund is one request; whatever its status, an error of it  *)
(* is a ProviderError, and an answer nobody knows is told as unknown.      *)

LibraPayAdapter == [
    test_connection |-> Optional(Tell),
    create_checkout_session |-> Optional(Raise("invalid")),
    get_payment |-> Unsupported,
    refund |->
        Either(Raise("invalid"),
               Renamed(Once(Make("refund")), Answered \cup {"lost"}, "server")
                 \o Optional(Tell))]

LibraPayWebhooks == [
    verify_webhook |-> Local,
    parse_webhook |-> Local,
    webhook_response |-> Local,
    get_payment_from_ipn |-> Local]

-----------------------------------------------------------------------------
(* Utrust, MobilPay and Cardinity: a checkout is an order of Utrust, or a  *)
(* form; payments are known from notifications only.                       *)

UtrustClient == [create_order |-> Make("checkout")]

UtrustAdapter == [
    test_connection |-> Optional(Tell),
    create_checkout_session |-> UtrustClient.create_order,
    get_payment |-> Unsupported,
    refund |-> Unsupported,
    verify_webhook |-> Local,
    parse_webhook |-> Optional(Raise("invalid")),
    get_payment_from_webhook |-> Local]

MobilPayAdapter == [
    test_connection |-> Optional(Tell),
    create_checkout_session |-> Local,
    get_payment |-> Unsupported,
    refund |-> Unsupported,
    verify_webhook |-> Local,
    parse_webhook |-> Optional(Raise("invalid")),
    get_payment_from_ipn |-> Local,
    decrypt_ipn |-> Local]

CardinityAdapter == [
    test_connection |-> Optional(Tell),
    create_checkout_session |-> Local,
    get_payment |-> Unsupported,
    refund |-> Unsupported,
    verify_webhook |-> Local,
    parse_webhook |-> Local,
    get_payment_from_post |-> Local]

-----------------------------------------------------------------------------
PaymentCalls == [
    stripe_client |-> StripeClient @@ StripeClientCustomers
                        @@ StripeClientCharge,
    stripe |-> StripePayments @@ StripeSubscriptions @@ StripeFinances,
    paypal_client |-> PayPalClient,
    paypal |-> PayPalAdapter,
    netopia_client |-> NetopiaClient @@ NetopiaClientOperations,
    netopia |-> NetopiaAdapter @@ NetopiaWebhooks,
    euplatesc_client |-> EuPlatescClient,
    euplatesc |-> EuPlatescAdapter @@ EuPlatescFinances,
    librapay |-> LibraPayAdapter @@ LibraPayWebhooks,
    utrust |-> UtrustAdapter,
    mobilpay |-> MobilPayAdapter,
    cardinity |-> CardinityAdapter]

=============================================================================
