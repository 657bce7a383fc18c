------------------------------ MODULE ServiceCalls ------------------------------
(***************************************************************************)
(* What the operations of the other adapters ask of their providers: app   *)
(* stores, devops, monitoring, language models, network, hosting,          *)
(* accounting and ERP.                                                     *)
(***************************************************************************)
EXTENDS Calls

-----------------------------------------------------------------------------
(* The App Store: a report that is not there is an empty one.              *)

\* No report yet, or no longer one.
AppleReport == Try(OrNone(Ask), {"client"}, Optional(Reraise))

AppleClient == [
    test_auth |-> Told(Ask),
    download_sales_report |-> AppleReport,
    download_finance_report |-> AppleReport,
    list_apps |-> Ask \o Each(Ask),
    list_reviews |-> Ask,
    create_review_response |-> Once(Make("review_response"))]

AppleServer == [
    get_subscription_statuses |-> Ask]

AppleConnection == [
    validate_credentials |-> Local,
    test_connection |-> AppleClient.test_auth,
    list_apps |->
        Try(AppleClient.list_apps, {"auth"}, AppleClient.download_sales_report)]

AppleReports == [
    get_sales |-> AppleClient.download_sales_report,
    get_app_stats |-> AppleClient.download_sales_report,
    list_refunds |-> AppleClient.download_sales_report,
    list_reviews |-> AppleClient.list_reviews,
    reply_to_review |-> AppleClient.create_review_response]

\* The certificates, of which Apple is the root, and the signature.
AppleSigned == Optional(Raise("invalid"))

\* A signed notification, in which a transaction and a renewal are signed once
\* more.
AppleNotice ==
    Optional(Raise("invalid"))
      \o AppleSigned \o Optional(Raise("invalid")) \o Optional(AppleSigned)
      \o Optional(AppleSigned)

AppleRecords == [
    get_subscription |->
        Optional(Unsupported)
          \o AppleServer.get_subscription_statuses
          \o Optional(RaiseAny({"invalid", "broken"})),
    get_financial_transactions |->
        Optional(Raise("broken")) \o AppleClient.download_finance_report,
    verify_webhook |-> Told(AppleNotice),
    parse_webhook |-> AppleNotice]

-----------------------------------------------------------------------------
(* Google Play: monthly files in a bucket, and a token fetched when it is  *)
(* due.                                                                    *)

\* A grant that is not accepted is a 400.
PlayToken ==
    Optional(Renamed(Try(Once(Ask), {"client"}, RaiseAny({"auth", "client"})),
                     {"lost"}, "server"))

PlayCall(request) == PlayToken \o request

PlayClient == [
    test_auth |-> Told(PlayCall(Ask)),
    list_objects |-> PlayCall(Ask) \o Each(PlayCall(Ask)),
    download_object |-> PlayCall(Ask),
    list_reviews |-> PlayCall(Ask),
    reply_review |-> PlayCall(Once(Change)),
    list_voided_purchases |-> PlayCall(Ask),
    get_subscription_v2 |-> PlayCall(Ask)]

\* The files of a month, or of a list of months.
PlayMonth ==
    PlayClient.list_objects
      \o Optional(Raise("client")) \o Each(PlayClient.download_object)

PlayReports == [
    validate_credentials |-> Local,
    test_connection |-> PlayClient.test_auth,
    list_apps |-> PlayMonth \o Optional(PlayMonth),
    get_sales |-> PlayMonth,
    list_refunds |->
        Optional(Unsupported) \o Optional(PlayClient.list_voided_purchases),
    list_reviews |-> PlayMonth \o Optional(PlayClient.list_reviews)]

PlayStats == [
    get_app_stats |-> PlayMonth \o Each(PlayMonth),
    reply_to_review |-> Optional(Unsupported) \o PlayClient.reply_review,
    get_subscription |->
        Optional(Unsupported) \o PlayClient.get_subscription_v2]

\* Kept for an hour.
GoogleKeys == Optional(Ask \o Optional(Raise("invalid")))

GoogleSigned == Optional(Raise("invalid"))

\* A key that is not known may be a new one.
PlayPush ==
    Either(Tell,
           Told(GoogleKeys \o Either(GoogleSigned, GoogleKeys \o GoogleSigned)))

PlayRecords == [
    get_financial_transactions |-> PlayMonth,
    verify_webhook |-> Optional(PlayPush),
    parse_webhook |-> Optional(Raise("invalid"))]

-----------------------------------------------------------------------------
(* Steam: what its public pages fail to say is left out.                   *)

SteamCall == Ask \o Optional(Raise("client"))

SteamClient == [
    get_changed_dates |-> SteamCall,
    get_detailed_sales |->
        SteamCall \o Each(SteamCall) \o Optional(Raise("client")),
    get_app_details |-> Ask,
    get_reviews |-> Ask,
    get_wishlist_reporting |-> SteamCall,
    get_current_players |-> Ask]

Steam == [
    validate_credentials |-> Local,
    test_connection |-> Told(SteamClient.get_changed_dates),
    changed_dates |-> SteamClient.get_changed_dates,
    list_apps |-> Each(Swallowed(SteamClient.get_app_details)),
    get_sales |-> SteamClient.get_detailed_sales,
    list_refunds |-> SteamClient.get_detailed_sales,
    list_reviews |-> SteamClient.get_reviews,
    get_app_stats |->
        SteamClient.get_wishlist_reporting
          \o Optional(Swallowed(SteamClient.get_current_players)),
    get_financial_transactions |-> SteamClient.get_detailed_sales]

-----------------------------------------------------------------------------
(* GitLab: its client judges the raw answer, and retries on its own        *)
(* judgement.                                                              *)

\* A status of 403 counts as a thing that is not there.
GitLabStatus(request) == Try(request, {"auth"}, RaiseAny({"auth", "missing"}))

\* A server out of reach is a ProviderError, as is an answer of the wrong
\* shape.
GitLabCall(request) ==
    Renamed(GitLabStatus(request), {"lost"}, "server")
      \o Optional(Raise("server"))

GitLabClient == [
    get_user |-> GitLabCall(Ask),
    get_version |-> GitLabCall(Ask),
    list_projects |-> Optional(Raise("invalid")) \o GitLabCall(Ask),
    get_project |-> GitLabCall(Ask),
    list_issues |-> GitLabCall(Ask),
    get_issue |-> GitLabCall(Ask),
    list_merge_requests |-> GitLabCall(Ask),
    list_commits |-> GitLabCall(Ask),
    list_pipelines |-> GitLabCall(Ask),
    create_issue |-> GitLabCall(Once(Make("issue"))),
    update_issue |-> GitLabCall(Change),
    create_issue_note |-> GitLabCall(Once(Make("note"))),
    create_hook |-> GitLabCall(Once(Make("hook"))),
    list_hooks |-> GitLabCall(Ask)]

GitLab == [
    validate_credentials |-> Local,
    test_connection |->
        Try(Try(GitLabClient.get_user, {"missing"}, GitLabClient.get_version),
            ConnectorErrors, Tell),
    list_projects |-> GitLabClient.list_projects,
    get_project |-> GitLabClient.get_project,
    list_issues |-> GitLabClient.list_issues,
    get_issue |-> GitLabClient.get_issue,
    list_merge_requests |-> GitLabClient.list_merge_requests,
    list_commits |->
        GitLabClient.list_commits \o Optional(GitLabClient.get_project),
    list_pipelines |->
        GitLabClient.list_pipelines \o Optional(GitLabClient.get_project),
    create_issue |-> GitLabClient.create_issue,
    update_issue |-> GitLabClient.update_issue,
    close_issue |-> GitLabClient.update_issue,
    reopen_issue |-> GitLabClient.update_issue,
    add_issue_comment |-> GitLabClient.create_issue_note,
    verify_webhook |-> Local,
    parse_webhook |-> Local,
    register_webhook |->
        Optional(Raise("invalid"))
          \o GitLabClient.list_hooks \o Optional(GitLabClient.create_hook),
    list_webhooks |-> Optional(Raise("invalid")) \o GitLabClient.list_hooks]

-----------------------------------------------------------------------------
(* Sentry: the same, and a conflict is a mistake of the caller.            *)

SentryStatus(request) ==
    Try(Try(request, {"auth"}, RaiseAny({"auth", "missing"})), {"client"},
        RaiseAny({"client", "invalid"}))

\* A status of 200 may hold an error.
SentryCall(request) ==
    Renamed(SentryStatus(request), {"lost"}, "server")
      \o Optional(Raise("server"))

SentryClient == [
    get_organization |-> SentryCall(Ask),
    list_projects |-> SentryCall(Ask),
    get_project |-> SentryCall(Ask),
    list_issues |-> SentryCall(Ask),
    get_issue |-> SentryCall(Ask),
    update_issue |-> SentryCall(Change),
    project_stats |-> SentryCall(Ask),
    list_teams |-> SentryCall(Ask) \o Each(SentryCall(Ask)),
    create_project |-> SentryCall(Once(Make("project"))),
    list_keys |-> SentryCall(Ask) \o Each(SentryCall(Ask))]

Sentry == [
    validate_credentials |-> Local,
    test_connection |->
        Try(SentryClient.get_organization, ConnectorErrors, Tell),
    list_projects |-> SentryClient.list_projects,
    get_project |-> SentryClient.get_project,
    list_issues |-> SentryClient.list_issues,
    get_issue |-> SentryClient.get_issue,
    get_project_stats |->
        SentryClient.get_project
          \o Optional(Raise("server")) \o SentryClient.project_stats,
    resolve_issue |-> SentryClient.update_issue,
    unresolve_issue |-> SentryClient.update_issue,
    ignore_issue |-> SentryClient.update_issue,
    assign_issue |-> SentryClient.update_issue,
    list_teams |-> SentryClient.list_teams,
    create_project |-> SentryClient.create_project,
    list_keys |-> SentryClient.list_keys,
    verify_webhook |-> Local,
    parse_webhook |-> Local]

-----------------------------------------------------------------------------
(* Models of language: a completion leaves nothing behind but its cost.    *)

AnthropicClient == [
    test_auth |-> Told(Ask),
    create_message |-> Ask]

Anthropic == [
    validate_credentials |-> Local,
    test_connection |-> AnthropicClient.test_auth,
    complete |-> AnthropicClient.create_message,
    list_models |-> Local]

-----------------------------------------------------------------------------
(* Gemini                                                                  *)

GeminiClient == [
    test_auth |-> Told(Ask),
    generate_content |-> Ask,
    list_models |-> Ask,
    embed_content |-> Ask]

Gemini == [
    validate_credentials |-> Local,
    test_connection |-> GeminiClient.test_auth,
    complete |-> GeminiClient.generate_content,
    list_models |-> GeminiClient.list_models,
    embed |-> GeminiClient.embed_content,
    generate_image |-> GeminiClient.generate_content,
    edit_image |-> GeminiClient.generate_content]

-----------------------------------------------------------------------------
(* Ollama                                                                  *)

OllamaClient == [
    test_auth |-> Told(Ask),
    chat |-> Ask,
    list_models |-> Ask,
    embed |-> Ask]

Ollama == [
    validate_credentials |-> Local,
    test_connection |-> OllamaClient.test_auth,
    complete |-> OllamaClient.chat,
    list_models |-> OllamaClient.list_models,
    embed |-> OllamaClient.embed]

-----------------------------------------------------------------------------
(* OpenAI                                                                  *)

OpenAiClient == [
    test_auth |-> Told(Ask),
    chat_completion |-> Ask,
    list_models |-> Ask,
    create_embedding |-> Ask,
    create_transcription |-> Ask,
    create_image |-> Ask,
    edit_image |-> Ask]

OpenAi == [
    validate_credentials |-> Local,
    test_connection |-> OpenAiClient.test_auth,
    complete |-> OpenAiClient.chat_completion,
    list_models |-> OpenAiClient.list_models,
    embed |-> OpenAiClient.create_embedding,
    transcribe |-> OpenAiClient.create_transcription,
    generate_image |-> OpenAiClient.create_image,
    edit_image |-> OpenAiClient.edit_image]

-----------------------------------------------------------------------------
(* pfSense: a request is sent to one address after another, until a box    *)
(* answers.                                                                *)

\* Of two addresses at most.
PfExec(request) ==
    Try(Once(request), {"server", "lost"},
        Either(Raise("server"),
               Renamed(Once(request), {"server", "lost"}, "server")))

\* A fault of the code is a PermanentProviderError.
PfRun(request) == PfExec(request) \o Optional(RaiseAny({"client", "server"}))

PfSegments == Optional(PfRun(Ask))

PfSense == [
    validate_credentials |-> Local,
    test_connection |-> Told(PfRun(Ask)),
    get_device_info |-> PfRun(Ask),
    list_segments |-> PfRun(Ask),
    list_clients |-> PfSegments \o Optional(Raise("invalid")) \o PfRun(Ask),
    get_dns_allowlist |-> Optional(Raise("invalid")) \o PfRun(Ask),
    set_dns_allowlist |->
        Optional(Raise("invalid"))
          \o PfSegments \o Optional(Raise("invalid")) \o PfRun(Ask)
          \o PfRun(Change) \o Optional(Swallowed(PfRun(Change))) \o PfRun(Ask),
    detect_dns_allowlists |-> PfRun(Ask) \o PfSegments]

-----------------------------------------------------------------------------
(* cPanel: a call that fails is a status of 200 as well.                   *)

\* By the words of the message.
UapiRefusal == RaiseAny({"auth", "missing", "client", "server"})

Uapi(request) == Renamed(request, {"lost"}, "server") \o Optional(UapiRefusal)

Cpanel == [
    validate_credentials |-> Local,
    test_connection |-> Try(Uapi(Ask), ConnectorErrors, Tell),
    get_account |-> Uapi(Ask) \o Uapi(Ask),
    get_usage |-> Uapi(Ask),
    list_domains |-> Uapi(Ask) \o Uapi(Ask),
    list_mailboxes |-> Uapi(Ask),
    create_mailbox |-> Uapi(Change) \o Uapi(Ask),
    delete_mailbox |-> Uapi(Drop),
    set_mailbox_quota |-> Uapi(Change) \o Uapi(Ask),
    set_mailbox_password |-> Uapi(Change),
    get_panel_link |-> Local,
    get_webmail_link |-> Uapi(Ask),
    list_zones |-> Uapi(Ask) \o Uapi(Ask),
    get_zone |-> Uapi(Ask),
    apply_changes |-> Optional(Raise("invalid")) \o Uapi(Change) \o Uapi(Ask)]

-----------------------------------------------------------------------------
(* SAGA Web: a file is sent once, and never again after a failure; a read  *)
(* is retried as a whole.                                                  *)

SagaImport ==
    Renamed(Once(Make("import")), {"limited", "missing", "lost"}, "server")

\* A status of 400 is a mistake of the caller, as is a URL that is not
\* allowed.
SagaRead ==
    Optional(Raise("invalid"))
      \o Try(Renamed(Ask, {"limited", "missing", "lost"}, "server"),
             {"client"}, RaiseAny({"invalid", "server"}))
      \o Optional(Raise("server"))

Saga == [
    validate_credentials |-> Local,
    test_connection |->
        Either(Tell,
               Told(Try(SagaRead, {"invalid", "server"}, Optional(Tell)))),
    import_file |->
        Optional(Raise("invalid"))
          \o Try(SagaImport, {"client"}, Either(Tell, Raise("server")))
          \o Optional(Tell),
    get_article_stock |-> SagaRead,
    get_stock_report |-> SagaRead,
    get_account_balance |-> SagaRead,
    get_trial_balance |-> SagaRead,
    get_article |-> Try(SagaRead, {"invalid"}, Optional(Reraise))]

-----------------------------------------------------------------------------
(* The ERP: every failure of a task is a PermanentProviderError.           *)

ErpTask(request) ==
    Optional(Raise("invalid"))
      \o Renamed(Once(request), {"limited", "missing", "server", "lost"},
                 "client")
      \o Optional(Raise("client"))

Erp == [
    validate_credentials |-> Local,
    test_connection |-> Told(ErpTask(Ask)),
    get_capabilities |-> ErpTask(Ask),
    print_file |-> ErpTask(Make("print")),
    send_sms |-> ErpTask(Make("sms")),
    send |-> Told(ErpTask(Make("sms"))),
    send_bulk |-> Each(Told(ErpTask(Make("sms"))))]

-----------------------------------------------------------------------------
OtherCalls == [
    appstore_apple_client |-> AppleClient,
    appstore_apple_server |-> AppleServer,
    appstore_apple |-> AppleConnection @@ AppleReports @@ AppleRecords,
    appstore_google_play_client |-> PlayClient,
    appstore_google_play |-> PlayReports @@ PlayStats @@ PlayRecords,
    appstore_steam_client |-> SteamClient,
    appstore_steam |-> Steam,
    devops_gitlab_client |-> GitLabClient,
    devops_gitlab |-> GitLab,
    monitoring_sentry_client |-> SentryClient,
    monitoring_sentry |-> Sentry,
    llm_anthropic_client |-> AnthropicClient,
    llm_anthropic |-> Anthropic,
    llm_gemini_client |-> GeminiClient,
    llm_gemini |-> Gemini,
    llm_ollama_client |-> OllamaClient,
    llm_ollama |-> Ollama,
    llm_openai_client |-> OpenAiClient,
    llm_openai |-> OpenAi,
    network_pfsense |-> PfSense,
    hosting_cpanel |-> Cpanel,
    accounting_saga_web |-> Saga,
    erp_bapp |-> Erp]

=============================================================================
