------------------------------- MODULE Calls -------------------------------
(***************************************************************************)
(* The words in which the catalogues say what an operation of an adapter   *)
(* does to its provider: a script of requests, in the order in which the   *)
(* code sends them, with the exceptions it catches on the way.  What the   *)
(* requests carry and how answers are mapped is left out.                  *)
(***************************************************************************)
EXTENDS Sequences, TLC

\* The exceptions a script tells apart.  auth: AuthenticationError; limited:
\* RateLimitError; missing and client: PermanentProviderError, missing that of
\* status 404; server: ProviderError; lost: requests.RequestException; broken:
\* any other one; invalid: a ConnectorError about what came in, such as
\* ValidationError, ConfigurationError and WebhookVerificationError;
\* unsupported: UnsupportedFeatureError and NotImplementedError.
Answered == {"auth", "limited", "missing", "client", "server"}
Failures == Answered \cup {"lost", "broken"}
Errors == Failures \cup {"invalid", "unsupported"}

Permanent == {"missing", "client"}
ConnectorErrors == Errors \ {"lost", "broken"}

\* The nodes of a script.  what: the thing that is made; once: retry=False;
\* unread: direct_response, and nobody looks at the status.
Node(does) == [does |-> does, what |-> "", once |-> FALSE, unread |-> FALSE,
               kinds |-> {}, body |-> <<>>, other |-> <<>>]

-----------------------------------------------------------------------------
(* Requests                                                                *)

\* No request at all: the adapter answers by itself.
Local == <<>>

\* A read, a login, or anything else that leaves nothing behind.
Ask == <<Node("ask")>>

\* A request that does the same when it is repeated: it overwrites, or the
\* provider recognises it by a key the client chose.
Change == <<Node("change")>>

Drop == <<Node("drop")>>

\* A request that makes a new thing each time the provider acts on it.
Make(what) == <<[Node("make") EXCEPT !.what = what]>>

Once(script) == [i \in DOMAIN script |-> [script[i] EXCEPT !.once = TRUE]]

Unread(script) == [i \in DOMAIN script |-> [script[i] EXCEPT !.unread = TRUE]]

-----------------------------------------------------------------------------
(* Control                                                                 *)

Either(one, other) ==
    <<[Node("either") EXCEPT !.body = one, !.other = other]>>

Optional(script) == Either(script, <<>>)

\* For each of a list of things.
Each(script) == <<[Node("each") EXCEPT !.body = script]>>

RaiseAny(kinds) == <<[Node("raise") EXCEPT !.kinds = kinds]>>
Raise(kind) == RaiseAny({kind})

\* Raises what was caught.
Reraise == <<Node("reraise")>>

\* The result says that something failed.
Tell == <<Node("tell")>>

\* What was caught is forgotten: the result says nothing of it.
Forget == <<Node("forget")>>

\* try: body, except kinds: handler.
Try(body, kinds, handler) ==
    <<[Node("try") EXCEPT !.body = body, !.kinds = kinds, !.other = handler]>>

Told(body) == Try(body, Errors, Tell)
Swallowed(body) == Try(body, Errors, Forget)
OrNone(body) == Try(body, {"missing"}, <<>>)
Renamed(body, kinds, kind) == Try(body, kinds, Raise(kind))

\* Calls of a library that raises exceptions of its own.
Library(body) == Renamed(body, Failures, "broken")

\* A session that the client keeps: a login when there is none.
Login == Optional(Ask)

Unsupported == Raise("unsupported")

=============================================================================
