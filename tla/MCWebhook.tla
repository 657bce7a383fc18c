--------------------------- MODULE MCWebhook ---------------------------
(* Instances of Webhook with its content for TLC.                          *)
EXTENDS WebhookContent

\* Two notifications about one subject, numbered by the order they are sent in:
\* the second reports something else, or the same at a later time.
Told(n, status) ==
    [id |-> n, subject |-> 1, status |-> status, code |-> 1, time |-> n]

First == CHOOSE n \in Notifications : TRUE

Changed == [n \in Notifications |-> IF n = First THEN Told(1, 1) ELSE Told(2, 2)]
Repeated == [n \in Notifications |-> IF n = First THEN Told(1, 1) ELSE Told(2, 1)]

With(provider, facts, bound) ==
    [provider |-> provider, facts |-> facts, bound |-> bound]

MCSettings ==
    {With("view", Changed, 2), With("netopia", Changed, 2),
     With("gitlab", Repeated, 2), With("bapp_store", Repeated, 3),
     With("whatsapp", Changed, 3)}

\* For the providers without a setting: two notifications with the same key are the
\* same as far as the provider's keys tell them apart, whatever their parts are.
SmallFacts ==
    [id: 1..2, subject: 1..2, status: 1..2, code: 1..2, time: 1..2]

ASSUME KeysTell ==
    \A p \in Providers \ {s.provider : s \in MCSettings}, f, g \in SmallFacts :
        /\ f.id = g.id => f = g
        /\ f.subject = g.subject /\ f.time = g.time => f = g
        /\ Key(p, f) = Key(p, g)
        => Covers(p, f, g)

=============================================================================
