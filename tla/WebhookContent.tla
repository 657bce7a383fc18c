--------------------------- MODULE WebhookContent ---------------------------
(***************************************************************************)
(* What becomes of the content of the notifications that Webhook receives: *)
(* which of them a row holds, when several may have the same key.          *)
(*                                                                         *)
(* A row is named by one of the notifications whose key it has.            *)
(***************************************************************************)
EXTENDS Webhook, WebhookKeys

CONSTANT Settings  \* providers, each with the notifications it sends

Setting == [provider: Providers, facts: [Notifications -> Fact],
            bound: 1..MaxDeliveries]

\* The id of a notification is that of no other one, and two about the same
\* subject differ in their time.
Distinct(facts) ==
    \A i, j \in Notifications :
        /\ facts[i].id = facts[j].id /\ facts[i].id # 0 => facts[i] = facts[j]
        /\ facts[i].subject = facts[j].subject /\ facts[i].time = facts[j].time
             => facts[i] = facts[j]

ASSUME SettingsAssumption ==
    /\ Settings # {} /\ Settings \subseteq Setting
    /\ \A s \in Settings : Distinct(s.facts)

VARIABLES
    setting,  \* the provider and its notifications, chosen once
    carried,  \* the notification each request brings
    content,  \* the notification stored in each row
    heard     \* history: notifications that were verified and answered

contentVars == <<vars, setting, carried, content, heard>>

SameKey(i, j) ==
    Key(setting.provider, setting.facts[i]) =
        Key(setting.provider, setting.facts[j])

Row(i) == CHOOSE j \in Notifications : SameKey(i, j)

ContentInit ==
    /\ Init
    /\ setting \in Settings
    /\ carried = [r \in Requests |-> NoNotification]
    /\ content = [n \in Notifications |-> NoNotification]
    /\ heard = {}

-----------------------------------------------------------------------------
\* The provider sends a notification; bound: no more than it is to.
Deliver(r, i) ==
    /\ deliveries[Row(i)] < setting.bound
    /\ \/ /\ Verify(r, Row(i))
          /\ carried' = [carried EXCEPT ![r] = i]
       \/ /\ Reject(r, Row(i))
          /\ UNCHANGED carried
    /\ UNCHANGED <<setting, content, heard>>

\* The row takes the payload of the request.
Store(r) ==
    /\ Create(r)
    /\ content' = [content EXCEPT ![request[r].about] = carried[r]]
    /\ UNCHANGED <<setting, carried, heard>>

\* The request of a row that is stored already: its own payload is dropped.
Continue(r) ==
    /\ Announce(r) \/ MarkDuplicate(r)
    /\ UNCHANGED <<setting, carried, content, heard>>

\* 200: the provider will not send the notification again.
Answer200(r) ==
    /\ Conflict(r) \/ Dispatch(r) \/ DispatchSkipped(r) \/ StoreFailed(r)
    /\ heard' = heard \cup {carried[r]}
    /\ carried' = [carried EXCEPT ![r] = NoNotification]
    /\ UNCHANGED <<setting, content>>

Vanish(r) ==
    /\ RequestDies(r)
    /\ carried' = [carried EXCEPT ![r] = NoNotification]
    /\ UNCHANGED <<setting, content, heard>>

Work(w) ==
    /\ Process(w) \/ WorkerDies(w)
    /\ UNCHANGED <<setting, carried, content, heard>>

ContentNext ==
    \/ \E r \in Requests :
         \/ \E i \in Notifications : Deliver(r, i)
         \/ Store(r) \/ Continue(r) \/ Answer200(r) \/ Vanish(r)
    \/ \E w \in Workers : Work(w)

ContentSpec == ContentInit /\ [][ContentNext]_contentVars

FairContentSpec == ContentSpec /\ Fairness

-----------------------------------------------------------------------------
\* A notification that was verified and answered is in the database, unless a
\* failure fell upon it: its row holds it, or one that says the same as far as
\* the provider's keys tell them apart, however deliveries race and repeat.
ContentKept ==
    \A i \in heard :
        LET n == Row(i) IN
        n \notin hit
            => /\ event[n] # "absent"
               /\ Covers(setting.provider, setting.facts[content[n]],
                         setting.facts[i])

=============================================================================
