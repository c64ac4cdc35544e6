------------------------------- MODULE Sandbox -------------------------------
(***************************************************************************)
(* The messaging sandbox: emulated accounts with their numbers, port       *)
(* orders and registrations, calls, messages and webhooks in one process.  *)
(* The four interfaces share the accounts and nothing else, so a behaviour *)
(* exercises one of them ("part") together with the administration of the  *)
(* accounts and a restart.                                                 *)
(*                                                                         *)
(* First the conversations, messages and webhooks (service.py,             *)
(* webhook_worker.py, admin.py) and the message endpoints of the emulated  *)
(* APIs.  Every send looks its conversation up, inserts it when there is   *)
(* none, stores the message and, for the telephony APIs and the sandbox's  *)
(* own endpoints, starts a task that posts it to the account's webhooks.   *)
(***************************************************************************)
EXTENDS SandboxNumbers, SandboxCalls

CONSTANTS
    EndpointRows, \* bound: ids of webhook endpoints
    Peers,        \* counterparts: external ids of conversations
    Urls,         \* addresses of webhook endpoints
    MaxRetries,   \* MAX_RETRIES of webhook_worker.py
    Page          \* messages get_messages returns, the oldest first

VARIABLES
    conversation, \* rows of SandboxConversation
    message,      \* rows of SandboxMessage
    endpoint,     \* rows of SandboxWebhookEndpoint
    delivery,     \* rows of SandboxWebhookDelivery: outcomes, by message and endpoint
    hook          \* deliver_webhooks of a message; "planned" is what it selected

messageVars == <<conversation, message, endpoint, delivery, hook>>

NoHook == [at |-> "off", provider |-> 0, left |-> <<>>, planned |-> {}]

ConversationOf(p, ext) == {c \in Rows : conversation[c].provider = p /\ conversation[c].ext = ext}
MessagesOf(p) == {m \in Rows : message[m].provider = p}
Inserted(table) == {i \in Rows : Present(table, i)}

-----------------------------------------------------------------------------
(* service.py                                                              *)

Sending(s) == req[s].op \in {"lookup", "insert", "store"}

\* A send: the row its conversation is looked up by, the message it stores.
Send(p, ext, dir, media, id, fires) ==
    [op |-> "lookup", provider |-> p, ext |-> ext, conv |-> 0, dir |-> dir, media |-> media, id |-> id, fires |-> fires]

StartSend(s, r) ==
    /\ Live(r.provider) /\ Begin(s, r) /\ UNCHANGED messageVars

\* The SELECT of get_or_create_conversation
find_conversation(s) ==
    LET found == ConversationOf(req[s].provider, req[s].ext)
    IN  /\ At(s, "lookup")
        /\ IF found # {} THEN Goto(s, [req[s] EXCEPT !.op = "store", !.conv = First(found)])
           ELSE Goto(s, [req[s] EXCEPT !.op = "insert"])
        /\ UNCHANGED messageVars

\* Mutant: the conflict is an error.
InsertOrFail(s) ==
    LET p == req[s].provider  c == First(FreeRow(conversation))
    IN  /\ At(s, "insert") /\ FreeRow(conversation) # {}
        /\ IF ConversationOf(p, req[s].ext) # {} \/ ~Live(p) THEN End(s) /\ UNCHANGED conversation
           ELSE /\ conversation' = [conversation EXCEPT ![c] = [provider |-> p, ext |-> req[s].ext]]
                /\ Goto(s, [req[s] EXCEPT !.op = "store", !.conv = c])
        /\ UNCHANGED <<message, endpoint, delivery, hook>>

\* Its INSERT: a conflict is the other writer's row; any other refusal raises.
get_or_create_conversation(s) ==
    LET p == req[s].provider  other == ConversationOf(p, req[s].ext)  c == First(FreeRow(conversation))
    IN  /\ At(s, "insert") /\ FreeRow(conversation) # {}
        /\ IF other # {}
           THEN Goto(s, [req[s] EXCEPT !.op = "store", !.conv = First(other)]) /\ UNCHANGED conversation
           ELSE IF ~Live(p) THEN End(s) /\ UNCHANGED conversation
           ELSE /\ conversation' = [conversation EXCEPT ![c] = [provider |-> p, ext |-> req[s].ext]]
                /\ Goto(s, [req[s] EXCEPT !.op = "store", !.conv = c])
        /\ UNCHANGED <<message, endpoint, delivery, hook>>

fire_webhooks(m, p) == [hook EXCEPT ![m].at = "select", ![m].provider = p]

\* An id of 0 asks for a new external id.
store_message(s) ==
    LET r == req[s]  m == First(FreeRow(message))
    IN  /\ At(s, "store") /\ FreeRow(message) # {}
        /\ IF Live(r.provider) /\ Present(conversation, r.conv)
           THEN /\ message' = [message EXCEPT ![m] = [provider |-> r.provider, conv |-> r.conv, dir |-> r.dir, media |-> r.media,
                                                      id |-> IF r.id = 0 THEN m ELSE r.id, deleted |-> FALSE]]
                /\ hook' = IF r.fires THEN fire_webhooks(m, r.provider) ELSE hook
           ELSE UNCHANGED <<message, hook>>
        /\ End(s) /\ UNCHANGED <<conversation, endpoint, delivery>>

\* With a conversation id of the request nothing is looked up.
simulate_inbound(s, p, ext, given) ==
    StartSend(s, IF given = 0 THEN Send(p, ext, "inbound", FALSE, 0, TRUE)
                 ELSE [Send(p, ext, "inbound", FALSE, 0, TRUE) EXCEPT !.op = "store", !.conv = given])
send_outbound(s, p, ext, given) ==
    StartSend(s, IF given = 0 THEN Send(p, ext, "outbound", FALSE, 0, TRUE)
                 ELSE [Send(p, ext, "outbound", FALSE, 0, TRUE) EXCEPT !.op = "store", !.conv = given])
\* The most recently updated active account of the type
simulate_inbound_admin(s, p, ext, media) ==
    provider[p].active /\ provider[p].api \in PhoneApis /\ StartSend(s, Send(p, ext, "inbound", media, 0, TRUE))

Drop(table, i) == [table EXCEPT ![i] = Deleted]
AdministerMessages == Administer(provider)

\* Deleting a conversation deletes its messages, and those their deliveries.
delete_conversation(c) ==
    /\ Present(conversation, c) /\ AdministerMessages
    /\ conversation' = Drop(conversation, c)
    /\ message' = [m \in Rows |-> IF Present(message, m) /\ message[m].conv = c THEN Deleted ELSE message[m]]
    /\ delivery' = [m \in Rows |-> IF Present(message, m) /\ message[m].conv = c
                                   THEN [e \in EndpointRows |-> <<>>] ELSE delivery[m]]
    /\ UNCHANGED <<endpoint, hook>>

delete_message(m) ==
    /\ Present(message, m) /\ AdministerMessages
    /\ message' = Drop(message, m)
    /\ delivery' = [delivery EXCEPT ![m] = [e \in EndpointRows |-> <<>>]]
    /\ UNCHANGED <<conversation, endpoint, hook>>

create_webhook_endpoint(p, url) ==
    /\ Live(p) /\ FreeRow(endpoint) # {} /\ AdministerMessages
    /\ endpoint' = [endpoint EXCEPT ![First(FreeRow(endpoint))] = [provider |-> p, url |-> url]]
    /\ UNCHANGED <<conversation, message, delivery, hook>>

Unrecorded(e) == [m \in Rows |-> [delivery[m] EXCEPT ![e] = <<>>]]

delete_webhook_endpoint(e) ==
    /\ Present(endpoint, e) /\ AdministerMessages
    /\ endpoint' = Drop(endpoint, e) /\ delivery' = Unrecorded(e)
    /\ UNCHANGED <<conversation, message, hook>>

\* Upserts by address for every account of the type; two rows with one address
\* are an error.
seed_webhooks(api, url) ==
    LET ps == {p \in Providers : Live(p) /\ provider[p].api = api}
        has(p) == {e \in EndpointRows : endpoint[e].provider = p /\ endpoint[e].url = url}
        new == {p \in ps : has(p) = {}}
    IN  /\ new # {} /\ \A p \in ps : Cardinality(has(p)) <= 1
        /\ Cardinality(FreeRow(endpoint)) >= Cardinality(new) /\ AdministerMessages
        /\ \E f \in [new -> FreeRow(endpoint)] :
              /\ \A p, q \in new : f[p] = f[q] => p = q
              /\ endpoint' = [e \in EndpointRows |-> IF \E p \in new : f[p] = e
                                             THEN [provider |-> CHOOSE p \in new : f[p] = e, url |-> url]
                                             ELSE endpoint[e]]
        /\ UNCHANGED <<conversation, message, delivery, hook>>

-----------------------------------------------------------------------------
(* webhook_worker.py                                                       *)

Hook(m) == UNCHANGED <<conversation, message, endpoint>> /\ UNCHANGED baseVars

\* The endpoints are selected once, for the account the message was stored for.
deliver_webhooks(m) ==
    LET found == {e \in EndpointRows : endpoint[e].provider = hook[m].provider}
    IN  /\ hook[m].at = "select" /\ Hook(m)
        /\ hook' = [hook EXCEPT ![m].at = IF found = {} THEN "off" ELSE "post",
                                ![m].left = InOrder(found), ![m].planned = found]
        /\ UNCHANGED delivery

\* One attempt: the post, its record, and what comes next.  An attempt that
\* cannot be recorded, because the endpoint or the message was deleted, raises
\* once more in the handler of the exception and ends the whole task.
deliver_to_endpoint(m, outcome) ==
    LET e == Head(hook[m].left)
        tried == Append(delivery[m][e], outcome)
        next == IF outcome = "ok" \/ Len(tried) = MaxRetries THEN Tail(hook[m].left) ELSE hook[m].left
    IN  /\ hook[m].at = "post" /\ Hook(m)
        /\ IF Present(endpoint, e) /\ Present(message, m)
           THEN /\ delivery' = [delivery EXCEPT ![m][e] = tried]
                /\ hook' = [hook EXCEPT ![m].left = next, ![m].at = IF next = <<>> THEN "off" ELSE "post"]
           ELSE hook' = [hook EXCEPT ![m].at = "off"] /\ UNCHANGED delivery

HookStep(m) == deliver_webhooks(m) \/ \E outcome \in {"ok", "failed"} : deliver_to_endpoint(m, outcome)

-----------------------------------------------------------------------------
(* Sends of the emulated APIs.  The telephony APIs fire webhooks.          *)

Ask(p, api) == Resolves(p) /\ provider[p].api = api

twilio_send_sms(s, p, x, media) == Ask(p, "twilio") /\ StartSend(s, Send(p, x, "outbound", media, 0, TRUE))
telnyx_send_message(s, p, x, media) == Ask(p, "telnyx") /\ StartSend(s, Send(p, x, "outbound", media, 0, TRUE))
plivo_send_message(s, p, x, media) == Ask(p, "plivo") /\ StartSend(s, Send(p, x, "outbound", media, 0, TRUE))
bandwidth_send_message(s, p, x, media) == Ask(p, "bandwidth") /\ StartSend(s, Send(p, x, "outbound", media, 0, TRUE))
vonage_send_message(s, p, x, media) == Ask(p, "vonage") /\ StartSend(s, Send(p, x, "outbound", media, 0, TRUE))

telegram_send_message(s, p, x) == Ask(p, "telegram") /\ StartSend(s, Send(p, x, "outbound", FALSE, 0, FALSE))
telegram_send_photo(s, p, x) == Ask(p, "telegram") /\ StartSend(s, Send(p, x, "outbound", TRUE, 0, FALSE))
telegram_send_document(s, p, x) == Ask(p, "telegram") /\ StartSend(s, Send(p, x, "outbound", TRUE, 0, FALSE))
slack_chat_post_message(s, p, x) == Ask(p, "slack") /\ StartSend(s, Send(p, x, "outbound", FALSE, 0, FALSE))
discord_create_message(s, p, x) == Ask(p, "discord") /\ StartSend(s, Send(p, x, "outbound", FALSE, 0, FALSE))
mattermost_create_post(s, p, x) == Ask(p, "mattermost") /\ StartSend(s, Send(p, x, "outbound", FALSE, 0, FALSE))
whatsapp_send_message(s, p, x, media) == Ask(p, "whatsapp") /\ StartSend(s, Send(p, x, "outbound", media, 0, FALSE))

\* An edit is a further row with the id of the request; Slack gives it a new id.
telegram_edit_message_text(s, p, x, id) == Ask(p, "telegram") /\ StartSend(s, Send(p, x, "outbound", FALSE, id, FALSE))
mattermost_update_post(s, p, x, id) == Ask(p, "mattermost") /\ StartSend(s, Send(p, x, "outbound", FALSE, id, FALSE))
slack_chat_update(s, p, x) == Ask(p, "slack") /\ StartSend(s, Send(p, x, "outbound", FALSE, 0, FALSE))

get_messages(p) == {m \in MessagesOf(p) : Cardinality({k \in MessagesOf(p) : k < m}) < Page}

\* The first of the oldest messages with the id
MarkDeleted(p, id, among) ==
    LET found == {m \in among : message[m].id = id}
    IN  /\ AdministerMessages
        /\ message' = IF found = {} THEN message ELSE [message EXCEPT ![First(found)].deleted = TRUE]
        /\ UNCHANGED <<conversation, endpoint, delivery, hook>>

telegram_delete_message(p, id) == Ask(p, "telegram") /\ MarkDeleted(p, id, get_messages(p))
slack_chat_delete(p, id) == Ask(p, "slack") /\ MarkDeleted(p, id, get_messages(p))
mattermost_delete_post(p, id) == Ask(p, "mattermost") /\ MarkDeleted(p, id, MessagesOf(p))

\* Discord edits and deletes the row itself.
discord_edit_message(p, id) ==
    LET found == {m \in MessagesOf(p) : message[m].id = id}
    IN  /\ Ask(p, "discord") /\ Cardinality(found) = 1 /\ AdministerMessages
        /\ UNCHANGED messageVars
discord_delete_message(p, id) ==
    /\ Ask(p, "discord") /\ Cardinality({m \in MessagesOf(p) : message[m].id = id}) = 1
    /\ MarkDeleted(p, id, MessagesOf(p))

-----------------------------------------------------------------------------
(* set_webhook and delete_webhook of the chat APIs: the endpoints listed   *)
(* are deleted one by one, each in a transaction, then one is created.     *)

Replace(s, p, url) ==
    /\ LET found == {e \in EndpointRows : endpoint[e].provider = p}
       IN  Begin(s, [op |-> "replace", provider |-> p, url |-> url, listed |-> found, left |-> found])
    /\ UNCHANGED messageVars

telegram_set_webhook(s, p, url) == Ask(p, "telegram") /\ Replace(s, p, url)
telegram_delete_webhook(s, p) == Ask(p, "telegram") /\ Replace(s, p, "none")
whatsapp_set_webhook(s, p, url) == Ask(p, "whatsapp") /\ Replace(s, p, url)

replace_delete(s) ==
    /\ At(s, "replace") /\ req[s].left # {}
    /\ LET e == First(req[s].left)
       IN  /\ endpoint' = IF Present(endpoint, e) THEN Drop(endpoint, e) ELSE endpoint
           /\ delivery' = Unrecorded(e)
           /\ Goto(s, [req[s] EXCEPT !.left = @ \ {e}])
    /\ UNCHANGED <<conversation, message, hook>>

replace_create(s) ==
    LET p == req[s].provider
    IN  /\ At(s, "replace") /\ req[s].left = {}
        /\ IF req[s].url = "none" \/ ~Live(p) THEN UNCHANGED endpoint
           ELSE /\ FreeRow(endpoint) # {}
                /\ endpoint' = [endpoint EXCEPT ![First(FreeRow(endpoint))] = [provider |-> p, url |-> req[s].url]]
        /\ End(s) /\ UNCHANGED <<conversation, message, delivery, hook>>

SendsOf(s, p, x) ==
    \/ \E media \in BOOLEAN :
          \/ twilio_send_sms(s, p, x, media) \/ telnyx_send_message(s, p, x, media)
          \/ plivo_send_message(s, p, x, media) \/ bandwidth_send_message(s, p, x, media)
          \/ vonage_send_message(s, p, x, media) \/ whatsapp_send_message(s, p, x, media)
          \/ simulate_inbound_admin(s, p, x, media)
    \/ telegram_send_message(s, p, x) \/ telegram_send_photo(s, p, x) \/ telegram_send_document(s, p, x)
    \/ slack_chat_post_message(s, p, x) \/ slack_chat_update(s, p, x)
    \/ discord_create_message(s, p, x) \/ mattermost_create_post(s, p, x)
    \/ \E id \in Rows : telegram_edit_message_text(s, p, x, id) \/ mattermost_update_post(s, p, x, id)
    \/ \E c \in {0} \cup Inserted(conversation) : simulate_inbound(s, p, x, c) \/ send_outbound(s, p, x, c)

MessagesStep ==
    \/ \E m \in Rows : HookStep(m)
    \/ \E s \in Slots :
          \/ find_conversation(s) \/ get_or_create_conversation(s) \/ store_message(s)
          \/ replace_delete(s) \/ replace_create(s)
          \/ \E p \in Providers :
                \/ \E x \in Peers : SendsOf(s, p, x)
                \/ \E u \in Urls : telegram_set_webhook(s, p, u) \/ whatsapp_set_webhook(s, p, u)
                \/ telegram_delete_webhook(s, p)
    \/ \E i \in Rows : delete_conversation(i) \/ delete_message(i)
    \/ \E e \in EndpointRows : delete_webhook_endpoint(e)
    \/ \E p \in Providers :
          \/ \E u \in Urls : create_webhook_endpoint(p, u) \/ seed_webhooks(provider[p].api, u)
          \/ \E id \in Rows : \/ telegram_delete_message(p, id) \/ slack_chat_delete(p, id)
                              \/ mattermost_delete_post(p, id)
                              \/ discord_edit_message(p, id) \/ discord_delete_message(p, id)

\* Account 1 may have endpoints already.
MessagesInit(registered) ==
    /\ conversation = [i \in Rows |-> None] /\ message = [i \in Rows |-> None]
    /\ endpoint = [e \in EndpointRows |-> IF e <= registered THEN [provider |-> 1, url |-> CHOOSE u \in Urls : TRUE] ELSE None]
    /\ delivery = [m \in Rows |-> [e \in EndpointRows |-> <<>>]] /\ hook = [m \in Rows |-> NoHook]

MessagesCascade(p) ==
    /\ conversation' = Cascade(conversation, p) /\ message' = Cascade(message, p)
    /\ endpoint' = Cascade(endpoint, p)
    /\ delivery' = [m \in Rows |-> [e \in EndpointRows |-> IF Present(message', m) /\ Present(endpoint', e) THEN delivery[m][e] ELSE <<>>]]
    /\ UNCHANGED hook

\* Deliveries that were not made are forgotten.
MessagesRestart ==
    /\ hook' = [m \in Rows |-> NoHook] /\ UNCHANGED <<conversation, message, endpoint, delivery>>

-----------------------------------------------------------------------------
\* A send is lost only with its account or its conversation: two that insert
\* the same conversation at once both end with a message stored in it.
SendsAreStored ==
    [][\A s \in Slots : Sending(s) /\ req'[s] = Idle /\ restarts' = restarts =>
          \/ \E m \in Rows : ~Present(message, m) /\ Present(message', m)
          \/ ~Live(req[s].provider)
          \/ req[s].conv # 0 /\ ~Present(conversation, req[s].conv)]_req

\* When the task of a message has ended, each endpoint it selected has taken the
\* message exactly once, as its last attempt, or has refused it MaxRetries
\* times: unless the message, or one of the endpoints, was deleted meanwhile.
EveryEndpointServed ==
    \A m \in Rows :
       (hook[m].at = "off" /\ Present(message, m) /\ \A e \in hook[m].planned : Present(endpoint, e)) =>
          \A e \in hook[m].planned :
             LET tries == delivery[m][e]
             IN  /\ tries # <<>>
                 /\ tries[Len(tries)] = "ok" \/ Len(tries) = MaxRetries
                 /\ \A k \in 1 .. (Len(tries) - 1) : tries[k] # "ok"

\* Whatever else happens to the webhooks of a chat account meanwhile, none of
\* those that set_webhook or delete_webhook found is left when it answers.
WebhookReplaced ==
    [][\A s \in Slots :
          (At(s, "replace") /\ req'[s] = Idle /\ restarts' = restarts) =>
             \A e \in req[s].listed : ~Present(endpoint', e)]_req
-----------------------------------------------------------------------------
(* The sandbox                                                             *)

CONSTANT MaxRestarts      \* bound: restarts

vars == <<baseVars, numberVars, lifecycleVars, callVars, messageVars>>

Init ==
    /\ \E c \in Scenarios : BaseInit(c) /\ MessagesInit(c.endpoints)
    /\ NumbersInit /\ LifecyclesInit /\ CallsInit

\* What a step of one interface leaves alone.
Only(name) ==
    /\ part = name
    /\ name # "numbers" => UNCHANGED numberVars
    /\ name # "lifecycles" => UNCHANGED lifecycleVars
    /\ name # "calls" => UNCHANGED callVars
    /\ name # "messages" => UNCHANGED messageVars

\* ON DELETE CASCADE over every table of the sandbox
DeleteProvider(p) ==
    /\ delete_provider(p)
    /\ NumbersCascade(p) /\ LifecyclesCascade(p) /\ CallsCascade(p) /\ MessagesCascade(p)

\* The process ends with its requests, tasks and the pool of numbers.
Restart ==
    /\ restarts < MaxRestarts /\ restarts' = restarts + 1
    /\ req' = [s \in Slots |-> Idle]
    /\ NumbersRestart /\ LifecyclesRestart /\ CallsRestart /\ MessagesRestart
    /\ UNCHANGED <<part, provider, budget>>

Next ==
    \/ NumbersStep /\ Only("numbers")
    \/ LifecyclesStep /\ Only("lifecycles")
    \/ CallsStep /\ Only("calls")
    \/ MessagesStep /\ Only("messages")
    \/ AdministerStep /\ UNCHANGED <<numberVars, lifecycleVars, callVars, messageVars>>
    \/ \E p \in Providers : DeleteProvider(p)
    \/ Restart

\* Tasks sleep and post with timeouts: each goes on while the process lives.
Fairness ==
    /\ WF_vars(Only("calls") /\ \E i \in CallRows : DriverStep(i))
    /\ WF_vars(Only("lifecycles") /\ LifecycleTask)
    /\ WF_vars(Only("messages") /\ \E m \in Rows : HookStep(m))

Spec == Init /\ [][Next]_vars /\ Fairness
-----------------------------------------------------------------------------
\* Once no request comes any more, every task that a handler has started ends:
\* each port order that was not cancelled is in its last status, each
\* registration approved, each call ended, and every webhook delivered or given
\* up (EveryEndpointServed), unless the process was restarted.
SandboxSettles ==
    <>[](LifecyclesDone /\ CallsDone /\ \A m \in Rows : hook[m].at = "off")

\* Numbers belong to one account at a time, settings written by one handler survive the
\* others, and port orders move forward.
NumbersFaithful == []NumbersReserved /\ SettingsSurvive /\ PortsMoveForward

\* A send that was answered is stored, every endpoint is tried, and a webhook that
\* was set again has taken the place of the old ones.
MessagesFaithful == []EveryEndpointServed /\ SendsAreStored /\ WebhookReplaced

-----------------------------------------------------------------------------
\* Values of the run.

\* One account of each API, and for the shared pool of numbers two of them.
MCScenarios ==
    LET scenarios(name, apis, n, hooks) == [part : {name}, apis : apis, requests : {n}, endpoints : {hooks}]
        single(apis) == {<<a>> : a \in apis}
    IN  scenarios("numbers", single(PhoneApis) \cup {<<"twilio", "twilio">>, <<"bandwidth", "vonage">>}, 3, 0)
          \cup scenarios("lifecycles", single(DOMAIN Creates), 3, 0)
          \cup scenarios("calls", single(PhoneApis), 2, 0)
          \cup scenarios("messages", single(Apis), 2, 0)
          \cup scenarios("messages", {<<"twilio">>, <<"telegram">>}, 2, 2)
MCPool == {1, 2}
MCAreaOf == <<415, 415>>
MCDocuments(api) ==
    LET el(t, u, b) == [tag |-> t, url |-> u, bad |-> b]
    IN  CASE api \in {"twilio", "telnyx"} -> {<<>>, <<el("say", FALSE, FALSE), el("reject", FALSE, FALSE)>>,
                                              <<el("gather", TRUE, FALSE), el("dial", FALSE, FALSE)>>, <<el("pause", FALSE, TRUE)>>}
          [] api = "bandwidth" -> {<<el("redirect", TRUE, FALSE)>>, <<el("transfer", FALSE, FALSE), el("hangup", FALSE, FALSE)>>}
          [] api = "plivo" -> {<<el("speak", FALSE, TRUE)>>, <<el("getdigits", TRUE, FALSE)>>, <<el("dial", FALSE, FALSE)>>}
          [] api = "vonage" -> {<<>>, <<el("talk", FALSE, FALSE), el("connect", FALSE, FALSE)>>, <<el("record", TRUE, FALSE)>>}
          [] OTHER -> {<<>>}
=============================================================================
