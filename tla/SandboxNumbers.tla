--------------------------- MODULE SandboxNumbers ---------------------------
(***************************************************************************)
(* Phone numbers of the emulated telephony APIs (sandbox/providers/twilio, *)
(* telnyx, plivo, bandwidth, vonage) over the shared in-memory pool of     *)
(* seeds/available_numbers.py.                                             *)
(* Answers that leave nothing behind (401, 404, 422, and the 500 of        *)
(* scalar_one_or_none when two rows match) are not steps.                  *)
(* Port orders and 10DLC registrations follow: the handler commits a row   *)
(* and starts a task that walks it through its statuses, each in a         *)
(* transaction of its own that does not look at the status it replaces.    *)
(***************************************************************************)
EXTENDS SandboxProviders

CONSTANTS
    Pool,        \* seeded numbers
    AreaOf       \* area code of a number

Settings == {"messaging", "voice"}      \* what an update handler may set

VARIABLES
    consumed,    \* _consumed: in memory, shared by all accounts
    number,      \* rows of SandboxPhoneNumber
    order,       \* rows of SandboxNumberOrder
    forgotten    \* history: numbers that were freed while a row held them

numberVars == <<consumed, number, order, forgotten>>

Held(i) == Present(number, i) /\ ~number[i].released
Holders(e) == {i \in Rows : Held(i) /\ number[i].e164 = e}
Owns(p, e) == {i \in Rows : number[i].provider = p /\ number[i].e164 = e}

-----------------------------------------------------------------------------
(* seeds/available_numbers.py                                              *)

get_available_numbers(wanted) == (Pool \cap wanted) \ consumed

mark_consumed(e) == consumed' = consumed \cup {e} /\ UNCHANGED forgotten

Inserting(e) == {s \in Slots : req[s].op = "insert_number" /\ req[s].e164 = e}

\* Frees the number whoever else holds it, or is about to; i is the row given
\* back.
release_consumed(e, i) ==
    /\ consumed' = consumed \ {e}
    /\ forgotten' = IF Holders(e) \ {i} # {} \/ Inserting(e) # {} THEN forgotten \cup {e} ELSE forgotten

\* INSERT of a number row for the account of the request: refused by the
\* foreign key when the account has gone.
InsertNumber(p, e) ==
    number' = IF Live(p)
              THEN [number EXCEPT ![First(FreeRow(number))] =
                        [provider |-> p, e164 |-> e, released |-> FALSE, meta |-> {}]]
              ELSE number

\* What a purchase does after its last await, in this order: the pool first.
Purchase(s, e) ==
    /\ FreeRow(number) # {}
    /\ mark_consumed(e) /\ InsertNumber(req[s].provider, e)
    /\ End(s) /\ UNCHANGED order

\* UPDATE number SET released: nothing is matched once the row has gone, but
\* the pool is freed before the commit.
Release(s) ==
    LET i == req[s].row
    IN  /\ release_consumed(req[s].copy.e164, i)
        /\ number' = IF ~Present(number, i) THEN number ELSE [number EXCEPT ![i].released = TRUE]
        /\ End(s) /\ UNCHANGED order

\* Mutant: the other keys are not carried over.
UpdateOneKey(s, x) ==
    LET i == req[s].row
    IN  /\ number' = IF ~Present(number, i) THEN number ELSE [number EXCEPT ![i].meta = {x}]
        /\ End(s) /\ UNCHANGED <<consumed, order, forgotten>>

\* The JSON column is written as a whole, from the copy that was loaded.
UpdateMetadata(s, x) ==
    LET i == req[s].row
    IN  /\ number' = IF ~Present(number, i) THEN number
                     ELSE [number EXCEPT ![i].meta = req[s].copy.meta \cup {x}]
        /\ End(s) /\ UNCHANGED <<consumed, order, forgotten>>

-----------------------------------------------------------------------------
(* Loading.  Sales need the account; the others select one row, by its     *)
(* external id (released rows too) or by account and number.               *)

Sells == [twilio |-> "purchase_number", telnyx |-> "create_number_order", plivo |-> "buy_number",
          bandwidth |-> "order_numbers", vonage |-> "buy_number"]
Edits == [twilio |-> {"update_incoming", "release_incoming"},
          telnyx |-> {"update_owned", "delete_owned"},
          plivo |-> {"update_owned", "release_owned"},
          bandwidth |-> {"set_messaging_settings", "set_voice_settings", "release_number"},
          vonage |-> {"update_number", "cancel_number"}]

LoadSeller(s, p) ==
    /\ Resolves(p) /\ provider[p].api \in PhoneApis
    /\ Begin(s, [op |-> Sells[provider[p].api], provider |-> p])
    /\ UNCHANGED numberVars

LoadNumber(s, i, op) ==
    LET p == number[i].provider  n == number[i]
    IN  /\ Present(number, i) /\ Resolves(p) /\ op \in Edits[provider[p].api]
        /\ CASE provider[p].api \in {"twilio", "telnyx"} -> TRUE             \* by external id
             [] op = "update_number" -> i = First(Owns(p, n.e164))           \* scalars().first()
             [] OTHER -> Owns(p, n.e164) = {i}                               \* scalar_one_or_none()
        /\ Begin(s, [op |-> op, provider |-> p, row |-> i, copy |-> n])
        /\ UNCHANGED numberVars

Asks(s, api, op) == At(s, op) /\ provider[req[s].provider].api = api

-----------------------------------------------------------------------------
(* Twilio                                                                  *)

\* With only an area code the handler picks the number: the search and the
\* reservation have no await in between.  A named number is sold as it is.
twilio_purchase_number(s, e, byArea) ==
    /\ Asks(s, "twilio", "purchase_number")
    /\ byArea => e \in get_available_numbers({n \in Pool : AreaOf[n] = AreaOf[e]})
    /\ Purchase(s, e)

\* Columns, not the JSON document: only what was given is written.
twilio_update_incoming(s, x) ==
    LET i == req[s].row
    IN  /\ Asks(s, "twilio", "update_incoming")
        /\ number' = IF ~Present(number, i) THEN number ELSE [number EXCEPT ![i].meta = @ \cup {x}]
        /\ End(s) /\ UNCHANGED <<consumed, order, forgotten>>

twilio_release_incoming(s) == Asks(s, "twilio", "release_incoming") /\ Release(s)

-----------------------------------------------------------------------------
(* Telnyx and Bandwidth sell orders of numbers: the order is committed     *)
(* before any number is.                                                   *)

InsertOrder(p, es) ==
    order' = IF Live(p) THEN [order EXCEPT ![First(FreeRow(order))] = [provider |-> p, numbers |-> es]]
             ELSE order

PlaceOrder(s, es, next) ==
    /\ FreeRow(order) # {} /\ InsertOrder(req[s].provider, es)
    /\ IF Live(req[s].provider)
       THEN Goto(s, [op |-> next, provider |-> req[s].provider, left |-> es])
       ELSE End(s)
    /\ UNCHANGED <<consumed, number, forgotten>>

telnyx_create_number_order(s, es) ==
    Asks(s, "telnyx", "create_number_order") /\ PlaceOrder(s, es, "register_numbers")

\* All the numbers in the handler's second transaction.
telnyx_register_numbers(s) ==
    LET p == req[s].provider
        rows == CHOOSE f \in [req[s].left -> FreeRow(number)] :
                    \A a, b \in req[s].left : f[a] = f[b] => a = b
        ofRow(i) == CHOOSE e \in req[s].left : rows[e] = i
    IN  /\ Asks(s, "telnyx", "register_numbers")
        /\ Cardinality(FreeRow(number)) >= Cardinality(req[s].left)
        /\ consumed' = consumed \cup req[s].left /\ UNCHANGED forgotten
        /\ number' = IF ~Live(p) THEN number
                     ELSE [i \in Rows |-> IF \E e \in req[s].left : rows[e] = i
                             THEN [provider |-> p, e164 |-> ofRow(i), released |-> FALSE, meta |-> {}]
                             ELSE number[i]]
        /\ End(s) /\ UNCHANGED order

telnyx_update_owned(s, x) == Asks(s, "telnyx", "update_owned") /\ UpdateMetadata(s, x)
telnyx_delete_owned(s) == Asks(s, "telnyx", "delete_owned") /\ Release(s)

bandwidth_order_numbers(s, es) ==
    Asks(s, "bandwidth", "order_numbers") /\ PlaceOrder(s, es, "create_phone_number")

\* One transaction per number; the first that fails ends the request.
bandwidth_create_phone_number(s) ==
    LET p == req[s].provider  e == CHOOSE x \in req[s].left : TRUE  left == req[s].left \ {e}
    IN  /\ Asks(s, "bandwidth", "create_phone_number") /\ FreeRow(number) # {}
        /\ mark_consumed(e) /\ InsertNumber(p, e)
        /\ IF left = {} \/ ~Live(p) THEN End(s) ELSE Goto(s, [req[s] EXCEPT !.left = left])
        /\ UNCHANGED order

bandwidth_set_messaging_settings(s) ==
    Asks(s, "bandwidth", "set_messaging_settings") /\ UpdateMetadata(s, "messaging")
bandwidth_set_voice_settings(s) ==
    Asks(s, "bandwidth", "set_voice_settings") /\ UpdateMetadata(s, "voice")
bandwidth_release_number(s) == Asks(s, "bandwidth", "release_number") /\ Release(s)

-----------------------------------------------------------------------------
(* Plivo and Vonage                                                        *)

plivo_buy_number(s, e) == Asks(s, "plivo", "buy_number") /\ Purchase(s, e)
plivo_update_owned(s, x) == Asks(s, "plivo", "update_owned") /\ UpdateMetadata(s, x)
plivo_release_owned(s) == Asks(s, "plivo", "release_owned") /\ Release(s)

\* The number is reserved before the look-up; an existing row, a released one
\* too, makes the purchase a success without an insert.
vonage_buy_number(s, e) ==
    /\ Asks(s, "vonage", "buy_number")
    /\ mark_consumed(e)
    /\ IF Owns(req[s].provider, e) = {}
       THEN Goto(s, [op |-> "insert_number", provider |-> req[s].provider, e164 |-> e])
       ELSE End(s)
    /\ UNCHANGED <<number, order>>

vonage_insert(s) ==
    /\ Asks(s, "vonage", "insert_number") /\ FreeRow(number) # {}
    /\ InsertNumber(req[s].provider, req[s].e164)
    /\ End(s) /\ UNCHANGED <<consumed, order, forgotten>>

vonage_update_number(s, x) == Asks(s, "vonage", "update_number") /\ UpdateMetadata(s, x)
vonage_cancel_number(s) == Asks(s, "vonage", "cancel_number") /\ Release(s)

-----------------------------------------------------------------------------
(* Reading.  What a search offers (its filters are those of the request)   *)
(* and what an account is shown as its own.                                *)

twilio_search_available_numbers(wanted) == get_available_numbers(wanted)
telnyx_search_available(wanted) == get_available_numbers(wanted)
plivo_search_numbers(wanted) == get_available_numbers(wanted)
bandwidth_available_numbers_search(wanted) == get_available_numbers(wanted)
vonage_search_numbers(wanted) == get_available_numbers(wanted)

Listed(p) == {number[i].e164 : i \in {j \in Rows : Held(j) /\ number[j].provider = p}}

twilio_list_incoming(p) == Listed(p)
telnyx_list_owned(p) == Listed(p)
plivo_list_owned(p) == Listed(p)
bandwidth_list_owned_numbers(p) == Listed(p)
vonage_owned_numbers(p) == Listed(p)

Offered(api) ==
    CASE api = "twilio" -> twilio_search_available_numbers(Pool)
      [] api = "telnyx" -> telnyx_search_available(Pool)
      [] api = "plivo" -> plivo_search_numbers(Pool)
      [] api = "bandwidth" -> bandwidth_available_numbers_search(Pool)
      [] api = "vonage" -> vonage_search_numbers(Pool)
Owned(p) ==
    CASE provider[p].api = "twilio" -> twilio_list_incoming(p)
      [] provider[p].api = "telnyx" -> telnyx_list_owned(p)
      [] provider[p].api = "plivo" -> plivo_list_owned(p)
      [] provider[p].api = "bandwidth" -> bandwidth_list_owned_numbers(p)
      [] provider[p].api = "vonage" -> vonage_owned_numbers(p)
      [] OTHER -> {}

NumbersStep ==
    \E s \in Slots :
       \/ \E p \in Providers : LoadSeller(s, p)
       \/ \E i \in Rows, op \in UNION {Edits[a] : a \in PhoneApis} : LoadNumber(s, i, op)
       \/ \E e \in Pool :
             \/ \E byArea \in BOOLEAN : twilio_purchase_number(s, e, byArea)
             \/ plivo_buy_number(s, e)
             \/ vonage_buy_number(s, e)
       \/ \E es \in SUBSET Pool \ {{}} :
             telnyx_create_number_order(s, es) \/ bandwidth_order_numbers(s, es)
       \/ telnyx_register_numbers(s) \/ bandwidth_create_phone_number(s) \/ vonage_insert(s)
       \/ \E x \in Settings :
             \/ twilio_update_incoming(s, x) \/ telnyx_update_owned(s, x)
             \/ plivo_update_owned(s, x) \/ vonage_update_number(s, x)
       \/ bandwidth_set_messaging_settings(s) \/ bandwidth_set_voice_settings(s)
       \/ twilio_release_incoming(s) \/ telnyx_delete_owned(s) \/ plivo_release_owned(s)
       \/ bandwidth_release_number(s) \/ vonage_cancel_number(s)

NumbersInit ==
    /\ consumed = {} /\ forgotten = {}
    /\ number = [i \in Rows |-> None] /\ order = [i \in Rows |-> None]

\* Rows of a deleted account; the pool is not told.
NumbersCascade(p) ==
    /\ number' = Cascade(number, p) /\ order' = Cascade(order, p)
    /\ UNCHANGED <<consumed, forgotten>>

\* The pool is rebuilt with nothing consumed.
NumbersRestart ==
    /\ consumed' = {}
    /\ forgotten' = forgotten \cup {number[i].e164 : i \in {j \in Rows : Held(j)}}
    /\ UNCHANGED <<number, order>>

-----------------------------------------------------------------------------
\* A number that an account is shown as its own is offered by no API, unless it
\* was given back while two rows held it (or one was being inserted), or the
\* process restarted: no other release, failed insert, partial order or repeated
\* purchase puts a number that somebody holds on sale.
NumbersReserved ==
    \A p \in Providers, api \in PhoneApis : Live(p) => Owned(p) \cap Offered(api) \subseteq forgotten

\* A setting that was acknowledged is dropped only by an update that had
\* loaded the row before; a Twilio update, which writes columns, drops none.
SettingsSurvive ==
    [][\A i \in Rows : Present(number, i) /\ Present(number', i) =>
          \A x \in number[i].meta \ number'[i].meta :
             /\ provider[number[i].provider].api # "twilio"
             /\ \E s \in Slots : /\ req[s] # Idle /\ req'[s] = Idle /\ req[s].row = i
                                /\ x \notin req[s].copy.meta]_number

-----------------------------------------------------------------------------
(* Port orders and 10DLC registrations.                                    *)

VARIABLES
    port,        \* rows of SandboxPortRequest
    registry,    \* rows of SandboxBrand and SandboxCampaign
    tasks        \* for each row of port and of registry, statuses to be written

lifecycleVars == <<port, registry, tasks>>

\* schedule_port_lifecycle and the _lifecycle closures
PortStatuses == [twilio |-> <<"pending-loa", "approved", "foc-scheduled", "completed">>,
                 telnyx |-> <<"pending-loa", "approved", "foc-scheduled", "ported">>,
                 plivo |-> <<"APPROVED", "FOC_SCHEDULED", "COMPLETED">>,
                 bandwidth |-> <<"SUBMITTED", "APPROVED", "FOC", "COMPLETED">>]
FirstStatus == [twilio |-> "submitted", telnyx |-> "submitted", plivo |-> "SUBMITTED",
                bandwidth |-> "RECEIVED"]
Creates == [twilio |-> {"create_port", "create_brand_endpoint", "create_campaign_endpoint"},
            telnyx |-> {"create_port", "create_brand", "create_campaign"},
            plivo |-> {"create_port", "create_brand", "create_campaign"},
            bandwidth |-> {"create_port_in", "create_brand_endpoint", "create_campaign_endpoint"}]

LoadCreator(s, p, op) ==
    /\ Resolves(p) /\ provider[p].api \in DOMAIN Creates /\ op \in Creates[provider[p].api]
    /\ Begin(s, [op |-> op, provider |-> p])
    /\ UNCHANGED lifecycleVars

\* cancel_port exists for Twilio and Plivo
LoadPort(s, i) ==
    /\ Present(port, i) /\ Resolves(port[i].provider)
    /\ provider[port[i].provider].api \in {"twilio", "plivo"}
    /\ Begin(s, [op |-> "cancel_port", provider |-> port[i].provider, row |-> i])
    /\ UNCHANGED lifecycleVars

AsksApi(s, api, op) == At(s, op) /\ provider[req[s].provider].api = api

\* The row is committed before the task is started; a deleted account makes
\* the insert fail and no task is started.
create_port_order(s, statuses) ==
    LET p == req[s].provider  i == First(FreeRow(port))
    IN  /\ FreeRow(port) # {}
        /\ IF Live(p)
           THEN /\ port' = [port EXCEPT ![i] = [provider |-> p, status |-> FirstStatus[provider[p].api], cancelled |-> FALSE]]
                /\ tasks' = [tasks EXCEPT !.port[i] = statuses]
           ELSE UNCHANGED <<port, tasks>>
        /\ End(s) /\ UNCHANGED registry

twilio_create_port(s) == AsksApi(s, "twilio", "create_port") /\ create_port_order(s, PortStatuses.twilio)
telnyx_create_port(s) == AsksApi(s, "telnyx", "create_port") /\ create_port_order(s, PortStatuses.telnyx)
plivo_create_port(s) == AsksApi(s, "plivo", "create_port") /\ create_port_order(s, PortStatuses.plivo)
bandwidth_create_port_in(s) == AsksApi(s, "bandwidth", "create_port_in") /\ create_port_order(s, PortStatuses.bandwidth)

\* The status and the flag, whatever the task has written or will write.
CancelPort(s, status) ==
    LET i == req[s].row
    IN  /\ port' = IF ~Present(port, i) THEN port
                   ELSE [port EXCEPT ![i].status = status, ![i].cancelled = TRUE]
        /\ End(s) /\ UNCHANGED <<registry, tasks>>

twilio_cancel_port(s) == AsksApi(s, "twilio", "cancel_port") /\ CancelPort(s, "canceled")
plivo_cancel_port(s) == AsksApi(s, "plivo", "cancel_port") /\ CancelPort(s, "CANCELLED")

\* A campaign names a brand of the account, or none when it is not found.
Register(s, kind, brand) ==
    LET p == req[s].provider  i == First(FreeRow(registry))
    IN  /\ FreeRow(registry) # {}
        /\ brand # 0 => registry[brand].provider = p /\ registry[brand].kind = "brand"
        /\ IF Live(p)
           THEN /\ registry' = [registry EXCEPT ![i] = [provider |-> p, kind |-> kind, brand |-> brand, status |-> "PENDING"]]
                /\ tasks' = [tasks EXCEPT !.registry[i] = <<"APPROVED">>]
           ELSE UNCHANGED <<registry, tasks>>
        /\ End(s) /\ UNCHANGED port

twilio_create_brand_endpoint(s) == AsksApi(s, "twilio", "create_brand_endpoint") /\ Register(s, "brand", 0)
twilio_create_campaign_endpoint(s, b) == AsksApi(s, "twilio", "create_campaign_endpoint") /\ Register(s, "campaign", b)
telnyx_create_brand(s) == AsksApi(s, "telnyx", "create_brand") /\ Register(s, "brand", 0)
telnyx_create_campaign(s, b) == AsksApi(s, "telnyx", "create_campaign") /\ Register(s, "campaign", b)
plivo_create_brand(s) == AsksApi(s, "plivo", "create_brand") /\ Register(s, "brand", 0)
plivo_create_campaign(s, b) == AsksApi(s, "plivo", "create_campaign") /\ Register(s, "campaign", b)
bandwidth_create_brand_endpoint(s) == AsksApi(s, "bandwidth", "create_brand_endpoint") /\ Register(s, "brand", 0)
bandwidth_create_campaign_endpoint(s, b) == AsksApi(s, "bandwidth", "create_campaign_endpoint") /\ Register(s, "campaign", b)

-----------------------------------------------------------------------------
(* The tasks.  One that does not find its row any more ends.               *)

port_transition(i) ==
    /\ tasks.port[i] # <<>>
    /\ IF Present(port, i)
       THEN /\ port' = [port EXCEPT ![i].status = Head(tasks.port[i])]
            /\ tasks' = [tasks EXCEPT !.port[i] = Tail(@)]
       ELSE tasks' = [tasks EXCEPT !.port[i] = <<>>] /\ UNCHANGED port
    /\ UNCHANGED registry /\ UNCHANGED baseVars

\* Mutant: a brand's task only looks.
ApprovalOfCampaigns(i) ==
    /\ tasks.registry[i] # <<>>
    /\ tasks' = [tasks EXCEPT !.registry[i] = <<>>]
    /\ registry' = IF Present(registry, i) /\ registry[i].kind = "campaign"
                   THEN [registry EXCEPT ![i].status = "APPROVED"] ELSE registry
    /\ UNCHANGED port /\ UNCHANGED baseVars

approval(i) ==
    /\ tasks.registry[i] # <<>>
    /\ tasks' = [tasks EXCEPT !.registry[i] = <<>>]
    /\ registry' = IF Present(registry, i) THEN [registry EXCEPT ![i].status = "APPROVED"] ELSE registry
    /\ UNCHANGED port /\ UNCHANGED baseVars

LifecycleTask == \E i \in Rows : port_transition(i) \/ approval(i)

LifecyclesStep ==
    \/ LifecycleTask
    \/ \E s \in Slots :
       \/ \E p \in Providers, op \in UNION {Creates[a] : a \in DOMAIN Creates} : LoadCreator(s, p, op)
       \/ \E i \in Rows : LoadPort(s, i)
       \/ twilio_create_port(s) \/ telnyx_create_port(s) \/ plivo_create_port(s) \/ bandwidth_create_port_in(s)
       \/ twilio_cancel_port(s) \/ plivo_cancel_port(s)
       \/ twilio_create_brand_endpoint(s) \/ telnyx_create_brand(s)
       \/ plivo_create_brand(s) \/ bandwidth_create_brand_endpoint(s)
       \/ \E b \in {0} \cup {i \in Rows : Present(registry, i)} :
            \/ twilio_create_campaign_endpoint(s, b) \/ telnyx_create_campaign(s, b)
            \/ plivo_create_campaign(s, b) \/ bandwidth_create_campaign_endpoint(s, b)

NoTasks == [port |-> [i \in Rows |-> <<>>], registry |-> [i \in Rows |-> <<>>]]

LifecyclesInit ==
    /\ port = [i \in Rows |-> None] /\ registry = [i \in Rows |-> None] /\ tasks = NoTasks

LifecyclesCascade(p) == /\ port' = Cascade(port, p) /\ registry' = Cascade(registry, p)
                        /\ UNCHANGED tasks

\* Tasks are not persisted: the rows stay where they are.
LifecyclesRestart == tasks' = NoTasks /\ UNCHANGED <<port, registry>>

-----------------------------------------------------------------------------
Rank(p, status) ==
    LET all == <<FirstStatus[provider[p].api]>> \o PortStatuses[provider[p].api]
    IN  IF \E k \in DOMAIN all : all[k] = status THEN CHOOSE k \in DOMAIN all : all[k] = status ELSE 0

\* A port order walks through its statuses one at a time and in order.  Only a
\* cancellation leaves the walk, at any time; the task of a cancelled order goes
\* on with the status it has not written yet, and the flag stays set.
PortsMoveForward ==
    [][\A i \in Rows : Present(port, i) /\ Present(port', i) /\ port[i] # port'[i] =>
          LET p == port[i].provider
          IN  /\ port[i].cancelled => port'[i].cancelled
              /\ IF Rank(p, port'[i].status) = 0 THEN port'[i].cancelled
                 ELSE /\ Rank(p, port'[i].status) + Len(tasks'.port[i]) = Len(PortStatuses[provider[p].api]) + 1
                      /\ port[i].cancelled \/ Rank(p, port'[i].status) = Rank(p, port[i].status) + 1]_port

PortDone(i) ==
    \/ ~Present(port, i) \/ port[i].cancelled
    \/ Rank(port[i].provider, port[i].status) = Len(PortStatuses[provider[port[i].provider].api]) + 1

\* No task is left, and each has left its row in the last status.
LifecyclesDone ==
    /\ tasks = NoTasks
    /\ restarts = 0 => \A i \in Rows : /\ PortDone(i)
                                       /\ Present(registry, i) => registry[i].status = "APPROVED"
=============================================================================
