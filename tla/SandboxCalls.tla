---------------------------- MODULE SandboxCalls ----------------------------
(***************************************************************************)
(* Voice calls of the emulated telephony APIs (sandbox/voice and the call  *)
(* endpoints of sandbox/providers): a handler commits the call and starts  *)
(* a task that walks it through its statuses, fetches the application's    *)
(* call-control document and executes it, and posts an event per status.   *)
(* Requests may write the status of a running call as well.                *)
(***************************************************************************)
EXTENDS SandboxProviders

CONSTANTS
    CallRows,     \* bound: ids of calls
    Documents(_), \* call-control documents of an application, by API
    MaxFollows   \* follow-up documents before the recursion limit

VARIABLES
    call,        \* rows of SandboxCall
    driver,      \* _drive_call of a row: where it is, and the actions left
    posting,     \* events posted by tasks nobody waits for (Twilio)
    events       \* statuses the application was told, in order of arrival

callVars == <<call, driver, posting, events>>

Final == {"completed", "failed", "canceled"}
Off == [at |-> "off", api |-> "none", ir |-> <<>>, depth |-> 0]

-----------------------------------------------------------------------------
(* voice/interpreter.py: the verbs of each dialect.  A child element of a  *)
(* document has a tag, may carry a URL, and may have a numeric attribute   *)
(* that int() refuses; unknown tags are skipped.                           *)

parse_twiml == [say |-> "say", play |-> "play", pause |-> "pause", hangup |-> "hangup", reject |-> "reject",
                redirect |-> "redirect", gather |-> "gather", record |-> "record", dial |-> "dial"]
parse_bxml == [speaksentence |-> "say", playaudio |-> "play", pause |-> "pause", hangup |-> "hangup",
               redirect |-> "redirect", gather |-> "gather", record |-> "record", transfer |-> "dial"]
parse_plivo_xml == [speak |-> "say", play |-> "play", wait |-> "pause", hangup |-> "hangup",
                    redirect |-> "redirect", getdigits |-> "gather", record |-> "record", dial |-> "dial"]
parse_texml == parse_twiml
parse_ncco == [talk |-> "say", stream |-> "play", input |-> "gather", record |-> "record",
               connect |-> "dial", conversation |-> "conversation"]

parse_for_provider == [twilio |-> parse_twiml, bandwidth |-> parse_bxml, plivo |-> parse_plivo_xml,
                        telnyx |-> parse_texml, vonage |-> parse_ncco]

\* The verbs in whose parsing int() is called.
Numeric == [twilio |-> {"say", "play", "pause", "gather", "record", "dial"},
            telnyx |-> {"say", "play", "pause", "gather", "record", "dial"},
            bandwidth |-> {"pause", "gather", "record"},
            plivo |-> {"say", "pause", "gather", "record", "dial"},
            vonage |-> {"say", "gather", "record", "dial"}]

\* A document that does not parse, or is no response, has no actions; an NCCO
\* stream needs a URL.
Actions(api, doc) ==
    LET verbs == parse_for_provider[api]
        known == SelectSeq(doc, LAMBDA c : c.tag \in DOMAIN verbs /\ (c.tag = "stream" => c.url))
    IN  [k \in DOMAIN known |-> [type |-> verbs[known[k].tag], url |-> known[k].url, bad |-> known[k].bad]]

Raises(api, ir) == \E k \in DOMAIN ir : ir[k].bad /\ ir[k].type \in Numeric[api]

-----------------------------------------------------------------------------
(* Events.  Each API translates the worker's status, or leaves it out.     *)

\* Whom an event about status is posted to: TRUE when there is an address.
twilio_status_cb(c, status) == c.callback
telnyx_cb(c, status) == c.url /\ status # "dialing"       \* the webhook is the answer URL
plivo_cb(c, status) == c.callback
bandwidth_status_cb(c, status) ==
    IF status \in Final THEN c.callback ELSE c.url /\ status # "dialing"
vonage_status_cb(c, status) == c.callback

Notified(c, status) ==
    CASE provider[c.provider].api = "twilio" -> twilio_status_cb(c, status)
      [] provider[c.provider].api = "telnyx" -> telnyx_cb(c, status)
      [] provider[c.provider].api = "plivo" -> plivo_cb(c, status)
      [] provider[c.provider].api = "bandwidth" -> bandwidth_status_cb(c, status)
      [] provider[c.provider].api = "vonage" -> vonage_status_cb(c, status)

\* Mutant: nobody waits for a post.
PostAndForget(i, status, arrives) ==
    IF Notified(call[i], status)
    THEN /\ posting' = [posting EXCEPT ![i] = @ \cup {status}]
         /\ UNCHANGED events
    ELSE UNCHANGED <<posting, events>>

\* build_call_status_callback starts a task; the others await the post, whose
\* errors are swallowed.
post(i, status, arrives) ==
    IF ~Notified(call[i], status) THEN UNCHANGED <<posting, events>>
    ELSE IF provider[call[i].provider].api = "twilio"
    THEN /\ posting' = [posting EXCEPT ![i] = @ \cup {status}]
         /\ UNCHANGED events
    ELSE /\ events' = IF arrives THEN [events EXCEPT ![i] = Append(@, status)] ELSE events
         /\ UNCHANGED posting

PostArrives(i) ==
    /\ \E status \in posting[i] :
          /\ posting' = [posting EXCEPT ![i] = @ \ {status}]
          /\ \E arrives \in BOOLEAN :
                events' = IF arrives THEN [events EXCEPT ![i] = Append(@, status)] ELSE events
    /\ UNCHANGED <<call, driver>> /\ UNCHANGED baseVars

-----------------------------------------------------------------------------
(* voice/worker.py                                                         *)

start_call(i, api) == driver' = [driver EXCEPT ![i] = [Off EXCEPT !.at = "initiated", !.api = api]]

\* The status is written over whatever is there; a deleted call is left alone.
emit(i, status, arrives) ==
    IF ~Present(call, i) THEN UNCHANGED <<call, posting, events>>
    ELSE /\ call' = [call EXCEPT ![i].status = status,
                                 ![i].answered = @ \/ status = "answered",
                                 ![i].ended = @ \/ status \in Final]
         /\ post(i, status, arrives)

Go(i, at) == driver' = [driver EXCEPT ![i].at = at]
Drive(i, at) == driver[i].at = at /\ UNCHANGED baseVars

drive_initiated(i, arrives) == Drive(i, "initiated") /\ emit(i, "initiated", arrives) /\ Go(i, "ringing")
drive_ringing(i, arrives) == Drive(i, "ringing") /\ emit(i, "ringing", arrives) /\ Go(i, "load")

\* The answer URL as it is now, the fetch (any error is an empty document) and
\* the parse.
fetch_ir(i, doc) ==
    /\ Drive(i, "load")
    /\ IF Present(call, i) /\ call[i].url
       THEN LET ir == Actions(provider[call[i].provider].api, doc)
            IN  IF Raises(driver[i].api, ir) THEN Go(i, "failed")
                ELSE driver' = [driver EXCEPT ![i].at = "answer", ![i].ir = ir]
       ELSE Go(i, "answer")
    /\ UNCHANGED <<call, posting, events>>

drive_answered(i, arrives) == Drive(i, "answer") /\ emit(i, "answered", arrives) /\ Go(i, "execute")

record_transcript(i) ==
    [call EXCEPT ![i].transcript = @ \cup {Head(driver[i].ir).type}]

\* One action: the transcript first, then what the verb does.
execute_ir(i, doc, arrives) ==
    LET a == Head(driver[i].ir)
        rest == [driver EXCEPT ![i].ir = Tail(@)]
        stop == [driver EXCEPT ![i].ir = <<>>, ![i].at = "finish"]
    IN  /\ Drive(i, "execute") /\ driver[i].ir # <<>>
        /\ IF ~Present(call, i)
           THEN UNCHANGED <<call, posting, events>>
           ELSE IF a.type \in {"reject", "dial"}
           THEN LET status == IF a.type = "reject" THEN "canceled" ELSE "dialing"
                IN  /\ call' = [record_transcript(i) EXCEPT ![i].status = status,
                                                             ![i].ended = @ \/ status \in Final]
                    /\ post(i, status, arrives)
           ELSE call' = record_transcript(i) /\ UNCHANGED <<posting, events>>
        /\ CASE a.type \in {"hangup", "reject"} -> driver' = stop
             [] a.type \in {"redirect", "gather", "record"} /\ a.url ->      \* follow and return
                  LET ir == Actions(driver[i].api, doc)
                  IN  IF Raises(driver[i].api, ir) \/ driver[i].depth = MaxFollows
                      THEN driver' = [driver EXCEPT ![i].at = "failed"]
                      ELSE driver' = [driver EXCEPT ![i].ir = ir, ![i].depth = @ + 1]
             [] OTHER -> driver' = rest

executed(i) ==
    /\ Drive(i, "execute") /\ driver[i].ir = <<>> /\ Go(i, "finish")
    /\ UNCHANGED <<call, posting, events>>

finish(i, status, arrives) ==
    /\ Drive(i, IF status = "failed" THEN "failed" ELSE "finish")
    /\ emit(i, status, arrives)
    /\ driver' = [driver EXCEPT ![i] = Off]

DriverStep(i) ==
    \/ \E arrives \in BOOLEAN :
          \/ drive_initiated(i, arrives) \/ drive_ringing(i, arrives) \/ drive_answered(i, arrives)
          \/ finish(i, "completed", arrives) \/ finish(i, "failed", arrives)
          \/ \E doc \in Documents(driver[i].api) : execute_ir(i, doc, arrives)
    \/ \E doc \in Documents(driver[i].api) : fetch_ir(i, doc)
    \/ executed(i)
-----------------------------------------------------------------------------
(* The call endpoints.  url: the request named an answer URL; callback: it *)
(* named one for events; ncco: a Vonage request carried its document.      *)

LoadCaller(s, p) ==
    /\ Resolves(p) /\ provider[p].api \in PhoneApis
    /\ Begin(s, [op |-> "create_call", provider |-> p])
    /\ UNCHANGED callVars

LoadCall(s, i, op) ==
    /\ Present(call, i) /\ Resolves(call[i].provider)
    /\ provider[call[i].provider].api = IF op = "update_call" THEN "twilio" ELSE "telnyx"
    /\ Begin(s, [op |-> op, provider |-> call[i].provider, row |-> i])
    /\ UNCHANGED callVars

\* The row is committed, then the task is started; neither happens for an
\* account that has gone.
InsertCall(s, api, status, url, callback, ncco) ==
    LET p == req[s].provider  i == First(FreeRow(call))
    IN  /\ At(s, "create_call") /\ provider[p].api = api /\ FreeRow(call) # {}
        /\ IF Live(p)
           THEN /\ call' = [call EXCEPT ![i] = [provider |-> p, status |-> status, answered |-> FALSE, ended |-> FALSE,
                                               url |-> url, callback |-> callback, ncco |-> ncco, transcript |-> {}]]
                /\ start_call(i, api)
           ELSE UNCHANGED <<call, driver>>
        /\ End(s) /\ UNCHANGED <<posting, events>>

twilio_create_call_endpoint(s, url, cb) == InsertCall(s, "twilio", "queued", url, cb, FALSE)
telnyx_create_call(s, url) == InsertCall(s, "telnyx", "parked", url, url, FALSE)
plivo_create_call(s, url, cb) == InsertCall(s, "plivo", "queued", url, cb, FALSE)
bandwidth_create_call_endpoint(s, url, cb) == InsertCall(s, "bandwidth", "queued", url, cb, FALSE)
\* The inline document is stored with the row and read by nobody.
vonage_create_call(s, url, cb, ncco) == InsertCall(s, "vonage", "started", url, cb, ncco)

\* Overwrites the status of a running or finished call; the task goes on.
twilio_update_call_endpoint(s, status, url) ==
    LET i == req[s].row
    IN  /\ At(s, "update_call")
        /\ call' = IF ~Present(call, i) THEN call
                   ELSE [call EXCEPT ![i].status = IF status = "given" THEN @ ELSE status,
                                     ![i].url = @ \/ url]
        /\ End(s) /\ UNCHANGED <<driver, posting, events>>

telnyx_call_action_hangup(s) ==
    LET i == req[s].row
    IN  /\ At(s, "hangup")
        /\ call' = IF Present(call, i) THEN [call EXCEPT ![i].status = "completed"] ELSE call
        /\ End(s) /\ UNCHANGED <<driver, posting, events>>

CallsStep ==
    \/ \E i \in CallRows : DriverStep(i) \/ PostArrives(i)
    \/ \E s \in Slots :
       \/ \E p \in Providers : LoadCaller(s, p)
       \/ \E i \in CallRows, op \in {"update_call", "hangup"} : LoadCall(s, i, op)
       \/ \E url, cb \in BOOLEAN :
             \/ twilio_create_call_endpoint(s, url, cb) \/ plivo_create_call(s, url, cb)
             \/ bandwidth_create_call_endpoint(s, url, cb)
             \/ \E ncco \in BOOLEAN : vonage_create_call(s, url, cb, ncco)
       \/ \E url \in BOOLEAN :
             \/ telnyx_create_call(s, url)
             \/ \E status \in {"given", "canceled", "completed"} : twilio_update_call_endpoint(s, status, url)
       \/ telnyx_call_action_hangup(s)

CallsInit ==
    /\ call = [i \in CallRows |-> None] /\ driver = [i \in CallRows |-> Off]
    /\ posting = [i \in CallRows |-> {}] /\ events = [i \in CallRows |-> <<>>]

CallsCascade(p) == call' = Cascade(call, p) /\ UNCHANGED <<driver, posting, events>>

\* Neither the tasks nor the posts survive.
CallsRestart ==
    /\ driver' = [i \in CallRows |-> Off] /\ posting' = [i \in CallRows |-> {}]
    /\ UNCHANGED <<call, events>>

-----------------------------------------------------------------------------
Stage(status) ==
    CASE status = "initiated" -> 1 [] status = "ringing" -> 2 [] status = "answered" -> 3
      [] status = "dialing" -> 4 [] status = "canceled" -> 5 [] status \in {"completed", "failed"} -> 6

\* Where an API awaits its posts, the application hears of the statuses in the
\* order of the call, of completed or failed at most once, and of nothing after
\* it, whatever posts are lost and whatever requests write into the row.
EventsInOrder ==
    \A i \in CallRows : Present(call, i) /\ provider[call[i].provider].api # "twilio" =>
       \A j, k \in DOMAIN events[i] : j < k =>
          /\ Stage(events[i][j]) <= Stage(events[i][k])
          /\ events[i][j] \notin {"completed", "failed"}

\* A call that the worker has ended is final, and stays so: no late status of
\* the task and no request takes it back to a running one.
EndedIsFinal == \A i \in CallRows : Present(call, i) /\ call[i].ended => call[i].status \in Final

CallsOrdered == EventsInOrder /\ EndedIsFinal

\* No task is left, and each has ended its call.
CallsDone ==
    \A i \in CallRows : /\ driver[i].at = "off"
                        /\ Present(call, i) /\ restarts = 0 => call[i].ended

=============================================================================
