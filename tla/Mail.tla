-------------------------------- MODULE Mail --------------------------------
(***************************************************************************)
(* Reading, moving, deleting, sending and injecting mail (emails/service.py*)
(* and its routes), and the forwarding rules that a received mail sets off *)
(* (forwarding/service.py).  A request is a series of IMAP commands on one *)
(* mailbox; commands of other requests come in between.  Answers of COPY,  *)
(* STORE and EXPUNGE are not looked at.                                    *)
(***************************************************************************)
EXTENDS Requests, Integers, SequencesExt, FiniteSetsExt

CONSTANTS
    MaxMail,         \* bound: messages, numbered as they come
    Unlisted,        \* those whose header block list_emails does not recognise
    RuleIds, Owners, \* forwarding rules; users
    Shapes,          \* match patterns: field -> the messages that it matches, NoPattern without one
    NoPattern, Gone,
    MaxRefusals      \* bound: COPY commands that the server refuses

VARIABLES
    box,       \* folder -> copies [msg, uid, seen, deleted]
    uidNext,   \* folder -> next UID
    issued,    \* messages so far
    arrived,   \* history: messages that were in a folder
    owner,     \* of the mailbox; Gone when it has none or is not active
    rules,     \* rule -> [user, on, match, type, config], or Gone
    keys,      \* "sign", "encrypt": the keys that sending finds
    destroyed, \* history: messages deleted for good, on purpose
    refused,   \* history: messages whose COPY was refused
    wire,      \* history: what was handed to Postfix: [msg, asked, has]
    tried,     \* history: <<rule, message>> in order
    expected,  \* history: message -> rules that must see it, and have not changed since
    handled    \* history: messages whose event has been dealt with

mailVars == <<box, uidNext, issued, arrived, owner, rules, keys, destroyed, refused, wire, tried, expected, handled>>
folderVars == <<box, uidNext, issued, arrived, destroyed, refused>>
ruleVars == <<owner, rules, tried, expected, handled>>
sendVars == <<keys, wire>>

Mail == 1..MaxMail
Folders == {"INBOX", "Junk", "Trash", "Sent"}
Fields == {"match_from", "match_to", "match_subject", "match_mailbox"}

Put(folder, c) ==
    /\ box' = [box EXCEPT ![folder] = @ \cup {[c EXCEPT !.uid = uidNext[folder]]}]
    /\ uidNext' = [uidNext EXCEPT ![folder] = @ + 1]
Found(folder, uid) == {c \in box[folder] : c.uid = uid}
Fresh(m) == [msg |-> m, uid |-> 0, seen |-> FALSE, deleted |-> FALSE]

-----------------------------------------------------------------------------
(* Listing *)

\* UIDs newest first, each in the place that those as new give it; the page is cut out
\* of them.  A header block of at most 50 characters, or one that mentions both FETCH
\* and UID, is taken for another line of the answer, and its message is passed over.
Uids(folder) == {c.uid : c \in box[folder]}
Place(u, uids) == Cardinality({v \in uids : v >= u})
Newest(folder) == [i \in 1..Cardinality(Uids(folder)) |-> CHOOSE u \in Uids(folder) : Place(u, Uids(folder)) = i]
Listed(folder, u) == \E c \in Found(folder, u) : c.msg \notin Unlisted

list_emails(folder, page, size) ==
    LET uids == Newest(folder)
        places == {i \in (page - 1) * size + 1 .. page * size : i \in DOMAIN uids /\ Listed(folder, uids[i])}
    IN [emails |-> [i \in places |-> uids[i]], has_more |-> page * size < Len(uids)]

-----------------------------------------------------------------------------
(* Moving and deleting: COPY, STORE \Deleted, EXPUNGE for one UID after the *)
(* other                                                                    *)

Command(op, folder, target, uids) == [op |-> op, folder |-> folder, target |-> target, uids |-> uids]

Flagged(folder, uids) == {IF c.uid \in uids THEN [c EXCEPT !.deleted = TRUE] ELSE c : c \in box[folder]}

\* Mutant: the original is flagged and expunged before it is copied.
ExpungeFirst(s, folder, uid, target) ==
    /\ Begin(s, Command("copy", folder, target, <<uid>>))
    /\ box' = [box EXCEPT ![folder] = Flagged(folder, {uid})] /\ UNCHANGED <<uidNext, issued, arrived, destroyed, refused, ruleVars, sendVars>>

move_email_to_folder(s, folder, uid, target) ==
    Begin(s, Command("copy", folder, target, <<uid>>)) /\ UNCHANGED mailVars

\* Training the filter is a placeholder that does nothing.
mark_email_as_spam(s, folder, uid) == move_email_to_folder(s, folder, uid, "Junk")
mark_email_as_not_spam(s, uid) == move_email_to_folder(s, "Junk", uid, "INBOX")

\* In Trash there is nothing to copy.
delete_email(folder, uids) == Command(IF folder = "Trash" THEN "store" ELSE "copy", folder, "Trash", uids)
bulk_delete_emails(s, folder, uids) == Begin(s, delete_email(folder, uids)) /\ UNCHANGED mailVars

\* On to the next UID, when one is deleted or could not be.
NextUid(s) == IF Len(req[s].uids) = 1 THEN End(s) ELSE Goto(s, delete_email(req[s].folder, Tail(req[s].uids)))
DeleteFails(s) == req[s].op \in {"copy", "store", "expunge"} /\ NextUid(s) /\ UNCHANGED mailVars

Copy(s) ==
    LET q == req[s]
        found == Found(q.folder, Head(q.uids))
    IN /\ At(s, "copy") /\ Step(s, "store")
       /\ IF found = {} THEN UNCHANGED <<box, uidNext>> ELSE \E c \in found : Put(q.target, c)
       /\ UNCHANGED <<issued, arrived, destroyed, refused, ruleVars, sendVars>>

\* Over quota, or the folder could not be created.
CopyRefused(s) ==
    LET q == req[s]
    IN /\ At(s, "copy") /\ Found(q.folder, Head(q.uids)) # {} /\ Cardinality(refused) < MaxRefusals /\ Step(s, "store")
       /\ refused' = refused \cup {c.msg : c \in Found(q.folder, Head(q.uids))}
       /\ UNCHANGED <<box, uidNext, issued, arrived, destroyed, ruleVars, sendVars>>

Store(s) ==
    LET q == req[s]
    IN /\ At(s, "store") /\ Step(s, "expunge")
       /\ box' = [box EXCEPT ![q.folder] = Flagged(q.folder, {Head(q.uids)})]
       /\ destroyed' = IF q.folder = "Trash" /\ q.target = "Trash" THEN destroyed \cup {c.msg : c \in Found("Trash", Head(q.uids))} ELSE destroyed
       /\ UNCHANGED <<uidNext, issued, arrived, refused, ruleVars, sendVars>>

\* All flagged messages of the folder go, whoever flagged them.
Expunge(s) ==
    LET q == req[s]
    IN /\ At(s, "expunge")
       /\ box' = [box EXCEPT ![q.folder] = {c \in @ : ~c.deleted}]
       /\ NextUid(s)
       /\ UNCHANGED <<uidNext, issued, arrived, destroyed, refused, ruleVars, sendVars>>

\* The folders that hold mail now, one after the other.
purge_mailbox(s) ==
    LET held(f) == IF box[f] # {} THEN <<f>> ELSE <<>>
        todo == held("INBOX") \o held("Junk") \o held("Trash") \o held("Sent")
    IN todo # <<>> /\ Begin(s, [op |-> "search", todo |-> todo]) /\ UNCHANGED mailVars

Skip(s) == IF Len(req[s].todo) = 1 THEN End(s) ELSE Goto(s, [op |-> "search", todo |-> Tail(req[s].todo)])
PurgeSearch(s) ==
    LET q == req[s]
        uids == Uids(Head(q.todo))
    IN /\ At(s, "search")
       /\ IF uids = {} THEN Skip(s) ELSE Goto(s, [op |-> "purge_store", todo |-> q.todo, uids |-> uids])
       /\ UNCHANGED mailVars
PurgeStore(s) ==
    LET q == req[s]
        f == Head(q.todo)
    IN /\ At(s, "purge_store") /\ Step(s, "purge_expunge")
       /\ box' = [box EXCEPT ![f] = Flagged(f, q.uids)]
       /\ destroyed' = destroyed \cup {c.msg : c \in {d \in box[f] : d.uid \in q.uids}}
       /\ UNCHANGED <<uidNext, issued, arrived, refused, ruleVars, sendVars>>
PurgeExpunge(s) ==
    /\ At(s, "purge_expunge") /\ Skip(s)
    /\ box' = [box EXCEPT ![Head(req[s].todo)] = {c \in @ : ~c.deleted}]
    /\ UNCHANGED <<uidNext, issued, arrived, destroyed, refused, ruleVars, sendVars>>

Mark(folder, uid, seen) == box' = [box EXCEPT ![folder] = {IF c.uid = uid THEN [c EXCEPT !.seen = seen] ELSE c : c \in @}]

set_email_flags(folder, uid, seen) ==
    Serve /\ Mark(folder, uid, seen) /\ UNCHANGED <<uidNext, issued, arrived, destroyed, refused, ruleVars, sendVars>>

\* Opening a mail marks it as read, unless it is gone or was read.  Keys that it carries
\* are imported, see GpgKeys.
get_email(folder, uid) ==
    Serve /\ Mark(folder, uid, TRUE) /\ UNCHANGED <<uidNext, issued, arrived, destroyed, refused, ruleVars, sendVars>>

-----------------------------------------------------------------------------
(* Sending: signed and encrypted before it is handed over; Postfix files a   *)
(* copy in Sent                                                              *)

NewMail(n) == issued + n <= MaxMail /\ issued' = issued + n /\ UNCHANGED <<box, uidNext, arrived, destroyed, refused, ruleVars, sendVars>>

send_email(s, asked) == Begin(s, [op |-> "sign", msg |-> issued + 1, asked |-> asked, has |-> {}]) /\ NewMail(1)

Protect(s, op, then) ==
    LET q == req[s]
    IN /\ At(s, op) /\ UNCHANGED mailVars
       /\ CASE op \notin q.asked -> Step(s, then)
            [] op \in q.asked /\ op \in keys -> Goto(s, [q EXCEPT !.op = then, !.has = @ \cup {op}])
            [] OTHER -> End(s)

Submit(s) ==
    LET q == req[s]
    IN /\ At(s, "submit") /\ End(s)
       /\ wire' = wire \cup {[msg |-> q.msg, asked |-> q.asked, has |-> q.has]} /\ Put("Sent", Fresh(q.msg)) /\ arrived' = arrived \cup {q.msg}
       /\ UNCHANGED <<issued, destroyed, refused, ruleVars, keys>>

ChangeKeys(set) == keys' = set /\ keys # set /\ Serve /\ UNCHANGED <<folderVars, ruleVars, wire>>

-----------------------------------------------------------------------------
(* Injecting, and the event that follows                                     *)

bulk_inject(s, n) ==
    Begin(s, [op |-> "append", todo |-> [i \in 1..n |-> issued + i], uid |-> 0, user |-> Gone, fire |-> {}]) /\ NewMail(n)

\* The event has been dealt with, or the append failed: on to the next.
NextInject(s) ==
    IF Len(req[s].todo) = 1 THEN End(s)
    ELSE Goto(s, [op |-> "append", todo |-> Tail(req[s].todo), uid |-> 0, user |-> Gone, fire |-> {}])

matches_pattern(pattern, m) == pattern = NoPattern \/ m \in pattern
evaluate_rule(r, m) == [f \in Fields |-> matches_pattern(r.match[f], m)]
rule_matches(r, m) == \A f \in Fields : evaluate_rule(r, m)[f]
Eligible(user, m) == {r \in RuleIds : rules[r] # Gone /\ rules[r].on /\ rules[r].user = user /\ rule_matches(rules[r], m)}

\* A mail to inject may be signed and encrypted first, as one to send.
inject_email(s) ==
    LET q == req[s]
        m == Head(q.todo)
    IN /\ At(s, "append") /\ Put("INBOX", Fresh(m)) /\ arrived' = arrived \cup {m}
       /\ expected' = [expected EXCEPT ![m] = Eligible(owner, m)]
       /\ Goto(s, [q EXCEPT !.op = "owner", !.uid = uidNext["INBOX"]])
       /\ UNCHANGED <<issued, destroyed, refused, owner, rules, tried, handled, sendVars>>
InjectFails(s) == At(s, "append") /\ NextInject(s) /\ UNCHANGED mailVars

Handled(s) == handled' = handled \cup {Head(req[s].todo)} /\ NextInject(s)

\* A mailbox without an owner forwards nothing.
process_incoming_email(s) ==
    /\ At(s, "owner") /\ UNCHANGED <<folderVars, sendVars, owner, rules, tried, expected>>
    /\ IF owner = Gone THEN Handled(s) ELSE Goto(s, [req[s] EXCEPT !.op = "rules", !.user = owner]) /\ UNCHANGED handled

\* The rules as they are now; later changes do not reach this mail.
SelectRules(s) ==
    LET q == req[s]
        found == Eligible(q.user, Head(q.todo))
    IN /\ At(s, "rules") /\ UNCHANGED <<folderVars, sendVars, owner, rules, tried, expected>>
       /\ IF found = {} THEN Handled(s)
          ELSE Goto(s, [q EXCEPT !.op = "fetch", !.fire = {<<r, rules[r]>> : r \in found}]) /\ UNCHANGED handled

\* The payload is fetched as a reader would, and marked as read; without it the rules
\* get the header fields alone.
FetchPayload(s) ==
    /\ At(s, "fetch") /\ Step(s, "fire") /\ (Mark("INBOX", req[s].uid, TRUE) \/ UNCHANGED box)
    /\ UNCHANGED <<uidNext, issued, arrived, destroyed, refused, ruleVars, sendVars>>

\* net: "ok", "error", or "private" for a webhook that resolves to an internal address.
\* A configuration of the other type has none of the keys that the action reads.
validate_webhook_destination(net) == net # "private"
execute_smtp_forward(rule, net) == rule.config = "smtp_forward" /\ net # "error"
execute_webhook(rule, net) == rule.config = "webhook" /\ validate_webhook_destination(net) /\ net = "ok"
execute_rule_action(rule, net) == IF rule.type = "smtp_forward" THEN execute_smtp_forward(rule, net) ELSE execute_webhook(rule, net)

\* Mutant: a rule that fails ends the loop.
StopAtFailure(ok, left) == ok /\ left # {}
GoOn(ok, left) == left # {}

Fire(s, net) ==
    LET q == req[s]
    IN /\ At(s, "fire")
       /\ \E r \in q.fire :
              /\ tried' = Append(tried, <<r[1], Head(q.todo)>>)
              /\ IF GoOn(execute_rule_action(r[2], net), q.fire \ {r})
                 THEN Goto(s, [q EXCEPT !.fire = @ \ {r}]) /\ UNCHANGED handled ELSE Handled(s)
       /\ UNCHANGED <<folderVars, sendVars, owner, rules, expected>>

-----------------------------------------------------------------------------
(* Rules and the mailbox                                                     *)

Unexpect(r) == expected' = [m \in Mail |-> expected[m] \ {r}]

create_rule(r, user, shape, type) ==
    /\ rules[r] = Gone /\ Serve
    /\ rules' = [rules EXCEPT ![r] = [user |-> user, on |-> TRUE, match |-> shape, type |-> type, config |-> type]]
    /\ UNCHANGED <<folderVars, sendVars, owner, tried, expected, handled>>

\* A new configuration must fit the type the rule will have; only the given columns
\* are written.
update_rule(s, r, change) ==
    /\ rules[r] # Gone
    /\ "config" \in DOMAIN change => change.config = (IF "type" \in DOMAIN change THEN change.type ELSE rules[r].type)
    /\ Begin(s, [op |-> "update", rule |-> r, change |-> change]) /\ UNCHANGED mailVars
CommitRule(s) ==
    LET q == req[s]
    IN /\ At(s, "update") /\ End(s)
       /\ rules' = IF rules[q.rule] = Gone THEN rules ELSE [rules EXCEPT ![q.rule] = [f \in DOMAIN @ |-> IF f \in DOMAIN q.change THEN q.change[f] ELSE @[f]]]
       /\ Unexpect(q.rule) /\ UNCHANGED <<folderVars, sendVars, owner, tried, handled>>

delete_rule(r) ==
    /\ rules[r] # Gone /\ Serve /\ rules' = [rules EXCEPT ![r] = Gone] /\ Unexpect(r)
    /\ UNCHANGED <<folderVars, sendVars, owner, tried, handled>>

\* The mailbox is deleted, reactivated or given to somebody else (see Mailboxes).
ChangeOwner(user) ==
    /\ user # owner /\ owner' = user /\ Serve /\ expected' = [m \in Mail |-> {}]
    /\ UNCHANGED <<folderVars, sendVars, rules, tried, handled>>

\* The client gives up, IMAP or SMTP fails, or the process stops.
Abandon(s) ==
    /\ req[s] # Idle /\ End(s) /\ UNCHANGED mailVars

\* n messages are in INBOX and some rules exist.
MailInit(n, existing) ==
    /\ box = [f \in Folders |-> IF f = "INBOX" THEN {[Fresh(m) EXCEPT !.uid = m] : m \in 1..n} ELSE {}]
    /\ uidNext = [f \in Folders |-> IF f = "INBOX" THEN n + 1 ELSE 1] /\ issued = n /\ arrived = 1..n
    /\ owner = (CHOOSE u \in Owners : TRUE) /\ rules \in existing /\ keys = {"sign", "encrypt"}
    /\ destroyed = {} /\ refused = {} /\ wire = {} /\ tried = <<>> /\ handled = {}
    /\ expected = [m \in Mail |-> {}]

-----------------------------------------------------------------------------
(* Properties *)

\* service.py:846-1003: a message that was in the mailbox is still there, not flagged
\* for removal, unless it was deleted from Trash or purged on purpose, or the server
\* refused to copy it: moves, deletions and purges that overlap or break off in the
\* middle lose nothing.
NothingLost == \A m \in arrived \ (destroyed \cup refused) : \E f \in Folders : \E c \in box[f] : c.msg = m /\ ~c.deleted

\* service.py:329-422: a folder's pages show every message once, newest first, but
\* for those that are not recognised, which shift nothing; behind a page that says
\* there is no more there is none.
PagesComplete ==
    \A f \in Folders, size \in 1..2 :
        LET pages == [p \in 1..(Cardinality(box[f]) + 2) |-> list_emails(f, p, size)]
            shown(p) == DOMAIN pages[p].emails
        IN /\ \A c \in box[f] : c.msg \notin Unlisted => \E p \in DOMAIN pages : \E i \in shown(p) : pages[p].emails[i] = c.uid
           /\ \A p, q \in DOMAIN pages : \A i \in shown(p), j \in shown(q) :
                  p < q \/ (p = q /\ i < j) => pages[p].emails[i] > pages[q].emails[j]
           /\ \A p, q \in DOMAIN pages : p < q /\ ~pages[p].has_more => shown(q) = {}

\* service.py:697-747: what left was signed and encrypted if that was asked.
ProtectedAsAsked == \A w \in wire : w.asked \subseteq w.has

MailKept == part \in {"mail", "forward"} => NothingLost /\ PagesComplete /\ ProtectedAsAsked

\* forwarding/service.py:324-424: every rule that matched a mail when it came and has not
\* changed since was tried once it has been dealt with, whatever the others did, and no
\* rule is tried twice for a mail.
ForwardingComplete ==
    part = "forward" =>
        /\ \A m \in handled : \A r \in expected[m] : <<r, m>> \in Range(tried)
        /\ IsInjective(tried)
=============================================================================
