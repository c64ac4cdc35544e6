# A TLA+ model of MailCue

MailCue is a mail server for testing and for sending: a FastAPI backend around
Postfix and Dovecot, and a Rust tunnel that lets outgoing mail leave through
remote hosts. This directory holds TLA+ modules for the parts whose correctness
depends on the order of events or on a computation that is hard to test, the TLC
configurations that check them, and proofs, checked by TLAPS, of what matters
most. `PROJECT.json` lists components, runs, mutants, the map from definitions to
source lines, findings, hazards and theorems.

Run a model with `tlc -config X.cfg M`, proofs with `tlapm M.tla`.

## 1. The system

### Mail tunnel (Rust, `src/tunnel/crates`)

Postfix hands mail to the **sidecar** over SMTP. The sidecar picks tunnels from
`tunnels.json`, leases a connection (Noise over TCP) to an **edge** from a pool,
and sends a `Relay` frame; the edge looks up the MX hosts of each recipient's
domain and delivers over SMTP. The edge answers with an outcome per recipient;
the sidecar retries the failed ones through other tunnels and answers Postfix
with a single code for the whole transaction.

| Part | State | Operations | Hard because |
|---|---|---|---|
| sidecar SMTP server | envelope, mode of the session | EHLO, MAIL, RCPT, DATA, body, RSET, QUIT | pipelining: replies match commands only by order |
| sidecar relay | remaining recipients, outcomes so far | relay, failover, mapping to one reply | lost answers, overlapping requests, restarts |
| recipient probe | race of tunnels, control addresses | probe over MX hosts | answers of hosts that accept everything or throttle |
| connection pool | idle queue, health, failure streak, in-flight gauge per tunnel | lease, release, discard, mark, keepalive, reload | tasks interleave between short critical sections |
| edge server | connections, semaphore per client key, allow-list | accept, handshake, serve, drain | clients vanish, shutdown and revocation at any point |
| edge SMTP client | position in the session, status per recipient | connect, STARTTLS with fallback, MAIL .. body | TLS policy on every path, errors after the body |
| selector, registry, channel | round-robin counter; current view; partial frames | pick, reload, reassemble | debounced reloads, sizes of chunks |

### Backend (Python, `src/backend/app`)

One process runs the API and several loops on one event loop, over SQLite with
SQLAlchemy sessions that keep loaded objects across commits
(`expire_on_commit=False`). So a task that awaits the network works on rows read
earlier and writes back the columns it changed: this is the hazard common to
nearly every part. Between two awaits nothing else runs, so a handler is a
sequence of atomic steps.

| Part | State | Operations | Hard because |
|---|---|---|---|
| authentication | users, token versions, API keys | login, lockout, refresh, password, TOTP, keys, user administration | decisions on rows loaded before an await; revocation against tokens being issued |
| mailboxes, domains, settings | rows; Dovecot's users file, Postfix maps, OpenDKIM tables | create, adopt, delete, discover, rebuild, catch-all switch | one mailbox is four writes, each of which can fail; rebuilds overlap |
| aliases, tunnels, certificate | rows and the files rendered from them | edit, render, restore at start | file written after the commit |
| DNS checks | verified columns and their stamps | concurrent lookups, comparison with the expected records | relaxed comparison of SPF; zone and relays change under the check |
| GPG keys | rows per user, one keyring for all | generate, import, delete, sign, encrypt | gpg runs in threads on a keyring the users share |
| mail | folders over IMAP, forwarding rules | list, flag, move, delete, purge, send, inject, forward | COPY/STORE/EXPUNGE of several requests in one mailbox; rules edited while executed |
| event bus, SSE | subscribers and queues, listeners | subscribe, publish, stream | bounded queues, slow clients |
| bounce scanner | last UID per mailbox | list, fetch, record, remember | pages, recreated folders, crashes |
| validation, feedback | verdicts, outcomes, suppressed domains | probe with controls, batches, notifications, circuit breaker | hosts that accept everything or degrade; concurrent probes led by one address per domain |
| deliverability | reports, runs, policies, verdicts, alerts, schedules | score, network checks, evaluate, schedule | run life cycle against deletion; recursion over SPF; fairness among schedules |
| warmup | campaign, provider health, events | claim a slot, ingest reports, send, admin API | slots take minutes; reports come late; crashes |
| staged sends | canary, recipient rows | score, sample, observe, decide, cancel | delivery loops committed at their end, two deciders |
| sandbox | accounts, numbers, port orders, registrations, calls, conversations, webhooks of ten emulated APIs | the APIs, call worker, webhook worker, life-cycle tasks | tasks write statuses blindly; pool of numbers in memory; accounts deleted under a request |

Frontend, client libraries and the container image hold no protocol of their own.

## 2. Modules

| Module | Models | State ↔ code |
|---|---|---|
| `RelayPool` | `sidecar/pool.rs`, keepalive and reload tasks of `main.rs` | `pool`/`known` are `Pool.inner`, one action per critical section of its mutex; `wk`, `ka`, `rl` are the tasks' local variables; `view`/`dirty` the watch channel |
| `AtLeastOnce` | abstract promise to Postfix's queue | per recipient: queued, then sent only after a copy was delivered, or bounced |
| `RelayDelivery` | sidecar `relay.rs`, edge `relay.rs` and `deliver`, for one message | `sub` is the call of `SmtpRelay::relay`, `req[i]` the `handle_relay` of request i, which goes on when the sidecar has given up; `fate` is Postfix's queue |
| `SmtpClient` | `edge/smtp_client.rs` `deliver` | `stage` is the position in the function, `mx` what the host keeps |
| `RecipientProbe` | `probe` (sidecar), `handle_probe` (edge) | `walk[t]` is the edge's loop over MX hosts and controls, `world` the truth it is judged against |
| `SmtpSession` | `handle_session`, `read_data` | `server` is `SessionState`, `client` a pipelining Postfix |
| `EdgeServer` | `serve`, `handle_connection` | `conn` are the tasks, `free`/`queue` the semaphores |
| `TunnelEnds` | composes the four above | `part` is the protocol a behaviour is about; the variables of the others are `Off` |
| `Tunnel` | composes `RelayDelivery` with `TunnelEnds` | `view` is which of the two a behaviour is about |
| `Accounts` | `auth/`, `dependencies.py` | `user`, `key` are rows, `handler[s]` a request with the rows it loaded, `tokens` the JWTs that clients hold |
| `Requests` | the event loop and its handlers | `req[s]` a coroutine between two awaits; `overlap` records that two were in flight |
| `Mailboxes` | `mailboxes/`, `domains/service.py`, `system/service.py` | `row`, `domain` are tables; `userdb`, `vmap`, `catchmap`, `maildir` the files; `lock` the `asyncio.Lock` |
| `ConfigFiles` | `aliases/`, `tunnels/`, certificates | rows by revision and the file rendered from them; `behind` records that a write failed or overlapped |
| `GpgKeys` | `gpg/` | `keys` the rows, `public`/`secret` the shared keyring |
| `DomainDns` | DNS checks of `domains/service.py` | `zone` and `relays` change while the lookups run; `verified`, `stamp` are columns |
| `Provisioning` | composes the four above with a restart | the start-up steps of `lifespan` |
| `Administration` | composes `Accounts` with `Provisioning` | `side` is which of the two a behaviour is about |
| `Mail` | `emails/service.py` and its routes, `forwarding/` | `box` the folders, one step per IMAP command; rules as rows and as the snapshot a delivery works on |
| `Validation` | `emails/validation.py`, `smtp_reply.py`, `dsn.py`, `batch_validation.py`, `validation_feedback.py` | operators on an address with what its hosts answer, compared with the truth; tasks of a batch under the two semaphores; outcomes as rows, suppression as a row per domain |
| `EventBus` | `events/bus.py`, `events/router.py` | `subscribers`, `queue` as in the class; `todo[e]` the listeners `publish` has still to await |
| `BounceScan` | `emails/bounce_scanner.py` | `last` is `last_uid`, `scan` the local variables of `_scan_mailbox`; the folder is environment |
| `MailServices` | composes the four above | `part` is the service a behaviour exercises |
| `DeliverabilityChecks` | `emails/deliverability.py`; `deliverability/network.py`, `links.py`, `placement.py`, `visual.py` | a message is the record of the evidence its checks read, points in twentieths; a world is what the network answers |
| `Deliverability` | `deliverability/service.py`, `router.py`, `scheduler.py`, beside `DeliverabilityChecks` | reports, runs, verdicts, alerts, schedules as rows; a commit fails as a whole; `world` is the message or the network of the computing parts |
| `Warmup` | `warmup/service.py`, parts of `router.py` | the rows, and `slot`, the objects `process_campaign` holds; `WriteBack` is the unit of work |
| `StagedSend` | `emails/canary.py`, `canary_scheduler.py`, decide and cancel endpoints | `row`, `role`, `risk`, `canary` are columns; `job[p]` what the scheduler or the request holds until its commit; `ahead` the other sends that come first in the scheduler's queries |
| `SendingLoops` | composes the two above | `loop` is which of the two a behaviour is about |
| `SandboxProviders` | `sandbox/service.py`, `admin.py`: accounts | `provider` rows; handlers with the row they resolved |
| `SandboxNumbers` | numbers of five telephony APIs; port orders, brands, campaigns | `consumed` the set in memory, `number`/`order` rows; `tasks` the statuses a background task has still to write |
| `SandboxCalls` | `sandbox/voice/`, call endpoints | `driver` is `_drive_call`, `events` what the application was told |
| `Sandbox` | conversations, messages, webhooks, chat APIs; composes them with the three above | `hook` is the delivery task with the endpoints it selected; deletion of an account cascades over all of them |

`RelayDelivery`, `Sandbox`, `Provisioning` and
`Deliverability` have parts that share state (queue and requests, the accounts and
their cascade, rows and the process that restarts). `TunnelEnds`, `Tunnel`,
`Administration`, `MailServices` and `SendingLoops` put parts side by side that share
only the process; a behaviour is about one part, which keeps the sum, not the product,
of their states. `SmtpClient` details the one
step of `RelayDelivery` that is an SMTP session, and `SmtpSession` the one that is a
submission. `StagedSend` takes bounces from what `BounceScan` does.

The values of a run that a `.cfg` cannot write stand at the end of each module, under
"Values of the run"; modules named `…Proofs` hold the theorems of section 4 about the
module they extend. A `.cfg` is named after its module and, where a module has
several, after what the run is about. Definitions commented as mutants are
variants with a plausible bug, used to show that each property can fail.

Code between two awaits (or in one critical section) is one action. Names, texts and
payloads are model values; reply texts are sets of the markers the code looks for.
Times are countdowns or unordered timeouts. Counters that the environment could
drive without end are bounded by the constants `Max…` and `Budget`/`Requested`.

## 3. Checks

One run per group of parts asks all of its properties of one instance, under the
fairness below where a property needs it. Bounds are the smallest at which each race
the code has to survive can happen: two tasks on one slot, two tunnels for a failover,
two handlers in flight with a third request after them, several messages in one
session, a queue that is filled and drained again, one crash or restart at any point.
A second crash or a third task only repeats these races on the same state; where there
is a proof, it removes the bounds.

Where a run does not check deadlock, the system may really stop: a message or a
session is finished, a staged send is decided, a budget of requests is used up.

| Run | Instance | Shows |
|---|---|---|
| `pool` | 2 relay tasks, 1 tunnel deleted and added again, idle cap 3 so that a dead connection waits among live ones, threshold 2, 2 outages or broken connections | `TypeOK` (no gauge underflows), `HealthFollowsStreak`, `InflightNeverOverstated`; `PoolConverges`: dead idle connections are pruned and listed tunnels get a slot |
| `tunnel` | relay: 2 recipients, 2 tunnels, 2 MX hosts, 2 requests, 1 restart, any selection mode per submission; edge: 3 connections of 2 keys, 1 permit each, 1 edit of the allow-list; session: 2 messages, 2 recipients at most, bodies of 0 to 4 lines with a limit of 2; client: 2 recipients, all options; probe: 2 tunnels, 2 MX hosts of 3 kinds, 2 controls | `SentWasDelivered`: nothing reported as sent is lost; `AttemptsJustified`: only failed recipients are tried again, ordered failover stops at a verdict, a bounce needs a refusal; `SubmissionAnswered`; `ImplementsAtLeastOnce`; `EdgeServes`: permits conserved, revocation takes effect, no waiter starves, a shutdown ends; `SubmissionFaithful`: replies match commands while bodies fit, and until one does not, mail reported as sent was relayed whole, to the accepted recipients; nothing is relayed twice; `DeliveryTruthful`: TLS policy on every path, statuses equal what the MX kept, a skipped MX keeps nothing; `ProbeTruthful`: definitive verdicts are true whichever tunnel answers first |
| `administration` | accounts: 2 users, 2 handlers, 2 API keys, 4 requests of any kind, 1 restart with another secret; server: 2 handlers, 2 mailboxes, domains, aliases, tunnels, users and keys, 3 or 4 requests by part, 1 restart, 91 SPF records | `SessionsSound`: sessions end with the password that opened them, each refresh token is exchanged once, except under a version number written twice (`mixed`); `GrantsContained`: scopes and mailboxes of a key are each within the caller who wrote them, and within one caller who has both unless an edit overwrote a column it had not seen; `AdminRemains`; `MailboxesConsistent`: a mailbox is provisioned in all its places or in none, the mailboxes the quota counts stay within it, what is listed can be opened; `FilesCurrent`: with no request under way the files say what the tables say, unless a write failed or overlapped; `KeysSound`: private rows can sign, nobody signs with another's key; `VerifiedMeansValid`: what a verified SPF record authorises as a receiver evaluates it, and the whole MTA-STS chain |
| `mail` | bus: queue of 1, 3 events; scanner: 3 messages, page of 2, faults; addresses of 3 kinds of host with every disturbed session of up to 4 replies and all DNS outcomes; a batch of 7 over 2 domains; 3 reports by 2 tenants; 3 messages and requests in one mailbox; 2 rules with 2 changes | `EventsDelivered`, `BouncesRead` (once, and eventually), `VerdictsSupported`: a definite verdict is true of the mailbox; `BatchFaithful`: every address gets its own answer, no existing mailbox is called invalid, a missing one is called valid only where neither its own controls nor the domain's first address found that the host accepts everything, and the selection is the largest within the target rate; `SuppressedWhenDue`; `MailKept`: no overlap of moves, deletions and purges loses a mail nobody deleted, pages show each mail whose header block is recognised once, what left was signed and encrypted if asked; `ForwardingComplete`: a failing rule stops no other |
| `deliverability` | messages two edits from two samples, 1700 networks, 2 messages, policies and schedules, 4 requests | `ScoresFair`: following a recommendation makes its check pass and lowers nothing else, only trusted results count; `NetworkClaimsSound`: a passing SPF policy is within the limit as receivers count it, blocklist verdicts rest on answers, the believed origin has only own hand-offs above it, no private address is contacted; `RecordsConsistent`: reports, baselines and runs, every verdict with its alert, every enabled schedule with a date; `DueGetsItsTurn`: no schedule starves |
| `sandbox` | 1 or 2 accounts of each API, 2 handlers, 2 or 3 requests, deletion of an account, 1 restart | `NumbersFaithful`: a number held is not for sale, updates keep other settings, port orders move forward; `CallsOrdered`: events in order, nothing after the end; `MessagesFaithful`: a send that was answered is stored, every endpoint is tried in spite of the others' failures, a webhook set again replaces the old one; `SandboxSettles`: port orders, registrations, calls and deliveries end |
| `sending_loops` | staged send: 3 recipients at 2 domains, sample of 2, 1 crash, failed commit, raise, decide or cancel request, a query that takes 1 row (20 in the code) with another send that may be in front of this one; warmup: 1 account, volume 1 then 2, slots that last up to 1 unit, 1 crash, lost answer, resume or edit | `RecordsFollowMail`: copies explained by crashes, failed commits and second deciders, records true; `StagedByRisk`: the sample goes first, spans the risks, and its bounces on record hold back what is riskier; `AdvancesOnItsOwn`: the send is decided in the end, if those in front of it leave; `PaceKept`: daily volume and one open conversation, each but for one message per crash or lost answer, and the pacing floor; `HaltTakesEffect`; `NeverStranded` |
| `accounts_sessions`, `provisioning_quota`, `pool_recovery`, `delivery_partial`, `staged_holds` | the smallest instance that shows it | violations, see below |

Several properties carry the condition under which the code keeps them
(`BodiesFit`, `Intact`, `Undisturbed`, `behind`, `halved`, `forgotten`, `mixed`,
`stale`, `overlap`, the `floor` of `GapKept`); the same run also goes through the states in which the condition is false
and checks the other properties there. A property that joins several claims about one
part names each of them in its module, so that a counterexample points at one.

### Fairness

Only the code's own loops, tasks and timeouts are fair, all weakly:

- `RelayPool`: the keepalive and reload tasks, and a relay task that has begun (each
  await has a timeout). `RetrySpec` adds what the tunnel's README says of Postfix, that
  it keeps retrying, and is used only for the run that refutes the recovery it promises.
- `Tunnel`: the sidecar during a submission; the edge's drain window and its FIFO semaphore. The SMTP session, the
  SMTP client and the probe are checked for safety only: they end by timeouts, which
  are actions there, and when those expire is a matter of the clock.
- `MailServices`: the scanner's loop, which ticks for ever and survives exceptions.
- `Sandbox`: the worker of a call, the life-cycle tasks and the webhook task, each of
  which sleeps for a bounded time between steps. Handlers are not fair.
- `Deliverability`: `scheduler_loop`, which catches every exception and goes on.
- `StagedSend`: `TickingSpec`, the scheduler's loop, which catches every exception,
  awaits with timeouts and goes on, and the clock that ends a window. `SendingLoops` adds
  that the sends in front are scored, decided or cancelled in the end: the code does not
  see to that, as it waits for the callers of manual holds, and `staged_holds` shows what
  happens without it.

Remote hosts, clients, administrators and crashes are never fair. For the scheduler of
warmup the safety half of progress is checked (`NeverStranded`: an active campaign has a
next run).

### Disagreements found

Five runs expect a violation and document where the code does something else than a
comment or a document says; `PROJECT.json` quotes the texts.

- `pool_recovery`: an unhealthy tunnel without idle connections is never tried again.
- `delivery_partial`: `accept_partial` answers 250 when nobody received the message.
- `accounts_sessions`: a password change writes the loaded version plus one, which a
  refresh that overlaps it has already handed out: the old session goes on
  (`auth/router.py:295`, and `:323` for a reset by an administrator).
- `provisioning_quota`: an adopted mailbox stays a catch-all one and is not counted, so
  a user has more mailboxes than the quota (`mailboxes/service.py:261`).
- `staged_holds`: manual holds whose windows are over stay first in the scheduler's
  query of 20 rows, so twenty of them hide every later send (`canary_scheduler.py:64`);
  pending sends that always fail to be scored do the same to newer ones (`:30`).

Further deviations are part of the models, and the properties are stated around them:

- Pool: a keepalive release lowers the in-flight gauge of a relay (hence the inequality
  in `InflightNeverOverstated`); a task that ends after `retain` re-creates the slot of a
  removed tunnel.
- Relay: a lost answer leads to a second copy (hence at least once, `relay.rs:86` speaks
  of no duplicates); errors of the MX after the banner leave `deliver` as `Err`
  (`smtp_client.rs:96`).
- Probe: a refusal under a 5.1.x code counts as a rejection although it names a policy
  (`edge/src/relay.rs:483`); the instance has no host that mixes the two.
- Session: a body beyond the announced size is not drained, although the comment at
  `smtp_server.rs:187` says so; the rest of it is answered line by line. After that 552
  replies and commands no longer match, and a later message can be counted as sent while
  another one was relayed (`BodiesFit` and `Intact` except this); a body line that is not UTF-8 ends the session although 8BITMIME is announced.
- Accounts: two administrators who demote each other at the same time leave none
  (`stale` in `AdminRemains`); sequences of requests cannot. Handlers with outdated
  copies write a version number a second time: `mixed` collects these numbers, and what
  `SessionsSound` says of tokens holds for all other ones. Two overlapping edits of an API
  key can combine the scopes that one caller gave with the mailboxes that the other gave
  (`auth/router.py:788`), although the comment at `:776` wants the full resulting grant
  checked: `GrantsContained` names the row an edit had not seen and excepts the sum of it.
- Mailboxes: rebuilds that overlap may write an older list (mailbox map, aliases,
  `tunnels.json`, removal from the users file are unlocked; the domain tables are
  locked); a failed provisioning leaves a directory that the next discovery registers
  as a catch-all mailbox, and a failed adoption leaves a login line and a map entry for
  an inactive row; `verify_mailbox_access` does not look at `is_active`; an administrator
  sees catch-all mailboxes in lists whose statistics are refused.
- Files: overlapping uploads can mix a certificate with another one's key; aliases are
  not rendered at start, and a crash between the commit of a domain and its files is not
  repaired.
- GPG: a user who deletes an imported public key removes it for everyone; which of
  several rows of an address is used is up to the database; an imported private key
  is stored as a public one.
- Domains: the MTA-STS endpoint serves `mode: testing` (`domains/router.py:202`) while
  the expected policy says `enforce`.
- Mail: answers to COPY, STORE, EXPUNGE and APPEND are not looked at: a COPY refused for
  quota loses the message of a move or deletion (`refused` in `MailKept`), a refused
  APPEND is answered with 201 and announced. Training after `mark_email_as_spam` uses the
  UID before the move. A page leaves out the messages whose header block contains both
  `FETCH` and `UID` or has at most 50 characters (`emails/service.py:379`, `:386`),
  although they are counted in its total; the other messages of the page are right
  (`Unlisted` are the former). Forwarding reads the mail and marks it seen; a mail whose text
  contains `\Seen` is never marked by `get_email`. Encryption covers the To recipients.
- Forwarding: a change of `action_type` alone keeps the other type's configuration,
  although the comment at `forwarding/service.py:94` asks for both.
- Scanner: more than a page of new mail is passed over, and so are a failed fetch and a
  recreated folder (`bounce_scanner.py:10`).
- Bus: a client that was slow once is pruned while its stream stays open.
- Validation: an MX lookup that fails beside an A record sends the probe to the wrong
  host (against the docstring at `validation.py:359`); an acceptance whose controls all
  stayed open is "valid" on the direct path, 451 on the tunnel's; one refused control is
  enough for the higher confidence that a comment gives to "every control"; a host
  that degrades and gave its leading control no acceptance looks like one that checks.
  In a batch only the first address of a domain passes on that its host accepts
  everything; what a later one finds out is not looked at (`batch_validation.py`).
  `VerdictsSupported` excludes these cases by name.
- Feedback: a crash between the commit of an outcome and the count loses the
  suppression (`cut`); two requests that insert the same suppression fail one of them
  with its remaining recipients; counts and predictions are shared by the tenants.
- Deliverability: a provider deleted while its preview is under way, or a stop of the
  process, leaves a run "running"; lookups that time out read as missing policies; the
  first passing DKIM signature counts; a report committed after its message was deleted
  stays; a verdict outlives the policy it was made under.
- Sandbox: two accounts can hold one number, and when one of them gives it back it is on
  sale although the other still holds it (`available_numbers.py:197`, against the
  docstring at `:154`); this and a restart, which forgets the pool, are excepted in
  `NumbersFaithful` by `forgotten`. An endpoint deleted during a delivery costs the
  endpoints behind it the message (`webhook_worker.py:178`), which `MessagesFaithful`
  excepts. Life-cycle tasks and deliveries under way are lost at a restart; Vonage answers success for a number that was bought
  and cancelled before without giving it back; Plivo can no longer address a number
  bought twice; deleting an edited Telegram or Mattermost message leaves the edited
  copy; a call with an inline control document and no answer URL does not play it
  (`vonage/router.py:221`).
- Warmup: a late report turns a blocked provider into a cooling one (`service.py:431`).
  A timeout or disconnect after the body was accepted counts as a failure
  (`service.py:981`): the message has left but is neither counted nor does it open the
  conversation. After that, and after a report on an earlier message, the next delivery
  waits for the cooldown, which is shorter than the minimum gap (`:439`), against the
  comment at `:129`; the `floor` of `GapKept` says so. Two campaigns to one provider, each with rows of its own, do not know of
  one another; the model has one.
- Staged sends: mails of a loop in progress leave after a cancel; the sample is not
  drawn per domain; a soft bounced sample counts as unsent. A bounce that comes in before
  the sample is committed matches no row and is not recorded, and as risky recipients are
  released (`canary.py:443`): `StagedByRisk` speaks of the bounces on record. When a caller decides beside the
  scheduler, a recipient may be mailed twice, and what his row then says depends on who
  commits last: `RecordsFollowMail` bounds the copies there and leaves the rows open.

## 4. Proofs

`tlapm` checks every theorem for all values of the constants that satisfy the named
assumptions. None of the bounds of section 3 remains: numbers of actors, messages,
recipients, requests and restarts are arbitrary, sets are finite only where the code
counts their members. The constants that bound the environment stay as arbitrary
numbers.

`RelayPoolProofs` (from `PoolAssumption`):

- `BaseInvariant`: the inductive `BaseInv` joins the types, the shape of each slot
  (idle queue within its cap, health bit equal to "streak below threshold") and the
  facts that tie a task's program counter to the tunnel it works on. The health and
  idle claims are not inductive without the types, as a slot is replaced as a whole.
  Each operation on a slot has a lemma (`SucceedSlot`, `FailSlot`, …), each task a
  lemma that its steps keep the invariant.
- `TypeCorrect`, `IdleBoundedAlways` (the cap holds however releases race for the last
  place of the idle queue), `HealthAlways` follow from it.
- `InflightAlways`: the gauge never exceeds the number of tasks that hold a lease.
  The induction counts holders as finite sets; a keepalive release may only lower the
  gauge, which is why the property is an inequality and the equality fails.

`RelayDeliveryProofs` (from `DeliveryAssumption` and the `retry` policy):

- `SentWasDeliveredAlways`: a recipient that Postfix takes off its queue as sent has a
  copy. `SentWasDelivered` alone is not inductive: an outcome may sit in a request's
  results, then in the sidecar's accumulator, before it becomes a reply. `IInv` adds
  that results at an edge and outcomes at the sidecar are backed by copies, that the
  accumulator covers every recipient not remaining, that the request awaited was for
  the remaining ones, that domains not yet served have no results, and that only
  queued recipients are submitted.
- `DeliveryImplementsAtLeastOnce`: with the same invariant every step maps to a step
  or a stutter of `AtLeastOnce`.
- `AttemptsAlwaysJustified`: about steps and about what a restart forgets, so `JInv`
  adds to `IInv` that a request answers for its own recipients (`ResultsOfRequest`),
  that what remains has no verdict yet (`RemainingUnserved`), which recipients ordered
  failover is finished with (`OrderedDone`), and that a refusal was given by some host
  (`RefusalsGiven`).

`TunnelEndsProofs` (from `TunnelEndsAssumption` and `SubmissionAssumption`):

- `DeliveryAlwaysTruthful`: `ClientStages` says what `deliver` knows at each stage, as
  the position in the function decides whether TLS was negotiated and which of the
  recipients accepted at RCPT have reached the host.
- `ProbeAlwaysTruthful`: a walk in progress is tied to the truth about the destination:
  where it stands (`WalkPlace`), what throttling it has met (`WalkThrottled`) and which
  answers it holds (`WalkTruth`). The sidecar takes the first definitive answer of any
  tunnel, so truth of each walk is what the race needs.
- `SubmissionAlwaysFaithful`: the two ends of a pipelined session are related through
  what is on the wire. `Aligned` matches each command under way and each reply under
  way with the reply the client awaits at that place (`Matched`, `Prompted`), and the
  envelope the server holds with what the client will have counted when the replies
  are read (`Cleared`, `Tallied`, `Handed`); while a body is sent `InBody` holds
  instead. Once a body exceeds the limit (`Overrun`) only "nothing is relayed twice"
  (`Once`: messages are relayed in order) survives, which is what the code gives.
- `EdgeAlwaysAccounts`, the safety half of `EdgeServes`: permits are conserved, the
  queue of a key names each waiting task once, and a revoked key gets no connection
  past the handshake. `PermitsOf` must add that a key without a semaphore has no task
  past the allow-list, and `QueueOf` that places in the queue and waiting tasks
  correspond, or a dropped task could leave its place behind.

`AccountsProofs` (from `AccountsAssumption`):

- `SessionsAlwaysSound`, `GrantsAlwaysContained`, `AdminAlwaysRemains`. A handler
  decides on the row it loaded before it awaited, so the invariant speaks of copies:
  a token or a loaded row is never ahead of the user's row, and where their versions
  agree so do the passwords (`Copies`); a version that was exchanged lies behind the
  row (`Exchanged`), which is why no refresh token is exchanged twice; and whoever
  holds a token, owns a key or has a request in flight has a row (`Known`). A
  reset by an administrator goes through the row loaded before the hash, like every
  other change of a version. `mixed` collects the versions that were written a second
  time; `Copies` and `Exchanged` speak of the others. `stale` occurs in `AdminRemains`
  only.

`StagedSendProofs` (from `StagedSendAssumption`):

- `RecordsAlwaysFollowMail`, `AlwaysStagedByRisk`. A delivery loop
  writes its rows at its end, so the invariant relates the columns, what a process
  holds (`Shape`), the status of the canary (`Phases`) and the mail that has left
  (`Mailed`, `Faithful`). `Counted` bounds the copies by what the processes still owe:
  a mail that is still to come needs a crash, a failed commit or a second decider to
  explain the one that came before. For the staging, `Spanned` says that the sample brackets the risks
  once all rows are scored, which rests on lemmas about the places `Picked` selects,
  `Led` that the rest follows a sampled mail, and `Cut` that the cutoff a process holds
  lies below every hard bounce recorded before the window elapsed.

`WarmupProofs` (from `WarmupAssumption`):

- `HaltAlwaysTakesEffect`, `NeverAnyStranded`, `PaceAlwaysKept`. `process_campaign`
  holds rows over a whole slot, and a message leaves before it is recorded. `Halted`
  allows one message after the halt, of a slot claimed before it; `Counted` and
  `Conversing` let the real messages exceed the recorded ones by the one in the slot's
  hands and by one per crash or lost answer (`unsure`); `Covered` relates three clocks, the wait in the
  database, the wait the slot has loaded and the time since the last message, so that
  a stale write cannot shorten the pause that is owed; `Planned` bounds the waits, so
  that an active campaign is always found again.

`ProvisioningProofs` (from `KeysAssumption`, `ConfigAssumption`,
`MailboxesAssumption`, `NobodyAssumption` and `DnsAssumption`):

- `KeysAlwaysSound`: the keyring is shared and `gpg` works in a thread, so `KeyInv` ties
  the three owners of a key together: a private row belongs to the user who had the key
  made (`RowsOfMakers`), so does a request that generates, removes or signs
  (`Generated`, `RemovedByMakers`, `SignedByMakers`), and the secret key of a private
  row is in the keyring unless that row is being deleted (`HeldInKeyring`).
- `FilesAlwaysCurrent`: between the commit and the write the file is behind, so
  `FileInv` says of each file that it is what the rows say or that one request, alone
  with it, is still to write it from the rows as they are, unless a write failed or two
  overlapped (`behind`). For the domain tables, which a lock protects, nothing is excepted but a
  cut: the holder of the lock is the request whose program counter is inside it
  (`LockHeld`), and the last change of the rows is waiting for the lock, or has read
  the rows as they are now, or is in the tables (`LastChange`).
- `MailboxesAlwaysConsistent`: a mailbox is four writes. While a mailbox is not torn by
  a failed step, requests came one at a time (`OneAtATime`, `TornByOverlap`), so what a
  handler read before it awaited is still so (`Known`): whether there is a row, what is
  in the users file, which rows the maps were rendered from. `LoginKept` and `MapKept`
  then say that such a mailbox is in both files, or in neither, or that the request that
  will see to it is under way; `QuotaHeld` that no sequence brings the counted
  mailboxes, those that are not catch-all, above the limit.
- `VerifiedAlwaysValid`: relays and zone change while the lookups run. `FromCheck` says
  that a verified column is what a check made of the zone and the relays it saw,
  `StampsStay` that a positive answer came with a stamp on every record and that no
  stamp is lost. That a record which the relaxed comparison takes passes each relay and
  no stranger is a lemma about evaluating a list of terms from its first match.

`MailServicesProofs` (from `ForwardAssumption`, `BusAssumption` and
`WorldsAssumption`):

- `ForwardingAlwaysComplete`: what a delivery has tried, together with the rules it
  still holds, covers the rules that matched when the message came in (`AllTried`); a
  message belongs to one request (`OneRequestEach`) and no rule is tried twice on it
  (`TriedOnce`).
- `MailAlwaysKept`: a request acts on UIDs it read some steps earlier. `RequestsCarry`
  bounds these by the UIDs a folder has given out, `BoxSound` says that UIDs are not
  given out again, and `SafeCopies` that each message which nobody destroyed has a copy
  that no request in flight is about to flag or expunge; a move copies before it
  flags, which is what keeps it. That the pages of a folder show each recognised
  message once follows from lemmas about ranks in a finite set of UIDs.
- `EventsAlwaysDelivered`: `Told` compares an open stream with the log: what it passed
  on, followed by its queue, is what was published for its mailboxes since it opened,
  or a beginning of that once it was pruned. `Listened` does the same for listeners.
- `SuppressedAlwaysWhenDue`: whoever makes a domain cross the limit has not suppressed it
  yet. `CrossedPursued` says that a request pursues it that is past its own insert and
  will find the row or add it; its decision to add counts only while there is no row.
  `RowsNumbered` gives new outcomes new ids, so that history is never overwritten.
- `VerdictsAlwaysSupported`: no state but the address is involved, so the proof is about the
  computation: what a session shows for any number of controls (`SessionReads`), what
  the first definite host, the tunnel's reply and the mapping to a response make of it
  (`Backed` of each is kept).

The assumptions say what the code fixes. `TunnelEndsAssumption`: a refusal aimed at the
sending host is not one of the texts that reject a recipient, and a host throttles
after at least two commands, as no probe could tell it apart otherwise;
`SubmissionAssumption`: a body has no line of a single dot, as senders stuff it.
`StagedSendAssumption`: scores start at 1, as 0 stands for "below every score".
`WarmupAssumption`: the base cooldown is at most the longest one (10 or 15 minutes
against 360 in `warmup/service.py`), and no pause exceeds `LongWait`, which stands for
the longest wait for an active day (delays are validated to at most a day,
`warmup/schemas.py:77`).

`KeysAssumption` and `NobodyAssumption` keep the values for "no maker" and "no owner"
apart from users. `MailboxesAssumption`: there is an administrator and the limit allows
a mailbox, as the start of the program creates one (`lifespan`), and the values for "no
domain" are no domains. `DnsAssumption`: an SPF record is a list of terms.
`ForwardAssumption`: a rule belongs to a user and no edit gives it to another
(`ForwardingRuleUpdateRequest` has no such field). `BusAssumption`: queues and listeners are
finite, and the value for "no mailbox" is no mailbox. The others give types and
finiteness, and `PoolAssumption` that `Threshold` and the idle cap are at least one.

`WorldsAssumption` is the one about the environment (`Honest` in `Validation`): an
address that exists can be written and routed; no host calls a mailbox unknown that it
has; of the hosts that accept a target, one that checks refuses what does not exist,
one that does not check accepts what it answers, and one that degrades does so after
the first recipient. Without it no verdict could be right, as validation knows a
mailbox only by what its hosts say. What it says of the tunnel's reply is what
`ProbeAlwaysTruthful` proves of the sidecar, for a domain whose hosts are of one kind.

Checked by TLC only:

- All liveness, as fairness and `ENABLED` are outside what the prover does:
  `PoolConverges`, `SubmissionAnswered`, the waiting and shutdown half of `EdgeServes`,
  `BouncesRead` (with it the fact that an outcome is recorded once), `DueGetsItsTurn`,
  `AdvancesOnItsOwn` and `SandboxSettles`; and the violations.
- `BatchFaithful`: that the greedy selection is the largest one compares two folds of
  sums over lists of any length, an induction over data.
- `ScoresFair`, `NetworkClaimsSound`: they compare computations with reference
  definitions over bounded inputs; the SPF lookups are recursive operators, which keeps
  their module, and with it `RecordsConsistent` of `Deliverability`, away from the
  prover.
- `NumbersFaithful`, `CallsOrdered` and `MessagesFaithful` of `Sandbox`: an invariant
  has to relate the tasks' pending statuses with rows that a deletion takes away under
  them; nothing is known to stand against a proof, none has been written.

## 5. Plan

Modelled and checked: the tunnel's pool, relay, sessions, probe and edge server; the
backend's accounts, provisioning, mail with its services, deliverability, sandbox,
warmup and staged sends. Proved: the safety properties of the tunnel, accounts,
provisioning, mail services (but the batch), staged sends and warmup.

Left:

1. Proofs of `CallsOrdered`, `NumbersFaithful` and `MessagesFaithful` of `Sandbox`; of
   `RecordsConsistent`, once its actions are apart from the recursive checks.
2. Abstract specifications: at most one copy per crash for staged sends, a FIFO
   semaphore for the edge.
3. The reload path from the backend's `tunnels.json` through the sidecar's watcher
   into the pool as one composition, with the selector.

### Not modelled

- Frames and chunks (`proto/channel.rs`): one request at a time uses a connection, over
  an ordered stream, and an error ends the connection; the relay modules take a frame as
  delivered whole or not at all. Handshake and keys are a library's.
- Selection of tunnels: the models take candidates in any order, which includes all
  that the selector gives. The watcher's debouncing is left out; `RelayPool` has what a
  reload does.
- The statistical risk model and domain signals: floating-point weights over string
  heuristics; their results are arbitrary scores (`StagedSend`) or constants
  (`Validation`). Parsing of MIME, HTML and DNS texts is abstracted to the evidence
  that the checks read.
- Response formats, signatures of emulated APIs, rate limits (a library), HTTP bin
  (single rows), migrations, configuration, frontend, clients and the container image.
