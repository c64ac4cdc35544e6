----------------------------- MODULE Mailboxes -----------------------------
(***************************************************************************)
(* Mailboxes, managed domains and the catch-all switch (backend/app/       *)
(* mailboxes, domains/service.py, system/service.py).  Rows are the truth; *)
(* Dovecot's users file, the Postfix maps and the OpenDKIM tables are      *)
(* rendered from them, by handlers that commit first and write later.      *)
(***************************************************************************)
EXTENDS Requests

CONSTANTS
    Boxes, Domains, DomainOf(_),
    Admin, Users,
    MaxMailboxes,      \* User.max_mailboxes
    Free               \* the lock is not held

\* The administrator starts with a mailbox, so the limit is not 0.
ASSUME MailboxesAssumption ==
    /\ Admin \in Users /\ MaxMailboxes \in Nat \ {0}
    /\ Domains # {} /\ Free \notin Slots /\ {"-", "settings"} \cap Domains = {}

VARIABLES
    production,   \* settings.is_production
    row,          \* rows of Mailbox
    maildir,      \* directories under mail_storage_path
    userdb,        \* addresses of Dovecot's users file
    vmap,         \* /etc/postfix/virtual_mailboxes and sender_login_maps
    catchmap,     \* domains of virtual_mailboxes_catchall
    catch_all,    \* ServerSettings.catch_all_enabled
    domain,       \* rows of Domain
    tables,       \* files: OpenDKIM tables and virtual_domains
    loaded,       \* what Postfix and OpenDKIM have loaded of them
    lock,         \* _config_lock
    fresh,        \* history: no two requests overlapped since the last start
    torn,         \* history: mailboxes with a failed step or an overlapping request
    cut           \* history: a restart fell into a change of the domains

mailboxVars == <<production, row, maildir, userdb, vmap, catchmap, catch_all, domain, tables, loaded, lock, fresh, torn, cut>>
mapVars == <<vmap, catchmap>>
domainVars == <<domain, tables, loaded, lock, cut>>
Nobody == "nobody"
ASSUME NobodyAssumption == Nobody \notin Users

NoRow == [exists |-> FALSE, active |-> FALSE, owner |-> Nobody, catchall |-> FALSE]
Row(u, c) == [exists |-> TRUE, active |-> TRUE, owner |-> u, catchall |-> c]
Active == {b \in Boxes : row[b].active}

-----------------------------------------------------------------------------
(* Reading.                                                                *)

\* Catch-all mailboxes disappear in production while the switch is off.
Shown(b) == ~(production /\ row[b].catchall /\ ~catch_all)

get_mailbox_by_address(b) == row[b].exists /\ Shown(b)

list_mailboxes(u) ==
    {b \in Active : (row[b].owner = u \/ (u = Admin /\ row[b].catchall)) /\ Shown(b)}

verify_mailbox_access(u, b) ==
    get_mailbox_by_address(b) /\ (row[b].owner = u \/ (u = Admin /\ row[b].catchall))

Owned(u) == {b \in Active : row[b].owner = u /\ ~row[b].catchall}

\* Mailboxes are counted for a user, an administrator only where it matters.
Limited(u) == u # Admin \/ production \/ domain # {}

quota(u) == Limited(u) => Cardinality(Owned(u)) < MaxMailboxes

\* A maildir without a row, left by catch-all delivery or by a failed request,
\* becomes the administrator's; so does an active row without an owner.
sync_filesystem_mailboxes ==
    [b \in Boxes |-> IF b \in maildir /\ ~row[b].exists THEN Row(Admin, TRUE)
                     ELSE IF b \in maildir /\ row[b].active /\ row[b].owner = Nobody
                          THEN [row[b] EXCEPT !.owner = Admin, !.catchall = TRUE]
                     ELSE row[b]]

list_all_mailboxes ==
    /\ Serve /\ row' = sync_filesystem_mailboxes
    /\ UNCHANGED <<production, maildir, userdb, mapVars, catch_all, domainVars, fresh, torn>>

-----------------------------------------------------------------------------
(* Requests.                                                               *)

\* What a request starts with; it overlaps with whatever is in flight.
Open(s, r) ==
    /\ Begin(s, r) /\ fresh' = (fresh /\ Quiet)
    /\ torn' = torn \cup (IF Quiet THEN {} ELSE Boxes)
    /\ UNCHANGED <<production, row, maildir, userdb, mapVars, catch_all, domainVars>>

Ask(op, u, b) == [op |-> op, user |-> u, box |-> b, seen |-> row[b], lines |-> {}, name |-> "-"]

\* create_new_mailbox up to the checks of create_mailbox
create_new_mailbox(s, u, b) ==
    /\ production => u = Admin /\ DomainOf(b) \in domain
    /\ quota(u)
    /\ ~(row[b].active /\ ~row[b].catchall)
    /\ Open(s, Ask("create", u, b))

\* The row is inserted, or the inactive or catch-all one adopted.  Columns are
\* written that differ from the copy; a row that came or went is an error.
create_mailbox(s) ==
    LET u == req[s].user  b == req[s].box  c == req[s].seen
    IN  /\ At(s, "create")
        /\ IF c.exists # row[b].exists THEN End(s) /\ UNCHANGED row
           ELSE /\ row' = IF ~c.exists THEN [row EXCEPT ![b] = Row(u, FALSE)]
                          ELSE [row EXCEPT ![b].active = c.active => @, ![b].owner = IF c.owner = u THEN @ ELSE u]
                /\ Step(s, "provision")
        /\ UNCHANGED <<production, maildir, userdb, mapVars, catch_all, domainVars, fresh, torn>>

\* _provision_system_mailbox: directory, users file, Postfix map; the last one
\* may fail without a consequence.
provision_system_mailbox(s, reached) ==
    LET b == req[s].box
    IN  /\ At(s, "provision")
        /\ maildir' = maildir \cup (IF reached >= 1 THEN {b} ELSE {})
        /\ userdb' = userdb \cup (IF reached >= 2 THEN {b} ELSE {})
        /\ vmap' = vmap \cup (IF reached >= 3 THEN {b} ELSE {})
        /\ IF reached < 2 THEN Step(s, "undo")
           ELSE IF production THEN Step(s, "render") ELSE End(s)
        /\ UNCHANGED <<production, row, catchmap, catch_all, domainVars, fresh, torn>>

\* A fresh row is deleted, an adopted one deactivated, with its login if it had
\* one.
undo_create(s) ==
    LET b == req[s].box
    IN  /\ At(s, "undo") /\ End(s)
        /\ row' = IF req[s].seen.exists THEN [row EXCEPT ![b].active = FALSE] ELSE [row EXCEPT ![b] = NoRow]
        /\ torn' = torn \cup (IF req[s].seen.exists THEN {b} ELSE {})
        /\ UNCHANGED <<production, maildir, userdb, mapVars, catch_all, domainVars, fresh>>

delete_existing_mailbox(s, u, b) ==
    /\ verify_mailbox_access(u, b)
    /\ Open(s, Ask("delete", u, b))

delete_mailbox(s) ==
    LET b == req[s].box
    IN  /\ At(s, "delete") /\ Step(s, "unlist")
        /\ row' = IF row[b].exists THEN [row EXCEPT ![b].active = FALSE] ELSE row
        /\ UNCHANGED <<production, maildir, userdb, mapVars, catch_all, domainVars, fresh, torn>>

\* _remove_from_dovecot_users reads the file and writes it back, without the
\* lock of _upsert_dovecot_user; an exception is logged.
ReadUsersFile(s, ok) ==
    /\ At(s, "unlist")
    /\ IF ok THEN Goto(s, [req[s] EXCEPT !.op = "relist", !.lines = userdb \ {req[s].box}])
       ELSE IF production THEN Step(s, "render") ELSE End(s)
    /\ torn' = torn \cup (IF ok THEN {} ELSE {req[s].box})
    /\ UNCHANGED <<production, row, maildir, userdb, mapVars, catch_all, domainVars, fresh>>

\* Mutant: the file is not written.
KeepUsersFile(s) ==
    /\ At(s, "relist") /\ (IF production THEN Step(s, "render") ELSE End(s))
    /\ UNCHANGED <<production, row, maildir, userdb, mapVars, catch_all, domainVars, fresh, torn>>

remove_from_dovecot_users(s) ==
    /\ At(s, "relist") /\ userdb' = req[s].lines
    /\ (IF production THEN Step(s, "render") ELSE End(s))
    /\ UNCHANGED <<production, row, maildir, mapVars, catch_all, domainVars, fresh, torn>>

-----------------------------------------------------------------------------
(* rebuild_postfix_virtual_mailboxes: the rows are read, then written by a *)
(* thread.  Nothing orders two of them.                                    *)

MailboxMaps == [boxes |-> Active, domains |-> IF production /\ catch_all THEN domain ELSE {}]

ReadMailboxRows(s) ==
    /\ At(s, "render")
    /\ Goto(s, [req[s] EXCEPT !.op = "rendered", !.seen = MailboxMaps])
    /\ UNCHANGED mailboxVars

rebuild_postfix_virtual_mailboxes(s) ==
    /\ At(s, "rendered")
    /\ vmap' = req[s].seen.boxes /\ catchmap' = req[s].seen.domains
    /\ (IF req[s].name = "-" THEN End(s) ELSE Step(s, "reload"))
    /\ UNCHANGED <<production, row, maildir, userdb, catch_all, domainVars, fresh, torn>>

update_server_settings(s, on) ==
    /\ Begin(s, [Ask("render", Admin, CHOOSE b \in Boxes : TRUE) EXCEPT !.name = "settings"])
    /\ catch_all' = on /\ fresh' = (fresh /\ Quiet)
    /\ torn' = torn \cup (IF Quiet THEN {} ELSE Boxes)
    /\ UNCHANGED <<production, row, maildir, userdb, mapVars, domainVars>>

-----------------------------------------------------------------------------
(* Domains: keys, row, then all files under the lock.                      *)

create_domain(s, d) ==
    /\ d \notin domain
    /\ Open(s, [Ask("add_domain", Admin, CHOOSE b \in Boxes : TRUE) EXCEPT !.name = d])

\* After the keys were generated, or not: the INSERT of add_domain
add_domain(s) ==
    LET d == req[s].name
    IN  /\ At(s, "add_domain")
        /\ IF d \in domain THEN End(s) /\ UNCHANGED domain
           ELSE domain' = domain \cup {d} /\ Step(s, "lock")
        /\ UNCHANGED <<production, row, maildir, userdb, mapVars, catch_all, tables, loaded, lock, fresh, torn, cut>>

remove_domain(s, d) ==
    /\ d \in domain /\ domain' = domain \ {d}
    /\ Begin(s, [Ask("lock", Admin, CHOOSE b \in Boxes : TRUE) EXCEPT !.name = d])
    /\ fresh' = (fresh /\ Quiet) /\ torn' = torn \cup (IF Quiet THEN {} ELSE Boxes)
    /\ UNCHANGED <<production, row, maildir, userdb, mapVars, catch_all, tables, loaded, lock, cut>>

\* Mutant: the rows are read before the lock is taken.
ReadDomainsEarly(s) ==
    \/ /\ At(s, "lock") /\ Goto(s, [req[s] EXCEPT !.op = "locking", !.lines = domain])
       /\ UNCHANGED mailboxVars
    \/ /\ At(s, "locking") /\ lock = Free /\ lock' = s /\ Step(s, "opendkim")
       /\ UNCHANGED <<production, row, maildir, userdb, mapVars, catch_all, domain, tables, loaded, fresh, torn, cut>>

ReadDomains(s) ==
    /\ At(s, "lock") /\ lock = Free /\ lock' = s
    /\ Goto(s, [req[s] EXCEPT !.op = "opendkim", !.lines = domain])
    /\ UNCHANGED <<production, row, maildir, userdb, mapVars, catch_all, domain, tables, loaded, fresh, torn, cut>>

rebuild_opendkim_tables(s) ==
    /\ At(s, "opendkim") /\ Step(s, "vdomains")
    /\ tables' = [tables EXCEPT !.dkim = req[s].lines]
    /\ UNCHANGED <<production, row, maildir, userdb, mapVars, catch_all, domain, loaded, lock, fresh, torn, cut>>

\* No domain at all is the catch-all regexp instead of the map.
rebuild_postfix_virtual_domains(s) ==
    /\ At(s, "vdomains") /\ Step(s, IF production THEN "render" ELSE "reload")
    /\ tables' = [tables EXCEPT !.virtual = req[s].lines]
    /\ UNCHANGED <<production, row, maildir, userdb, mapVars, catch_all, domain, loaded, lock, fresh, torn, cut>>

reload_mail_services(s) ==
    /\ At(s, "reload") /\ End(s)
    /\ loaded' = tables /\ lock' = IF lock = s THEN Free ELSE lock
    /\ UNCHANGED <<production, row, maildir, userdb, mapVars, catch_all, domain, tables, fresh, torn, cut>>

-----------------------------------------------------------------------------
(* Environment.                                                            *)

\* Postfix accepts a mail for an address without a mailbox, and Dovecot makes
\* its directory.
CatchAllDelivery(b) ==
    /\ b \notin maildir
    /\ IF production THEN DomainOf(b) \in catchmap ELSE loaded.virtual = {} \/ DomainOf(b) \in loaded.virtual
    /\ maildir' = maildir \cup {b}
    /\ UNCHANGED <<requestVars, production, row, userdb, mapVars, catch_all, domainVars, fresh, torn>>

\* The start of the process (lifespan of main.py) renders the mailbox maps in
\* production; the container's users file and tables are as they were.
RestartMailboxes ==
    LET hit == {s \in Slots : part = "mailboxes" /\ req[s] # Idle}
    IN  /\ lock' = Free /\ fresh' = TRUE
        /\ cut' = (cut \/ \E s \in hit : req[s].name \in Domains)
        /\ torn' = torn \cup {req[s].box : s \in hit}
        /\ IF production THEN vmap' = MailboxMaps.boxes /\ catchmap' = MailboxMaps.domains
           ELSE UNCHANGED mapVars
        /\ UNCHANGED <<production, row, maildir, userdb, catch_all, domain, tables, loaded>>

MailboxesInit ==
    /\ production \in BOOLEAN /\ catch_all = FALSE /\ lock = Free
    /\ fresh = TRUE /\ torn = {} /\ cut = FALSE
    \* the administrator's mailbox, or one of the time before owners
    /\ \E b \in Boxes, u \in {Admin, Nobody} :
          /\ row = [x \in Boxes |-> IF x = b THEN Row(u, FALSE) ELSE NoRow]
          /\ maildir = {b} /\ userdb = {b} /\ vmap = {b}
    /\ domain = (IF production THEN {CHOOSE d \in Domains : TRUE} ELSE {}) /\ catchmap = {}
    /\ tables = [dkim |-> domain, virtual |-> domain] /\ loaded = tables

MailboxStep(s) ==
    \/ \E u \in Users, b \in Boxes : create_new_mailbox(s, u, b) \/ delete_existing_mailbox(s, u, b)
    \/ create_mailbox(s) \/ undo_create(s) \/ delete_mailbox(s) \/ remove_from_dovecot_users(s)
    \/ \E n \in 0..3 : provision_system_mailbox(s, n)
    \/ \E ok \in BOOLEAN : ReadUsersFile(s, ok) \/ update_server_settings(s, ok)
    \/ ReadMailboxRows(s) \/ rebuild_postfix_virtual_mailboxes(s)
    \/ \E d \in Domains : create_domain(s, d) \/ remove_domain(s, d)
    \/ add_domain(s) \/ ReadDomains(s) \/ rebuild_opendkim_tables(s)
    \/ rebuild_postfix_virtual_domains(s) \/ reload_mail_services(s)

MailboxesStep ==
    \/ \E s \in Slots : MailboxStep(s)
    \/ list_all_mailboxes
    \/ \E b \in Boxes : CatchAllDelivery(b)

-----------------------------------------------------------------------------
\* However adds and removals of domains overlap, with one another, with changes
\* of the settings and with mailbox requests: once none is left, OpenDKIM signs
\* for and Postfix accepts the domains of the table (_config_lock).
DomainConfigCurrent ==
    cut \/ (part = "mailboxes" /\ \E s \in Slots : req[s] # Idle /\ req[s].name \in Domains)
        \/ (loaded.dkim = domain /\ loaded.virtual = domain)

\* Between requests a mailbox can be logged in to if and only if it is active
\* and was created by somebody, and in production Postfix accepts its mail;
\* after a creation that failed half-way, and after a start, too.
ProvisionedTogether ==
    Quiet =>
      /\ \A b \in Boxes \ torn : /\ b \in userdb => row[b].active
                                 /\ row[b].active /\ ~row[b].catchall => b \in userdb
      /\ production /\ fresh =>
            \A b \in Boxes \ torn : /\ row[b].active /\ ~row[b].catchall => b \in vmap
                                    /\ b \in vmap => row[b].active

\* The mailboxes the quota counts, those that are not catch-all, exceed it by
\* requests at the same time only: neither reassigning mailboxes nor deleting
\* and reactivating them gets around it.  Adopting catch-all mailboxes does,
\* since they stay catch-all: see QuotaCoversAll.
QuotaKept ==
    overlap \/ \A u \in Users : u # Admin \/ production => Cardinality(Owned(u)) <= MaxMailboxes

\* "Any authenticated user can create mailboxes up to their quota." (router.py:
\* 162): a user who is no administrator has a mailbox only by creating it, so
\* has no more than the quota, whichever requests created them.
QuotaCoversAll ==
    overlap \/ \A u \in Users \ {Admin} : Cardinality({b \in Active : row[b].owner = u}) <= MaxMailboxes

\* What a user is shown can be opened: list_mailboxes and verify_mailbox_access
\* agree while mailboxes are adopted, deleted and found, and while the
\* catch-all switch is turned.
ListedIsAccessible == \A u \in Users : \A b \in list_mailboxes(u) : verify_mailbox_access(u, b)
=============================================================================
