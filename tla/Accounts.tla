------------------------------ MODULE Accounts ------------------------------
(***************************************************************************)
(* Accounts, sessions and API keys (backend/app/auth, dependencies.py).    *)
(* A request first loads rows (get_auth, or a SELECT by user name), then   *)
(* decides on these copies and commits the columns it assigned, while      *)
(* other requests commit in between.  A token carries the token_version of *)
(* the copy it was made from and is accepted while the row has it.         *)
(***************************************************************************)
EXTENDS Naturals, FiniteSets, TLC

CONSTANTS People, Handlers, Keys, Scopes, Inboxes,
          MaxAttempts,             \* max_failed_login_attempts
          MaxRequests, MaxVersion  \* bounds: requests; token versions

ASSUME AccountsAssumption ==
    /\ IsFiniteSet(People) /\ MaxAttempts \in Nat \ {0} /\ MaxRequests \in Nat /\ MaxVersion \in Nat

VARIABLES
    user,        \* rows of User; "hashed_password" is a generation
    tokens,      \* JWTs in the hands of clients that have not expired
    key,         \* rows of APIKey
    handler,     \* handlers in flight, with the rows they loaded
    served,      \* requests so far
    spent,       \* history: how often a version was exchanged for the next one
    used, mixed, \* history: versions a row has had; those it was given again
    minter,      \* history: the grants under which a key's columns were written
    stale        \* history: an administrator who was none any more edited a user

versions == <<spent, used, mixed>>
accountVars == <<user, tokens, key, handler, served, spent, used, mixed, minter, stale>>

Versions == 0..MaxVersion
NoKey == [owner |-> "-", scopes |-> {}, boxes |-> {}]
\* scopes ["*"] and allowed_mailboxes None are the full sets; an interactive
\* session holds both.
Session == [scopes |-> Scopes, boxes |-> Inboxes]
NoGrant == [scopes |-> {}, boxes |-> {}]
Vacant == [op |-> "idle"]

By(g, h) == [scopes |-> g, boxes |-> h]
Grant(k) == [scopes |-> key[k].scopes, boxes |-> key[k].boxes]
Within(g, h) == g.scopes \subseteq h.scopes /\ g.boxes \subseteq h.boxes

-----------------------------------------------------------------------------
(* Helpers of auth/service.py on the copy c of user u's row.               *)

is_account_locked(c) == c.locked = "running"

\* failed_login_attempts + 1, and locked_until at the threshold
record_failed_login(u, c) ==
    [user EXCEPT ![u].failed = c.failed + 1,
                 ![u].locked = IF c.failed + 1 >= MaxAttempts THEN "running" ELSE @]

\* Columns that have these values already are not written.
reset_failed_login(u, c) ==
    [user EXCEPT ![u].failed = IF c.failed > 0 THEN 0 ELSE @,
                 ![u].locked = IF c.locked # "no" THEN "no" ELSE @]

Token(u, type, c) == [user |-> u, type |-> type, ver |-> c.version, pw |-> c.password]
Issue(u, c) == tokens \cup {Token(u, "access", c), Token(u, "refresh", c)}

\* _user_from_jwt: the signature is checked by decode_jwt; a revoked or
\* deactivated session is refused.
Accepted(t) == user[t.user].active /\ user[t.user].version = t.ver

\* Mutant: only the scopes are compared.
EnforceScopes(g, caller) == g.scopes \subseteq caller.scopes

\* _enforce_grant_within_caller; a session is its own widest grant
enforce_grant_within_caller(g, caller) == Within(g, caller)

-----------------------------------------------------------------------------
(* Loading.  Every handler begins with one of these.                       *)

Arrive(s, r) ==
    /\ handler[s] = Vacant /\ served < MaxRequests
    /\ handler' = [handler EXCEPT ![s] = r]
    /\ served' = served + 1
    /\ UNCHANGED <<user, tokens, key, versions, minter, stale>>

TokenOps == {"login_2fa", "refresh"}
OwnerOps == {"change_password", "totp_setup", "totp_confirm", "totp_disable", "logout"}
KeyOps == {"create_api_key", "update_api_key", "revoke_api_key"}
TargetOps == {"admin_reset_password", "update_user", "deactivate_user"}
AdminOps == TargetOps \cup {"register"}

Request(op, u, grant) ==
    [op |-> op, user |-> u, seen |-> user[u], to |-> "-", row |-> user[u],
     caller |-> grant, key |-> NoKey, id |-> "-"]

\* login: SELECT by user name; a locked account is turned away here.
LoadByName(s, u) ==
    /\ user[u].exists /\ ~is_account_locked(user[u])
    /\ Arrive(s, Request("login", u, Session))

\* login_2fa and refresh: the token in the body or the cookie names the user.
LoadByToken(s, op, t) ==
    /\ t.type = (IF op = "refresh" THEN "refresh" ELSE "temp") /\ Accepted(t)
    /\ op = "login_2fa" => ~is_account_locked(user[t.user])
    /\ Arrive(s, Request(op, t.user, Session))

\* get_auth with a bearer token or the refresh cookie
get_auth_session(s, op, t) ==
    /\ t.type \in {"access", "refresh"} /\ Accepted(t)
    /\ op \in AdminOps => user[t.user].admin                    \* require_admin
    /\ Arrive(s, Request(op, t.user, Session))

\* get_auth with an API key: require_scope for the key endpoints; the others
\* only need the identity.
get_auth_key(s, op, k) ==
    LET u == key[k].owner
    IN  /\ key[k] # NoKey /\ user[u].active
        /\ op \in KeyOps => "keys" \in key[k].scopes
        /\ op \in AdminOps => user[u].admin
        /\ Arrive(s, Request(op, u, Grant(k)))

-----------------------------------------------------------------------------
(* Handlers, from the loaded copy to the last commit.  tok is what the     *)
(* client receives.                                                        *)

Serving(s, op) == handler[s].op = op
Answer(s) == /\ handler' = [handler EXCEPT ![s] = Vacant] /\ UNCHANGED <<served>>
Refuse(s) == Answer(s) /\ UNCHANGED <<user, tokens, key, versions, minter, stale>>

Fails(s) ==
    /\ Answer(s) /\ user' = record_failed_login(handler[s].user, handler[s].seen)
    /\ UNCHANGED <<tokens, key, versions, minter, stale>>

login(s, right) ==
    LET c == handler[s].seen  u == handler[s].user
    IN  /\ Serving(s, "login")
        /\ IF ~right THEN Fails(s)
           ELSE IF ~c.active THEN Refuse(s)
           ELSE /\ Answer(s) /\ user' = reset_failed_login(u, c)
                /\ tokens' = IF c.totp THEN tokens \cup {Token(u, "temp", c)} ELSE Issue(u, c)
                /\ UNCHANGED <<key, versions, minter, stale>>

login_2fa(s, ok) ==
    LET c == handler[s].seen  u == handler[s].user
    IN  /\ Serving(s, "login_2fa")
        /\ IF c.secret # "good" THEN Refuse(s)           \* 400, or 503 when it cannot be decrypted
           ELSE IF ~ok THEN Fails(s)
           ELSE /\ Answer(s) /\ user' = reset_failed_login(u, c)
                /\ tokens' = Issue(u, c)
                /\ UNCHANGED <<key, versions, minter, stale>>

\* token_version is written as the copy's value plus one, which may be a value
\* that the row had in between, or has.
Bump(db, u, c) == [db EXCEPT ![u].version = c.version + 1]
Given(u, v, again) ==
    /\ used' = [used EXCEPT ![u] = @ \cup {v}]
    /\ mixed' = IF again \/ v \in used[u] THEN [mixed EXCEPT ![u] = @ \cup {v}] ELSE mixed
NewPassword(db, u) == [db EXCEPT ![u].password = @ + 1]

change_password(s, right) ==
    LET c == handler[s].seen  u == handler[s].user
    IN  /\ Serving(s, "change_password")
        /\ IF is_account_locked(c) THEN Refuse(s)
           ELSE IF ~right THEN Fails(s)
           ELSE /\ Answer(s) /\ c.version < MaxVersion
                /\ user' = NewPassword(Bump(reset_failed_login(u, c), u, c), u)
                /\ Given(u, c.version + 1, FALSE)
                /\ UNCHANGED <<tokens, key, spent, minter, stale>>

\* The row that an administrator is about to change.  A session loads a row
\* once: the administrator's own is the one get_auth has seen.
LoadTarget(s, u) ==
    /\ handler[s].op \in TargetOps /\ handler[s].to = "-"
    /\ IF ~user[u].exists THEN Refuse(s)
       ELSE /\ handler' = [handler EXCEPT ![s].to = u,
                                  ![s].row = IF u = handler[s].user THEN handler[s].seen ELSE user[u]]
            /\ UNCHANGED <<user, tokens, key, served, versions, minter, stale>>

\* Mutant: the sessions of the old password are kept.
AdminResetKeepsSessions(s) ==
    LET u == handler[s].to
    IN  /\ Serving(s, "admin_reset_password") /\ u # "-"
        /\ Answer(s) /\ user' = NewPassword(user, u)
        /\ UNCHANGED <<tokens, key, versions, minter, stale>>

admin_reset_password(s) ==
    LET c == handler[s].row  u == handler[s].to
    IN  /\ Serving(s, "admin_reset_password") /\ u # "-" /\ c.version < MaxVersion
        /\ Answer(s) /\ user' = NewPassword(Bump(user, u, c), u)
        /\ Given(u, c.version + 1, FALSE)
        /\ UNCHANGED <<tokens, key, spent, minter, stale>>

logout(s) ==
    LET c == handler[s].seen  u == handler[s].user
    IN  /\ Serving(s, "logout") /\ c.version < MaxVersion
        /\ Answer(s) /\ user' = Bump(user, u, c) /\ Given(u, c.version + 1, FALSE)
        /\ UNCHANGED <<tokens, key, spent, minter, stale>>

\* UPDATE ... WHERE token_version = the copy's: the loser of a race is refused.
refresh(s) ==
    LET c == handler[s].seen  u == handler[s].user
    IN  /\ Serving(s, "refresh")
        /\ IF user[u].version # c.version THEN Refuse(s)
           ELSE /\ c.version < MaxVersion /\ Answer(s)
                /\ user' = Bump(user, u, c)
                /\ spent' = [spent EXCEPT ![u][c.version] = @ + 1]
                /\ Given(u, c.version + 1, c.version \in mixed[u])
                /\ tokens' = Issue(u, [c EXCEPT !.version = @ + 1])
                /\ UNCHANGED <<key, minter, stale>>

totp_setup(s) ==
    LET c == handler[s].seen  u == handler[s].user
    IN  /\ Serving(s, "totp_setup")
        /\ IF c.totp THEN Refuse(s)
           ELSE /\ Answer(s) /\ user' = [user EXCEPT ![u].secret = "good"]
                /\ UNCHANGED <<tokens, key, versions, minter, stale>>

totp_confirm(s, ok) ==
    LET c == handler[s].seen  u == handler[s].user
    IN  /\ Serving(s, "totp_confirm")
        /\ IF c.totp \/ c.secret = "none" THEN Refuse(s)
           ELSE IF c.secret = "lost" THEN
                /\ Answer(s) /\ user' = [user EXCEPT ![u].secret = "none"]
                /\ UNCHANGED <<tokens, key, versions, minter, stale>>
           ELSE IF ~ok THEN Fails(s)
           ELSE /\ Answer(s) /\ user' = [reset_failed_login(u, c) EXCEPT ![u].totp = TRUE]
                /\ UNCHANGED <<tokens, key, versions, minter, stale>>

totp_disable(s, right, ok) ==
    LET c == handler[s].seen  u == handler[s].user
    IN  /\ Serving(s, "totp_disable")
        /\ IF ~c.totp \/ is_account_locked(c) THEN Refuse(s)
           ELSE IF ~right THEN Fails(s)
           ELSE IF c.secret # "good" THEN Refuse(s)
           ELSE IF ~ok THEN Fails(s)
           ELSE /\ Answer(s)
                /\ user' = [reset_failed_login(u, c) EXCEPT ![u].totp = FALSE, ![u].secret = "none"]
                /\ UNCHANGED <<tokens, key, versions, minter, stale>>

-----------------------------------------------------------------------------
(* API keys.                                                               *)

\* normalize_scopes and _resolve_allowed_mailboxes: an empty choice is all
Normal(g) == [scopes |-> IF g.scopes = {} THEN Scopes ELSE g.scopes,
              boxes |-> IF g.boxes = {} THEN Inboxes ELSE g.boxes]

create_api_key(s, k, asked) ==
    LET g == Normal(asked)  u == handler[s].user
    IN  /\ Serving(s, "create_api_key")
        /\ IF ~enforce_grant_within_caller(g, handler[s].caller) THEN Refuse(s)
           ELSE /\ key[k] = NoKey /\ Answer(s)
                /\ key' = [key EXCEPT ![k] = [owner |-> u, scopes |-> g.scopes, boxes |-> g.boxes]]
                /\ minter' = [minter EXCEPT ![k] = By(handler[s].caller, handler[s].caller)]
                /\ UNCHANGED <<user, tokens, versions, stale>>

\* update_api_key loads the key, then awaits the caller's mailboxes.
LoadApiKey(s, k) ==
    /\ Serving(s, "update_api_key") /\ handler[s].key = NoKey
    /\ IF key[k].owner # handler[s].user THEN Refuse(s)
       ELSE /\ handler' = [handler EXCEPT ![s].key = key[k], ![s].id = k]
            /\ UNCHANGED <<user, tokens, key, served, versions, minter, stale>>

\* fields: what the body sets.  The check is on the resulting grant as seen
\* from the loaded key; only the given columns are written, and the update of
\* a row that is gone fails.
update_api_key(s, fields, asked) ==
    LET n == Normal(asked)  k == handler[s].id  c == handler[s].key  me == handler[s].caller
        g == [scopes |-> IF "scopes" \in fields THEN n.scopes ELSE c.scopes,
              boxes |-> IF "boxes" \in fields THEN n.boxes ELSE c.boxes]
        row == [key[k] EXCEPT !.scopes = IF "scopes" \in fields THEN g.scopes ELSE @,
                              !.boxes = IF "boxes" \in fields THEN g.boxes ELSE @]
        asSeen == row.scopes = g.scopes /\ row.boxes = g.boxes
    IN  /\ Serving(s, "update_api_key") /\ c # NoKey
        /\ IF key[k] = NoKey \/ ~enforce_grant_within_caller(g, me) THEN Refuse(s)
           ELSE /\ Answer(s) /\ key' = [key EXCEPT ![k] = row]
                /\ minter' = [minter EXCEPT
                                 ![k].scopes = IF "scopes" \in fields \/ asSeen THEN me ELSE @,
                                 ![k].boxes = IF "boxes" \in fields \/ asSeen THEN me ELSE @]
                /\ UNCHANGED <<user, tokens, versions, stale>>

revoke_api_key(s, k) ==
    /\ Serving(s, "revoke_api_key")
    /\ IF key[k].owner # handler[s].user THEN Refuse(s)
       ELSE /\ Answer(s) /\ key' = [key EXCEPT ![k] = NoKey] /\ minter' = [minter EXCEPT ![k] = By(NoGrant, NoGrant)]
            /\ UNCHANGED <<user, tokens, versions, stale>>

-----------------------------------------------------------------------------
(* User management, on the copy of the target's row.                       *)

NewUser(admin) ==
    [exists |-> TRUE, password |-> 0, version |-> 0, failed |-> 0, locked |-> "no",
     secret |-> "none", totp |-> FALSE, active |-> TRUE, admin |-> admin]

register(s, u, admin) ==
    /\ Serving(s, "register")
    /\ IF user[u].exists THEN Refuse(s)
       ELSE /\ Answer(s) /\ user' = [user EXCEPT ![u] = NewUser(admin)]
            /\ UNCHANGED <<tokens, key, versions, minter, stale>>

Behind(s) == LET me == user[handler[s].user] IN stale' = (stale \/ ~(me.active /\ me.admin))

\* Columns whose values differ from the copy's are written.
Edit(s, active, admin) ==
    LET c == handler[s].row  u == handler[s].to
    IN  /\ Answer(s) /\ Behind(s)
        /\ user' = [user EXCEPT ![u].active = IF active # c.active THEN active ELSE @,
                                ![u].admin = IF admin # c.admin THEN admin ELSE @]
        /\ UNCHANGED <<tokens, key, versions, minter>>

\* Mutant: an administrator may edit the own row.
UpdateAnyUser(s, active, admin) ==
    Serving(s, "update_user") /\ handler[s].to # "-" /\ Edit(s, active, admin)

update_user(s, active, admin) ==
    /\ Serving(s, "update_user") /\ handler[s].to # "-"
    /\ IF handler[s].to = handler[s].user /\ ~(active /\ admin) THEN Refuse(s)
       ELSE Edit(s, active, admin)

deactivate_user(s) ==
    /\ Serving(s, "deactivate_user") /\ handler[s].to # "-"
    /\ IF handler[s].to = handler[s].user THEN Refuse(s) ELSE Edit(s, FALSE, handler[s].row.admin)

-----------------------------------------------------------------------------
\* lockout_duration_minutes have passed.
LockExpires(u) ==
    /\ user[u].locked = "running"
    /\ user' = [user EXCEPT ![u].locked = "over"]
    /\ UNCHANGED <<tokens, key, handler, served, versions, minter, stale>>

\* The process restarts with another secret_key: no token verifies, no TOTP
\* secret can be decrypted, and requests in flight are lost.
NewSecretKey ==
    /\ \E s \in Handlers : handler[s] # Vacant
    /\ tokens' = {} /\ handler' = [s \in Handlers |-> Vacant]
    /\ user' = [u \in People |-> [user[u] EXCEPT !.secret = IF @ = "good" THEN "lost" ELSE @]]
    /\ UNCHANGED <<key, served, versions, minter, stale>>

\* create_default_admin at start-up; its user has logged in since.
Start ==
    /\ \E a \in People : user = [u \in People |-> [NewUser(TRUE) EXCEPT !.exists = (u = a)]]
    /\ tokens = {Token(u, "access", user[u]) : u \in {x \in People : user[x].exists}}
           \cup {Token(u, "refresh", user[u]) : u \in {x \in People : user[x].exists}}
    /\ handler = [s \in Handlers |-> Vacant] /\ served = 0
    /\ spent = [u \in People |-> [v \in Versions |-> 0]]
    /\ used = [u \in People |-> {0}] /\ mixed = [u \in People |-> {}] /\ stale = FALSE

AccountsInit ==
    /\ Start
    /\ key = [k \in Keys |-> NoKey] /\ minter = [k \in Keys |-> By(NoGrant, NoGrant)]

\* Grants to ask for; {} asks for all.
Grants == [scopes : SUBSET Scopes \ {Scopes}, boxes : SUBSET Inboxes \ {Inboxes}]

Load(s) ==
    \/ \E u \in People : LoadByName(s, u)
    \/ \E t \in tokens : \/ \E op \in TokenOps : LoadByToken(s, op, t)
                         \/ \E op \in OwnerOps \cup KeyOps \cup AdminOps : get_auth_session(s, op, t)
    \/ \E k \in Keys, op \in OwnerOps \cup KeyOps \cup AdminOps : get_auth_key(s, op, k)

Handle(s) ==
    \/ \E right \in BOOLEAN : \/ login(s, right) \/ change_password(s, right)
                             \/ \E ok \in BOOLEAN : totp_disable(s, right, ok)
    \/ \E ok \in BOOLEAN : login_2fa(s, ok) \/ totp_confirm(s, ok)
    \/ refresh(s) \/ logout(s) \/ totp_setup(s)
    \/ \E k \in Keys : LoadApiKey(s, k) \/ revoke_api_key(s, k) \/ \E g \in Grants : create_api_key(s, k, g)
    \/ \E g \in Grants, f \in SUBSET {"scopes", "boxes"} : update_api_key(s, f, g)
    \/ admin_reset_password(s) \/ deactivate_user(s)
    \/ \E active \in BOOLEAN, admin \in BOOLEAN : update_user(s, active, admin)
    \/ \E u \in People : LoadTarget(s, u) \/ \E admin \in BOOLEAN : register(s, u, admin)

AccountsNext == \/ \E s \in Handlers : Load(s) \/ Handle(s)
                \/ \E u \in People : LockExpires(u)
                \/ NewSecretKey
AccountsSpec == AccountsInit /\ [][AccountsNext]_accountVars

-----------------------------------------------------------------------------
TypeOK ==
    /\ user \in [People -> [exists : BOOLEAN, password : 0..MaxRequests, version : Versions,
                           failed : Nat, locked : {"no", "running", "over"},
                           secret : {"none", "good", "lost"}, totp : BOOLEAN, active : BOOLEAN, admin : BOOLEAN]]
    /\ \A t \in tokens : t.user \in People /\ t.ver \in Versions
    /\ served \in 0..MaxRequests /\ stale \in BOOLEAN

\* docs/guides/production.md:15: "logout and password changes revoke existing
\* tokens".  Whatever was in flight, who is let in has the current password.
\* It fails: a change or a reset (router.py:295, :322) that overlaps a refresh
\* writes the version that the refresh has just given out.
PasswordsRevoke == \A t \in tokens : Accepted(t) => t.pw = user[t.user].password

\* How far it does hold: an old password's session is let in only while the
\* row has a version number that was written twice, and no longer than until
\* the next new number.
SessionsOfThePassword ==
    \A t \in tokens : Accepted(t) /\ t.ver \notin mixed[t.user] => t.pw = user[t.user].password

\* refresh, router.py:562: "so the refresh token cannot be replayed".  Of all
\* refreshes with tokens of one version, however they overlap, one succeeds,
\* unless that number was written twice.
RefreshedOnce ==
    \A u \in People, v \in Versions : v \notin mixed[u] => spent[u][v] <= 1

\* create_api_key, router.py:685: "no privilege escalation".  The scopes and
\* the mailboxes of a key are each within the grant of the caller under whom
\* they were last written; that is one caller for both, who has the whole of
\* the key's grant, unless the last edit overwrote a column it had not seen.
GrantsContained ==
    \A k \in {k \in Keys : key[k] # NoKey} :
        key[k].scopes \subseteq minter[k].scopes.scopes /\ key[k].boxes \subseteq minter[k].boxes.boxes

\* update_user and deactivate_user let nobody remove themselves: unless two
\* administrators do it to each other at once, one is left.
AdminRemains == stale \/ \E u \in People : user[u].exists /\ user[u].active /\ user[u].admin

\* Sessions end with the password that opened them, and each refresh token is
\* exchanged once, with logins, refreshes and resets in flight together.
SessionsSound == SessionsOfThePassword /\ RefreshedOnce

-----------------------------------------------------------------------------
(* Values of the runs.                                                     *)

AccountSymmetry == Permutations(Handlers) \cup Permutations(People) \cup Permutations(Inboxes)
=============================================================================
