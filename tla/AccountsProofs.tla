--------------------------- MODULE AccountsProofs ---------------------------
(***************************************************************************)
(* Proofs that sessions, key grants and the last administrator survive     *)
(* every interleaving of the handlers of Accounts, for any number of       *)
(* users, keys, mailboxes and requests in flight.  The invariant relates   *)
(* the copy of a row that a handler decides on to the row as it is now:    *)
(* the row has had the copy's version, and where the versions agree and    *)
(* were written only once, so do the passwords.                            *)
(***************************************************************************)
EXTENDS Accounts, TLAPS

Row == [exists : BOOLEAN, password : Nat, version : Versions, failed : Nat,
        locked : {"no", "running", "over"}, secret : {"none", "good", "lost"},
        totp : BOOLEAN, active : BOOLEAN, admin : BOOLEAN]
GrantType == [scopes : SUBSET Scopes, boxes : SUBSET Inboxes]
KeyRow == [owner : People, scopes : SUBSET Scopes, boxes : SUBSET Inboxes]
Ops == {"login"} \cup TokenOps \cup OwnerOps \cup KeyOps \cup AdminOps
Running(s) == handler[s] # Vacant

\* A request in flight: who calls, the row and the key it loaded.
RequestOK(r) ==
    /\ r \in [op : Ops, user : People, seen : Row, to : People \cup {"-"}, row : Row,
              caller : GrantType, key : KeyRow \cup {NoKey}, id : Keys \cup {"-"}]
    /\ r.key # NoKey => r.id \in Keys

Types ==
    /\ user \in [People -> Row]
    /\ \A t \in tokens : t.user \in People /\ t.ver \in Versions /\ t.pw \in Nat
    /\ key \in [Keys -> KeyRow \cup {NoKey}]
    /\ DOMAIN handler = Handlers /\ \A s \in Handlers : handler[s] = Vacant \/ RequestOK(handler[s])
    /\ served \in Nat /\ stale \in BOOLEAN
    /\ spent \in [People -> [Versions -> Nat]]
    /\ used \in [People -> SUBSET Versions] /\ mixed \in [People -> SUBSET Versions]
    /\ minter \in [Keys -> [scopes : GrantType, boxes : GrantType]]

\* Rows are never deleted: whoever holds a token, owns a key or has a request
\* in flight has a row, and only such users have spent a version.
Known ==
    /\ \A t \in tokens : user[t.user].exists
    /\ \A k \in Keys : key[k] # NoKey => user[key[k].owner].exists
    /\ \A s \in Handlers : Running(s) => /\ user[handler[s].user].exists
                                         /\ handler[s].to # "-" => user[handler[s].to].exists
    /\ \A u \in People : ~user[u].exists => \A v \in Versions : spent[u][v] = 0

\* User u's row has had version ver, and if it has it now and it was written
\* once, then pw is the row's password.
Behindhand(u, ver, pw) ==
    ver \in used[u] /\ (ver = user[u].version /\ ver \notin mixed[u] => pw = user[u].password)

Copies ==
    /\ \A u \in People : 0 \in used[u] /\ user[u].version \in used[u]
    /\ \A t \in tokens : Behindhand(t.user, t.ver, t.pw)
    /\ \A s \in Handlers : Running(s) =>
           Behindhand(handler[s].user, handler[s].seen.version, handler[s].seen.password)

\* A version that was exchanged, once, is not the row's any more.
Exchanged ==
    \A u \in People, v \in Versions :
        spent[u][v] > 0 => /\ v \in used[u]
                           /\ v \notin mixed[u] => spent[u][v] = 1 /\ v # user[u].version

IInv == Types /\ Known /\ Copies /\ Exchanged /\ AdminRemains /\ GrantsContained

\* What a handler may leave in handler: nothing, or a request that was there with
\* the same user and the same copy of the row.
Carried ==
    /\ DOMAIN handler' = Handlers
    /\ \A s \in Handlers : \/ handler'[s] = Vacant
                           \/ /\ Running(s) /\ RequestOK(handler'[s])
                              /\ handler'[s].user = handler[s].user /\ handler'[s].seen = handler[s].seen
                              /\ handler'[s].to = handler[s].to \/ user[handler'[s].to].exists

\* The columns the invariants read are as they were.
SameRow(r, old) ==
    /\ r.exists = old.exists /\ r.version = old.version /\ r.password = old.password
    /\ r.active = old.active /\ r.admin = old.admin
Same(u) == SameRow(user'[u], user[u])

-----------------------------------------------------------------------------
(* Facts about the helpers.                                                *)

\* A slot whose handler runs holds a request.
LEMMA InFlight ==
    ASSUME Types, NEW s \in Handlers, NEW op \in Ops, Serving(s, op)
    PROVE  Running(s) /\ RequestOK(handler[s])
BY DEF Types, Ops, TokenOps, OwnerOps, KeyOps, AdminOps, TargetOps, Running, Vacant, Serving

\* End leaves the other requests alone.
LEMMA EndCarries ==
    ASSUME Types, NEW s \in Handlers, Answer(s)
    PROVE  Carried /\ served' \in Nat
BY DEF Types, Answer, Carried, Running

\* Every row is a record of its columns.
LEMMA RowFacts ==
    ASSUME NEW c \in Row
    PROVE  /\ c.version \in Versions /\ c.version \in Nat /\ c.password \in Nat /\ c.failed \in Nat
           /\ c.exists \in BOOLEAN
BY AccountsAssumption DEF Row, Versions

\* The lockout counters are no columns the invariants read.
LEMMA ResetKeepsRows ==
    ASSUME Types, NEW u \in People, NEW c \in Row
    PROVE  LET db == reset_failed_login(u, c)
           IN  /\ db \in [People -> Row]
               /\ \A x \in People : SameRow(db[x], user[x])
<1> DEFINE f == IF c.failed > 0 THEN 0 ELSE user[u].failed
           l == IF c.locked # "no" THEN "no" ELSE user[u].locked
<1>1. user \in [People -> Row]
  BY DEF Types
<1>2. f \in Nat /\ l \in {"no", "running", "over"}
  BY <1>1 DEF Row
<1> DEFINE r == [user[u] EXCEPT !.failed = f, !.locked = l]
<1>3. reset_failed_login(u, c) = [user EXCEPT ![u] = r]
  BY <1>1 DEF reset_failed_login
<1>4. r \in Row /\ SameRow(r, user[u])
  <2> HIDE DEF f, l
  <2> QED BY <1>1, <1>2 DEF Row, SameRow
<1> HIDE DEF r
<1> QED
  BY <1>1, <1>3, <1>4 DEF SameRow

LEMMA CountersKeepRows ==
    ASSUME Types, NEW u \in People, NEW c \in Row,
           user' = record_failed_login(u, c) \/ user' = reset_failed_login(u, c)
    PROVE  user' \in [People -> Row] /\ \A x \in People : Same(x)
<1>1. user \in [People -> Row] /\ c.failed + 1 \in Nat
  BY DEF Types, Row
<1>2. CASE user' = record_failed_login(u, c)
  <2> DEFINE f == c.failed + 1
             l == IF f >= MaxAttempts THEN "running" ELSE user[u].locked
             r == [user[u] EXCEPT !.failed = f, !.locked = l]
  <2>1. f \in Nat /\ l \in {"no", "running", "over"}
    BY <1>1 DEF Row
  <2>2. user' = [user EXCEPT ![u] = r]
    BY <1>1, <1>2 DEF record_failed_login
  <2>3. r \in Row /\ SameRow(r, user[u])
    <3> HIDE DEF f, l
    <3> QED
      BY <1>1, <2>1 DEF Row, SameRow
  <2> HIDE DEF r
  <2> QED
    BY <1>1, <2>2, <2>3 DEF Same, SameRow
<1>3. CASE user' = reset_failed_login(u, c)
  BY <1>3, ResetKeepsRows DEF Same
<1> QED
  BY <1>2, <1>3

-----------------------------------------------------------------------------
(* Steps that do not touch versions, passwords or keys.                    *)

\* Tokens are only made from the copy a handler holds.
MadeFromCopy(t) ==
    \E s \in Handlers : /\ Running(s) /\ t.user = handler[s].user
                        /\ t.ver = handler[s].seen.version /\ t.pw = handler[s].seen.password

LEMMA QuietInv ==
    ASSUME IInv, user' \in [People -> Row], \A x \in People : Same(x), Carried, served' \in Nat,
           \A t \in tokens' : t \in tokens \/ MadeFromCopy(t),
           UNCHANGED <<key, versions, minter, stale>>
    PROVE  IInv'
<1>0. UNCHANGED <<spent, used, mixed>>
  BY DEF versions
<1>1. Types'
  <2>1. \A t \in tokens' : t.user \in People /\ t.ver \in Versions /\ t.pw \in Nat
    <3> SUFFICES ASSUME NEW t \in tokens' PROVE t.user \in People /\ t.ver \in Versions /\ t.pw \in Nat
      OBVIOUS
    <3>1. CASE t \in tokens
      BY <3>1 DEF IInv, Types
    <3>2. CASE MadeFromCopy(t)
      BY <3>2, RowFacts DEF IInv, Types, MadeFromCopy, Running, RequestOK
    <3> QED
      BY <3>1, <3>2
  <2>2. DOMAIN handler' = Handlers /\ \A s \in Handlers : handler'[s] = Vacant \/ RequestOK(handler'[s])
    BY DEF Carried
  <2> QED
    BY <1>0, <2>1, <2>2 DEF IInv, Types, RequestOK, Row, GrantType, KeyRow, NoKey
<1>2. Known'
  <2>1. \A t \in tokens' : user'[t.user].exists
    BY DEF IInv, Types, Known, Same, SameRow, MadeFromCopy, RequestOK, Running
  <2>2. \A k \in Keys : key'[k] # NoKey => user'[key'[k].owner].exists
    BY DEF IInv, Types, Known, Same, SameRow, KeyRow
  <2>3. \A s \in Handlers : Running(s)' => /\ user'[handler'[s].user].exists
                                           /\ handler'[s].to # "-" => user'[handler'[s].to].exists
    BY DEF IInv, Types, Known, Same, SameRow, Carried, RequestOK, Running
  <2>4. \A u \in People : ~user'[u].exists => \A v \in Versions : spent'[u][v] = 0
    BY <1>0 DEF IInv, Known, Same, SameRow
  <2> QED
    BY <2>1, <2>2, <2>3, <2>4 DEF Known
<1>3. Copies'
  <2>1. ASSUME NEW t \in tokens' PROVE Behindhand(t.user, t.ver, t.pw)'
    <3>1. t.user \in People /\ Behindhand(t.user, t.ver, t.pw)
      <4>1. CASE t \in tokens
        BY <4>1 DEF IInv, Types, Copies
      <4>2. CASE MadeFromCopy(t)
        BY <4>2 DEF IInv, Types, Copies, MadeFromCopy, RequestOK, Running
      <4> QED
        BY <2>1, <4>1, <4>2
    <3> QED
      BY <1>0, <3>1 DEF Same, SameRow, Behindhand
  <2>2. ASSUME NEW s \in Handlers, Running(s)'
        PROVE  Behindhand(handler[s].user, handler[s].seen.version, handler[s].seen.password)'
    BY <1>0, <2>2 DEF IInv, Types, Copies, Same, SameRow, Carried, RequestOK, Running, Behindhand
  <2>3. \A u \in People : 0 \in used'[u] /\ user'[u].version \in used'[u]
    BY <1>0 DEF IInv, Copies, Same, SameRow
  <2> QED
    BY <2>1, <2>2, <2>3 DEF Copies
<1>4. Exchanged'
  BY <1>0 DEF IInv, Exchanged, Same, SameRow
<1>5. AdminRemains'
  BY DEF IInv, AdminRemains, Same, SameRow
<1>6. GrantsContained'
  BY DEF IInv, GrantsContained
<1> QED
  BY <1>1, <1>2, <1>3, <1>4, <1>5, <1>6 DEF IInv

-----------------------------------------------------------------------------
(* The handlers of a session.                                              *)

\* Turning a request away, and counting a failed attempt.
LEMMA RefuseInv ==
    ASSUME IInv, NEW s \in Handlers, Refuse(s)
    PROVE  IInv'
<1>1. Carried /\ served' \in Nat
  BY EndCarries DEF IInv, Refuse
<1> QED
  BY <1>1, QuietInv DEF IInv, Types, Refuse, Same, SameRow

LEMMA FailsInv ==
    ASSUME IInv, NEW s \in Handlers, RequestOK(handler[s]), Fails(s)
    PROVE  IInv'
<1>1. Carried /\ served' \in Nat
  BY EndCarries DEF IInv, Fails
<1>2. user' \in [People -> Row] /\ \A x \in People : Same(x)
  BY CountersKeepRows DEF IInv, Fails, RequestOK
<1> QED
  BY <1>1, <1>2, QuietInv DEF Fails

LEMMA LoginInv ==
    ASSUME IInv, NEW s \in Handlers, NEW right \in BOOLEAN, login(s, right)
    PROVE  IInv'
<1> DEFINE c == handler[s].seen
           u == handler[s].user
<1>1. Running(s) /\ RequestOK(handler[s])
  BY InFlight DEF IInv, login, Ops
<1>2. CASE Fails(s)
  BY <1>1, <1>2, FailsInv
<1>3. CASE Refuse(s)
  BY <1>3, RefuseInv
<1>4. CASE /\ Answer(s) /\ user' = reset_failed_login(u, c)
           /\ tokens' = IF c.totp THEN tokens \cup {Token(u, "temp", c)} ELSE Issue(u, c)
           /\ UNCHANGED <<key, versions, minter, stale>>
  <2>1. user' \in [People -> Row] /\ \A x \in People : Same(x)
    BY <1>1, <1>4, CountersKeepRows DEF IInv, RequestOK
  <2>2. \A t \in tokens' : t \in tokens \/ MadeFromCopy(t)
    BY <1>1, <1>4 DEF MadeFromCopy, Issue, Token
  <2> QED
    BY <1>4, <2>1, <2>2, EndCarries, QuietInv DEF IInv
<1> QED
  BY <1>2, <1>3, <1>4 DEF login

LEMMA Login2faInv ==
    ASSUME IInv, NEW s \in Handlers, NEW ok \in BOOLEAN, login_2fa(s, ok)
    PROVE  IInv'
<1> DEFINE c == handler[s].seen
           u == handler[s].user
<1>1. Running(s) /\ RequestOK(handler[s])
  BY InFlight DEF IInv, login_2fa, Ops, TokenOps
<1>2. CASE Fails(s)
  BY <1>1, <1>2, FailsInv
<1>3. CASE Refuse(s)
  BY <1>3, RefuseInv
<1>4. CASE /\ Answer(s) /\ user' = reset_failed_login(u, c) /\ tokens' = Issue(u, c)
           /\ UNCHANGED <<key, versions, minter, stale>>
  <2>1. user' \in [People -> Row] /\ \A x \in People : Same(x)
    BY <1>1, <1>4, CountersKeepRows DEF IInv, RequestOK
  <2>2. \A t \in tokens' : t \in tokens \/ MadeFromCopy(t)
    BY <1>1, <1>4 DEF MadeFromCopy, Issue, Token
  <2> QED
    BY <1>4, <2>1, <2>2, EndCarries, QuietInv DEF IInv
<1> QED
  BY <1>2, <1>3, <1>4 DEF login_2fa

\* A second factor is set up, confirmed and removed without ending sessions.
LEMMA TotpInv ==
    ASSUME IInv, NEW s \in Handlers,
           \/ totp_setup(s)
           \/ \E ok \in BOOLEAN : totp_confirm(s, ok)
           \/ \E right \in BOOLEAN, ok \in BOOLEAN : totp_disable(s, right, ok)
    PROVE  IInv'
<1> DEFINE c == handler[s].seen
           u == handler[s].user
           db == reset_failed_login(u, c)
<1>1. Running(s) /\ RequestOK(handler[s])
  BY InFlight DEF IInv, totp_setup, totp_confirm, totp_disable, Ops, OwnerOps
<1>2. CASE Fails(s)
  BY <1>1, <1>2, FailsInv
<1>3. CASE Refuse(s)
  BY <1>3, RefuseInv
<1>4. CASE /\ Answer(s) /\ UNCHANGED <<tokens, key, versions, minter, stale>>
           /\ \E x \in {"good", "none"} : user' = [user EXCEPT ![u].secret = x]
  <2>1. PICK x \in {"good", "none"} : user' = [user EXCEPT ![u].secret = x]
    BY <1>4
  <2> DEFINE r == [user[u] EXCEPT !.secret = x]
  <2>2. u \in People /\ user \in [People -> Row] /\ user' = [user EXCEPT ![u] = r]
    BY <1>1, <2>1 DEF IInv, Types, RequestOK
  <2>3. r \in Row /\ SameRow(r, user[u])
    BY <2>2 DEF Row, SameRow
  <2>4. user' \in [People -> Row] /\ \A y \in People : Same(y)
    <3> HIDE DEF r
    <3> QED BY <2>2, <2>3 DEF Same, SameRow
  <2> QED
    BY <1>4, <2>4, EndCarries, QuietInv DEF IInv
<1>5. CASE /\ Answer(s) /\ UNCHANGED <<tokens, key, versions, minter, stale>>
           /\ \/ user' = [db EXCEPT ![u].totp = TRUE]
              \/ user' = [db EXCEPT ![u].totp = FALSE, ![u].secret = "none"]
  <2>1. /\ db \in [People -> Row]
        /\ \A x \in People : SameRow(db[x], user[x])
    BY <1>1, ResetKeepsRows DEF IInv, RequestOK
  <2> HIDE DEF db
  <2> DEFINE r == IF user' = [db EXCEPT ![u].totp = TRUE] THEN [db[u] EXCEPT !.totp = TRUE]
                  ELSE [db[u] EXCEPT !.totp = FALSE, !.secret = "none"]
  <2>2. u \in People /\ user' = [db EXCEPT ![u] = r]
    BY <1>1, <1>5, <2>1 DEF RequestOK
  <2>3. r \in Row /\ SameRow(r, db[u])
    <3>1. db[u] \in Row
      BY <2>1, <2>2
    <3>2. LET x == [db[u] EXCEPT !.totp = TRUE] IN x \in Row /\ SameRow(x, db[u])
      BY <3>1 DEF Row, SameRow
    <3>3. LET x == [db[u] EXCEPT !.totp = FALSE, !.secret = "none"] IN x \in Row /\ SameRow(x, db[u])
      BY <3>1 DEF Row, SameRow
    <3> QED
      BY <3>2, <3>3
  <2>4. user' \in [People -> Row] /\ \A x \in People : Same(x)
    <3> HIDE DEF r
    <3> QED BY <2>1, <2>2, <2>3 DEF Same, SameRow
  <2> QED
    BY <1>5, <2>4, EndCarries, QuietInv DEF IInv
<1> QED
  BY <1>2, <1>3, <1>4, <1>5 DEF totp_setup, totp_confirm, totp_disable

-----------------------------------------------------------------------------
(* Steps that write one row, u's, whose version grows.                     *)

\* Nothing that was handed out or loaded keeps u's sessions alive: what it
\* carries is behind the new version.  made are the tokens of the new one.
LEMMA BumpInv ==
    ASSUME IInv, NEW u \in People, NEW r \in Row, user' = [user EXCEPT ![u] = r],
           Carried, served' \in Nat, UNCHANGED <<key, minter, stale>>,
           user[u].exists, r.exists, r.active = user[u].active, r.admin = user[u].admin,
           NEW again \in BOOLEAN, Given(u, r.version, again),
           \A t \in tokens' : \/ t \in tokens
                              \/ /\ t.user = u /\ t.ver = r.version /\ t.pw \in Nat
                                 /\ ~again => t.pw = r.password,
           \/ spent' = spent
           \/ /\ spent' = [spent EXCEPT ![u][user[u].version] = @ + 1]
              /\ r.version = user[u].version + 1
    PROVE  IInv'
<1> DEFINE w == r.version
<1>1. /\ user' \in [People -> Row] /\ user'[u] = r
      /\ \A x \in People : x # u => user'[x] = user[x]
  BY DEF IInv, Types
<1>2. /\ w \in Nat /\ w \in Versions /\ r.password \in Nat
      /\ \A x \in People : user[x].version \in Nat /\ user[x].version \in Versions
  BY RowFacts DEF IInv, Types
<1>3. /\ used' \in [People -> SUBSET Versions] /\ mixed' \in [People -> SUBSET Versions]
      /\ w \in used'[u] /\ (w \notin mixed'[u] => w \notin used[u] /\ ~again)
      /\ \A x \in People : used[x] \subseteq used'[x] /\ mixed[x] \subseteq mixed'[x]
      /\ \A x \in People : x # u => used'[x] = used[x] /\ mixed'[x] = mixed[x]
  BY <1>2 DEF Given, IInv, Types
<1>4. /\ spent' \in [People -> [Versions -> Nat]]
      /\ \A x \in People, v \in Versions :
            \/ spent'[x][v] = spent[x][v]
            \/ /\ x = u /\ v = user[u].version /\ spent'[x][v] = spent[x][v] + 1
               /\ w = v + 1
  <2> DEFINE old == user[u].version
             row == [spent[u] EXCEPT ![old] = @ + 1]
  <2>1. spent \in [People -> [Versions -> Nat]] /\ old \in Versions
    BY <1>2 DEF IInv, Types
  <2>2. CASE spent' = spent
    BY <2>1, <2>2
  <2>3. CASE spent' = [spent EXCEPT ![u][old] = @ + 1] /\ w = old + 1
    <3>1. spent' = [spent EXCEPT ![u] = row]
      BY <2>1, <2>3
    <3>2. /\ row \in [Versions -> Nat]
          /\ \A v \in Versions : row[v] = IF v = old THEN spent[u][v] + 1 ELSE spent[u][v]
      BY <2>1
    <3> HIDE DEF row, old, w
    <3> QED
      BY <2>1, <2>3, <3>1, <3>2 DEF old
  <2> QED
    BY <2>2, <2>3
<1>5. \A t \in tokens' : t.user \in People /\ t.ver \in Versions /\ t.pw \in Nat
  BY <1>2 DEF IInv, Types
<1>6. Types'
  BY <1>1, <1>3, <1>4, <1>5 DEF IInv, Types, Carried, RequestOK, Row, GrantType, KeyRow, NoKey
<1>7. Known'
  <2>1. \A t \in tokens' : user'[t.user].exists
    BY <1>1, <1>5 DEF IInv, Types, Known
  <2>2. \A k \in Keys : key'[k] # NoKey => user'[key'[k].owner].exists
    BY <1>1 DEF IInv, Types, Known, KeyRow
  <2>3. \A s \in Handlers : Running(s)' => /\ user'[handler'[s].user].exists
                                           /\ handler'[s].to # "-" => user'[handler'[s].to].exists
    BY <1>1 DEF IInv, Types, Known, Carried, RequestOK, Running
  <2>4. \A x \in People : ~user'[x].exists => \A v \in Versions : spent'[x][v] = 0
    BY <1>1, <1>4 DEF IInv, Known
  <2> QED
    BY <2>1, <2>2, <2>3, <2>4 DEF Known
<1> HIDE DEF w
<1>8. Copies'
  <2>1. ASSUME NEW x \in People, NEW ver, NEW pw, Behindhand(x, ver, pw)
        PROVE  Behindhand(x, ver, pw)'
    <3>1. CASE x # u
      BY <1>1, <1>3, <2>1, <3>1 DEF Behindhand
    <3>2. CASE x = u
      <4>1. ver \in used'[u]
        BY <1>3, <2>1, <3>2 DEF Behindhand
      <4>2. ver # w \/ ver \in mixed'[u]
        BY <1>3, <2>1, <3>2 DEF Behindhand
      <4> QED
        BY <1>1, <3>2, <4>1, <4>2 DEF Behindhand, w
    <3> QED
      BY <3>1, <3>2
  <2>2. ASSUME NEW t \in tokens' PROVE Behindhand(t.user, t.ver, t.pw)'
    <3>1. CASE t \in tokens
      BY <1>5, <2>1, <2>2, <3>1 DEF IInv, Copies
    <3>2. CASE t.user = u /\ t.ver = w /\ (~again => t.pw = r.password)
      BY <1>1, <1>3, <3>2 DEF Behindhand, w
    <3> QED
      BY <2>2, <3>1, <3>2 DEF w
  <2>3. ASSUME NEW s \in Handlers, Running(s)'
        PROVE  Behindhand(handler[s].user, handler[s].seen.version, handler[s].seen.password)'
    <3>1. /\ Running(s) /\ handler'[s].user = handler[s].user /\ handler'[s].seen = handler[s].seen
          /\ handler[s].user \in People
      BY <2>3 DEF IInv, Types, Carried, Running, RequestOK
    <3> DEFINE x == handler[s].user
               c == handler[s].seen
    <3>2. Behindhand(x, c.version, c.password)
      BY <3>1 DEF IInv, Copies
    <3>3. x' = x /\ c' = c
      BY <3>1
    <3>4. Behindhand(x, c.version, c.password)' <=>
             /\ c.version \in used'[x]
             /\ c.version = user'[x].version /\ c.version \notin mixed'[x] => c.password = user'[x].password
      BY <3>3 DEF Behindhand
    <3>5. /\ c.version \in used'[x]
          /\ c.version = user'[x].version /\ c.version \notin mixed'[x] => c.password = user'[x].password
      <4> HIDE DEF c, x
      <4>1. x \in People
        BY <3>1 DEF x
      <4>2. CASE x # u
        BY <1>1, <1>3, <3>2, <4>1, <4>2 DEF Behindhand
      <4>3. CASE x = u
        BY <1>1, <1>3, <3>2, <4>3 DEF Behindhand, w
      <4> QED
        BY <4>2, <4>3
    <3> QED
      BY <3>4, <3>5
  <2>4. \A x \in People : 0 \in used'[x] /\ user'[x].version \in used'[x]
    BY <1>1, <1>3 DEF IInv, Copies, w
  <2> QED
    BY <2>2, <2>3, <2>4 DEF Copies
<1>9. Exchanged'
  <2> SUFFICES ASSUME NEW x \in People, NEW v \in Versions, spent'[x][v] > 0
               PROVE  /\ v \in used'[x]
                      /\ v \notin mixed'[x] => spent'[x][v] = 1 /\ v # user'[x].version
    BY DEF Exchanged
  <2>1. /\ spent[x][v] \in Nat /\ v \in Nat
        /\ spent[x][v] > 0 => /\ v \in used[x]
                              /\ v \notin mixed[x] => spent[x][v] = 1 /\ v # user[x].version
    BY AccountsAssumption DEF IInv, Types, Exchanged, Versions
  <2>2. CASE spent'[x][v] = spent[x][v]
    BY <1>1, <1>3, <2>1, <2>2 DEF w
  <2>3. CASE x = u /\ v = user[u].version /\ spent'[x][v] = spent[x][v] + 1 /\ w = v + 1
    <3>1. v \in used[x] /\ w # v
      BY <1>2, <2>1, <2>3 DEF IInv, Copies
    <3>2. v \notin mixed'[x] => spent[x][v] = 0
      BY <1>3, <2>1, <2>3
    <3> QED
      BY <1>1, <1>3, <2>1, <2>3, <3>1, <3>2 DEF w
  <2> QED
    BY <1>4, <2>2, <2>3
<1>10. AdminRemains'
  BY <1>1 DEF IInv, AdminRemains
<1>11. GrantsContained'
  BY DEF IInv, GrantsContained
<1> QED
  BY <1>6, <1>7, <1>8, <1>9, <1>10, <1>11 DEF IInv

\* Writing the copy's version plus one and a new password.
LEMMA NewPasswordInv ==
    ASSUME IInv, NEW s \in Handlers, NEW u \in People, NEW c \in Row, user[u].exists,
           NEW db \in [People -> Row], \A x \in People : SameRow(db[x], user[x]),
           \A x \in People : x # u => db[x] = user[x],
           c.version < MaxVersion, Answer(s), user' = NewPassword(Bump(db, u, c), u),
           Given(u, c.version + 1, FALSE), UNCHANGED <<tokens, key, spent, minter, stale>>
    PROVE  IInv'
<1>1. user \in [People -> Row] /\ db[u] \in Row /\ SameRow(db[u], user[u])
  BY DEF IInv, Types
<1>2. c.version + 1 \in Versions /\ db[u].password + 1 \in Nat
  BY <1>1, AccountsAssumption DEF Row, Versions
<1> DEFINE b == [db[u] EXCEPT !.version = c.version + 1]
           r == [b EXCEPT !.password = @ + 1]
<1>3. /\ r \in Row /\ r.version = c.version + 1 /\ r.exists = user[u].exists
      /\ r.active = user[u].active /\ r.admin = user[u].admin
  BY <1>1, <1>2 DEF Row, SameRow
<1>4. user' = [db EXCEPT ![u] = r]
  <2> DEFINE m == Bump(db, u, c)
  <2>1. m = [db EXCEPT ![u] = b] /\ m[u] = b
    BY DEF Bump
  <2>2. user' = [m EXCEPT ![u] = r]
    <3> HIDE DEF m, b
    <3> QED
      BY <2>1 DEF NewPassword, m
  <2> HIDE DEF m, b, r
  <2> QED
    BY <2>1, <2>2
<1>5. user' = [user EXCEPT ![u] = r]
  <2> HIDE DEF r
  <2> QED
    BY <1>1, <1>4
<1>6. Given(u, r.version, FALSE)
  BY <1>3
<1>7. Carried /\ served' \in Nat
  BY EndCarries DEF IInv
<1> HIDE DEF r
<1> QED
  BY <1>3, <1>5, <1>6, <1>7, BumpInv

\* A password change ends the sessions: whatever is in flight loses.
LEMMA ChangePasswordInv ==
    ASSUME IInv, NEW s \in Handlers, NEW right \in BOOLEAN, change_password(s, right)
    PROVE  IInv'
<1> DEFINE c == handler[s].seen
           u == handler[s].user
           db == reset_failed_login(u, c)
<1>1. Running(s) /\ RequestOK(handler[s])
  BY InFlight DEF IInv, change_password, Ops, OwnerOps
<1>2. CASE Fails(s)
  BY <1>1, <1>2, FailsInv
<1>3. CASE Refuse(s)
  BY <1>3, RefuseInv
<1>4. CASE /\ Answer(s) /\ c.version < MaxVersion /\ user' = NewPassword(Bump(db, u, c), u)
           /\ Given(u, c.version + 1, FALSE) /\ UNCHANGED <<tokens, key, spent, minter, stale>>
  <2>1. u \in People /\ c \in Row /\ user[u].exists
    BY <1>1 DEF RequestOK, IInv, Known
  <2>2. db \in [People -> Row] /\ \A x \in People : SameRow(db[x], user[x])
    BY <2>1, ResetKeepsRows DEF IInv
  <2>3. \A x \in People : x # u => db[x] = user[x]
    BY <2>1 DEF reset_failed_login, IInv, Types
  <2> HIDE DEF u, c, db
  <2> QED
    BY <1>4, <2>1, <2>2, <2>3, NewPasswordInv
<1> QED
  BY <1>2, <1>3, <1>4 DEF change_password

\* An administrator's reset writes what the target's copy says, plus one.
LEMMA AdminResetInv ==
    ASSUME IInv, NEW s \in Handlers, admin_reset_password(s)
    PROVE  IInv'
<1> DEFINE c == handler[s].row
           u == handler[s].to
<1>1. Running(s) /\ RequestOK(handler[s])
  BY InFlight DEF IInv, admin_reset_password, Ops, AdminOps, TargetOps
<1>2. u \in People /\ c \in Row /\ user[u].exists
  BY <1>1 DEF RequestOK, IInv, Known, admin_reset_password
<1>3. user \in [People -> Row] /\ \A x \in People : SameRow(user[x], user[x])
  BY DEF IInv, Types, SameRow
<1>4. /\ Answer(s) /\ c.version < MaxVersion /\ user' = NewPassword(Bump(user, u, c), u)
      /\ Given(u, c.version + 1, FALSE) /\ UNCHANGED <<tokens, key, spent, minter, stale>>
  BY DEF admin_reset_password
<1> HIDE DEF u, c
<1> QED
  BY <1>2, <1>3, <1>4, NewPasswordInv

LEMMA LogoutInv ==
    ASSUME IInv, NEW s \in Handlers, logout(s)
    PROVE  IInv'
<1> DEFINE c == handler[s].seen
           u == handler[s].user
           r == [user[u] EXCEPT !.version = c.version + 1]
<1>1. Running(s) /\ RequestOK(handler[s])
  BY InFlight DEF IInv, logout, Ops, OwnerOps
<1>2. u \in People /\ c \in Row /\ user[u].exists /\ user[u] \in Row /\ user \in [People -> Row]
  BY <1>1 DEF RequestOK, IInv, Types, Known
<1>3. c.version + 1 \in Versions
  BY <1>2, AccountsAssumption DEF logout, Row, Versions
<1>4. r \in Row /\ r.version = c.version + 1 /\ r.exists = user[u].exists
      /\ r.active = user[u].active /\ r.admin = user[u].admin
  BY <1>2, <1>3 DEF Row
<1>5. user' = [user EXCEPT ![u] = r]
  BY <1>2 DEF logout, Bump
<1>6. Given(u, r.version, FALSE)
  BY <1>4 DEF logout
<1>7. Carried /\ served' \in Nat /\ UNCHANGED <<tokens, key, spent, minter, stale>>
  BY EndCarries DEF IInv, logout
<1> HIDE DEF u, c, r
<1> QED
  BY <1>2, <1>4, <1>5, <1>6, <1>7, BumpInv

\* Of the refreshes that loaded one version, the first to commit succeeds.
LEMMA RefreshInv ==
    ASSUME IInv, NEW s \in Handlers, refresh(s)
    PROVE  IInv'
<1> DEFINE c == handler[s].seen
           u == handler[s].user
           r == [user[u] EXCEPT !.version = c.version + 1]
           again == c.version \in mixed[u]
<1>1. Running(s) /\ RequestOK(handler[s])
  BY InFlight DEF IInv, refresh, Ops, TokenOps
<1>2. u \in People /\ c \in Row /\ user[u].exists /\ user[u] \in Row /\ user \in [People -> Row]
  BY <1>1 DEF RequestOK, IInv, Types, Known
<1>3. CASE Refuse(s)
  BY <1>3, RefuseInv
<1>4. CASE /\ user[u].version = c.version /\ c.version < MaxVersion /\ Answer(s)
           /\ user' = Bump(user, u, c)
           /\ spent' = [spent EXCEPT ![u][c.version] = @ + 1]
           /\ Given(u, c.version + 1, again)
           /\ tokens' = Issue(u, [c EXCEPT !.version = @ + 1])
           /\ UNCHANGED <<key, minter, stale>>
  <2>1. c.version + 1 \in Versions
    BY <1>2, <1>4, AccountsAssumption DEF Row, Versions
  <2>2. r \in Row /\ r.version = c.version + 1 /\ r.exists = user[u].exists
        /\ r.active = user[u].active /\ r.admin = user[u].admin /\ r.password = user[u].password
    BY <1>2, <2>1 DEF Row
  <2>3. user' = [user EXCEPT ![u] = r]
    BY <1>2, <1>4 DEF Bump
  <2>4. Carried /\ served' \in Nat
    BY <1>4, EndCarries DEF IInv
  <2>5. ~again => c.password = user[u].password
    BY <1>1, <1>4 DEF IInv, Copies, Behindhand
  <2>6. \A t \in tokens' : \/ t \in tokens
                           \/ /\ t.user = u /\ t.ver = r.version /\ t.pw \in Nat
                              /\ ~again => t.pw = r.password
    <3>1. /\ [c EXCEPT !.version = @ + 1].version = c.version + 1
          /\ [c EXCEPT !.version = @ + 1].password = c.password /\ c.password \in Nat
      BY <1>2 DEF Row
    <3> HIDE DEF r, again
    <3> QED
      BY <1>4, <2>2, <2>5, <3>1 DEF Issue, Token
  <2>7. Given(u, r.version, again) /\ again \in BOOLEAN /\ r.version = user[u].version + 1
    <3> HIDE DEF r
    <3> QED
      BY <1>4, <2>2
  <2>8. spent' = [spent EXCEPT ![u][user[u].version] = @ + 1] /\ UNCHANGED <<key, minter, stale>>
    BY <1>4
  <2> HIDE DEF u, c, r, again
  <2> QED
    BY <1>2, <2>2, <2>3, <2>4, <2>6, <2>7, <2>8, BumpInv
<1> QED
  BY <1>3, <1>4 DEF refresh

\* An administrator's request keeps a copy of the row it is going to change.
LEMMA LoadTargetInv ==
    ASSUME IInv, NEW s \in Handlers, NEW u \in People, LoadTarget(s, u)
    PROVE  IInv'
<1>1. Running(s) /\ RequestOK(handler[s])
  BY InFlight DEF IInv, LoadTarget, Ops, AdminOps, TargetOps, Serving
<1>2. CASE Refuse(s)
  BY <1>2, RefuseInv
<1> DEFINE c == IF u = handler[s].user THEN handler[s].seen ELSE user[u]
<1>3. CASE /\ user[u].exists /\ handler' = [handler EXCEPT ![s].to = u, ![s].row = c]
           /\ UNCHANGED <<user, tokens, key, served, versions, minter, stale>>
  <2>1. DOMAIN handler = Handlers /\ c \in Row
    BY <1>1 DEF IInv, Types, RequestOK
  <2> HIDE DEF c
  <2> DEFINE r == [handler[s] EXCEPT !.to = u, !.row = c]
  <2>2. RequestOK(r) /\ r.user = handler[s].user /\ r.seen = handler[s].seen /\ r.to = u
    BY <1>1, <2>1 DEF RequestOK
  <2>3. DOMAIN handler' = Handlers /\ handler'[s] = r /\ \A x \in Handlers : x # s => handler'[x] = handler[x]
    BY <1>3, <2>1
  <2>4. Carried
    <3> HIDE DEF r
    <3> QED
      BY <1>1, <1>3, <2>2, <2>3 DEF Carried, IInv, Types, Running
  <2>5. user' \in [People -> Row] /\ \A x \in People : Same(x)
    BY <1>3 DEF IInv, Types, Same, SameRow
  <2> QED
    BY <1>3, <2>4, <2>5, QuietInv DEF IInv, Types
<1> QED
  BY <1>2, <1>3 DEF LoadTarget

-----------------------------------------------------------------------------
(* User management.                                                        *)

\* A step that writes the row of one user and keeps version and password, or
\* makes the row of a user who had none.
LEMMA RowInv ==
    ASSUME IInv, NEW u \in People, NEW r \in Row, user' = [user EXCEPT ![u] = r], r.exists,
           Carried, served' \in Nat, UNCHANGED <<tokens, key, versions, minter>>,
           \/ ~user[u].exists /\ r.version = 0
           \/ r.version = user[u].version /\ r.password = user[u].password,
           stale' \in BOOLEAN, AdminRemains'
    PROVE  IInv'
<1>0. UNCHANGED <<spent, used, mixed>>
  BY DEF versions
<1>1. /\ user' \in [People -> Row] /\ user'[u] = r
      /\ \A x \in People : x # u => user'[x] = user[x]
  BY DEF IInv, Types
<1>2. Types'
  BY <1>0, <1>1 DEF IInv, Types, Carried, RequestOK, Row, GrantType, KeyRow, NoKey
<1>3. Known'
  <2>1. \A t \in tokens' : user'[t.user].exists
    BY <1>1 DEF IInv, Types, Known
  <2>2. \A k \in Keys : key'[k] # NoKey => user'[key'[k].owner].exists
    BY <1>1 DEF IInv, Types, Known, KeyRow
  <2>3. \A s \in Handlers : Running(s)' => /\ user'[handler'[s].user].exists
                                           /\ handler'[s].to # "-" => user'[handler'[s].to].exists
    BY <1>1 DEF IInv, Types, Known, Carried, RequestOK, Running
  <2>4. \A x \in People : ~user'[x].exists => \A v \in Versions : spent'[x][v] = 0
    BY <1>0, <1>1 DEF IInv, Known
  <2> QED
    BY <2>1, <2>2, <2>3, <2>4 DEF Known
<1>4. Copies'
  <2>1. ASSUME NEW t \in tokens' PROVE Behindhand(t.user, t.ver, t.pw)'
    <3>1. t \in tokens /\ t.user \in People /\ user[t.user].exists
      BY <2>1 DEF IInv, Types, Known
    <3> QED
      BY <1>0, <1>1, <3>1 DEF IInv, Copies, Behindhand
  <2>2. ASSUME NEW s \in Handlers, Running(s)'
        PROVE  Behindhand(handler[s].user, handler[s].seen.version, handler[s].seen.password)'
    <3>1. /\ Running(s) /\ handler'[s].user = handler[s].user /\ handler'[s].seen = handler[s].seen
          /\ handler[s].user \in People /\ user[handler[s].user].exists
      BY <2>2 DEF IInv, Types, Known, Carried, Running, RequestOK
    <3> QED
      BY <1>0, <1>1, <3>1 DEF IInv, Copies, Behindhand
  <2>3. \A x \in People : 0 \in used'[x] /\ user'[x].version \in used'[x]
    BY <1>0, <1>1 DEF IInv, Copies
  <2> QED
    BY <2>1, <2>2, <2>3 DEF Copies
<1>5. Exchanged'
  <2> SUFFICES ASSUME NEW x \in People, NEW v \in Versions, spent'[x][v] > 0
               PROVE  /\ v \in used'[x]
                      /\ v \notin mixed'[x] => spent'[x][v] = 1 /\ v # user'[x].version
    BY DEF Exchanged
  <2>1. CASE user[x].exists
    BY <1>0, <1>1, <2>1 DEF IInv, Exchanged
  <2>2. CASE ~user[x].exists
    BY <1>0, <2>2 DEF IInv, Known
  <2> QED
    BY <2>1, <2>2
<1>6. GrantsContained'
  BY DEF IInv, GrantsContained
<1> QED
  BY <1>2, <1>3, <1>4, <1>5, <1>6 DEF IInv

LEMMA RegisterInv ==
    ASSUME IInv, NEW s \in Handlers, NEW u \in People, NEW admin \in BOOLEAN, register(s, u, admin)
    PROVE  IInv'
<1>1. CASE Refuse(s)
  BY <1>1, RefuseInv
<1>2. CASE /\ ~user[u].exists /\ Answer(s) /\ user' = [user EXCEPT ![u] = NewUser(admin)]
           /\ UNCHANGED <<tokens, key, versions, minter, stale>>
  <2>1. NewUser(admin) \in Row /\ NewUser(admin).exists
    BY AccountsAssumption DEF NewUser, Row, Versions
  <2>2. AdminRemains'
    BY <1>2 DEF IInv, Types, AdminRemains
  <2>3. stale' \in BOOLEAN /\ NewUser(admin).version = 0
    BY <1>2 DEF IInv, Types, NewUser
  <2> QED
    BY <1>2, <2>1, <2>2, <2>3, EndCarries, RowInv DEF IInv
<1> QED
  BY <1>1, <1>2 DEF register

\* The caller of update_user and deactivate_user is an administrator still, or
\* the step is marked as decided on an outdated row.
LEMMA EditInv ==
    ASSUME IInv, NEW s \in Handlers, Running(s), handler[s].to # "-",
           NEW active \in BOOLEAN, NEW admin \in BOOLEAN,
           handler[s].to # handler[s].user \/ (active /\ admin), Edit(s, active, admin)
    PROVE  IInv'
<1> DEFINE u == handler[s].to
           me == handler[s].user
           on == IF active # handler[s].row.active THEN active ELSE user[u].active
           ad == IF admin # handler[s].row.admin THEN admin ELSE user[u].admin
           r == [user[u] EXCEPT !.active = on, !.admin = ad]
<1>1. /\ u \in People /\ me \in People /\ user[u].exists /\ user[me].exists
      /\ user[u] \in Row /\ user \in [People -> Row]
  BY DEF IInv, Types, RequestOK, Running, Known
<1>2. /\ on \in BOOLEAN /\ ad \in BOOLEAN
      /\ active /\ user[u].active => on
      /\ admin /\ user[u].admin => ad
  BY <1>1 DEF Row
<1>3. user' = [user EXCEPT ![u] = r]
  <2> HIDE DEF on, ad
  <2> QED
    BY <1>1 DEF Edit, on, ad
<1> HIDE DEF on, ad
<1>4. r \in Row /\ r.version = user[u].version /\ r.exists = user[u].exists
      /\ r.password = user[u].password /\ r.active = on /\ r.admin = ad
  BY <1>1, <1>2 DEF Row
<1>5. stale' \in BOOLEAN /\ (~stale' => user[me].active /\ user[me].admin)
  BY DEF Edit, Behind, IInv, Types
<1>6. AdminRemains'
  <2> SUFFICES ASSUME ~stale' PROVE user'[me].exists /\ user'[me].active /\ user'[me].admin
    BY <1>1 DEF AdminRemains
  <2>1. CASE u = me
    <3> HIDE DEF r
    <3> QED
      BY <1>1, <1>2, <1>3, <1>4, <1>5, <2>1
  <2>2. CASE u # me
    <3> HIDE DEF r
    <3> QED
      BY <1>1, <1>3, <1>5, <2>2
  <2> QED
    BY <2>1, <2>2
<1>7. Carried /\ served' \in Nat /\ UNCHANGED <<tokens, key, versions, minter>>
  BY EndCarries DEF IInv, Edit
<1> HIDE DEF r, u
<1> QED
  BY <1>1, <1>3, <1>4, <1>5, <1>6, <1>7, RowInv

LEMMA UpdateUserInv ==
    ASSUME IInv, NEW s \in Handlers, NEW active \in BOOLEAN, NEW admin \in BOOLEAN,
           update_user(s, active, admin)
    PROVE  IInv'
<1>1. Running(s)
  BY InFlight DEF IInv, update_user, Ops, AdminOps, TargetOps
<1>2. CASE Refuse(s)
  BY <1>2, RefuseInv
<1> QED
  BY <1>1, <1>2, EditInv DEF update_user

LEMMA DeactivateUserInv ==
    ASSUME IInv, NEW s \in Handlers, deactivate_user(s)
    PROVE  IInv'
<1>1. Running(s) /\ RequestOK(handler[s])
  BY InFlight DEF IInv, deactivate_user, Ops, AdminOps, TargetOps
<1>2. CASE Refuse(s)
  BY <1>2, RefuseInv
<1>3. handler[s].row.admin \in BOOLEAN
  BY <1>1 DEF RequestOK, Row
<1> QED
  BY <1>1, <1>2, <1>3, EditInv DEF deactivate_user

-----------------------------------------------------------------------------
(* API keys.                                                               *)

\* Steps that write one key, within the grants of those who minted it.
LEMMA KeyInv ==
    ASSUME IInv, NEW k \in Keys, NEW row \in KeyRow \cup {NoKey}, NEW by \in [scopes : GrantType, boxes : GrantType],
           key' = [key EXCEPT ![k] = row], minter' = [minter EXCEPT ![k] = by],
           row # NoKey => /\ user[row.owner].exists
                          /\ row.scopes \subseteq by.scopes.scopes
                          /\ row.boxes \subseteq by.boxes.boxes,
           Carried, served' \in Nat, UNCHANGED <<user, tokens, versions, stale>>
    PROVE  IInv'
<1>1. /\ key' \in [Keys -> KeyRow \cup {NoKey}] /\ minter' \in [Keys -> [scopes : GrantType, boxes : GrantType]]
      /\ key'[k] = row /\ minter'[k] = by
      /\ \A x \in Keys : x # k => key'[x] = key[x] /\ minter'[x] = minter[x]
  BY DEF IInv, Types
<1>0. UNCHANGED <<spent, used, mixed>>
  BY DEF versions
<1>2. Types'
  BY <1>0, <1>1 DEF IInv, Types, Carried, RequestOK, Row, GrantType, KeyRow, NoKey
<1>3. Known'
  BY <1>0, <1>1 DEF IInv, Types, Known, Carried, Running
<1>4. Copies'
  BY <1>0 DEF IInv, Types, Copies, Behindhand, Carried, Running
<1>5. Exchanged' /\ AdminRemains'
  BY <1>0 DEF IInv, Exchanged, AdminRemains
<1>6. GrantsContained'
  BY <1>1 DEF IInv, GrantsContained
<1> QED
  BY <1>2, <1>3, <1>4, <1>5, <1>6 DEF IInv

\* An empty choice asks for everything there is.
LEMMA NormalType ==
    ASSUME NEW g \in Grants
    PROVE  Normal(g).scopes \in SUBSET Scopes /\ Normal(g).boxes \in SUBSET Inboxes
BY DEF Grants, Normal

LEMMA CreateKeyInv ==
    ASSUME IInv, NEW s \in Handlers, NEW k \in Keys, NEW asked \in Grants, create_api_key(s, k, asked)
    PROVE  IInv'
<1> DEFINE g == Normal(asked)
           row == [owner |-> handler[s].user, scopes |-> g.scopes, boxes |-> g.boxes]
<1>1. Running(s) /\ RequestOK(handler[s])
  BY InFlight DEF IInv, create_api_key, Ops, KeyOps
<1>2. CASE Refuse(s)
  BY <1>2, RefuseInv
<1>3. CASE /\ enforce_grant_within_caller(g, handler[s].caller) /\ Answer(s)
           /\ key' = [key EXCEPT ![k] = row] /\ minter' = [minter EXCEPT ![k] = By(handler[s].caller, handler[s].caller)]
           /\ UNCHANGED <<user, tokens, versions, stale>>
  <2>1. row \in KeyRow /\ user[row.owner].exists
    BY <1>1, NormalType DEF KeyRow, RequestOK, IInv, Known
  <2>2. row.scopes \subseteq handler[s].caller.scopes /\ row.boxes \subseteq handler[s].caller.boxes
    BY <1>3 DEF enforce_grant_within_caller, Within
  <2>3. /\ By(handler[s].caller, handler[s].caller) \in [scopes : GrantType, boxes : GrantType]
        /\ By(handler[s].caller, handler[s].caller).scopes = handler[s].caller
        /\ By(handler[s].caller, handler[s].caller).boxes = handler[s].caller
    BY <1>1 DEF RequestOK, By
  <2>4. Carried /\ served' \in Nat
    BY <1>3, EndCarries DEF IInv
  <2> HIDE DEF row
  <2> QED
    BY <1>3, <2>1, <2>2, <2>3, <2>4, KeyInv
<1> QED
  BY <1>2, <1>3 DEF create_api_key

\* The edit of a key from an old copy of it: what is written is within the
\* editor's grant, what is left was within an earlier one's.
LEMMA UpdateKeyInv ==
    ASSUME IInv, NEW s \in Handlers, NEW asked \in Grants, NEW f \in SUBSET {"scopes", "boxes"},
           update_api_key(s, f, asked)
    PROVE  IInv'
<1> DEFINE n == Normal(asked)
           k == handler[s].id
           c == handler[s].key
           me == handler[s].caller
           g == [scopes |-> IF "scopes" \in f THEN n.scopes ELSE c.scopes,
                 boxes |-> IF "boxes" \in f THEN n.boxes ELSE c.boxes]
           sc == IF "scopes" \in f THEN g.scopes ELSE key[k].scopes
           bx == IF "boxes" \in f THEN g.boxes ELSE key[k].boxes
           row == [key[k] EXCEPT !.scopes = sc, !.boxes = bx]
           asSeen == row.scopes = g.scopes /\ row.boxes = g.boxes
           ms == IF "scopes" \in f \/ asSeen THEN me ELSE minter[k].scopes
           mb == IF "boxes" \in f \/ asSeen THEN me ELSE minter[k].boxes
           by == [minter[k] EXCEPT !.scopes = ms, !.boxes = mb]
<1>1. Running(s) /\ RequestOK(handler[s])
  BY InFlight DEF IInv, update_api_key, Ops, KeyOps
<1>2. CASE Refuse(s)
  BY <1>2, RefuseInv
<1>3. CASE /\ c # NoKey /\ key[k] # NoKey /\ enforce_grant_within_caller(g, me) /\ Answer(s)
           /\ key' = [key EXCEPT ![k] = row]
           /\ minter' = [minter EXCEPT ![k].scopes = ms, ![k].boxes = mb]
           /\ UNCHANGED <<user, tokens, versions, stale>>
  <2>1. /\ k \in Keys /\ key[k] \in KeyRow /\ user[key[k].owner].exists /\ me \in GrantType
        /\ minter[k] \in [scopes : GrantType, boxes : GrantType]
        /\ minter \in [Keys -> [scopes : GrantType, boxes : GrantType]]
    BY <1>1, <1>3 DEF RequestOK, IInv, Types, Known
  <2>2. /\ g.scopes \subseteq me.scopes /\ g.boxes \subseteq me.boxes
        /\ key[k].scopes \subseteq minter[k].scopes.scopes /\ key[k].boxes \subseteq minter[k].boxes.boxes
    BY <1>3, <2>1 DEF enforce_grant_within_caller, Within, IInv, GrantsContained
  <2>3. row \in KeyRow /\ row.owner = key[k].owner /\ row.scopes = sc /\ row.boxes = bx
    <3>1. sc \in SUBSET Scopes /\ bx \in SUBSET Inboxes
      BY <2>1, NormalType DEF KeyRow
    <3> HIDE DEF sc, bx
    <3> QED
      BY <2>1, <3>1 DEF KeyRow
  <2> HIDE DEF row, g, k
  <2>4. ms \in GrantType /\ mb \in GrantType /\ sc \subseteq ms.scopes /\ bx \subseteq mb.boxes
    BY <2>1, <2>2, <2>3
  <2> HIDE DEF ms, mb, sc, bx
  <2>5. /\ by \in [scopes : GrantType, boxes : GrantType] /\ by.scopes = ms /\ by.boxes = mb
        /\ minter' = [minter EXCEPT ![k] = by]
    BY <1>3, <2>1, <2>4
  <2>6. Carried /\ served' \in Nat
    BY <1>3, EndCarries DEF IInv
  <2> HIDE DEF by
  <2> QED
    BY <1>3, <2>1, <2>3, <2>4, <2>5, <2>6, KeyInv
<1> QED
  BY <1>2, <1>3 DEF update_api_key

LEMMA RevokeKeyInv ==
    ASSUME IInv, NEW s \in Handlers, NEW k \in Keys, revoke_api_key(s, k)
    PROVE  IInv'
<1>1. CASE Refuse(s)
  BY <1>1, RefuseInv
<1>2. CASE ~Refuse(s)
  <2>1. /\ Answer(s) /\ key' = [key EXCEPT ![k] = NoKey] /\ minter' = [minter EXCEPT ![k] = By(NoGrant, NoGrant)]
        /\ UNCHANGED <<user, tokens, versions, stale>>
    BY <1>2 DEF revoke_api_key
  <2>2. By(NoGrant, NoGrant) \in [scopes : GrantType, boxes : GrantType]
    BY DEF By, NoGrant, GrantType
  <2> QED
    BY <2>1, <2>2, EndCarries, KeyInv DEF IInv
<1> QED
  BY <1>1, <1>2

\* update_api_key keeps a copy of the key it is going to edit.
LEMMA LoadKeyInv ==
    ASSUME IInv, NEW s \in Handlers, NEW k \in Keys, LoadApiKey(s, k)
    PROVE  IInv'
<1>1. Running(s) /\ RequestOK(handler[s])
  BY InFlight DEF IInv, LoadApiKey, Ops, KeyOps
<1>2. CASE Refuse(s)
  BY <1>2, RefuseInv
<1>3. CASE /\ handler' = [handler EXCEPT ![s].key = key[k], ![s].id = k]
           /\ UNCHANGED <<user, tokens, key, served, versions, minter, stale>>
  <2> DEFINE r == [handler[s] EXCEPT !.key = key[k], !.id = k]
  <2>1. DOMAIN handler = Handlers /\ key[k] \in KeyRow \cup {NoKey}
    BY DEF IInv, Types
  <2>2. RequestOK(r) /\ r.user = handler[s].user /\ r.seen = handler[s].seen /\ r.to = handler[s].to
    BY <1>1, <2>1 DEF RequestOK
  <2>3. DOMAIN handler' = Handlers /\ handler'[s] = r /\ \A x \in Handlers : x # s => handler'[x] = handler[x]
    BY <1>3, <2>1
  <2>5. Carried
    <3> HIDE DEF r
    <3> QED
      BY <1>1, <2>2, <2>3 DEF Carried, IInv, Types, Running
  <2>6. user' \in [People -> Row] /\ \A x \in People : Same(x)
    BY <1>3 DEF IInv, Types, Same, SameRow
  <2> QED
    BY <1>3, <2>5, <2>6, QuietInv DEF IInv, Types
<1> QED
  BY <1>2, <1>3 DEF LoadApiKey

-----------------------------------------------------------------------------
(* Loading, the clock and the restart.                                     *)

\* A request starts with the row as it is, for a user who has one.
LEMMA BeginInv ==
    ASSUME IInv, NEW s \in Handlers, NEW op \in Ops, NEW u \in People, NEW grant \in GrantType,
           user[u].exists, Arrive(s, Request(op, u, grant))
    PROVE  IInv'
<1> DEFINE r == Request(op, u, grant)
<1>1. RequestOK(r) /\ r.user = u /\ r.seen = user[u] /\ r.to = "-" /\ r # Vacant
  <2>1. user[u] \in Row
    BY DEF IInv, Types
  <2>2. r.op # Vacant.op
    BY DEF Request, Vacant, Ops, TokenOps, OwnerOps, KeyOps, AdminOps, TargetOps
  <2> QED
    BY <2>1, <2>2 DEF Request, RequestOK
<1>2. /\ DOMAIN handler' = Handlers /\ handler'[s] = r /\ \A x \in Handlers : x # s => handler'[x] = handler[x]
      /\ served' \in Nat /\ UNCHANGED <<user, tokens, key, spent, used, mixed, minter, stale>>
  BY DEF Arrive, IInv, Types, versions
<1> HIDE DEF r
<1>3. Types'
  <2>1. \A x \in Handlers : handler'[x] = Vacant \/ RequestOK(handler'[x])
    BY <1>1, <1>2 DEF IInv, Types
  <2> QED
    BY <1>2, <2>1 DEF IInv, Types, RequestOK, Row, GrantType, KeyRow, NoKey
<1>4. Known'
  BY <1>1, <1>2 DEF IInv, Known, Running
<1>5. Copies'
  <2>1. user[u].version \in Nat
    BY RowFacts DEF IInv, Types
  <2> QED
    BY <1>1, <1>2, <2>1 DEF IInv, Copies, Running, Behindhand
<1>6. Exchanged' /\ AdminRemains' /\ GrantsContained'
  BY <1>2 DEF IInv, Exchanged, AdminRemains, GrantsContained
<1> QED
  BY <1>3, <1>4, <1>5, <1>6 DEF IInv

LEMMA LoadInv ==
    ASSUME IInv, NEW s \in Handlers, Load(s)
    PROVE  IInv'
<1>1. Session \in GrantType
  BY DEF Session, GrantType
<1>2. CASE \E u \in People : LoadByName(s, u)
  BY <1>1, <1>2, BeginInv DEF LoadByName, Ops
<1>3. CASE \E t \in tokens, op \in TokenOps : LoadByToken(s, op, t)
  BY <1>1, <1>3, BeginInv DEF LoadByToken, Ops, IInv, Types, Known
<1>4. CASE \E t \in tokens, op \in OwnerOps \cup KeyOps \cup AdminOps : get_auth_session(s, op, t)
  BY <1>1, <1>4, BeginInv DEF get_auth_session, Ops, IInv, Types, Known
<1>5. CASE \E k \in Keys, op \in OwnerOps \cup KeyOps \cup AdminOps : get_auth_key(s, op, k)
  <2>1. PICK k \in Keys, op \in OwnerOps \cup KeyOps \cup AdminOps : get_auth_key(s, op, k)
    BY <1>5
  <2>2. key[k] \in KeyRow /\ user[key[k].owner].exists
    BY <2>1 DEF get_auth_key, IInv, Types, Known
  <2>3. Grant(k) \in GrantType
    BY <2>2 DEF KeyRow, Grant, GrantType
  <2> QED
    BY <2>1, <2>2, <2>3, BeginInv DEF get_auth_key, Ops, KeyRow
<1> QED
  BY <1>2, <1>3, <1>4, <1>5 DEF Load

LEMMA LockExpiresInv ==
    ASSUME IInv, NEW u \in People, LockExpires(u)
    PROVE  IInv'
<1> DEFINE r == [user[u] EXCEPT !.locked = "over"]
<1>1. user \in [People -> Row] /\ user[u] \in Row /\ user' = [user EXCEPT ![u] = r]
  BY DEF IInv, Types, LockExpires
<1>2. r \in Row /\ SameRow(r, user[u])
  BY <1>1 DEF Row, SameRow
<1> HIDE DEF r
<1>3. user' \in [People -> Row] /\ \A x \in People : Same(x)
  BY <1>1, <1>2 DEF Same, SameRow
<1>4. Carried /\ served' \in Nat
  BY DEF LockExpires, Carried, IInv, Types, Running
<1> QED
  BY <1>3, <1>4, QuietInv DEF LockExpires

LEMMA NewSecretKeyInv ==
    ASSUME IInv, NewSecretKey
    PROVE  IInv'
<1> DEFINE r(u) == [user[u] EXCEPT !.secret = IF @ = "good" THEN "lost" ELSE @]
<1>1. \A u \in People : user[u] \in Row
  BY DEF IInv, Types
<1>2. ASSUME NEW u \in People PROVE r(u) \in Row /\ SameRow(r(u), user[u])
  <2>1. user[u] \in Row
    BY <1>1
  <2>2. CASE user[u].secret = "good"
    BY <2>1, <2>2 DEF Row, SameRow
  <2>3. CASE user[u].secret # "good"
    BY <2>1, <2>3 DEF Row, SameRow
  <2> QED
    BY <2>2, <2>3
<1>3. user' = [u \in People |-> r(u)]
  BY DEF NewSecretKey
<1> HIDE DEF r
<1>4. user' \in [People -> Row] /\ \A x \in People : Same(x)
  BY <1>2, <1>3 DEF Same
<1>5. Carried /\ served' \in Nat
  BY DEF NewSecretKey, Carried, IInv, Types
<1> QED
  BY <1>4, <1>5, QuietInv DEF NewSecretKey

-----------------------------------------------------------------------------
LEMMA InitInv == AccountsInit => IInv
<1> SUFFICES ASSUME AccountsInit PROVE IInv
  OBVIOUS
<1>1. PICK a \in People : user = [u \in People |-> [NewUser(TRUE) EXCEPT !.exists = (u = a)]]
  BY DEF AccountsInit, Start
<1>2. /\ user \in [People -> Row] /\ user[a].exists /\ user[a].active /\ user[a].admin
      /\ \A u \in People : user[u].version = 0 /\ user[u].password = 0
  <2> DEFINE r(u) == [NewUser(TRUE) EXCEPT !.exists = (u = a)]
  <2>1. ASSUME NEW u \in People
        PROVE  /\ r(u) \in Row /\ r(u).exists = (u = a) /\ r(u).active /\ r(u).admin
               /\ r(u).version = 0 /\ r(u).password = 0
    <3> DEFINE e == (u = a)
    <3>1. e \in BOOLEAN /\ 0 \in Versions
      BY AccountsAssumption DEF Versions
    <3>2. /\ NewUser(TRUE) \in Row /\ NewUser(TRUE).active /\ NewUser(TRUE).admin
          /\ NewUser(TRUE).version = 0 /\ NewUser(TRUE).password = 0
      BY <3>1 DEF NewUser, Row
    <3> HIDE DEF e
    <3>3. ASSUME NEW w \in Row
          PROVE  LET x == [w EXCEPT !.exists = e]
                 IN  /\ x \in Row /\ x.exists = e /\ x.active = w.active /\ x.admin = w.admin
                     /\ x.version = w.version /\ x.password = w.password
      BY <3>1 DEF Row
    <3> QED
      BY <3>2, <3>3 DEF e
  <2>2. user = [u \in People |-> r(u)]
    BY <1>1
  <2> HIDE DEF r
  <2> QED
    BY <2>1, <2>2
<1>3. \A t \in tokens : /\ t.user \in People /\ user[t.user].exists
                        /\ t.ver = user[t.user].version /\ t.pw = user[t.user].password
  <2> SUFFICES ASSUME NEW t \in tokens
               PROVE  /\ t.user \in People /\ user[t.user].exists
                      /\ t.ver = user[t.user].version /\ t.pw = user[t.user].password
    OBVIOUS
  <2>1. PICK u \in People, ty \in {"access", "refresh"} : user[u].exists /\ t = Token(u, ty, user[u])
    BY DEF AccountsInit, Start
  <2> QED
    BY <2>1 DEF Token
<1>4. Types
  <2>1. By(NoGrant, NoGrant) \in [scopes : GrantType, boxes : GrantType]
    BY DEF By, NoGrant, GrantType
  <2> QED
    <3>1. 0 \in Versions /\ 0 \in Nat
      BY AccountsAssumption DEF Versions
    <3>2. /\ spent \in [People -> [Versions -> Nat]] /\ used \in [People -> SUBSET Versions]
          /\ mixed \in [People -> SUBSET Versions] /\ stale \in BOOLEAN /\ served \in Nat
          /\ DOMAIN handler = Handlers /\ \A s \in Handlers : handler[s] = Vacant
      BY <3>1 DEF AccountsInit, Start
    <3>3. \A t \in tokens : t.user \in People /\ t.ver \in Versions /\ t.pw \in Nat
      BY <1>2, <1>3, <3>1
    <3> QED
      BY <1>2, <2>1, <3>2, <3>3 DEF AccountsInit, Types
<1>5. Known
  BY <1>3 DEF AccountsInit, Start, Known, Running
<1>6. Copies
  <2>1. \A t \in tokens : Behindhand(t.user, t.ver, t.pw)
    BY <1>2, <1>3 DEF AccountsInit, Start, Behindhand
  <2>2. \A s \in Handlers : ~Running(s)
    BY DEF AccountsInit, Start, Running
  <2> QED
    BY <1>2, <2>1, <2>2 DEF AccountsInit, Start, Copies
<1>7. Exchanged
  BY DEF AccountsInit, Start, Exchanged
<1>8. AdminRemains
  BY <1>2 DEF AdminRemains
<1>9. GrantsContained
  BY DEF AccountsInit, GrantsContained
<1> QED
  BY <1>4, <1>5, <1>6, <1>7, <1>8, <1>9 DEF IInv

LEMMA HandleInv ==
    ASSUME IInv, NEW s \in Handlers, Handle(s)
    PROVE  IInv'
<1>1. CASE \E right \in BOOLEAN : login(s, right) \/ change_password(s, right)
  BY <1>1, LoginInv, ChangePasswordInv
<1>2. CASE \E right \in BOOLEAN, ok \in BOOLEAN : totp_disable(s, right, ok)
  BY <1>2, TotpInv
<1>3. CASE \E ok \in BOOLEAN : login_2fa(s, ok) \/ totp_confirm(s, ok)
  BY <1>3, Login2faInv, TotpInv
<1>4. CASE refresh(s) \/ logout(s) \/ totp_setup(s)
  BY <1>4, RefreshInv, LogoutInv, TotpInv
<1>5. CASE \E k \in Keys : \/ LoadApiKey(s, k) \/ revoke_api_key(s, k)
                           \/ \E g \in Grants : create_api_key(s, k, g)
  BY <1>5, LoadKeyInv, RevokeKeyInv, CreateKeyInv
<1>6. CASE \E g \in Grants, f \in SUBSET {"scopes", "boxes"} : update_api_key(s, f, g)
  BY <1>6, UpdateKeyInv
<1>7. CASE \/ admin_reset_password(s) \/ deactivate_user(s)
           \/ \E active \in BOOLEAN, admin \in BOOLEAN : update_user(s, active, admin)
  BY <1>7, AdminResetInv, DeactivateUserInv, UpdateUserInv
<1>8. CASE \E u \in People : LoadTarget(s, u) \/ \E admin \in BOOLEAN : register(s, u, admin)
  BY <1>8, LoadTargetInv, RegisterInv
<1> QED
  BY <1>1, <1>2, <1>3, <1>4, <1>5, <1>6, <1>7, <1>8 DEF Handle

LEMMA StepInv == IInv /\ [AccountsNext]_accountVars => IInv'
<1> SUFFICES ASSUME IInv, [AccountsNext]_accountVars PROVE IInv'
  OBVIOUS
<1>1. CASE UNCHANGED accountVars
  BY <1>1 DEF accountVars, IInv, Types, Known, Copies, Exchanged, AdminRemains, GrantsContained,
              Running, Behindhand, RequestOK
<1>2. ASSUME NEW s \in Handlers, Load(s) \/ Handle(s) PROVE IInv'
  BY <1>2, LoadInv, HandleInv
<1>3. CASE \E u \in People : LockExpires(u)
  BY <1>3, LockExpiresInv
<1>4. CASE NewSecretKey
  BY <1>4, NewSecretKeyInv
<1> QED
  BY <1>1, <1>2, <1>3, <1>4 DEF AccountsNext

LEMMA Invariant == AccountsSpec => []IInv
BY InitInv, StepInv, PTL DEF AccountsSpec

-----------------------------------------------------------------------------
\* A token that is accepted belongs to the current password, and no version
\* is exchanged twice by refresh, but for the version numbers that handlers
\* with outdated copies wrote again: for any number of overlapping logins,
\* refreshes, changes and resets.
THEOREM SessionsAlwaysSound == AccountsSpec => []SessionsSound
<1>1. IInv => SessionsSound
  BY DEF IInv, Types, Copies, Exchanged, Behindhand, SessionsSound, SessionsOfThePassword, RefreshedOnce,
         Accepted
<1> QED
  BY Invariant, <1>1, PTL

\* No sequence of create, update and revoke, by sessions or by keys, from
\* current or from old copies of a key, gives a key a scope or a mailbox that
\* none of its minters and editors had.
THEOREM GrantsAlwaysContained == AccountsSpec => []GrantsContained
<1>1. IInv => GrantsContained
  BY DEF IInv
<1> QED
  BY Invariant, <1>1, PTL

\* As long as administrators decide on their current row, one remains.
THEOREM AdminAlwaysRemains == AccountsSpec => []AdminRemains
<1>1. IInv => AdminRemains
  BY DEF IInv
<1> QED
  BY Invariant, <1>1, PTL

=============================================================================
