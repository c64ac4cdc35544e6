-------------------------- MODULE SandboxProviders --------------------------
(***************************************************************************)
(* The provider accounts of the messaging sandbox (backend/app/sandbox     *)
(* service.py, admin.py): every emulated API first resolves the account of *)
(* its credential, awaits the body, and then works with the loaded row,    *)
(* which another request may have deleted meanwhile.  Foreign keys are on: *)
(* an insert for a deleted account fails, and deleting an account deletes  *)
(* everything below it (Sandbox.tla).                                      *)
(***************************************************************************)
EXTENDS Naturals, Sequences, FiniteSets

CONSTANTS
    Scenarios,       \* an interface, the emulated APIs of accounts 1, 2, ..., and how
                     \* many requests they get, with how many webhook endpoints
    Rows,            \* bound: ids of the rows of each table
    Slots            \* requests that can be in flight at once

ASSUME ProvidersAssumption == Slots \subseteq Nat /\ Rows \subseteq Nat \ {0}

VARIABLES
    part,        \* which interface this behaviour exercises
    provider,    \* rows of SandboxProvider; "unused" ids were never inserted
    req,         \* handlers in flight, with what they loaded
    budget,      \* bound: requests that are still to come
    restarts     \* restarts of the process so far

baseVars == <<part, provider, req, budget, restarts>>

PhoneApis == {"twilio", "telnyx", "plivo", "bandwidth", "vonage"}
ChatApis == {"telegram", "slack", "discord", "mattermost", "whatsapp"}
Apis == PhoneApis \cup ChatApis

Providers == DOMAIN provider
Idle == [op |-> "idle"]

\* Ids are never used again: a row is absent before its insert, then deleted.
None == [provider |-> 0]
Deleted == [provider |-> 0, deleted |-> TRUE]
Present(table, i) == table[i].provider # 0
FreeRow(table) == {i \in DOMAIN table : table[i] = None}
Cascade(table, p) == [i \in DOMAIN table |-> IF table[i].provider = p THEN Deleted ELSE table[i]]
First(S) == CHOOSE i \in S : \A j \in S : i <= j
InOrder(S) == [k \in 1..Cardinality(S) |-> CHOOSE i \in S : Cardinality({j \in S : j < i}) = k - 1]

Live(p) == provider[p].state = "live"

\* The first active row of the type whose credential matches; the credential
\* of an account is its "cred", so an earlier twin shadows it.
resolve_provider_by_credential(api, cred) ==
    LET match == {p \in Providers : /\ Live(p) /\ provider[p].active
                                    /\ provider[p].api = api /\ provider[p].cred = cred}
    IN  {p \in match : \A q \in match : p <= q}

Resolves(p) == p \in resolve_provider_by_credential(provider[p].api, provider[p].cred)

\* A handler that got as far as an await, with what it has loaded.  Slots are
\* interchangeable, so the first free one is taken.
Begin(s, r) ==
    /\ req[s] = Idle /\ \A t \in Slots : req[t] = Idle => s <= t
    /\ budget > 0
    /\ req' = [req EXCEPT ![s] = r]
    /\ budget' = budget - 1
    /\ UNCHANGED <<part, provider, restarts>>

At(s, op) == req[s].op = op
End(s) == req' = [req EXCEPT ![s] = Idle] /\ UNCHANGED <<part, provider, budget, restarts>>
Goto(s, r) == req' = [req EXCEPT ![s] = r] /\ UNCHANGED <<part, provider, budget, restarts>>

-----------------------------------------------------------------------------
(* Administration of accounts.  Each is one load and one commit of columns *)
(* nobody else computes from, so a step.                                   *)

Administer(rows) ==
    /\ budget > 0 /\ budget' = budget - 1
    /\ provider' = rows
    /\ UNCHANGED <<part, req, restarts>>

Fresh == {p \in Providers : provider[p].state = "unused"}

create_provider(p, cred) ==
    /\ p \in Fresh
    /\ Administer([provider EXCEPT ![p].state = "live", ![p].cred = cred])

update_provider(p, cred, active) ==
    /\ Live(p)
    /\ Administer([provider EXCEPT ![p].cred = cred, ![p].active = active])

\* The row only; Sandbox adds the cascade.
delete_provider(p) ==
    /\ Live(p)
    /\ Administer([provider EXCEPT ![p].state = "gone"])

\* seed_providers upserts: the row with the identity is reactivated, and only
\* when there is none is one inserted.
seed_providers(api, cred) ==
    LET match == {p \in Providers : Live(p) /\ provider[p].api = api /\ provider[p].cred = cred}
    IN  IF match # {}
        THEN \E p \in match : /\ \A q \in match : p <= q
                              /\ Administer([provider EXCEPT ![p].active = TRUE])
        ELSE \E p \in Fresh : /\ provider[p].api = api
                              /\ Administer([provider EXCEPT ![p].state = "live", ![p].cred = cred])

AdministerStep ==
    \/ \E p \in Providers, c \in Providers : create_provider(p, c)
    \/ \E p \in Providers, c \in Providers, a \in BOOLEAN : update_provider(p, c, a)
    \/ \E a \in Apis, c \in Providers : seed_providers(a, c)

\* Account 1 exists; the others may be inserted later.
BaseInit(c) ==
    /\ part = c.part /\ budget = c.requests
    /\ provider = [p \in DOMAIN c.apis |-> [state |-> IF p = 1 THEN "live" ELSE "unused",
                                            active |-> TRUE, api |-> c.apis[p], cred |-> p]]
    /\ req = [s \in Slots |-> Idle]
    /\ restarts = 0
=============================================================================
