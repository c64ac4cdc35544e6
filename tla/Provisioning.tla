---------------------------- MODULE Provisioning ----------------------------
(***************************************************************************)
(* The backend's administration of the mail server: mailboxes and domains, *)
(* files rendered from tables, GPG keys and DNS checks.  They share the    *)
(* process, so a restart ends the requests of the one a behaviour is about.*)
(***************************************************************************)
EXTENDS Mailboxes, ConfigFiles, GpgKeys, DomainDns, TLC

CONSTANTS Budget, MaxRestarts    \* bounds: requests by interface; restarts
VARIABLE restarts

vars == <<requestVars, mailboxVars, configVars, keyVars, dnsVars, restarts>>

Init ==
    /\ \E name \in DOMAIN Budget : RequestsInit(name, Budget[name])
    /\ IF part = "mailboxes" THEN MailboxesInit ELSE MailboxesInit /\ ~production /\ row[CHOOSE b \in Boxes : TRUE].owner = Admin
    /\ ConfigInit /\ KeysInit /\ restarts = 0
    /\ IF part = "dns" THEN DnsInit
       ELSE DnsInit /\ zone.spf = (CHOOSE r \in SpfRecords : TRUE) /\ zone.txt = "right" /\ relays = {} /\ \A h \in Relays : names[h].ptr

Only(name) ==
    /\ part = name /\ UNCHANGED restarts
    /\ name # "mailboxes" => UNCHANGED mailboxVars
    /\ name # "files" => UNCHANGED configVars
    /\ name # "keys" => UNCHANGED keyVars
    /\ name # "dns" => UNCHANGED dnsVars

Restart ==
    /\ restarts < MaxRestarts /\ restarts' = restarts + 1
    /\ req' = [s \in Slots |-> Idle] /\ UNCHANGED <<part, budget, overlap>>
    /\ RestartMailboxes /\ RestartConfig /\ KeysRestart /\ DnsRestart

Next ==
    \/ Only("mailboxes") /\ MailboxesStep
    \/ Only("files") /\ ConfigStep
    \/ Only("keys") /\ KeysStep
    \/ Only("dns") /\ DnsStep
    \/ Restart

Spec == Init /\ [][Next]_vars
-----------------------------------------------------------------------------
\* A mailbox is provisioned in all its places or in none, the mailboxes the quota
\* counts stay within it, and what is listed can be opened.
MailboxesConsistent == ProvisionedTogether /\ QuotaKept /\ ListedIsAccessible

\* With no request under way the files say what the tables say: domains, aliases,
\* tunnels and the certificate, also after a restart.
FilesCurrent == DomainConfigCurrent /\ RenderedAtRest

\* Keys in the shared keyring stay usable to their owners, and a signature is made by
\* the key of the address that signs.
KeysSound == PrivateKeysUsable /\ SignaturesByMaker

-----------------------------------------------------------------------------
(* Values of the runs.                                                     *)

Symmetry == Permutations(Slots)
MCDomainOf(b) == "d1"
MCBudget == [mailboxes |-> 3, files |-> 3, keys |-> 4, dns |-> 2]
\* Up to two terms of every kind before the last one
MCSpfRecords ==
    LET body == [q : {"+"}, m : {"mx", "own", "r1", "unknown"}] \cup {Term("-", "mx"), Term("-", "r1")}
        last == {Term("-", "all"), Term("~", "all")}
    IN  {<<x, z>> : x \in body, z \in last \cup {Term("+", "mx")}} \cup {<<x, y, z>> : x \in body, y \in body, z \in last} \cup {<<>>}
=============================================================================
