----------------------------- MODULE DomainDns -----------------------------
(***************************************************************************)
(* DNS checks of a managed domain (domains/service.py).  Lookups run       *)
(* concurrently while the zone changes; their results, compared with what  *)
(* the server's configuration calls for, are stored in the domain's row.   *)
(* A record is "none", "bad" (not of its kind), "other" (valid, for        *)
(* another set-up) or "right"; an SPF record is the sequence of its terms. *)
(***************************************************************************)
EXTENDS Requests

CONSTANTS
    Relays,       \* host names of tunnel endpoints
    SpfRecords    \* SPF records that may be published

VARIABLES
    zone,         \* what is published for the domain
    relays,       \* enabled tunnels
    names,        \* forward and reverse DNS of the relays
    verified,     \* Domain.*_verified
    stamp,        \* Domain.*_last_checked_at and *_last_verified_at: by which request
    seen,         \* history: zone and relays the verified columns were computed from
    reply         \* history: all_verified of the last answer, with what it is about

dnsVars == <<zone, relays, names, verified, stamp, seen, reply>>

Canonical == {"mx", "spf", "dkim", "dmarc", "mta_sts", "tls_rpt"}
Plain == {"mx", "dkim", "dmarc", "tls_rpt", "txt", "host", "policy"}
Values == {"none", "bad", "other", "right"}

\* SPF terms: a mechanism with a qualifier, or the terminal "all"
Term(q, m) == [q |-> q, m |-> m]
Own == "own"      \* get_server_hostname
Terms == [q : {"+", "-", "~", "?"}, m : {"mx", Own, "all", "unknown"} \cup Relays]

\* Records are sequences of terms; "all" and "stranger" name no relay.
ASSUME DnsAssumption == SpfRecords \subseteq Seq(Terms) /\ {"all", "stranger"} \cap Relays = {}

\* _validate_spf_record: known mechanisms, no empty record
validate_spf_record(r) == Len(r) > 0 /\ \A i \in 1..Len(r) : r[i].m # "unknown"

\* _build_spf_expected
build_spf_expected(hosts) ==
    IF hosts = {} THEN [need |-> {"mx", Own}, last |-> "~"] ELSE [need |-> {"mx"} \cup hosts, last |-> "-"]

\* Mutant: any qualifier is dropped.
SimpleAnyQualifier(r) ==
    IF /\ Len(r) > 0 /\ r[Len(r)].m = "all" /\ r[Len(r)].q \in {"-", "~"}
       /\ \A i \in 1..(Len(r) - 1) : r[i].m \in {"mx", Own} \cup Relays
    THEN [ok |-> TRUE, need |-> {r[i].m : i \in 1..(Len(r) - 1)}, last |-> r[Len(r)].q]
    ELSE [ok |-> FALSE, need |-> {}, last |-> ""]

\* _simple_spf_parts: passing mx and a mechanisms before one -all or ~all
simple_spf_parts(r) ==
    IF /\ Len(r) > 0 /\ r[Len(r)].m = "all" /\ r[Len(r)].q \in {"-", "~"}
       /\ \A i \in 1..(Len(r) - 1) : r[i].q = "+" /\ r[i].m \in {"mx", Own} \cup Relays
    THEN [ok |-> TRUE, need |-> {r[i].m : i \in 1..(Len(r) - 1)}, last |-> r[Len(r)].q]
    ELSE [ok |-> FALSE, need |-> {}, last |-> ""]

\* _record_matches for SPF: what is published covers what is needed; behind a
\* soft fail the mail host's own mechanism is redundant with mx.  A record that
\* is not of the simple form never equals the expected one.
record_matches(hosts, r) ==
    LET e == build_spf_expected(hosts)  c == simple_spf_parts(r)
        need == IF e.last = "~" THEN e.need \ {Own} ELSE e.need
    IN  /\ validate_spf_record(r) /\ c.ok
        /\ need \subseteq c.need
        /\ c.last = e.last \/ (e.last = "~" /\ c.last = "-")

\* _build_dns_records, _apply_expected_check_results: a check holds when the
\* record is valid and the expected one.  Whatever follows the version tag of
\* an MTA-STS record is accepted; the policy is fetched only from a host with
\* public addresses, and the chain counts as a whole.
apply_expected_check_results(c, hosts) ==
    LET right(x) == c[x] = "right"
        endpoint == right("host") /\ right("policy")
    IN  [mx |-> right("mx"), dkim |-> right("dkim"), dmarc |-> right("dmarc"), tls_rpt |-> right("tls_rpt"),
         spf |-> record_matches(hosts, c.spf),
         mta_sts |-> c.txt \in {"other", "right"} /\ endpoint]

\* _check_one_relay_dns: HELO SPF, an IPv4 address and, for each address, a
\* reverse name
check_one_relay_dns(h) == names[h].spf /\ names[h].v4 /\ names[h].ptr
check_relay_dns(hosts) == \A h \in hosts : check_one_relay_dns(h)

-----------------------------------------------------------------------------
Nothing == [x \in Plain \cup {"spf"} |-> IF x = "spf" THEN <<>> ELSE "none"]

\* verify_dns and compute_dns_state load row, host name and tunnels, then look
\* everything up.
StartCheck(s, op) ==
    /\ Begin(s, [op |-> op, hosts |-> relays, left |-> {"domain", "endpoint"}, found |-> Nothing])
    /\ UNCHANGED dnsVars

verify_domain_dns(s) == StartCheck(s, "verify_dns")
get_dns_state(s) == StartCheck(s, "compute_dns_state")

\* The lookups; one that fails finds nothing.
check_mx == zone.mx              \* the MX that names this server, else the first
check_spf == zone.spf            \* the only record; several are as none
check_dkim == zone.dkim          \* compared without white space
check_dmarc == zone.dmarc
check_mta_sts == zone.txt
check_mta_sts_host == zone.host  \* public addresses only
check_mta_sts_policy == zone.policy
check_tls_rpt == zone.tls_rpt

\* The policy is fetched from a host with public addresses only.
check_mta_sts_endpoint ==
    [host |-> check_mta_sts_host, policy |-> IF check_mta_sts_host = "right" THEN check_mta_sts_policy ELSE "none"]

Found(group) ==
    IF group = "endpoint" THEN check_mta_sts_endpoint
    ELSE [mx |-> check_mx, spf |-> check_spf, dkim |-> check_dkim, dmarc |-> check_dmarc,
          txt |-> check_mta_sts, tls_rpt |-> check_tls_rpt]

\* One of the two concurrent groups of lookups
Lookup(s, group) ==
    LET new == Found(group)
    IN  /\ req[s].op \in {"verify_dns", "compute_dns_state"} /\ group \in req[s].left
        /\ Goto(s, [req[s] EXCEPT !.left = @ \ {group},
                     !.found = [x \in DOMAIN @ |-> IF x \in DOMAIN new THEN new[x] ELSE @[x]]])
        /\ UNCHANGED dnsVars

stamp_audit_timestamps(s, checks) ==
    [x \in Canonical |-> [checked |-> req[s].op, verified |-> IF checks[x] THEN req[s].op ELSE stamp[x].verified]]

run_dns_checks(s) == apply_expected_check_results(req[s].found, req[s].hosts)

\* The commit, then the relays' checks and the answer.
verify_dns(s) ==
    LET checks == run_dns_checks(s)
    IN  /\ At(s, "verify_dns") /\ req[s].left = {} /\ End(s)
        /\ verified' = checks /\ stamp' = stamp_audit_timestamps(s, checks)
        /\ seen' = [zone |-> req[s].found, hosts |-> req[s].hosts]
        /\ reply' = [ok |-> (\A x \in Canonical : checks[x]) /\ check_relay_dns(req[s].hosts), hosts |-> req[s].hosts]
        /\ UNCHANGED <<zone, relays, names>>

\* The same without the columns of verify_dns
compute_dns_state(s) ==
    /\ At(s, "compute_dns_state") /\ req[s].left = {} /\ End(s)
    /\ stamp' = stamp_audit_timestamps(s, run_dns_checks(s))
    /\ UNCHANGED <<zone, relays, names, verified, seen, reply>>

-----------------------------------------------------------------------------
(* Environment: the operator edits zone and tunnels.                       *)

Publish(x, v) ==
    /\ Serve /\ zone[x] # v /\ zone' = [zone EXCEPT ![x] = v]
    /\ UNCHANGED <<relays, names, verified, stamp, seen, reply>>
EnableRelay(h) ==
    /\ Serve /\ relays' = (relays \cup {h}) \ (relays \cap {h})
    /\ UNCHANGED <<zone, names, verified, stamp, seen, reply>>

DnsInit ==
    /\ \E spf \in SpfRecords, v \in {"other", "right"} :
          zone = [x \in Plain \cup {"spf"} |-> IF x = "spf" THEN spf ELSE IF x = "txt" THEN v ELSE "right"]
    /\ relays \in SUBSET Relays
    /\ \E ptr \in BOOLEAN : names = [h \in Relays |-> [spf |-> TRUE, v4 |-> TRUE, ptr |-> ptr]]
    /\ verified = [x \in Canonical |-> FALSE]
    /\ stamp = [x \in Canonical |-> [checked |-> "never", verified |-> "never"]]
    /\ seen = [zone |-> Nothing, hosts |-> {}] /\ reply = [ok |-> FALSE, hosts |-> {}]

DnsStep ==
    \/ \E s \in Slots :
          \/ verify_domain_dns(s) \/ get_dns_state(s) \/ verify_dns(s) \/ compute_dns_state(s)
          \/ \E g \in {"domain", "endpoint"} : Lookup(s, g)
    \/ \E x \in {"txt", "policy"}, v \in Values : Publish(x, v)
    \/ Publish("spf", <<>>)
    \/ \E h \in Relays : EnableRelay(h)

DnsRestart == UNCHANGED dnsVars

-----------------------------------------------------------------------------
\* What a receiver makes of an SPF record: the first term that matches the
\* sending host decides (RFC 7208); the domain's MX is the own host.
SpfResult(r, h) ==
    LET hits == {i \in 1..Len(r) : r[i].m \in {"all", h} \/ (r[i].m = "mx" /\ h = Own)}
    IN  IF hits = {} THEN "?" ELSE r[CHOOSE i \in hits : \A j \in hits : i <= j].q

\* spf_verified says that every host mail may leave through is authorised by
\* the published record, and others are not: the loose comparison never takes a
\* record for right that a receiver would fail a relay by.  mta_sts_verified
\* says that the whole chain was there, also when it changed between lookups.
VerifiedMeansValid ==
    /\ verified.spf => /\ \A h \in seen.hosts \cup {Own} : SpfResult(seen.zone.spf, h) = "+"
                       /\ SpfResult(seen.zone.spf, "stranger") \in {"-", "~"}
                       /\ seen.hosts # {} => SpfResult(seen.zone.spf, "stranger") = "-"
    /\ verified.mta_sts => seen.zone.policy = "right" /\ seen.zone.host = "right"
    /\ reply.ok => \A x \in Canonical : stamp[x].verified # "never"
=============================================================================
