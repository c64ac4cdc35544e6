---------------------------- MODULE ConfigFiles ----------------------------
(***************************************************************************)
(* Aliases, tunnels and the TLS certificate (backend/app/aliases, tunnels, *)
(* system/service.py): tables whose rows are rendered to a file for        *)
(* Postfix, the relay sidecar and the TLS servers.  A row is a revision;   *)
(* 0 is no row.                                                            *)
(***************************************************************************)
EXTENDS Requests

CONSTANTS Aliases, Tunnels, MaxRevision     \* bound: revisions of a row
ASSUME ConfigAssumption == MaxRevision \in Nat

VARIABLES
    alias, valias,          \* rows of Alias; /etc/postfix/virtual_aliases
    enabled,                \* Alias.enabled
    tunnel, tunnels_json,   \* rows of Tunnel; the sidecar's file
    check,                  \* Tunnel.last_check_ok, with the revision that was probed
    cert, cert_files,       \* the row of TlsCertificate; certificate and key on disk
    behind                  \* history: files whose last write failed, or overlapped

configVars == <<alias, valias, enabled, tunnel, tunnels_json, check, cert, cert_files, behind>>
aliasVars == <<alias, valias, enabled>>
tunnelVars == <<tunnel, tunnels_json, check>>
certVars == <<cert, cert_files>>

Present(table) == {x \in DOMAIN table : table[x] # 0}
NewRevision(r) == IF r < MaxRevision THEN r + 1 ELSE 1

\* A request that will write file f, next to others that are in flight
Change(s, op, f, x) ==
    /\ Begin(s, [op |-> op, file |-> f, id |-> x, copy |-> <<>>])
    /\ behind' = behind \cup {g \in {f} : \E t \in Slots : req[t] # Idle /\ req[t].file = g}

-----------------------------------------------------------------------------
(* Aliases.                                                                *)

create_alias(s, a) ==
    /\ alias[a] = 0 /\ alias' = [alias EXCEPT ![a] = 1] /\ enabled' = [enabled EXCEPT ![a] = TRUE]
    /\ Change(s, "read_aliases", "aliases", a)
    /\ UNCHANGED <<valias, tunnelVars, certVars>>

update_alias(s, a, on) ==
    /\ alias[a] # 0
    /\ alias' = [alias EXCEPT ![a] = NewRevision(@)] /\ enabled' = [enabled EXCEPT ![a] = on]
    /\ Change(s, "read_aliases", "aliases", a)
    /\ UNCHANGED <<valias, tunnelVars, certVars>>

delete_alias(s, a) ==
    /\ alias[a] # 0 /\ alias' = [alias EXCEPT ![a] = 0] /\ enabled' = [enabled EXCEPT ![a] = FALSE]
    /\ Change(s, "read_aliases", "aliases", a)
    /\ UNCHANGED <<valias, tunnelVars, certVars>>

AliasLines == [a \in Aliases |-> IF enabled[a] THEN alias[a] ELSE 0]

ReadAliases(s) ==
    /\ At(s, "read_aliases") /\ Goto(s, [req[s] EXCEPT !.op = "write_aliases", !.copy = AliasLines])
    /\ UNCHANGED configVars

rebuild_postfix_virtual_aliases(s) ==
    /\ At(s, "write_aliases") /\ End(s) /\ valias' = req[s].copy
    /\ UNCHANGED <<alias, enabled, tunnelVars, certVars, behind>>

-----------------------------------------------------------------------------
(* Tunnels.                                                                *)

create_tunnel(s, t) ==
    /\ tunnel[t] = 0 /\ tunnel' = [tunnel EXCEPT ![t] = 1]
    /\ Change(s, "read_tunnels", "tunnels", t)
    /\ UNCHANGED <<aliasVars, tunnels_json, check, certVars>>

update_tunnel(s, t) ==
    /\ tunnel[t] # 0 /\ tunnel' = [tunnel EXCEPT ![t] = NewRevision(@)]
    /\ Change(s, "read_tunnels", "tunnels", t)
    /\ UNCHANGED <<aliasVars, tunnels_json, check, certVars>>

delete_tunnel(s, t) ==
    /\ tunnel[t] # 0 /\ tunnel' = [tunnel EXCEPT ![t] = 0] /\ check' = [check EXCEPT ![t] = 0]
    /\ Change(s, "read_tunnels", "tunnels", t)
    /\ UNCHANGED <<aliasVars, tunnels_json, certVars>>

reload_tunnels_config(s) ==
    /\ Change(s, "read_tunnels", "tunnels", "-")
    /\ UNCHANGED <<aliasVars, tunnelVars, certVars>>

build_tunnels_payload(s) ==
    /\ At(s, "read_tunnels") /\ Goto(s, [req[s] EXCEPT !.op = "write_tunnels", !.copy = tunnel])
    /\ UNCHANGED configVars

\* The file is replaced as a whole, or stays when its directory is missing.
write_tunnels_json(s, ok) ==
    LET clash == \E t \in Slots \ {s} : req[t] # Idle /\ req[t].file = "tunnels"
    IN  /\ At(s, "write_tunnels") /\ End(s)
        /\ tunnels_json' = IF ok THEN req[s].copy ELSE tunnels_json
        /\ behind' = IF clash \/ ~ok THEN behind \cup {"tunnels"}
                     ELSE IF req[s].copy = tunnel THEN behind \ {"tunnels"} ELSE behind
        /\ UNCHANGED <<aliasVars, tunnel, check, certVars>>

\* What the administrator sees of a tunnel: loaded by the sidecar, or only a row
effective_tunnel_status ==
    [t \in Present(tunnels_json) \cup Present(tunnel) |->
        [loaded |-> tunnels_json[t] # 0, managed |-> tunnel[t] # 0]]

\* The row is loaded, its endpoint probed, and the result committed; the row
\* may be gone by then.
health_check(s, t) ==
    /\ tunnel[t] # 0 /\ Begin(s, [op |-> "probe", file |-> "-", id |-> t, copy |-> tunnel[t]])
    /\ UNCHANGED configVars
CommitHealth(s) ==
    /\ At(s, "probe") /\ End(s)
    /\ check' = IF tunnel[req[s].id] = 0 THEN check ELSE [check EXCEPT ![req[s].id] = req[s].copy]
    /\ UNCHANGED <<aliasVars, tunnel, tunnels_json, certVars, behind>>

-----------------------------------------------------------------------------
(* The certificate.  A pair that does not belong together, or is expired,  *)
(* is refused.                                                             *)

validate_cert_key_pair(c, k) == c = k

upload_tls_certificate(s, c, k) ==
    /\ validate_cert_key_pair(c, k) /\ cert' = c
    /\ Change(s, "write_cert", "certs", c)
    /\ UNCHANGED <<aliasVars, tunnelVars, cert_files>>

\* A thread writes certificate, then key.
WriteCert(s) ==
    /\ At(s, "write_cert") /\ Step(s, "write_key")
    /\ cert_files' = [cert_files EXCEPT !.crt = req[s].id]
    /\ UNCHANGED <<aliasVars, tunnelVars, cert, behind>>
write_certs_to_disk(s) ==
    /\ At(s, "write_key") /\ End(s)
    /\ cert_files' = [cert_files EXCEPT !.key = req[s].id]
    /\ UNCHANGED <<aliasVars, tunnelVars, cert, behind>>

restore_custom_certs == [crt |-> cert, key |-> cert]

\* The certificate directory does not survive; the start renders certificate
\* and tunnels, and not the aliases.
RestartConfig ==
    LET hit == {s \in Slots : part = "files" /\ req[s] # Idle}
        lost == {req[s].file : s \in hit}
    IN  /\ cert_files' = restore_custom_certs
        /\ \/ tunnels_json' = tunnel /\ behind' = (behind \cup lost) \ {"tunnels", "certs"}
           \/ part = "files" /\ tunnels_json' = tunnels_json /\ behind' = (behind \cup lost \cup {"tunnels"}) \ {"certs"}
        /\ UNCHANGED <<aliasVars, tunnel, check, cert>>

ConfigInit ==
    /\ alias = [a \in Aliases |-> 0] /\ enabled = [a \in Aliases |-> FALSE] /\ valias = alias
    /\ tunnel = [t \in Tunnels |-> 0] /\ tunnels_json = tunnel /\ check = tunnel
    /\ cert = 0 /\ cert_files = [crt |-> 0, key |-> 0] /\ behind = {}

ConfigStep ==
    \E s \in Slots :
        \/ \E a \in Aliases : create_alias(s, a) \/ delete_alias(s, a) \/ \E on \in BOOLEAN : update_alias(s, a, on)
        \/ ReadAliases(s) \/ rebuild_postfix_virtual_aliases(s)
        \/ \E t \in Tunnels : create_tunnel(s, t) \/ update_tunnel(s, t) \/ delete_tunnel(s, t) \/ health_check(s, t)
        \/ reload_tunnels_config(s) \/ build_tunnels_payload(s) \/ CommitHealth(s)
        \/ \E ok \in BOOLEAN : write_tunnels_json(s, ok)
        \/ \E c, k \in 1..MaxRevision : upload_tls_certificate(s, c, k)
        \/ WriteCert(s) \/ write_certs_to_disk(s)

-----------------------------------------------------------------------------
Pending(f) == part = "files" /\ \E s \in Slots : req[s] # Idle /\ req[s].file = f

\* A file with no request under way shows its rows, also after changes of
\* several rows one after another and after a start, unless its last write
\* failed or was one of several at once.  While the tunnels' file lags behind,
\* every tunnel of the table is still shown to the administrator, as not loaded
\* when the sidecar has no entry of it.
RenderedAtRest ==
    /\ ~Pending("aliases") /\ "aliases" \notin behind => valias = AliasLines
    /\ ~Pending("tunnels") /\ "tunnels" \notin behind => tunnels_json = tunnel
    /\ ~Pending("certs") /\ "certs" \notin behind => cert_files = [crt |-> cert, key |-> cert]
    /\ \A t \in Present(tunnel) : effective_tunnel_status[t].loaded <=> tunnels_json[t] # 0
=============================================================================
