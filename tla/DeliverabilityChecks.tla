------------------------ MODULE DeliverabilityChecks ------------------------
(***************************************************************************)
(* The score of one received message (emails/deliverability.py), computed  *)
(* from the evidence its bytes carry.  A message is the record of that     *)
(* evidence, one field for what a check tells apart; points are counted in *)
(* twentieths, so that the factors 0.6, 0.25 and 0.1 of the code are whole.*)
(* The optional checks of a message against the network: DNS policies and  *)
(* blocklists (network.py), live links (links.py), seed inboxes            *)
(* (placement.py) and rendering (visual.py).  A "world" is what the        *)
(* network answers; names and addresses are abstracted to what the checks  *)
(* compare.                                                                *)
(***************************************************************************)
EXTENDS Integers, Sequences, FiniteSets, FiniteSetsExt, Functions, TLC

CONSTANTS
    SpfDepth,       \* includes followed below the policy (5 in the code)
    LookupLimit     \* DNS lookups a receiver allows (10)

Check(status, points, max) == [status |-> status, points |-> points, max |-> max]
Full(w) == Check("pass", 20 * w, 20 * w)
Part(p, w) == Check("warning", 20 * p, 20 * w)
Lost(w) == Check("fail", 0, 20 * w)
NotScored == Check("info", 0, 0)
Either(ok, good, bad) == IF ok THEN good ELSE bad

-----------------------------------------------------------------------------
(* Authentication: results are sequences of [by, method, result, aligned]. *)

trusted_authserv_ids == {"mailcue"}
Trusted(h) == h.by \in trusted_authserv_ids

\* Mutant: results are taken whoever wrote them.
AnyResult(m, method) ==
    LET Of(h) == h.method = method IN SelectSeq(m.results, Of)

\* Authentication-Results of this receiver; Received-SPF only where they say nothing of SPF.
parsed_authentication_results(m, method) ==
    LET Of(h) == h.method = method /\ Trusted(h)
        listed == SelectSeq(m.results, Of)
        old == SelectSeq(m.received_spf, Trusted)
    IN IF method = "spf" /\ listed = <<>> /\ old # <<>> THEN <<Head(old)>> ELSE listed

Best(results) ==
    LET Passed(h) == h.result = "pass"
        passing == SelectSeq(results, Passed)
    IN Head(IF passing # <<>> THEN passing ELSE results)

authentication_check(m, method, weight) ==
    LET results == parsed_authentication_results(m, method)
        best == Best(results)
    IN IF results = <<>> THEN Lost(weight)
       ELSE CASE best.result = "pass" /\ (method = "dmarc" \/ best.aligned) -> Full(weight)
              [] best.result = "pass" /\ method # "dmarc" /\ ~best.aligned -> Check("warning", 12 * weight, 20 * weight)
              [] best.result = "softfail" -> Check("warning", 5 * weight, 20 * weight)
              [] OTHER -> Lost(weight)

authentication_checks(m) ==
    [spf |-> authentication_check(m, "spf", 10), dkim |-> authentication_check(m, "dkim", 15),
     dmarc |-> authentication_check(m, "dmarc", 15)]

-----------------------------------------------------------------------------
(* Content.  The inspector sees nothing when there is no HTML body. *)

Inspected(m, field) == m.html /\ m[field]

body_alternatives(m) == IF m.plain THEN Full(4) ELSE Either(m.html, Part(2, 4), Lost(4))

html_quality(m) ==
    CASE ~m.html -> NotScored
      [] m.html /\ m.active -> Lost(4)
      [] m.html /\ ~m.active /\ m.little_text -> Part(2, 4)
      [] m.html /\ ~m.active /\ ~m.little_text /\ m.much_markup -> Check("warning", 50, 80)
      [] OTHER -> Full(4)

subject_quality(m) ==
    CASE m.subject = "missing" -> Lost(4) [] m.subject = "shouting" -> Part(2, 4) [] OTHER -> Full(4)

risky_language(m) == CASE m.phrases >= 3 -> Part(1, 4) [] m.phrases = 0 -> Full(4) [] OTHER -> Part(3, 4)
link_hygiene(m) == Either(Inspected(m, "odd_targets"), Lost(2), Full(2))
link_identity(m) == IF Inspected(m, "mislabelled") THEN Lost(2) ELSE Either(Inspected(m, "http_links"), Part(1, 2), Full(2))

\* One hidden element is the preheader, when one was found.
suspicious_hidden(m) ==
    LET n == IF m.html THEN m.hidden ELSE 0
        excused == IF m.html /\ m.preheader # "none" THEN 1 ELSE 0
    IN IF n > excused THEN n - excused ELSE 0
hidden_content(m) == Either(suspicious_hidden(m) > 0, Part(1, 2), Full(2))
tracking_pixels(m) == Either(Inspected(m, "pixels"), Part(0, 1), Full(1))
document_accessibility(m) == Either(Inspected(m, "no_language"), Part(1, 2), Full(2))

preheader(m) ==
    IF ~m.html \/ m.preheader = "none" THEN NotScored ELSE Either(m.preheader = "concise", Full(1), Part(0, 1))
HtmlOnly(m, field, p, w) == IF ~m.html THEN NotScored ELSE Either(m[field], Part(p, w), Full(w))
heading_order(m) == HtmlOnly(m, "heading_skips", 0, 1)
inline_color_contrast(m) == HtmlOnly(m, "low_contrast", 0, 2)
tap_target_size(m) == HtmlOnly(m, "small_targets", 0, 1)
email_client_css(m) == HtmlOnly(m, "risky_css", 1, 2)
image_accessibility(m) == Either(Inspected(m, "no_alt"), Part(1, 2), Full(2))

content_checks(m) ==
    [body_alternatives |-> body_alternatives(m), html_quality |-> html_quality(m), subject_quality |-> subject_quality(m),
     risky_language |-> risky_language(m), link_hygiene |-> link_hygiene(m), link_identity |-> link_identity(m),
     hidden_content |-> hidden_content(m), tracking_pixels |-> tracking_pixels(m), document_accessibility |-> document_accessibility(m),
     preheader |-> preheader(m), heading_order |-> heading_order(m), inline_color_contrast |-> inline_color_contrast(m),
     tap_target_size |-> tap_target_size(m), email_client_css |-> email_client_css(m), image_accessibility |-> image_accessibility(m)]

-----------------------------------------------------------------------------
(* Headers, transport, spam filter and attachments *)

unsubscribe(m) ==
    CASE m.bulk = "no" -> NotScored [] m.bulk = "one_click" -> Full(3) [] m.bulk = "link" -> Part(2, 3) [] OTHER -> Lost(3)
envelope_alignment(m) == Either(m.return_path = "aligned", Full(2), Part(1, 2))
reply_to_identity(m) == IF m.reply_to = "none" THEN NotScored ELSE Either(m.reply_to = "aligned", Full(2), Part(1, 2))

header_checks(m) ==
    [from_header |-> Either(m.one_from, Full(3), Lost(3)), duplicate_headers |-> Either(m.duplicates, Lost(2), Full(2)),
     message_id |-> Either(m.message_id, Full(3), Part(1, 3)), date_header |-> Either(m.date, Full(2), Part(1, 2)),
     mime_structure |-> Either(m.mime, Full(2), Part(1, 2)), unsubscribe |-> unsubscribe(m),
     envelope_alignment |-> envelope_alignment(m), reply_to_identity |-> reply_to_identity(m)]

transport_checks(m) ==
    LET received == m.received # "none"
    IN [transport_tls |-> IF ~received THEN NotScored ELSE Either(m.received = "tls", Full(4), Part(1, 4)),
        received_route |-> Either(received, Full(2), NotScored),
        origin_identity |-> IF ~received THEN NotScored ELSE Either(m.named_origin, Full(2), Part(1, 2)),
        arc |-> Either(m.arc, Full(2), NotScored)]

\* "wide", "narrow" and "thin" are margins of at least 2, of 0.5 and of less.
spam_filter_checks(m) ==
    IF m.spam = "none" THEN [spamassassin |-> NotScored]
    ELSE [spamassassin |-> CASE m.spam = "flagged" -> Lost(12) [] m.spam = "wide" -> Full(12)
                             [] m.spam \in {"no_score", "narrow"} -> Part(9, 12) [] OTHER -> Part(6, 12),
          spam_flag |-> Either(m.spam = "flagged", Lost(3), Full(3))]

attachment_checks(m) ==
    [attachment_safety |-> CASE m.attachments = "none" -> NotScored [] m.attachments = "executable" -> Lost(5)
                             [] m.attachments = "large" -> Part(2, 5) [] OTHER -> Full(5)]

-----------------------------------------------------------------------------
(* The report *)

Grouped(m) ==
    <<authentication_checks(m), content_checks(m), header_checks(m), transport_checks(m), spam_filter_checks(m), attachment_checks(m)>>
Points(checks) == MapThenSumSet(LAMBDA c : checks[c].points, DOMAIN checks)
Maximum(checks) == MapThenSumSet(LAMBDA c : checks[c].max, DOMAIN checks)

\* The whole number nearest to a / b; Python rounds halves to the even neighbour.
Rounded(a, b) ==
    LET q == a \div b
        r == 2 * (a % b)
    IN IF r > b \/ (r = b /\ q % 2 = 1) THEN q + 1 ELSE q

score_deliverability(m) ==
    LET groups == Grouped(m)
        points == MapThenSumSet(LAMBDA i : Points(groups[i]), DOMAIN groups)
        max == MapThenSumSet(LAMBDA i : Maximum(groups[i]), DOMAIN groups)
    IN IF max = 0 THEN 0 ELSE Rounded(100 * points, max)

verdict(score) ==
    CASE score >= 90 -> "excellent" [] score >= 75 /\ score < 90 -> "good"
      [] score >= 50 /\ score < 75 -> "needs_work" [] OTHER -> "poor"

\* How many checks two reports tell apart, a missing check counting nothing.
compare_reports(before, after) ==
    LET Of(groups, i, c) == IF c \in DOMAIN groups[i] THEN groups[i][c].points ELSE 0
        pairs == UNION {{<<i, c>> : c \in DOMAIN before[i] \cup DOMAIN after[i]} : i \in DOMAIN before}
        Delta(x) == Of(after, x[1], x[2]) - Of(before, x[1], x[2])
    IN [improved |-> Cardinality({x \in pairs : Delta(x) > 0}), regressed |-> Cardinality({x \in pairs : Delta(x) < 0})]

-----------------------------------------------------------------------------
(* What a report promises *)

\* The message after its author has followed the recommendation of check c.
Repaired(m, c) ==
    LET Good(method) == <<[by |-> "mailcue", method |-> method, result |-> "pass", aligned |-> TRUE]>>
        Repair(method) == LET Other(h) == h.method # method IN [m EXCEPT !.results = Good(method) \o SelectSeq(@, Other)]
    IN CASE c \in {"spf", "dkim", "dmarc"} -> Repair(c)
         [] c = "body_alternatives" -> [m EXCEPT !.plain = TRUE]
         [] c = "html_quality" -> [m EXCEPT !.active = FALSE, !.little_text = FALSE, !.much_markup = FALSE]
         [] c = "subject_quality" -> [m EXCEPT !.subject = "good"]
         [] c = "risky_language" -> [m EXCEPT !.phrases = 0]
         [] c = "link_hygiene" -> [m EXCEPT !.odd_targets = FALSE]
         [] c = "link_identity" -> [m EXCEPT !.mislabelled = FALSE, !.http_links = FALSE]
         [] c = "hidden_content" -> [m EXCEPT !.hidden = 0]
         [] c = "preheader" -> [m EXCEPT !.preheader = "concise"]
         [] c = "unsubscribe" -> [m EXCEPT !.bulk = "one_click"]
         [] c = "envelope_alignment" -> [m EXCEPT !.return_path = "aligned"]
         [] c = "reply_to_identity" -> [m EXCEPT !.reply_to = "aligned"]
         [] c = "attachment_safety" -> [m EXCEPT !.attachments = "fine"]
         [] c = "spamassassin" -> [m EXCEPT !.spam = "wide"]
         [] OTHER -> m

\* What an unknown server or the sender put into the message earns nothing, no
\* check gives full points without passing or passes for less, and following a
\* recommendation makes its check pass, lets no other check regress and never
\* lowers the score.
Fair(m) ==
    LET groups == Grouped(m)
        score == score_deliverability(m)
        clean == [m EXCEPT !.results = SelectSeq(@, Trusted), !.received_spf = SelectSeq(@, Trusted)]
    IN /\ score \in 0..100 /\ score = score_deliverability(clean)
       /\ \A i \in DOMAIN groups : \A c \in DOMAIN groups[i] :
              LET check == groups[i][c]
                  better == Repaired(m, c)
              IN /\ check.points >= 0 /\ check.points <= check.max
                 /\ (check.status = "info") = (check.max = 0)
                 /\ (check.status = "pass") = (check.points = check.max /\ check.max > 0)
                 /\ (better # m /\ check.status \in {"warning", "fail"}) =>
                        /\ Grouped(better)[i][c].status = "pass" /\ score_deliverability(better) >= score
                        /\ compare_reports(groups, Grouped(better)).regressed = 0

-----------------------------------------------------------------------------
(* SPF: spf[d] = [records, terms, nested] is what domain d publishes: how  *)
(* many policies, lookup terms other than nested ones, nested domains.     *)

spf_lookup_terms(p) == p.terms + Len(p.nested)

RECURSIVE spf_recursive_lookups(_, _, _, _), Nested(_, _, _, _)
\* The result is [total, incomplete, visited].
spf_recursive_lookups(spf, p, visited, depth) ==
    LET direct == [total |-> spf_lookup_terms(p), incomplete |-> FALSE, visited |-> visited]
    IN IF depth >= SpfDepth THEN [direct EXCEPT !.incomplete = p.nested # <<>>]
       ELSE Nested(spf, p.nested, direct, depth)

\* Mutant: a domain met before is skipped silently.
NestedAgain(spf, names, sum, depth) ==
    IF names = <<>> THEN sum
    ELSE LET d == Head(names)
             deep == spf_recursive_lookups(spf, spf[d], sum.visited \cup {d}, depth + 1)
         IN IF d \in sum.visited THEN Nested(spf, Tail(names), sum, depth)
            ELSE Nested(spf, Tail(names), [deep EXCEPT !.total = sum.total + @, !.incomplete = @ \/ sum.incomplete], depth)

Nested(spf, names, sum, depth) ==
    IF names = <<>> \/ sum.total > LookupLimit THEN sum
    ELSE LET d == Head(names)
             seen == d \in sum.visited
             met == [sum EXCEPT !.visited = @ \cup {d}]
             deep == spf_recursive_lookups(spf, spf[d], met.visited, depth + 1)
         IN IF seen \/ spf[d].records # 1
            THEN Nested(spf, Tail(names), [met EXCEPT !.incomplete = TRUE], depth)
            ELSE Nested(spf, Tail(names), [deep EXCEPT !.total = sum.total + @, !.incomplete = @ \/ sum.incomplete], depth)

\* The published policy of domain d, weighed w; "none" when no identity is known.
spf_policy(spf, d, w, partial) ==
    IF d = "none" THEN NotScored
    ELSE IF spf[d].records # 1 THEN Lost(w)
    ELSE LET found == spf_recursive_lookups(spf, spf[d], {d}, 0)
         IN Either(found.total <= LookupLimit /\ ~found.incomplete, Full(w), Part(partial, w))

\* A receiver's own count: every include is evaluated, again if met again, and a
\* missing, ambiguous or endless policy is an error.
RECURSIVE Evaluated(_, _, _)
Evaluated(spf, d, fuel) ==
    IF fuel = 0 \/ spf[d].records # 1 THEN LookupLimit + 1
    ELSE FoldFunction(LAMBDA e, sum : sum + Evaluated(spf, e, fuel - 1), spf_lookup_terms(spf[d]), spf[d].nested)

-----------------------------------------------------------------------------
(* The other policies, blocklists and the route *)

dmarc_policy(w) == CASE w.dmarc = "enforced" -> Full(6) [] w.dmarc = "partial" -> Part(3, 6) [] OTHER -> Lost(6)

\* A key that can be read; RSA keys below 2048 bits are weak.
dkim_key_description(k) == k \in {"strong", "weak"}

\* Keys found for the selectors of the message.
dkim_key(w) ==
    CASE w.selectors = <<>> -> NotScored
      [] w.selectors # <<>> /\ \A i \in DOMAIN w.selectors : ~dkim_key_description(w.selectors[i]) -> Lost(5)
      [] OTHER -> Either(\E i \in DOMAIN w.selectors : w.selectors[i] = "weak", Part(3, 5), Full(5))

domain_checks(w) ==
    [dns_spf |-> spf_policy(w.spf, w.spf_domain, 5, 2), dns_dmarc |-> dmarc_policy(w), dns_dkim |-> dkim_key(w),
     dns_mx |-> Either(w.mx, Full(2), Part(1, 2)), dns_optional |-> Either(w.optional, Full(1), NotScored)]

\* What the answer of one blocklist says: an address of the loopback net is a
\* listing, any other answer and a failed lookup are errors of the service.
dnsbl_answer(a) == [listed |-> "listed" \in a, error |-> a \cap {"refused", "foreign", "timeout"} # {}]

blocklists(answers) ==
    LET listed == \E i \in DOMAIN answers : dnsbl_answer(answers[i]).listed
        errors == \E i \in DOMAIN answers : dnsbl_answer(answers[i]).error
    IN CASE answers = <<>> -> NotScored
         [] answers # <<>> /\ listed -> Lost(5)
         [] answers # <<>> /\ ~listed /\ errors -> NotScored
         [] OTHER -> Full(5)

\* The hop that handed the message in: local handoffs at the top of the route are
\* skipped, and nothing behind another hop is believed.
origin_route_identity(hops) ==
    LET Local(i) == hops[i] \in {"lmtp", "loopback"}
        top == {i \in DOMAIN hops : ~Local(i) /\ \A j \in 1..(i - 1) : Local(j)}
    IN IF top = {} THEN 0 ELSE LET i == CHOOSE i \in top : TRUE IN IF hops[i] = "public" THEN i ELSE 0

smtp_identity(w) ==
    IF w.greeting = "none" THEN Part(0, 5)
    ELSE IF w.greeting_resolves THEN Either(w.ptr = "greeting", Full(5), Part(3, 5)) ELSE Lost(5)

helo_spf(w) == IF w.greeting = "none" THEN NotScored ELSE CASE w.spf[w.greeting].records = 0 -> Part(0, 2) [] OTHER -> spf_policy(w.spf, w.greeting, 2, 0)

ip_blocklist(w) == blocklists(w.ip_zones)

ip_reputation_checks(w) ==
    IF origin_route_identity(w.hops) = 0
    THEN [reverse_dns |-> NotScored, smtp_identity |-> NotScored, helo_spf |-> NotScored, dnsbl |-> NotScored]
    ELSE [reverse_dns |-> Either(w.ptr # "none", Full(5), Lost(5)), smtp_identity |-> smtp_identity(w),
          helo_spf |-> helo_spf(w), dnsbl |-> ip_blocklist(w)]

reputation_checks(w) == [domain_dnsbl |-> blocklists(w.domain_zones)]

\* Categories by name; the reserved domain and the timeout leave only a remark under "dns".
analyze_network(w) ==
    IF ~w.safe_domain \/ w.timeout THEN [dns |-> [remark |-> NotScored]]
    ELSE [dns |-> domain_checks(w), reputation |-> ip_reputation_checks(w) @@ reputation_checks(w)]

-----------------------------------------------------------------------------
(* Links and seed inboxes *)

\* Of w points, the share a / b rounded to tenths.
Share(w, a, b) == 2 * Rounded(10 * w * a, b)

\* A destination is requested only when all its addresses are public.
public_addresses(addresses) == IF addresses # {} /\ addresses \subseteq {"public"} THEN addresses ELSE {}

probe(link) ==
    CASE ~link.web \/ link.credentials -> "unsupported"
      [] link.web /\ ~link.credentials /\ ~link.web_port -> "blocked_port"
      [] link.web /\ ~link.credentials /\ link.web_port /\ public_addresses(link.addresses) = {} -> "unsafe_or_unresolved"
      [] OTHER -> link.answer

analyze_links(links) ==
    LET Codes(codes) == Cardinality({i \in DOMAIN links : probe(links[i]) \in codes})
        successes == Codes({"ok", "redirect"})
        failures == Codes({"http_error", "connection_error"})
        checked == successes + failures
    IN IF checked = 0 THEN NotScored
       ELSE Either(failures > 0, Check("warning", Share(4, successes, checked), 80), Full(4))

\* Where a seed account found the message.
classify_sync(account) ==
    CASE ~account.searchable -> "unavailable" [] account.searchable /\ account.found = "no" -> "missing" [] OTHER -> account.found
classify_seed_account(account) ==
    IF ~account.ssl \/ public_addresses(account.addresses) = {} \/ account.broken THEN "unavailable" ELSE classify_sync(account)

seed_placement(accounts) ==
    LET Found(p) == {i \in DOMAIN accounts : classify_seed_account(accounts[i]) \in p}
        classified == Cardinality(Found({"inbox", "spam", "category", "missing"}))
        inbox == Cardinality(Found({"inbox"}))
    IN CASE classified = 0 -> NotScored
         [] classified > 0 /\ Found({"spam"}) # {} -> Check("fail", Share(5, inbox, classified), 100)
         [] OTHER -> Either(inbox = classified, Full(5), Check("warning", Share(5, inbox, classified), 100))

\* One variant of the message; a browser that fails, hangs, writes no picture or too
\* large a one raises, and with it the check.
render_one(shot) == shot # "failed"
render_email(shots) == \A i \in DOMAIN shots : render_one(shots[i])
visual_check(shots) ==
    IF ~render_email(shots) THEN Check("raised", 0, 0)
    ELSE IF shots = <<>> THEN NotScored ELSE Either(\E i \in DOMAIN shots : shots[i] = "differs", Part(2, 4), Full(4))

-----------------------------------------------------------------------------
(* What the network checks promise *)

\* A policy that passes is within the limit as receivers count it, a blocklist
\* verdict rests on answers of every list it speaks of, the believed origin has
\* only hand-offs of this host above it, and no address that is not public is
\* contacted.
Sound(w) ==
    LET found == analyze_network(w)
        domain == w.domain_zones
    IN /\ "reputation" \in DOMAIN found =>
           /\ found.dns.dns_spf.status = "pass" => Evaluated(w.spf, w.spf_domain, Cardinality(DOMAIN w.spf) + 1) <= LookupLimit
           /\ LET b == found.reputation.domain_dnsbl
              IN /\ b.status = "pass" => \A i \in DOMAIN domain : domain[i] = {}
                 /\ b.status = "fail" => \E i \in DOMAIN domain : "listed" \in domain[i]
           /\ LET o == origin_route_identity(w.hops)
              IN o # 0 => w.hops[o] = "public" /\ \A i \in 1..(o - 1) : w.hops[i] \in {"lmtp", "loopback"}
       /\ \A i \in DOMAIN w.links :
              probe(w.links[i]) \in {"ok", "redirect", "http_error", "connection_error"} =>
                  "private" \notin w.links[i].addresses /\ ~w.links[i].credentials
       /\ \A c \in {analyze_links(w.links), seed_placement(w.seeds), visual_check(w.shots)} :
              c.points <= c.max /\ (c.status = "pass") = (c.points = c.max /\ c.max > 0)
=============================================================================
