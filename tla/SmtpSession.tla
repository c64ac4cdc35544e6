---------------------------- MODULE SmtpSession ----------------------------
(***************************************************************************)
(* One SMTP session between Postfix and the sidecar's submission server    *)
(* (handle_session and read_data in sidecar/src/smtp_server.rs).  The      *)
(* server announces PIPELINING and SIZE; the client sends MAIL, RCPT and   *)
(* DATA of a message in one go, the body after 354, and matches replies to *)
(* commands by their order.                                                *)
(***************************************************************************)
EXTENDS Naturals, Sequences, SequencesExt

CONSTANTS MaxRcpts,     \* max_recipients_per_request
          MaxBody,      \* max_message_size_bytes, counted in lines
          RcptLists,    \* recipients of a message, as sequences of good or bad RCPT lines
          Bodies,       \* bodies the client sends, as sequences of body lines
          MaxMessages   \* bound: messages per session

VARIABLES
    wire,      \* lines sent by the client and not yet read
    back,      \* replies not yet read by the client: the line answered, the code
    server,    \* SessionState of handle_session
    client,    \* what Postfix knows of its message
    relayed    \* transactions handed to SmtpRelay::relay

vars == <<wire, back, server, client, relayed>>

Lines == {"EHLO", "MAIL", "MAIL bad", "RCPT", "RCPT bad", "DATA", ".", "RSET", "QUIT", "text", "8bit"}

\* mode: "command", "data" while read_data runs, "closed".
Fresh == [helo |-> FALSE, from |-> 0, rcpts |-> 0, mode |-> "command", lines |-> 0]

\* msg: the message in hand; sent: commands without a reply; ok: accepted RCPTs;
\* body: lines of the body of each message; done: its outcome.
NoMessage == [msg |-> 0, sent |-> <<>>, from |-> FALSE, ok |-> 0, body |-> <<>>, done |-> <<>>]

-----------------------------------------------------------------------------
(* Server: one line at a time, one reply per command.                      *)

ServerReads(l) == wire # <<>> /\ Head(wire).line = l /\ server.mode = "command"
                  /\ wire' = Tail(wire)
Answer(code) == back' = Append(back, [to |-> Head(wire), code |-> code])

\* EHLO starts over.
ServeEhlo ==
    /\ ServerReads("EHLO")
    /\ server' = [Fresh EXCEPT !.helo = TRUE]
    /\ Answer(250)
    /\ UNCHANGED <<client, relayed>>

\* A MAIL that does not parse leaves the envelope as it is.
ServeMail(l) ==
    /\ l \in {"MAIL", "MAIL bad"} /\ ServerReads(l)
    /\ IF ~server.helo THEN Answer(503) /\ UNCHANGED server
       ELSE IF l = "MAIL bad" THEN Answer(501) /\ UNCHANGED server
       ELSE /\ server' = [server EXCEPT !.from = Head(wire).msg, !.rcpts = 0]
            /\ Answer(250)
    /\ UNCHANGED <<client, relayed>>

ServeRcpt(l) ==
    /\ l \in {"RCPT", "RCPT bad"} /\ ServerReads(l)
    /\ IF server.from = 0 THEN Answer(503) /\ UNCHANGED server
       ELSE IF server.rcpts >= MaxRcpts THEN Answer(452) /\ UNCHANGED server
       ELSE IF l = "RCPT bad" THEN Answer(501) /\ UNCHANGED server
       ELSE server' = [server EXCEPT !.rcpts = @ + 1] /\ Answer(250)
    /\ UNCHANGED <<client, relayed>>

ServeData ==
    /\ ServerReads("DATA")
    /\ IF server.from = 0 \/ server.rcpts = 0 THEN Answer(503) /\ UNCHANGED server
       ELSE server' = [server EXCEPT !.mode = "data", !.lines = 0] /\ Answer(354)
    /\ UNCHANGED <<client, relayed>>

\* Mutant: lines past the limit are dropped.
ReadBodyLineLossy ==
    /\ server.mode = "data" /\ wire # <<>> /\ Head(wire).line \notin {".", "8bit"}
    /\ wire' = Tail(wire)
    /\ server' = IF server.lines + 1 > MaxBody THEN server ELSE [server EXCEPT !.lines = @ + 1]
    /\ UNCHANGED <<back, client, relayed>>

\* read_data takes a line of the body.  Past the limit it gives up where it is:
\* the rest of the body stays in the stream.
ReadBodyLine ==
    /\ server.mode = "data" /\ wire # <<>> /\ Head(wire).line \notin {".", "8bit"}
    /\ wire' = Tail(wire)
    /\ IF server.lines + 1 > MaxBody
       THEN server' = [server EXCEPT !.mode = "command", !.from = 0, !.rcpts = 0] /\ Answer(552)
       ELSE server' = [server EXCEPT !.lines = @ + 1] /\ UNCHANGED back
    /\ UNCHANGED <<client, relayed>>

\* read_line wants UTF-8: a line in another 8-bit charset is an I/O error that
\* ends the session without a reply.
ReadBadBytes ==
    /\ server.mode = "data" /\ wire # <<>> /\ Head(wire).line = "8bit"
    /\ wire' = Tail(wire)
    /\ server' = [server EXCEPT !.mode = "closed"]
    /\ UNCHANGED <<back, client, relayed>>

\* The end of the body: relay, reply, and a state with only the HELO name.
ReadDot(code) ==
    /\ server.mode = "data" /\ wire # <<>> /\ Head(wire).line = "."
    /\ wire' = Tail(wire)
    /\ relayed' = Append(relayed, [msg |-> server.from, rcpts |-> server.rcpts, lines |-> server.lines])
    /\ server' = [Fresh EXCEPT !.helo = server.helo]
    /\ Answer(code)
    /\ UNCHANGED client

ServeRset ==
    /\ ServerReads("RSET")
    /\ server' = [Fresh EXCEPT !.helo = server.helo]
    /\ Answer(250)
    /\ UNCHANGED <<client, relayed>>

ServeQuit ==
    /\ ServerReads("QUIT")
    /\ server' = [server EXCEPT !.mode = "closed"]
    /\ Answer(221)
    /\ UNCHANGED <<client, relayed>>

\* Anything else, here what is left of a body, is an unknown command.
ServeUnknown(l) ==
    /\ l \in {"text", ".", "8bit"} /\ ServerReads(l)
    /\ IF l = "8bit" THEN server' = [server EXCEPT !.mode = "closed"] /\ UNCHANGED back
       ELSE Answer(500) /\ UNCHANGED server
    /\ UNCHANGED <<client, relayed>>

ServerStep ==
    \/ ServeEhlo \/ ServeData \/ ReadBodyLine \/ ReadBadBytes \/ ServeRset \/ ServeQuit
    \/ \E l \in Lines : ServeMail(l) \/ ServeRcpt(l) \/ ServeUnknown(l)
    \/ \E code \in {250, 451, 554, 421} : ReadDot(code)

-----------------------------------------------------------------------------
(* Postfix.                                                                *)

Tag(ls) == [i \in 1..Len(ls) |-> [line |-> ls[i], msg |-> client.msg]]
Send(ls, expect) == wire' = wire \o Tag(ls) /\ client' = [client EXCEPT !.sent = @ \o Tag(expect)]

\* A new message: the envelope and DATA are pipelined.
SendEnvelope(mail, rcpts) ==
    /\ client.sent = <<>> /\ client.msg < MaxMessages
    /\ LET n  == client.msg + 1
           ls == <<mail>> \o rcpts \o <<"DATA">>
           t  == [i \in 1..Len(ls) |-> [line |-> ls[i], msg |-> n]]
       IN  /\ wire' = wire \o t
           /\ client' = [client EXCEPT !.msg = n, !.sent = t, !.from = FALSE, !.ok = 0,
                                       !.body = Append(@, 0), !.done = Append(@, "open")]
    /\ UNCHANGED <<back, server, relayed>>

\* Replies count in the order of the commands.
Awaited == Head(client.sent).line
Got == client.sent # <<>> /\ back # <<>> /\ back' = Tail(back)
Rest == [client EXCEPT !.sent = Tail(@)]
Close(c, outcome) == [c EXCEPT !.done[c.msg] = outcome]

ReadEnvelopeReply ==
    /\ Got /\ Awaited \in {"MAIL", "MAIL bad", "RCPT", "RCPT bad"}
    /\ LET good == Head(back).code = 250
       IN  client' = IF Awaited \in {"MAIL", "MAIL bad"} THEN [Rest EXCEPT !.from = good]
                     ELSE [Rest EXCEPT !.ok = IF good THEN @ + 1 ELSE @]
    /\ UNCHANGED <<wire, server, relayed>>

\* 354: the body follows.  Otherwise the message is put off, after a reset.
ReadDataReply(body) ==
    /\ Got /\ Awaited = "DATA"
    /\ IF Head(back).code = 354
       THEN /\ wire' = wire \o Tag(body \o <<".">>)
            /\ client' = [Rest EXCEPT !.sent = @ \o Tag(<<".">>), !.body[client.msg] = Len(body)]
       ELSE /\ wire' = wire \o Tag(<<"RSET">>)
            /\ client' = Close([Rest EXCEPT !.sent = @ \o Tag(<<"RSET">>)], "deferred")
    /\ UNCHANGED <<server, relayed>>

ReadFinalReply ==
    /\ Got /\ Awaited = "."
    /\ client' = Close(Rest, CASE Head(back).code = 250 -> "sent"
                               [] Head(back).code \in {552, 554} -> "bounced"
                               [] OTHER -> "deferred")
    /\ UNCHANGED <<wire, server, relayed>>

ReadOtherReply ==
    /\ Got /\ Awaited \in {"EHLO", "RSET", "QUIT"}
    /\ client' = Rest
    /\ UNCHANGED <<wire, server, relayed>>

SendQuit ==
    /\ client.sent = <<>> /\ client.msg = MaxMessages /\ server.mode # "closed"
    /\ Send(<<"QUIT">>, <<"QUIT">>)
    /\ UNCHANGED <<back, server, relayed>>

ClientStep ==
    \/ ReadEnvelopeReply \/ ReadFinalReply \/ ReadOtherReply \/ SendQuit
    \/ \E body \in Bodies : ReadDataReply(body)
    \/ \E mail \in {"MAIL", "MAIL bad"}, rcpts \in RcptLists : SendEnvelope(mail, rcpts)

Init ==
    /\ wire = <<[line |-> "EHLO", msg |-> 0]>> /\ back = <<>> /\ server = Fresh
    /\ client = [NoMessage EXCEPT !.sent = wire] /\ relayed = <<>>

Next == ServerStep \/ ClientStep
Spec == Init /\ [][Next]_vars

-----------------------------------------------------------------------------
TypeOK ==
    /\ wire \in Seq([line : Lines, msg : 0..MaxMessages])
    /\ \A i \in 1..Len(back) : back[i].code \in {221, 250, 354, 421, 451, 452, 500, 501, 503, 552, 554}
    /\ server.rcpts \in 0..MaxRcpts /\ server.lines \in 0..MaxBody
    /\ server.mode \in {"command", "data", "closed"} /\ server.from \in 0..MaxMessages
    /\ client.ok \in Nat /\ Len(client.done) \in 0..MaxMessages

\* No body is longer than the announced SIZE.  A longer one makes read_data
\* leave the rest of the body in the stream, and the two ends lose step.
BodiesFit == \A i \in 1..Len(client.body) : client.body[i] <= MaxBody

\* The two ends agree which reply belongs to which command: as long as the
\* bodies fit, the i-th reply under way answers the i-th open command.
RepliesMatchCommands ==
    BodiesFit => \A i \in 1..Len(back) : i <= Len(client.sent) /\ back[i].to = client.sent[i]

\* A message the client counts as sent was relayed whole and to exactly the
\* recipients the client was told are accepted, and one that is too long is not
\* counted as sent.  Only after a body that was too long, when the two ends have
\* lost step, may a later message be taken for another.
RelayedAsAccepted ==
    [][\A i \in 1..Len(client.done) :
          (/\ client.done[i] = "open" /\ client'.done[i] = "sent"
           /\ \A j \in 1..(i - 1) : client.body[j] <= MaxBody)
          => \E k \in 1..Len(relayed) :
                /\ relayed[k].msg = i
                /\ relayed[k].rcpts = client.ok /\ relayed[k].lines = client.body[i]]_vars

\* No message is handed to the relay twice within a session, nor without
\* recipients, even after the two ends have lost step.
RelayedOnce ==
    /\ \A i, j \in 1..Len(relayed) : relayed[i].msg = relayed[j].msg => i = j
    /\ \A i \in 1..Len(relayed) : relayed[i].rcpts > 0
=============================================================================
