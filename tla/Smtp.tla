-------------------------------- MODULE Smtp --------------------------------
(***************************************************************************)
(* src/netutils/smtp/smtp.c: mails are sent over one handle, each with a   *)
(* connection of its own, to a server that may refuse, and may close the   *)
(* connection.  Of what the handle's buffer holds only the beginning       *)
(* counts: "220", another reply by its first digit, or "text".  send takes *)
(* all it is given or fails.                                               *)
(***************************************************************************)
EXTENDS Integers, Sequences, SequencesExt

CONSTANTS
  Mails,      \* records with from, to, and cc, which may be ""
  MaxMails    \* calls of smtp_send

VARIABLES
  smtp,       \* the handle, and how far smtp_send is
  smtpd,      \* the server's connection (external)
  toSmtpd,    \* what has been said and not heard by the server
  toSmtp,     \* replies that smtp_send has not received
  mailing     \* calls of smtp_send

----------------------------------------------------------------------------
(* What smtp_send_message says and wants to hear, in its order; what is    *)
(* put together is put together in the buffer.                             *)
Hear(what) == [does |-> "hear", what |-> what, buffered |-> TRUE]
Compose(what) == [does |-> "say", what |-> what, buffered |-> TRUE]
Say(what) == [does |-> "say", what |-> what, buffered |-> FALSE]

Headers(mail) ==
  <<<<"To", mail.to>>>> \o (IF mail.cc = "" THEN <<>> ELSE <<<<"To", mail.cc>>>>)
    \o <<<<"From", mail.from>>, <<"Subject">>>>

Dialogue(mail) ==
  <<Hear("220"), Compose(<<"HELO">>), Hear("2"),
    Compose(<<"MAIL", mail.from>>), Hear("2"), Compose(<<"RCPT", mail.to>>), Hear("2")>>
    \o (IF mail.cc = "" THEN <<>> ELSE <<Compose(<<"RCPT", mail.cc>>), Hear("2")>>)
    \o <<Say(<<"DATA">>), Hear("3")>>
    \o [k \in DOMAIN Headers(mail) |-> Compose(Headers(mail)[k])]
    \o <<Say(<<"text">>), Say(<<".">>), Hear("2"), Say(<<"QUIT">>)>>

Matches(buffer, what) == buffer = what \/ (buffer = "220" /\ what = "2")

NoMail == [from |-> "", to |-> "", cc |-> ""]
NoServer == [state |-> "none", from |-> "", receivers |-> <<>>, data |-> <<>>, accepted |-> FALSE]

SmtpInit ==
  /\ smtp = [open |-> FALSE, mail |-> NoMail, at |-> 0, buffer |-> "zero", ret |-> "none",
             stale |-> FALSE]
  /\ smtpd = NoServer /\ toSmtpd = <<>> /\ toSmtp = <<>> /\ mailing = 0

Sending == smtp.at > 0
Step == Dialogue(smtp.mail)[smtp.at]

(* smtp_send_message returns, and smtp_send closes the socket.             *)
Returns(h, ret) == [h EXCEPT !.at = 0, !.ret = ret]

Onward(h) == IF h.at = Len(Dialogue(h.mail)) THEN Returns(h, "OK") ELSE [h EXCEPT !.at = @ + 1]

----------------------------------------------------------------------------
SmtpOpen ==
  /\ ~smtp.open
  /\ smtp' = [smtp EXCEPT !.open = TRUE, !.buffer = "zero", !.ret = "none"]
  /\ UNCHANGED <<smtpd, toSmtpd, toSmtp, mailing>>

SmtpClose ==
  /\ smtp.open /\ ~Sending
  /\ smtp' = [smtp EXCEPT !.open = FALSE]
  /\ UNCHANGED <<smtpd, toSmtpd, toSmtp, mailing>>

(* smtp_send: the server may not be reached.                               *)
SmtpSend(mail, reached) ==
  /\ smtp.open /\ ~Sending /\ mailing < MaxMails
  /\ mailing' = mailing + 1 /\ toSmtpd' = <<>>
  /\ smtp' = [smtp EXCEPT !.mail = mail, !.at = IF reached THEN 1 ELSE 0,
                          !.ret = IF reached THEN "none" ELSE "ERROR"]
  /\ smtpd' = IF reached THEN [NoServer EXCEPT !.state = "new"] ELSE NoServer
  /\ toSmtp' = <<>>

(* recv: a reply comes, or none from a server that has closed, and the     *)
(* buffer is what it was.                                                  *)
Receive ==
  LET nothing == toSmtp = <<>>
      heard   == [smtp EXCEPT !.buffer = IF nothing THEN @ ELSE Head(toSmtp)]
  IN
  /\ Sending /\ Step.does = "hear"
  /\ nothing => smtpd.state = "gone"
  /\ toSmtp' = IF nothing THEN <<>> ELSE Tail(toSmtp)
  /\ smtp' = IF Matches(heard.buffer, Step.what)
             THEN Onward([heard EXCEPT !.stale = @ \/ nothing])
             ELSE Returns(heard, "ERROR")
  /\ UNCHANGED <<smtpd, toSmtpd, mailing>>

(* A mutant puts what it says together elsewhere.                          *)
BufferedElsewhere(buffer) == buffer

Buffered(buffer) == IF Step.buffered THEN "text" ELSE buffer

Tell ==
  /\ Sending /\ Step.does = "say"
  /\ toSmtpd' = IF smtpd.state = "gone" THEN toSmtpd ELSE Append(toSmtpd, Step.what)
  /\ smtp' = Onward([smtp EXCEPT !.buffer = Buffered(@)])
  /\ UNCHANGED <<smtpd, toSmtp, mailing>>

(* recv or send fails.                                                     *)
Fail ==
  /\ Sending
  /\ smtp' = Returns([smtp EXCEPT !.buffer = IF Step.does = "say" THEN Buffered(@) ELSE @],
                     "ERROR")
  /\ UNCHANGED <<smtpd, toSmtpd, toSmtp, mailing>>

----------------------------------------------------------------------------
(* The server (external): it does as it is told and says so, or refuses.   *)
(* Each reply comes whole.                                                 *)
Answers(reply, then) ==
  \/ toSmtp' = Append(toSmtp, reply) /\ smtpd' = then
  \/ toSmtp' = Append(toSmtp, "5") /\ smtpd' = smtpd

Greet ==
  /\ smtpd.state = "new"
  /\ \/ toSmtp' = <<"220">> /\ smtpd' = [smtpd EXCEPT !.state = "commands"]
     \/ toSmtp' = <<"5">> /\ smtpd' = [smtpd EXCEPT !.state = "gone"]
  /\ UNCHANGED <<smtp, toSmtpd, mailing>>

Obey ==
  LET said == Head(toSmtpd) IN
  /\ smtpd.state = "commands" /\ toSmtpd # <<>>
  /\ toSmtpd' = Tail(toSmtpd)
  /\ \/ said[1] = "HELO" /\ Answers("2", smtpd)
     \/ said[1] = "MAIL" /\ Answers("2", [smtpd EXCEPT !.from = said[2]])
     \/ said[1] = "RCPT" /\ Answers("2", [smtpd EXCEPT !.receivers = Append(@, said[2])])
     \/ said[1] = "DATA" /\ Answers("3", [smtpd EXCEPT !.state = "data"])
     \/ /\ said[1] \notin {"HELO", "MAIL", "RCPT", "DATA"}
        /\ toSmtp' = Append(toSmtp, "5")
        /\ smtpd' = IF said[1] = "QUIT" THEN [smtpd EXCEPT !.state = "gone"] ELSE smtpd
  /\ UNCHANGED <<smtp, mailing>>

TakeData ==
  LET said == Head(toSmtpd) IN
  /\ smtpd.state = "data" /\ toSmtpd # <<>>
  /\ toSmtpd' = Tail(toSmtpd)
  /\ \/ said # <<".">> /\ smtpd' = [smtpd EXCEPT !.data = Append(@, said)] /\ UNCHANGED toSmtp
     \/ said = <<".">> /\ Answers("2", [smtpd EXCEPT !.state = "commands", !.accepted = TRUE])
  /\ UNCHANGED <<smtp, mailing>>

HangUp ==
  /\ smtpd.state \in {"new", "commands", "data"}
  /\ smtpd' = [smtpd EXCEPT !.state = "gone"] /\ toSmtpd' = <<>>
  /\ UNCHANGED <<smtp, toSmtp, mailing>>

SmtpNext ==
  \/ SmtpOpen \/ SmtpClose \/ Receive \/ Tell \/ Fail \/ Greet \/ Obey \/ TakeData \/ HangUp
  \/ \E mail \in Mails, reached \in BOOLEAN : SmtpSend(mail, reached)

----------------------------------------------------------------------------
(* A mail that is reported sent has been accepted by the server, whole and *)
(* for each receiver, whatever it refuses; and a connection that is closed *)
(* is not taken for an answer, though the buffer holds an earlier one.     *)
MailsAccepted ==
  /\ smtp.ret = "OK" =>
       /\ smtpd.accepted /\ smtpd.from = smtp.mail.from
       /\ smtpd.receivers = <<smtp.mail.to>>
            \o (IF smtp.mail.cc = "" THEN <<>> ELSE <<smtp.mail.cc>>)
       /\ smtpd.data = Append(Headers(smtp.mail), <<"text">>)
  /\ ~smtp.stale

=============================================================================
