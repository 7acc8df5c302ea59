---------------------------- MODULE MCToolDesk ----------------------------
EXTENDS ToolDesk

CONSTANTS s1, s2, s3, s4, s5, s6, jt001, none77, home, office, t1, t2, t3, t4

OnePhone == [a \in {jt001} |-> [line |-> home, form |-> "e164"]]

\* jt001 is a customer, none77 is nobody's account.
GivenAccounts == [s \in Sessions |-> CASE s = s4 -> {jt001} [] s = s5 -> {none77}
                                         [] s = s6 -> {jt001}
                                         [] OTHER -> Accounts]

\* s1's number comes without the +1; the others' callers are strangers.
CallerNumbers == [s \in Sessions |-> IF s = s1 THEN [line |-> home, form |-> "ten"]
                                               ELSE [line |-> office, form |-> "e164"]]

TicketWrites == {"create_ticket", "update_ticket", "close_ticket"}

\* s1 may call every tool that writes no ticket, and is alone; s2 and s3 update the
\* same ticket, s4 and s5 create tickets; s6 is alone, creates tickets, and may ask
\* again after a failure.
Repertoires == [s \in Sessions |-> CASE s = s1 -> (ToolNames \cup DOMAIN Synonyms) \ TicketWrites
                                     [] s \in {s2, s3} -> {"update_ticket"}
                                     [] s = s6 -> {"create_ticket", "get_ticket"}
                                     [] OTHER -> {"create_ticket"}]

Together == {{s1}, {s2, s3}, {s4, s5}, {s6}}

OneLeft == [s \in Sessions |-> IF s = s6 THEN 0 ELSE 1]

OneOpen == [t \in {t1} |-> "open"]

=============================================================================
