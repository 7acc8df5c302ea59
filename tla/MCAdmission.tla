---------------------------- MODULE MCAdmission ----------------------------
EXTENDS Admission

CONSTANTS w1, w2, w3, c1, c2  \* webhooks and calls, as model values

\* w2 is a second delivery of w1's webhook.
CallOfWebhook == [w \in Webhooks |-> IF w = w3 THEN c2 ELSE c1]

Cast(webhooks, troubles) == [webhooks |-> webhooks, troubles |-> troubles]

\* A webhook delivered twice, without and with transfers; one call with everything
\* that is written to it late; two calls, of which a restart reloads one; the gates.
FiveCasts == {Cast({w1, w2}, {"failure", "maintenance", "hangup"}),
              Cast({w1, w2}, {"transfer", "restart"}),
              Cast({w1}, {"failure", "maintenance", "hangup", "restart", "transfer"}),
              Cast({w1, w3}, {"failure", "restart", "hangup"}),
              Cast({w1}, {"restart", "spending", "outage"})}

=============================================================================
