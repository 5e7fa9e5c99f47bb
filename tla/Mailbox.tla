------------------------------ MODULE Mailbox ------------------------------
(***************************************************************************)
(* What a node's control queue promises the rest of the program: a Restart *)
(* that was accepted is done by the next cycle to open, and a Stop is      *)
(* heard, once, after which no cycle opens. Ctl implements it.             *)
(***************************************************************************)
VARIABLES
  asked,   \* a Restart was accepted, and no cycle has opened since
  stop,    \* "no", "sent", "heard"
  open     \* a cycle runs

mailVars == <<asked, stop, open>>

MailInit == asked = FALSE /\ stop = "no" /\ open = FALSE

Ask      == asked' = TRUE /\ UNCHANGED <<stop, open>>
SendStop == stop = "no" /\ stop' = "sent" /\ UNCHANGED <<asked, open>>
Close    == open /\ open' = FALSE /\ UNCHANGED <<asked, stop>>
Open     == ~open /\ stop # "heard" /\ open' = TRUE /\ asked' = FALSE /\ UNCHANGED stop
Hear     == stop = "sent" /\ stop' = "heard" /\ UNCHANGED <<asked, open>>

MailNext == Ask \/ SendStop \/ Close \/ Open \/ Hear

(* Safety, and that the Stop is heard.                                     *)
MailSafe == MailInit /\ [][MailNext]_mailVars
MailSpec == MailSafe /\ WF_mailVars(Hear)
=============================================================================
