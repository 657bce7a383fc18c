------------------------------- MODULE MCInbox -------------------------------
(* Instances of Inbox for TLC.                                               *)
EXTENDS Inbox

Gmail == [mail |-> "gmail", move |-> FALSE, uidplus |-> FALSE]
Capable == [mail |-> "imap", move |-> TRUE, uidplus |-> TRUE]
WithUidPlus == [mail |-> "imap", move |-> FALSE, uidplus |-> TRUE]
Plain == [mail |-> "imap", move |-> FALSE, uidplus |-> FALSE]

\* A message that stays between two that leave, or after them; receivers that
\* fail, have no opinion or come too late.
Between == << <<"none", "move">>, <<"mark_read", "delete">>, <<"raises", "delete">> >>
After == << <<"raises", "delete">>, <<"move", "delete">>, <<"none", "raises">> >>

MCSetups ==
    {[mail |-> c[1].mail, move |-> c[1].move, uidplus |-> c[1].uidplus,
      answers |-> c[2]] :
        c \in {<<Gmail, Between>>, <<Capable, After>>, <<WithUidPlus, Between>>,
               <<Plain, After>>}}

=============================================================================
