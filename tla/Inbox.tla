------------------------------- MODULE Inbox -------------------------------
(***************************************************************************)
(* InboxPollService.poll over a mailbox that other pollers and the user's  *)
(* own mail client use at the same time: the newest messages of a folder   *)
(* are fetched, the receivers of email_received are asked about each, and  *)
(* the first action one of them returns is applied.                        *)
(*                                                                         *)
(* With IMAP a deletion is two commands and a move three unless the server *)
(* has MOVE; every command is answered OK or NO, which imaplib returns and *)
(* the client does not look at, or the connection breaks.  With Gmail each *)
(* operation is one call that relabels the message.                        *)
(***************************************************************************)
EXTENDS Naturals, FiniteSets, FiniteSetsExt

CONSTANTS
    Pollers,    \* tasks that poll the folder
    MaxUid,     \* bound: messages that arrive
    Setups,     \* the servers, each with what the receivers answer
    Limit,      \* limit of poll
    MaxFaults,  \* bound: commands refused, connections broken, deaths
    MaxMarks    \* bound: changes the user makes to the deletion flags

\* Messages are numbered as they arrive, as IMAP does.
Messages == 1..MaxUid

Actions == {"delete", "move", "mark_read"}
Answers == Actions \cup {"none", "raises"}

\* move, uidplus: what an IMAP server advertises.  answers: those of the
\* receivers to each message, in the order they are connected.
Setup == [mail: {"imap", "gmail"}, move: BOOLEAN, uidplus: BOOLEAN,
          answers: [Messages -> Answers \X Answers]]

ASSUME SetupsAssumption == Setups # {} /\ Setups \subseteq Setup
ASSUME BoundsAssumption ==
    {MaxUid, Limit} \subseteq Nat \ {0} /\ {MaxFaults, MaxMarks} \subseteq Nat

VARIABLES
    setup,      \* the server and the receivers, chosen once
    arrived,    \* messages that have arrived
    inbox,      \* those that are in the folder
    flagged,    \* those of them marked \Deleted
    seen,       \* messages marked \Seen
    trash,      \* messages in the trash of Gmail
    moved,      \* how often each message is in the target folder
    poll,       \* what each poller is doing
    faults,     \* faults so far
    marks,      \* changes the user made so far
    by_user,    \* history: messages the user has marked \Deleted
    refused,    \* history: messages of which a COPY was refused
    disturbed   \* history: moves with a fault, the user or two polls in them

vars == <<setup, arrived, inbox, flagged, seen, trash, moved, poll, faults,
          marks, by_user, refused, disturbed>>

mailbox == <<arrived, inbox, flagged, seen, trash, moved>>
history == <<by_user, refused, disturbed>>

Stages == {"idle", "listed", "next", "read", "act", "copied", "flagged"}
Idle == [stage |-> "idle", todo |-> {}, at |-> 0]

Imap == setup.mail = "imap"

Init ==
    /\ setup \in Setups
    /\ arrived = 0
    /\ inbox = {} /\ flagged = {} /\ seen = {} /\ trash = {}
    /\ moved = [m \in Messages |-> 0]
    /\ poll = [w \in Pollers |-> Idle]
    /\ faults = 0 /\ marks = 0
    /\ by_user = {} /\ refused = {} /\ disturbed = {}

-----------------------------------------------------------------------------
(* The receivers                                                           *)

\* Faulty variant: the exception of a receiver keeps the others from answering.
ActionOfSend(m) ==
    LET a == setup.answers[m]
    IN IF a[1] \in Actions THEN a[1]
       ELSE IF a[1] = "none" /\ a[2] \in Actions THEN a[2] ELSE "none"

\* The first action counts; exceptions and NONE are passed over.
Action(m) ==
    LET a == setup.answers[m]
    IN IF a[1] \in Actions THEN a[1]
       ELSE IF a[2] \in Actions THEN a[2] ELSE "none"

-----------------------------------------------------------------------------
(* The poll                                                                *)

Goes(w, stage, todo, at) ==
    poll' = [poll EXCEPT ![w] = [stage |-> stage, todo |-> todo, at |-> at]]

\* On to the next message, whatever became of this one.
GoesOn(w) == Goes(w, "next", poll[w].todo, 0)

\* The newest messages of the folder, no more than the limit.
Fetched == {m \in inbox : Cardinality({n \in inbox : n > m}) < Limit}

FetchUids(w) ==
    /\ poll[w].stage = "idle"
    /\ Goes(w, "listed", Fetched, 0)
    /\ UNCHANGED <<setup, mailbox, faults, marks, history>>

\* Whether the server can hand out a message it has listed.  Gmail keeps what
\* leaves the folder under its id.
Exists(m) == Imap => m \in inbox

FetchHeaders(w) ==
    /\ poll[w].stage = "listed"
    /\ Goes(w, "next", {m \in poll[w].todo : Exists(m)}, 0)
    /\ UNCHANGED <<setup, mailbox, faults, marks, history>>

\* IMAP answers in the order of the folder, Gmail with the newest first.
Following(w) == IF Imap THEN Min(poll[w].todo) ELSE Max(poll[w].todo)

\* The message is fetched whole; one that is gone is recorded as an error.
Hydrate(w) ==
    /\ poll[w].stage = "next" /\ poll[w].todo # {}
    /\ LET m == Following(w) IN
       /\ IF Exists(m) THEN Goes(w, "read", poll[w].todo \ {m}, m)
                       ELSE Goes(w, "next", poll[w].todo \ {m}, 0)
       /\ disturbed' = disturbed \cup
                         {n \in {m} : \E v \in Pollers \ {w} : poll[v].at = n}
    /\ UNCHANGED <<setup, mailbox, faults, marks, by_user, refused>>

Finish(w) ==
    /\ poll[w].stage = "next" /\ poll[w].todo = {}
    /\ poll' = [poll EXCEPT ![w] = Idle]
    /\ UNCHANGED <<setup, mailbox, faults, marks, history>>

Dispatch(w) ==
    /\ poll[w].stage = "read"
    /\ IF Action(poll[w].at) = "none" THEN GoesOn(w)
       ELSE Goes(w, "act", poll[w].todo, poll[w].at)
    /\ UNCHANGED <<setup, mailbox, faults, marks, history>>

-----------------------------------------------------------------------------
(* The actions                                                             *)

Applies(w, action) == poll[w].stage = "act" /\ Action(poll[w].at) = action

\* delete_uid, move_uid without MOVE: \Deleted is set.
StoreDeleted(w) ==
    /\ Imap
    /\ Applies(w, "delete") \/ poll[w].stage = "copied"
    /\ flagged' = flagged \cup ({poll[w].at} \cap inbox)
    /\ Goes(w, "flagged", poll[w].todo, poll[w].at)
    /\ UNCHANGED <<setup, arrived, inbox, seen, trash, moved, faults, marks,
                   history>>

\* Faulty variant: EXPUNGE, whatever the server can do.
ExpungedAll(m) == flagged

\* _expunge_uid: a server without UIDPLUS removes every message with the flag.
Expunged(m) == IF setup.uidplus THEN flagged \cap {m} ELSE flagged

Expunge(w) ==
    /\ poll[w].stage = "flagged"
    /\ inbox' = inbox \ Expunged(poll[w].at)
    /\ flagged' = flagged \ Expunged(poll[w].at)
    /\ GoesOn(w)
    /\ UNCHANGED <<setup, arrived, seen, trash, moved, faults, marks, history>>

\* move_uid without MOVE: a copy first.
Copy(w) ==
    /\ Imap /\ ~setup.move
    /\ Applies(w, "move")
    /\ moved' = [m \in Messages |->
                   moved[m] + (IF m = poll[w].at /\ m \in inbox THEN 1 ELSE 0)]
    /\ Goes(w, "copied", poll[w].todo, poll[w].at)
    /\ UNCHANGED <<setup, arrived, inbox, flagged, seen, trash, faults, marks,
                   history>>

\* UID MOVE.
Move(w) ==
    /\ Imap /\ setup.move
    /\ Applies(w, "move")
    /\ moved' = [m \in Messages |->
                   moved[m] + (IF m = poll[w].at /\ m \in inbox THEN 1 ELSE 0)]
    /\ inbox' = inbox \ {poll[w].at}
    /\ flagged' = flagged \ {poll[w].at}
    /\ GoesOn(w)
    /\ UNCHANGED <<setup, arrived, seen, trash, faults, marks, history>>

\* modify_labels of Gmail: a label is there or it is not.
Relabel(w) ==
    /\ ~Imap
    /\ Applies(w, "move")
    /\ moved' = [moved EXCEPT ![poll[w].at] = 1]
    /\ inbox' = inbox \ {poll[w].at}
    /\ GoesOn(w)
    /\ UNCHANGED <<setup, arrived, flagged, seen, trash, faults, marks, history>>

\* trash_message of Gmail.
Trash(w) ==
    /\ ~Imap
    /\ Applies(w, "delete")
    /\ trash' = trash \cup {poll[w].at}
    /\ inbox' = inbox \ {poll[w].at}
    /\ GoesOn(w)
    /\ UNCHANGED <<setup, arrived, flagged, seen, moved, faults, marks, history>>

MarkRead(w) ==
    /\ Applies(w, "mark_read")
    /\ seen' = seen \cup {m \in {poll[w].at} : Exists(m)}
    /\ GoesOn(w)
    /\ UNCHANGED <<setup, arrived, inbox, flagged, trash, moved, faults, marks,
                   history>>

-----------------------------------------------------------------------------
(* What goes wrong, and who else is there                                  *)

\* The message whose move is half done.
HalfMoved(w) ==
    {m \in {poll[w].at} : /\ poll[w].stage \in {"copied", "flagged"}
                          /\ Action(m) = "move"}

\* The server answers NO, as to a COPY to a folder that is full or missing: the
\* client goes on with the next command.
Refuse(w) ==
    /\ Imap
    /\ faults < MaxFaults
    /\ faults' = faults + 1
    /\ \/ /\ Applies(w, "move") /\ ~setup.move
          /\ refused' = refused \cup {poll[w].at}
          /\ Goes(w, "copied", poll[w].todo, poll[w].at)
       \/ /\ Applies(w, "delete") \/ poll[w].stage = "copied"
          /\ Goes(w, "flagged", poll[w].todo, poll[w].at)
          /\ UNCHANGED refused
       \/ /\ \/ Applies(w, "move") /\ setup.move
             \/ Applies(w, "mark_read")
             \/ poll[w].stage = "flagged"
          /\ GoesOn(w)
          /\ UNCHANGED refused
    /\ disturbed' = disturbed \cup HalfMoved(w)
    /\ UNCHANGED <<setup, mailbox, marks, by_user>>

\* The call raises.  In fetch_messages that ends the poll; get_message and the
\* actions are caught, and the poll goes on with the next message.
Break(w) ==
    /\ faults < MaxFaults
    /\ faults' = faults + 1
    /\ \/ /\ poll[w].stage = "listed"
          /\ poll' = [poll EXCEPT ![w] = Idle]
       \/ /\ poll[w].stage = "next" /\ poll[w].todo # {}
          /\ Goes(w, "next", poll[w].todo \ {Following(w)}, 0)
       \/ /\ poll[w].stage \in {"act", "copied", "flagged"}
          /\ GoesOn(w)
    /\ disturbed' = disturbed \cup HalfMoved(w)
    /\ UNCHANGED <<setup, mailbox, marks, by_user, refused>>

Die(w) ==
    /\ poll[w].stage # "idle"
    /\ faults < MaxFaults
    /\ faults' = faults + 1
    /\ poll' = [poll EXCEPT ![w] = Idle]
    /\ disturbed' = disturbed \cup HalfMoved(w)
    /\ UNCHANGED <<setup, mailbox, marks, by_user, refused>>

Arrive ==
    /\ arrived < MaxUid
    /\ arrived' = arrived + 1
    /\ inbox' = inbox \cup {arrived'}
    /\ UNCHANGED <<setup, flagged, seen, trash, moved, poll, faults, marks,
                   history>>

\* The user's mail client marks a message \Deleted; it is his until he empties
\* the folder, or changes his mind.
Flag(m) ==
    /\ Imap
    /\ marks < MaxMarks
    /\ m \in inbox \ flagged
    /\ marks' = marks + 1
    /\ flagged' = flagged \cup {m}
    /\ by_user' = by_user \cup {m}
    /\ UNCHANGED <<setup, arrived, inbox, seen, trash, moved, poll, faults,
                   refused, disturbed>>

Unflag(m) ==
    /\ marks < MaxMarks
    /\ m \in flagged
    /\ marks' = marks + 1
    /\ flagged' = flagged \ {m}
    /\ by_user' = by_user \ {m}
    /\ disturbed' = disturbed \cup {m}
    /\ UNCHANGED <<setup, arrived, inbox, seen, trash, moved, poll, faults,
                   refused>>

Work(w) ==
    \/ FetchUids(w) \/ FetchHeaders(w) \/ Hydrate(w) \/ Dispatch(w)
    \/ StoreDeleted(w) \/ Expunge(w) \/ Copy(w) \/ Move(w)
    \/ Relabel(w) \/ Trash(w) \/ MarkRead(w)
    \/ Finish(w)

Next ==
    \/ \E w \in Pollers : Work(w) \/ Refuse(w) \/ Break(w) \/ Die(w)
    \/ Arrive
    \/ \E m \in Messages : Flag(m) \/ Unflag(m)

Spec == Init /\ [][Next]_vars

\* The host polls again and again, and a poll that runs goes on.
FairSpec == Spec /\ \A w \in Pollers : WF_vars(Work(w))

-----------------------------------------------------------------------------
(* What a poll does to a mailbox                                           *)

TypeOK ==
    /\ setup \in Setups
    /\ arrived \in 0..MaxUid
    /\ inbox \subseteq 1..arrived
    /\ flagged \subseteq inbox
    /\ seen \subseteq 1..arrived /\ trash \subseteq 1..arrived
    /\ moved \in [Messages -> Nat]
    /\ poll \in [Pollers -> [stage: Stages, todo: SUBSET Messages,
                             at: Messages \cup {0}]]
    /\ faults \in 0..MaxFaults /\ marks \in 0..MaxMarks
    /\ by_user \subseteq Messages /\ refused \subseteq Messages
    /\ disturbed \subseteq Messages

\* The first of the receivers' answers that is an action is one of these.
Wants(m, actions) ==
    \E i \in 1..2 : /\ setup.answers[m][i] \in actions
                   /\ \A j \in 1..i - 1 : setup.answers[m][j] \notin Actions

\* No mail is lost that the first receiver with an opinion did not want deleted:
\* it is in its folder, in the target folder or in the trash.  That a message is
\* marked by the user does not make it the poller's to remove, unless the server
\* knows no other EXPUNGE; and a COPY that is refused goes unnoticed (see there).
\* And none is doubled: a message is moved once, unless a fault, the user or
\* another poll came between the commands of its move.
MailKept ==
    /\ \A m \in 1..arrived \ inbox :
         \/ Wants(m, {"delete"})
         \/ moved[m] > 0 \/ m \in trash
         \/ m \in refused
         \/ m \in by_user /\ ~setup.uidplus
    /\ \A m \in Messages : moved[m] > 1 => m \in disturbed

\* Messages that stay in the folder after they were handled.
Stays == {m \in Messages : ~Wants(m, {"delete", "move"})}

\* However many messages wait, each that is to leave the folder does, as long as
\* those that stay do not fill the limit of a poll by themselves.
BacklogDrains ==
    Cardinality(Stays) < Limit =>
        \A m \in Messages : (m \in inbox /\ m \notin Stays) ~> m \notin inbox

=============================================================================
