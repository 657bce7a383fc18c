------------------------------ MODULE InboxProofs ------------------------------
(***************************************************************************)
(* Proofs about Inbox, for any number of polls and messages, any servers   *)
(* and any answers of the receivers: whatever polls, users and faults come *)
(* between the commands of a deletion or a move, no mail is lost, and none *)
(* is doubled that nothing came between.                                   *)
(***************************************************************************)
EXTENDS Inbox, WellFoundedInduction, TLAPS

-----------------------------------------------------------------------------
(* What is known of a message                                              *)

\* The messages of a poll have arrived; it holds one while it reads and acts.
Polled ==
    \A w \in Pollers :
        /\ poll[w].todo \subseteq 1..arrived
        /\ poll[w].at \in 0..arrived
        /\ poll[w].at = 0 <=> poll[w].stage \in {"idle", "listed", "next"}
        /\ poll[w].stage \in {"copied", "flagged"} => Imap

\* Gmail has no deletion flags.
Flags == Imap \/ flagged = {}

\* Whoever takes the message out of its folder may: it is wanted deleted, it is
\* in the target folder or the trash, its copy was refused unnoticed, or the
\* user has marked it.
MayGo(m) ==
    \/ Action(m) = "delete"
    \/ moved[m] > 0 \/ m \in trash
    \/ m \in refused

\* No message is moved before it has arrived.
Late == \A m \in Messages : moved[m] > 0 => m <= arrived

\* A message that is gone, or is marked and goes with the next EXPUNGE, may go.
Accounted ==
    /\ \A m \in 1..arrived \ inbox :
         MayGo(m) \/ (m \in by_user /\ ~setup.uidplus)
    /\ \A m \in flagged : MayGo(m) \/ m \in by_user

\* So does the message that a poll has copied or marked.
CopiedBy(w) ==
    /\ poll[w].stage = "copied" => Action(poll[w].at) = "move"
    /\ poll[w].stage = "flagged" => Action(poll[w].at) \in {"delete", "move"}
    /\ poll[w].stage \in {"copied", "flagged"} /\ poll[w].at \in inbox =>
         MayGo(poll[w].at)

Copied == \A w \in Pollers : CopiedBy(w)

\* The poll that has copied a message and is about to take it out.
Moving(w, m) ==
    /\ poll[w].at = m
    /\ poll[w].stage \in {"copied", "flagged"}
    /\ Action(m) = "move"
    /\ poll[w].stage = "flagged" => m \in flagged

\* A message that nothing came between is held by one poll at a time, and is in
\* both folders only while that poll is between the commands of its move.
Alone(m) ==
    /\ moved[m] <= 1
    /\ \A v, w \in Pollers : poll[v].at = m /\ poll[w].at = m => v = w
    /\ m \in inbox /\ moved[m] > 0 => \E w \in Pollers : Moving(w, m)

InboxInv ==
    /\ TypeOK /\ Polled /\ Flags /\ Late /\ Accounted /\ Copied
    /\ \A m \in Messages \ disturbed : Alone(m)

-----------------------------------------------------------------------------
(* The data                                                                *)

LEMMA LeastExists ==
    ASSUME NEW S \in SUBSET Nat, S # {}
    PROVE  \E x \in S : \A y \in S : x <= y
<1> DEFINE R == OpToRel(<, Nat)
<1>1. IsWellFoundedOn(R, Nat)
  BY NatLessThanWellFounded
<1>2. \A x, y \in Nat : y < x => <<y, x>> \in R
  BY DEF OpToRel
<1> HIDE DEF R
<1>3. PICK x \in S : \A y \in S : ~(<<y, x>> \in R)
  BY <1>1, WFMin, Zenon
<1>4. \A y \in S : ~(y < x)
  BY <1>2, <1>3
<1> QED
  BY <1>4

LEMMA GreatestExists ==
    ASSUME NEW n \in Nat, NEW S \in SUBSET (1..n), S # {}
    PROVE  \E x \in S : \A y \in S : x >= y
<1> DEFINE T == {n - x : x \in S}
<1>1. T \in SUBSET Nat /\ T # {}
  <2>1. \A x \in S : n - x \in Nat
    OBVIOUS
  <2> QED
    BY <2>1
<1> HIDE DEF T
<1>2. PICK t \in T : \A u \in T : t <= u
  BY <1>1, LeastExists
<1>3. PICK x \in S : t = n - x
  BY DEF T
<1>4. \A y \in S : n - y \in T
  BY DEF T
<1>5. \A y \in S : n - x <= n - y
  BY <1>2, <1>3, <1>4
<1>6. \A y \in S : x >= y
  BY <1>5
<1> QED
  BY <1>6

\* The next message of a poll is one of those it has left.
LEMMA FollowingIsThere ==
    ASSUME TypeOK, Polled, NEW w \in Pollers, poll[w].todo # {}
    PROVE  Following(w) \in poll[w].todo
<1> DEFINE S == poll[w].todo
<1>1. S \subseteq 1..arrived /\ arrived \in Nat /\ S # {}
  BY BoundsAssumption DEF TypeOK, Polled
<1>2. S \in SUBSET Nat
  BY <1>1
<1> HIDE DEF S
<1>3. \E x \in S : \A y \in S : x <= y
  BY <1>1, <1>2, LeastExists
<1>4. \E x \in S : \A y \in S : x >= y
  BY <1>1, GreatestExists
<1>5. Min(S) \in S
  BY <1>3 DEF Min
<1>6. Max(S) \in S
  BY <1>4 DEF Max
<1> QED
  BY <1>5, <1>6 DEF Following, S

LEMMA Typed ==
    ASSUME TypeOK
    PROVE  /\ arrived \in Nat /\ MaxUid \in Nat /\ arrived <= MaxUid
           /\ MaxFaults \in Nat
           /\ 1..arrived \subseteq Messages
           /\ inbox \subseteq Messages /\ flagged \subseteq Messages
           /\ setup \in Setup
BY BoundsAssumption, SetupsAssumption DEF TypeOK, Messages

\* Wants and Action read the receivers' answers alike.
LEMMA WantsAction ==
    ASSUME TypeOK, NEW m \in Messages
    PROVE  Wants(m, {"delete"}) <=> Action(m) = "delete"
<1>1. setup.answers[m] \in Answers \X Answers
  BY Typed DEF Setup
<1>2. PICK a \in Answers, b \in Answers : setup.answers[m] = <<a, b>>
  BY <1>1
<1>3. setup.answers[m][1] = a /\ setup.answers[m][2] = b
  BY <1>2
<1>4. Wants(m, {"delete"}) <=> \/ a = "delete"
                               \/ b = "delete" /\ a \notin Actions
  <2>1. ASSUME Wants(m, {"delete"})
        PROVE  a = "delete" \/ (b = "delete" /\ a \notin Actions)
    <3>1. PICK i \in 1..2 :
            /\ setup.answers[m][i] = "delete"
            /\ \A j \in 1..i - 1 : setup.answers[m][j] \notin Actions
      BY <2>1 DEF Wants
    <3>2. i = 1 \/ i = 2
      OBVIOUS
    <3> QED
      BY <1>3, <3>1, <3>2
  <2>2. ASSUME a = "delete" PROVE Wants(m, {"delete"})
    <3>1. 1 \in 1..2 /\ 1..1 - 1 = {}
      OBVIOUS
    <3> QED
      BY <1>3, <2>2, <3>1 DEF Wants
  <2>3. ASSUME b = "delete", a \notin Actions PROVE Wants(m, {"delete"})
    <3>1. 2 \in 1..2 /\ \A j \in 1..2 - 1 : j = 1
      OBVIOUS
    <3> QED
      BY <1>3, <2>3, <3>1 DEF Wants
  <2> QED
    BY <2>1, <2>2, <2>3
<1>5. Action(m) = "delete" <=> \/ a = "delete"
                               \/ b = "delete" /\ a \notin Actions
  BY <1>3 DEF Action, Actions
<1> QED
  BY <1>4, <1>5

-----------------------------------------------------------------------------
(* The invariant over the steps of a poll                                  *)

Poll == [stage: Stages, todo: SUBSET Messages, at: Messages \cup {0}]

\* What a poll does to the mailbox: mail leaves the folder and is found
\* somewhere else, and what happened to it is not forgotten.
Forward ==
    /\ UNCHANGED <<setup, arrived, by_user, marks>>
    /\ inbox' \subseteq inbox
    /\ flagged' \subseteq inbox'
    /\ ~Imap => flagged' = {}
    /\ seen' \subseteq 1..arrived
    /\ trash \subseteq trash' /\ trash' \subseteq 1..arrived
    /\ moved' \in [Messages -> Nat]
    /\ \A m \in Messages : moved[m] > 0 => moved'[m] > 0
    /\ \A m \in Messages : moved'[m] > 0 => moved[m] > 0 \/ m <= arrived
    /\ faults' \in 0..MaxFaults
    /\ refused \subseteq refused' /\ refused' \subseteq Messages
    /\ disturbed \subseteq disturbed' /\ disturbed' \subseteq Messages

\* The record of a poll goes with the state.
Fits(r) ==
    /\ r \in Poll
    /\ r.todo \subseteq 1..arrived
    /\ r.at \in 0..arrived
    /\ r.at = 0 <=> r.stage \in {"idle", "listed", "next"}
    /\ r.stage \in {"copied", "flagged"} => Imap

\* What a step makes of a message that nothing came between.
Undisturbed(w, m) ==
    /\ moved'[m] <= 1
    /\ \/ poll'[w].at # m
       \/ poll[w].at = m
       \/ \A v \in Pollers \ {w} : poll[v].at # m
    /\ m \in flagged /\ m \in inbox' => m \in flagged'
    /\ m \in inbox' /\ moved'[m] > 0 =>
         \/ Moving(w, m)'
         \/ m \in inbox /\ moved[m] > 0 /\ ~Moving(w, m)

LEMMA StillGoes ==
    ASSUME Forward, NEW m \in Messages, MayGo(m)
    PROVE  MayGo(m)'
BY DEF Forward, MayGo, Action

LEMMA StillAlone ==
    ASSUME TypeOK, Forward, NEW w \in Pollers, NEW m \in Messages, Alone(m),
           \A v \in Pollers : v # w => poll'[v] = poll[v],
           Undisturbed(w, m)
    PROVE  Alone(m)'
<1>1. Action(m)' = Action(m)
  BY DEF Forward, Action
<1>2. \A u, v \in Pollers : poll'[u].at = m /\ poll'[v].at = m => u = v
  <2> SUFFICES ASSUME NEW u \in Pollers, NEW v \in Pollers, u # v,
                      poll'[u].at = m, poll'[v].at = m
               PROVE  FALSE
    OBVIOUS
  <2>1. CASE u = w
    BY <2>1 DEF Alone, Undisturbed
  <2>2. CASE v = w
    BY <2>2 DEF Alone, Undisturbed
  <2>3. CASE u # w /\ v # w
    BY <2>3 DEF Alone
  <2> QED
    BY <2>1, <2>2, <2>3
<1>3. ASSUME m \in inbox', moved'[m] > 0
      PROVE  \E v \in Pollers : Moving(v, m)'
  <2>1. CASE Moving(w, m)'
    BY <2>1
  <2>2. CASE m \in inbox /\ moved[m] > 0 /\ ~Moving(w, m)
    <3>1. PICK v \in Pollers : Moving(v, m)
      BY <2>2 DEF Alone
    <3>2. poll'[v] = poll[v]
      BY <2>2, <3>1
    <3>3. m \in flagged => m \in flagged'
      BY <1>3 DEF Undisturbed
    <3>4. Moving(v, m)'
      BY <1>1, <3>1, <3>2, <3>3 DEF Moving
    <3> QED
      BY <3>4
  <2> QED
    BY <1>3, <2>1, <2>2 DEF Undisturbed
<1> QED
  BY <1>2, <1>3 DEF Alone, Undisturbed

\* A step of one poll keeps the invariant: what it takes out of the folder, or
\* marks, may go, and so may the message it has copied.
LEMMA PollKeeps ==
    ASSUME InboxInv, Forward, NEW w \in Pollers, NEW r, Fits(r),
           poll' = [poll EXCEPT ![w] = r],
           \A m \in inbox \ inbox' :
             MayGo(m)' \/ (m \in by_user /\ ~setup.uidplus),
           \A m \in flagged' \ flagged : MayGo(m)',
           r.stage = "copied" => Action(r.at) = "move",
           r.stage = "flagged" => Action(r.at) \in {"delete", "move"},
           r.stage \in {"copied", "flagged"} =>
             \A m \in inbox' : m = r.at => MayGo(m)',
           \A m \in Messages \ disturbed' : Undisturbed(w, m)
    PROVE  InboxInv'
<1>1. /\ TypeOK /\ Polled /\ Flags /\ Late /\ Accounted /\ Copied
      /\ setup' = setup /\ arrived' = arrived /\ by_user' = by_user
      /\ marks' = marks /\ faults' \in 0..MaxFaults
      /\ (Imap <=> Imap')
  BY DEF InboxInv, Forward, Imap
<1>2. /\ poll' \in [Pollers -> Poll] /\ poll'[w] = r
      /\ \A v \in Pollers : v # w => poll'[v] = poll[v]
  BY <1>1 DEF TypeOK, Poll, Fits
<1>3. TypeOK'
  <2>1. inbox' \subseteq 1..arrived
    BY <1>1 DEF TypeOK, Forward
  <2> QED
    BY <1>1, <1>2, <2>1 DEF TypeOK, Forward, Poll
<1>4. Polled'
  BY <1>1, <1>2 DEF Polled, Fits
<1>5. Flags' /\ Late'
  BY <1>1, Typed DEF Flags, Forward, Late
<1>6. Accounted'
  <2>1. ASSUME NEW m \in (1..arrived) \ inbox'
        PROVE  MayGo(m)' \/ (m \in by_user /\ ~setup.uidplus)
    <3>1. m \in Messages
      BY <1>1, Typed
    <3> QED
      BY <1>1, <3>1, StillGoes DEF Accounted
  <2>2. ASSUME NEW m \in flagged' PROVE MayGo(m)' \/ m \in by_user
    <3>1. m \in Messages
      BY <1>1, Typed DEF Forward
    <3> QED
      BY <1>1, <3>1, StillGoes DEF Accounted
  <2> QED
    BY <1>1, <2>1, <2>2 DEF Accounted
<1>7. Copied'
  <2> SUFFICES ASSUME NEW v \in Pollers PROVE CopiedBy(v)'
    BY DEF Copied
  <2>1. PICK q \in Poll : q = poll'[v]
    BY <1>2
  <2>2. /\ q.stage = "copied" => Action(q.at) = "move"
        /\ q.stage = "flagged" => Action(q.at) \in {"delete", "move"}
        /\ q.stage \in {"copied", "flagged"} =>
             \A m \in inbox' : m = q.at => MayGo(m)'
    <3>1. CASE v = w
      BY <1>2, <2>1, <3>1
    <3>2. CASE v # w
      <4>1. q = poll[v]
        BY <1>2, <2>1, <3>2
      <4>2. inbox' \subseteq inbox /\ inbox \subseteq Messages
        BY <1>1, Typed DEF Forward
      <4>3. q.stage \in {"copied", "flagged"} =>
              \A m \in inbox' : m = q.at => MayGo(m)
        BY <1>1, <4>1, <4>2 DEF Copied, CopiedBy
      <4>4. q.stage \in {"copied", "flagged"} =>
              \A m \in inbox' : m = q.at => MayGo(m)'
        BY <4>2, <4>3, StillGoes
      <4> QED
        BY <1>1, <4>1, <4>4 DEF Copied, CopiedBy
    <3> QED
      BY <3>1, <3>2
  <2>3. Action(q.at)' = Action(q.at)
    BY <1>1 DEF Action
  <2> QED
    BY <2>1, <2>2, <2>3 DEF CopiedBy
<1>8. \A m \in Messages \ disturbed' : Alone(m)'
  BY <1>1, <1>2, StillAlone DEF InboxInv, Forward
<1> QED
  BY <1>3, <1>4, <1>5, <1>6, <1>7, <1>8 DEF InboxInv

\* A poll goes on, is refused or ends, and the mailbox stays as it is.
LEMMA PollOnly ==
    ASSUME InboxInv, NEW w \in Pollers, NEW r, Fits(r),
           poll' = [poll EXCEPT ![w] = r],
           UNCHANGED <<setup, mailbox, marks, by_user>>,
           faults' \in 0..MaxFaults,
           refused \subseteq refused', refused' \subseteq Messages,
           disturbed \subseteq disturbed', disturbed' \subseteq Messages,
           HalfMoved(w) \subseteq disturbed',
           r.stage = "copied" => Action(r.at) = "move",
           r.stage = "flagged" => Action(r.at) \in {"delete", "move"},
           r.stage \in {"copied", "flagged"} =>
             \A m \in inbox : m = r.at => MayGo(m)',
           \A m \in Messages \ disturbed' :
             \/ r.at # m
             \/ poll[w].at = m
             \/ \A v \in Pollers \ {w} : poll[v].at # m
    PROVE  InboxInv'
<1>1. TypeOK /\ Polled /\ Flags /\ UNCHANGED mailbox
  BY DEF InboxInv
<1>2. Forward
  BY <1>1 DEF Forward, TypeOK, Flags, mailbox
<1>3. poll'[w] = r
  BY <1>1 DEF TypeOK
<1>4. ASSUME NEW m \in Messages \ disturbed' PROVE Undisturbed(w, m)
  <2>1. ~Moving(w, m)
    BY DEF HalfMoved, Moving
  <2>2. moved[m] <= 1
    BY DEF InboxInv, Alone
  <2> QED
    BY <1>1, <1>3, <2>1, <2>2 DEF Undisturbed, mailbox
<1> QED
  BY <1>1, <1>2, <1>4, PollKeeps DEF mailbox

LEMMA TheFetched ==
    ASSUME InboxInv
    PROVE  /\ Fetched \subseteq 1..arrived
           /\ 1..arrived \in SUBSET Messages
           /\ "idle" \in Stages /\ "listed" \in Stages /\ "next" \in Stages
           /\ "read" \in Stages /\ "act" \in Stages
           /\ "copied" \in Stages /\ "flagged" \in Stages
BY Typed DEF InboxInv, TypeOK, Fetched, Stages

\* The record of a poll that holds no message, and of one that holds its own.
LEMMA EmptyFits ==
    ASSUME InboxInv, NEW stage \in {"idle", "listed", "next"},
           NEW todo \in SUBSET (1..arrived)
    PROVE  Fits([stage |-> stage, todo |-> todo, at |-> 0])
<1>1. TypeOK /\ 0 \in 0..arrived /\ todo \in SUBSET Messages
  BY Typed, TheFetched DEF InboxInv
<1> QED
  BY <1>1, TheFetched DEF Fits, Poll, Stages

LEMMA HoldingFits ==
    ASSUME InboxInv, NEW stage \in {"read", "act", "copied", "flagged"},
           NEW todo \in SUBSET (1..arrived), NEW m \in 1..arrived,
           stage \in {"copied", "flagged"} => Imap
    PROVE  Fits([stage |-> stage, todo |-> todo, at |-> m])
<1>1. /\ TypeOK /\ m \in 0..arrived /\ m # 0 /\ m \in Messages
      /\ todo \in SUBSET Messages
  BY Typed, TheFetched DEF InboxInv
<1> QED
  BY <1>1, TheFetched DEF Fits, Poll, Stages

\* The steps that read.
LEMMA ReadingKeeps ==
    ASSUME InboxInv, NEW w \in Pollers,
           \/ FetchUids(w) \/ FetchHeaders(w) \/ Hydrate(w)
           \/ Finish(w) \/ Dispatch(w)
    PROVE  InboxInv'
<1>1. /\ TypeOK /\ Polled /\ UNCHANGED <<setup, mailbox, marks, by_user>>
      /\ faults' = faults /\ faults \in 0..MaxFaults
      /\ refused' = refused /\ refused \subseteq Messages
      /\ disturbed \subseteq Messages
  BY DEF InboxInv, TypeOK, FetchUids, FetchHeaders, Hydrate, Finish, Dispatch,
         history
<1>2. /\ poll[w].todo \in SUBSET (1..arrived) /\ poll[w].at \in 0..arrived
      /\ poll[w].stage \notin {"idle", "listed", "next"} => poll[w].at # 0
  BY <1>1 DEF Polled
<1>3. HalfMoved(w) = {}
  BY DEF FetchUids, FetchHeaders, Hydrate, Finish, Dispatch, HalfMoved
<1>4. ASSUME NEW stage \in {"idle", "listed", "next"},
             NEW todo \in SUBSET (1..arrived),
             poll' = [poll EXCEPT ![w] =
                        [stage |-> stage, todo |-> todo, at |-> 0]],
             disturbed \subseteq disturbed', disturbed' \subseteq Messages
      PROVE  InboxInv'
  <2>1. PICK r : r = [stage |-> stage, todo |-> todo, at |-> 0]
    OBVIOUS
  <2>2. Fits(r) /\ r.stage = stage /\ r.at = 0
    BY <2>1, EmptyFits
  <2>3. \A m \in Messages : m # 0
    BY DEF Messages
  <2> QED
    BY <1>1, <1>3, <1>4, <2>1, <2>2, <2>3, PollOnly
<1>5. CASE FetchUids(w)
  BY <1>1, <1>4, <1>5, TheFetched DEF FetchUids, Goes, history
<1>6. CASE FetchHeaders(w)
  <2>1. {m \in poll[w].todo : Exists(m)} \in SUBSET (1..arrived)
    BY <1>2
  <2> QED
    BY <1>1, <1>4, <1>6, <2>1 DEF FetchHeaders, Goes, history
<1>7. CASE Finish(w)
  <2>1. {} \in SUBSET (1..arrived)
    OBVIOUS
  <2> QED
    BY <1>1, <1>4, <1>7, <2>1 DEF Finish, Idle, history
<1>8. CASE Dispatch(w)
  <2>1. CASE Action(poll[w].at) = "none"
    BY <1>1, <1>2, <1>4, <1>8, <2>1 DEF Dispatch, GoesOn, Goes, history
  <2>2. CASE Action(poll[w].at) # "none"
    <3>1. PICK r : r = [stage |-> "act", todo |-> poll[w].todo,
                        at |-> poll[w].at]
      OBVIOUS
    <3>2. poll[w].at \in 1..arrived
      BY <1>1, <1>2, <1>8, Typed DEF Dispatch
    <3>3. Fits(r) /\ r.stage = "act" /\ r.at = poll[w].at
      BY <1>2, <3>1, <3>2, HoldingFits
    <3>4. poll' = [poll EXCEPT ![w] = r] /\ disturbed' = disturbed
      BY <1>8, <2>2, <3>1 DEF Dispatch, Goes, history
    <3> QED
      BY <1>1, <1>3, <3>3, <3>4, PollOnly
  <2> QED
    BY <2>1, <2>2
<1>9. CASE Hydrate(w)
  <2>1. PICK m : m = Following(w)
    OBVIOUS
  <2>2. m \in poll[w].todo /\ m \in 1..arrived /\ m \in Messages
    BY <1>1, <1>2, <1>9, <2>1, FollowingIsThere, Typed DEF Hydrate
  <2>3. disturbed' = disturbed \cup
                       {n \in {m} : \E v \in Pollers \ {w} : poll[v].at = n}
    BY <1>9, <2>1 DEF Hydrate
  <2>4. disturbed \subseteq disturbed' /\ disturbed' \subseteq Messages
    BY <1>1, <2>2, <2>3
  <2>5. poll[w].todo \ {m} \in SUBSET (1..arrived)
    BY <1>2
  <2>6. CASE ~Exists(m)
    BY <1>4, <1>9, <2>1, <2>4, <2>5, <2>6 DEF Hydrate, Goes
  <2>7. CASE Exists(m)
    <3>1. PICK r : r = [stage |-> "read", todo |-> poll[w].todo \ {m},
                        at |-> m]
      OBVIOUS
    <3>2. Fits(r) /\ r.stage = "read" /\ r.at = m
      BY <2>2, <2>5, <3>1, HoldingFits
    <3>3. poll' = [poll EXCEPT ![w] = r]
      BY <1>9, <2>1, <2>7, <3>1 DEF Hydrate, Goes
    <3>4. \A n \in Messages \ disturbed' :
            r.at # n \/ \A v \in Pollers \ {w} : poll[v].at # n
      BY <2>3, <3>2
    <3> QED
      BY <1>1, <1>3, <2>4, <3>2, <3>3, <3>4, PollOnly
  <2> QED
    BY <2>6, <2>7
<1> QED
  BY <1>5, <1>6, <1>7, <1>8, <1>9

\* A poll that holds a message holds one that has arrived.
LEMMA Held ==
    ASSUME InboxInv, NEW w \in Pollers,
           poll[w].stage \notin {"idle", "listed", "next"}
    PROVE  poll[w].at \in 1..arrived /\ poll[w].at \in Messages
BY Typed DEF InboxInv, Polled

\* The record after GoesOn, and that of a poll that keeps its message.
LEMMA NextFits ==
    ASSUME InboxInv, NEW w \in Pollers
    PROVE  \E r : /\ r = [stage |-> "next", todo |-> poll[w].todo, at |-> 0]
                  /\ Fits(r) /\ r.stage = "next" /\ r.at = 0
<1>1. poll[w].todo \in SUBSET (1..arrived)
  BY DEF InboxInv, Polled
<1> DEFINE r == [stage |-> "next", todo |-> poll[w].todo, at |-> 0]
<1>2. Fits(r)
  BY <1>1, EmptyFits
<1>3. r.stage = "next" /\ r.at = 0
  OBVIOUS
<1> QED
  BY <1>2, <1>3

LEMMA KeptFits ==
    ASSUME InboxInv, NEW w \in Pollers, Imap,
           poll[w].stage \notin {"idle", "listed", "next"},
           NEW stage \in {"copied", "flagged"}
    PROVE  \E r : /\ r = [stage |-> stage, todo |-> poll[w].todo,
                          at |-> poll[w].at]
                  /\ Fits(r) /\ r.stage = stage /\ r.at = poll[w].at
<1>1. poll[w].todo \in SUBSET (1..arrived)
  BY DEF InboxInv, Polled
<1> DEFINE r == [stage |-> stage, todo |-> poll[w].todo, at |-> poll[w].at]
<1>2. Fits(r)
  BY <1>1, Held, HoldingFits
<1>3. r.stage = stage /\ r.at = poll[w].at
  OBVIOUS
<1> QED
  BY <1>2, <1>3

\* The steps of one command that take the message of the poll out of the folder:
\* it is wanted deleted, or it is found elsewhere.
LEMMA TakenOut ==
    ASSUME InboxInv, Forward, NEW w \in Pollers, poll[w].stage = "act",
           GoesOn(w),
           inbox' \in {inbox, inbox \ {poll[w].at}},
           flagged \ {poll[w].at} \subseteq flagged',
           flagged' \subseteq flagged,
           poll[w].at \in flagged' \/ poll[w].at \notin inbox'
             \/ poll[w].at \notin flagged,
           \A m \in inbox \ inbox' : MayGo(m)',
           \A m \in Messages : m # poll[w].at => moved'[m] = moved[m],
           \/ moved'[poll[w].at] = moved[poll[w].at]
           \/ moved'[poll[w].at] = 1 /\ poll[w].at \notin inbox'
           \/ /\ moved'[poll[w].at] = moved[poll[w].at] + 1
              /\ poll[w].at \in inbox /\ poll[w].at \notin inbox'
    PROVE  InboxInv'
<1>1. PICK r : /\ r = [stage |-> "next", todo |-> poll[w].todo, at |-> 0]
               /\ Fits(r) /\ r.stage = "next" /\ r.at = 0
  BY NextFits
<1>2. poll' = [poll EXCEPT ![w] = r]
  BY <1>1 DEF GoesOn, Goes
<1>3. TypeOK /\ inbox \subseteq Messages
  BY Typed DEF InboxInv
<1>4. poll'[w].at = 0
  BY <1>1, <1>2, <1>3 DEF TypeOK
<1>5. PICK h : h = poll[w].at
  OBVIOUS
<1>6. h \in Messages
  BY <1>5, Held
<1>7. ASSUME NEW m \in Messages \ disturbed'
      PROVE  Undisturbed(w, m)
  <2>1. m # 0 /\ ~Moving(w, m) /\ Alone(m) /\ moved[m] \in Nat
    BY <1>3 DEF Messages, Moving, InboxInv, Forward, TypeOK
  <2>2. h = m /\ m \in inbox => moved[m] = 0
    <3> SUFFICES ASSUME h = m, m \in inbox, moved[m] > 0 PROVE FALSE
      BY <2>1
    <3>1. PICK v \in Pollers : Moving(v, m)
      BY <2>1 DEF Alone
    <3>2. v = w
      BY <1>5, <2>1, <3>1 DEF Alone, Moving
    <3> QED
      BY <2>1, <3>1, <3>2
  <2>3. moved'[m] <= 1
    BY <1>5, <2>1, <2>2 DEF Alone
  <2>4. m \in inbox' /\ moved'[m] > 0 => m \in inbox /\ moved[m] > 0
    BY <1>5
  <2>5. m \in flagged /\ m \in inbox' => m \in flagged'
    BY <1>5
  <2> QED
    BY <1>4, <2>1, <2>3, <2>4, <2>5 DEF Undisturbed
<1> QED
  BY <1>1, <1>2, <1>7, PollKeeps

LEMMA ActingKeeps ==
    ASSUME InboxInv, NEW w \in Pollers,
           Move(w) \/ Relabel(w) \/ Trash(w) \/ MarkRead(w)
    PROVE  InboxInv'
<1>1. /\ TypeOK /\ Polled /\ Flags /\ Late /\ arrived \in Nat
      /\ poll[w].stage = "act"
  BY Typed DEF InboxInv, Move, Relabel, Trash, MarkRead, Applies
<1>2. poll[w].at \in 1..arrived /\ poll[w].at \in Messages
  BY <1>1, Held
<1>3. PICK h \in Messages : h = poll[w].at
  BY <1>2
<1>4. /\ inbox \subseteq 1..arrived /\ flagged \subseteq inbox
      /\ seen \subseteq 1..arrived /\ trash \subseteq 1..arrived
      /\ moved \in [Messages -> Nat] /\ faults \in 0..MaxFaults
      /\ refused \subseteq Messages /\ disturbed \subseteq Messages
  BY <1>1 DEF TypeOK
<1>5. CASE Move(w)
  <2>1. /\ moved' = [m \in Messages |->
                       moved[m] + (IF m = h /\ m \in inbox THEN 1 ELSE 0)]
        /\ inbox' = inbox \ {h} /\ flagged' = flagged \ {h}
        /\ UNCHANGED <<setup, arrived, seen, trash, faults, marks, by_user,
                       refused, disturbed>>
        /\ Imap /\ GoesOn(w)
    BY <1>3, <1>5 DEF Move, history
  <2>2. /\ moved' \in [Messages -> Nat]
        /\ \A m \in Messages : m # h => moved'[m] = moved[m]
        /\ h \in inbox => moved'[h] = moved[h] + 1
        /\ h \notin inbox => moved'[h] = moved[h]
    BY <1>4, <2>1
  <2>3. Forward
    <3>1. \A m \in Messages : moved[m] \in Nat /\ moved'[m] \in Nat
      BY <1>4, <2>2
    <3>2. \A m \in Messages :
            /\ moved[m] > 0 => moved'[m] > 0
            /\ moved'[m] > 0 => moved[m] > 0 \/ m <= arrived
      BY <1>2, <1>3, <2>2, <3>1
    <3> QED
      BY <1>1, <1>4, <2>1, <2>2, <3>2 DEF Forward
  <2>4. \A m \in inbox \ inbox' : MayGo(m)'
    BY <1>4, <2>1, <2>2 DEF MayGo
  <2> QED
    BY <1>1, <1>3, <2>1, <2>2, <2>3, <2>4, TakenOut
<1>6. CASE Relabel(w)
  <2>1. /\ moved' = [moved EXCEPT ![h] = 1] /\ inbox' = inbox \ {h}
        /\ UNCHANGED <<setup, arrived, flagged, seen, trash, faults, marks,
                       by_user, refused, disturbed>>
        /\ ~Imap /\ GoesOn(w)
    BY <1>3, <1>6 DEF Relabel, history
  <2>2. /\ moved' \in [Messages -> Nat] /\ moved'[h] = 1
        /\ \A m \in Messages : m # h => moved'[m] = moved[m]
    BY <1>4, <2>1
  <2>3. Forward
    BY <1>1, <1>2, <1>3, <1>4, <2>1, <2>2 DEF Forward, Flags
  <2>4. \A m \in inbox \ inbox' : MayGo(m)'
    BY <1>4, <2>1, <2>2 DEF MayGo
  <2>5. flagged = {}
    BY <1>1, <2>1 DEF Flags
  <2>6. h \notin inbox'
    BY <2>1
  <2> QED
    BY <1>1, <1>3, <2>1, <2>2, <2>3, <2>4, <2>5, <2>6, TakenOut
<1>7. CASE Trash(w)
  <2>1. /\ trash' = trash \cup {h} /\ inbox' = inbox \ {h}
        /\ UNCHANGED <<setup, arrived, flagged, seen, moved, faults, marks,
                       by_user, refused, disturbed>>
        /\ ~Imap /\ GoesOn(w)
    BY <1>3, <1>7 DEF Trash, history
  <2>2. Forward
    BY <1>1, <1>2, <1>3, <1>4, <2>1 DEF Forward, Flags
  <2>3. \A m \in inbox \ inbox' : MayGo(m)'
    BY <1>4, <2>1 DEF MayGo
  <2>4. flagged = {} /\ flagged' = {}
    BY <1>1, <2>1 DEF Flags
  <2> QED
    BY <1>1, <1>3, <2>1, <2>2, <2>3, <2>4, TakenOut
<1>8. CASE MarkRead(w)
  <2>1. /\ seen' = seen \cup {m \in {h} : Exists(m)}
        /\ UNCHANGED <<setup, arrived, inbox, flagged, trash, moved, faults,
                       marks, by_user, refused, disturbed>>
        /\ GoesOn(w)
    BY <1>3, <1>8 DEF MarkRead, history
  <2>2. Forward
    BY <1>1, <1>2, <1>3, <1>4, <2>1 DEF Forward, Flags
  <2> QED
    BY <1>1, <1>3, <2>1, <2>2, TakenOut
<1> QED
  BY <1>5, <1>6, <1>7, <1>8

\* The commands of a deletion or a move, while the message is held.
LEMMA CommandsKeep ==
    ASSUME InboxInv, NEW w \in Pollers,
           StoreDeleted(w) \/ Copy(w) \/ Expunge(w)
    PROVE  InboxInv'
<1>1. /\ TypeOK /\ Polled /\ Flags /\ Late /\ Copied /\ arrived \in Nat
      /\ poll[w].stage \in {"act", "copied", "flagged"} /\ Imap
  BY Typed DEF InboxInv, Polled, StoreDeleted, Copy, Expunge, Applies
<1>2. poll[w].at \in 1..arrived /\ poll[w].at \in Messages
  BY <1>1, Held
<1>3. PICK h \in Messages : h = poll[w].at
  BY <1>2
<1>4. /\ inbox \subseteq 1..arrived /\ flagged \subseteq inbox
      /\ 1..arrived \subseteq Messages
      /\ seen \subseteq 1..arrived /\ trash \subseteq 1..arrived
      /\ moved \in [Messages -> Nat] /\ faults \in 0..MaxFaults
      /\ refused \subseteq Messages /\ disturbed \subseteq Messages
  BY <1>1, Typed DEF TypeOK
<1>5. \A m \in Messages \ disturbed : Alone(m) /\ moved[m] \in Nat
  BY <1>4 DEF InboxInv
<1>6. CASE StoreDeleted(w)
  <2>1. PICK r : /\ r = [stage |-> "flagged", todo |-> poll[w].todo,
                         at |-> poll[w].at]
                 /\ Fits(r) /\ r.stage = "flagged" /\ r.at = poll[w].at
    BY <1>1, KeptFits
  <2>2. /\ flagged' = flagged \cup ({h} \cap inbox)
        /\ poll' = [poll EXCEPT ![w] = r]
        /\ UNCHANGED <<setup, arrived, inbox, seen, trash, moved, faults, marks,
                       by_user, refused, disturbed>>
        /\ \/ Action(h) = "delete"
           \/ poll[w].stage = "copied"
    BY <1>3, <1>6, <2>1 DEF StoreDeleted, Applies, Goes, history
  <2>3. Forward
    BY <1>1, <1>2, <1>3, <1>4, <2>2 DEF Forward, Flags
  <2>4. poll'[w] = r
    BY <1>1, <2>2 DEF TypeOK
  <2>5. /\ Action(h) \in {"delete", "move"}
        /\ h \in inbox => MayGo(h)
    BY <1>1, <1>3, <2>2 DEF Copied, CopiedBy, MayGo
  <2>6. h \in inbox => MayGo(h)'
    BY <2>3, <2>5, StillGoes
  <2>7. ASSUME NEW m \in Messages \ disturbed' PROVE Undisturbed(w, m)
    <3>1. Alone(m) /\ moved'[m] = moved[m] /\ inbox' = inbox
      BY <1>5, <2>2
    <3>2. Moving(w, m) /\ m \in inbox => Moving(w, m)'
      <4>1. Action(m)' = Action(m)
        BY <2>2 DEF Action
      <4> QED
        BY <1>3, <2>1, <2>2, <2>4, <4>1 DEF Moving
    <3> QED
      BY <2>1, <2>2, <2>4, <3>1, <3>2 DEF Undisturbed, Alone
  <2> QED
    BY <1>3, <2>1, <2>2, <2>3, <2>5, <2>6, <2>7, PollKeeps
<1>7. CASE Copy(w)
  <2>1. PICK r : /\ r = [stage |-> "copied", todo |-> poll[w].todo,
                         at |-> poll[w].at]
                 /\ Fits(r) /\ r.stage = "copied" /\ r.at = poll[w].at
    BY <1>1, KeptFits
  <2>2. /\ moved' = [m \in Messages |->
                       moved[m] + (IF m = h /\ m \in inbox THEN 1 ELSE 0)]
        /\ poll' = [poll EXCEPT ![w] = r]
        /\ UNCHANGED <<setup, arrived, inbox, flagged, seen, trash, faults,
                       marks, by_user, refused, disturbed>>
        /\ Action(h) = "move" /\ poll[w].stage = "act"
    BY <1>3, <1>7, <2>1 DEF Copy, Applies, Goes, history
  <2>3. /\ moved' \in [Messages -> Nat]
        /\ \A m \in Messages : m # h => moved'[m] = moved[m]
        /\ h \in inbox => moved'[h] = moved[h] + 1
        /\ h \notin inbox => moved'[h] = moved[h]
    BY <1>4, <2>2
  <2>4. Forward
    <3>1. \A m \in Messages : moved[m] \in Nat /\ moved'[m] \in Nat
      BY <1>4, <2>3
    <3>2. \A m \in Messages :
            /\ moved[m] > 0 => moved'[m] > 0
            /\ moved'[m] > 0 => moved[m] > 0 \/ m <= arrived
      BY <1>2, <1>3, <2>3, <3>1
    <3> QED
      BY <1>1, <1>4, <2>2, <2>3, <3>2 DEF Forward, Flags
  <2>5. poll'[w] = r
    BY <1>1, <2>2 DEF TypeOK
  <2>6. h \in inbox => MayGo(h)'
    BY <1>4, <2>3 DEF MayGo
  <2>7. ASSUME NEW m \in Messages \ disturbed' PROVE Undisturbed(w, m)
    <3>1. Alone(m) /\ moved[m] \in Nat /\ ~Moving(w, m)
      BY <1>5, <2>2 DEF Moving
    <3>2. h = m /\ m \in inbox => moved[m] = 0
      <4> SUFFICES ASSUME h = m, m \in inbox, moved[m] > 0 PROVE FALSE
        BY <3>1
      <4>1. PICK v \in Pollers : Moving(v, m)
        BY <3>1 DEF Alone
      <4>2. v = w
        BY <1>3, <3>1, <4>1 DEF Alone, Moving
      <4> QED
        BY <3>1, <4>1, <4>2
    <3>3. moved'[m] <= 1
      BY <2>3, <3>1, <3>2 DEF Alone
    <3>4. h = m => Moving(w, m)'
      <4>1. Action(m)' = Action(m)
        BY <2>2 DEF Action
      <4> QED
        BY <1>3, <2>1, <2>2, <2>5, <4>1 DEF Moving
    <3>5. h # m => moved'[m] = moved[m]
      BY <2>3
    <3> QED
      BY <2>1, <2>2, <2>5, <3>1, <3>3, <3>4, <3>5 DEF Undisturbed
  <2> QED
    BY <1>3, <2>1, <2>2, <2>4, <2>6, <2>7, PollKeeps
<1>8. CASE Expunge(w)
  <2>1. PICK r : /\ r = [stage |-> "next", todo |-> poll[w].todo, at |-> 0]
                 /\ Fits(r) /\ r.stage = "next" /\ r.at = 0
    BY NextFits
  <2>2. PICK gone : gone = Expunged(h)
    OBVIOUS
  <2>3. /\ inbox' = inbox \ gone /\ flagged' = flagged \ gone
        /\ poll' = [poll EXCEPT ![w] = r]
        /\ UNCHANGED <<setup, arrived, seen, trash, moved, faults, marks,
                       by_user, refused, disturbed>>
        /\ poll[w].stage = "flagged"
    BY <1>3, <1>8, <2>1, <2>2 DEF Expunge, GoesOn, Goes, history
  <2>4. /\ gone \subseteq flagged
        /\ setup.uidplus => gone \subseteq {h}
        /\ h \in flagged => h \in gone
    BY <2>2 DEF Expunged
  <2>5. Forward
    BY <1>1, <1>2, <1>3, <1>4, <2>3 DEF Forward, Flags
  <2>6. poll'[w] = r
    BY <1>1, <2>3 DEF TypeOK
  <2>7. ASSUME NEW m \in inbox \ inbox'
        PROVE  MayGo(m)' \/ (m \in by_user /\ ~setup.uidplus)
    <3>1. m \in gone /\ m \in flagged /\ m \in Messages
      BY <1>4, <2>3, <2>4
    <3>2. CASE setup.uidplus
      <4>1. m = h /\ h \in inbox
        BY <2>4, <3>1, <3>2
      <4>2. MayGo(h)
        BY <1>1, <1>3, <2>3, <4>1 DEF Copied, CopiedBy
      <4> QED
        BY <2>5, <3>1, <4>1, <4>2, StillGoes
    <3>3. CASE ~setup.uidplus
      <4>1. MayGo(m) \/ m \in by_user
        BY <3>1 DEF InboxInv, Accounted
      <4> QED
        BY <2>5, <3>1, <3>3, <4>1, StillGoes
    <3> QED
      BY <3>2, <3>3
  <2>8. ASSUME NEW m \in Messages \ disturbed' PROVE Undisturbed(w, m)
    <3>1. Alone(m) /\ moved'[m] = moved[m] /\ m # 0
      BY <1>5, <2>3 DEF Messages
    <3>2. m \in inbox' => m \in inbox /\ ~Moving(w, m)
      BY <1>3, <2>3, <2>4 DEF Moving
    <3>3. m \in flagged /\ m \in inbox' => m \in flagged'
      BY <2>3, <2>4
    <3> QED
      BY <2>1, <2>6, <3>1, <3>2, <3>3 DEF Undisturbed, Alone
  <2>9. \A m \in flagged' \ flagged : MayGo(m)'
    BY <2>3
  <2> QED
    BY <2>1, <2>3, <2>5, <2>7, <2>8, <2>9, PollKeeps
<1> QED
  BY <1>6, <1>7, <1>8

\* What goes wrong: the move of a message that was half done is disturbed.
LEMMA FaultsKeep ==
    ASSUME InboxInv, NEW w \in Pollers, Refuse(w) \/ Break(w) \/ Die(w)
    PROVE  InboxInv'
<1>1. /\ TypeOK /\ Polled /\ Copied /\ MaxFaults \in Nat
      /\ UNCHANGED <<setup, mailbox, marks, by_user>>
      /\ faults < MaxFaults /\ faults' = faults + 1
      /\ refused \subseteq Messages /\ disturbed \subseteq Messages
      /\ disturbed' = disturbed \cup HalfMoved(w)
      /\ poll[w].todo \in SUBSET (1..arrived)
  BY Typed DEF InboxInv, Polled, TypeOK, Refuse, Break, Die
<1>2. faults' \in 0..MaxFaults
  BY <1>1 DEF TypeOK
<1>3. HalfMoved(w) \subseteq Messages
  BY Held DEF HalfMoved
<1>4. disturbed \subseteq disturbed' /\ disturbed' \subseteq Messages
      /\ HalfMoved(w) \subseteq disturbed'
  BY <1>1, <1>3
<1>5. ASSUME NEW stage \in {"idle", "listed", "next"},
             NEW todo \in SUBSET (1..arrived),
             poll' = [poll EXCEPT ![w] =
                        [stage |-> stage, todo |-> todo, at |-> 0]],
             refused' = refused
      PROVE  InboxInv'
  <2>1. PICK r : r = [stage |-> stage, todo |-> todo, at |-> 0]
    OBVIOUS
  <2>2. Fits(r) /\ r.stage = stage /\ r.at = 0
    BY <2>1, EmptyFits
  <2>3. \A m \in Messages : m # 0
    BY DEF Messages
  <2> QED
    BY <1>1, <1>2, <1>4, <1>5, <2>1, <2>2, <2>3, PollOnly
<1>6. ASSUME poll' = [poll EXCEPT ![w] = Idle], refused' = refused
      PROVE  InboxInv'
  <2>1. {} \in SUBSET (1..arrived)
    OBVIOUS
  <2> QED
    BY <1>5, <1>6, <2>1 DEF Idle
<1>7. ASSUME GoesOn(w), refused' = refused PROVE InboxInv'
  BY <1>1, <1>5, <1>7 DEF GoesOn, Goes
<1>8. ASSUME NEW stage \in {"copied", "flagged"},
             poll[w].stage \in {"act", "copied"}, Imap,
             Goes(w, stage, poll[w].todo, poll[w].at),
             stage = "copied" => Action(poll[w].at) = "move",
             Action(poll[w].at) \in {"delete", "move"},
             refused \subseteq refused', refused' \subseteq Messages,
             \/ Action(poll[w].at) = "delete"
             \/ poll[w].stage = "copied"
             \/ poll[w].at \in refused'
      PROVE  InboxInv'
  <2>1. PICK r : /\ r = [stage |-> stage, todo |-> poll[w].todo,
                         at |-> poll[w].at]
                 /\ Fits(r) /\ r.stage = stage /\ r.at = poll[w].at
    BY <1>8, KeptFits
  <2>2. poll' = [poll EXCEPT ![w] = r]
    BY <1>8, <2>1 DEF Goes
  <2>3. ASSUME NEW m \in inbox, m = r.at PROVE MayGo(m)'
    <3>1. CASE Action(m) = "delete"
      BY <1>1, <3>1 DEF MayGo, Action
    <3>2. CASE poll[w].stage = "copied"
      <4>1. MayGo(m)
        BY <1>1, <2>1, <2>3, <3>2 DEF Copied, CopiedBy
      <4> QED
        BY <1>1, <1>8, <4>1 DEF MayGo, Action, mailbox
    <3>3. CASE m \in refused'
      BY <3>3 DEF MayGo
    <3> QED
      BY <1>8, <2>1, <2>3, <3>1, <3>2, <3>3
  <2> QED
    BY <1>1, <1>2, <1>4, <1>8, <2>1, <2>2, <2>3, PollOnly
<1>9. CASE Refuse(w)
  <2>1. CASE /\ Applies(w, "move") /\ refused' = refused \cup {poll[w].at}
             /\ Goes(w, "copied", poll[w].todo, poll[w].at)
    <3>1. poll[w].stage = "act" /\ Action(poll[w].at) = "move" /\ Imap
      BY <1>9, <2>1 DEF Applies, Refuse
    <3>2. poll[w].at \in Messages
      BY <3>1, Held
    <3> QED
      BY <1>1, <1>8, <2>1, <3>1, <3>2
  <2>2. CASE /\ Applies(w, "delete") \/ poll[w].stage = "copied"
             /\ Goes(w, "flagged", poll[w].todo, poll[w].at)
             /\ UNCHANGED refused
    <3>1. /\ poll[w].stage \in {"act", "copied"} /\ Imap
          /\ \/ Action(poll[w].at) = "delete"
             \/ poll[w].stage = "copied" /\ Action(poll[w].at) = "move"
      BY <1>1, <1>9, <2>2 DEF Applies, Refuse, Copied, CopiedBy
    <3> QED
      BY <1>1, <1>8, <2>2, <3>1
  <2>3. CASE GoesOn(w) /\ UNCHANGED refused
    BY <1>7, <2>3
  <2> QED
    BY <1>9, <2>1, <2>2, <2>3 DEF Refuse
<1>10. CASE Break(w)
  <2>1. poll[w].todo \ {Following(w)} \in SUBSET (1..arrived)
    BY <1>1
  <2> QED
    BY <1>5, <1>6, <1>7, <1>10, <2>1 DEF Break, Goes
<1>11. CASE Die(w)
  BY <1>6, <1>11 DEF Die
<1> QED
  BY <1>9, <1>10, <1>11

-----------------------------------------------------------------------------
(* The steps of the others                                                 *)

LEMMA ArriveKeeps ==
    ASSUME InboxInv, Arrive
    PROVE  InboxInv'
<1>1. /\ TypeOK /\ Polled /\ Flags /\ Late /\ Accounted /\ Copied
      /\ arrived \in Nat /\ MaxUid \in Nat
  BY Typed DEF InboxInv
<1>2. PICK n : n = arrived + 1
  OBVIOUS
<1>3. /\ n \in Messages /\ arrived' = n /\ n = arrived + 1
      /\ inbox' = inbox \cup {n}
      /\ UNCHANGED <<setup, flagged, seen, trash, moved, poll, faults, marks,
                     by_user, refused, disturbed>>
  BY <1>1, <1>2 DEF Arrive, Messages, history
<1>4. /\ n \notin inbox /\ 1..arrived \subseteq 1..n /\ n \in 1..n
      /\ 1..n = (1..arrived) \cup {n} /\ 0..arrived \subseteq 0..n
  BY <1>1, <1>2 DEF TypeOK
<1>5. TypeOK'
  <2>1. arrived' \in 0..MaxUid /\ inbox' \subseteq 1..arrived'
    BY <1>1, <1>3, <1>4 DEF Messages, TypeOK
  <2> QED
    BY <1>1, <1>3, <1>4, <2>1 DEF TypeOK
<1>6. Polled'
  <2>1. Imap' <=> Imap
    BY <1>3 DEF Imap
  <2> QED
    BY <1>1, <1>3, <1>4, <2>1 DEF Polled
<1>7. Flags' /\ Late'
  BY <1>1, <1>2, <1>3 DEF Flags, Late, Imap, Messages
<1>8. \A m : MayGo(m)' <=> MayGo(m)
  BY <1>3 DEF MayGo, Action
<1>9. Accounted'
  <2>1. (1..arrived') \ inbox' \subseteq (1..arrived) \ inbox
    BY <1>3, <1>4
  <2> QED
    BY <1>1, <1>3, <1>8, <2>1 DEF Accounted
<1>10. Copied'
  <2> SUFFICES ASSUME NEW w \in Pollers PROVE CopiedBy(w)'
    BY DEF Copied
  <2>1. poll[w].at # n
    BY <1>1, <1>2 DEF Polled
  <2>2. poll[w].at \in inbox' => poll[w].at \in inbox
    BY <1>3, <2>1
  <2>3. Action(poll[w].at)' = Action(poll[w].at)
    BY <1>3 DEF Action
  <2>4. CopiedBy(w)
    BY <1>1 DEF Copied
  <2>5. MayGo(poll[w].at) => MayGo(poll[w].at)'
    BY <1>3, <2>3 DEF MayGo
  <2> QED
    BY <1>3, <2>2, <2>3, <2>4, <2>5 DEF CopiedBy
<1>11. ASSUME NEW m \in Messages \ disturbed' PROVE Alone(m)'
  <2>1. Alone(m) /\ moved[m] \in Nat
    BY <1>1, <1>3 DEF InboxInv, TypeOK
  <2>2. m = n => ~(moved[m] > 0)
    BY <1>1, <1>2, <2>1 DEF Late
  <2>3. m \in inbox' /\ moved'[m] > 0 => m \in inbox /\ moved[m] > 0
    BY <1>3, <2>2
  <2>4. \A w \in Pollers : Moving(w, m) => Moving(w, m)'
    BY <1>3 DEF Moving, Action
  <2> QED
    BY <1>3, <2>1, <2>3, <2>4 DEF Alone
<1> QED
  BY <1>5, <1>6, <1>7, <1>9, <1>10, <1>11 DEF InboxInv

LEMMA UserKeeps ==
    ASSUME InboxInv, NEW m \in Messages, Flag(m) \/ Unflag(m)
    PROVE  InboxInv'
<1>1. /\ TypeOK /\ Polled /\ Flags /\ Late /\ Accounted /\ Copied
      /\ UNCHANGED <<setup, arrived, inbox, seen, trash, moved, poll, faults,
                     refused>>
      /\ marks < MaxMarks /\ marks' = marks + 1
      /\ m \in inbox /\ Imap
  BY DEF InboxInv, Flag, Unflag, TypeOK, Flags
<1>2. /\ flagged' \subseteq inbox /\ disturbed' \subseteq Messages
      /\ by_user' \subseteq Messages /\ disturbed \subseteq disturbed'
      /\ \A n : n # m => /\ n \in flagged' <=> n \in flagged
                         /\ n \in by_user' <=> n \in by_user
      /\ m \in flagged' => m \in by_user'
      /\ m \in flagged /\ m \notin flagged' => m \in disturbed'
  BY <1>1 DEF TypeOK, Flag, Unflag
<1>3. TypeOK'
  <2>1. marks' \in 0..MaxMarks
    BY <1>1, BoundsAssumption DEF TypeOK
  <2> QED
    BY <1>1, <1>2, <2>1 DEF TypeOK
<1>4. Polled' /\ Flags' /\ Late' /\ Imap'
  BY <1>1 DEF Polled, Flags, Late, Imap
<1>5. \A n : MayGo(n)' <=> MayGo(n)
  BY <1>1 DEF MayGo, Action
<1>6. Accounted'
  BY <1>1, <1>2, <1>5 DEF Accounted
<1>7. Copied'
  <2> SUFFICES ASSUME NEW w \in Pollers PROVE CopiedBy(w)'
    BY DEF Copied
  <2>1. Action(poll[w].at)' = Action(poll[w].at)
    BY <1>1 DEF Action
  <2>2. CopiedBy(w)
    BY <1>1 DEF Copied
  <2>3. MayGo(poll[w].at) => MayGo(poll[w].at)'
    BY <1>1, <2>1 DEF MayGo
  <2> QED
    BY <1>1, <2>1, <2>2, <2>3 DEF CopiedBy
<1>8. ASSUME NEW n \in Messages \ disturbed' PROVE Alone(n)'
  <2>1. Alone(n)
    BY <1>2 DEF InboxInv
  <2>2. n \in flagged => n \in flagged'
    BY <1>2
  <2>3. \A w \in Pollers : Moving(w, n) => Moving(w, n)'
    BY <1>1, <2>2 DEF Moving, Action
  <2> QED
    BY <1>1, <2>1, <2>3 DEF Alone
<1> QED
  BY <1>3, <1>4, <1>6, <1>7, <1>8 DEF InboxInv

LEMMA InitInv == Init => InboxInv
<1> SUFFICES ASSUME Init PROVE InboxInv
  OBVIOUS
<1>1. /\ Idle.stage = "idle" /\ Idle.todo = {} /\ Idle.at = 0
      /\ Idle \in Poll
  BY DEF Idle, Poll, Stages
<1>2. TypeOK
  <2>1. 0 \in 0..MaxUid /\ 0 \in 0..MaxFaults /\ 0 \in 0..MaxMarks
    BY BoundsAssumption
  <2> QED
    BY <1>1, <2>1 DEF Init, TypeOK, Poll
<1>3. Polled /\ Flags /\ Late
  BY <1>1 DEF Init, Polled, Flags, Late
<1>4. Accounted /\ Copied
  BY <1>1 DEF Init, Accounted, Copied, CopiedBy
<1>5. \A m \in Messages : Alone(m)
  BY <1>1 DEF Init, Alone, Messages
<1> QED
  BY <1>2, <1>3, <1>4, <1>5 DEF InboxInv

LEMMA StepInv == InboxInv /\ [Next]_vars => InboxInv'
<1> SUFFICES ASSUME InboxInv, [Next]_vars PROVE InboxInv'
  OBVIOUS
<1>1. CASE UNCHANGED vars
  <2>1. \A m : Alone(m)' <=> Alone(m)
    BY <1>1 DEF vars, Alone, Moving, Action
  <2>2. \A m : MayGo(m)' <=> MayGo(m)
    BY <1>1 DEF vars, MayGo, Action
  <2>3. TypeOK' /\ Polled' /\ Flags' /\ Late' /\ Accounted'
    BY <1>1, <2>2 DEF vars, InboxInv, TypeOK, Polled, Flags, Late, Accounted,
                      Imap
  <2>4. Copied'
    BY <1>1 DEF vars, InboxInv, Copied, CopiedBy, MayGo, Action
  <2> QED
    BY <1>1, <2>1, <2>3, <2>4 DEF vars, InboxInv
<1>2. ASSUME NEW w \in Pollers, Work(w) PROVE InboxInv'
  BY <1>2, ReadingKeeps, ActingKeeps, CommandsKeep DEF Work
<1> QED
  BY <1>1, <1>2, FaultsKeep, ArriveKeeps, UserKeeps DEF Next

-----------------------------------------------------------------------------
(* Results                                                                 *)

\* The mailbox and the polls keep their types: what is marked \Deleted is in the
\* folder, and nothing is in any folder that has not arrived.
THEOREM TypeCorrect == Spec => []TypeOK
<1>1. InboxInv => TypeOK
  BY DEF InboxInv
<1> QED
  BY <1>1, InitInv, StepInv, PTL DEF Spec

\* However many polls and whoever else work in the folder, and whatever commands
\* are refused or connections break: no mail disappears that nobody wanted
\* deleted, and none is moved twice unless something came between the commands
\* of its move.
THEOREM NoMailLost == Spec => []MailKept
<1>1. InboxInv => MailKept
  <2> SUFFICES ASSUME InboxInv PROVE MailKept
    OBVIOUS
  <2>1. ASSUME NEW m \in (1..arrived) \ inbox
        PROVE  \/ Wants(m, {"delete"})
               \/ moved[m] > 0 \/ m \in trash
               \/ m \in refused
               \/ m \in by_user /\ ~setup.uidplus
    <3>1. m \in Messages /\ TypeOK
      BY Typed DEF InboxInv
    <3>2. MayGo(m) \/ (m \in by_user /\ ~setup.uidplus)
      BY DEF InboxInv, Accounted
    <3> QED
      BY <3>1, <3>2, WantsAction DEF MayGo
  <2>2. ASSUME NEW m \in Messages, moved[m] > 1 PROVE m \in disturbed
    BY <2>2 DEF InboxInv, Alone, TypeOK
  <2> QED
    BY <2>1, <2>2 DEF MailKept
<1> QED
  BY <1>1, InitInv, StepInv, PTL DEF Spec

================================================================================
