----------------------------- MODULE PushProofs -----------------------------
(***************************************************************************)
(* Proofs about PushSync, for any number of products and bounds.  For any  *)
(* number of workers, a link never points at the product of another item;  *)
(* for one worker, a product is created once per loss at most, and a link  *)
(* tells what the provider holds.                                          *)
(***************************************************************************)
EXTENDS PushSync, FiniteSetTheorems, TLAPS

-----------------------------------------------------------------------------
(* How the record of a worker changes                                      *)

LEMMA BlankTyped ==
    /\ Blank \in Job
    /\ \A i \in Items : /\ Blank.links[i].remote_id = 0
                        /\ Blank.result[i] = Unsent
<1>1. (CHOOSE c \in Contents : TRUE) \in Contents
  BY ContentsAssumption
<1>2. 0 \in 0..MaxRemote
  BY BoundsAssumption
<1>3. [remote_id |-> 0, content_hash |-> NoHash, status |-> "pending"] \in Link
  BY <1>2 DEF Link
<1>4. Unsent \in Result
  BY <1>2 DEF Unsent, Result
<1>5. [status |-> "idle", fresh |-> TRUE] \in SyncRow
  BY DEF SyncRow
<1>6. /\ Blank.stage = "idle" /\ Blank.sync \in SyncRow
      /\ Blank.want \in [Items -> Contents] /\ Blank.links \in [Items -> Link]
      /\ Blank.todo \in SUBSET Items /\ Blank.result \in [Items -> Result]
  BY <1>1, <1>3, <1>4, <1>5 DEF Blank
<1>7. Blank \in Job
  BY <1>1, <1>3, <1>4, <1>5 DEF Blank, Job
<1> QED
  BY <1>7 DEF Blank

\* A step that replaces the record of one worker by one that is typed.
LEMMA OneRecord ==
    ASSUME TypeOK, NEW w \in Workers, NEW r \in Job,
           job' = [job EXCEPT ![w] = r]
    PROVE  /\ job' \in [Workers -> Job]
           /\ job'[w] = r
           /\ \A v \in Workers : v # w => job'[v] = job[v]
BY DEF TypeOK

\* A step that notes what became of one product.
LEMMA OneResult ==
    ASSUME TypeOK, NEW w \in Workers, NEW i \in Items, NEW s \in Result,
           job' = [job EXCEPT ![w].result[i] = s]
    PROVE  /\ job' \in [Workers -> Job]
           /\ job'[w].links = job[w].links
           /\ job'[w].result = [job[w].result EXCEPT ![i] = s]
           /\ \A v \in Workers : v # w => job'[v] = job[v]
<1> DEFINE r == [job[w] EXCEPT !.result[i] = s]
<1>1. job[w] \in Job
  BY DEF TypeOK
<1>2. [job[w].result EXCEPT ![i] = s] \in [Items -> Result]
  BY <1>1 DEF Job
<1>3. /\ r \in Job /\ r.links = job[w].links
      /\ r.result = [job[w].result EXCEPT ![i] = s]
  BY <1>1, <1>2 DEF Job
<1>4. job' = [job EXCEPT ![w] = r]
  OBVIOUS
<1> HIDE DEF r
<1> QED
  BY <1>3, <1>4, OneRecord

-----------------------------------------------------------------------------
(* What belongs to an item                                                 *)

\* The products at the provider are those of products, id is one of item i.
Owns(products, i, id) ==
    id # 0 => id \in 1..Len(products) /\ products[id].item = i

\* No product is removed or turned into that of another item.
Keeps(before, after) ==
    /\ Len(before) <= Len(after)
    /\ \A n \in 1..Len(before) : after[n].item = before[n].item

\* Every id that is stored or about to be stored belongs to its item.
OwnInv ==
    \A i \in Items :
        /\ Owns(remote, i, links[i].remote_id)
        /\ \A w \in Workers :
             /\ Owns(remote, i, job[w].links[i].remote_id)
             /\ Owns(remote, i, job[w].result[i].remote_id)

LEMMA KeepsOwns ==
    ASSUME remote \in Seq(Product), remote' \in Seq(Product),
           Keeps(remote, remote'), NEW i, NEW id, Owns(remote, i, id)
    PROVE  Owns(remote', i, id)
BY DEF Keeps, Owns

\* What a call makes of the product it creates or overwrites.
After(w, i, parts) ==
    [item |-> i,
     content |-> IF Match(w, i) # 0
                 THEN Overlay(remote[Match(w, i)].content, job[w].want[i], parts)
                 ELSE job[w].want[i]]

\* It is a product of the item, and an update that is not cut short leaves
\* nothing that was sent untold.
LEMMA AfterTells ==
    ASSUME TypeOK, OwnInv, NEW w \in Workers, NEW i \in Items,
           NEW parts \in SUBSET Parts
    PROVE  /\ After(w, i, parts) \in Product
           /\ After(w, i, parts).item = i
           /\ parts = Written => Tells(After(w, i, parts), job[w].want[i])
           /\ Match(w, i) = 0 => After(w, i, parts) =
                                  [item |-> i, content |-> job[w].want[i]]
<1> DEFINE c == job[w].want[i]
           old == remote[Match(w, i)].content
<1>1. job[w] \in Job /\ remote \in Seq(Product)
  BY DEF TypeOK
<1>2. c \in Shown /\ Written \subseteq Parts
  BY <1>1, ContentsAssumption DEF Job, Written, Parts
<1>3. CASE Match(w, i) # 0
  <2>1. Match(w, i) \in 1..Len(remote)
    BY <1>3 DEF OwnInv, Owns, Match
  <2>2. old \in Shown
    <3>1. remote[Match(w, i)] \in Product
      BY <1>1, <2>1
    <3> QED
      BY <3>1 DEF Product
  <2>3. Overlay(old, c, parts) \in Shown
    BY <1>2, <2>2 DEF Overlay, Shown
  <2>4. \A part \in parts : c[part] # 0 =>
          Overlay(old, c, parts)[part] = c[part]
    BY DEF Overlay
  <2>5. After(w, i, parts) = [item |-> i, content |-> Overlay(old, c, parts)]
    BY <1>3 DEF After
  <2> HIDE DEF old, c
  <2> QED
    BY <1>3, <2>3, <2>4, <2>5 DEF Product, Tells, c
<1>4. CASE Match(w, i) = 0
  <2>1. After(w, i, parts) = [item |-> i, content |-> c]
    BY <1>4 DEF After
  <2> QED
    BY <1>2, <2>1 DEF Product, Tells
<1> QED
  BY <1>3, <1>4

\* A call creates a product of its item or overwrites one of its item.
LEMMA Applied ==
    ASSUME TypeOK, OwnInv, NEW w \in Workers, NEW i \in Items,
           NEW parts \in SUBSET Parts, Apply(w, i, parts)
    PROVE  /\ remote' \in Seq(Product)
           /\ Len(remote') <= MaxRemote
           /\ Keeps(remote, remote')
           /\ AnsweredId(w, i) \in 0..MaxRemote
           /\ Owns(remote', i, AnsweredId(w, i))
<1> DEFINE product == After(w, i, parts)
<1>1. /\ job[w] \in Job /\ remote \in Seq(Product) /\ Len(remote) \in Nat
      /\ Len(remote) <= MaxRemote /\ MaxRemote \in Nat
  BY BoundsAssumption DEF TypeOK
<1>2. job[w].links[i] \in Link
  BY <1>1 DEF Job
<1>3. product \in Product /\ product.item = i
  BY AfterTells
<1>4. Match(w, i) \in 0..MaxRemote
  BY <1>2 DEF Match, Link
<1> HIDE DEF product
<1>5. CASE Match(w, i) # 0
  <2>1. /\ Match(w, i) \in 1..Len(remote)
        /\ remote[Match(w, i)].item = i
    BY <1>5 DEF OwnInv, Owns, Match
  <2>2. remote' = [remote EXCEPT ![Match(w, i)] = product]
    BY <1>5 DEF Apply, product, After
  <2>3. remote' \in Seq(Product) /\ Len(remote') = Len(remote)
    BY <1>1, <1>3, <2>1, <2>2
  <2>4. \A n \in 1..Len(remote) : remote'[n].item = remote[n].item
    BY <1>1, <1>3, <2>1, <2>2
  <2> QED
    BY <1>1, <1>4, <1>5, <2>1, <2>3, <2>4 DEF Keeps, Owns, AnsweredId
<1>6. CASE Match(w, i) = 0
  <2>1. Len(remote) < MaxRemote /\ remote' = Append(remote, product)
    BY <1>6, AfterTells DEF Apply, product
  <2>2. /\ remote' \in Seq(Product) /\ Len(remote') = Len(remote) + 1
        /\ \A n \in 1..Len(remote) : remote'[n] = remote[n]
        /\ remote'[Len(remote) + 1] = product
    BY <1>1, <1>3, <2>1
  <2> QED
    BY <1>1, <1>3, <1>6, <2>1, <2>2 DEF Keeps, Owns, AnsweredId
<1> QED
  BY <1>4, <1>5, <1>6

-----------------------------------------------------------------------------
(* The invariant and its steps                                             *)

PushInv == TypeOK /\ OwnInv /\ losses <= faults

\* A fault, and whether it is a loss, stay within their bounds.
LEMMA Counting ==
    ASSUME PushInv, faults < MaxFaults, faults' = faults + 1,
           losses' = losses \/ losses' = losses + 1
    PROVE  /\ faults' \in 0..MaxFaults /\ losses' \in 0..MaxFaults
           /\ losses' <= faults'
BY BoundsAssumption DEF PushInv, TypeOK

\* The provider's answer to one product, whatever it is.
LEMMA Answering ==
    ASSUME PushInv, NEW w \in Workers, NEW i \in Items, NEW s \in Result,
           job' = [job EXCEPT ![w].result[i] = s],
           remote' \in Seq(Product), Len(remote') <= MaxRemote,
           Keeps(remote, remote'), Owns(remote', i, s.remote_id),
           UNCHANGED <<sync, links, local, edits, unsure, adapter>>,
           faults' \in 0..MaxFaults, losses' \in 0..MaxFaults,
           losses' <= faults'
    PROVE  PushInv'
<1>1. TypeOK /\ OwnInv /\ remote \in Seq(Product)
  BY DEF PushInv, TypeOK, Product
<1>2. /\ job' \in [Workers -> Job]
      /\ job'[w].links = job[w].links
      /\ job'[w].result = [job[w].result EXCEPT ![i] = s]
      /\ \A v \in Workers : v # w => job'[v] = job[v]
  BY <1>1, OneResult
<1>3. TypeOK'
  BY <1>1, <1>2 DEF TypeOK, Product
<1>4. \A j \in Items : \A id : Owns(remote, j, id) => Owns(remote', j, id)
  BY <1>1, KeepsOwns
<1>5. ASSUME NEW j \in Items, NEW v \in Workers
      PROVE  /\ Owns(remote', j, job'[v].links[j].remote_id)
             /\ Owns(remote', j, job'[v].result[j].remote_id)
  <2>1. job[v] \in Job /\ DOMAIN job[v].result = Items
    BY <1>1 DEF TypeOK, Job
  <2>2. /\ Owns(remote', j, job[v].links[j].remote_id)
        /\ Owns(remote', j, job[v].result[j].remote_id)
    BY <1>1, <1>4 DEF OwnInv
  <2>3. CASE v = w
    <3>1. job'[v].result[j] = IF j = i THEN s ELSE job[v].result[j]
      BY <1>2, <2>1, <2>3
    <3> QED
      BY <1>2, <2>2, <2>3, <3>1
  <2>4. CASE v # w
    BY <1>2, <2>2, <2>4
  <2> QED
    BY <2>3, <2>4
<1>6. \A j \in Items : Owns(remote', j, links'[j].remote_id)
  BY <1>1, <1>4 DEF OwnInv
<1>7. OwnInv'
  BY <1>5, <1>6 DEF OwnInv
<1> QED
  BY <1>3, <1>7 DEF PushInv

\* A step that replaces the record of a worker and calls nobody.
LEMMA Proceeding ==
    ASSUME PushInv, NEW w \in Workers, NEW r \in Job,
           job' = [job EXCEPT ![w] = r],
           \A i \in Items : /\ Owns(remote, i, r.links[i].remote_id)
                            /\ Owns(remote, i, r.result[i].remote_id),
           sync' \in SyncRow, links' \in [Items -> Link],
           \A i \in Items : Owns(remote, i, links'[i].remote_id),
           UNCHANGED <<local, remote, edits, adapter>>,
           faults' \in 0..MaxFaults, losses' \in 0..MaxFaults,
           losses' <= faults', unsure' \subseteq Items
    PROVE  PushInv'
<1>1. TypeOK /\ OwnInv
  BY DEF PushInv
<1>2. /\ job' \in [Workers -> Job] /\ job'[w] = r
      /\ \A v \in Workers : v # w => job'[v] = job[v]
  BY <1>1, OneRecord
<1>3. TypeOK'
  BY <1>1, <1>2 DEF TypeOK
<1>4. ASSUME NEW i \in Items, NEW v \in Workers
      PROVE  /\ Owns(remote', i, job'[v].links[i].remote_id)
             /\ Owns(remote', i, job'[v].result[i].remote_id)
  <2>1. CASE v = w
    BY <1>2, <2>1
  <2>2. CASE v # w
    BY <1>1, <1>2, <2>2 DEF OwnInv
  <2> QED
    BY <2>1, <2>2
<1>5. OwnInv'
  BY <1>4 DEF OwnInv
<1> QED
  BY <1>3, <1>5 DEF PushInv

\* The run of a worker ends, however.
LEMMA Resting ==
    ASSUME PushInv, NEW w \in Workers, job' = [job EXCEPT ![w] = Blank],
           sync' \in SyncRow, UNCHANGED <<links, local, remote, edits, adapter>>,
           faults' \in 0..MaxFaults, losses' \in 0..MaxFaults,
           losses' <= faults', unsure' \subseteq Items
    PROVE  PushInv'
<1>1. Blank \in Job
  BY BlankTyped
<1>2. \A i \in Items : Blank.links[i].remote_id = 0
                       /\ Blank.result[i].remote_id = 0
  BY BlankTyped DEF Unsent
<1>3. \A i \in Items : Owns(remote, i, Blank.links[i].remote_id)
                       /\ Owns(remote, i, Blank.result[i].remote_id)
  BY <1>2 DEF Owns
<1>4. /\ links' \in [Items -> Link]
      /\ \A i \in Items : Owns(remote, i, links'[i].remote_id)
  BY DEF PushInv, TypeOK, OwnInv
<1> QED
  BY <1>1, <1>3, <1>4, Proceeding

\* What a worker saves for an item is its own.
LEMMA SavedOwned ==
    ASSUME PushInv, NEW w \in Workers, NEW i \in Items
    PROVE  Saved(w, i) \in Link /\ Owns(remote, i, Saved(w, i).remote_id)
<1>1. /\ job[w].result[i] \in Result /\ job[w].links[i] \in Link
      /\ job[w].want[i] \in Contents /\ links[i] \in Link
  BY DEF PushInv, TypeOK, Job
<1>2. /\ Owns(remote, i, job[w].result[i].remote_id)
      /\ Owns(remote, i, job[w].links[i].remote_id)
      /\ Owns(remote, i, links[i].remote_id)
  BY DEF PushInv, OwnInv
<1> DEFINE r == job[w].result[i]
           l == job[w].links[i]
           k == links[i]
<1>3. CASE r.status = "error"
  <2>1. Saved(w, i) = [k EXCEPT !.status = "error"]
    BY <1>3 DEF Saved
  <2>2. Saved(w, i) \in Link /\ Saved(w, i).remote_id = k.remote_id
    BY <1>1, <2>1 DEF Link
  <2> QED
    BY <1>2, <2>2
<1>4. CASE r.status # "error"
  <2>1. Saved(w, i) = [remote_id |-> IF r.remote_id # 0 THEN r.remote_id
                                     ELSE l.remote_id,
                       content_hash |-> job[w].want[i], status |-> "linked"]
    BY <1>4 DEF Saved
  <2>2. Saved(w, i) \in Link
    BY <1>1, <2>1 DEF Link, Result
  <2>3. Saved(w, i).remote_id \in {r.remote_id, l.remote_id}
    BY <2>1
  <2> QED
    BY <1>2, <2>2, <2>3
<1> QED
  BY <1>3, <1>4

LEMMA InitInv == Init => PushInv
<1> SUFFICES ASSUME Init PROVE PushInv
  OBVIOUS
<1>1. links \in [Items -> Link] /\ \A w \in Workers : job[w] = Blank
  BY BlankTyped DEF Init, Job
<1>2. job \in [Workers -> Job]
  BY BlankTyped DEF Init
<1>3. TypeOK
  BY <1>1, <1>2, BoundsAssumption, AdaptersAssumption
     DEF Init, TypeOK, SyncRow
<1>4. \A i \in Items : /\ links[i].remote_id = 0
                       /\ Blank.links[i].remote_id = 0
                       /\ Blank.result[i].remote_id = 0
  BY BlankTyped DEF Init, Unsent
<1>5. OwnInv
  BY <1>1, <1>4 DEF OwnInv, Owns
<1>6. losses <= faults
  BY DEF Init
<1> QED
  BY <1>3, <1>5, <1>6 DEF PushInv

\* The calls to the provider, one product each.
LEMMA CallsKeepInv ==
    ASSUME PushInv, NEW w \in Workers, NEW i \in Items,
           \/ Sent(w, i) \/ Skipped(w, i) \/ SentWithoutId(w, i)
           \/ Rejected(w, i) \/ Lost(w, i) \/ Replayed(w, i)
    PROVE  PushInv'
<1>1. /\ TypeOK /\ OwnInv /\ remote \in Seq(Product) /\ Len(remote) \in Nat
      /\ Len(remote) <= MaxRemote /\ MaxRemote \in Nat /\ MaxFaults \in Nat
      /\ faults \in 0..MaxFaults /\ losses \in 0..MaxFaults /\ losses <= faults
  BY BoundsAssumption DEF PushInv, TypeOK, Product
<1>2. \A status \in {"ok", "error"}, id \in 0..MaxRemote :
        [status |-> status, remote_id |-> id] \in Result
  BY DEF Result
<1>0. Written \in SUBSET Parts /\ {"stock"} \in SUBSET Parts
  BY DEF Written, Parts
<1>3. CASE Sent(w, i)
  <2> DEFINE s == [status |-> "ok", remote_id |-> AnsweredId(w, i)]
  <2>1. /\ remote' \in Seq(Product) /\ Len(remote') <= MaxRemote
        /\ Keeps(remote, remote') /\ AnsweredId(w, i) \in 0..MaxRemote
        /\ Owns(remote', i, AnsweredId(w, i))
    BY <1>0, <1>1, <1>3, Applied DEF Sent
  <2>2. /\ job' = [job EXCEPT ![w].result[i] = s]
        /\ UNCHANGED <<sync, links, local, edits, faults, losses, unsure, adapter>>
    BY <1>3 DEF Sent
  <2>3. s \in Result /\ s.remote_id = AnsweredId(w, i)
    BY <1>2, <2>1
  <2> HIDE DEF s
  <2> QED
    BY <1>1, <2>1, <2>2, <2>3, Answering
<1>4. CASE SentWithoutId(w, i)
  <2> DEFINE s == [status |-> "ok", remote_id |-> 0]
  <2>1. /\ remote' \in Seq(Product) /\ Len(remote') <= MaxRemote
        /\ Keeps(remote, remote')
    BY <1>0, <1>1, <1>4, Applied DEF SentWithoutId
  <2>2. /\ job' = [job EXCEPT ![w].result[i] = s]
        /\ UNCHANGED <<sync, links, local, edits, unsure, adapter>>
        /\ faults < MaxFaults /\ faults' = faults + 1 /\ losses' = losses + 1
    BY <1>4 DEF SentWithoutId
  <2>3. s \in Result /\ s.remote_id = 0
    BY <1>1, <1>2
  <2>4. Owns(remote', i, s.remote_id)
    BY <2>3 DEF Owns
  <2> HIDE DEF s
  <2> QED
    BY <1>1, <2>1, <2>2, <2>3, <2>4, Counting, Answering
<1>5. CASE Rejected(w, i) \/ Lost(w, i)
  <2> DEFINE s == [status |-> "error", remote_id |-> 0]
  <2>1. /\ remote' \in Seq(Product) /\ Len(remote') <= MaxRemote
        /\ Keeps(remote, remote')
    <3>1. CASE Rejected(w, i)
      BY <1>1, <3>1 DEF Rejected, Keeps
    <3>2. CASE Lost(w, i)
      BY <1>0, <1>1, <3>2, Applied DEF Lost
    <3> QED
      BY <1>5, <3>1, <3>2
  <2>2. /\ job' = [job EXCEPT ![w].result[i] = s]
        /\ UNCHANGED <<sync, links, local, edits, unsure, adapter>>
        /\ faults < MaxFaults /\ faults' = faults + 1
        /\ losses' = losses \/ losses' = losses + 1
    BY <1>5 DEF Rejected, Lost
  <2>3. s \in Result /\ s.remote_id = 0
    BY <1>1, <1>2
  <2>4. Owns(remote', i, s.remote_id)
    BY <2>3 DEF Owns
  <2> HIDE DEF s
  <2> QED
    BY <1>1, <2>1, <2>2, <2>3, <2>4, Counting, Answering
<1>6. CASE Replayed(w, i)
  <2> DEFINE product == [item |-> i, content |-> job[w].want[i]]
             s == [status |-> "ok", remote_id |-> Len(remote) + 2]
  <2>1. product \in Product /\ product.item = i
    BY <1>1, ContentsAssumption DEF TypeOK, Job, Product
  <2>2. /\ Len(remote) + 2 <= MaxRemote
        /\ remote' = remote \o <<product, product>>
        /\ job' = [job EXCEPT ![w].result[i] = s]
        /\ UNCHANGED <<sync, links, local, edits, unsure, adapter>>
        /\ faults < MaxFaults /\ faults' = faults + 1 /\ losses' = losses + 1
    BY <1>6 DEF Replayed
  <2>3. s \in Result /\ s.remote_id = Len(remote) + 2
    <3>1. Len(remote) + 2 \in 0..MaxRemote
      BY <1>1, <2>2
    <3> QED
      BY <1>2, <3>1
  <2> HIDE DEF product, s
  <2>4. /\ remote' \in Seq(Product) /\ Len(remote') = Len(remote) + 2
        /\ \A n \in 1..Len(remote) : remote'[n] = remote[n]
        /\ remote'[Len(remote) + 2] = product
    BY <1>1, <2>1, <2>2
  <2>5. Keeps(remote, remote') /\ Owns(remote', i, s.remote_id)
    BY <1>1, <2>1, <2>3, <2>4 DEF Keeps, Owns
  <2> QED
    BY <1>1, <2>2, <2>3, <2>4, <2>5, Counting, Answering
<1>7. CASE Skipped(w, i)
  <2> DEFINE s == [status |-> "ok", remote_id |-> 0]
  <2>1. /\ job' = [job EXCEPT ![w].result[i] = s]
        /\ UNCHANGED <<sync, links, local, remote, edits, faults, losses,
                       unsure, adapter>>
    BY <1>7 DEF Skipped
  <2>2. s \in Result /\ s.remote_id = 0
    BY <1>1, <1>2
  <2>3. Keeps(remote, remote') /\ Owns(remote', i, s.remote_id)
    BY <1>1, <2>1, <2>2 DEF Keeps, Owns
  <2> HIDE DEF s
  <2> QED
    BY <1>1, <2>1, <2>2, <2>3, Answering
<1> QED
  BY <1>3, <1>4, <1>5, <1>6, <1>7

\* The steps of a worker that calls nobody, and those of its surroundings.
LEMMA WorkerKeepsInv ==
    ASSUME PushInv, NEW w \in Workers,
           \/ Load(w) \/ Refused(w) \/ Acquire(w) \/ ReadLinks(w)
           \/ Finish(w) \/ Keep(w) \/ Release(w) \/ Fail(w) \/ Crash(w)
           \/ \E i \in Items : SaveLink(w, i)
    PROVE  PushInv'
<1>1. /\ TypeOK /\ OwnInv /\ job[w] \in Job /\ MaxFaults \in Nat
      /\ faults \in 0..MaxFaults /\ losses \in 0..MaxFaults /\ losses <= faults
      /\ sync \in SyncRow /\ links \in [Items -> Link] /\ unsure \subseteq Items
  BY BoundsAssumption DEF PushInv, TypeOK
<1>2. \A i \in Items : /\ Owns(remote, i, links[i].remote_id)
                       /\ Owns(remote, i, job[w].links[i].remote_id)
                       /\ Owns(remote, i, job[w].result[i].remote_id)
  BY <1>1 DEF OwnInv
<1>3. CASE Load(w)
  <2> DEFINE r1 == [Blank EXCEPT !.stage = "loaded"]
             r2 == [r1 EXCEPT !.sync = sync]
             r  == [r2 EXCEPT !.want = local]
  <2>1. r1 \in Job /\ r1.links = Blank.links /\ r1.result = Blank.result
    BY BlankTyped DEF Job
  <2> HIDE DEF r1
  <2>2. r2 \in Job /\ r2.links = Blank.links /\ r2.result = Blank.result
    BY <1>1, <2>1 DEF Job
  <2> HIDE DEF r2
  <2>3. r \in Job /\ r.links = Blank.links /\ r.result = Blank.result
    BY <1>1, <2>2 DEF Job, TypeOK
  <2> USE DEF r1, r2
  <2>4. job' = [job EXCEPT ![w] = r]
    BY <1>3 DEF Load
  <2> HIDE DEF r
  <2>5. \A i \in Items : /\ Owns(remote, i, r.links[i].remote_id)
                         /\ Owns(remote, i, r.result[i].remote_id)
    BY <2>3, BlankTyped DEF Owns, Unsent
  <2> QED
    BY <1>1, <1>2, <1>3, <2>3, <2>4, <2>5, Proceeding DEF Load
<1>4. CASE Refused(w)
  BY <1>1, <1>4, Resting DEF Refused
<1>5. CASE Acquire(w)
  <2> DEFINE r1 == [job[w] EXCEPT !.stage = "running"]
             r  == [r1 EXCEPT !.sync = Blank.sync]
  <2>1. Blank.sync \in SyncRow
    BY BlankTyped DEF Job
  <2>2. r1 \in Job /\ r1.links = job[w].links /\ r1.result = job[w].result
    BY <1>1 DEF Job
  <2> HIDE DEF r1
  <2>3. r \in Job /\ r.links = job[w].links /\ r.result = job[w].result
    BY <2>1, <2>2 DEF Job
  <2> USE DEF r1
  <2>4. job' = [job EXCEPT ![w] = r] /\ sync' \in SyncRow
    BY <1>1, <1>5 DEF Acquire, SyncRow, TypeOK
  <2> HIDE DEF r
  <2> QED
    BY <1>1, <1>2, <1>5, <2>3, <2>4, Proceeding DEF Acquire
<1>6. CASE ReadLinks(w)
  <2> DEFINE todo == {i \in Items : ~Unchanged(links[i], job[w].want[i])}
             r1 == [job[w] EXCEPT !.stage = "pushing"]
             r2 == [r1 EXCEPT !.links = links]
             r  == [r2 EXCEPT !.todo = todo]
  <2>1. r1 \in Job /\ r1.result = job[w].result
    BY <1>1 DEF Job
  <2> HIDE DEF r1
  <2>2. r2 \in Job /\ r2.links = links /\ r2.result = job[w].result
    BY <1>1, <2>1 DEF Job
  <2> HIDE DEF r2
  <2>3. r \in Job /\ r.links = links /\ r.result = job[w].result
    BY <1>1, <2>2 DEF Job
  <2> USE DEF r1, r2
  <2>4. job' = [job EXCEPT ![w] = r]
    BY <1>1, <1>6 DEF ReadLinks, TypeOK
  <2> HIDE DEF r
  <2> QED
    BY <1>1, <1>2, <1>6, <2>3, <2>4, Proceeding DEF ReadLinks
<1>7. CASE Finish(w) \/ Release(w)
  <2>1. /\ sync' = [status |-> "completed", fresh |-> TRUE]
        /\ job' = [job EXCEPT ![w] = Blank]
        /\ UNCHANGED <<links, local, remote, edits, faults, losses, unsure,
                       adapter>>
    BY <1>7 DEF Finish, Release
  <2>2. sync' \in SyncRow
    BY <2>1 DEF SyncRow
  <2> QED
    BY <1>1, <2>1, <2>2, Resting
<1>10. CASE Keep(w)
  <2> DEFINE r == [Blank EXCEPT !.stage = "held"]
  <2>1. r \in Job /\ r.links = Blank.links /\ r.result = Blank.result
    BY BlankTyped DEF Job
  <2>2. job' = [job EXCEPT ![w] = r]
    BY <1>10 DEF Keep
  <2>3. \A i \in Items : /\ Owns(remote, i, r.links[i].remote_id)
                         /\ Owns(remote, i, r.result[i].remote_id)
    BY <2>1, BlankTyped DEF Owns, Unsent
  <2> HIDE DEF r
  <2> QED
    BY <1>1, <1>2, <1>10, <2>1, <2>2, <2>3, Proceeding DEF Keep
<1>8. CASE Fail(w) \/ Crash(w)
  <2>1. /\ job' = [job EXCEPT ![w] = Blank] /\ sync' \in SyncRow
        /\ UNCHANGED <<links, local, remote, edits, adapter>>
        /\ faults < MaxFaults /\ faults' = faults + 1
        /\ Interrupted(w)
    <3>1. CASE Fail(w)
      BY <3>1 DEF Fail, SyncRow
    <3>2. CASE Crash(w)
      BY <1>1, <3>2 DEF Crash
    <3> QED
      BY <1>8, <3>1, <3>2
  <2>2. losses' \in {losses, losses + 1} /\ unsure' \subseteq Items
    BY <1>1, <2>1 DEF Interrupted, Job
  <2> QED
    BY <2>1, <2>2, Counting, Resting
<1>9. ASSUME NEW i \in Items, SaveLink(w, i) PROVE PushInv'
  <2> DEFINE results == [job[w].result EXCEPT ![i] = Unsent]
             r1 == [job[w] EXCEPT !.todo = @ \ {i}]
             r  == [r1 EXCEPT !.result = results]
  <2>1. Unsent \in Result /\ Unsent.remote_id = 0
    BY BoundsAssumption DEF Unsent, Result
  <2>2. job[w].result \in [Items -> Result]
    BY <1>1 DEF Job
  <2>3. /\ results \in [Items -> Result]
        /\ \A j \in Items : results[j] \in {job[w].result[j], Unsent}
    BY <2>1, <2>2
  <2>4. \A j \in Items : Owns(remote, j, results[j].remote_id)
    BY <1>2, <2>1, <2>3 DEF Owns
  <2> HIDE DEF results
  <2>5. r1 \in Job /\ r1.links = job[w].links
    BY <1>1 DEF Job
  <2> HIDE DEF r1
  <2>6. r \in Job /\ r.links = job[w].links /\ r.result = results
    BY <2>3, <2>5 DEF Job
  <2> USE DEF r1, results
  <2>7. /\ job' = [job EXCEPT ![w] = r] /\ unsure' \subseteq Items
        /\ links' = [links EXCEPT ![i] = Saved(w, i)]
        /\ UNCHANGED <<sync, local, remote, edits, faults, losses, adapter>>
    BY <1>1, <1>9 DEF SaveLink, TypeOK, Job
  <2> HIDE DEF r, r1, results
  <2>8. /\ links' \in [Items -> Link]
        /\ \A j \in Items : Owns(remote, j, links'[j].remote_id)
    BY <1>1, <1>2, <2>7, SavedOwned
  <2> QED
    BY <1>1, <1>2, <2>6, <2>7, <2>8, <2>4, Proceeding
<1> QED
  BY <1>3, <1>4, <1>5, <1>6, <1>7, <1>8, <1>9, <1>10

LEMMA StepInv == PushInv /\ [Next]_vars => PushInv'
<1> SUFFICES ASSUME PushInv, [Next]_vars PROVE PushInv'
  OBVIOUS
<1>1. ASSUME NEW i \in Items, NEW c \in Contents, LocalEdit(i, c) PROVE PushInv'
  BY <1>1, BoundsAssumption DEF LocalEdit, PushInv, TypeOK, OwnInv
<1>2. CASE Age
  <2>1. \A w \in Workers : /\ job'[w] \in Job
                           /\ job'[w].links = job[w].links
                           /\ job'[w].result = job[w].result
    <3> SUFFICES ASSUME NEW w \in Workers
                 PROVE  /\ job'[w] \in Job
                        /\ job'[w].links = job[w].links
                        /\ job'[w].result = job[w].result
      OBVIOUS
    <3>1. job'[w] = [job[w] EXCEPT !.sync.fresh = FALSE]
      BY <1>2 DEF Age
    <3>2. job[w] \in Job
      BY DEF PushInv, TypeOK
    <3> QED
      BY <3>1, <3>2 DEF Job, SyncRow
  <2>2. job' \in [Workers -> Job] /\ sync' \in SyncRow
    BY <1>2, <2>1 DEF Age, PushInv, TypeOK, SyncRow
  <2> QED
    BY <1>2, <2>1, <2>2 DEF Age, PushInv, TypeOK, OwnInv
<1>4. ASSUME NEW i \in Items, NEW c \in Contents, Adopt(i, c) PROVE PushInv'
  <2> DEFINE product == [item |-> i, content |-> c]
             link == [remote_id |-> Len(remote) + 1, content_hash |-> c,
                      status |-> "linked"]
  <2>1. /\ TypeOK /\ OwnInv /\ remote \in Seq(Product) /\ Len(remote) \in Nat
        /\ MaxRemote \in Nat /\ Len(remote) < MaxRemote
    BY <1>4, BoundsAssumption DEF PushInv, TypeOK, Adopt
  <2>2. product \in Product /\ product.item = i
    BY ContentsAssumption DEF Product
  <2>3. link \in Link /\ link.remote_id = Len(remote) + 1
    BY <2>1 DEF Link
  <2>4. remote' = Append(remote, product) /\ links' = [links EXCEPT ![i] = link]
    BY <1>4 DEF Adopt
  <2> HIDE DEF product, link
  <2>5. /\ remote' \in Seq(Product) /\ Len(remote') = Len(remote) + 1
        /\ \A n \in 1..Len(remote) : remote'[n] = remote[n]
        /\ remote'[Len(remote) + 1] = product
    BY <2>1, <2>2, <2>4
  <2>6. Keeps(remote, remote')
    BY <2>1, <2>5 DEF Keeps
  <2>7. \A j \in Items : \A id : Owns(remote, j, id) => Owns(remote', j, id)
    BY <2>1, <2>5, <2>6, KeepsOwns
  <2>8. Owns(remote', i, link.remote_id)
    BY <2>1, <2>2, <2>3, <2>5 DEF Owns
  <2>9. /\ links' \in [Items -> Link] /\ links'[i] = link
        /\ \A j \in Items : j # i => links'[j] = links[j]
    BY <2>1, <2>3, <2>4 DEF TypeOK
  <2>10. OwnInv'
    BY <1>4, <2>1, <2>7, <2>8, <2>9 DEF OwnInv, Adopt
  <2>11. edits' \in 0..MaxEdits
    BY <1>4, <2>1, BoundsAssumption DEF TypeOK, Adopt
  <2>12. TypeOK'
    BY <1>4, <2>1, <2>5, <2>9, <2>11 DEF TypeOK, Adopt, SyncRow
  <2> QED
    BY <1>4, <2>10, <2>12 DEF PushInv, Adopt
<1>3. CASE UNCHANGED vars
  BY <1>3 DEF vars, PushInv, TypeOK, OwnInv
<1> QED
  BY <1>1, <1>2, <1>3, <1>4, CallsKeepInv, WorkerKeepsInv DEF Next, Proceed

-----------------------------------------------------------------------------
(* One run at a time                                                       *)

\* One worker pushes the resource: the lock's purpose, which the check and the
\* save of acquire_lock do not achieve by themselves (MutualExclusion).
OneWorker == \E w : Workers = {w}

\* The products that the provider has of an item.
ProductsOf(i) == {n \in 1..Len(remote) : remote[n].item = i}

\* The item is to be sent, or sent and not saved, by a run that is under way.
Open(w, i) == job[w].stage = "pushing" /\ i \in job[w].todo

\* A product more than the losses account for is known by its id, to the link
\* or to the run that is about to save it.
Counted(w, i) ==
    /\ Cardinality(ProductsOf(i)) <= 1 + losses
    /\ \/ Cardinality(ProductsOf(i)) <= losses
       \/ links[i].remote_id # 0
       \/ /\ Open(w, i)
          /\ job[w].result[i].status = "ok"
          /\ job[w].result[i].remote_id # 0

\* What the link says of the product is so.
Told(i) ==
    links[i].status = "linked" /\ links[i].remote_id # 0 =>
        Tells(remote[links[i].remote_id], links[i].content_hash)

\* Only an item whose answer waits to be saved, or never will be, is told wrong.
Known(w, i) ==
    \/ i \in unsure
    \/ Told(i)
    \/ Open(w, i) /\ job[w].result[i] # Unsent

\* What the run is about to save of the product is so.
Answer(w, i) ==
    \/ job[w].result[i] = Unsent
    \/ job[w].result[i].status = "error"
    \/ /\ job[w].result[i].status = "ok"
       /\ IF job[w].result[i].remote_id # 0
          THEN Tells(remote[job[w].result[i].remote_id], job[w].want[i])
          ELSE links[i].remote_id = 0

\* The copies of a run are those of the rows, and it starts with no answers.
Current(w, i) ==
    /\ Open(w, i) => job[w].links[i] = links[i] /\ Answer(w, i)
    /\ job[w].stage # "pushing" => job[w].result[i] = Unsent

SerialInv ==
    \A w \in Workers, i \in Items :
        Counted(w, i) /\ Known(w, i) /\ Current(w, i)

LEMMA ProductsFinite ==
    ASSUME TypeOK, NEW i
    PROVE  IsFiniteSet(ProductsOf(i)) /\ Cardinality(ProductsOf(i)) \in Nat
<1>1. IsFiniteSet(1..Len(remote))
  BY FS_Interval DEF TypeOK
<1>2. ProductsOf(i) \subseteq 1..Len(remote)
  BY DEF ProductsOf
<1>3. IsFiniteSet(ProductsOf(i))
  BY <1>1, <1>2, FS_Subset
<1> QED
  BY <1>3, FS_CardinalityType

\* A step that creates nothing and only overwrites leaves every count.
LEMMA SameProducts ==
    ASSUME Len(remote') = Len(remote), NEW i,
           \A n \in 1..Len(remote) : remote'[n].item = remote[n].item
    PROVE  ProductsOf(i)' = ProductsOf(i)
BY DEF ProductsOf

\* What a call leaves of the other items, and what it does to its own.
LEMMA AppliedCount ==
    ASSUME TypeOK, OwnInv, NEW w \in Workers, NEW i \in Items,
           NEW parts \in SUBSET Parts, Apply(w, i, parts)
    PROVE  /\ \A j : j # i => ProductsOf(j)' = ProductsOf(j)
           /\ \A n \in 1..Len(remote) :
                remote[n].item # i => remote'[n] = remote[n]
           /\ Match(w, i) # 0 => ProductsOf(i)' = ProductsOf(i)
           /\ Match(w, i) = 0 =>
                Cardinality(ProductsOf(i)') = Cardinality(ProductsOf(i)) + 1
           /\ parts = Written =>
                Tells(remote'[AnsweredId(w, i)], job[w].want[i])
           /\ AnsweredId(w, i) # 0
<1> DEFINE product == After(w, i, parts)
<1>1. /\ job[w] \in Job /\ remote \in Seq(Product) /\ Len(remote) \in Nat
  BY DEF TypeOK, Product
<1>3. /\ product \in Product /\ product.item = i
      /\ parts = Written => Tells(product, job[w].want[i])
  BY AfterTells
<1> HIDE DEF product
<1>4. CASE Match(w, i) # 0
  <2>1. /\ Match(w, i) \in 1..Len(remote)
        /\ remote[Match(w, i)].item = i
    BY <1>4 DEF OwnInv, Owns, Match
  <2>2. remote' = [remote EXCEPT ![Match(w, i)] = product]
    BY <1>4 DEF Apply, product, After
  <2>3. /\ Len(remote') = Len(remote)
        /\ remote'[Match(w, i)] = product
        /\ \A n \in 1..Len(remote) : n # Match(w, i) => remote'[n] = remote[n]
    BY <1>1, <2>1, <2>2
  <2>4. \A n \in 1..Len(remote) : remote'[n].item = remote[n].item
    BY <1>3, <2>1, <2>3
  <2>5. \A j : ProductsOf(j)' = ProductsOf(j)
    BY <2>3, <2>4, SameProducts
  <2> QED
    BY <1>3, <1>4, <2>1, <2>3, <2>5 DEF AnsweredId
<1>5. CASE Match(w, i) = 0
  <2>1. remote' = Append(remote, product)
    BY <1>5, AfterTells DEF Apply, product
  <2>2. /\ Len(remote') = Len(remote) + 1
        /\ \A n \in 1..Len(remote) : remote'[n] = remote[n]
        /\ remote'[Len(remote) + 1] = product
    BY <1>1, <1>3, <2>1
  <2>3. \A j : j # i => ProductsOf(j)' = ProductsOf(j)
    BY <1>1, <1>3, <2>2 DEF ProductsOf
  <2>4. ProductsOf(i)' = ProductsOf(i) \cup {Len(remote) + 1}
    BY <1>1, <1>3, <2>2 DEF ProductsOf
  <2>5. Len(remote) + 1 \notin ProductsOf(i)
    BY <1>1 DEF ProductsOf
  <2>6. Cardinality(ProductsOf(i)') = Cardinality(ProductsOf(i)) + 1
    BY <2>4, <2>5, ProductsFinite, FS_AddElement
  <2> QED
    BY <1>1, <1>3, <1>5, <2>2, <2>3, <2>6 DEF AnsweredId
<1> QED
  BY <1>4, <1>5

\* The provider's answer to one product, whatever it is.
LEMMA AnswerKept ==
    ASSUME PushInv, SerialInv, OneWorker,
           NEW w \in Workers, NEW i \in Items, NEW s \in Result,
           Sending(w, i), s # Unsent,
           job' = [job EXCEPT ![w].result[i] = s],
           UNCHANGED <<links, unsure, adapter>>, losses <= losses', losses' \in Nat,
           \A j : j # i => ProductsOf(j)' = ProductsOf(j),
           \A n \in 1..Len(remote) :
             remote[n].item # i => remote'[n] = remote[n],
           Cardinality(ProductsOf(i)') <= 1 + losses',
           \/ Cardinality(ProductsOf(i)') <= losses'
           \/ links[i].remote_id # 0
           \/ s.status = "ok" /\ s.remote_id # 0,
           \/ s.status = "error"
           \/ /\ s.status = "ok"
              /\ IF s.remote_id # 0
                 THEN Tells(remote'[s.remote_id], job[w].want[i])
                 ELSE links[i].remote_id = 0
    PROVE  SerialInv'
<1>0. Written' = Written
  BY DEF Written
<1>1. /\ TypeOK /\ OwnInv /\ losses \in Nat
  BY BoundsAssumption DEF PushInv, TypeOK
<1>2. \A v \in Workers : v = w
  BY DEF OneWorker
<1>3. job[w] \in Job /\ DOMAIN job[w].result = Items
  BY <1>1 DEF TypeOK, Job
<1>4. /\ job'[w].stage = job[w].stage /\ job'[w].todo = job[w].todo
      /\ job'[w].links = job[w].links /\ job'[w].want = job[w].want
      /\ \A j \in Items : j # i => job'[w].result[j] = job[w].result[j]
      /\ job'[w].result[i] = s
  <2>1. job'[w] = [job[w] EXCEPT !.result[i] = s]
    BY <1>1 DEF TypeOK
  <2> QED
    BY <1>3, <2>1 DEF Job
<1>5. job[w].stage = "pushing" /\ i \in job[w].todo
  BY DEF Sending
<1> SUFFICES ASSUME NEW j \in Items
             PROVE  /\ Counted(w, j)' /\ Known(w, j)' /\ Current(w, j)'
  BY <1>2 DEF SerialInv
<1>6. Counted(w, j) /\ Known(w, j) /\ Current(w, j)
  BY DEF SerialInv
<1>7. CASE j = i
  <2>1. Counted(w, j)'
    BY <1>4, <1>5, <1>7 DEF Counted, Open
  <2>2. Known(w, j)'
    BY <1>4, <1>5, <1>7 DEF Known, Open
  <2>3. Current(w, j)'
    BY <1>0, <1>4, <1>5, <1>6, <1>7 DEF Current, Open, Answer, Tells
  <2> QED
    BY <2>1, <2>2, <2>3
<1>8. CASE j # i
  <2>1. ProductsOf(j)' = ProductsOf(j) /\ Cardinality(ProductsOf(j)) \in Nat
    BY <1>1, <1>8, ProductsFinite
  <2>2. Counted(w, j)'
    BY <1>1, <1>4, <1>6, <1>8, <2>1 DEF Counted, Open
  <2>3. /\ Owns(remote, j, links[j].remote_id)
        /\ Owns(remote, j, job[w].result[j].remote_id)
    BY <1>1 DEF OwnInv
  <2>4. \A id : Owns(remote, j, id) /\ id # 0 => remote'[id] = remote[id]
    BY <1>8 DEF Owns
  <2>5. Told(j) => Told(j)'
    BY <1>0, <2>3, <2>4 DEF Told, Tells
  <2>6. Known(w, j)'
    BY <1>4, <1>6, <1>8, <2>5 DEF Known, Open
  <2>7. Answer(w, j) => Answer(w, j)'
    <3> DEFINE id == job[w].result[j].remote_id
    <3>1. id # 0 => remote'[id] = remote[id]
      BY <2>3, <2>4
    <3>2. /\ job'[w].result[j] = job[w].result[j]
          /\ job'[w].want = job[w].want /\ links' = links
      BY <1>4, <1>8
    <3>3. /\ job'[w].result[j].remote_id = id
          /\ job'[w].result[j].status = job[w].result[j].status
          /\ job'[w].result[j] = Unsent <=> job[w].result[j] = Unsent
          /\ job'[w].want[j] = job[w].want[j]
          /\ links'[j].remote_id = links[j].remote_id
      BY <3>2
    <3>4. id # 0 => (Tells(remote'[id], job[w].want[j])
                      <=> Tells(remote[id], job[w].want[j]))
      BY <3>1
    <3>5. id # 0 /\ Tells(remote'[id], job[w].want[j])
            => Tells(remote[job[w].result[j].remote_id], job[w].want[j])'
      BY <1>0, <3>3 DEF Tells
    <3> HIDE DEF id
    <3> QED
      BY <3>3, <3>4, <3>5 DEF Answer, id
  <2>8. Current(w, j)'
    BY <1>4, <1>6, <1>8, <2>7 DEF Current, Open
  <2> QED
    BY <2>2, <2>6, <2>8
<1> QED
  BY <1>7, <1>8

\* The calls to the provider, one product each.
LEMMA CallsKeepSerial ==
    ASSUME PushInv, SerialInv, OneWorker, NEW w \in Workers, NEW i \in Items,
           \/ Sent(w, i) \/ Skipped(w, i) \/ SentWithoutId(w, i)
           \/ Rejected(w, i) \/ Lost(w, i) \/ Replayed(w, i)
    PROVE  SerialInv'
<1>1. /\ TypeOK /\ OwnInv /\ remote \in Seq(Product) /\ Len(remote) \in Nat
      /\ losses \in Nat /\ MaxRemote \in Nat
  BY BoundsAssumption DEF PushInv, TypeOK, Product
<1>2. \A status \in {"ok", "error"}, id \in 0..MaxRemote :
        [status |-> status, remote_id |-> id] \in Result
  BY DEF Result
<1>3. Sending(w, i) /\ job[w].stage = "pushing" /\ i \in job[w].todo
  BY DEF Sent, Skipped, SentWithoutId, Rejected, Lost, Replayed, Sending
<1>0. Written \in SUBSET Parts /\ {"stock"} \in SUBSET Parts
  BY DEF Written, Parts
<1>4. /\ Match(w, i) = links[i].remote_id
      /\ Cardinality(ProductsOf(i)) \in Nat
      /\ Cardinality(ProductsOf(i)) <= 1 + losses
      /\ \/ Cardinality(ProductsOf(i)) <= losses
         \/ links[i].remote_id # 0
  BY <1>1, <1>3, ProductsFinite
     DEF SerialInv, Counted, Current, Open, Match, Sending, Unsent
<1>5. CASE Sent(w, i)
  <2> DEFINE s == [status |-> "ok", remote_id |-> AnsweredId(w, i)]
  <2>1. AnsweredId(w, i) \in 0..MaxRemote
    BY <1>0, <1>1, <1>5, Applied DEF Sent
  <2>2. /\ job' = [job EXCEPT ![w].result[i] = s]
        /\ UNCHANGED <<links, losses, unsure, adapter>>
        /\ Apply(w, i, Written)
    BY <1>5 DEF Sent
  <2>3. /\ s \in Result /\ s # Unsent
        /\ s.status = "ok" /\ s.remote_id = AnsweredId(w, i)
    BY <1>2, <2>1 DEF Unsent
  <2> HIDE DEF s
  <2>4. /\ \A j : j # i => ProductsOf(j)' = ProductsOf(j)
        /\ \A n \in 1..Len(remote) :
             remote[n].item # i => remote'[n] = remote[n]
        /\ Tells(remote'[s.remote_id], job[w].want[i]) /\ s.remote_id # 0
    BY <1>0, <1>1, <2>2, <2>3, AppliedCount
  <2>5. Cardinality(ProductsOf(i)') <= 1 + losses'
    BY <1>0, <1>1, <1>4, <2>2, AppliedCount
  <2>6. losses <= losses' /\ losses' \in Nat
    BY <1>1, <2>2
  <2> QED
    BY <1>3, <2>2, <2>3, <2>4, <2>5, <2>6, AnswerKept
<1>6. CASE SentWithoutId(w, i) \/ Lost(w, i)
  <2>1. PICK t \in Result :
          /\ job' = [job EXCEPT ![w].result[i] = t]
          /\ t.remote_id = 0 /\ t # Unsent
          /\ \/ t.status = "error"
             \/ t.status = "ok" /\ links[i].remote_id = 0
    <3>1. /\ [status |-> "error", remote_id |-> 0] \in Result
          /\ [status |-> "ok", remote_id |-> 0] \in Result
      BY <1>1, <1>2
    <3>2. CASE SentWithoutId(w, i)
      <4> DEFINE t == [status |-> "ok", remote_id |-> 0]
      <4>1. job' = [job EXCEPT ![w].result[i] = t]
        BY <3>2 DEF SentWithoutId
      <4>2. t.remote_id = 0 /\ t # Unsent /\ t.status = "ok"
        BY DEF Unsent
      <4>3. links[i].remote_id = 0
        BY <1>4, <3>2 DEF SentWithoutId
      <4>4. t \in Result
        BY <3>1
      <4> HIDE DEF t
      <4> QED
        BY <4>1, <4>2, <4>3, <4>4
    <3>3. CASE Lost(w, i)
      <4> DEFINE t == [status |-> "error", remote_id |-> 0]
      <4>1. job' = [job EXCEPT ![w].result[i] = t]
        BY <3>3 DEF Lost
      <4>2. t.remote_id = 0 /\ t # Unsent /\ t.status = "error"
        BY DEF Unsent
      <4>3. t \in Result
        BY <3>1
      <4>4. \/ t.status = "error"
            \/ t.status = "ok" /\ links[i].remote_id = 0
        BY <4>2
      <4> HIDE DEF t
      <4> QED
        BY <4>1, <4>2, <4>3, <4>4
    <3> QED
      BY <1>6, <3>2, <3>3
  <2>2. /\ UNCHANGED <<links, unsure, adapter>> /\ losses' = losses + 1
        /\ Apply(w, i, Written) \/ Apply(w, i, {"stock"})
    BY <1>6 DEF SentWithoutId, Lost
  <2>3. /\ \A j : j # i => ProductsOf(j)' = ProductsOf(j)
        /\ \A n \in 1..Len(remote) :
             remote[n].item # i => remote'[n] = remote[n]
    BY <1>0, <1>1, <2>2, AppliedCount
  <2>4. /\ Cardinality(ProductsOf(i)') <= 1 + losses'
        /\ \/ Cardinality(ProductsOf(i)') <= losses'
           \/ links[i].remote_id # 0
    BY <1>0, <1>1, <1>4, <2>2, AppliedCount
  <2>5. losses <= losses' /\ losses' \in Nat
    BY <1>1, <2>2
  <2> QED
    BY <1>3, <2>1, <2>2, <2>3, <2>4, <2>5, AnswerKept
<1>7. CASE Rejected(w, i)
  <2> DEFINE s == [status |-> "error", remote_id |-> 0]
  <2>1. /\ job' = [job EXCEPT ![w].result[i] = s]
        /\ UNCHANGED <<remote, links, losses, unsure, adapter>>
    BY <1>7 DEF Rejected
  <2>2. s \in Result /\ s # Unsent /\ s.status = "error" /\ s.remote_id = 0
    BY <1>1, <1>2 DEF Unsent
  <2> HIDE DEF s
  <2>3. \A j : ProductsOf(j)' = ProductsOf(j)
    BY <2>1 DEF ProductsOf
  <2>4. /\ Cardinality(ProductsOf(i)') <= 1 + losses'
        /\ \/ Cardinality(ProductsOf(i)') <= losses'
           \/ links[i].remote_id # 0
    BY <1>4, <2>1, <2>3
  <2>5. losses <= losses' /\ losses' \in Nat
    BY <1>1, <2>1
  <2> QED
    BY <1>3, <2>1, <2>2, <2>3, <2>4, <2>5, AnswerKept
<1>8. CASE Replayed(w, i)
  <2> DEFINE product == [item |-> i, content |-> job[w].want[i]]
             s == [status |-> "ok", remote_id |-> Len(remote) + 2]
  <2>1. /\ product \in Product /\ product.item = i
        /\ Tells(product, job[w].want[i])
    BY <1>1, ContentsAssumption DEF TypeOK, Job, Product, Tells
  <2>2. /\ Len(remote) + 2 <= MaxRemote
        /\ remote' = remote \o <<product, product>>
        /\ job' = [job EXCEPT ![w].result[i] = s]
        /\ UNCHANGED <<links, unsure, adapter>> /\ losses' = losses + 1
        /\ Match(w, i) = 0
    BY <1>8 DEF Replayed
  <2>3. /\ s \in Result /\ s # Unsent
        /\ s.status = "ok" /\ s.remote_id = Len(remote) + 2
    BY <1>1, <1>2, <2>2 DEF Unsent
  <2> HIDE DEF product, s
  <2>4. /\ Len(remote') = Len(remote) + 2
        /\ \A n \in 1..Len(remote) : remote'[n] = remote[n]
        /\ remote'[Len(remote) + 1] = product
        /\ remote'[Len(remote) + 2] = product
    BY <1>1, <2>1, <2>2
  <2>5. \A j : j # i => ProductsOf(j)' = ProductsOf(j)
    BY <1>1, <2>1, <2>4 DEF ProductsOf
  <2>6. ProductsOf(i)' = (ProductsOf(i) \cup {Len(remote) + 1})
                            \cup {Len(remote) + 2}
    BY <1>1, <2>1, <2>4 DEF ProductsOf
  <2>7. Cardinality(ProductsOf(i)') = Cardinality(ProductsOf(i)) + 2
    <3> DEFINE once == ProductsOf(i) \cup {Len(remote) + 1}
    <3>1. /\ Len(remote) + 1 \notin ProductsOf(i)
          /\ Len(remote) + 2 \notin once
      BY <1>1 DEF ProductsOf
    <3>2. /\ IsFiniteSet(once)
          /\ Cardinality(once) = Cardinality(ProductsOf(i)) + 1
      BY <1>1, <3>1, ProductsFinite, FS_AddElement
    <3> HIDE DEF once
    <3>3. Cardinality(once \cup {Len(remote) + 2}) = Cardinality(once) + 1
      BY <3>1, <3>2, FS_AddElement
    <3> QED
      BY <1>4, <2>6, <3>2, <3>3 DEF once
  <2>8. Cardinality(ProductsOf(i)') <= 1 + losses'
    BY <1>1, <1>4, <2>2, <2>7
  <2>9. losses <= losses' /\ losses' \in Nat
    BY <1>1, <2>2
  <2>10. Tells(remote'[s.remote_id], job[w].want[i]) /\ s.remote_id # 0
    BY <1>1, <2>1, <2>3, <2>4
  <2> QED
    BY <1>1, <1>3, <2>2, <2>3, <2>4, <2>5, <2>8, <2>9, <2>10, AnswerKept
<1>9. CASE Skipped(w, i)
  <2> DEFINE s == [status |-> "ok", remote_id |-> 0]
  <2>1. /\ job' = [job EXCEPT ![w].result[i] = s]
        /\ UNCHANGED <<remote, links, losses, unsure, adapter>>
        /\ Match(w, i) = 0
    BY <1>9 DEF Skipped
  <2>2. s \in Result /\ s # Unsent /\ s.status = "ok" /\ s.remote_id = 0
    BY <1>1, <1>2 DEF Unsent
  <2> HIDE DEF s
  <2>3. \A j : ProductsOf(j)' = ProductsOf(j)
    BY <2>1 DEF ProductsOf
  <2>4. /\ Cardinality(ProductsOf(i)') <= 1 + losses'
        /\ \/ Cardinality(ProductsOf(i)') <= losses'
           \/ links[i].remote_id # 0
    BY <1>4, <2>1, <2>3
  <2>5. losses <= losses' /\ losses' \in Nat
    BY <1>1, <2>1
  <2> QED
    BY <1>3, <1>4, <2>1, <2>2, <2>3, <2>4, <2>5, AnswerKept
<1> QED
  BY <1>5, <1>6, <1>7, <1>8, <1>9

\* The steps of a worker that calls nobody leave what the provider has: it is
\* enough to look at the rows, the losses and the worker.
LEMMA WorkerKeepsSerial ==
    ASSUME PushInv, SerialInv, OneWorker, NEW w \in Workers,
           \/ Load(w) \/ Refused(w) \/ Acquire(w) \/ ReadLinks(w)
           \/ Finish(w) \/ Keep(w) \/ Release(w) \/ Fail(w) \/ Crash(w)
           \/ \E i \in Items : SaveLink(w, i)
    PROVE  SerialInv'
<1>1. /\ TypeOK /\ OwnInv /\ job[w] \in Job /\ losses \in Nat
      /\ job \in [Workers -> Job] /\ unsure \subseteq Items
  BY BoundsAssumption DEF PushInv, TypeOK
<1>2. \A v \in Workers : v = w
  BY DEF OneWorker
<1>3. UNCHANGED <<remote, adapter>> /\ Written' = Written
  BY DEF Load, Refused, Acquire, ReadLinks, Finish, Keep, Release, Fail,
         Crash, SaveLink, Written
<1> SUFFICES ASSUME NEW i \in Items
             PROVE  /\ Counted(w, i)' /\ Known(w, i)' /\ Current(w, i)'
  BY <1>2 DEF SerialInv
<1>4. /\ Counted(w, i) /\ Known(w, i) /\ Current(w, i)
      /\ ProductsOf(i)' = ProductsOf(i)
      /\ Cardinality(ProductsOf(i)) \in Nat
  BY <1>1, <1>3, ProductsFinite DEF SerialInv, ProductsOf
<1>5. Blank.stage = "idle" /\ Blank.result[i] = Unsent
  BY BlankTyped DEF Blank
<1>6. CASE UNCHANGED <<links, losses, unsure, adapter>> /\ ~Open(w, i)
           /\ ~(Open(w, i)') /\ job'[w].result[i] = Unsent
  <2>1. Counted(w, i)'
    BY <1>4, <1>6 DEF Counted
  <2>2. Known(w, i)'
    BY <1>3, <1>4, <1>6 DEF Known, Told, Tells
  <2>3. Current(w, i)'
    BY <1>6 DEF Current
  <2> QED
    BY <2>1, <2>2, <2>3
<1>7. CASE Load(w)
  <2>1. job'[w].stage = "loaded" /\ job'[w].result = Blank.result
    BY <1>1, <1>7 DEF Load, Blank
  <2> QED
    BY <1>5, <1>6, <1>7, <2>1 DEF Load, Open
<1>8. CASE Refused(w)
  <2>1. job'[w] = Blank
    BY <1>1, <1>8 DEF Refused
  <2> QED
    BY <1>5, <1>6, <1>8, <2>1 DEF Refused, Open
<1>9. CASE Finish(w) \/ Release(w)
  <2>1. job'[w] = Blank
    BY <1>1, <1>9 DEF Finish, Release
  <2> QED
    BY <1>5, <1>6, <1>9, <2>1 DEF Finish, Release, Open
<1>14. CASE Keep(w)
  <2>1. job'[w].stage = "held" /\ job'[w].result = Blank.result
    BY <1>1, <1>14 DEF Keep, Blank
  <2>2. job[w].stage = "pushing" /\ job[w].todo = {}
    BY <1>14 DEF Keep
  <2> QED
    BY <1>5, <1>6, <1>14, <2>1, <2>2 DEF Keep, Open
<1>10. CASE Acquire(w)
  <2>1. /\ job'[w].stage = "running" /\ job'[w].result = job[w].result
        /\ job[w].stage = "loaded"
    <3>1. job'[w] = [job[w] EXCEPT !.stage = "running", !.sync = Blank.sync]
      BY <1>1, <1>10 DEF Acquire
    <3> QED
      BY <1>1, <1>10, <3>1 DEF Acquire, Job
  <2> QED
    BY <1>4, <1>6, <1>10, <2>1 DEF Acquire, Open, Current
<1>11. CASE ReadLinks(w)
  <2>1. /\ job'[w].result = job[w].result /\ job'[w].links = links
        /\ job[w].stage = "running" /\ UNCHANGED <<links, losses, unsure, adapter>>
    BY <1>1, <1>11 DEF ReadLinks, Job
  <2>2. job[w].result[i] = Unsent /\ ~Open(w, i)
    BY <1>4, <2>1 DEF Current, Open
  <2>3. Counted(w, i)'
    BY <1>4, <2>1, <2>2 DEF Counted
  <2>4. Known(w, i)'
    BY <1>3, <1>4, <2>1, <2>2 DEF Known, Told, Tells
  <2>5. Current(w, i)'
    BY <1>3, <2>1, <2>2 DEF Current, Answer, Tells
  <2> QED
    BY <2>3, <2>4, <2>5
<1>12. CASE Fail(w) \/ Crash(w)
  <2>1. /\ job'[w] = Blank /\ UNCHANGED <<links, adapter>> /\ Interrupted(w)
        /\ job[w].stage \in {"running", "pushing", "held"}
    BY <1>1, <1>12 DEF Fail, Crash
  <2>2. /\ losses' \in {losses, losses + 1}
        /\ unsure \subseteq unsure'
        /\ Open(w, i) /\ job[w].result[i] # Unsent =>
             losses' = losses + 1 /\ i \in unsure'
    BY <2>1 DEF Interrupted, Open
  <2>3. Open(w, i)' = FALSE
    BY <1>5, <2>1 DEF Open
  <2>4. Counted(w, i)'
    <3>1. /\ Open(w, i) /\ job[w].result[i].status = "ok"
             => losses' = losses + 1
          /\ losses <= losses'
      BY <1>1, <2>2 DEF Unsent
    <3>2. /\ Cardinality(ProductsOf(i)) <= 1 + losses'
          /\ \/ Cardinality(ProductsOf(i)) <= losses'
             \/ links[i].remote_id # 0
      BY <1>1, <1>4, <2>2, <3>1 DEF Counted
    <3> QED
      BY <1>4, <2>1, <3>2 DEF Counted
  <2>5. Known(w, i)'
    BY <1>3, <1>4, <2>1, <2>2 DEF Known, Told, Tells
  <2>6. Current(w, i)'
    BY <1>5, <2>1, <2>3 DEF Current
  <2> QED
    BY <2>4, <2>5, <2>6
<1>13. ASSUME NEW j \in Items, SaveLink(w, j)
       PROVE  Counted(w, i)' /\ Known(w, i)' /\ Current(w, i)'
  <2>1. /\ job'[w].stage = job[w].stage
        /\ i # j => job'[w].result[i] = job[w].result[i]
        /\ job'[w].links = job[w].links /\ job'[w].want = job[w].want
        /\ job'[w].todo = job[w].todo \ {j}
    <3>1. job'[w] = [job[w] EXCEPT !.todo = @ \ {j}, !.result[j] = Unsent]
      BY <1>1, <1>13 DEF SaveLink
    <3>2. job'[w].result = [job[w].result EXCEPT ![j] = Unsent]
      BY <1>1, <3>1 DEF Job
    <3>3. i # j => job'[w].result[i] = job[w].result[i]
      BY <1>1, <3>2 DEF Job
    <3> QED
      BY <1>1, <3>1, <3>3 DEF Job
  <2>2. /\ job[w].stage = "pushing" /\ AllSent(w) /\ j \in job[w].todo
        /\ links' = [links EXCEPT ![j] = Saved(w, j)]
        /\ unsure' = unsure \ {j} /\ losses' = losses
        /\ links \in [Items -> Link]
    BY <1>1, <1>13 DEF SaveLink, TypeOK
  <2>3. CASE i # j
    <3>1. /\ links'[i] = links[i] /\ (Open(w, i)' <=> Open(w, i))
          /\ (i \in unsure' <=> i \in unsure)
      BY <2>1, <2>2, <2>3 DEF Open
    <3>2. Counted(w, i)'
      BY <1>4, <2>1, <2>2, <2>3, <3>1 DEF Counted
    <3>3. Known(w, i)'
      BY <1>3, <1>4, <2>1, <2>3, <3>1 DEF Known, Told, Tells
    <3>4. Current(w, i)'
      BY <1>3, <1>4, <2>1, <2>3, <3>1 DEF Current, Answer, Tells
    <3> QED
      BY <3>2, <3>3, <3>4
  <2>4. CASE i = j
    <3>1. /\ Open(w, i) /\ ~(Open(w, i)')
          /\ job[w].links[i] = links[i] /\ Answer(w, i)
          /\ job[w].result[i] # Unsent /\ links'[i] = Saved(w, i)
          /\ links[i] \in Link
      BY <1>4, <2>1, <2>2, <2>4 DEF Open, Current, AllSent
    <3>2. Current(w, i)'
      BY <2>1, <2>2, <3>1 DEF Current
    <3>3. CASE job[w].result[i].status = "error"
      <4>1. links'[i] = [links[i] EXCEPT !.status = "error"]
        BY <3>1, <3>3 DEF Saved
      <4>2. /\ links'[i].remote_id = links[i].remote_id
            /\ links'[i].status = "error"
        BY <3>1, <4>1 DEF Link
      <4>3. Counted(w, i)'
        BY <1>4, <2>2, <3>3, <4>2 DEF Counted
      <4>4. Known(w, i)'
        BY <4>2 DEF Known, Told
      <4> QED
        BY <3>2, <4>3, <4>4
    <3>4. CASE job[w].result[i].status # "error"
      <4>1. /\ job[w].result[i].status = "ok"
            /\ IF job[w].result[i].remote_id # 0
               THEN Tells(remote[job[w].result[i].remote_id], job[w].want[i])
               ELSE links[i].remote_id = 0
        BY <3>1, <3>4 DEF Answer
      <4>2. links'[i] = [remote_id |-> IF job[w].result[i].remote_id # 0
                                       THEN job[w].result[i].remote_id
                                       ELSE job[w].links[i].remote_id,
                         content_hash |-> job[w].want[i],
                         status |-> "linked"]
        BY <3>1, <3>4 DEF Saved
      <4>3. /\ links'[i].content_hash = job[w].want[i]
            /\ links'[i].remote_id = IF job[w].result[i].remote_id # 0
                                     THEN job[w].result[i].remote_id
                                     ELSE job[w].links[i].remote_id
        BY <4>2
      <4>4. links'[i].remote_id = job[w].result[i].remote_id
        BY <3>1, <4>1, <4>3
      <4>5. Counted(w, i)'
        BY <1>4, <2>2, <3>1, <4>1, <4>4 DEF Counted
      <4>6. Known(w, i)'
        BY <1>3, <4>1, <4>3, <4>4 DEF Known, Told, Tells
      <4> QED
        BY <3>2, <4>5, <4>6
    <3> QED
      BY <3>3, <3>4
  <2> QED
    BY <2>3, <2>4
<1> QED
  BY <1>7, <1>8, <1>9, <1>10, <1>11, <1>12, <1>13, <1>14

LEMMA InitSerial == Init => SerialInv
<1> SUFFICES ASSUME Init, NEW w \in Workers, NEW i \in Items
             PROVE  Counted(w, i) /\ Known(w, i) /\ Current(w, i)
  BY DEF SerialInv
<1>1. /\ job[w] = Blank /\ Blank.stage = "idle" /\ remote = <<>>
      /\ Blank.result[i] = Unsent /\ links[i].remote_id = 0 /\ losses = 0
  BY BlankTyped DEF Init, Blank
<1>2. ProductsOf(i) = {}
  BY <1>1 DEF ProductsOf
<1>3. Cardinality(ProductsOf(i)) = 0
  BY <1>2, FS_EmptySet
<1> QED
  BY <1>1, <1>3 DEF Counted, Known, Told, Current, Open

LEMMA StepSerial ==
    PushInv /\ SerialInv /\ OneWorker /\ [Next]_vars => SerialInv'
<1> SUFFICES ASSUME PushInv, SerialInv, OneWorker, [Next]_vars
             PROVE  SerialInv'
  OBVIOUS
<1>1. CASE \/ UNCHANGED vars \/ Age
           \/ \E i \in Items, c \in Contents : LocalEdit(i, c)
  <2>1. /\ UNCHANGED <<links, remote, losses, unsure, adapter>>
        /\ \A w \in Workers :
             /\ job'[w].stage = job[w].stage /\ job'[w].todo = job[w].todo
             /\ job'[w].links = job[w].links /\ job'[w].want = job[w].want
             /\ job'[w].result = job[w].result
    <3>1. CASE Age
      <4>1. ASSUME NEW w \in Workers
            PROVE  /\ job'[w].stage = job[w].stage
                   /\ job'[w].todo = job[w].todo
                   /\ job'[w].links = job[w].links
                   /\ job'[w].want = job[w].want
                   /\ job'[w].result = job[w].result
        <5>1. /\ job'[w] = [job[w] EXCEPT !.sync.fresh = FALSE]
              /\ job[w] \in Job
          BY <3>1 DEF Age, PushInv, TypeOK
        <5> QED
          BY <5>1 DEF Job
      <4> QED
        BY <3>1, <4>1 DEF Age
    <3> QED
      BY <1>1, <3>1 DEF LocalEdit, vars
  <2> SUFFICES ASSUME NEW w \in Workers, NEW i \in Items
               PROVE  Counted(w, i)' /\ Known(w, i)' /\ Current(w, i)'
    BY DEF SerialInv
  <2>0. Written' = Written
    BY <2>1 DEF Written
  <2>2. Counted(w, i) /\ Known(w, i) /\ Current(w, i)
    BY DEF SerialInv
  <2>3. Counted(w, i)'
    BY <2>1, <2>2 DEF Counted, Open, ProductsOf
  <2>4. Known(w, i)'
    BY <2>0, <2>1, <2>2 DEF Known, Told, Tells, Open
  <2>5. Current(w, i)'
    BY <2>0, <2>1, <2>2 DEF Current, Answer, Tells, Open
  <2> QED
    BY <2>3, <2>4, <2>5
<1>2. ASSUME NEW i \in Items, NEW c \in Contents, Adopt(i, c) PROVE SerialInv'
  <2>1. /\ TypeOK /\ OwnInv /\ remote \in Seq(Product) /\ Len(remote) \in Nat
        /\ losses \in Nat
    BY BoundsAssumption DEF PushInv, TypeOK
  <2>2. /\ remote' = Append(remote, [item |-> i, content |-> c])
        /\ links' = [links EXCEPT ![i] = [remote_id |-> Len(remote) + 1,
                                          content_hash |-> c,
                                          status |-> "linked"]]
        /\ UNCHANGED <<job, losses, unsure, adapter>>
        /\ \A w \in Workers : job[w].stage = "idle"
        /\ \A n \in 1..Len(remote) : remote[n].item # i
    BY <1>2 DEF Adopt
  <2>3. [item |-> i, content |-> c] \in Product
    BY ContentsAssumption DEF Product
  <2>4. /\ Len(remote') = Len(remote) + 1
        /\ \A n \in 1..Len(remote) : remote'[n] = remote[n]
        /\ remote'[Len(remote) + 1] = [item |-> i, content |-> c]
    BY <2>1, <2>2, <2>3
  <2>5. Written' = Written
    BY <2>2 DEF Written
  <2> SUFFICES ASSUME NEW w \in Workers, NEW j \in Items
               PROVE  Counted(w, j)' /\ Known(w, j)' /\ Current(w, j)'
    BY DEF SerialInv
  <2>6. Counted(w, j) /\ Known(w, j) /\ Current(w, j) /\ ~Open(w, j)
    BY <2>2 DEF SerialInv, Open
  <2>7. Current(w, j)' /\ ~(Open(w, j)')
    BY <2>2, <2>6 DEF Current, Open
  <2>8. CASE j = i
    <3>1. ProductsOf(i)' = {Len(remote) + 1}
      BY <2>1, <2>2, <2>4 DEF ProductsOf
    <3>2. Cardinality(ProductsOf(i)') = 1
      BY <3>1, FS_Singleton
    <3>3. /\ links'[i].remote_id = Len(remote) + 1
          /\ links'[i].content_hash = c
      BY <2>1, <2>2 DEF TypeOK
    <3>4. Counted(w, i)'
      BY <2>1, <2>2, <3>2, <3>3 DEF Counted
    <3>5. Told(i)'
      BY <2>4, <3>3 DEF Told, Tells
    <3> QED
      BY <2>7, <2>8, <3>4, <3>5 DEF Known
  <2>9. CASE j # i
    <3>1. ProductsOf(j)' = ProductsOf(j)
      BY <2>1, <2>4, <2>9 DEF ProductsOf
    <3>2. links'[j] = links[j]
      BY <2>1, <2>2, <2>9 DEF TypeOK
    <3>3. Counted(w, j)'
      BY <2>2, <2>6, <3>1, <3>2 DEF Counted
    <3>4. Owns(remote, j, links[j].remote_id)
      BY <2>1 DEF OwnInv
    <3>5. Told(j) => Told(j)'
      BY <2>4, <2>5, <3>2, <3>4 DEF Told, Tells, Owns
    <3>6. Known(w, j)'
      BY <2>2, <2>6, <3>5 DEF Known
    <3> QED
      BY <2>7, <3>3, <3>6
  <2> QED
    BY <2>8, <2>9
<1> QED
  BY <1>1, <1>2, CallsKeepSerial, WorkerKeepsSerial DEF Next, Proceed

-----------------------------------------------------------------------------
(* Results                                                                 *)

\* The rows, the provider's products and the workers' copies keep their types,
\* and no run invents an id the provider has not given.
THEOREM TypeCorrect == Spec => []TypeOK
<1>1. PushInv => TypeOK
  BY DEF PushInv
<1> QED
  BY <1>1, InitInv, StepInv, PTL DEF Spec

\* However many workers push beside each other, past a lock that lets them, and
\* whatever answers are lost, replayed or empty and whoever dies: a link never
\* points at the product of another item.
THEOREM LinksOwnTheirProducts == Spec => []LinkOwnsRemote
<1>1. PushInv => LinkOwnsRemote
  BY DEF PushInv, OwnInv, Owns, LinkOwnsRemote
<1> QED
  BY <1>1, InitInv, StepInv, PTL DEF Spec

\* With one worker a product is created once, and once more only after a fault
\* that hid a creation: whatever is rejected, lost, replayed or answered without
\* an id, and wherever a run dies.
THEOREM CreatedOncePerLoss ==
    ASSUME OneWorker
    PROVE  Spec => []OneProductPerLoss
<1>1. Init => SerialInv
  BY InitSerial
<1>2. PushInv /\ SerialInv /\ [Next]_vars => SerialInv'
  BY StepSerial
<1>3. SerialInv => OneProductPerLoss
  BY DEF OneWorker, SerialInv, Counted, ProductsOf, OneProductPerLoss
<1> QED
  BY <1>1, <1>2, <1>3, InitInv, StepInv, PTL DEF Spec

\* With one worker an unchanged hash may cost no call: what a link says of the
\* product is what the provider holds, in every part this adapter can update
\* (without ProductFullUpdateCapability the stock and the price), but for the
\* items that a run that died had sent and not saved.
THEOREM LinksTellTheirProducts ==
    ASSUME OneWorker
    PROVE  Spec => []LinkTellsRemote
<1>1. Init => SerialInv
  BY InitSerial
<1>2. PushInv /\ SerialInv /\ [Next]_vars => SerialInv'
  BY StepSerial
<1>3. SerialInv => LinkTellsRemote
  BY DEF OneWorker, SerialInv, Known, Told, Open, Quiet, LinkTellsRemote
<1> QED
  BY <1>1, <1>2, <1>3, InitInv, StepInv, PTL DEF Spec

=============================================================================
