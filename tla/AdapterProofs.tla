--------------------------- MODULE AdapterProofs ---------------------------
(***************************************************************************)
(* Proofs about what the adapters and their clients do, for any number of  *)
(* callers, every catalogue of scripts, every tenant and every bound.      *)
(*                                                                         *)
(* Courier: no shipment is booked twice, and a session that is dropped is  *)
(* replaced.                                                               *)
(*                                                                         *)
(* Listings and SyncService: what the pages of each family of adapters     *)
(* have in common, that no cursor passes a row nobody has read, and that a *)
(* walk from the start reads every row that is there all along.            *)
(*                                                                         *)
(* Operations: that nothing is made twice, that no failure of a request to *)
(* change something is hidden, and that a refusal of the credentials is    *)
(* heard, whatever the scripts of a catalogue nest.                        *)
(*                                                                         *)
(* OrderStatuses: that an order settles which two sides keep writing.      *)
(***************************************************************************)
EXTENDS Courier, SyncService, Operations, OrderStatuses, SequenceTheorems,
        WellFoundedInduction, TLAPS

-----------------------------------------------------------------------------
(* How the record of a call changes                                        *)

Outcomes == {"none", "label", "invalid", "auth", "failed"}
Stages == {"none", "prepare", "create", "wait", "label"}
TokenSteps == {"ask", "answer", "read", "send"}

LEMMA NoCallTyped == NoCall \in Call
BY BoundsAssumption DEF NoCall, Call

\* The record between two requests of a call is that of a call.
LEMMA BetweenTyped ==
    ASSUME TypeOK, NEW c \in Callers,
           NEW stage \in Stages, NEW verdict \in Outcomes
    PROVE  /\ Between(c, stage, verdict) \in Call
           /\ Between(c, stage, verdict).header = 0
           /\ Between(c, stage, verdict).stage = stage
           /\ Between(c, stage, verdict).outcome = verdict
           /\ Between(c, stage, verdict).attempt = 1
           /\ Between(c, stage, verdict).calls = call[c].calls
           /\ Between(c, stage, verdict).struck = call[c].struck
<1>1. call[c] \in Call /\ 0 \in 0..MaxTries /\ 0 \in Nat /\ 1 \in 1..2
  BY BoundsAssumption DEF TypeOK
<1>2. stage \in Stages /\ verdict \in Outcomes /\ call[c].struck \in BOOLEAN
      /\ call[c].calls \in 0..MaxCalls /\ NoCall \in Call
  BY <1>1, NoCallTyped DEF Call
<1>3. NoCall.header = 0 /\ NoCall.attempt = 1
  BY DEF NoCall
<1>4. Between(c, stage, verdict) \in Call
  BY <1>2 DEF Between, Call, Stages, Outcomes
<1> QED
  BY <1>2, <1>3, <1>4 DEF Between, Call

\* A step that replaces the record of one caller by one that is typed.
LEMMA OneRecord ==
    ASSUME TypeOK, NEW c \in Callers, NEW r \in Call,
           call' = [call EXCEPT ![c] = r]
    PROVE  /\ call' \in [Callers -> Call]
           /\ call'[c] = r
           /\ \A d \in Callers : d # c => call'[d] = call[d]
BY DEF TypeOK

LEMMA EndsTyped ==
    ASSUME TypeOK, NEW c \in Callers, NEW verdict \in Outcomes,
           Ends(c, verdict)
    PROVE  /\ call' \in [Callers -> Call]
           /\ call'[c].header = 0 /\ call'[c].stage = "none"
           /\ call'[c].outcome = verdict /\ call'[c].attempt = 1
           /\ call'[c].struck = call[c].struck
           /\ \A d \in Callers : d # c => call'[d] = call[d]
<1>1. "none" \in Stages
  BY DEF Stages
<1>2. Between(c, "none", verdict) \in Call
  BY <1>1, BetweenTyped
<1>3. call' = [call EXCEPT ![c] = Between(c, "none", verdict)]
  BY DEF Ends
<1>4. /\ call' \in [Callers -> Call]
      /\ call'[c] = Between(c, "none", verdict)
      /\ \A d \in Callers : d # c => call'[d] = call[d]
  BY <1>2, <1>3, OneRecord
<1> QED
  BY <1>1, <1>4, BetweenTyped

LEMMA GoesTyped ==
    ASSUME TypeOK, NEW c \in Callers, NEW stage \in Stages, Goes(c, stage)
    PROVE  /\ call' \in [Callers -> Call]
           /\ call'[c].header = 0 /\ call'[c].stage = stage
           /\ call'[c].outcome = call[c].outcome /\ call'[c].attempt = 1
           /\ call'[c].struck = call[c].struck
           /\ \A d \in Callers : d # c => call'[d] = call[d]
<1>1. call[c].outcome \in Outcomes
  BY DEF TypeOK, Call, Outcomes
<1>2. Between(c, stage, call[c].outcome) \in Call
  BY <1>1, BetweenTyped
<1>3. call' = [call EXCEPT ![c] = Between(c, stage, call[c].outcome)]
  BY DEF Goes
<1>4. /\ call' \in [Callers -> Call]
      /\ call'[c] = Between(c, stage, call[c].outcome)
      /\ \A d \in Callers : d # c => call'[d] = call[d]
  BY <1>2, <1>3, OneRecord
<1> QED
  BY <1>1, <1>4, BetweenTyped

\* The same for the actions that write the record themselves.
LEMMA GenerateTyped ==
    ASSUME TypeOK, NEW c \in Callers, Generate(c)
    PROVE  /\ call' \in [Callers -> Call]
           /\ call'[c].header = 0 /\ call'[c].stage \in {"prepare", "create"}
           /\ call'[c].attempt = 1
           /\ call'[c].struck = (courier \notin LogsInAgain /\ call[c].struck)
           /\ \A d \in Callers : d # c => call'[d] = call[d]
<1>1. PICK stage \in {"prepare", "create"} :
        call' = [call EXCEPT ![c] =
                  [Between(c, stage, "none") EXCEPT
                     !.calls = @ + 1,
                     !.struck = courier \notin LogsInAgain /\ @]]
  BY DEF Generate
<1> DEFINE b == Between(c, stage, "none")
           r == [b EXCEPT !.calls = @ + 1,
                          !.struck = courier \notin LogsInAgain /\ @]
<1>2. /\ b \in Call /\ b.header = 0 /\ b.stage = stage /\ b.attempt = 1
      /\ b.struck = call[c].struck /\ b.calls = call[c].calls
  BY BetweenTyped DEF Stages, Outcomes
<1>3. b.calls + 1 \in 0..MaxCalls
  BY <1>2, BoundsAssumption DEF Generate, TypeOK, Call
<1>4. (courier \notin LogsInAgain /\ b.struck) \in BOOLEAN
  OBVIOUS
<1>5. call' = [call EXCEPT ![c] = r]
  BY <1>1
<1> HIDE DEF b
<1>6. r \in Call
  BY <1>2, <1>3, <1>4 DEF Call
<1>7. /\ r.header = 0 /\ r.stage = stage /\ r.attempt = 1
      /\ r.struck = (courier \notin LogsInAgain /\ call[c].struck)
  BY <1>2 DEF Call
<1> QED
  BY <1>5, <1>6, <1>7, OneRecord

LEMMA NextShipmentTyped ==
    ASSUME TypeOK, NEW c \in Callers, NextShipment(c)
    PROVE  /\ call' \in [Callers -> Call]
           /\ call'[c].header = 0 /\ call'[c].stage = "none"
           /\ call'[c].attempt = 1
           /\ call'[c].struck = call[c].struck
           /\ \A d \in Callers : d # c => call'[d] = call[d]
<1> DEFINE r == [NoCall EXCEPT !.struck = call[c].struck]
<1>1. call[c].struck \in BOOLEAN
  BY DEF TypeOK, Call
<1>2. /\ r \in Call /\ r.header = 0 /\ r.stage = "none" /\ r.attempt = 1
      /\ r.struck = call[c].struck
  BY <1>1, BoundsAssumption DEF NoCall, Call
<1>3. call' = [call EXCEPT ![c] = r]
  BY DEF NextShipment
<1> HIDE DEF r
<1> QED
  BY <1>2, <1>3, OneRecord

\* The steps before a token is there: one looks, reads or logs in.
LEMMA AsksTyped ==
    ASSUME TypeOK, NEW c \in Callers, Look(c) \/ Take(c) \/ LogIn(c)
    PROVE  /\ call' \in [Callers -> Call]
           /\ Look(c) => call'[c].header = call[c].header
           /\ Take(c) => call'[c].header = token
           /\ LogIn(c) => call'[c].header = logins'
           /\ call'[c].stage = call[c].stage
           /\ call'[c].outcome = call[c].outcome
           /\ call'[c].attempt = call[c].attempt
           /\ call'[c].struck = call[c].struck
           /\ \A d \in Callers : d # c => call'[d] = call[d]
<1>1. ASSUME NEW step \in TokenSteps, NEW header \in Nat, NEW r,
             r = [call[c] EXCEPT !.step = step, !.header = header],
             call' = [call EXCEPT ![c] = r]
      PROVE  /\ call' \in [Callers -> Call]
             /\ call'[c].header = header
             /\ call'[c].stage = call[c].stage
             /\ call'[c].outcome = call[c].outcome
             /\ call'[c].attempt = call[c].attempt
             /\ call'[c].struck = call[c].struck
             /\ \A d \in Callers : d # c => call'[d] = call[d]
  <2>1. /\ r \in Call /\ r.header = header /\ r.stage = call[c].stage
        /\ r.outcome = call[c].outcome /\ r.attempt = call[c].attempt
        /\ r.struck = call[c].struck
    BY <1>1 DEF TypeOK, Call, TokenSteps
  <2> QED
    BY <1>1, <2>1, OneRecord
<1>2. CASE Look(c)
  <2> DEFINE r == [call[c] EXCEPT !.step = "read"]
  <2>1. call[c] \in Call
    BY DEF TypeOK
  <2>2. call[c].header \in Nat
    BY <2>1 DEF Call
  <2>3. r = [call[c] EXCEPT !.step = "read", !.header = call[c].header]
    BY <2>1 DEF Call
  <2>4. call' = [call EXCEPT ![c] = r]
    BY <1>2 DEF Look
  <2>5. ~Take(c) /\ ~LogIn(c)
    BY <1>2 DEF Look, Take, LogIn, AtStep
  <2> HIDE DEF r
  <2> QED
    BY <1>1, <1>2, <2>2, <2>3, <2>4, <2>5 DEF TokenSteps
<1>3. CASE Take(c)
  <2> DEFINE r == [call[c] EXCEPT !.step = "send", !.header = token]
  <2>1. token \in Nat
    BY DEF TypeOK
  <2>2. ~Look(c) /\ ~LogIn(c)
    BY <1>3 DEF Look, Take, LogIn, AtStep
  <2>3. call' = [call EXCEPT ![c] = r]
    BY <1>3 DEF Take
  <2> QED
    BY <1>1, <1>3, <2>1, <2>2, <2>3 DEF TokenSteps
<1>4. CASE LogIn(c)
  <2> DEFINE r == [call[c] EXCEPT !.step = "answer", !.header = logins']
  <2>1. logins' \in Nat
    BY <1>4 DEF LogIn, TypeOK
  <2>2. ~Look(c) /\ ~Take(c)
    BY <1>4 DEF Look, Take, LogIn, AtStep
  <2>3. call' = [call EXCEPT ![c] = r]
    BY <1>4 DEF LogIn
  <2> QED
    BY <1>1, <1>4, <2>1, <2>2, <2>3 DEF TokenSteps
<1> QED
  BY <1>2, <1>3, <1>4

\* A token that is stored was issued to the caller; one lost strikes all.
LEMMA StoreTyped ==
    ASSUME TypeOK, NEW c \in Callers, Store(c)
    PROVE  /\ call' \in [Callers -> Call]
           /\ \A d \in Callers :
                /\ call'[d].header = call[d].header
                /\ call'[d].stage = call[d].stage
                /\ call'[d].outcome = call[d].outcome
                /\ call'[d].attempt = call[d].attempt
                /\ call'[d].struck =
                     (call[d].struck \/ call[c].header \notin alive)
<1> DEFINE next == IF courier \in ReReads THEN "read" ELSE "send"
           lost == call[c].header \notin alive
           r(d) == [call[d] EXCEPT !.step = IF d = c THEN next ELSE @,
                                   !.struck = @ \/ lost]
<1>1. call' = [d \in Callers |-> r(d)]
  BY DEF Store
<1>2. ASSUME NEW d \in Callers
      PROVE  /\ r(d) \in Call
             /\ r(d).header = call[d].header /\ r(d).stage = call[d].stage
             /\ r(d).outcome = call[d].outcome
             /\ r(d).attempt = call[d].attempt
             /\ r(d).struck = (call[d].struck \/ lost)
  <2> HIDE DEF lost
  <2> DEFINE step == IF d = c THEN next ELSE call[d].step
             struck == call[d].struck \/ lost
  <2>1. call[d] \in Call
    BY DEF TypeOK
  <2>2. step \in TokenSteps
    BY <2>1 DEF Call, TokenSteps
  <2>3. struck \in BOOLEAN
    OBVIOUS
  <2>4. r(d) = [call[d] EXCEPT !.step = step, !.struck = struck]
    BY <2>1 DEF Call
  <2> HIDE DEF step, struck, r
  <2>5. /\ r(d) \in Call
        /\ r(d).header = call[d].header /\ r(d).stage = call[d].stage
        /\ r(d).outcome = call[d].outcome
        /\ r(d).attempt = call[d].attempt /\ r(d).struck = struck
    BY <2>1, <2>2, <2>3, <2>4, Zenon DEF Call, TokenSteps
  <2> QED
    BY <2>5 DEF struck
<1> HIDE DEF r
<1>3. \A d \in Callers : call'[d] = r(d)
  BY <1>1
<1> QED
  BY <1>1, <1>2, <1>3

LEMMA UnauthorizedTyped ==
    ASSUME TypeOK, NEW c \in Callers, Unauthorized(c)
    PROVE  /\ call' \in [Callers -> Call]
           /\ call'[c].header = 0
           /\ call'[c].stage \in {"none", call[c].stage}
           /\ call'[c].stage = "none" =>
                call'[c].outcome \in {"auth", "label"}
           /\ ~(courier \in LogsInAgain /\ call[c].attempt = 1) =>
                call'[c].attempt = 1
           /\ call'[c].stage # "none" =>
                /\ courier \in LogsInAgain
                /\ call'[c].attempt = 2
                /\ call'[c].struck = call[c].struck
           /\ \A d \in Callers : d # c => call'[d] = call[d]
<1>1. call[c].stage \in Stages /\ call[c].outcome \in Outcomes
  BY DEF TypeOK, Call, Stages, Outcomes
<1>2. CASE courier \in LogsInAgain /\ call[c].attempt = 1
  <2> DEFINE b == Between(c, call[c].stage, call[c].outcome)
             r == [b EXCEPT !.attempt = 2]
  <2>1. /\ b \in Call /\ b.header = 0 /\ b.stage = call[c].stage
        /\ b.struck = call[c].struck
    BY <1>1, BetweenTyped
  <2>2. call' = [call EXCEPT ![c] = r]
    BY <1>2 DEF Unauthorized
  <2> HIDE DEF b
  <2>3. /\ r \in Call /\ r.header = 0 /\ r.stage = call[c].stage
        /\ r.attempt = 2 /\ r.struck = call[c].struck
    BY <2>1 DEF Call
  <2>4. call[c].stage # "none"
    BY DEF Unauthorized, Sends
  <2> QED
    BY <1>2, <2>2, <2>3, <2>4, OneRecord
<1>3. CASE /\ ~(courier \in LogsInAgain /\ call[c].attempt = 1)
           /\ call[c].stage = "label" /\ SwallowsAuth
  <2>1. Ends(c, "label")
    BY <1>3 DEF Unauthorized
  <2> QED
    BY <1>3, <2>1, EndsTyped DEF Outcomes
<1>4. CASE /\ ~(courier \in LogsInAgain /\ call[c].attempt = 1)
           /\ ~(call[c].stage = "label" /\ SwallowsAuth)
  <2> DEFINE b == Between(c, "none", "auth")
             r == [b EXCEPT !.struck = FALSE]
  <2>1. /\ b \in Call /\ b.header = 0 /\ b.stage = "none"
        /\ b.outcome = "auth" /\ b.attempt = 1
    BY BetweenTyped DEF Stages, Outcomes
  <2>2. call' = [call EXCEPT ![c] = r]
    BY <1>4 DEF Unauthorized
  <2> HIDE DEF b
  <2>3. /\ r \in Call /\ r.header = 0 /\ r.stage = "none"
        /\ r.outcome = "auth" /\ r.attempt = 1
    BY <2>1 DEF Call
  <2> QED
    BY <1>4, <2>2, <2>3, OneRecord
<1> QED
  BY <1>2, <1>3, <1>4

\* An adapter stays one of its courier.
LEMMA CourierFixed == [Next]_vars => courier' = courier
<1> SUFFICES ASSUME [Next]_vars PROVE courier' = courier
  OBVIOUS
<1>1. CASE Elapse \/ \E t \in alive : Revoke(t)
  BY <1>1 DEF Elapse, Revoke
<1>2. ASSUME NEW c \in Callers, Generate(c) \/ NextShipment(c) \/ Fail(c)
      PROVE  courier' = courier
  BY <1>2 DEF Generate, NextShipment, Fail
<1>3. ASSUME NEW c \in Callers,
             Look(c) \/ Take(c) \/ LogIn(c) \/ Store(c) \/ Unauthorized(c)
      PROVE  courier' = courier
  BY <1>3 DEF Look, Take, LogIn, Store, Unauthorized
<1>4. ASSUME NEW c \in Callers,
             Prepare(c) \/ Book(c) \/ Refuse(c) \/ Wait(c) \/ Label(c)
      PROVE  courier' = courier
  BY <1>4 DEF Prepare, Book, Refuse, Wait, Label
<1>5. CASE UNCHANGED vars
  BY <1>5 DEF vars
<1> QED
  BY <1>1, <1>2, <1>3, <1>4, <1>5 DEF Next, Step

-----------------------------------------------------------------------------
(* Types                                                                   *)

\* Tokens that callers hold were issued, and only eColet lets a caller wait,
\* for a shipment it has queued.
Typed ==
    /\ TypeOK
    /\ \A c \in Callers :
         /\ call[c].header \in 0..logins
         /\ call[c].stage = "wait" => courier = "ecolet" /\ booked[c] > 0

\* The fault of a booking leaves the caller where it is, or ends the call.
LEMMA FailTyped ==
    ASSUME TypeOK, NEW c \in Callers, Fail(c)
    PROVE  /\ call' \in [Callers -> Call]
           /\ call'[c].header \in {0, call[c].header}
           /\ call'[c].stage \in {"none", "create"}
           /\ call'[c].stage = "none" /\ courier # "dpd" =>
                call'[c].outcome = "failed"
           /\ call'[c].stage = "create" => courier \in Retries
           /\ call'[c].attempt \in {1, call[c].attempt}
           /\ call'[c].struck = call[c].struck
           /\ \A d \in Callers : d # c => call'[d] = call[d]
           /\ faults' \in 0..MaxFaults
           /\ \E made \in {0, 1} :
                booked' = [booked EXCEPT ![c] = booked[c] + made]
<1>1. PICK made \in {0, 1}, status \in {"timeout", "outage", "error"} :
        /\ booked' = [booked EXCEPT ![c] = @ + made]
        /\ IF courier \in Retries /\ call[c].tries + 1 < MaxTries
           THEN call' = [call EXCEPT ![c].tries = @ + 1]
           ELSE Ends(c, IF status # "timeout" /\ Refusal(status)
                        THEN "invalid" ELSE "failed")
  BY DEF Fail
<1>2. faults' \in 0..MaxFaults
  BY BoundsAssumption DEF Fail, TypeOK
<1>3. CASE courier \in Retries /\ call[c].tries + 1 < MaxTries
  <2> DEFINE r == [call[c] EXCEPT !.tries = @ + 1]
  <2>1. call[c].tries + 1 \in 0..MaxTries
    BY <1>3, BoundsAssumption DEF TypeOK, Call
  <2>2. /\ r \in Call /\ r.header = call[c].header /\ r.stage = call[c].stage
        /\ r.attempt = call[c].attempt /\ r.struck = call[c].struck
    BY <2>1 DEF TypeOK, Call
  <2>3. call' = [call EXCEPT ![c] = r]
    BY <1>1, <1>3
  <2>4. call[c].stage = "create"
    BY DEF Fail, Sends
  <2> HIDE DEF r
  <2> QED
    BY <1>1, <1>2, <1>3, <2>2, <2>3, <2>4, OneRecord
<1>4. CASE ~(courier \in Retries /\ call[c].tries + 1 < MaxTries)
  <2>1. courier # "dpd" => ~(status # "timeout" /\ Refusal(status))
    BY DEF Refusal
  <2>2. PICK verdict \in {"invalid", "failed"} :
          Ends(c, verdict) /\ (courier # "dpd" => verdict = "failed")
    BY <1>1, <1>4, <2>1
  <2> QED
    BY <1>1, <1>2, <2>2, EndsTyped DEF Outcomes
<1> QED
  BY <1>3, <1>4

LEMMA InitTyped == Init => Typed
<1> SUFFICES ASSUME Init PROVE Typed
  OBVIOUS
<1>1. NoCall \in Call
  BY NoCallTyped
<1>2. \A c \in Callers : call[c] = NoCall
  BY DEF Init
<1>3. NoCall.header = 0 /\ NoCall.stage = "none"
  BY DEF NoCall
<1>4. call \in [Callers -> Call] /\ booked \in [Callers -> Nat]
  BY <1>1 DEF Init
<1>5. token \in 0..logins /\ logins \in Nat /\ faults \in 0..MaxFaults
  BY BoundsAssumption DEF Init
<1> QED
  BY <1>2, <1>3, <1>4, <1>5 DEF Init, Typed, TypeOK

LEMMA StepTyped == Typed /\ [Next]_vars => Typed'
<1> SUFFICES ASSUME Typed, [Next]_vars PROVE Typed'
  OBVIOUS
<1>1. TypeOK
  BY DEF Typed
<1>2. CASE Elapse
  BY <1>2 DEF Elapse, Typed, TypeOK
<1>3. ASSUME NEW t \in alive, Revoke(t) PROVE Typed'
  <2>1. \A c \in Callers : /\ call'[c] \in Call
                           /\ call'[c].header = call[c].header
                           /\ call'[c].stage = call[c].stage
    <3>1. \A c \in Callers : call'[c] = [call[c] EXCEPT !.struck = TRUE]
      BY <1>3, Zenon DEF Revoke
    <3>2. \A c \in Callers : call[c] \in Call
      BY <1>1 DEF TypeOK
    <3>3. ASSUME NEW r \in Call
          PROVE  LET q == [r EXCEPT !.struck = TRUE]
                 IN q \in Call /\ q.header = r.header /\ q.stage = r.stage
      BY Zenon DEF Call
    <3> QED
      BY <3>1, <3>2, <3>3, Zenon
  <2>2. call' \in [Callers -> Call]
    BY <1>3, <2>1 DEF Revoke
  <2> QED
    BY <1>3, <2>1, <2>2 DEF Revoke, Typed, TypeOK
<1>4. ASSUME NEW c \in Callers, Generate(c) PROVE Typed'
  <2>1. UNCHANGED <<courier, token, fresh, alive, logins, booked, faults,
                    unearned>>
    BY <1>4 DEF Generate
  <2>2. /\ call' \in [Callers -> Call]
        /\ call'[c].header = 0 /\ call'[c].stage \in {"prepare", "create"}
        /\ \A d \in Callers : d # c => call'[d] = call[d]
    BY <1>1, <1>4, GenerateTyped
  <2> QED
    BY <2>1, <2>2 DEF Typed, TypeOK
<1>5. ASSUME NEW c \in Callers, Look(c) \/ Take(c) PROVE Typed'
  <2>1. /\ call' \in [Callers -> Call]
        /\ call'[c].header \in {call[c].header, token}
        /\ call'[c].stage = call[c].stage
        /\ \A d \in Callers : d # c => call'[d] = call[d]
    BY <1>1, <1>5, AsksTyped
  <2>2. UNCHANGED <<courier, token, fresh, alive, logins, booked, faults,
                    unearned>>
    BY <1>5 DEF Look, Take
  <2> QED
    BY <2>1, <2>2 DEF Typed, TypeOK
<1>6. ASSUME NEW c \in Callers, LogIn(c) PROVE Typed'
  <2>1. logins' = logins + 1 /\ logins \in Nat
    BY <1>6 DEF LogIn, Typed, TypeOK
  <2>2. /\ call' \in [Callers -> Call]
        /\ call'[c].header = logins' /\ call'[c].stage = call[c].stage
        /\ \A d \in Callers : d # c => call'[d] = call[d]
    BY <1>1, <1>6, AsksTyped
  <2>3. TypeOK'
    BY <1>6, <2>1, <2>2 DEF LogIn, Typed, TypeOK
  <2>4. \A d \in Callers : call'[d].header \in 0..logins'
    BY <2>1, <2>2 DEF Typed
  <2>5. \A d \in Callers : call'[d].stage = call[d].stage
    BY <2>2
  <2> QED
    BY <1>6, <2>3, <2>4, <2>5 DEF LogIn, Typed
<1>14. ASSUME NEW c \in Callers, Store(c) PROVE Typed'
  <2>1. /\ call' \in [Callers -> Call]
        /\ \A d \in Callers : /\ call'[d].header = call[d].header
                              /\ call'[d].stage = call[d].stage
    BY <1>1, <1>14, StoreTyped
  <2>2. token' \in 0..logins' /\ fresh' \in BOOLEAN
    BY <1>14 DEF Store, Typed
  <2>3. UNCHANGED <<courier, alive, logins, booked, faults, unearned>>
    BY <1>14 DEF Store
  <2> QED
    BY <2>1, <2>2, <2>3 DEF Typed, TypeOK
<1>15. ASSUME NEW c \in Callers, NextShipment(c) PROVE Typed'
  <2>1. /\ call' \in [Callers -> Call]
        /\ call'[c].header = 0 /\ call'[c].stage = "none"
        /\ \A d \in Callers : d # c => call'[d] = call[d]
    BY <1>1, <1>15, NextShipmentTyped
  <2>2. /\ booked' \in [Callers -> Nat]
        /\ \A d \in Callers : d # c => booked'[d] = booked[d]
        /\ UNCHANGED <<courier, token, fresh, alive, logins, faults, unearned>>
    BY <1>15 DEF NextShipment, Typed, TypeOK
  <2> QED
    BY <2>1, <2>2 DEF Typed, TypeOK
<1>16. ASSUME NEW c \in Callers, Prepare(c) PROVE Typed'
  <2>1. \/ \E s \in {"prepare", "create"} : Goes(c, s)
        \/ \E o \in {"invalid", "failed"} : Ends(c, o)
    BY <1>16 DEF Prepare
  <2>2. /\ call' \in [Callers -> Call]
        /\ call'[c].header = 0
        /\ call'[c].stage \in {"prepare", "create", "none"}
        /\ \A d \in Callers : d # c => call'[d] = call[d]
    BY <1>1, <2>1, EndsTyped, GoesTyped DEF Stages, Outcomes
  <2>3. UNCHANGED <<courier, token, fresh, alive, logins, booked, faults,
                    unearned>>
    BY <1>16 DEF Prepare
  <2> QED
    BY <2>2, <2>3 DEF Typed, TypeOK
<1>7. ASSUME NEW c \in Callers, Unauthorized(c) PROVE Typed'
  <2>1. token' \in {0, token}
    BY <1>7 DEF Unauthorized, Cleared
  <2>2. \/ unearned' = unearned
        \/ unearned' = (unearned \/ (call[c].header # 0 /\ ~call[c].struck))
    BY <1>7 DEF Unauthorized
  <2>4. UNCHANGED <<courier, fresh, alive, logins, booked, faults>>
    BY <1>7 DEF Unauthorized
  <2>5. unearned' \in BOOLEAN
    BY <2>2 DEF Typed, TypeOK
  <2>6. token' \in 0..logins'
    BY <2>1, <2>4 DEF Typed, TypeOK
  <2>3. /\ call' \in [Callers -> Call]
        /\ call'[c].header = 0
        /\ call'[c].stage \in {"none", call[c].stage}
        /\ \A d \in Callers : d # c => call'[d] = call[d]
    BY <1>1, <1>7, UnauthorizedTyped
  <2> QED
    BY <2>3, <2>4, <2>5, <2>6 DEF Typed, TypeOK
<1>8. ASSUME NEW c \in Callers, Book(c) PROVE Typed'
  <2> DEFINE s == IF courier = "ecolet" THEN "wait" ELSE "label"
  <2>1. s \in Stages /\ Goes(c, s)
    BY <1>8 DEF Book, Stages
  <2>2. /\ call' \in [Callers -> Call]
        /\ call'[c].header = 0 /\ call'[c].stage = s
        /\ \A d \in Callers : d # c => call'[d] = call[d]
    BY <1>1, <2>1, GoesTyped
  <2>3. /\ booked' \in [Callers -> Nat] /\ booked'[c] > 0
        /\ \A d \in Callers : d # c => booked'[d] = booked[d]
    BY <1>8 DEF Book, Typed, TypeOK
  <2> QED
    BY <1>8, <2>2, <2>3 DEF Book, Typed, TypeOK
<1>9. ASSUME NEW c \in Callers, Refuse(c) PROVE Typed'
  <2>1. PICK o \in Outcomes : Ends(c, o)
    BY <1>9 DEF Refuse, Outcomes
  <2> QED
    BY <1>1, <1>9, <2>1, EndsTyped DEF Refuse, Typed, TypeOK
<1>10. ASSUME NEW c \in Callers, Wait(c) PROVE Typed'
  <2>1. call[c].stage = "wait" /\ courier = "ecolet" /\ booked[c] > 0
    BY <1>10 DEF Wait, Sends, Typed
  <2>2. CASE Goes(c, "label") /\ UNCHANGED booked
    BY <1>1, <1>10, <2>2, GoesTyped DEF Wait, Stages, Typed, TypeOK
  <2>3. CASE Ends(c, "failed") /\ booked' = [booked EXCEPT ![c] = @ - 1]
    <3>1. /\ booked' \in [Callers -> Nat]
          /\ \A d \in Callers : d # c => booked'[d] = booked[d]
      BY <2>1, <2>3 DEF Typed, TypeOK
    <3> QED
      BY <1>1, <1>10, <2>3, <3>1, EndsTyped DEF Wait, Outcomes, Typed, TypeOK
  <2>4. CASE Goes(c, "wait") /\ UNCHANGED booked
    <3>1. /\ call' \in [Callers -> Call]
          /\ call'[c].header = 0 /\ call'[c].stage = "wait"
          /\ \A d \in Callers : d # c => call'[d] = call[d]
      BY <1>1, <2>4, GoesTyped DEF Stages
    <3> QED
      BY <1>10, <2>1, <2>4, <3>1 DEF Wait, Typed, TypeOK
  <2>5. CASE Ends(c, "failed") /\ UNCHANGED booked
    BY <1>1, <1>10, <2>5, EndsTyped DEF Wait, Outcomes, Typed, TypeOK
  <2> QED
    BY <1>10, <2>2, <2>3, <2>4, <2>5 DEF Wait
<1>11. ASSUME NEW c \in Callers, Label(c) PROVE Typed'
  BY <1>1, <1>11, EndsTyped DEF Label, Outcomes, Typed, TypeOK
<1>12. ASSUME NEW c \in Callers, Fail(c) PROVE Typed'
  <2>1. booked' \in [Callers -> Nat] /\
        \A d \in Callers : d # c => booked'[d] = booked[d]
    BY <1>1, <1>12, FailTyped DEF TypeOK
  <2>2. /\ call' \in [Callers -> Call] /\ faults' \in 0..MaxFaults
        /\ call'[c].header \in {0, call[c].header}
        /\ call'[c].stage \in {"none", "create"}
        /\ \A d \in Callers : d # c => call'[d] = call[d]
    BY <1>1, <1>12, FailTyped
  <2>3. UNCHANGED <<courier, token, fresh, alive, logins, unearned>>
    BY <1>12 DEF Fail
  <2> QED
    BY <2>1, <2>2, <2>3 DEF Typed, TypeOK
<1>13. CASE UNCHANGED vars
  BY <1>13 DEF vars, Typed, TypeOK
<1> QED
  BY <1>2, <1>3, <1>4, <1>5, <1>6, <1>7, <1>8, <1>9, <1>10, <1>11, <1>12,
     <1>13, <1>14, <1>15, <1>16 DEF Next, Step

\* The records of the calls, the token and the counters keep their types.
THEOREM TypeCorrect == Spec => []Typed
BY InitTyped, StepTyped, PTL DEF Spec

-----------------------------------------------------------------------------
(* No shipment is booked twice                                             *)

\* Where the booking is not retried and no outage reads as a refusal of the
\* data, a shipment may be sent to the courier only
\* while it is not booked: an outcome after which the caller may try again
\* tells that nothing was.
Single ==
    courier \notin Retries \cup {"dpd"} =>
        \A c \in Callers :
            /\ booked[c] <= 1
            /\ call[c].stage \in {"prepare", "create"} => booked[c] = 0
            /\ (/\ call[c].stage = "none"
                /\ call[c].outcome \in {"none", "invalid"}) => booked[c] = 0

LEMMA StepSingle == Typed /\ Single /\ [Next]_vars => Single'
<1> SUFFICES ASSUME Typed, Single, [Next]_vars,
                    courier \notin Retries \cup {"dpd"}
             PROVE  Single'
  <2> QED
    BY CourierFixed DEF Single
<1>1. TypeOK
  BY DEF Typed
<1>2. CASE Elapse
  BY <1>2 DEF Elapse, Single
<1>3. ASSUME NEW t \in alive, Revoke(t) PROVE Single'
  <2>1. \A c \in Callers : /\ call'[c].stage = call[c].stage
                           /\ call'[c].outcome = call[c].outcome
    BY <1>1, <1>3 DEF Revoke, TypeOK, Call
  <2> QED
    BY <1>3, <2>1 DEF Revoke, Single
<1>4. ASSUME NEW c \in Callers, Generate(c) PROVE Single'
  <2>1. booked' = booked
    BY <1>4 DEF Generate
  <2>2. booked[c] = 0
    BY <1>4 DEF Generate, Single
  <2>3. /\ call'[c].stage \in {"prepare", "create"}
        /\ \A d \in Callers : d # c => call'[d] = call[d]
    BY <1>1, <1>4, GenerateTyped
  <2> QED
    BY <2>1, <2>2, <2>3 DEF Single
<1>5. ASSUME NEW c \in Callers, Look(c) \/ Take(c) \/ LogIn(c) \/ Store(c)
      PROVE  Single'
  <2>1. \A d \in Callers : /\ call'[d].stage = call[d].stage
                           /\ call'[d].outcome = call[d].outcome
    BY <1>1, <1>5, AsksTyped, StoreTyped
  <2>2. UNCHANGED <<courier, booked>>
    BY <1>5 DEF Look, Take, LogIn, Store
  <2> QED
    BY <2>1, <2>2 DEF Single
<1>12. ASSUME NEW c \in Callers, NextShipment(c) PROVE Single'
  <2>1. \A d \in Callers : d # c => call'[d] = call[d]
    BY <1>1, <1>12, NextShipmentTyped
  <2>2. booked'[c] = 0 /\ \A d \in Callers : d # c => booked'[d] = booked[d]
    BY <1>12 DEF NextShipment, Typed, TypeOK
  <2>3. \A d \in Callers : d # c =>
          /\ booked'[d] <= 1
          /\ call'[d].stage \in {"prepare", "create"} => booked'[d] = 0
          /\ (/\ call'[d].stage = "none"
              /\ call'[d].outcome \in {"none", "invalid"}) => booked'[d] = 0
    BY <2>1, <2>2 DEF Single
  <2> QED
    BY <2>2, <2>3 DEF Single
<1>13. ASSUME NEW c \in Callers, Prepare(c) PROVE Single'
  <2>1. \/ \E s \in {"prepare", "create"} : Goes(c, s)
        \/ \E o \in {"invalid", "failed"} : Ends(c, o)
    BY <1>13 DEF Prepare
  <2>2. \A d \in Callers : d # c => call'[d] = call[d]
    BY <1>1, <2>1, EndsTyped, GoesTyped DEF Stages, Outcomes
  <2>3. booked[c] = 0 /\ booked' = booked
    BY <1>13 DEF Prepare, Sends, Single
  <2> QED
    BY <2>2, <2>3 DEF Single
<1>6. ASSUME NEW c \in Callers, Unauthorized(c) PROVE Single'
  <2>1. booked' = booked
    BY <1>6 DEF Unauthorized
  <2>2. /\ call'[c].stage \in {"none", call[c].stage}
        /\ call'[c].stage = "none" => call'[c].outcome \in {"auth", "label"}
        /\ \A d \in Callers : d # c => call'[d] = call[d]
    BY <1>1, <1>6, UnauthorizedTyped
  <2>3. call[c].stage # "none"
    BY <1>6 DEF Unauthorized, Sends
  <2> QED
    BY <2>1, <2>2, <2>3 DEF Single
<1>7. ASSUME NEW c \in Callers, Book(c) PROVE Single'
  <2> DEFINE s == IF courier = "ecolet" THEN "wait" ELSE "label"
  <2>1. s \in Stages /\ Goes(c, s)
    BY <1>7 DEF Book, Stages
  <2>2. /\ call'[c].stage \in {"wait", "label"}
        /\ \A d \in Callers : d # c => call'[d] = call[d]
    BY <1>1, <2>1, GoesTyped
  <2>3. booked[c] = 0 /\ booked \in [Callers -> Nat]
    BY <1>7 DEF Book, Sends, Single, Typed, TypeOK
  <2>4. booked'[c] = 1 /\ \A d \in Callers : d # c => booked'[d] = booked[d]
    BY <1>7, <2>3 DEF Book
  <2> QED
    BY <2>2, <2>4 DEF Single
<1>8. ASSUME NEW c \in Callers, Refuse(c) PROVE Single'
  <2>1. PICK o \in Outcomes : Ends(c, o)
    BY <1>8 DEF Refuse, Outcomes
  <2>2. \A d \in Callers : d # c => call'[d] = call[d]
    BY <1>1, <2>1, EndsTyped
  <2>3. booked[c] = 0 /\ booked' = booked
    BY <1>8 DEF Refuse, Sends, Single
  <2> QED
    BY <2>2, <2>3 DEF Single
<1>9. ASSUME NEW c \in Callers, Wait(c) \/ Label(c) PROVE Single'
  <2>1. \/ \E s \in {"label", "wait"} : Goes(c, s)
        \/ \E o \in {"failed", "label"} : Ends(c, o)
    BY <1>9 DEF Wait, Label
  <2>2. /\ \/ call'[c].stage \in {"label", "wait"}
           \/ /\ call'[c].stage = "none"
              /\ call'[c].outcome \in {"failed", "label"}
        /\ \A d \in Callers : d # c => call'[d] = call[d]
    BY <1>1, <2>1, EndsTyped, GoesTyped DEF Stages, Outcomes
  <2>3. booked' = booked \/ booked' = [booked EXCEPT ![c] = @ - 1]
    BY <1>9 DEF Wait, Label
  <2>4. /\ booked[c] <= 1 => booked'[c] <= 1
        /\ \A d \in Callers : d # c => booked'[d] = booked[d]
    BY <2>3 DEF Typed, TypeOK
  <2> QED
    BY <2>2, <2>4 DEF Single
<1>10. ASSUME NEW c \in Callers, Fail(c) PROVE Single'
  <2>1. booked[c] = 0 /\ booked \in [Callers -> Nat]
    BY <1>10 DEF Fail, Sends, Single, Typed, TypeOK
  <2>2. /\ call'[c].stage = "none" /\ call'[c].outcome = "failed"
        /\ \A d \in Callers : d # c => call'[d] = call[d]
        /\ \E made \in {0, 1} :
             booked' = [booked EXCEPT ![c] = booked[c] + made]
    BY <1>1, <1>10, FailTyped
  <2>3. booked'[c] <= 1 /\ \A d \in Callers : d # c => booked'[d] = booked[d]
    BY <2>1, <2>2
  <2> QED
    BY <2>2, <2>3 DEF Single
<1>11. CASE UNCHANGED vars
  BY <1>11 DEF vars, Single
<1> QED
  BY <1>2, <1>3, <1>4, <1>5, <1>6, <1>7, <1>8, <1>9, <1>10, <1>11, <1>12,
     <1>13 DEF Next, Step

LEMMA InitSingle == Init => Single
<1> SUFFICES ASSUME Init PROVE Single
  OBVIOUS
<1> SUFFICES ASSUME NEW c \in Callers
             PROVE  booked[c] <= 1 /\ booked[c] = 0
  BY DEF Single
<1>1. booked[c] = 0
  BY DEF Init
<1> QED
  BY <1>1

\* However often generate_awb is called again for a shipment refused for its
\* data, and whatever answers are lost or tell of an outage, no shipment is
\* booked twice with FAN Courier, Cargus, eColet and GLS.
THEOREM BookedNeverTwice == Spec => []BookedOnce
<1>1. Single => BookedOnce
  BY DEF Single, BookedOnce
<1> QED
  BY <1>1, InitTyped, StepTyped, InitSingle, StepSingle, PTL DEF Spec

-----------------------------------------------------------------------------
(* A session that was dropped is replaced                                  *)

Live(t) == t = 0 \/ t \in alive

\* The calls that end with AuthenticationError when their token is refused.
LastChance(c) ==
    \/ courier \in LogsInAgain /\ call[c].attempt = 2
    \/ courier \in Clears

\* Unless a token was lost meanwhile, the token such a call uses or will use is
\* good or empty, although others log in, log in again and clear the shared one.
Replaced ==
    courier \in LogsInAgain \cup Clears =>
        /\ ~unearned
        /\ \A c \in Callers :
             LastChance(c) /\ ~call[c].struck =>
                 Live(token) /\ Live(call[c].header)

LEMMA StepReplaced == Typed /\ Replaced /\ [Next]_vars => Replaced'
<1> SUFFICES ASSUME Typed, Replaced, [Next]_vars,
                    courier \in LogsInAgain \cup Clears
             PROVE  Replaced'
  <2> QED
    BY CourierFixed DEF Replaced
<1>1. TypeOK
  BY DEF Typed
<1>2. CASE Elapse
  BY <1>2 DEF Elapse, Replaced, LastChance, Live
<1>3. ASSUME NEW t \in alive, Revoke(t) PROVE Replaced'
  <2>1. \A c \in Callers : call'[c].struck = TRUE
    BY <1>1, <1>3 DEF Revoke, TypeOK, Call
  <2> QED
    BY <1>3, <2>1 DEF Revoke, Replaced
<1>4. ASSUME NEW c \in Callers, Generate(c) PROVE Replaced'
  <2>1. UNCHANGED <<courier, token, alive, unearned>>
    BY <1>4 DEF Generate
  <2>2. /\ call'[c].header = 0 /\ call'[c].attempt = 1
        /\ call'[c].struck = (courier \notin LogsInAgain /\ call[c].struck)
        /\ \A d \in Callers : d # c => call'[d] = call[d]
    BY <1>1, <1>4, GenerateTyped
  <2>3. call[c].struck \in BOOLEAN
    BY <1>1 DEF TypeOK, Call
  <2>4. ASSUME LastChance(c)', ~call'[c].struck PROVE Live(token)
    <3>1. courier \in Clears /\ courier \notin LogsInAgain
      BY <2>1, <2>2, <2>4 DEF LastChance, Clears, LogsInAgain
    <3>2. ~call[c].struck
      BY <2>2, <2>3, <2>4, <3>1
    <3> QED
      BY <3>1, <3>2 DEF Replaced, LastChance
  <2> QED
    BY <2>1, <2>2, <2>4 DEF Replaced, LastChance, Live
<1>5. ASSUME NEW c \in Callers, Look(c) \/ Take(c) PROVE Replaced'
  <2>1. /\ call'[c].header \in {call[c].header, token}
        /\ call'[c].attempt = call[c].attempt
        /\ call'[c].struck = call[c].struck
        /\ \A d \in Callers : d # c => call'[d] = call[d]
    BY <1>1, <1>5, AsksTyped
  <2>2. UNCHANGED <<courier, token, alive, unearned>>
    BY <1>5 DEF Look, Take
  <2> QED
    BY <2>1, <2>2 DEF Replaced, LastChance, Live
<1>6. ASSUME NEW c \in Callers, LogIn(c) PROVE Replaced'
  <2>1. /\ call'[c].header = logins'
        /\ \A d \in Callers : d # c => call'[d] = call[d]
        /\ call'[c].attempt = call[c].attempt
        /\ call'[c].struck = call[c].struck
    BY <1>1, <1>6, AsksTyped
  <2>2. /\ alive' = alive \cup {logins'}
        /\ UNCHANGED <<courier, token, unearned>>
    BY <1>6 DEF LogIn
  <2> QED
    BY <2>1, <2>2 DEF Replaced, LastChance, Live
<1>11. ASSUME NEW c \in Callers, Store(c) PROVE Replaced'
  <2>1. \A d \in Callers :
          /\ call'[d].header = call[d].header
          /\ call'[d].attempt = call[d].attempt
          /\ call'[d].struck =
               (call[d].struck \/ call[c].header \notin alive)
    BY <1>1, <1>11, StoreTyped
  <2>2. token' = call[c].header /\ UNCHANGED <<courier, alive, unearned>>
    BY <1>11 DEF Store
  <2> QED
    BY <2>1, <2>2 DEF Replaced, LastChance, Live
<1>12. ASSUME NEW c \in Callers, NextShipment(c) PROVE Replaced'
  <2>1. /\ call'[c].header = 0 /\ call'[c].attempt = 1
        /\ call'[c].struck = call[c].struck
        /\ \A d \in Callers : d # c => call'[d] = call[d]
    BY <1>1, <1>12, NextShipmentTyped
  <2>2. UNCHANGED <<courier, token, alive, unearned>>
    BY <1>12 DEF NextShipment
  <2> QED
    BY <2>1, <2>2 DEF Replaced, LastChance, Live
<1>7. ASSUME NEW c \in Callers, Unauthorized(c) PROVE Replaced'
  <2>1. /\ call'[c].header = 0
        /\ \A d \in Callers : d # c => call'[d] = call[d]
    BY <1>1, <1>7, UnauthorizedTyped
  <2>2. UNCHANGED <<courier, alive>>
    BY <1>7 DEF Unauthorized
  <2>3. call[c].header \notin alive
    BY <1>7 DEF Unauthorized, Granted
  <2>4. LastChance(c) => call[c].header = 0 \/ call[c].struck
    BY <2>3 DEF Replaced, Live
  <2>5. CASE courier \in LogsInAgain /\ call[c].attempt = 1
    <3>1. token' = 0 /\ unearned' = unearned
      BY <1>7, <2>5 DEF Unauthorized, Cleared
    <3> QED
      BY <2>1, <2>2, <3>1 DEF Replaced, LastChance, Live
  <2>6. CASE ~(courier \in LogsInAgain /\ call[c].attempt = 1)
    <3>1. LastChance(c)
      BY <1>1, <2>6 DEF LastChance, TypeOK, Call
    <3>2. ~SwallowsAuth
      BY DEF SwallowsAuth, LogsInAgain, Clears
    <3>3. unearned' = (unearned \/ (call[c].header # 0 /\ ~call[c].struck))
      BY <1>7, <2>6, <3>2 DEF Unauthorized
    <3>4. ~unearned'
      BY <2>4, <3>1, <3>3 DEF Replaced
    <3>5. CASE courier \in LogsInAgain
      <4>1. token' = token
        BY <1>1, <1>7, <2>6, <3>5 DEF Unauthorized, TypeOK, Call
      <4>2. call'[c].attempt = 1
        BY <1>1, <1>7, <2>6, <3>2, UnauthorizedTyped
      <4> QED
        BY <2>1, <2>2, <3>4, <3>5, <4>1, <4>2
           DEF Replaced, LastChance, Live, Clears, LogsInAgain
    <3>6. CASE courier \in Clears
      <4>1. token' = 0
        BY <1>7, <3>6 DEF Unauthorized, Cleared, LogsInAgain, Clears
      <4> QED
        BY <2>1, <2>2, <3>4, <4>1 DEF Replaced, LastChance, Live
    <3> QED
      BY <3>5, <3>6
  <2> QED
    BY <2>5, <2>6
<1>8. ASSUME NEW c \in Callers,
             Prepare(c) \/ Book(c) \/ Wait(c) \/ Refuse(c) \/ Label(c)
      PROVE  Replaced'
  <2>1. \/ \E s \in Stages : Goes(c, s)
        \/ \E o \in Outcomes : Ends(c, o)
    BY <1>8 DEF Prepare, Book, Wait, Refuse, Label, Stages, Outcomes
  <2>2. /\ call'[c].header = 0 /\ call'[c].attempt = 1
        /\ call'[c].struck = call[c].struck
        /\ \A d \in Callers : d # c => call'[d] = call[d]
    BY <1>1, <2>1, EndsTyped, GoesTyped
  <2>3. UNCHANGED <<courier, token, alive, unearned>>
    BY <1>8 DEF Prepare, Book, Wait, Refuse, Label
  <2> QED
    BY <2>2, <2>3 DEF Replaced, LastChance, Live
<1>9. ASSUME NEW c \in Callers, Fail(c) PROVE Replaced'
  <2>1. /\ call'[c].header \in {0, call[c].header}
        /\ call'[c].attempt \in {1, call[c].attempt}
        /\ call'[c].struck = call[c].struck
        /\ \A d \in Callers : d # c => call'[d] = call[d]
    BY <1>1, <1>9, FailTyped
  <2>2. UNCHANGED <<courier, token, alive, unearned>>
    BY <1>9 DEF Fail
  <2> QED
    BY <2>1, <2>2 DEF Replaced, LastChance, Live
<1>10. CASE UNCHANGED vars
  BY <1>10 DEF vars, Replaced, LastChance, Live
<1> QED
  BY <1>2, <1>3, <1>4, <1>5, <1>6, <1>7, <1>8, <1>9, <1>10, <1>11, <1>12
     DEF Next, Step

LEMMA InitReplaced == Init => Replaced
<1> SUFFICES ASSUME Init PROVE Replaced
  OBVIOUS
<1>1. \A c \in Callers : call[c].header = 0
  BY DEF Init, NoCall
<1> QED
  BY <1>1 DEF Init, Replaced, Live

\* For FAN Courier, Cargus and eColet, a request refused for the token it bears
\* fails its call only if a token was lost since the call began, or since the
\* caller's last such failure, whatever other callers do to the shared token.
THEOREM SessionIsReplaced == Spec => []SessionReplaced
<1>1. Replaced => SessionReplaced
  BY DEF Replaced, SessionReplaced
<1> QED
  BY <1>1, InitTyped, StepTyped, InitReplaced, StepReplaced, PTL DEF Spec

-----------------------------------------------------------------------------
(* What the adapters answer                                                *)

\* Multiples of the page size keep the order of their factors.
LEMMA Multiples ==
    ASSUME NEW m \in Nat, NEW n \in Nat, m < n
    PROVE  /\ m * PageSize \in Nat /\ n * PageSize \in Nat
           /\ m * PageSize + PageSize <= n * PageSize
<1>1. PageSize \in Nat
  BY PageSizeAssumption
<1>2. \A a, b \in Nat : a * b \in Nat
  OBVIOUS
<1>3. PICK d \in Nat : n = m + 1 + d
  <2>1. n - m - 1 \in Nat /\ n = m + 1 + (n - m - 1)
    OBVIOUS
  <2> QED
    BY <2>1
<1>4. n * PageSize = m * PageSize + PageSize + d * PageSize
  BY <1>1, <1>3
<1>5. /\ m * PageSize \in Nat /\ n * PageSize \in Nat /\ d * PageSize \in Nat
  BY <1>1, <1>2
<1> QED
  BY <1>1, <1>4, <1>5

\* A page has another one behind it exactly if rows are left.
LEMMA PagesLeft ==
    ASSUME NEW rows \in Seq(Nat), NEW p \in Nat
    PROVE  p < RemotePages(rows) <=> p * PageSize < Len(rows)
<1> DEFINE n == Len(rows)
           q == RemotePages(rows)
<1>1. PageSize \in Nat /\ PageSize > 0 /\ n \in Nat
  BY PageSizeAssumption
<1>2. q \in Nat /\ q * PageSize <= n + PageSize - 1
      /\ n + PageSize - 1 < q * PageSize + PageSize
  <2>1. \A a \in Nat : /\ a \div PageSize \in Nat
                       /\ (a \div PageSize) * PageSize <= a
                       /\ a < (a \div PageSize) * PageSize + PageSize
    BY <1>1
  <2>2. n + PageSize - 1 \in Nat
    BY <1>1
  <2> QED
    BY <2>1, <2>2 DEF RemotePages
<1> HIDE DEF n, q
<1>3. p * PageSize \in Nat /\ q * PageSize \in Nat
  BY <1>1, <1>2
<1>4. ASSUME p < q PROVE p * PageSize < n
  BY <1>1, <1>2, <1>3, <1>4, Multiples
<1>5. ASSUME q <= p PROVE n <= p * PageSize
  <2>1. q * PageSize <= p * PageSize
    <3>1. CASE q = p
      BY <3>1, <1>3
    <3>2. CASE q < p
      BY <3>2, <1>1, <1>2, <1>3, Multiples
    <3> QED
      BY <3>1, <3>2, <1>2, <1>5
  <2> QED
    BY <2>1, <1>1, <1>2, <1>3
<1>6. p < RemotePages(rows) <=> p * PageSize < n
  BY <1>1, <1>2, <1>3, <1>4, <1>5 DEF q
<1> QED
  BY <1>6 DEF n

\* The rows of a page that begins behind the given number of rows.
RowsBetween(rows, start) ==
    {rows[i] : i \in {k \in DOMAIN rows : start < k /\ k <= start + PageSize}}

LEMMA RowsOfPage ==
    ASSUME NEW rows \in Seq(Nat), NEW start \in Nat
    PROVE  LET page == RemoteFrom(rows, start)
           IN /\ page \in Seq(Nat)
              /\ Len(page) = IF start + PageSize < Len(rows) THEN PageSize
                             ELSE IF start < Len(rows) THEN Len(rows) - start
                             ELSE 0
              /\ \A i \in DOMAIN page : page[i] = rows[start + i]
              /\ Rows(page) = RowsBetween(rows, start)
<1> DEFINE upto == IF start + PageSize < Len(rows) THEN start + PageSize
                                                   ELSE Len(rows)
           page == SubSeq(rows, start + 1, upto)
<1>1. PageSize \in Nat /\ PageSize > 0 /\ Len(rows) \in Nat
  BY PageSizeAssumption
<1>2. upto \in Nat /\ upto <= Len(rows) /\ upto <= start + PageSize
  BY <1>1
<1> HIDE DEF upto
<1>3. /\ page \in Seq(Nat)
      /\ Len(page) = (IF start + 1 <= upto THEN upto - (start + 1) + 1 ELSE 0)
      /\ \A i \in 1..Len(page) : page[i] = rows[start + 1 + i - 1]
  <2> HIDE DEF page
  <2>1. \A i \in start + 1..upto : rows[i] \in Nat
    BY <1>1, <1>2
  <2>2. start + 1 \in Int /\ upto \in Int
    BY <1>2
  <2>3. /\ SubSeq(rows, start + 1, upto) \in Seq(Nat)
        /\ Len(SubSeq(rows, start + 1, upto))
             = (IF start + 1 <= upto THEN upto - (start + 1) + 1 ELSE 0)
        /\ \A i \in 1..upto - (start + 1) + 1 :
             SubSeq(rows, start + 1, upto)[i] = rows[start + 1 + i - 1]
    BY <2>1, <2>2, SubSeqProperties
  <2> QED
    BY <1>2, <2>3, SMTT(60) DEF page
<1>9. /\ Len(page) = (IF start < upto THEN upto - start ELSE 0)
      /\ \A i \in 1..Len(page) : page[i] = rows[start + i]
  <2> HIDE DEF page
  <2> QED
    BY <1>1, <1>2, <1>3
<1> HIDE DEF page
<1>4. DOMAIN page = 1..Len(page) /\ DOMAIN rows = 1..Len(rows)
  BY <1>3
<1>5. Rows(page) \subseteq RowsBetween(rows, start)
  <2> SUFFICES ASSUME NEW i \in DOMAIN page
               PROVE  page[i] \in RowsBetween(rows, start)
    BY DEF Rows
  <2>1. i \in 1..Len(page) /\ page[i] = rows[start + i]
    BY <1>4, <1>9
  <2>2. start + i \in DOMAIN rows /\ start < start + i
        /\ start + i <= start + PageSize
    BY <1>1, <1>2, <1>9, <1>4, <2>1, SMTT(60)
  <2> QED
    BY <2>1, <2>2 DEF RowsBetween
<1>6. RowsBetween(rows, start) \subseteq Rows(page)
  <2> SUFFICES ASSUME NEW k \in DOMAIN rows,
                      start < k, k <= start + PageSize
               PROVE  rows[k] \in Rows(page)
    BY DEF RowsBetween
  <2>1. k \in Nat /\ k <= upto
    BY <1>1, <1>4 DEF upto
  <2>2. k - start \in DOMAIN page /\ start + (k - start) = k
    BY <1>2, <1>9, <1>4, <2>1
  <2> QED
    BY <1>9, <1>4, <2>2 DEF Rows
<1>7. page = RemoteFrom(rows, start)
  BY DEF RemoteFrom, page, upto
<1>8. Len(page) = IF start + PageSize < Len(rows) THEN PageSize
                  ELSE IF start < Len(rows) THEN Len(rows) - start ELSE 0
  BY <1>1, <1>9 DEF upto
<1> QED
  BY <1>3, <1>4, <1>9, <1>5, <1>6, <1>7, <1>8

\* An answer with the rows behind a place, and the cursor of the page behind
\* them while any are left.
PositionAnswer(answer, rows, start, next) ==
    /\ answer.has_more \in BOOLEAN
    /\ answer.has_more => /\ answer.cursor = next
                          /\ start + PageSize <= Len(rows)
    /\ ~answer.has_more => /\ answer.cursor = 0
                           /\ Len(rows) <= start + PageSize
    /\ Rows(answer.items) = RowsBetween(rows, start)

LEMMA PositionAnswers ==
    ASSUME NEW rows \in Seq(Nat), NEW start \in Nat, NEW next,
           NEW more \in BOOLEAN,
           more => start + PageSize <= Len(rows),
           ~more => Len(rows) <= start + PageSize
    PROVE  PositionAnswer(Answer(RemoteFrom(rows, start), next, more),
                          rows, start, next)
BY RowsOfPage DEF PositionAnswer, Answer

\* The listings that are asked for by the number of a page.
Numbered == {"woocommerce", "woocommerce_orders", "gomag", "gomag_orders",
             "gomag_customers", "prestashop", "temu", "cargus", "magento",
             "temu_orders", "emag", "altex", "altex_orders", "sameday",
             "ecolet", "bapp_store", "bapp_store_orders", "paypal", "youtube",
             "pinterest", "tiktok_ads", "pinterest_ads", "linkedin_ads",
             "google_ads", "google_ads_groups", "google_ads_ads",
             "apple_reviews", "daily_reports", "monthly_reports", "sentry",
             "gitlab_issues"}

\* Those by a row, from which newer or older ones follow.
Older == {"stripe", "stripe_payouts", "facebook", "instagram", "threads",
          "tiktok", "meta_ads"}
ByRow == {"shopify"} \cup Older

\* Those that never hand out a cursor, and those that filter or group what they
\* list, of which nothing is proved.
CursorLess == AllAtOnce \cup FirstPageOnly
Filtered == {"stripe_payments", "gitlab_projects", "google_play_refunds"}

LEMMA Families ==
    ListingNames \subseteq Numbered \cup FromZero \cup {"linkedin"} \cup ByRow
                             \cup CursorLess \cup Filtered
BY DEF ListingNames, Numbered, FromZero, ByRow, Older, CursorLess, AllAtOnce,
       FirstPageOnly, Filtered

LEMMA FamiliesApart ==
    /\ Numbered \cap (FromZero \cup {"linkedin"} \cup ByRow \cup CursorLess)
         = {}
    /\ FromZero \cap ({"linkedin"} \cup ByRow \cup CursorLess) = {}
    /\ "linkedin" \notin ByRow \cup CursorLess
    /\ ByRow \cap CursorLess = {}
    /\ "shopify" \notin Older
    /\ ByRow \subseteq Steady
    /\ AllAtOnce \cap FirstPageOnly = {}
    /\ {"linkedin"} \cup Older \subseteq NewestFirst
    /\ "shopify" \in OldestFirst
<1>1. Numbered \cap (FromZero \cup {"linkedin"} \cup ByRow \cup CursorLess)
        = {}
  BY DEF Numbered, FromZero, ByRow, Older, CursorLess, AllAtOnce,
         FirstPageOnly
<1> QED
  BY <1>1 DEF FromZero, ByRow, Older, CursorLess, AllAtOnce, FirstPageOnly,
              Steady, NewestFirst, OldestFirst

\* The number of a page, and what lies before it.
LEMMA PageNumber ==
    ASSUME NEW cursor \in Nat
    PROVE  /\ Page(cursor) \in Nat /\ Page(cursor) > 0
           /\ Page(cursor) - 1 \in Nat
           /\ Page(Page(cursor) + 1) = Page(cursor) + 1
           /\ (Page(cursor) - 1) * PageSize \in Nat
           /\ Page(cursor) * PageSize \in Nat
           /\ (Page(cursor) - 1) * PageSize + PageSize
                = Page(cursor) * PageSize
<1>1. /\ Page(cursor) \in Nat /\ Page(cursor) > 0
      /\ Page(Page(cursor) + 1) = Page(cursor) + 1
  BY DEF Page
<1>2. PageSize \in Nat
  BY PageSizeAssumption
<1>3. \A p \in Nat : p > 0 =>
        /\ p - 1 \in Nat
        /\ (p - 1) * PageSize \in Nat /\ p * PageSize \in Nat
        /\ (p - 1) * PageSize + PageSize = p * PageSize
  BY <1>2
<1> QED
  BY <1>1, <1>3

LEMMA NumberedPages ==
    ASSUME NEW rows \in Seq(Nat), NEW cursor \in Nat, NEW name \in Numbered
    PROVE  PositionAnswer(Listing(name, rows, cursor), rows,
                          (Page(cursor) - 1) * PageSize, Page(cursor) + 1)
<1> DEFINE p     == Page(cursor)
           start == (p - 1) * PageSize
           page  == RemoteFrom(rows, start)
<1>1. /\ p \in Nat /\ start \in Nat /\ start + PageSize = p * PageSize
      /\ PageSize \in Nat /\ PageSize > 0 /\ Len(rows) \in Nat
  <2>1. p \in Nat /\ start \in Nat /\ start + PageSize = p * PageSize
    BY PageNumber
  <2> HIDE DEF p, start
  <2> QED
    BY <2>1, PageSizeAssumption
<1>2. RemotePage(rows, Page(cursor)) = page
  BY DEF RemotePage
<1> HIDE DEF p, start
<1>3. \A more \in BOOLEAN :
        /\ more => start + PageSize <= Len(rows)
        /\ ~more => Len(rows) <= start + PageSize
        => PositionAnswer(Answer(page, p + 1, more), rows, start, p + 1)
  BY <1>1, PositionAnswers
<1>4. Len(page) = IF start + PageSize < Len(rows) THEN PageSize
                  ELSE IF start < Len(rows) THEN Len(rows) - start ELSE 0
  BY <1>1, RowsOfPage
<1>5. PositionAnswer(FullPage(rows, cursor), rows, start, p + 1)
  <2> DEFINE more == Len(page) >= PageSize
  <2>1. FullPage(rows, cursor) = Answer(page, p + 1, more)
    BY <1>2 DEF FullPage, p
  <2> HIDE DEF page
  <2>2. /\ more \in BOOLEAN
        /\ more => start + PageSize <= Len(rows)
        /\ ~more => Len(rows) <= start + PageSize
    BY <1>1, <1>4
  <2> HIDE DEF more
  <2> QED
    BY <1>3, <2>1, <2>2
<1>6. PositionAnswer(CountedRows(rows, cursor), rows, start, p + 1)
  <2> DEFINE more == p * PageSize < Len(rows)
  <2>1. CountedRows(rows, cursor) = Answer(page, p + 1, more)
    BY <1>2 DEF CountedRows, p
  <2> HIDE DEF page
  <2>2. /\ more \in BOOLEAN
        /\ more => start + PageSize <= Len(rows)
        /\ ~more => Len(rows) <= start + PageSize
    BY <1>1
  <2> HIDE DEF more
  <2> QED
    BY <1>3, <2>1, <2>2
<1>7. PositionAnswer(TemuOrders(rows, cursor), rows, start, p + 1)
  <2> DEFINE more == page # <<>> /\ p * PageSize < Len(rows)
  <2>1. TemuOrders(rows, cursor) = Answer(page, p + 1, more)
    <3> DEFINE counted == p * PageSize < Len(rows)
    <3>1. CountedRows(rows, cursor) = Answer(page, p + 1, counted)
      BY <1>2 DEF CountedRows, p
    <3> HIDE DEF page, counted
    <3>2. /\ Answer(page, p + 1, counted).items = page
          /\ Answer(page, p + 1, counted).has_more = counted
          /\ counted => Answer(page, p + 1, counted).cursor = p + 1
      BY DEF Answer
    <3>3. TemuOrders(rows, cursor)
            = Answer(page, Answer(page, p + 1, counted).cursor,
                     page # <<>> /\ counted)
      BY <3>1, <3>2 DEF TemuOrders
    <3>4. Answer(page, Answer(page, p + 1, counted).cursor,
                 page # <<>> /\ counted)
            = Answer(page, p + 1, page # <<>> /\ counted)
      <4>1. CASE counted
        BY <4>1, <3>2
      <4>2. CASE ~counted
        BY <4>2 DEF Answer
      <4> QED
        BY <4>1, <4>2
    <3> QED
      BY <3>3, <3>4 DEF counted
  <2>2. page = <<>> => Len(page) = 0
    OBVIOUS
  <2> HIDE DEF page
  <2>3. /\ more => start + PageSize <= Len(rows)
        /\ ~more => Len(rows) <= start + PageSize
    BY <1>1, <1>4, <2>2
  <2> HIDE DEF more
  <2>4. more \in BOOLEAN
    BY DEF more
  <2> QED
    BY <1>3, <2>1, <2>3, <2>4
<1>8. PositionAnswer(CountedPages(rows, cursor), rows, start, p + 1)
  <2> DEFINE more == p < RemotePages(rows)
  <2>1. CountedPages(rows, cursor) = Answer(page, p + 1, more)
    BY <1>2 DEF CountedPages, p
  <2> HIDE DEF page
  <2>2. p < RemotePages(rows) <=> p * PageSize < Len(rows)
    BY <1>1, PagesLeft
  <2>3. /\ more \in BOOLEAN
        /\ more => start + PageSize <= Len(rows)
        /\ ~more => Len(rows) <= start + PageSize
    BY <1>1, <2>2
  <2> HIDE DEF more
  <2> QED
    BY <1>3, <2>1, <2>3
<1>9. \/ Listing(name, rows, cursor) = FullPage(rows, cursor)
      \/ Listing(name, rows, cursor) = CountedRows(rows, cursor)
      \/ Listing(name, rows, cursor) = TemuOrders(rows, cursor)
      \/ Listing(name, rows, cursor) = CountedPages(rows, cursor)
  <2>1. CASE name \in {"woocommerce", "woocommerce_orders", "gomag",
                       "gomag_orders", "gomag_customers", "prestashop",
                       "temu", "cargus"}
    BY <2>1 DEF Listing, WooCommerceProducts, WooCommerceOrders,
       GomagProducts, GomagOrders, GomagCustomers, PrestaShopProducts,
       TemuGoods, CargusShipments
  <2>2. CASE name \in {"magento", "temu_orders"}
    BY <2>2 DEF Listing, MagentoProducts
  <2>3. CASE name \in {"emag", "altex", "altex_orders", "sameday", "ecolet",
                       "bapp_store", "paypal", "tiktok_ads"}
    BY <2>3 DEF Listing, EmagProducts, AltexOffers, AltexOrders,
       SamedayShipments, EcoletShipments, BappStoreProducts,
       PayPalTransactions, TikTokAdsCampaigns
  <2>4. CASE name \in {"bapp_store_orders", "youtube", "pinterest",
                       "pinterest_ads", "linkedin_ads", "google_ads",
                       "google_ads_groups"}
    BY <2>4 DEF Listing, BappStoreOrders, YouTubePosts, PinterestPosts,
       PinterestAdsCampaigns, LinkedInAdsCampaigns, GoogleAdsCampaigns,
       GoogleAdsGroups, NamedPages
  <2>5. CASE name \in {"google_ads_ads", "apple_reviews", "daily_reports",
                       "monthly_reports", "sentry", "gitlab_issues"}
    BY <2>5 DEF Listing, GoogleAds, AppleReviews, DailyReports,
       MonthlyReports, SentryIssues, GitLabIssues, NamedPages
  <2> QED
    BY <2>1, <2>2, <2>3, <2>4, <2>5 DEF Numbered
<1>10. PositionAnswer(Listing(name, rows, cursor), rows, start, p + 1)
  <2> HIDE DEF page
  <2> QED
    BY <1>5, <1>6, <1>7, <1>8, <1>9
<1> QED
  BY <1>10 DEF start, p

LEMMA PagesFromZero ==
    ASSUME NEW rows \in Seq(Nat), NEW cursor \in Nat, NEW name \in FromZero
    PROVE  PositionAnswer(Listing(name, rows, cursor), rows,
                          cursor * PageSize, cursor + 1)
<1> DEFINE start == cursor * PageSize
           page  == RemoteFrom(rows, start)
           p     == cursor + 1
<1>1. /\ start \in Nat /\ start + PageSize = p * PageSize
      /\ PageSize \in Nat /\ PageSize > 0 /\ Len(rows) \in Nat
      /\ p \in Nat /\ p - 1 = cursor
  BY PageSizeAssumption
<1>2. RemotePage(rows, cursor + 1) = page
  BY <1>1 DEF RemotePage
<1> HIDE DEF start
<1>3. \A more \in BOOLEAN :
        /\ more => start + PageSize <= Len(rows)
        /\ ~more => Len(rows) <= start + PageSize
        => PositionAnswer(Answer(page, cursor + 1, more), rows, start,
                          cursor + 1)
  BY <1>1, PositionAnswers
<1>4. Len(page) = IF start + PageSize < Len(rows) THEN PageSize
                  ELSE IF start < Len(rows) THEN Len(rows) - start ELSE 0
  BY <1>1, RowsOfPage
<1> HIDE DEF page
<1>5. PositionAnswer(TrendyolProducts(rows, cursor), rows, start, cursor + 1)
  <2> DEFINE more == Len(page) >= PageSize
  <2>1. TrendyolProducts(rows, cursor) = Answer(page, cursor + 1, more)
    BY <1>2 DEF TrendyolProducts
  <2>2. /\ more \in BOOLEAN
        /\ more => start + PageSize <= Len(rows)
        /\ ~more => Len(rows) <= start + PageSize
    BY <1>1, <1>4
  <2> HIDE DEF more
  <2> QED
    BY <1>3, <2>1, <2>2
<1>6. PositionAnswer(TrendyolOrders(rows, cursor), rows, start, cursor + 1)
  <2> DEFINE more == p < RemotePages(rows)
  <2>1. TrendyolOrders(rows, cursor) = Answer(page, cursor + 1, more)
    BY <1>2 DEF TrendyolOrders
  <2> HIDE DEF p
  <2>2. p < RemotePages(rows) <=> p * PageSize < Len(rows)
    BY <1>1, PagesLeft
  <2>3. /\ more \in BOOLEAN
        /\ more => start + PageSize <= Len(rows)
        /\ ~more => Len(rows) <= start + PageSize
    BY <1>1, <2>2
  <2> HIDE DEF more
  <2> QED
    BY <1>3, <2>1, <2>3
<1>7. \/ Listing(name, rows, cursor) = TrendyolProducts(rows, cursor)
      \/ Listing(name, rows, cursor) = TrendyolOrders(rows, cursor)
  BY DEF FromZero, Listing, TrendyolSettlements
<1>8. PositionAnswer(Listing(name, rows, cursor), rows, start, cursor + 1)
  BY <1>5, <1>6, <1>7
<1> QED
  BY <1>8 DEF start

LEMMA PagesByCount ==
    ASSUME NEW rows \in Seq(Nat), NEW cursor \in Nat
    PROVE  PositionAnswer(Listing("linkedin", rows, cursor), rows, cursor,
                          cursor + PageSize)
<1>1. PageSize \in Nat /\ Len(rows) \in Nat
  BY PageSizeAssumption
<1>2. LinkedInPosts(rows, cursor)
        = Answer(RemoteFrom(rows, cursor), cursor + PageSize,
                 cursor + PageSize < Len(rows))
  BY DEF LinkedInPosts
<1>3. PositionAnswer(LinkedInPosts(rows, cursor), rows, cursor,
                     cursor + PageSize)
  <2> DEFINE more == cursor + PageSize < Len(rows)
  <2>1. /\ more \in BOOLEAN
        /\ more => cursor + PageSize <= Len(rows)
        /\ ~more => Len(rows) <= cursor + PageSize
    BY <1>1
  <2> HIDE DEF more
  <2>2. PositionAnswer(Answer(RemoteFrom(rows, cursor), cursor + PageSize,
                              more), rows, cursor, cursor + PageSize)
    BY <2>1, PositionAnswers
  <2> QED
    BY <1>2, <2>2 DEF more
<1>4. Listing("linkedin", rows, cursor) = LinkedInPosts(rows, cursor)
  BY DEF Listing
<1> QED
  BY <1>3, <1>4

\* Without a cursor: the whole listing at once, or its first page.
LEMMA NeverACursor ==
    ASSUME NEW rows \in Seq(Nat), NEW name \in CursorLess
    PROVE  LET answer == Listing(name, rows, 0)
           IN /\ answer.cursor = 0
              /\ answer.has_more \in BOOLEAN
              /\ Rows(answer.items) \subseteq Rows(rows)
              /\ name \in AllAtOnce => /\ ~answer.has_more
                                       /\ Rows(answer.items) = Rows(rows)
<1>1. CASE name \in AllAtOnce
  <2>1. Listing(name, rows, 0) = Whole(rows)
    BY <1>1 DEF AllAtOnce, Listing, VendigoProducts, VendigoOrders,
                OkaziiOrders, PrestaShopOrders
  <2>2. Whole(rows) = [items |-> rows, cursor |-> 0, has_more |-> FALSE]
    BY DEF Whole, Answer
  <2>3. /\ Whole(rows).items = rows /\ Whole(rows).cursor = 0
        /\ Whole(rows).has_more = FALSE
    BY <2>2
  <2> QED
    BY <2>1, <2>3, Zenon
<1>2. CASE name \in FirstPageOnly
  <2>1. name \notin AllAtOnce
    BY <1>2, FamiliesApart
  <2>2. RemotePage(rows, 1) = RemoteFrom(rows, 0)
    BY PageSizeAssumption DEF RemotePage
  <2>3. /\ Rows(RemoteFrom(rows, 0)) = RowsBetween(rows, 0)
        /\ RemoteFrom(rows, 0) \in Seq(Nat)
    BY RowsOfPage
  <2>4. RowsBetween(rows, 0) \subseteq Rows(rows)
    BY DEF RowsBetween, Rows
  <2>5. CASE name = "cel"
    <3>1. Listing("cel", rows, 0)
            = [items |-> RemotePage(rows, 1), cursor |-> 0,
               has_more |-> FALSE]
      BY DEF Listing, CelProducts, Answer
    <3>2. /\ Listing(name, rows, 0).items = RemoteFrom(rows, 0)
          /\ Listing(name, rows, 0).cursor = 0
          /\ Listing(name, rows, 0).has_more = FALSE
      BY <2>2, <2>5, <3>1
    <3> QED
      BY <2>1, <2>3, <2>4, <3>2, Zenon
  <2>6. CASE name = "emag_invoices"
    <3>1. Listing("emag_invoices", rows, 0)
            = [items |-> RemotePage(rows, 1), cursor |-> 0,
               has_more |-> Len(RemotePage(rows, 1)) >= PageSize]
      BY DEF Listing, EmagInvoices, Page
    <3> DEFINE more == Len(RemotePage(rows, 1)) >= PageSize
    <3>2. more \in BOOLEAN
      OBVIOUS
    <3>3. /\ Listing(name, rows, 0).items = RemoteFrom(rows, 0)
          /\ Listing(name, rows, 0).cursor = 0
          /\ Listing(name, rows, 0).has_more = more
      BY <2>2, <2>6, <3>1
    <3> QED
      BY <2>1, <2>3, <2>4, <3>2, <3>3, Zenon
  <2> QED
    BY <1>2, <2>5, <2>6 DEF FirstPageOnly
<1> QED
  BY <1>1, <1>2 DEF CursorLess

\* A set of numbers that is not empty has a least one.
LEMMA LeastNumber ==
    ASSUME NEW S \in SUBSET Nat, S # {}
    PROVE  \E x \in S : \A y \in S : x <= y
<1> DEFINE R == OpToRel(<, Nat)
<1>1. IsWellFoundedOn(R, Nat)
  BY NatLessThanWellFounded
<1>2. \A x, y \in Nat : y < x => <<y, x>> \in R
  BY DEF OpToRel
<1> HIDE DEF R
<1>3. PICK x \in S : \A y \in S : ~(<<y, x>> \in R)
  BY <1>1, WFMin, Zenon
<1>4. \A y \in S : ~(y < x)
  BY <1>2, <1>3
<1> QED
  BY <1>4

\* RowsBetween the places that something is said of from some place on, and the
\* others, there is a last one of the others.
LEMMA LastPlace ==
    ASSUME NEW n \in Nat, NEW S \in SUBSET (1..n)
    PROVE  \E k \in 0..n : /\ k > 0 => k \notin S
                           /\ k < n => k + 1 \in S
<1> DEFINE T == {k \in 0..n : k < n => k + 1 \in S}
<1>1. T \in SUBSET Nat /\ n \in T
  OBVIOUS
<1>2. PICK k \in T : \A j \in T : k <= j
  BY <1>1, LeastNumber
<1>3. k > 0 => k \notin S
  <2> SUFFICES ASSUME k > 0, k \in S
               PROVE  FALSE
    OBVIOUS
  <2>1. k - 1 \in T
    BY <1>1
  <2> QED
    BY <1>1, <1>2, <2>1
<1> QED
  BY <1>2, <1>3

Ascends(rows) == \A i, j \in DOMAIN rows : i < j => rows[i] < rows[j]
Descends(rows) == \A i, j \in DOMAIN rows : i < j => rows[j] < rows[i]

\* Shopify: a page has the rows behind the cursor, and its cursor those behind
\* the page.
LEMMA NewerRows ==
    ASSUME NEW rows \in Seq(Nat), NEW cursor \in Nat, Ascends(rows),
           \A i \in DOMAIN rows : rows[i] > 0
    PROVE  LET answer == Listing("shopify", rows, cursor)
           IN /\ answer.cursor \in {0} \cup Rows(rows)
              /\ answer.has_more \in BOOLEAN
              /\ Rows(answer.items) \subseteq Rows(rows)
              /\ answer.has_more => answer.cursor # 0
              /\ \A i \in DOMAIN rows :
                   rows[i] <= answer.cursor
                     => rows[i] <= cursor \/ rows[i] \in Rows(answer.items)
              /\ \A i \in DOMAIN rows :
                   rows[i] > cursor
                     => \/ rows[i] \in Rows(answer.items)
                        \/ answer.has_more /\ rows[i] > answer.cursor
<1> DEFINE n == Len(rows)
           Here(k) == /\ k > 0 => rows[k] <= cursor
                      /\ k < n => rows[k + 1] > cursor
           upto == CHOOSE k \in 0..n : Here(k)
           page == RemoteFrom(rows, upto)
           more == Len(page) >= PageSize
           next == IF page = <<>> THEN 0 ELSE page[Len(page)]
<1>1. /\ n \in Nat /\ DOMAIN rows = 1..n
      /\ PageSize \in Nat /\ PageSize > 0
      /\ \A i \in 1..n : rows[i] \in Nat /\ rows[i] > 0
  BY PageSizeAssumption
<1>2. upto \in 0..n /\ Here(upto)
  <2>1. \E k \in 0..n : Here(k)
    <3> DEFINE S == {i \in 1..n : rows[i] > cursor}
    <3>1. S \in SUBSET (1..n)
      OBVIOUS
    <3>2. PICK k \in 0..n : (k > 0 => k \notin S) /\ (k < n => k + 1 \in S)
      <4> HIDE DEF S, n
      <4> QED
        BY <1>1, <3>1, LastPlace
    <3>3. Here(k)
      BY <1>1, <3>2
    <3> QED
      BY <3>3
  <2> HIDE DEF Here, n
  <2> QED
    BY <2>1
<1>3. ShopifyProducts(rows, cursor) = Answer(page, next, more)
  BY DEF ShopifyProducts, RemoteSince
<1>4. Listing("shopify", rows, cursor) = ShopifyProducts(rows, cursor)
  BY DEF Listing
<1> HIDE DEF upto
<1>5. /\ page \in Seq(Nat)
      /\ Len(page) = (IF upto + PageSize < n THEN PageSize
                      ELSE IF upto < n THEN n - upto ELSE 0)
      /\ \A i \in DOMAIN page : page[i] = rows[upto + i]
      /\ Rows(page) = RowsBetween(rows, upto)
  <2> HIDE DEF n
  <2>1. upto \in Nat
    BY <1>1, <1>2
  <2>2. /\ page \in Seq(Nat)
        /\ Len(page) = (IF upto + PageSize < Len(rows) THEN PageSize
                        ELSE IF upto < Len(rows) THEN Len(rows) - upto
                        ELSE 0)
        /\ \A i \in DOMAIN page : page[i] = rows[upto + i]
        /\ Rows(page) = RowsBetween(rows, upto)
    BY <2>1, RowsOfPage
  <2> QED
    BY <2>2 DEF n
<1> HIDE DEF page, n
<1>6. more \in BOOLEAN /\ (more <=> upto + PageSize <= n)
  BY <1>1, <1>2, <1>5
<1>7. more => next = rows[upto + PageSize]
  <2> SUFFICES ASSUME more
               PROVE  next = rows[upto + PageSize]
    OBVIOUS
  <2>1. Len(page) = PageSize
    BY <1>1, <1>2, <1>5, <1>6
  <2>2. page # <<>> /\ PageSize \in DOMAIN page
    BY <1>1, <1>5, <2>1
  <2> QED
    BY <1>5, <2>1, <2>2
<1> HIDE DEF more, next
<1> DEFINE answer == Listing("shopify", rows, cursor)
<1>8. /\ answer.items = page /\ answer.has_more = more
      /\ answer.cursor = IF more THEN next ELSE 0
  BY <1>3, <1>4 DEF Answer
<1> HIDE DEF answer
<1>9. \A i \in 1..n : i > upto /\ i <= upto + PageSize => rows[i] \in Rows(page)
  BY <1>1, <1>5 DEF RowsBetween
<1>18. \A i, j \in 1..n : i < j => rows[i] < rows[j]
  BY <1>1 DEF Ascends
<1>10. ASSUME NEW i \in 1..n
       PROVE  rows[i] <= cursor <=> i <= upto
  <2>1. CASE i <= upto
    <3>1. upto > 0 /\ upto \in 1..n /\ (i = upto \/ i < upto)
      BY <1>1, <1>2, <2>1
    <3>2. rows[i] = rows[upto] \/ rows[i] < rows[upto]
      BY <1>18, <3>1
    <3> QED
      BY <1>1, <1>2, <2>1, <3>1, <3>2
  <2>2. CASE i > upto
    <3>1. upto < n /\ upto + 1 \in 1..n /\ (i = upto + 1 \/ upto + 1 < i)
      BY <1>1, <1>2, <2>2
    <3>2. rows[i] = rows[upto + 1] \/ rows[upto + 1] < rows[i]
      BY <1>18, <3>1
    <3> QED
      BY <1>1, <1>2, <2>2, <3>1, <3>2
  <2> QED
    BY <1>1, <1>2, <2>1, <2>2
<1>19. more => upto + PageSize \in 1..n
  BY <1>1, <1>2, <1>6
<1>11. ASSUME more, NEW i \in 1..n
       PROVE  rows[i] <= rows[upto + PageSize] <=> i <= upto + PageSize
  <2> DEFINE k == upto + PageSize
  <2>1. k \in 1..n
    BY <1>11, <1>19
  <2> HIDE DEF k
  <2>2. rows[i] <= rows[k] <=> i <= k
    BY <1>1, <1>18, <2>1
  <2> QED
    BY <2>2 DEF k
<1>12. answer.cursor \in {0} \cup Rows(rows)
  BY <1>1, <1>7, <1>8, <1>19 DEF Rows
<1>13. Rows(answer.items) \subseteq Rows(rows)
  <2>1. Rows(answer.items) = RowsBetween(rows, upto)
    BY <1>5, <1>8
  <2>2. RowsBetween(rows, upto) \subseteq Rows(rows)
    BY DEF RowsBetween, Rows
  <2> QED
    BY <2>1, <2>2
<1>14. answer.has_more => answer.cursor # 0
  <2>1. more => upto + PageSize \in 1..n
    BY <1>1, <1>2, <1>6
  <2> QED
    BY <1>1, <1>7, <1>8, <2>1
<1>15. ASSUME NEW i \in 1..n, rows[i] <= answer.cursor
       PROVE  rows[i] <= cursor \/ rows[i] \in Rows(answer.items)
  <2>1. more
    BY <1>1, <1>8, <1>15
  <2>2. i <= upto + PageSize
    BY <1>7, <1>8, <1>11, <1>15, <2>1
  <2> QED
    BY <1>1, <1>2, <1>8, <1>9, <1>10, <2>2
<1>16. ASSUME NEW i \in 1..n, rows[i] > cursor
       PROVE  \/ rows[i] \in Rows(answer.items)
              \/ answer.has_more /\ rows[i] > answer.cursor
  <2>1. i > upto
    BY <1>1, <1>2, <1>10, <1>16
  <2>2. CASE i <= upto + PageSize
    BY <1>8, <1>9, <2>1, <2>2
  <2>3. CASE i > upto + PageSize
    <3>1. more
      BY <1>1, <1>2, <1>6, <2>3
    <3>2. upto + PageSize \in 1..n
      BY <1>1, <1>2, <1>6, <3>1
    <3> QED
      BY <1>1, <1>7, <1>8, <1>11, <2>3, <3>1, <3>2
  <2> QED
    BY <1>1, <1>2, <2>2, <2>3
<1>17. answer.has_more \in BOOLEAN
  BY <1>6, <1>8
<1> QED
  BY <1>1, <1>12, <1>13, <1>14, <1>15, <1>16, <1>17 DEF answer

\* The same where rows come newest first.
LEMMA OlderRowsFollow ==
    ASSUME NEW rows \in Seq(Nat), NEW cursor \in Nat, NEW name \in Older,
           Descends(rows), \A i \in DOMAIN rows : rows[i] > 0
    PROVE  LET answer == Listing(name, rows, cursor)
           IN /\ answer.cursor \in Nat
              /\ answer.has_more \in BOOLEAN
              /\ Rows(answer.items) \subseteq Rows(rows)
              /\ answer.has_more => answer.cursor # 0
              /\ \A i \in DOMAIN rows :
                   cursor = 0 \/ rows[i] < cursor
                     => \/ rows[i] \in Rows(answer.items)
                        \/ answer.has_more /\ rows[i] < answer.cursor
<1> DEFINE n == Len(rows)
           Here(k) == /\ k > 0 => cursor > 0 /\ rows[k] >= cursor
                      /\ k < n => cursor = 0 \/ rows[k + 1] < cursor
           upto == CHOOSE k \in 0..n : Here(k)
           rest == SubSeq(rows, upto + 1, n)
           page == RemotePage(rest, 1)
           more == Len(rest) > PageSize
<1>1. /\ n \in Nat /\ DOMAIN rows = 1..n
      /\ PageSize \in Nat /\ PageSize > 0
      /\ \A i \in 1..n : rows[i] \in Nat /\ rows[i] > 0
  BY PageSizeAssumption
<1>2. upto \in 0..n /\ Here(upto)
  <2>1. \E k \in 0..n : Here(k)
    <3> DEFINE S == {i \in 1..n : cursor = 0 \/ rows[i] < cursor}
    <3>1. S \in SUBSET (1..n)
      OBVIOUS
    <3>2. PICK k \in 0..n : (k > 0 => k \notin S) /\ (k < n => k + 1 \in S)
      <4> HIDE DEF S, n
      <4> QED
        BY <1>1, <3>1, LastPlace
    <3>3. Here(k)
      BY <1>1, <3>2
    <3> QED
      BY <3>3
  <2> HIDE DEF Here, n
  <2> QED
    BY <2>1
<1>3. OlderRows(rows, cursor) = Answer(page, LastOf(page), more)
  BY DEF OlderRows, RemoteBefore
<1>4. Edge(rows, cursor)
        = [OlderRows(rows, cursor) EXCEPT !.cursor = LastOf(page)]
  BY DEF Edge, RemoteBefore
<1> HIDE DEF upto
<1>5. /\ rest \in Seq(Nat) /\ Len(rest) = n - upto
      /\ \A i \in 1..n - upto : rest[i] = rows[upto + i]
  <2>1. \A i \in upto + 1..n : rows[i] \in Nat
    BY <1>1, <1>2
  <2>2. upto + 1 \in Int /\ n \in Int
    BY <1>1, <1>2
  <2> HIDE DEF n
  <2>3. /\ SubSeq(rows, upto + 1, n) \in Seq(Nat)
        /\ Len(SubSeq(rows, upto + 1, n))
             = (IF upto + 1 <= n THEN n - (upto + 1) + 1 ELSE 0)
        /\ \A i \in 1..n - (upto + 1) + 1 :
             SubSeq(rows, upto + 1, n)[i] = rows[upto + 1 + i - 1]
    BY <2>1, <2>2, SubSeqProperties
  <2>4. /\ n - (upto + 1) + 1 = n - upto
        /\ \A i \in 1..n - upto : upto + 1 + i - 1 = upto + i
    BY <1>1, <1>2
  <2> QED
    BY <1>1, <1>2, <2>3, <2>4
<1> HIDE DEF rest
<1>6. /\ page \in Seq(Nat)
      /\ Len(page) = (IF PageSize < n - upto THEN PageSize ELSE n - upto)
      /\ \A i \in DOMAIN page : page[i] = rest[i]
      /\ Rows(page) = RowsBetween(rest, 0)
  <2>1. page = RemoteFrom(rest, 0)
    BY <1>1 DEF RemotePage
  <2>2. /\ RemoteFrom(rest, 0) \in Seq(Nat)
        /\ Len(RemoteFrom(rest, 0))
             = (IF 0 + PageSize < Len(rest) THEN PageSize
                ELSE IF 0 < Len(rest) THEN Len(rest) - 0 ELSE 0)
        /\ \A i \in DOMAIN RemoteFrom(rest, 0) :
             RemoteFrom(rest, 0)[i] = rest[0 + i]
        /\ Rows(RemoteFrom(rest, 0)) = RowsBetween(rest, 0)
    BY <1>5, RowsOfPage
  <2> HIDE DEF page, n
  <2>3. \A i \in DOMAIN page : page[i] = rest[i]
    BY <1>1, <2>1, <2>2
  <2> QED
    BY <1>1, <1>2, <1>5, <2>1, <2>2, <2>3
<1> HIDE DEF page, n
<1>7. more \in BOOLEAN /\ (more <=> upto + PageSize < n)
  BY <1>1, <1>2, <1>5
<1>8. LastOf(page) \in Nat
  BY <1>6 DEF LastOf
<1>9. more => LastOf(page) = rows[upto + PageSize]
  <2> SUFFICES ASSUME more
               PROVE  LastOf(page) = rows[upto + PageSize]
    OBVIOUS
  <2>1. Len(page) = PageSize /\ PageSize \in 1..n - upto
    BY <1>1, <1>2, <1>6, <1>7
  <2>2. page # <<>> /\ PageSize \in DOMAIN page
    BY <1>1, <1>6, <2>1
  <2> QED
    BY <1>5, <1>6, <2>1, <2>2 DEF LastOf
<1> HIDE DEF more
<1> DEFINE answer == Listing(name, rows, cursor)
<1>10. \/ answer = OlderRows(rows, cursor)
       \/ answer = Edge(rows, cursor)
  BY DEF Older, Listing, TikTokPosts, StripeTransactions, StripePayouts,
         FacebookPosts, InstagramPosts, ThreadsPosts, MetaAdsCampaigns
<1>11. /\ answer.items = page /\ answer.has_more = more
       /\ answer.cursor \in {0, LastOf(page)}
       /\ more => answer.cursor = LastOf(page)
  <2>1. OlderRows(rows, cursor)
          = [items |-> page, cursor |-> IF more THEN LastOf(page) ELSE 0,
             has_more |-> more]
    BY <1>3 DEF Answer
  <2>2. Edge(rows, cursor)
          = [items |-> page, cursor |-> LastOf(page), has_more |-> more]
    BY <1>4, <2>1
  <2> HIDE DEF answer
  <2> QED
    BY <1>10, <2>1, <2>2
<1> HIDE DEF answer
<1>12. \A i \in 1..n : i > upto /\ i <= upto + PageSize
                          => rows[i] \in Rows(page)
  <2> SUFFICES ASSUME NEW i \in 1..n, i > upto, i <= upto + PageSize
               PROVE  rows[i] \in Rows(page)
    OBVIOUS
  <2>1. i - upto \in 1..n - upto /\ upto + (i - upto) = i
        /\ i - upto <= 0 + PageSize
    BY <1>1, <1>2
  <2>2. rest[i - upto] = rows[i] /\ i - upto \in DOMAIN rest
    BY <1>5, <2>1
  <2> QED
    BY <1>6, <2>1, <2>2 DEF RowsBetween
<1>13. Rows(page) \subseteq Rows(rows)
  <2> SUFFICES ASSUME NEW k \in DOMAIN rest
               PROVE  rest[k] \in Rows(rows)
    BY <1>6 DEF RowsBetween
  <2>1. k \in 1..n - upto
    BY <1>5
  <2>2. upto + k \in DOMAIN rows /\ rest[k] = rows[upto + k]
    <3>1. upto + k \in 1..n
      BY <1>1, <1>2, <2>1, SMTT(60)
    <3> QED
      BY <1>1, <1>5, <2>1, <3>1
  <2> QED
    BY <2>2 DEF Rows
<1>14. ASSUME NEW i \in 1..n, cursor = 0 \/ rows[i] < cursor
       PROVE  i > upto
  <2> SUFFICES ASSUME i <= upto
               PROVE  FALSE
    BY <1>1, <1>2
  <2>1. upto > 0 /\ upto \in 1..n /\ (i = upto \/ i < upto)
    BY <1>1, <1>2
  <2>2. \A a, b \in 1..n : a < b => rows[b] < rows[a]
    BY <1>1 DEF Descends
  <2>3. rows[i] = rows[upto] \/ rows[upto] < rows[i]
    BY <2>1, <2>2
  <2> QED
    BY <1>1, <1>2, <1>14, <2>1, <2>3
<1>15. more => upto + PageSize \in 1..n
  BY <1>1, <1>2, <1>7
<1>16. answer.has_more => answer.cursor # 0
  BY <1>1, <1>9, <1>11, <1>15
<1>17. ASSUME NEW i \in 1..n, cursor = 0 \/ rows[i] < cursor
       PROVE  \/ rows[i] \in Rows(answer.items)
              \/ answer.has_more /\ rows[i] < answer.cursor
  <2>1. i > upto
    BY <1>14, <1>17
  <2>2. CASE i <= upto + PageSize
    BY <1>11, <1>12, <2>1, <2>2
  <2>3. CASE i > upto + PageSize
    <3>1. more
      BY <1>1, <1>2, <1>7, <2>3
    <3>2. rows[i] < rows[upto + PageSize]
      BY <1>1, <1>15, <2>3, <3>1 DEF Descends
    <3> QED
      BY <1>9, <1>11, <3>1, <3>2
  <2> QED
    BY <1>1, <1>2, <2>2, <2>3
<1>18. answer.has_more \in BOOLEAN /\ answer.cursor \in Nat
  BY <1>7, <1>8, <1>11
<1>19. Rows(answer.items) \subseteq Rows(rows)
  BY <1>11, <1>13
<1> QED
  BY <1>1, <1>16, <1>17, <1>18, <1>19 DEF answer

-----------------------------------------------------------------------------
(* Cursors, and the rows before and behind them                            *)

\* The rows before the page a cursor stands for, where positions count.
Start(name, cursor) ==
    IF name \in FromZero THEN cursor * PageSize
    ELSE IF name = "linkedin" THEN cursor
    ELSE (Page(cursor) - 1) * PageSize

\* Everything before the cursor is among these rows.  top: the last row created.
Passed(name, rows, top, cursor, read) ==
    IF name = "shopify"
    THEN /\ cursor <= top
         /\ \A i \in DOMAIN rows : rows[i] <= cursor => rows[i] \in read
    ELSE /\ Start(name, cursor) <= Len(rows)
         /\ \A i \in DOMAIN rows :
              i <= Start(name, cursor) => rows[i] \in read

\* The row is behind the cursor.
Ahead(name, rows, cursor, r) ==
    \E i \in DOMAIN rows :
      /\ rows[i] = r
      /\ name = "shopify" => r > cursor
      /\ name \in Older => cursor = 0 \/ r < cursor
      /\ name \notin ByRow => i > Start(name, cursor)

LEMMA StartTyped ==
    ASSUME NEW name, NEW cursor \in Nat
    PROVE  /\ Start(name, cursor) \in Nat
           /\ Start(name, 0) = 0
<1>1. /\ (Page(cursor) - 1) * PageSize \in Nat /\ cursor * PageSize \in Nat
      /\ PageSize \in Nat
  BY PageNumber, PageSizeAssumption
<1>2. (Page(0) - 1) * PageSize = 0 /\ 0 * PageSize = 0
  BY PageSizeAssumption DEF Page
<1> QED
  BY <1>1, <1>2 DEF Start

\* Without a cursor nothing is passed, and everything is behind it.
LEMMA AtTheStart ==
    ASSUME NEW name \in ListingNames, NEW rows \in Seq(Nat), NEW top \in Nat,
           \A i \in DOMAIN rows : rows[i] > 0,
           NEW read
    PROVE  /\ Passed(name, rows, top, 0, read)
           /\ \A r \in Rows(rows) : Ahead(name, rows, 0, r)
<1>1. Start(name, 0) = 0
  BY StartTyped
<1>2. Len(rows) \in Nat /\ DOMAIN rows = 1..Len(rows)
  BY DEF Rows
<1>3. Passed(name, rows, top, 0, read)
  BY <1>1, <1>2 DEF Passed
<1>4. ASSUME NEW i \in DOMAIN rows
      PROVE  Ahead(name, rows, 0, rows[i])
  <2>1. rows[i] > 0 /\ i > 0
    BY <1>2
  <2> QED
    BY <1>1, <2>1 DEF Ahead
<1> QED
  BY <1>3, <1>4 DEF Rows

\* What an answer does for a walk: what is behind the cursor is on the page or
\* behind the next one, and what is before the next one was before it or is on
\* the page.
Advances(name, rows, top, cursor, answer) ==
    /\ answer.cursor \in Nat
    /\ answer.has_more \in BOOLEAN
    /\ name \in CursorLess => answer.cursor = 0
    /\ Rows(answer.items) \subseteq Rows(rows)
    /\ name \notin FirstPageOnly =>
         /\ answer.has_more => answer.cursor # 0
         /\ \A r : Ahead(name, rows, cursor, r)
                     => \/ r \in Rows(answer.items)
                        \/ /\ answer.has_more
                           /\ Ahead(name, rows, answer.cursor, r)
    /\ name \notin Older =>
         \A read : Passed(name, rows, top, cursor, read)
                     => Passed(name, rows, top, answer.cursor,
                               read \cup Rows(answer.items))

LEMMA PositionAdvances ==
    ASSUME NEW name \in Numbered \cup FromZero \cup {"linkedin"},
           NEW rows \in Seq(Nat), NEW top \in Nat, NEW cursor \in Nat,
           NEW next \in Nat, next # 0,
           Start(name, next) = Start(name, cursor) + PageSize,
           NEW answer,
           PositionAnswer(answer, rows, Start(name, cursor), next)
    PROVE  Advances(name, rows, top, cursor, answer)
<1> DEFINE start == Start(name, cursor)
<1>1. /\ name \notin CursorLess /\ name \notin FirstPageOnly
      /\ name \notin ByRow /\ name # "shopify" /\ name \notin Older
  BY FamiliesApart DEF CursorLess, ByRow
<1>2. /\ start \in Nat /\ Start(name, 0) = 0
      /\ PageSize \in Nat /\ Len(rows) \in Nat
      /\ DOMAIN rows = 1..Len(rows)
  BY StartTyped, PageSizeAssumption
<1>3. Start(name, next) = start + PageSize
  OBVIOUS
<1>4. /\ answer.has_more \in BOOLEAN
      /\ answer.has_more => /\ answer.cursor = next
                            /\ start + PageSize <= Len(rows)
      /\ ~answer.has_more => /\ answer.cursor = 0
                             /\ Len(rows) <= start + PageSize
      /\ Rows(answer.items) = RowsBetween(rows, start)
  BY DEF PositionAnswer
<1> HIDE DEF start
<1>5. \A i \in DOMAIN rows : start < i /\ i <= start + PageSize
                                => rows[i] \in Rows(answer.items)
  BY <1>4 DEF RowsBetween
<1>6. answer.cursor \in Nat /\ (answer.has_more => answer.cursor # 0)
  BY <1>4
<1>7. Rows(answer.items) \subseteq Rows(rows)
  <2>1. RowsBetween(rows, start) \subseteq Rows(rows)
    BY DEF RowsBetween, Rows
  <2> QED
    BY <1>4, <2>1
<1>8. ASSUME NEW r, Ahead(name, rows, cursor, r)
      PROVE  \/ r \in Rows(answer.items)
             \/ answer.has_more /\ Ahead(name, rows, answer.cursor, r)
  <2>1. PICK i \in DOMAIN rows : rows[i] = r /\ i > start
    BY <1>1, <1>8 DEF Ahead, start
  <2>2. CASE i <= start + PageSize
    BY <1>2, <1>5, <2>1, <2>2
  <2>3. CASE i > start + PageSize
    <3>1. answer.has_more /\ answer.cursor = next
      BY <1>2, <1>4, <2>1, <2>3
    <3>2. Ahead(name, rows, next, r)
      BY <1>1, <1>3, <2>1, <2>3 DEF Ahead
    <3> QED
      BY <3>1, <3>2
  <2> QED
    BY <1>2, <2>1, <2>2, <2>3
<1>9. ASSUME NEW read, Passed(name, rows, top, cursor, read)
      PROVE  Passed(name, rows, top, answer.cursor,
                    read \cup Rows(answer.items))
  <2>1. \A i \in DOMAIN rows : i <= start => rows[i] \in read
    BY <1>1, <1>9 DEF Passed, start
  <2>2. CASE answer.has_more
    <3>1. \A i \in DOMAIN rows :
            i <= start + PageSize => rows[i] \in read \cup Rows(answer.items)
      BY <1>2, <1>5, <2>1
    <3>2. Start(name, answer.cursor) = start + PageSize
          /\ start + PageSize <= Len(rows)
      BY <1>3, <1>4, <2>2
    <3> QED
      BY <1>1, <3>1, <3>2 DEF Passed
  <2>3. CASE ~answer.has_more
    <3>1. Start(name, answer.cursor) = 0
      BY <1>2, <1>4, <2>3
    <3> QED
      BY <1>1, <1>2, <3>1 DEF Passed
  <2> QED
    BY <1>4, <2>2, <2>3
<1>10. /\ answer.cursor \in Nat /\ answer.has_more \in BOOLEAN
       /\ answer.has_more => answer.cursor # 0
  BY <1>4, <1>6
<1> QED
  BY <1>1, <1>7, <1>8, <1>9, <1>10 DEF Advances

LEMMA PageAdvances ==
    ASSUME NEW name \in ListingNames \ Filtered,
           NEW rows \in Seq(Nat), NEW top \in Nat, NEW cursor \in Nat,
           \A i \in DOMAIN rows : rows[i] \in 1..top,
           name = "shopify" => Ascends(rows),
           name \in Older => Descends(rows),
           name \in CursorLess => cursor = 0
    PROVE  Advances(name, rows, top, cursor, Listing(name, rows, cursor))
<1> DEFINE answer == Listing(name, rows, cursor)
<1>1. \A i \in DOMAIN rows : rows[i] > 0
  OBVIOUS
<1>2. CASE name \in Numbered
  <2>1. name \notin FromZero /\ name # "linkedin"
    BY <1>2, FamiliesApart
  <2>2. PositionAnswer(answer, rows, Start(name, cursor), Page(cursor) + 1)
    BY <1>2, <2>1, NumberedPages DEF Start
  <2>3. /\ Page(cursor) + 1 \in Nat /\ Page(cursor) + 1 # 0
        /\ (Page(Page(cursor) + 1) - 1) * PageSize
             = (Page(cursor) - 1) * PageSize + PageSize
    <3>1. /\ Page(cursor) \in Nat
          /\ Page(Page(cursor) + 1) = Page(cursor) + 1
          /\ (Page(cursor) - 1) * PageSize + PageSize
               = Page(cursor) * PageSize
      BY PageNumber
    <3>2. Page(Page(cursor) + 1) - 1 = Page(cursor)
      BY <3>1
    <3> QED
      BY <3>1, <3>2
  <2>4. Start(name, Page(cursor) + 1) = Start(name, cursor) + PageSize
    BY <2>1, <2>3 DEF Start
  <2> HIDE DEF answer
  <2>5. Advances(name, rows, top, cursor, answer)
    BY <1>2, <2>2, <2>3, <2>4, PositionAdvances
  <2> QED
    BY <2>5 DEF answer
<1>3. CASE name \in FromZero
  <2>1. PositionAnswer(answer, rows, Start(name, cursor), cursor + 1)
    BY <1>3, PagesFromZero DEF Start
  <2>2. Start(name, cursor + 1) = Start(name, cursor) + PageSize
    <3>1. (cursor + 1) * PageSize = cursor * PageSize + PageSize
      BY PageSizeAssumption
    <3> QED
      BY <1>3, <3>1 DEF Start
  <2>3. cursor + 1 \in Nat /\ cursor + 1 # 0
    OBVIOUS
  <2> HIDE DEF answer
  <2>4. Advances(name, rows, top, cursor, answer)
    BY <1>3, <2>1, <2>2, <2>3, PositionAdvances
  <2> QED
    BY <2>4 DEF answer
<1>4. CASE name = "linkedin"
  <2>1. name \notin FromZero
    BY <1>4, FamiliesApart
  <2>2. PositionAnswer(answer, rows, Start(name, cursor), cursor + PageSize)
    BY <1>4, <2>1, PagesByCount DEF Start
  <2>3. /\ Start(name, cursor + PageSize) = Start(name, cursor) + PageSize
        /\ cursor + PageSize \in Nat /\ cursor + PageSize # 0
    BY <1>4, <2>1, PageSizeAssumption DEF Start
  <2> HIDE DEF answer
  <2>4. Advances(name, rows, top, cursor, answer)
    BY <1>4, <2>2, <2>3, PositionAdvances
  <2> QED
    BY <2>4 DEF answer
<1>5. CASE name = "shopify"
  <2>1. name \notin CursorLess /\ name \notin Older /\ name \in ByRow
        /\ name \notin FirstPageOnly
    BY <1>5, FamiliesApart DEF CursorLess, ByRow
  <2>2. /\ answer.cursor \in {0} \cup Rows(rows)
        /\ answer.has_more \in BOOLEAN
        /\ Rows(answer.items) \subseteq Rows(rows)
        /\ answer.has_more => answer.cursor # 0
        /\ \A i \in DOMAIN rows :
             rows[i] <= answer.cursor
               => rows[i] <= cursor \/ rows[i] \in Rows(answer.items)
        /\ \A i \in DOMAIN rows :
             rows[i] > cursor
               => \/ rows[i] \in Rows(answer.items)
                  \/ answer.has_more /\ rows[i] > answer.cursor
    BY <1>1, <1>5, NewerRows
  <2> HIDE DEF answer
  <2>3. answer.cursor \in Nat /\ answer.cursor <= top
    BY <2>2 DEF Rows
  <2>4. ASSUME NEW r, Ahead(name, rows, cursor, r)
        PROVE  \/ r \in Rows(answer.items)
               \/ answer.has_more /\ Ahead(name, rows, answer.cursor, r)
    <3>1. PICK i \in DOMAIN rows : rows[i] = r /\ r > cursor
      BY <1>5, <2>4 DEF Ahead
    <3>2. CASE r \in Rows(answer.items)
      BY <3>2
    <3>3. CASE answer.has_more /\ r > answer.cursor
      <4>1. Ahead(name, rows, answer.cursor, r)
        BY <2>1, <3>1, <3>3 DEF Ahead
      <4> QED
        BY <3>3, <4>1
    <3> QED
      BY <2>2, <3>1, <3>2, <3>3
  <2>5. ASSUME NEW read, Passed(name, rows, top, cursor, read)
        PROVE  Passed(name, rows, top, answer.cursor,
                      read \cup Rows(answer.items))
    BY <1>5, <2>2, <2>3, <2>5 DEF Passed
  <2>6. Advances(name, rows, top, cursor, answer)
    BY <2>1, <2>2, <2>3, <2>4, <2>5 DEF Advances
  <2> QED
    BY <2>6 DEF answer
<1>6. CASE name \in Older
  <2>1. name \notin CursorLess /\ name # "shopify" /\ name \in ByRow
        /\ name \notin FirstPageOnly
    BY <1>6, FamiliesApart DEF CursorLess, ByRow
  <2>2. /\ answer.cursor \in Nat
        /\ answer.has_more \in BOOLEAN
        /\ Rows(answer.items) \subseteq Rows(rows)
        /\ answer.has_more => answer.cursor # 0
        /\ \A i \in DOMAIN rows :
             cursor = 0 \/ rows[i] < cursor
               => \/ rows[i] \in Rows(answer.items)
                  \/ answer.has_more /\ rows[i] < answer.cursor
    BY <1>1, <1>6, OlderRowsFollow
  <2> HIDE DEF answer
  <2>3. ASSUME NEW r, Ahead(name, rows, cursor, r)
        PROVE  \/ r \in Rows(answer.items)
               \/ answer.has_more /\ Ahead(name, rows, answer.cursor, r)
    <3>1. PICK i \in DOMAIN rows : rows[i] = r /\ (cursor = 0 \/ r < cursor)
      BY <1>6, <2>3 DEF Ahead
    <3>2. CASE r \in Rows(answer.items)
      BY <3>2
    <3>3. CASE answer.has_more /\ r < answer.cursor
      <4>1. Ahead(name, rows, answer.cursor, r)
        BY <2>1, <3>1, <3>3 DEF Ahead
      <4> QED
        BY <3>3, <4>1
    <3> QED
      BY <2>2, <3>1, <3>2, <3>3
  <2>4. Advances(name, rows, top, cursor, answer)
    BY <1>6, <2>1, <2>2, <2>3 DEF Advances
  <2> QED
    BY <2>4 DEF answer
<1>7. CASE name \in CursorLess
  <2>1. cursor = 0 /\ name \notin Older
    BY <1>7, FamiliesApart DEF ByRow
  <2>2. /\ answer.cursor = 0
        /\ answer.has_more \in BOOLEAN
        /\ Rows(answer.items) \subseteq Rows(rows)
        /\ name \in AllAtOnce => /\ ~answer.has_more
                                 /\ Rows(answer.items) = Rows(rows)
    BY <1>7, <2>1, NeverACursor
  <2> HIDE DEF answer
  <2>3. ASSUME name \notin FirstPageOnly
        PROVE  /\ answer.has_more => answer.cursor # 0
               /\ \A r : Ahead(name, rows, cursor, r)
                           => r \in Rows(answer.items)
    <3>1. name \in AllAtOnce
      BY <1>7, <2>3 DEF CursorLess
    <3>2. \A r : Ahead(name, rows, cursor, r) => r \in Rows(rows)
      BY DEF Ahead, Rows
    <3> QED
      BY <2>2, <3>1, <3>2
  <2>4. \A read : Passed(name, rows, top, answer.cursor, read)
    BY <1>1, <2>2, AtTheStart
  <2>5. Advances(name, rows, top, cursor, answer)
    BY <2>1, <2>2, <2>3, <2>4 DEF Advances
  <2> QED
    BY <2>5 DEF answer
<1> QED
  BY <1>2, <1>3, <1>4, <1>5, <1>6, <1>7, Families DEF ByRow

\* A row more at the end of the listing, and one more at its beginning.
LEMMA RowAppended ==
    ASSUME NEW name, NEW rows \in Seq(Nat), NEW top \in Nat,
           \A i \in DOMAIN rows : rows[i] \in 1..top
    PROVE  LET longer == Append(rows, top + 1)
           IN /\ longer \in Seq(Nat)
              /\ \A i \in DOMAIN longer : longer[i] \in 1..top + 1
              /\ Ascends(rows) => Ascends(longer)
              /\ \A cursor \in Nat : \A r :
                   Ahead(name, rows, cursor, r)
                     => Ahead(name, longer, cursor, r)
              /\ \A cursor \in Nat : \A read :
                   Passed(name, rows, top, cursor, read)
                     => Passed(name, longer, top + 1, cursor, read)
<1> DEFINE longer == Append(rows, top + 1)
<1>1. /\ longer \in Seq(Nat) /\ Len(longer) = Len(rows) + 1
      /\ Len(rows) \in Nat /\ DOMAIN rows = 1..Len(rows)
      /\ DOMAIN longer = 1..Len(rows) + 1
      /\ \A i \in DOMAIN rows : longer[i] = rows[i]
      /\ longer[Len(rows) + 1] = top + 1
  OBVIOUS
<1> HIDE DEF longer
<1>2. \A i \in DOMAIN longer : i \in DOMAIN rows \/ i = Len(rows) + 1
  BY <1>1
<1>3. \A i \in DOMAIN longer : longer[i] \in 1..top + 1
  <2>1. \A i \in DOMAIN rows : longer[i] \in 1..top + 1
    BY <1>1
  <2> QED
    BY <1>1, <1>2, <2>1
<1>4. ASSUME Ascends(rows)
      PROVE  Ascends(longer)
  <2> SUFFICES ASSUME NEW i \in DOMAIN longer, NEW j \in DOMAIN longer, i < j
               PROVE  longer[i] < longer[j]
    BY DEF Ascends
  <2>1. i \in DOMAIN rows
    BY <1>1
  <2>2. CASE j \in DOMAIN rows
    BY <1>1, <1>4, <2>1, <2>2 DEF Ascends
  <2>3. CASE j = Len(rows) + 1
    BY <1>1, <2>1, <2>3
  <2> QED
    BY <1>2, <2>2, <2>3
<1>5. ASSUME NEW cursor \in Nat, NEW r, Ahead(name, rows, cursor, r)
      PROVE  Ahead(name, longer, cursor, r)
  <2>1. DOMAIN rows \subseteq DOMAIN longer
    BY <1>1
  <2> QED
    BY <1>1, <1>5, <2>1 DEF Ahead
<1>6. ASSUME NEW cursor \in Nat, NEW read,
             Passed(name, rows, top, cursor, read)
      PROVE  Passed(name, longer, top + 1, cursor, read)
  <2>1. Start(name, cursor) \in Nat
    BY StartTyped
  <2>2. CASE name = "shopify"
    <3>1. /\ cursor <= top
          /\ \A i \in DOMAIN rows : rows[i] <= cursor => rows[i] \in read
      BY <1>6, <2>2 DEF Passed
    <3>2. \A i \in DOMAIN rows : longer[i] <= cursor => longer[i] \in read
      BY <1>1, <3>1
    <3>3. ~(longer[Len(rows) + 1] <= cursor)
      BY <1>1, <3>1
    <3> QED
      BY <1>2, <2>2, <3>1, <3>2, <3>3 DEF Passed
  <2>3. CASE name # "shopify"
    <3> DEFINE start == Start(name, cursor)
    <3>1. /\ start <= Len(rows)
          /\ \A i \in DOMAIN rows : i <= start => rows[i] \in read
      BY <1>6, <2>3 DEF Passed
    <3> HIDE DEF start
    <3>2. \A i \in DOMAIN rows : i <= start => longer[i] \in read
      BY <1>1, <3>1
    <3>3. start \in Nat
      BY <2>1 DEF start
    <3>4. ~(Len(rows) + 1 <= start) /\ start <= Len(longer)
      BY <1>1, <3>1, <3>3
    <3>5. \A i \in DOMAIN longer : i <= start => longer[i] \in read
      BY <1>2, <3>2, <3>4
    <3> QED
      BY <2>3, <3>4, <3>5 DEF Passed, start
  <2> QED
    BY <2>2, <2>3
<1>7. longer \in Seq(Nat)
  BY <1>1
<1> QED
  BY <1>3, <1>4, <1>5, <1>6, <1>7 DEF longer

LEMMA RowPrepended ==
    ASSUME NEW name, NEW rows \in Seq(Nat), NEW top \in Nat,
           \A i \in DOMAIN rows : rows[i] \in 1..top
    PROVE  LET longer == <<top + 1>> \o rows
           IN /\ longer \in Seq(Nat)
              /\ \A i \in DOMAIN longer : longer[i] \in 1..top + 1
              /\ Descends(rows) => Descends(longer)
              /\ \A cursor \in Nat : \A r :
                   Ahead(name, rows, cursor, r)
                     => Ahead(name, longer, cursor, r)
<1> DEFINE longer == <<top + 1>> \o rows
<1>1. /\ longer \in Seq(Nat)
      /\ Len(rows) \in Nat /\ DOMAIN rows = 1..Len(rows)
      /\ DOMAIN longer = 1..Len(rows) + 1
      /\ \A i \in DOMAIN rows : longer[i + 1] = rows[i]
      /\ longer[1] = top + 1
  OBVIOUS
<1> HIDE DEF longer
<1>2. \A i \in DOMAIN longer :
        i # 1 => /\ i - 1 \in DOMAIN rows
                 /\ longer[i] = rows[i - 1]
  <2> SUFFICES ASSUME NEW i \in DOMAIN longer, i # 1
               PROVE  i - 1 \in DOMAIN rows /\ longer[i] = rows[i - 1]
    OBVIOUS
  <2>1. i - 1 \in DOMAIN rows /\ (i - 1) + 1 = i
    BY <1>1
  <2> QED
    BY <1>1, <2>1
<1>3. \A i \in DOMAIN longer : longer[i] \in 1..top + 1
  <2>1. \A i \in DOMAIN rows : rows[i] \in 1..top + 1
    OBVIOUS
  <2> QED
    BY <1>1, <1>2, <2>1, SMTT(60)
<1>4. ASSUME Descends(rows)
      PROVE  Descends(longer)
  <2> SUFFICES ASSUME NEW i \in DOMAIN longer, NEW j \in DOMAIN longer, i < j
               PROVE  longer[j] < longer[i]
    BY DEF Descends
  <2>1. j - 1 \in DOMAIN rows /\ longer[j] = rows[j - 1]
    BY <1>1, <1>2
  <2>2. CASE i = 1
    BY <1>1, <2>1, <2>2
  <2>3. CASE i # 1
    BY <1>1, <1>2, <1>4, <2>1, <2>3 DEF Descends
  <2> QED
    BY <1>2, <2>2, <2>3
<1>5. ASSUME NEW cursor \in Nat, NEW r, Ahead(name, rows, cursor, r)
      PROVE  Ahead(name, longer, cursor, r)
  <2>1. PICK i \in DOMAIN rows :
          /\ rows[i] = r
          /\ name = "shopify" => r > cursor
          /\ name \in Older => cursor = 0 \/ r < cursor
          /\ name \notin ByRow => i > Start(name, cursor)
    BY <1>5 DEF Ahead
  <2>2. i + 1 \in DOMAIN longer /\ longer[i + 1] = r
    BY <1>1, <2>1, SMTT(60)
  <2>3. name \notin ByRow => i + 1 > Start(name, cursor)
    BY <1>1, <2>1, StartTyped
  <2> QED
    BY <2>1, <2>2, <2>3 DEF Ahead
<1>6. longer \in Seq(Nat)
  BY <1>1
<1> QED
  BY <1>3, <1>4, <1>5, <1>6 DEF longer

\* A row less.
LEMMA RowRemoved ==
    ASSUME NEW rows \in Seq(Nat), NEW k \in DOMAIN rows
    PROVE  LET shorter == SubSeq(rows, 1, k - 1)
                            \o SubSeq(rows, k + 1, Len(rows))
           IN /\ shorter \in Seq(Nat)
              /\ \A i \in DOMAIN shorter : shorter[i] \in Rows(rows)
              /\ Ascends(rows) => Ascends(shorter)
              /\ Descends(rows) => Descends(shorter)
              /\ Rows(rows) \ {rows[k]} \subseteq Rows(shorter)
<1> DEFINE n == Len(rows)
           front == SubSeq(rows, 1, k - 1)
           back == SubSeq(rows, k + 1, n)
           shorter == front \o back
           from(i) == IF i < k THEN i ELSE i + 1
<1>1. /\ n \in Nat /\ DOMAIN rows = 1..n /\ k \in 1..n
      /\ \A i \in 1..n : rows[i] \in Nat
  OBVIOUS
<1>2. /\ front \in Seq(Nat) /\ Len(front) = k - 1
      /\ \A i \in 1..k - 1 : front[i] = rows[i]
  <2> HIDE DEF n
  <2>1. 1 \in Int /\ k - 1 \in Int /\ \A i \in 1..k - 1 : rows[i] \in Nat
    BY <1>1
  <2>2. /\ SubSeq(rows, 1, k - 1) \in Seq(Nat)
        /\ Len(SubSeq(rows, 1, k - 1))
             = (IF 1 <= k - 1 THEN (k - 1) - 1 + 1 ELSE 0)
        /\ \A i \in 1..(k - 1) - 1 + 1 :
             SubSeq(rows, 1, k - 1)[i] = rows[1 + i - 1]
    BY <2>1, SubSeqProperties
  <2>3. /\ (k - 1) - 1 + 1 = k - 1
        /\ \A i \in 1..k - 1 : 1 + i - 1 = i
    BY <1>1
  <2> QED
    BY <1>1, <2>2, <2>3
<1>3. /\ back \in Seq(Nat) /\ Len(back) = n - k
      /\ \A i \in 1..n - k : back[i] = rows[k + i]
  <2> HIDE DEF n
  <2>1. k + 1 \in Int /\ n \in Int /\ \A i \in k + 1..n : rows[i] \in Nat
    BY <1>1
  <2>2. /\ SubSeq(rows, k + 1, n) \in Seq(Nat)
        /\ Len(SubSeq(rows, k + 1, n))
             = (IF k + 1 <= n THEN n - (k + 1) + 1 ELSE 0)
        /\ \A i \in 1..n - (k + 1) + 1 :
             SubSeq(rows, k + 1, n)[i] = rows[k + 1 + i - 1]
    BY <2>1, SubSeqProperties, SMTT(60)
  <2>3. /\ n - (k + 1) + 1 = n - k
        /\ \A i \in 1..n - k : k + 1 + i - 1 = k + i
        /\ (IF k + 1 <= n THEN n - (k + 1) + 1 ELSE 0) = n - k
    BY <1>1
  <2> HIDE DEF back
  <2>4. back = SubSeq(rows, k + 1, n)
    BY DEF back
  <2> QED
    BY <2>2, <2>3, <2>4
<1> HIDE DEF front, back, n
<1>4. /\ shorter \in Seq(Nat) /\ Len(shorter) = (k - 1) + (n - k)
      /\ \A i \in 1..k - 1 : shorter[i] = front[i]
      /\ \A i \in 1..n - k : shorter[(k - 1) + i] = back[i]
  <2>1. /\ front \o back \in Seq(Nat)
        /\ Len(front \o back) = Len(front) + Len(back)
        /\ \A i \in 1..Len(front) + Len(back) :
             (front \o back)[i] = IF i <= Len(front) THEN front[i]
                                  ELSE back[i - Len(front)]
    BY <1>2, <1>3, ConcatProperties
  <2> HIDE DEF shorter
  <2>2. /\ shorter \in Seq(Nat) /\ Len(shorter) = (k - 1) + (n - k)
        /\ \A i \in 1..(k - 1) + (n - k) :
             shorter[i] = IF i <= k - 1 THEN front[i] ELSE back[i - (k - 1)]
    BY <1>2, <1>3, <2>1 DEF shorter
  <2>3. \A i \in 1..k - 1 : i \in 1..(k - 1) + (n - k)
    BY <1>1
  <2>4. \A i \in 1..n - k : /\ (k - 1) + i \in 1..(k - 1) + (n - k)
                            /\ ~((k - 1) + i <= k - 1)
                            /\ ((k - 1) + i) - (k - 1) = i
    BY <1>1, SMTT(60)
  <2>5. \A i \in 1..k - 1 : shorter[i] = front[i]
    BY <1>1, <2>2, <2>3, SMTT(60)
  <2>6. ASSUME NEW i \in 1..n - k
        PROVE  shorter[(k - 1) + i] = back[i]
    <3> DEFINE j == (k - 1) + i
    <3>1. j \in 1..(k - 1) + (n - k) /\ ~(j <= k - 1) /\ j - (k - 1) = i
      BY <2>4
    <3> HIDE DEF j
    <3>2. shorter[j] = back[j - (k - 1)]
      BY <2>2, <3>1
    <3> QED
      BY <3>1, <3>2 DEF j
  <2> QED
    BY <2>2, <2>5, <2>6
<1> HIDE DEF shorter
<1>5. DOMAIN shorter = 1..n - 1
  BY <1>1, <1>4
<1>6. ASSUME NEW i \in 1..n - 1
      PROVE  /\ from(i) \in 1..n
             /\ shorter[i] = rows[from(i)]
  <2>1. CASE i < k
    <3>1. i \in 1..k - 1 /\ i \in 1..n /\ from(i) = i
      BY <1>1, <2>1
    <3> QED
      BY <1>2, <1>4, <3>1
  <2>2. CASE ~(i < k)
    <3> DEFINE d == i - (k - 1)
    <3>1. /\ d \in 1..n - k /\ (k - 1) + d = i
          /\ k + d = i + 1 /\ i + 1 \in 1..n /\ from(i) = i + 1
      BY <1>1, <2>2
    <3> HIDE DEF d
    <3>2. back[d] = rows[k + d] /\ shorter[(k - 1) + d] = back[d]
      BY <1>3, <1>4, <3>1
    <3> QED
      BY <3>1, <3>2
  <2> QED
    BY <2>1, <2>2
<1>7. \A i, j \in 1..n - 1 : i < j => from(i) < from(j)
  BY <1>1
<1>8. \A i \in DOMAIN shorter : shorter[i] \in Rows(rows)
  BY <1>1, <1>5, <1>6 DEF Rows
<1>9. Ascends(rows) => Ascends(shorter)
  <2> HIDE DEF from
  <2> QED
    BY <1>1, <1>5, <1>6, <1>7 DEF Ascends
<1>10. Descends(rows) => Descends(shorter)
  <2> HIDE DEF from
  <2> QED
    BY <1>1, <1>5, <1>6, <1>7 DEF Descends
<1>11. ASSUME NEW j \in 1..n, j # k
       PROVE  rows[j] \in Rows(shorter)
  <2>1. CASE j < k
    <3>1. j \in 1..n - 1 /\ from(j) = j
      BY <1>1, <2>1
    <3> QED
      BY <1>5, <1>6, <3>1 DEF Rows
  <2>2. CASE j > k
    <3>1. j - 1 \in 1..n - 1 /\ from(j - 1) = j
      BY <1>1, <2>2
    <3> HIDE DEF from
    <3> QED
      BY <1>5, <1>6, <3>1 DEF Rows
  <2> QED
    BY <1>1, <1>11, <2>1, <2>2
<1>12. Rows(rows) \ {rows[k]} \subseteq Rows(shorter)
  <2> SUFFICES ASSUME NEW j \in 1..n, rows[j] # rows[k]
               PROVE  rows[j] \in Rows(shorter)
    BY <1>1 DEF Rows
  <2>1. j # k
    OBVIOUS
  <2> QED
    BY <1>11, <2>1
<1>13. shorter \in Seq(Nat)
  BY <1>4
<1> QED
  BY <1>8, <1>9, <1>10, <1>12, <1>13 DEF shorter, front, back, n

\* Where rows are named or come all at once, nothing else moves with it.
LEMMA SteadyRemoved ==
    ASSUME NEW name \in Steady \ Filtered, NEW top \in Nat,
           NEW rows \in Seq(Nat), NEW shorter \in Seq(Nat), NEW gone_row,
           \A i \in DOMAIN rows : rows[i] > 0,
           \A i \in DOMAIN shorter : shorter[i] \in Rows(rows),
           Rows(rows) \ {gone_row} \subseteq Rows(shorter),
           NEW cursor \in Nat, name \in CursorLess => cursor = 0
    PROVE  /\ name \notin Older =>
                \A read : Passed(name, rows, top, cursor, read)
                            => Passed(name, shorter, top, cursor, read)
           /\ \A r : Ahead(name, rows, cursor, r) /\ r # gone_row
                       => Ahead(name, shorter, cursor, r)
<1>1. name \in ByRow \/ name \in AllAtOnce
  BY DEF Steady, ByRow, Older, Filtered
<1>2. \A r : Ahead(name, rows, cursor, r) /\ r # gone_row
               => r \in Rows(shorter)
  BY DEF Ahead, Rows
<1>3. ASSUME name \in AllAtOnce
      PROVE  /\ cursor = 0 /\ name \in ListingNames
             /\ \A i \in DOMAIN shorter : shorter[i] > 0
  <2>1. cursor = 0
    BY <1>3 DEF CursorLess
  <2>2. name \in ListingNames
    BY <1>3 DEF AllAtOnce, ListingNames
  <2> QED
    BY <2>1, <2>2 DEF Rows
<1>4. CASE name \in AllAtOnce
  BY <1>2, <1>3, <1>4, AtTheStart
<1>5. CASE name \in ByRow
  <2>1. ASSUME NEW r, Ahead(name, rows, cursor, r), r # gone_row
        PROVE  Ahead(name, shorter, cursor, r)
    <3>1. PICK i \in DOMAIN shorter : shorter[i] = r
      BY <1>2, <2>1 DEF Rows
    <3>2. /\ name = "shopify" => r > cursor
          /\ name \in Older => cursor = 0 \/ r < cursor
      BY <2>1 DEF Ahead
    <3> QED
      BY <1>5, <3>1, <3>2 DEF Ahead
  <2>2. ASSUME name \notin Older, NEW read,
               Passed(name, rows, top, cursor, read)
        PROVE  Passed(name, shorter, top, cursor, read)
    <3>1. name = "shopify"
      BY <1>5, <2>2 DEF ByRow
    <3>2. \A r \in Rows(rows) : r <= cursor => r \in read
      BY <2>2, <3>1 DEF Passed, Rows
    <3> QED
      BY <2>2, <3>1, <3>2 DEF Passed
  <2> QED
    BY <2>1, <2>2
<1> QED
  BY <1>1, <1>4, <1>5

-----------------------------------------------------------------------------
(* The invariant of the walks                                              *)

\* The adapters of which something is proved: the listing is neither filtered
\* nor grouped.
Unfiltered == \A s \in Settings : s.name \notin Filtered

JobRecord == [stage: {"none", "resetting", "loaded", "read", "returned",
                      "pulling"},
              cursor: Nat, next: Nat, more: BOOLEAN]
WalkRecord == [owed: SUBSET Nat, got: SUBSET Nat]

\* Rows are numbered in the order of creation, which is that of the listing or
\* the reverse.
Ranked ==
    /\ created \in Nat /\ gone \in Nat
    /\ setting \in Settings
    /\ listing \in Seq(Nat)
    /\ \A i \in DOMAIN listing : listing[i] \in 1..created
    /\ setting.oldest_first => Ascends(listing)
    /\ ~setting.oldest_first => Descends(listing)

WalksTyped ==
    /\ sync \in Nat
    /\ job \in [Workers -> JobRecord]
    /\ walk \in [Workers -> WalkRecord]

\* Adapters without cursors leave none anywhere.
NoCursors ==
    setting.name \in CursorLess =>
      /\ sync = 0
      /\ \A w \in Workers : job[w].cursor = 0 /\ job[w].next = 0

\* NothingSkipped, of the cursors that are read and not saved yet as well.
NonePassed ==
    setting.oldest_first /\ InPlace =>
      /\ Passed(setting.name, listing, created, sync, seen)
      /\ \A w \in Workers :
           /\ Passed(setting.name, listing, created, job[w].cursor, seen)
           /\ Passed(setting.name, listing, created, job[w].next, seen)

\* What a walk has left to read is behind the cursor it goes on with.
Walking(name, rows, j, left) ==
    /\ j.stage \in {"none", "resetting"} => left = {}
    /\ j.stage \in {"loaded", "pulling"}
         => \A r \in left : Ahead(name, rows, j.cursor, r)
    /\ j.stage = "read" /\ j.more
         => j.next # 0 /\ \A r \in left : Ahead(name, rows, j.next, r)
    /\ j.stage = "returned" /\ j.more
         => \A r \in left : Ahead(name, rows, j.cursor, r)
    /\ j.stage \in {"read", "returned"} /\ ~j.more => left = {}

WalksOn ==
    setting.name \notin FirstPageOnly =>
      \A w \in Workers :
        Walking(setting.name, listing, job[w], walk[w].owed \ walk[w].got)

SyncInv == Ranked /\ WalksTyped /\ NoCursors /\ NonePassed /\ WalksOn

\* The order of the rows, as the adapters ask for it.
LEMMA NamesTyped ==
    ASSUME Unfiltered, Ranked
    PROVE  /\ setting.name \in ListingNames \ Filtered
           /\ setting.oldest_first \in BOOLEAN
           /\ setting.name = "shopify" => setting.oldest_first
           /\ setting.name \in Older \cup {"linkedin"}
                => ~setting.oldest_first
           /\ setting.name = "shopify" => Ascends(listing)
           /\ setting.name \in Older => Descends(listing)
           /\ \A i \in DOMAIN listing : listing[i] > 0
<1>1. /\ setting.name \in ListingNames \ Filtered
      /\ setting.oldest_first \in BOOLEAN
      /\ setting.name \in NewestFirst => ~setting.oldest_first
      /\ setting.name \in OldestFirst => setting.oldest_first
  BY SettingsAssumption DEF Unfiltered, Ranked, Setting
<1>2. \A i \in DOMAIN listing : listing[i] > 0
  BY DEF Ranked
<1> QED
  BY <1>1, <1>2, FamiliesApart DEF Ranked

LEMMA PassedMore ==
    ASSUME NEW name, NEW rows, NEW top, NEW cursor, NEW read, NEW more,
           read \subseteq more, Passed(name, rows, top, cursor, read)
    PROVE  Passed(name, rows, top, cursor, more)
BY DEF Passed

\* A step of one worker, on a listing that stays as it is.
LEMMA OneMoves ==
    ASSUME SyncInv, NEW w \in Workers, NEW j \in JobRecord,
           NEW k \in WalkRecord,
           UNCHANGED <<setting, listing, created, gone>>,
           job' = [job EXCEPT ![w] = j], walk' = [walk EXCEPT ![w] = k],
           sync' \in Nat, seen \subseteq seen',
           setting.name \in CursorLess
             => sync' = 0 /\ j.cursor = 0 /\ j.next = 0,
           setting.oldest_first /\ InPlace =>
             /\ Passed(setting.name, listing, created, sync', seen')
             /\ Passed(setting.name, listing, created, j.cursor, seen')
             /\ Passed(setting.name, listing, created, j.next, seen'),
           setting.name \notin FirstPageOnly
             => Walking(setting.name, listing, j, k.owed \ k.got)
    PROVE  SyncInv'
<1>1. /\ job'[w] = j /\ walk'[w] = k
      /\ \A v \in Workers : v # w => job'[v] = job[v] /\ walk'[v] = walk[v]
      /\ job' \in [Workers -> JobRecord]
      /\ walk' \in [Workers -> WalkRecord]
  BY DEF SyncInv, WalksTyped
<1>2. Ranked'
  BY DEF SyncInv, Ranked
<1>3. WalksTyped'
  BY <1>1 DEF WalksTyped
<1>4. NoCursors'
  BY <1>1 DEF SyncInv, NoCursors
<1>5. NonePassed'
  <2> SUFFICES ASSUME setting.oldest_first, InPlace
               PROVE  /\ Passed(setting.name, listing, created, sync', seen')
                      /\ \A v \in Workers :
                           /\ Passed(setting.name, listing, created,
                                     job'[v].cursor, seen')
                           /\ Passed(setting.name, listing, created,
                                     job'[v].next, seen')
    BY DEF NonePassed, InPlace
  <2>1. ASSUME NEW v \in Workers
        PROVE  /\ Passed(setting.name, listing, created, job'[v].cursor, seen')
               /\ Passed(setting.name, listing, created, job'[v].next, seen')
    <3>1. CASE v = w
      BY <1>1, <3>1
    <3>2. CASE v # w
      <4>1. /\ Passed(setting.name, listing, created, job[v].cursor, seen)
            /\ Passed(setting.name, listing, created, job[v].next, seen)
        BY DEF SyncInv, NonePassed
      <4> QED
        BY <1>1, <3>2, <4>1, PassedMore
    <3> QED
      BY <3>1, <3>2
  <2> QED
    BY <2>1
<1>6. WalksOn'
  BY <1>1 DEF SyncInv, WalksOn
<1> QED
  BY <1>2, <1>3, <1>4, <1>5, <1>6 DEF SyncInv

\* A worker that starts anew or stops, at the start or at the saved cursor.
LEMMA OneRestarts ==
    ASSUME SyncInv, Unfiltered, NEW w \in Workers,
           NEW stage \in {"none", "resetting", "loaded", "pulling"},
           NEW cursor \in {0, sync},
           UNCHANGED <<setting, listing, created, gone, seen>>,
           sync' \in {0, sync},
           job' = [job EXCEPT ![w] = At(stage, cursor)],
           \/ walk' = [walk EXCEPT ![w] = NoWalk]
           \/ /\ cursor = 0 /\ stage \in {"loaded", "pulling"}
              /\ walk' = [walk EXCEPT ![w] = Walk]
    PROVE  SyncInv'
<1>1. At(stage, cursor) \in JobRecord
      /\ At(stage, cursor).cursor = cursor /\ At(stage, cursor).next = 0
      /\ At(stage, cursor).stage = stage
  BY DEF At, JobRecord, SyncInv, WalksTyped
<1>2. /\ Rows(listing) \subseteq Nat
      /\ setting.name \in ListingNames
      /\ Listed(setting.name, Rows(listing)) = Rows(listing)
  <2>1. Rows(listing) \subseteq Nat
    BY DEF SyncInv, Ranked, Rows
  <2>2. setting.name \in ListingNames \ Filtered
    BY NamesTyped DEF SyncInv
  <2> QED
    BY <2>1, <2>2 DEF Listed, Filtered
<1>3. /\ \A read : Passed(setting.name, listing, created, 0, read)
      /\ \A r \in Rows(listing) : Ahead(setting.name, listing, 0, r)
  <2>1. \A i \in DOMAIN listing : listing[i] > 0
    BY NamesTyped DEF SyncInv
  <2>2. listing \in Seq(Nat) /\ created \in Nat
    BY DEF SyncInv, Ranked
  <2>3. PICK name \in ListingNames, rows \in Seq(Nat), top \in Nat :
          name = setting.name /\ rows = listing /\ top = created
    BY <1>2, <2>2
  <2>4. /\ \A read : Passed(name, rows, top, 0, read)
        /\ \A r \in Rows(rows) : Ahead(name, rows, 0, r)
    BY <2>1, <2>3, AtTheStart
  <2> QED
    BY <2>3, <2>4
<1>4. NoWalk \in WalkRecord /\ NoWalk.owed \ NoWalk.got = {}
  BY DEF NoWalk, WalkRecord
<1>5. Walk \in WalkRecord /\ Walk.owed \ Walk.got = Rows(listing)
  BY <1>2 DEF Walk, WalkRecord
<1>6. setting.name \in CursorLess => sync = 0 /\ cursor = 0
  BY DEF SyncInv, NoCursors
<1>7. setting.oldest_first /\ InPlace =>
        /\ Passed(setting.name, listing, created, sync', seen')
        /\ Passed(setting.name, listing, created, cursor, seen')
        /\ Passed(setting.name, listing, created, 0, seen')
  BY <1>3 DEF SyncInv, NonePassed
<1>8. CASE walk' = [walk EXCEPT ![w] = NoWalk]
  <2>1. Walking(setting.name, listing, At(stage, cursor),
                NoWalk.owed \ NoWalk.got)
    BY <1>1, <1>4 DEF Walking
  <2>2. PICK j \in JobRecord, k \in WalkRecord :
          j = At(stage, cursor) /\ k = NoWalk
    BY <1>1, <1>4
  <2>3. sync' \in Nat
    BY DEF SyncInv, WalksTyped
  <2> HIDE DEF SyncInv
  <2> QED
    BY <1>1, <1>6, <1>7, <1>8, <2>1, <2>2, <2>3, OneMoves
<1>9. CASE /\ cursor = 0 /\ stage \in {"loaded", "pulling"}
           /\ walk' = [walk EXCEPT ![w] = Walk]
  <2>1. Walking(setting.name, listing, At(stage, cursor),
                Walk.owed \ Walk.got)
    BY <1>1, <1>3, <1>5, <1>9 DEF Walking
  <2>2. PICK j \in JobRecord, k \in WalkRecord :
          j = At(stage, cursor) /\ k = Walk
    BY <1>1, <1>5
  <2>3. sync' \in Nat
    BY DEF SyncInv, WalksTyped
  <2> QED
    BY <1>1, <1>6, <1>7, <1>9, <2>1, <2>2, <2>3, OneMoves
<1> QED
  BY <1>8, <1>9

LEMMA InitSync ==
    ASSUME SyncInit, Unfiltered
    PROVE  SyncInv
<1>1. /\ listing \in Seq(Nat) /\ created = 0 /\ gone = 0 /\ sync = 0
      /\ DOMAIN listing = {} /\ setting \in Settings
      /\ job = [w \in Workers |-> NoJob] /\ walk = [w \in Workers |-> NoWalk]
  BY DEF SyncInit
<1>2. /\ NoJob \in JobRecord /\ NoJob.stage = "none"
      /\ NoJob.cursor = 0 /\ NoJob.next = 0 /\ NoJob.more = FALSE
  BY DEF NoJob, At, JobRecord
<1>3. NoWalk \in WalkRecord /\ NoWalk.owed \ NoWalk.got = {}
  BY DEF NoWalk, WalkRecord
<1>4. Ranked
  BY <1>1 DEF Ranked, Ascends, Descends
<1>5. WalksTyped
  BY <1>1, <1>2, <1>3 DEF WalksTyped
<1>6. NoCursors
  BY <1>1, <1>2 DEF NoCursors
<1>7. NonePassed
  <2>1. PICK name \in ListingNames, rows \in Seq(Nat), top \in Nat :
          name = setting.name /\ rows = listing /\ top = created
    BY <1>1, <1>4, NamesTyped
  <2>2. Passed(name, rows, top, 0, seen)
    BY <1>1, <2>1, AtTheStart
  <2> QED
    BY <1>1, <1>2, <2>1, <2>2 DEF NonePassed
<1>8. WalksOn
  <2>1. Walking(setting.name, listing, NoJob, NoWalk.owed \ NoWalk.got)
    BY <1>2, <1>3 DEF Walking
  <2> QED
    BY <1>1, <2>1 DEF WalksOn
<1> QED
  BY <1>4, <1>5, <1>6, <1>7, <1>8 DEF SyncInv

\* A walk with no more to read goes on over a listing that keeps what is behind
\* its cursors.
LEMMA WalksStill ==
    ASSUME NEW name, NEW rows, NEW longer, NEW j \in JobRecord,
           NEW left, NEW less, less \subseteq left,
           \A cursor \in {j.cursor, j.next} : \A r \in less :
             Ahead(name, rows, cursor, r) => Ahead(name, longer, cursor, r),
           Walking(name, rows, j, left)
    PROVE  Walking(name, longer, j, less)
<1>1. /\ \A r \in less : Ahead(name, rows, j.cursor, r)
                           => Ahead(name, longer, j.cursor, r)
      /\ \A r \in less : Ahead(name, rows, j.next, r)
                           => Ahead(name, longer, j.next, r)
  OBVIOUS
<1> QED
  BY <1>1 DEF Walking

LEMMA CreateKeepsSync ==
    ASSUME SyncInv, Unfiltered, Create
    PROVE  SyncInv'
<1>1. /\ created \in Nat /\ gone \in Nat /\ setting \in Settings
      /\ listing \in Seq(Nat)
      /\ \A i \in DOMAIN listing : listing[i] \in 1..created
      /\ setting.oldest_first => Ascends(listing)
      /\ ~setting.oldest_first => Descends(listing)
      /\ sync \in Nat /\ job \in [Workers -> JobRecord]
      /\ walk \in [Workers -> WalkRecord]
      /\ \A w \in Workers : job[w] \in JobRecord /\ job[w].cursor \in Nat
                            /\ job[w].next \in Nat
  BY DEF SyncInv, Ranked, WalksTyped, JobRecord
<1>2. /\ created' = created + 1
      /\ UNCHANGED <<setting, gone, sync, job, seen, walk>>
      /\ setting.oldest_first => listing' = Append(listing, created + 1)
      /\ ~setting.oldest_first => listing' = <<created + 1>> \o listing
  BY DEF Create
<1>3. PICK name \in {setting.name}, rows \in Seq(Nat), top \in Nat :
        name = setting.name /\ rows = listing /\ top = created
  BY <1>1
<1>4. \A i \in DOMAIN rows : rows[i] \in 1..top
  BY <1>1, <1>3
<1>5. /\ listing' \in Seq(Nat)
      /\ \A i \in DOMAIN listing' : listing'[i] \in 1..created'
      /\ setting.oldest_first => Ascends(listing')
      /\ ~setting.oldest_first => Descends(listing')
      /\ \A cursor \in Nat : \A r :
           Ahead(setting.name, listing, cursor, r)
             => Ahead(setting.name, listing', cursor, r)
      /\ setting.oldest_first =>
           \A cursor \in Nat : \A read :
             Passed(setting.name, listing, created, cursor, read)
               => Passed(setting.name, listing', created', cursor, read)
  <2>1. CASE setting.oldest_first
    <3>1. listing' = Append(rows, top + 1) /\ created' = top + 1
      BY <1>2, <1>3, <2>1
    <3>2. /\ listing' \in Seq(Nat)
          /\ \A i \in DOMAIN listing' : listing'[i] \in 1..top + 1
          /\ Ascends(rows) => Ascends(listing')
          /\ \A cursor \in Nat : \A r :
               Ahead(name, rows, cursor, r)
                 => Ahead(name, listing', cursor, r)
          /\ \A cursor \in Nat : \A read :
               Passed(name, rows, top, cursor, read)
                 => Passed(name, listing', top + 1, cursor, read)
      BY <1>4, <3>1, RowAppended
    <3> QED
      BY <1>1, <1>3, <2>1, <3>1, <3>2
  <2>2. CASE ~setting.oldest_first
    <3>1. listing' = <<top + 1>> \o rows /\ created' = top + 1
      BY <1>2, <1>3, <2>2
    <3>2. /\ listing' \in Seq(Nat)
          /\ \A i \in DOMAIN listing' : listing'[i] \in 1..top + 1
          /\ Descends(rows) => Descends(listing')
          /\ \A cursor \in Nat : \A r :
               Ahead(name, rows, cursor, r)
                 => Ahead(name, listing', cursor, r)
      BY <1>4, <3>1, RowPrepended
    <3> QED
      BY <1>1, <1>3, <2>2, <3>1, <3>2
  <2> QED
    BY <2>1, <2>2
<1>6. Ranked'
  <2>1. created' \in Nat
    BY <1>1, <1>2
  <2> QED
    BY <1>1, <1>2, <1>5, <2>1 DEF Ranked
<1>7. WalksTyped' /\ NoCursors'
  BY <1>2 DEF SyncInv, WalksTyped, NoCursors
<1>8. NonePassed'
  BY <1>1, <1>2, <1>5 DEF SyncInv, NonePassed, InPlace
<1>9. WalksOn'
  <2> SUFFICES ASSUME setting.name \notin FirstPageOnly, NEW w \in Workers
               PROVE  Walking(setting.name, listing', job[w],
                              walk[w].owed \ walk[w].got)
    BY <1>2 DEF WalksOn
  <2>1. Walking(setting.name, listing, job[w], walk[w].owed \ walk[w].got)
    BY DEF SyncInv, WalksOn
  <2>2. job[w] \in JobRecord /\ job[w].cursor \in Nat /\ job[w].next \in Nat
    BY <1>1
  <2> QED
    BY <1>5, <2>1, <2>2, WalksStill
<1> QED
  BY <1>6, <1>7, <1>8, <1>9 DEF SyncInv

LEMMA RemoveKeepsSync ==
    ASSUME SyncInv, Unfiltered, NEW k, Remove(k)
    PROVE  SyncInv'
<1>1. /\ created \in Nat /\ gone \in Nat /\ setting \in Settings
      /\ listing \in Seq(Nat)
      /\ \A i \in DOMAIN listing : listing[i] \in 1..created
      /\ setting.oldest_first => Ascends(listing)
      /\ ~setting.oldest_first => Descends(listing)
      /\ sync \in Nat /\ job \in [Workers -> JobRecord]
      /\ walk \in [Workers -> WalkRecord]
      /\ \A w \in Workers : /\ job[w] \in JobRecord /\ job[w].cursor \in Nat
                            /\ job[w].next \in Nat
                            /\ walk[w].owed \in SUBSET Nat
                            /\ walk[w].got \in SUBSET Nat
  BY DEF SyncInv, Ranked, WalksTyped, JobRecord, WalkRecord
<1>2. /\ k \in DOMAIN listing /\ gone' = gone + 1
      /\ listing' = SubSeq(listing, 1, k - 1)
                       \o SubSeq(listing, k + 1, Len(listing))
      /\ UNCHANGED <<setting, created, sync, job, seen>>
      /\ walk' = [w \in Workers |->
           [owed |-> IF setting.name \in Steady
                     THEN walk[w].owed \ {listing[k]} ELSE {},
            got  |-> walk[w].got]]
  BY DEF Remove
<1>3. PICK rows \in Seq(Nat) : rows = listing
  BY <1>1
<1>4. /\ listing' \in Seq(Nat)
      /\ \A i \in DOMAIN listing' : listing'[i] \in Rows(listing)
      /\ Ascends(listing) => Ascends(listing')
      /\ Descends(listing) => Descends(listing')
      /\ Rows(listing) \ {listing[k]} \subseteq Rows(listing')
  BY <1>2, <1>3, RowRemoved
<1>5. Ranked'
  <2>1. \A i \in DOMAIN listing' : listing'[i] \in 1..created
    BY <1>1, <1>4 DEF Rows
  <2>2. gone' \in Nat
    BY <1>1, <1>2
  <2>3. UNCHANGED <<setting, created>>
    BY <1>2
  <2> QED
    BY <1>1, <1>4, <2>1, <2>2, <2>3 DEF Ranked
<1>6. WalksTyped'
  <2>1. ASSUME NEW w \in Workers
        PROVE  [owed |-> IF setting.name \in Steady
                         THEN walk[w].owed \ {listing[k]} ELSE {},
                got  |-> walk[w].got] \in WalkRecord
    BY <1>1 DEF WalkRecord
  <2>2. walk' \in [Workers -> WalkRecord]
    BY <1>2, <2>1
  <2> QED
    BY <1>1, <1>2, <2>2 DEF WalksTyped
<1>7. NoCursors'
  BY <1>2 DEF SyncInv, NoCursors
<1>8. /\ \A i \in DOMAIN listing : listing[i] > 0
      /\ setting.name \in ListingNames \ Filtered
      /\ setting.name \in Older => ~setting.oldest_first
  BY NamesTyped DEF SyncInv
<1>9. ASSUME setting.name \in Steady, NEW cursor \in Nat,
             setting.name \in CursorLess => cursor = 0
      PROVE  /\ setting.oldest_first =>
                  \A read :
                    Passed(setting.name, listing, created, cursor, read)
                      => Passed(setting.name, listing', created, cursor, read)
             /\ \A r : Ahead(setting.name, listing, cursor, r)
                         /\ r # listing[k]
                         => Ahead(setting.name, listing', cursor, r)
  <2>1. PICK name \in Steady \ Filtered, top \in Nat, shorter \in Seq(Nat),
             row \in {listing[k]} :
          /\ name = setting.name /\ top = created /\ shorter = listing'
          /\ row = listing[k]
    BY <1>1, <1>4, <1>8, <1>9
  <2>2. /\ \A i \in DOMAIN rows : rows[i] > 0
        /\ \A i \in DOMAIN shorter : shorter[i] \in Rows(rows)
        /\ Rows(rows) \ {row} \subseteq Rows(shorter)
        /\ name \in CursorLess => cursor = 0
    BY <1>3, <1>4, <1>8, <1>9, <2>1
  <2>3. /\ name \notin Older =>
             \A read : Passed(name, rows, top, cursor, read)
                         => Passed(name, shorter, top, cursor, read)
        /\ \A r : Ahead(name, rows, cursor, r) /\ r # row
                    => Ahead(name, shorter, cursor, r)
    BY <2>2, SteadyRemoved
  <2> QED
    BY <1>3, <1>8, <2>1, <2>3
<1>10. setting.name \in CursorLess =>
         /\ sync = 0
         /\ \A w \in Workers : job[w].cursor = 0 /\ job[w].next = 0
  BY DEF SyncInv, NoCursors
<1>11. NonePassed'
  <2> SUFFICES ASSUME setting.oldest_first, InPlace'
               PROVE  /\ Passed(setting.name, listing', created, sync, seen)
                      /\ \A w \in Workers :
                           /\ Passed(setting.name, listing', created,
                                     job[w].cursor, seen)
                           /\ Passed(setting.name, listing', created,
                                     job[w].next, seen)
    BY <1>2 DEF NonePassed
  <2>1. setting.name \in Steady
    BY <1>1, <1>2 DEF InPlace
  <2>2. /\ Passed(setting.name, listing, created, sync, seen)
        /\ \A w \in Workers :
             /\ Passed(setting.name, listing, created, job[w].cursor, seen)
             /\ Passed(setting.name, listing, created, job[w].next, seen)
    BY <2>1 DEF SyncInv, NonePassed, InPlace
  <2>3. \A cursor \in Nat :
          /\ setting.name \in CursorLess => cursor = 0
          /\ Passed(setting.name, listing, created, cursor, seen)
          => Passed(setting.name, listing', created, cursor, seen)
    BY <1>9, <2>1
  <2> QED
    BY <1>1, <1>10, <2>2, <2>3
<1>12. WalksOn'
  <2> SUFFICES ASSUME setting.name \notin FirstPageOnly, NEW w \in Workers
               PROVE  Walking(setting.name, listing', job[w],
                              walk'[w].owed \ walk'[w].got)
    BY <1>2 DEF WalksOn
  <2> DEFINE left == walk[w].owed \ walk[w].got
             less == walk'[w].owed \ walk'[w].got
  <2>1. Walking(setting.name, listing, job[w], left)
    BY DEF SyncInv, WalksOn
  <2>2. job[w] \in JobRecord /\ job[w].cursor \in Nat /\ job[w].next \in Nat
    BY <1>1
  <2>3. CASE setting.name \in Steady
    <3>1. less \subseteq left /\ listing[k] \notin less
      BY <1>2, <2>3
    <3>2. \A cursor \in {job[w].cursor, job[w].next} :
            /\ cursor \in Nat
            /\ setting.name \in CursorLess => cursor = 0
      BY <1>10, <2>2
    <3> HIDE DEF left, less
    <3>3. \A cursor \in {job[w].cursor, job[w].next} : \A r \in less :
            Ahead(setting.name, listing, cursor, r)
              => Ahead(setting.name, listing', cursor, r)
      BY <1>9, <2>3, <3>1, <3>2
    <3>4. Walking(setting.name, listing', job[w], less)
      BY <2>1, <2>2, <3>1, <3>3, WalksStill
    <3> QED
      BY <3>4 DEF less
  <2>4. CASE setting.name \notin Steady
    <3>1. less = {}
      BY <1>2, <2>4
    <3> HIDE DEF left, less
    <3>2. Walking(setting.name, listing', job[w], less)
      BY <2>1, <2>2, <3>1, WalksStill
    <3> QED
      BY <3>2 DEF less
  <2> QED
    BY <2>3, <2>4
<1> QED
  BY <1>5, <1>6, <1>7, <1>11, <1>12 DEF SyncInv

\* The record of a worker that has read a page.
LEMMA RecordRead ==
    ASSUME NEW r \in JobRecord, NEW next \in Nat, NEW more \in BOOLEAN
    PROVE  [r EXCEPT !.stage = "read", !.next = next, !.more = more]
             = [stage |-> "read", cursor |-> r.cursor, next |-> next,
                more |-> more]
<1> DEFINE q == [r EXCEPT !.stage = "read", !.next = next, !.more = more]
<1>1. /\ q \in JobRecord
      /\ q.stage = "read" /\ q.cursor = r.cursor /\ q.next = next
      /\ q.more = more
  BY DEF JobRecord
<1> HIDE DEF q
<1>2. q = [stage |-> q.stage, cursor |-> q.cursor, next |-> q.next,
           more |-> q.more]
  BY <1>1 DEF JobRecord
<1> QED
  BY <1>1, <1>2 DEF q

\* The page a worker reads.
LEMMA PageIsNext ==
    ASSUME SyncInv, Unfiltered, NEW w \in Workers
    PROVE  Advances(setting.name, listing, created, job[w].cursor,
                    Listing(setting.name, listing, job[w].cursor))
<1>1. /\ created \in Nat /\ listing \in Seq(Nat)
      /\ \A i \in DOMAIN listing : listing[i] \in 1..created
      /\ job[w].cursor \in Nat
  BY DEF SyncInv, Ranked, WalksTyped, JobRecord
<1>2. /\ setting.name \in ListingNames \ Filtered
      /\ setting.name = "shopify" => Ascends(listing)
      /\ setting.name \in Older => Descends(listing)
  BY NamesTyped DEF SyncInv
<1>3. setting.name \in CursorLess => job[w].cursor = 0
  BY DEF SyncInv, NoCursors
<1>4. PICK name \in ListingNames \ Filtered, rows \in Seq(Nat), top \in Nat,
           cursor \in Nat :
        /\ name = setting.name /\ rows = listing /\ top = created
        /\ cursor = job[w].cursor
  BY <1>1, <1>2
<1>5. Advances(name, rows, top, cursor, Listing(name, rows, cursor))
  BY <1>1, <1>2, <1>3, <1>4, PageAdvances
<1> QED
  BY <1>4, <1>5

\* What the invariant says of one worker.
LEMMA OfOne ==
    ASSUME SyncInv, NEW w \in Workers
    PROVE  /\ job[w] \in JobRecord /\ walk[w] \in WalkRecord
           /\ sync \in Nat
           /\ setting.name \in CursorLess
                => sync = 0 /\ job[w].cursor = 0 /\ job[w].next = 0
           /\ setting.oldest_first /\ InPlace =>
                /\ Passed(setting.name, listing, created, sync, seen)
                /\ Passed(setting.name, listing, created, job[w].cursor, seen)
                /\ Passed(setting.name, listing, created, job[w].next, seen)
           /\ setting.name \notin FirstPageOnly
                => Walking(setting.name, listing, job[w],
                           walk[w].owed \ walk[w].got)
           /\ \A read : Passed(setting.name, listing, created, 0, read)
<1>1. \A i \in DOMAIN listing : listing[i] > 0
  BY DEF SyncInv, Ranked
<1>2. listing \in Seq(Nat) /\ created \in Nat /\ setting.name \in ListingNames
  BY SettingsAssumption DEF SyncInv, Ranked, Setting
<1>3. PICK name \in ListingNames, rows \in Seq(Nat), top \in Nat :
        name = setting.name /\ rows = listing /\ top = created
  BY <1>2
<1>4. \A read : Passed(name, rows, top, 0, read)
  BY <1>1, <1>3, AtTheStart
<1> QED
  BY <1>3, <1>4 DEF SyncInv, WalksTyped, NoCursors, NonePassed, WalksOn

LEMMA ReadKeepsSync ==
    ASSUME SyncInv, Unfiltered, NEW w \in Workers, Read(w)
    PROVE  SyncInv'
<1> DEFINE answer == Listing(setting.name, listing, job[w].cursor)
           page == Rows(answer.items)
           j == [stage |-> "read", cursor |-> job[w].cursor,
                 next |-> answer.cursor, more |-> answer.has_more]
           k == [owed |-> walk[w].owed, got |-> walk[w].got \cup page]
<1>1. Advances(setting.name, listing, created, job[w].cursor, answer)
  BY PageIsNext
<1>2. /\ job[w] \in JobRecord /\ walk[w] \in WalkRecord
      /\ job[w].stage = "loaded" /\ Rows(listing) \subseteq Nat
  <2>1. Rows(listing) \subseteq Nat
    BY DEF SyncInv, Ranked, Rows
  <2> QED
    BY <2>1, OfOne DEF Read
<1>3. /\ UNCHANGED <<setting, listing, created, gone, sync>>
      /\ job' = [job EXCEPT ![w].stage = "read", ![w].next = answer.cursor,
                            ![w].more = answer.has_more]
      /\ seen' = seen \cup page
      /\ walk' = [walk EXCEPT ![w].got = @ \cup page]
  BY DEF Read, Rows
<1>4. answer.cursor \in Nat /\ answer.has_more \in BOOLEAN
      /\ page \subseteq Nat
  BY <1>1, <1>2 DEF Advances
<1> HIDE DEF answer
<1>5. job' = [job EXCEPT ![w] = j] /\ j \in JobRecord
  <2>1. [job[w] EXCEPT !.stage = "read", !.next = answer.cursor,
                       !.more = answer.has_more] = j
    BY <1>2, <1>4, RecordRead
  <2>2. j \in JobRecord
    BY <1>2, <1>4 DEF JobRecord
  <2> QED
    BY <1>3, <2>1, <2>2
<1>6. walk' = [walk EXCEPT ![w] = k] /\ k \in WalkRecord
  <2>1. [walk[w] EXCEPT !.got = @ \cup page] = k
    BY <1>2, SMTT(60) DEF WalkRecord
  <2>2. k \in WalkRecord
    BY <1>2, <1>4 DEF WalkRecord
  <2> QED
    BY <1>3, <2>1, <2>2
<1>7. /\ j.stage = "read" /\ j.cursor = job[w].cursor
      /\ j.next = answer.cursor /\ j.more = answer.has_more
      /\ k.owed \ k.got = (walk[w].owed \ walk[w].got) \ page
  OBVIOUS
<1> HIDE DEF j, k
<1>8. setting.name \in CursorLess => sync' = 0 /\ j.cursor = 0 /\ j.next = 0
  <2>1. setting.name \in CursorLess => answer.cursor = 0
    BY <1>1 DEF Advances
  <2> QED
    BY <1>3, <1>7, <2>1, OfOne
<1>9. ASSUME setting.oldest_first, InPlace
      PROVE  /\ Passed(setting.name, listing, created, sync', seen')
             /\ Passed(setting.name, listing, created, j.cursor, seen')
             /\ Passed(setting.name, listing, created, j.next, seen')
  <2>1. setting.name \notin Older
    BY <1>9, NamesTyped DEF SyncInv
  <2>2. /\ Passed(setting.name, listing, created, sync, seen)
        /\ Passed(setting.name, listing, created, job[w].cursor, seen)
    BY <1>9, OfOne
  <2>3. Passed(setting.name, listing, created, answer.cursor, seen \cup page)
    BY <1>1, <2>1, <2>2 DEF Advances
  <2>4. seen \subseteq seen'
    BY <1>3
  <2> HIDE DEF page
  <2> QED
    BY <1>3, <1>7, <2>2, <2>3, <2>4, PassedMore
<1>10. ASSUME setting.name \notin FirstPageOnly
       PROVE  Walking(setting.name, listing, j, k.owed \ k.got)
  <2> DEFINE left == walk[w].owed \ walk[w].got
  <2>1. \A r \in left : Ahead(setting.name, listing, job[w].cursor, r)
    <3>1. Walking(setting.name, listing, job[w], left)
      BY <1>10, OfOne
    <3> QED
      BY <1>2, <3>1 DEF Walking
  <2> HIDE DEF left
  <2>2. /\ answer.has_more => answer.cursor # 0
        /\ \A r \in left :
             r \in page \/ (/\ answer.has_more
                            /\ Ahead(setting.name, listing, answer.cursor, r))
    BY <1>1, <1>10, <2>1 DEF Advances
  <2>3. k.owed \ k.got = left \ page
    BY <1>7 DEF left
  <2> HIDE DEF page
  <2>4. \A r \in left \ page : /\ answer.has_more
                               /\ Ahead(setting.name, listing, answer.cursor, r)
    BY <2>2
  <2> QED
    BY <1>7, <2>2, <2>3, <2>4 DEF Walking
<1>11. sync' \in Nat /\ seen \subseteq seen'
  BY <1>3, OfOne
<1>12. UNCHANGED <<setting, listing, created, gone>>
  BY <1>3
<1>13. /\ job' = [job EXCEPT ![w] = j] /\ walk' = [walk EXCEPT ![w] = k]
       /\ j \in JobRecord /\ k \in WalkRecord
  BY <1>5, <1>6
<1> HIDE DEF page, SyncInv
<1> QED
  BY <1>8, <1>9, <1>10, <1>11, <1>12, <1>13, OneMoves

LEMMA PullPageKeepsSync ==
    ASSUME SyncInv, Unfiltered, NEW w \in Workers, PullPage(w)
    PROVE  SyncInv'
<1> DEFINE answer == Listing(setting.name, listing, job[w].cursor)
           page == Rows(answer.items)
           j == IF answer.has_more THEN At("pulling", answer.cursor)
                                   ELSE At("returned", 0)
           k == [owed |-> walk[w].owed, got |-> walk[w].got \cup page]
<1>1. Advances(setting.name, listing, created, job[w].cursor, answer)
  BY PageIsNext
<1>2. /\ job[w] \in JobRecord /\ walk[w] \in WalkRecord
      /\ job[w].stage = "pulling" /\ Rows(listing) \subseteq Nat
  <2>1. Rows(listing) \subseteq Nat
    BY DEF SyncInv, Ranked, Rows
  <2> QED
    BY <2>1, OfOne DEF PullPage
<1>3. /\ UNCHANGED <<setting, listing, created, gone, sync>>
      /\ job' = [job EXCEPT ![w] = j]
      /\ seen' = seen \cup page
      /\ walk' = [walk EXCEPT ![w].got = @ \cup page]
  BY DEF PullPage, Rows
<1>4. answer.cursor \in Nat /\ answer.has_more \in BOOLEAN
      /\ page \subseteq Nat
  BY <1>1, <1>2 DEF Advances
<1> HIDE DEF answer
<1>5. /\ j \in JobRecord /\ j.next = 0 /\ ~j.more
      /\ answer.has_more => j.stage = "pulling" /\ j.cursor = answer.cursor
      /\ ~answer.has_more => j.stage = "returned" /\ j.cursor = 0
  BY <1>4 DEF JobRecord, At
<1>6. walk' = [walk EXCEPT ![w] = k] /\ k \in WalkRecord
  <2>1. [walk[w] EXCEPT !.got = @ \cup page] = k
    BY <1>2, SMTT(60) DEF WalkRecord
  <2>2. k \in WalkRecord
    BY <1>2, <1>4 DEF WalkRecord
  <2> QED
    BY <1>3, <2>1, <2>2
<1>7. k.owed \ k.got = (walk[w].owed \ walk[w].got) \ page
  OBVIOUS
<1> HIDE DEF j, k
<1>8. setting.name \in CursorLess => sync' = 0 /\ j.cursor = 0 /\ j.next = 0
  <2>1. setting.name \in CursorLess => answer.cursor = 0
    BY <1>1 DEF Advances
  <2> QED
    BY <1>3, <1>4, <1>5, <2>1, OfOne
<1>9. ASSUME setting.oldest_first, InPlace
      PROVE  /\ Passed(setting.name, listing, created, sync', seen')
             /\ Passed(setting.name, listing, created, j.cursor, seen')
             /\ Passed(setting.name, listing, created, j.next, seen')
  <2>1. setting.name \notin Older
    BY <1>9, NamesTyped DEF SyncInv
  <2>2. /\ Passed(setting.name, listing, created, sync, seen)
        /\ Passed(setting.name, listing, created, job[w].cursor, seen)
        /\ Passed(setting.name, listing, created, 0, seen')
    BY <1>9, OfOne
  <2>3. Passed(setting.name, listing, created, answer.cursor, seen \cup page)
    BY <1>1, <2>1, <2>2 DEF Advances
  <2>4. seen \subseteq seen'
    BY <1>3
  <2> HIDE DEF page
  <2> QED
    BY <1>3, <1>4, <1>5, <2>2, <2>3, <2>4, PassedMore
<1>10. ASSUME setting.name \notin FirstPageOnly
       PROVE  Walking(setting.name, listing, j, k.owed \ k.got)
  <2> DEFINE left == walk[w].owed \ walk[w].got
  <2>1. \A r \in left : Ahead(setting.name, listing, job[w].cursor, r)
    <3>1. Walking(setting.name, listing, job[w], left)
      BY <1>10, OfOne
    <3> QED
      BY <1>2, <3>1 DEF Walking
  <2> HIDE DEF left
  <2>2. \A r \in left :
          r \in page \/ (/\ answer.has_more
                         /\ Ahead(setting.name, listing, answer.cursor, r))
    BY <1>1, <1>10, <2>1 DEF Advances
  <2>3. k.owed \ k.got = left \ page
    BY <1>7 DEF left
  <2> HIDE DEF page
  <2>4. \A r \in left \ page : /\ answer.has_more
                               /\ Ahead(setting.name, listing, answer.cursor, r)
    BY <2>2
  <2> QED
    BY <1>4, <1>5, <2>3, <2>4 DEF Walking
<1>11. sync' \in Nat /\ seen \subseteq seen'
  BY <1>3, OfOne
<1>12. UNCHANGED <<setting, listing, created, gone>>
  BY <1>3
<1>13. /\ job' = [job EXCEPT ![w] = j] /\ walk' = [walk EXCEPT ![w] = k]
       /\ j \in JobRecord /\ k \in WalkRecord
  BY <1>3, <1>5, <1>6
<1> HIDE DEF page, SyncInv
<1> QED
  BY <1>8, <1>9, <1>10, <1>11, <1>12, <1>13, OneMoves

LEMMA CompleteKeepsSync ==
    ASSUME SyncInv, NEW w \in Workers, Complete(w)
    PROVE  SyncInv'
<1> DEFINE cursor == Kept(job[w].cursor, job[w].next)
           j == [stage |-> "returned", cursor |-> cursor, next |-> 0,
                 more |-> job[w].more]
<1>1. /\ job[w] \in JobRecord /\ walk[w] \in WalkRecord
      /\ job[w].stage = "read" /\ job[w].more \in BOOLEAN
  BY OfOne DEF Complete, JobRecord
<1>2. /\ UNCHANGED <<setting, listing, created, gone, seen, walk>>
      /\ sync' = cursor
      /\ job' = [job EXCEPT ![w].stage = "returned", ![w].cursor = cursor,
                            ![w].next = 0]
  BY DEF Complete
<1>3. /\ cursor \in {job[w].cursor, job[w].next} /\ cursor \in Nat
      /\ job[w].next # 0 => cursor = job[w].next
  BY <1>1 DEF Kept, JobRecord
<1> HIDE DEF cursor
<1>4. [job[w] EXCEPT !.stage = "returned", !.cursor = cursor, !.next = 0] = j
      /\ j \in JobRecord
  <2> DEFINE q == [job[w] EXCEPT !.stage = "returned", !.cursor = cursor,
                                 !.next = 0]
  <2>1. /\ q \in JobRecord
        /\ q.stage = "returned" /\ q.cursor = cursor /\ q.next = 0
        /\ q.more = job[w].more
    BY <1>1, <1>3 DEF JobRecord
  <2> HIDE DEF q
  <2>2. q = [stage |-> q.stage, cursor |-> q.cursor, next |-> q.next,
             more |-> q.more]
    BY <2>1 DEF JobRecord
  <2>3. q = j
    BY <2>1, <2>2
  <2> QED
    BY <2>1, <2>3 DEF q
<1>5. /\ j.stage = "returned" /\ j.cursor = cursor /\ j.next = 0
      /\ j.more = job[w].more
  OBVIOUS
<1> HIDE DEF j
<1>6. job' = [job EXCEPT ![w] = j] /\ walk' = [walk EXCEPT ![w] = walk[w]]
  <2>1. walk' = [walk EXCEPT ![w] = walk[w]]
    BY <1>2 DEF SyncInv, WalksTyped
  <2> QED
    BY <1>2, <1>4, <2>1
<1>7. setting.name \in CursorLess => sync' = 0 /\ j.cursor = 0 /\ j.next = 0
  BY <1>2, <1>3, <1>5, OfOne
<1>8. setting.oldest_first /\ InPlace =>
        /\ Passed(setting.name, listing, created, sync', seen')
        /\ Passed(setting.name, listing, created, j.cursor, seen')
        /\ Passed(setting.name, listing, created, j.next, seen')
  BY <1>2, <1>3, <1>5, OfOne
<1>9. ASSUME setting.name \notin FirstPageOnly
      PROVE  Walking(setting.name, listing, j, walk[w].owed \ walk[w].got)
  <2>1. Walking(setting.name, listing, job[w], walk[w].owed \ walk[w].got)
    BY <1>9, OfOne
  <2> QED
    BY <1>1, <1>3, <1>5, <2>1 DEF Walking
<1>10. PICK k \in WalkRecord : k = walk[w]
  BY <1>1
<1>11. /\ sync' \in Nat /\ seen \subseteq seen'
       /\ UNCHANGED <<setting, listing, created, gone>>
       /\ j \in JobRecord
  BY <1>2, <1>3, <1>4
<1> HIDE DEF SyncInv
<1> QED
  BY <1>6, <1>7, <1>8, <1>9, <1>10, <1>11, OneMoves

LEMMA AgainKeepsSync ==
    ASSUME SyncInv, NEW w \in Workers, Again(w)
    PROVE  SyncInv'
<1> DEFINE j == At("loaded", job[w].cursor)
<1>1. /\ job[w] \in JobRecord /\ walk[w] \in WalkRecord
      /\ job[w].stage = "returned" /\ job[w].more
  BY OfOne DEF Again
<1>2. /\ UNCHANGED <<setting, listing, created, gone, sync, seen, walk>>
      /\ job' = [job EXCEPT ![w] = j]
  BY DEF Again
<1>3. /\ j.stage = "loaded" /\ j.cursor = job[w].cursor /\ j.next = 0
      /\ j \in JobRecord
  BY <1>1 DEF At, JobRecord
<1> HIDE DEF j
<1>4. walk' = [walk EXCEPT ![w] = walk[w]]
  BY <1>2 DEF SyncInv, WalksTyped
<1>5. setting.name \in CursorLess => sync' = 0 /\ j.cursor = 0 /\ j.next = 0
  BY <1>2, <1>3, OfOne
<1>6. setting.oldest_first /\ InPlace =>
        /\ Passed(setting.name, listing, created, sync', seen')
        /\ Passed(setting.name, listing, created, j.cursor, seen')
        /\ Passed(setting.name, listing, created, j.next, seen')
  BY <1>2, <1>3, OfOne
<1>7. ASSUME setting.name \notin FirstPageOnly
      PROVE  Walking(setting.name, listing, j, walk[w].owed \ walk[w].got)
  <2>1. Walking(setting.name, listing, job[w], walk[w].owed \ walk[w].got)
    BY <1>7, OfOne
  <2> QED
    BY <1>1, <1>3, <2>1 DEF Walking
<1>8. PICK k \in WalkRecord : k = walk[w]
  BY <1>1
<1>9. /\ sync' \in Nat /\ seen \subseteq seen'
      /\ UNCHANGED <<setting, listing, created, gone>>
  BY <1>2, OfOne
<1> HIDE DEF SyncInv
<1> QED
  BY <1>2, <1>3, <1>4, <1>5, <1>6, <1>7, <1>8, <1>9, OneMoves

\* A worker loads the row, begins a walk, comes back, fails or dies.
LEMMA StartsKeepSync ==
    ASSUME SyncInv, Unfiltered, NEW w \in Workers,
           \/ Load(w) \/ LoadForResync(w) \/ Reset(w) \/ ReadFails(w)
           \/ Return(w) \/ Pull(w) \/ Stop(w)
    PROVE  SyncInv'
<1>1. CASE Load(w)
  BY <1>1, OneRestarts DEF Load
<1>2. CASE LoadForResync(w)
  BY <1>2, OneRestarts DEF LoadForResync
<1>3. CASE Reset(w)
  BY <1>3, OneRestarts DEF Reset
<1>4. CASE ReadFails(w) \/ Return(w) \/ Stop(w)
  BY <1>4, OneRestarts DEF ReadFails, Return, Stop, NoJob
<1>5. CASE Pull(w)
  BY <1>5, OneRestarts DEF Pull
<1> QED
  BY <1>1, <1>2, <1>3, <1>4, <1>5

LEMMA NextSync ==
    ASSUME SyncInv, Unfiltered, [SyncNext]_syncVars
    PROVE  SyncInv'
<1>1. CASE Create
  BY <1>1, CreateKeepsSync
<1>2. ASSUME NEW k \in 1..MaxRows, Remove(k) PROVE SyncInv'
  BY <1>2, RemoveKeepsSync
<1>3. ASSUME NEW w \in Workers,
             \/ Load(w) \/ LoadForResync(w) \/ Reset(w) \/ ReadFails(w)
             \/ Return(w) \/ Pull(w) \/ Stop(w)
      PROVE  SyncInv'
  BY <1>3, StartsKeepSync
<1>4. ASSUME NEW w \in Workers, Read(w) PROVE SyncInv'
  BY <1>4, ReadKeepsSync
<1>5. ASSUME NEW w \in Workers, Complete(w) PROVE SyncInv'
  BY <1>5, CompleteKeepsSync
<1>6. ASSUME NEW w \in Workers, Again(w) PROVE SyncInv'
  BY <1>6, AgainKeepsSync
<1>7. ASSUME NEW w \in Workers, PullPage(w) PROVE SyncInv'
  BY <1>7, PullPageKeepsSync
<1>8. CASE UNCHANGED syncVars
  <2>1. Ranked' /\ WalksTyped' /\ NoCursors' /\ NonePassed' /\ WalksOn'
    BY <1>8 DEF SyncInv, syncVars, Ranked, WalksTyped, NoCursors, NonePassed,
                InPlace, WalksOn
  <2> QED
    BY <2>1 DEF SyncInv
<1> QED
  BY <1>1, <1>2, <1>3, <1>4, <1>5, <1>6, <1>7, <1>8 DEF SyncNext, Proceed

LEMMA SyncInvariant ==
    ASSUME Unfiltered
    PROVE  SyncSpec => []SyncInv
<1>1. SyncInit => SyncInv
  BY InitSync
<1>2. SyncInv /\ [SyncNext]_syncVars => SyncInv'
  BY NextSync
<1> QED
  BY <1>1, <1>2, PTL DEF SyncSpec

\* What is behind a cursor has been passed.
LEMMA BehindIsPassed ==
    ASSUME Unfiltered, Ranked, setting.oldest_first,
           NEW cursor \in Nat, setting.name \in CursorLess => cursor = 0,
           NEW read,
           Passed(setting.name, listing, created, cursor, read)
    PROVE  Behind(cursor) \subseteq read
<1>1. /\ setting.name \in ListingNames \ Filtered
      /\ setting.name \notin Older \cup {"linkedin"}
  BY NamesTyped
<1>2. DOMAIN listing \subseteq Nat /\ PageSize \in Nat
      /\ \A i \in DOMAIN listing : i > 0
  BY PageSizeAssumption DEF Ranked
<1>3. CASE setting.name = "shopify"
  <2>1. \A i \in DOMAIN listing : listing[i] <= cursor => listing[i] \in read
    BY <1>3 DEF Passed
  <2>2. setting.name \notin FromZero
    BY <1>3, FamiliesApart DEF ByRow
  <2> QED
    BY <1>3, <2>1, <2>2 DEF Behind
<1>4. CASE setting.name \in FromZero
  <2>1. setting.name # "shopify"
    BY <1>4, FamiliesApart DEF ByRow
  <2>2. \A i \in DOMAIN listing : i <= cursor * PageSize => listing[i] \in read
    BY <1>4, <2>1 DEF Passed, Start
  <2> QED
    BY <1>4, <2>1, <2>2 DEF Behind
<1>5. CASE setting.name # "shopify" /\ setting.name \notin FromZero
  <2>1. \A i \in DOMAIN listing :
          i <= (Page(cursor) - 1) * PageSize => listing[i] \in read
    BY <1>1, <1>5 DEF Passed, Start
  <2>2. cursor > 0 => Page(cursor) = cursor
    BY DEF Page
  <2>3. \A i \in DOMAIN listing :
          cursor > 0 /\ i <= (cursor - 1) * PageSize => listing[i] \in read
    BY <2>1, <2>2
  <2> QED
    BY <1>5, <2>3 DEF Behind
<1> QED
  BY <1>3, <1>4, <1>5

\* Oldest first, no cursor ever passes a row that nobody read: a cursor of a
\* listing stands for a place with every row before it read, wherever it is
\* kept, and a copy saved late only takes the row back to such a place.
THEOREM NothingIsSkipped ==
    ASSUME Unfiltered
    PROVE  SyncSpec => []NothingSkipped
<1>1. SyncInv => NothingSkipped
  <2> SUFFICES ASSUME SyncInv, setting.oldest_first, InPlace
               PROVE  /\ Behind(sync) \subseteq seen
                      /\ \A w \in Workers : Behind(job[w].cursor) \subseteq seen
    BY DEF NothingSkipped
  <2>1. Ranked
    BY DEF SyncInv
  <2>2. Behind(sync) \subseteq seen
    <3>1. /\ sync \in Nat /\ (setting.name \in CursorLess => sync = 0)
          /\ Passed(setting.name, listing, created, sync, seen)
      BY DEF SyncInv, WalksTyped, NoCursors, NonePassed
    <3> QED
      BY <2>1, <3>1, BehindIsPassed
  <2>3. ASSUME NEW w \in Workers
        PROVE  Behind(job[w].cursor) \subseteq seen
    <3>1. /\ job[w].cursor \in Nat
          /\ setting.name \in CursorLess => job[w].cursor = 0
          /\ Passed(setting.name, listing, created, job[w].cursor, seen)
      BY DEF SyncInv, WalksTyped, JobRecord, NoCursors, NonePassed
    <3> QED
      BY <2>1, <3>1, BehindIsPassed
  <2> QED
    BY <2>2, <2>3
<1> QED
  BY <1>1, SyncInvariant, PTL

\* A walk from the start that ends without an error has read every row that was
\* there all along, in either order: what it has left is always behind the
\* cursor it goes on with, and nothing is behind an answer without has_more.
THEOREM WalksAreComplete ==
    ASSUME Unfiltered
    PROVE  SyncSpec => []WalkComplete
<1>1. SyncInv => WalkComplete
  <2> SUFFICES ASSUME SyncInv, NEW w \in Workers,
                      job[w].stage = "returned", ~job[w].more,
                      setting.name \notin FirstPageOnly
               PROVE  walk[w].owed \subseteq walk[w].got
    BY DEF WalkComplete
  <2>1. walk[w].owed \ walk[w].got = {}
    BY DEF SyncInv, WalksOn, Walking
  <2> QED
    BY <2>1
<1> QED
  BY <1>1, SyncInvariant, PTL

-----------------------------------------------------------------------------
(* A script in place of the next node, or of a handler                     *)

\* What may be on the way while a script of these nodes is carried out.
Steps(nodes) == nodes \cup {Caught(n) : n \in {m \in nodes : m.does = "try"}}

\* What may take the place of a node or of a handler.
Expands(x, s) ==
    \/ s = <<>>
    \/ x.does = "either" /\ s \in {x.body, x.other}
    \/ x.does = "catch" /\ s = x.other
    \/ x.does = "each" /\ s = x.body \o <<x>>
    \/ x.does = "try" /\ s = x.body \o <<Caught(x)>>

\* Where each element of r comes from.
Cut(t, r, m, s) ==
    /\ Len(r) = Len(s) + Len(t) - m
    /\ \A i \in 1..Len(r) :
         \/ i \in 1..Len(s) /\ r[i] = s[i]
         \/ \E k \in m + 1..Len(t) : k = i - Len(s) + m /\ r[i] = t[k]

\* The first m of a sequence are replaced by another one.
LEMMA CutElements ==
    ASSUME NEW S, NEW s \in Seq(S), NEW t \in Seq(S), NEW m \in 1..Len(t),
           NEW r, r = s \o SubSeq(t, m + 1, Len(t))
    PROVE  r \in Seq(S) /\ Cut(t, r, m, s)
<1> DEFINE u == SubSeq(t, m + 1, Len(t))
<1>1. /\ u \in Seq(S) /\ Len(u) = Len(t) - m
      /\ \A i \in 1..Len(u) : u[i] = t[i + m]
  OBVIOUS
<1>2. r = s \o u
  OBVIOUS
<1> HIDE DEF u
<1>3. /\ r \in Seq(S) /\ Len(r) = Len(s) + Len(u)
      /\ \A i \in 1..Len(s) + Len(u) :
           r[i] = IF i <= Len(s) THEN s[i] ELSE u[i - Len(s)]
  <2>1. /\ s \o u \in Seq(S) /\ Len(s \o u) = Len(s) + Len(u)
        /\ \A i \in 1..Len(s) + Len(u) :
             (s \o u)[i] = IF i <= Len(s) THEN s[i] ELSE u[i - Len(s)]
    BY <1>1, ConcatProperties, Zenon
  <2> QED
    BY <1>2, <2>1
<1>4. Len(s) \in Nat /\ Len(t) \in Nat /\ Len(u) \in Nat
  BY <1>1
<1>5. \A i \in 1..Len(s) : r[i] = s[i]
  BY <1>3, <1>4
<1>6. ASSUME NEW i \in Len(s) + 1..Len(r)
      PROVE  i - Len(s) + m \in m + 1..Len(t) /\ r[i] = t[i - Len(s) + m]
  <2>0. i \in 1..Len(s) + Len(u) /\ ~(i <= Len(s))
    BY <1>3, <1>4
  <2>1. i - Len(s) \in 1..Len(u) /\ r[i] = u[i - Len(s)]
    <3>1. r[i] = u[i - Len(s)]
      BY <1>3, <2>0, Zenon
    <3> QED
      BY <1>4, <2>0, <3>1, SMTT(60)
  <2>2. u[i - Len(s)] = t[i - Len(s) + m]
    BY <1>1, <2>1
  <2> QED
    BY <1>1, <1>4, <2>1, <2>2, SMTT(60)
<1>7. Len(r) = Len(s) + Len(t) - m
  BY <1>1, <1>3, <1>4
<1>8. ASSUME NEW i \in 1..Len(r)
      PROVE  \/ i \in 1..Len(s) /\ r[i] = s[i]
             \/ \E k \in m + 1..Len(t) : k = i - Len(s) + m /\ r[i] = t[k]
  <2>1. CASE i \in 1..Len(s)
    BY <1>5, <2>1
  <2>2. CASE i \in Len(s) + 1..Len(r)
    BY <1>6, <2>2, Zenon
  <2> QED
    BY <1>3, <1>4, <2>1, <2>2
<1> QED
  BY <1>3, <1>7, <1>8 DEF Cut

LEMMA AppendElements ==
    ASSUME NEW S, NEW s \in Seq(S), NEW x \in S
    PROVE  /\ s \o <<x>> \in Seq(S) /\ Len(s \o <<x>>) = Len(s) + 1
           /\ (s \o <<x>>)[Len(s) + 1] = x
           /\ \A i \in 1..Len(s) : (s \o <<x>>)[i] = s[i]
OBVIOUS

\* The smallest of some numbers.
LEMMA SmallestOf ==
    ASSUME NEW T \in SUBSET Nat, T # {}
    PROVE  \E x \in T : \A y \in T : x <= y
<1>1. IsWellFoundedOn(OpToRel(<, Nat), Nat)
  BY NatLessThanWellFounded
<1>2. PICK x \in T : \A y \in T : ~(<<y, x>> \in OpToRel(<, Nat))
  BY <1>1, WFMin, Zenon
<1>3. \A y \in T : ~(y < x)
  BY <1>2 DEF OpToRel
<1> QED
  BY <1>3

-----------------------------------------------------------------------------
(* What a step does to what is left of a script                            *)

\* The parts of a node and of the handler it leaves on the way.
LEMMA NodeParts ==
    ASSUME NEW N, N \subseteq ScriptNode(N), NEW n \in N
    PROVE  /\ n.body \in Seq(N) /\ n.other \in Seq(N)
           /\ n.kinds \subseteq Errors /\ n.does \in Words
           /\ n.once \in BOOLEAN /\ n.unread \in BOOLEAN
           /\ Caught(n).does = "catch" /\ Caught(n).kinds = n.kinds
           /\ Caught(n).body = <<>> /\ Caught(n).other = n.other
<1>1. n \in ScriptNode(N)
  OBVIOUS
<1> QED
  BY <1>1 DEF ScriptNode, Caught

LEMMA StepParts ==
    ASSUME NEW N, N \subseteq ScriptNode(N), NEW x \in Steps(N)
    PROVE  /\ x.body \in Seq(N) /\ x.other \in Seq(N)
           /\ x.does # "catch" => x \in N
           /\ x.does = "catch" =>
                \E n \in N : n.does = "try" /\ x = Caught(n)
<1>1. CASE x \in N
  <2>1. x.does \in Words /\ x.body \in Seq(N) /\ x.other \in Seq(N)
    BY <1>1, NodeParts
  <2>2. "catch" \notin Words
    BY DEF Words, Requests
  <2> QED
    BY <1>1, <2>1, <2>2
<1>2. CASE x \in {Caught(n) : n \in {m \in N : m.does = "try"}}
  <2>1. PICK n \in N : n.does = "try" /\ x = Caught(n)
    BY <1>2
  <2>2. n.other \in Seq(N) /\ x.does = "catch" /\ x.body = <<>>
        /\ x.other = n.other
    BY <2>1, NodeParts
  <2>3. <<>> \in Seq(N)
    OBVIOUS
  <2> QED
    BY <2>1, <2>2, <2>3
<1> QED
  BY <1>1, <1>2 DEF Steps

LEMMA SeqSteps ==
    ASSUME NEW N
    PROVE  Seq(N) \subseteq Seq(Steps(N))
<1>1. N \subseteq Steps(N)
  BY DEF Steps
<1> QED
  BY <1>1

LEMMA ExpandsSteps ==
    ASSUME NEW N, N \subseteq ScriptNode(N), NEW x \in Steps(N),
           NEW s, Expands(x, s)
    PROVE  s \in Seq(Steps(N))
<1>1. x.body \in Seq(Steps(N)) /\ x.other \in Seq(Steps(N))
      /\ <<>> \in Seq(Steps(N))
  BY StepParts, SeqSteps
<1>2. x.body \o <<x>> \in Seq(Steps(N))
  BY <1>1, AppendElements
<1>3. ASSUME x.does = "try"
      PROVE  x.body \o <<Caught(x)>> \in Seq(Steps(N))
  <2>1. x \in N
    BY <1>3, StepParts
  <2>2. Caught(x) \in Steps(N)
    BY <1>3, <2>1 DEF Steps
  <2> QED
    BY <1>1, <2>2, AppendElements
<1> QED
  BY <1>1, <1>2, <1>3 DEF Expands

\* An exception leaves the call or goes to the innermost handler for it.
LEMMA ThrowTo ==
    ASSUME NEW S, todo \in Seq(S), NEW kind, Throw(kind)
    PROVE  /\ error' = kind
           /\ \/ Catchers(kind) = {} /\ outcome' = kind /\ todo' = <<>>
              \/ \E m \in 1..Len(todo) :
                   /\ m \in Catchers(kind) /\ \A j \in Catchers(kind) : m <= j
                   /\ outcome' = outcome
                   /\ todo' = todo[m].other \o SubSeq(todo, m + 1, Len(todo))
<1>1. DOMAIN todo = 1..Len(todo) /\ Len(todo) \in Nat
  OBVIOUS
<1>2. CASE Catchers(kind) = {}
  BY <1>2, Zenon DEF Throw
<1>3. CASE Catchers(kind) # {}
  <2> DEFINE at == CHOOSE i \in Catchers(kind) :
                     \A j \in Catchers(kind) : i <= j
  <2>1. Catchers(kind) \subseteq 1..Len(todo)
    BY <1>1 DEF Catchers
  <2>2. Catchers(kind) \in SUBSET Nat
    BY <2>1, <1>1
  <2>3. \E i \in Catchers(kind) : \A j \in Catchers(kind) : i <= j
    BY <1>3, <2>2, SmallestOf, Zenon
  <2>4. at \in Catchers(kind) /\ \A j \in Catchers(kind) : at <= j
    BY <2>3
  <2>5. /\ error' = kind /\ outcome' = outcome
        /\ todo' = todo[at].other \o SubSeq(todo, at + 1, Len(todo))
    BY <1>3, Zenon DEF Throw
  <2> HIDE DEF at
  <2>6. at \in 1..Len(todo)
    BY <2>1, <2>4
  <2> QED
    BY <2>4, <2>5, <2>6, Zenon
<1> QED
  BY <1>2, <1>3

LEMMA BecomesAt ==
    ASSUME NEW S, todo \in Seq(S), todo # <<>>, NEW s, Becomes(s)
    PROVE  /\ 1 \in 1..Len(todo) /\ Head(todo) = todo[1]
           /\ todo' = s \o SubSeq(todo, 2, Len(todo))
BY DEF Becomes

\* The node whose place it takes is the next one, or one that an exception
\* goes to.
Taken(m, s) ==
    \/ m = 1 /\ (todo[m].does = "catch" => s = <<>>)
    \/ /\ todo[m].does = "catch" /\ s = todo[m].other
       /\ Head(todo).does \in Requests \cup {"raise", "reraise"}

\* A node or a handler of what is left is replaced by one of its blocks, or
\* nothing is left.
LEMMA StepShape ==
    ASSUME NEW N, N \subseteq ScriptNode(N), todo \in Seq(Steps(N)), OpNext
    PROVE  /\ provider' = provider /\ operation' = operation
           /\ \/ todo' = <<>>
              \/ \E m \in 1..Len(todo), s \in Seq(Steps(N)) :
                   /\ Expands(todo[m], s) /\ Taken(m, s)
                   /\ todo' = s \o SubSeq(todo, m + 1, Len(todo))
<1> DEFINE Shape ==
      \/ todo' = <<>>
      \/ \E m \in 1..Len(todo), s \in Seq(Steps(N)) :
           /\ Expands(todo[m], s) /\ Taken(m, s)
           /\ todo' = s \o SubSeq(todo, m + 1, Len(todo))
<1>1. ASSUME todo # <<>>, NEW s, Expands(Head(todo), s), Becomes(s),
             Head(todo).does = "catch" => s = <<>>
      PROVE  Shape
  <2>1. /\ 1 \in 1..Len(todo) /\ Head(todo) = todo[1]
        /\ todo' = s \o SubSeq(todo, 2, Len(todo))
    BY <1>1, BecomesAt, Zenon
  <2>2. todo[1] \in Steps(N)
    BY <2>1
  <2>3. s \in Seq(Steps(N))
    BY <1>1, <2>1, <2>2, ExpandsSteps
  <2>4. 1 + 1 = 2
    OBVIOUS
  <2>5. Taken(1, s)
    BY <1>1, <2>1 DEF Taken
  <2> QED
    BY <1>1, <2>1, <2>3, <2>4, <2>5
<1>2. ASSUME NEW kind, Throw(kind),
             Head(todo).does \in Requests \cup {"raise", "reraise"}
      PROVE  Shape
  <2>1. CASE todo' = <<>>
    BY <2>1
  <2>2. CASE \E m \in 1..Len(todo) :
               /\ m \in Catchers(kind)
               /\ todo' = todo[m].other \o SubSeq(todo, m + 1, Len(todo))
    <3>1. PICK m \in 1..Len(todo) :
            /\ m \in Catchers(kind)
            /\ todo' = todo[m].other \o SubSeq(todo, m + 1, Len(todo))
      BY <2>2
    <3>2. todo[m] \in Steps(N) /\ todo[m].does = "catch"
      BY <3>1 DEF Catchers
    <3>3. Expands(todo[m], todo[m].other)
      BY <3>2 DEF Expands
    <3>4. todo[m].other \in Seq(Steps(N))
      BY <3>2, <3>3, ExpandsSteps
    <3>5. Taken(m, todo[m].other)
      BY <1>2, <3>2 DEF Taken
    <3> QED
      BY <3>1, <3>3, <3>4, <3>5
  <2> QED
    BY <1>2, <2>1, <2>2, ThrowTo, Zenon
<1>3. \A x : Expands(x, <<>>)
  BY DEF Expands
<1> HIDE DEF Shape
<1>4. CASE \E way \in {"ok"} \cup Failures : Send(way)
  <2>1. PICK way \in {"ok"} \cup Failures : Send(way)
    BY <1>4
  <2>2. todo # <<>> /\ (Becomes(<<>>) \/ Throw(way))
        /\ provider' = provider /\ operation' = operation
        /\ Head(todo).does \in Requests
    BY <2>1 DEF Send, Heads
  <2>3. Shape
    BY <2>2, <1>1, <1>2, <1>3, Zenon
  <2> QED
    BY <2>2, <2>3 DEF Shape
<1>5. CASE Branch
  <2>1. todo # <<>> /\ Head(todo).does = "either"
    BY <1>5 DEF Branch, Heads
  <2>2. /\ Expands(Head(todo), Head(todo).body)
        /\ Expands(Head(todo), Head(todo).other)
    BY <2>1 DEF Expands
  <2> QED
    BY <1>5, <1>1, <2>1, <2>2 DEF Branch, SameCall, Shape
<1>6. CASE Repeat
  <2>1. Expands(Head(todo), Head(todo).body \o <<Head(todo)>>)
    BY <1>6 DEF Repeat, Heads, Expands
  <2> QED
    BY <1>6, <1>1, <1>3, <2>1 DEF Repeat, Heads, SameCall, Shape
<1>7. CASE Enter
  <2>1. Expands(Head(todo), Head(todo).body \o <<Caught(Head(todo))>>)
    BY <1>7 DEF Enter, Heads, Expands
  <2> QED
    BY <1>7, <1>1, <2>1 DEF Enter, Heads, SameCall, Shape
<1>8. CASE Leave
  BY <1>8, <1>1, <1>3 DEF Leave, Heads, SameCall, Shape
<1>9. CASE Report
  BY <1>9, <1>1, <1>3 DEF Report, Heads, SameCall, Shape
<1>10. CASE Overlook
  BY <1>10, <1>1, <1>3 DEF Overlook, Heads, SameCall, Shape
<1>11. CASE Fails
  <2>1. /\ Head(todo).does \in {"raise", "reraise"}
        /\ \E kind : Throw(kind)
        /\ provider' = provider /\ operation' = operation
    BY <1>11 DEF Fails, Heads, SameCall
  <2>2. Shape
    BY <2>1, <1>2
  <2> QED
    BY <2>1, <2>2 DEF Shape
<1>12. CASE Finish
  BY <1>12 DEF Finish, SameCall, Shape
<1> QED
  BY <1>4, <1>5, <1>6, <1>7, <1>8, <1>9, <1>10, <1>11, <1>12 DEF OpNext, Shape

-----------------------------------------------------------------------------
(* Nothing is made twice                                                   *)

\* The nodes of the script of the call.
Here == OpNodes(provider, operation)

\* The types of the variables.
OpTypeOK ==
    /\ provider \in DOMAIN Catalogue
    /\ operation \in DOMAIN Catalogue[provider]
    /\ todo \in Seq(Steps(Here))
    /\ error \in Errors \cup {"none"}
    /\ last \in Requests \cup {"none"}
    /\ hidden \subseteq Requests \cup {"none"}
    /\ outcome \in Errors \cup {"none", "returned"}

LEMMA CatalogueOf ==
    ASSUME provider \in DOMAIN Catalogue,
           operation \in DOMAIN Catalogue[provider]
    PROVE  /\ Nested(provider, operation)
           /\ provider \in Careful => MakesOnce(provider, operation)
           /\ (/\ provider \notin Unheard
               /\ <<provider, operation>> \notin MayBeDeaf)
                 => Hears(provider, operation)
           /\ <<provider, operation>> \notin MayBeBlind =>
                Sighted(provider, operation)
           /\ <<provider, operation>> \notin MayBeQuiet =>
                Frank(provider, operation)
BY CatalogueAssumption, Zenon

LEMMA HereNodes ==
    ASSUME provider \in DOMAIN Catalogue,
           operation \in DOMAIN Catalogue[provider]
    PROVE  /\ Here \subseteq ScriptNode(Here)
           /\ Script(provider, operation) \in Seq(Here)
<1>1. Nested(provider, operation)
  BY CatalogueOf, Zenon
<1> QED
  BY <1>1, Zenon DEF Nested, Here

LEMMA OpTypeInit ==
    ASSUME OpInit
    PROVE  OpTypeOK
<1>1. provider \in DOMAIN Catalogue /\ operation \in DOMAIN Catalogue[provider]
  BY DEF OpInit, Called
<1>2. todo \in Seq(Here)
  BY <1>1, HereNodes DEF OpInit, Called, Script
<1>3. todo \in Seq(Steps(Here))
  BY <1>2, SeqSteps
<1> QED
  BY <1>1, <1>3 DEF OpInit, Called, Script, OpTypeOK

LEMMA ThrowTyped ==
    ASSUME OpTypeOK, NEW kind \in Errors \cup {"none"}, Throw(kind)
    PROVE  /\ error' \in Errors \cup {"none"}
           /\ outcome' \in Errors \cup {"none", "returned"}
<1>1. error' = kind /\ (outcome' = kind \/ outcome' = outcome)
  BY ThrowTo DEF OpTypeOK
<1> QED
  BY <1>1 DEF OpTypeOK

LEMMA OpTypeStep ==
    ASSUME OpTypeOK, [OpNext]_opVars
    PROVE  OpTypeOK'
<1> DEFINE Rest ==
      /\ error' \in Errors \cup {"none"}
      /\ last' \in Requests \cup {"none"}
      /\ hidden' \subseteq Requests \cup {"none"}
      /\ outcome' \in Errors \cup {"none", "returned"}
<1>1. Here \subseteq ScriptNode(Here)
  BY HereNodes DEF OpTypeOK
<1>2. CASE UNCHANGED opVars
  BY <1>2 DEF opVars, OpTypeOK, Here
<1>3. CASE OpNext
  <2>1. /\ provider' = provider /\ operation' = operation
        /\ \/ todo' = <<>>
           \/ \E m \in 1..Len(todo), s \in Seq(Steps(Here)) :
                todo' = s \o SubSeq(todo, m + 1, Len(todo))
    <3> DEFINE N == Here
    <3>1. N \subseteq ScriptNode(N) /\ todo \in Seq(Steps(N))
      BY <1>1 DEF OpTypeOK
    <3> HIDE DEF N
    <3>2. /\ provider' = provider /\ operation' = operation
          /\ \/ todo' = <<>>
             \/ \E m \in 1..Len(todo), s \in Seq(Steps(N)) :
                  todo' = s \o SubSeq(todo, m + 1, Len(todo))
      BY <1>3, <3>1, StepShape
    <3> QED
      BY <3>2 DEF N
  <2>2. Here' = Here
    BY <2>1 DEF Here
  <2>3. todo' \in Seq(Steps(Here))
    <3>1. CASE todo' = <<>>
      BY <3>1
    <3>2. ASSUME NEW m \in 1..Len(todo), NEW s \in Seq(Steps(Here)),
                 todo' = s \o SubSeq(todo, m + 1, Len(todo))
          PROVE  todo' \in Seq(Steps(Here))
      <4>1. todo \in Seq(Steps(Here))
        BY DEF OpTypeOK
      <4>2. PICK r : r = s \o SubSeq(todo, m + 1, Len(todo))
        OBVIOUS
      <4>3. r \in Seq(Steps(Here))
        BY <4>1, <4>2, CutElements
      <4> QED
        BY <3>2, <4>2, <4>3
    <3> QED
      BY <2>1, <3>1, <3>2
  <2> SUFFICES Rest
    BY <2>1, <2>2, <2>3 DEF OpTypeOK
  <2>4. CASE \E way \in {"ok"} \cup Failures : Send(way)
    <3>1. PICK way \in {"ok"} \cup Failures : Send(way)
      BY <2>4
    <3>2. last' \in Requests /\ hidden' \subseteq hidden \cup {last'}
      BY <3>1 DEF Send, Heads
    <3>3. error' \in Errors \cup {"none"}
          /\ outcome' \in Errors \cup {"none", "returned"}
      <4>1. CASE UNCHANGED <<error, outcome>>
        BY <4>1 DEF OpTypeOK
      <4>2. CASE way # "ok" /\ Throw(way)
        <5>1. way \in Errors
          BY <4>2 DEF Errors
        <5> QED
          BY <4>2, <5>1, ThrowTyped
      <4> QED
        BY <3>1, <4>1, <4>2 DEF Send
    <3> QED
      BY <3>2, <3>3 DEF OpTypeOK
  <2>5. CASE Branch \/ Repeat \/ Enter \/ Leave \/ Report
    BY <2>5 DEF Branch, Repeat, Enter, Leave, Report, SameCall, OpTypeOK
  <2>6. CASE Overlook
    BY <2>6 DEF Overlook, SameCall, OpTypeOK
  <2>7. CASE Fails
    <3>1. PICK kind \in Errors \cup {"none"} : Throw(kind)
      <4>1. CASE Heads("reraise") /\ Throw(error)
        BY <4>1 DEF OpTypeOK
      <4>2. CASE Heads("raise") /\ \E kind \in Head(todo).kinds : Throw(kind)
        <5>1. Head(todo) \in Steps(Here) /\ Head(todo).does # "catch"
          BY <4>2 DEF OpTypeOK, Heads
        <5>2. Head(todo) \in Here
          BY <1>1, <5>1, StepParts
        <5>3. Head(todo).kinds \subseteq Errors
          BY <1>1, <5>2, NodeParts
        <5> QED
          BY <4>2, <5>3
      <4> QED
        BY <2>7, <4>1, <4>2 DEF Fails
    <3>2. error' \in Errors \cup {"none"}
          /\ outcome' \in Errors \cup {"none", "returned"}
      BY <3>1, ThrowTyped
    <3> QED
      BY <2>7, <3>2 DEF Fails, SameCall, OpTypeOK
  <2>8. CASE Finish
    BY <2>8 DEF Finish, SameCall, OpTypeOK
  <2> QED
    BY <1>3, <2>4, <2>5, <2>6, <2>7, <2>8 DEF OpNext
<1> QED
  BY <1>2, <1>3

\* A request that is sent once is acted on once at most.
LEMMA EffectsOnce ==
    ASSUME NEW node, node.once, NEW way, NEW n \in Effects(node, way)
    PROVE  ~(n > 1)
<1>1. CASE way = "ok"
  BY <1>1 DEF Effects
<1>2. CASE way \in {"auth", "limited", "missing", "client"}
  <2>1. way # "ok"
    BY <1>2
  <2> QED
    BY <1>2, <2>1 DEF Effects
<1>3. CASE way # "ok" /\ way \notin {"auth", "limited", "missing", "client"}
  BY <1>3 DEF Effects
<1> QED
  BY <1>1, <1>2, <1>3

LEMMA MadeOnceStep ==
    ASSUME OpTypeOK, MadeOnce, [OpNext]_opVars
    PROVE  MadeOnce'
<1> SUFFICES ASSUME provider' \in Careful
             PROVE  repeated' = {}
  BY DEF MadeOnce
<1>1. CASE UNCHANGED opVars
  BY <1>1 DEF opVars, MadeOnce
<1>2. ASSUME NEW way, Send(way)
      PROVE  repeated' = {}
  <2>1. provider' = provider /\ repeated = {} /\ todo # <<>>
        /\ Head(todo).does \in Requests
    BY <1>2 DEF Send, MadeOnce, Heads
  <2>2. PICK n \in Effects(Head(todo), way) :
          repeated' = IF Head(todo).does = "make" /\ n > 1
                      THEN repeated \cup {Head(todo).what} ELSE repeated
    BY <1>2, Zenon DEF Send
  <2>3. CASE Head(todo).does = "make"
    <3>1. Here \subseteq ScriptNode(Here)
      BY HereNodes DEF OpTypeOK
    <3>2. Head(todo) \in Steps(Here)
      BY <2>1 DEF OpTypeOK
    <3>3. Head(todo) \in Here
      BY <2>3, <3>1, <3>2, StepParts
    <3>4. MakesOnce(provider, operation)
      BY <2>1, CatalogueOf DEF OpTypeOK
    <3>5. Head(todo).once
      BY <2>3, <3>3, <3>4, Zenon DEF MakesOnce, Here
    <3>6. ~(n > 1)
      BY <3>5, EffectsOnce, Zenon
    <3> QED
      BY <2>1, <2>2, <3>6
  <2>4. CASE Head(todo).does # "make"
    BY <2>1, <2>2, <2>4
  <2> QED
    BY <2>3, <2>4
<1>3. CASE \/ Branch \/ Repeat \/ Enter \/ Leave \/ Report \/ Overlook
           \/ Fails \/ Finish
  BY <1>3 DEF Branch, Repeat, Enter, Leave, Report, Overlook, Fails, Finish,
       SameCall, MadeOnce
<1> QED
  BY <1>1, <1>2, <1>3 DEF OpNext

\* What is left of a call is always a sequence of the steps of its own script,
\* however deep its loops, helpers and handlers nest (the call stack of an
\* operation), and every other variable has its type.
THEOREM OpTypeCorrect == OpSpec => []OpTypeOK
BY OpTypeInit, OpTypeStep, PTL DEF OpSpec

\* No call of an operation of a careful adapter makes anything twice, however
\* often its HTTP client sends a request (execute_with_retry and the scripts of
\* every catalogue).
THEOREM OpMadeOnce == OpSpec => []MadeOnce
<1>1. OpInit => OpTypeOK /\ MadeOnce
  BY OpTypeInit DEF OpInit, MadeOnce
<1>2. OpTypeOK /\ MadeOnce /\ [OpNext]_opVars => (OpTypeOK /\ MadeOnce)'
  BY OpTypeStep, MadeOnceStep
<1> QED
  BY <1>1, <1>2, PTL DEF OpSpec

-----------------------------------------------------------------------------
(* What comes after what, while a script is carried out                    *)

\* A node is one of these, or the handler on the way has one of these.
Has(x, nodes) ==
    x \in nodes \/ (x.does = "catch" /\ Elements(x.other) \cap nodes # {})

Free(s, nodes) == \A i \in 1..Len(s) : ~Has(s[i], nodes)

Ordered(s, first, others) ==
    \A i, j \in 1..Len(s) :
      i < j => ~Has(s[i], first) \/ ~Has(s[j], others)

\* With a node, the nodes around it are among these.
Upward(all, nodes) ==
    /\ nodes \subseteq all
    /\ \A n \in all :
         (Elements(n.body) \cup Elements(n.other)) \cap nodes # {}
           => n \in nodes

LEMMA ElementOf ==
    ASSUME NEW S, NEW s \in Seq(S), NEW i \in 1..Len(s)
    PROVE  s[i] \in S /\ s[i] \in Elements(s)
BY DEF Elements

LEMMA HasNode ==
    ASSUME NEW N, N \subseteq ScriptNode(N), NEW x \in N, NEW F
    PROVE  Has(x, F) <=> x \in F
<1>1. x.does \in Words /\ "catch" \notin Words
  BY NodeParts DEF Words, Requests
<1>2. x.does # "catch"
  BY <1>1
<1> QED
  BY <1>2, Zenon DEF Has

LEMMA HasHandler ==
    ASSUME NEW N, N \subseteq ScriptNode(N), NEW n \in N, NEW F,
           F \subseteq N
    PROVE  Has(Caught(n), F) <=> Elements(n.other) \cap F # {}
<1>1. Caught(n).does = "catch" /\ Caught(n).other = n.other
  BY NodeParts
<1>2. Caught(n) \notin N
  <2>1. SUFFICES ASSUME Caught(n) \in N
                 PROVE  FALSE
    OBVIOUS
  <2>2. Caught(n).does \in Words
    BY <2>1, NodeParts
  <2> QED
    BY <1>1, <2>2 DEF Words, Requests
<1> QED
  BY <1>1, <1>2 DEF Has

\* What takes the place of a node does nothing that the node does not.
LEMMA ExpandsHas ==
    ASSUME NEW N, N \subseteq ScriptNode(N), NEW F, Upward(N, F),
           NEW x \in Steps(N), NEW s, Expands(x, s),
           NEW i \in 1..Len(s), Has(s[i], F)
    PROVE  Has(x, F)
<1>1. F \subseteq N
  BY DEF Upward
<1>2. x.body \in Seq(N) /\ x.other \in Seq(N)
  BY StepParts
<1>3. ASSUME NEW k \in 1..Len(x.body), Has(x.body[k], F)
      PROVE  Has(x, F)
  <2>1. x.body[k] \in N /\ x.body[k] \in Elements(x.body)
    BY <1>2, ElementOf
  <2>2. x.body[k] \in F
    BY <1>3, <2>1, HasNode
  <2>3. CASE x \in N
    BY <2>1, <2>2, <2>3 DEF Upward, Has
  <2>4. ASSUME NEW n \in N, x = Caught(n)
        PROVE  FALSE
    BY <2>4, <1>3, NodeParts
  <2> QED
    BY <2>3, <2>4, StepParts
<1>4. ASSUME NEW k \in 1..Len(x.other), Has(x.other[k], F)
      PROVE  Has(x, F)
  <2>1. x.other[k] \in N /\ x.other[k] \in Elements(x.other)
    BY <1>2, ElementOf
  <2>2. x.other[k] \in F
    BY <1>4, <2>1, HasNode
  <2>3. CASE x \in N
    BY <2>1, <2>2, <2>3 DEF Upward, Has
  <2>4. CASE x.does = "catch"
    BY <2>1, <2>2, <2>4 DEF Has
  <2> QED
    BY <2>3, <2>4, StepParts
<1>5. CASE s = <<>>
  BY <1>5
<1>6. CASE s = x.body \/ s = x.other
  BY <1>6, <1>3, <1>4
<1>7. ASSUME NEW y \in Steps(N), s = x.body \o <<y>>,
             Has(y, F) => Has(x, F)
      PROVE  Has(x, F)
  <2>1. x.body \in Seq(Steps(N))
    BY <1>2, SeqSteps
  <2>2. /\ Len(s) = Len(x.body) + 1 /\ s[Len(x.body) + 1] = y
        /\ \A k \in 1..Len(x.body) : s[k] = x.body[k]
    BY <1>7, <2>1, AppendElements
  <2>3. CASE i \in 1..Len(x.body)
    BY <1>3, <2>2, <2>3
  <2>4. CASE i = Len(x.body) + 1
    BY <1>7, <2>2, <2>4
  <2> QED
    BY <1>2, <2>2, <2>3, <2>4
<1>8. CASE x.does = "try" /\ s = x.body \o <<Caught(x)>>
  <2>1. x \in N
    BY <1>8, StepParts
  <2>2. Caught(x) \in Steps(N)
    BY <1>8, <2>1 DEF Steps
  <2>3. Has(Caught(x), F) => Has(x, F)
    BY <1>1, <2>1, HasHandler DEF Upward, Has
  <2> QED
    BY <1>7, <1>8, <2>2, <2>3
<1> QED
  BY <1>5, <1>6, <1>7, <1>8 DEF Expands

LEMMA NeverOrdered ==
    ASSUME NEW N, N \subseteq ScriptNode(N), NEW F, NEW O,
           NEW s \in Seq(N), Never(s, F, O)
    PROVE  Ordered(s, F, O)
<1> SUFFICES ASSUME NEW i \in 1..Len(s), NEW j \in 1..Len(s), i < j
             PROVE  ~Has(s[i], F) \/ ~Has(s[j], O)
  BY DEF Ordered
<1>1. DOMAIN s = 1..Len(s) /\ s[i] \in N /\ s[j] \in N
  OBVIOUS
<1>2. s[i] \notin F \/ s[j] \notin O
  BY <1>1 DEF Never
<1> QED
  BY <1>1, <1>2, HasNode

\* What takes the place of a node is in the same order within.
LEMMA ExpandsOrdered ==
    ASSUME NEW N, N \subseteq ScriptNode(N), NEW F, NEW O,
           Upward(N, F), Upward(N, O), NeverWithin(N, F, O),
           NEW x \in Steps(N), NEW s, Expands(x, s)
    PROVE  Ordered(s, F, O)
<1>1. F \subseteq N /\ O \subseteq N
  BY DEF Upward
<1>2. x.body \in Seq(N) /\ x.other \in Seq(N)
  BY StepParts
<1>3. Ordered(<<>>, F, O)
  BY DEF Ordered
<1>4. Ordered(x.body, F, O) /\ Ordered(x.other, F, O)
  <2>1. CASE x \in N
    <3>1. Never(x.body, F, O) /\ Never(x.other, F, O)
      BY <2>1 DEF NeverWithin
    <3> QED
      BY <1>2, <3>1, NeverOrdered
  <2>2. ASSUME NEW n \in N, x = Caught(n)
        PROVE  Ordered(x.body, F, O) /\ Ordered(x.other, F, O)
    <3>1. Never(n.other, F, O) /\ x.body = <<>> /\ x.other = n.other
      BY <2>2, NodeParts DEF NeverWithin
    <3> QED
      BY <1>2, <1>3, <3>1, NeverOrdered
  <2> QED
    BY <2>1, <2>2, StepParts
<1>5. ASSUME NEW y \in Steps(N), s = x.body \o <<y>>,
             \A k \in 1..Len(x.body) : ~Has(x.body[k], F) \/ ~Has(y, O)
      PROVE  Ordered(s, F, O)
  <2>1. x.body \in Seq(Steps(N))
    BY <1>2, SeqSteps
  <2>2. /\ Len(s) = Len(x.body) + 1 /\ s[Len(x.body) + 1] = y
        /\ \A k \in 1..Len(x.body) : s[k] = x.body[k]
    BY <1>5, <2>1, AppendElements
  <2>3. ASSUME NEW i \in 1..Len(s), NEW j \in 1..Len(s), i < j
        PROVE  ~Has(s[i], F) \/ ~Has(s[j], O)
    <3>1. Len(x.body) \in Nat
      BY <1>2
    <3>2. i \in 1..Len(x.body) /\ s[i] = x.body[i]
      BY <2>2, <2>3, <3>1
    <3>3. CASE j = Len(x.body) + 1
      BY <1>5, <2>2, <3>2, <3>3
    <3>4. CASE j \in 1..Len(x.body)
      <4>1. s[j] = x.body[j]
        BY <2>2, <3>4
      <4> QED
        BY <1>4, <2>3, <3>2, <3>4, <4>1 DEF Ordered
    <3> QED
      BY <2>2, <3>1, <3>3, <3>4
  <2> QED
    BY <2>3 DEF Ordered
<1>6. ASSUME NEW k \in 1..Len(x.body)
      PROVE  x.body[k] \in N /\ x.body[k] \in Elements(x.body)
             /\ (Has(x.body[k], F) => x.body[k] \in F)
  <2>1. x.body[k] \in N /\ x.body[k] \in Elements(x.body)
    BY <1>2, ElementOf
  <2> QED
    BY <2>1, HasNode
<1>7. CASE x.does = "each" /\ s = x.body \o <<x>>
  <2>1. x \in N /\ (x \notin F \/ x \notin O)
    BY <1>7, StepParts DEF NeverWithin
  <2>2. ASSUME NEW k \in 1..Len(x.body)
        PROVE  ~Has(x.body[k], F) \/ ~Has(x, O)
    <3>1. x.body[k] \in F => x \in F
      BY <1>6, <2>1 DEF Upward
    <3>2. Has(x, O) => x \in O
      BY <2>1, HasNode
    <3> QED
      BY <1>6, <2>1, <3>1, <3>2
  <2> QED
    BY <1>5, <1>7, <2>2
<1>8. CASE x.does = "try" /\ s = x.body \o <<Caught(x)>>
  <2>1. x \in N
    BY <1>8, StepParts
  <2>2. \/ Elements(x.body) \cap F = {}
        \/ Elements(x.other) \cap O = {}
    BY <1>8, <2>1 DEF NeverWithin
  <2>3. Caught(x) \in Steps(N)
    BY <1>8, <2>1 DEF Steps
  <2>4. ASSUME NEW k \in 1..Len(x.body)
        PROVE  ~Has(x.body[k], F) \/ ~Has(Caught(x), O)
    <3>1. Has(Caught(x), O) => Elements(x.other) \cap O # {}
      BY <1>1, <2>1, HasHandler
    <3> QED
      BY <1>6, <2>2, <3>1
  <2> QED
    BY <1>5, <1>8, <2>3, <2>4
<1> QED
  BY <1>3, <1>4, <1>7, <1>8 DEF Expands

\* What comes of a free tail, and of a node that is free or leaves nothing.
LEMMA FreeCut ==
    ASSUME NEW N, N \subseteq ScriptNode(N), NEW t \in Seq(Steps(N)),
           NEW F, Upward(N, F), NEW m \in 1..Len(t),
           NEW s \in Seq(Steps(N)), Expands(t[m], s),
           NEW r \in Seq(Steps(N)), Cut(t, r, m, s),
           s = <<>> \/ ~Has(t[m], F),
           \A k \in m + 1..Len(t) : ~Has(t[k], F)
    PROVE  Free(r, F)
<1> SUFFICES ASSUME NEW i \in 1..Len(r), Has(r[i], F)
             PROVE  FALSE
  BY DEF Free
<1>1. CASE i \in 1..Len(s) /\ r[i] = s[i]
  <2>1. s # <<>> /\ t[m] \in Steps(N)
    BY <1>1
  <2>2. Has(s[i], F)
    BY <1>1
  <2>3. Has(t[m], F)
    BY <1>1, <2>1, <2>2, ExpandsHas
  <2> QED
    BY <2>1, <2>3
<1>2. CASE \E k \in m + 1..Len(t) : k = i - Len(s) + m /\ r[i] = t[k]
  BY <1>2
<1> QED
  BY <1>1, <1>2, Zenon DEF Cut

\* A step, and where what is left after it comes from.
LEMMA StepCut ==
    ASSUME NEW N, N \subseteq ScriptNode(N), todo \in Seq(Steps(N)), OpNext
    PROVE  /\ todo' \in Seq(Steps(N))
           /\ \/ todo' = <<>>
              \/ \E m \in 1..Len(todo), s \in Seq(Steps(N)) :
                   /\ Expands(todo[m], s) /\ Taken(m, s)
                   /\ Cut(todo, todo', m, s)
<1>1. CASE todo' = <<>>
  BY <1>1
<1>2. ASSUME NEW m \in 1..Len(todo), NEW s \in Seq(Steps(N)),
             Expands(todo[m], s),
             todo' = s \o SubSeq(todo, m + 1, Len(todo))
      PROVE  todo' \in Seq(Steps(N)) /\ Cut(todo, todo', m, s)
  <2>1. PICK r : r = s \o SubSeq(todo, m + 1, Len(todo))
    OBVIOUS
  <2>2. PICK t : t = todo
    OBVIOUS
  <2>3. t \in Seq(Steps(N)) /\ m \in 1..Len(t)
        /\ r = s \o SubSeq(t, m + 1, Len(t))
    BY <2>1, <2>2
  <2>4. r \in Seq(Steps(N)) /\ Cut(t, r, m, s)
    BY <2>3, CutElements
  <2> QED
    BY <1>2, <2>1, <2>2, <2>4
<1> QED
  BY <1>1, <1>2, StepShape

\* The next step keeps the order.
LEMMA OrderStep ==
    ASSUME NEW N, N \subseteq ScriptNode(N), todo \in Seq(Steps(N)), OpNext,
           NEW F, NEW O, Upward(N, F), Upward(N, O), NeverWithin(N, F, O),
           Ordered(todo, F, O)
    PROVE  Ordered(todo', F, O)
<1>1. CASE todo' = <<>>
  BY <1>1 DEF Ordered
<1>2. ASSUME NEW m \in 1..Len(todo), NEW s \in Seq(Steps(N)),
             Expands(todo[m], s), Cut(todo, todo', m, s)
      PROVE  Ordered(todo', F, O)
  <2> SUFFICES ASSUME NEW i \in 1..Len(todo'), NEW j \in 1..Len(todo'), i < j
               PROVE  ~Has(todo'[i], F) \/ ~Has(todo'[j], O)
    BY DEF Ordered
  <2>1. Len(s) \in Nat /\ Len(todo) \in Nat /\ todo[m] \in Steps(N)
    OBVIOUS
  <2>2. Ordered(s, F, O)
    BY <1>2, <2>1, ExpandsOrdered
  <2>3. CASE i \in 1..Len(s) /\ todo'[i] = s[i]
    <3>1. CASE j \in 1..Len(s) /\ todo'[j] = s[j]
      BY <2>2, <2>3, <3>1 DEF Ordered
    <3>2. ASSUME NEW k \in m + 1..Len(todo), todo'[j] = todo[k]
          PROVE  ~Has(todo'[i], F) \/ ~Has(todo'[j], O)
      <4>1. Has(s[i], F) => Has(todo[m], F)
        BY <1>2, <2>1, <2>3, ExpandsHas
      <4>2. ~Has(todo[m], F) \/ ~Has(todo[k], O)
        BY <2>1 DEF Ordered
      <4> QED
        BY <2>3, <3>2, <4>1, <4>2
    <3> QED
      BY <1>2, <3>1, <3>2, Zenon DEF Cut
  <2>4. ASSUME NEW a \in m + 1..Len(todo), a = i - Len(s) + m,
               todo'[i] = todo[a]
        PROVE  ~Has(todo'[i], F) \/ ~Has(todo'[j], O)
    <3>1. ~(j \in 1..Len(s))
      BY <2>1, <2>4
    <3>2. PICK b \in m + 1..Len(todo) :
            b = j - Len(s) + m /\ todo'[j] = todo[b]
      BY <1>2, <3>1, Zenon DEF Cut
    <3>3. a < b /\ a \in 1..Len(todo) /\ b \in 1..Len(todo)
      BY <2>1, <2>4, <3>2, SMTT(60)
    <3> QED
      BY <2>4, <3>2, <3>3 DEF Ordered
  <2> QED
    BY <1>2, <2>3, <2>4, Zenon DEF Cut
<1> QED
  BY <1>1, <1>2, StepCut

\* It brings nothing that was not there.
LEMMA FreeStep ==
    ASSUME NEW N, N \subseteq ScriptNode(N), todo \in Seq(Steps(N)), OpNext,
           NEW F, Upward(N, F), Free(todo, F)
    PROVE  Free(todo', F)
<1>1. CASE todo' = <<>>
  BY <1>1 DEF Free
<1>2. ASSUME NEW m \in 1..Len(todo), NEW s \in Seq(Steps(N)),
             Expands(todo[m], s), Cut(todo, todo', m, s)
      PROVE  Free(todo', F)
  <2>1. ~Has(todo[m], F) /\ \A k \in m + 1..Len(todo) : ~Has(todo[k], F)
    BY DEF Free
  <2>2. todo' \in Seq(Steps(N))
    BY StepCut
  <2>3. PICK t, r : t = todo /\ r = todo'
    OBVIOUS
  <2>4. /\ t \in Seq(Steps(N)) /\ m \in 1..Len(t) /\ r \in Seq(Steps(N))
        /\ Expands(t[m], s) /\ Cut(t, r, m, s) /\ ~Has(t[m], F)
        /\ \A k \in m + 1..Len(t) : ~Has(t[k], F)
    BY <1>2, <2>1, <2>2, <2>3
  <2>5. Free(r, F)
    BY <2>4, FreeCut
  <2> QED
    BY <2>3, <2>5
<1> QED
  BY <1>1, <1>2, StepCut


-----------------------------------------------------------------------------
(* Nothing is made after a failure is forgotten                            *)

LEMMA HavingUpward ==
    ASSUME provider \in DOMAIN Catalogue,
           operation \in DOMAIN Catalogue[provider],
           NEW deeds \in {{"forget"}, {"make"}, Changes}
    PROVE  /\ Upward(Here, Having(Here, deeds))
           /\ \A n \in Here :
                Deeds(n) \cap deeds # {} => n \in Having(Here, deeds)
<1>1. Nested(provider, operation)
  BY CatalogueOf, Zenon
<1>2. \A n \in Here :
        \/ Deeds(n) \cap deeds # {}
        \/ (Elements(n.body) \cup Elements(n.other))
             \cap Having(Here, deeds) # {}
        => n \in Having(Here, deeds)
  BY <1>1, Zenon DEF Nested, Here
<1>3. Having(Here, deeds) \subseteq Here
  BY DEF Having
<1> QED
  BY <1>2, <1>3, Zenon DEF Upward

Forgets == Having(Here, {"forget"})
Makes == Having(Here, {"make"})

\* What the next node does tells which of the sets it is in.
LEMMA HeadDeeds ==
    ASSUME OpTypeOK, todo # <<>>
    PROVE  /\ Head(todo) = todo[1] /\ 1 \in 1..Len(todo)
           /\ todo[1] \in Steps(Here)
           /\ Head(todo).does # "catch" => Head(todo) \in Here
           /\ Head(todo).does = "forget" => Has(todo[1], Forgets)
           /\ Head(todo).does \in Requests /\ Head(todo).unread =>
                Has(todo[1], Forgets)
           /\ Head(todo).does = "make" => Has(todo[1], Makes)
           /\ Head(todo).does \in Changes =>
                Has(todo[1], Having(Here, Changes))
<1>1. Head(todo) = todo[1] /\ 1 \in 1..Len(todo) /\ todo[1] \in Steps(Here)
  BY DEF OpTypeOK
<1>2. Here \subseteq ScriptNode(Here)
  BY HereNodes DEF OpTypeOK
<1>3. Head(todo).does # "catch" => Head(todo) \in Here
  BY <1>1, <1>2, StepParts
<1>4. ASSUME NEW deeds \in {{"forget"}, {"make"}, Changes},
             Head(todo).does # "catch", Deeds(Head(todo)) \cap deeds # {}
      PROVE  Has(todo[1], Having(Here, deeds))
  <2>1. Head(todo) \in Having(Here, deeds)
    BY <1>3, <1>4, HavingUpward, Zenon DEF OpTypeOK
  <2> QED
    BY <1>1, <2>1, Zenon DEF Has
<1>5. Head(todo).does \in Deeds(Head(todo))
  BY DEF Deeds
<1>6. Head(todo).unread => "forget" \in Deeds(Head(todo))
  BY DEF Deeds
<1>7. "catch" \notin Requests /\ "catch" \notin Changes
  BY DEF Requests, Changes
<1>8. Head(todo).does = "forget" => Has(todo[1], Forgets)
  BY <1>4, <1>5 DEF Forgets
<1>9. Head(todo).does \in Requests /\ Head(todo).unread =>
        Has(todo[1], Forgets)
  BY <1>4, <1>6, <1>7 DEF Forgets
<1>10. Head(todo).does = "make" => Has(todo[1], Makes)
  BY <1>4, <1>5 DEF Makes
<1>11. Head(todo).does \in Changes => Has(todo[1], Having(Here, Changes))
  BY <1>4, <1>5, <1>7
<1> QED
  BY <1>1, <1>3, <1>8, <1>9, <1>10, <1>11

\* After the first node is done with, the rest is as free as it was.
LEMMA FreeTail ==
    ASSUME NEW N, N \subseteq ScriptNode(N), todo \in Seq(Steps(N)),
           todo # <<>>, NEW F, Upward(N, F), Becomes(<<>>),
           \A k \in 2..Len(todo) : ~Has(todo[k], F)
    PROVE  Free(todo', F)
<1>1. 1 \in 1..Len(todo) /\ todo' = <<>> \o SubSeq(todo, 1 + 1, Len(todo))
  BY BecomesAt
<1>2. PICK t, r, s : t = todo /\ r = todo' /\ s = <<>>
  OBVIOUS
<1>3. /\ t \in Seq(Steps(N)) /\ 1 \in 1..Len(t) /\ s \in Seq(Steps(N))
      /\ r = s \o SubSeq(t, 1 + 1, Len(t))
  BY <1>1, <1>2
<1>4. r \in Seq(Steps(N)) /\ Cut(t, r, 1, s)
  BY <1>3, CutElements
<1>5. Expands(t[1], s) /\ s = <<>>
  BY <1>2 DEF Expands
<1>6. \A k \in 1 + 1..Len(t) : ~Has(t[k], F)
  BY <1>2
<1>7. Free(r, F)
  BY <1>3, <1>4, <1>5, <1>6, FreeCut
<1> QED
  BY <1>2, <1>7

\* What comes after the first of one kind is free of the other.
LEMMA OrderedTail ==
    ASSUME NEW S, todo \in Seq(S), todo # <<>>, NEW F, NEW O,
           Ordered(todo, F, O), Has(todo[1], F)
    PROVE  \A k \in 2..Len(todo) : ~Has(todo[k], O)
<1>1. \A k \in 2..Len(todo) : 1 \in 1..Len(todo) /\ k \in 1..Len(todo) /\ 1 < k
  OBVIOUS
<1> QED
  BY <1>1, Zenon DEF Ordered

\* While a failure is hidden there is nothing left to make.
NotBlind ==
    <<provider, operation>> \notin MayBeBlind =>
      /\ Ordered(todo, Forgets, Makes)
      /\ hidden # {} => Free(todo, Makes)
      /\ ~blind

LEMMA NotBlindInit ==
    ASSUME OpInit
    PROVE  NotBlind
<1> SUFFICES ASSUME <<provider, operation>> \notin MayBeBlind
             PROVE  Ordered(todo, Forgets, Makes)
  BY DEF OpInit, NotBlind
<1>1. OpTypeOK
  BY OpTypeInit
<1>2. Sighted(provider, operation)
  BY <1>1, CatalogueOf, Zenon DEF OpTypeOK
<1>3. Never(todo, Forgets, Makes)
  BY <1>2, Zenon DEF Sighted, OpInit, Called, Script, Forgets, Makes, Here
<1>4. Here \subseteq ScriptNode(Here) /\ todo \in Seq(Here)
  BY <1>1, HereNodes DEF OpTypeOK, OpInit, Called, Script
<1> QED
  BY <1>3, <1>4, NeverOrdered

LEMMA NotBlindStep ==
    ASSUME OpTypeOK, NotBlind, [OpNext]_opVars
    PROVE  NotBlind'
<1>1. CASE UNCHANGED opVars
  BY <1>1 DEF opVars, NotBlind, Forgets, Makes, Here
<1>2. CASE OpNext
  <2> DEFINE N == Here
             F == Forgets
             M == Makes
  <2>1. /\ N \subseteq ScriptNode(N) /\ todo \in Seq(Steps(N))
        /\ Upward(N, F) /\ Upward(N, M)
    BY HereNodes, HavingUpward DEF OpTypeOK, Forgets, Makes
  <2>2. provider' = provider /\ operation' = operation
    <3> HIDE DEF N
    <3> QED
      BY <1>2, <2>1, StepShape
  <2>3. F' = F /\ M' = M
    BY <2>2 DEF Forgets, Makes, Here
  <2> SUFFICES ASSUME <<provider, operation>> \notin MayBeBlind
               PROVE  /\ Ordered(todo', F, M)
                      /\ hidden' # {} => Free(todo', M)
                      /\ ~blind'
    BY <2>2, <2>3 DEF NotBlind
  <2>4. /\ Ordered(todo, F, M) /\ ~blind
        /\ hidden # {} => Free(todo, M)
    BY DEF NotBlind
  <2>5. NeverWithin(N, F, M)
    <3>1. Sighted(provider, operation)
      BY CatalogueOf, Zenon DEF OpTypeOK
    <3> QED
      BY <3>1, Zenon DEF Sighted, Forgets, Makes, Here
  <2>6. todo # <<>> => /\ Head(todo).does = "forget" => Has(todo[1], F)
                       /\ Head(todo).does = "make" => Has(todo[1], M)
                       /\ Head(todo).does \in Requests /\ Head(todo).unread
                            => Has(todo[1], F)
    BY HeadDeeds
  <2> HIDE DEF N, F, M
  <2>7. Ordered(todo', F, M)
    BY <1>2, <2>1, <2>4, <2>5, OrderStep
  <2>8. hidden # {} => Free(todo', M)
    BY <1>2, <2>1, <2>4, FreeStep
  <2>9. ASSUME todo # <<>>, Becomes(<<>>), Has(todo[1], F)
        PROVE  Free(todo', M)
    <3>1. \A k \in 2..Len(todo) : ~Has(todo[k], M)
      BY <2>1, <2>4, <2>9, OrderedTail
    <3> QED
      BY <2>1, <2>9, <3>1, FreeTail
  <2>10. ASSUME NEW way, Send(way)
         PROVE  (hidden' # {} => Free(todo', M)) /\ ~blind'
    <3>1. todo # <<>> /\ Head(todo).does \in Requests
      BY <2>10 DEF Send, Heads
    <3>2. hidden' = hidden \/ (Becomes(<<>>) /\ Head(todo).unread)
      BY <2>10, Zenon DEF Send, Unseen
    <3>3. hidden' # {} => Free(todo', M)
      BY <2>6, <2>8, <2>9, <3>1, <3>2
    <3>4. hidden # {} => Head(todo).does # "make"
      <4>1. hidden # {} => ~Has(todo[1], M)
        BY <2>1, <2>4, <3>1 DEF Free
      <4> QED
        BY <2>6, <3>1, <4>1
    <3>5. blind' = (blind \/ (Head(todo).does = "make" /\ hidden # {}))
      BY <2>10, Zenon DEF Send
    <3> QED
      BY <2>4, <3>3, <3>4, <3>5
  <2>11. CASE Overlook
    BY <2>4, <2>6, <2>7, <2>9, <2>11 DEF Overlook, Heads, SameCall
  <2>12. CASE Branch \/ Repeat \/ Enter \/ Leave \/ Report \/ Fails \/ Finish
    <3>1. hidden' = hidden /\ blind' = blind
      BY <2>12
      DEF Branch, Repeat, Enter, Leave, Report, Fails, Finish, SameCall
    <3> QED
      BY <2>4, <2>7, <2>8, <3>1
  <2> QED
    BY <1>2, <2>7, <2>10, <2>11, <2>12 DEF OpNext
<1> QED
  BY <1>1, <1>2


-----------------------------------------------------------------------------
(* What a script begins with                                               *)

\* A node that begins with one of these is one, or a block that does.
LEMMA BeginningParts ==
    ASSUME NEW all, NEW nodes, NEW n \in Beginning(all, nodes)
    PROVE  \/ n \in nodes
           \/ n \in all /\ n.does = "try"
                /\ Leads(n.body, Beginning(all, nodes))
           \/ /\ n \in all /\ n.does = "either"
              /\ Leads(n.body, Beginning(all, nodes))
              /\ Leads(n.other, Beginning(all, nodes))
<1> DEFINE A1 == Opening(all, nodes)
           A2 == Opening(all, A1)
           A3 == Opening(all, A2)
           A4 == Opening(all, A3)
<1>1. Beginning(all, nodes) = A4
  BY Zenon DEF Beginning, Twice
<1>2. \A X : X \subseteq Opening(all, X)
  BY DEF Opening
<1>3. nodes \subseteq A1 /\ A1 \subseteq A2 /\ A2 \subseteq A3
      /\ A3 \subseteq A4
  BY <1>2
<1>4. ASSUME NEW X, X \subseteq A4, NEW k \in Opening(all, X), k \notin X
      PROVE  \/ k \in all /\ k.does = "try" /\ Leads(k.body, A4)
             \/ /\ k \in all /\ k.does = "either"
                /\ Leads(k.body, A4) /\ Leads(k.other, A4)
  BY <1>4 DEF Opening, Leads
<1>5. n \in nodes \/ (n \in A1 /\ n \notin nodes) \/ (n \in A2 /\ n \notin A1)
      \/ (n \in A3 /\ n \notin A2) \/ (n \in A4 /\ n \notin A3)
  BY <1>1
<1>6. nodes \subseteq A4 /\ A1 \subseteq A4 /\ A2 \subseteq A4
      /\ A3 \subseteq A4
  BY <1>3
<1> QED
  BY <1>1, <1>4, <1>5, <1>6, Zenon

LEMMA BecomesLeads ==
    ASSUME NEW S, todo \in Seq(S), todo # <<>>, NEW s \in Seq(S),
           NEW nodes, Leads(s, nodes), Becomes(s)
    PROVE  Leads(todo', nodes)
<1>1. todo' = s \o Tail(todo) /\ s # <<>> /\ Head(s) \in nodes
  BY DEF Becomes, Leads
<1>2. Tail(todo) \in Seq(S)
  OBVIOUS
<1>3. s \o Tail(todo) # <<>> /\ Head(s \o Tail(todo)) = Head(s)
  BY <1>1, <1>2
<1> QED
  BY <1>1, <1>3 DEF Leads

\* So does the block with what comes after it.
LEMMA OpenedBlock ==
    ASSUME NEW S, todo \in Seq(S), todo # <<>>, NEW b \in Seq(S), NEW y \in S,
           NEW nodes, Opened(b, nodes), Becomes(b \o <<y>>)
    PROVE  Opened(todo', nodes)
<1> DEFINE u == <<y>> \o Tail(todo)
<1>1. u \in Seq(S)
  OBVIOUS
<1>2. todo' = b \o u
  BY DEF Becomes
<1> HIDE DEF u
<1>3. CASE Leads(b, nodes)
  <2>1. b # <<>> /\ Head(b) \in nodes
    BY <1>3 DEF Leads
  <2>2. b \o u # <<>> /\ Head(b \o u) = Head(b)
    BY <1>1, <2>1
  <2> QED
    BY <1>2, <2>1, <2>2 DEF Opened, Leads
<1>4. CASE /\ b # <<>>
           /\ Head(b).does = "either" /\ Head(b).other = <<>>
           /\ Leads(Head(b).body, nodes) /\ Leads(Tail(b), nodes)
  <2>1. b # <<>> /\ Tail(b) # <<>> /\ Head(Tail(b)) \in nodes
    BY <1>4 DEF Leads
  <2>2. b \o u # <<>> /\ Head(b \o u) = Head(b)
    BY <1>1, <2>1
  <2>3. Tail(b) \in Seq(S) /\ Len(b) \in Nat /\ Len(b) >= 2
        /\ Head(Tail(b)) = b[2]
    BY <2>1
  <2>4. Tail(b \o u) # <<>> /\ Head(Tail(b \o u)) = b[2]
    <3>1. PICK w : w = b \o u
      OBVIOUS
    <3>2. /\ b \o u \in Seq(S) /\ Len(b \o u) = Len(b) + Len(u)
          /\ \A i \in 1..Len(b) + Len(u) :
               (b \o u)[i] = IF i <= Len(b) THEN b[i] ELSE u[i - Len(b)]
      BY <1>1, ConcatProperties, Zenon
    <3>3. w \in Seq(S) /\ Len(w) = Len(b) + Len(u)
          /\ \A i \in 1..Len(b) + Len(u) :
               w[i] = IF i <= Len(b) THEN b[i] ELSE u[i - Len(b)]
      BY <3>1, <3>2
    <3>4. Len(w) >= 2 /\ w[2] = b[2]
      BY <1>1, <2>3, <3>3
    <3>5. w # <<>>
      BY <3>4
    <3>6. Tail(w) \in Seq(S) /\ Len(Tail(w)) = Len(w) - 1
      BY <3>3, <3>5
    <3>7. Tail(w) # <<>>
      <4>1. PICK v : v = Tail(w)
        OBVIOUS
      <4>2. Len(w) \in Nat
        BY <3>3
      <4>3. Len(v) >= 1
        BY <3>4, <3>6, <4>1, <4>2
      <4>4. v # <<>>
        BY <4>3
      <4> QED
        BY <4>1, <4>4
    <3>8. Tail(w)[1] = w[2]
      BY <3>3, <3>4
    <3>9. Head(Tail(w)) = Tail(w)[1]
      BY <3>6, <3>7
    <3> QED
      BY <3>1, <3>4, <3>7, <3>8, <3>9
  <2>5. Leads(Tail(b \o u), nodes)
    BY <2>1, <2>3, <2>4 DEF Leads
  <2> QED
    BY <1>2, <1>4, <2>2, <2>5, Zenon DEF Opened
<1> QED
  BY <1>3, <1>4, Zenon DEF Opened

\* Which action carries out the next node.
LEMMA ActionOf ==
    ASSUME OpNext, todo # <<>>
    PROVE  /\ Head(todo).does \in Requests => \E way : Send(way)
           /\ Head(todo).does = "either" => Branch
           /\ Head(todo).does = "tell" => Report
           /\ Head(todo).does = "forget" => Overlook
           /\ Head(todo).does \in {"raise", "reraise"} => Fails
           /\ Head(todo).does = "try" => Enter
           /\ last' = last \/ (\E way : Send(way))
           /\ Head(todo).does = "catch" => Leave
BY DEF OpNext, Send, Branch, Repeat, Enter, Leave, Report, Overlook, Fails,
     Finish, Heads, SameCall, Requests

\* What begins with a read goes on to begin with one until it has read.
LEMMA OpenedStep ==
    ASSUME NEW N, N \subseteq ScriptNode(N), todo \in Seq(Steps(N)), OpNext,
           NEW asks, asks = {n \in N : n.does = "ask"},
           Opened(todo, Beginning(N, asks))
    PROVE  last' = "ask" \/ Opened(todo', Beginning(N, asks))
<1> DEFINE R == Beginning(N, asks)
<1>1. todo # <<>> /\ Head(todo) \in Steps(N)
  BY DEF Opened, Leads
<1>2. Head(todo).body \in Seq(Steps(N)) /\ Head(todo).other \in Seq(Steps(N))
  BY <1>1, StepParts, SeqSteps
<1>3. ASSUME NEW s \in Seq(Steps(N)), Leads(s, R), Becomes(s)
      PROVE  Opened(todo', R)
  <2> HIDE DEF R
  <2>1. Leads(todo', R)
    BY <1>1, <1>3, BecomesLeads
  <2> QED
    BY <2>1 DEF Opened
<1>4. CASE Leads(todo, R)
  <2>1. Head(todo) \in R
    BY <1>4 DEF Leads
  <2>2. \/ Head(todo) \in asks
        \/ Head(todo).does = "try" /\ Leads(Head(todo).body, R)
        \/ Head(todo).does = "either"
             /\ Leads(Head(todo).body, R) /\ Leads(Head(todo).other, R)
    BY <2>1, BeginningParts, Zenon
  <2> HIDE DEF R
  <2>3. CASE Head(todo) \in asks
    <3>1. Head(todo).does = "ask" /\ "ask" \in Requests
      BY <2>3 DEF Requests
    <3>2. PICK way : Send(way)
      BY <1>1, <3>1, ActionOf
    <3> QED
      BY <3>1, <3>2 DEF Send
  <2>4. CASE Head(todo).does = "try" /\ Leads(Head(todo).body, R)
    <3>1. Becomes(Head(todo).body \o <<Caught(Head(todo))>>)
      BY <1>1, <2>4, ActionOf DEF Enter
    <3>2. Head(todo) \in N
      BY <1>1, <2>4, StepParts
    <3>3. Caught(Head(todo)) \in Steps(N)
      BY <2>4, <3>2 DEF Steps
    <3>4. Opened(Head(todo).body, R)
      BY <2>4 DEF Opened
    <3>5. PICK b, y : b = Head(todo).body /\ y = Caught(Head(todo))
      OBVIOUS
    <3>6. /\ b \in Seq(Steps(N)) /\ y \in Steps(N) /\ Opened(b, R)
          /\ Becomes(b \o <<y>>)
      BY <1>2, <3>1, <3>3, <3>4, <3>5
    <3>7. Opened(todo', R)
      BY <1>1, <3>6, OpenedBlock
    <3> QED
      BY <3>7 DEF R
  <2>5. CASE /\ Head(todo).does = "either"
             /\ Leads(Head(todo).body, R) /\ Leads(Head(todo).other, R)
    <3>1. Becomes(Head(todo).body) \/ Becomes(Head(todo).other)
      BY <1>1, <2>5, ActionOf DEF Branch
    <3> QED
      BY <1>2, <1>3, <2>5, <3>1 DEF R
  <2> QED
    BY <2>2, <2>3, <2>4, <2>5
<1>5. CASE /\ Head(todo).does = "either" /\ Head(todo).other = <<>>
           /\ Leads(Head(todo).body, R) /\ Leads(Tail(todo), R)
  <2> HIDE DEF R
  <2>1. Becomes(Head(todo).body) \/ Becomes(<<>>)
    BY <1>1, <1>5, ActionOf DEF Branch
  <2>2. CASE Becomes(Head(todo).body)
    BY <1>2, <1>3, <1>5, <2>2 DEF R
  <2>3. CASE Becomes(<<>>)
    <3>1. todo' = Tail(todo)
      <4>1. Tail(todo) \in Seq(Steps(N))
        BY <1>1
      <4>2. todo' = <<>> \o Tail(todo)
        BY <2>3 DEF Becomes
      <4> QED
        BY <4>1, <4>2
    <3>2. Opened(todo', R)
      BY <1>5, <3>1 DEF Opened
    <3> QED
      BY <3>2 DEF R
  <2> QED
    BY <2>1, <2>2, <2>3
<1> QED
  BY <1>4, <1>5, Zenon DEF Opened


-----------------------------------------------------------------------------
(* No failure of a request to change something is forgotten                *)

Writers == Having(Here, Changes)
ReadBlocks == Beginning(Here, {n \in Here : n.does = "ask"})

\* The handler of a block that forgets its failure.
Forgetful(x) == x.does = "catch" /\ ~NoForget(x.other)

\* Nothing is forgotten any more once something may have been changed.
Late ==
    /\ NeverWithin(Here, Writers, Forgets)
    /\ Ordered(todo, Writers, Forgets)
    /\ last \in Changes => Free(todo, Forgets)

\* Only the failure of a read is forgotten, by the handler around it.
Guarded ==
    /\ \A n \in Here : Guards(n, ReadBlocks, Writers)
    /\ \A i \in 2..Len(todo) : todo[i].does # "forget"
    /\ todo # <<>> /\ Head(todo).does = "forget" => last \notin Changes
    /\ \A i \in 1..Len(todo) : Forgetful(todo[i]) =>
         /\ last = "ask" \/ Opened(todo, ReadBlocks)
         /\ \A j \in 1..i - 1 : ~Has(todo[j], Writers)

ReadsHidden ==
    <<provider, operation>> \notin MayBeQuiet =>
      hidden \cap Changes = {} /\ (Late \/ Guarded)

LEMMA ReadsHiddenInit ==
    ASSUME OpInit
    PROVE  ReadsHidden
<1> SUFFICES ASSUME <<provider, operation>> \notin MayBeQuiet
             PROVE  Late \/ Guarded
  BY DEF OpInit, ReadsHidden
<1>1. OpTypeOK
  BY OpTypeInit
<1>2. Here \subseteq ScriptNode(Here) /\ todo \in Seq(Here)
      /\ todo = Script(provider, operation)
  BY <1>1, HereNodes DEF OpTypeOK, OpInit, Called, Script
<1>3. last = "none" /\ "none" \notin Changes
  BY DEF OpInit, Changes, Requests
<1>4. Frank(provider, operation)
  BY <1>1, CatalogueOf, Zenon DEF OpTypeOK
<1>5. CASE /\ Never(todo, Writers, Forgets)
           /\ NeverWithin(Here, Writers, Forgets)
  <2>1. Ordered(todo, Writers, Forgets)
    BY <1>2, <1>5, NeverOrdered
  <2> QED
    BY <1>3, <1>5, <2>1 DEF Late
<1>6. CASE NoForget(todo) /\ \A n \in Here : Guards(n, ReadBlocks, Writers)
  <2>1. ASSUME NEW i \in 1..Len(todo)
        PROVE  todo[i].does # "forget" /\ todo[i].does # "catch"
    <3>1. todo[i] \in Here /\ i \in DOMAIN todo
      BY <1>2
    <3>2. todo[i].does \in Words
      BY <1>2, <3>1, NodeParts
    <3> QED
      BY <1>6, <3>1, <3>2 DEF NoForget, Words, Requests
  <2>2. \A i \in 2..Len(todo) : i \in 1..Len(todo)
    BY <1>2
  <2> QED
    BY <1>3, <1>6, <2>1, <2>2 DEF Guarded, Forgetful
<1> QED
  BY <1>2, <1>4, <1>5, <1>6, Zenon
  DEF Frank, Writers, Forgets, ReadBlocks, Here

\* A request that fails unread is a read.
LEMMA UnreadReads ==
    ASSUME OpTypeOK, <<provider, operation>> \notin MayBeQuiet, todo # <<>>,
           Head(todo).does \in Requests, Head(todo).unread
    PROVE  Head(todo).does = "ask"
<1>1. Frank(provider, operation)
  BY CatalogueOf, Zenon DEF OpTypeOK
<1>2. Head(todo).does # "catch"
  BY DEF Requests
<1>3. Head(todo) \in Here
  BY <1>2, HeadDeeds
<1> QED
  BY <1>1, <1>3, Zenon DEF Frank, Here

\* What a step adds to the hidden failures.
LEMMA HiddenStep ==
    ASSUME OpTypeOK, <<provider, operation>> \notin MayBeQuiet, OpNext
    PROVE  \/ hidden' = hidden \/ hidden' = hidden \cup {"ask"}
           \/ /\ todo # <<>> /\ Head(todo).does = "forget" /\ last' = last
              /\ hidden' \subseteq hidden \cup {last}
<1>1. ASSUME NEW way, Send(way)
      PROVE  hidden' = hidden \/ hidden' = hidden \cup {"ask"}
  <2>1. todo # <<>> /\ Head(todo).does \in Requests
    BY <1>1 DEF Send, Heads
  <2>2. \/ hidden' = hidden
        \/ Head(todo).unread /\ hidden' = hidden \cup {last'}
    BY <1>1, Zenon DEF Send, Unseen
  <2>3. last' = Head(todo).does
    BY <1>1, Zenon DEF Send
  <2> QED
    BY <2>1, <2>2, <2>3, UnreadReads
<1>2. CASE Overlook
  BY <1>2 DEF Overlook, Heads, SameCall
<1>3. CASE Branch \/ Repeat \/ Enter \/ Leave \/ Report \/ Fails \/ Finish
  BY <1>3 DEF Branch, Repeat, Enter, Leave, Report, Fails, Finish
<1> QED
  BY <1>1, <1>2, <1>3 DEF OpNext

LEMMA LateStep ==
    ASSUME OpTypeOK, Late, OpNext
    PROVE  /\ Late'
           /\ todo # <<>> /\ Head(todo).does = "forget" => last \notin Changes
<1> DEFINE N == Here
           W == Writers
           F == Forgets
<1>1. /\ N \subseteq ScriptNode(N) /\ todo \in Seq(Steps(N))
      /\ Upward(N, W) /\ Upward(N, F)
  BY HereNodes, HavingUpward DEF OpTypeOK, Writers, Forgets
<1>2. N' = N /\ W' = W /\ F' = F
  <2>1. provider' = provider /\ operation' = operation
    <3> HIDE DEF N
    <3> QED
      BY <1>1, StepShape
  <2> QED
    BY <2>1 DEF Here, Writers, Forgets
<1>3. NeverWithin(N, W, F) /\ Ordered(todo, W, F)
      /\ (last \in Changes => Free(todo, F))
  BY DEF Late
<1>4. todo # <<>> => /\ 1 \in 1..Len(todo)
                     /\ Head(todo).does = "forget" => Has(todo[1], F)
                     /\ Head(todo).does \in Changes => Has(todo[1], W)
  BY HeadDeeds DEF Writers
<1> SUFFICES /\ NeverWithin(N, W, F) /\ Ordered(todo', W, F)
             /\ last' \in Changes => Free(todo', F)
             /\ todo # <<>> /\ Head(todo).does = "forget"
                  => last \notin Changes
  BY <1>2 DEF Late
<1> HIDE DEF N, W, F
<1>5. Ordered(todo', W, F)
  BY <1>1, <1>3, OrderStep
<1>6. last \in Changes => Free(todo', F)
  BY <1>1, <1>3, FreeStep
<1>7. ASSUME todo # <<>>, Head(todo).does = "forget"
      PROVE  last \notin Changes
  BY <1>3, <1>4, <1>7 DEF Free
<1>8. ASSUME NEW way, Send(way), last' \in Changes
      PROVE  Free(todo', F)
  <2>1. todo # <<>> /\ Head(todo).does \in Changes
    BY <1>8, Zenon DEF Send, Heads
  <2>2. \A k \in 2..Len(todo) : ~Has(todo[k], F)
    BY <1>1, <1>3, <1>4, <2>1, OrderedTail
  <2>3. CASE todo' = <<>>
    BY <2>3 DEF Free
  <2>4. ASSUME NEW m \in 1..Len(todo), NEW s \in Seq(Steps(N)),
               Expands(todo[m], s), Taken(m, s), Cut(todo, todo', m, s)
        PROVE  Free(todo', F)
    <3>1. PICK t, r : t = todo /\ r = todo'
      OBVIOUS
    <3>2. s = <<>> \/ ~Has(todo[m], F)
      <4>1. CASE m = 1
        <5>1. todo[1].does \in Changes
          BY <1>1, <2>1
        <5>2. todo[1].does \in Requests /\ s = <<>>
          BY <2>4, <4>1, <5>1 DEF Expands, Changes, Requests
        <5> QED
          BY <5>2
      <4>2. CASE m \in 2..Len(todo)
        BY <2>2, <4>2
      <4> QED
        BY <1>1, <4>1, <4>2
    <3>3. r \in Seq(Steps(N))
      BY <1>1, <3>1, StepCut
    <3>4. \A k \in m + 1..Len(t) : ~Has(t[k], F)
      BY <1>1, <2>2, <3>1
    <3>5. /\ t \in Seq(Steps(N)) /\ m \in 1..Len(t) /\ Expands(t[m], s)
          /\ Cut(t, r, m, s) /\ (s = <<>> \/ ~Has(t[m], F))
      BY <1>1, <2>4, <3>1, <3>2
    <3>6. Free(r, F)
      BY <1>1, <3>3, <3>4, <3>5, FreeCut
    <3> QED
      BY <3>1, <3>6
  <2> QED
    BY <1>1, <2>3, <2>4, StepCut
<1>9. last' = last \/ \E way : Send(way)
  BY DEF OpNext, Branch, Repeat, Enter, Leave, Report, Overlook, Fails,
     Finish, SameCall
<1> QED
  BY <1>3, <1>5, <1>6, <1>7, <1>8, <1>9


\* Only the handler of a block forgets anything, and first thing.
LEMMA ExpandsForget ==
    ASSUME NEW N, N \subseteq ScriptNode(N), NEW R, NEW W,
           \A n \in N : Guards(n, R, W),
           NEW x \in Steps(N), NEW s \in Seq(Steps(N)), Expands(x, s),
           NEW i \in 1..Len(s), s[i].does = "forget"
    PROVE  i = 1 /\ Forgetful(x) /\ s = x.other
<1>1. x.body \in Seq(N) /\ x.other \in Seq(N)
  BY StepParts
<1>2. ASSUME NEW n \in N, NEW k \in 1..Len(n.body)
      PROVE  n.body[k].does # "forget"
  <2>1. n.body \in Seq(N)
    BY NodeParts
  <2>2. k \in DOMAIN n.body
    BY <2>1
  <2> QED
    BY <2>2 DEF Guards, NoForget
<1>3. ASSUME NEW y \in Steps(N), y.does # "forget", x \in N,
             s = x.body \o <<y>>
      PROVE  FALSE
  <2>1. x.body \in Seq(Steps(N))
    BY <1>1, SeqSteps
  <2>2. /\ Len(s) = Len(x.body) + 1 /\ s[Len(x.body) + 1] = y
        /\ \A k \in 1..Len(x.body) : s[k] = x.body[k]
    BY <1>3, <2>1, AppendElements
  <2>3. i \in 1..Len(x.body) \/ i = Len(x.body) + 1
    BY <1>1, <2>2
  <2> QED
    BY <1>2, <1>3, <2>2, <2>3
<1>4. CASE s = <<>>
  BY <1>4
<1>5. CASE x.does = "either" /\ s \in {x.body, x.other}
  <2>1. x \in N
    BY <1>5, StepParts
  <2>2. NoForget(x.body) /\ NoForget(x.other)
    BY <1>5, <2>1 DEF Guards
  <2>3. i \in DOMAIN s
    BY <1>1, <1>5
  <2> QED
    BY <1>5, <2>2, <2>3 DEF NoForget
<1>6. CASE x.does = "catch" /\ s = x.other
  <2>1. PICK n \in N : n.does = "try" /\ x = Caught(n)
    BY <1>6, StepParts
  <2>2. x.other = n.other
    BY <2>1, NodeParts
  <2>3. i \in DOMAIN x.other
    BY <1>1, <1>6
  <2>4. ~NoForget(x.other)
    BY <1>6, <2>3 DEF NoForget
  <2>5. x.other # <<>> /\ NoForget(Tail(x.other))
    BY <2>2, <2>4 DEF Guards
  <2>6. i = 1
    <3>1. SUFFICES ASSUME i # 1
                   PROVE  FALSE
      OBVIOUS
    <3>2. PICK v, u : v = x.other /\ u = Tail(v)
      OBVIOUS
    <3>3. v \in Seq(N) /\ v # <<>> /\ i \in 1..Len(v) /\ s = v
      BY <1>1, <1>6, <2>5, <3>2
    <3>4. i - 1 \in 1..Len(u) /\ u \in Seq(N) /\ u[i - 1] = v[i]
      BY <3>1, <3>2, <3>3
    <3>5. i - 1 \in DOMAIN u
      BY <3>4
    <3> QED
      BY <2>5, <3>2, <3>3, <3>4, <3>5 DEF NoForget
  <2> QED
    BY <1>6, <2>4, <2>6 DEF Forgetful
<1>7. CASE x.does = "each" /\ s = x.body \o <<x>>
  <2>1. x \in N
    BY <1>7, StepParts
  <2> QED
    BY <1>3, <1>7, <2>1
<1>8. CASE x.does = "try" /\ s = x.body \o <<Caught(x)>>
  <2>1. x \in N
    BY <1>8, StepParts
  <2>2. Caught(x) \in Steps(N) /\ Caught(x).does # "forget"
    BY <1>8, <2>1, NodeParts DEF Steps
  <2> QED
    BY <1>3, <1>8, <2>1, <2>2
<1> QED
  BY <1>4, <1>5, <1>6, <1>7, <1>8 DEF Expands

\* A handler comes with the block that is entered.
LEMMA ExpandsCatch ==
    ASSUME NEW N, N \subseteq ScriptNode(N),
           NEW x \in Steps(N), NEW s \in Seq(Steps(N)), Expands(x, s),
           NEW i \in 1..Len(s), s[i].does = "catch"
    PROVE  /\ x \in N /\ x.does = "try" /\ s[i] = Caught(x)
           /\ x.body \in Seq(N) /\ Len(s) = Len(x.body) + 1 /\ i = Len(s)
           /\ \A j \in 1..Len(x.body) : s[j] = x.body[j]
<1>1. x.body \in Seq(N) /\ x.other \in Seq(N)
  BY StepParts
<1>2. \A n \in N : n.does # "catch"
  BY NodeParts DEF Words, Requests
<1>3. s \notin {<<>>, x.body, x.other}
  BY <1>1, <1>2
<1>4. ASSUME NEW y \in Steps(N), s = x.body \o <<y>>
      PROVE  /\ Len(s) = Len(x.body) + 1 /\ i = Len(s) /\ s[i] = y
             /\ \A j \in 1..Len(x.body) : s[j] = x.body[j]
  <2>1. x.body \in Seq(Steps(N))
    BY <1>1, SeqSteps
  <2>2. /\ Len(s) = Len(x.body) + 1 /\ s[Len(x.body) + 1] = y
        /\ \A k \in 1..Len(x.body) : s[k] = x.body[k]
    BY <1>4, <2>1, AppendElements
  <2>3. i \notin 1..Len(x.body)
    <3>1. ASSUME i \in 1..Len(x.body)
          PROVE  FALSE
      <4>1. s[i] = x.body[i] /\ x.body[i] \in N
        BY <1>1, <2>2, <3>1
      <4> QED
        BY <1>2, <4>1
    <3> QED
      BY <3>1
  <2> QED
    BY <1>1, <2>2, <2>3
<1>5. CASE x.does = "each" /\ s = x.body \o <<x>>
  <2>1. s[i] = x
    BY <1>4, <1>5
  <2> QED
    BY <1>5, <2>1
<1>6. CASE x.does = "try" /\ s = x.body \o <<Caught(x)>>
  <2>1. x \in N
    BY <1>6, StepParts
  <2>2. Caught(x) \in Steps(N)
    BY <1>6, <2>1 DEF Steps
  <2> QED
    BY <1>1, <1>4, <1>6, <2>1, <2>2
<1> QED
  BY <1>3, <1>5, <1>6 DEF Expands


\* While the handler around it forgets its failure, a block reads before it can
\* fail.
LEMMA ReadFirst ==
    ASSUME OpTypeOK, Guarded, OpNext, NEW k \in 2..Len(todo),
           Forgetful(todo[k])
    PROVE  /\ last' = "ask" \/ Opened(todo', ReadBlocks)
           /\ Head(todo).does \in Requests \cup {"raise", "reraise"} =>
                last' = "ask"
<1> DEFINE N == Here
           asks == {n \in N : n.does = "ask"}
<1>1. ReadBlocks = Beginning(N, asks)
  BY DEF ReadBlocks
<1>2. N \subseteq ScriptNode(N) /\ todo \in Seq(Steps(N)) /\ todo # <<>>
  BY HereNodes DEF OpTypeOK
<1>3. k \in 1..Len(todo) /\ 1 \in 1..k - 1
  BY <1>2
<1>4. (last = "ask" \/ Opened(todo, ReadBlocks)) /\ ~Has(todo[1], Writers)
  BY <1>3 DEF Guarded
<1>5. Head(todo).does \notin Changes
  BY <1>2, <1>4, HeadDeeds DEF Writers
<1>6. last' = last \/ last' = "ask"
  <2>1. last' = last \/ \E way : Send(way)
    BY <1>2, ActionOf
  <2>2. (\E way : Send(way)) =>
          last' = Head(todo).does /\ Head(todo).does \in Requests
    BY DEF Send, Heads
  <2> QED
    BY <1>5, <2>1, <2>2 DEF Changes
<1>7. CASE last = "ask"
  BY <1>6, <1>7
<1>8. CASE Opened(todo, ReadBlocks)
  <2>1. last' = "ask" \/ Opened(todo', ReadBlocks)
    <3> HIDE DEF N
    <3>1. Opened(todo, Beginning(N, asks))
      BY <1>1, <1>8
    <3>2. PICK reads : reads = asks
      OBVIOUS
    <3>3. reads = {n \in N : n.does = "ask"} /\ Opened(todo, Beginning(N, reads))
      BY <3>1, <3>2
    <3>4. last' = "ask" \/ Opened(todo', Beginning(N, reads))
      BY <1>2, <3>3, OpenedStep
    <3> QED
      BY <1>1, <3>2, <3>4
  <2>2. Head(todo).does \in {"ask", "try", "either"}
    <3>1. CASE Head(todo) \in ReadBlocks
      <4>1. \/ Head(todo) \in asks \/ Head(todo).does \in {"try", "either"}
        BY <1>1, <3>1, BeginningParts, Zenon
      <4> QED
        BY <4>1
    <3> QED
      BY <1>8, <3>1 DEF Opened, Leads
  <2>3. Head(todo).does \in Requests \cup {"raise", "reraise"} =>
          Head(todo).does = "ask"
    BY <2>2 DEF Requests
  <2>4. Head(todo).does = "ask" => last' = "ask"
    <3>1. SUFFICES ASSUME Head(todo).does = "ask"
                   PROVE  last' = "ask"
      OBVIOUS
    <3>2. PICK way : Send(way)
      BY <1>2, <3>1, ActionOf DEF Requests
    <3> QED
      BY <3>1, <3>2, Zenon DEF Send
  <2> QED
    BY <2>1, <2>3, <2>4
<1> QED
  BY <1>4, <1>7, <1>8

LEMMA GuardedStep ==
    ASSUME OpTypeOK, Guarded, OpNext
    PROVE  Guarded'
<1> DEFINE N == Here
           W == Writers
           R == ReadBlocks
<1>1. /\ N \subseteq ScriptNode(N) /\ todo \in Seq(Steps(N))
      /\ Upward(N, W)
  BY HereNodes, HavingUpward DEF OpTypeOK, Writers
<1>2. N' = N /\ W' = W /\ R' = R
  <2>1. provider' = provider /\ operation' = operation
    <3> HIDE DEF N
    <3> QED
      BY <1>1, StepShape
  <2> QED
    BY <2>1 DEF Here, Writers, ReadBlocks
<1>3. /\ \A n \in N : Guards(n, R, W)
      /\ \A i \in 2..Len(todo) : todo[i].does # "forget"
      /\ \A i \in 1..Len(todo) : Forgetful(todo[i]) =>
           \A j \in 1..i - 1 : ~Has(todo[j], W)
  BY DEF Guarded
<1>4. ASSUME NEW k \in 2..Len(todo), Forgetful(todo[k])
      PROVE  /\ last' = "ask" \/ Opened(todo', R)
             /\ Head(todo).does \in Requests \cup {"raise", "reraise"} =>
                  last' = "ask"
  BY <1>4, ReadFirst
<1> SUFFICES /\ \A i \in 2..Len(todo') : todo'[i].does # "forget"
             /\ todo' # <<>> /\ Head(todo').does = "forget"
                  => last' \notin Changes
             /\ \A i \in 1..Len(todo') : Forgetful(todo'[i]) =>
                  /\ last' = "ask" \/ Opened(todo', R)
                  /\ \A j \in 1..i - 1 : ~Has(todo'[j], W)
  BY <1>2, <1>3 DEF Guarded
<1> HIDE DEF N, W, R
<1>5. todo' \in Seq(Steps(N))
  BY <1>1, StepCut
<1>6. CASE todo' = <<>>
  BY <1>6
<1>7. ASSUME NEW m \in 1..Len(todo), NEW s \in Seq(Steps(N)),
             Expands(todo[m], s), Taken(m, s), Cut(todo, todo', m, s)
      PROVE  /\ \A i \in 2..Len(todo') : todo'[i].does # "forget"
             /\ todo' # <<>> /\ Head(todo').does = "forget"
                  => last' \notin Changes
             /\ \A i \in 1..Len(todo') : Forgetful(todo'[i]) =>
                  /\ last' = "ask" \/ Opened(todo', R)
                  /\ \A j \in 1..i - 1 : ~Has(todo'[j], W)
  <2>1. /\ todo[m] \in Steps(N) /\ Len(s) \in Nat /\ Len(todo) \in Nat
        /\ m \in Int
    BY <1>1
  <2>2. \A i \in 1..Len(s) : s[i].does = "forget" =>
          i = 1 /\ Forgetful(todo[m]) /\ s = todo[m].other
    BY <1>1, <1>3, <1>7, <2>1, ExpandsForget,
       ZenonT(60)
  <2>3. \A k \in m + 1..Len(todo) : k \in 2..Len(todo)
    BY <2>1
  <2>4. ASSUME NEW i \in 2..Len(todo')
        PROVE  todo'[i].does # "forget"
    <3>1. i \in 1..Len(todo') /\ i # 1
      BY <1>5
    <3>2. CASE i \in 1..Len(s) /\ todo'[i] = s[i]
      BY <2>2, <3>1, <3>2
    <3>3. CASE \E k \in m + 1..Len(todo) : todo'[i] = todo[k]
      BY <1>3, <2>3, <3>3
    <3> QED
      BY <1>7, <3>1, <3>2, <3>3, Zenon DEF Cut
  <2>5. ASSUME todo' # <<>>, Head(todo').does = "forget"
        PROVE  last' \notin Changes
    <3>1. 1 \in 1..Len(todo') /\ todo'[1].does = "forget"
      BY <1>5, <2>5
    <3>2. 1 \in 1..Len(s) /\ todo'[1] = s[1]
      <4>1. CASE \E k \in m + 1..Len(todo) : todo'[1] = todo[k]
        BY <1>3, <2>3, <3>1, <4>1
      <4> QED
        BY <1>7, <3>1, <4>1, Zenon DEF Cut
    <3>3. Forgetful(todo[m]) /\ s # <<>>
      BY <2>2, <3>1, <3>2
    <3>4. todo[m].does = "catch"
          /\ Head(todo).does \in Requests \cup {"raise", "reraise"}
      BY <1>7, <3>3 DEF Taken, Forgetful
    <3>5. m # 1
      <4>1. Head(todo) = todo[1]
        BY <1>1
      <4> QED
        BY <3>4, <4>1 DEF Requests
    <3>6. m \in 2..Len(todo)
      BY <2>1, <3>5
    <3>7. last' = "ask"
      BY <1>4, <3>3, <3>4, <3>6
    <3> QED
      BY <3>7 DEF Changes
  <2>6. ASSUME NEW i \in 1..Len(todo'), Forgetful(todo'[i]),
               i \in 1..Len(s), todo'[i] = s[i]
        PROVE  /\ Opened(todo', R)
               /\ \A j \in 1..i - 1 : ~Has(todo'[j], W)
    <3> DEFINE x == todo[m]
    <3>1. s[i].does = "catch"
      BY <2>6 DEF Forgetful
    <3>2. /\ x \in N /\ x.does = "try" /\ s[i] = Caught(x)
          /\ x.body \in Seq(N) /\ Len(s) = Len(x.body) + 1 /\ i = Len(s)
          /\ \A j \in 1..Len(x.body) : s[j] = x.body[j]
      BY <1>1, <1>7, <2>1, <2>6, <3>1, ExpandsCatch
    <3>3. m = 1 /\ Head(todo) = x /\ todo # <<>>
      BY <1>1, <1>7, <3>2 DEF Taken
    <3>4. ~NoForget(x.other)
      <4>1. Caught(x).other = x.other
        BY <1>1, <3>2, NodeParts
      <4> QED
        BY <2>6, <3>2, <4>1 DEF Forgetful
    <3>5. Elements(x.body) \cap W = {} /\ Opened(x.body, R)
      BY <1>3, <3>2, <3>4 DEF Guards
    <3>6. Opened(todo', R)
      <4>1. PICK b, y : b = x.body /\ y = Caught(x)
        OBVIOUS
      <4>2. Becomes(b \o <<y>>)
        BY <3>2, <3>3, <4>1, ActionOf DEF Enter
      <4>3. y \in Steps(N) /\ b \in Seq(Steps(N)) /\ Opened(b, R)
        BY <3>2, <3>5, <4>1, SeqSteps DEF Steps
      <4> QED
        BY <1>1, <3>3, <4>2, <4>3, OpenedBlock
    <3>7. ASSUME NEW j \in 1..i - 1
          PROVE  ~Has(todo'[j], W)
      <4>1. j \in 1..Len(x.body) /\ j \in 1..Len(todo') /\ j \in 1..Len(s)
        BY <1>5, <2>1, <3>2
      <4>2. ~(\E k \in m + 1..Len(todo) : k = j - Len(s) + m)
        BY <2>1, <4>1
      <4>3. todo'[j] = s[j]
        BY <1>7, <4>1, <4>2, Zenon DEF Cut
      <4>4. x.body[j] \in N /\ x.body[j] \in Elements(x.body)
        BY <3>2, <4>1, ElementOf
      <4>5. x.body[j] \notin W
        BY <3>5, <4>4
      <4> QED
        BY <1>1, <3>2, <4>1, <4>3, <4>4, <4>5, HasNode
    <3> QED
      BY <3>6, <3>7
  <2>7. ASSUME NEW i \in 1..Len(todo'), Forgetful(todo'[i]),
               NEW k \in m + 1..Len(todo), k = i - Len(s) + m,
               todo'[i] = todo[k]
        PROVE  /\ last' = "ask" \/ Opened(todo', R)
               /\ \A j \in 1..i - 1 : ~Has(todo'[j], W)
    <3>1. k \in 2..Len(todo) /\ k \in 1..Len(todo) /\ Forgetful(todo[k])
      BY <2>1, <2>3, <2>7
    <3>2. \A j \in 1..k - 1 : ~Has(todo[j], W)
      BY <1>3, <3>1
    <3>3. ASSUME NEW j \in 1..i - 1
          PROVE  ~Has(todo'[j], W)
      <4>1. j \in 1..Len(todo')
        BY <1>5
      <4>2. CASE j \in 1..Len(s) /\ todo'[j] = s[j]
        <5>1. m \in 1..k - 1
          BY <2>1, <3>1
        <5>2. ~Has(todo[m], W)
          BY <3>2, <5>1
        <5> QED
          BY <1>1, <1>7, <2>1, <4>2, <5>2, ExpandsHas
      <4>3. ASSUME NEW h \in m + 1..Len(todo), h = j - Len(s) + m,
                   todo'[j] = todo[h]
            PROVE  ~Has(todo'[j], W)
        <5>1. h \in 1..k - 1
          BY <2>1, <2>7, <4>3
        <5> QED
          BY <3>2, <4>3, <5>1
      <4> QED
        BY <1>7, <4>1, <4>2, <4>3, Zenon DEF Cut
    <3>4. last' = "ask" \/ Opened(todo', R)
      BY <1>4, <3>1
    <3> QED
      BY <3>3, <3>4
  <2>8. ASSUME NEW i \in 1..Len(todo'), Forgetful(todo'[i])
        PROVE  /\ last' = "ask" \/ Opened(todo', R)
               /\ \A j \in 1..i - 1 : ~Has(todo'[j], W)
    <3>1. \/ i \in 1..Len(s) /\ todo'[i] = s[i]
          \/ \E k \in m + 1..Len(todo) :
               k = i - Len(s) + m /\ todo'[i] = todo[k]
      BY <1>7, Zenon DEF Cut
    <3> QED
      BY <2>6, <2>7, <2>8, <3>1
  <2> QED
    BY <2>4, <2>5, <2>8
<1> QED
  BY <1>1, <1>6, <1>7, StepCut

LEMMA ReadsHiddenStep ==
    ASSUME OpTypeOK, ReadsHidden, [OpNext]_opVars
    PROVE  ReadsHidden'
<1>1. CASE UNCHANGED opVars
  BY <1>1 DEF opVars, ReadsHidden, Late, Guarded, Writers, ReadBlocks, Forgets,
     Here
<1>2. CASE OpNext
  <2>1. provider' = provider /\ operation' = operation
    BY <1>2 DEF OpNext, Send, Branch, Repeat, Enter, Leave, Report, Overlook,
       Fails, Finish, SameCall
  <2> SUFFICES ASSUME <<provider, operation>> \notin MayBeQuiet
               PROVE  hidden' \cap Changes = {} /\ (Late' \/ Guarded')
    BY <2>1 DEF ReadsHidden
  <2>2. hidden \cap Changes = {} /\ (Late \/ Guarded)
    BY DEF ReadsHidden
  <2>3. /\ Late' \/ Guarded'
        /\ todo # <<>> /\ Head(todo).does = "forget" => last \notin Changes
    <3>1. CASE Late
      BY <1>2, <3>1, LateStep, Zenon
    <3>2. CASE Guarded
      BY <1>2, <3>2, GuardedStep, Zenon DEF Guarded
    <3> QED
      BY <2>2, <3>1, <3>2
  <2>4. "ask" \notin Changes
    BY DEF Changes
  <2>5. hidden' \cap Changes = {}
    BY <1>2, <2>2, <2>3, <2>4, HiddenStep
  <2> QED
    BY <2>3, <2>5
<1> QED
  BY <1>1, <1>2

\* No operation of any catalogue but the named ones returns as if nothing had
\* happened after a request to change something failed, or makes something on
\* the strength of an answer that is missing (the except blocks of the
\* adapters, and the statuses their clients do not look at).
THEOREM OpNothingHidden == OpSpec => []NothingHidden
<1> DEFINE Inv == OpTypeOK /\ NotBlind /\ ReadsHidden
<1>1. OpInit => Inv
  BY OpTypeInit, NotBlindInit, ReadsHiddenInit
<1>2. Inv /\ [OpNext]_opVars => Inv'
  BY OpTypeStep, NotBlindStep, ReadsHiddenStep
<1>3. Inv => NothingHidden
  BY DEF NotBlind, ReadsHidden, NothingHidden, WriteTold
<1> QED
  BY <1>1, <1>2, <1>3, PTL DEF OpSpec

-----------------------------------------------------------------------------
(* A refusal is heard                                                      *)

\* The handler of a block of which every failure is told.
Teller(x) == x.does = "catch" /\ x.kinds = Errors /\ x.other = Tell

\* Such a handler is still to come after the i-th.
Sheltered(t, i) == \E j \in i + 1..Len(t) : Teller(t[j])

ExposedHere == Exposed(Script(provider, operation))
CoveredHere == Covered(Script(provider, operation))

\* What is within such a block comes before its handler.
Placed ==
    \A i \in 1..Len(todo) :
      /\ Sheltered(todo, i) => todo[i] \in Steps(CoveredHere)
      /\ ~Sheltered(todo, i) => todo[i] \in Steps(ExposedHere)

Begins(nodes, kinds) == Leads(todo, Beginning(nodes, Facing(nodes, kinds)))

\* The script goes on to deal with the refusal.
Hearing ==
    /\ outcome = "none" /\ todo # <<>>
    /\ \/ Head(todo).does = "tell"
       \/ error = "auth" /\ Begins(ExposedHere, {"auth"})
       \/ /\ Sheltered(todo, 1) /\ error \in {"auth", "broken"}
          /\ Begins(CoveredHere, {"auth", "broken"})

Unanswered == refused /\ ~told

\* The operations that RefusalHeard is about.
Heedful ==
    provider \notin Unheard /\ <<provider, operation>> \notin MayBeDeaf

RefusalTaken ==
    Heedful =>
      Placed /\ (Unanswered => outcome = "auth" \/ Hearing)

\* How the nodes of a script are nested.
LEMMA Enclosed ==
    ASSUME provider \in DOMAIN Catalogue,
           operation \in DOMAIN Catalogue[provider]
    PROVE  /\ ExposedHere \subseteq Here /\ CoveredHere \subseteq Here
           /\ Elements(Script(provider, operation)) \subseteq ExposedHere
           /\ \A n \in ExposedHere :
                /\ Elements(n.other) \subseteq ExposedHere
                /\ ~Tells(n) => Elements(n.body) \subseteq ExposedHere
                /\ Tells(n) => Elements(n.body) \subseteq CoveredHere
           /\ \A n \in CoveredHere :
                /\ Elements(n.other) \subseteq CoveredHere
                /\ Elements(n.body) \subseteq CoveredHere
<1>1. Nested(provider, operation)
  BY CatalogueOf, Zenon
<1> DEFINE E == ExposedHere
           C == CoveredHere
<1>2. /\ E \subseteq Here /\ C \subseteq Here
      /\ Elements(Script(provider, operation)) \subseteq E
      /\ \A n \in E :
           /\ Elements(n.other) \subseteq E
           /\ Elements(n.body) \subseteq IF Tells(n) THEN C ELSE E
      /\ \A n \in C : Elements(n.body) \cup Elements(n.other) \subseteq C
  BY <1>1, Zenon DEF Nested, Here, ExposedHere, CoveredHere
<1> HIDE DEF E, C
<1>3. \A n \in E : /\ ~Tells(n) => Elements(n.body) \subseteq E
                   /\ Tells(n) => Elements(n.body) \subseteq C
  BY <1>2
<1>4. \A n \in C : Elements(n.other) \subseteq C /\ Elements(n.body) \subseteq C
  BY <1>2
<1> QED
  BY <1>2, <1>3, <1>4 DEF E, C

LEMMA StepsWithin ==
    ASSUME NEW M, NEW N, M \subseteq N, NEW x \in Steps(M)
    PROVE  x \in Steps(N)
BY DEF Steps

LEMMA TellerOf ==
    ASSUME NEW N, N \subseteq ScriptNode(N), NEW n \in N, n.does = "try"
    PROVE  Teller(Caught(n)) <=> Tells(n)
BY NodeParts DEF Teller, Tells

\* What takes the place of one of these is one of these, but in the body of a
\* block of which every failure is told.
LEMMA ExpandsWithin ==
    ASSUME NEW N, N \subseteq ScriptNode(N), NEW M, M \subseteq N,
           \A n \in M : Elements(n.other) \subseteq M,
           \A n \in M : ~Tells(n) => Elements(n.body) \subseteq M,
           NEW x \in Steps(M), NEW s \in Seq(Steps(N)), Expands(x, s),
           NEW i \in 1..Len(s)
    PROVE  \/ s[i] \in Steps(M)
           \/ /\ x \in M /\ Tells(x) /\ s[i] \in Elements(x.body)
              /\ i < Len(s) /\ Teller(s[Len(s)])
<1>1. x \in Steps(N) /\ M \subseteq Steps(M)
  BY StepsWithin DEF Steps
<1>2. x.body \in Seq(N) /\ x.other \in Seq(N)
  BY <1>1, StepParts
<1>3. x.does # "catch" => x \in M
  <2>1. \A n \in M : Caught(n).does = "catch"
    BY NodeParts
  <2> QED
    BY <2>1 DEF Steps
<1>4. ASSUME NEW k \in 1..Len(x.other)
      PROVE  x.other[k] \in Steps(M)
  <2>1. x.other[k] \in Elements(x.other)
    BY <1>2, ElementOf
  <2>2. Elements(x.other) \subseteq M
    <3>1. CASE x \in M
      BY <3>1
    <3>2. ASSUME NEW n \in M, x = Caught(n)
          PROVE  Elements(x.other) \subseteq M
      <4>1. x.other = n.other
        BY <3>2, NodeParts
      <4> QED
        BY <4>1
    <3> QED
      BY <3>1, <3>2 DEF Steps
  <2> QED
    BY <1>1, <2>1, <2>2
<1>5. ASSUME x \in M, NEW k \in 1..Len(x.body)
      PROVE  /\ x.body[k] \in Elements(x.body)
             /\ ~Tells(x) => x.body[k] \in Steps(M)
  <2>1. x.body[k] \in Elements(x.body)
    BY <1>2, ElementOf
  <2> QED
    BY <1>1, <1>5, <2>1
<1>6. ASSUME NEW y \in Steps(M), s = x.body \o <<y>>, x \in M,
             Tells(x) => Teller(y)
      PROVE  \/ s[i] \in Steps(M)
             \/ /\ x \in M /\ Tells(x) /\ s[i] \in Elements(x.body)
                /\ i < Len(s) /\ Teller(s[Len(s)])
  <2>1. x.body \in Seq(Steps(N)) /\ y \in Steps(N)
    BY <1>2, <1>6, SeqSteps, StepsWithin
  <2>2. /\ Len(s) = Len(x.body) + 1 /\ s[Len(x.body) + 1] = y
        /\ \A k \in 1..Len(x.body) : s[k] = x.body[k]
    BY <1>6, <2>1, AppendElements
  <2>3. Len(x.body) \in Nat
    BY <1>2
  <2>4. CASE i = Len(x.body) + 1
    BY <1>6, <2>2, <2>4
  <2>5. CASE i \in 1..Len(x.body)
    <3>1. s[i] = x.body[i] /\ i < Len(s)
      BY <2>2, <2>3, <2>5
    <3> QED
      BY <1>5, <1>6, <2>2, <2>5, <3>1
  <2> QED
    BY <2>2, <2>3, <2>4, <2>5
<1>7. CASE s = <<>>
  BY <1>7
<1>8. CASE x.does = "either" /\ s \in {x.body, x.other}
  <2>1. x \in M /\ ~Tells(x)
    BY <1>3, <1>8 DEF Tells
  <2> QED
    BY <1>4, <1>5, <1>8, <2>1
<1>9. CASE x.does = "catch" /\ s = x.other
  BY <1>4, <1>9
<1>10. CASE x.does = "each" /\ s = x.body \o <<x>>
  <2>1. x \in M /\ ~Tells(x)
    BY <1>3, <1>10 DEF Tells
  <2> QED
    BY <1>6, <1>10, <2>1
<1>11. CASE x.does = "try" /\ s = x.body \o <<Caught(x)>>
  <2>1. x \in M
    BY <1>3, <1>11
  <2>2. Tells(x) => Teller(Caught(x))
    BY <1>11, <2>1, TellerOf
  <2>3. Caught(x) \in Steps(M)
    BY <1>11, <2>1 DEF Steps
  <2> QED
    BY <1>6, <1>11, <2>1, <2>2, <2>3
<1> QED
  BY <1>7, <1>8, <1>9, <1>10, <1>11 DEF Expands

\* The same handlers are still to come.
LEMMA ShelterCut ==
    ASSUME NEW S, NEW t \in Seq(S), NEW s \in Seq(S), NEW r \in Seq(S),
           NEW m \in 1..Len(t), Cut(t, r, m, s)
    PROVE  /\ Sheltered(t, m) => \A i \in 1..Len(s) : Sheltered(r, i)
           /\ \A i \in 1..Len(r), k \in m + 1..Len(t) :
                k = i - Len(s) + m => (Sheltered(r, i) <=> Sheltered(t, k))
           /\ \A i \in 1..Len(s) :
                Sheltered(r, i) =>
                  \/ Sheltered(t, m)
                  \/ \E j \in i + 1..Len(s) : Teller(s[j])
<1>1. Len(s) \in Nat /\ Len(t) \in Nat /\ Len(r) \in Nat /\ m \in Int
  OBVIOUS
<1>2. ASSUME NEW j \in m + 1..Len(t)
      PROVE  /\ j - m + Len(s) \in Len(s) + 1..Len(r)
             /\ r[j - m + Len(s)] = t[j]
  <2>1. /\ j - m + Len(s) \in Len(s) + 1..Len(r)
        /\ j - m + Len(s) \in 1..Len(r)
        /\ ~(j - m + Len(s) \in 1..Len(s))
    BY <1>1 DEF Cut
  <2>2. PICK k \in m + 1..Len(t) :
          /\ k = (j - m + Len(s)) - Len(s) + m
          /\ r[j - m + Len(s)] = t[k]
    BY <2>1, Zenon DEF Cut
  <2>3. k = j
    BY <1>1, <2>2
  <2> QED
    BY <2>1, <2>2, <2>3
<1>3. ASSUME Sheltered(t, m), NEW i \in 1..Len(s)
      PROVE  Sheltered(r, i)
  <2>1. PICK j \in m + 1..Len(t) : Teller(t[j])
    BY <1>3 DEF Sheltered
  <2>2. PICK h : h = j - m + Len(s)
    OBVIOUS
  <2>3. h \in Len(s) + 1..Len(r) /\ r[h] = t[j]
    BY <1>2, <2>2
  <2>4. h \in i + 1..Len(r)
    BY <1>1, <2>3
  <2> QED
    BY <2>1, <2>3, <2>4 DEF Sheltered
<1>4. ASSUME NEW i \in 1..Len(r), NEW k \in m + 1..Len(t),
             k = i - Len(s) + m
      PROVE  Sheltered(r, i) <=> Sheltered(t, k)
  <2>1. ASSUME NEW j \in k + 1..Len(t), Teller(t[j])
        PROVE  Sheltered(r, i)
    <3>1. j \in m + 1..Len(t)
      BY <1>1
    <3>2. PICK h : h = j - m + Len(s)
      OBVIOUS
    <3>3. h \in Len(s) + 1..Len(r) /\ r[h] = t[j]
      BY <1>2, <3>1, <3>2
    <3>4. h \in i + 1..Len(r)
      BY <1>1, <1>4, <3>2, <3>3, SMTT(60)
    <3> QED
      BY <2>1, <3>3, <3>4 DEF Sheltered
  <2>2. ASSUME NEW j \in i + 1..Len(r), Teller(r[j])
        PROVE  Sheltered(t, k)
    <3>1. j \in 1..Len(r) /\ ~(j \in 1..Len(s))
      BY <1>1, <1>4
    <3>2. PICK h \in m + 1..Len(t) : h = j - Len(s) + m /\ r[j] = t[h]
      BY <3>1, Zenon DEF Cut
    <3>3. h \in k + 1..Len(t)
      BY <1>1, <1>4, <3>2
    <3> QED
      BY <2>2, <3>2, <3>3 DEF Sheltered
  <2> QED
    BY <2>1, <2>2 DEF Sheltered
<1>5. ASSUME NEW i \in 1..Len(s), Sheltered(r, i)
      PROVE  \/ Sheltered(t, m)
             \/ \E j \in i + 1..Len(s) : Teller(s[j])
  <2>1. PICK j \in i + 1..Len(r) : Teller(r[j])
    BY <1>5 DEF Sheltered
  <2>2. j \in 1..Len(r)
    BY <1>1
  <2>3. CASE j \in 1..Len(s) /\ r[j] = s[j]
    <3>1. j \in i + 1..Len(s)
      BY <1>1, <2>3
    <3> QED
      BY <2>1, <2>3, <3>1
  <2>4. CASE \E k \in m + 1..Len(t) : r[j] = t[k]
    BY <2>1, <2>4 DEF Sheltered
  <2> QED
    BY <2>2, <2>3, <2>4, Zenon DEF Cut
<1> QED
  BY <1>3, <1>4, <1>5


LEMMA PlacedInit ==
    ASSUME OpInit
    PROVE  Placed
<1>1. OpTypeOK
  BY OpTypeInit
<1>2. Here \subseteq ScriptNode(Here) /\ todo \in Seq(Here)
      /\ todo = Script(provider, operation)
  BY <1>1, HereNodes DEF OpTypeOK, OpInit, Called, Script
<1>3. Elements(todo) \subseteq ExposedHere
  BY <1>1, <1>2, Enclosed DEF OpTypeOK
<1> SUFFICES ASSUME NEW i \in 1..Len(todo)
             PROVE  ~Sheltered(todo, i) /\ todo[i] \in Steps(ExposedHere)
  BY DEF Placed
<1>4. todo[i] \in Elements(todo)
  BY <1>2, ElementOf
<1>5. \A n \in Here : n.does # "catch"
  BY <1>2, NodeParts DEF Words, Requests
<1>6. \A j \in i + 1..Len(todo) : todo[j] \in Here
  BY <1>2
<1> QED
  BY <1>3, <1>4, <1>5, <1>6 DEF Sheltered, Teller, Steps

LEMMA PlacedStep ==
    ASSUME OpTypeOK, Placed, OpNext
    PROVE  Placed'
<1> DEFINE N == Here
           E == ExposedHere
           C == CoveredHere
<1>1. N \subseteq ScriptNode(N) /\ todo \in Seq(Steps(N))
  BY HereNodes DEF OpTypeOK
<1>2. /\ E \subseteq N /\ C \subseteq N
      /\ \A n \in E : /\ Elements(n.other) \subseteq E
                      /\ ~Tells(n) => Elements(n.body) \subseteq E
                      /\ Tells(n) => Elements(n.body) \subseteq C
      /\ \A n \in C : Elements(n.other) \subseteq C /\ Elements(n.body) \subseteq C
  BY Enclosed DEF OpTypeOK
<1>3. E' = E /\ C' = C
  <2>1. provider' = provider /\ operation' = operation
    <3> HIDE DEF N
    <3> QED
      BY <1>1, StepShape
  <2> QED
    BY <2>1 DEF ExposedHere, CoveredHere
<1>4. \A i \in 1..Len(todo) :
        /\ Sheltered(todo, i) => todo[i] \in Steps(C)
        /\ ~Sheltered(todo, i) => todo[i] \in Steps(E)
  BY DEF Placed
<1> SUFFICES \A i \in 1..Len(todo') :
               /\ Sheltered(todo', i) => todo'[i] \in Steps(C)
               /\ ~Sheltered(todo', i) => todo'[i] \in Steps(E)
  BY <1>3 DEF Placed
<1> HIDE DEF N, E, C
<1>5. todo' \in Seq(Steps(N))
  BY <1>1, StepCut
<1>6. CASE todo' = <<>>
  BY <1>6
<1>7. ASSUME NEW m \in 1..Len(todo), NEW s \in Seq(Steps(N)),
             Expands(todo[m], s), Cut(todo, todo', m, s)
      PROVE  \A i \in 1..Len(todo') :
               /\ Sheltered(todo', i) => todo'[i] \in Steps(C)
               /\ ~Sheltered(todo', i) => todo'[i] \in Steps(E)
  <2> DEFINE x == todo[m]
  <2>1. /\ Sheltered(todo, m) => \A i \in 1..Len(s) : Sheltered(todo', i)
        /\ \A i \in 1..Len(todo'), k \in m + 1..Len(todo) :
             k = i - Len(s) + m =>
               (Sheltered(todo', i) <=> Sheltered(todo, k))
        /\ \A i \in 1..Len(s) :
             Sheltered(todo', i) =>
               \/ Sheltered(todo, m)
               \/ \E j \in i + 1..Len(s) : Teller(s[j])
    <3>1. PICK t, r : t = todo /\ r = todo'
      OBVIOUS
    <3>2. /\ t \in Seq(Steps(N)) /\ r \in Seq(Steps(N)) /\ m \in 1..Len(t)
          /\ Cut(t, r, m, s)
      BY <1>1, <1>5, <1>7, <3>1
    <3>3. /\ Sheltered(t, m) => \A i \in 1..Len(s) : Sheltered(r, i)
          /\ \A i \in 1..Len(r), k \in m + 1..Len(t) :
               k = i - Len(s) + m => (Sheltered(r, i) <=> Sheltered(t, k))
          /\ \A i \in 1..Len(s) :
               Sheltered(r, i) =>
                 \/ Sheltered(t, m)
                 \/ \E j \in i + 1..Len(s) : Teller(s[j])
      BY <3>2, ShelterCut
    <3> QED
      BY <3>1, <3>3, Zenon
  <2>2. x \in Steps(N) /\ Len(s) \in Nat /\ Len(todo) \in Nat /\ m \in Int
    BY <1>1
  <2> SUFFICES ASSUME NEW i \in 1..Len(todo')
               PROVE  /\ Sheltered(todo', i) => todo'[i] \in Steps(C)
                      /\ ~Sheltered(todo', i) => todo'[i] \in Steps(E)
    OBVIOUS
  <2>3. CASE \E k \in m + 1..Len(todo) :
               k = i - Len(s) + m /\ todo'[i] = todo[k]
    <3>1. PICK k \in m + 1..Len(todo) :
            k = i - Len(s) + m /\ todo'[i] = todo[k]
      BY <2>3
    <3>2. k \in 1..Len(todo)
      BY <2>2
    <3>3. Sheltered(todo', i) <=> Sheltered(todo, k)
      BY <2>1, <3>1
    <3> QED
      BY <1>4, <3>1, <3>2, <3>3
  <2>4. CASE i \in 1..Len(s) /\ todo'[i] = s[i]
    <3>1. ASSUME x \in Steps(C)
          PROVE  s[i] \in Steps(C)
      <4>1. \/ s[i] \in Steps(C)
            \/ x \in C /\ s[i] \in Elements(x.body)
        <5>1. PICK y : y = x
          OBVIOUS
        <5>2. y \in Steps(C) /\ Expands(y, s) /\ i \in 1..Len(s)
          BY <1>7, <2>4, <3>1, <5>1
        <5>3. \/ s[i] \in Steps(C)
              \/ y \in C /\ s[i] \in Elements(y.body)
          BY <1>1, <1>2, <5>2, ExpandsWithin
        <5> QED
          BY <5>1, <5>3
      <4> QED
        BY <1>2, <4>1 DEF Steps
    <3>2. CASE Sheltered(todo, m)
      <4>1. x \in Steps(C) /\ Sheltered(todo', i)
        BY <1>4, <2>1, <2>4, <3>2
      <4> QED
        BY <2>4, <3>1, <4>1
    <3>3. CASE ~Sheltered(todo, m)
      <4>1. x \in Steps(E)
        BY <1>4, <3>3
      <4>2. \/ s[i] \in Steps(E)
            \/ /\ x \in E /\ Tells(x) /\ s[i] \in Elements(x.body)
               /\ i < Len(s) /\ Teller(s[Len(s)])
        <5>1. PICK y : y = x
          OBVIOUS
        <5>2. y \in Steps(E) /\ Expands(y, s) /\ i \in 1..Len(s)
          BY <1>7, <2>4, <4>1, <5>1
        <5>3. \/ s[i] \in Steps(E)
              \/ /\ y \in E /\ Tells(y) /\ s[i] \in Elements(y.body)
                 /\ i < Len(s) /\ Teller(s[Len(s)])
          BY <1>1, <1>2, <5>2, ExpandsWithin
        <5> QED
          BY <5>1, <5>3
      <4>3. CASE Sheltered(todo', i)
        <5>1. PICK j \in i + 1..Len(s) : Teller(s[j])
          BY <2>1, <2>4, <3>3, <4>3
        <5>2. j \in 1..Len(s) /\ i < j /\ i \in Int /\ j \in Int
          BY <2>2, <2>4
        <5>3. s[j].does = "catch"
          BY <5>1 DEF Teller
        <5>4. /\ x \in N /\ x.does = "try" /\ s[j] = Caught(x)
              /\ x.body \in Seq(N) /\ Len(s) = Len(x.body) + 1
              /\ j = Len(s)
              /\ \A k \in 1..Len(x.body) : s[k] = x.body[k]
          BY <1>1, <1>7, <2>2, <5>2, <5>3, ExpandsCatch
        <5>5. x \in E
          <6>1. \A n \in E : Caught(n).does = "catch"
            BY <1>1, <1>2, NodeParts
          <6> QED
            BY <4>1, <5>4, <6>1 DEF Steps
        <5>6. Tells(x)
          BY <1>1, <5>1, <5>4, TellerOf
        <5>7. i \in 1..Len(x.body)
          BY <2>2, <2>4, <5>2, <5>4
        <5>8. s[i] \in Elements(x.body)
          BY <5>4, <5>7, ElementOf
        <5>9. s[i] \in C
          BY <1>2, <5>5, <5>6, <5>8
        <5> QED
          BY <2>4, <4>3, <5>9 DEF Steps
      <4>4. CASE ~Sheltered(todo', i)
        <5>1. ASSUME i < Len(s), Teller(s[Len(s)])
              PROVE  FALSE
          <6>1. i \in Int /\ Len(todo') \in Nat
            BY <1>5, <2>4
          <6>2. Len(s) \in i + 1..Len(todo') /\ Len(s) \in 1..Len(s)
            BY <1>7, <2>2, <5>1, <6>1 DEF Cut
          <6>3. ~(\E k \in m + 1..Len(todo) : k = Len(s) - Len(s) + m)
            BY <2>2
          <6>4. Len(s) \in 1..Len(todo')
            BY <2>4, <6>1, <6>2
          <6>5. todo'[Len(s)] = s[Len(s)]
            BY <1>7, <6>3, <6>4, Zenon DEF Cut
          <6> QED
            BY <4>4, <5>1, <6>2, <6>5 DEF Sheltered
        <5>2. s[i] \in Steps(E)
          BY <4>2, <5>1
        <5> QED
          BY <2>4, <4>4, <5>2
      <4> QED
        BY <4>3, <4>4
    <3> QED
      BY <3>2, <3>3
  <2> QED
    BY <1>7, <2>3, <2>4, Zenon DEF Cut
<1> QED
  BY <1>1, <1>6, <1>7, StepCut


\* The handlers of the nodes of a script deal with these exceptions.
LEMMA HandlerBegins ==
    ASSUME NEW N, N \subseteq ScriptNode(N), NEW M, M \subseteq N,
           NEW K, Hear(M, K), NEW x \in Steps(M), x.does = "catch",
           NEW kind \in K, kind \in x.kinds
    PROVE  Leads(x.other, Beginning(M, Facing(M, K)))
<1>1. \A n \in M : n.does # "catch"
  BY NodeParts DEF Words, Requests
<1>2. PICK n \in M : n.does = "try" /\ x = Caught(n)
  BY <1>1 DEF Steps
<1>3. x.kinds = n.kinds /\ x.other = n.other
  BY <1>2, NodeParts
<1>4. n.kinds \cap K # {}
  BY <1>3
<1> QED
  BY <1>2, <1>3, <1>4 DEF Hear

\* A refusal that is raised goes to a handler that deals with it, or to the
\* caller; in a block of which every failure is told, so does what is raised in
\* its stead.
LEMMA ThrowHeard ==
    ASSUME OpTypeOK, Heedful, Placed, outcome = "none",
           provider' = provider, operation' = operation,
           NEW kind \in {"auth", "broken"},
           kind = "broken" => Sheltered(todo, 1),
           Throw(kind)
    PROVE  outcome' = "auth" \/ Hearing'
<1> DEFINE N == Here
           E == ExposedHere
           C == CoveredHere
           BE == Beginning(E, Facing(E, {"auth"}))
           BC == Beginning(C, Facing(C, {"auth", "broken"}))
<1>1. /\ N \subseteq ScriptNode(N) /\ todo \in Seq(Steps(N))
      /\ E \subseteq N /\ C \subseteq N
  BY HereNodes, Enclosed DEF OpTypeOK
<1>2. Hear(E, {"auth"}) /\ Hear(C, {"auth", "broken"})
  <2>1. Hears(provider, operation)
    BY CatalogueOf, Zenon DEF OpTypeOK, Heedful
  <2> QED
    BY <2>1, Zenon DEF Hears, ExposedHere, CoveredHere
<1>3. E' = E /\ C' = C
  BY DEF ExposedHere, CoveredHere
<1>4. Hearing' <=>
        /\ outcome' = "none" /\ todo' # <<>>
        /\ \/ Head(todo').does = "tell"
           \/ error' = "auth" /\ Leads(todo', BE)
           \/ /\ Sheltered(todo', 1) /\ error' \in {"auth", "broken"}
              /\ Leads(todo', BC)
  BY <1>3 DEF Hearing, Begins
<1>5. \A i \in 1..Len(todo) :
        /\ Sheltered(todo, i) => todo[i] \in Steps(C)
        /\ ~Sheltered(todo, i) => todo[i] \in Steps(E)
  BY DEF Placed
<1> HIDE DEF N, E, C, BE, BC
<1>6. \A j \in 1..Len(todo) : Teller(todo[j]) => j \in Catchers(kind)
  <2>1. kind \in Errors
    BY DEF Errors, Failures, Answered
  <2>2. DOMAIN todo = 1..Len(todo)
    BY <1>1
  <2> QED
    BY <2>1, <2>2 DEF Teller, Catchers
<1>7. Len(todo) \in Nat
  BY <1>1
<1>8. CASE Catchers(kind) = {} /\ outcome' = kind
  <2>1. kind # "broken"
    <3>1. Sheltered(todo, 1) => Catchers(kind) # {}
      <4>1. \A j \in 1 + 1..Len(todo) : j \in 1..Len(todo)
        BY <1>7
      <4> QED
        BY <1>6, <4>1 DEF Sheltered
    <3> QED
      BY <1>8, <3>1
  <2> QED
    BY <1>8, <2>1
<1>9. ASSUME NEW m \in 1..Len(todo), m \in Catchers(kind),
             \A j \in Catchers(kind) : m <= j, outcome' = outcome,
             todo' = todo[m].other \o SubSeq(todo, m + 1, Len(todo))
      PROVE  Hearing'
  <2> DEFINE x == todo[m]
             s == x.other
  <2>1. /\ x \in Steps(N) /\ x.does = "catch" /\ kind \in x.kinds
        /\ s \in Seq(Steps(N))
    <3>1. x \in Steps(N) /\ x.does = "catch" /\ kind \in x.kinds
      BY <1>1, <1>9 DEF Catchers
    <3>2. s \in Seq(N)
      BY <1>1, <3>1, StepParts
    <3> QED
      BY <3>1, <3>2, SeqSteps
  <2>2. error' = kind
    BY DEF Throw
  <2> HIDE DEF s
  <2>3. ASSUME s # <<>>
        PROVE  /\ todo' # <<>> /\ Head(todo') = Head(s)
               /\ Sheltered(todo, m) => Sheltered(todo', 1)
    <3>1. PICK t, r : t = todo /\ r = todo'
      OBVIOUS
    <3>2. /\ t \in Seq(Steps(N)) /\ m \in 1..Len(t)
          /\ r = s \o SubSeq(t, m + 1, Len(t))
      BY <1>1, <1>9, <3>1 DEF s
    <3>3. r \in Seq(Steps(N)) /\ Cut(t, r, m, s)
      BY <2>1, <3>2, CutElements
    <3>4. 1 \in 1..Len(s) /\ Len(s) \in Nat /\ Head(s) = s[1]
      BY <2>1, <2>3
    <3>5. Sheltered(t, m) => Sheltered(r, 1)
      <4>1. /\ t \in Seq(Steps(N)) /\ s \in Seq(Steps(N))
            /\ r \in Seq(Steps(N)) /\ m \in 1..Len(t) /\ Cut(t, r, m, s)
        BY <2>1, <3>2, <3>3
      <4>2. Sheltered(t, m) => \A i \in 1..Len(s) : Sheltered(r, i)
        BY <4>1, ShelterCut
      <4> QED
        BY <3>4, <4>2
    <3>6. r # <<>> /\ Head(r) = r[1] /\ r[1] = s[1]
      <4>1. m \in Int /\ Len(t) \in Nat /\ m <= Len(t)
        BY <1>7, <3>1
      <4>2. Len(r) >= 1
        BY <3>3, <3>4, <4>1 DEF Cut
      <4>3. r # <<>> /\ Head(r) = r[1] /\ 1 \in 1..Len(r)
        BY <3>3, <4>2
      <4>4. ~(\E k \in m + 1..Len(t) : k = 1 - Len(s) + m)
        BY <3>4, <4>1
      <4>5. r[1] = s[1]
        BY <3>3, <4>3, <4>4, Zenon DEF Cut
      <4> QED
        BY <4>3, <4>5
    <3> QED
      BY <3>1, <3>4, <3>5, <3>6
  <2>4. CASE Sheltered(todo, m)
    <3>1. x \in Steps(C)
      BY <1>5, <2>4
    <3>2. PICK y : y = x
      OBVIOUS
    <3>3. y \in Steps(C) /\ y.does = "catch" /\ kind \in y.kinds
      BY <2>1, <3>1, <3>2
    <3>4. Leads(y.other, Beginning(C, Facing(C, {"auth", "broken"})))
      BY <1>1, <1>2, <3>3, HandlerBegins
    <3>5. Leads(s, BC)
      BY <3>2, <3>4 DEF s, BC
    <3>6. Leads(todo', BC) /\ todo' # <<>> /\ Sheltered(todo', 1)
      BY <2>3, <2>4, <3>5 DEF Leads
    <3> QED
      BY <1>4, <1>9, <2>2, <3>6
  <2>5. CASE ~Sheltered(todo, m) /\ kind = "auth"
    <3>1. x \in Steps(E)
      BY <1>5, <2>5
    <3>2. PICK y : y = x
      OBVIOUS
    <3>3. y \in Steps(E) /\ y.does = "catch" /\ kind \in y.kinds
          /\ kind \in {"auth"}
      BY <2>1, <2>5, <3>1, <3>2
    <3>4. Leads(y.other, Beginning(E, Facing(E, {"auth"})))
      BY <1>1, <1>2, <3>3, HandlerBegins
    <3>5. Leads(s, BE)
      BY <3>2, <3>4 DEF s, BE
    <3>6. Leads(todo', BE) /\ todo' # <<>>
      BY <2>3, <3>5 DEF Leads
    <3> QED
      BY <1>4, <1>9, <2>2, <2>5, <3>6
  <2>6. CASE ~Sheltered(todo, m) /\ kind = "broken"
    <3>1. PICK j \in 1 + 1..Len(todo) : Teller(todo[j])
      BY <2>6 DEF Sheltered
    <3>2. j \in Catchers(kind)
      BY <1>6, <1>7, <3>1
    <3>3. m <= j /\ ~(j \in m + 1..Len(todo))
      BY <1>9, <2>6, <3>1, <3>2 DEF Sheltered
    <3>4. j = m
      BY <1>7, <3>3
    <3>5. s = Tell
      BY <3>1, <3>4 DEF Teller, s
    <3>6. s # <<>> /\ Head(s).does = "tell"
      <4>1. PICK n : n = Node("tell")
        OBVIOUS
      <4>2. n.does = "tell"
        BY <4>1 DEF Node
      <4>3. s = <<n>>
        BY <3>5, <4>1 DEF Tell
      <4> QED
        BY <4>2, <4>3
    <3> QED
      BY <1>4, <1>9, <2>3, <3>6
  <2> QED
    BY <2>4, <2>5, <2>6
<1>10. \/ Catchers(kind) = {} /\ outcome' = kind
       \/ \E m \in 1..Len(todo) :
            /\ m \in Catchers(kind) /\ \A j \in Catchers(kind) : m <= j
            /\ outcome' = outcome
            /\ todo' = todo[m].other \o SubSeq(todo, m + 1, Len(todo))
  BY <1>1, ThrowTo
<1> QED
  BY <1>8, <1>9, <1>10, Zenon


\* A block in place of the next node begins what is left, and the handlers
\* after it are still to come.
LEMMA BlockBegins ==
    ASSUME NEW S, todo \in Seq(S), todo # <<>>, NEW s \in Seq(S),
           NEW nodes, Leads(s, nodes), Becomes(s)
    PROVE  /\ Leads(todo', nodes)
           /\ Sheltered(todo, 1) => Sheltered(todo', 1)
<1>1. Leads(todo', nodes)
  BY BecomesLeads
<1>2. 1 \in 1..Len(todo) /\ todo' = s \o SubSeq(todo, 1 + 1, Len(todo))
  BY BecomesAt
<1>3. PICK t, r, m : t = todo /\ r = todo' /\ m = 1
  OBVIOUS
<1>4. /\ t \in Seq(S) /\ s \in Seq(S) /\ m \in 1..Len(t)
      /\ r = s \o SubSeq(t, m + 1, Len(t))
  BY <1>2, <1>3
<1>5. r \in Seq(S) /\ Cut(t, r, m, s)
  BY <1>4, CutElements
<1>6. Sheltered(t, m) => \A i \in 1..Len(s) : Sheltered(r, i)
  <2>1. /\ t \in Seq(S) /\ s \in Seq(S) /\ r \in Seq(S) /\ m \in 1..Len(t)
        /\ Cut(t, r, m, s)
    BY <1>4, <1>5
  <2> QED
    BY <2>1, ShelterCut
<1>7. 1 \in 1..Len(s)
  BY DEF Leads
<1> QED
  BY <1>1, <1>3, <1>6, <1>7

\* What becomes of a script that begins by dealing with an exception.
LEMMA FacingStep ==
    ASSUME NEW N, N \subseteq ScriptNode(N), todo \in Seq(Steps(N)), OpNext,
           NEW M, NEW K, error \in K, Begins(M, K)
    PROVE  \/ told' = TRUE
           \/ \E kind \in K : Throw(kind)
           \/ /\ Leads(todo', Beginning(M, Facing(M, K)))
              /\ error' = error /\ outcome' = outcome
              /\ Sheltered(todo, 1) => Sheltered(todo', 1)
<1> DEFINE F == Facing(M, K)
           B == Beginning(M, F)
           h == Head(todo)
<1>1. todo # <<>> /\ h \in B /\ h \in Steps(N)
  BY DEF Begins, Leads
<1>2. h.body \in Seq(N) /\ h.other \in Seq(N)
  BY <1>1, StepParts
<1>3. h.body \in Seq(Steps(N)) /\ h.other \in Seq(Steps(N))
  BY <1>2, SeqSteps
<1>4. \/ h \in F
      \/ h.does = "try" /\ Leads(h.body, B)
      \/ h.does = "either" /\ Leads(h.body, B) /\ Leads(h.other, B)
  BY <1>1, BeginningParts, Zenon
<1> HIDE DEF B
<1>5. CASE h \in F
  <2>1. \/ h.does = "tell" \/ h.does = "reraise"
        \/ h.does = "raise" /\ h.kinds \subseteq K
    BY <1>5 DEF Facing
  <2> HIDE DEF F
  <2>3. CASE h.does = "tell"
    BY <1>1, <2>3, ActionOf DEF Report
  <2>5. CASE h.does = "reraise"
    <3>1. Fails
      BY <1>1, <2>5, ActionOf
    <3>2. Throw(error)
      BY <2>5, <3>1, Zenon DEF Fails, Heads
    <3> QED
      BY <3>2
  <2>6. CASE h.does = "raise" /\ h.kinds \subseteq K
    <3>1. Fails
      BY <1>1, <2>6, ActionOf
    <3>2. \E kind \in h.kinds : Throw(kind)
      BY <2>6, <3>1, Zenon DEF Fails, Heads
    <3> QED
      BY <2>6, <3>2
  <2> QED
    BY <2>1, <2>3, <2>5, <2>6
<1>6. ASSUME NEW s \in Seq(Steps(N)), Leads(s, B), Becomes(s)
      PROVE  Leads(todo', B) /\ (Sheltered(todo, 1) => Sheltered(todo', 1))
  BY <1>1, <1>6, BlockBegins
<1>7. CASE h.does = "try" /\ Leads(h.body, B)
  <2>1. Becomes(h.body \o <<Caught(h)>>) /\ error' = error
        /\ outcome' = outcome
    BY <1>1, <1>7, ActionOf DEF Enter
  <2>2. h \in N
    BY <1>1, <1>7, StepParts
  <2>3. Caught(h) \in Steps(N)
    BY <1>7, <2>2 DEF Steps
  <2>4. PICK s : s = h.body \o <<Caught(h)>>
    OBVIOUS
  <2>5. s \in Seq(Steps(N))
    BY <1>3, <2>3, <2>4, AppendElements
  <2>6. Leads(s, B)
    <3>1. PICK b, y : b = h.body /\ y = Caught(h)
      OBVIOUS
    <3>2. b \in Seq(Steps(N)) /\ y \in Steps(N) /\ b # <<>> /\ Head(b) \in B
      BY <1>3, <1>7, <2>3, <3>1 DEF Leads
    <3>3. b \o <<y>> # <<>> /\ Head(b \o <<y>>) = Head(b)
      BY <3>2
    <3> QED
      BY <2>4, <3>1, <3>2, <3>3 DEF Leads
  <2>7. Leads(todo', B) /\ (Sheltered(todo, 1) => Sheltered(todo', 1))
    BY <1>6, <2>1, <2>4, <2>5, <2>6
  <2> QED
    BY <2>1, <2>7 DEF B
<1>8. CASE h.does = "either" /\ Leads(h.body, B) /\ Leads(h.other, B)
  <2>1. (Becomes(h.body) \/ Becomes(h.other)) /\ error' = error
        /\ outcome' = outcome
    BY <1>1, <1>8, ActionOf DEF Branch
  <2>2. Leads(todo', B) /\ (Sheltered(todo, 1) => Sheltered(todo', 1))
    BY <1>3, <1>6, <1>8, <2>1
  <2> QED
    BY <2>1, <2>2 DEF B
<1> QED
  BY <1>4, <1>5, <1>7, <1>8

LEMMA RefusalTakenStep ==
    ASSUME OpTypeOK, RefusalTaken, [OpNext]_opVars
    PROVE  RefusalTaken'
<1>1. CASE UNCHANGED opVars
  BY <1>1 DEF opVars, RefusalTaken, Heedful, Placed, Unanswered, Hearing, Begins,
     ExposedHere, CoveredHere
<1>2. CASE OpNext
  <2>1. provider' = provider /\ operation' = operation /\ outcome = "none"
    BY <1>2 DEF OpNext, Send, Branch, Repeat, Enter, Leave, Report, Overlook,
       Fails, Finish, SameCall, Heads
  <2> SUFFICES ASSUME Heedful
               PROVE  Placed' /\ (Unanswered' => outcome' = "auth" \/ Hearing')
    BY <2>1 DEF RefusalTaken, Heedful
  <2>2. Placed /\ (Unanswered => outcome = "auth" \/ Hearing)
    BY DEF RefusalTaken
  <2>3. Placed'
    BY <1>2, <2>2, PlacedStep
  <2> SUFFICES ASSUME Unanswered'
               PROVE  outcome' = "auth" \/ Hearing'
    BY <2>3
  <2>4. refused' /\ ~told'
    BY DEF Unanswered
  <2>7. ~told /\ (refused \/ \E way : way = "auth" /\ Send(way))
    <3>1. ASSUME NEW way, Send(way)
          PROVE  told' = told /\ refused' = (refused \/ way = "auth")
      BY <3>1, Zenon DEF Send
    <3>2. (\E way : Send(way)) \/ (refused' = refused /\ (told => told'))
      BY <1>2 DEF OpNext, Branch, Repeat, Enter, Leave, Report, Overlook,
         Fails, Finish, SameCall
    <3> QED
      BY <2>4, <3>1, <3>2
  <2>5. CASE ~refused
    <3>1. PICK way : way = "auth" /\ Send(way)
      BY <2>5, <2>7
    <3>2. ~Unseen(Head(todo), way)
      <4>1. todo # <<>> /\ Head(todo).does \in Requests
        BY <3>1 DEF Send, Heads
      <4>2. Head(todo) \in OpNodes(provider, operation)
        <5>1. Here \subseteq ScriptNode(Here) /\ Head(todo) \in Steps(Here)
          BY <4>1, HereNodes DEF OpTypeOK
        <5>2. Head(todo).does # "catch"
          BY <4>1 DEF Requests
        <5> QED
          BY <5>1, <5>2, StepParts DEF Here, OpNodes
      <4>3. Hears(provider, operation)
        BY CatalogueOf, Zenon DEF OpTypeOK, Heedful
      <4> QED
        BY <4>2, <4>3, Zenon DEF Hears, Unseen
    <3>3. Throw(way)
      <4>1. way = "ok" \/ Unseen(Head(todo), way) \/ Throw(way)
        BY <3>1, Zenon DEF Send
      <4> QED
        BY <3>1, <3>2, <4>1
    <3> QED
      BY <2>1, <2>2, <3>1, <3>3, ThrowHeard
  <2>6. CASE refused
    <3>2. Unanswered
      BY <2>6, <2>7 DEF Unanswered
    <3>3. Hearing
      BY <2>1, <2>2, <3>2
    <3>4. Here \subseteq ScriptNode(Here) /\ todo \in Seq(Steps(Here))
      BY HereNodes DEF OpTypeOK
    <3>5. ASSUME NEW kind, kind = "auth" \/ (kind = "broken" /\ Sheltered(todo, 1)),
                 Throw(kind)
          PROVE  outcome' = "auth" \/ Hearing'
      BY <2>1, <2>2, <3>5, ThrowHeard
    <3>6. CASE Head(todo).does = "tell"
      <4>1. Report
        BY <1>2, <3>3, <3>6, ActionOf DEF Hearing
      <4> QED
        BY <2>4, <4>1 DEF Report
    <3>7. CASE error = "auth" /\ Begins(ExposedHere, {"auth"})
      <4>1. PICK M, K : M = ExposedHere /\ K = {"auth"}
        OBVIOUS
      <4>2. error \in K /\ Begins(M, K)
        BY <3>7, <4>1
      <4>3. \/ \E kind \in K : Throw(kind)
            \/ /\ Leads(todo', Beginning(M, Facing(M, K)))
               /\ error' = error /\ outcome' = outcome
        BY <1>2, <2>4, <3>4, <4>2, FacingStep
      <4>4. CASE \E kind \in K : Throw(kind)
        BY <3>5, <4>1, <4>4
      <4>5. CASE /\ Leads(todo', Beginning(M, Facing(M, K)))
                 /\ error' = error /\ outcome' = outcome
        <5>1. ExposedHere' = ExposedHere
          BY <2>1 DEF ExposedHere
        <5>2. Begins(ExposedHere, {"auth"})' /\ todo' # <<>>
          BY <4>1, <4>5, <5>1 DEF Begins, Leads
        <5> QED
          BY <2>1, <3>7, <4>5, <5>2 DEF Hearing
      <4> QED
        BY <4>3, <4>4, <4>5
    <3>8. CASE /\ Sheltered(todo, 1) /\ error \in {"auth", "broken"}
               /\ Begins(CoveredHere, {"auth", "broken"})
      <4>1. PICK M, K : M = CoveredHere /\ K = {"auth", "broken"}
        OBVIOUS
      <4>2. error \in K /\ Begins(M, K)
        BY <3>8, <4>1
      <4>3. \/ \E kind \in K : Throw(kind)
            \/ /\ Leads(todo', Beginning(M, Facing(M, K)))
               /\ error' = error /\ outcome' = outcome
               /\ Sheltered(todo, 1) => Sheltered(todo', 1)
        BY <1>2, <2>4, <3>4, <4>2, FacingStep
      <4>4. CASE \E kind \in K : Throw(kind)
        BY <3>5, <3>8, <4>1, <4>4
      <4>5. CASE /\ Leads(todo', Beginning(M, Facing(M, K)))
                 /\ error' = error /\ outcome' = outcome
                 /\ Sheltered(todo', 1)
        <5>1. CoveredHere' = CoveredHere
          BY <2>1 DEF CoveredHere
        <5>2. Begins(CoveredHere, {"auth", "broken"})' /\ todo' # <<>>
          BY <4>1, <4>5, <5>1 DEF Begins, Leads
        <5> QED
          BY <2>1, <3>8, <4>5, <5>2 DEF Hearing
      <4> QED
        BY <3>8, <4>3, <4>4, <4>5
    <3> QED
      BY <3>3, <3>6, <3>7, <3>8 DEF Hearing
  <2> QED
    BY <2>5, <2>6
<1> QED
  BY <1>1, <1>2

\* Whatever an adapter sends afterwards, a refusal of the credentials of any
\* request ends the call with AuthenticationError, or the result tells of a
\* failure (the except blocks between classify_http_error and Connection's
\* counter): for every operation but those of Unheard and Deaf.
THEOREM OpRefusalHeard == OpSpec => []RefusalHeard
<1> DEFINE Inv == OpTypeOK /\ RefusalTaken
<1>1. OpInit => Inv
  <2>1. OpInit => ~Unanswered
    BY DEF OpInit, Unanswered
  <2> QED
    BY <2>1, OpTypeInit, PlacedInit DEF RefusalTaken
<1>2. Inv /\ [OpNext]_opVars => Inv'
  BY OpTypeStep, RefusalTakenStep
<1>3. Inv => RefusalHeard
  BY DEF RefusalTaken, Heedful, Unanswered, Hearing, RefusalHeard
<1> QED
  BY <1>1, <1>2, <1>3, PTL DEF OpSpec

-----------------------------------------------------------------------------
(* OrderStatuses: what a table of a mapper says                            *)

\* What a table says of the raw statuses that are read as one status only.
LEMMA TableReads ==
    ASSUME NEW raws, NEW s \in DOMAIN raws, NEW r \in raws[s],
           \A u \in DOMAIN raws : r \in raws[u] => u = s
    PROVE  r \in DOMAIN Table(raws) /\ Table(raws)[r] = s
<1>1. r \in UNION {raws[status] : status \in DOMAIN raws}
  OBVIOUS
<1>2. (CHOOSE status \in DOMAIN raws : r \in raws[status]) = s
  OBVIOUS
<1> QED
  BY <1>1, <1>2, Zenon DEF Table

LEMMA TableRange ==
    ASSUME NEW raws, NEW r \in DOMAIN Table(raws)
    PROVE  Table(raws)[r] \in DOMAIN raws
<1>1. r \in UNION {raws[status] : status \in DOMAIN raws}
  BY Zenon DEF Table
<1>2. PICK s \in DOMAIN raws : r \in raws[s]
  BY <1>1
<1>3. (CHOOSE status \in DOMAIN raws : r \in raws[status]) \in DOMAIN raws
  BY <1>2, Zenon
<1> QED
  BY <1>1, <1>3, Zenon DEF Table

\* The raw status that is written for a status is read as that status alone,
\* for every status that any raw status is read as; pending is one of them.
RoundTrips(raws, written) ==
    /\ "pending" \in DOMAIN raws
    /\ \A s \in DOMAIN raws :
         /\ written[s] \in raws[s]
         /\ \A u \in DOMAIN raws : written[s] \in raws[u] => u = s

LEMMA WooTrips == RoundTrips(WooInbound, WooOutbound)
BY DEF RoundTrips, WooInbound, WooOutbound

LEMMA PrestaTrips == RoundTrips(PrestaInbound, PrestaOutbound)
BY DEF RoundTrips, PrestaInbound, PrestaOutbound

LEMMA GomagTrips == RoundTrips(GomagInbound, GomagOutbound)
<1>1. /\ DOMAIN GomagInbound = {"pending", "accepted", "processing",
                                 "shipped", "delivered", "cancelled",
                                 "returned"}
      /\ GomagInbound["pending"]
           = {"Comanda NEW", "Comanda email", "Comanda telefonica",
              "Comanda in asteptare"}
      /\ GomagInbound["accepted"] = {"Comanda depozitata", "Comanda depozit"}
      /\ GomagInbound["processing"] = {"In curs de procesare"}
      /\ GomagInbound["shipped"] = {"Comanda in curs de livrare"}
      /\ GomagInbound["delivered"] = {"Livrata", "Comanda incheiata"}
      /\ GomagInbound["cancelled"] = {"Anulata"}
      /\ GomagInbound["returned"] = {"Retur", "Returnata"}
  BY Zenon DEF GomagInbound
<1>2. /\ GomagOutbound["pending"] = "Comanda NEW"
      /\ GomagOutbound["accepted"] = "Comanda depozitata"
      /\ GomagOutbound["processing"] = "In curs de procesare"
      /\ GomagOutbound["shipped"] = "Comanda in curs de livrare"
      /\ GomagOutbound["delivered"] = "Livrata"
      /\ GomagOutbound["cancelled"] = "Anulata"
      /\ GomagOutbound["returned"] = "Retur"
  BY Zenon DEF GomagOutbound
<1>3. ASSUME NEW s \in DOMAIN GomagInbound
      PROVE  /\ GomagOutbound[s] \in GomagInbound[s]
             /\ \A u \in DOMAIN GomagInbound :
                  GomagOutbound[s] \in GomagInbound[u] => u = s
  BY <1>1, <1>2, <1>3, ZenonT(120)
<1> QED
  BY <1>1, <1>3, Zenon DEF RoundTrips

LEMMA EmagTrips == RoundTrips(EmagInbound, EmagOutbound)
BY DEF RoundTrips, EmagInbound, EmagOutbound

LEMMA MagentoTrips == RoundTrips(MagentoInbound, MagentoOutbound)
BY DEF RoundTrips, MagentoInbound, MagentoOutbound

\* What such a table reads and writes.
LEMMA TripReads ==
    ASSUME NEW raws, NEW written, RoundTrips(raws, written)
    PROVE  /\ \A s \in DOMAIN raws :
                /\ written[s] \in DOMAIN Table(raws)
                /\ Table(raws)[written[s]] = s
           /\ \A r \in DOMAIN Table(raws) : Table(raws)[r] \in DOMAIN raws
           /\ "pending" \in DOMAIN raws
<1>1. ASSUME NEW s \in DOMAIN raws
      PROVE  written[s] \in DOMAIN Table(raws) /\ Table(raws)[written[s]] = s
  <2>1. /\ written[s] \in raws[s]
        /\ \A u \in DOMAIN raws : written[s] \in raws[u] => u = s
    BY Zenon DEF RoundTrips
  <2> QED
    BY <2>1, TableReads
<1>2. \A r \in DOMAIN Table(raws) : Table(raws)[r] \in DOMAIN raws
  BY TableRange
<1> QED
  BY <1>1, <1>2, Zenon DEF RoundTrips

-----------------------------------------------------------------------------
(* OrderStatuses: an order settles                                         *)

\* The shops in which what is written by the table is read as it is meant.
Faithful == {"woocommerce", "prestashop", "gomag", "emag", "magento"}

LEMMA FaithfulReads ==
    ASSUME NEW s, s \in Faithful
    PROVE  \A t : t = "pending"
                    \/ (\E r \in DOMAIN Inbounds[s] : Inbounds[s][r] = t) =>
             /\ \E r \in DOMAIN Inbounds[s] : Inbounds[s][r] = t
             /\ Outbounds[s][t] \in DOMAIN Inbounds[s]
             /\ Inbounds[s][Outbounds[s][t]] = t
<1>1. ASSUME NEW raws, NEW written, RoundTrips(raws, written),
             Inbounds[s] = Table(raws), Outbounds[s] = written
      PROVE  \A t : t = "pending"
                      \/ (\E r \in DOMAIN Inbounds[s] : Inbounds[s][r] = t) =>
               /\ \E r \in DOMAIN Inbounds[s] : Inbounds[s][r] = t
               /\ Outbounds[s][t] \in DOMAIN Inbounds[s]
               /\ Inbounds[s][Outbounds[s][t]] = t
  <2>1. /\ \A t \in DOMAIN raws : /\ written[t] \in DOMAIN Table(raws)
                                 /\ Table(raws)[written[t]] = t
        /\ \A r \in DOMAIN Table(raws) : Table(raws)[r] \in DOMAIN raws
        /\ "pending" \in DOMAIN raws
    BY <1>1, TripReads
  <2> QED
    BY <2>1, <1>1, Zenon
<1>2. CASE s = "woocommerce"
  <2>1. Inbounds[s] = Table(WooInbound) /\ Outbounds[s] = WooOutbound
    BY <1>2, Zenon DEF Inbounds, Outbounds
  <2> QED
    BY <2>1, <1>1, WooTrips
<1>3. CASE s = "prestashop"
  <2>1. Inbounds[s] = Table(PrestaInbound) /\ Outbounds[s] = PrestaOutbound
    BY <1>3, Zenon DEF Inbounds, Outbounds
  <2> QED
    BY <2>1, <1>1, PrestaTrips
<1>4. CASE s = "gomag"
  <2>1. Inbounds[s] = Table(GomagInbound) /\ Outbounds[s] = GomagOutbound
    BY <1>4, Zenon DEF Inbounds, Outbounds
  <2> QED
    BY <2>1, <1>1, GomagTrips
<1>5. CASE s = "emag"
  <2>1. Inbounds[s] = Table(EmagInbound) /\ Outbounds[s] = EmagOutbound
    BY <1>5, Zenon DEF Inbounds, Outbounds
  <2> QED
    BY <2>1, <1>1, EmagTrips
<1>6. CASE s = "magento"
  <2>1. Inbounds[s] = Table(MagentoInbound) /\ Outbounds[s] = MagentoOutbound
    BY <1>6, Zenon DEF Inbounds, Outbounds
  <2> QED
    BY <2>1, <1>1, MagentoTrips
<1> QED
  BY <1>2, <1>3, <1>4, <1>5, <1>6, Zenon DEF Faithful

\* Nobody reads the fulfilment of Shopify as a cancellation but by a mapping.
LEMMA FulfilmentReads ==
    /\ \A r \in DOMAIN Inbounds["shopify"] :
         Inbounds["shopify"][r] # "cancelled"
    /\ DOMAIN Outbounds["shopify"] = {"cancelled"}
<1>1. Inbounds["shopify"] = Table(ShopifyInbound)
  BY Zenon DEF Inbounds
<1>2. Outbounds["shopify"] = ShopifyOutbound
  BY Zenon DEF Outbounds
<1>3. "cancelled" \notin DOMAIN ShopifyInbound
  BY DEF ShopifyInbound
<1>4. DOMAIN ShopifyOutbound = {"cancelled"}
  BY DEF ShopifyOutbound
<1> QED
  BY <1>1, <1>2, <1>3, <1>4, TableRange, Zenon

\* What is read is pending, or what the tenant or the table says of some raw
\* status.
Readable(status) ==
    \/ status = "pending"
    \/ \E r \in DOMAIN OwnInbound : OwnInbound[r] = status
    \/ \E r \in DOMAIN Inbounds[shop] : Inbounds[shop][r] = status

\* The dictionaries a tenant's mappings make of those of the adapter.
LEMMA ReadsAre ==
    /\ DOMAIN Reads = DOMAIN OwnInbound \cup DOMAIN Inbounds[shop]
    /\ \A r \in DOMAIN OwnInbound : Reads[r] = OwnInbound[r]
    /\ \A r \in DOMAIN Inbounds[shop] :
         r \notin DOMAIN OwnInbound => Reads[r] = Inbounds[shop][r]
BY DEF Reads, Merged

LEMMA WritesAre ==
    /\ DOMAIN Writes = DOMAIN OwnOutbound \cup DOMAIN Outbounds[shop]
    /\ \A s \in DOMAIN OwnOutbound : Writes[s] = OwnOutbound[s]
    /\ \A s \in DOMAIN Outbounds[shop] :
         s \notin DOMAIN OwnOutbound => Writes[s] = Outbounds[shop][s]
BY DEF Writes, Merged

LEMMA ReadsReadable ==
    ASSUME NEW r
    PROVE  Readable(ToFramework(r))
<1>1. CASE r \in DOMAIN OwnInbound
  BY <1>1, ReadsAre DEF ToFramework, Readable
<1>2. CASE r \notin DOMAIN OwnInbound /\ r \in DOMAIN Inbounds[shop]
  BY <1>2, ReadsAre DEF ToFramework, Readable
<1>3. CASE r \notin DOMAIN OwnInbound /\ r \notin DOMAIN Inbounds[shop]
  BY <1>3, ReadsAre DEF ToFramework, Readable
<1> QED
  BY <1>1, <1>2, <1>3

\* In a shop whose table is faithful, a status that is read and that agreeing
\* mappings let one write is read again.
LEMMA WrittenReads ==
    ASSUME shop \in Faithful, Agrees, NEW status \in Writable,
           Readable(status)
    PROVE  ToFramework(Writes[status]) = status
<1>1. CASE status \in DOMAIN OwnOutbound
                        \cup {OwnInbound[r] : r \in DOMAIN OwnInbound}
  BY <1>1, Zenon DEF Agrees
<1>2. CASE status \notin DOMAIN OwnOutbound
                           \cup {OwnInbound[r] : r \in DOMAIN OwnInbound}
  <2>1. /\ status \notin DOMAIN OwnOutbound
        /\ \A r \in DOMAIN OwnInbound : OwnInbound[r] # status
    BY <1>2, Zenon
  <2>2. status \in DOMAIN Writes
    BY Zenon DEF Writable
  <2>3. /\ status \in DOMAIN Outbounds[shop]
        /\ Writes[status] = Outbounds[shop][status]
    BY <2>1, <2>2, WritesAre, Zenon
  <2>4. /\ \E r \in DOMAIN Inbounds[shop] : Inbounds[shop][r] = status
        /\ Outbounds[shop][status] \in DOMAIN Inbounds[shop]
        /\ Inbounds[shop][Outbounds[shop][status]] = status
    BY <2>1, FaithfulReads, Zenon DEF Readable
  <2>5. Outbounds[shop][status] \in DOMAIN OwnInbound
          => OwnInbound[Outbounds[shop][status]] = status
    BY <2>1, <2>3, <2>4, Zenon DEF Agrees
  <2>6. Reads[Outbounds[shop][status]] = status
    BY <2>4, <2>5, ReadsAre, Zenon
  <2>7. Outbounds[shop][status] \in DOMAIN Reads
    BY <2>4, ReadsAre, Zenon
  <2> QED
    BY <2>3, <2>6, <2>7, Zenon DEF ToFramework
<1> QED
  BY <1>1, <1>2

\* What is known is something that is read, in one of the shops.
Settling ==
    /\ shop \in DOMAIN Inbounds
    /\ Readable(known)
    /\ drifted \in BOOLEAN
    /\ StatusSettles

LEMMA ShopsAre ==
    DOMAIN Inbounds = Faithful \cup {"shopify", "altex"}
BY Zenon DEF Inbounds, Faithful

LEMMA SettlingInit == StatusInit => Settling
<1> SUFFICES ASSUME StatusInit PROVE Settling
  OBVIOUS
<1>1. shop \in DOMAIN Inbounds
  BY StatusShopsAssumption DEF StatusInit
<1>2. Readable(known)
  BY ReadsReadable DEF StatusInit
<1> QED
  BY <1>1, <1>2 DEF StatusInit, Settling, StatusSettles

\* What the shop and the tenant settle does not change.
LEMMA SettledSame ==
    ASSUME UNCHANGED <<shop, config>>
    PROVE  /\ OwnInbound' = OwnInbound
           /\ (Agrees)' = Agrees
           /\ \A status : ToFramework(status)' = ToFramework(status)
           /\ \A status : Readable(status)' = Readable(status)
BY DEF OwnInbound, OwnOutbound, Agrees, ToFramework, Readable, Writable,
       Writes, Reads

LEMMA SettlingStep ==
    ASSUME Settling, [StatusNext]_statusVars
    PROVE  Settling'
<1>1. UNCHANGED <<shop, config>>
  BY Zenon DEF StatusNext, statusVars, MoveOrder, ReadOrder,
               UpdateOrderStatus
<1>2. /\ OwnInbound' = OwnInbound
      /\ (Agrees)' = Agrees
      /\ \A status : ToFramework(status)' = ToFramework(status)
      /\ \A status : Readable(status)' = Readable(status)
  BY <1>1, SettledSame
<1>3. drifted' = drifted \/ \E status \in OrderStatus :
                              UpdateOrderStatus(status)
  BY DEF StatusNext, statusVars, MoveOrder, ReadOrder
<1>4. Readable(known')
  <2>1. \A r : Readable(ToFramework(r))
    BY ReadsReadable
  <2>2. Readable(known)
    BY DEF Settling
  <2>3. known' = known \/ \E r : known' = ToFramework(r)
    BY Zenon DEF StatusNext, statusVars, MoveOrder, ReadOrder,
                 UpdateOrderStatus
  <2> QED
    BY <2>1, <2>2, <2>3, Zenon
<1>5. ASSUME NEW status \in OrderStatus, UpdateOrderStatus(status),
             drifted' # drifted
      PROVE  shop = "altex" \/ ~Agrees
               \/ (shop = "shopify"
                     /\ \E r \in DOMAIN OwnInbound :
                          OwnInbound[r] = "cancelled")
  <2>1. /\ status \in Writable /\ Readable(status)
        /\ ToFramework(Written(status)) # status
    <3>1. /\ status \in Writable
          /\ raw' = Written(status) /\ known' = ToFramework(raw')
          /\ drifted' = (drifted \/ (status = known /\ known' # known))
      BY <1>5 DEF UpdateOrderStatus
    <3>2. status = known /\ known' # known
      BY <3>1, <1>5 DEF Settling
    <3>3. known' = ToFramework(Written(status))
      BY <3>1 DEF ToFramework
    <3> QED
      BY <3>1, <3>2, <3>3 DEF Settling
  <2>2. CASE shop \in Faithful
    <3>1. shop # "shopify"
      BY <2>2 DEF Faithful
    <3>2. ToFramework(Writes[status]) # status
      BY <2>1, <3>1 DEF Written
    <3> QED
      BY <2>1, <2>2, <3>2, WrittenReads
  <2>3. CASE shop = "shopify"
    <3>1. DOMAIN OwnOutbound = {}
      BY <2>3 DEF OwnOutbound
    <3>2. status = "cancelled"
      BY <2>1, <2>3, <3>1, WritesAre, FulfilmentReads DEF Writable
    <3> QED
      BY <2>1, <2>3, <3>2, FulfilmentReads DEF Readable
  <2> QED
    BY <2>2, <2>3, ShopsAre DEF Settling
<1>6. StatusSettles'
  <2>1. CASE drifted' = drifted
    BY <2>1, <1>1, <1>2 DEF Settling, StatusSettles
  <2>2. CASE drifted' # drifted
    <3>1. PICK status \in OrderStatus : UpdateOrderStatus(status)
      BY <2>2, <1>3
    <3>2. shop = "altex" \/ ~Agrees
            \/ (shop = "shopify"
                  /\ \E r \in DOMAIN OwnInbound : OwnInbound[r] = "cancelled")
      BY <2>2, <3>1, <1>5
    <3> QED
      BY <3>2, <1>1, <1>2 DEF StatusSettles
  <2> QED
    BY <2>1, <2>2
<1>7. shop' \in DOMAIN Inbounds
  BY <1>1 DEF Settling
<1>8. Readable(known)'
  BY <1>4, <1>1 DEF Readable, OwnInbound
<1>9. drifted' \in BOOLEAN
  BY <1>3 DEF Settling, UpdateOrderStatus
<1> QED
  BY <1>6, <1>7, <1>8, <1>9 DEF Settling

\* In every shop but those left out, and whatever a tenant maps that agrees
\* with itself and with the tables, an order whose status is written back as it
\* was read is read as that status again.
THEOREM StatusStable == StatusSpec => []StatusSettles
<1>1. StatusSpec => []Settling
  BY SettlingInit, SettlingStep, PTL DEF StatusSpec
<1>2. Settling => StatusSettles
  BY DEF Settling
<1> QED
  BY <1>1, <1>2, PTL

=============================================================================
