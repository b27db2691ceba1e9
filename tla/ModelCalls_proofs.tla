------------------------- MODULE ModelCalls_proofs -------------------------
(***************************************************************************)
(* One answer per call, nothing the provider billed is forgotten, and the  *)
(* budgets hold, for any number of callers, keys, attempts and crashes.    *)
(***************************************************************************)
EXTENDS ModelCalls, FiniteSetTheorems, WellFoundedInduction, TLAPS

----------------------------------------------------------------------------
(* The inductive invariant.                                                *)

AttemptRecords == [status : CallStatuses, validation : Validations,
                   quote : Quotes \cup {NoQuote}, settled : Nat,
                   cost : {None, "held", "unknown", "settled", "released"}, money : Nat]
CallRecords == [status : CallStatuses, winner : 0..MaxAttempts, version : 0..MaxVersion,
                input : Inputs \cup {None}]

(* What a row of v1_model_attempts and its reservation say together.        *)
RowInv(k, n) ==
    LET a == attempts[k][n] IN
    /\ a.status = None => a = NoAttempt
    /\ billed[k][n] # Nothing => a.status \notin {None, "prepared"}
    /\ a.status \in Live => a.cost = "held"
    /\ a.status = "unknown_outcome" => a.cost = "unknown"
    /\ a.status \in {"failed", "succeeded"} /\ billed[k][n] # Nothing /\ <<k, n>> \notin unusable =>
          a.cost = "settled" /\ a.settled > 0

(* The attempts of a call are numbered without a gap.                       *)
NoGap(k) == \E m \in 0..MaxAttempts : \A n \in Numbers : attempts[k][n].status # None <=> n <= m

(* A call without an attempt is not on record.                              *)
Recorded(k) ==
    /\ call[k] = NoCall <=> call[k].status = None
    /\ call[k].status = None <=> attempts[k][1].status = None

(* The winner is the attempt with the valid answer.                         *)
WinnerValid(k) ==
    /\ \A n \in Numbers : attempts[k][n].validation = "validated_current" <=> n = call[k].winner
    /\ call[k].winner # 0 => call[k].status = "succeeded"

(* An open attempt is the last one of a call without a winner.              *)
OpenIsLast(k) ==
    \A n \in Numbers : attempts[k][n].status \in Live =>
        /\ call[k].winner = 0 /\ call[k].status = attempts[k][n].status
        /\ \A j \in Numbers : attempts[k][j].status # None => j <= n

KeyInv(k) ==
    /\ NoGap(k) /\ Recorded(k) /\ WinnerValid(k) /\ OpenIsLast(k)
    /\ \A n \in Numbers : RowInv(k, n)

Sending == {"dispatch", "send", "settle"}

(* A caller between preparation and settlement works on an open attempt.    *)
CallerOK(c) ==
    /\ caller[c].pc # "idle" => caller[c].key \in Keys /\ caller[c].quote \in Quotes
    /\ caller[c].pc \in Sending =>
          /\ caller[c].number \in Numbers
          /\ attempts[caller[c].key][caller[c].number].status =
                IF caller[c].pc = "dispatch" THEN "prepared" ELSE "dispatched"

(* No two callers work on the same attempt.                                 *)
Apart ==
    \A c, d \in Callers : c # d /\ caller[c].pc \in Sending /\ caller[d].pc \in Sending =>
        caller[c].key # caller[d].key \/ caller[c].number # caller[d].number

CallersInv == Apart /\ \A c \in Callers : CallerOK(c)

(* Everyone was told of the winner.                                         *)
ToldInv == \A k \in Keys, n \in Numbers : <<k, n>> \in told => n = call[k].winner

ModelInv ==
    /\ TypeOK
    /\ \A k \in Keys : KeyInv(k)
    /\ CallersInv
    /\ ToldInv

----------------------------------------------------------------------------
(* Facts about the operators.                                              *)

LEMMA Types ==
    ASSUME TypeOK
    PROVE  /\ call \in [Keys -> CallRecords]
           /\ attempts \in [Keys -> [Numbers -> AttemptRecords]]
           /\ caller \in [Callers -> CallerStates]
BY DEF TypeOK, CallRecords, AttemptRecords

LEMMA NumbersNat == Numbers \subseteq Nat /\ 1 \in Numbers /\ 0 \notin Numbers /\ MaxAttempts \in Nat
BY ModelAssumption DEF Numbers

LEMMA AttemptType ==
    ASSUME TypeOK, NEW k \in Keys, NEW n \in Numbers
    PROVE  /\ attempts[k][n] \in AttemptRecords /\ attempts[k] \in [Numbers -> AttemptRecords]
           /\ call[k] \in CallRecords
BY Types

(* _next number: the attempts are 1..m, and m is their number.              *)
LEMMA Numbered ==
    ASSUME NEW k \in Keys, NEW m \in 0..MaxAttempts,
           \A n \in Numbers : attempts[k][n].status # None <=> n <= m
    PROVE  /\ Attempts(k) = 1..m /\ Cardinality(Attempts(k)) = m
           /\ m # 0 => Max(Attempts(k)) = m
<1>1. m \in Nat /\ \A n \in Numbers : n \in Nat /\ n >= 1
  BY ModelAssumption DEF Numbers
<1>2. Attempts(k) = 1..m
  BY <1>1, ModelAssumption DEF Attempts, Numbers
<1>3. Cardinality(1..m) = m
  BY <1>1, FS_Interval
<1>4. ASSUME m # 0 PROVE Max(1..m) = m
  BY <1>1, <1>4 DEF Max
<1> QED
  BY <1>2, <1>3, <1>4

(* A usage or the rest of a reservation counts as soon as it is not nothing. *)
LEMMA TokensPositive ==
    ASSUME NEW u \in [in : Nat, out : Nat]
    PROVE  /\ Tokens(u) \in Nat /\ ActualCost(u) \in Nat
           /\ u # Nothing => Tokens(u) > 0
<1>1. u.in \in Nat /\ u.out \in Nat /\ u = [in |-> u.in, out |-> u.out]
  OBVIOUS
<1>2. \A x, y \in Nat : x * y \in Nat
  OBVIOUS
<1>3. ActualCost(u) \in Nat
  <2>1. u.in * InputRate \in Nat /\ u.out * OutputRate \in Nat
    BY <1>1, <1>2, ModelAssumption
  <2> QED
    BY <2>1 DEF ActualCost
<1>4. u # Nothing => u.in # 0 \/ u.out # 0
  BY <1>1 DEF Nothing
<1> QED
  BY <1>1, <1>3, <1>4 DEF Tokens

(* A request that was not executed has no response: it was not billed.      *)
LEMMA ResponseBilled ==
    ASSUME NEW u, "response" \in Outcomes(u) \/ "rejected" \in Outcomes(u)
    PROVE  u # Nothing
<1> SUFFICES ASSUME u = Nothing PROVE FALSE
  OBVIOUS
<1>1. PICK o \in {"response", "rejected"} : o \in OutcomesWhen[FALSE]
  BY DEF Outcomes
<1>2. PICK w \in Wires, b \in Bodies :
        MayBill(w, FALSE) /\ o \in {OpenAIOutcome(w, b), QwenOutcome(w, b), OtherOutcome(w, b)}
  BY <1>1 DEF OutcomesWhen
<1>3. w # "body"
  BY <1>2 DEF MayBill
<1>4. /\ OpenAIOutcome(w, b) \in {"known", "unknown"}
      /\ QwenOutcome(w, b) \in {"known", "unknown"}
      /\ OtherOutcome(w, b) \in {"known", "unknown"}
  <2>1. OpenAIOutcome(w, b) \in {"known", "unknown"}
    BY <1>3 DEF OpenAIOutcome
  <2>2. QwenOutcome(w, b) \in {"known", "unknown"}
    BY <1>3 DEF QwenOutcome
  <2>3. OtherOutcome(w, b) \in {"known", "unknown"}
    BY <1>3 DEF OtherOutcome
  <2> QED
    BY <2>1, <2>2, <2>3
<1> QED
  BY <1>2, <1>4

----------------------------------------------------------------------------
(* Parts of the invariant a step leaves alone.                             *)

LEMMA KeyKept ==
    ASSUME NEW k \in Keys, KeyInv(k), call'[k] = call[k], attempts'[k] = attempts[k],
           \A n \in Numbers : billed'[k][n] = billed[k][n] /\ (<<k, n>> \in unusable' <=> <<k, n>> \in unusable)
    PROVE  KeyInv(k)'
<1>1. NoGap(k)' /\ Recorded(k)' /\ WinnerValid(k)' /\ OpenIsLast(k)'
  BY DEF KeyInv, NoGap, Recorded, WinnerValid, OpenIsLast
<1>2. \A n \in Numbers : RowInv(k, n)'
  BY DEF KeyInv, RowInv
<1> QED
  BY <1>1, <1>2 DEF KeyInv

LEMMA CallersQuiet ==
    ASSUME CallersInv, NEW c \in Callers, attempts' = attempts,
           \A d \in Callers \ {c} : caller'[d] = caller[d],
           caller'[c].pc \notin Sending, CallerOK(c)'
    PROVE  CallersInv'
<1>1. Apart'
  BY DEF CallersInv, Apart
<1>2. \A d \in Callers \ {c} : CallerOK(d)'
  BY DEF CallersInv, CallerOK
<1> QED
  BY <1>1, <1>2 DEF CallersInv

LEMMA CallersKept ==
    ASSUME CallersInv, NEW c \in Callers, NEW k \in Keys, NEW n \in Numbers,
           \A d \in Callers \ {c} : caller'[d] = caller[d],
           \A l \in Keys, j \in Numbers : l # k \/ j # n => attempts'[l][j] = attempts[l][j],
           \A d \in Callers \ {c} : caller[d].pc \in Sending => caller[d].key # k \/ caller[d].number # n,
           caller'[c].pc \in Sending => caller'[c].key = k /\ caller'[c].number = n,
           CallerOK(c)'
    PROVE  CallersInv'
<1>1. Apart'
  BY DEF CallersInv, Apart
<1>2. ASSUME NEW d \in Callers \ {c} PROVE CallerOK(d)'
  <2>1. CallerOK(d) /\ caller'[d] = caller[d]
    BY DEF CallersInv
  <2>2. CASE caller[d].pc \in Sending
    <3>1. caller[d].key \in Keys /\ caller[d].number \in Numbers
      BY <2>1, <2>2 DEF CallerOK, Sending
    <3>2. attempts'[caller[d].key][caller[d].number] = attempts[caller[d].key][caller[d].number]
      BY <2>2, <3>1
    <3> QED
      BY <2>1, <3>2 DEF CallerOK
  <2>3. CASE caller[d].pc \notin Sending
    BY <2>1, <2>3 DEF CallerOK
  <2> QED
    BY <2>2, <2>3
<1> QED
  BY <1>1, <1>2 DEF CallersInv

LEMMA LeaveCaller ==
    ASSUME TypeOK, NEW c \in Callers, Leave(c)
    PROVE  /\ caller' \in [Callers -> CallerStates] /\ mutex' \in Callers \cup {None}
           /\ \A d \in Callers \ {c} : caller'[d] = caller[d]
           /\ caller'[c].pc \notin Sending /\ CallerOK(c)'
<1>1. Idle \in CallerStates
  BY NumbersNat, ModelAssumption DEF Idle, CallerStates
<1>2. caller'[c] = Idle
  BY DEF Leave, TypeOK
<1> QED
  BY <1>1, <1>2 DEF Leave, TypeOK, CallerOK, Idle, Sending

(* A step of a caller that changes no call and no attempt.                  *)
LEMMA RowsKept ==
    ASSUME ModelInv, UNCHANGED <<call, attempts, billed, unusable>>
    PROVE  \A k \in Keys : KeyInv(k)'
BY KeyKept DEF ModelInv

(* One row, one call changes.                                               *)
RowSet(k, n, a) ==
    /\ attempts' \in [Keys -> [Numbers -> AttemptRecords]] /\ attempts'[k][n] = a
    /\ \A l \in Keys, j \in Numbers : l # k \/ j # n => attempts'[l][j] = attempts[l][j]
    /\ \A l \in Keys \ {k} : attempts'[l] = attempts[l]

CallSet(k, r) ==
    /\ call' \in [Keys -> CallRecords] /\ call'[k] = r
    /\ \A l \in Keys \ {k} : call'[l] = call[l]

CallerSet(c, s) ==
    /\ caller' \in [Callers -> CallerStates] /\ caller'[c] = s
    /\ \A d \in Callers \ {c} : caller'[d] = caller[d]

LEMMA RowIsSet ==
    ASSUME TypeOK, NEW k \in Keys, NEW n \in Numbers, NEW a \in AttemptRecords,
           attempts' = [attempts EXCEPT ![k][n] = a]
    PROVE  RowSet(k, n, a)
BY Types DEF RowSet

LEMMA CallIsSet ==
    ASSUME TypeOK, NEW k \in Keys, NEW r \in CallRecords, call' = [call EXCEPT ![k] = r]
    PROVE  CallSet(k, r)
BY Types DEF CallSet

LEMMA CallerIsSet ==
    ASSUME TypeOK, NEW c \in Callers, NEW s \in CallerStates, caller' = [caller EXCEPT ![c] = s]
    PROVE  CallerSet(c, s)
BY Types DEF CallerSet

LEMMA CallerStateMade ==
    ASSUME NEW pc \in {"idle", "look", "dispatch", "send", "settle"}, NEW key \in Keys \cup {None},
           NEW input \in Inputs \cup {None}, NEW quote \in Quotes \cup {NoQuote},
           NEW v \in 0..MaxVersion, NEW n \in 0..MaxAttempts
    PROVE  [pc |-> pc, key |-> key, input |-> input, quote |-> quote, version |-> v, number |-> n]
               \in CallerStates
BY DEF CallerStates

(* An open attempt is closed: settled, or marked unknown.                   *)
LEMMA AttemptClosed ==
    ASSUME ModelInv, NEW k \in Keys, NEW n \in Numbers, attempts[k][n].status \in Live,
           NEW a \in AttemptRecords, NEW r \in CallRecords,
           RowSet(k, n, a), CallSet(k, r),
           a.status \in {"failed", "succeeded", "unknown_outcome"}, r.status = a.status,
           a.validation = "validated_current" => a.status = "succeeded" /\ r.winner = n,
           a.validation # "validated_current" => r.winner = 0,
           billed' = billed, unusable' \in {unusable, unusable \cup {<<k, n>>}},
           a.status = "unknown_outcome" => a.cost = "unknown",
           a.status # "unknown_outcome" /\ billed[k][n] # Nothing /\ <<k, n>> \notin unusable' =>
               a.cost = "settled" /\ a.settled > 0
    PROVE  /\ \A l \in Keys : KeyInv(l)'
           /\ call[k].winner = 0 /\ call[k].status = attempts[k][n].status
<1>1. TypeOK /\ KeyInv(k)
  BY DEF ModelInv
<1>2. /\ attempts'[k][n] = a
      /\ \A l \in Keys, j \in Numbers : l # k \/ j # n => attempts'[l][j] = attempts[l][j]
      /\ \A l \in Keys \ {k} : attempts'[l] = attempts[l]
  BY DEF RowSet
<1>3. call'[k] = r /\ \A l \in Keys \ {k} : call'[l] = call[l]
  BY DEF CallSet
<1>4. ASSUME NEW l \in Keys \ {k} PROVE KeyInv(l)'
  BY <1>2, <1>3, KeyKept DEF ModelInv
<1>5. /\ call[k].winner = 0 /\ call[k].status = attempts[k][n].status
      /\ \A j \in Numbers : attempts[k][j].status # None => j <= n
      /\ \A j \in Numbers : attempts[k][j].status \in Live => n <= j
  <2>1. attempts[k][n].status # None
    BY DEF Live, None
  <2> QED
    BY <1>1, <2>1 DEF KeyInv, OpenIsLast
<1>6. PICK m \in 0..MaxAttempts : \A j \in Numbers : attempts[k][j].status # None <=> j <= m
  BY <1>1 DEF KeyInv, NoGap
<1>7. attempts[k][n].status # None /\ a.status # None /\ a.status \notin Live
  BY DEF Live, None
<1>8. NoGap(k)'
  <2>1. \A j \in Numbers : attempts'[k][j].status # None <=> attempts[k][j].status # None
    BY <1>2, <1>7
  <2> QED
    BY <1>6, <2>1 DEF NoGap
<1>9. Recorded(k)'
  <2>1. attempts[k][1].status # None
    BY <1>6, <1>7, NumbersNat, ModelAssumption DEF Numbers
  <2>2. attempts'[k][1].status # None
    BY <1>2, <1>7, <2>1, NumbersNat
  <2>3. r # NoCall
    BY <1>7 DEF NoCall
  <2> QED
    BY <1>3, <1>7, <2>2, <2>3 DEF Recorded
<1>10. WinnerValid(k)'
  <2>1. \A j \in Numbers : attempts[k][j].validation # "validated_current"
    BY <1>1, <1>5, NumbersNat DEF KeyInv, WinnerValid
  <2>2. \A j \in Numbers \ {n} : attempts'[k][j].validation # "validated_current"
    BY <1>2, <2>1
  <2> QED
    BY <1>2, <1>3, <2>2, NumbersNat DEF WinnerValid
<1>11. OpenIsLast(k)'
  <2>1. \A j \in Numbers : attempts'[k][j].status \notin Live
    <3> SUFFICES ASSUME NEW j \in Numbers PROVE attempts'[k][j].status \notin Live
      OBVIOUS
    <3>1. CASE j = n
      BY <1>2, <1>7, <3>1
    <3>2. CASE j # n
      <4>1. ASSUME attempts[k][j].status \in Live PROVE FALSE
        <5>1. attempts[k][j].status # None
          BY <4>1 DEF Live, None
        <5>2. j <= n /\ n <= j
          BY <1>5, <4>1, <5>1
        <5> QED
          BY <3>2, <5>2, NumbersNat
      <4> QED
        BY <1>2, <3>2, <4>1
    <3> QED
      BY <3>1, <3>2
  <2> QED
    BY <2>1 DEF OpenIsLast
<1>12. ASSUME NEW j \in Numbers \ {n} PROVE RowInv(k, j)'
  <2>1. attempts'[k][j] = attempts[k][j] /\ (<<k, j>> \in unusable' <=> <<k, j>> \in unusable)
    BY <1>2
  <2>2. RowInv(k, j)
    BY <1>1 DEF KeyInv
  <2> QED
    BY <2>1, <2>2 DEF RowInv
<1>13. RowInv(k, n)'
  BY <1>2, <1>7 DEF RowInv
<1>14. KeyInv(k)'
  BY <1>8, <1>9, <1>10, <1>11, <1>12, <1>13 DEF KeyInv
<1> QED
  BY <1>4, <1>5, <1>14

----------------------------------------------------------------------------
(* The steps.                                                              *)

LEMMA ModelInit == Init => ModelInv
<1> SUFFICES ASSUME Init PROVE ModelInv
  OBVIOUS
<1>1. NoCall \in CallRecords /\ NoAttempt \in AttemptRecords /\ Idle \in CallerStates
  BY NumbersNat, ModelAssumption DEF NoCall, CallRecords, NoAttempt, AttemptRecords, Idle, CallerStates,
     CallStatuses, Validations
<1>2. TypeOK
  <2>1. call \in [Keys -> CallRecords] /\ caller \in [Callers -> CallerStates]
    BY <1>1 DEF Init
  <2>2. attempts \in [Keys -> [Numbers -> AttemptRecords]]
    BY <1>1 DEF Init
  <2>3. billed \in [Keys -> [Numbers -> Usages \cup {Nothing}]]
    BY DEF Init
  <2>4. version \in 1..MaxVersion /\ crashes \in 0..MaxCrashes /\ runs \in 0..MaxRuns
    BY ModelAssumption DEF Init
  <2> QED
    BY <2>1, <2>2, <2>3, <2>4 DEF Init, TypeOK, CallRecords, AttemptRecords
<1>3. ASSUME NEW k \in Keys PROVE KeyInv(k)
  <2>1. call[k] = NoCall /\ \A n \in Numbers : attempts[k][n] = NoAttempt /\ billed[k][n] = Nothing
    BY DEF Init
  <2>2. NoGap(k)
    <3>1. 0 \in 0..MaxAttempts /\ \A n \in Numbers : ~(n <= 0)
      BY ModelAssumption DEF Numbers
    <3> QED
      BY <2>1, <3>1 DEF NoGap, NoAttempt
  <2>3. Recorded(k)
    BY <2>1, NumbersNat DEF Recorded, NoCall, NoAttempt
  <2>4. WinnerValid(k)
    BY <2>1, NumbersNat DEF WinnerValid, NoCall, NoAttempt, None
  <2>5. OpenIsLast(k)
    BY <2>1 DEF OpenIsLast, NoAttempt, None, Live
  <2>6. \A n \in Numbers : RowInv(k, n)
    BY <2>1 DEF RowInv, NoAttempt, None, Live
  <2> QED
    BY <2>2, <2>3, <2>4, <2>5, <2>6 DEF KeyInv
<1>4. CallersInv
  BY DEF Init, Idle, CallersInv, Apart, CallerOK, Sending
<1>5. ToldInv
  BY DEF Init, ToldInv
<1> QED
  BY <1>2, <1>3, <1>4, <1>5 DEF ModelInv

LEMMA SubmitStep ==
    ASSUME ModelInv, NEW c \in Callers, NEW k \in Keys, NEW i \in Inputs, NEW q \in Quotes,
           NEW v \in 1..MaxVersion, Submit(c, k, i, q, v)
    PROVE  ModelInv'
<1> DEFINE r == [pc |-> "look", key |-> k, input |-> i, quote |-> q, version |-> v, number |-> 0]
<1>1. r \in CallerStates
  BY NumbersNat, ModelAssumption DEF CallerStates
<1>2. caller' = [caller EXCEPT ![c] = r]
  BY DEF Submit
<1>3. UNCHANGED <<version, call, attempts, breached, billed, unusable, told, orphaned, crashes>>
      /\ mutex' = c /\ runs' = runs + 1 /\ runs < MaxRuns
  BY DEF Submit
<1>4. TypeOK'
  <2>1. caller' \in [Callers -> CallerStates]
    BY <1>1, <1>2 DEF ModelInv, TypeOK
  <2>2. runs' \in 0..MaxRuns
    BY <1>3, ModelAssumption DEF ModelInv, TypeOK
  <2> QED
    BY <1>3, <2>1, <2>2 DEF ModelInv, TypeOK
<1>5. CallersInv'
  <2>1. caller'[c] = r /\ \A d \in Callers \ {c} : caller'[d] = caller[d]
    BY <1>2 DEF ModelInv, TypeOK
  <2>2. CallerOK(c)'
    BY <2>1 DEF CallerOK, Sending
  <2>3. caller'[c].pc \notin Sending
    BY <2>1 DEF Sending
  <2> QED
    BY <1>3, <2>1, <2>2, <2>3, CallersQuiet DEF ModelInv
<1>6. ToldInv'
  BY <1>3 DEF ModelInv, ToldInv
<1> QED
  BY <1>3, <1>4, <1>5, <1>6, RowsKept DEF ModelInv

LEMMA ReplayStep == ASSUME ModelInv, NEW c \in Callers, Replay(c) PROVE ModelInv'
<1> DEFINE k == caller[c].key
<1>1. k \in Keys /\ CallerOK(c)
  BY DEF Replay, ModelInv, CallersInv, CallerOK
<1>2. UNCHANGED <<version, call, attempts, breached, billed, unusable, orphaned, crashes, runs>> /\ Leave(c)
  BY DEF Replay
<1>3. /\ caller' \in [Callers -> CallerStates] /\ mutex' \in Callers \cup {None}
      /\ \A d \in Callers \ {c} : caller'[d] = caller[d]
      /\ caller'[c].pc \notin Sending /\ CallerOK(c)'
  BY <1>2, LeaveCaller DEF ModelInv
<1>4. Shown(k) \in Numbers
  <2>1. KeyInv(k) /\ call[k].status # None /\ call[k].winner \in 0..MaxAttempts
    BY <1>1 DEF ModelInv, Replay, KeyInv, Recorded, TypeOK
  <2>2. PICK m \in 0..MaxAttempts : \A j \in Numbers : attempts[k][j].status # None <=> j <= m
    BY <2>1 DEF KeyInv, NoGap
  <2>3. m # 0
    BY <2>1, <2>2, NumbersNat, ModelAssumption DEF KeyInv, Recorded, Numbers
  <2>4. Max(Attempts(k)) = m
    BY <1>1, <2>2, <2>3, Numbered
  <2> QED
    BY <2>1, <2>3, <2>4, ModelAssumption DEF Shown, Numbers
<1>5. told' \subseteq Keys \X Numbers
  BY <1>1, <1>4 DEF ModelInv, TypeOK, Replay
<1>6. TypeOK'
  BY <1>2, <1>3, <1>5 DEF ModelInv, TypeOK
<1>7. CallersInv'
  BY <1>2, <1>3, CallersQuiet DEF ModelInv
<1>8. ToldInv'
  <2>1. \A n \in Numbers : attempts[k][n].validation = "validated_current" <=> n = call[k].winner
    BY <1>1 DEF ModelInv, KeyInv, WinnerValid
  <2>2. told' = told \/ (told' = told \cup {<<k, Shown(k)>>} /\ attempts[k][Shown(k)].validation = "validated_current")
    BY DEF Replay
  <2> QED
    BY <1>2, <1>4, <2>1, <2>2 DEF ModelInv, ToldInv
<1> QED
  BY <1>2, <1>6, <1>7, <1>8, RowsKept DEF ModelInv

LEMMA PrepareRejectedStep == ASSUME ModelInv, NEW c \in Callers, PrepareRejected(c) PROVE ModelInv'
<1>1. UNCHANGED <<version, call, attempts, breached, billed, unusable, told, orphaned, crashes, runs>> /\ Leave(c)
  BY DEF PrepareRejected
<1>2. /\ caller' \in [Callers -> CallerStates] /\ mutex' \in Callers \cup {None}
      /\ \A d \in Callers \ {c} : caller'[d] = caller[d]
      /\ caller'[c].pc \notin Sending /\ CallerOK(c)'
  BY <1>1, LeaveCaller DEF ModelInv
<1>3. TypeOK'
  BY <1>1, <1>2 DEF ModelInv, TypeOK
<1>4. CallersInv'
  BY <1>1, <1>2, CallersQuiet DEF ModelInv
<1>5. ToldInv'
  BY <1>1 DEF ModelInv, ToldInv
<1> QED
  BY <1>1, <1>3, <1>4, <1>5, RowsKept DEF ModelInv

(* The next attempt of a call that has no open one and no winner.           *)
LEMMA AttemptOpened ==
    ASSUME ModelInv, NEW k \in Keys, NEW m \in 0..MaxAttempts, NEW n \in Numbers, n = m + 1,
           \A j \in Numbers : attempts[k][j].status # None <=> j <= m,
           NEW q \in Quotes, NEW a, a = Prepared(q), NEW r \in CallRecords,
           RowSet(k, n, a), CallSet(k, r),
           r.status = "prepared", r.winner = 0, call[k].winner = 0, call[k].status \notin Live,
           UNCHANGED <<billed, unusable>>
    PROVE  /\ \A l \in Keys : KeyInv(l)'
           /\ attempts'[k][n].status = "prepared" /\ attempts[k][n].status = None
<1>1. TypeOK /\ KeyInv(k)
  BY DEF ModelInv
<1>2. a.status = "prepared" /\ a.cost = "held" /\ a.validation = "pending"
  BY DEF Prepared
<1>4. \A j \in Numbers : j <= n <=> j <= m \/ j = n
  BY ModelAssumption DEF Numbers
<1>6. /\ attempts'[k][n] = a
      /\ \A l \in Keys, j \in Numbers : l # k \/ j # n => attempts'[l][j] = attempts[l][j]
      /\ \A l \in Keys \ {k} : attempts'[l] = attempts[l]
  BY DEF RowSet
<1>7. call'[k] = r /\ \A l \in Keys \ {k} : call'[l] = call[l]
  BY DEF CallSet
<1>8. ASSUME NEW l \in Keys \ {k} PROVE KeyInv(l)'
  BY <1>6, <1>7, KeyKept DEF ModelInv
<1>9. attempts[k][n].status = None /\ ~(n <= m)
  BY ModelAssumption DEF Numbers
<1>10. \A j \in Numbers : attempts[k][j].status \notin Live
  BY <1>1 DEF KeyInv, OpenIsLast
<1>11. \A j \in Numbers : attempts'[k][j].status # None <=> j <= n
  <2> SUFFICES ASSUME NEW j \in Numbers PROVE attempts'[k][j].status # None <=> j <= n
    OBVIOUS
  <2>1. CASE j = n
    <3>1. a.status # None /\ n <= n
      BY <1>2, <1>4, NumbersNat DEF None
    <3> QED
      BY <1>6, <2>1, <3>1
  <2>2. CASE j # n
    BY <1>4, <1>6, <2>2
  <2> QED
    BY <2>1, <2>2
<1>12. NoGap(k)'
  <2>1. n \in 0..MaxAttempts
    BY ModelAssumption DEF Numbers
  <2> QED
    BY <1>11, <2>1 DEF NoGap
<1>13. Recorded(k)'
  <2>1. attempts'[k][1].status # None
    BY <1>4, <1>11, NumbersNat, ModelAssumption DEF Numbers
  <2>2. r.status # None /\ r # NoCall
    BY DEF None, NoCall
  <2> QED
    BY <1>7, <2>1, <2>2 DEF Recorded
<1>14. WinnerValid(k)'
  <2>1. \A j \in Numbers : attempts[k][j].validation # "validated_current"
    BY <1>1, NumbersNat DEF KeyInv, WinnerValid
  <2>2. \A j \in Numbers : attempts'[k][j].validation # "validated_current"
    BY <1>2, <1>6, <2>1
  <2> QED
    BY <1>7, <2>2, NumbersNat DEF WinnerValid
<1>15. OpenIsLast(k)'
  <2>1. ASSUME NEW j \in Numbers, attempts'[k][j].status \in Live PROVE j = n
    BY <1>6, <1>10, <2>1
  <2> QED
    BY <1>2, <1>6, <1>7, <1>11, <2>1 DEF OpenIsLast
<1>16. ASSUME NEW j \in Numbers \ {n} PROVE RowInv(k, j)'
  <2>1. attempts'[k][j] = attempts[k][j] /\ RowInv(k, j)
    BY <1>1, <1>6 DEF KeyInv
  <2> QED
    BY <2>1 DEF RowInv
<1>17. RowInv(k, n)'
  <2>1. billed[k][n] = Nothing
    BY <1>1, <1>4, <1>9 DEF KeyInv, RowInv
  <2> QED
    BY <1>2, <1>6, <2>1 DEF RowInv, None
<1>18. KeyInv(k)'
  BY <1>12, <1>13, <1>14, <1>15, <1>16, <1>17 DEF KeyInv
<1> QED
  BY <1>2, <1>6, <1>8, <1>9, <1>18

(* The caller that opened an attempt works on it; nobody else does.         *)
LEMMA OpenerWorks ==
    ASSUME ModelInv, NEW c \in Callers, NEW k \in Keys, NEW n \in Numbers, NEW a, NEW s,
           attempts[k][n].status = None, a.status = "prepared", RowSet(k, n, a), CallerSet(c, s),
           s.pc = "dispatch", s.key = k, s.number = n, s.quote \in Quotes
    PROVE  CallersInv'
<1>1. ASSUME NEW d \in Callers \ {c}, caller[d].pc \in Sending PROVE caller[d].key # k \/ caller[d].number # n
  BY <1>1 DEF ModelInv, CallersInv, CallerOK, None
<1>2. caller'[c] = s /\ \A d \in Callers \ {c} : caller'[d] = caller[d]
  BY DEF CallerSet
<1>3. attempts'[k][n] = a
      /\ \A l \in Keys, j \in Numbers : l # k \/ j # n => attempts'[l][j] = attempts[l][j]
  BY DEF RowSet
<1>4. CallerOK(c)'
  BY <1>2, <1>3 DEF CallerOK
<1> QED
  BY <1>1, <1>2, <1>3, <1>4, CallersKept DEF ModelInv

LEMMA PreparedIsAttempt ==
    ASSUME NEW q \in Quotes PROVE Prepared(q) \in AttemptRecords /\ Prepared(q).status = "prepared"
BY DEF Prepared, AttemptRecords, CallStatuses, Validations

LEMMA PrepareModelCallStep == ASSUME ModelInv, NEW c \in Callers, PrepareModelCall(c) PROVE ModelInv'
<1>1. PICK k \in Keys, q \in Quotes, n \in Numbers, m \in 0..MaxAttempts :
          k = caller[c].key /\ q = caller[c].quote /\ m = 0 /\ n = 1
  BY NumbersNat, ModelAssumption DEF PrepareModelCall, ModelInv, CallersInv, CallerOK
<1>2. PICK r : r = [status |-> "prepared", winner |-> 0, version |-> version, input |-> caller[c].input]
  OBVIOUS
<1>3. PICK s : s = [caller[c] EXCEPT !.pc = "dispatch", !.number = 1]
  OBVIOUS
<1>4. PICK a : a = Prepared(q)
  OBVIOUS
<1>5. caller[c] \in CallerStates
  BY Types DEF ModelInv
<1>6. r \in CallRecords /\ r.status = "prepared" /\ r.winner = 0
  <2>1. caller[c].input \in Inputs \cup {None} /\ version \in 0..MaxVersion /\ 0 \in 0..MaxAttempts
    BY <1>5, ModelAssumption DEF CallerStates, ModelInv, TypeOK
  <2> QED
    BY <1>2, <2>1 DEF CallRecords, CallStatuses
<1>7. s \in CallerStates /\ s.pc = "dispatch" /\ s.key = k /\ s.number = n /\ s.quote = q
  <2>1. caller[c].input \in Inputs \cup {None} /\ caller[c].version \in 0..MaxVersion
    BY <1>5 DEF CallerStates
  <2>2. n \in 0..MaxAttempts
    BY ModelAssumption DEF Numbers
  <2>3. s = [pc |-> "dispatch", key |-> k, input |-> caller[c].input, quote |-> q,
             version |-> caller[c].version, number |-> n]
    BY <1>1, <1>3, <1>5 DEF CallerStates
  <2>4. s \in CallerStates
    BY <2>1, <2>2, <2>3, CallerStateMade
  <2> QED
    BY <2>3, <2>4
<1>8. a \in AttemptRecords /\ a.status = "prepared"
  BY <1>4, PreparedIsAttempt
<1>9. /\ attempts' = [attempts EXCEPT ![k][n] = a] /\ call' = [call EXCEPT ![k] = r]
      /\ caller' = [caller EXCEPT ![c] = s] /\ call[k] = NoCall
      /\ UNCHANGED <<version, breached, mutex, billed, unusable, told, orphaned, crashes, runs>>
  BY <1>1, <1>2, <1>3, <1>4 DEF PrepareModelCall
<1>10. RowSet(k, n, a) /\ CallSet(k, r) /\ CallerSet(c, s)
  <2>1. RowSet(k, n, a)
    BY <1>8, <1>9, Types DEF ModelInv, RowSet
  <2>2. CallSet(k, r)
    BY <1>6, <1>9, Types DEF ModelInv, CallSet
  <2>3. CallerSet(c, s)
    BY <1>7, <1>9, Types DEF ModelInv, CallerSet
  <2> QED
    BY <2>1, <2>2, <2>3
<1>11. call[k].winner = 0 /\ call[k].status \notin Live /\ call[k].status = None
  BY <1>9 DEF NoCall, Live, None
<1>12. \A j \in Numbers : attempts[k][j].status # None <=> j <= m
  <2>1. KeyInv(k)
    BY DEF ModelInv
  <2>2. PICK i \in 0..MaxAttempts : \A j \in Numbers : attempts[k][j].status # None <=> j <= i
    BY <2>1 DEF KeyInv, NoGap
  <2>3. attempts[k][1].status = None
    BY <1>11, <2>1 DEF KeyInv, Recorded
  <2>4. i = m
    BY <1>1, <2>2, <2>3, NumbersNat, ModelAssumption DEF Numbers
  <2> QED
    BY <2>2, <2>4
<1>13. n = m + 1
  BY <1>1
<1>14. (\A l \in Keys : KeyInv(l)') /\ attempts[k][n].status = None
  BY <1>4, <1>6, <1>9, <1>10, <1>11, <1>12, <1>13, AttemptOpened
<1>15. CallersInv'
  BY <1>7, <1>8, <1>10, <1>14, OpenerWorks
<1>16. TypeOK'
  BY <1>9, <1>10 DEF ModelInv, TypeOK, CallRecords, AttemptRecords, RowSet, CallSet, CallerSet
<1>17. ToldInv'
  BY <1>6, <1>9, <1>10, <1>11 DEF ModelInv, ToldInv, CallSet
<1> QED
  BY <1>14, <1>15, <1>16, <1>17 DEF ModelInv

LEMMA RetryModelCallStep ==
    ASSUME ModelInv, NEW c \in Callers, NEW k \in Keys, NEW q \in Quotes, RetryModelCall(c, k, q)
    PROVE  ModelInv'
<1>1. KeyInv(k) /\ call[k] \in CallRecords /\ Retriable(k)
  BY AttemptType, NumbersNat DEF ModelInv, RetryModelCall
<1>2. PICK m \in 0..MaxAttempts : \A j \in Numbers : attempts[k][j].status # None <=> j <= m
  BY <1>1 DEF KeyInv, NoGap
<1>3. m # 0
  <2>1. call[k].status # None
    BY <1>1 DEF Retriable, None
  <2>2. attempts[k][1].status # None
    BY <1>1, <2>1 DEF KeyInv, Recorded
  <2> QED
    BY <1>2, <2>2, NumbersNat, ModelAssumption DEF Numbers
<1>4. Cardinality(Attempts(k)) = m /\ Max(Attempts(k)) = m
  BY <1>2, <1>3, Numbered
<1>5. PICK n \in Numbers : n = m + 1
  BY <1>4, ModelAssumption DEF RetryModelCall, Numbers
<1>6. PICK r : r = [call[k] EXCEPT !.status = "prepared"]
  OBVIOUS
<1>7. PICK s : s = [Idle EXCEPT !.pc = "dispatch", !.key = k, !.quote = q, !.number = n]
  OBVIOUS
<1>8. PICK a : a = Prepared(q)
  OBVIOUS
<1>9. r \in CallRecords /\ r.status = "prepared" /\ r.winner = 0 /\ call[k].winner = 0
      /\ call[k].status \notin Live
  BY <1>1, <1>6 DEF CallRecords, CallStatuses, Retriable, Live
<1>10. s \in CallerStates /\ s.pc = "dispatch" /\ s.key = k /\ s.number = n /\ s.quote = q
  <2>1. s = [pc |-> "dispatch", key |-> k, input |-> None, quote |-> q, version |-> 0, number |-> n]
    BY <1>7 DEF Idle
  <2>2. n \in 0..MaxAttempts /\ 0 \in 0..MaxVersion
    BY ModelAssumption DEF Numbers
  <2>3. s \in CallerStates
    BY <2>1, <2>2, CallerStateMade
  <2> QED
    BY <2>1, <2>3
<1>11. a \in AttemptRecords /\ a.status = "prepared"
  BY <1>8, PreparedIsAttempt
<1>12. /\ attempts' = [attempts EXCEPT ![k][n] = a] /\ call' = [call EXCEPT ![k] = r]
      /\ caller' = [caller EXCEPT ![c] = s] /\ runs < MaxRuns /\ runs' = runs + 1
      /\ UNCHANGED <<version, breached, mutex, billed, unusable, told, orphaned, crashes>>
  BY <1>4, <1>5, <1>6, <1>7, <1>8 DEF RetryModelCall
<1>13. RowSet(k, n, a) /\ CallSet(k, r) /\ CallerSet(c, s)
  <2>1. RowSet(k, n, a)
    BY <1>11, <1>12, Types DEF ModelInv, RowSet
  <2>2. CallSet(k, r)
    BY <1>9, <1>12, Types DEF ModelInv, CallSet
  <2>3. CallerSet(c, s)
    BY <1>10, <1>12, Types DEF ModelInv, CallerSet
  <2> QED
    BY <2>1, <2>2, <2>3
<1>14. (\A l \in Keys : KeyInv(l)') /\ attempts[k][n].status = None
  BY <1>2, <1>5, <1>8, <1>9, <1>12, <1>13, AttemptOpened
<1>15. CallersInv'
  BY <1>10, <1>11, <1>13, <1>14, OpenerWorks
<1>16. TypeOK'
  <2>1. runs' \in 0..MaxRuns
    BY <1>12, ModelAssumption DEF ModelInv, TypeOK
  <2> QED
    BY <1>12, <1>13, <2>1 DEF ModelInv, TypeOK, CallRecords, AttemptRecords, RowSet, CallSet, CallerSet
<1>17. ToldInv'
  BY <1>9, <1>12, <1>13 DEF ModelInv, ToldInv, CallSet
<1> QED
  BY <1>14, <1>15, <1>16, <1>17 DEF ModelInv

LEMMA SenderWorks ==
    ASSUME ModelInv, NEW c \in Callers, caller[c].pc \in Sending
    PROVE  /\ caller[c].key \in Keys /\ caller[c].number \in Numbers /\ caller[c].quote \in Quotes
           /\ caller[c] \in CallerStates
           /\ attempts[caller[c].key][caller[c].number].status =
                 IF caller[c].pc = "dispatch" THEN "prepared" ELSE "dispatched"
           /\ \A d \in Callers \ {c} : caller[d].pc \in Sending =>
                 caller[d].key # caller[c].key \/ caller[d].number # caller[c].number
<1>1. CallerOK(c) /\ Apart /\ caller[c] \in CallerStates
  BY Types DEF ModelInv, CallersInv
<1>2. caller[c].pc # "idle"
  BY DEF Sending
<1> QED
  BY <1>1, <1>2 DEF CallerOK, Apart

LEMMA MarkDispatchedStep == ASSUME ModelInv, NEW c \in Callers, MarkDispatched(c) PROVE ModelInv'
<1>0. caller[c].pc = "dispatch" /\ caller[c].pc \in Sending
  BY DEF MarkDispatched, Sending
<1>1. PICK k \in Keys, n \in Numbers : k = caller[c].key /\ n = caller[c].number
  BY <1>0, SenderWorks
<1>2. PICK a : a = [attempts[k][n] EXCEPT !.status = "dispatched"]
  OBVIOUS
<1>3. PICK r : r = [call[k] EXCEPT !.status = "dispatched"]
  OBVIOUS
<1>4. PICK s : s = [caller[c] EXCEPT !.pc = "send"]
  OBVIOUS
<1>5. KeyInv(k) /\ attempts[k][n] \in AttemptRecords /\ call[k] \in CallRecords
  BY AttemptType DEF ModelInv
<1>6. attempts[k][n].status = "prepared"
  BY <1>0, <1>1, SenderWorks
<1>7. a \in AttemptRecords /\ a.status = "dispatched" /\ a.cost = attempts[k][n].cost
      /\ a.validation = attempts[k][n].validation
  BY <1>2, <1>5 DEF AttemptRecords, CallStatuses
<1>8. r \in CallRecords /\ r.status = "dispatched" /\ r.winner = call[k].winner
  BY <1>3, <1>5 DEF CallRecords, CallStatuses
<1>9. s \in CallerStates /\ s.pc = "send" /\ s.key = k /\ s.number = n /\ s.quote \in Quotes
  BY <1>0, <1>1, <1>4, SenderWorks DEF CallerStates
<1>10. /\ attempts' = [attempts EXCEPT ![k][n] = a] /\ call' = [call EXCEPT ![k] = r]
       /\ caller' = [caller EXCEPT ![c] = s]
       /\ UNCHANGED <<version, breached, mutex, billed, unusable, told, orphaned, crashes, runs>>
  BY <1>1, <1>2, <1>3, <1>4 DEF MarkDispatched
<1>11. RowSet(k, n, a) /\ CallSet(k, r) /\ CallerSet(c, s)
  <2>1. RowSet(k, n, a)
    BY <1>7, <1>10, Types DEF ModelInv, RowSet
  <2>2. CallSet(k, r)
    BY <1>8, <1>10, Types DEF ModelInv, CallSet
  <2>3. CallerSet(c, s)
    BY <1>9, <1>10, Types DEF ModelInv, CallerSet
  <2> QED
    BY <2>1, <2>2, <2>3
<1>12. /\ attempts'[k][n] = a /\ call'[k] = r
       /\ \A j \in Numbers \ {n} : attempts'[k][j] = attempts[k][j]
  BY <1>11 DEF RowSet, CallSet
<1>13. call[k].winner = 0 /\ \A j \in Numbers : attempts[k][j].status # None => j <= n
  BY <1>5, <1>6 DEF KeyInv, OpenIsLast, Live
<1>14. \A j \in Numbers : attempts'[k][j].status # None <=> attempts[k][j].status # None
  BY <1>6, <1>7, <1>12 DEF None
<1>15. NoGap(k)'
  BY <1>5, <1>14 DEF KeyInv, NoGap
<1>16. Recorded(k)'
  <2>1. PICK m \in 0..MaxAttempts : \A j \in Numbers : attempts[k][j].status # None <=> j <= m
    BY <1>5 DEF KeyInv, NoGap
  <2>2. attempts[k][1].status # None
    BY <1>6, <2>1, NumbersNat, ModelAssumption DEF Numbers, None
  <2>3. r # NoCall /\ r.status # None
    BY <1>8 DEF NoCall, None
  <2> QED
    BY <1>12, <1>14, <2>2, <2>3, NumbersNat DEF Recorded
<1>17. WinnerValid(k)'
  BY <1>5, <1>7, <1>8, <1>12, <1>13 DEF KeyInv, WinnerValid
<1>18. OpenIsLast(k)'
  <2>1. ASSUME NEW j \in Numbers \ {n}, attempts[k][j].status \in Live PROVE FALSE
    <3>1. call[k].status = attempts[k][j].status /\ n <= j
      BY <1>5, <1>6, <2>1 DEF KeyInv, OpenIsLast, None
    <3>2. j <= n
      BY <1>13, <2>1 DEF Live, None
    <3> QED
      BY <3>1, <3>2, <2>1, NumbersNat
  <2>2. \A j \in Numbers : attempts'[k][j].status \in Live => j = n
    BY <1>12, <2>1
  <2>3. \A j \in Numbers : attempts'[k][j].status # None => j <= n
    BY <1>13, <1>14
  <2> QED
    BY <1>7, <1>8, <1>12, <1>13, <2>2, <2>3 DEF OpenIsLast
<1>19. ASSUME NEW j \in Numbers \ {n} PROVE RowInv(k, j)'
  BY <1>5, <1>10, <1>12 DEF KeyInv, RowInv
<1>20. RowInv(k, n)'
  <2>1. RowInv(k, n)
    BY <1>5 DEF KeyInv
  <2>2. billed'[k][n] = Nothing /\ a.cost = "held"
    BY <1>6, <1>7, <1>10, <2>1 DEF RowInv, Live
  <2> QED
    BY <1>7, <1>12, <2>2 DEF RowInv, None
<1>21. KeyInv(k)'
  BY <1>15, <1>16, <1>17, <1>18, <1>19, <1>20 DEF KeyInv
<1>22. ASSUME NEW l \in Keys \ {k} PROVE KeyInv(l)'
  BY <1>10, <1>11, KeyKept DEF ModelInv, RowSet, CallSet
<1>23. CallersInv'
  <2>1. CallerOK(c)'
    BY <1>7, <1>9, <1>11, <1>12 DEF CallerOK, CallerSet
  <2> QED
    BY <1>0, <1>1, <1>9, <1>11, <2>1, SenderWorks, CallersKept DEF ModelInv, RowSet, CallerSet
<1>24. TypeOK'
  BY <1>10, <1>11 DEF ModelInv, TypeOK, CallRecords, AttemptRecords, RowSet, CallSet, CallerSet
<1>25. ToldInv'
  BY <1>8, <1>10, <1>11 DEF ModelInv, ToldInv, CallSet
<1> QED
  BY <1>21, <1>22, <1>23, <1>24, <1>25 DEF ModelInv

LEMMA CreatePlanningCandidateStep ==
    ASSUME ModelInv, NEW c \in Callers, NEW u \in Usages \cup {Nothing}, CreatePlanningCandidate(c, u)
    PROVE  ModelInv'
<1>0. caller[c].pc = "send" /\ caller[c].pc \in Sending
  BY DEF CreatePlanningCandidate, Sending
<1>1. PICK k \in Keys, n \in Numbers : k = caller[c].key /\ n = caller[c].number
  BY <1>0, SenderWorks
<1>2. PICK s : s = [caller[c] EXCEPT !.pc = "settle"]
  OBVIOUS
<1>3. s \in CallerStates /\ s.pc = "settle" /\ s.key = k /\ s.number = n /\ s.quote \in Quotes
  BY <1>0, <1>1, <1>2, SenderWorks DEF CallerStates
<1>4. /\ billed' = [billed EXCEPT ![k][n] = u] /\ caller' = [caller EXCEPT ![c] = s]
      /\ UNCHANGED <<version, call, attempts, breached, mutex, unusable, told, orphaned, crashes, runs>>
  BY <1>1, <1>2 DEF CreatePlanningCandidate
<1>5. CallerSet(c, s)
  BY <1>3, <1>4, Types DEF ModelInv, CallerSet
<1>6. attempts[k][n].status = "dispatched"
  BY <1>0, <1>1, SenderWorks
<1>7. /\ billed' \in [Keys -> [Numbers -> Usages \cup {Nothing}]]
      /\ \A l \in Keys, j \in Numbers : l # k \/ j # n => billed'[l][j] = billed[l][j]
  BY <1>4 DEF ModelInv, TypeOK
<1>8. ASSUME NEW l \in Keys, NEW j \in Numbers PROVE RowInv(l, j)'
  <2>1. RowInv(l, j)
    BY DEF ModelInv, KeyInv
  <2>2. CASE l # k \/ j # n
    BY <1>4, <1>7, <2>1, <2>2 DEF RowInv
  <2>3. CASE l = k /\ j = n
    BY <1>4, <1>6, <2>1, <2>3 DEF RowInv, None
  <2> QED
    BY <2>2, <2>3
<1>9. \A l \in Keys : NoGap(l)' /\ Recorded(l)' /\ WinnerValid(l)' /\ OpenIsLast(l)'
  BY <1>4 DEF ModelInv, KeyInv, NoGap, Recorded, WinnerValid, OpenIsLast
<1>10. CallersInv'
  <2>1. CallerOK(c)'
    BY <1>3, <1>4, <1>5, <1>6 DEF CallerOK, CallerSet
  <2> QED
    BY <1>0, <1>1, <1>3, <1>4, <1>5, <2>1, SenderWorks, CallersKept DEF ModelInv, CallerSet
<1>11. TypeOK'
  BY <1>4, <1>5, <1>7 DEF ModelInv, TypeOK, CallerSet
<1>12. ToldInv'
  BY <1>4 DEF ModelInv, ToldInv
<1> QED
  BY <1>8, <1>9, <1>10, <1>11, <1>12 DEF ModelInv, KeyInv

LEMMA LeavesRow ==
    ASSUME ModelInv, NEW c \in Callers, caller[c].pc \in Sending, Leave(c),
           NEW k \in Keys, NEW n \in Numbers, k = caller[c].key, n = caller[c].number,
           NEW a, RowSet(k, n, a)
    PROVE  CallersInv' /\ caller' \in [Callers -> CallerStates] /\ mutex' \in Callers \cup {None}
<1>1. /\ caller' \in [Callers -> CallerStates] /\ mutex' \in Callers \cup {None}
      /\ \A d \in Callers \ {c} : caller'[d] = caller[d]
      /\ caller'[c].pc \notin Sending /\ CallerOK(c)'
  BY LeaveCaller DEF ModelInv
<1>2. \A d \in Callers \ {c} : caller[d].pc \in Sending => caller[d].key # k \/ caller[d].number # n
  BY SenderWorks
<1>3. \A l \in Keys, j \in Numbers : l # k \/ j # n => attempts'[l][j] = attempts[l][j]
  BY DEF RowSet
<1>4. CallersInv
  BY DEF ModelInv
<1>5. CallersInv'
  BY <1>1, <1>2, <1>3, <1>4, CallersKept
<1> QED
  BY <1>1, <1>5

(* Nothing is settled: the caller only leaves.                              *)
LEMMA LeavesQuietly ==
    ASSUME ModelInv, NEW c \in Callers, Leave(c),
           UNCHANGED <<version, call, attempts, breached, billed, unusable, told, orphaned, crashes, runs>>
    PROVE  ModelInv'
<1>1. /\ caller' \in [Callers -> CallerStates] /\ mutex' \in Callers \cup {None}
      /\ \A d \in Callers \ {c} : caller'[d] = caller[d]
      /\ caller'[c].pc \notin Sending /\ CallerOK(c)'
  BY LeaveCaller DEF ModelInv
<1>2. TypeOK'
  BY <1>1 DEF ModelInv, TypeOK
<1>3. CallersInv'
  BY <1>1, CallersQuiet DEF ModelInv
<1>4. ToldInv'
  BY DEF ModelInv, ToldInv
<1> QED
  BY <1>2, <1>3, <1>4, RowsKept DEF ModelInv

(* _settle_model_attempt on an open attempt.                                *)
LEMMA SettlesOpen ==
    ASSUME ModelInv, NEW k \in Keys, NEW n \in Numbers, attempts[k][n].status \in Live,
           NEW status \in {"failed", "succeeded"}, NEW validation \in Validations,
           NEW u \in [in : Nat, out : Nat], Settle(k, n, status, validation, u),
           validation = "validated_current" => status = "succeeded",
           billed' = billed, unusable' \in {unusable, unusable \cup {<<k, n>>}},
           billed[k][n] # Nothing /\ <<k, n>> \notin unusable' => u # Nothing
    PROVE  /\ \A l \in Keys : KeyInv(l)'
           /\ call[k].winner = 0
           /\ \E a \in AttemptRecords, r \in CallRecords :
                 /\ RowSet(k, n, a) /\ CallSet(k, r) /\ a.validation = validation
                 /\ r.winner = IF validation = "validated_current" THEN n ELSE 0
           /\ breached' \in BOOLEAN
<1>1. KeyInv(k) /\ attempts[k][n] \in AttemptRecords /\ call[k] \in CallRecords
  BY AttemptType DEF ModelInv
<1>2. call[k].winner = 0
  BY <1>1 DEF KeyInv, OpenIsLast
<1>3. attempts[k][n].cost = "held"
  BY <1>1 DEF KeyInv, RowInv
<1>4. PICK a : a = [attempts[k][n] EXCEPT !.status = status, !.validation = validation,
                       !.settled = Tokens(u), !.cost = "settled", !.money = ActualCost(u)]
  OBVIOUS
<1>5. PICK r : r = IF validation = "validated_current"
                   THEN [call[k] EXCEPT !.status = status, !.winner = n]
                   ELSE [call[k] EXCEPT !.status = status]
  OBVIOUS
<1>6. Tokens(u) \in Nat /\ ActualCost(u) \in Nat /\ (u # Nothing => Tokens(u) > 0)
  BY TokensPositive
<1>7. a \in AttemptRecords /\ a.status = status /\ a.validation = validation
      /\ a.settled = Tokens(u) /\ a.cost = "settled"
  BY <1>1, <1>4, <1>6 DEF AttemptRecords, CallStatuses
<1>8. r \in CallRecords /\ r.status = status
      /\ r.winner = IF validation = "validated_current" THEN n ELSE 0
  <2>1. n \in 0..MaxAttempts /\ status \in CallStatuses
    BY ModelAssumption DEF Numbers, CallStatuses
  <2> QED
    BY <1>1, <1>2, <1>5, <2>1 DEF CallRecords
<1>9. attempts' = [attempts EXCEPT ![k][n] = a]
  BY <1>3, <1>4 DEF Settle
<1>10. call' = [call EXCEPT ![k] = r]
  <2>1. CASE validation = "validated_current"
    BY <1>2, <1>5, <2>1, Types DEF Settle, ModelInv
  <2>2. CASE validation # "validated_current"
    BY <1>5, <2>2 DEF Settle
  <2> QED
    BY <2>1, <2>2
<1>11. RowSet(k, n, a)
  BY <1>7, <1>9, Types DEF ModelInv, RowSet
<1>12. CallSet(k, r)
  BY <1>8, <1>10, Types DEF ModelInv, CallSet
<1>13. \A l \in Keys : KeyInv(l)'
  BY <1>6, <1>7, <1>8, <1>11, <1>12, AttemptClosed
<1>14. breached' \in BOOLEAN
  BY DEF Settle, ModelInv, TypeOK
<1> QED
  BY <1>2, <1>7, <1>8, <1>11, <1>12, <1>13, <1>14

(* A caller settles its attempt and leaves.                                 *)
LEMMA SettlesAndLeaves ==
    ASSUME ModelInv, NEW c \in Callers, caller[c].pc = "settle", Leave(c),
           NEW k \in Keys, NEW n \in Numbers, k = caller[c].key, n = caller[c].number,
           NEW status \in {"failed", "succeeded"}, NEW validation \in Validations,
           NEW u \in [in : Nat, out : Nat], Settle(k, n, status, validation, u),
           validation = "validated_current" => status = "succeeded",
           UNCHANGED <<version, billed, orphaned, crashes, runs>>, unusable' \in {unusable, unusable \cup {<<k, n>>}},
           billed[k][n] # Nothing /\ <<k, n>> \notin unusable' => u # Nothing,
           told' = told \/ (told' = told \cup {<<k, n>>} /\ validation = "validated_current")
    PROVE  ModelInv'
<1>1. caller[c].pc \in Sending /\ attempts[k][n].status \in Live
  <2>1. caller[c].pc \in Sending
    BY DEF Sending
  <2> QED
    BY <2>1, SenderWorks DEF Live
<1>2. (\A l \in Keys : KeyInv(l)') /\ call[k].winner = 0 /\ breached' \in BOOLEAN
  BY <1>1, SettlesOpen
<1>3. PICK a \in AttemptRecords, r \in CallRecords :
         /\ RowSet(k, n, a) /\ CallSet(k, r) /\ a.validation = validation
         /\ r.winner = IF validation = "validated_current" THEN n ELSE 0
  BY <1>1, SettlesOpen
<1>4. CallersInv' /\ caller' \in [Callers -> CallerStates] /\ mutex' \in Callers \cup {None}
  BY <1>1, <1>3, LeavesRow
<1>5. unusable' \subseteq Keys \X Numbers /\ told' \subseteq Keys \X Numbers
  BY DEF ModelInv, TypeOK
<1>6. TypeOK'
  BY <1>2, <1>3, <1>4, <1>5 DEF ModelInv, TypeOK, RowSet, CallSet, CallRecords, AttemptRecords
<1>7. ToldInv'
  <2>1. \A j \in Numbers : <<k, j>> \notin told
    BY <1>2, NumbersNat DEF ModelInv, ToldInv
  <2>2. call'[k] = r /\ \A l \in Keys \ {k} : call'[l] = call[l]
    BY <1>3 DEF CallSet
  <2> SUFFICES ASSUME NEW l \in Keys, NEW j \in Numbers, <<l, j>> \in told' PROVE j = call'[l].winner
    BY DEF ToldInv
  <2>3. CASE l = k
    BY <1>3, <2>1, <2>2, <2>3
  <2>4. CASE l # k
    BY <2>2, <2>4 DEF ModelInv, ToldInv
  <2> QED
    BY <2>3, <2>4
<1> QED
  BY <1>2, <1>4, <1>6, <1>7 DEF ModelInv

LEMMA SettlerAt ==
    ASSUME ModelInv, NEW c \in Callers, caller[c].pc = "settle"
    PROVE  \E k \in Keys, n \in Numbers :
              /\ k = caller[c].key /\ n = caller[c].number /\ caller[c].quote \in Quotes
              /\ attempts[k][n].status = "dispatched"
              /\ billed[k][n] \in [in : Nat, out : Nat]
<1>1. caller[c].pc \in Sending
  BY DEF Sending
<1>2. caller[c].key \in Keys /\ caller[c].number \in Numbers /\ caller[c].quote \in Quotes
      /\ attempts[caller[c].key][caller[c].number].status = "dispatched"
  BY <1>1, SenderWorks
<1>3. Nothing \in [in : Nat, out : Nat]
  BY DEF Nothing
<1>4. billed[caller[c].key][caller[c].number] \in Usages \cup {Nothing}
  BY <1>2 DEF ModelInv, TypeOK
<1> QED
  BY <1>2, <1>3, <1>4, ModelAssumption

LEMMA RecordSuccessStep ==
    ASSUME ModelInv, NEW c \in Callers, NEW u \in Usages, RecordSuccess(c, u) PROVE ModelInv'
<1>1. caller[c].pc = "settle" /\ Leave(c) /\ UNCHANGED <<version, billed, unusable, orphaned, crashes, runs>>
      /\ "response" \in Outcomes(u)
  BY DEF RecordSuccess
<1>2. PICK k \in Keys, n \in Numbers :
              /\ k = caller[c].key /\ n = caller[c].number
              /\ attempts[k][n].status = "dispatched"
              /\ billed[k][n] \in [in : Nat, out : Nat]
  BY <1>1, SettlerAt
<1>3. u \in [in : Nat, out : Nat] /\ u # Nothing
  BY <1>1, ResponseBilled, ModelAssumption
<1>4. Settle(k, n, "succeeded", Validation(k), u)
  BY <1>2 DEF RecordSuccess, SettlementRefused, SettlesFrom
<1>5. PICK v : v = Validation(k)
  OBVIOUS
<1>6. v \in Validations
  BY <1>5 DEF Validation, Validations
<1>7. call[k].winner = 0 /\ attempts'[k][n].validation = v
  <2>1. attempts[k][n].status \in Live
    BY <1>2 DEF Live
  <2>2. KeyInv(k) /\ attempts[k][n] \in AttemptRecords
    BY AttemptType DEF ModelInv
  <2>3. attempts' = [attempts EXCEPT ![k][n] =
            [attempts[k][n] EXCEPT !.status = "succeeded", !.validation = v, !.settled = Tokens(u),
             !.cost = "settled", !.money = IF attempts[k][n].cost \in {"held", "unknown"} THEN ActualCost(u)
                                           ELSE attempts[k][n].money]]
    BY <1>4, <1>5 DEF Settle
  <2> QED
    BY <2>1, <2>2, <2>3, Types DEF KeyInv, OpenIsLast, AttemptRecords, ModelInv
<1>8. told' = told \/ (told' = told \cup {<<k, n>>} /\ v = "validated_current")
  BY <1>2, <1>7 DEF RecordSuccess, Telling
<1> QED
  BY <1>1, <1>2, <1>3, <1>4, <1>5, <1>6, <1>8, SettlesAndLeaves

LEMMA RecordRejectedStep ==
    ASSUME ModelInv, NEW c \in Callers, NEW readable \in BOOLEAN, RecordRejected(c, readable)
    PROVE  ModelInv'
<1>1. caller[c].pc = "settle" /\ Leave(c) /\ UNCHANGED <<version, billed, unusable, told, orphaned, crashes, runs>>
  BY DEF RecordRejected
<1>2. PICK k \in Keys, n \in Numbers :
              /\ k = caller[c].key /\ n = caller[c].number /\ caller[c].quote \in Quotes
              /\ attempts[k][n].status = "dispatched"
              /\ billed[k][n] \in [in : Nat, out : Nat]
  BY <1>1, SettlerAt
<1>3. PICK u : u = IF readable THEN billed[k][n] ELSE [in |-> caller[c].quote.tokens, out |-> 0]
  OBVIOUS
<1>4. u \in [in : Nat, out : Nat] /\ u # Nothing
  <2>1. billed[k][n] # Nothing
    BY <1>2, ResponseBilled DEF RecordRejected
  <2>2. caller[c].quote.tokens \in Nat \ {0}
    BY <1>2, ModelAssumption
  <2> QED
    BY <1>2, <1>3, <2>1, <2>2 DEF Nothing
<1>5. Settle(k, n, "failed", "invalid", u)
  BY <1>2, <1>3 DEF RecordRejected, SettlementRefused, SettlesFrom, Live
<1>6. "invalid" \in Validations
  BY DEF Validations
<1> QED
  BY <1>1, <1>2, <1>4, <1>5, <1>6, SettlesAndLeaves, ZenonT(60)

LEMMA RecordKnownFailureStep ==
    ASSUME ModelInv, NEW c \in Callers, RecordKnownFailure(c) PROVE ModelInv'
<1>1. caller[c].pc = "settle" /\ Leave(c) /\ UNCHANGED <<version, billed, told, orphaned, crashes, runs>>
  BY DEF RecordKnownFailure
<1>2. PICK k \in Keys, n \in Numbers :
              /\ k = caller[c].key /\ n = caller[c].number
              /\ attempts[k][n].status = "dispatched"
  BY <1>1, SettlerAt
<1>3. /\ Settle(k, n, "failed", "invalid", Nothing)
      /\ unusable' = IF billed[k][n] = Nothing THEN unusable ELSE unusable \cup {<<k, n>>}
  BY <1>2 DEF RecordKnownFailure, SettlementRefused, SettlesFrom, Live
<1>4. "invalid" \in Validations /\ Nothing \in [in : Nat, out : Nat]
  BY DEF Validations, Nothing
<1> QED
  BY <1>1, <1>2, <1>3, <1>4, SettlesAndLeaves

LEMMA RecordUnknownStep == ASSUME ModelInv, NEW c \in Callers, RecordUnknown(c) PROVE ModelInv'
<1>1. caller[c].pc = "settle" /\ Leave(c) /\ UNCHANGED <<version, billed, unusable, told, orphaned, crashes, runs>>
  BY DEF RecordUnknown
<1>2. PICK k \in Keys, n \in Numbers :
              /\ k = caller[c].key /\ n = caller[c].number
              /\ attempts[k][n].status = "dispatched"
  BY <1>1, SettlerAt
<1>3. MarkUnknown(k, n)
  BY <1>2 DEF RecordUnknown
<1>4. KeyInv(k) /\ attempts[k][n] \in AttemptRecords /\ call[k] \in CallRecords
  BY AttemptType DEF ModelInv
<1>5. attempts[k][n].status \in Live /\ attempts[k][n].cost = "held"
  BY <1>2, <1>4 DEF KeyInv, RowInv, Live
<1>6. PICK a : a = [attempts[k][n] EXCEPT !.status = "unknown_outcome", !.cost = "unknown"]
  OBVIOUS
<1>7. PICK r : r = [call[k] EXCEPT !.status = "unknown_outcome"]
  OBVIOUS
<1>8. attempts' = [attempts EXCEPT ![k][n] = a] /\ call' = [call EXCEPT ![k] = r] /\ breached' = breached
  <2>1. attempts' = [attempts EXCEPT ![k][n] = [attempts[k][n] EXCEPT !.status = "unknown_outcome",
           !.cost = IF attempts[k][n].cost = "held" THEN "unknown" ELSE attempts[k][n].cost]]
    BY <1>3 DEF MarkUnknown
  <2> QED
    BY <1>3, <1>5, <1>6, <1>7, <2>1 DEF MarkUnknown
<1>9. a \in AttemptRecords /\ a.status = "unknown_outcome" /\ a.cost = "unknown"
      /\ a.validation = attempts[k][n].validation
  BY <1>4, <1>6 DEF AttemptRecords, CallStatuses
<1>10. r \in CallRecords /\ r.status = "unknown_outcome" /\ r.winner = call[k].winner
  BY <1>4, <1>7 DEF CallRecords, CallStatuses
<1>11. call[k].winner = 0 /\ a.validation # "validated_current"
  BY <1>4, <1>5, <1>9, NumbersNat DEF KeyInv, OpenIsLast, WinnerValid
<1>12. RowSet(k, n, a) /\ CallSet(k, r)
  <2>1. RowSet(k, n, a)
    BY <1>8, <1>9, Types DEF ModelInv, RowSet
  <2>2. CallSet(k, r)
    BY <1>8, <1>10, Types DEF ModelInv, CallSet
  <2> QED
    BY <2>1, <2>2
<1>13. \A l \in Keys : KeyInv(l)'
  BY <1>1, <1>5, <1>9, <1>10, <1>11, <1>12, AttemptClosed
<1>14. CallersInv' /\ caller' \in [Callers -> CallerStates] /\ mutex' \in Callers \cup {None}
  BY <1>1, <1>2, <1>12, LeavesRow DEF Sending
<1>15. TypeOK'
  BY <1>1, <1>8, <1>12, <1>14 DEF ModelInv, TypeOK, RowSet, CallSet, CallRecords, AttemptRecords
<1>16. ToldInv'
  BY <1>1, <1>10, <1>12 DEF ModelInv, ToldInv, CallSet
<1> QED
  BY <1>13, <1>14, <1>15, <1>16 DEF ModelInv

LEMMA AdvanceStep == ASSUME ModelInv, Advance PROVE ModelInv'
<1>1. UNCHANGED <<call, attempts, breached, mutex, caller, billed, unusable, told, orphaned, crashes, runs>>
      /\ version' = version + 1 /\ version < MaxVersion
  BY DEF Advance
<1>2. version' \in 1..MaxVersion
  BY <1>1, ModelAssumption DEF ModelInv, TypeOK
<1>3. TypeOK'
  BY <1>1, <1>2 DEF ModelInv, TypeOK
<1>4. CallersInv' /\ ToldInv'
  BY <1>1 DEF ModelInv, CallersInv, Apart, CallerOK, ToldInv
<1> QED
  BY <1>1, <1>3, <1>4, RowsKept DEF ModelInv

(* recover_model_calls on one attempt.                                      *)
LEMMA RecoveredRow ==
    ASSUME NEW a \in AttemptRecords
    PROVE  /\ Recovered(a) \in AttemptRecords /\ Recovered(a).status \notin Live
           /\ Recovered(a).status = None <=> a.status = None
           /\ a.status \notin Live => Recovered(a) = a
           /\ a.status = "prepared" => Recovered(a).status = "failed"
                                       /\ Recovered(a).validation = "cancelled_before_dispatch"
           /\ a.status = "dispatched" => /\ Recovered(a).status = "unknown_outcome"
                                         /\ Recovered(a).validation = a.validation
                                         /\ a.cost = "held" => Recovered(a).cost = "unknown"
<1>1. CASE a.status = "prepared"
  <2>1. Recovered(a) = [a EXCEPT !.status = "failed", !.validation = "cancelled_before_dispatch",
                           !.cost = IF a.cost = "held" THEN "released" ELSE a.cost]
    BY <1>1 DEF Recovered
  <2> QED
    BY <1>1, <2>1 DEF AttemptRecords, CallStatuses, Validations, Live, None
<1>2. CASE a.status = "dispatched"
  <2>1. Recovered(a) = [a EXCEPT !.status = "unknown_outcome",
                           !.cost = IF a.cost = "held" THEN "unknown" ELSE a.cost]
    BY <1>2 DEF Recovered
  <2> QED
    BY <1>2, <2>1 DEF AttemptRecords, CallStatuses, Live, None
<1>3. CASE a.status \notin Live
  BY <1>3 DEF Recovered, Live
<1> QED
  BY <1>1, <1>2, <1>3 DEF Live

(* A crash takes the callers; the tables stay as they are.                  *)
LEMMA CrashStep == ASSUME ModelInv, Crash PROVE ModelInv'
<1>1. /\ caller' = [c \in Callers |-> Idle] /\ mutex' = None
      /\ crashes' = crashes + 1 /\ crashes < MaxCrashes
      /\ orphaned' = orphaned \cup OpenAttempts
      /\ UNCHANGED <<version, call, attempts, breached, billed, unusable, told, runs>>
  BY DEF Crash
<1>2. caller' \in [Callers -> CallerStates]
  <2>1. Idle \in CallerStates
    BY ModelAssumption DEF Idle, CallerStates
  <2> QED
    BY <1>1, <2>1
<1>3. crashes' \in 0..MaxCrashes /\ orphaned' \subseteq Keys \X Numbers
  BY <1>1, ModelAssumption DEF ModelInv, TypeOK, OpenAttempts
<1>4. TypeOK'
  BY <1>1, <1>2, <1>3 DEF ModelInv, TypeOK
<1>5. CallersInv'
  <2>1. \A c \in Callers : caller'[c].pc = "idle"
    BY <1>1 DEF Idle
  <2> QED
    BY <2>1 DEF CallersInv, Apart, CallerOK, Sending
<1>6. ToldInv'
  BY <1>1 DEF ModelInv, ToldInv
<1> QED
  BY <1>1, <1>4, <1>5, <1>6, RowsKept DEF ModelInv

LEMMA RecoverModelCallsStep == ASSUME ModelInv, RecoverModelCalls PROVE ModelInv'
<1>1. /\ attempts' = [k \in Keys |-> [n \in Numbers |-> Recovered(attempts[k][n])]]
      /\ call' = [k \in Keys |-> [call[k] EXCEPT !.status = RecoveredCall(k)]]
      /\ orphaned' = {} /\ \A c \in Callers : caller[c].pc = "idle"
      /\ UNCHANGED <<version, breached, mutex, caller, billed, unusable, told, crashes, runs>>
  BY DEF RecoverModelCalls
<1>2. ASSUME NEW k \in Keys, NEW n \in Numbers
      PROVE  attempts[k][n] \in AttemptRecords /\ attempts'[k][n] = Recovered(attempts[k][n])
  BY <1>1, AttemptType DEF ModelInv
<1>3. ASSUME NEW k \in Keys
      PROVE  KeyInv(k)' /\ call'[k] \in CallRecords /\ call'[k].winner = call[k].winner
  <2>1. KeyInv(k) /\ call[k] \in CallRecords
    BY AttemptType, NumbersNat DEF ModelInv
  <2>2. RecoveredCall(k) \in CallStatuses
    BY <2>1 DEF RecoveredCall, CallRecords, CallStatuses
  <2>3. call'[k] = [call[k] EXCEPT !.status = RecoveredCall(k)]
    BY <1>1
  <2>4. /\ call'[k] \in CallRecords /\ call'[k].winner = call[k].winner
        /\ call'[k].status = RecoveredCall(k)
    BY <2>1, <2>2, <2>3 DEF CallRecords
  <2>5. \A n \in Numbers : attempts'[k][n].status \notin Live
    BY <1>2, RecoveredRow
  <2>6. \A n \in Numbers : attempts'[k][n].status # None <=> attempts[k][n].status # None
    BY <1>2, RecoveredRow
  <2>7. NoGap(k)'
    BY <2>1, <2>6 DEF KeyInv, NoGap
  <2>8. OpenIsLast(k)'
    BY <2>5 DEF OpenIsLast
  <2>9. WinnerValid(k)'
    <3>1. ASSUME NEW n \in Numbers
          PROVE attempts'[k][n].validation = "validated_current" <=> n = call[k].winner
      <4>1. attempts[k][n].validation = "validated_current" <=> n = call[k].winner
        BY <2>1 DEF KeyInv, WinnerValid
      <4>2. attempts[k][n].status \in Live => n # call[k].winner
        BY <2>1, NumbersNat DEF KeyInv, OpenIsLast
      <4>3. CASE attempts[k][n].status \notin Live
        BY <1>2, <4>1, <4>3, RecoveredRow
      <4>4. CASE attempts[k][n].status = "prepared"
        <5>1. Recovered(attempts[k][n]).validation = "cancelled_before_dispatch"
          BY <1>2, <4>4, RecoveredRow
        <5> QED
          BY <1>2, <4>2, <4>4, <5>1 DEF Live
      <4>5. CASE attempts[k][n].status = "dispatched"
        <5>1. Recovered(attempts[k][n]).validation = attempts[k][n].validation
          BY <1>2, <4>5, RecoveredRow
        <5> QED
          BY <1>2, <4>1, <5>1
      <4> QED
        BY <4>3, <4>4, <4>5 DEF Live
    <3>2. call[k].winner # 0 => RecoveredCall(k) = call[k].status
      BY DEF RecoveredCall
    <3> QED
      BY <2>1, <2>4, <3>1, <3>2 DEF KeyInv, WinnerValid
  <2>10. Recorded(k)'
    <3>1. attempts'[k][1].status = None <=> attempts[k][1].status = None
      BY <2>6, NumbersNat
    <3>2. CASE call[k].status = None
      <4>1. call[k] = NoCall /\ call[k].winner = 0 /\ attempts[k][1].status = None
        BY <2>1, <3>2 DEF KeyInv, Recorded, NoCall
      <4>2. \A n \in Numbers : attempts[k][n].status = None
        BY <2>1, <4>1, NumbersNat, ModelAssumption DEF KeyInv, NoGap, Numbers
      <4>3. \A n \in Numbers : Recovered(attempts[k][n]) = NoAttempt
        <5> SUFFICES ASSUME NEW n \in Numbers PROVE Recovered(attempts[k][n]) = NoAttempt
          OBVIOUS
        <5>1. attempts[k][n] = NoAttempt
          BY <2>1, <4>2 DEF KeyInv, RowInv
        <5> QED
          BY <1>2, <4>2, <5>1, RecoveredRow DEF Live, None
      <4>4. RecoveredCall(k) = call[k].status
        BY <4>1, <4>3 DEF RecoveredCall, NoAttempt, None
      <4>5. call'[k] = NoCall
        BY <2>3, <3>2, <4>1, <4>4 DEF NoCall
      <4> QED
        BY <3>1, <3>2, <4>1, <4>5 DEF Recorded
    <3>3. CASE call[k].status # None
      <4>1. RecoveredCall(k) # None
        BY <3>3 DEF RecoveredCall, None
      <4>2. attempts[k][1].status # None
        BY <2>1, <3>3 DEF KeyInv, Recorded
      <4>3. call'[k] # NoCall
        BY <2>4, <4>1 DEF NoCall
      <4> QED
        BY <2>4, <3>1, <4>1, <4>2, <4>3 DEF Recorded
    <3> QED
      BY <3>2, <3>3
  <2>11. ASSUME NEW n \in Numbers PROVE RowInv(k, n)'
    <3>1. RowInv(k, n) /\ UNCHANGED <<billed, unusable>>
      BY <1>1, <2>1 DEF KeyInv
    <3>2. CASE attempts[k][n].status \notin Live
      <4>1. attempts'[k][n] = attempts[k][n]
        BY <1>2, <3>2, RecoveredRow
      <4> QED
        BY <3>1, <4>1 DEF RowInv
    <3>3. CASE attempts[k][n].status = "prepared"
      <4>1. billed[k][n] = Nothing /\ attempts'[k][n].status = "failed"
        BY <1>2, <3>1, <3>3, RecoveredRow DEF RowInv
      <4> QED
        BY <3>1, <4>1 DEF RowInv, Live, None
    <3>4. CASE attempts[k][n].status = "dispatched"
      <4>1. attempts[k][n].cost = "held"
        BY <3>1, <3>4 DEF RowInv, Live
      <4>2. attempts'[k][n].status = "unknown_outcome" /\ attempts'[k][n].cost = "unknown"
        BY <1>2, <3>4, <4>1, RecoveredRow
      <4> QED
        BY <4>2 DEF RowInv, Live, None
    <3> QED
      BY <3>2, <3>3, <3>4 DEF Live
  <2> QED
    BY <2>4, <2>7, <2>8, <2>9, <2>10, <2>11 DEF KeyInv
<1>4. attempts' \in [Keys -> [Numbers -> AttemptRecords]]
  <2>1. \A k \in Keys, n \in Numbers : Recovered(attempts[k][n]) \in AttemptRecords
    BY <1>2, RecoveredRow
  <2> QED
    BY <1>1, <2>1
<1>5. call' \in [Keys -> CallRecords]
  <2>1. \A k \in Keys : [call[k] EXCEPT !.status = RecoveredCall(k)] \in CallRecords
    BY <1>1, <1>3
  <2> QED
    BY <1>1, <2>1
<1>8. TypeOK'
  BY <1>1, <1>4, <1>5 DEF ModelInv, TypeOK, CallRecords, AttemptRecords
<1>9. CallersInv'
  <2>1. \A c \in Callers : caller'[c].pc = "idle"
    BY <1>1
  <2> QED
    BY <2>1 DEF CallersInv, Apart, CallerOK, Sending
<1>10. ToldInv'
  BY <1>1, <1>3 DEF ModelInv, ToldInv
<1> QED
  BY <1>3, <1>8, <1>9, <1>10 DEF ModelInv

LEMMA ModelStep == ModelInv /\ [Next]_vars => ModelInv'
<1> SUFFICES ASSUME ModelInv, [Next]_vars PROVE ModelInv'
  OBVIOUS
<1>1. ASSUME NEW c \in Callers, CallerStep(c) PROVE ModelInv'
  BY <1>1, ReplayStep, PrepareModelCallStep, PrepareRejectedStep, MarkDispatchedStep,
     CreatePlanningCandidateStep, RecordSuccessStep, RecordRejectedStep, RecordKnownFailureStep,
     RecordUnknownStep DEF CallerStep
<1>2. CASE \E c \in Callers, k \in Keys, i \in Inputs, q \in Quotes, v \in 1..MaxVersion :
               Submit(c, k, i, q, v)
  BY <1>2, SubmitStep
<1>3. CASE \E c \in Callers, k \in Keys, q \in Quotes : RetryModelCall(c, k, q)
  BY <1>3, RetryModelCallStep
<1>4. CASE Advance
  BY <1>4, AdvanceStep
<1>5. CASE Crash \/ RecoverModelCalls
  BY <1>5, CrashStep, RecoverModelCallsStep
<1>6. CASE UNCHANGED vars
  <2>1. TypeOK' /\ CallersInv' /\ ToldInv'
    BY <1>6 DEF vars, ModelInv, TypeOK, CallersInv, Apart, CallerOK, ToldInv
  <2> QED
    BY <1>6, <2>1, RowsKept DEF ModelInv, vars
<1> QED
  BY <1>1, <1>2, <1>3, <1>4, <1>5, <1>6 DEF Next

----------------------------------------------------------------------------
(* The theorems.                                                           *)

LEMMA ModelInvImplies == ModelInv => OneAnswer /\ BilledIsCounted
<1> SUFFICES ASSUME ModelInv PROVE OneAnswer /\ BilledIsCounted
  OBVIOUS
<1>1. OneAnswer
  <2> SUFFICES ASSUME NEW k \in Keys
               PROVE  /\ {n \in Numbers : attempts[k][n].validation = "validated_current"}
                            = {call[k].winner} \ {0}
                      /\ \A n \in Numbers : <<k, n>> \in told => n = call[k].winner
                      /\ call[k].winner # 0 => call[k].status = "succeeded"
                            /\ {n \in Numbers : attempts[k][n].status \in Live} = {}
                      /\ \A n \in {n \in Numbers : attempts[k][n].status \in Live} :
                            n = Max(Attempts(k)) /\ call[k].status = attempts[k][n].status
    BY DEF OneAnswer
  <2>1. KeyInv(k) /\ call[k].winner \in 0..MaxAttempts
    BY DEF ModelInv, TypeOK
  <2>2. call[k].winner # 0 => call[k].winner \in Numbers
    BY <2>1, ModelAssumption DEF Numbers
  <2>3. {n \in Numbers : attempts[k][n].validation = "validated_current"} = {call[k].winner} \ {0}
    BY <2>1, <2>2, NumbersNat DEF KeyInv, WinnerValid
  <2>4. \A n \in Numbers : <<k, n>> \in told => n = call[k].winner
    BY DEF ModelInv, ToldInv
  <2>5. call[k].winner # 0 => call[k].status = "succeeded"
            /\ {n \in Numbers : attempts[k][n].status \in Live} = {}
    BY <2>1 DEF KeyInv, WinnerValid, OpenIsLast
  <2>6. ASSUME NEW n \in Numbers, attempts[k][n].status \in Live
        PROVE  n = Max(Attempts(k)) /\ call[k].status = attempts[k][n].status
    <3>1. call[k].status = attempts[k][n].status /\ \A j \in Numbers : attempts[k][j].status # None => j <= n
      BY <2>1, <2>6 DEF KeyInv, OpenIsLast
    <3>2. PICK m \in 0..MaxAttempts : \A j \in Numbers : attempts[k][j].status # None <=> j <= m
      BY <2>1 DEF KeyInv, NoGap
    <3>3. n <= m
      BY <2>6, <3>2 DEF Live, None
    <3>4. m \in Numbers
      BY <3>3, ModelAssumption DEF Numbers
    <3>5. m <= n
      BY <3>1, <3>2, <3>4, NumbersNat
    <3>6. Max(Attempts(k)) = m
      BY <3>2, <3>4, NumbersNat, Numbered
    <3> QED
      BY <3>1, <3>3, <3>4, <3>5, <3>6, NumbersNat
  <2> QED
    BY <2>3, <2>4, <2>5, <2>6
<1>2. BilledIsCounted
  <2> SUFFICES ASSUME NEW k \in Keys, NEW n \in Numbers, billed[k][n] # Nothing, <<k, n>> \notin unusable
               PROVE  /\ attempts[k][n].status \in {"dispatched", "unknown_outcome"}
                            \/ attempts[k][n].settled > 0
                      /\ attempts[k][n].cost \in {"held", "unknown", "settled"}
    BY DEF BilledIsCounted
  <2>1. RowInv(k, n) /\ attempts[k][n].status \in CallStatuses
    BY DEF ModelInv, KeyInv, TypeOK
  <2>2. attempts[k][n].status \notin {None, "prepared"}
    BY <2>1 DEF RowInv
  <2>3. CASE attempts[k][n].status \in {"failed", "succeeded"}
    BY <2>1, <2>3 DEF RowInv
  <2>4. CASE attempts[k][n].status = "dispatched"
    BY <2>1, <2>4 DEF RowInv, Live
  <2>5. CASE attempts[k][n].status = "unknown_outcome"
    BY <2>1, <2>5 DEF RowInv
  <2> QED
    BY <2>1, <2>2, <2>3, <2>4, <2>5 DEF CallStatuses
<1> QED
  BY <1>1, <1>2

(* The Quest stands where the call found it when an answer is accepted.     *)
LEMMA AcceptedCurrent ==
    ASSUME ModelInv, [Next]_vars, NEW k \in Keys, call'[k].winner # call[k].winner
    PROVE  call[k].winner = 0 /\ call[k].version = version
<1>1. ASSUME NEW l \in Keys, NEW r \in CallRecords, r.winner = call[l].winner,
             call' = [call EXCEPT ![l] = r]
      PROVE  FALSE
  <2>1. CallSet(l, r)
    BY <1>1, Types DEF ModelInv, CallSet
  <2> QED
    BY <1>1, <2>1 DEF CallSet
<1>2. ASSUME NEW c \in Callers, PrepareModelCall(c) PROVE FALSE
  <2>1. caller[c].key \in Keys /\ caller[c] \in CallerStates
    BY <1>2, Types DEF ModelInv, CallersInv, CallerOK, PrepareModelCall
  <2>2. PICK r : r = [status |-> "prepared", winner |-> 0, version |-> version, input |-> caller[c].input]
    OBVIOUS
  <2>3. r \in CallRecords /\ r.winner = call[caller[c].key].winner
    <3>1. caller[c].input \in Inputs \cup {None} /\ version \in 0..MaxVersion /\ 0 \in 0..MaxAttempts
      BY <2>1, ModelAssumption DEF CallerStates, ModelInv, TypeOK
    <3> QED
      BY <1>2, <2>2, <3>1 DEF CallRecords, CallStatuses, PrepareModelCall, NoCall
  <2> QED
    BY <1>1, <1>2, <2>1, <2>2, <2>3 DEF PrepareModelCall
<1>3. ASSUME NEW c \in Callers, NEW l \in Keys, NEW q \in Quotes, RetryModelCall(c, l, q) PROVE FALSE
  <2>1. PICK r : r = [call[l] EXCEPT !.status = "prepared"]
    OBVIOUS
  <2>2. r \in CallRecords /\ r.winner = call[l].winner
    BY <2>1, AttemptType, NumbersNat DEF ModelInv, CallRecords, CallStatuses
  <2> QED
    BY <1>1, <1>3, <2>1, <2>2 DEF RetryModelCall
<1>4. ASSUME NEW c \in Callers, MarkDispatched(c) PROVE FALSE
  <2>1. caller[c].key \in Keys
    BY <1>4, SenderWorks DEF MarkDispatched, Sending
  <2>2. PICK r : r = [call[caller[c].key] EXCEPT !.status = "dispatched"]
    OBVIOUS
  <2>3. r \in CallRecords /\ r.winner = call[caller[c].key].winner
    BY <2>1, <2>2, AttemptType, NumbersNat DEF ModelInv, CallRecords, CallStatuses
  <2> QED
    BY <1>1, <1>4, <2>1, <2>2, <2>3 DEF MarkDispatched
<1>5. ASSUME NEW l \in Keys, NEW n \in Numbers, NEW status \in {"failed", "succeeded"},
             NEW validation, NEW u, Settle(l, n, status, validation, u),
             validation = "validated_current" => call[l].version = version
      PROVE  call[k].winner = 0 /\ call[k].version = version
  <2>1. CASE validation = "validated_current" /\ call[l].winner = 0
    <3>1. call' = [call EXCEPT ![l].status = status, ![l].winner = n]
      BY <1>5, <2>1 DEF Settle
    <3>2. \A j \in Keys \ {l} : call'[j] = call[j]
      BY <3>1, Types DEF ModelInv
    <3> QED
      BY <1>5, <2>1, <3>2
  <2>2. CASE ~(validation = "validated_current" /\ call[l].winner = 0)
    <3>1. call' = call \/ call' = [call EXCEPT ![l].status = status]
      BY <1>5, <2>2 DEF Settle
    <3>2. PICK r : r = [call[l] EXCEPT !.status = status]
      OBVIOUS
    <3>3. r \in CallRecords /\ r.winner = call[l].winner
      BY <3>2, AttemptType, NumbersNat DEF ModelInv, CallRecords, CallStatuses
    <3>4. CASE call' = [call EXCEPT ![l].status = status]
      BY <1>1, <3>2, <3>3, <3>4
    <3> QED
      BY <3>1, <3>4
  <2> QED
    BY <2>1, <2>2
<1>6. ASSUME NEW c \in Callers, caller[c].pc = "settle",
             \/ call' = call
             \/ \E u : Settle(caller[c].key, caller[c].number, "succeeded", Validation(caller[c].key), u)
             \/ \E u : Settle(caller[c].key, caller[c].number, "failed", "invalid", u)
             \/ MarkUnknown(caller[c].key, caller[c].number)
      PROVE  call[k].winner = 0 /\ call[k].version = version
  <2>1. caller[c].key \in Keys /\ caller[c].number \in Numbers
    BY <1>6, SettlerAt
  <2>2. CASE \E u : Settle(caller[c].key, caller[c].number, "succeeded", Validation(caller[c].key), u)
    <3>1. Validation(caller[c].key) = "validated_current" => call[caller[c].key].version = version
      BY DEF Validation
    <3> QED
      BY <1>5, <2>1, <2>2, <3>1
  <2>3. CASE \E u : Settle(caller[c].key, caller[c].number, "failed", "invalid", u)
    BY <1>5, <2>1, <2>3
  <2>4. CASE MarkUnknown(caller[c].key, caller[c].number)
    <3>1. PICK r : r = [call[caller[c].key] EXCEPT !.status = "unknown_outcome"]
      OBVIOUS
    <3>2. r \in CallRecords /\ r.winner = call[caller[c].key].winner
      BY <2>1, <3>1, AttemptType, NumbersNat DEF ModelInv, CallRecords, CallStatuses
    <3> QED
      BY <1>1, <2>1, <2>4, <3>1, <3>2 DEF MarkUnknown
  <2> QED
    BY <1>6, <2>2, <2>3, <2>4
<1>7. ASSUME NEW c \in Callers, CallerStep(c) PROVE call[k].winner = 0 /\ call[k].version = version
  <2>1. CASE \E u \in Usages : RecordSuccess(c, u)
    BY <1>6, <2>1 DEF RecordSuccess
  <2>2. CASE \E readable \in BOOLEAN : RecordRejected(c, readable)
    BY <1>6, <2>2 DEF RecordRejected
  <2>3. CASE RecordKnownFailure(c)
    BY <1>6, <2>3 DEF RecordKnownFailure
  <2>4. CASE RecordUnknown(c)
    BY <1>6, <2>4 DEF RecordUnknown
  <2>5. CASE Replay(c) \/ PrepareRejected(c) \/ \E u \in Usages \cup {Nothing} : CreatePlanningCandidate(c, u)
    BY <2>5 DEF Replay, PrepareRejected, CreatePlanningCandidate
  <2> QED
    BY <1>2, <1>4, <1>7, <2>1, <2>2, <2>3, <2>4, <2>5 DEF CallerStep
<1>8. CASE RecoverModelCalls
  <2>1. call'[k] = [call[k] EXCEPT !.status = RecoveredCall(k)] /\ call[k] \in CallRecords
    BY <1>8, AttemptType, NumbersNat DEF RecoverModelCalls, ModelInv
  <2> QED
    BY <2>1 DEF CallRecords
<1>9. CASE Advance \/ Crash \/ UNCHANGED vars \/ \E c \in Callers, l \in Keys, i \in Inputs, q \in Quotes, v \in 1..MaxVersion :
          Submit(c, l, i, q, v)
  BY <1>9 DEF Advance, Crash, vars, Submit
<1> QED
  BY <1>3, <1>7, <1>8, <1>9 DEF Next

LEMMA ModelInvHolds == Spec => []ModelInv
BY ModelInit, ModelStep, PTL DEF Spec

(* Rows, callers and counters are of their kinds (v1_model_calls and the    *)
(* tables that hang on it).                                                 *)
THEOREM ModelTypes == Spec => []TypeOK
<1>1. ModelInv => TypeOK
  BY DEF ModelInv
<1> QED
  BY <1>1, ModelInvHolds, PTL

(* However often a call is retried and wherever the process dies, one       *)
(* answer is accepted at most, and it is the one everybody is given         *)
(* (retry_model_call, validate_current, _result_from_record).               *)
THEOREM CallHasOneAnswer == Spec => []OneAnswer
<1>1. ModelInv => OneAnswer
  BY ModelInvImplies
<1> QED
  BY <1>1, ModelInvHolds, PTL

(* What the provider executed and billed stays reserved or is settled,      *)
(* unless its answer arrived and the adapter raised a KnownModelFailure     *)
(* over it (_settle_model_attempt, mark_model_attempt_unknown,              *)
(* recover_model_calls).                                                    *)
THEOREM BilledStaysCounted == Spec => []BilledIsCounted
<1>1. ModelInv => BilledIsCounted
  BY ModelInvImplies
<1> QED
  BY <1>1, ModelInvHolds, PTL

(* A stale answer is never accepted (validate_current).                     *)
THEOREM AcceptedWhenCurrent == Spec => CurrentWhenAccepted
<1>1. ModelInv /\ [Next]_vars =>
        [\A k \in Keys : call'[k].winner # call[k].winner =>
            call[k].winner = 0 /\ call[k].version = version]_vars
  BY AcceptedCurrent
<1> QED
  BY <1>1, ModelInvHolds, PTL DEF Spec, CurrentWhenAccepted

----------------------------------------------------------------------------
(* Who works on the open attempts.                                          *)

(* An open attempt has its caller or was left by a crash, never both, and   *)
(* what a crash has left is still open.                                     *)
AttendInv ==
    /\ \A k \in Keys, n \in Numbers : OpenIsAttended(k, n)
    /\ \A k \in Keys, n \in Numbers : <<k, n>> \in orphaned =>
          attempts[k][n].status \in Live /\ ~Attended(k, n)

OrphansKept ==
    \A k \in Keys, n \in Numbers :
        <<k, n>> \in orphaned /\ <<k, n>> \in orphaned' =>
            attempts'[k] = attempts[k] /\ call'[k] = call[k]

(* A call a crash has left an attempt of open is open, and nobody is at it. *)
LEMMA OrphanIsLeft ==
    ASSUME ModelInv, AttendInv, NEW k \in Keys, NEW j \in Numbers, <<k, j>> \in orphaned
    PROVE  /\ call[k].status \in Live /\ call[k] # NoCall
           /\ \A c \in Callers : caller[c].pc \in Sending => caller[c].key # k
<1>1. KeyInv(k) /\ attempts[k][j].status \in Live /\ ~Attended(k, j)
  BY DEF ModelInv, AttendInv
<1>2. call[k].status \in Live /\ \A i \in Numbers : attempts[k][i].status # None => i <= j
  BY <1>1 DEF KeyInv, OpenIsLast
<1>3. ASSUME NEW c \in Callers, caller[c].pc \in Sending, caller[c].key = k PROVE FALSE
  <2>1. PICK i \in Numbers : i = caller[c].number
    BY <1>3, SenderWorks
  <2>2. attempts[k][i].status \in Live
    BY <1>3, <2>1, SenderWorks DEF Live
  <2>3. i <= j /\ j <= i
    BY <1>1, <1>2, <2>2 DEF KeyInv, OpenIsLast, Live, None
  <2>4. i = j
    BY <2>3, NumbersNat
  <2> QED
    BY <1>1, <1>3, <2>1, <2>4 DEF Attended, Sending
<1> QED
  BY <1>2, <1>3 DEF NoCall, Live, None

(* A step of one caller on one attempt of a call nothing was left of.       *)
Turn(c, k, n) ==
    /\ \A d \in Callers \ {c} : caller'[d] = caller[d]
    /\ \A l \in Keys, j \in Numbers : l # k \/ j # n => attempts'[l][j] = attempts[l][j]
    /\ \A l \in Keys \ {k} : attempts'[l] = attempts[l] /\ call'[l] = call[l]
    /\ orphaned' = orphaned /\ \A j \in Numbers : <<k, j>> \notin orphaned
    /\ caller[c].pc \in Sending => caller[c].key = k /\ caller[c].number = n
    /\ caller'[c].pc \in Sending => caller'[c].key = k /\ caller'[c].number = n
    /\ attempts'[k][n].status \in Live => caller'[c].pc \in Sending

LEMMA TurnAttends ==
    ASSUME AttendInv, NEW c \in Callers, NEW k \in Keys, NEW n \in Numbers, Turn(c, k, n)
    PROVE  AttendInv' /\ OrphansKept
<1>1. (\A l \in Keys, j \in Numbers : OpenIsAttended(l, j))'
  <2> SUFFICES ASSUME NEW l \in Keys, NEW j \in Numbers, attempts'[l][j].status \in Live,
                      <<l, j>> \notin orphaned'
               PROVE  Attended(l, j)'
    BY DEF OpenIsAttended
  <2>1. CASE l = k /\ j = n
    BY <2>1 DEF Turn, Attended, Sending
  <2>2. CASE l # k \/ j # n
    <3>1. attempts[l][j].status \in Live /\ <<l, j>> \notin orphaned
      BY <2>2 DEF Turn
    <3>2. PICK d \in Callers : caller[d].pc \in Sending /\ caller[d].key = l /\ caller[d].number = j
      BY <3>1 DEF AttendInv, OpenIsAttended, Attended, Sending
    <3>3. caller'[d] = caller[d]
      BY <2>2, <3>2 DEF Turn
    <3> QED
      BY <3>2, <3>3 DEF Attended, Sending
  <2> QED
    BY <2>1, <2>2
<1>2. ASSUME NEW l \in Keys, NEW j \in Numbers, <<l, j>> \in orphaned'
      PROVE  /\ attempts'[l][j].status \in Live /\ ~Attended(l, j)'
             /\ attempts'[l] = attempts[l] /\ call'[l] = call[l]
  <2>1. l # k /\ <<l, j>> \in orphaned
    BY <1>2 DEF Turn
  <2>2. attempts'[l] = attempts[l] /\ call'[l] = call[l]
    BY <2>1 DEF Turn
  <2>3. attempts[l][j].status \in Live /\ ~Attended(l, j)
    BY <2>1 DEF AttendInv
  <2>4. ~Attended(l, j)'
    BY <2>1, <2>3 DEF Turn, Attended, Sending
  <2> QED
    BY <2>2, <2>3, <2>4
<1> QED
  BY <1>1, <1>2 DEF AttendInv, OrphansKept

(* A step of a caller that works on no attempt, before or after.            *)
LEMMA IdleAttends ==
    ASSUME AttendInv, NEW c \in Callers, UNCHANGED <<call, attempts, orphaned>>,
           \A d \in Callers \ {c} : caller'[d] = caller[d],
           caller[c].pc \notin Sending, caller'[c].pc \notin Sending
    PROVE  AttendInv' /\ OrphansKept
<1>1. \A k \in Keys, n \in Numbers : Attended(k, n)' <=> Attended(k, n)
  BY DEF Attended, Sending
<1> QED
  BY <1>1 DEF AttendInv, OpenIsAttended, OrphansKept

(* prepare_model_call and retry_model_call open an attempt of a call that   *)
(* has none open.                                                           *)
LEMMA OpeningAttends ==
    ASSUME ModelInv, AttendInv, NEW c \in Callers,
           PrepareModelCall(c) \/ \E k \in Keys, q \in Quotes : RetryModelCall(c, k, q)
    PROVE  AttendInv' /\ OrphansKept
<1>1. ASSUME NEW k \in Keys, NEW n \in Numbers, NEW a, NEW r, NEW s,
             attempts' = [attempts EXCEPT ![k][n] = a], call' = [call EXCEPT ![k] = r],
             caller' = [caller EXCEPT ![c] = s], s.key = k, s.number = n, s.pc = "dispatch",
             orphaned' = orphaned, call[k].status \notin Live, caller[c].pc \notin Sending
      PROVE  AttendInv' /\ OrphansKept
  <2>1. \A j \in Numbers : <<k, j>> \notin orphaned
    BY <1>1, OrphanIsLeft
  <2>2. caller'[c] = s /\ \A d \in Callers \ {c} : caller'[d] = caller[d]
    BY <1>1, Types DEF ModelInv
  <2>3. \A l \in Keys, j \in Numbers : l # k \/ j # n => attempts'[l][j] = attempts[l][j]
    BY <1>1, Types DEF ModelInv
  <2>4. \A l \in Keys \ {k} : attempts'[l] = attempts[l] /\ call'[l] = call[l]
    BY <1>1, Types DEF ModelInv
  <2>5. Turn(c, k, n)
    BY <1>1, <2>1, <2>2, <2>3, <2>4 DEF Turn, Sending
  <2> QED
    BY <2>5, TurnAttends
<1>2. CASE PrepareModelCall(c)
  <2>1. caller[c].key \in Keys /\ caller[c] \in CallerStates /\ caller[c].pc \notin Sending
    BY <1>2, Types DEF PrepareModelCall, ModelInv, CallersInv, CallerOK, Sending
  <2>2. PICK s : s = [caller[c] EXCEPT !.pc = "dispatch", !.number = 1]
    OBVIOUS
  <2>3. s.key = caller[c].key /\ s.number = 1 /\ s.pc = "dispatch"
    BY <2>1, <2>2 DEF CallerStates
  <2>4. call[caller[c].key].status \notin Live
    BY <1>2 DEF PrepareModelCall, NoCall, Live, None
  <2>5. PICK k \in Keys, n \in Numbers : k = caller[c].key /\ n = 1
    BY <2>1, NumbersNat
  <2>6. PICK r : r = [status |-> "prepared", winner |-> 0, version |-> version, input |-> caller[c].input]
    OBVIOUS
  <2>7. PICK a : a = Prepared(caller[c].quote)
    OBVIOUS
  <2>8. /\ attempts' = [attempts EXCEPT ![k][n] = a] /\ call' = [call EXCEPT ![k] = r]
        /\ caller' = [caller EXCEPT ![c] = s] /\ orphaned' = orphaned
    BY <1>2, <2>2, <2>5, <2>6, <2>7 DEF PrepareModelCall
  <2> QED
    BY <1>1, <2>1, <2>3, <2>4, <2>5, <2>8
<1>3. ASSUME NEW k \in Keys, NEW q \in Quotes, RetryModelCall(c, k, q)
      PROVE  AttendInv' /\ OrphansKept
  <2>1. KeyInv(k) /\ Retriable(k) /\ caller[c].pc \notin Sending
    BY <1>3 DEF ModelInv, RetryModelCall, Sending
  <2>2. PICK m \in 0..MaxAttempts : \A j \in Numbers : attempts[k][j].status # None <=> j <= m
    BY <2>1 DEF KeyInv, NoGap
  <2>3. m # 0
    <3>1. attempts[k][1].status # None
      BY <2>1 DEF KeyInv, Recorded, Retriable, None
    <3> QED
      BY <2>2, <3>1, NumbersNat, ModelAssumption DEF Numbers
  <2>4. Cardinality(Attempts(k)) = m /\ Max(Attempts(k)) = m
    BY <2>2, <2>3, Numbered
  <2>5. PICK n \in Numbers : n = m + 1
    <3>1. m < MaxAttempts
      BY <1>3, <2>4 DEF RetryModelCall
    <3>2. m + 1 \in Numbers
      BY <3>1, ModelAssumption DEF Numbers
    <3> QED
      BY <3>2
  <2>6. PICK s : s = [Idle EXCEPT !.pc = "dispatch", !.key = k, !.quote = q, !.number = n]
    OBVIOUS
  <2>7. s.key = k /\ s.number = n /\ s.pc = "dispatch"
    BY <2>6 DEF Idle
  <2>8. call[k].status \notin Live
    BY <2>1 DEF Retriable, Live
  <2>9. PICK r : r = [call[k] EXCEPT !.status = "prepared"]
    OBVIOUS
  <2>10. /\ attempts' = [attempts EXCEPT ![k][n] = Prepared(q)] /\ call' = [call EXCEPT ![k] = r]
         /\ caller' = [caller EXCEPT ![c] = s] /\ orphaned' = orphaned
    BY <1>3, <2>4, <2>5, <2>6, <2>9 DEF RetryModelCall
  <2> QED
    BY <1>1, <2>1, <2>7, <2>8, <2>10
<1> QED
  BY <1>2, <1>3

(* The caller at an attempt moves it on, or settles it and leaves.          *)
LEMMA WorkingAttends ==
    ASSUME ModelInv, AttendInv, NEW c \in Callers,
           \/ MarkDispatched(c)
           \/ \E u \in Usages \cup {Nothing} : CreatePlanningCandidate(c, u)
           \/ \E u \in Usages : RecordSuccess(c, u)
           \/ \E readable \in BOOLEAN : RecordRejected(c, readable)
           \/ RecordKnownFailure(c)
           \/ RecordUnknown(c)
    PROVE  AttendInv' /\ OrphansKept
<1>1. caller[c].pc \in Sending /\ orphaned' = orphaned
  BY DEF MarkDispatched, CreatePlanningCandidate, RecordSuccess, RecordRejected, RecordKnownFailure,
         RecordUnknown, Sending
<1>2. PICK k \in Keys, n \in Numbers : k = caller[c].key /\ n = caller[c].number
  BY <1>1, SenderWorks
<1>3. \A j \in Numbers : <<k, j>> \notin orphaned
  BY <1>1, <1>2, OrphanIsLeft
<1>4. ASSUME NEW a, NEW r, NEW s, attempts' = [attempts EXCEPT ![k][n] = a], a.status \notin Live \/ s.pc \in Sending,
             call' = [call EXCEPT ![k] = r], caller' = [caller EXCEPT ![c] = s],
             s.pc \in Sending => s.key = k /\ s.number = n
      PROVE  AttendInv' /\ OrphansKept
  <2>1. caller'[c] = s /\ \A d \in Callers \ {c} : caller'[d] = caller[d]
    BY <1>4, Types DEF ModelInv
  <2>2. /\ attempts'[k][n] = a
        /\ \A l \in Keys, j \in Numbers : l # k \/ j # n => attempts'[l][j] = attempts[l][j]
    BY <1>4, Types DEF ModelInv
  <2>3. \A l \in Keys \ {k} : attempts'[l] = attempts[l] /\ call'[l] = call[l]
    BY <1>4, Types DEF ModelInv
  <2>4. Turn(c, k, n)
    BY <1>1, <1>2, <1>3, <1>4, <2>1, <2>2, <2>3 DEF Turn
  <2> QED
    BY <2>4, TurnAttends
<1>5. CASE MarkDispatched(c)
  <2>1. PICK s : s = [caller[c] EXCEPT !.pc = "send"]
    OBVIOUS
  <2>2. caller[c] \in CallerStates
    BY Types DEF ModelInv
  <2>3. s.pc \in Sending /\ s.key = k /\ s.number = n
    BY <1>2, <2>1, <2>2 DEF CallerStates, Sending
  <2>4. PICK a, r : /\ a = [attempts[k][n] EXCEPT !.status = "dispatched"]
                    /\ r = [call[k] EXCEPT !.status = "dispatched"]
    OBVIOUS
  <2> QED
    BY <1>2, <1>4, <1>5, <2>1, <2>3, <2>4 DEF MarkDispatched
<1>6. CASE \E u \in Usages \cup {Nothing} : CreatePlanningCandidate(c, u)
  <2>1. /\ caller' = [caller EXCEPT ![c].pc = "settle"] /\ UNCHANGED <<call, attempts>>
    BY <1>6 DEF CreatePlanningCandidate
  <2>2. caller[c] \in CallerStates
    BY Types DEF ModelInv
  <2>3. caller'[c].pc \in Sending /\ caller'[c].key = k /\ caller'[c].number = n
    BY <1>2, <2>1, <2>2, Types DEF CallerStates, Sending, ModelInv
  <2>4. \A d \in Callers \ {c} : caller'[d] = caller[d]
    BY <2>1, Types DEF ModelInv
  <2>5. Turn(c, k, n)
    BY <1>1, <1>2, <1>3, <2>1, <2>3, <2>4 DEF Turn
  <2> QED
    BY <2>5, TurnAttends
<1>7. ASSUME caller[c].pc = "settle", Leave(c),
             \/ \E status \in {"failed", "succeeded"}, validation \in Validations : \E u : Settle(k, n, status, validation, u)
             \/ MarkUnknown(k, n)
      PROVE  AttendInv' /\ OrphansKept
  <2>1. attempts[k][n] \in AttemptRecords /\ call[k] \in CallRecords
    BY AttemptType DEF ModelInv
  <2>2. PICK s : s = Idle
    OBVIOUS
  <2>3. s.pc \notin Sending /\ caller' = [caller EXCEPT ![c] = s]
    BY <1>7, <2>2 DEF Leave, Idle, Sending
  <2>4. PICK a : attempts' = [attempts EXCEPT ![k][n] = a] /\ a.status \notin Live
    <3>1. CASE MarkUnknown(k, n)
      <4>1. PICK a : a = [attempts[k][n] EXCEPT !.status = "unknown_outcome",
                             !.cost = IF attempts[k][n].cost = "held" THEN "unknown" ELSE attempts[k][n].cost]
        OBVIOUS
      <4>2. a.status = "unknown_outcome"
        BY <2>1, <4>1 DEF AttemptRecords
      <4> QED
        BY <3>1, <4>1, <4>2 DEF MarkUnknown, Live
    <3>2. CASE \E status \in {"failed", "succeeded"}, validation \in Validations :
                    \E u : Settle(k, n, status, validation, u)
      <4>0. PICK status \in {"failed", "succeeded"}, validation \in Validations :
                    \E u : Settle(k, n, status, validation, u)
        BY <3>2
      <4>1. PICK u : Settle(k, n, status, validation, u)
        BY <4>0
      <4>2. PICK money : money = IF attempts[k][n].cost \in {"held", "unknown"} THEN ActualCost(u)
                                 ELSE attempts[k][n].money
        OBVIOUS
      <4>3. PICK a : a = [attempts[k][n] EXCEPT !.status = status, !.validation = validation,
                             !.settled = Tokens(u), !.cost = "settled", !.money = money]
        OBVIOUS
      <4>4. a.status = status
        BY <2>1, <4>3 DEF AttemptRecords
      <4>5. attempts' = [attempts EXCEPT ![k][n] = a]
        BY <4>1, <4>2, <4>3 DEF Settle
      <4> QED
        BY <4>4, <4>5 DEF Live
    <3> QED
      BY <1>7, <3>1, <3>2
  <2>5. \E r : call' = [call EXCEPT ![k] = r]
    <3>1. CASE MarkUnknown(k, n)
      BY <3>1 DEF MarkUnknown
    <3>2. CASE \E status \in {"failed", "succeeded"}, validation \in Validations :
                    \E u : Settle(k, n, status, validation, u)
      <4>0. PICK status \in {"failed", "succeeded"}, validation \in Validations :
                    \E u : Settle(k, n, status, validation, u)
        BY <3>2
      <4>1. PICK u : Settle(k, n, status, validation, u)
        BY <4>0
      <4>2. \/ call' = [call EXCEPT ![k] = [call[k] EXCEPT !.status = status, !.winner = n]]
            \/ call' = [call EXCEPT ![k] = call[k]]
            \/ call' = [call EXCEPT ![k] = [call[k] EXCEPT !.status = status]]
        <5>1. call = [call EXCEPT ![k] = call[k]]
          BY Types DEF ModelInv
        <5>2. [call EXCEPT ![k].status = status, ![k].winner = n]
                = [call EXCEPT ![k] = [call[k] EXCEPT !.status = status, !.winner = n]]
          BY <2>1, Types DEF ModelInv
        <5> QED
          BY <4>1, <5>1, <5>2 DEF Settle
      <4> QED
        BY <4>2
    <3> QED
      BY <1>7, <3>1, <3>2
  <2> QED
    BY <1>4, <2>3, <2>4, <2>5
<1>8. ASSUME caller[c].pc = "settle" PROVE attempts[k][n].status = "dispatched"
  BY <1>2, <1>8, SettlerAt
<1>9. CASE \E u \in Usages : RecordSuccess(c, u)
  <2>1. PICK u \in Usages : RecordSuccess(c, u)
    BY <1>9
  <2>2. Settle(k, n, "succeeded", Validation(k), u) /\ Leave(c) /\ caller[c].pc = "settle"
    BY <1>2, <1>8, <2>1 DEF RecordSuccess, SettlementRefused, SettlesFrom
  <2>3. Validation(k) \in Validations
    BY DEF Validation, Validations
  <2> QED
    BY <1>7, <2>2, <2>3
<1>10. CASE \E readable \in BOOLEAN : RecordRejected(c, readable)
  <2>1. \E u : Settle(k, n, "failed", "invalid", u)
    BY <1>2, <1>8, <1>10 DEF RecordRejected, SettlementRefused, SettlesFrom, Live
  <2>2. Leave(c) /\ caller[c].pc = "settle" /\ "invalid" \in Validations
    BY <1>10 DEF RecordRejected, Validations
  <2> QED
    BY <1>7, <2>1, <2>2
<1>11. CASE RecordKnownFailure(c)
  <2>1. Settle(k, n, "failed", "invalid", Nothing)
    BY <1>2, <1>8, <1>11 DEF RecordKnownFailure, SettlementRefused, SettlesFrom, Live
  <2>2. Leave(c) /\ caller[c].pc = "settle" /\ "invalid" \in Validations
    BY <1>11 DEF RecordKnownFailure, Validations
  <2> QED
    BY <1>7, <2>1, <2>2
<1>12. CASE RecordUnknown(c)
  BY <1>2, <1>7, <1>8, <1>12 DEF RecordUnknown
<1> QED
  BY <1>5, <1>6, <1>9, <1>10, <1>11, <1>12

LEMMA AttendInit == Init => AttendInv
<1> SUFFICES ASSUME Init PROVE AttendInv
  OBVIOUS
<1>1. \A k \in Keys, n \in Numbers : attempts[k][n].status \notin Live
  BY DEF Init, NoAttempt, None, Live
<1> QED
  BY <1>1 DEF Init, AttendInv, OpenIsAttended

LEMMA AttendStep == ModelInv /\ AttendInv /\ [Next]_vars => AttendInv' /\ OrphansKept
<1> SUFFICES ASSUME ModelInv, AttendInv, [Next]_vars PROVE AttendInv' /\ OrphansKept
  OBVIOUS
<1>1. ASSUME NEW c \in Callers,
             PrepareModelCall(c) \/ \E k \in Keys, q \in Quotes : RetryModelCall(c, k, q)
      PROVE  AttendInv' /\ OrphansKept
  BY <1>1, OpeningAttends
<1>2. ASSUME NEW c \in Callers,
             \/ MarkDispatched(c)
             \/ \E u \in Usages \cup {Nothing} : CreatePlanningCandidate(c, u)
             \/ \E u \in Usages : RecordSuccess(c, u)
             \/ \E readable \in BOOLEAN : RecordRejected(c, readable)
             \/ RecordKnownFailure(c)
             \/ RecordUnknown(c)
      PROVE  AttendInv' /\ OrphansKept
  BY <1>2, WorkingAttends
<1>3. ASSUME NEW c \in Callers, Replay(c) \/ PrepareRejected(c) PROVE AttendInv' /\ OrphansKept
  <2>1. /\ caller[c].pc = "look" /\ Leave(c) /\ UNCHANGED <<call, attempts, orphaned>>
    BY <1>3 DEF Replay, PrepareRejected
  <2>2. caller[c].pc \notin Sending
    BY <2>1 DEF Sending
  <2>3. caller'[c].pc \notin Sending /\ \A d \in Callers \ {c} : caller'[d] = caller[d]
    BY <2>1, LeaveCaller DEF ModelInv
  <2> QED
    BY <2>1, <2>2, <2>3, IdleAttends
<1>4. ASSUME NEW c \in Callers, NEW k \in Keys, NEW i \in Inputs, NEW q \in Quotes,
             NEW v \in 1..MaxVersion, Submit(c, k, i, q, v)
      PROVE  AttendInv' /\ OrphansKept
  <2>1. /\ caller[c].pc = "idle" /\ UNCHANGED <<call, attempts, orphaned>>
        /\ caller' = [caller EXCEPT ![c] = [pc |-> "look", key |-> k, input |-> i, quote |-> q,
                                            version |-> v, number |-> 0]]
    BY <1>4 DEF Submit
  <2>2. caller[c].pc \notin Sending
    BY <2>1 DEF Sending
  <2>3. caller'[c].pc \notin Sending /\ \A d \in Callers \ {c} : caller'[d] = caller[d]
    BY <2>1, Types DEF ModelInv, Sending
  <2> QED
    BY <2>1, <2>2, <2>3, IdleAttends
<1>5. CASE Crash
  <2>1. /\ \A c \in Callers : caller'[c].pc = "idle" /\ UNCHANGED <<call, attempts>>
        /\ orphaned' = orphaned \cup OpenAttempts
    BY <1>5 DEF Crash, Idle
  <2>2. \A k \in Keys, n \in Numbers : ~Attended(k, n)'
    BY <2>1 DEF Attended
  <2>3. \A k \in Keys, n \in Numbers : attempts[k][n].status \in Live <=> <<k, n>> \in OpenAttempts
    BY DEF OpenAttempts
  <2>4. \A k \in Keys, n \in Numbers : <<k, n>> \in orphaned => attempts[k][n].status \in Live
    BY DEF AttendInv
  <2> QED
    BY <1>5, <2>1, <2>2, <2>3, <2>4 DEF AttendInv, OpenIsAttended, OrphansKept, Crash
<1>6. CASE RecoverModelCalls
  <2>1. \A k \in Keys, n \in Numbers : attempts'[k][n].status \notin Live
    <3>1. \A k \in Keys, n \in Numbers : attempts'[k][n] = Recovered(attempts[k][n])
      BY <1>6 DEF RecoverModelCalls
    <3> QED
      BY <3>1, AttemptType, RecoveredRow DEF ModelInv
  <2>2. orphaned' = {}
    BY <1>6 DEF RecoverModelCalls
  <2> QED
    BY <2>1, <2>2 DEF AttendInv, OpenIsAttended, OrphansKept
<1>7. CASE Advance \/ UNCHANGED vars
  <2>1. UNCHANGED <<call, attempts, orphaned, caller>>
    BY <1>7 DEF Advance, vars
  <2> QED
    BY <2>1 DEF AttendInv, OpenIsAttended, Attended, OrphansKept
<1> QED
  BY <1>1, <1>2, <1>3, <1>4, <1>5, <1>6, <1>7 DEF Next, CallerStep

LEMMA AttendInvHolds == Spec => []AttendInv
<1>1. ModelInv /\ AttendInv /\ [Next]_vars => AttendInv'
  BY AttendStep
<1> QED
  BY <1>1, AttendInit, ModelInvHolds, PTL DEF Spec

(* No caller leaves an attempt open, whatever the adapter makes of the      *)
(* answer: an open attempt has its caller, or a crash has left it           *)
(* (ModelCallCoordinator._run, _record_failure, _mark_unknown).             *)
THEOREM CallersCloseAttempts ==
    Spec => [](\A k \in Keys, n \in Numbers : OpenIsAttended(k, n))
<1>1. AttendInv => \A k \in Keys, n \in Numbers : OpenIsAttended(k, n)
  BY DEF AttendInv
<1> QED
  BY <1>1, AttendInvHolds, PTL

(* What a crash has left open is shut: its call and its attempts change     *)
(* only by recover_model_calls, which the application does not call         *)
(* (retry_model_call, _matches_existing, _settle_model_attempt).            *)
THEOREM OrphansAreShut == Spec => OrphansStay
<1>1. ModelInv /\ AttendInv /\ [Next]_vars =>
        [\A k \in Keys, n \in Numbers :
            <<k, n>> \in orphaned /\ <<k, n>> \in orphaned' =>
                attempts'[k] = attempts[k] /\ call'[k] = call[k]]_vars
  BY AttendStep DEF OrphansKept
<1> QED
  BY <1>1, AttendInvHolds, ModelInvHolds, PTL DEF Spec, OrphansStay

----------------------------------------------------------------------------
(* Sums.  SumFunction is a recursive function over the subsets of a finite  *)
(* set; the induction goes over their cardinalities, by the least           *)
(* counterexample: < is well-founded on Nat.                                *)

LEMMA LeastNumber ==
    ASSUME NEW S, S \subseteq Nat, S # {}
    PROVE  \E x \in S : \A y \in S : x <= y
<1>1. IsWellFoundedOn({ss \in Nat \X Nat : ss[1] < ss[2]}, Nat)
  BY NatLessThanWellFounded DEF OpToRel
<1>2. PICK x \in S : \A y \in S : <<y, x>> \notin {ss \in Nat \X Nat : ss[1] < ss[2]}
  BY <1>1, WFMin
<1>3. \A y \in S : ~(y < x)
  BY <1>2
<1> QED
  BY <1>3

Chosen(s) == CHOOSE x \in s : TRUE

\* What holds of the empty set and of a set once it holds without its chosen
\* element holds of every subset.
LEMMA SubsetInduction ==
    ASSUME NEW D, IsFiniteSet(D), NEW P, {} \in P,
           \A s \in SUBSET D : s # {} /\ s \ {Chosen(s)} \in P => s \in P
    PROVE  \A s \in SUBSET D : s \in P
<1> SUFFICES ASSUME NEW r \in SUBSET D, r \notin P PROVE FALSE
  OBVIOUS
<1> DEFINE S == {Cardinality(s) : s \in {t \in SUBSET D : t \notin P}}
<1>1. S \subseteq Nat /\ S # {}
  <2>1. \A s \in SUBSET D : Cardinality(s) \in Nat
    BY FS_Subset, FS_CardinalityType
  <2> QED
    BY <2>1
<1>2. PICK n \in S : \A m \in S : n <= m
  BY <1>1, LeastNumber
<1>3. PICK s \in SUBSET D : s \notin P /\ Cardinality(s) = n
  BY <1>2
<1>4. s # {} /\ Chosen(s) \in s /\ IsFiniteSet(s)
  <2>1. s # {}
    BY <1>3
  <2>2. IsFiniteSet(s)
    BY FS_Subset
  <2> QED
    BY <2>1, <2>2 DEF Chosen
<1>5. Cardinality(s \ {Chosen(s)}) = Cardinality(s) - 1 /\ Cardinality(s) \in Nat
  BY <1>4, FS_RemoveElement, FS_CardinalityType
<1>6. s \ {Chosen(s)} \in P
  <2> SUFFICES ASSUME s \ {Chosen(s)} \notin P PROVE FALSE
    OBVIOUS
  <2>1. Cardinality(s \ {Chosen(s)}) \in S
    OBVIOUS
  <2>2. n <= n - 1
    BY <1>2, <1>3, <1>5, <2>1
  <2> QED
    BY <1>1, <1>2, <2>2
<1> QED
  BY <1>3, <1>4, <1>6

\* g gives the sum of h over each subset of its domain ...
SumsTo(g, h) ==
    g = [s \in SUBSET DOMAIN h |->
            IF s = {} THEN 0 ELSE h[Chosen(s)] + g[s \ {Chosen(s)}]]

\* ... of at most k elements.
SumsUpTo(g, h, k) ==
    g = [s \in SUBSET DOMAIN h |->
            IF s = {} \/ Cardinality(s) > k THEN 0 ELSE h[Chosen(s)] + g[s \ {Chosen(s)}]]

LEMMA SumExists ==
    ASSUME NEW h, IsFiniteSet(DOMAIN h)
    PROVE  \E g : SumsTo(g, h)
<1> DEFINE D == DOMAIN h
           T == {k \in Nat : ~\E g : SumsUpTo(g, h, k)}
<1>0. \A s \in SUBSET D : Cardinality(s) \in Nat /\ IsFiniteSet(s)
                           /\ Cardinality(s) <= Cardinality(D) /\ (Cardinality(s) = 0 <=> s = {})
  BY FS_Subset, FS_CardinalityType, FS_EmptySet
<1>1. \A s \in SUBSET D : s # {} =>
        /\ Chosen(s) \in s /\ s \ {Chosen(s)} \in SUBSET D
        /\ Cardinality(s \ {Chosen(s)}) = Cardinality(s) - 1
  BY <1>0, FS_RemoveElement DEF Chosen
<1>2. T = {}
  <2> SUFFICES ASSUME T # {} PROVE FALSE
    OBVIOUS
  <2>1. PICK k \in T : \A j \in T : k <= j
    BY LeastNumber
  <2>2. CASE k = 0
    <3>1. PICK g : g = [s \in SUBSET D |-> 0]
      OBVIOUS
    <3>2. SumsUpTo(g, h, 0)
      <4>1. \A s \in SUBSET D : s = {} \/ Cardinality(s) > 0
        BY <1>0
      <4> QED
        BY <3>1, <4>1 DEF SumsUpTo
    <3> QED
      BY <2>1, <2>2, <3>2
  <2>3. CASE k # 0
    <3>1. k - 1 \in Nat /\ k - 1 \notin T
      BY <2>1, <2>3
    <3>2. PICK g : SumsUpTo(g, h, k - 1)
      BY <3>1
    <3>3. PICK f : f = [s \in SUBSET D |-> IF s = {} \/ Cardinality(s) > k THEN 0
                                           ELSE h[Chosen(s)] + g[s \ {Chosen(s)}]]
      OBVIOUS
    <3>4. ASSUME NEW t \in SUBSET D, Cardinality(t) <= k - 1 PROVE f[t] = g[t]
      <4>1. ~(Cardinality(t) > k) /\ ~(Cardinality(t) > k - 1)
        BY <1>0, <2>1, <3>4
      <4> QED
        BY <3>2, <3>3, <4>1 DEF SumsUpTo
    <3>5. ASSUME NEW s \in SUBSET D, ~(s = {} \/ Cardinality(s) > k)
          PROVE  f[s \ {Chosen(s)}] = g[s \ {Chosen(s)}]
      <4>1. s \ {Chosen(s)} \in SUBSET D /\ Cardinality(s \ {Chosen(s)}) <= k - 1
        BY <1>0, <1>1, <2>1, <3>5
      <4> QED
        BY <3>4, <4>1
    <3>6. f = [s \in SUBSET D |-> IF s = {} \/ Cardinality(s) > k THEN 0
                                  ELSE h[Chosen(s)] + f[s \ {Chosen(s)}]]
      BY <3>3, <3>5
    <3>7. SumsUpTo(f, h, k)
      BY <3>6 DEF SumsUpTo
    <3> QED
      BY <2>1, <3>7
  <2> QED
    BY <2>2, <2>3
<1>3. Cardinality(D) \in Nat
  BY FS_CardinalityType
<1>4. PICK g : SumsUpTo(g, h, Cardinality(D))
  BY <1>2, <1>3
<1>5. \A s \in SUBSET D : ~(Cardinality(s) > Cardinality(D))
  BY <1>0, <1>3
<1>6. SumsTo(g, h)
  BY <1>4, <1>5 DEF SumsUpTo, SumsTo
<1> QED
  BY <1>6

\* The sum of a function, by its recursion.
LEMMA SumUnfolds ==
    ASSUME NEW h, IsFiniteSet(DOMAIN h)
    PROVE  \E g : SumsTo(g, h) /\ SumFunction(h) = g[DOMAIN h]
<1>1. \E g : SumsTo(g, h)
  BY SumExists
<1> QED
  BY <1>1 DEF SumFunction, SumFunctionOnSet, FoldFunctionOnSet, MapThenFoldSet, SumsTo, Chosen

LEMMA SumStep ==
    ASSUME NEW h, NEW g, SumsTo(g, h), NEW s \in SUBSET DOMAIN h
    PROVE  /\ s = {} => g[s] = 0
           /\ s # {} => /\ g[s] = h[Chosen(s)] + g[s \ {Chosen(s)}]
                        /\ Chosen(s) \in DOMAIN h
<1>1. s # {} => Chosen(s) \in s
  BY DEF Chosen
<1> QED
  BY <1>1 DEF SumsTo

LEMMA SumNext ==
    ASSUME NEW D, NEW h \in [D -> Nat], NEW g, SumsTo(g, h), NEW s \in SUBSET D, s # {}
    PROVE  g[s] = h[Chosen(s)] + g[s \ {Chosen(s)}] /\ Chosen(s) \in D
BY SumStep

LEMMA SumNatural ==
    ASSUME NEW D, IsFiniteSet(D), NEW h \in [D -> Nat], NEW g, SumsTo(g, h)
    PROVE  \A s \in SUBSET D : g[s] \in Nat
<1> DEFINE P == {s \in SUBSET D : g[s] \in Nat}
<1>1. {} \in P
  <2>1. g[{}] = 0
    BY SumStep
  <2> QED
    BY <2>1
<1>2. ASSUME NEW s \in SUBSET D, s # {}, s \ {Chosen(s)} \in P PROVE s \in P
  <2>1. g[s] = h[Chosen(s)] + g[s \ {Chosen(s)}] /\ Chosen(s) \in D
    BY <1>2, SumStep
  <2> QED
    BY <1>2, <2>1
<1>3. \A s \in SUBSET D : s \in P
  <2> HIDE DEF P
  <2> QED
    BY <1>1, <1>2, SubsetInduction
<1> QED
  BY <1>3

LEMMA SumType ==
    ASSUME NEW D, IsFiniteSet(D), NEW h \in [D -> Nat]
    PROVE  SumFunction(h) \in Nat
<1>1. PICK g : SumsTo(g, h) /\ SumFunction(h) = g[DOMAIN h]
  BY SumUnfolds
<1> QED
  BY <1>1, SumNatural

\* If no element gains more in u than in o, the sum of u gains no more than that of o.
LEMMA SumBalance ==
    ASSUME NEW D, IsFiniteSet(D),
           NEW u \in [D -> Nat], NEW v \in [D -> Nat], NEW o \in [D -> Nat], NEW p \in [D -> Nat],
           \A x \in D : v[x] + o[x] <= u[x] + p[x]
    PROVE  SumFunction(v) + SumFunction(o) <= SumFunction(u) + SumFunction(p)
<1>1. PICK gu : SumsTo(gu, u) /\ SumFunction(u) = gu[D]
  BY SumUnfolds
<1>2. PICK gv : SumsTo(gv, v) /\ SumFunction(v) = gv[D]
  BY SumUnfolds
<1>3. PICK go : SumsTo(go, o) /\ SumFunction(o) = go[D]
  BY SumUnfolds
<1>4. PICK gp : SumsTo(gp, p) /\ SumFunction(p) = gp[D]
  BY SumUnfolds
<1>5. \A s \in SUBSET D : gu[s] \in Nat /\ gv[s] \in Nat /\ go[s] \in Nat /\ gp[s] \in Nat
  BY <1>1, <1>2, <1>3, <1>4, SumNatural
<1> DEFINE P == {s \in SUBSET D : gv[s] + go[s] <= gu[s] + gp[s]}
<1>6. {} \in P
  <2>1. gu[{}] = 0 /\ gv[{}] = 0 /\ go[{}] = 0 /\ gp[{}] = 0
    BY <1>1, <1>2, <1>3, <1>4, SumStep
  <2> QED
    BY <2>1
<1>7. ASSUME NEW s \in SUBSET D, s # {}, s \ {Chosen(s)} \in P PROVE s \in P
  <2> DEFINE x == Chosen(s)
             t == s \ {x}
  <2>1. /\ x \in D /\ t \in SUBSET D
        /\ gu[s] = u[x] + gu[t] /\ gv[s] = v[x] + gv[t]
        /\ go[s] = o[x] + go[t] /\ gp[s] = p[x] + gp[t]
    <3>1. s \in SUBSET D /\ s # {}
      BY <1>7
    <3>2. gu[s] = u[x] + gu[t] /\ x \in D
      BY ONLY SumNext, IsFiniteSet(D), <1>1, <3>1, u \in [D -> Nat]
    <3>3. gv[s] = v[x] + gv[t]
      BY ONLY SumNext, <1>2, <3>1, v \in [D -> Nat]
    <3>4. go[s] = o[x] + go[t]
      BY ONLY SumNext, <1>3, <3>1, o \in [D -> Nat]
    <3>5. gp[s] = p[x] + gp[t]
      BY ONLY SumNext, <1>4, <3>1, p \in [D -> Nat]
    <3> QED
      BY <3>1, <3>2, <3>3, <3>4, <3>5
  <2>2. gu[t] \in Nat /\ gv[t] \in Nat /\ go[t] \in Nat /\ gp[t] \in Nat
    BY <1>5, <2>1
  <2>3. gv[t] + go[t] <= gu[t] + gp[t] /\ v[x] + o[x] <= u[x] + p[x]
    BY <1>7, <2>1
  <2>4. u[x] \in Nat /\ v[x] \in Nat /\ o[x] \in Nat /\ p[x] \in Nat
    BY <2>1
  <2> HIDE DEF x, t
  <2>5. gv[s] + go[s] <= gu[s] + gp[s]
    BY <2>1, <2>2, <2>3, <2>4
  <2> QED
    BY <2>5
<1>8. D \in P
  BY <1>6, <1>7, SubsetInduction
<1> QED
  BY <1>1, <1>2, <1>3, <1>4, <1>8

\* If one element gains at most q and the others nothing, so does the sum.
LEMMA SumGain ==
    ASSUME NEW D, IsFiniteSet(D), NEW u \in [D -> Nat], NEW v \in [D -> Nat],
           NEW d \in D, NEW q \in Nat, v[d] <= u[d] + q,
           \A x \in D \ {d} : v[x] <= u[x]
    PROVE  SumFunction(v) <= SumFunction(u) + q
<1>1. PICK gu : SumsTo(gu, u) /\ SumFunction(u) = gu[D]
  BY SumUnfolds
<1>2. PICK gv : SumsTo(gv, v) /\ SumFunction(v) = gv[D]
  BY SumUnfolds
<1>3. \A s \in SUBSET D : gu[s] \in Nat /\ gv[s] \in Nat
  BY <1>1, <1>2, SumNatural
<1> DEFINE P == {s \in SUBSET D : gv[s] <= gu[s] + (IF d \in s THEN q ELSE 0)}
<1>4. {} \in P
  <2>1. gu[{}] = 0 /\ gv[{}] = 0
    BY <1>1, <1>2, SumStep
  <2> QED
    BY <2>1
<1>5. ASSUME NEW s \in SUBSET D, s # {}, s \ {Chosen(s)} \in P PROVE s \in P
  <2> DEFINE x == Chosen(s)
             t == s \ {x}
  <2>2. gu[s] = u[x] + gu[t] /\ gv[s] = v[x] + gv[t]
    BY <1>1, <1>2, <1>5, SumStep
  <2>3. gv[t] <= gu[t] + (IF d \in t THEN q ELSE 0)
    BY <1>5
  <2>4. x \in s /\ x \in D /\ t \in SUBSET D /\ (d \in t <=> (d \in s /\ d # x))
    BY <1>5 DEF Chosen
  <2>5. gu[t] \in Nat /\ gv[t] \in Nat /\ u[x] \in Nat /\ v[x] \in Nat
    BY <1>3, <2>4
  <2>6. v[x] <= u[x] + (IF x = d THEN q ELSE 0)
    BY <2>4, <2>5
  <2> HIDE DEF x, t
  <2>7. CASE d = x
    <3>1. d \in s /\ d \notin t
      BY <2>4, <2>7
    <3> QED
      BY <2>2, <2>3, <2>5, <2>6, <2>7, <3>1
  <2>8. CASE d # x
    BY <2>2, <2>3, <2>4, <2>5, <2>6, <2>8
  <2> QED
    BY <2>7, <2>8
<1>6. D \in P
  BY <1>4, <1>5, SubsetInduction
<1> QED
  BY <1>1, <1>2, <1>6

\* A sum of nothing.
LEMMA SumZero ==
    ASSUME NEW D, IsFiniteSet(D), NEW h \in [D -> Nat], \A x \in D : h[x] = 0
    PROVE  SumFunction(h) = 0
<1>1. PICK g : SumsTo(g, h) /\ SumFunction(h) = g[D]
  BY SumUnfolds
<1> DEFINE P == {s \in SUBSET D : g[s] = 0}
<1>2. {} \in P
  BY <1>1, SumStep
<1>3. ASSUME NEW s \in SUBSET D, s # {}, s \ {Chosen(s)} \in P PROVE s \in P
  <2>1. g[s] = h[Chosen(s)] + g[s \ {Chosen(s)}] /\ Chosen(s) \in D
    BY <1>1, <1>3, SumStep
  <2> QED
    BY <1>3, <2>1
<1>4. D \in P
  BY <1>2, <1>3, SubsetInduction
<1> QED
  BY <1>1, <1>4

----------------------------------------------------------------------------
(* The budgets.  A reservation is only made while everything held and       *)
(* settled leaves room for it; after that no step lets an attempt cost more *)
(* than it held, except by as much as its provider reported beyond it.      *)

TokensOf(a) == SettledTokens(a) + HeldTokens(a)
MoneyOf(a) == SettledMoney(a) + HeldMoney(a)

\* What the attempts of a table t use, and what they overran by.
Rows == Keys \X Numbers
TokensIn(t) == [kn \in Rows |-> TokensOf(t[kn[1]][kn[2]])]
MoneyIn(t) == [kn \in Rows |-> MoneyOf(t[kn[1]][kn[2]])]
TokenExcessIn(t) == [kn \in Rows |-> TokenOverrun(t[kn[1]][kn[2]])]
MoneyExcessIn(t) == [kn \in Rows |-> CostOverrun(t[kn[1]][kn[2]])]

Tables == [Keys -> [Numbers -> AttemptRecords]]

Bounded ==
    /\ TokenUsage <= MaxTokens + SumOver(TokenOverrun)
    /\ CostUsage <= MaxTotal + SumOver(CostOverrun)

\* An attempt without an outcome has settled nothing; what overran closed the account.
RowBudget(a) ==
    /\ a.status \in Live \cup {"unknown_outcome"} => a.settled = 0
    /\ CostOverrun(a) > 0 => breached

BudgetInv == Bounded /\ \A k \in Keys, n \in Numbers : RowBudget(attempts[k][n])

LEMMA RowsFinite == IsFiniteSet(Rows) /\ \A kn \in Rows : kn[1] \in Keys /\ kn[2] \in Numbers
<1>1. IsFiniteSet(Numbers)
  BY ModelAssumption, FS_Interval DEF Numbers
<1> QED
  BY <1>1, ModelAssumption, FS_Product DEF Rows

LEMMA Amounts ==
    ASSUME NEW a \in AttemptRecords
    PROVE  /\ TokensOf(a) \in Nat /\ MoneyOf(a) \in Nat
           /\ TokenOverrun(a) \in Nat /\ CostOverrun(a) \in Nat
           /\ a.quote.tokens \in Nat /\ ReservedCost(a.quote) \in Nat
<1>1. a.quote \in [tokens : Nat, in : Nat, out : Nat] /\ a.settled \in Nat /\ a.money \in Nat
  <2>1. Quotes \subseteq [tokens : Nat, in : Nat, out : Nat]
    BY ModelAssumption
  <2>2. NoQuote \in [tokens : Nat, in : Nat, out : Nat]
    BY DEF NoQuote
  <2> QED
    BY <2>1, <2>2 DEF AttemptRecords
<1>2. a.quote.tokens \in Nat /\ a.quote.in \in Nat /\ a.quote.out \in Nat
  BY <1>1
<1>3. \A x, y \in Nat : x * y \in Nat
  OBVIOUS
<1>4. a.quote.in * InputRate \in Nat /\ a.quote.out * ReserveOutputRate \in Nat
  BY <1>2, <1>3, ModelAssumption
<1>5. ReservedCost(a.quote) \in Nat
  BY <1>4 DEF ReservedCost
<1>6. TokensOf(a) \in Nat /\ TokenOverrun(a) \in Nat
  BY <1>1, <1>2 DEF TokensOf, SettledTokens, HeldTokens, TokenOverrun
<1>7. MoneyOf(a) \in Nat /\ CostOverrun(a) \in Nat
  BY <1>1, <1>5 DEF MoneyOf, SettledMoney, HeldMoney, CostOverrun
<1> QED
  BY <1>2, <1>5, <1>6, <1>7

LEMMA AmountsIn ==
    ASSUME NEW t \in Tables
    PROVE  /\ TokensIn(t) \in [Rows -> Nat] /\ MoneyIn(t) \in [Rows -> Nat]
           /\ TokenExcessIn(t) \in [Rows -> Nat] /\ MoneyExcessIn(t) \in [Rows -> Nat]
<1>1. \A kn \in Rows : t[kn[1]][kn[2]] \in AttemptRecords
  BY RowsFinite DEF Tables
<1> QED
  BY <1>1, Amounts DEF TokensIn, MoneyIn, TokenExcessIn, MoneyExcessIn

LEMMA UsageIsSum ==
    /\ TokenUsage = SumFunction(TokensIn(attempts))
    /\ CostUsage = SumFunction(MoneyIn(attempts))
    /\ SumOver(TokenOverrun) = SumFunction(TokenExcessIn(attempts))
    /\ SumOver(CostOverrun) = SumFunction(MoneyExcessIn(attempts))
BY DEF TokenUsage, CostUsage, SumOver, TokensIn, MoneyIn, TokenExcessIn, MoneyExcessIn,
       TokensOf, MoneyOf, Rows

BoundedIn(t) ==
    /\ SumFunction(TokensIn(t)) <= MaxTokens + SumFunction(TokenExcessIn(t))
    /\ SumFunction(MoneyIn(t)) <= MaxTotal + SumFunction(MoneyExcessIn(t))

LEMMA BoundedIs == (Bounded <=> BoundedIn(attempts)) /\ (Bounded' <=> BoundedIn(attempts'))
<1>1. Bounded <=> BoundedIn(attempts)
  BY UsageIsSum DEF Bounded, BoundedIn
<1>2. Bounded' <=> BoundedIn(attempts')
  BY DEF Bounded, BoundedIn, TokenUsage, CostUsage, SumOver, TokensIn, MoneyIn, TokenExcessIn,
         MoneyExcessIn, TokensOf, MoneyOf, Rows, TokenOverrun, CostOverrun, SettledTokens,
         HeldTokens, SettledMoney, HeldMoney
<1> QED
  BY <1>1, <1>2

\* The attempt b may take the place of a: it uses no more, or the more is its overrun.
Balanced(a, b) ==
    /\ TokensOf(b) + TokenOverrun(a) <= TokensOf(a) + TokenOverrun(b)
    /\ MoneyOf(b) + CostOverrun(a) <= MoneyOf(a) + CostOverrun(b)

LEMMA BoundKept ==
    ASSUME NEW t \in Tables, NEW w \in Tables, BoundedIn(t),
           \A k \in Keys, n \in Numbers : Balanced(t[k][n], w[k][n])
    PROVE  BoundedIn(w)
<1>1. \A kn \in Rows : Balanced(t[kn[1]][kn[2]], w[kn[1]][kn[2]])
  BY RowsFinite
<1>2. SumFunction(TokensIn(w)) + SumFunction(TokenExcessIn(t))
        <= SumFunction(TokensIn(t)) + SumFunction(TokenExcessIn(w))
  <2>1. \A kn \in Rows : TokensIn(w)[kn] + TokenExcessIn(t)[kn] <= TokensIn(t)[kn] + TokenExcessIn(w)[kn]
    BY <1>1 DEF Balanced, TokensIn, TokenExcessIn
  <2> QED
    BY <2>1, RowsFinite, AmountsIn, SumBalance
<1>3. SumFunction(MoneyIn(w)) + SumFunction(MoneyExcessIn(t))
        <= SumFunction(MoneyIn(t)) + SumFunction(MoneyExcessIn(w))
  <2>1. \A kn \in Rows : MoneyIn(w)[kn] + MoneyExcessIn(t)[kn] <= MoneyIn(t)[kn] + MoneyExcessIn(w)[kn]
    BY <1>1 DEF Balanced, MoneyIn, MoneyExcessIn
  <2> QED
    BY <2>1, RowsFinite, AmountsIn, SumBalance
<1>4. /\ SumFunction(TokensIn(w)) \in Nat /\ SumFunction(TokensIn(t)) \in Nat
      /\ SumFunction(TokenExcessIn(w)) \in Nat /\ SumFunction(TokenExcessIn(t)) \in Nat
      /\ SumFunction(MoneyIn(w)) \in Nat /\ SumFunction(MoneyIn(t)) \in Nat
      /\ SumFunction(MoneyExcessIn(w)) \in Nat /\ SumFunction(MoneyExcessIn(t)) \in Nat
  BY RowsFinite, AmountsIn, SumType
<1> QED
  BY <1>2, <1>3, <1>4, ModelAssumption DEF BoundedIn

\* A new attempt whose reservation fits.
LEMMA BoundOpened ==
    ASSUME NEW t \in Tables, NEW w \in Tables, NEW k \in Keys, NEW n \in Numbers,
           NEW q \in Quotes, t[k][n] = NoAttempt, w[k][n] = Prepared(q),
           \A l \in Keys, j \in Numbers : l # k \/ j # n => w[l][j] = t[l][j],
           SumFunction(TokensIn(t)) + q.tokens <= MaxTokens,
           SumFunction(MoneyIn(t)) + ReservedCost(q) <= MaxTotal
    PROVE  BoundedIn(w)
<1> DEFINE d == <<k, n>>
<1>1. d \in Rows /\ d[1] = k /\ d[2] = n
  BY DEF Rows
<1>2. Prepared(q) \in AttemptRecords /\ Prepared(q).quote = q
  BY PreparedIsAttempt DEF Prepared
<1>3. q.tokens \in Nat /\ ReservedCost(q) \in Nat
  BY <1>2, Amounts
<1>4. TokensOf(Prepared(q)) = q.tokens /\ MoneyOf(Prepared(q)) = ReservedCost(q)
  BY <1>3 DEF TokensOf, MoneyOf, Prepared, SettledTokens, HeldTokens, SettledMoney, HeldMoney, Live
<1>5. TokensOf(NoAttempt) = 0 /\ MoneyOf(NoAttempt) = 0
  BY DEF TokensOf, MoneyOf, NoAttempt, None, SettledTokens, HeldTokens, SettledMoney, HeldMoney, Live
<1>6. \A x \in Rows \ {d} : w[x[1]][x[2]] = t[x[1]][x[2]]
  <2>1. ASSUME NEW x \in Rows \ {d} PROVE x[1] # k \/ x[2] # n
    BY <2>1 DEF Rows
  <2> QED
    BY <2>1, RowsFinite
<1>7. SumFunction(TokensIn(w)) <= SumFunction(TokensIn(t)) + q.tokens
  <2>1. TokensIn(w)[d] <= TokensIn(t)[d] + q.tokens
    BY <1>1, <1>3, <1>4, <1>5 DEF TokensIn
  <2>2. \A x \in Rows \ {d} : TokensIn(w)[x] <= TokensIn(t)[x]
    <3>1. \A x \in Rows \ {d} : TokensIn(w)[x] = TokensIn(t)[x] /\ TokensIn(t)[x] \in Nat
      BY <1>6, AmountsIn DEF TokensIn
    <3> QED
      BY <3>1
  <2> HIDE DEF d
  <2> QED
    BY <1>1, <1>3, <2>1, <2>2, RowsFinite, AmountsIn, SumGain
<1>8. SumFunction(MoneyIn(w)) <= SumFunction(MoneyIn(t)) + ReservedCost(q)
  <2>1. MoneyIn(w)[d] <= MoneyIn(t)[d] + ReservedCost(q)
    BY <1>1, <1>3, <1>4, <1>5 DEF MoneyIn
  <2>2. \A x \in Rows \ {d} : MoneyIn(w)[x] <= MoneyIn(t)[x]
    <3>1. \A x \in Rows \ {d} : MoneyIn(w)[x] = MoneyIn(t)[x] /\ MoneyIn(t)[x] \in Nat
      BY <1>6, AmountsIn DEF MoneyIn
    <3> QED
      BY <3>1
  <2> HIDE DEF d
  <2> QED
    BY <1>1, <1>3, <2>1, <2>2, RowsFinite, AmountsIn, SumGain
<1>9. /\ SumFunction(TokensIn(w)) \in Nat /\ SumFunction(TokensIn(t)) \in Nat
      /\ SumFunction(TokenExcessIn(w)) \in Nat
      /\ SumFunction(MoneyIn(w)) \in Nat /\ SumFunction(MoneyIn(t)) \in Nat
      /\ SumFunction(MoneyExcessIn(w)) \in Nat
  BY RowsFinite, AmountsIn, SumType
<1> QED
  BY <1>3, <1>7, <1>8, <1>9, ModelAssumption DEF BoundedIn

LEMMA BudgetInit == Init => BudgetInv
<1> SUFFICES ASSUME Init PROVE BudgetInv
  OBVIOUS
<1>1. ModelInv /\ attempts \in Tables
  BY ModelInit, Types DEF ModelInv, Tables
<1>2. \A k \in Keys, n \in Numbers : attempts[k][n] = NoAttempt
  BY DEF Init
<1>3. TokensOf(NoAttempt) = 0 /\ MoneyOf(NoAttempt) = 0 /\ CostOverrun(NoAttempt) = 0
  BY DEF TokensOf, MoneyOf, NoAttempt, None, SettledTokens, HeldTokens, SettledMoney, HeldMoney,
         Live, CostOverrun
<1>4. \A kn \in Rows : TokensIn(attempts)[kn] = 0 /\ MoneyIn(attempts)[kn] = 0
  BY <1>2, <1>3, RowsFinite DEF TokensIn, MoneyIn
<1>5. SumFunction(TokensIn(attempts)) = 0 /\ SumFunction(MoneyIn(attempts)) = 0
  BY <1>1, <1>4, RowsFinite, AmountsIn, SumZero
<1>6. /\ SumFunction(TokenExcessIn(attempts)) \in Nat
      /\ SumFunction(MoneyExcessIn(attempts)) \in Nat
  BY <1>1, RowsFinite, AmountsIn, SumType
<1>7. Bounded
  BY <1>5, <1>6, BoundedIs, ModelAssumption DEF BoundedIn
<1>8. \A k \in Keys, n \in Numbers : RowBudget(attempts[k][n])
  BY <1>2, <1>3 DEF RowBudget, NoAttempt
<1> QED
  BY <1>7, <1>8 DEF BudgetInv

LEMMA BudgetKept ==
    ASSUME BudgetInv, UNCHANGED <<attempts, breached>>
    PROVE  BudgetInv'
<1>1. Bounded'
  BY BoundedIs DEF BudgetInv
<1>2. \A k \in Keys, n \in Numbers : RowBudget(attempts[k][n])'
  BY DEF BudgetInv, RowBudget, CostOverrun
<1> QED
  BY <1>1, <1>2 DEF BudgetInv

\* One attempt is replaced by one that is balanced with it.
LEMMA RowReplaced ==
    ASSUME ModelInv, BudgetInv, NEW k \in Keys, NEW n \in Numbers, NEW b \in AttemptRecords,
           attempts' = [attempts EXCEPT ![k][n] = b], Balanced(attempts[k][n], b),
           breached => breached',
           b.status \in Live \cup {"unknown_outcome"} => b.settled = 0,
           CostOverrun(b) > 0 => breached'
    PROVE  BudgetInv'
<1>1. attempts \in Tables /\ RowSet(k, n, b)
  BY Types, RowIsSet DEF ModelInv, Tables
<1>2. /\ attempts' \in Tables /\ attempts'[k][n] = b
      /\ \A l \in Keys, j \in Numbers : l # k \/ j # n => attempts'[l][j] = attempts[l][j]
  BY <1>1 DEF RowSet, Tables
<1>3. \A l \in Keys, j \in Numbers : Balanced(attempts[l][j], attempts'[l][j])
  <2> SUFFICES ASSUME NEW l \in Keys, NEW j \in Numbers
               PROVE  Balanced(attempts[l][j], attempts'[l][j])
    OBVIOUS
  <2>1. CASE l = k /\ j = n
    BY <1>2, <2>1
  <2>2. CASE l # k \/ j # n
    <3>1. attempts'[l][j] = attempts[l][j] /\ attempts[l][j] \in AttemptRecords
      BY <1>1, <1>2, <2>2 DEF Tables
    <3> QED
      BY <3>1, Amounts DEF Balanced
  <2> QED
    BY <2>1, <2>2
<1>4. Bounded'
  <2>1. PICK t \in Tables, w \in Tables : t = attempts /\ w = attempts'
    BY <1>1, <1>2
  <2>2. BoundedIn(t)
    BY ONLY <2>1, BudgetInv, BoundedIs DEF BudgetInv
  <2>3. \A l \in Keys, j \in Numbers : Balanced(t[l][j], w[l][j])
    BY ONLY <1>3, <2>1
  <2>4. BoundedIn(w)
    BY ONLY <2>2, <2>3, t \in Tables, w \in Tables, BoundKept
  <2> QED
    BY ONLY <2>1, <2>4, BoundedIs
<1>5. ASSUME NEW l \in Keys, NEW j \in Numbers PROVE RowBudget(attempts[l][j])'
  <2>1. RowBudget(attempts[l][j])
    BY DEF BudgetInv
  <2>2. CASE l = k /\ j = n
    <3>1. attempts'[l][j] = b
      BY <1>2, <2>2
    <3>2. CostOverrun(attempts[l][j])' = CostOverrun(b)
      BY <3>1 DEF CostOverrun
    <3> QED
      BY <3>1, <3>2 DEF RowBudget
  <2>3. CASE l # k \/ j # n
    <3>1. attempts'[l][j] = attempts[l][j]
      BY <1>2, <2>3
    <3>2. CostOverrun(attempts[l][j])' = CostOverrun(attempts[l][j])
      BY <3>1 DEF CostOverrun
    <3> QED
      BY <2>1, <3>1, <3>2 DEF RowBudget
  <2> QED
    BY <2>2, <2>3
<1> QED
  BY <1>4, <1>5 DEF BudgetInv

\* A live attempt is what its reservation says and nothing more.
LEMMA LiveAmounts ==
    ASSUME ModelInv, BudgetInv, NEW k \in Keys, NEW n \in Numbers, attempts[k][n].status \in Live
    PROVE  LET a == attempts[k][n] IN
           /\ a \in AttemptRecords /\ a.cost = "held" /\ a.settled = 0
           /\ TokensOf(a) = a.quote.tokens /\ MoneyOf(a) = ReservedCost(a.quote)
           /\ TokenOverrun(a) = 0 /\ CostOverrun(a) = 0
<1> DEFINE a == attempts[k][n]
<1>1. a \in AttemptRecords /\ RowInv(k, n) /\ RowBudget(a)
  BY AttemptType DEF ModelInv, KeyInv, BudgetInv
<1>2. a.cost = "held" /\ a.settled = 0
  BY <1>1 DEF RowInv, RowBudget
<1>3. a.quote.tokens \in Nat /\ ReservedCost(a.quote) \in Nat
  BY <1>1, Amounts
<1>4. TokensOf(a) = a.quote.tokens /\ TokenOverrun(a) = 0
  BY <1>2, <1>3 DEF TokensOf, SettledTokens, HeldTokens, TokenOverrun, Live
<1>5. MoneyOf(a) = ReservedCost(a.quote) /\ CostOverrun(a) = 0
  BY <1>2, <1>3 DEF MoneyOf, SettledMoney, HeldMoney, CostOverrun
<1> QED
  BY <1>1, <1>2, <1>4, <1>5

LEMMA BudgetOpened ==
    ASSUME ModelInv, BudgetInv, NEW k \in Keys, NEW n \in Numbers, NEW q \in Quotes,
           attempts[k][n].status = None, attempts' = [attempts EXCEPT ![k][n] = Prepared(q)],
           TokensAllowed(q), CostAllowed(q), UNCHANGED breached
    PROVE  BudgetInv'
<1>1. Prepared(q) \in AttemptRecords
  BY PreparedIsAttempt
<1>2. attempts \in Tables /\ RowSet(k, n, Prepared(q))
  BY <1>1, Types, RowIsSet DEF ModelInv, Tables
<1>3. /\ attempts' \in Tables /\ attempts'[k][n] = Prepared(q)
      /\ \A l \in Keys, j \in Numbers : l # k \/ j # n => attempts'[l][j] = attempts[l][j]
  BY <1>2 DEF RowSet, Tables
<1>4. attempts[k][n] = NoAttempt
  BY DEF ModelInv, KeyInv, RowInv
<1>5. /\ SumFunction(TokensIn(attempts)) + q.tokens <= MaxTokens
      /\ SumFunction(MoneyIn(attempts)) + ReservedCost(q) <= MaxTotal
  BY UsageIsSum DEF TokensAllowed, CostAllowed
<1>6. Bounded'
  <2>1. PICK t \in Tables, w \in Tables : t = attempts /\ w = attempts'
    BY <1>2, <1>3
  <2>2. t[k][n] = NoAttempt /\ w[k][n] = Prepared(q)
    BY ONLY <1>3, <1>4, <2>1
  <2>3. \A l \in Keys, j \in Numbers : l # k \/ j # n => w[l][j] = t[l][j]
    BY ONLY <1>3, <2>1
  <2>4. /\ SumFunction(TokensIn(t)) + q.tokens <= MaxTokens
        /\ SumFunction(MoneyIn(t)) + ReservedCost(q) <= MaxTotal
    BY <1>5, <2>1
  <2>5. BoundedIn(w)
    BY ONLY <2>2, <2>3, <2>4, t \in Tables, w \in Tables, k \in Keys, n \in Numbers,
            q \in Quotes, BoundOpened
  <2> QED
    BY ONLY <2>1, <2>5, BoundedIs
<1>7. ASSUME NEW l \in Keys, NEW j \in Numbers PROVE RowBudget(attempts[l][j])'
  <2>1. RowBudget(attempts[l][j])
    BY DEF BudgetInv
  <2>2. CASE l = k /\ j = n
    <3>1. attempts'[l][j] = Prepared(q)
      BY <1>3, <2>2
    <3>2. CostOverrun(attempts[l][j])' = 0
      BY <3>1 DEF CostOverrun, Prepared
    <3> QED
      BY <3>1, <3>2 DEF RowBudget, Prepared
  <2>3. CASE l # k \/ j # n
    <3>1. attempts'[l][j] = attempts[l][j]
      BY <1>3, <2>3
    <3>2. CostOverrun(attempts[l][j])' = CostOverrun(attempts[l][j])
      BY <3>1 DEF CostOverrun
    <3> QED
      BY <2>1, <3>1, <3>2 DEF RowBudget
  <2> QED
    BY <2>2, <2>3
<1> QED
  BY <1>6, <1>7 DEF BudgetInv

LEMMA BudgetSettled ==
    ASSUME ModelInv, BudgetInv, NEW k \in Keys, NEW n \in Numbers, attempts[k][n].status \in Live,
           NEW status \in {"failed", "succeeded"}, NEW validation \in Validations,
           NEW u \in [in : Nat, out : Nat], Settle(k, n, status, validation, u)
    PROVE  BudgetInv'
<1> DEFINE a == attempts[k][n]
<1>1. /\ a \in AttemptRecords /\ a.cost = "held"
      /\ TokensOf(a) = a.quote.tokens /\ MoneyOf(a) = ReservedCost(a.quote)
      /\ TokenOverrun(a) = 0 /\ CostOverrun(a) = 0
  BY LiveAmounts
<1>2. Tokens(u) \in Nat /\ ActualCost(u) \in Nat
  BY TokensPositive
<1>3. a.quote.tokens \in Nat /\ ReservedCost(a.quote) \in Nat
  BY <1>1, Amounts
<1>4. PICK b : b = [a EXCEPT !.status = status, !.validation = validation, !.settled = Tokens(u),
                             !.cost = "settled", !.money = ActualCost(u)]
  OBVIOUS
<1>5. /\ b \in AttemptRecords /\ b.status = status /\ b.settled = Tokens(u) /\ b.cost = "settled"
      /\ b.money = ActualCost(u) /\ b.quote = a.quote
  BY <1>1, <1>2, <1>4 DEF AttemptRecords, CallStatuses
<1>6. attempts' = [attempts EXCEPT ![k][n] = b]
  BY <1>1, <1>4 DEF Settle
<1>7. breached' = (breached \/ ActualCost(u) > ReservedCost(a.quote))
  BY <1>1 DEF Settle
<1>8. /\ TokensOf(b) = Tokens(u)
      /\ TokenOverrun(b) = IF Tokens(u) > a.quote.tokens THEN Tokens(u) - a.quote.tokens ELSE 0
  BY <1>2, <1>5 DEF TokensOf, SettledTokens, HeldTokens, TokenOverrun, Live
<1>9. /\ MoneyOf(b) = ActualCost(u)
      /\ CostOverrun(b) = IF ActualCost(u) > ReservedCost(a.quote)
                          THEN ActualCost(u) - ReservedCost(a.quote) ELSE 0
  BY <1>2, <1>5 DEF MoneyOf, SettledMoney, HeldMoney, CostOverrun
<1>10. TokensOf(b) + TokenOverrun(a) <= TokensOf(a) + TokenOverrun(b)
  BY <1>1, <1>2, <1>3, <1>8
<1>11. MoneyOf(b) + CostOverrun(a) <= MoneyOf(a) + CostOverrun(b)
  BY <1>1, <1>2, <1>3, <1>9
<1>12. Balanced(a, b)
  BY <1>10, <1>11 DEF Balanced
<1>13. CostOverrun(b) > 0 => breached'
  <2>1. CostOverrun(b) > 0 => ActualCost(u) > ReservedCost(a.quote)
    BY <1>2, <1>3, <1>9
  <2> QED
    BY <1>7, <2>1, Zenon
<1>14. b.status \notin Live \cup {"unknown_outcome"}
  BY <1>5 DEF Live
<1> QED
  BY <1>5, <1>6, <1>7, <1>12, <1>13, <1>14, RowReplaced

\* An open attempt moves on without an outcome, its reservations held.
LEMMA BudgetMoved ==
    ASSUME ModelInv, BudgetInv, NEW k \in Keys, NEW n \in Numbers, attempts[k][n].status \in Live,
           NEW b \in AttemptRecords, attempts' = [attempts EXCEPT ![k][n] = b],
           b.status \in Live \cup {"unknown_outcome"}, b.settled = attempts[k][n].settled,
           b.quote = attempts[k][n].quote, b.cost \in {"held", "unknown"}, UNCHANGED breached
    PROVE  BudgetInv'
<1> DEFINE a == attempts[k][n]
<1>1. /\ a \in AttemptRecords /\ a.settled = 0
      /\ TokensOf(a) = a.quote.tokens /\ MoneyOf(a) = ReservedCost(a.quote)
      /\ TokenOverrun(a) = 0 /\ CostOverrun(a) = 0
  BY LiveAmounts
<1>2. a.quote.tokens \in Nat /\ ReservedCost(a.quote) \in Nat
  BY <1>1, Amounts
<1>3. TokensOf(b) = a.quote.tokens /\ TokenOverrun(b) = 0
  BY <1>1, <1>2 DEF TokensOf, SettledTokens, HeldTokens, TokenOverrun, Live
<1>4. MoneyOf(b) = ReservedCost(a.quote) /\ CostOverrun(b) = 0
  BY <1>2 DEF MoneyOf, SettledMoney, HeldMoney, CostOverrun
<1>5. Balanced(a, b)
  BY <1>1, <1>2, <1>3, <1>4 DEF Balanced
<1>6. CostOverrun(b) > 0 => breached'
  <2>1. ~(CostOverrun(b) > 0)
    BY <1>4
  <2> QED
    BY <2>1, Zenon
<1>7. breached => breached'
  BY Zenon
<1>8. b.settled = 0
  BY <1>1
<1> QED
  BY <1>5, <1>6, <1>7, <1>8, RowReplaced

LEMMA BudgetRecovered == ASSUME ModelInv, BudgetInv, RecoverModelCalls PROVE BudgetInv'
<1>1. /\ attempts' = [k \in Keys |-> [n \in Numbers |-> Recovered(attempts[k][n])]]
      /\ UNCHANGED breached /\ attempts \in Tables
  BY Types DEF RecoverModelCalls, ModelInv, Tables
<1>2. attempts' \in Tables
  <2>1. \A k \in Keys, n \in Numbers : Recovered(attempts[k][n]) \in AttemptRecords
    BY <1>1, RecoveredRow DEF Tables
  <2> QED
    BY <1>1, <2>1 DEF Tables
<1>3. ASSUME NEW k \in Keys, NEW n \in Numbers
      PROVE  /\ Balanced(attempts[k][n], Recovered(attempts[k][n]))
             /\ Recovered(attempts[k][n]).status \in Live \cup {"unknown_outcome"}
                  => Recovered(attempts[k][n]).settled = 0
             /\ CostOverrun(Recovered(attempts[k][n])) = CostOverrun(attempts[k][n])
  <2> DEFINE a == attempts[k][n]
  <2>1. a \in AttemptRecords /\ RowBudget(a)
    BY <1>1 DEF Tables, BudgetInv
  <2>2. CASE a.status \notin Live
    <3>1. Recovered(a) = a
      BY <2>1, <2>2, RecoveredRow
    <3> QED
      BY <2>1, <3>1, Amounts DEF Balanced, RowBudget
  <2>3. CASE a.status = "prepared"
    <3>1. /\ a.cost = "held" /\ a.settled = 0
          /\ TokensOf(a) = a.quote.tokens /\ MoneyOf(a) = ReservedCost(a.quote)
          /\ TokenOverrun(a) = 0 /\ CostOverrun(a) = 0
      BY <2>3, LiveAmounts DEF Live
    <3>2. PICK b : b = [a EXCEPT !.status = "failed", !.validation = "cancelled_before_dispatch",
                                 !.cost = "released"]
      OBVIOUS
    <3>3. Recovered(a) = b
      BY <2>3, <3>1, <3>2 DEF Recovered
    <3>4. b.status = "failed" /\ b.settled = 0 /\ b.cost = "released" /\ b.quote = a.quote
      BY <2>1, <3>1, <3>2 DEF AttemptRecords
    <3>5. a.quote.tokens \in Nat /\ ReservedCost(a.quote) \in Nat
      BY <2>1, Amounts
    <3>6. TokensOf(b) = 0 /\ TokenOverrun(b) = 0
      BY <3>4, <3>5 DEF TokensOf, SettledTokens, HeldTokens, TokenOverrun, Live
    <3>7. MoneyOf(b) = 0 /\ CostOverrun(b) = 0
      BY <3>4 DEF MoneyOf, SettledMoney, HeldMoney, CostOverrun
    <3> QED
      BY <3>1, <3>3, <3>4, <3>5, <3>6, <3>7 DEF Balanced, Live
  <2>4. CASE a.status = "dispatched"
    <3>1. /\ a.cost = "held" /\ a.settled = 0
          /\ TokensOf(a) = a.quote.tokens /\ MoneyOf(a) = ReservedCost(a.quote)
          /\ TokenOverrun(a) = 0 /\ CostOverrun(a) = 0
      BY <2>4, LiveAmounts DEF Live
    <3>2. PICK b : b = [a EXCEPT !.status = "unknown_outcome", !.cost = "unknown"]
      OBVIOUS
    <3>3. Recovered(a) = b
      BY <2>4, <3>1, <3>2 DEF Recovered
    <3>4. b.status = "unknown_outcome" /\ b.settled = 0 /\ b.cost = "unknown" /\ b.quote = a.quote
      BY <2>1, <3>1, <3>2 DEF AttemptRecords
    <3>5. a.quote.tokens \in Nat /\ ReservedCost(a.quote) \in Nat
      BY <2>1, Amounts
    <3>6. TokensOf(b) = a.quote.tokens /\ TokenOverrun(b) = 0
      BY <3>4, <3>5 DEF TokensOf, SettledTokens, HeldTokens, TokenOverrun, Live
    <3>7. MoneyOf(b) = ReservedCost(a.quote) /\ CostOverrun(b) = 0
      BY <3>4, <3>5 DEF MoneyOf, SettledMoney, HeldMoney, CostOverrun
    <3> QED
      BY <3>1, <3>3, <3>4, <3>5, <3>6, <3>7 DEF Balanced
  <2> QED
    BY <2>2, <2>3, <2>4 DEF Live
<1>4. \A k \in Keys, n \in Numbers : attempts'[k][n] = Recovered(attempts[k][n])
  BY <1>1
<1>5. \A k \in Keys, n \in Numbers : Balanced(attempts[k][n], attempts'[k][n])
  BY <1>3, <1>4
<1>6. Bounded'
  BY <1>1, <1>2, <1>5, BoundedIs, BoundKept DEF BudgetInv
<1>7. ASSUME NEW k \in Keys, NEW n \in Numbers PROVE RowBudget(attempts[k][n])'
  <2>1. RowBudget(attempts[k][n])
    BY DEF BudgetInv
  <2>2. CostOverrun(attempts[k][n])' = CostOverrun(Recovered(attempts[k][n]))
    BY <1>4 DEF CostOverrun
  <2>3. CostOverrun(attempts[k][n])' = CostOverrun(attempts[k][n])
    BY <1>3, <2>2
  <2>4. attempts'[k][n].status \in Live \cup {"unknown_outcome"} => attempts'[k][n].settled = 0
    BY <1>3, <1>4
  <2> QED
    BY <1>1, <2>1, <2>3, <2>4 DEF RowBudget
<1> QED
  BY <1>6, <1>7 DEF BudgetInv

LEMMA BudgetStep == ModelInv /\ BudgetInv /\ [Next]_vars => BudgetInv'
<1> SUFFICES ASSUME ModelInv, BudgetInv, [Next]_vars PROVE BudgetInv'
  OBVIOUS
<1>1. ASSUME NEW c \in Callers, PrepareModelCall(c) PROVE BudgetInv'
  <2>1. PICK k \in Keys, q \in Quotes, n \in Numbers :
            k = caller[c].key /\ q = caller[c].quote /\ n = 1
    BY <1>1, NumbersNat DEF PrepareModelCall, ModelInv, CallersInv, CallerOK
  <2>2. attempts[k][n].status = None
    BY <1>1, <2>1 DEF PrepareModelCall, ModelInv, KeyInv, Recorded
  <2>3. /\ attempts' = [attempts EXCEPT ![k][n] = Prepared(q)]
        /\ TokensAllowed(q) /\ CostAllowed(q) /\ UNCHANGED breached
    BY <1>1, <2>1 DEF PrepareModelCall
  <2> QED
    BY <2>2, <2>3, BudgetOpened
<1>2. ASSUME NEW c \in Callers, NEW k \in Keys, NEW q \in Quotes, RetryModelCall(c, k, q)
      PROVE  BudgetInv'
  <2>1. KeyInv(k) /\ Retriable(k)
    BY <1>2 DEF ModelInv, RetryModelCall
  <2>2. PICK m \in 0..MaxAttempts : \A j \in Numbers : attempts[k][j].status # None <=> j <= m
    BY <2>1 DEF KeyInv, NoGap
  <2>3. m # 0
    <3>1. attempts[k][1].status # None
      BY <2>1 DEF KeyInv, Recorded, Retriable, None
    <3> QED
      BY <2>2, <3>1, NumbersNat, ModelAssumption DEF Numbers
  <2>4. Cardinality(Attempts(k)) = m /\ Max(Attempts(k)) = m
    BY <2>2, <2>3, Numbered
  <2>5. PICK n \in Numbers : n = m + 1
    BY <1>2, <2>4, ModelAssumption DEF RetryModelCall, Numbers
  <2>6. attempts[k][n].status = None
    BY <2>2, <2>5, ModelAssumption
  <2>7. /\ attempts' = [attempts EXCEPT ![k][n] = Prepared(q)]
        /\ TokensAllowed(q) /\ CostAllowed(q) /\ UNCHANGED breached
    BY <1>2, <2>4, <2>5 DEF RetryModelCall
  <2> QED
    BY <2>6, <2>7, BudgetOpened
<1>3. ASSUME NEW c \in Callers, MarkDispatched(c) PROVE BudgetInv'
  <2>1. PICK k \in Keys, n \in Numbers : k = caller[c].key /\ n = caller[c].number
    BY <1>3, SenderWorks DEF MarkDispatched, Sending
  <2>2. PICK b : b = [attempts[k][n] EXCEPT !.status = "dispatched"]
    OBVIOUS
  <2>3. attempts[k][n].status \in Live /\ attempts[k][n] \in AttemptRecords
    BY <1>3, <2>1, AttemptType DEF MarkDispatched, Live, ModelInv
  <2>4. attempts[k][n].cost = "held"
    BY <2>3, LiveAmounts
  <2>5. /\ b \in AttemptRecords /\ b.status = "dispatched" /\ b.settled = attempts[k][n].settled
        /\ b.quote = attempts[k][n].quote /\ b.cost = "held"
    BY <2>2, <2>3, <2>4 DEF AttemptRecords, CallStatuses
  <2>6. attempts' = [attempts EXCEPT ![k][n] = b] /\ UNCHANGED breached
    BY <1>3, <2>1, <2>2 DEF MarkDispatched
  <2>7. b.status \in Live \cup {"unknown_outcome"} /\ b.cost \in {"held", "unknown"}
    BY <2>5 DEF Live
  <2> QED
    BY <2>3, <2>5, <2>6, <2>7, BudgetMoved
<1>4. ASSUME NEW c \in Callers, caller[c].pc = "settle",
             NEW k \in Keys, NEW n \in Numbers, attempts[k][n].status = "dispatched",
             MarkUnknown(k, n)
      PROVE  BudgetInv'
  <2>1. attempts[k][n].status \in Live /\ attempts[k][n] \in AttemptRecords
    BY <1>4, AttemptType DEF Live, ModelInv
  <2>2. attempts[k][n].cost = "held"
    BY <2>1, LiveAmounts
  <2>3. PICK b : b = [attempts[k][n] EXCEPT !.status = "unknown_outcome", !.cost = "unknown"]
    OBVIOUS
  <2>4. /\ b \in AttemptRecords /\ b.status = "unknown_outcome"
        /\ b.settled = attempts[k][n].settled
        /\ b.quote = attempts[k][n].quote /\ b.cost = "unknown"
    BY <2>1, <2>3 DEF AttemptRecords, CallStatuses
  <2>5. attempts' = [attempts EXCEPT ![k][n] = b] /\ UNCHANGED breached
    BY <1>4, <2>2, <2>3 DEF MarkUnknown
  <2>6. b.status \in Live \cup {"unknown_outcome"} /\ b.cost \in {"held", "unknown"}
    BY <2>4
  <2> QED
    BY <2>1, <2>4, <2>5, <2>6, BudgetMoved
<1>5. ASSUME NEW c \in Callers,
             (\E u \in Usages : RecordSuccess(c, u))
               \/ (\E readable \in BOOLEAN : RecordRejected(c, readable))
               \/ RecordKnownFailure(c) \/ RecordUnknown(c)
      PROVE  BudgetInv'
  <2>1. caller[c].pc = "settle"
    BY <1>5 DEF RecordSuccess, RecordRejected, RecordKnownFailure, RecordUnknown
  <2>2. PICK k \in Keys, n \in Numbers :
              /\ k = caller[c].key /\ n = caller[c].number /\ caller[c].quote \in Quotes
              /\ attempts[k][n].status = "dispatched"
              /\ billed[k][n] \in [in : Nat, out : Nat]
    BY <2>1, SettlerAt
  <2>3. attempts[k][n].status \in Live
    BY <2>2 DEF Live
  <2>4. CASE \E u \in Usages : RecordSuccess(c, u)
    <3>1. PICK u \in Usages : RecordSuccess(c, u)
      BY <2>4
    <3>2. Settle(k, n, "succeeded", Validation(k), u)
      BY <2>2, <3>1 DEF RecordSuccess, SettlementRefused, SettlesFrom
    <3>3. PICK v \in Validations : v = Validation(k)
      BY DEF Validation, Validations
    <3>4. u \in [in : Nat, out : Nat]
      BY ModelAssumption
    <3> QED
      BY <2>3, <3>2, <3>3, <3>4, BudgetSettled
  <2>5. CASE \E readable \in BOOLEAN : RecordRejected(c, readable)
    <3>1. PICK readable \in BOOLEAN : RecordRejected(c, readable)
      BY <2>5
    <3>2. PICK u : u = IF readable THEN billed[k][n] ELSE [in |-> caller[c].quote.tokens, out |-> 0]
      OBVIOUS
    <3>3. u \in [in : Nat, out : Nat]
      BY <2>2, <3>2, ModelAssumption
    <3>4. Settle(k, n, "failed", "invalid", u)
      BY <2>2, <3>1, <3>2 DEF RecordRejected, SettlementRefused, SettlesFrom, Live
    <3>5. "invalid" \in Validations
      BY DEF Validations
    <3> QED
      BY <2>3, <3>3, <3>4, <3>5, BudgetSettled
  <2>6. CASE RecordKnownFailure(c)
    <3>1. Settle(k, n, "failed", "invalid", Nothing)
      BY <2>2, <2>6 DEF RecordKnownFailure, SettlementRefused, SettlesFrom, Live
    <3>2. "invalid" \in Validations /\ Nothing \in [in : Nat, out : Nat]
      BY DEF Validations, Nothing
    <3> QED
      BY <2>3, <3>1, <3>2, BudgetSettled
  <2>7. CASE RecordUnknown(c)
    BY <1>4, <2>1, <2>2, <2>7 DEF RecordUnknown
  <2> QED
    BY <1>5, <2>4, <2>5, <2>6, <2>7
<1>6. CASE RecoverModelCalls
  BY <1>6, BudgetRecovered
<1>7. CASE UNCHANGED <<attempts, breached>>
  BY <1>7, BudgetKept
<1> QED
  BY <1>1, <1>2, <1>3, <1>5, <1>6, <1>7
     DEF Next, CallerStep, Replay, PrepareRejected, CreatePlanningCandidate, Submit, Advance, Crash, vars

LEMMA BudgetImplied == ModelInv /\ BudgetInv => BudgetHeld
<1> SUFFICES ASSUME ModelInv, BudgetInv PROVE BudgetHeld
  OBVIOUS
<1>1. attempts \in Tables
  BY Types DEF ModelInv, Tables
<1>2. SumOver(CostOverrun) > 0 => breached
  <2> SUFFICES ASSUME ~breached PROVE SumOver(CostOverrun) = 0
    OBVIOUS
  <2>1. ASSUME NEW kn \in Rows PROVE MoneyExcessIn(attempts)[kn] = 0
    <3>1. /\ attempts[kn[1]][kn[2]] \in AttemptRecords
          /\ RowBudget(attempts[kn[1]][kn[2]])
      BY <1>1, RowsFinite DEF Tables, BudgetInv
    <3>2. CostOverrun(attempts[kn[1]][kn[2]]) = 0
      BY <3>1, Amounts DEF RowBudget
    <3> QED
      BY <3>2 DEF MoneyExcessIn
  <2>2. SumFunction(MoneyExcessIn(attempts)) = 0
    BY <1>1, <2>1, RowsFinite, AmountsIn, SumZero
  <2> QED
    BY <2>2, UsageIsSum
<1> QED
  BY <1>2 DEF BudgetHeld, BudgetInv, Bounded

(* Tokens and money held and settled stay within the budget however many    *)
(* calls are made, retried and lost, but for what providers reported beyond *)
(* their reservation; the first such report closes the cost account         *)
(* (prepare_model_call, _reserve_cost_locked, _settle_cost_locked).         *)
THEOREM ReservationsHoldBudget == Spec => []BudgetHeld
<1>1. ModelInv /\ BudgetInv /\ [Next]_vars => BudgetInv'
  BY BudgetStep
<1> QED
  BY <1>1, BudgetInit, BudgetImplied, ModelInvHolds, PTL DEF Spec
=============================================================================
