--------------------------- MODULE EpicPIDProofs ---------------------------
(***************************************************************************)
(* What a rule that registers a PID can rely on, for payloads of any size, *)
(* any number of calls, and whatever is lost, refused or acted on late.    *)
(***************************************************************************)
EXTENDS EpicPID, SequenceTheorems, TLAPS

-----------------------------------------------------------------------------
(* The inductive invariant.                                                *)

Success == {"200", "201"}

\* The first n positions of a payload.
Upto(n) == [k \in 1..n |-> k]

\* What readCallback has not handed out is what is missing from the body.
Sending ==
    pc = "put" => /\ fileSize = PayloadSize[value]
                  /\ length \in 0..PayloadSize[value]
                  /\ body = Upto(PayloadSize[value] - length)

\* An answer that reports success is one to a request that has been stored.
Answered ==
    pc = "answer" => (reply \in Success => request \in stored /\ Whole(request))

\* idInOut gets its prefix no sooner than the rule is told of success, and
\* after that the rule calls no more.
Prefixed ==
    /\ id \in {0, 1}
    /\ code \in Success <=> id = 1
    /\ id = 1 => /\ pc = "done" /\ status = "ok"
                 /\ \E req \in stored : req.id = 1 /\ req.value = value /\ Whole(req)

\* Requests that the server has, or may still get, are whole and for one PID.
Good(req) == req.id = 1 /\ Whole(req)

Inv ==
    /\ value \in Values
    /\ Sending
    /\ Answered
    /\ Prefixed
    /\ \A req \in stored \cup late \cup handles : Good(req)

-----------------------------------------------------------------------------
\* readCallback continues the payload where it stopped.
LEMMA UptoExtends ==
    ASSUME NEW m \in Nat, NEW n \in Nat
    PROVE  Upto(m) \o [k \in 1..n |-> m + k] = Upto(m + n)
<1> DEFINE s == Upto(m)
           t == [k \in 1..n |-> m + k]
<1>1. s \in Seq(Nat) /\ Len(s) = m /\ \A k \in 1..m : s[k] = k
  BY DEF Upto
<1>2. t \in Seq(Nat) /\ Len(t) = n /\ \A k \in 1..n : t[k] = m + k
  OBVIOUS
<1>3. Upto(m + n) \in Seq(Nat) /\ Len(Upto(m + n)) = m + n /\ \A k \in 1..(m + n) : Upto(m + n)[k] = k
  BY DEF Upto
<1> HIDE DEF s, t
<1>4. s \o t \in Seq(Nat) /\ Len(s \o t) = m + n
  BY <1>1, <1>2
<1>5. ASSUME NEW k \in 1..(m + n) PROVE (s \o t)[k] = k
  <2>1. CASE k <= m
    BY <1>1, <1>2, <2>1
  <2>2. CASE ~(k <= m)
    BY <1>1, <1>2, <2>2
  <2>3. QED
    BY <2>1, <2>2
<1>6. s \o t = [k \in 1..(m + n) |-> (s \o t)[k]]
  <2>1. s \o t \in [1..Len(s \o t) -> Nat]
    BY <1>4, LenProperties
  <2>2. QED
    BY <1>4, <2>1
<1>7. s \o t = [k \in 1..(m + n) |-> k]
  BY <1>5, <1>6, Zenon
<1>8. QED
  BY <1>7 DEF s, t, Upto

\* When the announced number of units has been sent, the body is the payload,
\* and the request is for the PID that no success has been reported for.
LEMMA SentIsWhole ==
    ASSUME Inv, Sent
    PROVE  id = 0 /\ Good(request)
<1>1. pc = "put" /\ Len(body) = fileSize /\ id = 0
  BY DEF Inv, Prefixed, Sent
<1> DEFINE size == PayloadSize[value]
<1>2. size \in Nat /\ fileSize = size /\ length \in 0..size /\ body = Upto(size - length)
  BY <1>1, EpicAssumption DEF Inv, Sending
<1>3. size - length \in Nat /\ Len(Upto(size - length)) = size - length
  BY <1>2 DEF Upto
<1>4. size - length = size
  BY <1>1, <1>2, <1>3
<1>5. body = Upto(PayloadSize[value])
  BY <1>2, <1>4
<1>6. QED
  BY <1>1, <1>5 DEF Good, Whole, request, pid, Upto

\* Storing a good request keeps what the server has good.
LEMMA StoreGood ==
    ASSUME Inv, NEW req, Good(req), Store(req)
    PROVE  /\ \A r \in stored' \cup handles' : Good(r)
           /\ stored \subseteq stored' /\ req \in stored'
BY DEF Inv, Store

-----------------------------------------------------------------------------
(* The steps.                                                              *)

\* Nothing has been asked of the server yet.
LEMMA EpicInit == Init => Inv
<1> SUFFICES ASSUME Init PROVE Inv
  OBVIOUS
<1>1. value \in Values /\ pc = "start" /\ id = 0 /\ code = ""
  BY DEF Init
<1>2. Sending /\ Answered
  BY <1>1 DEF Sending, Answered
<1>3. Prefixed
  <2>1. code \notin Success
    BY <1>1, Zenon DEF Success
  <2>2. id # 1 /\ id \in {0, 1}
    <3>1. id = 0
      BY <1>1, Zenon
    <3>2. QED
      BY ONLY <3>1
  <2>3. QED
    BY <2>1, <2>2 DEF Prefixed
<1>4. stored \cup late \cup handles = {}
  BY DEF Init
<1>5. QED
  BY <1>1, <1>2, <1>3, <1>4 DEF Inv

\* Steps that return or end without an answer, and that leave the server alone.
LEMMA QuietStep ==
    ASSUME Inv, Reject \/ NullInput \/ NotConfigured \/ NullCredential \/ InitFails
    PROVE  Inv'
<1>1. /\ pc = "start" /\ pc' \in {"done", "lost"}
      /\ UNCHANGED <<value, id, serverVars, late>>
      /\ code' = code \/ code' = "0"
  BY DEF Reject, NullInput, NotConfigured, NullCredential, InitFails, Return, Lose,
         Configured, outVars
<1>2. id = 0 /\ code \notin Success
  BY <1>1 DEF Inv, Prefixed
<1>3. Sending' /\ Answered'
  BY <1>1 DEF Sending, Answered
<1>4. Prefixed'
  BY <1>1, <1>2 DEF Prefixed, Success
<1>5. \A req \in (stored \cup late \cup handles)' : Good(req)'
  BY <1>1 DEF Inv, serverVars, Good, Whole
<1>6. QED
  BY <1>1, <1>3, <1>4, <1>5 DEF Inv

\* A new payload is announced whole and nothing of it has been sent.
LEMMA PrepareStep == ASSUME Inv, Prepare PROVE Inv'
<1>1. /\ pc = "start" /\ pc' = "put" /\ length' = PayloadSize[value] /\ fileSize' = length'
      /\ body' = <<>> /\ UNCHANGED <<status, value, outVars, serverVars, late>>
  BY DEF Prepare, Configured
<1>2. value \in Values /\ PayloadSize[value] \in Nat
  BY EpicAssumption DEF Inv
<1>3. Sending'
  <2>1. PayloadSize[value] - PayloadSize[value] = 0 /\ Upto(0) = <<>>
    BY <1>2 DEF Upto
  <2>2. QED
    BY <1>1, <1>2, <2>1 DEF Sending, Upto
<1>4. Answered' /\ Prefixed'
  BY <1>1 DEF Inv, Answered, Prefixed, outVars
<1>5. \A req \in (stored \cup late \cup handles)' : Good(req)'
  BY <1>1 DEF Inv, serverVars, Good, Whole
<1>6. QED
  BY <1>1, <1>2, <1>3, <1>4, <1>5 DEF Inv

\* readCallback hands out the next part, whatever room curl has.
LEMMA ReadStep == ASSUME Inv, readCallback PROVE Inv'
<1> DEFINE size == PayloadSize[value]
           from == size - length
<1>1. /\ pc = "put" /\ pc' = pc
      /\ UNCHANGED <<status, value, outVars, fileSize, serverVars, late>>
  BY DEF readCallback
<1>2. PICK room \in 1..MaxRead :
         /\ body' = body \o [k \in 1..AtMost(room, length) |-> from + k]
         /\ length' = length - AtMost(room, length)
  BY DEF readCallback
<1> DEFINE len == AtMost(room, length)
<1>3. /\ value \in Values /\ size \in Nat /\ fileSize = size
      /\ length \in 0..size /\ body = Upto(from)
  BY <1>1, EpicAssumption DEF Inv, Sending
<1>4. len \in 0..length
  <2> HIDE DEF size
  <2>1. room \in Nat /\ length \in Nat
    BY <1>2, <1>3
  <2>2. len \in {room, length} /\ len <= length
    BY <2>1 DEF AtMost
  <2>3. QED
    BY <2>1, <2>2
<1> HIDE DEF len
<1>5. from \in Nat /\ len \in Nat /\ from + len = size - (length - len)
  BY <1>3, <1>4
<1>6. body' = Upto(from + len) /\ length' = length - len
  BY <1>2, <1>3, <1>5, UptoExtends DEF len
<1>7. Sending'
  <2>1. length' \in 0..size /\ body' = Upto(size - length')
    BY <1>3, <1>4, <1>5, <1>6
  <2>2. QED
    BY <1>1, <1>3, <2>1 DEF Sending, Upto
<1>8. Answered' /\ Prefixed'
  BY <1>1 DEF Inv, Answered, Prefixed, outVars
<1>9. \A req \in (stored \cup late \cup handles)' : Good(req)'
  BY <1>1 DEF Inv, serverVars, Good, Whole
<1>10. QED
  BY <1>1, <1>3, <1>7, <1>8, <1>9 DEF Inv

\* The server acts on a request that has been sent in full, or refuses it.
LEMMA ServerStep == ASSUME Inv, ServerStores \/ ServerRefuses PROVE Inv'
<1>1. /\ Sent /\ pc = "put" /\ pc' = "answer"
      /\ UNCHANGED <<status, value, outVars, body, late>>
  BY DEF ServerStores, ServerRefuses, Sent
<1>2. id = 0 /\ Good(request)
  BY <1>1, SentIsWhole
<1>3. request' = request
  BY <1>1 DEF request, pid, outVars
<1>4. Sending' /\ Prefixed'
  BY <1>1, <1>2 DEF Inv, Sending, Prefixed, outVars
<1>5. CASE ServerStores
  <2>1. /\ \A r \in stored' \cup handles' : Good(r)
        /\ request \in stored'
    BY <1>2, <1>5, StoreGood DEF ServerStores
  <2>2. Answered'
    BY <1>2, <1>3, <2>1 DEF Answered, Good, Whole
  <2>3. \A req \in (stored \cup late \cup handles)' : Good(req)'
    BY <1>1, <2>1 DEF Inv, Good, Whole
  <2>4. QED
    BY <1>1, <1>4, <2>2, <2>3 DEF Inv
<1>6. CASE ServerRefuses
  <2>1. reply' \notin Success /\ UNCHANGED serverVars
    BY <1>6, EpicAssumption DEF ServerRefuses, Success
  <2>2. Answered'
    BY <2>1 DEF Answered, Success
  <2>3. \A req \in (stored \cup late \cup handles)' : Good(req)'
    BY <1>1, <2>1 DEF Inv, serverVars, Good, Whole
  <2>4. QED
    BY <1>1, <1>4, <2>2, <2>3 DEF Inv
<1>7. QED
  BY <1>5, <1>6

\* A request the client gave up was whole when it did so.
LEMMA LateStep == ASSUME Inv, ServerStoresLate PROVE Inv'
<1>1. PICK req \in late : Store(req) /\ late' = late \ {req}
  BY DEF ServerStoresLate
<1>2. UNCHANGED <<pc, status, value, outVars, curlVars>>
  BY DEF ServerStoresLate
<1>3. Good(req)
  BY DEF Inv
<1>4. /\ \A r \in stored' \cup handles' : Good(r)
      /\ stored \subseteq stored'
  BY <1>1, <1>3, StoreGood
<1>5. Sending' /\ Prefixed'
  BY <1>2, <1>4 DEF Inv, Sending, Prefixed, outVars, curlVars, Whole, Upto
<1>6. Answered'
  BY <1>2, <1>4 DEF Inv, Answered, outVars, curlVars, request, pid, Whole
<1>7. \A r \in (stored \cup late \cup handles)' : Good(r)'
  BY <1>1, <1>4 DEF Inv, Good, Whole
<1>8. QED
  BY <1>2, <1>5, <1>6, <1>7 DEF Inv

\* What the client gives up was sent whole, or the server never acts on it.
LEMMA PerformFailsStep == ASSUME Inv, PerformFails PROVE Inv'
<1>1. /\ pc \in {"put", "answer"} /\ pc' = "done"
      /\ UNCHANGED <<value, outVars, serverVars>>
      /\ late' \in IF Sent THEN {late, late \cup {request}} ELSE {late}
  BY DEF PerformFails, Return
<1>2. \A req \in late' : Good(req)
  BY <1>1, SentIsWhole DEF Inv
<1>3. Sending' /\ Answered' /\ Prefixed'
  BY <1>1 DEF Inv, Sending, Answered, Prefixed, outVars
<1>4. \A req \in (stored \cup late \cup handles)' : Good(req)'
  BY <1>1, <1>2 DEF Inv, serverVars, Good, Whole
<1>5. QED
  BY <1>1, <1>3, <1>4 DEF Inv

\* The prefix is added for a request that has been stored.
LEMMA AnswerStep == ASSUME Inv, Answer PROVE Inv'
<1>1. /\ pc = "answer" /\ pc' = "done" /\ status' = "ok" /\ code' = reply
      /\ id' = IF reply \in Success THEN pid ELSE id
      /\ UNCHANGED <<value, curlVars, serverVars, late>>
  BY DEF Answer, Return, Success
<1>2. id = 0 /\ pid = 1
  BY <1>1 DEF Inv, Prefixed, pid
<1>3. Sending' /\ Answered'
  BY <1>1 DEF Sending, Answered
<1>4. Prefixed'
  <2>1. CASE reply \in Success
    <3>1. request \in stored /\ Whole(request) /\ request.id = 1 /\ request.value = value
      BY <1>1, <1>2, <2>1 DEF Inv, Answered, request
    <3>2. \E req \in stored' : req.id = 1 /\ req.value = value' /\ Whole(req)
      BY <1>1, <3>1 DEF serverVars
    <3>3. QED
      BY <1>1, <1>2, <2>1, <3>2 DEF Prefixed, Whole
  <2>2. CASE reply \notin Success
    BY <1>1, <1>2, <2>2 DEF Prefixed
  <2>3. QED
    BY <2>1, <2>2
<1>5. \A req \in (stored \cup late \cup handles)' : Good(req)'
  BY <1>1 DEF Inv, serverVars, Good, Whole
<1>6. QED
  BY <1>1, <1>3, <1>4, <1>5 DEF Inv

\* The rule calls again with idInOut as it was.
LEMMA CallAgainStep == ASSUME Inv, CallAgain PROVE Inv'
<1>1. /\ pc = "done" /\ ~Reported /\ pc' = "start" /\ value' \in Values
      /\ UNCHANGED <<outVars, serverVars, late>>
  BY DEF CallAgain
<1>2. id = 0
  BY <1>1 DEF Inv, Prefixed, Reported, Success
<1>3. Sending' /\ Answered' /\ Prefixed'
  BY <1>1, <1>2 DEF Inv, Sending, Answered, Prefixed, outVars
<1>4. \A req \in (stored \cup late \cup handles)' : Good(req)'
  BY <1>1 DEF Inv, serverVars, Good, Whole
<1>5. QED
  BY <1>1, <1>3, <1>4 DEF Inv

\* Nothing changes.
LEMMA StutterStep == ASSUME Inv, UNCHANGED epicVars PROVE Inv'
BY DEF Inv, Sending, Answered, Prefixed, Good, Whole, Upto, request, pid,
       epicVars, outVars, curlVars, serverVars

\* Every step keeps the invariant.
LEMMA EpicNext == Inv /\ [Next]_epicVars => Inv'
BY QuietStep, PrepareStep, ReadStep, ServerStep, LateStep, PerformFailsStep,
   AnswerStep, CallAgainStep, StutterStep DEF Next, msiRegisterEpicPID, Idle

-----------------------------------------------------------------------------
(* The theorems.                                                           *)

\* The invariant holds throughout, whatever the network and the server do.
THEOREM EpicInvariance == Spec => []Inv
BY EpicInit, EpicNext, PTL DEF Spec

\* A rule that is told of success by this call has its URL registered, whole,
\* under the identifier in idInOut.
THEOREM ReportIsTrue == Spec => []ReportedIsRegistered
<1>1. Inv => ReportedIsRegistered
  BY DEF Inv, Prefixed, Success, Reported, ReportedIsRegistered
<1>2. QED
  BY <1>1, EpicInvariance, PTL

\* However often the rule calls, there is one handle at most.
THEOREM AtMostOneHandle == Spec => []OneHandle
<1>1. Inv => OneHandle
  BY DEF Inv, Good, OneHandle
<1>2. QED
  BY <1>1, EpicInvariance, PTL

\* The server never stores a payload that is cut off or put together from two.
THEOREM StoredWhole == Spec => []BodyWhole
<1>1. Inv => BodyWhole
  BY DEF Inv, Good, BodyWhole
<1>2. QED
  BY <1>1, EpicInvariance, PTL
=============================================================================
