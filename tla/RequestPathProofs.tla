------------------------- MODULE RequestPathProofs --------------------------
(***************************************************************************)
(* Theorems about what every API request meets: the idempotency keys and   *)
(* the rate limiter, for any number of requests, levels and limits.        *)
(***************************************************************************)
EXTENDS Integers, RequestGate, RateLimiter, SequenceTheorems, FiniteSetTheorems, TLAPS

-----------------------------------------------------------------------------
(***************************************************************************)
(* Idempotency keys                                                        *)
(***************************************************************************)

ReplyStatuses == {NoReply, "2xx", "4xx", "5xx"}
RequestRows == [pc : {"idle", "lookup", "claim", "lost", "serve", "settle"}, writable : BOOLEAN,
                claim : Nat, committed : BOOLEAN, status : ReplyStatuses]
IdemRows == [id : Nat, status : {"in_progress", "completed"}, reply : ReplyStatuses, age : 0..2]

GateTyped ==
    /\ requests \in [Connections -> RequestRows]
    /\ lastAnswer \in ReplyStatuses
    /\ idem \in IdemRows \cup {NoRecord} /\ claims \in Nat
    /\ writable \in BOOLEAN
    /\ effects \in Nat /\ excuses \in Nat

\* A request that may still commit the operation: it is in the handler, or has
\* left it without a commit and still owns its claim.
Holds(r) == r.pc = "serve" \/ (r.pc = "settle" /\ ~r.committed)
Held(r) == IF Holds(r) THEN 1 ELSE 0
Free(row) == IF row = NoRecord THEN 1 ELSE 0
Holders(rs) == {a \in Connections : Holds(rs[a])}

\* The right to run is a token that is in the free key, in a holder, or spent;
\* only an excuse mints another.
Tokens(n, rs, row) == n + Cardinality(Holders(rs)) + Free(row)
OneToken == Tokens(effects, requests, idem) <= 1 + excuses

\* Wherever a success is written down, the operation took effect.
SuccessIsReal ==
    /\ lastAnswer = "2xx" => effects > 0
    /\ idem # NoRecord /\ idem.reply = "2xx" => effects > 0
    /\ \A a \in Connections : requests[a].status = "2xx" => effects > 0

GateInv == GateTyped /\ OneToken /\ SuccessIsReal

\* The token of a request and of a free key are counted as 0 or 1.
LEMMA TokenTypes ==
    /\ \A r : Held(r) \in {0, 1} /\ (Holds(r) <=> Held(r) = 1)
    /\ \A row : Free(row) \in {0, 1} /\ (row = NoRecord <=> Free(row) = 1)
BY DEF Held, Free

\* Replacing the state of one request counts it out and in again.
LEMMA HoldersOfOne ==
    ASSUME NEW rs \in [Connections -> RequestRows], NEW a \in Connections, NEW r \in RequestRows
    PROVE  /\ Cardinality(Holders(rs)) \in Nat
           /\ Cardinality(Holders([rs EXCEPT ![a] = r])) \in Nat
           /\ Cardinality(Holders([rs EXCEPT ![a] = r])) =
                Cardinality(Holders(rs)) + Held(r) - Held(rs[a])
<1> DEFINE H == Holders(rs)
           I == Holders([rs EXCEPT ![a] = r])
<1>1. IsFiniteSet(H) /\ IsFiniteSet(I)
  BY GateAssumption, FS_Subset DEF Holders
<1>2. a \in H <=> Holds(rs[a]) BY DEF Holders
<1>3. I = IF Holds(r) THEN H \cup {a} ELSE H \ {a} BY DEF Holders
<1> HIDE DEF H, I
<1>4. Cardinality(H) \in Nat /\ Cardinality(I) \in Nat BY <1>1, FS_CardinalityType
<1>5. /\ Cardinality(H \cup {a}) = IF a \in H THEN Cardinality(H) ELSE Cardinality(H) + 1
      /\ Cardinality(H \ {a}) = IF a \in H THEN Cardinality(H) - 1 ELSE Cardinality(H)
  BY <1>1, FS_AddElement, FS_RemoveElement
<1>6. Cardinality(I) = Cardinality(H) + Held(r) - Held(rs[a])
  <2>1. CASE Holds(r) BY TokenTypes, <1>2, <1>3, <1>4, <1>5, <2>1
  <2>2. CASE ~Holds(r) BY TokenTypes, <1>2, <1>3, <1>4, <1>5, <2>2
  <2> QED BY <2>1, <2>2
<1> QED BY <1>4, <1>6 DEF H, I

\* What one step of one request must show: its new state r, and that what it
\* adds to the effects, the holders and the free key it pays for in excuses.
LEMMA OneRequestKeepsInv ==
    ASSUME GateInv, NEW a \in Connections, NEW r \in RequestRows,
           requests' = [requests EXCEPT ![a] = r],
           lastAnswer' \in ReplyStatuses, idem' \in IdemRows \cup {NoRecord}, claims' \in Nat,
           writable' = writable, effects' \in Nat, excuses' \in Nat, effects' >= effects,
           effects' + Held(r) + Free(idem') + excuses
             <= effects + Held(requests[a]) + Free(idem) + excuses',
           lastAnswer' = "2xx" => effects' > 0,
           idem' # NoRecord /\ idem'.reply = "2xx" => effects' > 0,
           r.status = "2xx" => effects' > 0
    PROVE  GateInv'
<1>1. GateTyped' BY DEF GateInv, GateTyped
<1>2. OneToken'
  <2> DEFINE n == Cardinality(Holders(requests))
             m == Cardinality(Holders(requests'))
  <2>1. /\ n \in Nat /\ m \in Nat
        /\ m = n + Held(r) - Held(requests[a])
    BY HoldersOfOne DEF GateInv, GateTyped
  <2>2. effects + n + Free(idem) <= 1 + excuses
    BY DEF GateInv, OneToken, Tokens
  <2> HIDE DEF n, m
  <2>3. effects' + m + Free(idem') <= 1 + excuses'
    BY TokenTypes, <2>1, <2>2 DEF GateInv, GateTyped
  <2> QED BY <2>3 DEF OneToken, Tokens, n, m
<1>3. SuccessIsReal'
  <2>1. ASSUME NEW b \in Connections, requests'[b].status = "2xx" PROVE effects' > 0
    BY <2>1 DEF GateInv, GateTyped, SuccessIsReal
  <2> QED BY <2>1 DEF SuccessIsReal
<1> QED BY <1>1, <1>2, <1>3 DEF GateInv

\* A connection without a request holds no claim and saw no success.
LEMMA DisconnectedRow == Disconnected \in RequestRows /\ ~Holds(Disconnected) /\ Disconnected.status # "2xx"
BY DEF Disconnected, RequestRows, ReplyStatuses, NoReply, Holds

\* A request is answered: it gives up what it held.
LEMMA AnswerKeepsInv ==
    ASSUME GateInv, NEW a \in Connections, NEW reply \in ReplyStatuses, Answer(a, reply),
           idem' \in IdemRows \cup {NoRecord}, claims' \in Nat,
           writable' = writable, effects' \in Nat, excuses' \in Nat, effects' >= effects,
           effects' + Free(idem') + excuses
             <= effects + Held(requests[a]) + Free(idem) + excuses',
           reply = "2xx" => effects' > 0,
           idem' # NoRecord /\ idem'.reply = "2xx" => effects' > 0
    PROVE  GateInv'
<1>1. requests' = [requests EXCEPT ![a] = Disconnected] /\ lastAnswer' = reply BY DEF Answer
<1>2. effects \in Nat /\ excuses \in Nat BY DEF GateInv, GateTyped
<1>3. effects' + Held(Disconnected) + Free(idem') + excuses
        <= effects + Held(requests[a]) + Free(idem) + excuses'
  BY TokenTypes, <1>2, DisconnectedRow
<1> QED BY <1>1, <1>3, DisconnectedRow, OneRequestKeepsInv

\* The steps that leave the record and the history alone and answer.
LEMMA AnswerOnly ==
    ASSUME GateInv, NEW a \in Connections, NEW reply \in ReplyStatuses, Answer(a, reply),
           UNCHANGED <<recordState, writable, historyState>>,
           reply = "2xx" => effects > 0
    PROVE  GateInv'
<1>1. /\ idem' = idem /\ claims' = claims /\ effects' = effects /\ excuses' = excuses
      /\ writable' = writable
  BY DEF recordState, historyState
<1>2. effects \in Nat /\ excuses \in Nat /\ claims \in Nat /\ idem \in IdemRows \cup {NoRecord}
  BY DEF GateInv, GateTyped
<1>3. idem # NoRecord /\ idem.reply = "2xx" => effects > 0 BY DEF GateInv, SuccessIsReal
<1>4. effects' + Free(idem') + excuses
        <= effects + Held(requests[a]) + Free(idem) + excuses'
  BY TokenTypes, <1>1, <1>2
<1> QED BY <1>1, <1>2, <1>3, <1>4, AnswerKeepsInv

\* ... and the ones that move on inside the middleware.
LEMMA ContinueOnly ==
    ASSUME GateInv, NEW a \in Connections, NEW r \in RequestRows, Continue(a, r),
           Holds(r) => Holds(requests[a]),
           UNCHANGED <<recordState, writable, historyState>>,
           r.status = "2xx" => effects > 0
    PROVE  GateInv'
<1>1. /\ idem' = idem /\ claims' = claims /\ effects' = effects /\ excuses' = excuses
      /\ writable' = writable /\ lastAnswer' = lastAnswer
      /\ requests' = [requests EXCEPT ![a] = r]
  BY DEF recordState, historyState, Continue
<1>2. /\ effects \in Nat /\ excuses \in Nat /\ claims \in Nat /\ idem \in IdemRows \cup {NoRecord}
      /\ lastAnswer \in ReplyStatuses
  BY DEF GateInv, GateTyped
<1>3. /\ idem # NoRecord /\ idem.reply = "2xx" => effects > 0
      /\ lastAnswer = "2xx" => effects > 0
  BY DEF GateInv, SuccessIsReal
<1>4. effects' + Held(r) + Free(idem') + excuses
        <= effects + Held(requests[a]) + Free(idem) + excuses'
  BY TokenTypes, <1>1, <1>2
<1>5. /\ lastAnswer' \in ReplyStatuses /\ idem' \in IdemRows \cup {NoRecord} /\ claims' \in Nat
      /\ effects' \in Nat /\ excuses' \in Nat /\ effects' >= effects
      /\ (lastAnswer' = "2xx" => effects' > 0)
      /\ (idem' # NoRecord /\ idem'.reply = "2xx" => effects' > 0)
      /\ (r.status = "2xx" => effects' > 0)
  BY <1>1, <1>2, <1>3
<1> QED BY <1>1, <1>4, <1>5, OneRequestKeepsInv

\* What the record says of itself.
LEMMA RecordRow ==
    ASSUME GateInv, idem # NoRecord
    PROVE  idem \in IdemRows /\ idem.reply \in ReplyStatuses /\ (idem.reply = "2xx" => effects > 0)
BY DEF GateInv, GateTyped, IdemRows, SuccessIsReal

\* Before the record, and looking it up.
LEMMA LookupKeepsInv ==
    ASSUME GateInv, NEW a \in Connections,
           \/ Unauthenticated(a) \/ tenantGuard(a) \/ environmentHeaderMiddleware(a)
           \/ RateLimited(a) \/ ScimWriteGuard(a) \/ Authenticate(a) \/ FailOpen(a)
           \/ getIdempotencyKey(a) \/ replayIdempotency(a) \/ Stop(a)
    PROVE  GateInv'
<1>0. requests[a] \in RequestRows /\ writable \in BOOLEAN /\ "4xx" \in ReplyStatuses /\ NoReply \in ReplyStatuses
  BY DEF GateInv, GateTyped, ReplyStatuses
<1>1. CASE \/ Unauthenticated(a) \/ tenantGuard(a) \/ environmentHeaderMiddleware(a)
           \/ RateLimited(a) \/ ScimWriteGuard(a)
  <2>1. Turned(a)
    BY <1>1 DEF Unauthenticated, tenantGuard, environmentHeaderMiddleware, RateLimited, ScimWriteGuard
  <2>2. Answer(a, "4xx") /\ UNCHANGED <<recordState, writable, historyState>>
    BY <2>1 DEF Turned, Arrive
  <2> QED BY <1>0, <2>2, AnswerOnly
<1>2. CASE Authenticate(a)
  <2> DEFINE r == [requests[a] EXCEPT !.pc = "lookup", !.writable = writable]
  <2>1. r \in RequestRows /\ ~Holds(r) BY <1>0 DEF RequestRows, Holds
  <2>2. r.status = "2xx" => effects > 0 BY <1>0 DEF RequestRows, GateInv, SuccessIsReal
  <2>3. Continue(a, r) /\ UNCHANGED <<recordState, writable, historyState>>
    BY <1>2 DEF Authenticate, Arrive
  <2> HIDE DEF r
  <2> QED BY <2>1, <2>2, <2>3, ContinueOnly
<1>3. CASE FailOpen(a)
  <2> DEFINE r == [requests[a] EXCEPT !.pc = "serve", !.claim = 0]
  <2>1. r \in RequestRows BY <1>0 DEF RequestRows
  <2>2. r.status = "2xx" => effects > 0 BY <1>0 DEF RequestRows, GateInv, SuccessIsReal
  <2>3. /\ requests' = [requests EXCEPT ![a] = r] /\ lastAnswer' = lastAnswer
        /\ idem' = idem /\ claims' = claims /\ writable' = writable
        /\ effects' = effects /\ excuses' = excuses + 1
    BY <1>3 DEF FailOpen, Continue, recordState, worldState
  <2>4. ~Holds(requests[a]) BY <1>3 DEF FailOpen, Holds
  <2>5. /\ effects \in Nat /\ excuses \in Nat /\ claims \in Nat /\ idem \in IdemRows \cup {NoRecord}
        /\ lastAnswer \in ReplyStatuses
        /\ idem # NoRecord /\ idem.reply = "2xx" => effects > 0
        /\ lastAnswer = "2xx" => effects > 0
    BY DEF GateInv, GateTyped, SuccessIsReal
  <2> HIDE DEF r
  <2>6. effects' + Held(r) + Free(idem') + excuses
          <= effects + Held(requests[a]) + Free(idem) + excuses'
    BY TokenTypes, <2>3, <2>5
  <2>7. /\ lastAnswer' \in ReplyStatuses /\ idem' \in IdemRows \cup {NoRecord} /\ claims' \in Nat
        /\ effects' \in Nat /\ excuses' \in Nat /\ effects' >= effects
        /\ (lastAnswer' = "2xx" => effects' > 0)
        /\ (idem' # NoRecord /\ idem'.reply = "2xx" => effects' > 0)
        /\ (r.status = "2xx" => effects' > 0)
    BY <2>2, <2>3, <2>5
  <2> QED BY <2>1, <2>3, <2>6, <2>7, OneRequestKeepsInv
<1>4. CASE getIdempotencyKey(a)
  <2>1. UNCHANGED <<recordState, writable, historyState>> BY <1>4 DEF getIdempotencyKey, worldState
  <2>2. CASE idem = NoRecord
    <3> DEFINE r == [requests[a] EXCEPT !.pc = "claim"]
    <3>1. r \in RequestRows /\ ~Holds(r) BY <1>0 DEF RequestRows, Holds
    <3>2. r.status = "2xx" => effects > 0 BY <1>0 DEF RequestRows, GateInv, SuccessIsReal
    <3>3. Continue(a, r)
      BY <1>4, <2>2 DEF getIdempotencyKey, GetIdempotencyKey, ProceedTo, NoRecord
    <3> HIDE DEF r
    <3> QED BY <2>1, <3>1, <3>2, <3>3, ContinueOnly
  <2>3. CASE idem # NoRecord
    <3>1. Answer(a, idem.reply) \/ Answer(a, "4xx")
      BY <1>4, <2>3 DEF getIdempotencyKey, GetIdempotencyKey
    <3> QED BY <1>0, <2>1, <2>3, <3>1, RecordRow, AnswerOnly
  <2> QED BY <2>2, <2>3
<1>5. CASE replayIdempotency(a)
  <2>1. UNCHANGED <<recordState, writable, historyState>> BY <1>5 DEF replayIdempotency, worldState
  <2>2. \/ idem # NoRecord /\ Answer(a, idem.reply)
        \/ Answer(a, "4xx")
    BY <1>5 DEF replayIdempotency, GetIdempotencyKey, NoRecord
  <2> QED BY <1>0, <2>1, <2>2, RecordRow, AnswerOnly
<1>6. CASE Stop(a)
  <2>1. Answer(a, NoReply) /\ UNCHANGED <<recordState, writable, historyState>>
    BY <1>6 DEF Stop, worldState
  <2> QED BY <1>0, <2>1, AnswerOnly DEF NoReply
<1> QED BY <1>1, <1>2, <1>3, <1>4, <1>5, <1>6

\* The claim is the token changing hands: from the free key to its winner.
LEMMA ClaimKeepsInv ==
    ASSUME GateInv, NEW a \in Connections, claimIdempotencyKey(a)
    PROVE  GateInv'
<1>0. /\ requests[a] \in RequestRows /\ effects \in Nat /\ excuses \in Nat /\ claims \in Nat
      /\ lastAnswer \in ReplyStatuses /\ (lastAnswer = "2xx" => effects > 0)
      /\ (requests[a].status = "2xx" => effects > 0)
  BY DEF GateInv, GateTyped, SuccessIsReal
<1>1. /\ requests[a].pc = "claim" /\ InsertIdempotencyKey(a) /\ writable' = writable
      /\ effects' = effects /\ excuses' = excuses
  BY DEF claimIdempotencyKey, worldState, historyState
<1>2. CASE idem = NoRecord
  <2> DEFINE r == [requests[a] EXCEPT !.claim = claims + 1, !.pc = "serve"]
             row == [id |-> claims + 1, status |-> "in_progress", reply |-> NoReply, age |-> 0]
  <2>0. claims + 1 \in Nat BY <1>0
  <2>1. r \in RequestRows /\ (r.status = "2xx" => effects > 0) BY <1>0, <2>0 DEF RequestRows
  <2>2. row \in IdemRows /\ row # NoRecord /\ row.reply # "2xx"
    BY <1>0 DEF IdemRows, ReplyStatuses, NoReply, NoRecord
  <2>3. /\ requests' = [requests EXCEPT ![a] = r] /\ lastAnswer' = lastAnswer
        /\ idem' = row /\ claims' = claims + 1
    BY <1>1, <1>2 DEF InsertIdempotencyKey, Continue
  <2> HIDE DEF r, row
  <2>4. effects' + Held(r) + Free(idem') + excuses
          <= effects + Held(requests[a]) + Free(idem) + excuses'
    BY TokenTypes, <1>0, <1>1, <1>2, <2>2, <2>3
  <2>5. /\ lastAnswer' \in ReplyStatuses /\ idem' \in IdemRows \cup {NoRecord} /\ claims' \in Nat
        /\ effects' \in Nat /\ excuses' \in Nat /\ effects' >= effects
        /\ (lastAnswer' = "2xx" => effects' > 0)
        /\ (idem' # NoRecord /\ idem'.reply = "2xx" => effects' > 0)
        /\ (r.status = "2xx" => effects' > 0)
    BY <1>0, <1>1, <2>1, <2>2, <2>3
  <2> QED BY <1>1, <2>1, <2>3, <2>4, <2>5, OneRequestKeepsInv
<1>3. CASE idem # NoRecord
  <2> DEFINE r == [requests[a] EXCEPT !.pc = "lost"]
  <2>1. r \in RequestRows /\ ~Holds(r) /\ (r.status = "2xx" => effects > 0)
    BY <1>0 DEF RequestRows, Holds
  <2>2. Continue(a, r) /\ UNCHANGED <<recordState, writable, historyState>>
    BY <1>1, <1>3 DEF InsertIdempotencyKey, ProceedTo, historyState
  <2> HIDE DEF r
  <2> QED BY <2>1, <2>2, ContinueOnly
<1> QED BY <1>2, <1>3

\* The handler spends the token when it commits.
LEMMA HandlerKeepsInv ==
    ASSUME GateInv, NEW a \in Connections,
           \/ lifecycleWriteGuard(a) \/ Refuse(a) \/ ServeHTTP(a) \/ FailHandler(a) \/ recoverMiddleware(a)
    PROVE  GateInv'
<1>0. /\ requests[a] \in RequestRows /\ effects \in Nat /\ excuses \in Nat /\ claims \in Nat
      /\ lastAnswer \in ReplyStatuses /\ (lastAnswer = "2xx" => effects > 0)
      /\ idem \in IdemRows \cup {NoRecord} /\ (idem # NoRecord /\ idem.reply = "2xx" => effects > 0)
  BY DEF GateInv, GateTyped, SuccessIsReal
<1>1. /\ requests[a].pc = "serve" /\ idem' = idem /\ claims' = claims /\ writable' = writable
      /\ excuses' = excuses
  BY DEF lifecycleWriteGuard, Refuse, ServeHTTP, FailHandler, recoverMiddleware, Served,
         recordState, worldState, historyState
<1>2. Holds(requests[a]) BY <1>1 DEF Holds
<1>3. CASE recoverMiddleware(a)
  <2>1. Answer(a, "5xx") /\ effects' \in {effects, effects + 1}
    BY <1>0, <1>3 DEF recoverMiddleware
  <2>2. effects' + Free(idem') + excuses
          <= effects + Held(requests[a]) + Free(idem) + excuses'
    BY TokenTypes, <1>0, <1>1, <1>2, <2>1
  <2>3. effects' \in Nat /\ effects' >= effects /\ (effects > 0 => effects' > 0) BY <1>0, <2>1
  <2> QED BY <1>0, <1>1, <2>1, <2>2, <2>3, AnswerKeepsInv DEF ReplyStatuses
<1>4. CASE lifecycleWriteGuard(a) \/ Refuse(a) \/ ServeHTTP(a) \/ FailHandler(a)
  <2>1. PICK reply \in {"2xx", "4xx", "5xx"}, committed \in BOOLEAN :
            /\ Reply(a, reply, committed)
            /\ effects' = effects + (IF committed THEN 1 ELSE 0)
            /\ reply = "2xx" => committed
    <3>1. CASE ServeHTTP(a)
      <4>1. PICK reply \in {"2xx", "5xx"} : Reply(a, reply, TRUE) BY <3>1 DEF ServeHTTP
      <4> QED BY <3>1, <4>1 DEF ServeHTTP
    <3>2. CASE lifecycleWriteGuard(a) \/ Refuse(a)
      <4>1. Reply(a, "4xx", FALSE) /\ effects' = effects
        BY <3>2, Zenon DEF lifecycleWriteGuard, Refuse, historyState
      <4>2. effects' = effects + 0 BY <1>0, <4>1
      <4> QED BY <4>1, <4>2
    <3>3. CASE FailHandler(a)
      <4>1. Reply(a, "5xx", FALSE) /\ effects' = effects
        BY <3>3, Zenon DEF FailHandler, historyState
      <4>2. effects' = effects + 0 BY <1>0, <4>1
      <4> QED BY <4>1, <4>2
    <3> QED BY <1>4, <3>1, <3>2, <3>3
  <2>2. /\ effects' \in Nat /\ effects' >= effects /\ (effects > 0 => effects' > 0)
        /\ (reply = "2xx" => effects' > 0)
    BY <1>0, <2>1
  <2>3. CASE requests[a].claim = 0
    <3>1. Answer(a, reply) BY <2>1, <2>3 DEF Reply
    <3>2. effects' + Free(idem') + excuses
            <= effects + Held(requests[a]) + Free(idem) + excuses'
      BY TokenTypes, <1>0, <1>1, <1>2, <2>1
    <3> QED BY <1>0, <1>1, <2>2, <3>1, <3>2, AnswerKeepsInv DEF ReplyStatuses
  <2>4. CASE requests[a].claim # 0
    <3> DEFINE r == [requests[a] EXCEPT !.pc = "settle", !.status = reply, !.committed = committed]
    <3>1. r \in RequestRows /\ r.status = reply /\ (Holds(r) <=> ~committed)
      BY <1>0 DEF RequestRows, ReplyStatuses, Holds
    <3>2. requests' = [requests EXCEPT ![a] = r] /\ lastAnswer' = lastAnswer
      BY <2>1, <2>4 DEF Reply, Continue
    <3> HIDE DEF r
    <3>3. effects' + Held(r) + Free(idem') + excuses
            <= effects + Held(requests[a]) + Free(idem) + excuses'
      BY TokenTypes, <1>0, <1>1, <1>2, <2>1, <3>1
    <3> QED BY <1>0, <1>1, <2>2, <3>1, <3>2, <3>3, OneRequestKeepsInv
  <2> QED BY <2>3, <2>4
<1> QED BY <1>3, <1>4

\* Settling gives an unspent token back to the key, or pays for a spent one.
LEMMA SettleKeepsInv ==
    ASSUME GateInv, NEW a \in Connections, idempotencyMiddleware(a)
    PROVE  GateInv'
<1>0. /\ requests[a] \in RequestRows /\ effects \in Nat /\ excuses \in Nat /\ claims \in Nat
      /\ idem \in IdemRows \cup {NoRecord} /\ (idem # NoRecord /\ idem.reply = "2xx" => effects > 0)
      /\ requests[a].status \in ReplyStatuses /\ (requests[a].status = "2xx" => effects > 0)
      /\ requests[a].committed \in BOOLEAN
  BY DEF GateInv, GateTyped, SuccessIsReal, RequestRows
<1>1. /\ requests[a].pc = "settle" /\ Answer(a, requests[a].status)
      /\ claims' = claims /\ writable' = writable /\ effects' = effects
      /\ SettleRecord(a) \/ UNCHANGED <<idem, excuses>>
  BY DEF idempotencyMiddleware, worldState
<1>2. Holds(requests[a]) <=> ~requests[a].committed BY <1>1 DEF Holds
<1>3. SUFFICES /\ idem' \in IdemRows \cup {NoRecord} /\ excuses' \in Nat
               /\ effects' + Free(idem') + excuses
                    <= effects + Held(requests[a]) + Free(idem) + excuses'
               /\ idem' # NoRecord /\ idem'.reply = "2xx" => effects > 0
  BY <1>0, <1>1, AnswerKeepsInv
<1>4. CASE UNCHANGED <<idem, excuses>> BY TokenTypes, <1>0, <1>1, <1>4
<1>5. CASE SettleRecord(a) /\ requests[a].status = "5xx"
  <2>1. idem' \in {idem, NoRecord} BY <1>5 DEF SettleRecord, DeleteIdempotencyKey
  <2>2. excuses' = excuses + (IF requests[a].committed THEN 1 ELSE 0) BY <1>5 DEF SettleRecord
  <2>3. excuses' \in Nat BY <1>0, <2>2
  <2>4. effects' + Free(idem') + excuses
          <= effects + Held(requests[a]) + Free(idem) + excuses'
    BY TokenTypes, <1>0, <1>1, <1>2, <2>2
  <2> QED BY <1>0, <2>1, <2>3, <2>4
<1>6. CASE SettleRecord(a) /\ requests[a].status # "5xx"
  <2>1. excuses' = excuses /\ CompleteIdempotencyKey(requests[a].claim, requests[a].status)
    BY <1>6 DEF SettleRecord
  <2>2. CASE idem' = idem BY TokenTypes, <1>0, <1>1, <2>1, <2>2
  <2>3. CASE idem' # idem
    <3> DEFINE row == [idem EXCEPT !.status = "completed", !.reply = requests[a].status]
    <3>1. idem' = row /\ idem.status = "in_progress" BY <2>1, <2>3 DEF CompleteIdempotencyKey
    <3>2. idem \in IdemRows BY <1>0, <3>1 DEF NoRecord
    <3>3. row \in IdemRows /\ row.reply = requests[a].status /\ row.status = "completed"
      BY <1>0, <3>2 DEF IdemRows
    <3>4. row # NoRecord /\ idem # NoRecord
      <4>1. NoRecord.status = "none" BY DEF NoRecord
      <4> QED BY <3>1, <3>3, <4>1
    <3> HIDE DEF row
    <3> QED BY TokenTypes, <1>0, <1>1, <2>1, <3>1, <3>3, <3>4
  <2> QED BY <2>2, <2>3
<1> QED BY <1>1, <1>4, <1>5, <1>6

\* The steps of the rest of the world.
LEMMA WorldKeepsInv ==
    ASSUME GateInv, SwitchLifecycle \/ Age \/ PurgeExpiredIdempotencyKeys
    PROVE  GateInv'
<1>0. /\ requests' = requests /\ lastAnswer' = lastAnswer /\ claims' = claims /\ effects' = effects
  BY DEF SwitchLifecycle, Age, PurgeExpiredIdempotencyKeys, recordState, worldState, historyState
<1>1. /\ effects \in Nat /\ excuses \in Nat /\ Cardinality(Holders(requests)) \in Nat
  <2>1. IsFiniteSet(Holders(requests)) BY GateAssumption, FS_Subset DEF Holders
  <2> QED BY <2>1, FS_CardinalityType DEF GateInv, GateTyped
<1>2. CASE SwitchLifecycle
  <2>1. idem' = idem /\ excuses' = excuses /\ writable' \in BOOLEAN
    BY <1>2 DEF SwitchLifecycle, recordState, historyState
  <2> QED BY <1>0, <2>1 DEF GateInv, GateTyped, OneToken, Tokens, Holders, SuccessIsReal
<1>3. CASE Age
  <2> DEFINE row == [idem EXCEPT !.age = @ + 1]
  <2>1. idem # NoRecord /\ idem.age < 2 /\ idem' = row /\ excuses' = excuses /\ writable' = writable
    BY <1>3 DEF Age, worldState, historyState
  <2>2. idem \in IdemRows BY <2>1 DEF GateInv, GateTyped
  <2>3. row \in IdemRows /\ row.reply = idem.reply /\ row.status # "none" BY <2>1, <2>2 DEF IdemRows
  <2>4. row # NoRecord BY <2>3 DEF NoRecord
  <2> HIDE DEF row
  <2> QED BY TokenTypes, <1>0, <2>1, <2>3, <2>4 DEF GateInv, GateTyped, OneToken, Tokens, Holders, SuccessIsReal
<1>4. CASE PurgeExpiredIdempotencyKeys
  <2>1. idem # NoRecord /\ idem' = NoRecord /\ excuses' = excuses + 1 /\ writable' = writable
    BY <1>4 DEF PurgeExpiredIdempotencyKeys, DeleteExpiredIdempotencyKeys, worldState
  <2>2. OneToken' 
    <3> DEFINE n == Cardinality(Holders(requests))
    <3>1. effects + n <= 1 + excuses BY TokenTypes, <2>1, <1>1 DEF GateInv, OneToken, Tokens
    <3>2. Cardinality(Holders(requests')) = n BY <1>0
    <3> HIDE DEF n
    <3> QED BY TokenTypes, <1>0, <1>1, <2>1, <3>1, <3>2 DEF OneToken, Tokens
  <2> QED BY <1>0, <2>1, <2>2 DEF GateInv, GateTyped, SuccessIsReal
<1> QED BY <1>2, <1>3, <1>4

\* The invariant of the idempotency key and its requests.
LEMMA GateInvariant == GateSpec => []GateInv
<1>1. GateInit => GateInv
  <2> SUFFICES ASSUME GateInit PROVE GateInv
    OBVIOUS
  <2>1. Holders(requests) = {} BY DisconnectedRow DEF GateInit, Holders
  <2>2. Cardinality(Holders(requests)) = 0 BY <2>1, FS_EmptySet
  <2>3. OneToken BY TokenTypes, <2>2 DEF GateInit, OneToken, Tokens
  <2>4. GateTyped /\ SuccessIsReal
    BY DisconnectedRow DEF GateInit, GateTyped, SuccessIsReal, ReplyStatuses, NoReply
  <2> QED BY <2>3, <2>4 DEF GateInv
<1>2. GateInv /\ [GateNext]_gateVars => GateInv'
  <2> SUFFICES ASSUME GateInv, [GateNext]_gateVars PROVE GateInv'
    OBVIOUS
  <2>1. CASE UNCHANGED gateVars
    BY <2>1 DEF gateVars, gateState, GateInv, GateTyped, OneToken, Tokens, Holders, SuccessIsReal
  <2>2. CASE GateNext
    BY <2>2, WorldKeepsInv, LookupKeepsInv, ClaimKeepsInv, HandlerKeepsInv, SettleKeepsInv DEF GateNext
  <2> QED BY <2>1, <2>2
<1> QED BY <1>1, <1>2, PTL DEF GateSpec

\* Whatever the interleaving of retried and concurrent requests, panics, stops
\* and lost settling queries, the operation takes effect once plus at most once
\* per event that gives the protection up, and a success is only reported for an
\* operation that took effect (idempotency.go).
THEOREM IdempotencyProtects == GateSpec => []DuplicatesHaveACause
<1>1. GateInv => DuplicatesHaveACause
  <2> SUFFICES ASSUME GateInv PROVE DuplicatesHaveACause
    OBVIOUS
  <2>1. Cardinality(Holders(requests)) \in Nat
    <3>1. IsFiniteSet(Holders(requests)) BY GateAssumption, FS_Subset DEF Holders
    <3> QED BY <3>1, FS_CardinalityType
  <2> QED BY TokenTypes, <2>1 DEF GateInv, GateTyped, OneToken, Tokens, SuccessIsReal, DuplicatesHaveACause
<1> QED BY <1>1, GateInvariant, PTL

-----------------------------------------------------------------------------
(***************************************************************************)
(* Rate limiter                                                            *)
(***************************************************************************)

BucketRows == [count : Nat, end : Nat]
CallRows == [pc : {"load", "cas", "store", "add", "eval"}, level : DOMAIN Levels, now : Nat,
             bucket : Nat, end : Nat]

TablesTyped ==
    /\ backend \in {"memory", "redis"} /\ ticks \in Nat
    /\ buckets \in [AllLevels -> Seq(BucketRows)] /\ admitted \in [AllLevels -> Seq(Nat)]
    /\ \A lv \in AllLevels : Len(buckets[lv]) >= 1 /\ Len(admitted[lv]) = Len(buckets[lv])
    /\ redis \in [AllLevels -> BucketRows] /\ failedOpen \in [AllLevels -> Nat]

\* A goroutine holds a bucket of the level it is at; nothing takes a bucket away
\* from it, not even the cleanup.
CallsTyped ==
    /\ calls \in [Goroutines -> CallRows \cup {NoCall}]
    /\ \A g \in Goroutines : calls[g] # NoCall => calls[g].bucket \in 1..Len(buckets[LevelOf(g)])
    /\ \A g \in Goroutines : calls[g] # NoCall => (calls[g].pc = "eval" <=> backend = "redis")

\* The goroutines that opened a window of the bucket and have not reset its
\* count yet.
Storing(cs, lv, b) ==
    {g \in Goroutines : cs[g].pc = "store" /\ Levels[cs[g].level] = lv /\ cs[g].bucket = b}

Least(m, n) == IF m <= n THEN m ELSE n
N == Cardinality(Goroutines)

\* Admissions since a window opened: every reset that is still to come may give
\* Limit more, and there can be one for each goroutine but the one that admits.
Within(n, cap, stores, count) == n = 0 \/ n <= cap * (N - stores - 1) + Least(count, cap)

MemoryInv ==
    \A lv \in AllLevels : \A b \in 1..Len(buckets[lv]) :
        Within(admitted[lv][b], Limit[lv], Cardinality(Storing(calls, lv, b)), buckets[lv][b].count)
RedisInv ==
    \A lv \in AllLevels : admitted[lv][1] <= Least(redis[lv].count, Limit[lv]) + failedOpen[lv]

LimiterInv ==
    /\ TablesTyped /\ CallsTyped
    /\ backend = "memory" => MemoryInv
    /\ backend = "redis" => RedisInv

\* The number of goroutines is a natural number.
LEMMA GoroutineCount == N \in Nat
BY LimiterAssumption, FS_CardinalityType DEF N

\* Limits are natural numbers.
LEMMA LimitTyped == \A lv \in AllLevels : Limit[lv] \in Nat
BY LimiterAssumption DEF AllLevels

\* So is the window.
LEMMA WindowTyped == Window \in Nat
BY LimiterAssumption

\* One reset more is worth one limit.
LEMMA NextReset == \A l \in Nat, k \in Int : l * (k + 1) = l * k + l
OBVIOUS
\* What the resets are worth is not negative.
LEMMA SlackGrows == \A l \in Nat, k \in Nat : l * k >= 0
OBVIOUS

\* A goroutine that counts itself, and is admitted within the limit, keeps the bound.
LEMMA AdmitKeepsBound ==
    ASSUME NEW n \in Nat, NEW l \in Nat, NEW s \in Nat, NEW c \in Nat, s <= N - 1, Within(n, l, s, c)
    PROVE  Within(IF c + 1 <= l THEN n + 1 ELSE n, l, s, c + 1)
<1> DEFINE p == l * (N - s - 1)
<1>1. p \in Int /\ p >= 0
  <2>1. N - s - 1 \in Nat BY GoroutineCount
  <2> QED BY <2>1, SlackGrows
<1>2. n = 0 \/ n <= p + Least(c, l) BY DEF Within
<1> HIDE DEF p
<1>3. \/ (IF c + 1 <= l THEN n + 1 ELSE n) = 0
      \/ (IF c + 1 <= l THEN n + 1 ELSE n) <= p + Least(c + 1, l)
  BY <1>1, <1>2 DEF Least
<1> QED BY <1>3 DEF Within, p

\* A late reset keeps the bound: one reset less is still to come.
LEMMA ResetKeepsBound ==
    ASSUME NEW n \in Nat, NEW l \in Nat, NEW s \in Nat \ {0}, NEW c \in Nat, Within(n, l, s, c)
    PROVE  Within(n, l, s - 1, 0)
<1> DEFINE k == N - s - 1
           p == l * k
           q == l * (N - (s - 1) - 1)
<1>1. k \in Int /\ N - (s - 1) - 1 = k + 1 BY GoroutineCount
<1>2. q = p + l BY <1>1, NextReset
<1>3. p \in Int BY <1>1
<1>4. n = 0 \/ n <= p + Least(c, l) BY DEF Within
<1> HIDE DEF k, p
<1>5. n = 0 \/ n <= p + l + Least(0, l) BY <1>3, <1>4 DEF Least
<1> HIDE DEF q
<1>6. n = 0 \/ n <= q + Least(0, l) BY <1>2, <1>5
<1> QED BY <1>6 DEF Within, q

\* The bound gives the promised number of admissions.
LEMMA BoundHolds ==
    ASSUME NEW n \in Nat, NEW l \in Nat, NEW s \in Nat, NEW c \in Nat, Within(n, l, s, c), N >= 1
    PROVE  n <= l * N
<1>1. l * N \in Nat /\ l * N >= 0 BY GoroutineCount, SlackGrows
<1>2. l * (N - s - 1) + l <= l * N
  <2>1. l * (N - s - 1) + l = l * (N - s) BY GoroutineCount, NextReset
  <2>2. l * (N - s) = l * N - l * s BY GoroutineCount
  <2>3. l * s >= 0 /\ l * s \in Nat BY SlackGrows
  <2> QED BY <1>1, <2>1, <2>2, <2>3
<1>3. Least(c, l) <= l /\ Least(c, l) \in Nat BY DEF Least
<1>4. l * (N - s - 1) \in Int BY GoroutineCount
<1> QED BY <1>1, <1>2, <1>3, <1>4 DEF Within

-----------------------------------------------------------------------------
(* Tables *)

\* One row of one level's table is written.
Written(table, lv, b, row) == [table EXCEPT ![lv][b] = row]

\* Writing one bucket leaves the others alone.
LEMMA BucketWritten ==
    ASSUME TablesTyped, NEW lv \in AllLevels, NEW b \in 1..Len(buckets[lv]), NEW row \in BucketRows,
           buckets' = Written(buckets, lv, b, row)
    PROVE  /\ buckets' \in [AllLevels -> Seq(BucketRows)]
           /\ \A l \in AllLevels : Len(buckets'[l]) = Len(buckets[l])
           /\ buckets'[lv][b] = row
           /\ \A l \in AllLevels : \A c \in 1..Len(buckets[l]) :
                 <<l, c>> # <<lv, b>> => buckets'[l][c] = buckets[l][c]
<1>1. buckets[lv] \in Seq(BucketRows) BY DEF TablesTyped
<1> DEFINE s == [buckets[lv] EXCEPT ![b] = row]
<1>2. /\ s \in Seq(BucketRows) /\ Len(s) = Len(buckets[lv])
      /\ \A j \in 1..Len(buckets[lv]) : s[j] = IF j = b THEN row ELSE buckets[lv][j]
  BY <1>1, ExceptSeq
<1>3. buckets' = [buckets EXCEPT ![lv] = s] BY DEF Written
<1> HIDE DEF s
<1>4. buckets' \in [AllLevels -> Seq(BucketRows)] /\ buckets'[lv] = s
      /\ \A l \in AllLevels \ {lv} : buckets'[l] = buckets[l]
  BY <1>2, <1>3 DEF TablesTyped
<1>5. \A l \in AllLevels : Len(buckets'[l]) = Len(buckets[l]) BY <1>2, <1>4
<1>6. \A l \in AllLevels : \A c \in 1..Len(buckets[l]) :
          <<l, c>> # <<lv, b>> => buckets'[l][c] = buckets[l][c]
  BY <1>2, <1>4
<1> QED BY <1>2, <1>4, <1>5, <1>6

\* Writing one bucket's admissions leaves the others alone.
LEMMA AdmittedWritten ==
    ASSUME TablesTyped, NEW lv \in AllLevels, NEW b \in 1..Len(admitted[lv]), NEW n \in Nat,
           admitted' = Written(admitted, lv, b, n)
    PROVE  /\ admitted' \in [AllLevels -> Seq(Nat)]
           /\ \A l \in AllLevels : Len(admitted'[l]) = Len(admitted[l])
           /\ admitted'[lv][b] = n
           /\ \A l \in AllLevels : \A c \in 1..Len(admitted[l]) :
                 <<l, c>> # <<lv, b>> => admitted'[l][c] = admitted[l][c]
<1>1. admitted[lv] \in Seq(Nat) BY DEF TablesTyped
<1> DEFINE s == [admitted[lv] EXCEPT ![b] = n]
<1>2. /\ s \in Seq(Nat) /\ Len(s) = Len(admitted[lv])
      /\ \A j \in 1..Len(admitted[lv]) : s[j] = IF j = b THEN n ELSE admitted[lv][j]
  BY <1>1, ExceptSeq
<1>3. admitted' = [admitted EXCEPT ![lv] = s] BY DEF Written
<1> HIDE DEF s
<1>4. admitted' \in [AllLevels -> Seq(Nat)] /\ admitted'[lv] = s
      /\ \A l \in AllLevels \ {lv} : admitted'[l] = admitted[l]
  BY <1>2, <1>3 DEF TablesTyped
<1>5. \A l \in AllLevels : Len(admitted'[l]) = Len(admitted[l]) BY <1>2, <1>4
<1>6. \A l \in AllLevels : \A c \in 1..Len(admitted[l]) :
          <<l, c>> # <<lv, b>> => admitted'[l][c] = admitted[l][c]
  BY <1>2, <1>4
<1> QED BY <1>2, <1>4, <1>5, <1>6

\* A row of the tables has its type.
LEMMA TableRow ==
    ASSUME TablesTyped, NEW lv \in AllLevels, NEW b \in 1..Len(buckets[lv])
    PROVE  /\ buckets[lv][b] \in BucketRows /\ buckets[lv][b].count \in Nat /\ buckets[lv][b].end \in Nat
           /\ admitted[lv][b] \in Nat /\ b \in 1..Len(admitted[lv]) /\ Len(buckets[lv]) \in Nat
<1>1. buckets[lv] \in Seq(BucketRows) /\ admitted[lv] \in Seq(Nat) /\ b \in 1..Len(admitted[lv])
  BY DEF TablesTyped
<1>2. buckets[lv][b] \in BucketRows /\ admitted[lv][b] \in Nat /\ Len(buckets[lv]) \in Nat
  BY <1>1, ElementOfSeq, LenProperties
<1> QED BY <1>1, <1>2 DEF BucketRows

\* A goroutine outside the limiter is at no level.
LEMMA NoCallRow == NoCall.pc = "idle" /\ NoCall \notin CallRows
<1>1. NoCall.pc = "idle" BY DEF NoCall
<1>2. ASSUME NEW r \in CallRows PROVE r.pc # "idle" BY DEF CallRows
<1> QED BY <1>1, <1>2

\* A goroutine in the limiter: its level, and its bucket.
LEMMA CallRow ==
    ASSUME TablesTyped, CallsTyped, NEW g \in Goroutines, calls[g].pc # "idle"
    PROVE  /\ calls[g] \in CallRows /\ calls[g].level \in DOMAIN Levels /\ LevelOf(g) \in AllLevels
           /\ calls[g].bucket \in 1..Len(buckets[LevelOf(g)]) /\ calls[g].now \in Nat /\ calls[g].end \in Nat
           /\ calls[g].pc = "eval" <=> backend = "redis"
<1>1. calls[g] # NoCall BY NoCallRow
<1>2. calls[g] \in CallRows BY <1>1 DEF CallsTyped
<1>3. calls[g].level \in DOMAIN Levels /\ calls[g].now \in Nat /\ calls[g].end \in Nat BY <1>2 DEF CallRows
<1> QED BY <1>1, <1>2, <1>3 DEF CallsTyped, LevelOf, AllLevels

\* One goroutine moves on; no table gets shorter.
LEMMA CallMoves ==
    ASSUME CallsTyped, NEW g \in Goroutines, NEW r \in CallRows \cup {NoCall},
           calls' = [calls EXCEPT ![g] = r], backend' = backend,
           \A lv \in AllLevels : Len(buckets'[lv]) = Len(buckets[lv]),
           r # NoCall => r.bucket \in 1..Len(buckets[Levels[r.level]]) /\ (r.pc = "eval" <=> backend = "redis")
    PROVE  CallsTyped' /\ calls'[g] = r /\ \A h \in Goroutines \ {g} : calls'[h] = calls[h]
<1>1. calls' \in [Goroutines -> CallRows \cup {NoCall}] /\ calls'[g] = r
      /\ \A h \in Goroutines \ {g} : calls'[h] = calls[h]
  BY DEF CallsTyped
<1>2. ASSUME NEW h \in Goroutines, calls'[h] # NoCall
      PROVE  /\ calls'[h].bucket \in 1..Len(buckets'[Levels[calls'[h].level]])
             /\ calls'[h].pc = "eval" <=> backend' = "redis"
  <2>1. Levels[calls'[h].level] \in AllLevels
    <3>1. calls'[h] \in CallRows BY <1>1, <1>2
    <3> QED BY <3>1 DEF CallRows, AllLevels
  <2>2. CASE h = g BY <1>1, <1>2, <2>1, <2>2
  <2>3. CASE h # g
    <3>1. calls'[h] = calls[h] BY <1>1, <2>3
    <3> QED BY <1>2, <2>1, <3>1 DEF CallsTyped, LevelOf
  <2> QED BY <2>2, <2>3
<1> QED BY <1>1, <1>2 DEF CallsTyped, LevelOf

\* Entering a level, or leaving the limiter.
LEMMA EnterEffect ==
    ASSUME TablesTyped, NEW g \in Goroutines, NEW l \in DOMAIN Levels, EnterLevel(g, l)
    PROVE  \E r \in CallRows : /\ calls' = [calls EXCEPT ![g] = r] /\ r.pc \in {"load", "eval"}
                               /\ r.bucket \in 1..Len(buckets[Levels[r.level]])
                               /\ r.pc = "eval" <=> backend = "redis"
<1> DEFINE r == [pc |-> IF backend = "redis" THEN "eval" ELSE "load", level |-> l, now |-> ticks,
                 bucket |-> Len(buckets[Levels[l]]), end |-> 0]
<1>1. Levels[l] \in AllLevels BY DEF AllLevels
<1>2. Len(buckets[Levels[l]]) \in Nat /\ Len(buckets[Levels[l]]) >= 1
  BY <1>1, LenProperties DEF TablesTyped
<1>3. /\ r \in CallRows /\ r.pc \in {"load", "eval"} /\ r.bucket = Len(buckets[Levels[l]]) /\ r.level = l
      /\ r.pc = "eval" <=> backend = "redis"
  BY <1>2 DEF CallRows, TablesTyped
<1>4. calls' = [calls EXCEPT ![g] = r] BY DEF EnterLevel
<1> HIDE DEF r
<1>5. r.bucket \in 1..Len(buckets[Levels[r.level]]) BY <1>2, <1>3
<1> QED BY <1>3, <1>4, <1>5

\* Leaving a level ends the call or starts the next level.
LEMMA LeaveEffect ==
    ASSUME TablesTyped, CallsTyped, NEW g \in Goroutines, calls[g].pc # "idle", NEW allowed, LeaveLevel(g, allowed)
    PROVE  \E r \in CallRows \cup {NoCall} :
                /\ calls' = [calls EXCEPT ![g] = r] /\ r.pc \in {"idle", "load", "eval"}
                /\ r # NoCall => r.bucket \in 1..Len(buckets[Levels[r.level]]) /\ (r.pc = "eval" <=> backend = "redis")
<1>1. CASE calls' = [calls EXCEPT ![g] = NoCall] BY <1>1, NoCallRow
<1>2. CASE calls[g].level < Len(Levels) /\ EnterLevel(g, calls[g].level + 1)
  <2>1. calls[g].level \in 1..Len(Levels) BY CallRow, LimiterAssumption, LenProperties
  <2>2. calls[g].level + 1 \in DOMAIN Levels BY <1>2, <2>1, LimiterAssumption, LenProperties
  <2> QED BY <1>2, <2>2, EnterEffect
<1> QED BY <1>1, <1>2 DEF LeaveLevel

-----------------------------------------------------------------------------
(* Who is about to reset a bucket *)

\* The goroutines about to reset a bucket are few enough to be counted.
LEMMA StoringCount ==
    ASSUME NEW cs, NEW lv, NEW b
    PROVE  /\ IsFiniteSet(Storing(cs, lv, b)) /\ Cardinality(Storing(cs, lv, b)) \in Nat
           /\ \A g \in Goroutines \ Storing(cs, lv, b) : Cardinality(Storing(cs, lv, b)) <= N - 1
<1> DEFINE S == Storing(cs, lv, b)
<1>1. S \subseteq Goroutines BY DEF Storing
<1> HIDE DEF S
<1>2. IsFiniteSet(S) /\ Cardinality(S) \in Nat BY <1>1, LimiterAssumption, FS_Subset, FS_CardinalityType
<1>3. ASSUME NEW g \in Goroutines \ S PROVE Cardinality(S) <= N - 1
  <2>1. S \subseteq Goroutines \ {g} BY <1>1, <1>3
  <2>2. IsFiniteSet(Goroutines \ {g}) /\ Cardinality(Goroutines \ {g}) = N - 1
    BY LimiterAssumption, FS_RemoveElement, <1>3 DEF N
  <2> QED BY <2>1, <2>2, FS_Subset
<1> QED BY <1>2, <1>3 DEF S

\* One goroutine moves; the others stay where they are.
LEMMA StoringMoves ==
    ASSUME NEW g \in Goroutines, NEW lv, NEW b,
           \A h \in Goroutines \ {g} : calls'[h] = calls[h]
    PROVE  /\ Storing(calls', lv, b) \ {g} = Storing(calls, lv, b) \ {g}
           /\ calls'[g].pc # "store" => g \notin Storing(calls', lv, b)
           /\ calls[g].pc # "store" => g \notin Storing(calls, lv, b)
BY DEF Storing

\* A step at one bucket leaves the bound of the others as it was.
LEMMA BucketFrame ==
    ASSUME TablesTyped, CallsTyped, MemoryInv, NEW g \in Goroutines, calls[g].pc # "idle",
           NEW lv, NEW b, lv = LevelOf(g), b = calls[g].bucket,
           \A h \in Goroutines \ {g} : calls'[h] = calls[h],
           calls'[g].pc = "store" => Levels[calls'[g].level] = lv /\ calls'[g].bucket = b,
           \A l \in AllLevels : Len(buckets'[l]) = Len(buckets[l]),
           \A l \in AllLevels : \A c \in 1..Len(buckets[l]) :
               <<l, c>> # <<lv, b>> => buckets'[l][c] = buckets[l][c] /\ admitted'[l][c] = admitted[l][c],
           Within(admitted'[lv][b], Limit[lv], Cardinality(Storing(calls', lv, b)), buckets'[lv][b].count)
    PROVE  MemoryInv'
<1>1. ASSUME NEW l \in AllLevels, NEW c \in 1..Len(buckets[l])
      PROVE  Within(admitted'[l][c], Limit[l], Cardinality(Storing(calls', l, c)), buckets'[l][c].count)
  <2>1. CASE <<l, c>> = <<lv, b>> BY <2>1
  <2>2. CASE <<l, c>> # <<lv, b>>
    <3>1. g \notin Storing(calls, l, c) /\ g \notin Storing(calls', l, c) BY <2>2 DEF Storing, LevelOf
    <3>2. Storing(calls', l, c) \ {g} = Storing(calls, l, c) \ {g} BY StoringMoves
    <3>5. \A h \in Goroutines : h \in Storing(calls', l, c) <=> h \in Storing(calls, l, c) BY <3>1, <3>2
    <3>6. Storing(calls', l, c) = Storing(calls, l, c) BY <3>5 DEF Storing
    <3>3. Within(admitted[l][c], Limit[l], Cardinality(Storing(calls, l, c)), buckets[l][c].count)
      BY DEF MemoryInv
    <3>4. buckets'[l][c] = buckets[l][c] /\ admitted'[l][c] = admitted[l][c] BY <2>2
    <3> QED BY <3>3, <3>4, <3>6
  <2> QED BY <2>1, <2>2
<1> QED BY <1>1 DEF MemoryInv

-----------------------------------------------------------------------------
(* The steps of the in-memory limiter *)

\* The tables keep their types when one bucket of one level is written.
LEMMA TablesKept ==
    ASSUME TablesTyped, UNCHANGED <<backend, ticks, redis, failedOpen>>,
           buckets' \in [AllLevels -> Seq(BucketRows)], admitted' \in [AllLevels -> Seq(Nat)],
           \A l \in AllLevels : Len(buckets'[l]) = Len(buckets[l]) /\ Len(admitted'[l]) = Len(admitted[l])
    PROVE  TablesTyped'
BY DEF TablesTyped

\* Loading the end of the window.
LEMMA LoadKeepsInv ==
    ASSUME LimiterInv, NEW g \in Goroutines, LoadWindowEnd(g), UNCHANGED <<backend, ticks, redis, failedOpen>>
    PROVE  LimiterInv'
<1> USE DEF LimiterInv
<1>1. calls[g].pc = "load" /\ buckets' = buckets /\ admitted' = admitted BY DEF LoadWindowEnd
<1> DEFINE lv == LevelOf(g)
           b == calls[g].bucket
           r == [calls[g] EXCEPT !.end = BucketOf(g).end,
                                 !.pc = IF calls[g].now >= BucketOf(g).end THEN "cas" ELSE "add"]
<1>2. /\ calls[g] \in CallRows /\ lv \in AllLevels /\ b \in 1..Len(buckets[lv])
      /\ backend = "memory"
  BY <1>1, CallRow DEF TablesTyped
<1>3. BucketOf(g).end \in Nat BY <1>2, TableRow DEF BucketOf
<1>4. /\ r \in CallRows /\ r.pc \in {"cas", "add"} /\ r.level = calls[g].level /\ r.bucket = b
  BY <1>2, <1>3 DEF CallRows
<1>5. calls' = [calls EXCEPT ![g] = r] BY DEF LoadWindowEnd, CallsTyped
<1> HIDE DEF r
<1>6. Levels[r.level] = lv BY <1>4 DEF LevelOf
<1>7. CallsTyped' /\ calls'[g] = r /\ \A h \in Goroutines \ {g} : calls'[h] = calls[h]
  BY <1>1, <1>2, <1>4, <1>5, <1>6, CallMoves
<1>8. Storing(calls', lv, b) = Storing(calls, lv, b) BY <1>1, <1>4, <1>7, StoringMoves
<1>9. Within(admitted[lv][b], Limit[lv], Cardinality(Storing(calls, lv, b)), buckets[lv][b].count)
  BY <1>2 DEF MemoryInv
<1>10. Within(admitted'[lv][b], Limit[lv], Cardinality(Storing(calls', lv, b)), buckets'[lv][b].count)
  BY <1>1, <1>8, <1>9
<1> HIDE DEF lv, b
<1>11. MemoryInv' BY <1>1, <1>2, <1>4, <1>7, <1>10, BucketFrame DEF lv, b
<1>12. TablesTyped' BY <1>1 DEF TablesTyped
<1> QED BY <1>2, <1>7, <1>11, <1>12

\* Swapping in a new window: only the winner will reset the count.
LEMMA SwapKeepsInv ==
    ASSUME LimiterInv, NEW g \in Goroutines, CompareAndSwapEnd(g), UNCHANGED <<backend, ticks, redis, failedOpen>>
    PROVE  LimiterInv'
<1> USE DEF LimiterInv
<1>1. calls[g].pc = "cas" BY DEF CompareAndSwapEnd
<1> DEFINE lv == LevelOf(g)
           b == calls[g].bucket
<1>2. /\ calls[g] \in CallRows /\ lv \in AllLevels /\ b \in 1..Len(buckets[lv])
      /\ backend = "memory" /\ calls[g].now \in Nat
  BY <1>1, CallRow DEF TablesTyped
<1>3. /\ buckets[lv][b] \in BucketRows /\ admitted[lv][b] \in Nat /\ b \in 1..Len(admitted[lv])
  BY <1>2, TableRow
<1>4. CASE BucketOf(g).end = calls[g].end
  <2> DEFINE r == [calls[g] EXCEPT !.pc = "store"]
             row == [buckets[lv][b] EXCEPT !.end = calls[g].now + Window]
  <2>1. r \in CallRows /\ r.pc = "store" /\ r.level = calls[g].level /\ r.bucket = b
    BY <1>2 DEF CallRows
  <2>0. calls[g].now + Window \in Nat BY <1>2, WindowTyped
  <2>2. row \in BucketRows BY <1>3, <2>0 DEF BucketRows
  <2>3. /\ calls' = [calls EXCEPT ![g] = r] /\ buckets' = Written(buckets, lv, b, row)
        /\ admitted' = Written(admitted, lv, b, 0)
    BY <1>4 DEF Written, CompareAndSwapEnd, Go, CallsTyped
  <2> HIDE DEF r, row
  <2>4. Levels[r.level] = lv BY <2>1 DEF LevelOf
  <2> HIDE DEF lv, b
  <2>5. /\ buckets' \in [AllLevels -> Seq(BucketRows)]
        /\ \A l \in AllLevels : Len(buckets'[l]) = Len(buckets[l])
        /\ \A l \in AllLevels : \A c \in 1..Len(buckets[l]) :
              <<l, c>> # <<lv, b>> => buckets'[l][c] = buckets[l][c]
    BY <1>2, <2>2, <2>3, BucketWritten
  <2>6. /\ admitted' \in [AllLevels -> Seq(Nat)]
        /\ \A l \in AllLevels : Len(admitted'[l]) = Len(admitted[l])
        /\ admitted'[lv][b] = 0
        /\ \A l \in AllLevels : \A c \in 1..Len(admitted[l]) :
              <<l, c>> # <<lv, b>> => admitted'[l][c] = admitted[l][c]
    BY <1>2, <1>3, <2>3, AdmittedWritten
  <2>7. CallsTyped' /\ calls'[g] = r /\ \A h \in Goroutines \ {g} : calls'[h] = calls[h]
    BY <1>2, <2>1, <2>3, <2>4, <2>5, CallMoves
  <2>8. Within(admitted'[lv][b], Limit[lv], Cardinality(Storing(calls', lv, b)), buckets'[lv][b].count)
    BY <2>6 DEF Within
  <2>9. \A l \in AllLevels : Len(admitted[l]) = Len(buckets[l]) BY DEF TablesTyped
  <2>12. \A l \in AllLevels : \A c \in 1..Len(buckets[l]) :
              <<l, c>> # <<lv, b>> => buckets'[l][c] = buckets[l][c] /\ admitted'[l][c] = admitted[l][c]
    BY <2>5, <2>6, <2>9
  <2>13. lv = LevelOf(g) /\ b = calls[g].bucket BY DEF lv, b
  <2>14. Levels[calls'[g].level] = lv /\ calls'[g].bucket = b BY <2>1, <2>4, <2>7
  <2>10. MemoryInv'
    BY <1>1, <1>2, <2>5, <2>7, <2>8, <2>12, <2>13, <2>14, BucketFrame
  <2>11. TablesTyped' BY <2>5, <2>6, TablesKept
  <2> QED BY <1>2, <2>7, <2>10, <2>11
<1>5. CASE BucketOf(g).end # calls[g].end
  <2> DEFINE r == [calls[g] EXCEPT !.pc = "add"]
  <2>1. r \in CallRows /\ r.pc = "add" /\ r.level = calls[g].level /\ r.bucket = b
    BY <1>2 DEF CallRows
  <2>2. calls' = [calls EXCEPT ![g] = r] /\ buckets' = buckets /\ admitted' = admitted
    BY <1>5 DEF CompareAndSwapEnd, Go, CallsTyped
  <2> HIDE DEF r
  <2>3. Levels[r.level] = lv BY <2>1 DEF LevelOf
  <2>4. CallsTyped' /\ calls'[g] = r /\ \A h \in Goroutines \ {g} : calls'[h] = calls[h]
    BY <1>2, <2>1, <2>2, <2>3, CallMoves
  <2>5. Storing(calls', lv, b) = Storing(calls, lv, b) BY <1>1, <2>1, <2>4, StoringMoves
  <2>6. Within(admitted[lv][b], Limit[lv], Cardinality(Storing(calls, lv, b)), buckets[lv][b].count)
    BY <1>2 DEF MemoryInv
  <2>7. Within(admitted'[lv][b], Limit[lv], Cardinality(Storing(calls', lv, b)), buckets'[lv][b].count)
    BY <2>2, <2>5, <2>6
  <2> HIDE DEF lv, b
  <2>8. MemoryInv' BY <1>1, <1>2, <2>1, <2>2, <2>4, <2>7, BucketFrame DEF lv, b
  <2>9. TablesTyped' BY <2>2 DEF TablesTyped
  <2> QED BY <1>2, <2>4, <2>8, <2>9
<1> QED BY <1>4, <1>5

\* The late reset: the count goes back to zero, and one reset fewer is to come.
LEMMA StoreKeepsInv ==
    ASSUME LimiterInv, NEW g \in Goroutines, StoreZero(g), UNCHANGED <<backend, ticks, redis, failedOpen>>
    PROVE  LimiterInv'
<1> USE DEF LimiterInv
<1>1. calls[g].pc = "store" /\ admitted' = admitted BY DEF StoreZero
<1> DEFINE lv == LevelOf(g)
           b == calls[g].bucket
           r == [calls[g] EXCEPT !.pc = "add"]
           row == [buckets[lv][b] EXCEPT !.count = 0]
           S == Storing(calls, lv, b)
<1>2. /\ calls[g] \in CallRows /\ lv \in AllLevels /\ b \in 1..Len(buckets[lv])
      /\ backend = "memory"
  BY <1>1, CallRow DEF TablesTyped
<1>3. /\ buckets[lv][b] \in BucketRows /\ buckets[lv][b].count \in Nat /\ admitted[lv][b] \in Nat
  BY <1>2, TableRow
<1>4. r \in CallRows /\ r.pc = "add" /\ r.level = calls[g].level /\ r.bucket = b
  BY <1>2 DEF CallRows
<1>5. row \in BucketRows /\ row.count = 0 BY <1>3 DEF BucketRows
<1>6. calls' = [calls EXCEPT ![g] = r] /\ buckets' = Written(buckets, lv, b, row)
  BY DEF Written, StoreZero, Go, CallsTyped
<1>7. Levels[r.level] = lv BY <1>4 DEF LevelOf
<1>8. g \in S BY <1>1 DEF Storing, LevelOf
<1>9. Within(admitted[lv][b], Limit[lv], Cardinality(S), buckets[lv][b].count)
  BY <1>2 DEF MemoryInv
<1> HIDE DEF r, row
<1>10. /\ buckets' \in [AllLevels -> Seq(BucketRows)]
       /\ \A l \in AllLevels : Len(buckets'[l]) = Len(buckets[l])
       /\ buckets'[lv][b] = row
       /\ \A l \in AllLevels : \A c \in 1..Len(buckets[l]) :
              <<l, c>> # <<lv, b>> => buckets'[l][c] = buckets[l][c]
  BY <1>2, <1>5, <1>6, BucketWritten
<1>11. CallsTyped' /\ calls'[g] = r /\ \A h \in Goroutines \ {g} : calls'[h] = calls[h]
  BY <1>2, <1>4, <1>6, <1>7, <1>10, CallMoves
<1>12. Storing(calls', lv, b) = S \ {g} BY <1>4, <1>11, StoringMoves
<1>13. IsFiniteSet(S) /\ Cardinality(S) \in Nat BY StoringCount
<1> HIDE DEF S
<1>14. Cardinality(S \ {g}) = Cardinality(S) - 1 /\ Cardinality(S) # 0
  BY <1>8, <1>13, FS_RemoveElement, FS_EmptySet
<1>15. Limit[lv] \in Nat BY <1>2, LimitTyped
<1>16. Within(admitted[lv][b], Limit[lv], Cardinality(S) - 1, 0)
  BY <1>3, <1>9, <1>13, <1>14, <1>15, ResetKeepsBound
<1>17. Within(admitted'[lv][b], Limit[lv], Cardinality(Storing(calls', lv, b)), buckets'[lv][b].count)
  BY <1>1, <1>5, <1>10, <1>12, <1>14, <1>16
<1> HIDE DEF lv, b
<1>18. MemoryInv' BY <1>1, <1>2, <1>4, <1>10, <1>11, <1>17, BucketFrame DEF lv, b
<1>19. TablesTyped' BY <1>1, <1>10, TablesKept DEF TablesTyped
<1> QED BY <1>2, <1>11, <1>18, <1>19

\* The count goes up by one; only a count within the limit admits.
LEMMA AddKeepsInv ==
    ASSUME LimiterInv, NEW g \in Goroutines, AllowRetryAfter(g), UNCHANGED <<backend, ticks, redis, failedOpen>>
    PROVE  LimiterInv'
<1> USE DEF LimiterInv
<1>1. calls[g].pc = "add" BY DEF AllowRetryAfter
<1> DEFINE lv == LevelOf(g)
           b == calls[g].bucket
           count == buckets[lv][b].count
           n == IF count + 1 <= Limit[lv] THEN admitted[lv][b] + 1 ELSE admitted[lv][b]
           row == [buckets[lv][b] EXCEPT !.count = count + 1]
           S == Storing(calls, lv, b)
<1>2. /\ calls[g] \in CallRows /\ lv \in AllLevels /\ b \in 1..Len(buckets[lv])
      /\ backend = "memory"
  BY <1>1, CallRow DEF TablesTyped
<1>3. /\ buckets[lv][b] \in BucketRows /\ count \in Nat /\ admitted[lv][b] \in Nat
      /\ b \in 1..Len(admitted[lv])
  BY <1>2, TableRow
<1>4. row \in BucketRows /\ row.count = count + 1 BY <1>3 DEF BucketRows
<1>5. n \in Nat BY <1>3
<1>6. /\ buckets' = Written(buckets, lv, b, row) /\ admitted' = Written(admitted, lv, b, n)
      /\ LeaveLevel(g, count + 1 <= Limit[lv])
  BY DEF Written, AllowRetryAfter, withinLimit, BucketOf
<1>7. Within(admitted[lv][b], Limit[lv], Cardinality(S), count) BY <1>2 DEF MemoryInv
<1>8. Cardinality(S) \in Nat /\ Cardinality(S) <= N - 1
  <2>1. g \notin S BY <1>1 DEF Storing
  <2> QED BY <2>1, StoringCount
<1>9. Limit[lv] \in Nat BY <1>2, LimitTyped
<1>10. Within(n, Limit[lv], Cardinality(S), count + 1) BY <1>3, <1>7, <1>8, <1>9, AdmitKeepsBound
<1> HIDE DEF n, row, count
<1>11. PICK r \in CallRows \cup {NoCall} :
           /\ calls' = [calls EXCEPT ![g] = r] /\ r.pc \in {"idle", "load", "eval"}
           /\ r # NoCall => r.bucket \in 1..Len(buckets[Levels[r.level]]) /\ (r.pc = "eval" <=> backend = "redis")
  BY <1>1, <1>6, LeaveEffect
<1>12. /\ buckets' \in [AllLevels -> Seq(BucketRows)]
       /\ \A l \in AllLevels : Len(buckets'[l]) = Len(buckets[l])
       /\ buckets'[lv][b] = row
       /\ \A l \in AllLevels : \A c \in 1..Len(buckets[l]) :
              <<l, c>> # <<lv, b>> => buckets'[l][c] = buckets[l][c]
  BY <1>2, <1>4, <1>6, BucketWritten
<1>13. /\ admitted' \in [AllLevels -> Seq(Nat)]
       /\ \A l \in AllLevels : Len(admitted'[l]) = Len(admitted[l])
       /\ admitted'[lv][b] = n
       /\ \A l \in AllLevels : \A c \in 1..Len(admitted[l]) :
              <<l, c>> # <<lv, b>> => admitted'[l][c] = admitted[l][c]
  BY <1>2, <1>3, <1>5, <1>6, AdmittedWritten
<1>14. CallsTyped' /\ calls'[g] = r /\ \A h \in Goroutines \ {g} : calls'[h] = calls[h]
  BY <1>11, <1>12, CallMoves
<1>15. calls'[g].pc # "store" BY <1>11, <1>14
<1>16. Storing(calls', lv, b) = S BY <1>1, <1>14, <1>15 DEF Storing
<1>17. Within(admitted'[lv][b], Limit[lv], Cardinality(Storing(calls', lv, b)), buckets'[lv][b].count)
  BY <1>4, <1>10, <1>12, <1>13, <1>16
<1>18. \A l \in AllLevels : Len(admitted[l]) = Len(buckets[l]) BY DEF TablesTyped
<1>19. \A l \in AllLevels : \A c \in 1..Len(buckets[l]) :
           <<l, c>> # <<lv, b>> => buckets'[l][c] = buckets[l][c] /\ admitted'[l][c] = admitted[l][c]
  BY <1>12, <1>13, <1>18
<1> HIDE DEF S, lv, b
<1>20. lv = LevelOf(g) /\ b = calls[g].bucket BY DEF lv, b
<1>21. MemoryInv' BY <1>1, <1>2, <1>12, <1>14, <1>15, <1>17, <1>19, <1>20, BucketFrame
<1>22. TablesTyped' BY <1>12, <1>13, TablesKept
<1> QED BY <1>2, <1>14, <1>21, <1>22

\* A forgotten bucket stays with the goroutines that hold it; the new one is empty.
LEMMA CleanupKeepsInv ==
    ASSUME LimiterInv, StartCleanup
    PROVE  LimiterInv'
<1> USE DEF LimiterInv
<1> DEFINE empty == [count |-> 0, end |-> 0]
<1>1. PICK lv \in DOMAIN buckets :
          /\ buckets' = [buckets EXCEPT ![lv] = Append(buckets[lv], empty)]
          /\ admitted' = [admitted EXCEPT ![lv] = Append(admitted[lv], 0)]
  BY DEF StartCleanup
<1>2. lv \in AllLevels /\ backend = "memory" BY DEF TablesTyped, StartCleanup
<1>3. backend' = backend /\ ticks' = ticks /\ redis' = redis /\ calls' = calls /\ failedOpen' = failedOpen
  BY DEF StartCleanup
<1>4. empty \in BucketRows BY DEF BucketRows
<1> HIDE DEF empty
<1>5. /\ buckets[lv] \in Seq(BucketRows) /\ admitted[lv] \in Seq(Nat) /\ Len(admitted[lv]) = Len(buckets[lv])
      /\ Len(buckets[lv]) \in Nat /\ Len(buckets[lv]) >= 1
  BY <1>2, LenProperties DEF TablesTyped
<1> DEFINE k == Len(buckets[lv])
<1>6. /\ Append(buckets[lv], empty) \in Seq(BucketRows) /\ Len(Append(buckets[lv], empty)) = k + 1
      /\ \A i \in 1..k : Append(buckets[lv], empty)[i] = buckets[lv][i]
  BY <1>4, <1>5, AppendProperties
<1>7. /\ Append(admitted[lv], 0) \in Seq(Nat) /\ Len(Append(admitted[lv], 0)) = k + 1
      /\ \A i \in 1..k : Append(admitted[lv], 0)[i] = admitted[lv][i]
      /\ Append(admitted[lv], 0)[k + 1] = 0
  BY <1>5, AppendProperties
<1>8. /\ buckets' \in [AllLevels -> Seq(BucketRows)] /\ buckets'[lv] = Append(buckets[lv], empty)
      /\ \A l \in AllLevels \ {lv} : buckets'[l] = buckets[l]
  BY <1>1, <1>2, <1>6 DEF TablesTyped
<1>9. /\ admitted' \in [AllLevels -> Seq(Nat)] /\ admitted'[lv] = Append(admitted[lv], 0)
      /\ \A l \in AllLevels \ {lv} : admitted'[l] = admitted[l]
  BY <1>1, <1>2, <1>7 DEF TablesTyped
<1>10. \A l \in AllLevels : Len(buckets'[l]) >= 1 /\ Len(admitted'[l]) = Len(buckets'[l])
  <2>1. ASSUME NEW l \in AllLevels, l # lv PROVE Len(buckets'[l]) >= 1 /\ Len(admitted'[l]) = Len(buckets'[l])
    BY <2>1, <1>8, <1>9 DEF TablesTyped
  <2>2. Len(buckets'[lv]) >= 1 /\ Len(admitted'[lv]) = Len(buckets'[lv])
    BY <1>5, <1>6, <1>7, <1>8, <1>9
  <2> QED BY <2>1, <2>2
<1>11. TablesTyped' BY <1>3, <1>8, <1>9, <1>10 DEF TablesTyped
<1>12. CallsTyped'
  <2>1. ASSUME NEW g \in Goroutines, calls[g] # NoCall
        PROVE  calls[g].bucket \in 1..Len(buckets'[LevelOf(g)])
    <3>1. calls[g].bucket \in 1..Len(buckets[LevelOf(g)]) BY <2>1 DEF CallsTyped
    <3>2. LevelOf(g) \in AllLevels
      <4>1. calls[g] \in CallRows BY <2>1 DEF CallsTyped
      <4> QED BY <4>1 DEF CallRows, LevelOf, AllLevels
    <3>3. CASE LevelOf(g) = lv BY <3>1, <3>3, <1>5, <1>6, <1>8
    <3>4. CASE LevelOf(g) # lv BY <3>1, <3>2, <3>4, <1>8
    <3> QED BY <3>3, <3>4
  <2> QED BY <1>3, <2>1 DEF CallsTyped, LevelOf
<1>13. MemoryInv'
  <2>1. ASSUME NEW l \in AllLevels, NEW c \in 1..Len(buckets'[l])
        PROVE  Within(admitted'[l][c], Limit[l], Cardinality(Storing(calls, l, c)), buckets'[l][c].count)
    <3>1. CASE l = lv /\ c = k + 1 BY <3>1, <1>7, <1>9 DEF Within
    <3>2. CASE ~(l = lv /\ c = k + 1)
      <4>1. c \in 1..Len(buckets[l]) /\ buckets'[l][c] = buckets[l][c] /\ admitted'[l][c] = admitted[l][c]
        <5>1. CASE l = lv
          <6>1. c \in 1..k
            <7>1. c \in 1..(k + 1) BY <2>1, <5>1, <1>6, <1>8
            <7> QED BY <7>1, <3>2, <5>1, <1>5
          <6> QED BY <5>1, <6>1, <1>6, <1>7, <1>8, <1>9
        <5>2. CASE l # lv BY <2>1, <5>2, <1>8, <1>9
        <5> QED BY <5>1, <5>2
      <4> QED BY <1>2, <4>1 DEF MemoryInv
    <3> QED BY <3>1, <3>2
  <2> QED BY <1>3, <2>1 DEF MemoryInv
<1> QED BY <1>2, <1>3, <1>11, <1>12, <1>13

-----------------------------------------------------------------------------
(* The steps of the Redis limiter, and the rest *)

\* The script counts the request it is given; an error lets the request pass and
\* is counted as one.
LEMMA RedisKeepsInv ==
    ASSUME LimiterInv, NEW g \in Goroutines, RedisAllowRetryAfter(g), UNCHANGED <<backend, ticks>>
    PROVE  LimiterInv'
<1> USE DEF LimiterInv
<1>1. calls[g].pc = "eval" /\ buckets' = buckets BY DEF RedisAllowRetryAfter
<1> DEFINE lv == LevelOf(g)
           row == fixedWindowScript(redis[lv])
           old == admitted[lv][1]
<1>2. lv \in AllLevels /\ backend = "redis" BY <1>1, CallRow
<1>3. /\ redis[lv] \in BucketRows /\ redis[lv].count \in Nat /\ failedOpen[lv] \in Nat /\ ticks \in Nat
      /\ 1 \in 1..Len(buckets[lv])
  <2>1. redis[lv] \in BucketRows /\ failedOpen[lv] \in Nat /\ ticks \in Nat
    BY <1>2 DEF TablesTyped
  <2>2. Len(buckets[lv]) \in Nat /\ Len(buckets[lv]) >= 1 BY <1>2, LenProperties DEF TablesTyped
  <2> QED BY <2>1, <2>2 DEF BucketRows
<1>4. old \in Nat /\ 1 \in 1..Len(admitted[lv]) BY <1>2, <1>3, TableRow
<1>5. row \in BucketRows /\ row.count \in Nat /\ row.count \in {1, redis[lv].count + 1}
  <2>1. ticks + Window \in Nat BY <1>3, WindowTyped
  <2> QED BY <1>3, <2>1 DEF fixedWindowScript, BucketRows
<1>6. Limit[lv] \in Nat BY <1>2, LimitTyped
<1>7. old <= Least(redis[lv].count, Limit[lv]) + failedOpen[lv] BY <1>2 DEF RedisInv
<1>8. \A l \in AllLevels : Len(buckets'[l]) = Len(buckets[l]) BY <1>1
\* What both outcomes leave: one level's row is written, the others stay.
<1>9. ASSUME NEW n \in Nat, NEW f \in Nat, NEW rd \in BucketRows, NEW allowed,
             admitted' = Written(admitted, lv, 1, n), failedOpen' = [failedOpen EXCEPT ![lv] = f],
             redis' = [redis EXCEPT ![lv] = rd], LeaveLevel(g, allowed),
             n <= Least(rd.count, Limit[lv]) + f
      PROVE  LimiterInv'
  <2>1. PICK r \in CallRows \cup {NoCall} :
           /\ calls' = [calls EXCEPT ![g] = r] /\ r.pc \in {"idle", "load", "eval"}
           /\ r # NoCall => r.bucket \in 1..Len(buckets[Levels[r.level]]) /\ (r.pc = "eval" <=> backend = "redis")
    BY <1>1, <1>9, LeaveEffect
  <2>2. CallsTyped' BY <1>8, <2>1, CallMoves
  <2>3. /\ admitted' \in [AllLevels -> Seq(Nat)]
        /\ \A l \in AllLevels : Len(admitted'[l]) = Len(admitted[l])
        /\ admitted'[lv][1] = n
        /\ \A l \in AllLevels : \A c \in 1..Len(admitted[l]) :
              <<l, c>> # <<lv, 1>> => admitted'[l][c] = admitted[l][c]
    BY <1>2, <1>4, <1>9, AdmittedWritten
  <2>4. /\ redis' \in [AllLevels -> BucketRows] /\ redis'[lv] = rd
        /\ failedOpen' \in [AllLevels -> Nat] /\ failedOpen'[lv] = f
        /\ \A l \in AllLevels \ {lv} : redis'[l] = redis[l] /\ failedOpen'[l] = failedOpen[l]
    BY <1>2, <1>9 DEF TablesTyped
  <2>5. TablesTyped' BY <1>1, <2>3, <2>4 DEF TablesTyped
  <2>6. RedisInv'
    <3>1. ASSUME NEW l \in AllLevels, l # lv
          PROVE  admitted'[l][1] <= Least(redis'[l].count, Limit[l]) + failedOpen'[l]
      <4>1. Len(admitted[l]) \in Nat /\ Len(admitted[l]) >= 1 BY LenProperties DEF TablesTyped
      <4>2. admitted'[l][1] = admitted[l][1] BY <2>3, <3>1, <4>1
      <4>3. admitted[l][1] <= Least(redis[l].count, Limit[l]) + failedOpen[l] BY <1>2 DEF RedisInv
      <4>4. redis'[l] = redis[l] /\ failedOpen'[l] = failedOpen[l] BY <2>4, <3>1
      <4> QED BY <4>2, <4>3, <4>4
    <3>2. admitted'[lv][1] <= Least(redis'[lv].count, Limit[lv]) + failedOpen'[lv] BY <1>9, <2>3, <2>4
    <3> QED BY <3>1, <3>2 DEF RedisInv
  <2> QED BY <1>2, <2>2, <2>5, <2>6
<1> DEFINE n == (IF row.count = 1 THEN 0 ELSE old) + (IF row.count <= Limit[lv] THEN 1 ELSE 0)
           f == IF row.count = 1 THEN 0 ELSE failedOpen[lv]
<1>10. CASE /\ redis' = [redis EXCEPT ![lv] = row]
            /\ admitted' = Written(admitted, lv, 1, n)
            /\ failedOpen' = [failedOpen EXCEPT ![lv] = f]
            /\ LeaveLevel(g, row.count <= Limit[lv])
  <2>1. n \in Nat /\ f \in Nat BY <1>3, <1>4
  <2> HIDE DEF row, old
  <2>2. n <= Least(row.count, Limit[lv]) + f
    BY <1>3, <1>4, <1>5, <1>6, <1>7 DEF Least
  <2> HIDE DEF n, f, lv
  <2> QED BY <1>5, <1>9, <1>10, <2>1, <2>2
<1>11. CASE /\ redis' = redis
            /\ admitted' = Written(admitted, lv, 1, old + 1)
            /\ failedOpen' = [failedOpen EXCEPT ![lv] = failedOpen[lv] + 1]
            /\ LeaveLevel(g, TRUE)
  <2>1. redis' = [redis EXCEPT ![lv] = redis[lv]] BY <1>2, <1>11 DEF TablesTyped
  <2> HIDE DEF row, old
  <2>2. old + 1 \in Nat /\ failedOpen[lv] + 1 \in Nat BY <1>3, <1>4
  <2>3. old + 1 <= Least(redis[lv].count, Limit[lv]) + (failedOpen[lv] + 1)
    BY <1>3, <1>4, <1>6, <1>7 DEF Least
  <2> HIDE DEF lv
  <2> QED BY <1>3, <1>9, <1>11, <2>1, <2>2, <2>3
<1> QED BY <1>10, <1>11 DEF RedisAllowRetryAfter, withinLimit, Written

\* A request enters the first level that is not disabled.
LEMMA MiddlewareKeepsInv ==
    ASSUME LimiterInv, NEW g \in Goroutines, rateLimitMiddleware(g)
    PROVE  LimiterInv'
<1> USE DEF LimiterInv
<1>1. FirstLevel \in DOMAIN Levels
  <2>1. Levels \in Seq(STRING) /\ Len(Levels) >= 2 BY LimiterAssumption
  <2>2. Len(Levels) \in Nat /\ DOMAIN Levels = 1..Len(Levels) BY <2>1, LenProperties
  <2> QED BY <2>1, <2>2 DEF FirstLevel
<1>2. PICK r \in CallRows : /\ calls' = [calls EXCEPT ![g] = r] /\ r.pc \in {"load", "eval"}
                            /\ r.bucket \in 1..Len(buckets[Levels[r.level]])
                            /\ r.pc = "eval" <=> backend = "redis"
  BY <1>1, EnterEffect DEF rateLimitMiddleware
<1>3. UNCHANGED <<backend, ticks, buckets, redis, admitted, failedOpen>> BY DEF rateLimitMiddleware
<1>4. CallsTyped' /\ calls'[g] = r /\ \A h \in Goroutines \ {g} : calls'[h] = calls[h]
  BY <1>2, <1>3, CallMoves
<1>5. TablesTyped' BY <1>3 DEF TablesTyped
<1>6. calls[g].pc # "store" /\ calls'[g].pc # "store" BY <1>2, <1>4, NoCallRow DEF rateLimitMiddleware
<1>7. \A lv, b : Storing(calls', lv, b) = Storing(calls, lv, b) BY <1>4, <1>6 DEF Storing
<1>8. backend = "memory" => MemoryInv' BY <1>3, <1>7 DEF MemoryInv
<1>9. backend = "redis" => RedisInv' BY <1>3 DEF RedisInv
<1> QED BY <1>3, <1>4, <1>5, <1>8, <1>9

\* The limiter starts within its bounds.
LEMMA LimiterInitInv == LimiterInit => LimiterInv
<1> SUFFICES ASSUME LimiterInit PROVE LimiterInv OBVIOUS
<1>1. /\ <<[count |-> 0, end |-> 0]>> \in Seq(BucketRows) /\ <<0>> \in Seq(Nat)
      /\ Len(<<[count |-> 0, end |-> 0]>>) = 1 /\ Len(<<0>>) = 1
  BY DEF BucketRows
<1>2. TablesTyped
  <2>1. ticks \in Nat BY LimiterAssumption DEF LimiterInit
  <2> QED BY <1>1, <2>1 DEF LimiterInit, TablesTyped, BucketRows
<1>3. CallsTyped BY DEF LimiterInit, CallsTyped
<1>4. MemoryInv BY <1>1 DEF LimiterInit, MemoryInv, Within
<1>5. RedisInv
  <2>1. \A lv \in AllLevels : admitted[lv][1] = 0 /\ redis[lv].count = 0 /\ failedOpen[lv] = 0
    BY DEF LimiterInit
  <2> QED BY <2>1, LimitTyped DEF RedisInv, Least
<1> QED BY <1>2, <1>3, <1>4, <1>5 DEF LimiterInv

\* Every step of the limiter keeps them.
LEMMA LimiterStep == LimiterInv /\ [LimiterNext]_limiterState => LimiterInv'
<1> SUFFICES ASSUME LimiterInv, [LimiterNext]_limiterState PROVE LimiterInv' OBVIOUS
<1>1. CASE UNCHANGED <<backend, buckets, redis, calls, admitted, failedOpen>> /\ ticks' \in Nat
  BY <1>1 DEF LimiterInv, TablesTyped, CallsTyped, LevelOf, MemoryInv, RedisInv
<1>2. CASE Tick
  <2>1. ticks' \in Nat BY <1>2 DEF Tick, LimiterInv, TablesTyped
  <2> QED BY <1>1, <1>2, <2>1 DEF Tick
<1>3. CASE UNCHANGED limiterState
  <2>1. ticks' \in Nat BY <1>3 DEF limiterState, LimiterInv, TablesTyped
  <2> QED BY <1>1, <1>3, <2>1 DEF limiterState
<1>4. ASSUME NEW g \in Goroutines, MemoryStep(g), UNCHANGED <<backend, ticks, attempts>> PROVE LimiterInv'
  BY <1>4, LoadKeepsInv, SwapKeepsInv, StoreKeepsInv, AddKeepsInv DEF MemoryStep
<1>5. ASSUME NEW g \in Goroutines, RedisAllowRetryAfter(g), UNCHANGED <<backend, ticks, attempts>>
      PROVE  LimiterInv'
  BY <1>5, RedisKeepsInv
<1> QED BY <1>2, <1>3, <1>4, <1>5, CleanupKeepsInv, MiddlewareKeepsInv DEF LimiterNext

\* The invariant gives the property.
LEMMA LimiterInvBounds == LimiterInv => AdmittedBounded
<1> SUFFICES ASSUME LimiterInv, NEW lv \in AllLevels
             PROVE  IF backend = "redis"
                    THEN admitted[lv][1] <= Limit[lv] + failedOpen[lv]
                    ELSE \A b \in DOMAIN admitted[lv] : admitted[lv][b] <= Limit[lv] * Cardinality(Goroutines)
  BY DEF AdmittedBounded
<1> USE DEF LimiterInv
<1>1. Limit[lv] \in Nat BY LimitTyped
<1>2. /\ Len(buckets[lv]) \in Nat /\ Len(buckets[lv]) >= 1 /\ Len(admitted[lv]) = Len(buckets[lv])
      /\ DOMAIN admitted[lv] = 1..Len(buckets[lv]) /\ redis[lv] \in BucketRows /\ failedOpen[lv] \in Nat
  BY LenProperties DEF TablesTyped
<1>3. CASE backend = "redis"
  <2>1. admitted[lv][1] <= Least(redis[lv].count, Limit[lv]) + failedOpen[lv] BY <1>3 DEF RedisInv
  <2>2. 1 \in 1..Len(buckets[lv]) BY <1>2
  <2>3. admitted[lv][1] \in Nat BY <2>2, TableRow
  <2>4. redis[lv].count \in Nat BY <1>2 DEF BucketRows
  <2>5. Least(redis[lv].count, Limit[lv]) \in Nat /\ Least(redis[lv].count, Limit[lv]) <= Limit[lv]
    BY <1>1, <2>4 DEF Least
  <2> QED BY <1>1, <1>2, <1>3, <2>1, <2>3, <2>5
<1>4. CASE backend = "memory"
  <2>1. N >= 1
    <3>1. N # 0 BY LimiterAssumption, FS_EmptySet DEF N
    <3> QED BY <3>1, GoroutineCount
  <2>2. ASSUME NEW b \in 1..Len(buckets[lv]) PROVE admitted[lv][b] <= Limit[lv] * N
    <3>1. Within(admitted[lv][b], Limit[lv], Cardinality(Storing(calls, lv, b)), buckets[lv][b].count)
      BY <1>4 DEF MemoryInv
    <3>2. admitted[lv][b] \in Nat /\ buckets[lv][b].count \in Nat BY TableRow
    <3>3. Cardinality(Storing(calls, lv, b)) \in Nat BY StoringCount
    <3> QED BY <1>1, <2>1, <3>1, <3>2, <3>3, BoundHolds
  <2> QED BY <1>2, <1>4, <2>2 DEF N
<1> QED BY <1>3, <1>4 DEF TablesTyped

\* In one window the Redis limiter admits Limit requests besides the ones its
\* errors let pass, and the in-memory one at most Limit for each goroutine,
\* however late the resets come and whichever buckets the cleanup forgets.
THEOREM AdmissionsBounded == LimiterSpec => []AdmittedBounded
<1>1. LimiterSpec => []LimiterInv BY LimiterInitInv, LimiterStep, PTL DEF LimiterSpec
<1> QED BY <1>1, LimiterInvBounds, PTL
=============================================================================
