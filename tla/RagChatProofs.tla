--------------------------- MODULE RagChatProofs ---------------------------
(***************************************************************************)
(* The safety properties of RagChat, for any number of requests and users, *)
(* answers of any length and any bounds on the history.                    *)
(***************************************************************************)
EXTENDS RagChat, TLAPS

\* Where a request can be, given its user, its mode and its answer.
PcInv ==
    \A r \in Reqs :
        /\ pc[r] \in {"history", "saveUser", "saveAnswer"} => HasUser(r)
        /\ pc[r] = "llm" => ~streaming[r]
        /\ pc[r] = "stream" => streaming[r]
        /\ pc[r] = "respond" => ~streaming[r]
        /\ pc[r] \in {"saveUser", "saveAnswer", "respond"} => sent[r] = answerLen[r]
        /\ ~streaming[r] /\ got[r] = "answer" => pc[r] = "ended" /\ sent[r] = answerLen[r]

\* An answer is only in the history once its request has saved it.
AnswersSaved ==
    \A u \in Users : \A k \in DOMAIN history[u] :
        history[u][k].role = "assistant" => pc[history[u][k].req] \in {"respond", "ended", "broken"}

\* A message is in the history only once its request has the whole answer.
AnswerArrived ==
    \A u \in Users : \A k \in DOMAIN history[u] :
        LET m == history[u][k] IN
        /\ sent[m.req] = answerLen[m.req]
        /\ pc[m.req] \in {"saveAnswer", "respond", "ended", "broken"}
        /\ m.role = "assistant" => m.len = answerLen[m.req]

\* A stored question of a request that came to its end is followed by its answer.
QuestionsAnswered ==
    \A u \in Users : \A k \in DOMAIN history[u] :
        history[u][k].role = "user" /\ pc[history[u][k].req] \in {"respond", "ended"} =>
            \E j \in DOMAIN history[u] : k < j /\ history[u][j] = Answer(history[u][k].req)

Remembered(r) ==
    \/ r \in forgotten
    \/ Len(history[user[r]]) = MaxHistory
    \/ \E k \in DOMAIN history[user[r]] : history[user[r]][k] = Answer(r)

\* The turn is in the history from the moment save_message returns.
RespondRemembered ==
    \A r \in Reqs : HasUser(r) /\ pc[r] = "respond" => Remembered(r)

IndInv ==
    /\ TypeOK
    /\ PcInv
    /\ QuestionBeforeAnswer
    /\ AnswerArrived
    /\ QuestionsAnswered
    /\ AnswersSaved
    /\ OwnHistory
    /\ RespondRemembered
    /\ AnsweredIsRemembered

-----------------------------------------------------------------------------
\* LRANGE and LTRIM keep a suffix of the list.
LEMMA LastOfIsSuffix ==
    ASSUME NEW S, NEW s \in Seq(S), NEW n \in Nat \ {0}
    PROVE  /\ LastOf(s, n) \in Seq(S)
           /\ Len(LastOf(s, n)) = IF Len(s) > n THEN n ELSE Len(s)
           /\ \A k \in 1 .. Len(LastOf(s, n)) :
                /\ k + (Len(s) - Len(LastOf(s, n))) \in 1 .. Len(s)
                /\ LastOf(s, n)[k] = s[k + (Len(s) - Len(LastOf(s, n)))]
<1>1. Len(s) \in Nat
  OBVIOUS
<1>2. CASE Len(s) > n
  <2>1. LastOf(s, n) = SubSeq(s, Len(s) - n + 1, Len(s))
    BY <1>2 DEF LastOf
  <2>2. \A i \in (Len(s) - n + 1) .. Len(s) : s[i] \in S
    BY <1>1, <1>2
  <2> QED
    BY <1>1, <1>2, <2>1, <2>2
<1>3. CASE ~(Len(s) > n)
  <2>1. LastOf(s, n) = SubSeq(s, 1, Len(s))
    BY <1>3 DEF LastOf
  <2>2. \A i \in 1 .. Len(s) : s[i] \in S
    BY <1>1
  <2>3. Len(LastOf(s, n)) = Len(s) /\ LastOf(s, n) \in Seq(S)
    BY <1>1, <2>1, <2>2
  <2>4. \A k \in 1 .. Len(s) : LastOf(s, n)[k] = s[k]
    BY <1>1, <2>1, <2>2
  <2> QED
    BY <1>1, <1>3, <2>3, <2>4
<1> QED
  BY <1>2, <1>3

\* What save_message of m makes of a history h: m is the last entry, the others
\* are h without its d oldest entries, and d = 0 unless the history is full.
SavedAs(t, h, m, n) ==
    /\ Len(t) \in 1 .. n
    /\ t[Len(t)] = m
    /\ \E d \in Nat :
        /\ d > 0 => Len(t) = n
        /\ Len(t) + d = Len(h) + 1
        /\ \A k \in 1 .. Len(t) : k # Len(t) => k + d \in 1 .. Len(h) /\ t[k] = h[k + d]

\* save_message keeps as much of the history as fits.
LEMMA SavedHistory ==
    ASSUME NEW S, NEW h \in Seq(S), NEW m \in S, NEW n \in Nat \ {0}, Len(h) <= n
    PROVE  /\ LastOf(Append(h, m), n) \in Seq(S)
           /\ SavedAs(LastOf(Append(h, m), n), h, m, n)
<1> DEFINE s == Append(h, m)
           t == LastOf(s, n)
<1>1. Len(h) \in Nat /\ s \in Seq(S) /\ Len(s) = Len(h) + 1 /\ s[Len(h) + 1] = m
      /\ \A i \in 1 .. Len(h) : s[i] = h[i]
  OBVIOUS
<1> HIDE DEF s
<1>2. /\ t \in Seq(S)
      /\ Len(t) = IF Len(s) > n THEN n ELSE Len(s)
      /\ \A k \in 1 .. Len(t) :
            k + (Len(s) - Len(t)) \in 1 .. Len(s) /\ t[k] = s[k + (Len(s) - Len(t))]
  BY <1>1, LastOfIsSuffix
<1> HIDE DEF t
<1> DEFINE d == Len(s) - Len(t)
<1>3. /\ Len(t) \in 1 .. n /\ d \in Nat /\ (d > 0 => Len(t) = n)
      /\ Len(t) + d = Len(h) + 1
  BY <1>1, <1>2
<1>4. t[Len(t)] = m
  <2>1. Len(t) \in 1 .. Len(t) /\ Len(t) + (Len(s) - Len(t)) = Len(h) + 1
    BY <1>1, <1>3
  <2>2. t[Len(t)] = s[Len(t) + (Len(s) - Len(t))]
    BY <1>2, <2>1
  <2> QED
    BY <2>1, <2>2, <1>1
<1>5. ASSUME NEW k \in 1 .. Len(t), k # Len(t)
      PROVE  k + d \in 1 .. Len(h) /\ t[k] = h[k + d]
  <2>1. k + d \in 1 .. Len(h)
    BY <1>1, <1>3, <1>5
  <2>2. t[k] = s[k + d]
    BY <1>2
  <2> QED
    BY <2>1, <2>2, <1>1
<1>6. \E x \in Nat :
                /\ x > 0 => Len(t) = n
                /\ Len(t) + x = Len(h) + 1
                /\ \A k \in 1 .. Len(t) : k # Len(t) => k + x \in 1 .. Len(h) /\ t[k] = h[k + x]
  BY <1>3, <1>5
<1>7. SavedAs(t, h, m, n)
  BY <1>3, <1>4, <1>6 DEF SavedAs
<1> QED
  BY <1>2, <1>7 DEF t, s

-----------------------------------------------------------------------------
\* The invariant holds before any request.
LEMMA InitInv == Init => IndInv
<1> SUFFICES ASSUME Init PROVE IndInv
  OBVIOUS
<1>1. TypeOK
  BY ChatAssumption DEF Init, TypeOK, Pcs
<1>2. PcInv /\ RespondRemembered /\ AnsweredIsRemembered
  BY DEF Init, PcInv, RespondRemembered, AnsweredIsRemembered
<1>3. \A u \in Users : history[u] = <<>> /\ DOMAIN history[u] = {}
  BY DEF Init
<1>4. \A r \in Reqs : prompt[r] = <<>> /\ DOMAIN prompt[r] = {}
  <2> TAKE r \in Reqs
  <2>1. prompt[r] = <<>>
    BY DEF Init
  <2> QED
    BY <2>1
<1>5. QuestionBeforeAnswer /\ AnswerArrived /\ QuestionsAnswered /\ AnswersSaved /\ OwnHistory
  BY <1>3, <1>4 DEF QuestionBeforeAnswer, AnswerArrived, QuestionsAnswered, AnswersSaved, OwnHistory
<1> QED
  BY <1>1, <1>2, <1>5 DEF IndInv

\* The steps that leave the histories alone.
LEMMA LocalSteps ==
    ASSUME IndInv, NEW r \in Reqs,
           \/ Search(r) \/ LoadHistory(r) \/ Complete(r) \/ StreamDelta(r)
           \/ StreamFinal(r) \/ Respond(r) \/ Fails(r) \/ Disconnect(r)
    PROVE  IndInv'
<1> USE ChatAssumption DEF IndInv, Goto, inputs, CallLlm, HasUser
<1>1. UNCHANGED <<user, streaming, answerLen, history, forgotten>>
  BY DEF Search, LoadHistory, Complete, StreamDelta, StreamFinal, Respond, Fails, Disconnect
<1>2. /\ pc' \in [Reqs -> Pcs]
      /\ sent' \in [Reqs -> 0 .. MaxAnswer]
      /\ got' \in [Reqs -> {"nothing", "partial", "answer", "error"}]
  <2>1. pc' \in [Reqs -> Pcs]
    BY DEF Search, LoadHistory, Complete, StreamDelta, StreamFinal, Respond, Fails,
           Disconnect, TypeOK, Pcs
  <2>2. sent' = sent \/ \E n \in 0 .. MaxAnswer : sent' = [sent EXCEPT ![r] = n]
    BY DEF Search, LoadHistory, Complete, StreamDelta, StreamFinal, Respond, Fails,
           Disconnect, TypeOK
  <2>3. sent' \in [Reqs -> 0 .. MaxAnswer]
    BY <2>2 DEF TypeOK
  <2>4. got' \in [Reqs -> {"nothing", "partial", "answer", "error"}]
    BY DEF Search, LoadHistory, Complete, StreamDelta, StreamFinal, Respond, Fails,
           Disconnect, TypeOK
  <2> QED
    BY <2>1, <2>3, <2>4
<1>3. prompt' \in [Reqs -> Seq(Messages)]
      /\ \A q \in Reqs : \A k \in DOMAIN prompt'[q] : user[prompt'[q][k].req] = user[q]
  <2>1. CASE LoadHistory(r)
    <3> DEFINE h == history[user[r]]
               t == LastOf(h, PromptHistory)
    <3>1. user[r] \in Users /\ h \in Seq(Messages)
      BY <2>1 DEF LoadHistory, TypeOK
    <3>2. /\ t \in Seq(Messages)
          /\ \A k \in 1 .. Len(t) : k + (Len(h) - Len(t)) \in 1 .. Len(h)
                                    /\ t[k] = h[k + (Len(h) - Len(t))]
      BY <3>1, LastOfIsSuffix
    <3>3. prompt' = [prompt EXCEPT ![r] = t]
      BY <2>1 DEF LoadHistory
    <3> HIDE DEF t
    <3>4. \A k \in DOMAIN t : user[t[k].req] = user[r]
      <4> TAKE k \in DOMAIN t
      <4>1. k \in 1 .. Len(t)
        BY <3>2
      <4>2. k + (Len(h) - Len(t)) \in DOMAIN h /\ t[k] = h[k + (Len(h) - Len(t))]
        BY <3>1, <3>2, <4>1
      <4> QED
        BY <3>1, <4>2 DEF OwnHistory
    <3> QED
      BY <3>2, <3>3, <3>4 DEF TypeOK, OwnHistory
  <2>2. CASE ~LoadHistory(r)
    <3>1. prompt' = prompt
      BY <2>2 DEF Search, Complete, StreamDelta, StreamFinal, Respond, Fails, Disconnect
    <3> QED
      BY <3>1 DEF TypeOK, OwnHistory
  <2> QED
    BY <2>1, <2>2
<1>4. TypeOK' /\ OwnHistory'
  BY <1>1, <1>2, <1>3 DEF TypeOK, OwnHistory
<1>5. PcInv'
  BY <1>1 DEF Search, LoadHistory, Complete, StreamDelta, StreamFinal, Respond, Fails,
              Disconnect, Over, TypeOK, PcInv
<1>6. /\ \A q \in Reqs : pc[q] \in {"saveUser", "saveAnswer", "respond", "ended", "broken"} =>
                            sent'[q] = sent[q]
      /\ \A q \in Reqs : pc[q] \in {"saveAnswer", "respond", "ended", "broken"} =>
                            \/ pc'[q] = pc[q] \/ pc'[q] = "broken"
                            \/ pc[q] = "respond" /\ pc'[q] = "ended"
      /\ \A q \in Reqs : pc'[q] = "respond" => pc[q] = "respond" \/ ~HasUser(q)
  BY DEF Search, LoadHistory, Complete, StreamDelta, StreamFinal, Respond, Fails,
         Disconnect, Over, TypeOK, PcInv
<1>7. QuestionBeforeAnswer'
  BY <1>1 DEF QuestionBeforeAnswer
<1>8. \A u \in Users : \A k \in DOMAIN history[u] : history[u][k].req \in Reqs
  <2> TAKE u \in Users
  <2> TAKE k \in DOMAIN history[u]
  <2>1. history[u] \in Seq(Messages)
    BY DEF TypeOK
  <2>2. history[u][k] \in Messages
    BY <2>1
  <2> QED
    BY <2>2 DEF Messages
<1>9. AnswerArrived'
  BY <1>1, <1>6, <1>8 DEF AnswerArrived
<1>10. AnswersSaved'
  BY <1>1, <1>6, <1>8 DEF AnswersSaved, AnswerArrived
<1>14. QuestionsAnswered'
  <2>1. ASSUME NEW u \in Users, NEW k \in DOMAIN history[u], NEW q \in Reqs,
               history[u][k].req = q, history[u][k].role = "user", pc'[q] \in {"respond", "ended"}
        PROVE  \E j \in DOMAIN history[u] : k < j /\ history[u][j] = Answer(q)'
    <3>1. pc[q] \in {"saveAnswer", "respond", "ended", "broken"}
      BY <2>1 DEF AnswerArrived
    <3>2. pc[q] \in {"respond", "ended"} /\ sent'[q] = sent[q]
      BY <2>1, <3>1, <1>6
    <3>3. Answer(q)' = Answer(q)
      BY <3>2 DEF Answer
    <3> QED
      BY <2>1, <3>2, <3>3 DEF QuestionsAnswered
  <2> QED
    BY <2>1, <1>1, <1>8 DEF QuestionsAnswered
<1>11. ASSUME NEW q \in Reqs, Remembered(q), sent'[q] = sent[q]
       PROVE  Remembered(q)'
  BY <1>1, <1>11 DEF Remembered, Answer
<1>12. RespondRemembered'
  BY <1>1, <1>6, <1>11 DEF RespondRemembered
<1>13. AnsweredIsRemembered'
  <2> SUFFICES ASSUME NEW q \in Reqs, got'[q] = "answer", ~streaming[q], user[q] # NoUser
               PROVE  Remembered(q)'
    BY <1>1 DEF AnsweredIsRemembered, Remembered
  <2>1. CASE got[q] = "answer"
    <3>1. Remembered(q) /\ pc[q] = "ended"
      BY <2>1 DEF AnsweredIsRemembered, Remembered, PcInv
    <3> QED
      BY <3>1, <1>6, <1>11
  <2>2. CASE got[q] # "answer"
    <3>1. pc[q] = "respond"
      BY <2>2 DEF Search, LoadHistory, Complete, StreamDelta, StreamFinal, Respond, Fails,
                  Disconnect, TypeOK, PcInv
    <3> QED
      BY <3>1, <1>6, <1>11 DEF RespondRemembered
  <2> QED
    BY <2>1, <2>2
<1> QED
  BY <1>4, <1>5, <1>7, <1>9, <1>10, <1>12, <1>13, <1>14

\* save_message of a question or an answer.
LEMMA SaveSteps ==
    ASSUME IndInv, NEW r \in Reqs, SaveUser(r) \/ SaveAnswer(r)
    PROVE  IndInv'
<1> USE ChatAssumption DEF IndInv, Goto, inputs, HasUser
<1> DEFINE u == user[r]
           h == history[u]
           m == IF pc[r] = "saveUser" THEN Question(r) ELSE Answer(r)
           t == LastOf(Append(h, m), MaxHistory)
<1>1. /\ UNCHANGED <<user, streaming, answerLen, prompt, sent, got, forgotten>>
      /\ pc[r] \in {"saveUser", "saveAnswer"}
      /\ history' = [history EXCEPT ![u] = t]
      /\ pc[r] = "saveUser" => pc' = [pc EXCEPT ![r] = "saveAnswer"]
      /\ pc[r] = "saveAnswer" =>
            pc' = [pc EXCEPT ![r] = IF streaming[r] THEN "ended" ELSE "respond"]
  BY DEF SaveUser, SaveAnswer, SaveMessage
<1>2. u \in Users /\ h \in Seq(Messages) /\ Len(h) <= MaxHistory /\ sent[r] = answerLen[r]
  BY <1>1 DEF TypeOK, PcInv
<1>3. /\ m \in Messages /\ m.req = r
      /\ m.role = IF pc[r] = "saveUser" THEN "user" ELSE "assistant"
      /\ pc[r] = "saveAnswer" => m.len = sent[r] /\ m = Answer(r)
  BY <1>1 DEF Question, Answer, Messages, TypeOK
<1>0. MaxHistory \in Nat \ {0}
  OBVIOUS
<1>4. t \in Seq(Messages) /\ SavedAs(t, h, m, MaxHistory)
  <2> HIDE DEF m, h
  <2>1. h \in Seq(Messages) /\ Len(h) <= MaxHistory /\ m \in Messages
    BY <1>2, <1>3
  <2> QED
    BY <1>0, <2>1, SavedHistory, Zenon
<1> HIDE DEF m, h, t
<1>5. PICK d \in Nat :
         /\ d > 0 => Len(t) = MaxHistory
         /\ Len(t) + d = Len(h) + 1
         /\ \A k \in 1 .. Len(t) : k # Len(t) => k + d \in 1 .. Len(h) /\ t[k] = h[k + d]
  BY <1>4 DEF SavedAs
<1>a. Len(t) \in 1 .. MaxHistory /\ t[Len(t)] = m
  BY <1>4 DEF SavedAs
<1>b. 1 <= Len(t) /\ Len(t) <= MaxHistory /\ Len(t) \in Nat
  BY <1>0, <1>a
<1>6. DOMAIN t = 1 .. Len(t) /\ DOMAIN h = 1 .. Len(h) /\ Len(h) \in Nat /\ Len(t) \in Nat
  BY <1>2, <1>4
<1>7. \A k \in DOMAIN t :
        \/ k = Len(t) /\ t[k] = m
        \/ k # Len(t) /\ k + d \in DOMAIN h /\ t[k] = h[k + d]
  BY <1>a, <1>5, <1>6
<1>8. /\ history'[u] = t
      /\ \A v \in Users : v # u => history'[v] = history[v]
  BY <1>1, <1>2 DEF TypeOK
<1>9. /\ pc' \in [Reqs -> Pcs]
      /\ \A q \in Reqs : q # r => pc'[q] = pc[q]
      /\ pc'[r] \in {"saveAnswer", "respond", "ended"}
      /\ pc[r] = "saveUser" => pc'[r] = "saveAnswer"
      /\ pc[r] = "saveAnswer" => pc'[r] = IF streaming[r] THEN "ended" ELSE "respond"
  BY <1>1 DEF TypeOK, Pcs
<1>10. TypeOK'
  <2>1. history' \in [Users -> Seq(Messages)]
    BY <1>1, <1>2, <1>4 DEF TypeOK
  <2>2. \A v \in Users : Len(history'[v]) <= MaxHistory
    <3> TAKE v \in Users
    <3>1. CASE v = u
      BY <3>1, <1>b, <1>8
    <3>2. CASE v # u
      BY <3>2, <1>8 DEF TypeOK
    <3> QED
      BY <3>1, <3>2
  <2> QED
    BY <1>1, <1>9, <2>1, <2>2 DEF TypeOK
<1>11. PcInv'
  BY <1>1, <1>2, <1>9 DEF PcInv, TypeOK
<1>12. \A v \in Users : \A k \in DOMAIN history[v] :
          /\ history[v][k].req \in Reqs /\ history[v][k].role \in {"user", "assistant"}
          /\ history[v][k].req = r => pc[r] = "saveAnswer" /\ history[v][k].role = "user"
  <2> TAKE v \in Users
  <2> TAKE k \in DOMAIN history[v]
  <2>1. history[v] \in Seq(Messages)
    BY DEF TypeOK
  <2>2. history[v][k] \in Messages
    BY <2>1
  <2>3. history[v][k].req \in Reqs /\ history[v][k].role \in {"user", "assistant"}
    BY <2>2 DEF Messages
  <2>4. /\ pc[history[v][k].req] \in {"saveAnswer", "respond", "ended", "broken"}
        /\ history[v][k].role = "assistant" =>
              pc[history[v][k].req] \in {"respond", "ended", "broken"}
    BY DEF AnswerArrived, AnswersSaved
  <2> QED
    BY <1>1, <2>3, <2>4
<1>13. QuestionBeforeAnswer'
  <2> SUFFICES ASSUME NEW v \in Users, NEW j \in DOMAIN history'[v], NEW k \in DOMAIN history'[v],
                      j < k, history'[v][j].req = history'[v][k].req
               PROVE  history'[v][j].role = "user" /\ history'[v][k].role = "assistant"
    BY DEF QuestionBeforeAnswer
  <2>1. CASE v # u
    <3>1. history'[v] = history[v]
      BY <1>8, <2>1
    <3> QED
      BY <3>1 DEF QuestionBeforeAnswer
  <2>2. CASE v = u
    <3>1. j \in DOMAIN t /\ k \in DOMAIN t /\ history'[v] = t
      BY <1>8, <2>2
    <3>2. j + d \in DOMAIN h /\ t[j] = h[j + d]
      BY <3>1, <1>6, <1>7
    <3>3. CASE k # Len(t)
      <4>1. k + d \in DOMAIN h /\ t[k] = h[k + d]
        BY <3>1, <3>3, <1>7
      <4>2. j + d < k + d
        BY <3>1, <1>6
      <4> QED
        BY <3>1, <3>2, <4>1, <4>2, <1>2 DEF QuestionBeforeAnswer, h
    <3>4. CASE k = Len(t)
      <4>1. t[k] = m
        BY <3>4, <1>a
      <4>2. h[j + d].req = r
        BY <4>1, <3>1, <3>2, <1>3
      <4>3. pc[r] = "saveAnswer" /\ h[j + d].role = "user"
        BY <4>2, <3>2, <1>2, <1>12 DEF h
      <4> QED
        BY <4>1, <4>3, <3>1, <3>2, <1>3
    <3> QED
      BY <3>3, <3>4
  <2> QED
    BY <2>1, <2>2
<1>14. ASSUME NEW v \in Users, NEW k \in DOMAIN history'[v]
       PROVE  \/ v = u /\ history'[v][k] = m
              \/ \E i \in DOMAIN history[v] : history'[v][k] = history[v][i]
  <2>1. CASE v # u
    BY <1>8, <2>1
  <2>2. CASE v = u
    BY <1>7, <1>8, <2>2 DEF h
  <2> QED
    BY <2>1, <2>2
<1>15. AnswerArrived'
  <2> SUFFICES ASSUME NEW v \in Users, NEW k \in DOMAIN history'[v]
               PROVE  LET x == history'[v][k] IN
                      /\ sent[x.req] = answerLen[x.req]
                      /\ pc'[x.req] \in {"saveAnswer", "respond", "ended", "broken"}
                      /\ x.role = "assistant" => x.len = answerLen[x.req]
    BY <1>1 DEF AnswerArrived
  <2>1. CASE history'[v][k] = m
    BY <2>1, <1>1, <1>2, <1>3, <1>9
  <2>2. CASE \E i \in DOMAIN history[v] : history'[v][k] = history[v][i]
    <3>1. PICK i \in DOMAIN history[v] : history'[v][k] = history[v][i]
      BY <2>2
    <3>2. CASE history[v][i].req = r
      BY <3>1, <3>2, <1>9 DEF AnswerArrived
    <3>3. CASE history[v][i].req # r
      BY <3>1, <3>3, <1>9, <1>12 DEF AnswerArrived
    <3> QED
      BY <3>2, <3>3
  <2> QED
    BY <2>1, <2>2, <1>14
<1>16. AnswersSaved'
  <2> SUFFICES ASSUME NEW v \in Users, NEW k \in DOMAIN history'[v],
                      history'[v][k].role = "assistant"
               PROVE  pc'[history'[v][k].req] \in {"respond", "ended", "broken"}
    BY DEF AnswersSaved
  <2>1. CASE history'[v][k] = m
    BY <2>1, <1>1, <1>3, <1>9
  <2>2. CASE \E i \in DOMAIN history[v] : history'[v][k] = history[v][i]
    <3>1. PICK i \in DOMAIN history[v] : history'[v][k] = history[v][i]
      BY <2>2
    <3>2. history[v][i].req # r /\ history[v][i].req \in Reqs
      BY <3>1, <1>12
    <3> QED
      BY <3>1, <3>2, <1>9 DEF AnswersSaved
  <2> QED
    BY <2>1, <2>2, <1>14
<1>22. QuestionsAnswered'
  <2> SUFFICES ASSUME NEW v \in Users, NEW k \in DOMAIN history'[v], history'[v][k].role = "user",
                      pc'[history'[v][k].req] \in {"respond", "ended"}
               PROVE  \E j \in DOMAIN history'[v] :
                         k < j /\ history'[v][j] = Answer(history'[v][k].req)
    BY <1>1 DEF QuestionsAnswered, Answer
  <2>1. CASE v # u
    <3>1. history'[v] = history[v] /\ k \in DOMAIN history[v]
      BY <1>8, <2>1
    <3>2. history[v][k].req # r
      BY <3>1, <2>1, <1>2 DEF OwnHistory
    <3>3. pc[history[v][k].req] \in {"respond", "ended"}
      BY <3>1, <3>2, <1>9, <1>12
    <3> QED
      BY <3>1, <3>3 DEF QuestionsAnswered
  <2>2. CASE v = u
    <3>1. k \in DOMAIN t /\ history'[v] = t
      BY <1>8, <2>2
    <3>2. k # Len(t)
      BY <3>1, <1>a, <1>3, <1>9
    <3>3. k + d \in DOMAIN h /\ t[k] = h[k + d] /\ k < Len(t)
      BY <3>1, <3>2, <1>6, <1>7
    <3>4. CASE t[k].req = r
      <4>1. pc[r] = "saveAnswer"
        BY <3>3, <3>4, <1>2, <1>12 DEF h
      <4>2. t[Len(t)] = Answer(t[k].req)
        BY <4>1, <3>4, <1>3, <1>a
      <4>3. Len(t) \in DOMAIN t
        BY <1>b, <1>6
      <4> QED
        BY <3>1, <3>3, <4>2, <4>3
    <3>5. CASE t[k].req # r
      <4>1. pc[h[k + d].req] \in {"respond", "ended"} /\ h[k + d].role = "user"
        BY <3>1, <3>3, <3>5, <1>2, <1>9, <1>12 DEF h
      <4>2. PICK i \in DOMAIN h : k + d < i /\ h[i] = Answer(h[k + d].req)
        BY <4>1, <3>3, <1>2 DEF QuestionsAnswered, h
      <4>3. i - d \in 1 .. Len(t) /\ i - d # Len(t) /\ k < i - d /\ (i - d) + d = i
        <5>1. /\ i \in Nat /\ d \in Nat /\ k \in Nat /\ 1 <= k
              /\ i <= Len(h) /\ k + d < i /\ Len(t) + d = Len(h) + 1
          <6>1. i \in 1 .. Len(h) /\ k \in 1 .. Len(t)
            BY <4>2, <3>1, <1>6
          <6>2. Len(t) + d = Len(h) + 1
            BY <1>5
          <6> QED
            BY <4>2, <6>1, <6>2, <1>6
        <5>2. Len(t) \in Nat /\ Len(h) \in Nat
          BY <1>6
        <5> QED
          BY <5>1, <5>2
      <4>4. t[i - d] = h[i]
        BY <4>3, <1>5
      <4> QED
        BY <3>1, <3>3, <4>2, <4>3, <4>4, <1>6
    <3> QED
      BY <3>4, <3>5
  <2> QED
    BY <2>1, <2>2
<1>17. OwnHistory'
  <2>1. ASSUME NEW v \in Users, NEW k \in DOMAIN history'[v]
        PROVE  user[history'[v][k].req] = v
    BY <1>3, <1>14 DEF OwnHistory
  <2> QED
    BY <2>1, <1>1 DEF OwnHistory
<1>18. ASSUME NEW q \in Reqs, user[q] # NoUser, Remembered(q) PROVE Remembered(q)'
  <2>1. CASE q \in forgotten
    BY <2>1, <1>1 DEF Remembered
  <2>2. CASE user[q] # u
    <3>1. user[q] \in Users
      BY <1>18 DEF TypeOK
    <3>2. history'[user[q]] = history[user[q]]
      BY <3>1, <2>2, <1>8
    <3> QED
      BY <3>2, <1>1, <1>18 DEF Remembered, Answer
  <2>3. CASE user[q] = u /\ Len(t) = MaxHistory
    BY <2>3, <1>1, <1>8 DEF Remembered
  <2>4. CASE user[q] = u /\ Len(t) # MaxHistory /\ q \notin forgotten
    <3>1. d = 0 /\ Len(t) = Len(h) + 1
      BY <2>4, <1>5
    <3>2. Len(h) # MaxHistory
      <4>1. Len(h) + 1 <= MaxHistory
        BY <3>1, <1>b
      <4>2. Len(h) \in Nat /\ MaxHistory \in Nat
        BY <1>0, <1>6
      <4> QED
        BY <4>1, <4>2
    <3>3. PICK i \in DOMAIN h : h[i] = Answer(q)
      BY <2>4, <3>2, <1>18 DEF Remembered, h
    <3>4. i \in 1 .. Len(t) /\ i # Len(t)
      BY <3>1, <1>6
    <3>5. t[i] = h[i + d] /\ i + d = i
      BY <3>1, <3>4, <1>5, <1>6
    <3>6. i \in DOMAIN t /\ t[i] = Answer(q)
      BY <3>3, <3>4, <3>5, <1>6
    <3> QED
      BY <3>6, <2>4, <1>1, <1>8 DEF Remembered, Answer
  <2> QED
    BY <2>1, <2>2, <2>3, <2>4
<1>19. pc[r] = "saveAnswer" => Remembered(r)'
  <2> SUFFICES ASSUME pc[r] = "saveAnswer" PROVE Remembered(r)'
    OBVIOUS
  <2>1. t[Len(t)] = Answer(r)
    BY <1>3, <1>a
  <2>2. Len(t) \in 1 .. Len(t)
    BY <1>b
  <2>3. Len(t) \in DOMAIN t
    BY <2>2, <1>6
  <2> QED
    BY <2>1, <2>3, <1>1, <1>8 DEF Remembered, Answer
<1>20. RespondRemembered'
  <2> SUFFICES ASSUME NEW q \in Reqs, user[q] # NoUser, pc'[q] = "respond" PROVE Remembered(q)'
    BY <1>1 DEF RespondRemembered
  <2>1. CASE q = r
    BY <2>1, <1>1, <1>9, <1>19
  <2>2. CASE q # r
    BY <2>2, <1>9, <1>18 DEF RespondRemembered
  <2> QED
    BY <2>1, <2>2
<1>21. AnsweredIsRemembered'
  <2> SUFFICES ASSUME NEW q \in Reqs, got[q] = "answer", ~streaming[q], user[q] # NoUser
               PROVE  Remembered(q)'
    BY <1>1 DEF AnsweredIsRemembered, Remembered
  <2>1. Remembered(q)
    BY DEF AnsweredIsRemembered, Remembered
  <2> QED
    BY <2>1, <1>18
<1> QED
  BY <1>10, <1>11, <1>13, <1>15, <1>16, <1>17, <1>20, <1>21, <1>22

\* Clearing a history forgets the turns in it.
LEMMA ClearStep ==
    ASSUME IndInv, NEW u \in Users, ClearHistory(u)
    PROVE  IndInv'
<1> USE ChatAssumption DEF IndInv, inputs, HasUser
<1>1. /\ UNCHANGED <<user, streaming, answerLen, pc, prompt, sent, got>>
      /\ history' = [history EXCEPT ![u] = <<>>]
      /\ forgotten' = forgotten \cup {r \in Reqs : user[r] = u /\ pc[r] \in {"respond", "ended"}}
  BY DEF ClearHistory
<1>2. /\ history'[u] = <<>> /\ DOMAIN history'[u] = {}
      /\ \A v \in Users : v # u => history'[v] = history[v]
  BY <1>1 DEF TypeOK
<1>3. TypeOK'
  <2>1. history' \in [Users -> Seq(Messages)]
    BY <1>1 DEF TypeOK
  <2>2. \A v \in Users : Len(history'[v]) <= MaxHistory
    <3> TAKE v \in Users
    <3>1. CASE v = u
      BY <3>1, <1>2
    <3>2. CASE v # u
      BY <3>2, <1>2 DEF TypeOK
    <3> QED
      BY <3>1, <3>2
  <2> QED
    BY <1>1, <2>1, <2>2 DEF TypeOK
<1>4. PcInv'
  BY <1>1 DEF PcInv
<1>5. QuestionBeforeAnswer' /\ AnswerArrived' /\ AnswersSaved' /\ OwnHistory'
  BY <1>1, <1>2 DEF QuestionBeforeAnswer, AnswerArrived, AnswersSaved, OwnHistory
<1>9. QuestionsAnswered'
  BY <1>1, <1>2 DEF QuestionsAnswered, Answer
<1>6. ASSUME NEW q \in Reqs, user[q] # NoUser, Remembered(q), pc[q] \in {"respond", "ended"}
      PROVE  Remembered(q)'
  <2>1. CASE user[q] = u
    BY <2>1, <1>1, <1>6 DEF Remembered
  <2>2. CASE user[q] # u
    <3>1. user[q] \in Users
      BY <1>6 DEF TypeOK
    <3>2. history'[user[q]] = history[user[q]]
      BY <3>1, <2>2, <1>2
    <3> QED
      BY <3>2, <1>1, <1>6 DEF Remembered, Answer
  <2> QED
    BY <2>1, <2>2
<1>7. RespondRemembered'
  BY <1>1, <1>6 DEF RespondRemembered
<1>8. AnsweredIsRemembered'
  <2> SUFFICES ASSUME NEW q \in Reqs, got[q] = "answer", ~streaming[q], user[q] # NoUser
               PROVE  Remembered(q)'
    BY <1>1 DEF AnsweredIsRemembered, Remembered
  <2>1. Remembered(q) /\ pc[q] = "ended"
    BY DEF AnsweredIsRemembered, Remembered, PcInv
  <2> QED
    BY <2>1, <1>6
<1> QED
  BY <1>3, <1>4, <1>5, <1>7, <1>8, <1>9

\* Every step preserves the invariant.
LEMMA NextInv == IndInv /\ [Next]_vars => IndInv'
<1> SUFFICES ASSUME IndInv, [Next]_vars PROVE IndInv'
  OBVIOUS
<1>1. CASE \E r \in Reqs : SaveUser(r) \/ SaveAnswer(r)
  BY <1>1, SaveSteps
<1>2. CASE \E r \in Reqs : \/ Search(r) \/ LoadHistory(r) \/ Complete(r) \/ StreamDelta(r)
                           \/ StreamFinal(r) \/ Respond(r) \/ Fails(r) \/ Disconnect(r)
  BY <1>2, LocalSteps
<1>3. CASE \E u \in Users : ClearHistory(u)
  BY <1>3, ClearStep
<1>4. CASE UNCHANGED vars
  BY <1>4 DEF vars, inputs, IndInv, TypeOK, PcInv, QuestionBeforeAnswer, AnswerArrived,
              QuestionsAnswered, AnswersSaved, OwnHistory, RespondRemembered, AnsweredIsRemembered, Remembered,
              Answer, HasUser
<1> QED
  BY <1>1, <1>2, <1>3, <1>4 DEF Next, RequestStep

\* The inductive invariant holds in every reachable state.
LEMMA Invariance == Spec => []IndInv
BY InitInv, NextInv, PTL DEF Spec

\* Types, and the bound on every history.
THEOREM TypeCorrect == Spec => []TypeOK
<1>1. IndInv => TypeOK
  BY DEF IndInv
<1> QED
  BY <1>1, Invariance, PTL

\* Questions come before their answers and nothing is stored twice.
THEOREM HistoryIsOrdered == Spec => []QuestionBeforeAnswer
<1>1. IndInv => QuestionBeforeAnswer
  BY DEF IndInv
<1> QED
  BY <1>1, Invariance, PTL

\* Nothing of an unfinished answer is stored, and a question stays without its
\* answer only when its request was broken off.
THEOREM HistoryWholeUnlessBroken == Spec => []HalfTurnsAreBroken
<1>1. IndInv => HalfTurnsAreBroken
  BY DEF IndInv, AnswerArrived, QuestionsAnswered, HalfTurnsAreBroken
<1> QED
  BY <1>1, Invariance, PTL

\* No message of one user reaches another's history or prompt.
THEOREM HistoryIsOwn == Spec => []OwnHistory
<1>1. IndInv => OwnHistory
  BY DEF IndInv
<1> QED
  BY <1>1, Invariance, PTL

\* An answered, non-streaming turn is in the history until cleared or crowded out.
THEOREM AnswersAreRemembered == Spec => []AnsweredIsRemembered
<1>1. IndInv => AnsweredIsRemembered
  BY DEF IndInv
<1> QED
  BY <1>1, Invariance, PTL
=============================================================================
