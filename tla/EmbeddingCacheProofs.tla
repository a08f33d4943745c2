------------------------ MODULE EmbeddingCacheProofs ------------------------
(***************************************************************************)
(* The safety properties of EmbeddingCache, for any number of calls, texts *)
(* and models and batches of any size.                                     *)
(***************************************************************************)
EXTENDS EmbeddingCache, TLAPS

\* A text without a result is still ahead of the loop that will fill it in.
Ahead(c, j) ==
    \/ pc[c] = "raised"
    \/ pc[c] = "lookup" /\ pos[c] <= j
    \/ /\ pc[c] \in {"lookup", "openai", "write"}
       /\ \E k \in DOMAIN missing[c] : missing[c][k] = j /\ (pc[c] = "write" => pos[c] <= k)

\* What holds of a call between two awaits.
CallInv(c) ==
    /\ DOMAIN results[c] = DOMAIN batch[c]
    /\ \A k \in DOMAIN missing[c] : missing[c][k] \in DOMAIN batch[c]
    /\ pc[c] = "openai" => pos[c] = 1
    /\ \A j \in DOMAIN batch[c] :
        \/ results[c][j] = Embedding(model[c], batch[c][j])
        \/ results[c][j] = NoVector /\ Ahead(c, j)

CallsInv == \A c \in Calls : CallInv(c)

IndInv == TypeOK /\ CacheIsSound /\ CallsInv

Results == UNION {[1 .. n -> Vectors \cup {NoVector}] : n \in 0 .. MaxTexts}

-----------------------------------------------------------------------------
\* A batch is a sequence.
LEMMA BatchIsSeq ==
    ASSUME NEW b \in Batches
    PROVE  b \in Seq(Texts) /\ Len(b) \in 0 .. MaxTexts /\ DOMAIN b = 1 .. Len(b)
<1>1. PICK n \in 0 .. MaxTexts : b \in [1 .. n -> Texts]
  BY DEF Batches
<1>2. n \in Nat
  BY CacheAssumption
<1>3. b \in Seq(Texts) /\ Len(b) = n
  BY <1>1, <1>2
<1> QED
  BY <1>1, <1>3

\* Filling in a result keeps the list of results.
LEMMA FilledResults ==
    ASSUME NEW s \in Results, NEW j \in DOMAIN s, NEW v \in Vectors \cup {NoVector}
    PROVE  [s EXCEPT ![j] = v] \in Results /\ DOMAIN [s EXCEPT ![j] = v] = DOMAIN s
<1>1. PICK n \in 0 .. MaxTexts : s \in [1 .. n -> Vectors \cup {NoVector}]
  BY DEF Results
<1>2. [s EXCEPT ![j] = v] \in [1 .. n -> Vectors \cup {NoVector}]
  BY <1>1
<1> QED
  BY <1>1, <1>2 DEF Results

\* The invariant holds before any call.
LEMMA InitInv == Init => IndInv
<1> SUFFICES ASSUME Init PROVE IndInv
  OBVIOUS
<1> USE CacheAssumption
<1>1. \A c \in Calls : batch[c] \in Seq(Texts) /\ Len(batch[c]) \in 0 .. MaxTexts
                       /\ DOMAIN batch[c] = 1 .. Len(batch[c])
  BY BatchIsSeq DEF Init
<1>2. \A c \in Calls : /\ pc[c] = IF batch[c] = <<>> THEN "returned" ELSE "lookup"
                       /\ pos[c] = 1 /\ missing[c] = <<>>
                       /\ results[c] = [j \in DOMAIN batch[c] |-> NoVector]
  BY DEF Init
<1>3. TypeOK
  <2>1. results \in [Calls -> Results]
    <3>1. ASSUME NEW c \in Calls PROVE [j \in DOMAIN batch[c] |-> NoVector] \in Results
      BY <1>1 DEF Results
    <3> QED
      BY <3>1 DEF Init
  <2>2. missing \in [Calls -> Seq(1 .. MaxTexts)] /\ pos \in [Calls -> Nat \ {0}]
    BY DEF Init
  <2>3. /\ batch \in [Calls -> Batches] /\ model \in [Calls -> Models]
        /\ pc \in [Calls -> {"lookup", "openai", "write", "returned", "raised"}]
        /\ cache \in [Keys -> Vectors \cup {NoVector}]
    BY DEF Init
  <2>4. \A c \in Calls : pc[c] = "lookup" => pos[c] <= Len(batch[c])
    <3> TAKE c \in Calls
    <3> HAVE pc[c] = "lookup"
    <3>1. batch[c] # <<>> /\ pos[c] = 1
      BY <1>2
    <3>2. Len(batch[c]) # 0 /\ Len(batch[c]) \in Nat
      BY <1>1, <3>1
    <3> QED
      BY <3>1, <3>2
  <2>5. \A c \in Calls : pc[c] \notin {"openai", "write"}
    BY <1>2
  <2> QED
    BY <2>1, <2>2, <2>3, <2>4, <2>5 DEF TypeOK, Results
<1>4. CacheIsSound
  BY DEF Init, CacheIsSound, Key, Keys
<1>5. ASSUME NEW c \in Calls PROVE CallInv(c)
  <2>0. missing[c] = <<>> /\ results[c] = [j \in DOMAIN batch[c] |-> NoVector]
    BY <1>2
  <2>1. DOMAIN missing[c] = {} /\ DOMAIN results[c] = DOMAIN batch[c]
    BY <2>0
  <2>2. \A j \in DOMAIN batch[c] : results[c][j] = NoVector /\ pc[c] = "lookup" /\ pos[c] <= j
    <3> TAKE j \in DOMAIN batch[c]
    <3>1. batch[c] # <<>>
      BY <1>1
    <3>2. pc[c] = "lookup" /\ pos[c] = 1
      BY <1>2, <3>1
    <3>3. 1 <= j
      BY <1>1
    <3> QED
      BY <2>0, <3>2, <3>3
  <2>3. pc[c] # "openai"
    BY <1>2
  <2> QED
    BY <2>1, <2>2, <2>3 DEF CallInv, Ahead
<1> QED
  BY <1>3, <1>4, <1>5 DEF IndInv, CallsInv

\* A step of one call leaves the others alone.
LEMMA OtherCall ==
    ASSUME NEW d \in Calls, CallInv(d), UNCHANGED args,
           pc'[d] = pc[d], pos'[d] = pos[d], missing'[d] = missing[d], results'[d] = results[d]
    PROVE  CallInv(d)'
BY DEF CallInv, Ahead, args, Embedding

\* What a step of call c starts from.
LEMMA CallFacts ==
    ASSUME IndInv, NEW c \in Calls
    PROVE  /\ batch[c] \in Seq(Texts) /\ Len(batch[c]) \in 0 .. MaxTexts
           /\ DOMAIN batch[c] = 1 .. Len(batch[c])
           /\ model[c] \in Models
           /\ pos[c] \in Nat \ {0}
           /\ missing[c] \in Seq(1 .. MaxTexts)
           /\ results[c] \in Results
           /\ CallInv(c)
BY BatchIsSeq DEF IndInv, TypeOK, CallsInv, Results

\* A lookup of one text.
LEMMA LookupStep ==
    ASSUME IndInv, NEW c \in Calls, Lookup(c)
    PROVE  IndInv'
<1> USE CacheAssumption
<1> DEFINE b == batch[c]
           p == pos[c]
           n == Len(b)
           v == cache[Key(model[c], b[p])]
           ms == IF v = NoVector THEN Append(missing[c], p) ELSE missing[c]
<1>1. /\ b \in Seq(Texts) /\ n \in 0 .. MaxTexts /\ DOMAIN b = 1 .. n
      /\ model[c] \in Models /\ p \in Nat \ {0} /\ missing[c] \in Seq(1 .. MaxTexts)
      /\ results[c] \in Results /\ CallInv(c)
  BY CallFacts
<1>2. pc[c] = "lookup" /\ p \in 1 .. n
  BY <1>1 DEF Lookup, IndInv, TypeOK
<1>3. b[p] \in Texts
  BY <1>1, <1>2
<1>4. v \in {NoVector, Embedding(model[c], b[p])} /\ v \in Vectors \cup {NoVector}
  BY <1>1, <1>3 DEF IndInv, CacheIsSound, Embedding, Vectors
<1>5. UNCHANGED <<batch, model, cache>>
  BY DEF Lookup, args
<1>6. /\ results' = [results EXCEPT ![c] = [results[c] EXCEPT ![p] = v]]
      /\ missing' = [missing EXCEPT ![c] = ms]
  BY DEF Lookup
<1>7. p \in DOMAIN results[c] /\ DOMAIN results[c] = DOMAIN b
  BY <1>1, <1>2 DEF CallInv
<1>8. /\ results'[c] = [results[c] EXCEPT ![p] = v] /\ missing'[c] = ms
      /\ \A d \in Calls : d # c => results'[d] = results[d] /\ missing'[d] = missing[d]
  BY <1>6 DEF IndInv, TypeOK
<1>9. ms \in Seq(1 .. MaxTexts)
  <2>1. p \in 1 .. MaxTexts
    BY <1>1, <1>2
  <2>2. Append(missing[c], p) \in Seq(1 .. MaxTexts)
    BY <1>1, <2>1
  <2> QED
    BY <1>1, <2>2
<1>10. \A d \in Calls : d # c => pc'[d] = pc[d] /\ pos'[d] = pos[d]
  BY DEF Lookup, AfterLookup, IndInv, TypeOK
<1>11. \/ p < n /\ pos'[c] = p + 1 /\ pc'[c] = "lookup"
       \/ p = n /\ pos'[c] = 1 /\ pc'[c] = IF ms = <<>> THEN "returned" ELSE "openai"
  <2>1. CASE p < n
    BY <2>1, <1>2 DEF Lookup, AfterLookup, IndInv, TypeOK
  <2>2. CASE ~(p < n)
    <3>1. p = n
      BY <1>1, <1>2, <2>2
    <3> QED
      BY <2>2, <3>1, <1>8 DEF Lookup, AfterLookup, IndInv, TypeOK
  <2> QED
    BY <2>1, <2>2
<1>12. \A k \in DOMAIN missing[c] : k \in DOMAIN ms /\ ms[k] = missing[c][k]
  <2>1. CASE v = NoVector
    <3>1. ms = Append(missing[c], p)
      BY <2>1
    <3> HIDE DEF ms
    <3> QED
      BY <3>1, <1>1
  <2>2. CASE v # NoVector
    BY <2>2
  <2> QED
    BY <2>1, <2>2
<1>13. v = NoVector => \E k \in DOMAIN ms : ms[k] = p
  <2> HAVE v = NoVector
  <2>1. ms = Append(missing[c], p)
    OBVIOUS
  <2> HIDE DEF ms, v
  <2>2. Len(missing[c]) + 1 \in DOMAIN ms /\ ms[Len(missing[c]) + 1] = p
    BY <2>1, <1>1
  <2> QED
    BY <2>2
<1>14. \A k \in DOMAIN ms : ms[k] \in DOMAIN b
  <2>1. CASE v = NoVector
    <3>1. ms = Append(missing[c], p)
      BY <2>1
    <3> HIDE DEF ms
    <3>2. p \in DOMAIN b /\ \A k \in DOMAIN missing[c] : missing[c][k] \in DOMAIN b
      BY <1>1, <1>2 DEF CallInv
    <3> HIDE DEF b, p
    <3>3. \A k \in DOMAIN ms : (k \in DOMAIN missing[c] /\ ms[k] = missing[c][k]) \/ ms[k] = p
      BY <3>1, <1>1
    <3> QED
      BY <3>2, <3>3
  <2>2. CASE v # NoVector
    BY <2>2, <1>1 DEF CallInv
  <2> QED
    BY <2>1, <2>2
<1>15. TypeOK'
  <2>1. /\ pc' \in [Calls -> {"lookup", "openai", "write", "returned", "raised"}]
        /\ pos' \in [Calls -> Nat \ {0}]
    <3>1. pc' \in [Calls -> {"lookup", "openai", "write", "returned", "raised"}]
      BY DEF Lookup, AfterLookup, IndInv, TypeOK
    <3>2. p + 1 \in Nat \ {0}
      BY <1>1
    <3>3. pos' = [pos EXCEPT ![c] = p + 1] \/ pos' = [pos EXCEPT ![c] = 1]
      BY DEF Lookup, AfterLookup
    <3>4. pos \in [Calls -> Nat \ {0}] /\ 1 \in Nat \ {0}
      BY DEF IndInv, TypeOK
    <3>5. pos' \in [Calls -> Nat \ {0}]
      BY <3>2, <3>3, <3>4, Zenon
    <3> QED
      BY <3>1, <3>5
  <2>2. missing' \in [Calls -> Seq(1 .. MaxTexts)]
    BY <1>6, <1>9 DEF IndInv, TypeOK
  <2>3. [results[c] EXCEPT ![p] = v] \in Results
    BY <1>1, <1>4, <1>7, FilledResults
  <2>4. results' \in [Calls -> Results]
    BY <1>6, <2>3 DEF IndInv, TypeOK, Results
  <2>5. pc'[c] = "lookup" => pos'[c] <= Len(batch'[c])
    BY <1>1, <1>5, <1>11
  <2>6. pc'[c] \in {"openai", "write"} => pos'[c] <= Len(missing'[c])
    <3> HAVE pc'[c] \in {"openai", "write"}
    <3>1. pos'[c] = 1 /\ ms # <<>>
      BY <1>11
    <3> HIDE DEF ms
    <3>2. Len(ms) # 0 /\ Len(ms) \in Nat
      BY <1>9, <3>1
    <3> QED
      BY <1>8, <3>1, <3>2
  <2>7. \A d \in Calls : /\ pc'[d] = "lookup" => pos'[d] <= Len(batch'[d])
                         /\ pc'[d] \in {"openai", "write"} => pos'[d] <= Len(missing'[d])
    <3> TAKE d \in Calls
    <3>1. CASE d = c
      BY <3>1, <2>5, <2>6
    <3>2. CASE d # c
      BY <3>2, <1>5, <1>8, <1>10 DEF IndInv, TypeOK
    <3> QED
      BY <3>1, <3>2
  <2> QED
    BY <2>1, <2>2, <2>4, <2>7, <1>5 DEF IndInv, TypeOK, Results
<1>16. CacheIsSound'
  BY <1>5 DEF IndInv, CacheIsSound, Key, Embedding
<1>17. CallInv(c)'
  <2>1. DOMAIN results'[c] = DOMAIN b /\ \A j \in DOMAIN b : j # p => results'[c][j] = results[c][j]
    BY <1>7, <1>8
  <2>2. results'[c][p] = v
    BY <1>7, <1>8
  <2>3. \A k \in DOMAIN missing'[c] : missing'[c][k] \in DOMAIN b
    BY <1>8, <1>14
  <2>4. ASSUME NEW j \in DOMAIN b, \E k \in DOMAIN ms : ms[k] = j
        PROVE  Ahead(c, j)'
    <3>1. PICK k \in DOMAIN ms : ms[k] = j
      BY <2>4
    <3>2. ms # <<>>
      BY <3>1
    <3>3. pc'[c] \in {"lookup", "openai"}
      BY <3>2, <1>11
    <3> HIDE DEF ms
    <3> QED
      BY <3>1, <3>3, <1>8 DEF Ahead
  <2>5. ASSUME NEW j \in DOMAIN b
        PROVE  \/ results'[c][j] = Embedding(model[c], b[j])
               \/ results'[c][j] = NoVector /\ Ahead(c, j)'
    <3>1. CASE j = p
      BY <3>1, <2>2, <2>4, <1>4, <1>13
    <3>2. CASE j # p /\ results[c][j] # Embedding(model[c], b[j])
      <4>1. results'[c][j] = NoVector /\ Ahead(c, j)
        BY <3>2, <2>1, <1>1 DEF CallInv
      <4>2. CASE p <= j
        <5>1. p < j /\ j <= n /\ j \in Nat
          BY <4>2, <3>2, <1>1, <1>2
        <5>2. p < n /\ p + 1 <= j /\ p # n
          BY <5>1, <1>1, <1>2
        <5>3. pos'[c] <= j /\ pc'[c] = "lookup"
          BY <5>2, <1>11
        <5> QED
          BY <4>1, <5>3 DEF Ahead
      <4>3. CASE \E k \in DOMAIN missing[c] : missing[c][k] = j
        BY <4>1, <4>3, <1>12, <2>4
      <4> QED
        BY <4>1, <4>2, <4>3, <1>2 DEF Ahead
    <3>3. CASE j # p /\ results[c][j] = Embedding(model[c], b[j])
      BY <3>3, <2>1
    <3> QED
      BY <3>1, <3>2, <3>3
  <2>6. pc'[c] = "openai" => pos'[c] = 1
    BY <1>11
  <2> HIDE DEF p, v, ms
  <2> QED
    BY <2>1, <2>3, <2>5, <2>6, <1>5 DEF CallInv, Embedding
<1>18. \A d \in Calls : d # c => CallInv(d)'
  BY <1>5, <1>8, <1>10, OtherCall DEF IndInv, CallsInv, args
<1> QED
  BY <1>15, <1>16, <1>17, <1>18 DEF IndInv, CallsInv

\* A result is filled in and perhaps cached.
LEMMA WriteStep ==
    ASSUME IndInv, NEW c \in Calls, WriteBack(c)
    PROVE  IndInv'
<1> USE CacheAssumption
<1> DEFINE b == batch[c]
           q == pos[c]
           ms == missing[c]
           i == ms[q]
           v == Embedding(model[c], b[i])
<1>1. /\ b \in Seq(Texts) /\ Len(b) \in 0 .. MaxTexts /\ DOMAIN b = 1 .. Len(b)
      /\ model[c] \in Models /\ q \in Nat \ {0} /\ ms \in Seq(1 .. MaxTexts)
      /\ results[c] \in Results /\ CallInv(c)
  BY CallFacts
<1>2. pc[c] = "write" /\ q <= Len(ms)
  BY DEF WriteBack, IndInv, TypeOK
<1>3. Len(ms) \in Nat /\ DOMAIN ms = 1 .. Len(ms)
  BY <1>1
<1>4. q \in DOMAIN ms
  BY <1>1, <1>2, <1>3
<1>5. i \in DOMAIN b
  BY <1>1, <1>4 DEF CallInv
<1>6. b[i] \in Texts
  BY <1>1, <1>5
<1>7. v \in Vectors
  BY <1>1, <1>6 DEF Embedding, Vectors
<1>8. UNCHANGED <<batch, model, missing>>
  BY DEF WriteBack, args
<1>9. /\ results' = [results EXCEPT ![c] = [results[c] EXCEPT ![i] = v]]
      /\ cache' = [cache EXCEPT ![Key(model[c], b[i])] = v] \/ cache' = cache
  BY DEF WriteBack, ResultIndex
<1>10. /\ results'[c] = [results[c] EXCEPT ![i] = v]
       /\ \A d \in Calls : d # c => results'[d] = results[d]
  BY <1>9 DEF IndInv, TypeOK
<1>11. i \in DOMAIN results[c] /\ DOMAIN results[c] = DOMAIN b
  BY <1>1, <1>5 DEF CallInv
<1>12. \A d \in Calls : d # c => pc'[d] = pc[d] /\ pos'[d] = pos[d]
  BY DEF WriteBack, AfterWrite, IndInv, TypeOK
<1>13. \/ q < Len(ms) /\ pos'[c] = q + 1 /\ pc'[c] = "write"
       \/ ~(q < Len(ms)) /\ pc'[c] = "returned"
  BY <1>2 DEF WriteBack, AfterWrite, IndInv, TypeOK
<1>14. TypeOK'
  <2>1. pc' \in [Calls -> {"lookup", "openai", "write", "returned", "raised"}]
    BY DEF WriteBack, AfterWrite, IndInv, TypeOK
  <2>2. pos' \in [Calls -> Nat \ {0}]
    <3>1. q + 1 \in Nat \ {0}
      BY <1>1
    <3>2. pos' = [pos EXCEPT ![c] = q + 1] \/ pos' = pos
      BY DEF WriteBack, AfterWrite
    <3> QED
      BY <3>1, <3>2 DEF IndInv, TypeOK
  <2>3. [results[c] EXCEPT ![i] = v] \in Results
    BY <1>1, <1>7, <1>11, FilledResults
  <2>4. results' \in [Calls -> Results]
    BY <1>9, <2>3 DEF IndInv, TypeOK, Results
  <2>5. cache' \in [Keys -> Vectors \cup {NoVector}]
    BY <1>7, <1>9 DEF IndInv, TypeOK
  <2>6. \A d \in Calls : /\ pc'[d] = "lookup" => pos'[d] <= Len(batch'[d])
                         /\ pc'[d] \in {"openai", "write"} => pos'[d] <= Len(missing'[d])
    <3> TAKE d \in Calls
    <3>1. CASE d = c
      <4>1. pc'[c] \in {"openai", "write"} => q < Len(ms) /\ pos'[c] = q + 1
        BY <1>13
      <4>2. pc'[c] \in {"openai", "write"} => pos'[c] <= Len(ms)
        BY <4>1, <1>1, <1>3
      <4> QED
        BY <3>1, <4>2, <1>8, <1>13
    <3>2. CASE d # c
      BY <3>2, <1>8, <1>12 DEF IndInv, TypeOK
    <3> QED
      BY <3>1, <3>2
  <2> QED
    BY <2>1, <2>2, <2>4, <2>5, <2>6, <1>8 DEF IndInv, TypeOK, Results
<1>15. CacheIsSound'
  <2> SUFFICES ASSUME NEW m \in Models, NEW t \in Texts
               PROVE  cache'[<<m, Digest[t]>>] \in {NoVector, [model |-> m, text |-> t]}
    BY DEF CacheIsSound, Key, Embedding
  <2>1. cache[<<m, Digest[t]>>] \in {NoVector, [model |-> m, text |-> t]}
    BY DEF IndInv, CacheIsSound, Key, Embedding
  <2>2. CASE m = model[c] /\ t = b[i]
    <3>1. cache \in [Keys -> Vectors \cup {NoVector}] /\ <<m, Digest[t]>> \in Keys
      BY DEF IndInv, TypeOK, Keys
    <3> QED
      BY <2>1, <2>2, <3>1, <1>9 DEF Key, Embedding
  <2>3. CASE ~(m = model[c] /\ t = b[i])
    <3>1. <<m, Digest[t]>> # Key(model[c], b[i])
      BY <2>3, <1>6 DEF Key
    <3>2. cache \in [Keys -> Vectors \cup {NoVector}] /\ <<m, Digest[t]>> \in Keys
      BY DEF IndInv, TypeOK, Keys
    <3> QED
      BY <2>1, <3>1, <3>2, <1>9
  <2> QED
    BY <2>2, <2>3
<1>16. CallInv(c)'
  <2>1. /\ DOMAIN results'[c] = DOMAIN b /\ results'[c][i] = v
        /\ \A j \in DOMAIN b : j # i => results'[c][j] = results[c][j]
    BY <1>10, <1>11
  <2>2. ASSUME NEW j \in DOMAIN b, j # i, results[c][j] # Embedding(model[c], b[j])
        PROVE  results'[c][j] = NoVector /\ Ahead(c, j)'
    <3>1. results[c][j] = NoVector /\ Ahead(c, j)
      BY <2>2, <1>1 DEF CallInv
    <3>2. PICK k \in DOMAIN ms : ms[k] = j /\ q <= k
      BY <3>1, <1>2 DEF Ahead
    <3>3. k # q
      BY <3>2, <2>2
    <3>4. q < k /\ k <= Len(ms) /\ k \in Nat
      BY <3>2, <3>3, <1>1, <1>3
    <3>5. q < Len(ms) /\ q + 1 <= k
      BY <3>4, <1>1, <1>3
    <3>6. pc'[c] = "write" /\ pos'[c] <= k
      BY <3>5, <1>13
    <3> QED
      BY <2>1, <2>2, <3>1, <3>2, <3>6, <1>8 DEF Ahead
  <2>3. ASSUME NEW j \in DOMAIN b
        PROVE  \/ results'[c][j] = Embedding(model[c], b[j])
               \/ results'[c][j] = NoVector /\ Ahead(c, j)'
    BY <2>1, <2>2
  <2>4. pc'[c] # "openai"
    BY <1>13
  <2>5. \A k \in DOMAIN missing'[c] : missing'[c][k] \in DOMAIN b
    BY <1>1, <1>8 DEF CallInv
  <2> HIDE DEF v, i, q
  <2> QED
    BY <2>1, <2>3, <2>4, <2>5, <1>8 DEF CallInv, Embedding
<1>17. \A d \in Calls : d # c => CallInv(d)'
  BY <1>8, <1>10, <1>12, OtherCall DEF IndInv, CallsInv, args
<1> QED
  BY <1>14, <1>15, <1>16, <1>17 DEF IndInv, CallsInv

\* OpenAI answers, or the call raises.
LEMMA PcSteps ==
    ASSUME IndInv, NEW c \in Calls, CallOpenai(c) \/ Raises(c)
    PROVE  IndInv'
<1>1. /\ UNCHANGED <<batch, model, pos, missing, results, cache>>
      /\ \/ pc[c] = "openai" /\ pc' = [pc EXCEPT ![c] = "write"]
         \/ pc' = [pc EXCEPT ![c] = "raised"]
  BY DEF CallOpenai, Raises, args
<1>2. \A d \in Calls : d # c => pc'[d] = pc[d]
  BY <1>1 DEF IndInv, TypeOK
<1>3. (pc[c] = "openai" /\ pc'[c] = "write") \/ pc'[c] = "raised"
  BY <1>1 DEF IndInv, TypeOK
<1>4. TypeOK'
  BY <1>1, <1>2, <1>3 DEF IndInv, TypeOK
<1>5. CacheIsSound'
  BY <1>1 DEF IndInv, CacheIsSound, Key, Embedding
<1>6. CallInv(c)'
  <2>1. DOMAIN missing[c] = 1 .. Len(missing[c]) /\ Len(missing[c]) \in Nat
    BY DEF IndInv, TypeOK
  <2>2. CallInv(c)
    BY DEF IndInv, CallsInv
  <2>3. \A k \in DOMAIN missing[c] : 1 <= k
    BY <2>1
  <2>4. CASE pc'[c] = "raised"
    BY <1>1, <2>2, <2>4 DEF CallInv, Ahead, Embedding
  <2>5. CASE pc[c] = "openai" /\ pc'[c] = "write"
    <3>1. pos[c] = 1
      BY <2>2, <2>5 DEF CallInv
    <3> QED
      BY <1>1, <2>2, <2>3, <2>5, <3>1 DEF CallInv, Ahead, Embedding
  <2> QED
    BY <1>3, <2>4, <2>5
<1>7. \A d \in Calls : d # c => CallInv(d)'
  BY <1>1, <1>2, OtherCall DEF IndInv, CallsInv, args
<1> QED
  BY <1>4, <1>5, <1>6, <1>7 DEF IndInv, CallsInv

\* An entry disappears.
LEMMA ExpireStep ==
    ASSUME IndInv, NEW k \in Keys, Expire(k)
    PROVE  IndInv'
<1>1. /\ UNCHANGED <<batch, model, pc, pos, missing, results>>
      /\ cache' = [cache EXCEPT ![k] = NoVector]
  BY DEF Expire, args
<1>2. TypeOK'
  BY <1>1 DEF IndInv, TypeOK
<1>3. CacheIsSound'
  <2> SUFFICES ASSUME NEW m \in Models, NEW t \in Texts
               PROVE  cache'[Key(m, t)] \in {NoVector, Embedding(m, t)}
    BY DEF CacheIsSound, Key, Embedding
  <2>1. Key(m, t) \in Keys
    BY CacheAssumption DEF Key, Keys
  <2> QED
    BY <1>1, <2>1 DEF IndInv, TypeOK, CacheIsSound
<1>4. CallsInv'
  BY <1>1, OtherCall DEF IndInv, CallsInv, args
<1> QED
  BY <1>2, <1>3, <1>4 DEF IndInv

\* Every step preserves the invariant.
LEMMA NextInv == IndInv /\ [Next]_vars => IndInv'
<1> SUFFICES ASSUME IndInv, [Next]_vars PROVE IndInv'
  OBVIOUS
<1>1. CASE \E c \in Calls : Lookup(c)
  BY <1>1, LookupStep
<1>2. CASE \E c \in Calls : WriteBack(c)
  BY <1>2, WriteStep
<1>3. CASE \E c \in Calls : CallOpenai(c) \/ Raises(c)
  BY <1>3, PcSteps
<1>4. CASE \E k \in Keys : Expire(k)
  BY <1>4, ExpireStep
<1>5. CASE UNCHANGED vars
  BY <1>5 DEF vars, args, IndInv, TypeOK, CacheIsSound, CallsInv, CallInv, Ahead, Key, Embedding
<1> QED
  BY <1>1, <1>2, <1>3, <1>4, <1>5 DEF Next, CallStep

\* The inductive invariant holds in every reachable state.
LEMMA Invariance == Spec => []IndInv
BY InitInv, NextInv, PTL DEF Spec

\* Types, and the bounds of the two loops of embed_batch.
THEOREM TypeCorrect == Spec => []TypeOK
<1>1. IndInv => TypeOK
  BY DEF IndInv
<1> QED
  BY <1>1, Invariance, PTL

\* No call ever finds an embedding of another text or model in the cache.
THEOREM CacheStaysSound == Spec => []CacheIsSound
<1>1. IndInv => CacheIsSound
  BY DEF IndInv
<1> QED
  BY <1>1, Invariance, PTL

\* embed_batch returns one embedding for each text, in the order of the texts.
THEOREM BatchesInOrder == Spec => []ReturnedInOrder
<1>1. IndInv => ReturnedInOrder
  BY DEF IndInv, CallsInv, CallInv, Ahead, ReturnedInOrder
<1> QED
  BY <1>1, Invariance, PTL
=============================================================================
