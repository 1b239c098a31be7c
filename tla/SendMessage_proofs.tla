------------------------- MODULE SendMessage_proofs -------------------------
(***************************************************************************)
(* What holds of sending under idempotency keys for any number of          *)
(* requests, keys and cache entries.                                       *)
(***************************************************************************)
EXTENDS SendMessage, SequenceTheorems, TLAPS

USE CacheAssumption, SendAssumption
    DEF CacheAssumption, SendAssumption, cacheVars, trackerVars, handlerVars, tdVars

Entries == {Absent, Pending} \cup {Done(x) : x \in Responses}
Steps   == {"new", "checking", "typing", "calling", "waiting", "concluding", "done"}

\* The client was told that nothing was sent for it.
GaveUp(r) == answer[r] \in {Invalid, Failure}

\* What is known of a request by the place its handler has come to.
HandlerHistory ==
    \A r \in Requests :
        /\ pc[r] = "new" => key[r] = NoKey
        /\ answer[r] = NoAnswer <=> pc[r] # "done"
        /\ pc[r] \in {"new", "checking", "typing"} => td[r] = "none" /\ reply[r] = "none"
        /\ pc[r] \in {"waiting", "concluding"} => reply[r] = "message"

\* What the handler was told is what TDLib did, unless it was told of an error.
ToldTheTruth ==
    \A r \in Requests :
        /\ reply[r] = "message" => td[r] \in {"accepted", "sent", "failed"}
        /\ outcome[r] # "none" => td[r] = outcome[r]
        /\ GaveUp(r) => reply[r] = "error" \/ td[r] \in {"none", "failed"}

\* As long as a key has not been evicted, all its requests but one have given up,
\* and it is free again only once all have.
KeyUse ==
    \A k \in Keys \ evicted :
        /\ entries[k] = Absent => \A r \in Requests : key[r] = k => GaveUp(r)
        /\ \A r1, r2 \in Requests :
             key[r1] = k /\ key[r2] = k /\ r1 # r2 => GaveUp(r1) \/ GaveUp(r2)

IInv == SendInv /\ HandlerHistory /\ ToldTheTruth /\ KeyUse /\ ReplayIsTrue /\ AnswerIsKept
-----------------------------------------------------------------------------

\* A list in which nothing stands twice, and what stands in it.
Distinct(s)  == \A m, n \in 1 .. Len(s) : s[m] = s[n] => m = n
Stands(x, s) == \E n \in 1 .. Len(s) : s[n] = x

\* The least of the places where something stands is one of them.
LEMMA FirstPlace ==
    ASSUME NEW S, NEW s \in Seq(S), NEW e, Stands(e, s), Distinct(s)
    PROVE  /\ SelectInSeq(s, LAMBDA v : v = e) \in 1 .. Len(s)
           /\ s[SelectInSeq(s, LAMBDA v : v = e)] = e
<1> DEFINE I == {i \in 1 .. Len(s) : s[i] = e}
<1>1. PICK n \in 1 .. Len(s) : s[n] = e
  BY DEF Stands
<1>2. I = {n}
  BY <1>1 DEF Distinct
<1>3. Min(I) = n
  <2>1. n \in Int
    BY LenProperties
  <2>2. \A x \in I : (\A y \in I : x =< y) <=> x = n
    BY <1>2, <2>1
  <2>3. \E x \in I : \A y \in I : x =< y
    BY <1>2, <2>2
  <2> QED BY <1>2, <2>2, <2>3 DEF Min
<1>4. SelectInSeq(s, LAMBDA v : v = e) = n
  BY <1>2, <1>3 DEF SelectInSeq
<1> QED BY <1>1, <1>4

\* RemoveFirst takes one thing out and leaves the others, each once.
LEMMA RemoveFirstProperties ==
    ASSUME NEW S, NEW s \in Seq(S), NEW e, Distinct(s)
    PROVE  /\ RemoveFirst(s, e) \in Seq(S)
           /\ Len(RemoveFirst(s, e)) <= Len(s)
           /\ Distinct(RemoveFirst(s, e))
           /\ \A x : Stands(x, RemoveFirst(s, e)) <=> x # e /\ Stands(x, s)
<1>0. Len(s) \in Nat /\ \A n \in 1 .. Len(s) : s[n] \in S
  BY LenProperties
<1>1. CASE ~ Stands(e, s)
  <2>1. RemoveFirst(s, e) = s
    BY <1>1 DEF RemoveFirst, Stands
  <2> QED BY <1>0, <1>1, <2>1
<1>2. CASE Stands(e, s)
  <2> DEFINE i == SelectInSeq(s, LAMBDA v : v = e)
             a == SubSeq(s, 1, i - 1)
             b == SubSeq(s, i + 1, Len(s))
             t == a \o b
  <2>1. i \in 1 .. Len(s) /\ s[i] = e
    BY <1>2, FirstPlace
  <2>2. RemoveFirst(s, e) = t
    BY <1>2 DEF RemoveFirst, RemoveAt, Stands
  <2> HIDE DEF i
  <2>3. /\ a \in Seq(S) /\ Len(a) = i - 1
        /\ \A n \in 1 .. i - 1 : a[n] = s[n]
    <3>1. \A n \in 1 .. i - 1 : s[n] \in S
      BY <1>0, <2>1
    <3>2. 1 \in Int /\ i - 1 \in Int
      BY <1>0, <2>1
    <3> HIDE DEF a
    <3>3. /\ a \in Seq(S) /\ Len(a) = (IF 1 <= i - 1 THEN (i - 1) - 1 + 1 ELSE 0)
          /\ \A n \in 1 .. (i - 1) - 1 + 1 : a[n] = s[1 + n - 1]
      BY <3>1, <3>2, SubSeqProperties DEF a
    <3> QED BY <1>0, <2>1, <3>3
  <2>4. /\ b \in Seq(S) /\ Len(b) = Len(s) - i
        /\ \A n \in 1 .. Len(s) - i : b[n] = s[n + i]
    <3>1. \A n \in i + 1 .. Len(s) : s[n] \in S
      BY <1>0, <2>1
    <3>2. i + 1 \in Int /\ Len(s) \in Int
      BY <1>0, <2>1
    <3> HIDE DEF b
    <3>3. /\ b \in Seq(S)
          /\ Len(b) = (IF i + 1 <= Len(s) THEN Len(s) - (i + 1) + 1 ELSE 0)
          /\ \A n \in 1 .. Len(s) - (i + 1) + 1 : b[n] = s[(i + 1) + n - 1]
      BY <3>1, <3>2, SubSeqProperties DEF b
    <3> QED BY <1>0, <2>1, <3>3
  <2> HIDE DEF a, b
  <2>5. /\ t \in Seq(S) /\ Len(t) = Len(s) - 1
        /\ \A n \in 1 .. Len(s) - 1 : t[n] = IF n < i THEN s[n] ELSE s[n + 1]
    <3>1. /\ t \in Seq(S) /\ Len(t) = Len(a) + Len(b)
          /\ \A n \in 1 .. Len(a) + Len(b) :
               t[n] = IF n <= Len(a) THEN a[n] ELSE b[n - Len(a)]
      BY <2>3, <2>4, ConcatProperties
    <3>2. Len(t) = Len(s) - 1
      BY <1>0, <2>1, <2>3, <2>4, <3>1
    <3>3. ASSUME NEW n \in 1 .. Len(s) - 1
          PROVE  t[n] = IF n < i THEN s[n] ELSE s[n + 1]
      <4>1. CASE n < i
        BY <1>0, <2>1, <2>3, <2>4, <3>1, <4>1
      <4>2. CASE n >= i
        <5>1. n - (i - 1) \in 1 .. Len(s) - i /\ (n - (i - 1)) + i = n + 1
          BY <1>0, <2>1, <4>2
        <5>2. t[n] = b[n - (i - 1)]
          BY <1>0, <2>1, <2>3, <2>4, <3>1, <4>2
        <5> QED BY <1>0, <2>1, <2>4, <4>2, <5>1, <5>2
      <4>3. n < i \/ n >= i
        BY <1>0, <2>1
      <4> QED BY <4>1, <4>2, <4>3
    <3> QED BY <3>1, <3>2, <3>3
  <2> HIDE DEF t
  <2>6. Distinct(t)
    BY <1>0, <2>1, <2>5 DEF Distinct
  <2>7. ASSUME NEW x PROVE Stands(x, t) <=> x # e /\ Stands(x, s)
    <3>1. ASSUME NEW n \in 1 .. Len(t), t[n] = x PROVE x # e /\ Stands(x, s)
      BY <1>0, <2>1, <2>5, <3>1 DEF Distinct, Stands
    <3>2. ASSUME NEW n \in 1 .. Len(s), s[n] = x, x # e PROVE Stands(x, t)
      <4>1. CASE n < i
        BY <1>0, <2>1, <2>5, <3>2, <4>1 DEF Stands
      <4>2. CASE n > i
        <5>1. n - 1 \in 1 .. Len(t) /\ ~ (n - 1 < i) /\ (n - 1) + 1 = n
          BY <1>0, <2>1, <2>5, <4>2
        <5> QED BY <2>5, <3>2, <5>1 DEF Stands
      <4> QED BY <1>0, <2>1, <3>2, <4>1, <4>2
    <3> QED BY <3>1, <3>2 DEF Stands
  <2> QED BY <1>0, <2>2, <2>5, <2>6, <2>7
<1> QED BY <1>1, <1>2

\* Dropping from the front and adding at the end: what is left is what was not
\* dropped, and the new one.
LEMMA DropAndAppend ==
    ASSUME NEW S, NEW s \in Seq(S), NEW d \in 0 .. Len(s), NEW e \in S,
           Distinct(s), ~ Stands(e, s)
    PROVE  LET t == Append(SubSeq(s, d + 1, Len(s)), e)
           IN  /\ t \in Seq(S) /\ Len(t) = Len(s) - d + 1
               /\ Distinct(t)
               /\ \A x : Stands(x, t) <=>
                    x = e \/ (Stands(x, s) /\ x \notin {s[n] : n \in 1 .. d})
<1> DEFINE b == SubSeq(s, d + 1, Len(s))
           t == Append(b, e)
<1>0. Len(s) \in Nat /\ \A n \in 1 .. Len(s) : s[n] \in S
  BY LenProperties
<1>1. /\ b \in Seq(S) /\ Len(b) = Len(s) - d
      /\ \A n \in 1 .. Len(s) - d : b[n] = s[n + d]
  <2>1. \A n \in d + 1 .. Len(s) : s[n] \in S
    BY <1>0
  <2>2. d + 1 \in Int /\ Len(s) \in Int
    BY <1>0
  <2> HIDE DEF b
  <2>3. /\ b \in Seq(S)
        /\ Len(b) = (IF d + 1 <= Len(s) THEN Len(s) - (d + 1) + 1 ELSE 0)
        /\ \A n \in 1 .. Len(s) - (d + 1) + 1 : b[n] = s[(d + 1) + n - 1]
    BY <2>1, <2>2, SubSeqProperties DEF b
  <2> QED BY <1>0, <2>3
<1> HIDE DEF b
<1>2. /\ t \in Seq(S) /\ Len(t) = Len(s) - d + 1
      /\ \A n \in 1 .. Len(s) - d : t[n] = s[n + d]
      /\ t[Len(s) - d + 1] = e
  <2>1. /\ t \in Seq(S) /\ Len(t) = Len(b) + 1
        /\ \A n \in 1 .. Len(b) : t[n] = b[n]
        /\ t[Len(b) + 1] = e
    BY <1>1, AppendProperties
  <2> HIDE DEF t
  <2> QED BY <1>0, <1>1, <2>1
<1> HIDE DEF t
<1>3. Distinct(t)
  <2> SUFFICES ASSUME NEW m \in 1 .. Len(t), NEW n \in 1 .. Len(t), t[m] = t[n], m < n
               PROVE  FALSE
    BY <1>0, <1>2 DEF Distinct
  <2>1. m \in 1 .. Len(s) - d /\ m + d \in 1 .. Len(s)
    BY <1>0, <1>2
  <2>2. CASE n \in 1 .. Len(s) - d
    BY <1>0, <1>2, <2>1, <2>2 DEF Distinct
  <2>3. CASE n = Len(s) - d + 1
    BY <1>0, <1>2, <2>1, <2>3 DEF Stands
  <2>4. n \in 1 .. Len(s) - d \/ n = Len(s) - d + 1
    <3>1. n \in 1 .. Len(s) - d + 1
      BY <1>2
    <3> QED BY <1>0, <3>1
  <2> QED BY <2>2, <2>3, <2>4
<1>4. ASSUME NEW x
      PROVE  Stands(x, t) <=> x = e \/ (Stands(x, s) /\ x \notin {s[n] : n \in 1 .. d})
  <2>1. ASSUME NEW n \in 1 .. Len(t), t[n] = x, x # e
        PROVE  Stands(x, s) /\ x \notin {s[m] : m \in 1 .. d}
    <3>3. n # Len(s) - d + 1
      BY <1>2, <2>1
    <3>4. n \in 1 .. Len(s) - d
      BY <1>0, <1>2, <2>1, <3>3
    <3>5. s[n + d] = x
      BY <1>2, <2>1, <3>4
    <3>1. n + d \in 1 .. Len(s) /\ s[n + d] = x /\ n + d > d
      BY <1>0, <3>4, <3>5
    <3>2. \A m \in 1 .. d : m \in 1 .. Len(s) /\ m # n + d
      BY <1>0, <1>2, <3>1
    <3> QED BY <3>1, <3>2 DEF Distinct, Stands
  <2>2. ASSUME NEW n \in 1 .. Len(s), s[n] = x, x \notin {s[m] : m \in 1 .. d}
        PROVE  Stands(x, t)
    <3>1. n - d \in 1 .. Len(s) - d /\ (n - d) + d = n
      BY <1>0, <2>2
    <3>2. n - d \in 1 .. Len(t) /\ t[n - d] = x
      BY <1>0, <1>2, <2>2, <3>1
    <3> QED BY <3>2 DEF Stands
  <2>3. Stands(e, t)
    <3>1. Len(s) - d + 1 \in 1 .. Len(t)
      BY <1>0, <1>2
    <3> QED BY <1>2, <3>1 DEF Stands
  <2> QED BY <2>1, <2>2, <2>3 DEF Stands
<1> QED BY <1>2, <1>3, <1>4 DEF t, b
-----------------------------------------------------------------------------

\* Answers and cache entries are told apart by their fields.
LEMMA Apart ==
    /\ Absent # Pending
    /\ \A x : Done(x) # Absent /\ Done(x) # Pending
              /\ Done(x).state = "done" /\ Done(x).response = x
    /\ Absent.state = "absent" /\ Pending.state = "pending"
    /\ \A x \in Responses \cup {NoAnswer, Conflict, Invalid, Failure} :
         /\ x \in Responses => x \notin {NoAnswer, Conflict, Invalid, Failure}
    /\ NoAnswer \notin {Conflict, Invalid, Failure}
    /\ Conflict \notin {Invalid, Failure}
    /\ \A r \in Requests :
         /\ Sent(r) \in Responses /\ Sent(r).message = r /\ Sent(r).status = 200
         /\ Pending202(r) \in Responses /\ Pending202(r).message = r
         /\ Pending202(r).status = 202
    /\ \A x \in Responses : x.message \in Requests
                            /\ x \in {Sent(x.message), Pending202(x.message)}
<1>1. /\ Absent # Pending
      /\ Absent.state = "absent" /\ Pending.state = "pending"
  BY DEF Absent, Pending
<1>2. ASSUME NEW x
      PROVE  /\ Done(x) # Absent /\ Done(x) # Pending
             /\ Done(x).state = "done" /\ Done(x).response = x
  BY DEF Absent, Pending, Done
<1>3. ASSUME NEW r \in Requests
      PROVE  /\ Sent(r) \in Responses /\ Sent(r).message = r /\ Sent(r).status = 200
             /\ Pending202(r) \in Responses /\ Pending202(r).message = r
             /\ Pending202(r).status = 202
  BY DEF Sent, Pending202, Responses
<1>4. /\ NoAnswer.status = 0 /\ Conflict.status = 409
      /\ Invalid.status = 400 /\ Failure.status = 500
  BY DEF NoAnswer, Conflict, Invalid, Failure
<1>5. ASSUME NEW x \in Responses
      PROVE  \E r \in Requests : x = Sent(r) \/ x = Pending202(r)
  BY DEF Responses
<1>6. ASSUME NEW x \in Responses
      PROVE  /\ x.message \in Requests
             /\ x \in {Sent(x.message), Pending202(x.message)}
             /\ x.status \in {200, 202}
  BY <1>3, <1>5
<1> QED BY <1>1, <1>2, <1>3, <1>4, <1>6

\* The cache's own part of the types.
CacheTypes ==
    /\ entries \in [Keys -> Entries]
    /\ order \in Seq(Keys)
    /\ evicted \subseteq Keys

CacheInv == CacheTypes /\ OrderMatchesEntries

\* The order lists what is held, each once.
LEMMA OrderRestated ==
    OrderMatchesEntries <=>
        /\ \A k \in Keys : entries[k] # Absent <=> Stands(k, order)
        /\ Distinct(order) /\ Len(order) <= MaxEntries
  BY DEF OrderMatchesEntries, Held, Stands, Distinct

\* claim() makes room first, so that the list and the entries stay in step and
\* within the limit.
LEMMA ClaimKeeps ==
    ASSUME CacheInv, NEW k \in Keys, Claim(k)
    PROVE  CacheInv'
<1>1. /\ \A j \in Keys : entries[j] # Absent <=> Stands(j, order)
      /\ Distinct(order) /\ Len(order) <= MaxEntries
      /\ order \in Seq(Keys) /\ Len(order) \in Nat
  BY OrderRestated, LenProperties DEF CacheInv, CacheTypes
<1>2. Surplus \in 0 .. Len(order) /\ Len(order) - Surplus + 1 <= MaxEntries
  BY <1>1 DEF Surplus
<1>3. ~ Stands(k, order)
  BY <1>1 DEF Claim
<1>4. /\ order' \in Seq(Keys) /\ Len(order') = Len(order) - Surplus + 1
      /\ Distinct(order')
      /\ \A x : Stands(x, order') <=> x = k \/ (Stands(x, order) /\ x \notin Victims)
  <2> DEFINE d == Surplus
  <2>1. order' = Append(SubSeq(order, d + 1, Len(order)), k)
    BY DEF Claim
  <2>2. Victims = {order[n] : n \in 1 .. d}
    BY DEF Victims
  <2>3. d \in 0 .. Len(order)
    BY <1>2
  <2> HIDE DEF d
  <2>4. /\ order' \in Seq(Keys) /\ Len(order') = Len(order) - d + 1
        /\ Distinct(order')
        /\ \A x : Stands(x, order') <=> x = k \/ (Stands(x, order) /\ x \notin Victims)
    BY <1>1, <1>3, <2>1, <2>2, <2>3, DropAndAppend
  <2> QED BY <2>4 DEF d
<1>5. Victims \subseteq Keys
  BY <1>1, <1>2 DEF Victims
<1>6. entries' = [j \in Keys |-> IF j = k THEN Pending
                                 ELSE IF j \in Victims THEN Absent ELSE entries[j]]
  BY DEF Claim
<1>7. CacheTypes'
  BY <1>4, <1>5, <1>6 DEF CacheInv, CacheTypes, Claim, Entries
<1>8. ASSUME NEW j \in Keys PROVE entries'[j] # Absent <=> Stands(j, order')
  <2>1. entries'[j] = IF j = k THEN Pending ELSE IF j \in Victims THEN Absent ELSE entries[j]
    BY <1>6
  <2>2. /\ entries[j] # Absent <=> Stands(j, order)
        /\ Stands(j, order') <=> j = k \/ (Stands(j, order) /\ j \notin Victims)
    BY <1>1, <1>4
  <2>3. Absent # Pending
    BY Apart
  <2> QED
    <3>1. CASE j = k
      BY <2>1, <2>2, <2>3, <3>1
    <3>2. CASE j # k /\ j \in Victims
      BY <2>1, <2>2, <3>2
    <3>3. CASE j # k /\ j \notin Victims
      BY <2>1, <2>2, <3>3
    <3> QED BY <3>1, <3>2, <3>3
<1> HIDE DEF Claim
<1>9. OrderMatchesEntries'
  <2>1. Len(order') <= MaxEntries
    BY <1>2, <1>4
  <2> QED BY <1>4, <1>8, <2>1 DEF OrderMatchesEntries, Held, Stands, Distinct
<1> QED BY <1>7, <1>9 DEF CacheInv

\* store() changes an entry only while it is held.
LEMMA StoreKeeps ==
    ASSUME CacheInv, NEW k \in Keys \cup {NoKey}, NEW x \in Responses, StoreKey(k, x)
    PROVE  CacheInv'
<1>1. CASE k = NoKey
  BY <1>1 DEF StoreKey, CacheInv, CacheTypes, OrderMatchesEntries, Held
<1>2. CASE k \in Keys
  <2>1. /\ entries' = IF entries[k] = Absent THEN entries
                      ELSE [entries EXCEPT ![k] = Done(x)]
        /\ order' = order /\ evicted' = evicted
    BY <1>2 DEF StoreKey, Store
  <2>2. CacheTypes'
    BY <1>2, <2>1 DEF CacheInv, CacheTypes, Entries
  <2>3. \A j \in Keys : entries'[j] = Absent <=> entries[j] = Absent
    BY <1>2, <2>1, Apart DEF CacheInv, CacheTypes
  <2>4. OrderMatchesEntries'
    BY <2>1, <2>3 DEF CacheInv, OrderMatchesEntries, Held
  <2> QED BY <2>2, <2>4 DEF CacheInv
<1> QED BY <1>1, <1>2

\* release() takes the key out of both.
LEMMA ReleaseKeeps ==
    ASSUME CacheInv, NEW k \in Keys \cup {NoKey}, ReleaseKey(k)
    PROVE  CacheInv'
<1>1. CASE k = NoKey
  BY <1>1 DEF ReleaseKey, CacheInv, CacheTypes, OrderMatchesEntries, Held
<1>2. CASE k \in Keys
  <2>1. /\ entries' = [entries EXCEPT ![k] = Absent]
        /\ order' = RemoveFirst(order, k) /\ evicted' = evicted
    BY <1>2 DEF ReleaseKey, Release
  <2>2. /\ \A j \in Keys : entries[j] # Absent <=> Stands(j, order)
        /\ Distinct(order) /\ Len(order) <= MaxEntries
        /\ order \in Seq(Keys) /\ Len(order) \in Nat
    BY OrderRestated, LenProperties DEF CacheInv, CacheTypes
  <2>3. /\ order' \in Seq(Keys) /\ Len(order') <= Len(order)
        /\ Distinct(order')
        /\ \A x : Stands(x, order') <=> x # k /\ Stands(x, order)
    BY <2>1, <2>2, RemoveFirstProperties
  <2>4. CacheTypes'
    BY <1>2, <2>1, <2>3 DEF CacheInv, CacheTypes, Entries
  <2>5. \A j \in Keys : entries'[j] # Absent <=> Stands(j, order')
    BY <1>2, <2>1, <2>2, <2>3 DEF CacheInv, CacheTypes
  <2>6. Len(order') <= MaxEntries
    BY <2>2, <2>3, LenProperties
  <2>7. OrderMatchesEntries'
    BY <2>3, <2>5, <2>6 DEF OrderMatchesEntries, Held, Stands, Distinct
  <2> QED BY <2>4, <2>7 DEF CacheInv
<1> QED BY <1>1, <1>2
-----------------------------------------------------------------------------

\* The rest of the types: the handlers, the tracker, TDLib and the bounds.
HandlerTypes ==
    /\ waitMap \subseteq Requests /\ timers \subseteq Requests /\ resumes \subseteq Requests
    /\ outcome \in [Requests -> {"none", "sent", "failed"}]
    /\ pc \in [Requests -> Steps]
    /\ key \in [Requests -> Keys \cup {NoKey}]
    /\ reply \in [Requests -> {"none", "error", "message"}]
    /\ answer \in [Requests -> {NoAnswer, Conflict, Invalid, Failure} \cup Responses]
    /\ td \in [Requests -> {"none", "asked", "accepted", "refused", "sent", "failed"}]
    /\ taken \subseteq Requests /\ notified \subseteq Requests
    /\ mode \in {"plain", "typing", "wait"}
    /\ drains \in 0 .. MaxDrains

\* The types are those of the cache and those of the rest.
LEMMA TypesSplit == TypeOK <=> CacheTypes /\ HandlerTypes
  BY DEF TypeOK, CacheTypes, HandlerTypes, Entries, Steps

\* Before the first request the cache is empty and nothing is under way.
LEMMA InitInv == Init => IInv
<1> SUFFICES ASSUME Init PROVE IInv
  OBVIOUS
<1> USE DEF Init, CacheInit, TrackerInit
<1>1. TypeOK
  BY DEF TypeOK
<1>2. OrderMatchesEntries /\ PendingHasOwner /\ WaitInOnePlace
  BY Apart DEF OrderMatchesEntries, Held, PendingHasOwner, WaitInOnePlace
<1>3. HandlerHistory /\ ToldTheTruth
  BY Apart DEF HandlerHistory, ToldTheTruth, GaveUp
<1>4. KeyUse
  BY DEF KeyUse
<1>5. ReplayIsTrue /\ AnswerIsKept
  BY Apart DEF ReplayIsTrue, AnswerIsKept
<1> QED BY <1>1, <1>2, <1>3, <1>4, <1>5 DEF IInv, SendInv

\* A step keeps the cache's list and entries in step.
LEMMA CacheStep ==
    ASSUME CacheInv, HandlerTypes, [Next]_vars
    PROVE  CacheInv'
<1>1. ASSUME NEW r \in Requests \ Unkeyed, NEW k \in Keys, ArriveFirst(r, k) PROVE CacheInv'
  BY <1>1, ClaimKeeps DEF ArriveFirst
<1>2. ASSUME NEW r \in Requests \ Unkeyed, NEW k \in Keys, ArriveInFlight(r, k) PROVE CacheInv'
  BY <1>2 DEF ArriveInFlight, CacheInv, CacheTypes, OrderMatchesEntries, Held
<1>3. ASSUME NEW r \in Requests \ Unkeyed, NEW k \in Keys, ArriveRepeat(r, k) PROVE CacheInv'
  BY <1>3 DEF ArriveRepeat, CacheInv, CacheTypes, OrderMatchesEntries, Held
<1>4. ASSUME NEW r \in Requests, ArriveUnkeyed(r) PROVE CacheInv'
  BY <1>4 DEF ArriveUnkeyed, CacheInv, CacheTypes, OrderMatchesEntries, Held
<1>5. ASSUME NEW r \in Requests, BadRequest(r) PROVE CacheInv'
  BY <1>5, ReleaseKeeps DEF BadRequest, HandlerTypes
<1>6. ASSUME NEW r \in Requests, StartTyping(r) PROVE CacheInv'
  BY <1>6 DEF StartTyping, CacheInv, CacheTypes, OrderMatchesEntries, Held
<1>7. ASSUME NEW r \in Requests, Invoke(r) PROVE CacheInv'
  BY <1>7 DEF Invoke, CacheInv, CacheTypes, OrderMatchesEntries, Held
<1>8. ASSUME NEW r \in Requests, CallGivesError(r) PROVE CacheInv'
  BY <1>8, ReleaseKeeps DEF CallGivesError, HandlerTypes
<1>9. ASSUME NEW r \in Requests, CallGivesMessage(r) PROVE CacheInv'
  BY <1>9 DEF CallGivesMessage, CacheInv, CacheTypes, OrderMatchesEntries, Held
<1>10. ASSUME NEW r \in Requests, TimerResumes(r) PROVE CacheInv'
  BY <1>10 DEF TimerResumes, CacheInv, CacheTypes, OrderMatchesEntries, Held
<1>11. ASSUME NEW r \in Requests, LoopResumes(r) PROVE CacheInv'
  BY <1>11 DEF LoopResumes, CacheInv, CacheTypes, OrderMatchesEntries, Held
<1>12. ASSUME NEW r \in Requests, Conclude(r) PROVE CacheInv'
  <2>1. key[r] \in Keys \cup {NoKey} /\ Sent(r) \in Responses /\ Pending202(r) \in Responses
    BY Apart DEF HandlerTypes
  <2> QED BY <1>12, <2>1, StoreKeeps, ReleaseKeeps DEF Conclude
<1>13. ASSUME NEW r \in Requests, TimerExpires(r) PROVE CacheInv'
  BY <1>13 DEF TimerExpires, CacheInv, CacheTypes, OrderMatchesEntries, Held
<1>14. ASSUME NEW r \in Requests, TdStep(r) PROVE CacheInv'
  BY <1>14 DEF TdStep, CacheInv, CacheTypes, OrderMatchesEntries, Held
<1>15. ASSUME NEW r \in Requests, TakeAnswer(r) PROVE CacheInv'
  BY <1>15 DEF TakeAnswer, CacheInv, CacheTypes, OrderMatchesEntries, Held
<1>16. ASSUME NEW r \in Requests, TakeUpdate(r) PROVE CacheInv'
  BY <1>16 DEF TakeUpdate, CacheInv, CacheTypes, OrderMatchesEntries, Held
<1>17. ASSUME NEW r \in Requests, CallFails(r) PROVE CacheInv'
  BY <1>17 DEF CallFails, CacheInv, CacheTypes, OrderMatchesEntries, Held
<1>18. ASSUME Drain PROVE CacheInv'
  BY <1>18 DEF Drain, CacheInv, CacheTypes, OrderMatchesEntries, Held
<1>19. CASE UNCHANGED vars
  BY <1>19 DEF vars, CacheInv, CacheTypes, OrderMatchesEntries, Held
<1> QED BY <1>1, <1>2, <1>3, <1>4, <1>5, <1>6, <1>7, <1>8, <1>9, <1>10,
       <1>11, <1>12, <1>13, <1>14, <1>15, <1>16, <1>17, <1>18, <1>19 DEF
       Next, HandlerStep, vars

\* A step keeps the other types.
LEMMA HandlerTypeStep ==
    ASSUME CacheInv, HandlerTypes, [Next]_vars
    PROVE  HandlerTypes'
<1> USE DEF HandlerTypes, Steps
<1>1. ASSUME NEW r \in Requests \ Unkeyed, NEW k \in Keys, ArriveFirst(r, k) PROVE HandlerTypes'
  BY <1>1 DEF ArriveFirst, Goto
<1>2. ASSUME NEW r \in Requests \ Unkeyed, NEW k \in Keys, ArriveInFlight(r, k) PROVE HandlerTypes'
  BY <1>2 DEF ArriveInFlight, Respond, Goto
<1>3. ASSUME NEW r \in Requests \ Unkeyed, NEW k \in Keys, ArriveRepeat(r, k) PROVE HandlerTypes'
  <2>1. entries[k] \in Entries
    BY DEF CacheInv, CacheTypes
  <2>2. entries[k].response \in Responses
    BY <1>3, <2>1, Apart DEF ArriveRepeat, Entries
  <2> QED BY <1>3, <2>2 DEF ArriveRepeat, Respond, Goto
<1>4. ASSUME NEW r \in Requests, ArriveUnkeyed(r) PROVE HandlerTypes'
  BY <1>4 DEF ArriveUnkeyed, Goto
<1>5. ASSUME NEW r \in Requests, BadRequest(r) PROVE HandlerTypes'
  BY <1>5 DEF BadRequest, Respond, Goto
<1>6. ASSUME NEW r \in Requests, StartTyping(r) PROVE HandlerTypes'
  BY <1>6 DEF StartTyping, Goto
<1>7. ASSUME NEW r \in Requests, Invoke(r) PROVE HandlerTypes'
  BY <1>7 DEF Invoke, Goto
<1>8. ASSUME NEW r \in Requests, CallGivesError(r) PROVE HandlerTypes'
  BY <1>8 DEF CallGivesError, Respond, Goto
<1>9. ASSUME NEW r \in Requests, CallGivesMessage(r) PROVE HandlerTypes'
  BY <1>9 DEF CallGivesMessage, WaitFor, Goto
<1>10. ASSUME NEW r \in Requests, TimerResumes(r) PROVE HandlerTypes'
  BY <1>10 DEF TimerResumes, TimerWins, TakeOut, Goto
<1>11. ASSUME NEW r \in Requests, LoopResumes(r) PROVE HandlerTypes'
  BY <1>11 DEF LoopResumes, RunResume, Goto
<1>12. ASSUME NEW r \in Requests, Conclude(r) PROVE HandlerTypes'
  <2>1. Sent(r) \in Responses /\ Pending202(r) \in Responses
    BY Apart
  <2> QED BY <1>12, <2>1 DEF Conclude, Respond, Goto
<1>13. ASSUME NEW r \in Requests, TimerExpires(r) PROVE HandlerTypes'
  BY <1>13 DEF TimerExpires, TimerLate
<1>14. ASSUME NEW r \in Requests, TdStep(r) PROVE HandlerTypes'
  BY <1>14 DEF TdStep
<1>15. ASSUME NEW r \in Requests, TakeAnswer(r) PROVE HandlerTypes'
  BY <1>15 DEF TakeAnswer
<1>16. ASSUME NEW r \in Requests, TakeUpdate(r) PROVE HandlerTypes'
  BY <1>16 DEF TakeUpdate, ResolveWith, TakeOut
<1>17. ASSUME NEW r \in Requests, CallFails(r) PROVE HandlerTypes'
  BY <1>17 DEF CallFails
<1>18. ASSUME Drain PROVE HandlerTypes'
  BY <1>18 DEF Drain, DrainAll, TakeOut
<1>19. CASE UNCHANGED vars
  BY <1>19 DEF vars
<1> QED BY <1>1, <1>2, <1>3, <1>4, <1>5, <1>6, <1>7, <1>8, <1>9, <1>10,
       <1>11, <1>12, <1>13, <1>14, <1>15, <1>16, <1>17, <1>18, <1>19 DEF
       Next, HandlerStep, vars

\* The handler goes from place to place, and is answered once, at the end.
LEMMA HistoryStep ==
    ASSUME CacheInv, HandlerTypes, HandlerHistory, WaitInOnePlace, [Next]_vars
    PROVE  HandlerHistory'
<1> USE DEF HandlerTypes, Steps, HandlerHistory
<1>1. ASSUME NEW r \in Requests \ Unkeyed, NEW k \in Keys, ArriveFirst(r, k) PROVE HandlerHistory'
  BY <1>1 DEF ArriveFirst, Goto
<1>2. ASSUME NEW r \in Requests \ Unkeyed, NEW k \in Keys, ArriveInFlight(r, k) PROVE HandlerHistory'
  BY <1>2, Apart DEF ArriveInFlight, Respond, Goto
<1>3. ASSUME NEW r \in Requests \ Unkeyed, NEW k \in Keys, ArriveRepeat(r, k) PROVE HandlerHistory'
  <2>1. entries[k] \in Entries
    BY DEF CacheInv, CacheTypes
  <2>2. entries[k].response # NoAnswer
    BY <1>3, <2>1, Apart DEF ArriveRepeat, Entries
  <2> QED BY <1>3, <2>2 DEF ArriveRepeat, Respond, Goto
<1>4. ASSUME NEW r \in Requests, ArriveUnkeyed(r) PROVE HandlerHistory'
  BY <1>4 DEF ArriveUnkeyed, Goto
<1>5. ASSUME NEW r \in Requests, BadRequest(r) PROVE HandlerHistory'
  BY <1>5, Apart DEF BadRequest, Respond, Goto
<1>6. ASSUME NEW r \in Requests, StartTyping(r) PROVE HandlerHistory'
  BY <1>6 DEF StartTyping, Goto
<1>7. ASSUME NEW r \in Requests, Invoke(r) PROVE HandlerHistory'
  BY <1>7 DEF Invoke, Goto
<1>8. ASSUME NEW r \in Requests, CallGivesError(r) PROVE HandlerHistory'
  BY <1>8, Apart DEF CallGivesError, Respond, Goto
<1>9. ASSUME NEW r \in Requests, CallGivesMessage(r) PROVE HandlerHistory'
  BY <1>9 DEF CallGivesMessage, WaitFor, Goto
<1>10. ASSUME NEW r \in Requests, TimerResumes(r) PROVE HandlerHistory'
  BY <1>10 DEF TimerResumes, TimerWins, TakeOut, Goto, WaitInOnePlace
<1>11. ASSUME NEW r \in Requests, LoopResumes(r) PROVE HandlerHistory'
  BY <1>11 DEF LoopResumes, RunResume, Goto, WaitInOnePlace
<1>12. ASSUME NEW r \in Requests, Conclude(r) PROVE HandlerHistory'
  <2>1. Sent(r) # NoAnswer /\ Pending202(r) # NoAnswer /\ Failure # NoAnswer
    BY Apart
  <2> QED BY <1>12, <2>1 DEF Conclude, Respond, Goto
<1>13. ASSUME NEW r \in Requests, TimerExpires(r) PROVE HandlerHistory'
  BY <1>13 DEF TimerExpires
<1>14. ASSUME NEW r \in Requests, TdStep(r) PROVE HandlerHistory'
  BY <1>14 DEF TdStep
<1>15. ASSUME NEW r \in Requests, TakeAnswer(r) PROVE HandlerHistory'
  BY <1>15 DEF TakeAnswer
<1>16. ASSUME NEW r \in Requests, TakeUpdate(r) PROVE HandlerHistory'
  BY <1>16 DEF TakeUpdate
<1>17. ASSUME NEW r \in Requests, CallFails(r) PROVE HandlerHistory'
  BY <1>17 DEF CallFails
<1>18. ASSUME Drain PROVE HandlerHistory'
  BY <1>18 DEF Drain
<1>19. CASE UNCHANGED vars
  BY <1>19 DEF vars
<1> QED BY <1>1, <1>2, <1>3, <1>4, <1>5, <1>6, <1>7, <1>8, <1>9, <1>10,
       <1>11, <1>12, <1>13, <1>14, <1>15, <1>16, <1>17, <1>18, <1>19 DEF
       Next, HandlerStep, vars

\* A wait is in the map or in the queue of its loop, never in both.
LEMMA WaitStep ==
    ASSUME HandlerTypes, WaitInOnePlace, [Next]_vars
    PROVE  WaitInOnePlace'
<1> USE DEF HandlerTypes, Steps, WaitInOnePlace
<1>1. ASSUME NEW r \in Requests \ Unkeyed, NEW k \in Keys, ArriveFirst(r, k) PROVE WaitInOnePlace'
  BY <1>1 DEF ArriveFirst, Goto
<1>2. ASSUME NEW r \in Requests \ Unkeyed, NEW k \in Keys, ArriveInFlight(r, k) PROVE WaitInOnePlace'
  BY <1>2 DEF ArriveInFlight, Respond, Goto
<1>3. ASSUME NEW r \in Requests \ Unkeyed, NEW k \in Keys, ArriveRepeat(r, k) PROVE WaitInOnePlace'
  BY <1>3 DEF ArriveRepeat, Respond, Goto
<1>4. ASSUME NEW r \in Requests, ArriveUnkeyed(r) PROVE WaitInOnePlace'
  BY <1>4 DEF ArriveUnkeyed, Goto
<1>5. ASSUME NEW r \in Requests, BadRequest(r) PROVE WaitInOnePlace'
  BY <1>5 DEF BadRequest, Respond, Goto
<1>6. ASSUME NEW r \in Requests, StartTyping(r) PROVE WaitInOnePlace'
  BY <1>6 DEF StartTyping, Goto
<1>7. ASSUME NEW r \in Requests, Invoke(r) PROVE WaitInOnePlace'
  BY <1>7 DEF Invoke, Goto
<1>8. ASSUME NEW r \in Requests, CallGivesError(r) PROVE WaitInOnePlace'
  BY <1>8 DEF CallGivesError, Respond, Goto
<1>9. ASSUME NEW r \in Requests, CallGivesMessage(r) PROVE WaitInOnePlace'
  BY <1>9 DEF CallGivesMessage, WaitFor, Goto
<1>10. ASSUME NEW r \in Requests, TimerResumes(r) PROVE WaitInOnePlace'
  BY <1>10 DEF TimerResumes, TimerWins, TakeOut, Goto
<1>11. ASSUME NEW r \in Requests, LoopResumes(r) PROVE WaitInOnePlace'
  BY <1>11 DEF LoopResumes, RunResume, Goto
<1>12. ASSUME NEW r \in Requests, Conclude(r) PROVE WaitInOnePlace'
  BY <1>12 DEF Conclude, Respond, Goto
<1>13. ASSUME NEW r \in Requests, TimerExpires(r) PROVE WaitInOnePlace'
  BY <1>13 DEF TimerExpires, TimerLate
<1>14. ASSUME NEW r \in Requests, TdStep(r) PROVE WaitInOnePlace'
  BY <1>14 DEF TdStep
<1>15. ASSUME NEW r \in Requests, TakeAnswer(r) PROVE WaitInOnePlace'
  BY <1>15 DEF TakeAnswer
<1>16. ASSUME NEW r \in Requests, TakeUpdate(r) PROVE WaitInOnePlace'
  BY <1>16 DEF TakeUpdate, ResolveWith, TakeOut
<1>17. ASSUME NEW r \in Requests, CallFails(r) PROVE WaitInOnePlace'
  BY <1>17 DEF CallFails
<1>18. ASSUME Drain PROVE WaitInOnePlace'
  BY <1>18 DEF Drain, DrainAll, TakeOut
<1>19. CASE UNCHANGED vars
  BY <1>19 DEF vars
<1> QED BY <1>1, <1>2, <1>3, <1>4, <1>5, <1>6, <1>7, <1>8, <1>9, <1>10,
       <1>11, <1>12, <1>13, <1>14, <1>15, <1>16, <1>17, <1>18, <1>19 DEF
       Next, HandlerStep, vars

\* The answer and the confirmation are passed on as TDLib gave them; a handler that
\* gives up was told of an error, or saw the message fail, or never sent it.
LEMMA TruthStep ==
    ASSUME CacheInv, HandlerTypes, HandlerHistory, ToldTheTruth, [Next]_vars
    PROVE  ToldTheTruth'
<1> USE DEF HandlerTypes, Steps, HandlerHistory, ToldTheTruth, GaveUp
<1>1. ASSUME NEW r \in Requests \ Unkeyed, NEW k \in Keys, ArriveFirst(r, k) PROVE ToldTheTruth'
  BY <1>1 DEF ArriveFirst, Goto
<1>2. ASSUME NEW r \in Requests \ Unkeyed, NEW k \in Keys, ArriveInFlight(r, k) PROVE ToldTheTruth'
  BY <1>2, Apart DEF ArriveInFlight, Respond, Goto
<1>3. ASSUME NEW r \in Requests \ Unkeyed, NEW k \in Keys, ArriveRepeat(r, k) PROVE ToldTheTruth'
  <2>1. entries[k] \in Entries
    BY DEF CacheInv, CacheTypes
  <2>2. entries[k].response \notin {Invalid, Failure}
    BY <1>3, <2>1, Apart DEF ArriveRepeat, Entries
  <2> QED BY <1>3, <2>2 DEF ArriveRepeat, Respond, Goto
<1>4. ASSUME NEW r \in Requests, ArriveUnkeyed(r) PROVE ToldTheTruth'
  BY <1>4 DEF ArriveUnkeyed, Goto
<1>5. ASSUME NEW r \in Requests, BadRequest(r) PROVE ToldTheTruth'
  BY <1>5 DEF BadRequest, Respond, Goto
<1>6. ASSUME NEW r \in Requests, StartTyping(r) PROVE ToldTheTruth'
  BY <1>6 DEF StartTyping, Goto
<1>7. ASSUME NEW r \in Requests, Invoke(r) PROVE ToldTheTruth'
  <2>1. answer[r] \notin {Invalid, Failure}
    BY <1>7, Apart DEF Invoke
  <2> QED BY <1>7, <2>1 DEF Invoke, Goto
<1>8. ASSUME NEW r \in Requests, CallGivesError(r) PROVE ToldTheTruth'
  BY <1>8 DEF CallGivesError, Respond, Goto
<1>9. ASSUME NEW r \in Requests, CallGivesMessage(r) PROVE ToldTheTruth'
  BY <1>9 DEF CallGivesMessage, WaitFor, Goto
<1>10. ASSUME NEW r \in Requests, TimerResumes(r) PROVE ToldTheTruth'
  BY <1>10 DEF TimerResumes, TimerWins, TakeOut, Goto
<1>11. ASSUME NEW r \in Requests, LoopResumes(r) PROVE ToldTheTruth'
  BY <1>11 DEF LoopResumes, RunResume, Goto
<1>12. ASSUME NEW r \in Requests, Conclude(r) PROVE ToldTheTruth'
  <2>1. Sent(r) \notin {Invalid, Failure} /\ Pending202(r) \notin {Invalid, Failure}
    BY Apart
  <2> QED BY <1>12, <2>1 DEF Conclude, Respond, Goto
<1>13. ASSUME NEW r \in Requests, TimerExpires(r) PROVE ToldTheTruth'
  BY <1>13 DEF TimerExpires, TimerLate
<1>14. ASSUME NEW r \in Requests, TdStep(r) PROVE ToldTheTruth'
  BY <1>14, Apart DEF TdStep
<1>15. ASSUME NEW r \in Requests, TakeAnswer(r) PROVE ToldTheTruth'
  BY <1>15 DEF TakeAnswer
<1>16. ASSUME NEW r \in Requests, TakeUpdate(r) PROVE ToldTheTruth'
  BY <1>16 DEF TakeUpdate, ResolveWith, TakeOut
<1>17. ASSUME NEW r \in Requests, CallFails(r) PROVE ToldTheTruth'
  BY <1>17 DEF CallFails
<1>18. ASSUME Drain PROVE ToldTheTruth'
  BY <1>18 DEF Drain, DrainAll, TakeOut
<1>19. CASE UNCHANGED vars
  BY <1>19 DEF vars
<1> QED BY <1>1, <1>2, <1>3, <1>4, <1>5, <1>6, <1>7, <1>8, <1>9, <1>10,
       <1>11, <1>12, <1>13, <1>14, <1>15, <1>16, <1>17, <1>18, <1>19 DEF
       Next, HandlerStep, vars

\* After release() or store() of a key it is not pending, and no other became so.
Settles(k) == \A j \in Keys : entries'[j] = Pending => entries[j] = Pending /\ j # k

\* release() takes the key out of the cache.
LEMMA ReleaseSettles ==
    ASSUME CacheTypes, NEW k \in Keys \cup {NoKey}, ReleaseKey(k)
    PROVE  Settles(k)
  BY Apart DEF CacheTypes, ReleaseKey, Release, Settles

\* store() leaves an evicted key alone, and answers any other.
LEMMA StoreSettles ==
    ASSUME CacheTypes, NEW k \in Keys \cup {NoKey}, NEW x, StoreKey(k, x)
    PROVE  Settles(k)
  BY Apart DEF CacheTypes, StoreKey, Store, Settles

\* So its owner may go.
LEMMA SettledKey ==
    ASSUME HandlerTypes, PendingHasOwner, NEW r \in Requests, Settles(key[r]),
           pc' = [pc EXCEPT ![r] = "done"], key' = key
    PROVE  PendingHasOwner'
  BY DEF HandlerTypes, PendingHasOwner, InFlight, Settles, Steps

\* Whoever ends a pending key's owner settles the key in the same step.
LEMMA OwnerStep ==
    ASSUME CacheInv, HandlerTypes, HandlerHistory, PendingHasOwner, [Next]_vars
    PROVE  PendingHasOwner'
<1> USE DEF CacheInv, CacheTypes, HandlerTypes, Steps, PendingHasOwner, InFlight
<1>1. ASSUME NEW r \in Requests \ Unkeyed, NEW k \in Keys, ArriveFirst(r, k) PROVE PendingHasOwner'
  <2>1. pc' = [pc EXCEPT ![r] = "checking"] /\ key' = [key EXCEPT ![r] = k]
    BY <1>1 DEF ArriveFirst, Goto
  <2>2. \A j \in Keys : entries'[j] = Pending => j = k \/ entries[j] = Pending
    BY <1>1, Apart DEF ArriveFirst, Claim
  <2>3. pc[r] = "new"
    BY <1>1 DEF ArriveFirst
  <2> QED BY <2>1, <2>2, <2>3
<1>2. ASSUME NEW r \in Requests \ Unkeyed, NEW k \in Keys, ArriveInFlight(r, k) PROVE PendingHasOwner'
  BY <1>2 DEF ArriveInFlight, Respond, Goto
<1>3. ASSUME NEW r \in Requests \ Unkeyed, NEW k \in Keys, ArriveRepeat(r, k) PROVE PendingHasOwner'
  BY <1>3 DEF ArriveRepeat, Respond, Goto
<1>4. ASSUME NEW r \in Requests, ArriveUnkeyed(r) PROVE PendingHasOwner'
  BY <1>4 DEF ArriveUnkeyed, Goto
<1>5. ASSUME NEW r \in Requests, BadRequest(r) PROVE PendingHasOwner'
  <2>1. ReleaseKey(key[r]) /\ pc' = [pc EXCEPT ![r] = "done"] /\ key' = key
    BY <1>5 DEF BadRequest, Respond, Goto
  <2>2. Settles(key[r])
    BY <2>1, ReleaseSettles
  <2> QED BY <2>1, <2>2, SettledKey, Zenon
<1>6. ASSUME NEW r \in Requests, StartTyping(r) PROVE PendingHasOwner'
  BY <1>6 DEF StartTyping, Goto
<1>7. ASSUME NEW r \in Requests, Invoke(r) PROVE PendingHasOwner'
  BY <1>7 DEF Invoke, Goto
<1>8. ASSUME NEW r \in Requests, CallGivesError(r) PROVE PendingHasOwner'
  <2>1. ReleaseKey(key[r]) /\ pc' = [pc EXCEPT ![r] = "done"] /\ key' = key
    BY <1>8 DEF CallGivesError, Respond, Goto
  <2>2. Settles(key[r])
    BY <2>1, ReleaseSettles
  <2> QED BY <2>1, <2>2, SettledKey, Zenon
<1>9. ASSUME NEW r \in Requests, CallGivesMessage(r) PROVE PendingHasOwner'
  BY <1>9 DEF CallGivesMessage, WaitFor, Goto
<1>10. ASSUME NEW r \in Requests, TimerResumes(r) PROVE PendingHasOwner'
  BY <1>10 DEF TimerResumes, TimerWins, TakeOut, Goto
<1>11. ASSUME NEW r \in Requests, LoopResumes(r) PROVE PendingHasOwner'
  BY <1>11 DEF LoopResumes, RunResume, Goto
<1>12. ASSUME NEW r \in Requests, Conclude(r) PROVE PendingHasOwner'
  BY <1>12, ReleaseSettles, StoreSettles, SettledKey DEF Conclude, Respond, Goto
<1>13. ASSUME NEW r \in Requests, TimerExpires(r) PROVE PendingHasOwner'
  BY <1>13 DEF TimerExpires, TimerLate
<1>14. ASSUME NEW r \in Requests, TdStep(r) PROVE PendingHasOwner'
  BY <1>14 DEF TdStep
<1>15. ASSUME NEW r \in Requests, TakeAnswer(r) PROVE PendingHasOwner'
  BY <1>15 DEF TakeAnswer
<1>16. ASSUME NEW r \in Requests, TakeUpdate(r) PROVE PendingHasOwner'
  BY <1>16 DEF TakeUpdate, ResolveWith, TakeOut
<1>17. ASSUME NEW r \in Requests, CallFails(r) PROVE PendingHasOwner'
  BY <1>17 DEF CallFails
<1>18. ASSUME Drain PROVE PendingHasOwner'
  BY <1>18 DEF Drain, DrainAll, TakeOut
<1>19. CASE UNCHANGED vars
  BY <1>19 DEF vars
<1> QED BY <1>1, <1>2, <1>3, <1>4, <1>5, <1>6, <1>7, <1>8, <1>9, <1>10,
       <1>11, <1>12, <1>13, <1>14, <1>15, <1>16, <1>17, <1>18, <1>19 DEF
       Next, HandlerStep, vars

\* A request that is answered with an error and releases its key leaves the
\* key's use in order.
LEMMA ReleaseByGivingUp ==
    ASSUME CacheTypes, HandlerTypes, HandlerHistory, KeyUse,
           NEW r \in Requests, ReleaseKey(key[r]), pc[r] # "done",
           NEW x \in {Invalid, Failure},
           answer' = [answer EXCEPT ![r] = x], key' = key
    PROVE  KeyUse'
<1>1. \A q \in Requests : GaveUp(q) \/ q = r => GaveUp(q)'
  BY DEF HandlerTypes, GaveUp
<1>2. evicted' = evicted /\ \A j \in Keys : entries'[j] = Absent => entries[j] = Absent \/ j = key[r]
  BY DEF ReleaseKey, Release, CacheTypes
<1>3. ~ GaveUp(r)
  BY Apart DEF HandlerHistory, GaveUp
<1> QED BY <1>1, <1>2, <1>3 DEF KeyUse

\* A key is claimed anew only when all its requests have given up, and released only
\* by a request that gives up.
LEMMA KeyUseStep ==
    ASSUME CacheInv, HandlerTypes, HandlerHistory, KeyUse, [Next]_vars
    PROVE  KeyUse'
<1> USE DEF CacheInv, CacheTypes, HandlerTypes, HandlerHistory
<1>1. ASSUME NEW r \in Requests \ Unkeyed, NEW k \in Keys, ArriveFirst(r, k) PROVE KeyUse'
  <2>1. /\ key' = [key EXCEPT ![r] = k] /\ answer' = answer
        /\ evicted' = evicted \cup Victims /\ entries[k] = Absent
        /\ key[r] = NoKey
    BY <1>1 DEF ArriveFirst, Claim
  <2>2. \A j \in Keys \ evicted' :
          /\ j \in Keys \ evicted
          /\ entries'[j] = Absent => j # k /\ entries[j] = Absent
    BY <1>1, Apart DEF ArriveFirst, Claim
  <2> QED BY <2>1, <2>2 DEF KeyUse, GaveUp
<1>2. ASSUME NEW r \in Requests \ Unkeyed, NEW k \in Keys, ArriveInFlight(r, k) PROVE KeyUse'
  BY <1>2 DEF ArriveInFlight, Respond, KeyUse, GaveUp
<1>3. ASSUME NEW r \in Requests \ Unkeyed, NEW k \in Keys, ArriveRepeat(r, k) PROVE KeyUse'
  BY <1>3 DEF ArriveRepeat, Respond, KeyUse, GaveUp
<1>4. ASSUME NEW r \in Requests, ArriveUnkeyed(r) PROVE KeyUse'
  BY <1>4 DEF ArriveUnkeyed, KeyUse, GaveUp
<1>5. ASSUME NEW r \in Requests, BadRequest(r) PROVE KeyUse'
  BY <1>5, ReleaseByGivingUp DEF BadRequest, Respond, GaveUp
<1>6. ASSUME NEW r \in Requests, StartTyping(r) PROVE KeyUse'
  BY <1>6 DEF StartTyping, KeyUse, GaveUp
<1>7. ASSUME NEW r \in Requests, Invoke(r) PROVE KeyUse'
  BY <1>7 DEF Invoke, KeyUse, GaveUp
<1>8. ASSUME NEW r \in Requests, CallGivesError(r) PROVE KeyUse'
  BY <1>8, ReleaseByGivingUp DEF CallGivesError, Respond, GaveUp
<1>9. ASSUME NEW r \in Requests, CallGivesMessage(r) PROVE KeyUse'
  BY <1>9 DEF CallGivesMessage, KeyUse, GaveUp
<1>10. ASSUME NEW r \in Requests, TimerResumes(r) PROVE KeyUse'
  BY <1>10 DEF TimerResumes, KeyUse, GaveUp
<1>11. ASSUME NEW r \in Requests, LoopResumes(r) PROVE KeyUse'
  BY <1>11 DEF LoopResumes, KeyUse, GaveUp
<1>12. ASSUME NEW r \in Requests, Conclude(r) PROVE KeyUse'
  <2>1. CASE outcome[r] = "failed"
    BY <1>12, <2>1, ReleaseByGivingUp DEF Conclude, Respond, GaveUp
  <2>2. CASE outcome[r] # "failed"
    <3>1. /\ evicted' = evicted /\ key' = key
          /\ \A j \in Keys : entries'[j] = Absent => entries[j] = Absent
      BY <1>12, <2>2, Apart DEF Conclude, StoreKey, Store
    <3>2. answer[r] = NoAnswer /\ \A q \in Requests : q # r => answer'[q] = answer[q]
      BY <1>12, <2>2 DEF Conclude, Respond
    <3>3. ~ GaveUp(r)
      BY <3>2, Apart DEF GaveUp
    <3>4. \A q \in Requests : GaveUp(q) => GaveUp(q)'
      BY <3>2, <3>3 DEF GaveUp
    <3> QED BY <3>1, <3>4 DEF KeyUse
  <2> QED BY <2>1, <2>2
<1>13. ASSUME NEW r \in Requests, TimerExpires(r) PROVE KeyUse'
  BY <1>13 DEF TimerExpires, KeyUse, GaveUp
<1>14. ASSUME NEW r \in Requests, TdStep(r) PROVE KeyUse'
  BY <1>14 DEF TdStep, KeyUse, GaveUp
<1>15. ASSUME NEW r \in Requests, TakeAnswer(r) PROVE KeyUse'
  BY <1>15 DEF TakeAnswer, KeyUse, GaveUp
<1>16. ASSUME NEW r \in Requests, TakeUpdate(r) PROVE KeyUse'
  BY <1>16 DEF TakeUpdate, KeyUse, GaveUp
<1>17. ASSUME NEW r \in Requests, CallFails(r) PROVE KeyUse'
  BY <1>17 DEF CallFails, KeyUse, GaveUp
<1>18. ASSUME Drain PROVE KeyUse'
  BY <1>18 DEF Drain, DrainAll, KeyUse, GaveUp
<1>19. CASE UNCHANGED vars
  BY <1>19 DEF vars, KeyUse, GaveUp
<1> QED BY <1>1, <1>2, <1>3, <1>4, <1>5, <1>6, <1>7, <1>8, <1>9, <1>10,
       <1>11, <1>12, <1>13, <1>14, <1>15, <1>16, <1>17, <1>18, <1>19 DEF
       Next, HandlerStep, vars

\* Two requests that used one key while it was not evicted: if neither gave up they are
\* the same.
LEMMA OneHolder ==
    ASSUME KeyUse, HandlerTypes, NEW r \in Requests, NEW q \in Requests,
           key[r] = key[q], key[r] \in Keys \ evicted, ~ GaveUp(r), ~ GaveUp(q)
    PROVE  r = q
  BY DEF KeyUse

\* release() answers no key.
LEMMA ReleaseKeepsOthers ==
    ASSUME CacheTypes, NEW k \in Keys \cup {NoKey}, ReleaseKey(k)
    PROVE  \A j \in Keys : entries'[j].state = "done" => entries'[j] = entries[j]
  BY Apart DEF CacheTypes, ReleaseKey, Release

\* What is stored under a key stays true: TDLib never takes a message back.
LEMMA ReplayStep ==
    ASSUME CacheInv, HandlerTypes, HandlerHistory, ToldTheTruth, ReplayIsTrue, [Next]_vars
    PROVE  ReplayIsTrue'
<1>0. \A k \in Keys : entries[k].state = "done" =>
        /\ entries[k].response \in Responses
        /\ entries[k].response.message \in Requests
  BY Apart DEF CacheInv, CacheTypes, Entries
<1> USE DEF CacheInv, CacheTypes, HandlerTypes, ReplayIsTrue
<1>1. ASSUME NEW r \in Requests \ Unkeyed, NEW k \in Keys, ArriveFirst(r, k) PROVE ReplayIsTrue'
  <2>1. \A j \in Keys : entries'[j].state = "done" => entries'[j] = entries[j]
    BY <1>1, Apart DEF ArriveFirst, Claim
  <2>2. pc[r] = "new" /\ td[r] = "none" /\ key' = [key EXCEPT ![r] = k] /\ td' = td
    BY <1>1 DEF ArriveFirst, HandlerHistory
  <2> QED BY <1>0, <2>1, <2>2
<1>2. ASSUME NEW r \in Requests \ Unkeyed, NEW k \in Keys, ArriveInFlight(r, k) PROVE ReplayIsTrue'
  BY <1>2, <1>0 DEF ArriveInFlight
<1>3. ASSUME NEW r \in Requests \ Unkeyed, NEW k \in Keys, ArriveRepeat(r, k) PROVE ReplayIsTrue'
  BY <1>3, <1>0 DEF ArriveRepeat
<1>4. ASSUME NEW r \in Requests, ArriveUnkeyed(r) PROVE ReplayIsTrue'
  BY <1>4, <1>0 DEF ArriveUnkeyed
<1>5. ASSUME NEW r \in Requests, BadRequest(r) PROVE ReplayIsTrue'
  <2>1. \A j \in Keys : entries'[j].state = "done" => entries'[j] = entries[j]
    BY <1>5, ReleaseKeepsOthers DEF BadRequest
  <2> QED BY <1>5, <1>0, <2>1 DEF BadRequest
<1>6. ASSUME NEW r \in Requests, StartTyping(r) PROVE ReplayIsTrue'
  BY <1>6, <1>0 DEF StartTyping
<1>7. ASSUME NEW r \in Requests, Invoke(r) PROVE ReplayIsTrue'
  <2>1. \A q \in Requests : td[q] \in {"accepted", "sent", "failed"} => td'[q] = td[q]
    BY <1>7 DEF Invoke, HandlerHistory
  <2> QED BY <1>7, <1>0, <2>1 DEF Invoke
<1>8. ASSUME NEW r \in Requests, CallGivesError(r) PROVE ReplayIsTrue'
  <2>1. \A j \in Keys : entries'[j].state = "done" => entries'[j] = entries[j]
    BY <1>8, ReleaseKeepsOthers DEF CallGivesError
  <2> QED BY <1>8, <1>0, <2>1 DEF CallGivesError
<1>9. ASSUME NEW r \in Requests, CallGivesMessage(r) PROVE ReplayIsTrue'
  BY <1>9, <1>0 DEF CallGivesMessage
<1>10. ASSUME NEW r \in Requests, TimerResumes(r) PROVE ReplayIsTrue'
  BY <1>10, <1>0 DEF TimerResumes
<1>11. ASSUME NEW r \in Requests, LoopResumes(r) PROVE ReplayIsTrue'
  BY <1>11, <1>0 DEF LoopResumes
<1>12. ASSUME NEW r \in Requests, Conclude(r) PROVE ReplayIsTrue'
  <2>1. key[r] \in Keys \cup {NoKey} /\ td' = td /\ key' = key
    BY <1>12 DEF Conclude
  <2>2. CASE outcome[r] = "failed"
    <3>1. \A j \in Keys : entries'[j].state = "done" => entries'[j] = entries[j]
      BY <1>12, <2>1, <2>2, ReleaseKeepsOthers DEF Conclude
    <3> QED BY <1>0, <2>1, <3>1
  <2>3. ASSUME NEW x \in {Sent(r), Pending202(r)}, StoreKey(key[r], x),
               x = Sent(r) => td[r] = "sent"
        PROVE  ReplayIsTrue'
    <3>1. \A j \in Keys : entries'[j].state = "done" =>
            entries'[j] = entries[j] \/ (entries'[j] = Done(x) /\ key[r] = j)
      BY <2>1, <2>3 DEF StoreKey, Store
    <3>2. Done(x).response = x /\ x.message = r
          /\ (x.status = 200 => x = Sent(r))
      BY <2>3, Apart
    <3>3. td[r] \in {"accepted", "sent", "failed"}
      BY <1>12 DEF Conclude, HandlerHistory, ToldTheTruth
    <3>4. ASSUME NEW j \in Keys, entries'[j] = Done(x), key[r] = j
          PROVE  /\ entries'[j].response.message = r
                 /\ entries'[j].response.status = 200 => td[r] = "sent"
      BY <2>3, <3>2, <3>4
    <3>5. ASSUME NEW j \in Keys, entries'[j].state = "done"
          PROVE  LET resp == entries'[j].response
                 IN  /\ key'[resp.message] = j
                     /\ td'[resp.message] \in {"accepted", "sent", "failed"}
                     /\ resp.status = 200 => td'[resp.message] = "sent"
      <4>1. CASE entries'[j] = entries[j]
        BY <2>1, <3>5, <4>1
      <4>2. CASE entries'[j] = Done(x) /\ key[r] = j
        BY <2>1, <3>3, <3>4, <4>2
      <4> QED BY <3>1, <3>5, <4>1, <4>2
    <3> QED BY <3>5
  <2>4. \/ outcome[r] = "failed"
        \/ StoreKey(key[r], Sent(r)) /\ td[r] = "sent"
        \/ StoreKey(key[r], Pending202(r)) /\ Pending202(r) # Sent(r)
    BY <1>12, Apart DEF Conclude, ToldTheTruth
  <2> QED BY <2>2, <2>3, <2>4
<1>13. ASSUME NEW r \in Requests, TimerExpires(r) PROVE ReplayIsTrue'
  BY <1>13, <1>0 DEF TimerExpires
<1>14. ASSUME NEW r \in Requests, TdStep(r) PROVE ReplayIsTrue'
  <2>1. \A q \in Requests :
          /\ td[q] \in {"accepted", "sent", "failed"} =>
               td'[q] \in {"accepted", "sent", "failed"}
          /\ td[q] = "sent" => td'[q] = "sent"
    BY <1>14 DEF TdStep
  <2> QED BY <1>14, <1>0, <2>1 DEF TdStep
<1>15. ASSUME NEW r \in Requests, TakeAnswer(r) PROVE ReplayIsTrue'
  BY <1>15, <1>0 DEF TakeAnswer
<1>16. ASSUME NEW r \in Requests, TakeUpdate(r) PROVE ReplayIsTrue'
  BY <1>16, <1>0 DEF TakeUpdate
<1>17. ASSUME NEW r \in Requests, CallFails(r) PROVE ReplayIsTrue'
  BY <1>17, <1>0 DEF CallFails
<1>18. ASSUME Drain PROVE ReplayIsTrue'
  BY <1>18, <1>0 DEF Drain
<1>19. CASE UNCHANGED vars
  BY <1>19, <1>0 DEF vars
<1> HIDE DEF CacheInv, CacheTypes, HandlerTypes, ReplayIsTrue
<1> QED BY <1>1, <1>2, <1>3, <1>4, <1>5, <1>6, <1>7, <1>8, <1>9, <1>10,
       <1>11, <1>12, <1>13, <1>14, <1>15, <1>16, <1>17, <1>18, <1>19 DEF
       Next, HandlerStep, vars

\* While one request of a key is unanswered, no other has been given its answer,
\* unless the key was evicted.
LEMMA OthersStay ==
    ASSUME HandlerTypes, KeyUse, NEW r \in Requests, answer[r] = NoAnswer
    PROVE  \A q \in Requests :
             /\ q # r /\ key[q] # NoKey /\ key[q] \notin evicted
             /\ answer[q] \in {Sent(q), Pending202(q)}
             => key[q] # key[r]
  BY Apart, OneHolder DEF HandlerTypes, GaveUp

\* A key that has answered is neither claimed, stored nor released again before it is
\* evicted: all its other requests have given up.
LEMMA AnswerStep ==
    ASSUME CacheInv, HandlerTypes, HandlerHistory, KeyUse, AnswerIsKept, [Next]_vars
    PROVE  AnswerIsKept'
<1>0. \A r \in Requests : answer[r] \in {Sent(r), Pending202(r)} => ~ GaveUp(r) /\ answer[r] # NoAnswer
  BY Apart DEF GaveUp
<1> USE DEF CacheInv, CacheTypes, HandlerTypes, HandlerHistory, AnswerIsKept
<1>1. ASSUME NEW r \in Requests \ Unkeyed, NEW k \in Keys, ArriveFirst(r, k) PROVE AnswerIsKept'
  <2>1. /\ key' = [key EXCEPT ![r] = k] /\ answer' = answer
        /\ evicted' = evicted \cup Victims /\ entries[k] = Absent
        /\ answer[r] = NoAnswer
    BY <1>1 DEF ArriveFirst, Claim
  <2>2. \A j \in Keys \ evicted' : j # k => entries'[j] = entries[j]
    BY <1>1 DEF ArriveFirst, Claim
  <2>3. \A x : entries[k] # Done(x)
    BY <2>1, Apart
  <2> QED BY <1>0, <2>1, <2>2, <2>3
<1>2. ASSUME NEW r \in Requests \ Unkeyed, NEW k \in Keys, ArriveInFlight(r, k) PROVE AnswerIsKept'
  <2>1. key[r] = NoKey
    BY <1>2 DEF ArriveInFlight
  <2> QED BY <1>2, <2>1 DEF ArriveInFlight, Respond
<1>3. ASSUME NEW r \in Requests \ Unkeyed, NEW k \in Keys, ArriveRepeat(r, k) PROVE AnswerIsKept'
  <2>1. key[r] = NoKey
    BY <1>3 DEF ArriveRepeat
  <2> QED BY <1>3, <2>1 DEF ArriveRepeat, Respond
<1>4. ASSUME NEW r \in Requests, ArriveUnkeyed(r) PROVE AnswerIsKept'
  BY <1>4 DEF ArriveUnkeyed
<1>5. ASSUME NEW r \in Requests, BadRequest(r) PROVE AnswerIsKept'
  <2>1. answer' = [answer EXCEPT ![r] = Invalid] /\ key' = key /\ answer[r] = NoAnswer
    BY <1>5 DEF BadRequest, Respond
  <2>2. Invalid \notin {Sent(r), Pending202(r)}
    BY Apart
  <2>3. evicted' = evicted /\ \A j \in Keys : j # key[r] => entries'[j] = entries[j]
    BY <1>5 DEF BadRequest, ReleaseKey, Release
  <2> QED BY <1>0, <2>1, <2>2, <2>3, OthersStay
<1>6. ASSUME NEW r \in Requests, StartTyping(r) PROVE AnswerIsKept'
  BY <1>6 DEF StartTyping
<1>7. ASSUME NEW r \in Requests, Invoke(r) PROVE AnswerIsKept'
  BY <1>7 DEF Invoke
<1>8. ASSUME NEW r \in Requests, CallGivesError(r) PROVE AnswerIsKept'
  <2>1. answer' = [answer EXCEPT ![r] = Failure] /\ key' = key /\ answer[r] = NoAnswer
    BY <1>8 DEF CallGivesError, Respond
  <2>2. Failure \notin {Sent(r), Pending202(r)}
    BY Apart
  <2>3. evicted' = evicted /\ \A j \in Keys : j # key[r] => entries'[j] = entries[j]
    BY <1>8 DEF CallGivesError, ReleaseKey, Release
  <2> QED BY <1>0, <2>1, <2>2, <2>3, OthersStay
<1>9. ASSUME NEW r \in Requests, CallGivesMessage(r) PROVE AnswerIsKept'
  BY <1>9 DEF CallGivesMessage
<1>10. ASSUME NEW r \in Requests, TimerResumes(r) PROVE AnswerIsKept'
  BY <1>10 DEF TimerResumes
<1>11. ASSUME NEW r \in Requests, LoopResumes(r) PROVE AnswerIsKept'
  BY <1>11 DEF LoopResumes
<1>12. ASSUME NEW r \in Requests, Conclude(r) PROVE AnswerIsKept'
  <2>1. key' = key /\ answer[r] = NoAnswer /\ evicted' = evicted
        /\ \E x \in {Failure, Sent(r), Pending202(r)} :
             /\ answer' = [answer EXCEPT ![r] = x]
             /\ IF x = Failure THEN ReleaseKey(key[r]) ELSE StoreKey(key[r], x)
    BY <1>12, Apart DEF Conclude, Respond, ReleaseKey, Release, StoreKey, Store
  <2>2. \A j \in Keys : j # key[r] => entries'[j] = entries[j]
    BY <2>1 DEF ReleaseKey, Release, StoreKey, Store
  <2>3. Failure \notin {Sent(r), Pending202(r)}
    BY Apart
  <2>4. ~ GaveUp(r)
    BY <2>1, Apart DEF GaveUp
  <2>5. entries[key[r]] # Absent \/ key[r] \notin Keys \ evicted
    BY <2>4 DEF KeyUse
  <2> QED BY <1>0, <2>1, <2>2, <2>3, <2>5, OthersStay DEF StoreKey, Store
<1>13. ASSUME NEW r \in Requests, TimerExpires(r) PROVE AnswerIsKept'
  BY <1>13 DEF TimerExpires
<1>14. ASSUME NEW r \in Requests, TdStep(r) PROVE AnswerIsKept'
  BY <1>14 DEF TdStep
<1>15. ASSUME NEW r \in Requests, TakeAnswer(r) PROVE AnswerIsKept'
  BY <1>15 DEF TakeAnswer
<1>16. ASSUME NEW r \in Requests, TakeUpdate(r) PROVE AnswerIsKept'
  BY <1>16 DEF TakeUpdate
<1>17. ASSUME NEW r \in Requests, CallFails(r) PROVE AnswerIsKept'
  BY <1>17 DEF CallFails
<1>18. ASSUME Drain PROVE AnswerIsKept'
  BY <1>18 DEF Drain
<1>19. CASE UNCHANGED vars
  BY <1>19 DEF vars
<1> QED BY <1>1, <1>2, <1>3, <1>4, <1>5, <1>6, <1>7, <1>8, <1>9, <1>10,
       <1>11, <1>12, <1>13, <1>14, <1>15, <1>16, <1>17, <1>18, <1>19 DEF
       Next, HandlerStep, vars
-----------------------------------------------------------------------------

\* A step keeps the inductive invariant.
LEMMA StepInv == IInv /\ [Next]_vars => IInv'
<1> SUFFICES ASSUME IInv, [Next]_vars PROVE IInv'
  OBVIOUS
<1>1. CacheInv /\ HandlerTypes
  BY TypesSplit DEF IInv, SendInv, CacheInv
<1>2. CacheInv' /\ HandlerTypes'
  BY <1>1, CacheStep, HandlerTypeStep
<1>3. TypeOK' /\ OrderMatchesEntries'
  BY <1>2 DEF TypeOK, CacheInv, CacheTypes, HandlerTypes, Entries, Steps
<1>4. HandlerHistory' /\ WaitInOnePlace' /\ ToldTheTruth' /\ PendingHasOwner'
  BY <1>1, HistoryStep, WaitStep, TruthStep, OwnerStep DEF IInv, SendInv
<1>5. KeyUse' /\ ReplayIsTrue' /\ AnswerIsKept'
  BY <1>1, KeyUseStep, ReplayStep, AnswerStep DEF IInv
<1> QED BY <1>3, <1>4, <1>5 DEF IInv, SendInv

\* In every state of every behaviour.
THEOREM Inductive == Spec => []IInv
  BY InitInv, StepInv, PTL DEF Spec

\* The cache, the tracker and the handlers agree about every key and every wait,
\* however many requests race for however many keys, and whatever is evicted.
THEOREM CacheAndWaitsAgree == Spec => []SendInv
<1>1. IInv => SendInv
  BY DEF IInv
<1> QED BY <1>1, Inductive, PTL

\* A repeat of a key is never told of a message that was not sent under it, nor
\* told "sent" before TDLib confirmed it.
THEOREM ReplaysAreTrue == Spec => []ReplayIsTrue
<1>1. IInv => ReplayIsTrue
  BY DEF IInv
<1> QED BY <1>1, Inductive, PTL

\* A client that repeats a request under its key has it sent once, unless the key was
\* evicted or a call was reported as failed that TDLib carried out.
THEOREM OnlyLossSendsTwice == Spec => []SentOnceUnlessLost
<1>1. IInv => SentOnceUnlessLost
  <2> SUFFICES ASSUME IInv, NEW r1 \in Requests, NEW r2 \in Requests,
                      r1 # r2, key[r1] = key[r2], key[r1] # NoKey,
                      Live(r1), Live(r2), key[r1] \notin evicted
               PROVE  reply[r1] = "error" \/ reply[r2] = "error"
    BY DEF SentOnceUnlessLost
  <2>1. key[r1] \in Keys \ evicted
    BY TypesSplit DEF IInv, SendInv, HandlerTypes
  <2>2. GaveUp(r1) \/ GaveUp(r2)
    BY <2>1 DEF IInv, KeyUse
  <2> QED BY <2>2 DEF IInv, ToldTheTruth, Live
<1> QED BY <1>1, Inductive, PTL

\* An answer that a key was given is what its repeats get until the key is evicted.
THEOREM AnswersAreKept == Spec => []AnswerIsKept
<1>1. IInv => AnswerIsKept
  BY DEF IInv
<1> QED BY <1>1, Inductive, PTL

\* Of the requests that claimed a key all but one have given it up with an error, as
\* long as the key is not evicted, and a key is free again only once all have: a retry
\* never works beside the request it repeats (claim() and release() of the cache).
THEOREM OneOfAKeyStands == Spec => []KeyUse
<1>1. IInv => KeyUse
  BY DEF IInv
<1> QED BY <1>1, Inductive, PTL

\* A client is told that nothing was sent only if TDLib was not asked, refused the
\* message or gave it up, or its answer was lost; and what a wait delivers is what
\* TDLib made of the message (the error paths of the send route).
THEOREM ClientsAreToldTheTruth == Spec => []ToldTheTruth
<1>1. IInv => ToldTheTruth
  BY DEF IInv
<1> QED BY <1>1, Inductive, PTL
=============================================================================
