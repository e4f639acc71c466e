------------------------- MODULE SessionUsageProofs -------------------------
(***************************************************************************)
(* The accounting of InnerSession: what a context charged is what its log  *)
(* holds, no log holds more than the hard limits, the limit is announced,  *)
(* and over an ordered transport a close is complete.                      *)
(***************************************************************************)
EXTENDS InnerSessionProofs, SequenceTheorems

-----------------------------------------------------------------------------
(* Counting the records and the bytes of a log.                            *)

(* f sums the bytes of a channel, record by record.                        *)
IsSum(log, channel, f) ==
  f = [i \in 0..Len(log) |->
         IF i = 0 THEN 0
         ELSE f[i - 1] + IF log[i].channel = channel THEN log[i].plaintext_len ELSE 0]

(* Exactly one function does.                                              *)
Summed(log, channel) == \E f : \A g : IsSum(log, channel, g) <=> g = f

(* One record more.                                                        *)
Longer(log, more) ==
  /\ log \in Seq(Record) /\ more \in Seq(Record) /\ Len(more) = Len(log) + 1
  /\ \A i \in 1..Len(log) : more[i] = log[i]

(* BytesOn is the value of the sum at the end of the log.                  *)
LEMMA BytesOnMeans ==
  ASSUME NEW log, NEW channel
  PROVE  BytesOn(log, channel) = (CHOOSE f : IsSum(log, channel, f))[Len(log)]
  BY Zenon DEF BytesOn, IsSum

(* A function that is the only sum is the sum BytesOn looks at.            *)
LEMMA BytesOnIs ==
  ASSUME NEW log, NEW channel, NEW f, \A g : IsSum(log, channel, g) <=> g = f
  PROVE  Summed(log, channel) /\ BytesOn(log, channel) = f[Len(log)]
<1>1. (CHOOSE g : IsSum(log, channel, g)) = f
  OBVIOUS
<1>2. Summed(log, channel)
  BY DEF Summed
<1> QED
  BY <1>1, <1>2, BytesOnMeans

(* An empty log has no bytes.                                              *)
LEMMA EmptyBytes ==
  ASSUME NEW channel
  PROVE  Summed(<<>>, channel) /\ BytesOn(<<>>, channel) = 0
<1> DEFINE zero == [i \in 0..0 |-> 0]
<1>1. ASSUME NEW g PROVE IsSum(<<>>, channel, g) <=> g = zero
  <2>1. Len(<<>>) = 0 /\ \A i \in 0..0 : i = 0
    OBVIOUS
  <2>2. IsSum(<<>>, channel, g) <=>
          g = [i \in 0..0 |->
                 IF i = 0 THEN 0
                 ELSE g[i - 1] + IF <<>>[i].channel = channel THEN <<>>[i].plaintext_len ELSE 0]
    BY <2>1, Zenon DEF IsSum
  <2>3. [i \in 0..0 |->
           IF i = 0 THEN 0
           ELSE g[i - 1] + IF <<>>[i].channel = channel THEN <<>>[i].plaintext_len ELSE 0]
        = zero
    BY <2>1
  <2> QED
    BY <2>2, <2>3
<1>2. Summed(<<>>, channel) /\ BytesOn(<<>>, channel) = zero[Len(<<>>)]
  BY <1>1, BytesOnIs
<1>3. zero[Len(<<>>)] = 0
  OBVIOUS
<1> QED
  BY <1>2, <1>3

(* A record more adds its bytes to its channel.                            *)
LEMMA BytesAdded ==
  ASSUME NEW log, NEW more, NEW channel, Longer(log, more), Summed(log, channel)
  PROVE  LET rec == more[Len(more)]
         IN  /\ Summed(more, channel)
             /\ BytesOn(more, channel)
                  = BytesOn(log, channel)
                      + IF rec.channel = channel THEN rec.plaintext_len ELSE 0
<1> DEFINE n == Len(log)
           x == IF more[n + 1].channel = channel THEN more[n + 1].plaintext_len ELSE 0
           Add(a, i) == IF a[i].channel = channel THEN a[i].plaintext_len ELSE 0
<1>1. n \in Nat /\ Len(more) = n + 1 /\ \A i \in 1..n : more[i] = log[i]
  BY DEF Longer
<1>2. PICK f : \A g : IsSum(log, channel, g) <=> g = f
  BY DEF Summed
<1>3. f = [i \in 0..n |-> IF i = 0 THEN 0 ELSE f[i - 1] + Add(log, i)]
  BY <1>2, Zenon DEF IsSum
<1> DEFINE h == [i \in 0..n + 1 |-> IF i = n + 1 THEN f[n] + x ELSE f[i]]
<1> HIDE DEF n
<1>4. ASSUME NEW g, IsSum(more, channel, g) PROVE g = h
  <2>1. g = [i \in 0..n + 1 |-> IF i = 0 THEN 0 ELSE g[i - 1] + Add(more, i)]
    BY <1>1, <1>4, Zenon DEF IsSum
  <2> DEFINE g0 == [i \in 0..n |-> g[i]]
  <2>2. g0 = [i \in 0..n |-> IF i = 0 THEN 0 ELSE g0[i - 1] + Add(log, i)]
    <3> SUFFICES ASSUME NEW i \in 0..n
                 PROVE  g[i] = IF i = 0 THEN 0 ELSE g0[i - 1] + Add(log, i)
      BY Zenon
    <3>1. g[i] = IF i = 0 THEN 0 ELSE g[i - 1] + Add(more, i)
      BY <1>1, <2>1
    <3>2. CASE i = 0
      BY <3>1, <3>2
    <3>3. CASE i # 0
      <4>1. i \in 1..n /\ i - 1 \in 0..n
        BY <1>1, <3>3
      <4> QED
        BY <1>1, <3>1, <3>3, <4>1
    <3> QED
      BY <3>2, <3>3
  <2>3. g0 = f
    BY <1>2, <2>2, Zenon DEF IsSum, n
  <2> QED
    <3>1. ASSUME NEW i \in 0..n + 1 PROVE g[i] = h[i]
      <4>1. CASE i = n + 1
        <5>1. i - 1 = n /\ i # 0 /\ n \in 0..n
          BY <1>1, <4>1
        <5>2. g[i] = g[n] + x
          BY <2>1, <4>1, <5>1
        <5> QED
          BY <2>3, <4>1, <5>1, <5>2
      <4>2. CASE i # n + 1
        BY <1>1, <2>3, <4>2
      <4> QED
        BY <4>1, <4>2
    <3> QED
      BY <2>1, <3>1
<1>5. IsSum(more, channel, h)
  <2> SUFFICES ASSUME NEW i \in 0..n + 1
               PROVE  h[i] = IF i = 0 THEN 0 ELSE h[i - 1] + Add(more, i)
    BY <1>1, Zenon DEF IsSum
  <2>1. CASE i = 0
    <3>1. 0 \in 0..n /\ 0 # n + 1
      BY <1>1
    <3>2. f[0] = 0
      BY <1>3, <3>1
    <3> QED
      BY <2>1, <3>1, <3>2
  <2>2. CASE i = n + 1
    <3>1. i # 0 /\ i - 1 = n /\ n # n + 1 /\ n \in 0..n + 1
      BY <1>1, <2>2
    <3> QED
      BY <2>2, <3>1
  <2>3. CASE i # 0 /\ i # n + 1
    <3>1. i \in 1..n /\ i \in 0..n /\ i - 1 \in 0..n + 1 /\ i - 1 # n + 1
      BY <1>1, <2>3
    <3>2. f[i] = f[i - 1] + Add(log, i)
      BY <1>3, <2>3, <3>1
    <3> QED
      BY <1>1, <2>3, <3>1, <3>2
  <2> QED
    BY <2>1, <2>2, <2>3
<1> HIDE DEF h
<1>6. \A g : IsSum(more, channel, g) <=> g = h
  BY <1>4, <1>5
<1>7. /\ Summed(more, channel)
      /\ BytesOn(more, channel) = h[n + 1] /\ BytesOn(log, channel) = f[n]
  <2>1. Summed(more, channel) /\ BytesOn(more, channel) = h[Len(more)]
    BY <1>6, BytesOnIs
  <2>2. BytesOn(log, channel) = f[n]
    BY <1>2, BytesOnIs DEF n
  <2> QED
    BY <1>1, <2>1, <2>2
<1>8. h[n + 1] = f[n] + x
  BY <1>1 DEF h
<1>10. BytesOn(more, channel) = BytesOn(log, channel) + x
  BY <1>7, <1>8
<1>11. more[Len(more)] = more[n + 1]
  BY <1>1
<1> QED
  BY <1>7, <1>10, <1>11, Zenon

(* A record more counts on its channel.                                    *)
LEMMA RecordsAdded ==
  ASSUME NEW log, NEW more, NEW channel, Longer(log, more)
  PROVE  LET rec == more[Len(more)]
         IN  /\ RecordsOn(log, channel) \in Nat
             /\ RecordsOn(more, channel)
                  = RecordsOn(log, channel) + IF rec.channel = channel THEN 1 ELSE 0
<1> DEFINE n == Len(log)
           On(a) == {i \in DOMAIN a : a[i].channel = channel}
<1>1. /\ n \in Nat /\ Len(more) = n + 1 /\ \A i \in 1..n : more[i] = log[i]
      /\ DOMAIN log = 1..n /\ DOMAIN more = 1..n + 1
  BY DEF Longer
<1> HIDE DEF n
<1>2. IsFiniteSet(On(log)) /\ Cardinality(On(log)) \in Nat
  <2>1. IsFiniteSet(1..n)
    BY <1>1, FS_Interval
  <2>2. On(log) \subseteq 1..n
    BY <1>1
  <2> QED
    BY <2>1, <2>2, FS_Subset, FS_CardinalityType
<1>3. n + 1 \notin On(log)
  BY <1>1
<1>4. 1..n + 1 = (1..n) \union {n + 1}
  BY <1>1
<1>5. CASE more[n + 1].channel = channel
  <2>1. On(more) = On(log) \union {n + 1}
    BY <1>1, <1>4, <1>5
  <2> HIDE DEF On
  <2>2. Cardinality(On(more)) = Cardinality(On(log)) + 1
    BY <1>2, <1>3, <2>1, FS_AddElement
  <2> QED
    BY <1>1, <1>2, <1>5, <2>2 DEF RecordsOn, On
<1>6. CASE more[n + 1].channel # channel
  <2>1. On(more) = On(log)
    BY <1>1, <1>4, <1>6
  <2> HIDE DEF On
  <2>2. RecordsOn(more, channel) = RecordsOn(log, channel) /\ RecordsOn(log, channel) \in Nat
    BY <1>2, <2>1, Zenon DEF RecordsOn, On
  <2> QED
    BY <1>1, <1>6, <2>2
<1> QED
  BY <1>5, <1>6

-----------------------------------------------------------------------------
(* The invariant.  HardLimits is not inductive: an ended session has no    *)
(* accounts left, and a live one keeps to the limits because its accounts  *)
(* are exact.                                                              *)

Matches(u, log, channel) ==
  u = [next_sequence   |-> RecordsOn(log, channel),
       records         |-> RecordsOn(log, channel),
       plaintext_bytes |-> BytesOn(log, channel)]

Within(log, channel) ==
  /\ Summed(log, channel)
  /\ RecordsOn(log, channel) <= HardRecords
  /\ BytesOn(log, channel) \in 0..HardBytes

UsageInv ==
  \A r \in Roles :
    /\ OpenedLog(r) \in Seq(Record)
    /\ \A channel \in Channels :
         /\ Within(sealed[r], channel) /\ Within(OpenedLog(r), channel)
         /\ session[r].state \notin Terminal =>
              /\ Matches(session[r].usage[<<channel, SendDirection(r)>>], sealed[r], channel)
              /\ Matches(session[r].usage[<<channel, ReceiveDirection(r)>>], OpenedLog(r), channel)

(* A permitted record keeps the limits, and charging it the account.       *)
LEMMA ChargeMatches ==
  ASSUME NEW log, NEW more, Longer(log, more), NEW channel, Within(log, channel),
         NEW u \in Usage, Matches(u, log, channel),
         LET rec == more[Len(more)]
         IN  rec.channel = channel /\ rec.plaintext_len \in Nat /\ Permits(u, rec.plaintext_len)
  PROVE  /\ Within(more, channel)
         /\ Matches(Consume(u, more[Len(more)].plaintext_len), more, channel)
<1> DEFINE n == more[Len(more)].plaintext_len
<1>1. /\ RecordsOn(more, channel) = RecordsOn(log, channel) + 1
      /\ RecordsOn(log, channel) \in Nat
  BY RecordsAdded
<1>2. Summed(more, channel) /\ BytesOn(more, channel) = BytesOn(log, channel) + n
  BY BytesAdded DEF Within
<1>3. /\ u.next_sequence = RecordsOn(log, channel) /\ u.records = RecordsOn(log, channel)
      /\ u.plaintext_bytes = BytesOn(log, channel)
  BY DEF Matches
<1>4. Permits(u, n) /\ n \in Nat
  OBVIOUS
<1> HIDE DEF n
<1>5. BytesOn(log, channel) \in Nat
  BY <1>3, LimitFacts DEF Usage
<1>6. Within(more, channel)
  BY <1>1, <1>2, <1>3, <1>4, <1>5, LimitFacts DEF Within, Permits
<1>7. Matches(Consume(u, n), more, channel)
  BY <1>1, <1>2, <1>3 DEF Matches, Consume
<1> QED
  BY <1>6, <1>7 DEF n

(* A record of another channel changes nothing.                            *)
LEMMA OthersMatch ==
  ASSUME NEW log, NEW more, Longer(log, more), NEW channel, Within(log, channel),
         more[Len(more)].channel # channel
  PROVE  /\ Within(more, channel)
         /\ \A u : Matches(u, log, channel) => Matches(u, more, channel)
<1>1. RecordsOn(log, channel) \in Nat /\ RecordsOn(more, channel) = RecordsOn(log, channel) + 0
  BY RecordsAdded
<1>2. Summed(more, channel) /\ BytesOn(more, channel) = BytesOn(log, channel) + 0
  BY BytesAdded DEF Within
<1> QED
  BY <1>1, <1>2 DEF Within, Matches

(* The log of opened records, while nothing is opened.                     *)
LEMMA OpenedLogStays ==
  ASSUME NEW r \in Roles, opened'[r] = opened[r],
         \A k \in DOMAIN opened[r] : OpenedRecord(r, k)' = OpenedRecord(r, k)
  PROVE  OpenedLog(r)' = OpenedLog(r)
  BY DEF OpenedLog

(* Within and Matches speak of their arguments only.                       *)
LEMMA UsageInvOf ==
  ASSUME \A r \in Roles :
           /\ OpenedLog(r)' \in Seq(Record)
           /\ \A channel \in Channels :
                /\ Within(sealed'[r], channel) /\ Within(OpenedLog(r)', channel)
                /\ session'[r].state \notin Terminal =>
                     /\ Matches(session'[r].usage[<<channel, SendDirection(r)>>],
                                sealed'[r], channel)
                     /\ Matches(session'[r].usage[<<channel, ReceiveDirection(r)>>],
                                OpenedLog(r)', channel)
  PROVE  UsageInv'
  BY Zenon DEF UsageInv, Within, Matches

(* Sealing adds the record to the log of sealed records.                   *)
LEMMA SealedLogGrows ==
  ASSUME SessionInv,
         NEW r \in Roles, NEW type, NEW channel, NEW n, NEW t, Sealing(r, type, channel, n, t)
  PROVE  LET more == sealed'[r]
         IN  /\ Longer(sealed[r], more)
             /\ more[Len(more)] = NewRecord(r, type, channel, n)
             /\ \A q \in Roles : q # r => sealed'[q] = sealed[q]
             /\ \A q \in Roles : OpenedLog(q)' = OpenedLog(q)
<1>1. SealEffect(r, type, channel, n, t)
  BY SealFrame
<1>2. /\ sealed[r] \in Seq(Record) /\ sealed'[r] \in Seq(Record)
      /\ Len(sealed'[r]) = Len(sealed[r]) + 1
      /\ sealed'[r][Len(sealed'[r])] = NewRecord(r, type, channel, n)
      /\ \A i \in 1..Len(sealed[r]) : sealed'[r][i] = sealed[r][i]
      /\ opened' = opened
      /\ \A q \in Roles : q # r => sealed'[q] = sealed[q]
  BY <1>1 DEF SealEffect, SessionInv, TypeOK
<1>3. \A q \in Roles : OpenedLog(q)' = OpenedLog(q)
  BY <1>2, TypesAfterSeal, OpenedLogStays
<1> QED
  BY <1>2, <1>3 DEF Longer

(* Sealing keeps the accounts.                                             *)
LEMMA SealKeepsUsage ==
  ASSUME SessionInv, UsageInv,
         NEW r \in Roles, NEW type, NEW channel, NEW n, NEW t, Sealing(r, type, channel, n, t)
  PROVE  UsageInv'
<1> DEFINE s == session[r]
           c == <<channel, SendDirection(r)>>
           rec == NewRecord(r, type, channel, n)
<1>0. SealEffect(r, type, channel, n, t)
  BY SealFrame
<1>1. /\ rec.channel = channel /\ rec.plaintext_len = n /\ session'[r] = t
      /\ \A q \in Roles : q # r => session'[q] = session[q]
  BY <1>0 DEF SealEffect
<1>2. /\ Longer(sealed[r], sealed'[r]) /\ sealed'[r][Len(sealed'[r])] = rec
      /\ \A q \in Roles : q # r => sealed'[q] = sealed[q]
  BY SealedLogGrows
<1>3. /\ s \in Session /\ s.state \notin Terminal /\ Permits(s.usage[c], n)
      /\ channel \in Channels /\ n \in 0..MaxPlaintext
      /\ t.state \notin Terminal => t.usage = [s.usage EXCEPT ![c] = Consume(s.usage[c], n)]
  BY DEF SessionInv, TypeOK, Sealing, Uses, SendContext
<1>4. /\ c \in Contexts /\ s.usage \in [Contexts -> Usage] /\ n \in Nat
      /\ \A ch \in Channels : /\ <<ch, SendDirection(r)>> \in Contexts
                              /\ <<ch, ReceiveDirection(r)>> \in Contexts
                              /\ <<ch, ReceiveDirection(r)>> # c
  BY <1>3, RoleFacts, LimitFacts DEF Contexts, Session
<1>5. \A q \in Roles : OpenedLog(q)' = OpenedLog(q)
  BY SealedLogGrows
<1>6. \A ch \in Channels :
        /\ Within(sealed[r], ch) /\ Within(OpenedLog(r), ch)
        /\ Matches(s.usage[<<ch, SendDirection(r)>>], sealed[r], ch)
        /\ Matches(s.usage[<<ch, ReceiveDirection(r)>>], OpenedLog(r), ch)
  BY <1>3 DEF UsageInv
<1> HIDE DEF rec, s, c
<1>7. Within(sealed'[r], channel) /\ Matches(Consume(s.usage[c], n), sealed'[r], channel)
  BY <1>1, <1>2, <1>3, <1>4, <1>6, ChargeMatches DEF c
<1>8. \A ch \in Channels : ch # channel =>
        /\ Within(sealed'[r], ch)
        /\ Matches(s.usage[<<ch, SendDirection(r)>>], sealed'[r], ch)
  BY <1>1, <1>2, <1>6, OthersMatch
<1>9. t.state \notin Terminal =>
        /\ t.usage[c] = Consume(s.usage[c], n)
        /\ \A d \in Contexts : d # c => t.usage[d] = s.usage[d]
  BY <1>3, <1>4
<1>10. ASSUME NEW ch \in Channels
       PROVE  /\ Within(sealed'[r], ch) /\ Within(OpenedLog(r)', ch)
              /\ t.state \notin Terminal =>
                   /\ Matches(t.usage[<<ch, SendDirection(r)>>], sealed'[r], ch)
                   /\ Matches(t.usage[<<ch, ReceiveDirection(r)>>], OpenedLog(r)', ch)
  <2>1. Within(sealed'[r], ch)
    BY <1>7, <1>8
  <2>2. Within(OpenedLog(r)', ch)
    BY <1>5, <1>6
  <2>3. ASSUME t.state \notin Terminal
        PROVE  Matches(t.usage[<<ch, SendDirection(r)>>], sealed'[r], ch)
    <3>1. CASE ch = channel
      BY <1>7, <1>9, <2>3, <3>1 DEF c
    <3>2. CASE ch # channel
      <4>1. <<ch, SendDirection(r)>> # c
        BY <3>2 DEF c
      <4> QED
        BY <1>4, <1>8, <1>9, <2>3, <3>2, <4>1
    <3> QED
      BY <3>1, <3>2
  <2>4. ASSUME t.state \notin Terminal
        PROVE  Matches(t.usage[<<ch, ReceiveDirection(r)>>], OpenedLog(r)', ch)
    <3>1. t.usage[<<ch, ReceiveDirection(r)>>] = s.usage[<<ch, ReceiveDirection(r)>>]
      BY <1>4, <1>9, <2>4
    <3> QED
      BY <1>5, <1>6, <3>1
  <2> QED
    BY <2>1, <2>2, <2>3, <2>4
<1>11. ASSUME NEW q \in Roles, q # r, NEW ch \in Channels
       PROVE  /\ Within(sealed'[q], ch) /\ Within(OpenedLog(q)', ch)
              /\ session'[q].state \notin Terminal =>
                   /\ Matches(session'[q].usage[<<ch, SendDirection(q)>>], sealed'[q], ch)
                   /\ Matches(session'[q].usage[<<ch, ReceiveDirection(q)>>], OpenedLog(q)', ch)
  BY <1>1, <1>2, <1>5, <1>11 DEF UsageInv
<1>12. \A q \in Roles : OpenedLog(q)' \in Seq(Record)
  BY <1>5 DEF UsageInv
<1> QED
  BY <1>1, <1>10, <1>11, <1>12, UsageInvOf

(* Opening adds the record to the log of opened records.                   *)
LEMMA OpenedLogGrows ==
  ASSUME SessionInv, NEW r \in Roles, OpenedLog(r) \in Seq(Record),
         NEW i, NEW t, Opening(r, i, t)
  PROVE  LET more == OpenedLog(r)'
         IN  /\ Longer(OpenedLog(r), more)
             /\ more[Len(more)] = sealed[Peer(r)][i]
             /\ \A q \in Roles : q # r => OpenedLog(q)' = OpenedLog(q)
<1> DEFINE rec == sealed[Peer(r)][i]
           log == OpenedLog(r)
           more == OpenedLog(r)'
           last == Len(opened[r]) + 1
<1>0. OpenEffect(r, i, t)
  BY OpenFrame
<1>1. /\ rec \in Record
      /\ Len(opened[r]) \in Nat /\ DOMAIN opened[r] = 1..Len(opened[r])
      /\ DOMAIN opened'[r] = 1..last
      /\ \A k : k = last => OpenedRecord(r, k)' = rec
      /\ \A k \in DOMAIN opened[r] : OpenedRecord(r, k)' = OpenedRecord(r, k)
      /\ session'[r] = t /\ sealed' = sealed
      /\ \A q \in Roles : q # r => opened'[q] = opened[q] /\ session'[q] = session[q]
  BY <1>0 DEF OpenEffect
<1>2. log \in Seq(Record) /\ Len(log) = Len(opened[r])
      /\ \A k \in 1..Len(opened[r]) : log[k] = OpenedRecord(r, k)
  <2>1. log \in Seq(Record) /\ DOMAIN log = 1..Len(opened[r])
    BY <1>1 DEF OpenedLog
  <2>2. Len(log) = Len(opened[r])
    BY <1>1, <2>1
  <2> QED
    BY <1>1, <2>1, <2>2 DEF OpenedLog
<1>3. more = [k \in 1..last |-> OpenedRecord(r, k)']
  BY <1>1 DEF OpenedLog
<1>4. \A k \in 1..last : OpenedRecord(r, k)' = IF k = last THEN rec ELSE log[k]
  BY <1>1, <1>2
<1>5. more \in Seq(Record) /\ Len(more) = last /\ more[last] = rec
      /\ \A k \in 1..Len(log) : more[k] = log[k]
  <2> HIDE DEF rec, log, more
  <2>1. more = [k \in 1..last |-> IF k = last THEN rec ELSE log[k]]
    BY <1>3, <1>4
  <2>2. \A k \in 1..last : (IF k = last THEN rec ELSE log[k]) \in Record
    BY <1>1, <1>2
  <2>3. more \in [1..last -> Record] /\ last \in Nat
    BY <1>1, <2>1, <2>2
  <2>4. more \in Seq(Record)
    BY <2>3, SeqDef
  <2>5. Len(more) = last
    BY <2>3, <2>4
  <2> QED
    BY <1>1, <1>2, <2>1, <2>4, <2>5
<1>6. Longer(log, more) /\ more[Len(more)] = rec
  BY <1>2, <1>5 DEF Longer
<1>7. \A q \in Roles : q # r => OpenedLog(q)' = OpenedLog(q)
  BY <1>1, TypesAfterOpen, OpenedLogStays
<1> QED
  BY <1>6, <1>7

(* Opening keeps the accounts.                                             *)
LEMMA OpenKeepsUsage ==
  ASSUME SessionInv, UsageInv, NEW r \in Roles, NEW i, NEW t, Opening(r, i, t)
  PROVE  UsageInv'
<1> DEFINE s == session[r]
           rec == sealed[Peer(r)][i]
           channel == rec.channel
           n == rec.plaintext_len
           c == <<channel, ReceiveDirection(r)>>
           log == OpenedLog(r)
           more == OpenedLog(r)'
<1>0. OpenEffect(r, i, t)
  BY OpenFrame
<1>1. /\ rec \in Record /\ session'[r] = t /\ sealed' = sealed
      /\ \A q \in Roles : q # r => session'[q] = session[q]
  BY <1>0 DEF OpenEffect
<1>6. /\ Longer(log, more) /\ more[Len(more)] = rec /\ more \in Seq(Record)
      /\ \A q \in Roles : q # r => OpenedLog(q)' = OpenedLog(q)
  BY OpenedLogGrows DEF UsageInv, Longer
<1>7. /\ s \in Session /\ s.state \notin Terminal /\ Permits(s.usage[c], n)
      /\ t.state \notin Terminal => t.usage = [s.usage EXCEPT ![c] = Consume(s.usage[c], n)]
  BY DEF SessionInv, TypeOK, Opening, Uses, ReceiveContext
<1>8. /\ channel \in Channels /\ n \in Nat
      /\ c \in Contexts /\ s.usage \in [Contexts -> Usage]
      /\ \A ch \in Channels : /\ <<ch, SendDirection(r)>> \in Contexts
                              /\ <<ch, SendDirection(r)>> # c
                              /\ <<ch, ReceiveDirection(r)>> \in Contexts
  <2>1. channel \in Channels /\ n \in Nat
    BY <1>1, LimitFacts DEF Record
  <2> HIDE DEF channel, n
  <2> QED
    BY <1>7, <2>1, RoleFacts DEF Contexts, Session
<1>9. \A ch \in Channels :
        /\ Within(sealed[r], ch) /\ Within(log, ch)
        /\ Matches(s.usage[<<ch, SendDirection(r)>>], sealed[r], ch)
        /\ Matches(s.usage[<<ch, ReceiveDirection(r)>>], log, ch)
  BY <1>7 DEF UsageInv
<1>10. rec.channel = channel /\ rec.plaintext_len = n
  OBVIOUS
<1> HIDE DEF s, rec, channel, n, c, log, more
<1>11. Within(more, channel) /\ Matches(Consume(s.usage[c], n), more, channel)
  <2>1. /\ s.usage[c] \in Usage /\ Within(log, channel) /\ Matches(s.usage[c], log, channel)
        /\ more[Len(more)].channel = channel /\ more[Len(more)].plaintext_len = n
    BY <1>6, <1>8, <1>9, <1>10 DEF c
  <2> QED
    BY <1>6, <1>7, <1>8, <2>1, ChargeMatches
<1>12. \A ch \in Channels : ch # channel =>
         /\ Within(more, ch)
         /\ Matches(s.usage[<<ch, ReceiveDirection(r)>>], more, ch)
  BY <1>6, <1>9, <1>10, OthersMatch
<1>13. t.state \notin Terminal =>
         /\ t.usage[c] = Consume(s.usage[c], n)
         /\ \A d \in Contexts : d # c => t.usage[d] = s.usage[d]
  BY <1>7, <1>8
<1>14. ASSUME NEW ch \in Channels
       PROVE  /\ Within(sealed'[r], ch) /\ Within(more, ch)
              /\ t.state \notin Terminal =>
                   /\ Matches(t.usage[<<ch, SendDirection(r)>>], sealed'[r], ch)
                   /\ Matches(t.usage[<<ch, ReceiveDirection(r)>>], more, ch)
  <2>1. Within(sealed'[r], ch)
    BY <1>1, <1>9
  <2>2. Within(more, ch)
    BY <1>11, <1>12
  <2>3. ASSUME t.state \notin Terminal
        PROVE  Matches(t.usage[<<ch, SendDirection(r)>>], sealed'[r], ch)
    <3>1. t.usage[<<ch, SendDirection(r)>>] = s.usage[<<ch, SendDirection(r)>>]
      BY <1>8, <1>13, <2>3
    <3> QED
      BY <1>1, <1>9, <3>1
  <2>4. ASSUME t.state \notin Terminal
        PROVE  Matches(t.usage[<<ch, ReceiveDirection(r)>>], more, ch)
    <3>1. CASE ch = channel
      BY <1>11, <1>13, <2>4, <3>1 DEF c
    <3>2. CASE ch # channel
      <4>1. <<ch, ReceiveDirection(r)>> # c
        BY <3>2 DEF c
      <4> QED
        BY <1>8, <1>12, <1>13, <2>4, <3>2, <4>1
    <3> QED
      BY <3>1, <3>2
  <2> QED
    BY <2>1, <2>2, <2>3, <2>4
<1>15. \A q \in Roles : q # r => OpenedLog(q)' = OpenedLog(q)
  BY <1>6
<1>16. ASSUME NEW q \in Roles, q # r, NEW ch \in Channels
       PROVE  /\ Within(sealed'[q], ch) /\ Within(OpenedLog(q)', ch)
              /\ session'[q].state \notin Terminal =>
                   /\ Matches(session'[q].usage[<<ch, SendDirection(q)>>], sealed'[q], ch)
                   /\ Matches(session'[q].usage[<<ch, ReceiveDirection(q)>>], OpenedLog(q)', ch)
  BY <1>1, <1>15, <1>16 DEF UsageInv
<1>17. \A q \in Roles : OpenedLog(q)' \in Seq(Record)
  BY <1>6, <1>15 DEF UsageInv, more
<1> QED
  BY <1>1, <1>14, <1>16, <1>17, UsageInvOf DEF more

(* The accounts of two fresh sessions.                                     *)
LEMMA InitUsageInv == Init => UsageInv
<1> SUFFICES ASSUME Init, NEW r \in Roles
             PROVE  /\ OpenedLog(r) \in Seq(Record)
                    /\ \A channel \in Channels :
                         /\ Within(sealed[r], channel) /\ Within(OpenedLog(r), channel)
                         /\ Matches(session[r].usage[<<channel, SendDirection(r)>>],
                                    sealed[r], channel)
                         /\ Matches(session[r].usage[<<channel, ReceiveDirection(r)>>],
                                    OpenedLog(r), channel)
  BY DEF UsageInv
<1>1. /\ session[r] = Fresh /\ sealed[r] = <<>> /\ opened[r] = <<>>
  BY DEF Init
<1>2. OpenedLog(r) = <<>>
  BY <1>1 DEF OpenedLog
<1>3. \A channel \in Channels : RecordsOn(<<>>, channel) = 0
  <2> SUFFICES ASSUME NEW channel \in Channels PROVE RecordsOn(<<>>, channel) = 0
    OBVIOUS
  <2>1. {i \in DOMAIN <<>> : <<>>[i].channel = channel} = {}
    OBVIOUS
  <2> QED
    BY <2>1, FS_EmptySet DEF RecordsOn
<1>4. \A channel \in Channels : Within(<<>>, channel) /\ Matches(NoUsage, <<>>, channel)
  BY <1>3, EmptyBytes, LimitFacts DEF Within, Matches, NoUsage
<1>5. \A channel \in Channels :
        /\ session[r].usage[<<channel, SendDirection(r)>>] = NoUsage
        /\ session[r].usage[<<channel, ReceiveDirection(r)>>] = NoUsage
  BY <1>1, RoleFacts DEF Fresh, Contexts
<1> QED
  BY <1>1, <1>2, <1>4, <1>5

(* Every step keeps them.                                                  *)
LEMMA NextUsageInv == SessionInv /\ UsageInv /\ [Next]_vars => UsageInv'
<1> SUFFICES ASSUME SessionInv, UsageInv, [Next]_vars PROVE UsageInv'
  OBVIOUS
<1>1. ASSUME sealed' = sealed, opened' = opened,
             \A q \in Roles : \/ session'[q] = session[q]
                              \/ session'[q].state \in Terminal
      PROVE  UsageInv'
  <2>1. \A q \in Roles : OpenedLog(q)' = OpenedLog(q)
    BY <1>1 DEF OpenedLog, OpenedRecord
  <2>2. ASSUME NEW q \in Roles, NEW ch \in Channels
        PROVE  /\ Within(sealed'[q], ch) /\ Within(OpenedLog(q)', ch)
               /\ session'[q].state \notin Terminal =>
                    /\ Matches(session'[q].usage[<<ch, SendDirection(q)>>], sealed'[q], ch)
                    /\ Matches(session'[q].usage[<<ch, ReceiveDirection(q)>>], OpenedLog(q)', ch)
    BY <1>1, <2>1 DEF UsageInv
  <2>3. \A q \in Roles : OpenedLog(q)' \in Seq(Record)
    BY <2>1 DEF UsageInv
  <2> QED
    BY <2>2, <2>3, UsageInvOf
<1>2. CASE Next
  <2>1. PICK r \in Roles : \/ \E type, channel, n, t : Sealing(r, type, channel, n, t)
                           \/ \E i, t : Opening(r, i, t)
                           \/ Failing(r)
    BY <1>2, StepKinds DEF SessionInv
  <2>2. CASE Failing(r)
    BY <1>1, <2>2, FailFrame DEF Terminal
  <2> QED
    BY <2>1, <2>2, SealKeepsUsage, OpenKeepsUsage
<1>3. CASE UNCHANGED vars
  BY <1>1, <1>3 DEF vars
<1> QED
  BY <1>2, <1>3

(* The accounts hold whatever the network delivers.                        *)
THEOREM UsageInvariant == Spec => [](SessionInv /\ UsageInv)
<1>1. Init => SessionInv /\ UsageInv
  BY InitSessionInv, InitUsageInv
<1>2. SessionInv /\ UsageInv /\ [Next]_vars => (SessionInv /\ UsageInv)'
  BY NextSessionInv, NextUsageInv
<1> QED
  BY <1>1, <1>2, PTL DEF Spec

(* The accounting of a live session is what it sealed and opened: both     *)
(* ends of a context agree on it record by record.                         *)
THEOREM AccountsExact == Spec => []UsageExact
<1>1. UsageInv => UsageExact
  BY DEF UsageInv, UsageExact, Matches
<1> QED
  BY <1>1, UsageInvariant, PTL

(* No traffic key protects more than the hard limits allow, in either      *)
(* direction, ended sessions included.                                     *)
THEOREM LimitsHold == Spec => []HardLimits
<1>1. UsageInv => HardLimits
  <2> SUFFICES ASSUME UsageInv, NEW r \in Roles, NEW channel \in Channels,
                      NEW log \in {sealed[r], OpenedLog(r)}
               PROVE  RecordsOn(log, channel) <= HardRecords /\ BytesOn(log, channel) <= HardBytes
    BY DEF HardLimits
  <2>1. Within(log, channel)
    BY DEF UsageInv
  <2> QED
    BY <2>1, LimitFacts DEF Within
<1> QED
  BY <1>1, UsageInvariant, PTL

(* Who uses a context up was told so.                                      *)
Announced(r) ==
  /\ sealed'[r] # sealed[r] \/ opened'[r] # opened[r]
  /\ session'[r].state = "Failed"
  => RefreshDue(session[r])

(* The step that uses a context up starts where a refresh was due.         *)
LEMMA StepAnnounced ==
  ASSUME SessionInv, UsageInv, [Next]_vars
  PROVE  \A r \in Roles : Announced(r)
<1> SUFFICES ASSUME NEW r \in Roles,
                    sealed'[r] # sealed[r] \/ opened'[r] # opened[r],
                    session'[r].state = "Failed"
             PROVE  RefreshDue(session[r])
  BY DEF Announced
<1>1. ASSUME NEW c \in Contexts, NEW n \in 0..MaxPlaintext, NEW t,
             Uses(session[r], c, n, t), t.state = "Failed"
      PROVE  RefreshDue(session[r])
  <2> DEFINE u == session[r].usage[c]
  <2>1. /\ HardLimitReached(Consume(u, n)) /\ session[r].state \notin Terminal
        /\ session[r] \in Session /\ u \in Usage
    BY <1>1 DEF Uses, SessionInv, TypeOK, Session
  <2>2. u.next_sequence = u.records
    <3>1. PICK channel \in Channels :
            c = <<channel, SendDirection(r)>> \/ c = <<channel, ReceiveDirection(r)>>
      BY RoleFacts DEF Contexts
    <3>2. /\ Matches(session[r].usage[<<channel, SendDirection(r)>>], sealed[r], channel)
          /\ Matches(session[r].usage[<<channel, ReceiveDirection(r)>>], OpenedLog(r), channel)
      BY <2>1, <3>1 DEF UsageInv
    <3>3. \A v, log, ch : Matches(v, log, ch) => v.next_sequence = v.records
      BY DEF Matches
    <3> QED
      BY <3>1, <3>2, <3>3
  <2>3. u.records \in Nat /\ u.plaintext_bytes \in Nat /\ n \in Nat /\ n <= MaxPlaintext
    BY <2>1, LimitFacts DEF Usage
  <2>4. u.records >= SoftRecords \/ u.plaintext_bytes >= SoftBytes
    <3> HIDE DEF u
    <3> QED
      BY <2>1, <2>2, <2>3, LimitFacts DEF HardLimitReached, Consume
  <2> QED
    BY <2>4 DEF RefreshDue
<1>2. CASE Next
  <2>1. PICK q \in Roles : \/ \E type, channel, n, t : Sealing(q, type, channel, n, t)
                           \/ \E i, t : Opening(q, i, t)
                           \/ Failing(q)
    BY <1>2, StepKinds DEF SessionInv
  <2>2. CASE Failing(q)
    BY <2>2, FailFrame
  <2>3. ASSUME NEW type, NEW channel, NEW n, NEW t, Sealing(q, type, channel, n, t)
        PROVE  RefreshDue(session[r])
    <3>1. SealEffect(q, type, channel, n, t)
      BY <2>3, SealFrame
    <3>2. q = r /\ session'[r] = t
      BY <3>1 DEF SealEffect
    <3>3. /\ SendContext(r, channel) \in Contexts /\ n \in 0..MaxPlaintext
          /\ Uses(session[r], SendContext(r, channel), n, t)
      BY <2>3, <3>2, RoleFacts DEF Sealing, SendContext, Contexts
    <3> QED
      BY <1>1, <3>2, <3>3
  <2>4. ASSUME NEW i, NEW t, Opening(q, i, t)
        PROVE  RefreshDue(session[r])
    <3> DEFINE rec == sealed[Peer(r)][i]
    <3>1. OpenEffect(q, i, t)
      BY <2>4, OpenFrame
    <3>2. q = r /\ session'[r] = t /\ rec \in Record
      BY <3>1 DEF OpenEffect
    <3>3. rec.channel \in Channels /\ rec.plaintext_len \in 0..MaxPlaintext
      BY <3>2 DEF Record
    <3>4. Uses(session[r], ReceiveContext(r, rec), rec.plaintext_len, t)
      BY <2>4, <3>2 DEF Opening
    <3> HIDE DEF rec
    <3>5. ReceiveContext(r, rec) \in Contexts
      BY <3>3, RoleFacts DEF ReceiveContext, Contexts
    <3> QED
      BY <1>1, <3>2, <3>3, <3>4, <3>5
  <2> QED
    BY <2>1, <2>2, <2>3, <2>4
<1> QED
  BY <1>2 DEF vars

(* The record that takes a session to its hard limit is announced: before  *)
(* it, refresh_due already reported a soft limit.                          *)
THEOREM LimitAnnounced == Spec => RefreshBeforeLimit
<1>1. SessionInv /\ UsageInv /\ [Next]_vars => [\A r \in Roles : Announced(r)]_vars
  BY StepAnnounced
<1>2. Spec => [][\A r \in Roles : Announced(r)]_vars
  BY <1>1, UsageInvariant, PTL DEF Spec
<1> QED
  BY <1>2 DEF RefreshBeforeLimit, Announced

-----------------------------------------------------------------------------
(* Over an ordered transport.                                              *)

(* An ordered transport is one of the networks of Next.                    *)
LEMMA OrderedIsNext == SessionInv /\ [OrderedNext]_vars => [Next]_vars
<1> SUFFICES ASSUME SessionInv, NEW r \in Roles, DeliverNext(r) PROVE Next
  BY DEF OrderedNext, Next
<1>1. Peer(r) \in Roles /\ sealed[Peer(r)] \in Seq(Record) /\ Len(opened[r]) \in Nat
  BY RoleFacts DEF SessionInv, TypeOK
<1>2. Len(opened[r]) + 1 \in DOMAIN sealed[Peer(r)]
  BY <1>1 DEF DeliverNext
<1> QED
  BY <1>1, <1>2 DEF DeliverNext, Next

(* What was opened is the beginning of the log of the peer.                *)
InStep == \A r \in Roles : \A k \in DOMAIN opened[r] : opened[r][k] = <<Peer(r), k>>

(* An ordered transport keeps it so: it delivers the record that is next.  *)
LEMMA OrderedInStep == SessionInv /\ InStep /\ [OrderedNext]_vars => InStep'
<1> SUFFICES ASSUME SessionInv, InStep, [OrderedNext]_vars PROVE InStep'
  OBVIOUS
<1>1. CASE opened' = opened
  BY <1>1 DEF InStep
<1>2. ASSUME NEW r \in Roles, DeliverNext(r), opened' # opened PROVE InStep'
  <2> DEFINE h == Len(opened[r]) + 1
  <2>1. /\ opened \in [Roles -> Seq(Roles \X (1..MaxSealed + 1))]
        /\ opened[r] \in Seq(Roles \X (1..MaxSealed + 1)) /\ Len(opened[r]) \in Nat
    BY DEF SessionInv, TypeOK
  <2>2. opened' = [opened EXCEPT ![r] = Append(@, <<Peer(r), h>>)]
    BY <1>2 DEF DeliverNext, Deliver, Open, OpenRejected
  <2>3. opened'[r] = Append(opened[r], <<Peer(r), h>>)
        /\ \A q \in Roles : q # r => opened'[q] = opened[q]
    BY <2>1, <2>2
  <2>4. /\ DOMAIN opened[r] = 1..Len(opened[r]) /\ DOMAIN opened'[r] = 1..h
        /\ opened'[r][h] = <<Peer(r), h>>
        /\ \A k \in DOMAIN opened[r] : opened'[r][k] = opened[r][k]
    <3> DEFINE S == UNION {Roles \X (1..MaxSealed + 1), {<<Peer(r), h>>}}
    <3>1. opened[r] \in Seq(S) /\ <<Peer(r), h>> \in S
      BY <2>1, SeqMonotonic
    <3> QED
      BY <2>1, <2>3, <3>1
  <2>5. \A k \in DOMAIN opened'[r] : opened'[r][k] = <<Peer(r), k>>
    <3> TAKE k \in DOMAIN opened'[r]
    <3>1. k = h \/ k \in DOMAIN opened[r]
      BY <2>1, <2>4
    <3> QED
      BY <2>4, <3>1 DEF InStep
  <2> QED
    BY <2>3, <2>5 DEF InStep
<1>3. CASE OrderedNext
  <2>1. PICK r \in Roles : Seal(r) \/ DeliverNext(r)
    BY <1>3 DEF OrderedNext
  <2>2. CASE Seal(r)
    BY <1>1, <2>2 DEF Seal, SealCommit, SealData, SealLimited, SealRefresh, SealClose, Emit
  <2> QED
    BY <1>1, <1>2, <2>1, <2>2
<1> QED
  BY <1>1, <1>3 DEF vars

(* The invariants over an ordered transport.                               *)
THEOREM OrderedInvariant == OrderedSpec => [](SessionInv /\ InStep)
<1>1. Init => SessionInv /\ InStep
  BY InitSessionInv DEF Init, InStep
<1>2. SessionInv /\ InStep /\ [OrderedNext]_vars => (SessionInv /\ InStep)'
  BY OrderedIsNext, NextSessionInv, OrderedInStep
<1> QED
  BY <1>1, <1>2, PTL DEF OrderedSpec

(* Over an ordered transport a session that closed orderly opened all that *)
(* its peer sealed: nothing is cut off.                                    *)
THEOREM ClosesComplete == OrderedSpec => []ClosedIsComplete
<1>1. SessionInv /\ InStep => ClosedIsComplete
  <2> SUFFICES ASSUME SessionInv, InStep, NEW r \in Roles, session[r].state = "Closed"
               PROVE  Len(opened[r]) = Len(sealed[Peer(r)])
    BY DEF ClosedIsComplete
  <2>1. PICK k \in DOMAIN opened[r] : OpenedRecord(r, k).type = "close"
    BY DEF SessionInv, CloseIsLast
  <2>2. k = Len(opened[r])
    BY <2>1 DEF SessionInv, CloseIsLast
  <2>3. /\ k \in DOMAIN sealed[Peer(r)] /\ sealed[Peer(r)][k].type = "close"
    BY <2>1, OpenedIsRecord DEF InStep
  <2> QED
    BY <2>2, <2>3, RoleFacts DEF SessionInv, CloseIsLast
<1> QED
  BY <1>1, OrderedInvariant, PTL

-----------------------------------------------------------------------------
(* Which records an ordered transport can have refused.  A record arrives  *)
(* when what was opened before it is what was sealed before it, so what it *)
(* is measured by is its place in the log of its sealer.                   *)

Prefix(log, k) == [i \in 1..k |-> log[i]]

(* A record fits the log before it, the commit is the first of a log, ...  *)
WellSealed(log, i) ==
  /\ SemanticallyValid(log[i])
  /\ log[i].type = "commit" <=> i = 1
  /\ log[i].sequence = RecordsOn(Prefix(log, i - 1), log[i].channel)
  /\ Within(Prefix(log, i), log[i].channel)

(* ... and what follows it was sealed after the peer's.                    *)
SentInv ==
  \A r \in Roles :
    /\ \A i \in DOMAIN sealed[r] : WellSealed(sealed[r], i)
    /\ Len(sealed[r]) > 1 => sealed[Peer(r)] # <<>>

(* A live session noted the commit it opened, is past Committing with both *)
(* commits, and drains because of a close.                                 *)
Noted(s, some) ==
  /\ s.state \notin Terminal /\ some => s.peer_commit_received
  /\ s.state = "Committing" => ~(s.local_commit_sent /\ s.peer_commit_received)
  /\ s.state = "Draining" => s.local_close_sent \/ s.peer_close_received

NotedInv == \A r \in Roles : Noted(session[r], opened[r] # <<>>)

(* A record keeps its place in a log that grows, and the last one is       *)
(* measured by all that came before.                                       *)
LEMMA PlaceStays ==
  ASSUME NEW log, NEW more, Longer(log, more)
  PROVE  /\ \A i \in DOMAIN log : WellSealed(log, i) => WellSealed(more, i)
         /\ Prefix(more, Len(more) - 1) = log /\ Prefix(more, Len(more)) = more
<1> DEFINE n == Len(log)
<1>1. /\ n \in Nat /\ Len(more) = n + 1 /\ \A i \in 1..n : more[i] = log[i]
      /\ DOMAIN log = 1..n /\ DOMAIN more = 1..n + 1
  BY DEF Longer
<1>2. log = [i \in 1..n |-> log[i]] /\ more = [i \in 1..n + 1 |-> more[i]]
  BY <1>1 DEF Longer
<1> HIDE DEF n
<1>3. ASSUME NEW k \in 0..n PROVE Prefix(more, k) = Prefix(log, k)
  <2>1. \A i \in 1..k : more[i] = log[i]
    BY <1>1
  <2> QED
    BY <2>1, Zenon DEF Prefix
<1>4. ASSUME NEW i \in DOMAIN log, WellSealed(log, i) PROVE WellSealed(more, i)
  <2>1. more[i] = log[i] /\ i \in 0..n /\ i - 1 \in 0..n
    BY <1>1
  <2>2. Prefix(more, i) = Prefix(log, i) /\ Prefix(more, i - 1) = Prefix(log, i - 1)
    BY <1>3, <2>1
  <2> QED
    BY <1>4, <2>1, <2>2 DEF WellSealed
<1>5. Prefix(more, n) = log /\ Prefix(more, n + 1) = more
  <2>1. /\ Prefix(log, n) = [i \in 1..n |-> log[i]]
        /\ Prefix(more, n + 1) = [i \in 1..n + 1 |-> more[i]]
    BY DEF Prefix
  <2>2. n \in 0..n
    BY <1>1
  <2>3. Prefix(more, n) = Prefix(log, n)
    BY <1>3, <2>2
  <2> HIDE DEF Prefix
  <2>4. Prefix(log, n) = log /\ Prefix(more, n + 1) = more
    BY <1>2, <2>1, Zenon
  <2> QED
    BY <2>3, <2>4, Zenon
<1>6. Len(more) - 1 = n
  BY <1>1
<1> QED
  BY <1>1, <1>4, <1>5, <1>6

(* Sealing keeps it.                                                       *)
LEMMA SealKeepsSent ==
  ASSUME SessionInv, UsageInv, UsageInv', SentInv,
         NEW r \in Roles, NEW type, NEW channel, NEW n, NEW t, Sealing(r, type, channel, n, t)
  PROVE  SentInv'
<1> DEFINE rec == NewRecord(r, type, channel, n)
           last == Len(sealed[r]) + 1
           s == session[r]
<1>1. /\ Longer(sealed[r], sealed'[r]) /\ sealed'[r][last] = rec
      /\ DOMAIN sealed[r] = 1..Len(sealed[r]) /\ DOMAIN sealed'[r] = 1..last
      /\ Len(sealed'[r]) = last /\ Len(sealed[r]) \in Nat
      /\ \A q \in Roles : q # r => sealed'[q] = sealed[q]
  <2>1. SealEffect(r, type, channel, n, t)
    BY SealFrame
  <2>2. /\ Longer(sealed[r], sealed'[r])
        /\ \A q \in Roles : q # r => sealed'[q] = sealed[q]
    BY SealedLogGrows
  <2> HIDE DEF rec
  <2> QED
    BY <2>1, <2>2 DEF SealEffect, rec
<1>2. /\ rec.type = type /\ rec.channel = channel /\ rec.plaintext_len = n
      /\ rec.sequence = s.usage[SendContext(r, channel)].next_sequence
  BY DEF NewRecord
<1>3. /\ type \in RecordTypes /\ channel \in Channels /\ s.state \notin Terminal
      /\ type # "data" => n = 0 /\ channel = Guard
      /\ type = "data" => channel \in DataChannels
      /\ MaySeal(s, type)
  BY DEF Sealing, Uses, SealMoves
<1> HIDE DEF rec, s
<1>4. SemanticallyValid(rec)
  BY <1>2, <1>3, ChannelAssumption DEF SemanticallyValid
<1>5. rec.sequence = RecordsOn(sealed[r], channel)
  <2>1. Matches(s.usage[<<channel, SendDirection(r)>>], sealed[r], channel)
    BY <1>3 DEF UsageInv, s
  <2> QED
    BY <1>2, <2>1 DEF Matches, SendContext
<1>6. Within(sealed'[r], channel)
  BY <1>3, Zenon DEF UsageInv, Within
<1>7. CASE type = "commit"
  <2>1. sealed[r] = <<>>
    BY <1>3, <1>7 DEF MaySeal, CanCommit, SessionInv, StateMeansFlags, s
  <2>2. last = 1
    BY <2>1
  <2>3. WellSealed(sealed'[r], last)
    BY <1>1, <1>2, <1>4, <1>5, <1>6, <1>7, <2>2, PlaceStays DEF WellSealed
  <2> QED
    BY <1>1, <2>2, <2>3, PlaceStays, RoleFacts DEF SentInv
<1>8. CASE type # "commit"
  <2>1. s.local_commit_sent /\ s.peer_commit_received
    BY <1>3, <1>8 DEF MaySeal, CanSeal, CanClose, SessionInv, StateMeansFlags, s
  <2>2. SealedType(r, "commit") /\ OpenedType(r, "commit")
    BY <2>1 DEF SessionInv, FlagsMeanRecords, s
  <2>3. sealed[r] # <<>> /\ last # 1
    BY <1>1, <2>2 DEF SealedType
  <2>4. sealed[Peer(r)] # <<>>
    <3>1. PICK k \in DOMAIN opened[r] : opened[r][k][2] \in DOMAIN sealed[Peer(r)]
      BY <2>2 DEF OpenedType, SessionInv, Located
    <3> QED
      BY <3>1
  <2>5. WellSealed(sealed'[r], last)
    BY <1>1, <1>2, <1>4, <1>5, <1>6, <1>8, <2>3, PlaceStays DEF WellSealed
  <2> QED
    BY <1>1, <2>3, <2>4, <2>5, PlaceStays, RoleFacts DEF SentInv
<1> QED
  BY <1>7, <1>8

(* Every step keeps it.                                                    *)
LEMMA NextSentInv ==
  SessionInv /\ UsageInv /\ SentInv /\ [Next]_vars => SentInv'
<1> SUFFICES ASSUME SessionInv, UsageInv, SentInv, [Next]_vars PROVE SentInv'
  OBVIOUS
<1>1. CASE sealed' = sealed
  BY <1>1, Zenon DEF SentInv, WellSealed, Within
<1>2. CASE Next
  <2>1. PICK r \in Roles : \/ \E type, channel, n, t : Sealing(r, type, channel, n, t)
                           \/ \E i, t : Opening(r, i, t)
                           \/ Failing(r)
    BY <1>2, StepKinds DEF SessionInv
  <2>2. CASE (\E i, t : Opening(r, i, t)) \/ Failing(r)
    BY <1>1, <2>2 DEF Opening, Failing
  <2> QED
    BY <2>1, <2>2, SealKeepsSent, NextUsageInv
<1> QED
  BY <1>1, <1>2 DEF vars

(* Every step keeps what is noted.                                         *)
LEMMA NextNotedInv == SessionInv /\ NotedInv /\ [Next]_vars => NotedInv'
<1> SUFFICES ASSUME SessionInv, NotedInv, [Next]_vars PROVE NotedInv'
  OBVIOUS
<1>1. CASE UNCHANGED vars
  BY <1>1 DEF NotedInv, Noted, vars
<1>2. CASE Next
  <2>1. PICK r \in Roles : \/ \E type, channel, n, t : Sealing(r, type, channel, n, t)
                           \/ \E i, t : Opening(r, i, t)
                           \/ Failing(r)
    BY <1>2, StepKinds DEF SessionInv
  <2>2. CASE Failing(r)
    BY <2>2, FailFrame DEF NotedInv, Noted, Terminal
  <2>3. ASSUME NEW type, NEW channel, NEW n, NEW t, Sealing(r, type, channel, n, t)
        PROVE  NotedInv'
    <3>1. SealEffect(r, type, channel, n, t) /\ SealMoves(session[r], type, t)
      BY <2>3, SealFrame DEF Sealing
    <3>2. /\ session'[r] = t /\ opened' = opened
          /\ \A q \in Roles : q # r => session'[q] = session[q]
      BY <3>1 DEF SealEffect
    <3>3. Noted(session[r], opened[r] # <<>>) /\ StateMeansFlags(r)
      BY DEF NotedInv, SessionInv
    <3>4. Noted(t, opened[r] # <<>>)
      BY <3>1, <3>3 DEF Noted, StateMeansFlags, SealMoves, SameFlags, MaySeal,
           CanCommit, CanClose, CanSeal, Terminal
    <3> QED
      BY <3>2, <3>4 DEF NotedInv, Noted
  <2>4. ASSUME NEW i, NEW t, Opening(r, i, t) PROVE NotedInv'
    <3>1. OpenEffect(r, i, t) /\ OpenMoves(session[r], sealed[Peer(r)][i].type, t)
      BY <2>4, OpenFrame DEF Opening
    <3>2. /\ session'[r] = t
          /\ \A q \in Roles : q # r => session'[q] = session[q] /\ opened'[q] = opened[q]
      BY <3>1 DEF OpenEffect
    <3>3. Noted(session[r], opened[r] # <<>>) /\ StateMeansFlags(r)
      BY DEF NotedInv, SessionInv
    <3>4. \A some : Noted(t, some)
      BY <3>1, <3>3 DEF Noted, StateMeansFlags, OpenMoves, SameFlags, Terminal
    <3> QED
      BY <3>2, <3>4 DEF NotedInv, Noted
  <2> QED
    BY <2>1, <2>2, <2>3, <2>4
<1> QED
  BY <1>1, <1>2

(* At first nothing is sealed.                                             *)
LEMMA InitSentInv == Init => SentInv /\ NotedInv /\ InStep
<1> SUFFICES ASSUME Init PROVE SentInv /\ NotedInv /\ InStep
  OBVIOUS
<1>1. \A r \in Roles : sealed[r] = <<>> /\ opened[r] = <<>> /\ session[r] = Fresh
  BY DEF Init
<1>2. DOMAIN <<>> = {} /\ Len(<<>>) = 0
  OBVIOUS
<1> QED
  BY <1>1, <1>2 DEF SentInv, NotedInv, Noted, InStep, Fresh

(* The record that arrives is the one its receiver can account for: its    *)
(* number, the room left, and its tag.                                     *)
LEMMA NextInLine ==
  ASSUME SessionInv, UsageInv, SentInv, InStep, NEW r \in Roles,
         session[r].state \notin Terminal, epoch[r] = epoch[Peer(r)],
         Len(opened[r]) < Len(sealed[Peer(r)])
  PROVE  LET rec == sealed[Peer(r)][Len(opened[r]) + 1]
             u   == session[r].usage[ReceiveContext(r, rec)]
         IN  /\ SemanticallyValid(rec) /\ rec.sequence = u.next_sequence
             /\ Permits(u, rec.plaintext_len) /\ Authentic(r, rec)
<1> DEFINE log == sealed[Peer(r)]
           n == Len(opened[r])
           rec == log[n + 1]
           channel == rec.channel
           u == session[r].usage[ReceiveContext(r, rec)]
           before == Prefix(log, n)
           after == Prefix(log, n + 1)
<1>1. /\ Peer(r) \in Roles /\ log \in Seq(Record) /\ Len(log) \in Nat /\ n \in Nat
      /\ DOMAIN opened[r] = 1..n /\ DOMAIN log = 1..Len(log) /\ n < Len(log)
  BY RoleFacts DEF SessionInv, TypeOK
<1>2. /\ n + 1 \in DOMAIN log /\ rec \in Record
      /\ channel \in Channels /\ rec.plaintext_len \in Nat
  <2>1. n + 1 \in DOMAIN log /\ rec \in Record
    BY <1>1
  <2> QED
    BY <2>1, LimitFacts DEF Record
<1>3. WellSealed(log, n + 1)
  BY <1>1, <1>2 DEF SentInv
<1>4. OpenedLog(r) = before
  <2>1. \A k \in 1..n : OpenedRecord(r, k) = log[k]
    BY <1>1 DEF InStep, OpenedRecord
  <2> QED
    BY <1>1, <2>1, Zenon DEF OpenedLog, Prefix
<1>5. /\ u \in Usage /\ Matches(u, before, channel) /\ Within(before, channel)
  <2>1. ReceiveContext(r, rec) = <<channel, ReceiveDirection(r)>>
    BY DEF ReceiveContext
  <2>2. session[r].usage \in [Contexts -> Usage]
    BY DEF SessionInv, TypeOK, Session
  <2>3. <<channel, ReceiveDirection(r)>> \in Contexts
    BY <1>2, RoleFacts DEF Contexts
  <2> QED
    BY <1>2, <1>4, <2>1, <2>2, <2>3 DEF UsageInv
<1>6. Longer(before, after) /\ Len(after) = n + 1 /\ after[n + 1] = rec
  <2>1. \A k \in 1..n + 1 : log[k] \in Record
    BY <1>1
  <2>2. before \in Seq(Record) /\ after \in Seq(Record)
        /\ Len(before) = n /\ Len(after) = n + 1
    BY <1>1, <2>1 DEF Prefix
  <2>3. \A k \in 1..n + 1 : after[k] = log[k]
    BY DEF Prefix
  <2>4. \A k \in 1..n : before[k] = log[k] /\ k \in 1..n + 1
    BY <1>1 DEF Prefix
  <2> HIDE DEF before, after
  <2> QED
    BY <1>1, <2>2, <2>3, <2>4 DEF Longer
<1> HIDE DEF rec, u, before, after, n
<1>7. /\ RecordsOn(before, channel) \in Nat
      /\ RecordsOn(after, channel) = RecordsOn(before, channel) + 1
      /\ BytesOn(after, channel) = BytesOn(before, channel) + rec.plaintext_len
  BY <1>5, <1>6, RecordsAdded, BytesAdded DEF Within
<1>8. Within(after, channel)
  BY <1>3 DEF WellSealed, rec, after
<1>9. Permits(u, rec.plaintext_len)
  BY <1>2, <1>5, <1>7, <1>8, LimitFacts DEF Permits, Matches, Within, Usage
<1>10. rec.sequence = u.next_sequence
  <2>1. (n + 1) - 1 = n
    BY <1>1
  <2>2. rec.sequence = RecordsOn(Prefix(log, (n + 1) - 1), channel)
    BY <1>3 DEF WellSealed, rec
  <2>3. rec.sequence = RecordsOn(before, channel)
    BY <2>1, <2>2 DEF before
  <2> QED
    BY <1>5, <2>3 DEF Matches
<1>11. SemanticallyValid(rec)
  BY <1>3 DEF WellSealed, rec
<1>12. Authentic(r, rec)
  BY <1>1, <1>2, RoleFacts DEF SessionInv, Stamped, Authentic, rec
<1> QED
  BY <1>9, <1>10, <1>11, <1>12 DEF rec, u, n

(* And its state admits it, but for what crosses its own close.            *)
LEMMA TypeInLine ==
  ASSUME SessionInv, SentInv, NotedInv, InStep, NEW r \in Roles,
         session[r].state \notin Terminal, Len(opened[r]) < Len(sealed[Peer(r)])
  PROVE  LET rec == sealed[Peer(r)][Len(opened[r]) + 1]
         IN  \/ StateValid(session[r], rec)
             \/ session[r].local_close_sent /\ rec.type \in {"data", "refresh"}
<1> DEFINE log == sealed[Peer(r)]
           n == Len(opened[r])
           rec == log[n + 1]
           s == session[r]
<1>1. /\ Peer(r) \in Roles /\ Peer(Peer(r)) = r
      /\ log \in Seq(Record) /\ Len(log) \in Nat /\ n \in Nat
      /\ DOMAIN opened[r] = 1..n /\ DOMAIN log = 1..Len(log) /\ n < Len(log)
      /\ s \in Session
  BY RoleFacts DEF SessionInv, TypeOK
<1>2. n + 1 \in DOMAIN log /\ rec.type \in RecordTypes
  <2>1. n + 1 \in DOMAIN log /\ rec \in Record
    BY <1>1
  <2> QED
    BY <2>1 DEF Record
<1>3. rec.type = "commit" <=> n = 0
  <2>1. WellSealed(log, n + 1)
    BY <1>1, <1>2 DEF SentInv
  <2>2. n + 1 = 1 <=> n = 0
    BY <1>1
  <2> QED
    BY <2>1, <2>2 DEF WellSealed
<1>4. \A k \in 1..n : OpenedRecord(r, k) = log[k]
  BY <1>1 DEF InStep, OpenedRecord
<1>5. ~s.peer_close_received
  <2>1. SUFFICES ASSUME s.peer_close_received PROVE FALSE
    OBVIOUS
  <2>2. PICK k \in 1..n : log[k].type = "close"
    BY <1>1, <1>4, <2>1 DEF SessionInv, FlagsMeanRecords, OpenedType
  <2>3. k \in DOMAIN log /\ k # Len(log)
    BY <1>1
  <2> QED
    BY <1>1, <2>2, <2>3 DEF SessionInv, CloseIsLast
<1> HIDE DEF rec, s
<1>6. CASE n = 0
  <2>1. ~OpenedType(r, "commit")
    BY <1>1, <1>6 DEF OpenedType
  <2>2. ~s.peer_commit_received
    BY <2>1 DEF SessionInv, FlagsMeanRecords, s
  <2>3. s.state = "Committing"
    BY <1>1, <2>2 DEF SessionInv, StateMeansFlags, Session, States, Terminal, s
  <2> QED
    BY <1>3, <1>6, <2>2, <2>3 DEF StateValid, rec, s
<1>7. CASE n # 0
  <2>1. Len(log) > 1 /\ opened[r] # <<>>
    BY <1>1, <1>7
  <2>2. sealed[r] # <<>>
    BY <1>1, <2>1 DEF SentInv
  <2>3. Noted(s, TRUE) /\ StateMeansFlags(r) /\ s.state \notin Terminal
    BY <2>1 DEF NotedInv, SessionInv, Noted, s
  <2>4. s.peer_commit_received /\ s.state # "Committing"
    BY <2>2, <2>3 DEF Noted, StateMeansFlags, s
  <2>5. \/ s.state = "Active"
        \/ s.state = "Draining" /\ s.local_close_sent
    BY <1>1, <1>5, <2>3, <2>4 DEF Noted, Session, States, Terminal
  <2>6. rec.type \in {"data", "refresh", "close"}
    BY <1>2, <1>3, <1>7 DEF RecordTypes
  <2>7. CASE rec.type = "close"
    BY <1>5, <2>5, <2>7 DEF StateValid, rec, s
  <2>8. CASE rec.type \in {"data", "refresh"}
    BY <2>5, <2>8 DEF StateValid, rec, s
  <2> QED
    BY <2>6, <2>7, <2>8
<1> QED
  BY <1>6, <1>7

(* A session that fails without a record had a payload too large, or was   *)
(* refused what crossed its close.                                         *)
Excused(r) ==
  \/ \E channel \in DataChannels :
       ~Permits(session[r].usage[SendContext(r, channel)], MaxPlaintext)
  \/ /\ session[r].local_close_sent
     /\ sealed[Peer(r)][Len(opened[r]) + 1].type \in {"data", "refresh"}

FailureExcused(r) ==
  /\ session[r].state \notin Terminal /\ session'[r].state = "Failed"
  /\ UNCHANGED <<sealed, opened>>
  /\ epoch[r] = epoch[Peer(r)]
  => Excused(r)

(* Every step over an ordered transport is of that kind.                   *)
LEMMA StepExcused ==
  ASSUME SessionInv, UsageInv, SentInv, NotedInv, InStep, [OrderedNext]_vars
  PROVE  \A r \in Roles : FailureExcused(r)
<1> SUFFICES ASSUME NEW r \in Roles,
                    session[r].state \notin Terminal, session'[r].state = "Failed",
                    sealed' = sealed, opened' = opened, epoch[r] = epoch[Peer(r)]
             PROVE  Excused(r)
  BY DEF FailureExcused
<1>1. session'[r] # session[r]
  BY DEF Terminal
<1>2. PICK q \in Roles : Seal(q) \/ DeliverNext(q)
  BY <1>1 DEF OrderedNext, vars
<1>3. ASSUME NEW type, NEW channel, NEW n, NEW t PROVE ~Sealing(q, type, channel, n, t)
  <2> SUFFICES ASSUME Sealing(q, type, channel, n, t) PROVE FALSE
    OBVIOUS
  <2>1. SealEffect(q, type, channel, n, t)
    BY SealFrame
  <2> QED
    BY <2>1 DEF SealEffect
<1>4. Failing(q) => q = r
  BY <1>1 DEF Failing, SessionInv, TypeOK
<1>5. CASE Seal(q)
  <2>1. PICK channel \in DataChannels, n \in 0..MaxPlaintext : SealLimited(q, channel, n)
    BY <1>3, <1>5, DataSeals, CommitSeals, CloseSeals DEF Seal, SessionInv
  <2>2. q = r /\ ~Permits(session[r].usage[SendContext(r, channel)], n)
    BY <1>4, <2>1 DEF SealLimited, Failing
  <2>3. session[r].usage[SendContext(r, channel)] \in Usage
    <3>1. SendContext(r, channel) \in Contexts /\ session[r] \in Session
      BY RoleFacts DEF SendContext, Contexts, SessionInv, TypeOK
    <3> QED
      BY <3>1 DEF Session
  <2>4. ~Permits(session[r].usage[SendContext(r, channel)], MaxPlaintext)
    BY <2>2, <2>3, LimitFacts DEF Permits, Usage
  <2> QED
    BY <2>4 DEF Excused
<1>6. CASE DeliverNext(q)
  <2> DEFINE i == Len(opened[q]) + 1
  <2>1. /\ Peer(q) \in Roles /\ sealed[Peer(q)] \in Seq(Record) /\ Len(opened[q]) \in Nat
        /\ Len(opened[q]) < Len(sealed[Peer(q)])
    BY <1>6, RoleFacts DEF SessionInv, TypeOK, DeliverNext
  <2>2. i \in DOMAIN sealed[Peer(q)]
    BY <2>1
  <2>3. ~Open(q, Peer(q), i)
    <3> SUFFICES ASSUME Open(q, Peer(q), i) PROVE FALSE
      OBVIOUS
    <3>1. Opening(q, i, session'[q])
      BY <2>1, <2>2, OpenIsOpening DEF SessionInv
    <3>2. OpenEffect(q, i, session'[q])
      BY <3>1, OpenFrame
    <3> QED
      BY <3>2 DEF OpenEffect
  <2>4. OpenRejected(q, Peer(q), i)
    BY <1>6, <2>3 DEF DeliverNext, Deliver
  <2>5. q = r /\ ~Acceptable(r, sealed[Peer(r)][Len(opened[r]) + 1])
    BY <1>4, <2>4 DEF OpenRejected, Failing
  <2>6. ~StateValid(session[r], sealed[Peer(r)][Len(opened[r]) + 1])
    BY <2>1, <2>5, NextInLine DEF Acceptable
  <2> QED
    BY <2>1, <2>5, <2>6, TypeInLine DEF Excused
<1> QED
  BY <1>2, <1>5, <1>6

(* Over an ordered transport, peers of one epoch fail without a record     *)
(* only when a payload does not fit the byte limit, or when data or a      *)
(* refresh crosses the receiver's own close: crossing commits and crossing *)
(* closes are no failure.                                                  *)
THEOREM CrossedDataOnly == OrderedSpec => OnlyCrossedDataRejected
<1> DEFINE Inv == SessionInv /\ UsageInv /\ SentInv /\ NotedInv /\ InStep
<1>1. Init => Inv
  BY InitSessionInv, InitUsageInv, InitSentInv
<1>2. Inv /\ [OrderedNext]_vars => Inv'
  BY OrderedIsNext, NextSessionInv, NextUsageInv, NextSentInv, NextNotedInv, OrderedInStep
<1>3. Inv /\ [OrderedNext]_vars => [\A r \in Roles : FailureExcused(r)]_vars
  BY StepExcused
<1> HIDE DEF Inv
<1>4. OrderedSpec => [][\A r \in Roles : FailureExcused(r)]_vars
  BY <1>1, <1>2, <1>3, PTL DEF OrderedSpec
<1> QED
  BY <1>4 DEF OnlyCrossedDataRejected, FailureExcused, Excused

=============================================================================
