------------------------ MODULE SecureChannelsProofs ------------------------
(***************************************************************************)
(* InnerSession implements SecureChannels, for every set of channels and   *)
(* epochs, all limits, and logs of any length.                             *)
(***************************************************************************)
EXTENDS SessionUsageProofs

-----------------------------------------------------------------------------
(* The payloads of a log.                                                  *)

(* f lists the payloads of a channel, record by record.                    *)
IsList(log, channel, f) ==
  f = [i \in 0..Len(log) |->
         IF i = 0 THEN <<>>
         ELSE IF log[i].channel = channel
              THEN Append(f[i - 1], log[i].plaintext_len)
              ELSE f[i - 1]]

(* Exactly one function does.                                              *)
Listed(log, channel) == \E f : \A g : IsList(log, channel, g) <=> g = f

(* PayloadsOn is the value of the list at the end of the log.              *)
LEMMA PayloadsOnMeans ==
  ASSUME NEW log, NEW channel
  PROVE  PayloadsOn(log, channel) = (CHOOSE f : IsList(log, channel, f))[Len(log)]
  BY Zenon DEF PayloadsOn, IsList

(* A function that is the only list is the list PayloadsOn looks at.       *)
LEMMA PayloadsOnIs ==
  ASSUME NEW log, NEW channel, NEW f, \A g : IsList(log, channel, g) <=> g = f
  PROVE  Listed(log, channel) /\ PayloadsOn(log, channel) = f[Len(log)]
<1>1. (CHOOSE g : IsList(log, channel, g)) = f
  OBVIOUS
<1>2. Listed(log, channel)
  BY DEF Listed
<1> QED
  BY <1>1, <1>2, PayloadsOnMeans

(* An empty log has none.                                                  *)
LEMMA EmptyPayloads ==
  ASSUME NEW channel
  PROVE  Listed(<<>>, channel) /\ PayloadsOn(<<>>, channel) = <<>>
<1> DEFINE zero == [i \in 0..0 |-> <<>>]
<1>1. ASSUME NEW g PROVE IsList(<<>>, channel, g) <=> g = zero
  <2> DEFINE Body(i) == IF i = 0 THEN <<>>
                        ELSE IF <<>>[i].channel = channel
                             THEN Append(g[i - 1], <<>>[i].plaintext_len)
                             ELSE g[i - 1]
  <2>1. Len(<<>>) = 0 /\ \A i \in 0..0 : i = 0
    OBVIOUS
  <2>2. IsList(<<>>, channel, g) <=> g = [i \in 0..0 |-> Body(i)]
    BY <2>1, Zenon DEF IsList
  <2>3. [i \in 0..0 |-> Body(i)] = zero
    BY <2>1
  <2> HIDE DEF Body
  <2> QED
    BY <2>2, <2>3
<1>2. Listed(<<>>, channel) /\ PayloadsOn(<<>>, channel) = zero[Len(<<>>)]
  BY <1>1, PayloadsOnIs
<1>3. zero[Len(<<>>)] = <<>>
  OBVIOUS
<1> QED
  BY <1>2, <1>3

(* A record more is added to the list of its channel.                      *)
LEMMA PayloadAdded ==
  ASSUME NEW log, NEW more, NEW channel, Longer(log, more), Listed(log, channel)
  PROVE  LET rec == more[Len(more)]
         IN  /\ Listed(more, channel)
             /\ PayloadsOn(more, channel)
                  = IF rec.channel = channel
                    THEN Append(PayloadsOn(log, channel), rec.plaintext_len)
                    ELSE PayloadsOn(log, channel)
<1> DEFINE n == Len(log)
           Add(list, rec) == IF rec.channel = channel
                             THEN Append(list, rec.plaintext_len) ELSE list
<1>1. n \in Nat /\ Len(more) = n + 1 /\ \A i \in 1..n : more[i] = log[i]
  BY DEF Longer
<1>2. PICK f : \A g : IsList(log, channel, g) <=> g = f
  BY DEF Listed
<1>3. f = [i \in 0..n |-> IF i = 0 THEN <<>> ELSE Add(f[i - 1], log[i])]
  BY <1>2, Zenon DEF IsList
<1> DEFINE h == [i \in 0..n + 1 |-> IF i = n + 1 THEN Add(f[n], more[n + 1]) ELSE f[i]]
<1> HIDE DEF n
<1>4. ASSUME NEW g, IsList(more, channel, g) PROVE g = h
  <2>1. g = [i \in 0..n + 1 |-> IF i = 0 THEN <<>> ELSE Add(g[i - 1], more[i])]
    BY <1>1, <1>4, Zenon DEF IsList
  <2> DEFINE g0 == [i \in 0..n |-> g[i]]
  <2>2. g0 = [i \in 0..n |-> IF i = 0 THEN <<>> ELSE Add(g0[i - 1], log[i])]
    <3> HIDE DEF Add
    <3> SUFFICES ASSUME NEW i \in 0..n
                 PROVE  g[i] = IF i = 0 THEN <<>> ELSE Add(g0[i - 1], log[i])
      BY Zenon
    <3>1. g[i] = IF i = 0 THEN <<>> ELSE Add(g[i - 1], more[i])
      BY <1>1, <2>1
    <3>2. CASE i = 0
      BY <3>1, <3>2
    <3>3. CASE i # 0
      <4>1. i \in 1..n /\ i - 1 \in 0..n
        BY <1>1, <3>3
      <4> QED
        BY <1>1, <3>1, <3>3, <4>1
    <3> QED
      BY <3>2, <3>3
  <2>3. g0 = f
    BY <1>2, <2>2, Zenon DEF IsList, n
  <2> HIDE DEF Add
  <2> QED
    <3>1. ASSUME NEW i \in 0..n + 1 PROVE g[i] = h[i]
      <4>1. CASE i = n + 1
        <5>1. i - 1 = n /\ i # 0 /\ n \in 0..n
          BY <1>1, <4>1
        <5>2. g[i] = Add(g[n], more[n + 1])
          BY <2>1, <4>1, <5>1
        <5> QED
          BY <2>3, <4>1, <5>1, <5>2
      <4>2. CASE i # n + 1
        BY <1>1, <2>3, <4>2
      <4> QED
        BY <4>1, <4>2
    <3> QED
      BY <2>1, <3>1
<1>5. IsList(more, channel, h)
  <2> SUFFICES ASSUME NEW i \in 0..n + 1
               PROVE  h[i] = IF i = 0 THEN <<>> ELSE Add(h[i - 1], more[i])
    BY <1>1, Zenon DEF IsList
  <2> HIDE DEF Add
  <2>1. CASE i = 0
    <3>1. 0 \in 0..n /\ 0 # n + 1
      BY <1>1
    <3>2. f[0] = <<>>
      BY <1>3, <3>1
    <3> QED
      BY <2>1, <3>1, <3>2
  <2>2. CASE i = n + 1
    <3>1. i # 0 /\ i - 1 = n /\ n # n + 1 /\ n \in 0..n + 1
      BY <1>1, <2>2
    <3> QED
      BY <2>2, <3>1
  <2>3. CASE i # 0 /\ i # n + 1
    <3>1. i \in 1..n /\ i \in 0..n /\ i - 1 \in 0..n + 1 /\ i - 1 # n + 1
      BY <1>1, <2>3
    <3>2. f[i] = Add(f[i - 1], log[i])
      BY <1>3, <2>3, <3>1
    <3> QED
      BY <1>1, <2>3, <3>1, <3>2
  <2> QED
    BY <2>1, <2>2, <2>3
<1> HIDE DEF h
<1>6. \A g : IsList(more, channel, g) <=> g = h
  BY <1>4, <1>5
<1>7. /\ Listed(more, channel)
      /\ PayloadsOn(more, channel) = h[n + 1] /\ PayloadsOn(log, channel) = f[n]
  <2>1. Listed(more, channel) /\ PayloadsOn(more, channel) = h[Len(more)]
    BY <1>6, PayloadsOnIs
  <2>2. PayloadsOn(log, channel) = f[n]
    BY <1>2, PayloadsOnIs DEF n
  <2> QED
    BY <1>1, <2>1, <2>2
<1>8. h[n + 1] = Add(f[n], more[n + 1])
  BY <1>1 DEF h
<1>9. more[Len(more)] = more[n + 1]
  BY <1>1
<1> QED
  BY <1>7, <1>8, <1>9, Zenon

-----------------------------------------------------------------------------
(* The invariant: a channel lists as many payloads as its log has records, *)
(* and the sequence number of a record is its place in the list.           *)

Orderly(log, channel) ==
  /\ Listed(log, channel)
  /\ PayloadsOn(log, channel) \in Seq(0..MaxPlaintext)
  /\ Len(PayloadsOn(log, channel)) = RecordsOn(log, channel)

Placed(log, i) ==
  LET rec      == log[i]
      payloads == PayloadsOn(log, rec.channel)
  IN  /\ rec.type = "data" <=> rec.channel # Guard
      /\ rec.sequence < Len(payloads)
      /\ payloads[rec.sequence + 1] = rec.plaintext_len

PayloadInv ==
  \A r \in Roles :
    /\ \A channel \in Channels : Orderly(sealed[r], channel) /\ Orderly(OpenedLog(r), channel)
    /\ \A i \in DOMAIN sealed[r] : Placed(sealed[r], i)

(* A record more keeps the lists, and the places in them.                  *)
LEMMA OrderlyGrows ==
  ASSUME NEW log, NEW more, NEW channel, Longer(log, more), Orderly(log, channel)
  PROVE  LET rec  == more[Len(more)]
             list == PayloadsOn(log, channel)
         IN  /\ Orderly(more, channel)
             /\ PayloadsOn(more, channel) = IF rec.channel = channel
                                            THEN Append(list, rec.plaintext_len) ELSE list
             /\ \A k \in 1..Len(list) : PayloadsOn(more, channel)[k] = list[k]
             /\ Len(list) <= Len(PayloadsOn(more, channel))
             /\ rec.channel = channel =>
                  /\ Len(PayloadsOn(more, channel)) = Len(list) + 1
                  /\ PayloadsOn(more, channel)[Len(list) + 1] = rec.plaintext_len
<1> DEFINE rec == more[Len(more)]
           list == PayloadsOn(log, channel)
<1>1. /\ Listed(more, channel)
      /\ PayloadsOn(more, channel) = IF rec.channel = channel
                                     THEN Append(list, rec.plaintext_len) ELSE list
  BY PayloadAdded DEF Orderly
<1>2. rec \in Record
  <2>1. more \in Seq(Record) /\ Len(more) \in 1..Len(more)
    BY DEF Longer
  <2> QED
    BY <2>1
<1>3. rec.plaintext_len \in 0..MaxPlaintext
  BY <1>2 DEF Record
<1>4. list \in Seq(0..MaxPlaintext) /\ Len(list) = RecordsOn(log, channel)
  BY DEF Orderly
<1>5. RecordsOn(more, channel) = RecordsOn(log, channel) + IF rec.channel = channel THEN 1 ELSE 0
  BY RecordsAdded
<1> HIDE DEF rec, list
<1>6. CASE rec.channel = channel
  <2>1. PayloadsOn(more, channel) = Append(list, rec.plaintext_len)
    BY <1>1, <1>6
  <2>2. /\ PayloadsOn(more, channel) \in Seq(0..MaxPlaintext)
        /\ Len(PayloadsOn(more, channel)) = Len(list) + 1 /\ Len(list) \in Nat
        /\ PayloadsOn(more, channel)[Len(list) + 1] = rec.plaintext_len
        /\ \A k \in 1..Len(list) : PayloadsOn(more, channel)[k] = list[k]
    BY <1>3, <1>4, <2>1
  <2>3. Orderly(more, channel)
    BY <1>1, <1>4, <1>5, <1>6, <2>2 DEF Orderly
  <2> QED
    BY <1>1, <1>6, <2>2, <2>3 DEF rec, list
<1>7. CASE rec.channel # channel
  <2>1. PayloadsOn(more, channel) = list /\ Len(list) \in Nat
    BY <1>1, <1>4, <1>7
  <2>2. Orderly(more, channel)
    BY <1>1, <1>4, <1>5, <1>7, <2>1 DEF Orderly
  <2> QED
    BY <1>1, <1>7, <2>1, <2>2 DEF rec, list
<1> QED
  BY <1>6, <1>7

(* Orderly and Placed speak of their arguments only.                       *)
LEMMA PayloadInvOf ==
  ASSUME \A r \in Roles :
           /\ \A channel \in Channels :
                Orderly(sealed'[r], channel) /\ Orderly(OpenedLog(r)', channel)
           /\ \A i \in DOMAIN sealed'[r] : Placed(sealed'[r], i)
  PROVE  PayloadInv'
  BY Zenon DEF PayloadInv, Orderly, Placed

(* Sealing keeps the lists: the new record takes the next place.           *)
LEMMA SealKeepsPayloads ==
  ASSUME SessionInv, UsageInv, PayloadInv,
         NEW r \in Roles, NEW type, NEW channel, NEW n, NEW t, Sealing(r, type, channel, n, t)
  PROVE  PayloadInv'
<1> DEFINE log == sealed[r]
           more == sealed'[r]
           rec == NewRecord(r, type, channel, n)
<1>1. /\ Longer(log, more) /\ more[Len(more)] = rec
      /\ \A q \in Roles : q # r => sealed'[q] = sealed[q]
      /\ \A q \in Roles : OpenedLog(q)' = OpenedLog(q)
  BY SealedLogGrows
<1>2. SealEffect(r, type, channel, n, t)
  BY SealFrame
<1>3. /\ rec.type = type /\ rec.channel = channel /\ rec.plaintext_len = n
      /\ rec.sequence = session[r].usage[<<channel, SendDirection(r)>>].next_sequence
  BY <1>2 DEF SealEffect
<1>4. /\ channel \in Channels /\ (type = "data" <=> channel # Guard)
      /\ session[r].state \notin Terminal
  BY ChannelAssumption DEF Sealing, Uses
<1>5. rec.sequence = Len(PayloadsOn(log, channel))
  <2>1. Matches(session[r].usage[<<channel, SendDirection(r)>>], log, channel)
    BY <1>4 DEF UsageInv
  <2>2. rec.sequence = RecordsOn(log, channel)
    BY <1>3, <2>1 DEF Matches
  <2> QED
    BY <1>4, <2>2 DEF PayloadInv, Orderly
<1> HIDE DEF rec
<1>6. ASSUME NEW ch \in Channels
      PROVE  LET list == PayloadsOn(log, ch)
             IN  /\ Orderly(more, ch)
                 /\ \A k \in 1..Len(list) : PayloadsOn(more, ch)[k] = list[k]
                 /\ Len(list) \in Nat /\ Len(PayloadsOn(more, ch)) \in Nat
                 /\ Len(list) <= Len(PayloadsOn(more, ch))
                 /\ channel = ch => /\ Len(PayloadsOn(more, ch)) = Len(list) + 1
                                    /\ PayloadsOn(more, ch)[Len(list) + 1] = n
  <2>1. Orderly(log, ch)
    BY DEF PayloadInv
  <2>2. Orderly(more, ch)
    BY <1>1, <2>1, OrderlyGrows
  <2>3. Len(PayloadsOn(log, ch)) \in Nat /\ Len(PayloadsOn(more, ch)) \in Nat
    BY <2>1, <2>2 DEF Orderly
  <2> QED
    BY <1>1, <1>3, <2>1, <2>2, <2>3, OrderlyGrows
<1>7. /\ \A i \in DOMAIN more : i \in DOMAIN log \/ i = Len(more)
      /\ \A i \in DOMAIN log : more[i] = log[i] /\ log[i] \in Record
  <2>1. /\ log \in Seq(Record) /\ more \in Seq(Record) /\ Len(more) = Len(log) + 1
        /\ \A i \in 1..Len(log) : more[i] = log[i]
    BY <1>1 DEF Longer
  <2> QED
    BY <2>1
<1>8. ASSUME NEW i \in DOMAIN more PROVE Placed(more, i)
  <2>1. CASE i = Len(more)
    BY <1>1, <1>3, <1>4, <1>5, <1>6, <2>1 DEF Placed
  <2>2. CASE i \in DOMAIN log
    <3>1. /\ more[i] = log[i] /\ log[i].channel \in Channels /\ log[i].sequence \in Nat
      BY <1>7, <2>2, LimitFacts DEF Record
    <3>2. Placed(log, i)
      BY <2>2 DEF PayloadInv
    <3>3. log[i].sequence + 1 \in 1..Len(PayloadsOn(log, log[i].channel))
      BY <1>6, <3>1, <3>2 DEF Placed
    <3> QED
      BY <1>6, <3>1, <3>2, <3>3 DEF Placed
  <2> QED
    BY <1>7, <2>1, <2>2
<1> QED
  BY <1>1, <1>6, <1>8, PayloadInvOf DEF PayloadInv

(* Opening keeps the lists.                                                *)
LEMMA OpenKeepsPayloads ==
  ASSUME SessionInv, UsageInv, PayloadInv,
         NEW r \in Roles, NEW i, NEW t, Opening(r, i, t)
  PROVE  PayloadInv'
<1>1. /\ Longer(OpenedLog(r), OpenedLog(r)')
      /\ \A q \in Roles : q # r => OpenedLog(q)' = OpenedLog(q)
  BY OpenedLogGrows DEF UsageInv
<1>2. sealed' = sealed
  BY DEF Opening
<1>3. \A ch \in Channels : Orderly(OpenedLog(r)', ch)
  BY <1>1, OrderlyGrows DEF PayloadInv
<1> QED
  BY <1>1, <1>2, <1>3, PayloadInvOf DEF PayloadInv

(* Fresh sessions have nothing listed.                                     *)
LEMMA InitPayloadInv == Init => PayloadInv
<1> SUFFICES ASSUME Init, NEW r \in Roles, NEW channel \in Channels
             PROVE  /\ Orderly(sealed[r], channel) /\ Orderly(OpenedLog(r), channel)
                    /\ \A i \in DOMAIN sealed[r] : Placed(sealed[r], i)
  BY RoleFacts DEF PayloadInv
<1>1. sealed[r] = <<>> /\ opened[r] = <<>>
  BY DEF Init
<1>2. OpenedLog(r) = <<>>
  BY <1>1 DEF OpenedLog
<1>3. RecordsOn(<<>>, channel) = 0
  <2>1. {i \in DOMAIN <<>> : <<>>[i].channel = channel} = {}
    OBVIOUS
  <2> QED
    BY <2>1, FS_EmptySet DEF RecordsOn
<1>4. Orderly(<<>>, channel)
  <2>1. <<>> \in Seq(0..MaxPlaintext) /\ Len(<<>>) = 0
    OBVIOUS
  <2>2. Listed(<<>>, channel) /\ PayloadsOn(<<>>, channel) = <<>>
    BY EmptyPayloads
  <2> QED
    BY <1>3, <2>1, <2>2, Zenon DEF Orderly
<1> QED
  BY <1>1, <1>2, <1>4

SecureInv == SessionInv /\ UsageInv /\ PayloadInv

(* Every step keeps all of it.                                             *)
LEMMA NextSecureInv == SecureInv /\ [Next]_vars => SecureInv'
<1> SUFFICES ASSUME SessionInv, UsageInv, PayloadInv, [Next]_vars PROVE PayloadInv'
  BY NextSessionInv, NextUsageInv DEF SecureInv
<1>1. CASE sealed' = sealed /\ opened' = opened
  <2>1. \A q \in Roles : OpenedLog(q)' = OpenedLog(q)
    BY <1>1 DEF OpenedLog, OpenedRecord
  <2> QED
    BY <1>1, <2>1, PayloadInvOf DEF PayloadInv
<1>2. CASE Next
  <2>1. PICK r \in Roles : \/ \E type, channel, n, t : Sealing(r, type, channel, n, t)
                           \/ \E i, t : Opening(r, i, t)
                           \/ Failing(r)
    BY <1>2, StepKinds DEF SessionInv
  <2>2. CASE Failing(r)
    BY <1>1, <2>2 DEF Failing
  <2> QED
    BY <2>1, <2>2, SealKeepsPayloads, OpenKeepsPayloads
<1> QED
  BY <1>1, <1>2 DEF vars

-----------------------------------------------------------------------------
(* The refinement: the variables of SecureChannels, as Promise maps them.  *)

Status(s) == CASE s.state = "Committing" -> "opening"
               [] s.state = "Active"     -> "open"
               [] s.state = "Draining"   -> "closing"
               [] s.state = "Closed"     -> "closed"
               [] s.state = "Failed"     -> "failed"

StatusOf == [r \in Roles |-> Status(session[r])]
JoinedOf == [r \in Roles |-> SealedType(r, "commit")]
EndedOf == [r \in Roles |-> SealedType(r, "close")]
SentOf == [r \in Roles |-> [c \in DataChannels |-> PayloadsOn(sealed[r], c)]]
ReceivedOf == [r \in Roles |-> [c \in DataChannels |-> PayloadsOn(OpenedLog(r), c)]]

(* Each state has a status of its own.                                     *)
LEMMA StatusFacts ==
  ASSUME NEW s \in Session
  PROVE  /\ Status(s) = "opening" <=> s.state = "Committing"
         /\ Status(s) = "open" <=> s.state = "Active"
         /\ Status(s) = "closing" <=> s.state = "Draining"
         /\ Status(s) = "closed" <=> s.state = "Closed"
         /\ Status(s) = "failed" <=> s.state = "Failed"
         /\ Status(s) \in {"opening", "open", "closing", "closed", "failed"}
<1>1. s.state \in States
  BY DEF Session
<1> QED
  BY <1>1 DEF Status, States

(* The endpoints of the promise are the roles.                             *)
LEMMA EndpointFacts ==
  /\ Promise!Endpoints = Roles
  /\ \A r : Promise!Other(r) = Peer(r)
  BY DEF Promise!Endpoints, Promise!Other, Roles, Peer

(* A log holds a record of a type, or it does not.                         *)
LEMMA TypesAreBoolean ==
  \A q, ty : SealedType(q, ty) \in BOOLEAN /\ SealedType(q, ty)' \in BOOLEAN
  BY DEF SealedType

(* What a seal does to the variables of the promise.                       *)
LEMMA SealMaps ==
  ASSUME SecureInv,
         NEW r \in Roles, NEW type, NEW channel, NEW n, NEW t, Sealing(r, type, channel, n, t)
  PROVE  /\ StatusOf' = [StatusOf EXCEPT ![r] = Status(t)]
         /\ JoinedOf' = IF type = "commit" THEN [JoinedOf EXCEPT ![r] = TRUE] ELSE JoinedOf
         /\ EndedOf' = IF type = "close" THEN [EndedOf EXCEPT ![r] = TRUE] ELSE EndedOf
         /\ SentOf' = IF type = "data" THEN [SentOf EXCEPT ![r][channel] = Append(@, n)]
                                       ELSE SentOf
         /\ ReceivedOf' = ReceivedOf
         /\ epoch' = epoch
<1>1. SealEffect(r, type, channel, n, t)
  BY SealFrame DEF SecureInv
<1>2. /\ session'[r] = t /\ \A q \in Roles : q # r => session'[q] = session[q]
      /\ epoch' = epoch
  BY <1>1 DEF SealEffect
<1>3. StatusOf' = [StatusOf EXCEPT ![r] = Status(t)]
  <2>1. StatusOf' = [q \in Roles |-> Status(session'[q])]
    BY Zenon DEF StatusOf, Status
  <2> QED
    BY <1>2, <2>1 DEF StatusOf
<1>4. /\ \A ty : SealedType(r, ty)' <=> SealedType(r, ty) \/ ty = type
      /\ \A q \in Roles : \A ty : q # r => (SealedType(q, ty)' <=> SealedType(q, ty))
  BY TypesAfterSeal DEF SecureInv
<1>5. JoinedOf' = IF type = "commit" THEN [JoinedOf EXCEPT ![r] = TRUE] ELSE JoinedOf
  <2>1. JoinedOf' = [q \in Roles |-> SealedType(q, "commit")']
    BY Zenon DEF JoinedOf
  <2>2. ASSUME NEW q \in Roles
        PROVE  SealedType(q, "commit")' = IF q = r /\ type = "commit" THEN TRUE
                                                                   ELSE SealedType(q, "commit")
    BY <1>4, TypesAreBoolean
  <2> QED
    BY <2>1, <2>2 DEF JoinedOf
<1>6. EndedOf' = IF type = "close" THEN [EndedOf EXCEPT ![r] = TRUE] ELSE EndedOf
  <2>1. EndedOf' = [q \in Roles |-> SealedType(q, "close")']
    BY Zenon DEF EndedOf
  <2>2. ASSUME NEW q \in Roles
        PROVE  SealedType(q, "close")' = IF q = r /\ type = "close" THEN TRUE
                                                                 ELSE SealedType(q, "close")
    BY <1>4, TypesAreBoolean
  <2> QED
    BY <2>1, <2>2 DEF EndedOf
<1>7. /\ Longer(sealed[r], sealed'[r]) /\ sealed'[r][Len(sealed'[r])] = NewRecord(r, type, channel, n)
      /\ \A q \in Roles : q # r => sealed'[q] = sealed[q]
      /\ \A q \in Roles : OpenedLog(q)' = OpenedLog(q)
  BY SealedLogGrows DEF SecureInv
<1>8. ReceivedOf' = ReceivedOf
  <2>1. ReceivedOf' = [q \in Roles |-> [c \in DataChannels |-> PayloadsOn(OpenedLog(q)', c)]]
    BY Zenon DEF ReceivedOf, PayloadsOn
  <2> QED
    BY <1>7, <2>1 DEF ReceivedOf
<1>9. SentOf' = [q \in Roles |-> [c \in DataChannels |-> PayloadsOn(sealed'[q], c)]]
  BY Zenon DEF SentOf, PayloadsOn
<1>10. \A c \in DataChannels :
         PayloadsOn(sealed'[r], c) = IF c = channel THEN Append(PayloadsOn(sealed[r], c), n)
                                                    ELSE PayloadsOn(sealed[r], c)
  <2> TAKE c \in DataChannels
  <2>1. Orderly(sealed[r], c)
    BY RoleFacts DEF SecureInv, PayloadInv
  <2>2. NewRecord(r, type, channel, n).channel = channel
        /\ NewRecord(r, type, channel, n).plaintext_len = n
    BY DEF NewRecord
  <2> DEFINE last == sealed'[r][Len(sealed'[r])]
  <2>3. last.channel = channel /\ last.plaintext_len = n
    BY <1>7, <2>2
  <2>4. Longer(sealed[r], sealed'[r]) /\ Listed(sealed[r], c)
    BY <1>7, <2>1 DEF Orderly
  <2>5. /\ last.channel = c => PayloadsOn(sealed'[r], c)
                                = Append(PayloadsOn(sealed[r], c), last.plaintext_len)
        /\ last.channel # c => PayloadsOn(sealed'[r], c) = PayloadsOn(sealed[r], c)
    BY <2>4, PayloadAdded
  <2> HIDE DEF last
  <2> QED
    BY <2>3, <2>5
<1>11. IF type = "data" THEN channel \in DataChannels ELSE channel \notin DataChannels
  BY ChannelAssumption DEF Sealing
<1>12. SentOf' = IF type = "data" THEN [SentOf EXCEPT ![r][channel] = Append(@, n)] ELSE SentOf
  <2>1. CASE type = "data"
    BY <1>7, <1>9, <1>10, <1>11, <2>1 DEF SentOf
  <2>2. CASE type # "data"
    <3>1. \A q \in Roles : \A c \in DataChannels :
            PayloadsOn(sealed'[q], c) = PayloadsOn(sealed[q], c)
      BY <1>7, <1>10, <1>11, <2>2
    <3> QED
      BY <1>9, <2>2, <3>1 DEF SentOf
  <2> QED
    BY <2>1, <2>2
<1> QED
  BY <1>2, <1>3, <1>5, <1>6, <1>8, <1>12

(* What an open does to them: the payload is the next the peer sent.       *)
LEMMA OpenMaps ==
  ASSUME SecureInv, NEW r \in Roles, NEW i, NEW t, Opening(r, i, t)
  PROVE  LET rec  == sealed[Peer(r)][i]
             next == Len(ReceivedOf[r][rec.channel]) + 1
         IN  /\ StatusOf' = [StatusOf EXCEPT ![r] = Status(t)]
             /\ UNCHANGED <<JoinedOf, EndedOf, SentOf, epoch>>
             /\ rec.type = "data" =>
                  /\ rec.channel \in DataChannels
                  /\ next <= Len(SentOf[Peer(r)][rec.channel])
                  /\ ReceivedOf' = [ReceivedOf EXCEPT ![r][rec.channel] =
                       Append(@, SentOf[Peer(r)][rec.channel][next])]
             /\ rec.type # "data" => ReceivedOf' = ReceivedOf
<1> DEFINE p == Peer(r)
           rec == sealed[p][i]
           ch == rec.channel
<1>1. OpenEffect(r, i, t)
  BY OpenFrame DEF SecureInv
<1>2. /\ session'[r] = t /\ \A q \in Roles : q # r => session'[q] = session[q]
      /\ epoch' = epoch /\ sealed' = sealed
      /\ rec \in Record /\ i \in DOMAIN sealed[p] /\ rec.sequence = NextIn(r, ch)
  BY <1>1 DEF OpenEffect
<1>3. StatusOf' = [StatusOf EXCEPT ![r] = Status(t)]
  <2>1. StatusOf' = [q \in Roles |-> Status(session'[q])]
    BY Zenon DEF StatusOf, Status
  <2> QED
    BY <1>2, <2>1 DEF StatusOf
<1>4. JoinedOf' = JoinedOf /\ EndedOf' = EndedOf
  BY <1>2 DEF JoinedOf, EndedOf, SealedType
<1>5. SentOf' = SentOf
  <2>1. SentOf' = [q \in Roles |-> [c \in DataChannels |-> PayloadsOn(sealed'[q], c)]]
    BY Zenon DEF SentOf, PayloadsOn
  <2> QED
    BY <1>2, <2>1 DEF SentOf
<1>6. /\ Longer(OpenedLog(r), OpenedLog(r)')
      /\ OpenedLog(r)'[Len(OpenedLog(r)')] = rec
      /\ \A q \in Roles : q # r => OpenedLog(q)' = OpenedLog(q)
  BY OpenedLogGrows DEF SecureInv, UsageInv
<1>7. p \in Roles /\ Placed(sealed[p], i) /\ ch \in Channels /\ session[r].state \notin Terminal
  BY <1>2, RoleFacts DEF SecureInv, PayloadInv, Record, Opening, Uses
<1>8. (rec.type = "data" <=> ch # Guard) /\ (ch # Guard <=> ch \in DataChannels)
  BY <1>7, ChannelAssumption DEF Placed, Channels
<1>9. /\ Orderly(OpenedLog(r), ch)
      /\ Matches(session[r].usage[<<ch, ReceiveDirection(r)>>], OpenedLog(r), ch)
  BY <1>7 DEF SecureInv, UsageInv, PayloadInv
<1>10. Len(PayloadsOn(OpenedLog(r), ch)) = rec.sequence
  BY <1>2, <1>9 DEF Matches, Orderly, NextIn
<1>11. ReceivedOf' = [q \in Roles |-> [c \in DataChannels |-> PayloadsOn(OpenedLog(q)', c)]]
  BY Zenon DEF ReceivedOf, PayloadsOn
<1> HIDE DEF rec
<1>12. \A c \in DataChannels :
         PayloadsOn(OpenedLog(r)', c)
           = IF c = ch THEN Append(PayloadsOn(OpenedLog(r), c), rec.plaintext_len)
                       ELSE PayloadsOn(OpenedLog(r), c)
  <2> TAKE c \in DataChannels
  <2>1. Orderly(OpenedLog(r), c)
    BY RoleFacts DEF SecureInv, PayloadInv
  <2> QED
    BY <1>6, <2>1, OrderlyGrows
<1>13. CASE rec.type = "data"
  <2>1. /\ ReceivedOf[r][ch] = PayloadsOn(OpenedLog(r), ch)
        /\ SentOf[p][ch] = PayloadsOn(sealed[p], ch)
    BY <1>7, <1>8, <1>13 DEF ReceivedOf, SentOf
  <2>2. /\ rec.sequence \in Nat /\ rec.sequence < Len(PayloadsOn(sealed[p], ch))
        /\ PayloadsOn(sealed[p], ch)[rec.sequence + 1] = rec.plaintext_len
    BY <1>2, <1>7, LimitFacts DEF Placed, Record, rec
  <2>3. Len(PayloadsOn(sealed[p], ch)) \in Nat
    BY <1>7 DEF SecureInv, PayloadInv, Orderly
  <2>4. ReceivedOf' = [ReceivedOf EXCEPT ![r][ch] = Append(@, rec.plaintext_len)]
    BY <1>6, <1>8, <1>11, <1>12, <1>13 DEF ReceivedOf
  <2>5. /\ Len(ReceivedOf[r][ch]) + 1 <= Len(SentOf[p][ch])
        /\ SentOf[p][ch][Len(ReceivedOf[r][ch]) + 1] = rec.plaintext_len
    BY <1>10, <2>1, <2>2, <2>3
  <2>6. ReceivedOf' = [ReceivedOf EXCEPT ![r][ch] =
                         Append(@, SentOf[p][ch][Len(ReceivedOf[r][ch]) + 1])]
    BY <2>4, <2>5
  <2>7. UNCHANGED <<JoinedOf, EndedOf, SentOf, epoch>>
    BY <1>2, <1>4, <1>5
  <2> QED
    BY <1>3, <1>8, <1>13, <2>5, <2>6, <2>7, Zenon DEF rec
<1>14. CASE rec.type # "data"
  <2>1. \A q \in Roles : \A c \in DataChannels :
          PayloadsOn(OpenedLog(q)', c) = PayloadsOn(OpenedLog(q), c)
    BY <1>6, <1>8, <1>12, <1>14
  <2>2. ReceivedOf' = ReceivedOf
    BY <1>11, <2>1 DEF ReceivedOf
  <2> QED
    BY <1>2, <1>3, <1>4, <1>5, <1>14, <2>2 DEF rec
<1> QED
  BY <1>13, <1>14

-----------------------------------------------------------------------------
(* The steps of the promise, in these terms.                               *)

Moves(r, s) == StatusOf' = [StatusOf EXCEPT ![r] = s]

(* Joining, ...                                                            *)
LEMMA PromiseJoins ==
  ASSUME NEW r \in Roles, StatusOf[r] = "opening", ~JoinedOf[r],
         JoinedOf' = [JoinedOf EXCEPT ![r] = TRUE],
         UNCHANGED <<StatusOf, epoch, EndedOf, SentOf, ReceivedOf>>
  PROVE  Promise!Join(r)
  BY Zenon DEF Promise!Join, StatusOf, Status, JoinedOf, EndedOf, SentOf, ReceivedOf

(* ... opening, ...                                                        *)
LEMMA PromiseOpens ==
  ASSUME NEW r \in Roles, StatusOf[r] = "opening", JoinedOf[Peer(r)],
         epoch[r] = epoch[Peer(r)],
         JoinedOf' = [JoinedOf EXCEPT ![r] = TRUE], Moves(r, "open"),
         UNCHANGED <<epoch, EndedOf, SentOf, ReceivedOf>>
  PROVE  Promise!Open(r)
<1>1. Promise!Other(r) = Peer(r)
  BY EndpointFacts
<1> QED
  BY <1>1, Zenon DEF Promise!Open, Promise!Goto, Moves,
     StatusOf, Status, JoinedOf, EndedOf, SentOf, ReceivedOf

(* ... sending, ...                                                        *)
LEMMA PromiseSends ==
  ASSUME NEW r \in Roles, NEW c, NEW n, StatusOf[r] = "open",
         SentOf' = [SentOf EXCEPT ![r][c] = Append(@, n)],
         NEW s \in {"open", "failed"}, Moves(r, s),
         UNCHANGED <<epoch, JoinedOf, EndedOf, ReceivedOf>>
  PROVE  Promise!Send(r, c, n)
  BY Zenon DEF Promise!Send, Promise!Goto, Moves,
     StatusOf, Status, JoinedOf, EndedOf, SentOf, ReceivedOf

(* ... receiving, ...                                                      *)
LEMMA PromiseReceives ==
  ASSUME NEW r \in Roles, NEW c, StatusOf[r] = "open",
         Len(ReceivedOf[r][c]) + 1 <= Len(SentOf[Peer(r)][c]),
         ReceivedOf' = [ReceivedOf EXCEPT ![r][c] =
                          Append(@, SentOf[Peer(r)][c][Len(ReceivedOf[r][c]) + 1])],
         NEW s \in {"open", "failed"}, Moves(r, s),
         UNCHANGED <<epoch, JoinedOf, EndedOf, SentOf>>
  PROVE  Promise!Receive(r, c)
<1>1. Promise!Other(r) = Peer(r)
  BY EndpointFacts
<1> QED
  BY <1>1, Zenon DEF Promise!Receive, Promise!Goto, Moves,
     StatusOf, Status, JoinedOf, EndedOf, SentOf, ReceivedOf

(* ... announcing the end, ...                                             *)
LEMMA PromiseEnds ==
  ASSUME NEW r \in Roles, StatusOf[r] \in {"open", "closing"}, ~EndedOf[r],
         EndedOf' = [EndedOf EXCEPT ![r] = TRUE],
         \/ StatusOf[r] = "open" /\ Moves(r, "closing")
         \/ StatusOf[r] = "closing" /\ Moves(r, "closed")
         \/ Moves(r, "failed"),
         UNCHANGED <<epoch, JoinedOf, SentOf, ReceivedOf>>
  PROVE  Promise!End(r)
  BY Zenon DEF Promise!End, Promise!Goto, Moves,
     StatusOf, Status, JoinedOf, EndedOf, SentOf, ReceivedOf

(* ... learning of it, ...                                                 *)
LEMMA PromiseLearns ==
  ASSUME NEW r \in Roles, StatusOf[r] \in {"open", "closing"}, EndedOf[Peer(r)],
         \/ StatusOf[r] = "open" /\ Moves(r, "closing")
         \/ StatusOf[r] = "closing" /\ EndedOf[r] /\ Moves(r, "closed")
         \/ Moves(r, "failed"),
         UNCHANGED <<epoch, JoinedOf, EndedOf, SentOf, ReceivedOf>>
  PROVE  Promise!LearnEnd(r)
<1>1. Promise!Other(r) = Peer(r)
  BY EndpointFacts
<1> QED
  BY <1>1, Zenon DEF Promise!LearnEnd, Promise!Goto, Moves,
     StatusOf, Status, JoinedOf, EndedOf, SentOf, ReceivedOf

(* ... failing, ...                                                        *)
LEMMA PromiseFails ==
  ASSUME NEW r \in Roles, StatusOf[r] \notin {"closed", "failed"}, Moves(r, "failed"),
         UNCHANGED <<epoch, JoinedOf, EndedOf, SentOf, ReceivedOf>>
  PROVE  Promise!Fail(r)
  BY Zenon DEF Promise!Fail, Promise!Goto, Moves,
     StatusOf, Status, JoinedOf, EndedOf, SentOf, ReceivedOf

(* ... and nothing the promise speaks of.                                  *)
LEMMA PromiseStutters ==
  ASSUME UNCHANGED <<StatusOf, epoch, JoinedOf, EndedOf, SentOf, ReceivedOf>>
  PROVE  UNCHANGED Promise!vars
  BY Zenon DEF Promise!vars, StatusOf, Status, JoinedOf, EndedOf, SentOf, ReceivedOf

(* A step of one endpoint is a step of the promise.                        *)
LEMMA PromiseSteps ==
  ASSUME NEW r \in Roles,
         \/ Promise!Join(r) \/ Promise!Open(r) \/ Promise!End(r) \/ Promise!LearnEnd(r)
         \/ Promise!Fail(r)
         \/ \E c \in DataChannels : \/ Promise!Receive(r, c)
                                    \/ \E n \in 0..MaxPlaintext : Promise!Send(r, c, n)
  PROVE  Promise!Next
  BY EndpointFacts, Zenon DEF Promise!Next

-----------------------------------------------------------------------------
(* Every step is a step of the promise.                                    *)

(* The variables of the promise, by role.                                  *)
LEMMA RoleMaps ==
  ASSUME NEW r \in Roles
  PROVE  /\ StatusOf[r] = Status(session[r])
         /\ JoinedOf[r] = SealedType(r, "commit") /\ EndedOf[r] = SealedType(r, "close")
         /\ JoinedOf[r] => JoinedOf = [JoinedOf EXCEPT ![r] = TRUE]
         /\ Moves(r, StatusOf[r]) => StatusOf' = StatusOf
<1>1. /\ StatusOf[r] = Status(session[r])
      /\ JoinedOf[r] = SealedType(r, "commit") /\ EndedOf[r] = SealedType(r, "close")
  BY DEF StatusOf, JoinedOf, EndedOf
<1>2. Moves(r, StatusOf[r]) => StatusOf' = StatusOf
  BY DEF Moves, StatusOf
<1>3. ASSUME JoinedOf[r] PROVE JoinedOf = [JoinedOf EXCEPT ![r] = TRUE]
  <2>1. JoinedOf[r] = TRUE
    BY <1>1, <1>3, TypesAreBoolean
  <2> QED
    BY <2>1 DEF JoinedOf
<1> QED
  BY <1>1, <1>2, <1>3

(* What a session opened its peer sealed, under one epoch.                 *)
LEMMA OpenedWasSealed ==
  ASSUME SessionInv, NEW r \in Roles, NEW type, OpenedType(r, type)
  PROVE  SealedType(Peer(r), type) /\ epoch[r] = epoch[Peer(r)]
<1>1. PICK k \in DOMAIN opened[r] : OpenedRecord(r, k).type = type
  BY DEF OpenedType
<1>2. /\ opened[r][k][2] \in DOMAIN sealed[Peer(r)]
      /\ sealed[Peer(r)][opened[r][k][2]].type = type
  BY <1>1, OpenedIsRecord
<1>3. opened[r] # <<>>
  BY <1>1
<1> QED
  BY <1>2, <1>3 DEF SealedType, SessionInv, Bound

(* A first record reaches no hard limit: a commit never fails a session.   *)
LEMMA CommitNeverFails ==
  ASSUME SecureInv, NEW r \in Roles, NEW n, NEW channel, NEW t,
         Sealing(r, "commit", channel, n, t)
  PROVE  t.state # "Failed" /\ sealed[r] = <<>>
<1>1. /\ session[r].state = "Committing" /\ ~session[r].local_commit_sent
      /\ channel = Guard /\ n = 0
  BY DEF Sealing, SealMoves, MaySeal, CanCommit
<1>2. sealed[r] = <<>>
  BY <1>1 DEF SecureInv, SessionInv, StateMeansFlags
<1> DEFINE u == session[r].usage[<<Guard, SendDirection(r)>>]
<1>3. Matches(u, <<>>, Guard)
  BY <1>1, <1>2, RoleFacts DEF SecureInv, UsageInv, Terminal
<1>4. RecordsOn(<<>>, Guard) = 0 /\ BytesOn(<<>>, Guard) = 0
  <2>1. {i \in DOMAIN <<>> : <<>>[i].channel = Guard} = {}
    OBVIOUS
  <2> QED
    BY <2>1, EmptyBytes, FS_EmptySet DEF RecordsOn
<1>5. t.state = "Failed" => HardLimitReached(Consume(u, 0))
  BY <1>1 DEF Sealing, Uses, SendContext
<1> HIDE DEF u
<1>6. u.next_sequence = 0 /\ u.records = 0 /\ u.plaintext_bytes = 0
  BY <1>3, <1>4 DEF Matches
<1>7. ~HardLimitReached(Consume(u, 0))
  BY <1>6, LimitFacts DEF HardLimitReached, Consume
<1> QED
  BY <1>2, <1>5, <1>7

(* A seal joins, opens, sends, ends, fails, or shows nothing.              *)
LEMMA SealIsPromised ==
  ASSUME SecureInv,
         NEW r \in Roles, NEW type, NEW channel, NEW n, NEW t, Sealing(r, type, channel, n, t)
  PROVE  Promise!Next \/ UNCHANGED Promise!vars
<1> DEFINE s == session[r]
<1>1. /\ s \in Session /\ t \in Session /\ type \in RecordTypes
      /\ n \in 0..MaxPlaintext /\ (type = "data" => channel \in DataChannels)
      /\ SealMoves(s, type, t)
  BY DEF SecureInv, SessionInv, TypeOK, Sealing, Uses
<1>2. FlagsMeanRecords(r) /\ StateMeansFlags(r)
  BY DEF SecureInv, SessionInv
<1>3. /\ Moves(r, Status(t)) /\ ReceivedOf' = ReceivedOf /\ epoch' = epoch
      /\ JoinedOf' = IF type = "commit" THEN [JoinedOf EXCEPT ![r] = TRUE] ELSE JoinedOf
      /\ EndedOf' = IF type = "close" THEN [EndedOf EXCEPT ![r] = TRUE] ELSE EndedOf
      /\ SentOf' = IF type = "data" THEN [SentOf EXCEPT ![r][channel] = Append(@, n)]
                                    ELSE SentOf
  BY SealMaps DEF Moves
<1>4. StatusOf[r] = Status(s)
  BY RoleMaps
<1> HIDE DEF s
<1>5. CASE type = "data"
  <2>1. s.state = "Active" /\ t.state \in {"Active", "Failed"}
    BY <1>1, <1>5 DEF SealMoves, MaySeal, CanSeal
  <2>2. StatusOf[r] = "open" /\ Status(t) \in {"open", "failed"}
    BY <1>1, <1>4, <2>1, StatusFacts
  <2>3. Promise!Send(r, channel, n)
    BY <1>3, <1>5, <2>2, PromiseSends
  <2> QED
    BY <1>1, <1>5, <2>3, PromiseSteps
<1>6. CASE type = "refresh"
  <2>1. s.state = "Active" /\ t.state \in {"Active", "Failed"}
    BY <1>1, <1>6 DEF SealMoves, MaySeal, CanSeal
  <2>2. StatusOf[r] = "open" /\ Status(t) \in {"open", "failed"}
    BY <1>1, <1>4, <2>1, StatusFacts
  <2>3. UNCHANGED <<epoch, JoinedOf, EndedOf, SentOf, ReceivedOf>>
    BY <1>3, <1>6
  <2>4. CASE Status(t) = "open"
    BY <1>3, <2>2, <2>3, <2>4, RoleMaps, PromiseStutters
  <2>5. CASE Status(t) = "failed"
    BY <1>3, <2>2, <2>3, <2>5, PromiseFails, PromiseSteps
  <2> QED
    BY <2>2, <2>4, <2>5
<1>7. CASE type = "commit"
  <2>1. /\ s.state = "Committing" /\ ~s.local_commit_sent
        /\ t.state = IF s.peer_commit_received THEN "Active" ELSE "Committing"
    BY <1>1, <1>7, CommitNeverFails DEF SealMoves, MaySeal, CanCommit
  <2>2. StatusOf[r] = "opening"
    BY <1>1, <1>4, <2>1, StatusFacts
  <2>3. /\ UNCHANGED <<epoch, EndedOf, SentOf, ReceivedOf>>
        /\ JoinedOf' = [JoinedOf EXCEPT ![r] = TRUE]
    BY <1>3, <1>7
  <2>4. CASE s.peer_commit_received
    <3>1. JoinedOf[Peer(r)] /\ epoch[r] = epoch[Peer(r)]
      <4>1. SealedType(Peer(r), "commit") /\ epoch[r] = epoch[Peer(r)]
        BY <1>2, <2>4, OpenedWasSealed DEF FlagsMeanRecords, SecureInv, s
      <4> QED
        BY <4>1, RoleFacts DEF JoinedOf
    <3>2. Status(t) = "open"
      BY <1>1, <2>1, <2>4, StatusFacts
    <3> QED
      BY <1>3, <2>2, <2>3, <3>1, <3>2, PromiseOpens, PromiseSteps
  <2>5. CASE ~s.peer_commit_received
    <3>1. Status(t) = "opening"
      BY <1>1, <2>1, <2>5, StatusFacts
    <3>2. StatusOf' = StatusOf
      BY <1>3, <2>2, <3>1, RoleMaps
    <3>3. ~JoinedOf[r]
      <4>1. sealed[r] = <<>>
        BY <1>7, CommitNeverFails
      <4>2. ~SealedType(r, "commit")
        BY <4>1 DEF SealedType
      <4> QED
        BY <4>2, RoleMaps
    <3> QED
      BY <2>2, <2>3, <3>2, <3>3, PromiseJoins, PromiseSteps
  <2> QED
    BY <2>4, <2>5
<1>8. CASE type = "close"
  <2>1. /\ ~s.local_close_sent
        /\ s.state = "Active" \/ (s.state = "Draining" /\ s.peer_close_received)
        /\ \/ t.state = "Failed"
           \/ t.state = IF s.peer_close_received THEN "Closed" ELSE "Draining"
    BY <1>1, <1>8 DEF SealMoves, MaySeal, CanClose
  <2>2. ~EndedOf[r]
    <3>1. s.state \notin Terminal
      BY <2>1 DEF Terminal
    <3>2. ~SealedType(r, "close")
      BY <1>2, <2>1, <3>1 DEF FlagsMeanRecords, s
    <3> QED
      BY <3>2, RoleMaps
  <2>3. s.state = "Active" => ~s.peer_close_received
    BY <1>2 DEF StateMeansFlags, s
  <2>4. /\ StatusOf[r] \in {"open", "closing"}
        /\ \/ StatusOf[r] = "open" /\ Status(t) = "closing"
           \/ StatusOf[r] = "closing" /\ Status(t) = "closed"
           \/ Status(t) = "failed"
    BY <1>1, <1>4, <2>1, <2>3, StatusFacts
  <2>5. /\ UNCHANGED <<epoch, JoinedOf, SentOf, ReceivedOf>>
        /\ EndedOf' = [EndedOf EXCEPT ![r] = TRUE]
    BY <1>3, <1>8
  <2> QED
    BY <1>3, <2>2, <2>4, <2>5, PromiseEnds, PromiseSteps
<1> QED
  BY <1>1, <1>5, <1>6, <1>7, <1>8 DEF RecordTypes

(* An open receives, opens, learns of the end, fails, or shows nothing.    *)
LEMMA OpenIsPromised ==
  ASSUME SecureInv, NEW r \in Roles, NEW i, NEW t, Opening(r, i, t)
  PROVE  Promise!Next \/ UNCHANGED Promise!vars
<1> DEFINE s == session[r]
           p == Peer(r)
           rec == sealed[p][i]
           ch == rec.channel
<1>1. /\ s \in Session /\ t \in Session /\ i \in DOMAIN sealed[p]
      /\ OpenMoves(s, rec.type, t)
  BY DEF SecureInv, SessionInv, TypeOK, Opening, Uses
<1>2. FlagsMeanRecords(r) /\ StateMeansFlags(r) /\ p \in Roles
  BY RoleFacts DEF SecureInv, SessionInv
<1>3. /\ Moves(r, Status(t)) /\ UNCHANGED <<JoinedOf, EndedOf, SentOf, epoch>>
      /\ rec.type = "data" =>
           /\ ch \in DataChannels
           /\ Len(ReceivedOf[r][ch]) + 1 <= Len(SentOf[p][ch])
           /\ ReceivedOf' = [ReceivedOf EXCEPT ![r][ch] =
                               Append(@, SentOf[p][ch][Len(ReceivedOf[r][ch]) + 1])]
      /\ rec.type # "data" => ReceivedOf' = ReceivedOf
  BY OpenMaps, Zenon DEF Moves
<1>4. StatusOf[r] = Status(s)
  BY RoleMaps
<1>5. SealedType(p, rec.type) /\ epoch[r] = epoch[p]
  <2>1. OpenEffect(r, i, t)
    BY OpenFrame DEF SecureInv
  <2> QED
    BY <1>1, <2>1 DEF OpenEffect, SealedType
<1> HIDE DEF s, p, rec, ch
<1>6. CASE rec.type = "data"
  <2>1. s.state = "Active" /\ t.state \in {"Active", "Failed"}
    BY <1>1, <1>6 DEF OpenMoves
  <2>2. StatusOf[r] = "open" /\ Status(t) \in {"open", "failed"}
    BY <1>1, <1>4, <2>1, StatusFacts
  <2>3. Promise!Receive(r, ch)
    BY <1>3, <1>6, <2>2, PromiseReceives DEF p
  <2> QED
    BY <1>3, <1>6, <2>3, PromiseSteps
<1>7. CASE rec.type # "data"
  <2>1. UNCHANGED <<epoch, JoinedOf, EndedOf, SentOf, ReceivedOf>>
    BY <1>3, <1>7
  <2>2. CASE t.state = s.state
    <3>1. Status(t) = StatusOf[r]
      BY <1>4, <2>2 DEF Status
    <3> QED
      BY <1>3, <2>1, <3>1, RoleMaps, PromiseStutters
  <2>3. CASE t.state = "Failed"
    <3>1. Status(t) = "failed" /\ StatusOf[r] \notin {"closed", "failed"}
      BY <1>1, <1>4, <2>3, StatusFacts DEF OpenMoves
    <3> QED
      BY <1>3, <2>1, <3>1, PromiseFails, PromiseSteps
  <2>4. CASE rec.type = "commit" /\ t.state \notin {s.state, "Failed"}
    <3>1. s.state = "Committing" /\ s.local_commit_sent /\ t.state = "Active"
      BY <1>1, <2>4 DEF OpenMoves
    <3>2. StatusOf[r] = "opening" /\ Status(t) = "open"
      BY <1>1, <1>4, <3>1, StatusFacts
    <3>3. JoinedOf[r] /\ JoinedOf[p]
      <4>1. SealedType(r, "commit") /\ SealedType(p, "commit")
        BY <1>2, <1>5, <2>4, <3>1 DEF FlagsMeanRecords, s
      <4> QED
        BY <1>2, <4>1 DEF JoinedOf
    <3>4. JoinedOf' = [JoinedOf EXCEPT ![r] = TRUE]
      BY <2>1, <3>3, RoleMaps
    <3> QED
      BY <1>3, <1>5, <2>1, <3>2, <3>3, <3>4, PromiseOpens, PromiseSteps DEF p
  <2>5. CASE rec.type = "close" /\ t.state \notin {s.state, "Failed"}
    <3>1. /\ s.state \in {"Active", "Draining"}
          /\ IF s.local_close_sent THEN t.state = "Closed" ELSE t.state = "Draining"
      BY <1>1, <2>5 DEF OpenMoves
    <3>2. s.state = "Active" => ~s.local_close_sent
      BY <1>2 DEF StateMeansFlags, s
    <3>3. EndedOf[p] /\ (s.local_close_sent => EndedOf[r])
      <4>1. SealedType(p, "close") /\ (s.local_close_sent => SealedType(r, "close"))
        BY <1>2, <1>5, <2>5 DEF FlagsMeanRecords, s
      <4> QED
        BY <1>2, <4>1 DEF EndedOf
    <3>4. /\ StatusOf[r] \in {"open", "closing"}
          /\ \/ StatusOf[r] = "open" /\ Status(t) = "closing"
             \/ StatusOf[r] = "closing" /\ EndedOf[r] /\ Status(t) = "closed"
      BY <1>1, <1>4, <2>5, <3>1, <3>2, <3>3, StatusFacts
    <3> QED
      BY <1>3, <2>1, <3>3, <3>4, PromiseLearns, PromiseSteps DEF p
  <2> QED
    BY <1>1, <1>7, <2>2, <2>3, <2>4, <2>5 DEF OpenMoves
<1> QED
  BY <1>6, <1>7

(* A failure fails, or shows nothing.                                      *)
LEMMA FailIsPromised ==
  ASSUME SecureInv, NEW r \in Roles, Failing(r)
  PROVE  Promise!Next \/ UNCHANGED Promise!vars
<1> DEFINE t == Fail(session[r])
<1>1. /\ session \in [Roles -> Session] /\ session[r] \in Session
      /\ session' = [session EXCEPT ![r] = t]
      /\ sealed' = sealed /\ opened' = opened /\ epoch' = epoch
  BY DEF SecureInv, SessionInv, TypeOK, Failing
<1>2. UNCHANGED <<epoch, JoinedOf, EndedOf, SentOf, ReceivedOf>>
  <2>1. JoinedOf' = JoinedOf /\ EndedOf' = EndedOf
    BY <1>1 DEF JoinedOf, EndedOf, SealedType
  <2>2. SentOf' = SentOf
    <3>1. SentOf' = [q \in Roles |-> [c \in DataChannels |-> PayloadsOn(sealed'[q], c)]]
      BY Zenon DEF SentOf, PayloadsOn
    <3> QED
      BY <1>1, <3>1 DEF SentOf
  <2>3. ReceivedOf' = ReceivedOf
    <3>1. ReceivedOf' = [q \in Roles |-> [c \in DataChannels |-> PayloadsOn(OpenedLog(q)', c)]]
      BY Zenon DEF ReceivedOf, PayloadsOn
    <3>2. \A q \in Roles : OpenedLog(q)' = OpenedLog(q)
      BY <1>1 DEF OpenedLog, OpenedRecord
    <3> QED
      BY <3>1, <3>2 DEF ReceivedOf
  <2> QED
    BY <1>1, <2>1, <2>2, <2>3
<1>3. StatusOf' = [q \in Roles |-> Status(session'[q])]
  BY Zenon DEF StatusOf, Status
<1>4. CASE session[r].state \in Terminal
  <2>1. t = session[r]
    BY <1>4 DEF Fail
  <2>2. session' = session
    BY <1>1, <2>1
  <2> QED
    BY <1>2, <1>3, <2>2, PromiseStutters DEF StatusOf
<1>5. CASE session[r].state \notin Terminal
  <2>1. t.state = "Failed" /\ t \in Session
    BY <1>1, <1>5, FailFacts, SessionIsLoose
  <2> HIDE DEF t
  <2>2. Moves(r, Status(t))
    BY <1>1, <1>3 DEF Moves, StatusOf
  <2>3. Status(t) = "failed" /\ StatusOf[r] \notin {"closed", "failed"}
    BY <1>1, <1>5, <2>1, StatusFacts, RoleMaps DEF Terminal
  <2> QED
    BY <1>2, <2>2, <2>3, PromiseFails, PromiseSteps
<1> QED
  BY <1>4, <1>5

(* Two fresh sessions are two endpoints that have not joined.              *)
LEMMA InitIsPromised == Init => Promise!Init
<1> SUFFICES ASSUME Init PROVE Promise!Init
  OBVIOUS
<1>1. /\ session = [r \in Roles |-> Fresh] /\ epoch \in [Roles -> Epochs]
      /\ \A r \in Roles : session[r] = Fresh /\ sealed[r] = <<>> /\ opened[r] = <<>>
  BY DEF Init
<1>2. StatusOf = [r \in Roles |-> "opening"]
  <2>1. Status(Fresh) = "opening"
    BY DEF Status, Fresh
  <2> QED
    BY <1>1, <2>1 DEF StatusOf
<1>3. JoinedOf = [r \in Roles |-> FALSE] /\ EndedOf = [r \in Roles |-> FALSE]
  <2>1. \A r \in Roles : \A ty : ~SealedType(r, ty)
    BY <1>1 DEF SealedType
  <2>2. \A r \in Roles : SealedType(r, "commit") = FALSE /\ SealedType(r, "close") = FALSE
    BY <2>1, TypesAreBoolean
  <2> QED
    BY <2>2 DEF JoinedOf, EndedOf
<1>4. SentOf = [r \in Roles |-> [c \in DataChannels |-> <<>>]]
  BY <1>1, EmptyPayloads DEF SentOf
<1>5. ReceivedOf = [r \in Roles |-> [c \in DataChannels |-> <<>>]]
  <2>1. \A r \in Roles : OpenedLog(r) = <<>>
    BY <1>1 DEF OpenedLog
  <2> QED
    BY <2>1, EmptyPayloads DEF ReceivedOf
<1> QED
  BY <1>1, <1>2, <1>3, <1>4, <1>5, EndpointFacts, Zenon
  DEF Promise!Init, StatusOf, Status, JoinedOf, EndedOf, SentOf, ReceivedOf

(* The payloads are listed in order whatever the network delivers.         *)
THEOREM SecureInvariant == Spec => []SecureInv
<1>1. Init => SecureInv
  BY InitSessionInv, InitUsageInv, InitPayloadInv DEF SecureInv
<1> QED
  BY <1>1, NextSecureInv, PTL DEF Spec

(* ImplementsChannels: whatever the network does and wherever a session    *)
(* breaks, two sessions are a pair of secure channels.                     *)
THEOREM ChannelsImplemented == Spec => ImplementsChannels
<1>1. SecureInv /\ [Next]_vars => [Promise!Next]_(Promise!vars)
  <2> SUFFICES ASSUME SecureInv, [Next]_vars PROVE Promise!Next \/ UNCHANGED Promise!vars
    OBVIOUS
  <2>1. CASE Next
    <3>1. PICK r \in Roles : \/ \E type, channel, n, t : Sealing(r, type, channel, n, t)
                             \/ \E i, t : Opening(r, i, t)
                             \/ Failing(r)
      BY <2>1, StepKinds DEF SecureInv, SessionInv
    <3> QED
      BY <3>1, SealIsPromised, OpenIsPromised, FailIsPromised
  <2>2. CASE UNCHANGED vars
    <3>1. session' = session /\ epoch' = epoch /\ sealed' = sealed /\ opened' = opened
      BY <2>2 DEF vars
    <3>2. StatusOf' = StatusOf /\ JoinedOf' = JoinedOf /\ EndedOf' = EndedOf
      <4>1. StatusOf' = [q \in Roles |-> Status(session'[q])]
        BY Zenon DEF StatusOf, Status
      <4>2. JoinedOf' = JoinedOf /\ EndedOf' = EndedOf
        BY <3>1 DEF JoinedOf, EndedOf, SealedType
      <4> QED
        BY <3>1, <4>1, <4>2 DEF StatusOf
    <3>3. \A q : OpenedLog(q)' = OpenedLog(q)
      BY <3>1, Zenon DEF OpenedLog, OpenedRecord
    <3>4. SentOf' = SentOf /\ ReceivedOf' = ReceivedOf
      <4>1. /\ SentOf' = [q \in Roles |-> [c \in DataChannels |-> PayloadsOn(sealed'[q], c)]]
            /\ ReceivedOf' = [q \in Roles |-> [c \in DataChannels |-> PayloadsOn(OpenedLog(q)', c)]]
        BY Zenon DEF SentOf, ReceivedOf, PayloadsOn
      <4> QED
        BY <3>1, <3>3, <4>1, Zenon DEF SentOf, ReceivedOf
    <3> QED
      BY <3>1, <3>2, <3>4, PromiseStutters
  <2> QED
    BY <2>1, <2>2
<1> QED
  BY <1>1, InitIsPromised, SecureInvariant, PTL
  DEF Spec, ImplementsChannels, Promise!Spec

=============================================================================
