-------------------------- MODULE KeyScheduleProofs --------------------------
(***************************************************************************)
(* Keys of KeySchedule, for every set of threads, connections and          *)
(* application contexts: each is derived for one purpose, and has one      *)
(* sealer.                                                                 *)
(***************************************************************************)
EXTENDS KeySchedule, TLAPS

-----------------------------------------------------------------------------
(* The slots.                                                              *)

(* Five channels, with numbers of their own, ...                           *)
LEMMA ChannelFacts ==
  /\ DOMAIN Channels = 1..5
  /\ \A c, d \in DOMAIN Channels :
       c # d => Channels[c] # Channels[d] /\ Id(Channels[c]) # Id(Channels[d])
<1>1. /\ DOMAIN Channels = 1..5
      /\ Channels[1] = "menora" /\ Channels[2] = "chanukkia" /\ Channels[3] = "jom_kippur"
      /\ Channels[4] = "tzafah" /\ Channels[5] = "guard"
  BY DEF Channels
<1>2. /\ Id(Channels[1]) = 301 /\ Id(Channels[2]) = 99 /\ Id(Channels[3]) = 372
      /\ Id(Channels[4]) = 175 /\ Id(Channels[5]) = 947
  BY <1>1 DEF Id
<1> QED
  BY <1>1, <1>2

(* ... and two directions.                                                 *)
LEMMA DirectionFacts ==
  /\ DOMAIN Directions = 1..2
  /\ \A e, f \in DOMAIN Directions : e # f => Directions[e] # Directions[f]
  /\ \A r \in Roles : \E e \in DOMAIN Directions : SendDirection(r) = Directions[e]
  /\ \A r, s \in Roles : r # s => SendDirection(r) # SendDirection(s)
<1>1. /\ DOMAIN Directions = 1..2
      /\ Directions[1] = "client_to_server" /\ Directions[2] = "server_to_client"
  BY DEF Directions
<1> QED
  BY <1>1 DEF Roles, SendDirection

(* Each pair of them has a slot of its own.                                *)
LEMMA IndexFacts ==
  ASSUME NEW c \in DOMAIN Channels, NEW e \in DOMAIN Directions
  PROVE  /\ MaterialIndex(Channels[c], Directions[e]) = 2 * (c - 1) + (e - 1)
         /\ MaterialIndex(Channels[c], Directions[e]) \in Slots
<1>1. Place(Channels, Channels[c]) = c
  BY ChannelFacts DEF Place
<1>2. Place(Directions, Directions[e]) = e
  BY DirectionFacts DEF Place
<1>3. c \in 1..5 /\ e \in 1..2
  BY ChannelFacts, DirectionFacts
<1> QED
  BY <1>1, <1>2, <1>3 DEF MaterialIndex, Slots

(* So no derivation overwrites another: a slot keeps the key of its pair.  *)
LEMMA SlotHoldsItsKey ==
  ASSUME NEW exporter, NEW app, NEW c \in DOMAIN Channels, NEW e \in DOMAIN Directions
  PROVE  DerivedSecrets(exporter, app)[MaterialIndex(Channels[c], Directions[e])]
           = TrafficKey(exporter, app, Channels[c], Directions[e])
<1> DEFINE slot == MaterialIndex(Channels[c], Directions[e])
           pairs == (DOMAIN Channels) \X (DOMAIN Directions)
           writers == {w \in pairs : MaterialIndex(Channels[w[1]], Directions[w[2]]) = slot}
           last == CHOOSE w \in writers : \A v \in writers :
                     v[1] < w[1] \/ (v[1] = w[1] /\ v[2] <= w[2])
<1>1. slot \in Slots
  BY IndexFacts
<1>2. writers = {<<c, e>>}
  <2>1. <<c, e>> \in writers
    OBVIOUS
  <2>2. ASSUME NEW w \in writers PROVE w = <<c, e>>
    <3>1. /\ w \in pairs /\ w = <<w[1], w[2]>> /\ w[1] \in 1..5 /\ w[2] \in 1..2
          /\ c \in 1..5 /\ e \in 1..2
      BY ChannelFacts, DirectionFacts
    <3>2. 2 * (w[1] - 1) + (w[2] - 1) = 2 * (c - 1) + (e - 1)
      BY <3>1, IndexFacts
    <3>3. w[1] = c /\ w[2] = e
      BY <3>1, <3>2
    <3> QED
      BY <3>1, <3>3
  <2> HIDE DEF writers
  <2> QED
    BY <2>1, <2>2
<1> HIDE DEF writers, slot
<1>3. last = <<c, e>>
  BY <1>2, ChannelFacts, DirectionFacts
<1>4. DerivedSecrets(exporter, app)[slot]
        = IF writers = {} THEN Zeroed
          ELSE TrafficKey(exporter, app, Channels[last[1]], Directions[last[2]])
  BY <1>1 DEF DerivedSecrets, writers
<1> HIDE DEF last
<1>5. writers # {} /\ last[1] = c /\ last[2] = e
  BY <1>2, <1>3
<1> QED
  BY <1>4, <1>5 DEF slot

-----------------------------------------------------------------------------
(* The terms: an output names its inputs.                                  *)

(* An expansion names its secret and its info.                             *)
LEMMA HkdfInjective ==
  \A s, t, i, j : Hkdf(s, i) = Hkdf(t, j) => s = t /\ i = j
<1> SUFFICES ASSUME NEW s, NEW t, NEW i, NEW j, Hkdf(s, i) = Hkdf(t, j)
             PROVE  s = t /\ i = j
  OBVIOUS
<1>1. Hkdf(s, i).secret = Hkdf(t, j).secret /\ Hkdf(s, i).info = Hkdf(t, j).info
  OBVIOUS
<1> QED
  BY <1>1 DEF Hkdf

(* The info of an expansion names purpose, context, channel and direction. *)
LEMMA InfoInjective ==
  ASSUME NEW purpose, NEW other, NEW app, NEW app2, NEW c \in DOMAIN Channels,
         NEW d \in DOMAIN Channels, NEW e \in DOMAIN Directions, NEW f \in DOMAIN Directions,
         BuildInfo(purpose, app, Channels[c], Directions[e])
           = BuildInfo(other, app2, Channels[d], Directions[f])
  PROVE  purpose = other /\ app = app2 /\ c = d /\ e = f
<1>1. /\ purpose = other /\ ContextHash(app) = ContextHash(app2)
      /\ Id(Channels[c]) = Id(Channels[d]) /\ Directions[e] = Directions[f]
  BY DEF BuildInfo
<1>2. app = app2
  <2>1. ContextHash(app).sha384 = ContextHash(app2).sha384
    BY <1>1
  <2>2. <<Sha384(Manifest), app>> = <<Sha384(Manifest), app2>>
    BY <2>1 DEF ContextHash, Sha384
  <2> QED
    BY <2>2
<1> QED
  BY <1>1, <1>2, ChannelFacts, DirectionFacts

(* So a traffic key belongs to one exporter, context, channel, direction.  *)
LEMMA TrafficKeyInjective ==
  ASSUME NEW x, NEW y, NEW app, NEW app2, NEW c \in DOMAIN Channels,
         NEW d \in DOMAIN Channels, NEW e \in DOMAIN Directions, NEW f \in DOMAIN Directions,
         TrafficKey(x, app, Channels[c], Directions[e]).key
           = TrafficKey(y, app2, Channels[d], Directions[f]).key
  PROVE  x = y /\ app = app2 /\ c = d /\ e = f
<1> DEFINE Traffic(z, a, ch, di) == Hkdf(Prk(z, a), BuildInfo("traffic", a, ch, di))
<1>1. \A z, a, ch, di :
        TrafficKey(z, a, ch, di).key = Hkdf(Traffic(z, a, ch, di), BuildInfo("key", a, ch, di))
  BY DEF TrafficKey
<1>2. /\ Traffic(x, app, Channels[c], Directions[e]) = Traffic(y, app2, Channels[d], Directions[f])
      /\ BuildInfo("key", app, Channels[c], Directions[e])
           = BuildInfo("key", app2, Channels[d], Directions[f])
  <2> HIDE DEF Traffic
  <2> QED
    BY <1>1, HkdfInjective
<1>3. app = app2 /\ c = d /\ e = f
  BY <1>2, InfoInjective
<1>4. Prk(x, app) = Prk(y, app2)
  BY <1>2, HkdfInjective
<1>5. x = y
  BY <1>4, HkdfInjective DEF Prk
<1> QED
  BY <1>3, <1>5

(* The key and the IV of a channel are not the same, so no key is zero.    *)
LEMMA TrafficKeyDerived ==
  ASSUME NEW x, NEW app, NEW c \in DOMAIN Channels, NEW e \in DOMAIN Directions
  PROVE  LET k == TrafficKey(x, app, Channels[c], Directions[e])
         IN  k # Zeroed /\ k.key # k.iv
<1> DEFINE k == TrafficKey(x, app, Channels[c], Directions[e])
           secret == Hkdf(Prk(x, app), BuildInfo("traffic", app, Channels[c], Directions[e]))
<1>1. /\ k.key = Hkdf(secret, BuildInfo("key", app, Channels[c], Directions[e]))
      /\ k.iv = Hkdf(secret, BuildInfo("iv", app, Channels[c], Directions[e]))
  BY DEF TrafficKey
<1> HIDE DEF k, secret
<1>2. k.key # k.iv
  BY <1>1, HkdfInjective, InfoInjective
<1>3. Zeroed.key = Zeroed.iv
  BY DEF Zeroed
<1> QED
  BY <1>2, <1>3 DEF k

(* What a session looks up is that key.                                    *)
LEMMA KeyOfIs ==
  ASSUME NEW s, NEW c \in DOMAIN Channels, NEW e \in DOMAIN Directions
  PROVE  KeyOf(s, Channels[c], Directions[e])
           = TrafficKey(s.exporter, s.app, Channels[c], Directions[e])
  BY SlotHoldsItsKey DEF KeyOf

(* So keys agree exactly where they must, for any two sessions at all.     *)
LEMMA AnyKeysAgreeExactly == KeysAgreeExactly
<1> SUFFICES ASSUME NEW m \in DOMAIN created, NEW n \in DOMAIN created,
                    NEW c \in DOMAIN Channels, NEW d \in DOMAIN Channels,
                    NEW e \in DOMAIN Directions, NEW f \in DOMAIN Directions
             PROVE  LET s == created[m]
                        t == created[n]
                        k == KeyOf(s, Channels[c], Directions[e])
                        l == KeyOf(t, Channels[d], Directions[f])
                    IN  /\ k # Zeroed /\ k.key # k.iv
                        /\ k = l <=> /\ <<s.exporter, s.app>> = <<t.exporter, t.app>>
                                     /\ c = d /\ e = f
  BY DEF KeysAgreeExactly
<1> DEFINE s == created[m]
           t == created[n]
           k == KeyOf(s, Channels[c], Directions[e])
           l == KeyOf(t, Channels[d], Directions[f])
<1>1. /\ k = TrafficKey(s.exporter, s.app, Channels[c], Directions[e])
      /\ l = TrafficKey(t.exporter, t.app, Channels[d], Directions[f])
  BY KeyOfIs
<1>2. k # Zeroed /\ k.key # k.iv
  BY <1>1, TrafficKeyDerived
<1> HIDE DEF s, t, k, l
<1>3. ASSUME k = l PROVE s.exporter = t.exporter /\ s.app = t.app /\ c = d /\ e = f
  <2>1. TrafficKey(s.exporter, s.app, Channels[c], Directions[e]).key
          = TrafficKey(t.exporter, t.app, Channels[d], Directions[f]).key
    BY <1>1, <1>3
  <2> QED
    BY <2>1, TrafficKeyInjective
<1>4. s.exporter = t.exporter /\ s.app = t.app /\ c = d /\ e = f => k = l
  BY <1>1
<1> QED
  BY <1>2, <1>3, <1>4 DEF s, t, k, l

-----------------------------------------------------------------------------
(* The invariant.  A capability is in one place: with its role, in a call, *)
(* or in a session that was created from it.                               *)

Sessions == [role : Roles, exporter : Exporters, app : Apps]
Calls == [step : {"derive", "fetch"}, role : Roles, exporter : Exporters, app : Apps]

Apart(s, t) == s.role = t.role => s.exporter # t.exporter

Consumed(held, s) == s.exporter \notin held[s.role]

LinearInv ==
  /\ material \in [Roles -> SUBSET Exporters]
  /\ creation \in [Threads -> Calls \union {Idle}]
  /\ created \in Seq(Sessions)
  /\ \A t \in Threads : creation[t] \in Calls =>
       /\ Consumed(material, creation[t])
       /\ \A u \in Threads : u # t /\ creation[u] \in Calls => Apart(creation[t], creation[u])
       /\ \A n \in DOMAIN created : Apart(creation[t], created[n])
  /\ \A m \in DOMAIN created :
       /\ Consumed(material, created[m])
       /\ \A n \in DOMAIN created : m # n => Apart(created[m], created[n])

(* A call is not idle.                                                     *)
LEMMA CallFacts == \A c \in Calls : c # Idle /\ c.step # "idle"
<1>1. \A c \in Calls : c.step \in {"derive", "fetch"}
  BY DEF Calls
<1>2. Idle.step = "idle"
  BY DEF Idle
<1> QED
  BY <1>1, <1>2

(* Nothing was consumed yet.                                               *)
LEMMA InitLinearInv == Init => LinearInv
<1> SUFFICES ASSUME Init PROVE LinearInv
  OBVIOUS
<1>1. /\ material = [r \in Roles |-> Exporters] /\ created = <<>>
      /\ creation = [t \in Threads |-> Idle]
  BY DEF Init
<1>2. \A t \in Threads : creation[t] \notin Calls
  BY <1>1, CallFacts
<1> QED
  BY <1>1, <1>2 DEF LinearInv

(* A call takes the capability out of what its role has.                   *)
LEMMA CreateKeeps ==
  ASSUME LinearInv, NEW t \in Threads, NEW role \in Roles, NEW exporter \in Exporters,
         NEW app, Create(t, role, exporter, app)
  PROVE  LinearInv'
<1>1. /\ creation[t] = Idle /\ exporter \in material[role] /\ created' = created
      /\ material' = [material EXCEPT ![role] = material[role] \ {exporter}]
      /\ creation' = [creation EXCEPT ![t] =
           IF app \in Apps THEN Call("derive", role, exporter, app) ELSE Idle]
  BY DEF Create, MaterialLeft
<1>2. /\ material \in [Roles -> SUBSET Exporters]
      /\ creation \in [Threads -> Calls \union {Idle}] /\ created \in Seq(Sessions)
  BY DEF LinearInv
<1>3. /\ material' \in [Roles -> SUBSET Exporters]
      /\ \A r \in Roles : material'[r] \subseteq material[r]
      /\ exporter \notin material'[role]
  BY <1>1, <1>2
<1>4. \A n \in DOMAIN created : created[n] \in Sessions
  BY <1>2
<1>5. \A u \in Threads : u # t => creation'[u] = creation[u]
  BY <1>1, <1>2
<1>6. \A n \in DOMAIN created : Consumed(material', created[n]) /\ Consumed(material, created[n])
  BY <1>1, <1>3, <1>4 DEF LinearInv, Consumed, Sessions
<1>7. \A u \in Threads : u # t /\ creation[u] \in Calls =>
        Consumed(material, creation[u]) /\ Consumed(material', creation'[u])
  BY <1>3, <1>5 DEF LinearInv, Consumed, Calls
<1>8. CASE app \in Apps
  <2> DEFINE c == Call("derive", role, exporter, app)
  <2>1. c \in Calls /\ c.role = role /\ c.exporter = exporter
    BY <1>8 DEF Call, Calls
  <2>2. creation'[t] = c /\ creation' \in [Threads -> Calls \union {Idle}]
    BY <1>1, <1>2, <1>8, <2>1
  <2> HIDE DEF c
  <2>3. \A s : Consumed(material, s) => Apart(c, s) /\ Apart(s, c)
    BY <1>1, <2>1 DEF Consumed, Apart
  <2>4. Consumed(material', c)
    BY <1>3, <2>1 DEF Consumed
  <2> QED
    BY <1>1, <1>2, <1>3, <1>5, <1>6, <1>7, <2>2, <2>3, <2>4 DEF LinearInv
<1>9. CASE app \notin Apps
  <2>1. creation'[t] = Idle /\ creation' \in [Threads -> Calls \union {Idle}]
    BY <1>1, <1>2, <1>9
  <2> QED
    BY <1>1, <1>2, <1>3, <1>5, <1>6, <1>7, <2>1, CallFacts DEF LinearInv
<1> QED
  BY <1>8, <1>9

(* The other steps pass it on, drop it, or make a session of it.           *)
LEMMA AdvanceKeeps ==
  ASSUME LinearInv, NEW t \in Threads,
         Derive(t) \/ DeriveFails(t) \/ FetchOnce(t) \/ TakeCipher(t)
  PROVE  LinearInv'
<1>1. /\ material \in [Roles -> SUBSET Exporters] /\ material' = material
      /\ creation \in [Threads -> Calls \union {Idle}] /\ created \in Seq(Sessions)
  BY DEF LinearInv, Derive, DeriveFails, FetchOnce, TakeCipher
<1>2. creation[t] \in Calls
  <2>1. creation[t].step \in {"derive", "fetch"}
    BY DEF Derive, DeriveFails, FetchOnce, TakeCipher
  <2>2. creation[t] # Idle
    BY <2>1 DEF Idle
  <2> QED
    BY <1>1, <2>2
<1>3. CASE Derive(t)
  <2> DEFINE c == [creation[t] EXCEPT !.step = "fetch"]
  <2>1. creation' = [creation EXCEPT ![t] = c] /\ created' = created
    BY <1>1, <1>3 DEF Derive
  <2>2. c \in Calls /\ c.role = creation[t].role /\ c.exporter = creation[t].exporter
    BY <1>2 DEF Calls
  <2> HIDE DEF c
  <2>3. /\ creation' \in [Threads -> Calls \union {Idle}] /\ creation'[t] = c
        /\ \A u \in Threads : u # t => creation'[u] = creation[u]
    BY <1>1, <2>1, <2>2
  <2>4. \A s : /\ Apart(creation[t], s) => Apart(c, s)
               /\ Apart(s, creation[t]) => Apart(s, c)
    BY <2>2 DEF Apart
  <2>5. Consumed(material, creation[t]) => Consumed(material', c)
    BY <1>1, <2>2 DEF Consumed
  <2> QED
    BY <1>1, <1>2, <2>1, <2>3, <2>4, <2>5 DEF LinearInv
<1>4. CASE DeriveFails(t)
  <2>1. creation' = [creation EXCEPT ![t] = Idle] /\ created' = created
    BY <1>4 DEF DeriveFails
  <2>2. /\ creation' \in [Threads -> Calls \union {Idle}] /\ creation'[t] \notin Calls
        /\ \A u \in Threads : u # t => creation'[u] = creation[u]
    BY <1>1, <2>1, CallFacts
  <2> QED
    BY <1>1, <2>1, <2>2 DEF LinearInv
<1>5. CASE FetchOnce(t)
  <2>1. creation' = creation /\ created' = created
    BY <1>5 DEF FetchOnce
  <2> QED
    BY <1>1, <2>1 DEF LinearInv
<1>6. CASE TakeCipher(t)
  <2> DEFINE c == creation[t]
             s == [role |-> c.role, exporter |-> c.exporter, app |-> c.app]
  <2>1. creation' = [creation EXCEPT ![t] = Idle]
    BY <1>6 DEF TakeCipher
  <2>2. /\ creation' \in [Threads -> Calls \union {Idle}] /\ creation'[t] \notin Calls
        /\ \A u \in Threads : u # t => creation'[u] = creation[u]
    BY <1>1, <2>1, CallFacts
  <2>3. CASE created' = created
    BY <1>1, <2>2, <2>3 DEF LinearInv
  <2>4. CASE created' = Append(created, s)
    <3>1. s \in Sessions /\ s.role = c.role /\ s.exporter = c.exporter
      BY <1>2 DEF Calls, Sessions
    <3> HIDE DEF c, s
    <3>2. /\ created' \in Seq(Sessions) /\ Len(created) \in Nat
          /\ DOMAIN created = 1..Len(created) /\ DOMAIN created' = 1..Len(created) + 1
          /\ created'[Len(created) + 1] = s
          /\ \A n \in DOMAIN created : created'[n] = created[n]
      BY <1>1, <2>4, <3>1
    <3>3. \A n \in DOMAIN created' :
            (n \in DOMAIN created /\ created'[n] = created[n]) \/ created'[n] = s
      BY <3>2
    <3>4. \A v : /\ Apart(c, v) => Apart(s, v) /\ Apart(v, s)
                 /\ Apart(v, c) => Apart(v, s) /\ Apart(s, v)
      BY <3>1 DEF Apart
    <3>5. Consumed(material', s)
      BY <1>1, <1>2, <3>1 DEF LinearInv, Consumed, c
    <3>7. ASSUME NEW u \in Threads, creation'[u] \in Calls
          PROVE  /\ Consumed(material', creation'[u])
                 /\ \A v \in Threads : v # u /\ creation'[v] \in Calls
                      => Apart(creation'[u], creation'[v])
                 /\ \A n \in DOMAIN created' : Apart(creation'[u], created'[n])
      <4>1. u # t /\ creation'[u] = creation[u] /\ Apart(creation[u], c)
        BY <1>2, <2>2, <3>7 DEF LinearInv, c
      <4> QED
        BY <1>1, <2>2, <3>3, <3>4, <3>7, <4>1 DEF LinearInv
    <3>8. ASSUME NEW m \in DOMAIN created'
          PROVE  /\ Consumed(material', created'[m])
                 /\ \A n \in DOMAIN created' : m # n => Apart(created'[m], created'[n])
      <4>1. \A n \in DOMAIN created : Apart(created[n], s) /\ Apart(s, created[n])
        BY <1>2, <3>4 DEF LinearInv, c
      <4>2. CASE m \in DOMAIN created
        <5>1. Consumed(material', created'[m])
          BY <1>1, <3>2, <4>2 DEF LinearInv
        <5>2. ASSUME NEW n \in DOMAIN created', m # n PROVE Apart(created'[m], created'[n])
          BY <3>2, <3>3, <4>1, <4>2, <5>2 DEF LinearInv
        <5> QED
          BY <5>1, <5>2
      <4>3. CASE m \notin DOMAIN created
        <5>1. m = Len(created) + 1 /\ created'[m] = s
          BY <3>2, <4>3
        <5>2. \A n \in DOMAIN created' : m # n => n \in DOMAIN created /\ created'[n] = created[n]
          BY <3>2, <5>1
        <5> QED
          BY <3>5, <4>1, <5>1, <5>2
      <4> QED
        BY <4>2, <4>3
    <3> QED
      BY <1>1, <2>2, <3>2, <3>7, <3>8 DEF LinearInv
  <2> QED
    BY <1>6, <2>3, <2>4 DEF TakeCipher
<1> QED
  BY <1>3, <1>4, <1>5, <1>6

(* Every step keeps it.                                                    *)
LEMMA NextLinearInv == LinearInv /\ [Next]_vars => LinearInv'
<1> SUFFICES ASSUME LinearInv, [Next]_vars PROVE LinearInv'
  OBVIOUS
<1>1. CASE Next
  BY <1>1, CreateKeeps, AdvanceKeeps DEF Next
<1>2. CASE UNCHANGED vars
  BY <1>2 DEF vars, LinearInv
<1> QED
  BY <1>1, <1>2

(* The capabilities stay linear for any number of threads.                 *)
THEOREM LinearInvariant == Spec => []LinearInv
<1> QED
  BY InitLinearInv, NextLinearInv, PTL DEF Spec

(* In the whole process two sessions never seal under one key, nor one     *)
(* session on two channels, whatever fails and whoever tries again.        *)
THEOREM NoSharedSealer == Spec => []OneSealerPerKey
<1>1. LinearInv => OneSealerPerKey
  <2> SUFFICES ASSUME LinearInv, NEW m \in DOMAIN created, NEW n \in DOMAIN created,
                      NEW c \in DOMAIN Channels, NEW d \in DOMAIN Channels,
                      KeyOf(created[m], Channels[c], SendDirection(created[m].role)).key
                        = KeyOf(created[n], Channels[d], SendDirection(created[n].role)).key
               PROVE  m = n /\ c = d
    BY DEF OneSealerPerKey
  <2>1. /\ created[m] \in Sessions /\ created[n] \in Sessions
        /\ m # n => Apart(created[m], created[n])
    BY DEF LinearInv
  <2>2. created[m].role \in Roles /\ created[n].role \in Roles
    BY <2>1 DEF Sessions
  <2>3. PICK e \in DOMAIN Directions : SendDirection(created[m].role) = Directions[e]
    BY <2>2, DirectionFacts
  <2>4. PICK f \in DOMAIN Directions : SendDirection(created[n].role) = Directions[f]
    BY <2>2, DirectionFacts
  <2>5. TrafficKey(created[m].exporter, created[m].app, Channels[c], Directions[e]).key
          = TrafficKey(created[n].exporter, created[n].app, Channels[d], Directions[f]).key
    BY <2>3, <2>4, KeyOfIs
  <2>6. created[m].exporter = created[n].exporter /\ c = d /\ e = f
    BY <2>5, TrafficKeyInjective
  <2>7. created[m].role = created[n].role
    BY <2>2, <2>3, <2>4, <2>6, DirectionFacts
  <2> QED
    BY <2>1, <2>6, <2>7 DEF Apart
<1> QED
  BY <1>1, LinearInvariant, PTL

(* Two sessions have a key in common exactly for the same channel and      *)
(* direction of one exporter and one application context, and every key    *)
(* was derived: no slot is left empty or overwritten.                      *)
THEOREM KeysAgree == Spec => []KeysAgreeExactly
<1> QED
  BY AnyKeysAgreeExactly, PTL

=============================================================================
