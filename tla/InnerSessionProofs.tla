------------------------- MODULE InnerSessionProofs -------------------------
(***************************************************************************)
(* Theorems about InnerSession, for every set of data channels and epochs, *)
(* all limits, and payloads and logs of any length: whatever the network   *)
(* delivers and wherever a session breaks.                                 *)
(***************************************************************************)
EXTENDS InnerSession, FiniteSetTheorems, WellFoundedInduction, TLAPS

-----------------------------------------------------------------------------
(* Roles and contexts.                                                     *)

(* Two roles, and two directions.                                          *)
LEMMA RoleFacts ==
  /\ \A r \in Roles : /\ Peer(r) \in Roles /\ Peer(r) # r /\ Peer(Peer(r)) = r
                      /\ SendDirection(r) \in Directions
                      /\ ReceiveDirection(r) \in Directions
                      /\ SendDirection(r) # ReceiveDirection(r)
                      /\ ReceiveDirection(r) = SendDirection(Peer(r))
                      /\ Directions = {SendDirection(r), ReceiveDirection(r)}
                      /\ \A q \in Roles : q = r \/ q = Peer(r)
  /\ Guard \in Channels /\ DataChannels \subseteq Channels
  BY DEF Roles, Peer, SendDirection, ReceiveDirection, Directions, Channels

(* The limits leave room for two records and a byte.                       *)
LEMMA LimitFacts ==
  /\ HardRecords \in Nat /\ HardRecords >= 2 /\ HardBytes \in Nat /\ HardBytes >= 1
  /\ SoftRecords \in Nat /\ SoftRecords <= HardRecords - 1
  /\ SoftBytes \in Nat /\ MaxPlaintext \in Nat
  /\ SoftBytes <= HardBytes - MaxPlaintext
  /\ NoUsage \in Usage
  /\ [c \in Contexts |-> NoUsage] \in [Contexts -> Usage]
<1>1. NoUsage \in Usage
  BY RecordLimits, ByteLimits DEF NoUsage, Usage
<1> QED
  BY <1>1, RecordLimits, ByteLimits

(* A session in the middle of a call may have a context at a limit.        *)
LooseUsage == [next_sequence : Nat, records : Nat, plaintext_bytes : Nat]
LooseSession == [state : States, keys : BOOLEAN, usage : [Contexts -> LooseUsage],
                 local_commit_sent : BOOLEAN, peer_commit_received : BOOLEAN,
                 local_close_sent : BOOLEAN, peer_close_received : BOOLEAN]

SameFlags(s, t) == /\ t.local_commit_sent = s.local_commit_sent
                   /\ t.peer_commit_received = s.peer_commit_received
                   /\ t.local_close_sent = s.local_close_sent
                   /\ t.peer_close_received = s.peer_close_received

(* A session is whole: its keys are there until it ends, and nothing else  *)
(* is there afterwards.                                                    *)
Whole(s) == /\ s.keys <=> s.state \notin Terminal
            /\ s.state \in Terminal => s.usage = [c \in Contexts |-> NoUsage]

(* A session at rest is one.                                               *)
LEMMA SessionIsLoose ==
  /\ Usage \subseteq LooseUsage
  /\ Session \subseteq LooseSession
<1>1. Usage \subseteq LooseUsage
  BY LimitFacts DEF Usage, LooseUsage
<1>2. [Contexts -> Usage] \subseteq [Contexts -> LooseUsage]
  BY <1>1
<1> QED
  BY <1>1, <1>2 DEF Session, LooseSession

(* Charging a context.                                                     *)
LEMMA ChargeFacts ==
  ASSUME NEW s \in Session, NEW c \in Contexts, NEW n \in 0..MaxPlaintext
  PROVE  LET t == Charge(s, c, n)
             u == Consume(s.usage[c], n)
         IN  /\ u \in LooseUsage
             /\ t \in LooseSession
             /\ t.state = s.state /\ t.keys = s.keys /\ SameFlags(s, t)
             /\ t.usage = [s.usage EXCEPT ![c] = u]
             /\ ~HardLimitReached(u) => u \in Usage /\ t \in Session
<1> DEFINE u == Consume(s.usage[c], n)
<1>1. s.usage \in [Contexts -> Usage] /\ s.usage[c] \in Usage
  BY DEF Session
<1>2. u \in LooseUsage
  BY <1>1, LimitFacts DEF Consume, Usage, LooseUsage
<1>3. ~HardLimitReached(u) => u \in Usage
  BY <1>2, LimitFacts DEF HardLimitReached, Usage, LooseUsage
<1> HIDE DEF u
<1>4. /\ [s.usage EXCEPT ![c] = u] \in [Contexts -> LooseUsage]
      /\ ~HardLimitReached(u) => [s.usage EXCEPT ![c] = u] \in [Contexts -> Usage]
  BY <1>1, <1>2, <1>3, SessionIsLoose
<1>5. Charge(s, c, n) = [s EXCEPT !.usage = [s.usage EXCEPT ![c] = u]]
  BY DEF Charge, Session, u
<1> QED
  BY <1>2, <1>3, <1>4, <1>5 DEF Session, LooseSession, SameFlags, u

(* Failing.                                                                *)
LEMMA FailFacts ==
  ASSUME NEW s \in LooseSession
  PROVE  /\ s.state \in Terminal => Fail(s) = s
         /\ s.state \notin Terminal =>
              /\ Fail(s) \in Session /\ Whole(Fail(s))
              /\ Fail(s).state = "Failed" /\ SameFlags(s, Fail(s))
<1>1. CASE s.state \in Terminal
  BY <1>1 DEF Fail
<1>2. CASE s.state \notin Terminal
  <2>1. Fail(s) = [s EXCEPT !.keys = FALSE, !.usage = [c \in Contexts |-> NoUsage],
                            !.state = "Failed"]
    BY <1>2 DEF Fail, Erase, LooseSession
  <2> QED
    BY <1>2, <2>1, LimitFacts DEF LooseSession, Session, States, Whole, SameFlags, Terminal
<1> QED
  BY <1>1, <1>2

(* Finishing the exchange of closes.                                       *)
LEMMA FinishCloseFacts ==
  ASSUME NEW s \in LooseSession, s.state = "Draining"
  PROVE  LET t == FinishClose(s)
             both == s.local_close_sent /\ s.peer_close_received
         IN  /\ SameFlags(s, t)
             /\ both => t \in Session /\ t.state = "Closed" /\ Whole(t)
             /\ ~both => t = s
<1>1. CASE s.local_close_sent /\ s.peer_close_received
  <2>1. FinishClose(s) = [s EXCEPT !.keys = FALSE, !.usage = [c \in Contexts |-> NoUsage],
                                   !.state = "Closed"]
    BY <1>1 DEF FinishClose, Erase, LooseSession
  <2> QED
    BY <1>1, <2>1, LimitFacts DEF LooseSession, Session, States, Whole, SameFlags, Terminal
<1>2. CASE ~(s.local_close_sent /\ s.peer_close_received)
  BY <1>2 DEF FinishClose, SameFlags
<1> QED
  BY <1>1, <1>2

-----------------------------------------------------------------------------
(* The three kinds of steps: a session seals a record, opens one, or fails *)
(* with no record.                                                         *)

NewRecord(r, type, channel, n) ==
  [type |-> type, channel |-> channel, plaintext_len |-> n,
   sequence |-> session[r].usage[SendContext(r, channel)].next_sequence,
   direction |-> SendDirection(r), epoch |-> epoch[r]]

(* A live session uses context c for n bytes and becomes t: at the hard    *)
(* limit it has failed.                                                    *)
Uses(s, c, n, t) ==
  LET u == Consume(s.usage[c], n)
  IN  /\ s.state \notin Terminal /\ Permits(s.usage[c], n)
      /\ t \in Session /\ Whole(t)
      /\ HardLimitReached(u) => t.state \in Terminal
      /\ t.state \notin Terminal => t.usage = [s.usage EXCEPT ![c] = u]
      /\ t.state = "Failed" => HardLimitReached(u)

MaySeal(s, type) ==
  CASE type = "commit" -> CanCommit(s)
    [] type = "close"  -> CanClose(s)
    [] OTHER           -> CanSeal(s)

(* What a seal does to the state and the flags.                            *)
SealMoves(s, type, t) ==
  /\ MaySeal(s, type)
  /\ t.peer_commit_received = s.peer_commit_received
  /\ t.peer_close_received = s.peer_close_received
  /\ \/ t.state = "Failed" /\ SameFlags(s, t)
     \/ type \in {"data", "refresh"} /\ t.state = s.state /\ SameFlags(s, t)
     \/ /\ type = "commit" /\ t.local_commit_sent
        /\ t.local_close_sent = s.local_close_sent
        /\ t.state = IF s.peer_commit_received THEN "Active" ELSE "Committing"
     \/ /\ type = "close" /\ t.local_close_sent
        /\ t.local_commit_sent = s.local_commit_sent
        /\ t.state = IF s.peer_close_received THEN "Closed" ELSE "Draining"

Sealing(r, type, channel, n, t) ==
  /\ type \in RecordTypes /\ channel \in Channels /\ n \in 0..MaxPlaintext
  /\ type # "data" => n = 0 /\ channel = Guard
  /\ type = "data" => channel \in DataChannels
  /\ type \in {"data", "refresh"} => Len(sealed[r]) < MaxSealed
  /\ Uses(session[r], SendContext(r, channel), n, t)
  /\ SealMoves(session[r], type, t)
  /\ session' = [session EXCEPT ![r] = t]
  /\ sealed' = [sealed EXCEPT ![r] = Append(@, NewRecord(r, type, channel, n))]
  /\ UNCHANGED <<epoch, opened>>

(* What an opened record does to them.                                     *)
OpenMoves(s, type, t) ==
  /\ t.local_commit_sent = s.local_commit_sent
  /\ t.local_close_sent = s.local_close_sent
  /\ \/ /\ type \in {"data", "refresh"} /\ s.state = "Active" /\ SameFlags(s, t)
        /\ t.state \in {"Active", "Failed"}
     \/ /\ type = "commit" /\ s.state = "Committing"
        /\ t.peer_commit_received /\ t.peer_close_received = s.peer_close_received
        /\ t.state \in {IF s.local_commit_sent THEN "Active" ELSE "Committing", "Failed"}
     \/ /\ type = "close" /\ s.state \in {"Active", "Draining"}
        /\ ~s.peer_close_received /\ t.peer_close_received
        /\ t.peer_commit_received = s.peer_commit_received
        /\ IF s.local_close_sent THEN t.state = "Closed"
                                 ELSE t.state \in {"Draining", "Failed"}

Opening(r, i, t) ==
  LET rec == sealed[Peer(r)][i]
      c   == ReceiveContext(r, rec)
  IN  /\ i \in DOMAIN sealed[Peer(r)]
      /\ rec.sequence = session[r].usage[c].next_sequence
      /\ rec.epoch = epoch[r]
      /\ Uses(session[r], c, rec.plaintext_len, t)
      /\ OpenMoves(session[r], rec.type, t)
      /\ session' = [session EXCEPT ![r] = t]
      /\ opened' = [opened EXCEPT ![r] = Append(@, <<Peer(r), i>>)]
      /\ UNCHANGED <<epoch, sealed>>

Failing(r) ==
  /\ session' = [session EXCEPT ![r] = Fail(@)]
  /\ UNCHANGED <<epoch, sealed, opened>>

(* Every record of a log names its sealer's direction and epoch.           *)
Stamped(r) ==
  \A i \in DOMAIN sealed[r] : /\ sealed[r][i].direction = SendDirection(r)
                              /\ sealed[r][i].epoch = epoch[r]

(* The result of SealRaw and of an open, before the type of the record is  *)
(* looked at: failed at the hard limit, charged otherwise.                 *)
LEMMA ChargedOrFailed ==
  ASSUME NEW s \in Session, Whole(s), s.state \notin Terminal,
         NEW c \in Contexts, NEW n \in 0..MaxPlaintext
  PROVE  LET u == Consume(s.usage[c], n)
             t == TerminateIf(Charge(s, c, n), HardLimitReached(u))
         IN  /\ t \in Session /\ Whole(t) /\ SameFlags(s, t)
             /\ IF HardLimitReached(u)
                THEN t.state = "Failed"
                ELSE t.state = s.state /\ t.usage = [s.usage EXCEPT ![c] = u]
<1> DEFINE u == Consume(s.usage[c], n)
           d == Charge(s, c, n)
<1>1. /\ d \in LooseSession
      /\ d.state = s.state /\ d.keys = s.keys /\ SameFlags(s, d)
      /\ d.usage = [s.usage EXCEPT ![c] = u]
      /\ ~HardLimitReached(u) => d \in Session
  BY ChargeFacts
<1> HIDE DEF u, d
<1>2. CASE HardLimitReached(u)
  <2>1. /\ Fail(d) \in Session /\ Whole(Fail(d)) /\ Fail(d).state = "Failed"
        /\ SameFlags(d, Fail(d))
    BY <1>1, FailFacts
  <2> QED
    BY <1>1, <1>2, <2>1 DEF TerminateIf, SameFlags, u, d
<1>3. CASE ~HardLimitReached(u)
  BY <1>1, <1>3 DEF TerminateIf, Whole, u, d
<1> QED
  BY <1>2, <1>3

(* A seal changes nothing else.                                            *)
LEMMA EmitFacts ==
  ASSUME NEW r, NEW type, NEW channel, NEW n, Emit(r, type, channel, n)
  PROVE  /\ Permits(session[r].usage[SendContext(r, channel)], n)
         /\ sealed' = [sealed EXCEPT ![r] = Append(@, NewRecord(r, type, channel, n))]
         /\ UNCHANGED <<epoch, opened>>
  BY DEF Emit, NewRecord

(* What TypeOK and ErasedExactly say of one session.                       *)
LEMMA AtRest ==
  ASSUME TypeOK, ErasedExactly, NEW r \in Roles
  PROVE  session[r] \in Session /\ Whole(session[r]) /\ DOMAIN session = Roles
  BY DEF TypeOK, ErasedExactly, Whole

(* Each seal is such a step: data and refreshes, ...                       *)
LEMMA DataSeals ==
  ASSUME TypeOK, ErasedExactly, NEW r \in Roles
  PROVE  /\ \A channel \in DataChannels, n \in 0..MaxPlaintext :
              SealData(r, channel, n) => Sealing(r, "data", channel, n, session'[r])
         /\ SealRefresh(r) => Sealing(r, "refresh", Guard, 0, session'[r])
<1> DEFINE s == session[r]
<1>1. /\ s \in Session /\ Whole(s) /\ DOMAIN session = Roles
      /\ 0 \in 0..MaxPlaintext /\ Guard \in Channels /\ DataChannels \subseteq Channels
      /\ {"data", "refresh"} \subseteq RecordTypes
  BY AtRest, RoleFacts, LimitFacts DEF RecordTypes
<1>2. ASSUME NEW type \in {"data", "refresh"}, NEW channel \in Channels,
             NEW n \in 0..MaxPlaintext, CanSeal(s),
             type # "data" => n = 0 /\ channel = Guard,
             type = "data" => channel \in DataChannels,
             Len(sealed[r]) < MaxSealed, Emit(r, type, channel, n),
             session' = [session EXCEPT ![r] = SealRaw(r, channel, n)]
      PROVE  Sealing(r, type, channel, n, session'[r])
  <2> DEFINE c == SendContext(r, channel)
             t == SealRaw(r, channel, n)
  <2>1. c \in Contexts /\ s.state \notin Terminal
    BY <1>2, RoleFacts DEF SendContext, Contexts, CanSeal, Terminal
  <2>2. /\ t \in Session /\ Whole(t) /\ SameFlags(s, t)
        /\ IF HardLimitReached(Consume(s.usage[c], n))
           THEN t.state = "Failed"
           ELSE t.state = s.state /\ t.usage = [s.usage EXCEPT ![c] = Consume(s.usage[c], n)]
    BY <1>1, <2>1, ChargedOrFailed DEF SealRaw
  <2>3. session'[r] = t /\ session' = [session EXCEPT ![r] = t]
    BY <1>1, <1>2
  <2>4. Permits(s.usage[c], n)
    BY <1>2, EmitFacts
  <2> HIDE DEF s, c, t
  <2>5. Uses(s, c, n, t)
    BY <2>1, <2>2, <2>4 DEF Uses, Terminal
  <2>6. SealMoves(s, type, t)
    BY <1>2, <2>2 DEF SealMoves, MaySeal, SameFlags
  <2> QED
    BY <1>1, <1>2, <2>3, <2>5, <2>6, EmitFacts DEF Sealing, s, c
<1>3. ASSUME NEW channel \in DataChannels, NEW n \in 0..MaxPlaintext,
             SealData(r, channel, n)
      PROVE  Sealing(r, "data", channel, n, session'[r])
  BY <1>1, <1>2, <1>3 DEF SealData
<1>4. ASSUME SealRefresh(r) PROVE Sealing(r, "refresh", Guard, 0, session'[r])
  BY <1>1, <1>2, <1>4 DEF SealRefresh
<1> QED
  BY <1>3, <1>4

(* ... commits, ...                                                        *)
LEMMA CommitSeals ==
  ASSUME TypeOK, ErasedExactly, NEW r \in Roles, SealCommit(r)
  PROVE  Sealing(r, "commit", Guard, 0, session'[r])
<1> DEFINE s == session[r]
           c == SendContext(r, Guard)
           d == SealRaw(r, Guard, 0)
           t == AfterSeal(d, [d EXCEPT !.local_commit_sent = TRUE,
                                !.state = IF d.peer_commit_received THEN "Active" ELSE @])
<1>1. /\ s \in Session /\ Whole(s) /\ DOMAIN session = Roles
      /\ 0 \in 0..MaxPlaintext /\ Guard \in Channels
      /\ c \in Contexts /\ CanCommit(s) /\ s.state = "Committing"
      /\ Emit(r, "commit", Guard, 0)
  BY AtRest, RoleFacts, LimitFacts DEF SealCommit, SendContext, Contexts, CanCommit
<1>2. /\ d \in Session /\ Whole(d) /\ SameFlags(s, d)
      /\ IF HardLimitReached(Consume(s.usage[c], 0))
         THEN d.state = "Failed"
         ELSE d.state = s.state /\ d.usage = [s.usage EXCEPT ![c] = Consume(s.usage[c], 0)]
  BY <1>1, ChargedOrFailed DEF SealRaw, Terminal
<1>3. session' = [session EXCEPT ![r] = t] /\ session'[r] = t
  BY <1>1 DEF SealCommit
<1>4. Permits(s.usage[c], 0)
  BY <1>1, EmitFacts
<1> HIDE DEF s, c, d
<1>5. /\ t \in Session /\ Whole(t)
      /\ t.peer_commit_received = s.peer_commit_received
      /\ t.local_close_sent = s.local_close_sent
      /\ t.peer_close_received = s.peer_close_received
      /\ IF HardLimitReached(Consume(s.usage[c], 0))
         THEN t.state = "Failed" /\ SameFlags(s, t)
         ELSE /\ t.local_commit_sent /\ t.usage = d.usage
              /\ t.state = IF s.peer_commit_received THEN "Active" ELSE "Committing"
  <2>1. CASE HardLimitReached(Consume(s.usage[c], 0))
    <3>1. t = d
      BY <1>2, <2>1 DEF AfterSeal
    <3> QED
      BY <1>2, <2>1, <3>1 DEF SameFlags
  <2>2. CASE ~HardLimitReached(Consume(s.usage[c], 0))
    <3>1. d.state = "Committing"
      BY <1>1, <1>2, <2>2
    <3>2. t = [d EXCEPT !.local_commit_sent = TRUE,
                 !.state = IF d.peer_commit_received THEN "Active" ELSE "Committing"]
      BY <1>2, <3>1 DEF AfterSeal, Session
    <3> HIDE DEF t
    <3> QED
      BY <1>2, <2>2, <3>1, <3>2 DEF Session, States, Whole, Terminal, SameFlags
  <2> QED
    BY <2>1, <2>2
<1> HIDE DEF t
<1>6. Uses(s, c, 0, t)
  BY <1>1, <1>2, <1>4, <1>5 DEF Uses, Terminal
<1>7. SealMoves(s, "commit", t)
  BY <1>1, <1>5 DEF SealMoves, MaySeal, SameFlags
<1> QED
  BY <1>1, <1>3, <1>6, <1>7, EmitFacts DEF Sealing, RecordTypes, s, c

(* ... and closes.                                                         *)
LEMMA CloseSeals ==
  ASSUME TypeOK, ErasedExactly, NEW r \in Roles, SealClose(r)
  PROVE  Sealing(r, "close", Guard, 0, session'[r])
<1> DEFINE s == session[r]
           c == SendContext(r, Guard)
           d == SealRaw(r, Guard, 0)
           e == [d EXCEPT !.local_close_sent = TRUE, !.state = "Draining"]
           t == AfterSeal(d, FinishClose(e))
<1>1. /\ s \in Session /\ Whole(s) /\ DOMAIN session = Roles
      /\ 0 \in 0..MaxPlaintext /\ Guard \in Channels
      /\ c \in Contexts /\ CanClose(s) /\ s.state \in {"Active", "Draining"}
      /\ Emit(r, "close", Guard, 0)
  BY AtRest, RoleFacts, LimitFacts DEF SealClose, SendContext, Contexts, CanClose
<1>2. /\ d \in Session /\ Whole(d) /\ SameFlags(s, d)
      /\ IF HardLimitReached(Consume(s.usage[c], 0))
         THEN d.state = "Failed"
         ELSE d.state = s.state /\ d.usage = [s.usage EXCEPT ![c] = Consume(s.usage[c], 0)]
  BY <1>1, ChargedOrFailed DEF SealRaw, Terminal
<1>3. session' = [session EXCEPT ![r] = t] /\ session'[r] = t
  BY <1>1 DEF SealClose
<1>4. Permits(s.usage[c], 0)
  BY <1>1, EmitFacts
<1> HIDE DEF s, c, d
<1>5. /\ t \in Session /\ Whole(t)
      /\ t.peer_commit_received = s.peer_commit_received
      /\ t.local_commit_sent = s.local_commit_sent
      /\ t.peer_close_received = s.peer_close_received
      /\ IF HardLimitReached(Consume(s.usage[c], 0))
         THEN t.state = "Failed" /\ SameFlags(s, t)
         ELSE /\ t.local_close_sent
              /\ t.state = IF s.peer_close_received THEN "Closed" ELSE "Draining"
              /\ t.state # "Closed" => t.usage = d.usage
  <2>1. CASE HardLimitReached(Consume(s.usage[c], 0))
    <3>1. t = d
      BY <1>2, <2>1 DEF AfterSeal
    <3> QED
      BY <1>2, <2>1, <3>1 DEF SameFlags
  <2>2. CASE ~HardLimitReached(Consume(s.usage[c], 0))
    <3>1. d.state # "Failed" /\ d.keys
      BY <1>1, <1>2, <2>2 DEF Whole, Terminal
    <3>2. t = FinishClose(e)
      BY <3>1 DEF AfterSeal
    <3>3. /\ e \in Session /\ Whole(e) /\ e.usage = d.usage
          /\ e.state = "Draining" /\ e.local_close_sent
          /\ e.peer_commit_received = s.peer_commit_received
          /\ e.local_commit_sent = s.local_commit_sent
          /\ e.peer_close_received = s.peer_close_received
      BY <1>2, <3>1 DEF Session, States, Whole, Terminal, SameFlags
    <3> HIDE DEF t, e
    <3>4. /\ SameFlags(e, t)
          /\ s.peer_close_received => t \in Session /\ t.state = "Closed" /\ Whole(t)
          /\ ~s.peer_close_received => t = e
      BY <3>2, <3>3, FinishCloseFacts, SessionIsLoose
    <3> QED
      BY <2>2, <3>3, <3>4 DEF SameFlags
  <2> QED
    BY <2>1, <2>2
<1> HIDE DEF t
<1>6. Uses(s, c, 0, t)
  BY <1>1, <1>2, <1>4, <1>5 DEF Uses, Terminal
<1>7. SealMoves(s, "close", t)
  BY <1>1, <1>5 DEF SealMoves, MaySeal, SameFlags
<1> QED
  BY <1>1, <1>3, <1>6, <1>7, EmitFacts DEF Sealing, RecordTypes, s, c

(* What the type of an opened record does to a charged session.            *)
LEMMA ApplyFacts ==
  ASSUME NEW d \in LooseSession, d.keys, NEW type \in RecordTypes,
         \/ type \in {"data", "refresh"} /\ d.state = "Active"
         \/ type = "commit" /\ d.state = "Committing" /\ ~d.peer_commit_received
         \/ type = "close" /\ d.state \in {"Active", "Draining"} /\ ~d.peer_close_received
  PROVE  LET t == Apply(d, type)
         IN  /\ t \in LooseSession
             /\ t.state \in Terminal => t \in Session /\ Whole(t)
             /\ t.state \notin Terminal => t.keys /\ t.usage = d.usage
             /\ t.local_commit_sent = d.local_commit_sent
             /\ t.local_close_sent = d.local_close_sent
             /\ type \in {"data", "refresh"} => t = d
             /\ type = "commit" =>
                  /\ t.peer_commit_received
                  /\ t.peer_close_received = d.peer_close_received
                  /\ t.state = IF d.local_commit_sent THEN "Active" ELSE "Committing"
             /\ type = "close" =>
                  /\ t.peer_close_received
                  /\ t.peer_commit_received = d.peer_commit_received
                  /\ t.state = IF d.local_close_sent THEN "Closed" ELSE "Draining"
<1>1. CASE type \in {"data", "refresh"}
  <2>1. Apply(d, type) = d
    BY <1>1 DEF Apply
  <2> QED
    BY <1>1, <2>1 DEF Terminal
<1>2. CASE type = "commit"
  <2>1. Apply(d, type) = [d EXCEPT !.peer_commit_received = TRUE,
                            !.state = IF d.local_commit_sent THEN "Active" ELSE "Committing"]
    BY <1>2 DEF Apply, LooseSession
  <2> QED
    BY <1>2, <2>1 DEF LooseSession, States, Terminal
<1>3. CASE type = "close"
  <2> DEFINE e == [d EXCEPT !.peer_close_received = TRUE, !.state = "Draining"]
  <2>1. Apply(d, type) = FinishClose(e)
    BY <1>3 DEF Apply
  <2>2. /\ e \in LooseSession /\ e.state = "Draining" /\ e.keys /\ e.usage = d.usage
        /\ e.peer_close_received
        /\ e.local_commit_sent = d.local_commit_sent
        /\ e.local_close_sent = d.local_close_sent
        /\ e.peer_commit_received = d.peer_commit_received
    BY DEF LooseSession, States
  <2> HIDE DEF e
  <2>3. /\ SameFlags(e, Apply(d, type))
        /\ d.local_close_sent =>
             /\ Apply(d, type) \in Session /\ Apply(d, type).state = "Closed"
             /\ Whole(Apply(d, type))
        /\ ~d.local_close_sent => Apply(d, type) = e
    BY <2>1, <2>2, FinishCloseFacts
  <2>4. CASE d.local_close_sent
    BY <1>3, <2>2, <2>3, <2>4, SessionIsLoose DEF SameFlags, Terminal
  <2>5. CASE ~d.local_close_sent
    BY <1>3, <2>2, <2>3, <2>5 DEF Terminal
  <2> QED
    BY <2>4, <2>5
<1> QED
  BY <1>1, <1>2, <1>3 DEF RecordTypes

(* An open takes a record of the peer that comes next on its channel.      *)
LEMMA OpenIsOpening ==
  ASSUME TypeOK, ErasedExactly, \A q \in Roles : Stamped(q),
         NEW r \in Roles, NEW from \in Roles, NEW i \in DOMAIN sealed[from],
         Open(r, from, i)
  PROVE  Opening(r, i, session'[r]) /\ from = Peer(r)
<1> DEFINE s == session[r]
           rec == sealed[from][i]
           c == ReceiveContext(r, rec)
           u == Consume(s.usage[c], rec.plaintext_len)
           d == Charge(s, c, rec.plaintext_len)
           a == Apply(d, rec.type)
           t == TerminateIf(a, HardLimitReached(u))
<1>1. /\ s \in Session /\ Whole(s) /\ DOMAIN session = Roles
      /\ sealed[from] \in Seq(Record) /\ rec \in Record
  BY AtRest DEF TypeOK
<1>2. rec.channel \in Channels /\ rec.plaintext_len \in 0..MaxPlaintext /\ rec.type \in RecordTypes
  BY <1>1 DEF Record
<1>3. c \in Contexts
  BY <1>2, RoleFacts DEF ReceiveContext, Contexts
<1>4. /\ s.state \notin Terminal /\ SemanticallyValid(rec) /\ StateValid(s, rec)
      /\ rec.sequence = s.usage[c].next_sequence
      /\ Permits(s.usage[c], rec.plaintext_len)
      /\ rec.direction = ReceiveDirection(r) /\ rec.epoch = epoch[r]
  BY DEF Open, Acceptable, Authentic
<1>5. from = Peer(r)
  BY <1>4, RoleFacts DEF Stamped
<1>6. /\ session' = [session EXCEPT ![r] = t]
      /\ opened' = [opened EXCEPT ![r] = Append(@, <<from, i>>)]
      /\ UNCHANGED <<epoch, sealed>>
  BY DEF Open
<1>7. session'[r] = t
  BY <1>1, <1>6
<1> HIDE DEF s, rec, c
<1>8. /\ d \in LooseSession /\ d.keys /\ SameFlags(s, d) /\ d.state = s.state
      /\ u \in LooseUsage
      /\ d.usage = [s.usage EXCEPT ![c] = u]
      /\ ~HardLimitReached(u) => d \in Session
  BY <1>1, <1>2, <1>3, <1>4, ChargeFacts DEF Whole
<1>9. \/ rec.type \in {"data", "refresh"} /\ s.state = "Active"
      \/ rec.type = "commit" /\ s.state = "Committing" /\ ~s.peer_commit_received
      \/ rec.type = "close" /\ s.state \in {"Active", "Draining"} /\ ~s.peer_close_received
  BY <1>2, <1>4 DEF StateValid, RecordTypes
<1> HIDE DEF u, d
<1>10. /\ a \in LooseSession
       /\ a.state \in Terminal => a \in Session /\ Whole(a)
       /\ a.state \notin Terminal => a.keys /\ a.usage = d.usage
       /\ a.local_commit_sent = s.local_commit_sent
       /\ a.local_close_sent = s.local_close_sent
       /\ rec.type \in {"data", "refresh"} => a = d
       /\ rec.type = "commit" =>
            /\ a.peer_commit_received
            /\ a.peer_close_received = s.peer_close_received
            /\ a.state = IF s.local_commit_sent THEN "Active" ELSE "Committing"
       /\ rec.type = "close" =>
            /\ a.peer_close_received
            /\ a.peer_commit_received = s.peer_commit_received
            /\ a.state = IF s.local_close_sent THEN "Closed" ELSE "Draining"
  BY <1>2, <1>8, <1>9, ApplyFacts DEF SameFlags
<1>11. OpenMoves(s, rec.type, a) /\ a.state # "Failed"
  BY <1>8, <1>9, <1>10 DEF OpenMoves, SameFlags
<1>12. SameFlags(s, d)
  BY <1>8
<1> HIDE DEF a
<1>13. CASE a.state \in Terminal
  <2>1. t = a
    BY <1>13 DEF TerminateIf, Fail
  <2>2. Uses(s, c, rec.plaintext_len, t)
    BY <1>4, <1>10, <1>11, <1>13, <2>1 DEF Uses
  <2> QED
    BY <1>4, <1>5, <1>6, <1>7, <1>11, <2>1, <2>2 DEF Opening, s, rec, c
<1>14. CASE a.state \notin Terminal /\ HardLimitReached(u)
  <2>1. /\ t \in Session /\ Whole(t) /\ t.state = "Failed" /\ SameFlags(a, t)
    BY <1>10, <1>14, FailFacts DEF TerminateIf
  <2> HIDE DEF t
  <2>2. Uses(s, c, rec.plaintext_len, t)
    BY <1>4, <1>14, <2>1 DEF Uses, Terminal, u
  <2>3. OpenMoves(s, rec.type, t)
    BY <1>11, <1>14, <2>1 DEF OpenMoves, SameFlags, Terminal
  <2> QED
    BY <1>4, <1>5, <1>6, <1>7, <2>2, <2>3 DEF Opening, s, rec, c
<1>15. CASE a.state \notin Terminal /\ ~HardLimitReached(u)
  <2>1. t = a
    BY <1>15 DEF TerminateIf
  <2>2. u \in Usage
    BY <1>8, <1>15, LimitFacts DEF HardLimitReached, Usage, LooseUsage
  <2>3. a.usage = [s.usage EXCEPT ![c] = u] /\ a.usage \in [Contexts -> Usage]
    BY <1>1, <1>3, <1>8, <1>10, <1>15, <2>2 DEF Session
  <2>4. a \in Session /\ Whole(a)
    BY <1>10, <1>15, <2>3 DEF Session, LooseSession, Whole
  <2>5. Uses(s, c, rec.plaintext_len, t)
    BY <1>4, <1>11, <1>15, <2>1, <2>3, <2>4 DEF Uses, u
  <2> QED
    BY <1>4, <1>5, <1>6, <1>7, <1>11, <2>1, <2>5 DEF Opening, s, rec, c
<1> QED
  BY <1>13, <1>14, <1>15

(* Every step is one of the three kinds.                                   *)
LEMMA StepKinds ==
  ASSUME TypeOK, ErasedExactly, \A q \in Roles : Stamped(q), Next
  PROVE  \E r \in Roles :
           \/ \E type, channel, n, t : Sealing(r, type, channel, n, t)
           \/ \E i, t : Opening(r, i, t)
           \/ Failing(r)
<1>1. PICK r \in Roles :
        \/ Seal(r)
        \/ \E from \in Roles : \E i \in DOMAIN sealed[from] : Deliver(r, from, i)
        \/ Break(r)
  BY DEF Next
<1>2. CASE Seal(r)
  <2>1. CASE \E channel \in DataChannels, n \in 0..MaxPlaintext : SealLimited(r, channel, n)
    BY <2>1 DEF SealLimited, Failing
  <2> QED
    BY <1>2, <2>1, DataSeals, CommitSeals, CloseSeals DEF Seal
<1>3. CASE \E from \in Roles : \E i \in DOMAIN sealed[from] : Deliver(r, from, i)
  <2>1. PICK from \in Roles : \E i \in DOMAIN sealed[from] : Deliver(r, from, i)
    BY <1>3
  <2>2. PICK i \in DOMAIN sealed[from] : Open(r, from, i) \/ OpenRejected(r, from, i)
    BY <2>1 DEF Deliver
  <2> QED
    BY <2>2, OpenIsOpening DEF OpenRejected, Failing
<1>4. CASE Break(r)
  BY <1>4 DEF Break, Failing
<1> QED
  BY <1>1, <1>2, <1>3, <1>4

-----------------------------------------------------------------------------
(* The invariant.  None of the properties of the sessions is inductive:    *)
(* that nothing is opened twice or out of order takes the agreement of     *)
(* sequence numbers between the two ends of a channel, and that who closed *)
(* exchanged commits and closes takes the agreement of flags and logs.     *)

OpenedType(r, type) == \E k \in DOMAIN opened[r] : OpenedRecord(r, k).type = type

(* What a session opened is in the log of its peer.                        *)
Located(r) ==
  \A k \in DOMAIN opened[r] : /\ opened[r][k][1] = Peer(r)
                              /\ opened[r][k][2] \in DOMAIN sealed[Peer(r)]

(* A flag is set when its record was sealed or opened, and a close that    *)
(* did not end the session has its flag.                                   *)
FlagsMeanRecords(r) ==
  LET s == session[r]
  IN  /\ s.local_commit_sent => SealedType(r, "commit")
      /\ s.peer_commit_received => OpenedType(r, "commit")
      /\ s.local_close_sent => SealedType(r, "close")
      /\ s.peer_close_received => OpenedType(r, "close")
      /\ s.state \notin Terminal /\ SealedType(r, "close") => s.local_close_sent
      /\ s.state \notin Terminal /\ OpenedType(r, "close") => s.peer_close_received

(* The flags that go with a state, and the room left in the log.           *)
StateMeansFlags(r) ==
  LET s == session[r]
  IN  /\ s.state \in {"Active", "Draining", "Closed"}
           => s.local_commit_sent /\ s.peer_commit_received
      /\ s.state = "Closed" => s.local_close_sent /\ s.peer_close_received
      /\ s.state \in {"Committing", "Active"}
           => ~s.local_close_sent /\ ~s.peer_close_received
      /\ s.state = "Committing" /\ ~s.local_commit_sent => sealed[r] = <<>>
      /\ s.state \notin Terminal /\ ~s.local_close_sent => Len(sealed[r]) <= MaxSealed
      /\ Len(sealed[r]) <= MaxSealed + 1

(* Who opened anything shares the epoch of its peer; who opened more than  *)
(* a commit was through the exchange of commits.                           *)
Bound(r) ==
  /\ opened[r] # <<>> => epoch[r] = epoch[Peer(r)]
  /\ \A k \in DOMAIN opened[r] :
       OpenedRecord(r, k).type # "commit" => SealedType(r, "commit") /\ OpenedType(r, "commit")

(* The sequence numbers of a channel go up, and the next one is higher.    *)
Numbered(r) ==
  /\ \A i, j \in DOMAIN sealed[r] :
       i < j /\ sealed[r][i].channel = sealed[r][j].channel
         => sealed[r][i].sequence < sealed[r][j].sequence
  /\ session[r].state \notin Terminal =>
       \A i \in DOMAIN sealed[r] :
         sealed[r][i].sequence
           < session[r].usage[<<sealed[r][i].channel, SendDirection(r)>>].next_sequence

NextIn(r, channel) == session[r].usage[<<channel, ReceiveDirection(r)>>].next_sequence

(* A live session opened the records below its next sequence number, and   *)
(* has one for each number below it.                                       *)
Followed(r) ==
  session[r].state \notin Terminal =>
    /\ \A k \in DOMAIN opened[r] :
         OpenedRecord(r, k).sequence < NextIn(r, OpenedRecord(r, k).channel)
    /\ \A h \in DOMAIN sealed[Peer(r)] :
         sealed[Peer(r)][h].sequence < NextIn(r, sealed[Peer(r)][h].channel)
           => \E k \in DOMAIN opened[r] : opened[r][k] = <<Peer(r), h>>
    /\ \A channel \in Channels : \A q \in Nat :
         q < NextIn(r, channel) =>
           \E k \in DOMAIN opened[r] : /\ OpenedRecord(r, k).channel = channel
                                       /\ OpenedRecord(r, k).sequence = q

(* InOrder, said of one opened record: p is the peer, from its log.        *)
InPlace(log, from, p, k) ==
  /\ log[k][1] = p
  /\ \A j \in 1..k - 1 : log[j] # log[k]
  /\ \A h \in 1..log[k][2] - 1 :
       from[h].channel = from[log[k][2]].channel
         => \E j \in 1..k - 1 : log[j] = <<p, h>>

AllInPlace(log, from) ==
  \A q \in Roles : \A k \in DOMAIN log[q] : InPlace(log[q], from[Peer(q)], Peer(q), k)

(* It is the same property, also of the next state.                        *)
LEMMA InOrderMeans ==
  /\ InOrder <=> AllInPlace(opened, sealed)
  /\ InOrder' <=> AllInPlace(opened', sealed')
<1>1. InOrder <=> AllInPlace(opened, sealed)
  BY Zenon DEF InOrder, AllInPlace, InPlace
<1>2. InOrder' <=> AllInPlace(opened', sealed')
  BY Zenon DEF InOrder, AllInPlace, InPlace
<1> QED
  BY <1>1, <1>2

SessionInv ==
  /\ TypeOK
  /\ ErasedExactly
  /\ InOrder
  /\ CloseIsLast
  /\ \A r \in Roles : /\ Stamped(r) /\ Located(r)
                      /\ FlagsMeanRecords(r) /\ StateMeansFlags(r)
                      /\ Bound(r) /\ Numbered(r) /\ Followed(r)

-----------------------------------------------------------------------------
(* What a step leaves alone.                                               *)

(* A seal adds one record to one log.                                      *)
SealEffect(r, type, channel, n, t) ==
  LET rec  == NewRecord(r, type, channel, n)
      last == Len(sealed[r]) + 1
  IN  /\ rec \in Record
      /\ rec.type = type /\ rec.channel = channel /\ rec.plaintext_len = n
      /\ rec.direction = SendDirection(r) /\ rec.epoch = epoch[r]
      /\ rec.sequence = session[r].usage[<<channel, SendDirection(r)>>].next_sequence
      /\ sealed'[r] = Append(sealed[r], rec)
      /\ sealed' \in [Roles -> Seq(Record)]
      /\ Len(sealed[r]) \in Nat /\ DOMAIN sealed[r] = 1..Len(sealed[r])
      /\ DOMAIN sealed'[r] = 1..last /\ Len(sealed'[r]) = last
      /\ sealed'[r][last] = rec
      /\ \A q \in Roles : \A i \in DOMAIN sealed[q] :
           i \in DOMAIN sealed'[q] /\ sealed'[q][i] = sealed[q][i]
      /\ session' \in [Roles -> Session] /\ session'[r] = t
      /\ \A q \in Roles : q # r => sealed'[q] = sealed[q] /\ session'[q] = session[q]
      /\ opened' = opened /\ epoch' = epoch

(* Every seal is such a step, whatever state it leaves the context in.     *)
LEMMA SealFrame ==
  ASSUME SessionInv, NEW r \in Roles, NEW type, NEW channel, NEW n, NEW t,
         Sealing(r, type, channel, n, t)
  PROVE  SealEffect(r, type, channel, n, t)
<1> DEFINE rec == NewRecord(r, type, channel, n)
<1>1. /\ session \in [Roles -> Session] /\ epoch \in [Roles -> Epochs]
      /\ \A q \in Roles : sealed[q] \in Seq(Record)
      /\ t \in Session
      /\ type \in RecordTypes /\ channel \in Channels /\ n \in 0..MaxPlaintext
      /\ session' = [session EXCEPT ![r] = t]
      /\ sealed' = [sealed EXCEPT ![r] = Append(@, rec)]
      /\ opened' = opened /\ epoch' = epoch
  BY DEF SessionInv, TypeOK, Sealing, Uses
<1>2. <<channel, SendDirection(r)>> \in Contexts
  BY <1>1, RoleFacts DEF Contexts
<1>3. /\ rec.sequence = session[r].usage[<<channel, SendDirection(r)>>].next_sequence
      /\ rec.sequence \in 0..HardRecords - 1
  BY <1>1, <1>2 DEF NewRecord, SendContext, Session, Usage
<1>4. /\ rec \in Record
      /\ rec.type = type /\ rec.channel = channel /\ rec.plaintext_len = n
      /\ rec.direction = SendDirection(r) /\ rec.epoch = epoch[r]
  BY <1>1, <1>3, RoleFacts DEF NewRecord, Record
<1> HIDE DEF rec
<1>5. sealed \in [Roles -> Seq(Record)] /\ sealed[r] \in Seq(Record)
  BY DEF SessionInv, TypeOK
<1>6. /\ Append(sealed[r], rec) \in Seq(Record)
      /\ Len(sealed[r]) \in Nat /\ DOMAIN sealed[r] = 1..Len(sealed[r])
      /\ Len(Append(sealed[r], rec)) = Len(sealed[r]) + 1
      /\ DOMAIN Append(sealed[r], rec) = 1..Len(sealed[r]) + 1
      /\ Append(sealed[r], rec)[Len(sealed[r]) + 1] = rec
      /\ \A i \in 1..Len(sealed[r]) : Append(sealed[r], rec)[i] = sealed[r][i]
  BY <1>4, <1>5
<1>7. /\ sealed' \in [Roles -> Seq(Record)]
      /\ sealed'[r] = Append(sealed[r], rec)
      /\ \A q \in Roles : q # r => sealed'[q] = sealed[q]
  BY <1>1, <1>5, <1>6
<1>8. \A q \in Roles : \A i \in DOMAIN sealed[q] :
        i \in DOMAIN sealed'[q] /\ sealed'[q][i] = sealed[q][i]
  <2> TAKE q \in Roles
  <2> TAKE i \in DOMAIN sealed[q]
  <2>1. CASE q = r
    <3>1. i \in 1..Len(sealed[r]) /\ i \in 1..Len(sealed[r]) + 1
      BY <1>6, <2>1
    <3> QED
      BY <1>6, <1>7, <2>1, <3>1
  <2>2. CASE q # r
    BY <1>7, <2>2
  <2> QED
    BY <2>1, <2>2
<1>9. /\ session' \in [Roles -> Session] /\ session'[r] = t
      /\ \A q \in Roles : q # r => session'[q] = session[q]
  BY <1>1
<1>10. DOMAIN sealed'[r] = 1..Len(sealed[r]) + 1 /\ Len(sealed'[r]) = Len(sealed[r]) + 1
      /\ sealed'[r][Len(sealed[r]) + 1] = rec
  BY <1>6, <1>7
<1>11. opened' = opened /\ epoch' = epoch
  BY <1>1
<1> QED
  BY <1>3, <1>4, <1>6, <1>7, <1>8, <1>9, <1>10, <1>11, Zenon DEF SealEffect, rec

(* So an opened record stays what it was.                                  *)
LEMMA OpenedStays ==
  ASSUME NEW r \in Roles, Located(r), opened'[r] = opened[r],
         \A q \in Roles : \A i \in DOMAIN sealed[q] : sealed'[q][i] = sealed[q][i]
  PROVE  \A k \in DOMAIN opened[r] : OpenedRecord(r, k)' = OpenedRecord(r, k)
<1> TAKE k \in DOMAIN opened[r]
<1>1. opened[r][k][1] \in Roles /\ opened[r][k][2] \in DOMAIN sealed[opened[r][k][1]]
  BY RoleFacts DEF Located
<1> QED
  BY <1>1 DEF OpenedRecord

(* What a session opened is a record of its peer.                          *)
LEMMA OpenedIsRecord ==
  ASSUME SessionInv, NEW r \in Roles
  PROVE  /\ \A h \in DOMAIN sealed[Peer(r)] : sealed[Peer(r)][h] \in Record
         /\ \A k \in DOMAIN opened[r] :
              /\ opened[r][k][2] \in DOMAIN sealed[Peer(r)]
              /\ opened[r][k] = <<Peer(r), opened[r][k][2]>>
              /\ OpenedRecord(r, k) = sealed[Peer(r)][opened[r][k][2]]
              /\ OpenedRecord(r, k) \in Record
<1>1. sealed[Peer(r)] \in Seq(Record) /\ Located(r)
  BY RoleFacts DEF SessionInv, TypeOK
<1>2. opened[r] \in Seq(Roles \X (1..MaxSealed + 1))
  BY DEF SessionInv, TypeOK
<1>3. \A k \in DOMAIN opened[r] : opened[r][k] = <<opened[r][k][1], opened[r][k][2]>>
  BY <1>2
<1> QED
  BY <1>1, <1>3 DEF Located, OpenedRecord

(* An open adds one position to one log.                                   *)
OpenEffect(r, i, t) ==
  LET rec  == sealed[Peer(r)][i]
      last == Len(opened[r]) + 1
  IN  /\ rec \in Record /\ i \in DOMAIN sealed[Peer(r)]
      /\ rec.sequence = NextIn(r, rec.channel) /\ rec.epoch = epoch[r]
      /\ rec.direction = ReceiveDirection(r) /\ rec.epoch = epoch[Peer(r)]
      /\ opened'[r] = Append(opened[r], <<Peer(r), i>>)
      /\ opened' \in [Roles -> Seq(Roles \X (1..MaxSealed + 1))]
      /\ Len(opened[r]) \in Nat /\ DOMAIN opened[r] = 1..Len(opened[r])
      /\ DOMAIN opened'[r] = 1..last /\ Len(opened'[r]) = last
      /\ opened'[r][last] = <<Peer(r), i>>
      /\ \A k \in DOMAIN opened[r] : opened'[r][k] = opened[r][k]
      /\ \A k : k = last => OpenedRecord(r, k)' = rec
      /\ \A k \in DOMAIN opened[r] : OpenedRecord(r, k)' = OpenedRecord(r, k)
      /\ session' \in [Roles -> Session] /\ session'[r] = t
      /\ \A q \in Roles : q # r => opened'[q] = opened[q] /\ session'[q] = session[q]
      /\ sealed' = sealed /\ epoch' = epoch

(* Every successful open is such a step.                                   *)
LEMMA OpenFrame ==
  ASSUME SessionInv, NEW r \in Roles, NEW i, NEW t, Opening(r, i, t)
  PROVE  OpenEffect(r, i, t)
<1> DEFINE rec == sealed[Peer(r)][i]
<1>1. /\ session \in [Roles -> Session] /\ epoch \in [Roles -> Epochs]
      /\ sealed \in [Roles -> Seq(Record)]
      /\ opened \in [Roles -> Seq(Roles \X (1..MaxSealed + 1))]
      /\ t \in Session
      /\ session' = [session EXCEPT ![r] = t]
      /\ opened' = [opened EXCEPT ![r] = Append(@, <<Peer(r), i>>)]
      /\ sealed' = sealed /\ epoch' = epoch
      /\ i \in DOMAIN sealed[Peer(r)]
      /\ rec.sequence = NextIn(r, rec.channel) /\ rec.epoch = epoch[r]
  BY DEF SessionInv, TypeOK, Opening, Uses, NextIn, ReceiveContext
<1>2. /\ Peer(r) \in Roles /\ sealed[Peer(r)] \in Seq(Record)
      /\ Stamped(Peer(r)) /\ StateMeansFlags(Peer(r))
  BY <1>1, RoleFacts DEF SessionInv
<1>3. /\ rec \in Record /\ i \in 1..MaxSealed + 1
      /\ rec.direction = ReceiveDirection(r) /\ rec.epoch = epoch[Peer(r)]
  <2>1. i \in 1..Len(sealed[Peer(r)]) /\ Len(sealed[Peer(r)]) <= MaxSealed + 1
    BY <1>1, <1>2 DEF StateMeansFlags
  <2> QED
    BY <1>1, <1>2, <2>1, BoundAssumption DEF Stamped, ReceiveDirection
<1> HIDE DEF rec
<1>4. /\ opened[r] \in Seq(Roles \X (1..MaxSealed + 1))
      /\ <<Peer(r), i>> \in Roles \X (1..MaxSealed + 1)
  BY <1>1, <1>2, <1>3
<1>5. /\ Append(opened[r], <<Peer(r), i>>) \in Seq(Roles \X (1..MaxSealed + 1))
      /\ Len(opened[r]) \in Nat /\ DOMAIN opened[r] = 1..Len(opened[r])
      /\ Len(Append(opened[r], <<Peer(r), i>>)) = Len(opened[r]) + 1
      /\ DOMAIN Append(opened[r], <<Peer(r), i>>) = 1..Len(opened[r]) + 1
      /\ Append(opened[r], <<Peer(r), i>>)[Len(opened[r]) + 1] = <<Peer(r), i>>
      /\ \A k \in 1..Len(opened[r]) : Append(opened[r], <<Peer(r), i>>)[k] = opened[r][k]
  BY <1>4
<1>6. /\ opened' \in [Roles -> Seq(Roles \X (1..MaxSealed + 1))]
      /\ opened'[r] = Append(opened[r], <<Peer(r), i>>)
      /\ \A q \in Roles : q # r => opened'[q] = opened[q]
  BY <1>1, <1>5
<1>7. /\ DOMAIN opened'[r] = 1..Len(opened[r]) + 1 /\ Len(opened'[r]) = Len(opened[r]) + 1
      /\ opened'[r][Len(opened[r]) + 1] = <<Peer(r), i>>
      /\ \A k \in DOMAIN opened[r] : opened'[r][k] = opened[r][k]
  BY <1>5, <1>6
<1>8. /\ \A k : k = Len(opened[r]) + 1 => OpenedRecord(r, k)' = rec
      /\ \A k \in DOMAIN opened[r] : OpenedRecord(r, k)' = OpenedRecord(r, k)
  <2>1. \A k : k = Len(opened[r]) + 1 => OpenedRecord(r, k)' = sealed[Peer(r)][i]
    BY <1>1, <1>7 DEF OpenedRecord
  <2>2. \A k \in DOMAIN opened[r] : OpenedRecord(r, k)' = OpenedRecord(r, k)
    BY <1>1, <1>7 DEF OpenedRecord
  <2> QED
    BY <2>1, <2>2 DEF rec
<1>9. /\ session' \in [Roles -> Session] /\ session'[r] = t
      /\ \A q \in Roles : q # r => session'[q] = session[q]
  BY <1>1
<1>10. sealed' = sealed /\ epoch' = epoch
  BY <1>1
<1> QED
  BY <1>1, <1>3, <1>5, <1>6, <1>7, <1>8, <1>9, <1>10, Zenon DEF OpenEffect, rec

(* A failure changes at most one session, and no log.                      *)
LEMMA FailFrame ==
  ASSUME SessionInv, NEW r \in Roles, Failing(r)
  PROVE  /\ session' \in [Roles -> Session]
         /\ \A q \in Roles :
              \/ session'[q] = session[q]
              \/ /\ session[q].state \notin Terminal
                 /\ session'[q].state = "Failed" /\ Whole(session'[q])
                 /\ SameFlags(session[q], session'[q])
         /\ sealed' = sealed /\ opened' = opened /\ epoch' = epoch
<1>1. /\ session \in [Roles -> Session] /\ session[r] \in Session
      /\ session' = [session EXCEPT ![r] = Fail(session[r])]
      /\ sealed' = sealed /\ opened' = opened /\ epoch' = epoch
  BY DEF SessionInv, TypeOK, Failing
<1>2. session[r].state \in Terminal => Fail(session[r]) = session[r]
  BY <1>1, FailFacts, SessionIsLoose
<1>3. session[r].state \notin Terminal =>
        /\ Fail(session[r]) \in Session /\ Whole(Fail(session[r]))
        /\ Fail(session[r]).state = "Failed" /\ SameFlags(session[r], Fail(session[r]))
  BY <1>1, FailFacts, SessionIsLoose
<1>4. /\ session' \in [Roles -> Session] /\ session'[r] = Fail(session[r])
      /\ \A q \in Roles : q # r => session'[q] = session[q]
  BY <1>1, <1>2, <1>3
<1> QED
  BY <1>1, <1>2, <1>3, <1>4

-----------------------------------------------------------------------------
(* Sealing keeps the invariant.                                            *)

(* The types of the records in the logs.                                   *)
LEMMA TypesAfterSeal ==
  ASSUME SessionInv, NEW r \in Roles, NEW type, NEW channel, NEW n, NEW t,
         Sealing(r, type, channel, n, t)
  PROVE  /\ \A q \in Roles : \A k \in DOMAIN opened[q] :
              OpenedRecord(q, k)' = OpenedRecord(q, k)
         /\ \A ty : SealedType(r, ty)' <=> SealedType(r, ty) \/ ty = type
         /\ \A q \in Roles : \A ty : q # r => (SealedType(q, ty)' <=> SealedType(q, ty))
         /\ \A q \in Roles : \A ty : OpenedType(q, ty)' <=> OpenedType(q, ty)
<1> DEFINE last == Len(sealed[r]) + 1
           rec == NewRecord(r, type, channel, n)
<1>0. SealEffect(r, type, channel, n, t)
  BY SealFrame
<1>1. /\ opened' = opened /\ rec.type = type
      /\ Len(sealed[r]) \in Nat /\ DOMAIN sealed[r] = 1..Len(sealed[r])
      /\ DOMAIN sealed'[r] = 1..last /\ sealed'[r][last] = rec
      /\ \A q \in Roles : \A i \in DOMAIN sealed[q] :
           i \in DOMAIN sealed'[q] /\ sealed'[q][i] = sealed[q][i]
      /\ \A q \in Roles : q # r => sealed'[q] = sealed[q]
  BY <1>0 DEF SealEffect
<1> HIDE DEF rec
<1>2. \A q \in Roles : \A k \in DOMAIN opened[q] : OpenedRecord(q, k)' = OpenedRecord(q, k)
  BY <1>1, OpenedStays DEF SessionInv
<1>3. ASSUME NEW ty PROVE SealedType(r, ty)' <=> SealedType(r, ty) \/ ty = type
  <2>1. SealedType(r, ty)' <=> \E i \in 1..last : sealed'[r][i].type = ty
    BY <1>1 DEF SealedType
  <2>2. 1..last = DOMAIN sealed[r] \union {last}
    BY <1>1
  <2> HIDE DEF last
  <2> QED
    BY <1>1, <2>1, <2>2 DEF SealedType
<1>4. \A q \in Roles : \A ty : q # r => (SealedType(q, ty)' <=> SealedType(q, ty))
  BY <1>1 DEF SealedType
<1>5. \A q \in Roles : \A ty : OpenedType(q, ty)' <=> OpenedType(q, ty)
  BY <1>1, <1>2 DEF OpenedType
<1> QED
  BY <1>2, <1>3, <1>4, <1>5

(* Domains, keys, stamps and positions.                                    *)
LEMMA SealKeepsShape ==
  ASSUME SessionInv, NEW r \in Roles, NEW type, NEW channel, NEW n, NEW t,
         Sealing(r, type, channel, n, t)
  PROVE  /\ TypeOK' /\ ErasedExactly'
         /\ \A q \in Roles : Stamped(q)' /\ Located(q)'
<1> DEFINE last == Len(sealed[r]) + 1
           rec == NewRecord(r, type, channel, n)
<1>0. SealEffect(r, type, channel, n, t)
  BY SealFrame
<1>1. /\ rec.direction = SendDirection(r) /\ rec.epoch = epoch[r]
      /\ sealed' \in [Roles -> Seq(Record)]
      /\ Len(sealed[r]) \in Nat /\ DOMAIN sealed[r] = 1..Len(sealed[r])
      /\ DOMAIN sealed'[r] = 1..last /\ sealed'[r][last] = rec
      /\ \A q \in Roles : \A i \in DOMAIN sealed[q] :
           i \in DOMAIN sealed'[q] /\ sealed'[q][i] = sealed[q][i]
      /\ session' \in [Roles -> Session] /\ session'[r] = t
      /\ \A q \in Roles : q # r => /\ sealed'[q] = sealed[q]
                                   /\ session'[q] = session[q]
      /\ opened' = opened /\ epoch' = epoch
  BY <1>0 DEF SealEffect
<1> HIDE DEF rec
<1>2. TypeOK'
  BY <1>1 DEF SessionInv, TypeOK
<1>3. ErasedExactly'
  <2>1. Whole(t)
    BY DEF Sealing, Uses
  <2> SUFFICES ASSUME NEW q \in Roles PROVE Whole(session'[q])
    BY DEF ErasedExactly, Whole
  <2> QED
    BY <1>1, <2>1 DEF SessionInv, ErasedExactly, Whole
<1>4. ASSUME NEW q \in Roles PROVE Stamped(q)'
  <2>1. CASE q = r
    <3> SUFFICES ASSUME NEW i \in 1..last
                 PROVE  /\ sealed'[r][i].direction = SendDirection(r)
                        /\ sealed'[r][i].epoch = epoch[r]
      BY <1>1, <2>1 DEF Stamped
    <3>1. i \in DOMAIN sealed[r] \/ i = last
      BY <1>1
    <3> QED
      BY <1>1, <3>1 DEF SessionInv, Stamped
  <2>2. CASE q # r
    BY <1>1, <2>2 DEF SessionInv, Stamped
  <2> QED
    BY <2>1, <2>2
<1>5. ASSUME NEW q \in Roles PROVE Located(q)'
  <2>1. Located(q) /\ Peer(q) \in Roles
    BY RoleFacts DEF SessionInv
  <2> QED
    BY <1>1, <2>1 DEF Located
<1> QED
  BY <1>2, <1>3, <1>4, <1>5

(* Flags, states, and what they say of the logs.                           *)
LEMMA SealKeepsFlags ==
  ASSUME SessionInv, NEW r \in Roles, NEW type, NEW channel, NEW n, NEW t,
         Sealing(r, type, channel, n, t)
  PROVE  \A q \in Roles : FlagsMeanRecords(q)' /\ StateMeansFlags(q)' /\ Bound(q)'
<1> DEFINE s == session[r]
<1>0. SealEffect(r, type, channel, n, t)
  BY SealFrame
<1>1. /\ Len(sealed[r]) \in Nat /\ DOMAIN sealed[r] = 1..Len(sealed[r])
      /\ Len(sealed'[r]) = Len(sealed[r]) + 1
      /\ session'[r] = t /\ t \in Session /\ s \in Session
      /\ \A q \in Roles : q # r => /\ sealed'[q] = sealed[q]
                                   /\ session'[q] = session[q]
      /\ opened' = opened /\ epoch' = epoch
  BY <1>0 DEF SealEffect, SessionInv, TypeOK
<1>2. /\ FlagsMeanRecords(r) /\ StateMeansFlags(r) /\ Bound(r)
      /\ s.state \notin Terminal /\ SealMoves(s, type, t) /\ type \in RecordTypes
      /\ type \in {"data", "refresh"} => Len(sealed[r]) < MaxSealed
  BY DEF SessionInv, Sealing, Uses
<1>3. /\ \A q \in Roles : \A k \in DOMAIN opened[q] :
           OpenedRecord(q, k)' = OpenedRecord(q, k)
      /\ \A ty : SealedType(r, ty)' <=> SealedType(r, ty) \/ ty = type
      /\ \A q \in Roles : \A ty : q # r => (SealedType(q, ty)' <=> SealedType(q, ty))
      /\ \A q \in Roles : \A ty : OpenedType(q, ty)' <=> OpenedType(q, ty)
  BY TypesAfterSeal
<1>4. FlagsMeanRecords(r)'
  BY <1>1, <1>2, <1>3
  DEF FlagsMeanRecords, SealMoves, MaySeal, CanCommit, CanClose, CanSeal, SameFlags, Terminal,
      RecordTypes
<1>5. StateMeansFlags(r)'
  <2>1. Len(sealed[r]) <= MaxSealed /\ ~s.local_close_sent
    BY <1>2 DEF StateMeansFlags, SealMoves, MaySeal, CanCommit, CanClose, CanSeal, RecordTypes
  <2>2. type # "close" => Len(sealed'[r]) <= MaxSealed
    <3>1. CASE type = "commit"
      <4>1. sealed[r] = <<>>
        BY <1>2, <3>1 DEF StateMeansFlags, SealMoves, MaySeal, CanCommit
      <4> QED
        BY <1>1, <4>1, BoundAssumption
    <3>2. CASE type \in {"data", "refresh"}
      BY <1>1, <1>2, <3>2, BoundAssumption
    <3> QED
      BY <1>2, <3>1, <3>2 DEF RecordTypes
  <2>3. Len(sealed'[r]) <= MaxSealed + 1
    BY <1>1, <2>1, BoundAssumption
  <2>4. t.state = "Committing" => t.local_commit_sent
    BY <1>2 DEF SealMoves, MaySeal, CanSeal
  <2> QED
    BY <1>1, <1>2, <2>1, <2>2, <2>3, <2>4
    DEF StateMeansFlags, SealMoves, MaySeal, CanCommit, CanClose, CanSeal, SameFlags, Terminal
<1>6. ASSUME NEW q \in Roles PROVE Bound(q)'
  BY <1>1, <1>3 DEF SessionInv, Bound
<1>7. ASSUME NEW q \in Roles, q # r PROVE FlagsMeanRecords(q)' /\ StateMeansFlags(q)'
  BY <1>1, <1>3, <1>7 DEF SessionInv, FlagsMeanRecords, StateMeansFlags
<1> QED
  BY <1>4, <1>5, <1>6, <1>7

(* Sequence numbers: the new record has the next one, which no record of   *)
(* the log has and no record the peer opened.                              *)
LEMMA SealKeepsNumbers ==
  ASSUME SessionInv, NEW r \in Roles, NEW type, NEW channel, NEW n, NEW t,
         Sealing(r, type, channel, n, t)
  PROVE  \A q \in Roles : Numbered(q)' /\ Followed(q)'
<1> DEFINE last == Len(sealed[r]) + 1
           rec == NewRecord(r, type, channel, n)
           s == session[r]
           c == <<channel, SendDirection(r)>>
           next == s.usage[c].next_sequence
<1>0. SealEffect(r, type, channel, n, t)
  BY SealFrame
<1>1. /\ rec.channel = channel /\ rec.sequence = next /\ rec \in Record
      /\ Len(sealed[r]) \in Nat /\ DOMAIN sealed[r] = 1..Len(sealed[r])
      /\ DOMAIN sealed'[r] = 1..last /\ sealed'[r][last] = rec
      /\ \A q \in Roles : \A i \in DOMAIN sealed[q] :
           i \in DOMAIN sealed'[q] /\ sealed'[q][i] = sealed[q][i]
      /\ session'[r] = t
      /\ \A q \in Roles : q # r => sealed'[q] = sealed[q] /\ session'[q] = session[q]
      /\ opened' = opened
  BY <1>0 DEF SealEffect
<1>2. \A q \in Roles : \A k \in DOMAIN opened[q] : OpenedRecord(q, k)' = OpenedRecord(q, k)
  BY TypesAfterSeal
<1>3. /\ s \in Session /\ s.state \notin Terminal
      /\ t.state \notin Terminal => t.usage = [s.usage EXCEPT ![c] = Consume(s.usage[c], n)]
      /\ channel \in Channels
  BY DEF SessionInv, TypeOK, Sealing, Uses, SendContext
<1>4. /\ c \in Contexts /\ s.usage \in [Contexts -> Usage] /\ next \in Nat
      /\ \A i \in DOMAIN sealed[r] : /\ sealed[r][i].sequence \in Nat
                                     /\ sealed[r][i].channel \in Channels
      /\ \A ch \in Channels : <<ch, SendDirection(r)>> \in Contexts
  <2>1. c \in Contexts /\ \A ch \in Channels : <<ch, SendDirection(r)>> \in Contexts
    BY <1>3, RoleFacts DEF Contexts
  <2>2. s.usage \in [Contexts -> Usage] /\ next \in Nat
    BY <1>3, <2>1, LimitFacts DEF Session, Usage
  <2>3. \A i \in DOMAIN sealed[r] : sealed[r][i] \in Record
    BY DEF SessionInv, TypeOK
  <2>4. \A rr \in Record : rr.sequence \in Nat /\ rr.channel \in Channels
    BY LimitFacts DEF Record
  <2> QED
    BY <2>1, <2>2, <2>3, <2>4
<1>5. /\ Numbered(r) /\ Followed(r) /\ Followed(Peer(r)) /\ Located(Peer(r))
      /\ Peer(r) \in Roles /\ Peer(Peer(r)) = r
  BY RoleFacts DEF SessionInv
<1>6. \A i \in DOMAIN sealed[r] :
        sealed[r][i].sequence < s.usage[<<sealed[r][i].channel, SendDirection(r)>>].next_sequence
  BY <1>3, <1>5 DEF Numbered
<1>7. t.state \notin Terminal =>
        /\ t.usage[c].next_sequence = next + 1
        /\ \A d \in Contexts : d # c => t.usage[d] = s.usage[d]
  BY <1>3, <1>4 DEF Consume
<1> HIDE DEF rec, s, c
<1>8. Numbered(r)'
  <2>1. ASSUME NEW i \in 1..last, NEW j \in 1..last, i < j,
               sealed'[r][i].channel = sealed'[r][j].channel
        PROVE  sealed'[r][i].sequence < sealed'[r][j].sequence
    <3>1. i \in DOMAIN sealed[r] /\ sealed'[r][i] = sealed[r][i]
      BY <1>1, <2>1
    <3>2. CASE j = last
      BY <1>1, <1>6, <2>1, <3>1, <3>2 DEF c
    <3>3. CASE j # last
      <4>1. j \in DOMAIN sealed[r] /\ sealed'[r][j] = sealed[r][j]
        BY <1>1, <3>3
      <4> QED
        BY <1>5, <2>1, <3>1, <4>1 DEF Numbered
    <3> QED
      BY <3>2, <3>3
  <2>2. ASSUME t.state \notin Terminal, NEW i \in 1..last
        PROVE  sealed'[r][i].sequence
                 < t.usage[<<sealed'[r][i].channel, SendDirection(r)>>].next_sequence
    <3>1. CASE i = last
      BY <1>1, <1>4, <1>7, <2>2, <3>1 DEF c
    <3>2. CASE i # last
      <4>1. i \in DOMAIN sealed[r] /\ sealed'[r][i] = sealed[r][i]
        BY <1>1, <3>2
      <4>2. CASE sealed[r][i].channel = channel
        <5>1. sealed[r][i].sequence < s.usage[c].next_sequence
          BY <1>6, <4>1, <4>2 DEF c
        <5>2. sealed'[r][i].sequence < t.usage[c].next_sequence
          BY <1>4, <1>7, <2>2, <4>1, <5>1
        <5> QED
          BY <4>1, <4>2, <5>2 DEF c
      <4>3. CASE sealed[r][i].channel # channel
        <5>1. /\ <<sealed[r][i].channel, SendDirection(r)>> \in Contexts
              /\ <<sealed[r][i].channel, SendDirection(r)>> # c
          BY <1>4, <4>1, <4>3 DEF c
        <5> QED
          BY <1>6, <1>7, <2>2, <4>1, <5>1
      <4> QED
        BY <4>2, <4>3
    <3> QED
      BY <3>1, <3>2
  <2> QED
    BY <1>1, <2>1, <2>2 DEF Numbered
<1>9. Followed(r)'
  <2>1. t.state \notin Terminal =>
          \A ch \in Channels : t.usage[<<ch, ReceiveDirection(r)>>] = s.usage[<<ch, ReceiveDirection(r)>>]
    <3>1. \A ch \in Channels : /\ <<ch, ReceiveDirection(r)>> \in Contexts
                               /\ <<ch, ReceiveDirection(r)>> # c
      BY RoleFacts DEF Contexts, c
    <3> QED
      BY <1>7, <3>1
  <2>2. \A k \in DOMAIN opened[r] : OpenedRecord(r, k).channel \in Channels
    BY OpenedIsRecord DEF Record
  <2>3. \A h \in DOMAIN sealed[Peer(r)] : sealed[Peer(r)][h].channel \in Channels
    BY OpenedIsRecord DEF Record
  <2>4. sealed'[Peer(r)] = sealed[Peer(r)] /\ opened' = opened
    BY <1>1, RoleFacts
  <2>5. s.state \notin Terminal /\ session'[r] = t
    BY <1>1, <1>3 DEF s
  <2> SUFFICES ASSUME t.state \notin Terminal PROVE Followed(r)'
    BY <2>5 DEF Followed
  <2>6. \A ch \in Channels :
          session'[r].usage[<<ch, ReceiveDirection(r)>>].next_sequence = NextIn(r, ch)
    BY <2>1, <2>5 DEF NextIn, s
  <2>7. \A k \in DOMAIN opened[r] :
          OpenedRecord(r, k).sequence < NextIn(r, OpenedRecord(r, k).channel)
    BY <1>5, <2>5 DEF Followed, s
  <2>8. \A h \in DOMAIN sealed[Peer(r)] :
          sealed[Peer(r)][h].sequence < NextIn(r, sealed[Peer(r)][h].channel)
            => \E k \in DOMAIN opened[r] : opened[r][k] = <<Peer(r), h>>
    BY <1>5, <2>5 DEF Followed, s
  <2>9. \A ch \in Channels : \A q \in Nat :
          q < NextIn(r, ch) =>
            \E k \in DOMAIN opened[r] : /\ OpenedRecord(r, k).channel = ch
                                        /\ OpenedRecord(r, k).sequence = q
    BY <1>5, <2>5 DEF Followed, s
  <2> HIDE DEF Followed
  <2>10. \A k \in DOMAIN opened[r] :
           OpenedRecord(r, k)'.sequence < NextIn(r, OpenedRecord(r, k).channel)'
    <3> TAKE k \in DOMAIN opened[r]
    <3>1. OpenedRecord(r, k)' = OpenedRecord(r, k)
      BY <1>2
    <3> QED
      BY <2>2, <2>6, <2>7, <3>1 DEF NextIn
  <2>11. \A h \in DOMAIN sealed[Peer(r)] :
           sealed'[Peer(r)][h].sequence < NextIn(r, sealed[Peer(r)][h].channel)'
             => \E k \in DOMAIN opened[r] : opened[r][k] = <<Peer(r), h>>
    BY <2>3, <2>4, <2>6, <2>8 DEF NextIn
  <2>12. \A ch \in Channels : \A q \in Nat :
           q < NextIn(r, ch)' =>
             \E k \in DOMAIN opened[r] : /\ OpenedRecord(r, k)'.channel = ch
                                         /\ OpenedRecord(r, k)'.sequence = q
    BY <1>2, <2>6, <2>9 DEF NextIn
  <2> QED
    BY <2>4, <2>10, <2>11, <2>12 DEF Followed
<1>10. Followed(Peer(r))'
  <2> DEFINE p == Peer(r)
  <2>1. /\ p \in Roles /\ Peer(p) = r
        /\ session'[p] = session[p] /\ opened' = opened
        /\ \A k \in DOMAIN opened[p] : OpenedRecord(p, k)' = OpenedRecord(p, k)
    BY <1>1, <1>2, <1>5, RoleFacts
  <2>a. ASSUME session[p].state \notin Terminal,
               \A h \in DOMAIN sealed'[r] :
                 sealed'[r][h].sequence < NextIn(p, sealed'[r][h].channel)
                   => \E k \in DOMAIN opened[p] : opened[p][k] = <<r, h>>
        PROVE  Followed(p)'
    <3> HIDE DEF p
    <3>1. Followed(p)
      BY <2>1 DEF SessionInv
    <3>2. \A k \in DOMAIN opened[p] :
            OpenedRecord(p, k)'.sequence < NextIn(p, OpenedRecord(p, k).channel)'
      BY <2>1, <2>a, <3>1 DEF Followed, NextIn
    <3>3. \A h \in DOMAIN sealed'[r] :
            sealed'[r][h].sequence < NextIn(p, sealed[r][h].channel)'
              => \E k \in DOMAIN opened[p] : opened[p][k] = <<r, h>>
      BY <2>1, <2>a DEF NextIn
    <3>4. \A ch \in Channels : \A q \in Nat :
            q < NextIn(p, ch)' =>
              \E k \in DOMAIN opened[p] : /\ OpenedRecord(p, k)'.channel = ch
                                          /\ OpenedRecord(p, k)'.sequence = q
      BY <2>1, <2>a, <3>1 DEF Followed, NextIn
    <3> QED
      BY <2>1, <3>2, <3>3, <3>4 DEF Followed
  <2>b. session[p].state \in Terminal => Followed(p)'
    BY <2>1 DEF Followed
  <2> SUFFICES ASSUME session[p].state \notin Terminal
               PROVE  \A h \in DOMAIN sealed'[r] :
                        sealed'[r][h].sequence < NextIn(p, sealed'[r][h].channel)
                          => \E k \in DOMAIN opened[p] : opened[p][k] = <<r, h>>
    BY <2>a, <2>b
  <2>2. ~(next < NextIn(p, channel))
    <3> SUFFICES ASSUME next < NextIn(p, channel) PROVE FALSE
      OBVIOUS
    <3>1. PICK k \in DOMAIN opened[p] : /\ OpenedRecord(p, k).channel = channel
                                        /\ OpenedRecord(p, k).sequence = next
      BY <1>3, <1>4, <1>5 DEF Followed
    <3>2. \E i \in DOMAIN sealed[r] : OpenedRecord(p, k) = sealed[r][i]
      BY <1>5 DEF Located, OpenedRecord
    <3> QED
      BY <1>4, <1>6, <3>1, <3>2 DEF c
  <2>3. TAKE h \in DOMAIN sealed'[r]
  <2>4. CASE h = last
    BY <1>1, <2>2, <2>4
  <2>5. CASE h # last
    <3>1. h \in DOMAIN sealed[r] /\ sealed'[r][h] = sealed[r][h]
      BY <1>1, <2>5
    <3> QED
      BY <1>5, <3>1 DEF Followed
  <2> QED
    BY <2>4, <2>5
<1>11. Numbered(Peer(r))'
  <2>1. Peer(r) # r
    BY RoleFacts
  <2> QED
    BY <1>1, <1>5, <2>1 DEF SessionInv, Numbered
<1> QED
  BY <1>8, <1>9, <1>10, <1>11, RoleFacts

(* The order of what was opened, and the place of the close.               *)
LEMMA SealKeepsOrder ==
  ASSUME SessionInv, NEW r \in Roles, NEW type, NEW channel, NEW n, NEW t,
         Sealing(r, type, channel, n, t)
  PROVE  InOrder' /\ CloseIsLast'
<1> DEFINE last == Len(sealed[r]) + 1
<1>0. SealEffect(r, type, channel, n, t)
  BY SealFrame
<1>1. /\ Len(sealed[r]) \in Nat /\ DOMAIN sealed[r] = 1..Len(sealed[r])
      /\ DOMAIN sealed'[r] = 1..last /\ Len(sealed'[r]) = last
      /\ \A q \in Roles : \A i \in DOMAIN sealed[q] :
           i \in DOMAIN sealed'[q] /\ sealed'[q][i] = sealed[q][i]
      /\ \A q \in Roles : q # r => sealed'[q] = sealed[q]
      /\ opened' = opened
  BY <1>0 DEF SealEffect
<1>2. \A q \in Roles : \A k \in DOMAIN opened[q] : OpenedRecord(q, k)' = OpenedRecord(q, k)
  BY TypesAfterSeal
<1>3. InOrder'
  <2>1. ASSUME NEW q \in Roles, NEW k \in DOMAIN opened[q]
        PROVE  /\ opened[q][k][2] \in DOMAIN sealed[Peer(q)]
               /\ \A h \in 1..opened[q][k][2] - 1 : h \in DOMAIN sealed[Peer(q)]
    <3>1. /\ Located(q) /\ sealed[Peer(q)] \in Seq(Record)
      BY RoleFacts DEF SessionInv, TypeOK
    <3> QED
      BY <3>1 DEF Located
  <2>2. \A q \in Roles : \A h \in DOMAIN sealed[Peer(q)] : sealed'[Peer(q)][h] = sealed[Peer(q)][h]
    BY <1>1, RoleFacts
  <2>3. ASSUME NEW q \in Roles, NEW k \in DOMAIN opened[q]
        PROVE  InPlace(opened[q], sealed'[Peer(q)], Peer(q), k)
    <3>1. InPlace(opened[q], sealed[Peer(q)], Peer(q), k)
      BY InOrderMeans DEF SessionInv, AllInPlace
    <3> QED
      BY <2>1, <2>2, <3>1 DEF InPlace
  <2>4. opened' = opened
    BY <1>1
  <2> QED
    BY <2>3, <2>4, InOrderMeans DEF AllInPlace
<1>4. ASSUME NEW i \in DOMAIN sealed'[r], sealed'[r][i].type = "close" PROVE i = last
  <2> SUFFICES ASSUME i # last PROVE FALSE
    OBVIOUS
  <2>1. i \in DOMAIN sealed[r] /\ sealed[r][i].type = "close"
    BY <1>1, <1>4
  <2>2. SealedType(r, "close")
    BY <2>1 DEF SealedType
  <2>3. /\ FlagsMeanRecords(r) /\ StateMeansFlags(r)
        /\ session[r].state \notin Terminal /\ MaySeal(session[r], type) /\ type \in RecordTypes
    BY DEF SessionInv, Sealing, SealMoves, Uses
  <2>4. session[r].local_close_sent
    BY <2>2, <2>3 DEF FlagsMeanRecords
  <2> QED
    BY <2>3, <2>4 DEF StateMeansFlags, MaySeal, CanCommit, CanClose, CanSeal, RecordTypes
<1>5. ASSUME NEW q \in Roles, session'[q].state = "Closed"
      PROVE  SealedType(q, "close")' /\ OpenedType(q, "close")'
  BY <1>5, SealKeepsFlags DEF FlagsMeanRecords, StateMeansFlags
<1>6. CloseIsLast'
  BY <1>1, <1>2, <1>4, <1>5 DEF SessionInv, CloseIsLast, SealedType, OpenedType
<1> QED
  BY <1>3, <1>6

-----------------------------------------------------------------------------
(* Opening keeps the invariant.                                            *)

(* The types of the records in the logs.                                   *)
LEMMA TypesAfterOpen ==
  ASSUME SessionInv, NEW r \in Roles, NEW i, NEW t, Opening(r, i, t)
  PROVE  /\ \A q \in Roles : \A k \in DOMAIN opened[q] :
              OpenedRecord(q, k)' = OpenedRecord(q, k)
         /\ \A q \in Roles : \A ty : SealedType(q, ty)' <=> SealedType(q, ty)
         /\ \A ty : OpenedType(r, ty)' <=> OpenedType(r, ty) \/ ty = sealed[Peer(r)][i].type
         /\ \A q \in Roles : \A ty : q # r => (OpenedType(q, ty)' <=> OpenedType(q, ty))
<1> DEFINE last == Len(opened[r]) + 1
           rec == sealed[Peer(r)][i]
<1>0. OpenEffect(r, i, t)
  BY OpenFrame
<1>1. /\ sealed' = sealed
      /\ Len(opened[r]) \in Nat /\ DOMAIN opened[r] = 1..Len(opened[r])
      /\ DOMAIN opened'[r] = 1..last
      /\ \A k : k = last => OpenedRecord(r, k)' = rec
      /\ \A k \in DOMAIN opened[r] : OpenedRecord(r, k)' = OpenedRecord(r, k)
      /\ \A q \in Roles : q # r => opened'[q] = opened[q]
  BY <1>0 DEF OpenEffect
<1>2. \A q \in Roles : \A k \in DOMAIN opened[q] : OpenedRecord(q, k)' = OpenedRecord(q, k)
  <2> TAKE q \in Roles
  <2>1. CASE q = r
    BY <1>1, <2>1
  <2>2. CASE q # r
    BY <1>1, <2>2 DEF OpenedRecord
  <2> QED
    BY <2>1, <2>2
<1>3. \A q \in Roles : \A ty : SealedType(q, ty)' <=> SealedType(q, ty)
  BY <1>1 DEF SealedType
<1>4. ASSUME NEW ty PROVE OpenedType(r, ty)' <=> OpenedType(r, ty) \/ ty = rec.type
  <2>1. OpenedType(r, ty)' <=> \E k \in 1..last : OpenedRecord(r, k)'.type = ty
    BY <1>1 DEF OpenedType
  <2>2. 1..last = DOMAIN opened[r] \union {last}
    BY <1>1
  <2> HIDE DEF last, rec
  <2>3. OpenedType(r, ty)' <=>
          (\E k \in DOMAIN opened[r] : OpenedRecord(r, k)'.type = ty) \/ rec.type = ty
    BY <1>1, <2>1, <2>2
  <2> QED
    BY <1>1, <2>3 DEF OpenedType
<1>5. \A q \in Roles : \A ty : q # r => (OpenedType(q, ty)' <=> OpenedType(q, ty))
  BY <1>1, <1>2 DEF OpenedType
<1> QED
  BY <1>2, <1>3, <1>4, <1>5

(* Domains, keys, stamps and positions.                                    *)
LEMMA OpenKeepsShape ==
  ASSUME SessionInv, NEW r \in Roles, NEW i, NEW t, Opening(r, i, t)
  PROVE  /\ TypeOK' /\ ErasedExactly'
         /\ \A q \in Roles : Stamped(q)' /\ Located(q)'
<1> DEFINE last == Len(opened[r]) + 1
<1>0. OpenEffect(r, i, t)
  BY OpenFrame
<1>1. /\ i \in DOMAIN sealed[Peer(r)] /\ sealed' = sealed /\ epoch' = epoch
      /\ Len(opened[r]) \in Nat /\ DOMAIN opened[r] = 1..Len(opened[r])
      /\ DOMAIN opened'[r] = 1..last /\ opened'[r][last] = <<Peer(r), i>>
      /\ \A k \in DOMAIN opened[r] : opened'[r][k] = opened[r][k]
      /\ opened' \in [Roles -> Seq(Roles \X (1..MaxSealed + 1))]
      /\ session' \in [Roles -> Session] /\ session'[r] = t
      /\ \A q \in Roles : q # r => opened'[q] = opened[q] /\ session'[q] = session[q]
  BY <1>0 DEF OpenEffect
<1>2. TypeOK'
  BY <1>1 DEF SessionInv, TypeOK
<1>3. ErasedExactly'
  <2>1. Whole(t)
    BY DEF Opening, Uses
  <2> SUFFICES ASSUME NEW q \in Roles PROVE Whole(session'[q])
    BY DEF ErasedExactly, Whole
  <2> QED
    BY <1>1, <2>1 DEF SessionInv, ErasedExactly, Whole
<1>4. \A q \in Roles : Stamped(q)'
  BY <1>1 DEF SessionInv, Stamped
<1>5. ASSUME NEW q \in Roles PROVE Located(q)'
  <2>1. Located(q)
    BY DEF SessionInv
  <2>2. CASE q = r
    <3>1. \A k \in 1..last : k \in DOMAIN opened[r] \/ k = last
      BY <1>1
    <3>2. \A k \in 1..last : /\ opened'[r][k][1] = Peer(r)
                              /\ opened'[r][k][2] \in DOMAIN sealed'[Peer(r)]
      <4> TAKE k \in 1..last
      <4>1. CASE k = last
        BY <1>1, <4>1
      <4>2. CASE k \in DOMAIN opened[r]
        BY <1>1, <2>1, <2>2, <4>2 DEF Located
      <4> QED
        BY <3>1, <4>1, <4>2
    <3> HIDE DEF last
    <3> QED
      BY <1>1, <2>2, <3>2 DEF Located
  <2>3. CASE q # r
    BY <1>1, <2>1, <2>3 DEF Located
  <2> QED
    BY <2>2, <2>3
<1> QED
  BY <1>2, <1>3, <1>4, <1>5

(* Flags, states, and what they say of the logs.                           *)
LEMMA OpenKeepsFlags ==
  ASSUME SessionInv, NEW r \in Roles, NEW i, NEW t, Opening(r, i, t)
  PROVE  \A q \in Roles : FlagsMeanRecords(q)' /\ StateMeansFlags(q)' /\ Bound(q)'
<1> DEFINE s == session[r]
           last == Len(opened[r]) + 1
           rec == sealed[Peer(r)][i]
<1>0. OpenEffect(r, i, t)
  BY OpenFrame
<1>1. /\ Len(opened[r]) \in Nat /\ DOMAIN opened[r] = 1..Len(opened[r])
      /\ DOMAIN opened'[r] = 1..last
      /\ \A k : k = last => OpenedRecord(r, k)' = rec
      /\ session'[r] = t /\ t \in Session /\ s \in Session
      /\ rec.epoch = epoch[r] /\ rec.epoch = epoch[Peer(r)]
      /\ \A q \in Roles : q # r => opened'[q] = opened[q] /\ session'[q] = session[q]
      /\ sealed' = sealed /\ epoch' = epoch
  BY <1>0 DEF OpenEffect, SessionInv, TypeOK
<1>2. /\ FlagsMeanRecords(r) /\ StateMeansFlags(r) /\ Bound(r)
      /\ s.state \notin Terminal /\ OpenMoves(s, rec.type, t)
  BY DEF SessionInv, Opening, Uses
<1>3. /\ \A q \in Roles : \A k \in DOMAIN opened[q] :
           OpenedRecord(q, k)' = OpenedRecord(q, k)
      /\ \A q \in Roles : \A ty : SealedType(q, ty)' <=> SealedType(q, ty)
      /\ \A ty : OpenedType(r, ty)' <=> OpenedType(r, ty) \/ ty = rec.type
      /\ \A q \in Roles : \A ty : q # r => (OpenedType(q, ty)' <=> OpenedType(q, ty))
  BY TypesAfterOpen
<1> HIDE DEF rec, s
<1>4. FlagsMeanRecords(r)'
  BY <1>1, <1>2, <1>3 DEF FlagsMeanRecords, OpenMoves, SameFlags, Terminal, s
<1>5. StateMeansFlags(r)'
  BY <1>1, <1>2 DEF StateMeansFlags, OpenMoves, SameFlags, Terminal, s
<1>6. Bound(r)'
  <2>1. epoch'[r] = epoch'[Peer(r)]
    BY <1>1
  <2>2. rec.type # "commit" => SealedType(r, "commit") /\ OpenedType(r, "commit")
    BY <1>2 DEF OpenMoves, StateMeansFlags, FlagsMeanRecords, s
  <2>3. ASSUME NEW k \in 1..last, OpenedRecord(r, k)'.type # "commit"
        PROVE  SealedType(r, "commit")' /\ OpenedType(r, "commit")'
    <3>1. CASE k = last
      BY <1>1, <1>3, <2>2, <2>3, <3>1
    <3>2. CASE k # last
      <4>1. k \in DOMAIN opened[r]
        BY <1>1, <3>2
      <4> QED
        BY <1>2, <1>3, <2>3, <4>1 DEF Bound
    <3> QED
      BY <3>1, <3>2
  <2> QED
    BY <1>1, <2>1, <2>3 DEF Bound
<1>7. ASSUME NEW q \in Roles, q # r
      PROVE  FlagsMeanRecords(q)' /\ StateMeansFlags(q)' /\ Bound(q)'
  BY <1>1, <1>3, <1>7 DEF SessionInv, FlagsMeanRecords, StateMeansFlags, Bound
<1> QED
  BY <1>4, <1>5, <1>6, <1>7

(* Sequence numbers: the opened record is the one with the next number of  *)
(* its channel.                                                            *)
LEMMA OpenKeepsNumbers ==
  ASSUME SessionInv, NEW r \in Roles, NEW i, NEW t, Opening(r, i, t)
  PROVE  \A q \in Roles : Numbered(q)' /\ Followed(q)'
<1> DEFINE s == session[r]
           p == Peer(r)
           last == Len(opened[r]) + 1
           rec == sealed[p][i]
           c == <<rec.channel, ReceiveDirection(r)>>
           next == NextIn(r, rec.channel)
<1>0. OpenEffect(r, i, t)
  BY OpenFrame
<1>1. /\ rec \in Record /\ i \in DOMAIN sealed[p] /\ rec.sequence = next
      /\ Len(opened[r]) \in Nat /\ DOMAIN opened[r] = 1..Len(opened[r])
      /\ DOMAIN opened'[r] = 1..last /\ opened'[r][last] = <<p, i>>
      /\ \A k \in DOMAIN opened[r] : opened'[r][k] = opened[r][k]
      /\ \A k : k = last => OpenedRecord(r, k)' = rec
      /\ \A k \in DOMAIN opened[r] : OpenedRecord(r, k)' = OpenedRecord(r, k)
      /\ session'[r] = t
      /\ \A q \in Roles : q # r => opened'[q] = opened[q] /\ session'[q] = session[q]
      /\ sealed' = sealed
  BY <1>0 DEF OpenEffect
<1>2. /\ s \in Session /\ s.state \notin Terminal
      /\ t.state \notin Terminal =>
           t.usage = [s.usage EXCEPT ![c] = Consume(s.usage[c], rec.plaintext_len)]
  BY DEF SessionInv, TypeOK, Opening, Uses, ReceiveContext
<1>3. /\ rec.channel \in Channels /\ c \in Contexts
      /\ s.usage \in [Contexts -> Usage] /\ next \in Nat /\ next = s.usage[c].next_sequence
      /\ \A ch \in Channels : /\ <<ch, SendDirection(r)>> \in Contexts
                              /\ <<ch, SendDirection(r)>> # c
                              /\ <<ch, ReceiveDirection(r)>> \in Contexts
                              /\ NextIn(r, ch) \in Nat
  <2>1. /\ rec.channel \in Channels /\ c \in Contexts
        /\ \A ch \in Channels : /\ <<ch, SendDirection(r)>> \in Contexts
                                /\ <<ch, SendDirection(r)>> # c
                                /\ <<ch, ReceiveDirection(r)>> \in Contexts
    BY <1>1, RoleFacts DEF Record, Contexts
  <2>2. \A d \in Contexts : s.usage[d] \in Usage /\ s.usage[d].next_sequence \in Nat
    BY <1>2, LimitFacts DEF Session, Usage
  <2> QED
    BY <1>2, <2>1, <2>2 DEF NextIn, Session
<1>4. t.state \notin Terminal =>
        /\ t.usage[c].next_sequence = next + 1
        /\ \A d \in Contexts : d # c => t.usage[d] = s.usage[d]
  BY <1>2, <1>3 DEF Consume
<1>5. /\ p \in Roles /\ Followed(r) /\ Numbered(p)
      /\ \A k \in DOMAIN opened[r] : OpenedRecord(r, k) \in Record
      /\ \A h \in DOMAIN sealed[p] : sealed[p][h] \in Record
  BY RoleFacts, OpenedIsRecord DEF SessionInv
<1>6. \A rr \in Record : rr.channel \in Channels /\ rr.sequence \in Nat
  BY LimitFacts DEF Record
<1>7. t.state \notin Terminal =>
        /\ \A ch : ch = rec.channel =>
             session'[r].usage[<<ch, ReceiveDirection(r)>>].next_sequence = next + 1
        /\ \A ch \in Channels : ch # rec.channel =>
             session'[r].usage[<<ch, ReceiveDirection(r)>>].next_sequence = NextIn(r, ch)
        /\ \A ch \in Channels :
             session'[r].usage[<<ch, SendDirection(r)>>] = session[r].usage[<<ch, SendDirection(r)>>]
  BY <1>1, <1>3, <1>4 DEF NextIn
<1> HIDE DEF rec, next
<1>8. \A q \in Roles : Numbered(q)'
  <2> TAKE q \in Roles
  <2>1. Numbered(q)
    BY DEF SessionInv
  <2>2. CASE q # r
    BY <1>1, <2>1, <2>2 DEF Numbered
  <2>3. CASE q = r /\ t.state \in Terminal
    BY <1>1, <2>1, <2>3 DEF Numbered
  <2>4. CASE q = r /\ t.state \notin Terminal
    <3>1. \A h \in DOMAIN sealed[r] : sealed[r][h].channel \in Channels
      <4>1. \A h \in DOMAIN sealed[r] : sealed[r][h] \in Record
        BY DEF SessionInv, TypeOK
      <4> QED
        BY <1>6, <4>1
    <3>2. \A h \in DOMAIN sealed[r] :
            session'[r].usage[<<sealed[r][h].channel, SendDirection(r)>>]
              = session[r].usage[<<sealed[r][h].channel, SendDirection(r)>>]
      BY <1>7, <2>4, <3>1
    <3> QED
      <4>1. \A h \in DOMAIN sealed[r] :
              sealed[r][h].sequence
                < session[r].usage[<<sealed[r][h].channel, SendDirection(r)>>].next_sequence
        BY <1>2, <2>1, <2>4 DEF Numbered
      <4>2. \A h \in DOMAIN sealed[r] :
              sealed[r][h].sequence
                < session'[r].usage[<<sealed[r][h].channel, SendDirection(r)>>].next_sequence
        BY <3>2, <4>1
      <4>3. sealed' = sealed
        BY <1>1
      <4> QED
        BY <2>1, <2>4, <4>2, <4>3 DEF Numbered
  <2> QED
    BY <2>2, <2>3, <2>4
<1>9. Followed(r)'
  <2> SUFFICES ASSUME t.state \notin Terminal PROVE Followed(r)'
    BY <1>1 DEF Followed
  <2>1. \A k \in DOMAIN opened[r] :
          OpenedRecord(r, k).sequence < NextIn(r, OpenedRecord(r, k).channel)
    BY <1>2, <1>5 DEF Followed
  <2>2. \A h \in DOMAIN sealed[p] :
          sealed[p][h].sequence < NextIn(r, sealed[p][h].channel)
            => \E k \in DOMAIN opened[r] : opened[r][k] = <<p, h>>
    BY <1>2, <1>5 DEF Followed
  <2>3. \A ch \in Channels : \A q \in Nat :
          q < NextIn(r, ch) =>
            \E k \in DOMAIN opened[r] : /\ OpenedRecord(r, k).channel = ch
                                        /\ OpenedRecord(r, k).sequence = q
    BY <1>2, <1>5 DEF Followed
  <2>4. \A k \in 1..last : k \in DOMAIN opened[r] \/ k = last
    BY <1>1
  <2>5. last \in 1..last /\ \A k \in DOMAIN opened[r] : k \in 1..last
    BY <1>1
  <2> HIDE DEF last
  <2>6. \A k \in 1..last :
          OpenedRecord(r, k)'.sequence < NextIn(r, OpenedRecord(r, k).channel)'
    <3> TAKE k \in 1..last
    <3>1. CASE k = last
      <4>1. OpenedRecord(r, k)' = rec
        BY <1>1, <3>1
      <4>2. rec.sequence
              < session'[r].usage[<<rec.channel, ReceiveDirection(r)>>].next_sequence
        BY <1>1, <1>3, <1>7
      <4> QED
        BY <4>1, <4>2 DEF NextIn
    <3>2. CASE k \in DOMAIN opened[r]
      <4>1. OpenedRecord(r, k)' = OpenedRecord(r, k)
        BY <1>1, <3>2
      <4>2. OpenedRecord(r, k).sequence
              < session'[r].usage[<<OpenedRecord(r, k).channel, ReceiveDirection(r)>>].next_sequence
        BY <1>3, <1>5, <1>6, <1>7, <2>1, <3>2 DEF next
      <4> QED
        BY <4>1, <4>2 DEF NextIn
    <3> QED
      BY <2>4, <3>1, <3>2
  <2>7. \A h \in DOMAIN sealed[p] :
          sealed[p][h].sequence
            < session'[r].usage[<<sealed[p][h].channel, ReceiveDirection(r)>>].next_sequence
              => \E k \in 1..last : opened'[r][k] = <<p, h>>
    <3> TAKE h \in DOMAIN sealed[p]
    <3>1. CASE sealed[p][h].sequence < NextIn(r, sealed[p][h].channel)
      <4>1. PICK k \in DOMAIN opened[r] : opened[r][k] = <<p, h>>
        BY <2>2, <3>1
      <4> QED
        BY <1>1, <2>5, <4>1
    <3>2. CASE ~(sealed[p][h].sequence < NextIn(r, sealed[p][h].channel))
      <4> SUFFICES ASSUME sealed[p][h].sequence
                     < session'[r].usage[<<sealed[p][h].channel, ReceiveDirection(r)>>].next_sequence
                   PROVE  h = i
        BY <1>1, <2>5
      <4>1. sealed[p][h].channel = rec.channel
        BY <1>5, <1>6, <1>7, <3>2
      <4>2. sealed[p][h].sequence = rec.sequence
        BY <1>1, <1>3, <1>5, <1>6, <1>7, <3>2, <4>1 DEF next
      <4>3. h \in Nat /\ i \in Nat
        BY <1>1, <1>5 DEF SessionInv, TypeOK
      <4>4. rec.sequence \in Nat
        BY <1>1, <1>3
      <4>5. ~(h < i) /\ ~(i < h)
        BY <1>1, <1>5, <4>1, <4>2, <4>4 DEF Numbered, rec
      <4> QED
        BY <4>3, <4>5
    <3> QED
      BY <3>1, <3>2
  <2>8. \A ch \in Channels : \A q \in Nat :
          q < session'[r].usage[<<ch, ReceiveDirection(r)>>].next_sequence =>
            \E k \in 1..last : /\ OpenedRecord(r, k)'.channel = ch
                               /\ OpenedRecord(r, k)'.sequence = q
    <3> TAKE ch \in Channels
    <3> TAKE q \in Nat
    <3>1. CASE q < NextIn(r, ch)
      <4>1. PICK k \in DOMAIN opened[r] : /\ OpenedRecord(r, k).channel = ch
                                          /\ OpenedRecord(r, k).sequence = q
        BY <2>3, <3>1
      <4>2. k \in 1..last /\ OpenedRecord(r, k)' = OpenedRecord(r, k)
        BY <1>1, <2>5
      <4> QED
        BY <4>1, <4>2
    <3>2. CASE ~(q < NextIn(r, ch))
      <4> SUFFICES ASSUME q < session'[r].usage[<<ch, ReceiveDirection(r)>>].next_sequence
                   PROVE  ch = rec.channel /\ q = rec.sequence
        BY <1>1, <2>5
      <4>1. ch = rec.channel
        BY <1>7, <3>2
      <4> QED
        BY <1>1, <1>3, <1>7, <3>2, <4>1 DEF next
    <3> QED
      BY <3>1, <3>2
  <2>9. /\ sealed' = sealed /\ DOMAIN opened'[r] = 1..last
    BY <1>1
  <2> QED
    BY <2>6, <2>7, <2>8, <2>9 DEF Followed, NextIn
<1>10. ASSUME NEW q \in Roles, q # r PROVE Followed(q)'
  <2>1. /\ session'[q] = session[q] /\ opened'[q] = opened[q] /\ sealed' = sealed
        /\ \A k \in DOMAIN opened[q] : OpenedRecord(q, k)' = OpenedRecord(q, k)
    BY <1>1, <1>10 DEF OpenedRecord
  <2>2. Followed(q)
    BY DEF SessionInv
  <2>3. CASE session[q].state \in Terminal
    BY <2>1, <2>3 DEF Followed
  <2>4. CASE session[q].state \notin Terminal
    <3>1. \A k \in DOMAIN opened[q] :
            OpenedRecord(q, k)'.sequence < NextIn(q, OpenedRecord(q, k).channel)'
      BY <2>1, <2>2, <2>4 DEF Followed, NextIn
    <3>2. \A h \in DOMAIN sealed[Peer(q)] :
            sealed[Peer(q)][h].sequence < NextIn(q, sealed[Peer(q)][h].channel)'
              => \E k \in DOMAIN opened[q] : opened[q][k] = <<Peer(q), h>>
      BY <2>1, <2>2, <2>4 DEF Followed, NextIn
    <3>3. \A ch \in Channels : \A x \in Nat :
            x < NextIn(q, ch)' =>
              \E k \in DOMAIN opened[q] : /\ OpenedRecord(q, k)'.channel = ch
                                          /\ OpenedRecord(q, k)'.sequence = x
      BY <2>1, <2>2, <2>4 DEF Followed, NextIn
    <3> QED
      BY <2>1, <3>1, <3>2, <3>3 DEF Followed
  <2> QED
    BY <2>3, <2>4
<1> QED
  BY <1>8, <1>9, <1>10

(* The order of what was opened, and the place of the close.  That the     *)
(* record was not opened before and none of its channel was skipped is     *)
(* what the numbers are for.                                               *)
LEMMA OpenKeepsOrder ==
  ASSUME SessionInv, NEW r \in Roles, NEW i, NEW t, Opening(r, i, t)
  PROVE  InOrder' /\ CloseIsLast'
<1> DEFINE s == session[r]
           p == Peer(r)
           last == Len(opened[r]) + 1
           rec == sealed[p][i]
<1>0. OpenEffect(r, i, t)
  BY OpenFrame
<1>1. /\ rec \in Record /\ i \in DOMAIN sealed[p] /\ rec.sequence = NextIn(r, rec.channel)
      /\ Len(opened[r]) \in Nat /\ DOMAIN opened[r] = 1..Len(opened[r])
      /\ DOMAIN opened'[r] = 1..last /\ Len(opened'[r]) = last
      /\ opened'[r][last] = <<p, i>>
      /\ \A k \in DOMAIN opened[r] : opened'[r][k] = opened[r][k]
      /\ \A q \in Roles : q # r => opened'[q] = opened[q]
      /\ sealed' = sealed
  BY <1>0 DEF OpenEffect
<1>2. s.state \notin Terminal /\ OpenMoves(s, rec.type, t)
  BY DEF Opening, Uses
<1>3. p \in Roles /\ Followed(r) /\ Numbered(p) /\ sealed[p] \in Seq(Record)
  BY RoleFacts DEF SessionInv, TypeOK
<1>4. rec.sequence \in Nat /\ i \in Nat
  BY <1>1, <1>3, LimitFacts DEF Record
<1>5. \A q \in Roles : \A k \in DOMAIN opened[q] :
        InPlace(opened[q], sealed[Peer(q)], Peer(q), k)
  BY InOrderMeans DEF SessionInv, AllInPlace
<1>6. InPlace(opened'[r], sealed[p], p, last)
  <2>1. \A j \in 1..last - 1 : j \in DOMAIN opened[r] /\ opened'[r][j] = opened[r][j]
    BY <1>1
  <2>2. ASSUME NEW j \in 1..last - 1 PROVE opened'[r][j] # <<p, i>>
    <3> SUFFICES ASSUME opened[r][j] = <<p, i>> PROVE FALSE
      BY <2>1
    <3>1. OpenedRecord(r, j) = rec
      BY DEF OpenedRecord
    <3>2. rec.sequence < NextIn(r, rec.channel)
      BY <1>2, <1>3, <2>1, <3>1 DEF Followed
    <3> QED
      BY <1>1, <1>4, <3>2
  <2>3. ASSUME NEW h \in 1..i - 1, sealed[p][h].channel = rec.channel
        PROVE  \E j \in 1..last - 1 : opened'[r][j] = <<p, h>>
    <3>1. h \in DOMAIN sealed[p] /\ h < i
      BY <1>1, <1>3
    <3>2. sealed[p][h].sequence < rec.sequence
      BY <1>1, <1>3, <2>3, <3>1 DEF Numbered
    <3>3. PICK j \in DOMAIN opened[r] : opened[r][j] = <<p, h>>
      <4>1. sealed[p][h].sequence < NextIn(r, sealed[p][h].channel)
        BY <1>1, <2>3, <3>2
      <4> QED
        BY <1>2, <1>3, <3>1, <4>1 DEF Followed
    <3>4. j \in 1..last - 1
      BY <1>1
    <3> QED
      BY <2>1, <3>3, <3>4
  <2> HIDE DEF last, rec
  <2>4. opened'[r][last] = <<p, i>>
    BY <1>1
  <2>5. \A h \in 1..i - 1 : sealed[p][h].channel = sealed[p][i].channel
          => \E j \in 1..last - 1 : opened'[r][j] = <<p, h>>
    BY <2>3 DEF rec
  <2>6. /\ opened'[r][last][1] = p /\ opened'[r][last][2] = i
        /\ \A j \in 1..last - 1 : opened'[r][j] # opened'[r][last]
    BY <2>2, <2>4
  <2> QED
    BY <2>5, <2>6 DEF InPlace
<1>7. ASSUME NEW k \in DOMAIN opened[r] PROVE InPlace(opened'[r], sealed[p], p, k)
  <2>1. \A j \in 1..k : j \in DOMAIN opened[r] /\ opened'[r][j] = opened[r][j]
    BY <1>1
  <2>2. k \in 1..k /\ \A j \in 1..k - 1 : j \in 1..k
    BY <1>1
  <2>3. InPlace(opened[r], sealed[p], p, k)
    BY <1>5
  <2> QED
    BY <2>1, <2>2, <2>3 DEF InPlace
<1>8. \A k \in 1..last : k \in DOMAIN opened[r] \/ k = last
  BY <1>1
<1>9. InOrder'
  <2> HIDE DEF last
  <2>1. \A q \in Roles : \A k \in DOMAIN opened'[q] :
          InPlace(opened'[q], sealed[Peer(q)], Peer(q), k)
    <3> TAKE q \in Roles
    <3>1. CASE q = r
      BY <1>1, <1>6, <1>7, <1>8, <3>1
    <3>2. CASE q # r
      BY <1>1, <1>5, <3>2
    <3> QED
      BY <3>1, <3>2
  <2>2. sealed' = sealed
    BY <1>1
  <2> QED
    BY <2>1, <2>2, InOrderMeans DEF AllInPlace
<1>10. \A k \in DOMAIN opened'[r] : OpenedRecord(r, k)'.type = "close" => k = last
  <2> SUFFICES ASSUME NEW k \in DOMAIN opened[r], OpenedRecord(r, k)'.type = "close"
               PROVE  FALSE
    BY <1>1, <1>8
  <2>1. OpenedRecord(r, k) = OpenedRecord(r, k)'
    BY TypesAfterOpen
  <2>2. OpenedType(r, "close") /\ FlagsMeanRecords(r) /\ StateMeansFlags(r)
    BY <2>1 DEF OpenedType, SessionInv
  <2>3. s.peer_close_received
    BY <1>2, <2>2 DEF FlagsMeanRecords
  <2> HIDE DEF s
  <2> QED
    BY <1>2, <2>2, <2>3 DEF StateMeansFlags, OpenMoves, s
<1>11. ASSUME NEW q \in Roles, session'[q].state = "Closed"
       PROVE  SealedType(q, "close")' /\ OpenedType(q, "close")'
  BY <1>11, OpenKeepsFlags DEF FlagsMeanRecords, StateMeansFlags
<1>12. CloseIsLast'
  <2>1. \A q \in Roles : \A k \in DOMAIN opened'[q] :
          OpenedRecord(q, k)'.type = "close" => k = Len(opened'[q])
    <3> TAKE q \in Roles
    <3>1. CASE q = r
      BY <1>1, <1>10, <3>1
    <3>2. CASE q # r
      BY <1>1, <3>2, TypesAfterOpen DEF SessionInv, CloseIsLast
    <3> QED
      BY <3>1, <3>2
  <2>2. \A q \in Roles : \A h \in DOMAIN sealed'[q] :
          sealed'[q][h].type = "close" => h = Len(sealed'[q])
    BY <1>1 DEF SessionInv, CloseIsLast
  <2> QED
    BY <1>11, <2>1, <2>2 DEF CloseIsLast, SealedType, OpenedType
<1> QED
  BY <1>9, <1>12

-----------------------------------------------------------------------------
(* A failure with no record keeps the invariant: the logs stay, and of the *)
(* session only what is said of an ended one.                              *)
LEMMA FailKeeps ==
  ASSUME SessionInv, NEW r \in Roles, Failing(r)
  PROVE  SessionInv'
<1>1. /\ session' \in [Roles -> Session]
      /\ \A q \in Roles :
           \/ session'[q] = session[q]
           \/ /\ session[q].state \notin Terminal
              /\ session'[q].state = "Failed" /\ Whole(session'[q])
              /\ SameFlags(session[q], session'[q])
      /\ sealed' = sealed /\ opened' = opened /\ epoch' = epoch
  BY FailFrame
<1>2. /\ \A q, k : OpenedRecord(q, k)' = OpenedRecord(q, k)
      /\ \A q, ty : /\ SealedType(q, ty)' <=> SealedType(q, ty)
                    /\ OpenedType(q, ty)' <=> OpenedType(q, ty)
  BY <1>1 DEF OpenedRecord, SealedType, OpenedType
<1>3. TypeOK' /\ ErasedExactly'
  <2>1. \A q \in Roles : Whole(session'[q])
    BY <1>1 DEF SessionInv, ErasedExactly, Whole
  <2> QED
    BY <1>1, <2>1 DEF SessionInv, TypeOK, ErasedExactly, Whole
<1>4. InOrder'
  <2>1. AllInPlace(opened, sealed)
    BY InOrderMeans DEF SessionInv
  <2> QED
    BY <1>1, <2>1, InOrderMeans
<1>5. CloseIsLast'
  BY <1>1, <1>2 DEF SessionInv, CloseIsLast
<1>6. ASSUME NEW q \in Roles PROVE Stamped(q)' /\ Located(q)' /\ Bound(q)'
  <2>1. Stamped(q) /\ Located(q) /\ Bound(q)
    BY DEF SessionInv
  <2> QED
    BY <1>1, <1>2, <2>1 DEF Stamped, Located, Bound
<1>7. ASSUME NEW q \in Roles PROVE FlagsMeanRecords(q)' /\ StateMeansFlags(q)'
  BY <1>1, <1>2 DEF SessionInv, FlagsMeanRecords, StateMeansFlags, SameFlags, Terminal
<1>8. ASSUME NEW q \in Roles PROVE Numbered(q)' /\ Followed(q)'
  <2>1. Numbered(q) /\ Followed(q)
    BY DEF SessionInv
  <2>2. CASE session'[q] = session[q]
    BY <1>1, <1>2, <2>1, <2>2 DEF Numbered, Followed, NextIn
  <2>3. CASE session'[q].state \in Terminal
    BY <1>1, <2>1, <2>3 DEF Numbered, Followed
  <2> QED
    BY <1>1, <2>2, <2>3 DEF Terminal
<1> QED
  BY <1>3, <1>4, <1>5, <1>6, <1>7, <1>8 DEF SessionInv

-----------------------------------------------------------------------------
(* The theorems.                                                           *)

(* Two fresh sessions satisfy the invariant.                               *)
LEMMA InitSessionInv == Init => SessionInv
<1> SUFFICES ASSUME Init PROVE SessionInv
  OBVIOUS
<1>1. /\ session = [r \in Roles |-> Fresh] /\ epoch \in [Roles -> Epochs]
      /\ sealed = [r \in Roles |-> <<>>] /\ opened = [r \in Roles |-> <<>>]
  BY DEF Init
<1>2. Fresh \in Session /\ Whole(Fresh)
  BY LimitFacts DEF Fresh, Session, States, Whole, Terminal
<1>3. \A r \in Roles : session[r] = Fresh /\ sealed[r] = <<>> /\ opened[r] = <<>>
  BY <1>1
<1>4. TypeOK
  BY <1>1, <1>2 DEF TypeOK
<1>5. ErasedExactly
  BY <1>2, <1>3 DEF ErasedExactly, Whole
<1>6. InOrder /\ CloseIsLast
  BY <1>3 DEF InOrder, CloseIsLast, Fresh
<1>7. ASSUME NEW r \in Roles
      PROVE  /\ Stamped(r) /\ Located(r) /\ FlagsMeanRecords(r) /\ StateMeansFlags(r)
             /\ Bound(r) /\ Numbered(r)
  <2>1. SealedType(r, "close") = FALSE /\ OpenedType(r, "close") = FALSE
    BY <1>3 DEF SealedType, OpenedType
  <2> QED
    BY <1>3, <2>1, BoundAssumption
    DEF Stamped, Located, FlagsMeanRecords, StateMeansFlags, Bound, Numbered, Fresh
<1>8. ASSUME NEW r \in Roles PROVE Followed(r)
  <2>1. \A channel \in Channels : NextIn(r, channel) = 0
    BY <1>3, RoleFacts DEF NextIn, Fresh, NoUsage, Contexts
  <2>2. sealed[Peer(r)] = <<>>
    BY <1>3, RoleFacts
  <2> QED
    BY <1>3, <2>1, <2>2 DEF Followed
<1> QED
  BY <1>4, <1>5, <1>6, <1>7, <1>8 DEF SessionInv

(* Every step keeps it.                                                    *)
LEMMA NextSessionInv == SessionInv /\ [Next]_vars => SessionInv'
<1> SUFFICES ASSUME SessionInv, [Next]_vars PROVE SessionInv'
  OBVIOUS
<1>1. CASE Next
  <2>1. PICK r \in Roles : \/ \E type, channel, n, t : Sealing(r, type, channel, n, t)
                           \/ \E i, t : Opening(r, i, t)
                           \/ Failing(r)
    BY <1>1, StepKinds DEF SessionInv
  <2>2. CASE \E type, channel, n, t : Sealing(r, type, channel, n, t)
    BY <2>2, SealKeepsShape, SealKeepsFlags, SealKeepsNumbers, SealKeepsOrder DEF SessionInv
  <2>3. CASE \E i, t : Opening(r, i, t)
    BY <2>3, OpenKeepsShape, OpenKeepsFlags, OpenKeepsNumbers, OpenKeepsOrder DEF SessionInv
  <2> QED
    BY <2>1, <2>2, <2>3, FailKeeps
<1>2. CASE UNCHANGED vars
  <2>1. session' = session /\ epoch' = epoch /\ sealed' = sealed /\ opened' = opened
    BY <1>2 DEF vars
  <2>2. /\ \A q, k : OpenedRecord(q, k)' = OpenedRecord(q, k)
        /\ \A q, ty : /\ SealedType(q, ty)' <=> SealedType(q, ty)
                      /\ OpenedType(q, ty)' <=> OpenedType(q, ty)
    BY <2>1 DEF OpenedRecord, SealedType, OpenedType
  <2>3. TypeOK' /\ ErasedExactly' /\ CloseIsLast'
    BY <2>1, <2>2 DEF SessionInv, TypeOK, ErasedExactly, CloseIsLast
  <2>4. InOrder'
    BY <2>1, InOrderMeans DEF SessionInv
  <2>5. ASSUME NEW q \in Roles
        PROVE  /\ Stamped(q)' /\ Located(q)' /\ Bound(q)'
               /\ FlagsMeanRecords(q)' /\ StateMeansFlags(q)'
    BY <2>1, <2>2 DEF SessionInv, Stamped, Located, Bound, FlagsMeanRecords, StateMeansFlags
  <2>6. ASSUME NEW q \in Roles PROVE Numbered(q)' /\ Followed(q)'
    <3>1. Numbered(q) /\ Followed(q)
      BY DEF SessionInv
    <3> QED
      BY <2>1, <2>2, <3>1 DEF Numbered, Followed, NextIn
  <2> QED
    BY <2>3, <2>4, <2>5, <2>6 DEF SessionInv
<1> QED
  BY <1>1, <1>2

(* The invariant holds whatever the network delivers.                      *)
THEOREM SessionInvariant == Spec => []SessionInv
<1> QED
  BY InitSessionInv, NextSessionInv, PTL DEF Spec

(* Every field keeps its domain, and no context of a session rests at a    *)
(* hard limit.                                                             *)
THEOREM SessionTypeCorrect == Spec => []TypeOK
<1>1. SessionInv => TypeOK
  BY DEF SessionInv
<1> QED
  BY <1>1, SessionInvariant, PTL

(* A session opens records of its peer only, each once, and on each channel*)
(* in the order they were sealed and without a gap, although the network   *)
(* drops, repeats, reorders and reflects.                                  *)
THEOREM OpensInOrder == Spec => []InOrder
<1>1. SessionInv => InOrder
  BY DEF SessionInv
<1> QED
  BY <1>1, SessionInvariant, PTL

(* Who left Committing without failing, or accepted anything but a commit, *)
(* shares the epoch of its peer, and both commits were exchanged.          *)
THEOREM CommitBindsPeers == Spec => []CommitBinds
<1>1. SessionInv => CommitBinds
  <2> SUFFICES ASSUME SessionInv, NEW r \in Roles,
                      \/ session[r].state \in {"Active", "Draining", "Closed"}
                      \/ \E k \in DOMAIN opened[r] : OpenedRecord(r, k).type # "commit"
               PROVE  /\ epoch[r] = epoch[Peer(r)]
                      /\ SealedType(r, "commit") /\ OpenedType(r, "commit")
    BY DEF CommitBinds, SealedType, OpenedType
  <2>1. Bound(r) /\ FlagsMeanRecords(r) /\ StateMeansFlags(r)
    BY DEF SessionInv
  <2>2. SealedType(r, "commit") /\ OpenedType(r, "commit")
    BY <2>1 DEF Bound, FlagsMeanRecords, StateMeansFlags
  <2>3. opened[r] # <<>>
    BY <2>2 DEF OpenedType
  <2> QED
    BY <2>1, <2>2, <2>3 DEF Bound
<1> QED
  BY <1>1, SessionInvariant, PTL

(* No two records of a channel and a sealer have one sequence number, so no*)
(* nonce is used twice under a traffic key, although erasing a session     *)
(* resets its numbers.                                                     *)
THEOREM NoncesUnique == Spec => []NonceOnce
<1>1. SessionInv => NonceOnce
  <2> SUFFICES ASSUME SessionInv, NEW r \in Roles,
                      NEW i \in DOMAIN sealed[r], NEW j \in DOMAIN sealed[r], i # j,
                      sealed[r][i].channel = sealed[r][j].channel
               PROVE  sealed[r][i].sequence # sealed[r][j].sequence
    BY DEF NonceOnce
  <2>1. sealed[r] \in Seq(Record) /\ Numbered(r)
    BY DEF SessionInv, TypeOK
  <2>2. i < j \/ j < i
    BY <2>1
  <2>3. /\ sealed[r][i] \in Record /\ sealed[r][j] \in Record
    BY <2>1
  <2>4. sealed[r][i].sequence \in Int /\ sealed[r][j].sequence \in Int
    BY <2>3, LimitFacts DEF Record
  <2> QED
    BY <2>1, <2>2, <2>4 DEF Numbered
<1> QED
  BY <1>1, SessionInvariant, PTL

(* The keys are there exactly until the session ends, on every path that   *)
(* ends it: error, abort, hard limit, and close from either side.          *)
THEOREM KeysErased == Spec => []ErasedExactly
<1>1. SessionInv => ErasedExactly
  BY DEF SessionInv
<1> QED
  BY <1>1, SessionInvariant, PTL

(* A close is the last record a session seals and the last it opens, and   *)
(* both were exchanged when it is Closed.                                  *)
THEOREM CloseEnds == Spec => []CloseIsLast
<1>1. SessionInv => CloseIsLast
  BY DEF SessionInv
<1> QED
  BY <1>1, SessionInvariant, PTL

=============================================================================
