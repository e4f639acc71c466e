---------------------------- MODULE InnerSession ----------------------------
(***************************************************************************)
(* Two inner-thread sessions, client and server, and the records between   *)
(* them (session.rs).  A session owns one AES-256-GCM context per channel  *)
(* and direction; a Guard commit from each side opens the data channels, a *)
(* Guard close from each side ends the session, and every error, and every *)
(* context at its hard limit, erases it.                                   *)
(*                                                                         *)
(* Every mutating method takes &mut self, so a call is one step.  What a   *)
(* session sealed stays in a log from which the network delivers: any      *)
(* record in any order and any number of times (Next), or each record once *)
(* and in order (OrderedNext).                                             *)
(***************************************************************************)
EXTENDS Integers, Sequences, FiniteSets

CONSTANTS
  DataChannels,  \* Menora, Chanukkia, Jom Kippur, Tzafah
  Guard,         \* the control channel
  Epochs,        \* an exporter secret together with an application context
  SoftRecords, HardRecords,  \* SOFT_RECORD_LIMIT, HARD_RECORD_LIMIT
  SoftBytes, HardBytes,      \* SOFT_BYTE_LIMIT, HARD_BYTE_LIMIT
  MaxPlaintext,  \* record::MAX_PLAINTEXT
  MaxSealed      \* bound: records a session seals before it closes

ASSUME ChannelAssumption == Guard \notin DataChannels
ASSUME RecordLimits == /\ SoftRecords \in Nat /\ HardRecords \in Nat
                       /\ 0 < SoftRecords /\ SoftRecords < HardRecords
ASSUME ByteLimits == /\ SoftBytes \in Nat /\ HardBytes \in Nat
                     /\ MaxPlaintext \in Nat
                     /\ 0 < SoftBytes /\ SoftBytes + MaxPlaintext <= HardBytes
ASSUME BoundAssumption == MaxSealed \in Nat \ {0}

VARIABLES
  session,  \* the Session of each endpoint
  epoch,    \* what each session was derived from
  sealed,   \* history: the records each session sealed, in order
  opened    \* history: the records each session opened, as <<sealer, position>>

vars == <<session, epoch, sealed, opened>>

Roles == {"client", "server"}
Channels == DataChannels \union {Guard}
Directions == {"client_to_server", "server_to_client"}
Contexts == Channels \X Directions
States == {"Committing", "Active", "Draining", "Closed", "Failed"}
Terminal == {"Closed", "Failed"}
RecordTypes == {"commit", "data", "refresh", "close"}

Peer(r) == IF r = "client" THEN "server" ELSE "client"
SendDirection(r) ==
  IF r = "client" THEN "client_to_server" ELSE "server_to_client"
ReceiveDirection(r) == SendDirection(Peer(r))

(* A context at a hard limit is erased in the call that reaches it.        *)
Usage == [next_sequence : 0..HardRecords - 1, records : 0..HardRecords - 1,
          plaintext_bytes : 0..HardBytes - 1]

(* keys: the traffic keys are there, not erased.                           *)
Session == [state : States, keys : BOOLEAN, usage : [Contexts -> Usage],
            local_commit_sent : BOOLEAN, peer_commit_received : BOOLEAN,
            local_close_sent : BOOLEAN, peer_close_received : BOOLEAN]

(* A record on the wire: its header, and what its tag authenticates        *)
(* besides: the direction, the secrets and the context of the sealer.      *)
Record == [type : RecordTypes, channel : Channels, sequence : 0..HardRecords - 1,
           plaintext_len : 0..MaxPlaintext, direction : Directions,
           epoch : Epochs]

-----------------------------------------------------------------------------
(* Usage accounting.                                                       *)

NoUsage == [next_sequence |-> 0, records |-> 0, plaintext_bytes |-> 0]

(* Mutant: the payload is not added before the bytes are compared.         *)
PermitsAnyPayload(u, n) == /\ u.records < HardRecords
                           /\ u.next_sequence < HardRecords
                           /\ u.plaintext_bytes <= HardBytes

Permits(u, n) == /\ u.records < HardRecords
                 /\ u.next_sequence < HardRecords
                 /\ u.plaintext_bytes + n <= HardBytes

(* Mutants: the sequence number stays; the bytes are not accumulated.      *)
ConsumeSameSequence(u, n) == [next_sequence   |-> u.next_sequence,
                              records         |-> u.records + 1,
                              plaintext_bytes |-> u.plaintext_bytes + n]
ConsumeLastPayload(u, n) == [next_sequence   |-> u.next_sequence + 1,
                             records         |-> u.records + 1,
                             plaintext_bytes |-> n]

Consume(u, n) == [next_sequence   |-> u.next_sequence + 1,
                  records         |-> u.records + 1,
                  plaintext_bytes |-> u.plaintext_bytes + n]

(* Mutant: the limit must be exceeded.                                     *)
HardLimitExceeded(u) == \/ u.next_sequence > HardRecords
                        \/ u.records > HardRecords
                        \/ u.plaintext_bytes > HardBytes

HardLimitReached(u) == \/ u.next_sequence >= HardRecords
                       \/ u.records >= HardRecords
                       \/ u.plaintext_bytes >= HardBytes

(* Mutant: the soft limits must be exceeded.                               *)
RefreshOverdue(s) ==
  \E c \in Contexts : \/ s.usage[c].records > SoftRecords
                      \/ s.usage[c].plaintext_bytes > SoftBytes

(* Session::refresh_due: any of the contexts reached a soft limit.         *)
RefreshDue(s) ==
  \E c \in Contexts : \/ s.usage[c].records >= SoftRecords
                      \/ s.usage[c].plaintext_bytes >= SoftBytes

-----------------------------------------------------------------------------
(* The ways a session ends.                                                *)

Erase(s) == [s EXCEPT !.keys = FALSE, !.usage = [c \in Contexts |-> NoUsage]]

(* Mutant: a failure overwrites Closed.                                    *)
FailAlways(s) == [Erase(s) EXCEPT !.state = "Failed"]

(* fail, abort and terminate_if_hard_limit_reached: Closed and Failed stay.*)
Fail(s) ==
  IF s.state \in Terminal THEN s ELSE [Erase(s) EXCEPT !.state = "Failed"]

(* Mutants: the secrets stay; one close is enough.                         *)
FinishCloseKeeping(s) ==
  IF s.local_close_sent /\ s.peer_close_received
  THEN [s EXCEPT !.state = "Closed"]
  ELSE s
FinishCloseEarly(s) ==
  IF s.local_close_sent \/ s.peer_close_received
  THEN [Erase(s) EXCEPT !.state = "Closed"]
  ELSE s

FinishClose(s) ==
  IF s.local_close_sent /\ s.peer_close_received
  THEN [Erase(s) EXCEPT !.state = "Closed"]
  ELSE s

(* What sealing and opening do to one context.                             *)
Charge(s, c, n) == [s EXCEPT !.usage[c] = Consume(s.usage[c], n)]

TerminateIf(s, reached) == IF reached THEN Fail(s) ELSE s

-----------------------------------------------------------------------------
(* Sealing.                                                                *)

CanCommit(s) == s.state = "Committing" /\ ~s.local_commit_sent
CanSeal(s) == s.state = "Active"

(* Mutants: a second close; no close in answer to the peer's.              *)
CanCloseTwice(s) ==
  s.state = "Active" \/ (s.state = "Draining" /\ s.peer_close_received)
  \/ (s.state = "Draining" /\ s.local_close_sent)
CanOnlyInitiateClose(s) == s.state = "Active" /\ ~s.local_close_sent

CanClose(s) ==
  /\ s.state = "Active" \/ (s.state = "Draining" /\ s.peer_close_received)
  /\ ~s.local_close_sent

SendContext(r, channel) == <<channel, SendDirection(r)>>

SealRaw(r, channel, n) ==
  LET s == session[r]
      c == SendContext(r, channel)
  IN  TerminateIf(Charge(s, c, n), HardLimitReached(Consume(s.usage[c], n)))

Emit(r, type, channel, n) ==
  /\ Permits(session[r].usage[SendContext(r, channel)], n)
  /\ sealed' = [sealed EXCEPT ![r] =
       Append(@, [type |-> type, channel |-> channel, plaintext_len |-> n,
                  sequence |-> session[r].usage[SendContext(r, channel)].next_sequence,
                  direction |-> SendDirection(r), epoch |-> epoch[r]])]
  /\ UNCHANGED <<epoch, opened>>

(* A record that reaches the hard limit is the last: the session failed    *)
(* when it is sent, and what the call would note next is not noted.        *)
AfterSeal(s, t) == IF s.state = "Failed" THEN s ELSE t

SealCommit(r) ==
  LET s == SealRaw(r, Guard, 0)
  IN  /\ CanCommit(session[r])
      /\ Emit(r, "commit", Guard, 0)
      /\ session' = [session EXCEPT ![r] = AfterSeal(s,
           [s EXCEPT !.local_commit_sent = TRUE,
                     !.state = IF s.peer_commit_received THEN "Active" ELSE @])]

SealData(r, channel, n) ==
  /\ CanSeal(session[r]) /\ Len(sealed[r]) < MaxSealed
  /\ Emit(r, "data", channel, n)
  /\ session' = [session EXCEPT ![r] = SealRaw(r, channel, n)]

SealRefresh(r) ==
  /\ CanSeal(session[r]) /\ Len(sealed[r]) < MaxSealed
  /\ Emit(r, "refresh", Guard, 0)
  /\ session' = [session EXCEPT ![r] = SealRaw(r, Guard, 0)]

SealClose(r) ==
  LET s == SealRaw(r, Guard, 0)
  IN  /\ CanClose(session[r])
      /\ Emit(r, "close", Guard, 0)
      /\ session' = [session EXCEPT ![r] = AfterSeal(s,
           FinishClose([s EXCEPT !.local_close_sent = TRUE,
                                 !.state = "Draining"]))]

(* A payload that would exceed the byte limit of its context.              *)
SealLimited(r, channel, n) ==
  /\ CanSeal(session[r])
  /\ ~Permits(session[r].usage[SendContext(r, channel)], n)
  /\ session' = [session EXCEPT ![r] = Fail(@)]
  /\ UNCHANGED <<epoch, sealed, opened>>

(* Any call the state does not allow, a payload above MaxPlaintext, input  *)
(* that does not parse, a cryptographic error, and abort.                  *)
Break(r) ==
  /\ session' = [session EXCEPT ![r] = Fail(@)]
  /\ UNCHANGED <<epoch, sealed, opened>>

-----------------------------------------------------------------------------
(* Opening.                                                                *)

SemanticallyValid(rec) ==
  CASE rec.type = "data" -> rec.channel # Guard
    [] OTHER             -> rec.channel = Guard /\ rec.plaintext_len = 0

(* Mutant: a close that crosses one's own is refused.                      *)
StateValidNoCrossing(s, rec) ==
  CASE rec.type \in {"data", "refresh"} -> s.state = "Active"
    [] rec.type = "commit" ->
         s.state = "Committing" /\ ~s.peer_commit_received
    [] rec.type = "close" -> s.state = "Active"

StateValid(s, rec) ==
  CASE rec.type \in {"data", "refresh"} -> s.state = "Active"
    [] rec.type = "commit" ->
         s.state = "Committing" /\ ~s.peer_commit_received
    [] rec.type = "close" ->
         s.state \in {"Active", "Draining"} /\ ~s.peer_close_received

ReceiveContext(r, rec) == <<rec.channel, ReceiveDirection(r)>>

(* Mutant: keys and AAD do not depend on the exporter epoch.               *)
AuthenticAnyEpoch(r, rec) == rec.direction = ReceiveDirection(r)

(* The tag verifies: same secrets, same context, and the direction in the  *)
(* keys and in the AAD.                                                    *)
Authentic(r, rec) ==
  rec.direction = ReceiveDirection(r) /\ rec.epoch = epoch[r]

(* Mutant: the sequence number is not compared.                            *)
AcceptableAnyOrder(r, rec) ==
  /\ SemanticallyValid(rec)
  /\ StateValid(session[r], rec)
  /\ Permits(session[r].usage[ReceiveContext(r, rec)], rec.plaintext_len)
  /\ Authentic(r, rec)

Acceptable(r, rec) ==
  LET u == session[r].usage[ReceiveContext(r, rec)]
  IN  /\ SemanticallyValid(rec)
      /\ StateValid(session[r], rec)
      /\ rec.sequence = u.next_sequence
      /\ Permits(u, rec.plaintext_len)
      /\ Authentic(r, rec)

(* Mutants: only the endpoint that seals last becomes active; the commit   *)
(* of the peer alone opens the channels.                                   *)
ApplyNotActivating(s, type) ==
  CASE type \in {"data", "refresh"} -> s
    [] type = "commit" -> [s EXCEPT !.peer_commit_received = TRUE]
    [] type = "close" ->
         FinishClose([s EXCEPT !.peer_close_received = TRUE,
                               !.state = "Draining"])

ApplyOpening(s, type) ==
  CASE type \in {"data", "refresh"} -> s
    [] type = "commit" -> [s EXCEPT !.peer_commit_received = TRUE,
                                    !.state = "Active"]
    [] type = "close" ->
         FinishClose([s EXCEPT !.peer_close_received = TRUE,
                               !.state = "Draining"])

(* The state the type of the record brings.                                *)
Apply(s, type) ==
  CASE type \in {"data", "refresh"} -> s
    [] type = "commit" ->
         [s EXCEPT !.peer_commit_received = TRUE,
                   !.state = IF s.local_commit_sent THEN "Active" ELSE @]
    [] type = "close" ->
         FinishClose([s EXCEPT !.peer_close_received = TRUE,
                               !.state = "Draining"])

Open(r, from, i) ==
  LET s   == session[r]
      rec == sealed[from][i]
      c   == ReceiveContext(r, rec)
      u   == Consume(s.usage[c], rec.plaintext_len)
  IN  /\ s.state \notin Terminal
      /\ Acceptable(r, rec)
      /\ session' = [session EXCEPT ![r] =
           TerminateIf(Apply(Charge(s, c, rec.plaintext_len), rec.type),
                       HardLimitReached(u))]
      /\ opened' = [opened EXCEPT ![r] = Append(@, <<from, i>>)]
      /\ UNCHANGED <<epoch, sealed>>

OpenRejected(r, from, i) ==
  /\ session[r].state \notin Terminal
  /\ ~Acceptable(r, sealed[from][i])
  /\ session' = [session EXCEPT ![r] = Fail(@)]
  /\ UNCHANGED <<epoch, sealed, opened>>

Deliver(r, from, i) == Open(r, from, i) \/ OpenRejected(r, from, i)

-----------------------------------------------------------------------------
Fresh == [state |-> "Committing", keys |-> TRUE,
          usage |-> [c \in Contexts |-> NoUsage],
          local_commit_sent |-> FALSE, peer_commit_received |-> FALSE,
          local_close_sent |-> FALSE, peer_close_received |-> FALSE]

Init ==
  /\ session = [r \in Roles |-> Fresh]
  /\ epoch \in [Roles -> Epochs]
  /\ sealed = [r \in Roles |-> <<>>]
  /\ opened = [r \in Roles |-> <<>>]

Seal(r) ==
  \/ SealCommit(r)
  \/ \E channel \in DataChannels, n \in 0..MaxPlaintext :
       SealData(r, channel, n) \/ SealLimited(r, channel, n)
  \/ SealRefresh(r)
  \/ SealClose(r)

(* A network that drops, repeats, reorders and reflects, and calls that    *)
(* break a session at any moment.                                          *)
Next ==
  \E r \in Roles :
    \/ Seal(r)
    \/ \E from \in Roles : \E i \in DOMAIN sealed[from] : Deliver(r, from, i)
    \/ Break(r)

Spec == Init /\ [][Next]_vars

(* An ordered transport, and callers that make only calls the state allows. *)
DeliverNext(r) ==
  /\ Len(opened[r]) < Len(sealed[Peer(r)])
  /\ Deliver(r, Peer(r), Len(opened[r]) + 1)

OrderedNext == \E r \in Roles : Seal(r) \/ DeliverNext(r)

OrderedSpec == Init /\ [][OrderedNext]_vars

(* The transport delivers, and the callers commit and answer a close: what *)
(* the adapter of integration/README.md has to provide for progress.       *)
Answer(r) == session[r].peer_close_received /\ SealClose(r)

FairOrderedSpec ==
  /\ OrderedSpec
  /\ \A r \in Roles : /\ WF_vars(SealCommit(r))
                      /\ WF_vars(DeliverNext(r))
                      /\ WF_vars(Answer(r))

-----------------------------------------------------------------------------
(* Properties.                                                             *)

OpenedRecord(r, k) == sealed[opened[r][k][1]][opened[r][k][2]]
OpenedLog(r) == [k \in DOMAIN opened[r] |-> OpenedRecord(r, k)]

RecordsOn(log, channel) ==
  Cardinality({i \in DOMAIN log : log[i].channel = channel})

BytesOn(log, channel) ==
  LET sum[i \in 0..Len(log)] ==
        IF i = 0 THEN 0
        ELSE sum[i - 1] + IF log[i].channel = channel
                          THEN log[i].plaintext_len ELSE 0
  IN  sum[Len(log)]

(* Every field keeps its domain; no context of a session rests at a hard   *)
(* limit.                                                                  *)
TypeOK ==
  /\ session \in [Roles -> Session]
  /\ epoch \in [Roles -> Epochs]
  /\ sealed \in [Roles -> Seq(Record)]
  /\ opened \in [Roles -> Seq(Roles \X (1..MaxSealed + 1))]

(* Whatever the network does, a session opens only records of its peer, on *)
(* each channel each of them once and in the order they were sealed,       *)
(* without a gap.                                                          *)
InOrder ==
  \A r \in Roles : \A k \in DOMAIN opened[r] :
    LET i == opened[r][k][2]
    IN  /\ opened[r][k][1] = Peer(r)
        /\ \A j \in 1..k - 1 : opened[r][j] # opened[r][k]
        /\ \A h \in 1..i - 1 :
             sealed[Peer(r)][h].channel = sealed[Peer(r)][i].channel
               => \E j \in 1..k - 1 : opened[r][j] = <<Peer(r), h>>

(* "Guard commits bind both peers to the same exporter and canonical       *)
(* application context before data is accepted" (inner-threads/README.md): *)
(* who left Committing without failing, or accepted anything but a commit, *)
(* shares the epoch of its peer, and both commits were exchanged.          *)
CommitBinds ==
  \A r \in Roles :
    \/ session[r].state \in {"Active", "Draining", "Closed"}
    \/ \E k \in DOMAIN opened[r] : OpenedRecord(r, k).type # "commit"
    => /\ epoch[r] = epoch[Peer(r)]
       /\ \E i \in DOMAIN sealed[r] : sealed[r][i].type = "commit"
       /\ \E k \in DOMAIN opened[r] : OpenedRecord(r, k).type = "commit"

(* No nonce is used twice under a traffic key, although erasing a session  *)
(* resets its sequence numbers.                                            *)
NonceOnce ==
  \A r \in Roles : \A i, j \in DOMAIN sealed[r] :
    i # j /\ sealed[r][i].channel = sealed[r][j].channel
      => sealed[r][i].sequence # sealed[r][j].sequence

(* The keys are erased exactly when the session has ended, on every path:  *)
(* error, abort, hard limit, and orderly close from either side.           *)
ErasedExactly ==
  \A r \in Roles :
    /\ session[r].keys <=> session[r].state \notin Terminal
    /\ session[r].state \in Terminal =>
         session[r].usage = [c \in Contexts |-> NoUsage]

(* The accounting of a live session is what it sealed and opened: both     *)
(* ends of a context agree on it record by record.                         *)
UsageExact ==
  \A r \in Roles : session[r].state \notin Terminal =>
    \A channel \in Channels :
      LET out == session[r].usage[<<channel, SendDirection(r)>>]
          in  == session[r].usage[<<channel, ReceiveDirection(r)>>]
      IN  /\ out = [next_sequence   |-> RecordsOn(sealed[r], channel),
                    records         |-> RecordsOn(sealed[r], channel),
                    plaintext_bytes |-> BytesOn(sealed[r], channel)]
          /\ in  = [next_sequence   |-> RecordsOn(OpenedLog(r), channel),
                    records         |-> RecordsOn(OpenedLog(r), channel),
                    plaintext_bytes |-> BytesOn(OpenedLog(r), channel)]

(* No traffic key protects more than the hard limits allow, in either      *)
(* direction.                                                              *)
HardLimits ==
  \A r \in Roles : \A channel \in Channels :
    \A log \in {sealed[r], OpenedLog(r)} :
      /\ RecordsOn(log, channel) <= HardRecords
      /\ BytesOn(log, channel) <= HardBytes

(* A close is the last record a session seals and the last it opens, and   *)
(* "both peers exchanged close records" (lib.rs) when it is Closed.        *)
CloseIsLast ==
  \A r \in Roles :
    /\ \A i \in DOMAIN sealed[r] :
         sealed[r][i].type = "close" => i = Len(sealed[r])
    /\ \A k \in DOMAIN opened[r] :
         OpenedRecord(r, k).type = "close" => k = Len(opened[r])
    /\ session[r].state = "Closed" =>
         /\ \E i \in DOMAIN sealed[r] : sealed[r][i].type = "close"
         /\ \E k \in DOMAIN opened[r] : OpenedRecord(r, k).type = "close"

(* The record that takes a session to its hard limit is announced: before  *)
(* it, refresh_due already reported a soft limit.                          *)
RefreshBeforeLimit ==
  [][\A r \in Roles :
       /\ sealed'[r] # sealed[r] \/ opened'[r] # opened[r]
       /\ session'[r].state = "Failed"
       => RefreshDue(session[r])]_vars

(* Over an ordered transport a session that closed orderly opened all that *)
(* its peer sealed: nothing is cut off.                                    *)
ClosedIsComplete ==
  \A r \in Roles :
    session[r].state = "Closed" => Len(opened[r]) = Len(sealed[Peer(r)])

(* Over an ordered transport, peers of one epoch fail without a record     *)
(* only when a payload does not fit the byte limit, or when data or a      *)
(* refresh crosses the receiver's own close: crossing commits and crossing *)
(* closes are no failure.                                                  *)
OnlyCrossedDataRejected ==
  [][\A r \in Roles :
       /\ session[r].state \notin Terminal /\ session'[r].state = "Failed"
       /\ UNCHANGED <<sealed, opened>>
       /\ epoch[r] = epoch[Peer(r)]
       => \/ \E channel \in DataChannels :
               ~Permits(session[r].usage[SendContext(r, channel)], MaxPlaintext)
          \/ /\ session[r].local_close_sent
             /\ sealed[Peer(r)][Len(opened[r]) + 1].type \in {"data", "refresh"}]_vars

(* Peers of one epoch leave Committing.                                    *)
CommitCompletes ==
  epoch["client"] = epoch["server"] =>
    \A r \in Roles : <>(session[r].state # "Committing")

(* A session that is draining ends, unless its peer failed: the close of   *)
(* one side is answered, and crossing closes answer each other.            *)
DrainingEnds ==
  \A r \in Roles :
    session[r].state = "Draining" ~>
      session[r].state \in Terminal \/ session[Peer(r)].state = "Failed"

-----------------------------------------------------------------------------
(* The sessions implement the channels of SecureChannels.                  *)

SealedType(r, type) == \E i \in DOMAIN sealed[r] : sealed[r][i].type = type

PayloadsOn(log, channel) ==
  LET list[i \in 0..Len(log)] ==
        IF i = 0 THEN <<>>
        ELSE IF log[i].channel = channel
             THEN Append(list[i - 1], log[i].plaintext_len)
             ELSE list[i - 1]
  IN  list[Len(log)]

Promise == INSTANCE SecureChannels WITH
  Channels <- DataChannels,
  Payloads <- 0..MaxPlaintext,
  Groups   <- Epochs,
  status   <- [r \in Roles |->
                 CASE session[r].state = "Committing" -> "opening"
                   [] session[r].state = "Active"     -> "open"
                   [] session[r].state = "Draining"   -> "closing"
                   [] session[r].state = "Closed"     -> "closed"
                   [] session[r].state = "Failed"     -> "failed"],
  group    <- epoch,
  joined   <- [r \in Roles |-> SealedType(r, "commit")],
  ended    <- [r \in Roles |-> SealedType(r, "close")],
  sent     <- [r \in Roles |-> [c \in DataChannels |-> PayloadsOn(sealed[r], c)]],
  received <- [r \in Roles |-> [c \in DataChannels |-> PayloadsOn(OpenedLog(r), c)]]

(* Whatever the network does and wherever a session breaks, two sessions   *)
(* are a pair of secure channels: no order of commits, data, closes and    *)
(* failures, limits included, shows a caller anything else.                *)
ImplementsChannels == Promise!Spec

=============================================================================
