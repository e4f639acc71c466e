--------------------------- MODULE SecureChannels ---------------------------
(***************************************************************************)
(* What two sessions promise each other, without records, keys, sequence   *)
(* numbers or limits: between endpoints of one group, and only once both   *)
(* have joined, every channel delivers a prefix of what was sent, in       *)
(* order; nothing is sent or received after an end; who closed knows that  *)
(* both ended; and an endpoint may fail at any moment, for good.           *)
(***************************************************************************)
EXTENDS Integers, Sequences

CONSTANTS Channels, Payloads, Groups

VARIABLES
  status,    \* where each endpoint is
  group,     \* what each endpoint was created for
  joined,    \* an endpoint announced itself
  ended,     \* an endpoint announced its end
  sent,      \* the payloads each endpoint sent on each channel
  received   \* the payloads each endpoint received on each channel

vars == <<status, group, joined, ended, sent, received>>

Endpoints == {"client", "server"}
Other(e) == IF e = "client" THEN "server" ELSE "client"

Init ==
  /\ status = [e \in Endpoints |-> "opening"]
  /\ group \in [Endpoints -> Groups]
  /\ joined = [e \in Endpoints |-> FALSE]
  /\ ended = [e \in Endpoints |-> FALSE]
  /\ sent = [e \in Endpoints |-> [c \in Channels |-> <<>>]]
  /\ received = [e \in Endpoints |-> [c \in Channels |-> <<>>]]

Goto(e, s) == status' = [status EXCEPT ![e] = s]

Join(e) ==
  /\ status[e] = "opening" /\ ~joined[e]
  /\ joined' = [joined EXCEPT ![e] = TRUE]
  /\ UNCHANGED <<status, group, ended, sent, received>>

(* Both have joined: an endpoint opens when it learns of it, at the latest *)
(* when it joins itself.                                                   *)
Open(e) ==
  /\ status[e] = "opening"
  /\ joined[Other(e)] /\ group[e] = group[Other(e)]
  /\ joined' = [joined EXCEPT ![e] = TRUE]
  /\ Goto(e, "open")
  /\ UNCHANGED <<group, ended, sent, received>>

(* The last payload of a channel may be the end of the endpoint.           *)
Send(e, c, payload) ==
  /\ status[e] = "open"
  /\ sent' = [sent EXCEPT ![e][c] = Append(@, payload)]
  /\ \E s \in {"open", "failed"} : Goto(e, s)
  /\ UNCHANGED <<group, joined, ended, received>>

Receive(e, c) ==
  LET next == Len(received[e][c]) + 1
  IN  /\ status[e] = "open" /\ next <= Len(sent[Other(e)][c])
      /\ received' = [received EXCEPT ![e][c] = Append(@, sent[Other(e)][c][next])]
      /\ \E s \in {"open", "failed"} : Goto(e, s)
      /\ UNCHANGED <<group, joined, ended, sent>>

(* Announcing the end, or learning of the end of the other: who has done   *)
(* both is closed.                                                         *)
End(e) ==
  /\ status[e] \in {"open", "closing"} /\ ~ended[e]
  /\ ended' = [ended EXCEPT ![e] = TRUE]
  /\ \/ status[e] = "open" /\ Goto(e, "closing")
     \/ status[e] = "closing" /\ Goto(e, "closed")
     \/ Goto(e, "failed")
  /\ UNCHANGED <<group, joined, sent, received>>

LearnEnd(e) ==
  /\ status[e] \in {"open", "closing"} /\ ended[Other(e)]
  /\ \/ status[e] = "open" /\ Goto(e, "closing")
     \/ status[e] = "closing" /\ ended[e] /\ Goto(e, "closed")
     \/ Goto(e, "failed")
  /\ UNCHANGED <<group, joined, ended, sent, received>>

Fail(e) ==
  /\ status[e] \notin {"closed", "failed"}
  /\ Goto(e, "failed")
  /\ UNCHANGED <<group, joined, ended, sent, received>>

Next ==
  \E e \in Endpoints :
    \/ Join(e)
    \/ Open(e)
    \/ \E c \in Channels : Receive(e, c) \/ \E payload \in Payloads : Send(e, c, payload)
    \/ End(e)
    \/ LearnEnd(e)
    \/ Fail(e)

Spec == Init /\ [][Next]_vars

=============================================================================
