---------------------------- MODULE KeySchedule ----------------------------
(***************************************************************************)
(* How sessions come to their keys (profile.rs, Session::from_exporter_    *)
(* epoch): the exporter capability is consumed, the application context is *)
(* hashed, ten traffic keys are derived, and the AES-256-GCM of the        *)
(* process, fetched once, is taken.  Threads create sessions at the same   *)
(* time, each for an endpoint of some connection.                          *)
(*                                                                         *)
(* SHA-384 and HKDF are terms of their inputs: equal only when all inputs  *)
(* are.  Every variable-length input is framed with its length, so a list  *)
(* of inputs stands for their concatenation.                               *)
(***************************************************************************)
EXTENDS Integers, Sequences

CONSTANTS
  Threads,    \* creators of sessions in one process
  Exporters,  \* TLS exporter values, one for each connection
  Apps,       \* application contexts of 1 to 255 bytes
  BadApp,     \* an application context of any other length
  Zero        \* the bytes of a slot that nothing was derived into

ASSUME AppAssumption == BadApp \notin Apps

VARIABLES
  material,  \* the exporter capabilities each role still has
  creation,  \* the call each thread is in
  cell,      \* AES_256_GCM: the OnceLock of the process
  created    \* history: the sessions that were created

vars == <<material, creation, cell, created>>

Roles == {"client", "server"}
Directions == <<"client_to_server", "server_to_client">>
Channels == <<"menora", "chanukkia", "jom_kippur", "tzafah", "guard">>
Slots == 0..9

SendDirection(r) ==
  IF r = "client" THEN "client_to_server" ELSE "server_to_client"

Id(channel) ==
  CASE channel = "menora"     -> 301
    [] channel = "chanukkia"  -> 99
    [] channel = "jom_kippur" -> 372
    [] channel = "tzafah"     -> 175
    [] channel = "guard"      -> 947

-----------------------------------------------------------------------------
(* Derivation.                                                             *)

Place(s, e) == CHOOSE i \in DOMAIN s : s[i] = e

(* Mutant: neighbouring channels overlap.                                  *)
MaterialIndexOverlapping(channel, direction) ==
  (Place(Channels, channel) - 1) + (Place(Directions, direction) - 1)

MaterialIndex(channel, direction) ==
  2 * (Place(Channels, channel) - 1) + (Place(Directions, direction) - 1)

ChannelRole(channel) == IF channel = "guard" THEN 1 ELSE 0

Manifest == [i \in DOMAIN Channels |->
               <<ChannelRole(Channels[i]), Id(Channels[i])>>]

Sha384(input) == [sha384 |-> input]

(* Hkdf(secret, info): extract without info, expand with it.               *)
Hkdf(secret, info) == [secret |-> secret, info |-> info]

ContextHash(app) == Sha384(<<Sha384(Manifest), app>>)

Prk(exporter, app) ==
  Hkdf(exporter, Sha384(<<Sha384(Manifest), ContextHash(app)>>))

BuildInfo(purpose, app, channel, direction) ==
  <<purpose, Sha384(Manifest), ContextHash(app),
    Id(channel), ChannelRole(channel), direction>>

TrafficKey(exporter, app, channel, direction) ==
  LET secret == Hkdf(Prk(exporter, app),
                     BuildInfo("traffic", app, channel, direction))
  IN  [key |-> Hkdf(secret, BuildInfo("key", app, channel, direction)),
       iv  |-> Hkdf(secret, BuildInfo("iv", app, channel, direction))]

Zeroed == [key |-> Zero, iv |-> Zero]

(* The loop over the channels and directions, in this order: what two of   *)
(* them write to one slot, the later one keeps.                            *)
DerivedSecrets(exporter, app) ==
  [slot \in Slots |->
     LET writers == {w \in (DOMAIN Channels) \X (DOMAIN Directions) :
                       MaterialIndex(Channels[w[1]], Directions[w[2]]) = slot}
         last == CHOOSE w \in writers : \A v \in writers :
                   v[1] < w[1] \/ (v[1] = w[1] /\ v[2] <= w[2])
     IN  IF writers = {} THEN Zeroed
         ELSE TrafficKey(exporter, app, Channels[last[1]], Directions[last[2]])]

-----------------------------------------------------------------------------
Idle == [step |-> "idle"]

Call(step, role, exporter, app) ==
  [step |-> step, role |-> role, exporter |-> exporter, app |-> app]

(* Mutant: the capability can be cloned.                                   *)
MaterialKept(role, exporter) == material[role]

(* ExporterMaterial is moved into the call, which drops it at its end,     *)
(* successful or not.                                                      *)
MaterialLeft(role, exporter) == material[role] \ {exporter}

(* from_exporter_epoch is called; an application context of zero or of     *)
(* more than 255 bytes is refused.                                         *)
Create(t, role, exporter, app) ==
  /\ creation[t] = Idle /\ exporter \in material[role]
  /\ material' = [material EXCEPT ![role] = MaterialLeft(role, exporter)]
  /\ creation' = [creation EXCEPT ![t] =
       IF app \in Apps THEN Call("derive", role, exporter, app) ELSE Idle]
  /\ UNCHANGED <<cell, created>>

Derive(t) ==
  /\ creation[t].step = "derive"
  /\ creation' = [creation EXCEPT ![t].step = "fetch"]
  /\ UNCHANGED <<material, cell, created>>

(* A hash or an HKDF call fails: what was derived so far is zeroized.      *)
DeriveFails(t) ==
  /\ creation[t].step = "derive"
  /\ creation' = [creation EXCEPT ![t] = Idle]
  /\ UNCHANGED <<material, cell, created>>

(* get_or_init: the first thread fetches, and the others wait for it.  The *)
(* provider may have no AES-256-GCM, or one with other lengths.            *)
FetchOnce(t) ==
  /\ creation[t].step = "fetch" /\ cell = "unset"
  /\ cell' \in {"fits", "other_lengths", "error"}
  /\ UNCHANGED <<material, creation, created>>

Usable(verdict) == verdict = "fits"

TakeCipher(t) ==
  LET c == creation[t]
  IN  /\ c.step = "fetch" /\ cell # "unset"
      /\ creation' = [creation EXCEPT ![t] = Idle]
      /\ created' = IF Usable(cell)
           THEN Append(created, [role |-> c.role, exporter |-> c.exporter,
                                 app |-> c.app])
           ELSE created
      /\ UNCHANGED <<material, cell>>

Init ==
  /\ material = [r \in Roles |-> Exporters]
  /\ creation = [t \in Threads |-> Idle]
  /\ cell = "unset"
  /\ created = <<>>

Next ==
  \E t \in Threads :
    \/ \E r \in Roles, x \in Exporters, app \in Apps \union {BadApp} :
         Create(t, r, x, app)
    \/ Derive(t)
    \/ DeriveFails(t)
    \/ FetchOnce(t)
    \/ TakeCipher(t)

Spec == Init /\ [][Next]_vars

-----------------------------------------------------------------------------
(* The key a session has for a channel and a direction: what is in the     *)
(* slot that seal_next and decode look into.                               *)
KeyOf(s, channel, direction) ==
  DerivedSecrets(s.exporter, s.app)[MaterialIndex(channel, direction)]

(* The API "prevents production callers from accidentally creating two     *)
(* sessions with identical AES-GCM keys and counters" (lib.rs:9): in the   *)
(* whole process, two sessions never seal under one key, nor one session   *)
(* on two channels, whatever fails and whoever tries again.                *)
OneSealerPerKey ==
  \A m, n \in DOMAIN created : \A c, d \in DOMAIN Channels :
    KeyOf(created[m], Channels[c], SendDirection(created[m].role)).key =
    KeyOf(created[n], Channels[d], SendDirection(created[n].role)).key
      => m = n /\ c = d

(* What InnerSession takes for granted of keys: two sessions have a key in *)
(* common exactly for the same channel and direction of one exporter and   *)
(* one application context, and every key was derived.                     *)
KeysAgreeExactly ==
  \A m, n \in DOMAIN created : \A c, d \in DOMAIN Channels :
    \A e, f \in DOMAIN Directions :
      LET s == created[m]
          t == created[n]
          k == KeyOf(s, Channels[c], Directions[e])
          l == KeyOf(t, Channels[d], Directions[f])
      IN  /\ k # Zeroed /\ k.key # k.iv
          /\ k = l <=> /\ <<s.exporter, s.app>> = <<t.exporter, t.app>>
                       /\ c = d /\ e = f

=============================================================================
