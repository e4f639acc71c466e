----------------------------- MODULE G301Cipher -----------------------------
(***************************************************************************)
(* One outer cipher context of the G301 provider (g301_cipher.c): the      *)
(* record state machine that prefixes a fixed manifest to the AAD of every *)
(* record, counts the records encrypted under the installed write key, and *)
(* delegates AES-256-GCM to an inner context through G301_INNER_OPS.       *)
(*                                                                         *)
(* A context is called by one thread at a time, as OpenSSL requires, so a  *)
(* call is one step.  What a call may meet is nondeterministic: arguments  *)
(* the code refuses, an inner call that fails, a lock or an atomic add     *)
(* that fails.                                                             *)
(***************************************************************************)
EXTENDS Integers, Sequences

CONSTANTS
  Keys,         \* the write and read keys callers install
  NoKey,        \* the key of a context no key was given to
  RecordLimit,  \* ctx->record_limit, G301_ENCRYPT_RECORD_LIMIT in production
  IntMax,       \* INT_MAX: encrypted_records is a C int
  MaxLog        \* bound: at most this many inner updates per record

ASSUME KeysAssumption  == NoKey \notin Keys
ASSUME LimitAssumption == IntMax \in Nat /\ RecordLimit \in 1..IntMax
ASSUME LogAssumption   == MaxLog \in Nat

VARIABLES
  ctx,        \* G301_CIPHER_CTX
  inner,      \* external: the AES-256-GCM context behind G301_INNER_OPS
  installed,  \* history: the installed write key and the records it encrypted
  ret         \* the call that returned last, and whether it succeeded

vars == <<ctx, inner, installed, ret>>

Phases == {"NO_RECORD", "MANIFEST_PENDING", "ACTIVE", "FINALIZED"}
MaybeKey == Keys \union {NoKey}
Data == {"aad", "payload"}
Calls == {"newctx", "init", "update", "final", "set_params", "get_params",
          "get_tag"}

(* current_key and usage_key are NoKey while current_key_valid and         *)
(* usage_key_valid are 0: neither flag is ever cleared.                    *)
Context == [phase : Phases, encrypt : BOOLEAN, direction_set : BOOLEAN,
            key_valid : BOOLEAN, needs_reinit : BOOLEAN,
            decrypt_tag_current : BOOLEAN, payload_started : BOOLEAN,
            current_key : MaybeKey, current_key_changed : BOOLEAN,
            usage_key : MaybeKey, encrypted_records : 0..RecordLimit + 1,
            usage_exhausted : BOOLEAN, record_reserved : BOOLEAN]

(* The inner context, as far as the outer one can tell: its key and        *)
(* direction, the tag it holds for decryption, what it absorbed since its  *)
(* IV was set, and whether it finalised that record.  "earlier" is a tag   *)
(* supplied before the current IV: an IV does not erase it.                *)
InnerContext == [key : MaybeKey, encrypt : BOOLEAN,
                 tag : {"none", "current", "earlier"},
                 log : Seq({"manifest"} \union Data), sealed : BOOLEAN]

-----------------------------------------------------------------------------
(* Steps of the context that the calls share.                              *)

InvalidateRecord(c) == [c EXCEPT !.phase = "NO_RECORD",
                                 !.payload_started = FALSE,
                                 !.decrypt_tag_current = FALSE]

Poison(c) == [c EXCEPT !.needs_reinit = TRUE, !.decrypt_tag_current = FALSE]

DropTag(c) == [c EXCEPT !.decrypt_tag_current = FALSE]

(* The pair g301_poison, g301_invalidate_record of the error paths.        *)
DropRecord(c) == InvalidateRecord(Poison(c))

(* Mutants: a changed key is not marked; the budget is renewed on receipt. *)
RecordUnmarkedKey(c, k) == [c EXCEPT !.current_key = k]
RecordRenewingKey(c, k) ==
  IF c.current_key = k THEN c
  ELSE [c EXCEPT !.current_key = k, !.current_key_changed = TRUE,
                 !.encrypted_records = 0, !.usage_exhausted = FALSE]

RecordCurrentKey(c, k) ==
  IF c.current_key = k THEN c
  ELSE [c EXCEPT !.current_key = k, !.current_key_changed = TRUE]

(* The fast path of g301_install_write_key, which takes no lock.           *)
WriteKeyUnchanged(c) == c.usage_key # NoKey /\ ~c.current_key_changed

(* Mutants: the fast path keeps the reservation; A-B-A renews the budget.  *)
InstallKeepingReservation(c) ==
  IF WriteKeyUnchanged(c) THEN c
  ELSE LET kept == [c EXCEPT !.current_key_changed = FALSE,
                             !.record_reserved = FALSE]
       IN  IF c.usage_key = c.current_key THEN kept
           ELSE [kept EXCEPT !.usage_key = c.current_key,
                             !.encrypted_records = 0,
                             !.usage_exhausted = FALSE]
InstallRenewing(c) ==
  IF WriteKeyUnchanged(c) THEN [c EXCEPT !.record_reserved = FALSE]
  ELSE [c EXCEPT !.current_key_changed = FALSE, !.record_reserved = FALSE,
                 !.usage_key = c.current_key, !.encrypted_records = 0,
                 !.usage_exhausted = FALSE]

InstallWriteKey(c) ==
  LET kept == [c EXCEPT !.current_key_changed = FALSE,
                        !.record_reserved = FALSE]
  IN  IF WriteKeyUnchanged(c) \/ c.usage_key = c.current_key
      THEN kept
      ELSE [kept EXCEPT !.usage_key = c.current_key,
                        !.encrypted_records = 0,
                        !.usage_exhausted = FALSE]

(* CRYPTO_atomic_add of 1 to a C int.                                      *)
AtomicIncrement(n) == IF n = IntMax THEN -IntMax - 1 ELSE n + 1

MustReserve(c) ==
  c.phase = "MANIFEST_PENDING" /\ c.encrypt /\ ~c.record_reserved

(* Mutant: a spent budget is tried again.                                  *)
BudgetNeverSpent(c) == c.usage_key = NoKey

BudgetSpent(c) == c.usage_key = NoKey \/ c.usage_exhausted

(* Mutant: the limit is exceeded by one.                                   *)
CanReserveOneMore(c) ==
  MustReserve(c) => ~BudgetSpent(c) /\ c.encrypted_records <= RecordLimit

CanReserve(c) ==
  MustReserve(c) => /\ ~BudgetSpent(c)
                    /\ AtomicIncrement(c.encrypted_records) <= RecordLimit

Reserve(c) ==
  IF MustReserve(c)
  THEN [c EXCEPT !.encrypted_records = AtomicIncrement(@),
                 !.record_reserved = TRUE]
  ELSE c

(* g301_reserve_encryption_record refuses: the budget was spent before, or *)
(* CRYPTO_atomic_add failed, or this call is the one that exceeds it.      *)
ReserveFailures(c) ==
  {DropRecord(c)} \union
  {DropRecord([c EXCEPT !.encrypted_records = n, !.usage_exhausted = TRUE]) :
     n \in {m \in {AtomicIncrement(c.encrypted_records)} :
               ~BudgetSpent(c) /\ m > RecordLimit}}

(* Mutant: the injection leaves the phase behind.                          *)
ActivateLate(c) == Reserve(c)

Activate(c) == [Reserve(c) EXCEPT !.phase = "ACTIVE"]

(* Mutant: a poisoned record is still live.                                *)
LiveIfPoisoned(c) == c.phase \in {"MANIFEST_PENDING", "ACTIVE"}

Live(c) == ~c.needs_reinit /\ c.phase \in {"MANIFEST_PENDING", "ACTIVE"}

Returns(call, ok) == ret' = [call |-> call, ok |-> ok]

-----------------------------------------------------------------------------
(* The inner context (external).                                           *)

Absorb(i, item) == [i EXCEPT !.log = Append(@, item)]

(* The inner context after the injection: in MANIFEST_PENDING the manifest *)
(* goes in, in ACTIVE it is there already.                                 *)
WithManifest(i) ==
  IF ctx.phase = "MANIFEST_PENDING" THEN Absorb(i, "manifest") ELSE i

InnerInit(i, a) ==
  [key     |-> IF a.key # NoKey THEN a.key ELSE i.key,
   encrypt |-> a.encrypt,
   tag     |-> IF a.tag # "absent" THEN "current"
               ELSE IF a.iv /\ i.tag # "none" THEN "earlier" ELSE i.tag,
   log     |-> IF a.iv THEN <<>> ELSE i.log,
   sealed  |-> IF a.iv THEN FALSE ELSE i.sealed]

(* A failing initialisation stops anywhere: the direction, the IV, the key *)
(* and the tag are taken in this order.                                    *)
InnerInitFailures(i, a) ==
  {i, [i EXCEPT !.encrypt = a.encrypt],
   InnerInit(i, [a EXCEPT !.key = NoKey, !.tag = "absent"]),
   InnerInit(i, [a EXCEPT !.tag = "absent"]), InnerInit(i, a)}

-----------------------------------------------------------------------------
(* History of the write key, kept from what the inner context is given and *)
(* not from the accounting of the context.                                 *)

Install(k) ==
  installed' = IF installed.key = k THEN installed
               ELSE [key |-> k, records |-> 0]

(* The manifest reaches the inner context: an encryption record begins.    *)
Charge ==
  installed' = IF ctx.phase = "MANIFEST_PENDING" /\ inner.encrypt
               THEN [installed EXCEPT !.records = @ + 1]
               ELSE installed

-----------------------------------------------------------------------------
(* encrypt_init and decrypt_init: g301_init.                               *)

InitCalls ==
  [key : MaybeKey, iv : BOOLEAN, encrypt : BOOLEAN,
   tag : {"absent", "valid", "malformed"}, args_ok : BOOLEAN]

HasKey(a) == a.key # NoKey
HasTag(a) == a.tag # "absent"
DirectionChange(c, a) == c.direction_set /\ c.encrypt # a.encrypt

(* args_ok: the lengths match and no parameter but the tag is refused.     *)
ValidArguments(c, a) ==
  /\ a.args_ok
  /\ HasTag(a) => /\ a.tag = "valid"
                  /\ ~a.encrypt
                  /\ a.iv /\ (HasKey(a) \/ c.key_valid)

LacksKey(c, a) == a.iv /\ ~HasKey(a) /\ ~c.key_valid

RefuseInit(c, a) ==
  IF HasTag(a) /\ (HasKey(a) \/ DirectionChange(c, a))
  THEN InvalidateRecord(c)
  ELSE IF HasTag(a) \/ DirectionChange(c, a) THEN DropTag(c) ELSE c

(* Mutant: the old key stays usable while the new one is tried.            *)
BeginInitKeepingKey(c, a) ==
  IF DirectionChange(c, a) \/ HasKey(a) THEN InvalidateRecord(c)
  ELSE IF HasTag(a) THEN DropTag(c) ELSE c

(* The context when the inner initialisation is called.                    *)
BeginInit(c, a) ==
  LET d == IF DirectionChange(c, a) \/ HasKey(a) THEN InvalidateRecord(c)
           ELSE IF HasTag(a) THEN DropTag(c) ELSE c
  IN  IF HasKey(a) THEN [d EXCEPT !.key_valid = FALSE] ELSE d

(* The context once the inner initialisation and the key are in.           *)
CommitInit(c, a) ==
  LET d == BeginInit(c, a)
      k == IF HasKey(a)
           THEN [RecordCurrentKey(d, a.key) EXCEPT !.key_valid = TRUE]
           ELSE d
  IN  [k EXCEPT !.encrypt = a.encrypt, !.direction_set = TRUE]

(* Mutant: the tag of the last record serves the next.                     *)
OpenRecordKeepingTag(c, a) ==
  [c EXCEPT !.phase = "MANIFEST_PENDING", !.payload_started = FALSE,
            !.decrypt_tag_current = ~a.encrypt /\ (@ \/ HasTag(a)),
            !.needs_reinit = FALSE]

OpenRecord(c, a) ==
  [c EXCEPT !.phase = "MANIFEST_PENDING", !.payload_started = FALSE,
            !.decrypt_tag_current = ~a.encrypt /\ HasTag(a),
            !.needs_reinit = FALSE]

InitRefused(a) ==
  /\ ~ValidArguments(ctx, a) \/ LacksKey(ctx, a)
  /\ ctx' = IF ValidArguments(ctx, a) THEN ctx ELSE RefuseInit(ctx, a)
  /\ Returns("init", FALSE)
  /\ UNCHANGED <<inner, installed>>

InitReachesInner(a) == ValidArguments(ctx, a) /\ ~LacksKey(ctx, a)

InitInnerFails(a) ==
  /\ InitReachesInner(a)
  /\ ctx' = DropRecord(BeginInit(ctx, a))
  /\ inner' \in InnerInitFailures(inner, a)
  /\ Returns("init", FALSE)
  /\ UNCHANGED installed

(* CRYPTO_THREAD_write_lock fails in g301_record_current_key.              *)
InitRecordKeyFails(a) ==
  /\ InitReachesInner(a) /\ HasKey(a)
  /\ ctx' = DropRecord(BeginInit(ctx, a))
  /\ inner' = InnerInit(inner, a)
  /\ Returns("init", FALSE)
  /\ UNCHANGED installed

(* g301_install_write_key fails: it meets no key, or its lock fails.       *)
InitInstallFails(a) ==
  LET c == CommitInit(ctx, a)
  IN  /\ InitReachesInner(a) /\ a.iv /\ a.encrypt
      /\ c.current_key = NoKey \/ ~WriteKeyUnchanged(c)
      /\ ctx' = DropRecord(c)
      /\ inner' = InnerInit(inner, a)
      /\ Returns("init", FALSE)
      /\ UNCHANGED installed

InitWithoutRecord(a) ==
  /\ InitReachesInner(a) /\ ~a.iv
  /\ ctx' = InvalidateRecord(CommitInit(ctx, a))
  /\ inner' = InnerInit(inner, a)
  /\ Returns("init", TRUE)
  /\ UNCHANGED installed

InitRecord(a) ==
  LET c == CommitInit(ctx, a)
  IN  /\ InitReachesInner(a) /\ a.iv
      /\ IF a.encrypt
         THEN /\ c.current_key # NoKey
              /\ ctx' = OpenRecord(InstallWriteKey(c), a)
              /\ Install(InnerInit(inner, a).key)
         ELSE /\ ctx' = OpenRecord(c, a)
              /\ UNCHANGED installed
      /\ inner' = InnerInit(inner, a)
      /\ Returns("init", TRUE)

-----------------------------------------------------------------------------
(* update: g301_cipher_update.  AAD is passed without an output buffer.    *)

UpdateAccepts(item) == Live(ctx) /\ (item = "aad" => ~ctx.payload_started)

(* No live record, a NULL input, a length above INT_MAX, a short output    *)
(* buffer, or AAD after payload: refused, and the record goes on.          *)
UpdateRefused ==
  /\ Returns("update", FALSE)
  /\ UNCHANGED <<ctx, inner, installed>>

(* An empty update of a live record does not inject the manifest.          *)
UpdateEmpty ==
  /\ Live(ctx)
  /\ Returns("update", TRUE)
  /\ UNCHANGED <<ctx, inner, installed>>

(* The two ways g301_inject_manifest fails, in an update or in final.      *)
ReserveFails(call) ==
  /\ MustReserve(ctx)
  /\ ctx' \in ReserveFailures(ctx)
  /\ Returns(call, FALSE)
  /\ UNCHANGED <<inner, installed>>

InjectFails(call) ==
  /\ ctx.phase = "MANIFEST_PENDING" /\ CanReserve(ctx)
  /\ ctx' = Poison(Reserve(ctx))
  /\ inner' \in {inner, WithManifest(inner)}
  /\ Charge
  /\ Returns(call, FALSE)

UpdateInnerFails(item) ==
  /\ CanReserve(ctx) /\ Len(inner.log) < MaxLog
  /\ ctx' = Poison(Activate(ctx))
  /\ inner' \in {WithManifest(inner), Absorb(WithManifest(inner), item)}
  /\ Charge
  /\ Returns("update", FALSE)

UpdateOk(item) ==
  /\ CanReserve(ctx) /\ Len(inner.log) < MaxLog
  /\ ctx' = IF item = "payload"
            THEN [Activate(ctx) EXCEPT !.payload_started = TRUE]
            ELSE Activate(ctx)
  /\ inner' = Absorb(WithManifest(inner), item)
  /\ Charge
  /\ Returns("update", TRUE)

Update(item) ==
  /\ UpdateAccepts(item)
  /\ \/ ReserveFails("update")
     \/ InjectFails("update")
     \/ UpdateInnerFails(item)
     \/ UpdateOk(item)

-----------------------------------------------------------------------------
(* final: g301_cipher_final.                                               *)

FinalAccepts == Live(ctx) /\ (ctx.encrypt \/ ctx.decrypt_tag_current)

FinalRefused ==
  /\ ~Live(ctx)
  /\ Returns("final", FALSE)
  /\ UNCHANGED <<ctx, inner, installed>>

(* A NULL length pointer, or a decryption without a tag for this record.   *)
FinalMisused ==
  /\ Live(ctx)
  /\ ctx' = Poison(ctx)
  /\ Returns("final", FALSE)
  /\ UNCHANGED <<inner, installed>>

(* The inner final fails, or reports output where there is none.           *)
FinalInnerFails ==
  /\ CanReserve(ctx)
  /\ ctx' = Poison(Activate(ctx))
  /\ inner' \in {WithManifest(inner),
                 [WithManifest(inner) EXCEPT !.sealed = TRUE]}
  /\ Charge
  /\ Returns("final", FALSE)

FinalOk ==
  /\ CanReserve(ctx)
  /\ ctx' = [Activate(ctx) EXCEPT !.phase = "FINALIZED",
                                  !.decrypt_tag_current = FALSE]
  /\ inner' = [WithManifest(inner) EXCEPT !.sealed = TRUE]
  /\ Charge
  /\ Returns("final", TRUE)

Final ==
  /\ FinalAccepts
  /\ \/ ReserveFails("final")
     \/ InjectFails("final")
     \/ FinalInnerFails
     \/ FinalOk

-----------------------------------------------------------------------------
(* set_ctx_params: only a decryption tag reaches the inner context.        *)

(* Parameters without a tag change nothing, accepted or refused.           *)
SetOther(ok) ==
  /\ Returns("set_params", ok)
  /\ UNCHANGED <<ctx, inner, installed>>

TagRefused ==
  /\ ctx' = DropTag(ctx)
  /\ Returns("set_params", FALSE)
  /\ UNCHANGED <<inner, installed>>

TagInnerFails ==
  /\ Live(ctx) /\ ~ctx.encrypt
  /\ ctx' = Poison(ctx)
  /\ inner' \in {inner, [inner EXCEPT !.tag = "current"]}
  /\ Returns("set_params", FALSE)
  /\ UNCHANGED installed

TagAccepted ==
  /\ Live(ctx) /\ ~ctx.encrypt
  /\ ctx' = [ctx EXCEPT !.decrypt_tag_current = TRUE]
  /\ inner' = [inner EXCEPT !.tag = "current"]
  /\ Returns("set_params", TRUE)
  /\ UNCHANGED installed

SetTag == TagRefused \/ TagInnerFails \/ TagAccepted

-----------------------------------------------------------------------------
(* get_ctx_params: the tag of a finalised encryption record, or constants. *)

(* Mutant: a tag is read before the record is finalised.                   *)
TagReadableEarly == ctx.encrypt /\ ~ctx.needs_reinit

TagReadable == ctx.encrypt /\ ctx.phase = "FINALIZED" /\ ~ctx.needs_reinit

(* Lengths, the size query of the tag, and every refused request.          *)
GetOther(ok) ==
  /\ Returns("get_params", ok)
  /\ UNCHANGED <<ctx, inner, installed>>

GetTagInnerFails ==
  /\ TagReadable
  /\ ctx' = Poison(ctx)
  /\ Returns("get_tag", FALSE)
  /\ UNCHANGED <<inner, installed>>

GetTagOk ==
  /\ TagReadable
  /\ Returns("get_tag", TRUE)
  /\ UNCHANGED <<ctx, inner, installed>>

GetTag == GetTagInnerFails \/ GetTagOk

-----------------------------------------------------------------------------
(* newctx: OPENSSL_zalloc, the lock and the inner context.                 *)
Init ==
  /\ ctx = [phase |-> "NO_RECORD", encrypt |-> FALSE, direction_set |-> FALSE,
            key_valid |-> FALSE, needs_reinit |-> FALSE,
            decrypt_tag_current |-> FALSE, payload_started |-> FALSE,
            current_key |-> NoKey, current_key_changed |-> FALSE,
            usage_key |-> NoKey, encrypted_records |-> 0,
            usage_exhausted |-> FALSE, record_reserved |-> FALSE]
  /\ inner = [key |-> NoKey, encrypt |-> FALSE, tag |-> "none",
              log |-> <<>>, sealed |-> FALSE]
  /\ installed = [key |-> NoKey, records |-> 0]
  /\ ret = [call |-> "newctx", ok |-> TRUE]

CipherInit(a) ==
  \/ InitRefused(a)
  \/ InitInnerFails(a)
  \/ InitRecordKeyFails(a)
  \/ InitInstallFails(a)
  \/ InitWithoutRecord(a)
  \/ InitRecord(a)

Next ==
  \/ \E a \in InitCalls : CipherInit(a)
  \/ UpdateRefused
  \/ UpdateEmpty
  \/ \E item \in Data : Update(item)
  \/ FinalRefused
  \/ FinalMisused
  \/ Final
  \/ \E ok \in BOOLEAN : SetOther(ok)
  \/ SetTag
  \/ \E ok \in BOOLEAN : GetOther(ok)
  \/ GetTag

Spec == Init /\ [][Next]_vars

-----------------------------------------------------------------------------
(* Every field keeps its domain.  encrypted_records stops one past the     *)
(* limit: it cannot creep towards INT_MAX however often a spent key is     *)
(* tried again.                                                            *)
TypeOK ==
  /\ ctx \in Context
  /\ inner \in InnerContext
  /\ installed \in [key : MaybeKey, records : Nat]
  /\ ret \in [call : Calls, ok : BOOLEAN]

(* The outer context never disagrees with the inner one about the key or   *)
(* the direction: not after a failed initialisation that may have replaced *)
(* either, and not after key-only or IV-only calls.  A usable key          *)
(* (key_valid) is the inner context's key, and an open or finalised record *)
(* runs in the inner context's direction.                                  *)
KeyAgreement ==
  /\ ctx.key_valid => /\ ctx.current_key # NoKey
                      /\ inner.key = ctx.current_key
  /\ ctx.phase # "NO_RECORD" => ctx.key_valid /\ inner.encrypt = ctx.encrypt

(* The path of g301_install_write_key that takes no lock and compares no   *)
(* keys is sound: when nothing is marked as changed, the budget is the one *)
(* of the current key, also after A-B-A and after a failed installation.   *)
FastPathSound == ~ctx.current_key_changed => ctx.usage_key = ctx.current_key

(* An encryption record is open only under the key whose budget it draws   *)
(* on, and an unstarted one has nothing reserved: the reservation of one   *)
(* record is never used by the next.                                       *)
BudgetOfOpenRecord ==
  ctx.phase # "NO_RECORD" /\ ctx.encrypt =>
    /\ ~ctx.current_key_changed
    /\ ~ctx.needs_reinit =>
         (ctx.record_reserved <=> ctx.phase # "MANIFEST_PENDING")

(* "The provider permits at most 23,680,450 encrypted records under one    *)
(* uninterrupted key installation" (docs/G301_DRAFT.md:90): whatever mix   *)
(* of IV-only and key-only calls, reinstallations, failures and retries    *)
(* the caller makes, the inner context begins at most RecordLimit records  *)
(* between two installations of different write keys.                      *)
UsageWithinLimit == installed.records <= RecordLimit

(* The counter is the number of records begun, never less and, until the   *)
(* key is exhausted, never more: no failure loses or repeats a charge.     *)
CounterExact ==
  /\ installed.key = ctx.usage_key
  /\ installed.records =
       IF ctx.usage_exhausted THEN RecordLimit ELSE ctx.encrypted_records
  /\ ctx.usage_exhausted <=> ctx.encrypted_records > RecordLimit

(* The inner context absorbs the manifest once, before anything else of    *)
(* the record, and no AAD after payload; an unstarted record absorbed      *)
(* nothing and a finalised one was begun with the manifest.                *)
ManifestFirst ==
  /\ \A i \in DOMAIN inner.log :
       /\ inner.log[i] = "manifest" <=> i = 1
       /\ inner.log[i] = "aad" => \A j \in 1..i : inner.log[j] # "payload"
  /\ ctx.phase = "MANIFEST_PENDING" /\ ~ctx.needs_reinit => inner.log = <<>>
  /\ ctx.phase \in {"ACTIVE", "FINALIZED"} => inner.log # <<>>
  /\ Live(ctx) /\ ~ctx.payload_started =>
       \A i \in DOMAIN inner.log : inner.log[i] # "payload"

(* A decryption is accepted only against a tag supplied for this very      *)
(* record: never the tag an earlier record left in the inner context.      *)
AcceptedWithCurrentTag ==
  ctx.phase = "FINALIZED" /\ ~ctx.encrypt => inner.tag = "current"

(* A tag leaves the context only for an encryption record that the inner   *)
(* context finalised, in the direction of that record.                     *)
TagOnlyOfSealedRecord ==
  ret = [call |-> "get_tag", ok |-> TRUE] =>
    inner.sealed /\ inner.encrypt /\ Head(inner.log) = "manifest"

(* "Only a successful IV-bearing reinitialization permits another record"  *)
(* (docs/G301_DRAFT.md): while a context is poisoned no data reaches the   *)
(* inner context, no tag is released or accepted, and the step that clears *)
(* the poison starts the inner record over.                                *)
PoisonHolds ==
  [][ctx.needs_reinit =>
       /\ inner'.log \in {inner.log, <<>>} /\ (inner'.sealed => inner.sealed)
       /\ ret' # [call |-> "get_tag", ok |-> TRUE]
       /\ ctx'.needs_reinit => ~ctx'.decrypt_tag_current
       /\ ~ctx'.needs_reinit => /\ ctx'.phase = "MANIFEST_PENDING"
                                /\ inner'.log = <<>> /\ ~inner'.sealed]_vars

(* "IV-only initialization, reinstalling the same key, failed              *)
(* initialization, and retry do not reset the counter" (docs/G301_DRAFT.md *)
(* :92): the budget comes back only in a successful encryption             *)
(* initialisation under another key.                                       *)
BudgetOnlyFromAnotherKey ==
  [][\/ ctx'.encrypted_records < ctx.encrypted_records
     \/ ctx.usage_exhausted /\ ~ctx'.usage_exhausted
     => /\ ctx'.usage_key \notin {NoKey, ctx.usage_key}
        /\ ret' = [call |-> "init", ok |-> TRUE]
        /\ ctx'.encrypt /\ inner'.key = ctx'.usage_key]_vars

(* "Every failed Final poisons the record" (docs/G301_DRAFT.md): said of a *)
(* record, so not of a Final on a context that has none.                   *)
FailedFinalPoisons ==
  ret = [call |-> "final", ok |-> FALSE] /\ ctx.phase # "NO_RECORD"
    => ctx.needs_reinit

-----------------------------------------------------------------------------
(* The context implements the record contract: a poisoned context is a     *)
(* poisoned record whatever its phase, and what is left of the budget is   *)
(* what the counter has not used.                                          *)
Contract == INSTANCE RecordContract WITH
  record  <- IF ctx.needs_reinit THEN "poisoned"
             ELSE CASE ctx.phase = "NO_RECORD"        -> "none"
                    [] ctx.phase = "MANIFEST_PENDING" -> "pending"
                    [] ctx.phase = "ACTIVE"           -> "active"
                    [] ctx.phase = "FINALIZED"        -> "finalized",
  writing <- ctx.encrypt,
  key     <- ctx.usage_key,
  left    <- IF ctx.encrypted_records < RecordLimit
             THEN RecordLimit - ctx.encrypted_records ELSE 0

(* Every behaviour of the context is one the record contract allows: no    *)
(* sequence of calls, failures and reinitialisations resurrects a poisoned *)
(* or finalised record, or begins one without a unit of the budget.        *)
ImplementsContract == Contract!Spec

=============================================================================
