-------------------------- MODULE G301CipherProofs --------------------------
(***************************************************************************)
(* Theorems about G301Cipher, for every set of keys and every limit.       *)
(***************************************************************************)
EXTENDS G301Cipher, TLAPS

-----------------------------------------------------------------------------
(* The steps the calls share: what each keeps of the key and the budget.   *)

(* The bounds of the counter are naturals, and zero and one lie within.    *)
LEMMA LimitFacts ==
  RecordLimit \in Nat /\ 1 <= RecordLimit /\ 0 \in 0..RecordLimit + 1
  BY LimitAssumption

(* The fields the budget invariant is about, apart from the record's.      *)
SameKey(c, d) == /\ d.current_key = c.current_key
                 /\ d.current_key_changed = c.current_key_changed

SameBudget(c, d) == /\ d.usage_key = c.usage_key
                    /\ d.encrypted_records = c.encrypted_records
                    /\ d.usage_exhausted = c.usage_exhausted

(* Giving a record up keeps the key and the budget.                        *)
LEMMA InvalidateRecordFacts ==
  ASSUME NEW c \in Context
  PROVE  /\ InvalidateRecord(c) \in Context
         /\ InvalidateRecord(c).phase = "NO_RECORD"
         /\ InvalidateRecord(c).key_valid = c.key_valid
         /\ SameKey(c, InvalidateRecord(c))
         /\ SameBudget(c, InvalidateRecord(c))
  BY DEF InvalidateRecord, Context, Phases, SameKey, SameBudget

(* Poisoning a record keeps its phase, the key and the budget.             *)
LEMMA PoisonFacts ==
  ASSUME NEW c \in Context
  PROVE  /\ Poison(c) \in Context
         /\ Poison(c).needs_reinit
         /\ Poison(c).phase = c.phase
         /\ Poison(c).encrypt = c.encrypt
         /\ Poison(c).key_valid = c.key_valid
         /\ SameKey(c, Poison(c))
         /\ SameBudget(c, Poison(c))
  BY DEF Poison, Context, SameKey, SameBudget

(* The two together leave no record, and keep the key and the budget.      *)
LEMMA DropRecordFacts ==
  ASSUME NEW c \in Context
  PROVE  /\ DropRecord(c) \in Context
         /\ DropRecord(c).phase = "NO_RECORD"
         /\ DropRecord(c).key_valid = c.key_valid
         /\ SameKey(c, DropRecord(c))
         /\ SameBudget(c, DropRecord(c))
  BY PoisonFacts, InvalidateRecordFacts DEF DropRecord, SameKey, SameBudget

(* Dropping the decryption tag keeps everything else.                      *)
LEMMA DropTagFacts ==
  ASSUME NEW c \in Context
  PROVE  /\ DropTag(c) \in Context
         /\ DropTag(c).phase = c.phase
         /\ DropTag(c).encrypt = c.encrypt
         /\ DropTag(c).key_valid = c.key_valid
         /\ DropTag(c).needs_reinit = c.needs_reinit
         /\ DropTag(c).record_reserved = c.record_reserved
         /\ SameKey(c, DropTag(c))
         /\ SameBudget(c, DropTag(c))
  BY DEF DropTag, Context, SameKey, SameBudget

(* An initialisation gives up the key in place before it tries another.    *)
LEMMA BeginInitFacts ==
  ASSUME NEW c \in Context, NEW a \in InitCalls
  PROVE  /\ BeginInit(c, a) \in Context
         /\ BeginInit(c, a).key_valid => c.key_valid /\ ~HasKey(a)
         /\ ~HasKey(a) => BeginInit(c, a).key_valid = c.key_valid
         /\ SameKey(c, BeginInit(c, a))
         /\ SameBudget(c, BeginInit(c, a))
<1> DEFINE d == IF DirectionChange(c, a) \/ HasKey(a) THEN InvalidateRecord(c)
                ELSE IF HasTag(a) THEN DropTag(c) ELSE c
<1>1. /\ d \in Context
      /\ d.key_valid = c.key_valid
      /\ SameKey(c, d) /\ SameBudget(c, d)
  BY InvalidateRecordFacts, DropTagFacts DEF SameKey, SameBudget
<1>2. BeginInit(c, a) = IF HasKey(a) THEN [d EXCEPT !.key_valid = FALSE] ELSE d
  BY DEF BeginInit
<1> HIDE DEF d
<1> QED
  BY <1>1, <1>2 DEF Context, SameKey, SameBudget

(* Noting the key of an initialisation marks it when it is another one.    *)
LEMMA RecordCurrentKeyFacts ==
  ASSUME NEW c \in Context, NEW k \in Keys
  PROVE  /\ RecordCurrentKey(c, k) \in Context
         /\ RecordCurrentKey(c, k).current_key = k
         /\ RecordCurrentKey(c, k).current_key_changed
              \/ (c.current_key = k /\ SameKey(c, RecordCurrentKey(c, k)))
         /\ SameBudget(c, RecordCurrentKey(c, k))
  BY DEF RecordCurrentKey, Context, MaybeKey, SameKey, SameBudget

(* A completed initialisation: its key is the current one, or the current  *)
(* one is kept; a mark of change is only ever set.                         *)
LEMMA CommitInitFacts ==
  ASSUME NEW c \in Context, NEW a \in InitCalls
  PROVE  /\ CommitInit(c, a) \in Context
         /\ CommitInit(c, a).encrypt = a.encrypt
         /\ HasKey(a) => /\ CommitInit(c, a).key_valid
                         /\ CommitInit(c, a).current_key = a.key
         /\ ~HasKey(a) => /\ CommitInit(c, a).key_valid = c.key_valid
                          /\ CommitInit(c, a).current_key = c.current_key
         /\ ~CommitInit(c, a).current_key_changed => SameKey(c, CommitInit(c, a))
         /\ SameBudget(c, CommitInit(c, a))
<1> DEFINE d == BeginInit(c, a)
           r == RecordCurrentKey(d, a.key)
           k == IF HasKey(a) THEN [r EXCEPT !.key_valid = TRUE] ELSE d
<1>1. /\ d \in Context /\ SameKey(c, d) /\ SameBudget(c, d)
      /\ ~HasKey(a) => d.key_valid = c.key_valid
  BY BeginInitFacts
<1>2. HasKey(a) => a.key \in Keys
  BY DEF HasKey, InitCalls, MaybeKey
<1>3. HasKey(a) => /\ r \in Context /\ r.current_key = a.key
                   /\ ~r.current_key_changed => SameKey(c, r)
                   /\ SameBudget(c, r)
  BY <1>1, <1>2, RecordCurrentKeyFacts DEF SameKey, SameBudget
<1> HIDE DEF d, r
<1>4. /\ k \in Context
      /\ HasKey(a) => k.key_valid /\ k.current_key = a.key
      /\ ~HasKey(a) => k.key_valid = c.key_valid /\ k.current_key = c.current_key
      /\ ~k.current_key_changed => SameKey(c, k)
      /\ SameBudget(c, k)
  <2> DEFINE v == [r EXCEPT !.key_valid = TRUE]
  <2>1. CASE HasKey(a)
    <3>1. /\ v \in Context /\ v.key_valid
          /\ SameKey(r, v) /\ SameBudget(r, v)
      BY <1>3, <2>1 DEF Context, SameKey, SameBudget
    <3>2. k = v
      BY <2>1
    <3> HIDE DEF v, k
    <3> QED
      BY <1>3, <2>1, <3>1, <3>2 DEF SameKey, SameBudget
  <2>2. CASE ~HasKey(a)
    BY <1>1, <2>2 DEF SameKey
  <2> QED
    BY <2>1, <2>2
<1>5. CommitInit(c, a) = [k EXCEPT !.encrypt = a.encrypt, !.direction_set = TRUE]
  BY DEF CommitInit, d, r
<1>6. a.encrypt \in BOOLEAN
  BY DEF InitCalls
<1> HIDE DEF k
<1> QED
  BY <1>4, <1>5, <1>6 DEF Context, SameKey, SameBudget

(* Installing the write key makes the budget that of the current key.      *)
LEMMA InstallWriteKeyFacts ==
  ASSUME NEW c \in Context
  PROVE  LET d == InstallWriteKey(c)
         IN  /\ d \in Context
             /\ ~d.current_key_changed /\ ~d.record_reserved
             /\ d.current_key = c.current_key
             /\ d.key_valid = c.key_valid /\ d.encrypt = c.encrypt
             /\ WriteKeyUnchanged(c) \/ c.usage_key = c.current_key
                  => SameBudget(c, d)
             /\ ~(WriteKeyUnchanged(c) \/ c.usage_key = c.current_key)
                  => /\ d.usage_key = c.current_key
                     /\ d.encrypted_records = 0 /\ ~d.usage_exhausted
<1> DEFINE kept == [c EXCEPT !.current_key_changed = FALSE, !.record_reserved = FALSE]
           fresh == [kept EXCEPT !.usage_key = c.current_key,
                                 !.encrypted_records = 0,
                                 !.usage_exhausted = FALSE]
<1>1. /\ kept \in Context
      /\ ~kept.current_key_changed /\ ~kept.record_reserved
      /\ kept.current_key = c.current_key
      /\ kept.key_valid = c.key_valid /\ kept.encrypt = c.encrypt
      /\ SameBudget(c, kept)
  BY DEF Context, SameBudget
<1> HIDE DEF kept
<1>2. /\ fresh \in Context
      /\ ~fresh.current_key_changed /\ ~fresh.record_reserved
      /\ fresh.current_key = c.current_key
      /\ fresh.key_valid = c.key_valid /\ fresh.encrypt = c.encrypt
      /\ fresh.usage_key = c.current_key
      /\ fresh.encrypted_records = 0 /\ ~fresh.usage_exhausted
  BY <1>1, LimitFacts DEF Context
<1>3. InstallWriteKey(c) = IF WriteKeyUnchanged(c) \/ c.usage_key = c.current_key
                           THEN kept ELSE fresh
  BY DEF InstallWriteKey, kept
<1> HIDE DEF fresh
<1> QED
  BY <1>1, <1>2, <1>3

(* Opening a record keeps the key and the budget.                          *)
LEMMA OpenRecordFacts ==
  ASSUME NEW c \in Context, NEW a \in InitCalls
  PROVE  LET d == OpenRecord(c, a)
         IN  /\ d \in Context
             /\ d.phase = "MANIFEST_PENDING" /\ ~d.needs_reinit
             /\ d.encrypt = c.encrypt /\ d.key_valid = c.key_valid
             /\ d.record_reserved = c.record_reserved
             /\ SameKey(c, d) /\ SameBudget(c, d)
<1>1. OpenRecord(c, a) \in Context
  BY DEF OpenRecord, Context, Phases, HasTag
<1> QED
  BY <1>1 DEF OpenRecord, Context, SameKey, SameBudget

-----------------------------------------------------------------------------
(* The budget.  UsageWithinLimit is not inductive: that a record is charged *)
(* once, and to the right key, takes the agreement of the two contexts on  *)
(* key and direction, the soundness of the fast path, and the reservation  *)
(* of the open record.                                                     *)
BudgetInv ==
  /\ TypeOK
  /\ KeyAgreement
  /\ FastPathSound
  /\ BudgetOfOpenRecord
  /\ CounterExact

(* The invariant holds of a new context.                                   *)
LEMMA InitBudgetInv == Init => BudgetInv
<1> SUFFICES ASSUME Init PROVE BudgetInv
    OBVIOUS
<1>1. TypeOK
    BY LimitFacts DEF Init, TypeOK, Context, InnerContext, Phases, MaybeKey, Calls
<1>2. KeyAgreement /\ FastPathSound /\ BudgetOfOpenRecord /\ CounterExact
    BY LimitFacts DEF Init, KeyAgreement, FastPathSound, BudgetOfOpenRecord, CounterExact
<1> QED
    BY <1>1, <1>2 DEF BudgetInv

(* A step that leaves no record keeps the invariant when a usable key is   *)
(* still the inner one and a changed key is marked.                        *)
LEMMA NoRecordStep ==
  ASSUME BudgetInv, ctx' \in Context, inner' \in InnerContext,
         NEW call \in Calls, NEW ok \in BOOLEAN, Returns(call, ok),
         ctx'.phase = "NO_RECORD",
         ctx'.key_valid => ctx'.current_key # NoKey /\ inner'.key = ctx'.current_key,
         ~ctx'.current_key_changed => SameKey(ctx, ctx'),
         SameBudget(ctx, ctx'), UNCHANGED installed
  PROVE  BudgetInv'
<1>1. TypeOK'
  BY DEF BudgetInv, TypeOK, Returns
<1>2. KeyAgreement' /\ BudgetOfOpenRecord'
  BY DEF KeyAgreement, BudgetOfOpenRecord
<1>3. FastPathSound'
  BY DEF BudgetInv, FastPathSound, SameKey, SameBudget
<1>4. CounterExact'
  BY DEF BudgetInv, CounterExact, SameBudget
<1> QED
  BY <1>1, <1>2, <1>3, <1>4 DEF BudgetInv

(* A step that goes on with the record, poisoned or not, and charges       *)
(* nothing.                                                                *)
LEMMA SameRecordStep ==
  ASSUME BudgetInv, ctx' \in Context, inner' \in InnerContext,
         NEW call \in Calls, NEW ok \in BOOLEAN, Returns(call, ok),
         ctx.phase # "NO_RECORD" \/ ctx'.phase = "NO_RECORD",
         ctx'.phase = "MANIFEST_PENDING" <=> ctx.phase = "MANIFEST_PENDING",
         ctx'.encrypt = ctx.encrypt, ctx'.key_valid = ctx.key_valid,
         ctx'.record_reserved = ctx.record_reserved,
         ctx.needs_reinit => ctx'.needs_reinit,
         SameKey(ctx, ctx'), SameBudget(ctx, ctx'),
         inner'.key = inner.key, inner'.encrypt = inner.encrypt,
         UNCHANGED installed
  PROVE  BudgetInv'
<1>1. TypeOK'
  BY DEF BudgetInv, TypeOK, Returns
<1>2. KeyAgreement'
  BY DEF BudgetInv, KeyAgreement, SameKey
<1>3. BudgetOfOpenRecord'
  BY DEF BudgetInv, BudgetOfOpenRecord, SameKey
<1>4. FastPathSound'
  BY DEF BudgetInv, FastPathSound, SameKey, SameBudget
<1>5. CounterExact'
  BY DEF BudgetInv, CounterExact, SameBudget
<1> QED
  BY <1>1, <1>2, <1>3, <1>4, <1>5 DEF BudgetInv

(* The inner initialisation takes the key and the direction it is given.   *)
LEMMA InnerInitFacts ==
  ASSUME NEW i \in InnerContext, NEW a \in InitCalls
  PROVE  /\ InnerInit(i, a) \in InnerContext
         /\ InnerInit(i, a).key = IF HasKey(a) THEN a.key ELSE i.key
         /\ InnerInit(i, a).encrypt = a.encrypt
<1> DEFINE key == IF HasKey(a) THEN a.key ELSE i.key
           tag == IF a.tag # "absent" THEN "current"
                  ELSE IF a.iv /\ i.tag # "none" THEN "earlier" ELSE i.tag
           log == IF a.iv THEN <<>> ELSE i.log
           sealed == IF a.iv THEN FALSE ELSE i.sealed
<1>1. /\ key \in MaybeKey /\ tag \in {"none", "current", "earlier"}
      /\ sealed \in BOOLEAN /\ a.encrypt \in BOOLEAN
  BY DEF InnerContext, InitCalls
<1>2. log \in Seq({"manifest"} \union Data)
  BY DEF InnerContext
<1>3. InnerInit(i, a) = [key |-> key, encrypt |-> a.encrypt, tag |-> tag,
                         log |-> log, sealed |-> sealed]
  BY DEF InnerInit, HasKey
<1> HIDE DEF tag, log, sealed
<1> QED
  BY <1>1, <1>2, <1>3 DEF InnerContext

(* A failing one changes the key only when it was given one.               *)
LEMMA InnerInitFailureFacts ==
  ASSUME NEW i \in InnerContext, NEW a \in InitCalls,
         NEW j \in InnerInitFailures(i, a)
  PROVE  j \in InnerContext /\ (~HasKey(a) => j.key = i.key)
<1> DEFINE tagless == [a EXCEPT !.tag = "absent"]
           keyless == [a EXCEPT !.key = NoKey, !.tag = "absent"]
<1>1. /\ tagless \in InitCalls /\ tagless.key = a.key
      /\ keyless \in InitCalls /\ keyless.key = NoKey
  BY DEF InitCalls, MaybeKey
<1>2. j \in {i, [i EXCEPT !.encrypt = a.encrypt], InnerInit(i, keyless),
             InnerInit(i, tagless), InnerInit(i, a)}
  BY DEF InnerInitFailures
<1> HIDE DEF tagless, keyless
<1>3. \A b \in {keyless, tagless, a} :
        /\ InnerInit(i, b) \in InnerContext
        /\ ~HasKey(a) => InnerInit(i, b).key = i.key
  <2>1. SUFFICES ASSUME NEW b \in {keyless, tagless, a}
                 PROVE  /\ InnerInit(i, b) \in InnerContext
                        /\ ~HasKey(a) => InnerInit(i, b).key = i.key
    OBVIOUS
  <2>2. b \in InitCalls /\ (HasKey(b) => HasKey(a))
    BY <1>1 DEF HasKey
  <2> QED
    BY <2>2, InnerInitFacts
<1>4. /\ [i EXCEPT !.encrypt = a.encrypt] \in InnerContext
      /\ [i EXCEPT !.encrypt = a.encrypt].key = i.key
  BY DEF InnerContext, InitCalls
<1> QED
  BY <1>2, <1>3, <1>4

(* A refused initialisation gives up the tag, the record, or nothing.      *)
LEMMA RefuseInitFacts ==
  ASSUME NEW c \in Context, NEW a \in InitCalls
  PROVE  RefuseInit(c, a) \in {c, DropTag(c), InvalidateRecord(c)}
  BY DEF RefuseInit

(* Initialisations that fail leave no record, or the record as it was.     *)
LEMMA InitFailsStep ==
  ASSUME BudgetInv, NEW a \in InitCalls,
         InitRefused(a) \/ InitInnerFails(a) \/ InitRecordKeyFails(a)
           \/ InitInstallFails(a)
  PROVE  BudgetInv'
<1>1. /\ ctx \in Context /\ inner \in InnerContext
      /\ "init" \in Calls /\ FALSE \in BOOLEAN
      /\ ctx.key_valid => ctx.current_key # NoKey /\ inner.key = ctx.current_key
  BY DEF BudgetInv, TypeOK, KeyAgreement, Calls
<1>2. CASE InitRefused(a)
  <2>1. ctx' \in {ctx, DropTag(ctx), InvalidateRecord(ctx)}
        /\ inner' = inner /\ installed' = installed /\ Returns("init", FALSE)
    BY <1>1, <1>2, RefuseInitFacts DEF InitRefused
  <2>2. CASE ctx' = InvalidateRecord(ctx)
    BY <1>1, <2>1, <2>2, InvalidateRecordFacts, NoRecordStep DEF SameKey
  <2>3. CASE ctx' = DropTag(ctx)
    BY <1>1, <2>1, <2>3, DropTagFacts, SameRecordStep
  <2>4. CASE ctx' = ctx
    BY <1>1, <2>1, <2>4, SameRecordStep DEF SameKey, SameBudget
  <2> QED
    BY <2>1, <2>2, <2>3, <2>4
<1>3. CASE InitInnerFails(a) \/ InitRecordKeyFails(a)
  <2> DEFINE d == BeginInit(ctx, a)
  <2>1. /\ d \in Context /\ SameKey(ctx, d) /\ SameBudget(ctx, d)
        /\ d.key_valid => ctx.key_valid /\ ~HasKey(a)
    BY <1>1, BeginInitFacts
  <2>2. /\ ctx' = DropRecord(d) /\ installed' = installed
        /\ Returns("init", FALSE)
    BY <1>3 DEF InitInnerFails, InitRecordKeyFails
  <2>3. inner' \in InnerContext /\ (~HasKey(a) => inner'.key = inner.key)
    BY <1>1, <1>3, InnerInitFacts, InnerInitFailureFacts
       DEF InitInnerFails, InitRecordKeyFails
  <2> HIDE DEF d
  <2>4. /\ ctx' \in Context /\ ctx'.phase = "NO_RECORD"
        /\ ctx'.key_valid = d.key_valid
        /\ SameKey(ctx, ctx') /\ SameBudget(ctx, ctx')
    BY <2>1, <2>2, DropRecordFacts DEF SameKey, SameBudget
  <2>5. ctx'.key_valid => ctx'.current_key # NoKey /\ inner'.key = ctx'.current_key
    BY <1>1, <2>1, <2>3, <2>4 DEF SameKey
  <2> QED
    BY <1>1, <2>2, <2>3, <2>4, <2>5, NoRecordStep
<1>4. CASE InitInstallFails(a)
  <2> DEFINE c == CommitInit(ctx, a)
  <2>1. /\ ctx' = DropRecord(c) /\ inner' = InnerInit(inner, a)
        /\ installed' = installed /\ Returns("init", FALSE)
        /\ InitReachesInner(a) /\ a.iv
    BY <1>4 DEF InitInstallFails
  <2>2. /\ c \in Context
        /\ HasKey(a) => c.key_valid /\ c.current_key = a.key
        /\ ~HasKey(a) => /\ c.key_valid = ctx.key_valid
                         /\ c.current_key = ctx.current_key
        /\ ~c.current_key_changed => SameKey(ctx, c)
        /\ SameBudget(ctx, c)
    BY <1>1, CommitInitFacts
  <2>3. inner' \in InnerContext
        /\ inner'.key = IF HasKey(a) THEN a.key ELSE inner.key
    BY <1>1, <2>1, InnerInitFacts
  <2>4. /\ ctx' \in Context /\ ctx'.phase = "NO_RECORD"
        /\ ctx'.key_valid = c.key_valid
        /\ SameKey(c, ctx') /\ SameBudget(c, ctx')
    BY <2>1, <2>2, DropRecordFacts
  <2> HIDE DEF c
  <2>5. ctx'.key_valid => ctx'.current_key # NoKey /\ inner'.key = ctx'.current_key
    BY <1>1, <2>2, <2>3, <2>4 DEF SameKey, HasKey
  <2>6. /\ ~ctx'.current_key_changed => SameKey(ctx, ctx')
        /\ SameBudget(ctx, ctx')
    BY <2>2, <2>4 DEF SameKey, SameBudget
  <2> QED
    BY <1>1, <2>1, <2>3, <2>4, <2>5, <2>6, NoRecordStep
<1> QED
  BY <1>2, <1>3, <1>4

(* An initialisation without an IV leaves no record.                       *)
LEMMA InitWithoutRecordStep ==
  ASSUME BudgetInv, NEW a \in InitCalls, InitWithoutRecord(a)
  PROVE  BudgetInv'
<1> DEFINE c == CommitInit(ctx, a)
<1>1. /\ ctx \in Context /\ inner \in InnerContext
      /\ "init" \in Calls /\ TRUE \in BOOLEAN
      /\ ctx.key_valid => ctx.current_key # NoKey /\ inner.key = ctx.current_key
  BY DEF BudgetInv, TypeOK, KeyAgreement, Calls
<1>2. /\ ctx' = InvalidateRecord(c) /\ inner' = InnerInit(inner, a)
      /\ installed' = installed /\ Returns("init", TRUE)
  BY DEF InitWithoutRecord
<1>3. /\ c \in Context
      /\ HasKey(a) => c.key_valid /\ c.current_key = a.key
      /\ ~HasKey(a) => c.key_valid = ctx.key_valid /\ c.current_key = ctx.current_key
      /\ ~c.current_key_changed => SameKey(ctx, c)
      /\ SameBudget(ctx, c)
  BY <1>1, CommitInitFacts
<1>4. inner' \in InnerContext
      /\ inner'.key = IF HasKey(a) THEN a.key ELSE inner.key
  BY <1>1, <1>2, InnerInitFacts
<1>5. /\ ctx' \in Context /\ ctx'.phase = "NO_RECORD"
      /\ ctx'.key_valid = c.key_valid
      /\ SameKey(c, ctx') /\ SameBudget(c, ctx')
  BY <1>2, <1>3, InvalidateRecordFacts
<1> HIDE DEF c
<1>6. ctx'.key_valid => ctx'.current_key # NoKey /\ inner'.key = ctx'.current_key
  BY <1>1, <1>3, <1>4, <1>5 DEF SameKey, HasKey
<1>7. /\ ~ctx'.current_key_changed => SameKey(ctx, ctx')
      /\ SameBudget(ctx, ctx')
  BY <1>3, <1>5 DEF SameKey, SameBudget
<1> QED
  BY <1>1, <1>2, <1>4, <1>5, <1>6, <1>7, NoRecordStep

(* Opening an encryption record installs the current key: the history of   *)
(* the inner context and the accounting agree on whether it is another key.*)
LEMMA InitRecordStep ==
  ASSUME BudgetInv, NEW a \in InitCalls, InitRecord(a)
  PROVE  BudgetInv'
<1> DEFINE c == CommitInit(ctx, a)
           d == IF a.encrypt THEN InstallWriteKey(c) ELSE c
<1>1. /\ ctx \in Context /\ inner \in InnerContext
      /\ installed \in [key : MaybeKey, records : Nat]
      /\ ctx.key_valid => ctx.current_key # NoKey /\ inner.key = ctx.current_key
      /\ ~ctx.current_key_changed => ctx.usage_key = ctx.current_key
  BY DEF BudgetInv, TypeOK, KeyAgreement, FastPathSound
<1>2. /\ ctx' = OpenRecord(d, a) /\ inner' = InnerInit(inner, a)
      /\ IF a.encrypt THEN Install(inner'.key) ELSE installed' = installed
      /\ ret' = [call |-> "init", ok |-> TRUE]
      /\ HasKey(a) \/ ctx.key_valid
  BY DEF InitRecord, InitReachesInner, LacksKey, Returns
<1>3. /\ c \in Context /\ c.encrypt = a.encrypt
      /\ HasKey(a) => c.key_valid /\ c.current_key = a.key
      /\ ~HasKey(a) => c.key_valid = ctx.key_valid /\ c.current_key = ctx.current_key
      /\ ~c.current_key_changed => SameKey(ctx, c)
      /\ SameBudget(ctx, c)
  BY <1>1, CommitInitFacts
<1>4. /\ inner' \in InnerContext /\ inner'.encrypt = a.encrypt
      /\ inner'.key = IF HasKey(a) THEN a.key ELSE inner.key
  BY <1>1, <1>2, InnerInitFacts
<1> HIDE DEF c
<1>5. /\ d \in Context /\ d.current_key = c.current_key
      /\ d.key_valid = c.key_valid /\ d.encrypt = c.encrypt
      /\ a.encrypt => ~d.current_key_changed /\ ~d.record_reserved
      /\ ~a.encrypt => SameKey(c, d)
  BY <1>3, InstallWriteKeyFacts DEF SameKey
<1>6. CASE a.encrypt /\ ~(WriteKeyUnchanged(c) \/ c.usage_key = c.current_key)
  <2>1. /\ d.usage_key = c.current_key /\ c.usage_key # c.current_key
        /\ d.encrypted_records = 0 /\ ~d.usage_exhausted
    BY <1>3, <1>6, InstallWriteKeyFacts
  <2> QED
    <3>1. /\ ctx' \in Context /\ ctx'.phase = "MANIFEST_PENDING"
          /\ ctx'.encrypt = d.encrypt /\ ctx'.key_valid = d.key_valid
          /\ ctx'.record_reserved = d.record_reserved
          /\ SameKey(d, ctx') /\ SameBudget(d, ctx')
      BY <1>2, <1>5, OpenRecordFacts
    <3> HIDE DEF d
    <3>2. inner'.key = ctx'.current_key /\ ctx'.key_valid /\ inner'.key # NoKey
      BY <1>1, <1>2, <1>3, <1>4, <1>5, <3>1 DEF SameKey, HasKey
    <3>3. installed' = [key |-> inner'.key, records |-> 0]
      <4>1. installed.key = c.usage_key
        BY <1>3 DEF BudgetInv, CounterExact, SameBudget
      <4>2. inner'.key = c.current_key
        BY <1>5, <3>1, <3>2 DEF SameKey
      <4>3. Install(inner'.key)
        BY <1>2, <1>6
      <4> QED
        BY <2>1, <4>1, <4>2, <4>3 DEF Install
    <3>4. TypeOK'
      BY <1>2, <1>4, <3>1, <3>3 DEF TypeOK, Calls, InnerContext
    <3>5. KeyAgreement' /\ BudgetOfOpenRecord'
      BY <1>3, <1>4, <1>5, <1>6, <3>1, <3>2
         DEF KeyAgreement, BudgetOfOpenRecord, SameKey
    <3>6. /\ ctx'.usage_key = ctx'.current_key
          /\ ctx'.encrypted_records = 0 /\ ctx'.usage_exhausted = FALSE
      BY <1>5, <2>1, <3>1 DEF SameKey, SameBudget, Context
    <3>7. FastPathSound' /\ CounterExact'
      BY <3>2, <3>3, <3>6, LimitFacts DEF FastPathSound, CounterExact
    <3> QED
      BY <3>4, <3>5, <3>7 DEF BudgetInv
<1>7. CASE a.encrypt => WriteKeyUnchanged(c) \/ c.usage_key = c.current_key
  <2>1. SameBudget(c, d)
    BY <1>3, <1>7, InstallWriteKeyFacts DEF SameBudget
  <2>2. a.encrypt => c.usage_key = c.current_key
    BY <1>1, <1>3, <1>7 DEF WriteKeyUnchanged, SameKey, SameBudget
  <2>3. /\ ctx' \in Context /\ ctx'.phase = "MANIFEST_PENDING"
        /\ ctx'.encrypt = d.encrypt /\ ctx'.key_valid = d.key_valid
        /\ ctx'.record_reserved = d.record_reserved
        /\ SameKey(d, ctx') /\ SameBudget(d, ctx')
    BY <1>2, <1>5, OpenRecordFacts
  <2> HIDE DEF d
  <2>4. inner'.key = ctx'.current_key /\ ctx'.key_valid /\ inner'.key # NoKey
    BY <1>1, <1>2, <1>3, <1>4, <1>5, <2>3 DEF SameKey, HasKey
  <2>5. installed' = installed
    BY <1>2, <1>3, <1>5, <2>2, <2>3, <2>4
       DEF Install, BudgetInv, CounterExact, SameBudget, SameKey
  <2>6. TypeOK'
    BY <1>1, <1>2, <1>4, <2>3, <2>5 DEF TypeOK, Calls
  <2>7. KeyAgreement' /\ BudgetOfOpenRecord'
    BY <1>3, <1>4, <1>5, <2>3, <2>4
       DEF KeyAgreement, BudgetOfOpenRecord, SameKey
  <2>8. SameBudget(ctx, ctx')
    BY <1>3, <2>1, <2>3 DEF SameBudget
  <2>9. FastPathSound'
    BY <1>1, <1>3, <1>5, <2>2, <2>3, <2>8 DEF FastPathSound, SameKey, SameBudget
  <2>10. CounterExact'
    BY <2>5, <2>8 DEF BudgetInv, CounterExact, SameBudget
  <2> QED
    BY <2>6, <2>7, <2>9, <2>10 DEF BudgetInv
<1> QED
  BY <1>6, <1>7

(* A record that begins takes one unit, and only a record that begins.     *)
LEMMA ReserveFacts ==
  ASSUME RecordLimit < IntMax, BudgetInv, Live(ctx), CanReserve(ctx)
  PROVE  LET d == Reserve(ctx)
             begins == ctx.phase = "MANIFEST_PENDING" /\ ctx.encrypt
         IN  /\ d \in Context /\ SameKey(ctx, d)
             /\ d.phase = ctx.phase /\ d.encrypt = ctx.encrypt
             /\ d.key_valid = ctx.key_valid
             /\ d.usage_key = ctx.usage_key
             /\ d.usage_exhausted = ctx.usage_exhausted
             /\ ctx.encrypt => d.record_reserved
             /\ begins => /\ ~ctx.usage_exhausted
                          /\ d.encrypted_records = ctx.encrypted_records + 1
                          /\ d.encrypted_records <= RecordLimit
             /\ ~begins => d.encrypted_records = ctx.encrypted_records
<1>1. /\ ctx \in Context
      /\ ctx.usage_exhausted <=> ctx.encrypted_records > RecordLimit
      /\ ctx.encrypt => (ctx.record_reserved <=> ctx.phase # "MANIFEST_PENDING")
  BY DEF BudgetInv, TypeOK, CounterExact, BudgetOfOpenRecord, Live
<1>2. CASE MustReserve(ctx)
  <2>1. ~ctx.usage_exhausted /\ AtomicIncrement(ctx.encrypted_records) <= RecordLimit
    BY <1>2 DEF CanReserve, BudgetSpent
  <2>2. ctx.encrypted_records \in Nat /\ ctx.encrypted_records < IntMax
    BY <1>1, <2>1, LimitAssumption, LimitFacts DEF Context
  <2>3. AtomicIncrement(ctx.encrypted_records) = ctx.encrypted_records + 1
    BY <2>2 DEF AtomicIncrement
  <2>4. ctx.encrypted_records + 1 \in 0..RecordLimit + 1
    BY <2>1, <2>2, <2>3, LimitFacts
  <2>5. Reserve(ctx) = [ctx EXCEPT !.encrypted_records = ctx.encrypted_records + 1,
                                   !.record_reserved = TRUE]
    BY <1>2, <2>3 DEF Reserve
  <2>6. ctx.phase = "MANIFEST_PENDING" /\ ctx.encrypt
    BY <1>2 DEF MustReserve
  <2> QED
    BY <1>1, <2>1, <2>3, <2>4, <2>5, <2>6 DEF Context, SameKey
<1>3. CASE ~MustReserve(ctx)
  <2>1. Reserve(ctx) = ctx
    BY <1>3 DEF Reserve
  <2>2. ctx.encrypt => ctx.phase # "MANIFEST_PENDING" /\ ctx.record_reserved
    BY <1>1, <1>3 DEF MustReserve
  <2> QED
    BY <1>1, <2>1, <2>2 DEF SameKey
<1> QED
  BY <1>2, <1>3

(* A step past the injection: the history and the counter are charged      *)
(* together.                                                               *)
LEMMA BegunStep ==
  ASSUME RecordLimit < IntMax, BudgetInv, Live(ctx), CanReserve(ctx),
         ctx' \in Context, inner' \in InnerContext,
         NEW call \in Calls, NEW ok \in BOOLEAN, Returns(call, ok),
         \/ ctx'.phase \in {"ACTIVE", "FINALIZED"}
         \/ ctx'.phase # "NO_RECORD" /\ ctx'.needs_reinit,
         ctx'.encrypt = Reserve(ctx).encrypt,
         ctx'.key_valid = Reserve(ctx).key_valid,
         ctx'.record_reserved = Reserve(ctx).record_reserved,
         SameKey(Reserve(ctx), ctx'), SameBudget(Reserve(ctx), ctx'),
         inner'.key = inner.key, inner'.encrypt = inner.encrypt, Charge
  PROVE  BudgetInv'
<1> DEFINE d == Reserve(ctx)
           begins == ctx.phase = "MANIFEST_PENDING" /\ ctx.encrypt
<1>1. /\ d \in Context /\ SameKey(ctx, d)
      /\ d.encrypt = ctx.encrypt /\ d.key_valid = ctx.key_valid
      /\ d.usage_key = ctx.usage_key /\ d.usage_exhausted = ctx.usage_exhausted
      /\ ctx.encrypt => d.record_reserved
      /\ begins => /\ ~ctx.usage_exhausted
                   /\ d.encrypted_records = ctx.encrypted_records + 1
                   /\ d.encrypted_records <= RecordLimit
      /\ ~begins => d.encrypted_records = ctx.encrypted_records
  BY ReserveFacts
<1>2. /\ ctx.phase # "NO_RECORD" /\ ctx.key_valid
      /\ inner.encrypt = ctx.encrypt
      /\ ctx.current_key # NoKey /\ inner.key = ctx.current_key
      /\ ctx.encrypt => ~ctx.current_key_changed
      /\ installed \in [key : MaybeKey, records : Nat]
  BY DEF BudgetInv, TypeOK, KeyAgreement, BudgetOfOpenRecord, Live
<1> HIDE DEF d
<1>3. installed' = IF begins THEN [installed EXCEPT !.records = @ + 1] ELSE installed
  BY <1>2 DEF Charge
<1>4. TypeOK'
  BY <1>2, <1>3 DEF TypeOK, Returns
<1>5. KeyAgreement'
  BY <1>1, <1>2 DEF KeyAgreement, SameKey, d
<1>6. BudgetOfOpenRecord'
  BY <1>1, <1>2 DEF BudgetOfOpenRecord, SameKey, d
<1>7. FastPathSound'
  BY <1>1 DEF BudgetInv, FastPathSound, SameKey, SameBudget, d
<1>8. CounterExact'
  <2>1. /\ ctx'.usage_key = ctx.usage_key
        /\ ctx'.usage_exhausted = ctx.usage_exhausted
        /\ ctx'.encrypted_records = d.encrypted_records
    BY <1>1 DEF SameBudget, d
  <2>2. CASE begins
    <3>1. /\ installed'.key = installed.key
          /\ installed'.records = installed.records + 1
      BY <1>2, <1>3, <2>2
    <3>2. installed.key = ctx.usage_key /\ installed.records = ctx.encrypted_records
      BY <1>1, <2>2 DEF BudgetInv, CounterExact
    <3>3. ~(ctx'.encrypted_records > RecordLimit)
      BY <1>1, <2>1, <2>2, LimitFacts DEF Context
    <3> QED
      BY <1>1, <2>1, <2>2, <3>1, <3>2, <3>3 DEF CounterExact
  <2>3. CASE ~begins
    BY <1>1, <1>3, <2>1, <2>3 DEF BudgetInv, CounterExact
  <2> QED
    BY <2>2, <2>3
<1> QED
  BY <1>4, <1>5, <1>6, <1>7, <1>8 DEF BudgetInv

(* A refused reservation leaves no record; the one that exceeds the limit  *)
(* is the first, so the history stands exactly at the limit.               *)
LEMMA ReserveFailsStep ==
  ASSUME RecordLimit < IntMax, BudgetInv, NEW call \in Calls, ReserveFails(call)
  PROVE  BudgetInv'
<1> DEFINE n == AtomicIncrement(ctx.encrypted_records)
           e == [ctx EXCEPT !.encrypted_records = n, !.usage_exhausted = TRUE]
<1>1. /\ ctx \in Context /\ inner \in InnerContext
      /\ installed \in [key : MaybeKey, records : Nat]
      /\ ctx.key_valid => ctx.current_key # NoKey /\ inner.key = ctx.current_key
      /\ ~ctx.current_key_changed => ctx.usage_key = ctx.current_key
      /\ ctx.usage_exhausted <=> ctx.encrypted_records > RecordLimit
  BY DEF BudgetInv, TypeOK, KeyAgreement, FastPathSound, CounterExact
<1>2. inner' = inner /\ installed' = installed /\ Returns(call, FALSE)
  BY DEF ReserveFails
<1>3. ctx' = DropRecord(ctx) \/ (~BudgetSpent(ctx) /\ n > RecordLimit /\ ctx' = DropRecord(e))
  BY DEF ReserveFails, ReserveFailures
<1>4. CASE ctx' = DropRecord(ctx)
  <2>1. /\ ctx' \in Context /\ ctx'.phase = "NO_RECORD"
        /\ ctx'.key_valid = ctx.key_valid
        /\ SameKey(ctx, ctx') /\ SameBudget(ctx, ctx')
    BY <1>1, <1>4, DropRecordFacts
  <2>2. ctx'.key_valid => ctx'.current_key # NoKey /\ inner'.key = ctx'.current_key
    BY <1>1, <1>2, <2>1 DEF SameKey
  <2> QED
    BY <1>1, <1>2, <2>1, <2>2, NoRecordStep
<1>5. CASE ~BudgetSpent(ctx) /\ n > RecordLimit /\ ctx' = DropRecord(e)
  <2>1. ~ctx.usage_exhausted /\ ~(ctx.encrypted_records > RecordLimit)
    BY <1>1, <1>5 DEF BudgetSpent
  <2>2. ctx.encrypted_records \in Nat /\ ctx.encrypted_records <= RecordLimit
    BY <1>1, <2>1, LimitFacts DEF Context
  <2>3. n = ctx.encrypted_records + 1
    BY <2>2, LimitAssumption DEF AtomicIncrement
  <2>4. ctx.encrypted_records = RecordLimit /\ n = RecordLimit + 1
    BY <1>5, <2>2, <2>3, LimitFacts
  <2>5. n \in 0..RecordLimit + 1
    BY <2>4, LimitFacts
  <2> HIDE DEF n
  <2>6. /\ e \in Context /\ e.key_valid = ctx.key_valid /\ SameKey(ctx, e)
        /\ e.usage_key = ctx.usage_key /\ e.usage_exhausted = TRUE
        /\ e.encrypted_records = n
    BY <1>1, <2>5 DEF Context, SameKey
  <2> HIDE DEF e
  <2>7. /\ ctx' \in Context /\ ctx'.phase = "NO_RECORD"
        /\ ctx'.key_valid = e.key_valid
        /\ SameKey(e, ctx') /\ SameBudget(e, ctx')
    BY <1>5, <2>6, DropRecordFacts
  <2>8. TypeOK'
    BY <1>1, <1>2, <2>7 DEF TypeOK, Returns
  <2>9. KeyAgreement' /\ BudgetOfOpenRecord'
    BY <1>1, <1>2, <2>6, <2>7 DEF KeyAgreement, BudgetOfOpenRecord, SameKey
  <2>10. FastPathSound'
    BY <1>1, <2>6, <2>7 DEF FastPathSound, SameKey, SameBudget
  <2>11. installed.records = RecordLimit /\ installed.key = ctx.usage_key
    BY <2>1, <2>4 DEF BudgetInv, CounterExact
  <2>12. ctx'.encrypted_records > RecordLimit /\ ctx'.usage_exhausted
    BY <2>4, <2>6, <2>7, LimitFacts DEF SameBudget
  <2>13. CounterExact'
    BY <1>2, <2>6, <2>7, <2>11, <2>12 DEF CounterExact, SameBudget
  <2> QED
    BY <2>8, <2>9, <2>10, <2>13 DEF BudgetInv
<1> QED
  BY <1>3, <1>4, <1>5

(* Absorbing data keeps the key and the direction of the inner context.    *)
LEMMA AbsorbFacts ==
  ASSUME NEW i \in InnerContext, NEW item \in {"manifest"} \union Data
  PROVE  /\ Absorb(i, item) \in InnerContext
         /\ Absorb(i, item).key = i.key /\ Absorb(i, item).encrypt = i.encrypt
<1>1. Append(i.log, item) \in Seq({"manifest"} \union Data)
  BY DEF InnerContext
<1> QED
  BY <1>1 DEF Absorb, InnerContext

(* So does absorbing the manifest.                                         *)
LEMMA WithManifestFacts ==
  ASSUME NEW i \in InnerContext
  PROVE  /\ WithManifest(i) \in InnerContext
         /\ WithManifest(i).key = i.key /\ WithManifest(i).encrypt = i.encrypt
  BY AbsorbFacts DEF WithManifest

(* An injected record is active, and charged when it encrypts.             *)
LEMMA ActivateFacts ==
  ASSUME NEW c \in Context, Reserve(c) \in Context
  PROVE  LET d == Activate(c)
             r == Reserve(c)
         IN  /\ d \in Context /\ d.phase = "ACTIVE"
             /\ d.encrypt = r.encrypt /\ d.key_valid = r.key_valid
             /\ d.record_reserved = r.record_reserved
             /\ SameKey(r, d) /\ SameBudget(r, d)
<1> DEFINE r == Reserve(c)
<1>1. Activate(c) = [r EXCEPT !.phase = "ACTIVE"]
  BY DEF Activate
<1> HIDE DEF r
<1>2. r \in Context => LET d == [r EXCEPT !.phase = "ACTIVE"]
                       IN  /\ d \in Context /\ d.phase = "ACTIVE"
                           /\ d.encrypt = r.encrypt /\ d.key_valid = r.key_valid
                           /\ d.record_reserved = r.record_reserved
                           /\ SameKey(r, d) /\ SameBudget(r, d)
  BY DEF Context, Phases, SameKey, SameBudget
<1> QED
  BY <1>1, <1>2 DEF r

(* Steps of update and final that charge a record and go on.               *)
LEMMA DataStep ==
  ASSUME RecordLimit < IntMax, BudgetInv, Live(ctx),
         \/ \E call \in {"update", "final"} : InjectFails(call)
         \/ \E item \in Data : UpdateInnerFails(item) \/ UpdateOk(item)
         \/ FinalInnerFails
         \/ FinalOk
  PROVE  BudgetInv'
<1> DEFINE r == Reserve(ctx)
           v == Activate(ctx)
<1>1. ctx \in Context /\ inner \in InnerContext
  BY DEF BudgetInv, TypeOK
<1>2. CanReserve(ctx) /\ Charge
  BY DEF InjectFails, UpdateInnerFails, UpdateOk, FinalInnerFails, FinalOk
<1>3. \E call \in Calls, ok \in BOOLEAN : Returns(call, ok)
  BY DEF InjectFails, UpdateInnerFails, UpdateOk, FinalInnerFails, FinalOk, Calls
<1>4. inner' \in InnerContext /\ inner'.key = inner.key /\ inner'.encrypt = inner.encrypt
  <2> DEFINE w == WithManifest(inner)
  <2>1. w \in InnerContext /\ w.key = inner.key /\ w.encrypt = inner.encrypt
    BY <1>1, WithManifestFacts
  <2>2. \/ inner' \in {inner, w, [w EXCEPT !.sealed = TRUE]}
        \/ \E item \in Data : inner' \in {w, Absorb(w, item)}
    BY DEF InjectFails, UpdateInnerFails, UpdateOk, FinalInnerFails, FinalOk
  <2> HIDE DEF w
  <2>3. LET f == [w EXCEPT !.sealed = TRUE]
        IN  f \in InnerContext /\ f.key = w.key /\ f.encrypt = w.encrypt
    BY <2>1 DEF InnerContext
  <2>4. CASE inner' \in {inner, w, [w EXCEPT !.sealed = TRUE]}
    BY <1>1, <2>1, <2>3, <2>4
  <2>5. CASE \E item \in Data : inner' \in {w, Absorb(w, item)}
    BY <2>1, <2>5, AbsorbFacts
  <2> QED
    BY <2>2, <2>4, <2>5
<1>5. /\ r \in Context /\ r.phase = ctx.phase
      /\ v \in Context /\ v.phase = "ACTIVE"
      /\ v.encrypt = r.encrypt /\ v.key_valid = r.key_valid
      /\ v.record_reserved = r.record_reserved
      /\ SameKey(r, v) /\ SameBudget(r, v)
  BY <1>1, <1>2, ReserveFacts, ActivateFacts
<1>6. \/ ctx' \in {v, Poison(r), Poison(v), [v EXCEPT !.payload_started = TRUE]}
      \/ ctx' = [v EXCEPT !.phase = "FINALIZED", !.decrypt_tag_current = FALSE]
  BY DEF InjectFails, UpdateInnerFails, UpdateOk, FinalInnerFails, FinalOk
<1>7. ctx.phase # "NO_RECORD"
  BY DEF Live
<1> HIDE DEF r, v
<1>8. /\ ctx' \in Context
      /\ \/ ctx'.phase \in {"ACTIVE", "FINALIZED"}
         \/ ctx'.phase # "NO_RECORD" /\ ctx'.needs_reinit
      /\ ctx'.encrypt = r.encrypt /\ ctx'.key_valid = r.key_valid
      /\ ctx'.record_reserved = r.record_reserved
      /\ SameKey(r, ctx') /\ SameBudget(r, ctx')
  <2>1. CASE ctx' = v
    BY <1>5, <2>1
  <2>2. CASE ctx' = Poison(r)
    BY <1>5, <1>7, <2>2 DEF Poison, Context, SameKey, SameBudget
  <2>3. CASE ctx' = Poison(v)
    BY <1>5, <2>3 DEF Poison, Context, SameKey, SameBudget
  <2>4. CASE ctx' = [v EXCEPT !.payload_started = TRUE]
    BY <1>5, <2>4 DEF Context, SameKey, SameBudget
  <2>5. CASE ctx' = [v EXCEPT !.phase = "FINALIZED", !.decrypt_tag_current = FALSE]
    BY <1>5, <2>5 DEF Context, Phases, SameKey, SameBudget
  <2> QED
    BY <1>6, <2>1, <2>2, <2>3, <2>4, <2>5
<1>9. PICK call \in Calls, ok \in BOOLEAN : Returns(call, ok)
  BY <1>3
<1>10. /\ ctx'.encrypt = Reserve(ctx).encrypt
       /\ ctx'.key_valid = Reserve(ctx).key_valid
       /\ ctx'.record_reserved = Reserve(ctx).record_reserved
       /\ SameKey(Reserve(ctx), ctx') /\ SameBudget(Reserve(ctx), ctx')
  BY <1>8 DEF r
<1> QED
  BY <1>2, <1>4, <1>8, <1>9, <1>10, BegunStep

(* Steps that reach no budget at all.                                      *)
LEMMA OtherStep ==
  ASSUME BudgetInv,
         \/ UpdateRefused \/ UpdateEmpty \/ FinalRefused \/ FinalMisused
         \/ \E ok \in BOOLEAN : SetOther(ok) \/ GetOther(ok)
         \/ SetTag \/ GetTag
  PROVE  BudgetInv'
<1>1. ctx \in Context /\ inner \in InnerContext
  BY DEF BudgetInv, TypeOK
<1>2. ctx' \in {ctx, DropTag(ctx), Poison(ctx), [ctx EXCEPT !.decrypt_tag_current = TRUE]}
  BY DEF UpdateRefused, UpdateEmpty, FinalRefused, FinalMisused, SetOther, GetOther,
         SetTag, TagRefused, TagInnerFails, TagAccepted,
         GetTag, GetTagInnerFails, GetTagOk
<1>3. inner' \in {inner, [inner EXCEPT !.tag = "current"]} /\ installed' = installed
  BY DEF UpdateRefused, UpdateEmpty, FinalRefused, FinalMisused, SetOther, GetOther,
         SetTag, TagRefused, TagInnerFails, TagAccepted,
         GetTag, GetTagInnerFails, GetTagOk
<1>4. \E call \in Calls, ok \in BOOLEAN : Returns(call, ok)
  BY DEF UpdateRefused, UpdateEmpty, FinalRefused, FinalMisused, SetOther, GetOther,
         SetTag, TagRefused, TagInnerFails, TagAccepted,
         GetTag, GetTagInnerFails, GetTagOk, Calls
<1>5. /\ ctx' \in Context /\ ctx'.phase = ctx.phase
      /\ ctx'.encrypt = ctx.encrypt /\ ctx'.key_valid = ctx.key_valid
      /\ ctx'.record_reserved = ctx.record_reserved
      /\ ctx.needs_reinit => ctx'.needs_reinit
      /\ SameKey(ctx, ctx') /\ SameBudget(ctx, ctx')
  BY <1>1, <1>2 DEF DropTag, Poison, Context, SameKey, SameBudget
<1>6. /\ inner' \in InnerContext
      /\ inner'.key = inner.key /\ inner'.encrypt = inner.encrypt
  BY <1>1, <1>3 DEF InnerContext
<1> QED
  BY <1>3, <1>4, <1>5, <1>6, SameRecordStep

(* Every step of the context keeps the invariant.                          *)
LEMMA BudgetInvStep ==
  ASSUME RecordLimit < IntMax, BudgetInv, [Next]_vars
  PROVE  BudgetInv'
<1>1. CASE \E a \in InitCalls : CipherInit(a)
  BY <1>1, InitFailsStep, InitWithoutRecordStep, InitRecordStep DEF CipherInit
<1>2. CASE \E item \in Data : Update(item)
  <2>1. CASE ReserveFails("update")
    BY <2>1, ReserveFailsStep DEF Calls
  <2>2. CASE ~ReserveFails("update")
    BY <1>2, <2>2, DataStep DEF Update, UpdateAccepts
  <2> QED
    BY <2>1, <2>2
<1>3. CASE Final
  <2>1. CASE ReserveFails("final")
    BY <2>1, ReserveFailsStep DEF Calls
  <2>2. CASE ~ReserveFails("final")
    BY <1>3, <2>2, DataStep DEF Final, FinalAccepts
  <2> QED
    BY <2>1, <2>2
<1>4. CASE \/ UpdateRefused \/ UpdateEmpty \/ FinalRefused \/ FinalMisused
           \/ \E ok \in BOOLEAN : SetOther(ok) \/ GetOther(ok)
           \/ SetTag \/ GetTag
  BY <1>4, OtherStep
<1>5. CASE UNCHANGED vars
  BY <1>5 DEF vars, BudgetInv, TypeOK, KeyAgreement, FastPathSound,
              BudgetOfOpenRecord, CounterExact
<1> QED
  BY <1>1, <1>2, <1>3, <1>4, <1>5 DEF Next

(* The invariant bounds the history: an exhausted key encrypted RecordLimit *)
(* records, another one as many as its counter says.                       *)
LEMMA BudgetInvBounds == BudgetInv => UsageWithinLimit
<1> SUFFICES ASSUME BudgetInv PROVE UsageWithinLimit
  OBVIOUS
<1>1. ctx \in Context
  BY DEF BudgetInv, TypeOK
<1>2. CASE ctx.usage_exhausted
  BY <1>2, LimitFacts DEF BudgetInv, CounterExact, UsageWithinLimit
<1>3. CASE ~ctx.usage_exhausted
  BY <1>1, <1>3, LimitFacts DEF BudgetInv, CounterExact, UsageWithinLimit, Context
<1> QED
  BY <1>2, <1>3

(* Whatever the caller does, and whichever inner call, lock or atomic add  *)
(* fails, the context keeps its domains, agrees with the inner context on  *)
(* key and direction, and charges every record to its key exactly once.    *)
THEOREM BudgetInvariant == ASSUME RecordLimit < IntMax PROVE Spec => []BudgetInv
<1>1. Init => BudgetInv
  BY InitBudgetInv
<1>2. BudgetInv /\ [Next]_vars => BudgetInv'
  BY BudgetInvStep
<1> QED
  BY <1>1, <1>2, PTL DEF Spec

(* TypeOK for every set of keys and every limit below INT_MAX.             *)
THEOREM TypeCorrect == ASSUME RecordLimit < IntMax PROVE Spec => []TypeOK
<1>1. BudgetInv => TypeOK
  BY DEF BudgetInv
<1> QED
  BY <1>1, BudgetInvariant, PTL

(* The outer and the inner context agree on key and direction.             *)
THEOREM KeysAgree == ASSUME RecordLimit < IntMax PROVE Spec => []KeyAgreement
<1>1. BudgetInv => KeyAgreement
  BY DEF BudgetInv
<1> QED
  BY <1>1, BudgetInvariant, PTL

(* No write key encrypts more than RecordLimit records in an installation. *)
THEOREM WriteKeyBudget == ASSUME RecordLimit < IntMax PROVE Spec => []UsageWithinLimit
<1> QED
  BY BudgetInvBounds, BudgetInvariant, PTL

(* The fast path of the installation compares no keys, and none differ.    *)
THEOREM FastPath == ASSUME RecordLimit < IntMax PROVE Spec => []FastPathSound
<1>1. BudgetInv => FastPathSound
  BY DEF BudgetInv
<1> QED
  BY <1>1, BudgetInvariant, PTL

(* An open encryption record draws on the budget of its own key, and an    *)
(* unstarted one has no reservation left from another record.              *)
THEOREM RecordBudget == ASSUME RecordLimit < IntMax PROVE Spec => []BudgetOfOpenRecord
<1>1. BudgetInv => BudgetOfOpenRecord
  BY DEF BudgetInv
<1> QED
  BY <1>1, BudgetInvariant, PTL

(* No failure and no retry loses or repeats a charge of the counter.       *)
THEOREM CounterOfRecords == ASSUME RecordLimit < IntMax PROVE Spec => []CounterExact
<1>1. BudgetInv => CounterExact
  BY DEF BudgetInv
<1> QED
  BY <1>1, BudgetInvariant, PTL

-----------------------------------------------------------------------------
(* No decryption is accepted against the tag of an earlier record.         *)

(* AcceptedWithCurrentTag is not inductive: Final accepts on the flag that *)
(* the calls before it left, so the flag must be right at every moment.    *)
TagInv ==
  /\ AcceptedWithCurrentTag
  /\ ctx.decrypt_tag_current => inner.tag = "current"

-----------------------------------------------------------------------------
(* The fields that matter here; counter values are of no account.          *)
Shaped(c) ==
  {"phase", "encrypt", "payload_started", "decrypt_tag_current",
   "needs_reinit", "encrypted_records", "record_reserved"} \subseteq DOMAIN c

(* A context has them.                                                     *)
LEMMA ContextShaped == \A c \in Context : Shaped(c)
  BY DEF Context, Shaped

(* A context that gives its record up has no tag left for the next one.    *)
LEMMA NoTagFacts ==
  ASSUME NEW c, Shaped(c)
  PROVE  /\ ~DropTag(c).decrypt_tag_current
         /\ DropTag(c).phase = c.phase /\ DropTag(c).encrypt = c.encrypt
         /\ ~Poison(c).decrypt_tag_current
         /\ Poison(c).phase = c.phase /\ Poison(c).encrypt = c.encrypt
         /\ ~InvalidateRecord(c).decrypt_tag_current
         /\ InvalidateRecord(c).phase = "NO_RECORD"
         /\ ~DropRecord(c).decrypt_tag_current
         /\ DropRecord(c).phase = "NO_RECORD"
<1>1. Shaped(Poison(c))
  BY DEF Poison, Shaped
<1> QED
  BY <1>1 DEF InvalidateRecord, Poison, DropTag, DropRecord, Shaped

(* Beginning a record keeps its direction and its tag.                     *)
LEMMA ActivateKeepsTag ==
  ASSUME NEW c, Shaped(c)
  PROVE  /\ Shaped(Reserve(c)) /\ Shaped(Activate(c))
         /\ Reserve(c).phase = c.phase /\ Activate(c).phase = "ACTIVE"
         /\ Reserve(c).encrypt = c.encrypt /\ Activate(c).encrypt = c.encrypt
         /\ Reserve(c).decrypt_tag_current = c.decrypt_tag_current
         /\ Activate(c).decrypt_tag_current = c.decrypt_tag_current
<1>1. /\ Shaped(Reserve(c)) /\ Reserve(c).phase = c.phase
      /\ Reserve(c).encrypt = c.encrypt
      /\ Reserve(c).decrypt_tag_current = c.decrypt_tag_current
  BY DEF Reserve, Shaped
<1> QED
  BY <1>1 DEF Activate, Shaped

(* Absorbing data leaves the tag of the inner context alone.               *)
LEMMA WithManifestKeepsTag ==
  ASSUME inner \in InnerContext
  PROVE  /\ WithManifest(inner).tag = inner.tag
         /\ \A item : Absorb(WithManifest(inner), item).tag = inner.tag
         /\ [WithManifest(inner) EXCEPT !.sealed = TRUE].tag = inner.tag
  BY DEF WithManifest, Absorb, InnerContext

-----------------------------------------------------------------------------
(* The three ways a step keeps the invariant.  It leaves no record ...     *)
LEMMA NoTagStep ==
  ASSUME ctx'.phase = "NO_RECORD", ~ctx'.decrypt_tag_current
  PROVE  TagInv'
  BY DEF TagInv, AcceptedWithCurrentTag

(* ... it accepts nothing, and sets no flag ...                            *)
LEMMA KeptTagStep ==
  ASSUME TagInv, inner'.tag \in {inner.tag, "current"},
         ctx'.phase = "FINALIZED" => ctx.phase = "FINALIZED" /\ ctx'.encrypt = ctx.encrypt,
         ctx'.decrypt_tag_current => ctx.decrypt_tag_current
  PROVE  TagInv'
  BY DEF TagInv, AcceptedWithCurrentTag

(* ... or the inner context has the tag.                                   *)
LEMMA CurrentTagStep ==
  ASSUME inner'.tag = "current"
  PROVE  TagInv'
  BY DEF TagInv, AcceptedWithCurrentTag

-----------------------------------------------------------------------------
(* A refused reservation leaves no record.                                 *)
LEMMA ReserveFailsTag ==
  ASSUME TypeOK, NEW call, ReserveFails(call)
  PROVE  TagInv'
<1>1. Shaped(ctx)
  BY ContextShaped DEF TypeOK
<1>2. PICK d : Shaped(d) /\ ctx' = DropRecord(d)
  BY <1>1 DEF ReserveFails, ReserveFailures, Shaped
<1> QED
  BY <1>2, NoTagFacts, NoTagStep

(* Every initialisation drops the tag, or comes with the tag of its record.*)
LEMMA InitTag ==
  ASSUME TypeOK, TagInv, NEW a \in InitCalls, CipherInit(a)
  PROVE  TagInv'
<1>1. ctx \in Context /\ inner \in InnerContext /\ Shaped(ctx)
  BY ContextShaped DEF TypeOK
<1>2. CASE InitRefused(a)
  <2>1. ctx' \in {ctx, DropTag(ctx), InvalidateRecord(ctx)} /\ inner' = inner
    BY <1>2 DEF InitRefused, RefuseInit
  <2> QED
    BY <1>1, <2>1, NoTagFacts, NoTagStep, KeptTagStep
<1>3. CASE InitInnerFails(a) \/ InitRecordKeyFails(a)
  <2>1. BeginInit(ctx, a) \in Context /\ ctx' = DropRecord(BeginInit(ctx, a))
    BY <1>1, <1>3, BeginInitFacts DEF InitInnerFails, InitRecordKeyFails
  <2> QED
    BY <2>1, ContextShaped, NoTagFacts, NoTagStep
<1>4. CASE InitInstallFails(a)
  <2>1. CommitInit(ctx, a) \in Context /\ ctx' = DropRecord(CommitInit(ctx, a))
    BY <1>1, <1>4, CommitInitFacts DEF InitInstallFails
  <2> QED
    BY <2>1, ContextShaped, NoTagFacts, NoTagStep
<1>5. CASE InitWithoutRecord(a)
  <2>1. CommitInit(ctx, a) \in Context /\ ctx' = InvalidateRecord(CommitInit(ctx, a))
    BY <1>1, <1>5, CommitInitFacts DEF InitWithoutRecord
  <2> QED
    BY <2>1, ContextShaped, NoTagFacts, NoTagStep
<1>6. CASE InitRecord(a)
  <2>1. PICK c \in Context : ctx' = OpenRecord(c, a)
    BY <1>1, <1>6, CommitInitFacts, InstallWriteKeyFacts DEF InitRecord
  <2>2. /\ ctx'.phase = "MANIFEST_PENDING"
        /\ ctx'.decrypt_tag_current => HasTag(a)
    BY <2>1 DEF OpenRecord, Context
  <2>3. HasTag(a) => inner'.tag = "current"
    BY <1>6 DEF InitRecord, InnerInit, HasTag
  <2> QED
    BY <2>2, <2>3 DEF TagInv, AcceptedWithCurrentTag
<1> QED
  BY <1>2, <1>3, <1>4, <1>5, <1>6 DEF CipherInit

(* Final accepts a decryption only with the flag set, that is with the tag *)
(* in the inner context; its failures accept nothing.                      *)
LEMMA FinalTag ==
  ASSUME TypeOK, TagInv, Final
  PROVE  TagInv'
<1>1. ctx \in Context /\ inner \in InnerContext /\ Shaped(ctx)
  BY ContextShaped DEF TypeOK
<1>2. CASE ReserveFails("final")
  BY <1>2, ReserveFailsTag
<1>3. CASE InjectFails("final")
  <2>1. ctx' = Poison(Reserve(ctx)) /\ ctx.phase = "MANIFEST_PENDING"
    BY <1>3 DEF InjectFails
  <2>2. ctx'.phase = "MANIFEST_PENDING" /\ ~ctx'.decrypt_tag_current
    BY <1>1, <2>1, ActivateKeepsTag, NoTagFacts
  <2> QED
    BY <2>2 DEF TagInv, AcceptedWithCurrentTag
<1>4. CASE FinalInnerFails
  <2>1. ctx'.phase = "ACTIVE" /\ ~ctx'.decrypt_tag_current
    BY <1>1, <1>4, ActivateKeepsTag, NoTagFacts DEF FinalInnerFails
  <2> QED
    BY <2>1 DEF TagInv, AcceptedWithCurrentTag
<1>5. CASE FinalOk
  <2>1. inner'.tag = inner.tag
    BY <1>1, <1>5, WithManifestKeepsTag DEF FinalOk
  <2>2. ctx'.encrypt = ctx.encrypt /\ ~ctx'.decrypt_tag_current
    BY <1>1, <1>5, ActivateKeepsTag DEF FinalOk, Shaped
  <2>3. ctx.encrypt \/ inner.tag = "current"
    BY DEF TagInv, Final, FinalAccepts
  <2> QED
    BY <2>1, <2>2, <2>3 DEF TagInv, AcceptedWithCurrentTag
<1> QED
  BY <1>2, <1>3, <1>4, <1>5 DEF Final

(* An update keeps the tag of a record that goes on.                       *)
LEMMA UpdateTag ==
  ASSUME TypeOK, TagInv, NEW item \in Data, Update(item)
  PROVE  TagInv'
<1>1. ctx \in Context /\ inner \in InnerContext /\ Shaped(ctx)
  BY ContextShaped DEF TypeOK
<1>2. CASE ReserveFails("update")
  BY <1>2, ReserveFailsTag
<1>3. CASE InjectFails("update")
  <2>1. ctx'.phase = "MANIFEST_PENDING" /\ ~ctx'.decrypt_tag_current
    BY <1>1, <1>3, ActivateKeepsTag, NoTagFacts DEF InjectFails
  <2> QED
    BY <2>1 DEF TagInv, AcceptedWithCurrentTag
<1>4. CASE UpdateInnerFails(item)
  <2>1. ctx'.phase = "ACTIVE" /\ ~ctx'.decrypt_tag_current
    BY <1>1, <1>4, ActivateKeepsTag, NoTagFacts DEF UpdateInnerFails
  <2> QED
    BY <2>1 DEF TagInv, AcceptedWithCurrentTag
<1>5. CASE UpdateOk(item)
  <2>1. inner'.tag = inner.tag
    BY <1>1, <1>5, WithManifestKeepsTag DEF UpdateOk
  <2>2. /\ ctx'.phase = "ACTIVE"
        /\ ctx'.decrypt_tag_current = ctx.decrypt_tag_current
    BY <1>1, <1>5, ActivateKeepsTag DEF UpdateOk, Shaped
  <2> QED
    BY <2>1, <2>2 DEF TagInv, AcceptedWithCurrentTag
<1> QED
  BY <1>2, <1>3, <1>4, <1>5 DEF Update

(* Setting a tag gives it to the inner context or drops the flag; the      *)
(* other calls touch neither.                                              *)
LEMMA OtherTag ==
  ASSUME TypeOK, TagInv,
         \/ UpdateRefused \/ UpdateEmpty \/ FinalRefused \/ FinalMisused
         \/ \E ok \in BOOLEAN : SetOther(ok) \/ GetOther(ok)
         \/ SetTag \/ GetTag
  PROVE  TagInv'
<1>1. inner \in InnerContext /\ Shaped(ctx)
  BY ContextShaped DEF TypeOK
<1>2. CASE TagAccepted
  BY <1>1, <1>2, CurrentTagStep DEF TagAccepted, InnerContext
<1>3. CASE ~TagAccepted
  <2>1. ctx' \in {ctx, DropTag(ctx), Poison(ctx)}
    BY <1>3 DEF UpdateRefused, UpdateEmpty, FinalRefused, FinalMisused, SetOther,
                GetOther, SetTag, TagRefused, TagInnerFails,
                GetTag, GetTagInnerFails, GetTagOk
  <2>2. inner' \in {inner, [inner EXCEPT !.tag = "current"]}
    BY <1>3 DEF UpdateRefused, UpdateEmpty, FinalRefused, FinalMisused, SetOther,
                GetOther, SetTag, TagRefused, TagInnerFails,
                GetTag, GetTagInnerFails, GetTagOk
  <2>3. inner'.tag \in {inner.tag, "current"}
    BY <1>1, <2>2 DEF InnerContext
  <2> QED
    BY <1>1, <2>1, <2>3, NoTagFacts, KeptTagStep
<1> QED
  BY <1>2, <1>3

(* AcceptedWithCurrentTag: no sequence of calls and failures has a         *)
(* decryption accepted against the tag an earlier record left behind.      *)
THEOREM TagOfThisRecord ==
  ASSUME RecordLimit < IntMax PROVE Spec => []AcceptedWithCurrentTag
<1>1. Init => TagInv
  BY DEF Init, TagInv, AcceptedWithCurrentTag
<1>2. TypeOK /\ TagInv /\ [Next]_vars => TagInv'
  <2> SUFFICES ASSUME TypeOK, TagInv, [Next]_vars PROVE TagInv'
    OBVIOUS
  <2>1. CASE \E a \in InitCalls : CipherInit(a)
    BY <2>1, InitTag
  <2>2. CASE \E item \in Data : Update(item)
    BY <2>2, UpdateTag
  <2>3. CASE Final
    BY <2>3, FinalTag
  <2>4. CASE \/ UpdateRefused \/ UpdateEmpty \/ FinalRefused \/ FinalMisused
             \/ \E ok \in BOOLEAN : SetOther(ok) \/ GetOther(ok)
             \/ SetTag \/ GetTag
    BY <2>4, OtherTag
  <2>5. CASE UNCHANGED vars
    BY <2>5 DEF vars, TagInv, AcceptedWithCurrentTag
  <2> QED
    BY <2>1, <2>2, <2>3, <2>4, <2>5 DEF Next
<1>3. TagInv => AcceptedWithCurrentTag
  BY DEF TagInv
<1> QED
  BY <1>1, <1>2, <1>3, TypeCorrect, PTL DEF Spec

-----------------------------------------------------------------------------
(* The record: the manifest comes first, a tag leaves only a sealed record,*)
(* the poison holds, only another key renews the budget, and the context   *)
(* implements RecordContract.                                              *)

(* What the inner context absorbed follows the phase of the record, and a  *)
(* poisoned record has no tag.                                             *)
RecordInv ==
  /\ ManifestFirst
  /\ ctx.phase = "FINALIZED" => inner.sealed
  /\ ctx.needs_reinit => ~ctx.decrypt_tag_current

-----------------------------------------------------------------------------
(* Logs.                                                                   *)

(* The first part of ManifestFirst.                                        *)
WellBegun(log) ==
  \A i \in DOMAIN log :
    /\ log[i] = "manifest" <=> i = 1
    /\ log[i] = "aad" => \A j \in 1..i : log[j] # "payload"

NoPayload(log) == \A i \in DOMAIN log : log[i] # "payload"

Items == {"manifest"} \union Data

(* ManifestFirst in these terms.                                           *)
LEMMA ManifestFirstParts ==
  ManifestFirst <=>
    /\ WellBegun(inner.log)
    /\ ctx.phase = "MANIFEST_PENDING" /\ ~ctx.needs_reinit => inner.log = <<>>
    /\ ctx.phase \in {"ACTIVE", "FINALIZED"} => inner.log # <<>>
    /\ Live(ctx) /\ ~ctx.payload_started => NoPayload(inner.log)
  BY DEF ManifestFirst, WellBegun, NoPayload

(* A new log is begun by the manifest.                                     *)
LEMMA NewLog ==
  /\ WellBegun(<<>>) /\ NoPayload(<<>>)
  /\ WellBegun(<<"manifest">>) /\ NoPayload(<<"manifest">>)
  BY DEF WellBegun, NoPayload

(* A log that was begun goes on with data, with AAD before the payload.    *)
LEMMA LogGoesOn ==
  ASSUME NEW log \in Seq(Items), log # <<>>, WellBegun(log),
         NEW item \in Data, item = "aad" => NoPayload(log)
  PROVE  /\ Append(log, item) # <<>>
         /\ WellBegun(Append(log, item))
         /\ item = "aad" => NoPayload(Append(log, item))
<1> DEFINE next == Append(log, item)
<1>1. /\ Len(log) \in Nat /\ Len(log) # 0
      /\ DOMAIN log = 1..Len(log)
  OBVIOUS
<1>2. /\ DOMAIN next = 1..Len(log) + 1
      /\ \A i \in 1..Len(log) : next[i] = log[i]
      /\ next[Len(log) + 1] = item
  BY <1>1
<1>3. item # "manifest"
  BY DEF Data
<1> HIDE DEF next
<1>4. WellBegun(next)
  <2> SUFFICES ASSUME NEW i \in 1..Len(log) + 1
               PROVE  /\ next[i] = "manifest" <=> i = 1
                      /\ next[i] = "aad" => \A j \in 1..i : next[j] # "payload"
    BY <1>2 DEF WellBegun
  <2>1. CASE i \in 1..Len(log)
    BY <1>1, <1>2, <2>1 DEF WellBegun
  <2>2. CASE i = Len(log) + 1
    BY <1>1, <1>2, <1>3, <2>2 DEF WellBegun, NoPayload
  <2> QED
    BY <1>1, <2>1, <2>2
<1>5. item = "aad" => NoPayload(next)
  BY <1>1, <1>2 DEF NoPayload
<1>6. next # <<>>
  BY <1>1, <1>2
<1> QED
  BY <1>4, <1>5, <1>6 DEF next

-----------------------------------------------------------------------------
(* Kinds of steps.                                                         *)

(* A step that leaves no record.                                           *)
LEMMA NoRecordKept ==
  ASSUME ctx'.phase = "NO_RECORD", WellBegun(inner'.log),
         ctx'.needs_reinit => ~ctx'.decrypt_tag_current
  PROVE  RecordInv'
<1>1. ManifestFirst'
  BY DEF ManifestFirst, WellBegun, Live
<1> QED
  BY <1>1 DEF RecordInv

(* A step that goes on with the record without data, poisoning it or not.  *)
LEMMA SameLogKept ==
  ASSUME RecordInv, inner'.log = inner.log, inner'.sealed = inner.sealed,
         ctx'.phase = ctx.phase, ctx'.payload_started = ctx.payload_started,
         ctx.needs_reinit => ctx'.needs_reinit,
         ctx'.needs_reinit => ~ctx'.decrypt_tag_current
  PROVE  RecordInv'
<1>1. ManifestFirst'
  BY DEF RecordInv, ManifestFirst, Live
<1> QED
  BY <1>1 DEF RecordInv

(* A step with data: the record is active, finalised or poisoned.          *)
LEMMA DataKept ==
  ASSUME WellBegun(inner'.log), inner'.log # <<>>,
         ctx'.phase \in {"ACTIVE", "FINALIZED"} \/ ctx'.needs_reinit,
         ctx'.phase = "FINALIZED" => inner'.sealed,
         ctx'.needs_reinit => ~ctx'.decrypt_tag_current,
         Live(ctx)' /\ ~ctx'.payload_started => NoPayload(inner'.log)
  PROVE  RecordInv'
<1>1. ManifestFirst'
  BY DEF ManifestFirst, WellBegun, NoPayload, Live
<1> QED
  BY <1>1 DEF RecordInv

-----------------------------------------------------------------------------
(* The steps.                                                              *)

(* After the injection the log of a live record is well begun.             *)
LEMMA Injected ==
  ASSUME TypeOK, RecordInv, Live(ctx)
  PROVE  LET log == WithManifest(inner).log
         IN  /\ log \in Seq(Items) /\ log # <<>> /\ WellBegun(log)
             /\ ~ctx.payload_started => NoPayload(log)
             /\ WithManifest(inner).sealed = inner.sealed
<1>1. /\ inner \in InnerContext /\ inner.log \in Seq(Items)
      /\ WithManifest(inner) \in InnerContext
  BY WithManifestFacts DEF TypeOK, InnerContext, Items
<1>2. WithManifest(inner).log \in Seq(Items)
  BY <1>1 DEF InnerContext, Items
<1>3. CASE ctx.phase = "MANIFEST_PENDING"
  <2>1. inner.log = <<>>
    BY <1>3 DEF RecordInv, ManifestFirst, Live
  <2>2. /\ WithManifest(inner).log = <<"manifest">>
        /\ WithManifest(inner).sealed = inner.sealed
    BY <1>1, <1>3, <2>1 DEF WithManifest, Absorb, InnerContext
  <2> QED
    BY <1>2, <2>2, NewLog
<1>4. CASE ctx.phase = "ACTIVE"
  <2>1. WithManifest(inner) = inner
    BY <1>4 DEF WithManifest
  <2>2. /\ inner.log # <<>> /\ WellBegun(inner.log)
        /\ ~ctx.payload_started => NoPayload(inner.log)
    BY <1>4, ManifestFirstParts DEF RecordInv, Live
  <2> QED
    BY <1>1, <2>1, <2>2
<1> QED
  BY <1>3, <1>4 DEF Live

(* A refused reservation leaves no record.                                 *)
LEMMA ReserveFailsRecord ==
  ASSUME TypeOK, RecordInv, NEW call, ReserveFails(call)
  PROVE  RecordInv'
<1>1. Shaped(ctx)
  BY ContextShaped DEF TypeOK
<1>2. PICK d : Shaped(d) /\ ctx' = DropRecord(d)
  BY <1>1 DEF ReserveFails, ReserveFailures, Shaped
<1>3. inner' = inner
  BY DEF ReserveFails
<1>4. WellBegun(inner'.log)
  BY <1>3, ManifestFirstParts DEF RecordInv
<1> QED
  BY <1>2, <1>4, NoTagFacts, NoRecordKept

(* A failed injection poisons the record, begun or not.                    *)
LEMMA InjectFailsRecord ==
  ASSUME TypeOK, RecordInv, Live(ctx), NEW call, InjectFails(call)
  PROVE  RecordInv'
<1> DEFINE w == WithManifest(inner)
<1>1. ctx \in Context
  BY DEF TypeOK
<1>2. w.log # <<>> /\ WellBegun(w.log)
  BY Injected
<1>3. /\ ctx' = Poison(Reserve(ctx)) /\ inner' \in {inner, w}
      /\ ctx.phase = "MANIFEST_PENDING"
  BY DEF InjectFails
<1> HIDE DEF w
<1>4. /\ ctx'.phase = ctx.phase /\ ~ctx'.decrypt_tag_current
      /\ ctx'.needs_reinit /\ ctx'.payload_started = ctx.payload_started
  BY <1>1, <1>3 DEF Poison, Reserve, Context
<1>5. CASE inner' = inner
  BY <1>4, <1>5, SameLogKept
<1>6. CASE inner' = w
  <2>1. ctx'.phase # "FINALIZED" /\ ~Live(ctx)'
    BY <1>3, <1>4 DEF Live
  <2> QED
    BY <1>2, <1>4, <1>6, <2>1, DataKept
<1> QED
  BY <1>3, <1>5, <1>6

(* An initialisation drops the record, or opens one with an empty log.     *)
LEMMA InitKeepsRecord ==
  ASSUME TypeOK, RecordInv, NEW a \in InitCalls, CipherInit(a)
  PROVE  RecordInv'
<1>1. /\ ctx \in Context /\ inner \in InnerContext /\ Shaped(ctx)
      /\ WellBegun(inner.log) /\ WellBegun(<<>>)
      /\ ctx.needs_reinit => ~ctx.decrypt_tag_current
  BY ContextShaped, ManifestFirstParts, NewLog DEF TypeOK, RecordInv
<1>2. CASE InitRefused(a)
  <2>1. ctx' \in {ctx, DropTag(ctx), InvalidateRecord(ctx)} /\ inner' = inner
    BY <1>2 DEF InitRefused, RefuseInit
  <2>2. CASE ctx' = InvalidateRecord(ctx)
    BY <1>1, <2>1, <2>2, NoTagFacts, NoRecordKept
  <2>3. CASE ctx' = DropTag(ctx)
    <3>1. /\ ctx'.phase = ctx.phase /\ ~ctx'.decrypt_tag_current
          /\ ctx'.payload_started = ctx.payload_started
          /\ ctx'.needs_reinit = ctx.needs_reinit
      BY <1>1, <2>3 DEF DropTag, Context
    <3> QED
      BY <2>1, <3>1, SameLogKept
  <2>4. CASE ctx' = ctx
    BY <1>1, <2>1, <2>4, SameLogKept
  <2> QED
    BY <2>1, <2>2, <2>3, <2>4
<1>3. CASE InitInnerFails(a) \/ InitRecordKeyFails(a) \/ InitInstallFails(a)
             \/ InitWithoutRecord(a)
  <2>1. ctx'.phase = "NO_RECORD" /\ ~ctx'.decrypt_tag_current
    <3>1. Shaped(BeginInit(ctx, a)) /\ Shaped(CommitInit(ctx, a))
      BY <1>1, BeginInitFacts, CommitInitFacts, ContextShaped
    <3> QED
      BY <1>3, <3>1, NoTagFacts DEF InitInnerFails, InitRecordKeyFails,
           InitInstallFails, InitWithoutRecord
  <2>2. inner'.log \in {inner.log, <<>>}
    <3>1. \A b : InnerInit(inner, b).log \in {inner.log, <<>>}
      BY DEF InnerInit
    <3>2. [inner EXCEPT !.encrypt = a.encrypt].log = inner.log
      BY <1>1 DEF InnerContext
    <3> QED
      BY <1>3, <3>1, <3>2 DEF InitInnerFails, InitRecordKeyFails,
           InitInstallFails, InitWithoutRecord, InnerInitFailures
  <2> QED
    BY <1>1, <2>1, <2>2, NoRecordKept
<1>4. CASE InitRecord(a)
  <2>1. PICK c \in Context : ctx' = OpenRecord(c, a)
    BY <1>1, <1>4, CommitInitFacts, InstallWriteKeyFacts DEF InitRecord
  <2>2. ctx'.phase = "MANIFEST_PENDING" /\ ~ctx'.needs_reinit
    BY <2>1, OpenRecordFacts
  <2>3. inner'.log = <<>>
    BY <1>4 DEF InitRecord, InnerInit
  <2>4. ManifestFirst'
    BY <2>2, <2>3, NewLog DEF ManifestFirst, WellBegun, NoPayload, Live
  <2> QED
    BY <2>2, <2>4 DEF RecordInv
<1> QED
  BY <1>2, <1>3, <1>4 DEF CipherInit

(* An update appends its data to a begun log.                              *)
LEMMA UpdateKeepsRecord ==
  ASSUME TypeOK, RecordInv, NEW item \in Data, Update(item)
  PROVE  RecordInv'
<1> DEFINE w == WithManifest(inner)
<1>1. /\ ctx \in Context /\ inner \in InnerContext /\ Shaped(ctx)
      /\ w \in InnerContext
      /\ ctx.needs_reinit => ~ctx.decrypt_tag_current
  BY ContextShaped, WithManifestFacts DEF TypeOK, RecordInv
<1>2. Live(ctx) /\ (item = "aad" => ~ctx.payload_started)
  BY DEF Update, UpdateAccepts
<1>3. /\ w.log \in Seq(Items) /\ w.log # <<>> /\ WellBegun(w.log)
      /\ ~ctx.payload_started => NoPayload(w.log)
      /\ w.sealed = inner.sealed
  BY <1>2, Injected
<1>4. /\ Absorb(w, item).log = Append(w.log, item)
      /\ Append(w.log, item) # <<>> /\ WellBegun(Append(w.log, item))
      /\ item = "aad" => NoPayload(Append(w.log, item))
  BY <1>1, <1>2, <1>3, LogGoesOn DEF Absorb, InnerContext
<1> HIDE DEF w
<1>5. CASE ReserveFails("update")
  BY <1>5, ReserveFailsRecord
<1>6. CASE InjectFails("update")
  BY <1>2, <1>6, InjectFailsRecord
<1>7. CASE UpdateInnerFails(item)
  <2>1. inner' \in {w, Absorb(w, item)} /\ ctx' = Poison(Activate(ctx))
    BY <1>7 DEF UpdateInnerFails, w
  <2>2. /\ ctx'.phase = "ACTIVE" /\ ~ctx'.decrypt_tag_current /\ ctx'.needs_reinit
    BY <1>1, <2>1 DEF Poison, Activate, Reserve, Context
  <2>3. WellBegun(inner'.log) /\ inner'.log # <<>>
    BY <1>3, <1>4, <2>1
  <2> QED
    BY <2>2, <2>3, DataKept DEF Live
<1>8. CASE UpdateOk(item)
  <2>1. inner' = Absorb(w, item)
    BY <1>8 DEF UpdateOk, w
  <2>2. /\ ctx'.phase = "ACTIVE"
        /\ ctx'.needs_reinit = ctx.needs_reinit
        /\ ctx'.decrypt_tag_current = ctx.decrypt_tag_current
        /\ ~ctx'.payload_started => item = "aad"
    BY <1>1, <1>8 DEF UpdateOk, Activate, Reserve, Context, Data
  <2>3. /\ WellBegun(inner'.log) /\ inner'.log # <<>>
        /\ ~ctx'.payload_started => NoPayload(inner'.log)
    BY <1>4, <2>1, <2>2
  <2> QED
    BY <1>1, <2>2, <2>3, DataKept
<1> QED
  BY <1>5, <1>6, <1>7, <1>8 DEF Update

(* A final adds no data; the record it accepts is sealed.                  *)
LEMMA FinalKeepsRecord ==
  ASSUME TypeOK, RecordInv, Final
  PROVE  RecordInv'
<1> DEFINE w == WithManifest(inner)
           v == Activate(ctx)
<1>1. /\ ctx \in Context /\ inner \in InnerContext /\ Shaped(ctx)
      /\ w \in InnerContext
      /\ ctx.needs_reinit => ~ctx.decrypt_tag_current
  BY ContextShaped, WithManifestFacts DEF TypeOK, RecordInv
<1>2. Live(ctx)
  BY DEF Final, FinalAccepts
<1>3. w.log # <<>> /\ WellBegun(w.log)
  BY <1>2, Injected
<1>4. LET s == [w EXCEPT !.sealed = TRUE]
      IN  s.log # <<>> /\ WellBegun(s.log) /\ s.sealed
  BY <1>1, <1>3 DEF InnerContext
<1> HIDE DEF w
<1>5. CASE ReserveFails("final")
  BY <1>5, ReserveFailsRecord
<1>6. CASE InjectFails("final")
  BY <1>2, <1>6, InjectFailsRecord
<1>7. CASE FinalInnerFails
  <2>1. inner' \in {w, [w EXCEPT !.sealed = TRUE]} /\ ctx' = Poison(v)
    BY <1>7 DEF FinalInnerFails, w
  <2>2. ctx'.phase = "ACTIVE" /\ ~ctx'.decrypt_tag_current /\ ctx'.needs_reinit
    BY <1>1, <2>1 DEF Poison, Activate, Reserve, Context
  <2>3. WellBegun(inner'.log) /\ inner'.log # <<>>
    BY <1>3, <1>4, <2>1
  <2> QED
    BY <2>2, <2>3, DataKept DEF Live
<1>8. CASE FinalOk
  <2>1. inner' = [w EXCEPT !.sealed = TRUE]
    BY <1>8 DEF FinalOk, w
  <2>2. /\ ctx'.phase = "FINALIZED" /\ ~ctx'.decrypt_tag_current
        /\ ctx'.needs_reinit = ctx.needs_reinit
    BY <1>1, <1>8 DEF FinalOk, Activate, Reserve, Context
  <2> QED
    BY <1>4, <2>1, <2>2, DataKept DEF Live
<1> QED
  BY <1>5, <1>6, <1>7, <1>8 DEF Final

(* The other calls add nothing; a tag is taken only by a live record.      *)
LEMMA OtherKeepsRecord ==
  ASSUME TypeOK, RecordInv,
         \/ UpdateRefused \/ UpdateEmpty \/ FinalRefused \/ FinalMisused
         \/ \E ok \in BOOLEAN : SetOther(ok) \/ GetOther(ok)
         \/ SetTag \/ GetTag
  PROVE  RecordInv'
<1>1. /\ ctx \in Context /\ inner \in InnerContext
      /\ ctx.needs_reinit => ~ctx.decrypt_tag_current
  BY DEF TypeOK, RecordInv
<1>2. \/ ctx' \in {ctx, DropTag(ctx), Poison(ctx)}
      \/ ~ctx.needs_reinit /\ ctx' = [ctx EXCEPT !.decrypt_tag_current = TRUE]
  BY DEF UpdateRefused, UpdateEmpty, FinalRefused, FinalMisused, SetOther, GetOther,
         SetTag, TagRefused, TagInnerFails, TagAccepted, Live,
         GetTag, GetTagInnerFails, GetTagOk
<1>3. inner' \in {inner, [inner EXCEPT !.tag = "current"]}
  BY DEF UpdateRefused, UpdateEmpty, FinalRefused, FinalMisused, SetOther, GetOther,
         SetTag, TagRefused, TagInnerFails, TagAccepted,
         GetTag, GetTagInnerFails, GetTagOk
<1>4. inner'.log = inner.log /\ inner'.sealed = inner.sealed
  BY <1>1, <1>3 DEF InnerContext
<1>5. /\ ctx'.phase = ctx.phase /\ ctx'.payload_started = ctx.payload_started
      /\ ctx.needs_reinit => ctx'.needs_reinit
      /\ ctx'.needs_reinit => ~ctx'.decrypt_tag_current
  BY <1>1, <1>2 DEF DropTag, Poison, Context
<1> QED
  BY <1>4, <1>5, SameLogKept

(* Every step of the context keeps the invariant.                          *)
LEMMA RecordInvStep ==
  ASSUME TypeOK, RecordInv, [Next]_vars
  PROVE  RecordInv'
<1>1. CASE \E a \in InitCalls : CipherInit(a)
  BY <1>1, InitKeepsRecord
<1>2. CASE \E item \in Data : Update(item)
  BY <1>2, UpdateKeepsRecord
<1>3. CASE Final
  BY <1>3, FinalKeepsRecord
<1>4. CASE \/ UpdateRefused \/ UpdateEmpty \/ FinalRefused \/ FinalMisused
           \/ \E ok \in BOOLEAN : SetOther(ok) \/ GetOther(ok)
           \/ SetTag \/ GetTag
  BY <1>4, OtherKeepsRecord
<1>5. CASE UNCHANGED vars
  BY <1>5 DEF vars, RecordInv, ManifestFirst, Live
<1> QED
  BY <1>1, <1>2, <1>3, <1>4, <1>5 DEF Next

(* The record follows its log in every reachable state.                    *)
THEOREM RecordInvariant == ASSUME RecordLimit < IntMax PROVE Spec => []RecordInv
<1>1. Init => RecordInv
  BY DEF Init, RecordInv, ManifestFirst, Live
<1>2. TypeOK /\ RecordInv /\ [Next]_vars => RecordInv'
  BY RecordInvStep
<1> QED
  BY <1>1, <1>2, TypeCorrect, PTL DEF Spec

(* ManifestFirst: whatever the caller does and whatever fails, the inner   *)
(* context never absorbs anything of a record before its manifest, the     *)
(* manifest twice, or AAD after payload.                                   *)
THEOREM ManifestComesFirst ==
  ASSUME RecordLimit < IntMax PROVE Spec => []ManifestFirst
<1>1. RecordInv => ManifestFirst
  BY DEF RecordInv
<1> QED
  BY <1>1, RecordInvariant, PTL

-----------------------------------------------------------------------------
(* What leaves and what stays.                                             *)

(* Only a successful read of the tag returns one.                          *)
LEMMA OnlyGetTagReturnsIt ==
  ASSUME Next, ret' = [call |-> "get_tag", ok |-> TRUE]
  PROVE  GetTagOk
<1>1. ret'.call = "get_tag" /\ ret'.ok = TRUE
  OBVIOUS
<1>2. ASSUME NEW a \in InitCalls, CipherInit(a) PROVE FALSE
  BY <1>1, <1>2 DEF CipherInit, InitRefused, InitInnerFails, InitRecordKeyFails,
       InitInstallFails, InitWithoutRecord, InitRecord, Returns
<1>3. ASSUME NEW item \in Data, Update(item) PROVE FALSE
  BY <1>1, <1>3 DEF Update, ReserveFails, InjectFails, UpdateInnerFails, UpdateOk, Returns
<1>4. ASSUME Final PROVE FALSE
  BY <1>1, <1>4 DEF Final, ReserveFails, InjectFails, FinalInnerFails, FinalOk, Returns
<1>5. ASSUME \/ UpdateRefused \/ UpdateEmpty \/ FinalRefused \/ FinalMisused
             \/ \E ok \in BOOLEAN : SetOther(ok) \/ GetOther(ok)
             \/ SetTag
      PROVE  FALSE
  BY <1>1, <1>5 DEF UpdateRefused, UpdateEmpty, FinalRefused, FinalMisused,
       SetOther, GetOther, SetTag, TagRefused, TagInnerFails, TagAccepted, Returns
<1>6. ~GetTagInnerFails
  BY <1>1 DEF GetTagInnerFails, Returns
<1> QED
  BY <1>2, <1>3, <1>4, <1>5, <1>6 DEF Next, GetTag

(* A tag is read from a finalised record, which its inner context sealed,  *)
(* began with the manifest, and encrypted.                                 *)
LEMMA TagStep ==
  ASSUME BudgetInv, RecordInv, TagOnlyOfSealedRecord, [Next]_vars
  PROVE  TagOnlyOfSealedRecord'
<1> SUFFICES ASSUME ret' = [call |-> "get_tag", ok |-> TRUE]
             PROVE  inner'.sealed /\ inner'.encrypt /\ Head(inner'.log) = "manifest"
  BY DEF TagOnlyOfSealedRecord
<1>1. CASE UNCHANGED vars
  BY <1>1 DEF vars, TagOnlyOfSealedRecord
<1>2. CASE Next
  <2>1. TagReadable /\ inner' = inner
    BY <1>2, OnlyGetTagReturnsIt DEF GetTagOk
  <2>2. /\ ctx.phase = "FINALIZED" /\ ctx.encrypt
        /\ inner.encrypt = ctx.encrypt /\ inner.sealed
        /\ inner.log \in Seq(Items) /\ inner.log # <<>> /\ WellBegun(inner.log)
    BY <2>1, ManifestFirstParts
    DEF TagReadable, BudgetInv, KeyAgreement, TypeOK, InnerContext, RecordInv, Items
  <2>3. 1 \in DOMAIN inner.log /\ Head(inner.log) = inner.log[1]
    BY <2>2
  <2>4. inner.log[1] = "manifest"
    BY <2>2, <2>3 DEF WellBegun
  <2> QED
    BY <2>1, <2>2, <2>3, <2>4
<1> QED
  BY <1>1, <1>2

(* TagOnlyOfSealedRecord: no sequence of calls reads a tag of a record the *)
(* inner context has not finalised, or of a decryption.                    *)
THEOREM TagOfSealedRecord ==
  ASSUME RecordLimit < IntMax PROVE Spec => []TagOnlyOfSealedRecord
<1>1. Init => TagOnlyOfSealedRecord
  BY DEF Init, TagOnlyOfSealedRecord
<1>2. BudgetInv /\ RecordInv /\ TagOnlyOfSealedRecord /\ [Next]_vars
        => TagOnlyOfSealedRecord'
  BY TagStep
<1> QED
  BY <1>1, <1>2, BudgetInvariant, RecordInvariant, PTL DEF Spec

(* An initialisation that opens no record clears no poison.                *)
LEMMA CommitInitKeepsPoison ==
  ASSUME NEW c \in Context, NEW a \in InitCalls
  PROVE  CommitInit(c, a).needs_reinit = c.needs_reinit
<1> DEFINE d == BeginInit(c, a)
           r == RecordCurrentKey(d, a.key)
<1>1. d \in Context /\ d.needs_reinit = c.needs_reinit
  BY BeginInitFacts DEF BeginInit, InvalidateRecord, DropTag, Context
<1>2. a.key \in MaybeKey
  BY DEF InitCalls
<1> HIDE DEF d
<1>3. r \in Context /\ r.needs_reinit = c.needs_reinit
  BY <1>1, <1>2 DEF RecordCurrentKey, Context
<1>4. CommitInit(c, a) =
        [(IF HasKey(a) THEN [r EXCEPT !.key_valid = TRUE] ELSE d)
           EXCEPT !.encrypt = a.encrypt, !.direction_set = TRUE]
  BY DEF CommitInit, d
<1> HIDE DEF r
<1> QED
  BY <1>1, <1>3, <1>4 DEF Context

(* Giving a record up in an error poisons the context.                     *)
LEMMA DropRecordPoisons ==
  ASSUME NEW c \in Context
  PROVE  DropRecord(c).needs_reinit
  BY DEF DropRecord, Poison, InvalidateRecord, Context

(* The poison is cleared by opening a record, which empties the log, and   *)
(* until then nothing is absorbed, sealed or read.                         *)
LEMMA PoisonStep ==
  ASSUME TypeOK, RecordInv', Next, ctx.needs_reinit
  PROVE  /\ inner'.log \in {inner.log, <<>>} /\ (inner'.sealed => inner.sealed)
         /\ ret' # [call |-> "get_tag", ok |-> TRUE]
         /\ ctx'.needs_reinit => ~ctx'.decrypt_tag_current
         /\ ~ctx'.needs_reinit => /\ ctx'.phase = "MANIFEST_PENDING"
                                  /\ inner'.log = <<>> /\ ~inner'.sealed
<1>1. /\ ctx \in Context /\ inner \in InnerContext /\ ~Live(ctx)
      /\ ~GetTagOk
  BY DEF TypeOK, Live, GetTagOk, TagReadable
<1>2. ret' # [call |-> "get_tag", ok |-> TRUE]
  BY <1>1, OnlyGetTagReturnsIt
<1>3. ctx'.needs_reinit => ~ctx'.decrypt_tag_current
  BY DEF RecordInv
<1>4. ASSUME NEW a \in InitCalls, CipherInit(a)
      PROVE  /\ inner'.log \in {inner.log, <<>>} /\ (inner'.sealed => inner.sealed)
             /\ ~ctx'.needs_reinit => /\ ctx'.phase = "MANIFEST_PENDING"
                                      /\ inner'.log = <<>> /\ ~inner'.sealed
  <2>1. \A b : /\ InnerInit(inner, b).log \in {inner.log, <<>>}
               /\ InnerInit(inner, b).sealed => inner.sealed
    BY DEF InnerInit
  <2>2. CASE InitRecord(a)
    <3>1. PICK c \in Context : ctx' = OpenRecord(c, a)
      BY <1>1, <2>2, CommitInitFacts, InstallWriteKeyFacts DEF InitRecord
    <3>2. ctx'.phase = "MANIFEST_PENDING"
      BY <1>4, <3>1, OpenRecordFacts
    <3>3. inner'.log = <<>> /\ ~inner'.sealed
      BY <2>2 DEF InitRecord, InnerInit
    <3> QED
      BY <3>2, <3>3
  <2>3. CASE ~InitRecord(a)
    <3>1. inner'.log \in {inner.log, <<>>} /\ (inner'.sealed => inner.sealed)
      <4>1. LET e == [inner EXCEPT !.encrypt = a.encrypt]
            IN  e.log = inner.log /\ e.sealed = inner.sealed
        BY <1>1 DEF InnerContext
      <4> QED
        BY <1>4, <2>1, <2>3, <4>1 DEF CipherInit, InitRefused, InitInnerFails,
             InitRecordKeyFails, InitInstallFails, InitWithoutRecord, InnerInitFailures
    <3>2. ctx'.needs_reinit
      <4>1. CASE InitRefused(a)
        BY <1>1, <4>1 DEF InitRefused, RefuseInit, DropTag, InvalidateRecord, Context
      <4>2. CASE InitInnerFails(a) \/ InitRecordKeyFails(a) \/ InitInstallFails(a)
        BY <1>1, <4>2, BeginInitFacts, CommitInitFacts, DropRecordPoisons
        DEF InitInnerFails, InitRecordKeyFails, InitInstallFails
      <4>3. CASE InitWithoutRecord(a)
        <5>1. /\ CommitInit(ctx, a) \in Context /\ CommitInit(ctx, a).needs_reinit
              /\ ctx' = InvalidateRecord(CommitInit(ctx, a))
          BY <1>1, <4>3, CommitInitFacts, CommitInitKeepsPoison DEF InitWithoutRecord
        <5> QED
          BY <5>1 DEF InvalidateRecord, Context
      <4> QED
        BY <1>4, <2>3, <4>1, <4>2, <4>3 DEF CipherInit
    <3> QED
      BY <3>1, <3>2
  <2> QED
    BY <2>2, <2>3
<1>5. ASSUME \/ UpdateRefused \/ UpdateEmpty \/ FinalRefused \/ FinalMisused
             \/ \E ok \in BOOLEAN : SetOther(ok) \/ GetOther(ok)
             \/ SetTag \/ GetTag
      PROVE  inner'.log = inner.log /\ inner'.sealed = inner.sealed /\ ctx'.needs_reinit
  <2>1. ctx' \in {ctx, DropTag(ctx)} /\ inner' = inner
    BY <1>1, <1>5 DEF UpdateRefused, UpdateEmpty, FinalRefused, FinalMisused,
         SetOther, GetOther, SetTag, TagRefused, TagInnerFails, TagAccepted, GetTag,
         GetTagInnerFails, GetTagOk, TagReadable
  <2> QED
    BY <1>1, <2>1 DEF DropTag, Context
<1>6. ~Final /\ \A item \in Data : ~Update(item)
  BY <1>1 DEF Final, FinalAccepts, Update, UpdateAccepts
<1> QED
  BY <1>2, <1>3, <1>4, <1>5, <1>6 DEF Next

(* PoisonHolds: from the failure that poisons a context to the successful  *)
(* initialisation with an IV that clears it, no data reaches the inner     *)
(* context, no record is sealed, and no tag is read or held.               *)
THEOREM PoisonKept == ASSUME RecordLimit < IntMax PROVE Spec => PoisonHolds
<1>1. TypeOK /\ RecordInv' /\ [Next]_vars
        => [ctx.needs_reinit =>
              /\ inner'.log \in {inner.log, <<>>} /\ (inner'.sealed => inner.sealed)
              /\ ret' # [call |-> "get_tag", ok |-> TRUE]
              /\ ctx'.needs_reinit => ~ctx'.decrypt_tag_current
              /\ ~ctx'.needs_reinit => /\ ctx'.phase = "MANIFEST_PENDING"
                                       /\ inner'.log = <<>> /\ ~inner'.sealed]_vars
  BY PoisonStep
<1> QED
  BY <1>1, TypeCorrect, RecordInvariant, PTL DEF Spec, PoisonHolds

-----------------------------------------------------------------------------
(* The budget of a key.                                                    *)

(* A failed or recordless initialisation keeps the budget.                 *)
LEMMA InitKeepsBudget ==
  ASSUME TypeOK, NEW a \in InitCalls, CipherInit(a), ~InitRecord(a)
  PROVE  SameBudget(ctx, ctx')
<1>1. ctx \in Context
  BY DEF TypeOK
<1>2. CASE InitRefused(a)
  <2>1. ctx' \in {ctx, DropTag(ctx), InvalidateRecord(ctx)}
    BY <1>2 DEF InitRefused, RefuseInit
  <2> QED
    BY <1>1, <2>1, DropTagFacts, InvalidateRecordFacts DEF SameBudget
<1>3. CASE InitInnerFails(a) \/ InitRecordKeyFails(a)
  <2>1. /\ BeginInit(ctx, a) \in Context /\ SameBudget(ctx, BeginInit(ctx, a))
        /\ ctx' = DropRecord(BeginInit(ctx, a))
    BY <1>1, <1>3, BeginInitFacts DEF InitInnerFails, InitRecordKeyFails
  <2> QED
    BY <2>1, DropRecordFacts DEF SameBudget
<1>4. CASE InitInstallFails(a) \/ InitWithoutRecord(a)
  <2>1. /\ CommitInit(ctx, a) \in Context /\ SameBudget(ctx, CommitInit(ctx, a))
        /\ ctx' \in {DropRecord(CommitInit(ctx, a)), InvalidateRecord(CommitInit(ctx, a))}
    BY <1>1, <1>4, CommitInitFacts DEF InitInstallFails, InitWithoutRecord
  <2> QED
    BY <2>1, DropRecordFacts, InvalidateRecordFacts DEF SameBudget
<1> QED
  BY <1>2, <1>3, <1>4 DEF CipherInit

(* So does opening a record to read; to write, the budget is that of the   *)
(* key the inner context has, and a new one when the key is another.       *)
LEMMA InitRecordBudget ==
  ASSUME BudgetInv, NEW a \in InitCalls, InitRecord(a)
  PROVE  /\ ctx'.phase = "MANIFEST_PENDING" /\ ~ctx'.needs_reinit
         /\ ctx'.encrypt = a.encrypt
         /\ ~a.encrypt => SameBudget(ctx, ctx')
         /\ a.encrypt => /\ ctx'.usage_key # NoKey
                         /\ inner'.key = ctx'.usage_key
                         /\ \/ SameBudget(ctx, ctx')
                            \/ /\ ctx'.usage_key # ctx.usage_key
                               /\ ctx'.encrypted_records = 0
                               /\ ~ctx'.usage_exhausted
<1> DEFINE c == CommitInit(ctx, a)
           w == InstallWriteKey(c)
<1>1. /\ ctx \in Context /\ c \in Context /\ c.encrypt = a.encrypt
      /\ SameBudget(ctx, c)
  BY CommitInitFacts DEF BudgetInv, TypeOK
<1>2. CASE ~a.encrypt
  <2>1. ctx' = OpenRecord(c, a)
    BY <1>2 DEF InitRecord
  <2> QED
    BY <1>1, <1>2, <2>1, OpenRecordFacts DEF SameBudget
<1>3. CASE a.encrypt
  <2>1. /\ w \in Context /\ w.encrypt = c.encrypt /\ w.current_key = c.current_key
        /\ ~w.current_key_changed
        /\ WriteKeyUnchanged(c) \/ c.usage_key = c.current_key => SameBudget(c, w)
        /\ ~(WriteKeyUnchanged(c) \/ c.usage_key = c.current_key)
             => /\ w.usage_key = c.current_key
                /\ w.encrypted_records = 0 /\ ~w.usage_exhausted
    BY <1>1, InstallWriteKeyFacts
  <2>2. ctx' = OpenRecord(w, a) /\ c.current_key # NoKey
    BY <1>3 DEF InitRecord
  <2> HIDE DEF c, w
  <2>3. /\ ctx'.phase = "MANIFEST_PENDING" /\ ~ctx'.needs_reinit
        /\ ctx'.encrypt = a.encrypt
        /\ ctx'.current_key = c.current_key /\ ~ctx'.current_key_changed
        /\ SameBudget(w, ctx')
    BY <1>1, <2>1, <2>2, OpenRecordFacts DEF SameKey
  <2>4. KeyAgreement' /\ FastPathSound'
    BY InitRecordStep DEF BudgetInv
  <2>5. ctx'.usage_key = ctx'.current_key /\ inner'.key = ctx'.current_key
    BY <2>3, <2>4 DEF KeyAgreement, FastPathSound
  <2>6. \/ SameBudget(ctx, ctx')
        \/ /\ ctx'.usage_key # ctx.usage_key
           /\ ctx'.encrypted_records = 0 /\ ~ctx'.usage_exhausted
    BY <1>1, <2>1, <2>3 DEF SameBudget
  <2> QED
    BY <1>3, <2>2, <2>3, <2>5, <2>6
<1> QED
  BY <1>2, <1>3

(* A refused reservation may use up the key, and renews nothing.           *)
LEMMA ReserveFailsBudget ==
  ASSUME RecordLimit < IntMax, BudgetInv, NEW call, ReserveFails(call)
  PROVE  /\ ctx'.needs_reinit /\ ctx'.phase = "NO_RECORD"
         /\ ctx'.encrypt = ctx.encrypt
         /\ \/ SameBudget(ctx, ctx')
            \/ /\ ctx'.usage_key = ctx.usage_key
               /\ ctx.encrypted_records = RecordLimit
               /\ ctx'.encrypted_records = RecordLimit + 1
               /\ ctx'.usage_exhausted
<1> DEFINE n == AtomicIncrement(ctx.encrypted_records)
           e == [ctx EXCEPT !.encrypted_records = n, !.usage_exhausted = TRUE]
<1>1. /\ ctx \in Context
      /\ ctx.usage_exhausted <=> ctx.encrypted_records > RecordLimit
  BY DEF BudgetInv, TypeOK, CounterExact
<1>2. \/ ctx' = DropRecord(ctx)
      \/ ~BudgetSpent(ctx) /\ n > RecordLimit /\ ctx' = DropRecord(e)
  BY DEF ReserveFails, ReserveFailures
<1>3. CASE ctx' = DropRecord(ctx)
  BY <1>1, <1>3, DropRecordFacts, DropRecordPoisons
  DEF DropRecord, Poison, InvalidateRecord, Context
<1>4. CASE ~BudgetSpent(ctx) /\ n > RecordLimit /\ ctx' = DropRecord(e)
  <2>1. ctx.encrypted_records \in Nat /\ ctx.encrypted_records <= RecordLimit
    BY <1>1, <1>4, LimitFacts DEF BudgetSpent, Context
  <2>2. n = ctx.encrypted_records + 1
    BY <2>1, LimitAssumption DEF AtomicIncrement
  <2>3. ctx.encrypted_records = RecordLimit /\ n = RecordLimit + 1
    BY <1>4, <2>1, <2>2, LimitFacts
  <2>4. n \in 0..RecordLimit + 1
    BY <2>3, LimitFacts
  <2> HIDE DEF n
  <2>5. /\ e \in Context /\ e.encrypt = ctx.encrypt
        /\ e.usage_key = ctx.usage_key /\ e.usage_exhausted
        /\ e.encrypted_records = n
    BY <1>1, <2>4 DEF Context
  <2> HIDE DEF e
  <2>6. /\ ctx'.phase = "NO_RECORD" /\ SameBudget(e, ctx') /\ ctx'.needs_reinit
        /\ ctx'.encrypt = e.encrypt
    BY <1>4, <2>5, DropRecordFacts, DropRecordPoisons
    DEF DropRecord, Poison, InvalidateRecord, Context
  <2> QED
    BY <2>3, <2>5, <2>6 DEF SameBudget
<1> QED
  BY <1>2, <1>3, <1>4

(* A record that goes on is charged when it begins and encrypts, and not   *)
(* otherwise.                                                              *)
DataSteps ==
  \/ \E call \in {"update", "final"} : InjectFails(call)
  \/ \E item \in Data : UpdateInnerFails(item) \/ UpdateOk(item)
  \/ FinalInnerFails
  \/ FinalOk

(* A call with data charges one record when it begins one, else none.      *)
LEMMA DataBudget ==
  ASSUME RecordLimit < IntMax, BudgetInv, Live(ctx), DataSteps
  PROVE  LET begins == ctx.phase = "MANIFEST_PENDING" /\ ctx.encrypt
         IN  /\ ctx'.encrypt = ctx.encrypt
             /\ ctx'.usage_key = ctx.usage_key
             /\ ctx'.usage_exhausted = ctx.usage_exhausted
             /\ begins => /\ ctx'.encrypted_records = ctx.encrypted_records + 1
                          /\ ctx'.encrypted_records <= RecordLimit
             /\ ~begins => ctx'.encrypted_records = ctx.encrypted_records
<1> DEFINE r == Reserve(ctx)
           v == Activate(ctx)
<1>1. CanReserve(ctx)
  BY DEF DataSteps, InjectFails, UpdateInnerFails, UpdateOk, FinalInnerFails, FinalOk
<1>2. r \in Context
  BY <1>1, ReserveFacts
<1>3. /\ v \in Context /\ v.encrypt = r.encrypt /\ SameBudget(r, v)
  BY <1>1, <1>2, ActivateFacts DEF BudgetInv, TypeOK
<1>4. \/ ctx' \in {v, Poison(r), Poison(v), [v EXCEPT !.payload_started = TRUE]}
      \/ ctx' = [v EXCEPT !.phase = "FINALIZED", !.decrypt_tag_current = FALSE]
  BY DEF DataSteps, InjectFails, UpdateInnerFails, UpdateOk, FinalInnerFails, FinalOk
<1> HIDE DEF r, v
<1>5. ctx'.encrypt = r.encrypt /\ SameBudget(r, ctx')
  BY <1>2, <1>3, <1>4 DEF Poison, Context, SameBudget
<1> QED
  BY <1>1, <1>5, ReserveFacts DEF r, SameBudget

(* The calls without data keep the budget.                                 *)
OtherSteps ==
  \/ UpdateRefused \/ UpdateEmpty \/ FinalRefused \/ FinalMisused
  \/ \E ok \in BOOLEAN : SetOther(ok) \/ GetOther(ok)
  \/ SetTag \/ GetTag

(* And it keeps the direction and the phase, and clears no poison.         *)
LEMMA OtherBudget ==
  ASSUME TypeOK, OtherSteps
  PROVE  /\ SameBudget(ctx, ctx')
         /\ ctx'.encrypt = ctx.encrypt
         /\ ctx'.phase = ctx.phase
         /\ ctx'.needs_reinit \/ ctx'.needs_reinit = ctx.needs_reinit
<1>1. ctx \in Context
  BY DEF TypeOK
<1>2. ctx' \in {ctx, DropTag(ctx), Poison(ctx), [ctx EXCEPT !.decrypt_tag_current = TRUE]}
  BY DEF OtherSteps, UpdateRefused, UpdateEmpty, FinalRefused, FinalMisused, SetOther,
         GetOther, SetTag, TagRefused, TagInnerFails, TagAccepted,
         GetTag, GetTagInnerFails, GetTagOk
<1> QED
  BY <1>1, <1>2 DEF DropTag, Poison, Context, SameBudget

(* The steps of the context, by what they do to the budget.                *)
LEMMA StepsOfNext ==
  ASSUME Next
  PROVE  \/ \E a \in InitCalls : CipherInit(a) /\ ~InitRecord(a)
         \/ \E a \in InitCalls : InitRecord(a)
         \/ \E call : ReserveFails(call)
         \/ Live(ctx) /\ DataSteps
         \/ OtherSteps
<1>1. ASSUME NEW item \in Data, Update(item)
      PROVE  (\E call : ReserveFails(call)) \/ (Live(ctx) /\ DataSteps)
  BY <1>1 DEF Update, UpdateAccepts, DataSteps
<1>2. ASSUME Final
      PROVE  (\E call : ReserveFails(call)) \/ (Live(ctx) /\ DataSteps)
  BY <1>2 DEF Final, FinalAccepts, DataSteps
<1>3. ASSUME NEW a \in InitCalls, CipherInit(a)
      PROVE  InitRecord(a) \/ (CipherInit(a) /\ ~InitRecord(a))
  BY <1>3
<1> QED
  BY <1>1, <1>2, <1>3 DEF Next, OtherSteps

(* The counter falls, and the exhaustion of a key ends, only when a record *)
(* is opened to write under another key.                                   *)
LEMMA BudgetStep ==
  ASSUME RecordLimit < IntMax, BudgetInv, Next,
         \/ ctx'.encrypted_records < ctx.encrypted_records
         \/ ctx.usage_exhausted /\ ~ctx'.usage_exhausted
  PROVE  /\ ctx'.usage_key \notin {NoKey, ctx.usage_key}
         /\ ret' = [call |-> "init", ok |-> TRUE]
         /\ ctx'.encrypt /\ inner'.key = ctx'.usage_key
<1>1. TypeOK /\ ctx \in Context /\ ctx.encrypted_records \in Int
  BY LimitFacts DEF BudgetInv, TypeOK, Context
<1>2. ~SameBudget(ctx, ctx')
  BY <1>1 DEF SameBudget
<1>3. ASSUME NEW call, ReserveFails(call) PROVE FALSE
  BY <1>1, <1>2, <1>3, ReserveFailsBudget, LimitFacts
<1>4. ASSUME Live(ctx), DataSteps PROVE FALSE
  BY <1>1, <1>4, DataBudget
<1>5. ~OtherSteps
  BY <1>1, <1>2, OtherBudget
<1>6. ASSUME NEW a \in InitCalls, CipherInit(a), ~InitRecord(a) PROVE FALSE
  BY <1>1, <1>2, <1>6, InitKeepsBudget
<1>7. PICK a \in InitCalls : InitRecord(a)
  BY <1>3, <1>4, <1>5, <1>6, StepsOfNext
<1>8. a.encrypt
  BY <1>2, <1>7, InitRecordBudget
<1>9. ret' = [call |-> "init", ok |-> TRUE]
  BY <1>7 DEF InitRecord, Returns
<1> QED
  BY <1>2, <1>7, <1>8, <1>9, InitRecordBudget

(* BudgetOnlyFromAnotherKey: no IV-only call, reinstallation of the same   *)
(* key, failure or retry gives a write key back what it used.              *)
THEOREM BudgetRenewal ==
  ASSUME RecordLimit < IntMax PROVE Spec => BudgetOnlyFromAnotherKey
<1>1. BudgetInv /\ [Next]_vars
        => [\/ ctx'.encrypted_records < ctx.encrypted_records
            \/ ctx.usage_exhausted /\ ~ctx'.usage_exhausted
            => /\ ctx'.usage_key \notin {NoKey, ctx.usage_key}
               /\ ret' = [call |-> "init", ok |-> TRUE]
               /\ ctx'.encrypt /\ inner'.key = ctx'.usage_key]_vars
  BY BudgetStep
<1> QED
  BY <1>1, BudgetInvariant, PTL DEF Spec, BudgetOnlyFromAnotherKey

-----------------------------------------------------------------------------
(* G301Cipher implements RecordContract: each step of the context is a     *)
(* step of the contract, or changes nothing the contract speaks of.        *)

(* The record and the budget of the contract, as Contract maps them.       *)
RecordOf(c) ==
  IF c.needs_reinit THEN "poisoned"
  ELSE CASE c.phase = "NO_RECORD"        -> "none"
         [] c.phase = "MANIFEST_PENDING" -> "pending"
         [] c.phase = "ACTIVE"           -> "active"
         [] c.phase = "FINALIZED"        -> "finalized"

LeftOf(c) ==
  IF c.encrypted_records < RecordLimit THEN RecordLimit - c.encrypted_records ELSE 0

(* The steps of the contract in these terms.                               *)
Keeps == ctx'.usage_key = ctx.usage_key /\ LeftOf(ctx') = LeftOf(ctx)

(* Failing.                                                                *)
LEMMA ContractFails ==
  ASSUME RecordOf(ctx') = "poisoned", ctx'.encrypt \in BOOLEAN, Keeps
  PROVE  Contract!Fail
  BY DEF Contract!Fail, RecordOf, LeftOf, Keeps

(* Giving the record up.                                                   *)
LEMMA ContractAbandons ==
  ASSUME RecordOf(ctx) # "poisoned", RecordOf(ctx') = "none",
         ctx'.encrypt \in BOOLEAN, Keeps
  PROVE  Contract!Abandon
  BY DEF Contract!Abandon, RecordOf, LeftOf, Keeps

(* Nothing the contract speaks of.                                         *)
LEMMA ContractStutters ==
  ASSUME RecordOf(ctx') = RecordOf(ctx), ctx'.encrypt = ctx.encrypt, Keeps
  PROVE  UNCHANGED Contract!vars
  BY DEF Contract!vars, RecordOf, LeftOf, Keeps

(* Opening a record.                                                       *)
LEMMA ContractOpens ==
  ASSUME RecordOf(ctx') = "pending"
  PROVE  /\ ctx'.encrypt = FALSE /\ Keeps => Contract!OpenToRead
         /\ ctx'.encrypt = TRUE
              /\ LeftOf(ctx') = (IF ctx'.usage_key = ctx.usage_key
                                 THEN LeftOf(ctx) ELSE RecordLimit)
              => Contract!OpenToWrite(ctx'.usage_key)
  BY DEF Contract!OpenToRead, Contract!OpenToWrite, RecordOf, LeftOf, Keeps

(* Beginning it.                                                           *)
LEMMA ContractBegins ==
  ASSUME RecordOf(ctx) = "pending",
         RecordOf(ctx') \in {"active", "finalized", "poisoned"},
         ctx'.encrypt = ctx.encrypt, ctx'.usage_key = ctx.usage_key,
         IF ctx.encrypt THEN LeftOf(ctx) > 0 /\ LeftOf(ctx') = LeftOf(ctx) - 1
                        ELSE LeftOf(ctx') = LeftOf(ctx)
  PROVE  Contract!Begin
  BY DEF Contract!Begin, RecordOf, LeftOf

(* Finishing it.                                                           *)
LEMMA ContractFinishes ==
  ASSUME RecordOf(ctx) = "active", RecordOf(ctx') = "finalized",
         ctx'.encrypt = ctx.encrypt, Keeps
  PROVE  Contract!Finish
  BY DEF Contract!Finish, RecordOf, LeftOf, Keeps

(* An unchanged counter leaves what was left.                              *)
LEMMA SameBudgetKeeps == SameBudget(ctx, ctx') => Keeps
  BY DEF SameBudget, Keeps, LeftOf

-----------------------------------------------------------------------------
(* An initialisation that opens no record fails the record, gives it up,   *)
(* or leaves it.                                                           *)
LEMMA InitMaps ==
  ASSUME BudgetInv, BudgetInv', NEW a \in InitCalls, CipherInit(a), ~InitRecord(a)
  PROVE  Contract!Fail \/ Contract!Abandon \/ UNCHANGED Contract!vars
<1>1. TypeOK /\ ctx \in Context /\ ctx' \in Context /\ ctx'.encrypt \in BOOLEAN
  BY DEF BudgetInv, TypeOK, Context
<1>2. Keeps
  BY <1>1, InitKeepsBudget, SameBudgetKeeps
<1>3. CASE ctx'.needs_reinit
  BY <1>1, <1>2, <1>3, ContractFails DEF RecordOf
<1>4. CASE ~ctx'.needs_reinit
  <2>1. ~(InitInnerFails(a) \/ InitRecordKeyFails(a) \/ InitInstallFails(a))
    BY <1>1, <1>4, BeginInitFacts, CommitInitFacts, DropRecordPoisons
    DEF InitInnerFails, InitRecordKeyFails, InitInstallFails
  <2>2. CASE InitRefused(a)
    <3>1. ctx' \in {ctx, DropTag(ctx), InvalidateRecord(ctx)}
      BY <2>2 DEF InitRefused, RefuseInit
    <3>2. /\ ctx'.needs_reinit = ctx.needs_reinit /\ ctx'.encrypt = ctx.encrypt
          /\ ctx'.phase = ctx.phase \/ ctx'.phase = "NO_RECORD"
      BY <1>1, <3>1 DEF DropTag, InvalidateRecord, Context
    <3>3. CASE ctx'.phase = ctx.phase
      BY <1>2, <3>2, <3>3, ContractStutters DEF RecordOf
    <3>4. CASE ctx'.phase = "NO_RECORD"
      <4>1. RecordOf(ctx) # "poisoned" /\ RecordOf(ctx') = "none"
        BY <1>1, <1>4, <3>2, <3>4 DEF RecordOf, Context, Phases
      <4> QED
        BY <1>1, <1>2, <4>1, ContractAbandons
    <3> QED
      BY <3>2, <3>3, <3>4
  <2>3. CASE InitWithoutRecord(a)
    <3>1. /\ CommitInit(ctx, a) \in Context
          /\ CommitInit(ctx, a).needs_reinit = ctx.needs_reinit
          /\ ctx' = InvalidateRecord(CommitInit(ctx, a))
      BY <1>1, <2>3, CommitInitFacts, CommitInitKeepsPoison DEF InitWithoutRecord
    <3>2. ctx'.needs_reinit = ctx.needs_reinit /\ ctx'.phase = "NO_RECORD"
      BY <3>1 DEF InvalidateRecord, Context
    <3>3. RecordOf(ctx) # "poisoned" /\ RecordOf(ctx') = "none"
      BY <1>1, <1>4, <3>2 DEF RecordOf, Context, Phases
    <3> QED
      BY <1>1, <1>2, <3>3, ContractAbandons
  <2> QED
    BY <2>1, <2>2, <2>3 DEF CipherInit
<1> QED
  BY <1>3, <1>4

(* A successful one with an IV opens a record.                             *)
LEMMA InitRecordMaps ==
  ASSUME BudgetInv, BudgetInv', NEW a \in InitCalls, InitRecord(a)
  PROVE  Contract!OpenToRead \/ \E k \in Keys : Contract!OpenToWrite(k)
<1>1. ctx' \in Context /\ ctx'.encrypt \in BOOLEAN /\ ctx'.usage_key \in MaybeKey
  BY DEF BudgetInv, TypeOK, Context
<1>2. RecordOf(ctx') = "pending" /\ ctx'.encrypt = a.encrypt
  BY InitRecordBudget DEF RecordOf
<1>3. CASE ~a.encrypt
  BY <1>1, <1>2, <1>3, InitRecordBudget, SameBudgetKeeps, ContractOpens
<1>4. CASE a.encrypt
  <2>1. ctx'.usage_key \in Keys
    BY <1>1, <1>4, InitRecordBudget DEF MaybeKey
  <2>2. LeftOf(ctx') = IF ctx'.usage_key = ctx.usage_key THEN LeftOf(ctx) ELSE RecordLimit
    BY <1>4, InitRecordBudget, LimitFacts DEF SameBudget, LeftOf
  <2>3. ctx'.encrypt = TRUE
    BY <1>1, <1>2, <1>4
  <2> QED
    BY <1>2, <2>1, <2>2, <2>3, ContractOpens
<1> QED
  BY <1>3, <1>4

(* A refused reservation fails the record: nothing was left, or is.        *)
LEMMA ReserveFailsMaps ==
  ASSUME RecordLimit < IntMax, BudgetInv, BudgetInv', NEW call, ReserveFails(call)
  PROVE  Contract!Fail
<1>1. ctx'.encrypt \in BOOLEAN
  BY DEF BudgetInv, TypeOK, Context
<1>2. Keeps
  BY ReserveFailsBudget, SameBudgetKeeps, LimitFacts DEF Keeps, LeftOf
<1> QED
  BY <1>1, <1>2, ReserveFailsBudget, ContractFails DEF RecordOf

(* Data begins the record, goes on with it, finishes or fails it.          *)
LEMMA DataMaps ==
  ASSUME RecordLimit < IntMax, BudgetInv, BudgetInv', Live(ctx), DataSteps
  PROVE  Contract!Begin \/ Contract!Finish \/ Contract!Fail \/ UNCHANGED Contract!vars
<1>1. /\ ctx \in Context /\ ctx'.encrypt \in BOOLEAN
      /\ ctx.encrypt \in BOOLEAN /\ ctx.encrypted_records \in Nat
  BY LimitFacts DEF BudgetInv, TypeOK, Context
<1>2. ctx'.needs_reinit \/ (~ctx'.needs_reinit /\ ctx'.phase \in {"ACTIVE", "FINALIZED"})
  <2>1. Reserve(ctx) \in Context /\ Activate(ctx) \in Context /\ Activate(ctx).phase = "ACTIVE"
    <3>1. CanReserve(ctx)
      BY DEF DataSteps, InjectFails, UpdateInnerFails, UpdateOk, FinalInnerFails, FinalOk
    <3> QED
      BY <1>1, <3>1, ReserveFacts, ActivateFacts
  <2> QED
    BY <2>1, PoisonFacts
    DEF DataSteps, InjectFails, UpdateInnerFails, UpdateOk, FinalInnerFails, FinalOk, Context
<1>3. RecordOf(ctx') \in {"active", "finalized", "poisoned"}
  BY <1>2 DEF RecordOf
<1>4. CASE ctx.phase = "MANIFEST_PENDING"
  <2>1. RecordOf(ctx) = "pending"
    BY <1>4 DEF RecordOf, Live
  <2>2. CASE ctx.encrypt
    <3>1. LeftOf(ctx) > 0 /\ LeftOf(ctx') = LeftOf(ctx) - 1
      BY <1>1, <1>4, <2>2, DataBudget, LimitFacts DEF LeftOf
    <3> QED
      BY <1>3, <2>1, <2>2, <3>1, DataBudget, ContractBegins
  <2>3. CASE ~ctx.encrypt
    <3>1. LeftOf(ctx') = LeftOf(ctx)
      BY <2>3, DataBudget DEF LeftOf
    <3> QED
      BY <1>3, <2>1, <2>3, <3>1, DataBudget, ContractBegins
  <2> QED
    BY <2>2, <2>3
<1>5. CASE ctx.phase = "ACTIVE"
  <2>1. RecordOf(ctx) = "active"
    BY <1>5 DEF RecordOf, Live
  <2>2. Keeps /\ ctx'.encrypt = ctx.encrypt
    BY <1>5, DataBudget DEF Keeps, LeftOf
  <2> QED
    BY <1>1, <1>3, <2>1, <2>2, ContractFinishes, ContractFails, ContractStutters
<1> QED
  BY <1>4, <1>5 DEF Live

(* The other calls fail the record or leave it.                            *)
LEMMA OtherMaps ==
  ASSUME BudgetInv, BudgetInv', OtherSteps
  PROVE  Contract!Fail \/ UNCHANGED Contract!vars
<1>1. TypeOK /\ ctx'.encrypt \in BOOLEAN /\ ctx.phase \in Phases
  BY DEF BudgetInv, TypeOK, Context
<1>2. Keeps
  BY <1>1, OtherBudget, SameBudgetKeeps
<1>3. CASE ctx'.needs_reinit
  BY <1>1, <1>2, <1>3, ContractFails DEF RecordOf
<1>4. CASE ctx'.needs_reinit = ctx.needs_reinit
  <2>1. RecordOf(ctx') = RecordOf(ctx)
    <3>1. ctx'.phase = ctx.phase
      BY <1>1, OtherBudget
    <3> QED
      BY <1>1, <1>4, <3>1 DEF RecordOf, Phases
  <2> QED
    BY <1>1, <1>2, <2>1, OtherBudget, ContractStutters
<1> QED
  BY <1>1, <1>3, <1>4, OtherBudget

(* ImplementsContract: every behaviour of the context, with any sequence   *)
(* of calls, refusals and failures, is one the record contract allows.     *)
THEOREM ContractImplemented ==
  ASSUME RecordLimit < IntMax PROVE Spec => ImplementsContract
<1>1. Init => Contract!Init
  BY LimitFacts DEF Init, Contract!Init
<1>2. BudgetInv /\ BudgetInv' /\ [Next]_vars => [Contract!Next]_(Contract!vars)
  <2> SUFFICES ASSUME BudgetInv, BudgetInv', [Next]_vars
               PROVE  Contract!Next \/ UNCHANGED Contract!vars
    OBVIOUS
  <2>1. CASE UNCHANGED vars
    BY <2>1, ContractStutters DEF vars, Keeps
  <2>2. CASE \E a \in InitCalls : CipherInit(a) /\ ~InitRecord(a)
    BY <2>2, InitMaps DEF Contract!Next
  <2>3. CASE \E a \in InitCalls : InitRecord(a)
    BY <2>3, InitRecordMaps DEF Contract!Next
  <2>4. CASE \E call : ReserveFails(call)
    BY <2>4, ReserveFailsMaps DEF Contract!Next
  <2>5. CASE Live(ctx) /\ DataSteps
    BY <2>5, DataMaps DEF Contract!Next
  <2>6. CASE OtherSteps
    BY <2>6, OtherMaps DEF Contract!Next
  <2> QED
    BY <2>1, <2>2, <2>3, <2>4, <2>5, <2>6, StepsOfNext
<1> QED
  BY <1>1, <1>2, BudgetInvariant, PTL DEF Spec, ImplementsContract, Contract!Spec

=============================================================================
