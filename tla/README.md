# A formal model of the G301 provider and its inner session

TLA+ modules for the outer provider (`outer-tls/`) and the inner session
(`inner-threads/`) of this repository, the TLC runs that check them on small
instances, and the theorems TLAPS proves about them.

| Module | What it is |
|---|---|
| `G301Cipher` | one cipher context of the outer provider, `g301_cipher.c` |
| `RecordContract` | what such a context promises: the EVP record contract and the write-key budget |
| `G301Params` | the parameter lists of such a context, composed with its calls |
| `Provider` | loading, unloading, contexts and what they allocate, `g301_provider.c`, `newctx`, `freectx` |
| `InnerSession` | two inner-thread sessions and the records between them, `session.rs` |
| `SecureChannels` | what two sessions promise: ordered channels between peers of one group |
| `RecordCodec` | the records of a session on the wire, `record.rs` |
| `KeySchedule` | how sessions come to their keys, `profile.rs`, `from_exporter_epoch` |
| `G301CipherProofs` | theorems about `G301Cipher`: keys, budget and tag; the record and its contract |
| `G301ParamsProofs` | theorems about `G301Params`, and that it implements `G301Cipher` |
| `InnerSessionProofs`, `SessionUsageProofs` | theorems about `InnerSession`: order, nonces, keys; accounting, and ordered transports |
| `SecureChannelsProofs` | that `InnerSession` implements `SecureChannels` |
| `ProviderProofs`, `RecordCodecProofs`, `KeyScheduleProofs` | theorems about `Provider`, `RecordCodec` and `KeySchedule` |
| `MC...` | the instances TLC checks: symmetry sets and inputs; `MCRecordCodec` also compares `ByteXor` with the community modules' operator |

`G301Params` EXTENDS `G301Cipher`: its calls are the calls of that module with
the lists put back. `G301Cipher` implements `RecordContract` and `InnerSession`
implements `SecureChannels`, each by a refinement mapping at the end of the
detailed module. `RecordCodec` and `KeySchedule` justify what `InnerSession`
takes for granted of records and keys; `Provider` justifies the context that
`G301Cipher` starts from.

Run from this directory, with the TLA+ tools on the path:

    tlc -config MCG301Cipher.cfg MCG301Cipher
    tlc -config InnerSession.cfg MCInnerSession
    tlapm G301CipherProofs.tla
    tlapm InnerSessionProofs.tla

Sections 2 to 6 go through the components, each with what is modelled, what its
runs check and what is proved about it; section 7 says what is left to the model
checker alone.

## 1. The system

### 1.1 Components

**Outer cipher context** (`g301_cipher.c`). An EVP cipher that wraps the
default provider's AES-256-GCM and prefixes a fixed 32-byte manifest to the AAD
of every record. *State*: the phase of the record, the direction, whether the
key is usable, whether the context is poisoned (`needs_reinit`), whether a
decryption tag was given for this record, and the accounting of the write key
(current key, budgeted key, count, exhaustion, reservation). *Operations*:
`newctx`, `encrypt_init`, `decrypt_init`, `update`, `final`, `get_ctx_params`,
`set_ctx_params`, `freectx`. *Correct when*: the manifest precedes all else in
every record, no record outlives a failure, no tag of another record is
accepted, and no key installation encrypts more than 23,680,450 records.

**Inner EVP wrapper** (`g301_inner_evp.c`). Seven functions behind
`G301_INNER_OPS`; its one field of its own is `initialized`. Any of them may
fail, after it changed the OpenSSL context or before.

**Parameter policy** (`g301_cipher.c:175-284, 705-741`). Which lists of
parameters are refused: duplicates, twenty denylisted names, wrong lengths and
types, in which order that is found out, and what a refused list leaves behind.
Stateless; its verdict steers the cipher context. *Correct when*: a list that
is taken can be read in one way only, and a refused one leaves no tag and no
record of a key the caller meant to replace.

**Provider lifecycle** (`g301_provider.c`). *State*: the provider context, the
three error functions of the core and a child library context; for each cipher
context its lock and its inner context of three parts. *Operations*:
`OSSL_provider_init`, query, capabilities, teardown, `newctx`, `freectx`.
*Correct when*: nothing leaks on any path that fails, nothing is used after its
release whoever unloads meanwhile, and a context a caller holds is whole.

**TLS capability descriptor** (`g301_provider.c:82-113`). Six constants given
to a callback.

**Inner session** (`session.rs`). *State*: `Committing`, `Active`, `Draining`,
`Closed` or `Failed`; four flags for the commits and closes sent and received;
for each of ten contexts (five channels, two directions) a key, a sequence
number and the usage. *Operations*: `from_exporter_epoch`, `seal_commit`,
`seal_data`, `seal_refresh_required`, `seal_close`, `open_record`, `abort`,
`refresh_due`. *Correct when*: records are opened in order and once, no nonce
repeats, data moves only between peers of the same exporter and context, the
limits hold, and the keys are gone exactly when the session has ended.

**Record codec** (`record.rs`). Header layout, parser, AAD, nonce, and the
AES-GCM calls. Stateless. *Correct when*: a record opens exactly when it is the
one that was sealed, has one encoding only, and no two records of a key share a
nonce.

**Key schedule and profile** (`profile.rs`). Channels, directions, the
manifest, the context hash, and the derivation of the ten contexts. *State*:
the process-wide `OnceLock` with the fetched cipher. *Correct when*: two
sessions share a key exactly for the same channel, direction, exporter and
application context.

**Exporter capability and public types** (`lib.rs`). The one-shot exporter
material and the public enums. *Correct when*: no two sessions of a process
ever seal under the same key.

**Outer-to-inner adapter** (`integration/README.md`). A contract only; the
repository has no code for it yet.

**Tests, benchmarks, packaging, scripts.** Not part of the program.

### 1.2 How they interact

libcrypto calls a cipher context through the dispatch table; the context calls
the inner wrapper, and calls nothing back. Two contexts share the provider
context, which does not change after its creation, and nothing else. Inner
sessions share nothing but the wire: what one seals the other opens. The two
layers meet only in the adapter that is still to be written: it takes the
exporter of a TLS connection whose records the outer layer protects.

### 1.3 What is hard here

A cipher context is called serially and a session through `&mut self`, so
there are no data races inside either. What is hard is sequences, failures
half-way, and the threads around:

* the *flags of the cipher context*: phase, poison, key validity, tag freshness,
  the mark of a changed key and the reservation are set and cleared on more
  than twenty paths, and the inner context changes under them even in calls
  that fail;
* the *budget*, which has to survive every such path and has a path that skips
  the lock and the comparison of keys;
* the *integer edge* of the counter;
* the *session's three ends* (error, hard limit, orderly close), any two of
  which may come in one call;
* the *network*: repeated, lost, reordered and reflected records, commits and
  closes that cross, data that crosses a close;
* the *parameter lists*, refused for one entry and partly acted on for another;
* *allocations* that fail one by one, and a provider that is unloaded while
  contexts of other threads still hold what was fetched through it;
* *sessions created by several threads*, retried after a failure, from
  capabilities that must be used once, over a cipher that is fetched once;
* the *bytes* of a record, whose length is told twice;
* *progress*, with no timer anywhere: what one side waits for, only the other
  side can send.

`PROJECT.json` lists each of these at its line, with the properties that cover
it.

## 2. The cipher context: `G301Cipher`

`ctx` is `G301_CIPHER_CTX`. `current_key_valid` and `usage_key_valid` are never
cleared in the code, so `NoKey` in the key field stands for them. Pointers,
error callbacks and the bytes of keys and data are left out.

`inner` is the AES-256-GCM context as far as the outer one can tell: the key
and direction it was given, its tag (`"earlier"` once another IV was set
since), what it absorbed since its IV and whether it finalised that. It is
external, modelled from how `g301_inner_evp.c` passes the calls on: a call that
fails may have stopped anywhere, with the direction, the IV, the key and the
tag taken in that order. It checks nothing the outer context checks: whether
the outer context is right must not depend on it. In particular a `final` may
succeed without a tag.

`installed` is history: the installed write key and the records the *inner*
context was asked to begin under it, kept from the calls that reach the inner
context, never from the counter of the code. `ret` is the last call and its
result.

| Code | Actions |
|---|---|
| `g301_init` | `InitRefused` (every early return), `InitInnerFails`, `InitRecordKeyFails` (the lock), `InitInstallFails`, `InitWithoutRecord`, `InitRecord` |
| `g301_cipher_update` | `UpdateRefused`, `UpdateEmpty`, `Update` = a refused reservation, a failed injection, a failed inner update, success |
| `g301_cipher_final` | `FinalRefused`, `FinalMisused`, `Final` = the same four |
| `g301_cipher_set_ctx_params` | `SetOther`, `SetTag` |
| `g301_cipher_get_ctx_params` | `GetOther`, `GetTag` |

A call is one action with all it changes, in the order of the code: `UpdateOk`
reserves, injects, moves the phase, absorbs and notes the payload. The
operators of the first section are the `static` functions of the same names.
`CRYPTO_atomic_add` is addition in a C `int` of which the largest value is
`IntMax`. Three branches of `g301_init` cannot be taken: `:332-338` repeats
what `g301_validate_init_params` has refused, `:383-388` needs an IV without a
usable key, which `:339` has refused, and the missing key of `:117` is ruled
out by `KeyAgreement`. The first two have no action; the third is in the guard
of `InitInstallFails`.

### Run `cipher` (`MCG301Cipher.cfg`)

Two write keys, a budget of two records, at most three inner updates per
record, `IntMax` of seven. Two keys make A-B-A; a budget of two is the smallest
with a record that is neither first nor last; three inner updates hold the
manifest and any two pieces of data after it. `IntMax` is above the limit plus
one, as in production. `Keys` is symmetric. There is no bound on the number of
calls. 71,000 states; deadlock is checked.

| Property | The question |
|---|---|
| `TypeOK` | do the fields keep their domains; does the counter stop |
| `KeyAgreement` | after a failed or partial initialisation, do the flags still describe the inner context |
| `FastPathSound` | may the lock-free path skip the comparison of keys |
| `BudgetOfOpenRecord` | does an open record draw on its own key's budget, and reserve exactly once |
| `UsageWithinLimit` | can any sequence encrypt more records under one installation than the limit |
| `CounterExact` | is the counter the number of records begun |
| `ManifestFirst` | is the manifest absorbed once, first, and no AAD after payload |
| `AcceptedWithCurrentTag` | is every accepted decryption checked against a tag given for it |
| `TagOnlyOfSealedRecord` | is every tag that leaves the context the tag of a finalised encryption |
| `PoisonHolds` | does a poisoned context touch no data until a new record starts over |
| `BudgetOnlyFromAnotherKey` | does only the successful installation of another key renew a budget |
| `ImplementsContract` | does the context implement `RecordContract` |

`RecordContract` knows four variables: the state of the record, the direction,
the write key and what it has left. The mapping turns `needs_reinit` in any
phase into "poisoned" and the counter into the remaining budget. It says what
the properties above do not: which sequences of records exist at all.

### Runs `int_max_limit` and `failed_final`

These two show a disagreement.

`int_max_limit`: the static assertion at `g301_cipher.c:79` admits a limit of
`INT_MAX`. The counter notices exhaustion when it is one past the limit, so at
that limit it wraps to `INT_MIN` and the key never ends. The production limit
is far below; the bound the code needs is `< INT_MAX`, and that is the
assumption of the theorems.

`failed_final`: `docs/G301_DRAFT.md:72` says that every failed Final poisons
the record. A Final on a finalised record fails at `:554-558` and poisons
nothing; its tag stays readable. No other property of the run `cipher` is
affected: the record cannot be finalised twice.

### What is proved

`G301CipherProofs`, for every set of keys, every limit
below `INT_MAX` and every bound on a record's length. All twelve properties of
the run `cipher` are theorems:

| Theorem | Statement |
|---|---|
| `TypeCorrect` | `Spec => []TypeOK` |
| `KeysAgree` | `Spec => []KeyAgreement` |
| `WriteKeyBudget` | `Spec => []UsageWithinLimit` |
| `FastPath` | `Spec => []FastPathSound` |
| `RecordBudget` | `Spec => []BudgetOfOpenRecord` |
| `CounterOfRecords` | `Spec => []CounterExact` |
| `BudgetInvariant` | `Spec => []BudgetInv`, from which the six follow |
| `TagOfThisRecord` | `Spec => []AcceptedWithCurrentTag` |
| `RecordInvariant` | `Spec => []RecordInv` |
| `ManifestComesFirst` | `Spec => []ManifestFirst` |
| `TagOfSealedRecord` | `Spec => []TagOnlyOfSealedRecord` |
| `PoisonKept` | `Spec => PoisonHolds` |
| `BudgetRenewal` | `Spec => BudgetOnlyFromAnotherKey` |
| `ContractImplemented` | `Spec => ImplementsContract` |

`UsageWithinLimit` speaks of the history and the code never reads the history:
it is inductive only together with `CounterExact`, which ties the two. That one
needs to know which key a record is charged to when it opens: `FastPathSound`,
and `KeyAgreement` for the inner context's own key. And it needs that a record
is charged once: `BudgetOfOpenRecord`. So

    BudgetInv == TypeOK /\ KeyAgreement /\ FastPathSound
                        /\ BudgetOfOpenRecord /\ CounterExact

each of which the run `cipher` checks by itself. The proof has a lemma for each
function of the code that says what it keeps of key and budget, then one lemma
for each kind of step: steps that leave no record, that go on with the record,
that open one, that charge one, and that exhaust the key. `BudgetInvStep` sorts
the actions into these.

`TagOfThisRecord` needs an invariant of its own. `Final` accepts on the flag
`decrypt_tag_current` alone, so the flag has to be right whenever it is set,
and it is set and cleared in calls long before:

    TagInv == AcceptedWithCurrentTag
                /\ (ctx.decrypt_tag_current => inner.tag = "current")

`RecordInv` is about the record. `ManifestFirst` alone is not inductive, since
the code looks at the phase and never at what the inner context absorbed. The
invariant adds what the code's own flags say of it: in the phase `FINALIZED` the
inner context has sealed its record, and a poisoned context has no current tag.
`TagOnlyOfSealedRecord` follows because `GetTag` asks for that phase.
`PoisonHolds` and `BudgetOnlyFromAnotherKey` are action properties; each action
is shown to keep them from `RecordInv` and `BudgetInv`.

`ContractImplemented` is the refinement. Under the mapping every call is one
step of `RecordContract` or a stutter: the lemmas go through refusals, failures
(a poisoned record, or none), initialisations with and without a new key, data,
and the two ways a record ends. `CounterExact` and `FastPathSound` are what
makes the mapped budget drop by one exactly when a record opens.

The assumptions are those of the module (`NoKey` is no key, the limit lies in
`1..IntMax`) and that the limit is below `IntMax`. Without the last the theorems
on the budget are false, as `int_max_limit` shows.

## 3. The inner session: `InnerSession`

`session` holds the `Session` of each endpoint; `keys` says whether the traffic
keys are there or erased. `epoch` is what a session was derived from, exporter
and application context together: sessions of different epochs have different
keys and different AAD. `sealed` is every record a session sealed, and from it
the network delivers; `opened` is what a session opened, as the place of the
record in a log.

A record is its header, with what the tag authenticates besides: direction and
epoch. A tag that verifies is equality of these (`Authentic`): AES-GCM is
assumed unforgeable and HKDF collision-free, nothing more.

| Code | Actions |
|---|---|
| `seal_commit`, `seal_data`, `seal_refresh_required`, `seal_close` | `SealCommit`, `SealData`, `SealRefresh`, `SealClose` |
| `seal_raw` at a limit | `SealLimited` |
| `open_record` | `Open`, `OpenRejected` |
| `abort`, calls out of state, oversized payloads, input that does not parse, crypto errors | `Break` |

`seal_raw` fails the session when the record reaches the hard limit, and still
returns it; the callers then skip their own updates (`AfterSeal`).
`open_record` applies the record first and the limit after (`Open`): a close
that closes the session wins over the limit.

Three specifications share these actions. `Spec` lets the network deliver any
record of either endpoint to either, at any time, as often as it likes, and
lets a session break at any moment. `OrderedSpec` delivers each record of the
peer once, in order, and its callers break no session. `FairOrderedSpec` adds
fairness.

### The limits

The code has 2^21 and 2^22 records, 2^35 and 2^36 bytes, and 2^14 bytes of
plaintext. The runs have 2 and 3 records, 1 and 3 bytes, and payloads of 0, 1
and 2: the soft limits are met before the hard ones, both kinds of hard limit
are reached, a payload can jump over the soft limit and one can overrun the
hard one. The order the code's constants have is the assumptions `RecordLimits`
and `ByteLimits`. Sequence numbers are `u64` and stop at the hard limit, so no
width is modelled.

### Run `session` (`InnerSession.cfg`)

Two data channels (with Guard, three: order between channels and isolation of
channels both show), two epochs, and up to three records per session before its
close. A session of three Guard records reaches the hard limit with its close.
480,000 states. Data channels and epochs are symmetric. The system may stop,
with both sessions ended, so deadlock is not an error.

| Property | The question |
|---|---|
| `TypeOK` | domains; does any context of a live session rest at its hard limit |
| `InOrder` | does each channel deliver once, in order, without a gap, under any network |
| `CommitBinds` | can anything but a commit be accepted, or a session leave `Committing`, between peers of different epochs |
| `NonceOnce` | does a sequence number repeat under a key, given that erasing resets it |
| `ErasedExactly` | are the keys erased when, and only when, the session has ended |
| `UsageExact` | is the usage of each context what was sealed and opened under it |
| `HardLimits` | does any key protect more than the limits |
| `CloseIsLast` | does anything follow a close, and does `Closed` mean both were exchanged |
| `RefreshBeforeLimit` | is a hard limit always announced by `refresh_due` |

### Run `ordered_session` (`OrderedSession.cfg`)

One data channel, up to four records per session before its close.
`ClosedIsComplete`: who closes orderly has opened everything.
`OnlyCrossedDataRejected`: between peers of one epoch a session fails without a
record only when its own payload does not fit, or when the record that arrives
is data or a refresh that crossed the close it sent. This is what the code
does: a `Draining` session refuses data, although the peer sent it before it
could know. A user of the session has to stop its peer's data before it closes.

### Run `session_progress` (`SessionProgress.cfg`)

`FairOrderedSpec` assumes weak fairness of the delivery of the next record, of
the commit of each side, and of the answer to a close. The library has no
scheduler, thread or timer of its own: these are the duties of the transport
and of the callers, here the adapter that `integration/README.md` asks for.
Nothing else is fair: no side has to send data or start a close.
`CommitCompletes`: peers of one epoch leave `Committing`. `DrainingEnds`: a
draining session ends, unless its peer has failed; a failed peer tells nobody,
and no timer would notice.

### Run `secure_channels` (`SecureChannels.cfg`)

`SecureChannels` has no records, keys, sequence numbers or limits. It promises:
an endpoint opens only after both have joined for the same group; each channel
delivers a prefix of what was sent on it, in order; nothing is sent or received
after an end; who is closed announced an end and learnt of the other's; a
failure may come at any moment and is for good. The mapping reads the channels
off the logs of data records and the announcements off the commit and close
records; guard records other than these are stutters.

The network is that of the run `session`, hostile. Payloads are 0 or 1 byte and
the hard limit is two bytes, so that the limits are met within a few records:
two payloads of one byte end a context, in the step that seals or opens the
second. 133,000 states. That an ended session stays as it ended, and that a
close which is also the last permitted record does not go on to `Draining` or
`Closed`, is part of this refinement: there is no step out of "closed" or
"failed" to map it to.

### What is proved

`InnerSessionProofs`, `SessionUsageProofs` and `SecureChannelsProofs`, for every
set of data channels and epochs, all limits in the order `RecordLimits` and
`ByteLimits` give, payloads and logs of any length, and `MaxSealed` at least
one:

| Theorem | Statement |
|---|---|
| `SessionInvariant` | `Spec => []SessionInv` |
| `SessionTypeCorrect`, `KeysErased` | `Spec => []TypeOK`, `Spec => []ErasedExactly` |
| `OpensInOrder` | `Spec => []InOrder` |
| `CommitBindsPeers` | `Spec => []CommitBinds` |
| `NoncesUnique` | `Spec => []NonceOnce` |
| `CloseEnds` | `Spec => []CloseIsLast` |
| `UsageInvariant` | `Spec => [](SessionInv /\ UsageInv)` |
| `AccountsExact`, `LimitsHold` | `Spec => []UsageExact`, `Spec => []HardLimits` |
| `LimitAnnounced` | `Spec => RefreshBeforeLimit` |
| `OrderedInvariant` | `OrderedSpec => [](SessionInv /\ InStep)` |
| `ClosesComplete` | `OrderedSpec => []ClosedIsComplete` |
| `CrossedDataOnly` | `OrderedSpec => OnlyCrossedDataRejected` |
| `SecureInvariant` | the invariant under the refinement |
| `ChannelsImplemented` | `Spec => ImplementsChannels` |

*Steps.* The actions fall into three kinds (`StepKinds`): a session seals one
record (`Sealing`), opens one (`Opening`), or fails without one (`Failing`).
These say in one place what a call charges, what becomes of state and flags, and
that a session at its hard limit has ended; the rest of the proofs speaks of
them only.

*`SessionInv`.* None of the properties is inductive. Nothing in the code looks
at the logs: that a record is not opened twice is a matter of a sequence number,
and that `Closed` means two closes, of four flags. The invariant has `TypeOK`,
`ErasedExactly`, `InOrder` and `CloseIsLast` as they are, and what ties them to
the code:

| Part | What it says |
|---|---|
| `Stamped` | each record has the direction and epoch of its sealer |
| `Located` | what was opened lies in the log of the peer |
| `FlagsMeanRecords` | a flag is set when its commit or close is in the log, and for closes of a live session only then |
| `StateMeansFlags` | the flags that go with each state; nothing sealed before the commit; room left for the close |
| `Bound` | who opened anything shares the peer's epoch, who opened more than a commit exchanged commits |
| `Numbered` | sequence numbers of a channel go up and stay below the next one |
| `Followed` | a live session opened the records below its receiving sequence number, all of them and no others |

`Numbered` at one end and `Followed` at the other are what makes `InOrder`
inductive: a record whose number is the receiver's next is the first that was
not opened yet. `NonceOnce` follows from `Numbered`, `CommitBinds` from `Bound`
and `FlagsMeanRecords`.

*`UsageInv`.* The usage of a live session counts the logs (`Matches`), and all
logs keep the limits (`Within`); the logs of an ended session keep them although
its usage is gone. Bytes are counted by a recursive function, about which the
provers cannot do induction. The invariant therefore carries `Summed`: exactly
one function satisfies the recursion for this log. `BytesAdded` extends that
function by one record, and that is all the recursion the proofs need.

*Over an ordered transport* `InStep` says that what was opened is the beginning
of the peer's log. Then `ClosesComplete` is a matter of `CloseIsLast`. For
`CrossedDataOnly`, `SentInv` says of each record how it stands to those before
it (its number counts them, the limits had room for it, a commit is the first
and no other is) and that nothing follows the first record of a log before the
peer sealed one; `NotedInv` that a live session noted the commit it opened. A
record that arrives in line is then acceptable in all respects (`NextInLine`,
`TypeInLine`), unless it is data or a refresh and the receiver has sent its
close.

*The refinement.* `SecureInv` adds to the two invariants where each record's
payload is: at the place its sequence number gives, in the list of payloads of
its channel. As for the bytes, the recursive function that makes this list is
kept unique in the invariant. A session opens the record of its next number, so
what it receives is the payload next in the list. Then each kind of step is shown to be a join, a sending, a receipt, an end, a failure or a
stutter of `SecureChannels`.

## 4. The parameter lists: `G301Params`

`G301Cipher` knows of a list only its verdict. Here a call brings the list, and
the verdict is computed from it as the code does. An entry is a name and what
the provider finds in it: `"fixed"` (the type, size and value expected),
`"null"` (the type and no data) or `"wrong"`. `request` is history: what the
last list asked for, what the inner context was given of it, and which entries
were answered. All calls without a list are those of `G301Cipher`, and an
accepted list continues as its `CipherInit`, `TagAccepted` or `GetTag`.

| Code | Definitions |
|---|---|
| `g301_validate_init_params` and the two refusals of `g301_init` that precede the inner context | `InitValid`, `NotesTag`, `InitRefusal`, in `InitWith` |
| `g301_cipher_set_ctx_params` | `SetRefused`, `SetAccepted` |
| `g301_cipher_get_ctx_params` | `GetRefused`, `GetAnswered` |
| `g301_cipher_get_params` | `GetStatic` |
| `filtered_params` | `Filtered` |

The twenty denied names are treated alike and are one name, `"legacy"`; so are
the three lengths when a list is checked, and `"ivlen"`, the one that is
forwarded, stands for them. Lists have up to two entries: the code compares
names pairwise and looks no further than the first entry of a name, so a pair
shows every order and every duplicate there is.

### Runs `params` (`G301Params.cfg`) and `params_of_cipher` (`ParamsOfCipher.cfg`)

One key and a limit of one record: the lists do not look at either, and two
records reach every phase with an exhausted key.

| Property | The question |
|---|---|
| `RefusedTagIsDropped` | does a list that is refused for any entry leave an earlier tag usable |
| `RefusedTurnClosesRecord` | can a record go on under the old key after a refused list that brought a tag with a new key or direction |
| `AcceptedIsCanonical` | can an accepted list be read in two ways, or a tag of another size reach the inner context |
| `GetAnswersWhole` | does a successful request leave an entry unanswered, or a failed one release the tag |
| `ImplementsCipher` | is every call with a list a call of `G301Cipher` |

`ImplementsCipher` is a refinement of the whole specification of section 2: what
is checked and proved there holds with lists, too. `params` has 17,000 states,
`params_of_cipher`, with one entry for each reason to refuse, 10,000.

### What is proved

`G301ParamsProofs`, for lists of any length and any set of entries:

| Theorem | Statement |
|---|---|
| `CipherImplemented` | `ParamsSpec => ImplementsCipher`, with no assumption beyond those of the modules |
| `ParamsInvariant` | the four promises together |
| `NoStaleTag` | `ParamsSpec => []RefusedTagIsDropped` |
| `TurnClosesRecord` | `ParamsSpec => []RefusedTurnClosesRecord` |
| `TakenIsCanonical` | `ParamsSpec => []AcceptedIsCanonical` |
| `AnsweredOrRefused` | `ParamsSpec => []GetAnswersWhole` |

`CipherImplemented` carries the theorems of section 2 over to a context that is
called with lists. The four properties speak of the last call; the proofs show
for each action what it notes in `request`, from what the validation of a list
implies for any entry of it. Of the past they need only the type of the context, which
`CipherImplemented` and `TypeCorrect` give, and so that the limit is below
`IntMax`.

## 5. The life of provider and contexts: `Provider`

Each allocation, each check after allocations and each release is one step,
because threads create and free contexts while others load and unload, and
because each step may fail alone. `holds` is what the code knows, the pointers
that are not `NULL`; `live` counts allocations less releases. The release
functions of the code skip what is `NULL`: `ReleaseNext` goes through the list
in the order of the code and skips what is not held.

| Code | Actions |
|---|---|
| `OSSL_provider_init` | `LoadBegin`, `LoadCallbacks`, `LoadChild`, `ReleaseProvider` on failure |
| `g301_provider_teardown` | `Teardown`, `ReleaseProvider` |
| `g301_provider_query_operation`, `g301_provider_get_capabilities` | `Fetch`, `GetCapabilities` |
| `g301_cipher_newctx`, `g301_evp_newctx` | `NewContext`, `NewContextStep`, `CheckInner`, `ReleaseInner`, `CheckContext` |
| `g301_evp_init` | `InnerInit`: the cipher is passed on until one initialisation succeeded |
| `g301_cipher_freectx`, `g301_evp_freectx` | `FreeContext`, `ReleaseContext` |

External, from how OpenSSL uses a provider: a context is created through a
fetched cipher, a context keeps its provider alive, and `teardown` is called
once after the last cipher and context are gone. This is the assumption under
which `NothingDangles` holds of the child library context; without it no
provider could be written.

### Run `provider` (`Provider.cfg`)

Two providers and two contexts, symmetric, loaded and unloaded without bound;
233,000 states, deadlock checked. Two of each show a context of one provider
while the other is unloaded, and two contexts of one provider in different
steps of creation and release.

| Property | The question |
|---|---|
| `TypeOK` | is anything released twice or allocated over itself |
| `NothingLeaks` | is everything allocated reachable, and all gone after a failure, a free or a teardown |
| `NothingDangles` | does anything outlive what it is reached through or depends on |
| `ReadyIsWhole` | can a caller hold a context with a part missing, without error callbacks, or one whose retry finds no cipher |

### What is proved

`ProviderProofs`, for any number of providers and contexts: `LifeInvariant`
(`Spec => []LifeInv`) and from it `ProviderTypeCorrect`, `NoLeak`, `NoDangling`
and `WholeWhenReady`, the four properties of the run. `LifeInv` says, for each
step in the life of a provider (`ProviderOK`) and of a context (`ContextOK`),
which parts it holds and which it does not, that a context belongs to a loaded
provider as long as it exists, and that what is held is what is live, once each
(`Counted`). Failure paths and frees run through the same list of releases from
different places, so at the step of a release nothing is known but the order:
what is reached through a part is held only while that part is. The assumption
is that the identities of providers and contexts are distinct.

## 6. Wire and keys: `RecordCodec`, `KeySchedule`

`InnerSession` takes a record to be what was sealed, and keys to be equal
exactly when epoch, channel and direction are. These two modules are why.

**`RecordCodec`**. A record has the sixteen bytes of its header one by one, and
a body and a tag of which only the number and the origin matter. `Seal` is
`seal_raw` with the encoding; `Receive` is the parser and the opening. Between
them the transport alters a byte of the header, alters body or tag, cuts bytes
off the end or adds some. AES-256-GCM is ideal: it opens under the nonce, AAD
and bytes it was sealed with. Sequence numbers have two halves of 32 bits, and
bytes are altered to values below 128, as TLC's integers have 32 bits; the
sequence numbers that are sealed end below 2^22, `HARD_RECORD_LIMIT`.

Run `record_codec` (`RecordCodec.cfg`): lengths 0, 1 and 16384, sequence
numbers 0, 65536 and 2^22-1, every type and channel, and either one fault on
the second of two records or two faults on one, so that a fault in the length
field can be made up for at the end of the record; 239,000 states. The system
stops when its faults are spent, so deadlock is not an error.
`OpensExactlySealed`: a record opens when, and only when, it is the sealed one.
`ParseExact`: there is one encoding of what parses. `NonceOnce`: sequence
numbers that differ in any byte give different nonces. The instance also
evaluates `ByteXor`, the sum of the bits in which two bytes differ, on all pairs
of bytes.

**`KeySchedule`**. SHA-384 and HKDF are terms, equal when their inputs are: the
code frames each variable input with its length. `DerivedSecrets` is the loop
that fills ten slots, in its order and with the arithmetic of
`material_index`, and a later key overwrites an earlier one in the same slot.
Threads run `from_exporter_epoch` concurrently: the exporter capability is
moved in and gone at the end whatever comes of the call, the derivation may
fail, and the `OnceLock` with the cipher is set by the first to arrive, to a
failure also.

Run `key_schedule` (`KeySchedule.cfg`): two threads, two connections of which
both endpoints live in the process, two application contexts and one of an
invalid length; 1,600 states, which are all there are, because capabilities are
used up. `OneSealerPerKey`: no two sessions of the process seal under a key,
nor one session on two channels. `KeysAgreeExactly`: keys are shared exactly as
`InnerSession` assumes.

### What is proved

`RecordCodecProofs`, for every IV, all lengths, all sequence numbers below
`HARD_RECORD_LIMIT`, bytes altered to any value, and any number and mixture of
faults on any number of records:

| Theorem | Statement |
|---|---|
| `RecordInvariant` | `Spec => []CodecInv` |
| `OnlySealedOpens` | `Spec => []OpensExactlySealed` |
| `ParsedIsCanonical` | `Spec => []ParseExact` |
| `NoncesDiffer` | `Spec => []NonceOnce` |
| `DecodeEncoded` | `Decode(Encoded(h)) = h` for every header `h` |
| `EncodeDecoded` | `Encoded(Decode(b)) = b` for every 16 bytes `b` that decode |
| `NonceInjective` | the nonce determines the sequence number, all 64 bits |

The last three are about the code's functions alone and go beyond what the
states reach: sequence numbers of 64 bits, every IV. Four bytes and a number
below 2^32 determine each other (`FourBytes`, `BytesRead`), the tables of types
and channels have no number twice, so a header and its sixteen bytes determine
each other too. A byte is the sum of its bits, so the exclusive or with a fixed
byte is injective (`XorInjective`), and with it the nonce.

`CodecInv` adds to the two promises about the last record what they rest on:
the history is of encoded headers with numbers below the next one of their
channel and all different (`SealedOk`), and what is under way consists of bytes
of one of these, with nothing behind a header that was cut short (`WireOk`).
`SealedOk` with `NonceInjective` is `NonceOnce`. What opens is untouched because
the AAD is the whole header and the tag covers the rest; that what is untouched
opens needs `DecodeEncoded`. What parses is sixteen bytes with a body, by
`WireOk`, and so canonical by `EncodeDecoded`.

`KeyScheduleProofs`, for any sets of threads, connections and contexts:
`LinearInvariant` (`Spec => []LinearInv`), `NoSharedSealer`
(`Spec => []OneSealerPerKey`) and `KeysAgree` (`Spec => []KeysAgreeExactly`).
`LinearInv` is the ownership that Rust's move semantics give: a capability is
with its role, in one call, or in one session created from it, and never in two
of these places. The rest is arithmetic and terms: `material_index` gives ten
different slots to the ten pairs of channel and direction, so the loop
overwrites none, and terms with different inputs differ.

## 7. Only model-checked, and not modelled

*Only model-checked*: `CommitCompletes` and `DrainingEnds`, because liveness and
ENABLED are out of the provers' reach. Every other property of a passing run is
a theorem. The proofs assume what the modules assume (`ASSUME`, evaluated by
TLC on every instance) and, for the cipher context, that the record limit is
below `IntMax`. No module of the project declares a recursive operator.

*Not modelled*: the constant parameters of the provider and its reason strings;
the errors raised, logging, and the cleansing of buffers; what EVP and libssl
do inside. Cryptography is assumed: an ideal AEAD, a hash and a key derivation
without collisions. The fetch of the inner cipher of a session fails as a whole
or not at all. The adapter between the layers is a document so far; its duties
appear as the assumptions of `OrderedSpec` and `FairOrderedSpec`. Benchmarks,
packaging, scripts and the test programs are left out.

## 8. Plan

*Done*: all modules of the table above with their runs, and the proofs of
sections 2 to 6.

What could follow is `TlsRecords`: two `G301Cipher` contexts of one connection
with record protection and key update between them, the budget seen by a peer.
