------------------------------ MODULE Provider ------------------------------
(***************************************************************************)
(* The life of the provider and of its cipher contexts: what loading a     *)
(* provider and creating a context allocate, in which order, and what is   *)
(* released when a later allocation fails (g301_provider.c, newctx and     *)
(* freectx in g301_cipher.c and g301_inner_evp.c); what a loaded provider  *)
(* offers; and the binding of the inner cipher at the first                *)
(* initialisation.                                                         *)
(*                                                                         *)
(* Threads create and free contexts while others load and unload, so every *)
(* allocation and every release is a step.  "holds" is what the code       *)
(* knows, the pointers that are not NULL; "live" is what is allocated.     *)
(***************************************************************************)
EXTENDS Integers, Sequences

CONSTANTS
  Providers,   \* instances of the provider, one for each library context
  Contexts,    \* the cipher contexts their clients create
  NoProvider   \* the provider of a context that does not exist

ASSUME OwnerAssumption == /\ Providers \cap Contexts = {}
                          /\ NoProvider \notin Providers

VARIABLES
  step,        \* where each provider and each context is in its life
  holds,       \* the pointers of each that are not NULL
  live,        \* history: allocations less releases of every resource
  errors,      \* the error functions of the core in each provider context
  registered,  \* external: the suites libssl took over from each provider
  fetched,     \* external: a client holds the EVP_CIPHER of the provider
  of,          \* the provider of each context
  evp          \* the binding of the inner cipher of each context

vars == <<step, holds, live, errors, registered, fetched, of, evp>>

Owners == Providers \union Contexts

(* Each list is in the order in which the code releases it.                *)
ProviderOrder == <<"child_libctx", "provctx">>
InnerOrder == <<"evp_cipher_ctx", "evp_cipher", "evp_inner">>

(* Mutants: the lock is forgotten; the context goes before the lock.       *)
ContextOrderNoLock == InnerOrder \o <<"cipher_ctx">>
ContextOrderSwapped == InnerOrder \o <<"cipher_ctx", "usage_lock">>

ContextOrder == InnerOrder \o <<"usage_lock", "cipher_ctx">>

ProviderKinds == {"provctx", "child_libctx"}
ContextKinds ==
  {"cipher_ctx", "usage_lock", "evp_inner", "evp_cipher", "evp_cipher_ctx"}
Resources == (ProviderKinds \X Providers) \union (ContextKinds \X Contexts)

ProviderSteps == {"none", "callbacks", "child", "ready", "unloaded", "release"}
ContextSteps == {"none", "lock", "inner", "cipher", "cipher_ctx",
                 "inner_check", "inner_release", "check", "ready", "release"}

CoreErrorFunctions == {"new_error", "set_error_debug", "vset_error"}

-----------------------------------------------------------------------------
(* What a loaded provider offers.                                          *)

WorkingName == "G301-AES-256-GCM-V1"
TagLength == 16

(* g301_ciphers, with the constants its contexts report.                   *)
Algorithms == {[name |-> WorkingName, key_length |-> 32, iv_length |-> 12,
                tag_length |-> TagLength]}

QueryOperation(operation) == IF operation = "cipher" THEN Algorithms ELSE {}

(* g301_tls_ciphersuite_params: the private code point is 0xff30.          *)
Descriptor ==
  [name |-> WorkingName, code_point |-> 65328, aead |-> WorkingName,
   digest |-> "SHA2-384", tag_length |-> TagLength, security_bits |-> 256]

-----------------------------------------------------------------------------
Allocate(o, kind) ==
  /\ holds' = [holds EXCEPT ![o] = @ \union {kind}]
  /\ live' = [live EXCEPT ![<<kind, o>>] = @ + 1]

Goto(o, s) == step' = [step EXCEPT ![o] = s]

(* Mutant: what was released is still pointed to.                          *)
ForgetNothing(pointers, kind) == pointers

Forget(pointers, kind) == pointers \ {kind}

(* Releases what order lists and o points to, one resource in a step, and  *)
(* goes on to the step "after".                                            *)
ReleaseNext(o, order, after) ==
  LET held == {i \in DOMAIN order : order[i] \in holds[o]}
  IN  IF held = {}
      THEN Goto(o, after) /\ UNCHANGED <<holds, live>>
      ELSE \E i \in held :
             /\ \A j \in held : i <= j
             /\ holds' = [holds EXCEPT ![o] = Forget(@, order[i])]
             /\ live' = [live EXCEPT ![<<order[i], o>>] = @ - 1]
             /\ UNCHANGED step

-----------------------------------------------------------------------------
(* OSSL_provider_init.  NULL arguments and a failing OPENSSL_zalloc change *)
(* nothing.                                                                *)

LoadBegin(p) ==
  /\ step[p] = "none"
  /\ Allocate(p, "provctx") /\ Goto(p, "callbacks")
  /\ UNCHANGED <<errors, registered, fetched, of, evp>>

(* The dispatch table of the core, which may lack what the provider needs. *)
LoadCallbacks(p) ==
  /\ step[p] = "callbacks"
  /\ \E given \in SUBSET CoreErrorFunctions :
       /\ errors' = [errors EXCEPT ![p] = given]
       /\ Goto(p, IF given = CoreErrorFunctions THEN "child" ELSE "release")
  /\ UNCHANGED <<holds, live, registered, fetched, of, evp>>

LoadChild(p) ==
  /\ step[p] = "child"
  /\ \/ Allocate(p, "child_libctx") /\ Goto(p, "ready")
     \/ Goto(p, "release") /\ UNCHANGED <<holds, live>>
  /\ UNCHANGED <<errors, registered, fetched, of, evp>>

(* g301_provider_get_capabilities: the callback of libssl takes the suite  *)
(* over or refuses it; another capability calls nobody back.               *)
GetCapabilities(p) ==
  /\ step[p] = "ready"
  /\ registered' = [registered EXCEPT ![p] = @ \union {Descriptor}]
  /\ UNCHANGED <<step, holds, live, errors, fetched, of, evp>>

(* A client fetches a cipher by the name of an algorithm.                  *)
Fetch(p, name) ==
  /\ step[p] = "ready"
  /\ \E a \in QueryOperation("cipher") : a.name = name
  /\ fetched' = [fetched EXCEPT ![p] = TRUE]
  /\ UNCHANGED <<step, holds, live, errors, registered, of, evp>>

DropCipher(p) ==
  /\ fetched[p]
  /\ fetched' = [fetched EXCEPT ![p] = FALSE]
  /\ UNCHANGED <<step, holds, live, errors, registered, of, evp>>

(* The library context gives the provider up; libcrypto calls teardown     *)
(* once no cipher and no context refers to it.                             *)
Unload(p) ==
  /\ step[p] = "ready" /\ Goto(p, "unloaded")
  /\ registered' = [registered EXCEPT ![p] = {}]
  /\ UNCHANGED <<holds, live, errors, fetched, of, evp>>

Teardown(p) ==
  /\ step[p] = "unloaded" /\ ~fetched[p] /\ \A c \in Contexts : of[c] # p
  /\ Goto(p, "release")
  /\ UNCHANGED <<holds, live, errors, registered, fetched, of, evp>>

(* g301_provider_teardown, and the error paths of OSSL_provider_init.      *)
ReleaseProvider(p) ==
  /\ step[p] = "release"
  /\ ReleaseNext(p, ProviderOrder, "none")
  /\ errors' = [errors EXCEPT ![p] = IF "provctx" \in holds'[p] THEN @ ELSE {}]
  /\ UNCHANGED <<registered, fetched, of, evp>>

-----------------------------------------------------------------------------
(* g301_cipher_newctx; the steps of g301_evp_newctx are "inner" to         *)
(* "inner_release".  The inner wrapper returns NULL when it fails.         *)

NewContext(c, p) ==
  /\ step[c] = "none" /\ fetched[p]
  /\ Allocate(c, "cipher_ctx") /\ Goto(c, "lock")
  /\ of' = [of EXCEPT ![c] = p]
  /\ evp' = [evp EXCEPT ![c] = [initialized |-> FALSE, bound |-> FALSE]]
  /\ UNCHANGED <<errors, registered, fetched>>

(* What a step allocates, and where it goes on: only without a structure   *)
(* to fill does the inner newctx give up at once.                          *)
Allocation(s) ==
  CASE s = "lock"       -> [kind |-> "usage_lock", next |-> "inner"]
    [] s = "inner"      -> [kind |-> "evp_inner", next |-> "cipher"]
    [] s = "cipher"     -> [kind |-> "evp_cipher", next |-> "cipher_ctx"]
    [] s = "cipher_ctx" -> [kind |-> "evp_cipher_ctx", next |-> "inner_check"]

Allocating == {"lock", "inner", "cipher", "cipher_ctx"}

NewContextStep(c) ==
  /\ step[c] \in Allocating
  /\ LET s == step[c]
     IN  \/ Allocate(c, Allocation(s).kind) /\ Goto(c, Allocation(s).next)
         \/ /\ Goto(c, IF s = "inner" THEN "check" ELSE Allocation(s).next)
            /\ UNCHANGED <<holds, live>>
  /\ UNCHANGED <<errors, registered, fetched, of, evp>>

CheckInner(c) ==
  /\ step[c] = "inner_check"
  /\ Goto(c, IF {"evp_cipher", "evp_cipher_ctx"} \subseteq holds[c]
             THEN "check" ELSE "inner_release")
  /\ UNCHANGED <<holds, live, errors, registered, fetched, of, evp>>

ReleaseInner(c) ==
  /\ step[c] = "inner_release"
  /\ ReleaseNext(c, InnerOrder, "check")
  /\ UNCHANGED <<errors, registered, fetched, of, evp>>

(* Mutant: a lock is enough.                                               *)
CompleteWithoutInner(c) == "usage_lock" \in holds[c]

Complete(c) == {"usage_lock", "evp_inner"} \subseteq holds[c]

CheckContext(c) ==
  /\ step[c] = "check"
  /\ Goto(c, IF Complete(c) THEN "ready" ELSE "release")
  /\ UNCHANGED <<holds, live, errors, registered, fetched, of, evp>>

Initialised(e, ok, bound) ==
  [initialized |-> e.initialized \/ ok, bound |-> bound]

(* g301_evp_init: the cipher goes in until one initialisation succeeded.   *)
(* One that fails may have bound it.                                       *)
InnerInit(c, ok) ==
  LET passed == ~evp[c].initialized
  IN  /\ step[c] = "ready"
      /\ \E bound \in {evp[c].bound, evp[c].bound \/ passed} :
           /\ ok => bound
           /\ evp' = [evp EXCEPT ![c] = Initialised(@, ok, bound)]
      /\ UNCHANGED <<step, holds, live, errors, registered, fetched, of>>

(* g301_cipher_freectx, called by the client.                              *)
FreeContext(c) ==
  /\ step[c] = "ready" /\ Goto(c, "release")
  /\ UNCHANGED <<holds, live, errors, registered, fetched, of, evp>>

ReleaseContext(c) ==
  /\ step[c] = "release"
  /\ ReleaseNext(c, ContextOrder, "none")
  /\ of' = [of EXCEPT ![c] = IF step'[c] = "none" THEN NoProvider ELSE @]
  /\ UNCHANGED <<errors, registered, fetched, evp>>

-----------------------------------------------------------------------------
Init ==
  /\ step = [o \in Owners |-> "none"]
  /\ holds = [o \in Owners |-> {}]
  /\ live = [r \in Resources |-> 0]
  /\ errors = [p \in Providers |-> {}]
  /\ registered = [p \in Providers |-> {}]
  /\ fetched = [p \in Providers |-> FALSE]
  /\ of = [c \in Contexts |-> NoProvider]
  /\ evp = [c \in Contexts |-> [initialized |-> FALSE, bound |-> FALSE]]

ProviderNext(p) ==
  \/ LoadBegin(p)
  \/ LoadCallbacks(p)
  \/ LoadChild(p)
  \/ GetCapabilities(p)
  \/ \E d \in registered[p] : Fetch(p, d.aead)
  \/ Fetch(p, WorkingName)
  \/ DropCipher(p)
  \/ Unload(p)
  \/ Teardown(p)
  \/ ReleaseProvider(p)

ContextNext(c) ==
  \/ \E p \in Providers : NewContext(c, p)
  \/ NewContextStep(c)
  \/ CheckInner(c)
  \/ ReleaseInner(c)
  \/ CheckContext(c)
  \/ \E ok \in BOOLEAN : InnerInit(c, ok)
  \/ FreeContext(c)
  \/ ReleaseContext(c)

Next ==
  \/ \E p \in Providers : ProviderNext(p)
  \/ \E c \in Contexts : ContextNext(c)

Spec == Init /\ [][Next]_vars

-----------------------------------------------------------------------------
(* Every variable keeps its domain: no resource is allocated over one that *)
(* is still there (2), and none is released twice (-1), on any of the      *)
(* paths that fail.                                                        *)
TypeOK ==
  /\ step \in [Owners -> ProviderSteps \union ContextSteps]
  /\ holds \in [Owners -> SUBSET (ProviderKinds \union ContextKinds)]
  /\ \A p \in Providers : step[p] \in ProviderSteps /\ holds[p] \subseteq ProviderKinds
  /\ \A c \in Contexts : step[c] \in ContextSteps /\ holds[c] \subseteq ContextKinds
  /\ live \in [Resources -> 0..1]
  /\ errors \in [Providers -> SUBSET CoreErrorFunctions]
  /\ registered \in [Providers -> SUBSET {Descriptor}]
  /\ fetched \in [Providers -> BOOLEAN]
  /\ of \in [Contexts -> Providers \union {NoProvider}]
  /\ evp \in [Contexts -> [initialized : BOOLEAN, bound : BOOLEAN]]

(* Nothing leaks: what is allocated is what some pointer still reaches,    *)
(* and when a load or newctx has failed, a context was freed or a provider *)
(* torn down, nothing of it is left.                                       *)
NothingLeaks ==
  /\ \A r \in Resources : live[r] = 1 <=> r[1] \in holds[r[2]]
  /\ \A o \in Owners : step[o] = "none" => holds[o] = {}

(* What each resource is reached through or depends on.                    *)
Supports(kind, o) ==
  CASE kind = "provctx"      -> {}
    [] kind = "child_libctx" -> {<<"provctx", o>>}
    [] kind = "cipher_ctx"   -> {<<"provctx", of[o]>>}
    [] kind \in {"usage_lock", "evp_inner"} -> {<<"cipher_ctx", o>>}
    [] kind = "evp_cipher_ctx" -> {<<"evp_inner", o>>}
    [] kind = "evp_cipher"   -> {<<"evp_inner", o>>, <<"child_libctx", of[o]>>}

(* No use after release, whatever the other threads do: a resource goes    *)
(* before the structure that points to it, and a context, the inner cipher *)
(* it fetched in the child library context above all, before the provider. *)
NothingDangles ==
  \A r \in Resources : live[r] = 1 =>
    \A s \in Supports(r[1], r[2]) : live[s] = 1

(* A context a caller can use is whole: all its parts were allocated, its  *)
(* provider can report errors to the core through all three functions,     *)
(* which g301_raise_error needs together, and the inner cipher is there to *)
(* work with: the wrapper stops passing it on only when the inner context  *)
(* has it, so an initialisation that fails can be retried.                 *)
ReadyIsWhole ==
  \A c \in Contexts : step[c] = "ready" =>
    /\ holds[c] = ContextKinds
    /\ step[of[c]] \in {"ready", "unloaded"}
    /\ errors[of[c]] = CoreErrorFunctions
    /\ evp[c].initialized => evp[c].bound

=============================================================================
